--------------------------- MODULE MCMsgQueueList ---------------------------
(* MsgQueueList for TLC: two message loops, as many nodes as messages. *)
EXTENDS MsgQueueList, TLC

\* Message loops differ only by name.
GetterSymmetry == Permutations(Getters)
=============================================================================
