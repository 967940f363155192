------------------------------ MODULE MCMsgQueue ------------------------------
(* MsgQueue for TLC: one message loop, two kinds of message, MaxId puts. *)
EXTENDS MsgQueue
=============================================================================
