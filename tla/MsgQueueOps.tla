----------------------------- MODULE MsgQueueOps -----------------------------
(***************************************************************************)
(* The operations of ff_ffmsg_queue.h as functions from a queue to the set *)
(* of queues one call can leave.  Each operation runs under q->mutex, so   *)
(* it is one step.                                                         *)
(*                                                                         *)
(* A queue is a record                                                     *)
(*   msgs     what is linked from first_msg to last_msg, oldest first      *)
(*   abort    abort_request                                                *)
(*   waiting  the threads inside SDL_CondWait                              *)
(*   woken    the threads that were signalled and have to reacquire mutex  *)
(* A message is any record with a field "what".                            *)
(***************************************************************************)
EXTENDS Naturals, Sequences, FiniteSets

\* msg_queue_init: a new queue is empty and aborted until msg_queue_start.
NewQueue == [msgs |-> <<>>, abort |-> TRUE, waiting |-> {}, woken |-> {}]

\* Faulty: the thread signalled is still counted as waiting.
SignalKeepsWaiting(q) ==
  IF q.waiting = {} THEN {q}
  ELSE {[q EXCEPT !.woken = @ \cup {t}] : t \in q.waiting}

\* SDL_CondSignal: one thread of those waiting, nobody chooses which.
Signal(q) ==
  IF q.waiting = {} THEN {q}
  ELSE {[q EXCEPT !.waiting = @ \ {t}, !.woken = @ \cup {t}] : t \in q.waiting}

\* Faulty: nobody is signalled.
PutSilently(q, m) ==
  IF q.abort THEN {q} ELSE {[q EXCEPT !.msgs = Append(@, m)]}

\* msg_queue_put_private: refused on an aborted queue, else appended; one
\* waiting thread is signalled.
PutTo(q, m) ==
  IF q.abort THEN {q}
  ELSE {[w EXCEPT !.msgs = Append(@, m)] : w \in Signal(q)}

\* Faulty: the FLUSH message overtakes what an earlier session left.
StartInFront(q, flush) ==
  Signal([q EXCEPT !.abort = FALSE, !.msgs = <<flush>> \o @])

\* msg_queue_start: what an earlier session left in the queue stays in front
\* of the FLUSH message.
StartOf(q, flush) == PutTo([q EXCEPT !.abort = FALSE], flush)

\* Faulty: nobody is signalled.
AbortSilently(q) == {[q EXCEPT !.abort = TRUE]}

\* msg_queue_abort: one signal, however many threads wait.
AbortOf(q) == Signal([q EXCEPT !.abort = TRUE])

\* msg_queue_flush: unlinks everything and signals nobody.
FlushOf(q) == {[q EXCEPT !.msgs = <<>>]}

\* The places of the messages of ms that are kept, oldest first.  The filter
\* spells out what the enumeration is, for the proofs, which cannot count.
Selections(ms, Keep(_)) ==
  LET kept     == {i \in DOMAIN ms : Keep(ms[i])}
      place(i) == CHOOSE k \in kept : Cardinality({j \in kept : j <= k}) = i
  IN  {f \in {[i \in 1..Cardinality(kept) |-> place(i)]} :
         /\ \E n \in 0..Len(ms) : f \in [1..n -> kept]
         /\ \A i \in kept : \E j \in DOMAIN f : f[j] = i
         /\ \A i, j \in DOMAIN f : i < j => f[i] < f[j]}

\* msg_queue_remove: every message of kind `what` is unlinked, unless aborted.
RemoveFrom(q, what) ==
  IF q.abort \/ q.msgs = <<>> THEN {q}
  ELSE LET Other(m) == m.what # what
       IN  {[q EXCEPT !.msgs = [i \in DOMAIN f |-> q.msgs[f[i]]]] :
              f \in Selections(q.msgs, Other)}

\* One turn of the loop of msg_queue_get by thread t, which has the mutex: t
\* is not waiting.  What the turn answers is GetResult, what it leaves GetBy.
GetResult(q, block) ==
  IF q.abort THEN "aborted"
  ELSE IF q.msgs # <<>> THEN "message"
  ELSE IF block THEN "waits" ELSE "none"

GetBy(q, t, block) ==
  LET awake == [q EXCEPT !.woken = @ \ {t}]
  IN  CASE GetResult(q, block) = "message" -> [awake EXCEPT !.msgs = Tail(@)]
        [] GetResult(q, block) = "waits"   -> [awake EXCEPT !.waiting = @ \cup {t}]
        [] OTHER                           -> awake
=============================================================================
