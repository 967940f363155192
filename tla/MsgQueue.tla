------------------------------- MODULE MsgQueue -------------------------------
(***************************************************************************)
(* What the message queue between the player's threads and its message     *)
(* loops promises (ff_ffmsg_queue.h).  Any thread puts, removes, starts    *)
(* and aborts; the message loops, Getters, take messages.  Messages carry  *)
(* a serial number that the code does not have, so that order can be       *)
(* spoken of.                                                              *)
(***************************************************************************)
EXTENDS MsgQueueOps

CONSTANTS Getters,   \* threads that call msg_queue_get
          Whats,     \* kinds of message put by the player
          FLUSH,     \* FFP_MSG_FLUSH, put by msg_queue_start
          MaxId      \* bound: messages put in a behaviour

ASSUME MaxIdAssumption == MaxId \in Nat

VARIABLES q,        \* the queue
          nextId,   \* serial number of the next message
          last,     \* serial number of the message delivered last
          answer    \* what msg_queue_get answered each getter last

vars == <<q, nextId, last, answer>>

Msg == [what : Whats \cup {FLUSH}, id : Nat]

TypeOK ==
  /\ q \in [msgs : Seq(Msg), abort : BOOLEAN,
            waiting : SUBSET Getters, woken : SUBSET Getters]
  /\ q.waiting \cap q.woken = {}
  /\ nextId \in Nat
  /\ last \in Nat
  /\ answer \in [Getters -> {"none", "message", "aborted"}]

Init ==
  /\ q = NewQueue
  /\ nextId = 1
  /\ last = 0
  /\ answer = [t \in Getters |-> "none"]

Message(what) == [what |-> what, id |-> nextId]

Put(what) ==
  /\ nextId <= MaxId
  /\ q' \in PutTo(q, Message(what))
  /\ nextId' = nextId + 1
  /\ UNCHANGED <<last, answer>>

Start ==
  /\ nextId <= MaxId
  /\ q' \in StartOf(q, Message(FLUSH))
  /\ nextId' = nextId + 1
  /\ UNCHANGED <<last, answer>>

Abort ==
  /\ q' \in AbortOf(q)
  /\ UNCHANGED <<nextId, last, answer>>

Flush ==
  /\ q' \in FlushOf(q)
  /\ UNCHANGED <<nextId, last, answer>>

Remove(what) ==
  /\ q' \in RemoveFrom(q, what)
  /\ UNCHANGED <<nextId, last, answer>>

\* A woken thread is inside a blocking call and goes round its loop again.
Get(t, block) ==
  /\ t \notin q.waiting
  /\ t \in q.woken => block
  /\ q' = GetBy(q, t, block)
  /\ last' = IF GetResult(q, block) = "message" THEN Head(q.msgs).id ELSE last
  /\ answer' = IF GetResult(q, block) = "waits" THEN answer
               ELSE [answer EXCEPT ![t] = GetResult(q, block)]
  /\ UNCHANGED nextId

\* pthread_cond_wait may return without a signal.
SpuriousWakeup(t) ==
  /\ t \in q.waiting
  /\ q' = [q EXCEPT !.waiting = @ \ {t}, !.woken = @ \cup {t}]
  /\ UNCHANGED <<nextId, last, answer>>

Next ==
  \/ \E what \in Whats : Put(what) \/ Remove(what)
  \/ Start
  \/ Abort
  \/ Flush
  \/ \E t \in Getters, block \in BOOLEAN : Get(t, block)
  \/ \E t \in Getters : SpuriousWakeup(t)

Spec == Init /\ [][Next]_vars

\* A message loop is a thread that calls msg_queue_get(.., 1) again and again.
FairSpec == Spec /\ \A t \in Getters : WF_vars(Get(t, TRUE))

-----------------------------------------------------------------------------
\* There is one message loop (what ijkmp_prepare_async_l starts, as long as
\* the one before it has ended).
OneGetter == \A t, u \in Getters : t = u

\* A thread sleeps in msg_queue_get only while there is nothing for it: every
\* put and abort that could end the wait has signalled it.  Needs OneGetter.
NoLostWakeup == q.waiting # {} => q.msgs = <<>> /\ ~q.abort

\* Messages are delivered in the order they were put, whatever was removed in
\* between and across stop and start: what is queued is in order, and younger
\* than what was delivered.
Fifo ==
  /\ last < nextId
  /\ \A i, j \in 1..Len(q.msgs) : i < j => q.msgs[i].id < q.msgs[j].id
  /\ \A i \in 1..Len(q.msgs) : last < q.msgs[i].id /\ q.msgs[i].id < nextId

\* msg_queue_abort ends a blocking msg_queue_get: the thread that waits comes
\* back, unless the queue is started again first.  Needs OneGetter.
AbortUnblocks ==
  \A t \in Getters : q.abort /\ t \in q.waiting \cup q.woken
                       ~> t \notin q.waiting \cup q.woken \/ ~q.abort

\* A message is taken, removed or flushed, or the queue is aborted: with the
\* message loop alive nothing stays queued for ever.
Consumed ==
  \A n \in 1..MaxId :
    (\E i \in DOMAIN q.msgs : q.msgs[i].id = n) /\ ~q.abort
      ~> (\A i \in DOMAIN q.msgs : q.msgs[i].id # n) \/ q.abort
=============================================================================
