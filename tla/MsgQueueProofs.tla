---------------------------- MODULE MsgQueueProofs ----------------------------
(***************************************************************************)
(* Proofs about MsgQueue, for any number of kinds of message, any bound on *)
(* the messages and, where it is not said otherwise, any number of getters.*)
(* First, what the operations of ff_ffmsg_queue.h do to a queue.           *)
(***************************************************************************)
EXTENDS MsgQueue, TLAPS

\* A queue of messages M that threads G take from: no thread is both asleep and
\* awake.
Queues(G, M) == [msgs : Seq(M), abort : BOOLEAN,
                 waiting : SUBSET G, woken : SUBSET G]

WellFormed(w, G, M) == w \in Queues(G, M) /\ w.waiting \cap w.woken = {}

-----------------------------------------------------------------------------
\* SDL_CondSignal only moves one thread from those waiting to those woken.
LEMMA SignalEffect ==
  ASSUME NEW G, NEW M, NEW w, WellFormed(w, G, M), NEW v \in Signal(w)
  PROVE  /\ WellFormed(v, G, M)
         /\ v.msgs = w.msgs
         /\ v.abort = w.abort
         /\ v.waiting \subseteq w.waiting
         /\ w.waiting # {} => v.waiting # w.waiting
<1>1. CASE w.waiting = {}
  BY <1>1 DEF Signal, WellFormed
<1>2. CASE w.waiting # {}
  <2>1. PICK t \in w.waiting :
          v = [w EXCEPT !.waiting = @ \ {t}, !.woken = @ \cup {t}]
    BY <1>2 DEF Signal
  <2> QED
    BY <2>1 DEF WellFormed, Queues
<1> QED
  BY <1>1, <1>2

\* msg_queue_put_private appends at most one message and, when it does, wakes
\* a thread if any waits.
LEMMA PutEffect ==
  ASSUME NEW G, NEW M, NEW w, WellFormed(w, G, M), NEW m \in M, NEW v \in PutTo(w, m)
  PROVE  /\ WellFormed(v, G, M)
         /\ v.abort = w.abort
         /\ v.waiting \subseteq w.waiting
         /\ w.abort => v = w
         /\ ~w.abort => /\ v.msgs = Append(w.msgs, m)
                        /\ w.waiting # {} => v.waiting # w.waiting
<1>1. CASE w.abort
  BY <1>1 DEF PutTo
<1>2. CASE ~w.abort
  <2>1. PICK u \in Signal(w) : v = [u EXCEPT !.msgs = Append(@, m)]
    BY <1>2 DEF PutTo
  <2>2. /\ WellFormed(u, G, M)
        /\ u.msgs = w.msgs
        /\ u.abort = w.abort
        /\ u.waiting \subseteq w.waiting
        /\ w.waiting # {} => u.waiting # w.waiting
    BY SignalEffect
  <2>3. Append(u.msgs, m) \in Seq(M)
    BY <2>2 DEF WellFormed, Queues
  <2> QED
    BY <1>2, <2>1, <2>2, <2>3 DEF WellFormed, Queues
<1> QED
  BY <1>1, <1>2

\* What msg_queue_remove keeps is a part of the queue in its order.
LEMMA RemoveEffect ==
  ASSUME NEW G, NEW M, NEW w, WellFormed(w, G, M), NEW what, NEW v \in RemoveFrom(w, what)
  PROVE  /\ WellFormed(v, G, M)
         /\ v.abort = w.abort
         /\ v.waiting = w.waiting
         /\ v.woken = w.woken
         /\ w.msgs = <<>> => v.msgs = <<>>
         /\ \E f \in [1..Len(v.msgs) -> 1..Len(w.msgs)] :
              /\ \A i \in 1..Len(v.msgs) : v.msgs[i] = w.msgs[f[i]]
              /\ \A i, j \in 1..Len(v.msgs) : i < j => f[i] < f[j]
<1>0. w.msgs \in Seq(M)
  BY DEF WellFormed, Queues
<1>1. CASE w.abort \/ w.msgs = <<>>
  <2>1. v = w
    BY <1>1 DEF RemoveFrom
  <2>2. DEFINE id == [i \in 1..Len(w.msgs) |-> i]
  <2>3. /\ id \in [1..Len(v.msgs) -> 1..Len(w.msgs)]
        /\ \A i \in 1..Len(v.msgs) : v.msgs[i] = w.msgs[id[i]]
        /\ \A i, j \in 1..Len(v.msgs) : i < j => id[i] < id[j]
    BY <2>1
  <2> QED
    BY <2>1, <2>3
<1>2. CASE ~(w.abort \/ w.msgs = <<>>)
  <2> DEFINE Other(m) == m.what # what
             kept == {i \in DOMAIN w.msgs : Other(w.msgs[i])}
  <2>1. PICK f \in Selections(w.msgs, Other) :
          v = [w EXCEPT !.msgs = [i \in DOMAIN f |-> w.msgs[f[i]]]]
    BY <1>2 DEF RemoveFrom
  <2>2. PICK n \in 0..Len(w.msgs) : f \in [1..n -> kept]
    BY DEF Selections
  <2>3. \A i, j \in DOMAIN f : i < j => f[i] < f[j]
    BY DEF Selections
  <2>4. n \in Nat /\ DOMAIN f = 1..n /\ kept \subseteq 1..Len(w.msgs)
    BY <1>0, <2>2
  <2>5. v.msgs = [i \in 1..n |-> w.msgs[f[i]]]
    BY <2>1, <2>4 DEF WellFormed, Queues
  <2>6. \A i \in 1..n : f[i] \in 1..Len(w.msgs) /\ w.msgs[f[i]] \in M
    BY <1>0, <2>2, <2>4
  <2>7. v.msgs \in Seq(M) /\ Len(v.msgs) = n
    BY <2>4, <2>5, <2>6
  <2>8. WellFormed(v, G, M) /\ v.abort = w.abort /\ v.waiting = w.waiting /\ v.woken = w.woken
    BY <2>1, <2>7 DEF WellFormed, Queues
  <2>9. f \in [1..Len(v.msgs) -> 1..Len(w.msgs)]
    BY <2>2, <2>4, <2>7
  <2> QED
    BY <1>2, <2>3, <2>4, <2>5, <2>7, <2>8, <2>9
<1> QED
  BY <1>1, <1>2

\* One turn of msg_queue_get takes the head, or nothing.
LEMMA GetEffect ==
  ASSUME NEW G, NEW M, NEW w, WellFormed(w, G, M), NEW t \in G, NEW block \in BOOLEAN,
         t \notin w.waiting
  PROVE  /\ WellFormed(GetBy(w, t, block), G, M)
         /\ GetBy(w, t, block).abort = w.abort
         /\ GetResult(w, block) = "message" =>
              /\ w.msgs # <<>>
              /\ GetBy(w, t, block).msgs = Tail(w.msgs)
              /\ GetBy(w, t, block).waiting = w.waiting
         /\ GetResult(w, block) = "waits" =>
              /\ GetBy(w, t, block).msgs = w.msgs
              /\ w.msgs = <<>> /\ ~w.abort
         /\ GetResult(w, block) \notin {"message", "waits"} =>
              /\ GetBy(w, t, block).msgs = w.msgs
              /\ GetBy(w, t, block).waiting = w.waiting
<1>1. w.msgs # <<>> => Tail(w.msgs) \in Seq(M)
  BY DEF WellFormed, Queues
<1> QED
  BY <1>1 DEF GetBy, GetResult, WellFormed, Queues

-----------------------------------------------------------------------------
\* Every operation of ff_ffmsg_queue.h leaves a well-formed queue.
THEOREM TypeCorrect == Spec => []TypeOK
<1>1. Init => TypeOK
  BY DEF Init, TypeOK, NewQueue, Msg
<1>2. TypeOK /\ [Next]_vars => TypeOK'
  <2> SUFFICES ASSUME TypeOK, [Next]_vars PROVE TypeOK'
    OBVIOUS
  <2>0. WellFormed(q, Getters, Msg) /\ nextId \in Nat /\ last \in Nat
        /\ answer \in [Getters -> {"none", "message", "aborted"}]
    BY DEF TypeOK, WellFormed, Queues
  <2>00. TypeOK' <=> /\ WellFormed(q', Getters, Msg) /\ nextId' \in Nat /\ last' \in Nat
                     /\ answer' \in [Getters -> {"none", "message", "aborted"}]
    BY DEF TypeOK, WellFormed, Queues
  <2>m. \A what \in Whats \cup {FLUSH} : Message(what) \in Msg
    BY <2>0 DEF Message, Msg
  <2>1. ASSUME NEW what \in Whats, Put(what) PROVE TypeOK'
    <3>1. WellFormed(q', Getters, Msg)
      BY <2>0, <2>1, <2>m, PutEffect DEF Put
    <3> QED
      BY <2>0, <2>00, <2>1, <3>1 DEF Put
  <2>2. ASSUME NEW what \in Whats, Remove(what) PROVE TypeOK'
    <3>1. WellFormed(q', Getters, Msg)
      BY <2>0, <2>2, RemoveEffect DEF Remove
    <3> QED
      BY <2>0, <2>00, <2>2, <3>1 DEF Remove
  <2>3. CASE Start
    <3>1. WellFormed([q EXCEPT !.abort = FALSE], Getters, Msg)
      BY <2>0 DEF WellFormed, Queues
    <3>2. WellFormed(q', Getters, Msg)
      BY <2>0, <2>3, <2>m, <3>1, PutEffect DEF Start, StartOf
    <3> QED
      BY <2>0, <2>00, <2>3, <3>2 DEF Start
  <2>4. CASE Abort
    <3>1. WellFormed([q EXCEPT !.abort = TRUE], Getters, Msg)
      BY <2>0 DEF WellFormed, Queues
    <3>2. WellFormed(q', Getters, Msg)
      BY <2>4, <3>1, SignalEffect DEF Abort, AbortOf
    <3> QED
      BY <2>0, <2>00, <2>4, <3>2 DEF Abort
  <2>5. CASE Flush
    <3>1. q' = [q EXCEPT !.msgs = <<>>] /\ UNCHANGED <<nextId, last, answer>>
      BY <2>5 DEF Flush, FlushOf
    <3>2. <<>> \in Seq(Msg)
      OBVIOUS
    <3>3. WellFormed(q', Getters, Msg)
      BY <2>0, <3>1, <3>2 DEF WellFormed, Queues
    <3> QED
      BY <2>0, <2>00, <3>1, <3>3
  <2>6. ASSUME NEW t \in Getters, NEW block \in BOOLEAN, Get(t, block)
        PROVE  TypeOK'
    <3>1. WellFormed(q', Getters, Msg)
      BY <2>0, <2>6, GetEffect DEF Get
    <3>2. last' \in Nat
      <4>1. q.msgs # <<>> => Head(q.msgs) \in Msg
        BY <2>0 DEF WellFormed, Queues
      <4>2. GetResult(q, block) = "message" => q.msgs # <<>>
        BY DEF GetResult
      <4> QED
        BY <2>0, <2>6, <4>1, <4>2 DEF Get, Msg
    <3>3. answer' \in [Getters -> {"none", "message", "aborted"}]
      BY <2>0, <2>6 DEF Get, GetResult
    <3> QED
      BY <2>0, <2>00, <2>6, <3>1, <3>2, <3>3 DEF Get
  <2>7. ASSUME NEW t \in Getters, SpuriousWakeup(t) PROVE TypeOK'
    BY <2>0, <2>00, <2>7 DEF SpuriousWakeup, WellFormed, Queues
  <2>8. CASE UNCHANGED vars
    BY <2>8 DEF vars, TypeOK
  <2> QED
    BY <2>1, <2>2, <2>3, <2>4, <2>5, <2>6, <2>7, <2>8 DEF Next
<1> QED
  BY <1>1, <1>2, PTL DEF Spec

-----------------------------------------------------------------------------
\* With one message loop no wake-up is lost: msg_queue_put and msg_queue_abort
\* signal under the mutex that msg_queue_get checks under.
THEOREM WakeupCorrect == ASSUME OneGetter PROVE Spec => []NoLostWakeup
<1>1. Init => NoLostWakeup
  BY DEF Init, NewQueue, NoLostWakeup
<1>2. TypeOK /\ NoLostWakeup /\ [Next]_vars => NoLostWakeup'
  <2> SUFFICES ASSUME TypeOK, NoLostWakeup, [Next]_vars PROVE NoLostWakeup'
    OBVIOUS
  <2>0. WellFormed(q, Getters, Msg) /\ nextId \in Nat
    BY DEF TypeOK, WellFormed, Queues
  <2>m. \A what \in Whats \cup {FLUSH} : Message(what) \in Msg
    BY <2>0 DEF Message, Msg
  <2>w. \A S \in SUBSET Getters : S \subseteq q.waiting /\ S # q.waiting => S = {}
    BY <2>0 DEF OneGetter, WellFormed, Queues
  <2>1. ASSUME NEW what \in Whats, Put(what) PROVE NoLostWakeup'
    <3>1. q' \in PutTo(q, Message(what)) /\ Message(what) \in Msg
      BY <2>1, <2>m DEF Put
    <3>2. CASE q.abort
      BY <2>0, <3>1, <3>2, PutEffect DEF NoLostWakeup
    <3>3. CASE ~q.abort
      <4>1. /\ q'.waiting \subseteq q.waiting
            /\ q.waiting # {} => q'.waiting # q.waiting
            /\ WellFormed(q', Getters, Msg)
        BY <2>0, <3>1, <3>3, PutEffect
      <4>2. q'.waiting = {}
        BY <2>w, <4>1 DEF WellFormed, Queues
      <4> QED
        BY <4>2 DEF NoLostWakeup
    <3> QED
      BY <3>2, <3>3
  <2>2. ASSUME NEW what \in Whats, Remove(what) PROVE NoLostWakeup'
    BY <2>0, <2>2, RemoveEffect DEF Remove, NoLostWakeup
  <2>3. CASE Start
    <3> DEFINE w == [q EXCEPT !.abort = FALSE]
    <3>1. WellFormed(w, Getters, Msg) /\ w.waiting = q.waiting /\ ~w.abort
      BY <2>0 DEF WellFormed, Queues
    <3>2. q' \in PutTo(w, Message(FLUSH)) /\ Message(FLUSH) \in Msg
      BY <2>3, <2>m DEF Start, StartOf
    <3>3. q'.waiting = {}
      <4> HIDE DEF w
      <4>1. /\ q'.waiting \subseteq q.waiting
            /\ q.waiting # {} => q'.waiting # q.waiting
            /\ WellFormed(q', Getters, Msg)
        BY <3>1, <3>2, PutEffect
      <4> QED
        BY <2>w, <4>1 DEF WellFormed, Queues
    <3> QED
      BY <3>3 DEF NoLostWakeup
  <2>4. CASE Abort
    <3> DEFINE w == [q EXCEPT !.abort = TRUE]
    <3>1. WellFormed(w, Getters, Msg) /\ w.waiting = q.waiting
      BY <2>0 DEF WellFormed, Queues
    <3>2. q'.waiting = {}
      <4>1. q' \in Signal(w)
        BY <2>4 DEF Abort, AbortOf
      <4> HIDE DEF w
      <4>2. /\ q'.waiting \subseteq q.waiting
            /\ q.waiting # {} => q'.waiting # q.waiting
            /\ WellFormed(q', Getters, Msg)
        BY <3>1, <4>1, SignalEffect
      <4> QED
        BY <2>w, <4>2 DEF WellFormed, Queues
    <3> QED
      BY <3>2 DEF NoLostWakeup
  <2>5. CASE Flush
    BY <2>0, <2>5 DEF Flush, FlushOf, NoLostWakeup, WellFormed, Queues
  <2>6. ASSUME NEW t \in Getters, NEW block \in BOOLEAN, Get(t, block)
        PROVE  NoLostWakeup'
    <3>1. q' = GetBy(q, t, block) /\ t \notin q.waiting
      BY <2>6 DEF Get
    <3>2. q.waiting = {}
      BY <2>0, <3>1 DEF OneGetter, WellFormed, Queues
    <3> QED
      BY <2>0, <3>1, <3>2, GetEffect DEF NoLostWakeup
  <2>7. ASSUME NEW t \in Getters, SpuriousWakeup(t) PROVE NoLostWakeup'
    BY <2>0, <2>7 DEF SpuriousWakeup, NoLostWakeup, WellFormed, Queues
  <2>8. CASE UNCHANGED vars
    BY <2>8 DEF vars, NoLostWakeup
  <2> QED
    BY <2>1, <2>2, <2>3, <2>4, <2>5, <2>6, <2>7, <2>8 DEF Next
<1> QED
  BY <1>1, <1>2, TypeCorrect, PTL DEF Spec

-----------------------------------------------------------------------------
\* Messages are delivered in the order they were put, for any number of
\* message loops on one queue.
THEOREM FifoCorrect == Spec => []Fifo
<1>1. Init => Fifo
  BY DEF Init, NewQueue, Fifo
<1>2. TypeOK /\ Fifo /\ [Next]_vars => Fifo'
  <2> SUFFICES ASSUME TypeOK, Fifo, [Next]_vars PROVE Fifo'
    OBVIOUS
  <2>0. /\ WellFormed(q, Getters, Msg) /\ nextId \in Nat /\ last \in Nat /\ q.msgs \in Seq(Msg)
        /\ \A i \in 1..Len(q.msgs) : q.msgs[i].id \in Nat
    <3>1. /\ WellFormed(q, Getters, Msg) /\ nextId \in Nat /\ last \in Nat
          /\ q.msgs \in Seq(Msg)
      BY DEF TypeOK, WellFormed, Queues
    <3>2. \A i \in 1..Len(q.msgs) : q.msgs[i] \in Msg
      BY <3>1
    <3> QED
      BY <3>1, <3>2 DEF Msg
  <2>m. \A what \in Whats \cup {FLUSH} :
          Message(what) \in Msg /\ Message(what).id = nextId
    BY <2>0 DEF Message, Msg
  \* Putting the youngest message keeps the order.
  <2>p. ASSUME NEW m \in Msg, m.id = nextId, nextId' = nextId + 1, last' = last,
               q'.msgs = q.msgs \/ q'.msgs = Append(q.msgs, m)
        PROVE  Fifo'
    <3>1. CASE q'.msgs = q.msgs
      BY <2>0, <2>p, <3>1 DEF Fifo
    <3>2. CASE q'.msgs = Append(q.msgs, m)
      <4>1. /\ Len(q'.msgs) = Len(q.msgs) + 1 /\ Len(q.msgs) \in Nat
            /\ \A i \in 1..Len(q.msgs) : q'.msgs[i] = q.msgs[i]
            /\ q'.msgs[Len(q.msgs) + 1] = m
        BY <2>0, <3>2
      <4>2. \A i \in 1..Len(q'.msgs) :
              \/ i \in 1..Len(q.msgs) /\ q'.msgs[i] = q.msgs[i]
              \/ i = Len(q.msgs) + 1 /\ q'.msgs[i].id = nextId
        BY <2>p, <4>1
      <4>3. /\ last' < nextId'
            /\ \A i \in 1..Len(q'.msgs) :
                 last' < q'.msgs[i].id /\ q'.msgs[i].id < nextId'
        BY <2>0, <2>p, <4>2 DEF Fifo
      <4>4. ASSUME NEW i \in 1..Len(q'.msgs), NEW j \in 1..Len(q'.msgs), i < j
            PROVE  q'.msgs[i].id < q'.msgs[j].id
        <5>1. i \in 1..Len(q.msgs) /\ q'.msgs[i] = q.msgs[i]
          BY <4>1, <4>2, <4>4
        <5> QED
          BY <2>0, <4>2, <4>4, <5>1 DEF Fifo
      <4> QED
        BY <4>3, <4>4 DEF Fifo
    <3> QED
      BY <2>p, <3>1, <3>2
  <2>1. ASSUME NEW what \in Whats, Put(what) PROVE Fifo'
    BY <2>0, <2>1, <2>m, <2>p, PutEffect DEF Put
  <2>2. ASSUME NEW what \in Whats, Remove(what) PROVE Fifo'
    <3>1. PICK f \in [1..Len(q'.msgs) -> 1..Len(q.msgs)] :
            /\ \A i \in 1..Len(q'.msgs) : q'.msgs[i] = q.msgs[f[i]]
            /\ \A i, j \in 1..Len(q'.msgs) : i < j => f[i] < f[j]
      BY <2>0, <2>2, RemoveEffect DEF Remove
    <3> QED
      BY <2>0, <2>2, <3>1 DEF Remove, Fifo
  <2>3. CASE Start
    <3> DEFINE w == [q EXCEPT !.abort = FALSE]
    <3>1. WellFormed(w, Getters, Msg) /\ w.msgs = q.msgs /\ ~w.abort
      BY <2>0 DEF WellFormed, Queues
    <3>2. q' \in PutTo(w, Message(FLUSH)) /\ nextId' = nextId + 1 /\ last' = last
      BY <2>3 DEF Start, StartOf
    <3>3. q'.msgs = Append(q.msgs, Message(FLUSH))
      <4> HIDE DEF w
      <4> QED
        BY <2>m, <3>1, <3>2, PutEffect
    <3> QED
      BY <2>m, <2>p, <3>2, <3>3
  <2>4. CASE Abort
    <3> DEFINE w == [q EXCEPT !.abort = TRUE]
    <3>1. WellFormed(w, Getters, Msg) /\ w.msgs = q.msgs
      BY <2>0 DEF WellFormed, Queues
    <3>2. q'.msgs = q.msgs
      <4>1. q' \in Signal(w)
        BY <2>4 DEF Abort, AbortOf
      <4> HIDE DEF w
      <4> QED
        BY <3>1, <4>1, SignalEffect
    <3> QED
      BY <2>4, <3>2 DEF Abort, Fifo
  <2>5. CASE Flush
    <3>1. /\ q'.msgs = <<>> /\ Len(q'.msgs) = 0
          /\ UNCHANGED <<nextId, last>>
      BY <2>0, <2>5 DEF Flush, FlushOf, WellFormed, Queues
    <3> QED
      BY <3>1 DEF Fifo
  <2>6. ASSUME NEW t \in Getters, NEW block \in BOOLEAN, Get(t, block)
        PROVE  Fifo'
    <3>1. q' = GetBy(q, t, block) /\ t \notin q.waiting /\ nextId' = nextId
      BY <2>6 DEF Get
    <3>2. CASE GetResult(q, block) = "message"
      <4>1. q'.msgs = Tail(q.msgs) /\ q.msgs # <<>> /\ last' = Head(q.msgs).id
        BY <2>0, <2>6, <3>1, <3>2, GetEffect DEF Get
      <4>2. /\ Len(q.msgs) \in Nat \ {0} /\ Len(q'.msgs) = Len(q.msgs) - 1
            /\ \A i \in 1..Len(q'.msgs) : q'.msgs[i] = q.msgs[i + 1]
            /\ last' = q.msgs[1].id
        BY <2>0, <4>1
      <4>3. last' < nextId'
        BY <3>1, <4>2 DEF Fifo
      <4>4. \A i \in 1..Len(q'.msgs) :
              last' < q'.msgs[i].id /\ q'.msgs[i].id < nextId'
        <5> SUFFICES ASSUME NEW i \in 1..Len(q'.msgs)
                     PROVE  last' < q'.msgs[i].id /\ q'.msgs[i].id < nextId'
          OBVIOUS
        <5>1. i + 1 \in 1..Len(q.msgs) /\ 1 \in 1..Len(q.msgs) /\ 1 < i + 1
          BY <4>2
        <5> QED
          BY <3>1, <4>2, <5>1 DEF Fifo
      <4>5. \A i, j \in 1..Len(q'.msgs) : i < j => q'.msgs[i].id < q'.msgs[j].id
        <5> SUFFICES ASSUME NEW i \in 1..Len(q'.msgs),
                            NEW j \in 1..Len(q'.msgs), i < j
                     PROVE  q'.msgs[i].id < q'.msgs[j].id
          OBVIOUS
        <5>1. i + 1 \in 1..Len(q.msgs) /\ j + 1 \in 1..Len(q.msgs) /\ i + 1 < j + 1
          BY <4>2
        <5> QED
          BY <4>2, <5>1 DEF Fifo
      <4> QED
        BY <4>3, <4>4, <4>5 DEF Fifo
    <3>3. CASE GetResult(q, block) # "message"
      <4>1. q'.msgs = q.msgs /\ last' = last
        BY <2>0, <2>6, <3>1, <3>3, GetEffect DEF Get
      <4> QED
        BY <3>1, <4>1 DEF Fifo
    <3> QED
      BY <3>2, <3>3
  <2>7. ASSUME NEW t \in Getters, SpuriousWakeup(t) PROVE Fifo'
    BY <2>0, <2>7 DEF SpuriousWakeup, Fifo, WellFormed, Queues
  <2>8. CASE UNCHANGED vars
    BY <2>8 DEF vars, Fifo
  <2> QED
    BY <2>1, <2>2, <2>3, <2>4, <2>5, <2>6, <2>7, <2>8 DEF Next
<1> QED
  BY <1>1, <1>2, TypeCorrect, PTL DEF Spec
=============================================================================
