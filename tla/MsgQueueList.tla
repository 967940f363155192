----------------------------- MODULE MsgQueueList -----------------------------
(***************************************************************************)
(* ff_ffmsg_queue.h as it is written: nodes chained by next, taken from    *)
(* and returned to a recycle list, and the objects messages own.  It       *)
(* implements MsgQueue (see Abstract below).                               *)
(*                                                                         *)
(* Addresses are numbers, NULL is 0.  A message with an object owns the    *)
(* object whose name is the message's serial number.                       *)
(***************************************************************************)
EXTENDS Naturals, FiniteSets, Sequences

CONSTANTS Getters, Whats, FLUSH,
          MaxId,     \* bound: messages put in a behaviour
          MaxNode    \* bound: nodes av_malloc can return

ASSUME BoundsAssumption == MaxId \in Nat /\ MaxNode \in Nat

NULL == 0
Node == 1..MaxNode
NoMsg == [what |-> FLUSH, id |-> 0, obj |-> NULL]

VARIABLES list,     \* first_msg, last_msg, recycle_msg, nb_messages, the nodes
          abort,    \* abort_request
          waiting, woken, nextId, last, answer,  \* as in MsgQueue
          live,     \* objects allocated and not freed
          held,     \* the object of the message a getter has copied out
          rejected, \* objects of messages an aborted queue refused
          phase     \* "open", then msg_queue_flush, then msg_queue_destroy

vars == <<list, abort, waiting, woken, nextId, last, answer, live, held,
          rejected, phase>>

Msg == [what : Whats \cup {FLUSH}, id : 0..MaxId, obj : 0..MaxId]

TypeOK ==
  /\ list \in [first : Node \cup {NULL}, last : Node \cup {NULL},
               recycle : Node \cup {NULL}, nb : Nat,
               next : [Node -> Node \cup {NULL}], data : [Node -> Msg],
               used : SUBSET Node]
  /\ abort \in BOOLEAN
  /\ waiting \subseteq Getters /\ woken \subseteq Getters
  /\ nextId \in 1..(MaxId + 1) /\ last \in 0..MaxId
  /\ answer \in [Getters -> {"none", "message", "aborted"}]
  /\ live \subseteq 1..MaxId /\ rejected \subseteq 1..MaxId
  /\ held \in [Getters -> 0..MaxId]
  /\ phase \in {"open", "flushed", "destroyed"}

Init ==
  /\ list = [first |-> NULL, last |-> NULL, recycle |-> NULL, nb |-> 0,
             next |-> [n \in Node |-> NULL], data |-> [n \in Node |-> NoMsg],
             used |-> {}]
  /\ abort = TRUE
  /\ waiting = {} /\ woken = {}
  /\ nextId = 1 /\ last = 0
  /\ answer = [t \in Getters |-> "none"]
  /\ live = {} /\ rejected = {}
  /\ held = [t \in Getters |-> NULL]
  /\ phase = "open"

-----------------------------------------------------------------------------
\* What next of the node at address n leads to.
After(l, n) == IF n = NULL THEN NULL ELSE l.next[n]

\* The nodes from address n to the end of its chain.  The loops over a chain are
\* functions of the number of their turns: no chain is longer than MaxNode, and a
\* turn at its end changes nothing.
Follow(l, n) ==
  LET at[i \in 0..MaxNode] == IF i = 0 THEN n ELSE After(l, at[i - 1])
  IN  at

Chain(l, n) ==
  [i \in 1..Cardinality({k \in 0..MaxNode : Follow(l, n)[k] # NULL}) |->
     Follow(l, n)[i - 1]]

\* The objects of the nodes of a chain.
Objs(l, n) == {l.data[Chain(l, n)[i]].obj : i \in DOMAIN Chain(l, n)} \ {NULL}

\* A node for a new message: the head of the recycle list, else a fresh one.
HasNode(l) == l.recycle # NULL \/ l.used # Node
NodeFor(l) == IF l.recycle # NULL THEN l.recycle
              ELSE CHOOSE n \in Node \ l.used : TRUE

\* The node is taken, filled and linked behind last_msg.
AppendNode(l, m) ==
  LET n == NodeFor(l)
  IN  [l EXCEPT !.recycle = IF @ # NULL THEN l.next[@] ELSE @,
                !.used = @ \cup {n},
                !.data[n] = m,
                !.next = IF l.last = NULL THEN [@ EXCEPT ![n] = NULL]
                         ELSE [@ EXCEPT ![n] = NULL, ![l.last] = n],
                !.first = IF l.last = NULL THEN n ELSE @,
                !.last = n,
                !.nb = @ + 1]

\* Faulty: the recycled node keeps the address of the object.
PopKeepsObject(l) ==
  LET n == l.first
  IN  [l EXCEPT !.first = l.next[n],
                !.last = IF l.next[n] = NULL THEN NULL ELSE @,
                !.nb = @ - 1,
                !.next[n] = l.recycle,
                !.recycle = n]

\* The node at first_msg is unlinked, loses its object and is recycled.
PopNode(l) ==
  LET n == l.first
  IN  [l EXCEPT !.first = l.next[n],
                !.last = IF l.next[n] = NULL THEN NULL ELSE @,
                !.nb = @ - 1,
                !.data[n].obj = NULL,
                !.next[n] = l.recycle,
                !.recycle = n]

\* The node behind prev (the head if prev is NULL) is unlinked and recycled,
\* its object freed.
UnlinkNode(l, prev, n) ==
  LET cut == IF prev = NULL THEN [l EXCEPT !.first = l.next[n]]
             ELSE [l EXCEPT !.next[prev] = l.next[n]]
  IN  [cut EXCEPT !.next[n] = l.recycle,
                  !.data[n].obj = NULL,
                  !.recycle = n,
                  !.nb = @ - 1]

\* One turn of the loop of msg_queue_remove; prev is the node kept last.
RemoveTurn(w, what) ==
  LET n == IF w.prev = NULL THEN w.list.first ELSE w.list.next[w.prev]
  IN  IF n = NULL THEN w
      ELSE IF w.list.data[n].what = what
           THEN [w EXCEPT !.list = UnlinkNode(w.list, w.prev, n)]
           ELSE [w EXCEPT !.prev = n]

RemoveWalk(l, what) ==
  LET walk[i \in 0..MaxNode] ==
        IF i = 0 THEN [list |-> l, prev |-> NULL] ELSE RemoveTurn(walk[i - 1], what)
  IN  walk

\* Faulty: last_msg is not brought up to date.
RemoveKeepsLast(l, what) == RemoveWalk(l, what)[MaxNode].list

\* msg_queue_remove after its loop.
RemoveNodes(l, what) ==
  LET end == RemoveWalk(l, what)[MaxNode]
  IN  [end.list EXCEPT !.last = IF end.list.first # NULL THEN end.prev ELSE NULL]

\* One turn of the loop of msg_queue_flush: the node is recycled, its object left in it.
RecycleTurn(w) ==
  IF w.at = NULL THEN w
  ELSE [list |-> [w.list EXCEPT !.next[w.at] = w.list.recycle, !.recycle = w.at],
        at |-> w.list.next[w.at]]

RecycleWalk(l) ==
  LET walk[i \in 0..MaxNode] ==
        IF i = 0 THEN [list |-> l, at |-> l.first] ELSE RecycleTurn(walk[i - 1])
  IN  walk

RecycleNodes(l) ==
  [RecycleWalk(l)[MaxNode].list EXCEPT !.first = NULL, !.last = NULL, !.nb = 0]

-----------------------------------------------------------------------------
\* Faulty: nobody is signalled.
SignalNobody == UNCHANGED <<waiting, woken>>

\* SDL_CondSignal
SignalOne ==
  IF waiting = {} THEN UNCHANGED <<waiting, woken>>
  ELSE \E t \in waiting : /\ waiting' = waiting \ {t}
                          /\ woken' = woken \cup {t}

\* msg_queue_put of a message whose object, if it has one, its caller has just
\* allocated.  A message refused is dropped with its object: msg_queue_put_simple4
\* does not look at what msg_queue_put returns.
Put(what, withObj) ==
  LET m == [what |-> what, id |-> nextId,
            obj |-> IF withObj THEN nextId ELSE NULL]
      objs == {m.obj} \ {NULL}
  IN  /\ phase = "open"
      /\ nextId <= MaxId
      /\ nextId' = nextId + 1
      /\ live' = live \cup objs
      /\ IF abort
         THEN /\ rejected' = rejected \cup objs
              /\ UNCHANGED <<list, waiting, woken>>
         ELSE /\ HasNode(list)
              /\ list' = AppendNode(list, m)
              /\ SignalOne
              /\ UNCHANGED rejected
      /\ UNCHANGED <<abort, last, answer, held, phase>>

Start ==
  /\ phase = "open"
  /\ nextId <= MaxId
  /\ HasNode(list)
  /\ abort' = FALSE
  /\ list' = AppendNode(list, [what |-> FLUSH, id |-> nextId, obj |-> NULL])
  /\ nextId' = nextId + 1
  /\ SignalOne
  /\ UNCHANGED <<last, answer, live, held, rejected, phase>>

Abort ==
  /\ phase = "open"
  /\ abort' = TRUE
  /\ SignalOne
  /\ UNCHANGED <<list, nextId, last, answer, live, held, rejected, phase>>

Remove(what) ==
  /\ phase = "open"
  /\ IF ~abort /\ list.first # NULL
     THEN /\ list' = RemoveNodes(list, what)
          /\ live' = live \ {n \in 1..MaxId : \E i \in DOMAIN Chain(list, list.first) :
                               LET m == list.data[Chain(list, list.first)[i]]
                               IN  m.what = what /\ m.obj = n}
     ELSE UNCHANGED <<list, live>>
  /\ UNCHANGED <<abort, waiting, woken, nextId, last, answer, held, rejected, phase>>

\* msg_queue_get by a thread that has freed the message it got before.
Get(t, block) ==
  /\ phase = "open"
  /\ t \notin waiting
  /\ t \in woken => block
  /\ held[t] = NULL
  /\ woken' = woken \ {t}
  /\ \/ /\ abort
        /\ answer' = [answer EXCEPT ![t] = "aborted"]
        /\ UNCHANGED <<list, last, held, waiting>>
     \/ /\ ~abort
        /\ list.first # NULL
        /\ list' = PopNode(list)
        /\ held' = [held EXCEPT ![t] = list.data[list.first].obj]
        /\ last' = list.data[list.first].id
        /\ answer' = [answer EXCEPT ![t] = "message"]
        /\ UNCHANGED waiting
     \/ /\ ~abort
        /\ list.first = NULL
        /\ IF block
           THEN waiting' = waiting \cup {t} /\ UNCHANGED answer
           ELSE answer' = [answer EXCEPT ![t] = "none"] /\ UNCHANGED waiting
        /\ UNCHANGED <<list, last, held>>
  /\ UNCHANGED <<abort, nextId, live, rejected, phase>>

\* msg_free_res by the loop that got the message.
FreeRes(t) ==
  /\ held[t] # NULL
  /\ live' = live \ {held[t]}
  /\ held' = [held EXCEPT ![t] = NULL]
  /\ UNCHANGED <<list, abort, waiting, woken, nextId, last, answer, rejected, phase>>

SpuriousWakeup(t) ==
  /\ t \in waiting
  /\ waiting' = waiting \ {t}
  /\ woken' = woken \cup {t}
  /\ UNCHANGED <<list, abort, nextId, last, answer, live, held, rejected, phase>>

\* ffp_reset_internal in ffp_destroy: the queue is aborted and no loop is left.
Flush ==
  /\ phase = "open"
  /\ abort
  /\ waiting \cup woken = {}
  /\ list' = RecycleNodes(list)
  /\ phase' = "flushed"
  /\ UNCHANGED <<abort, waiting, woken, nextId, last, answer, live, held, rejected>>

\* msg_queue_destroy: flushes again and frees the recycled nodes.
Destroy ==
  /\ phase = "flushed"
  /\ LET l == RecycleNodes(list)
     IN  /\ live' = live \ Objs(l, l.recycle)
         /\ list' = [l EXCEPT !.recycle = NULL, !.used = {}]
  /\ phase' = "destroyed"
  /\ UNCHANGED <<abort, waiting, woken, nextId, last, answer, held, rejected>>

Next ==
  \/ \E what \in Whats, withObj \in BOOLEAN : Put(what, withObj)
  \/ \E what \in Whats : Remove(what)
  \/ Start
  \/ Abort
  \/ Flush
  \/ Destroy
  \/ \E t \in Getters, block \in BOOLEAN : Get(t, block)
  \/ \E t \in Getters : FreeRes(t) \/ SpuriousWakeup(t)

Spec == Init /\ [][Next]_vars

-----------------------------------------------------------------------------
\* Pointers agree with each other after every operation: first_msg, last_msg
\* and nb_messages describe one chain, and every node allocated is either in
\* it or in the recycle list, once.
ListOK ==
  LET queued == Chain(list, list.first)
      free   == Chain(list, list.recycle)
      all    == queued \o free
  IN  /\ Len(queued) = list.nb
      /\ list.last = (IF list.nb = 0 THEN NULL ELSE queued[list.nb])
      /\ Cardinality({all[i] : i \in DOMAIN all}) = Len(all)
      /\ {all[i] : i \in DOMAIN all} = list.used

\* An object has one owner at a time, and nobody else keeps its address: a
\* queued message, a message flushed but not destroyed, or the loop that got
\* it.  What an aborted queue refused is the only object nobody can free.
ObjectsOwned ==
  LET queued == Objs(list, list.first)
      free   == Objs(list, list.recycle)
      taken  == {held[t] : t \in Getters} \ {NULL}
  IN  /\ live = queued \cup free \cup taken \cup rejected
      /\ queued \cap (free \cup taken \cup rejected) = {}
      /\ free \cap (taken \cup rejected) = {}
      /\ taken \cap rejected = {}
      /\ \A t, u \in Getters : held[t] = held[u] /\ held[t] # NULL => t = u

\* The chain of nodes implements the queue of MsgQueue, each operation the
\* operation of the same name; recycling and freeing are invisible to it.
Abstract ==
  INSTANCE MsgQueue WITH
    q <- [msgs    |-> [i \in 1..Len(Chain(list, list.first)) |->
                         LET m == list.data[Chain(list, list.first)[i]]
                         IN  [what |-> m.what, id |-> m.id]],
          abort   |-> abort,
          waiting |-> waiting,
          woken   |-> woken]

ImplementsMsgQueue == Abstract!Spec
=============================================================================
