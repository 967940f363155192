-------------------------- MODULE MsgQueueListProofs --------------------------
(***************************************************************************)
(* Proofs about MsgQueueList, for any number of nodes, messages, kinds of  *)
(* message and getters: the pointers agree with each other, an object has  *)
(* one owner, and the list implements the queue of MsgQueue.               *)
(*                                                                         *)
(* A chain of nodes is described by the sequence of its addresses: s for   *)
(* the queue, r for the recycle list.                                      *)
(***************************************************************************)
EXTENDS MsgQueueList, FiniteSetTheorems, FunctionTheorems, SequenceTheorems, TLAPS

Pointer == Node \cup {NULL}
Lists == [first : Pointer, last : Pointer, recycle : Pointer, nb : Nat,
          next : [Node -> Pointer], data : [Node -> Msg], used : SUBSET Node]

\* What next leads to from place i - 1 of a chain, or from its head.
At(s, i) == IF i \in 1..Len(s) THEN s[i] ELSE NULL

Linked(l, n, s) ==
  /\ s \in Seq(Node)
  /\ n = At(s, 1)
  /\ \A i \in 1..Len(s) : l.next[s[i]] = At(s, i + 1)

\* No node is in a chain twice, or in both.
Distinct(s) == \A i, j \in 1..Len(s) : s[i] = s[j] => i = j
Apart(s, r) == \A i \in 1..Len(s), j \in 1..Len(r) : s[i] # r[j]
InChain(s, n) == \E i \in 1..Len(s) : s[i] = n

\* The nodes in use are in the chain from address n or in the recycle list.
Chains(l, n, s, r) ==
  /\ Linked(l, n, s) /\ Linked(l, l.recycle, r)
  /\ Distinct(s) /\ Distinct(r) /\ Apart(s, r)
  /\ l.used = {m \in Node : InChain(s, m) \/ InChain(r, m)}

Shaped(l, s, r) ==
  /\ l \in Lists
  /\ Chains(l, l.first, s, r)
  /\ l.nb = Len(s)
  /\ l.last = At(s, Len(s))

-----------------------------------------------------------------------------
(* Loops *)

\* Induction up to n, for sets.
LEMMA UpTo ==
  ASSUME NEW n \in Nat, NEW S, 0 \in S, \A i \in 0..n : i < n /\ i \in S => i + 1 \in S
  PROVE  \A i \in 0..n : i \in S
<1> SUFFICES ASSUME \E i \in 0..n : i \notin S PROVE FALSE
  OBVIOUS
<1> DEFINE T == {i \in 0..n : i \notin S}
<1>1. T \subseteq Nat /\ T # {}
  OBVIOUS
<1>2. \E x \in T : \A y \in T : ~(<<y, x>> \in OpToRel(<, Nat))
  BY <1>1, WFMin, NatLessThanWellFounded
<1>3. \A x, y \in Nat : <<y, x>> \in OpToRel(<, Nat) <=> y < x
  BY DEF OpToRel
<1>4. PICK x \in T : \A y \in T : ~(y < x)
  BY <1>1, <1>2, <1>3
<1>5. x \in Nat /\ x # 0 /\ x - 1 \in 0..n /\ x - 1 < n /\ x - 1 < x
  BY <1>4
<1>6. x - 1 \in S
  BY <1>4, <1>5
<1> QED BY <1>4, <1>5, <1>6

\* Going along next is what it says: turn i takes what turn i - 1 left.
LEMMA Following ==
  ASSUME NEW l, NEW n
  PROVE  /\ Follow(l, n)[0] = n
         /\ \A i \in 1..MaxNode : Follow(l, n)[i] = After(l, Follow(l, n)[i - 1])
<1> DEFINE Turns(f, k) == f = [i \in 0..k |-> IF i = 0 THEN n ELSE After(l, f[i - 1])]
           S == {k \in Nat : \E f : Turns(f, k)}
<1>1. 0 \in S
  <2> DEFINE f == [i \in 0..0 |-> n]
  <2>1. Turns(f, 0)
    OBVIOUS
  <2> QED BY <2>1
<1>2. ASSUME NEW k \in Nat, k \in S PROVE k + 1 \in S
  <2>1. PICK f : Turns(f, k)
    BY <1>2
  <2> DEFINE g == [i \in 0..(k + 1) |-> IF i = 0 THEN n ELSE After(l, f[i - 1])]
  <2>2. \A i \in 0..k : g[i] = f[i]
    BY <2>1
  <2>3. \A i \in 0..(k + 1) : i = 0 \/ i - 1 \in 0..k
    OBVIOUS
  <2>4. \A i \in 0..(k + 1) : i = 0 \/ g[i - 1] = f[i - 1]
    <3> HIDE DEF g
    <3> QED BY <2>2, <2>3
  <2>5. Turns(g, k + 1)
    BY <2>4
  <2>6. k + 1 \in Nat
    OBVIOUS
  <2> QED BY <2>5, <2>6
<1>3. MaxNode \in Nat
  BY BoundsAssumption
<1>4. \A i \in 0..MaxNode : i \in S
  <2> HIDE DEF S
  <2> QED BY <1>1, <1>2, <1>3, UpTo
<1>5. \E f : Turns(f, MaxNode)
  BY <1>3, <1>4
<1>6. Turns(Follow(l, n), MaxNode)
  BY <1>5 DEF Follow
<1> HIDE DEF Turns
<1>7. Follow(l, n) = [i \in 0..MaxNode |-> IF i = 0 THEN n ELSE After(l, Follow(l, n)[i - 1])]
  BY <1>6 DEF Turns
<1> QED BY <1>3, <1>7

\* So are the loops of msg_queue_remove and msg_queue_flush.
LEMMA Removing ==
  ASSUME NEW l, NEW what
  PROVE  /\ RemoveWalk(l, what)[0] = [list |-> l, prev |-> NULL]
         /\ \A i \in 1..MaxNode : RemoveWalk(l, what)[i] = RemoveTurn(RemoveWalk(l, what)[i - 1], what)
<1> DEFINE Turns(f, k) == f = [i \in 0..k |-> IF i = 0 THEN [list |-> l, prev |-> NULL] ELSE RemoveTurn(f[i - 1], what)]
           S == {k \in Nat : \E f : Turns(f, k)}
<1>1. 0 \in S
  <2> DEFINE f == [i \in 0..0 |-> [list |-> l, prev |-> NULL]]
  <2>1. Turns(f, 0)
    OBVIOUS
  <2> QED BY <2>1
<1>2. ASSUME NEW k \in Nat, k \in S PROVE k + 1 \in S
  <2>1. PICK f : Turns(f, k)
    BY <1>2
  <2> DEFINE g == [i \in 0..(k + 1) |-> IF i = 0 THEN [list |-> l, prev |-> NULL] ELSE RemoveTurn(f[i - 1], what)]
  <2>2. \A i \in 0..k : g[i] = f[i]
    BY <2>1
  <2>3. \A i \in 0..(k + 1) : i = 0 \/ i - 1 \in 0..k
    OBVIOUS
  <2>4. \A i \in 0..(k + 1) : i = 0 \/ g[i - 1] = f[i - 1]
    <3> HIDE DEF g
    <3> QED BY <2>2, <2>3
  <2>5. Turns(g, k + 1)
    BY <2>4
  <2>6. k + 1 \in Nat
    OBVIOUS
  <2> QED BY <2>5, <2>6
<1>3. MaxNode \in Nat
  BY BoundsAssumption
<1>4. \A i \in 0..MaxNode : i \in S
  <2> HIDE DEF S
  <2> QED BY <1>1, <1>2, <1>3, UpTo
<1>5. \E f : Turns(f, MaxNode)
  BY <1>3, <1>4
<1>6. Turns(RemoveWalk(l, what), MaxNode)
  BY <1>5 DEF RemoveWalk
<1> HIDE DEF Turns
<1>7. RemoveWalk(l, what) = [i \in 0..MaxNode |-> IF i = 0 THEN [list |-> l, prev |-> NULL] ELSE RemoveTurn(RemoveWalk(l, what)[i - 1], what)]
  BY <1>6 DEF Turns
<1> QED BY <1>3, <1>7


LEMMA Recycling ==
  ASSUME NEW l
  PROVE  /\ RecycleWalk(l)[0] = [list |-> l, at |-> l.first]
         /\ \A i \in 1..MaxNode : RecycleWalk(l)[i] = RecycleTurn(RecycleWalk(l)[i - 1])
<1> DEFINE Turns(f, k) == f = [i \in 0..k |-> IF i = 0 THEN [list |-> l, at |-> l.first] ELSE RecycleTurn(f[i - 1])]
           S == {k \in Nat : \E f : Turns(f, k)}
<1>1. 0 \in S
  <2> DEFINE f == [i \in 0..0 |-> [list |-> l, at |-> l.first]]
  <2>1. Turns(f, 0)
    OBVIOUS
  <2> QED BY <2>1
<1>2. ASSUME NEW k \in Nat, k \in S PROVE k + 1 \in S
  <2>1. PICK f : Turns(f, k)
    BY <1>2
  <2> DEFINE g == [i \in 0..(k + 1) |-> IF i = 0 THEN [list |-> l, at |-> l.first] ELSE RecycleTurn(f[i - 1])]
  <2>2. \A i \in 0..k : g[i] = f[i]
    BY <2>1
  <2>3. \A i \in 0..(k + 1) : i = 0 \/ i - 1 \in 0..k
    OBVIOUS
  <2>4. \A i \in 0..(k + 1) : i = 0 \/ g[i - 1] = f[i - 1]
    <3> HIDE DEF g
    <3> QED BY <2>2, <2>3
  <2>5. Turns(g, k + 1)
    BY <2>4
  <2>6. k + 1 \in Nat
    OBVIOUS
  <2> QED BY <2>5, <2>6
<1>3. MaxNode \in Nat
  BY BoundsAssumption
<1>4. \A i \in 0..MaxNode : i \in S
  <2> HIDE DEF S
  <2> QED BY <1>1, <1>2, <1>3, UpTo
<1>5. \E f : Turns(f, MaxNode)
  BY <1>3, <1>4
<1>6. Turns(RecycleWalk(l), MaxNode)
  BY <1>5 DEF RecycleWalk
<1> HIDE DEF Turns
<1>7. RecycleWalk(l) = [i \in 0..MaxNode |-> IF i = 0 THEN [list |-> l, at |-> l.first] ELSE RecycleTurn(RecycleWalk(l)[i - 1])]
  BY <1>6 DEF Turns
<1> QED BY <1>3, <1>7

-----------------------------------------------------------------------------
(* Chains *)

\* How many numbers there are from 1, and from 0, on.
LEMMA Count ==
  ASSUME NEW n \in Nat
  PROVE  /\ IsFiniteSet(1..n) /\ Cardinality(1..n) = n
         /\ IsFiniteSet(0..(n - 1)) /\ Cardinality(0..(n - 1)) = n
<1>1. IsFiniteSet(1..n) /\ Cardinality(1..n) = (IF 1 > n THEN 0 ELSE n - 1 + 1)
  BY FS_Interval
<1>2. n - 1 \in Int
  OBVIOUS
<1>3. IsFiniteSet(0..(n - 1)) /\ Cardinality(0..(n - 1)) = (IF 0 > n - 1 THEN 0 ELSE n - 1 - 0 + 1)
  BY <1>2, FS_Interval
<1> QED BY <1>1, <1>3

\* A sequence of distinct nodes is no longer than there are nodes.
LEMMA Short ==
  ASSUME NEW s \in Seq(Node), Distinct(s)
  PROVE  Len(s) \in 0..MaxNode
<1>0. MaxNode \in Nat /\ Len(s) \in Nat
  BY BoundsAssumption
<1>1. /\ IsFiniteSet(Node) /\ Cardinality(Node) = MaxNode
      /\ IsFiniteSet(1..Len(s)) /\ Cardinality(1..Len(s)) = Len(s)
  BY <1>0, Count DEF Node
<1>2. s \in [1..Len(s) -> Node]
  OBVIOUS
<1>3. s \in Injection(1..Len(s), Node)
  BY <1>2 DEF Injection, IsInjective, Distinct
<1>4. Len(s) <= MaxNode
  BY <1>1, <1>3, FS_Injection
<1> QED BY <1>0, <1>4

\* Following the pointers one finds the chain.
LEMMA ChainIs ==
  ASSUME NEW l, NEW n, NEW s, Linked(l, n, s), Distinct(s)
  PROVE  Chain(l, n) = s
<1>0. MaxNode \in Nat /\ s \in Seq(Node) /\ Len(s) \in 0..MaxNode /\ NULL \notin Node
  BY Short, BoundsAssumption DEF Linked, Node, NULL
<1> DEFINE at == Follow(l, n)
           S == {i \in 0..MaxNode : at[i] = At(s, i + 1)}
<1>1. 0 \in S
  BY <1>0, Following DEF Linked
<1>2. ASSUME NEW i \in 0..MaxNode, i < MaxNode, i \in S PROVE i + 1 \in S
  <2>1. i + 1 \in 1..MaxNode /\ i + 1 - 1 = i
    BY <1>0, <1>2
  <2>2. at[i + 1] = After(l, at[i])
    BY <2>1, Following
  <2>3. CASE i + 1 \in 1..Len(s)
    <3>1. at[i] = s[i + 1] /\ s[i + 1] # NULL
      BY <1>0, <1>2, <2>3 DEF At
    <3>2. l.next[s[i + 1]] = At(s, i + 1 + 1)
      BY <2>3 DEF Linked
    <3> QED BY <2>1, <2>2, <3>1, <3>2 DEF After
  <2>4. CASE i + 1 \notin 1..Len(s)
    <3>1. at[i] = NULL /\ At(s, i + 1 + 1) = NULL
      BY <1>0, <1>2, <2>4 DEF At
    <3> QED BY <2>1, <2>2, <3>1 DEF After
  <2> QED BY <2>3, <2>4
<1>3. \A i \in 0..MaxNode : at[i] = At(s, i + 1)
  <2>1. \A i \in 0..MaxNode : i \in S
    <3> HIDE DEF S
    <3> QED BY <1>0, <1>1, <1>2, UpTo
  <2> QED BY <2>1
<1>4. {k \in 0..MaxNode : at[k] # NULL} = 0..(Len(s) - 1)
  <2>1. ASSUME NEW k \in 0..MaxNode PROVE at[k] # NULL <=> k \in 0..(Len(s) - 1)
    BY <1>0, <1>3 DEF At
  <2> QED BY <1>0, <2>1
<1>5. Cardinality(0..(Len(s) - 1)) = Len(s)
  BY <1>0, Count
<1>6. Chain(l, n) = [i \in 1..Len(s) |-> at[i - 1]]
  BY <1>4, <1>5 DEF Chain
<1>7. ASSUME NEW i \in 1..Len(s) PROVE at[i - 1] = s[i]
  BY <1>0, <1>3 DEF At
<1>8. [i \in 1..Len(s) |-> at[i - 1]] = [i \in 1..Len(s) |-> s[i]]
  BY <1>7
<1>9. s = [i \in 1..Len(s) |-> s[i]]
  BY <1>0
<1> QED BY <1>6, <1>8, <1>9

\* A chain without the node at place k, and one with a node more in front or at its end.
Without(s, k) == [i \in 1..(Len(s) - 1) |-> IF i < k THEN s[i] ELSE s[i + 1]]

LEMMA WithoutIs ==
  ASSUME NEW s \in Seq(Node), NEW k \in 1..Len(s)
  PROVE  /\ Without(s, k) \in Seq(Node) /\ Len(Without(s, k)) = Len(s) - 1
         /\ \A i \in Nat : At(Without(s, k), i) = IF i < k THEN At(s, i) ELSE At(s, i + 1)
         /\ \A i \in 1..(Len(s) - 1) : Without(s, k)[i] = IF i < k THEN s[i] ELSE s[i + 1]
         /\ \A n : InChain(s, n) <=> n = s[k] \/ InChain(Without(s, k), n)
         /\ Distinct(s) => Distinct(Without(s, k)) /\ ~InChain(Without(s, k), s[k])
<1> DEFINE w == Without(s, k)
<1>0. Len(s) \in Nat /\ k \in Nat /\ k >= 1 /\ k <= Len(s)
  OBVIOUS
<1>1. w \in [1..(Len(s) - 1) -> Node]
  BY <1>0 DEF Without
<1>2. w \in Seq(Node) /\ Len(w) = Len(s) - 1
  BY <1>0, <1>1
<1>3. \A i \in 1..(Len(s) - 1) : w[i] = IF i < k THEN s[i] ELSE s[i + 1]
  BY DEF Without
<1> HIDE DEF w
<1>4. ASSUME NEW i \in Nat PROVE At(w, i) = IF i < k THEN At(s, i) ELSE At(s, i + 1)
  BY <1>0, <1>2, <1>3 DEF At
<1>5. ASSUME NEW n PROVE InChain(s, n) <=> n = s[k] \/ InChain(w, n)
  <2>1. ASSUME NEW i \in 1..Len(s), s[i] = n, i # k PROVE InChain(w, n)
    <3>1. i < k => i \in 1..Len(w) /\ w[i] = n
      BY <1>0, <1>2, <1>3, <2>1
    <3>2. i > k => i - 1 \in 1..Len(w) /\ w[i - 1] = n
      BY <1>0, <1>2, <1>3, <2>1
    <3> QED BY <1>0, <2>1, <3>1, <3>2 DEF InChain
  <2>2. ASSUME NEW i \in 1..Len(w), w[i] = n PROVE InChain(s, n)
    BY <1>0, <1>2, <1>3, <2>2 DEF InChain
  <2> QED BY <1>0, <2>1, <2>2 DEF InChain
<1>6. ASSUME Distinct(s) PROVE Distinct(w) /\ ~InChain(w, s[k])
  BY <1>0, <1>2, <1>3, <1>6 DEF Distinct, InChain
<1> QED BY <1>2, <1>3, <1>4, <1>5, <1>6 DEF w

LEMMA InFront ==
  ASSUME NEW r \in Seq(Node), NEW n \in Node
  PROVE  LET c == <<n>> \o r
         IN  /\ c \in Seq(Node) /\ Len(c) = Len(r) + 1 /\ c[1] = n
             /\ \A i \in 1..Len(r) : c[i + 1] = r[i]
             /\ At(c, 1) = n /\ \A i \in Nat \ {0} : At(c, i + 1) = At(r, i)
             /\ \A m : InChain(c, m) <=> m = n \/ InChain(r, m)
             /\ Distinct(r) /\ ~InChain(r, n) => Distinct(c)
<1> DEFINE c == <<n>> \o r
<1>1. c \in Seq(Node) /\ Len(c) = Len(r) + 1 /\ c[1] = n /\ Len(r) \in Nat
  OBVIOUS
<1>2. \A i \in 1..Len(r) : c[i + 1] = r[i]
  OBVIOUS
<1>3. \A i \in 1..Len(c) : i = 1 \/ (i - 1 \in 1..Len(r) /\ c[i] = r[i - 1])
  OBVIOUS
<1> HIDE DEF c
<1>4. At(c, 1) = n /\ \A i \in Nat \ {0} : At(c, i + 1) = At(r, i)
  BY <1>1, <1>2 DEF At
<1>5. ASSUME NEW m PROVE InChain(c, m) <=> m = n \/ InChain(r, m)
  <2>1. ASSUME InChain(r, m) PROVE InChain(c, m)
    <3>1. PICK i \in 1..Len(r) : r[i] = m
      BY <2>1 DEF InChain
    <3>2. i + 1 \in 1..Len(c) /\ c[i + 1] = m
      BY <1>1, <1>2, <3>1
    <3> QED BY <3>2 DEF InChain
  <2>2. 1 \in 1..Len(c)
    BY <1>1
  <2> QED BY <1>1, <1>3, <2>1, <2>2 DEF InChain
<1>6. ASSUME Distinct(r), ~InChain(r, n) PROVE Distinct(c)
  BY <1>1, <1>3, <1>6 DEF Distinct, InChain
<1> QED BY <1>1, <1>2, <1>4, <1>5, <1>6 DEF c

LEMMA AtTheEnd ==
  ASSUME NEW s \in Seq(Node), NEW n \in Node
  PROVE  LET c == Append(s, n)
         IN  /\ c \in Seq(Node) /\ Len(c) = Len(s) + 1
             /\ \A i \in 1..Len(s) : c[i] = s[i]
             /\ \A i \in Nat : At(c, i) = IF i = Len(s) + 1 THEN n ELSE At(s, i)
             /\ \A m : InChain(c, m) <=> m = n \/ InChain(s, m)
             /\ Distinct(s) /\ ~InChain(s, n) => Distinct(c)
<1> DEFINE c == Append(s, n)
<1>1. c \in Seq(Node) /\ Len(c) = Len(s) + 1 /\ c[Len(s) + 1] = n /\ Len(s) \in Nat
  OBVIOUS
<1>2. \A i \in 1..Len(s) : c[i] = s[i]
  OBVIOUS
<1> HIDE DEF c
<1>3. \A i \in 1..Len(c) : i = Len(s) + 1 \/ (i \in 1..Len(s) /\ c[i] = s[i])
  BY <1>1, <1>2
<1>4. ASSUME NEW i \in Nat PROVE At(c, i) = IF i = Len(s) + 1 THEN n ELSE At(s, i)
  BY <1>1, <1>2 DEF At
<1>5. ASSUME NEW m PROVE InChain(c, m) <=> m = n \/ InChain(s, m)
  <2>1. Len(s) + 1 \in 1..Len(c) /\ 1..Len(s) \subseteq 1..Len(c)
    BY <1>1
  <2> QED BY <1>1, <1>2, <1>3, <2>1 DEF InChain
<1>6. ASSUME Distinct(s), ~InChain(s, n) PROVE Distinct(c)
  BY <1>1, <1>3, <1>6 DEF Distinct, InChain
<1> QED BY <1>1, <1>2, <1>4, <1>5, <1>6 DEF c

-----------------------------------------------------------------------------
(* Nodes linked and unlinked *)

\* Between two operations and within the loop of msg_queue_remove: last_msg may
\* be behind.
Walked(l, s, r) == l \in Lists /\ Chains(l, l.first, s, r) /\ l.nb = Len(s)

\* *p_msg = msg->next; msg->next = q->recycle_msg; q->recycle_msg = msg
LEMMA Unlinked ==
  ASSUME NEW l, NEW s, NEW r, Walked(l, s, r), NEW k \in 1..Len(s)
  PROVE  LET u == UnlinkNode(l, At(s, k - 1), s[k])
         IN  /\ Walked(u, Without(s, k), <<s[k]>> \o r)
             /\ u.last = l.last
             /\ u.data = [l.data EXCEPT ![s[k]].obj = NULL]
<1> DEFINE n == s[k]
           prev == At(s, k - 1)
           u == UnlinkNode(l, prev, n)
           w == Without(s, k)
           c == <<n>> \o r
<1>0. /\ s \in Seq(Node) /\ r \in Seq(Node) /\ Len(s) \in Nat /\ Len(r) \in Nat
      /\ k \in Nat /\ k >= 1 /\ k <= Len(s) /\ n \in Node
      /\ prev = (IF k = 1 THEN NULL ELSE s[k - 1]) /\ (k # 1 => k - 1 \in 1..Len(s) /\ prev \in Node)
      /\ NULL \notin Node
  <2>1. s \in Seq(Node) /\ r \in Seq(Node)
    BY DEF Walked, Chains, Linked
  <2>2. /\ Len(s) \in Nat /\ Len(r) \in Nat /\ k \in Nat /\ k >= 1 /\ k <= Len(s)
        /\ n \in Node /\ NULL \notin Node
    <3>1. NULL \notin Node
      BY DEF Node, NULL
    <3>2. Len(s) \in Nat /\ Len(r) \in Nat
      BY <2>1
    <3>3. s[k] \in Node
      BY <2>1
    <3> QED BY <3>1, <3>2, <3>3
  <2>3. k # 1 => k - 1 \in 1..Len(s) /\ s[k - 1] \in Node
    BY <2>1, <2>2
  <2> QED BY <2>1, <2>2, <2>3 DEF At
<1>1. /\ l \in Lists /\ l.next \in [Node -> Pointer] /\ l.data \in [Node -> Msg] /\ l.recycle \in Pointer
      /\ l.nb = Len(s)
      /\ l.first = At(s, 1) /\ l.recycle = At(r, 1)
      /\ \A i \in 1..Len(s) : l.next[s[i]] = At(s, i + 1)
      /\ \A i \in 1..Len(r) : l.next[r[i]] = At(r, i + 1)
      /\ Distinct(s) /\ Distinct(r) /\ Apart(s, r)
      /\ l.used = {m \in Node : InChain(s, m) \/ InChain(r, m)}
  BY DEF Walked, Chains, Linked, Lists
<1>2. /\ w \in Seq(Node) /\ Len(w) = Len(s) - 1
      /\ \A i \in Nat : At(w, i) = IF i < k THEN At(s, i) ELSE At(s, i + 1)
      /\ \A i \in 1..(Len(s) - 1) : w[i] = IF i < k THEN s[i] ELSE s[i + 1]
      /\ \A m : InChain(s, m) <=> m = n \/ InChain(w, m)
      /\ Distinct(w) /\ ~InChain(w, n)
  <2>1. s \in Seq(Node) /\ Distinct(s)
    BY <1>0, <1>1
  <2> QED BY <2>1, WithoutIs
<1>3. ~InChain(r, n)
  BY <1>0, <1>1 DEF Apart, InChain
<1>4. /\ c \in Seq(Node) /\ Len(c) = Len(r) + 1 /\ c[1] = n
      /\ \A i \in 1..Len(r) : c[i + 1] = r[i]
      /\ At(c, 1) = n /\ \A i \in Nat \ {0} : At(c, i + 1) = At(r, i)
      /\ \A m : InChain(c, m) <=> m = n \/ InChain(r, m)
      /\ Distinct(c)
  <2>1. r \in Seq(Node) /\ n \in Node /\ Distinct(r) /\ ~InChain(r, n)
    BY <1>0, <1>1, <1>3
  <2> HIDE DEF n
  <2> QED BY <2>1, InFront
<1>5. /\ u \in [first : Pointer, last : Pointer, recycle : Pointer, nb : Int,
                next : [Node -> Pointer], data : [Node -> Msg], used : SUBSET Node]
      /\ u.nb = l.nb - 1 /\ u.last = l.last /\ u.recycle = n /\ u.used = l.used
      /\ u.data = [l.data EXCEPT ![n].obj = NULL]
      /\ u.first = IF k = 1 THEN l.next[n] ELSE l.first
      /\ \A m \in Node : u.next[m] = IF m = n THEN l.recycle
                                     ELSE IF k # 1 /\ m = prev THEN l.next[n] ELSE l.next[m]
  <2> HIDE DEF w, c, n, prev
  <2>d. [l.data EXCEPT ![n].obj = NULL] \in [Node -> Msg]
    <3>1. [l.data[n] EXCEPT !.obj = NULL] \in Msg
      <4>1. l.data[n] \in Msg /\ 0 \in 0..MaxId
        BY <1>0, <1>1, BoundsAssumption
      <4> QED BY <4>1 DEF Msg, NULL
    <3> QED BY <1>0, <1>1, <3>1
  <2>n. l.next[n] \in Pointer /\ n \in Pointer
    BY <1>0, <1>1 DEF Pointer
  <2>1. CASE k = 1
    <3>1. u = [[l EXCEPT !.first = l.next[n]] EXCEPT !.next[n] = l.recycle, !.data[n].obj = NULL,
                                                     !.recycle = n, !.nb = @ - 1]
      BY <1>0, <2>1 DEF UnlinkNode
    <3>2. l \in [first : Pointer, last : Pointer, recycle : Pointer, nb : Int,
                 next : [Node -> Pointer], data : [Node -> Msg], used : SUBSET Node]
      BY <1>1 DEF Lists
    <3>3. u = [first |-> l.next[n], last |-> l.last, recycle |-> n, nb |-> l.nb - 1,
               next |-> [l.next EXCEPT ![n] = l.recycle],
               data |-> [l.data EXCEPT ![n].obj = NULL], used |-> l.used]
      BY <3>1, <3>2
    <3> DEFINE next == [l.next EXCEPT ![n] = l.recycle]
               data == [l.data EXCEPT ![n].obj = NULL]
    <3>4. /\ next \in [Node -> Pointer]
          /\ \A m \in Node : next[m] = IF m = n THEN l.recycle ELSE l.next[m]
      BY <1>0, <1>1
    <3>5. data \in [Node -> Msg] /\ l.nb \in Int
      BY <1>0, <1>1, <2>d
    <3>6. l.last \in Pointer /\ l.used \in SUBSET Node
      BY <3>2
    <3> HIDE DEF next, data
    <3>7. /\ u.nb = l.nb - 1 /\ u.last = l.last /\ u.recycle = n /\ u.used = l.used
          /\ u.data = data /\ u.first = l.next[n] /\ u.next = next
      BY <3>3 DEF next, data
    <3>8. u \in [first : Pointer, last : Pointer, recycle : Pointer, nb : Int,
                 next : [Node -> Pointer], data : [Node -> Msg], used : SUBSET Node]
      BY <3>3, <3>4, <3>5, <3>6, <2>n DEF next, data
    <3> QED BY <2>1, <3>4, <3>7, <3>8 DEF data
  <2>2. CASE k # 1
    <3>1. u = [[l EXCEPT !.next[prev] = l.next[n]] EXCEPT !.next[n] = l.recycle, !.data[n].obj = NULL,
                                                          !.recycle = n, !.nb = @ - 1]
      BY <1>0, <2>2 DEF UnlinkNode
    <3>2. l \in [first : Pointer, last : Pointer, recycle : Pointer, nb : Int,
                 next : [Node -> Pointer], data : [Node -> Msg], used : SUBSET Node]
      BY <1>1 DEF Lists
    <3>3. u = [first |-> l.first, last |-> l.last, recycle |-> n, nb |-> l.nb - 1,
               next |-> [[l.next EXCEPT ![prev] = l.next[n]] EXCEPT ![n] = l.recycle],
               data |-> [l.data EXCEPT ![n].obj = NULL], used |-> l.used]
      BY <3>1, <3>2
    <3> DEFINE next == [[l.next EXCEPT ![prev] = l.next[n]] EXCEPT ![n] = l.recycle]
               data == [l.data EXCEPT ![n].obj = NULL]
    <3>4. /\ next \in [Node -> Pointer]
          /\ \A m \in Node : next[m] = IF m = n THEN l.recycle
                                       ELSE IF m = prev THEN l.next[n] ELSE l.next[m]
      BY <1>0, <1>1
    <3>5. data \in [Node -> Msg] /\ l.nb \in Int
      BY <1>0, <1>1, <2>d
    <3>6. l.first \in Pointer /\ l.last \in Pointer /\ l.used \in SUBSET Node
      BY <3>2
    <3> HIDE DEF next, data
    <3>7. /\ u.nb = l.nb - 1 /\ u.last = l.last /\ u.recycle = n /\ u.used = l.used
          /\ u.data = data /\ u.first = l.first /\ u.next = next
      BY <3>3 DEF next, data
    <3>8. u \in [first : Pointer, last : Pointer, recycle : Pointer, nb : Int,
                 next : [Node -> Pointer], data : [Node -> Msg], used : SUBSET Node]
      BY <3>3, <3>4, <3>5, <3>6, <2>n DEF next, data
    <3> QED BY <2>2, <3>4, <3>7, <3>8 DEF data
  <2> QED BY <2>1, <2>2
<1> HIDE DEF u, w, c, n, prev
<1>6. u \in Lists
  BY <1>0, <1>1, <1>5 DEF Lists
<1>7. l.next[n] = At(s, k + 1)
  BY <1>0, <1>1 DEF n
<1>8. u.first = At(w, 1)
  <2>1. At(w, 1) = IF 1 < k THEN At(s, 1) ELSE At(s, 1 + 1)
    BY <1>2
  <2>2. CASE k = 1
    BY <1>5, <1>7, <2>1, <2>2
  <2>3. CASE k # 1
    BY <1>0, <1>1, <1>5, <2>1, <2>3
  <2> QED BY <2>2, <2>3
<1>9. ASSUME NEW i \in 1..Len(w) PROVE u.next[w[i]] = At(w, i + 1)
  <2>1. w[i] # n /\ w[i] \in Node /\ i \in 1..(Len(s) - 1)
    BY <1>2 DEF InChain
  <2>2. CASE i < k /\ i + 1 = k
    <3>1. w[i] = prev /\ k # 1
      BY <1>0, <1>2, <2>1, <2>2
    <3> QED BY <1>0, <1>2, <1>5, <1>7, <2>1, <2>2, <3>1
  <2>3. CASE i + 1 < k
    <3>1. w[i] = s[i] /\ i \in 1..Len(s) /\ i # k - 1
      <4>1. w[i] = IF i < k THEN s[i] ELSE s[i + 1]
        BY <1>2, <2>1
      <4> QED BY <1>0, <2>1, <2>3, <4>1
    <3>2. w[i] # prev
      BY <1>0, <1>1, <3>1, <2>1 DEF Distinct
    <3>3. u.next[w[i]] = At(s, i + 1)
      BY <1>1, <1>5, <2>1, <3>1, <3>2
    <3> QED BY <1>0, <1>2, <2>1, <2>3, <3>3
  <2>4. CASE i >= k
    <3>1. w[i] = s[i + 1] /\ i + 1 \in 1..Len(s) /\ i + 1 # k - 1
      <4>1. w[i] = IF i < k THEN s[i] ELSE s[i + 1]
        BY <1>2, <2>1
      <4> QED BY <1>0, <2>1, <2>4, <4>1
    <3>2. k = 1 \/ w[i] # prev
      BY <1>0, <1>1, <3>1, <2>1 DEF Distinct
    <3>3. u.next[w[i]] = At(s, i + 1 + 1)
      BY <1>1, <1>5, <2>1, <3>1, <3>2
    <3> QED BY <1>0, <1>2, <2>1, <2>4, <3>3
  <2> QED BY <1>0, <2>1, <2>2, <2>3, <2>4
<1>10. ASSUME NEW i \in 1..Len(c) PROVE u.next[c[i]] = At(c, i + 1)
  <2>1. CASE i = 1
    BY <1>0, <1>1, <1>4, <1>5, <2>1
  <2>2. CASE i # 1
    <3> DEFINE j == i - 1
    <3>1. j \in 1..Len(r) /\ i = j + 1
      BY <1>0, <1>4, <2>2
    <3> HIDE DEF j
    <3>2. c[i] = r[j] /\ r[j] \in Node /\ r[j] # n
      <4>1. c[j + 1] = r[j]
        BY <1>4, <3>1
      <4>2. r[j] \in Node
        BY <1>0, <3>1
      <4> QED BY <1>3, <3>1, <4>1, <4>2 DEF InChain
    <3>3. k = 1 \/ r[j] # prev
      BY <1>0, <1>1, <3>1 DEF Apart
    <3>4. u.next[c[i]] = At(r, j + 1)
      BY <1>1, <1>5, <3>1, <3>2, <3>3
    <3> QED BY <1>4, <3>1, <3>4
  <2> QED BY <2>1, <2>2
<1>11. Apart(w, c)
  <2> SUFFICES ASSUME NEW i \in 1..Len(w), NEW j \in 1..Len(c), w[i] = c[j] PROVE FALSE
    BY DEF Apart
  <2>1. InChain(w, w[i]) /\ InChain(c, w[i])
    BY DEF InChain
  <2>2. InChain(r, w[i]) /\ InChain(s, w[i])
    BY <1>2, <1>4, <2>1
  <2> QED BY <1>1, <2>2 DEF Apart, InChain
<1>12. u.used = {m \in Node : InChain(w, m) \/ InChain(c, m)}
  BY <1>1, <1>2, <1>4, <1>5
<1>13. Walked(u, w, c)
  BY <1>0, <1>1, <1>2, <1>4, <1>5, <1>6, <1>8, <1>9, <1>10, <1>11, <1>12 DEF Walked, Chains, Linked
<1> QED BY <1>5, <1>13 DEF u, w, c, n, prev

\* Then last_msg is set.
LEMMA LastSet ==
  ASSUME NEW l, NEW s, NEW r, Walked(l, s, r), NEW v, v = At(s, Len(s))
  PROVE  LET u == [l EXCEPT !.last = v]
         IN  Shaped(u, s, r) /\ u.data = l.data
<1> DEFINE u == [l EXCEPT !.last = v]
<1>1. l \in Lists /\ s \in Seq(Node) /\ Len(s) \in Nat
  BY DEF Walked, Chains, Linked
<1>2. v \in Pointer
  BY <1>1 DEF At, Pointer
<1>3. u \in Lists
  BY <1>1, <1>2 DEF Lists
<1>4. /\ u.first = l.first /\ u.last = v /\ u.recycle = l.recycle /\ u.nb = l.nb
      /\ u.next = l.next /\ u.data = l.data /\ u.used = l.used
  BY <1>1 DEF Lists
<1> HIDE DEF u
<1>5. Shaped(u, s, r)
  BY <1>3, <1>4 DEF Walked, Shaped, Chains, Linked
<1> QED BY <1>4, <1>5 DEF u

LEMMA Popped ==
  ASSUME NEW l, NEW s, NEW r, Shaped(l, s, r), Len(s) # 0
  PROVE  LET u == PopNode(l)
         IN  /\ Shaped(u, Without(s, 1), <<s[1]>> \o r)
             /\ u.data = [l.data EXCEPT ![s[1]].obj = NULL]
<1> DEFINE n == s[1]
           c == UnlinkNode(l, NULL, n)
           w == Without(s, 1)
           v == IF l.next[n] = NULL THEN NULL ELSE l.last
<1>1. l \in Lists /\ s \in Seq(Node) /\ Len(s) \in Nat /\ 1 \in 1..Len(s) /\ n \in Node
  BY DEF Shaped, Chains, Linked
<1>2. l.first = n /\ l.last = s[Len(s)] /\ l.next[n] = At(s, 2) /\ NULL \notin Node
  BY <1>1 DEF Shaped, Chains, Linked, At, Node, NULL
<1>3. At(s, 1 - 1) = NULL
  BY DEF At
<1>4. Walked(l, s, r)
  BY DEF Shaped, Walked
<1>5. /\ Walked(c, w, <<n>> \o r) /\ c.last = l.last
      /\ c.data = [l.data EXCEPT ![n].obj = NULL]
  BY <1>1, <1>3, <1>4, Unlinked
<1>6. Len(w) = Len(s) - 1 /\ \A i \in Nat : At(w, i) = IF i < 1 THEN At(s, i) ELSE At(s, i + 1)
  BY <1>1, WithoutIs
<1>7. v = At(w, Len(w))
  <2>1. CASE Len(s) = 1
    BY <1>1, <1>2, <1>6, <2>1 DEF At
  <2>2. CASE Len(s) # 1
    <3>1. At(w, Len(w)) = s[Len(s)]
      BY <1>1, <1>6, <2>2 DEF At
    <3>2. l.next[n] # NULL
      <4>0. 2 \in 1..Len(s)
        <5> DEFINE k == Len(s)
        <5>1. k \in Nat /\ k # 0 /\ k # 1
          BY <1>1, <2>2
        <5> HIDE DEF k
        <5>2. 2 \in 1..k
          BY <5>1
        <5> QED BY <5>2 DEF k
      <4>1. s[2] \in Node /\ 2 \in 1..Len(s)
        BY <1>1, <4>0
      <4> QED BY <1>2, <4>1 DEF At
    <3> QED BY <1>2, <3>1, <3>2
  <2> QED BY <2>1, <2>2
<1>8. PopNode(l) = [c EXCEPT !.last = v]
  <2>1. l \in [first : Pointer, last : Pointer, recycle : Pointer, nb : Nat,
               next : [Node -> Pointer], data : [Node -> Msg], used : SUBSET Node]
    BY <1>1 DEF Lists
  <2>2. c = [first |-> l.next[n], last |-> l.last, recycle |-> n, nb |-> l.nb - 1,
             next |-> [l.next EXCEPT ![n] = l.recycle],
             data |-> [l.data EXCEPT ![n].obj = NULL], used |-> l.used]
    <3>1. c = [[l EXCEPT !.first = l.next[n]] EXCEPT !.next[n] = l.recycle, !.data[n].obj = NULL,
                                                     !.recycle = n, !.nb = @ - 1]
      BY DEF UnlinkNode
    <3> QED BY <2>1, <3>1
  <2>3. PopNode(l) = [first |-> l.next[n], last |-> v, recycle |-> n, nb |-> l.nb - 1,
                      next |-> [l.next EXCEPT ![n] = l.recycle],
                      data |-> [l.data EXCEPT ![n].obj = NULL], used |-> l.used]
    <3>1. PopNode(l) = [l EXCEPT !.first = l.next[n], !.last = v, !.nb = @ - 1,
                                 !.data[n].obj = NULL, !.next[n] = l.recycle, !.recycle = n]
      <4>1. l.first = n /\ (IF l.next[n] = NULL THEN NULL ELSE l.last) = v
        BY <1>2
      <4> QED BY <4>1 DEF PopNode
    <3> HIDE DEF v, n
    <3> QED BY <2>1, <3>1
  <2> QED BY <2>2, <2>3
<1> HIDE DEF c, v, w
<1>9. Shaped([c EXCEPT !.last = v], w, <<n>> \o r) /\ [c EXCEPT !.last = v].data = c.data
  BY <1>5, <1>7, LastSet
<1> QED BY <1>5, <1>8, <1>9 DEF w

\* The node for a message is not queued: it comes from the recycle list or is new.
LEMMA NodeTaken ==
  ASSUME NEW l, NEW s, NEW r, Shaped(l, s, r), HasNode(l)
  PROVE  LET n == NodeFor(l)
             t == IF l.recycle # NULL THEN Without(r, 1) ELSE r
         IN  /\ n \in Node /\ ~InChain(s, n)
             /\ t \in Seq(Node) /\ Distinct(t) /\ ~InChain(t, n)
             /\ At(t, 1) = (IF l.recycle # NULL THEN l.next[l.recycle] ELSE l.recycle)
             /\ \A i \in 1..Len(t) : l.next[t[i]] = At(t, i + 1)
             /\ \A x : InChain(t, x) => InChain(r, x)
             /\ \A x : x # n /\ InChain(r, x) => InChain(t, x)
<1> DEFINE n == NodeFor(l)
           t == IF l.recycle # NULL THEN Without(r, 1) ELSE r
<1>1. /\ l \in Lists /\ s \in Seq(Node) /\ r \in Seq(Node) /\ Len(r) \in Nat
      /\ Distinct(s) /\ Distinct(r) /\ Apart(s, r) /\ l.recycle = At(r, 1)
      /\ \A i \in 1..Len(r) : l.next[r[i]] = At(r, i + 1)
      /\ l.used = {m \in Node : InChain(s, m) \/ InChain(r, m)}
  BY DEF Shaped, Chains, Linked
<1>2. NULL \notin Node
  BY DEF Node, NULL
<1>3. CASE l.recycle = NULL
  <2>1. Len(r) = 0
    BY <1>1, <1>2, <1>3 DEF At
  <2>2. l.used # Node /\ l.used \subseteq Node
    BY <1>1, <1>3 DEF HasNode
  <2>3. n = CHOOSE m \in Node \ l.used : TRUE
    BY <1>3 DEF NodeFor
  <2>4. n \in Node \ l.used
    BY <2>2, <2>3
  <2>5. ~InChain(s, n) /\ ~InChain(r, n)
    BY <1>1, <2>4
  <2>6. t = r
    BY <1>3
  <2>7. /\ t \in Seq(Node) /\ Distinct(t) /\ ~InChain(t, n) /\ At(t, 1) = l.recycle
        /\ \A i \in 1..Len(t) : l.next[t[i]] = At(t, i + 1)
        /\ \A x : InChain(t, x) <=> InChain(r, x)
    <3> HIDE DEF n, t
    <3> QED BY <1>1, <2>5, <2>6
  <2> QED BY <1>3, <2>4, <2>5, <2>7
<1>4. CASE l.recycle # NULL
  <2>1. 1 \in 1..Len(r) /\ n = r[1] /\ r[1] \in Node /\ l.recycle = r[1]
    BY <1>1, <1>2, <1>4 DEF At, NodeFor
  <2>2. /\ t \in Seq(Node) /\ Len(t) = Len(r) - 1
        /\ \A i \in Nat : At(t, i) = IF i < 1 THEN At(r, i) ELSE At(r, i + 1)
        /\ \A i \in 1..(Len(r) - 1) : t[i] = IF i < 1 THEN r[i] ELSE r[i + 1]
        /\ \A x : InChain(r, x) <=> x = r[1] \/ InChain(t, x)
        /\ Distinct(t) /\ ~InChain(t, r[1])
    <3>1. t = Without(r, 1)
      BY <1>4
    <3>2. r \in Seq(Node) /\ 1 \in 1..Len(r) /\ Distinct(r)
      BY <1>1, <2>1
    <3>3. /\ Without(r, 1) \in Seq(Node) /\ Len(Without(r, 1)) = Len(r) - 1
          /\ \A i \in Nat : At(Without(r, 1), i) = IF i < 1 THEN At(r, i) ELSE At(r, i + 1)
          /\ \A i \in 1..(Len(r) - 1) : Without(r, 1)[i] = IF i < 1 THEN r[i] ELSE r[i + 1]
          /\ \A x : InChain(r, x) <=> x = r[1] \/ InChain(Without(r, 1), x)
          /\ Distinct(Without(r, 1)) /\ ~InChain(Without(r, 1), r[1])
      BY <3>2, WithoutIs
    <3> HIDE DEF t
    <3> QED BY <3>1, <3>3
  <2>3. ~InChain(s, n)
    BY <1>1, <2>1 DEF Apart, InChain
  <2>4. At(t, 1) = l.next[l.recycle]
    <3> HIDE DEF t
    <3>1. At(t, 1) = IF 1 < 1 THEN At(r, 1) ELSE At(r, 1 + 1)
      BY <2>2
    <3>2. l.next[r[1]] = At(r, 1 + 1)
      BY <1>1, <2>1
    <3> QED BY <2>1, <3>1, <3>2
  <2> HIDE DEF t
  <2>5. ASSUME NEW i \in 1..Len(t) PROVE l.next[t[i]] = At(t, i + 1)
    <3>1. i \in Nat /\ i + 1 \in Nat /\ ~(i < 1) /\ ~(i + 1 < 1) /\ i + 1 \in 1..Len(r) /\ i \in 1..(Len(r) - 1)
      BY <1>1, <2>2
    <3>2. t[i] = r[i + 1] /\ At(t, i + 1) = At(r, i + 1 + 1)
      BY <2>2, <3>1
    <3> QED BY <1>1, <3>1, <3>2
  <2> QED BY <1>4, <2>1, <2>2, <2>3, <2>4, <2>5 DEF t
<1> QED BY <1>3, <1>4

LEMMA Appended ==
  ASSUME NEW l, NEW s, NEW r, Shaped(l, s, r), HasNode(l), NEW m \in Msg
  PROVE  LET u == AppendNode(l, m)
             n == NodeFor(l)
         IN  /\ n \in Node /\ ~InChain(s, n)
             /\ u.data = [l.data EXCEPT ![n] = m]
             /\ \E t : /\ Shaped(u, Append(s, n), t)
                       /\ \A x : InChain(t, x) => InChain(r, x)
<1> DEFINE u == AppendNode(l, m)
           n == NodeFor(l)
           t == IF l.recycle # NULL THEN Without(r, 1) ELSE r
           c == Append(s, n)
<1>1. /\ n \in Node /\ ~InChain(s, n)
      /\ t \in Seq(Node) /\ Distinct(t) /\ ~InChain(t, n)
      /\ At(t, 1) = (IF l.recycle # NULL THEN l.next[l.recycle] ELSE l.recycle)
      /\ \A i \in 1..Len(t) : l.next[t[i]] = At(t, i + 1)
      /\ \A x : InChain(t, x) => InChain(r, x)
      /\ \A x : x # n /\ InChain(r, x) => InChain(t, x)
  <2> HIDE DEF n, t
  <2> QED BY NodeTaken DEF n, t
<1>2. /\ l \in Lists /\ l.next \in [Node -> Pointer] /\ l.data \in [Node -> Msg]
      /\ s \in Seq(Node) /\ Len(s) \in Nat /\ l.nb = Len(s)
      /\ Distinct(s) /\ Apart(s, r) /\ l.first = At(s, 1) /\ l.last = At(s, Len(s))
      /\ \A i \in 1..Len(s) : l.next[s[i]] = At(s, i + 1)
      /\ l.used = {x \in Node : InChain(s, x) \/ InChain(r, x)}
  BY DEF Shaped, Chains, Linked, Lists
<1>3. /\ NULL \notin Node /\ NULL \in Pointer /\ n \in Pointer
      /\ (l.recycle # NULL => l.recycle \in Node)
      /\ \A x \in Node : l.next[x] \in Pointer
      /\ l.recycle \in Pointer /\ l.first \in Pointer
  <2>1. NULL \notin Node
    BY DEF Node, NULL
  <2>2. l.recycle \in Pointer /\ l.first \in Pointer
    BY <1>2 DEF Lists
  <2> QED BY <1>1, <1>2, <2>1, <2>2 DEF Pointer
<1>4. l.last = NULL <=> Len(s) = 0
  BY <1>2, <1>3 DEF At
<1> DEFINE next == IF l.last = NULL THEN [l.next EXCEPT ![n] = NULL]
                   ELSE [l.next EXCEPT ![n] = NULL, ![l.last] = n]
           recycle == IF l.recycle # NULL THEN l.next[l.recycle] ELSE l.recycle
           first == IF l.last = NULL THEN n ELSE l.first
           data == [l.data EXCEPT ![n] = m]
<1>5. u = [first |-> first, last |-> n, recycle |-> recycle, nb |-> l.nb + 1,
           next |-> next, data |-> data, used |-> l.used \cup {n}]
  <2>1. l \in [first : Pointer, last : Pointer, recycle : Pointer, nb : Nat,
               next : [Node -> Pointer], data : [Node -> Msg], used : SUBSET Node]
    BY <1>2 DEF Lists
  <2>2. u = [l EXCEPT !.recycle = recycle, !.used = @ \cup {n}, !.data[n] = m, !.next = next,
                      !.first = first, !.last = n, !.nb = @ + 1]
    BY DEF AppendNode
  <2> HIDE DEF n, recycle, first, next, u
  <2> QED BY <2>1, <2>2
<1>6. /\ next \in [Node -> Pointer]
      /\ \A x \in Node : next[x] = IF Len(s) # 0 /\ x = l.last THEN n
                                   ELSE IF x = n THEN NULL ELSE l.next[x]
  <2>1. CASE l.last = NULL
    BY <1>1, <1>2, <1>3, <1>4, <2>1
  <2>2. CASE l.last # NULL
    <3>1. Len(s) # 0 /\ l.last \in Node /\ l.last # n
      <4>1. Len(s) \in 1..Len(s)
        BY <1>2, <1>4, <2>2
      <4>2. l.last = s[Len(s)]
        BY <1>2, <4>1 DEF At
      <4> QED BY <1>1, <1>2, <1>4, <2>2, <4>1, <4>2 DEF InChain
    <3>2. next = [l.next EXCEPT ![n] = NULL, ![l.last] = n]
      BY <2>2
    <3> HIDE DEF n, next
    <3> QED BY <1>1, <1>2, <1>3, <3>1, <3>2
  <2> QED BY <2>1, <2>2
<1>7. data \in [Node -> Msg]
  BY <1>1, <1>2
<1>8. recycle \in Pointer /\ first \in Pointer /\ l.nb + 1 \in Nat /\ l.used \cup {n} \in SUBSET Node
  BY <1>1, <1>2, <1>3 DEF Lists
<1> HIDE DEF next, data, n, t
<1>9. /\ u \in Lists
      /\ u.first = first /\ u.last = n /\ u.recycle = recycle /\ u.nb = l.nb + 1
      /\ u.next = next /\ u.data = data /\ u.used = l.used \cup {n}
  <2> HIDE DEF first, recycle
  <2> QED BY <1>3, <1>5, <1>6, <1>7, <1>8 DEF Lists
<1>10. /\ c \in Seq(Node) /\ Len(c) = Len(s) + 1
       /\ \A i \in 1..Len(s) : c[i] = s[i]
       /\ \A i \in Nat : At(c, i) = IF i = Len(s) + 1 THEN n ELSE At(s, i)
       /\ \A x : InChain(c, x) <=> x = n \/ InChain(s, x)
       /\ Distinct(c)
  BY <1>1, <1>2, AtTheEnd
<1> HIDE DEF u, c
<1>11. u.first = At(c, 1)
  <2>1. At(c, 1) = IF 1 = Len(s) + 1 THEN n ELSE At(s, 1)
    BY <1>10
  <2> QED BY <1>2, <1>4, <1>9, <2>1
<1>12. ASSUME NEW i \in 1..Len(c) PROVE u.next[c[i]] = At(c, i + 1)
  <2>0. i \in Nat /\ i + 1 \in Nat /\ i <= Len(s) + 1 /\ i >= 1
    BY <1>2, <1>10
  <2>1. CASE i = Len(s) + 1
    <3>1. c[i] = n
      BY <1>10, <2>0, <2>1 DEF At
    <3>2. ~(Len(s) # 0 /\ n = l.last)
      <4>1. Len(s) # 0 => Len(s) \in 1..Len(s)
        BY <1>2
      <4> QED BY <1>1, <1>2, <4>1 DEF At, InChain
    <3>3. At(c, i + 1) = NULL
      BY <1>2, <1>10, <2>1 DEF At
    <3> QED BY <1>1, <1>6, <1>9, <3>1, <3>2, <3>3
  <2>2. CASE i = Len(s)
    <3>1. i \in 1..Len(s) /\ Len(s) # 0
      BY <1>2, <2>0, <2>2
    <3>2. c[i] = l.last /\ l.last \in Node
      BY <1>2, <1>10, <2>2, <3>1 DEF At
    <3>3. At(c, i + 1) = n
      BY <1>10, <2>0, <2>2
    <3> QED BY <1>6, <1>9, <3>1, <3>2, <3>3
  <2>3. CASE i < Len(s)
    <3>1. i \in 1..Len(s) /\ Len(s) \in 1..Len(s) /\ i # Len(s) /\ i + 1 # Len(s) + 1
      BY <1>2, <2>0, <2>3
    <3>2. c[i] = s[i] /\ s[i] \in Node /\ s[i] # n
      BY <1>1, <1>2, <1>10, <3>1 DEF InChain
    <3>3. s[i] # l.last
      BY <1>2, <3>1 DEF Distinct, At
    <3>4. At(c, i + 1) = At(s, i + 1)
      BY <1>10, <2>0, <3>1
    <3> QED BY <1>2, <1>6, <1>9, <3>1, <3>2, <3>3, <3>4
  <2> QED BY <1>2, <2>0, <2>1, <2>2, <2>3
<1>13. ASSUME NEW i \in 1..Len(t) PROVE u.next[t[i]] = At(t, i + 1)
  <2>1. InChain(t, t[i]) /\ InChain(r, t[i]) /\ t[i] \in Node /\ t[i] # n
    BY <1>1 DEF InChain
  <2>2. ~InChain(s, t[i])
    BY <1>2, <2>1 DEF Apart, InChain
  <2>3. Len(s) # 0 => InChain(s, l.last)
    <3>1. Len(s) # 0 => Len(s) \in 1..Len(s)
      BY <1>2
    <3> QED BY <1>2, <3>1 DEF At, InChain
  <2> QED BY <1>1, <1>6, <1>9, <2>1, <2>2, <2>3
<1>14. Apart(c, t)
  <2> SUFFICES ASSUME NEW i \in 1..Len(c), NEW j \in 1..Len(t), c[i] = t[j] PROVE FALSE
    BY DEF Apart
  <2>1. InChain(c, c[i]) /\ InChain(t, c[i])
    BY DEF InChain
  <2>2. InChain(s, c[i]) /\ InChain(r, c[i])
    BY <1>1, <1>10, <2>1
  <2> QED BY <1>2, <2>2 DEF Apart, InChain
<1>15. u.used = {x \in Node : InChain(c, x) \/ InChain(t, x)}
  BY <1>1, <1>2, <1>9, <1>10
<1>16. u.last = At(c, Len(c))
  BY <1>2, <1>9, <1>10
<1>17. Shaped(u, c, t)
  BY <1>1, <1>2, <1>9, <1>10, <1>11, <1>12, <1>13, <1>14, <1>15, <1>16 DEF Shaped, Chains, Linked
<1> QED BY <1>1, <1>9, <1>17 DEF u, c, n, data

-----------------------------------------------------------------------------
(* The loop of msg_queue_remove *)

\* Nodes without an object.
Blank(l, r) == \A m \in Node : InChain(r, m) => l.data[m].obj = NULL

\* The places up to i whose message is not of kind what, and f going through k places in order.
Kept(l, s, what, i) == {j \in 1..i : l.data[s[j]].what # what}
Picks(f, k, K) ==
  /\ k \in Nat /\ f \in [1..k -> K]
  /\ \A x \in K : \E j \in 1..k : f[j] = x
  /\ \A i, j \in 1..k : i < j => f[i] < f[j]

\* The chain when the loop has seen the first i nodes of s.
Rest(s, f, k, i) ==
  [j \in 1..(Len(s) - i + k) |-> IF j <= k THEN s[f[j]] ELSE s[i + j - k]]

\* The loop invariant.
Walking(w, l, s, what, i, k, f, r) ==
  /\ k <= i /\ Picks(f, k, Kept(l, s, what, i))
  /\ w \in [list : Lists, prev : Pointer]
  /\ Walked(w.list, Rest(s, f, k, i), r)
  /\ w.prev = At(Rest(s, f, k, i), k)
  /\ \A m \in Node : InChain(Rest(s, f, k, i), m) => w.list.data[m] = l.data[m]
  /\ \A m \in Node : InChain(r, m) => w.list.data[m].obj = NULL

\* What the chain is made of.
LEMMA RestIs ==
  ASSUME NEW s \in Seq(Node), NEW l, NEW what, NEW i \in 0..Len(s), NEW k, NEW f,
         k <= i, Picks(f, k, Kept(l, s, what, i))
  PROVE  /\ Rest(s, f, k, i) \in Seq(Node) /\ Len(Rest(s, f, k, i)) = Len(s) - i + k
         /\ \A j \in 1..k : f[j] \in 1..i /\ Rest(s, f, k, i)[j] = s[f[j]]
         /\ \A j \in 1..(Len(s) - i) : Rest(s, f, k, i)[j + k] = s[i + j]
<1>1. Len(s) \in Nat /\ k \in Nat /\ i \in Nat /\ i <= Len(s) /\ Len(s) - i + k \in Nat
  BY DEF Picks
<1>2. \A j \in 1..k : f[j] \in 1..i /\ f[j] \in 1..Len(s) /\ j \in 1..(Len(s) - i + k)
  BY <1>1 DEF Picks, Kept
<1>3. \A j \in 1..(Len(s) - i + k) : ~(j <= k) => i + j - k \in 1..Len(s)
  BY <1>1
<1>4. Rest(s, f, k, i) \in [1..(Len(s) - i + k) -> Node]
  BY <1>1, <1>2, <1>3 DEF Rest
<1>5. Rest(s, f, k, i) \in Seq(Node) /\ Len(Rest(s, f, k, i)) = Len(s) - i + k
  BY <1>1, <1>4
<1>6. ASSUME NEW j \in 1..k PROVE Rest(s, f, k, i)[j] = s[f[j]]
  BY <1>1, <1>2 DEF Rest
<1>7. ASSUME NEW j \in 1..(Len(s) - i) PROVE Rest(s, f, k, i)[j + k] = s[i + j]
  <2>1. j + k \in 1..(Len(s) - i + k) /\ ~(j + k <= k) /\ i + (j + k) - k = i + j
    BY <1>1
  <2> QED BY <2>1 DEF Rest
<1> QED BY <1>2, <1>5, <1>6, <1>7

LEMMA RemoveStep ==
  ASSUME NEW s \in Seq(Node), NEW l, NEW what, NEW i \in 0..(Len(s) - 1), NEW k, NEW f,
         NEW r, NEW w, Walking(w, l, s, what, i, k, f, r)
  PROVE  \E kk, ff, rr : Walking(RemoveTurn(w, what), l, s, what, i + 1, kk, ff, rr)
<1> DEFINE c == Rest(s, f, k, i)
           n == s[i + 1]
<1>1. /\ Len(s) \in Nat /\ i \in Nat /\ i <= Len(s) /\ i + 1 \in 1..Len(s) /\ i + 1 \in 0..Len(s)
      /\ k \in Nat /\ k <= i /\ i \in 0..Len(s) /\ i < Len(s)
      /\ n \in Node /\ NULL \notin Node
  <2>1. NULL \notin Node
    BY DEF Node, NULL
  <2>2. Len(s) \in Nat /\ k \in Nat /\ k <= i /\ i + 1 \in 1..Len(s)
    BY DEF Walking, Picks
  <2> QED BY <2>1, <2>2
<1>2. /\ Picks(f, k, Kept(l, s, what, i)) /\ Walked(w.list, c, r)
      /\ w \in [list : Lists, prev : Pointer] /\ w.prev = At(c, k)
      /\ \A m \in Node : InChain(c, m) => w.list.data[m] = l.data[m]
      /\ \A m \in Node : InChain(r, m) => w.list.data[m].obj = NULL
  BY DEF Walking
<1>3. /\ c \in Seq(Node) /\ Len(c) = Len(s) - i + k
      /\ \A j \in 1..k : f[j] \in 1..i /\ c[j] = s[f[j]]
      /\ \A j \in 1..(Len(s) - i) : c[j + k] = s[i + j]
  <2>1. s \in Seq(Node) /\ i \in 0..Len(s) /\ k <= i /\ Picks(f, k, Kept(l, s, what, i))
    BY <1>1, <1>2
  <2>2. Rest(s, f, k, i) \in Seq(Node) /\ Len(Rest(s, f, k, i)) = Len(s) - i + k
    BY <2>1, RestIs
  <2>3. \A j \in 1..k : f[j] \in 1..i /\ Rest(s, f, k, i)[j] = s[f[j]]
    <3>1. ASSUME NEW j \in 1..k PROVE f[j] \in 1..i /\ Rest(s, f, k, i)[j] = s[f[j]]
      BY <2>1, RestIs
    <3> QED BY <3>1
  <2>4. ASSUME NEW j \in 1..(Len(s) - i) PROVE Rest(s, f, k, i)[j + k] = s[i + j]
    BY <2>1, RestIs
  <2> QED BY <2>2, <2>3, <2>4
<1> HIDE DEF c
<1>4. k + 1 \in 1..Len(c) /\ c[k + 1] = n /\ At(c, k + 1) = n /\ InChain(c, n)
  <2>1. k + 1 \in 1..Len(c) /\ 1 \in 1..(Len(s) - i)
    BY <1>1, <1>3
  <2>2. c[1 + k] = s[i + 1] /\ 1 + k = k + 1
    BY <1>1, <1>3, <2>1
  <2> QED BY <2>1, <2>2 DEF At, InChain
<1>5. (IF w.prev = NULL THEN w.list.first ELSE w.list.next[w.prev]) = n
  <2>1. CASE k = 0
    BY <1>2, <1>4, <2>1 DEF At, Walked, Chains, Linked
  <2>2. CASE k # 0
    <3>1. k \in 1..Len(c)
      BY <1>1, <1>4, <2>2
    <3>2. w.prev = c[k] /\ w.prev \in Node
      BY <1>2, <1>3, <3>1 DEF At
    <3> QED BY <1>1, <1>2, <1>4, <3>1, <3>2 DEF Walked, Chains, Linked
  <2> QED BY <2>1, <2>2
<1>6. w.list.data[n] = l.data[n]
  BY <1>1, <1>2, <1>4
<1>7. ASSUME l.data[n].what = what
      PROVE  Walking(RemoveTurn(w, what), l, s, what, i + 1, k, f, <<n>> \o r)
  <2> DEFINE u == UnlinkNode(w.list, w.prev, n)
             d == Rest(s, f, k, i + 1)
  <2>1. Kept(l, s, what, i + 1) = Kept(l, s, what, i)
    BY <1>1, <1>7 DEF Kept
  <2>2. RemoveTurn(w, what) = [w EXCEPT !.list = u]
    BY <1>1, <1>5, <1>6, <1>7 DEF RemoveTurn
  <2>3. k + 1 - 1 = k
    BY <1>1
  <2>4. /\ Walked(u, Without(c, k + 1), <<n>> \o r)
        /\ u.data = [w.list.data EXCEPT ![n].obj = NULL]
    <3> DEFINE h == k + 1
    <3>1. w.prev = At(c, h - 1) /\ n = c[h] /\ h \in 1..Len(c) /\ Walked(w.list, c, r)
      <4>1. h - 1 = k
        BY <1>1
      <4>2. h \in 1..Len(c) /\ c[h] = n
        BY <1>4
      <4> HIDE DEF h, n
      <4> QED BY <1>2, <4>1, <4>2
    <3> HIDE DEF h, n
    <3>2. LET v == UnlinkNode(w.list, At(c, h - 1), c[h])
          IN  /\ Walked(v, Without(c, h), <<c[h]>> \o r)
              /\ v.data = [w.list.data EXCEPT ![c[h]].obj = NULL]
      BY <3>1, Unlinked
    <3>3. /\ Walked(UnlinkNode(w.list, w.prev, n), Without(c, h), <<n>> \o r)
          /\ UnlinkNode(w.list, w.prev, n).data = [w.list.data EXCEPT ![n].obj = NULL]
      BY <3>1, <3>2
    <3>4. h = k + 1
      BY DEF h
    <3> QED BY <3>3, <3>4
  <2>5. /\ d \in Seq(Node) /\ Len(d) = Len(s) - (i + 1) + k
        /\ \A j \in 1..k : d[j] = s[f[j]]
        /\ \A j \in 1..(Len(s) - (i + 1)) : d[j + k] = s[i + 1 + j]
    <3>1. /\ s \in Seq(Node) /\ i + 1 \in 0..Len(s) /\ k <= i + 1
          /\ Picks(f, k, Kept(l, s, what, i + 1))
      BY <1>1, <1>2, <2>1
    <3>2. Rest(s, f, k, i + 1) \in Seq(Node) /\ Len(Rest(s, f, k, i + 1)) = Len(s) - (i + 1) + k
      BY <3>1, RestIs
    <3>3. \A j \in 1..k : Rest(s, f, k, i + 1)[j] = s[f[j]]
      BY <3>1, RestIs
    <3>4. \A j \in 1..(Len(s) - (i + 1)) : Rest(s, f, k, i + 1)[j + k] = s[i + 1 + j]
      BY <3>1, RestIs
    <3> QED BY <3>2, <3>3, <3>4
  <2>6. /\ Without(c, k + 1) \in Seq(Node) /\ Len(Without(c, k + 1)) = Len(c) - 1
        /\ \A j \in 1..(Len(c) - 1) : Without(c, k + 1)[j] = IF j < k + 1 THEN c[j] ELSE c[j + 1]
        /\ \A m : InChain(c, m) <=> m = c[k + 1] \/ InChain(Without(c, k + 1), m)
        /\ ~InChain(Without(c, k + 1), c[k + 1])
    <3>1. Distinct(c)
      BY <1>2 DEF Walked, Chains
    <3> QED BY <1>3, <1>4, <3>1, WithoutIs
  <2> HIDE DEF d, u
  <2>7. Without(c, k + 1) = d
    <3>1. Len(d) = Len(Without(c, k + 1)) /\ Len(d) \in Nat
      BY <1>1, <1>3, <2>5, <2>6
    <3>2. ASSUME NEW j \in 1..Len(d) PROVE Without(c, k + 1)[j] = d[j]
      <4>1. j \in 1..(Len(c) - 1)
        BY <2>6, <3>1
      <4>2. CASE j \in 1..k
        BY <1>1, <1>3, <2>5, <2>6, <4>1, <4>2
      <4>3. CASE j \notin 1..k
        <5>1. PICK h \in 1..(Len(s) - (i + 1)) : j = h + k
          <6>1. j - k \in 1..(Len(s) - (i + 1)) /\ j = j - k + k
            BY <1>1, <2>5, <4>3
          <6> QED BY <6>1
        <5>2. h + 1 \in 1..(Len(s) - i) /\ ~(j < k + 1) /\ j + 1 = (h + 1) + k
          BY <1>1, <5>1
        <5>3. Without(c, k + 1)[j] = s[i + (h + 1)]
          BY <1>3, <2>6, <4>1, <5>2
        <5>4. i + (h + 1) = i + 1 + h
          BY <1>1, <5>1
        <5> QED BY <2>5, <5>1, <5>3, <5>4
      <4> QED BY <4>2, <4>3
    <3> QED BY <2>5, <2>6, <3>1, <3>2, SeqEqual
  <2>8. ASSUME NEW m \in Node, InChain(d, m) PROVE u.data[m] = l.data[m]
    <3>1. m # n /\ InChain(c, m)
      BY <1>4, <2>6, <2>7, <2>8
    <3>2. w.list.data \in [Node -> Msg]
      BY <1>2 DEF Walked, Lists
    <3> QED BY <1>1, <1>2, <2>4, <3>1, <3>2
  <2>9. ASSUME NEW m \in Node, InChain(<<n>> \o r, m) PROVE u.data[m].obj = NULL
    <3>1. m = n \/ InChain(r, m)
      BY <1>1, <1>2, <2>9, InFront DEF Walked, Chains, Linked
    <3>2. w.list.data \in [Node -> Msg]
      BY <1>2 DEF Walked, Lists
    <3> QED BY <1>1, <1>2, <2>4, <3>1, <3>2 DEF Msg
  <2>10. w.prev = At(d, k)
    <3>1. k # 0 => k \in 1..k /\ k \in 1..Len(c) /\ k \in 1..Len(d)
      BY <1>1, <1>3, <2>5
    <3> QED BY <1>1, <1>2, <1>3, <2>5, <3>1 DEF At
  <2>11. [w EXCEPT !.list = u] \in [list : Lists, prev : Pointer]
    BY <1>2, <2>4 DEF Walked
  <2>12. [w EXCEPT !.list = u].list = u /\ [w EXCEPT !.list = u].prev = w.prev
    BY <1>2
  <2>13. k <= i + 1
    BY <1>1
  <2> QED BY <1>2, <2>1, <2>2, <2>4, <2>7, <2>8, <2>9, <2>10, <2>11, <2>12, <2>13 DEF Walking, d
<1>8. ASSUME l.data[n].what # what
      PROVE  \E ff : Walking(RemoveTurn(w, what), l, s, what, i + 1, k + 1, ff, r)
  <2> DEFINE g == [j \in 1..(k + 1) |-> IF j = k + 1 THEN i + 1 ELSE f[j]]
             d == Rest(s, g, k + 1, i + 1)
  <2>1. RemoveTurn(w, what) = [w EXCEPT !.prev = n]
    BY <1>1, <1>5, <1>6, <1>8 DEF RemoveTurn
  <2>2. /\ i + 1 \in Kept(l, s, what, i + 1)
        /\ \A x \in Kept(l, s, what, i + 1) : x = i + 1 \/ x \in Kept(l, s, what, i)
        /\ \A x \in Kept(l, s, what, i) : x \in Kept(l, s, what, i + 1) /\ x < i + 1
    BY <1>1, <1>8 DEF Kept
  <2>3. /\ \A j \in 1..(k + 1) : j = k + 1 \/ j \in 1..k
        /\ \A j \in 1..k : j \in 1..(k + 1) /\ j # k + 1
        /\ k + 1 \in 1..(k + 1)
    BY <1>1
  <2>4. Picks(g, k + 1, Kept(l, s, what, i + 1))
    <3>1. g \in [1..(k + 1) -> Kept(l, s, what, i + 1)]
      BY <1>2, <2>2, <2>3 DEF Picks
    <3>2. ASSUME NEW x \in Kept(l, s, what, i + 1) PROVE \E j \in 1..(k + 1) : g[j] = x
      BY <1>2, <2>2, <2>3 DEF Picks
    <3>3. ASSUME NEW a \in 1..(k + 1), NEW b \in 1..(k + 1), a < b PROVE g[a] < g[b]
      <4>1. a \in 1..k
        BY <1>1, <3>3
      <4>2. g[a] = f[a] /\ f[a] \in Kept(l, s, what, i)
        BY <1>2, <2>3, <4>1 DEF Picks
      <4> QED BY <1>2, <2>2, <2>3, <3>3, <4>1, <4>2 DEF Picks
    <3> QED BY <1>1, <3>1, <3>2, <3>3 DEF Picks
  <2>5. k + 1 <= i + 1
    BY <1>1
  <2>6. \A j \in 1..k : g[j] = f[j]
    BY <2>3
  <2>7. g[k + 1] = i + 1
    BY <2>3
  <2> HIDE DEF g
  <2>8. /\ d \in Seq(Node) /\ Len(d) = Len(s) - (i + 1) + (k + 1)
        /\ \A j \in 1..(k + 1) : d[j] = s[g[j]]
        /\ \A j \in 1..(Len(s) - (i + 1)) : d[j + (k + 1)] = s[i + 1 + j]
    <3>1. /\ s \in Seq(Node) /\ i + 1 \in 0..Len(s) /\ k + 1 <= i + 1
          /\ Picks(g, k + 1, Kept(l, s, what, i + 1))
      BY <1>1, <2>4, <2>5
    <3>2. /\ Rest(s, g, k + 1, i + 1) \in Seq(Node)
          /\ Len(Rest(s, g, k + 1, i + 1)) = Len(s) - (i + 1) + (k + 1)
      BY <3>1, RestIs
    <3>3. \A j \in 1..(k + 1) : Rest(s, g, k + 1, i + 1)[j] = s[g[j]]
      BY <3>1, RestIs
    <3>4. \A j \in 1..(Len(s) - (i + 1)) : Rest(s, g, k + 1, i + 1)[j + (k + 1)] = s[i + 1 + j]
      BY <3>1, RestIs
    <3> QED BY <3>2, <3>3, <3>4
  <2> HIDE DEF d
  <2>9. c = d
    <3>1. Len(d) = Len(c) /\ Len(d) \in Nat
      BY <1>1, <1>3, <2>8
    <3>2. ASSUME NEW j \in 1..Len(d) PROVE c[j] = d[j]
      <4>1. CASE j \in 1..k
        <5>1. c[j] = s[f[j]] /\ d[j] = s[g[j]] /\ g[j] = f[j]
          BY <1>3, <2>3, <2>6, <2>8, <4>1
        <5> QED BY <5>1
      <4>2. CASE j = k + 1
        BY <1>4, <2>3, <2>7, <2>8, <4>2
      <4>3. CASE j > k + 1
        <5>1. PICK h \in 1..(Len(s) - (i + 1)) : j = h + (k + 1)
          <6>1. j - (k + 1) \in 1..(Len(s) - (i + 1)) /\ j = j - (k + 1) + (k + 1)
            BY <1>1, <2>8, <4>3
          <6> QED BY <6>1
        <5>2. h + 1 \in 1..(Len(s) - i) /\ j = (h + 1) + k /\ i + (h + 1) = i + 1 + h
          BY <1>1, <5>1
        <5> QED BY <1>3, <2>8, <5>1, <5>2
      <4> QED BY <1>1, <3>1, <4>1, <4>2, <4>3
    <3> QED BY <1>3, <2>8, <3>1, <3>2, SeqEqual
  <2>10. /\ [w EXCEPT !.prev = n] \in [list : Lists, prev : Pointer]
         /\ [w EXCEPT !.prev = n].list = w.list /\ [w EXCEPT !.prev = n].prev = n
    BY <1>1, <1>2 DEF Pointer
  <2>11. Walking(RemoveTurn(w, what), l, s, what, i + 1, k + 1, g, r)
    BY <1>2, <1>4, <2>1, <2>4, <2>5, <2>9, <2>10 DEF Walking, d
  <2> QED BY <2>11
<1> QED BY <1>7, <1>8

\* A turn behind the last node does nothing, and prev is the last node kept.
LEMMA RemoveDone ==
  ASSUME NEW s \in Seq(Node), NEW l, NEW what, NEW k, NEW f,
         NEW r, NEW w, Walking(w, l, s, what, Len(s), k, f, r)
  PROVE  /\ RemoveTurn(w, what) = w
         /\ Len(Rest(s, f, k, Len(s))) = k
         /\ (IF w.list.first # NULL THEN w.prev ELSE NULL) = At(Rest(s, f, k, Len(s)), k)
<1> DEFINE c == Rest(s, f, k, Len(s))
<1>1. Len(s) \in Nat /\ k \in Nat /\ Len(s) \in 0..Len(s) /\ k <= Len(s) /\ NULL \notin Node
  <2>1. NULL \notin Node
    BY DEF Node, NULL
  <2> QED BY <2>1 DEF Walking, Picks
<1>2. /\ Picks(f, k, Kept(l, s, what, Len(s))) /\ Walked(w.list, c, r) /\ w.prev = At(c, k)
  BY DEF Walking
<1>3. c \in Seq(Node) /\ Len(c) = k
  <2>1. c \in Seq(Node) /\ Len(c) = Len(s) - Len(s) + k
    BY <1>1, <1>2, RestIs
  <2> QED BY <1>1, <2>1
<1> HIDE DEF c
<1>4. w.list.first = At(c, 1) /\ \A j \in 1..Len(c) : w.list.next[c[j]] = At(c, j + 1)
  BY <1>2 DEF Walked, Chains, Linked
<1>5. CASE k = 0
  <2>1. At(c, 1) = NULL /\ At(c, k) = NULL
    BY <1>3, <1>5 DEF At
  <2> QED BY <1>2, <1>3, <1>4, <2>1 DEF RemoveTurn, c
<1>6. CASE k # 0
  <2>1. k \in 1..Len(c) /\ 1 \in 1..Len(c) /\ k + 1 \notin 1..Len(c)
    BY <1>1, <1>3, <1>6
  <2>2. At(c, k) = c[k] /\ c[k] \in Node /\ At(c, 1) \in Node /\ At(c, k + 1) = NULL
    BY <1>3, <2>1 DEF At
  <2>3. w.list.next[w.prev] = NULL /\ w.prev # NULL /\ w.list.first # NULL
    BY <1>1, <1>2, <1>4, <2>1, <2>2
  <2> QED BY <1>2, <1>3, <2>3 DEF RemoveTurn, c
<1> QED BY <1>5, <1>6

\* u is l with s reduced to c, the k places f goes through: those not of kind what.
Selected(l, s, what, u, k, f, c, t) ==
  /\ Picks(f, k, Kept(l, s, what, Len(s)))
  /\ c = [j \in 1..k |-> s[f[j]]]
  /\ Shaped(u, c, t) /\ Blank(u, t)
  /\ \A m \in Node : InChain(c, m) => u.data[m] = l.data[m]

\* msg_queue_remove unlinks the messages of kind what, with their objects, and no other.
LEMMA Removed ==
  ASSUME NEW l, NEW s, NEW r, NEW what, Shaped(l, s, r),
         Blank(l, r)
  PROVE  \E k, f, c, t : Selected(l, s, what, RemoveNodes(l, what), k, f, c, t)
<1> DEFINE walk == RemoveWalk(l, what)
           upto(x) == IF x <= Len(s) THEN x ELSE Len(s)
           S == {x \in 0..MaxNode : \E k, f, t : Walking(walk[x], l, s, what, upto(x), k, f, t)}
<1>1. /\ l \in Lists /\ s \in Seq(Node) /\ Len(s) \in 0..MaxNode /\ MaxNode \in Nat
      /\ Len(s) \in Nat
  BY Short, BoundsAssumption DEF Shaped, Chains, Linked
<1>2. 0 \in S
  <2> DEFINE f == [j \in 1..0 |-> 0]
             w == [list |-> l, prev |-> NULL]
  <2>1. walk[0] = w
    BY Removing
  <2>2. 0 <= 0 /\ Picks(f, 0, Kept(l, s, what, 0))
    BY DEF Picks, Kept
  <2>3. w \in [list : Lists, prev : Pointer] /\ w.list = l /\ w.prev = NULL
    BY <1>1 DEF Pointer
  <2>4. Rest(s, f, 0, 0) = s
    <3>1. \A j \in 1..Len(s) : ~(j <= 0) /\ 0 + j - 0 = j
      BY <1>1
    <3>2. Rest(s, f, 0, 0) = [j \in 1..Len(s) |-> s[j]]
      BY <1>1, <3>1 DEF Rest
    <3> QED BY <1>1, <3>2
  <2>5. At(s, 0) = NULL /\ Walked(l, s, r) /\ upto(0) = 0
    BY <1>1 DEF At, Shaped, Walked
  <2> HIDE DEF f, w
  <2>6. Walking(w, l, s, what, 0, 0, f, r)
    BY <2>2, <2>3, <2>4, <2>5 DEF Walking, Blank
  <2> QED BY <1>1, <2>1, <2>5, <2>6
<1>3. ASSUME NEW x \in 0..MaxNode, x < MaxNode, x \in S PROVE x + 1 \in S
  <2>1. PICK k, f, t : Walking(walk[x], l, s, what, upto(x), k, f, t)
    BY <1>3
  <2>2. walk[x + 1] = RemoveTurn(walk[x], what) /\ x + 1 \in 0..MaxNode
    <3>1. x + 1 \in 1..MaxNode /\ x + 1 - 1 = x /\ x + 1 \in 0..MaxNode
      BY <1>1, <1>3
    <3> DEFINE y == x + 1
    <3>2. y \in 1..MaxNode
      BY <3>1
    <3> HIDE DEF y
    <3>3. walk[y] = RemoveTurn(walk[y - 1], what)
      BY <3>2, Removing
    <3>4. y - 1 = x
      BY <3>1 DEF y
    <3>5. walk[y] = RemoveTurn(walk[x], what)
      BY <3>3, <3>4
    <3> QED BY <3>1, <3>5 DEF y
  <2> HIDE DEF walk
  <2>3. CASE x < Len(s)
    <3>1. upto(x) = x /\ upto(x + 1) = x + 1 /\ x \in 0..(Len(s) - 1)
      BY <1>1, <1>3, <2>3
    <3>2. \E kk, ff, rr : Walking(walk[x + 1], l, s, what, x + 1, kk, ff, rr)
      BY <1>1, <2>1, <2>2, <3>1, RemoveStep
    <3> HIDE DEF upto
    <3> QED BY <2>2, <3>1, <3>2
  <2>4. CASE x >= Len(s)
    <3>1. upto(x) = Len(s) /\ upto(x + 1) = Len(s)
      BY <1>1, <1>3, <2>4
    <3> HIDE DEF upto
    <3>2. walk[x + 1] = walk[x]
      BY <1>1, <2>1, <2>2, <3>1, RemoveDone
    <3> QED BY <2>1, <2>2, <3>1, <3>2
  <2> QED BY <1>1, <1>3, <2>3, <2>4
<1>4. \A x \in 0..MaxNode : x \in S
  <2> HIDE DEF S
  <2> QED BY <1>1, <1>2, <1>3, UpTo
<1> DEFINE end == walk[MaxNode]
<1>5. PICK k, f, t : Walking(end, l, s, what, Len(s), k, f, t)
  <2>1. MaxNode \in 0..MaxNode /\ upto(MaxNode) = Len(s)
    BY <1>1
  <2> HIDE DEF walk, upto
  <2> QED BY <1>4, <2>1
<1> DEFINE c == Rest(s, f, k, Len(s))
           v == IF end.list.first # NULL THEN end.prev ELSE NULL
           u == RemoveNodes(l, what)
<1>6. Len(c) = k /\ v = At(c, k)
  <2> HIDE DEF walk
  <2> QED BY <1>1, <1>5, RemoveDone
<1>7. u = [end.list EXCEPT !.last = v]
  BY DEF RemoveNodes
<1>8. /\ k \in Nat /\ Picks(f, k, Kept(l, s, what, Len(s))) /\ Walked(end.list, c, t)
      /\ \A m \in Node : InChain(c, m) => end.list.data[m] = l.data[m]
      /\ \A m \in Node : InChain(t, m) => end.list.data[m].obj = NULL
  <2> HIDE DEF end
  <2> QED BY <1>5 DEF Walking, Picks
<1>9. c = [j \in 1..k |-> s[f[j]]]
  <2>1. Len(s) - Len(s) + k = k /\ \A j \in 1..k : j <= k
    BY <1>1, <1>8
  <2> QED BY <2>1 DEF Rest
<1> HIDE DEF c, end, v, u
<1>10. Shaped(u, c, t) /\ u.data = end.list.data
  BY <1>6, <1>7, <1>8, LastSet
<1>11. Selected(l, s, what, u, k, f, c, t)
  BY <1>8, <1>9, <1>10 DEF Selected, Blank
<1> QED BY <1>11 DEF u

-----------------------------------------------------------------------------
(* The loop of msg_queue_flush *)

\* Its invariant: what is left of the queue starts at address at.
Emptying(w, l, s, r) ==
  /\ w \in [list : Lists, at : Pointer]
  /\ Chains(w.list, w.at, s, r)
  /\ w.list.data = l.data /\ w.list.used = l.used

LEMMA RecycleStep ==
  ASSUME NEW w, NEW l, NEW s, NEW r, Emptying(w, l, s, r)
  PROVE  \E ss, rr : /\ Emptying(RecycleTurn(w), l, ss, rr)
                     /\ Len(ss) = IF Len(s) = 0 THEN 0 ELSE Len(s) - 1
<1>1. /\ w \in [list : Lists, at : Pointer] /\ w.list \in Lists /\ s \in Seq(Node) /\ r \in Seq(Node)
      /\ Len(s) \in Nat /\ Len(r) \in Nat /\ NULL \notin Node
      /\ w.at = At(s, 1) /\ w.list.recycle = At(r, 1)
      /\ \A i \in 1..Len(s) : w.list.next[s[i]] = At(s, i + 1)
      /\ \A i \in 1..Len(r) : w.list.next[r[i]] = At(r, i + 1)
      /\ Distinct(s) /\ Distinct(r) /\ Apart(s, r)
      /\ w.list.used = {m \in Node : InChain(s, m) \/ InChain(r, m)}
  <2>1. NULL \notin Node
    BY DEF Node, NULL
  <2> QED BY <2>1 DEF Emptying, Chains, Linked
<1>2. CASE Len(s) = 0
  <2>1. w.at = NULL
    BY <1>1, <1>2 DEF At
  <2>2. RecycleTurn(w) = w
    BY <2>1 DEF RecycleTurn
  <2> QED BY <1>2, <2>2
<1>3. CASE Len(s) # 0
  <2> DEFINE n == s[1]
             list2 == [w.list EXCEPT !.next[n] = w.list.recycle, !.recycle = n]
             to == w.list.next[n]
             v == [list |-> list2, at |-> to]
             d == Without(s, 1)
             c == <<n>> \o r
  <2>1. 1 \in 1..Len(s) /\ n \in Node /\ w.at = n
    BY <1>1, <1>3 DEF At
  <2>2. RecycleTurn(w) = v
    BY <1>1, <2>1 DEF RecycleTurn
  <2>3. to = At(s, 2) /\ to \in Pointer /\ w.list.recycle \in Pointer
    BY <1>1, <2>1 DEF Lists
  <2>4. /\ list2 \in Lists /\ list2.recycle = n /\ list2.data = w.list.data /\ list2.used = w.list.used
        /\ \A m \in Node : list2.next[m] = IF m = n THEN w.list.recycle ELSE w.list.next[m]
    BY <1>1, <2>1, <2>3 DEF Lists, Pointer
  <2>5. /\ d \in Seq(Node) /\ Len(d) = Len(s) - 1
        /\ \A i \in Nat : At(d, i) = IF i < 1 THEN At(s, i) ELSE At(s, i + 1)
        /\ \A i \in 1..(Len(s) - 1) : d[i] = IF i < 1 THEN s[i] ELSE s[i + 1]
        /\ \A m : InChain(s, m) <=> m = n \/ InChain(d, m)
        /\ Distinct(d) /\ ~InChain(d, n)
    BY <1>1, <2>1, WithoutIs
  <2>6. ~InChain(r, n)
    BY <1>1, <2>1 DEF Apart, InChain
  <2>7. /\ c \in Seq(Node) /\ Len(c) = Len(r) + 1 /\ c[1] = n
        /\ \A i \in 1..Len(r) : c[i + 1] = r[i]
        /\ At(c, 1) = n /\ \A i \in Nat \ {0} : At(c, i + 1) = At(r, i)
        /\ \A m : InChain(c, m) <=> m = n \/ InChain(r, m)
        /\ Distinct(c)
    <3>1. r \in Seq(Node) /\ n \in Node /\ Distinct(r) /\ ~InChain(r, n)
      BY <1>1, <2>1, <2>6
    <3> HIDE DEF n
    <3> QED BY <3>1, InFront
  <2> HIDE DEF n, list2, to, d, c
  <2>8. to = At(d, 1)
    <3>1. At(d, 1) = IF 1 < 1 THEN At(s, 1) ELSE At(s, 1 + 1)
      BY <2>5
    <3> QED BY <2>3, <3>1
  <2>9. ASSUME NEW i \in 1..Len(d) PROVE list2.next[d[i]] = At(d, i + 1)
    <3>1. i \in Nat /\ i + 1 \in Nat /\ ~(i < 1) /\ ~(i + 1 < 1) /\ i \in 1..(Len(s) - 1) /\ i + 1 \in 1..Len(s)
      BY <1>1, <2>5
    <3>2. d[i] = s[i + 1] /\ At(d, i + 1) = At(s, i + 1 + 1) /\ d[i] \in Node
      <4>1. d[i] = IF i < 1 THEN s[i] ELSE s[i + 1]
        BY <2>5, <3>1
      <4>2. At(d, i + 1) = IF i + 1 < 1 THEN At(s, i + 1) ELSE At(s, i + 1 + 1)
        BY <2>5, <3>1
      <4>3. d[i] \in Node
        BY <2>5
      <4> QED BY <3>1, <4>1, <4>2, <4>3
    <3>3. d[i] # n
      BY <2>5 DEF InChain
    <3> QED BY <1>1, <2>4, <3>1, <3>2, <3>3
  <2>10. ASSUME NEW i \in 1..Len(c) PROVE list2.next[c[i]] = At(c, i + 1)
    <3>1. CASE i = 1
      <4>1. At(c, 1 + 1) = At(r, 1)
        BY <2>7
      <4> QED BY <1>1, <2>1, <2>4, <2>7, <3>1, <4>1
    <3>2. CASE i # 1
      <4> DEFINE j == i - 1
      <4>1. j \in 1..Len(r) /\ i = j + 1
        BY <1>1, <2>7, <3>2
      <4> HIDE DEF j
      <4>2. c[i] = r[j] /\ r[j] \in Node /\ r[j] # n
        <5>1. c[j + 1] = r[j]
          BY <2>7, <4>1
        <5>2. r[j] \in Node
          BY <1>1, <4>1
        <5> QED BY <2>6, <4>1, <5>1, <5>2 DEF InChain
      <4>3. list2.next[c[i]] = At(r, j + 1)
        BY <1>1, <2>4, <4>1, <4>2
      <4>4. At(c, i + 1) = At(r, i)
        BY <2>7
      <4> QED BY <4>1, <4>3, <4>4
    <3> QED BY <3>1, <3>2
  <2>11. Apart(d, c)
    <3> SUFFICES ASSUME NEW i \in 1..Len(d), NEW j \in 1..Len(c), d[i] = c[j] PROVE FALSE
      BY DEF Apart
    <3>1. InChain(d, d[i]) /\ InChain(c, d[i])
      BY DEF InChain
    <3>2. InChain(r, d[i]) /\ InChain(s, d[i])
      BY <2>5, <2>7, <3>1
    <3> QED BY <1>1, <3>2 DEF Apart, InChain
  <2>12. list2.used = {m \in Node : InChain(d, m) \/ InChain(c, m)}
    BY <1>1, <2>4, <2>5, <2>7
  <2>13. Chains(list2, to, d, c)
    BY <2>4, <2>5, <2>7, <2>8, <2>9, <2>10, <2>11, <2>12 DEF Chains, Linked
  <2>14. Emptying(v, l, d, c)
    BY <2>3, <2>4, <2>13 DEF Emptying
  <2> HIDE DEF v
  <2> QED BY <1>3, <2>2, <2>5, <2>14
<1> QED BY <1>2, <1>3

\* msg_queue_flush empties the queue into the recycle list and leaves the messages as they are.
LEMMA Recycled ==
  ASSUME NEW l, NEW s, NEW r, Shaped(l, s, r)
  PROVE  LET u == RecycleNodes(l)
         IN  /\ u.data = l.data
             /\ \E t : /\ Shaped(u, <<>>, t)
                       /\ \A m : InChain(t, m) <=> InChain(s, m) \/ InChain(r, m)
<1> DEFINE walk == RecycleWalk(l)
           Left(x) == \E ss, rr : Emptying(walk[x], l, ss, rr) /\ (Len(ss) = 0 \/ Len(ss) + x = Len(s))
           S == {x \in 0..MaxNode : Left(x)}
<1>1. /\ l \in Lists /\ s \in Seq(Node) /\ Len(s) \in 0..MaxNode /\ MaxNode \in Nat
      /\ Len(s) \in Nat /\ l.used = {m \in Node : InChain(s, m) \/ InChain(r, m)}
  BY Short, BoundsAssumption DEF Shaped, Chains, Linked
<1>2. 0 \in S
  <2> DEFINE w == [list |-> l, at |-> l.first]
  <2>1. walk[0] = w
    BY Recycling
  <2>2. w \in [list : Lists, at : Pointer] /\ w.list = l /\ w.at = l.first
    BY <1>1 DEF Lists
  <2> HIDE DEF w
  <2>3. Emptying(w, l, s, r) /\ Len(s) + 0 = Len(s)
    BY <1>1, <2>2 DEF Emptying, Shaped
  <2> QED BY <1>1, <2>1, <2>3
<1>3. ASSUME NEW x \in 0..MaxNode, x < MaxNode, x \in S PROVE x + 1 \in S
  <2>1. PICK ss, rr : Emptying(walk[x], l, ss, rr) /\ (Len(ss) = 0 \/ Len(ss) + x = Len(s))
    BY <1>3
  <2> DEFINE y == x + 1
  <2>2. y \in 1..MaxNode /\ y \in 0..MaxNode /\ y - 1 = x
    BY <1>1, <1>3
  <2> HIDE DEF y
  <2>3. walk[y] = RecycleTurn(walk[y - 1])
    BY <2>2, Recycling
  <2>4. PICK s2, r2 : /\ Emptying(RecycleTurn(walk[x]), l, s2, r2)
                      /\ Len(s2) = IF Len(ss) = 0 THEN 0 ELSE Len(ss) - 1
    <3> HIDE DEF walk
    <3> QED BY <2>1, RecycleStep
  <2>5. Len(ss) \in Nat
    BY <2>1 DEF Emptying, Chains, Linked
  <2> HIDE DEF walk
  <2>6. Len(s2) = 0 \/ Len(s2) + y = Len(s)
    <3> DEFINE a == Len(ss)
               b == Len(s)
    <3>1. /\ a \in Nat /\ b \in Nat /\ x \in Nat /\ (a = 0 \/ a + x = b)
          /\ Len(s2) = (IF a = 0 THEN 0 ELSE a - 1)
      BY <1>1, <2>1, <2>4, <2>5
    <3> HIDE DEF a, b
    <3>2. a # 0 => a - 1 + (x + 1) = b
      BY <3>1
    <3> QED BY <3>1, <3>2 DEF b, y
  <2>7. Left(y)
    BY <2>2, <2>3, <2>4, <2>6
  <2> QED BY <2>2, <2>7 DEF y
<1>4. \A x \in 0..MaxNode : x \in S
  <2> HIDE DEF S
  <2> QED BY <1>1, <1>2, <1>3, UpTo
<1> DEFINE end == walk[MaxNode]
<1>5. PICK ss, t : Emptying(end, l, ss, t) /\ (Len(ss) = 0 \/ Len(ss) + MaxNode = Len(s))
  <2>1. MaxNode \in 0..MaxNode
    BY <1>1
  <2> HIDE DEF walk
  <2> QED BY <1>4, <2>1
<1>6. ss \in Seq(Node) /\ Len(ss) = 0 /\ ss = <<>>
  <2>1. ss \in Seq(Node)
    BY <1>5 DEF Emptying, Chains, Linked
  <2>2. Len(ss) = 0
    BY <1>1, <1>5, <2>1
  <2> QED BY <2>1, <2>2
<1> DEFINE u == RecycleNodes(l)
<1> HIDE DEF walk
<1>7. u = [end.list EXCEPT !.first = NULL, !.last = NULL, !.nb = 0]
  BY DEF RecycleNodes, walk
<1> HIDE DEF end, u
<1>8. end.list \in Lists /\ Chains(end.list, end.at, <<>>, t) /\ end.list.data = l.data /\ end.list.used = l.used
  BY <1>5, <1>6 DEF Emptying
<1>9. /\ u \in Lists /\ u.first = NULL /\ u.last = NULL /\ u.nb = 0 /\ u.data = l.data
      /\ u.recycle = end.list.recycle /\ u.next = end.list.next /\ u.used = l.used
  BY <1>7, <1>8 DEF Lists, Pointer
<1>10. At(<<>>, 1) = NULL /\ At(<<>>, Len(<<>>)) = NULL /\ Len(<<>>) = 0
  BY DEF At
<1>11. Shaped(u, <<>>, t)
  BY <1>8, <1>9, <1>10 DEF Shaped, Chains, Linked
<1>12. ASSUME NEW m PROVE InChain(t, m) <=> InChain(s, m) \/ InChain(r, m)
  <2>1. \A x : (x \in Node /\ InChain(t, x)) <=> (x \in Node /\ (InChain(s, x) \/ InChain(r, x)))
    <3>1. ~\E x : InChain(<<>>, x)
      BY DEF InChain
    <3>2. l.used = {x \in Node : InChain(<<>>, x) \/ InChain(t, x)}
      BY <1>8 DEF Chains
    <3> QED BY <1>1, <3>1, <3>2
  <2>2. t \in Seq(Node) /\ r \in Seq(Node) /\ s \in Seq(Node)
    BY <1>8 DEF Shaped, Chains, Linked
  <2>3. (InChain(t, m) \/ InChain(s, m) \/ InChain(r, m)) => m \in Node
    BY <2>2 DEF InChain
  <2> QED BY <2>1, <2>3
<1> QED BY <1>9, <1>11, <1>12 DEF u

-----------------------------------------------------------------------------
(* What an operation does to the messages and their objects *)

\* The objects of the nodes of a sequence.
ObjsOf(l, s) == {l.data[s[i]].obj : i \in 1..Len(s)} \ {NULL}

\* What Abstract sees of the messages of a chain.
Msgs(l, s) == [i \in 1..Len(s) |-> [what |-> l.data[s[i]].what, id |-> l.data[s[i]].id]]

\* Messages are queued in the order of their serial numbers, below top; an object
\* has the number of its message.
Ordered(l, s, top) ==
  /\ \A i, j \in 1..Len(s) : i < j => l.data[s[i]].id < l.data[s[j]].id
  /\ \A i \in 1..Len(s) : /\ l.data[s[i]].id < top
                          /\ l.data[s[i]].obj \in {NULL, l.data[s[i]].id}

\* The sequences are what Chain and Objs find.
LEMMA Found ==
  ASSUME NEW l, NEW s, NEW r, Shaped(l, s, r)
  PROVE  /\ Chain(l, l.first) = s /\ Chain(l, l.recycle) = r
         /\ Objs(l, l.first) = ObjsOf(l, s) /\ Objs(l, l.recycle) = ObjsOf(l, r)
         /\ s \in Seq(Node) /\ r \in Seq(Node) /\ Len(s) \in Nat /\ Len(r) \in Nat
         /\ (l.first = NULL <=> s = <<>>)
<1>1. /\ s \in Seq(Node) /\ r \in Seq(Node) /\ Distinct(s) /\ Distinct(r)
      /\ Linked(l, l.first, s) /\ Linked(l, l.recycle, r)
  BY DEF Shaped, Chains, Linked
<1>2. Chain(l, l.first) = s /\ Chain(l, l.recycle) = r
  BY <1>1, ChainIs
<1>3. Len(s) \in Nat /\ Len(r) \in Nat /\ DOMAIN s = 1..Len(s) /\ DOMAIN r = 1..Len(r)
  BY <1>1
<1>4. Objs(l, l.first) = ObjsOf(l, s) /\ Objs(l, l.recycle) = ObjsOf(l, r)
  BY <1>2, <1>3 DEF Objs, ObjsOf
<1>5. l.first = NULL <=> Len(s) = 0
  <2>1. NULL \notin Node
    BY DEF Node, NULL
  <2> QED BY <1>1, <1>3, <2>1 DEF Linked, At
<1> QED BY <1>1, <1>2, <1>3, <1>4, <1>5

LEMMA NoObjs ==
  ASSUME NEW l, NEW r \in Seq(Node), Blank(l, r)
  PROVE  ObjsOf(l, r) = {}
<1>1. ASSUME NEW i \in 1..Len(r) PROVE l.data[r[i]].obj = NULL
  BY DEF Blank, InChain
<1> QED BY <1>1 DEF ObjsOf

LEMMA Enqueued ==
  ASSUME NEW l, NEW s, NEW r, NEW top \in 0..MaxId, Shaped(l, s, r), Ordered(l, s, top), Blank(l, r),
         HasNode(l), NEW m \in Msg, m.id = top, m.obj \in {NULL, top}
  PROVE  LET u == AppendNode(l, m)
             c == Append(s, NodeFor(l))
         IN  /\ \E t : Shaped(u, c, t) /\ Blank(u, t)
             /\ Ordered(u, c, top + 1)
             /\ ObjsOf(u, c) = ObjsOf(l, s) \cup ({m.obj} \ {NULL})
             /\ \A i \in 1..Len(s) : c[i] = s[i] /\ u.data[s[i]] = l.data[s[i]]
             /\ Len(c) = Len(s) + 1 /\ u.data[c[Len(s) + 1]] = m
<1> DEFINE u == AppendNode(l, m)
           n == NodeFor(l)
           c == Append(s, n)
<1>1. /\ n \in Node /\ ~InChain(s, n)
      /\ u.data = [l.data EXCEPT ![n] = m]
  BY Appended
<1>2. PICK t : /\ Shaped(u, c, t)
               /\ \A x : InChain(t, x) => InChain(r, x)
  BY Appended
<1>3. /\ s \in Seq(Node) /\ Len(s) \in Nat /\ l.data \in [Node -> Msg] /\ MaxId \in Nat /\ top \in Nat
      /\ \A x \in Node : l.data[x].id \in 0..MaxId
  <2>1. s \in Seq(Node) /\ l.data \in [Node -> Msg]
    BY DEF Shaped, Chains, Linked, Lists
  <2> QED BY <2>1, BoundsAssumption DEF Msg
<1> HIDE DEF u, n
<1>4. c \in Seq(Node) /\ Len(c) = Len(s) + 1 /\ c[Len(s) + 1] = n /\ \A i \in 1..Len(s) : c[i] = s[i]
  BY <1>1, <1>3
<1> HIDE DEF c
<1>5. \A i \in 1..Len(c) : i = Len(s) + 1 \/ i \in 1..Len(s)
  BY <1>3, <1>4
<1>6. ASSUME NEW i \in 1..Len(s) PROVE u.data[s[i]] = l.data[s[i]] /\ u.data[c[i]] = l.data[s[i]] /\ s[i] \in Node
  <2>1. s[i] # n /\ s[i] \in Node
    BY <1>1, <1>3 DEF InChain
  <2> QED BY <1>1, <1>3, <1>4, <2>1
<1>7. u.data[c[Len(s) + 1]] = m
  BY <1>1, <1>3, <1>4
<1>8. ASSUME NEW x \in Node, InChain(t, x) PROVE u.data[x].obj = NULL
  <2>1. x # n
    <3>1. Apart(c, t) /\ InChain(c, n)
      <4>1. Len(s) + 1 \in 1..Len(c)
        BY <1>3, <1>4
      <4> QED BY <1>2, <1>4, <4>1 DEF Shaped, Chains, InChain
    <3> QED BY <1>8, <3>1 DEF Apart, InChain
  <2> QED BY <1>1, <1>2, <1>3, <1>8, <2>1 DEF Blank
<1>9. Ordered(u, c, top + 1)
  <2>1. ASSUME NEW i \in 1..Len(c), NEW j \in 1..Len(c), i < j PROVE u.data[c[i]].id < u.data[c[j]].id
    <3>1. i \in 1..Len(s)
      BY <1>3, <1>5, <1>4, <2>1
    <3>2. u.data[c[i]].id = l.data[s[i]].id /\ l.data[s[i]].id < top
      BY <1>6, <3>1 DEF Ordered
    <3> QED BY <1>5, <1>6, <1>7, <2>1, <3>1, <3>2 DEF Ordered
  <2>2. ASSUME NEW i \in 1..Len(c)
        PROVE  u.data[c[i]].id < top + 1 /\ u.data[c[i]].obj \in {NULL, u.data[c[i]].id}
    <3>1. CASE i = Len(s) + 1
      BY <1>3, <1>7, <3>1
    <3>2. CASE i \in 1..Len(s)
      <4>1. /\ u.data[c[i]] = l.data[s[i]] /\ l.data[s[i]].id < top /\ l.data[s[i]].id \in 0..MaxId
            /\ l.data[s[i]].obj \in {NULL, l.data[s[i]].id}
        BY <1>3, <1>6, <3>2 DEF Ordered
      <4>2. l.data[s[i]].id < top + 1
        <5> DEFINE id == l.data[s[i]].id
        <5>1. id \in 0..MaxId /\ id < top
          BY <4>1
        <5> HIDE DEF id
        <5>2. id < top + 1
          BY <1>3, <5>1
        <5> QED BY <5>2 DEF id
      <4> QED BY <4>1, <4>2
    <3> QED BY <1>5, <3>1, <3>2
  <2> QED BY <2>1, <2>2 DEF Ordered
<1>10. ObjsOf(u, c) = ObjsOf(l, s) \cup ({m.obj} \ {NULL})
  <2>1. ASSUME NEW x \in ObjsOf(u, c) PROVE x \in ObjsOf(l, s) \cup ({m.obj} \ {NULL})
    BY <1>5, <1>6, <1>7 DEF ObjsOf
  <2>2. ASSUME NEW x \in ObjsOf(l, s) PROVE x \in ObjsOf(u, c)
    <3>1. \A i \in 1..Len(s) : i \in 1..Len(c)
      BY <1>3, <1>4
    <3> QED BY <1>6, <3>1 DEF ObjsOf
  <2>3. ASSUME NEW x \in {m.obj} \ {NULL} PROVE x \in ObjsOf(u, c)
    <3>1. Len(s) + 1 \in 1..Len(c)
      BY <1>3, <1>4
    <3> QED BY <1>7, <3>1 DEF ObjsOf
  <2> QED BY <2>1, <2>2, <2>3
<1>11. \E tt : Shaped(u, c, tt) /\ Blank(u, tt)
  BY <1>2, <1>8 DEF Blank
<1> QED BY <1>4, <1>6, <1>7, <1>9, <1>10, <1>11 DEF u, c, n

LEMMA Dequeued ==
  ASSUME NEW l, NEW s, NEW r, NEW top, Shaped(l, s, r), Ordered(l, s, top), Blank(l, r), s # <<>>
  PROVE  LET u == PopNode(l)
             w == Without(s, 1)
             o == l.data[l.first].obj
         IN  /\ \E t : Shaped(u, w, t) /\ Blank(u, t)
             /\ Ordered(u, w, top)
             /\ ObjsOf(l, s) = ObjsOf(u, w) \cup ({o} \ {NULL})
             /\ o \notin ObjsOf(u, w)
             /\ l.first = s[1] /\ l.data[l.first] \in Msg
             /\ Msgs(l, s) # <<>> /\ Msgs(u, w) = Tail(Msgs(l, s))
             /\ Head(Msgs(l, s)).id = l.data[l.first].id
<1> DEFINE u == PopNode(l)
           n == s[1]
           w == Without(s, 1)
           t == <<n>> \o r
           o == l.data[l.first].obj
<1>1. /\ s \in Seq(Node) /\ r \in Seq(Node) /\ Len(s) \in Nat /\ Len(s) # 0 /\ 1 \in 1..Len(s)
      /\ l.data \in [Node -> Msg] /\ Distinct(s) /\ l.first = n /\ n \in Node
  <2>1. s \in Seq(Node) /\ r \in Seq(Node) /\ l.data \in [Node -> Msg] /\ Distinct(s) /\ l.first = At(s, 1)
    BY DEF Shaped, Chains, Linked, Lists
  <2>2. Len(s) \in Nat /\ Len(s) # 0 /\ 1 \in 1..Len(s)
    BY <2>1
  <2> QED BY <2>1, <2>2 DEF At
<1>2. /\ Shaped(u, w, t) /\ u.data = [l.data EXCEPT ![n].obj = NULL]
  BY <1>1, Popped
<1>3. /\ w \in Seq(Node) /\ Len(w) = Len(s) - 1
      /\ \A i \in 1..(Len(s) - 1) : w[i] = IF i < 1 THEN s[i] ELSE s[i + 1]
      /\ ~InChain(w, n)
  BY <1>1, WithoutIs
<1> HIDE DEF u, w
<1>4. ASSUME NEW i \in 1..Len(w)
      PROVE  /\ i + 1 \in 1..Len(s) /\ w[i] = s[i + 1] /\ w[i] \in Node /\ w[i] # n
             /\ u.data[w[i]] = l.data[s[i + 1]]
  <2>1. i \in 1..(Len(s) - 1) /\ i + 1 \in 1..Len(s) /\ ~(i < 1)
    BY <1>1, <1>3
  <2>2. w[i] = s[i + 1] /\ w[i] \in Node /\ w[i] # n
    BY <1>3, <2>1 DEF InChain
  <2> QED BY <1>1, <1>2, <2>1, <2>2
<1>5. \A j \in 1..Len(s) : j = 1 \/ (j - 1 \in 1..Len(w) /\ j - 1 + 1 = j)
  BY <1>1, <1>3
<1>6. Blank(u, t)
  <2> SUFFICES ASSUME NEW x \in Node, InChain(t, x) PROVE u.data[x].obj = NULL
    BY DEF Blank
  <2>1. x = n \/ InChain(r, x)
    <3> HIDE DEF n
    <3> QED BY <1>1, InFront
  <2> QED BY <1>1, <1>2, <2>1 DEF Blank, Msg
<1>7. Ordered(u, w, top)
  <2>1. ASSUME NEW i \in 1..Len(w), NEW j \in 1..Len(w), i < j PROVE u.data[w[i]].id < u.data[w[j]].id
    <3>1. i + 1 < j + 1
      BY <1>1, <1>3, <2>1
    <3> QED BY <1>4, <3>1 DEF Ordered
  <2>2. ASSUME NEW i \in 1..Len(w)
        PROVE  u.data[w[i]].id < top /\ u.data[w[i]].obj \in {NULL, u.data[w[i]].id}
    BY <1>4 DEF Ordered
  <2> QED BY <2>1, <2>2 DEF Ordered
<1>8. ObjsOf(l, s) = ObjsOf(u, w) \cup ({o} \ {NULL})
  <2>1. ASSUME NEW x \in ObjsOf(l, s) PROVE x \in ObjsOf(u, w) \cup ({o} \ {NULL})
    <3>1. PICK j \in 1..Len(s) : l.data[s[j]].obj = x
      BY DEF ObjsOf
    <3>2. CASE j = 1
      BY <1>1, <3>1, <3>2 DEF ObjsOf
    <3>3. CASE j # 1
      <4>1. j - 1 \in 1..Len(w) /\ u.data[w[j - 1]] = l.data[s[j]]
        BY <1>4, <1>5, <3>3
      <4> QED BY <3>1, <4>1 DEF ObjsOf
    <3> QED BY <3>2, <3>3
  <2>2. ASSUME NEW x \in ObjsOf(u, w) PROVE x \in ObjsOf(l, s)
    BY <1>4 DEF ObjsOf
  <2>3. {o} \ {NULL} \subseteq ObjsOf(l, s)
    BY <1>1 DEF ObjsOf
  <2> QED BY <2>1, <2>2, <2>3
<1>9. o \notin ObjsOf(u, w)
  <2> SUFFICES ASSUME NEW i \in 1..Len(w), u.data[w[i]].obj = o, o # NULL PROVE FALSE
    BY DEF ObjsOf
  <2>1. l.data[s[i + 1]].obj = l.data[s[i + 1]].id /\ l.data[s[1]].obj = l.data[s[1]].id
    BY <1>1, <1>4 DEF Ordered
  <2>2. 1 < i + 1
    BY <1>1, <1>3
  <2>3. l.data[s[1]].id < l.data[s[i + 1]].id
    BY <1>1, <1>4, <2>2 DEF Ordered
  <2>4. l.data[s[1]].id = l.data[s[i + 1]].id
    BY <1>1, <1>4, <2>1
  <2>5. l.data[s[1]].id \in Nat
    <3>1. l.data[n] \in Msg /\ MaxId \in Nat
      BY <1>1, BoundsAssumption
    <3> QED BY <3>1 DEF Msg
  <2> QED BY <2>3, <2>4, <2>5
<1>10. \E tt : Shaped(u, w, tt) /\ Blank(u, tt)
  BY <1>2, <1>6
<1>11. l.data[l.first] \in Msg
  BY <1>1
<1>12. Msgs(l, s) # <<>> /\ Msgs(u, w) = Tail(Msgs(l, s)) /\ Head(Msgs(l, s)).id = l.data[n].id
  <2> DEFINE a == Msgs(l, s)
             b == Msgs(u, w)
  <2>1. /\ a = [i \in 1..Len(s) |-> [what |-> l.data[s[i]].what, id |-> l.data[s[i]].id]]
        /\ b = [i \in 1..(Len(s) - 1) |-> [what |-> u.data[w[i]].what, id |-> u.data[w[i]].id]]
    BY <1>3 DEF Msgs
  <2>2. Len(a) = Len(s) /\ a # <<>> /\ Head(a) = a[1]
    BY <1>1, <2>1
  <2>3. Tail(a) = [i \in 1..(Len(s) - 1) |-> a[i + 1]]
    BY <2>1, <2>2
  <2>4. ASSUME NEW i \in 1..(Len(s) - 1) PROVE b[i] = a[i + 1]
    <3>1. i \in 1..Len(w)
      BY <1>3
    <3> QED BY <1>4, <2>1, <3>1
  <2>5. Head(a).id = l.data[n].id
    BY <1>1, <2>1, <2>2
  <2> HIDE DEF a, b
  <2>6. b = Tail(a)
    BY <2>1, <2>3, <2>4
  <2> QED BY <2>2, <2>5, <2>6 DEF a, b
<1> QED BY <1>1, <1>7, <1>8, <1>9, <1>10, <1>11, <1>12 DEF u, w

LEMMA Purged ==
  ASSUME NEW l, NEW s, NEW r, NEW top, NEW what, Shaped(l, s, r), Ordered(l, s, top), Blank(l, r)
  PROVE  \E k, f, c, t :
           LET u == RemoveNodes(l, what)
           IN  /\ Selected(l, s, what, u, k, f, c, t)
               /\ Len(c) = k
               /\ \A j \in 1..k : f[j] \in 1..Len(s) /\ u.data[c[j]] = l.data[s[f[j]]]
               /\ Ordered(u, c, top)
               /\ \A x : x \in ObjsOf(u, c) <=>
                         /\ x \in ObjsOf(l, s)
                         /\ ~\E i \in 1..Len(s) : l.data[s[i]].what = what /\ l.data[s[i]].obj = x
<1> DEFINE u == RemoveNodes(l, what)
<1>1. PICK k, f, c, t : Selected(l, s, what, u, k, f, c, t)
  BY Removed
<1>2. /\ Picks(f, k, Kept(l, s, what, Len(s)))
      /\ c = [j \in 1..k |-> s[f[j]]]
      /\ Shaped(u, c, t) /\ Blank(u, t)
      /\ \A m \in Node : InChain(c, m) => u.data[m] = l.data[m]
  BY <1>1 DEF Selected
<1> HIDE DEF u
<1>3. /\ s \in Seq(Node) /\ Len(s) \in Nat /\ k \in Nat /\ f \in [1..k -> 1..Len(s)]
      /\ l.data \in [Node -> Msg]
  <2>1. s \in Seq(Node) /\ l.data \in [Node -> Msg]
    BY DEF Shaped, Chains, Linked, Lists
  <2>2. k \in Nat /\ f \in [1..k -> Kept(l, s, what, Len(s))]
    BY <1>2 DEF Picks
  <2>3. Kept(l, s, what, Len(s)) \subseteq 1..Len(s)
    BY DEF Kept
  <2> QED BY <2>1, <2>2, <2>3
<1>4. c \in Seq(Node) /\ Len(c) = k /\ \A j \in 1..k : c[j] = s[f[j]] /\ s[f[j]] \in Node
  <2>1. \A j \in 1..k : s[f[j]] \in Node
    BY <1>3
  <2>2. c = [j \in 1..k |-> s[f[j]]]
    BY <1>2
  <2>3. c \in [1..k -> Node]
    BY <2>1, <2>2
  <2> QED BY <1>3, <2>1, <2>2, <2>3
<1>5. ASSUME NEW j \in 1..k PROVE f[j] \in 1..Len(s) /\ u.data[c[j]] = l.data[s[f[j]]]
  <2>1. InChain(c, c[j]) /\ c[j] \in Node /\ c[j] = s[f[j]]
    BY <1>4 DEF InChain
  <2> QED BY <1>2, <1>3, <2>1
<1>6. \A i, j \in 1..k : i < j => f[i] < f[j]
  BY <1>2 DEF Picks
<1>7. Ordered(u, c, top)
  <2>1. ASSUME NEW i \in 1..Len(c), NEW j \in 1..Len(c), i < j PROVE u.data[c[i]].id < u.data[c[j]].id
    BY <1>4, <1>5, <1>6, <2>1 DEF Ordered
  <2>2. ASSUME NEW i \in 1..Len(c)
        PROVE  u.data[c[i]].id < top /\ u.data[c[i]].obj \in {NULL, u.data[c[i]].id}
    BY <1>4, <1>5 DEF Ordered
  <2> QED BY <2>1, <2>2 DEF Ordered
<1>8. ASSUME NEW x, x \in ObjsOf(u, c)
      PROVE  /\ x \in ObjsOf(l, s)
             /\ ~\E i \in 1..Len(s) : l.data[s[i]].what = what /\ l.data[s[i]].obj = x
  <2>1. PICK j \in 1..k : u.data[c[j]].obj = x /\ x # NULL
    BY <1>4, <1>8 DEF ObjsOf
  <2>2. f[j] \in 1..Len(s) /\ l.data[s[f[j]]].obj = x
    BY <1>5, <2>1
  <2>3. l.data[s[f[j]]].what # what
    BY <1>2, <1>3 DEF Picks, Kept
  <2>4. ASSUME NEW i \in 1..Len(s), l.data[s[i]].what = what, l.data[s[i]].obj = x PROVE FALSE
    <3>1. l.data[s[i]].id = x /\ l.data[s[f[j]]].id = x
      BY <2>1, <2>2, <2>4 DEF Ordered
    <3>2. i # f[j]
      BY <2>3, <2>4
    <3>3. i < f[j] \/ f[j] < i
      BY <1>3, <2>2, <3>2
    <3>4. ~(x < x)
      <4>1. l.data[s[i]] \in Msg /\ MaxId \in Nat
        BY <1>3, BoundsAssumption
      <4>2. x \in Nat
        BY <3>1, <4>1 DEF Msg
      <4> QED BY <4>2
    <3> QED BY <2>2, <3>1, <3>3, <3>4 DEF Ordered
  <2> QED BY <2>1, <2>2, <2>4 DEF ObjsOf
<1>9. ASSUME NEW x, x \in ObjsOf(l, s),
             ~\E i \in 1..Len(s) : l.data[s[i]].what = what /\ l.data[s[i]].obj = x
      PROVE  x \in ObjsOf(u, c)
  <2>1. PICK i \in 1..Len(s) : l.data[s[i]].obj = x /\ x # NULL
    BY <1>9 DEF ObjsOf
  <2>2. i \in Kept(l, s, what, Len(s))
    BY <1>9, <2>1 DEF Kept
  <2>3. PICK j \in 1..k : f[j] = i
    BY <1>2, <2>2 DEF Picks
  <2> QED BY <1>4, <1>5, <2>1, <2>3 DEF ObjsOf
<1> DEFINE Good(kk, ff, cc, tt) ==
             LET v == RemoveNodes(l, what)
             IN  /\ Selected(l, s, what, v, kk, ff, cc, tt)
                 /\ Len(cc) = kk
                 /\ \A j \in 1..kk : ff[j] \in 1..Len(s) /\ v.data[cc[j]] = l.data[s[ff[j]]]
                 /\ Ordered(v, cc, top)
                 /\ \A x : x \in ObjsOf(v, cc) <=>
                           /\ x \in ObjsOf(l, s)
                           /\ ~\E i \in 1..Len(s) : l.data[s[i]].what = what /\ l.data[s[i]].obj = x
<1>10. Good(k, f, c, t)
  BY <1>1, <1>4, <1>5, <1>7, <1>8, <1>9 DEF u
<1> HIDE DEF Good
<1>11. \E kk, ff, cc, tt : Good(kk, ff, cc, tt)
  BY <1>10
<1> QED BY <1>11 DEF Good

-----------------------------------------------------------------------------
(* The inductive invariant *)

\* ObjectsOwned, of any owners.
Owned(queued, free, lv, h, refused) ==
  LET taken == {h[t] : t \in Getters} \ {NULL}
  IN  /\ lv = queued \cup free \cup taken \cup refused
      /\ queued \cap (free \cup taken \cup refused) = {}
      /\ free \cap (taken \cup refused) = {}
      /\ taken \cap refused = {}
      /\ \A t, u \in Getters : h[t] = h[u] /\ h[t] # NULL => t = u

\* While the queue is open its recycled nodes are blank; then it is empty.
Chained(s, r) ==
  /\ Shaped(list, s, r) /\ Ordered(list, s, nextId)
  /\ phase = "open" => Blank(list, r)
  /\ phase # "open" => s = <<>>

IInv ==
  /\ TypeOK
  /\ live \subseteq 1..(nextId - 1)
  /\ ObjectsOwned
  /\ \E s, r : Chained(s, r)

LEMMA OwnedIs ==
  ASSUME NEW s, NEW r, Shaped(list, s, r)
  PROVE  ObjectsOwned <=> Owned(ObjsOf(list, s), ObjsOf(list, r), live, held, rejected)
<1>1. Objs(list, list.first) = ObjsOf(list, s) /\ Objs(list, list.recycle) = ObjsOf(list, r)
  BY Found
<1> QED BY <1>1 DEF ObjectsOwned, Owned

LEMMA OwnedNext ==
  ASSUME NEW s, NEW r, Shaped(list', s, r)
  PROVE  ObjectsOwned' <=> Owned(ObjsOf(list', s), ObjsOf(list', r), live', held', rejected')
<1>1. Objs(list', list'.first) = ObjsOf(list', s) /\ Objs(list', list'.recycle) = ObjsOf(list', r)
  BY Found
<1> QED BY <1>1 DEF ObjectsOwned, Owned, Objs

\* What owns objects in a state of the invariant: live ones below nextId.
LEMMA Owners ==
  ASSUME IInv, NEW s, NEW r, Chained(s, r)
  PROVE  /\ Owned(ObjsOf(list, s), ObjsOf(list, r), live, held, rejected)
         /\ phase = "open" => ObjsOf(list, r) = {}
         /\ phase # "open" => ObjsOf(list, s) = {}
         /\ s \in Seq(Node) /\ r \in Seq(Node) /\ Len(s) \in Nat /\ (list.first = NULL <=> s = <<>>)
         /\ nextId \in Nat /\ MaxId \in Nat /\ nextId \notin live /\ nextId # NULL
<1>1. Owned(ObjsOf(list, s), ObjsOf(list, r), live, held, rejected)
  BY OwnedIs DEF IInv, Chained
<1>2. s \in Seq(Node) /\ r \in Seq(Node) /\ Len(s) \in Nat /\ (list.first = NULL <=> s = <<>>)
  BY Found DEF Chained
<1>3. phase = "open" => ObjsOf(list, r) = {}
  BY <1>2, NoObjs DEF Chained
<1>4. ASSUME phase # "open" PROVE ObjsOf(list, s) = {}
  <2>1. Len(s) = 0
    BY <1>4 DEF Chained
  <2> QED BY <2>1 DEF ObjsOf
<1>5. MaxId \in Nat /\ nextId \in 1..(MaxId + 1) /\ live \subseteq 1..(nextId - 1)
  BY BoundsAssumption DEF IInv, TypeOK
<1>6. nextId \in Nat /\ nextId \notin live /\ nextId # 0
  BY <1>5
<1> QED BY <1>1, <1>2, <1>3, <1>4, <1>5, <1>6 DEF NULL

\* The variables but list keep their types, and objects are numbered below nextId.
LEMMA TypeKept ==
  ASSUME IInv, [Next]_vars, list' \in Lists
  PROVE  TypeOK' /\ live' \subseteq 1..(nextId' - 1)
<1>0. MaxId \in Nat /\ TypeOK /\ live \subseteq 1..(nextId - 1) /\ nextId \in 1..(MaxId + 1) /\ list \in Lists
  BY BoundsAssumption DEF IInv, TypeOK, Lists, Pointer
<1>1. ASSUME NEW what \in Whats, NEW withObj \in BOOLEAN, Put(what, withObj)
      PROVE  TypeOK' /\ live' \subseteq 1..(nextId' - 1)
  <2> DEFINE objs == {IF withObj THEN nextId ELSE NULL} \ {NULL}
  <2>1. /\ nextId <= MaxId /\ nextId' = nextId + 1 /\ live' = live \cup objs
        /\ rejected' = rejected \/ rejected' = rejected \cup objs
        /\ UNCHANGED <<waiting, woken>> \/ SignalOne
        /\ UNCHANGED <<abort, last, answer, held, phase>>
    BY <1>1 DEF Put
  <2>2. objs \subseteq 1..nextId /\ nextId' \in 1..(MaxId + 1) /\ 1..nextId \subseteq 1..MaxId
    BY <1>0, <2>1 DEF NULL
  <2> HIDE DEF objs
  <2>3. live' \subseteq 1..(nextId' - 1) /\ live' \subseteq 1..MaxId /\ rejected' \subseteq 1..MaxId
    <3>1. nextId' - 1 = nextId /\ 1..(nextId - 1) \subseteq 1..nextId
      BY <1>0, <2>1
    <3>2. live' \subseteq 1..nextId
      BY <1>0, <2>1, <2>2, <3>1
    <3>3. rejected' \subseteq 1..MaxId
      BY <1>0, <2>1, <2>2 DEF TypeOK
    <3> QED BY <2>2, <3>1, <3>2, <3>3
  <2>4. waiting' \subseteq Getters /\ woken' \subseteq Getters
    BY <1>0, <2>1 DEF TypeOK, SignalOne
  <2> QED BY <1>0, <2>1, <2>2, <2>3, <2>4 DEF TypeOK, Lists, Pointer
<1>2. ASSUME NEW what \in Whats, Remove(what) PROVE TypeOK' /\ live' \subseteq 1..(nextId' - 1)
  <2>1. live' \subseteq live
    BY <1>2 DEF Remove
  <2> QED BY <1>0, <1>2, <2>1 DEF TypeOK, Lists, Pointer, Remove
<1>3. CASE Start
  <2>1. waiting' \subseteq Getters /\ woken' \subseteq Getters
    BY <1>0, <1>3 DEF TypeOK, SignalOne, Start
  <2>2. /\ nextId' \in 1..(MaxId + 1) /\ 1..(nextId - 1) \subseteq 1..(nextId' - 1) /\ abort' = FALSE
        /\ UNCHANGED <<last, answer, live, held, rejected, phase>>
    BY <1>0, <1>3 DEF Start
  <2> QED BY <1>0, <2>1, <2>2 DEF TypeOK, Lists, Pointer
<1>4. CASE Abort
  <2>1. waiting' \subseteq Getters /\ woken' \subseteq Getters
    BY <1>0, <1>4 DEF TypeOK, SignalOne, Abort
  <2> QED BY <1>0, <1>4, <2>1 DEF TypeOK, Lists, Pointer, Abort
<1>5. CASE Flush
  BY <1>0, <1>5 DEF TypeOK, Lists, Pointer, Flush
<1>6. CASE Destroy
  <2>1. live' \subseteq live
    BY <1>6 DEF Destroy
  <2> QED BY <1>0, <1>6, <2>1 DEF TypeOK, Lists, Pointer, Destroy
<1>7. ASSUME NEW t \in Getters, NEW block \in BOOLEAN, Get(t, block)
      PROVE  TypeOK' /\ live' \subseteq 1..(nextId' - 1)
  <2>1. /\ woken' = woken \ {t} /\ UNCHANGED <<abort, nextId, live, rejected, phase>>
        /\ waiting' = waiting \/ waiting' = waiting \cup {t}
    BY <1>7 DEF Get
  <2>2. \/ UNCHANGED <<last, held>>
        \/ /\ list.first # NULL
           /\ held' = [held EXCEPT ![t] = list.data[list.first].obj]
           /\ last' = list.data[list.first].id
    BY <1>7 DEF Get
  <2>3. last' \in 0..MaxId /\ held' \in [Getters -> 0..MaxId]
    <3>1. CASE UNCHANGED <<last, held>>
      BY <1>0, <3>1 DEF TypeOK
    <3>2. CASE /\ list.first # NULL
               /\ held' = [held EXCEPT ![t] = list.data[list.first].obj]
               /\ last' = list.data[list.first].id
      <4>1. list.data[list.first] \in Msg
        BY <1>0, <3>2 DEF Lists, Pointer
      <4>2. list.data[list.first].id \in 0..MaxId /\ list.data[list.first].obj \in 0..MaxId
        BY <4>1 DEF Msg
      <4> QED BY <1>0, <3>2, <4>2 DEF TypeOK
    <3> QED BY <2>2, <3>1, <3>2
  <2>4. answer' \in [Getters -> {"none", "message", "aborted"}]
    BY <1>0, <1>7 DEF Get, TypeOK
  <2> QED BY <1>0, <2>1, <2>3, <2>4 DEF TypeOK, Lists, Pointer
<1>8. ASSUME NEW t \in Getters, FreeRes(t) \/ SpuriousWakeup(t)
      PROVE  TypeOK' /\ live' \subseteq 1..(nextId' - 1)
  <2>1. CASE FreeRes(t)
    <3>1. live' \subseteq live /\ held' \in [Getters -> 0..MaxId]
      BY <1>0, <2>1 DEF FreeRes, TypeOK, NULL
    <3> QED BY <1>0, <2>1, <3>1 DEF TypeOK, Lists, Pointer, FreeRes
  <2>2. CASE SpuriousWakeup(t)
    BY <1>0, <2>2 DEF TypeOK, Lists, Pointer, SpuriousWakeup
  <2> QED BY <1>8, <2>1, <2>2
<1>9. CASE UNCHANGED vars
  BY <1>0, <1>9 DEF TypeOK, vars, Lists, Pointer
<1> QED BY <1>1, <1>2, <1>3, <1>4, <1>5, <1>6, <1>7, <1>8, <1>9 DEF Next

\* Put and Start: a message is queued.
LEMMA AcceptStep ==
  ASSUME IInv, NEW s, NEW r, Chained(s, r), NEW what \in Whats \cup {FLUSH}, NEW obj \in {NULL, nextId},
         phase = "open", nextId <= MaxId, HasNode(list),
         list' = AppendNode(list, [what |-> what, id |-> nextId, obj |-> obj]),
         nextId' = nextId + 1, live' = live \cup ({obj} \ {NULL}), UNCHANGED <<held, rejected, phase>>
  PROVE  \E c, t : /\ Chained(c, t)' /\ ObjectsOwned'
                   /\ Msgs(list', c) = Append(Msgs(list, s), [what |-> what, id |-> nextId])
<1> DEFINE m == [what |-> what, id |-> nextId, obj |-> obj]
           objs == {obj} \ {NULL}
<1>0. PICK c : c = Append(s, NodeFor(list))
  OBVIOUS
<1>1. /\ Owned(ObjsOf(list, s), ObjsOf(list, r), live, held, rejected) /\ ObjsOf(list, r) = {}
      /\ s \in Seq(Node) /\ Len(s) \in Nat /\ nextId \in Nat /\ MaxId \in Nat /\ nextId \notin live
  BY Owners
<1>2. m \in Msg /\ m.id = nextId /\ m.obj = obj /\ m.what = what
  <2>1. obj \in 0..MaxId /\ nextId \in 0..MaxId
    BY <1>1 DEF NULL
  <2> QED BY <2>1 DEF Msg
<1> HIDE DEF m
<1>3. /\ \E t : Shaped(list', c, t) /\ Blank(list', t)
      /\ Ordered(list', c, nextId + 1)
      /\ ObjsOf(list', c) = ObjsOf(list, s) \cup objs
      /\ \A i \in 1..Len(s) : c[i] = s[i] /\ list'.data[s[i]] = list.data[s[i]]
      /\ Len(c) = Len(s) + 1 /\ list'.data[c[Len(s) + 1]] = m
  <2>1. Shaped(list, s, r) /\ Ordered(list, s, nextId) /\ Blank(list, r) /\ nextId \in 0..MaxId
    BY <1>1 DEF Chained
  <2>2. list' = AppendNode(list, m)
    BY DEF m
  <2>3. HasNode(list) /\ m.obj \in {NULL, nextId} /\ m.id = nextId /\ m \in Msg
    BY <1>2
  <2>4. LET u == AppendNode(list, m)
        IN  /\ \E t : Shaped(u, c, t) /\ Blank(u, t)
            /\ Ordered(u, c, nextId + 1)
            /\ ObjsOf(u, c) = ObjsOf(list, s) \cup ({m.obj} \ {NULL})
            /\ \A i \in 1..Len(s) : c[i] = s[i] /\ u.data[s[i]] = list.data[s[i]]
            /\ Len(c) = Len(s) + 1 /\ u.data[c[Len(s) + 1]] = m
    <3>1. LET u == AppendNode(list, m)
              d == Append(s, NodeFor(list))
          IN  /\ \E t : Shaped(u, d, t) /\ Blank(u, t)
              /\ Ordered(u, d, nextId + 1)
              /\ ObjsOf(u, d) = ObjsOf(list, s) \cup ({m.obj} \ {NULL})
              /\ \A i \in 1..Len(s) : d[i] = s[i] /\ u.data[s[i]] = list.data[s[i]]
              /\ Len(d) = Len(s) + 1 /\ u.data[d[Len(s) + 1]] = m
      BY <2>1, <2>3, Enqueued
    <3> QED BY <1>0, <3>1
  <2>5. /\ \E t : Shaped(list', c, t) /\ Blank(list', t)
        /\ Ordered(list', c, nextId + 1)
        /\ ObjsOf(list', c) = ObjsOf(list, s) \cup ({m.obj} \ {NULL})
        /\ \A i \in 1..Len(s) : c[i] = s[i] /\ list'.data[s[i]] = list.data[s[i]]
        /\ Len(c) = Len(s) + 1 /\ list'.data[c[Len(s) + 1]] = m
    <3>1. \E t : Shaped(list', c, t) /\ Blank(list', t)
      BY <2>2, <2>4, Zenon
    <3>2. Ordered(list', c, nextId + 1)
      BY <2>2, <2>4, Zenon
    <3>3. ObjsOf(list', c) = ObjsOf(list, s) \cup ({m.obj} \ {NULL})
      BY <2>2, <2>4, Zenon
    <3>4. \A i \in 1..Len(s) : c[i] = s[i] /\ list'.data[s[i]] = list.data[s[i]]
      BY <2>2, <2>4
    <3>5. Len(c) = Len(s) + 1 /\ list'.data[c[Len(s) + 1]] = m
      BY <2>2, <2>4
    <3> QED BY <3>1, <3>2, <3>3, <3>4, <3>5
  <2>6. {m.obj} \ {NULL} = objs
    BY <1>2
  <2> HIDE DEF objs
  <2> QED BY <2>5, <2>6
<1>4. PICK t : Shaped(list', c, t) /\ Blank(list', t)
  BY <1>3
<1>5. Chained(c, t)'
  BY <1>3, <1>4 DEF Chained
<1>6. ObjsOf(list', t) = {}
  BY <1>4, NoObjs, Found
<1>7. Owned(ObjsOf(list', c), ObjsOf(list', t), live', held', rejected')
  <2>1. objs \cap live = {}
    BY <1>1
  <2> HIDE DEF objs
  <2> QED BY <1>1, <1>3, <1>6, <2>1 DEF Owned, objs
<1>8. ObjectsOwned'
  BY <1>4, <1>7, OwnedNext
<1>9. Msgs(list', c) = Append(Msgs(list, s), [what |-> what, id |-> nextId])
  <2> DEFINE x == [what |-> what, id |-> nextId]
             a == Msgs(list, s)
             b == Msgs(list', c)
  <2>1. /\ a = [i \in 1..Len(s) |-> [what |-> list.data[s[i]].what, id |-> list.data[s[i]].id]]
        /\ b = [i \in 1..(Len(s) + 1) |-> [what |-> list'.data[c[i]].what, id |-> list'.data[c[i]].id]]
    BY <1>3 DEF Msgs
  <2>2. Len(a) = Len(s)
    BY <1>1, <2>1
  <2>3. Append(a, x) = [i \in 1..(Len(s) + 1) |-> IF i = Len(s) + 1 THEN x ELSE a[i]]
    BY <1>1, <2>2
  <2>4. ASSUME NEW i \in 1..(Len(s) + 1) PROVE b[i] = IF i = Len(s) + 1 THEN x ELSE a[i]
    <3>1. b[i] = [what |-> list'.data[c[i]].what, id |-> list'.data[c[i]].id]
      BY <2>1
    <3>2. CASE i = Len(s) + 1
      BY <1>2, <1>3, <3>1, <3>2
    <3>3. CASE i # Len(s) + 1
      <4>1. i \in 1..Len(s)
        BY <1>1, <3>3
      <4> QED BY <1>3, <2>1, <3>1, <3>3, <4>1
    <3> QED BY <3>2, <3>3
  <2> HIDE DEF a, b, x
  <2> QED BY <2>1, <2>3, <2>4 DEF a, b, x
<1>10. Chained(c, t)' /\ ObjectsOwned' /\ Msgs(list', c) = Append(Msgs(list, s), [what |-> what, id |-> nextId])
  BY <1>5, <1>8, <1>9
<1> QED BY <1>10

\* Get: a message is delivered, and its object with it.
LEMMA DeliverStep ==
  ASSUME IInv, NEW s, NEW r, Chained(s, r), NEW th \in Getters, held[th] = NULL,
         phase = "open", list.first # NULL, list' = PopNode(list),
         held' = [held EXCEPT ![th] = list.data[list.first].obj],
         UNCHANGED <<nextId, live, rejected, phase>>
  PROVE  \E c, t : /\ Chained(c, t)' /\ ObjectsOwned'
                   /\ s # <<>> /\ Msgs(list, s) # <<>> /\ Msgs(list', c) = Tail(Msgs(list, s))
                   /\ Head(Msgs(list, s)).id = list.data[list.first].id
<1>1. /\ Owned(ObjsOf(list, s), ObjsOf(list, r), live, held, rejected) /\ ObjsOf(list, r) = {}
      /\ s \in Seq(Node) /\ Len(s) \in Nat /\ s # <<>>
  BY Owners
<1>2. PICK c : c = Without(s, 1)
  OBVIOUS
<1> DEFINE o == list.data[list.first].obj
<1>3. Shaped(list, s, r) /\ Ordered(list, s, nextId) /\ Blank(list, r) /\ s # <<>>
  BY <1>1 DEF Chained
<1>4. /\ \E t : Shaped(list', c, t) /\ Blank(list', t)
      /\ Ordered(list', c, nextId)
  BY <1>2, <1>3, Dequeued
<1>5. ObjsOf(list, s) = ObjsOf(list', c) \cup ({o} \ {NULL}) /\ o \notin ObjsOf(list', c)
  BY <1>2, <1>3, Dequeued
<1>6. /\ Msgs(list, s) # <<>> /\ Msgs(list', c) = Tail(Msgs(list, s))
      /\ Head(Msgs(list, s)).id = list.data[list.first].id
  BY <1>2, <1>3, Dequeued
<1> HIDE DEF o
<1>7. PICK t : Shaped(list', c, t) /\ Blank(list', t)
  BY <1>4
<1>8. Chained(c, t)'
  BY <1>4, <1>7 DEF Chained
<1>9. ObjsOf(list', t) = {}
  BY <1>7, NoObjs, Found
<1>10. Owned(ObjsOf(list', c), ObjsOf(list', t), live', held', rejected')
  <2> DEFINE taken == {held[g] : g \in Getters} \ {NULL}
  <2>1. held \in [Getters -> 0..MaxId]
    BY DEF IInv, TypeOK
  <2>2. \A g \in Getters : held'[g] = IF g = th THEN o ELSE held[g]
    BY <2>1 DEF o
  <2>3. {held'[g] : g \in Getters} \ {NULL} = taken \cup ({o} \ {NULL})
    BY <2>2
  <2>4. /\ live = ObjsOf(list, s) \cup taken \cup rejected
        /\ ObjsOf(list, s) \cap (taken \cup rejected) = {}
        /\ taken \cap rejected = {}
        /\ \A g, h \in Getters : held[g] = held[h] /\ held[g] # NULL => g = h
    BY <1>1 DEF Owned
  <2>5. \A g, h \in Getters : held'[g] = held'[h] /\ held'[g] # NULL => g = h
    <3>1. ASSUME NEW g \in Getters, held[g] = o, o # NULL PROVE FALSE
      <4>1. o \in ObjsOf(list, s) /\ o \in taken
        BY <1>5, <3>1
      <4> QED BY <2>4, <4>1
    <3> QED BY <2>2, <2>4, <3>1
  <2> HIDE DEF taken
  <2>6. /\ live' = ObjsOf(list', c) \cup {} \cup (taken \cup ({o} \ {NULL})) \cup rejected'
        /\ ObjsOf(list', c) \cap ({} \cup (taken \cup ({o} \ {NULL})) \cup rejected') = {}
        /\ (taken \cup ({o} \ {NULL})) \cap rejected' = {}
    BY <1>5, <2>4
  <2> QED BY <1>9, <2>3, <2>5, <2>6 DEF Owned
<1>11. ObjectsOwned'
  BY <1>7, <1>10, OwnedNext
<1> QED BY <1>1, <1>6, <1>8, <1>11

\* Remove: messages of a kind are unlinked and their objects freed.
LEMMA PurgeStep ==
  ASSUME IInv, NEW s, NEW r, Chained(s, r), NEW what,
         phase = "open", list' = RemoveNodes(list, what),
         live' = live \ {n \in 1..MaxId : \E i \in DOMAIN Chain(list, list.first) :
                           LET m == list.data[Chain(list, list.first)[i]]
                           IN  m.what = what /\ m.obj = n},
         UNCHANGED <<nextId, held, rejected, phase>>
  PROVE  \E c, t, k, f : /\ Chained(c, t)' /\ ObjectsOwned'
                         /\ Picks(f, k, Kept(list, s, what, Len(s)))
                         /\ Msgs(list', c) = [j \in 1..k |-> Msgs(list, s)[f[j]]]
<1> DEFINE gone(x) == \E i \in 1..Len(s) : list.data[s[i]].what = what /\ list.data[s[i]].obj = x
<1>1. /\ Owned(ObjsOf(list, s), ObjsOf(list, r), live, held, rejected) /\ ObjsOf(list, r) = {}
      /\ s \in Seq(Node) /\ Len(s) \in Nat
  BY Owners
<1>2. PICK k, f, c, t :
           LET u == RemoveNodes(list, what)
           IN  /\ Selected(list, s, what, u, k, f, c, t)
               /\ Len(c) = k
               /\ \A j \in 1..k : f[j] \in 1..Len(s) /\ u.data[c[j]] = list.data[s[f[j]]]
               /\ Ordered(u, c, nextId)
               /\ \A x : x \in ObjsOf(u, c) <=>
                         /\ x \in ObjsOf(list, s)
                         /\ ~\E i \in 1..Len(s) : list.data[s[i]].what = what /\ list.data[s[i]].obj = x
  <2>1. Shaped(list, s, r) /\ Ordered(list, s, nextId) /\ Blank(list, r)
    BY DEF Chained
  <2> QED BY <2>1, Purged
<1>3. /\ Selected(list, s, what, list', k, f, c, t)
      /\ Len(c) = k
      /\ \A j \in 1..k : f[j] \in 1..Len(s) /\ list'.data[c[j]] = list.data[s[f[j]]]
      /\ Ordered(list', c, nextId)
      /\ \A x : x \in ObjsOf(list', c) <=> x \in ObjsOf(list, s) /\ ~gone(x)
  BY <1>2
<1>4. Shaped(list', c, t) /\ Blank(list', t) /\ Picks(f, k, Kept(list, s, what, Len(s)))
  BY <1>3 DEF Selected
<1>5. Chained(c, t)'
  BY <1>3, <1>4 DEF Chained
<1>6. ObjsOf(list', t) = {}
  BY <1>4, NoObjs, Found
<1>7. \A x : x \in live' <=> x \in live /\ ~(x \in 1..MaxId /\ gone(x))
  <2>1. Chain(list, list.first) = s /\ DOMAIN s = 1..Len(s)
    BY <1>1, Found DEF Chained
  <2> QED BY <2>1
<1>8. live \subseteq 1..MaxId
  BY DEF IInv, TypeOK
<1>9. \A x : gone(x) /\ x # NULL => x \in ObjsOf(list, s)
  BY DEF ObjsOf
<1> HIDE DEF gone
<1>10. Owned(ObjsOf(list', c), ObjsOf(list', t), live', held', rejected')
  <2> DEFINE taken == {held[g] : g \in Getters} \ {NULL}
  <2>1. /\ live = ObjsOf(list, s) \cup taken \cup rejected
        /\ ObjsOf(list, s) \cap (taken \cup rejected) = {}
        /\ taken \cap rejected = {}
        /\ \A g, h \in Getters : held[g] = held[h] /\ held[g] # NULL => g = h
    BY <1>1 DEF Owned
  <2> HIDE DEF taken
  <2>2. ObjsOf(list', c) \cap (taken \cup rejected) = {}
    BY <1>3, <2>1
  <2>3. NULL \notin live
    BY <1>8 DEF NULL
  <2>4. live' = ObjsOf(list', c) \cup taken \cup rejected
    <3>1. ASSUME NEW x, x \in live' PROVE x \in ObjsOf(list', c) \cup taken \cup rejected
      BY <1>3, <1>7, <1>8, <2>1, <3>1
    <3>2. ASSUME NEW x, x \in ObjsOf(list', c) \cup taken \cup rejected PROVE x \in live'
      <4>1. x \in live
        BY <1>3, <2>1, <3>2
      <4>2. ~gone(x)
        BY <1>3, <1>9, <2>1, <2>3, <3>2, <4>1
      <4> QED BY <1>7, <4>1, <4>2
    <3> QED BY <3>1, <3>2
  <2> QED BY <1>6, <2>1, <2>2, <2>4 DEF Owned, taken
<1>11. ObjectsOwned'
  BY <1>4, <1>10, OwnedNext
<1>12. Msgs(list', c) = [j \in 1..k |-> Msgs(list, s)[f[j]]]
  <2>1. ASSUME NEW j \in 1..k
        PROVE  [what |-> list'.data[c[j]].what, id |-> list'.data[c[j]].id] = Msgs(list, s)[f[j]]
    BY <1>3 DEF Msgs
  <2> QED BY <1>3, <2>1 DEF Msgs
<1>13. /\ Chained(c, t)' /\ ObjectsOwned' /\ Picks(f, k, Kept(list, s, what, Len(s)))
       /\ Msgs(list', c) = [j \in 1..k |-> Msgs(list, s)[f[j]]]
  BY <1>4, <1>5, <1>11, <1>12
<1> DEFINE Good(cc, tt, kk, ff) ==
             /\ Chained(cc, tt)' /\ ObjectsOwned'
             /\ Picks(ff, kk, Kept(list, s, what, Len(s)))
             /\ Msgs(list', cc) = [j \in 1..kk |-> Msgs(list, s)[ff[j]]]
<1>14. Good(c, t, k, f)
  BY <1>13
<1> HIDE DEF Good
<1>15. \E cc, tt, kk, ff : Good(cc, tt, kk, ff)
  BY <1>14
<1> QED BY <1>15 DEF Good

\* Flush: what was queued is in the recycle list, objects and all.
LEMMA FlushStep ==
  ASSUME IInv, NEW s, NEW r, Chained(s, r), phase = "open", Flush
  PROVE  \E t : Chained(<<>>, t)' /\ ObjectsOwned'
<1>1. /\ Owned(ObjsOf(list, s), ObjsOf(list, r), live, held, rejected) /\ ObjsOf(list, r) = {}
      /\ s \in Seq(Node) /\ r \in Seq(Node) /\ Len(s) \in Nat
  BY Owners
<1>2. /\ list' = RecycleNodes(list) /\ phase' = "flushed"
      /\ UNCHANGED <<live, held, rejected, nextId>>
  BY DEF Flush
<1>3. PICK t : /\ Shaped(list', <<>>, t)
               /\ \A m : InChain(t, m) <=> InChain(s, m) \/ InChain(r, m)
  BY <1>2, Recycled DEF Chained
<1>4. list'.data = list.data
  BY <1>2, Recycled DEF Chained
<1>5. ObjsOf(list', t) = ObjsOf(list, s)
  <2>1. ASSUME NEW x, x \in ObjsOf(list', t) PROVE x \in ObjsOf(list, s)
    <3>1. PICK i \in 1..Len(t) : list.data[t[i]].obj = x /\ x # NULL
      BY <1>4, <2>1 DEF ObjsOf
    <3>2. InChain(s, t[i]) \/ InChain(r, t[i])
      BY <1>3 DEF InChain
    <3>3. CASE InChain(s, t[i])
      BY <3>1, <3>3 DEF InChain, ObjsOf
    <3>4. CASE InChain(r, t[i])
      <4>1. x \in ObjsOf(list, r)
        BY <3>1, <3>4 DEF InChain, ObjsOf
      <4> QED BY <1>1, <4>1
    <3> QED BY <3>2, <3>3, <3>4
  <2>2. ASSUME NEW x, x \in ObjsOf(list, s) PROVE x \in ObjsOf(list', t)
    <3>1. PICK i \in 1..Len(s) : list.data[s[i]].obj = x /\ x # NULL
      BY <2>2 DEF ObjsOf
    <3>2. InChain(t, s[i])
      BY <1>3 DEF InChain
    <3> QED BY <1>4, <3>1, <3>2 DEF InChain, ObjsOf
  <2> QED BY <2>1, <2>2
<1>6. ObjsOf(list', <<>>) = {}
  BY DEF ObjsOf
<1>7. Ordered(list', <<>>, nextId')
  BY DEF Ordered
<1>8. Chained(<<>>, t)'
  BY <1>2, <1>3, <1>7 DEF Chained
<1>9. Owned(ObjsOf(list', <<>>), ObjsOf(list', t), live', held', rejected')
  BY <1>1, <1>2, <1>5, <1>6 DEF Owned
<1>10. ObjectsOwned'
  BY <1>3, <1>9, OwnedNext
<1> QED BY <1>8, <1>10

\* Destroy: the recycled nodes are freed, with their objects.
LEMMA DestroyStep ==
  ASSUME IInv, NEW s, NEW r, Chained(s, r), Destroy
  PROVE  Chained(<<>>, <<>>)' /\ ObjectsOwned'
<1> DEFINE l == RecycleNodes(list)
<1>1. /\ Owned(ObjsOf(list, s), ObjsOf(list, r), live, held, rejected) /\ ObjsOf(list, s) = {}
      /\ r \in Seq(Node) /\ s = <<>>
  BY Owners DEF Destroy, Chained
<1>2. /\ live' = live \ Objs(l, l.recycle) /\ list' = [l EXCEPT !.recycle = NULL, !.used = {}]
      /\ phase' = "destroyed" /\ UNCHANGED <<held, rejected, nextId>>
  BY DEF Destroy
<1>3. PICK t : /\ Shaped(l, <<>>, t)
               /\ \A m : InChain(t, m) <=> InChain(s, m) \/ InChain(r, m)
  BY Recycled DEF Chained
<1>4. l.data = list.data
  BY Recycled DEF Chained
<1> HIDE DEF l
<1>5. Objs(l, l.recycle) = ObjsOf(l, t)
  BY <1>3, Found
<1>6. ObjsOf(l, t) = ObjsOf(list, r)
  <2>1. ~\E m : InChain(s, m)
    BY <1>1 DEF InChain
  <2>2. ASSUME NEW x, x \in ObjsOf(l, t) PROVE x \in ObjsOf(list, r)
    <3>1. PICK i \in 1..Len(t) : list.data[t[i]].obj = x /\ x # NULL
      BY <1>4, <2>2 DEF ObjsOf
    <3>2. InChain(r, t[i])
      BY <1>3, <2>1 DEF InChain
    <3> QED BY <3>1, <3>2 DEF InChain, ObjsOf
  <2>3. ASSUME NEW x, x \in ObjsOf(list, r) PROVE x \in ObjsOf(l, t)
    <3>1. PICK i \in 1..Len(r) : list.data[r[i]].obj = x /\ x # NULL
      BY <2>3 DEF ObjsOf
    <3>2. InChain(t, r[i])
      BY <1>3 DEF InChain
    <3> QED BY <1>4, <3>1, <3>2 DEF InChain, ObjsOf
  <2> QED BY <2>2, <2>3
<1>7. /\ l \in Lists /\ l.first = At(<<>>, 1) /\ l.nb = Len(<<>>) /\ l.last = At(<<>>, Len(<<>>))
  BY <1>3 DEF Shaped, Chains, Linked
<1>8. /\ list' \in Lists /\ list'.first = l.first /\ list'.last = l.last /\ list'.nb = l.nb
      /\ list'.recycle = NULL /\ list'.used = {}
  BY <1>2, <1>7 DEF Lists, Pointer
<1>9. Shaped(list', <<>>, <<>>)
  <2>1. /\ <<>> \in Seq(Node) /\ Len(<<>>) = 0 /\ At(<<>>, 1) = NULL
        /\ Distinct(<<>>) /\ Apart(<<>>, <<>>) /\ ~\E m : InChain(<<>>, m)
    BY DEF At, Distinct, Apart, InChain
  <2> QED BY <1>7, <1>8, <2>1 DEF Shaped, Chains, Linked
<1>10. ObjsOf(list', <<>>) = {}
  BY DEF ObjsOf
<1>11. Chained(<<>>, <<>>)'
  <2>1. Ordered(list', <<>>, nextId')
    BY DEF Ordered
  <2> QED BY <1>2, <1>9, <2>1 DEF Chained
<1>12. Owned(ObjsOf(list', <<>>), ObjsOf(list', <<>>), live', held', rejected')
  <2> DEFINE taken == {held[g] : g \in Getters} \ {NULL}
  <2>1. /\ live = ObjsOf(list, r) \cup taken \cup rejected
        /\ ObjsOf(list, r) \cap (taken \cup rejected) = {}
        /\ taken \cap rejected = {}
        /\ \A g, h \in Getters : held[g] = held[h] /\ held[g] # NULL => g = h
    BY <1>1 DEF Owned
  <2> HIDE DEF taken
  <2>2. live' = taken \cup rejected
    BY <1>2, <1>5, <1>6, <2>1
  <2> QED BY <1>2, <1>10, <2>1, <2>2 DEF Owned, taken
<1>13. ObjectsOwned'
  BY <1>9, <1>12, OwnedNext
<1> QED BY <1>11, <1>13

\* A step that leaves the list as it is.
LEMMA SameList ==
  ASSUME IInv, NEW s, NEW r, Chained(s, r), UNCHANGED <<list, phase>>, nextId' \in {nextId, nextId + 1}
  PROVE  /\ Chained(s, r)'
         /\ Owned(ObjsOf(list, s), ObjsOf(list, r), live', held', rejected') => ObjectsOwned'
<1>1. s \in Seq(Node) /\ Len(s) \in Nat /\ nextId \in Nat /\ MaxId \in Nat
  BY Owners
<1>2. ASSUME NEW i \in 1..Len(s) PROVE list.data[s[i]].id < nextId'
  <2>1. list.data \in [Node -> Msg]
    BY DEF Chained, Shaped, Lists
  <2>2. list.data[s[i]] \in Msg
    BY <1>1, <2>1
  <2> DEFINE id == list.data[s[i]].id
  <2>3. id \in 0..MaxId /\ id < nextId
    BY <2>2 DEF Msg, Chained, Ordered
  <2> HIDE DEF id
  <2>4. id < nextId'
    BY <1>1, <2>3
  <2> QED BY <2>4 DEF id
<1>3. Ordered(list', s, nextId')
  BY <1>2 DEF Chained, Ordered
<1>4. Shaped(list', s, r) /\ Chained(s, r)'
  BY <1>3 DEF Chained
<1> QED BY <1>4, OwnedNext

LEMMA Established ==
  ASSUME Init PROVE IInv
<1>1. 0 \in Nat /\ MaxId \in Nat /\ nextId = 1
  BY BoundsAssumption DEF Init
<1>2. list \in Lists
  <2>1. NoMsg \in Msg /\ NULL \in Pointer
    BY <1>1 DEF Msg, NoMsg, Pointer, NULL
  <2>2. list = [first |-> NULL, last |-> NULL, recycle |-> NULL, nb |-> 0,
                next |-> [n \in Node |-> NULL], data |-> [n \in Node |-> NoMsg], used |-> {}]
    BY DEF Init
  <2> QED BY <1>1, <2>1, <2>2 DEF Lists
<1>3. TypeOK
  BY <1>1, <1>2 DEF Init, TypeOK, Lists, Pointer, NULL
<1>4. Shaped(list, <<>>, <<>>)
  <2>1. /\ <<>> \in Seq(Node) /\ Len(<<>>) = 0 /\ At(<<>>, 1) = NULL /\ At(<<>>, Len(<<>>)) = NULL
        /\ Distinct(<<>>) /\ Apart(<<>>, <<>>) /\ ~\E m : InChain(<<>>, m)
    BY DEF At, Distinct, Apart, InChain
  <2>2. list.first = NULL /\ list.last = NULL /\ list.recycle = NULL /\ list.nb = 0 /\ list.used = {}
    BY DEF Init
  <2> QED BY <1>2, <2>1, <2>2 DEF Shaped, Chains, Linked
<1>5. Chained(<<>>, <<>>)
  <2>1. Ordered(list, <<>>, nextId) /\ Blank(list, <<>>)
    BY DEF Ordered, Blank, InChain
  <2> QED BY <1>4, <2>1 DEF Chained, Init
<1>6. ObjectsOwned
  <2>1. ObjsOf(list, <<>>) = {}
    BY DEF ObjsOf
  <2>2. live = {} /\ rejected = {} /\ held = [t \in Getters |-> NULL]
    BY DEF Init
  <2>3. Owned(ObjsOf(list, <<>>), ObjsOf(list, <<>>), live, held, rejected)
    BY <2>1, <2>2 DEF Owned
  <2> QED BY <1>4, <2>3, OwnedIs
<1> QED BY <1>3, <1>5, <1>6 DEF IInv, Init

LEMMA Preserved ==
  ASSUME IInv, [Next]_vars PROVE IInv'
<1> SUFFICES ObjectsOwned' /\ \E c, t : Chained(c, t)'
  <2>1. ASSUME NEW c, NEW t, Chained(c, t)' PROVE list' \in Lists
    BY <2>1 DEF Chained, Shaped
  <2>2. (\E c, t : Chained(c, t)') => TypeOK' /\ live' \subseteq 1..(nextId' - 1)
    BY <2>1, TypeKept
  <2> QED BY <2>2 DEF IInv
<1>0. PICK s, r : Chained(s, r)
  BY DEF IInv
<1>1. /\ Owned(ObjsOf(list, s), ObjsOf(list, r), live, held, rejected)
      /\ nextId \notin live
  BY <1>0, Owners
<1> DEFINE Goal == ObjectsOwned' /\ \E c, t : Chained(c, t)'
<1>2. ASSUME NEW what \in Whats, NEW withObj \in BOOLEAN, Put(what, withObj) PROVE Goal
  <2> DEFINE obj == IF withObj THEN nextId ELSE NULL
  <2>1. CASE abort
    <3>1. /\ UNCHANGED <<list, phase, held>> /\ nextId' = nextId + 1
          /\ live' = live \cup ({obj} \ {NULL}) /\ rejected' = rejected \cup ({obj} \ {NULL})
      BY <1>2, <2>1 DEF Put
    <3>2. ({obj} \ {NULL}) \cap live = {}
      BY <1>1
    <3> HIDE DEF obj
    <3>3. Owned(ObjsOf(list, s), ObjsOf(list, r), live', held', rejected')
      BY <1>1, <3>1, <3>2 DEF Owned
    <3> QED BY <1>0, <3>1, <3>3, SameList
  <2>2. CASE ~abort
    <3>1. /\ phase = "open" /\ nextId <= MaxId /\ HasNode(list)
          /\ list' = AppendNode(list, [what |-> what, id |-> nextId, obj |-> obj])
          /\ nextId' = nextId + 1 /\ live' = live \cup ({obj} \ {NULL})
          /\ UNCHANGED <<held, rejected, phase>>
      BY <1>2, <2>2 DEF Put
    <3>2. obj \in {NULL, nextId} /\ what \in Whats \cup {FLUSH}
      OBVIOUS
    <3> HIDE DEF obj
    <3> QED BY <1>0, <3>1, <3>2, AcceptStep
  <2> QED BY <2>1, <2>2
<1>3. ASSUME NEW what \in Whats, Remove(what) PROVE Goal
  <2>1. CASE ~abort /\ list.first # NULL
    <3>1. /\ phase = "open" /\ list' = RemoveNodes(list, what)
          /\ live' = live \ {n \in 1..MaxId : \E i \in DOMAIN Chain(list, list.first) :
                               LET m == list.data[Chain(list, list.first)[i]]
                               IN  m.what = what /\ m.obj = n}
          /\ UNCHANGED <<nextId, held, rejected, phase>>
      BY <1>3, <2>1 DEF Remove
    <3> QED BY <1>0, <3>1, PurgeStep
  <2>2. CASE ~(~abort /\ list.first # NULL)
    <3>1. UNCHANGED <<list, live, nextId, held, rejected, phase>>
      BY <1>3, <2>2 DEF Remove
    <3> QED BY <1>0, <1>1, <3>1, SameList
  <2> QED BY <2>1, <2>2
<1>4. CASE Start
  <2> DEFINE obj == NULL
  <2>1. /\ phase = "open" /\ nextId <= MaxId /\ HasNode(list)
        /\ list' = AppendNode(list, [what |-> FLUSH, id |-> nextId, obj |-> obj])
        /\ nextId' = nextId + 1 /\ live' = live \cup ({obj} \ {NULL})
        /\ UNCHANGED <<held, rejected, phase>>
    BY <1>4 DEF Start
  <2>2. obj \in {NULL, nextId} /\ FLUSH \in Whats \cup {FLUSH}
    OBVIOUS
  <2> HIDE DEF obj
  <2> QED BY <1>0, <2>1, <2>2, AcceptStep
<1>5. CASE Abort
  <2>1. UNCHANGED <<list, live, nextId, held, rejected, phase>>
    BY <1>5 DEF Abort
  <2> QED BY <1>0, <1>1, <2>1, SameList
<1>6. CASE Flush
  <2>1. phase = "open"
    BY <1>6 DEF Flush
  <2> QED BY <1>0, <1>6, <2>1, FlushStep
<1>7. CASE Destroy
  BY <1>0, <1>7, DestroyStep
<1>8. ASSUME NEW t \in Getters, NEW block \in BOOLEAN, Get(t, block) PROVE Goal
  <2>1. CASE ~abort /\ list.first # NULL
    <3>1. /\ phase = "open" /\ held[t] = NULL /\ list' = PopNode(list)
          /\ held' = [held EXCEPT ![t] = list.data[list.first].obj]
          /\ UNCHANGED <<nextId, live, rejected, phase>>
      BY <1>8, <2>1 DEF Get
    <3> QED BY <1>0, <2>1, <3>1, DeliverStep
  <2>2. CASE ~(~abort /\ list.first # NULL)
    <3>1. UNCHANGED <<list, live, nextId, held, rejected, phase>>
      BY <1>8, <2>2 DEF Get
    <3> QED BY <1>0, <1>1, <3>1, SameList
  <2> QED BY <2>1, <2>2
<1>9. ASSUME NEW t \in Getters, FreeRes(t) PROVE Goal
  <2>1. /\ live' = live \ {held[t]} /\ held' = [held EXCEPT ![t] = NULL] /\ held[t] # NULL
        /\ UNCHANGED <<list, nextId, rejected, phase>>
    BY <1>9 DEF FreeRes
  <2> DEFINE taken == {held[g] : g \in Getters} \ {NULL}
  <2>2. \A g \in Getters : held'[g] = IF g = t THEN NULL ELSE held[g]
    BY <2>1 DEF IInv, TypeOK
  <2>3. /\ live = ObjsOf(list, s) \cup ObjsOf(list, r) \cup taken \cup rejected
        /\ ObjsOf(list, s) \cap (ObjsOf(list, r) \cup taken \cup rejected) = {}
        /\ ObjsOf(list, r) \cap (taken \cup rejected) = {}
        /\ taken \cap rejected = {}
        /\ \A g, h \in Getters : held[g] = held[h] /\ held[g] # NULL => g = h
    BY <1>1 DEF Owned
  <2>4. {held'[g] : g \in Getters} \ {NULL} = taken \ {held[t]}
    BY <2>1, <2>2, <2>3
  <2>5. \A g, h \in Getters : held'[g] = held'[h] /\ held'[g] # NULL => g = h
    BY <2>2, <2>3
  <2>6. held[t] \in taken
    BY <2>1
  <2> HIDE DEF taken
  <2>7. /\ live' = ObjsOf(list, s) \cup ObjsOf(list, r) \cup (taken \ {held[t]}) \cup rejected'
        /\ ObjsOf(list, s) \cap (ObjsOf(list, r) \cup (taken \ {held[t]}) \cup rejected') = {}
        /\ ObjsOf(list, r) \cap ((taken \ {held[t]}) \cup rejected') = {}
        /\ (taken \ {held[t]}) \cap rejected' = {}
    BY <2>1, <2>3, <2>6
  <2>8. Owned(ObjsOf(list, s), ObjsOf(list, r), live', held', rejected')
    BY <2>4, <2>5, <2>7 DEF Owned
  <2> QED BY <1>0, <2>1, <2>8, SameList
<1>10. ASSUME NEW t \in Getters, SpuriousWakeup(t) PROVE Goal
  <2>1. UNCHANGED <<list, live, nextId, held, rejected, phase>>
    BY <1>10 DEF SpuriousWakeup
  <2> QED BY <1>0, <1>1, <2>1, SameList
<1>11. CASE UNCHANGED vars
  <2>1. UNCHANGED <<list, live, nextId, held, rejected, phase>>
    BY <1>11 DEF vars
  <2> QED BY <1>0, <1>1, <2>1, SameList
<1> QED BY <1>2, <1>3, <1>4, <1>5, <1>6, <1>7, <1>8, <1>9, <1>10, <1>11 DEF Next

\* Every state of every behaviour satisfies the invariant.
THEOREM InvariantHolds == Spec => []IInv
<1>1. Init => IInv
  BY Established
<1>2. IInv /\ [Next]_vars => IInv'
  BY Preserved
<1> QED BY <1>1, <1>2, PTL DEF Spec

-----------------------------------------------------------------------------
(* What follows from it *)

\* Every variable keeps its type: no address is of a node that does not exist, no
\* serial number or object is beyond the messages put.
THEOREM Typing == Spec => []TypeOK
<1>1. IInv => TypeOK
  BY DEF IInv
<1> QED BY <1>1, InvariantHolds, PTL

\* A sequence of distinct nodes has as many as its length.
LEMMA Distinctly ==
  ASSUME NEW s \in Seq(Node), Distinct(s)
  PROVE  Cardinality({s[i] : i \in 1..Len(s)}) = Len(s)
<1> DEFINE T == {s[i] : i \in 1..Len(s)}
           f == [i \in 1..Len(s) |-> s[i]]
<1>1. Len(s) \in Nat /\ IsFiniteSet(1..Len(s)) /\ Cardinality(1..Len(s)) = Len(s)
  BY Count
<1>2. f \in Bijection(1..Len(s), T)
  BY DEF Distinct, Bijection, Injection, Surjection, IsInjective
<1>3. ExistsBijection(1..Len(s), T)
  BY <1>2 DEF ExistsBijection
<1> HIDE DEF T, f
<1>4. Cardinality(T) = Cardinality(1..Len(s))
  BY <1>1, <1>3, FS_Bijection
<1> QED BY <1>1, <1>4 DEF T

LEMMA PointersAgree ==
  ASSUME IInv PROVE ListOK
<1>1. PICK s, r : Chained(s, r)
  BY DEF IInv
<1>2. /\ Chain(list, list.first) = s /\ Chain(list, list.recycle) = r
      /\ s \in Seq(Node) /\ r \in Seq(Node) /\ Len(s) \in Nat /\ Len(r) \in Nat
  BY <1>1, Found DEF Chained
<1>3. /\ Distinct(s) /\ Distinct(r) /\ Apart(s, r) /\ list.nb = Len(s) /\ list.last = At(s, Len(s))
      /\ list.used = {m \in Node : InChain(s, m) \/ InChain(r, m)}
  BY <1>1 DEF Chained, Shaped, Chains
<1> DEFINE all == s \o r
<1>4. /\ all \in Seq(Node) /\ Len(all) = Len(s) + Len(r) /\ DOMAIN all = 1..Len(all)
      /\ \A i \in 1..Len(s) : all[i] = s[i]
      /\ \A i \in 1..Len(r) : all[Len(s) + i] = r[i]
  BY <1>2
<1>5. ASSUME NEW i \in 1..Len(all) PROVE i \in 1..Len(s) \/ (i - Len(s) \in 1..Len(r) /\ all[i] = r[i - Len(s)])
  <2>1. i \in 1..Len(s) \/ i - Len(s) \in 1..Len(r)
    BY <1>2, <1>4
  <2>2. Len(s) + (i - Len(s)) = i
    BY <1>2, <1>4
  <2> QED BY <1>4, <2>1, <2>2
<1> HIDE DEF all
<1>6. \A m : (\E i \in 1..Len(all) : all[i] = m) <=> InChain(s, m) \/ InChain(r, m)
  <2>1. \A i \in 1..Len(s) : i \in 1..Len(all)
    BY <1>2, <1>4
  <2>2. \A i \in 1..Len(r) : Len(s) + i \in 1..Len(all)
    BY <1>2, <1>4
  <2> QED BY <1>4, <1>5, <2>1, <2>2 DEF InChain
<1>7. {all[i] : i \in 1..Len(all)} = list.used
  <2>1. {all[i] : i \in 1..Len(all)} \subseteq Node
    BY <1>4
  <2> QED BY <1>3, <1>6, <2>1
<1>8. Distinct(all)
  <2> SUFFICES ASSUME NEW i \in 1..Len(all), NEW j \in 1..Len(all), all[i] = all[j] PROVE i = j
    BY DEF Distinct
  <2>1. CASE i \in 1..Len(s) /\ j \in 1..Len(s)
    BY <1>3, <1>4, <2>1 DEF Distinct
  <2>2. CASE i \in 1..Len(s) /\ j \notin 1..Len(s)
    BY <1>3, <1>4, <1>5, <2>2 DEF Apart
  <2>3. CASE i \notin 1..Len(s) /\ j \in 1..Len(s)
    BY <1>3, <1>4, <1>5, <2>3 DEF Apart
  <2>4. CASE i \notin 1..Len(s) /\ j \notin 1..Len(s)
    <3>1. i - Len(s) = j - Len(s)
      BY <1>3, <1>5, <2>4 DEF Distinct
    <3> QED BY <1>2, <1>4, <3>1
  <2> QED BY <2>1, <2>2, <2>3, <2>4
<1>9. Cardinality({all[i] : i \in 1..Len(all)}) = Len(all)
  BY <1>4, <1>8, Distinctly
<1>10. list.last = IF list.nb = 0 THEN NULL ELSE s[list.nb]
  BY <1>2, <1>3 DEF At
<1>11. /\ Len(s) = list.nb /\ DOMAIN all = 1..Len(all)
       /\ list.last = (IF list.nb = 0 THEN NULL ELSE s[list.nb])
       /\ Cardinality({all[i] : i \in DOMAIN all}) = Len(all)
       /\ {all[i] : i \in DOMAIN all} = list.used
  BY <1>3, <1>4, <1>7, <1>9, <1>10
<1>12. all = Chain(list, list.first) \o Chain(list, list.recycle)
  BY <1>2 DEF all
<1> QED BY <1>2, <1>11, <1>12, Zenon DEF ListOK

\* first_msg, last_msg and nb_messages always describe one chain, and every node that
\* was allocated is in it or in the recycle list, once: after put, get, remove,
\* flush and destroy in any order.
THEOREM PointersOK == Spec => []ListOK
<1>1. IInv => ListOK
  BY PointersAgree
<1> QED BY <1>1, InvariantHolds, PTL

\* An object always has one owner: no two messages, loops or refused calls share it, and
\* what is queued, recycled or held has not been freed.
THEOREM OneOwner == Spec => []ObjectsOwned
<1>1. IInv => ObjectsOwned
  BY DEF IInv
<1> QED BY <1>1, InvariantHolds, PTL

-----------------------------------------------------------------------------
(* The list implements the queue *)

\* The place of a set that i places of it are not beyond.
Place(K, i) == CHOOSE x \in K : Abstract!Cardinality({j \in K : j <= x}) = i

LEMMA SameCount ==
  ASSUME NEW S PROVE Abstract!Cardinality(S) = Cardinality(S)
BY DEF Cardinality, Abstract!Cardinality

\* Places gone through in order are the ones counting finds.
LEMMA Enumerates ==
  ASSUME NEW n \in Nat, NEW K \in SUBSET (1..n), NEW k, NEW f, Picks(f, k, K)
  PROVE  /\ Abstract!Cardinality(K) = k /\ Cardinality(K) = k
         /\ \A i \in 1..k : f[i] = Place(K, i)
<1>1. /\ k \in Nat /\ f \in [1..k -> K] /\ (\A x \in K : \E j \in 1..k : f[j] = x)
      /\ \A i, j \in 1..k : i < j => f[i] < f[j]
  BY DEF Picks
<1>2. \A i \in 1..k : f[i] \in K /\ f[i] \in Nat
  <2>1. \A x \in K : x \in Nat
    OBVIOUS
  <2>2. \A i \in 1..k : f[i] \in K
    BY <1>1
  <2> QED BY <2>1, <2>2
<1>3. \A i, j \in 1..k : (i <= j <=> f[i] <= f[j]) /\ (f[i] = f[j] => i = j)
  <2> SUFFICES ASSUME NEW i \in 1..k, NEW j \in 1..k
               PROVE  (i <= j <=> f[i] <= f[j]) /\ (f[i] = f[j] => i = j)
    OBVIOUS
  <2>1. i < j \/ i = j \/ j < i
    BY <1>1
  <2>2. f[i] \in Nat /\ f[j] \in Nat /\ i \in Nat /\ j \in Nat
    BY <1>1, <1>2
  <2>3. (i < j => f[i] < f[j]) /\ (j < i => f[j] < f[i])
    BY <1>1
  <2> QED BY <2>1, <2>2, <2>3
<1>4. ASSUME NEW i \in 0..k, NEW T, T = {f[a] : a \in 1..i} PROVE Cardinality(T) = i /\ Abstract!Cardinality(T) = i
  <2>1. i \in Nat /\ 1..i \subseteq 1..k
    BY <1>1
  <2>2. IsFiniteSet(1..i) /\ Cardinality(1..i) = i
    BY <2>1, Count
  <2> DEFINE g == [a \in 1..i |-> f[a]]
  <2>3. g \in Bijection(1..i, T)
    BY <1>3, <1>4, <2>1 DEF Bijection, Injection, Surjection, IsInjective
  <2>4. ExistsBijection(1..i, T)
    BY <2>3 DEF ExistsBijection
  <2>5. Cardinality(T) = i
    BY <2>2, <2>4, FS_Bijection
  <2> QED BY <2>5, SameCount
<1>5. Cardinality(K) = k /\ Abstract!Cardinality(K) = k
  <2>1. K = {f[a] : a \in 1..k}
    BY <1>1, <1>2
  <2>2. k \in 0..k
    BY <1>1
  <2> QED BY <1>4, <2>1, <2>2
<1>6. ASSUME NEW i \in 1..k PROVE Abstract!Cardinality({j \in K : j <= f[i]}) = i
  <2>1. {j \in K : j <= f[i]} = {f[a] : a \in 1..i}
    <3>1. ASSUME NEW j \in K, j <= f[i] PROVE j \in {f[a] : a \in 1..i}
      <4>1. PICK a \in 1..k : f[a] = j
        BY <1>1
      <4>2. a \in 1..i
        BY <1>1, <1>3, <3>1, <4>1
      <4> QED BY <4>1, <4>2
    <3>2. ASSUME NEW a \in 1..i PROVE f[a] \in K /\ f[a] <= f[i]
      <4>1. a \in 1..k /\ a <= i
        BY <1>1
      <4> QED BY <1>2, <1>3, <4>1
    <3> QED BY <3>1, <3>2
  <2>2. i \in 0..k
    BY <1>1
  <2> QED BY <1>4, <2>1, <2>2
<1>7. ASSUME NEW i \in 1..k
      PROVE  f[i] = Place(K, i)
  <2>1. f[i] \in K /\ Abstract!Cardinality({j \in K : j <= f[i]}) = i
    BY <1>2, <1>6
  <2>2. ASSUME NEW x \in K, Abstract!Cardinality({j \in K : j <= x}) = i PROVE x = f[i]
    <3>1. PICK a \in 1..k : f[a] = x
      BY <1>1
    <3>2. a = i
      BY <1>6, <2>2, <3>1
    <3> QED BY <3>1, <3>2
  <2> QED BY <2>1, <2>2 DEF Place
<1> QED BY <1>5, <1>7

\* The queue that Abstract sees.
View(ms, a, w, k) == [msgs |-> ms, abort |-> a, waiting |-> w, woken |-> k]
Queue == View([i \in 1..Len(Chain(list, list.first)) |->
                 LET m == list.data[Chain(list, list.first)[i]]
                 IN  [what |-> m.what, id |-> m.id]], abort, waiting, woken)

LEMMA Seen ==
  ASSUME NEW s, NEW r, Shaped(list, s, r)
  PROVE  Queue = View(Msgs(list, s), abort, waiting, woken)
<1>1. Chain(list, list.first) = s
  BY Found
<1> QED BY <1>1 DEF Queue, Msgs

LEMMA SeenNext ==
  ASSUME NEW s, NEW r, Shaped(list', s, r)
  PROVE  Queue' = View(Msgs(list', s), abort', waiting', woken')
<1>1. Chain(list', list'.first) = s
  BY Found
<1> QED BY <1>1 DEF Queue, Msgs, View, Chain, Follow, After

Views(ms, a, w, k) == [msgs : {ms}, abort : {a}, waiting : {w}, woken : {k}]

\* A record with these fields is that view: the way to what EXCEPT makes of one.
LEMMA ViewIn ==
  ASSUME NEW ms, NEW a, NEW w, NEW k
  PROVE  View(ms, a, w, k) \in Views(ms, a, w, k)
BY DEF View, Views

LEMMA ViewIs ==
  ASSUME NEW ms, NEW a, NEW w, NEW k, NEW z \in Views(ms, a, w, k)
  PROVE  /\ z = View(ms, a, w, k)
         /\ z.msgs = ms /\ z.abort = a /\ z.waiting = w /\ z.woken = k
BY DEF View, Views

\* One thread that waits is woken.
LEMMA Signalled ==
  ASSUME SignalOne, NEW ms, NEW a, NEW v, v \in Views(ms, a, waiting, woken)
  PROVE  View(ms, a, waiting', woken') \in Abstract!Signal(v)
<1>1. v = View(ms, a, waiting, woken) /\ v.waiting = waiting
  BY ViewIs
<1>2. CASE waiting = {}
  BY <1>1, <1>2 DEF SignalOne, Abstract!Signal
<1>3. CASE waiting # {}
  <2>1. PICK t \in waiting : waiting' = waiting \ {t} /\ woken' = woken \cup {t}
    BY <1>3 DEF SignalOne
  <2> DEFINE z == [v EXCEPT !.waiting = @ \ {t}, !.woken = @ \cup {t}]
  <2>2. z \in Abstract!Signal(v)
    BY <1>1, <1>3 DEF Abstract!Signal
  <2>3. z \in Views(ms, a, waiting', woken')
    BY <2>1 DEF Views
  <2> HIDE DEF z
  <2>4. z = View(ms, a, waiting', woken')
    BY <2>3, ViewIs
  <2> QED BY <2>2, <2>4
<1> QED BY <1>2, <1>3

\* A message is put, with a signal, into a queue that is not aborted.
LEMMA PutSeen ==
  ASSUME SignalOne, NEW ms, NEW a, ~a, NEW m, NEW v, v \in Views(ms, a, waiting, woken)
  PROVE  View(Append(ms, m), a, waiting', woken') \in Abstract!PutTo(v, m)
<1> DEFINE w == View(ms, a, waiting', woken')
           z == [w EXCEPT !.msgs = Append(@, m)]
<1>1. w \in Abstract!Signal(v) /\ ~v.abort
  BY Signalled, ViewIs
<1>2. w \in Views(ms, a, waiting', woken')
  BY ViewIn
<1> HIDE DEF w
<1>3. z \in Abstract!PutTo(v, m)
  BY <1>1 DEF Abstract!PutTo
<1>4. z \in Views(Append(ms, m), a, waiting', woken')
  BY <1>2 DEF Views
<1> HIDE DEF z
<1>5. z = View(Append(ms, m), a, waiting', woken')
  BY <1>4, ViewIs
<1> QED BY <1>3, <1>5

\* The messages of a kind are removed.
LEMMA PurgeSeen ==
  ASSUME NEW s, NEW r, Shaped(list, s, r), NEW a, ~a, s # <<>>, NEW what, NEW k, NEW f,
         Picks(f, k, Kept(list, s, what, Len(s))), NEW w, NEW h,
         NEW v, v \in Views(Msgs(list, s), a, w, h)
  PROVE  View([j \in 1..k |-> Msgs(list, s)[f[j]]], a, w, h) \in Abstract!RemoveFrom(v, what)
<1> DEFINE ms == Msgs(list, s)
           kept == {i \in DOMAIN ms : ms[i].what # what}
<1>1. /\ Len(s) \in Nat /\ Len(s) # 0 /\ DOMAIN ms = 1..Len(s)
      /\ \A i \in 1..Len(s) : ms[i].what = list.data[s[i]].what
  BY Found DEF Msgs
<1>2. ms # <<>> /\ Len(ms) = Len(s)
  BY <1>1 DEF Msgs
<1>3. v.msgs = ms /\ ~v.abort
  BY ViewIs
<1>4. kept = Kept(list, s, what, Len(s))
  BY <1>1 DEF Kept
<1>5. /\ k \in Nat /\ f \in [1..k -> kept] /\ (\A x \in kept : \E j \in 1..k : f[j] = x)
      /\ \A i, j \in 1..k : i < j => f[i] < f[j]
  <2> HIDE DEF kept
  <2> QED BY <1>4 DEF Picks
<1>6. /\ Abstract!Cardinality(kept) = k /\ Cardinality(kept) = k
      /\ \A i \in 1..k : f[i] = Place(kept, i)
  <2>1. kept \in SUBSET (1..Len(s))
    BY <1>1
  <2>2. Picks(f, k, kept)
    BY <1>4
  <2> HIDE DEF kept
  <2> QED BY <1>1, <2>1, <2>2, Enumerates
<1>7. f = [i \in 1..Abstract!Cardinality(kept) |-> Place(kept, i)]
  <2> HIDE DEF kept
  <2> QED BY <1>5, <1>6
<1>8. DOMAIN f = 1..k
  BY <1>5
<1>9. k \in 0..Len(ms)
  <2>1. Len(s) \in 0..Len(s) /\ kept \subseteq 1..Len(s)
    BY <1>1
  <2>2. IsFiniteSet(1..Len(s)) /\ Cardinality(1..Len(s)) = Len(s)
    BY <1>1, Count
  <2> HIDE DEF kept
  <2>3. Cardinality(kept) <= Cardinality(1..Len(s))
    BY <2>1, <2>2, FS_Subset
  <2> QED BY <1>1, <1>2, <1>5, <1>6, <2>2, <2>3
<1> DEFINE z == [v EXCEPT !.msgs = [i \in DOMAIN f |-> v.msgs[f[i]]]]
<1>10. f \in {g \in {[i \in 1..Abstract!Cardinality(kept) |-> Place(kept, i)]} :
                /\ \E n \in 0..Len(ms) : g \in [1..n -> kept]
                /\ \A i \in kept : \E j \in DOMAIN g : g[j] = i
                /\ \A i, j \in DOMAIN g : i < j => g[i] < g[j]}
  <2> HIDE DEF kept, ms
  <2> QED BY <1>5, <1>7, <1>8, <1>9
<1> DEFINE Other(m) == m.what # what
<1>11. f \in Abstract!Selections(ms, Other)
  <2> HIDE DEF ms
  <2> QED BY <1>10 DEF Abstract!Selections, Place
<1>12. z \in Abstract!RemoveFrom(v, what)
  <2> HIDE DEF ms
  <2> QED BY <1>2, <1>3, <1>11 DEF Abstract!RemoveFrom
<1>13. z \in Views([j \in 1..k |-> ms[f[j]]], a, w, h)
  <2> HIDE DEF ms
  <2> QED BY <1>3, <1>8 DEF Views
<1> HIDE DEF z
<1> QED BY <1>12, <1>13, ViewIs

LEMMA PutIs ==
  ASSUME NEW what, nextId <= MaxId, Queue' \in Abstract!PutTo(Queue, [what |-> what, id |-> nextId]),
         nextId' = nextId + 1, UNCHANGED <<last, answer>>
  PROVE  Abstract!Put(what)
BY DEF Abstract!Put, Abstract!Message, Queue, View

LEMMA StartIs ==
  ASSUME nextId <= MaxId, Queue' \in Abstract!StartOf(Queue, [what |-> FLUSH, id |-> nextId]),
         nextId' = nextId + 1, UNCHANGED <<last, answer>>
  PROVE  Abstract!Start
BY DEF Abstract!Start, Abstract!Message, Queue, View

LEMMA AbortIs ==
  ASSUME Queue' \in Abstract!AbortOf(Queue), UNCHANGED <<nextId, last, answer>>
  PROVE  Abstract!Abort
BY DEF Abstract!Abort, Queue, View

LEMMA FlushIs ==
  ASSUME Queue' \in Abstract!FlushOf(Queue), UNCHANGED <<nextId, last, answer>>
  PROVE  Abstract!Flush
BY DEF Abstract!Flush, Queue, View

LEMMA RemoveIs ==
  ASSUME NEW what, Queue' \in Abstract!RemoveFrom(Queue, what), UNCHANGED <<nextId, last, answer>>
  PROVE  Abstract!Remove(what)
BY DEF Abstract!Remove, Queue, View

LEMMA GetIs ==
  ASSUME NEW t, NEW block, t \notin Queue.waiting, t \in Queue.woken => block,
         Queue' = Abstract!GetBy(Queue, t, block),
         last' = IF Abstract!GetResult(Queue, block) = "message" THEN Head(Queue.msgs).id ELSE last,
         answer' = IF Abstract!GetResult(Queue, block) = "waits" THEN answer
                   ELSE [answer EXCEPT ![t] = Abstract!GetResult(Queue, block)],
         UNCHANGED nextId
  PROVE  Abstract!Get(t, block)
BY DEF Abstract!Get, Queue, View

LEMMA WakeupIs ==
  ASSUME NEW t, t \in Queue.waiting,
         Queue' = [Queue EXCEPT !.waiting = @ \ {t}, !.woken = @ \cup {t}],
         UNCHANGED <<nextId, last, answer>>
  PROVE  Abstract!SpuriousWakeup(t)
BY DEF Abstract!SpuriousWakeup, Queue, View

LEMMA StutterIs ==
  ASSUME Queue' = Queue, UNCHANGED <<nextId, last, answer>>
  PROVE  UNCHANGED Abstract!vars
BY DEF Abstract!vars, Queue, View

LEMMA Unmoved ==
  ASSUME NEW s, NEW r, Shaped(list, s, r), list' = list
  PROVE  Queue' = View(Msgs(list, s), abort', waiting', woken')
<1>1. Shaped(list', s, r)
  OBVIOUS
<1> QED BY <1>1, SeenNext

\* One turn of msg_queue_get by thread t that finds the queue like this.
Turns(res, q, v, t, block) ==
  /\ Abstract!GetResult(v, block) = res
  /\ Abstract!GetBy(v, t, block) = q

GotBy(ms, a, w, h, t, block, v) ==
  /\ v.abort => Turns("aborted", View(ms, a, w, h \ {t}), v, t, block)
  /\ ~v.abort /\ ms # <<>> => Turns("message", View(Tail(ms), a, w, h \ {t}), v, t, block)
  /\ ~v.abort /\ ms = <<>> /\ block => Turns("waits", View(ms, a, w \cup {t}, h \ {t}), v, t, block)
  /\ ~v.abort /\ ms = <<>> /\ ~block => Turns("none", View(ms, a, w, h \ {t}), v, t, block)

LEMMA GetSeen ==
  ASSUME NEW ms, NEW a, NEW w, NEW h, NEW v, v \in Views(ms, a, w, h), NEW t, NEW block
  PROVE  GotBy(ms, a, w, h, t, block, v)
<1> DEFINE awake == [v EXCEPT !.woken = @ \ {t}]
           taken == [awake EXCEPT !.msgs = Tail(@)]
           put   == [awake EXCEPT !.waiting = @ \cup {t}]
           res   == Abstract!GetResult(v, block)
<1>1. v = View(ms, a, w, h) /\ v.msgs = ms /\ v.abort = a
  BY ViewIs
<1>2. awake \in Views(ms, a, w, h \ {t})
  BY DEF Views
<1>3. Abstract!GetBy(v, t, block) = CASE res = "message" -> taken
                                      [] res = "waits" -> put
                                      [] OTHER -> awake
  BY DEF Abstract!GetBy
<1>4. res = IF v.abort THEN "aborted"
            ELSE IF ms # <<>> THEN "message"
            ELSE IF block THEN "waits" ELSE "none"
  BY <1>1 DEF Abstract!GetResult
<1> HIDE DEF awake
<1>5. taken \in Views(Tail(ms), a, w, h \ {t}) /\ put \in Views(ms, a, w \cup {t}, h \ {t})
  BY <1>2 DEF Views
<1> HIDE DEF taken, put
<1>6. /\ awake = View(ms, a, w, h \ {t})
      /\ taken = View(Tail(ms), a, w, h \ {t})
      /\ put = View(ms, a, w \cup {t}, h \ {t})
  BY <1>2, <1>5, ViewIs
<1>7. /\ res = "message" => Abstract!GetBy(v, t, block) = taken
      /\ res = "waits" => Abstract!GetBy(v, t, block) = put
      /\ res \in {"aborted", "none"} => Abstract!GetBy(v, t, block) = awake
  <2> HIDE DEF res
  <2> QED BY <1>3
<1>8. /\ v.abort => res = "aborted" /\ Abstract!GetBy(v, t, block) = View(ms, a, w, h \ {t})
      /\ ~v.abort /\ ms # <<>> =>
           res = "message" /\ Abstract!GetBy(v, t, block) = View(Tail(ms), a, w, h \ {t})
      /\ ~v.abort /\ ms = <<>> /\ block =>
           res = "waits" /\ Abstract!GetBy(v, t, block) = View(ms, a, w \cup {t}, h \ {t})
      /\ ~v.abort /\ ms = <<>> /\ ~block =>
           res = "none" /\ Abstract!GetBy(v, t, block) = View(ms, a, w, h \ {t})
  BY <1>4, <1>6, <1>7
<1> QED BY <1>8 DEF GotBy, Turns

LEMMA InitRefined ==
  ASSUME Init PROVE Abstract!Init
<1>1. PICK s, r : Chained(s, r)
  BY Established DEF IInv
<1>2. Shaped(list, s, r) /\ s = <<>>
  <2>1. list.first = NULL
    BY DEF Init
  <2> QED BY <1>1, <2>1, Found DEF Chained
<1>3. Msgs(list, s) = <<>>
  BY <1>2 DEF Msgs
<1>4. Queue = View(<<>>, TRUE, {}, {})
  BY <1>2, <1>3, Seen DEF Init
<1>5. Queue = Abstract!NewQueue
  BY <1>4 DEF View, Abstract!NewQueue
<1> QED BY <1>5 DEF Init, Abstract!Init, Queue, View

LEMMA PutRefined ==
  ASSUME IInv, NEW what \in Whats, NEW withObj \in BOOLEAN, Put(what, withObj)
  PROVE  Abstract!Put(what)
<1>1. PICK s, r : Chained(s, r)
  BY DEF IInv
<1>2. Shaped(list, s, r) /\ Queue \in Views(Msgs(list, s), abort, waiting, woken)
  BY <1>1, Seen, ViewIn DEF Chained
<1>3. nextId <= MaxId /\ nextId' = nextId + 1 /\ UNCHANGED <<abort, last, answer>>
  BY DEF Put
<1>4. CASE abort
  <2>1. UNCHANGED <<list, waiting, woken>>
    BY <1>4 DEF Put
  <2>2. Queue' = View(Msgs(list, s), abort', waiting', woken')
    BY <1>2, <2>1, Unmoved
  <2>3. Queue' = Queue
    BY <1>2, <1>3, <2>1, <2>2, Seen
  <2>4. Queue.abort = abort
    BY <1>2, ViewIs
  <2>5. Queue' \in Abstract!PutTo(Queue, [what |-> what, id |-> nextId])
    BY <1>4, <2>3, <2>4 DEF Abstract!PutTo
  <2> QED BY <1>3, <2>5, PutIs
<1>5. CASE ~abort
  <2> DEFINE obj == IF withObj THEN nextId ELSE NULL
  <2>1. /\ phase = "open" /\ HasNode(list) /\ SignalOne
        /\ list' = AppendNode(list, [what |-> what, id |-> nextId, obj |-> obj])
        /\ live' = live \cup ({obj} \ {NULL})
        /\ UNCHANGED <<held, rejected, phase>>
    BY <1>5 DEF Put
  <2>2. obj \in {NULL, nextId} /\ what \in Whats \cup {FLUSH}
    OBVIOUS
  <2> HIDE DEF obj
  <2>3. PICK c, t : /\ Chained(c, t)'
                    /\ Msgs(list', c) = Append(Msgs(list, s), [what |-> what, id |-> nextId])
    BY <1>1, <1>3, <2>1, <2>2, AcceptStep
  <2>4. Shaped(list', c, t)
    BY <2>3 DEF Chained
  <2>5. Queue' = View(Append(Msgs(list, s), [what |-> what, id |-> nextId]), abort, waiting', woken')
    BY <1>3, <2>3, <2>4, SeenNext
  <2>6. Queue' \in Abstract!PutTo(Queue, [what |-> what, id |-> nextId])
    BY <1>2, <1>5, <2>1, <2>5, PutSeen
  <2> QED BY <1>3, <2>6, PutIs
<1> QED BY <1>4, <1>5

LEMMA StartRefined ==
  ASSUME IInv, Start PROVE Abstract!Start
<1> DEFINE m == [what |-> FLUSH, id |-> nextId]
           v == [Queue EXCEPT !.abort = FALSE]
           obj == NULL
<1>1. PICK s, r : Chained(s, r)
  BY DEF IInv
<1>2. Shaped(list, s, r) /\ Queue \in Views(Msgs(list, s), abort, waiting, woken)
  BY <1>1, Seen, ViewIn DEF Chained
<1>3. /\ phase = "open" /\ HasNode(list) /\ SignalOne
      /\ nextId <= MaxId /\ nextId' = nextId + 1 /\ abort' = FALSE /\ UNCHANGED <<last, answer>>
      /\ list' = AppendNode(list, [what |-> FLUSH, id |-> nextId, obj |-> obj])
      /\ live' = live \cup ({obj} \ {NULL})
      /\ UNCHANGED <<held, rejected, phase>>
  BY DEF Start
<1>4. obj \in {NULL, nextId} /\ FLUSH \in Whats \cup {FLUSH}
  OBVIOUS
<1> HIDE DEF obj
<1>5. PICK c, t : /\ Chained(c, t)'
                  /\ Msgs(list', c) = Append(Msgs(list, s), [what |-> FLUSH, id |-> nextId])
  BY <1>1, <1>3, <1>4, AcceptStep
<1>6. Shaped(list', c, t)
  BY <1>5 DEF Chained
<1>7. Queue' = View(Append(Msgs(list, s), m), FALSE, waiting', woken')
  BY <1>3, <1>5, <1>6, SeenNext
<1>8. v \in Views(Msgs(list, s), FALSE, waiting, woken)
  BY <1>2 DEF Views
<1>9. Abstract!StartOf(Queue, m) = Abstract!PutTo(v, m)
  BY DEF Abstract!StartOf
<1> HIDE DEF m, v
<1>10. Queue' \in Abstract!PutTo(v, m)
  BY <1>3, <1>7, <1>8, PutSeen
<1>11. Queue' \in Abstract!StartOf(Queue, m)
  BY <1>9, <1>10
<1> QED BY <1>3, <1>11, StartIs DEF m

LEMMA AbortRefined ==
  ASSUME IInv, Abort PROVE Abstract!Abort
<1> DEFINE v == [Queue EXCEPT !.abort = TRUE]
<1>1. PICK s, r : Chained(s, r)
  BY DEF IInv
<1>2. Shaped(list, s, r) /\ Queue \in Views(Msgs(list, s), abort, waiting, woken)
  BY <1>1, Seen, ViewIn DEF Chained
<1>3. SignalOne /\ list' = list /\ abort' = TRUE /\ UNCHANGED <<nextId, last, answer>>
  BY DEF Abort
<1>4. Queue' = View(Msgs(list, s), TRUE, waiting', woken')
  BY <1>2, <1>3, Unmoved
<1>5. v \in Views(Msgs(list, s), TRUE, waiting, woken)
  BY <1>2 DEF Views
<1>6. Abstract!AbortOf(Queue) = Abstract!Signal(v)
  BY DEF Abstract!AbortOf
<1> HIDE DEF v
<1>7. Queue' \in Abstract!AbortOf(Queue)
  BY <1>3, <1>4, <1>5, <1>6, Signalled
<1> QED BY <1>3, <1>7, AbortIs

LEMMA RemoveRefined ==
  ASSUME IInv, NEW what \in Whats, Remove(what) PROVE Abstract!Remove(what)
<1>1. PICK s, r : Chained(s, r)
  BY DEF IInv
<1>2. /\ Shaped(list, s, r) /\ Queue \in Views(Msgs(list, s), abort, waiting, woken)
      /\ (list.first = NULL <=> s = <<>>)
  BY <1>1, Seen, ViewIn, Found DEF Chained
<1>3. /\ phase = "open"
      /\ UNCHANGED <<abort, waiting, woken, nextId, last, answer, held, rejected, phase>>
  BY DEF Remove
<1>4. Queue.abort = abort /\ Queue.msgs = Msgs(list, s)
  BY <1>2, ViewIs
<1>5. CASE ~abort /\ list.first # NULL
  <2>1. /\ list' = RemoveNodes(list, what)
        /\ live' = live \ {n \in 1..MaxId : \E i \in DOMAIN Chain(list, list.first) :
                             LET m == list.data[Chain(list, list.first)[i]]
                             IN  m.what = what /\ m.obj = n}
    BY <1>5 DEF Remove
  <2>2. PICK c, t, k, f : /\ Chained(c, t)'
                          /\ Picks(f, k, Kept(list, s, what, Len(s)))
                          /\ Msgs(list', c) = [j \in 1..k |-> Msgs(list, s)[f[j]]]
    BY <1>1, <1>3, <2>1, PurgeStep
  <2>3. Shaped(list', c, t)
    BY <2>2 DEF Chained
  <2>4. Queue' = View([j \in 1..k |-> Msgs(list, s)[f[j]]], abort, waiting, woken)
    BY <1>3, <2>2, <2>3, SeenNext
  <2>5. Queue' \in Abstract!RemoveFrom(Queue, what)
    BY <1>2, <1>5, <2>2, <2>4, PurgeSeen
  <2> QED BY <1>3, <2>5, RemoveIs
<1>6. CASE ~(~abort /\ list.first # NULL)
  <2>1. list' = list
    BY <1>6 DEF Remove
  <2>2. Queue' = View(Msgs(list, s), abort', waiting', woken')
    BY <1>2, <2>1, Unmoved
  <2>3. Queue' = Queue
    BY <1>2, <1>3, <2>2, Seen
  <2>4. s = <<>> => Msgs(list, s) = <<>>
    BY DEF Msgs
  <2>5. Queue.abort \/ Queue.msgs = <<>>
    BY <1>2, <1>4, <1>6, <2>4
  <2>6. Queue' \in Abstract!RemoveFrom(Queue, what)
    BY <2>3, <2>5 DEF Abstract!RemoveFrom
  <2> QED BY <1>3, <2>6, RemoveIs
<1> QED BY <1>5, <1>6

LEMMA GetRefined ==
  ASSUME IInv, NEW t \in Getters, NEW block \in BOOLEAN, Get(t, block)
  PROVE  Abstract!Get(t, block)
<1> DEFINE res == Abstract!GetResult(Queue, block)
           turn == Abstract!GetBy(Queue, t, block)
<1>1. PICK s, r : Chained(s, r)
  BY DEF IInv
<1>2. /\ Shaped(list, s, r) /\ Queue \in Views(Msgs(list, s), abort, waiting, woken)
      /\ (list.first = NULL <=> s = <<>>)
  BY <1>1, Seen, ViewIn, Found DEF Chained
<1>3. /\ phase = "open" /\ t \notin waiting /\ (t \in woken => block) /\ held[t] = NULL
      /\ woken' = woken \ {t}
      /\ UNCHANGED <<abort, nextId, live, rejected, phase>>
  BY DEF Get
<1>4. /\ Queue.waiting = waiting /\ Queue.woken = woken /\ Queue.msgs = Msgs(list, s)
      /\ Queue.abort = abort
  BY <1>2, ViewIs
<1>5. s = <<>> => Msgs(list, s) = <<>>
  BY DEF Msgs
<1> SUFFICES /\ Queue' = turn
             /\ last' = IF res = "message" THEN Head(Queue.msgs).id ELSE last
             /\ answer' = IF res = "waits" THEN answer ELSE [answer EXCEPT ![t] = res]
  BY <1>3, <1>4, GetIs
<1>6. /\ Queue.abort => res = "aborted" /\ turn = View(Msgs(list, s), abort, waiting, woken \ {t})
      /\ ~Queue.abort /\ Msgs(list, s) # <<>> =>
           res = "message" /\ turn = View(Tail(Msgs(list, s)), abort, waiting, woken \ {t})
      /\ ~Queue.abort /\ Msgs(list, s) = <<>> /\ block =>
           res = "waits" /\ turn = View(Msgs(list, s), abort, waiting \cup {t}, woken \ {t})
      /\ ~Queue.abort /\ Msgs(list, s) = <<>> /\ ~block =>
           res = "none" /\ turn = View(Msgs(list, s), abort, waiting, woken \ {t})
  <2>1. GotBy(Msgs(list, s), abort, waiting, woken, t, block, Queue)
    BY <1>2, GetSeen
  <2> QED BY <2>1 DEF GotBy, Turns
<1>7. CASE abort
  <2>1. UNCHANGED <<list, last, waiting>> /\ answer' = [answer EXCEPT ![t] = "aborted"]
    BY <1>7 DEF Get
  <2>2. res = "aborted" /\ turn = View(Msgs(list, s), abort, waiting, woken \ {t})
    BY <1>4, <1>7, <1>6
  <2>3. Queue' = View(Msgs(list, s), abort', waiting', woken')
    BY <1>2, <2>1, Unmoved
  <2> HIDE DEF res, turn
  <2> QED BY <1>3, <2>1, <2>2, <2>3
<1>8. CASE ~abort /\ list.first # NULL
  <2>1. /\ list' = PopNode(list) /\ held' = [held EXCEPT ![t] = list.data[list.first].obj]
        /\ last' = list.data[list.first].id /\ waiting' = waiting
        /\ answer' = [answer EXCEPT ![t] = "message"]
    BY <1>8 DEF Get
  <2>2. PICK c, u : /\ Chained(c, u)'
                    /\ Msgs(list, s) # <<>> /\ Msgs(list', c) = Tail(Msgs(list, s))
                    /\ Head(Msgs(list, s)).id = list.data[list.first].id
    BY <1>1, <1>3, <1>8, <2>1, DeliverStep
  <2>3. Shaped(list', c, u)
    BY <2>2 DEF Chained
  <2>4. res = "message" /\ turn = View(Tail(Msgs(list, s)), abort, waiting, woken \ {t})
    BY <1>4, <1>8, <1>6, <2>2
  <2>5. Queue' = View(Msgs(list', c), abort', waiting', woken')
    BY <2>3, SeenNext
  <2> HIDE DEF res, turn
  <2> QED BY <1>3, <1>4, <2>1, <2>2, <2>4, <2>5
<1>9. CASE ~abort /\ list.first = NULL
  <2>1. /\ UNCHANGED <<list, last>>
        /\ block => waiting' = waiting \cup {t} /\ answer' = answer
        /\ ~block => answer' = [answer EXCEPT ![t] = "none"] /\ waiting' = waiting
    BY <1>9 DEF Get
  <2>2. Queue' = View(Msgs(list, s), abort', waiting', woken')
    BY <1>2, <2>1, Unmoved
  <2>3. /\ block => res = "waits" /\ turn = View(Msgs(list, s), abort, waiting \cup {t}, woken \ {t})
        /\ ~block => res = "none" /\ turn = View(Msgs(list, s), abort, waiting, woken \ {t})
    BY <1>2, <1>4, <1>5, <1>9, <1>6
  <2> HIDE DEF res, turn
  <2> QED BY <1>3, <2>1, <2>2, <2>3
<1> QED BY <1>7, <1>8, <1>9

LEMMA WakeupRefined ==
  ASSUME IInv, NEW t \in Getters, SpuriousWakeup(t) PROVE Abstract!SpuriousWakeup(t)
<1> DEFINE z == [Queue EXCEPT !.waiting = @ \ {t}, !.woken = @ \cup {t}]
<1>1. PICK s, r : Chained(s, r)
  BY DEF IInv
<1>2. Shaped(list, s, r) /\ Queue \in Views(Msgs(list, s), abort, waiting, woken)
  BY <1>1, Seen, ViewIn DEF Chained
<1>3. /\ t \in waiting /\ waiting' = waiting \ {t} /\ woken' = woken \cup {t}
      /\ UNCHANGED <<list, abort, nextId, last, answer>>
  BY DEF SpuriousWakeup
<1>4. Queue' = View(Msgs(list, s), abort', waiting', woken')
  BY <1>2, <1>3, Unmoved
<1>5. z \in Views(Msgs(list, s), abort, waiting \ {t}, woken \cup {t})
  BY <1>2 DEF Views
<1> HIDE DEF z
<1>6. Queue' = z /\ Queue.waiting = waiting
  BY <1>2, <1>3, <1>4, <1>5, ViewIs
<1> QED BY <1>3, <1>6, WakeupIs DEF z

LEMMA FlushRefined ==
  ASSUME IInv, Flush PROVE Abstract!Flush
<1> DEFINE z == [Queue EXCEPT !.msgs = <<>>]
<1>1. PICK s, r : Chained(s, r)
  BY DEF IInv
<1>2. Shaped(list, s, r) /\ Queue \in Views(Msgs(list, s), abort, waiting, woken)
  BY <1>1, Seen, ViewIn DEF Chained
<1>3. phase = "open" /\ UNCHANGED <<abort, waiting, woken, nextId, last, answer>>
  BY DEF Flush
<1>4. PICK t : Chained(<<>>, t)'
  BY <1>1, <1>3, FlushStep
<1>5. Shaped(list', <<>>, t) /\ Msgs(list', <<>>) = <<>>
  BY <1>4 DEF Chained, Msgs
<1>6. Queue' = View(<<>>, abort, waiting, woken)
  BY <1>3, <1>5, SeenNext
<1>7. z \in Views(<<>>, abort, waiting, woken)
  BY <1>2 DEF Views
<1>8. Abstract!FlushOf(Queue) = {z}
  BY DEF Abstract!FlushOf
<1> HIDE DEF z
<1>9. Queue' \in Abstract!FlushOf(Queue)
  BY <1>6, <1>7, <1>8, ViewIs
<1> QED BY <1>3, <1>9, FlushIs

\* What is freed when the queue is destroyed was not queued.
LEMMA DestroyRefined ==
  ASSUME IInv, Destroy PROVE UNCHANGED Abstract!vars
<1>1. PICK s, r : Chained(s, r)
  BY DEF IInv
<1>2. Shaped(list, s, r) /\ s = <<>>
  BY <1>1 DEF Chained, Destroy
<1>3. UNCHANGED <<abort, waiting, woken, nextId, last, answer>>
  BY DEF Destroy
<1>4. Chained(<<>>, <<>>)'
  BY <1>1, DestroyStep
<1>5. Shaped(list', <<>>, <<>>) /\ Msgs(list', <<>>) = <<>> /\ Msgs(list, s) = <<>>
  BY <1>2, <1>4 DEF Chained, Msgs
<1>6. Queue' = View(<<>>, abort, waiting, woken)
  BY <1>3, <1>5, SeenNext
<1>7. Queue' = Queue
  BY <1>2, <1>5, <1>6, Seen
<1> QED BY <1>3, <1>7, StutterIs

LEMMA StutterRefined ==
  ASSUME IInv, UNCHANGED <<list, abort, waiting, woken, nextId, last, answer>>
  PROVE  UNCHANGED Abstract!vars
<1>1. PICK s, r : Chained(s, r)
  BY DEF IInv
<1>2. Shaped(list, s, r)
  BY <1>1 DEF Chained
<1>3. Queue' = Queue
  BY <1>2, Unmoved, Seen
<1> QED BY <1>3, StutterIs

\* A step of the list is a step of the queue, of the same name, or changes nothing there.
LEMMA StepRefined ==
  ASSUME IInv, [Next]_vars PROVE [Abstract!Next]_(Abstract!vars)
<1>1. ASSUME NEW what \in Whats, NEW withObj \in BOOLEAN, Put(what, withObj) PROVE Abstract!Next
  BY <1>1, PutRefined DEF Abstract!Next
<1>2. ASSUME NEW what \in Whats, Remove(what) PROVE Abstract!Next
  BY <1>2, RemoveRefined DEF Abstract!Next
<1>3. CASE Start
  BY <1>3, StartRefined DEF Abstract!Next
<1>4. CASE Abort
  BY <1>4, AbortRefined DEF Abstract!Next
<1>5. CASE Flush
  BY <1>5, FlushRefined DEF Abstract!Next
<1>6. CASE Destroy
  BY <1>6, DestroyRefined
<1>7. ASSUME NEW t \in Getters, NEW block \in BOOLEAN, Get(t, block) PROVE Abstract!Next
  BY <1>7, GetRefined DEF Abstract!Next
<1>8. ASSUME NEW t \in Getters, FreeRes(t) PROVE UNCHANGED Abstract!vars
  <2>1. UNCHANGED <<list, abort, waiting, woken, nextId, last, answer>>
    BY <1>8 DEF FreeRes
  <2> QED BY <2>1, StutterRefined
<1>9. ASSUME NEW t \in Getters, SpuriousWakeup(t) PROVE Abstract!Next
  BY <1>9, WakeupRefined DEF Abstract!Next
<1>10. CASE UNCHANGED vars
  <2>1. UNCHANGED <<list, abort, waiting, woken, nextId, last, answer>>
    BY <1>10 DEF vars
  <2> QED BY <2>1, StutterRefined
<1> QED BY <1>1, <1>2, <1>3, <1>4, <1>5, <1>6, <1>7, <1>8, <1>9, <1>10 DEF Next

\* The chain of nodes does what MsgQueue promises: each operation is the operation of
\* the same name on the sequence of queued messages, and recycling nodes, freeing
\* objects and destroying the queue are invisible to its users.
THEOREM Refinement == Spec => ImplementsMsgQueue
<1>1. Init => Abstract!Init
  BY InitRefined
<1>2. IInv /\ [Next]_vars => [Abstract!Next]_(Abstract!vars)
  BY StepRefined
<1> QED BY <1>1, <1>2, InvariantHolds, PTL DEF Spec, ImplementsMsgQueue, Abstract!Spec
=============================================================================
