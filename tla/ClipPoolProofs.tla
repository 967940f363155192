--------------------------- MODULE ClipPoolProofs ---------------------------
(***************************************************************************)
(* Proofs about ClipPool: the pool stays in step with the list             *)
(* (PoolInStep), the clip the refresh thread is inside stays open          *)
(* (MarkProtects), and the clip after the one that ended is the one played *)
(* next (SwitchesToNext), for lists of any length and any number of calls. *)
(*                                                                         *)
(* The invariant (Inv) says who has the lock, what an entry emptied for a  *)
(* clip is emptied for, and which entries may be out of step: only those   *)
(* that a copy or an exchange under way has still to see.                  *)
(***************************************************************************)
EXTENDS ClipPool, TLAPS

(* What the state is made of, beside TypeOK.                               *)

Stages == {"none", "scan", "wait", "open", "opennext", "seek"}
Job == [op : {"none", "prepare", "copy", "seek", "update", "exchange", "switch"},
        stage : Stages, entry : 0 .. 2, back : {"none", "scan", "open", "opennext"},
        cur : Ids \cup {None}, next : Ids \cup {None}, qi : Nat \cup {None}]
Message == [what : {"seek", "update", "exchange"}, i : Nat, j : Nat]

Entry == [id : Ids \cup {None}, qi : Nat \cup {None}, used : BOOLEAN, open : BOOLEAN, abort : BOOLEAN,
          paused : BOOLEAN, mark : BOOLEAN, speed : 1 .. 2]

ListTyped ==
    /\ list \in Seq(Ids) /\ Len(list) <= MaxClips /\ IsInjective(list)
    /\ \A i \in 1 .. Len(list) : list[i] < idGen
    /\ idGen \in 0 .. MaxIds /\ speed \in [Ids -> 1 .. 2]
    /\ lock \in Threads \cup {"free"}

PoolTyped ==
    /\ pool \in [Entries -> Entry]
    /\ ~(pool[1].used /\ pool[2].used)
    /\ \A p \in Entries : pool[p].id < idGen

\* Which op each thread may be at, and the clips a job is about.
JobOk(t, j, ids) ==
    /\ t = "app" => j.op \in {"none", "prepare", "copy"}
    /\ t = "loop" => j.op \in {"none", "seek", "update", "exchange"}
    /\ t = "refresh" => j.op \in {"none", "switch"}
    /\ j.cur < ids /\ j.next < ids
    /\ j.stage \in {"scan", "wait", "open", "opennext"} => j.cur # None
    /\ j.stage = "wait" => j.entry \in Entries /\ j.back # "none"
    /\ j.stage = "wait" /\ j.back = "opennext" => j.next # None
    /\ j.op = "none" => j.stage = "none"
JobsTyped == job \in [Threads -> Job] /\ \A t \in Threads : JobOk(t, job[t], idGen)

\* The refresh thread is inside an entry unless it looks for one, and remembers
\* the entry it switches from.
RefreshTyped ==
    /\ DOMAIN refresh = {"at", "player", "clip", "from", "gaveUp"}
    /\ refresh.at \in {"off", "look", "show", "delay", "switch", "open", "post", "end", "leave"}
    /\ refresh.player \in Entries \cup {None}
    /\ refresh.at \in {"off", "look"} <=> refresh.player = None
    /\ refresh.from \in Entries \cup {None}
    /\ refresh.at \in {"open", "post"} => refresh.from \in Entries
    /\ refresh.clip \in Ids \cup {None} /\ refresh.gaveUp \in BOOLEAN

EnvTyped ==
    /\ msgs \in Seq(Message)
    /\ DOMAIN env = {"calls", "wiped", "evicted", "gone"}
    /\ env.wiped \in BOOLEAN /\ env.evicted \in BOOLEAN

Typed == ListTyped /\ PoolTyped /\ JobsTyped /\ RefreshTyped /\ EnvTyped

\* Whoever scans or opens has the lock.
LockHeld == \A t \in Threads : job[t].stage \in {"scan", "open", "opennext"} => lock = t

\* An entry is open when it has an id; entry 0, once emptied for a clip, stays empty
\* until the clip is opened in it.
OpenHasId == \A p \in Entries : pool[p].open <=> pool[p].id # None
Emptied == \A t \in Threads : job[t].stage \in {"open", "opennext"} /\ job[t].entry = 1 => pool[1].id = None

\* Unless the refresh thread was inside it, entry 0 is emptied and the clip opened
\* under one lock: the index is the clip's, and no one opens the clip elsewhere.
MakesRoom(t, s) == job[t].entry = 1 /\ (job[t].stage = s \/ (job[t].stage = "wait" /\ job[t].back = s))
RoomFor(t, x) == lock = t /\ job[t].qi = IndexOf(list, x) /\ pool[2].id # x /\ x # None
Room ==
    \A t \in Threads :
        /\ MakesRoom(t, "open") => RoomFor(t, job[t].cur)
        /\ MakesRoom(t, "opennext") => RoomFor(t, job[t].next)

Distinct == pool[1].open => pool[1].id # pool[2].id

\* An entry is out of step only while a copy or an exchange has still to see it.
Stale(p) == pool[p].open /\ IndexOf(list, pool[p].id) # None /\ pool[p].qi # IndexOf(list, pool[p].id)
Unseen(t, p) ==
    LET at == IF job[t].stage = "wait" THEN job[t].back ELSE job[t].stage IN
    \/ at = "scan" /\ \/ p > job[t].entry
                      \/ p = job[t].entry /\ job[t].stage = "wait"
                      \/ pool[p].id \in {job[t].cur, job[t].next}
    \/ at = "open" /\ pool[p].id \in {job[t].cur, job[t].next}
    \/ at = "opennext" /\ pool[p].id = job[t].next
Seen ==
    \A p \in Entries : Stale(p) => \E t \in {"app", "loop"} : job[t].op \in {"copy", "exchange"} /\ Unseen(t, p)

\* The clip in play has its clip's speed.
SpeedKept ==
    \A p \in Entries :
        pool[p].used /\ pool[p].open /\ IndexOf(list, pool[p].id) # None => pool[p].speed = speed[pool[p].id]

InStep ==
    ~env.evicted => /\ Room /\ Distinct
                    /\ ~env.wiped => Seen /\ SpeedKept

\* The refresh thread starts when the first prepare is done.
Starting == \A t \in Threads : job[t].op = "prepare" => refresh.at = "off"

Inv == Typed /\ Starting /\ LockHeld /\ OpenHasId /\ Emptied /\ MarkProtects /\ InStep

-----------------------------------------------------------------------------
(* Lists.                                                                  *)

\* A clip's index is the place where it is ...
LEMMA IndexIn ==
    ASSUME NEW l \in Seq(Ids), IsInjective(l), NEW i \in 1 .. Len(l)
    PROVE  IndexOf(l, l[i]) = i - 1
<1> DEFINE j == CHOOSE n \in 1 .. Len(l) : l[n] = l[i]
<1>1. j \in 1 .. Len(l) /\ l[j] = l[i]
  OBVIOUS
<1>2. j = i
  BY <1>1 DEF IsInjective
<1>3. IndexOf(l, l[i]) = j - 1
  BY DEF IndexOf
<1> QED BY <1>2, <1>3

\* ... and there is none for a clip that is not in the list.
LEMMA IndexOut ==
    ASSUME NEW l \in Seq(Ids), NEW x, \A i \in 1 .. Len(l) : l[i] # x
    PROVE  IndexOf(l, x) = None
BY DEF IndexOf, None

LEMMA IndexRange ==
    ASSUME NEW l \in Seq(Ids), NEW x
    PROVE  /\ IndexOf(l, x) \in Nat \cup {None}
           /\ IndexOf(l, x) # None => /\ IndexOf(l, x) + 1 \in 1 .. Len(l)
                                      /\ l[IndexOf(l, x) + 1] = x
           /\ IndexOf(l, x) = None => \A i \in 1 .. Len(l) : l[i] # x
<1> DEFINE j == CHOOSE n \in 1 .. Len(l) : l[n] = x
<1>1. CASE \E i \in 1 .. Len(l) : l[i] = x
  <2>1. j \in 1 .. Len(l) /\ l[j] = x
    BY <1>1
  <2>2. IndexOf(l, x) = j - 1
    BY <1>1 DEF IndexOf
  <2> QED BY <2>1, <2>2 DEF None
<1>2. CASE ~\E i \in 1 .. Len(l) : l[i] = x
  BY <1>2 DEF IndexOf, None
<1> QED BY <1>1, <1>2

LEMMA Joined ==
    ASSUME NEW a \in Seq(Ids), NEW b \in Seq(Ids)
    PROVE  /\ a \o b \in Seq(Ids) /\ Len(a \o b) = Len(a) + Len(b)
           /\ \A i \in 1 .. Len(a) + Len(b) : (a \o b)[i] = IF i <= Len(a) THEN a[i] ELSE b[i - Len(a)]
OBVIOUS

\* What InsertAt and RemoveAt make of a list.
LEMMA Inserted ==
    ASSUME NEW l \in Seq(Ids), NEW k \in 0 .. Len(l), NEW e \in Ids
    PROVE  /\ InsertAt(l, k + 1, e) \in Seq(Ids)
           /\ Len(InsertAt(l, k + 1, e)) = Len(l) + 1
           /\ \A i \in 1 .. Len(l) + 1 :
                InsertAt(l, k + 1, e)[i] = IF i <= k THEN l[i] ELSE IF i = k + 1 THEN e ELSE l[i - 1]
<1> DEFINE a == SubSeq(l, 1, k)
           b == SubSeq(l, k + 1, Len(l))
<1>1. a \in Seq(Ids) /\ Len(a) = k /\ \A i \in 1 .. k : a[i] = l[i]
  OBVIOUS
<1>2. b \in Seq(Ids) /\ Len(b) = Len(l) - k /\ \A i \in 1 .. Len(b) : b[i] = l[k + i]
  OBVIOUS
<1>3. InsertAt(l, k + 1, e) = a \o <<e>> \o b
  <2>1. (k + 1) - 1 = k
    OBVIOUS
  <2> QED BY <2>1, Zenon DEF InsertAt
<1> HIDE DEF a, b
<1> DEFINE c == a \o <<e>>
<1>4. c \in Seq(Ids) /\ Len(c) = k + 1 /\ \A i \in 1 .. k + 1 : c[i] = IF i <= k THEN l[i] ELSE e
  BY <1>1
<1> HIDE DEF c
<1>5. InsertAt(l, k + 1, e) = c \o b
  BY <1>3 DEF c
<1>6. /\ c \o b \in Seq(Ids) /\ Len(c \o b) = Len(l) + 1
      /\ \A i \in 1 .. Len(l) + 1 : (c \o b)[i] = IF i <= k + 1 THEN c[i] ELSE b[i - (k + 1)]
  BY <1>2, <1>4
<1>7. ASSUME NEW i \in 1 .. Len(l) + 1
      PROVE  (c \o b)[i] = IF i <= k THEN l[i] ELSE IF i = k + 1 THEN e ELSE l[i - 1]
  <2>1. CASE i <= k + 1
    BY <1>4, <1>6, <2>1
  <2>2. CASE ~(i <= k + 1)
    <3>1. i - (k + 1) \in 1 .. Len(b)
      BY <1>2, <2>2
    <3>2. k + (i - (k + 1)) = i - 1
      OBVIOUS
    <3>3. b[i - (k + 1)] = l[k + (i - (k + 1))]
      BY <1>2, <3>1, Zenon
    <3> QED BY <1>6, <2>2, <3>2, <3>3
  <2> QED BY <2>1, <2>2
<1> DEFINE w == c \o b
<1>8. w \in Seq(Ids) /\ Len(w) = Len(l) + 1 /\ InsertAt(l, k + 1, e) = w
  BY <1>5, <1>6
<1>9. \A i \in 1 .. Len(l) + 1 : w[i] = IF i <= k THEN l[i] ELSE IF i = k + 1 THEN e ELSE l[i - 1]
  BY <1>7
<1> HIDE DEF w
<1> QED BY <1>8, <1>9

LEMMA Removed ==
    ASSUME NEW l \in Seq(Ids), NEW k \in Nat, k < Len(l)
    PROVE  /\ RemoveAt(l, k + 1) \in Seq(Ids)
           /\ Len(RemoveAt(l, k + 1)) = Len(l) - 1
           /\ \A i \in 1 .. Len(l) - 1 : RemoveAt(l, k + 1)[i] = IF i <= k THEN l[i] ELSE l[i + 1]
<1> DEFINE a == SubSeq(l, 1, k)
           b == SubSeq(l, k + 2, Len(l))
<1>1. a \in Seq(Ids) /\ Len(a) = k /\ \A i \in 1 .. k : a[i] = l[i]
  OBVIOUS
<1>2. b \in Seq(Ids) /\ Len(b) = Len(l) - k - 1 /\ \A i \in 1 .. Len(b) : b[i] = l[k + 1 + i]
  OBVIOUS
<1>3. RemoveAt(l, k + 1) = a \o b
  <2>1. (k + 1) - 1 = k /\ (k + 1) + 1 = k + 2
    OBVIOUS
  <2> QED BY <2>1, Zenon DEF RemoveAt
<1> HIDE DEF a, b
<1>4. /\ a \o b \in Seq(Ids) /\ Len(a \o b) = Len(l) - 1
      /\ \A i \in 1 .. Len(l) - 1 : (a \o b)[i] = IF i <= k THEN a[i] ELSE b[i - k]
  <2>1. Len(a) + Len(b) = Len(l) - 1
    BY <1>1, <1>2
  <2>2. /\ a \o b \in Seq(Ids) /\ Len(a \o b) = Len(a) + Len(b)
        /\ \A i \in 1 .. Len(a) + Len(b) : (a \o b)[i] = IF i <= Len(a) THEN a[i] ELSE b[i - Len(a)]
    BY <1>1, <1>2, Joined
  <2> QED BY <1>1, <2>1, <2>2
<1>5. ASSUME NEW i \in 1 .. Len(l) - 1
      PROVE  (a \o b)[i] = IF i <= k THEN l[i] ELSE l[i + 1]
  <2>1. CASE i <= k
    BY <1>1, <1>4, <2>1
  <2>2. CASE ~(i <= k)
    <3>1. i - k \in 1 .. Len(b) /\ (k + 1) + (i - k) = i + 1
      BY <1>2, <2>2
    <3> QED BY <1>2, <1>4, <2>2, <3>1
  <2> QED BY <2>1, <2>2
<1> QED BY <1>3, <1>4, <1>5

\* A new clip moves the clips from its place on by one ...
LEMMA InsertedIndex ==
    ASSUME NEW l \in Seq(Ids), IsInjective(l), NEW k \in 0 .. Len(l), NEW e \in Ids,
           \A i \in 1 .. Len(l) : l[i] # e
    PROVE  /\ IsInjective(InsertAt(l, k + 1, e))
           /\ IndexOf(InsertAt(l, k + 1, e), e) = k
           /\ \A x : x # e => IndexOf(InsertAt(l, k + 1, e), x)
                                = IF IndexOf(l, x) >= k THEN IndexOf(l, x) + 1 ELSE IndexOf(l, x)
<1> DEFINE m == InsertAt(l, k + 1, e)
<1>1. /\ m \in Seq(Ids) /\ Len(m) = Len(l) + 1
      /\ \A i \in 1 .. Len(l) + 1 : m[i] = IF i <= k THEN l[i] ELSE IF i = k + 1 THEN e ELSE l[i - 1]
  BY Inserted
<1> HIDE DEF m
<1>2. IsInjective(m)
  <2> SUFFICES ASSUME NEW a \in 1 .. Len(l) + 1, NEW b \in 1 .. Len(l) + 1, a < b
               PROVE  m[a] # m[b]
    BY <1>1 DEF IsInjective
  <2>1. CASE b <= k
    BY <1>1, <2>1 DEF IsInjective
  <2>2. CASE b = k + 1
    BY <1>1, <2>2
  <2>3. CASE b > k + 1
    <3>1. b - 1 \in 1 .. Len(l) /\ m[b] = l[b - 1]
      BY <1>1, <2>3
    <3>2. CASE a <= k
      <4>1. l[a] # l[b - 1]
        BY <2>3, <3>1, <3>2 DEF IsInjective
      <4> QED BY <1>1, <3>1, <3>2, <4>1
    <3>3. CASE a = k + 1
      BY <1>1, <3>1, <3>3
    <3>4. CASE a > k + 1
      <4>1. a - 1 \in 1 .. Len(l) /\ m[a] = l[a - 1] /\ a - 1 < b - 1
        BY <1>1, <3>4
      <4>2. l[a - 1] # l[b - 1]
        BY <3>1, <4>1 DEF IsInjective
      <4> QED BY <3>1, <4>1, <4>2
    <3> QED BY <3>2, <3>3, <3>4
  <2> QED BY <2>1, <2>2, <2>3
<1>3. IndexOf(m, e) = k
  BY <1>1, <1>2, IndexIn, k + 1 \in 1 .. Len(m), m[k + 1] = e
<1>4. ASSUME NEW x, x # e
      PROVE  IndexOf(m, x) = IF IndexOf(l, x) >= k THEN IndexOf(l, x) + 1 ELSE IndexOf(l, x)
  <2>1. CASE IndexOf(l, x) = None
    <3>1. \A i \in 1 .. Len(m) : m[i] # x
      BY <1>1, <1>4, <2>1, IndexRange
    <3> QED BY <1>1, <2>1, <3>1, IndexOut DEF None
  <2>2. CASE IndexOf(l, x) # None
    <3> DEFINE i == IndexOf(l, x)
    <3>1. i + 1 \in 1 .. Len(l) /\ l[i + 1] = x /\ i \in Nat
      BY <2>2, IndexRange DEF None
    <3> HIDE DEF i
    <3>2. CASE i >= k
      <4>1. i + 2 \in 1 .. Len(m) /\ m[i + 2] = x
        BY <1>1, <3>1, <3>2
      <4>2. IndexOf(m, m[i + 2]) = (i + 2) - 1
        BY <1>1, <1>2, <4>1, IndexIn
      <4> QED BY <3>1, <3>2, <4>1, <4>2 DEF i
    <3>3. CASE ~(i >= k)
      <4>1. i + 1 \in 1 .. Len(m) /\ m[i + 1] = x
        BY <1>1, <3>1, <3>3
      <4>2. IndexOf(m, m[i + 1]) = (i + 1) - 1
        BY <1>1, <1>2, <4>1, IndexIn
      <4> QED BY <3>1, <3>3, <4>1, <4>2 DEF i
    <3> QED BY <3>2, <3>3
  <2> QED BY <2>1, <2>2
<1> QED BY <1>2, <1>3, <1>4 DEF m

\* ... and a clip that goes the clips after it back by one.
LEMMA RemovedIndex ==
    ASSUME NEW l \in Seq(Ids), IsInjective(l), NEW k \in Nat, k < Len(l)
    PROVE  /\ IsInjective(RemoveAt(l, k + 1))
           /\ IndexOf(RemoveAt(l, k + 1), l[k + 1]) = None
           /\ \A x : x # l[k + 1] => IndexOf(RemoveAt(l, k + 1), x)
                                       = IF IndexOf(l, x) > k THEN IndexOf(l, x) - 1 ELSE IndexOf(l, x)
<1> DEFINE m == RemoveAt(l, k + 1)
<1>1. /\ m \in Seq(Ids) /\ Len(m) = Len(l) - 1
      /\ \A i \in 1 .. Len(l) - 1 : m[i] = IF i <= k THEN l[i] ELSE l[i + 1]
  BY Removed
<1> HIDE DEF m
<1> DEFINE from(i) == IF i <= k THEN i ELSE i + 1
<1>a. ASSUME NEW i \in 1 .. Len(m)
      PROVE  from(i) \in 1 .. Len(l) /\ from(i) # k + 1 /\ m[i] = l[from(i)]
  <2>1. CASE i <= k
    BY <1>1, <2>1
  <2>2. CASE ~(i <= k)
    BY <1>1, <2>2
  <2> QED BY <2>1, <2>2
<1>b. ASSUME NEW i \in 1 .. Len(m), NEW j \in 1 .. Len(m), i # j
      PROVE  from(i) # from(j)
  BY <1>b, <1>1
<1> HIDE DEF from
<1>2. IsInjective(m)
  <2>1. \A i, j \in 1 .. Len(m) : i # j => m[i] # m[j]
    BY <1>a, <1>b DEF IsInjective
  <2> QED BY <1>1, <2>1 DEF IsInjective
<1>3. \A i \in 1 .. Len(m) : m[i] # l[k + 1]
  <2>1. k + 1 \in 1 .. Len(l)
    OBVIOUS
  <2> QED BY <1>a, <2>1 DEF IsInjective
<1>4. IndexOf(m, l[k + 1]) = None
  BY <1>1, <1>3, IndexOut
<1>5. ASSUME NEW x, x # l[k + 1]
      PROVE  IndexOf(m, x) = IF IndexOf(l, x) > k THEN IndexOf(l, x) - 1 ELSE IndexOf(l, x)
  <2>1. CASE IndexOf(l, x) = None
    <3>1. \A i \in 1 .. Len(m) : m[i] # x
      BY <1>1, <2>1, IndexRange
    <3> QED BY <1>1, <2>1, <3>1, IndexOut DEF None
  <2>2. CASE IndexOf(l, x) # None
    <3> DEFINE i == IndexOf(l, x)
    <3>1. i + 1 \in 1 .. Len(l) /\ l[i + 1] = x /\ i \in Nat /\ i # k
      BY <1>5, <2>2, IndexRange DEF None
    <3> HIDE DEF i
    <3>2. CASE i > k
      <4>1. i \in 1 .. Len(m) /\ m[i] = x
        BY <1>1, <3>1, <3>2
      <4>2. IndexOf(m, m[i]) = i - 1
        BY <1>1, <1>2, <4>1, IndexIn
      <4> QED BY <3>1, <3>2, <4>1, <4>2 DEF i
    <3>3. CASE ~(i > k)
      <4>1. i + 1 \in 1 .. Len(m) /\ m[i + 1] = x
        BY <1>1, <3>1, <3>3
      <4>2. IndexOf(m, m[i + 1]) = (i + 1) - 1
        BY <1>1, <1>2, <4>1, IndexIn
      <4> QED BY <3>1, <3>3, <4>1, <4>2 DEF i
    <3> QED BY <3>2, <3>3
  <2> QED BY <2>1, <2>2
<1> QED BY <1>2, <1>4, <1>5 DEF m

\* A clip that is moved leaves the list with the clips it had.
LEMMA MovedList ==
    ASSUME NEW l \in Seq(Ids), IsInjective(l), NEW i \in Nat, NEW j \in Nat, i < Len(l), j < Len(l)
    PROVE  /\ Moved(l, i, j) \in Seq(Ids) /\ Len(Moved(l, i, j)) = Len(l) /\ IsInjective(Moved(l, i, j))
           /\ \A n \in 1 .. Len(l) : \E o \in 1 .. Len(l) : Moved(l, i, j)[n] = l[o]
<1> DEFINE r == RemoveAt(l, i + 1)
           m == InsertAt(r, j + 1, l[i + 1])
<1>1. /\ r \in Seq(Ids) /\ Len(r) = Len(l) - 1
      /\ \A n \in 1 .. Len(l) - 1 : r[n] = IF n <= i THEN l[n] ELSE l[n + 1]
  BY Removed
<1>2. IsInjective(r) /\ l[i + 1] \in Ids /\ \A n \in 1 .. Len(r) : r[n] # l[i + 1]
  <2>1. IsInjective(r) BY RemovedIndex
  <2>2. \A n \in 1 .. Len(r) : r[n] # l[i + 1]
    <3> HIDE DEF r
    <3> SUFFICES ASSUME NEW n \in 1 .. Len(r) PROVE r[n] # l[i + 1]
      OBVIOUS
    <3>1. CASE n <= i
      <4>1. r[n] = l[n] /\ n \in 1 .. Len(l) /\ i + 1 \in 1 .. Len(l) /\ n # i + 1
        BY <1>1, <3>1
      <4> QED BY <4>1 DEF IsInjective
    <3>2. CASE ~(n <= i)
      <4>1. r[n] = l[n + 1] /\ n + 1 \in 1 .. Len(l) /\ i + 1 \in 1 .. Len(l) /\ n + 1 # i + 1
        BY <1>1, <3>2
      <4> QED BY <4>1 DEF IsInjective
    <3> QED BY <3>1, <3>2
  <2> QED BY <2>1, <2>2
<1>3. Moved(l, i, j) = m
  BY DEF Moved
<1> HIDE DEF r
<1>0. j \in 0 .. Len(r)
  BY <1>1
<1> DEFINE e == l[i + 1]
<1>7. e \in Ids
  BY <1>2
<1>4. /\ m \in Seq(Ids) /\ Len(m) = Len(l)
      /\ \A n \in 1 .. Len(r) + 1 : m[n] = IF n <= j THEN r[n] ELSE IF n = j + 1 THEN l[i + 1] ELSE r[n - 1]
  <2> HIDE DEF e
  <2>1. /\ InsertAt(r, j + 1, e) \in Seq(Ids) /\ Len(InsertAt(r, j + 1, e)) = Len(r) + 1
        /\ \A n \in 1 .. Len(r) + 1 :
             InsertAt(r, j + 1, e)[n] = IF n <= j THEN r[n] ELSE IF n = j + 1 THEN e ELSE r[n - 1]
    BY <1>0, <1>1, <1>7, Inserted
  <2>2. Len(r) + 1 = Len(l)
    BY <1>1
  <2> USE DEF e
  <2> QED BY <2>1, <2>2, Zenon DEF e
<1>5. IsInjective(m)
  BY <1>0, <1>1, <1>2, InsertedIndex
<1> HIDE DEF m
<1>6. ASSUME NEW n \in 1 .. Len(l) PROVE \E o \in 1 .. Len(l) : m[n] = l[o]
  <2>1. ASSUME NEW q \in 1 .. Len(r) PROVE \E o \in 1 .. Len(l) : r[q] = l[o]
    <3>1. CASE q <= i
      <4>1. q \in 1 .. Len(l) /\ r[q] = l[q]
        BY <1>1, <3>1
      <4> QED BY <4>1
    <3>2. CASE ~(q <= i)
      <4>1. q + 1 \in 1 .. Len(l) /\ r[q] = l[q + 1]
        BY <1>1, <3>2
      <4> QED BY <4>1
    <3> QED BY <3>1, <3>2
  <2>2. n \in 1 .. Len(r) + 1 /\ i + 1 \in 1 .. Len(l)
    BY <1>1
  <2>3. CASE n <= j
    <3>1. n \in 1 .. Len(r) /\ m[n] = r[n]
      BY <1>0, <1>4, <2>2, <2>3
    <3> QED BY <2>1, <3>1
  <2>4. CASE n = j + 1
    <3>1. m[n] = l[i + 1]
      BY <1>4, <2>2, <2>4
    <3> QED BY <2>2, <3>1
  <2>5. CASE n > j + 1
    <3>1. n - 1 \in 1 .. Len(r) /\ m[n] = r[n - 1]
      BY <1>1, <1>4, <2>2, <2>5
    <3> QED BY <2>1, <3>1
  <2> QED BY <2>3, <2>4, <2>5
<1> QED BY <1>3, <1>4, <1>5, <1>6

\* Every other clip of a list.
LEMMA HalvedList ==
    ASSUME NEW l \in Seq(Ids), IsInjective(l)
    PROVE  LET m == [i \in 1 .. Len(l) \div 2 |-> l[2 * i]] IN
           /\ m \in Seq(Ids) /\ Len(m) <= Len(l) /\ IsInjective(m)
           /\ \A n \in 1 .. Len(m) : \E o \in 1 .. Len(l) : m[n] = l[o]
<1> DEFINE h == Len(l) \div 2
           m == [i \in 1 .. h |-> l[2 * i]]
<1>1. h \in Nat /\ 2 * h <= Len(l)
  OBVIOUS
<1> HIDE DEF h
<1>2. \A i \in 1 .. h : 2 * i \in 1 .. Len(l)
  BY <1>1
<1>3. m \in Seq(Ids) /\ Len(m) = h
  BY <1>1, <1>2
<1>4. IsInjective(m)
  <2> SUFFICES ASSUME NEW a \in 1 .. h, NEW b \in 1 .. h, a # b PROVE l[2 * a] # l[2 * b]
    BY <1>3 DEF IsInjective
  <2>1. 2 * a # 2 * b
    BY <1>1
  <2> QED BY <1>2, <2>1 DEF IsInjective
<1>5. \A n \in 1 .. Len(m) : \E o \in 1 .. Len(l) : m[n] = l[o]
  BY <1>2, <1>3
<1> QED BY <1>1, <1>3, <1>4, <1>5 DEF h

-----------------------------------------------------------------------------
(* What the steps of the pool have in common.                              *)

\* A clip has an index in the list when it is in it, and indices name one clip.
LEMMA SameIndex ==
    ASSUME ListTyped, NEW x, NEW y, IndexOf(list, x) = IndexOf(list, y), IndexOf(list, x) # None
    PROVE  x = y
BY IndexRange DEF ListTyped

\* What stream_open_video does to the entry it opens the clip in, and to the other.
LEMMA OpenedPool ==
    ASSUME Inv, NEW p \in Entries, NEW x \in Ids, NEW k \in Nat \cup {None}, NEW b \in BOOLEAN
    PROVE  /\ Opened(p, x, k, b) \in [Entries -> Entry]
           /\ \A q \in Entries \ {p} : Opened(p, x, k, b)[q] = pool[q]
           /\ Opened(p, x, k, b)[p].id = x /\ Opened(p, x, k, b)[p].qi = k
           /\ Opened(p, x, k, b)[p].used = b /\ Opened(p, x, k, b)[p].open
           /\ Opened(p, x, k, b)[p].speed = speed[x]
           /\ pool[p].id = x => Opened(p, x, k, b)[p].mark = pool[p].mark
<1> DEFINE r == pool[p]
           found == [r EXCEPT !.qi = k, !.used = b, !.speed = speed[x]]
           fresh == [Free EXCEPT !.id = x, !.qi = k, !.used = b, !.open = TRUE, !.speed = speed[x]]
<1>1. r \in Entry /\ (r.open <=> r.id # None) /\ speed[x] \in 1 .. 2 /\ x # None
  BY DEF Inv, Typed, PoolTyped, ListTyped, OpenHasId, Ids, None
<1>2. Opened(p, x, k, b) = [pool EXCEPT ![p] = IF r.id = x THEN found ELSE fresh]
  BY DEF Opened
<1>3. /\ found \in Entry /\ found.qi = k /\ found.used = b /\ found.speed = speed[x]
      /\ found.id = r.id /\ found.open = r.open /\ found.mark = r.mark
  <2> HIDE DEF r
  <2> QED BY <1>1 DEF Entry
<1>4. /\ fresh \in Entry /\ fresh.qi = k /\ fresh.used = b /\ fresh.speed = speed[x]
      /\ fresh.id = x /\ fresh.open = TRUE
  BY <1>1 DEF Entry, Free
<1>5. pool \in [Entries -> Entry]
  BY DEF Inv, Typed, PoolTyped
<1> DEFINE e == IF r.id = x THEN found ELSE fresh
<1>6. /\ e \in Entry /\ e.qi = k /\ e.used = b /\ e.speed = speed[x] /\ e.id = x /\ e.open = TRUE
      /\ r.id = x => e.mark = r.mark
  <2> HIDE DEF r, found, fresh
  <2>1. r.open \in BOOLEAN
    BY <1>1 DEF Entry
  <2> QED BY <1>1, <1>3, <1>4, <2>1
<1> HIDE DEF found, fresh, e
<1>7. Opened(p, x, k, b) = [pool EXCEPT ![p] = e]
  BY <1>2 DEF e
<1> QED BY <1>5, <1>6, <1>7

\* Where a clip is opened: the entry has it, or is empty; no other entry has it, and the
\* index it gets is its own, unless the refresh thread was inside the entry.
LEMMA PlaceFits ==
    ASSUME Inv, NEW t \in Threads, NEW x \in Ids, NEW p \in Place(t, x),
           \/ job[t].stage \in {"scan", "open"} /\ x = job[t].cur
           \/ job[t].stage = "opennext" /\ x = job[t].next
    PROVE  /\ p \in Entries /\ pool[p].id \in {x, None} /\ Qi(t, x) \in Nat \cup {None}
           /\ ~env.evicted => /\ Qi(t, x) = IndexOf(list, x)
                              /\ \A q \in Entries \ {p} : pool[q].id # x
<1>0. list \in Seq(Ids) /\ job[t] \in Job /\ x # None
  BY DEF Inv, Typed, ListTyped, JobsTyped, Ids, None
<1>1. CASE job[t].stage # "scan" /\ job[t].entry = 1
  <2>1. p = 1 /\ Qi(t, x) = job[t].qi
    BY <1>1 DEF Place, Qi
  <2>2. pool[1].id = None
    BY <1>1 DEF Inv, Emptied
  <2>3. ~env.evicted => job[t].qi = IndexOf(list, x) /\ pool[2].id # x
    BY <1>1 DEF Inv, InStep, Room, MakesRoom, RoomFor
  <2>4. job[t].qi \in Nat \cup {None}
    BY <1>0 DEF Job
  <2> QED BY <2>1, <2>2, <2>3, <2>4 DEF Entries
<1>2. CASE ~(job[t].stage # "scan" /\ job[t].entry = 1)
  <2>1. p \in PlacesFor(x) /\ Qi(t, x) = IndexOf(list, x)
    BY <1>2 DEF Place, Qi
  <2>2. IndexOf(list, x) \in Nat \cup {None}
    BY <1>0, IndexRange
  <2>3. /\ p \in Entries
        /\ pool[p].id = x \/ (pool[p].id = None /\ \A q \in Entries : pool[q].id # x)
    BY <2>1 DEF PlacesFor
  <2>4. ~env.evicted => \A q \in Entries \ {p} : pool[q].id # x
    BY <1>0, <2>3 DEF Inv, InStep, Distinct, OpenHasId, Entries
  <2> QED BY <2>1, <2>2, <2>3, <2>4
<1> QED BY <1>1, <1>2

\* There is always an entry for a clip unless both are another clip's.
LEMMA NoPlace ==
    ASSUME NEW t \in Threads, NEW x, Place(t, x) = {}
    PROVE  \A q \in Entries : pool[q].id # x /\ pool[q].id # None
<1>1. PlacesFor(x) = {}
  BY DEF Place
<1> DEFINE open == {p \in Entries : pool[p].id = x}
           free == {p \in Entries : pool[p].id = None}
           s == IF open # {} THEN open ELSE free
<1>2. \A p \in s : ~ \A q \in s : p <= q
  BY <1>1 DEF PlacesFor
<1>3. s \subseteq Entries
  OBVIOUS
<1> HIDE DEF s
<1>4. s = {}
  BY <1>2, <1>3 DEF Entries
<1> QED BY <1>4 DEF s

\* A job that takes the place of a thread's job.
LEMMA JobTaken ==
    ASSUME JobsTyped, NEW t \in Threads, NEW j \in Job, JobOk(t, j, idGen'),
           job' = [job EXCEPT ![t] = j], idGen \in Nat, idGen' \in Nat, idGen <= idGen'
    PROVE  JobsTyped' /\ job'[t] = j /\ \A u \in Threads \ {t} : job'[u] = job[u]
<1>1. job' \in [Threads -> Job] /\ job'[t] = j /\ \A u \in Threads \ {t} : job'[u] = job[u]
  BY DEF JobsTyped
<1>2. ASSUME NEW u \in Threads PROVE JobOk(u, job'[u], idGen')
  <2>1. CASE u = t
    BY <1>1, <2>1
  <2>2. CASE u # t
    <3>1. JobOk(u, job[u], idGen) /\ job'[u] = job[u] /\ job[u] \in Job
      BY <1>1, <2>2 DEF JobsTyped
    <3>2. job[u].cur \in Int /\ job[u].next \in Int
      BY <3>1 DEF Job, Ids, None
    <3> QED BY <3>1, <3>2 DEF JobOk
  <2> QED BY <2>1, <2>2
<1> QED BY <1>1, <1>2 DEF JobsTyped

\* A pool whose entries differ in nothing but pause, abort and mark.
SameEntries ==
    /\ pool' \in [Entries -> Entry]
    /\ \A p \in Entries : /\ pool'[p].id = pool[p].id /\ pool'[p].qi = pool[p].qi
                          /\ pool'[p].used = pool[p].used /\ pool'[p].open = pool[p].open
                          /\ pool'[p].speed = pool[p].speed
SameGhosts == env'.wiped = env.wiped /\ env'.evicted = env.evicted

LEMMA SamePool ==
    ASSUME Inv, SameEntries, UNCHANGED <<list, speed, idGen, lock>>
    PROVE  ListTyped' /\ PoolTyped' /\ OpenHasId'
<1>1. ListTyped'
  BY DEF Inv, Typed, ListTyped
<1>2. PoolTyped'
  <2>1. 1 \in Entries /\ 2 \in Entries
    BY DEF Entries
  <2> QED BY <2>1 DEF Inv, Typed, PoolTyped, SameEntries
<1>3. OpenHasId'
  BY DEF Inv, OpenHasId, SameEntries
<1> QED BY <1>1, <1>2, <1>3

\* A step that leaves list and jobs alone, and of the pool all but pause, abort and mark.
LEMMA QuietKeeps ==
    ASSUME Inv, SameEntries, SameGhosts, UNCHANGED <<list, speed, idGen, lock, job>>,
           RefreshTyped', EnvTyped', MarkProtects', refresh.at = "off" => refresh' = refresh
    PROVE  Inv'
<1>0. 1 \in Entries /\ 2 \in Entries
  BY DEF Entries
<1>1. ListTyped' /\ PoolTyped' /\ OpenHasId'
  BY SamePool
<1>2. JobsTyped' /\ LockHeld' /\ Starting'
  BY DEF Inv, Typed, JobsTyped, JobOk, LockHeld, Starting
<1>3. Emptied'
  BY <1>0 DEF Inv, Emptied, SameEntries
<1>4. ASSUME ~env'.evicted PROVE Room' /\ Distinct'
  BY <1>0, <1>4 DEF Inv, InStep, SameEntries, SameGhosts, Room, MakesRoom, RoomFor, Distinct
<1>5. ASSUME ~env'.evicted, ~env'.wiped PROVE Seen' /\ SpeedKept'
  <2>1. Seen /\ SpeedKept
    BY <1>5 DEF Inv, InStep, SameGhosts
  <2>2. Seen'
    BY <2>1 DEF SameEntries, Seen, Stale, Unseen
  <2>3. SpeedKept'
    BY <2>1 DEF SameEntries, SpeedKept
  <2> QED BY <2>2, <2>3
<1>6. InStep'
  BY <1>4, <1>5 DEF InStep
<1> QED BY <1>1, <1>2, <1>3, <1>6 DEF Inv, Typed

\* A step that leaves the whole pool alone.
LEMMA UntouchedKeeps ==
    ASSUME Inv, UNCHANGED <<list, speed, idGen, pool, lock, job>>, SameGhosts,
           RefreshTyped', EnvTyped', MarkProtects', refresh.at = "off" => refresh' = refresh
    PROVE  Inv'
<1>1. SameEntries
  BY DEF Inv, Typed, PoolTyped, SameEntries
<1> QED BY <1>1, QuietKeeps

LEMMA PlayEntryUsed ==
    ASSUME Inv
    PROVE  /\ PlayEntry \in Entries \cup {None}
           /\ PlayEntry # None => pool[PlayEntry].used
           /\ \A p \in Entries : pool[p].used <=> p = PlayEntry
BY DEF Inv, Typed, PoolTyped, Entries, Entry, PlayEntry, None

-----------------------------------------------------------------------------
(* The refresh thread.                                                     *)

LEMMA LookKeeps == Inv /\ Look => Inv'
<1> SUFFICES ASSUME Inv, Look PROVE Inv'
  OBVIOUS
<1> DEFINE p == PlayEntry
<1>1. p \in Entries /\ pool[p] \in Entry /\ pool[p].open
  BY PlayEntryUsed DEF Inv, Typed, PoolTyped, Look
<1>2. pool' = [pool EXCEPT ![p] = [pool[p] EXCEPT !.mark = TRUE]] /\ pool \in [Entries -> Entry]
  BY DEF Look, Inv, Typed, PoolTyped
<1>3. refresh' = [refresh EXCEPT !.at = "show", !.player = p, !.gaveUp = FALSE]
  BY DEF Look
<1> HIDE DEF p
<1>4. SameEntries
  BY <1>1, <1>2 DEF SameEntries, Entry
<1>5. RefreshTyped'
  BY <1>1, <1>3 DEF Inv, Typed, RefreshTyped, Entries, None
<1>6. MarkProtects'
  <2>1. refresh'.player = p
    BY <1>3 DEF Inv, Typed, RefreshTyped
  <2>2. pool'[p].open /\ pool'[p].mark
    BY <1>1, <1>2 DEF Entry
  <2> QED BY <2>1, <2>2 DEF MarkProtects, Player
<1>7. SameGhosts /\ EnvTyped' /\ UNCHANGED <<list, speed, idGen, lock, job>> /\ refresh.at # "off"
  BY DEF Look, SameGhosts, Inv, Typed, EnvTyped
<1> QED BY <1>4, <1>5, <1>6, <1>7, QuietKeeps

\* The steps that only move the refresh thread on within its entry.
Moves ==
    /\ UNCHANGED <<list, speed, idGen, pool, lock, job>> /\ SameGhosts
    /\ EnvTyped' /\ RefreshTyped'
    /\ refresh'.player = refresh.player /\ refresh'.gaveUp = refresh.gaveUp
    /\ refresh.at # "off"

LEMMA MovesKeeps == Inv /\ Moves => Inv'
<1> SUFFICES ASSUME Inv, Moves PROVE Inv'
  OBVIOUS
<1>1. MarkProtects'
  BY DEF Inv, MarkProtects, Player, Moves
<1> QED BY <1>1, UntouchedKeeps DEF Moves, SameGhosts

LEMMA ShowMoves == Inv /\ (Show \/ Delay \/ SwitchNot \/ Post \/ End) => Moves
<1> SUFFICES ASSUME Inv, Show \/ Delay \/ SwitchNot \/ Post \/ End PROVE Moves
  OBVIOUS
<1> USE DEF Moves, SameGhosts
<1>0. RefreshTyped /\ EnvTyped /\ PoolTyped
  BY DEF Inv, Typed
<1>1. CASE Show
  <2>1. env' = env \/ env' = [env EXCEPT !.calls = @ - 1]
    BY <1>1 DEF Show
  <2>2. EnvTyped' /\ SameGhosts
    BY <1>0, <1>1, <2>1 DEF Show, EnvTyped
  <2>3. UNCHANGED <<list, speed, idGen, pool, lock, job>> /\ (RefreshTo("end") \/ RefreshTo("delay"))
    BY <1>1 DEF Show
  <2> QED BY <1>0, <1>1, <2>2, <2>3 DEF Show, RefreshTo, RefreshTyped, None, Entries
<1>2. CASE Delay
  <2>1. refresh.player \in Entries
    BY <1>0, <1>2 DEF Delay, RefreshTyped
  <2>2. pool[Player].id \in Ids \cup {None}
    BY <1>0, <2>1 DEF Player, PoolTyped, Entry
  <2> QED BY <1>0, <1>2, <2>2 DEF Delay, RefreshTyped, EnvTyped, None, Entries
<1>3. CASE SwitchNot
  BY <1>0, <1>3 DEF SwitchNot, RefreshTo, RefreshTyped, EnvTyped, None, Entries
<1>4. CASE Post
  <2>1. refresh.from \in Entries
    BY <1>0, <1>4 DEF Post, RefreshTyped
  <2>2. pool[refresh.from].qi + 1 \in Nat
    BY <1>0, <2>1 DEF PoolTyped, Entry, None
  <2> DEFINE m == [what |-> "update", i |-> pool[refresh.from].qi + 1, j |-> 0]
  <2>3. m \in Message
    BY <2>2 DEF Message
  <2>4. msgs' = Append(msgs, m) /\ env' = env
    BY <1>4 DEF Post
  <2> HIDE DEF m
  <2>5. EnvTyped'
    BY <1>0, <2>3, <2>4 DEF EnvTyped
  <2> QED BY <1>0, <1>4, <2>5 DEF Post, RefreshTo, RefreshTyped, None, Entries
<1>5. CASE End
  BY <1>0, <1>5 DEF End, RefreshTyped, EnvTyped, None, Entries
<1> QED BY <1>1, <1>2, <1>3, <1>4, <1>5

LEMMA SwitchEndKeeps == Inv /\ SwitchEnd => Inv'
<1> SUFFICES ASSUME Inv, SwitchEnd PROVE Inv'
  OBVIOUS
<1> DEFINE p == PlayEntry
<1>1. p \in Entries /\ pool[p] \in Entry
  BY PlayEntryUsed DEF Inv, Typed, PoolTyped, SwitchEnd
<1>2. pool' = [pool EXCEPT ![p] = [pool[p] EXCEPT !.paused = TRUE]] /\ pool \in [Entries -> Entry]
  BY DEF SwitchEnd, Inv, Typed, PoolTyped
<1>3. /\ refresh' = [refresh EXCEPT !.at = "end"] /\ refresh.at = "switch"
      /\ UNCHANGED <<list, speed, idGen, lock, job, msgs, env>>
  BY DEF SwitchEnd, RefreshTo
<1> HIDE DEF p
<1>4. SameEntries /\ \A q \in Entries : pool'[q].mark = pool[q].mark
  BY <1>1, <1>2 DEF SameEntries, Entry
<1>5. RefreshTyped' /\ refresh'.player = refresh.player /\ refresh'.gaveUp = refresh.gaveUp
  BY <1>3 DEF Inv, Typed, RefreshTyped, Entries, None
<1>6. MarkProtects'
  BY <1>4, <1>5 DEF MarkProtects, Player, Inv, SameEntries, RefreshTyped
<1>7. SameGhosts /\ EnvTyped'
  BY <1>3 DEF SameGhosts, Inv, Typed, EnvTyped
<1> QED BY <1>3, <1>4, <1>5, <1>6, <1>7, QuietKeeps

LEMMA LeaveKeeps == Inv /\ Leave => Inv'
<1> SUFFICES ASSUME Inv, Leave PROVE Inv'
  OBVIOUS
<1> DEFINE p == refresh.player
<1>1. p \in Entries /\ pool[p] \in Entry
  BY DEF Inv, Typed, PoolTyped, RefreshTyped, Leave
<1>2. pool' = [pool EXCEPT ![p] = [pool[p] EXCEPT !.mark = FALSE]] /\ pool \in [Entries -> Entry]
  BY DEF Leave, Inv, Typed, PoolTyped, Player
<1> HIDE DEF p
<1>4. SameEntries
  BY <1>1, <1>2 DEF SameEntries, Entry
<1>5. refresh' = Out("look") /\ RefreshTyped' /\ MarkProtects'
  BY DEF Leave, Out, RefreshTyped, MarkProtects, Player, None, Entries
<1>6. /\ UNCHANGED <<list, speed, idGen, lock, job, msgs>> /\ refresh.at # "off"
      /\ \E b \in BOOLEAN : env' = [env EXCEPT !.gone = b]
  BY DEF Leave, Inv, Typed, PoolTyped
<1>7. SameGhosts /\ EnvTyped'
  BY <1>6 DEF SameGhosts, Inv, Typed, EnvTyped
<1> QED BY <1>4, <1>5, <1>6, <1>7, QuietKeeps

-----------------------------------------------------------------------------
(* Releasing entries.                                                      *)

\* A clip is told to end, and whoever releases its entry waits.
LEMMA ReleaseKeeps ==
    ASSUME Inv, NEW t \in Threads, lock = t, job[t].cur # None,
           NEW p \in Entries, NEW back \in {"scan", "open", "opennext"}, NEW x,
           Release(t, p, back, x),
           back = "opennext" => job[t].next # None,
           job[t].op # "none",
           back # "scan" => /\ p = 1 /\ pool[2].id # x /\ x # None
                            /\ x = IF back = "open" THEN job[t].cur ELSE job[t].next,
           \A q \in Entries : Stale(q) /\ Unseen(t, q) =>
                \/ back = "scan" /\ (p <= q \/ pool[q].id \in {job[t].cur, job[t].next})
                \/ back = "open" /\ pool[q].id \in {job[t].cur, job[t].next}
                \/ back = "opennext" /\ pool[q].id = job[t].next
    PROVE  Inv'
<1> DEFINE e == [pool[p] EXCEPT !.abort = pool[p].open]
           w == [job[t] EXCEPT !.stage = "wait", !.back = back, !.entry = p, !.qi = IndexOf(list, x)]
<1>1. /\ pool \in [Entries -> Entry] /\ job \in [Threads -> Job] /\ list \in Seq(Ids)
      /\ pool[p] \in Entry /\ job[t] \in Job /\ idGen \in Nat
  BY DEF Inv, Typed, PoolTyped, JobsTyped, ListTyped
<1>2. pool' = [pool EXCEPT ![p] = e] /\ job' = [job EXCEPT ![t] = w]
  BY <1>1 DEF Release
<1>3. e \in Entry /\ e.id = pool[p].id /\ e.qi = pool[p].qi /\ e.used = pool[p].used /\ e.open = pool[p].open
      /\ e.speed = pool[p].speed /\ e.mark = pool[p].mark
  BY <1>1 DEF Entry
<1>4. /\ w \in Job /\ w.op = job[t].op /\ w.stage = "wait" /\ w.back = back /\ w.entry = p
      /\ w.qi = IndexOf(list, x) /\ w.cur = job[t].cur /\ w.next = job[t].next
  <2>1. IndexOf(list, x) \in Nat \cup {None}
    BY <1>1, IndexRange
  <2>2. p \in 0 .. 2 /\ back \in {"none", "scan", "open", "opennext"}
    BY DEF Entries
  <2> QED BY <1>1, <2>1, <2>2 DEF Job, Stages
<1>5. /\ UNCHANGED <<list, speed, idGen, refresh, msgs>>
      /\ env' = [env EXCEPT !.evicted = @ \/ (back # "scan" /\ pool[p].mark)]
      /\ lock' = IF pool[p].mark THEN "free" ELSE t
  BY DEF Release
<1> HIDE DEF e, w
<1>6. SameEntries /\ \A q \in Entries : pool'[q].mark = pool[q].mark
  BY <1>1, <1>2, <1>3 DEF SameEntries
<1>7. ListTyped' /\ PoolTyped' /\ OpenHasId'
  <2>1. ListTyped'
    BY <1>5 DEF Inv, Typed, ListTyped
  <2>2. 1 \in Entries /\ 2 \in Entries
    BY DEF Entries
  <2>3. PoolTyped'
    BY <1>5, <1>6, <2>2 DEF Inv, Typed, PoolTyped, SameEntries
  <2>4. OpenHasId'
    BY <1>6 DEF Inv, OpenHasId, SameEntries
  <2> QED BY <2>1, <2>3, <2>4
<1>8. JobsTyped' /\ job'[t] = w /\ \A u \in Threads \ {t} : job'[u] = job[u]
  <2>1. JobOk(t, job[t], idGen)
    BY DEF Inv, Typed, JobsTyped
  <2>2. JobOk(t, w, idGen)
    BY <1>4, <2>1 DEF JobOk
  <2>3. JobsTyped /\ idGen' = idGen /\ JobOk(t, w, idGen')
    BY <1>5, <2>2 DEF Inv, Typed
  <2>4. idGen' \in Nat /\ idGen <= idGen'
    BY <1>1, <2>3
  <2> QED BY <1>1, <1>2, <1>4, <2>3, <2>4, JobTaken, Zenon
<1>9. EnvTyped' /\ RefreshTyped'
  <2>1. pool[p].mark \in BOOLEAN
    BY <1>1 DEF Entry
  <2>2. EnvTyped'
    BY <1>5, <2>1 DEF Inv, Typed, EnvTyped
  <2>3. RefreshTyped'
    BY <1>5 DEF Inv, Typed, RefreshTyped
  <2> QED BY <2>2, <2>3
<1>10. LockHeld'
  BY <1>4, <1>8 DEF Inv, LockHeld
<1>11. Emptied'
  BY <1>4, <1>6, <1>8 DEF Inv, Emptied, SameEntries, Entries
<1>12. MarkProtects'
  BY <1>5, <1>6 DEF Inv, Typed, RefreshTyped, MarkProtects, Player, SameEntries
<1>13. env'.wiped = env.wiped /\ (~env'.evicted => ~env.evicted /\ (back = "scan" \/ ~pool[p].mark))
  BY <1>5 DEF Inv, Typed, EnvTyped
<1>14. ASSUME ~env'.evicted PROVE Room' /\ Distinct'
  <2>1. Room /\ Distinct /\ (back = "scan" \/ lock' = t)
    BY <1>5, <1>13, <1>14 DEF Inv, InStep
  <2>2. Distinct'
    BY <1>6, <2>1 DEF Distinct, SameEntries, Entries
  <2>3. ASSUME NEW u \in Threads \ {t} PROVE ~MakesRoom(u, "open")' /\ ~MakesRoom(u, "opennext")'
    BY <1>8, <2>1, <2>3 DEF Room, RoomFor, MakesRoom
  <2>4. MakesRoom(t, "open")' => RoomFor(t, job[t].cur)'
    <3> SUFFICES ASSUME MakesRoom(t, "open")' PROVE RoomFor(t, job[t].cur)'
      OBVIOUS
    <3>1. back = "open"
      BY <1>4, <1>8 DEF MakesRoom
    <3>2. x = job[t].cur /\ p = 1 /\ pool'[2].id # x /\ lock' = t /\ x # None
      BY <1>6, <2>1, <3>1 DEF SameEntries, Entries
    <3> QED BY <1>4, <1>5, <1>8, <3>2 DEF RoomFor
  <2>5. MakesRoom(t, "opennext")' => RoomFor(t, job[t].next)'
    <3> SUFFICES ASSUME MakesRoom(t, "opennext")' PROVE RoomFor(t, job[t].next)'
      OBVIOUS
    <3>1. back = "opennext"
      BY <1>4, <1>8 DEF MakesRoom
    <3>2. x = job[t].next /\ p = 1 /\ pool'[2].id # x /\ lock' = t /\ x # None
      BY <1>6, <2>1, <3>1 DEF SameEntries, Entries
    <3> QED BY <1>4, <1>5, <1>8, <3>2 DEF RoomFor
  <2> QED BY <2>2, <2>3, <2>4, <2>5 DEF Room
<1>15. ASSUME ~env'.evicted, ~env'.wiped PROVE Seen' /\ SpeedKept'
  <2>1. Seen /\ SpeedKept
    BY <1>13, <1>15 DEF Inv, InStep
  <2>2. SpeedKept'
    BY <1>5, <1>6, <2>1 DEF SameEntries, SpeedKept
  <2>3. ASSUME NEW q \in Entries, Stale(q)'
        PROVE  \E u \in {"app", "loop"} : job'[u].op \in {"copy", "exchange"} /\ Unseen(u, q)'
    <3>1. Stale(q)
      BY <1>5, <1>6, <2>3 DEF Stale, SameEntries
    <3>2. PICK u \in {"app", "loop"} : job[u].op \in {"copy", "exchange"} /\ Unseen(u, q)
      BY <2>1, <3>1 DEF Seen
    <3>3. pool'[q].id = pool[q].id
      BY <1>6 DEF SameEntries
    <3>4. CASE u = t
      BY <1>4, <1>8, <3>1, <3>2, <3>3, <3>4 DEF Unseen, Entries
    <3>5. CASE u # t
      <4>1. job'[u] = job[u]
        BY <1>8, <3>5 DEF Threads
      <4> QED BY <3>2, <3>3, <4>1 DEF Unseen
    <3> QED BY <3>4, <3>5
  <2> QED BY <2>2, <2>3 DEF Seen
<1>16. InStep'
  BY <1>14, <1>15 DEF InStep
<1>17. Starting'
  BY <1>4, <1>5, <1>8 DEF Inv, Starting
<1> QED BY <1>17, <1>7, <1>8, <1>9, <1>10, <1>11, <1>12, <1>16 DEF Inv, Typed

LEMMA ReleaseScannedKeeps == ASSUME NEW t \in Threads PROVE Inv /\ ReleaseScanned(t) => Inv'
<1> SUFFICES ASSUME Inv, ReleaseScanned(t) PROVE Inv'
  OBVIOUS
<1>1. PICK p \in ToRelease(t) : (\A q \in ToRelease(t) : p <= q) /\ Release(t, p, "scan", None)
  BY DEF ReleaseScanned
<1>2. lock = t /\ job[t].stage = "scan" /\ p \in Entries
  BY DEF ReleaseScanned, ToRelease
<1>3. job[t].cur # None /\ job[t].op # "none"
  BY <1>2 DEF Inv, Typed, JobsTyped, JobOk
<1>4. ASSUME NEW q \in Entries, Stale(q), Unseen(t, q)
      PROVE  p <= q \/ pool[q].id \in {job[t].cur, job[t].next}
  <2>1. pool[q].id # None
    BY <1>4 DEF Stale, Inv, OpenHasId
  <2> QED BY <1>1, <1>2, <1>4, <2>1 DEF Unseen, ToRelease
<1> QED BY <1>1, <1>2, <1>3, <1>4, ReleaseKeeps

LEMMA ReleaseFirstKeeps == ASSUME NEW t \in Threads PROVE Inv /\ ReleaseFirst(t) => Inv'
<1> SUFFICES ASSUME Inv, ReleaseFirst(t) PROVE Inv'
  OBVIOUS
<1>1. PICK s \in {"open", "opennext"} :
        LET x == IF s = "open" THEN job[t].cur ELSE job[t].next IN
        Opens(t, s) /\ x # None /\ Place(t, x) = {} /\ Release(t, 1, s, x)
  BY Zenon DEF ReleaseFirst
<1> DEFINE x == IF s = "open" THEN job[t].cur ELSE job[t].next
<1>2. Opens(t, s) /\ x # None /\ Place(t, x) = {} /\ Release(t, 1, s, x)
  BY <1>1
<1>3. lock = t /\ (job[t].stage = s \/ (s = "open" /\ job[t].stage = "scan" /\ ToRelease(t) = {}))
  BY <1>2 DEF Opens
<1>4. job[t].cur # None /\ job[t].op # "none"
  BY <1>3 DEF Inv, Typed, JobsTyped, JobOk
<1>5. 1 \in Entries /\ 2 \in Entries
  BY DEF Entries
<1>6. pool[2].id # x
  BY <1>2, <1>5, NoPlace
<1>7. ASSUME NEW q \in Entries, Stale(q), Unseen(t, q)
      PROVE  \/ s = "open" /\ pool[q].id \in {job[t].cur, job[t].next}
             \/ s = "opennext" /\ pool[q].id = job[t].next
  <2>1. pool[q].id # None
    BY <1>7 DEF Stale, Inv, OpenHasId
  <2> QED BY <1>3, <1>7, <2>1 DEF Unseen, ToRelease
<1> HIDE DEF x
<1>8. x = IF s = "open" THEN job[t].cur ELSE job[t].next
  BY DEF x
<1>9. s \in {"scan", "open", "opennext"} /\ s # "scan" /\ (s = "opennext" => job[t].next # None)
  BY <1>2, <1>8
<1> QED BY <1>2, <1>3, <1>4, <1>5, <1>6, <1>7, <1>8, <1>9, ReleaseKeeps

\* The wait is over: the entry is empty.
LEMMA CloseKeeps == ASSUME NEW t \in Threads PROVE Inv /\ Close(t) => Inv'
<1> SUFFICES ASSUME Inv, Close(t) PROVE Inv'
  OBVIOUS
<1> DEFINE p == job[t].entry
           e == [Free EXCEPT !.speed = pool[p].speed]
           w == [job[t] EXCEPT !.stage = job[t].back]
<1>1. /\ pool \in [Entries -> Entry] /\ job \in [Threads -> Job] /\ job[t] \in Job /\ idGen \in Nat
      /\ JobOk(t, job[t], idGen)
  BY DEF Inv, Typed, PoolTyped, JobsTyped, ListTyped
<1>2. /\ lock \in {t, "free"} /\ job[t].stage = "wait" /\ p \in Entries /\ pool[p] \in Entry /\ ~pool[p].mark
      /\ job[t].back \in {"scan", "open", "opennext"}
  BY <1>1 DEF Close, JobOk, Job
<1>3. pool' = [pool EXCEPT ![p] = e] /\ job' = [job EXCEPT ![t] = w]
  BY <1>1 DEF Close, Closed
<1>4. e \in Entry /\ e.id = None /\ e.used = FALSE /\ e.open = FALSE
  BY <1>2 DEF Entry, Free
<1>5. /\ w \in Job /\ w.op = job[t].op /\ w.stage = job[t].back /\ w.back = job[t].back /\ w.entry = job[t].entry
      /\ w.qi = job[t].qi /\ w.cur = job[t].cur /\ w.next = job[t].next
  BY <1>1, <1>2 DEF Job, Stages
<1>6. /\ UNCHANGED <<list, speed, idGen, refresh, msgs>> /\ lock' = t
      /\ \E b \in BOOLEAN : env' = [env EXCEPT !.gone = b]
  BY DEF Close, Closed
<1> HIDE DEF p, e, w
<1>7. /\ pool' \in [Entries -> Entry] /\ pool'[p] = e
      /\ \A q \in Entries \ {p} : pool'[q] = pool[q]
  BY <1>1, <1>2, <1>3, <1>4
<1>8. ListTyped' /\ PoolTyped' /\ OpenHasId'
  <2>1. ListTyped'
    BY <1>6 DEF Inv, Typed, ListTyped
  <2>2. 1 \in Entries /\ 2 \in Entries
    BY DEF Entries
  <2>3. None < idGen
    BY <1>1 DEF None
  <2>4. PoolTyped'
    BY <1>4, <1>6, <1>7, <2>2, <2>3 DEF Inv, Typed, PoolTyped
  <2>5. OpenHasId'
    BY <1>4, <1>7 DEF Inv, OpenHasId
  <2> QED BY <2>1, <2>4, <2>5
<1>9. JobsTyped' /\ job'[t] = w /\ \A u \in Threads \ {t} : job'[u] = job[u]
  <2>1. JobOk(t, w, idGen)
    BY <1>1, <1>2, <1>5 DEF JobOk
  <2>2. JobsTyped /\ idGen' = idGen /\ JobOk(t, w, idGen')
    BY <1>6, <2>1 DEF Inv, Typed
  <2>3. idGen' \in Nat /\ idGen <= idGen'
    BY <1>1, <2>2
  <2> QED BY <1>1, <1>3, <1>5, <2>2, <2>3, JobTaken, Zenon
<1>10. EnvTyped' /\ RefreshTyped' /\ SameGhosts
  BY <1>6 DEF Inv, Typed, EnvTyped, RefreshTyped, SameGhosts
<1>11. LockHeld'
  <2>1. ASSUME NEW u \in Threads \ {t} PROVE job[u].stage \notin {"scan", "open", "opennext"}
    BY <1>2, <2>1 DEF Inv, LockHeld, Threads
  <2> QED BY <1>6, <1>9, <2>1 DEF LockHeld
<1>12. Emptied'
  <2>1. ASSUME NEW u \in Threads \ {t} PROVE job'[u].stage \notin {"open", "opennext"}
    BY <1>2, <1>9, <2>1 DEF Inv, LockHeld, Threads
  <2>2. job'[t].entry = 1 => pool'[1].id = None
    BY <1>4, <1>5, <1>7, <1>9 DEF p
  <2> QED BY <2>1, <2>2 DEF Emptied
<1>13. MarkProtects'
  BY <1>2, <1>6, <1>7 DEF Inv, Typed, RefreshTyped, MarkProtects, Player
<1>14. ASSUME ~env'.evicted PROVE Room' /\ Distinct'
  <2>1. Room /\ Distinct
    BY <1>10, <1>14 DEF Inv, InStep, SameGhosts
  <2>2. Distinct'
    BY <1>4, <1>7, <2>1, <1>8 DEF Distinct, OpenHasId, Entries
  <2>3. ASSUME NEW u \in Threads \ {t} PROVE ~MakesRoom(u, "open")' /\ ~MakesRoom(u, "opennext")'
    BY <1>2, <1>9, <2>1, <2>3 DEF Room, RoomFor, MakesRoom, Threads
  <2>4. ASSUME NEW s \in {"open", "opennext"}, MakesRoom(t, s)'
        PROVE  MakesRoom(t, s) /\ p = 1 /\ pool'[2].id = pool[2].id
    <3>1. job[t].back = s /\ job[t].entry = 1
      BY <1>5, <1>9, <2>4 DEF MakesRoom
    <3> QED BY <1>2, <1>7, <3>1 DEF MakesRoom, p, Entries
  <2>5. MakesRoom(t, "open")' => RoomFor(t, job[t].cur)'
    BY <1>5, <1>6, <1>9, <2>1, <2>4 DEF Room, RoomFor
  <2>6. MakesRoom(t, "opennext")' => RoomFor(t, job[t].next)'
    BY <1>5, <1>6, <1>9, <2>1, <2>4 DEF Room, RoomFor
  <2> QED BY <2>2, <2>3, <2>5, <2>6 DEF Room
<1>15. ASSUME ~env'.evicted, ~env'.wiped PROVE Seen' /\ SpeedKept'
  <2>1. Seen /\ SpeedKept
    BY <1>10, <1>15 DEF Inv, InStep, SameGhosts
  <2>2. SpeedKept'
    BY <1>4, <1>6, <1>7, <2>1 DEF SpeedKept
  <2>3. ASSUME NEW q \in Entries, Stale(q)'
        PROVE  \E u \in {"app", "loop"} : job'[u].op \in {"copy", "exchange"} /\ Unseen(u, q)'
    <3>1. q # p /\ Stale(q) /\ pool'[q] = pool[q]
      BY <1>4, <1>6, <1>7, <2>3 DEF Stale
    <3>2. PICK u \in {"app", "loop"} : job[u].op \in {"copy", "exchange"} /\ Unseen(u, q)
      BY <2>1, <3>1 DEF Seen
    <3>4. CASE u = t
      BY <1>2, <1>5, <1>9, <3>1, <3>2, <3>4 DEF Unseen, p
    <3>5. CASE u # t
      <4>1. job'[u] = job[u]
        BY <1>9, <3>5 DEF Threads
      <4> QED BY <3>1, <3>2, <4>1 DEF Unseen
    <3> QED BY <3>4, <3>5
  <2> QED BY <2>2, <2>3 DEF Seen
<1>16. InStep'
  BY <1>14, <1>15 DEF InStep
<1>17. Starting'
  BY <1>5, <1>6, <1>9 DEF Inv, Starting
<1> QED BY <1>17, <1>8, <1>9, <1>10, <1>11, <1>12, <1>13, <1>16 DEF Inv, Typed

-----------------------------------------------------------------------------
(* Opening clips.                                                          *)

\* The clip x is open in entry p with its index and its speed, the other entry is as it
\* was (but for pause and mark), and is no longer in play when p is.
Gets(p, x, k) ==
    /\ pool' \in [Entries -> Entry]
    /\ pool'[p].id = x /\ pool'[p].qi = k /\ pool'[p].open /\ pool'[p].speed = speed[x]
    /\ \A q \in Entries \ {p} :
        /\ pool'[q].id = pool[q].id /\ pool'[q].qi = pool[q].qi /\ pool'[q].open = pool[q].open
        /\ pool'[q].speed = pool[q].speed
        /\ pool'[q].used => pool[q].used /\ ~pool'[p].used

\* With the jobs left aside: list and pool after a clip is opened.
LEMMA GetsPool ==
    ASSUME Inv, NEW p \in Entries, NEW x \in Ids, x < idGen, NEW k, Gets(p, x, k),
           UNCHANGED <<list, speed, idGen>>, lock' \in Threads \cup {"free"}
    PROVE  ListTyped' /\ PoolTyped' /\ OpenHasId'
<1>1. ListTyped'
  BY DEF Inv, Typed, ListTyped
<1>2. 1 \in Entries /\ 2 \in Entries /\ x # None
  BY DEF Entries, Ids, None
<1>3. PoolTyped'
  <2>1. ~(pool'[1].used /\ pool'[2].used)
    BY <1>2 DEF Gets, Entries
  <2>2. \A q \in Entries : pool'[q].id < idGen'
    BY DEF Gets, Inv, Typed, PoolTyped
  <2> QED BY <2>1, <2>2 DEF Gets, PoolTyped
<1>4. OpenHasId'
  BY <1>2 DEF Gets, Inv, OpenHasId
<1> QED BY <1>1, <1>3, <1>4

LEMMA GetsApart ==
    ASSUME Inv, ~env.evicted, NEW p \in Entries, NEW x \in Ids, Gets(p, x, IndexOf(list, x)),
           \A q \in Entries \ {p} : pool[q].id # x, UNCHANGED <<list, speed>>
    PROVE  /\ Distinct'
           /\ \A q \in Entries : Stale(q)' => q # p /\ Stale(q)
           /\ ~env.wiped => SpeedKept'
<1>1. Distinct'
  BY DEF Distinct, Gets, Entries
<1>2. \A q \in Entries : Stale(q)' => q # p /\ Stale(q)
  BY DEF Stale, Gets
<1>3. ASSUME ~env.wiped PROVE SpeedKept'
  <2>1. SpeedKept
    BY <1>3 DEF Inv, InStep
  <2> QED BY <2>1 DEF SpeedKept, Gets
<1> QED BY <1>1, <1>2, <1>3

\* The open clip's mark stays when it is opened again, and no one is inside an empty entry.
LEMMA GetsMark ==
    ASSUME Inv, NEW p \in Entries, NEW x \in Ids, NEW k, Gets(p, x, k), pool[p].id \in {x, None},
           pool[p].id = x => pool'[p].mark = pool[p].mark,
           \A q \in Entries \ {p} : pool'[q].mark = pool[q].mark,
           refresh'.player = refresh.player, refresh'.gaveUp = refresh.gaveUp
    PROVE  MarkProtects'
<1> SUFFICES ASSUME Player # None, ~refresh.gaveUp PROVE pool'[Player].open /\ pool'[Player].mark
  BY DEF MarkProtects, Player
<1>1. Player \in Entries /\ pool[Player].open /\ pool[Player].mark /\ pool[Player].id # None
  BY DEF Inv, Typed, RefreshTyped, Player, MarkProtects, OpenHasId
<1>2. CASE Player = p
  BY <1>1, <1>2 DEF Gets
<1>3. CASE Player # p
  BY <1>1, <1>3 DEF Gets
<1> QED BY <1>2, <1>3

\* With the lock held, no other thread scans, opens or makes room.
LEMMA AloneInPool ==
    ASSUME Inv, NEW t \in Threads, lock = t, NEW u \in Threads \ {t}
    PROVE  /\ job[u].stage \notin {"scan", "open", "opennext"}
           /\ ~env.evicted => ~MakesRoom(u, "open") /\ ~MakesRoom(u, "opennext")
BY DEF Inv, LockHeld, InStep, Room, RoomFor, MakesRoom

LEMMA OpenClipKeeps == ASSUME NEW t \in Threads PROVE Inv /\ OpenClip(t) => Inv'
<1> SUFFICES ASSUME Inv, OpenClip(t) PROVE Inv'
  OBVIOUS
<1> DEFINE x == job[t].cur
           k == Qi(t, x)
           w == [job[t] EXCEPT !.stage = "opennext", !.entry = 0]
<1>1. PICK p \in Place(t, x) : pool' = InPlay(Opened(p, x, k, TRUE), p)
  BY DEF OpenClip
<1>2. /\ lock = t /\ t # "refresh" /\ job[t].stage \in {"scan", "open"}
      /\ job[t].stage = "scan" => ToRelease(t) = {}
  BY DEF OpenClip, Opens
<1>3. /\ job \in [Threads -> Job] /\ job[t] \in Job /\ idGen \in Nat /\ JobOk(t, job[t], idGen)
      /\ list \in Seq(Ids) /\ speed \in [Ids -> 1 .. 2]
  BY DEF Inv, Typed, JobsTyped, ListTyped
<1>4. x \in Ids /\ x < idGen /\ x # None
  BY <1>2, <1>3 DEF JobOk, Job
<1>5. UNCHANGED <<list, speed, idGen, lock, refresh, msgs, env>> /\ job' = [job EXCEPT ![t] = w]
  BY <1>3 DEF OpenClip
<1>6. /\ w \in Job /\ w.op = job[t].op /\ w.stage = "opennext" /\ w.entry = 0
      /\ w.cur = job[t].cur /\ w.next = job[t].next
  <2>1. job[t] \in Job /\ 0 \in 0 .. 2 /\ "opennext" \in Stages
    BY <1>3 DEF Stages
  <2> QED BY <2>1 DEF Job
<1> HIDE DEF x, k, w
<1>7. /\ p \in Entries /\ pool[p].id \in {x, None} /\ k \in Nat \cup {None}
      /\ ~env.evicted => k = IndexOf(list, x) /\ \A q \in Entries \ {p} : pool[q].id # x
  BY <1>1, <1>2, <1>4, PlaceFits DEF x, k
<1> DEFINE b == TRUE
           pl == Opened(p, x, k, b)
<1>8. /\ pl \in [Entries -> Entry] /\ \A q \in Entries \ {p} : pl[q] = pool[q]
      /\ pl[p].id = x /\ pl[p].qi = k /\ pl[p].open /\ pl[p].speed = speed[x]
      /\ pool[p].id = x => pl[p].mark = pool[p].mark
  <2>1. b \in BOOLEAN
    OBVIOUS
  <2> HIDE DEF b
  <2> QED BY <1>4, <1>7, <2>1, OpenedPool
<1>9. pool' = InPlay(pl, p)
  BY <1>1
<1> HIDE DEF pl
<1>10. /\ pool' \in [Entries -> Entry]
       /\ \A q \in Entries : /\ pool'[q].id = pl[q].id /\ pool'[q].qi = pl[q].qi /\ pool'[q].open = pl[q].open
                             /\ pool'[q].speed = pl[q].speed /\ pool'[q].mark = pl[q].mark
                             /\ pool'[q].used = (q = p)
  <2> DEFINE f(q) == [pl[q] EXCEPT !.used = q = p]
  <2>1. pool' = [q \in Entries |-> f(q)]
    BY <1>9 DEF InPlay
  <2>2. ASSUME NEW q \in Entries
        PROVE  /\ f(q) \in Entry /\ f(q).id = pl[q].id /\ f(q).qi = pl[q].qi /\ f(q).open = pl[q].open
               /\ f(q).speed = pl[q].speed /\ f(q).mark = pl[q].mark /\ f(q).used = (q = p)
    <3>1. pl[q] \in Entry /\ (q = p) \in BOOLEAN
      BY <1>8
    <3> QED BY <3>1 DEF Entry
  <2> HIDE DEF f
  <2> QED BY <2>1, <2>2
<1>11. Gets(p, x, k)
  <2>1. pool'[p].id = x /\ pool'[p].qi = k /\ pool'[p].open /\ pool'[p].speed = speed[x]
    BY <1>7, <1>8, <1>10
  <2>2. ASSUME NEW q \in Entries \ {p}
        PROVE  /\ pool'[q].id = pool[q].id /\ pool'[q].qi = pool[q].qi /\ pool'[q].open = pool[q].open
               /\ pool'[q].speed = pool[q].speed /\ ~pool'[q].used
    <3>1. q \in Entries /\ q # p /\ pl[q] = pool[q]
      BY <1>8
    <3> QED BY <1>10, <3>1
  <2> QED BY <1>10, <2>1, <2>2 DEF Gets
<1>12. ListTyped' /\ PoolTyped' /\ OpenHasId'
  BY <1>2, <1>4, <1>5, <1>7, <1>11, GetsPool
<1>13. JobsTyped' /\ job'[t] = w /\ \A u \in Threads \ {t} : job'[u] = job[u]
  <2>1. JobsTyped /\ idGen' = idGen /\ JobOk(t, w, idGen')
    BY <1>2, <1>3, <1>5, <1>6 DEF Inv, Typed, JobOk
  <2>2. idGen' \in Nat /\ idGen <= idGen'
    BY <1>3, <2>1
  <2> QED BY <1>3, <1>5, <1>6, <2>1, <2>2, JobTaken, Zenon
<1>14. EnvTyped' /\ RefreshTyped'
  BY <1>5 DEF Inv, Typed, EnvTyped, RefreshTyped
<1>15. LockHeld'
  BY <1>2, <1>5, <1>6, <1>13, AloneInPool DEF LockHeld
<1>16. Emptied'
  BY <1>2, <1>6, <1>13, AloneInPool DEF Emptied
<1>17. MarkProtects'
  BY <1>4, <1>5, <1>7, <1>8, <1>10, <1>11, GetsMark
<1>18. ASSUME ~env.evicted PROVE Room' /\ Distinct' /\ (~env.wiped => Seen' /\ SpeedKept')
  <2>1. /\ Distinct' /\ (~env.wiped => SpeedKept')
        /\ \A q \in Entries : Stale(q)' => q # p /\ Stale(q)
    BY <1>4, <1>5, <1>7, <1>11, <1>18, GetsApart
  <2>2. Room'
    BY <1>2, <1>6, <1>13, <1>18, AloneInPool DEF Room, MakesRoom
  <2>3. ASSUME ~env.wiped, NEW q \in Entries, Stale(q)'
        PROVE  \E u \in {"app", "loop"} : job'[u].op \in {"copy", "exchange"} /\ Unseen(u, q)'
    <3>1. q # p /\ Stale(q) /\ pool'[q].id = pool[q].id
      BY <1>8, <1>10, <2>1, <2>3
    <3>2. PICK u \in {"app", "loop"} : job[u].op \in {"copy", "exchange"} /\ Unseen(u, q)
      BY <1>18, <2>3, <3>1 DEF Inv, InStep, Seen
    <3>3. CASE u = t
      <4>1. pool[q].id # None /\ pool[q].id # x
        BY <1>7, <1>18, <3>1 DEF Stale, Inv, OpenHasId
      <4>2. pool[q].id = job[t].next
        BY <1>2, <3>2, <3>3, <4>1 DEF Unseen, ToRelease, x
      <4> QED BY <1>6, <1>13, <3>1, <3>2, <3>3, <4>2 DEF Unseen
    <3>4. CASE u # t
      <4>1. job'[u] = job[u]
        BY <1>13, <3>4 DEF Threads
      <4> QED BY <3>1, <3>2, <4>1 DEF Unseen
    <3> QED BY <3>3, <3>4
  <2> QED BY <2>1, <2>2, <2>3 DEF Seen
<1>19. InStep'
  BY <1>5, <1>18 DEF InStep
<1>20. Starting'
  BY <1>5, <1>6, <1>13 DEF Inv, Starting
<1> QED BY <1>20, <1>12, <1>13, <1>14, <1>15, <1>16, <1>17, <1>19 DEF Inv, Typed

\* The next clip waits in the other entry, and the prepare is done.
LEMMA OpenNextKeeps == ASSUME NEW t \in Threads PROVE Inv /\ OpenNext(t) => Inv'
<1> SUFFICES ASSUME Inv, OpenNext(t) PROVE Inv'
  OBVIOUS
<1> DEFINE x == job[t].next
           k == Qi(t, x)
           w == IF job[t].op = "seek" THEN [NoJob EXCEPT !.op = "seek", !.stage = "seek"] ELSE NoJob
           f(r) == IF job[t].op = "update" /\ r.used THEN [r EXCEPT !.paused = FALSE] ELSE r
           go(pl) == [q \in Entries |-> f(pl[q])]
<1>1. \/ x = None /\ pool' = go(pool)
      \/ x # None /\ \E p \in Place(t, x) : pool' = go([Opened(p, x, k, FALSE) EXCEPT ![p].paused = TRUE])
  BY DEF OpenNext
<1>2. lock = t /\ job[t].stage = "opennext" /\ lock' = "free"
  BY DEF OpenNext, Opens
<1>3. /\ job \in [Threads -> Job] /\ job[t] \in Job /\ idGen \in Nat /\ JobOk(t, job[t], idGen)
      /\ list \in Seq(Ids) /\ speed \in [Ids -> 1 .. 2] /\ pool \in [Entries -> Entry]
  BY DEF Inv, Typed, JobsTyped, ListTyped, PoolTyped
<1>4. x \in Ids \cup {None} /\ x < idGen
  BY <1>3 DEF JobOk, Job
<1>5. /\ UNCHANGED <<list, speed, idGen, msgs, env>> /\ job' = [job EXCEPT ![t] = w]
      /\ refresh' = IF job[t].op = "prepare" THEN [refresh EXCEPT !.at = "look"] ELSE refresh
  BY <1>3 DEF OpenNext
<1>6. /\ w \in Job /\ w.stage \in {"none", "seek"} /\ w.cur = None /\ w.next = None
      /\ \/ w.op = "seek" /\ job[t].op = "seek"
         \/ w.op = "none" /\ w.stage = "none"
  <2>1. NoJob \in Job /\ NoJob.stage = "none" /\ NoJob.op = "none" /\ NoJob.cur = None /\ NoJob.next = None
    BY DEF NoJob, Job, Stages
  <2> DEFINE n == NoJob
  <2>2. n \in Job /\ n.cur = None /\ n.next = None
    BY <2>1
  <2> HIDE DEF n
  <2> DEFINE v == [n EXCEPT !.op = "seek", !.stage = "seek"]
  <2>3. v \in Job /\ v.stage = "seek" /\ v.op = "seek" /\ v.cur = None /\ v.next = None
    BY <2>2 DEF Job, Stages
  <2>4. w = IF job[t].op = "seek" THEN v ELSE NoJob
    BY DEF n
  <2> HIDE DEF v, w
  <2> QED BY <2>1, <2>3, <2>4
<1>7. ASSUME NEW r \in Entry
      PROVE  /\ f(r) \in Entry /\ f(r).id = r.id /\ f(r).qi = r.qi /\ f(r).open = r.open
             /\ f(r).used = r.used /\ f(r).speed = r.speed /\ f(r).mark = r.mark
  BY <1>7 DEF Entry
<1> HIDE DEF x, k, w, f
<1>8. ListTyped'
  BY <1>2, <1>5 DEF Inv, Typed, ListTyped
<1>9. JobsTyped' /\ job'[t] = w /\ \A u \in Threads \ {t} : job'[u] = job[u]
  <2>1. JobsTyped /\ idGen' = idGen /\ JobOk(t, w, idGen')
    <3>1. None < idGen
      BY <1>3 DEF None
    <3> QED BY <1>3, <1>5, <1>6, <3>1 DEF Inv, Typed, JobOk
  <2>2. idGen' \in Nat /\ idGen <= idGen'
    BY <1>3, <2>1
  <2> QED BY <1>3, <1>5, <1>6, <2>1, <2>2, JobTaken, Zenon
<1>10. EnvTyped' /\ RefreshTyped' /\ refresh'.player = refresh.player /\ refresh'.gaveUp = refresh.gaveUp
  <2>1. job[t].op = "prepare" => refresh.at = "off"
    BY DEF Inv, Starting
  <2> QED BY <1>5, <2>1 DEF Inv, Typed, EnvTyped, RefreshTyped
<1>11. LockHeld'
  BY <1>2, <1>6, <1>9, AloneInPool DEF LockHeld
<1>12. Emptied'
  BY <1>2, <1>6, <1>9, AloneInPool DEF Emptied
<1>13. Starting'
  <2>1. JobOk("app", job["app"], idGen) /\ JobOk("loop", job["loop"], idGen) /\ JobOk("refresh", job["refresh"], idGen)
    BY DEF Inv, Typed, JobsTyped, Threads
  <2>2. ASSUME NEW u \in Threads, job'[u].op = "prepare" PROVE u = "app" /\ u # t /\ job[u].op = "prepare"
    BY <1>6, <1>9, <2>1, <2>2 DEF JobOk, Threads
  <2>3. (\E u \in Threads : job'[u].op = "prepare") => job[t].op # "prepare"
    BY <2>1, <2>2 DEF JobOk, Threads
  <2> QED BY <1>5, <2>2, <2>3 DEF Inv, Starting
<1>14. ~env.evicted => Room'
  BY <1>2, <1>6, <1>9, AloneInPool DEF Room, MakesRoom
<1>15. ASSUME ~env.evicted, ~env.wiped, NEW q \in Entries, Stale(q), pool'[q].id = pool[q].id, pool[q].id # x
       PROVE  \E u \in {"app", "loop"} : job'[u].op \in {"copy", "exchange"} /\ Unseen(u, q)'
  <2>1. PICK u \in {"app", "loop"} : job[u].op \in {"copy", "exchange"} /\ Unseen(u, q)
    BY <1>15 DEF Inv, InStep, Seen
  <2>2. u # t
    BY <1>2, <1>15, <2>1 DEF Unseen, x
  <2>3. job'[u] = job[u]
    BY <1>9, <2>2 DEF Threads
  <2> QED BY <1>15, <2>1, <2>3 DEF Unseen
<1>16. CASE x = None /\ pool' = go(pool)
  <2>1. /\ pool' \in [Entries -> Entry]
        /\ \A q \in Entries : /\ pool'[q].id = pool[q].id /\ pool'[q].qi = pool[q].qi /\ pool'[q].open = pool[q].open
                              /\ pool'[q].used = pool[q].used /\ pool'[q].speed = pool[q].speed
                              /\ pool'[q].mark = pool[q].mark
    BY <1>3, <1>7, <1>16
  <2>2. 1 \in Entries /\ 2 \in Entries
    BY DEF Entries
  <2>3. PoolTyped' /\ OpenHasId'
    BY <1>5, <2>1, <2>2 DEF Inv, Typed, PoolTyped, OpenHasId
  <2>4. MarkProtects'
    BY <1>10, <2>1 DEF Inv, Typed, RefreshTyped, MarkProtects, Player
  <2>5. ASSUME ~env.evicted PROVE Distinct' /\ (~env.wiped => Seen' /\ SpeedKept')
    <3>1. Distinct'
      BY <2>1, <2>2, <2>5 DEF Inv, InStep, Distinct
    <3>2. ~env.wiped => SpeedKept'
      BY <1>5, <2>1, <2>5 DEF Inv, InStep, SpeedKept
    <3>3. ASSUME NEW q \in Entries, Stale(q)' PROVE Stale(q) /\ pool'[q].id = pool[q].id /\ pool[q].id # x
      BY <1>5, <1>16, <2>1, <3>3 DEF Stale, Inv, OpenHasId
    <3> QED BY <1>15, <2>5, <3>1, <3>2, <3>3 DEF Seen
  <2>6. InStep'
    BY <1>5, <1>14, <2>5 DEF InStep
  <2> QED BY <1>8, <1>9, <1>10, <1>11, <1>12, <1>13, <2>3, <2>4, <2>6 DEF Inv, Typed
<1>17. CASE x # None /\ \E p \in Place(t, x) : pool' = go([Opened(p, x, k, FALSE) EXCEPT ![p].paused = TRUE])
  <2>1. PICK p \in Place(t, x) : pool' = go([Opened(p, x, k, FALSE) EXCEPT ![p].paused = TRUE])
    BY <1>17
  <2>2. x \in Ids
    BY <1>4, <1>17
  <2>3. /\ p \in Entries /\ pool[p].id \in {x, None} /\ k \in Nat \cup {None}
        /\ ~env.evicted => k = IndexOf(list, x) /\ \A q \in Entries \ {p} : pool[q].id # x
    BY <1>2, <2>1, <2>2, PlaceFits DEF x, k
  <2> DEFINE b == FALSE
             pl == Opened(p, x, k, b)
             pq == [pl EXCEPT ![p].paused = TRUE]
  <2>4. /\ pl \in [Entries -> Entry] /\ \A q \in Entries \ {p} : pl[q] = pool[q]
        /\ pl[p].id = x /\ pl[p].qi = k /\ pl[p].open /\ pl[p].used = b /\ pl[p].speed = speed[x]
        /\ pool[p].id = x => pl[p].mark = pool[p].mark
    <3>1. b \in BOOLEAN
      OBVIOUS
    <3> HIDE DEF b
    <3> QED BY <2>2, <2>3, <3>1, OpenedPool
  <2>5. pool' = go(pq)
    BY <2>1
  <2> HIDE DEF pl
  <2>6. /\ pq \in [Entries -> Entry]
        /\ \A q \in Entries : /\ pq[q].id = pl[q].id /\ pq[q].qi = pl[q].qi /\ pq[q].open = pl[q].open
                              /\ pq[q].used = pl[q].used /\ pq[q].speed = pl[q].speed /\ pq[q].mark = pl[q].mark
    BY <2>3, <2>4 DEF Entry
  <2> HIDE DEF pq
  <2>7. /\ pool' \in [Entries -> Entry]
        /\ \A q \in Entries : /\ pool'[q].id = pl[q].id /\ pool'[q].qi = pl[q].qi /\ pool'[q].open = pl[q].open
                              /\ pool'[q].used = pl[q].used /\ pool'[q].speed = pl[q].speed
                              /\ pool'[q].mark = pl[q].mark
    <3>1. /\ pool' \in [Entries -> Entry]
          /\ \A q \in Entries : /\ pool'[q].id = pq[q].id /\ pool'[q].qi = pq[q].qi /\ pool'[q].open = pq[q].open
                                /\ pool'[q].used = pq[q].used /\ pool'[q].speed = pq[q].speed
                                /\ pool'[q].mark = pq[q].mark
      BY <1>7, <2>5, <2>6
    <3> QED BY <2>6, <3>1
  <2>8. Gets(p, x, k)
    BY <2>3, <2>4, <2>7 DEF Gets
  <2>9. PoolTyped' /\ OpenHasId'
    BY <1>2, <1>4, <1>5, <2>2, <2>3, <2>8, GetsPool
  <2>10. MarkProtects'
    BY <1>10, <2>2, <2>3, <2>4, <2>7, <2>8, GetsMark
  <2>11. ASSUME ~env.evicted PROVE Distinct' /\ (~env.wiped => Seen' /\ SpeedKept')
    <3>1. /\ Distinct' /\ (~env.wiped => SpeedKept')
          /\ \A q \in Entries : Stale(q)' => q # p /\ Stale(q)
      BY <1>5, <2>2, <2>3, <2>8, <2>11, GetsApart
    <3>2. ASSUME NEW q \in Entries, Stale(q)' PROVE Stale(q) /\ pool'[q].id = pool[q].id /\ pool[q].id # x
      BY <2>3, <2>4, <2>7, <2>11, <3>1, <3>2
    <3> QED BY <1>15, <2>11, <3>1, <3>2 DEF Seen
  <2>12. InStep'
    BY <1>5, <1>14, <2>11 DEF InStep
  <2> QED BY <1>8, <1>9, <1>10, <1>11, <1>12, <1>13, <2>9, <2>10, <2>12 DEF Inv, Typed
<1> QED BY <1>1, <1>16, <1>17

\* The refresh thread has the next clip open: it plays, and the old one loses its mark.
LEMMA SwitchedKeeps == Inv /\ Switched => Inv'
<1> SUFFICES ASSUME Inv, Switched PROVE Inv'
  OBVIOUS
<1> DEFINE t == "refresh"
           x == job[t].cur
           k == Qi(t, x)
           g == refresh.from
<1>1. PICK p \in Place(t, x) :
        pool' = [InPlay(Opened(p, x, k, TRUE), p) EXCEPT ![p].paused = FALSE, ![g].mark = FALSE]
  BY DEF Switched
<1>2. /\ lock = t /\ t \in Threads /\ job[t].stage \in {"scan", "open"} /\ refresh.at = "open"
      /\ lock' = "free" /\ g \in Entries
  BY DEF Switched, Opens, Threads, Inv, Typed, RefreshTyped
<1>3. /\ job \in [Threads -> Job] /\ job[t] \in Job /\ idGen \in Nat /\ JobOk(t, job[t], idGen)
      /\ list \in Seq(Ids) /\ speed \in [Ids -> 1 .. 2]
  BY <1>2 DEF Inv, Typed, JobsTyped, ListTyped
<1>4. x \in Ids /\ x < idGen /\ x # None
  BY <1>2, <1>3 DEF JobOk, Job
<1>5. /\ UNCHANGED <<list, speed, idGen, msgs, env>> /\ job' = [job EXCEPT ![t] = NoJob]
      /\ refresh' = [refresh EXCEPT !.at = "post", !.gaveUp = TRUE]
  BY DEF Switched
<1>6. /\ NoJob \in Job /\ NoJob.op = "none" /\ NoJob.stage = "none" /\ NoJob.cur = None /\ NoJob.next = None
  BY DEF NoJob, Job, Stages
<1> HIDE DEF t, x, k, g
<1>7. /\ p \in Entries /\ pool[p].id \in {x, None} /\ k \in Nat \cup {None}
      /\ ~env.evicted => k = IndexOf(list, x) /\ \A q \in Entries \ {p} : pool[q].id # x
  BY <1>1, <1>2, <1>4, PlaceFits DEF x, k
<1> DEFINE b == TRUE
           pl == Opened(p, x, k, b)
<1>8. /\ pl \in [Entries -> Entry] /\ \A q \in Entries \ {p} : pl[q] = pool[q]
      /\ pl[p].id = x /\ pl[p].qi = k /\ pl[p].open /\ pl[p].speed = speed[x]
  <2>1. b \in BOOLEAN
    OBVIOUS
  <2> HIDE DEF b
  <2> QED BY <1>4, <1>7, <2>1, OpenedPool
<1>9. pool' = [InPlay(pl, p) EXCEPT ![p].paused = FALSE, ![g].mark = FALSE]
  BY <1>1
<1> HIDE DEF pl
<1> DEFINE pq == InPlay(pl, p)
<1>10. /\ pq \in [Entries -> Entry]
       /\ \A q \in Entries : /\ pq[q].id = pl[q].id /\ pq[q].qi = pl[q].qi /\ pq[q].open = pl[q].open
                             /\ pq[q].speed = pl[q].speed /\ pq[q].used = (q = p)
  <2> DEFINE f(q) == [pl[q] EXCEPT !.used = q = p]
  <2>1. pq = [q \in Entries |-> f(q)]
    BY DEF InPlay
  <2>2. ASSUME NEW q \in Entries
        PROVE  /\ f(q) \in Entry /\ f(q).id = pl[q].id /\ f(q).qi = pl[q].qi /\ f(q).open = pl[q].open
               /\ f(q).speed = pl[q].speed /\ f(q).used = (q = p)
    <3>1. pl[q] \in Entry /\ (q = p) \in BOOLEAN
      BY <1>8
    <3> QED BY <3>1 DEF Entry
  <2> HIDE DEF f, pq
  <2> QED BY <2>1, <2>2
<1> HIDE DEF pq
<1>11. /\ pool' \in [Entries -> Entry]
       /\ \A q \in Entries : /\ pool'[q].id = pq[q].id /\ pool'[q].qi = pq[q].qi /\ pool'[q].open = pq[q].open
                             /\ pool'[q].speed = pq[q].speed /\ pool'[q].used = pq[q].used
  <2> DEFINE pr == [pq EXCEPT ![p].paused = FALSE]
  <2>1. /\ pr \in [Entries -> Entry]
        /\ \A q \in Entries : /\ pr[q].id = pq[q].id /\ pr[q].qi = pq[q].qi /\ pr[q].open = pq[q].open
                              /\ pr[q].speed = pq[q].speed /\ pr[q].used = pq[q].used
    BY <1>7, <1>10 DEF Entry
  <2>2. pool' = [pr EXCEPT ![g].mark = FALSE]
    BY <1>9 DEF pq
  <2> HIDE DEF pr
  <2> QED BY <1>2, <2>1, <2>2 DEF Entry
<1>12. Gets(p, x, k)
  <2>1. \A q \in Entries \ {p} : ~pool'[q].used
    <3> SUFFICES ASSUME NEW q \in Entries \ {p} PROVE ~pool'[q].used
      OBVIOUS
    <3>1. pool'[q].used = pq[q].used /\ pq[q].used = (q = p)
      BY <1>10, <1>11
    <3> QED BY <3>1
  <2>2. \A q \in Entries : /\ pool'[q].id = pl[q].id /\ pool'[q].qi = pl[q].qi /\ pool'[q].open = pl[q].open
                          /\ pool'[q].speed = pl[q].speed
    BY <1>10, <1>11
  <2> QED BY <1>7, <1>8, <1>11, <2>1, <2>2 DEF Gets
<1>13. ListTyped' /\ PoolTyped' /\ OpenHasId'
  BY <1>2, <1>4, <1>5, <1>7, <1>12, GetsPool
<1>14. JobsTyped' /\ job'[t] = NoJob /\ \A u \in Threads \ {t} : job'[u] = job[u]
  <2>1. JobsTyped /\ idGen' = idGen /\ JobOk(t, NoJob, idGen')
    <3>1. None < idGen
      BY <1>3 DEF None
    <3> QED BY <1>2, <1>3, <1>5, <1>6, <3>1 DEF Inv, Typed, JobOk
  <2>2. idGen' \in Nat /\ idGen <= idGen'
    BY <1>3, <2>1
  <2> QED BY <1>2, <1>3, <1>5, <1>6, <2>1, <2>2, JobTaken, Zenon
<1>15. EnvTyped' /\ RefreshTyped'
  BY <1>2, <1>5 DEF Inv, Typed, EnvTyped, RefreshTyped, g, None, Entries
<1>16. LockHeld'
  BY <1>2, <1>6, <1>14, AloneInPool DEF LockHeld
<1>17. Emptied'
  BY <1>2, <1>6, <1>14, AloneInPool DEF Emptied
<1>18. MarkProtects'
  BY <1>5 DEF MarkProtects, Player, Inv, Typed, RefreshTyped
<1>19. Starting'
  BY <1>2, <1>5, <1>6, <1>14 DEF Inv, Starting
<1>20. ASSUME ~env.evicted PROVE Room' /\ Distinct' /\ (~env.wiped => Seen' /\ SpeedKept')
  <2>1. /\ Distinct' /\ (~env.wiped => SpeedKept')
        /\ \A q \in Entries : Stale(q)' => q # p /\ Stale(q)
    BY <1>4, <1>5, <1>7, <1>12, <1>20, GetsApart
  <2>2. Room'
    BY <1>2, <1>6, <1>14, <1>20, AloneInPool DEF Room, MakesRoom
  <2>3. ASSUME ~env.wiped, NEW q \in Entries, Stale(q)'
        PROVE  \E u \in {"app", "loop"} : job'[u].op \in {"copy", "exchange"} /\ Unseen(u, q)'
    <3>1. q # p /\ Stale(q) /\ pool'[q].id = pool[q].id
      BY <1>8, <1>10, <1>11, <2>1, <2>3
    <3>2. PICK u \in {"app", "loop"} : job[u].op \in {"copy", "exchange"} /\ Unseen(u, q)
      BY <1>20, <2>3, <3>1 DEF Inv, InStep, Seen
    <3>3. job'[u] = job[u]
      BY <1>14 DEF Threads, t
    <3> QED BY <3>1, <3>2, <3>3 DEF Unseen
  <2> QED BY <2>1, <2>2, <2>3 DEF Seen
<1>21. InStep'
  BY <1>5, <1>20 DEF InStep
<1> QED BY <1>13, <1>14, <1>15, <1>16, <1>17, <1>18, <1>19, <1>21 DEF Inv, Typed

-----------------------------------------------------------------------------
(* Beginning a prepare or a switch.                                        *)

LEMMA NoMover ==
    ASSUME Inv, ~env.evicted, ~env.wiped, job["app"].op # "copy", job["loop"].op # "exchange"
    PROVE  \A p \in Entries : ~Stale(p)
<1>1. job["app"].op \notin {"copy", "exchange"} /\ job["loop"].op \notin {"copy", "exchange"}
  BY DEF Inv, Typed, JobsTyped, JobOk, Threads
<1> QED BY <1>1 DEF Inv, InStep, Seen

\* With the lock free nobody scans, opens or makes room.
LEMMA NobodyInPool ==
    ASSUME Inv, lock = "free", NEW u \in Threads
    PROVE  /\ job[u].stage \notin {"scan", "open", "opennext"}
           /\ ~env.evicted => ~MakesRoom(u, "open") /\ ~MakesRoom(u, "opennext")
BY DEF Inv, LockHeld, InStep, Room, RoomFor, MakesRoom, Threads

\* A thread that takes the lock for a prepare or a switch.
LEMMA StartKeeps ==
    ASSUME Inv, lock = "free", NEW t \in Threads, job[t].op \notin {"copy", "exchange"},
           NEW j \in Job, JobOk(t, j, idGen'), j.entry = 0, j.stage \in {"scan", "open"},
           j.op = "prepare" => refresh.at = "off",
           job' = [job EXCEPT ![t] = j], lock' = t,
           SameEntries, SameGhosts, ListTyped', idGen <= idGen',
           RefreshTyped', EnvTyped', MarkProtects', refresh.at = "off" => refresh' = refresh,
           \/ UNCHANGED <<list, speed>>
           \/ /\ t \in {"app", "loop"} /\ j.op \in {"copy", "exchange"} /\ j.stage = "scan"
              /\ ~env.evicted /\ ~env.wiped => SpeedKept'
    PROVE  Inv'
<1>0. 1 \in Entries /\ 2 \in Entries /\ idGen \in Nat /\ idGen' \in Nat
  BY DEF Entries, Inv, Typed, ListTyped
<1>1. JobsTyped' /\ job'[t] = j /\ \A u \in Threads \ {t} : job'[u] = job[u]
  <2>1. JobsTyped
    BY DEF Inv, Typed
  <2> QED BY <1>0, <2>1, JobTaken, Zenon
<1>2. PoolTyped' /\ OpenHasId'
  <2>1. \A p \in Entries : pool'[p].id < idGen'
    <3> SUFFICES ASSUME NEW p \in Entries PROVE pool'[p].id < idGen'
      OBVIOUS
    <3>1. pool'[p].id < idGen /\ pool'[p].id \in Int
      BY DEF SameEntries, Inv, Typed, PoolTyped, Entry, Ids, None
    <3> QED BY <1>0, <3>1
  <2>2. ~(pool'[1].used /\ pool'[2].used)
    BY <1>0 DEF SameEntries, Inv, Typed, PoolTyped
  <2> QED BY <2>1, <2>2 DEF SameEntries, PoolTyped, Inv, OpenHasId
<1>3. LockHeld' /\ Emptied'
  BY <1>1, NobodyInPool DEF LockHeld, Emptied
<1>4. Starting'
  <2>1. ASSUME NEW u \in Threads, job'[u].op = "prepare" PROVE refresh.at = "off"
    BY <1>1, <2>1 DEF Inv, Starting
  <2> QED BY <2>1 DEF Starting
<1>5. ASSUME ~env.evicted PROVE Room' /\ Distinct'
  <2>1. Room'
    BY <1>1, <1>5, NobodyInPool DEF Room, MakesRoom
  <2>2. Distinct'
    BY <1>0, <1>5 DEF Inv, InStep, Distinct, SameEntries
  <2> QED BY <2>1, <2>2
<1>6. ASSUME ~env.evicted, ~env.wiped PROVE Seen' /\ SpeedKept'
  <2>1. SpeedKept'
    BY <1>6 DEF Inv, InStep, SpeedKept, SameEntries
  <2>2. CASE UNCHANGED <<list, speed>>
    <3>1. ASSUME NEW q \in Entries, Stale(q)'
          PROVE  \E u \in {"app", "loop"} : job'[u].op \in {"copy", "exchange"} /\ Unseen(u, q)'
      <4>1. Stale(q) /\ pool'[q].id = pool[q].id
        BY <2>2, <3>1 DEF Stale, SameEntries
      <4>2. PICK u \in {"app", "loop"} : job[u].op \in {"copy", "exchange"} /\ Unseen(u, q)
        BY <1>6, <4>1 DEF Inv, InStep, Seen
      <4>3. job'[u] = job[u]
        BY <1>1, <4>2 DEF Threads
      <4> QED BY <4>1, <4>2, <4>3 DEF Unseen
    <3> QED BY <2>1, <3>1 DEF Seen
  <2>3. CASE t \in {"app", "loop"} /\ j.op \in {"copy", "exchange"} /\ j.stage = "scan"
    <3>1. \A q \in Entries : Unseen(t, q)'
      BY <1>1, <2>3 DEF Unseen, Entries
    <3> QED BY <1>1, <2>1, <2>3, <3>1 DEF Seen
  <2> QED BY <2>2, <2>3
<1>7. InStep'
  BY <1>5, <1>6 DEF InStep, SameGhosts
<1> QED BY <1>1, <1>2, <1>3, <1>4, <1>7 DEF Inv, Typed

\* A job is written as NoJob with some fields set.
NewJob(op, stage, c, n) == [NoJob EXCEPT !.op = op, !.stage = stage, !.cur = c, !.next = n]

LEMMA JobMade ==
    ASSUME NEW op \in {"none", "prepare", "copy", "seek", "update", "exchange", "switch"}, NEW stage \in Stages,
           NEW c \in Ids \cup {None}, NEW n \in Ids \cup {None}
    PROVE  /\ NewJob(op, stage, c, n) \in Job
           /\ NewJob(op, stage, c, n).op = op /\ NewJob(op, stage, c, n).stage = stage
           /\ NewJob(op, stage, c, n).entry = 0 /\ NewJob(op, stage, c, n).back = "none"
           /\ NewJob(op, stage, c, n).cur = c /\ NewJob(op, stage, c, n).next = n
<1> DEFINE a == NoJob
<1>1. a \in Job /\ a.entry = 0 /\ a.back = "none"
  BY DEF NoJob, Job, Stages
<1> HIDE DEF a
<1> DEFINE d == [a EXCEPT !.op = op, !.stage = stage]
<1>2. d \in Job /\ d.entry = 0 /\ d.back = "none" /\ d.op = op /\ d.stage = stage
  BY <1>1 DEF Job
<1> HIDE DEF d
<1> DEFINE e == [d EXCEPT !.cur = c, !.next = n]
<1>3. e \in Job /\ e.entry = 0 /\ e.back = "none" /\ e.op = op /\ e.stage = stage /\ e.cur = c /\ e.next = n
  BY <1>2 DEF Job
<1>4. NewJob(op, stage, c, n) = e
  BY DEF a, d, NewJob
<1> HIDE DEF e
<1> QED BY <1>3, <1>4

\* The clip after the one that ended is opened, or there is none by now.
LEMMA SwitchOnKeeps == Inv /\ SwitchOn => Inv'
<1> SUFFICES ASSUME Inv, SwitchOn PROVE Inv'
  OBVIOUS
<1> DEFINE p == PlayEntry
           c == ClipAt(list, pool[p].qi + 1)
           j == [NoJob EXCEPT !.op = "switch", !.stage = "open", !.cur = c]
           at == IF c = None THEN "post" ELSE "open"
<1>1. p \in Entries /\ pool[p] \in Entry /\ pool \in [Entries -> Entry]
  BY PlayEntryUsed DEF Inv, Typed, PoolTyped, SwitchOn
<1>2. /\ pool' = [pool EXCEPT ![p] = [pool[p] EXCEPT !.paused = TRUE]] /\ lock = "free" /\ refresh.at = "switch"
      /\ refresh' = [refresh EXCEPT !.at = at, !.from = p]
      /\ UNCHANGED <<list, speed, idGen, msgs>>
      /\ \E b \in BOOLEAN : env' = [env EXCEPT !.gone = b]
  BY <1>1 DEF SwitchOn
<1>3. \/ c = None /\ UNCHANGED <<lock, job>>
      \/ c # None /\ job' = [job EXCEPT !["refresh"] = j] /\ lock' = "refresh"
  BY DEF SwitchOn
<1>4. /\ list \in Seq(Ids) /\ idGen \in Nat /\ (\A i \in 1 .. Len(list) : list[i] < idGen)
      /\ ListTyped /\ RefreshTyped /\ EnvTyped
  BY DEF Inv, Typed, ListTyped
<1>5. c # None => c \in Ids /\ c < idGen
  BY <1>4 DEF ClipAt
<1>6. at \in {"post", "open"}
  OBVIOUS
<1> HIDE DEF c, at, p
<1>7. SameEntries /\ \A q \in Entries : pool'[q].mark = pool[q].mark
  BY <1>1, <1>2 DEF SameEntries, Entry
<1>8. RefreshTyped' /\ refresh'.player = refresh.player /\ refresh'.gaveUp = refresh.gaveUp
  <2>1. refresh'.at = at /\ refresh'.from = p
    BY <1>2, <1>4 DEF RefreshTyped
  <2> QED BY <1>1, <1>2, <1>4, <1>6, <2>1 DEF RefreshTyped
<1>9. EnvTyped' /\ SameGhosts /\ ListTyped'
  <2>1. EnvTyped' /\ SameGhosts
    BY <1>2, <1>4 DEF EnvTyped, SameGhosts
  <2>2. ListTyped'
    BY <1>2, <1>3, <1>4 DEF ListTyped, Threads
  <2> QED BY <2>1, <2>2
<1>10. MarkProtects'
  BY <1>7, <1>8 DEF MarkProtects, Player, Inv, Typed, RefreshTyped, SameEntries
<1>11. CASE c = None /\ UNCHANGED <<lock, job>>
  BY <1>2, <1>7, <1>8, <1>9, <1>10, <1>11, QuietKeeps
<1>12. CASE c # None /\ job' = [job EXCEPT !["refresh"] = j] /\ lock' = "refresh"
  <2>1. /\ j \in Job /\ j.op = "switch" /\ j.stage = "open" /\ j.entry = 0 /\ j.cur = c /\ j.next = None
    <3>1. c \in Ids \cup {None}
      BY <1>5, <1>12
    <3> DEFINE a == NoJob
    <3>2. a \in Job /\ a.entry = 0 /\ a.next = None
      BY DEF NoJob, Job, Stages
    <3> HIDE DEF a
    <3> DEFINE d == [a EXCEPT !.op = "switch", !.stage = "open"]
    <3>3. d \in Job /\ d.entry = 0 /\ d.next = None /\ d.op = "switch" /\ d.stage = "open"
      BY <3>2 DEF Job, Stages
    <3>4. j = [d EXCEPT !.cur = c]
      BY DEF a
    <3> HIDE DEF d, j
    <3> QED BY <3>1, <3>3, <3>4 DEF Job
  <2> HIDE DEF j
  <2>2. JobOk("refresh", j, idGen') /\ idGen <= idGen'
    BY <1>2, <1>4, <1>5, <1>12, <2>1 DEF JobOk, None
  <2>3. "refresh" \in Threads /\ job["refresh"].op \notin {"copy", "exchange"}
    BY DEF Threads, Inv, Typed, JobsTyped, JobOk
  <2> QED BY <1>2, <1>7, <1>8, <1>9, <1>10, <1>12, <2>1, <2>2, <2>3, StartKeeps
<1> QED BY <1>3, <1>11, <1>12

-----------------------------------------------------------------------------
(* The message loop.                                                       *)

\* The job that clip_op_prepare begins.
LEMMA PreparedJob ==
    ASSUME NEW t \in {"app", "loop"}, NEW op \in {"prepare", "copy", "seek", "update", "exchange"}, NEW l \in Seq(Ids),
           NEW k \in Nat, k < Len(l), NEW g \in Nat, \A i \in 1 .. Len(l) : l[i] < g,
           t = "app" => op \in {"prepare", "copy"}, t = "loop" => op \in {"seek", "update", "exchange"}
    PROVE  LET j == NewJob(op, "scan", l[k + 1], IF Len(l) > 1 THEN l[((k + 1) % Len(l)) + 1] ELSE None) IN
           j \in Job /\ JobOk(t, j, g) /\ j.entry = 0 /\ j.stage = "scan" /\ j.op = op
<1> DEFINE c == l[k + 1]
           n == IF Len(l) > 1 THEN l[((k + 1) % Len(l)) + 1] ELSE None
           v == NewJob(op, "scan", c, n)
<1>1. c \in Ids /\ c < g /\ c # None
  <2>1. k + 1 \in 1 .. Len(l)
    OBVIOUS
  <2>2. c \in Ids /\ c < g
    BY <2>1
  <2> HIDE DEF c
  <2> QED BY <2>2 DEF Ids, None
<1>2. n \in Ids \cup {None} /\ n < g
  <2>1. CASE Len(l) > 1
    <3>1. (k + 1) % Len(l) \in 0 .. Len(l) - 1
      BY <2>1
    <3>2. ((k + 1) % Len(l)) + 1 \in 1 .. Len(l)
      BY <2>1, <3>1
    <3> HIDE DEF c
    <3> QED BY <2>1, <3>2
  <2>2. CASE ~(Len(l) > 1)
    BY <2>2 DEF None
  <2> QED BY <2>1, <2>2
<1> HIDE DEF c, n
<1>3. v \in Job /\ v.op = op /\ v.stage = "scan" /\ v.entry = 0 /\ v.cur = c /\ v.next = n
  <2>1. "scan" \in Stages /\ c \in Ids \cup {None}
    BY <1>1 DEF Stages
  <2>2. op \in {"none", "prepare", "copy", "seek", "update", "exchange", "switch"} /\ n \in Ids \cup {None}
    BY <1>2
  <2> QED BY <2>1, <2>2, JobMade
<1> HIDE DEF v
<1>4. JobOk(t, v, g)
  BY <1>1, <1>2, <1>3 DEF JobOk
<1> QED BY <1>3, <1>4 DEF v, c, n

\* clip_op_prepare for index k of the list, or of the list as it is changed.
LEMMA PrepareKeeps ==
    ASSUME Inv, lock = "free", NEW t \in {"app", "loop"}, job[t].op \notin {"copy", "exchange"},
           NEW op \in {"prepare", "copy", "seek", "update", "exchange"},
           t = "app" => op \in {"prepare", "copy"}, t = "loop" => op \in {"seek", "update", "exchange"},
           op = "prepare" => refresh.at = "off",
           NEW l \in Seq(Ids), l = list', NEW k \in Nat, k < Len(l), Prepare(t, op, l, k),
           UNCHANGED <<pool, refresh>>, SameGhosts, ListTyped', idGen <= idGen', EnvTyped',
           \/ UNCHANGED <<list, speed>>
           \/ op \in {"copy", "exchange"} /\ (~env.evicted /\ ~env.wiped => SpeedKept')
    PROVE  Inv'
<1> DEFINE j == NewJob(op, "scan", l[k + 1], IF Len(l) > 1 THEN l[((k + 1) % Len(l)) + 1] ELSE None)
<1>1. job' = [job EXCEPT ![t] = j] /\ lock' = t
  BY DEF Prepare, NewJob
<1>2. idGen' \in Nat /\ \A i \in 1 .. Len(l) : l[i] < idGen'
  BY DEF ListTyped
<1>3. j \in Job /\ JobOk(t, j, idGen') /\ j.entry = 0 /\ j.stage = "scan" /\ j.op = op
  BY <1>2, PreparedJob
<1> HIDE DEF j
<1>4. SameEntries
  BY DEF SameEntries, Inv, Typed, PoolTyped
<1>5. RefreshTyped' /\ MarkProtects'
  BY DEF Inv, Typed, RefreshTyped, MarkProtects, Player
<1>6. t \in Threads /\ j.stage \in {"scan", "open"} /\ (j.op = "prepare" => refresh.at = "off")
  BY <1>3 DEF Threads
<1>7. CASE UNCHANGED <<list, speed>>
  BY <1>1, <1>3, <1>4, <1>5, <1>6, <1>7, StartKeeps
<1>8. CASE op \in {"copy", "exchange"} /\ (~env.evicted /\ ~env.wiped => SpeedKept')
  <2>1. t \in {"app", "loop"} /\ j.op \in {"copy", "exchange"} /\ j.stage = "scan"
    BY <1>3, <1>8
  <2> QED BY <1>1, <1>3, <1>4, <1>5, <1>6, <1>8, <2>1, StartKeeps
<1> QED BY <1>7, <1>8

\* The loop takes the message at the head.
LEMMA Taken ==
    ASSUME Inv, NEW what, LoopTakes(what), msgs' = Tail(msgs), UNCHANGED env
    PROVE  /\ Head(msgs) \in Message /\ lock = "free" /\ job["loop"].op = "none"
           /\ EnvTyped' /\ SameGhosts
BY DEF Inv, Typed, EnvTyped, LoopTakes, SameGhosts

LEMMA LoopSeekKeeps == Inv /\ LoopSeek => Inv'
<1> SUFFICES ASSUME Inv, LoopSeek PROVE Inv'
  OBVIOUS
<1> DEFINE k == Head(msgs).i
<1>1. /\ LoopTakes("seek") /\ msgs' = Tail(msgs) /\ UNCHANGED <<list, speed, idGen, pool, refresh, env>>
      /\ \/ k < Len(list) /\ Prepare("loop", "seek", list, k)
         \/ UNCHANGED <<lock, job>>
  BY DEF LoopSeek
<1>2. Head(msgs) \in Message /\ lock = "free" /\ job["loop"].op = "none" /\ EnvTyped' /\ SameGhosts
  BY <1>1, Taken
<1>3. k \in Nat /\ list \in Seq(Ids) /\ list' = list /\ idGen <= idGen' /\ ListTyped
  BY <1>1, <1>2 DEF Message, Inv, Typed, ListTyped
<1> HIDE DEF k
<1>4. CASE k < Len(list) /\ Prepare("loop", "seek", list, k)
  <2>1. lock' \in Threads \cup {"free"}
    BY <1>4 DEF Prepare, Threads
  <2>2. ListTyped'
    BY <1>1, <1>3, <2>1 DEF ListTyped
  <2> QED BY <1>1, <1>2, <1>3, <1>4, <2>2, PrepareKeeps
<1>5. CASE UNCHANGED <<lock, job>>
  <2>1. RefreshTyped' /\ MarkProtects'
    BY <1>1 DEF Inv, Typed, RefreshTyped, MarkProtects, Player
  <2> QED BY <1>1, <1>2, <1>5, <2>1, UntouchedKeeps
<1> QED BY <1>1, <1>4, <1>5

\* The clip in play may go on.
LEMMA PausedOnly ==
    ASSUME Inv, NEW v \in BOOLEAN,
           pool' = [p \in Entries |-> IF p = PlayEntry THEN [pool[p] EXCEPT !.paused = v] ELSE pool[p]],
           UNCHANGED refresh
    PROVE  SameEntries /\ MarkProtects' /\ RefreshTyped'
<1> DEFINE f(p) == IF p = PlayEntry THEN [pool[p] EXCEPT !.paused = v] ELSE pool[p]
<1>1. ASSUME NEW p \in Entries
      PROVE  /\ f(p) \in Entry /\ f(p).id = pool[p].id /\ f(p).qi = pool[p].qi /\ f(p).open = pool[p].open
             /\ f(p).used = pool[p].used /\ f(p).speed = pool[p].speed /\ f(p).mark = pool[p].mark
  <2>1. pool[p] \in Entry
    BY DEF Inv, Typed, PoolTyped
  <2> QED BY <2>1 DEF Entry
<1>2. pool' = [p \in Entries |-> f(p)]
  OBVIOUS
<1> HIDE DEF f
<1>3. /\ pool' \in [Entries -> Entry]
      /\ \A p \in Entries : /\ pool'[p].id = pool[p].id /\ pool'[p].qi = pool[p].qi /\ pool'[p].open = pool[p].open
                            /\ pool'[p].used = pool[p].used /\ pool'[p].speed = pool[p].speed
                            /\ pool'[p].mark = pool[p].mark
  BY <1>1, <1>2
<1>4. SameEntries
  BY <1>3 DEF SameEntries
<1>5. MarkProtects' /\ RefreshTyped'
  BY <1>3 DEF Inv, Typed, RefreshTyped, MarkProtects, Player
<1> QED BY <1>4, <1>5

LEMMA LoopSoughtKeeps == Inv /\ LoopSought => Inv'
<1> SUFFICES ASSUME Inv, LoopSought PROVE Inv'
  OBVIOUS
<1>0. 1 \in Entries /\ 2 \in Entries /\ "loop" \in Threads /\ idGen \in Nat /\ idGen <= idGen /\ JobsTyped
  BY DEF Entries, Threads, Inv, Typed, ListTyped
<1>1. PICK v \in BOOLEAN :
        pool' = [p \in Entries |-> IF p = PlayEntry THEN [pool[p] EXCEPT !.paused = v] ELSE pool[p]]
  BY DEF LoopSought
<1>2. /\ UNCHANGED <<list, speed, idGen, lock, refresh, msgs, env>>
      /\ job["loop"].stage = "seek" /\ job' = [job EXCEPT !["loop"] = NoJob]
  BY DEF LoopSought
<1>3. SameEntries /\ MarkProtects' /\ RefreshTyped'
  BY <1>1, <1>2, PausedOnly
<1>4. ListTyped' /\ PoolTyped' /\ OpenHasId'
  BY <1>2, <1>3, SamePool
<1>5. /\ NoJob \in Job /\ NoJob.op = "none" /\ NoJob.stage = "none" /\ NoJob.cur = None /\ NoJob.next = None
  BY DEF NoJob, Job, Stages
<1>6. JobsTyped' /\ job'["loop"] = NoJob /\ \A u \in Threads \ {"loop"} : job'[u] = job[u]
  <2>1. JobOk("loop", NoJob, idGen')
    BY <1>0, <1>2, <1>5 DEF JobOk, None
  <2> QED BY <1>0, <1>2, <1>5, <2>1, JobTaken
<1>7. LockHeld' /\ Starting'
  BY <1>2, <1>5, <1>6 DEF Inv, LockHeld, Starting
<1>8. Emptied'
  BY <1>0, <1>3, <1>5, <1>6 DEF Inv, Emptied, SameEntries
<1>9. EnvTyped'
  BY <1>2 DEF Inv, Typed, EnvTyped
<1>10. ASSUME ~env.evicted PROVE Room' /\ Distinct' /\ (~env.wiped => Seen' /\ SpeedKept')
  <2>1. Distinct'
    BY <1>0, <1>3, <1>10 DEF Inv, InStep, Distinct, SameEntries
  <2>2. Room'
    <3>1. Room
      BY <1>10 DEF Inv, InStep
    <3>2. ASSUME NEW u \in Threads \ {"loop"}
          PROVE  /\ MakesRoom(u, "open")' => RoomFor(u, job[u].cur)'
                 /\ MakesRoom(u, "opennext")' => RoomFor(u, job[u].next)'
      BY <1>0, <1>2, <1>3, <1>6, <3>1, <3>2 DEF Room, MakesRoom, RoomFor, SameEntries
    <3> QED BY <1>5, <1>6, <3>2 DEF Room, MakesRoom
  <2>3. ~env.wiped => SpeedKept'
    BY <1>2, <1>3, <1>10 DEF Inv, InStep, SpeedKept, SameEntries
  <2>4. ASSUME ~env.wiped, NEW q \in Entries, Stale(q)'
        PROVE  \E u \in {"app", "loop"} : job'[u].op \in {"copy", "exchange"} /\ Unseen(u, q)'
    <3>1. Stale(q) /\ pool'[q].id = pool[q].id
      BY <1>2, <1>3, <2>4 DEF Stale, SameEntries
    <3>2. PICK u \in {"app", "loop"} : job[u].op \in {"copy", "exchange"} /\ Unseen(u, q)
      BY <1>10, <2>4, <3>1 DEF Inv, InStep, Seen
    <3>3. u # "loop"
      BY <1>2, <3>2 DEF Unseen
    <3>4. job'[u] = job[u]
      BY <1>6, <3>3 DEF Threads
    <3> QED BY <3>1, <3>2, <3>4 DEF Unseen
  <2> QED BY <2>1, <2>2, <2>3, <2>4 DEF Seen
<1>11. InStep'
  BY <1>2, <1>10 DEF InStep
<1> QED BY <1>3, <1>4, <1>6, <1>7, <1>8, <1>9, <1>11 DEF Inv, Typed

LEMMA LoopUpdateKeeps == Inv /\ LoopUpdate => Inv'
<1> SUFFICES ASSUME Inv, LoopUpdate PROVE Inv'
  OBVIOUS
<1> DEFINE k == Head(msgs).i
<1>1. /\ LoopTakes("update") /\ msgs' = Tail(msgs) /\ UNCHANGED <<list, speed, idGen, refresh, env>>
      /\ \/ k < Len(list) /\ Prepare("loop", "update", list, k) /\ UNCHANGED pool
         \/ /\ UNCHANGED <<lock, job>>
            /\ pool' = [p \in Entries |-> IF p = PlayEntry THEN [pool[p] EXCEPT !.paused = FALSE] ELSE pool[p]]
  BY DEF LoopUpdate
<1>2. Head(msgs) \in Message /\ lock = "free" /\ job["loop"].op = "none" /\ EnvTyped' /\ SameGhosts
  BY <1>1, Taken
<1>3. k \in Nat /\ list \in Seq(Ids) /\ list' = list /\ idGen <= idGen' /\ ListTyped
  BY <1>1, <1>2 DEF Message, Inv, Typed, ListTyped
<1> HIDE DEF k
<1>4. CASE k < Len(list) /\ Prepare("loop", "update", list, k) /\ UNCHANGED pool
  <2>1. lock' \in Threads \cup {"free"}
    BY <1>4 DEF Prepare, Threads
  <2>2. ListTyped'
    BY <1>1, <1>3, <2>1 DEF ListTyped
  <2> QED BY <1>1, <1>2, <1>3, <1>4, <2>2, PrepareKeeps
<1>5. CASE /\ UNCHANGED <<lock, job>>
           /\ pool' = [p \in Entries |-> IF p = PlayEntry THEN [pool[p] EXCEPT !.paused = FALSE] ELSE pool[p]]
  <2> DEFINE v == FALSE
  <2>1. v \in BOOLEAN /\ pool' = [p \in Entries |-> IF p = PlayEntry THEN [pool[p] EXCEPT !.paused = v] ELSE pool[p]]
    BY <1>5
  <2> HIDE DEF v
  <2>2. SameEntries /\ MarkProtects' /\ RefreshTyped'
    BY <1>1, <2>1, PausedOnly
  <2> QED BY <1>1, <1>2, <1>5, <2>2, QuietKeeps
<1> QED BY <1>1, <1>4, <1>5

LEMMA LoopExchangeKeeps == Inv /\ LoopExchange => Inv'
<1> SUFFICES ASSUME Inv, LoopExchange PROVE Inv'
  OBVIOUS
<1> DEFINE i == Head(msgs).i
           j == Head(msgs).j
           l == Moved(list, i, j)
<1>1. /\ LoopTakes("exchange") /\ msgs' = Tail(msgs) /\ UNCHANGED <<speed, idGen, pool, refresh, env>>
      /\ \/ i < Len(list) /\ j < Len(list) /\ list' = l /\ Prepare("loop", "exchange", l, j)
         \/ UNCHANGED <<list, lock, job>>
  BY DEF LoopExchange
<1>2. Head(msgs) \in Message /\ lock = "free" /\ job["loop"].op = "none" /\ EnvTyped' /\ SameGhosts
  BY <1>1, Taken
<1>3. i \in Nat /\ j \in Nat /\ list \in Seq(Ids) /\ IsInjective(list) /\ idGen <= idGen' /\ ListTyped
  BY <1>1, <1>2 DEF Message, Inv, Typed, ListTyped
<1> HIDE DEF i, j, l
<1>4. CASE i < Len(list) /\ j < Len(list) /\ list' = l /\ Prepare("loop", "exchange", l, j)
  <2>1. /\ l \in Seq(Ids) /\ Len(l) = Len(list) /\ IsInjective(l)
        /\ \A n \in 1 .. Len(list) : \E o \in 1 .. Len(list) : l[n] = list[o]
    BY <1>3, <1>4, MovedList DEF l
  <2>2. lock' \in Threads \cup {"free"}
    BY <1>4 DEF Prepare, Threads
  <2>3. ListTyped'
    BY <1>1, <1>3, <1>4, <2>1, <2>2 DEF ListTyped
  <2>4. ASSUME ~env.evicted, ~env.wiped PROVE SpeedKept'
    <3> SUFFICES ASSUME NEW p \in Entries, pool[p].used, pool[p].open, IndexOf(l, pool[p].id) # None
                 PROVE  pool[p].speed = speed[pool[p].id]
      BY <1>1, <1>4 DEF SpeedKept
    <3>1. PICK n \in 1 .. Len(l) : l[n] = pool[p].id
      BY <2>1, IndexRange
    <3>2. PICK o \in 1 .. Len(list) : list[o] = pool[p].id
      BY <2>1, <3>1
    <3>3. IndexOf(list, pool[p].id) # None
      BY <1>3, <3>2, IndexRange
    <3> QED BY <2>4, <3>3 DEF Inv, InStep, SpeedKept
  <2>5. j < Len(l) /\ "loop" \in {"app", "loop"} /\ "exchange" \in {"copy", "exchange"}
    BY <1>4, <2>1
  <2> QED BY <1>1, <1>2, <1>3, <1>4, <2>1, <2>3, <2>4, <2>5, PrepareKeeps
<1>5. CASE UNCHANGED <<list, lock, job>>
  <2>1. RefreshTyped' /\ MarkProtects'
    BY <1>1 DEF Inv, Typed, RefreshTyped, MarkProtects, Player
  <2> QED BY <1>1, <1>2, <1>5, <2>1, UntouchedKeeps
<1> QED BY <1>1, <1>4, <1>5

-----------------------------------------------------------------------------
(* The application's calls.                                                *)

LEMMA CallMade ==
    ASSUME Inv, NEW n, Call(n), UNCHANGED msgs
    PROVE  /\ lock = "free" /\ job["app"].op = "none" /\ job["loop"].op \notin {"update", "exchange"}
           /\ EnvTyped' /\ env'.evicted = env.evicted
           /\ n # "wipe" => env'.wiped = env.wiped
           /\ n = "wipe" => env'.wiped
BY DEF Inv, Typed, EnvTyped, Call, MpFree

LEMMA PrepareCallKeeps == Inv /\ PrepareCall => Inv'
<1> SUFFICES ASSUME Inv, PrepareCall PROVE Inv'
  OBVIOUS
<1>1. PICK k \in 0 .. Len(list) - 1 :
        /\ Call("prepare") /\ refresh.at = "off" /\ Prepare("app", "prepare", list, k)
        /\ UNCHANGED <<list, speed, idGen, pool, refresh, msgs, told>>
  BY DEF PrepareCall
<1>2. /\ lock = "free" /\ job["app"].op = "none" /\ EnvTyped' /\ SameGhosts
  BY <1>1, CallMade DEF SameGhosts
<1>3. ListTyped /\ list \in Seq(Ids) /\ list' = list /\ idGen <= idGen' /\ k \in Nat /\ k < Len(list)
  BY <1>1 DEF Inv, Typed, ListTyped
<1>4. ListTyped'
  BY <1>1, <1>3 DEF ListTyped, Prepare, Threads
<1> QED BY <1>1, <1>2, <1>3, <1>4, PrepareKeeps

\* A change of the list or of its clips' settings, with nobody in the pool.
LEMMA EditKeeps ==
    ASSUME Inv, lock = "free", UNCHANGED <<lock, job, refresh>>, idGen <= idGen', EnvTyped',
           env'.evicted = env.evicted, ListTyped', pool' \in [Entries -> Entry],
           \A p \in Entries : /\ pool'[p].id = pool[p].id /\ pool'[p].used = pool[p].used
                             /\ pool'[p].open = pool[p].open /\ pool'[p].mark = pool[p].mark,
           ~env'.evicted /\ ~env'.wiped => (\A p \in Entries : ~Stale(p)') /\ SpeedKept'
    PROVE  Inv'
<1>0. 1 \in Entries /\ 2 \in Entries /\ idGen \in Nat /\ idGen' \in Nat
  BY DEF Entries, Inv, Typed, ListTyped
<1>1. PoolTyped'
  <2>1. \A p \in Entries : pool'[p].id < idGen'
    <3> SUFFICES ASSUME NEW p \in Entries PROVE pool'[p].id < idGen'
      OBVIOUS
    <3>1. pool'[p].id < idGen /\ pool'[p].id \in Int
      BY DEF Inv, Typed, PoolTyped, Entry, Ids, None
    <3> QED BY <1>0, <3>1
  <2> QED BY <1>0, <2>1 DEF Inv, Typed, PoolTyped
<1>2. OpenHasId' /\ Emptied' /\ LockHeld' /\ Starting'
  BY <1>0 DEF Inv, OpenHasId, Emptied, LockHeld, Starting
<1>3. MarkProtects' /\ RefreshTyped'
  BY DEF Inv, Typed, RefreshTyped, MarkProtects, Player
<1>4. JobsTyped'
  <2> SUFFICES ASSUME NEW t \in Threads PROVE JobOk(t, job[t], idGen')
    BY DEF Inv, Typed, JobsTyped
  <2>1. JobOk(t, job[t], idGen) /\ job[t] \in Job
    BY DEF Inv, Typed, JobsTyped
  <2>2. job[t].cur \in Int /\ job[t].next \in Int
    BY <2>1 DEF Job, Ids, None
  <2> QED BY <1>0, <2>1, <2>2 DEF JobOk
<1>5. ~env.evicted => Room' /\ Distinct'
  <2>1. ~env.evicted => Room'
    BY NobodyInPool DEF Room, MakesRoom
  <2>2. ~env.evicted => Distinct'
    BY <1>0 DEF Inv, InStep, Distinct
  <2> QED BY <2>1, <2>2
<1>6. ~env'.evicted /\ ~env'.wiped => Seen' /\ SpeedKept'
  BY DEF Seen
<1> QED BY <1>1, <1>2, <1>3, <1>4, <1>5, <1>6 DEF Inv, Typed, InStep

LEMMA InsertKeeps == Inv /\ Insert => Inv'
<1> SUFFICES ASSUME Inv, Insert PROVE Inv'
  OBVIOUS
<1>1. PICK k \in Indices :
        /\ Call("insert") /\ Len(list) < MaxClips /\ idGen < MaxIds
        /\ list' = InsertAt(list, k + 1, idGen)
        /\ speed' = [speed EXCEPT ![idGen] = 1]
        /\ idGen' = idGen + 1
        /\ pool' = Shifted(k)
        /\ UNCHANGED <<lock, job, refresh, msgs, told>>
  BY DEF Insert
<1>2. /\ lock = "free" /\ job["app"].op = "none" /\ job["loop"].op # "exchange"
      /\ EnvTyped' /\ env'.evicted = env.evicted /\ env'.wiped = env.wiped
  BY <1>1, CallMade
<1>3. /\ ListTyped /\ list \in Seq(Ids) /\ IsInjective(list) /\ Len(list) \in Nat /\ idGen \in Nat
      /\ speed \in [Ids -> 1 .. 2] /\ pool \in [Entries -> Entry] /\ k \in 0 .. Len(list)
      /\ \A i \in 1 .. Len(list) : list[i] < idGen
  BY DEF Inv, Typed, ListTyped, PoolTyped, Indices
<1>4. idGen \in Ids /\ \A i \in 1 .. Len(list) : list[i] # idGen
  <2>1. MaxIds \in Nat
    BY PoolAssumption
  <2>2. idGen \in Ids
    BY <1>1, <1>3, <2>1 DEF Ids
  <2>3. ASSUME NEW i \in 1 .. Len(list) PROVE list[i] # idGen
    BY <1>3
  <2> QED BY <2>2, <2>3
<1>5. /\ list' \in Seq(Ids) /\ Len(list') = Len(list) + 1
      /\ \A i \in 1 .. Len(list) + 1 : list'[i] = IF i <= k THEN list[i] ELSE IF i = k + 1 THEN idGen ELSE list[i - 1]
  BY <1>1, <1>3, <1>4, Inserted
<1>6. /\ IsInjective(list')
      /\ \A x : x # idGen => IndexOf(list', x) = IF IndexOf(list, x) >= k THEN IndexOf(list, x) + 1 ELSE IndexOf(list, x)
  BY <1>1, <1>3, <1>4, InsertedIndex
<1>7. ListTyped'
  <2>1. \A i \in 1 .. Len(list') : list'[i] < idGen'
    <3> SUFFICES ASSUME NEW i \in 1 .. Len(list) + 1 PROVE list'[i] < idGen + 1
      BY <1>1, <1>5
    <3>1. CASE i <= k
      <4>1. list[i] < idGen /\ list[i] \in Ids
        BY <1>3, <3>1
      <4> QED BY <1>3, <1>5, <3>1, <4>1 DEF Ids
    <3>2. CASE i = k + 1
      BY <1>3, <1>5, <3>2
    <3>3. CASE i > k + 1
      <4>1. i - 1 \in 1 .. Len(list)
        BY <1>3, <3>3
      <4>2. list[i - 1] < idGen /\ list[i - 1] \in Ids
        BY <1>3, <4>1
      <4> QED BY <1>3, <1>5, <3>3, <4>2 DEF Ids
    <3> QED BY <1>3, <3>1, <3>2, <3>3
  <2>2. idGen' \in 0 .. MaxIds /\ Len(list') <= MaxClips
    BY <1>1, <1>3, <1>5, PoolAssumption
  <2>3. speed' \in [Ids -> 1 .. 2] /\ lock' \in Threads \cup {"free"}
    BY <1>1, <1>2, <1>3, <1>4
  <2> QED BY <1>5, <1>6, <2>1, <2>2, <2>3 DEF ListTyped
<1> DEFINE f(p) == IF pool[p].qi >= k THEN [pool[p] EXCEPT !.qi = @ + 1] ELSE pool[p]
<1>8. ASSUME NEW p \in Entries
      PROVE  /\ f(p) \in Entry /\ f(p).id = pool[p].id /\ f(p).open = pool[p].open /\ f(p).used = pool[p].used
             /\ f(p).speed = pool[p].speed /\ f(p).mark = pool[p].mark
             /\ f(p).qi = IF pool[p].qi >= k THEN pool[p].qi + 1 ELSE pool[p].qi
  BY <1>3 DEF Entry, None
<1>9. pool' = [p \in Entries |-> f(p)]
  BY <1>1 DEF Shifted
<1> HIDE DEF f
<1>10. /\ pool' \in [Entries -> Entry]
       /\ \A p \in Entries : /\ pool'[p].id = pool[p].id /\ pool'[p].open = pool[p].open /\ pool'[p].used = pool[p].used
                             /\ pool'[p].speed = pool[p].speed /\ pool'[p].mark = pool[p].mark
                             /\ pool'[p].qi = IF pool[p].qi >= k THEN pool[p].qi + 1 ELSE pool[p].qi
  BY <1>8, <1>9
<1>11. ASSUME ~env'.evicted, ~env'.wiped PROVE (\A p \in Entries : ~Stale(p)') /\ SpeedKept'
  <2>1. (\A p \in Entries : ~Stale(p)) /\ SpeedKept
    BY <1>2, <1>11, NoMover DEF Inv, InStep
  <2>2. ASSUME NEW p \in Entries
        PROVE  /\ pool[p].id # idGen
               /\ IndexOf(list', pool[p].id) # None => IndexOf(list, pool[p].id) # None
               /\ IndexOf(list', pool[p].id)
                    = IF IndexOf(list, pool[p].id) >= k THEN IndexOf(list, pool[p].id) + 1 ELSE IndexOf(list, pool[p].id)
    <3>1. pool[p].id # idGen
      BY <1>3 DEF Inv, Typed, PoolTyped
    <3> QED BY <1>3, <1>6, <3>1 DEF None
  <2>3. \A p \in Entries : ~Stale(p)'
    BY <1>10, <2>1, <2>2 DEF Stale
  <2>4. SpeedKept'
    <3> SUFFICES ASSUME NEW p \in Entries, pool[p].used, pool[p].open, IndexOf(list', pool[p].id) # None
                 PROVE  pool[p].speed = speed'[pool[p].id]
      BY <1>10 DEF SpeedKept
    <3>1. pool[p].speed = speed[pool[p].id] /\ pool[p].id # idGen
      BY <2>1, <2>2 DEF SpeedKept
    <3>2. pool[p].id \in Ids
      BY <1>3 DEF Inv, OpenHasId, Entry
    <3> QED BY <1>1, <1>3, <3>1, <3>2
  <2> QED BY <2>3, <2>4
<1> QED BY <1>1, <1>2, <1>3, <1>7, <1>10, <1>11, EditKeeps

LEMMA DeleteKeeps == Inv /\ Delete => Inv'
<1> SUFFICES ASSUME Inv, Delete PROVE Inv'
  OBVIOUS
<1> DEFINE f(k, p) == IF pool[p].qi > k THEN [pool[p] EXCEPT !.qi = @ - 1] ELSE pool[p]
<1>1. PICK k \in Indices :
        /\ Call("delete") /\ k < Len(list)
        /\ list' = RemoveAt(list, k + 1)
        /\ pool' = [p \in Entries |-> f(k, p)]
        /\ UNCHANGED <<speed, idGen, lock, job, refresh, msgs, told>>
  BY DEF Delete
<1>2. /\ lock = "free" /\ job["app"].op = "none" /\ job["loop"].op # "exchange"
      /\ EnvTyped' /\ env'.evicted = env.evicted /\ env'.wiped = env.wiped
  BY <1>1, CallMade
<1>3. /\ ListTyped /\ list \in Seq(Ids) /\ IsInjective(list) /\ Len(list) \in Nat /\ idGen \in Nat
      /\ speed \in [Ids -> 1 .. 2] /\ pool \in [Entries -> Entry] /\ k \in Nat
      /\ \A i \in 1 .. Len(list) : list[i] < idGen
  BY DEF Inv, Typed, ListTyped, PoolTyped, Indices
<1>5. /\ list' \in Seq(Ids) /\ Len(list') = Len(list) - 1
      /\ \A i \in 1 .. Len(list) - 1 : list'[i] = IF i <= k THEN list[i] ELSE list[i + 1]
  BY <1>1, <1>3, Removed
<1>6. /\ IsInjective(list') /\ IndexOf(list', list[k + 1]) = None
      /\ \A x : x # list[k + 1] => IndexOf(list', x) = IF IndexOf(list, x) > k THEN IndexOf(list, x) - 1 ELSE IndexOf(list, x)
  BY <1>1, <1>3, RemovedIndex
<1>7. ListTyped'
  <2>1. \A i \in 1 .. Len(list') : list'[i] < idGen
    BY <1>3, <1>5
  <2>2. Len(list') <= MaxClips
    BY <1>3, <1>5, PoolAssumption DEF ListTyped
  <2> QED BY <1>1, <1>3, <1>5, <1>6, <2>1, <2>2 DEF ListTyped
<1>8. ASSUME NEW p \in Entries
      PROVE  /\ f(k, p) \in Entry /\ f(k, p).id = pool[p].id /\ f(k, p).open = pool[p].open
             /\ f(k, p).used = pool[p].used /\ f(k, p).speed = pool[p].speed /\ f(k, p).mark = pool[p].mark
             /\ f(k, p).qi = IF pool[p].qi > k THEN pool[p].qi - 1 ELSE pool[p].qi
  <2> DEFINE r == pool[p]
  <2>1. r \in Entry
    BY <1>3
  <2>2. f(k, p) = IF r.qi > k THEN [r EXCEPT !.qi = r.qi - 1] ELSE r
    OBVIOUS
  <2> HIDE DEF r, f
  <2>3. CASE r.qi > k
    <3>1. r.qi - 1 \in Nat
      BY <1>3, <2>1, <2>3 DEF Entry, None
    <3> QED BY <2>1, <2>2, <2>3, <3>1 DEF Entry, r
  <2>4. CASE ~(r.qi > k)
    BY <2>1, <2>2, <2>4 DEF r
  <2> QED BY <2>3, <2>4
<1> HIDE DEF f
<1>10. /\ pool' \in [Entries -> Entry]
       /\ \A p \in Entries : /\ pool'[p].id = pool[p].id /\ pool'[p].open = pool[p].open /\ pool'[p].used = pool[p].used
                             /\ pool'[p].speed = pool[p].speed /\ pool'[p].mark = pool[p].mark
                             /\ pool'[p].qi = IF pool[p].qi > k THEN pool[p].qi - 1 ELSE pool[p].qi
  BY <1>1, <1>8
<1>11. ASSUME ~env'.evicted, ~env'.wiped PROVE (\A p \in Entries : ~Stale(p)') /\ SpeedKept'
  <2>1. (\A p \in Entries : ~Stale(p)) /\ SpeedKept
    BY <1>2, <1>11, NoMover DEF Inv, InStep
  <2>2. ASSUME NEW p \in Entries, IndexOf(list', pool[p].id) # None
        PROVE  /\ IndexOf(list, pool[p].id) # None
               /\ IndexOf(list', pool[p].id)
                    = IF IndexOf(list, pool[p].id) > k THEN IndexOf(list, pool[p].id) - 1 ELSE IndexOf(list, pool[p].id)
    BY <1>3, <1>6, <2>2 DEF None
  <2>3. \A p \in Entries : ~Stale(p)'
    BY <1>10, <2>1, <2>2 DEF Stale
  <2>4. SpeedKept'
    BY <1>1, <1>10, <2>1, <2>2 DEF SpeedKept
  <2> QED BY <2>3, <2>4
<1> QED BY <1>1, <1>2, <1>3, <1>7, <1>10, <1>11, EditKeeps

LEMMA DeleteAllKeeps == Inv /\ DeleteAll => Inv'
<1> SUFFICES ASSUME Inv, DeleteAll PROVE Inv'
  OBVIOUS
<1>1. /\ Call("wipe") /\ list' = [i \in 1 .. Len(list) \div 2 |-> list[2 * i]]
      /\ UNCHANGED <<speed, idGen, pool, lock, job, refresh, msgs, told>>
  BY DEF DeleteAll
<1>2. lock = "free" /\ EnvTyped' /\ env'.evicted = env.evicted /\ env'.wiped
  BY <1>1, CallMade
<1>3. ListTyped /\ list \in Seq(Ids) /\ IsInjective(list) /\ pool \in [Entries -> Entry] /\ idGen <= idGen
  BY DEF Inv, Typed, ListTyped, PoolTyped
<1>4. /\ list' \in Seq(Ids) /\ Len(list') <= Len(list) /\ IsInjective(list')
      /\ \A n \in 1 .. Len(list') : \E o \in 1 .. Len(list) : list'[n] = list[o]
  BY <1>1, <1>3, HalvedList
<1>5. ListTyped'
  <2>1. Len(list') <= MaxClips
    BY <1>3, <1>4, PoolAssumption DEF ListTyped
  <2>2. \A n \in 1 .. Len(list') : list'[n] < idGen'
    BY <1>1, <1>3, <1>4 DEF ListTyped
  <2> QED BY <1>1, <1>3, <1>4, <2>1, <2>2 DEF ListTyped
<1> QED BY <1>1, <1>2, <1>3, <1>5, EditKeeps

LEMMA CopyKeeps == Inv /\ Copy => Inv'
<1> SUFFICES ASSUME Inv, Copy PROVE Inv'
  OBVIOUS
<1>1. PICK k \in Indices :
        /\ Call("copy") /\ k < Len(list) /\ Len(list) < MaxClips /\ idGen < MaxIds
        /\ list' = InsertAt(list, k + 2, idGen)
        /\ speed' = [speed EXCEPT ![idGen] = speed[list[k + 1]]]
        /\ idGen' = idGen + 1
        /\ Prepare("app", "copy", list', k + 1)
        /\ UNCHANGED <<pool, refresh, msgs, told>>
  BY DEF Copy
<1>2. /\ lock = "free" /\ job["app"].op = "none" /\ EnvTyped' /\ SameGhosts
  BY <1>1, CallMade DEF SameGhosts
<1>3. /\ ListTyped /\ list \in Seq(Ids) /\ IsInjective(list) /\ Len(list) \in Nat /\ idGen \in Nat
      /\ speed \in [Ids -> 1 .. 2] /\ pool \in [Entries -> Entry] /\ k \in Nat
      /\ \A i \in 1 .. Len(list) : list[i] < idGen
  BY DEF Inv, Typed, ListTyped, PoolTyped, Indices
<1>4. idGen \in Ids /\ \A i \in 1 .. Len(list) : list[i] # idGen
  <2>1. MaxIds \in Nat
    BY PoolAssumption
  <2>2. idGen \in Ids
    BY <1>1, <1>3, <2>1 DEF Ids
  <2>3. ASSUME NEW i \in 1 .. Len(list) PROVE list[i] # idGen
    BY <1>3
  <2> QED BY <2>2, <2>3
<1> DEFINE m == k + 1
<1>5. m \in 0 .. Len(list) /\ m + 1 = k + 2
  BY <1>1, <1>3
<1> HIDE DEF m
<1>6. /\ list' \in Seq(Ids) /\ Len(list') = Len(list) + 1
      /\ \A i \in 1 .. Len(list) + 1 : list'[i] = IF i <= m THEN list[i] ELSE IF i = m + 1 THEN idGen ELSE list[i - 1]
  BY <1>1, <1>3, <1>4, <1>5, Inserted
<1>7. /\ IsInjective(list')
      /\ \A x : x # idGen => IndexOf(list', x) = IF IndexOf(list, x) >= m THEN IndexOf(list, x) + 1 ELSE IndexOf(list, x)
  BY <1>1, <1>3, <1>4, <1>5, InsertedIndex
<1>8. ListTyped'
  <2>1. \A i \in 1 .. Len(list') : list'[i] < idGen'
    <3> SUFFICES ASSUME NEW i \in 1 .. Len(list) + 1 PROVE list'[i] < idGen + 1
      BY <1>1, <1>6
    <3>1. CASE i <= m
      <4>1. i \in 1 .. Len(list)
        BY <1>3, <1>5, <3>1
      <4>2. list[i] < idGen /\ list[i] \in Ids
        BY <1>3, <4>1
      <4> QED BY <1>3, <1>6, <3>1, <4>2 DEF Ids
    <3>2. CASE i = m + 1
      BY <1>3, <1>5, <1>6, <3>2
    <3>3. CASE i > m + 1
      <4>1. i - 1 \in 1 .. Len(list)
        BY <1>3, <1>5, <3>3
      <4>2. list[i - 1] < idGen /\ list[i - 1] \in Ids
        BY <1>3, <4>1
      <4> QED BY <1>3, <1>5, <1>6, <3>3, <4>2 DEF Ids
    <3> QED BY <1>3, <1>5, <3>1, <3>2, <3>3
  <2>2. idGen' \in 0 .. MaxIds /\ Len(list') <= MaxClips
    BY <1>1, <1>3, <1>6, PoolAssumption
  <2>3. speed' \in [Ids -> 1 .. 2]
    <3>1. k + 1 \in 1 .. Len(list)
      BY <1>1, <1>3
    <3>2. speed[list[k + 1]] \in 1 .. 2
      BY <1>3, <3>1
    <3> QED BY <1>1, <1>3, <3>2
  <2>4. lock' \in Threads \cup {"free"}
    BY <1>1 DEF Prepare, Threads
  <2> QED BY <1>6, <1>7, <2>1, <2>2, <2>3, <2>4 DEF ListTyped
<1>9. ASSUME ~env.evicted, ~env.wiped PROVE SpeedKept'
  <2> SUFFICES ASSUME NEW p \in Entries, pool[p].used, pool[p].open, IndexOf(list', pool[p].id) # None
               PROVE  pool[p].speed = speed'[pool[p].id]
    BY <1>1 DEF SpeedKept
  <2>1. pool[p].id # idGen
    BY <1>3 DEF Inv, Typed, PoolTyped
  <2>2. IndexOf(list, pool[p].id) # None
    BY <1>5, <1>7, <2>1 DEF None
  <2>3. pool[p].speed = speed[pool[p].id]
    BY <1>9, <2>2 DEF Inv, InStep, SpeedKept
  <2>4. pool[p].id \in Ids
    BY <1>3 DEF Inv, OpenHasId, Entry
  <2> QED BY <1>1, <1>3, <2>1, <2>3, <2>4
<1>10. m \in Nat /\ m < Len(list') /\ Prepare("app", "copy", list', m) /\ idGen <= idGen'
  BY <1>1, <1>3, <1>5, <1>6 DEF m
<1>11. "app" \in {"app", "loop"} /\ "copy" \in {"copy", "exchange"}
  OBVIOUS
<1> QED BY <1>1, <1>2, <1>6, <1>8, <1>9, <1>10, <1>11, PrepareKeeps

LEMMA SetSpeedKeeps == Inv /\ SetSpeed => Inv'
<1> SUFFICES ASSUME Inv, SetSpeed PROVE Inv'
  OBVIOUS
<1> DEFINE f(k, v, p) == IF p = PlayEntry /\ pool[p].qi = k THEN [pool[p] EXCEPT !.speed = v] ELSE pool[p]
<1>1. PICK k \in Indices, v \in 1 .. 2 :
        /\ Call("speed") /\ k < Len(list)
        /\ speed' = [speed EXCEPT ![list[k + 1]] = v]
        /\ pool' = [p \in Entries |-> f(k, v, p)]
        /\ UNCHANGED <<list, idGen, lock, job, refresh, msgs, told>>
  BY DEF SetSpeed
<1>2. /\ lock = "free" /\ job["app"].op = "none" /\ job["loop"].op # "exchange"
      /\ EnvTyped' /\ env'.evicted = env.evicted /\ env'.wiped = env.wiped
  BY <1>1, CallMade
<1>3. /\ ListTyped /\ list \in Seq(Ids) /\ IsInjective(list) /\ idGen \in Nat /\ idGen <= idGen'
      /\ speed \in [Ids -> 1 .. 2] /\ pool \in [Entries -> Entry] /\ k \in Nat
  BY <1>1 DEF Inv, Typed, ListTyped, PoolTyped, Indices
<1> DEFINE c == list[k + 1]
<1>4. c \in Ids /\ IndexOf(list, c) = k
  <2>1. k + 1 \in 1 .. Len(list)
    BY <1>1, <1>3
  <2>2. IndexOf(list, c) = (k + 1) - 1
    BY <1>3, <2>1, IndexIn
  <2> QED BY <1>3, <2>1, <2>2
<1> HIDE DEF c
<1>5. speed' = [speed EXCEPT ![c] = v]
  BY <1>1 DEF c
<1>6. ListTyped'
  <2>1. speed' \in [Ids -> 1 .. 2]
    BY <1>3, <1>4, <1>5
  <2> QED BY <1>1, <1>3, <2>1 DEF ListTyped
<1>7. ASSUME NEW p \in Entries
      PROVE  /\ f(k, v, p) \in Entry /\ f(k, v, p).id = pool[p].id /\ f(k, v, p).open = pool[p].open
             /\ f(k, v, p).used = pool[p].used /\ f(k, v, p).qi = pool[p].qi /\ f(k, v, p).mark = pool[p].mark
             /\ f(k, v, p).speed = IF p = PlayEntry /\ pool[p].qi = k THEN v ELSE pool[p].speed
  <2> DEFINE r == pool[p]
  <2>1. r \in Entry
    BY <1>3
  <2>2. f(k, v, p) = IF p = PlayEntry /\ r.qi = k THEN [r EXCEPT !.speed = v] ELSE r
    OBVIOUS
  <2> HIDE DEF r, f
  <2>3. CASE p = PlayEntry /\ r.qi = k
    BY <2>1, <2>2, <2>3 DEF Entry, r
  <2>4. CASE ~(p = PlayEntry /\ r.qi = k)
    BY <2>1, <2>2, <2>4 DEF r
  <2> QED BY <2>3, <2>4
<1> HIDE DEF f
<1>8. /\ pool' \in [Entries -> Entry]
      /\ \A p \in Entries : /\ pool'[p].id = pool[p].id /\ pool'[p].open = pool[p].open /\ pool'[p].used = pool[p].used
                            /\ pool'[p].qi = pool[p].qi /\ pool'[p].mark = pool[p].mark
                            /\ pool'[p].speed = IF p = PlayEntry /\ pool[p].qi = k THEN v ELSE pool[p].speed
  BY <1>1, <1>7
<1>9. ASSUME ~env'.evicted, ~env'.wiped PROVE (\A p \in Entries : ~Stale(p)') /\ SpeedKept'
  <2>1. (\A p \in Entries : ~Stale(p)) /\ SpeedKept
    BY <1>2, <1>9, NoMover DEF Inv, InStep
  <2>2. \A p \in Entries : ~Stale(p)'
    BY <1>1, <1>8, <2>1 DEF Stale
  <2>3. SpeedKept'
    <3> SUFFICES ASSUME NEW p \in Entries, pool[p].used, pool[p].open, IndexOf(list, pool[p].id) # None
                 PROVE  pool'[p].speed = speed'[pool[p].id]
      BY <1>1, <1>8 DEF SpeedKept
    <3>1. p = PlayEntry /\ pool[p].qi = IndexOf(list, pool[p].id) /\ pool[p].speed = speed[pool[p].id]
      BY <2>1, PlayEntryUsed DEF Stale, SpeedKept
    <3>2. pool[p].id \in Ids
      BY <1>3 DEF Inv, OpenHasId, Entry
    <3>3. CASE pool[p].id = c
      BY <1>3, <1>4, <1>5, <1>8, <3>1, <3>2, <3>3
    <3>4. CASE pool[p].id # c
      <4>1. pool[p].qi # k
        BY <1>3, <1>4, <3>1, <3>4, SameIndex
      <4> QED BY <1>3, <1>5, <1>8, <3>1, <3>2, <3>4, <4>1
    <3> QED BY <3>3, <3>4
  <2> QED BY <2>2, <2>3
<1> QED BY <1>1, <1>2, <1>3, <1>6, <1>8, <1>9, EditKeeps

LEMMA ToggleKeeps == Inv /\ Toggle => Inv'
<1> SUFFICES ASSUME Inv, Toggle PROVE Inv'
  OBVIOUS
<1> DEFINE p == PlayEntry
<1>1. p \in Entries /\ pool[p] \in Entry /\ pool \in [Entries -> Entry]
  BY PlayEntryUsed DEF Inv, Typed, PoolTyped, Toggle
<1>2. /\ pool' = [pool EXCEPT ![p] = [pool[p] EXCEPT !.paused = ~pool[p].paused]]
      /\ UNCHANGED <<list, speed, idGen, lock, job, refresh, msgs>> /\ env' = [env EXCEPT !.calls = @ - 1]
  BY <1>1 DEF Toggle
<1> HIDE DEF p
<1>3. SameEntries /\ \A q \in Entries : pool'[q].mark = pool[q].mark
  <2> DEFINE e == [pool[p] EXCEPT !.paused = ~pool[p].paused]
  <2>1. /\ e \in Entry /\ e.id = pool[p].id /\ e.qi = pool[p].qi /\ e.used = pool[p].used /\ e.open = pool[p].open
        /\ e.speed = pool[p].speed /\ e.mark = pool[p].mark
    BY <1>1 DEF Entry
  <2>2. pool' = [pool EXCEPT ![p] = e]
    BY <1>2
  <2> HIDE DEF e
  <2> QED BY <1>1, <2>1, <2>2 DEF SameEntries
<1>4. MarkProtects' /\ RefreshTyped'
  BY <1>2, <1>3 DEF MarkProtects, Player, Inv, Typed, RefreshTyped, SameEntries
<1>5. SameGhosts /\ EnvTyped'
  BY <1>2 DEF SameGhosts, Inv, Typed, EnvTyped
<1> QED BY <1>2, <1>3, <1>4, <1>5, QuietKeeps

LEMMA RequestKeeps == Inv /\ Request => Inv'
<1> SUFFICES ASSUME Inv, Request PROVE Inv'
  OBVIOUS
<1>1. PICK m \in [what : {"seek", "exchange"}, i : Indices, j : Indices] :
        /\ env' = [env EXCEPT !.calls = @ - 1] /\ msgs' = Append(msgs, m)
        /\ UNCHANGED <<list, speed, idGen, pool, lock, job, refresh, told>>
  BY DEF Request
<1>2. m \in Message
  <2>1. Indices \subseteq Nat
    BY DEF Indices
  <2> QED BY <2>1 DEF Message
<1>3. EnvTyped' /\ SameGhosts
  BY <1>1, <1>2 DEF Inv, Typed, EnvTyped, SameGhosts
<1>4. RefreshTyped' /\ MarkProtects'
  BY <1>1 DEF Inv, Typed, RefreshTyped, MarkProtects, Player
<1> QED BY <1>1, <1>3, <1>4, UntouchedKeeps

-----------------------------------------------------------------------------
(* The theorems.                                                           *)

LEMMA InitInv == Init => Inv
<1> SUFFICES ASSUME Init PROVE Inv
  OBVIOUS
<1> USE DEF Init
<1>1. ListTyped
  <2>1. MaxIds \in Nat /\ Clips0 \in Nat /\ Clips0 <= MaxIds /\ Clips0 <= MaxClips
    BY PoolAssumption
  <2>2. list \in Seq(Ids) /\ Len(list) = Clips0
    BY <2>1 DEF Ids
  <2> QED BY <2>1, <2>2 DEF ListTyped, IsInjective
<1>2. Free \in Entry /\ Free.id = None /\ Free.used = FALSE /\ Free.open = FALSE
  BY DEF Free, Entry
<1>3. /\ NoJob \in Job /\ NoJob.op = "none" /\ NoJob.stage = "none" /\ NoJob.cur = None /\ NoJob.next = None
  BY DEF NoJob, Job, Stages
<1>4. idGen \in Nat /\ None < idGen
  BY PoolAssumption DEF None
<1>5. PoolTyped /\ OpenHasId /\ Distinct /\ SpeedKept /\ Seen
  <2>1. 1 \in Entries /\ 2 \in Entries
    BY DEF Entries
  <2> QED BY <1>2, <1>4, <2>1 DEF PoolTyped, OpenHasId, Distinct, SpeedKept, Seen, Stale
<1>6. JobsTyped /\ LockHeld /\ Emptied /\ Room /\ Starting
  BY <1>3, <1>4 DEF JobsTyped, JobOk, LockHeld, Emptied, Room, MakesRoom, Starting
<1>7. RefreshTyped /\ MarkProtects
  BY DEF Out, RefreshTyped, MarkProtects, Player, None, Entries
<1>8. EnvTyped
  BY DEF EnvTyped
<1> QED BY <1>1, <1>5, <1>6, <1>7, <1>8 DEF Inv, Typed, InStep

LEMMA NextInv == Inv /\ [Next]_vars => Inv'
<1> SUFFICES ASSUME Inv, [Next]_vars PROVE Inv'
  OBVIOUS
<1>1. CASE RefreshStep
  <2>1. CASE Show \/ Delay \/ SwitchNot \/ Post \/ End
    BY <2>1, ShowMoves, MovesKeeps
  <2> QED BY <1>1, <2>1, LookKeeps, SwitchEndKeeps, SwitchOnKeeps, SwitchedKeeps, LeaveKeeps DEF RefreshStep
<1>2. CASE LoopStep
  BY <1>2, LoopSeekKeeps, LoopSoughtKeeps, LoopUpdateKeeps, LoopExchangeKeeps DEF LoopStep
<1>3. CASE AppStep
  BY <1>3, PrepareCallKeeps, InsertKeeps, DeleteKeeps, DeleteAllKeeps, CopyKeeps, SetSpeedKeeps, ToggleKeeps,
     RequestKeeps DEF AppStep
<1>4. ASSUME NEW t \in Threads, PoolStep(t) PROVE Inv'
  BY <1>4, ReleaseScannedKeeps, ReleaseFirstKeeps, CloseKeeps, OpenClipKeeps, OpenNextKeeps DEF PoolStep
<1>5. CASE UNCHANGED vars
  <2>1. UNCHANGED <<list, speed, idGen, pool, lock, job, refresh, msgs, env>>
    BY <1>5 DEF vars
  <2>2. RefreshTyped' /\ EnvTyped' /\ MarkProtects' /\ SameGhosts
    BY <2>1 DEF Inv, Typed, RefreshTyped, EnvTyped, MarkProtects, Player, SameGhosts
  <2> QED BY <2>1, <2>2, UntouchedKeeps
<1> QED BY <1>1, <1>2, <1>3, <1>4, <1>5 DEF Next

LEMMA InvAlways == Spec => []Inv
BY InitInv, NextInv, PTL DEF Spec

\* While the refresh thread is inside a clip and has its mark, the clip stays open
\* (ff_ffplay.c:9257): for any list, any number of calls and any interleaving of the
\* three threads.
THEOREM MarkCorrect == Spec => []MarkProtects
<1>1. Inv => MarkProtects
  BY DEF Inv
<1> QED BY <1>1, InvAlways, PTL

\* When nobody is in the middle of a prepare the open clips have their place in the list,
\* and the clip in play its speed; no clip is open twice (but for the two exceptions that
\* PoolInStep names).
THEOREM StepCorrect == Spec => []PoolInStep
<1>1. Inv => PoolInStep
  <2> SUFFICES ASSUME Inv PROVE PoolInStep
    OBVIOUS
  <2>1. TypeOK
    BY DEF Inv, Typed, ListTyped, PoolTyped, RefreshTyped, TypeOK, Entry
  <2>2. \A p \in Entries : pool[p].open <=> pool[p].id # None
    BY DEF Inv, OpenHasId
  <2>3. pool[1].open /\ ~env.evicted => pool[1].id # pool[2].id
    BY DEF Inv, InStep, Distinct
  <2>4. ASSUME \A t \in Threads : job[t].stage \in {"none", "seek"}, ~env.evicted, ~env.wiped
        PROVE  \A p \in Entries :
                pool[p].open /\ IndexOf(list, pool[p].id) # None =>
                    /\ pool[p].qi = IndexOf(list, pool[p].id)
                    /\ pool[p].used => pool[p].speed = speed[pool[p].id]
    <3>1. \A t \in {"app", "loop"}, p \in Entries : ~Unseen(t, p)
      BY <2>4 DEF Unseen, Threads
    <3> QED BY <2>4, <3>1 DEF Inv, InStep, Seen, Stale, SpeedKept
  <2> QED BY <2>1, <2>2, <2>3, <2>4 DEF PoolInStep
<1> QED BY <1>1, InvAlways, PTL

\* At the end of a clip the one after it in the list is played next, and playback ends
\* only after the last (but for the exceptions that SwitchesToNext names).
THEOREM SwitchCorrect == Spec => SwitchesToNext
<1> DEFINE Quiet == \A t \in Threads : job[t].op \notin {"copy", "exchange"}
           Right == told' # told /\ told' # Untold /\ ~env.wiped /\ ~env.evicted /\ IndexOf(list, refresh.clip) # None
                    /\ Quiet => told'.to = ClipAt(list, IndexOf(list, refresh.clip) + 1)
<1>1. Inv /\ [Next]_vars => [Right]_vars
  <2> SUFFICES ASSUME Inv, Next, told' # told, told' # Untold, ~env.wiped, ~env.evicted,
                      IndexOf(list, refresh.clip) # None, Quiet
               PROVE  told'.to = ClipAt(list, IndexOf(list, refresh.clip) + 1)
    BY DEF vars
  <2>1. SwitchEnd \/ SwitchOn
    BY DEF Next, RefreshStep, LoopStep, AppStep, PoolStep, Look, Show, Delay, SwitchNot, Switched, Post, End, Leave,
           LoopSeek, LoopSought, LoopUpdate, LoopExchange, PrepareCall, Insert, Delete, DeleteAll, Copy, SetSpeed,
           Toggle, Request, ReleaseScanned, ReleaseFirst, Release, Close, Closed, OpenClip, OpenNext
  <2> DEFINE p == PlayEntry
  <2>2. p \in Entries /\ pool[p].used /\ pool[p].id = refresh.clip
    BY <2>1, PlayEntryUsed DEF SwitchEnd, SwitchOn
  <2>3. pool[p].open
    BY <2>2, IndexRange DEF Inv, OpenHasId, Typed, ListTyped, Ids, None
  <2>4. pool[p].qi = IndexOf(list, refresh.clip)
    <3>1. ~Stale(p)
      BY <2>2, NoMover DEF Threads
    <3> QED BY <2>2, <2>3, <3>1 DEF Stale
  <2>5. IndexOf(list, refresh.clip) \in Nat /\ list \in Seq(Ids)
    BY IndexRange DEF Inv, Typed, ListTyped
  <2>6. CASE SwitchEnd
    <3>1. told'.to = None /\ Len(list) = pool[p].qi + 1
      BY <2>6 DEF SwitchEnd, Told
    <3>2. ClipAt(list, pool[p].qi + 1) = None
      BY <2>4, <2>5, <3>1 DEF ClipAt
    <3> QED BY <2>4, <3>1, <3>2
  <2>7. CASE SwitchOn
    <3>1. told'.to = ClipAt(list, pool[p].qi + 1)
      BY <2>7 DEF SwitchOn, Told
    <3> QED BY <2>4, <3>1
  <2> QED BY <2>1, <2>6, <2>7
<1>2. SwitchesToNext <=> [][Right]_vars
  BY DEF SwitchesToNext
<1> QED BY <1>1, <1>2, InvAlways, PTL DEF Spec
=============================================================================
