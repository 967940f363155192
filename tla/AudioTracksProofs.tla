------------------------- MODULE AudioTracksProofs -------------------------
(***************************************************************************)
(* Proofs about AudioTracks: the tracks, their clips and the number of     *)
(* tracks with clips stay in step (TracksInStep), a frame is not played    *)
(* under another serial than it was mixed under (NoOldSound), and frames   *)
(* are played in the order they were mixed in (PlaysInOrder), for any      *)
(* number of tracks, any queue and any number of calls.                    *)
(***************************************************************************)
EXTENDS AudioTracks, FiniteSetTheorems, WellFoundedInduction, TLAPS

(* What the state is made of.                                              *)

Track == [list : Seq(Ids), cur : Ids \cup {None}, ended : BOOLEAN]
Clip == [open : BOOLEAN, end : 0 .. MaxPos, freed : BOOLEAN]
Sound == [n : Nat, mixed : Nat]
Frame == [n : Nat, serial : Nat, mixed : Nat, full : BOOLEAN]

\* A list of distinct clips, all of them added and not freed; the current clip.
ListOK(l, cs, n) == IsInjective(l) /\ \A k \in 1 .. Len(l) : l[k] < n /\ ~cs[l[k]].freed
CurOK(tr, cs) ==
    /\ tr.list # <<>> => (tr.ended <=> tr.cur = None)
    /\ tr.list = <<>> => tr.cur = None
    /\ tr.cur # None => cs[tr.cur].open
Apart(l, m) == \A i \in 1 .. Len(l), j \in 1 .. Len(m) : l[i] # m[j]

Good(ts, cs, n) ==
    /\ ts \in [Tracks -> Track]
    /\ \A t \in Tracks : ListOK(ts[t].list, cs, n) /\ CurOK(ts[t], cs)
    /\ \A t, u \in Tracks : t # u => Apart(ts[t].list, ts[u].list)

Lists ==
    /\ clips \in [Ids -> Clip] /\ env.ids \in 0 .. MaxIds
    /\ \A c \in Ids : clips[c].freed => c < env.ids
    /\ Good(tracks, clips, env.ids)

Counted == audio.count \in Int /\ (~env.drift => audio.count = Cardinality(NonEmpty(tracks)))

AudioTyped ==
    /\ DOMAIN audio = {"count", "allEnded", "seek", "serial", "afChange", "processing", "abort", "queueAbort",
                       "paused", "held", "closed"}
    /\ audio.serial \in Nat

EnvTyped ==
    /\ DOMAIN env = {"ids", "frames", "events", "seeks", "astray", "kept", "drift", "late", "gone"}
    /\ env.frames \in Nat /\ env.frames <= MaxFrames

QueueTyped ==
    /\ queue \in [slot : [Slots -> Frame], windex : Slots, rindex : Slots, shown : BOOLEAN, size : 0 .. QueueSize]
    /\ callback.at = "got" => queue.size > 0
    /\ decode.at = "push" => queue.size < QueueSize

ThreadsTyped ==
    /\ decode \in [at : {"top", "loop", "feed", "drain", "room", "push", "drained", "dozing", "asleep", "done"},
                   track : 1 .. NTracks + 1, rebuild : BOOLEAN, local : Nat, built : BOOLEAN, frame : Sound,
                   slot : Slots]
    /\ decode.at = "feed" => decode.track \in Tracks
    /\ decode.local <= audio.serial
    /\ callback \in [at : {"idle", "wait", "got"}, slot : Slots, stale : BOOLEAN, last : Nat]
    /\ mutex \in {"free", "decode"}
    /\ graph \in Seq(Sound) /\ Len(graph) <= env.frames

AppTyped == app \in {"none", "edit", "volume"}

Typed == Lists /\ Counted /\ AudioTyped /\ EnvTyped /\ QueueTyped /\ ThreadsTyped /\ AppTyped

\* The frames in the mixer are of this serial, or the thread is about to handle a seek
\* (or has ended).
Fresh ==
    ~env.kept =>
        /\ (audio.seek /\ decode.at \in {"top", "done"}) \/ \A i \in 1 .. Len(graph) : graph[i].mixed = audio.serial
        /\ decode.at \in {"room", "push"} => decode.frame.mixed = audio.serial
        /\ \A s \in Slots : queue.slot[s].full => queue.slot[s].mixed = queue.slot[s].serial

\* The frames in the queue, from the one that is shown or the next one on.
At(q, i) == q.slot[(q.rindex + i) % QueueSize]
Shown(q) == IF q.shown THEN 1 ELSE 0
\* Frame m comes after every frame that was played or is in the queue.
Ahead(q, last, m) == m > last /\ \A i \in 0 .. q.size - 1 : m > At(q, i).n

\* Frames get their numbers in the mixer, and are in order on their way through the
\* thread and the queue.
Ordered(q, c, g, d, frames) ==
    /\ Shown(q) <= q.size
    /\ c.at = "got" => Shown(q) < q.size /\ c.slot = Readable(q)
    /\ \A i \in 0 .. q.size - 1 : i >= Shown(q) => At(q, i).n > c.last
    /\ \A i, j \in 0 .. q.size - 1 : i < j => At(q, i).n < At(q, j).n
    /\ Ahead(q, c.last, frames + 1)
    /\ \A i \in 1 .. Len(g) : Ahead(q, c.last, g[i].n) /\ g[i].n <= frames
    /\ \A i, j \in 1 .. Len(g) : i < j => g[i].n < g[j].n
    /\ d.at \in {"room", "push"} =>
        /\ Ahead(q, c.last, d.frame.n) /\ d.frame.n <= frames
        /\ \A i \in 1 .. Len(g) : d.frame.n < g[i].n

InOrder == ~env.astray => Ordered(queue, callback, graph, decode, env.frames)

-----------------------------------------------------------------------------
(* Lists.                                                                  *)

LEMMA Joined ==
    ASSUME NEW a \in Seq(Ids), NEW b \in Seq(Ids)
    PROVE  /\ a \o b \in Seq(Ids) /\ Len(a \o b) = Len(a) + Len(b)
           /\ \A i \in 1 .. Len(a) + Len(b) : (a \o b)[i] = IF i <= Len(a) THEN a[i] ELSE b[i - Len(a)]
OBVIOUS

\* What InsertAt and RemoveAt make of a list.
LEMMA Inserted ==
    ASSUME NEW l \in Seq(Ids), NEW k \in 0 .. Len(l), NEW e \in Ids
    PROVE  /\ InsertAt(l, k + 1, e) \in Seq(Ids)
           /\ Len(InsertAt(l, k + 1, e)) = Len(l) + 1
           /\ \A i \in 1 .. Len(l) + 1 :
                InsertAt(l, k + 1, e)[i] = IF i <= k THEN l[i] ELSE IF i = k + 1 THEN e ELSE l[i - 1]
<1> DEFINE a == SubSeq(l, 1, k)
           b == SubSeq(l, k + 1, Len(l))
<1>1. a \in Seq(Ids) /\ Len(a) = k /\ \A i \in 1 .. k : a[i] = l[i]
  OBVIOUS
<1>2. b \in Seq(Ids) /\ Len(b) = Len(l) - k /\ \A i \in 1 .. Len(b) : b[i] = l[k + i]
  OBVIOUS
<1>3. InsertAt(l, k + 1, e) = a \o <<e>> \o b
  <2>1. (k + 1) - 1 = k
    OBVIOUS
  <2> QED BY <2>1, Zenon DEF InsertAt
<1> HIDE DEF a, b
<1> DEFINE c == a \o <<e>>
<1>4. c \in Seq(Ids) /\ Len(c) = k + 1 /\ \A i \in 1 .. k + 1 : c[i] = IF i <= k THEN l[i] ELSE e
  BY <1>1
<1> HIDE DEF c
<1>5. InsertAt(l, k + 1, e) = c \o b
  BY <1>3 DEF c
<1>6. /\ c \o b \in Seq(Ids) /\ Len(c \o b) = Len(l) + 1
      /\ \A i \in 1 .. Len(l) + 1 : (c \o b)[i] = IF i <= k + 1 THEN c[i] ELSE b[i - (k + 1)]
  BY <1>2, <1>4
<1>7. ASSUME NEW i \in 1 .. Len(l) + 1
      PROVE  (c \o b)[i] = IF i <= k THEN l[i] ELSE IF i = k + 1 THEN e ELSE l[i - 1]
  <2>1. CASE i <= k + 1
    BY <1>4, <1>6, <2>1
  <2>2. CASE ~(i <= k + 1)
    <3>1. i - (k + 1) \in 1 .. Len(b)
      BY <1>2, <2>2
    <3>2. k + (i - (k + 1)) = i - 1
      OBVIOUS
    <3>3. b[i - (k + 1)] = l[k + (i - (k + 1))]
      BY <1>2, <3>1, Zenon
    <3> QED BY <1>6, <2>2, <3>2, <3>3
  <2> QED BY <2>1, <2>2
<1> DEFINE w == c \o b
<1>8. w \in Seq(Ids) /\ Len(w) = Len(l) + 1 /\ InsertAt(l, k + 1, e) = w
  BY <1>5, <1>6
<1>9. \A i \in 1 .. Len(l) + 1 : w[i] = IF i <= k THEN l[i] ELSE IF i = k + 1 THEN e ELSE l[i - 1]
  BY <1>7
<1> HIDE DEF w
<1> QED BY <1>8, <1>9

LEMMA Removed ==
    ASSUME NEW l \in Seq(Ids), NEW k \in Nat, k < Len(l)
    PROVE  /\ RemoveAt(l, k + 1) \in Seq(Ids)
           /\ Len(RemoveAt(l, k + 1)) = Len(l) - 1
           /\ \A i \in 1 .. Len(l) - 1 : RemoveAt(l, k + 1)[i] = IF i <= k THEN l[i] ELSE l[i + 1]
<1> DEFINE a == SubSeq(l, 1, k)
           b == SubSeq(l, k + 2, Len(l))
<1>1. a \in Seq(Ids) /\ Len(a) = k /\ \A i \in 1 .. k : a[i] = l[i]
  OBVIOUS
<1>2. b \in Seq(Ids) /\ Len(b) = Len(l) - k - 1 /\ \A i \in 1 .. Len(b) : b[i] = l[k + 1 + i]
  OBVIOUS
<1>3. RemoveAt(l, k + 1) = a \o b
  <2>1. (k + 1) - 1 = k /\ (k + 1) + 1 = k + 2
    OBVIOUS
  <2> QED BY <2>1, Zenon DEF RemoveAt
<1> HIDE DEF a, b
<1>4. /\ a \o b \in Seq(Ids) /\ Len(a \o b) = Len(l) - 1
      /\ \A i \in 1 .. Len(l) - 1 : (a \o b)[i] = IF i <= k THEN a[i] ELSE b[i - k]
  <2>1. Len(a) + Len(b) = Len(l) - 1
    BY <1>1, <1>2
  <2>2. /\ a \o b \in Seq(Ids) /\ Len(a \o b) = Len(a) + Len(b)
        /\ \A i \in 1 .. Len(a) + Len(b) : (a \o b)[i] = IF i <= Len(a) THEN a[i] ELSE b[i - Len(a)]
    BY <1>1, <1>2, Joined
  <2> QED BY <1>1, <2>1, <2>2
<1>5. ASSUME NEW i \in 1 .. Len(l) - 1
      PROVE  (a \o b)[i] = IF i <= k THEN l[i] ELSE l[i + 1]
  <2>1. CASE i <= k
    BY <1>1, <1>4, <2>1
  <2>2. CASE ~(i <= k)
    <3>1. i - k \in 1 .. Len(b) /\ (k + 1) + (i - k) = i + 1
      BY <1>2, <2>2
    <3> QED BY <1>2, <1>4, <2>2, <3>1
  <2> QED BY <2>1, <2>2
<1> QED BY <1>3, <1>4, <1>5

\* A list that a clip joins, or that a clip leaves, still has distinct clips.
LEMMA InsertedList ==
    ASSUME NEW l \in Seq(Ids), NEW k \in 0 .. Len(l), NEW e \in Ids, NEW cs, NEW n \in Int,
           ListOK(l, cs, n), \A i \in 1 .. Len(l) : l[i] # e, e < n, ~cs[e].freed
    PROVE  /\ InsertAt(l, k + 1, e) \in Seq(Ids) /\ InsertAt(l, k + 1, e) # <<>>
           /\ ListOK(InsertAt(l, k + 1, e), cs, n)
           /\ \A m \in Seq(Ids) : Apart(l, m) /\ (\A i \in 1 .. Len(m) : m[i] # e) =>
                Apart(InsertAt(l, k + 1, e), m) /\ Apart(m, InsertAt(l, k + 1, e))
<1> DEFINE w == InsertAt(l, k + 1, e)
<1>1. /\ w \in Seq(Ids) /\ Len(w) = Len(l) + 1
      /\ \A i \in 1 .. Len(l) + 1 : w[i] = IF i <= k THEN l[i] ELSE IF i = k + 1 THEN e ELSE l[i - 1]
  BY Inserted
<1> HIDE DEF w
<1>2. ASSUME NEW i \in 1 .. Len(w), i # k + 1
      PROVE  LET j == IF i <= k THEN i ELSE i - 1 IN j \in 1 .. Len(l) /\ w[i] = l[j]
  BY <1>1, <1>2
<1>3. w[k + 1] = e /\ k + 1 \in 1 .. Len(w)
  BY <1>1
<1>4. ASSUME NEW a \in 1 .. Len(w), NEW b \in 1 .. Len(w), a # b PROVE w[a] # w[b]
  <2>1. CASE a = k + 1
    BY <1>2, <1>3, <1>4, <2>1
  <2>2. CASE b = k + 1
    BY <1>2, <1>3, <1>4, <2>2
  <2>3. CASE a # k + 1 /\ b # k + 1
    <3> DEFINE i == IF a <= k THEN a ELSE a - 1
               j == IF b <= k THEN b ELSE b - 1
    <3>1. i \in 1 .. Len(l) /\ w[a] = l[i] /\ j \in 1 .. Len(l) /\ w[b] = l[j]
      BY <1>2, <2>3
    <3>2. i # j
      BY <1>4, <2>3
    <3> HIDE DEF i, j
    <3>3. l[i] # l[j]
      BY <3>1, <3>2 DEF ListOK, IsInjective
    <3> QED BY <3>1, <3>3
  <2> QED BY <2>1, <2>2, <2>3
<1>5. IsInjective(w)
  <2>1. DOMAIN w = 1 .. Len(w)
    BY <1>1
  <2> QED BY <1>4, <2>1 DEF IsInjective
<1>6. ASSUME NEW i \in 1 .. Len(w) PROVE w[i] < n /\ ~cs[w[i]].freed
  BY <1>2, <1>3 DEF ListOK
<1>7. ASSUME NEW m \in Seq(Ids), Apart(l, m), \A i \in 1 .. Len(m) : m[i] # e
      PROVE  Apart(w, m) /\ Apart(m, w)
  BY <1>2, <1>3, <1>7 DEF Apart
<1>8. w # <<>>
  BY <1>1
<1> QED BY <1>1, <1>5, <1>6, <1>7, <1>8 DEF ListOK, w

LEMMA RemovedList ==
    ASSUME NEW l \in Seq(Ids), NEW k \in Nat, k < Len(l), NEW cs, NEW n \in Int, ListOK(l, cs, n)
    PROVE  /\ RemoveAt(l, k + 1) \in Seq(Ids)
           /\ RemoveAt(l, k + 1) = <<>> <=> Len(l) = 1
           /\ ListOK(RemoveAt(l, k + 1), cs, n)
           /\ \A i \in 1 .. Len(RemoveAt(l, k + 1)) : RemoveAt(l, k + 1)[i] # l[k + 1]
           /\ \A m \in Seq(Ids) : Apart(l, m) =>
                Apart(RemoveAt(l, k + 1), m) /\ Apart(m, RemoveAt(l, k + 1))
<1> DEFINE w == RemoveAt(l, k + 1)
<1>1. /\ w \in Seq(Ids) /\ Len(w) = Len(l) - 1
      /\ \A i \in 1 .. Len(l) - 1 : w[i] = IF i <= k THEN l[i] ELSE l[i + 1]
  BY Removed
<1> HIDE DEF w
<1>2. ASSUME NEW i \in 1 .. Len(w)
      PROVE  LET j == IF i <= k THEN i ELSE i + 1 IN j \in 1 .. Len(l) /\ j # k + 1 /\ w[i] = l[j]
  BY <1>1
<1>3. ASSUME NEW a \in 1 .. Len(w), NEW b \in 1 .. Len(w), a # b PROVE w[a] # w[b]
  <2> DEFINE i == IF a <= k THEN a ELSE a + 1
             j == IF b <= k THEN b ELSE b + 1
  <2>1. i \in 1 .. Len(l) /\ w[a] = l[i] /\ j \in 1 .. Len(l) /\ w[b] = l[j]
    BY <1>2
  <2>2. i # j
    BY <1>3
  <2> HIDE DEF i, j
  <2> QED BY <2>1, <2>2 DEF ListOK, IsInjective
<1>4. IsInjective(w)
  <2>1. DOMAIN w = 1 .. Len(w)
    BY <1>1
  <2> QED BY <1>3, <2>1 DEF IsInjective
<1>5. ASSUME NEW i \in 1 .. Len(w) PROVE w[i] < n /\ ~cs[w[i]].freed /\ w[i] # l[k + 1]
  <2> DEFINE j == IF i <= k THEN i ELSE i + 1
  <2>1. j \in 1 .. Len(l) /\ j # k + 1 /\ w[i] = l[j]
    BY <1>2
  <2> HIDE DEF j
  <2> QED BY <2>1 DEF ListOK, IsInjective
<1>6. ASSUME NEW m \in Seq(Ids), Apart(l, m) PROVE Apart(w, m) /\ Apart(m, w)
  BY <1>2, <1>6 DEF Apart
<1>7. w = <<>> <=> Len(l) = 1
  BY <1>1
<1> QED BY <1>1, <1>4, <1>5, <1>6, <1>7 DEF ListOK, w

-----------------------------------------------------------------------------
(* Tracks.                                                                 *)

\* A track is replaced by another one that has its clips for itself ...
LEMMA GoodPut ==
    ASSUME NEW ts, NEW cs, NEW n \in Int, Good(ts, cs, n), NEW t \in Tracks, NEW w \in Track,
           ListOK(w.list, cs, n), CurOK(w, cs),
           \A u \in Tracks : u # t => Apart(ts[u].list, w.list) /\ Apart(w.list, ts[u].list)
    PROVE  Good([ts EXCEPT ![t] = w], cs, n)
<1> DEFINE m == [ts EXCEPT ![t] = w]
<1>1. m \in [Tracks -> Track] /\ m[t] = w /\ \A u \in Tracks : u # t => m[u] = ts[u]
  BY DEF Good
<1> HIDE DEF m
<1>2. \A u \in Tracks : ListOK(m[u].list, cs, n) /\ CurOK(m[u], cs)
  BY <1>1, Zenon DEF Good
<1>3. ASSUME NEW a \in Tracks, NEW b \in Tracks, a # b PROVE Apart(m[a].list, m[b].list)
  <2>1. CASE a = t
    BY <1>1, <1>3, <2>1
  <2>2. CASE b = t
    BY <1>1, <1>3, <2>2
  <2>3. CASE a # t /\ b # t
    <3>1. Apart(ts[a].list, ts[b].list)
      BY <1>3 DEF Good
    <3> QED BY <1>1, <2>3, <3>1
  <2> QED BY <2>1, <2>2, <2>3
<1> QED BY <1>1, <1>2, <1>3 DEF Good, m

\* ... and the tracks with clips may be one more or one less.
LEMMA FewTracks == \A ts : IsFiniteSet(NonEmpty(ts)) /\ Cardinality(NonEmpty(ts)) \in Nat
<1> SUFFICES ASSUME NEW ts PROVE IsFiniteSet(NonEmpty(ts)) /\ Cardinality(NonEmpty(ts)) \in Nat
  OBVIOUS
<1>1. IsFiniteSet(Tracks)
  BY AudioAssumption, FS_Interval DEF Tracks
<1>2. NonEmpty(ts) \subseteq Tracks
  BY DEF NonEmpty
<1> QED BY <1>1, <1>2, FS_Subset, FS_CardinalityType

One(b) == IF b THEN 1 ELSE 0

LEMMA CountPut ==
    ASSUME NEW ts \in [Tracks -> Track], NEW t \in Tracks, NEW w
    PROVE  Cardinality(NonEmpty([ts EXCEPT ![t] = w]))
             = Cardinality(NonEmpty(ts)) + One(w.list # <<>>) - One(ts[t].list # <<>>)
<1> DEFINE m == [ts EXCEPT ![t] = w]
           a == NonEmpty(ts)
           b == NonEmpty(m)
<1>1. m[t] = w /\ \A u \in Tracks : u # t => m[u] = ts[u]
  OBVIOUS
<1>2. (t \in a <=> ts[t].list # <<>>) /\ (t \in b <=> w.list # <<>>)
  BY <1>1 DEF NonEmpty
<1>3. \A u : u # t => (u \in a <=> u \in b)
  BY <1>1 DEF NonEmpty
<1>4. IsFiniteSet(a) /\ Cardinality(a) \in Nat
  BY FewTracks
<1> HIDE DEF a, b, m
<1>5. CASE t \in a /\ t \in b
  <2>1. a = b
    BY <1>3, <1>5
  <2> QED BY <1>2, <1>4, <1>5, <2>1 DEF One, a, b, m
<1>6. CASE t \notin a /\ t \notin b
  <2>1. a = b
    BY <1>3, <1>6
  <2> QED BY <1>2, <1>4, <1>6, <2>1 DEF One, a, b, m
<1>7. CASE t \in a /\ t \notin b
  <2>1. b = a \ {t}
    BY <1>3, <1>7
  <2>2. Cardinality(b) = Cardinality(a) - 1
    BY <1>4, <1>7, <2>1, FS_RemoveElement
  <2> QED BY <1>2, <1>4, <1>7, <2>2 DEF One, a, b, m
<1>8. CASE t \notin a /\ t \in b
  <2>1. b = a \cup {t}
    BY <1>3, <1>8
  <2>2. Cardinality(b) = Cardinality(a) + 1
    BY <1>4, <1>8, <2>1, FS_AddElement
  <2> QED BY <1>2, <1>4, <1>8, <2>2 DEF One, a, b, m
<1> QED BY <1>5, <1>6, <1>7, <1>8

\* Going on to the next clip.
LEMMA AfterType == \A ts, c : After(ts, c) \in Ids \cup {None}
<1> SUFFICES ASSUME NEW ts, NEW c PROVE After(ts, c) \in Ids \cup {None}
  OBVIOUS
<1> DEFINE next == {x \in Ids : \E t \in Tracks, k \in 1 .. MaxIds - 1 :
                      k < Len(ts[t].list) /\ ts[t].list[k] = c /\ ts[t].list[k + 1] = x}
<1>1. After(ts, c) = IF next = {} THEN None ELSE CHOOSE x \in next : TRUE
  BY DEF After
<1>2. next \subseteq Ids
  OBVIOUS
<1> HIDE DEF next
<1> QED BY <1>1, <1>2

LEMMA SwapTrack ==
    ASSUME NEW ts, NEW cs, NEW n, Good(ts, cs, n), NEW t \in Tracks, ts[t].cur # None, NEW s
    PROVE  /\ Swap(ts, cs, t, s).track \in Track
           /\ Swap(ts, cs, t, s).track.list = ts[t].list
           /\ CurOK(Swap(ts, cs, t, s).track, cs)
<1> DEFINE tr == ts[t]
           next == After(ts, tr.cur)
           ended == [tr EXCEPT !.ended = TRUE, !.cur = None]
           moved == [tr EXCEPT !.cur = next]
<1>1. tr \in Track /\ CurOK(tr, cs) /\ tr.list # <<>> /\ tr.cur # None
  BY DEF Good, CurOK
<1>2. next \in Ids \cup {None}
  BY AfterType
<1>3. ended \in Track /\ ended.list = tr.list /\ CurOK(ended, cs)
  BY <1>1 DEF Track, CurOK
<1>4. CASE tr.list # <<>> /\ Last(tr.list) = tr.cur
  <2>1. Swap(ts, cs, t, s).track = ended
    BY <1>4 DEF Swap
  <2> QED BY <1>3, <2>1
<1>5. CASE ~(tr.list # <<>> /\ Last(tr.list) = tr.cur) /\ next # None /\ cs[next].open /\ s
  <2>1. Swap(ts, cs, t, s).track = moved
    BY <1>5 DEF Swap
  <2>2. moved \in Track /\ moved.list = tr.list /\ CurOK(moved, cs)
    BY <1>1, <1>2, <1>5 DEF Track, CurOK
  <2> QED BY <2>1, <2>2
<1>6. CASE ~(tr.list # <<>> /\ Last(tr.list) = tr.cur) /\ ~(next # None /\ cs[next].open /\ s)
  <2>1. Swap(ts, cs, t, s).track = tr
    BY <1>6 DEF Swap
  <2> QED BY <1>1, <2>1
<1> QED BY <1>4, <1>5, <1>6

\* A clip leaves its track ...
LEMMA WithoutGood ==
    ASSUME NEW n \in Int, Good(tracks, clips, n), NEW t \in Tracks, NEW i \in Nat, i < Len(tracks[t].list), NEW s
    PROVE  /\ Good([tracks EXCEPT ![t] = Without(t, i, s)], clips, n)
           /\ Without(t, i, s) \in Track
           /\ \A u \in Tracks : LET m == [tracks EXCEPT ![t] = Without(t, i, s)][u].list IN
                \A k \in 1 .. Len(m) : m[k] # tracks[t].list[i + 1]
<1> DEFINE l == tracks[t].list
           c == l[i + 1]
           tr == IF tracks[t].cur = c THEN Swap(tracks, clips, t, s).track ELSE tracks[t]
           rest == RemoveAt(l, i + 1)
           w == Without(t, i, s)
<1>1. tracks[t] \in Track /\ l \in Seq(Ids) /\ ListOK(l, clips, n) /\ l # <<>> /\ c \in Ids /\ c # None
  <2>1. tracks[t] \in Track /\ l \in Seq(Ids) /\ ListOK(l, clips, n) /\ l # <<>>
    BY DEF Good, Track
  <2>2. c \in Ids
    BY <2>1
  <2> QED BY <2>1, <2>2 DEF Ids, None
<1>2. tr \in Track /\ tr.list = l /\ CurOK(tr, clips)
  <2>1. CASE tracks[t].cur = c
    <3>1. tracks[t].cur # None
      BY <1>1, <2>1
    <3>2. /\ Swap(tracks, clips, t, s).track \in Track
          /\ Swap(tracks, clips, t, s).track.list = l
          /\ CurOK(Swap(tracks, clips, t, s).track, clips)
      BY <3>1, SwapTrack, Zenon
    <3>3. tr = Swap(tracks, clips, t, s).track
      BY <2>1
    <3> HIDE DEF tr
    <3> QED BY <3>2, <3>3
  <2>2. CASE tracks[t].cur # c
    BY <2>2, <1>1 DEF Good
  <2> QED BY <2>1, <2>2
<1>3. /\ rest \in Seq(Ids) /\ ListOK(rest, clips, n)
      /\ \A k \in 1 .. Len(rest) : rest[k] # c
      /\ \A m \in Seq(Ids) : Apart(l, m) => Apart(rest, m) /\ Apart(m, rest)
  BY <1>1, RemovedList, Zenon
<1>4. w = IF rest = <<>> THEN [list |-> rest, cur |-> None, ended |-> TRUE] ELSE [tr EXCEPT !.list = rest]
  <2>1. RemoveAt(tr.list, i + 1) = rest
    BY <1>2, Zenon
  <2> QED BY <2>1, Zenon DEF Without
<1> HIDE DEF tr, rest, w
<1>5. w \in Track /\ w.list = rest /\ CurOK(w, clips)
  <2>1. CASE rest = <<>>
    BY <1>3, <1>4, <2>1 DEF Track, CurOK
  <2>2. CASE rest # <<>>
    BY <1>1, <1>2, <1>3, <1>4, <2>2 DEF Track, CurOK
  <2> QED BY <2>1, <2>2
<1>6. ASSUME NEW u \in Tracks, u # t
      PROVE  Apart(tracks[u].list, w.list) /\ Apart(w.list, tracks[u].list)
  <2>1. Apart(l, tracks[u].list) /\ tracks[u].list \in Seq(Ids)
    BY <1>6 DEF Good, Track
  <2> QED BY <1>3, <1>5, <2>1
<1>7. Good([tracks EXCEPT ![t] = w], clips, n)
  <2> HIDE DEF l, c
  <2> QED BY <1>3, <1>5, <1>6, GoodPut
<1>8. ASSUME NEW u \in Tracks
      PROVE  LET m == [tracks EXCEPT ![t] = w][u].list IN \A k \in 1 .. Len(m) : m[k] # c
  <2>1. CASE u = t
    <3>1. [tracks EXCEPT ![t] = w][u].list = rest
      BY <1>5, <2>1 DEF Good
    <3> QED BY <1>3, <3>1
  <2>2. CASE u # t
    <3>1. [tracks EXCEPT ![t] = w][u].list = tracks[u].list /\ Apart(l, tracks[u].list)
      BY <2>2 DEF Good
    <3>2. i + 1 \in 1 .. Len(l)
      BY <1>1
    <3> QED BY <3>1, <3>2 DEF Apart
  <2> QED BY <2>1, <2>2
<1> QED BY <1>5, <1>7, <1>8 DEF w

\* ... or joins one.
LEMMA WithGood ==
    ASSUME NEW ts, NEW cs, NEW n \in Int, Good(ts, cs, n), NEW t \in Tracks, NEW i \in Nat, i <= Len(ts[t].list),
           NEW c \in Ids, c < n, ~cs[c].freed, \A u \in Tracks : \A k \in 1 .. Len(ts[u].list) : ts[u].list[k] # c
    PROVE  /\ Good([ts EXCEPT ![t] = With(ts[t], i, c)], cs, n)
           /\ With(ts[t], i, c) \in Track /\ With(ts[t], i, c).list # <<>>
<1> DEFINE l == ts[t].list
           w == With(ts[t], i, c)
           m == InsertAt(l, i + 1, c)
<1>1. ts[t] \in Track /\ l \in Seq(Ids) /\ ListOK(l, cs, n) /\ CurOK(ts[t], cs)
  BY DEF Good, Track
<1>2. CASE l = <<>>
  <2>1. w = [list |-> <<c>>, cur |-> None, ended |-> TRUE]
    BY <1>2 DEF With
  <2> HIDE DEF w
  <2>2. w \in Track /\ CurOK(w, cs) /\ w.list = <<c>> /\ w.list # <<>>
    BY <2>1 DEF Track, CurOK
  <2>3. ListOK(w.list, cs, n)
    BY <2>2 DEF ListOK, IsInjective
  <2>4. \A u \in Tracks : u # t => Apart(ts[u].list, w.list) /\ Apart(w.list, ts[u].list)
    BY <2>2 DEF Apart
  <2>5. Good([ts EXCEPT ![t] = w], cs, n)
    BY <2>2, <2>3, <2>4, GoodPut
  <2> QED BY <2>2, <2>5 DEF w
<1>3. CASE l # <<>>
  <2>1. w = [ts[t] EXCEPT !.list = m]
    BY <1>3 DEF With
  <2>2. /\ m \in Seq(Ids) /\ m # <<>> /\ ListOK(m, cs, n)
        /\ \A q \in Seq(Ids) : Apart(l, q) /\ (\A k \in 1 .. Len(q) : q[k] # c) => Apart(m, q) /\ Apart(q, m)
    <3>1. i \in 0 .. Len(l)
      BY <1>1
    <3> HIDE DEF l
    <3>2. \A k \in 1 .. Len(l) : l[k] # c
      BY DEF l
    <3> QED BY <1>1, <3>1, <3>2, InsertedList
  <2> HIDE DEF w, m
  <2>3. w \in Track /\ w.list = m /\ CurOK(w, cs)
    BY <1>1, <1>3, <2>1, <2>2 DEF Track, CurOK
  <2>4. ASSUME NEW u \in Tracks, u # t PROVE Apart(ts[u].list, w.list) /\ Apart(w.list, ts[u].list)
    <3>1. Apart(l, ts[u].list) /\ ts[u].list \in Seq(Ids)
      BY <2>4 DEF Good, Track
    <3> QED BY <2>2, <2>3, <3>1
  <2>5. Good([ts EXCEPT ![t] = w], cs, n)
    BY <2>2, <2>3, <2>4, GoodPut
  <2> QED BY <2>2, <2>3, <2>5 DEF w
<1> QED BY <1>2, <1>3

-----------------------------------------------------------------------------
(* Every step keeps the types and the lists.                               *)

\* What a step leaves alone that does not touch the clips or the application.
Quiet ==
    /\ UNCHANGED <<tracks, clips, app>>
    /\ env'.ids = env.ids /\ env'.drift = env.drift /\ audio'.count = audio.count

LEMMA ListsSame ==
    ASSUME Typed, tracks' \in [Tracks -> Track], \A t \in Tracks : tracks'[t].list = tracks[t].list,
           \A t \in Tracks : CurOK(tracks'[t], clips'),
           clips' \in [Ids -> Clip], \A c \in Ids : clips'[c].freed = clips[c].freed,
           env'.ids = env.ids, env'.drift = env.drift, audio'.count = audio.count
    PROVE  Lists' /\ Counted'
<1> USE DEF Typed, Lists
<1>1. \A t \in Tracks : tracks[t].list \in Seq(Ids)
  BY DEF Good, Track
<1>2. \A t \in Tracks : ListOK(tracks'[t].list, clips', env'.ids)
  <2> SUFFICES ASSUME NEW t \in Tracks PROVE ListOK(tracks[t].list, clips', env'.ids)
    OBVIOUS
  <2>1. ListOK(tracks[t].list, clips, env.ids)
    BY DEF Good
  <2>2. \A k \in 1 .. Len(tracks[t].list) : tracks[t].list[k] \in Ids
    BY <1>1
  <2> QED BY <2>1, <2>2 DEF ListOK
<1>3. \A t, u \in Tracks : t # u => Apart(tracks'[t].list, tracks'[u].list)
  BY DEF Good
<1>4. Good(tracks, clips, env.ids)' <=> Good(tracks', clips', env'.ids)
  BY DEF Good, ListOK, CurOK, Apart
<1>5. Lists'
  BY <1>2, <1>3, <1>4 DEF Good
<1>6. NonEmpty(tracks)' = NonEmpty(tracks)
  BY DEF NonEmpty
<1> QED BY <1>5, <1>6 DEF Counted

LEMMA QuietLists == Typed /\ Quiet => Lists' /\ Counted' /\ AppTyped'
<1> SUFFICES ASSUME Typed, Quiet PROVE Lists' /\ Counted' /\ AppTyped'
  OBVIOUS
<1>1. /\ tracks \in [Tracks -> Track] /\ \A t \in Tracks : CurOK(tracks[t], clips)
      /\ clips \in [Ids -> Clip]
  BY DEF Typed, Lists, Good
<1>2. tracks' = tracks /\ clips' = clips /\ app' = app
  BY DEF Quiet
<1>3. Lists' /\ Counted'
  BY <1>1, <1>2, ListsSame DEF Quiet
<1>4. AppTyped'
  BY <1>2 DEF Quiet, Typed, AppTyped
<1> QED BY <1>3, <1>4

LEMMA QuietKeeps == Typed /\ Quiet /\ AudioTyped' /\ EnvTyped' /\ QueueTyped' /\ ThreadsTyped' => Typed'
BY QuietLists DEF Typed

\* The thread gets the mutex.
LEMMA ConfigureKeeps ==
    ASSUME Typed, decode.at # "push", NEW ts, NEW a, Configure(ts, a), a.serial \in Nat, audio.serial <= a.serial,
           DOMAIN a = DOMAIN audio, mutex' = "decode", UNCHANGED <<queue, callback>>,
           DOMAIN env' = DOMAIN env, env'.frames = env.frames
    PROVE  /\ AudioTyped' /\ EnvTyped' /\ QueueTyped' /\ ThreadsTyped' /\ audio'.count = a.count
           /\ audio'.serial = a.serial
<1> USE DEF Typed
<1> DEFINE l == IF NeedsGraph(ts, a) THEN a.serial ELSE decode.local
           b == decode.built \/ Builds(ts, a)
<1>1. decode' = [decode EXCEPT !.at = "loop", !.track = 1, !.local = l, !.built = b]
  BY DEF Configure
<1>2. /\ audio' = IF NeedsGraph(ts, a) THEN [a EXCEPT !.afChange = FALSE] ELSE a
      /\ graph' = IF Builds(ts, a) THEN <<>> ELSE graph
  BY DEF Configure
<1>3. AudioTyped' /\ audio'.serial = a.serial /\ audio'.count = a.count
  BY <1>2 DEF AudioTyped
<1>4. EnvTyped'
  BY DEF EnvTyped
<1>5. l \in Nat /\ l <= a.serial /\ b \in BOOLEAN
  BY DEF ThreadsTyped, AudioTyped
<1>6. 1 \in 1 .. NTracks + 1
  BY AudioAssumption
<1> HIDE DEF l, b
<1>7. graph' \in Seq(Sound) /\ Len(graph') <= env.frames
  BY <1>2 DEF ThreadsTyped, EnvTyped
<1>8. ThreadsTyped'
  BY <1>1, <1>3, <1>5, <1>6, <1>7 DEF ThreadsTyped
<1>9. QueueTyped'
  BY <1>1 DEF QueueTyped, ThreadsTyped
<1> QED BY <1>3, <1>4, <1>8, <1>9

LEMMA EnterKeeps == Typed /\ Enter => Typed'
<1> SUFFICES ASSUME Typed, Enter PROVE Typed'
  OBVIOUS
<1>1. env' = [env EXCEPT !.gone = UsesFreed \/ LinksNothing(tracks, audio)]
  BY DEF Enter
<1>2. /\ DOMAIN env' = DOMAIN env /\ env'.frames = env.frames /\ env'.ids = env.ids
      /\ env'.drift = env.drift
  BY <1>1 DEF Typed, EnvTyped
<1>3. /\ AudioTyped' /\ EnvTyped' /\ QueueTyped' /\ ThreadsTyped' /\ audio'.count = audio.count
  BY <1>2, ConfigureKeeps DEF Enter, Enters, Typed, AudioTyped
<1> QED BY <1>2, <1>3, QuietKeeps DEF Quiet, Enter

\* The smallest of some numbers.
LEMMA SmallestOf ==
    ASSUME NEW S, S \subseteq Nat, S # {}
    PROVE  \E x \in S : \A y \in S : x <= y
<1>1. \E x \in S : \A y \in S : ~(<<y, x>> \in OpToRel(<, Nat))
  BY WFMin, NatLessThanWellFounded
<1>2. \A x, y \in Nat : <<y, x>> \in OpToRel(<, Nat) <=> y < x
  BY DEF OpToRel
<1>3. PICK x \in S : \A y \in S : ~(y < x)
  BY <1>1, <1>2
<1> QED BY <1>3

\* A seek gives every counted track its clip of the position, or none.
LEMMA SoughtLists ==
    ASSUME Typed, NEW k, NEW p, NEW opened, Sought(k, p, opened), env'.ids = env.ids, env'.drift = env.drift, audio'.count = audio.count,
           app' = app
    PROVE  Lists' /\ Counted' /\ AppTyped'
<1> USE DEF Typed
<1> DEFINE seen == {t \in Reached(tracks, audio.count) : t < k}
           chosen == {Target(tracks[t], p) : t \in seen} \cup opened
<1>1. tracks' = [t \in Tracks |-> IF t \in seen THEN SoughtTrack(tracks[t], p) ELSE tracks[t]]
  BY DEF Sought
<1>2. clips' = [c \in Ids |-> [clips[c] EXCEPT !.open = @ \/ c \in chosen]]
  BY DEF Sought
<1>3. \A t \in Tracks : tracks[t] \in Track /\ CurOK(tracks[t], clips)
  BY DEF Lists, Good
<1>4. seen \subseteq Tracks /\ \A t \in seen : tracks[t].list # <<>>
  BY DEF Reached, NonEmpty
<1>5. ASSUME NEW t \in Tracks PROVE Target(tracks[t], p) \in Ids \cup {None}
  <2> DEFINE ok == {j \in 1 .. Len(tracks[t].list) : p <= clips[tracks[t].list[j]].end}
             first == CHOOSE j \in ok : \A j2 \in ok : j <= j2
  <2>1. Target(tracks[t], p) = IF ok = {} THEN None ELSE tracks[t].list[first]
    BY DEF Target
  <2>2. CASE ok # {}
    <3>1. ok \subseteq Nat
      BY <1>3 DEF Track
    <3>2. \E j \in ok : \A j2 \in ok : j <= j2
      <4>1. PICK j0 \in ok : TRUE
        BY <2>2
      <4> QED BY <3>1, <2>2, SmallestOf
    <3>3. first \in ok
      BY <3>2
    <3>4. first \in 1 .. Len(tracks[t].list)
      BY <3>3
    <3>5. tracks[t].list \in Seq(Ids)
      BY <1>3 DEF Track
    <3> HIDE DEF first, ok
    <3>6. tracks[t].list[first] \in Ids
      BY <3>4, <3>5
    <3> QED BY <2>1, <2>2, <3>6
  <2>3. CASE ok = {}
    BY <2>1, <2>3
  <2> QED BY <2>2, <2>3
<1>6. \A t \in Tracks : tracks'[t].list = tracks[t].list /\ tracks'[t] \in Track
  <2> SUFFICES ASSUME NEW t \in Tracks PROVE tracks'[t].list = tracks[t].list /\ tracks'[t] \in Track
    OBVIOUS
  <2> HIDE DEF seen
  <2>1. CASE t \in seen
    <3>1. tracks'[t] = [tracks[t] EXCEPT !.cur = Target(tracks[t], p), !.ended = Target(tracks[t], p) = None]
      BY <1>1, <2>1 DEF SoughtTrack
    <3> QED BY <1>3, <1>5, <3>1 DEF Track
  <2>2. CASE t \notin seen
    BY <1>1, <1>3, <2>2
  <2> QED BY <2>1, <2>2
<1>7. /\ clips' \in [Ids -> Clip]
      /\ \A c \in Ids : clips'[c].freed = clips[c].freed /\ (clips'[c].open <=> clips[c].open \/ c \in chosen)
  <2> HIDE DEF chosen
  <2>1. \A c \in Ids : clips[c] \in Clip
    BY DEF Lists
  <2> DEFINE b(c) == clips[c].open \/ c \in chosen
  <2>2. \A c \in Ids : b(c) \in BOOLEAN
    BY <2>1 DEF Clip
  <2>3. clips' = [c \in Ids |-> [clips[c] EXCEPT !.open = b(c)]]
    BY <1>2
  <2> HIDE DEF b
  <2>4. /\ clips' \in [Ids -> Clip]
        /\ \A c \in Ids : clips'[c].freed = clips[c].freed /\ (clips'[c].open = b(c))
    BY <2>1, <2>2, <2>3 DEF Clip
  <2> QED BY <2>4 DEF b
<1>8. \A t \in Tracks : CurOK(tracks'[t], clips')
  <2> SUFFICES ASSUME NEW t \in Tracks PROVE CurOK(tracks'[t], clips')
    OBVIOUS
  <2>1. CASE t \in seen
    <3> DEFINE c == Target(tracks[t], p)
               e == c = None
    <3>1. c # None => c \in chosen
      BY <2>1
    <3>2. tracks'[t] = [tracks[t] EXCEPT !.cur = c, !.ended = e]
      BY <1>1, <2>1 DEF SoughtTrack
    <3>3. c \in Ids \cup {None} /\ tracks[t].list # <<>>
      BY <1>4, <1>5, <2>1
    <3>4. c # None => clips'[c].open
      BY <1>7, <3>1, <3>3
    <3> HIDE DEF c, seen, chosen
    <3>5. tracks'[t].cur = c /\ tracks'[t].list = tracks[t].list /\ (tracks'[t].ended <=> c = None)
      BY <1>3, <3>2 DEF Track
    <3> QED BY <3>3, <3>4, <3>5 DEF CurOK
  <2>2. CASE t \notin seen
    <3>1. tracks'[t] = tracks[t]
      BY <1>1, <2>2
    <3>2. tracks[t].cur \in Ids \cup {None}
      BY <1>3 DEF Track
    <3> QED BY <1>3, <1>7, <3>1, <3>2 DEF CurOK
  <2> QED BY <2>1, <2>2
<1>9. tracks' \in [Tracks -> Track]
  <2> HIDE DEF seen
  <2> QED BY <1>1, <1>6
<1>10. Lists' /\ Counted'
  <2> HIDE DEF seen, chosen
  <2> QED BY <1>6, <1>7, <1>8, <1>9, ListsSame
<1>11. AppTyped'
  BY DEF AppTyped
<1> QED BY <1>10, <1>11

LEMMA EnterSeekKeeps == Typed /\ EnterSeek => Typed'
<1> SUFFICES ASSUME Typed, EnterSeek PROVE Typed'
  OBVIOUS
<1> DEFINE a == [audio EXCEPT !.seek = FALSE, !.serial = @ + 1]
           kept == env.kept \/ (graph' # <<>> /\ AllEnded(tracks'))
           gone == UsesFreed \/ LinksNothing(tracks', a)
<1>1. Configure(tracks', a) /\ env' = [env EXCEPT !.kept = kept, !.gone = gone]
  BY DEF EnterSeek
<1>2. /\ a.serial \in Nat /\ audio.serial <= a.serial /\ DOMAIN a = DOMAIN audio /\ a.count = audio.count
  BY DEF Typed, AudioTyped
<1> HIDE DEF a, kept, gone
<1>3. /\ DOMAIN env' = DOMAIN env /\ env'.frames = env.frames /\ env'.ids = env.ids
      /\ env'.drift = env.drift
  BY <1>1 DEF Typed, EnvTyped
<1>4. /\ AudioTyped' /\ EnvTyped' /\ QueueTyped' /\ ThreadsTyped' /\ audio'.count = audio.count
  BY <1>1, <1>2, <1>3, ConfigureKeeps DEF EnterSeek, Enters
<1>5. PICK p \in Positions : Sought(NTracks + 1, p, {})
  BY DEF EnterSeek
<1>6. Lists' /\ Counted' /\ AppTyped'
  BY <1>3, <1>4, <1>5, SoughtLists DEF EnterSeek
<1> QED BY <1>4, <1>6 DEF Typed

LEMMA EnterSeekFailsKeeps == Typed /\ EnterSeekFails => Typed'
<1> SUFFICES ASSUME Typed, EnterSeekFails PROVE Typed'
  OBVIOUS
<1>1. /\ env' = [env EXCEPT !.events = @ - 1, !.gone = UsesFreed]
      /\ audio' = [audio EXCEPT !.serial = @ + 1]
      /\ UNCHANGED <<mutex, graph, queue, decode, callback, app>>
  BY DEF EnterSeekFails
<1>2. /\ DOMAIN env' = DOMAIN env /\ env'.frames = env.frames /\ env'.ids = env.ids
      /\ env'.drift = env.drift
  BY <1>1 DEF Typed, EnvTyped
<1>3. AudioTyped' /\ audio'.count = audio.count /\ audio'.serial = audio.serial + 1
  BY <1>1 DEF Typed, AudioTyped
<1>0. PICK t \in Reached(tracks, audio.count), p \in Positions :
        \E opened \in {{}, {Target(tracks[t], p)}} : Sought(t, p, opened)
  BY DEF EnterSeekFails
<1>4. PICK opened \in {{}, {Target(tracks[t], p)}} : Sought(t, p, opened)
  BY <1>0
<1>5. Lists' /\ Counted' /\ AppTyped'
  BY <1>1, <1>2, <1>3, <1>4, SoughtLists
<1>6. EnvTyped' /\ QueueTyped'
  BY <1>1, <1>2 DEF Typed, EnvTyped, QueueTyped
<1>7. ThreadsTyped'
  BY <1>1, <1>2, <1>3 DEF Typed, ThreadsTyped, AudioTyped
<1> QED BY <1>3, <1>5, <1>6, <1>7 DEF Typed

\* The steps of the decode thread that only move it.
LEMMA ExitKeeps == Typed /\ Exit => Typed'
<1> SUFFICES ASSUME Typed, Exit PROVE Typed'
  OBVIOUS
<1>1. decode' = [decode EXCEPT !.at = "done"] /\ UNCHANGED <<tracks, clips, audio, mutex, graph, queue, callback, app, env>>
  BY DEF Exit
<1>2. AudioTyped' /\ EnvTyped' /\ QueueTyped' /\ ThreadsTyped'
  BY <1>1 DEF Typed, AudioTyped, EnvTyped, QueueTyped, ThreadsTyped
<1> QED BY <1>1, <1>2, QuietKeeps DEF Quiet

LEMMA LoopKeeps == Typed /\ Loop => Typed'
<1> SUFFICES ASSUME Typed, Loop PROVE Typed'
  OBVIOUS
<1> USE DEF Typed
<1>1. UNCHANGED <<tracks, clips, audio, graph, queue, callback, app, env>>
  BY DEF Loop
<1>2. mutex' \in {"free", "decode"}
  BY DEF Loop, Unlock, ThreadsTyped
<1>3. 1 \in 1 .. NTracks + 1
  BY AudioAssumption
<1>4. ASSUME decode' \in [at : {"top", "loop", "feed", "drain", "done"}, track : 1 .. NTracks + 1, rebuild : BOOLEAN,
                          local : Nat, built : BOOLEAN, frame : Sound, slot : Slots],
             decode'.at = "feed" => decode'.track \in Tracks, decode'.local = decode.local
      PROVE  Typed'
  <2>1. ThreadsTyped'
    BY <1>1, <1>2, <1>4 DEF ThreadsTyped
  <2>2. AudioTyped' /\ EnvTyped' /\ QueueTyped'
    BY <1>1, <1>4 DEF AudioTyped, EnvTyped, QueueTyped
  <2> QED BY <1>1, <2>1, <2>2, QuietKeeps DEF Quiet
<1>5. CASE PassOver
  <2>1. decode' = [decode EXCEPT !.at = "top", !.track = 1, !.rebuild = TRUE]
    BY <1>5 DEF PassOver
  <2> QED BY <1>3, <1>4, <2>1 DEF ThreadsTyped
<1>6. CASE decode' = [decode EXCEPT !.at = "done"]
  BY <1>4, <1>6 DEF ThreadsTyped
<1>7. CASE decode' = [decode EXCEPT !.at = "drain", !.track = 1]
  BY <1>3, <1>4, <1>7 DEF ThreadsTyped
<1>8. CASE /\ ToFeed # {}
           /\ decode' = [decode EXCEPT !.at = "feed", !.track = CHOOSE t \in ToFeed : \A u \in ToFeed : t <= u]
  <2> DEFINE t == CHOOSE t \in ToFeed : \A u \in ToFeed : t <= u
  <2>1. ToFeed \subseteq Tracks /\ Tracks \subseteq Nat
    BY DEF ToFeed, Active, NonEmpty, Tracks
  <2>2. t \in ToFeed
    BY <1>8, <2>1, SmallestOf
  <2>3. t \in Tracks
    BY <2>1, <2>2
  <2>4. decode' = [decode EXCEPT !.at = "feed", !.track = t]
    BY <1>8
  <2> HIDE DEF t
  <2>5. t \in 1 .. NTracks + 1
    BY <2>3, AudioAssumption DEF Tracks
  <2> QED BY <1>4, <2>3, <2>4, <2>5 DEF ThreadsTyped
<1> QED BY <1>5, <1>6, <1>7, <1>8 DEF Loop

\* The frames a pass adds to the mixer.
LEMMA FedGraph ==
    ASSUME Typed, NEW k \in 1 .. 2,
           graph' = graph \o [i \in 1 .. k |-> [n |-> env.frames + i, mixed |-> audio.serial]]
    PROVE  /\ graph' \in Seq(Sound) /\ Len(graph') = Len(graph) + k
           /\ \A i \in 1 .. Len(graph) : graph'[i] = graph[i]
           /\ \A i \in Len(graph) + 1 .. Len(graph) + k :
                graph'[i] = [n |-> env.frames + (i - Len(graph)), mixed |-> audio.serial]
<1> DEFINE b == [i \in 1 .. k |-> [n |-> env.frames + i, mixed |-> audio.serial]]
<1>1. graph \in Seq(Sound)
  BY DEF Typed, ThreadsTyped
<1>2. b \in Seq(Sound) /\ Len(b) = k
  BY DEF Typed, AudioTyped, EnvTyped, Sound
<1>3. \A i \in 1 .. k : b[i] = [n |-> env.frames + i, mixed |-> audio.serial]
  OBVIOUS
<1> HIDE DEF b
<1>4. /\ graph \o b \in Seq(Sound) /\ Len(graph \o b) = Len(graph) + k
      /\ \A i \in 1 .. Len(graph) + k : (graph \o b)[i] = IF i <= Len(graph) THEN graph[i] ELSE b[i - Len(graph)]
  BY <1>1, <1>2
<1>5. graph' = graph \o b
  BY DEF b
<1> DEFINE g == graph \o b
<1>6. /\ g \in Seq(Sound) /\ Len(g) = Len(graph) + k
      /\ \A i \in 1 .. Len(graph) : g[i] = graph[i]
  BY <1>1, <1>4
<1>7. ASSUME NEW i \in Len(graph) + 1 .. Len(graph) + k
      PROVE  g[i] = [n |-> env.frames + (i - Len(graph)), mixed |-> audio.serial]
  <2>1. Len(graph) \in Nat
    BY <1>1
  <2>2. i - Len(graph) \in 1 .. k /\ i \in 1 .. Len(graph) + k /\ ~(i <= Len(graph))
    BY <2>1
  <2>3. g[i] = b[i - Len(graph)]
    BY <1>4, <2>2
  <2> QED BY <1>3, <2>2, <2>3, Zenon
<1> QED BY <1>5, <1>6, <1>7

LEMMA FeedKeeps == Typed /\ Feed => Typed'
<1> SUFFICES ASSUME Typed, Feed PROVE Typed'
  OBVIOUS
<1>1. PICK k \in 1 .. 2 : /\ env.frames + k <= MaxFrames
                          /\ graph' = graph \o [i \in 1 .. k |-> [n |-> env.frames + i, mixed |-> audio.serial]]
                          /\ env' = [env EXCEPT !.frames = @ + k]
  BY DEF Feed
<1>2. decode' = [decode EXCEPT !.at = "loop", !.track = @ + 1] /\ UNCHANGED <<tracks, clips, audio, mutex, queue, callback, app>>
  BY DEF Feed
<1>3. decode.at = "feed"
  BY DEF Feed, Feeding
<1>4. decode.track + 1 \in 1 .. NTracks + 1
  BY <1>3, AudioAssumption DEF Typed, ThreadsTyped, Tracks
<1>5. /\ DOMAIN env' = DOMAIN env /\ env'.frames = env.frames + k /\ env'.ids = env.ids
      /\ env'.drift = env.drift
  BY <1>1 DEF Typed, EnvTyped
<1>6. EnvTyped' /\ AudioTyped'
  BY <1>1, <1>2, <1>5 DEF Typed, EnvTyped, AudioTyped
<1>7. graph' \in Seq(Sound) /\ Len(graph') = Len(graph) + k
  BY <1>1, FedGraph
<1>8. ThreadsTyped'
  <2>1. Len(graph') <= env'.frames
    BY <1>5, <1>7 DEF Typed, ThreadsTyped, EnvTyped
  <2> HIDE DEF Typed
  <2> DEFINE t == decode.track + 1
  <2> HIDE DEF t
  <2>2. decode' = [decode EXCEPT !.at = "loop", !.track = t] /\ t \in 1 .. NTracks + 1
    BY <1>2, <1>4 DEF t
  <2> QED BY <1>2, <1>7, <2>1, <2>2 DEF Typed, ThreadsTyped
<1>9. QueueTyped'
  BY <1>2 DEF Typed, QueueTyped, ThreadsTyped
<1> QED BY <1>2, <1>5, <1>6, <1>8, <1>9, QuietKeeps DEF Quiet

LEMMA ClipEndsKeeps == Typed /\ ClipEnds => Typed'
<1> SUFFICES ASSUME Typed, ClipEnds PROVE Typed'
  OBVIOUS
<1> USE DEF Typed
<1> DEFINE t == decode.track
           late == env.late \/ (audio'.allEnded /\ audio.seek)
<1>1. PICK s \in BOOLEAN : LET swap == Swap(tracks, clips, t, s) IN
        /\ tracks' = [tracks EXCEPT ![t] = swap.track]
        /\ audio' = IF swap.track.ended THEN [audio EXCEPT !.allEnded = AllEnded(tracks')] ELSE audio
        /\ env' = [env EXCEPT !.late = late]
  BY DEF ClipEnds
<1> DEFINE w == Swap(tracks, clips, t, s).track
           all == AllEnded(tracks')
<1>2. t \in Tracks /\ tracks[t].cur # None
  BY DEF ClipEnds, Feeding, ThreadsTyped
<1>3. UNCHANGED <<clips, graph, queue, callback, app>> /\ PassOver /\ Unlock
  BY DEF ClipEnds
<1>4. Good(tracks, clips, env.ids) /\ tracks \in [Tracks -> Track]
  BY DEF Lists, Good
<1>5. w \in Track /\ w.list = tracks[t].list /\ CurOK(w, clips)
  BY <1>2, <1>4, SwapTrack
<1>6. tracks' = [tracks EXCEPT ![t] = w] /\ env' = [env EXCEPT !.late = late]
  BY <1>1
<1>7. audio' = audio \/ audio' = [audio EXCEPT !.allEnded = all]
  BY <1>1
<1> HIDE DEF t, w, late, all
<1>8. /\ tracks' \in [Tracks -> Track]
      /\ \A u \in Tracks : tracks'[u].list = tracks[u].list /\ CurOK(tracks'[u], clips')
  <2>1. \A u \in Tracks : tracks'[u] = IF u = t THEN w ELSE tracks[u]
    BY <1>2, <1>4, <1>6
  <2> QED BY <1>2, <1>3, <1>4, <1>5, <1>6, <2>1, Zenon DEF Good
<1>9. /\ DOMAIN env' = DOMAIN env /\ env'.frames = env.frames /\ env'.ids = env.ids
      /\ env'.drift = env.drift
  BY <1>6 DEF EnvTyped
<1>10. AudioTyped' /\ audio'.count = audio.count /\ audio'.serial = audio.serial
  BY <1>7 DEF AudioTyped
<1>11. Lists' /\ Counted'
  BY <1>3, <1>8, <1>9, <1>10, ListsSame DEF Lists
<1>12. AppTyped'
  BY <1>3 DEF AppTyped
<1>13. decode' = [decode EXCEPT !.at = "top", !.track = 1, !.rebuild = TRUE] /\ mutex' \in {"free", "decode"}
  BY <1>3 DEF PassOver, Unlock, ThreadsTyped
<1>14. 1 \in 1 .. NTracks + 1
  BY AudioAssumption
<1>15. ThreadsTyped'
  BY <1>3, <1>9, <1>10, <1>13, <1>14 DEF ThreadsTyped
<1>16. QueueTyped' /\ EnvTyped'
  BY <1>3, <1>9, <1>13 DEF QueueTyped, EnvTyped, ThreadsTyped
<1> QED BY <1>10, <1>11, <1>12, <1>15, <1>16

LEMMA ClipEndsFailingKeeps == Typed /\ ClipEndsFailing => Typed'
<1> SUFFICES ASSUME Typed, ClipEndsFailing PROVE Typed'
  OBVIOUS
<1> USE DEF Typed
<1>1. /\ decode' = [decode EXCEPT !.at = "loop"] /\ Unlock
      /\ UNCHANGED <<tracks, clips, audio, graph, queue, callback, app>>
      /\ env' = env \/ env' = [env EXCEPT !.events = @ - 1]
  BY DEF ClipEndsFailing
<1>2. /\ DOMAIN env' = DOMAIN env /\ env'.frames = env.frames /\ env'.ids = env.ids
      /\ env'.drift = env.drift
  BY <1>1 DEF EnvTyped
<1>3. AudioTyped' /\ EnvTyped' /\ QueueTyped' /\ ThreadsTyped'
  BY <1>1, <1>2 DEF AudioTyped, EnvTyped, QueueTyped, ThreadsTyped, Unlock
<1> QED BY <1>1, <1>2, <1>3, QuietKeeps DEF Quiet

LEMMA FeedNothingKeeps == Typed /\ FeedNothing => Typed'
<1> SUFFICES ASSUME Typed, FeedNothing PROVE Typed'
  OBVIOUS
<1> USE DEF Typed
<1>1. env' = [env EXCEPT !.gone = TRUE] /\ UNCHANGED <<tracks, clips, audio, mutex, graph, queue, decode, callback, app>>
  BY DEF FeedNothing
<1>2. /\ DOMAIN env' = DOMAIN env /\ env'.frames = env.frames /\ env'.ids = env.ids
      /\ env'.drift = env.drift
  BY <1>1 DEF EnvTyped
<1>3. AudioTyped' /\ EnvTyped' /\ QueueTyped' /\ ThreadsTyped'
  BY <1>1, <1>2 DEF AudioTyped, EnvTyped, QueueTyped, ThreadsTyped
<1> QED BY <1>1, <1>2, <1>3, QuietKeeps DEF Quiet

LEMMA DrainKeeps == Typed /\ Drain => Typed'
<1> SUFFICES ASSUME Typed, Drain PROVE Typed'
  OBVIOUS
<1> USE DEF Typed
<1>1. UNCHANGED <<tracks, clips, audio, mutex, queue, callback, app, env>>
  BY DEF Drain
<1>2. graph \in Seq(Sound) /\ Len(graph) <= env.frames
  BY DEF ThreadsTyped
<1>3. /\ graph' \in Seq(Sound) /\ Len(graph') <= env.frames
      /\ \/ PassOver
         \/ decode' = [decode EXCEPT !.at = "drained"]
         \/ Head(graph) \in Sound /\ decode' = [decode EXCEPT !.at = "room", !.frame = Head(graph)]
  <2>1. CASE ~decode.built \/ graph = <<>>
    BY <1>2, <2>1 DEF Drain
  <2>2. CASE decode.built /\ graph # <<>>
    <3>1. Head(graph) \in Sound /\ Tail(graph) \in Seq(Sound) /\ Len(Tail(graph)) <= env.frames
      <4>1. Len(Tail(graph)) = Len(graph) - 1
        BY <1>2, <2>2
      <4> QED BY <1>2, <2>2, <4>1 DEF EnvTyped
    <3> QED BY <2>2, <3>1 DEF Drain
  <2> QED BY <2>1, <2>2
<1> DEFINE h == Head(graph)
<1> HIDE DEF h
<1>4. \/ decode' = [decode EXCEPT !.at = "top", !.track = 1, !.rebuild = TRUE]
      \/ decode' = [decode EXCEPT !.at = "drained"]
      \/ h \in Sound /\ decode' = [decode EXCEPT !.at = "room", !.frame = h]
  BY <1>3 DEF h, PassOver
<1>5. ThreadsTyped'
  <2>1. 1 \in 1 .. NTracks + 1
    BY AudioAssumption
  <2> QED BY <1>1, <1>3, <1>4, <2>1 DEF ThreadsTyped
<1>6. AudioTyped' /\ EnvTyped' /\ QueueTyped'
  BY <1>1, <1>4 DEF AudioTyped, EnvTyped, QueueTyped, ThreadsTyped
<1> QED BY <1>1, <1>5, <1>6, QuietKeeps DEF Quiet

LEMMA NoSoundType == NoSound \in Sound /\ NoFrame \in Frame /\ 0 \in Slots
BY AudioAssumption DEF NoSound, NoFrame, Sound, Frame, Slots

LEMMA RoomKeeps == Typed /\ Room => Typed'
<1> SUFFICES ASSUME Typed, Room PROVE Typed'
  OBVIOUS
<1> USE DEF Typed
<1>1. UNCHANGED <<tracks, clips, audio, mutex, graph, queue, callback, app, env>>
  BY DEF Room
<1>2. \/ decode' = [decode EXCEPT !.at = "drain", !.frame = NoSound]
      \/ decode' = [decode EXCEPT !.at = "push", !.slot = queue.windex] /\ queue.size < QueueSize
  BY DEF Room
<1>3. ThreadsTyped'
  BY <1>1, <1>2, NoSoundType DEF ThreadsTyped, QueueTyped
<1>4. AudioTyped' /\ EnvTyped' /\ QueueTyped'
  BY <1>1, <1>2 DEF AudioTyped, EnvTyped, QueueTyped, ThreadsTyped
<1> QED BY <1>1, <1>3, <1>4, QuietKeeps DEF Quiet

\* Remainders, for the slots of the queue.
LEMMA Remainders ==
    ASSUME NEW n \in Nat \ {0}
    PROVE  /\ \A a \in Nat : a % n \in 0 .. n - 1
           /\ \A a \in Nat : a < n + n => a % n = IF a < n THEN a ELSE a - n
<1>1. \A a \in Nat : a % n \in 0 .. n - 1
  OBVIOUS
<1>2. ASSUME NEW a \in Nat, a < n PROVE a % n = a
  BY <1>2
<1>3. ASSUME NEW a \in Nat, a < n + n, ~(a < n) PROVE a % n = a - n
  BY <1>3
<1> QED BY <1>1, <1>2, <1>3

LEMMA SlotOf == \A a \in Nat : a % QueueSize \in Slots
<1>1. QueueSize \in Nat \ {0}
  BY AudioAssumption
<1> QED BY <1>1, Remainders DEF Slots

Queues == [slot : [Slots -> Frame], windex : Slots, rindex : Slots, shown : BOOLEAN, size : 0 .. QueueSize]

LEMMA SlotIsNat == (\A s \in Slots : s \in Nat) /\ QueueSize \in Nat
BY AudioAssumption DEF Slots

\* Letting go of the frame that is shown, if one is.
LEMMA NextQueue ==
    ASSUME NEW q \in Queues, q.size > 0
    PROVE  /\ QueueNext(q) \in Queues /\ QueueNext(q).shown = TRUE /\ QueueNext(q).windex = q.windex
           /\ ~q.shown => /\ QueueNext(q).slot = q.slot /\ QueueNext(q).rindex = q.rindex
                          /\ QueueNext(q).size = q.size
           /\ q.shown => /\ QueueNext(q).rindex = (q.rindex + 1) % QueueSize
                         /\ QueueNext(q).size = q.size - 1
                         /\ ~QueueNext(q).slot[q.rindex].full
                         /\ \A s \in Slots : s # q.rindex => QueueNext(q).slot[s] = q.slot[s]
<1>1. /\ q.slot \in [Slots -> Frame] /\ q.windex \in Slots /\ q.rindex \in Slots
      /\ q.shown \in BOOLEAN /\ q.size \in 0 .. QueueSize
  BY DEF Queues
<1>2. CASE ~q.shown
  <2>1. QueueNext(q) = [q EXCEPT !.shown = TRUE]
    BY <1>2 DEF QueueNext
  <2> QED BY <1>1, <1>2, <2>1 DEF Queues
<1>3. CASE q.shown
  <2> DEFINE e == [NoFrame EXCEPT !.serial = q.slot[q.rindex].serial]
             sl == [q.slot EXCEPT ![q.rindex] = e]
             r == (q.rindex + 1) % QueueSize
             z == q.size - 1
  <2>1. QueueNext(q) = [q EXCEPT !.slot = sl, !.rindex = r, !.size = z]
    BY <1>3 DEF QueueNext
  <2>2. e \in Frame /\ ~e.full
    <3>1. q.slot[q.rindex] \in Frame
      BY <1>1
    <3> QED BY <3>1 DEF Frame, NoFrame
  <2> HIDE DEF e
  <2>3. /\ sl \in [Slots -> Frame] /\ ~sl[q.rindex].full
        /\ \A s \in Slots : s # q.rindex => sl[s] = q.slot[s]
    BY <1>1, <2>2
  <2>4. r \in Slots
    <3>1. q.rindex \in Nat
      BY <1>1, SlotIsNat
    <3>2. q.rindex + 1 \in Nat
      BY <3>1
    <3> QED BY <3>2, SlotOf
  <2>5. z \in 0 .. QueueSize
    BY <1>1, SlotIsNat
  <2> HIDE DEF sl, r, z
  <2>6. /\ QueueNext(q) \in Queues /\ QueueNext(q).slot = sl /\ QueueNext(q).rindex = r /\ QueueNext(q).size = z
        /\ QueueNext(q).shown = q.shown /\ QueueNext(q).windex = q.windex
    BY <2>1, <2>3, <2>4, <2>5 DEF Queues
  <2> QED BY <1>1, <1>3, <2>3, <2>6 DEF r, z
<1> QED BY <1>1, <1>2, <1>3

LEMMA PushedQueue ==
    ASSUME NEW q \in Queues, q.size < QueueSize, NEW s \in Slots, NEW f \in Frame
    PROVE  /\ QueuePush(q, s, f) \in Queues /\ QueuePush(q, s, f).shown = q.shown
           /\ QueuePush(q, s, f).rindex = q.rindex
           /\ QueuePush(q, s, f).size = q.size + 1 /\ QueuePush(q, s, f).slot = [q.slot EXCEPT ![s] = f]
<1> DEFINE sl == [q.slot EXCEPT ![s] = f]
           w == (q.windex + 1) % QueueSize
           z == q.size + 1
<1>1. QueuePush(q, s, f) = [q EXCEPT !.slot = sl, !.windex = w, !.size = z]
  BY DEF QueuePush
<1>2. q.windex + 1 \in Nat
  <2>1. q.windex \in Nat
    BY SlotIsNat DEF Queues
  <2> QED BY <2>1
<1>3. sl \in [Slots -> Frame] /\ w \in Slots /\ z \in 0 .. QueueSize
  BY <1>2, SlotOf, SlotIsNat DEF Queues
<1> HIDE DEF sl, w, z
<1>4. /\ QueuePush(q, s, f) \in Queues /\ QueuePush(q, s, f).shown = q.shown
      /\ QueuePush(q, s, f).rindex = q.rindex
      /\ QueuePush(q, s, f).size = z /\ QueuePush(q, s, f).slot = sl
  BY <1>1, <1>3 DEF Queues
<1> QED BY <1>4 DEF sl, z

PushedFrame == [n |-> decode.frame.n, serial |-> audio.serial, mixed |-> decode.frame.mixed, full |-> TRUE]

LEMMA PushedType == Typed => PushedFrame \in Frame
BY DEF Typed, ThreadsTyped, AudioTyped, Sound, Frame, PushedFrame

LEMMA PushKeeps == Typed /\ Push => Typed'
<1> SUFFICES ASSUME Typed, Push PROVE Typed'
  OBVIOUS
<1>1. /\ queue' = QueuePush(queue, decode.slot, PushedFrame)
      /\ decode' = [decode EXCEPT !.at = "drain", !.frame = NoSound, !.slot = 0]
      /\ env' = [env EXCEPT !.astray = @ \/ decode.slot # (queue.rindex + queue.size) % QueueSize]
      /\ UNCHANGED <<tracks, clips, audio, mutex, graph, callback, app>>
      /\ decode.at = "push"
  BY DEF Push, PushedFrame
<1>2. PushedFrame \in Frame
  BY PushedType
<1>3. queue \in Queues /\ queue.size < QueueSize /\ decode.slot \in Slots
  BY <1>1 DEF Typed, QueueTyped, Queues, ThreadsTyped
<1>4. queue' \in Queues /\ queue'.size = queue.size + 1
  BY <1>1, <1>2, <1>3, PushedQueue
<1>5. /\ DOMAIN env' = DOMAIN env /\ env'.frames = env.frames /\ env'.ids = env.ids
      /\ env'.drift = env.drift
  BY <1>1 DEF Typed, EnvTyped
<1>6. ThreadsTyped'
  BY <1>1, <1>5, NoSoundType DEF Typed, ThreadsTyped
<1>7. decode'.at = "drain"
  BY <1>1 DEF Typed, ThreadsTyped
<1>8. QueueTyped'
  <2>1. queue.size \in Nat
    BY <1>3, SlotIsNat DEF Queues
  <2> QED BY <1>1, <1>4, <1>7, <2>1 DEF QueueTyped, Queues
<1>9. AudioTyped' /\ EnvTyped'
  BY <1>1, <1>5 DEF Typed, AudioTyped, EnvTyped
<1> QED BY <1>1, <1>5, <1>6, <1>8, <1>9, QuietKeeps DEF Quiet

LEMMA RestKeeps == Typed /\ (Drained \/ Doze) => Typed'
<1> SUFFICES ASSUME Typed, Drained \/ Doze PROVE Typed'
  OBVIOUS
<1> USE DEF Typed
<1>1. UNCHANGED <<tracks, clips, audio, mutex, graph, queue, callback, app, env>>
  BY DEF Drained, Doze
<1>2. \/ decode' = [decode EXCEPT !.at = "dozing"]
      \/ decode' = [decode EXCEPT !.at = "asleep"]
      \/ decode' = [decode EXCEPT !.at = "top", !.rebuild = FALSE]
  BY DEF Drained, Doze
<1>3. AudioTyped' /\ EnvTyped' /\ QueueTyped' /\ ThreadsTyped'
  BY <1>1, <1>2 DEF AudioTyped, EnvTyped, QueueTyped, ThreadsTyped
<1> QED BY <1>1, <1>3, QuietKeeps DEF Quiet

\* The callback.
LEMMA ReadableType == Typed => Readable(queue) \in Slots
<1> SUFFICES ASSUME Typed PROVE Readable(queue) \in Slots
  OBVIOUS
<1>1. queue.rindex + (IF queue.shown THEN 1 ELSE 0) \in Nat
  <2>1. queue.rindex \in Nat
    BY SlotIsNat DEF Typed, QueueTyped
  <2> QED BY <2>1
<1> QED BY <1>1, SlotOf DEF Readable

LEMMA CallKeeps == Typed /\ Call => Typed'
<1> SUFFICES ASSUME Typed, Call PROVE Typed'
  OBVIOUS
<1>1. /\ callback' = [callback EXCEPT !.at = "wait"]
      /\ UNCHANGED <<tracks, clips, audio, mutex, graph, queue, decode, app, env>>
  BY DEF Call
<1>2. AudioTyped' /\ EnvTyped' /\ QueueTyped' /\ ThreadsTyped'
  BY <1>1 DEF Typed, AudioTyped, EnvTyped, QueueTyped, ThreadsTyped
<1> QED BY <1>1, <1>2, QuietKeeps DEF Quiet

LEMMA TakeKeeps == Typed /\ Take => Typed'
<1> SUFFICES ASSUME Typed, Take PROVE Typed'
  OBVIOUS
<1> DEFINE s == Readable(queue)
<1>1. /\ UNCHANGED <<tracks, clips, audio, mutex, graph, queue, decode, app, env>>
      /\ \/ callback' = [callback EXCEPT !.at = "idle", !.stale = FALSE]
         \/ callback' = [callback EXCEPT !.at = "got", !.slot = s] /\ Remaining(queue) > 0
  BY DEF Take
<1>2. s \in Slots
  BY ReadableType
<1> HIDE DEF s
<1>3. queue.size \in Nat
  BY SlotIsNat DEF Typed, QueueTyped
<1>4. Remaining(queue) > 0 => queue.size > 0
  BY <1>3 DEF Remaining
<1>5. AudioTyped' /\ EnvTyped' /\ QueueTyped' /\ ThreadsTyped'
  BY <1>1, <1>2, <1>4 DEF Typed, AudioTyped, EnvTyped, QueueTyped, ThreadsTyped
<1> QED BY <1>1, <1>5, QuietKeeps DEF Quiet

LEMMA PlayKeeps == Typed /\ Play => Typed'
<1> SUFFICES ASSUME Typed, Play PROVE Typed'
  OBVIOUS
<1> DEFINE f == queue.slot[callback.slot]
           st == f.serial # audio.serial
           n == IF Sounds THEN f.n ELSE callback.last
<1>0. PICK at \in {"idle", "wait"} :
        callback' = [callback EXCEPT !.at = at, !.slot = 0, !.stale = st, !.last = n]
  BY DEF Play, GoesOn
<1>1. /\ callback' = [callback EXCEPT !.at = at, !.slot = 0, !.stale = st, !.last = n]
      /\ queue' = QueueNext(queue)
      /\ UNCHANGED <<tracks, clips, audio, mutex, graph, decode, app, env>>
      /\ callback.at = "got"
  BY <1>0 DEF Play
<1>2. queue \in Queues /\ queue.size > 0
  BY <1>1 DEF Typed, QueueTyped, Queues
<1>3. n \in Nat /\ st \in BOOLEAN
  <2>1. f \in Frame
    BY <1>2 DEF Typed, ThreadsTyped, Queues
  <2> QED BY <2>1 DEF Typed, ThreadsTyped, Frame
<1> HIDE DEF f, st, n
<1>4. queue' \in Queues /\ queue'.size <= queue.size
  <2>1. queue.size \in Nat
    BY <1>2, SlotIsNat DEF Queues
  <2>2. QueueNext(queue) \in Queues /\ QueueNext(queue).size \in {queue.size, queue.size - 1}
    <3>1. queue.shown \in BOOLEAN
      BY <1>2 DEF Queues
    <3> QED BY <1>2, <3>1, NextQueue
  <2> QED BY <1>1, <2>1, <2>2
<1>5. DOMAIN callback' = DOMAIN callback /\ callback'.at # "got"
  BY <1>1 DEF Typed, ThreadsTyped
<1>6. ThreadsTyped'
  <2> DEFINE c1 == [callback EXCEPT !.at = at, !.slot = 0]
             C == [at : {"idle", "wait", "got"}, slot : Slots, stale : BOOLEAN, last : Nat]
  <2>1. c1 \in C
    BY NoSoundType DEF Typed, ThreadsTyped
  <2>2. callback' = [c1 EXCEPT !.stale = st, !.last = n]
    BY <1>1
  <2> HIDE DEF c1
  <2>3. callback' \in C
    BY <1>3, <2>1, <2>2
  <2> QED BY <1>1, <2>3 DEF Typed, ThreadsTyped
<1>7. QueueTyped'
  <2>1. queue.size \in Nat /\ queue'.size \in Nat
    BY <1>2, <1>4, SlotIsNat DEF Queues
  <2> QED BY <1>1, <1>4, <1>5, <2>1, SlotIsNat DEF Typed, QueueTyped, Queues
<1>8. AudioTyped' /\ EnvTyped'
  BY <1>1 DEF Typed, AudioTyped, EnvTyped
<1> QED BY <1>1, <1>6, <1>7, <1>8, QuietKeeps DEF Quiet

\* The application and the message loop.
LEMMA WokenType == Typed => Woken(decode) = decode \/ Woken(decode) = [decode EXCEPT !.at = "top", !.rebuild = FALSE]
BY DEF Woken

LEMMA WokenKeeps ==
    ASSUME Typed, decode' = Woken(decode), DOMAIN audio' = DOMAIN audio, audio'.serial = audio.serial,
           UNCHANGED <<mutex, graph, callback>>, DOMAIN env' = DOMAIN env, env'.frames = env.frames,
           queue' \in Queues, queue'.size = queue.size
    PROVE  AudioTyped' /\ EnvTyped' /\ QueueTyped' /\ ThreadsTyped'
<1> USE DEF Typed
<1>1. ThreadsTyped'
  BY WokenType DEF ThreadsTyped
<1>2. decode'.at = "push" => decode.at = "push"
  BY WokenType DEF ThreadsTyped
<1>3. QueueTyped'
  BY <1>2 DEF QueueTyped, Queues
<1> QED BY <1>1, <1>3 DEF AudioTyped, EnvTyped

LEMMA QueueInQueues == Typed => queue \in Queues
BY DEF Typed, QueueTyped, Queues

LEMMA EditType ==
    \A e \in Edits : e.t \in Tracks /\ e.i \in Nat /\ e.u \in Tracks /\ e.j \in Nat /\ e.end \in 0 .. MaxPos
<1>1. 1 \in Tracks /\ MaxIds \in Nat /\ MaxPos - 1 \in 0 .. MaxPos /\ 0 \in 0 .. MaxPos
  BY AudioAssumption DEF Tracks
<1> QED BY <1>1 DEF Edits

LEMMA FlagsKeep == Typed /\ (Pause \/ Hold \/ Release \/ Stop \/ Close \/ Closed \/ Seek) => Typed'
<1> SUFFICES ASSUME Typed, Pause \/ Hold \/ Release \/ Stop \/ Close \/ Closed \/ Seek PROVE Typed'
  OBVIOUS
<1> USE DEF Typed
<1> DEFINE paused == ~audio.paused
<1>1. UNCHANGED <<tracks, clips, mutex, graph, queue, callback, app>>
  BY DEF Pause, Hold, Release, Stop, Close, Closed, Seek
<1>2. env' = env \/ env' = [env EXCEPT !.events = @ - 1] \/ env' = [env EXCEPT !.seeks = @ - 1]
  BY DEF Pause, Hold, Release, Stop, Close, Closed, Seek
<1>3. /\ DOMAIN env' = DOMAIN env /\ env'.frames = env.frames /\ env'.ids = env.ids
      /\ env'.drift = env.drift
  BY <1>2 DEF EnvTyped
<1>4. \/ audio' = [audio EXCEPT !.paused = paused]
      \/ \E p : audio' = [audio EXCEPT !.held = TRUE, !.paused = p]
      \/ audio' = [audio EXCEPT !.held = FALSE]
      \/ audio' = [audio EXCEPT !.abort = TRUE]
      \/ audio' = [audio EXCEPT !.queueAbort = TRUE]
      \/ audio' = [audio EXCEPT !.closed = TRUE]
      \/ audio' = [audio EXCEPT !.allEnded = FALSE, !.seek = TRUE]
  BY DEF Pause, Hold, Release, Stop, Close, Closed, Seek, SeekTo
<1> HIDE DEF paused
<1>5. DOMAIN audio' = DOMAIN audio /\ audio'.serial = audio.serial /\ audio'.count = audio.count
  BY <1>4 DEF AudioTyped
<1>6. decode' = decode \/ decode' = Woken(decode)
  BY DEF Pause, Hold, Release, Stop, Close, Closed, Seek
<1>7. AudioTyped' /\ EnvTyped' /\ QueueTyped' /\ ThreadsTyped'
  <2>1. CASE decode' = Woken(decode)
    BY <1>1, <1>3, <1>5, <2>1, WokenKeeps, QueueInQueues
  <2>2. CASE decode' = decode
    BY <1>1, <1>3, <1>5, <2>2 DEF AudioTyped, EnvTyped, QueueTyped, ThreadsTyped
  <2> QED BY <1>6, <2>1, <2>2
<1> QED BY <1>1, <1>3, <1>5, <1>7, QuietKeeps DEF Quiet

LEMMA SameLists ==
    ASSUME Typed, UNCHANGED <<tracks, clips>>, env'.ids = env.ids, env'.drift = env.drift,
           audio'.count = audio.count
    PROVE  Lists' /\ Counted'
<1>1. /\ tracks \in [Tracks -> Track] /\ \A t \in Tracks : CurOK(tracks[t], clips)
      /\ clips \in [Ids -> Clip]
  BY DEF Typed, Lists, Good
<1> QED BY <1>1, ListsSame

LEMMA VolumeKeeps == Typed /\ Volume => Typed'
<1> SUFFICES ASSUME Typed, Volume PROVE Typed'
  OBVIOUS
<1>1. UNCHANGED <<tracks, clips, mutex, graph, callback>>
  BY DEF Volume
<1>2. CASE Remaining(queue) > 0
  <2>1. /\ queue' = QueueNext(queue)
        /\ env' = [env EXCEPT !.astray = @ \/ callback.at = "got"]
        /\ UNCHANGED <<audio, decode, app>>
    BY <1>2 DEF Volume
  <2>2. /\ DOMAIN env' = DOMAIN env /\ env'.frames = env.frames /\ env'.ids = env.ids
        /\ env'.drift = env.drift
    BY <2>1 DEF Typed, EnvTyped
  <2>3. queue \in Queues /\ queue.size \in Nat /\ queue.shown \in BOOLEAN
    BY QueueInQueues, SlotIsNat DEF Queues
  <2>4. queue.size > 0 /\ (queue.shown => queue.size > 1)
    BY <1>2, <2>3 DEF Remaining
  <2>5. queue' \in Queues /\ queue'.size > 0 /\ queue'.size <= queue.size
    <3>1. QueueNext(queue) \in Queues /\ QueueNext(queue).size = (IF queue.shown THEN queue.size - 1 ELSE queue.size)
      BY <2>3, <2>4, NextQueue
    <3> QED BY <2>1, <2>3, <2>4, <3>1
  <2>6. QueueTyped'
    <3>1. queue'.size \in Nat
      BY <2>5, SlotIsNat DEF Queues
    <3> QED BY <1>1, <2>1, <2>3, <2>5, <3>1, SlotIsNat DEF Typed, QueueTyped, Queues
  <2>7. AudioTyped' /\ EnvTyped' /\ ThreadsTyped'
    BY <1>1, <2>1, <2>2 DEF Typed, AudioTyped, EnvTyped, ThreadsTyped
  <2> QED BY <1>1, <2>1, <2>2, <2>6, <2>7, QuietKeeps DEF Quiet
<1>3. CASE ~(Remaining(queue) > 0)
  <2>1. /\ audio' = [audio EXCEPT !.allEnded = FALSE, !.seek = TRUE]
        /\ decode' = Woken(decode) /\ app' = "none" /\ UNCHANGED <<queue, env>>
    BY <1>3 DEF Volume, SeekTo
  <2>2. DOMAIN audio' = DOMAIN audio /\ audio'.serial = audio.serial /\ audio'.count = audio.count
    BY <2>1 DEF Typed, AudioTyped
  <2>3. AudioTyped' /\ EnvTyped' /\ QueueTyped' /\ ThreadsTyped'
    BY <1>1, <2>1, <2>2, WokenKeeps, QueueInQueues
  <2>4. Lists' /\ Counted'
    BY <1>1, <2>1, <2>2, SameLists
  <2>5. AppTyped'
    BY <2>1 DEF AppTyped
  <2> QED BY <2>3, <2>4, <2>5 DEF Typed
<1> QED BY <1>2, <1>3

LEMMA BeginKeeps == Typed /\ Begin => Typed'
<1> SUFFICES ASSUME Typed, Begin PROVE Typed'
  OBVIOUS
<1>1. /\ app' \in {"edit", "volume"}
      /\ IF app' = "volume" THEN UNCHANGED <<audio, queue>>
         ELSE /\ audio' = [audio EXCEPT !.processing = TRUE]
              /\ queue' = [queue EXCEPT !.windex = 1]
  BY DEF Begin
<1>2. env' = [env EXCEPT !.events = @ - 1] /\ UNCHANGED <<tracks, clips, mutex, graph, decode, callback>>
  BY DEF Begin
<1>3. /\ DOMAIN env' = DOMAIN env /\ env'.frames = env.frames /\ env'.ids = env.ids
      /\ env'.drift = env.drift
  BY <1>2 DEF Typed, EnvTyped
<1>4. DOMAIN audio' = DOMAIN audio /\ audio'.serial = audio.serial /\ audio'.count = audio.count
  BY <1>1 DEF Typed, AudioTyped
<1>5. QueueTyped'
  <2>1. 1 \in Slots
    BY AudioAssumption DEF Slots
  <2>2. queue' = queue \/ queue' = [queue EXCEPT !.windex = 1]
    BY <1>1
  <2> QED BY <1>2, <2>1, <2>2 DEF Typed, QueueTyped
<1>6. AudioTyped' /\ EnvTyped' /\ ThreadsTyped'
  BY <1>2, <1>3, <1>4 DEF Typed, AudioTyped, EnvTyped, ThreadsTyped
<1>7. Lists' /\ Counted'
  BY <1>2, <1>3, <1>4, SameLists
<1>8. AppTyped'
  BY <1>1 DEF AppTyped
<1> QED BY <1>5, <1>6, <1>7, <1>8 DEF Typed

\* The end of every edit.
LEMMA DoneKeeps ==
    ASSUME Typed, NEW a, DOMAIN a = DOMAIN audio, a.serial = audio.serial, NEW s, Done(a, s),
           UNCHANGED <<mutex, graph, callback>>, DOMAIN env' = DOMAIN env, env'.frames = env.frames
    PROVE  /\ AudioTyped' /\ EnvTyped' /\ QueueTyped' /\ ThreadsTyped' /\ AppTyped'
           /\ audio'.count = a.count
<1> DEFINE b == IF s THEN SeekTo(a) ELSE a
<1>1. /\ audio' = [b EXCEPT !.processing = FALSE] /\ queue' = [queue EXCEPT !.windex = 0]
      /\ decode' = Woken(decode) /\ app' = "none"
  BY DEF Done
<1>2. DOMAIN b = DOMAIN audio /\ b.serial = audio.serial /\ b.count = a.count
  BY DEF SeekTo, Typed, AudioTyped
<1> HIDE DEF b
<1>3. DOMAIN audio' = DOMAIN audio /\ audio'.serial = audio.serial /\ audio'.count = a.count
  BY <1>1, <1>2 DEF Typed, AudioTyped
<1>4. queue' \in Queues /\ queue'.size = queue.size
  BY <1>1, QueueInQueues, NoSoundType DEF Queues
<1>5. AppTyped'
  BY <1>1 DEF AppTyped
<1> QED BY <1>1, <1>3, <1>4, <1>5, WokenKeeps

LEMMA RefusedKeeps ==
    ASSUME Typed, Refused, UNCHANGED <<mutex, graph, callback>>
    PROVE  Typed'
<1>1. UNCHANGED <<tracks, clips, env>> /\ Done(audio, FALSE)
  BY DEF Refused
<1>2. AudioTyped' /\ EnvTyped' /\ QueueTyped' /\ ThreadsTyped' /\ AppTyped' /\ audio'.count = audio.count
  BY <1>1, DoneKeeps
<1>3. Lists' /\ Counted'
  BY <1>1, <1>2, SameLists
<1> QED BY <1>2, <1>3 DEF Typed

\* The tracks are as good when none of their clips is freed or closed.
LEMMA GoodFor ==
    ASSUME NEW ts, NEW cs, NEW n \in Int, Good(ts, cs, n), NEW m \in Int, n <= m, NEW ds,
           \A c \in Ids : cs[c].open => ds[c].open,
           \A t \in Tracks : \A k \in 1 .. Len(ts[t].list) : ~ds[ts[t].list[k]].freed
    PROVE  Good(ts, ds, m)
<1>1. ASSUME NEW t \in Tracks PROVE ListOK(ts[t].list, ds, m) /\ CurOK(ts[t], ds)
  <2>1. ts[t] \in Track /\ ListOK(ts[t].list, cs, n) /\ CurOK(ts[t], cs)
    BY DEF Good
  <2>2. ASSUME NEW k \in 1 .. Len(ts[t].list) PROVE ts[t].list[k] < m
    <3>1. ts[t].list[k] < n /\ ts[t].list[k] \in Ids
      BY <2>1 DEF ListOK, Track
    <3> QED BY <3>1 DEF Ids
  <2>3. ListOK(ts[t].list, ds, m)
    BY <2>1, <2>2 DEF ListOK
  <2>4. CurOK(ts[t], ds)
    BY <2>1 DEF CurOK, Track
  <2> QED BY <2>3, <2>4
<1> QED BY <1>1 DEF Good

LEMMA AddKeeps ==
    ASSUME Typed, NEW e \in Edits, InReach(e), Add(e), UNCHANGED <<mutex, graph, callback>> PROVE Typed'
<1> DEFINE t == e.t
           n == env.ids
           w == With(tracks[t], e.i, n)
           a == IF tracks[t].list = <<>> THEN [audio EXCEPT !.count = @ + 1] ELSE audio
<1>1. CASE e.i > Len(tracks[t].list)
  BY <1>1, RefusedKeeps DEF Add
<1>2. CASE ~(e.i > Len(tracks[t].list))
  <2>1. /\ tracks' = [tracks EXCEPT ![t] = w]
        /\ clips' = [clips EXCEPT ![n].end = e.end]
        /\ env' = [env EXCEPT !.ids = @ + 1]
        /\ Done(a, TRUE)
    BY <1>2 DEF Add
  <2>2. n \in Ids /\ n < MaxIds
    <3>1. n \in 0 .. MaxIds /\ n < MaxIds
      BY DEF Add, Typed, Lists
    <3> QED BY <3>1, AudioAssumption DEF Ids
  <2>3. /\ t \in Tracks /\ e.i \in Nat /\ e.end \in 0 .. MaxPos
        /\ clips \in [Ids -> Clip] /\ tracks \in [Tracks -> Track]
        /\ \A c \in Ids : clips[c].freed => c < n
        /\ Good(tracks, clips, n) /\ audio.count \in Int
    BY EditType DEF Typed, Lists, Good, Counted
  <2>4. /\ clips' \in [Ids -> Clip]
        /\ \A c \in Ids : clips'[c].open = clips[c].open /\ clips'[c].freed = clips[c].freed
    BY <2>1, <2>2, <2>3 DEF Clip
  <2>5. n \in Int /\ n + 1 \in Int /\ n < n + 1 /\ n + 1 \in 0 .. MaxIds
    BY <2>2, AudioAssumption DEF Ids
  <2>6. e.i <= Len(tracks[t].list)
    BY <1>2, <2>3 DEF Track
  <2>7. DOMAIN a = DOMAIN audio /\ a.serial = audio.serial /\ a.count = audio.count + One(tracks[t].list = <<>>)
    BY <2>3 DEF Typed, AudioTyped, One
  <2>8. /\ DOMAIN env' = DOMAIN env /\ env'.frames = env.frames /\ env'.ids = n + 1
        /\ env'.drift = env.drift
    BY <2>1 DEF Typed, EnvTyped
  <2> HIDE DEF t, n, w, a
  <2>9. \A u \in Tracks : \A k \in 1 .. Len(tracks[u].list) :
            tracks[u].list[k] \in Ids /\ tracks[u].list[k] < n /\ ~clips[tracks[u].list[k]].freed
    BY <2>3 DEF Good, ListOK, Track
  <2>10. Good(tracks, clips', n + 1)
    BY <2>3, <2>4, <2>5, <2>9, GoodFor
  <2>11. ~clips'[n].freed /\ \A u \in Tracks : \A k \in 1 .. Len(tracks[u].list) : tracks[u].list[k] # n
    BY <2>2, <2>3, <2>4, <2>5, <2>9
  <2>12. Good([tracks EXCEPT ![t] = w], clips', n + 1) /\ w.list # <<>>
    BY <2>2, <2>3, <2>5, <2>6, <2>10, <2>11, WithGood DEF w
  <2>13. /\ AudioTyped' /\ EnvTyped' /\ QueueTyped' /\ ThreadsTyped' /\ AppTyped'
         /\ audio'.count = a.count
    BY <2>1, <2>7, <2>8, DoneKeeps
  <2>14. Lists'
    <3>1. Good(tracks, clips, env.ids)' <=> Good(tracks', clips', env'.ids)
      BY DEF Good, ListOK, CurOK, Apart
    <3>2. \A c \in Ids : clips'[c].freed => c < n + 1
      BY <2>3, <2>4, <2>5 DEF Ids
    <3> QED BY <2>1, <2>4, <2>5, <2>8, <2>12, <3>1, <3>2 DEF Lists
  <2>15. Counted'
    <3>1. NonEmpty(tracks)' = NonEmpty(tracks')
      BY DEF NonEmpty
    <3>2. Cardinality(NonEmpty(tracks')) = Cardinality(NonEmpty(tracks)) + One(w.list # <<>>) - One(tracks[t].list # <<>>)
      BY <2>1, <2>3, CountPut
    <3>3. One(w.list # <<>>) = 1 /\ One(tracks[t].list = <<>>) = 1 - One(tracks[t].list # <<>>)
      BY <2>12 DEF One
    <3>4. Cardinality(NonEmpty(tracks)) \in Nat /\ One(tracks[t].list # <<>>) \in Nat
      BY FewTracks DEF One
    <3> QED BY <2>3, <2>7, <2>8, <2>13, <3>1, <3>2, <3>3, <3>4 DEF Typed, Counted
  <2> QED BY <2>13, <2>14, <2>15 DEF Typed
<1> QED BY <1>1, <1>2

LEMMA CutKeeps ==
    ASSUME Typed, NEW e \in Edits, InReach(e), Cut(e), UNCHANGED <<mutex, graph, callback>> PROVE Typed'
<1> DEFINE c == tracks[e.t].list[e.i + 1]
<1>1. CASE e.i >= Len(tracks[e.t].list)
  BY <1>1, RefusedKeeps DEF Cut
<1>2. CASE ~(e.i >= Len(tracks[e.t].list))
  <2>1. clips' = [clips EXCEPT ![c].end = e.end] /\ Done(audio, TRUE) /\ UNCHANGED <<tracks, env>>
    BY <1>2 DEF Cut
  <2>2. AudioTyped' /\ EnvTyped' /\ QueueTyped' /\ ThreadsTyped' /\ AppTyped' /\ audio'.count = audio.count
    BY <2>1, DoneKeeps
  <2>3. clips \in [Ids -> Clip] /\ e.end \in 0 .. MaxPos
    BY EditType DEF Typed, Lists
  <2> HIDE DEF c
  <2>4. /\ clips' \in [Ids -> Clip]
        /\ \A d \in Ids : clips'[d].open = clips[d].open /\ clips'[d].freed = clips[d].freed
    BY <2>1, <2>3 DEF Clip
  <2>5. tracks \in [Tracks -> Track] /\ \A t \in Tracks : CurOK(tracks[t], clips')
    <3>1. ASSUME NEW t \in Tracks PROVE tracks[t] \in Track /\ CurOK(tracks[t], clips)
      BY DEF Typed, Lists, Good
    <3>2. tracks \in [Tracks -> Track]
      BY DEF Typed, Lists, Good
    <3> QED BY <2>4, <3>1, <3>2 DEF CurOK, Track
  <2>6. Lists' /\ Counted'
    BY <2>1, <2>2, <2>4, <2>5, ListsSame
  <2> QED BY <2>2, <2>6 DEF Typed
<1> QED BY <1>1, <1>2

LEMMA DeleteKeeps ==
    ASSUME Typed, NEW e \in Edits, InReach(e), Delete(e), UNCHANGED <<mutex, graph, callback>> PROVE Typed'
<1> DEFINE t == e.t
           n == env.ids
           c == tracks[t].list[e.i + 1]
           gone == WithoutBad(t, e.i)
           a == IF tracks'[t].list = <<>> THEN [audio EXCEPT !.count = @ - 1, !.afChange = TRUE] ELSE audio
<1>1. CASE e.i >= Len(tracks[t].list)
  BY <1>1, RefusedKeeps DEF Delete
<1>2. CASE ~(e.i >= Len(tracks[t].list))
  <2>0. PICK s \in BOOLEAN : tracks' = [tracks EXCEPT ![t] = Without(t, e.i, s)]
    BY <1>2 DEF Delete
  <2> DEFINE w == Without(t, e.i, s)
  <2>1. /\ tracks' = [tracks EXCEPT ![t] = w]
        /\ clips' = [clips EXCEPT ![c].freed = TRUE]
        /\ env' = [env EXCEPT !.gone = gone]
        /\ Done(a, TRUE)
    BY <1>2, <2>0 DEF Delete
  <2>2. /\ t \in Tracks /\ e.i \in Nat /\ n \in 0 .. MaxIds
        /\ clips \in [Ids -> Clip] /\ tracks \in [Tracks -> Track]
        /\ \A d \in Ids : clips[d].freed => d < n
        /\ Good(tracks, clips, n) /\ audio.count \in Int
    BY EditType DEF Typed, Lists, Good, Counted
  <2>3. /\ e.i < Len(tracks[t].list) /\ c \in Ids /\ c < n
    BY <1>2, <2>2 DEF Good, ListOK, Track
  <2>4. tracks[t].list # <<>>
    BY <2>2, <2>3 DEF Track
  <2>5. n \in Int
    BY <2>2
  <2>6. /\ Good([tracks EXCEPT ![t] = w], clips, n) /\ w \in Track
        /\ \A u \in Tracks : LET m == [tracks EXCEPT ![t] = w][u].list IN \A k \in 1 .. Len(m) : m[k] # c
    <3>1. /\ Good([tracks EXCEPT ![t] = Without(t, e.i, s)], clips, n)
          /\ Without(t, e.i, s) \in Track
          /\ \A u \in Tracks : LET m == [tracks EXCEPT ![t] = Without(t, e.i, s)][u].list IN
                \A k \in 1 .. Len(m) : m[k] # tracks[t].list[e.i + 1]
      <4> HIDE DEF t, n
      <4> QED BY <2>2, <2>3, <2>5, WithoutGood, Zenon
    <3> QED BY <3>1
  <2>7. DOMAIN a = DOMAIN audio /\ a.serial = audio.serial /\ a.count = audio.count - One(tracks'[t].list = <<>>)
    BY <2>2 DEF Typed, AudioTyped, One
  <2> HIDE DEF t, n, c, w, a, gone
  <2>8. tracks'[t] = w
    BY <2>1, <2>2
  <2>9. /\ DOMAIN env' = DOMAIN env /\ env'.frames = env.frames /\ env'.ids = n
        /\ env'.drift = env.drift
    BY <2>1 DEF Typed, EnvTyped, n
  <2>10. /\ clips' \in [Ids -> Clip]
         /\ \A d \in Ids : clips'[d].open = clips[d].open
         /\ \A d \in Ids : clips'[d].freed = IF d = c THEN TRUE ELSE clips[d].freed
    BY <2>1, <2>2, <2>3 DEF Clip
  <2>11. Good(tracks', clips, n) /\ \A u \in Tracks : \A k \in 1 .. Len(tracks'[u].list) : tracks'[u].list[k] # c
    BY <2>1, <2>6
  <2>12. ASSUME NEW u \in Tracks, NEW k \in 1 .. Len(tracks'[u].list) PROVE ~clips'[tracks'[u].list[k]].freed
    <3>1. tracks'[u].list[k] \in Ids /\ ~clips[tracks'[u].list[k]].freed /\ tracks'[u].list[k] # c
      BY <2>11 DEF Good, ListOK, Track
    <3> QED BY <2>10, <3>1
  <2>13. Good(tracks', clips', n)
    <3>1. /\ n <= n /\ \A d \in Ids : clips[d].open => clips'[d].open
          /\ \A u \in Tracks : \A k \in 1 .. Len(tracks'[u].list) : ~clips'[tracks'[u].list[k]].freed
      BY <2>5, <2>10, <2>12
    <3>2. Good(tracks', clips, n)
      BY <2>11
    <3> QED BY <2>5, <3>1, <3>2, GoodFor
  <2>14. /\ AudioTyped' /\ EnvTyped' /\ QueueTyped' /\ ThreadsTyped' /\ AppTyped'
         /\ audio'.count = a.count
    BY <2>1, <2>7, <2>9, DoneKeeps
  <2>15. Lists'
    <3>1. Good(tracks, clips, env.ids)' <=> Good(tracks', clips', env'.ids)
      BY DEF Good, ListOK, CurOK, Apart
    <3>2. \A d \in Ids : clips'[d].freed => d < n
      BY <2>2, <2>3, <2>10
    <3> QED BY <2>2, <2>9, <2>10, <2>13, <3>1, <3>2 DEF Lists
  <2>16. Counted'
    <3>1. NonEmpty(tracks)' = NonEmpty(tracks')
      BY DEF NonEmpty
    <3>2. Cardinality(NonEmpty(tracks')) = Cardinality(NonEmpty(tracks)) + One(w.list # <<>>) - One(tracks[t].list # <<>>)
      BY <2>1, <2>2, CountPut
    <3>3. One(tracks[t].list # <<>>) = 1 /\ One(w.list = <<>>) = 1 - One(w.list # <<>>)
      BY <2>4 DEF One
    <3>4. Cardinality(NonEmpty(tracks)) \in Nat /\ One(w.list # <<>>) \in Nat
      BY FewTracks DEF One
    <3> QED BY <2>2, <2>7, <2>8, <2>9, <2>14, <3>1, <3>2, <3>3, <3>4 DEF Typed, Counted
  <2> QED BY <2>14, <2>15, <2>16 DEF Typed
<1> QED BY <1>1, <1>2

\* A track that is emptied, and the clips that are freed with it.
LEMMA EmptiedOK == \A cs, n : Emptied \in Track /\ ListOK(Emptied.list, cs, n) /\ CurOK(Emptied, cs) /\ Emptied.list = <<>>
BY DEF Emptied, Track, ListOK, CurOK, IsInjective

LEMMA FreedClips ==
    ASSUME Typed, NEW ts, clips' = FreedOf(ts)
    PROVE  /\ clips' \in [Ids -> Clip]
           /\ \A c \in Ids : /\ clips'[c].open = clips[c].open
                             /\ clips'[c].freed <=> clips[c].freed \/ \E t \in ts : Contains(tracks[t].list, c)
<1> DEFINE b(c) == clips[c].freed \/ \E t \in ts : Contains(tracks[t].list, c)
<1>1. clips \in [Ids -> Clip]
  BY DEF Typed, Lists
<1>2. \A c \in Ids : b(c) \in BOOLEAN
  BY <1>1 DEF Clip
<1>3. clips' = [c \in Ids |-> [clips[c] EXCEPT !.freed = b(c)]]
  BY DEF FreedOf
<1> HIDE DEF b
<1>4. clips' \in [Ids -> Clip] /\ \A c \in Ids : clips'[c].open = clips[c].open /\ clips'[c].freed = b(c)
  BY <1>1, <1>2, <1>3 DEF Clip
<1> QED BY <1>4 DEF b

LEMMA FreedAdded ==
    ASSUME Typed, NEW ts, ts \subseteq Tracks, clips' = FreedOf(ts)
    PROVE  \A c \in Ids : clips'[c].freed => c < env.ids
<1> SUFFICES ASSUME NEW c \in Ids, clips'[c].freed PROVE c < env.ids
  OBVIOUS
<1>1. CASE clips[c].freed
  BY <1>1 DEF Typed, Lists
<1>2. CASE ~clips[c].freed
  <2>1. PICK t \in ts : Contains(tracks[t].list, c)
    BY <1>2, FreedClips
  <2>2. PICK i \in 1 .. Len(tracks[t].list) : tracks[t].list[i] = c
    BY <2>1 DEF Contains
  <2>3. ListOK(tracks[t].list, clips, env.ids)
    BY DEF Typed, Lists, Good
  <2> QED BY <2>2, <2>3 DEF ListOK
<1> QED BY <1>1, <1>2

LEMMA DeleteTrackKeeps ==
    ASSUME Typed, NEW e \in Edits, InReach(e), DeleteTrack(e), UNCHANGED <<mutex, graph, callback>> PROVE Typed'
<1> DEFINE t == e.t
           n == env.ids
           drift == env.drift \/ (tracks[e.t].list = <<>> /\ audio.count > 0)
           a == IF audio.count < 1 THEN [audio EXCEPT !.allEnded = TRUE]
                ELSE [audio EXCEPT !.afChange = TRUE, !.count = @ - 1]
<1>1. /\ tracks' = [tracks EXCEPT ![t] = Emptied]
      /\ clips' = FreedOf({t})
      /\ env' = [env EXCEPT !.drift = drift]
      /\ Done(a, FALSE)
  BY DEF DeleteTrack
<1>2. /\ t \in Tracks /\ n \in 0 .. MaxIds /\ tracks \in [Tracks -> Track] /\ clips \in [Ids -> Clip]
      /\ Good(tracks, clips, n) /\ audio.count \in Int
  BY EditType DEF Typed, Lists, Good, Counted
<1>3. DOMAIN a = DOMAIN audio /\ a.serial = audio.serial /\ a.count = IF audio.count < 1 THEN audio.count ELSE audio.count - 1
  BY <1>2 DEF Typed, AudioTyped
<1> HIDE DEF t, n, drift, a
<1>4. /\ DOMAIN env' = DOMAIN env /\ env'.frames = env.frames /\ env'.ids = n
      /\ env'.drift = drift
  BY <1>1 DEF Typed, EnvTyped, n
<1>5. /\ AudioTyped' /\ EnvTyped' /\ QueueTyped' /\ ThreadsTyped' /\ AppTyped'
      /\ audio'.count = a.count
  BY <1>1, <1>3, <1>4, DoneKeeps
<1>6. n \in Int
  BY <1>2
<1>7. Good(tracks', clips, n)
  <2>1. \A u \in Tracks : Apart(tracks[u].list, Emptied.list) /\ Apart(Emptied.list, tracks[u].list)
    BY EmptiedOK DEF Apart
  <2> QED BY <1>1, <1>2, <1>6, <2>1, EmptiedOK, GoodPut
<1>8. ASSUME NEW u \in Tracks, NEW k \in 1 .. Len(tracks'[u].list) PROVE ~clips'[tracks'[u].list[k]].freed
  <2>1. u # t /\ tracks'[u] = tracks[u]
    BY <1>1, <1>2, EmptiedOK
  <2>2. tracks[u].list[k] \in Ids /\ ~clips[tracks[u].list[k]].freed
    BY <1>2, <2>1 DEF Good, ListOK, Track
  <2>3. ~Contains(tracks[t].list, tracks[u].list[k])
    <3>1. Apart(tracks[t].list, tracks[u].list)
      BY <1>2, <2>1 DEF Good
    <3> QED BY <2>1, <3>1 DEF Apart, Contains
  <2> DEFINE d == tracks[u].list[k]
  <2>4. clips'[d].freed <=> clips[d].freed \/ \E x \in {t} : Contains(tracks[x].list, d)
    <3>1. \A c \in Ids : clips'[c].freed <=> clips[c].freed \/ \E x \in {t} : Contains(tracks[x].list, c)
      BY <1>1, FreedClips, Zenon
    <3> QED BY <2>2, <3>1, Zenon
  <2> QED BY <2>1, <2>2, <2>3, <2>4
<1>9. Good(tracks', clips', n)
  <2>1. \A c \in Ids : clips'[c].open = clips[c].open
    BY <1>1, FreedClips
  <2>2. n <= n
    BY <1>6
  <2> QED BY <1>6, <1>7, <1>8, <2>1, <2>2, GoodFor
<1>10. Lists'
  <2>1. Good(tracks, clips, env.ids)' <=> Good(tracks', clips', env'.ids)
    BY DEF Good, ListOK, CurOK, Apart
  <2>2. clips' \in [Ids -> Clip] /\ \A c \in Ids : clips'[c].freed => c < n
    BY <1>1, <1>2, FreedClips, FreedAdded DEF n
  <2> QED BY <1>2, <1>4, <1>9, <2>1, <2>2 DEF Lists
<1>11. Counted'
  <2>1. NonEmpty(tracks)' = NonEmpty(tracks')
    BY DEF NonEmpty
  <2>2. Cardinality(NonEmpty(tracks')) = Cardinality(NonEmpty(tracks)) + One(Emptied.list # <<>>) - One(tracks[t].list # <<>>)
    BY <1>1, <1>2, CountPut
  <2>3. One(Emptied.list # <<>>) = 0
    BY EmptiedOK DEF One
  <2>4. Cardinality(NonEmpty(tracks)) \in Nat /\ Cardinality(NonEmpty(tracks')) \in Nat /\ One(tracks[t].list # <<>>) \in {0, 1}
    BY FewTracks DEF One
  <2>5. CASE drift
    BY <1>2, <1>3, <1>4, <1>5, <2>5 DEF Counted
  <2>6. CASE ~drift
    <3>1. audio.count = Cardinality(NonEmpty(tracks)) /\ (audio.count > 0 => One(tracks[t].list # <<>>) = 1)
      BY <2>6 DEF Typed, Counted, drift, One, t
    <3>2. audio'.count = Cardinality(NonEmpty(tracks'))
      BY <1>3, <1>5, <2>2, <2>3, <2>4, <3>1
    <3> QED BY <2>1, <2>4, <3>2 DEF Counted
  <2> QED BY <2>5, <2>6
<1> QED BY <1>5, <1>10, <1>11 DEF Typed

LEMMA DeleteAllKeeps ==
    ASSUME Typed, NEW e \in Edits, InReach(e), DeleteAll(e), UNCHANGED <<mutex, graph, callback>> PROVE Typed'
<1> DEFINE a == [audio EXCEPT !.count = 0, !.allEnded = TRUE]
<1>1. tracks' = [t \in Tracks |-> Emptied] /\ clips' = FreedOf(Tracks) /\ Done(a, FALSE) /\ UNCHANGED env
  BY DEF DeleteAll
<1>2. DOMAIN a = DOMAIN audio /\ a.serial = audio.serial /\ a.count = 0
  BY DEF Typed, AudioTyped
<1> HIDE DEF a
<1>3. /\ AudioTyped' /\ EnvTyped' /\ QueueTyped' /\ ThreadsTyped' /\ AppTyped'
      /\ audio'.count = 0
  BY <1>1, <1>2, DoneKeeps
<1>4. Good(tracks', clips', env'.ids)
  <2>1. tracks' \in [Tracks -> Track] /\ \A t \in Tracks : tracks'[t] = Emptied
    BY <1>1, EmptiedOK
  <2>2. \A t \in Tracks : ListOK(tracks'[t].list, clips', env'.ids) /\ CurOK(tracks'[t], clips')
    BY <2>1, EmptiedOK
  <2>3. \A t, u \in Tracks : Apart(tracks'[t].list, tracks'[u].list)
    BY <2>1, EmptiedOK DEF Apart
  <2> QED BY <2>1, <2>2, <2>3 DEF Good
<1>5. Lists'
  <2>1. Good(tracks, clips, env.ids)' <=> Good(tracks', clips', env'.ids)
    BY DEF Good, ListOK, CurOK, Apart
  <2>2. clips' \in [Ids -> Clip] /\ \A c \in Ids : clips'[c].freed => c < env.ids
    BY <1>1, FreedClips, FreedAdded
  <2> QED BY <1>1, <1>4, <2>1, <2>2 DEF Lists, Typed
<1>6. Counted'
  <2>1. NonEmpty(tracks)' = {}
    BY <1>1, EmptiedOK DEF NonEmpty
  <2>2. Cardinality({}) = 0
    BY FS_EmptySet
  <2> QED BY <1>3, <2>1, <2>2 DEF Counted
<1> QED BY <1>3, <1>5, <1>6 DEF Typed

LEMMA ExchangeKeeps ==
    ASSUME Typed, NEW e \in Edits, InReach(e), Exchange(e), UNCHANGED <<mutex, graph, callback>> PROVE Typed'
<1>0. PICK s \in BOOLEAN :
        LET c == tracks[e.t].list[e.i + 1]
            old == [tracks EXCEPT ![e.t] = Without(e.t, e.i, s)]
            fits == e.j <= Len(old[e.u].list)
            new == IF fits THEN [old EXCEPT ![e.u] = With(@, e.j, c)] ELSE old
            Left == IF old[e.t].list = <<>> THEN 1 ELSE 0
            Joins == IF fits /\ old[e.u].list = <<>> THEN 1 ELSE 0
        IN /\ e.op = "exchange"
           /\ tracks' = new
           /\ env' = [env EXCEPT !.gone = WithoutBad(e.t, e.i)]
           /\ Done([audio EXCEPT !.count = @ - Left + Joins], TRUE)
           /\ UNCHANGED clips
  BY DEF Exchange
<1> DEFINE t == e.t
           u == e.u
           n == env.ids
           c == tracks[t].list[e.i + 1]
           w == Without(t, e.i, s)
           old == [tracks EXCEPT ![t] = w]
           fits == e.j <= Len(old[u].list)
           v == With(old[u], e.j, c)
           Left == IF old[t].list = <<>> THEN 1 ELSE 0
           Joins == IF fits /\ old[u].list = <<>> THEN 1 ELSE 0
           gone == WithoutBad(t, e.i)
           a == [audio EXCEPT !.count = @ - Left + Joins]
<1>1. /\ tracks' = IF fits THEN [old EXCEPT ![u] = v] ELSE old
      /\ env' = [env EXCEPT !.gone = gone]
      /\ Done(a, TRUE)
      /\ UNCHANGED clips
  BY <1>0
<1>2. /\ t \in Tracks /\ u \in Tracks /\ e.i \in Nat /\ e.j \in Nat /\ n \in 0 .. MaxIds
      /\ tracks \in [Tracks -> Track] /\ Good(tracks, clips, n) /\ audio.count \in Int
      /\ e.i < Len(tracks[t].list)
  BY <1>0, EditType DEF InReach, Typed, Lists, Good, Counted
<1>3. c \in Ids /\ c < n /\ ~clips[c].freed /\ tracks[t].list # <<>>
  BY <1>2 DEF Good, ListOK, Track
<1>4. DOMAIN a = DOMAIN audio /\ a.serial = audio.serial /\ a.count = audio.count - Left + Joins
  <2> HIDE DEF Left, Joins
  <2> QED BY DEF Typed, AudioTyped
<1>5. n \in Int
  BY <1>2
<1>6. /\ Good(old, clips, n) /\ w \in Track
      /\ \A x \in Tracks : \A k \in 1 .. Len(old[x].list) : old[x].list[k] # c
  <2>1. /\ Good([tracks EXCEPT ![t] = Without(t, e.i, s)], clips, n)
        /\ Without(t, e.i, s) \in Track
        /\ \A x \in Tracks : LET m == [tracks EXCEPT ![t] = Without(t, e.i, s)][x].list IN
                \A k \in 1 .. Len(m) : m[k] # tracks[t].list[e.i + 1]
    <3> HIDE DEF t, n
    <3> QED BY <1>2, <1>5, WithoutGood, Zenon
  <2> QED BY <2>1
<1>7. old \in [Tracks -> Track] /\ old[t] = w
  BY <1>2, <1>6 DEF Good
<1> HIDE DEF t, u, n, c, w, old, fits, v, Left, Joins, gone, a
<1>8. fits => Good([old EXCEPT ![u] = v], clips, n) /\ v.list # <<>>
  BY <1>2, <1>3, <1>5, <1>6, WithGood DEF fits, v
<1>9. /\ DOMAIN env' = DOMAIN env /\ env'.frames = env.frames /\ env'.ids = n
      /\ env'.drift = env.drift
  BY <1>1 DEF Typed, EnvTyped, n
<1>10. /\ AudioTyped' /\ EnvTyped' /\ QueueTyped' /\ ThreadsTyped' /\ AppTyped'
       /\ audio'.count = a.count
  BY <1>1, <1>4, <1>9, DoneKeeps
<1>11. Good(tracks', clips', n)
  BY <1>1, <1>6, <1>8
<1>12. Lists'
  <2>1. Good(tracks, clips, env.ids)' <=> Good(tracks', clips', env'.ids)
    BY DEF Good, ListOK, CurOK, Apart
  <2> QED BY <1>1, <1>9, <1>11, <2>1 DEF Typed, Lists, n
<1>13. Counted'
  <2>1. NonEmpty(tracks)' = NonEmpty(tracks')
    BY DEF NonEmpty
  <2> DEFINE k0 == Cardinality(NonEmpty(tracks))
             k1 == Cardinality(NonEmpty(old))
             k2 == Cardinality(NonEmpty(tracks'))
  <2>2. k0 \in Nat /\ k1 \in Nat /\ k2 \in Nat
    BY FewTracks
  <2>3. k1 = k0 + One(w.list # <<>>) - One(tracks[t].list # <<>>)
    BY <1>2, CountPut DEF old
  <2>4. k1 = k0 - Left
    BY <1>3, <1>7, <2>2, <2>3 DEF One, Left
  <2>5. k2 = k1 + Joins
    <3>1. CASE fits
      <4>1. k2 = k1 + One(v.list # <<>>) - One(old[u].list # <<>>)
        BY <1>1, <1>2, <1>7, <3>1, CountPut
      <4> QED BY <1>8, <2>2, <3>1, <4>1 DEF One, Joins
    <3>2. CASE ~fits
      BY <1>1, <2>2, <3>2 DEF Joins
    <3> QED BY <3>1, <3>2
  <2>6. Left \in {0, 1} /\ Joins \in {0, 1}
    BY DEF Left, Joins
  <2> HIDE DEF k0, k1, k2
  <2>7. audio.count - Left + Joins \in Int /\ (~env.drift => audio.count - Left + Joins = k2)
    BY <1>2, <2>2, <2>4, <2>5, <2>6 DEF Typed, Counted, k0
  <2> QED BY <1>4, <1>9, <1>10, <2>1, <2>7 DEF Counted, k2
<1> QED BY <1>10, <1>12, <1>13 DEF Typed

LEMMA TypedInit == Init => Typed
<1> SUFFICES ASSUME Init PROVE Typed
  OBVIOUS
<1> USE AudioAssumption
<1>1. 0 \in Ids /\ 1 \in Ids /\ <<0, 1>> \in Seq(Ids) /\ 1 \in Tracks
  <2>1. 0 \in Ids /\ 1 \in Ids
    BY DEF Ids
  <2> QED BY <2>1 DEF Tracks
<1>2. tracks \in [Tracks -> Track] /\ \A t \in Tracks : tracks[t].cur = None /\ (t = 1 => tracks[t].ended)
      /\ tracks[t].list = IF t = 1 THEN <<0, 1>> ELSE <<>>
  <2> DEFINE l(t) == IF t = 1 THEN <<0, 1>> ELSE <<>>
             e(t) == t = 1
  <2>1. tracks = [t \in Tracks |-> [list |-> l(t), cur |-> None, ended |-> e(t)]]
    BY DEF Init
  <2>2. \A t \in Tracks : l(t) \in Seq(Ids) /\ e(t) \in BOOLEAN
    BY <1>1
  <2>3. l(1) = <<0, 1>> /\ \A t \in Tracks : t # 1 => l(t) = <<>>
    OBVIOUS
  <2>4. \A t \in Tracks : (t = 1 => e(t))
    OBVIOUS
  <2> HIDE DEF l, e
  <2>5. tracks \in [Tracks -> Track] /\ \A t \in Tracks : tracks[t] = [list |-> l(t), cur |-> None, ended |-> e(t)]
    BY <2>1, <2>2 DEF Track
  <2> QED BY <2>3, <2>4, <2>5
<1>3. /\ clips \in [Ids -> Clip]
      /\ \A c \in Ids : ~clips[c].freed
  <2> DEFINE z(c) == IF c = 0 THEN 0 ELSE MaxPos - 1
  <2>1. clips = [c \in Ids |-> [NoClip EXCEPT !.end = z(c)]]
    BY DEF Init
  <2>2. \A c \in Ids : z(c) \in 0 .. MaxPos
    OBVIOUS
  <2> HIDE DEF z
  <2>3. \A c \in Ids : clips[c] = [NoClip EXCEPT !.end = z(c)] /\ clips[c] \in Clip
    BY <2>1, <2>2 DEF Clip, NoClip
  <2> QED BY <2>1, <2>3 DEF Clip, NoClip
<1>4. env.ids = 2 /\ env.frames \in Nat /\ EnvTyped
  <2>1. PICK events \in 0 .. MaxEvents : /\ DOMAIN env = {"ids", "frames", "events", "seeks", "astray", "kept", "drift", "late", "gone"}
                                         /\ env.ids = 2 /\ env.frames = events
    BY DEF Init
  <2>2. events \in Nat /\ events <= MaxFrames
    OBVIOUS
  <2> QED BY <2>1, <2>2 DEF EnvTyped
<1>5. Good(tracks, clips, 2)
  <2>1. \A t \in Tracks : ListOK(tracks[t].list, clips, 2) /\ CurOK(tracks[t], clips)
    <3>1. \A l : l = <<>> => ListOK(l, clips, 2)
      BY DEF ListOK, IsInjective
    <3>2. ListOK(<<0, 1>>, clips, 2)
      BY <1>1, <1>3 DEF ListOK, IsInjective
    <3>3. \A t \in Tracks : CurOK(tracks[t], clips)
      BY <1>2 DEF CurOK
    <3> QED BY <1>2, <3>1, <3>2, <3>3
  <2>2. \A t, u \in Tracks : t # u => Apart(tracks[t].list, tracks[u].list)
    BY <1>2 DEF Apart
  <2> QED BY <1>2, <2>1, <2>2 DEF Good
<1>6. Lists
  BY <1>3, <1>4, <1>5 DEF Lists
<1>7. Counted
  <2>1. NonEmpty(tracks) = {1}
    <3>1. <<0, 1>> # <<>>
      OBVIOUS
    <3>2. \A t \in Tracks : tracks[t].list # <<>> <=> t = 1
      BY <1>2, <3>1
    <3> HIDE <1>2
    <3> QED BY <1>1, <3>2 DEF NonEmpty
  <2>2. Cardinality({1}) = 1
    BY FS_Singleton
  <2>3. audio.count = 1
    BY DEF Init
  <2> QED BY <2>1, <2>2, <2>3 DEF Counted
<1>8. AudioTyped
  BY DEF Init, AudioTyped
<1>9. QueueTyped
  BY NoSoundType DEF Init, QueueTyped
<1>10. ThreadsTyped
  BY <1>4, NoSoundType DEF Init, ThreadsTyped
<1>11. AppTyped
  BY DEF Init, AppTyped
<1> QED BY <1>4, <1>6, <1>7, <1>8, <1>9, <1>10, <1>11 DEF Typed

LEMMA TypedNext == Typed /\ [Next]_vars => Typed'
<1> SUFFICES ASSUME Typed, [Next]_vars PROVE Typed'
  OBVIOUS
<1>1. CASE DecodeStep
  BY <1>1, EnterKeeps, EnterSeekKeeps, EnterSeekFailsKeeps, ExitKeeps, LoopKeeps, FeedKeeps, ClipEndsKeeps,
     ClipEndsFailingKeeps, FeedNothingKeeps, DrainKeeps, RoomKeeps, PushKeeps, RestKeeps DEF DecodeStep
<1>2. CASE CallbackStep
  BY <1>2, CallKeeps, TakeKeeps, PlayKeeps DEF CallbackStep
<1>3. CASE AppStep
  <2>1. CASE Edit
    <3>1. PICK e \in Edits : /\ InReach(e)
                             /\ Add(e) \/ Cut(e) \/ Delete(e) \/ DeleteTrack(e) \/ DeleteAll(e) \/ Exchange(e)
      BY <2>1 DEF Edit
    <3>2. UNCHANGED <<mutex, graph, callback>>
      BY <2>1 DEF Edit
    <3> QED BY <3>1, <3>2, AddKeeps, CutKeeps, DeleteKeeps, DeleteTrackKeeps, DeleteAllKeeps, ExchangeKeeps
  <2> QED BY <1>3, <2>1, BeginKeeps, VolumeKeeps, FlagsKeep DEF AppStep
<1>4. CASE Seek
  BY <1>4, FlagsKeep
<1>5. CASE UNCHANGED vars
  <2>1. UNCHANGED <<tracks, clips, audio, mutex, graph, queue, decode, callback, app, env>>
    BY <1>5 DEF vars
  <2>2. AudioTyped' /\ EnvTyped' /\ QueueTyped' /\ ThreadsTyped'
    BY <2>1 DEF Typed, AudioTyped, EnvTyped, QueueTyped, ThreadsTyped
  <2> QED BY <2>1, <2>2, QuietKeeps DEF Quiet
<1> QED BY <1>1, <1>2, <1>3, <1>4, <1>5 DEF Next

LEMMA AlwaysTyped == Spec => []Typed
BY TypedInit, TypedNext, PTL DEF Spec

\* The clips of the tracks are distinct and not freed, a track's current clip is open,
\* and the number of tracks with clips is right (but for an empty track deleted;
\* ff_ffplay.c:8929): for any number of tracks, and any edits beside the decode thread.
THEOREM TracksCorrect == Spec => []TracksInStep
<1>1. Typed => TracksInStep
  <2> SUFFICES ASSUME Typed PROVE TracksInStep
    OBVIOUS
  <2>1. TypeOK
    <3>1. tracks \in [Tracks -> Track] /\ clips \in [Ids -> Clip]
      BY DEF Typed, Lists, Good
    <3>2. Len(graph) <= MaxFrames
      <4>1. Len(graph) \in Nat /\ Len(graph) <= env.frames /\ env.frames \in Nat /\ env.frames <= MaxFrames
        BY DEF Typed, ThreadsTyped, EnvTyped
      <4> QED BY <4>1, AudioAssumption
    <3>3. queue.windex \in Slots /\ queue.rindex \in Slots /\ queue.size <= QueueSize
      BY SlotIsNat DEF Typed, QueueTyped
    <3> QED BY <3>1, <3>2, <3>3 DEF Typed, ThreadsTyped, TypeOK, Track, Clip
  <2>2. ASSUME NEW t \in Tracks
        PROVE  IsInjective(tracks[t].list) /\ \A k \in 1 .. Len(tracks[t].list) : ~clips[tracks[t].list[k]].freed
    BY DEF Typed, Lists, Good, ListOK
  <2>3. ASSUME NEW t \in Tracks, NEW u \in Tracks, t # u
        PROVE  ToSet(tracks[t].list) \cap ToSet(tracks[u].list) = {}
    <3>1. Apart(tracks[t].list, tracks[u].list)
      BY <2>3 DEF Typed, Lists, Good
    <3>2. DOMAIN tracks[t].list = 1 .. Len(tracks[t].list) /\ DOMAIN tracks[u].list = 1 .. Len(tracks[u].list)
      BY DEF Typed, Lists, Good, Track
    <3> QED BY <3>1, <3>2 DEF Apart, ToSet
  <2>4. ASSUME NEW t \in NonEmpty(tracks)
        PROVE  (tracks[t].ended <=> tracks[t].cur = None) /\ (tracks[t].cur # None => clips[tracks[t].cur].open)
    BY DEF NonEmpty, Typed, Lists, Good, CurOK
  <2>5. ~env.drift => audio.count = Cardinality(NonEmpty(tracks))
    BY DEF Typed, Counted
  <2> QED BY <2>1, <2>2, <2>3, <2>4, <2>5 DEF TracksInStep
<1> QED BY <1>1, AlwaysTyped, PTL

-----------------------------------------------------------------------------
(* Sound of an old serial.                                                 *)

\* A step that makes no new sound: what is in the mixer, the thread and the queue was
\* there before.
LEMMA FreshMove ==
    ASSUME Typed, Fresh, audio'.serial = audio.serial, audio.seek => audio'.seek, env'.kept = env.kept,
           decode.at \in {"top", "done"} => decode'.at \in {"top", "done"},
           graph' = graph \/ graph' = <<>>,
           decode'.at \in {"room", "push"} => decode.at \in {"room", "push"} /\ decode'.frame = decode.frame,
           \A s \in Slots : queue'.slot[s] = queue.slot[s] \/ ~queue'.slot[s].full
    PROVE  Fresh'
<1> SUFFICES ASSUME ~env'.kept PROVE Fresh'
  BY DEF Fresh
<1>1. (audio.seek /\ decode.at \in {"top", "done"}) \/ \A i \in 1 .. Len(graph) : graph[i].mixed = audio.serial
  BY DEF Fresh
<1>2. (audio'.seek /\ decode'.at \in {"top", "done"}) \/ \A i \in 1 .. Len(graph') : graph'[i].mixed = audio'.serial
  <2>1. CASE graph' = graph
    BY <1>1, <2>1
  <2>2. CASE graph' = <<>>
    BY <2>2
  <2> QED BY <2>1, <2>2
<1>3. decode'.at \in {"room", "push"} => decode'.frame.mixed = audio'.serial
  BY DEF Fresh
<1>4. \A s \in Slots : queue'.slot[s].full => queue'.slot[s].mixed = queue'.slot[s].serial
  BY DEF Fresh
<1> QED BY <1>2, <1>3, <1>4 DEF Fresh

\* What Configure leaves in the mixer.
LEMMA Configured ==
    ASSUME Typed, NEW ts, NEW a, Configure(ts, a), DOMAIN a = DOMAIN audio
    PROVE  /\ decode'.at = "loop" /\ audio'.serial = a.serial
           /\ graph' = IF Builds(ts, a) THEN <<>> ELSE graph
<1> DEFINE l == IF NeedsGraph(ts, a) THEN a.serial ELSE decode.local
           b == decode.built \/ Builds(ts, a)
<1>1. decode' = [decode EXCEPT !.at = "loop", !.track = 1, !.local = l, !.built = b]
  BY DEF Configure
<1> HIDE DEF l, b
<1>2. decode'.at = "loop"
  BY <1>1 DEF Typed, ThreadsTyped
<1>3. audio'.serial = a.serial
  BY DEF Configure, Typed, AudioTyped
<1> QED BY <1>2, <1>3 DEF Configure

LEMMA FreshEnter == Typed /\ Fresh /\ Enter => Fresh'
<1> SUFFICES ASSUME Typed, Fresh, Enter, ~env'.kept PROVE Fresh'
  BY DEF Fresh
<1>1. decode'.at = "loop" /\ audio'.serial = audio.serial /\ (graph' = graph \/ graph' = <<>>)
  BY Configured DEF Enter
<1>2. ~env.kept
  BY DEF Enter, Typed, EnvTyped
<1>3. \A i \in 1 .. Len(graph) : graph[i].mixed = audio.serial
  BY <1>2 DEF Fresh, Enter
<1>4. \A i \in 1 .. Len(graph') : graph'[i].mixed = audio'.serial
  BY <1>1, <1>3
<1> QED BY <1>1, <1>2, <1>4 DEF Fresh, Enter

LEMMA FreshEnterSeek == Typed /\ Fresh /\ EnterSeek => Fresh'
<1> SUFFICES ASSUME Typed, Fresh, EnterSeek, ~env'.kept PROVE Fresh'
  BY DEF Fresh
<1> DEFINE a == [audio EXCEPT !.seek = FALSE, !.serial = @ + 1]
           kept == env.kept \/ (graph' # <<>> /\ AllEnded(tracks'))
           gone == UsesFreed \/ LinksNothing(tracks', a)
<1>1. Configure(tracks', a) /\ env' = [env EXCEPT !.kept = kept, !.gone = gone] /\ UNCHANGED queue
  BY DEF EnterSeek
<1>2. DOMAIN a = DOMAIN audio /\ a.serial = audio.serial + 1 /\ a.count = audio.count
  BY DEF Typed, AudioTyped
<1> HIDE DEF a, kept, gone
<1>3. ~kept
  BY <1>1 DEF Typed, EnvTyped
<1>4. decode'.at = "loop" /\ audio'.serial = a.serial /\ graph' = IF Builds(tracks', a) THEN <<>> ELSE graph
  BY <1>1, <1>2, Configured
<1>5. graph' = <<>>
  <2> SUFFICES ASSUME ~AllEnded(tracks') PROVE Builds(tracks', a)
    BY <1>3, <1>4 DEF kept
  <2>1. Reached(tracks', a.count) \cap Active(tracks') # {}
    BY <1>2 DEF AllEnded
  <2>2. a.serial # decode.local
    BY <1>2 DEF Typed, ThreadsTyped, AudioTyped
  <2> QED BY <2>1, <2>2 DEF Builds, NeedsGraph
<1>6. ~env.kept
  BY <1>3 DEF kept
<1>7. \A s \in Slots : queue'.slot[s].full => queue'.slot[s].mixed = queue'.slot[s].serial
  BY <1>1, <1>6 DEF Fresh
<1>8. \A i \in 1 .. Len(graph') : graph'[i].mixed = audio'.serial
  BY <1>5
<1> QED BY <1>4, <1>7, <1>8 DEF Fresh

LEMMA FreshFails == Typed /\ Fresh /\ EnterSeekFails => Fresh'
<1> SUFFICES ASSUME Typed, Fresh, EnterSeekFails, ~env'.kept PROVE Fresh'
  BY DEF Fresh
<1>1. decode' = decode /\ queue' = queue /\ decode.at = "top" /\ audio' = [audio EXCEPT !.serial = @ + 1] /\ audio.seek
  BY DEF EnterSeekFails, Enters
<1>2. audio'.seek
  BY <1>1 DEF Typed, AudioTyped
<1>3. ~env.kept
  BY DEF EnterSeekFails, Typed, EnvTyped
<1> QED BY <1>1, <1>2, <1>3 DEF Fresh

LEMMA FreshFeed == Typed /\ Fresh /\ Feed => Fresh'
<1> SUFFICES ASSUME Typed, Fresh, Feed, ~env'.kept PROVE Fresh'
  BY DEF Fresh
<1>1. PICK k \in 1 .. 2 : /\ graph' = graph \o [i \in 1 .. k |-> [n |-> env.frames + i, mixed |-> audio.serial]]
                          /\ env' = [env EXCEPT !.frames = @ + k]
  BY DEF Feed
<1>2. decode' = [decode EXCEPT !.at = "loop", !.track = @ + 1] /\ decode.at = "feed" /\ UNCHANGED <<audio, queue>>
  BY DEF Feed, Feeding
<1>3. decode'.at = "loop"
  BY <1>2 DEF Typed, ThreadsTyped
<1>4. ~env.kept
  BY <1>1 DEF Typed, EnvTyped
<1>5. \A i \in 1 .. Len(graph) : graph[i].mixed = audio.serial
  BY <1>2, <1>4 DEF Fresh
<1>6. \A i \in 1 .. Len(graph') : graph'[i].mixed = audio.serial
  <2> SUFFICES ASSUME NEW i \in 1 .. Len(graph') PROVE graph'[i].mixed = audio.serial
    OBVIOUS
  <2>1. Len(graph) \in Nat
    BY DEF Typed, ThreadsTyped
  <2>2. CASE i <= Len(graph)
    <3>1. i \in 1 .. Len(graph)
      BY <2>1, <2>2
    <3>2. graph'[i] = graph[i]
      BY <1>1, <3>1, FedGraph
    <3> QED BY <1>5, <3>1, <3>2
  <2>3. CASE ~(i <= Len(graph))
    <3>1. i \in Len(graph) + 1 .. Len(graph) + k
      BY <1>1, <2>1, <2>3, FedGraph
    <3>2. graph'[i] = [n |-> env.frames + (i - Len(graph)), mixed |-> audio.serial]
      BY <1>1, <3>1, FedGraph
    <3> QED BY <3>2
  <2> QED BY <2>2, <2>3
<1> QED BY <1>2, <1>3, <1>4, <1>6 DEF Fresh

\* The frames that are left when the first one is taken.
LEMMA Drained1 ==
    ASSUME Typed, graph # <<>>
    PROVE  /\ Len(graph) > 0 /\ Head(graph) = graph[1] /\ Head(graph) \in Sound
           /\ Len(Tail(graph)) = Len(graph) - 1
           /\ \A i \in 1 .. Len(graph) - 1 : Tail(graph)[i] = graph[i + 1]
<1>1. graph \in Seq(Sound)
  BY DEF Typed, ThreadsTyped
<1> QED BY <1>1

LEMMA FreshDrain == Typed /\ Fresh /\ Drain => Fresh'
<1> SUFFICES ASSUME Typed, Fresh, Drain PROVE Fresh'
  OBVIOUS
<1>1. UNCHANGED <<audio, queue, env>> /\ decode.at = "drain"
  BY DEF Drain
<1>2. CASE ~decode.built \/ graph = <<>>
  <2>1. /\ graph' = graph
        /\ \/ decode' = [decode EXCEPT !.at = "drained"]
           \/ decode' = [decode EXCEPT !.at = "top", !.track = 1, !.rebuild = TRUE]
    BY <1>2 DEF Drain, PassOver
  <2>2. decode'.at \in {"drained", "top"}
    BY <2>1 DEF Typed, ThreadsTyped
  <2> QED BY <1>1, <2>1, <2>2, FreshMove
<1>3. CASE decode.built /\ graph # <<>> /\ ~env.kept
  <2> DEFINE h == Head(graph)
  <2>1. /\ graph' = Tail(graph)
        /\ \/ decode' = [decode EXCEPT !.at = "drained"]
           \/ decode' = [decode EXCEPT !.at = "room", !.frame = h]
    BY <1>3 DEF Drain
  <2>2. \A i \in 1 .. Len(graph) : graph[i].mixed = audio.serial
    BY <1>1, <1>3 DEF Fresh
  <2>3. Len(graph) > 0 /\ h = graph[1] /\ h.mixed = audio.serial /\ Len(graph) \in Nat
    <3>1. Len(graph) \in Nat
      BY DEF Typed, ThreadsTyped
    <3> QED BY <1>3, <2>2, <3>1, Drained1
  <2>4. \A i \in 1 .. Len(graph') : graph'[i].mixed = audio.serial
    <3> SUFFICES ASSUME NEW i \in 1 .. Len(graph') PROVE graph'[i].mixed = audio.serial
      OBVIOUS
    <3>1. i \in 1 .. Len(graph) - 1 /\ i + 1 \in 1 .. Len(graph)
      BY <1>3, <2>1, <2>3, Drained1
    <3>2. graph'[i] = graph[i + 1]
      BY <1>3, <2>1, <3>1, Drained1
    <3> QED BY <2>2, <3>1, <3>2
  <2> HIDE DEF h
  <2>5. decode'.at \in {"room", "push"} => decode'.frame.mixed = audio.serial
    BY <2>1, <2>3 DEF Typed, ThreadsTyped
  <2> QED BY <1>1, <1>3, <2>4, <2>5 DEF Fresh
<1>4. CASE env.kept
  BY <1>1, <1>4 DEF Fresh
<1> QED BY <1>2, <1>3, <1>4

LEMMA FreshPush == Typed /\ Fresh /\ Push => Fresh'
<1> SUFFICES ASSUME Typed, Fresh, Push, ~env'.kept PROVE Fresh'
  BY DEF Fresh
<1>1. /\ queue' = QueuePush(queue, decode.slot, PushedFrame)
      /\ decode' = [decode EXCEPT !.at = "drain", !.frame = NoSound, !.slot = 0]
      /\ env' = [env EXCEPT !.astray = @ \/ decode.slot # (queue.rindex + queue.size) % QueueSize]
      /\ UNCHANGED <<audio, graph>>
      /\ decode.at = "push"
  BY DEF Push, PushedFrame
<1>2. ~env.kept
  BY <1>1 DEF Typed, EnvTyped
<1>3. /\ \A i \in 1 .. Len(graph) : graph[i].mixed = audio.serial
      /\ decode.frame.mixed = audio.serial
      /\ \A s \in Slots : queue.slot[s].full => queue.slot[s].mixed = queue.slot[s].serial
  BY <1>1, <1>2 DEF Fresh
<1>4. decode'.at = "drain"
  BY <1>1 DEF Typed, ThreadsTyped
<1>5. queue.slot \in [Slots -> Frame] /\ decode.slot \in Slots /\ queue \in Queues /\ queue.size < QueueSize
  BY <1>1, QueueInQueues DEF Queues, Typed, ThreadsTyped, QueueTyped
<1>6. queue'.slot = [queue.slot EXCEPT ![decode.slot] = PushedFrame]
  BY <1>1, <1>5, PushedQueue, PushedType
<1>7. PushedFrame.mixed = decode.frame.mixed /\ PushedFrame.serial = audio.serial
  BY DEF PushedFrame
<1>8. \A s \in Slots : queue'.slot[s].full => queue'.slot[s].mixed = queue'.slot[s].serial
  BY <1>3, <1>5, <1>6, <1>7
<1> QED BY <1>1, <1>3, <1>4, <1>8 DEF Fresh

\* The steps of the thread that take no frame up.
LEMMA DecodeMoves ==
    ASSUME Typed, Exit \/ Loop \/ ClipEnds \/ ClipEndsFailing \/ FeedNothing \/ Room \/ Drained \/ Doze
    PROVE  /\ decode.at \in {"top", "done"} => decode'.at \in {"top", "done"}
           /\ decode'.at \in {"room", "push"} => decode.at \in {"room", "push"} /\ decode'.frame = decode.frame
<1> DEFINE t == CHOOSE t \in ToFeed : \A u \in ToFeed : t <= u
           w == queue.windex
<1>1. \/ decode' = [decode EXCEPT !.at = "done"]
      \/ /\ decode.at \notin {"top", "done"}
         /\ \/ decode' = decode
            \/ decode' = [decode EXCEPT !.at = "top", !.track = 1, !.rebuild = TRUE]
            \/ decode' = [decode EXCEPT !.at = "feed", !.track = t]
            \/ decode' = [decode EXCEPT !.at = "drain", !.track = 1]
            \/ decode' = [decode EXCEPT !.at = "loop"]
            \/ decode' = [decode EXCEPT !.at = "drain", !.frame = NoSound]
            \/ decode' = [decode EXCEPT !.at = "push", !.slot = w] /\ decode.at = "room"
            \/ decode' = [decode EXCEPT !.at = "dozing"]
            \/ decode' = [decode EXCEPT !.at = "asleep"]
            \/ decode' = [decode EXCEPT !.at = "top", !.rebuild = FALSE]
  BY DEF Exit, Loop, ClipEnds, ClipEndsFailing, FeedNothing, Room, Drained, Doze, PassOver, Feeding
<1> HIDE DEF t, w
<1> QED BY <1>1 DEF Typed, ThreadsTyped

LEMMA FreshDecode ==
    Typed /\ Fresh /\ (Exit \/ Loop \/ ClipEnds \/ ClipEndsFailing \/ FeedNothing \/ Room \/ Drained \/ Doze) => Fresh'
<1> SUFFICES ASSUME Typed, Fresh, Exit \/ Loop \/ ClipEnds \/ ClipEndsFailing \/ FeedNothing \/ Room \/ Drained \/ Doze
             PROVE  Fresh'
  OBVIOUS
<1>1. graph' = graph /\ queue' = queue
  BY DEF Exit, Loop, ClipEnds, ClipEndsFailing, FeedNothing, Room, Drained, Doze
<1>2. env'.kept = env.kept
  <2>1. CASE ClipEnds
    <3> DEFINE late == env.late \/ (audio'.allEnded /\ audio.seek)
    <3>1. env' = [env EXCEPT !.late = late]
      BY <2>1 DEF ClipEnds
    <3> HIDE DEF late
    <3> QED BY <3>1 DEF Typed, EnvTyped
  <2>2. CASE ~ClipEnds
    <3>1. env' = env \/ env' = [env EXCEPT !.events = @ - 1] \/ env' = [env EXCEPT !.gone = TRUE]
      BY <2>2 DEF Exit, Loop, ClipEndsFailing, FeedNothing, Room, Drained, Doze
    <3> QED BY <3>1 DEF Typed, EnvTyped
  <2> QED BY <2>1, <2>2
<1>3. audio'.serial = audio.serial /\ audio'.seek = audio.seek
  <2>1. CASE ClipEnds
    <3> DEFINE all == AllEnded(tracks')
    <3>1. audio' = audio \/ audio' = [audio EXCEPT !.allEnded = all]
      BY <2>1 DEF ClipEnds
    <3> HIDE DEF all
    <3> QED BY <3>1 DEF Typed, AudioTyped
  <2>2. CASE ~ClipEnds
    BY <2>2 DEF Exit, Loop, ClipEndsFailing, FeedNothing, Room, Drained, Doze
  <2> QED BY <2>1, <2>2
<1>4. /\ decode.at \in {"top", "done"} => decode'.at \in {"top", "done"}
      /\ decode'.at \in {"room", "push"} => decode.at \in {"room", "push"} /\ decode'.frame = decode.frame
  BY DecodeMoves
<1> QED BY <1>1, <1>2, <1>3, <1>4, FreshMove

LEMMA FreshCallback == Typed /\ Fresh /\ (Call \/ Take \/ Play) => Fresh'
<1> SUFFICES ASSUME Typed, Fresh, Call \/ Take \/ Play PROVE Fresh'
  OBVIOUS
<1>1. UNCHANGED <<audio, graph, decode, env>>
  BY DEF Call, Take, Play
<1>2. \A s \in Slots : queue'.slot[s] = queue.slot[s] \/ ~queue'.slot[s].full
  <2>1. CASE Call \/ Take
    BY <2>1 DEF Call, Take
  <2>2. CASE Play
    <3>1. queue' = QueueNext(queue) /\ queue \in Queues /\ queue.size > 0
      BY <2>2, QueueInQueues DEF Play, Typed, QueueTyped
    <3>2. queue.shown \in BOOLEAN /\ queue.rindex \in Slots
      BY <3>1 DEF Queues
    <3>3. CASE ~queue.shown
      BY <3>1, <3>3, NextQueue
    <3>4. CASE queue.shown
      BY <3>1, <3>2, <3>4, NextQueue
    <3> QED BY <3>3, <3>4
  <2> QED BY <2>1, <2>2
<1> QED BY <1>1, <1>2, FreshMove

\* What an edit, a call or a seek does to the thread, the queue and the seek under way.
Calls ==
    /\ UNCHANGED <<graph, callback>>
    /\ audio'.serial = audio.serial /\ (audio.seek => audio'.seek)
    /\ decode' = decode \/ decode' = Woken(decode)
    /\ env'.kept = env.kept /\ env'.frames = env.frames /\ env'.astray = env.astray

LEMMA DoneCalls ==
    ASSUME Typed, NEW a, DOMAIN a = DOMAIN audio, a.serial = audio.serial, a.seek = audio.seek, NEW s, Done(a, s)
    PROVE  /\ audio'.serial = audio.serial /\ (audio.seek => audio'.seek)
           /\ decode' = Woken(decode) /\ queue' = [queue EXCEPT !.windex = 0]
<1>1. CASE s
  <2>1. audio' = [SeekTo(a) EXCEPT !.processing = FALSE]
    BY <1>1 DEF Done
  <2>2. DOMAIN SeekTo(a) = DOMAIN audio /\ SeekTo(a).serial = audio.serial /\ SeekTo(a).seek
    BY DEF SeekTo, Typed, AudioTyped
  <2> QED BY <2>1, <2>2 DEF Done, Typed, AudioTyped
<1>2. CASE ~s
  <2>1. audio' = [a EXCEPT !.processing = FALSE]
    BY <1>2 DEF Done
  <2> QED BY <2>1 DEF Done, Typed, AudioTyped
<1> QED BY <1>1, <1>2

LEMMA EditCalls == Typed /\ Edit => Calls /\ queue' = [queue EXCEPT !.windex = 0]
<1> SUFFICES ASSUME Typed, Edit PROVE Calls /\ queue' = [queue EXCEPT !.windex = 0]
  OBVIOUS
<1>1. UNCHANGED <<graph, callback>>
  BY DEF Edit
<1>0. PICK e \in Edits : /\ InReach(e)
                         /\ Add(e) \/ Cut(e) \/ Delete(e) \/ DeleteTrack(e) \/ DeleteAll(e) \/ Exchange(e)
  BY DEF Edit
<1>2. PICK a, s : Done(a, s) /\ DOMAIN a = DOMAIN audio /\ a.serial = audio.serial /\ a.seek = audio.seek
  <2>1. CASE Refused
    BY <2>1 DEF Refused
  <2>2. CASE Add(e) /\ ~Refused
    <3> DEFINE a == IF tracks[e.t].list = <<>> THEN [audio EXCEPT !.count = @ + 1] ELSE audio
    <3>1. Done(a, TRUE)
      BY <2>2 DEF Add
    <3>2. DOMAIN a = DOMAIN audio /\ a.serial = audio.serial /\ a.seek = audio.seek
      BY DEF Typed, AudioTyped
    <3> HIDE DEF a
    <3> QED BY <3>1, <3>2
  <2>3. CASE Cut(e) /\ ~Refused
    BY <2>3 DEF Cut
  <2>4. CASE Delete(e) /\ ~Refused
    <3> DEFINE a == IF tracks'[e.t].list = <<>> THEN [audio EXCEPT !.count = @ - 1, !.afChange = TRUE] ELSE audio
    <3>1. Done(a, TRUE)
      BY <2>4 DEF Delete
    <3>2. DOMAIN a = DOMAIN audio /\ a.serial = audio.serial /\ a.seek = audio.seek
      BY DEF Typed, AudioTyped
    <3> HIDE DEF a
    <3> QED BY <3>1, <3>2
  <2>5. CASE DeleteTrack(e)
    <3> DEFINE a == IF audio.count < 1 THEN [audio EXCEPT !.allEnded = TRUE]
                    ELSE [audio EXCEPT !.afChange = TRUE, !.count = @ - 1]
    <3>1. Done(a, FALSE)
      BY <2>5 DEF DeleteTrack
    <3>2. DOMAIN a = DOMAIN audio /\ a.serial = audio.serial /\ a.seek = audio.seek
      BY DEF Typed, AudioTyped
    <3> HIDE DEF a
    <3> QED BY <3>1, <3>2
  <2>6. CASE DeleteAll(e)
    <3> DEFINE a == [audio EXCEPT !.count = 0, !.allEnded = TRUE]
    <3>1. Done(a, FALSE)
      BY <2>6 DEF DeleteAll
    <3>2. DOMAIN a = DOMAIN audio /\ a.serial = audio.serial /\ a.seek = audio.seek
      BY DEF Typed, AudioTyped
    <3> HIDE DEF a
    <3> QED BY <3>1, <3>2
  <2>7. CASE Exchange(e)
    <3>1. PICK k : Done([audio EXCEPT !.count = k], TRUE)
      BY <2>7 DEF Exchange
    <3> DEFINE a == [audio EXCEPT !.count = k]
    <3>2. DOMAIN a = DOMAIN audio /\ a.serial = audio.serial /\ a.seek = audio.seek
      BY DEF Typed, AudioTyped
    <3>3. Done(a, TRUE)
      BY <3>1
    <3> HIDE DEF a
    <3> QED BY <3>2, <3>3
  <2> QED BY <2>1, <2>2, <2>3, <2>4, <2>5, <2>6, <2>7, <1>0
<1>3. /\ audio'.serial = audio.serial /\ (audio.seek => audio'.seek)
      /\ decode' = Woken(decode) /\ queue' = [queue EXCEPT !.windex = 0]
  BY <1>2, DoneCalls
<1>4. env'.kept = env.kept /\ env'.frames = env.frames /\ env'.astray = env.astray
  <2> DEFINE bad == WithoutBad(e.t, e.i)
             drift == env.drift \/ (tracks[e.t].list = <<>> /\ audio.count > 0)
  <2>1. \/ env' = env
        \/ env' = [env EXCEPT !.ids = @ + 1]
        \/ env' = [env EXCEPT !.gone = bad]
        \/ env' = [env EXCEPT !.drift = drift]
    BY <1>0 DEF Add, Cut, Delete, DeleteTrack, DeleteAll, Exchange, Refused
  <2> HIDE DEF bad, drift
  <2> QED BY <2>1 DEF Typed, EnvTyped
<1> QED BY <1>1, <1>3, <1>4 DEF Calls

\* The rest of the calls: what they do to the queue is said one by one.
LEMMA OtherCalls ==
    Typed /\ (Begin \/ Pause \/ Hold \/ Release \/ Stop \/ Close \/ Closed \/ Seek)
        => Calls /\ (queue' = queue \/ queue' = [queue EXCEPT !.windex = 1])
<1> SUFFICES ASSUME Typed, Begin \/ Pause \/ Hold \/ Release \/ Stop \/ Close \/ Closed \/ Seek
             PROVE  Calls /\ (queue' = queue \/ queue' = [queue EXCEPT !.windex = 1])
  OBVIOUS
<1>1. UNCHANGED <<graph, callback>> /\ (queue' = queue \/ queue' = [queue EXCEPT !.windex = 1])
  BY DEF Begin, Pause, Hold, Release, Stop, Close, Closed, Seek
<1>2. decode' = decode \/ decode' = Woken(decode)
  BY DEF Begin, Pause, Hold, Release, Stop, Close, Closed, Seek
<1>3. env'.kept = env.kept /\ env'.frames = env.frames /\ env'.astray = env.astray
  <2>1. env' = env \/ env' = [env EXCEPT !.events = @ - 1] \/ env' = [env EXCEPT !.seeks = @ - 1]
    BY DEF Begin, Pause, Hold, Release, Stop, Close, Closed, Seek
  <2> QED BY <2>1 DEF Typed, EnvTyped
<1>4. audio'.serial = audio.serial /\ (audio.seek => audio'.seek)
  <2> DEFINE paused == ~audio.paused
  <2>1. \/ audio' = audio
        \/ audio' = [audio EXCEPT !.processing = TRUE]
        \/ audio' = [audio EXCEPT !.paused = paused]
        \/ \E p : audio' = [audio EXCEPT !.held = TRUE, !.paused = p]
        \/ audio' = [audio EXCEPT !.held = FALSE]
        \/ audio' = [audio EXCEPT !.abort = TRUE]
        \/ audio' = [audio EXCEPT !.queueAbort = TRUE]
        \/ audio' = [audio EXCEPT !.closed = TRUE]
        \/ audio' = [audio EXCEPT !.allEnded = FALSE, !.seek = TRUE]
    BY DEF Begin, Pause, Hold, Release, Stop, Close, Closed, Seek, SeekTo
  <2> HIDE DEF paused
  <2> QED BY <2>1 DEF Typed, AudioTyped
<1> QED BY <1>1, <1>2, <1>3, <1>4 DEF Calls

\* A volume call empties the queue by one, or ends in a seek.
LEMMA VolumeCalls ==
    Typed /\ Volume =>
        \/ /\ Remaining(queue) > 0 /\ queue' = QueueNext(queue)
           /\ UNCHANGED <<audio, decode, graph, callback>>
           /\ env'.kept = env.kept /\ env'.frames = env.frames
           /\ ~env'.astray => ~env.astray /\ callback.at # "got"
        \/ Calls /\ queue' = queue
<1> SUFFICES ASSUME Typed, Volume
             PROVE  \/ /\ Remaining(queue) > 0 /\ queue' = QueueNext(queue)
                       /\ UNCHANGED <<audio, decode, graph, callback>>
                       /\ env'.kept = env.kept /\ env'.frames = env.frames
                       /\ ~env'.astray => ~env.astray /\ callback.at # "got"
                    \/ Calls /\ queue' = queue
  OBVIOUS
<1>1. UNCHANGED <<graph, callback>>
  BY DEF Volume
<1>2. CASE Remaining(queue) > 0
  <2> DEFINE astray == env.astray \/ callback.at = "got"
  <2>1. queue' = QueueNext(queue) /\ UNCHANGED <<audio, decode>> /\ env' = [env EXCEPT !.astray = astray]
    BY <1>2 DEF Volume
  <2> HIDE DEF astray
  <2>2. env'.kept = env.kept /\ env'.frames = env.frames /\ env'.astray = astray
    BY <2>1 DEF Typed, EnvTyped
  <2> QED BY <1>1, <1>2, <2>1, <2>2 DEF astray
<1>3. CASE ~(Remaining(queue) > 0)
  <2>1. audio' = [audio EXCEPT !.allEnded = FALSE, !.seek = TRUE] /\ decode' = Woken(decode) /\ UNCHANGED <<queue, env>>
    BY <1>3 DEF Volume, SeekTo
  <2>2. audio'.serial = audio.serial /\ audio'.seek
    BY <2>1 DEF Typed, AudioTyped
  <2> QED BY <1>1, <2>1, <2>2 DEF Calls
<1> QED BY <1>2, <1>3

LEMMA CallsWake ==
    ASSUME Typed, Calls
    PROVE  /\ decode.at \in {"top", "done"} => decode'.at \in {"top", "done"}
           /\ decode'.at \in {"room", "push"} => decode.at \in {"room", "push"} /\ decode'.frame = decode.frame
<1>1. decode' = decode \/ decode' = [decode EXCEPT !.at = "top", !.rebuild = FALSE]
  BY WokenType DEF Calls
<1> QED BY <1>1 DEF Typed, ThreadsTyped

LEMMA FreshCalls == Typed /\ Fresh /\ (AppStep \/ Seek) => Fresh'
<1> SUFFICES ASSUME Typed, Fresh, AppStep \/ Seek PROVE Fresh'
  OBVIOUS
<1>1. ASSUME Calls, NEW i, queue' = queue \/ queue' = [queue EXCEPT !.windex = i] PROVE Fresh'
  <2>1. queue'.slot = queue.slot
    BY <1>1 DEF Typed, QueueTyped
  <2> QED BY <1>1, <2>1, CallsWake, FreshMove DEF Calls
<1>2. CASE Volume
  <2>1. CASE Calls /\ queue' = queue
    BY <1>1, <2>1
  <2>2. CASE ~(Calls /\ queue' = queue)
    <3>1. /\ Remaining(queue) > 0 /\ queue' = QueueNext(queue)
          /\ UNCHANGED <<audio, decode, graph, callback>> /\ env'.kept = env.kept
      BY <1>2, <2>2, VolumeCalls
    <3>2. queue \in Queues /\ queue.shown \in BOOLEAN /\ queue.rindex \in Slots /\ queue.size \in Nat
      BY QueueInQueues, SlotIsNat DEF Queues
    <3>3. queue.size > 0
      BY <3>1, <3>2 DEF Remaining
    <3>4. \A s \in Slots : queue'.slot[s] = queue.slot[s] \/ ~queue'.slot[s].full
      <4>1. CASE ~queue.shown
        BY <3>1, <3>2, <3>3, <4>1, NextQueue
      <4>2. CASE queue.shown
        BY <3>1, <3>2, <3>3, <4>2, NextQueue
      <4> QED BY <4>1, <4>2
    <3> QED BY <3>1, <3>4, FreshMove
  <2> QED BY <2>1, <2>2
<1>3. CASE Edit
  BY <1>1, <1>3, EditCalls
<1>4. CASE Begin \/ Pause \/ Hold \/ Release \/ Stop \/ Close \/ Closed \/ Seek
  BY <1>1, <1>4, OtherCalls
<1> QED BY <1>2, <1>3, <1>4 DEF AppStep

LEMMA FreshInit == Init => Fresh
BY DEF Init, Fresh, NoFrame

LEMMA FreshNext == Typed /\ Fresh /\ [Next]_vars => Fresh'
<1> SUFFICES ASSUME Typed, Fresh, [Next]_vars PROVE Fresh'
  OBVIOUS
<1>1. CASE DecodeStep
  BY <1>1, FreshEnter, FreshEnterSeek, FreshFails, FreshFeed, FreshDrain, FreshPush, FreshDecode DEF DecodeStep
<1>2. CASE CallbackStep
  BY <1>2, FreshCallback DEF CallbackStep
<1>3. CASE AppStep \/ Seek
  BY <1>3, FreshCalls
<1>4. CASE UNCHANGED vars
  BY <1>4 DEF vars, Fresh
<1> QED BY <1>1, <1>2, <1>3, <1>4 DEF Next

\* No sound from before a seek is queued under the serial after it (but for a seek past
\* every clip): however many frames wait in the mixer and the queue, whatever is edited
\* meanwhile, and though a seek whose file cannot be opened is tried again.
THEOREM NoOldSoundCorrect == Spec => []NoOldSound
<1>1. Fresh => NoOldSound
  BY DEF Fresh, NoOldSound
<1> QED BY <1>1, AlwaysTyped, FreshInit, FreshNext, PTL DEF Spec

-----------------------------------------------------------------------------
(* The order of the frames.                                                *)

\* The places of the queue, counted from the one that is shown, when that one goes ...
LEMMA NextAt ==
    ASSUME NEW q \in Queues, q.size > 0, q.shown, NEW i \in 0 .. q.size - 2
    PROVE  At(QueueNext(q), i) = At(q, i + 1)
<1> DEFINE n == QueueSize
           r == q.rindex
<1>1. n \in Nat \ {0} /\ r \in 0 .. n - 1 /\ q.size \in 0 .. n
  BY AudioAssumption DEF Queues, Slots
<1>2. QueueNext(q).rindex = (r + 1) % n /\ \A s \in Slots : s # r => QueueNext(q).slot[s] = q.slot[s]
  BY NextQueue
<1> HIDE DEF n, r
<1>3. \A a \in Nat : a < n + n => a % n = IF a < n THEN a ELSE a - n
  BY <1>1, Remainders
<1>4. (((r + 1) % n) + i) % n = (r + (i + 1)) % n /\ (r + (i + 1)) % n # r
  <2>1. i \in Nat /\ i + 1 < n /\ r \in Nat /\ r < n
    BY <1>1
  <2>2. CASE r + 1 < n
    <3>1. (r + 1) % n = r + 1
      BY <1>1, <1>3, <2>2
    <3>2. (r + (i + 1)) % n = IF r + (i + 1) < n THEN r + (i + 1) ELSE (r + (i + 1)) - n
      <4> DEFINE a == r + (i + 1)
      <4>1. a \in Nat /\ a < n + n
        BY <1>1, <2>1
      <4> HIDE DEF a
      <4>2. a % n = IF a < n THEN a ELSE a - n
        BY <1>3, <4>1
      <4> QED BY <4>2 DEF a
    <3>3. (r + 1) + i = r + (i + 1)
      BY <2>1
    <3> QED BY <1>1, <2>1, <3>1, <3>2, <3>3
  <2>3. CASE ~(r + 1 < n)
    <3>1. r + 1 = n /\ (r + 1) % n = 0
      BY <1>1, <1>3, <2>1, <2>3
    <3>2. (0 + i) % n = i
      BY <1>1, <1>3, <2>1
    <3>3. (r + (i + 1)) % n = r + (i + 1) - n /\ r + (i + 1) - n = i
      BY <1>1, <1>3, <2>1, <3>1
    <3> QED BY <1>1, <2>1, <3>1, <3>2, <3>3
  <2> QED BY <2>2, <2>3
<1>5. (r + (i + 1)) % n \in Slots
  <2>1. r + (i + 1) \in Nat
    BY <1>1
  <2> QED BY <2>1, SlotOf DEF n
<1> QED BY <1>2, <1>4, <1>5 DEF At, n, r

\* ... and when a frame is put behind the last one.
LEMMA PushAt ==
    ASSUME NEW q \in Queues, q.size < QueueSize, NEW f \in Frame
    PROVE  LET s == (q.rindex + q.size) % QueueSize IN
           /\ s \in Slots
           /\ At(QueuePush(q, s, f), q.size) = f
           /\ \A i \in 0 .. q.size - 1 : At(QueuePush(q, s, f), i) = At(q, i)
<1> DEFINE n == QueueSize
           r == q.rindex
           z == q.size
           s == (r + z) % n
<1>1. n \in Nat \ {0} /\ r \in 0 .. n - 1 /\ z \in 0 .. n /\ z < n /\ q.slot \in [Slots -> Frame]
  BY AudioAssumption DEF Queues, Slots
<1>2. s \in Slots
  <2>1. r + z \in Nat
    BY <1>1
  <2> QED BY <2>1, SlotOf
<1>3. QueuePush(q, s, f).rindex = r /\ QueuePush(q, s, f).slot = [q.slot EXCEPT ![s] = f]
  BY <1>2, PushedQueue
<1>4. At(QueuePush(q, s, f), z) = f
  BY <1>1, <1>2, <1>3 DEF At
<1>5. ASSUME NEW i \in 0 .. z - 1 PROVE (r + i) % n # s /\ (r + i) % n \in Slots
  <2> HIDE DEF n, r, z
  <2>1. \A a \in Nat : a < n + n => a % n = IF a < n THEN a ELSE a - n
    BY <1>1, Remainders
  <2>2. (r + i) % n = IF r + i < n THEN r + i ELSE r + i - n
    BY <1>1, <2>1
  <2>3. s = IF r + z < n THEN r + z ELSE r + z - n
    BY <1>1, <2>1
  <2>4. r + i \in Nat
    BY <1>1
  <2>5. (r + i) % n \in Slots
    BY <2>4, SlotOf DEF n
  <2> QED BY <1>1, <2>2, <2>3, <2>5
<1>6. \A i \in 0 .. z - 1 : At(QueuePush(q, s, f), i) = At(q, i)
  <2> SUFFICES ASSUME NEW i \in 0 .. z - 1 PROVE At(QueuePush(q, s, f), i) = At(q, i)
    OBVIOUS
  <2>1. (r + i) % n # s /\ (r + i) % n \in Slots
    BY <1>5
  <2> DEFINE k == (r + i) % n
  <2>2. At(QueuePush(q, s, f), i) = QueuePush(q, s, f).slot[k] /\ At(q, i) = q.slot[k]
    BY <1>3 DEF At
  <2> HIDE DEF k, s
  <2> QED BY <1>1, <1>3, <2>1, <2>2 DEF k
<1> QED BY <1>2, <1>4, <1>6

\* A place has a number.
LEMMA AtType == ASSUME NEW q \in Queues, NEW i \in Nat PROVE At(q, i) \in Frame /\ At(q, i).n \in Nat
<1>1. (q.rindex + i) % QueueSize \in Slots
  <2>1. q.rindex \in Nat
    BY SlotIsNat DEF Queues
  <2>2. q.rindex + i \in Nat
    BY <2>1
  <2> QED BY <2>2, SlotOf
<1>2. At(q, i) \in Frame
  BY <1>1 DEF At, Queues
<1> QED BY <1>2 DEF Frame

\* A step that neither makes, moves nor plays a frame.
SameQueue ==
    queue'.slot = queue.slot /\ queue'.rindex = queue.rindex /\ queue'.size = queue.size /\ queue'.shown = queue.shown

LEMMA OrderMove ==
    ASSUME Typed, InOrder, SameQueue, callback' = callback, graph' = graph \/ graph' = <<>>,
           env'.frames = env.frames, env'.astray = env.astray,
           decode'.at \in {"room", "push"} => decode.at \in {"room", "push"} /\ decode'.frame = decode.frame
    PROVE  InOrder'
<1> SUFFICES ASSUME Ordered(queue, callback, graph, decode, env.frames)
             PROVE  Ordered(queue', callback', graph', decode', env'.frames)
  BY DEF InOrder
<1>1. \A i : At(queue', i) = At(queue, i)
  BY DEF At, SameQueue
<1>2. Shown(queue') = Shown(queue) /\ Readable(queue') = Readable(queue) /\ queue'.size = queue.size
  BY DEF Shown, Readable, SameQueue
<1>3. \A l, m : Ahead(queue', l, m) <=> Ahead(queue, l, m)
  BY <1>1, <1>2 DEF Ahead
<1>4. Ordered(queue, callback, graph', decode, env.frames)
  <2>1. CASE graph' = graph
    BY <2>1
  <2>2. CASE graph' = <<>>
    BY <2>2 DEF Ordered
  <2> QED BY <2>1, <2>2
<1> HIDE DEF SameQueue
<1> QED BY <1>1, <1>2, <1>3, <1>4 DEF Ordered

\* The frame that is shown makes way for the next one, which was played or not.
LEMMA OrderNext ==
    ASSUME NEW q \in Queues, NEW c, NEW g, NEW d, NEW f \in Int, Ordered(q, c, g, d, f), Shown(q) < q.size,
           NEW e, e.at # "got", e.last \in {c.last, At(q, Shown(q)).n},
           c.last \in Nat, \A i \in 1 .. Len(g) : g[i].n \in Nat, d.frame.n \in Nat
    PROVE  Ordered(QueueNext(q), e, g, d, f)
<1> DEFINE k == Shown(q)
           z == q.size - k
           p == QueueNext(q)
<1>1. q.size \in Nat /\ q.shown \in BOOLEAN /\ k \in {0, 1} /\ (q.shown <=> k = 1) /\ q.size > 0
  BY SlotIsNat DEF Queues, Shown
<1>2. p \in Queues /\ p.shown = TRUE /\ p.size = z
  <2>1. CASE q.shown
    BY <1>1, <2>1, NextQueue
  <2>2. CASE ~q.shown
    <3>1. p \in Queues /\ p.shown = TRUE /\ p.size = q.size
      BY <1>1, <2>2, NextQueue
    <3>2. z = q.size
      BY <1>1, <2>2 DEF Shown
    <3> QED BY <3>1, <3>2
  <2> QED BY <2>1, <2>2
<1>3. ASSUME NEW i \in 0 .. z - 1 PROVE At(p, i) = At(q, i + k) /\ i + k \in 0 .. q.size - 1
  <2>1. CASE q.shown
    <3>1. i \in 0 .. q.size - 2 /\ k = 1
      BY <1>1, <2>1
    <3>2. At(p, i) = At(q, i + 1)
      BY <1>1, <2>1, <3>1, NextAt
    <3> QED BY <1>1, <3>1, <3>2
  <2>2. CASE ~q.shown
    <3>1. p.slot = q.slot /\ p.rindex = q.rindex /\ k = 0
      BY <1>1, <2>2, NextQueue
    <3>2. At(p, i) = At(q, i)
      BY <3>1 DEF At
    <3> QED BY <1>1, <3>1, <3>2
  <2> QED BY <1>1, <2>1, <2>2
<1>4. Shown(p) = 1
  BY <1>2 DEF Shown
<1>5. \A i \in 0 .. q.size - 1 : At(q, i).n \in Nat
  BY <1>1, AtType
<1> DEFINE m(i) == At(q, i).n
<1>6. /\ \A i \in 0 .. q.size - 1 : m(i) \in Nat
      /\ \A i \in 0 .. q.size - 1 : i >= k => m(i) > c.last
      /\ \A i, j \in 0 .. q.size - 1 : i < j => m(i) < m(j)
      /\ k < q.size /\ e.last \in {c.last, m(k)}
  BY <1>5 DEF Ordered
<1>7. \A i \in 0 .. z - 1 : At(p, i).n = m(i + k) /\ i + k \in 0 .. q.size - 1
  BY <1>3
<1>8. z \in Nat /\ z > 0 /\ k \in 0 .. q.size - 1
  BY <1>1, <1>6
<1>9. ASSUME NEW x \in Int, Ahead(q, c.last, x) PROVE Ahead(p, e.last, x)
  <2>1. x > c.last /\ \A i \in 0 .. q.size - 1 : x > m(i)
    BY <1>9 DEF Ahead
  <2> HIDE DEF m, z, k, p
  <2>2. x > e.last
    BY <1>6, <1>8, <2>1
  <2>3. \A i \in 0 .. z - 1 : x > At(p, i).n
    BY <1>7, <2>1
  <2> QED BY <1>2, <2>2, <2>3 DEF Ahead
<1> HIDE DEF m, z, k, p
<1>10. \A i \in 0 .. z - 1 : i >= 1 => At(p, i).n > e.last
  <2> SUFFICES ASSUME NEW i \in 0 .. z - 1, i >= 1 PROVE m(i + k) > e.last
    BY <1>7
  <2>1. i + k \in 0 .. q.size - 1 /\ k < i + k /\ i + k >= k
    BY <1>1, <1>7
  <2>2. m(k) < m(i + k) /\ c.last < m(i + k)
    BY <1>6, <1>8, <2>1
  <2> QED BY <1>6, <2>2
<1>11. \A i, j \in 0 .. z - 1 : i < j => At(p, i).n < At(p, j).n
  <2> SUFFICES ASSUME NEW i \in 0 .. z - 1, NEW j \in 0 .. z - 1, i < j PROVE m(i + k) < m(j + k)
    BY <1>7
  <2>1. i + k < j + k
    BY <1>1
  <2> QED BY <1>6, <1>7, <2>1
<1>12. \A i \in 1 .. Len(g) : Ahead(p, e.last, g[i].n) /\ g[i].n <= f
  BY <1>9 DEF Ordered
<1>13. Ahead(p, e.last, f + 1)
  BY <1>9 DEF Ordered
<1>14. d.at \in {"room", "push"} => Ahead(p, e.last, d.frame.n)
  BY <1>9 DEF Ordered
<1>15. Shown(p) <= p.size
  BY <1>2, <1>4, <1>8
<1> QED BY <1>2, <1>4, <1>10, <1>11, <1>12, <1>13, <1>14, <1>15 DEF Ordered, p

\* What Ordered is about, typed.
LEMMA OrderTyped ==
    Typed => /\ queue \in Queues /\ callback.last \in Nat /\ decode.frame.n \in Nat /\ env.frames \in Nat
             /\ \A i \in 1 .. Len(graph) : graph[i].n \in Nat
<1> SUFFICES ASSUME Typed PROVE /\ callback.last \in Nat /\ decode.frame.n \in Nat /\ env.frames \in Nat
                                /\ \A i \in 1 .. Len(graph) : graph[i].n \in Nat
  BY QueueInQueues
<1>1. graph \in Seq(Sound) /\ decode.frame \in Sound
  BY DEF Typed, ThreadsTyped
<1>2. \A i \in 1 .. Len(graph) : graph[i] \in Sound
  BY <1>1
<1>3. \A x \in Sound : x.n \in Nat
  BY DEF Sound
<1>4. callback.last \in Nat /\ env.frames \in Nat
  BY DEF Typed, ThreadsTyped, EnvTyped
<1> QED BY <1>1, <1>2, <1>3, <1>4

LEMMA OrderCall == Typed /\ InOrder /\ Call => InOrder'
<1> SUFFICES ASSUME Typed, InOrder, Call, ~env.astray PROVE InOrder'
  BY DEF InOrder, Call
<1>1. callback' = [callback EXCEPT !.at = "wait"] /\ UNCHANGED <<queue, graph, decode, env>>
  BY DEF Call
<1>2. Ordered(queue, callback, graph, decode, env.frames)
  BY DEF InOrder
<1>3. callback'.at = "wait" /\ callback'.last = callback.last
  BY <1>1 DEF Typed, ThreadsTyped
<1>4. Ordered(queue, callback', graph, decode, env.frames)
  BY <1>2, <1>3 DEF Ordered
<1> QED BY <1>1, <1>4 DEF InOrder

LEMMA OrderPlay == Typed /\ InOrder /\ Play => InOrder'
<1> SUFFICES ASSUME Typed, InOrder, Play, ~env.astray PROVE InOrder'
  BY DEF InOrder, Play
<1> DEFINE f == queue.slot[callback.slot]
           st == f.serial # audio.serial
           n == IF Sounds THEN f.n ELSE callback.last
<1>0. PICK at \in {"idle", "wait"} :
        callback' = [callback EXCEPT !.at = at, !.slot = 0, !.stale = st, !.last = n]
  BY DEF Play, GoesOn
<1>1. /\ callback' = [callback EXCEPT !.at = at, !.slot = 0, !.stale = st, !.last = n]
      /\ queue' = QueueNext(queue) /\ UNCHANGED <<graph, decode, env>> /\ callback.at = "got"
  BY <1>0 DEF Play
<1>2. Ordered(queue, callback, graph, decode, env.frames)
  BY DEF InOrder
<1>3. Shown(queue) < queue.size /\ callback.slot = Readable(queue)
  BY <1>1, <1>2 DEF Ordered
<1>4. f = At(queue, Shown(queue))
  BY <1>3 DEF At, Readable, Shown
<1>5. n \in {callback.last, At(queue, Shown(queue)).n}
  BY <1>4
<1> HIDE DEF f, st, n
<1>6. callback'.at # "got" /\ callback'.last = n
  BY <1>1 DEF Typed, ThreadsTyped
<1>7. Ordered(QueueNext(queue), callback', graph, decode, env.frames)
  BY <1>2, <1>3, <1>5, <1>6, OrderTyped, OrderNext
<1> QED BY <1>1, <1>7 DEF InOrder

LEMMA OrderTake == Typed /\ InOrder /\ Take => InOrder'
<1> SUFFICES ASSUME Typed, InOrder, Take, ~env.astray PROVE InOrder'
  BY DEF InOrder, Take
<1> DEFINE s == Readable(queue)
<1>1. /\ UNCHANGED <<queue, graph, decode, env>>
      /\ \/ callback' = [callback EXCEPT !.at = "idle", !.stale = FALSE]
         \/ callback' = [callback EXCEPT !.at = "got", !.slot = s] /\ Remaining(queue) > 0
  BY DEF Take
<1>2. Ordered(queue, callback, graph, decode, env.frames)
  BY DEF InOrder
<1>3. Remaining(queue) > 0 => Shown(queue) < queue.size
  <2>1. queue.size \in Nat /\ queue.shown \in BOOLEAN
    BY OrderTyped, SlotIsNat DEF Queues
  <2> QED BY <2>1 DEF Remaining, Shown
<1> HIDE DEF s
<1>4. /\ callback'.last = callback.last
      /\ callback'.at = "got" => callback'.slot = s /\ Remaining(queue) > 0
  BY <1>1 DEF Typed, ThreadsTyped
<1>5. Ordered(queue, callback', graph, decode, env.frames)
  BY <1>2, <1>3, <1>4 DEF Ordered, s
<1> QED BY <1>1, <1>5 DEF InOrder

LEMMA OrderFeed == Typed /\ InOrder /\ Feed => InOrder'
<1> SUFFICES ASSUME Typed, InOrder, Feed, ~env'.astray PROVE InOrder'
  BY DEF InOrder
<1>1. PICK k \in 1 .. 2 : /\ graph' = graph \o [i \in 1 .. k |-> [n |-> env.frames + i, mixed |-> audio.serial]]
                          /\ env' = [env EXCEPT !.frames = @ + k]
  BY DEF Feed
<1>2. decode' = [decode EXCEPT !.at = "loop", !.track = @ + 1] /\ UNCHANGED <<queue, callback>>
  BY DEF Feed
<1>3. decode'.at = "loop"
  BY <1>2 DEF Typed, ThreadsTyped
<1>4. env'.frames = env.frames + k /\ env'.astray = env.astray /\ env.frames \in Nat
  BY <1>1 DEF Typed, EnvTyped
<1>5. Ordered(queue, callback, graph, decode, env.frames)
  BY <1>4 DEF InOrder
<1> DEFINE z == Len(graph)
           F == env.frames
<1>6. z \in Nat /\ \A i \in 1 .. z : graph[i].n \in Nat
  BY OrderTyped DEF Typed, ThreadsTyped
<1>7. /\ Len(graph') = z + k
      /\ \A i \in 1 .. z : graph'[i].n = graph[i].n
      /\ \A i \in z + 1 .. z + k : graph'[i].n = F + (i - z)
  BY <1>1, FedGraph
<1> DEFINE G == graph'
<1> HIDE DEF z, F, G
<1>8. F \in Nat /\ k \in Nat
  BY <1>4 DEF F
<1>9. queue \in Queues /\ callback.last \in Nat /\ \A i \in 0 .. queue.size - 1 : At(queue, i).n \in Nat
  BY OrderTyped, AtType
<1>10. ASSUME NEW x \in Int, x >= F + 1 PROVE Ahead(queue, callback.last, x)
  <2>1. Ahead(queue, callback.last, F + 1)
    BY <1>5 DEF Ordered, F
  <2> QED BY <1>8, <1>9, <1>10, <2>1 DEF Ahead
<1>11. \A i \in 1 .. z + k : Ahead(queue, callback.last, G[i].n) /\ G[i].n <= F + k
  <2> SUFFICES ASSUME NEW i \in 1 .. z + k PROVE Ahead(queue, callback.last, G[i].n) /\ G[i].n <= F + k
    OBVIOUS
  <2>1. CASE i <= z
    <3>1. i \in 1 .. z
      BY <1>6, <2>1 DEF z
    <3>2. Ahead(queue, callback.last, graph[i].n) /\ graph[i].n <= F /\ G[i].n = graph[i].n /\ graph[i].n \in Nat
      BY <1>5, <1>6, <1>7, <3>1 DEF Ordered, z, F, G
    <3> QED BY <1>8, <3>2
  <2>2. CASE ~(i <= z)
    <3>1. i \in z + 1 .. z + k
      BY <1>6, <2>2 DEF z
    <3>2. G[i].n = F + (i - z) /\ i - z \in 1 .. k
      BY <1>6, <1>7, <3>1 DEF z, G
    <3>3. F + (i - z) \in Int /\ F + (i - z) >= F + 1 /\ F + (i - z) <= F + k
      BY <1>8, <3>2
    <3> QED BY <1>10, <3>2, <3>3
  <2> QED BY <2>1, <2>2
<1>12. \A i, j \in 1 .. z + k : i < j => G[i].n < G[j].n
  <2> SUFFICES ASSUME NEW i \in 1 .. z + k, NEW j \in 1 .. z + k, i < j PROVE G[i].n < G[j].n
    OBVIOUS
  <2>1. CASE j <= z
    <3>1. i \in 1 .. z /\ j \in 1 .. z
      BY <1>6, <2>1 DEF z
    <3> QED BY <1>5, <1>7, <3>1 DEF Ordered, z, G
  <2>2. CASE ~(j <= z)
    <3>1. j \in z + 1 .. z + k
      BY <1>6, <2>2 DEF z
    <3>2. G[j].n = F + (j - z) /\ j - z \in 1 .. k
      BY <1>6, <1>7, <3>1 DEF z, G
    <3>3. CASE i <= z
      <4>1. i \in 1 .. z
        BY <1>6, <3>3 DEF z
      <4>2. graph[i].n <= F /\ G[i].n = graph[i].n /\ graph[i].n \in Nat
        BY <1>5, <1>6, <1>7, <4>1 DEF Ordered, z, F, G
      <4> QED BY <1>8, <3>2, <4>2
    <3>4. CASE ~(i <= z)
      <4>1. i \in z + 1 .. z + k
        BY <1>6, <3>4 DEF z
      <4>2. G[i].n = F + (i - z) /\ i - z \in 1 .. k
        BY <1>6, <1>7, <4>1 DEF z, G
      <4>3. i - z < j - z
        BY <1>6 DEF z
      <4> QED BY <1>8, <3>2, <4>2, <4>3
    <3> QED BY <3>3, <3>4
  <2> QED BY <2>1, <2>2
<1>13. Ahead(queue, callback.last, (F + k) + 1)
  BY <1>8, <1>10
<1>14. Ordered(queue, callback, G, decode', F + k)
  BY <1>3, <1>5, <1>7, <1>11, <1>12, <1>13 DEF Ordered, G
<1> QED BY <1>2, <1>4, <1>14 DEF InOrder, F, G

LEMMA OrderDrain == Typed /\ InOrder /\ Drain => InOrder'
<1> SUFFICES ASSUME Typed, InOrder, Drain, ~env.astray PROVE InOrder'
  BY DEF InOrder, Drain
<1>1. UNCHANGED <<queue, callback, env>> /\ decode.at = "drain"
  BY DEF Drain
<1>2. CASE ~decode.built \/ graph = <<>>
  <2>1. /\ graph' = graph
        /\ \/ decode' = [decode EXCEPT !.at = "drained"]
           \/ decode' = [decode EXCEPT !.at = "top", !.track = 1, !.rebuild = TRUE]
    BY <1>2 DEF Drain, PassOver
  <2>2. decode'.at \in {"drained", "top"}
    BY <2>1 DEF Typed, ThreadsTyped
  <2> QED BY <1>1, <2>1, <2>2, OrderMove DEF SameQueue
<1>3. CASE decode.built /\ graph # <<>>
  <2> DEFINE h == Head(graph)
             z == Len(graph)
  <2>1. /\ graph' = Tail(graph)
        /\ \/ decode' = [decode EXCEPT !.at = "drained"]
           \/ decode' = [decode EXCEPT !.at = "room", !.frame = h]
    BY <1>3 DEF Drain
  <2>2. /\ z \in Nat /\ z > 0 /\ h = graph[1] /\ Len(graph') = z - 1
        /\ \A i \in 1 .. z - 1 : graph'[i] = graph[i + 1]
    <3>1. z \in Nat
      BY DEF Typed, ThreadsTyped
    <3> QED BY <1>3, <2>1, <3>1, Drained1
  <2>3. Ordered(queue, callback, graph, decode, env.frames)
    BY DEF InOrder
  <2> HIDE DEF h
  <2>4. decode'.at \in {"room", "push"} => decode'.frame = h
    BY <2>1 DEF Typed, ThreadsTyped
  <2> HIDE DEF z
  <2>5. \A i \in 1 .. z - 1 : i + 1 \in 1 .. z /\ 1 < i + 1
    BY <2>2
  <2>6. /\ \A i \in 1 .. z : Ahead(queue, callback.last, graph[i].n) /\ graph[i].n <= env.frames
        /\ \A i, j \in 1 .. z : i < j => graph[i].n < graph[j].n
    BY <2>3 DEF Ordered, z
  <2>7. 1 \in 1 .. z
    BY <2>2
  <2>8. \A i, j \in 1 .. z - 1 : i < j => graph'[i].n < graph'[j].n
    <3> SUFFICES ASSUME NEW i \in 1 .. z - 1, NEW j \in 1 .. z - 1, i < j PROVE graph'[i].n < graph'[j].n
      OBVIOUS
    <3>1. i + 1 < j + 1
      OBVIOUS
    <3> QED BY <2>2, <2>5, <2>6, <3>1
  <2>9. \A i \in 1 .. z - 1 : Ahead(queue, callback.last, graph'[i].n) /\ graph'[i].n <= env.frames /\ h.n < graph'[i].n
    BY <2>2, <2>5, <2>6, <2>7
  <2>10. Ahead(queue, callback.last, h.n) /\ h.n <= env.frames
    BY <2>2, <2>6, <2>7
  <2>11. Ordered(queue, callback, graph', decode', env.frames)
    BY <2>2, <2>3, <2>4, <2>8, <2>9, <2>10 DEF Ordered
  <2> QED BY <1>1, <2>11 DEF InOrder
<1> QED BY <1>2, <1>3

\* A frame from the thread goes behind the last one of the queue.
LEMMA OrderPush == Typed /\ InOrder /\ Push => InOrder'
<1> SUFFICES ASSUME Typed, InOrder, Push, ~env'.astray PROVE InOrder'
  BY DEF InOrder
<1> DEFINE s == (queue.rindex + queue.size) % QueueSize
           p == QueuePush(queue, s, PushedFrame)
           z == queue.size
           x == decode.frame.n
           last == callback.last
           F == env.frames
<1>1. /\ queue' = QueuePush(queue, decode.slot, PushedFrame)
      /\ decode' = [decode EXCEPT !.at = "drain", !.frame = NoSound, !.slot = 0]
      /\ UNCHANGED <<graph, callback>>
      /\ decode.at = "push"
  BY DEF Push, PushedFrame
<1>2. env'.frames = F /\ ~env.astray /\ decode.slot = s
  <2> DEFINE astray == env.astray \/ decode.slot # s
  <2>1. env' = [env EXCEPT !.astray = astray]
    BY DEF Push
  <2> HIDE DEF astray
  <2>2. env'.frames = F /\ env'.astray = astray
    BY <2>1 DEF Typed, EnvTyped
  <2> QED BY <2>2 DEF astray
<1>3. decode'.at = "drain"
  BY <1>1 DEF Typed, ThreadsTyped
<1>4. Ordered(queue, callback, graph, decode, F)
  BY <1>2 DEF InOrder
<1>5. queue \in Queues /\ z < QueueSize /\ PushedFrame \in Frame /\ PushedFrame.n = x
  BY <1>1, QueueInQueues, PushedType DEF Typed, QueueTyped, PushedFrame
<1>6. z \in Nat /\ x \in Nat /\ last \in Nat /\ F \in Nat
  BY <1>5, OrderTyped, SlotIsNat DEF Queues
<1>7. s \in Slots /\ At(p, z) = PushedFrame /\ \A i \in 0 .. z - 1 : At(p, i) = At(queue, i)
  BY <1>5, PushAt
<1>8. p.size = z + 1 /\ p.shown = queue.shown /\ p.rindex = queue.rindex /\ queue' = p
  BY <1>1, <1>2, <1>5, <1>7, PushedQueue
<1>9. Shown(p) = Shown(queue) /\ Readable(p) = Readable(queue) /\ Shown(queue) \in Nat
  BY <1>8 DEF Shown, Readable
<1> HIDE DEF p, s, z, x, last, F
<1>10. /\ \A i \in 0 .. z - 1 : At(p, i).n = At(queue, i).n /\ At(queue, i).n \in Nat
       /\ At(p, z).n = x
  BY <1>5, <1>6, <1>7, AtType
<1>11. /\ Shown(queue) <= z
       /\ callback.at = "got" => Shown(queue) < z /\ callback.slot = Readable(queue)
       /\ \A i \in 0 .. z - 1 : i >= Shown(queue) => At(queue, i).n > last
       /\ \A i, j \in 0 .. z - 1 : i < j => At(queue, i).n < At(queue, j).n
       /\ \A i, j \in 1 .. Len(graph) : i < j => graph[i].n < graph[j].n
  BY <1>4 DEF Ordered, z, last
<1>12. /\ x > last /\ x <= F
       /\ \A i \in 0 .. z - 1 : x > At(queue, i).n
       /\ \A i \in 1 .. Len(graph) : x < graph[i].n
  BY <1>1, <1>4 DEF Ordered, Ahead, z, x, last, F
<1>13. ASSUME NEW y \in Int, Ahead(queue, last, y), y > x PROVE Ahead(p, last, y)
  <2>1. y > last /\ \A i \in 0 .. z - 1 : y > At(queue, i).n
    BY <1>13 DEF Ahead, z
  <2>2. \A i \in 0 .. z : y > At(p, i).n
    BY <1>6, <1>10, <1>13, <2>1
  <2>3. p.size - 1 = z
    BY <1>6, <1>8
  <2> QED BY <2>1, <2>2, <2>3 DEF Ahead
<1>14. Ahead(p, last, F + 1)
  <2>1. Ahead(queue, last, F + 1)
    BY <1>4 DEF Ordered, last, F
  <2> QED BY <1>6, <1>12, <1>13, <2>1
<1>15. \A i \in 1 .. Len(graph) : Ahead(p, last, graph[i].n) /\ graph[i].n <= F
  <2>1. \A i \in 1 .. Len(graph) : Ahead(queue, last, graph[i].n) /\ graph[i].n <= F
    BY <1>4 DEF Ordered, last, F
  <2>2. \A i \in 1 .. Len(graph) : graph[i].n \in Nat
    BY OrderTyped
  <2>3. \A i \in 1 .. Len(graph) : graph[i].n > x
    BY <1>6, <1>12, <2>2
  <2> QED BY <1>13, <2>1, <2>2, <2>3
<1>16. p.size \in Nat /\ p.size = z + 1 /\ \A i \in 0 .. p.size - 1 : i \in 0 .. z - 1 \/ i = z
  BY <1>6, <1>8
<1>17. /\ \A i \in 0 .. p.size - 1 : i >= Shown(p) => At(p, i).n > last
       /\ \A i, j \in 0 .. p.size - 1 : i < j => At(p, i).n < At(p, j).n
  <2>1. ASSUME NEW i \in 0 .. p.size - 1, i >= Shown(p) PROVE At(p, i).n > last
    <3>1. CASE i \in 0 .. z - 1
      BY <1>9, <1>10, <1>11, <2>1, <3>1
    <3>2. CASE i = z
      BY <1>10, <1>12, <3>2
    <3> QED BY <1>16, <3>1, <3>2
  <2>2. ASSUME NEW i \in 0 .. p.size - 1, NEW j \in 0 .. p.size - 1, i < j PROVE At(p, i).n < At(p, j).n
    <3>1. i \in 0 .. z - 1
      BY <1>6, <1>16, <2>2
    <3>2. CASE j \in 0 .. z - 1
      BY <1>10, <1>11, <2>2, <3>1, <3>2
    <3>3. CASE j = z
      BY <1>6, <1>10, <1>12, <3>1, <3>3
    <3> QED BY <1>16, <3>2, <3>3
  <2> QED BY <2>1, <2>2
<1>18. Shown(p) <= p.size /\ (callback.at = "got" => Shown(p) < p.size /\ callback.slot = Readable(p))
  BY <1>6, <1>9, <1>11, <1>16
<1>19. Ordered(p, callback, graph, decode', F)
  BY <1>3, <1>11, <1>14, <1>15, <1>17, <1>18 DEF Ordered, last
<1> QED BY <1>1, <1>2, <1>8, <1>19 DEF InOrder

\* The calls: a volume call lets the shown frame go as the callback does, and an edit
\* moves windex only.
LEMMA OrderCalls == Typed /\ InOrder /\ (AppStep \/ Seek) => InOrder'
<1> SUFFICES ASSUME Typed, InOrder, AppStep \/ Seek PROVE InOrder'
  OBVIOUS
<1>1. ASSUME Calls, NEW i, queue' = queue \/ queue' = [queue EXCEPT !.windex = i] PROVE InOrder'
  <2>1. SameQueue
    BY <1>1 DEF Typed, QueueTyped, SameQueue
  <2> QED BY <1>1, <2>1, CallsWake, OrderMove DEF Calls
<1>2. CASE Volume
  <2>1. CASE Calls /\ queue' = queue
    BY <1>1, <2>1
  <2>2. CASE ~(Calls /\ queue' = queue)
    <3> SUFFICES ASSUME ~env'.astray PROVE InOrder'
      BY DEF InOrder
    <3>1. /\ Remaining(queue) > 0 /\ queue' = QueueNext(queue)
          /\ UNCHANGED <<decode, graph, callback>> /\ env'.frames = env.frames
          /\ ~env.astray /\ callback.at # "got"
      BY <1>2, <2>2, VolumeCalls
    <3>3. Shown(queue) < queue.size
      <4>1. queue.size \in Nat /\ queue.shown \in BOOLEAN
        BY OrderTyped, SlotIsNat DEF Queues
      <4> QED BY <3>1, <4>1 DEF Remaining, Shown
    <3>4. Ordered(queue, callback, graph, decode, env.frames)
      BY <3>1 DEF InOrder
    <3>5. Ordered(QueueNext(queue), callback, graph, decode, env.frames)
      BY <3>1, <3>3, <3>4, OrderTyped, OrderNext
    <3> QED BY <3>1, <3>5 DEF InOrder
  <2> QED BY <2>1, <2>2
<1>3. CASE Edit
  BY <1>1, <1>3, EditCalls
<1>4. CASE Begin \/ Pause \/ Hold \/ Release \/ Stop \/ Close \/ Closed \/ Seek
  BY <1>1, <1>4, OtherCalls
<1> QED BY <1>2, <1>3, <1>4 DEF AppStep

\* The thread's other steps.
LEMMA OrderEnter == Typed /\ InOrder /\ (Enter \/ EnterSeek \/ EnterSeekFails) => InOrder'
<1> SUFFICES ASSUME Typed, InOrder, Enter \/ EnterSeek \/ EnterSeekFails PROVE InOrder'
  OBVIOUS
<1>1. SameQueue /\ callback' = callback
  BY DEF Enter, EnterSeek, EnterSeekFails, SameQueue
<1>2. env'.frames = env.frames /\ env'.astray = env.astray
  <2> DEFINE kept == env.kept \/ (graph' # <<>> /\ AllEnded(tracks'))
             g == UsesFreed \/ LinksNothing(tracks, audio)
             h == UsesFreed \/ LinksNothing(tracks', [audio EXCEPT !.seek = FALSE, !.serial = @ + 1])
             u == UsesFreed
  <2>1. \/ env' = [env EXCEPT !.gone = g]
        \/ env' = [env EXCEPT !.kept = kept, !.gone = h]
        \/ env' = [env EXCEPT !.events = @ - 1, !.gone = u]
    BY DEF Enter, EnterSeek, EnterSeekFails
  <2> HIDE DEF kept, g, h, u
  <2> QED BY <2>1 DEF Typed, EnvTyped
<1>3. (graph' = graph \/ graph' = <<>>) /\ (decode'.at = "loop" \/ decode' = decode)
  <2>1. CASE Enter
    <3>1. Configure(tracks, audio)
      BY <2>1 DEF Enter
    <3> QED BY <3>1, Configured
  <2>2. CASE EnterSeek
    <3> DEFINE a == [audio EXCEPT !.seek = FALSE, !.serial = @ + 1]
    <3>1. Configure(tracks', a)
      BY <2>2 DEF EnterSeek
    <3>2. DOMAIN a = DOMAIN audio
      OBVIOUS
    <3> HIDE DEF a
    <3> QED BY <3>1, <3>2, Configured
  <2>3. CASE EnterSeekFails
    BY <2>3 DEF EnterSeekFails
  <2> QED BY <2>1, <2>2, <2>3
<1> QED BY <1>1, <1>2, <1>3, OrderMove

LEMMA OrderDecode ==
    Typed /\ InOrder /\ (Exit \/ Loop \/ ClipEnds \/ ClipEndsFailing \/ FeedNothing \/ Room \/ Drained \/ Doze) => InOrder'
<1> SUFFICES ASSUME Typed, InOrder, Exit \/ Loop \/ ClipEnds \/ ClipEndsFailing \/ FeedNothing \/ Room \/ Drained \/ Doze
             PROVE  InOrder'
  OBVIOUS
<1>1. SameQueue /\ callback' = callback /\ graph' = graph
  BY DEF Exit, Loop, ClipEnds, ClipEndsFailing, FeedNothing, Room, Drained, Doze, SameQueue
<1>2. env'.frames = env.frames /\ env'.astray = env.astray
  <2> DEFINE late == env.late \/ (audio'.allEnded /\ audio.seek)
  <2>1. \/ env' = env \/ env' = [env EXCEPT !.events = @ - 1] \/ env' = [env EXCEPT !.gone = TRUE]
        \/ env' = [env EXCEPT !.late = late]
    BY DEF Exit, Loop, ClipEnds, ClipEndsFailing, FeedNothing, Room, Drained, Doze
  <2> HIDE DEF late
  <2> QED BY <2>1 DEF Typed, EnvTyped
<1>3. decode'.at \in {"room", "push"} => decode.at \in {"room", "push"} /\ decode'.frame = decode.frame
  BY DecodeMoves
<1> QED BY <1>1, <1>2, <1>3, OrderMove

LEMMA OrderInit == Init => InOrder
<1> SUFFICES ASSUME Init PROVE Ordered(queue, callback, graph, decode, env.frames)
  BY DEF InOrder
<1>1. /\ queue.size = 0 /\ ~queue.shown /\ callback.at = "idle" /\ callback.last = 0 /\ graph = <<>>
      /\ decode.at = "top"
  BY DEF Init
<1>0. env.frames \in Nat
  BY TypedInit DEF Typed, EnvTyped
<1>2. Shown(queue) = 0 /\ Len(graph) = 0
  BY <1>1 DEF Shown
<1> QED BY <1>0, <1>1, <1>2 DEF Ordered, Ahead

LEMMA OrderNextStep == Typed /\ InOrder /\ [Next]_vars => InOrder'
<1> SUFFICES ASSUME Typed, InOrder, [Next]_vars PROVE InOrder'
  OBVIOUS
<1>1. CASE DecodeStep
  BY <1>1, OrderEnter, OrderFeed, OrderDrain, OrderPush, OrderDecode DEF DecodeStep
<1>2. CASE CallbackStep
  BY <1>2, OrderCall, OrderTake, OrderPlay DEF CallbackStep
<1>3. CASE AppStep \/ Seek
  BY <1>3, OrderCalls
<1>4. CASE UNCHANGED vars
  BY <1>4 DEF vars, InOrder, Ordered, Ahead, At, Shown, Readable
<1> QED BY <1>1, <1>2, <1>3, <1>4 DEF Next

\* Frames are played in the order they were mixed in, each at most once, until an edit
\* has moved windex under the thread or a volume call has emptied the queue under the
\* callback.
THEOREM PlaysCorrect == Spec => PlaysInOrder
<1> DEFINE Right == callback.at = "got" /\ callback'.at # "got" /\ Sounds /\ ~env.astray =>
                        queue.slot[callback.slot].n > callback.last
<1>1. Typed /\ InOrder => queue.slot[callback.slot].n > callback.last \/ callback.at # "got" \/ env.astray
  <2> SUFFICES ASSUME Typed, InOrder, callback.at = "got", ~env.astray
               PROVE  queue.slot[callback.slot].n > callback.last
    OBVIOUS
  <2>1. Ordered(queue, callback, graph, decode, env.frames)
    BY DEF InOrder
  <2>2. Shown(queue) < queue.size /\ callback.slot = Readable(queue)
    BY <2>1 DEF Ordered
  <2>3. queue.size \in Nat /\ Shown(queue) \in Nat
    BY OrderTyped, SlotIsNat DEF Queues, Shown
  <2>4. At(queue, Shown(queue)).n > callback.last
    BY <2>1, <2>2, <2>3 DEF Ordered
  <2>5. queue.slot[callback.slot] = At(queue, Shown(queue))
    BY <2>2 DEF At, Readable, Shown
  <2> QED BY <2>4, <2>5
<1>2. Typed /\ InOrder => Right
  BY <1>1
<1>3. Spec => []Typed
  BY AlwaysTyped
<1>4. Spec => []InOrder
  BY <1>3, OrderInit, OrderNextStep, PTL DEF Spec
<1>5. Spec => [][Right]_vars
  BY <1>2, <1>3, <1>4, PTL
<1> QED BY <1>5 DEF PlaysInOrder

=============================================================================
