--------------------------- MODULE IoCacheProofs ---------------------------
(***************************************************************************)
(* What is proved of IoCache: every entry of every tree leads to the block *)
(* of its file, between a reader and its task everything is cached, a read *)
(* returns the blocks at the demuxer's position, and without a failure of  *)
(* the network an end of file is told at the end.                          *)
(*                                                                         *)
(* The invariant has four layers, each proved with the ones before it:     *)
(* Shape (who runs, and that the entries number the blocks of the cache    *)
(* file), Content (what the cache file holds), Position (where the demuxer *)
(* is) and Ends (what an end of file means).                               *)
(***************************************************************************)
EXTENDS IoCache, FiniteSetTheorems, FunctionTheorems, SequenceTheorems, TLAPS

Context ==
    [state : {"closed", "started", "paused"}, read : 0 .. FileSize, fill : 0 .. FileSize,
     inner : 0 .. FileSize, conn : 0 .. FileSize, at : Nat, end : 0 .. FileSize, phys : Nat,
     asyncOpen : BOOLEAN, eof : BOOLEAN, err : {0, Eio, Exit}, noCache : BOOLEAN,
     seekRequest : BOOLEAN, seekDone : BOOLEAN, seekPos : 0 .. FileSize,
     abort : BOOLEAN, running : BOOLEAN, freed : BOOLEAN]

Stages == {"none", "queued", "top", "check", "lock", "asleep", "find", "fetch", "add", "tell", "leave"}
Trees == [Ctx -> [Blocks -> Nat \cup {None}]]
Data == Ctx \X Int

\* The demuxer's thread: where each of its calls can be, and with what.
Stops == io.op \in {"open", "close"} /\ io.at \in {"exitwait", "stopped"}
Turns(op, x) == io.op = op /\ io.x = x /\ io.at \in {"run", "mainwait"}
Caller ==
    [op : {"none", "open", "read", "seek", "close"},
     at : {"idle", "pause", "enter", "run", "mainwait", "exitwait", "stopped"},
     x : Ctx \cup {None}, y : Ctx \cup {None}, todo : SUBSET Ctx, want : Nat, ret : Int,
     from : Nat, data : Seq(Data)]
IoTyped ==
    /\ io \in Caller
    /\ io.op = "none" => io.at = "idle"
    /\ io.op = "open" => io.at \in {"pause", "exitwait", "stopped"}
    /\ io.op = "close" => io.at \in {"exitwait", "stopped"} /\ io.y = io.x
    /\ io.op \in {"read", "seek"} => io.at \in {"enter", "run", "mainwait"}
    /\ io.op # "none" => io.x \in Ctx
    /\ Stops => io.y \in Ctx
    /\ io.op = "read" => Len(io.data) < io.want
    /\ io.op = "read" /\ io.at = "enter" => io.data = <<>> /\ io.from = c[io.x].at
    /\ io.op = "seek" => io.want \in 0 .. FileSize

File ==
    [last : Nat, off : Nat, disk : Seq(Data), map : Trees, open : BOOLEAN, shared : BOOLEAN,
     saved : Trees, savedBad : BOOLEAN]
FileTyped ==
    /\ file \in File
    /\ file.open => file.last <= Len(file.disk)

Env ==
    [troubles : Int, restarts : Int, failed : BOOLEAN, calls : Int, interrupted : BOOLEAN,
     behind : SUBSET Ctx, staleMap : BOOLEAN, switched : BOOLEAN, misled : BOOLEAN]

Typed ==
    /\ forwards \in Nat /\ c \in [Ctx -> Context] /\ task \in [Ctx -> Stages]
    /\ IoTyped /\ FileTyped

\* The entries of the trees are numbered from 0 on, each block of the cache
\* file once.
Fills(map, n) ==
    /\ \A p \in Entries(map) : map[p[1]][p[2]] \in 0 .. n - 1
    /\ \A p, q \in Entries(map) : map[p[1]][p[2]] = map[q[1]][q[2]] => p = q
    /\ \A k \in 0 .. n - 1 : \E p \in Entries(map) : map[p[1]][p[2]] = k

Numbered ==
    /\ Fills(file.map, file.last)
    /\ Sizes(file.saved) \in Nat /\ Fills(file.saved, Sizes(file.saved))
    /\ ~file.open => file.map \in {NoMap, file.saved}

\* One context is started at most; only it has a task, and only while the
\* demuxer's thread is not about to stop it does nobody tell it to leave.
Alone == \A x, y \in Ctx : c[x].state = "started" /\ c[y].state = "started" => x = y
Control(x) ==
    /\ task[x] # "none" <=> c[x].running
    /\ c[x].running => c[x].state = "started" /\ forwards > 0
    /\ c[x].noCache => task[x] \in {"none", "leave"} /\ forwards > 0
    /\ task[x] \in {"fetch", "add"} => c[x].fill \in Blocks /\ file.map[x][c[x].fill] = None
    /\ c[x].abort /\ c[x].state = "started" => env.interrupted \/ (Stops /\ io.y = x)
    /\ c[x].seekRequest => ~c[x].seekDone /\ (env.interrupted \/ Turns("seek", x))
Thread ==
    /\ io.op = "open" => /\ c[io.x].state = "closed"
                         /\ \A y \in io.todo : c[y].state # "closed"
                         /\ \A y \in Ctx : c[y].state = "started" => y \in io.todo
                         /\ Stops => io.y \in io.todo
    /\ io.op \in {"read", "seek"} => c[io.x].state = "started" /\ ~c[io.x].freed
    /\ io.op = "close" => c[io.x].state # "closed"
    /\ Stops /\ io.at = "stopped" => ~c[io.y].running
    /\ ~file.open => \A x \in Ctx : c[x].state = "closed"

\* What the reader has not reached yet of what the task has filled.
Window(x) ==
    c[x].state # "closed" /\ forwards > 0 /\ ~c[x].freed =>
        \A i \in c[x].read .. c[x].fill - 1 : Cached(x, i)

\* Without a task, the offset of the cache file is where the started context believes it.
Offset(x) == forwards = 0 /\ c[x].state = "started" => c[x].phys = file.off

Shape ==
    /\ Typed /\ Numbered /\ Alone /\ Thread
    /\ \A x \in Ctx : Control(x) /\ Window(x) /\ Offset(x)

\* Nothing is promised once a synchronous context went on after another one.
Inv ==
    /\ forwards \in Nat /\ "switched" \in DOMAIN env
    /\ env.switched => forwards = 0
    /\ ~env.switched => env \in Env /\ Shape

\* The entries of a map lead to the blocks they stand for, as far as the disk goes.
Holds(map, disk) ==
    \A x \in Ctx, i \in Blocks :
        map[x][i] # None /\ map[x][i] < Len(disk) => disk[map[x][i] + 1] = <<x, i>>

\* A context knows where its connection is, until it gives the cache up.
Connection(k, stage) == (~k.noCache => k.conn = k.inner) /\ (stage = "add" => k.conn = k.fill + 1)

Content ==
    ~env.switched =>
        /\ env.staleMap => file.savedBad
        /\ ~env.misled =>
            /\ \A x \in Ctx : Connection(c[x], task[x])
            /\ ~env.staleMap => Holds(file.map, file.disk)
            /\ ~file.savedBad => /\ Holds(file.saved, file.disk)
                                 /\ file.open => Sizes(file.saved) <= file.last

Busy(x) == Turns("read", x) \/ Turns("seek", x)
Place(x) ==
    c[x].state # "closed" =>
        /\ Busy(x) => forwards > 0
        /\ ~c[x].noCache /\ ~Busy(x) /\ (forwards = 0 \/ ~env.interrupted) => c[x].at = c[x].read
        /\ c[x].noCache /\ ~Turns("read", x) => c[x].conn = c[x].at
        /\ Turns("seek", x) => /\ ~c[x].noCache
                               /\ c[x].seekDone => c[x].read = c[x].seekPos
        /\ Turns("read", x) /\ ~env.interrupted =>
            c[x].at = io.from /\ io.from + Len(io.data) = c[x].read
Position ==
    ~Undermined => ReadsTheFile /\ \A x \in Ctx \ env.behind : Place(x)

\* Without a failure a task believes in an end only where the file ends.
Told(x) ==
    /\ c[x].end = 0
    /\ forwards > 0 /\ c[x].state # "closed" /\ c[x].eof /\ c[x].err = 0 => c[x].fill = FileSize
Ends ==
    ~env.switched =>
        /\ env.misled => env.failed
        /\ ~env.failed => (\A x \in Ctx : Told(x)) /\ EofIsTheEnd

-----------------------------------------------------------------------------
\* The smallest of some numbers.
LEMMA SmallestOf ==
    ASSUME NEW S, S \subseteq Nat, S # {}
    PROVE  \E x \in S : \A y \in S : x <= y
<1>1. \E x \in S : \A y \in S : ~(<<y, x>> \in OpToRel(<, Nat))
  BY WFMin, NatLessThanWellFounded
<1>2. \A x, y \in Nat : <<y, x>> \in OpToRel(<, Nat) <=> y < x
  BY DEF OpToRel
<1>3. PICK x \in S : \A y \in S : ~(y < x)
  BY <1>1, <1>2
<1> QED BY <1>3

\* A tree's entry that holds block i goes on in the cache file up to its end.
LEMMA EntryEndIs ==
    ASSUME FileTyped, NEW x \in Ctx, NEW i \in Blocks, file.map[x][i] # None
    PROVE  /\ EntryEnd(x, i) \in i + 1 .. FileSize
           /\ \A j \in i .. EntryEnd(x, i) - 1 : file.map[x][j] = file.map[x][i] + (j - i) /\ Cached(x, j)
<1> DEFINE m == file.map[x]
           broken == {e \in i + 1 .. FileSize : e = FileSize \/ m[e] # m[i] + (e - i)}
           P(e) == /\ \A j \in i + 1 .. e - 1 : m[j] = m[i] + (j - i)
                   /\ e = FileSize \/ m[e] # m[i] + (e - i)
<1>1. FileSize \in Nat /\ i \in Nat /\ i < FileSize
  BY CacheAssumption DEF Blocks
<1>2. m \in [Blocks -> Nat \cup {None}] /\ m[i] \in Nat
  BY DEF FileTyped, File, Trees, None
<1> HIDE DEF m
<1>3. PICK e \in broken : \A y \in broken : e <= y
  <2>1. broken \subseteq Nat /\ FileSize \in broken
    BY <1>1
  <2> HIDE DEF broken
  <2> QED BY <2>1, SmallestOf
<1>4. e \in i + 1 .. FileSize /\ P(e)
  <2>1. ASSUME NEW j \in i + 1 .. e - 1 PROVE m[j] = m[i] + (j - i)
    <3>1. j \in i + 1 .. FileSize /\ ~(e <= j)
      BY <1>1
    <3> QED BY <1>3, <3>1
  <2> QED BY <2>1, <1>3
<1> DEFINE end == CHOOSE n \in i + 1 .. FileSize : P(n)
<1>5. end = EntryEnd(x, i)
  BY Zenon DEF EntryEnd, m
<1>6. end \in i + 1 .. FileSize /\ P(end)
  <2> HIDE DEF P
  <2> QED BY <1>4
<1> HIDE DEF end
<1>7. ASSUME NEW j \in i .. end - 1 PROVE m[j] = m[i] + (j - i) /\ Cached(x, j)
  <2>1. m[j] = m[i] + (j - i)
    BY <1>1, <1>2, <1>6
  <2>2. j \in Blocks /\ m[j] # None
    BY <1>1, <1>2, <1>6, <2>1 DEF Blocks, None
  <2> QED BY <2>1, <2>2 DEF Cached, m
<1> QED BY <1>5, <1>6, <1>7 DEF m

\* A tree that is filled up to n has n entries.
LEMMA FillsSizes ==
    ASSUME NEW map, NEW n \in Nat, Fills(map, n)
    PROVE  Sizes(map) = n
<1> DEFINE E == Entries(map)
           f == [p \in E |-> map[p[1]][p[2]] + 1]
<1>1. f \in [E -> 1 .. n]
  BY DEF Fills
<1>2. f \in Bijection(E, 1 .. n)
  <2>1. \A a, b \in E : f[a] = f[b] => a = b
    <3> SUFFICES ASSUME NEW a \in E, NEW b \in E, f[a] = f[b] PROVE a = b
      OBVIOUS
    <3>1. map[a[1]][a[2]] \in Int /\ map[b[1]][b[2]] \in Int
      BY DEF Fills
    <3>2. map[a[1]][a[2]] = map[b[1]][b[2]]
      BY <3>1
    <3> QED BY <3>2 DEF Fills
  <2>2. \A t \in 1 .. n : \E s \in E : f[s] = t
    <3> SUFFICES ASSUME NEW t \in 1 .. n PROVE \E s \in E : f[s] = t
      OBVIOUS
    <3>1. PICK s \in E : map[s[1]][s[2]] = t - 1
      BY DEF Fills
    <3> QED BY <3>1
  <2> HIDE DEF E, f
  <2> QED BY <1>1, <2>1, <2>2, Fun_IsBij
<1>3. ExistsBijection(1 .. n, E)
  <2> HIDE DEF E, f
  <2> QED BY <1>2, Fun_ExistsBijSymmetric DEF ExistsBijection
<1>4. IsFiniteSet(1 .. n) /\ Cardinality(1 .. n) = n
  BY FS_Interval
<1>5. Cardinality(E) = n
  <2> HIDE DEF E
  <2> QED BY <1>3, <1>4, FS_Bijection
<1> QED BY <1>5 DEF Sizes, Entries

\* No tree, no entry.
LEMMA NoFills == Fills(NoMap, 0) /\ Sizes(NoMap) = 0 /\ NoMap \in Trees
<1>1. Entries(NoMap) = {}
  BY DEF Entries, NoMap, NoTree
<1>2. Fills(NoMap, 0)
  BY <1>1 DEF Fills
<1>3. Sizes(NoMap) = 0
  BY <1>2, FillsSizes
<1> QED BY <1>2, <1>3 DEF NoMap, NoTree, Trees

\* One more entry, at the end of the cache file.
LEMMA FillsAdd ==
    ASSUME NEW map \in Trees, NEW n \in Nat, Fills(map, n), NEW x \in Ctx, NEW i \in Blocks, map[x][i] = None
    PROVE  /\ [map EXCEPT ![x][i] = n] \in Trees
           /\ Fills([map EXCEPT ![x][i] = n], n + 1)
<1> DEFINE m == [map EXCEPT ![x][i] = n]
<1>1. m \in Trees
  BY DEF Trees
<1>2. \A y \in Ctx, j \in Blocks : m[y][j] = IF y = x /\ j = i THEN n ELSE map[y][j]
  BY DEF Trees
<1> HIDE DEF m
<1>3. n # None /\ Entries(m) = Entries(map) \cup {<<x, i>>} /\ <<x, i>> \notin Entries(map)
  BY <1>2 DEF Entries, None
<1>4. \A p \in Entries(map) : m[p[1]][p[2]] = map[p[1]][p[2]]
  BY <1>2, <1>3 DEF Entries
<1>5. m[x][i] = n
  BY <1>2
<1>6. \A p \in Entries(m) : m[p[1]][p[2]] \in 0 .. n
  <2> SUFFICES ASSUME NEW p \in Entries(m) PROVE m[p[1]][p[2]] \in 0 .. n
    OBVIOUS
  <2>1. CASE p \in Entries(map)
    BY <1>4, <2>1 DEF Fills
  <2>2. CASE p = <<x, i>>
    BY <1>5, <2>2
  <2> QED BY <1>3, <2>1, <2>2
<1>7. \A p, q \in Entries(m) : m[p[1]][p[2]] = m[q[1]][q[2]] => p = q
  <2> SUFFICES ASSUME NEW p \in Entries(m), NEW q \in Entries(m), m[p[1]][p[2]] = m[q[1]][q[2]] PROVE p = q
    OBVIOUS
  <2>1. \A r \in Entries(map) : m[r[1]][r[2]] \in 0 .. n - 1
    BY <1>4 DEF Fills
  <2>2. CASE p \in Entries(map) /\ q \in Entries(map)
    BY <1>4, <2>2 DEF Fills
  <2>3. CASE p \notin Entries(map)
    <3>1. p = <<x, i>> /\ m[p[1]][p[2]] = n
      BY <1>3, <1>5, <2>3
    <3>2. q \notin Entries(map)
      BY <2>1, <3>1
    <3> QED BY <1>3, <3>1, <3>2
  <2>4. CASE q \notin Entries(map)
    <3>1. q = <<x, i>> /\ m[q[1]][q[2]] = n
      BY <1>3, <1>5, <2>4
    <3>2. p \notin Entries(map)
      BY <2>1, <3>1
    <3> QED BY <1>3, <3>1, <3>2
  <2> QED BY <2>2, <2>3, <2>4
<1>8. \A k \in 0 .. n : \E p \in Entries(m) : m[p[1]][p[2]] = k
  <2> SUFFICES ASSUME NEW k \in 0 .. n PROVE \E p \in Entries(m) : m[p[1]][p[2]] = k
    OBVIOUS
  <2>1. CASE k = n
    BY <1>3, <1>5, <2>1
  <2>2. CASE k # n
    <3>1. k \in 0 .. n - 1
      BY <2>2
    <3>2. PICK p \in Entries(map) : map[p[1]][p[2]] = k
      BY <3>1 DEF Fills
    <3> QED BY <1>3, <1>4, <3>2
  <2> QED BY <2>1, <2>2
<1>9. Fills(m, n + 1)
  <2>1. 0 .. (n + 1) - 1 = 0 .. n
    OBVIOUS
  <2> QED BY <1>6, <1>7, <1>8, <2>1 DEF Fills
<1> QED BY <1>1, <1>9 DEF m

-----------------------------------------------------------------------------
(* Shape.                                                                  *)

\* What is said of a context holds on when nothing it is about moves.
LEMMA StaysFit ==
    ASSUME NEW y \in Ctx, Control(y), Window(y), Offset(y),
           c'[y] = c[y], task'[y] = task[y], file'.map[y] = file.map[y], forwards' = forwards,
           env.interrupted => env'.interrupted,
           Stops /\ io.y = y => Stops' /\ io'.y = y,
           Turns("seek", y) => Turns("seek", y)',
           forwards = 0 /\ c[y].state = "started" => file'.off = file.off
    PROVE  Control(y)' /\ Window(y)' /\ Offset(y)'
<1>1. Control(y)'
  BY DEF Control
<1>2. Window(y)'
  BY DEF Window, Cached
<1>3. Offset(y)'
  BY DEF Offset
<1> QED BY <1>1, <1>2, <1>3

\* A step that makes context x into k leaves the others be.
Elsewhere(x, k) ==
    \A y \in Ctx \ {x} : /\ file'.map[y] = file.map[y]
                         /\ k.state = "started" => c[y].state # "started"
                         /\ Stops /\ io.y = y => Stops' /\ io'.y = y
                         /\ Turns("seek", y) => Turns("seek", y)'
                         /\ forwards = 0 /\ c[y].state = "started" => file'.off = file.off

LEMMA Moves ==
    ASSUME Shape, NEW x \in Ctx, NEW k \in Context, NEW s \in Stages,
           c' = [c EXCEPT ![x] = k], task' = [task EXCEPT ![x] = s], forwards' = forwards,
           env'.interrupted = env.interrupted, IoTyped', FileTyped', Numbered', Thread',
           Elsewhere(x, k), Control(x)', Window(x)', Offset(x)'
    PROVE  Shape'
<1>1. c'[x] = k /\ \A y \in Ctx \ {x} : c'[y] = c[y] /\ task'[y] = task[y]
  BY DEF Shape, Typed
<1>2. Typed'
  BY DEF Shape, Typed
<1>3. Alone'
  BY <1>1 DEF Shape, Alone, Elsewhere
<1>4. ASSUME NEW y \in Ctx PROVE Control(y)' /\ Window(y)' /\ Offset(y)'
  <2>1. CASE y = x
    BY <2>1
  <2>2. CASE y # x
    <3>1. Control(y) /\ Window(y) /\ Offset(y)
      BY DEF Shape
    <3> QED BY <1>1, <2>2, <3>1, StaysFit DEF Elsewhere
  <2> QED BY <2>1, <2>2
<1> QED BY <1>2, <1>3, <1>4 DEF Shape

\* A signal leaves all of the demuxer's thread but where it waits.
LEMMA WakeMainKeeps ==
    ASSUME IoTyped, NEW x \in Ctx, io' \in {io, WakeMain(x)}, \A y \in Ctx : c'[y].at = c[y].at
    PROVE  /\ IoTyped' /\ Stops' = Stops /\ \A op, y : Turns(op, y)' = Turns(op, y)
           /\ io'.op = io.op /\ io'.x = io.x /\ io'.y = io.y /\ io'.todo = io.todo /\ io'.from = io.from
           /\ io'.data = io.data /\ io'.want = io.want /\ io'.ret = io.ret
           /\ io'.at = io.at \/ (io.at = "mainwait" /\ io'.at = "run")
<1>1. CASE io' = io
  <2>1. IoTyped'
    BY <1>1 DEF IoTyped, Caller, Stops
  <2>2. Stops' = Stops /\ \A op, y : Turns(op, y)' = Turns(op, y)
    BY <1>1 DEF Stops, Turns
  <2> QED BY <1>1, <2>1, <2>2
<1>2. CASE io.at = "mainwait" /\ io' = [io EXCEPT !.at = "run"]
  <2>1. /\ io'.op = io.op /\ io'.x = io.x /\ io'.y = io.y /\ io'.todo = io.todo /\ io'.from = io.from
        /\ io'.data = io.data /\ io'.want = io.want /\ io'.ret = io.ret /\ io'.at = "run"
    BY <1>2 DEF IoTyped, Caller
  <2>2. IoTyped'
    BY <1>2, <2>1 DEF IoTyped, Caller, Stops
  <2>3. Stops' = Stops /\ \A op, y : Turns(op, y)' = Turns(op, y)
    BY <1>2, <2>1 DEF Stops, Turns
  <2> QED BY <1>2, <2>1, <2>2, <2>3
<1> QED BY <1>1, <1>2 DEF WakeMain

\* A step of the task of x: its context stays started, and may go where the
\* reader finds everything cached.
LEMMA TaskMoves ==
    ASSUME Shape, NEW x \in Ctx, NEW k \in Context, NEW s \in Stages \ {"none"}, task[x] # "none",
           c' = [c EXCEPT ![x] = k], task' = [task EXCEPT ![x] = s], forwards' = forwards,
           env'.interrupted = env.interrupted, io' \in {io, WakeMain(x)},
           FileTyped', Numbered', file'.open = file.open,
           \A y \in Ctx \ {x} : file'.map[y] = file.map[y],
           k.state = c[x].state, k.at = c[x].at, k.running = c[x].running, k.freed = c[x].freed,
           k.noCache => s = "leave",
           s \in {"fetch", "add"} => k.fill \in Blocks /\ file'.map[x][k.fill] = None,
           k.abort => c[x].abort \/ env.interrupted,
           k.seekRequest => c[x].seekRequest /\ ~k.seekDone,
           ~c[x].freed => \A i \in k.read .. k.fill - 1 : Cached(x, i)'
    PROVE  Shape'
<1>1. c[x].running /\ c[x].state = "started" /\ forwards > 0 /\ forwards \in Nat /\ Control(x)
  BY DEF Shape, Control, Typed
<1>2. c'[x] = k /\ task'[x] = s /\ \A y \in Ctx \ {x} : c'[y] = c[y]
  BY DEF Shape, Typed
<1>3. \A y \in Ctx : /\ c'[y].at = c[y].at /\ c'[y].state = c[y].state /\ c'[y].running = c[y].running
                     /\ c'[y].freed = c[y].freed
  BY <1>2
<1>4. /\ IoTyped' /\ Stops' = Stops /\ \A op, y : Turns(op, y)' = Turns(op, y)
      /\ io'.op = io.op /\ io'.x = io.x /\ io'.y = io.y /\ io'.todo = io.todo
      /\ io'.at = io.at \/ (io.at = "mainwait" /\ io'.at = "run")
  <2>1. IoTyped
    BY DEF Shape, Typed
  <2> QED BY <1>3, <2>1, WakeMainKeeps
<1>5. Thread'
  <2>1. IoTyped /\ Thread
    BY DEF Shape, Typed
  <2>2. Stops => io.y \in Ctx
    BY <2>1 DEF IoTyped, Caller
  <2>3. io.op # "none" => io.x \in Ctx
    BY <2>1 DEF IoTyped, Caller
  <2>4. io.todo \subseteq Ctx
    BY <2>1 DEF IoTyped, Caller
  <2> QED BY <1>3, <1>4, <2>1, <2>2, <2>3, <2>4 DEF Thread
<1>6. Control(x)'
  BY <1>1, <1>2, <1>4 DEF Control
<1>7. Window(x)' /\ Offset(x)'
  BY <1>1, <1>2 DEF Window, Offset
<1>8. \A y \in Ctx \ {x} : k.state = "started" => c[y].state # "started"
  BY <1>1 DEF Shape, Alone
<1> QED BY <1>1, <1>4, <1>5, <1>6, <1>7, <1>8, Moves DEF Elsewhere

LEMMA ShapeStart ==
    ASSUME Shape, NEW x \in Ctx, TaskStart(x) \/ TaskCheck(x) \/ TaskSleep(x) \/ TaskTell(x)
    PROVE  Shape'
<1> USE DEF TaskStart, TaskCheck, TaskSleep, TaskTell
<1>1. PICK s \in {"top", "lock", "find", "asleep"} : task' = [task EXCEPT ![x] = s]
  OBVIOUS
<1>2. /\ task[x] \in {"queued", "check", "lock", "tell"} /\ io' \in {io, WakeMain(x)}
      /\ c' = c /\ forwards' = forwards /\ file' = file /\ env' = env
  OBVIOUS
<1>3. c' = [c EXCEPT ![x] = c[x]] /\ c[x] \in Context
  BY <1>2 DEF Shape, Typed
<1>4. FileTyped' /\ Numbered'
  BY <1>2 DEF Shape, Typed, FileTyped, File, Numbered
<1>5. Control(x) /\ Window(x) /\ c[x].state = "started" /\ forwards > 0
  BY <1>2 DEF Shape, Control
<1>6. ~c[x].noCache /\ (c[x].seekRequest => ~c[x].seekDone)
  BY <1>2, <1>5 DEF Control
<1>7. ~c[x].freed => \A i \in c[x].read .. c[x].fill - 1 : Cached(x, i)'
  BY <1>2, <1>5 DEF Window, Cached
<1> QED BY <1>1, <1>2, <1>3, <1>4, <1>6, <1>7, TaskMoves DEF Stages

\* What a request to seek changes.
LEMMA SoughtIs ==
    ASSUME NEW k \in Context
    PROVE  /\ Sought(k) \in Context
           /\ Sought(k).state = k.state /\ Sought(k).at = k.at /\ Sought(k).running = k.running
           /\ Sought(k).freed = k.freed /\ Sought(k).noCache = k.noCache /\ Sought(k).abort = k.abort
           /\ Sought(k).conn = k.conn /\ Sought(k).inner = k.inner /\ Sought(k).end = k.end
           /\ Sought(k).seekPos = k.seekPos
           /\ ~Sought(k).seekRequest /\ Sought(k).seekDone /\ ~Sought(k).eof /\ Sought(k).err = 0
           /\ Sought(k).read = k.seekPos /\ Sought(k).fill = k.seekPos
  BY DEF Sought, Context

LEMMA ShapeTop ==
    ASSUME Shape, NEW x \in Ctx, TaskTop(x)
    PROVE  Shape'
<1> USE DEF TaskTop
<1>1. /\ task[x] = "top" /\ forwards' = forwards /\ file' = file /\ env' = env /\ c[x] \in Context
      /\ Control(x) /\ Window(x)
  BY DEF Shape, Typed
<1>2. FileTyped' /\ Numbered'
  BY <1>1 DEF Shape, Typed, FileTyped, File, Numbered
<1>3. c[x].state = "started" /\ forwards > 0 /\ ~c[x].noCache /\ (c[x].seekRequest => ~c[x].seekDone)
  BY <1>1 DEF Control
<1>4. ~c[x].freed => \A i \in c[x].read .. c[x].fill - 1 : Cached(x, i)'
  BY <1>1, <1>3 DEF Window, Cached
<1>5. CASE Aborted(x)
  <2> DEFINE k == [c[x] EXCEPT !.abort = TRUE, !.eof = TRUE, !.err = Exit]
  <2>1. c' = [c EXCEPT ![x] = k] /\ task' = [task EXCEPT ![x] = "leave"] /\ io' = io
    BY <1>3, <1>5 DEF Shape, Typed
  <2>2. /\ k \in Context /\ k.state = c[x].state /\ k.at = c[x].at /\ k.running = c[x].running
        /\ k.freed = c[x].freed /\ k.noCache = c[x].noCache /\ k.seekRequest = c[x].seekRequest
        /\ k.seekDone = c[x].seekDone /\ k.read = c[x].read /\ k.fill = c[x].fill
    BY <1>1 DEF Context
  <2> HIDE DEF k
  <2> QED BY <1>1, <1>2, <1>3, <1>4, <1>5, <2>1, <2>2, TaskMoves DEF Stages, Aborted
<1>6. CASE ~Aborted(x) /\ ~c[x].seekRequest
  <2>1. c' = [c EXCEPT ![x] = c[x]] /\ task' = [task EXCEPT ![x] = "check"] /\ io' = io
    BY <1>3, <1>6 DEF Shape, Typed
  <2> QED BY <1>1, <1>2, <1>3, <1>4, <2>1, TaskMoves DEF Stages
<1>7. CASE ~Aborted(x) /\ c[x].seekRequest
  <2> DEFINE k == Sought(c[x])
  <2>1. c' = [c EXCEPT ![x] = k] /\ task' = [task EXCEPT ![x] = "check"] /\ io' = WakeMain(x)
    BY <1>3, <1>7 DEF Shape, Typed
  <2>2. /\ k \in Context /\ k.state = c[x].state /\ k.at = c[x].at /\ k.running = c[x].running
        /\ k.freed = c[x].freed /\ k.noCache = c[x].noCache /\ ~k.seekRequest /\ k.read = k.fill
        /\ k.fill \in Nat /\ k.abort = c[x].abort
    <3>1. c[x].seekPos \in Nat
      BY <1>1 DEF Context
    <3> QED BY <1>1, <3>1, SoughtIs
  <2> HIDE DEF k
  <2>3. \A i \in k.read .. k.fill - 1 : Cached(x, i)'
    BY <2>2
  <2> QED BY <1>1, <1>2, <1>3, <2>1, <2>2, <2>3, TaskMoves DEF Stages
<1> QED BY <1>5, <1>6, <1>7

\* The task goes on behind what is cached.
LEMMA FindNext ==
    ASSUME Shape, NEW x \in Ctx, NEW i \in 0 .. FileSize,
           NEW n, n = (IF Cached(x, i) THEN EntryEnd(x, i) ELSE i)
    PROVE  n \in i .. FileSize /\ \A j \in i .. n - 1 : Cached(x, j)
<1>1. FileTyped /\ FileSize \in Nat
  BY CacheAssumption DEF Shape, Typed
<1>2. CASE Cached(x, i)
  <2>1. i \in Blocks /\ file.map[x][i] # None /\ n = EntryEnd(x, i)
    BY <1>2 DEF Cached
  <2>2. n \in i + 1 .. FileSize /\ \A j \in i .. n - 1 : Cached(x, j)
    BY <1>1, <2>1, EntryEndIs
  <2> QED BY <1>1, <2>2
<1>3. CASE ~Cached(x, i)
  BY <1>1, <1>3
<1> QED BY <1>2, <1>3

\* Where a task that looks for its place goes on.
Found(x, k, s) ==
    /\ c' = [c EXCEPT ![x] = k] /\ task' = [task EXCEPT ![x] = s]
    /\ forwards' = forwards /\ file' = file /\ env' = env /\ io' = io
    /\ s = "fetch" => k.fill \in Blocks /\ file.map[x][k.fill] = None
    /\ k.fill \in c[x].fill .. FileSize /\ \A j \in c[x].fill .. k.fill - 1 : Cached(x, j)
    /\ k.eof => c[x].eof \/ k.fill = FileSize \/ c[x].end > 0
    /\ k.state = c[x].state /\ k.at = c[x].at /\ k.running = c[x].running /\ k.freed = c[x].freed
    /\ k.noCache = c[x].noCache /\ k.abort = c[x].abort /\ k.seekRequest = c[x].seekRequest
    /\ k.seekDone = c[x].seekDone /\ k.read = c[x].read /\ k.end = c[x].end /\ k.err = c[x].err

LEMMA FindIs ==
    ASSUME Shape, NEW x \in Ctx, TaskFind(x)
    PROVE  \E k \in Context, s \in {"top", "fetch"} : Found(x, k, s)
<1> DEFINE next == IF Cached(x, c[x].fill) THEN EntryEnd(x, c[x].fill) ELSE c[x].fill
           stop == next >= FileSize \/ (c[x].end > 0 /\ next = c[x].end)
           s == IF Cached(x, next) \/ stop THEN "top" ELSE "fetch"
           e == IF Cached(x, next) THEN c[x].eof ELSE c[x].eof \/ stop
           k == [c[x] EXCEPT !.fill = next, !.eof = e]
<1>1. /\ task[x] = "find" /\ forwards' = forwards /\ file' = file /\ env' = env /\ io' = io /\ c[x] \in Context
      /\ Control(x) /\ Window(x) /\ FileSize \in Nat
  BY CacheAssumption DEF Shape, Typed, TaskFind
<1>2. c' = [c EXCEPT ![x] = k] /\ task' = [task EXCEPT ![x] = s]
  <2>1. c \in [Ctx -> Context] /\ c[x] = [c[x] EXCEPT !.eof = @]
    BY <1>1 DEF Shape, Typed, Context
  <2>2. CASE Cached(x, next)
    <3>1. c' = [c EXCEPT ![x].fill = next] /\ task' = [task EXCEPT ![x] = "top"]
      BY <2>2, Zenon DEF TaskFind
    <3>2. k = [c[x] EXCEPT !.fill = next]
      <4>1. e = c[x].eof
        BY <2>2
      <4> HIDE DEF e, next
      <4> QED BY <1>1, <4>1 DEF Context
    <3> QED BY <2>2, <3>1, <3>2
  <2>3. CASE ~Cached(x, next)
    <3>1. c' = [c EXCEPT ![x].fill = next, ![x].eof = c[x].eof \/ stop] /\ task' = [task EXCEPT ![x] = IF stop THEN "top" ELSE "fetch"]
      BY <2>1, <2>3 DEF TaskFind
    <3>2. c' = [c EXCEPT ![x] = [c[x] EXCEPT !.fill = next, !.eof = c[x].eof \/ stop]]
      <4> HIDE DEF next, stop
      <4> QED BY <2>1, <3>1
    <3> QED BY <2>3, <3>1, <3>2
  <2> QED BY <2>2, <2>3
<1>5. next \in c[x].fill .. FileSize /\ \A j \in c[x].fill .. next - 1 : Cached(x, j)
  <2>1. c[x].fill \in 0 .. FileSize
    BY <1>1 DEF Context
  <2> QED BY <2>1, FindNext, Zenon
<1>6. s = "fetch" => next \in Blocks /\ file.map[x][next] = None
  <2>1. s = "fetch" => ~Cached(x, next) /\ ~(next >= FileSize)
    OBVIOUS
  <2> HIDE DEF s, next
  <2> QED BY <1>1, <1>5, <2>1 DEF Cached, Blocks, Context
<1>7. s \in {"top", "fetch"} /\ e \in BOOLEAN
  <2>1. c[x].eof \in BOOLEAN
    BY <1>1 DEF Context
  <2> QED BY <2>1
<1>9. e => c[x].eof \/ next = FileSize \/ c[x].end > 0
  <2>1. e => c[x].eof \/ next >= FileSize \/ c[x].end > 0
    OBVIOUS
  <2>2. next <= FileSize /\ next \in Int
    <3> HIDE DEF next
    <3> QED BY <1>1, <1>5 DEF Context
  <2> HIDE DEF next, e
  <2> QED BY <1>1, <2>1, <2>2
<1> HIDE DEF next, stop, s, e
<1>8. /\ k \in Context /\ k.state = c[x].state /\ k.at = c[x].at /\ k.running = c[x].running
      /\ k.freed = c[x].freed /\ k.noCache = c[x].noCache /\ k.abort = c[x].abort
      /\ k.seekRequest = c[x].seekRequest /\ k.seekDone = c[x].seekDone /\ k.read = c[x].read /\ k.fill = next
      /\ k.end = c[x].end /\ k.err = c[x].err /\ k.eof = e
  <2>1. next \in 0 .. FileSize
    BY <1>1, <1>5 DEF Context
  <2> QED BY <1>1, <1>7, <2>1 DEF Context
<1> HIDE DEF k
<1> QED BY <1>1, <1>2, <1>5, <1>6, <1>7, <1>8, <1>9 DEF Found

LEMMA ShapeFind ==
    ASSUME Shape, NEW x \in Ctx, TaskFind(x)
    PROVE  Shape'
<1>1. /\ task[x] = "find" /\ c[x] \in Context /\ Control(x) /\ Window(x) /\ FileSize \in Nat
  BY CacheAssumption DEF Shape, Typed, TaskFind
<1>2. PICK k \in Context, s \in {"top", "fetch"} : Found(x, k, s)
  BY FindIs
<1>3. FileTyped' /\ Numbered'
  BY <1>2 DEF Found, Shape, Typed, FileTyped, File, Numbered
<1>4. c[x].state = "started" /\ forwards > 0 /\ ~c[x].noCache /\ (c[x].seekRequest => ~c[x].seekDone)
  BY <1>1 DEF Control
<1>5. k.fill \in c[x].fill .. FileSize /\ \A j \in c[x].fill .. k.fill - 1 : Cached(x, j)
  BY <1>2 DEF Found
<1>6. /\ s = "fetch" => k.fill \in Blocks /\ file.map[x][k.fill] = None
      /\ c' = [c EXCEPT ![x] = k] /\ task' = [task EXCEPT ![x] = s]
      /\ forwards' = forwards /\ file' = file /\ env' = env /\ io' = io
  BY <1>2 DEF Found
<1>8. /\ k.state = c[x].state /\ k.at = c[x].at /\ k.running = c[x].running /\ k.freed = c[x].freed
      /\ k.noCache = c[x].noCache /\ k.abort = c[x].abort /\ k.seekRequest = c[x].seekRequest
      /\ k.seekDone = c[x].seekDone /\ k.read = c[x].read
  BY <1>2 DEF Found
<1>9. ~c[x].freed => \A i \in k.read .. k.fill - 1 : Cached(x, i)'
  <2>1. c[x].fill \in Nat /\ c[x].read \in Nat
    BY <1>1 DEF Context
  <2>2. ASSUME ~c[x].freed, NEW i \in k.read .. k.fill - 1 PROVE Cached(x, i)
    <3>1. CASE i < c[x].fill
      BY <1>1, <1>4, <1>8, <2>1, <2>2, <3>1 DEF Window
    <3>2. CASE ~(i < c[x].fill)
      <4>1. i \in c[x].fill .. k.fill - 1
        BY <1>8, <1>5, <2>1, <3>2
      <4> QED BY <1>5, <4>1
    <3> QED BY <3>1, <3>2
  <2> QED BY <1>6, <2>2 DEF Cached
<1> QED BY <1>1, <1>3, <1>4, <1>6, <1>8, <1>9, TaskMoves DEF Stages

\* What a failure, or none, changes of the surroundings.
LEMMA FailedIs ==
    ASSUME env \in Env
    PROVE  /\ Failed(env) \in Env /\ Failed(env).failed /\ Failed(env).interrupted = env.interrupted
           /\ Failed(env).behind = env.behind /\ Failed(env).staleMap = env.staleMap
           /\ Failed(env).switched = env.switched /\ Failed(env).misled = env.misled
<1> DEFINE n == env.troubles - 1
<1>1. n \in Int
  BY DEF Env
<1>2. Failed(env) = [env EXCEPT !.troubles = n, !.failed = TRUE]
  BY DEF Failed
<1> HIDE DEF n
<1>3. Failed(env) \in Env /\ Failed(env).failed
  BY <1>1, <1>2 DEF Env
<1>4. /\ Failed(env).interrupted = env.interrupted
      /\ Failed(env).behind = env.behind /\ Failed(env).staleMap = env.staleMap
      /\ Failed(env).switched = env.switched /\ Failed(env).misled = env.misled
  BY <1>2 DEF Env
<1> QED BY <1>3, <1>4

LEMMA AfterIs ==
    ASSUME env \in Env, NEW x, NEW i, NEW o
    PROVE  LET e == After(x, i, o) IN
           /\ e \in Env /\ e.interrupted = env.interrupted /\ e.behind = env.behind
           /\ e.staleMap = env.staleMap /\ e.switched = env.switched /\ e.misled = env.misled
           /\ env.failed => e.failed
           /\ ~(o = "read" \/ (o = "ends" /\ ConnAt(c[x], i) = FileSize)) => e.failed
<1>3. CASE o = "read" \/ (o = "ends" /\ ConnAt(c[x], i) = FileSize)
  BY <1>3, Zenon DEF After
<1>4. CASE ~(o = "read" \/ (o = "ends" /\ ConnAt(c[x], i) = FileSize))
  <2>1. After(x, i, o) = Failed(env)
    BY <1>4 DEF After
  <2> QED BY <1>4, <2>1, FailedIs
<1> QED BY <1>3, <1>4

\* What the connection has done to the context: nothing but where it is.
LEMMA ConnectedIs ==
    ASSUME NEW x \in Ctx, c[x] \in Context, NEW i \in Blocks, NEW o \in NetworkOutcomes(x, i)
    PROVE  LET k == Connected(c[x], i, o) IN
           /\ k \in Context /\ k.state = c[x].state /\ k.read = c[x].read /\ k.fill = c[x].fill /\ k.at = c[x].at
           /\ k.end = c[x].end /\ k.phys = c[x].phys /\ k.eof = c[x].eof /\ k.err = c[x].err
           /\ k.noCache = c[x].noCache /\ k.seekRequest = c[x].seekRequest /\ k.seekDone = c[x].seekDone
           /\ k.seekPos = c[x].seekPos /\ k.abort = c[x].abort /\ k.running = c[x].running
           /\ k.freed = c[x].freed
           /\ o = "read" => k.conn = ConnAt(c[x], i) + 1 /\ k.inner = i + 1 /\ ConnAt(c[x], i) < FileSize
           /\ c[x].conn = c[x].inner => k.conn = k.inner /\ ConnAt(c[x], i) = i
<1> DEFINE at == ConnAt(c[x], i)
           opened == [c[x] EXCEPT !.asyncOpen = FALSE]
           sought(m, n) == [opened EXCEPT !.inner = m, !.conn = n]
           k == Connected(c[x], i, o)
<1>1. /\ i \in Nat /\ i < FileSize /\ FileSize \in Nat /\ at \in 0 .. FileSize
      /\ c[x].conn = c[x].inner => at = i
  BY CacheAssumption DEF Blocks, ConnAt, Context
<1>2. /\ o \in {"read", "ends", "readFails", "openFails", "seekFails"}
      /\ o = "read" => at < FileSize
  BY DEF NetworkOutcomes
<1>3. /\ o = "openFails" => k = c[x]
      /\ o = "seekFails" => k = opened
      /\ o = "read"      => k = sought(i + 1, at + 1)
      /\ o \in {"ends", "readFails"} => k = sought(i, at)
  BY <1>2 DEF Connected
<1>4. /\ opened \in Context /\ opened.state = c[x].state /\ opened.read = c[x].read /\ opened.fill = c[x].fill
      /\ opened.at = c[x].at /\ opened.end = c[x].end /\ opened.phys = c[x].phys /\ opened.eof = c[x].eof
      /\ opened.err = c[x].err /\ opened.inner = c[x].inner /\ opened.conn = c[x].conn
  BY DEF Context
<1>5. /\ opened.noCache = c[x].noCache /\ opened.seekRequest = c[x].seekRequest
      /\ opened.seekDone = c[x].seekDone /\ opened.seekPos = c[x].seekPos /\ opened.abort = c[x].abort
      /\ opened.running = c[x].running /\ opened.freed = c[x].freed
  BY DEF Context
<1> HIDE DEF at, opened
<1>6. ASSUME NEW m \in 0 .. FileSize, NEW n \in 0 .. FileSize
      PROVE  LET l == sought(m, n) IN
             /\ l \in Context /\ l.state = opened.state /\ l.read = opened.read /\ l.fill = opened.fill
             /\ l.at = opened.at /\ l.end = opened.end /\ l.phys = opened.phys /\ l.eof = opened.eof
             /\ l.err = opened.err /\ l.noCache = opened.noCache /\ l.seekRequest = opened.seekRequest
             /\ l.seekDone = opened.seekDone /\ l.seekPos = opened.seekPos /\ l.abort = opened.abort
             /\ l.running = opened.running /\ l.freed = opened.freed /\ l.inner = m /\ l.conn = n
  BY <1>4 DEF Context
<1> HIDE DEF sought, k
<1>7. CASE o = "openFails"
  BY <1>1, <1>3, <1>7 DEF at, k
<1>8. CASE o = "seekFails"
  BY <1>1, <1>3, <1>4, <1>5, <1>8 DEF at, k
<1>9. CASE o = "read"
  <2>1. at + 1 \in 0 .. FileSize /\ i + 1 \in 0 .. FileSize
    BY <1>1, <1>2, <1>9
  <2>2. k = sought(i + 1, at + 1)
    BY <1>3, <1>9
  <2> QED BY <1>1, <1>2, <1>4, <1>5, <1>6, <1>9, <2>1, <2>2 DEF at, k
<1>10. CASE o \in {"ends", "readFails"}
  <2>1. k = sought(i, at) /\ i \in 0 .. FileSize
    BY <1>1, <1>3, <1>10
  <2> QED BY <1>1, <1>4, <1>5, <1>6, <1>10, <2>1 DEF at, k
<1> QED BY <1>2, <1>7, <1>8, <1>9, <1>10

\* What the task's turn at the connection makes of its context.
LEMMA FetchIs ==
    ASSUME c \in [Ctx -> Context], env \in Env, NEW x \in Ctx, c[x].fill \in Blocks, TaskFetch(x)
    PROVE  \E k \in Context, o \in NetworkOutcomes(x, c[x].fill) :
           /\ c' = [c EXCEPT ![x] = k] /\ env' \in Env
           /\ task' = [task EXCEPT ![x] = IF o = "read" THEN "add" ELSE "top"]
           /\ k.state = c[x].state /\ k.read = c[x].read /\ k.fill = c[x].fill /\ k.at = c[x].at
           /\ k.phys = c[x].phys /\ k.noCache = c[x].noCache /\ k.seekRequest = c[x].seekRequest
           /\ k.seekDone = c[x].seekDone /\ k.seekPos = c[x].seekPos /\ k.abort = c[x].abort
           /\ k.running = c[x].running /\ k.freed = c[x].freed
           /\ o = "read" => /\ k.conn = ConnAt(c[x], c[x].fill) + 1 /\ k.inner = c[x].fill + 1
                            /\ k.eof = c[x].eof /\ k.err = c[x].err /\ k.end = c[x].end
           /\ env'.interrupted = env.interrupted /\ env'.behind = env.behind /\ env'.staleMap = env.staleMap
           /\ env'.switched = env.switched /\ (env.misled => env'.misled) /\ (env.failed => env'.failed)
           /\ env'.misled => env.misled \/ env'.failed
           /\ c[x].conn = c[x].inner => ConnAt(c[x], c[x].fill) = c[x].fill
           /\ c[x].conn = c[x].inner /\ ~env'.misled => k.conn = k.inner
           /\ ~(o = "read" \/ (o = "ends" /\ ConnAt(c[x], c[x].fill) = FileSize)) => env'.failed
<1> DEFINE i == c[x].fill
<1>1. PICK o \in NetworkOutcomes(x, i) :
        LET k == Connected(c[x], i, o)
            atEnd == o = "seekFails" /\ i = c[x].end IN
        /\ env' = [After(x, i, o) EXCEPT !.misled = @ \/ atEnd]
        /\ c' = [c EXCEPT ![x] = IF o = "read" THEN k
                    ELSE [k EXCEPT !.eof = TRUE,
                                   !.err = CASE o \in {"openFails", "readFails"} -> Eio
                                             [] o = "ends" -> 0
                                             [] OTHER -> @,
                                   !.end = IF o = "ends" THEN i ELSE @,
                                   !.inner = IF atEnd THEN i ELSE @]]
        /\ task' = [task EXCEPT ![x] = IF o = "read" THEN "add" ELSE "top"]
  BY Zenon DEF TaskFetch
<1> DEFINE l == Connected(c[x], i, o)
           atEnd == o = "seekFails" /\ i = c[x].end
           e == After(x, i, o)
           err == CASE o \in {"openFails", "readFails"} -> Eio [] o = "ends" -> 0 [] OTHER -> l.err
           end == IF o = "ends" THEN i ELSE l.end
           inner == IF atEnd THEN i ELSE l.inner
           m == [l EXCEPT !.eof = TRUE, !.err = err, !.end = end, !.inner = inner]
           k == IF o = "read" THEN l ELSE m
<1>2. /\ l \in Context /\ l.state = c[x].state /\ l.read = c[x].read /\ l.fill = c[x].fill /\ l.at = c[x].at
      /\ l.end = c[x].end /\ l.phys = c[x].phys /\ l.eof = c[x].eof /\ l.err = c[x].err
      /\ l.noCache = c[x].noCache /\ l.seekRequest = c[x].seekRequest /\ l.seekDone = c[x].seekDone
      /\ l.seekPos = c[x].seekPos /\ l.abort = c[x].abort /\ l.running = c[x].running
      /\ l.freed = c[x].freed
      /\ o = "read" => l.conn = ConnAt(c[x], i) + 1 /\ l.inner = i + 1 /\ ConnAt(c[x], i) < FileSize
      /\ c[x].conn = c[x].inner => l.conn = l.inner /\ ConnAt(c[x], i) = i
  BY ConnectedIs
<1>3. /\ e \in Env /\ e.interrupted = env.interrupted /\ e.behind = env.behind
      /\ e.staleMap = env.staleMap /\ e.switched = env.switched /\ e.misled = env.misled
      /\ env.failed => e.failed
      /\ ~(o = "read" \/ (o = "ends" /\ ConnAt(c[x], i) = FileSize)) => e.failed
  BY AfterIs
<1>4. c' = [c EXCEPT ![x] = k]
  BY <1>1, Zenon
<1>5. env' = [e EXCEPT !.misled = e.misled \/ atEnd]
  BY <1>1, Zenon
<1>6. /\ err \in {0, Eio, Exit} /\ end \in 0 .. FileSize /\ inner \in 0 .. FileSize
      /\ ~atEnd => inner = l.inner
  <2>1. i \in 0 .. FileSize
    BY CacheAssumption DEF Blocks
  <2>2. l.err \in {0, Eio, Exit} /\ l.end \in 0 .. FileSize /\ l.inner \in 0 .. FileSize
    BY <1>2 DEF Context
  <2> HIDE DEF l
  <2> QED BY <2>1, <2>2
<1>7. /\ env' \in Env /\ env'.interrupted = e.interrupted /\ env'.behind = e.behind
      /\ env'.staleMap = e.staleMap /\ env'.switched = e.switched /\ env'.failed = e.failed
      /\ env'.misled = (e.misled \/ atEnd)
  <2> HIDE DEF e, atEnd
  <2>1. (e.misled \/ atEnd) \in BOOLEAN
    OBVIOUS
  <2> QED BY <1>3, <1>5, <2>1 DEF Env
<1>8. atEnd => o = "seekFails"
  OBVIOUS
<1>9. /\ m \in Context /\ m.state = l.state /\ m.read = l.read /\ m.fill = l.fill /\ m.at = l.at
      /\ m.phys = l.phys /\ m.noCache = l.noCache /\ m.seekRequest = l.seekRequest
      /\ m.seekDone = l.seekDone /\ m.seekPos = l.seekPos /\ m.abort = l.abort
      /\ m.running = l.running /\ m.freed = l.freed /\ m.conn = l.conn /\ m.inner = inner
  <2> HIDE DEF l, err, end, inner
  <2> QED BY <1>2, <1>6 DEF Context
<1> HIDE DEF l, e, atEnd, err, end, inner, m
<1>10. /\ o = "read" => k = l
       /\ o # "read" => k = m
  OBVIOUS
<1> HIDE DEF k
<1>11. /\ k \in Context /\ k.state = c[x].state /\ k.read = c[x].read /\ k.fill = c[x].fill /\ k.at = c[x].at
       /\ k.phys = c[x].phys /\ k.noCache = c[x].noCache /\ k.seekRequest = c[x].seekRequest
       /\ k.seekDone = c[x].seekDone /\ k.seekPos = c[x].seekPos /\ k.abort = c[x].abort
       /\ k.running = c[x].running /\ k.freed = c[x].freed /\ k.conn = l.conn
  BY <1>2, <1>9, <1>10
<1>12. o = "read" => /\ k.conn = ConnAt(c[x], i) + 1 /\ k.inner = i + 1
                     /\ k.eof = c[x].eof /\ k.err = c[x].err /\ k.end = c[x].end
  BY <1>2, <1>10
<1>13. c[x].conn = c[x].inner /\ ~env'.misled => k.conn = k.inner
  BY <1>2, <1>6, <1>7, <1>9, <1>10
<1>14. env'.misled => env.misled \/ env'.failed
  <2>1. atEnd => e.failed
    BY <1>3, <1>8
  <2> QED BY <1>3, <1>7, <2>1
<1>15. /\ env'.interrupted = env.interrupted /\ env'.behind = env.behind /\ env'.staleMap = env.staleMap
       /\ env'.switched = env.switched /\ (env.misled => env'.misled) /\ (env.failed => env'.failed)
       /\ ~(o = "read" \/ (o = "ends" /\ ConnAt(c[x], i) = FileSize)) => env'.failed
  BY <1>3, <1>7
<1>16. task' = [task EXCEPT ![x] = IF o = "read" THEN "add" ELSE "top"]
  BY <1>1, Zenon
<1> QED BY <1>2, <1>4, <1>7, <1>11, <1>12, <1>13, <1>14, <1>15, <1>16

LEMMA ShapeFetch ==
    ASSUME Shape, env \in Env, NEW x \in Ctx, TaskFetch(x)
    PROVE  Shape'
<1>1. /\ task[x] = "fetch" /\ forwards' = forwards /\ file' = file /\ io' = io /\ c \in [Ctx -> Context]
      /\ Control(x) /\ Window(x)
  BY DEF Shape, Typed, TaskFetch
<1>2. c[x].state = "started" /\ forwards > 0 /\ ~c[x].noCache /\ (c[x].seekRequest => ~c[x].seekDone)
  BY <1>1 DEF Control
<1>3. c[x].fill \in Blocks /\ file.map[x][c[x].fill] = None
  BY <1>1 DEF Control
<1>4. PICK k \in Context, o \in NetworkOutcomes(x, c[x].fill) :
           /\ c' = [c EXCEPT ![x] = k]
           /\ task' = [task EXCEPT ![x] = IF o = "read" THEN "add" ELSE "top"]
           /\ k.state = c[x].state /\ k.read = c[x].read /\ k.fill = c[x].fill /\ k.at = c[x].at
           /\ k.phys = c[x].phys /\ k.noCache = c[x].noCache /\ k.seekRequest = c[x].seekRequest
           /\ k.seekDone = c[x].seekDone /\ k.abort = c[x].abort
           /\ k.running = c[x].running /\ k.freed = c[x].freed
           /\ env'.interrupted = env.interrupted
  BY <1>1, <1>3, FetchIs
<1>5. FileTyped' /\ Numbered'
  BY <1>1 DEF Shape, Typed, FileTyped, File, Numbered
<1>6. ~c[x].freed => \A i \in k.read .. k.fill - 1 : Cached(x, i)'
  BY <1>1, <1>2, <1>4 DEF Window, Cached
<1>7. PICK s \in {"add", "top"} : task' = [task EXCEPT ![x] = s]
  BY <1>4
<1> QED BY <1>1, <1>2, <1>3, <1>4, <1>5, <1>6, <1>7, TaskMoves DEF Stages

\* A write within the cache file, or at its end.
LEMMA WrittenIs ==
    ASSUME NEW disk \in Seq(Data), NEW p \in Nat, p <= Len(disk), NEW b \in Data
    PROVE  LET d == Written(disk, p, b) IN
           /\ d \in Seq(Data) /\ Len(d) >= Len(disk) /\ Len(d) >= p + 1
           /\ Len(d) <= Len(disk) \/ Len(d) = p + 1
           /\ d[p + 1] = b /\ \A i \in 1 .. Len(disk) : i # p + 1 => d[i] = disk[i]
<1>1. CASE p < Len(disk)
  BY <1>1 DEF Written
<1>2. CASE p = Len(disk)
  <2>1. Written(disk, p, b) = Append(disk, b)
    BY <1>2 DEF Written
  <2> QED BY <1>2, <2>1
<1> QED BY <1>1, <1>2

\* The cache file and its trees when a block is added.
LEMMA AddedFile ==
    ASSUME FileTyped, Numbered, file.open, NEW x \in Ctx, NEW i \in Blocks, file.map[x][i] = None, NEW b \in Data,
           file' = [file EXCEPT !.last = @ + 1, !.disk = Written(@, file.last, b), !.map[x][i] = file.last]
    PROVE  /\ FileTyped' /\ Numbered' /\ file'.last = file.last + 1 /\ file'.off = file.off
           /\ file'.disk = Written(file.disk, file.last, b) /\ file'.open = file.open
           /\ file'.saved = file.saved /\ file'.savedBad = file.savedBad /\ file'.shared = file.shared
           /\ file'.map = [file.map EXCEPT ![x][i] = file.last]
           /\ \A y \in Ctx, j \in Blocks : file'.map[y][j] = IF y = x /\ j = i THEN file.last ELSE file.map[y][j]
           /\ \A y \in Ctx \ {x} : file'.map[y] = file.map[y]
<1> DEFINE d == Written(file.disk, file.last, b)
           m == [file.map EXCEPT ![x][i] = file.last]
           n == file.last + 1
<1>1. /\ file.last \in Nat /\ file.disk \in Seq(Data) /\ file.map \in Trees /\ file.last <= Len(file.disk)
      /\ file.saved \in Trees
  BY DEF FileTyped, File
<1>2. d \in Seq(Data) /\ Len(d) >= n /\ n \in Nat
  BY <1>1, WrittenIs
<1>3. m \in Trees /\ Fills(m, n)
  <2>1. Fills(file.map, file.last)
    BY DEF Numbered
  <2> QED BY <1>1, <2>1, FillsAdd
<1>4. \A y \in Ctx, j \in Blocks : m[y][j] = IF y = x /\ j = i THEN file.last ELSE file.map[y][j]
  BY <1>1 DEF Trees
<1>5. \A y \in Ctx \ {x} : m[y] = file.map[y]
  BY <1>1 DEF Trees
<1>6. file' = [file EXCEPT !.last = n, !.disk = d, !.map = m]
  <2>1. file' = [file EXCEPT !.last = n, !.disk = d, !.map[x][i] = file.last]
    BY Zenon
  <2> HIDE DEF n, d
  <2> QED BY <2>1 DEF FileTyped, File
<1> HIDE DEF d, m, n
<1>7. /\ file'.last = n /\ file'.disk = d /\ file'.map = m /\ file'.off = file.off /\ file'.open = file.open
      /\ file'.saved = file.saved /\ file'.savedBad = file.savedBad /\ file'.shared = file.shared
  BY <1>6 DEF FileTyped, File
<1>8. FileTyped'
  BY <1>2, <1>3, <1>6, <1>7 DEF FileTyped, File
<1>9. Numbered'
  BY <1>3, <1>7 DEF Numbered
<1>10. /\ file'.last = file.last + 1 /\ file'.disk = Written(file.disk, file.last, b)
       /\ file'.map = [file.map EXCEPT ![x][i] = file.last]
  BY <1>7 DEF d, m, n
<1>11. \A y \in Ctx, j \in Blocks : file'.map[y][j] = IF y = x /\ j = i THEN file.last ELSE file.map[y][j]
  BY <1>4, <1>7
<1>12. \A y \in Ctx \ {x} : file'.map[y] = file.map[y]
  BY <1>5, <1>7
<1> QED BY <1>7, <1>8, <1>9, <1>10, <1>11, <1>12

\* ... and when all are thrown away.
LEMMA FlushedIs ==
    ASSUME FileTyped, Numbered
    PROVE  LET f == FlushedFile IN
           /\ f.last = 0 /\ f.off = 0 /\ f.map = NoMap /\ f.savedBad /\ f.disk = file.disk
           /\ f.open = file.open /\ f.shared = file.shared /\ f.saved = file.saved
           /\ file' = f => FileTyped' /\ Numbered'
<1> DEFINE f == FlushedFile
<1>1. /\ f.last = 0 /\ f.off = 0 /\ f.map = NoMap /\ f.savedBad /\ f.disk = file.disk
      /\ f.open = file.open /\ f.shared = file.shared /\ f.saved = file.saved
  BY DEF FlushedFile, FileTyped, File
<1>2. ASSUME file' = f PROVE FileTyped' /\ Numbered'
  <2>1. FileTyped'
    <3>1. f \in File
      BY NoFills DEF FlushedFile, FileTyped, File
    <3>2. f.last <= Len(f.disk)
      BY <1>1 DEF FileTyped, File
    <3> HIDE DEF f
    <3> QED BY <1>2, <3>1, <3>2 DEF FileTyped, File
  <2>2. Numbered'
    <3> HIDE DEF f
    <3> QED BY <1>1, <1>2, NoFills DEF Numbered
  <2> QED BY <2>1, <2>2
<1> QED BY <1>1, <1>2, Zenon

\* The contexts then: what they keep, and what they lose.
Kept(k, l) ==
    /\ k.state = l.state /\ k.read = l.read /\ k.at = l.at /\ k.conn = l.conn /\ k.inner = l.inner
    /\ k.end = l.end /\ k.err = l.err /\ k.noCache = l.noCache /\ k.seekRequest = l.seekRequest
    /\ k.seekDone = l.seekDone /\ k.seekPos = l.seekPos /\ k.abort = l.abort /\ k.running = l.running

LEMMA FlushedContexts ==
    ASSUME c \in [Ctx -> Context], NEW x \in Ctx
    PROVE  /\ LET k == Flushed(x, x) IN
              /\ k \in Context /\ Kept(k, c[x])
              /\ k.phys = 0 /\ ~k.eof /\ k.fill = c[x].read /\ k.freed = c[x].freed
           /\ \A y \in Ctx \ {x} : LET k == Flushed(x, y) IN
              /\ k \in Context /\ Kept(k, c[y])
              /\ k.phys = c[y].phys /\ k.eof = c[y].eof /\ k.fill = c[y].fill /\ k.freed = (c[y].state # "closed")
<1>1. ASSUME NEW l \in Context
      PROVE  LET k == [l EXCEPT !.phys = 0, !.eof = FALSE, !.fill = l.read] IN
             /\ k \in Context /\ Kept(k, l) /\ k.phys = 0 /\ ~k.eof /\ k.fill = l.read /\ k.freed = l.freed
  <2> DEFINE n == l.read
             k == [l EXCEPT !.phys = 0, !.eof = FALSE, !.fill = n]
  <2>1. n \in 0 .. FileSize
    BY DEF Context
  <2> HIDE DEF n
  <2>2. k \in Context /\ k.phys = 0 /\ ~k.eof /\ k.fill = n /\ k.freed = l.freed
    BY <2>1 DEF Context
  <2>3. Kept(k, l)
    BY DEF Context, Kept
  <2> QED BY <2>2, <2>3 DEF n
<1>2. ASSUME NEW l \in Context, NEW b \in BOOLEAN
      PROVE  LET k == [l EXCEPT !.freed = b] IN
             /\ k \in Context /\ Kept(k, l) /\ k.phys = l.phys /\ k.eof = l.eof /\ k.fill = l.fill /\ k.freed = b
  BY DEF Context, Kept
<1>3. Flushed(x, x) = [c[x] EXCEPT !.phys = 0, !.eof = FALSE, !.fill = c[x].read]
  BY DEF Flushed
<1>4. \A y \in Ctx \ {x} : Flushed(x, y) = [c[y] EXCEPT !.freed = c[y].state # "closed"]
  BY DEF Flushed
<1>5. ASSUME NEW y \in Ctx \ {x}
      PROVE  LET k == Flushed(x, y) IN
             /\ k \in Context /\ Kept(k, c[y])
             /\ k.phys = c[y].phys /\ k.eof = c[y].eof /\ k.fill = c[y].fill /\ k.freed = (c[y].state # "closed")
  <2> DEFINE b == c[y].state # "closed"
  <2>1. b \in BOOLEAN /\ c[y] \in Context
    OBVIOUS
  <2> HIDE DEF b
  <2>2. Flushed(x, y) = [c[y] EXCEPT !.freed = b]
    BY <1>4 DEF b
  <2> QED BY <1>2, <2>1, <2>2 DEF b
<1>6. LET k == Flushed(x, x) IN
      k \in Context /\ Kept(k, c[x]) /\ k.phys = 0 /\ ~k.eof /\ k.fill = c[x].read /\ k.freed = c[x].freed
  <2>1. c[x] \in Context
    OBVIOUS
  <2> QED BY <1>1, <1>3, <2>1
<1> QED BY <1>5, <1>6, Zenon

LEMMA ShapeAdd ==
    ASSUME Shape, env \in Env, NEW x \in Ctx, TaskAdd(x)
    PROVE  Shape'
<1>1. /\ task[x] = "add" /\ forwards' = forwards /\ io' = io /\ c[x] \in Context
      /\ Control(x) /\ Window(x) /\ FileTyped /\ Numbered /\ IoTyped /\ Thread
  BY DEF Shape, Typed, TaskAdd
<1>2. c[x].state = "started" /\ forwards > 0 /\ ~c[x].noCache /\ (c[x].seekRequest => ~c[x].seekDone)
  BY <1>1 DEF Control
<1>3. c[x].fill \in Blocks /\ file.map[x][c[x].fill] = None
  BY <1>1 DEF Control
<1>4. file.open
  BY <1>1, <1>2 DEF Thread
<1>5. CASE Room
  <2> DEFINE n == file.last + 1
             m == c[x].fill + 1
             k == [c[x] EXCEPT !.phys = n, !.fill = m]
  <2>1. c' = [c EXCEPT ![x] = k] /\ task' = [task EXCEPT ![x] = "tell"] /\ env' = env
    BY <1>1, <1>5 DEF TaskAdd, Shape, Typed
  <2>2. <<x, c[x].conn - 1>> \in Data
    BY <1>1 DEF Data, Context
  <2>3. file' = [file EXCEPT !.last = @ + 1, !.disk = Written(@, file.last, <<x, c[x].conn - 1>>),
                             !.map[x][c[x].fill] = file.last]
    BY <1>5 DEF TaskAdd
  <2>4. /\ FileTyped' /\ Numbered' /\ file'.open = file.open
        /\ \A j \in Blocks : file'.map[x][j] = IF j = c[x].fill THEN file.last ELSE file.map[x][j]
        /\ \A y \in Ctx \ {x} : file'.map[y] = file.map[y]
    <3> DEFINE b == <<x, c[x].conn - 1>>
               i == c[x].fill
    <3> HIDE DEF b, i
    <3>1. file' = [file EXCEPT !.last = @ + 1, !.disk = Written(@, file.last, b), !.map[x][i] = file.last]
      BY <2>3 DEF b, i
    <3>2. i \in Blocks /\ file.map[x][i] = None /\ b \in Data
      BY <1>3, <2>2 DEF b, i
    <3>3. /\ FileTyped' /\ Numbered' /\ file'.open = file.open
          /\ \A y \in Ctx, j \in Blocks : file'.map[y][j] = IF y = x /\ j = i THEN file.last ELSE file.map[y][j]
          /\ \A y \in Ctx \ {x} : file'.map[y] = file.map[y]
      BY <1>1, <1>4, <3>1, <3>2, AddedFile
    <3> QED BY <3>3 DEF i
  <2>5. n \in Nat /\ m \in 0 .. FileSize
    BY <1>1, <1>3, CacheAssumption DEF FileTyped, File, Blocks
  <2> HIDE DEF n
  <2>6. /\ k \in Context /\ k.state = c[x].state /\ k.at = c[x].at /\ k.running = c[x].running
        /\ k.freed = c[x].freed /\ k.noCache = c[x].noCache /\ k.abort = c[x].abort
        /\ k.seekRequest = c[x].seekRequest /\ k.seekDone = c[x].seekDone /\ k.read = c[x].read
        /\ k.fill = c[x].fill + 1
    <3> HIDE DEF m
    <3>1. /\ k \in Context /\ k.state = c[x].state /\ k.at = c[x].at /\ k.running = c[x].running
          /\ k.freed = c[x].freed /\ k.noCache = c[x].noCache /\ k.abort = c[x].abort
          /\ k.seekRequest = c[x].seekRequest /\ k.seekDone = c[x].seekDone /\ k.read = c[x].read /\ k.fill = m
      BY <1>1, <2>5 DEF Context
    <3> QED BY <3>1 DEF m
  <2> HIDE DEF k
  <2>7. ~c[x].freed => \A i \in k.read .. k.fill - 1 : Cached(x, i)'
    <3>1. c[x].read \in Nat /\ c[x].fill \in Nat /\ file.last \in Nat
      BY <1>1 DEF Context, FileTyped, File
    <3>2. ASSUME ~c[x].freed, NEW i \in k.read .. k.fill - 1 PROVE Cached(x, i)'
      <4>1. CASE i = c[x].fill
        BY <1>3, <2>4, <3>1, <4>1 DEF Cached, None
      <4>2. CASE i # c[x].fill
        <5>1. i \in c[x].read .. c[x].fill - 1
          BY <2>6, <3>1, <4>2
        <5>2. Cached(x, i)
          BY <1>1, <1>2, <3>2, <5>1 DEF Window
        <5> QED BY <2>4, <4>2, <5>2 DEF Cached
      <4> QED BY <4>1, <4>2
    <3> QED BY <3>2
  <2> QED BY <1>1, <1>2, <2>1, <2>4, <2>6, <2>7, TaskMoves DEF Stages
<1>6. CASE ~Room /\ file.shared
  <2> DEFINE n == file.last
             k == [c[x] EXCEPT !.phys = n, !.noCache = TRUE]
  <2>1. c' = [c EXCEPT ![x] = k] /\ task' = [task EXCEPT ![x] = "leave"] /\ file' = file
    BY <1>1, <1>6 DEF TaskAdd, Shape, Typed
  <2>2. env'.interrupted = env.interrupted
    BY <1>6 DEF TaskAdd, Env
  <2>3. n \in Nat
    BY <1>1 DEF FileTyped, File
  <2> HIDE DEF n
  <2>4. /\ k \in Context /\ k.state = c[x].state /\ k.at = c[x].at /\ k.running = c[x].running
        /\ k.freed = c[x].freed /\ k.abort = c[x].abort
        /\ k.seekRequest = c[x].seekRequest /\ k.seekDone = c[x].seekDone /\ k.read = c[x].read
        /\ k.fill = c[x].fill
    BY <1>1, <2>3 DEF Context
  <2> HIDE DEF k
  <2>5. FileTyped' /\ Numbered'
    BY <1>1, <2>1 DEF FileTyped, File, Numbered
  <2>6. ~c[x].freed => \A i \in k.read .. k.fill - 1 : Cached(x, i)'
    BY <1>1, <1>2, <2>1, <2>4 DEF Window, Cached
  <2> QED BY <1>1, <1>2, <2>1, <2>2, <2>4, <2>5, <2>6, TaskMoves DEF Stages
<1>7. CASE ~Room /\ ~file.shared
  <2>1. /\ c' = [y \in Ctx |-> Flushed(x, y)] /\ file' = FlushedFile
        /\ task' = [task EXCEPT ![x] = "top"] /\ env' = env
    BY <1>7 DEF TaskAdd
  <2>2. FileTyped' /\ Numbered' /\ file'.open
    BY <1>1, <1>4, <2>1, FlushedIs
  <2>3. c \in [Ctx -> Context] /\ task \in [Ctx -> Stages]
    BY DEF Shape, Typed
  <2>4. \A y \in Ctx : /\ c'[y] \in Context /\ Kept(c'[y], c[y]) /\ (y # x => c'[y].freed = (c[y].state # "closed"))
                       /\ y # x => c'[y].fill = c[y].fill
    BY <2>1, <2>3, FlushedContexts
  <2>5. c'[x].fill = c[x].read /\ c'[x].freed = c[x].freed
    BY <2>1, <2>3, FlushedContexts
  <2>6. IoTyped'
    <3>1. \A y \in Ctx : c'[y].at = c[y].at
      BY <2>4 DEF Kept
    <3> QED BY <1>1, <3>1, WakeMainKeeps
  <2>7. Typed'
    <3>1. task' \in [Ctx -> Stages]
      BY <2>1, <2>3 DEF Stages
    <3>2. c' \in [Ctx -> Context]
      BY <2>1, <2>4
    <3> QED BY <1>1, <2>2, <2>6, <3>1, <3>2 DEF Shape, Typed
  <2>8. Alone'
    BY <2>4 DEF Shape, Alone, Kept
  <2>9. Thread'
    <3>1. ~(io.op = "open" /\ io.x = x)
      BY <1>1, <1>2 DEF Thread
    <3>2. io.op \in {"read", "seek"} => io.x = x
      BY <1>1, <1>2 DEF Thread, Shape, Alone, IoTyped, Caller
    <3>3. /\ Stops' = Stops /\ (Stops => io.y \in Ctx) /\ (io.op # "none" => io.x \in Ctx) /\ io.todo \subseteq Ctx
      BY <1>1 DEF Stops, IoTyped, Caller
    <3>4. \A y \in Ctx : c'[y].state = c[y].state /\ c'[y].running = c[y].running
      BY <2>4 DEF Kept
    <3> QED BY <1>1, <2>2, <2>5, <3>1, <3>2, <3>3, <3>4 DEF Thread
  <2>10. ASSUME NEW y \in Ctx PROVE Control(y)' /\ Window(y)' /\ Offset(y)'
    <3>1. Control(y) /\ Window(y)
      BY DEF Shape
    <3>2. task'[x] = "top" /\ (y # x => task'[y] = task[y])
      BY <2>1, <2>3
    <3>3. Stops' = Stops /\ io' = io /\ env' = env /\ (Turns("seek", y)' = Turns("seek", y))
      BY <1>1, <2>1 DEF Stops, Turns
    <3>4. y # x => task[y] = "none"
      BY <1>2, <3>1 DEF Control, Shape, Alone
    <3>5. Control(y)'
      <4>1. CASE y = x
        BY <1>1, <1>2, <2>4, <3>2, <3>3, <4>1 DEF Control, Kept
      <4>2. CASE y # x
        BY <1>1, <2>4, <3>1, <3>2, <3>3, <3>4, <4>2 DEF Control, Kept
      <4> QED BY <4>1, <4>2
    <3>6. Window(y)'
      <4>1. CASE y = x
        <5>1. c'[x].read = c[x].read /\ c[x].read \in Nat
          BY <1>1, <2>4 DEF Kept, Context
        <5>2. \A i \in c'[x].read .. c'[x].fill - 1 : FALSE
          BY <2>5, <5>1
        <5> QED BY <4>1, <5>2 DEF Window
      <4>2. CASE y # x
        BY <2>4, <4>2 DEF Window, Kept
      <4> QED BY <4>1, <4>2
    <3>7. Offset(y)'
      BY <1>1, <1>2 DEF Offset, Shape, Typed
    <3> QED BY <3>5, <3>6, <3>7
  <2> QED BY <2>7, <2>2, <2>8, <2>9, <2>10 DEF Shape
<1> QED BY <1>5, <1>6, <1>7

LEMMA ShapeLeave ==
    ASSUME Shape, NEW x \in Ctx, TaskLeave(x)
    PROVE  Shape'
<1>1. /\ task[x] = "leave" /\ forwards' = forwards /\ file' = file /\ env' = env /\ c[x] \in Context
      /\ c \in [Ctx -> Context] /\ Control(x) /\ Window(x) /\ FileTyped /\ Numbered /\ IoTyped /\ Thread
  BY DEF Shape, Typed, TaskLeave
<1>2. c[x].state = "started" /\ forwards > 0 /\ c[x].running
  BY <1>1 DEF Control
<1> DEFINE k == [c[x] EXCEPT !.running = FALSE]
<1>3. c' = [c EXCEPT ![x] = k] /\ task' = [task EXCEPT ![x] = "none"]
  BY <1>1 DEF TaskLeave
<1>4. /\ k \in Context /\ Kept([k EXCEPT !.running = TRUE], c[x]) /\ k.freed = c[x].freed /\ k.fill = c[x].fill
      /\ k.state = c[x].state /\ k.at = c[x].at /\ k.noCache = c[x].noCache /\ k.abort = c[x].abort
      /\ k.seekRequest = c[x].seekRequest /\ k.seekDone = c[x].seekDone /\ k.read = c[x].read /\ ~k.running
  BY <1>1, <1>2 DEF Context, Kept
<1> HIDE DEF k
<1>5. c'[x] = k /\ \A y \in Ctx \ {x} : c'[y] = c[y]
  BY <1>1, <1>3
<1>6. /\ \A y \in Ctx : c'[y].at = c[y].at /\ c'[y].state = c[y].state /\ c'[y].freed = c[y].freed
                        /\ (c'[y].running => c[y].running)
  BY <1>2, <1>4, <1>5
<1>7. /\ IoTyped' /\ Stops' = Stops /\ \A op, y : Turns(op, y)' = Turns(op, y)
      /\ io'.op = io.op /\ io'.x = io.x /\ io'.y = io.y /\ io'.todo = io.todo
      /\ Stops /\ io'.at = "stopped" => io.at = "stopped" \/ io.y = x
  <2>1. CASE io.at = "exitwait" /\ io.y = x
    <3>1. io' = [io EXCEPT !.at = "stopped"]
      BY <2>1 DEF TaskLeave
    <3>2. /\ io'.op = io.op /\ io'.x = io.x /\ io'.y = io.y /\ io'.todo = io.todo /\ io'.from = io.from
          /\ io'.data = io.data /\ io'.want = io.want /\ io'.ret = io.ret /\ io'.at = "stopped"
      BY <1>1, <3>1 DEF IoTyped, Caller
    <3>3. io.op \in {"open", "close"} /\ Stops /\ Stops'
      BY <1>1, <2>1, <3>2 DEF IoTyped, Caller, Stops
    <3>4. IoTyped'
      BY <1>1, <3>1, <3>2, <3>3 DEF IoTyped, Caller, Stops
    <3>5. \A op, y : Turns(op, y)' = Turns(op, y)
      BY <2>1, <3>2 DEF Turns
    <3> QED BY <2>1, <3>2, <3>3, <3>4, <3>5
  <2>2. CASE ~(io.at = "exitwait" /\ io.y = x)
    <3>1. io' = WakeMain(x)
      BY <2>2 DEF TaskLeave
    <3>2. /\ IoTyped' /\ Stops' = Stops /\ \A op, y : Turns(op, y)' = Turns(op, y)
          /\ io'.op = io.op /\ io'.x = io.x /\ io'.y = io.y /\ io'.todo = io.todo
          /\ io'.at = io.at \/ (io.at = "mainwait" /\ io'.at = "run")
      BY <1>1, <1>6, <3>1, WakeMainKeeps
    <3> QED BY <3>2
  <2> QED BY <2>1, <2>2
<1>8. Thread'
  <2>1. /\ (Stops => io.y \in Ctx) /\ (io.op # "none" => io.x \in Ctx) /\ io.todo \subseteq Ctx
    BY <1>1 DEF IoTyped, Caller
  <2>2. Stops' /\ io'.at = "stopped" => ~c'[io'.y].running
    BY <1>1, <1>4, <1>5, <1>6, <1>7, <2>1 DEF Thread
  <2> QED BY <1>1, <1>6, <1>7, <2>1, <2>2 DEF Thread
<1>9. task'[x] = "none"
  BY <1>3 DEF Shape, Typed
<1>10. Control(x)'
  BY <1>1, <1>2, <1>4, <1>5, <1>7, <1>9 DEF Control
<1>11. Window(x)' /\ Offset(x)'
  <2>1. Window(x)'
    BY <1>1, <1>4, <1>5 DEF Window, Cached
  <2>2. Offset(x)'
    BY <1>1, <1>2 DEF Offset, Shape, Typed
  <2> QED BY <2>1, <2>2
<1>12. FileTyped' /\ Numbered'
  BY <1>1 DEF FileTyped, File, Numbered
<1>13. \A y \in Ctx \ {x} : c[y].state # "started"
  BY <1>2 DEF Shape, Alone
<1> QED BY <1>1, <1>3, <1>4, <1>7, <1>8, <1>10, <1>11, <1>12, <1>13, Moves DEF Stages, Elsewhere

\* The demuxer's thread when a call has returned.
Answer(x, r, f, d) == [Idle EXCEPT !.x = x, !.ret = r, !.from = f, !.data = d]

LEMMA IdleIs ==
    /\ Idle \in Caller /\ Idle.op = "none" /\ Idle.at = "idle" /\ Idle.x = None /\ Idle.y = None /\ Idle.todo = {}
    /\ Idle.want = 0 /\ Idle.ret = 0 /\ Idle.from = 0 /\ Idle.data = <<>>
  BY DEF Idle, Caller

LEMMA IdleTyped ==
    ASSUME NEW x \in Ctx \cup {None}, NEW r \in Int, NEW f \in Nat, NEW d \in Seq(Data),
           io' = Answer(x, r, f, d)
    PROVE  /\ IoTyped' /\ ~Stops' /\ \A op, y : op # "none" => ~Turns(op, y)'
           /\ io'.op = "none" /\ io'.at = "idle" /\ io'.x = x /\ io'.ret = r /\ io'.from = f /\ io'.data = d
<1>1. /\ io' \in Caller /\ io'.op = "none" /\ io'.at = "idle" /\ io'.x = x /\ io'.ret = r /\ io'.from = f
      /\ io'.data = d
  BY IdleIs DEF Answer, Caller
<1>2. IoTyped' /\ ~Stops'
  BY <1>1 DEF IoTyped, Caller, Stops
<1>3. \A op, y : op # "none" => ~Turns(op, y)'
  BY <1>1 DEF Turns
<1> QED BY <1>1, <1>2, <1>3

LEMMA ReturnsTyped ==
    ASSUME NEW x \in Ctx \cup {None}, io.x = x, NEW r \in Int, Returns(r)
    PROVE  /\ IoTyped' /\ ~Stops' /\ \A op, y : op # "none" => ~Turns(op, y)'
           /\ io'.op = "none" /\ io'.at = "idle" /\ io'.x = x /\ io'.ret = r /\ io'.from = 0 /\ io'.data = <<>>
<1>1. /\ io' \in Caller /\ io'.op = "none" /\ io'.at = "idle" /\ io'.x = x /\ io'.ret = r /\ io'.from = 0
      /\ io'.data = <<>>
  BY IdleIs DEF Returns, Caller
<1>2. IoTyped' /\ ~Stops'
  BY <1>1 DEF IoTyped, Caller, Stops
<1>3. \A op, y : op # "none" => ~Turns(op, y)'
  BY <1>1 DEF Turns
<1> QED BY <1>1, <1>2, <1>3

\* A step of a read or a seek of x.
LEMMA DemuxMoves ==
    ASSUME Shape, NEW x \in Ctx, io.op \in {"read", "seek"}, io.x = x, NEW k \in Context,
           c' = [c EXCEPT ![x] = k], task' \in {task, WakeTask(x)}, forwards' = forwards,
           env'.interrupted = env.interrupted, IoTyped', io'.op \in {"none", io.op}, io'.x = x,
           FileTyped', Numbered', file'.open = file.open, forwards = 0 \/ file'.map = file.map,
           \A y \in Ctx \ {x} : file'.map[y] = file.map[y],
           k.state = c[x].state, k.running = c[x].running, k.freed = c[x].freed, k.noCache = c[x].noCache,
           k.fill = c[x].fill, k.abort => c[x].abort \/ env.interrupted,
           k.seekRequest => ~k.seekDone /\ (env.interrupted \/ Turns("seek", x)'),
           forwards > 0 /\ ~c[x].freed => \A i \in k.read .. k.fill - 1 : Cached(x, i)',
           forwards = 0 => k.phys = file'.off
    PROVE  Shape'
<1>1. /\ c[x].state = "started" /\ ~c[x].freed /\ Control(x) /\ task[x] \in Stages /\ c[x] \in Context
      /\ Thread /\ IoTyped /\ c \in [Ctx -> Context] /\ task \in [Ctx -> Stages] /\ forwards \in Nat
  BY DEF Shape, Typed, Thread
<1>2. ~Stops /\ ~Stops'
  BY <1>1 DEF Stops, IoTyped, Caller
<1>3. PICK s \in Stages : task' = [task EXCEPT ![x] = s] /\ (s = task[x] \/ (task[x] = "asleep" /\ s = "top"))
  <2>1. CASE task' = task
    BY <1>1, <2>1
  <2>2. CASE task' # task
    BY <1>1, <2>2 DEF WakeTask, Stages
  <2> QED BY <2>1, <2>2
<1>4. c'[x] = k /\ task'[x] = s /\ \A y \in Ctx : c'[y].state = c[y].state
  BY <1>1, <1>3
<1>5. Thread'
  <2>1. io'.op # "open" /\ io'.op # "close"
    BY <1>1
  <2>2. file.open
    BY <1>1 DEF Thread
  <2> QED BY <1>1, <1>2, <1>4, <2>1, <2>2 DEF Thread
<1>6. Control(x)'
  BY <1>1, <1>2, <1>3, <1>4 DEF Control
<1>7. Window(x)' /\ Offset(x)'
  BY <1>1, <1>4 DEF Window, Offset
<1>8. \A y \in Ctx \ {x} : c[y].state # "started"
  BY <1>1 DEF Shape, Alone
<1>9. \A y \in Ctx \ {x} : ~Turns("seek", y)
  BY DEF Turns
<1> QED BY <1>2, <1>3, <1>5, <1>6, <1>7, <1>8, <1>9, Moves DEF Elsewhere

\* Of an open context that is used: nothing told it to leave but an interrupt.
LEMMA UsedContext ==
    ASSUME Shape, io.op \in {"read", "seek"}
    PROVE  /\ io.x \in Ctx /\ c[io.x] \in Context /\ c[io.x].state = "started" /\ ~c[io.x].freed
           /\ c[io.x].abort => env.interrupted
           /\ c[io.x].seekRequest => ~c[io.x].seekDone /\ (env.interrupted \/ Turns("seek", io.x))
           /\ c[io.x].noCache => forwards > 0
           /\ forwards \in Nat /\ file.open /\ FileTyped /\ Numbered /\ IoTyped /\ c \in [Ctx -> Context]
           /\ forwards > 0 => \A i \in c[io.x].read .. c[io.x].fill - 1 : Cached(io.x, i)
           /\ forwards = 0 => c[io.x].phys = file.off
           /\ ~Stops /\ task \in [Ctx -> Stages]
<1>1. IoTyped /\ Thread /\ FileTyped /\ Numbered /\ forwards \in Nat /\ c \in [Ctx -> Context] /\ task \in [Ctx -> Stages]
  BY DEF Shape, Typed
<1>2. io.x \in Ctx /\ ~Stops
  BY <1>1 DEF IoTyped, Caller, Stops
<1>3. Control(io.x) /\ Window(io.x) /\ Offset(io.x)
  BY <1>2 DEF Shape
<1>4. c[io.x].state = "started" /\ ~c[io.x].freed /\ file.open
  BY <1>1, <1>2 DEF Thread
<1> QED BY <1>1, <1>2, <1>3, <1>4 DEF Control, Window, Offset

LEMMA ShapeSeekTurn ==
    ASSUME Shape, SeekTurn
    PROVE  Shape'
<1>1. /\ io.op = "seek" /\ io.at = "run" /\ forwards' = forwards /\ file' = file /\ env' = env
  BY DEF SeekTurn
<1>0. PICK x \in Ctx : x = io.x
  BY <1>1, UsedContext
<1>2. /\ x = io.x /\ c[x] \in Context /\ c[x].state = "started" /\ ~c[x].freed
      /\ c[x].abort => env.interrupted
      /\ c[x].seekRequest => ~c[x].seekDone /\ (env.interrupted \/ Turns("seek", x))
      /\ file.open /\ FileTyped /\ Numbered /\ IoTyped /\ c \in [Ctx -> Context]
      /\ forwards > 0 => \A i \in c[x].read .. c[x].fill - 1 : Cached(x, i)
      /\ forwards = 0 => c[x].phys = file.off
  BY <1>0, <1>1, UsedContext
<1>3. FileTyped' /\ Numbered'
  BY <1>1, <1>2 DEF FileTyped, File, Numbered
<1>4. forwards > 0 => \A i \in c[x].read .. c[x].fill - 1 : Cached(x, i)'
  BY <1>1, <1>2 DEF Cached
<1>5. CASE Aborted(x)
  <2> DEFINE k == [c[x] EXCEPT !.abort = TRUE]
  <2>1. c' = [c EXCEPT ![x] = k] /\ task' = task /\ Returns(Exit)
    BY <1>2, <1>5 DEF SeekTurn
  <2>2. env.interrupted
    BY <1>2, <1>5 DEF Aborted
  <2>3. k \in Context /\ Kept([k EXCEPT !.abort = c[x].abort], c[x]) /\ k.freed = c[x].freed /\ k.fill = c[x].fill
        /\ k.state = c[x].state /\ k.running = c[x].running /\ k.noCache = c[x].noCache /\ k.read = c[x].read
        /\ k.seekRequest = c[x].seekRequest /\ k.seekDone = c[x].seekDone /\ k.phys = c[x].phys
    BY <1>2 DEF Context, Kept
  <2> HIDE DEF k
  <2>4. IoTyped' /\ io'.op = "none" /\ io'.x = x
    BY <1>2, <2>1, ReturnsTyped DEF Exit
  <2> QED BY <1>1, <1>2, <1>3, <1>4, <2>1, <2>2, <2>3, <2>4, DemuxMoves
<1>6. CASE ~Aborted(x) /\ c[x].seekDone
  <2> DEFINE p == c[x].seekPos
             k == [c[x] EXCEPT !.at = p]
  <2>1. c' = [c EXCEPT ![x] = k] /\ task' = task /\ Returns(c[x].seekPos)
    BY <1>2, <1>6 DEF SeekTurn
  <2>2. p \in Nat
    BY <1>2, CacheAssumption DEF Context
  <2> HIDE DEF p
  <2>3. k \in Context /\ k.freed = c[x].freed /\ k.fill = c[x].fill /\ k.abort = c[x].abort
        /\ k.state = c[x].state /\ k.running = c[x].running /\ k.noCache = c[x].noCache /\ k.read = c[x].read
        /\ k.seekRequest = c[x].seekRequest /\ k.seekDone = c[x].seekDone /\ k.phys = c[x].phys
    BY <1>2, <2>2 DEF Context
  <2> HIDE DEF k
  <2>4. IoTyped' /\ io'.op = "none" /\ io'.x = x
    BY <1>2, <2>1, <2>2, ReturnsTyped DEF p
  <2> QED BY <1>1, <1>2, <1>3, <1>4, <1>6, <2>1, <2>3, <2>4, DemuxMoves
<1>7. CASE ~Aborted(x) /\ ~c[x].seekDone
  <2>1. c' = [c EXCEPT ![x] = c[x]] /\ task' = WakeTask(x) /\ Wait
    BY <1>2, <1>7 DEF SeekTurn
  <2>2. c' = c /\ io' = [io EXCEPT !.at = "mainwait"]
    BY <1>2, <2>1 DEF Wait
  <2>3. IoTyped' /\ io'.op = io.op /\ io'.x = x /\ (Turns("seek", x) => Turns("seek", x)')
    <3>1. /\ io'.op = io.op /\ io'.x = io.x /\ io'.y = io.y /\ io'.todo = io.todo /\ io'.from = io.from
          /\ io'.data = io.data /\ io'.want = io.want /\ io'.ret = io.ret /\ io'.at = "mainwait"
      BY <1>2, <2>2 DEF IoTyped, Caller
    <3>2. IoTyped'
      BY <1>1, <1>2, <2>2, <3>1 DEF IoTyped, Caller, Stops
    <3> QED BY <1>2, <3>1, <3>2 DEF Turns
  <2> QED BY <1>1, <1>2, <1>3, <1>4, <1>7, <2>1, <2>3, DemuxMoves
<1> QED BY <1>5, <1>6, <1>7

\* The thread stays in its call.
LEMMA WaitTyped ==
    ASSUME IoTyped, NEW x \in Ctx, io.op \in {"read", "seek"}, io.x = x, NEW a \in {"run", "mainwait"},
           NEW d \in Seq(Data), io' = [io EXCEPT !.at = a, !.data = d], io.op = "read" => Len(d) < io.want
    PROVE  /\ IoTyped' /\ ~Stops' /\ io'.op = io.op /\ io'.x = x /\ io'.from = io.from /\ io'.data = d
           /\ io'.want = io.want /\ io'.ret = io.ret /\ io'.at = a
           /\ Turns(io.op, x)' /\ \A op, y : Turns(op, y)' => op = io.op /\ y = x
<1>1. /\ io' \in Caller /\ io'.op = io.op /\ io'.x = x /\ io'.from = io.from /\ io'.data = d
      /\ io'.want = io.want /\ io'.ret = io.ret /\ io'.at = a
  BY DEF IoTyped, Caller
<1>2. IoTyped' /\ ~Stops'
  BY <1>1 DEF IoTyped, Stops
<1> QED BY <1>1, <1>2 DEF Turns

LEMMA WaitsTyped ==
    ASSUME IoTyped, NEW x \in Ctx, io.op \in {"read", "seek"}, io.x = x, NEW a \in {"run", "mainwait"},
           io' = [io EXCEPT !.at = a]
    PROVE  /\ IoTyped' /\ ~Stops' /\ io'.op = io.op /\ io'.x = x /\ io'.from = io.from /\ io'.data = io.data
           /\ io'.want = io.want /\ io'.ret = io.ret /\ io'.at = a
           /\ Turns(io.op, x)' /\ \A op, y : Turns(op, y)' => op = io.op /\ y = x
<1>1. io' = [io EXCEPT !.at = a, !.data = io.data] /\ io.data \in Seq(Data)
  BY DEF IoTyped, Caller
<1>2. io.op = "read" => Len(io.data) < io.want
  BY DEF IoTyped
<1> QED BY <1>1, <1>2, WaitTyped

\* A run of blocks in the cache file.
Run(x, i, k, p) == \A j \in 1 .. k : file.map[x][i + j - 1] = p + j - 1 /\ Cached(x, i + j - 1)

LEMMA RunRead ==
    ASSUME FileTyped, Numbered, file.open, NEW x \in Ctx, NEW i \in Nat, NEW k \in Nat \ {0}, NEW p \in Nat,
           Run(x, i, k, p)
    PROVE  /\ p + k <= Len(file.disk)
           /\ SubSeq(file.disk, p + 1, p + k) \in Seq(Data) /\ Len(SubSeq(file.disk, p + 1, p + k)) = k
           /\ \A j \in 1 .. k : SubSeq(file.disk, p + 1, p + k)[j] = file.disk[p + j]
<1>1. /\ file.last \in Nat /\ file.last <= Len(file.disk) /\ file.disk \in Seq(Data) /\ Len(file.disk) \in Nat
  <2>1. file.disk \in Seq(Data)
    BY DEF FileTyped, File
  <2>2. Len(file.disk) \in Nat
    BY <2>1
  <2> QED BY <2>1, <2>2 DEF FileTyped, File
<1>2. p + k <= file.last
  <2> DEFINE h == i + k - 1
             q == <<x, h>>
  <2>1. file.map[x][h] = p + k - 1 /\ Cached(x, h)
    BY DEF Run
  <2> HIDE DEF h
  <2>2. q \in Entries(file.map) /\ q[1] = x /\ q[2] = h
    BY <2>1 DEF Cached, Entries
  <2> HIDE DEF q
  <2>3. file.map[x][h] \in 0 .. file.last - 1
    BY <2>2 DEF Numbered, Fills
  <2> QED BY <1>1, <2>1, <2>3
<1> DEFINE a == p + 1
           b == p + k
           s == SubSeq(file.disk, a, b)
<1>3. \A j \in a .. b : file.disk[j] \in Data
  <2> SUFFICES ASSUME NEW j \in a .. b PROVE file.disk[j] \in Data
    OBVIOUS
  <2>1. j \in 1 .. Len(file.disk)
    BY <1>1, <1>2
  <2> QED BY <1>1, <2>1
<1>4. a \in Int /\ b \in Int /\ a <= b /\ (b - a) + 1 = k /\ \A j \in 1 .. k : (a + j) - 1 = p + j
  OBVIOUS
<1>5. s = SubSeq(file.disk, a, b)
  OBVIOUS
<1> HIDE DEF s, a, b
<1>6. /\ s \in Seq(Data)
      /\ Len(s) = IF a <= b THEN (b - a) + 1 ELSE 0
      /\ \A j \in 1 .. (b - a) + 1 : s[j] = file.disk[(a + j) - 1]
  BY <1>3, <1>4, <1>5, SubSeqProperties
<1>7. \A j \in 1 .. k : s[j] = file.disk[p + j]
  BY <1>4, <1>6
<1>8. s \in Seq(Data) /\ Len(s) = k
  BY <1>4, <1>6
<1>9. p + k <= Len(file.disk)
  BY <1>1, <1>2
<1> QED BY <1>7, <1>8, <1>9 DEF s, a, b

\* Up to n blocks read from the cache file are those the entry leads to.
ReadsRun(x, i, n, k, p) ==
    /\ i \in Blocks /\ k \in 1 .. n /\ i + k <= FileSize /\ p \in Nat /\ p + k <= Len(file.disk)
    /\ SubSeq(file.disk, p + 1, p + k) \in Seq(Data) /\ Len(SubSeq(file.disk, p + 1, p + k)) = k
    /\ \A j \in 1 .. k : /\ SubSeq(file.disk, p + 1, p + k)[j] = file.disk[p + j]
                         /\ file.map[x][i + j - 1] = p + j - 1 /\ Cached(x, i + j - 1)

LEMMA BlocksRead ==
    ASSUME FileTyped, Numbered, file.open, NEW x \in Ctx, NEW i, Cached(x, i), NEW n \in Nat \ {0},
           NEW k, k = IF n < EntryEnd(x, i) - i THEN n ELSE EntryEnd(x, i) - i,
           NEW p, p = file.map[x][i]
    PROVE  ReadsRun(x, i, n, k, p)
<1> DEFINE e == EntryEnd(x, i)
<1>1. i \in Blocks /\ file.map[x][i] # None
  BY DEF Cached
<1>2. /\ e \in i + 1 .. FileSize
      /\ \A j \in i .. e - 1 : file.map[x][j] = file.map[x][i] + (j - i) /\ Cached(x, j)
  BY <1>1, EntryEndIs
<1>3. k = (IF n < e - i THEN n ELSE e - i)
  OBVIOUS
<1> HIDE DEF e
<1>4. i \in Nat /\ FileSize \in Nat
  BY <1>1, CacheAssumption DEF Blocks
<1>5. k \in 1 .. n /\ i + k <= e /\ i + k <= FileSize /\ k \in Nat \ {0}
  BY <1>2, <1>3, <1>4
<1>6. p \in Nat
  BY <1>1 DEF FileTyped, File, Trees, None
<1>7. ASSUME NEW j \in 1 .. k
      PROVE  file.map[x][i + j - 1] = p + j - 1 /\ Cached(x, i + j - 1)
  <2> DEFINE h == i + j - 1
  <2>1. h \in i .. e - 1 /\ h - i = j - 1
    BY <1>2, <1>4, <1>5
  <2> HIDE DEF h
  <2>2. file.map[x][h] = p + (j - 1) /\ Cached(x, h)
    BY <1>2, <2>1
  <2> QED BY <2>2 DEF h
<1>8. /\ p + k <= Len(file.disk)
      /\ SubSeq(file.disk, p + 1, p + k) \in Seq(Data) /\ Len(SubSeq(file.disk, p + 1, p + k)) = k
      /\ \A j \in 1 .. k : SubSeq(file.disk, p + 1, p + k)[j] = file.disk[p + j]
  <2>1. Run(x, i, k, p)
    BY <1>7, Zenon DEF Run
  <2>2. i \in Nat /\ k \in Nat \ {0} /\ p \in Nat
    BY <1>4, <1>5, <1>6
  <2>3. ASSUME NEW m \in Nat \ {0}, NEW q \in Nat, Run(x, i, m, q)
        PROVE  /\ q + m <= Len(file.disk)
               /\ SubSeq(file.disk, q + 1, q + m) \in Seq(Data) /\ Len(SubSeq(file.disk, q + 1, q + m)) = m
               /\ \A j \in 1 .. m : SubSeq(file.disk, q + 1, q + m)[j] = file.disk[q + j]
    BY <2>2, <2>3, RunRead
  <2> QED BY <2>1, <2>2, <2>3
<1> QED BY <1>1, <1>5, <1>6, <1>7, <1>8, Zenon DEF ReadsRun

\* All of a context but where its connection and its reader are.
Stays(k, l) ==
    /\ k.state = l.state /\ k.read = l.read /\ k.fill = l.fill /\ k.inner = l.inner /\ k.end = l.end
    /\ k.phys = l.phys /\ k.eof = l.eof /\ k.err = l.err /\ k.noCache = l.noCache
    /\ k.seekRequest = l.seekRequest /\ k.seekDone = l.seekDone /\ k.seekPos = l.seekPos
    /\ k.abort = l.abort /\ k.running = l.running /\ k.freed = l.freed

LEMMA ConnAndAt ==
    ASSUME NEW k \in Context, NEW n \in 0 .. FileSize, NEW p \in Nat
    PROVE  LET l == [k EXCEPT !.conn = n, !.at = p] IN l \in Context /\ Stays(l, k) /\ l.conn = n /\ l.at = p
  BY DEF Context, Stays

\* A read from the connection itself.
LEMMA DirectIs ==
    ASSUME IoTyped, io.op = "read", c \in [Ctx -> Context], env \in Env, NEW x \in Ctx, io.x = x, NEW k \in Context,
           ReadDirect(x, k)
    PROVE  \E m \in Context :
           /\ c' = [c EXCEPT ![x] = m] /\ Stays(m, k)
           /\ IoTyped' /\ ~Stops' /\ io'.op = "none" /\ io'.x = x /\ \A op, y : op # "none" => ~Turns(op, y)'
           /\ env' \in Env /\ env'.interrupted = env.interrupted /\ env'.staleMap = env.staleMap
           /\ env'.switched = env.switched /\ env'.misled = env.misled /\ (env.failed => env'.failed)
           /\ \/ /\ k.conn < FileSize /\ m.conn = k.conn + 1 /\ m.at = io.from + Len(io.data) + 1
                 /\ io'.from = io.from /\ io'.data = Append(io.data, <<x, k.conn>>) /\ io'.ret \in Nat
                 /\ env'.behind = env.behind
              \/ /\ m.conn = k.conn /\ m.at = k.at /\ io'.data = <<>> /\ (k.conn # FileSize => io'.ret # Eof)
                 /\ env.behind \subseteq env'.behind /\ (io.data # <<>> => x \in env'.behind)
<1>1. /\ io.from \in Nat /\ io.data \in Seq(Data) /\ Len(io.data) \in Nat /\ k.conn \in 0 .. FileSize /\ k.at \in Nat
  <2>1. io.data \in Seq(Data) /\ io.from \in Nat
    BY DEF IoTyped, Caller
  <2>2. Len(io.data) \in Nat
    BY <2>1
  <2> QED BY <2>1, <2>2 DEF Context
<1>2. CASE /\ k.conn < FileSize
           /\ io' = [Idle EXCEPT !.x = x, !.ret = Len(io.data) + 1, !.from = io.from,
                                 !.data = Append(io.data, <<x, k.conn>>)]
           /\ c' = [c EXCEPT ![x] = [k EXCEPT !.conn = @ + 1, !.at = io.from + Len(io.data) + 1]]
           /\ UNCHANGED env
  <2> DEFINE n == k.conn + 1
             p == io.from + Len(io.data) + 1
             r == Len(io.data) + 1
             d == Append(io.data, <<x, k.conn>>)
             m == [k EXCEPT !.conn = n, !.at = p]
  <2>1. c' = [c EXCEPT ![x] = m]
    <3>1. m = [k EXCEPT !.conn = @ + 1, !.at = io.from + Len(io.data) + 1]
      BY Zenon
    <3> QED BY <1>2, <3>1, Zenon
  <2>2. n \in 0 .. FileSize /\ p \in Nat /\ r \in Nat
    BY <1>1, <1>2, CacheAssumption
  <2>3. d \in Seq(Data)
    <3>1. <<x, k.conn>> \in Data
      BY <1>1 DEF Data
    <3> QED BY <1>1, <3>1
  <2>4. io' = Answer(x, r, io.from, d)
    BY <1>2, Zenon DEF Answer
  <2> HIDE DEF n, p, d, r
  <2>5. m \in Context /\ Stays(m, k) /\ m.conn = n /\ m.at = p
    BY <2>2, ConnAndAt
  <2>6. /\ IoTyped' /\ ~Stops' /\ io'.op = "none" /\ io'.x = x /\ \A op, y : op # "none" => ~Turns(op, y)'
        /\ io'.from = io.from /\ io'.data = d /\ io'.ret = r
    <3>1. x \in Ctx \cup {None} /\ r \in Int
      BY <2>2
    <3> QED BY <1>1, <2>3, <2>4, <3>1, IdleTyped
  <2> HIDE DEF m
  <2>7. env' = env
    BY <1>2
  <2>8. /\ k.conn < FileSize /\ m.conn = k.conn + 1 /\ m.at = io.from + Len(io.data) + 1
        /\ io'.from = io.from /\ io'.data = Append(io.data, <<x, k.conn>>) /\ io'.ret \in Nat
    BY <1>2, <2>2, <2>5, <2>6 DEF n, p, d
  <2> QED BY <2>1, <2>5, <2>6, <2>7, <2>8
<1>3. CASE /\ k.conn = FileSize \/ env.troubles > 0
           /\ env' = [IF k.conn = FileSize THEN env ELSE Failed(env) EXCEPT
                             !.behind = IF io.data # <<>> THEN @ \cup {x} ELSE @]
           /\ io' = [Idle EXCEPT !.x = x, !.ret = IF k.conn = FileSize THEN Eof ELSE Eio]
           /\ c' = [c EXCEPT ![x] = k]
  <2> DEFINE e == IF k.conn = FileSize THEN env ELSE Failed(env)
             b == IF io.data # <<>> THEN e.behind \cup {x} ELSE e.behind
             r == IF k.conn = FileSize THEN Eof ELSE Eio
  <2>1. /\ e \in Env /\ e.interrupted = env.interrupted /\ e.staleMap = env.staleMap /\ e.behind = env.behind
        /\ e.switched = env.switched /\ e.misled = env.misled /\ (env.failed => e.failed)
    BY FailedIs
  <2>2. env' = [e EXCEPT !.behind = b]
    BY <1>3, Zenon
  <2>3. r \in Int /\ (k.conn # FileSize => r # Eof)
    BY DEF Eof, Eio
  <2>4. Returns(r)
    BY <1>3, Zenon DEF Returns
  <2> HIDE DEF e, r
  <2>5. b \in SUBSET Ctx /\ env.behind \subseteq b /\ (io.data # <<>> => x \in b)
    BY <2>1 DEF Env
  <2> HIDE DEF b
  <2>6. /\ env' \in Env /\ env'.interrupted = env.interrupted /\ env'.staleMap = env.staleMap /\ env'.behind = b
        /\ env'.switched = env.switched /\ env'.misled = env.misled /\ (env.failed => env'.failed)
    BY <2>1, <2>2, <2>5 DEF Env
  <2>7. /\ IoTyped' /\ ~Stops' /\ io'.op = "none" /\ io'.x = x /\ \A op, y : op # "none" => ~Turns(op, y)'
        /\ io'.data = <<>> /\ io'.ret = r
    BY <2>3, <2>4, ReturnsTyped
  <2>8. Stays(k, k)
    BY DEF Stays
  <2> QED BY <1>3, <2>3, <2>5, <2>6, <2>7, <2>8
<1> QED BY <1>2, <1>3, Zenon DEF ReadDirect

LEMMA ShapeEnterRead ==
    ASSUME Shape, env \in Env, EnterRead
    PROVE  Shape'
<1>1. io.op = "read" /\ io.at = "enter" /\ forwards' = forwards /\ file' = file /\ task' = task
  BY DEF EnterRead
<1>0. PICK x \in Ctx : x = io.x
  BY <1>1, UsedContext
<1>2. /\ x = io.x /\ c[x] \in Context /\ c[x].state = "started" /\ ~c[x].freed
      /\ c[x].abort => env.interrupted
      /\ c[x].seekRequest => ~c[x].seekDone /\ (env.interrupted \/ Turns("seek", x))
      /\ file.open /\ FileTyped /\ Numbered /\ IoTyped /\ c \in [Ctx -> Context]
      /\ forwards > 0 => \A i \in c[x].read .. c[x].fill - 1 : Cached(x, i)
      /\ forwards = 0 => c[x].phys = file.off
  BY <1>0, <1>1, UsedContext
<1>3. FileTyped' /\ Numbered'
  BY <1>1, <1>2 DEF FileTyped, File, Numbered
<1>4. forwards > 0 => \A i \in c[x].read .. c[x].fill - 1 : Cached(x, i)'
  BY <1>1, <1>2 DEF Cached
<1>5. c[x].seekRequest => ~c[x].seekDone /\ env.interrupted
  BY <1>1, <1>2 DEF Turns
<1>6. CASE c[x].noCache
  <2>1. ReadDirect(x, c[x])
    BY <1>2, <1>6 DEF EnterRead
  <2>2. PICK m \in Context :
           /\ c' = [c EXCEPT ![x] = m] /\ Stays(m, c[x])
           /\ IoTyped' /\ io'.op = "none" /\ io'.x = x /\ env'.interrupted = env.interrupted
    BY <1>1, <1>2, <2>1, DirectIs
  <2> QED BY <1>1, <1>2, <1>3, <1>4, <1>5, <2>2, DemuxMoves DEF Stays
<1>7. CASE ~c[x].noCache
  <2>1. io' = [io EXCEPT !.at = "run"] /\ c' = c /\ env' = env
    BY <1>2, <1>7 DEF EnterRead
  <2>2. c' = [c EXCEPT ![x] = c[x]]
    BY <1>2, <2>1
  <2>3. IoTyped' /\ io'.op = io.op /\ io'.x = x
    BY <1>1, <1>2, <2>1, WaitsTyped
  <2> QED BY <1>1, <1>2, <1>3, <1>4, <1>5, <2>1, <2>2, <2>3, DemuxMoves
<1> QED BY <1>6, <1>7

\* A synchronous read of blocks that are cached.
LEMMA SyncCachedIs ==
    ASSUME Shape, SyncReadCached, NEW x \in Ctx, x = io.x
    PROVE  \E k \in 1 .. io.want, m \in Context :
           LET i == c[x].read
               p == file.map[x][i] IN
           /\ Cached(x, i) /\ ReadsRun(x, i, io.want, k, p)
           /\ m = [c[x] EXCEPT !.read = i + k, !.at = io.from + k, !.phys = p + k]
           /\ c' = [c EXCEPT ![x] = m] /\ file' = [file EXCEPT !.off = p + k]
           /\ io' = Answer(x, k, io.from, SubSeq(file.disk, p + 1, p + k))
<1> DEFINE i == c[x].read
           p == file.map[x][i]
           k == IF io.want < EntryEnd(x, i) - i THEN io.want ELSE EntryEnd(x, i) - i
           off == IF c[x].phys # p THEN p ELSE file.off
           d(o) == SubSeq(file.disk, o + 1, o + k)
           m(n, q, r) == [c[x] EXCEPT !.phys = q, !.read = n, !.at = r]
<1>1. io.op = "read" /\ io.at = "enter" /\ forwards = 0
  BY DEF SyncReadCached
<1>2. /\ x = io.x /\ c[x] \in Context /\ c[x].state = "started"
      /\ file.open /\ FileTyped /\ Numbered /\ IoTyped /\ c \in [Ctx -> Context] /\ c[x].phys = file.off
  BY <1>1, UsedContext
<1>3. Cached(x, i)
  BY <1>2, Zenon DEF SyncReadCached
<1>4. off = p
  BY <1>2
<1>5. io.want \in Nat \ {0} /\ io.from \in Nat
  <2>1. Len(io.data) < io.want /\ Len(io.data) \in Nat
    <3>1. io.data \in Seq(Data)
      BY <1>2 DEF IoTyped, Caller
    <3> QED BY <1>1, <1>2, <3>1 DEF IoTyped
  <2> QED BY <1>2, <2>1 DEF IoTyped, Caller
<1>6. /\ file' = [file EXCEPT !.off = off + Len(d(off))]
      /\ c' = [c EXCEPT ![x].phys = p + Len(d(off)), ![x].read = @ + Len(d(off)), ![x].at = io.from + Len(d(off))]
      /\ io' = [Idle EXCEPT !.x = x, !.ret = Len(d(off)), !.from = io.from, !.data = d(off)]
  BY <1>2, Zenon DEF SyncReadCached
<1>7. ReadsRun(x, i, io.want, k, p)
  <2>1. k = IF io.want < EntryEnd(x, i) - i THEN io.want ELSE EntryEnd(x, i) - i
    OBVIOUS
  <2>2. p = file.map[x][i]
    OBVIOUS
  <2> HIDE DEF i, k, p
  <2> QED BY <1>2, <1>3, <1>5, <2>1, <2>2, BlocksRead
<1> HIDE DEF off, k
<1>a. k \in 1 .. io.want /\ i \in Blocks /\ i + k <= FileSize /\ Len(d(p)) = k /\ d(p) \in Seq(Data) /\ p \in Nat
  BY <1>7 DEF ReadsRun
<1> HIDE DEF d, p
<1>8. /\ file' = [file EXCEPT !.off = p + k] /\ io' = Answer(x, k, io.from, d(p))
      /\ c' = [c EXCEPT ![x].phys = p + k, ![x].read = @ + k, ![x].at = io.from + k]
  BY <1>4, <1>6, <1>a DEF Answer
<1>9. c' = [c EXCEPT ![x] = m(i + k, p + k, io.from + k)]
  BY <1>2, <1>8
<1>10. i + k \in 0 .. FileSize /\ p + k \in Nat /\ io.from + k \in Nat
  BY <1>5, <1>a, CacheAssumption DEF Blocks
<1>11. m(i + k, p + k, io.from + k) = [c[x] EXCEPT !.read = i + k, !.at = io.from + k, !.phys = p + k]
  <2> DEFINE n1 == i + k
             n2 == p + k
             n3 == io.from + k
  <2> HIDE DEF n1, n2, n3
  <2>1. m(n1, n2, n3) = [c[x] EXCEPT !.read = n1, !.at = n3, !.phys = n2]
    BY <1>2 DEF Context
  <2> QED BY <2>1 DEF n1, n2, n3
<1>12. m(i + k, p + k, io.from + k) \in Context
  <2> DEFINE n1 == i + k
             n2 == p + k
             n3 == io.from + k
  <2>1. n1 \in 0 .. FileSize /\ n2 \in Nat /\ n3 \in Nat /\ c[x] \in Context
    BY <1>2, <1>10
  <2>2. m(n1, n2, n3) = [c[x] EXCEPT !.read = n1, !.at = n3, !.phys = n2]
    BY <1>11
  <2> HIDE DEF n1, n2, n3, m
  <2>3. m(n1, n2, n3) \in Context
    BY <2>1, <2>2 DEF Context
  <2> QED BY <2>3 DEF n1, n2, n3
<1> HIDE DEF m
<1> QED BY <1>3, <1>7, <1>8, <1>9, <1>11, <1>12, <1>a DEF d, p

LEMMA ShapeSyncCached ==
    ASSUME Shape, SyncReadCached
    PROVE  Shape'
<1>1. io.op = "read" /\ io.at = "enter" /\ forwards = 0 /\ forwards' = forwards /\ task' = task /\ env' = env
  BY DEF SyncReadCached
<1>0. PICK x \in Ctx : x = io.x
  BY <1>1, UsedContext
<1>2. /\ x = io.x /\ c[x] \in Context /\ c[x].state = "started"
      /\ c[x].abort => env.interrupted
      /\ c[x].seekRequest => ~c[x].seekDone /\ (env.interrupted \/ Turns("seek", x))
      /\ FileTyped /\ Numbered /\ IoTyped /\ c \in [Ctx -> Context]
  BY <1>0, <1>1, UsedContext
<1>3. PICK k \in 1 .. io.want, m \in Context :
           LET i == c[x].read
               p == file.map[x][i] IN
           /\ Cached(x, i) /\ ReadsRun(x, i, io.want, k, p)
           /\ m = [c[x] EXCEPT !.read = i + k, !.at = io.from + k, !.phys = p + k]
           /\ c' = [c EXCEPT ![x] = m] /\ file' = [file EXCEPT !.off = p + k]
           /\ io' = Answer(x, k, io.from, SubSeq(file.disk, p + 1, p + k))
  BY <1>2, SyncCachedIs
<1> DEFINE i == c[x].read
           p == file.map[x][i]
           d == SubSeq(file.disk, p + 1, p + k)
           n == p + k
<1>4. /\ c' = [c EXCEPT ![x] = m] /\ file' = [file EXCEPT !.off = n] /\ io' = Answer(x, k, io.from, d)
      /\ m.phys = n /\ m.state = c[x].state /\ m.running = c[x].running /\ m.freed = c[x].freed
      /\ m.noCache = c[x].noCache /\ m.fill = c[x].fill /\ m.abort = c[x].abort
      /\ m.seekRequest = c[x].seekRequest /\ m.seekDone = c[x].seekDone
  <2> DEFINE r == i + k
             a == io.from + k
  <2>1. m = [c[x] EXCEPT !.read = r, !.at = a, !.phys = n]
    BY <1>3
  <2> HIDE DEF r, a, n
  <2>2. /\ m.phys = n /\ m.state = c[x].state /\ m.running = c[x].running /\ m.freed = c[x].freed
        /\ m.noCache = c[x].noCache /\ m.fill = c[x].fill /\ m.abort = c[x].abort
        /\ m.seekRequest = c[x].seekRequest /\ m.seekDone = c[x].seekDone
    BY <1>2, <2>1 DEF Context
  <2>3. /\ c' = [c EXCEPT ![x] = m] /\ file' = [file EXCEPT !.off = n] /\ io' = Answer(x, k, io.from, d)
    BY <1>3, Zenon DEF n
  <2> QED BY <2>2, <2>3
<1>5. d \in Seq(Data) /\ n \in Nat /\ k \in Int
  <2>1. ReadsRun(x, i, io.want, k, p)
    BY <1>3
  <2> HIDE DEF i, p
  <2> QED BY <2>1 DEF ReadsRun
<1> HIDE DEF i, p, d, n
<1>6. FileTyped' /\ Numbered' /\ file'.map = file.map /\ file'.open = file.open /\ file'.off = n
  <2>1. /\ file' \in File /\ file'.map = file.map /\ file'.open = file.open /\ file'.off = n
        /\ file'.last = file.last /\ file'.disk = file.disk /\ file'.saved = file.saved
    BY <1>2, <1>4, <1>5 DEF FileTyped, File
  <2> QED BY <1>2, <2>1 DEF FileTyped, Numbered
<1>7. IoTyped' /\ io'.op = "none" /\ io'.x = x
  <2>1. x \in Ctx \cup {None} /\ io.from \in Nat
    BY <1>2 DEF IoTyped, Caller
  <2> QED BY <1>4, <1>5, <2>1, IdleTyped
<1>8. c[x].seekRequest => ~c[x].seekDone /\ env.interrupted
  BY <1>1, <1>2 DEF Turns
<1>9. forwards = 0 => m.phys = file'.off
  BY <1>4, <1>6
<1>10. /\ env'.interrupted = env.interrupted /\ task' \in {task, WakeTask(x)}
       /\ ~(forwards > 0 /\ ~c[x].freed)
  BY <1>1
<1> QED BY <1>1, <1>2, <1>4, <1>6, <1>7, <1>8, <1>9, <1>10, DemuxMoves

\* A block that a synchronous read adds goes to the end of what is used, or to
\* the beginning of a file emptied for it.
LEMMA AddedIs ==
    ASSUME NEW f \in File, f.last <= Len(f.disk), Fills(f.map, f.last), NEW x \in Ctx, NEW i \in Blocks,
           f.map[x][i] = None, NEW b \in Data,
           file' = [f EXCEPT !.disk = Written(@, f.last, b), !.off = f.last + 1, !.last = @ + 1,
                             !.map[x][i] = f.last]
    PROVE  /\ file' \in File /\ file'.last = f.last + 1 /\ file'.off = f.last + 1
           /\ file'.disk = Written(f.disk, f.last, b) /\ file'.open = f.open
           /\ file'.saved = f.saved /\ file'.savedBad = f.savedBad /\ file'.shared = f.shared
           /\ file'.last <= Len(file'.disk) /\ Fills(file'.map, file'.last)
           /\ \A y \in Ctx, j \in Blocks : file'.map[y][j] = IF y = x /\ j = i THEN f.last ELSE f.map[y][j]
           /\ \A y \in Ctx \ {x} : file'.map[y] = f.map[y]
<1> DEFINE d == Written(f.disk, f.last, b)
           m == [f.map EXCEPT ![x][i] = f.last]
           n == f.last + 1
<1>1. f.last \in Nat /\ f.disk \in Seq(Data) /\ f.map \in Trees /\ f.last <= Len(f.disk)
  BY DEF File
<1>2. d \in Seq(Data) /\ Len(d) >= n /\ n \in Nat
  <2>1. d \in Seq(Data) /\ Len(d) >= f.last + 1
    BY <1>1, WrittenIs
  <2> QED BY <1>1, <2>1
<1>3. m \in Trees /\ Fills(m, n)
  BY <1>1, FillsAdd
<1>4. \A y \in Ctx, j \in Blocks : m[y][j] = IF y = x /\ j = i THEN f.last ELSE f.map[y][j]
  BY <1>1 DEF Trees
<1>5. \A y \in Ctx \ {x} : m[y] = f.map[y]
  BY <1>1 DEF Trees
<1>6. file' = [f EXCEPT !.disk = d, !.off = n, !.last = n, !.map = m]
  <2>1. file' = [f EXCEPT !.disk = d, !.off = n, !.last = n, !.map[x][i] = f.last]
    BY Zenon
  <2> HIDE DEF n, d
  <2> QED BY <2>1 DEF File
<1> HIDE DEF d, m, n
<1>7. /\ file'.last = n /\ file'.off = n /\ file'.disk = d /\ file'.map = m /\ file'.open = f.open
      /\ file'.saved = f.saved /\ file'.savedBad = f.savedBad /\ file'.shared = f.shared
  BY <1>6 DEF File
<1>8. file' \in File
  BY <1>2, <1>3, <1>6 DEF File
<1>9. file'.last = f.last + 1 /\ file'.off = f.last + 1 /\ file'.disk = Written(f.disk, f.last, b)
  BY <1>7 DEF n, d
<1>10. \A y \in Ctx, j \in Blocks : file'.map[y][j] = IF y = x /\ j = i THEN f.last ELSE f.map[y][j]
  BY <1>4, <1>7
<1>11. \A y \in Ctx \ {x} : file'.map[y] = f.map[y]
  BY <1>5, <1>7
<1>12. file'.last <= Len(file'.disk) /\ Fills(file'.map, file'.last)
  BY <1>2, <1>3, <1>7
<1> QED BY <1>7, <1>8, <1>9, <1>10, <1>11, <1>12

\* A synchronous read of a block that is not cached, once it was read: the block
\* is added at the end of what is used, at the beginning of an emptied file, or
\* given back without (the cache is shared and full).
SyncFile == IF Room THEN file ELSE FlushedFile
ReadThrough(x, m) ==
    LET i == c[x].read
        k == Connected(c[x], i, "read")
        b == <<x, k.conn - 1>>
        f == SyncFile IN
    /\ i \in Blocks /\ ~Cached(x, i) /\ "read" \in NetworkOutcomes(x, i)
    /\ io' = Answer(x, 1, io.from, <<b>>)
    /\ env' = env
    /\ m \in Context /\ m = [k EXCEPT !.read = i + 1, !.at = io.from + 1, !.phys = file'.off]
    /\ \/ /\ ~Room /\ file.shared /\ file' = [file EXCEPT !.off = file.last] /\ c' = [c EXCEPT ![x] = m]
       \/ /\ Room \/ ~file.shared
          /\ file' = [f EXCEPT !.disk = Written(@, f.last, b), !.off = f.last + 1, !.last = @ + 1,
                               !.map[x][i] = f.last]
          /\ c' = [y \in Ctx |-> IF y = x THEN m ELSE IF Room THEN c[y] ELSE Flushed(x, y)]

LEMMA SyncFileIs ==
    ASSUME FileTyped, Numbered
    PROVE  LET f == SyncFile IN
           /\ f \in File /\ f.last <= file.last /\ Fills(f.map, f.last) /\ f.disk = file.disk
           /\ f.open = file.open /\ f.saved = file.saved /\ f.shared = file.shared
           /\ f.map \in {file.map, NoMap} /\ (Room => f = file)
           /\ ~Room => f.savedBad /\ f.map = NoMap /\ f.last = 0
<1>1. CASE Room
  BY <1>1 DEF SyncFile, FileTyped, File, Numbered
<1>2. CASE ~Room
  <2>1. SyncFile = FlushedFile
    BY <1>2 DEF SyncFile
  <2>2. FlushedFile \in File
    BY NoFills DEF FlushedFile, FileTyped, File
  <2>3. file.last \in Nat
    BY DEF FileTyped, File
  <2> QED BY <1>2, <2>1, <2>2, <2>3, FlushedIs, NoFills
<1> QED BY <1>1, <1>2

LEMMA SyncThroughIs ==
    ASSUME Shape, env \in Env, SyncReadThrough, NEW x \in Ctx, x = io.x
    PROVE  /\ ~c[x].noCache /\ ~Cached(x, c[x].read) /\ forwards = 0 /\ forwards' = forwards /\ task' = task
           /\ io.op = "read" /\ io.at = "enter"
           /\ \/ /\ c[x].read = FileSize /\ Returns(Eof) /\ c' = [c EXCEPT ![x].eof = TRUE]
                 /\ file' = file /\ env' = env
              \/ \E o \in NetworkOutcomes(x, c[x].read) :
                 /\ c[x].read \in Blocks /\ o # "read" /\ Returns(IF o = "ends" THEN Eof ELSE Eio)
                 /\ c' = [c EXCEPT ![x] = Connected(c[x], c[x].read, o)]
                 /\ env' = After(x, c[x].read, o) /\ file' = file
              \/ \E m \in Context : ReadThrough(x, m)
<1> DEFINE i == c[x].read
<1>1. /\ io.op = "read" /\ io.at = "enter" /\ forwards = 0 /\ forwards' = forwards /\ task' = task
      /\ ~c[x].noCache /\ ~Cached(x, i)
  BY DEF SyncReadThrough
<1>2. /\ c[x] \in Context /\ FileTyped /\ Numbered /\ IoTyped /\ c \in [Ctx -> Context] /\ c[x].phys = file.off
  BY <1>1, UsedContext
<1>3. i \in 0 .. FileSize /\ FileSize \in Nat
  BY <1>2, CacheAssumption DEF Context
<1>4. CASE i >= FileSize
  <2>1. Returns(Eof) /\ c' = [c EXCEPT ![x].eof = TRUE] /\ file' = file /\ env' = env
    BY <1>4 DEF SyncReadThrough
  <2>2. i = FileSize
    BY <1>3, <1>4
  <2> QED BY <1>1, <2>1, <2>2
<1>5. CASE ~(i >= FileSize)
  <2>0. i \in Blocks
    BY <1>3, <1>5 DEF Blocks
  <2> DEFINE Turn(z, o) ==
            LET k == Connected(c[z], c[z].read, o)
                b == <<z, k.conn - 1>>
                full == ~Room
                f == IF full THEN FlushedFile ELSE file
                off == IF full \/ file.last # c[z].phys THEN f.last ELSE f.off IN
            IF o # "read"
            THEN /\ Returns(IF o = "ends" THEN Eof ELSE Eio)
                 /\ c' = [c EXCEPT ![z] = k]
                 /\ env' = After(z, c[z].read, o)
                 /\ UNCHANGED file
            ELSE /\ io' = [Idle EXCEPT !.x = z, !.ret = 1, !.from = io.from, !.data = <<b>>]
                 /\ IF full /\ file.shared
                    THEN /\ c' = [c EXCEPT ![z] = [k EXCEPT !.read = c[z].read + 1, !.at = io.from + 1, !.phys = file.last]]
                         /\ file' = [file EXCEPT !.off = file.last]
                         /\ UNCHANGED env
                    ELSE /\ file' = [f EXCEPT !.disk = Written(@, off, b), !.off = off + 1, !.last = @ + 1,
                                              !.map[z][c[z].read] = f.last]
                         /\ c' = [y \in Ctx |->
                                    IF y = z THEN [k EXCEPT !.read = c[z].read + 1, !.at = io.from + 1, !.phys = f.last + 1]
                                    ELSE IF full THEN Flushed(z, y) ELSE c[y]]
                         /\ UNCHANGED env
  <2>a. \E o \in NetworkOutcomes(io.x, c[io.x].read) : Turn(io.x, o)
    <3>1. ~(c[io.x].read >= FileSize)
      BY <1>5
    <3> QED BY <3>1, Zenon DEF SyncReadThrough
  <2>b. \E o \in NetworkOutcomes(x, i) : Turn(x, o)
    <3> HIDE DEF Turn
    <3> QED BY <2>a
  <2>1. PICK o \in NetworkOutcomes(x, i) : Turn(x, o)
    <3> HIDE DEF Turn
    <3> QED BY <2>b
  <2>2. CASE o # "read"
    <3>1. /\ Returns(IF o = "ends" THEN Eof ELSE Eio)
          /\ c' = [c EXCEPT ![x] = Connected(c[x], i, o)]
          /\ env' = After(x, i, o) /\ file' = file
      BY <2>1, <2>2, Zenon
    <3> QED BY <1>1, <2>0, <2>2, <3>1
  <2>3. CASE o = "read"
    <3> DEFINE k == Connected(c[x], i, "read")
               b == <<x, k.conn - 1>>
               f == SyncFile
               off == IF ~Room \/ file.last # c[x].phys THEN f.last ELSE f.off
               n == IF ~Room /\ file.shared THEN file.last ELSE f.last + 1
               m == [k EXCEPT !.read = i + 1, !.at = io.from + 1, !.phys = n]
    <3>0. "read" \in NetworkOutcomes(x, i)
      BY <2>3
    <3>1. /\ io' = Answer(x, 1, io.from, <<b>>) /\ env' = env
          /\ IF ~Room /\ file.shared
             THEN c' = [c EXCEPT ![x] = m] /\ file' = [file EXCEPT !.off = file.last]
             ELSE /\ file' = [f EXCEPT !.disk = Written(@, off, b), !.off = off + 1, !.last = @ + 1,
                                              !.map[x][i] = f.last]
                  /\ c' = [y \in Ctx |-> IF y = x THEN m ELSE IF Room THEN c[y] ELSE Flushed(x, y)]
      <4>1. f = IF ~Room THEN FlushedFile ELSE file
        BY DEF SyncFile
      <4>2. CASE ~Room /\ file.shared
        BY <2>1, <2>3, <4>2, Zenon DEF Answer
      <4>3. CASE ~(~Room /\ file.shared)
        <5>1. /\ io' = Answer(x, 1, io.from, <<b>>) /\ env' = env
              /\ file' = [f EXCEPT !.disk = Written(@, off, b), !.off = off + 1, !.last = @ + 1,
                                              !.map[x][i] = f.last]
          BY <2>1, <2>3, <4>1, <4>3, Zenon DEF Answer
        <5>2. c' = [y \in Ctx |-> IF y = x THEN m ELSE IF ~Room THEN Flushed(x, y) ELSE c[y]]
          BY <2>1, <2>3, <4>1, <4>3, Zenon
        <5> HIDE DEF m
        <5>3. c' = [y \in Ctx |-> IF y = x THEN m ELSE IF Room THEN c[y] ELSE Flushed(x, y)]
          BY <5>2
        <5> QED BY <4>3, <5>1, <5>3
      <4> QED BY <4>2, <4>3
    <3>2. f \in File /\ (Room => f = file) /\ f.last \in Nat
      <4>1. f \in File /\ (Room => f = file)
        BY <1>2, SyncFileIs
      <4> HIDE DEF f
      <4> QED BY <4>1 DEF File
    <3>3. off = f.last
      <4> HIDE DEF f
      <4> QED BY <1>2, <3>2
    <3>4. k \in Context
      <4> HIDE DEF i
      <4> QED BY <1>2, <2>0, <3>0, ConnectedIs
    <3>5. n \in Nat /\ file'.off = n
      <4> HIDE DEF f, b, m
      <4>1. file.last \in Nat /\ file \in File
        BY <1>2 DEF FileTyped, File
      <4>2. CASE ~Room /\ file.shared
        BY <3>1, <4>1, <4>2 DEF File
      <4>3. CASE ~(~Room /\ file.shared)
        <5> DEFINE d == Written(f.disk, off, b)
                   q == off + 1
                   t == [f.map EXCEPT ![x][i] = f.last]
        <5>1. file' = [f EXCEPT !.disk = d, !.off = q, !.last = f.last + 1, !.map = t]
          <6>1. file' = [f EXCEPT !.disk = d, !.off = q, !.last = f.last + 1, !.map[x][i] = f.last]
            BY <3>1, <4>3, Zenon
          <6> HIDE DEF d, q
          <6> QED BY <3>2, <6>1 DEF File
        <5> HIDE DEF d, q, t
        <5>2. file'.off = q
          BY <3>2, <5>1 DEF File
        <5> QED BY <3>2, <3>3, <4>3, <5>2 DEF q
      <4> QED BY <4>2, <4>3
    <3>6. i + 1 \in 0 .. FileSize /\ io.from + 1 \in Nat
      BY <1>2, <1>3, <1>5 DEF IoTyped, Caller
    <3>7. m \in Context
      <4> DEFINE r == i + 1
                 a == io.from + 1
      <4> HIDE DEF k, r, a, n
      <4> QED BY <3>4, <3>5, <3>6 DEF Context, r, a
    <3>8. m = [k EXCEPT !.read = i + 1, !.at = io.from + 1, !.phys = file'.off]
      BY <3>5
    <3> HIDE DEF m
    <3>9. ReadThrough(x, m)
      <4>1. CASE ~Room /\ file.shared
        BY <1>1, <2>0, <3>0, <3>1, <3>7, <3>8, <4>1, Zenon DEF ReadThrough
      <4>2. CASE ~(~Room /\ file.shared)
        <5>1. file' = [f EXCEPT !.disk = Written(@, f.last, b), !.off = f.last + 1, !.last = @ + 1,
                                !.map[x][i] = f.last]
          BY <3>1, <3>3, <4>2, Zenon
        <5> QED BY <1>1, <2>0, <3>0, <3>1, <3>7, <3>8, <4>2, <5>1, Zenon DEF ReadThrough
      <4> QED BY <4>1, <4>2
    <3> QED BY <1>1, <3>7, <3>9
  <2> QED BY <2>2, <2>3
<1> QED BY <1>4, <1>5

\* What such a read leaves.
Through(x, m) ==
    LET i == c[x].read
        at == ConnAt(c[x], i)
        f == SyncFile IN
    /\ i \in Blocks /\ at \in Blocks /\ (c[x].conn = c[x].inner => at = i /\ m.conn = m.inner)
    /\ m.read = i + 1 /\ m.at = io.from + 1 /\ m.phys = file'.off /\ m.conn = at + 1
    /\ m.state = c[x].state /\ m.running = c[x].running /\ m.freed = c[x].freed
    /\ m.noCache = c[x].noCache /\ m.fill = c[x].fill /\ m.abort = c[x].abort /\ m.end = c[x].end
    /\ m.seekRequest = c[x].seekRequest /\ m.seekDone = c[x].seekDone
    /\ FileTyped' /\ Numbered' /\ file'.open = file.open
    /\ IoTyped' /\ ~Stops' /\ io'.op = "none" /\ io'.x = x /\ io'.from = io.from
    /\ io'.data = <<<<x, at>>>> /\ io'.ret = 1 /\ \A op, y : op # "none" => ~Turns(op, y)'
    /\ env' = env
    /\ \/ /\ ~Room /\ file.shared /\ c' = [c EXCEPT ![x] = m]
          /\ file'.map = file.map /\ file'.disk = file.disk /\ file'.last = file.last
          /\ file'.saved = file.saved /\ file'.savedBad = file.savedBad
       \/ /\ Room \/ ~file.shared
          /\ c' = [y \in Ctx |-> IF y = x THEN m ELSE IF Room THEN c[y] ELSE Flushed(x, y)]
          /\ file'.last = f.last + 1 /\ file'.disk = Written(f.disk, f.last, <<x, at>>)
          /\ file'.saved = f.saved /\ file'.savedBad = f.savedBad
          /\ \A y \in Ctx, j \in Blocks :
                 file'.map[y][j] = IF y = x /\ j = i THEN f.last ELSE f.map[y][j]
          /\ \A y \in Ctx \ {x} : file'.map[y] = f.map[y]

LEMMA ThroughIs ==
    ASSUME Shape, io.op = "read", NEW x \in Ctx, x = io.x, NEW m \in Context, ReadThrough(x, m)
    PROVE  Through(x, m)
<1> DEFINE i == c[x].read
           at == ConnAt(c[x], i)
           f == SyncFile
           k == Connected(c[x], i, "read")
           b == <<x, k.conn - 1>>
<1>1. /\ c[x] \in Context /\ file.open /\ FileTyped /\ Numbered /\ IoTyped /\ c \in [Ctx -> Context]
  BY UsedContext
<1>2. /\ i \in Blocks /\ ~Cached(x, i) /\ "read" \in NetworkOutcomes(x, i)
      /\ io' = Answer(x, 1, io.from, <<b>>) /\ env' = env
      /\ m = [k EXCEPT !.read = i + 1, !.at = io.from + 1, !.phys = file'.off]
      /\ \/ /\ ~Room /\ file.shared /\ file' = [file EXCEPT !.off = file.last] /\ c' = [c EXCEPT ![x] = m]
         \/ /\ Room \/ ~file.shared
            /\ file' = [f EXCEPT !.disk = Written(@, f.last, b), !.off = f.last + 1, !.last = @ + 1,
                                 !.map[x][i] = f.last]
            /\ c' = [y \in Ctx |-> IF y = x THEN m ELSE IF Room THEN c[y] ELSE Flushed(x, y)]
  BY Zenon DEF ReadThrough
<1>3. /\ k \in Context /\ k.state = c[x].state /\ k.fill = c[x].fill
      /\ k.end = c[x].end /\ k.noCache = c[x].noCache /\ k.seekRequest = c[x].seekRequest
      /\ k.seekDone = c[x].seekDone /\ k.abort = c[x].abort /\ k.running = c[x].running
      /\ k.freed = c[x].freed /\ k.conn = at + 1 /\ k.inner = i + 1 /\ at < FileSize
      /\ c[x].conn = c[x].inner => k.conn = k.inner /\ at = i
  <2> HIDE DEF i
  <2> QED BY <1>1, <1>2, ConnectedIs
<1>4. at \in Blocks /\ i \in Nat /\ i < FileSize /\ FileSize \in Nat /\ io.from \in Nat
  <2> HIDE DEF i, k
  <2>1. at \in Int /\ at >= 0
    BY <1>1, <1>2 DEF Blocks, ConnAt, Context
  <2>2. io.from \in Nat
    BY <1>1 DEF IoTyped, Caller
  <2> HIDE DEF at
  <2> QED BY <1>2, <1>3, <2>1, <2>2, CacheAssumption DEF Blocks
<1>5. /\ f \in File /\ f.last <= file.last /\ Fills(f.map, f.last) /\ f.disk = file.disk
      /\ f.open = file.open /\ f.saved = file.saved /\ f.map \in {file.map, NoMap}
  BY <1>1, SyncFileIs
<1>6. f.map[x][i] = None /\ f.last <= Len(f.disk)
  <2>1. file.map[x][i] = None
    BY <1>2 DEF Cached
  <2>2. NoMap[x][i] = None
    BY <1>2 DEF NoMap, NoTree
  <2>3. file.disk \in Seq(Data) /\ file.last \in Nat /\ f.last \in Nat /\ file.last <= Len(file.disk)
    <3> HIDE DEF f
    <3> QED BY <1>1, <1>5 DEF FileTyped, File
  <2>4. Len(file.disk) \in Nat
    BY <2>3
  <2> HIDE DEF f, i
  <2> QED BY <1>5, <2>1, <2>2, <2>3, <2>4
<1>7. b = <<x, at>> /\ b \in Data
  <2> HIDE DEF at, k
  <2>1. k.conn - 1 = at
    BY <1>3, <1>4 DEF Blocks
  <2> QED BY <1>4, <2>1 DEF Data, Blocks
<1> HIDE DEF at, k, b, f
<1>8. /\ IoTyped' /\ ~Stops' /\ io'.op = "none" /\ io'.x = x /\ io'.from = io.from
      /\ io'.data = <<b>> /\ io'.ret = 1 /\ \A op, y : op # "none" => ~Turns(op, y)'
  <2>1. <<b>> \in Seq(Data) /\ 1 \in Int /\ x \in Ctx \cup {None}
    BY <1>7
  <2> QED BY <1>2, <1>4, <2>1, IdleTyped
<1>9. ASSUME ~Room, file.shared, file' = [file EXCEPT !.off = file.last]
      PROVE  /\ FileTyped' /\ Numbered' /\ file'.open = file.open /\ file'.off \in Nat
             /\ file'.map = file.map /\ file'.disk = file.disk /\ file'.last = file.last
             /\ file'.saved = file.saved /\ file'.savedBad = file.savedBad
  <2>1. /\ file' \in File /\ file'.map = file.map /\ file'.open = file.open /\ file'.off = file.last
        /\ file'.last = file.last /\ file'.disk = file.disk /\ file'.saved = file.saved
        /\ file'.savedBad = file.savedBad /\ file'.off \in Nat
    BY <1>1, <1>9 DEF FileTyped, File
  <2>2. FileTyped' /\ Numbered'
    BY <1>1, <2>1 DEF FileTyped, Numbered
  <2> QED BY <2>1, <2>2
<1>10. ASSUME file' = [f EXCEPT !.disk = Written(@, f.last, b), !.off = f.last + 1, !.last = @ + 1,
                                !.map[x][i] = f.last]
       PROVE  /\ FileTyped' /\ Numbered' /\ file'.open = file.open /\ file'.off \in Nat
              /\ file'.last = f.last + 1 /\ file'.disk = Written(f.disk, f.last, b)
              /\ file'.saved = f.saved /\ file'.savedBad = f.savedBad
              /\ \A y \in Ctx, j \in Blocks :
                     file'.map[y][j] = IF y = x /\ j = i THEN f.last ELSE f.map[y][j]
              /\ \A y \in Ctx \ {x} : file'.map[y] = f.map[y]
  <2> HIDE DEF i
  <2>1. /\ file' \in File /\ file'.last = f.last + 1 /\ file'.off = f.last + 1
        /\ file'.disk = Written(f.disk, f.last, b) /\ file'.open = f.open
        /\ file'.saved = f.saved /\ file'.savedBad = f.savedBad
        /\ file'.last <= Len(file'.disk) /\ Fills(file'.map, file'.last)
        /\ \A y \in Ctx, j \in Blocks : file'.map[y][j] = IF y = x /\ j = i THEN f.last ELSE f.map[y][j]
        /\ \A y \in Ctx \ {x} : file'.map[y] = f.map[y]
    <3>1. /\ f \in File /\ f.last <= Len(f.disk) /\ Fills(f.map, f.last)
          /\ i \in Blocks /\ f.map[x][i] = None /\ b \in Data
      BY <1>2, <1>5, <1>6, <1>7
    <3> QED BY <1>10, <3>1, AddedIs, Zenon
  <2>2. FileTyped' /\ Numbered'
    BY <1>1, <1>5, <2>1 DEF FileTyped, Numbered
  <2>3. file'.off \in Nat
    BY <2>1 DEF File
  <2> QED BY <1>5, <2>1, <2>2, <2>3
<1>11. /\ FileTyped' /\ Numbered' /\ file'.open = file.open /\ file'.off \in Nat
       /\ \/ /\ ~Room /\ file.shared /\ c' = [c EXCEPT ![x] = m]
             /\ file'.map = file.map /\ file'.disk = file.disk /\ file'.last = file.last
             /\ file'.saved = file.saved /\ file'.savedBad = file.savedBad
          \/ /\ Room \/ ~file.shared
             /\ c' = [y \in Ctx |-> IF y = x THEN m ELSE IF Room THEN c[y] ELSE Flushed(x, y)]
             /\ file'.last = f.last + 1 /\ file'.disk = Written(f.disk, f.last, b)
             /\ file'.saved = f.saved /\ file'.savedBad = f.savedBad
             /\ \A y \in Ctx, j \in Blocks :
                    file'.map[y][j] = IF y = x /\ j = i THEN f.last ELSE f.map[y][j]
             /\ \A y \in Ctx \ {x} : file'.map[y] = f.map[y]
  <2>1. CASE ~Room /\ file.shared /\ file' = [file EXCEPT !.off = file.last] /\ c' = [c EXCEPT ![x] = m]
    BY <1>9, <2>1
  <2>2. CASE /\ Room \/ ~file.shared
             /\ file' = [f EXCEPT !.disk = Written(@, f.last, b), !.off = f.last + 1, !.last = @ + 1,
                                  !.map[x][i] = f.last]
             /\ c' = [y \in Ctx |-> IF y = x THEN m ELSE IF Room THEN c[y] ELSE Flushed(x, y)]
    <3> HIDE DEF i
    <3> QED BY <1>10, <2>2, Zenon
  <2> QED BY <1>2, <2>1, <2>2, Zenon
<1>12. /\ m.read = i + 1 /\ m.at = io.from + 1 /\ m.phys = file'.off /\ m.conn = k.conn /\ m.inner = k.inner
       /\ m.state = c[x].state /\ m.running = c[x].running /\ m.freed = c[x].freed
       /\ m.noCache = c[x].noCache /\ m.fill = c[x].fill /\ m.abort = c[x].abort /\ m.end = c[x].end
       /\ m.seekRequest = c[x].seekRequest /\ m.seekDone = c[x].seekDone
  <2> DEFINE r == i + 1
             a == io.from + 1
             q == file'.off
  <2>1. r \in 0 .. FileSize /\ a \in Nat /\ q \in Nat
    BY <1>4, <1>11
  <2>2. m = [k EXCEPT !.read = r, !.at = a, !.phys = q]
    BY <1>2
  <2> HIDE DEF r, a, q, i
  <2>3. /\ m.read = r /\ m.at = a /\ m.phys = q /\ m.freed = k.freed /\ m.fill = k.fill
        /\ m.state = k.state /\ m.conn = k.conn /\ m.inner = k.inner /\ m.end = k.end
    BY <1>3, <2>2 DEF Context
  <2>4. /\ m.noCache = k.noCache /\ m.seekRequest = k.seekRequest /\ m.seekDone = k.seekDone
        /\ m.abort = k.abort /\ m.running = k.running
    BY <1>3, <2>2 DEF Context
  <2> HIDE DEF k
  <2> QED BY <1>3, <2>3, <2>4 DEF r, a, q, i
<1> QED BY <1>2, <1>3, <1>4, <1>7, <1>8, <1>11, <1>12 DEF at, f, Through

LEMMA ShapeSyncThrough ==
    ASSUME Shape, env \in Env, SyncReadThrough
    PROVE  Shape'
<1>1. io.op = "read" /\ io.at = "enter" /\ forwards = 0 /\ forwards' = forwards /\ task' = task
  BY DEF SyncReadThrough
<1>0. PICK x \in Ctx : x = io.x
  BY <1>1, UsedContext
<1>2. /\ x = io.x /\ c[x] \in Context /\ c[x].state = "started" /\ ~c[x].freed
      /\ c[x].abort => env.interrupted
      /\ c[x].seekRequest => ~c[x].seekDone /\ (env.interrupted \/ Turns("seek", x))
      /\ file.open /\ FileTyped /\ Numbered /\ IoTyped /\ c \in [Ctx -> Context] /\ c[x].phys = file.off
  BY <1>0, <1>1, UsedContext
<1>3. c[x].seekRequest => ~c[x].seekDone /\ env.interrupted
  BY <1>1, <1>2 DEF Turns
<1>4. \/ /\ c[x].read = FileSize /\ Returns(Eof) /\ c' = [c EXCEPT ![x].eof = TRUE]
         /\ file' = file /\ env' = env
      \/ \E o \in NetworkOutcomes(x, c[x].read) :
         /\ c[x].read \in Blocks /\ o # "read" /\ Returns(IF o = "ends" THEN Eof ELSE Eio)
         /\ c' = [c EXCEPT ![x] = Connected(c[x], c[x].read, o)]
         /\ env' = After(x, c[x].read, o) /\ file' = file
      \/ \E m \in Context : ReadThrough(x, m)
  BY <1>2, SyncThroughIs
<1>5. ASSUME file' = file PROVE FileTyped' /\ Numbered'
  BY <1>2, <1>5 DEF FileTyped, File, Numbered
<1>6. \A r : Returns(r) /\ r \in Int => IoTyped' /\ io'.op = "none" /\ io'.x = x
  BY <1>2, ReturnsTyped
<1>7. CASE c[x].read = FileSize /\ Returns(Eof) /\ c' = [c EXCEPT ![x].eof = TRUE] /\ file' = file /\ env' = env
  <2> DEFINE k == [c[x] EXCEPT !.eof = TRUE]
  <2>1. c' = [c EXCEPT ![x] = k]
    BY <1>7
  <2>2. /\ k \in Context /\ k.state = c[x].state /\ k.running = c[x].running /\ k.freed = c[x].freed
        /\ k.noCache = c[x].noCache /\ k.fill = c[x].fill /\ k.abort = c[x].abort
        /\ k.seekRequest = c[x].seekRequest /\ k.seekDone = c[x].seekDone /\ k.phys = c[x].phys
    BY <1>2 DEF Context
  <2> HIDE DEF k
  <2>3. Eof \in Int
    BY DEF Eof
  <2>4. /\ FileTyped' /\ Numbered' /\ IoTyped' /\ io'.op = "none" /\ io'.x = x /\ file' = file
        /\ env'.interrupted = env.interrupted /\ task' \in {task, WakeTask(x)} /\ ~(forwards > 0 /\ ~c[x].freed)
    BY <1>1, <1>5, <1>6, <1>7, <2>3
  <2> QED BY <1>1, <1>2, <1>3, <2>1, <2>2, <2>4, DemuxMoves
<1>8. ASSUME NEW o \in NetworkOutcomes(x, c[x].read), c[x].read \in Blocks,
             Returns(IF o = "ends" THEN Eof ELSE Eio), c' = [c EXCEPT ![x] = Connected(c[x], c[x].read, o)],
             env' = After(x, c[x].read, o), file' = file
      PROVE  Shape'
  <2> DEFINE i == c[x].read
             k == Connected(c[x], i, o)
             r == IF o = "ends" THEN Eof ELSE Eio
  <2>1. /\ k \in Context /\ k.state = c[x].state /\ k.running = c[x].running /\ k.freed = c[x].freed
        /\ k.noCache = c[x].noCache /\ k.fill = c[x].fill /\ k.abort = c[x].abort
        /\ k.seekRequest = c[x].seekRequest /\ k.seekDone = c[x].seekDone /\ k.phys = c[x].phys
    <3>1. i \in Blocks /\ o \in NetworkOutcomes(x, i)
      BY <1>8
    <3> HIDE DEF i
    <3> QED BY <1>2, <3>1, ConnectedIs
  <2>2. env'.interrupted = env.interrupted
    BY <1>8, AfterIs
  <2>3. r \in Int /\ Returns(r) /\ c' = [c EXCEPT ![x] = k]
    BY <1>8 DEF Eof, Eio
  <2> HIDE DEF i, k, r
  <2>4. /\ FileTyped' /\ Numbered' /\ IoTyped' /\ io'.op = "none" /\ io'.x = x /\ file' = file
        /\ task' \in {task, WakeTask(x)} /\ ~(forwards > 0 /\ ~c[x].freed)
    BY <1>1, <1>5, <1>6, <1>8, <2>3
  <2> QED BY <1>1, <1>2, <1>3, <2>1, <2>2, <2>3, <2>4, DemuxMoves
<1>9. ASSUME NEW m \in Context, ReadThrough(x, m) PROVE Shape'
  <2>1. /\ m.phys = file'.off
        /\ m.state = c[x].state /\ m.running = c[x].running /\ m.freed = c[x].freed
        /\ m.noCache = c[x].noCache /\ m.fill = c[x].fill /\ m.abort = c[x].abort
        /\ m.seekRequest = c[x].seekRequest /\ m.seekDone = c[x].seekDone
        /\ FileTyped' /\ Numbered' /\ file'.open = file.open
        /\ IoTyped' /\ ~Stops' /\ io'.op = "none" /\ io'.x = x /\ env' = env
        /\ \/ ~Room /\ file.shared /\ c' = [c EXCEPT ![x] = m] /\ file'.map = file.map
           \/ /\ Room \/ ~file.shared
              /\ c' = [y \in Ctx |-> IF y = x THEN m ELSE IF Room THEN c[y] ELSE Flushed(x, y)]
              /\ \A y \in Ctx \ {x} : file'.map[y] = SyncFile.map[y]
    <3>1. Through(x, m)
      BY <1>0, <1>1, <1>9, ThroughIs
    <3> QED BY <3>1 DEF Through
  <2>2. CASE /\ c' = [c EXCEPT ![x] = m]
             /\ \A y \in Ctx \ {x} : file'.map[y] = file.map[y]
    <3>1. env'.interrupted = env.interrupted /\ task' \in {task, WakeTask(x)} /\ ~(forwards > 0 /\ ~c[x].freed)
      BY <1>1, <2>1
    <3> QED BY <1>1, <1>2, <1>3, <2>1, <2>2, <3>1, DemuxMoves
  <2>3. CASE ~Room /\ c' = [y \in Ctx |-> IF y = x THEN m ELSE Flushed(x, y)]
    <3>1. \A y \in Ctx : /\ c'[y] \in Context /\ c'[y].state = c[y].state /\ c'[y].running = c[y].running
                         /\ c'[y].noCache = c[y].noCache /\ c'[y].abort = c[y].abort
                         /\ c'[y].seekRequest = c[y].seekRequest /\ c'[y].seekDone = c[y].seekDone
      <4> SUFFICES ASSUME NEW y \in Ctx
                   PROVE /\ c'[y] \in Context /\ c'[y].state = c[y].state /\ c'[y].running = c[y].running
                         /\ c'[y].noCache = c[y].noCache /\ c'[y].abort = c[y].abort
                         /\ c'[y].seekRequest = c[y].seekRequest /\ c'[y].seekDone = c[y].seekDone
        OBVIOUS
      <4>1. CASE y = x
        BY <2>1, <2>3, <4>1
      <4>2. CASE y # x
        <5>1. c'[y] = Flushed(x, y)
          BY <2>3, <4>2
        <5>2. Flushed(x, y) \in Context /\ Kept(Flushed(x, y), c[y])
          BY <1>2, <4>2, FlushedContexts
        <5> QED BY <5>1, <5>2 DEF Kept
      <4> QED BY <4>1, <4>2
    <3>2. c'[x] = m /\ c' \in [Ctx -> Context]
      BY <2>3, <3>1
    <3>3. Typed' /\ task \in [Ctx -> Stages]
      BY <1>1, <2>1, <3>2 DEF Shape, Typed
    <3>4. Alone' /\ \A y \in Ctx \ {x} : c[y].state # "started"
      BY <1>2, <3>1 DEF Shape, Alone
    <3>5. Thread'
      BY <1>2, <2>1 DEF Thread
    <3>6. ASSUME NEW y \in Ctx PROVE Control(y)' /\ Window(y)' /\ Offset(y)'
      <4>1. Control(y)
        BY DEF Shape
      <4>2. ~Turns("seek", y)
        BY <1>1 DEF Turns
      <4>3. ~Stops
        BY <1>1 DEF Stops
      <4>4. ~c[y].running
        BY <1>1, <4>1 DEF Control
      <4>5. task[y] = "none"
        BY <4>1, <4>4 DEF Control
      <4>6. Control(y)'
        BY <1>1, <2>1, <3>1, <4>1, <4>2, <4>3, <4>4, <4>5 DEF Control
      <4>7. Window(y)'
        BY <1>1 DEF Window
      <4>8. Offset(y)'
        BY <2>1, <3>1, <3>2, <3>4 DEF Offset
      <4> QED BY <4>6, <4>7, <4>8
    <3> QED BY <2>1, <3>3, <3>4, <3>5, <3>6 DEF Shape
  <2>4. CASE Room /\ c' = [y \in Ctx |-> IF y = x THEN m ELSE c[y]] /\ \A y \in Ctx \ {x} : file'.map[y] = SyncFile.map[y]
    <3>1. c' = [c EXCEPT ![x] = m]
      BY <1>2, <2>4
    <3>2. SyncFile = file
      BY <2>4 DEF SyncFile
    <3> QED BY <2>2, <2>4, <3>1, <3>2
  <2>5. CASE Room
    BY <2>1, <2>2, <2>4, <2>5
  <2>6. CASE ~Room
    BY <2>1, <2>2, <2>3, <2>6
  <2> QED BY <2>5, <2>6
<1> QED BY <1>4, <1>7, <1>8, <1>9

\* All of a context that a turn of the reading loop leaves alone.
SameTask(k, l) ==
    /\ k.state = l.state /\ k.fill = l.fill /\ k.inner = l.inner /\ k.end = l.end /\ k.phys = l.phys
    /\ k.eof = l.eof /\ k.err = l.err /\ k.noCache = l.noCache /\ k.seekRequest = l.seekRequest
    /\ k.seekDone = l.seekDone /\ k.seekPos = l.seekPos /\ k.running = l.running /\ k.freed = l.freed

\* A turn of the reading loop: what it leaves, and its outcomes.
TurnAborted(x, m) ==
    /\ Aborted(x) /\ m.abort /\ m.read = c[x].read /\ m.at = c[x].at /\ m.conn = c[x].conn
    /\ io'.op = "none" /\ io'.data = <<>> /\ io'.ret = Exit /\ (c[x].noCache => x \in env'.behind)
TurnDirect(x, m) ==
    /\ ~Aborted(x) /\ c[x].noCache /\ m.abort = c[x].abort /\ m.read = c[x].read /\ io'.op = "none"
    /\ \/ /\ c[x].read < FileSize /\ m.conn = c[x].read + 1 /\ m.at = io.from + Len(io.data) + 1
          /\ io'.from = io.from /\ io'.data = Append(io.data, <<x, c[x].read>>) /\ io'.ret \in Nat
       \/ /\ m.conn = c[x].read /\ m.at = c[x].at /\ io'.data = <<>> /\ (c[x].read # FileSize => io'.ret # Eof)
          /\ io.data # <<>> => x \in env'.behind
TurnUnsought(x, m) ==
    /\ ~Aborted(x) /\ c[x].noCache /\ m = c[x] /\ x \in env'.behind
    /\ io'.op = "none" /\ io'.data = <<>> /\ io'.ret = Eio
TurnCached(x, m) ==
    /\ ~Aborted(x) /\ ~c[x].noCache /\ m.abort = c[x].abort /\ m.conn = c[x].conn /\ env' = env
    /\ Cached(x, c[x].read)
    /\ \E k \in 1 .. io.want - Len(io.data), p \in Nat, d \in Seq(Data) :
        /\ p = file.map[x][c[x].read] /\ d = SubSeq(file.disk, p + 1, p + k)
        /\ ReadsRun(x, c[x].read, io.want - Len(io.data), k, p)
        /\ m.read = c[x].read + k /\ io'.from = io.from /\ io'.data = io.data \o d
        /\ \/ io'.op = "read" /\ io'.at = "mainwait" /\ m.at = c[x].at
           \/ io'.op = "none" /\ io'.ret = io.want /\ m.at = io.from + Len(io.data \o d)
TurnEnded(x, m) ==
    /\ ~Aborted(x) /\ ~c[x].noCache /\ m.abort = c[x].abort /\ m.conn = c[x].conn /\ env' = env
    /\ ~Cached(x, c[x].read) /\ c[x].eof /\ m.read = c[x].read /\ m.at = io.from + Len(io.data)
    /\ io'.op = "none" /\ io'.from = io.from /\ io'.data = io.data
    /\ io'.ret = IF io.data # <<>> THEN Len(io.data) ELSE IF c[x].err # 0 THEN c[x].err ELSE Eof
TurnWaits(x, m) ==
    /\ ~Aborted(x) /\ ~c[x].noCache /\ env' = env /\ m = c[x] /\ ~Cached(x, c[x].read) /\ ~c[x].eof
    /\ io'.op = "read" /\ io'.at = "mainwait" /\ io'.from = io.from /\ io'.data = io.data
Turned(x, m) ==
    /\ c' = [c EXCEPT ![x] = m] /\ SameTask(m, c[x])
    /\ file' = file /\ forwards' = forwards /\ task' \in {task, WakeTask(x)}
    /\ IoTyped' /\ ~Stops' /\ io'.x = x /\ io'.op \in {"none", "read"}
    /\ env' \in Env /\ env'.interrupted = env.interrupted /\ env'.staleMap = env.staleMap
    /\ env'.switched = env.switched /\ env'.misled = env.misled /\ (env.failed => env'.failed)
    /\ env.behind \subseteq env'.behind
    /\ \/ TurnAborted(x, m) \/ TurnDirect(x, m) \/ TurnUnsought(x, m)
       \/ TurnCached(x, m) \/ TurnEnded(x, m) \/ TurnWaits(x, m)

LEMMA ReadTurnIs ==
    ASSUME Shape, env \in Env, ReadTurn, NEW x \in Ctx, x = io.x
    PROVE  \E m \in Context : Turned(x, m)
<1>1. io.op = "read" /\ io.at = "run" /\ forwards' = forwards /\ file' = file
  BY DEF ReadTurn
<1>2. /\ c[x] \in Context /\ file.open /\ FileTyped /\ Numbered /\ IoTyped /\ c \in [Ctx -> Context]
  BY <1>1, UsedContext
<1>3. /\ io.data \in Seq(Data) /\ Len(io.data) \in Nat /\ io.from \in Nat /\ io.want \in Nat /\ Len(io.data) < io.want
  <2>1. io.data \in Seq(Data) /\ io.from \in Nat /\ io.want \in Nat /\ Len(io.data) < io.want
    BY <1>1, <1>2 DEF IoTyped, Caller
  <2>2. Len(io.data) \in Nat
    BY <2>1
  <2> QED BY <2>1, <2>2
<1>4. /\ c[x].read \in 0 .. FileSize /\ c[x].at \in Nat /\ c[x].abort \in BOOLEAN /\ FileSize \in Nat
      /\ c[x].err \in Int
  BY <1>2, CacheAssumption DEF Context, Eio, Exit
<1>5. CASE Aborted(x)
  <2> DEFINE m == [c[x] EXCEPT !.read = c[x].read, !.at = c[x].at, !.abort = TRUE]
             b == IF c[x].noCache THEN env.behind \cup {x} ELSE env.behind
  <2>1. /\ Returns(Exit) /\ c' = [c EXCEPT ![x].abort = TRUE] /\ task' = WakeTask(x)
        /\ env' = [env EXCEPT !.behind = IF c[x].noCache THEN @ \cup {x} ELSE @]
    <3>1. Aborted(io.x)
      BY <1>5
    <3>2. /\ Returns(Exit) /\ c' = [c EXCEPT ![io.x].abort = TRUE] /\ task' = WakeTask(io.x)
          /\ env' = [env EXCEPT !.behind = IF c[io.x].noCache THEN @ \cup {io.x} ELSE @]
      BY <3>1, Zenon DEF ReadTurn
    <3> QED BY <3>2
  <2>2. m \in Context /\ SameTask(m, c[x]) /\ m.read = c[x].read /\ m.at = c[x].at /\ m.abort /\ m.conn = c[x].conn
    <3>1. m = [c[x] EXCEPT !.read = c[x].read, !.at = c[x].at, !.abort = TRUE]
      OBVIOUS
    <3> HIDE DEF m
    <3> QED BY <1>2, <1>4, <3>1 DEF Context, SameTask
  <2>3. c' = [c EXCEPT ![x] = m]
    <3>1. m = [c[x] EXCEPT !.abort = TRUE]
      BY <1>2 DEF Context
    <3> HIDE DEF m
    <3> QED BY <1>2, <2>1, <3>1
  <2> HIDE DEF m
  <2>4. b \in SUBSET Ctx /\ env.behind \subseteq b /\ (c[x].noCache => x \in b) /\ env' = [env EXCEPT !.behind = b]
    BY <2>1 DEF Env
  <2> HIDE DEF b
  <2>5. /\ env' \in Env /\ env'.interrupted = env.interrupted /\ env'.staleMap = env.staleMap
        /\ env'.switched = env.switched /\ env'.misled = env.misled /\ (env.failed => env'.failed)
        /\ env'.behind = b
    BY <2>4 DEF Env
  <2>6. /\ IoTyped' /\ ~Stops' /\ io'.op = "none" /\ io'.x = x /\ io'.data = <<>> /\ io'.ret = Exit
    <3>1. Exit \in Int
      BY DEF Exit
    <3> QED BY <2>1, <3>1, ReturnsTyped
  <2>7. TurnAborted(x, m)
    BY <1>5, <2>2, <2>4, <2>5, <2>6 DEF TurnAborted
  <2> QED BY <1>1, <2>1, <2>2, <2>3, <2>4, <2>5, <2>6, <2>7 DEF Turned
<1>6. CASE ~Aborted(x) /\ c[x].noCache
  <2> DEFINE n == DirectAt(c[x])
  <2>0. (ReadDirect(x, [c[x] EXCEPT !.conn = n]) \/ DirectSeekFails(x)) /\ task' = task
    <3>1. ~Aborted(io.x) /\ c[io.x].noCache
      BY <1>6
    <3>2. /\ ReadDirect(io.x, [c[io.x] EXCEPT !.conn = DirectAt(c[io.x])]) \/ DirectSeekFails(io.x)
          /\ task' = task
      BY <3>1, Zenon DEF ReadTurn
    <3> HIDE DEF n
    <3> QED BY <3>2 DEF n
  <2>1. CASE DirectSeekFails(x)
    <3> DEFINE b == env.behind \cup {x}
               e == Failed(env)
    <3>1. env' = [e EXCEPT !.behind = b] /\ Returns(Eio) /\ c' = c
      <4>1. e.behind = env.behind
        BY FailedIs
      <4> HIDE DEF e
      <4> QED BY <2>1, <4>1 DEF DirectSeekFails, e
    <3>2. /\ e \in Env /\ e.interrupted = env.interrupted /\ e.staleMap = env.staleMap
          /\ e.switched = env.switched /\ e.misled = env.misled /\ (env.failed => e.failed)
      BY FailedIs
    <3>3. b \in SUBSET Ctx /\ env.behind \subseteq b /\ x \in b
      BY DEF Env
    <3> HIDE DEF e, b
    <3>4. /\ env' \in Env /\ env'.interrupted = env.interrupted /\ env'.staleMap = env.staleMap /\ env'.behind = b
          /\ env'.switched = env.switched /\ env'.misled = env.misled /\ (env.failed => env'.failed)
      BY <3>1, <3>2, <3>3 DEF Env
    <3>5. /\ IoTyped' /\ ~Stops' /\ io'.op = "none" /\ io'.x = x /\ io'.data = <<>> /\ io'.ret = Eio
      <4>1. Eio \in Int
        BY DEF Eio
      <4> QED BY <3>1, <4>1, ReturnsTyped
    <3>6. c' = [c EXCEPT ![x] = c[x]] /\ SameTask(c[x], c[x])
      BY <1>2, <3>1 DEF SameTask
    <3>7. TurnUnsought(x, c[x])
      BY <1>6, <3>3, <3>4, <3>5 DEF TurnUnsought
    <3> QED BY <1>1, <1>2, <2>0, <3>3, <3>4, <3>5, <3>6, <3>7 DEF Turned
  <2>2. CASE ReadDirect(x, [c[x] EXCEPT !.conn = n])
    <3> DEFINE k == [c[x] EXCEPT !.conn = n, !.at = c[x].at]
    <3>1. ReadDirect(x, k) /\ task' = task
      <4>3. k = [c[x] EXCEPT !.conn = n]
        <5> HIDE DEF n
        <5> QED BY <1>2 DEF Context
      <4> HIDE DEF k
      <4> QED BY <2>0, <2>2, <4>3
    <3>2. n = c[x].read
      BY <1>4 DEF DirectAt
    <3>3. k \in Context /\ Stays(k, c[x]) /\ k.conn = c[x].read /\ k.at = c[x].at
      <4>1. k = [c[x] EXCEPT !.conn = n, !.at = c[x].at]
        OBVIOUS
      <4>2. n \in 0 .. FileSize
        BY <1>4, <3>2
      <4> HIDE DEF n, k
      <4>3. ASSUME NEW q \in Nat, k = [c[x] EXCEPT !.conn = n, !.at = q]
            PROVE  k \in Context /\ Stays(k, c[x]) /\ k.conn = n /\ k.at = q
        BY <1>2, <4>2, <4>3 DEF Context, Stays
      <4> QED BY <1>4, <3>2, <4>1, <4>3
    <3> HIDE DEF k, n
    <3>4. PICK m \in Context :
             /\ c' = [c EXCEPT ![x] = m] /\ Stays(m, k)
             /\ IoTyped' /\ ~Stops' /\ io'.op = "none" /\ io'.x = x
             /\ env' \in Env /\ env'.interrupted = env.interrupted /\ env'.staleMap = env.staleMap
             /\ env'.switched = env.switched /\ env'.misled = env.misled /\ (env.failed => env'.failed)
             /\ \/ /\ k.conn < FileSize /\ m.conn = k.conn + 1 /\ m.at = io.from + Len(io.data) + 1
                   /\ io'.from = io.from /\ io'.data = Append(io.data, <<x, k.conn>>) /\ io'.ret \in Nat
                   /\ env'.behind = env.behind
                \/ /\ m.conn = k.conn /\ m.at = k.at /\ io'.data = <<>> /\ (k.conn # FileSize => io'.ret # Eof)
                   /\ env.behind \subseteq env'.behind /\ (io.data # <<>> => x \in env'.behind)
      BY <1>1, <1>2, <3>1, <3>3, DirectIs
    <3>5. SameTask(m, c[x]) /\ m.abort = c[x].abort /\ m.read = c[x].read
      BY <3>3, <3>4 DEF Stays, SameTask
    <3>6. TurnDirect(x, m)
      BY <1>6, <3>3, <3>4, <3>5 DEF TurnDirect
    <3> QED BY <1>1, <3>1, <3>4, <3>5, <3>6 DEF Turned
  <2> QED BY <2>0, <2>1, <2>2
<1> DEFINE more == io.want - Len(io.data)
           k == IF more < EntryEnd(x, c[x].read) - c[x].read THEN more ELSE EntryEnd(x, c[x].read) - c[x].read
           p == file.map[x][c[x].read]
           d == SubSeq(file.disk, p + 1, p + k)
           all == io.data \o d
           Goes == IF Len(all) < io.want
                   THEN /\ io' = [io EXCEPT !.at = "mainwait", !.data = all]
                        /\ c' = [c EXCEPT ![x].read = c[x].read + k]
                        /\ task' = WakeTask(x)
                   ELSE /\ io' = [Idle EXCEPT !.x = x, !.ret = io.want, !.from = io.from, !.data = all]
                        /\ c' = [c EXCEPT ![x].read = c[x].read + k, ![x].at = io.from + Len(all)]
                        /\ task' \in {task, WakeTask(x)}
<1>7. CASE ~Aborted(x) /\ ~c[x].noCache /\ Cached(x, c[x].read)
  <2>1. Goes /\ env' = env
    <3> DEFINE Gone(z) ==
                 LET room == io.want - Len(io.data)
                     n == IF room < EntryEnd(z, c[z].read) - c[z].read THEN room ELSE EntryEnd(z, c[z].read) - c[z].read
                     q == file.map[z][c[z].read]
                     t == io.data \o SubSeq(file.disk, q + 1, q + n) IN
                 IF Len(t) < io.want
                 THEN /\ io' = [io EXCEPT !.at = "mainwait", !.data = t]
                      /\ c' = [c EXCEPT ![z].read = c[z].read + n]
                      /\ task' = WakeTask(z)
                 ELSE /\ io' = [Idle EXCEPT !.x = z, !.ret = io.want, !.from = io.from, !.data = t]
                      /\ c' = [c EXCEPT ![z].read = c[z].read + n, ![z].at = io.from + Len(t)]
                      /\ task' = IF ~c[z].eof /\ c[z].fill - (c[z].read + n) <= forwards THEN WakeTask(z) ELSE task
    <3>1. ~Aborted(io.x) /\ ~c[io.x].noCache /\ Cached(io.x, c[io.x].read)
      BY <1>7
    <3>2. Gone(io.x) /\ env' = env
      BY <3>1, Zenon DEF ReadTurn
    <3>3. Gone(x)
      <4> HIDE DEF Gone
      <4> QED BY <3>2
    <3> QED BY <3>2, <3>3, Zenon
  <2>2. ReadsRun(x, c[x].read, more, k, p)
    <3> DEFINE i == c[x].read
    <3>1. /\ k = IF more < EntryEnd(x, i) - i THEN more ELSE EntryEnd(x, i) - i
          /\ p = file.map[x][i] /\ more \in Nat \ {0}
      BY <1>3
    <3> HIDE DEF i, k, p, more
    <3>2. Cached(x, i)
      BY <1>7 DEF i
    <3>3. ReadsRun(x, i, more, k, p)
      BY <1>2, <3>1, <3>2, BlocksRead
    <3> QED BY <3>3 DEF i
  <2> HIDE DEF k, p
  <2>3. /\ k \in 1 .. more /\ c[x].read + k <= FileSize /\ d \in Seq(Data) /\ Len(d) = k /\ p \in Nat
    BY <2>2 DEF ReadsRun
  <2> HIDE DEF d, more
  <2>4. all \in Seq(Data) /\ Len(all) \in Nat
    BY <1>3, <2>3
  <2> DEFINE r == c[x].read + k
             a == io.from + Len(all)
             l(q) == [c[x] EXCEPT !.read = r, !.at = q, !.abort = c[x].abort]
  <2>5. r \in 0 .. FileSize /\ a \in Nat
    <3>1. k \in Nat
      BY <1>3, <2>3 DEF more
    <3> HIDE DEF all
    <3> QED BY <1>3, <1>4, <2>3, <2>4, <3>1
  <2>6. ASSUME NEW q \in Nat
        PROVE  /\ l(q) \in Context /\ SameTask(l(q), c[x]) /\ l(q).read = r /\ l(q).at = q /\ l(q).abort = c[x].abort
               /\ l(q).conn = c[x].conn
    <3>1. l(q) = [c[x] EXCEPT !.read = r, !.at = q, !.abort = c[x].abort]
      OBVIOUS
    <3> HIDE DEF r, l
    <3> QED BY <1>2, <1>4, <2>5, <2>6, <3>1 DEF Context, SameTask
  <2>7. CASE Len(all) < io.want
    <3> DEFINE m == l(c[x].at)
    <3>1. m \in Context /\ SameTask(m, c[x]) /\ m.read = r /\ m.at = c[x].at /\ m.abort = c[x].abort /\ m.conn = c[x].conn
      <4> HIDE DEF l
      <4> QED BY <1>4, <2>6
    <3>2. c' = [c EXCEPT ![x] = m]
      <4>1. c' = [c EXCEPT ![x].read = r]
        BY <2>1, <2>7, Zenon
      <4>2. m = [c[x] EXCEPT !.read = r]
        <5> HIDE DEF r
        <5> QED BY <1>2 DEF Context
      <4> HIDE DEF m, r
      <4> QED BY <1>2, <4>1, <4>2
    <3>3. io' = [io EXCEPT !.at = "mainwait", !.data = all] /\ task' = WakeTask(x)
      BY <2>1, <2>7, Zenon
    <3> HIDE DEF m, all, r, a, l
    <3>4. /\ IoTyped' /\ ~Stops' /\ io'.op = "read" /\ io'.x = x /\ io'.from = io.from /\ io'.data = all
          /\ io'.at = "mainwait"
      BY <1>1, <1>2, <2>4, <2>7, <3>3, WaitTyped
    <3>5. TurnCached(x, m)
      BY <1>7, <2>1, <2>2, <2>3, <3>1, <3>4 DEF TurnCached, all, r, d, p, more
    <3> QED BY <1>1, <2>1, <3>1, <3>2, <3>3, <3>4, <3>5 DEF Turned
  <2>8. CASE ~(Len(all) < io.want)
    <3> DEFINE m == l(a)
    <3>1. m \in Context /\ SameTask(m, c[x]) /\ m.read = r /\ m.at = a /\ m.abort = c[x].abort /\ m.conn = c[x].conn
      <4> HIDE DEF l, a
      <4> QED BY <2>5, <2>6
    <3>2. c' = [c EXCEPT ![x] = m]
      <4>1. c' = [c EXCEPT ![x].read = r, ![x].at = a]
        BY <2>1, <2>8, Zenon
      <4>2. m = [c[x] EXCEPT !.read = r, !.at = a]
        <5> HIDE DEF r, a
        <5> QED BY <1>2 DEF Context
      <4> HIDE DEF m, r, a
      <4> QED BY <1>2, <4>1, <4>2
    <3>3. io' = Answer(x, io.want, io.from, all) /\ task' \in {task, WakeTask(x)}
      BY <2>1, <2>8, Zenon DEF Answer
    <3> HIDE DEF m, all, r, a, l
    <3>4. /\ IoTyped' /\ ~Stops' /\ io'.op = "none" /\ io'.x = x /\ io'.from = io.from /\ io'.data = all
          /\ io'.ret = io.want
      <4>1. x \in Ctx \cup {None} /\ io.want \in Int
        BY <1>3
      <4> QED BY <1>3, <2>4, <3>3, <4>1, IdleTyped
    <3>5. TurnCached(x, m)
      BY <1>7, <2>1, <2>2, <2>3, <3>1, <3>4 DEF TurnCached, all, r, a, d, p, more
    <3> QED BY <1>1, <2>1, <3>1, <3>2, <3>3, <3>4, <3>5 DEF Turned
  <2> QED BY <2>7, <2>8
<1>8. CASE ~Aborted(x) /\ ~c[x].noCache /\ ~Cached(x, c[x].read) /\ c[x].eof
  <2> DEFINE a == io.from + Len(io.data)
             r == IF io.data # <<>> THEN Len(io.data) ELSE IF c[x].err # 0 THEN c[x].err ELSE Eof
             m == [c[x] EXCEPT !.read = c[x].read, !.at = a, !.abort = c[x].abort]
  <2>1. /\ io' = Answer(x, r, io.from, io.data) /\ c' = [c EXCEPT ![x].at = a] /\ task' = WakeTask(x) /\ env' = env
    <3> DEFINE Gone(z) ==
                 /\ io' = [Idle EXCEPT !.x = z, !.from = io.from, !.data = io.data,
                         !.ret = IF io.data # <<>> THEN Len(io.data)
                                 ELSE IF c[z].err # 0 THEN c[z].err ELSE Eof]
                 /\ c' = [c EXCEPT ![z].at = io.from + Len(io.data)]
                 /\ task' = WakeTask(z)
    <3>1. ~Aborted(io.x) /\ ~c[io.x].noCache /\ ~Cached(io.x, c[io.x].read) /\ c[io.x].eof
      BY <1>8
    <3>2. Gone(io.x) /\ env' = env
      BY <3>1, Zenon DEF ReadTurn
    <3>3. Gone(x)
      <4> HIDE DEF Gone
      <4> QED BY <3>2
    <3>4. io' = [Idle EXCEPT !.x = x, !.from = io.from, !.data = io.data, !.ret = r]
      BY <3>3, Zenon
    <3>5. io' = Answer(x, r, io.from, io.data)
      <4> HIDE DEF r
      <4> QED BY <3>4 DEF Answer, Idle
    <3> QED BY <3>2, <3>3, <3>5, Zenon
  <2>2. a \in Nat /\ r \in Int
    BY <1>3, <1>4 DEF Eof
  <2>3. m \in Context /\ SameTask(m, c[x]) /\ m.read = c[x].read /\ m.at = a /\ m.abort = c[x].abort /\ m.conn = c[x].conn
    <3>1. m = [c[x] EXCEPT !.read = c[x].read, !.at = a, !.abort = c[x].abort]
      OBVIOUS
    <3> HIDE DEF a, m
    <3> QED BY <1>2, <1>4, <2>2, <3>1 DEF Context, SameTask
  <2>4. c' = [c EXCEPT ![x] = m]
    <3>1. m = [c[x] EXCEPT !.at = a]
      <4> HIDE DEF a
      <4> QED BY <1>2 DEF Context
    <3> HIDE DEF m, a
    <3> QED BY <1>2, <2>1, <3>1
  <2> HIDE DEF m, a, r
  <2>5. /\ IoTyped' /\ ~Stops' /\ io'.op = "none" /\ io'.x = x /\ io'.from = io.from /\ io'.data = io.data /\ io'.ret = r
    BY <1>3, <2>1, <2>2, IdleTyped
  <2>6. TurnEnded(x, m)
    BY <1>8, <2>1, <2>3, <2>5 DEF TurnEnded, a, r
  <2> QED BY <1>1, <2>1, <2>3, <2>4, <2>5, <2>6 DEF Turned
<1>9. CASE ~Aborted(x) /\ ~c[x].noCache /\ ~Cached(x, c[x].read) /\ ~c[x].eof
  <2>1. Wait /\ task' = WakeTask(x) /\ c' = c /\ env' = env
    <3>1. ~Aborted(io.x) /\ ~c[io.x].noCache /\ ~Cached(io.x, c[io.x].read) /\ ~c[io.x].eof
      BY <1>9
    <3>2. Wait /\ task' = WakeTask(io.x) /\ c' = c /\ env' = env
      BY <3>1, Zenon DEF ReadTurn
    <3> QED BY <3>2
  <2>2. c' = [c EXCEPT ![x] = c[x]] /\ SameTask(c[x], c[x])
    BY <1>2, <2>1 DEF SameTask
  <2>3. /\ IoTyped' /\ ~Stops' /\ io'.op = "read" /\ io'.x = x /\ io'.from = io.from /\ io'.data = io.data
        /\ io'.at = "mainwait"
    BY <1>1, <1>2, <2>1, WaitsTyped DEF Wait
  <2>4. TurnWaits(x, c[x])
    BY <1>9, <2>1, <2>3 DEF TurnWaits
  <2> QED BY <1>1, <1>2, <2>1, <2>2, <2>3, <2>4 DEF Turned
<1> QED BY <1>5, <1>6, <1>7, <1>8, <1>9

LEMMA ShapeReadTurn ==
    ASSUME Shape, env \in Env, ReadTurn
    PROVE  Shape'
<1>1. io.op = "read" /\ io.at = "run"
  BY DEF ReadTurn
<1>0. PICK x \in Ctx : x = io.x
  BY <1>1, UsedContext
<1>2. /\ x = io.x /\ c[x] \in Context /\ c[x].state = "started" /\ ~c[x].freed
      /\ c[x].abort => env.interrupted
      /\ c[x].seekRequest => ~c[x].seekDone /\ (env.interrupted \/ Turns("seek", x))
      /\ FileTyped /\ Numbered /\ IoTyped /\ c \in [Ctx -> Context]
      /\ forwards > 0 => \A i \in c[x].read .. c[x].fill - 1 : Cached(x, i)
      /\ forwards = 0 => c[x].phys = file.off
  BY <1>0, <1>1, UsedContext
<1>3. PICK m \in Context : Turned(x, m)
  BY <1>2, ReadTurnIs
<1>4. /\ c' = [c EXCEPT ![x] = m] /\ SameTask(m, c[x]) /\ file' = file /\ forwards' = forwards
      /\ task' \in {task, WakeTask(x)} /\ IoTyped' /\ io'.x = x /\ io'.op \in {"none", "read"}
      /\ env'.interrupted = env.interrupted
  BY <1>3 DEF Turned
<1>5. FileTyped' /\ Numbered'
  BY <1>2, <1>4 DEF FileTyped, File, Numbered
<1>6. m.abort => c[x].abort \/ env.interrupted
  BY <1>3 DEF Turned, TurnAborted, TurnDirect, TurnUnsought, TurnCached, TurnEnded, TurnWaits, Aborted
<1>7. m.read \in Nat /\ c[x].read \in Nat /\ m.read >= c[x].read
  <2>1. m.read \in Nat /\ c[x].read \in Nat
    BY <1>2 DEF Context
  <2>2. \/ m.read = c[x].read
        \/ \E k \in 1 .. io.want - Len(io.data) : m.read = c[x].read + k
    BY <1>3 DEF Turned, TurnAborted, TurnDirect, TurnUnsought, TurnCached, TurnEnded, TurnWaits
  <2> QED BY <2>1, <2>2
<1>8. forwards > 0 => \A i \in m.read .. m.fill - 1 : Cached(x, i)'
  <2>1. m.fill = c[x].fill /\ c[x].fill \in Nat
    BY <1>2, <1>4 DEF SameTask, Context
  <2> QED BY <1>2, <1>4, <1>7, <2>1 DEF Cached
<1>9. c[x].seekRequest => ~c[x].seekDone /\ env.interrupted
  BY <1>1, <1>2 DEF Turns
<1>10. /\ m.state = c[x].state /\ m.running = c[x].running /\ m.freed = c[x].freed /\ m.noCache = c[x].noCache
       /\ m.fill = c[x].fill /\ m.phys = c[x].phys /\ m.seekRequest = c[x].seekRequest
       /\ m.seekDone = c[x].seekDone
  BY <1>4 DEF SameTask
<1> QED BY <1>1, <1>2, <1>4, <1>5, <1>6, <1>8, <1>9, <1>10, DemuxMoves

\* A seek that is entered: what it leaves, and its outcomes.
SeekEntered(x, m) ==
    LET p == io.want IN
    /\ c' = [c EXCEPT ![x] = m] /\ file' = file /\ forwards' = forwards /\ task' \in {task, WakeTask(x)}
    /\ m.state = c[x].state /\ m.fill = c[x].fill /\ m.inner = c[x].inner /\ m.end = c[x].end
    /\ m.phys = c[x].phys /\ m.eof = c[x].eof /\ m.err = c[x].err /\ m.noCache = c[x].noCache
    /\ m.abort = c[x].abort /\ m.running = c[x].running /\ m.freed = c[x].freed
    /\ IoTyped' /\ ~Stops' /\ io'.x = x /\ env' \in Env /\ env'.interrupted = env.interrupted
    /\ env'.staleMap = env.staleMap /\ env'.switched = env.switched /\ env'.misled = env.misled
    /\ env.failed => env'.failed
    /\ env'.behind = env.behind \/ (c[x].noCache /\ m.conn = m.at /\ env'.behind = env.behind \ {x})
    /\ io'.data = <<>> \/ (io'.op = "seek" /\ io'.data = io.data /\ io'.from = io.from)
    /\ io'.ret # Eof \/ io'.op = "seek"
    /\ \/ /\ c[x].noCache /\ m.conn = p /\ m.at = p /\ m.read = c[x].read /\ m.seekRequest = c[x].seekRequest
          /\ m.seekDone = c[x].seekDone /\ io'.op = "none"
       \/ /\ c[x].noCache /\ m = c[x] /\ io'.op = "none"
       \/ /\ ~c[x].noCache /\ forwards = 0 /\ m.conn = c[x].conn /\ m.read = p /\ m.at = p /\ io'.op = "none"
          /\ m.seekRequest = c[x].seekRequest /\ m.seekDone = c[x].seekDone
       \/ /\ ~c[x].noCache /\ forwards # 0 /\ m.conn = c[x].conn /\ m.read = c[x].read /\ m.at = c[x].at
          /\ m.seekRequest /\ ~m.seekDone /\ m.seekPos = p
          /\ \/ Aborted(x) /\ io'.op = "none"
             \/ ~Aborted(x) /\ io'.op = "seek" /\ io'.at = "mainwait"

LEMMA EnterSeekIs ==
    ASSUME Shape, env \in Env, EnterSeek, NEW x \in Ctx, x = io.x
    PROVE  \E m \in Context : SeekEntered(x, m)
<1>1. io.op = "seek" /\ io.at = "enter" /\ forwards' = forwards /\ file' = file
  BY DEF EnterSeek
<1>2. /\ c[x] \in Context /\ file.open /\ FileTyped /\ Numbered /\ IoTyped /\ c \in [Ctx -> Context]
  BY <1>1, UsedContext
<1> DEFINE p == io.want
<1>3. p \in 0 .. FileSize /\ p \in Nat
  BY <1>1, <1>2, CacheAssumption DEF IoTyped
<1> HIDE DEF p
<1>4. ASSUME NEW r \in Int, Returns(r)
      PROVE  /\ IoTyped' /\ ~Stops' /\ io'.op = "none" /\ io'.x = x /\ io'.ret = r /\ io'.data = <<>>
  BY <1>4, ReturnsTyped
<1>5. p # Eof /\ Exit # Eof /\ Eio # Eof /\ Exit \in Int /\ Eio \in Int
  BY <1>3 DEF Eof, Exit, Eio
<1>6. CASE c[x].noCache
  <2>1. /\ \/ /\ Returns(p)
              /\ c' = [c EXCEPT ![x].conn = p, ![x].at = p]
              /\ env' = [env EXCEPT !.behind = @ \ {x}]
           \/ /\ Returns(Eio)
              /\ env' = Failed(env)
              /\ c' = c
        /\ task' = task
    BY <1>6 DEF EnterSeek, p
  <2>2. CASE /\ Returns(p)
             /\ c' = [c EXCEPT ![x].conn = p, ![x].at = p]
             /\ env' = [env EXCEPT !.behind = @ \ {x}]
    <3> DEFINE m == [c[x] EXCEPT !.conn = p, !.at = p]
    <3>1. c' = [c EXCEPT ![x] = m]
      BY <1>2, <2>2
    <3>2. /\ m \in Context /\ m.conn = p /\ m.at = p
          /\ m.state = c[x].state /\ m.fill = c[x].fill /\ m.inner = c[x].inner /\ m.end = c[x].end
          /\ m.phys = c[x].phys /\ m.eof = c[x].eof /\ m.err = c[x].err /\ m.noCache = c[x].noCache
      BY <1>2, <1>3 DEF Context
    <3>3. /\ m.abort = c[x].abort /\ m.running = c[x].running /\ m.freed = c[x].freed
          /\ m.read = c[x].read /\ m.seekRequest = c[x].seekRequest /\ m.seekDone = c[x].seekDone
      BY <1>2, <1>3 DEF Context
    <3> HIDE DEF m
    <3>4. /\ env' \in Env /\ env'.interrupted = env.interrupted
          /\ env'.staleMap = env.staleMap /\ env'.switched = env.switched /\ env'.misled = env.misled
          /\ (env.failed => env'.failed) /\ env'.behind = env.behind \ {x}
      <4> DEFINE b == env.behind \ {x}
      <4>1. b \in SUBSET Ctx
        BY DEF Env
      <4>2. env' = [env EXCEPT !.behind = b]
        BY <2>2
      <4> HIDE DEF b
      <4>3. /\ env' \in Env /\ env'.interrupted = env.interrupted
            /\ env'.staleMap = env.staleMap /\ env'.switched = env.switched /\ env'.misled = env.misled
            /\ (env.failed => env'.failed) /\ env'.behind = b
        BY <4>1, <4>2 DEF Env
      <4> QED BY <4>3 DEF b
    <3>5. /\ IoTyped' /\ ~Stops' /\ io'.op = "none" /\ io'.x = x /\ io'.ret # Eof /\ io'.data = <<>>
      BY <1>3, <1>4, <1>5, <2>2
    <3> QED BY <1>1, <1>6, <2>1, <3>1, <3>2, <3>3, <3>4, <3>5 DEF SeekEntered, p
  <2>3. CASE Returns(Eio) /\ env' = Failed(env) /\ c' = c
    <3>1. c' = [c EXCEPT ![x] = c[x]]
      BY <1>2, <2>3
    <3>2. /\ IoTyped' /\ ~Stops' /\ io'.op = "none" /\ io'.x = x /\ io'.ret # Eof /\ io'.data = <<>>
      BY <1>4, <1>5, <2>3
    <3>3. /\ env' \in Env /\ env'.interrupted = env.interrupted
          /\ env'.staleMap = env.staleMap /\ env'.switched = env.switched /\ env'.misled = env.misled
          /\ (env.failed => env'.failed) /\ env'.behind = env.behind
      BY <2>3, FailedIs
    <3> QED BY <1>1, <1>2, <1>6, <2>1, <3>1, <3>2, <3>3 DEF SeekEntered
  <2> QED BY <2>1, <2>2, <2>3
<1>7. CASE ~c[x].noCache /\ forwards = 0
  <2>1. Returns(p) /\ c' = [c EXCEPT ![x].read = p, ![x].at = p] /\ task' = task /\ env' = env
    BY <1>7 DEF EnterSeek, p
  <2> DEFINE m == [c[x] EXCEPT !.read = p, !.at = p]
  <2>2. c' = [c EXCEPT ![x] = m]
    BY <1>2, <2>1
  <2>3. /\ m \in Context /\ m.conn = c[x].conn /\ m.at = p /\ m.read = p
        /\ m.state = c[x].state /\ m.fill = c[x].fill /\ m.inner = c[x].inner /\ m.end = c[x].end
        /\ m.phys = c[x].phys /\ m.eof = c[x].eof /\ m.err = c[x].err /\ m.noCache = c[x].noCache
    BY <1>2, <1>3 DEF Context
  <2>4. /\ m.abort = c[x].abort /\ m.running = c[x].running /\ m.freed = c[x].freed
        /\ m.seekRequest = c[x].seekRequest /\ m.seekDone = c[x].seekDone
    BY <1>2, <1>3 DEF Context
  <2> HIDE DEF m
  <2>5. /\ IoTyped' /\ ~Stops' /\ io'.op = "none" /\ io'.x = x /\ io'.ret # Eof /\ io'.data = <<>>
    BY <1>3, <1>4, <1>5, <2>1
  <2> QED BY <1>1, <1>7, <2>1, <2>2, <2>3, <2>4, <2>5 DEF SeekEntered, p
<1>8. CASE ~c[x].noCache /\ forwards # 0
  <2>1. /\ IF Aborted(x) THEN Returns(Exit) ELSE Wait
        /\ c' = [c EXCEPT ![x].seekRequest = TRUE, ![x].seekPos = p, ![x].seekDone = FALSE]
        /\ task' \in {task, WakeTask(x)} /\ env' = env
    <3>1. ~c[io.x].noCache
      BY <1>8
    <3>2. /\ IF Aborted(io.x) THEN Returns(Exit) ELSE Wait
          /\ c' = [c EXCEPT ![io.x].seekRequest = TRUE, ![io.x].seekPos = p, ![io.x].seekDone = FALSE]
          /\ task' \in {task, WakeTask(io.x)} /\ env' = env
      BY <1>8, <3>1 DEF EnterSeek, p
    <3> QED BY <3>2
  <2> DEFINE m == [c[x] EXCEPT !.seekRequest = TRUE, !.seekPos = p, !.seekDone = FALSE]
  <2>2. c' = [c EXCEPT ![x] = m]
    BY <1>2, <2>1
  <2>3. /\ m \in Context /\ m.conn = c[x].conn /\ m.at = c[x].at /\ m.read = c[x].read
        /\ m.state = c[x].state /\ m.fill = c[x].fill /\ m.inner = c[x].inner /\ m.end = c[x].end
        /\ m.phys = c[x].phys /\ m.eof = c[x].eof /\ m.err = c[x].err /\ m.noCache = c[x].noCache
    BY <1>2, <1>3 DEF Context
  <2>4. /\ m.abort = c[x].abort /\ m.running = c[x].running /\ m.freed = c[x].freed
        /\ m.seekRequest /\ ~m.seekDone /\ m.seekPos = p
    BY <1>2, <1>3 DEF Context
  <2> HIDE DEF m
  <2>5. CASE Aborted(x)
    <3>1. /\ IoTyped' /\ ~Stops' /\ io'.op = "none" /\ io'.x = x /\ io'.ret # Eof /\ io'.data = <<>>
      BY <1>4, <1>5, <2>1, <2>5
    <3> QED BY <1>1, <1>8, <2>1, <2>2, <2>3, <2>4, <2>5, <3>1 DEF SeekEntered, p
  <2>6. CASE ~Aborted(x)
    <3>1. /\ IoTyped' /\ ~Stops' /\ io'.op = "seek" /\ io'.x = x /\ io'.data = io.data /\ io'.from = io.from
          /\ io'.at = "mainwait"
      BY <1>1, <1>2, <2>1, <2>6, WaitsTyped DEF Wait
    <3> QED BY <1>1, <1>8, <2>1, <2>2, <2>3, <2>4, <2>6, <3>1 DEF SeekEntered, p
  <2> QED BY <2>5, <2>6
<1> QED BY <1>6, <1>7, <1>8

LEMMA ShapeEnterSeek ==
    ASSUME Shape, env \in Env, EnterSeek
    PROVE  Shape'
<1>1. io.op = "seek" /\ io.at = "enter"
  BY DEF EnterSeek
<1>0. PICK x \in Ctx : x = io.x
  BY <1>1, UsedContext
<1>2. /\ x = io.x /\ c[x] \in Context /\ c[x].state = "started" /\ ~c[x].freed
      /\ c[x].abort => env.interrupted
      /\ c[x].seekRequest => ~c[x].seekDone /\ (env.interrupted \/ Turns("seek", x))
      /\ FileTyped /\ Numbered /\ IoTyped /\ c \in [Ctx -> Context]
      /\ forwards > 0 => \A i \in c[x].read .. c[x].fill - 1 : Cached(x, i)
      /\ forwards = 0 => c[x].phys = file.off
  BY <1>0, <1>1, UsedContext
<1>3. PICK m \in Context : SeekEntered(x, m)
  BY <1>2, EnterSeekIs
<1>4. /\ c' = [c EXCEPT ![x] = m] /\ file' = file /\ forwards' = forwards
      /\ task' \in {task, WakeTask(x)} /\ IoTyped' /\ io'.x = x /\ io'.op \in {"none", "seek"}
      /\ env'.interrupted = env.interrupted /\ m.state = c[x].state /\ m.fill = c[x].fill
      /\ m.phys = c[x].phys /\ m.noCache = c[x].noCache
      /\ m.abort = c[x].abort /\ m.running = c[x].running /\ m.freed = c[x].freed
  BY <1>3 DEF SeekEntered
<1>5. FileTyped' /\ Numbered'
  BY <1>2, <1>4 DEF FileTyped, File, Numbered
<1>6. forwards > 0 => m.read = c[x].read
  BY <1>3 DEF SeekEntered
<1>7. c[x].seekRequest => ~c[x].seekDone /\ env.interrupted
  BY <1>1, <1>2 DEF Turns
<1>8. m.seekRequest => ~m.seekDone /\ (env.interrupted \/ Turns("seek", x)')
  <2>1. CASE m.seekRequest = c[x].seekRequest /\ m.seekDone = c[x].seekDone
    BY <1>7, <2>1
  <2>2. CASE Aborted(x) /\ ~m.seekDone
    BY <1>2, <2>2 DEF Aborted
  <2>3. CASE io'.op = "seek" /\ io'.at = "mainwait" /\ ~m.seekDone
    BY <1>4, <2>3 DEF Turns
  <2> QED BY <1>3, <2>1, <2>2, <2>3 DEF SeekEntered
<1>9. forwards > 0 => \A i \in m.read .. m.fill - 1 : Cached(x, i)'
  BY <1>2, <1>4, <1>6 DEF Cached
<1> QED BY <1>1, <1>2, <1>4, <1>5, <1>8, <1>9, DemuxMoves

\* A step of the demuxer's thread, or of the surroundings, that no context feels.
LEMMA ContextsStay ==
    ASSUME Shape, forwards' = forwards, c' = c, task' = task, env.interrupted => env'.interrupted,
           file'.map = file.map, file'.off = file.off, IoTyped', FileTyped', Numbered', Thread',
           \A y \in Ctx : /\ Stops /\ io.y = y => Stops' /\ io'.y = y
                          /\ Turns("seek", y) => Turns("seek", y)'
    PROVE  Shape'
<1>1. Typed' /\ Alone'
  BY DEF Shape, Typed, Alone
<1>2. ASSUME NEW y \in Ctx PROVE Control(y)' /\ Window(y)' /\ Offset(y)'
  <2>1. Control(y) /\ Window(y) /\ Offset(y)
    BY DEF Shape
  <2> QED BY <2>1, StaysFit
<1> QED BY <1>1, <1>2 DEF Shape

LEMMA ShapeOpenCall ==
    ASSUME Shape, NEW x \in Ctx, OpenCall(x)
    PROVE  Shape'
<1>1. /\ io.op = "none" /\ c[x].state = "closed" /\ forwards' = forwards /\ c' = c /\ task' = task /\ file' = file
      /\ io' = [Idle EXCEPT !.op = "open", !.at = "pause", !.x = x, !.todo = {y \in Ctx : c[y].state # "closed"}]
      /\ env' = Called /\ IoTyped /\ FileTyped /\ Numbered /\ Thread
  BY DEF OpenCall, Call, Shape, Typed
<1> DEFINE t == {y \in Ctx : c[y].state # "closed"}
<1>2. t \in SUBSET Ctx /\ \A y \in Ctx : y \in t <=> c[y].state # "closed"
  OBVIOUS
<1>3. io' = [Idle EXCEPT !.op = "open", !.at = "pause", !.x = x, !.todo = t]
  BY <1>1, Zenon
<1> HIDE DEF t
<1>4. io' \in Caller /\ io'.op = "open" /\ io'.at = "pause" /\ io'.x = x /\ io'.todo = t
  BY <1>2, <1>3, IdleIs DEF Caller
<1>5. IoTyped' /\ ~Stops'
  BY <1>4 DEF IoTyped, Stops
<1>6. FileTyped' /\ Numbered'
  BY <1>1 DEF FileTyped, File, Numbered
<1>7. Thread'
  BY <1>1, <1>2, <1>4, <1>5 DEF Thread
<1>8. ~Stops /\ \A y : ~Turns("seek", y)
  BY <1>1 DEF Stops, Turns
<1>9. env.interrupted => env'.interrupted
  BY <1>1 DEF Called
<1> QED BY <1>1, <1>5, <1>6, <1>7, <1>8, <1>9, ContextsStay

\* A task that is told to leave.
LEMMA StopIs ==
    ASSUME Shape, NEW y \in Ctx, StopTask(y)
    PROVE  \E k \in Context, s \in Stages :
           /\ c' = [c EXCEPT ![y] = k] /\ task' = [task EXCEPT ![y] = s]
           /\ k.abort /\ k.state = c[y].state /\ k.read = c[y].read /\ k.fill = c[y].fill /\ k.conn = c[y].conn
           /\ k.inner = c[y].inner /\ k.at = c[y].at /\ k.end = c[y].end /\ k.eof = c[y].eof /\ k.err = c[y].err
           /\ k.noCache = c[y].noCache /\ k.seekRequest = c[y].seekRequest /\ k.seekDone = c[y].seekDone
           /\ k.seekPos = c[y].seekPos /\ k.phys = c[y].phys /\ k.running = c[y].running /\ k.freed = c[y].freed
           /\ s = task[y] \/ (task[y] = "asleep" /\ s = "top")
<1>1. c \in [Ctx -> Context] /\ task \in [Ctx -> Stages] /\ c[y] \in Context
  BY DEF Shape, Typed
<1> DEFINE k == [c[y] EXCEPT !.abort = TRUE]
<1>2. k \in Context /\ k.abort
  BY <1>1 DEF Context
<1>3. /\ k.state = c[y].state /\ k.read = c[y].read /\ k.fill = c[y].fill /\ k.conn = c[y].conn
      /\ k.inner = c[y].inner /\ k.at = c[y].at /\ k.end = c[y].end /\ k.eof = c[y].eof /\ k.err = c[y].err
  BY <1>1 DEF Context
<1>4. /\ k.noCache = c[y].noCache /\ k.seekRequest = c[y].seekRequest /\ k.seekDone = c[y].seekDone
      /\ k.seekPos = c[y].seekPos /\ k.phys = c[y].phys /\ k.running = c[y].running /\ k.freed = c[y].freed
  BY <1>1 DEF Context
<1>5. c' = [c EXCEPT ![y] = k]
  BY <1>1 DEF StopTask
<1>6. task' \in {task, WakeTask(y)}
  BY DEF StopTask
<1>7. PICK s \in Stages : task' = [task EXCEPT ![y] = s] /\ (s = task[y] \/ (task[y] = "asleep" /\ s = "top"))
  <2>1. CASE task' = task
    BY <1>1, <2>1
  <2>2. CASE task' # task
    BY <1>1, <1>6, <2>2 DEF WakeTask, Stages
  <2> QED BY <2>1, <2>2
<1> HIDE DEF k
<1> QED BY <1>2, <1>3, <1>4, <1>5, <1>7

\* The demuxer's thread tells the task of y to leave.
LEMMA ShapeStop ==
    ASSUME Shape, NEW y \in Ctx, StopTask(y), forwards' = forwards, file' = file,
           env'.interrupted = env.interrupted, io.op = "none" \/ io.at = "pause",
           IoTyped', Stops', io'.y = y, io'.op \in {"open", "close"},
           c[io'.x].state = (IF io'.op = "open" THEN "closed" ELSE c[y].state), io'.x \in Ctx, c[y].state # "closed",
           io'.op = "open" => /\ \A z \in io'.todo : z \in Ctx /\ c[z].state # "closed"
                              /\ \A z \in Ctx : c[z].state = "started" => z \in io'.todo
                              /\ y \in io'.todo,
           io'.at = "stopped" => ~c[y].running
    PROVE  Shape'
<1>1. PICK k \in Context, s \in Stages :
           /\ c' = [c EXCEPT ![y] = k] /\ task' = [task EXCEPT ![y] = s]
           /\ k.state = c[y].state /\ k.read = c[y].read /\ k.fill = c[y].fill
           /\ k.noCache = c[y].noCache /\ k.seekRequest = c[y].seekRequest /\ k.seekDone = c[y].seekDone
           /\ k.phys = c[y].phys /\ k.running = c[y].running /\ k.freed = c[y].freed
           /\ s = task[y] \/ (task[y] = "asleep" /\ s = "top")
  BY StopIs
<1>2. /\ c \in [Ctx -> Context] /\ task \in [Ctx -> Stages] /\ FileTyped /\ Numbered /\ IoTyped /\ Thread
      /\ Control(y) /\ Window(y) /\ Offset(y)
  BY DEF Shape, Typed
<1>3. FileTyped' /\ Numbered'
  BY <1>2 DEF FileTyped, File, Numbered
<1>4. c'[y] = k /\ task'[y] = s /\ \A z \in Ctx : c'[z].state = c[z].state /\ c'[z].running = c[z].running
  BY <1>1, <1>2
<1>5. ~Stops /\ \A z : ~Turns("seek", z)
  BY <1>2 DEF Stops, Turns, IoTyped
<1>6. Thread'
  <2>1. file.open
    BY <1>2 DEF Thread
  <2>2. io'.op \notin {"read", "seek"}
    OBVIOUS
  <2>3. io'.op = "close" => c[io'.x].state # "closed"
    OBVIOUS
  <2>4. io'.op = "open" => c[io'.x].state = "closed"
    OBVIOUS
  <2> QED BY <1>4, <2>1, <2>2, <2>3, <2>4 DEF Thread
<1>7. Control(y)'
  BY <1>1, <1>2, <1>4, <1>5 DEF Control
<1>8. Window(y)' /\ Offset(y)'
  BY <1>1, <1>2, <1>4 DEF Window, Offset, Cached
<1>9. \A z \in Ctx \ {y} : k.state = "started" => c[z].state # "started"
  BY <1>1 DEF Shape, Alone
<1> QED BY <1>1, <1>3, <1>5, <1>6, <1>7, <1>8, <1>9, Moves DEF Elsewhere

LEMMA ShapePause ==
    ASSUME Shape, NEW y \in Ctx, PauseNext(y)
    PROVE  Shape'
<1>1. /\ io.op = "open" /\ io.at = "pause" /\ y \in io.todo /\ StopTask(y)
      /\ forwards' = forwards /\ file' = file /\ env' = env /\ IoTyped /\ Thread
  BY DEF PauseNext, Shape, Typed
<1>2. PICK a \in {"exitwait", "stopped"} : io' = [io EXCEPT !.y = y, !.at = a] /\ (a = "stopped" => ~c[y].running)
  BY DEF PauseNext
<1>3. /\ io' \in Caller /\ io'.op = "open" /\ io'.x = io.x /\ io'.y = y /\ io'.todo = io.todo /\ io'.at = a
      /\ io.x \in Ctx /\ io.todo \subseteq Ctx
  BY <1>1, <1>2 DEF IoTyped, Caller
<1>4. IoTyped' /\ Stops'
  BY <1>3 DEF IoTyped, Stops
<1>5. /\ c[io.x].state = "closed" /\ c[y].state # "closed"
      /\ \A z \in io.todo : z \in Ctx /\ c[z].state # "closed"
      /\ \A z \in Ctx : c[z].state = "started" => z \in io.todo
  BY <1>1, <1>3 DEF Thread
<1> QED BY <1>1, <1>2, <1>3, <1>4, <1>5, ShapeStop

LEMMA ShapeCloseCall ==
    ASSUME Shape, NEW x \in Ctx, CloseCall(x)
    PROVE  Shape'
<1>1. /\ io.op = "none" /\ c[x].state # "closed" /\ StopTask(x) /\ forwards' = forwards /\ file' = file
      /\ env' = Called /\ IoTyped /\ Thread
  BY DEF CloseCall, Call, Shape, Typed
<1>2. PICK a \in {"exitwait", "stopped"} : /\ io' = [Idle EXCEPT !.op = "close", !.x = x, !.y = x, !.at = a]
                                           /\ a = "stopped" => ~c[x].running
  BY DEF CloseCall
<1>3. io' \in Caller /\ io'.op = "close" /\ io'.x = x /\ io'.y = x /\ io'.at = a
  BY <1>2, IdleIs DEF Caller
<1>4. IoTyped' /\ Stops'
  BY <1>3 DEF IoTyped, Stops
<1>5. env'.interrupted = env.interrupted
  BY <1>1 DEF Called
<1> QED BY <1>1, <1>2, <1>3, <1>4, <1>5, ShapeStop

LEMMA ShapePaused ==
    ASSUME Shape, Paused
    PROVE  Shape'
<1>1. /\ io.op = "open" /\ io.at = "stopped" /\ c' = [c EXCEPT ![io.y].state = "paused"]
      /\ io' = [io EXCEPT !.at = "pause", !.y = None, !.todo = @ \ {io.y}]
      /\ forwards' = forwards /\ task' = task /\ file' = file /\ env' = env
      /\ IoTyped /\ Thread /\ c \in [Ctx -> Context] /\ task \in [Ctx -> Stages] /\ FileTyped /\ Numbered
  BY DEF Paused, Shape, Typed
<1>2. Stops /\ io.y \in Ctx /\ io.x \in Ctx /\ io.todo \subseteq Ctx
  BY <1>1 DEF Stops, IoTyped, Caller
<1>3. PICK y \in Ctx : y = io.y
  BY <1>2
<1> DEFINE k == [c[y] EXCEPT !.state = "paused"]
           t == io.todo \ {y}
<1>4. c' = [c EXCEPT ![y] = k] /\ task' = [task EXCEPT ![y] = task[y]] /\ task[y] \in Stages
  BY <1>1, <1>3
<1>5. /\ k \in Context /\ k.state = "paused" /\ k.read = c[y].read /\ k.fill = c[y].fill
      /\ k.noCache = c[y].noCache /\ k.seekRequest = c[y].seekRequest /\ k.seekDone = c[y].seekDone
      /\ k.phys = c[y].phys /\ k.running = c[y].running /\ k.freed = c[y].freed
  BY <1>1 DEF Context
<1> HIDE DEF k
<1>6. io' = [io EXCEPT !.at = "pause", !.y = None, !.todo = t] /\ t \subseteq Ctx
  BY <1>1, <1>2, <1>3
<1>7. t \subseteq io.todo /\ \A z \in io.todo : z # y => z \in t
  OBVIOUS
<1>8. y \notin t
  OBVIOUS
<1> HIDE DEF t
<1>9. io' \in Caller /\ io'.op = "open" /\ io'.at = "pause" /\ io'.x = io.x /\ io'.todo = t
  BY <1>1, <1>6 DEF IoTyped, Caller
<1>10. IoTyped' /\ ~Stops'
  BY <1>2, <1>9 DEF IoTyped, Stops
<1>11. /\ c[io.x].state = "closed" /\ \A z \in io.todo : c[z].state # "closed"
       /\ \A z \in Ctx : c[z].state = "started" => z \in io.todo
       /\ y \in io.todo /\ ~c[y].running /\ file.open
  BY <1>1, <1>2, <1>3 DEF Thread
<1>12. c'[y] = k /\ \A z \in Ctx \ {y} : c'[z] = c[z]
  BY <1>1, <1>4
<1>13. Thread'
  <2>1. io.x # y
    BY <1>11
  <2>2. c'[io.x].state = "closed"
    BY <1>2, <1>11, <1>12, <2>1
  <2>3. \A z \in t : c'[z].state # "closed"
    BY <1>5, <1>6, <1>7, <1>11, <1>12
  <2>4. \A z \in Ctx : c'[z].state = "started" => z \in t
    BY <1>5, <1>7, <1>11, <1>12
  <2> QED BY <1>1, <1>9, <1>10, <1>11, <2>2, <2>3, <2>4 DEF Thread
<1>14. FileTyped' /\ Numbered'
  BY <1>1 DEF FileTyped, File, Numbered
<1>15. ~Turns("seek", y) /\ \A z \in Ctx : ~Turns("seek", z)
  BY <1>1 DEF Turns
<1>16. Control(y) /\ Window(y)
  BY DEF Shape
<1>17. Control(y)'
  BY <1>1, <1>5, <1>11, <1>12, <1>15, <1>16 DEF Control
<1>18. Window(y)' /\ Offset(y)'
  BY <1>1, <1>5, <1>11, <1>12, <1>16 DEF Window, Offset, Cached, Thread
<1>19. \A z \in Ctx \ {y} : /\ file'.map[z] = file.map[z] /\ file'.off = file.off
                             /\ ~(Stops /\ io.y = z) /\ ~Turns("seek", z)
  BY <1>1, <1>3, <1>15
<1>20. forwards' = forwards /\ env'.interrupted = env.interrupted /\ k.state # "started"
  BY <1>1, <1>5
<1> QED BY <1>4, <1>5, <1>10, <1>13, <1>14, <1>17, <1>18, <1>19, <1>20, Moves DEF Elsewhere

LEMMA NewIs ==
    /\ NewContext \in Context /\ NewContext.state = "closed" /\ NewContext.read = 0 /\ NewContext.fill = 0
    /\ NewContext.at = 0 /\ NewContext.conn = 0 /\ NewContext.inner = 0 /\ NewContext.end = 0 /\ NewContext.phys = 0
    /\ ~NewContext.eof /\ NewContext.err = 0 /\ ~NewContext.noCache /\ ~NewContext.seekRequest
    /\ ~NewContext.seekDone /\ NewContext.seekPos = 0 /\ ~NewContext.abort /\ ~NewContext.running
    /\ ~NewContext.freed
<1>1. 0 \in 0 .. FileSize
  BY CacheAssumption
<1> QED BY <1>1 DEF NewContext, Context

LEMMA ShapeClosed ==
    ASSUME Shape, Closed
    PROVE  Shape'
<1>1. /\ io.op = "close" /\ io.at = "stopped" /\ c' = [c EXCEPT ![io.x] = NewContext] /\ Returns(0)
      /\ forwards' = forwards /\ task' = task /\ file' = file /\ env' = [env EXCEPT !.behind = @ \ {io.x}]
      /\ IoTyped /\ Thread /\ c \in [Ctx -> Context] /\ task \in [Ctx -> Stages] /\ FileTyped /\ Numbered
  BY DEF Closed, Shape, Typed
<1>2. Stops /\ io.y = io.x /\ io.x \in Ctx
  BY <1>1 DEF Stops, IoTyped, Caller
<1>3. PICK x \in Ctx : x = io.x
  BY <1>2
<1>4. ~c[x].running /\ task[x] = "none" /\ file.open
  <2>1. ~c[x].running
    BY <1>1, <1>2, <1>3 DEF Thread
  <2>2. c[x].state # "closed"
    BY <1>1, <1>3 DEF Thread
  <2> QED BY <1>1, <2>1, <2>2 DEF Shape, Control, Thread
<1>5. c' = [c EXCEPT ![x] = NewContext] /\ task' = [task EXCEPT ![x] = "none"] /\ c'[x] = NewContext
  BY <1>1, <1>3, <1>4
<1>6. IoTyped' /\ ~Stops' /\ io'.op = "none"
  BY <1>1, <1>2, ReturnsTyped
<1>7. FileTyped' /\ Numbered'
  BY <1>1 DEF FileTyped, File, Numbered
<1>8. Thread'
  BY <1>1, <1>4, <1>6 DEF Thread
<1>9. task'[x] = "none"
  BY <1>1, <1>4
<1>10. Control(x)' /\ Window(x)' /\ Offset(x)'
  <2>1. Control(x)'
    BY <1>5, <1>9, NewIs DEF Control
  <2>2. Window(x)' /\ Offset(x)'
    BY <1>5, NewIs DEF Window, Offset
  <2> QED BY <2>1, <2>2
<1>11. env'.interrupted = env.interrupted /\ \A y \in Ctx : ~Turns("seek", y)
  BY <1>1 DEF Turns
<1>12. \A y \in Ctx \ {x} : /\ file'.map[y] = file.map[y] /\ file'.off = file.off
                             /\ ~(Stops /\ io.y = y) /\ ~Turns("seek", y)
  BY <1>1, <1>2, <1>3, <1>11
<1>13. forwards' = forwards /\ NewContext \in Context /\ NewContext.state # "started" /\ "none" \in Stages
  BY <1>1, NewIs DEF Stages
<1> QED BY <1>5, <1>6, <1>7, <1>8, <1>10, <1>11, <1>12, <1>13, Moves DEF Elsewhere

\* The file that the first open of a manager finds.
LEMMA OpenedFileIs ==
    ASSUME FileTyped, Numbered
    PROVE  LET f == OpenedFile IN
           /\ f \in File /\ f.open /\ f.last <= Len(f.disk) /\ Fills(f.map, f.last)
           /\ f.saved = file.saved /\ f.shared = file.shared /\ (file.open => f = file)
           /\ \/ f.map = NoMap /\ f.savedBad
              \/ f.map = file.map /\ f.disk = file.disk /\ f.last = file.last /\ f.savedBad = file.savedBad
<1>1. file \in File /\ file.disk \in Seq(Data) /\ file.last \in Nat /\ Fills(file.map, file.last)
  BY DEF FileTyped, File, Numbered
<1>2. CASE file.open
  BY <1>1, <1>2 DEF OpenedFile, FileTyped
<1>3. CASE ~file.open /\ file.map = NoMap
  <2> DEFINE f == [file EXCEPT !.disk = <<>>, !.last = 0, !.open = TRUE, !.savedBad = TRUE]
  <2>1. OpenedFile = f
    BY <1>3 DEF OpenedFile
  <2>2. /\ f \in File /\ f.open /\ f.last = 0 /\ f.disk = <<>> /\ f.map = NoMap /\ f.saved = file.saved
        /\ f.shared = file.shared /\ f.savedBad
    <3>1. <<>> \in Seq(Data) /\ 0 \in Nat
      OBVIOUS
    <3> QED BY <1>1, <1>3, <3>1 DEF File
  <2> HIDE DEF f
  <2> QED BY <1>3, <2>1, <2>2, NoFills
<1>4. CASE ~file.open /\ file.map # NoMap /\ Len(file.disk) < file.last
  <2> DEFINE f == [file EXCEPT !.map = NoMap, !.last = 0, !.open = TRUE, !.savedBad = TRUE]
  <2>1. OpenedFile = f
    BY <1>4 DEF OpenedFile
  <2>2. /\ f \in File /\ f.open /\ f.last = 0 /\ f.disk = file.disk /\ f.map = NoMap /\ f.saved = file.saved
        /\ f.shared = file.shared /\ f.savedBad
    BY <1>1, NoFills DEF File
  <2>3. Len(file.disk) \in Nat
    BY <1>1
  <2> HIDE DEF f
  <2> QED BY <1>4, <2>1, <2>2, <2>3, NoFills
<1>5. CASE ~file.open /\ file.map # NoMap /\ ~(Len(file.disk) < file.last)
  <2> DEFINE f == [file EXCEPT !.open = TRUE]
  <2>1. OpenedFile = f
    BY <1>5 DEF OpenedFile
  <2>2. /\ f \in File /\ f.open /\ f.last = file.last /\ f.disk = file.disk /\ f.map = file.map /\ f.saved = file.saved
        /\ f.shared = file.shared /\ f.savedBad = file.savedBad
    BY <1>1 DEF File
  <2>3. Len(file.disk) \in Nat
    BY <1>1
  <2> HIDE DEF f
  <2> QED BY <1>1, <1>5, <2>1, <2>2, <2>3
<1> QED BY <1>2, <1>3, <1>4, <1>5

\* A context is opened, or its connection fails.
Opened(x) ==
    LET f == OpenedFile IN
    /\ forwards' = forwards /\ io'.op = "none" /\ io'.x = x /\ io'.data = <<>> /\ io'.ret # Eof
    /\ IoTyped' /\ ~Stops' /\ \A op, y : op # "none" => ~Turns(op, y)'
    /\ FileTyped' /\ Numbered' /\ file'.open /\ file'.map = f.map /\ file'.disk = f.disk
    /\ file'.last = f.last /\ file'.saved = f.saved /\ file'.savedBad = f.savedBad
    /\ env' \in Env /\ env'.interrupted = env.interrupted /\ env'.behind = env.behind
    /\ env'.staleMap = env.staleMap /\ env'.switched = env.switched /\ env'.misled = env.misled
    /\ env.failed => env'.failed
    /\ \/ /\ c' = c /\ task' = task
       \/ \E k \in Context, s \in {"queued", "none"} :
            /\ c' = [c EXCEPT ![x] = k] /\ task' = [task EXCEPT ![x] = s] /\ (s = "queued" <=> forwards > 0)
            /\ k.state = "started" /\ k.running = (forwards > 0) /\ k.phys = f.last
            /\ k.read = 0 /\ k.fill = 0 /\ k.at = 0 /\ k.conn = 0 /\ k.inner = 0 /\ k.end = 0
            /\ ~k.eof /\ k.err = 0 /\ ~k.noCache /\ ~k.seekRequest /\ ~k.seekDone /\ ~k.abort /\ ~k.freed
            /\ forwards = 0 => file'.off = k.phys

LEMMA OpenedIs ==
    ASSUME Shape, env \in Env, OpenContext, NEW x \in Ctx, x = io.x
    PROVE  Opened(x)
<1> DEFINE f == OpenedFile
           k(b) == [NewContext EXCEPT !.state = "started", !.phys = f.last, !.running = forwards > 0, !.asyncOpen = b]
           off == IF forwards = 0 THEN f.last ELSE 0
<1>1. /\ forwards' = forwards /\ file' = [f EXCEPT !.off = off]
      /\ \/ /\ \E put \in BOOLEAN : c' = [c EXCEPT ![x] = k(put)]
            /\ task' = [task EXCEPT ![x] = IF forwards > 0 THEN "queued" ELSE "none"]
            /\ Returns(0)
            /\ UNCHANGED env
         \/ /\ env' = Failed(env)
            /\ Returns(Eio)
            /\ UNCHANGED <<c, task>>
  <2> DEFINE l == [NewContext EXCEPT !.state = "started", !.phys = f.last, !.running = forwards > 0]
  <2>1. /\ forwards' = forwards /\ file' = [f EXCEPT !.off = off]
        /\ \/ /\ \E put \in IF f.map[io.x] # NoTree THEN BOOLEAN ELSE {FALSE} :
                    c' = [c EXCEPT ![io.x] = [l EXCEPT !.asyncOpen = put]]
              /\ task' = [task EXCEPT ![io.x] = IF forwards > 0 THEN "queued" ELSE "none"]
              /\ Returns(0)
              /\ UNCHANGED env
           \/ /\ env' = Failed(env)
              /\ Returns(Eio)
              /\ UNCHANGED <<c, task>>
    BY Zenon DEF OpenContext
  <2>2. \A b : [l EXCEPT !.asyncOpen = b] = k(b)
    <3> HIDE DEF f
    <3> QED BY DEF NewContext
  <2> HIDE DEF l, k, f, off
  <2>3. (IF f.map[io.x] # NoTree THEN BOOLEAN ELSE {FALSE}) \subseteq BOOLEAN
    OBVIOUS
  <2> QED BY <2>1, <2>2, <2>3
<1>2. /\ FileTyped /\ Numbered /\ IoTyped /\ Thread /\ forwards \in Nat
  BY DEF Shape, Typed
<1>3. /\ f \in File /\ f.open /\ f.last <= Len(f.disk) /\ Fills(f.map, f.last) /\ f.saved = file.saved
  BY <1>2, OpenedFileIs
<1> HIDE DEF f
<1>4. f.last \in Nat /\ off \in Nat
  BY <1>3 DEF File
<1>5. /\ file' \in File /\ file'.open /\ file'.map = f.map /\ file'.disk = f.disk /\ file'.off = off
      /\ file'.last = f.last /\ file'.saved = f.saved /\ file'.savedBad = f.savedBad
  <2> HIDE DEF off
  <2> QED BY <1>1, <1>3, <1>4 DEF File
<1>6. FileTyped' /\ Numbered'
  BY <1>2, <1>3, <1>5 DEF FileTyped, Numbered
<1>7. ASSUME NEW b \in BOOLEAN
      PROVE  /\ k(b) \in Context /\ k(b).state = "started" /\ k(b).running = (forwards > 0) /\ k(b).phys = f.last
             /\ k(b).read = 0 /\ k(b).fill = 0 /\ k(b).at = 0 /\ k(b).conn = 0 /\ k(b).inner = 0 /\ k(b).end = 0
             /\ ~k(b).eof /\ k(b).err = 0 /\ ~k(b).noCache /\ ~k(b).seekRequest /\ ~k(b).seekDone
             /\ ~k(b).abort /\ ~k(b).freed
  <2> DEFINE r == forwards > 0
             n == f.last
  <2>1. r \in BOOLEAN /\ n \in Nat
    BY <1>4
  <2>2. k(b) = [NewContext EXCEPT !.state = "started", !.phys = n, !.running = r, !.asyncOpen = b]
    OBVIOUS
  <2> HIDE DEF k, r, n
  <2>3. k(b) \in Context
    BY <2>1, <2>2, NewIs DEF Context
  <2>4. /\ k(b).state = "started" /\ k(b).running = r /\ k(b).phys = n
        /\ k(b).read = 0 /\ k(b).fill = 0 /\ k(b).at = 0 /\ k(b).conn = 0 /\ k(b).inner = 0 /\ k(b).end = 0
    BY <2>1, <2>2, NewIs DEF Context
  <2>5. /\ ~k(b).eof /\ k(b).err = 0 /\ ~k(b).noCache /\ ~k(b).seekRequest /\ ~k(b).seekDone
        /\ ~k(b).abort /\ ~k(b).freed
    BY <2>1, <2>2, NewIs DEF Context
  <2> QED BY <2>3, <2>4, <2>5 DEF r, n
<1>8. ASSUME NEW r \in Int, Returns(r)
      PROVE  /\ IoTyped' /\ ~Stops' /\ io'.op = "none" /\ io'.x = x /\ io'.ret = r /\ io'.data = <<>>
             /\ \A op, y : op # "none" => ~Turns(op, y)'
  BY <1>8, ReturnsTyped
<1>9. 0 \in Int /\ Eio \in Int /\ 0 # Eof /\ Eio # Eof
  BY DEF Eof, Eio
<1>10. CASE /\ \E put \in BOOLEAN : c' = [c EXCEPT ![x] = k(put)]
            /\ task' = [task EXCEPT ![x] = IF forwards > 0 THEN "queued" ELSE "none"]
            /\ Returns(0)
            /\ UNCHANGED env
  <2>1. PICK put \in BOOLEAN : c' = [c EXCEPT ![x] = k(put)]
    BY <1>10
  <2> DEFINE m == k(put)
             s == IF forwards > 0 THEN "queued" ELSE "none"
  <2>2. /\ m \in Context /\ m.state = "started" /\ m.running = (forwards > 0) /\ m.phys = f.last
        /\ m.read = 0 /\ m.fill = 0 /\ m.at = 0 /\ m.conn = 0 /\ m.inner = 0 /\ m.end = 0
        /\ ~m.eof /\ m.err = 0 /\ ~m.noCache /\ ~m.seekRequest /\ ~m.seekDone /\ ~m.abort /\ ~m.freed
        /\ c' = [c EXCEPT ![x] = m]
    BY <1>7, <2>1
  <2>3. s \in {"queued", "none"} /\ (s = "queued" <=> forwards > 0) /\ task' = [task EXCEPT ![x] = s]
    BY <1>10
  <2>4. forwards = 0 => file'.off = f.last
    BY <1>5
  <2>5. /\ IoTyped' /\ ~Stops' /\ io'.op = "none" /\ io'.x = x /\ io'.data = <<>> /\ io'.ret # Eof
        /\ \A op, y : op # "none" => ~Turns(op, y)'
    BY <1>8, <1>9, <1>10
  <2> HIDE DEF m, s, k, off
  <2>6. \E l \in Context, t \in {"queued", "none"} :
            /\ c' = [c EXCEPT ![x] = l] /\ task' = [task EXCEPT ![x] = t] /\ (t = "queued" <=> forwards > 0)
            /\ l.state = "started" /\ l.running = (forwards > 0) /\ l.phys = f.last
            /\ l.read = 0 /\ l.fill = 0 /\ l.at = 0 /\ l.conn = 0 /\ l.inner = 0 /\ l.end = 0
            /\ ~l.eof /\ l.err = 0 /\ ~l.noCache /\ ~l.seekRequest /\ ~l.seekDone /\ ~l.abort /\ ~l.freed
            /\ forwards = 0 => file'.off = l.phys
    BY <2>2, <2>3, <2>4
  <2>7. env' = env
    BY <1>10
  <2> QED BY <1>1, <1>5, <1>6, <2>5, <2>6, <2>7 DEF Opened, f
<1>11. CASE env' = Failed(env) /\ Returns(Eio) /\ UNCHANGED <<c, task>>
  <2>1. /\ IoTyped' /\ ~Stops' /\ io'.op = "none" /\ io'.x = x /\ io'.data = <<>> /\ io'.ret # Eof
        /\ \A op, y : op # "none" => ~Turns(op, y)'
    BY <1>8, <1>9, <1>11
  <2>2. /\ env' \in Env /\ env'.interrupted = env.interrupted /\ env'.behind = env.behind
        /\ env'.staleMap = env.staleMap /\ env'.switched = env.switched /\ env'.misled = env.misled
        /\ env.failed => env'.failed
    BY <1>11, FailedIs
  <2> HIDE DEF k, off
  <2> QED BY <1>1, <1>5, <1>6, <1>11, <2>1, <2>2 DEF Opened, f
<1> QED BY <1>1, <1>10, <1>11

LEMMA ShapeOpenContext ==
    ASSUME Shape, env \in Env, OpenContext
    PROVE  Shape'
<1>1. /\ io.op = "open" /\ io.at = "pause" /\ io.todo = {} /\ IoTyped /\ Thread /\ FileTyped /\ Numbered
      /\ c \in [Ctx -> Context] /\ task \in [Ctx -> Stages] /\ forwards \in Nat
  BY DEF OpenContext, Shape, Typed
<1>2. PICK x \in Ctx : x = io.x
  BY <1>1 DEF IoTyped
<1>3. Opened(x)
  BY <1>2, OpenedIs
<1>4. /\ forwards' = forwards /\ io'.op = "none" /\ IoTyped' /\ ~Stops' /\ FileTyped' /\ Numbered'
      /\ file'.open /\ file'.map = OpenedFile.map /\ env'.interrupted = env.interrupted
  BY <1>3 DEF Opened
<1>5. c[x].state = "closed" /\ \A y \in Ctx : c[y].state # "started" /\ (~file.open => c[y].state = "closed")
  BY <1>1, <1>2 DEF Thread
<1>6. Thread'
  BY <1>4 DEF Thread
<1>7. ~Stops /\ \A y : ~Turns("seek", y)
  BY <1>1 DEF Stops, Turns
<1>8. file.open => file'.map = file.map
  BY <1>1, <1>4, OpenedFileIs
<1>9. ASSUME NEW y \in Ctx, c'[y] = c[y], task'[y] = task[y] PROVE Control(y)' /\ Window(y)' /\ Offset(y)'
  <2>1. Control(y) /\ Window(y)
    BY DEF Shape
  <2>2. task[y] = "none" /\ ~c[y].running
    BY <1>5, <2>1 DEF Control
  <2>3. Control(y)'
    BY <1>4, <1>5, <1>7, <1>9, <2>1, <2>2 DEF Control
  <2>4. Window(y)'
    BY <1>4, <1>5, <1>8, <1>9, <2>1 DEF Window, Cached
  <2>5. Offset(y)'
    BY <1>5, <1>9 DEF Offset
  <2> QED BY <2>3, <2>4, <2>5
<1>10. CASE c' = c /\ task' = task
  <2>1. Typed' /\ Alone'
    BY <1>1, <1>4, <1>10 DEF Typed, Shape, Alone
  <2> QED BY <1>4, <1>6, <1>9, <1>10, <2>1 DEF Shape
<1>11. ASSUME NEW k \in Context, NEW s \in {"queued", "none"},
            c' = [c EXCEPT ![x] = k], task' = [task EXCEPT ![x] = s], s = "queued" <=> forwards > 0,
            k.state = "started", k.running = (forwards > 0), k.read = 0, k.fill = 0,
            ~k.noCache, ~k.seekRequest, ~k.abort, forwards = 0 => file'.off = k.phys
       PROVE Shape'
  <2>1. /\ c'[x] = k /\ task'[x] = s /\ \A y \in Ctx \ {x} : c'[y] = c[y] /\ task'[y] = task[y]
    BY <1>1, <1>11
  <2>2. Typed'
    BY <1>1, <1>4, <1>11 DEF Typed, Stages
  <2>3. Alone'
    BY <1>5, <2>1 DEF Alone
  <2>4. Control(x)'
    BY <1>1, <1>4, <1>11, <2>1 DEF Control
  <2>5. Window(x)'
    <3>1. \A i \in k.read .. k.fill - 1 : FALSE
      BY <1>11
    <3> QED BY <2>1, <3>1 DEF Window
  <2>6. Offset(x)'
    BY <1>4, <1>11, <2>1 DEF Offset
  <2>7. \A y \in Ctx : Control(y)' /\ Window(y)' /\ Offset(y)'
    BY <1>9, <2>1, <2>4, <2>5, <2>6
  <2> QED BY <1>4, <1>6, <2>2, <2>3, <2>7 DEF Shape
<1>12. \/ c' = c /\ task' = task
       \/ \E k \in Context, s \in {"queued", "none"} :
            /\ c' = [c EXCEPT ![x] = k] /\ task' = [task EXCEPT ![x] = s] /\ (s = "queued" <=> forwards > 0)
            /\ k.state = "started" /\ k.running = (forwards > 0) /\ k.read = 0 /\ k.fill = 0
            /\ ~k.noCache /\ ~k.seekRequest /\ ~k.abort /\ (forwards = 0 => file'.off = k.phys)
  BY <1>3 DEF Opened
<1> QED BY <1>10, <1>11, <1>12

\* A context that goes on.
LEMMA ResumedIs ==
    ASSUME Typed, NEW x \in Ctx, c[x].state # "closed"
    PROVE  LET k == Resumed(x) IN
           /\ k \in Context /\ k.state = "started"
           /\ k.read = c[x].read /\ k.fill = c[x].fill /\ k.inner = c[x].inner /\ k.conn = c[x].conn
           /\ k.at = c[x].at /\ k.end = c[x].end /\ k.eof = c[x].eof /\ k.err = c[x].err /\ k.noCache = c[x].noCache
           /\ k.seekRequest = c[x].seekRequest /\ k.seekDone = c[x].seekDone /\ k.seekPos = c[x].seekPos
           /\ k.freed = c[x].freed
           /\ c[x].state = "started" => k = c[x] /\ ~Again(x)
           /\ c[x].state = "paused" => ~k.abort /\ k.running = Again(x)
<1>1. c[x] \in Context /\ file.last \in Nat /\ c[x].state \in {"started", "paused"}
  BY DEF Typed, FileTyped, File, Context
<1>2. CASE c[x].state = "started"
  BY <1>1, <1>2 DEF Resumed, Again
<1>3. CASE c[x].state = "paused"
  <2> DEFINE a == Again(x)
             n == IF a THEN file.last ELSE c[x].phys
             k == [c[x] EXCEPT !.state = "started", !.abort = FALSE, !.running = a, !.phys = n]
  <2>1. Resumed(x) = k
    <3> HIDE DEF a
    <3> QED BY <1>3 DEF Resumed, a
  <2>2. a \in BOOLEAN /\ n \in Nat
    <3>1. a \in BOOLEAN
      BY <1>3 DEF Again
    <3> HIDE DEF a
    <3> QED BY <1>1, <3>1 DEF Context
  <2> HIDE DEF a, n
  <2>3. k \in Context
    BY <1>1, <2>2 DEF Context
  <2>4. /\ k.state = "started" /\ ~k.abort /\ k.running = a
        /\ k.read = c[x].read /\ k.fill = c[x].fill /\ k.inner = c[x].inner /\ k.conn = c[x].conn
        /\ k.at = c[x].at /\ k.end = c[x].end /\ k.eof = c[x].eof /\ k.err = c[x].err /\ k.noCache = c[x].noCache
    BY <1>1, <2>2 DEF Context
  <2>5. /\ k.seekRequest = c[x].seekRequest /\ k.seekDone = c[x].seekDone /\ k.seekPos = c[x].seekPos
        /\ k.freed = c[x].freed
    BY <1>1, <2>2 DEF Context
  <2> HIDE DEF k
  <2> QED BY <1>3, <2>1, <2>3, <2>4, <2>5 DEF a
<1> QED BY <1>1, <1>2, <1>3

LEMMA ShapeUse ==
    ASSUME Shape, NEW x \in Ctx, io.op = "none", Usable(x), forwards > 0 \/ c[x].state # "paused",
           c' = [c EXCEPT ![x] = Resumed(x)], task' = (IF Again(x) THEN [task EXCEPT ![x] = "queued"] ELSE task),
           file' = file, forwards' = forwards, env'.interrupted = env.interrupted,
           IoTyped', ~Stops', io'.op \in {"read", "seek"}, io'.x = x
    PROVE  Shape'
<1>1. /\ Typed /\ FileTyped /\ Numbered /\ IoTyped /\ Thread /\ c \in [Ctx -> Context] /\ task \in [Ctx -> Stages]
      /\ Control(x) /\ Window(x) /\ Offset(x)
  BY DEF Shape, Typed
<1>2. /\ c[x].state # "closed" /\ ~c[x].freed /\ c[x].state \in {"started", "paused"}
      /\ c[x].state = "paused" => \A y \in Ctx : c[y].state # "started"
  BY <1>1 DEF Usable, Context
<1> DEFINE k == Resumed(x)
           s == IF Again(x) THEN "queued" ELSE task[x]
<1>3. /\ k \in Context /\ k.state = "started" /\ k.read = c[x].read /\ k.fill = c[x].fill
      /\ k.noCache = c[x].noCache /\ k.seekRequest = c[x].seekRequest /\ k.seekDone = c[x].seekDone
      /\ k.freed = c[x].freed
      /\ c[x].state = "started" => k = c[x] /\ ~Again(x)
      /\ c[x].state = "paused" => ~k.abort /\ k.running = Again(x)
  BY <1>1, <1>2, ResumedIs
<1> HIDE DEF k
<1>4. c' = [c EXCEPT ![x] = k] /\ task' = [task EXCEPT ![x] = s] /\ s \in Stages
  BY <1>1 DEF Stages, k
<1>5. ~Stops /\ \A y : ~Turns("seek", y)
  BY <1>1 DEF Stops, Turns
<1>6. c'[x] = k /\ task'[x] = s /\ \A y \in Ctx \ {x} : c'[y] = c[y]
  BY <1>1, <1>4
<1>7. FileTyped' /\ Numbered'
  BY <1>1 DEF FileTyped, File, Numbered
<1>8. Thread'
  <2>1. file.open
    BY <1>1, <1>2 DEF Thread
  <2> QED BY <1>2, <1>3, <1>6, <2>1 DEF Thread
<1>9. Control(x)'
  <2>1. CASE c[x].state = "started"
    <3>1. c'[x] = c[x] /\ task'[x] = task[x]
      BY <1>3, <1>6, <2>1
    <3> QED BY <1>1, <1>5, <3>1 DEF Control
  <2>2. CASE c[x].state = "paused" /\ Again(x)
    <3>1. s = "queued" /\ ~c[x].noCache /\ forwards > 0
      BY <2>2 DEF Again
    <3>2. c[x].seekRequest => ~c[x].seekDone /\ env.interrupted
      BY <1>1, <1>5 DEF Control
    <3> QED BY <1>3, <1>6, <2>2, <3>1, <3>2 DEF Control
  <2>3. CASE c[x].state = "paused" /\ ~Again(x)
    <3>1. s = task[x] /\ task[x] = "none"
      BY <1>1, <2>3 DEF Control
    <3>2. c[x].seekRequest => ~c[x].seekDone /\ env.interrupted
      BY <1>1, <1>5 DEF Control
    <3>3. c[x].noCache => forwards > 0
      BY <1>1 DEF Control
    <3> QED BY <1>3, <1>6, <2>3, <3>1, <3>2, <3>3 DEF Control
  <2> QED BY <1>2, <2>1, <2>2, <2>3
<1>10. Window(x)'
  BY <1>1, <1>2, <1>3, <1>6 DEF Window, Cached
<1>11. Offset(x)'
  <2>1. CASE c[x].state = "started"
    BY <1>1, <1>3, <1>6, <2>1 DEF Offset
  <2>2. CASE c[x].state = "paused"
    BY <1>1, <2>2 DEF Offset, Typed
  <2> QED BY <1>2, <2>1, <2>2
<1>12. \A y \in Ctx \ {x} : /\ file'.map[y] = file.map[y] /\ file'.off = file.off
                            /\ ~(Stops /\ io.y = y) /\ ~Turns("seek", y) /\ c[y].state # "started"
  <2>1. c[x].state = "started" => \A y \in Ctx \ {x} : c[y].state # "started"
    BY DEF Shape, Alone
  <2> QED BY <1>2, <1>5, <2>1
<1> HIDE DEF s
<1>13. IoTyped' /\ forwards' = forwards /\ env'.interrupted = env.interrupted
  OBVIOUS
<1>14. Elsewhere(x, k)
  BY <1>12 DEF Elsewhere
<1>15. k \in Context
  BY <1>3
<1> QED BY <1>4, <1>7, <1>8, <1>9, <1>10, <1>11, <1>13, <1>14, <1>15, Moves, Zenon

LEMMA ReadCallTyped ==
    ASSUME Shape, NEW x \in Ctx, NEW n \in 1 .. 2, ReadCall(x, n)
    PROVE  /\ IoTyped' /\ ~Stops' /\ io'.op = "read" /\ io'.at = "enter" /\ io'.x = x
           /\ io'.data = <<>> /\ io'.from = c[x].at /\ io'.ret = 0
           /\ \A y \in Ctx : c'[y].at = c[y].at
<1>1. /\ io' = [Idle EXCEPT !.op = "read", !.at = "enter", !.x = x, !.want = n, !.from = c[x].at]
      /\ c' = [c EXCEPT ![x] = Resumed(x)] /\ c[x].state # "closed" /\ Typed /\ c \in [Ctx -> Context]
  BY DEF ReadCall, Usable, Shape, Typed
<1> DEFINE a == c[x].at
<1>2. a \in Nat /\ n \in Nat /\ n > 0
  BY <1>1 DEF Context
<1>3. io' = [Idle EXCEPT !.op = "read", !.at = "enter", !.x = x, !.want = n, !.from = a]
  BY <1>1
<1> HIDE DEF a
<1>4. /\ io' \in Caller /\ io'.op = "read" /\ io'.at = "enter" /\ io'.x = x /\ io'.want = n
      /\ io'.data = <<>> /\ io'.from = a /\ io'.ret = 0
  BY <1>2, <1>3, IdleIs DEF Caller
<1>5. \A y \in Ctx : c'[y].at = c[y].at
  <2>1. Resumed(x).at = c[x].at
    BY <1>1, ResumedIs
  <2> QED BY <1>1, <2>1
<1>6. IoTyped' /\ ~Stops'
  <2>1. Len(<<>>) < n
    BY <1>2
  <2>2. io'.from = c'[x].at
    BY <1>4, <1>5 DEF a
  <2> QED BY <1>4, <2>1, <2>2 DEF IoTyped, Stops
<1> QED BY <1>4, <1>5, <1>6 DEF a

LEMMA SeekCallTyped ==
    ASSUME Shape, NEW x \in Ctx, NEW p \in 0 .. FileSize, SeekCall(x, p)
    PROVE  /\ IoTyped' /\ ~Stops' /\ io'.op = "seek" /\ io'.at = "enter" /\ io'.x = x /\ io'.want = p
           /\ io'.data = <<>> /\ io'.ret = 0
<1>1. io' = [Idle EXCEPT !.op = "seek", !.at = "enter", !.x = x, !.want = p] /\ p \in Nat
  BY CacheAssumption DEF SeekCall
<1>2. /\ io' \in Caller /\ io'.op = "seek" /\ io'.at = "enter" /\ io'.x = x /\ io'.want = p
      /\ io'.data = <<>> /\ io'.ret = 0
  BY <1>1, IdleIs DEF Caller
<1> QED BY <1>2 DEF IoTyped, Stops

LEMMA ShapeReadCall ==
    ASSUME Shape, env \in Env, NEW x \in Ctx, NEW n \in 1 .. 2, ReadCall(x, n), ~env'.switched
    PROVE  Shape'
<1>1. /\ io.op = "none" /\ Usable(x) /\ c' = [c EXCEPT ![x] = Resumed(x)]
      /\ task' = (IF Again(x) THEN [task EXCEPT ![x] = "queued"] ELSE task)
      /\ file' = file /\ forwards' = forwards
      /\ env' = [Called EXCEPT !.switched = @ \/ (forwards = 0 /\ c[x].state = "paused")]
  BY DEF ReadCall, Call
<1>2. env'.interrupted = env.interrupted /\ ~(forwards = 0 /\ c[x].state = "paused")
  BY <1>1 DEF Called, Env
<1>3. forwards > 0 \/ c[x].state # "paused"
  BY <1>2 DEF Shape, Typed
<1> QED BY <1>1, <1>2, <1>3, ReadCallTyped, ShapeUse

LEMMA ShapeSeekCall ==
    ASSUME Shape, env \in Env, NEW x \in Ctx, NEW p \in 0 .. FileSize, SeekCall(x, p), ~env'.switched
    PROVE  Shape'
<1>1. /\ io.op = "none" /\ Usable(x) /\ c' = [c EXCEPT ![x] = Resumed(x)]
      /\ task' = (IF Again(x) THEN [task EXCEPT ![x] = "queued"] ELSE task)
      /\ file' = file /\ forwards' = forwards
      /\ env' = [Called EXCEPT !.switched = @ \/ (forwards = 0 /\ c[x].state = "paused")]
  BY DEF SeekCall, Call
<1>2. env'.interrupted = env.interrupted /\ ~(forwards = 0 /\ c[x].state = "paused")
  BY <1>1 DEF Called, Env
<1>3. forwards > 0 \/ c[x].state # "paused"
  BY <1>2 DEF Shape, Typed
<1> QED BY <1>1, <1>2, <1>3, SeekCallTyped, ShapeUse

LEMMA ShapeShare ==
    ASSUME Shape, env \in Env, WillShare \/ DidShare
    PROVE  Shape'
<1>1. /\ forwards' = forwards /\ c' = c /\ task' = task /\ io' = io /\ FileTyped /\ Numbered /\ IoTyped /\ Thread
      /\ env'.interrupted = env.interrupted /\ file \in File
  <2>1. forwards' = forwards /\ c' = c /\ task' = task /\ io' = io /\ env' \in {env, Trouble}
    BY DEF WillShare, DidShare
  <2>2. FileTyped /\ Numbered /\ IoTyped /\ Thread /\ file \in File
    BY DEF Shape, Typed, FileTyped
  <2>3. Trouble.interrupted = env.interrupted
    BY DEF Trouble, Env
  <2> QED BY <2>1, <2>2, <2>3
<1>2. /\ file' \in File /\ file'.map = file.map /\ file'.off = file.off /\ file'.open = file.open
      /\ file'.last = file.last /\ file'.disk = file.disk
      /\ file'.saved = file.saved \/ (file.open /\ file'.saved = file.map)
  <2>1. CASE DidShare
    BY <1>1, <2>1 DEF DidShare, File
  <2>2. CASE WillShare
    <3> DEFINE b == env.staleMap
               m == file.map
    <3>1. file' = [file EXCEPT !.shared = TRUE, !.saved = m, !.savedBad = b] /\ file.open
      BY <2>2 DEF WillShare
    <3>2. b \in BOOLEAN /\ m \in Trees
      BY <1>1 DEF Env, File
    <3> HIDE DEF b, m
    <3>3. /\ file' \in File /\ file'.map = file.map /\ file'.off = file.off /\ file'.open = file.open
          /\ file'.last = file.last /\ file'.disk = file.disk /\ file'.saved = m
      BY <1>1, <3>1, <3>2 DEF File
    <3> QED BY <3>1, <3>3 DEF m
  <2> QED BY <2>1, <2>2
<1>3. FileTyped'
  BY <1>1, <1>2 DEF FileTyped
<1>4. Numbered'
  <2>1. CASE file'.saved = file.saved
    BY <1>1, <1>2, <2>1 DEF Numbered
  <2>2. CASE file.open /\ file'.saved = file.map
    <3>1. file.last \in Nat /\ Sizes(file.map) = file.last
      BY <1>1, FillsSizes DEF Numbered, File
    <3> QED BY <1>1, <1>2, <2>2, <3>1 DEF Numbered
  <2> QED BY <1>2, <2>1, <2>2
<1>5. IoTyped' /\ Stops' = Stops /\ \A y : Turns("seek", y)' = Turns("seek", y)
  BY <1>1 DEF IoTyped, Stops, Turns, Caller
<1>6. Thread'
  BY <1>1, <1>2, <1>5 DEF Thread
<1> QED BY <1>1, <1>2, <1>3, <1>4, <1>5, <1>6, ContextsStay

LEMMA ShapeInterrupt ==
    ASSUME Shape, Interrupt
    PROVE  Shape'
<1>1. /\ forwards' = forwards /\ c' = c /\ task' = task /\ io' = io /\ file' = file
      /\ FileTyped /\ Numbered /\ IoTyped /\ Thread /\ ~env.interrupted
  BY DEF Interrupt, Shape, Typed
<1>2. FileTyped' /\ Numbered' /\ IoTyped' /\ Thread' /\ Stops' = Stops /\ \A y : Turns("seek", y)' = Turns("seek", y)
  BY <1>1 DEF FileTyped, File, Numbered, IoTyped, Caller, Thread, Stops, Turns
<1> QED BY <1>1, <1>2, ContextsStay

\* The beginning: no context, no task, no call.
LEMMA NothingRuns ==
    ASSUME NEW f \in File, forwards' \in Nat, c' = [x \in Ctx |-> NewContext], task' = [x \in Ctx |-> "none"],
           io' = Idle, file' = f, ~f.open, Numbered'
    PROVE  Shape'
<1>1. c' \in [Ctx -> Context] /\ task' \in [Ctx -> Stages]
  BY NewIs DEF Stages
<1>2. io' \in Caller /\ io'.op = "none" /\ io'.at = "idle"
  BY IdleIs
<1>3. IoTyped' /\ ~Stops'
  BY <1>2 DEF IoTyped, Stops
<1>4. FileTyped'
  BY DEF FileTyped
<1>5. \A x \in Ctx : c'[x].state = "closed"
  BY NewIs
<1>6. Alone' /\ Thread'
  BY <1>2, <1>3, <1>5 DEF Alone, Thread
<1>7. ASSUME NEW x \in Ctx PROVE Control(x)' /\ Window(x)' /\ Offset(x)'
  <2>1. c'[x] = NewContext /\ task'[x] = "none"
    OBVIOUS
  <2>2. Control(x)'
    BY <2>1, NewIs DEF Control
  <2>3. Window(x)' /\ Offset(x)'
    BY <2>1, NewIs DEF Window, Offset
  <2> QED BY <2>2, <2>3
<1> QED BY <1>1, <1>3, <1>4, <1>6, <1>7 DEF Shape, Typed

LEMMA RestartIs ==
    ASSUME forwards \in Nat, env \in Env, NEW saved \in Trees, NEW n \in Nat, Fills(saved, n), NEW bad \in BOOLEAN,
           NEW disk \in Seq(Data), Restart(saved, bad, disk)
    PROVE  /\ Shape' /\ env' \in Env /\ env'.switched = env.switched /\ env'.misled = env.misled
           /\ env'.failed = env.failed /\ env'.behind = {} /\ ~env'.interrupted /\ (env'.staleMap => bad)
           /\ file'.disk = disk /\ file'.saved = saved /\ file'.savedBad = bad /\ ~file'.open
           /\ file'.map = NoMap \/ (file'.map = saved /\ env'.staleMap = bad)
           /\ c' = [x \in Ctx |-> NewContext] /\ task' = [x \in Ctx |-> "none"] /\ io' = Idle
           /\ forwards' = forwards
<1>1. PICK parse \in BOOLEAN :
        LET map == IF parse THEN saved ELSE NoMap IN
        /\ file' = [last |-> Sizes(map), off |-> 0, disk |-> disk, map |-> map, open |-> FALSE,
                    shared |-> FALSE, saved |-> saved, savedBad |-> bad]
        /\ env' = [Trouble EXCEPT !.restarts = @ - 1, !.interrupted = FALSE, !.behind = {},
                              !.staleMap = parse /\ bad]
  BY Zenon DEF Restart
<1> DEFINE map == IF parse THEN saved ELSE NoMap
           l == Sizes(map)
           b == parse /\ bad
           r == env.restarts - 1
           t == env.troubles - 1
           f == [last |-> l, off |-> 0, disk |-> disk, map |-> map, open |-> FALSE,
                 shared |-> FALSE, saved |-> saved, savedBad |-> bad]
<1>2. file' = f /\ env' = [env EXCEPT !.troubles = t, !.restarts = r, !.interrupted = FALSE, !.behind = {}, !.staleMap = b]
  <2>1. Trouble.restarts = env.restarts
    BY DEF Trouble
  <2>2. env' = [Trouble EXCEPT !.restarts = r, !.interrupted = FALSE, !.behind = {}, !.staleMap = b]
    <3> HIDE DEF b
    <3> QED BY <1>1, <2>1 DEF b
  <2>3. Trouble = [env EXCEPT !.troubles = t]
    BY Zenon DEF Trouble
  <2>4. file' = f
    BY <1>1, Zenon
  <2> HIDE DEF b, r, t
  <2> QED BY <2>2, <2>3, <2>4
<1>3. map \in Trees /\ l \in Nat /\ Fills(map, l)
  BY FillsSizes, NoFills
<1>4. b \in BOOLEAN /\ r \in Int /\ t \in Int /\ (b => bad) /\ (map = NoMap \/ (map = saved /\ b = bad))
  BY DEF Env
<1>5. Sizes(saved) \in Nat /\ Fills(saved, Sizes(saved))
  BY FillsSizes
<1> HIDE DEF map, l, b, r, t
<1>6. f \in File
  BY <1>3 DEF File
<1>7. /\ f.disk = disk /\ f.saved = saved /\ f.savedBad = bad /\ ~f.open /\ f.map = map /\ f.last = l
  OBVIOUS
<1> HIDE DEF f
<1>8. Numbered'
  BY <1>2, <1>3, <1>4, <1>5, <1>7 DEF Numbered
<1>9. /\ env' \in Env /\ env'.switched = env.switched /\ env'.misled = env.misled
      /\ env'.failed = env.failed /\ env'.behind = {} /\ ~env'.interrupted /\ env'.staleMap = b
  <2>1. {} \in SUBSET Ctx
    OBVIOUS
  <2> QED BY <1>2, <1>4, <2>1 DEF Env
<1>10. /\ c' = [x \in Ctx |-> NewContext] /\ task' = [x \in Ctx |-> "none"] /\ io' = Idle /\ forwards' = forwards
  BY Zenon DEF Restart
<1>11. Shape'
  BY <1>2, <1>6, <1>7, <1>8, <1>10, NothingRuns
<1> QED BY <1>2, <1>4, <1>7, <1>9, <1>10, <1>11

\* The process ends, and a new manager begins.
LEMMA EndIs ==
    ASSUME Shape, env \in Env, Quit \/ Crash
    PROVE  /\ Shape' /\ env' \in Env /\ env'.switched = env.switched /\ env'.misled = env.misled
           /\ env'.failed = env.failed /\ env'.behind = {} /\ ~env'.interrupted
           /\ env'.staleMap => file'.savedBad
           /\ file'.map = NoMap \/ (file'.map = file'.saved /\ env'.staleMap = file'.savedBad)
           /\ ~file'.open /\ file.open
           /\ c' = [x \in Ctx |-> NewContext] /\ task' = [x \in Ctx |-> "none"] /\ io' = Idle
           /\ forwards' = forwards
           /\ \/ file'.saved = file.map /\ file'.savedBad = env.staleMap /\ file'.disk = file.disk
              \/ /\ file'.saved = file.saved /\ file'.savedBad = file.savedBad
                 /\ \E n \in 0 .. Len(file.disk) : file'.disk = SubSeq(file.disk, 1, n)
<1>1. /\ file.map \in Trees /\ file.saved \in Trees /\ file.last \in Nat /\ Fills(file.map, file.last)
      /\ Sizes(file.saved) \in Nat /\ Fills(file.saved, Sizes(file.saved))
      /\ file.disk \in Seq(Data) /\ env.staleMap \in BOOLEAN /\ file.savedBad \in BOOLEAN /\ forwards \in Nat
  BY DEF Shape, Typed, FileTyped, File, Numbered, Env
<1>2. CASE Quit
  <2>1. Restart(file.map, env.staleMap, file.disk) /\ file.open
    BY <1>2 DEF Quit
  <2> QED BY <1>1, <2>1, RestartIs
<1>3. CASE Crash
  <2>1. PICK n \in 0 .. Len(file.disk) : Restart(file.saved, file.savedBad, SubSeq(file.disk, 1, n))
    BY <1>3 DEF Crash
  <2> DEFINE d == SubSeq(file.disk, 1, n)
  <2>2. d \in Seq(Data)
    BY <1>1
  <2>3. Restart(file.saved, file.savedBad, d)
    BY <2>1
  <2>4. \E m \in 0 .. Len(file.disk) : d = SubSeq(file.disk, 1, m)
    OBVIOUS
  <2>5. file.open
    BY <1>3 DEF Crash
  <2> HIDE DEF d
  <2>6. /\ Shape' /\ env' \in Env /\ env'.switched = env.switched /\ env'.misled = env.misled
        /\ env'.failed = env.failed /\ env'.behind = {} /\ ~env'.interrupted
        /\ env'.staleMap => file.savedBad
        /\ file'.disk = d /\ file'.saved = file.saved /\ file'.savedBad = file.savedBad /\ ~file'.open
        /\ file'.map = NoMap \/ (file'.map = file.saved /\ env'.staleMap = file.savedBad)
        /\ c' = [x \in Ctx |-> NewContext] /\ task' = [x \in Ctx |-> "none"] /\ io' = Idle
        /\ forwards' = forwards
    BY <1>1, <2>2, <2>3, RestartIs
  <2> QED BY <2>4, <2>5, <2>6
<1> QED BY <1>2, <1>3

\* A step of the player leads from Shape to Shape.
LEMMA ShapeNext ==
    ASSUME Shape, env \in Env, Next, ~env'.switched
    PROVE  Shape'
<1>1. CASE \E x \in Ctx : Task(x)
  <2>1. PICK x \in Ctx : Task(x)
    BY <1>1
  <2> QED BY <2>1, ShapeStart, ShapeTop, ShapeFind, ShapeFetch, ShapeAdd, ShapeLeave, Zenon DEF Task
<1>2. CASE DemuxerStep
  BY <1>2, ShapePause, ShapePaused, ShapeOpenContext, ShapeClosed, ShapeEnterRead, ShapeSyncCached,
     ShapeSyncThrough, ShapeReadTurn, ShapeEnterSeek, ShapeSeekTurn, Zenon DEF DemuxerStep
<1>3. CASE Calls
  BY <1>3, ShapeOpenCall, ShapeCloseCall, ShapeReadCall, ShapeSeekCall, Zenon DEF Calls
<1>4. CASE WillShare \/ DidShare
  BY <1>4, ShapeShare
<1>5. CASE Interrupt
  BY <1>5, ShapeInterrupt
<1>6. CASE Quit \/ Crash
  BY <1>6, EndIs
<1> QED BY <1>1, <1>2, <1>3, <1>4, <1>5, <1>6, Zenon DEF Next

-----------------------------------------------------------------------------
(* The environment, and the invariant of Shape.                            *)

\* What became of a synchronous context does not become undone.
LEMMA SwitchedStays ==
    ASSUME "switched" \in DOMAIN env, Next
    PROVE  /\ "switched" \in DOMAIN env' /\ forwards' = forwards
           /\ env.switched => env'.switched
           /\ env'.switched => env.switched \/ forwards = 0
<1> DEFINE SticksEnv == /\ "switched" \in DOMAIN env'
                        /\ env.switched => env'.switched
                        /\ env'.switched => env.switched \/ forwards = 0
           Sticks == SticksEnv /\ forwards' = forwards
<1> USE DEF Called, Failed, After, Trouble
<1>1. ASSUME NEW x \in Ctx, Task(x) PROVE Sticks
  <2>1. CASE TaskFetch(x)
    BY <2>1 DEF TaskFetch
  <2>2. CASE TaskAdd(x)
    BY <2>2 DEF TaskAdd
  <2>3. CASE ~TaskFetch(x) /\ ~TaskAdd(x)
    <3>1. env' = env /\ forwards' = forwards
      BY <1>1, <2>3, Zenon DEF Task, TaskStart, TaskTop, TaskCheck, TaskSleep, TaskFind, TaskTell, TaskLeave
    <3> QED BY <3>1
  <2> QED BY <2>1, <2>2, <2>3
<1>2. ASSUME DemuxerStep PROVE Sticks
  <2>1. CASE \/ \E y \in Ctx : PauseNext(y)
             \/ Paused \/ SyncReadCached \/ SeekTurn
    <3>1. env' = env /\ forwards' = forwards
      BY <2>1, Zenon DEF PauseNext, Paused, SyncReadCached, SeekTurn
    <3> QED BY <3>1
  <2>2. CASE OpenContext
    BY <2>2 DEF OpenContext
  <2>3. CASE Closed
    BY <2>3 DEF Closed
  <2>4. ASSUME NEW x, NEW k, ReadDirect(x, k) PROVE SticksEnv
    BY <2>4 DEF ReadDirect
  <2>9. ASSUME NEW x, DirectSeekFails(x) PROVE SticksEnv
    BY <2>9 DEF DirectSeekFails
  <2>5. CASE EnterRead
    <3>1. (\E x, k : ReadDirect(x, k)) \/ env' = env
      BY <2>5, Zenon DEF EnterRead
    <3> QED BY <2>4, <2>5, <3>1 DEF EnterRead
  <2>6. CASE SyncReadThrough
    <3>1. env' = env \/ env' = Failed(env)
      BY <2>6, Zenon DEF SyncReadThrough
    <3> QED BY <2>6, <3>1 DEF SyncReadThrough
  <2>7. CASE ReadTurn
    <3>1. \/ \E x, k : ReadDirect(x, k)
          \/ \E x : DirectSeekFails(x)
          \/ env' = env
          \/ \E b : env' = [env EXCEPT !.behind = b]
      BY <2>7, Zenon DEF ReadTurn
    <3> QED BY <2>4, <2>7, <2>9, <3>1 DEF ReadTurn
  <2>8. CASE EnterSeek
    <3>1. env' = Failed(env) \/ env' = env \/ \E b : env' = [env EXCEPT !.behind = b]
      BY <2>8, Zenon DEF EnterSeek
    <3> QED BY <2>8, <3>1 DEF EnterSeek
  <2> QED BY <1>2, <2>1, <2>2, <2>3, <2>5, <2>6, <2>7, <2>8 DEF DemuxerStep
<1>3. ASSUME Calls PROVE Sticks
  BY <1>3 DEF Calls, OpenCall, CloseCall, ReadCall, SeekCall
<1>4. ASSUME WillShare \/ DidShare \/ Interrupt PROVE Sticks
  BY <1>4 DEF WillShare, DidShare, Interrupt
<1>5. ASSUME NEW saved, NEW bad, NEW disk, Restart(saved, bad, disk)
      PROVE Sticks
  <2>1. PICK parse \in BOOLEAN :
          env' = [Trouble EXCEPT !.restarts = @ - 1, !.interrupted = FALSE, !.behind = {}, !.staleMap = parse /\ bad]
    BY <1>5, Zenon DEF Restart
  <2>2. forwards' = forwards
    BY <1>5, Zenon DEF Restart
  <2> QED BY <2>1, <2>2
<1>6. Quit \/ Crash => \E saved, bad, disk : Restart(saved, bad, disk)
  BY Zenon DEF Quit, Crash
<1> QED BY <1>1, <1>2, <1>3, <1>4, <1>5, <1>6, Zenon DEF Next

LEMMA EnvNext ==
    ASSUME Shape, env \in Env, Next
    PROVE  env' \in Env
<1>1. /\ c \in [Ctx -> Context] /\ IoTyped /\ (io.op # "none" => io.x \in Ctx)
  BY DEF Shape, Typed, IoTyped
<1>2. ASSUME NEW x \in Ctx, Task(x) PROVE env' \in Env
  <2>1. CASE TaskFetch(x)
    <3>1. Control(x) /\ task[x] = "fetch"
      BY <2>1 DEF Shape, TaskFetch
    <3>2. c[x].fill \in Blocks
      BY <3>1 DEF Control
    <3> QED BY <1>1, <2>1, <3>2, FetchIs
  <2>2. CASE TaskAdd(x)
    <3>1. env' = env \/ env' = [env EXCEPT !.behind = env.behind] \/ env' = [env EXCEPT !.behind = env.behind \cup {x}]
      BY <2>2 DEF TaskAdd
    <3> QED BY <3>1 DEF Env
  <2>3. CASE ~TaskFetch(x) /\ ~TaskAdd(x)
    BY <1>2, <2>3, Zenon DEF Task, TaskStart, TaskTop, TaskCheck, TaskSleep, TaskFind, TaskTell, TaskLeave
  <2> QED BY <2>1, <2>2, <2>3
<1>3. ASSUME DemuxerStep PROVE env' \in Env
  <2>1. CASE \/ \E y \in Ctx : PauseNext(y)
             \/ Paused \/ SyncReadCached \/ SeekTurn
    BY <2>1, Zenon DEF PauseNext, Paused, SyncReadCached, SeekTurn
  <2>2. CASE OpenContext
    <3>1. PICK x \in Ctx : x = io.x
      BY <1>1, <2>2 DEF OpenContext
    <3>2. Opened(x)
      BY <2>2, <3>1, OpenedIs
    <3> QED BY <3>2 DEF Opened
  <2>3. CASE Closed
    <3> DEFINE b == env.behind \ {io.x}
    <3>1. env' = [env EXCEPT !.behind = b] /\ b \subseteq Ctx
      BY <2>3 DEF Closed, Env
    <3> HIDE DEF b
    <3> QED BY <3>1 DEF Env
  <2>4. CASE EnterRead
    <3>1. io.op = "read" /\ io.at = "enter"
      BY <2>4 DEF EnterRead
    <3>2. PICK x \in Ctx : x = io.x
      BY <1>1, <3>1
    <3>3. ReadDirect(x, c[x]) \/ env' = env
      BY <2>4, <3>2, Zenon DEF EnterRead
    <3> QED BY <1>1, <3>1, <3>2, <3>3, DirectIs
  <2>5. CASE SyncReadThrough
    <3>1. PICK x \in Ctx : x = io.x
      BY <1>1, <2>5 DEF SyncReadThrough
    <3>2. env' = env \/ (\E o : env' = After(x, c[x].read, o)) \/ (\E m : ReadThrough(x, m))
      BY <2>5, <3>1, SyncThroughIs
    <3>3. (\E m : ReadThrough(x, m)) => env' = env
      BY Zenon DEF ReadThrough
    <3> QED BY <3>2, <3>3, AfterIs
  <2>6. CASE ReadTurn
    <3>1. PICK x \in Ctx : x = io.x
      BY <1>1, <2>6 DEF ReadTurn
    <3>2. PICK m \in Context : Turned(x, m)
      BY <2>6, <3>1, ReadTurnIs
    <3> QED BY <3>2 DEF Turned
  <2>7. CASE EnterSeek
    <3>1. PICK x \in Ctx : x = io.x
      BY <1>1, <2>7 DEF EnterSeek
    <3>2. PICK m \in Context : SeekEntered(x, m)
      BY <2>7, <3>1, EnterSeekIs
    <3> QED BY <3>2 DEF SeekEntered
  <2> QED BY <1>3, <2>1, <2>2, <2>3, <2>4, <2>5, <2>6, <2>7 DEF DemuxerStep
<1>4. ASSUME Calls PROVE env' \in Env
  <2>1. Called \in Env
    BY DEF Called, Env
  <2>2. \/ env' = Called
        \/ \E x \in Ctx : env' = [Called EXCEPT !.switched = @ \/ (forwards = 0 /\ c[x].state = "paused")]
    BY <1>4, Zenon DEF Calls, OpenCall, CloseCall, ReadCall, SeekCall
  <2>3. \A e \in Env, b \in BOOLEAN : [e EXCEPT !.switched = @ \/ (forwards = 0 /\ b)] \in Env
    <3> SUFFICES ASSUME NEW e \in Env, NEW b \in BOOLEAN PROVE [e EXCEPT !.switched = @ \/ (forwards = 0 /\ b)] \in Env
      OBVIOUS
    <3> DEFINE s == e.switched \/ (forwards = 0 /\ b)
    <3>1. s \in BOOLEAN
      OBVIOUS
    <3> HIDE DEF s
    <3>2. [e EXCEPT !.switched = s] \in Env
      BY <3>1 DEF Env
    <3> QED BY <3>2 DEF s
  <2> QED BY <2>1, <2>2, <2>3
<1>5. ASSUME WillShare \/ DidShare \/ Interrupt PROVE env' \in Env
  <2>1. Trouble \in Env
    BY DEF Trouble, Env
  <2>2. env' = env \/ env' = Trouble \/ env' = [Trouble EXCEPT !.interrupted = TRUE]
    BY <1>5 DEF WillShare, DidShare, Interrupt
  <2> QED BY <2>1, <2>2 DEF Env
<1>6. Quit \/ Crash => env' \in Env
  BY EndIs
<1> QED BY <1>2, <1>3, <1>4, <1>5, <1>6, Zenon DEF Next

\* At first nothing is cached and nothing runs.
LEMMA ShapeInit ==
    ASSUME Init
    PROVE  Shape /\ env \in Env /\ ~env.switched
<1>1. /\ forwards \in Nat /\ c = [x \in Ctx |-> NewContext] /\ task = [x \in Ctx |-> "none"] /\ io = Idle
      /\ file = [last |-> 0, off |-> 0, disk |-> <<>>, map |-> NoMap, open |-> FALSE,
                 shared |-> FALSE, saved |-> NoMap, savedBad |-> FALSE]
  BY CacheAssumption DEF Init
<1>2. env \in Env /\ ~env.switched
  BY CacheAssumption DEF Init, Env
<1>3. file \in File /\ ~file.open /\ file.map = NoMap /\ file.saved = NoMap /\ file.last = 0
  BY <1>1, NoFills DEF File
<1>4. FileTyped /\ Numbered
  BY <1>3, NoFills DEF FileTyped, Numbered
<1>5. io \in Caller /\ io.op = "none" /\ io.at = "idle"
  BY <1>1, IdleIs
<1>6. IoTyped /\ ~Stops
  BY <1>5 DEF IoTyped, Stops
<1>7. \A x \in Ctx : c[x] = NewContext /\ task[x] = "none" /\ c[x].state = "closed"
  BY <1>1, NewIs
<1>8. c \in [Ctx -> Context] /\ task \in [Ctx -> Stages]
  BY <1>1, NewIs DEF Stages
<1>9. Alone /\ Thread
  BY <1>5, <1>6, <1>7 DEF Alone, Thread
<1>10. \A x \in Ctx : Control(x) /\ Window(x) /\ Offset(x)
  <2> SUFFICES ASSUME NEW x \in Ctx PROVE Control(x) /\ Window(x) /\ Offset(x)
    OBVIOUS
  <2>1. Control(x)
    BY <1>7, NewIs DEF Control
  <2>2. Window(x) /\ Offset(x)
    BY <1>7 DEF Window, Offset
  <2> QED BY <2>1, <2>2
<1> QED BY <1>1, <1>2, <1>4, <1>6, <1>8, <1>9, <1>10 DEF Shape, Typed

\* What Shape says is about the state alone.
LEMMA ShapeStutters ==
    ASSUME Shape, UNCHANGED vars
    PROVE  Shape'
<1>1. Stops' = Stops /\ \A op, y : Turns(op, y)' = Turns(op, y)
  BY DEF vars, Stops, Turns
<1>2. Typed' /\ Numbered'
  BY <1>1 DEF Shape, Typed, IoTyped, Caller, FileTyped, File, Numbered, vars
<1>3. Alone' /\ Thread'
  BY <1>1 DEF Shape, Alone, Thread, vars
<1>4. \A x \in Ctx : Control(x)' /\ Window(x)' /\ Offset(x)'
  BY <1>1 DEF Shape, Control, Window, Offset, Cached, vars
<1> QED BY <1>2, <1>3, <1>4 DEF Shape

LEMMA InvNext ==
    ASSUME Inv, [Next]_vars
    PROVE  Inv'
<1>1. CASE UNCHANGED vars
  <2>1. forwards' = forwards /\ env' = env
    BY <1>1 DEF vars
  <2>2. Shape => Shape'
    BY <1>1, ShapeStutters
  <2> QED BY <2>1, <2>2 DEF Inv, Env
<1>2. CASE Next
  <2>1. /\ "switched" \in DOMAIN env' /\ forwards' = forwards /\ (env.switched => env'.switched)
        /\ env'.switched => env.switched \/ forwards = 0
    BY <1>2, SwitchedStays DEF Inv
  <2>2. env \in Env /\ Shape /\ ~env'.switched => Shape'
    BY <1>2, ShapeNext
  <2>3. env \in Env /\ Shape => env' \in Env
    BY <1>2, EnvNext
  <2> QED BY <2>1, <2>2, <2>3 DEF Inv
<1> QED BY <1>1, <1>2

-----------------------------------------------------------------------------

LEMMA InvHolds == Spec => []Inv
<1>1. Init => Inv
  BY ShapeInit DEF Inv, Shape, Typed, Env
<1>2. Inv /\ [Next]_vars => Inv'
  BY InvNext
<1> QED BY <1>1, <1>2, PTL DEF Spec

\* Between the reader and the task that fills the cache ahead of it everything
\* is cached (ijkio_cache_task, ijkiocache.c:497), whatever the demuxer, the
\* network and the process do.
THEOREM WindowCorrect == Spec => []WindowCached
<1>1. Inv => WindowCached
  BY DEF Inv, Shape, Window, WindowCached
<1> QED BY <1>1, InvHolds, PTL

-----------------------------------------------------------------------------
(* Content.                                                                *)

\* Nothing but a lost position parts a connection from where its context believes it to be.
Attached(y) == ~env'.misled /\ Connection(c[y], task[y]) => Connection(c'[y], task'[y])

LEMMA ContentEnters ==
    ASSUME Content, env.switched => env'.switched, env.misled => env'.misled, \A y \in Ctx : Attached(y),
           ~env'.switched /\ env'.staleMap => file'.savedBad,
           ~env.switched /\ ~env.misled /\ ~env'.misled /\ ~env'.staleMap => Holds(file'.map, file'.disk),
           ~env.switched /\ ~env.misled /\ ~env'.misled /\ ~file'.savedBad =>
               /\ Holds(file'.saved, file'.disk)
               /\ file'.open => Sizes(file'.saved) <= file'.last
    PROVE  Content'
<1> SUFFICES ASSUME ~env'.switched PROVE Content'
  BY DEF Content
<1>1. ASSUME ~env'.misled, NEW y \in Ctx
      PROVE Connection(c'[y], task'[y])
  BY <1>1 DEF Content, Attached
<1> QED BY <1>1 DEF Content

\* A step that leaves the cache file alone.
LEMMA ContentStays ==
    ASSUME Content, env.switched => env'.switched, env.misled => env'.misled, env'.staleMap = env.staleMap,
           file'.map = file.map, file'.disk = file.disk, file'.saved = file.saved,
           file'.savedBad = file.savedBad, file'.open = file.open, file'.last = file.last,
           \A y \in Ctx : Attached(y)
    PROVE  Content'
<1>1. ~env'.switched /\ env'.staleMap => file'.savedBad
  BY DEF Content
<1>2. ~env.switched /\ ~env.misled /\ ~env'.misled /\ ~env'.staleMap => Holds(file'.map, file'.disk)
  BY DEF Content
<1>3. ~env.switched /\ ~env.misled /\ ~env'.misled /\ ~file'.savedBad =>
               /\ Holds(file'.saved, file'.disk)
               /\ file'.open => Sizes(file'.saved) <= file'.last
  BY DEF Content
<1> QED BY <1>1, <1>2, <1>3, ContentEnters

\* What is written at the end of the used part overwrites no block that counts.
LEMMA HoldsWritten ==
    ASSUME NEW map \in Trees, NEW n \in Nat, Fills(map, n), NEW disk \in Seq(Data), Holds(map, disk),
           NEW p \in Nat, n <= p, p <= Len(disk), NEW b \in Data
    PROVE  Holds(map, Written(disk, p, b))
<1> DEFINE d == Written(disk, p, b)
<1>1. /\ Len(d) <= Len(disk) \/ Len(d) = p + 1
      /\ \A i \in 1 .. Len(disk) : i # p + 1 => d[i] = disk[i]
  BY WrittenIs
<1> HIDE DEF d
<1>2. ASSUME NEW x \in Ctx, NEW i \in Blocks, map[x][i] # None, map[x][i] < Len(d)
      PROVE  d[map[x][i] + 1] = <<x, i>>
  <2>1. map[x][i] \in 0 .. n - 1
    <3>1. <<x, i>> \in Entries(map)
      BY <1>2 DEF Entries
    <3> QED BY <3>1 DEF Fills
  <2>2. map[x][i] + 1 \in 1 .. Len(disk) /\ map[x][i] + 1 # p + 1 /\ map[x][i] < Len(disk)
    BY <2>1
  <2> QED BY <1>1, <1>2, <2>2 DEF Holds
<1> QED BY <1>2 DEF Holds, d

\* The same with the entry that leads to it.
LEMMA HoldsAdded ==
    ASSUME NEW map \in Trees, NEW n \in Nat, Fills(map, n), NEW disk \in Seq(Data), Holds(map, disk),
           n <= Len(disk), NEW x \in Ctx, NEW i \in Blocks, NEW new,
           \A y \in Ctx, j \in Blocks : new[y][j] = IF y = x /\ j = i THEN n ELSE map[y][j]
    PROVE  Holds(new, Written(disk, n, <<x, i>>))
<1> DEFINE b == <<x, i>>
           d == Written(disk, n, b)
<1>1. b \in Data
  BY DEF Data, Blocks
<1>2. Holds(map, d) /\ d[n + 1] = b
  <2> HIDE DEF b
  <2> QED BY <1>1, HoldsWritten, WrittenIs
<1> HIDE DEF d
<1> QED BY <1>2 DEF Holds, d

LEMMA NoMapHolds == ASSUME NEW disk PROVE Holds(NoMap, disk)
  BY DEF Holds, NoMap, NoTree

\* What a task does to the contexts, without the network and the cache file.
LEMMA ContentTask ==
    ASSUME Shape, env \in Env, Content, NEW x \in Ctx, Task(x), ~TaskFetch(x), ~TaskAdd(x)
    PROVE  Content'
<1>1. Typed /\ c \in [Ctx -> Context] /\ task \in [Ctx -> Stages]
  BY DEF Shape, Typed
<1>2. /\ file' = file /\ env' = env
      /\ \/ TaskStart(x) \/ TaskTop(x) \/ TaskCheck(x) \/ TaskSleep(x) \/ TaskFind(x) \/ TaskTell(x)
         \/ TaskLeave(x)
  BY Zenon DEF Task, TaskStart, TaskTop, TaskCheck, TaskSleep, TaskFind, TaskTell, TaskLeave
<1>3. \A y \in Ctx : c'[y].noCache = c[y].noCache /\ c'[y].conn = c[y].conn /\ c'[y].inner = c[y].inner
  <2>1. CASE TaskTop(x)
    <3>1. Sought(c[x]).noCache = c[x].noCache /\ Sought(c[x]).conn = c[x].conn /\ Sought(c[x]).inner = c[x].inner
      BY <1>1, SoughtIs
    <3>2. \/ c' = c \/ c' = [c EXCEPT ![x] = Sought(c[x])]
          \/ c' = [c EXCEPT ![x].abort = TRUE, ![x].eof = TRUE, ![x].err = Exit]
      BY <2>1 DEF TaskTop
    <3>3. CASE c' = c
      BY <3>3
    <3>4. CASE c' = [c EXCEPT ![x] = Sought(c[x])]
      BY <1>1, <3>1, <3>4
    <3>5. CASE c' = [c EXCEPT ![x].abort = TRUE, ![x].eof = TRUE, ![x].err = Exit]
      BY <1>1, <3>5 DEF Context
    <3> QED BY <3>2, <3>3, <3>4, <3>5
  <2>2. CASE TaskFind(x)
    <3>1. \E n, b : c' = [c EXCEPT ![x].fill = n] \/ c' = [c EXCEPT ![x].fill = n, ![x].eof = @ \/ b]
      BY <2>2, Zenon DEF TaskFind
    <3> QED BY <1>1, <3>1 DEF Context
  <2>3. CASE TaskLeave(x)
    BY <1>1, <2>3 DEF TaskLeave, Context
  <2>4. CASE TaskStart(x) \/ TaskCheck(x) \/ TaskSleep(x) \/ TaskTell(x)
    BY <2>4 DEF TaskStart, TaskCheck, TaskSleep, TaskTell
  <2> QED BY <1>2, <2>1, <2>2, <2>3, <2>4
<1>4. task'[x] # "add" /\ \A y \in Ctx \ {x} : c'[y] = c[y] /\ task'[y] = task[y]
  <2>1. \A y \in Ctx \ {x} : c'[y] = c[y]
    BY <1>1, <1>2 DEF TaskStart, TaskTop, TaskCheck, TaskSleep, TaskFind, TaskTell, TaskLeave
  <2>2. \E s \in Stages : s # "add" /\ task' = [task EXCEPT ![x] = s]
    BY <1>2 DEF TaskStart, TaskTop, TaskCheck, TaskSleep, TaskFind, TaskTell, TaskLeave, Stages
  <2> QED BY <1>1, <2>1, <2>2
<1>5. \A y \in Ctx : Attached(y)
  BY <1>3, <1>4 DEF Attached, Connection
<1> QED BY <1>2, <1>5, ContentStays

LEMMA ContentFetch ==
    ASSUME Shape, env \in Env, Content, NEW x \in Ctx, TaskFetch(x)
    PROVE  Content'
<1>1. /\ Typed /\ c \in [Ctx -> Context] /\ task \in [Ctx -> Stages] /\ Control(x) /\ task[x] = "fetch"
      /\ file' = file
  BY DEF Shape, Typed, TaskFetch
<1>2. c[x].fill \in Blocks /\ ~c[x].noCache
  BY <1>1 DEF Control
<1>3. PICK k \in Context, o \in NetworkOutcomes(x, c[x].fill) :
        /\ c' = [c EXCEPT ![x] = k] /\ k.noCache = c[x].noCache /\ k.fill = c[x].fill
        /\ task' = [task EXCEPT ![x] = IF o = "read" THEN "add" ELSE "top"]
        /\ env'.switched = env.switched /\ env'.staleMap = env.staleMap /\ (env.misled => env'.misled)
        /\ o = "read" => k.conn = ConnAt(c[x], c[x].fill) + 1
        /\ c[x].conn = c[x].inner => ConnAt(c[x], c[x].fill) = c[x].fill
        /\ c[x].conn = c[x].inner /\ ~env'.misled => k.conn = k.inner
  BY <1>1, <1>2, FetchIs
<1>4. \A y \in Ctx \ {x} : c'[y] = c[y] /\ task'[y] = task[y]
  BY <1>1, <1>3
<1>5. c'[x] = k /\ task'[x] = IF o = "read" THEN "add" ELSE "top"
  BY <1>1, <1>3
<1>6. Attached(x)
  BY <1>2, <1>3, <1>5 DEF Attached, Connection
<1>7. \A y \in Ctx \ {x} : Attached(y)
  BY <1>4 DEF Attached, Connection
<1> QED BY <1>1, <1>3, <1>6, <1>7, ContentStays

LEMMA ContentAdd ==
    ASSUME Shape, env \in Env, Content, NEW x \in Ctx, TaskAdd(x)
    PROVE  Content'
<1>1. /\ Typed /\ c \in [Ctx -> Context] /\ task \in [Ctx -> Stages] /\ Control(x) /\ task[x] = "add"
      /\ FileTyped /\ Numbered /\ file \in File /\ Thread
  BY DEF Shape, Typed, TaskAdd, FileTyped
<1>2. c[x].fill \in Blocks /\ file.map[x][c[x].fill] = None /\ ~c[x].noCache /\ file.open
  BY <1>1 DEF Control, Thread
<1>3. CASE Room
  <2> DEFINE i == c[x].fill
             b == <<x, c[x].conn - 1>>
  <2>1. /\ file' = [file EXCEPT !.last = @ + 1, !.disk = Written(@, file.last, b), !.map[x][i] = file.last]
        /\ c' = [c EXCEPT ![x].phys = file.last + 1, ![x].fill = @ + 1]
        /\ task' = [task EXCEPT ![x] = "tell"] /\ env' = env
    BY <1>1, <1>3, Zenon DEF TaskAdd
  <2>2. b \in Data
    BY <1>1 DEF Data, Context
  <2> HIDE DEF b
  <2>3. /\ file'.last = file.last + 1 /\ file'.disk = Written(file.disk, file.last, b) /\ file'.open = file.open
        /\ file'.saved = file.saved /\ file'.savedBad = file.savedBad
        /\ \A y \in Ctx, j \in Blocks : file'.map[y][j] = IF y = x /\ j = i THEN file.last ELSE file.map[y][j]
    BY <1>1, <1>2, <2>1, <2>2, AddedFile
  <2>4. \A y \in Ctx : Attached(y)
    <3>1. \A y \in Ctx \ {x} : c'[y] = c[y] /\ task'[y] = task[y]
      BY <1>1, <2>1
    <3>2. c'[x].noCache = c[x].noCache /\ c'[x].conn = c[x].conn /\ c'[x].inner = c[x].inner /\ task'[x] = "tell"
      <4>1. c[x] \in Context
        BY <1>1
      <4>2. c'[x] = [c[x] EXCEPT !.phys = file.last + 1, !.fill = c[x].fill + 1]
        BY <1>1, <2>1
      <4> QED BY <1>1, <2>1, <4>1, <4>2 DEF Context
    <3> QED BY <3>1, <3>2 DEF Attached, Connection
  <2>5. /\ file.map \in Trees /\ file.saved \in Trees /\ file.disk \in Seq(Data) /\ file.last \in Nat
        /\ file.last <= Len(file.disk) /\ Fills(file.map, file.last)
        /\ Sizes(file.saved) \in Nat /\ Fills(file.saved, Sizes(file.saved))
    BY <1>1, <1>2 DEF File, FileTyped, Numbered
  <2>6. ASSUME ~env.switched, ~env.misled, ~env.staleMap PROVE Holds(file'.map, file'.disk)
    <3>1. b = <<x, i>>
      BY <1>1, <1>2, <2>6 DEF Content, Connection, b, Context
    <3>2. Holds(file.map, file.disk)
      BY <2>6 DEF Content
    <3> HIDE DEF i
    <3>3. i \in Blocks
      BY <1>2 DEF i
    <3> QED BY <2>3, <2>5, <3>1, <3>2, <3>3, HoldsAdded
  <2>7. ASSUME ~env.switched, ~env.misled, ~file.savedBad
        PROVE  /\ Holds(file'.saved, file'.disk)
               /\ file'.open => Sizes(file'.saved) <= file'.last
    <3>1. Holds(file.saved, file.disk) /\ Sizes(file.saved) <= file.last
      BY <1>2, <2>7 DEF Content
    <3>2. Holds(file.saved, Written(file.disk, file.last, b))
      BY <2>2, <2>5, <3>1, HoldsWritten
    <3> QED BY <2>3, <2>5, <3>1, <3>2
  <2>8. ~env.switched /\ env.staleMap => file.savedBad
    BY DEF Content
  <2> QED BY <2>1, <2>3, <2>4, <2>6, <2>7, <2>8, ContentEnters
<1>4. CASE ~Room /\ file.shared
  <2>1. /\ c' = [c EXCEPT ![x].phys = file.last, ![x].noCache = TRUE] /\ task' = [task EXCEPT ![x] = "leave"]
        /\ file' = file
        /\ env' = env \/ env' = [env EXCEPT !.behind = env.behind] \/ env' = [env EXCEPT !.behind = env.behind \cup {x}]
    BY <1>4 DEF TaskAdd
  <2>2. env'.switched = env.switched /\ env'.misled = env.misled /\ env'.staleMap = env.staleMap
    BY <2>1 DEF Env
  <2>3. c'[x].noCache /\ task'[x] # "add" /\ \A y \in Ctx \ {x} : c'[y] = c[y] /\ task'[y] = task[y]
    <3>1. c'[x] = [c[x] EXCEPT !.phys = file.last, !.noCache = TRUE] /\ c[x] \in Context
      BY <1>1, <2>1
    <3> QED BY <1>1, <2>1, <3>1 DEF Context
  <2>4. \A y \in Ctx : Attached(y)
    BY <2>3 DEF Attached, Connection
  <2> QED BY <2>1, <2>2, <2>4, ContentStays
<1>5. CASE ~Room /\ ~file.shared
  <2>1. c' = [y \in Ctx |-> Flushed(x, y)] /\ file' = FlushedFile /\ task' = [task EXCEPT ![x] = "top"] /\ env' = env
    BY <1>5 DEF TaskAdd
  <2>2. \A y \in Ctx : /\ Kept(c'[y], c[y]) /\ (task'[y] = "add" => task[y] = "add" /\ c'[y].fill = c[y].fill)
    <3>1. \A y \in Ctx : Kept(c'[y], c[y])
      BY <1>1, <2>1, FlushedContexts
    <3>2. \A y \in Ctx \ {x} : c'[y].fill = c[y].fill
      BY <1>1, <2>1, FlushedContexts
    <3> QED BY <1>1, <2>1, <3>1, <3>2
  <2>3. \A y \in Ctx : Attached(y)
    BY <2>2 DEF Attached, Connection, Kept
  <2>4. file'.map = NoMap /\ file'.savedBad
    BY <1>1, <2>1, FlushedIs
  <2> QED BY <2>1, <2>3, <2>4, NoMapHolds, ContentEnters
<1> QED BY <1>3, <1>4, <1>5

\* The demuxer's steps that leave the cache file and the connections alone.
LEMMA ContentQuiet ==
    ASSUME Shape, env \in Env, Content,
           (\E y \in Ctx : PauseNext(y)) \/ Paused \/ SyncReadCached \/ SeekTurn
    PROVE  Content'
<1>1. /\ Typed /\ c \in [Ctx -> Context] /\ task \in [Ctx -> Stages] /\ IoTyped /\ file \in File
  BY DEF Shape, Typed, FileTyped
<1>2. env' = env
  BY Zenon DEF PauseNext, Paused, SyncReadCached, SeekTurn
<1>3. /\ \A y \in Ctx : c'[y].noCache = c[y].noCache /\ c'[y].conn = c[y].conn /\ c'[y].inner = c[y].inner
      /\ \A y \in Ctx : task'[y] = "add" => task[y] = "add" /\ c'[y].fill = c[y].fill
      /\ file' = file \/ \E n : file' = [file EXCEPT !.off = n]
  <2>1. CASE \E y \in Ctx : PauseNext(y)
    <3>1. PICK y \in Ctx : PauseNext(y)
      BY <2>1
    <3>2. c' = [c EXCEPT ![y].abort = TRUE] /\ task' \in {task, WakeTask(y)} /\ file' = file
      BY <3>1 DEF PauseNext, StopTask
    <3>3. \A z \in Ctx : task'[z] = "add" => task[z] = "add"
      BY <1>1, <3>2 DEF WakeTask
    <3>4. \A z \in Ctx : /\ c'[z].noCache = c[z].noCache /\ c'[z].conn = c[z].conn /\ c'[z].inner = c[z].inner
                         /\ c'[z].fill = c[z].fill
      BY <1>1, <3>2 DEF Context
    <3> QED BY <3>2, <3>3, <3>4
  <2>2. CASE Paused
    <3>1. c' = [c EXCEPT ![io.y].state = "paused"] /\ task' = task /\ file' = file
      BY <2>2 DEF Paused
    <3>2. \A z \in Ctx : /\ c'[z].noCache = c[z].noCache /\ c'[z].conn = c[z].conn /\ c'[z].inner = c[z].inner
                         /\ c'[z].fill = c[z].fill
      BY <1>1, <3>1 DEF Context
    <3> QED BY <3>1, <3>2
  <2>3. CASE SyncReadCached
    <3>1. PICK x \in Ctx : x = io.x
      BY <1>1, <2>3 DEF SyncReadCached, IoTyped
    <3>2. PICK k \in 1 .. io.want, m \in Context :
            LET i == c[x].read
                p == file.map[x][i] IN
            /\ Cached(x, i) /\ ReadsRun(x, i, io.want, k, p)
            /\ m = [c[x] EXCEPT !.read = i + k, !.at = io.from + k, !.phys = p + k]
            /\ c' = [c EXCEPT ![x] = m] /\ file' = [file EXCEPT !.off = p + k]
            /\ io' = Answer(x, k, io.from, SubSeq(file.disk, p + 1, p + k))
      BY <2>3, <3>1, SyncCachedIs
    <3>3. m.noCache = c[x].noCache /\ m.conn = c[x].conn /\ m.inner = c[x].inner /\ m.fill = c[x].fill
      <4> DEFINE a == c[x].read + k
                 p == io.from + k
                 q == file.map[x][c[x].read] + k
      <4>1. m = [c[x] EXCEPT !.read = a, !.at = p, !.phys = q] /\ c[x] \in Context
        BY <1>1, <3>2
      <4> HIDE DEF a, p, q
      <4> QED BY <4>1 DEF Context
    <3>4. task' = task
      BY <2>3 DEF SyncReadCached
    <3>5. c' = [c EXCEPT ![x] = m] /\ \E n : file' = [file EXCEPT !.off = n]
      BY <3>2
    <3> QED BY <1>1, <3>3, <3>4, <3>5
  <2>4. CASE SeekTurn
    <3>1. PICK x \in Ctx : x = io.x
      BY <1>1, <2>4 DEF SeekTurn, IoTyped
    <3>2. /\ \/ c' = c \/ c' = [c EXCEPT ![x].abort = TRUE] \/ c' = [c EXCEPT ![x].at = c[x].seekPos]
          /\ task' \in {task, WakeTask(x)} /\ file' = file
      BY <2>4, <3>1 DEF SeekTurn
    <3>3. \A z \in Ctx : task'[z] = "add" => task[z] = "add"
      BY <1>1, <3>2 DEF WakeTask
    <3>4. \A z \in Ctx : /\ c'[z].noCache = c[z].noCache /\ c'[z].conn = c[z].conn /\ c'[z].inner = c[z].inner
                         /\ c'[z].fill = c[z].fill
      BY <1>1, <3>2 DEF Context
    <3> QED BY <3>2, <3>3, <3>4
  <2> QED BY <2>1, <2>2, <2>3, <2>4
<1>4. /\ file'.map = file.map /\ file'.disk = file.disk /\ file'.saved = file.saved
      /\ file'.savedBad = file.savedBad /\ file'.open = file.open /\ file'.last = file.last
  BY <1>1, <1>3 DEF File
<1>5. \A y \in Ctx : Attached(y)
  BY <1>3 DEF Attached, Connection
<1> QED BY <1>2, <1>4, <1>5, ContentStays

\* Those that may move the connection of a context that gave the cache up.
LEMMA ContentUses ==
    ASSUME Shape, env \in Env, Content, EnterRead \/ ReadTurn \/ EnterSeek
    PROVE  Content'
<1>1. /\ Typed /\ c \in [Ctx -> Context] /\ task \in [Ctx -> Stages] /\ IoTyped
  BY DEF Shape, Typed
<1>2. io.op \in {"read", "seek"} /\ file' = file
  BY Zenon DEF EnterRead, ReadTurn, EnterSeek
<1>3. PICK x \in Ctx : x = io.x
  BY <1>1, <1>2, UsedContext
<1>4. Control(x)
  BY DEF Shape
<1>5. /\ env.switched => env'.switched
      /\ env.misled => env'.misled
      /\ env'.staleMap = env.staleMap
      /\ task' \in {task, WakeTask(x)}
      /\ c' = c \/ \E m \in Context :
            /\ c' = [c EXCEPT ![x] = m] /\ m.fill = c[x].fill /\ m.inner = c[x].inner /\ m.noCache = c[x].noCache
            /\ ~c[x].noCache => m.conn = c[x].conn
  <2>1. CASE EnterRead
    <3>1. io.op = "read" /\ io.at = "enter" /\ task' = task
      BY <2>1 DEF EnterRead
    <3>2. (c[x].noCache /\ ReadDirect(x, c[x])) \/ (env' = env /\ c' = c)
      BY <1>3, <2>1, Zenon DEF EnterRead
    <3>3. CASE c[x].noCache /\ ReadDirect(x, c[x])
      <4>1. c[x] \in Context
        BY <1>1
      <4>2. PICK m \in Context : /\ c' = [c EXCEPT ![x] = m] /\ Stays(m, c[x])
                                 /\ env'.staleMap = env.staleMap
                                 /\ env'.switched = env.switched /\ env'.misled = env.misled
        BY <1>1, <1>3, <3>1, <3>3, <4>1, DirectIs
      <4> QED BY <3>1, <3>3, <4>2 DEF Stays
    <3>4. CASE env' = env /\ c' = c
      BY <3>1, <3>4
    <3> QED BY <3>2, <3>3, <3>4
  <2>2. CASE ReadTurn
    <3>1. PICK m \in Context : Turned(x, m)
      BY <1>3, <2>2, ReadTurnIs
    <3>2. ~c[x].noCache => m.conn = c[x].conn
      BY <3>1 DEF Turned, TurnAborted, TurnDirect, TurnUnsought, TurnCached, TurnEnded, TurnWaits
    <3> QED BY <3>1, <3>2 DEF Turned, SameTask
  <2>3. CASE EnterSeek
    <3>1. PICK m \in Context : SeekEntered(x, m)
      BY <1>3, <2>3, EnterSeekIs
    <3>2. ~c[x].noCache => m.conn = c[x].conn
      BY <3>1 DEF SeekEntered
    <3> QED BY <3>1, <3>2 DEF SeekEntered
  <2> QED BY <2>1, <2>2, <2>3
<1>6. \A z \in Ctx : task'[z] = "add" => task[z] = "add"
  BY <1>1, <1>5 DEF WakeTask
<1>7. \A z \in Ctx \ {x} : Attached(z)
  BY <1>1, <1>5, <1>6 DEF Attached, Connection
<1>8. Attached(x)
  <2>1. CASE c' = c
    BY <1>6, <2>1 DEF Attached, Connection
  <2>2. CASE c' # c
    <3>1. /\ c'[x].fill = c[x].fill /\ c'[x].inner = c[x].inner /\ c'[x].noCache = c[x].noCache
          /\ ~c[x].noCache => c'[x].conn = c[x].conn
      BY <1>1, <1>5, <2>2
    <3>2. task'[x] = "add" => ~c[x].noCache /\ task[x] = "add"
      BY <1>4, <1>6 DEF Control
    <3> QED BY <3>1, <3>2 DEF Attached, Connection
  <2> QED BY <2>1, <2>2
<1> QED BY <1>2, <1>5, <1>7, <1>8, ContentStays

LEMMA ContentSyncThrough ==
    ASSUME Shape, env \in Env, Content, SyncReadThrough
    PROVE  Content'
<1>1. /\ Typed /\ c \in [Ctx -> Context] /\ task \in [Ctx -> Stages] /\ IoTyped
      /\ FileTyped /\ Numbered /\ io.op = "read"
  BY DEF Shape, Typed, SyncReadThrough
<1>2. PICK x \in Ctx : x = io.x
  BY <1>1, UsedContext
<1>3. /\ ~c[x].noCache /\ forwards = 0 /\ task' = task /\ file.open
      /\ \A y \in Ctx : task[y] # "add"
  <2>1. ~c[x].noCache /\ forwards = 0 /\ task' = task
    BY <1>2, SyncThroughIs
  <2>2. \A y \in Ctx : task[y] # "add"
    <3> SUFFICES ASSUME NEW y \in Ctx, task[y] = "add" PROVE FALSE
      OBVIOUS
    <3>1. Control(y)
      BY DEF Shape
    <3> QED BY <2>1, <3>1 DEF Control
  <2> QED BY <1>1, <2>1, <2>2, UsedContext
<1>4. \/ /\ c' = [c EXCEPT ![x].eof = TRUE] /\ file' = file /\ env' = env
      \/ \E o \in NetworkOutcomes(x, c[x].read) :
            /\ c[x].read \in Blocks /\ c' = [c EXCEPT ![x] = Connected(c[x], c[x].read, o)]
            /\ env' = After(x, c[x].read, o) /\ file' = file
      \/ \E m \in Context : ReadThrough(x, m)
  BY <1>2, SyncThroughIs
<1>5. CASE c' = [c EXCEPT ![x].eof = TRUE] /\ file' = file /\ env' = env
  <2>1. \A y \in Ctx : c'[y].noCache = c[y].noCache /\ c'[y].conn = c[y].conn /\ c'[y].inner = c[y].inner
    BY <1>1, <1>5 DEF Context
  <2>2. \A y \in Ctx : Attached(y)
    BY <1>3, <2>1 DEF Attached, Connection
  <2> QED BY <1>5, <2>2, ContentStays
<1>6. ASSUME NEW o \in NetworkOutcomes(x, c[x].read), c[x].read \in Blocks, file' = file,
             c' = [c EXCEPT ![x] = Connected(c[x], c[x].read, o)], env' = After(x, c[x].read, o)
      PROVE  Content'
  <2> DEFINE k == Connected(c[x], c[x].read, o)
  <2>1. k.noCache = c[x].noCache /\ (c[x].conn = c[x].inner => k.conn = k.inner)
    BY <1>1, <1>6, ConnectedIs
  <2>2. env'.staleMap = env.staleMap /\ env'.switched = env.switched /\ env'.misled = env.misled
    BY <1>6, AfterIs
  <2>3. c'[x] = k /\ \A y \in Ctx \ {x} : c'[y] = c[y]
    BY <1>1, <1>6
  <2> HIDE DEF k
  <2>4. \A y \in Ctx : Attached(y)
    BY <1>3, <2>1, <2>3 DEF Attached, Connection
  <2> QED BY <1>6, <2>2, <2>4, ContentStays
<1>7. ASSUME NEW m \in Context, ReadThrough(x, m) PROVE Content'
  <2>1. Through(x, m)
    BY <1>1, <1>2, <1>7, ThroughIs
  <2> DEFINE i == c[x].read
             at == ConnAt(c[x], i)
             f == SyncFile
  <2>2. /\ i \in Blocks /\ at \in Blocks /\ (c[x].conn = c[x].inner => at = i /\ m.conn = m.inner)
        /\ env' = env /\ file'.open = file.open /\ m.noCache = c[x].noCache
    BY <2>1 DEF Through
  <2>3. CASE /\ ~Room /\ file.shared /\ c' = [c EXCEPT ![x] = m]
             /\ file'.map = file.map /\ file'.disk = file.disk /\ file'.last = file.last
             /\ file'.saved = file.saved /\ file'.savedBad = file.savedBad
    <3>1. c'[x] = m /\ \A y \in Ctx \ {x} : c'[y] = c[y]
      BY <1>1, <2>3
    <3>2. \A y \in Ctx : Attached(y)
      BY <1>3, <2>2, <3>1 DEF Attached, Connection
    <3> QED BY <2>2, <2>3, <3>2, ContentStays
  <2>4. CASE /\ Room \/ ~file.shared
             /\ c' = [y \in Ctx |-> IF y = x THEN m ELSE IF Room THEN c[y] ELSE Flushed(x, y)]
             /\ file'.last = f.last + 1 /\ file'.disk = Written(f.disk, f.last, <<x, at>>)
             /\ file'.saved = f.saved /\ file'.savedBad = f.savedBad
             /\ \A y \in Ctx, j \in Blocks :
                    file'.map[y][j] = IF y = x /\ j = i THEN f.last ELSE f.map[y][j]
    <3>1. \A y \in Ctx \ {x} : Kept(Flushed(x, y), c[y])
      BY <1>1, FlushedContexts
    <3>2. c'[x] = m /\ \A y \in Ctx \ {x} : /\ c'[y].noCache = c[y].noCache /\ c'[y].conn = c[y].conn
                                            /\ c'[y].inner = c[y].inner
      BY <2>4, <3>1 DEF Kept
    <3>3. \A y \in Ctx : Attached(y)
      BY <1>3, <2>2, <3>2 DEF Attached, Connection
    <3>4. /\ f \in File /\ f.last <= file.last /\ Fills(f.map, f.last) /\ f.disk = file.disk
          /\ f.open = file.open /\ f.saved = file.saved /\ (Room => f = file)
          /\ ~Room => f.savedBad /\ f.map = NoMap /\ f.last = 0
      BY <1>1, SyncFileIs
    <3>5. /\ file.saved \in Trees /\ file.disk \in Seq(Data) /\ file.last \in Nat /\ file.last <= Len(file.disk)
          /\ Sizes(file.saved) \in Nat /\ Fills(file.saved, Sizes(file.saved))
      BY <1>1, <1>3 DEF FileTyped, File, Numbered
    <3>6. f.map \in Trees /\ f.last \in Nat
      BY <3>4 DEF File
    <3> HIDE DEF f
    <3>7. ASSUME ~env.switched, ~env.misled, ~env.staleMap PROVE Holds(file'.map, file'.disk)
      <4>1. at = i
        BY <1>3, <2>2, <3>7 DEF Content, Connection
      <4>2. Holds(f.map, file.disk)
        BY <3>4, <3>7, NoMapHolds DEF Content
      <4> HIDE DEF i, at
      <4>3. file'.disk = Written(file.disk, f.last, <<x, i>>)
        BY <2>4, <3>4, <4>1
      <4>4. /\ f.map \in Trees /\ f.last \in Nat /\ Fills(f.map, f.last) /\ file.disk \in Seq(Data)
            /\ f.last <= Len(file.disk) /\ i \in Blocks
        BY <2>2, <3>4, <3>5, <3>6
      <4>5. \A y \in Ctx, j \in Blocks : file'.map[y][j] = IF y = x /\ j = i THEN f.last ELSE f.map[y][j]
        BY <2>4
      <4>6. Holds(file'.map, Written(file.disk, f.last, <<x, i>>))
        BY <4>2, <4>4, <4>5, HoldsAdded
      <4> QED BY <4>3, <4>6
    <3>8. ASSUME ~env.switched, ~env.misled, ~file'.savedBad
          PROVE  /\ Holds(file'.saved, file'.disk)
                 /\ file'.open => Sizes(file'.saved) <= file'.last
      <4>1. f = file
        BY <2>4, <3>4, <3>8
      <4>2. Holds(file.saved, file.disk) /\ Sizes(file.saved) <= file.last
        BY <1>3, <2>4, <3>8, <4>1 DEF Content
      <4>3. <<x, at>> \in Data
        BY <2>2 DEF Data, Blocks
      <4>4. Holds(file.saved, Written(file.disk, file.last, <<x, at>>))
        <5> DEFINE b == <<x, at>>
        <5> HIDE DEF b
        <5>1. Holds(file.saved, Written(file.disk, file.last, b))
          BY <3>5, <4>2, <4>3, HoldsWritten DEF b
        <5> QED BY <5>1 DEF b
      <4> QED BY <2>4, <3>5, <4>1, <4>2, <4>4
    <3>9. ~env'.switched /\ env'.staleMap => file'.savedBad
      BY <2>2, <2>4, <3>4 DEF Content
    <3> QED BY <2>2, <3>3, <3>7, <3>8, <3>9, ContentEnters
  <2> QED BY <2>1, <2>3, <2>4, Zenon DEF Through
<1> QED BY <1>4, <1>5, <1>6, <1>7

LEMMA ContentOpen ==
    ASSUME Shape, env \in Env, Content, OpenContext
    PROVE  Content'
<1>1. /\ Typed /\ c \in [Ctx -> Context] /\ task \in [Ctx -> Stages] /\ IoTyped /\ FileTyped /\ Numbered
  BY DEF Shape, Typed
<1>2. PICK x \in Ctx : x = io.x
  BY <1>1 DEF OpenContext, IoTyped
<1>3. Opened(x)
  BY <1>2, OpenedIs
<1> DEFINE f == OpenedFile
<1>4. /\ file'.map = f.map /\ file'.disk = f.disk /\ file'.last = f.last /\ file'.saved = f.saved
      /\ file'.savedBad = f.savedBad
      /\ env'.switched = env.switched /\ env'.misled = env.misled /\ env'.staleMap = env.staleMap
      /\ \/ /\ c' = c /\ task' = task
         \/ \E k \in Context, s \in {"queued", "none"} :
              /\ c' = [c EXCEPT ![x] = k] /\ task' = [task EXCEPT ![x] = s] /\ k.conn = 0 /\ k.inner = 0 /\ ~k.noCache
  BY <1>3 DEF Opened
<1>5. /\ f.saved = file.saved /\ (file.open => f = file) /\ f.last \in Nat
      /\ \/ f.map = NoMap /\ f.savedBad
         \/ f.map = file.map /\ f.disk = file.disk /\ f.last = file.last /\ f.savedBad = file.savedBad
  BY <1>1, OpenedFileIs DEF File
<1>6. ~file.open /\ file.map = NoMap => f.savedBad
  BY <1>1 DEF OpenedFile, FileTyped, File
<1> HIDE DEF f
<1>7. \A y \in Ctx : Attached(y)
  <2>1. CASE c' = c /\ task' = task
    BY <2>1 DEF Attached, Connection
  <2>2. ASSUME NEW k \in Context, NEW s \in {"queued", "none"}, c' = [c EXCEPT ![x] = k],
               task' = [task EXCEPT ![x] = s], k.conn = 0, k.inner = 0, ~k.noCache
        PROVE  \A y \in Ctx : Attached(y)
    <3>1. /\ c'[x] = k /\ task'[x] # "add"
          /\ \A y \in Ctx \ {x} : c'[y] = c[y] /\ task'[y] = task[y]
      BY <1>1, <2>2
    <3> QED BY <2>2, <3>1 DEF Attached, Connection
  <2> QED BY <1>4, <2>1, <2>2
<1>8. ~env'.switched /\ env'.staleMap => file'.savedBad
  BY <1>4, <1>5 DEF Content
<1>9. ~env.switched /\ ~env.misled /\ ~env'.staleMap => Holds(file'.map, file'.disk)
  BY <1>4, <1>5, NoMapHolds DEF Content
<1>10. ASSUME ~env.switched, ~env.misled, ~file'.savedBad
       PROVE  /\ Holds(file'.saved, file'.disk)
              /\ file'.open => Sizes(file'.saved) <= file'.last
  <2>1. ~f.savedBad /\ f.disk = file.disk /\ f.last = file.last /\ ~file.savedBad
    BY <1>4, <1>5, <1>10
  <2>2. Sizes(file.saved) <= file.last
    <3>1. CASE file.open
      BY <1>10, <2>1, <3>1 DEF Content
    <3>2. CASE ~file.open
      <4>1. file.map = file.saved /\ Fills(file.map, file.last) /\ file.last \in Nat
        BY <1>1, <1>6, <2>1, <3>2 DEF Numbered, FileTyped, File
      <4> QED BY <4>1, FillsSizes
    <3> QED BY <3>1, <3>2
  <2> QED BY <1>4, <1>5, <1>10, <2>1, <2>2 DEF Content
<1> QED BY <1>4, <1>7, <1>8, <1>9, <1>10, ContentEnters

LEMMA ContentClosed ==
    ASSUME Shape, env \in Env, Content, Closed
    PROVE  Content'
<1>1. Typed /\ c \in [Ctx -> Context] /\ IoTyped /\ io.op = "close" /\ io.at = "stopped"
  BY DEF Shape, Typed, Closed
<1>2. PICK x \in Ctx : x = io.x
  BY <1>1 DEF IoTyped
<1>3. /\ c' = [c EXCEPT ![x] = NewContext] /\ task' = task /\ file' = file
      /\ env' = [env EXCEPT !.behind = @ \ {x}]
  BY <1>2 DEF Closed
<1>4. env'.switched = env.switched /\ env'.misled = env.misled /\ env'.staleMap = env.staleMap
  BY <1>3 DEF Env
<1>5. Stops /\ io.y = x /\ ~c[x].running /\ Control(x)
  BY <1>1, <1>2 DEF Shape, Thread, Stops, IoTyped
<1>6. task[x] # "add"
  BY <1>5 DEF Control
<1>7. c'[x] = NewContext /\ \A y \in Ctx \ {x} : c'[y] = c[y]
  BY <1>1, <1>3
<1>8. \A y \in Ctx : Attached(y)
  BY <1>3, <1>6, <1>7, NewIs DEF Attached, Connection
<1> QED BY <1>3, <1>4, <1>8, ContentStays

LEMMA ContentCalls ==
    ASSUME Shape, env \in Env, Content, Calls
    PROVE  Content'
<1>1. Typed /\ c \in [Ctx -> Context] /\ task \in [Ctx -> Stages]
  BY DEF Shape, Typed
<1>2. PICK x \in Ctx : \/ OpenCall(x) \/ CloseCall(x)
                       \/ \E n \in 1 .. 2 : ReadCall(x, n)
                       \/ \E p \in 0 .. FileSize : SeekCall(x, p)
  BY DEF Calls
<1>3. /\ file' = file /\ (env.switched => env'.switched) /\ env'.misled = env.misled /\ env'.staleMap = env.staleMap
  <2>1. /\ Called \in Env /\ Called.switched = env.switched /\ Called.misled = env.misled
        /\ Called.staleMap = env.staleMap
    BY DEF Called, Env
  <2>2. \/ env' = Called
        \/ env' = [Called EXCEPT !.switched = @ \/ (forwards = 0 /\ c[x].state = "paused")]
    BY <1>2, Zenon DEF OpenCall, CloseCall, ReadCall, SeekCall
  <2>3. file' = file
    BY <1>2, Zenon DEF OpenCall, CloseCall, ReadCall, SeekCall
  <2> HIDE DEF Called
  <2> QED BY <2>1, <2>2, <2>3 DEF Env
<1>4. \A y \in Ctx : /\ c'[y].noCache = c[y].noCache /\ c'[y].conn = c[y].conn /\ c'[y].inner = c[y].inner
                     /\ c'[y].fill = c[y].fill
  <2>1. c' = c \/ c' = [c EXCEPT ![x].abort = TRUE] \/ (c' = [c EXCEPT ![x] = Resumed(x)] /\ c[x].state # "closed")
    BY <1>2 DEF OpenCall, CloseCall, ReadCall, SeekCall, StopTask, Usable
  <2>2. CASE c' = c
    BY <2>2
  <2>3. CASE c' = [c EXCEPT ![x].abort = TRUE]
    BY <1>1, <2>3 DEF Context
  <2>4. CASE c' = [c EXCEPT ![x] = Resumed(x)] /\ c[x].state # "closed"
    <3>1. LET k == Resumed(x) IN
          k.noCache = c[x].noCache /\ k.conn = c[x].conn /\ k.inner = c[x].inner /\ k.fill = c[x].fill
      BY <1>1, <2>4, ResumedIs
    <3> QED BY <1>1, <2>4, <3>1
  <2> QED BY <2>1, <2>2, <2>3, <2>4
<1>5. \A y \in Ctx : task'[y] = "add" => task[y] = "add"
  <2>1. task' \in {task, WakeTask(x), [task EXCEPT ![x] = "queued"]}
    BY <1>2 DEF OpenCall, CloseCall, ReadCall, SeekCall, StopTask
  <2> QED BY <1>1, <2>1 DEF WakeTask
<1>6. \A y \in Ctx : Attached(y)
  BY <1>4, <1>5 DEF Attached, Connection
<1> QED BY <1>3, <1>6, ContentStays

LEMMA ContentShare ==
    ASSUME Shape, env \in Env, Content, WillShare \/ DidShare \/ Interrupt
    PROVE  Content'
<1>1. Typed /\ file \in File /\ FileTyped /\ Numbered /\ file.last \in Nat
  BY DEF Shape, Typed, FileTyped, File
<1>2. /\ c' = c /\ task' = task
      /\ env'.switched = env.switched /\ env'.misled = env.misled /\ env'.staleMap = env.staleMap
  <2>1. Trouble \in Env /\ Trouble.switched = env.switched /\ Trouble.misled = env.misled /\ Trouble.staleMap = env.staleMap
    BY DEF Trouble, Env
  <2>2. c' = c /\ task' = task /\ (env' = env \/ env' = Trouble \/ env' = [Trouble EXCEPT !.interrupted = TRUE])
    BY Zenon DEF WillShare, DidShare, Interrupt
  <2> HIDE DEF Trouble
  <2> QED BY <2>1, <2>2 DEF Env
<1>3. \A y \in Ctx : Attached(y)
  BY <1>2 DEF Attached, Connection
<1>4. CASE DidShare \/ Interrupt
  <2>1. file' = file \/ file' = [file EXCEPT !.shared = FALSE]
    BY <1>4, Zenon DEF DidShare, Interrupt
  <2>2. /\ file'.map = file.map /\ file'.disk = file.disk /\ file'.saved = file.saved
        /\ file'.savedBad = file.savedBad /\ file'.open = file.open /\ file'.last = file.last
    BY <1>1, <2>1 DEF File
  <2> QED BY <1>2, <1>3, <2>2, ContentStays
<1>5. CASE WillShare
  <2> DEFINE b == env.staleMap
             m == file.map
  <2>1. file' = [file EXCEPT !.shared = TRUE, !.saved = m, !.savedBad = b] /\ file.open
    BY <1>5 DEF WillShare
  <2> HIDE DEF b, m
  <2>2. /\ file'.map = file.map /\ file'.disk = file.disk /\ file'.saved = m
        /\ file'.savedBad = b /\ file'.open = file.open /\ file'.last = file.last
    BY <1>1, <2>1 DEF File
  <2>3. Sizes(file.map) = file.last
    BY <1>1, FillsSizes DEF Numbered
  <2>4. ~env.switched /\ ~env.misled /\ ~env.staleMap => Holds(file.map, file.disk)
    BY DEF Content
  <2> QED BY <1>1, <1>2, <1>3, <2>2, <2>3, <2>4, ContentEnters DEF b, m
<1> QED BY <1>4, <1>5

LEMMA ContentEnd ==
    ASSUME Shape, env \in Env, Content, Quit \/ Crash
    PROVE  Content'
<1>1. /\ env'.switched = env.switched /\ env'.misled = env.misled
      /\ env'.staleMap => file'.savedBad
      /\ file'.map = NoMap \/ (file'.map = file'.saved /\ env'.staleMap = file'.savedBad)
      /\ ~file'.open /\ c' = [x \in Ctx |-> NewContext] /\ task' = [x \in Ctx |-> "none"]
      /\ \/ file'.saved = file.map /\ file'.savedBad = env.staleMap /\ file'.disk = file.disk
         \/ /\ file'.saved = file.saved /\ file'.savedBad = file.savedBad
            /\ \E n \in 0 .. Len(file.disk) : file'.disk = SubSeq(file.disk, 1, n)
  BY EndIs
<1>2. file.disk \in Seq(Data) /\ file.map \in Trees /\ file.saved \in Trees
  BY DEF Shape, Typed, FileTyped, File
<1>3. ~env.switched /\ ~env.misled /\ ~file'.savedBad => Holds(file'.saved, file'.disk)
  <2> SUFFICES ASSUME ~env.switched, ~env.misled, ~file'.savedBad PROVE Holds(file'.saved, file'.disk)
    OBVIOUS
  <2>1. CASE file'.saved = file.map /\ file'.savedBad = env.staleMap /\ file'.disk = file.disk
    BY <2>1 DEF Content
  <2>2. ASSUME file'.saved = file.saved, file'.savedBad = file.savedBad,
               NEW n \in 0 .. Len(file.disk), file'.disk = SubSeq(file.disk, 1, n)
        PROVE Holds(file'.saved, file'.disk)
    <3>1. Holds(file.saved, file.disk)
      BY <2>2 DEF Content
    <3>2. Len(file'.disk) = n /\ \A j \in 1 .. n : file'.disk[j] = file.disk[j]
      BY <1>2, <2>2
    <3>3. ASSUME NEW x \in Ctx, NEW i \in Blocks, file.saved[x][i] # None, file.saved[x][i] < n
          PROVE  file'.disk[file.saved[x][i] + 1] = <<x, i>>
      <4>1. file.saved[x][i] \in Nat
        BY <1>2, <3>3 DEF Trees
      <4>2. file.saved[x][i] + 1 \in 1 .. n /\ file.saved[x][i] < Len(file.disk)
        BY <1>2, <3>3, <4>1
      <4> QED BY <3>1, <3>2, <3>3, <4>2 DEF Holds
    <3> QED BY <2>2, <3>2, <3>3 DEF Holds
  <2> QED BY <1>1, <2>1, <2>2
<1>4. \A y \in Ctx : Attached(y)
  <2>1. \A y \in Ctx : ~c'[y].noCache /\ c'[y].conn = c'[y].inner /\ task'[y] # "add"
    BY <1>1, NewIs
  <2> QED BY <2>1 DEF Attached, Connection
<1>5. ~env.switched /\ ~env.misled /\ ~env'.staleMap => Holds(file'.map, file'.disk)
  BY <1>1, <1>3, NoMapHolds
<1> QED BY <1>1, <1>3, <1>4, <1>5, ContentEnters

LEMMA ContentNext ==
    ASSUME Shape, env \in Env, Content, Next
    PROVE  Content'
<1>1. CASE \E x \in Ctx : Task(x)
  <2>1. PICK x \in Ctx : Task(x)
    BY <1>1
  <2> QED BY <2>1, ContentTask, ContentFetch, ContentAdd
<1>2. CASE DemuxerStep
  BY <1>2, ContentQuiet, ContentOpen, ContentClosed, ContentUses, ContentSyncThrough, Zenon DEF DemuxerStep
<1>3. CASE Calls
  BY <1>3, ContentCalls
<1>4. CASE WillShare \/ DidShare \/ Interrupt
  BY <1>4, ContentShare
<1>5. CASE Quit \/ Crash
  BY <1>5, ContentEnd
<1> QED BY <1>1, <1>2, <1>3, <1>4, <1>5, Zenon DEF Next

LEMMA ContentInit ==
    ASSUME Init
    PROVE  Content
<1>1. /\ ~env.staleMap /\ file.map = NoMap /\ file.saved = NoMap /\ ~file.open
      /\ \A x \in Ctx : c[x] = NewContext /\ task[x] = "none"
  BY DEF Init
<1> QED BY <1>1, NoMapHolds, NewIs DEF Content, Connection

LEMMA ContentHolds == Spec => []Content
<1>1. Init => Content
  BY ContentInit
<1>2. Inv /\ Content /\ [Next]_vars => Content'
  <2> SUFFICES ASSUME Inv, Content, [Next]_vars PROVE Content'
    OBVIOUS
  <2>1. CASE UNCHANGED vars
    BY <2>1 DEF vars, Content, Connection, Holds
  <2>2. CASE Next
    <3>1. CASE env.switched
      <4>1. env'.switched
        BY <2>2, <3>1, SwitchedStays DEF Inv
      <4> QED BY <4>1 DEF Content
    <3>2. CASE ~env.switched
      BY <2>2, <3>2, ContentNext DEF Inv
    <3> QED BY <3>1, <3>2
  <2> QED BY <2>1, <2>2
<1> QED BY <1>1, <1>2, InvHolds, PTL DEF Spec

\* Every entry of every tree leads to the block of its file, whatever the tasks,
\* the reader, another player, an end of the process and a crash did to the
\* cache file (add_entry, ijkiocache.c:235; the map that is read back, ijkiomanager.c:265).
THEOREM CacheHoldsCorrect == Spec => []CacheHoldsFile
<1>1. Inv /\ Content => CacheHoldsFile
  <2> SUFFICES ASSUME Inv, Content, ~Undermined, file.open, NEW x \in Ctx, NEW i \in Blocks, Cached(x, i)
               PROVE  /\ file.map[x][i] < file.last
                      /\ file.disk[file.map[x][i] + 1] = <<x, i>>
    BY DEF CacheHoldsFile
  <2>1. /\ FileTyped /\ Numbered /\ Holds(file.map, file.disk)
    BY DEF Inv, Content, Undermined, Shape, Typed
  <2>2. file.last \in Nat /\ file.last <= Len(file.disk) /\ Len(file.disk) \in Nat
    BY <2>1 DEF FileTyped, File
  <2>3. <<x, i>> \in Entries(file.map)
    BY DEF Cached, Entries
  <2>4. file.map[x][i] \in 0 .. file.last - 1
    BY <2>1, <2>3 DEF Numbered, Fills
  <2> QED BY <2>1, <2>2, <2>4 DEF Holds, Cached
<1> QED BY <1>1, InvHolds, ContentHolds, PTL

-----------------------------------------------------------------------------
(* Position.                                                               *)

\* What a step owes a context whose position it does not lose.
Placed(y) == (y \in env.behind \/ Place(y)) /\ y \notin env'.behind => Place(y)'

LEMMA PositionEnters ==
    ASSUME Position, Undermined => Undermined', ~Undermined' => ReadsTheFile',
           ~Undermined => \A y \in Ctx : Placed(y)
    PROVE  Position'
<1> SUFFICES ASSUME ~Undermined' PROVE ReadsTheFile' /\ \A x \in Ctx \ env'.behind : Place(x)'
  BY DEF Position
<1>1. ~Undermined /\ \A x \in Ctx \ env.behind : Place(x)
  BY DEF Position
<1> QED BY <1>1 DEF Placed

\* A context that keeps its place.
SamePlace(k, l) ==
    /\ (k.state = "closed") = (l.state = "closed") /\ k.noCache = l.noCache
    /\ k.at = l.at /\ k.conn = l.conn /\ k.read = l.read /\ k.seekDone = l.seekDone /\ k.seekPos = l.seekPos

LEMMA PlaceStays ==
    ASSUME NEW y \in Ctx, forwards' = forwards, env.interrupted => env'.interrupted,
           y \in env.behind => y \in env'.behind, SamePlace(c'[y], c[y]),
           Turns("read", y)' <=> Turns("read", y), Turns("seek", y)' <=> Turns("seek", y),
           Turns("read", y) => io'.from = io.from /\ io'.data = io.data
    PROVE  Placed(y)
<1>1. Busy(y)' <=> Busy(y)
  BY DEF Busy
<1> QED BY <1>1 DEF Placed, Place, SamePlace

\* What was read, when it is neither touched nor replaced.
LEMMA ReadStays ==
    ASSUME Position, Undermined => Undermined',
           io'.data = <<>> \/ (io'.data = io.data /\ io'.from = io.from /\ io'.x = io.x /\ env.behind \subseteq env'.behind)
    PROVE  ~Undermined' => ReadsTheFile'
<1> SUFFICES ASSUME ~Undermined' PROVE ReadsTheFile'
  OBVIOUS
<1>1. CASE io'.data = <<>>
  BY <1>1 DEF ReadsTheFile
<1>2. CASE io'.data = io.data /\ io'.from = io.from /\ io'.x = io.x /\ env.behind \subseteq env'.behind
  BY <1>2 DEF ReadsTheFile, Position
<1> QED BY <1>1, <1>2

\* What a task does to the demuxer's thread and to the environment.
LEMMA TaskBeside ==
    ASSUME Shape, env \in Env, NEW x \in Ctx, Task(x)
    PROVE  /\ forwards' = forwards /\ forwards > 0 /\ c[x].state = "started"
           /\ env'.interrupted = env.interrupted /\ env.behind \subseteq env'.behind
           /\ (Undermined => Undermined') /\ (env.failed => env'.failed)
           /\ env'.switched = env.switched /\ (env'.misled => env.misled \/ env'.failed)
           /\ io'.op = io.op /\ io'.x = io.x /\ io'.from = io.from /\ io'.data = io.data /\ io'.ret = io.ret
           /\ Turns("read", x)' = Turns("read", x) /\ Turns("seek", x)' = Turns("seek", x)
           /\ \A y \in Ctx : Turns("read", y)' = Turns("read", y) /\ Turns("seek", y)' = Turns("seek", y)
<1>1. /\ c \in [Ctx -> Context] /\ IoTyped /\ Control(x) /\ task[x] # "none"
  <2>1. c \in [Ctx -> Context] /\ IoTyped /\ Control(x)
    BY DEF Shape, Typed
  <2>2. task[x] # "none"
    BY DEF Task, TaskStart, TaskTop, TaskCheck, TaskSleep, TaskFind, TaskFetch, TaskAdd, TaskTell, TaskLeave
  <2> QED BY <2>1, <2>2
<1>2. forwards > 0 /\ c[x].state = "started"
  BY <1>1 DEF Control
<1>3. forwards' = forwards
  BY Zenon DEF Task, TaskStart, TaskTop, TaskCheck, TaskSleep, TaskFind, TaskFetch, TaskAdd, TaskTell, TaskLeave
<1>4. /\ env'.interrupted = env.interrupted /\ env.behind \subseteq env'.behind
      /\ (Undermined => Undermined') /\ (env.failed => env'.failed)
      /\ env'.switched = env.switched /\ (env'.misled => env.misled \/ env'.failed)
  <2>1. CASE TaskFetch(x)
    <3>1. c[x].fill \in Blocks
      BY <1>1, <2>1 DEF Control, TaskFetch
    <3>2. /\ env'.interrupted = env.interrupted /\ env'.behind = env.behind /\ env'.staleMap = env.staleMap
          /\ env'.switched = env.switched /\ (env.misled => env'.misled) /\ (env.failed => env'.failed)
          /\ env'.misled => env.misled \/ env'.failed
      BY <1>1, <2>1, <3>1, FetchIs
    <3> QED BY <3>2 DEF Undermined
  <2>2. CASE TaskAdd(x)
    <3>1. env' = env \/ env' = [env EXCEPT !.behind = env.behind] \/ env' = [env EXCEPT !.behind = env.behind \cup {x}]
      BY <2>2 DEF TaskAdd
    <3>2. /\ env'.interrupted = env.interrupted /\ env.behind \subseteq env'.behind
          /\ env'.staleMap = env.staleMap /\ env'.switched = env.switched /\ env'.misled = env.misled
          /\ env'.failed = env.failed
      BY <3>1 DEF Env
    <3> QED BY <3>2 DEF Undermined
  <2>3. CASE ~TaskFetch(x) /\ ~TaskAdd(x)
    <3>1. env' = env
      BY <2>3, Zenon DEF Task, TaskStart, TaskTop, TaskCheck, TaskSleep, TaskFind, TaskTell, TaskLeave
    <3> QED BY <3>1 DEF Undermined
  <2> QED BY <2>1, <2>2, <2>3
<1>5. io' \in {io, WakeMain(x), [io EXCEPT !.at = "stopped"]} /\ (io' = [io EXCEPT !.at = "stopped"] => io.at = "exitwait" \/ io' = io \/ io' = WakeMain(x))
  BY DEF Task, TaskStart, TaskTop, TaskCheck, TaskSleep, TaskFind, TaskFetch, TaskAdd, TaskTell, TaskLeave
<1>6. CASE io' \in {io, WakeMain(x)}
  <2>1. /\ io'.op = io.op /\ io'.x = io.x /\ io'.from = io.from /\ io'.data = io.data /\ io'.ret = io.ret
        /\ io'.at = io.at \/ (io.at = "mainwait" /\ io'.at = "run")
    BY <1>1, <1>6 DEF WakeMain, IoTyped, Caller
  <2> QED BY <1>2, <1>3, <1>4, <2>1 DEF Turns
<1>7. CASE io' = [io EXCEPT !.at = "stopped"] /\ io.at = "exitwait"
  <2>1. /\ io'.op = io.op /\ io'.x = io.x /\ io'.from = io.from /\ io'.data = io.data /\ io'.ret = io.ret
        /\ io'.at = "stopped" /\ io.at = "exitwait"
    BY <1>1, <1>7 DEF IoTyped, Caller
  <2> QED BY <1>2, <1>3, <1>4, <2>1 DEF Turns
<1> QED BY <1>5, <1>6, <1>7

LEMMA PositionTask ==
    ASSUME Shape, env \in Env, Content, Position, NEW x \in Ctx, Task(x)
    PROVE  Position'
<1>1. /\ Typed /\ c \in [Ctx -> Context] /\ task \in [Ctx -> Stages] /\ IoTyped /\ Control(x) /\ c[x] \in Context
  BY DEF Shape, Typed
<1>2. /\ forwards' = forwards /\ forwards > 0 /\ c[x].state = "started"
      /\ env'.interrupted = env.interrupted /\ env.behind \subseteq env'.behind
      /\ Undermined => Undermined'
      /\ io'.from = io.from /\ io'.data = io.data /\ io'.x = io.x
      /\ \A y \in Ctx : Turns("read", y)' = Turns("read", y) /\ Turns("seek", y)' = Turns("seek", y)
  BY TaskBeside
<1>3. ASSUME NEW y \in Ctx, SamePlace(c'[y], c[y]) PROVE Placed(y)
  BY <1>2, <1>3, PlaceStays
<1>4. ~Undermined' => ReadsTheFile'
  BY <1>2, ReadStays
<1>5. ASSUME NEW y \in Ctx \ {x} PROVE SamePlace(c'[y], c[y])
  <2>1. CASE TaskAdd(x)
    <3>1. c'[y] = c[y] \/ c'[y] = Flushed(x, y)
      BY <1>1, <2>1 DEF TaskAdd
    <3>2. Kept(Flushed(x, y), c[y])
      BY <1>1, FlushedContexts
    <3> QED BY <3>1, <3>2 DEF SamePlace, Kept
  <2>2. CASE TaskFetch(x)
    <3>1. c'[y] = c[y]
      BY <1>1, <2>2, Zenon DEF TaskFetch
    <3> QED BY <3>1 DEF SamePlace
  <2>3. CASE ~TaskAdd(x) /\ ~TaskFetch(x)
    <3>1. c'[y] = c[y]
      BY <1>1, <2>3 DEF Task, TaskStart, TaskTop, TaskCheck, TaskSleep, TaskFind, TaskTell, TaskLeave
    <3> QED BY <3>1 DEF SamePlace
  <2> QED BY <2>1, <2>2, <2>3
<1>6. Placed(x)
  <2>1. CASE TaskStart(x) \/ TaskCheck(x) \/ TaskSleep(x) \/ TaskTell(x)
    <3>1. c' = c
      BY <2>1 DEF TaskStart, TaskCheck, TaskSleep, TaskTell
    <3>2. SamePlace(c'[x], c[x])
      BY <3>1 DEF SamePlace
    <3> QED BY <1>3, <3>2
  <2>2. CASE TaskLeave(x) \/ TaskFind(x)
    <3>1. CASE TaskLeave(x)
      <4>1. SamePlace(c'[x], c[x])
        BY <1>1, <3>1 DEF TaskLeave, SamePlace, Context
      <4> QED BY <1>3, <4>1
    <3>2. CASE TaskFind(x)
      <4>1. \E n, b : c' = [c EXCEPT ![x].fill = n] \/ c' = [c EXCEPT ![x].fill = n, ![x].eof = b]
        BY <3>2, Zenon DEF TaskFind
      <4>2. SamePlace(c'[x], c[x])
        BY <1>1, <4>1 DEF SamePlace, Context
      <4> QED BY <1>3, <4>2
    <3> QED BY <2>2, <3>1, <3>2
  <2>3. CASE TaskTop(x)
    <3>1. \/ c' = c
          \/ c' = [c EXCEPT ![x].abort = TRUE, ![x].eof = TRUE, ![x].err = Exit]
          \/ c' = [c EXCEPT ![x] = Sought(c[x])] /\ c[x].seekRequest /\ ~c[x].noCache /\ ~env.interrupted
      BY <2>3 DEF TaskTop, Aborted
    <3>2. CASE c' = c
      <4>1. SamePlace(c'[x], c[x])
        BY <3>2 DEF SamePlace
      <4> QED BY <1>3, <4>1
    <3>3. CASE c' = [c EXCEPT ![x].abort = TRUE, ![x].eof = TRUE, ![x].err = Exit]
      <4>1. SamePlace(c'[x], c[x])
        BY <1>1, <3>3 DEF SamePlace, Context
      <4> QED BY <1>3, <4>1
    <3>4. CASE c' = [c EXCEPT ![x] = Sought(c[x])] /\ c[x].seekRequest /\ ~c[x].noCache /\ ~env.interrupted
      <4>1. LET k == c'[x] IN
            /\ k.state = c[x].state /\ ~k.noCache /\ k.at = c[x].at /\ k.conn = c[x].conn
            /\ k.read = c[x].seekPos /\ k.seekDone /\ k.seekPos = c[x].seekPos
        BY <1>1, <3>4, SoughtIs
      <4>2. Turns("seek", x) /\ ~Turns("read", x)
        BY <1>1, <3>4 DEF Control, Turns
      <4>3. Busy(x)'
        BY <1>2, <4>2 DEF Busy
      <4> QED BY <1>2, <4>1, <4>2, <4>3 DEF Placed, Place
    <3> QED BY <3>1, <3>2, <3>3, <3>4
  <2>4. CASE TaskFetch(x)
    <3>1. c[x].fill \in Blocks /\ ~c[x].noCache
      BY <1>1, <2>4 DEF Control, TaskFetch
    <3>2. PICK k \in Context, o \in NetworkOutcomes(x, c[x].fill) :
            /\ c' = [c EXCEPT ![x] = k] /\ k.state = c[x].state /\ k.read = c[x].read /\ k.at = c[x].at
            /\ k.noCache = c[x].noCache /\ k.seekDone = c[x].seekDone /\ k.seekPos = c[x].seekPos
      BY <1>1, <2>4, <3>1, FetchIs
    <3>3. c'[x] = k /\ ~k.noCache
      BY <1>1, <3>1, <3>2
    <3>4. Busy(x)' = Busy(x)
      BY <1>2 DEF Busy
    <3> QED BY <1>2, <3>1, <3>2, <3>3, <3>4 DEF Placed, Place
  <2>5. CASE TaskAdd(x)
    <3>1. \/ c' = [c EXCEPT ![x].phys = file.last + 1, ![x].fill = @ + 1]
          \/ c'[x] = Flushed(x, x)
          \/ /\ c' = [c EXCEPT ![x].phys = file.last, ![x].noCache = TRUE]
             /\ env' = [env EXCEPT !.behind = IF io.op = "read" /\ io.x = x /\ io.at \in {"run", "mainwait"}
                                              THEN @ ELSE @ \cup {x}]
      BY <1>1, <2>5 DEF TaskAdd
    <3>2. CASE c' = [c EXCEPT ![x].phys = file.last + 1, ![x].fill = @ + 1]
      <4>1. SamePlace(c'[x], c[x])
        BY <1>1, <3>2 DEF SamePlace, Context
      <4> QED BY <1>3, <4>1
    <3>3. CASE c'[x] = Flushed(x, x)
      <4>1. Kept(c'[x], c[x])
        BY <1>1, <3>3, FlushedContexts
      <4>2. SamePlace(c'[x], c[x])
        BY <4>1 DEF SamePlace, Kept
      <4> QED BY <1>3, <4>2
    <3>4. CASE /\ c' = [c EXCEPT ![x].phys = file.last, ![x].noCache = TRUE]
               /\ env' = [env EXCEPT !.behind = IF io.op = "read" /\ io.x = x /\ io.at \in {"run", "mainwait"}
                                                THEN @ ELSE @ \cup {x}]
      <4>1. CASE Turns("read", x)
        <5>1. LET k == c'[x] IN
              /\ k.state = c[x].state /\ k.noCache /\ k.at = c[x].at /\ k.conn = c[x].conn /\ k.read = c[x].read
          BY <1>1, <3>4 DEF Context
        <5>2. Turns("read", x)' /\ ~Turns("seek", x)'
          BY <1>2, <4>1 DEF Turns
        <5>3. Busy(x) /\ Busy(x)' /\ c[x].state # "closed"
          BY <1>2, <4>1, <5>2 DEF Busy
        <5> QED BY <1>2, <4>1, <5>1, <5>2, <5>3 DEF Placed, Place
      <4>2. CASE ~Turns("read", x)
        <5>1. env' = [env EXCEPT !.behind = env.behind \cup {x}]
          BY <3>4, <4>2 DEF Turns
        <5>2. x \in env'.behind
          BY <5>1 DEF Env
        <5> QED BY <5>2 DEF Placed
      <4> QED BY <4>1, <4>2
    <3> QED BY <3>1, <3>2, <3>3, <3>4
  <2> QED BY <2>1, <2>2, <2>3, <2>4, <2>5 DEF Task
<1> QED BY <1>2, <1>3, <1>4, <1>5, <1>6, PositionEnters

\* The contexts a step of the demuxer's thread is not about.
LEMMA OthersPlaced ==
    ASSUME NEW x \in Ctx, io.x = x, io'.x = x, forwards' = forwards, env.interrupted => env'.interrupted,
           \A y \in Ctx \ {x} : SamePlace(c'[y], c[y]) /\ (y \in env.behind => y \in env'.behind)
    PROVE  \A y \in Ctx \ {x} : Placed(y)
<1> SUFFICES ASSUME NEW y \in Ctx \ {x} PROVE Placed(y)
  OBVIOUS
<1>1. ~Turns("read", y) /\ ~Turns("seek", y) /\ ~Turns("read", y)' /\ ~Turns("seek", y)'
  BY DEF Turns
<1> QED BY <1>1, PlaceStays

\* Outside the loops of a read and a seek.
LEMMA AllPlaced ==
    ASSUME forwards' = forwards, env.interrupted => env'.interrupted, env.behind \subseteq env'.behind,
           \A y \in Ctx : /\ SamePlace(c'[y], c[y])
                          /\ ~Turns("read", y) /\ ~Turns("seek", y) /\ ~Turns("read", y)' /\ ~Turns("seek", y)'
    PROVE  \A y \in Ctx : Placed(y)
<1> SUFFICES ASSUME NEW y \in Ctx PROVE Placed(y)
  OBVIOUS
<1> QED BY PlaceStays

LEMMA PositionPause ==
    ASSUME Shape, env \in Env, Position, (\E y \in Ctx : PauseNext(y)) \/ Paused
    PROVE  Position'
<1>1. /\ c \in [Ctx -> Context] /\ IoTyped /\ Thread
  BY DEF Shape, Typed
<1>2. forwards' = forwards /\ env' = env /\ io.op = "open"
  BY Zenon DEF PauseNext, Paused
<1>3. \A y \in Ctx : SamePlace(c'[y], c[y])
  <2>1. CASE \E y \in Ctx : PauseNext(y)
    <3>1. PICK y \in Ctx : c' = [c EXCEPT ![y].abort = TRUE]
      BY <2>1 DEF PauseNext, StopTask
    <3> QED BY <1>1, <3>1 DEF SamePlace, Context
  <2>2. CASE Paused
    <3>1. c' = [c EXCEPT ![io.y].state = "paused"] /\ Stops
      BY <2>2 DEF Paused, Stops
    <3>2. PICK y \in Ctx : y = io.y
      BY <1>1, <3>1 DEF IoTyped
    <3>3. c[y].state # "closed"
      BY <1>1, <1>2, <3>1, <3>2 DEF Thread
    <3> QED BY <1>1, <3>1, <3>2, <3>3 DEF SamePlace, Context
  <2> QED BY <2>1, <2>2
<1>4. io'.op = "open" /\ io'.data = io.data /\ io'.from = io.from /\ io'.x = io.x
  BY <1>1, <1>2 DEF PauseNext, Paused, IoTyped, Caller
<1>5. \A y \in Ctx : ~Turns("read", y) /\ ~Turns("seek", y) /\ ~Turns("read", y)' /\ ~Turns("seek", y)'
  BY <1>2, <1>4 DEF Turns
<1>6. Undermined => Undermined'
  BY <1>2 DEF Undermined
<1>7. \A y \in Ctx : Placed(y)
  BY <1>2, <1>3, <1>5, AllPlaced
<1>8. ~Undermined' => ReadsTheFile'
  BY <1>2, <1>4, <1>6, ReadStays
<1> QED BY <1>6, <1>7, <1>8, PositionEnters

LEMMA PositionOpen ==
    ASSUME Shape, env \in Env, Position, OpenContext
    PROVE  Position'
<1>1. c \in [Ctx -> Context] /\ IoTyped /\ io.op = "open"
  BY DEF Shape, Typed, OpenContext
<1>2. PICK x \in Ctx : x = io.x
  BY <1>1 DEF IoTyped
<1>3. Opened(x)
  BY <1>2, OpenedIs
<1>4. /\ forwards' = forwards /\ io'.x = x /\ io'.data = <<>> /\ \A op, y : op # "none" => ~Turns(op, y)'
      /\ env'.interrupted = env.interrupted /\ env'.behind = env.behind
      /\ env'.staleMap = env.staleMap /\ env'.switched = env.switched /\ env'.misled = env.misled
      /\ \/ c' = c
         \/ \E k \in Context :
              /\ c' = [c EXCEPT ![x] = k] /\ k.read = 0 /\ k.at = 0 /\ k.conn = 0
  BY <1>3 DEF Opened
<1>5. Undermined => Undermined'
  BY <1>4 DEF Undermined
<1>6. \A y \in Ctx \ {x} : SamePlace(c'[y], c[y])
  BY <1>1, <1>4 DEF SamePlace
<1>7. \A y \in Ctx \ {x} : Placed(y)
  BY <1>2, <1>4, <1>6, OthersPlaced
<1>8. ~Turns("read", x) /\ ~Turns("seek", x) /\ ~Turns("read", x)' /\ ~Turns("seek", x)'
  BY <1>1, <1>4 DEF Turns
<1>9. Placed(x)
  <2>1. CASE c' = c
    <3>1. SamePlace(c'[x], c[x])
      BY <2>1 DEF SamePlace
    <3> QED BY <1>4, <1>8, <3>1, PlaceStays
  <2>2. CASE \E k \in Context : /\ c' = [c EXCEPT ![x] = k] /\ k.read = 0 /\ k.at = 0 /\ k.conn = 0
    <3>1. c'[x].read = 0 /\ c'[x].at = 0 /\ c'[x].conn = 0
      BY <1>1, <2>2
    <3>2. ~Busy(x)'
      BY <1>8 DEF Busy
    <3> QED BY <1>8, <3>1, <3>2 DEF Placed, Place
  <2> QED BY <1>4, <2>1, <2>2
<1>10. ~Undermined' => ReadsTheFile'
  BY <1>4, <1>5, ReadStays
<1> QED BY <1>5, <1>7, <1>9, <1>10, PositionEnters

LEMMA PositionClosed ==
    ASSUME Shape, env \in Env, Position, Closed
    PROVE  Position'
<1>1. c \in [Ctx -> Context] /\ IoTyped /\ io.op = "close" /\ forwards' = forwards
  BY DEF Shape, Typed, Closed
<1>2. PICK x \in Ctx : x = io.x
  BY <1>1 DEF IoTyped
<1>3. /\ c' = [c EXCEPT ![x] = NewContext] /\ Returns(0) /\ env' = [env EXCEPT !.behind = env.behind \ {x}]
  BY <1>2 DEF Closed
<1>4. /\ env'.switched = env.switched /\ env'.misled = env.misled /\ env'.staleMap = env.staleMap
      /\ env'.interrupted = env.interrupted /\ env'.behind = env.behind \ {x}
  BY <1>3 DEF Env
<1>5. io'.data = <<>> /\ io'.x = x
  BY <1>2, <1>3, ReturnsTyped
<1>6. Undermined => Undermined'
  BY <1>4 DEF Undermined
<1>7. c'[x].state = "closed" /\ \A y \in Ctx \ {x} : SamePlace(c'[y], c[y])
  BY <1>1, <1>3, NewIs DEF SamePlace
<1>8. \A y \in Ctx \ {x} : Placed(y)
  BY <1>1, <1>2, <1>4, <1>5, <1>7, OthersPlaced
<1>9. Placed(x)
  BY <1>7 DEF Placed, Place
<1>10. ~Undermined' => ReadsTheFile'
  BY <1>5, <1>6, ReadStays
<1> QED BY <1>6, <1>8, <1>9, <1>10, PositionEnters

LEMMA PositionCalls ==
    ASSUME Shape, env \in Env, Position, Calls
    PROVE  Position'
<1>1. Typed /\ c \in [Ctx -> Context] /\ IoTyped /\ io.op = "none"
  BY DEF Shape, Typed, Calls, OpenCall, CloseCall, ReadCall, SeekCall, Call
<1>2. PICK x \in Ctx : \/ OpenCall(x) \/ CloseCall(x)
                       \/ \E n \in 1 .. 2 : ReadCall(x, n)
                       \/ \E p \in 0 .. FileSize : SeekCall(x, p)
  BY DEF Calls
<1>3. /\ (env.switched => env'.switched) /\ env'.misled = env.misled /\ env'.staleMap = env.staleMap
      /\ env'.interrupted = env.interrupted /\ env'.behind = env.behind
  <2>1. /\ Called \in Env /\ Called.switched = env.switched /\ Called.misled = env.misled
        /\ Called.staleMap = env.staleMap /\ Called.interrupted = env.interrupted /\ Called.behind = env.behind
    BY DEF Called, Env
  <2>2. \/ env' = Called
        \/ env' = [Called EXCEPT !.switched = @ \/ (forwards = 0 /\ c[x].state = "paused")]
    BY <1>2, Zenon DEF OpenCall, CloseCall, ReadCall, SeekCall
  <2> HIDE DEF Called
  <2> QED BY <2>1, <2>2 DEF Env
<1>4. \A y \in Ctx : SamePlace(c'[y], c[y])
  <2>1. \/ c' = c \/ c' = [c EXCEPT ![x].abort = TRUE]
        \/ (c' = [c EXCEPT ![x] = Resumed(x)] /\ c[x].state # "closed")
    BY <1>2 DEF OpenCall, CloseCall, ReadCall, SeekCall, StopTask, Usable
  <2>2. CASE c' = c
    BY <2>2 DEF SamePlace
  <2>3. CASE c' = [c EXCEPT ![x].abort = TRUE]
    BY <1>1, <2>3 DEF SamePlace, Context
  <2>4. CASE c' = [c EXCEPT ![x] = Resumed(x)] /\ c[x].state # "closed"
    <3>1. SamePlace(Resumed(x), c[x])
      BY <1>1, <2>4, ResumedIs DEF SamePlace
    <3>2. \A y \in Ctx \ {x} : c'[y] = c[y]
      BY <1>1, <2>4
    <3> QED BY <1>1, <2>4, <3>1, <3>2 DEF SamePlace
  <2> QED BY <2>1, <2>2, <2>3, <2>4
<1>5. io'.data = <<>> /\ io'.at \in {"pause", "enter", "exitwait", "stopped"} /\ forwards' = forwards
  <2>1. Idle \in Caller /\ Idle.data = <<>>
    BY IdleIs
  <2>2. CASE OpenCall(x)
    BY <2>1, <2>2 DEF OpenCall, Caller
  <2>3. CASE CloseCall(x)
    BY <2>1, <2>3 DEF CloseCall, Caller
  <2>4. CASE \E n \in 1 .. 2 : ReadCall(x, n)
    BY <2>1, <2>4 DEF ReadCall, Caller
  <2>5. CASE \E p \in 0 .. FileSize : SeekCall(x, p)
    BY <2>1, <2>5 DEF SeekCall, Caller
  <2> QED BY <1>2, <2>2, <2>3, <2>4, <2>5
<1>6. \A y \in Ctx : ~Turns("read", y) /\ ~Turns("seek", y) /\ ~Turns("read", y)' /\ ~Turns("seek", y)'
  BY <1>1, <1>5 DEF Turns
<1>7. Undermined => Undermined'
  BY <1>3 DEF Undermined
<1>8. \A y \in Ctx : Placed(y)
  BY <1>3, <1>4, <1>5, <1>6, AllPlaced
<1>9. ~Undermined' => ReadsTheFile'
  BY <1>5, <1>7, ReadStays
<1> QED BY <1>7, <1>8, <1>9, PositionEnters

LEMMA PositionShare ==
    ASSUME Shape, env \in Env, Position, WillShare \/ DidShare \/ Interrupt
    PROVE  Position'
<1>1. /\ c' = c /\ io' = io /\ forwards' = forwards
      /\ env'.switched = env.switched /\ env'.misled = env.misled /\ env'.staleMap = env.staleMap
      /\ env'.behind = env.behind /\ (env.interrupted => env'.interrupted)
  <2>1. /\ Trouble \in Env /\ Trouble.switched = env.switched /\ Trouble.misled = env.misled
        /\ Trouble.staleMap = env.staleMap /\ Trouble.behind = env.behind /\ Trouble.interrupted = env.interrupted
    BY DEF Trouble, Env
  <2>2. /\ c' = c /\ io' = io /\ forwards' = forwards
        /\ env' = env \/ env' = Trouble \/ env' = [Trouble EXCEPT !.interrupted = TRUE]
    BY Zenon DEF WillShare, DidShare, Interrupt
  <2> HIDE DEF Trouble
  <2> QED BY <2>1, <2>2 DEF Env
<1>2. Undermined => Undermined'
  BY <1>1 DEF Undermined
<1>3. ASSUME NEW y \in Ctx PROVE Placed(y)
  <2>1. SamePlace(c'[y], c[y]) /\ Turns("read", y)' = Turns("read", y) /\ Turns("seek", y)' = Turns("seek", y)
    BY <1>1 DEF SamePlace, Turns
  <2> QED BY <1>1, <2>1, PlaceStays
<1>4. ~Undermined' => ReadsTheFile'
  BY <1>1, <1>2, ReadStays
<1> QED BY <1>2, <1>3, <1>4, PositionEnters

\* At first, and after the process has ended, no context is open.
LEMMA PositionEnd ==
    ASSUME Shape, env \in Env, Quit \/ Crash
    PROVE  Position'
<1>1. c' = [x \in Ctx |-> NewContext] /\ io' = Idle
  BY EndIs
<1>2. \A x \in Ctx : c'[x].state = "closed"
  BY <1>1, NewIs
<1>3. io'.data = <<>>
  BY <1>1, IdleIs
<1> QED BY <1>2, <1>3 DEF Position, ReadsTheFile, Place

\* What is read of the cache file are the blocks that were asked for.
LEMMA RunHolds ==
    ASSUME Shape, Content, ~Undermined, NEW x \in Ctx, NEW i, NEW n, NEW k, NEW p, ReadsRun(x, i, n, k, p)
    PROVE  \A j \in 1 .. k : SubSeq(file.disk, p + 1, p + k)[j] = <<x, i + j - 1>>
<1>1. Holds(file.map, file.disk) /\ file.disk \in Seq(Data)
  BY DEF Content, Undermined, Shape, Typed, FileTyped, File
<1>2. SUFFICES ASSUME NEW j \in 1 .. k PROVE SubSeq(file.disk, p + 1, p + k)[j] = <<x, i + j - 1>>
  OBVIOUS
<1>3. /\ i \in Blocks /\ k \in 1 .. n /\ p \in Nat /\ p + k <= Len(file.disk)
      /\ SubSeq(file.disk, p + 1, p + k)[j] = file.disk[p + j]
      /\ file.map[x][i + j - 1] = p + j - 1 /\ Cached(x, i + j - 1)
  BY DEF ReadsRun
<1> DEFINE b == i + j - 1
           q == p + j - 1
<1>4. q \in Nat /\ q < Len(file.disk) /\ q + 1 = p + j
  BY <1>1, <1>3 DEF Blocks
<1>5. b \in Blocks /\ file.map[x][b] = q /\ q # None
  BY <1>3, <1>4 DEF Cached, None
<1> HIDE DEF b, q
<1>6. file.disk[q + 1] = <<x, b>>
  BY <1>1, <1>4, <1>5 DEF Holds
<1> QED BY <1>3, <1>4, <1>6 DEF b

\* What a read that begins may rely on.
LEMMA Begun ==
    ASSUME Shape, io.op = "read", io.at = "enter", NEW x \in Ctx, io.x = x
    PROVE  /\ io.data = <<>> /\ io.from = c[x].at /\ ~Turns("read", x) /\ ~Turns("seek", x)
           /\ c[x] \in Context /\ c \in [Ctx -> Context] /\ c[x].state = "started" /\ IoTyped /\ io.from \in Nat
<1>1. IoTyped /\ c \in [Ctx -> Context] /\ Thread
  BY DEF Shape, Typed
<1>2. c[x].state = "started"
  BY <1>1 DEF Thread
<1> QED BY <1>1, <1>2 DEF IoTyped, Turns, Context

LEMMA PositionEnterRead ==
    ASSUME Shape, env \in Env, Position, EnterRead
    PROVE  Position'
<1>1. io.op = "read" /\ io.at = "enter" /\ forwards' = forwards
  BY DEF EnterRead
<1>2. PICK x \in Ctx : x = io.x
  BY <1>1, UsedContext
<1>3. /\ io.data = <<>> /\ io.from = c[x].at /\ ~Turns("read", x) /\ ~Turns("seek", x)
      /\ c[x] \in Context /\ c \in [Ctx -> Context] /\ c[x].state = "started" /\ IoTyped /\ io.from \in Nat
  BY <1>1, <1>2, Begun
<1>4. CASE c[x].noCache
  <2>1. ReadDirect(x, c[x])
    BY <1>2, <1>4, Zenon DEF EnterRead
  <2>2. PICK m \in Context :
          /\ c' = [c EXCEPT ![x] = m] /\ Stays(m, c[x]) /\ io'.x = x /\ \A op, y : op # "none" => ~Turns(op, y)'
          /\ env'.interrupted = env.interrupted /\ env'.staleMap = env.staleMap
          /\ env'.switched = env.switched /\ env'.misled = env.misled
          /\ \/ /\ m.conn = c[x].conn + 1 /\ m.at = io.from + Len(io.data) + 1
                /\ io'.from = io.from /\ io'.data = Append(io.data, <<x, c[x].conn>>)
                /\ env'.behind = env.behind
             \/ /\ m.conn = c[x].conn /\ m.at = c[x].at /\ io'.data = <<>>
                /\ env.behind \subseteq env'.behind
    BY <1>1, <1>2, <1>3, <2>1, DirectIs
  <2>3. env.behind \subseteq env'.behind /\ (Undermined => Undermined')
    BY <2>2 DEF Undermined
  <2>4. c'[x] = m /\ \A y \in Ctx \ {x} : SamePlace(c'[y], c[y])
    BY <1>3, <2>2 DEF SamePlace
  <2>5. \A y \in Ctx \ {x} : Placed(y)
    BY <1>1, <1>2, <2>2, <2>3, <2>4, OthersPlaced
  <2>6. ~Turns("read", x)' /\ ~Turns("seek", x)'
    BY <2>2
  <2>7. ASSUME x \notin env.behind, Place(x) PROVE c[x].conn = c[x].at
    BY <1>3, <1>4, <2>7 DEF Place
  <2>8. Placed(x)
    <3>1. x \notin env.behind /\ Place(x) => m.conn = m.at
      BY <1>3, <2>2, <2>7
    <3>2. m.noCache /\ ~Busy(x)'
      BY <1>4, <2>2, <2>6 DEF Stays, Busy
    <3> QED BY <2>3, <2>4, <2>6, <3>1, <3>2 DEF Placed, Place
  <2>9. ~Undermined' => ReadsTheFile'
    <3>1. CASE io'.data = <<>>
      BY <2>3, <3>1, ReadStays
    <3>2. CASE /\ io'.from = io.from /\ io'.data = Append(io.data, <<x, c[x].conn>>)
               /\ env'.behind = env.behind
      <4> SUFFICES ASSUME ~Undermined', x \notin env'.behind, NEW j \in 1 .. Len(io'.data)
                   PROVE  io'.data[j] = <<x, io'.from + j - 1>>
        BY <2>2 DEF ReadsTheFile
      <4>1. c[x].conn = c[x].at
        BY <2>3, <2>7, <3>2 DEF Position
      <4>2. io'.data = <<<<x, io.from>>>>
        BY <1>3, <3>2, <4>1
      <4> QED BY <1>3, <3>2, <4>2
    <3> QED BY <2>2, <3>1, <3>2
  <2> QED BY <2>3, <2>5, <2>8, <2>9, PositionEnters
<1>5. CASE ~c[x].noCache
  <2>1. io' = [io EXCEPT !.at = "run"] /\ c' = c /\ env' = env /\ forwards > 0
    BY <1>2, <1>5, Zenon DEF EnterRead
  <2>2. io'.op = "read" /\ io'.at = "run" /\ io'.x = x /\ io'.from = io.from /\ io'.data = io.data
    BY <1>1, <1>2, <1>3, <2>1 DEF IoTyped, Caller
  <2>3. Undermined => Undermined'
    BY <2>1 DEF Undermined
  <2>4. \A y \in Ctx \ {x} : SamePlace(c'[y], c[y])
    BY <2>1 DEF SamePlace
  <2>5. \A y \in Ctx \ {x} : Placed(y)
    BY <1>1, <1>2, <2>1, <2>2, <2>4, OthersPlaced
  <2>6. Turns("read", x)' /\ ~Turns("seek", x)' /\ Busy(x)' /\ ~Busy(x)
    BY <1>3, <2>2 DEF Turns, Busy
  <2>7. Placed(x)
    <3>1. io'.from + Len(io'.data) = c[x].at
      BY <1>3, <2>2
    <3>2. x \notin env.behind /\ Place(x) /\ ~env.interrupted => c[x].at = c[x].read
      BY <1>3, <1>5, <2>6 DEF Place
    <3>3. c'[x] = c[x] /\ io'.from = c[x].at /\ env'.interrupted = env.interrupted /\ env'.behind = env.behind
      BY <1>3, <2>1, <2>2
    <3>4. forwards' > 0
      BY <1>1, <2>1
    <3> QED BY <1>5, <2>6, <3>1, <3>2, <3>3, <3>4 DEF Placed, Place
  <2>8. ~Undermined' => ReadsTheFile'
    BY <1>3, <2>2, <2>3, ReadStays
  <2> QED BY <2>3, <2>5, <2>7, <2>8, PositionEnters
<1> QED BY <1>4, <1>5

LEMMA PositionSyncCached ==
    ASSUME Shape, env \in Env, Content, Position, SyncReadCached
    PROVE  Position'
<1>1. io.op = "read" /\ io.at = "enter" /\ forwards' = forwards /\ forwards = 0 /\ env' = env
  BY DEF SyncReadCached
<1>2. PICK x \in Ctx : x = io.x
  BY <1>1, UsedContext
<1>3. /\ io.data = <<>> /\ io.from = c[x].at /\ ~Turns("read", x) /\ ~Turns("seek", x)
      /\ c[x] \in Context /\ c \in [Ctx -> Context] /\ c[x].state = "started" /\ IoTyped /\ io.from \in Nat
  BY <1>1, <1>2, Begun
<1>4. PICK k \in 1 .. io.want, m \in Context :
           LET i == c[x].read
               p == file.map[x][i] IN
           /\ Cached(x, i) /\ ReadsRun(x, i, io.want, k, p)
           /\ m = [c[x] EXCEPT !.read = i + k, !.at = io.from + k, !.phys = p + k]
           /\ c' = [c EXCEPT ![x] = m] /\ file' = [file EXCEPT !.off = p + k]
           /\ io' = Answer(x, k, io.from, SubSeq(file.disk, p + 1, p + k))
  BY <1>2, SyncCachedIs
<1> DEFINE i == c[x].read
           p == file.map[x][i]
           d == SubSeq(file.disk, p + 1, p + k)
<1>5. ~c[x].noCache
  BY <1>2 DEF SyncReadCached
<1>6. /\ ReadsRun(x, i, io.want, k, p) /\ d \in Seq(Data) /\ Len(d) = k /\ k \in Nat /\ i \in Nat
  <2>1. ReadsRun(x, i, io.want, k, p)
    BY <1>4, Zenon
  <2>2. i \in Blocks /\ d \in Seq(Data) /\ Len(d) = k
    <3> HIDE DEF i, p
    <3> QED BY <2>1 DEF ReadsRun
  <2> QED BY <2>1, <2>2 DEF Blocks
<1>7. m.read = i + k /\ m.at = io.from + k /\ m.noCache = c[x].noCache /\ m.state = c[x].state
  <2> DEFINE r == i + k
             a == io.from + k
             q == p + k
  <2>1. m = [c[x] EXCEPT !.read = r, !.at = a, !.phys = q]
    BY <1>4
  <2> HIDE DEF r, a, q
  <2>2. m.read = r /\ m.at = a /\ m.noCache = c[x].noCache /\ m.state = c[x].state
    BY <1>3, <2>1 DEF Context
  <2> QED BY <2>2 DEF r, a
<1>8. io' = Answer(x, k, io.from, d) /\ c' = [c EXCEPT ![x] = m]
  BY <1>4
<1> HIDE DEF i, p, d
<1>9. /\ io'.op = "none" /\ io'.x = x /\ io'.from = io.from /\ io'.data = d
      /\ \A op, y : op # "none" => ~Turns(op, y)'
  <2>1. k \in Int /\ x \in Ctx \cup {None}
    BY <1>6
  <2> QED BY <1>3, <1>6, <1>8, <2>1, IdleTyped
<1>10. Undermined => Undermined'
  BY <1>1 DEF Undermined
<1>11. c'[x] = m /\ \A y \in Ctx \ {x} : SamePlace(c'[y], c[y])
  BY <1>3, <1>8 DEF SamePlace
<1>12. \A y \in Ctx \ {x} : Placed(y)
  BY <1>1, <1>2, <1>9, <1>11, OthersPlaced
<1>13. ASSUME x \notin env.behind, Place(x) PROVE io.from = i
  <2>1. ~Busy(x)
    BY <1>3 DEF Busy
  <2> QED BY <1>1, <1>3, <1>5, <1>13, <2>1 DEF Place, i
<1>14. Placed(x)
  <2>1. x \notin env.behind /\ Place(x) => m.at = m.read
    BY <1>7, <1>13
  <2>2. ~Turns("read", x)' /\ ~Turns("seek", x)'
    BY <1>9
  <2>3. ~Busy(x)' /\ ~m.noCache
    BY <1>5, <1>7, <2>2 DEF Busy
  <2> QED BY <1>1, <1>11, <2>1, <2>2, <2>3 DEF Placed, Place
<1>15. ~Undermined' => ReadsTheFile'
  <2> SUFFICES ASSUME ~Undermined', x \notin env'.behind, NEW j \in 1 .. Len(io'.data)
               PROVE  io'.data[j] = <<x, io'.from + j - 1>>
    BY <1>9 DEF ReadsTheFile
  <2>1. ~Undermined /\ x \notin env.behind
    BY <1>1, <1>10
  <2>2. io.from = i
    BY <1>13, <2>1 DEF Position
  <2>3. \A l \in 1 .. k : d[l] = <<x, i + l - 1>>
    BY <1>6, <2>1, RunHolds DEF d
  <2> QED BY <1>6, <1>9, <2>2, <2>3
<1> QED BY <1>10, <1>12, <1>14, <1>15, PositionEnters

\* Only where the connection is may change.
SamePlaceButConn(k, l) == k.state = l.state /\ k.noCache = l.noCache /\ k.at = l.at /\ k.read = l.read

LEMMA PositionSyncThrough ==
    ASSUME Shape, env \in Env, Content, Position, SyncReadThrough
    PROVE  Position'
<1>1. io.op = "read" /\ io.at = "enter"
  BY DEF SyncReadThrough
<1>2. PICK x \in Ctx : x = io.x
  BY <1>1, UsedContext
<1>3. /\ io.data = <<>> /\ io.from = c[x].at /\ ~Turns("read", x) /\ ~Turns("seek", x)
      /\ c[x] \in Context /\ c \in [Ctx -> Context] /\ c[x].state = "started" /\ IoTyped /\ io.from \in Nat
  BY <1>1, <1>2, Begun
<1>4. ~c[x].noCache /\ forwards = 0 /\ forwards' = forwards
  BY <1>2, SyncThroughIs
<1>5. \/ Returns(Eof) /\ c' = [c EXCEPT ![x].eof = TRUE] /\ env' = env
      \/ \E o \in NetworkOutcomes(x, c[x].read) :
            /\ c[x].read \in Blocks /\ Returns(IF o = "ends" THEN Eof ELSE Eio)
            /\ c' = [c EXCEPT ![x] = Connected(c[x], c[x].read, o)] /\ env' = After(x, c[x].read, o)
      \/ \E m \in Context : ReadThrough(x, m)
  BY <1>2, SyncThroughIs
<1>6. ASSUME NEW r \in Int, Returns(r), SamePlaceButConn(c'[x], c[x]),
             \A y \in Ctx \ {x} : c'[y] = c[y], env'.interrupted = env.interrupted, env'.behind = env.behind,
             env'.staleMap = env.staleMap, env'.switched = env.switched, env'.misled = env.misled
      PROVE  Position'
  <2>1. io'.data = <<>> /\ io'.x = x /\ \A op, y : op # "none" => ~Turns(op, y)'
    BY <1>2, <1>6, ReturnsTyped
  <2>2. Undermined => Undermined'
    BY <1>6 DEF Undermined
  <2>3. \A y \in Ctx \ {x} : SamePlace(c'[y], c[y])
    BY <1>6 DEF SamePlace
  <2>4. \A y \in Ctx \ {x} : Placed(y)
    BY <1>2, <1>4, <1>6, <2>1, <2>3, OthersPlaced
  <2>5. ~Turns("read", x)' /\ ~Turns("seek", x)'
    BY <2>1
  <2>6. ~Busy(x)' /\ ~Busy(x)
    BY <1>3, <2>5 DEF Busy
  <2>7. Placed(x)
    BY <1>3, <1>4, <1>6, <2>5, <2>6 DEF Placed, Place, SamePlaceButConn
  <2>8. ~Undermined' => ReadsTheFile'
    BY <2>1, <2>2, ReadStays
  <2> QED BY <2>2, <2>4, <2>7, <2>8, PositionEnters
<1>7. CASE Returns(Eof) /\ c' = [c EXCEPT ![x].eof = TRUE] /\ env' = env
  <2>1. SamePlaceButConn(c'[x], c[x]) /\ \A y \in Ctx \ {x} : c'[y] = c[y]
    BY <1>3, <1>7 DEF Context, SamePlaceButConn
  <2>2. Eof \in Int
    BY DEF Eof
  <2> QED BY <1>6, <1>7, <2>1, <2>2
<1>8. ASSUME NEW o \in NetworkOutcomes(x, c[x].read), c[x].read \in Blocks,
             Returns(IF o = "ends" THEN Eof ELSE Eio),
             c' = [c EXCEPT ![x] = Connected(c[x], c[x].read, o)], env' = After(x, c[x].read, o)
      PROVE  Position'
  <2> DEFINE k == Connected(c[x], c[x].read, o)
             r == IF o = "ends" THEN Eof ELSE Eio
  <2>1. SamePlaceButConn(k, c[x])
    BY <1>3, <1>8, ConnectedIs DEF SamePlaceButConn
  <2>2. /\ env'.staleMap = env.staleMap /\ env'.switched = env.switched /\ env'.misled = env.misled
        /\ env'.interrupted = env.interrupted /\ env'.behind = env.behind
    BY <1>8, AfterIs
  <2>3. SamePlaceButConn(c'[x], c[x]) /\ \A y \in Ctx \ {x} : c'[y] = c[y]
    <3> HIDE DEF k
    <3>1. c' = [c EXCEPT ![x] = k]
      BY <1>8 DEF k
    <3> QED BY <1>3, <2>1, <3>1
  <2>4. r \in Int
    BY DEF Eof, Eio
  <2>5. Returns(r)
    BY <1>8
  <2> HIDE DEF k, r
  <2> QED BY <1>6, <2>2, <2>3, <2>4, <2>5
<1>9. ASSUME NEW m \in Context, ReadThrough(x, m) PROVE Position'
  <2>1. Through(x, m)
    BY <1>1, <1>2, <1>9, ThroughIs
  <2> DEFINE i == c[x].read
             at == ConnAt(c[x], i)
  <2>2. /\ i \in Blocks /\ at \in Blocks /\ (c[x].conn = c[x].inner => at = i)
        /\ m.read = i + 1 /\ m.at = io.from + 1 /\ m.noCache = c[x].noCache
        /\ io'.op = "none" /\ io'.x = x /\ io'.from = io.from /\ io'.data = <<<<x, at>>>>
        /\ \A op, y : op # "none" => ~Turns(op, y)'
        /\ env' = env
        /\ \/ c' = [c EXCEPT ![x] = m]
           \/ c' = [y \in Ctx |-> IF y = x THEN m ELSE IF Room THEN c[y] ELSE Flushed(x, y)]
    BY <2>1 DEF Through
  <2> HIDE DEF at
  <2>3. c'[x] = m /\ \A y \in Ctx \ {x} : SamePlace(c'[y], c[y])
    <3>1. \A y \in Ctx \ {x} : Kept(Flushed(x, y), c[y])
      BY <1>3, FlushedContexts
    <3>2. \A y \in Ctx \ {x} : c'[y] = c[y] \/ c'[y] = Flushed(x, y)
      BY <1>3, <2>2
    <3>3. c'[x] = m
      BY <1>3, <2>2
    <3> QED BY <3>1, <3>2, <3>3 DEF Kept, SamePlace
  <2>4. Undermined => Undermined'
    BY <2>2 DEF Undermined
  <2>5. \A y \in Ctx \ {x} : Placed(y)
    BY <1>2, <1>4, <2>2, <2>3, OthersPlaced
  <2>6. ~Turns("read", x)' /\ ~Turns("seek", x)'
    BY <2>2
  <2>7. ~Busy(x)' /\ ~Busy(x)
    BY <1>3, <2>6 DEF Busy
  <2>8. ASSUME x \notin env.behind, Place(x) PROVE io.from = i
    BY <1>3, <1>4, <2>7, <2>8 DEF Place
  <2>9. Placed(x)
    <3>1. x \notin env.behind /\ Place(x) => m.at = m.read
      BY <2>2, <2>8
    <3> QED BY <1>4, <2>2, <2>3, <2>6, <2>7, <3>1 DEF Placed, Place
  <2>10. ~Undermined' => ReadsTheFile'
    <3> SUFFICES ASSUME ~Undermined', x \notin env'.behind, NEW j \in 1 .. Len(io'.data)
                 PROVE  io'.data[j] = <<x, io'.from + j - 1>>
      BY <2>2 DEF ReadsTheFile
    <3>1. ~Undermined /\ x \notin env.behind
      BY <2>2, <2>4
    <3>2. io.from = i
      BY <2>8, <3>1 DEF Position
    <3>3. c[x].conn = c[x].inner
      BY <1>4, <3>1 DEF Content, Connection, Undermined
    <3>4. j = 1 /\ at = i
      BY <2>2, <3>3
    <3> QED BY <1>3, <2>2, <3>2, <3>4
  <2> QED BY <2>4, <2>5, <2>9, <2>10, PositionEnters
<1> QED BY <1>5, <1>7, <1>8, <1>9

LEMMA PositionReadTurn ==
    ASSUME Shape, env \in Env, Content, Position, ReadTurn
    PROVE  Position'
<1>1. io.op = "read" /\ io.at = "run"
  BY DEF ReadTurn
<1>2. PICK x \in Ctx : x = io.x
  BY <1>1, UsedContext
<1>3. PICK m \in Context : Turned(x, m)
  BY <1>2, ReadTurnIs
<1>4. /\ c[x] \in Context /\ c \in [Ctx -> Context] /\ io.from \in Nat /\ io.data \in Seq(Data) /\ forwards \in Nat
      /\ c[x].abort => env.interrupted
  BY <1>1, <1>2, UsedContext DEF IoTyped, Caller
<1>5. /\ c' = [c EXCEPT ![x] = m] /\ forwards' = forwards /\ io'.x = x /\ env'.interrupted = env.interrupted
      /\ env'.staleMap = env.staleMap /\ env'.switched = env.switched /\ env'.misled = env.misled
      /\ env.behind \subseteq env'.behind /\ io'.op \in {"none", "read"}
      /\ m.state = c[x].state /\ m.noCache = c[x].noCache
  BY <1>3 DEF Turned, SameTask
<1>6. \/ TurnAborted(x, m) \/ TurnDirect(x, m) \/ TurnUnsought(x, m)
      \/ TurnCached(x, m) \/ TurnEnded(x, m) \/ TurnWaits(x, m)
  BY <1>3 DEF Turned
<1>7. Undermined => Undermined'
  BY <1>5 DEF Undermined
<1>8. c'[x] = m /\ \A y \in Ctx \ {x} : SamePlace(c'[y], c[y])
  BY <1>4, <1>5 DEF SamePlace
<1>9. \A y \in Ctx \ {x} : Placed(y)
  BY <1>2, <1>5, <1>8, OthersPlaced
<1>10. Turns("read", x) /\ Busy(x) /\ ~Turns("seek", x)'
  BY <1>1, <1>2, <1>5 DEF Turns, Busy
<1>11. ASSUME c[x].state # "closed", Place(x)
       PROVE  forwards > 0 /\ (~env.interrupted => c[x].at = io.from /\ io.from + Len(io.data) = c[x].read)
  BY <1>10, <1>11 DEF Place
<1>12. io'.op = "none" => ~Turns("read", x)' /\ ~Busy(x)'
  BY DEF Turns, Busy
<1>13. ~Aborted(x) => ~env.interrupted
  BY DEF Aborted
<1>14. ASSUME ~Undermined', x \notin env'.behind
       PROVE  ~Undermined /\ Place(x) /\ \A j \in 1 .. Len(io.data) : io.data[j] = <<x, io.from + j - 1>>
  BY <1>2, <1>5, <1>7, <1>14 DEF Position, ReadsTheFile
<1>15. c[x].state = "started"
  BY <1>1, <1>2, UsedContext
<1>16. ASSUME ~Undermined' => Placed(x), 
              ~Undermined' /\ x \notin env'.behind => \A j \in 1 .. Len(io'.data) : io'.data[j] = <<x, io'.from + j - 1>>
       PROVE  Position'
  <2>1. ~Undermined' => ReadsTheFile'
    BY <1>5, <1>16 DEF ReadsTheFile
  <2>2. ~Undermined' => \A y \in Ctx : Placed(y)
    BY <1>9, <1>16
  <2>3. ASSUME ~Undermined', NEW y \in Ctx \ env'.behind PROVE Place(y)'
    <3>1. ~Undermined /\ (y \in env.behind \/ Place(y))
      BY <1>7, <2>3 DEF Position
    <3> QED BY <2>2, <2>3, <3>1 DEF Placed
  <2> QED BY <2>1, <2>3 DEF Position
<1>17. CASE TurnAborted(x, m)
  <2>1. env'.interrupted /\ io'.data = <<>> /\ ~Busy(x)' /\ ~Turns("read", x)' /\ (m.noCache => x \in env'.behind)
    BY <1>4, <1>5, <1>12, <1>17 DEF TurnAborted, Aborted
  <2>2. Placed(x)
    BY <1>4, <1>5, <1>8, <1>10, <1>11, <1>15, <2>1 DEF Placed, Place
  <2> QED BY <1>16, <2>1, <2>2
<1>22. CASE TurnUnsought(x, m)
  <2>1. io'.data = <<>> /\ ~Busy(x)' /\ ~Turns("read", x)' /\ m.noCache /\ x \in env'.behind
    BY <1>5, <1>12, <1>22 DEF TurnUnsought
  <2>2. Placed(x)
    BY <1>5, <1>8, <1>10, <2>1 DEF Placed, Place
  <2> QED BY <1>16, <2>1, <2>2
<1>18. CASE TurnDirect(x, m)
  <2>1. ~env.interrupted /\ m.noCache /\ ~Busy(x)' /\ ~Turns("read", x)' /\ c[x].read \in Nat
    BY <1>4, <1>5, <1>12, <1>13, <1>18 DEF TurnDirect, Context
  <2>2. CASE /\ m.conn = c[x].read + 1 /\ m.at = io.from + Len(io.data) + 1
             /\ io'.from = io.from /\ io'.data = Append(io.data, <<x, c[x].read>>)
    <3>1. x \notin env'.behind /\ Place(x) => m.conn = m.at
      BY <1>11, <1>15, <2>1, <2>2
    <3>2. Placed(x)
      BY <1>5, <1>8, <1>10, <2>1, <3>1 DEF Placed, Place
    <3>3. ASSUME ~Undermined', x \notin env'.behind, NEW j \in 1 .. Len(io'.data)
          PROVE  io'.data[j] = <<x, io'.from + j - 1>>
      <4>1. io.from + Len(io.data) = c[x].read /\ \A l \in 1 .. Len(io.data) : io.data[l] = <<x, io.from + l - 1>>
        BY <1>11, <1>14, <1>15, <2>1, <3>3
      <4>2. Len(io'.data) = Len(io.data) + 1 /\ io'.data[Len(io.data) + 1] = <<x, c[x].read>>
            /\ \A l \in 1 .. Len(io.data) : io'.data[l] = io.data[l]
        BY <1>4, <2>2
      <4>3. CASE j = Len(io.data) + 1
        BY <1>4, <2>2, <4>1, <4>2, <4>3
      <4>4. CASE j # Len(io.data) + 1
        <5>1. j \in 1 .. Len(io.data)
          BY <1>4, <4>2, <4>4
        <5> QED BY <2>2, <4>1, <4>2, <5>1
      <4> QED BY <4>3, <4>4
    <3> QED BY <1>16, <3>2, <3>3
  <2>3. CASE m.conn = c[x].read /\ m.at = c[x].at /\ io'.data = <<>> /\ (io.data # <<>> => x \in env'.behind)
    <3>1. x \notin env'.behind /\ Place(x) => m.conn = m.at
      BY <1>4, <1>11, <1>15, <2>1, <2>3
    <3>2. Placed(x)
      BY <1>5, <1>8, <1>10, <2>1, <3>1 DEF Placed, Place
    <3> QED BY <1>16, <2>3, <3>2
  <2> QED BY <1>18, <2>2, <2>3 DEF TurnDirect
<1>19. CASE TurnCached(x, m)
  <2>1. ~env.interrupted /\ ~m.noCache /\ env' = env
    BY <1>5, <1>13, <1>19 DEF TurnCached
  <2>2. PICK k \in 1 .. io.want - Len(io.data), p \in Nat, d \in Seq(Data) :
          /\ d = SubSeq(file.disk, p + 1, p + k) /\ ReadsRun(x, c[x].read, io.want - Len(io.data), k, p)
          /\ m.read = c[x].read + k /\ io'.from = io.from /\ io'.data = io.data \o d
          /\ \/ io'.op = "read" /\ io'.at = "mainwait" /\ m.at = c[x].at
             \/ io'.op = "none" /\ io'.ret = io.want /\ m.at = io.from + Len(io.data \o d)
    BY <1>19 DEF TurnCached
  <2>3. Len(d) = k /\ c[x].read \in Nat
    BY <1>4, <2>2 DEF ReadsRun, Context
  <2>4. Len(io'.data) = Len(io.data) + k
    BY <1>4, <2>2, <2>3
  <2>5. Placed(x)
    <3>1. CASE io'.op = "read" /\ io'.at = "mainwait" /\ m.at = c[x].at
      <4>1. Turns("read", x)' /\ Busy(x)'
        BY <1>5, <3>1 DEF Turns, Busy
      <4>2. x \notin env.behind /\ Place(x) => m.at = io'.from /\ io'.from + Len(io'.data) = m.read
        BY <1>4, <1>11, <1>15, <2>1, <2>2, <2>3, <2>4, <3>1
      <4>3. Place(x) => forwards' > 0
        BY <1>5, <1>11, <1>15
      <4> QED BY <1>8, <1>10, <2>1, <4>1, <4>2, <4>3 DEF Placed, Place
    <3>2. CASE io'.op = "none" /\ m.at = io.from + Len(io.data \o d)
      <4>0. m.at = io.from + (Len(io.data) + k) /\ m.read = c[x].read + k /\ k \in Nat /\ Len(io.data) \in Nat
        BY <1>4, <2>2, <2>4, <3>2
      <4>1. x \notin env.behind /\ Place(x) => m.at = m.read
        BY <1>4, <1>11, <1>15, <2>1, <2>3, <4>0
      <4> QED BY <1>8, <1>10, <1>12, <2>1, <3>2, <4>1 DEF Placed, Place
    <3> QED BY <2>2, <3>1, <3>2
  <2>6. ASSUME ~Undermined', x \notin env'.behind, NEW j \in 1 .. Len(io'.data)
        PROVE  io'.data[j] = <<x, io'.from + j - 1>>
    <3>1. /\ ~Undermined /\ io.from + Len(io.data) = c[x].read
          /\ \A l \in 1 .. Len(io.data) : io.data[l] = <<x, io.from + l - 1>>
      BY <1>11, <1>14, <1>15, <2>1, <2>6
    <3>2. \A l \in 1 .. k : d[l] = <<x, c[x].read + l - 1>>
      <4>1. \A l \in 1 .. k : SubSeq(file.disk, p + 1, p + k)[l] = <<x, c[x].read + l - 1>>
        <5> DEFINE n == io.want - Len(io.data)
                   i == c[x].read
        <5>1. ReadsRun(x, i, n, k, p) /\ ~Undermined
          BY <2>2, <3>1
        <5> HIDE DEF n, i
        <5>2. \A l \in 1 .. k : SubSeq(file.disk, p + 1, p + k)[l] = <<x, i + l - 1>>
          BY <5>1, RunHolds
        <5> QED BY <5>2 DEF i
      <4> QED BY <2>2, <4>1
    <3>0. \A l \in 1 .. Len(io'.data) :
             io'.data[l] = IF l <= Len(io.data) THEN io.data[l] ELSE d[l - Len(io.data)]
      <4>1. io'.data = io.data \o d /\ io.data \in Seq(Data) /\ d \in Seq(Data)
        BY <1>4, <2>2
      <4> QED BY <4>1
    <3>3. CASE j <= Len(io.data)
      <4>0. j \in Nat /\ j >= 1 /\ Len(io.data) \in Nat
        BY <1>4, <2>4
      <4>1. j \in 1 .. Len(io.data) /\ io'.data[j] = io.data[j]
        BY <3>0, <3>3, <4>0
      <4> QED BY <2>2, <3>1, <4>1
    <3>4. CASE ~(j <= Len(io.data))
      <4> DEFINE l == j - Len(io.data)
      <4>1. l \in 1 .. k /\ j = Len(io.data) + l
        BY <1>4, <2>3, <2>4, <3>4
      <4>2. io'.data[j] = d[l]
        BY <3>0, <3>4
      <4>3. c[x].read + l - 1 = io'.from + j - 1
        BY <1>4, <2>2, <2>3, <3>1, <4>1
      <4> HIDE DEF l
      <4> QED BY <3>2, <4>1, <4>2, <4>3
    <3> QED BY <1>4, <2>4, <3>3, <3>4
  <2> QED BY <1>16, <2>5, <2>6
<1>20. CASE TurnEnded(x, m)
  <2>1. /\ ~env.interrupted /\ ~m.noCache /\ env' = env /\ ~Busy(x)' /\ ~Turns("read", x)'
        /\ m.at = io.from + Len(io.data) /\ m.read = c[x].read /\ io'.data = io.data /\ io'.from = io.from
    BY <1>5, <1>12, <1>13, <1>20 DEF TurnEnded
  <2>2. x \notin env.behind /\ Place(x) => m.at = m.read
    BY <1>11, <1>15, <2>1
  <2>3. Placed(x)
    BY <1>8, <1>10, <2>1, <2>2 DEF Placed, Place
  <2> QED BY <1>14, <1>16, <2>1, <2>3
<1>21. CASE TurnWaits(x, m)
  <2>1. /\ ~env.interrupted /\ ~m.noCache /\ env' = env /\ Turns("read", x)' /\ Busy(x)'
        /\ m = c[x] /\ io'.data = io.data /\ io'.from = io.from
    BY <1>5, <1>13, <1>21 DEF TurnWaits, Turns, Busy
  <2>2. Placed(x)
    BY <1>5, <1>8, <1>10, <1>11, <1>15, <2>1 DEF Placed, Place
  <2> QED BY <1>14, <1>16, <2>1, <2>2
<1> QED BY <1>6, <1>17, <1>18, <1>19, <1>20, <1>21, <1>22

LEMMA PositionEnterSeek ==
    ASSUME Shape, env \in Env, Position, EnterSeek
    PROVE  Position'
<1>1. io.op = "seek" /\ io.at = "enter"
  BY DEF EnterSeek
<1>2. PICK x \in Ctx : x = io.x
  BY <1>1, UsedContext
<1>3. PICK m \in Context : SeekEntered(x, m)
  BY <1>2, EnterSeekIs
<1>4. c \in [Ctx -> Context] /\ forwards \in Nat /\ ~Turns("read", x) /\ ~Turns("seek", x) /\ ~Busy(x)
  BY <1>1, UsedContext DEF Turns, Busy
<1>5. /\ c' = [c EXCEPT ![x] = m] /\ forwards' = forwards /\ io'.x = x /\ env'.interrupted = env.interrupted
      /\ env'.staleMap = env.staleMap /\ env'.switched = env.switched /\ env'.misled = env.misled
      /\ env'.behind = env.behind \/ (c[x].noCache /\ m.conn = m.at /\ env'.behind = env.behind \ {x})
      /\ io'.data = <<>> \/ (io'.op = "seek" /\ io'.data = io.data /\ io'.from = io.from)
      /\ m.state = c[x].state /\ m.noCache = c[x].noCache
  BY <1>3 DEF SeekEntered
<1>6. /\ io'.op \in {"none", "seek"} /\ (io'.op = "seek" => ~c[x].noCache)
  BY <1>3 DEF SeekEntered
<1>7. Undermined => Undermined'
  BY <1>5 DEF Undermined
<1>8. c'[x] = m /\ \A y \in Ctx \ {x} : SamePlace(c'[y], c[y])
  BY <1>4, <1>5 DEF SamePlace
<1>9. \A y \in Ctx \ {x} : Placed(y)
  <2>1. \A y \in Ctx \ {x} : y \in env.behind => y \in env'.behind
    BY <1>5
  <2> QED BY <1>2, <1>5, <1>8, <2>1, OthersPlaced
<1>10. ~Turns("read", x)'
  BY <1>6 DEF Turns
<1>11. Placed(x)
  <2>1. CASE c[x].noCache
    <3>1. ~Turns("seek", x)' /\ ~Busy(x)'
      BY <1>6, <1>10, <2>1 DEF Turns, Busy
    <3>2. m.conn = m.at \/ m = c[x]
      BY <1>3, <2>1 DEF SeekEntered
    <3>3. (x \in env.behind \/ Place(x)) /\ x \notin env'.behind /\ m.state # "closed" => m.conn = m.at
      BY <1>4, <1>5, <2>1, <3>2 DEF Place
    <3> QED BY <1>5, <1>8, <1>10, <2>1, <3>1, <3>3 DEF Placed, Place
  <2>2. CASE ~c[x].noCache /\ forwards = 0
    <3>1. m.read = m.at /\ io'.op = "none"
      BY <1>3, <2>2 DEF SeekEntered
    <3>2. ~Turns("seek", x)' /\ ~Busy(x)'
      BY <1>10, <3>1 DEF Turns, Busy
    <3> QED BY <1>5, <1>8, <1>10, <2>2, <3>1, <3>2 DEF Placed, Place
  <2>3. CASE ~c[x].noCache /\ forwards # 0
    <3>1. m.read = c[x].read /\ m.at = c[x].at /\ ~m.seekDone /\ forwards' > 0 /\ env'.behind = env.behind
      BY <1>3, <1>4, <1>5, <2>3 DEF SeekEntered
    <3>2. x \notin env.behind /\ Place(x) /\ c[x].state # "closed" /\ ~env.interrupted => m.at = m.read
      BY <1>4, <2>3, <3>1 DEF Place
    <3> QED BY <1>5, <1>8, <1>10, <2>3, <3>1, <3>2 DEF Placed, Place
  <2> QED BY <2>1, <2>2, <2>3
<1>12. ~Undermined' => ReadsTheFile'
  <2>1. CASE io'.data = <<>>
    BY <1>7, <2>1, ReadStays
  <2>2. CASE io'.op = "seek" /\ io'.data = io.data /\ io'.from = io.from
    <3>1. env'.behind = env.behind
      BY <1>5, <1>6, <2>2
    <3> QED BY <1>2, <1>5, <1>7, <2>2, <3>1, ReadStays
  <2> QED BY <1>5, <2>1, <2>2
<1> QED BY <1>7, <1>8, <1>9, <1>11, <1>12, PositionEnters

LEMMA PositionSeekTurn ==
    ASSUME Shape, env \in Env, Position, SeekTurn
    PROVE  Position'
<1>1. io.op = "seek" /\ io.at = "run" /\ env' = env /\ forwards' = forwards
  BY DEF SeekTurn
<1>2. PICK x \in Ctx : x = io.x
  BY <1>1, UsedContext
<1>3. /\ c \in [Ctx -> Context] /\ c[x] \in Context /\ IoTyped /\ (c[x].abort => env.interrupted)
      /\ c[x].state = "started" /\ Turns("seek", x) /\ Busy(x)
  BY <1>1, <1>2, UsedContext DEF Turns, Busy
<1>4. /\ IF Aborted(x) THEN Returns(Exit) /\ c' = [c EXCEPT ![x].abort = TRUE]
         ELSE IF c[x].seekDone THEN Returns(c[x].seekPos) /\ c' = [c EXCEPT ![x].at = c[x].seekPos]
         ELSE Wait /\ c' = c
  BY <1>2, Zenon DEF SeekTurn
<1>5. Undermined => Undermined'
  BY <1>1 DEF Undermined
<1>6. Place(x) => forwards' > 0 /\ ~c[x].noCache /\ (c[x].seekDone => c[x].read = c[x].seekPos)
  BY <1>1, <1>3 DEF Place
<1>7. ASSUME NEW m \in Context, c' = [c EXCEPT ![x] = m], NEW r \in Int, Returns(r),
             Place(x) => m.noCache = c[x].noCache /\ (env.interrupted \/ m.at = m.read)
      PROVE  Position'
  <2>1. io'.x = x /\ io'.data = <<>> /\ ~Turns("read", x)' /\ ~Turns("seek", x)' /\ ~Busy(x)'
    BY <1>2, <1>7, ReturnsTyped DEF Busy
  <2>2. c'[x] = m /\ \A y \in Ctx \ {x} : SamePlace(c'[y], c[y])
    BY <1>3, <1>7 DEF SamePlace
  <2>3. \A y \in Ctx \ {x} : Placed(y)
    BY <1>1, <1>2, <2>1, <2>2, OthersPlaced
  <2>4. Placed(x)
    BY <1>1, <1>6, <1>7, <2>1, <2>2 DEF Placed, Place
  <2>5. ~Undermined' => ReadsTheFile'
    BY <1>5, <2>1, ReadStays
  <2> QED BY <1>5, <2>3, <2>4, <2>5, PositionEnters
<1>8. CASE Aborted(x)
  <2> DEFINE m == [c[x] EXCEPT !.abort = TRUE]
  <2>1. c' = [c EXCEPT ![x] = m] /\ Returns(Exit)
    BY <1>3, <1>4, <1>8
  <2>2. m \in Context /\ m.noCache = c[x].noCache
    BY <1>3 DEF Context
  <2> HIDE DEF m
  <2>3. env.interrupted /\ Exit \in Int
    BY <1>3, <1>8 DEF Aborted, Exit
  <2> QED BY <1>7, <2>1, <2>2, <2>3
<1>9. CASE ~Aborted(x) /\ c[x].seekDone
  <2> DEFINE m == [c[x] EXCEPT !.at = c[x].seekPos]
  <2>1. c' = [c EXCEPT ![x] = m] /\ Returns(c[x].seekPos)
    BY <1>3, <1>4, <1>9
  <2>2. m \in Context /\ m.noCache = c[x].noCache /\ m.at = c[x].seekPos /\ m.read = c[x].read /\ c[x].seekPos \in Int
    BY <1>3, CacheAssumption DEF Context
  <2> HIDE DEF m
  <2> QED BY <1>6, <1>7, <1>9, <2>1, <2>2
<1>10. CASE ~Aborted(x) /\ ~c[x].seekDone
  <2>1. io' = [io EXCEPT !.at = "mainwait"] /\ c' = c
    BY <1>4, <1>10 DEF Wait
  <2>2. io'.x = x /\ io'.from = io.from /\ io'.data = io.data /\ io'.op = "seek" /\ io'.at = "mainwait"
    BY <1>1, <1>2, <1>3, <2>1, WaitsTyped
  <2>3. Turns("seek", x)' /\ ~Turns("read", x)' /\ ~Turns("read", x)
    BY <1>1, <2>2 DEF Turns
  <2>4. \A y \in Ctx : SamePlace(c'[y], c[y])
    BY <2>1 DEF SamePlace
  <2>5. \A y \in Ctx \ {x} : Placed(y)
    BY <1>1, <1>2, <2>2, <2>4, OthersPlaced
  <2>6. Placed(x)
    BY <1>1, <1>3, <2>2, <2>3, <2>4, PlaceStays
  <2>7. ~Undermined' => ReadsTheFile'
    BY <1>1, <1>2, <1>5, <2>2, ReadStays
  <2> QED BY <1>5, <2>5, <2>6, <2>7, PositionEnters
<1> QED BY <1>8, <1>9, <1>10

LEMMA PositionNext ==
    ASSUME Shape, env \in Env, Content, Position, Next
    PROVE  Position'
<1>1. CASE \E x \in Ctx : Task(x)
  BY <1>1, PositionTask
<1>2. CASE DemuxerStep
  BY <1>2, PositionPause, PositionOpen, PositionClosed, PositionEnterRead, PositionSyncCached,
     PositionSyncThrough, PositionReadTurn, PositionEnterSeek, PositionSeekTurn DEF DemuxerStep
<1>3. CASE Calls
  BY <1>3, PositionCalls
<1>4. CASE WillShare \/ DidShare \/ Interrupt
  BY <1>4, PositionShare
<1>5. CASE Quit \/ Crash
  BY <1>5, PositionEnd
<1> QED BY <1>1, <1>2, <1>3, <1>4, <1>5 DEF Next

LEMMA PositionInit ==
    ASSUME Init
    PROVE  Position
<1>1. c = [x \in Ctx |-> NewContext] /\ io = Idle
  BY DEF Init
<1>2. \A x \in Ctx : c[x].state = "closed"
  BY <1>1, NewIs
<1>3. io.data = <<>>
  BY <1>1, IdleIs
<1> QED BY <1>2, <1>3 DEF Position, ReadsTheFile, Place

LEMMA PositionHolds == Spec => []Position
<1>1. ASSUME Inv, Content, Position, [Next]_vars, Inv' PROVE Position'
  <2>1. CASE UNCHANGED vars
    BY <1>1, <2>1 DEF vars, Position, Undermined, ReadsTheFile, Place, Busy, Turns
  <2>2. CASE Next /\ env.switched
    BY <1>1, <2>2, SwitchedStays DEF Inv, Position, Undermined
  <2>3. CASE Next /\ ~env.switched
    BY <1>1, <2>3, PositionNext DEF Inv
  <2> QED BY <1>1, <2>1, <2>2, <2>3
<1>2. Init => Position
  BY PositionInit
<1> QED BY <1>1, <1>2, InvHolds, ContentHolds, PTL DEF Spec

\* A read returns the blocks at the demuxer's position, with or without a task, in
\* however many turns and across whatever the task, the other contexts, an end of
\* the process or an interrupt do in between (ijkiocache.c:855-1026).
THEOREM ReadsCorrect == Spec => []ReadsTheFile
<1>1. Position => ReadsTheFile
  BY DEF Position, ReadsTheFile
<1> QED BY <1>1, PositionHolds, PTL

-----------------------------------------------------------------------------
(* Ends.                                                                   *)

LEMMA EndsEnters ==
    ASSUME Ends, env.switched => env'.switched, env.failed => env'.failed,
           ~env.switched /\ env'.misled => env.misled \/ env'.failed,
           ~env.switched /\ ~env'.failed => \A y \in Ctx : Told(y) => Told(y)',
           ~env'.switched /\ ~env'.failed => EofIsTheEnd'
    PROVE  Ends'
<1> SUFFICES ASSUME ~env'.switched PROVE (env'.misled => env'.failed) /\ (~env'.failed => (\A x \in Ctx : Told(x)') /\ EofIsTheEnd')
  BY DEF Ends
<1> QED BY DEF Ends

\* What is said of a context holds on when nothing it is about moves.
SameEnd(k, l) ==
    /\ (k.state = "closed") = (l.state = "closed")
    /\ k.end = l.end /\ k.err = l.err /\ k.eof = l.eof /\ k.fill = l.fill

LEMMA ToldStays ==
    ASSUME NEW y \in Ctx, forwards' = forwards, SameEnd(c'[y], c[y])
    PROVE  Told(y) => Told(y)'
  BY DEF Told, SameEnd

\* What is said of the last answer holds on until a call gives another.
LEMMA EofStays ==
    ASSUME Ends, env.switched => env'.switched, env.failed => env'.failed,
           \/ io'.op # "none" \/ io'.ret # Eof
           \/ /\ io'.op = io.op /\ io'.ret = io.ret /\ io'.x = io.x /\ env.behind \subseteq env'.behind
              /\ Undermined => Undermined'
              /\ io.x \in Ctx => c'[io.x].at = c[io.x].at
    PROVE  ~env'.switched /\ ~env'.failed => EofIsTheEnd'
  BY DEF Ends, EofIsTheEnd

LEMMA EndsTask ==
    ASSUME Shape, env \in Env, Content, Ends, NEW x \in Ctx, Task(x)
    PROVE  Ends'
<1>1. /\ Typed /\ c \in [Ctx -> Context] /\ task \in [Ctx -> Stages] /\ Control(x) /\ c[x] \in Context
  BY DEF Shape, Typed
<1>2. /\ forwards' = forwards /\ (env.failed => env'.failed) /\ (Undermined => Undermined')
      /\ env'.switched = env.switched /\ (env'.misled => env.misled \/ env'.failed)
      /\ env.behind \subseteq env'.behind /\ io'.op = io.op /\ io'.x = io.x /\ io'.ret = io.ret
  BY TaskBeside
<1>3. ASSUME NEW y \in Ctx \ {x} PROVE SameEnd(c'[y], c[y]) /\ c'[y].at = c[y].at
  <2>1. CASE TaskAdd(x)
    <3>1. c'[y] = c[y] \/ c'[y] = Flushed(x, y)
      BY <1>1, <2>1 DEF TaskAdd
    <3>2. Kept(Flushed(x, y), c[y]) /\ Flushed(x, y).eof = c[y].eof /\ Flushed(x, y).fill = c[y].fill
      BY <1>1, FlushedContexts
    <3> QED BY <3>1, <3>2 DEF SameEnd, Kept
  <2>2. CASE TaskFetch(x)
    <3>1. c'[y] = c[y]
      BY <1>1, <2>2, Zenon DEF TaskFetch
    <3> QED BY <3>1 DEF SameEnd
  <2>3. CASE ~TaskAdd(x) /\ ~TaskFetch(x)
    <3>1. c'[y] = c[y]
      BY <1>1, <2>3 DEF Task, TaskStart, TaskTop, TaskCheck, TaskSleep, TaskFind, TaskTell, TaskLeave
    <3> QED BY <3>1 DEF SameEnd
  <2> QED BY <2>1, <2>2, <2>3
<1>4. c'[x].at = c[x].at /\ (~env.switched /\ ~env'.failed /\ Told(x) => Told(x)')
  <2>0. SameEnd(c'[x], c[x]) /\ c'[x].at = c[x].at
        => c'[x].at = c[x].at /\ (~env.switched /\ ~env'.failed /\ Told(x) => Told(x)')
    BY <1>2, ToldStays
  <2>1. CASE TaskStart(x) \/ TaskCheck(x) \/ TaskSleep(x) \/ TaskTell(x)
    <3>1. c' = c
      BY <2>1 DEF TaskStart, TaskCheck, TaskSleep, TaskTell
    <3> QED BY <2>0, <3>1 DEF SameEnd
  <2>2. CASE TaskLeave(x)
    <3>1. SameEnd(c'[x], c[x]) /\ c'[x].at = c[x].at
      BY <1>1, <2>2 DEF TaskLeave, SameEnd, Context
    <3> QED BY <2>0, <3>1
  <2>3. CASE TaskFind(x)
    <3>1. PICK k \in Context, s \in {"top", "fetch"} : Found(x, k, s)
      BY <2>3, FindIs
    <3>2. /\ c'[x] = k /\ k.at = c[x].at /\ k.end = c[x].end /\ k.err = c[x].err /\ k.state = c[x].state
          /\ k.fill \in c[x].fill .. FileSize /\ (k.eof => c[x].eof \/ k.fill = FileSize \/ c[x].end > 0)
      BY <1>1, <3>1 DEF Found
    <3>3. k.eof /\ c[x].end = 0 /\ (c[x].eof => c[x].fill = FileSize) => k.fill = FileSize
      <4>1. FileSize \in Nat /\ c[x].fill \in Nat /\ k.fill \in Nat
        BY <1>1, CacheAssumption DEF Context
      <4> QED BY <3>2, <4>1
    <3> QED BY <1>2, <3>2, <3>3 DEF Told
  <2>4. CASE TaskTop(x)
    <3>1. \/ c' = c
          \/ c' = [c EXCEPT ![x].abort = TRUE, ![x].eof = TRUE, ![x].err = Exit]
          \/ c' = [c EXCEPT ![x] = Sought(c[x])]
      BY <2>4 DEF TaskTop
    <3>2. CASE c' = c
      BY <2>0, <3>2 DEF SameEnd
    <3>3. CASE c' = [c EXCEPT ![x].abort = TRUE, ![x].eof = TRUE, ![x].err = Exit]
      <4>1. c'[x].at = c[x].at /\ c'[x].end = c[x].end /\ c'[x].err = Exit
        BY <1>1, <3>3 DEF Context
      <4> QED BY <4>1 DEF Told, Exit
    <3>4. CASE c' = [c EXCEPT ![x] = Sought(c[x])]
      <4>1. c'[x].at = c[x].at /\ c'[x].end = c[x].end /\ ~c'[x].eof
        BY <1>1, <3>4, SoughtIs
      <4> QED BY <4>1 DEF Told
    <3> QED BY <3>1, <3>2, <3>3, <3>4
  <2>5. CASE TaskFetch(x)
    <3>1. c[x].fill \in Blocks /\ ~c[x].noCache
      BY <1>1, <2>5 DEF Control, TaskFetch
    <3>2. PICK k \in Context, o \in NetworkOutcomes(x, c[x].fill) :
            /\ c' = [c EXCEPT ![x] = k] /\ k.state = c[x].state /\ k.fill = c[x].fill /\ k.at = c[x].at
            /\ o = "read" => k.eof = c[x].eof /\ k.err = c[x].err /\ k.end = c[x].end
            /\ c[x].conn = c[x].inner => ConnAt(c[x], c[x].fill) = c[x].fill
            /\ ~(o = "read" \/ (o = "ends" /\ ConnAt(c[x], c[x].fill) = FileSize)) => env'.failed
      BY <1>1, <2>5, <3>1, FetchIs
    <3>3. c'[x] = k
      BY <1>1, <3>2
    <3>4. CASE o = "read"
      BY <2>0, <3>2, <3>3, <3>4 DEF SameEnd
    <3>5. CASE o # "read"
      <4>1. ASSUME ~env.switched, ~env'.failed PROVE FALSE
        <5>1. ~env.misled
          BY <1>2, <4>1 DEF Ends
        <5>2. c[x].conn = c[x].inner
          BY <3>1, <4>1, <5>1 DEF Content, Connection
        <5>3. c[x].fill = FileSize
          BY <3>2, <3>5, <4>1, <5>2
        <5> QED BY <3>1, <5>3, CacheAssumption DEF Blocks
      <4> QED BY <3>2, <3>3, <4>1
    <3> QED BY <3>4, <3>5
  <2>6. CASE TaskAdd(x)
    <3>1. \/ c' = [c EXCEPT ![x].phys = file.last + 1, ![x].fill = @ + 1]
          \/ c'[x] = Flushed(x, x)
          \/ c' = [c EXCEPT ![x].phys = file.last, ![x].noCache = TRUE]
      BY <1>1, <2>6 DEF TaskAdd
    <3>2. CASE c' = [c EXCEPT ![x].phys = file.last + 1, ![x].fill = @ + 1]
      <4>1. c[x].fill \in Blocks /\ forwards > 0 /\ c[x].state = "started"
        BY <1>1, <2>6 DEF Control, TaskAdd
      <4>2. c[x].fill # FileSize
        BY <4>1, CacheAssumption DEF Blocks
      <4>3. LET k == c'[x] IN k.at = c[x].at /\ k.end = c[x].end /\ k.err = c[x].err /\ k.eof = c[x].eof
        <5> DEFINE f == c[x].fill + 1
                   q == file.last + 1
        <5>1. c'[x] = [c[x] EXCEPT !.phys = q, !.fill = f]
          BY <1>1, <3>2
        <5> HIDE DEF f, q
        <5> QED BY <1>1, <5>1 DEF Context
      <4> QED BY <4>1, <4>2, <4>3 DEF Told
    <3>3. CASE c'[x] = Flushed(x, x)
      <4>1. Kept(c'[x], c[x]) /\ ~c'[x].eof
        BY <1>1, <3>3, FlushedContexts
      <4> QED BY <4>1 DEF Told, Kept
    <3>4. CASE c' = [c EXCEPT ![x].phys = file.last, ![x].noCache = TRUE]
      <4>1. SameEnd(c'[x], c[x]) /\ c'[x].at = c[x].at
        BY <1>1, <3>4 DEF SameEnd, Context
      <4> QED BY <2>0, <4>1
    <3> QED BY <3>1, <3>2, <3>3, <3>4
  <2> QED BY <2>1, <2>2, <2>3, <2>4, <2>5, <2>6 DEF Task
<1>5. ~env.switched /\ ~env'.failed => \A y \in Ctx : Told(y) => Told(y)'
  <2>1. \A y \in Ctx \ {x} : Told(y) => Told(y)'
    BY <1>2, <1>3, ToldStays
  <2> QED BY <1>4, <2>1
<1>6. ~env'.switched /\ ~env'.failed => EofIsTheEnd'
  <2>1. io.x \in Ctx => c'[io.x].at = c[io.x].at
    BY <1>3, <1>4
  <2> QED BY <1>2, <2>1, EofStays
<1> QED BY <1>2, <1>5, <1>6, EndsEnters

\* A step that tells no end of the file.
LEMMA EndsMoves ==
    ASSUME Ends, env.switched => env'.switched, env.failed => env'.failed, env'.misled = env.misled,
           \A y \in Ctx : Told(y) => Told(y)', io'.op # "none" \/ io'.ret # Eof
    PROVE  Ends'
<1>1. ~env'.switched /\ ~env'.failed => EofIsTheEnd'
  BY EofStays
<1> QED BY <1>1, EndsEnters

LEMMA EndsPause ==
    ASSUME Shape, env \in Env, Ends, (\E y \in Ctx : PauseNext(y)) \/ Paused
    PROVE  Ends'
<1>1. /\ c \in [Ctx -> Context] /\ IoTyped /\ Thread
  BY DEF Shape, Typed
<1>2. forwards' = forwards /\ env' = env /\ io.op = "open"
  BY Zenon DEF PauseNext, Paused
<1>3. \A y \in Ctx : SameEnd(c'[y], c[y])
  <2>1. CASE \E y \in Ctx : PauseNext(y)
    <3>1. PICK y \in Ctx : c' = [c EXCEPT ![y].abort = TRUE]
      BY <2>1 DEF PauseNext, StopTask
    <3> QED BY <1>1, <3>1 DEF SameEnd, Context
  <2>2. CASE Paused
    <3>1. c' = [c EXCEPT ![io.y].state = "paused"] /\ Stops
      BY <2>2 DEF Paused, Stops
    <3>2. PICK y \in Ctx : y = io.y
      BY <1>1, <3>1 DEF IoTyped
    <3>3. c[y].state # "closed"
      BY <1>1, <1>2, <3>1, <3>2 DEF Thread
    <3> QED BY <1>1, <3>1, <3>2, <3>3 DEF SameEnd, Context
  <2> QED BY <2>1, <2>2
<1>4. io'.op = "open"
  BY <1>1, <1>2 DEF PauseNext, Paused, IoTyped, Caller
<1>5. \A y \in Ctx : Told(y) => Told(y)'
  BY <1>2, <1>3, ToldStays
<1> QED BY <1>2, <1>4, <1>5, EndsMoves

LEMMA EndsOpen ==
    ASSUME Shape, env \in Env, Ends, OpenContext
    PROVE  Ends'
<1>1. c \in [Ctx -> Context] /\ IoTyped /\ io.op = "open"
  BY DEF Shape, Typed, OpenContext
<1>2. PICK x \in Ctx : x = io.x
  BY <1>1 DEF IoTyped
<1>3. Opened(x)
  BY <1>2, OpenedIs
<1>4. /\ forwards' = forwards /\ io'.ret # Eof /\ (env.failed => env'.failed)
      /\ env'.switched = env.switched /\ env'.misled = env.misled
      /\ \/ c' = c
         \/ \E k \in Context : c' = [c EXCEPT ![x] = k] /\ k.end = 0 /\ ~k.eof
  BY <1>3 DEF Opened
<1>5. ASSUME NEW y \in Ctx PROVE Told(y) => Told(y)'
  <2>1. CASE c'[y] = c[y]
    <3>1. SameEnd(c'[y], c[y])
      BY <2>1 DEF SameEnd
    <3> QED BY <1>4, <3>1, ToldStays
  <2>2. CASE c'[y] # c[y]
    <3>1. c'[y].end = 0 /\ ~c'[y].eof
      BY <1>1, <1>4, <2>2
    <3> QED BY <3>1 DEF Told
  <2> QED BY <2>1, <2>2
<1> QED BY <1>4, <1>5, EndsMoves

LEMMA EndsClosed ==
    ASSUME Shape, env \in Env, Ends, Closed
    PROVE  Ends'
<1>1. c \in [Ctx -> Context] /\ IoTyped /\ io.op = "close" /\ forwards' = forwards
  BY DEF Shape, Typed, Closed
<1>2. PICK x \in Ctx : x = io.x
  BY <1>1 DEF IoTyped
<1>3. /\ c' = [c EXCEPT ![x] = NewContext] /\ Returns(0) /\ env' = [env EXCEPT !.behind = env.behind \ {x}]
  BY <1>2 DEF Closed
<1>4. env'.switched = env.switched /\ env'.misled = env.misled /\ env'.failed = env.failed
  BY <1>3 DEF Env
<1>5. io'.ret # Eof
  <2>1. io'.ret = 0
    BY <1>2, <1>3, ReturnsTyped
  <2> QED BY <2>1 DEF Eof
<1>6. ASSUME NEW y \in Ctx PROVE Told(y) => Told(y)'
  <2>1. CASE y = x
    <3>1. c'[y].end = 0 /\ ~c'[y].eof
      BY <1>1, <1>3, <2>1, NewIs
    <3> QED BY <3>1 DEF Told
  <2>2. CASE y # x
    <3>1. SameEnd(c'[y], c[y])
      BY <1>1, <1>3, <2>2 DEF SameEnd
    <3> QED BY <1>1, <3>1, ToldStays
  <2> QED BY <2>1, <2>2
<1> QED BY <1>4, <1>5, <1>6, EndsMoves

LEMMA EndsCalls ==
    ASSUME Shape, env \in Env, Ends, Calls
    PROVE  Ends'
<1>1. Typed /\ c \in [Ctx -> Context] /\ IoTyped
  BY DEF Shape, Typed
<1>2. PICK x \in Ctx : \/ OpenCall(x) \/ CloseCall(x)
                       \/ \E n \in 1 .. 2 : ReadCall(x, n)
                       \/ \E p \in 0 .. FileSize : SeekCall(x, p)
  BY DEF Calls
<1>3. (env.switched => env'.switched) /\ env'.misled = env.misled /\ env'.failed = env.failed
  <2>1. /\ Called \in Env /\ Called.switched = env.switched /\ Called.misled = env.misled
        /\ Called.failed = env.failed
    BY DEF Called, Env
  <2>2. \/ env' = Called
        \/ env' = [Called EXCEPT !.switched = @ \/ (forwards = 0 /\ c[x].state = "paused")]
    BY <1>2, Zenon DEF OpenCall, CloseCall, ReadCall, SeekCall
  <2> HIDE DEF Called
  <2> QED BY <2>1, <2>2 DEF Env
<1>4. \A y \in Ctx : SameEnd(c'[y], c[y])
  <2>1. \/ c' = c \/ c' = [c EXCEPT ![x].abort = TRUE]
        \/ (c' = [c EXCEPT ![x] = Resumed(x)] /\ c[x].state # "closed")
    BY <1>2 DEF OpenCall, CloseCall, ReadCall, SeekCall, StopTask, Usable
  <2>2. CASE c' = c
    BY <2>2 DEF SameEnd
  <2>3. CASE c' = [c EXCEPT ![x].abort = TRUE]
    BY <1>1, <2>3 DEF SameEnd, Context
  <2>4. CASE c' = [c EXCEPT ![x] = Resumed(x)] /\ c[x].state # "closed"
    <3>1. SameEnd(Resumed(x), c[x])
      BY <1>1, <2>4, ResumedIs DEF SameEnd
    <3>2. \A y \in Ctx \ {x} : c'[y] = c[y]
      BY <1>1, <2>4
    <3> QED BY <1>1, <2>4, <3>1, <3>2 DEF SameEnd
  <2> QED BY <2>1, <2>2, <2>3, <2>4
<1>5. io'.op # "none" /\ forwards' = forwards
  <2>1. Idle \in Caller
    BY IdleIs
  <2>2. CASE OpenCall(x)
    BY <2>1, <2>2 DEF OpenCall, Caller
  <2>3. CASE CloseCall(x)
    BY <2>1, <2>3 DEF CloseCall, Caller
  <2>4. CASE \E n \in 1 .. 2 : ReadCall(x, n)
    BY <2>1, <2>4 DEF ReadCall, Caller
  <2>5. CASE \E p \in 0 .. FileSize : SeekCall(x, p)
    BY <2>1, <2>5 DEF SeekCall, Caller
  <2> QED BY <1>2, <2>2, <2>3, <2>4, <2>5
<1>6. \A y \in Ctx : Told(y) => Told(y)'
  BY <1>4, <1>5, ToldStays
<1> QED BY <1>3, <1>5, <1>6, EndsMoves

LEMMA EndsShare ==
    ASSUME Shape, env \in Env, Ends, WillShare \/ DidShare \/ Interrupt
    PROVE  Ends'
<1>1. /\ c' = c /\ io' = io /\ forwards' = forwards
      /\ env'.switched = env.switched /\ env'.misled = env.misled /\ env'.staleMap = env.staleMap
      /\ env'.behind = env.behind /\ env'.failed = env.failed
  <2>1. /\ Trouble \in Env /\ Trouble.switched = env.switched /\ Trouble.misled = env.misled
        /\ Trouble.staleMap = env.staleMap /\ Trouble.behind = env.behind /\ Trouble.failed = env.failed
    BY DEF Trouble, Env
  <2>2. /\ c' = c /\ io' = io /\ forwards' = forwards
        /\ env' = env \/ env' = Trouble \/ env' = [Trouble EXCEPT !.interrupted = TRUE]
    BY Zenon DEF WillShare, DidShare, Interrupt
  <2> HIDE DEF Trouble
  <2> QED BY <2>1, <2>2 DEF Env
<1>2. \A y \in Ctx : Told(y) => Told(y)'
  BY <1>1 DEF Told
<1>3. ~env'.switched /\ ~env'.failed => EofIsTheEnd'
  BY <1>1 DEF Ends, EofIsTheEnd, Undermined
<1> QED BY <1>1, <1>2, <1>3, EndsEnters

LEMMA EndsEnd ==
    ASSUME Shape, env \in Env, Ends, Quit \/ Crash
    PROVE  Ends'
<1>1. /\ c' = [x \in Ctx |-> NewContext] /\ io' = Idle
      /\ env'.switched = env.switched /\ env'.misled = env.misled /\ env'.failed = env.failed
  BY EndIs
<1>2. \A y \in Ctx : Told(y)'
  BY <1>1, NewIs DEF Told
<1>3. io'.ret # Eof
  BY <1>1, IdleIs DEF Eof
<1> QED BY <1>1, <1>2, <1>3, EndsMoves

LEMMA EndsEnterRead ==
    ASSUME Shape, env \in Env, Position, Ends, EnterRead
    PROVE  Ends'
<1>1. io.op = "read" /\ io.at = "enter" /\ forwards' = forwards
  BY DEF EnterRead
<1>2. PICK x \in Ctx : x = io.x
  BY <1>1, UsedContext
<1>3. /\ io.data = <<>> /\ ~Turns("read", x) /\ c[x] \in Context /\ c \in [Ctx -> Context]
      /\ c[x].state = "started" /\ IoTyped
  BY <1>1, <1>2, Begun
<1>4. CASE c[x].noCache
  <2>1. ReadDirect(x, c[x])
    BY <1>2, <1>4, Zenon DEF EnterRead
  <2>2. PICK m \in Context :
          /\ c' = [c EXCEPT ![x] = m] /\ Stays(m, c[x]) /\ io'.x = x /\ env'.staleMap = env.staleMap
          /\ env'.switched = env.switched /\ env'.misled = env.misled /\ (env.failed => env'.failed)
          /\ \/ io'.ret \in Nat
             \/ /\ m.at = c[x].at /\ (c[x].conn # FileSize => io'.ret # Eof)
                /\ env.behind \subseteq env'.behind
    BY <1>1, <1>2, <1>3, <2>1, DirectIs
  <2>3. \A y \in Ctx : Told(y) => Told(y)'
    <3>1. \A y \in Ctx : SameEnd(c'[y], c[y])
      BY <1>3, <2>2 DEF SameEnd, Stays
    <3> QED BY <1>1, <3>1, ToldStays
  <2>4. ~env'.switched /\ ~env'.failed => EofIsTheEnd'
    <3>1. CASE io'.ret # Eof
      BY <2>2, <3>1, EofStays
    <3>2. CASE io'.ret = Eof
      <4>1. c[x].conn = FileSize /\ m.at = c[x].at /\ env.behind \subseteq env'.behind
        BY <2>2, <3>2 DEF Eof
      <4>2. Place(x) => c[x].conn = c[x].at
        BY <1>3, <1>4 DEF Place
      <4>3. ~Undermined' /\ x \notin env'.behind => c'[x].at = FileSize
        BY <1>3, <2>2, <4>1, <4>2 DEF Position, Undermined
      <4> QED BY <2>2, <4>3 DEF EofIsTheEnd
    <3> QED BY <3>1, <3>2
  <2> QED BY <2>2, <2>3, <2>4, EndsEnters
<1>5. CASE ~c[x].noCache
  <2>1. io' = [io EXCEPT !.at = "run"] /\ c' = c /\ env' = env
    BY <1>2, <1>5, Zenon DEF EnterRead
  <2>2. io'.op = "read"
    BY <1>1, <1>3, <2>1 DEF IoTyped, Caller
  <2>3. \A y \in Ctx : Told(y) => Told(y)'
    BY <1>1, <2>1 DEF Told
  <2> QED BY <2>1, <2>2, <2>3, EndsMoves
<1> QED BY <1>4, <1>5

LEMMA EndsSyncCached ==
    ASSUME Shape, env \in Env, Ends, SyncReadCached
    PROVE  Ends'
<1>1. io.op = "read" /\ io.at = "enter" /\ forwards' = forwards /\ env' = env
  BY DEF SyncReadCached
<1>2. PICK x \in Ctx : x = io.x
  BY <1>1, UsedContext
<1>3. c[x] \in Context /\ c \in [Ctx -> Context] /\ IoTyped /\ io.from \in Nat
  BY <1>1, <1>2, Begun
<1>4. PICK k \in 1 .. io.want, m \in Context :
           LET i == c[x].read
               p == file.map[x][i] IN
           /\ Cached(x, i) /\ ReadsRun(x, i, io.want, k, p)
           /\ m = [c[x] EXCEPT !.read = i + k, !.at = io.from + k, !.phys = p + k]
           /\ c' = [c EXCEPT ![x] = m] /\ file' = [file EXCEPT !.off = p + k]
           /\ io' = Answer(x, k, io.from, SubSeq(file.disk, p + 1, p + k))
  BY <1>2, SyncCachedIs
<1> DEFINE i == c[x].read
           p == file.map[x][i]
           d == SubSeq(file.disk, p + 1, p + k)
<1>5. d \in Seq(Data) /\ k \in Int /\ k # Eof
  <2>1. ReadsRun(x, i, io.want, k, p)
    BY <1>4, Zenon
  <2> HIDE DEF i, p
  <2> QED BY <2>1 DEF ReadsRun, Eof
<1>6. SameEnd(m, c[x])
  <2> DEFINE r == i + k
             a == io.from + k
             q == p + k
  <2>1. m = [c[x] EXCEPT !.read = r, !.at = a, !.phys = q]
    BY <1>4
  <2> HIDE DEF r, a, q
  <2> QED BY <1>3, <2>1 DEF Context, SameEnd
<1>7. io' = Answer(x, k, io.from, d) /\ c' = [c EXCEPT ![x] = m]
  BY <1>4
<1> HIDE DEF i, p, d
<1>8. io'.ret # Eof
  BY <1>3, <1>5, <1>7, IdleTyped
<1>9. \A y \in Ctx : Told(y) => Told(y)'
  <2>1. \A y \in Ctx : SameEnd(c'[y], c[y])
    BY <1>3, <1>6, <1>7 DEF SameEnd
  <2> QED BY <1>1, <2>1, ToldStays
<1> QED BY <1>1, <1>8, <1>9, EndsMoves

LEMMA EndsSyncThrough ==
    ASSUME Shape, env \in Env, Content, Position, Ends, SyncReadThrough
    PROVE  Ends'
<1>1. io.op = "read" /\ io.at = "enter"
  BY DEF SyncReadThrough
<1>2. PICK x \in Ctx : x = io.x
  BY <1>1, UsedContext
<1>3. /\ ~Turns("read", x) /\ ~Turns("seek", x) /\ c[x] \in Context /\ c \in [Ctx -> Context]
      /\ c[x].state = "started" /\ IoTyped /\ io.from \in Nat
  BY <1>1, <1>2, Begun
<1>4. ~c[x].noCache /\ forwards = 0 /\ forwards' = forwards
  BY <1>2, SyncThroughIs
<1>5. \/ /\ c[x].read = FileSize /\ Returns(Eof) /\ c' = [c EXCEPT ![x].eof = TRUE] /\ env' = env
      \/ \E o \in NetworkOutcomes(x, c[x].read) :
            /\ c[x].read \in Blocks /\ o # "read" /\ Returns(IF o = "ends" THEN Eof ELSE Eio)
            /\ c' = [c EXCEPT ![x] = Connected(c[x], c[x].read, o)] /\ env' = After(x, c[x].read, o)
      \/ \E m \in Context : ReadThrough(x, m)
  BY <1>2, SyncThroughIs
<1>6. ASSUME \A y \in Ctx : c'[y].end = c[y].end PROVE \A y \in Ctx : Told(y) => Told(y)'
  BY <1>4, <1>6 DEF Told
<1>7. CASE c[x].read = FileSize /\ Returns(Eof) /\ c' = [c EXCEPT ![x].eof = TRUE] /\ env' = env
  <2>1. \A y \in Ctx : c'[y].end = c[y].end /\ c'[y].at = c[y].at
    BY <1>3, <1>7 DEF Context
  <2>2. io'.x = x
    BY <1>2, <1>7, ReturnsTyped DEF Eof
  <2>3. Place(x) => c[x].at = c[x].read
    BY <1>3, <1>4 DEF Place, Busy
  <2>4. ~env'.switched /\ ~env'.failed => EofIsTheEnd'
    BY <1>7, <2>1, <2>2, <2>3 DEF EofIsTheEnd, Position, Undermined
  <2> QED BY <1>6, <1>7, <2>1, <2>4, EndsEnters
<1>8. ASSUME NEW o \in NetworkOutcomes(x, c[x].read), c[x].read \in Blocks, o # "read",
             Returns(IF o = "ends" THEN Eof ELSE Eio),
             c' = [c EXCEPT ![x] = Connected(c[x], c[x].read, o)], env' = After(x, c[x].read, o)
      PROVE  Ends'
  <2> DEFINE k == Connected(c[x], c[x].read, o)
             at == ConnAt(c[x], c[x].read)
  <2>1. /\ env'.switched = env.switched /\ env'.misled = env.misled /\ (env.failed => env'.failed)
        /\ ~(o = "ends" /\ at = FileSize) => env'.failed
    BY <1>8, AfterIs
  <2>2. k.end = c[x].end /\ (c[x].conn = c[x].inner => at = c[x].read)
    BY <1>3, <1>8, ConnectedIs
  <2>3. \A y \in Ctx : c'[y].end = c[y].end
    <3> HIDE DEF k
    <3>1. c' = [c EXCEPT ![x] = k]
      BY <1>8 DEF k
    <3> QED BY <1>3, <2>2, <3>1
  <2>4. ASSUME ~env'.switched, ~env'.failed PROVE FALSE
    <3>1. ~env.switched /\ ~env.misled
      BY <2>1, <2>4 DEF Ends
    <3>2. at = c[x].read
      BY <1>4, <2>2, <3>1 DEF Content, Connection
    <3> QED BY <1>8, <2>1, <2>4, <3>2, CacheAssumption DEF Blocks
  <2> QED BY <1>6, <2>1, <2>3, <2>4, EndsEnters
<1>9. ASSUME NEW m \in Context, ReadThrough(x, m) PROVE Ends'
  <2>1. Through(x, m)
    BY <1>1, <1>2, <1>9, ThroughIs
  <2>2. /\ m.end = c[x].end /\ env' = env /\ io'.ret = 1
        /\ \/ c' = [c EXCEPT ![x] = m]
           \/ c' = [y \in Ctx |-> IF y = x THEN m ELSE IF Room THEN c[y] ELSE Flushed(x, y)]
    BY <2>1 DEF Through
  <2>3. \A y \in Ctx : c'[y].end = c[y].end
    <3>1. \A y \in Ctx \ {x} : Kept(Flushed(x, y), c[y])
      BY <1>3, FlushedContexts
    <3>2. \A y \in Ctx \ {x} : c'[y] = c[y] \/ c'[y] = Flushed(x, y)
      BY <1>3, <2>2
    <3>3. c'[x] = m
      BY <1>3, <2>2
    <3> QED BY <2>2, <3>1, <3>2, <3>3 DEF Kept
  <2> QED BY <1>6, <2>2, <2>3, EndsMoves DEF Eof
<1> QED BY <1>5, <1>7, <1>8, <1>9

LEMMA EndsReadTurn ==
    ASSUME Shape, env \in Env, Position, Ends, ReadTurn
    PROVE  Ends'
<1>1. io.op = "read" /\ io.at = "run"
  BY DEF ReadTurn
<1>2. PICK x \in Ctx : x = io.x
  BY <1>1, UsedContext
<1>3. PICK m \in Context : Turned(x, m)
  BY <1>2, ReadTurnIs
<1>4. /\ c[x] \in Context /\ c \in [Ctx -> Context] /\ io.from \in Nat /\ io.data \in Seq(Data) /\ forwards \in Nat
      /\ c[x].state = "started" /\ Turns("read", x) /\ Busy(x) /\ io.want \in Nat
      /\ forwards > 0 => \A i \in c[x].read .. c[x].fill - 1 : Cached(x, i)
  BY <1>1, <1>2, UsedContext DEF IoTyped, Caller, Turns, Busy
<1>5. /\ c' = [c EXCEPT ![x] = m] /\ forwards' = forwards /\ io'.x = x
      /\ env'.staleMap = env.staleMap /\ env'.switched = env.switched /\ env'.misled = env.misled
      /\ (env.failed => env'.failed) /\ env.behind \subseteq env'.behind /\ SameTask(m, c[x])
  BY <1>3 DEF Turned
<1>6. \/ TurnAborted(x, m) \/ TurnDirect(x, m) \/ TurnUnsought(x, m)
      \/ TurnCached(x, m) \/ TurnEnded(x, m) \/ TurnWaits(x, m)
  BY <1>3 DEF Turned
<1>7. \A y \in Ctx : Told(y) => Told(y)'
  <2>1. \A y \in Ctx : SameEnd(c'[y], c[y])
    BY <1>4, <1>5 DEF SameEnd, SameTask
  <2> QED BY <1>5, <2>1, ToldStays
<1>8. Place(x) => forwards > 0 /\ (~env.interrupted => c[x].at = io.from /\ io.from + Len(io.data) = c[x].read)
  BY <1>4 DEF Place
<1>9. ~Aborted(x) => ~env.interrupted
  BY DEF Aborted
<1>10. ASSUME ~env.switched, ~env'.failed, ~Undermined', x \notin env'.behind, io'.op = "none", io'.ret = Eof
       PROVE  m.at = FileSize
  <2>1. Place(x) /\ Told(x)
    BY <1>5, <1>10 DEF Position, Ends, Undermined
  <2>2. ~TurnAborted(x, m) /\ ~TurnUnsought(x, m) /\ ~TurnWaits(x, m)
    BY <1>10 DEF TurnAborted, TurnUnsought, TurnWaits, Eof, Eio, Exit
  <2>3. ~TurnCached(x, m)
    BY <1>4, <1>10 DEF TurnCached, Eof
  <2>4. CASE TurnDirect(x, m)
    <3>1. /\ ~env.interrupted /\ m.at = c[x].at /\ c[x].read = FileSize /\ io.data = <<>>
      BY <1>9, <1>10, <2>4 DEF TurnDirect, Eof
    <3>2. Len(io.data) = 0
      BY <3>1
    <3> QED BY <1>4, <1>8, <2>1, <3>1, <3>2
  <2>5. CASE TurnEnded(x, m)
    <3>1. /\ ~env.interrupted /\ c[x].eof /\ ~Cached(x, c[x].read) /\ m.at = io.from + Len(io.data)
          /\ io'.ret = IF io.data # <<>> THEN Len(io.data) ELSE IF c[x].err # 0 THEN c[x].err ELSE Eof
      BY <1>9, <2>5 DEF TurnEnded
    <3>2. c[x].err = 0
      <4>1. Len(io.data) # Eof
        BY <1>4 DEF Eof
      <4>2. c[x].err \in {0, Eio, Exit}
        BY <1>4 DEF Context
      <4> QED BY <1>10, <3>1, <4>1, <4>2 DEF Eof, Eio, Exit
    <3>3. c[x].fill = FileSize
      BY <1>4, <1>8, <2>1, <3>1, <3>2 DEF Told
    <3>4. c[x].read = FileSize
      <4>1. c[x].read \in 0 .. FileSize /\ FileSize \in Nat
        BY <1>4, CacheAssumption DEF Context
      <4>2. c[x].read \notin c[x].read .. c[x].fill - 1
        BY <1>4, <1>8, <2>1, <3>1
      <4> QED BY <3>3, <4>1, <4>2
    <3> QED BY <1>8, <2>1, <3>1, <3>4
  <2> QED BY <1>6, <2>2, <2>3, <2>4, <2>5
<1>11. ~env'.switched /\ ~env'.failed => EofIsTheEnd'
  <2>1. c'[x] = m
    BY <1>4, <1>5
  <2> QED BY <1>5, <1>10, <2>1 DEF EofIsTheEnd
<1> QED BY <1>5, <1>7, <1>11, EndsEnters

LEMMA EndsSeek ==
    ASSUME Shape, env \in Env, Ends, EnterSeek \/ SeekTurn
    PROVE  Ends'
<1>1. io.op = "seek" /\ IoTyped /\ c \in [Ctx -> Context]
  BY DEF EnterSeek, SeekTurn, Shape, Typed
<1>2. PICK x \in Ctx : x = io.x
  BY <1>1, UsedContext
<1>3. CASE EnterSeek
  <2>1. PICK m \in Context : SeekEntered(x, m)
    BY <1>2, <1>3, EnterSeekIs
  <2>2. /\ c' = [c EXCEPT ![x] = m] /\ forwards' = forwards
        /\ env'.switched = env.switched /\ env'.misled = env.misled /\ (env.failed => env'.failed)
        /\ m.state = c[x].state /\ m.fill = c[x].fill /\ m.end = c[x].end /\ m.eof = c[x].eof /\ m.err = c[x].err
        /\ io'.ret # Eof \/ io'.op = "seek"
    BY <2>1 DEF SeekEntered
  <2>3. \A y \in Ctx : Told(y) => Told(y)'
    <3>1. \A y \in Ctx : SameEnd(c'[y], c[y])
      BY <1>1, <2>2 DEF SameEnd
    <3> QED BY <2>2, <3>1, ToldStays
  <2> QED BY <2>2, <2>3, EndsMoves
<1>4. CASE SeekTurn
  <2>1. forwards' = forwards /\ env' = env
    BY <1>4 DEF SeekTurn
  <2>2. \/ Returns(Exit) /\ c' = [c EXCEPT ![x].abort = TRUE]
        \/ Returns(c[x].seekPos) /\ c' = [c EXCEPT ![x].at = c[x].seekPos]
        \/ Wait /\ c' = c
    BY <1>2, <1>4, Zenon DEF SeekTurn
  <2>3. \A y \in Ctx : SameEnd(c'[y], c[y])
    BY <1>1, <2>2 DEF SameEnd, Context
  <2>4. io'.op # "none" \/ io'.ret # Eof
    <3>1. CASE Returns(Exit)
      <4>1. Exit \in Int /\ Exit # Eof
        BY DEF Exit, Eof
      <4> QED BY <1>2, <3>1, <4>1, ReturnsTyped
    <3>2. CASE Returns(c[x].seekPos)
      <4>1. c[x].seekPos \in Int /\ c[x].seekPos # Eof
        BY <1>1, CacheAssumption DEF Context, Eof
      <4> QED BY <1>2, <3>2, <4>1, ReturnsTyped
    <3>3. CASE Wait
      BY <1>1, <3>3 DEF Wait, IoTyped, Caller
    <3> QED BY <2>2, <3>1, <3>2, <3>3
  <2>5. \A y \in Ctx : Told(y) => Told(y)'
    BY <2>1, <2>3, ToldStays
  <2> QED BY <2>1, <2>4, <2>5, EndsMoves
<1> QED BY <1>3, <1>4

LEMMA EndsNext ==
    ASSUME Shape, env \in Env, Content, Position, Ends, Next
    PROVE  Ends'
<1>1. CASE \E x \in Ctx : Task(x)
  BY <1>1, EndsTask
<1>2. CASE DemuxerStep
  BY <1>2, EndsPause, EndsOpen, EndsClosed, EndsEnterRead, EndsSyncCached, EndsSyncThrough, EndsReadTurn,
     EndsSeek DEF DemuxerStep
<1>3. CASE Calls
  BY <1>3, EndsCalls
<1>4. CASE WillShare \/ DidShare \/ Interrupt
  BY <1>4, EndsShare
<1>5. CASE Quit \/ Crash
  BY <1>5, EndsEnd
<1> QED BY <1>1, <1>2, <1>3, <1>4, <1>5 DEF Next

LEMMA EndsInit ==
    ASSUME Init
    PROVE  Ends
<1>1. c = [x \in Ctx |-> NewContext] /\ io = Idle /\ ~env.misled
  BY DEF Init
<1>2. \A x \in Ctx : Told(x)
  BY <1>1, NewIs DEF Told
<1>3. EofIsTheEnd
  BY <1>1, IdleIs DEF EofIsTheEnd, Eof
<1> QED BY <1>1, <1>2, <1>3 DEF Ends

LEMMA EndsHolds == Spec => []Ends
<1>1. ASSUME Inv, Content, Position, Ends, [Next]_vars PROVE Ends'
  <2>1. CASE UNCHANGED vars
    BY <1>1, <2>1 DEF vars, Ends, Told, EofIsTheEnd, Undermined
  <2>2. CASE Next /\ env.switched
    BY <1>1, <2>2, SwitchedStays DEF Inv, Ends
  <2>3. CASE Next /\ ~env.switched
    BY <1>1, <2>3, EndsNext DEF Inv
  <2> QED BY <1>1, <2>1, <2>2, <2>3
<1>2. Init => Ends
  BY EndsInit
<1> QED BY <1>1, <1>2, InvHolds, ContentHolds, PositionHolds, PTL DEF Spec

\* As long as the network does not fail, a read is told the end of the file only where
\* the file ends, whether the task found the end (ijkiocache.c:423, 456), the reader itself or
\* the connection once the cache was given up.
THEOREM EndCorrect == Spec => []EofIsTheEnd
<1>1. Ends => EofIsTheEnd
  BY DEF Ends, EofIsTheEnd, Undermined
<1> QED BY <1>1, EndsHolds, PTL

=============================================================================
