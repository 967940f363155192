------------------------------ MODULE IoCache ------------------------------
(***************************************************************************)
(* The disk cache of ijkiocache.c under the manager of ijkiomanager.c.     *)
(*                                                                         *)
(* All contexts of a player share one cache file and one map from file     *)
(* numbers to trees of cached entries.  A context reads through the cache: *)
(* either its own task in the thread pool fills the file ahead of the      *)
(* reader (forwards > 0), or the reader fills it itself (forwards = 0).    *)
(* One thread, the demuxer's, opens, reads, seeks and closes.              *)
(*                                                                         *)
(* Positions count blocks of 4096 bytes, the size of the task's reads.  A  *)
(* tree is a function from the blocks of its file to blocks of the cache   *)
(* file: an entry is a run of blocks contiguous in both.  What is done     *)
(* under a context's file_mutex between two waits is one step.  Errors of  *)
(* the disk are left out; a crash may lose its last writes.                *)
(***************************************************************************)
EXTENDS Integers, Sequences, FiniteSets

CONSTANTS Ctx,          \* contexts; each stands for one file (cur_file_no)
          FileSize,     \* blocks of a file
          Capacity,     \* cache_max_capacity
          Forwards,     \* values of cache_file_forwards_capacity, 0 among them or not
          MaxTroubles,  \* bound: network failures, interrupts, sharings, ends of the process
          MaxRestarts,  \* bound: ends of the process among them
          MaxCalls      \* bound: calls of the demuxer

ASSUME CacheAssumption ==
    /\ FileSize \in Nat \ {0} /\ Capacity \in Nat \ {0} /\ Forwards \subseteq Nat
    /\ MaxTroubles \in Nat /\ MaxRestarts \in Nat /\ MaxCalls \in Nat

Eof == -1
Eio == -2
Exit == -3

VARIABLES forwards,     \* the option of this player
          c,            \* IjkIOCacheContext and state of each context
          task,         \* ijkio_cache_task of each context
          file,         \* the cache file and what is known of it
          io,           \* the demuxer's thread in the manager
          env           \* network, process and application

vars == <<forwards, c, task, file, io, env>>

Blocks == 0 .. FileSize - 1
None == -1
NoTree == [i \in Blocks |-> None]

TypeOK ==
    /\ forwards \in Forwards
    /\ c \in [Ctx -> [state : {"closed", "started", "paused"},
                      read : 0 .. FileSize + 1,     \* read_logical_pos
                      fill : 0 .. FileSize + 1,     \* file_logical_pos
                      inner : 0 .. FileSize,        \* file_inner_pos, read_inner_pos
                      conn : 0 .. FileSize,         \* ghost: where the connection really is
                      at : 0 .. 2 * FileSize,       \* ghost: where the demuxer believes to be
                      end : 0 .. FileSize,          \* file_logical_end
                      phys : 0 .. Capacity,         \* cache_physical_pos
                      asyncOpen : BOOLEAN, eof : BOOLEAN, err : {0, Eio, Exit},
                      noCache : BOOLEAN,            \* cache_file_close
                      seekRequest : BOOLEAN, seekDone : BOOLEAN, seekPos : 0 .. FileSize + 1,
                      abort : BOOLEAN, running : BOOLEAN,
                      freed : BOOLEAN]]             \* ghost: tree_info was freed by another context
    /\ task \in [Ctx -> {"none", "queued", "top", "check", "lock", "asleep",
                         "find", "fetch", "add", "tell", "leave"}]
    /\ file.last \in 0 .. Capacity /\ file.off \in 0 .. Capacity
    /\ file.disk \in Seq(Ctx \X Blocks) /\ Len(file.disk) <= Capacity
    /\ file.map \in [Ctx -> [Blocks -> None .. Capacity - 1]]
    /\ io.at \in {"idle", "pause", "enter", "run", "mainwait", "exitwait", "stopped"}
    /\ io.op \in {"none", "open", "read", "seek", "close"}

NewContext == [state |-> "closed", read |-> 0, fill |-> 0, inner |-> 0, conn |-> 0, at |-> 0, end |-> 0, phys |-> 0,
               asyncOpen |-> FALSE, eof |-> FALSE, err |-> 0, noCache |-> FALSE,
               seekRequest |-> FALSE, seekDone |-> FALSE, seekPos |-> 0,
               abort |-> FALSE, running |-> FALSE, freed |-> FALSE]

\* A new manager (ijkio_manager_alloc): no context, no tree, fd = -1.
NoMap == [x \in Ctx |-> NoTree]
Idle == [op |-> "none", at |-> "idle", x |-> None, y |-> None, todo |-> {}, want |-> 0,
         ret |-> 0, from |-> 0, data |-> <<>>]

Init ==
    /\ forwards \in Forwards
    /\ c = [x \in Ctx |-> NewContext]
    /\ task = [x \in Ctx |-> "none"]
    /\ file = [last |-> 0, off |-> 0, disk |-> <<>>, map |-> NoMap, open |-> FALSE,
               shared |-> FALSE, saved |-> NoMap, savedBad |-> FALSE]
    /\ io = Idle
    /\ env = [troubles |-> MaxTroubles, restarts |-> MaxRestarts, failed |-> FALSE, calls |-> MaxCalls, interrupted |-> FALSE, behind |-> {}, staleMap |-> FALSE, switched |-> FALSE, misled |-> FALSE]

-----------------------------------------------------------------------------
(* Trees (ijktree.c) and the cache file.                                   *)

Cached(x, i) == i \in Blocks /\ file.map[x][i] # None

\* The end of the entry that holds block i.
EntryEnd(x, i) ==
    CHOOSE e \in i + 1 .. FileSize :
        /\ \A j \in i + 1 .. e - 1 : file.map[x][j] = file.map[x][i] + (j - i)
        /\ e = FileSize \/ file.map[x][e] # file.map[x][i] + (e - i)

\* A write at file offset p of one block.
Written(disk, p, b) == IF p < Len(disk) THEN [disk EXCEPT ![p + 1] = b] ELSE Append(disk, b)

Entries(map) == {p \in Ctx \X Blocks : map[p[1]][p[2]] # None}
Sizes(map) == Cardinality(Entries(map))

\* The demuxer's thread waits for the task of x (mutex and condition of x).
WakeMain(x) == IF io.at = "mainwait" /\ io.x = x THEN [io EXCEPT !.at = "run"] ELSE io
WakeTask(x) == IF task[x] = "asleep" THEN [task EXCEPT ![x] = "top"] ELSE task

Aborted(x) == c[x].abort \/ env.interrupted

AlwaysRoom == TRUE
Room == file.last + 1 < Capacity

\* ijkio_cache_file_overrang of a cache that nobody shares: all trees are
\* destroyed, those of other open contexts too, and the file starts again.
Flushed(x, y) ==
    IF y = x THEN [c[x] EXCEPT !.phys = 0, !.eof = FALSE, !.fill = c[x].read]
    ELSE [c[y] EXCEPT !.freed = c[y].state # "closed"]
FlushKeepsTrees == [file EXCEPT !.last = 0, !.off = 0, !.savedBad = TRUE]
FlushedFile == [file EXCEPT !.map = NoMap, !.last = 0, !.off = 0, !.savedBad = TRUE]

-----------------------------------------------------------------------------
(* The task: ijkio_cache_task and ijkio_cache_write_file.                  *)

\* A worker of the pool takes it; there are more workers than contexts.
TaskStart(x) ==
    /\ task[x] = "queued"
    /\ task' = [task EXCEPT ![x] = "top"]
    /\ UNCHANGED <<forwards, c, file, io, env>>

\* A context whose request to seek is taken.
SoughtKeepsFill(k) == [k EXCEPT !.eof = FALSE, !.err = 0, !.seekDone = TRUE, !.seekRequest = FALSE,
                                !.read = k.seekPos]
SoughtKeepsEof(k) == [k EXCEPT !.seekDone = TRUE, !.seekRequest = FALSE, !.read = k.seekPos, !.fill = k.seekPos]
Sought(k) == [k EXCEPT !.eof = FALSE, !.err = 0, !.seekDone = TRUE, !.seekRequest = FALSE,
                       !.read = k.seekPos, !.fill = k.seekPos]

\* The head of the loop: closed, stopped, or asked to seek.
TaskTop(x) ==
    /\ task[x] = "top"
    /\ IF c[x].noCache
       THEN task' = [task EXCEPT ![x] = "leave"] /\ UNCHANGED <<c, io>>
       ELSE IF Aborted(x)
       THEN /\ task' = [task EXCEPT ![x] = "leave"]
            /\ c' = [c EXCEPT ![x].abort = TRUE, ![x].eof = TRUE, ![x].err = Exit]
            /\ UNCHANGED io
       ELSE /\ task' = [task EXCEPT ![x] = "check"]
            /\ IF c[x].seekRequest
               THEN /\ c' = [c EXCEPT ![x] = Sought(@)]
                    /\ io' = WakeMain(x)
               ELSE UNCHANGED <<c, io>>
    /\ UNCHANGED <<forwards, file, env>>

\* Far enough ahead, or at the end?  Looked at without the mutex.
TaskCheck(x) ==
    /\ task[x] = "check"
    /\ task' = [task EXCEPT ![x] =
            IF c[x].fill - c[x].read > forwards \/ c[x].eof THEN "lock" ELSE "find"]
    /\ UNCHANGED <<forwards, c, file, io, env>>

SleepSilently(x) ==
    /\ task[x] = "lock" /\ task' = [task EXCEPT ![x] = "asleep"]
    /\ UNCHANGED <<forwards, c, file, io, env>>
TaskSleep(x) ==
    /\ task[x] = "lock"
    /\ io' = WakeMain(x)
    /\ task' = [task EXCEPT ![x] = "asleep"]
    /\ UNCHANGED <<forwards, c, file, env>>

\* Where to go on: behind the entry that holds the position.  Another entry
\* that begins right there is left to the next turn.
TaskFind(x) ==
    /\ task[x] = "find"
    /\ LET next == IF Cached(x, c[x].fill) THEN EntryEnd(x, c[x].fill) ELSE c[x].fill
           stop == next >= FileSize \/ (c[x].end > 0 /\ next = c[x].end) IN
        IF Cached(x, next)
        THEN /\ c' = [c EXCEPT ![x].fill = next]
             /\ task' = [task EXCEPT ![x] = "top"]
        ELSE /\ c' = [c EXCEPT ![x].fill = next, ![x].eof = @ \/ stop]
             /\ task' = [task EXCEPT ![x] = IF stop THEN "top" ELSE "fetch"]
    /\ UNCHANGED <<forwards, file, io, env>>

\* Where a read of block i really reads: the connection is sought only when the
\* context believes it to be elsewhere.
ConnAt(k, i) == IF i # k.inner THEN i ELSE k.conn

\* What the connection may do then: it is opened if that was put off, sought, and
\* read, one block at a time.
NetworkOutcomes(x, i) ==
    (IF ConnAt(c[x], i) < FileSize THEN {"read"} ELSE {"ends"}) \cup
    (IF env.troubles = 0 THEN {}
     ELSE {"readFails", "ends"}
        \cup (IF c[x].asyncOpen THEN {"openFails"} ELSE {})
        \cup (IF i # c[x].inner THEN {"seekFails"} ELSE {}))

Failed(e) == [e EXCEPT !.troubles = @ - 1, !.failed = TRUE]
After(x, i, o) == IF o = "read" \/ (o = "ends" /\ ConnAt(c[x], i) = FileSize) THEN env ELSE Failed(env)

\* The context once the connection has done that.
Connected(k, i, o) ==
    LET opened == [k EXCEPT !.asyncOpen = FALSE]
        at == ConnAt(k, i) IN
    CASE o = "openFails" -> k
      [] o = "seekFails" -> opened
      [] o = "read"      -> [opened EXCEPT !.inner = i + 1, !.conn = at + 1]
      [] OTHER           -> [opened EXCEPT !.inner = i, !.conn = at]

\* A seek that fails sets no error, so the reader will see the end of the file.
\* When it fails at block 0, file_logical_end, which is 0 as long as it is not
\* set, is taken for the end and file_inner_pos becomes 0.
TaskFetch(x) ==
    /\ task[x] = "fetch"
    /\ \E o \in NetworkOutcomes(x, c[x].fill) :
        LET i == c[x].fill
            k == Connected(c[x], i, o)
            atEnd == o = "seekFails" /\ i = c[x].end IN
        /\ env' = [After(x, i, o) EXCEPT !.misled = @ \/ atEnd]
        /\ c' = [c EXCEPT ![x] = IF o = "read" THEN k
                    ELSE [k EXCEPT !.eof = TRUE,
                                   !.err = CASE o \in {"openFails", "readFails"} -> Eio
                                             [] o = "ends" -> 0
                                             [] OTHER -> @,
                                   !.end = IF o = "ends" THEN i ELSE @,
                                   !.inner = IF atEnd THEN i ELSE @]]
        /\ task' = [task EXCEPT ![x] = IF o = "read" THEN "add" ELSE "top"]
    /\ UNCHANGED <<forwards, file, io>>

\* add_entry, under the mutex.  Without room the block is dropped: the cache is
\* emptied or, if another player shares it, given up.
TaskAdd(x) ==
    /\ task[x] = "add"
    /\ IF Room
       THEN /\ file' = [file EXCEPT !.last = @ + 1,
                          !.disk = Written(@, file.last, <<x, c[x].conn - 1>>),
                          !.map[x][c[x].fill] = file.last]
            /\ c' = [c EXCEPT ![x].phys = file.last + 1, ![x].fill = @ + 1]
            /\ task' = [task EXCEPT ![x] = "tell"]
            /\ UNCHANGED env
       ELSE IF file.shared
       THEN /\ c' = [c EXCEPT ![x].phys = file.last, ![x].noCache = TRUE]
            /\ task' = [task EXCEPT ![x] = "leave"]
            /\ UNCHANGED file
            /\ env' = [env EXCEPT !.behind = IF io.op = "read" /\ io.x = x /\ io.at \in {"run", "mainwait"}
                                             THEN @ ELSE @ \cup {x}]
       ELSE /\ c' = [y \in Ctx |-> Flushed(x, y)]
            /\ file' = FlushedFile
            /\ task' = [task EXCEPT ![x] = "top"]
            /\ UNCHANGED env
    /\ UNCHANGED <<forwards, io>>

TaskTell(x) ==
    /\ task[x] = "tell"
    /\ io' = WakeMain(x)
    /\ task' = [task EXCEPT ![x] = "top"]
    /\ UNCHANGED <<forwards, c, file, env>>

TaskLeave(x) ==
    /\ task[x] = "leave"
    /\ c' = [c EXCEPT ![x].running = FALSE]
    /\ io' = IF io.at = "exitwait" /\ io.y = x THEN [io EXCEPT !.at = "stopped"] ELSE WakeMain(x)
    /\ task' = [task EXCEPT ![x] = "none"]
    /\ UNCHANGED <<forwards, file, env>>

Task(x) ==
    \/ TaskStart(x) \/ TaskTop(x) \/ TaskCheck(x) \/ TaskSleep(x) \/ TaskFind(x) \/ TaskFetch(x)
    \/ TaskAdd(x) \/ TaskTell(x) \/ TaskLeave(x)


-----------------------------------------------------------------------------
(* The demuxer's calls (ijkiomanager.c) and what they do to the cache.     *)

Call == io.op = "none" /\ env.calls > 0
Called == [env EXCEPT !.calls = @ - 1]
Returns(r) == io' = [Idle EXCEPT !.x = io.x, !.ret = r]

\* Signal the task of y, and wait until it has left.
StopTask(y) ==
    /\ c' = [c EXCEPT ![y].abort = TRUE]
    /\ task' = IF forwards = 0 THEN task ELSE WakeTask(y)

\* Contexts differ by their name only: which is the first does not matter.
OpenCall(x) ==
    /\ Call /\ c[x].state = "closed"
    /\ env.calls = MaxCalls => x = CHOOSE y \in Ctx : TRUE
    /\ io' = [Idle EXCEPT !.op = "open", !.at = "pause", !.x = x, !.todo = {y \in Ctx : c[y].state # "closed"}]
    /\ env' = Called
    /\ UNCHANGED <<forwards, c, task, file>>

\* ijkio_manager_set_all_ctx_pause, one context after the other.
PauseNext(y) ==
    /\ io.op = "open" /\ io.at = "pause" /\ y \in io.todo
    /\ StopTask(y)
    /\ io' = [io EXCEPT !.y = y, !.at = IF c[y].running THEN "exitwait" ELSE "stopped"]
    /\ UNCHANGED <<forwards, file, env>>

Paused ==
    /\ io.op = "open" /\ io.at = "stopped"
    /\ c' = [c EXCEPT ![io.y].state = "paused"]
    /\ io' = [io EXCEPT !.at = "pause", !.y = None, !.todo = @ \ {io.y}]
    /\ UNCHANGED <<forwards, task, file, env>>

\* The file the first open of a manager finds: the old one when a map was read,
\* if it is as long as the map says, else an empty one.
OpenedFile ==
    IF file.open THEN file
    ELSE IF file.map = NoMap THEN [file EXCEPT !.disk = <<>>, !.last = 0, !.open = TRUE, !.savedBad = TRUE]
    ELSE IF Len(file.disk) < file.last
    THEN [file EXCEPT !.map = NoMap, !.last = 0, !.open = TRUE, !.savedBad = TRUE]
    ELSE [file EXCEPT !.open = TRUE]

\* ijkio_cache_open.  With entries of its file, a context may put off the
\* connection.
OpenContext ==
    /\ io.op = "open" /\ io.at = "pause" /\ io.todo = {}
    /\ LET x == io.x
           f == OpenedFile
           k == [NewContext EXCEPT !.state = "started", !.phys = f.last, !.running = forwards > 0] IN
        /\ file' = [f EXCEPT !.off = IF forwards = 0 THEN f.last ELSE 0]
        /\ \/ /\ \E put \in IF f.map[x] # NoTree THEN BOOLEAN ELSE {FALSE} :
                    c' = [c EXCEPT ![x] = [k EXCEPT !.asyncOpen = put]]
              /\ task' = [task EXCEPT ![x] = IF forwards > 0 THEN "queued" ELSE "none"]
              /\ Returns(0)
              /\ UNCHANGED env
           \/ /\ env.troubles > 0
              /\ env' = Failed(env)
              /\ Returns(Eio)
              /\ UNCHANGED <<c, task>>
    /\ UNCHANGED forwards

CloseCall(x) ==
    /\ Call /\ c[x].state # "closed"
    /\ StopTask(x)
    /\ io' = [Idle EXCEPT !.op = "close", !.x = x, !.y = x, !.at = IF c[x].running THEN "exitwait" ELSE "stopped"]
    /\ env' = Called
    /\ UNCHANGED <<forwards, file>>

Closed ==
    /\ io.op = "close" /\ io.at = "stopped"
    /\ c' = [c EXCEPT ![io.x] = NewContext]
    /\ Returns(0)
    /\ env' = [env EXCEPT !.behind = @ \ {io.x}]
    /\ UNCHANGED <<forwards, task, file>>

\* A context that was paused goes on.  Nothing pauses the others then, and two
\* tasks would move one file offset under two mutexes: the model stops there,
\* as it does where the tree was freed under the context.
Usable(x) ==
    /\ c[x].state # "closed" /\ ~c[x].freed
    /\ c[x].state = "paused" => \A y \in Ctx : c[y].state # "started"

\* ijkio_cache_resume: what the pause left in eof and err stays.
Again(x) == c[x].state = "paused" /\ forwards > 0 /\ ~c[x].noCache
Resumed(x) ==
    IF c[x].state = "started" THEN c[x]
    ELSE [c[x] EXCEPT !.state = "started", !.abort = FALSE, !.running = Again(x),
                      !.phys = IF Again(x) THEN file.last ELSE @]

\* ijkio_manager_io_read and ijkio_manager_io_seek: resume, then the cache.
ReadCall(x, n) ==
    /\ Call /\ Usable(x)
    /\ c' = [c EXCEPT ![x] = Resumed(x)]
    /\ task' = IF Again(x) THEN [task EXCEPT ![x] = "queued"] ELSE task
    /\ io' = [Idle EXCEPT !.op = "read", !.at = "enter", !.x = x, !.want = n, !.from = c[x].at]
    /\ env' = [Called EXCEPT !.switched = @ \/ (forwards = 0 /\ c[x].state = "paused")]
    /\ UNCHANGED <<forwards, file>>

SeekCall(x, p) ==
    /\ Call /\ Usable(x)
    /\ c' = [c EXCEPT ![x] = Resumed(x)]
    /\ task' = IF Again(x) THEN [task EXCEPT ![x] = "queued"] ELSE task
    /\ io' = [Idle EXCEPT !.op = "seek", !.at = "enter", !.x = x, !.want = p]
    /\ env' = [Called EXCEPT !.switched = @ \/ (forwards = 0 /\ c[x].state = "paused")]
    /\ UNCHANGED <<forwards, file>>

-----------------------------------------------------------------------------
(* ijkio_cache_read and ijkio_cache_seek once they are entered.            *)

\* Where a read that found the cache closed while it waited puts the connection.
DirectUnsought(k) == k.conn
DirectAt(k) == IF k.read < FileSize THEN k.read ELSE FileSize

\* The cache is closed: the connection is read where it is.  A read that found
\* the cache closed while it waited has sought it first; an error is then subtracted
\* from the count of what was read before (ijkiocache.c:994), and the position is lost.
ReadDirect(x, k) ==
    \/ /\ k.conn < FileSize
       /\ io' = [Idle EXCEPT !.x = x, !.ret = Len(io.data) + 1, !.from = io.from,
                            !.data = Append(io.data, <<x, k.conn>>)]
       /\ c' = [c EXCEPT ![x] = [k EXCEPT !.conn = @ + 1, !.at = io.from + Len(io.data) + 1]]
       /\ UNCHANGED env
    \/ /\ k.conn = FileSize \/ env.troubles > 0
       /\ env' = [IF k.conn = FileSize THEN env ELSE Failed(env) EXCEPT
                             !.behind = IF io.data # <<>> THEN @ \cup {x} ELSE @]
       /\ io' = [Idle EXCEPT !.x = x, !.ret = IF k.conn = FileSize THEN Eof ELSE Eio]
       /\ c' = [c EXCEPT ![x] = k]

\* That seek fails: the connection stays where the task left it, and what is read
\* from it later (ijkiocache.c:966) is not what follows the reader's position.
DirectSeekFails(x) ==
    /\ env.troubles > 0
    /\ env' = [Failed(env) EXCEPT !.behind = @ \cup {x}]
    /\ Returns(Eio)
    /\ UNCHANGED c

EnterRead ==
    /\ io.op = "read" /\ io.at = "enter"
    /\ IF c[io.x].noCache
       THEN ReadDirect(io.x, c[io.x])
       ELSE /\ forwards > 0
            /\ io' = [io EXCEPT !.at = "run"]
            /\ UNCHANGED <<c, env>>
    /\ UNCHANGED <<forwards, task, file>>

\* ijkio_cache_sync_read of cached blocks.  The offset of the file is believed to
\* be where this context last left it.
SyncReadCached ==
    /\ io.op = "read" /\ io.at = "enter" /\ forwards = 0
    /\ LET x == io.x
           i == c[x].read IN
        /\ ~c[x].noCache /\ Cached(x, i)
        /\ LET k == IF io.want < EntryEnd(x, i) - i THEN io.want ELSE EntryEnd(x, i) - i
               target == file.map[x][i]
               off == IF c[x].phys # target THEN target ELSE file.off
               d == SubSeq(file.disk, off + 1, off + k) IN
            /\ file' = [file EXCEPT !.off = off + Len(d)]
            /\ c' = [c EXCEPT ![x].phys = target + Len(d), ![x].read = @ + Len(d), ![x].at = io.from + Len(d)]
            /\ io' = [Idle EXCEPT !.x = x, !.ret = Len(d), !.from = io.from, !.data = d]
    /\ UNCHANGED <<forwards, task, env>>

\* ... and of a block that is not: it is read and added (sync_add_entry), the
\* offset being taken for right when the end of the file was last used.
SyncReadThrough ==
    /\ io.op = "read" /\ io.at = "enter" /\ forwards = 0
    /\ LET x == io.x
           i == c[x].read IN
        /\ ~c[x].noCache /\ ~Cached(x, i)
        /\ IF i >= FileSize
           THEN /\ Returns(Eof)
                /\ c' = [c EXCEPT ![x].eof = TRUE]
                /\ UNCHANGED <<file, env>>
           ELSE \E o \in NetworkOutcomes(x, i) :
            LET k == Connected(c[x], i, o)
                b == <<x, k.conn - 1>>
                full == ~Room
                f == IF full THEN FlushedFile ELSE file
                off == IF full \/ file.last # c[x].phys THEN f.last ELSE f.off IN
            IF o # "read"
            THEN /\ Returns(IF o = "ends" THEN Eof ELSE Eio)
                 /\ c' = [c EXCEPT ![x] = k]
                 /\ env' = After(x, i, o)
                 /\ UNCHANGED file
            ELSE /\ io' = [Idle EXCEPT !.x = x, !.ret = 1, !.from = io.from, !.data = <<b>>]
                 /\ IF full /\ file.shared
                    THEN /\ c' = [c EXCEPT ![x] = [k EXCEPT !.read = i + 1, !.at = io.from + 1, !.phys = file.last]]
                         /\ file' = [file EXCEPT !.off = file.last]
                         /\ UNCHANGED env
                    ELSE /\ file' = [f EXCEPT !.disk = Written(@, off, b), !.off = off + 1, !.last = @ + 1,
                                              !.map[x][i] = f.last]
                         /\ c' = [y \in Ctx |->
                                    IF y = x THEN [k EXCEPT !.read = i + 1, !.at = io.from + 1, !.phys = f.last + 1]
                                    ELSE IF full THEN Flushed(x, y) ELSE c[y]]
                         /\ UNCHANGED env
    /\ UNCHANGED <<forwards, task>>

\* A turn of the reading loop of ijkio_cache_read.
Wait == io' = [io EXCEPT !.at = "mainwait"]

ReadTurn ==
    /\ io.op = "read" /\ io.at = "run"
    /\ LET x == io.x
           i == c[x].read IN
        IF Aborted(x)
        THEN /\ Returns(Exit)
             /\ c' = [c EXCEPT ![x].abort = TRUE]
             /\ task' = WakeTask(x)
             /\ env' = [env EXCEPT !.behind = IF c[x].noCache THEN @ \cup {x} ELSE @]
        ELSE IF c[x].noCache
        THEN /\ \/ ReadDirect(x, [c[x] EXCEPT !.conn = DirectAt(c[x])])
                \/ DirectSeekFails(x)
             /\ UNCHANGED task
        ELSE IF Cached(x, i)
        THEN LET more == io.want - Len(io.data)
                 k == IF more < EntryEnd(x, i) - i THEN more ELSE EntryEnd(x, i) - i
                 p == file.map[x][i]
                 d == io.data \o SubSeq(file.disk, p + 1, p + k) IN
             /\ IF Len(d) < io.want
                THEN /\ io' = [io EXCEPT !.at = "mainwait", !.data = d]
                     /\ c' = [c EXCEPT ![x].read = i + k]
                     /\ task' = WakeTask(x)
                ELSE /\ io' = [Idle EXCEPT !.x = x, !.ret = io.want, !.from = io.from, !.data = d]
                     /\ c' = [c EXCEPT ![x].read = i + k, ![x].at = io.from + Len(d)]
                     /\ task' = IF ~c[x].eof /\ c[x].fill - (i + k) <= forwards THEN WakeTask(x) ELSE task
             /\ UNCHANGED env
        ELSE IF c[x].eof
        THEN /\ io' = [Idle EXCEPT !.x = x, !.from = io.from, !.data = io.data,
                         !.ret = IF io.data # <<>> THEN Len(io.data)
                                 ELSE IF c[x].err # 0 THEN c[x].err ELSE Eof]
             /\ c' = [c EXCEPT ![x].at = io.from + Len(io.data)]
             /\ task' = WakeTask(x)
             /\ UNCHANGED env
        ELSE /\ Wait
             /\ task' = WakeTask(x)
             /\ UNCHANGED <<c, env>>
    /\ UNCHANGED <<forwards, file>>

EnterSeek ==
    /\ io.op = "seek" /\ io.at = "enter"
    /\ LET x == io.x
           p == io.want IN
        IF c[x].noCache
        THEN /\ \/ /\ Returns(p)
                   /\ c' = [c EXCEPT ![x].conn = p, ![x].at = p]
                   /\ env' = [env EXCEPT !.behind = @ \ {x}]
                \/ /\ env.troubles > 0
                   /\ Returns(Eio)
                   /\ env' = Failed(env)
                   /\ UNCHANGED c
             /\ UNCHANGED task
        ELSE IF forwards = 0
        THEN /\ Returns(p)
             /\ c' = [c EXCEPT ![x].read = p, ![x].at = p]
             /\ UNCHANGED <<task, env>>
        ELSE /\ IF Aborted(x) THEN Returns(Exit) ELSE Wait
             /\ c' = [c EXCEPT ![x].seekRequest = TRUE, ![x].seekPos = p, ![x].seekDone = FALSE]
             /\ task' = IF Aborted(x) THEN task ELSE WakeTask(x)
             /\ UNCHANGED env
    /\ UNCHANGED <<forwards, file>>

SeekTurn ==
    /\ io.op = "seek" /\ io.at = "run"
    /\ LET x == io.x IN
        IF Aborted(x)
        THEN /\ Returns(Exit)
             /\ c' = [c EXCEPT ![x].abort = TRUE]
             /\ UNCHANGED task
        ELSE IF c[x].seekDone
        THEN /\ Returns(c[x].seekPos)
             /\ c' = [c EXCEPT ![x].at = c[x].seekPos]
             /\ UNCHANGED task
        ELSE /\ Wait
             /\ task' = WakeTask(x)
             /\ UNCHANGED c
    /\ UNCHANGED <<forwards, file, env>>

-----------------------------------------------------------------------------
(* The application, the player and the process.                            *)

Trouble == [env EXCEPT !.troubles = @ - 1]

\* The map is written for another player, which then shares the cache.
WillShare ==
    /\ file.open /\ ~file.shared /\ env.troubles > 0
    /\ env' = Trouble
    /\ file' = [file EXCEPT !.shared = TRUE, !.saved = file.map, !.savedBad = env.staleMap]
    /\ UNCHANGED <<forwards, c, task, io>>

DidShare ==
    /\ file.shared
    /\ file' = [file EXCEPT !.shared = FALSE]
    /\ UNCHANGED <<forwards, c, task, io, env>>

Interrupt ==
    /\ ~env.interrupted /\ env.troubles > 0
    /\ env' = [Trouble EXCEPT !.interrupted = TRUE]
    /\ UNCHANGED <<forwards, c, task, file, io>>

\* ijkio_manager_destroy with auto_save_map, or a crash that loses the end of the
\* file; then a new manager, which reads the map or not.
Restart(saved, bad, disk) ==
    /\ \E parse \in BOOLEAN :
        LET map == IF parse THEN saved ELSE NoMap IN
        /\ file' = [last |-> Sizes(map), off |-> 0, disk |-> disk, map |-> map, open |-> FALSE,
                    shared |-> FALSE, saved |-> saved, savedBad |-> bad]
        /\ env' = [Trouble EXCEPT !.restarts = @ - 1, !.interrupted = FALSE, !.behind = {},
                              !.staleMap = parse /\ bad]
    /\ c' = [x \in Ctx |-> NewContext]
    /\ task' = [x \in Ctx |-> "none"]
    /\ io' = Idle
    /\ UNCHANGED forwards

Quit ==
    /\ env.restarts > 0 /\ env.troubles > 0 /\ io.op = "none" /\ file.open
    /\ \A x \in Ctx : c[x].state = "closed"
    /\ Restart(file.map, env.staleMap, file.disk)

Crash ==
    /\ env.restarts > 0 /\ env.troubles > 0 /\ file.open
    /\ \E n \in 0 .. Len(file.disk) : Restart(file.saved, file.savedBad, SubSeq(file.disk, 1, n))

-----------------------------------------------------------------------------

DemuxerStep ==
    \/ \E y \in Ctx : PauseNext(y)
    \/ Paused \/ OpenContext \/ Closed
    \/ EnterRead \/ SyncReadCached \/ SyncReadThrough \/ ReadTurn
    \/ EnterSeek \/ SeekTurn

Calls ==
    \E x \in Ctx :
        \/ OpenCall(x) \/ CloseCall(x)
        \/ \E n \in 1 .. 2 : ReadCall(x, n)
        \/ \E p \in 0 .. FileSize : SeekCall(x, p)

Next ==
    \/ \E x \in Ctx : Task(x)
    \/ DemuxerStep \/ Calls
    \/ WillShare \/ DidShare \/ Interrupt \/ Quit \/ Crash

\* The workers and the demuxer's thread are scheduled.
Spec ==
    /\ Init /\ [][Next]_vars
    /\ \A x \in Ctx : WF_vars(Task(x))
    /\ WF_vars(DemuxerStep)

-----------------------------------------------------------------------------
(* Properties.                                                             *)

\* What the code gets wrong, and after which nothing is promised: a map older
\* than the file it describes (after a crash), a synchronous context resumed
\* after another used the file, a failed seek to block 0 (ijkiocache.c:442).
Undermined == env.staleMap \/ env.switched \/ env.misled

\* Every entry of every tree leads to the block of its file, whatever was
\* added, emptied, shared, crashed and read back.
CacheHoldsFile ==
    ~Undermined /\ file.open =>
        \A x \in Ctx, i \in Blocks : Cached(x, i) =>
            /\ file.map[x][i] < file.last
            /\ file.disk[file.map[x][i] + 1] = <<x, i>>

\* A read returns the blocks at the demuxer's position, unless the cache was
\* given up behind its back: then the connection is ahead (ijkiocache.c:966).
ReadsTheFile ==
    ~Undermined /\ io.x \in Ctx \ env.behind =>
        \A j \in 1 .. Len(io.data) : io.data[j] = <<io.x, io.from + j - 1>>

\* Between the reader and the task everything is in the cache, so a task that is
\* far enough ahead can sleep without starving the reader.
WindowCached ==
    \A x \in Ctx : c[x].state # "closed" /\ forwards > 0 /\ ~c[x].freed =>
        \A i \in c[x].read .. c[x].fill - 1 : Cached(x, i)

\* Without a failure of the network, a read told `end of file' is at the end.
EofIsTheEnd ==
    ~Undermined /\ ~env.failed /\ io.x \in Ctx \ env.behind =>
        (io.op = "none" /\ io.ret = Eof => c[io.x].at = FileSize)

\* A call returns; but a close or a pause does not when the task went to sleep
\* without looking at abort_request again (ijkiocache.c:510), nor a seek when
\* the task gave the cache up and left (ijkiocache.c:1062).
LostAbort == io.at = "exitwait" /\ task[io.y] = "asleep"
LostSeek == io.op = "seek" /\ io.at = "mainwait" /\ c[io.x].noCache /\ task[io.x] = "none"
CallsReturn == io.op # "none" ~> io.op = "none" \/ LostAbort \/ LostSeek

=============================================================================
