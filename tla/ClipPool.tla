------------------------------ MODULE ClipPool ------------------------------
(***************************************************************************)
(* The list of clips of a player and the pool of two entries in which      *)
(* clips are open (ff_ffplay.c:6250-6517 and 9115-10218, ijkplayer.c).     *)
(*                                                                         *)
(* Three threads use them: the application, whose calls hold mp->mutex;    *)
(* the message loop, which attaches a clip for a seek (without mp->mutex), *)
(* after a switch and for an exchange; and the refresh thread, which shows *)
(* the clip in play and switches to the next one at its end.  They meet in *)
(* clipState->mutext_8, which whoever releases an entry gives up while the *)
(* refresh thread is still inside its clip (f_0x9f4, here `mark').         *)
(*                                                                         *)
(* An entry's threads and queues are those of VideoStream; here a clip is  *)
(* open or not.  Images, times, volume and memory running out are left     *)
(* out; of the settings the speed stands for all that an entry copies from *)
(* its clip.  Indices count from 0, as in the code.                        *)
(***************************************************************************)
EXTENDS Integers, Sequences, SequencesExt, FiniteSets

CONSTANTS MaxClips,     \* bound: length of the list
          Clips0,       \* clips added before prepare
          MaxIds,       \* bound: clips ever added
          MaxCalls      \* bound: calls of the application

ASSUME PoolAssumption ==
    /\ MaxClips \in Nat \ {0} /\ MaxIds \in Nat /\ MaxCalls \in Nat
    /\ Clips0 \in 1 .. MaxClips /\ Clips0 <= MaxIds

VARIABLES list,         \* ids of the clips, from head_0x18 on
          speed,        \* speed_0x40 of every clip
          idGen,        \* id_gen_0x2c
          pool,         \* info[0] and info[1], a VideoClip each
          lock,         \* who owns mutext_8
          job,          \* what each thread is doing in the pool
          refresh,      \* the refresh thread
          msgs,         \* messages to the loop
          told,         \* ghost: what the last switch did
          env           \* ghost: calls left; delete-all happened; entry 0 was to be
                      \* emptied for a clip while the refresh thread was inside it;
                      \* a pointer to nothing, null or freed, was used: all ends there

vars == <<list, speed, idGen, pool, lock, job, refresh, msgs, told, env>>

Threads == {"app", "loop", "refresh"}
Entries == 1 .. 2
Ids == 0 .. MaxIds - 1
None == -1

TypeOK ==
    /\ list \in Seq(Ids) /\ Len(list) <= MaxClips /\ IsInjective(list)
    /\ \A i \in 1 .. Len(list) : list[i] < idGen
    /\ idGen \in 0 .. MaxIds /\ speed \in [Ids -> 1 .. 2]
    /\ pool \in [Entries -> [id : Ids \cup {None},      \* clip_id_0x58
                             qi : Nat \cup {None},      \* queue_index_0x5c
                             used : BOOLEAN,            \* isUsed_0x60
                             open : BOOLEAN,            \* is_0x30 is not NULL
                             abort : BOOLEAN,           \* is->abort_request
                             paused : BOOLEAN,          \* is->pause_req
                             mark : BOOLEAN,            \* is->f_0x9f4
                             speed : 1 .. 2]]           \* speed_0xa0
    /\ lock \in Threads \cup {"free"}
    /\ refresh.at \in {"off", "look", "show", "delay", "switch", "open", "post", "end", "leave"}
    /\ refresh.player \in Entries \cup {None}
    /\ ~(pool[1].used /\ pool[2].used)

\* A prepare or a switch under way: for which op, how far, the last entry scanned
\* (or the entry that was emptied for the clip), where it goes on after a wait,
\* the clip, the one after it, and the clip's index.
NoJob == [op |-> "none", stage |-> "none", entry |-> 0, back |-> "none",
          cur |-> None, next |-> None, qi |-> None]
Free == [id |-> None, qi |-> None, used |-> FALSE, open |-> FALSE, abort |-> FALSE, paused |-> FALSE,
         mark |-> FALSE, speed |-> 1]

\* The refresh thread outside of the entries: the entry it is in, the clip it switches
\* from, that clip's entry, and whether it has given up its mark (a ghost).
Untold == [what |-> "nothing", to |-> None]
Out(at) == [at |-> at, player |-> None, clip |-> None, from |-> None, gaveUp |-> FALSE]

\* A player with its first clips, not prepared yet.
Init ==
    /\ list = [i \in 1 .. Clips0 |-> i - 1]
    /\ speed = [x \in Ids |-> 1]
    /\ idGen = Clips0
    /\ pool = [p \in Entries |-> Free]
    /\ lock = "free"
    /\ job = [t \in Threads |-> NoJob]
    /\ refresh = Out("off")
    /\ msgs = <<>>
    /\ told = Untold
    /\ env = [calls |-> MaxCalls, wiped |-> FALSE, evicted |-> FALSE, gone |-> FALSE]

-----------------------------------------------------------------------------
(* Lists and entries.                                                      *)

\* clip_op_queue_get and clip_op_queue_index_of_clip_list.
ClipAt(l, k) == IF k + 1 \in 1 .. Len(l) THEN l[k + 1] ELSE None
IndexOf(l, x) == IF \E i \in 1 .. Len(l) : l[i] = x
                 THEN (CHOOSE i \in 1 .. Len(l) : l[i] = x) - 1 ELSE None

\* ffp_clip_op_get_play_ci.
PlayEntry == IF pool[1].used THEN 1 ELSE IF pool[2].used THEN 2 ELSE None

\* Where stream_open_video opens x: where it is open, else in a free entry.
PlacesFor(x) ==
    LET open == {p \in Entries : pool[p].id = x}
        free == {p \in Entries : pool[p].id = None} IN
    {p \in IF open # {} THEN open ELSE free : \A q \in IF open # {} THEN open ELSE free : p <= q}

\* stream_open_video of clip x, which is at index k: an entry that has it open
\* takes its settings again, another opens it.
OpenedAsBefore(p, x, k, isUsed) ==
    [pool EXCEPT ![p] =
        IF @.id = x THEN [@ EXCEPT !.used = isUsed, !.speed = speed[x]]
        ELSE [Free EXCEPT !.id = x, !.qi = k, !.used = isUsed, !.open = TRUE, !.speed = speed[x]]]
Opened(p, x, k, isUsed) ==
    [pool EXCEPT ![p] =
        IF @.id = x THEN [@ EXCEPT !.qi = k, !.used = isUsed, !.speed = speed[x]]
        ELSE [Free EXCEPT !.id = x, !.qi = k, !.used = isUsed, !.open = TRUE, !.speed = speed[x]]]

\* Entry p is the one in play.
InPlay(pl, p) == [q \in Entries |-> [pl[q] EXCEPT !.used = q = p]]

\* mp->mutex is free: the loop takes it for an update and an exchange, not for a seek.
MpFree == job["app"].op = "none" /\ job["loop"].op \notin {"update", "exchange"}

-----------------------------------------------------------------------------
(* Releasing entries and opening clips: the parts of clip_op_prepare and   *)
(* of ffp_switch_to_next_clip, with mutext_8 held.                         *)

\* clip_op_prepare, begun by t for index k of the list l.
Prepare(t, op, l, k) ==
    /\ job' = [job EXCEPT ![t] = [NoJob EXCEPT !.op = op, !.stage = "scan", !.cur = l[k + 1],
                 !.next = IF Len(l) > 1 THEN l[((k + 1) % Len(l)) + 1] ELSE None]]
    /\ lock' = t

\* The entries still to be scanned that hold neither the clip nor the next.
ToRelease(t) == {p \in Entries : p > job[t].entry /\ pool[p].id \notin {None, job[t].cur, job[t].next}}
Opens(t, stage) ==
    /\ lock = t
    /\ \/ job[t].stage = stage
       \/ stage = "open" /\ job[t].stage = "scan" /\ ToRelease(t) = {}
Place(t, x) == IF job[t].stage # "scan" /\ job[t].entry = 1 THEN {1} ELSE PlacesFor(x)
Qi(t, x) == IF job[t].stage # "scan" /\ job[t].entry = 1 THEN job[t].qi ELSE IndexOf(list, x)

\* clip_op_ci_release_to_pool: tell the clip in p to end, give up the lock when the
\* refresh thread is inside it ...
Release(t, p, back, x) ==
    /\ pool' = [pool EXCEPT ![p].abort = pool[p].open]
    /\ job' = [job EXCEPT ![t].stage = "wait", ![t].back = back, ![t].entry = p, ![t].qi = IndexOf(list, x)]
    /\ lock' = IF pool[p].mark THEN "free" ELSE t
    /\ env' = [env EXCEPT !.evicted = @ \/ (back # "scan" /\ pool[p].mark)]
    /\ UNCHANGED <<list, speed, idGen, refresh, msgs, told>>

ReleaseScanned(t) ==
    /\ lock = t /\ job[t].stage = "scan"
    /\ \E p \in ToRelease(t) : (\A q \in ToRelease(t) : p <= q) /\ Release(t, p, "scan", None)

\* No entry is free for the clip to open: the first one has to go.
ReleaseFirst(t) ==
    \E s \in {"open", "opennext"} :
        LET x == IF s = "open" THEN job[t].cur ELSE job[t].next IN
        /\ Opens(t, s) /\ x # None /\ Place(t, x) = {} /\ Release(t, 1, s, x)

\* A clip that was to be opened after the wait was deleted, and freed, in the meantime.
Deleted(t) ==
    \/ job[t].back # "opennext" /\ IndexOf(list, job[t].cur) = None
    \/ job[t].next # None /\ IndexOf(list, job[t].next) = None

\* ... wait until it is out, and close the clip.  Another thread that waits for it
\* goes on looking at a clip that is freed.
Closed(t) ==
    LET p == job[t].entry IN
    /\ env' = [env EXCEPT !.gone = \/ \E u \in Threads \ {t} : job[u].stage = "wait" /\ job[u].entry = p
                                  \/ Deleted(t)]
    /\ lock' = t
    /\ pool' = [pool EXCEPT ![p] = [Free EXCEPT !.speed = pool[p].speed]]
    /\ job' = [job EXCEPT ![t].stage = job[t].back]
    /\ UNCHANGED <<list, speed, idGen, refresh, msgs, told>>
CloseAtOnce(t) == lock \in {t, "free"} /\ job[t].stage = "wait" /\ Closed(t)
Close(t) == lock \in {t, "free"} /\ job[t].stage = "wait" /\ ~pool[job[t].entry].mark /\ Closed(t)

\* stream_open_video of the clip itself; it becomes the clip in play.
OpenClip(t) ==
    /\ Opens(t, "open") /\ t # "refresh"
    /\ \E p \in Place(t, job[t].cur) : pool' = InPlay(Opened(p, job[t].cur, Qi(t, job[t].cur), TRUE), p)
    /\ job' = [job EXCEPT ![t].stage = "opennext", ![t].entry = 0]
    /\ UNCHANGED <<list, speed, idGen, lock, refresh, msgs, told, env>>

\* ... and of the next one, which waits.  That ends the prepare: after an update the
\* clip in play goes on, before a seek the lock is given up, and the first prepare
\* starts the refresh thread.
OpenNext(t) ==
    LET x == job[t].next
        Goes(pl) == [p \in Entries |-> IF job[t].op = "update" /\ pl[p].used
                                       THEN [pl[p] EXCEPT !.paused = FALSE] ELSE pl[p]] IN
    /\ Opens(t, "opennext")
    /\ \/ x = None /\ pool' = Goes(pool)
       \/ \E p \in Place(t, x) :
            x # None /\ pool' = Goes([Opened(p, x, Qi(t, x), FALSE) EXCEPT ![p].paused = TRUE])
    /\ job' = [job EXCEPT ![t] = IF job[t].op = "seek" THEN [NoJob EXCEPT !.op = "seek", !.stage = "seek"] ELSE NoJob]
    /\ lock' = "free"
    /\ refresh' = IF job[t].op = "prepare" THEN [refresh EXCEPT !.at = "look"] ELSE refresh
    /\ UNCHANGED <<list, speed, idGen, msgs, told, env>>

PoolStep(t) == ReleaseScanned(t) \/ ReleaseFirst(t) \/ Close(t) \/ OpenClip(t) \/ OpenNext(t)

-----------------------------------------------------------------------------
(* The refresh thread (ff_ffplay.c:6546-6831).                             *)

Player == refresh.player
RefreshTo(at) == refresh' = [refresh EXCEPT !.at = at]

\* Go inside the clip in play, and mark it.
Look ==
    /\ refresh.at = "look" /\ lock = "free" /\ PlayEntry # None
    /\ pool[PlayEntry].open /\ ~pool[PlayEntry].abort
    /\ pool' = [pool EXCEPT ![PlayEntry].mark = TRUE]
    /\ refresh' = [refresh EXCEPT !.at = "show", !.player = PlayEntry, !.gaveUp = FALSE]
    /\ UNCHANGED <<list, speed, idGen, lock, job, msgs, told, env>>

\* Show what is due, of a paused clip only when its picture is to be shown again
\* (force_refresh; bounded by the calls); after the last picture wait half a second ...
Show ==
    /\ refresh.at = "show"
    /\ \/ RefreshTo("end") /\ UNCHANGED env
       \/ /\ pool[Player].open /\ ~pool[Player].abort
          /\ IF pool[Player].paused THEN env.calls > 0 /\ env' = [env EXCEPT !.calls = @ - 1] ELSE UNCHANGED env
          /\ RefreshTo("delay")
    /\ UNCHANGED <<list, speed, idGen, pool, lock, job, msgs, told>>

\* ... and switch, from the clip the entry holds by then.
Delay ==
    /\ refresh.at = "delay"
    /\ refresh' = [refresh EXCEPT !.at = "switch", !.clip = pool[Player].id]
    /\ UNCHANGED <<list, speed, idGen, pool, lock, job, msgs, told, env>>

Told(what, to) == told' = [what |-> what, to |-> to]

\* ffp_switch_to_next_clip: nothing if the clip in play is another one by now.
SwitchNot ==
    /\ refresh.at = "switch" /\ lock = "free"
    /\ PlayEntry # None => pool[PlayEntry].id # refresh.clip
    /\ RefreshTo("end")
    /\ UNCHANGED <<list, speed, idGen, pool, lock, job, msgs, told, env>>

\* The clip stops; the last of the list ends playback, ...
SwitchEnd ==
    /\ refresh.at = "switch" /\ lock = "free"
    /\ PlayEntry # None /\ pool[PlayEntry].id = refresh.clip
    /\ Len(list) = pool[PlayEntry].qi + 1
    /\ pool' = [pool EXCEPT ![PlayEntry].paused = TRUE]
    /\ Told("completed", None)
    /\ RefreshTo("end")
    /\ UNCHANGED <<list, speed, idGen, lock, job, msgs, env>>

\* ... any other is followed by the next one; clip_op_queue_get takes an index
\* past an empty list's head through a null pointer.
SwitchOn ==
    /\ refresh.at = "switch" /\ lock = "free"
    /\ PlayEntry # None /\ pool[PlayEntry].id = refresh.clip
    /\ LET k == pool[PlayEntry].qi + 1 IN
        /\ Len(list) # k
        /\ pool' = [pool EXCEPT ![PlayEntry].paused = TRUE]
        /\ env' = [env EXCEPT !.gone = list = <<>> /\ k # 0]
        /\ refresh' = [refresh EXCEPT !.at = IF ClipAt(list, k) = None THEN "post" ELSE "open", !.from = PlayEntry]
        /\ \/ ClipAt(list, k) = None /\ UNCHANGED <<lock, job, told>>
           \/ /\ ClipAt(list, k) # None
              /\ Told("next", ClipAt(list, k))
              /\ job' = [job EXCEPT !["refresh"] = [NoJob EXCEPT !.op = "switch", !.stage = "open",
                                                      !.cur = ClipAt(list, k)]]
              /\ lock' = "refresh"
    /\ UNCHANGED <<list, speed, idGen, msgs>>

\* The next clip is open: it plays, and the mark of the other is given up.
Switched ==
    /\ refresh.at = "open" /\ Opens("refresh", "open")
    /\ \E p \in Place("refresh", job["refresh"].cur) :
        LET pl == InPlay(Opened(p, job["refresh"].cur, Qi("refresh", job["refresh"].cur), TRUE), p) IN
        pool' = [pl EXCEPT ![p].paused = FALSE, ![refresh.from].mark = FALSE]
    /\ refresh' = [refresh EXCEPT !.at = "post", !.gaveUp = TRUE]
    /\ job' = [job EXCEPT !["refresh"] = NoJob]
    /\ lock' = "free"
    /\ UNCHANGED <<list, speed, idGen, msgs, told, env>>

\* Tell the loop, with the index the left entry has by now.
Post ==
    /\ refresh.at = "post"
    /\ msgs' = Append(msgs, [what |-> "update", i |-> pool[refresh.from].qi + 1, j |-> 0])
    /\ RefreshTo("end")
    /\ UNCHANGED <<list, speed, idGen, pool, lock, job, told, env>>

\* Stay inside an entry that is in play, or empty.
End ==
    LET at == IF ~pool[Player].open \/ (~pool[Player].abort /\ pool[Player].used) THEN "show" ELSE "leave" IN
    /\ refresh.at = "end"
    /\ refresh' = [refresh EXCEPT !.at = at, !.clip = None, !.from = None]
    /\ told' = Untold
    /\ UNCHANGED <<list, speed, idGen, pool, lock, job, msgs, env>>

\* Leave it.
LeaveMarked ==
    /\ refresh.at = "leave" /\ lock = "free"
    /\ refresh' = Out("look")
    /\ UNCHANGED <<list, speed, idGen, pool, lock, job, msgs, told, env>>
Leave ==
    /\ refresh.at = "leave" /\ lock = "free"
    /\ env' = [env EXCEPT !.gone = ~pool[Player].open]
    /\ pool' = [pool EXCEPT ![Player].mark = FALSE]
    /\ refresh' = Out("look")
    /\ UNCHANGED <<list, speed, idGen, lock, job, msgs, told>>

RefreshStep == Look \/ Show \/ Delay \/ SwitchNot \/ SwitchEnd \/ SwitchOn \/ Switched \/ Post \/ End \/ Leave

-----------------------------------------------------------------------------
(* The message loop (ijkplayer.c:907-995).                                 *)

LoopTakes(what) == Len(msgs) > 0 /\ Head(msgs).what = what /\ job["loop"].op = "none" /\ lock = "free"
PreparedForMp == job["app"].op = "none" /\ refresh.at # "off"

\* FFP_REQ_SEEK: attach the clip, without mp->mutex ...
LoopSeek ==
    /\ LoopTakes("seek")
    /\ msgs' = Tail(msgs)
    /\ IF Head(msgs).i < Len(list) THEN Prepare("loop", "seek", list, Head(msgs).i) ELSE UNCHANGED <<lock, job>>
    /\ UNCHANGED <<list, speed, idGen, pool, refresh, told, env>>

\* ... and seek in the clip in play, without any lock: it stops, and may go on.
LoopSought ==
    /\ job["loop"].stage = "seek"
    /\ job' = [job EXCEPT !["loop"] = NoJob]
    /\ \E paused \in BOOLEAN :
        pool' = [p \in Entries |-> IF p = PlayEntry THEN [pool[p] EXCEPT !.paused = paused] ELSE pool[p]]
    /\ UNCHANGED <<list, speed, idGen, lock, refresh, msgs, told, env>>

\* FFP_MSG_0x186a1: bring the pool in step after a switch.  An index past the end
\* only lets the clip in play go on.
LoopUpdate ==
    /\ LoopTakes("update") /\ PreparedForMp
    /\ msgs' = Tail(msgs)
    /\ IF Head(msgs).i < Len(list)
       THEN Prepare("loop", "update", list, Head(msgs).i) /\ UNCHANGED pool
       ELSE /\ pool' = [p \in Entries |-> IF p = PlayEntry THEN [pool[p] EXCEPT !.paused = FALSE] ELSE pool[p]]
            /\ UNCHANGED <<lock, job>>
    /\ UNCHANGED <<list, speed, idGen, refresh, told, env>>

\* FFP_MSG_0x186a4, ffp_clip_op_exchange: the clip at i moves to j and is played.
Moved(l, i, j) == InsertAt(RemoveAt(l, i + 1), j + 1, l[i + 1])
LoopExchange ==
    /\ LoopTakes("exchange") /\ PreparedForMp
    /\ msgs' = Tail(msgs)
    /\ LET i == Head(msgs).i
           j == Head(msgs).j IN
        IF PlayEntry # None /\ i # j /\ i < Len(list) /\ j < Len(list)
        THEN list' = Moved(list, i, j) /\ Prepare("loop", "exchange", Moved(list, i, j), j)
        ELSE UNCHANGED <<list, lock, job>>
    /\ UNCHANGED <<speed, idGen, pool, refresh, told, env>>

LoopStep == LoopSeek \/ LoopSought \/ LoopUpdate \/ LoopExchange

-----------------------------------------------------------------------------
(* The application's calls.                                                *)

Call(n) == MpFree /\ lock = "free" /\ env.calls > 0 /\ env' = [env EXCEPT !.calls = @ - 1, !.wiped = (n = "wipe") \/ @]
Indices == 0 .. Len(list)

\* ijkmp_prepare_async: the first prepare, once.
PrepareCall ==
    \E k \in 0 .. Len(list) - 1 :
        /\ Call("prepare") /\ refresh.at = "off"
        /\ Prepare("app", "prepare", list, k)
        /\ UNCHANGED <<list, speed, idGen, pool, refresh, msgs, told>>

\* ffp_clip_op_insert: the indices of the open clips from there on move.
ShiftedAfter(k) == [p \in Entries |-> IF pool[p].qi > k THEN [pool[p] EXCEPT !.qi = @ + 1] ELSE pool[p]]
Shifted(k) == [p \in Entries |-> IF pool[p].qi >= k THEN [pool[p] EXCEPT !.qi = @ + 1] ELSE pool[p]]
Insert ==
    \E k \in Indices :
        /\ Call("insert") /\ Len(list) < MaxClips /\ idGen < MaxIds
        /\ list' = InsertAt(list, k + 1, idGen)
        /\ speed' = [speed EXCEPT ![idGen] = 1]
        /\ idGen' = idGen + 1
        /\ pool' = Shifted(k)
        /\ UNCHANGED <<lock, job, refresh, msgs, told>>

\* ffp_clip_op_delete of one clip: an open one stays open.
Delete ==
    \E k \in Indices :
        /\ Call("delete") /\ k < Len(list)
        /\ list' = RemoveAt(list, k + 1)
        /\ pool' = [p \in Entries |-> IF pool[p].qi > k THEN [pool[p] EXCEPT !.qi = @ - 1] ELSE pool[p]]
        /\ UNCHANGED <<speed, idGen, lock, job, refresh, msgs, told>>

\* ... and of all: index i of a list that gets shorter.
DeleteAll ==
    /\ Call("wipe") /\ Len(list) > 0
    /\ list' = [i \in 1 .. Len(list) \div 2 |-> list[2 * i]]
    /\ UNCHANGED <<speed, idGen, pool, lock, job, refresh, msgs, told>>

\* ffp_clip_op_copy: the copy comes after its clip, and is played.
Copy ==
    \E k \in Indices :
        /\ Call("copy") /\ k < Len(list) /\ refresh.at # "off"
        /\ Len(list) < MaxClips /\ idGen < MaxIds
        /\ list' = InsertAt(list, k + 2, idGen)
        /\ speed' = [speed EXCEPT ![idGen] = speed[list[k + 1]]]
        /\ idGen' = idGen + 1
        /\ Prepare("app", "copy", list', k + 1)
        /\ UNCHANGED <<pool, refresh, msgs, told>>

\* ffp_set_playback_rate2: the clip's speed, and at once when it is in play.
SetSpeed ==
    \E k \in Indices, v \in 1 .. 2 :
        /\ Call("speed") /\ k < Len(list) /\ speed[list[k + 1]] # v
        /\ speed' = [speed EXCEPT ![list[k + 1]] = v]
        /\ pool' = [p \in Entries |-> IF p = PlayEntry /\ pool[p].qi = k THEN [pool[p] EXCEPT !.speed = v] ELSE pool[p]]
        /\ UNCHANGED <<list, idGen, lock, job, refresh, msgs, told>>

\* ffp_start_l and ffp_pause_l, for the clip in play.
Toggle ==
    /\ MpFree /\ env.calls > 0 /\ env' = [env EXCEPT !.calls = @ - 1]
    /\ refresh.at # "off" /\ PlayEntry # None
    /\ pool' = [pool EXCEPT ![PlayEntry].paused = ~@]
    /\ UNCHANGED <<list, speed, idGen, lock, job, refresh, msgs, told>>

\* ijkmp_seek_to and ijkmp_exchange_data_source queue a message.
Request ==
    \E m \in [what : {"seek", "exchange"}, i : Indices, j : Indices] :
        /\ MpFree /\ env.calls > 0 /\ env' = [env EXCEPT !.calls = @ - 1]
        /\ refresh.at # "off" /\ (m.what = "seek" => m.j = 0) /\ (m.what = "exchange" => m.i # m.j)
        /\ msgs' = Append(msgs, m)
        /\ UNCHANGED <<list, speed, idGen, pool, lock, job, refresh, told>>

AppStep == PrepareCall \/ Insert \/ Delete \/ DeleteAll \/ Copy \/ SetSpeed \/ Toggle \/ Request

Next ==
    /\ ~env.gone
    /\ RefreshStep \/ LoopStep \/ AppStep \/ \E t \in Threads : PoolStep(t)

Spec == Init /\ [][Next]_vars
FairSpec ==
    /\ Spec
    /\ WF_vars(~env.gone /\ RefreshStep) /\ WF_vars(~env.gone /\ LoopStep)
    /\ \A t \in Threads : WF_vars(~env.gone /\ PoolStep(t))

-----------------------------------------------------------------------------
(* Properties.                                                             *)

\* An entry is open for a clip exactly when it has its id, no clip is open twice, and
\* when nobody is in the middle of a prepare, an open clip that is still in the list
\* knows its place in it, and the clip in play its speed.  Two exceptions: delete-all,
\* whose loop leaves the indices as they are (hazard ff_ffplay.c:9768), and a clip for
\* which entry 0 was emptied by waiting for the refresh thread: by the time the wait
\* ends another thread may have opened it in entry 1 (hazard ff_ffplay.c:9259).
PoolInStep ==
    /\ TypeOK
    /\ \A p \in Entries : pool[p].open <=> pool[p].id # None
    /\ pool[1].open /\ ~env.evicted => pool[1].id # pool[2].id
    /\ (\A t \in Threads : job[t].stage \in {"none", "seek"}) /\ ~env.evicted /\ ~env.wiped =>
        \A p \in Entries :
            pool[p].open /\ IndexOf(list, pool[p].id) # None =>
                /\ pool[p].qi = IndexOf(list, pool[p].id)
                /\ pool[p].used => pool[p].speed = speed[pool[p].id]

\* While the refresh thread is inside a clip and has not given up its mark, the clip
\* stays open: whoever releases the entry waits (ff_ffplay.c:9257-9260).
MarkProtects == Player # None /\ ~refresh.gaveUp => pool[Player].open /\ pool[Player].mark

\* At the end of a clip that is in the list the player goes on with the clip after
\* it, and playback ends only after the last: whatever was inserted, deleted, copied
\* or moved meanwhile.  (Excepted: a copy or an exchange that waits for an entry has
\* changed the list and not yet the indices, hazard ff_ffplay.c:9259; and the
\* exceptions of PoolInStep.)
SwitchesToNext ==
    [][told' # told /\ told' # Untold /\ ~env.wiped /\ ~env.evicted /\ IndexOf(list, refresh.clip) # None
        /\ (\A t \in Threads : job[t].op \notin {"copy", "exchange"}) =>
        told'.to = ClipAt(list, IndexOf(list, refresh.clip) + 1)]_vars

\* The refresh thread opens the next clip in entry 0, and is inside it itself.
SelfWait == job["refresh"].stage = "wait" /\ pool[job["refresh"].entry].mark

\* Every prepare and every switch ends, unless the refresh thread waits for itself
\* (or a pointer to nothing was used).
CallsReturn ==
    \A t \in Threads : (job[t].op # "none") ~> (job[t].op = "none" \/ SelfWait \/ env.gone)
=============================================================================
