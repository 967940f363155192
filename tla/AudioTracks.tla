---------------------------- MODULE AudioTracks ----------------------------
(***************************************************************************)
(* The audio tracks of a player: their clips, the thread that decodes and  *)
(* mixes them, the queue of mixed frames and the audio device's callback   *)
(* (ff_audio.c; ff_ffplay.c:3054-4010, 4621-4854, 8575-9113).              *)
(*                                                                         *)
(* Four threads: the application edits the tracks (its calls hold          *)
(* mp->mutex, so one at a time); the message loop seeks; the decode thread *)
(* turns the current clip of every track into frames; the callback plays   *)
(* them.  The tracks are under `mutex', which the decode thread holds from *)
(* the top of its loop to the end of a pass, and gives up in the middle of *)
(* the pass when a track cannot go on to its next clip.                    *)
(*                                                                         *)
(* Left out: samples and their times (a pass takes one frame of every      *)
(* track, a clip ends when it likes), formats (every clip has the same),   *)
(* volume and fades, and memory running out.  A position lies within a     *)
(* clip when it is not after the clip's end, as in the code.  Unlocking a  *)
(* mutex that one does not hold does nothing (the SDL library is not here).*)
(***************************************************************************)
EXTENDS Integers, Sequences, SequencesExt, FiniteSets

CONSTANTS NTracks,      \* MAX_AUDIO_TRACK, 4 in the code
          QueueSize,    \* max_size of the frame queue, 9 in the code
          MaxIds,       \* bound: clips ever added
          MaxPos,       \* bound: the last position
          MaxFrames,    \* bound: frames mixed and events together
          MaxEvents,    \* bound: events: calls of the application, and files that fail
          MaxSeeks      \* bound: seeks by the message loop

ASSUME AudioAssumption ==
    /\ NTracks \in Nat \ {0} /\ QueueSize \in Nat \ {0, 1}
    /\ MaxIds \in Nat \ {0, 1} /\ MaxPos \in Nat \ {0}
    /\ {MaxFrames, MaxEvents, MaxSeeks} \subseteq Nat /\ MaxEvents <= MaxFrames

VARIABLES tracks,       \* arr[]: the clips, the current one, f_0xe (at its end)
          clips,        \* by id: opened, its end (start + duration), freed
          audio,        \* the rest of AudioTrackEditOp, and what holds the callback back
          mutex,        \* who owns it
          graph,        \* frames in the filter graph
          queue,        \* frameQueue
          decode,       \* the decode thread
          callback,     \* the audio device's thread
          app,          \* what the application waits for the mutex with
          env           \* ghost: what is left of the bounds, what went wrong

vars == <<tracks, clips, audio, mutex, graph, queue, decode, callback, app, env>>

Tracks == 1 .. NTracks
Ids == 0 .. MaxIds - 1
Positions == 0 .. MaxPos
Slots == 0 .. QueueSize - 1
None == -1

\* A frame of the queue: its number, the serial it was queued under, the one it was
\* mixed under (a ghost), and whether it still holds its samples.
NoFrame == [n |-> 0, serial |-> 0, mixed |-> 0, full |-> FALSE]
NoSound == [n |-> 0, mixed |-> 0]
NoClip == [open |-> FALSE, end |-> 0, freed |-> FALSE]

NonEmpty(ts) == {t \in Tracks : ts[t].list # <<>>}
\* The tracks a loop reaches that stops after f_0x20 tracks with clips.
Reached(ts, count) == {t \in NonEmpty(ts) : Cardinality({s \in NonEmpty(ts) : s < t}) < count}
Active(ts) == {t \in NonEmpty(ts) : ~ts[t].ended}
Aligned(q) == q.windex = (q.rindex + q.size) % QueueSize

\* A player with clips 0 and 1 on the first track.  Bounds: the more events a behaviour may
\* have, the fewer frames; it begins with the callback held only when it may have none.
Init ==
    /\ tracks = [t \in Tracks |-> [list |-> IF t = 1 THEN <<0, 1>> ELSE <<>>, cur |-> None, ended |-> t = 1]]
    /\ clips = [c \in Ids |-> [NoClip EXCEPT !.end = IF c = 0 THEN 0 ELSE MaxPos - 1]]
    /\ \E events \in 0 .. MaxEvents, held \in BOOLEAN :
        /\ held => events = 0
        /\ audio = [count |-> 1, allEnded |-> FALSE, seek |-> TRUE, serial |-> 1,
                    afChange |-> FALSE, processing |-> FALSE, abort |-> FALSE, queueAbort |-> FALSE,
                    paused |-> FALSE, held |-> held, closed |-> FALSE]
        /\ env = [ids |-> 2, frames |-> events, events |-> events, seeks |-> MaxSeeks,
                  astray |-> FALSE, kept |-> FALSE, drift |-> FALSE, late |-> FALSE, gone |-> FALSE]
    /\ mutex = "free"
    /\ graph = <<>>
    /\ queue = [slot |-> [s \in Slots |-> NoFrame], windex |-> 0, rindex |-> 0, shown |-> FALSE, size |-> 0]
    /\ decode = [at |-> "top", track |-> 1, rebuild |-> FALSE, local |-> 1, built |-> FALSE,
                 frame |-> NoSound, slot |-> 0]
    /\ callback = [at |-> "idle", slot |-> 0, stale |-> FALSE, last |-> 0]
    /\ app = "none"

-----------------------------------------------------------------------------
(* The frame queue.                                                        *)

Remaining(q) == q.size - (IF q.shown THEN 1 ELSE 0)
\* Faulty: the frame that is shown is read again.
ReadableShown(q) == q.rindex
Readable(q) == (q.rindex + (IF q.shown THEN 1 ELSE 0)) % QueueSize

\* frame_queue_next: the frame shown is kept until the next one is.
QueueNext(q) ==
    IF ~q.shown THEN [q EXCEPT !.shown = TRUE]
    ELSE [q EXCEPT !.slot[q.rindex] = [NoFrame EXCEPT !.serial = q.slot[q.rindex].serial],
                   !.rindex = (@ + 1) % QueueSize, !.size = @ - 1]

\* frame_queue_push, after the frame was put in the slot that was writable.
QueuePush(q, s, f) ==
    [q EXCEPT !.slot[s] = f, !.windex = (@ + 1) % QueueSize, !.size = @ + 1]

\* SDL_CondSignal(cond) reaches the decode thread only when it sleeps; the timed
\* wait at the top of its loop needs no signal.
Woken(d) == IF d.at = "asleep" THEN [d EXCEPT !.at = "top", !.rebuild = FALSE] ELSE d

\* Faulty: f_0x870 is left as it is.
SeekToEnded(a) == [a EXCEPT !.seek = TRUE]
\* audio_track_seek.  Only the decode thread reads the position (f_0x8b0): it is chosen
\* there, when the seek is handled.
SeekTo(a) == [a EXCEPT !.allEnded = FALSE, !.seek = TRUE]

-----------------------------------------------------------------------------
(* The decode thread.                                                      *)

\* The clip after c, in whatever list c is now.
After(ts, c) ==
    LET next == {x \in Ids : \E t \in Tracks, k \in 1 .. MaxIds - 1 :
                    k < Len(ts[t].list) /\ ts[t].list[k] = c /\ ts[t].list[k + 1] = x}
    IN IF next = {} THEN None ELSE CHOOSE x \in next : TRUE

\* audio_track_swap_to_next_clip of track t: what becomes of the track, and how it
\* went.  The next clip must be open already.
Swap(ts, cs, t, sought) ==
    LET tr == ts[t]
        next == After(ts, tr.cur)
    IN IF tr.list # <<>> /\ Last(tr.list) = tr.cur
       THEN [track |-> [tr EXCEPT !.ended = TRUE, !.cur = None], result |-> "ok"]
       ELSE IF next = None THEN [track |-> tr, result |-> "null"]
       ELSE IF cs[next].open /\ sought THEN [track |-> [tr EXCEPT !.cur = next], result |-> "ok"]
       ELSE [track |-> tr, result |-> "fails"]

\* audio_thread_p1 on track t: the first clip that does not end before the position.
Target(tr, p) ==
    LET ok == {k \in 1 .. Len(tr.list) : p <= clips[tr.list[k]].end}
    IN IF ok = {} THEN None ELSE tr.list[CHOOSE k \in ok : \A l \in ok : k <= l]

SoughtTrack(tr, p) ==
    LET c == Target(tr, p) IN [tr EXCEPT !.cur = c, !.ended = c = None]

\* audio_thread_p1: the tracks in turn, up to the one that fails (NTracks + 1: none),
\* whose clip may have been opened before (opened).
Sought(upTo, p, opened) ==
    LET seen == {t \in Reached(tracks, audio.count) : t < upTo}
        chosen == {Target(tracks[t], p) : t \in seen} \cup opened
    IN /\ tracks' = [t \in Tracks |-> IF t \in seen THEN SoughtTrack(tracks[t], p) ELSE tracks[t]]
       /\ clips' = [c \in Ids |-> [clips[c] EXCEPT !.open = @ \/ c \in chosen]]

\* Faulty: once there is a graph, a new serial is not looked at.
NeedsGraphOnChange(ts, a) == decode.rebuild \/ a.afChange \/ ~decode.built
\* check_audio_format_change: whether the filter graph has to be built anew.
NeedsGraph(ts, a) ==
    \/ decode.rebuild \/ a.afChange
    \/ a.serial # decode.local /\ Reached(ts, a.count) \cap Active(ts) # {}

\* reconfigure_audio_filter builds it when there is a current clip ...
Builds(ts, a) == NeedsGraph(ts, a) /\ Reached(ts, a.count) \cap Active(ts) # {}
\* ... and links every active track into it, counted or not.
LinksNothing(ts, a) == Builds(ts, a) /\ ~(Active(ts) \subseteq Reached(ts, a.count))

\* The rest of the way to p3, with the mutex.
Configure(ts, a) ==
    /\ graph' = IF Builds(ts, a) THEN <<>> ELSE graph
    /\ audio' = IF NeedsGraph(ts, a) THEN [a EXCEPT !.afChange = FALSE] ELSE a
    /\ decode' = [decode EXCEPT !.at = "loop", !.track = 1,
                                !.local = IF NeedsGraph(ts, a) THEN a.serial ELSE @,
                                !.built = @ \/ Builds(ts, a)]

\* A current clip that was freed.
Freed(t) == tracks[t].cur # None /\ clips[tracks[t].cur].freed
UsesFreed == \E t \in Reached(tracks, audio.count) : Freed(t)

\* audio_check_1: whether every track is at its end now.
AllEnded(ts) == Reached(ts, audio.count) \cap Active(ts) = {}

\* The top of the loop: the thread gets the mutex when there is something to do ...
Enters ==
    /\ decode.at = "top" /\ ~audio.abort /\ mutex = "free"
    /\ ~audio.allEnded /\ audio.count # 0

Enter ==
    /\ Enters /\ ~audio.seek
    /\ Configure(tracks, audio)
    /\ mutex' = "decode"
    /\ env' = [env EXCEPT !.gone = UsesFreed \/ LinksNothing(tracks, audio)]
    /\ UNCHANGED <<tracks, clips, queue, callback, app>>

\* ... and handles a seek: the queued frames are outdated (a new serial), and p1
\* seeks the tracks.
EnterSeek ==
    /\ Enters /\ audio.seek
    /\ \E p \in Positions : Sought(NTracks + 1, p, {})
    /\ LET a == [audio EXCEPT !.seek = FALSE, !.serial = @ + 1] IN
        /\ Configure(tracks', a)
        /\ env' = [env EXCEPT !.kept = @ \/ (graph' # <<>> /\ AllEnded(tracks')),
                              !.gone = UsesFreed \/ LinksNothing(tracks', a)]
    /\ mutex' = "decode"
    /\ UNCHANGED <<queue, callback, app>>

\* A file that cannot be opened, or sought in: the seek stays, and is tried again.
EnterSeekFails ==
    /\ Enters /\ audio.seek /\ env.events > 0
    /\ \E t \in Reached(tracks, audio.count), p \in Positions :
        /\ Target(tracks[t], p) # None
        /\ \E opened \in {{}, {Target(tracks[t], p)}} : Sought(t, p, opened)
    /\ audio' = [audio EXCEPT !.serial = @ + 1]
    /\ env' = [env EXCEPT !.events = @ - 1, !.gone = UsesFreed]
    /\ UNCHANGED <<mutex, graph, queue, decode, callback, app>>

\* Faulty: a thread that waits at the top of its loop does not look at the end.
ExitWhenBusy ==
    /\ decode.at = "top" /\ audio.abort /\ mutex = "free" /\ ~audio.allEnded /\ audio.count # 0
    /\ decode' = [decode EXCEPT !.at = "done"]
    /\ UNCHANGED <<tracks, clips, audio, mutex, graph, queue, callback, app, env>>

\* The thread ends at the top of its loop, waiting there or not.
Exit ==
    /\ decode.at = "top" /\ audio.abort /\ mutex = "free"
    /\ decode' = [decode EXCEPT !.at = "done"]
    /\ UNCHANGED <<tracks, clips, audio, mutex, graph, queue, callback, app, env>>

\* The end of a pass (p3 returns -1): the graph is to be built anew.
PassOver == decode' = [decode EXCEPT !.at = "top", !.track = 1, !.rebuild = TRUE]
Unlock == mutex' = IF mutex = "decode" THEN "free" ELSE mutex

\* p3 looks for a seek and for the end before every track; after the last the mixer
\* gives what it has.
ToFeed == {t \in Active(tracks) : decode.track <= t}

Loop ==
    /\ decode.at = "loop"
    /\ \/ audio.seek /\ PassOver /\ Unlock
       \/ ~audio.seek /\ audio.abort /\ decode' = [decode EXCEPT !.at = "done"] /\ Unlock
       \/ /\ ~audio.seek /\ ~audio.abort /\ ToFeed # {} /\ UNCHANGED mutex
          /\ decode' = [decode EXCEPT !.at = "feed", !.track = CHOOSE t \in ToFeed : \A u \in ToFeed : t <= u]
       \/ /\ ~audio.seek /\ ~audio.abort /\ ToFeed = {} /\ Unlock
          /\ decode' = [decode EXCEPT !.at = "drain", !.track = 1]
    /\ UNCHANGED <<tracks, clips, audio, graph, queue, callback, app, env>>

Feeding == decode.at = "feed" /\ tracks[decode.track].cur # None /\ ~Freed(decode.track)

\* A frame of the track's current clip goes to the mixer, which then has one or two more.
Feed ==
    /\ Feeding
    /\ \E k \in 1 .. 2 :
        /\ env.frames + k <= MaxFrames
        /\ graph' = graph \o [i \in 1 .. k |-> [n |-> env.frames + i, mixed |-> audio.serial]]
        /\ env' = [env EXCEPT !.frames = @ + k]
    /\ decode' = [decode EXCEPT !.at = "loop", !.track = @ + 1]
    /\ UNCHANGED <<tracks, clips, audio, mutex, queue, callback, app>>

\* The clip has no more frames: on to the next one, and the pass is over ...
ClipEnds ==
    /\ Feeding
    /\ \E sought \in BOOLEAN :
        LET swap == Swap(tracks, clips, decode.track, sought) IN
        /\ sought \/ env.events > 0
        /\ swap.result = "ok"
        /\ tracks' = [tracks EXCEPT ![decode.track] = swap.track]
        /\ audio' = IF swap.track.ended THEN [audio EXCEPT !.allEnded = AllEnded(tracks')] ELSE audio
        /\ env' = [env EXCEPT !.late = @ \/ (audio'.allEnded /\ audio.seek)]
    /\ PassOver /\ Unlock
    /\ UNCHANGED <<clips, graph, queue, callback, app>>

\* ... or there is no going on: the mutex is given up, and the track tried again.
ClipEndsFailing ==
    /\ Feeding
    /\ \E sought \in BOOLEAN :
        /\ sought \/ env.events > 0
        /\ Swap(tracks, clips, decode.track, sought).result = "fails"
        /\ env' = IF sought THEN env ELSE [env EXCEPT !.events = @ - 1]
    /\ decode' = [decode EXCEPT !.at = "loop"]
    /\ Unlock
    /\ UNCHANGED <<tracks, clips, audio, graph, queue, callback, app>>

\* The track lost its clip, or the clip after it, to an edit: a null or freed pointer.
FeedNothing ==
    /\ decode.at = "feed"
    /\ Feeding => Swap(tracks, clips, decode.track, TRUE).result = "null"
    /\ env' = [env EXCEPT !.gone = TRUE]
    /\ UNCHANGED <<tracks, clips, audio, mutex, graph, queue, decode, callback, app>>

\* Outside of the mutex the frames go from the mixer to the queue.  A frame that
\* meets a seek is lost.  Before the first graph there is nothing to take from.
Drain ==
    /\ decode.at = "drain"
    /\ IF ~decode.built THEN PassOver /\ UNCHANGED graph
       ELSE IF graph = <<>>
       THEN decode' = [decode EXCEPT !.at = "drained"] /\ UNCHANGED graph
       ELSE /\ graph' = Tail(graph)
            /\ decode' = IF audio.seek THEN [decode EXCEPT !.at = "drained"]
                         ELSE [decode EXCEPT !.at = "room", !.frame = Head(graph)]
    /\ UNCHANGED <<tracks, clips, audio, mutex, queue, callback, app, env>>

\* frame_queue_peek_writable waits for room; only the end of the queue cuts it short.
Room ==
    /\ decode.at = "room"
    /\ queue.size < QueueSize \/ audio.queueAbort
    /\ decode' = IF audio.queueAbort THEN [decode EXCEPT !.at = "drain", !.frame = NoSound]
                 ELSE [decode EXCEPT !.at = "push", !.slot = queue.windex]
    /\ UNCHANGED <<tracks, clips, audio, mutex, graph, queue, callback, app, env>>

Push ==
    /\ decode.at = "push"
    /\ queue' = QueuePush(queue, decode.slot, [n |-> decode.frame.n, serial |-> audio.serial,
                                               mixed |-> decode.frame.mixed, full |-> TRUE])
    /\ decode' = [decode EXCEPT !.at = "drain", !.frame = NoSound, !.slot = 0]
    /\ env' = [env EXCEPT !.astray = @ \/ decode.slot # (queue.rindex + queue.size) % QueueSize]
    /\ UNCHANGED <<tracks, clips, audio, mutex, graph, callback, app>>

\* With an edit under way the thread waits for a signal, which it may have missed.
Drained ==
    /\ decode.at = "drained"
    /\ decode' = IF audio.processing THEN [decode EXCEPT !.at = "dozing"]
                 ELSE [decode EXCEPT !.at = "top", !.rebuild = FALSE]
    /\ UNCHANGED <<tracks, clips, audio, mutex, graph, queue, callback, app, env>>

Doze ==
    /\ decode.at = "dozing"
    /\ decode' = [decode EXCEPT !.at = "asleep"]
    /\ UNCHANGED <<tracks, clips, audio, mutex, graph, queue, callback, app, env>>

DecodeStep ==
    \/ Enter \/ EnterSeek \/ EnterSeekFails \/ Exit \/ Loop \/ Feed \/ ClipEnds \/ ClipEndsFailing \/ FeedNothing
    \/ Drain \/ Room \/ Push \/ Drained \/ Doze

-----------------------------------------------------------------------------
(* The audio device's callback.                                            *)

\* The device calls while it is open and not paused.  With no clip in play, during a
\* step or before the video has started (audio.held) nothing is taken.
Call ==
    /\ callback.at = "idle" /\ ~audio.closed /\ ~audio.paused /\ ~audio.held
    /\ callback' = [callback EXCEPT !.at = "wait"]
    /\ UNCHANGED <<tracks, clips, audio, mutex, graph, queue, decode, app, env>>

\* frame_queue_peek_readable waits for a frame that was not shown, whatever comes in
\* the meantime; only the end of the queue cuts it short.
Take ==
    /\ callback.at = "wait"
    /\ audio.queueAbort \/ Remaining(queue) > 0
    /\ callback' = IF audio.queueAbort THEN [callback EXCEPT !.at = "idle", !.stale = FALSE]
                   ELSE [callback EXCEPT !.at = "got", !.slot = Readable(queue)]
    /\ UNCHANGED <<tracks, clips, audio, mutex, graph, queue, decode, app, env>>

\* A frame of an old serial is passed over, and the callback stays silent; so it does
\* while a seek waits.
Sounds ==
    LET f == queue.slot[callback.slot] IN f.serial = audio.serial /\ f.full /\ ~callback.stale /\ ~audio.seek

\* The call goes on after an old frame, and where it has more to fill and is not paused.
GoesOn(f) == IF f.serial # audio.serial THEN {"wait"} ELSE IF audio.paused THEN {"idle"} ELSE {"wait", "idle"}

Play ==
    /\ callback.at = "got"
    /\ LET f == queue.slot[callback.slot] IN
        \E at \in GoesOn(f) :
            callback' = [callback EXCEPT !.at = at, !.slot = 0, !.stale = f.serial # audio.serial,
                                         !.last = IF Sounds THEN f.n ELSE @]
    /\ queue' = QueueNext(queue)
    /\ UNCHANGED <<tracks, clips, audio, mutex, graph, decode, app, env>>

CallbackStep == Call \/ Take \/ Play

-----------------------------------------------------------------------------
(* The application and the message loop.                                   *)

Edits == [op : {"add"}, t : Tracks, i : 0 .. MaxIds, u : {1}, j : {0}, end : {MaxPos - 1}]
    \cup [op : {"cut"}, t : Tracks, i : 0 .. MaxIds, u : {1}, j : {0}, end : {MaxPos - 1}]
    \cup [op : {"delete"}, t : Tracks, i : 0 .. MaxIds, u : {1}, j : {0}, end : {0}]
    \cup [op : {"deleteTrack"}, t : Tracks, i : {0}, u : {1}, j : {0}, end : {0}]
    \cup [op : {"deleteAll"}, t : {1}, i : {0}, u : {1}, j : {0}, end : {0}]
    \cup [op : {"exchange"}, t : Tracks, i : 0 .. MaxIds, u : Tracks, j : 0 .. MaxIds, end : {0}]
\* No index beyond the first that is refused: the one after it makes a delete read through
\* a null pointer (ff_audio.c:189-196).
InReach(e) ==
    /\ e.i <= Len(tracks[e.t].list) + (IF e.op = "add" THEN 1 ELSE 0)
    /\ e.op = "exchange" => e.i < Len(tracks[e.t].list) /\ e.j <= Len(tracks[e.u].list) + (IF e.u = e.t THEN 0 ELSE 1)

\* An edit announces itself (f_processing, and frame_queue_write_break, which sets
\* windex) before it waits for the mutex; setting a volume or a fade does not.  Nobody
\* else changes the lists, so which edit it is is chosen when it has the mutex.
Begin ==
    /\ app = "none" /\ env.events > 0 /\ ~audio.abort
    /\ app' \in {"edit", "volume"}
    /\ IF app' = "volume" THEN UNCHANGED <<audio, queue>>
       ELSE /\ audio' = [audio EXCEPT !.processing = TRUE]
            /\ queue' = [queue EXCEPT !.windex = 1]
    /\ env' = [env EXCEPT !.events = @ - 1]
    /\ UNCHANGED <<tracks, clips, mutex, graph, decode, callback>>

\* audio_track_op_delete and _remove: clip i of track t leaves it; when it is the
\* current one the track goes on to the next clip, if it can (sought).
Without(t, i, sought) ==
    LET c == tracks[t].list[i + 1]
        tr == IF tracks[t].cur = c THEN Swap(tracks, clips, t, sought).track ELSE tracks[t]
        rest == RemoveAt(tr.list, i + 1)
    IN IF rest = <<>> THEN [list |-> rest, cur |-> None, ended |-> TRUE] ELSE [tr EXCEPT !.list = rest]

\* Going on to the next clip uses a clip that is not there.
WithoutBad(t, i) ==
    tracks[t].cur = tracks[t].list[i + 1] /\ Swap(tracks, clips, t, TRUE).result = "null"

\* Faulty: the first clip of a track does not reset it.
WithFirst(tr, i, c) == [tr EXCEPT !.list = InsertAt(@, i + 1, c)]
\* audio_track_op_add and what its callers do for the first clip of a track.
With(tr, i, c) ==
    IF tr.list = <<>> THEN [list |-> <<c>>, cur |-> None, ended |-> TRUE]
    ELSE [tr EXCEPT !.list = InsertAt(@, i + 1, c)]

\* The end of every edit: unbreak, processing, signal; with a seek to where the player
\* is (adjust_time_track) or without.
Done(a, seeks) ==
    /\ audio' = [(IF seeks THEN SeekTo(a) ELSE a) EXCEPT !.processing = FALSE]
    /\ queue' = [queue EXCEPT !.windex = 0]
    /\ decode' = Woken(decode)
    /\ app' = "none"

Refused == Done(audio, FALSE) /\ UNCHANGED <<tracks, clips, env>>

Add(e) ==
    /\ e.op = "add" /\ env.ids < MaxIds
    /\ IF e.i > Len(tracks[e.t].list) THEN Refused
       ELSE /\ tracks' = [tracks EXCEPT ![e.t] = With(@, e.i, env.ids)]
            /\ clips' = [clips EXCEPT ![env.ids].end = e.end]
            /\ env' = [env EXCEPT !.ids = @ + 1]
            /\ Done(IF tracks[e.t].list = <<>> THEN [audio EXCEPT !.count = @ + 1] ELSE audio, TRUE)

Cut(e) ==
    /\ e.op = "cut"
    /\ IF e.i >= Len(tracks[e.t].list) THEN Refused
       ELSE /\ clips' = [clips EXCEPT ![tracks[e.t].list[e.i + 1]].end = e.end]
            /\ Done(audio, TRUE)
            /\ UNCHANGED <<tracks, env>>

Delete(e) ==
    /\ e.op = "delete"
    /\ IF e.i >= Len(tracks[e.t].list) THEN Refused
       ELSE /\ \E sought \in BOOLEAN : tracks' = [tracks EXCEPT ![e.t] = Without(e.t, e.i, sought)]
            /\ clips' = [clips EXCEPT ![tracks[e.t].list[e.i + 1]].freed = TRUE]
            /\ env' = [env EXCEPT !.gone = WithoutBad(e.t, e.i)]
            /\ Done(IF tracks'[e.t].list = <<>> THEN [audio EXCEPT !.count = @ - 1, !.afChange = TRUE] ELSE audio,
                    TRUE)

\* reset_track
Emptied == [list |-> <<>>, cur |-> None, ended |-> TRUE]
FreedOf(ts) == [c \in Ids |-> [clips[c] EXCEPT !.freed = @ \/ \E t \in ts : Contains(tracks[t].list, c)]]

\* A track that is empty is counted off as well.
DeleteTrack(e) ==
    /\ e.op = "deleteTrack"
    /\ tracks' = [tracks EXCEPT ![e.t] = Emptied]
    /\ clips' = FreedOf({e.t})
    /\ env' = [env EXCEPT !.drift = @ \/ (tracks[e.t].list = <<>> /\ audio.count > 0)]
    /\ Done(IF audio.count < 1 THEN [audio EXCEPT !.allEnded = TRUE]
            ELSE [audio EXCEPT !.afChange = TRUE, !.count = @ - 1], FALSE)

DeleteAll(e) ==
    /\ e.op = "deleteAll"
    /\ tracks' = [t \in Tracks |-> Emptied]
    /\ clips' = FreedOf(Tracks)
    /\ Done([audio EXCEPT !.count = 0, !.allEnded = TRUE], FALSE)
    /\ UNCHANGED env

\* ffp_audio_track_op_exchange: the clip moves, or is lost when its new place is not
\* there.
Exchange(e) ==
    \E sought \in BOOLEAN :
    LET c == tracks[e.t].list[e.i + 1]
        old == [tracks EXCEPT ![e.t] = Without(e.t, e.i, sought)]
        fits == e.j <= Len(old[e.u].list)
        new == IF fits THEN [old EXCEPT ![e.u] = With(@, e.j, c)] ELSE old
        Left == IF old[e.t].list = <<>> THEN 1 ELSE 0
        Joined == IF fits /\ old[e.u].list = <<>> THEN 1 ELSE 0
    IN /\ e.op = "exchange"
       /\ tracks' = new
       /\ env' = [env EXCEPT !.gone = WithoutBad(e.t, e.i)]
       /\ Done([audio EXCEPT !.count = @ - Left + Joined], TRUE)
       /\ UNCHANGED clips

Edit ==
    /\ app = "edit" /\ mutex = "free"
    /\ \E e \in Edits :
        /\ InReach(e)
        /\ Add(e) \/ Cut(e) \/ Delete(e) \/ DeleteTrack(e) \/ DeleteAll(e) \/ Exchange(e)
    /\ UNCHANGED <<mutex, graph, callback>>

\* ffp_audio_track_set_volume, ffp_audio_track_fade_in_fade_out: the queue is emptied
\* one frame at a time, beside the callback, and then comes a seek.
Volume ==
    /\ app = "volume"
    /\ IF Remaining(queue) > 0
       THEN /\ queue' = QueueNext(queue)
            /\ env' = [env EXCEPT !.astray = @ \/ callback.at = "got"]
            /\ UNCHANGED <<audio, decode, app>>
       ELSE /\ audio' = SeekTo(audio)
            /\ decode' = Woken(decode) /\ app' = "none" /\ UNCHANGED <<queue, env>>
    /\ UNCHANGED <<tracks, clips, mutex, graph, callback>>

\* ffp_audio_seek_to
Seek ==
    /\ env.seeks > 0 /\ ~audio.abort
    /\ audio' = SeekTo(audio)
    /\ decode' = Woken(decode)
    /\ env' = [env EXCEPT !.seeks = @ - 1]
    /\ UNCHANGED <<tracks, clips, mutex, graph, queue, callback, app>>

\* stream_toggle_pause2_l
Pause ==
    /\ env.events > 0 /\ env' = [env EXCEPT !.events = @ - 1]
    /\ audio' = [audio EXCEPT !.paused = ~@]
    /\ UNCHANGED <<tracks, clips, mutex, graph, queue, decode, callback, app>>

\* A step un-pauses the device and holds the callback (step_to_next_frame2_l); so do, for a
\* time, a clip that is not in play and a video that has not started ...
Hold ==
    /\ ~audio.held /\ env.events > 0
    /\ env' = [env EXCEPT !.events = @ - 1]
    /\ \E step \in BOOLEAN : audio' = [audio EXCEPT !.held = TRUE, !.paused = @ /\ ~step]
    /\ UNCHANGED <<tracks, clips, mutex, graph, queue, decode, callback, app>>

\* ... until the refresh thread lets go, if it does.
Release ==
    /\ audio.held
    /\ audio' = [audio EXCEPT !.held = FALSE]
    /\ UNCHANGED <<tracks, clips, mutex, graph, queue, decode, callback, app, env>>

\* ffp_wait_stop_l: the threads are told, and the refresh thread waited for ...
Stop ==
    /\ ~audio.abort /\ app = "none" /\ env.events > 0
    /\ env' = [env EXCEPT !.events = @ - 1]
    /\ audio' = [audio EXCEPT !.abort = TRUE]
    /\ decode' = Woken(decode)
    /\ UNCHANGED <<tracks, clips, mutex, graph, queue, callback, app>>

\* ... then audio_track_op_close tells them again and ends the queue ...
Close ==
    /\ audio.abort /\ ~audio.queueAbort
    /\ audio' = [audio EXCEPT !.queueAbort = TRUE]
    /\ decode' = Woken(decode)
    /\ UNCHANGED <<tracks, clips, mutex, graph, queue, callback, app, env>>

\* ... and when the decode thread has ended, closes the device.
Closed ==
    /\ audio.queueAbort /\ ~audio.closed /\ decode.at = "done"
    /\ audio' = [audio EXCEPT !.closed = TRUE]
    /\ UNCHANGED <<tracks, clips, mutex, graph, queue, decode, callback, app, env>>

AppStep == Begin \/ Edit \/ Volume \/ Pause \/ Hold \/ Release \/ Stop \/ Close \/ Closed

Next == ~env.gone /\ (DecodeStep \/ CallbackStep \/ AppStep \/ Seek)

Spec == Init /\ [][Next]_vars

\* A thread that can go on does; the application need not call, seek or stop, but ends
\* what it began.
FairSpec ==
    /\ Spec
    /\ WF_vars(~env.gone /\ DecodeStep) /\ WF_vars(~env.gone /\ CallbackStep)
    /\ SF_vars(~env.gone /\ Edit) /\ WF_vars(~env.gone /\ (Volume \/ Close \/ Closed))

-----------------------------------------------------------------------------
(* Properties.                                                             *)

TypeOK ==
    /\ tracks \in [Tracks -> [list : Seq(Ids), cur : Ids \cup {None}, ended : BOOLEAN]]
    /\ clips \in [Ids -> [open : BOOLEAN, end : 0 .. MaxPos, freed : BOOLEAN]]
    /\ mutex \in {"free", "decode"} /\ Len(graph) <= MaxFrames
    /\ queue.windex \in Slots /\ queue.rindex \in Slots /\ queue.size <= QueueSize
    /\ decode.at \in {"top", "loop", "feed", "drain", "room", "push", "drained", "dozing", "asleep", "done"}

\* The clips of the tracks are distinct and not freed; a track that has clips has a
\* current one, open, exactly when it is not at its end; and the count that every loop
\* over the tracks stops at (`so track co file', ff_ffplay_def.h:660) is the number of
\* tracks with clips, unless an empty track was deleted (hazard ff_ffplay.c:8925).
TracksInStep ==
    /\ TypeOK
    /\ \A t \in Tracks : IsInjective(tracks[t].list) /\ \A k \in 1 .. Len(tracks[t].list) : ~clips[tracks[t].list[k]].freed
    /\ \A t, u \in Tracks : t # u => ToSet(tracks[t].list) \cap ToSet(tracks[u].list) = {}
    /\ \A t \in NonEmpty(tracks) :
        /\ tracks[t].ended <=> tracks[t].cur = None
        /\ tracks[t].cur # None => clips[tracks[t].cur].open
    /\ ~env.drift => audio.count = Cardinality(NonEmpty(tracks))

\* A frame queued under a serial was mixed under it: no sound from before a seek comes
\* out after it, though frames wait in the mixer and in the queue while the seek is
\* made.  (Excepted: a seek past every clip of the counted tracks, which leaves the
\* mixer as it is.)
NoOldSound ==
    ~env.kept => \A s \in Slots : queue.slot[s].full => queue.slot[s].mixed = queue.slot[s].serial

\* Frames are played in the order they were mixed in, each at most once.  (Excepted:
\* an edit has moved windex and a frame went to another slot than the next, or a volume
\* call has emptied the queue under the callback; hazards ff_ffplay.c:971 and 9010.)
PlaysInOrder ==
    [][callback.at = "got" /\ callback'.at # "got" /\ Sounds /\ ~env.astray =>
        queue.slot[callback.slot].n > callback.last]_vars

\* A seek is handled, unless the device stays silent for ever (paused, or the callback held
\* by a step that no picture ends, hazard ff_ffplay.c:5641: the decode thread then
\* waits at 864 for room in the queue), the tracks are gone, the player stops, the thread
\* missed the signal it sleeps for, or the last clip ended at the moment of the seek
\* (hazards ff_ffplay.c:3982 and 3361).
SeekHandled ==
    \/ <>[](audio.paused \/ audio.held)
    \/ audio.seek ~> \/ ~audio.seek \/ audio.count <= 0 \/ audio.abort
                     \/ decode.at = "asleep" \/ env.late \/ env.gone

\* A player that is stopped gets rid of its decode thread.
StopReturns == audio.abort ~> audio.closed \/ decode.at = "asleep" \/ env.gone
=============================================================================
