------------------------------ MODULE MediaPlayer ------------------------------
(***************************************************************************)
(* One IjkMediaPlayer (ijkplayer.c): its state machine, its reference      *)
(* count, its message queue and the threads around it.                     *)
(*                                                                         *)
(*   callers    Java threads in a native method of ijkplayer_jni.c         *)
(*   loops      message loops, one started by every prepare_async          *)
(*   engine     the threads of ff_ffplay.c, as far as the player sees      *)
(*              them: a read thread that opens, seeks and fails, and       *)
(*              refresh threads that find the end of the last clip         *)
(*                                                                         *)
(* What runs under mp->mutex is one step, and so is every queue operation. *)
(* The notification PLAYBACK_STATE_CHANGED of each state change is left    *)
(* out: both loops ignore it.                                              *)
(***************************************************************************)
EXTENDS MsgQueueOps, FiniteSets

CONSTANTS Callers,          \* Java threads
          MaxLoop,          \* bound: calls of prepare_async that start a loop
          MaxCall,          \* bound: start, pause and seek calls
          MaxSwitch,        \* bound: ends of the last clip
          AudioOnlys,       \* values the option audio_only may have
          StartOnPrepareds  \* values the option start_on_prepared may have

ASSUME MediaPlayerAssumption ==
  /\ IsFiniteSet(Callers)
  /\ MaxLoop \in Nat /\ MaxCall \in Nat /\ MaxSwitch \in Nat
  /\ AudioOnlys \subseteq BOOLEAN /\ StartOnPrepareds \subseteq BOOLEAN

Loops == 1..MaxLoop

VARIABLES
  mp,        \* mp_state, restart, seek_req, ref_count, weak_thiz
  object,    \* "alive", "freed": whether the IjkMediaPlayer exists
  handle,    \* the Java object still has mNativeMediaPlayer
  q,         \* ffplayer->msg_queue
  loop,      \* per loop: where it is and the message it took
  nloop,     \* loops started; the last one is mp->msg_thread
  eng,       \* the engine's shared flags
  vout,      \* the refresh thread each prepare_async started
  caller,    \* where each Java thread is, and in which call
  calls,     \* start, pause and seek calls made
  switches,  \* ends of the last clip reached
  last       \* the start or pause accepted last, until a seek or stop

vars == <<mp, object, handle, q, loop, nloop, eng, vout, caller, calls,
          switches, last>>

States == {"IDLE", "INITIALIZED", "ASYNC_PREPARING", "PREPARED", "STARTED",
           "PAUSED", "COMPLETED", "STOPPED", "ERROR"}

Whats == {"FLUSH", "PREPARED", "COMPLETED", "ERROR", "SEEK_COMPLETE",
          "REQ_START", "REQ_PAUSE", "REQ_SEEK"}

Msg(what) == [what |-> what]

Ops == {"add", "prepare", "start", "pause", "stop", "seek", "release"}

Players == [state : States, restart : BOOLEAN, seek_req : BOOLEAN,
            ref_count : Nat, weak : BOOLEAN]

Engines == [stream : {"none", "opening", "resuming", "open", "dead", "aborted"},
            pause_req : BOOLEAN, paused : BOOLEAN, step : BOOLEAN,
            auto_resume : BOOLEAN, seek_req : BOOLEAN, accurate : BOOLEAN,
            pending : BOOLEAN, read : {"idle", "resume", "post"},
            completed : BOOLEAN, atEnd : BOOLEAN, abort : BOOLEAN,
            audio_only : BOOLEAN, start_on_prepared : BOOLEAN]

TypeOK ==
  /\ mp \in Players
  /\ object \in {"alive", "freed"}
  /\ handle \in BOOLEAN
  /\ q \in [msgs : Seq([what : Whats]), abort : BOOLEAN,
            waiting : SUBSET Loops, woken : SUBSET Loops]
  /\ loop \in [Loops -> [pc : {"none", "start", "get", "handle", "exit",
                               "shutdown", "join", "done"},
                         what : Whats]]
  /\ nloop \in 0..MaxLoop
  /\ eng \in Engines
  /\ vout \in [Loops -> {"none", "play", "ended", "done"}]
  /\ caller \in [Callers -> [pc : {"idle", "in", "closing", "closed", "out",
                                   "shutdown", "join"},
                             op : Ops]]
  /\ calls \in 0..MaxCall
  /\ switches \in 0..MaxSwitch
  /\ last \in {"none", "start", "pause"}

\* After native_setup: the Java object holds the only reference.  Options are
\* set before anything else happens.
Init ==
  /\ mp = [state |-> "IDLE", restart |-> FALSE, seek_req |-> FALSE,
           ref_count |-> 1, weak |-> TRUE]
  /\ object = "alive"
  /\ handle = TRUE
  /\ q = NewQueue
  /\ loop = [t \in Loops |-> [pc |-> "none", what |-> "FLUSH"]]
  /\ nloop = 0
  /\ \E audioOnly \in AudioOnlys, startOnPrepared \in StartOnPrepareds :
       eng = [stream |-> "none", pause_req |-> FALSE, paused |-> FALSE,
              step |-> FALSE, auto_resume |-> FALSE, seek_req |-> FALSE,
              accurate |-> FALSE, pending |-> FALSE, read |-> "idle",
              completed |-> FALSE, atEnd |-> FALSE, abort |-> FALSE,
              audio_only |-> audioOnly, start_on_prepared |-> startOnPrepared]
  /\ vout = [t \in Loops |-> "none"]
  /\ caller = [c \in Callers |-> [pc |-> "idle", op |-> "add"]]
  /\ calls = 0
  /\ switches = 0
  /\ last = "none"

-----------------------------------------------------------------------------
(* Shared pieces of ijkplayer.c and ff_ffplay.c *)

AudioOnly == eng.audio_only
StartOnPrepared == eng.start_on_prepared

\* ikjmp_chkst_start_l, ikjmp_chkst_pause_l and ikjmp_chkst_seek_l agree.
Playable == mp.state \in {"PREPARED", "STARTED", "PAUSED", "COMPLETED"}

\* A clip's VideoState exists (is_0x30).
Streaming(e) == e.stream # "none"

\* ffp_is_seeking, for the one clip in play.
IsSeeking(e) == Streaming(e) /\ (e.seek_req \/ e.pending)

\* ffp_is_paused_l
IsPaused(e) == Streaming(e) => e.paused

\* stream_update_pause2_l: a step under way keeps the clip running.
UpdatePause(e) == [e EXCEPT !.paused = e.pause_req /\ ~e.step]

\* toggle_pause2
TogglePause(e, on) == UpdatePause([e EXCEPT !.pause_req = on, !.auto_resume = ~on])

\* ffp_stop_l, without the queue: the read threads are told to end.
StopStreams(e) ==
  IF Streaming(e) /\ ~AudioOnly THEN [e EXCEPT !.stream = "aborted"] ELSE e

\* stream_open_video of a clip that is not in the pool: a new VideoState.
OpenClip(e) ==
  [e EXCEPT !.stream = "opening", !.pause_req = ~StartOnPrepared,
            !.paused = FALSE, !.step = FALSE, !.seek_req = FALSE,
            !.accurate = FALSE, !.read = "idle", !.completed = FALSE,
            !.atEnd = FALSE]

\* ffp_seek_to_l: while a seek is under way the next one has to wait.  Clearing
\* the first three flags beforehand (b2) replaces the seek under way.
Seek(e, b1, b2) ==
  LET f == IF b2 THEN [e EXCEPT !.seek_req = FALSE, !.step = FALSE, !.accurate = FALSE]
           ELSE e
  IN  IF f.seek_req \/ f.accurate \/ f.step
      THEN [f EXCEPT !.pending = TRUE]
      ELSE [f EXCEPT !.seek_req = TRUE, !.accurate = b1, !.pause_req = TRUE,
                     !.pending = FALSE]

\* ffp_remove_msg of the first, then of the second, then ffp_notify_msg1.
Replace(w, a, b, what) ==
  UNION {PutTo(z, Msg(what)) :
           z \in UNION {RemoveFrom(y, b) : y \in RemoveFrom(w, a)}}

\* ijkmp_start_player_l on the player as it is: start, or start when the
\* seek that is under way has ended.
StartPlayer(m) ==
  IF IsSeeking(eng) THEN /\ mp' = [m EXCEPT !.seek_req = TRUE]
                         /\ UNCHANGED eng
  ELSE IF Streaming(eng) THEN /\ mp' = [m EXCEPT !.state = "STARTED"]
                              /\ eng' = TogglePause(eng, FALSE)
  ELSE mp' = m /\ UNCHANGED eng

-----------------------------------------------------------------------------
(* Native methods *)

\* jni_get_media_player: a reference for the duration of the call.
Enter(c, op) ==
  /\ caller[c].pc = "idle"
  /\ handle
  /\ mp' = [mp EXCEPT !.ref_count = @ + 1]
  /\ caller' = [caller EXCEPT ![c] = [pc |-> "in", op |-> op]]
  /\ UNCHANGED <<object, handle, q, loop, nloop, eng, vout, calls, switches,
                 last>>

In(c, op) == caller[c] = [pc |-> "in", op |-> op]

Return(c) == caller' = [caller EXCEPT ![c].pc = "out"]

\* ijkmp_set_data_source, and ijkmp_add_data_source of a valid clip.
AddDataSource(c) ==
  /\ In(c, "add")
  /\ mp' = IF mp.state = "IDLE" THEN [mp EXCEPT !.state = "INITIALIZED"] ELSE mp
  /\ Return(c)
  /\ UNCHANGED <<object, handle, q, loop, nloop, eng, vout, calls, switches,
                 last>>

\* The state ijkmp_prepare_async_l checks.
PrepareFrom == IF AudioOnly THEN "INITIALIZED" ELSE mp.state

\* Faulty: the message loop gets no reference.
PrepareWithoutRef(c) ==
  /\ In(c, "prepare")
  /\ Return(c)
  /\ mp.state = "INITIALIZED"
  /\ nloop < MaxLoop
  /\ nloop' = nloop + 1
  /\ q' \in StartOf(q, Msg("FLUSH"))
  /\ loop' = [loop EXCEPT ![nloop'].pc = "start"]
  /\ mp' = [mp EXCEPT !.state = "ASYNC_PREPARING"]
  /\ eng' = OpenClip(eng)
  /\ vout' = [vout EXCEPT ![nloop'] = "play"]
  /\ UNCHANGED <<object, handle, calls, switches, last>>

\* ijkmp_prepare_async.  A clip that a stopped session left in the pool is
\* taken as it is: stream_open_video does not look at its abort_request.
PrepareAsync(c) ==
  /\ In(c, "prepare")
  /\ Return(c)
  /\ IF PrepareFrom \in {"INITIALIZED", "STOPPED"}
     THEN /\ nloop < MaxLoop
          /\ nloop' = nloop + 1
          /\ q' \in StartOf(q, Msg("FLUSH"))
          /\ loop' = [loop EXCEPT ![nloop'].pc = "start"]
          /\ \/ \* ffp_prepare_async2_l succeeds
                /\ mp' = [mp EXCEPT !.ref_count = @ + 1,
                                    !.state = IF AudioOnly THEN "PREPARED"
                                              ELSE "ASYNC_PREPARING"]
                /\ \/ ~AudioOnly /\ eng' = OpenClip(eng)
                   \/ ~AudioOnly /\ Streaming(eng) /\ UNCHANGED eng
                   \/ AudioOnly /\ eng' = [eng EXCEPT !.stream = "open"]
                /\ vout' = [vout EXCEPT ![nloop'] = "play"]
             \/ \* ffp_prepare_async2_l fails
                /\ mp' = [mp EXCEPT !.ref_count = @ + 1, !.state = "ERROR"]
                /\ UNCHANGED <<eng, vout>>
     ELSE /\ mp' = [mp EXCEPT !.state = PrepareFrom]
          /\ UNCHANGED <<nloop, q, loop, eng, vout>>
  /\ UNCHANGED <<object, handle, calls, switches, last>>

\* ijkmp_start
Start(c) ==
  /\ In(c, "start")
  /\ Return(c)
  /\ IF Playable
     THEN /\ calls < MaxCall
          /\ calls' = calls + 1
          /\ q' \in Replace(q, "REQ_START", "REQ_PAUSE", "REQ_START")
          /\ last' = "start"
     ELSE UNCHANGED <<calls, q, last>>
  /\ UNCHANGED <<mp, object, handle, loop, nloop, eng, vout, switches>>

\* ijkmp_pause
Pause(c) ==
  /\ In(c, "pause")
  /\ Return(c)
  /\ IF Playable
     THEN /\ calls < MaxCall
          /\ calls' = calls + 1
          /\ q' \in Replace(q, "REQ_START", "REQ_PAUSE", "REQ_PAUSE")
          /\ last' = "pause"
     ELSE UNCHANGED <<calls, q, last>>
  /\ UNCHANGED <<mp, object, handle, loop, nloop, eng, vout, switches>>

\* ijkmp_seek_to
SeekTo(c) ==
  /\ In(c, "seek")
  /\ Return(c)
  /\ IF Playable
     THEN /\ calls < MaxCall
          /\ calls' = calls + 1
          /\ q' \in UNION {PutTo(w, Msg("REQ_SEEK")) : w \in RemoveFrom(q, "REQ_SEEK")}
          /\ last' = "none"
     ELSE UNCHANGED <<calls, q, last>>
  /\ UNCHANGED <<mp, object, handle, loop, nloop, eng, vout, switches>>

\* ijkmp_stop
Stop(c) ==
  /\ In(c, "stop")
  /\ Return(c)
  /\ IF mp.state \in {"ASYNC_PREPARING", "STOPPED"} \/ Playable
     THEN /\ \E w \in RemoveFrom(q, "REQ_START") : \E z \in RemoveFrom(w, "REQ_PAUSE") :
               q' \in AbortOf(z)
          /\ eng' = StopStreams(eng)
          /\ mp' = [mp EXCEPT !.state = "STOPPED"]
          /\ last' = "none"
     ELSE UNCHANGED <<q, eng, mp, last>>
  /\ UNCHANGED <<object, handle, loop, nloop, vout, calls, switches>>

\* IjkMediaPlayer_release: ijkmp_shutdown, first ffp_stop_l and the abort flags
\* of ffp_wait_stop_l ...
ReleaseStop(c) ==
  /\ In(c, "release")
  /\ q' \in AbortOf(q)
  /\ eng' = [StopStreams(eng) EXCEPT !.abort = TRUE]
  /\ caller' = [caller EXCEPT ![c].pc = "closing"]
  /\ last' = "none"
  /\ UNCHANGED <<mp, object, handle, loop, nloop, vout, calls, switches>>

\* Faulty: the refresh thread is not joined.
VoutNotJoined == TRUE

\* ffp_wait_stop_l joins the refresh thread that was started last.
VoutJoined == nloop > 0 => vout[nloop] \in {"none", "done"}

\* ... then the streams are closed ...
ReleaseClose(c) ==
  /\ caller[c].pc = "closing"
  /\ VoutJoined
  /\ eng' = [eng EXCEPT !.stream = "none", !.seek_req = FALSE, !.read = "idle"]
  /\ q' \in AbortOf(q)
  /\ caller' = [caller EXCEPT ![c].pc = "closed"]
  /\ UNCHANGED <<mp, object, handle, loop, nloop, vout, calls, switches, last>>

\* ... then weak_thiz is cleared and the Java object's reference dropped.  The
\* caller holds another, so this one is not the last.
ReleaseHandle(c) ==
  /\ caller[c].pc = "closed"
  /\ handle' = FALSE
  /\ mp' = [mp EXCEPT !.weak = FALSE,
                      !.ref_count = IF handle THEN @ - 1 ELSE @]
  /\ Return(c)
  /\ UNCHANGED <<object, q, loop, nloop, eng, vout, calls, switches, last>>

\* Faulty: nobody destroys the player.
LeaveForGood(c) ==
  /\ caller[c].pc = "out"
  /\ mp' = [mp EXCEPT !.ref_count = @ - 1]
  /\ caller' = [caller EXCEPT ![c].pc = "idle"]
  /\ UNCHANGED <<object, handle, q, loop, nloop, eng, vout, calls, switches, last>>

\* ijkmp_dec_ref_p at the end of a native method.
Leave(c) ==
  /\ caller[c].pc = "out"
  /\ mp' = [mp EXCEPT !.ref_count = @ - 1]
  /\ caller' = [caller EXCEPT ![c].pc = IF mp'.ref_count = 0 THEN "shutdown" ELSE "idle"]
  /\ UNCHANGED <<object, handle, q, loop, nloop, eng, vout, calls, switches, last>>

\* The last reference is gone: ijkmp_shutdown again, then ffp_destroy.
Shutdown ==
  /\ VoutJoined
  /\ q' \in AbortOf(q)
  /\ eng' = [eng EXCEPT !.stream = "none", !.abort = TRUE, !.seek_req = FALSE,
                        !.read = "idle"]

CallerShutdown(c) ==
  /\ caller[c].pc = "shutdown"
  /\ Shutdown
  /\ caller' = [caller EXCEPT ![c].pc = "join"]
  /\ UNCHANGED <<mp, object, handle, loop, nloop, vout, calls, switches, last>>

\* ijkmp_destroy joins the message loop started last and frees the player.
CallerDestroy(c) ==
  /\ caller[c].pc = "join"
  /\ nloop > 0 => loop[nloop].pc = "done"
  /\ object' = "freed"
  /\ caller' = [caller EXCEPT ![c].pc = "idle"]
  /\ UNCHANGED <<mp, handle, q, loop, nloop, eng, vout, calls, switches, last>>

-----------------------------------------------------------------------------
(* The message loop: message_loop of ijkplayer_jni.c and ijkmp_get_msg *)

Goto(t, pc) == loop' = [loop EXCEPT ![t].pc = pc]

\* message_loop_n gives up at once if weak_thiz is already cleared.
LoopBegin(t) ==
  /\ loop[t].pc = "start"
  /\ Goto(t, IF mp.weak THEN "get" ELSE "exit")
  /\ UNCHANGED <<mp, object, handle, q, nloop, eng, vout, caller, calls, switches,
                 last>>

\* One turn of msg_queue_get(.., 1).
LoopGet(t) ==
  /\ loop[t].pc = "get"
  /\ t \notin q.waiting
  /\ q' = GetBy(q, t, TRUE)
  /\ loop' = CASE GetResult(q, TRUE) = "message" ->
                    [loop EXCEPT ![t] = [pc |-> "handle", what |-> Head(q.msgs).what]]
               [] GetResult(q, TRUE) = "aborted" -> [loop EXCEPT ![t].pc = "exit"]
               [] OTHER -> loop
  /\ UNCHANGED <<mp, object, handle, nloop, eng, vout, caller, calls, switches,
                 last>>

Handles(t, what) ==
  /\ loop[t] = [pc |-> "handle", what |-> what]
  /\ Goto(t, "get")
  /\ UNCHANGED <<object, handle, nloop, vout, caller, calls, switches>>

\* Messages ijkmp_get_msg passes on without looking at them; FFP_MSG_ERROR is
\* one of them.
HandleOther(t) ==
  /\ \E what \in {"FLUSH", "ERROR"} : Handles(t, what)
  /\ UNCHANGED <<mp, q, eng, last>>

HandlePrepared(t) ==
  /\ Handles(t, "PREPARED")
  /\ mp' = [mp EXCEPT !.state = IF IsPaused(eng) THEN "PAUSED"
                                ELSE IF @ = "ASYNC_PREPARING" THEN "PREPARED"
                                ELSE @]
  /\ UNCHANGED <<q, eng, last>>

\* With ffp_audio_only_complete.
HandleCompleted(t) ==
  /\ Handles(t, "COMPLETED")
  /\ mp' = [mp EXCEPT !.restart = TRUE, !.state = "COMPLETED"]
  /\ eng' = IF AudioOnly THEN [eng EXCEPT !.paused = TRUE] ELSE eng
  /\ UNCHANGED <<q, last>>

\* Faulty: the start that was put off is dropped.
SeekCompleteForgets(t) ==
  /\ Handles(t, "SEEK_COMPLETE")
  /\ IF eng.pending
     THEN /\ q' \in PutTo(q, Msg("REQ_SEEK"))
          /\ eng' = [eng EXCEPT !.pending = FALSE]
          /\ UNCHANGED mp
     ELSE /\ mp' = [mp EXCEPT !.seek_req = FALSE]
          /\ UNCHANGED <<q, eng>>
  /\ UNCHANGED last

HandleSeekComplete(t) ==
  /\ Handles(t, "SEEK_COMPLETE")
  /\ IF eng.pending
     THEN /\ q' \in PutTo(q, Msg("REQ_SEEK"))
          /\ eng' = [eng EXCEPT !.pending = FALSE]
          /\ UNCHANGED mp
     ELSE /\ IF ~IsSeeking(eng) /\ mp.seek_req
             THEN /\ q' \in PutTo(q, Msg("REQ_START"))
                  /\ mp' = [mp EXCEPT !.seek_req = FALSE]
             ELSE UNCHANGED <<q, mp>>
          /\ UNCHANGED eng
  /\ UNCHANGED last

HandleStart(t) ==
  /\ Handles(t, "REQ_START")
  /\ IF AudioOnly
     THEN /\ mp' = [mp EXCEPT !.restart = FALSE, !.state = "STARTED"]
          /\ eng' = [eng EXCEPT !.paused = FALSE,
                                !.atEnd = IF mp.restart THEN FALSE ELSE @]
     ELSE IF Playable THEN StartPlayer([mp EXCEPT !.restart = FALSE])
     ELSE UNCHANGED <<mp, eng>>
  /\ UNCHANGED <<q, last>>

HandlePause(t) ==
  /\ Handles(t, "REQ_PAUSE")
  /\ IF AudioOnly
     THEN /\ mp' = [mp EXCEPT !.state = "PAUSED"]
          /\ eng' = [eng EXCEPT !.paused = TRUE]
     ELSE IF Playable
     THEN /\ mp' = [mp EXCEPT !.seek_req = FALSE,
                              !.state = IF Streaming(eng) THEN "PAUSED" ELSE @]
          /\ eng' = IF Streaming(eng) THEN TogglePause(eng, TRUE) ELSE eng
     ELSE UNCHANGED <<mp, eng>>
  /\ UNCHANGED <<q, last>>

\* ffp_attach_to_clip and ffp_seek_to_l.  A clip that is not in the pool is
\* opened first, for which its predecessor's threads have to let go of it.
HandleSeek(t) ==
  /\ Handles(t, "REQ_SEEK")
  /\ UNCHANGED q
  /\ IF AudioOnly
     THEN /\ mp' = [mp EXCEPT !.restart = FALSE]
          /\ eng' = [eng EXCEPT !.atEnd = FALSE]
          /\ UNCHANGED last
     ELSE /\ UNCHANGED mp
          /\ \/ \E b1, b2 \in BOOLEAN :
                  /\ Streaming(eng)
                  /\ eng' = Seek(eng, b1, b2)
                  /\ UNCHANGED last
             \/ \E b1, b2 \in BOOLEAN :
                  /\ \A v \in Loops : vout[v] # "ended"
                  /\ eng.read = "idle"
                  /\ eng' = Seek(OpenClip(eng), b1, b2)
                  /\ UNCHANGED last
             \/ \* the clip cannot be attached
                /\ UNCHANGED eng
                /\ last' = "none"

\* Faulty: the loop that ends frees the player others still use.
ExitAndDestroy(t) ==
  /\ loop[t].pc = "exit"
  /\ mp' = [mp EXCEPT !.ref_count = @ - 1]
  /\ Goto(t, "shutdown")
  /\ UNCHANGED <<object, handle, q, nloop, eng, vout, caller, calls, switches, last>>

\* ijkmp_dec_ref_p at the end of message_loop.
LoopExit(t) ==
  /\ loop[t].pc = "exit"
  /\ mp' = [mp EXCEPT !.ref_count = @ - 1]
  /\ Goto(t, IF mp'.ref_count = 0 THEN "shutdown" ELSE "done")
  /\ UNCHANGED <<object, handle, q, nloop, eng, vout, caller, calls, switches, last>>

LoopShutdown(t) ==
  /\ loop[t].pc = "shutdown"
  /\ Shutdown
  /\ Goto(t, "join")
  /\ UNCHANGED <<mp, object, handle, nloop, vout, caller, calls, switches, last>>

\* The last reference was the loop's own: pthread_join of the thread itself
\* fails and the player is freed.
LoopDestroy(t) ==
  /\ loop[t].pc = "join"
  /\ nloop # t => loop[nloop].pc = "done"
  /\ object' = "freed"
  /\ Goto(t, "done")
  /\ UNCHANGED <<mp, handle, q, nloop, eng, vout, caller, calls, switches, last>>

-----------------------------------------------------------------------------
(* The engine's threads *)

EngineOnly == UNCHANGED <<mp, object, handle, loop, nloop, caller, calls, last>>

\* read_thread has opened the clip in play, and starts it if that was asked for.
PostPrepared ==
  /\ eng.stream = "opening"
  /\ eng' = [(IF StartOnPrepared THEN eng ELSE TogglePause(eng, TRUE))
             EXCEPT !.stream = "resuming"]
  /\ q' \in PutTo(q, Msg("PREPARED"))
  /\ EngineOnly /\ UNCHANGED <<vout, switches>>

PostResume ==
  /\ eng.stream = "resuming"
  /\ eng' = [eng EXCEPT !.stream = "open", !.auto_resume = FALSE]
  /\ q' \in IF eng.auto_resume THEN PutTo(q, Msg("REQ_START")) ELSE {q}
  /\ EngineOnly /\ UNCHANGED <<vout, switches>>

\* read_thread cannot open the clip, and ends.
OpenFails ==
  /\ eng.stream = "opening"
  /\ ~AudioOnly
  /\ eng' = [eng EXCEPT !.stream = "dead"]
  /\ q' \in PutTo(q, Msg("ERROR"))
  /\ EngineOnly /\ UNCHANGED <<vout, switches>>

\* The seek section of read_thread: seek_req is cleared ...
SeekDone ==
  /\ eng.stream = "open"
  /\ eng.read = "idle"
  /\ eng.seek_req
  /\ eng' = [eng EXCEPT !.seek_req = FALSE, !.read = "resume",
                        !.completed = FALSE, !.atEnd = FALSE]
  /\ EngineOnly /\ UNCHANGED <<q, vout, switches>>

\* ... then, under mutex_0x18, playing resumes if it was asked for, else one
\* frame is shown (step_to_next_frame2_l) ...
ResumeOrStep ==
  /\ eng.read = "resume"
  /\ eng' = [(IF eng.auto_resume
              THEN UpdatePause([eng EXCEPT !.pause_req = FALSE, !.auto_resume = FALSE])
              ELSE IF eng.pause_req THEN [eng EXCEPT !.paused = FALSE, !.step = TRUE]
              ELSE eng)
             EXCEPT !.read = "post"]
  /\ EngineOnly /\ UNCHANGED <<q, vout, switches>>

\* ... and only then the message is posted.
PostSeekComplete ==
  /\ eng.read = "post"
  /\ eng' = [eng EXCEPT !.read = "idle"]
  /\ q' \in PutTo(q, Msg("SEEK_COMPLETE"))
  /\ EngineOnly /\ UNCHANGED <<vout, switches>>

\* read_thread, when everything that was read has been played: the clip is
\* paused, and an error of reading is reported now.
ReadEnds ==
  /\ eng.stream = "open"
  /\ eng.read = "idle"
  /\ ~AudioOnly
  /\ ~eng.paused /\ ~eng.completed /\ ~eng.seek_req
  /\ switches < MaxSwitch
  /\ switches' = switches + 1
  /\ eng' = [TogglePause(eng, TRUE) EXCEPT !.auto_resume = FALSE, !.completed = TRUE]
  /\ \/ UNCHANGED q
     \/ q' \in PutTo(q, Msg("ERROR"))
  /\ EngineOnly /\ UNCHANGED vout

\* queue_picture2 at the first frame behind the target of an accurate seek.
TargetReached ==
  /\ eng.stream = "open"
  /\ eng.accurate /\ ~eng.seek_req
  /\ eng' = [eng EXCEPT !.accurate = FALSE]
  /\ EngineOnly /\ UNCHANGED <<q, vout, switches>>

\* Faulty: the clip goes on after the frame.
ShowStepRunsOn ==
  /\ eng.stream = "open"
  /\ eng.step /\ ~eng.accurate
  /\ eng' = [eng EXCEPT !.step = FALSE]
  /\ EngineOnly /\ UNCHANGED <<q, vout, switches>>

\* refresh_not_444 shows the frame that was stepped to, and the clip pauses.
\* The message it sends then goes to the address of the FFPlayer, not to its
\* queue: it is lost.
ShowStep ==
  /\ eng.stream = "open"
  /\ eng.step /\ ~eng.accurate
  /\ eng' = UpdatePause([eng EXCEPT !.step = FALSE])
  /\ EngineOnly /\ UNCHANGED <<q, vout, switches>>

\* refresh_not_444 finds the end of the clip: it plays past it, or a seek has
\* asked for a redraw while the last frame is still there.  It sleeps half a
\* second ...
EndReached(v) ==
  /\ vout[v] = "play"
  /\ eng.stream = "open" /\ ~eng.abort
  /\ eng.paused => eng.seek_req /\ eng.atEnd
  /\ switches < MaxSwitch
  /\ switches' = switches + 1
  /\ vout' = [vout EXCEPT ![v] = "ended"]
  /\ EngineOnly /\ UNCHANGED <<q, eng>>

\* ... before ffp_switch_to_next_clip, which finds that there is none.  In an
\* audio-only player it is the audio callback that posts the message.
Complete(v) ==
  /\ vout[v] = "ended"
  /\ vout' = [vout EXCEPT ![v] = "play"]
  /\ eng' = IF AudioOnly THEN [eng EXCEPT !.atEnd = TRUE]
            ELSE UpdatePause([eng EXCEPT !.pause_req = TRUE, !.auto_resume = FALSE,
                                         !.atEnd = TRUE])
  /\ q' \in PutTo(q, Msg("COMPLETED"))
  /\ EngineOnly /\ UNCHANGED switches

\* A refresh thread ends when the whole engine is aborted, not before.
VoutEnd(v) ==
  /\ vout[v] = "play"
  /\ eng.abort
  /\ vout' = [vout EXCEPT ![v] = "done"]
  /\ EngineOnly /\ UNCHANGED <<q, eng, switches>>

-----------------------------------------------------------------------------
Call(c) ==
  \/ AddDataSource(c) \/ PrepareAsync(c) \/ Start(c) \/ Pause(c) \/ SeekTo(c)
  \/ Stop(c)
  \/ ReleaseStop(c) \/ ReleaseClose(c) \/ ReleaseHandle(c)
  \/ Leave(c) \/ CallerShutdown(c) \/ CallerDestroy(c)

Handle(t) ==
  \/ HandleOther(t) \/ HandlePrepared(t) \/ HandleCompleted(t)
  \/ HandleSeekComplete(t) \/ HandleStart(t) \/ HandlePause(t) \/ HandleSeek(t)

LoopStep(t) ==
  \/ LoopBegin(t) \/ LoopGet(t) \/ Handle(t)
  \/ LoopExit(t) \/ LoopShutdown(t) \/ LoopDestroy(t)

ReadStep ==
  PostPrepared \/ PostResume \/ SeekDone \/ ResumeOrStep \/ PostSeekComplete

Next ==
  \/ \E c \in Callers : (\E op \in Ops : Enter(c, op)) \/ Call(c)
  \/ \E t \in Loops : LoopStep(t)
  \/ ReadStep
  \/ OpenFails
  \/ ReadEnds
  \/ TargetReached
  \/ ShowStep
  \/ \E v \in Loops : EndReached(v) \/ Complete(v) \/ VoutEnd(v)

Spec == Init /\ [][Next]_vars

\* Threads run; a call that has begun goes on.  Nothing makes the application
\* call, the clip end or reading fail.
FairSpec ==
  /\ Spec
  /\ \A c \in Callers : WF_vars(Call(c))
  /\ \A t \in Loops : WF_vars(LoopStep(t))
  /\ WF_vars(ReadStep)
  /\ \A v \in Loops : WF_vars(Complete(v) \/ VoutEnd(v))

-----------------------------------------------------------------------------
\* Who holds a reference: the Java object, every native method under way and
\* every message loop that has not ended.
Inside == {c \in Callers : caller[c].pc \in {"in", "closing", "closed", "out"}}
Running == {t \in Loops : loop[t].pc \in {"start", "get", "handle", "exit"}}
Holders == (IF handle THEN 1 ELSE 0) + Cardinality(Inside) + Cardinality(Running)

\* ref_count counts the holders: inc_ref and dec_ref are paired on every path of
\* ijkplayer_jni.c, message_loop and prepare_async.
RefsAccounted == mp.ref_count = Holders

\* The player is freed when, and only when, nobody can reach it any more: no
\* native method and no message loop runs on it (ijkmp_dec_ref).
NoUseAfterFree ==
  object = "freed" =>
    /\ ~handle
    /\ \A c \in Callers : caller[c].pc = "idle"
    /\ \A t \in Loops : loop[t].pc \in {"none", "done"}

\* No refresh thread outlives the player.  ffp_wait_stop_l joins the one that
\* was started last: true of a player that is prepared once.
VoutEnded ==
  object = "freed" /\ nloop <= 1 => \A v \in Loops : vout[v] \in {"none", "done"}

\* The player is not PAUSED while its clip runs, whatever the order in which
\* start, pause, seek and the engine's own resume reach it.
PausedIsPaused ==
  mp.state = "PAUSED" /\ eng.stream = "open" /\ eng.read = "idle" /\ ~eng.seek_req
    => eng.paused \/ eng.step

\* A release ends: the message loop returns from msg_queue_get, drops its
\* reference, and the player is freed by whoever drops the last one.  For a
\* player prepared once and used by one thread.
Released == ~handle /\ nloop <= 1 ~> object = "freed"

\* ijkmp_start is not forgotten, not even while a seek is under way: the player
\* starts, unless another call, the end of the clip, a stop or a failure comes
\* first, or a second seek is left pending (see StartAlwaysStarts of
\* MediaPlayerDoc).
StartHonoured ==
  last = "start" ~> \/ mp.state \in {"STARTED", "COMPLETED"}
                    \/ last # "start"
                    \/ eng.stream # "open"
                    \/ eng.pending \/ eng.completed
                    \/ q.abort
=============================================================================
