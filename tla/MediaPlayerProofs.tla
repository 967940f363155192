-------------------------- MODULE MediaPlayerProofs --------------------------
(***************************************************************************)
(* Proofs about MediaPlayer, for any number of Java threads, sessions and  *)
(* calls.                                                                  *)
(***************************************************************************)
EXTENDS MediaPlayer, FiniteSetTheorems, TLAPS

Messages == [what : Whats]

\* No loop is both asleep and awake in it.
QueueOK(w) ==
  /\ w \in [msgs : Seq(Messages), abort : BOOLEAN, waiting : SUBSET Loops, woken : SUBSET Loops]
  /\ w.waiting \cap w.woken = {}

-----------------------------------------------------------------------------
(* The pieces the actions are made of *)

\* The flags of the engine stay flags.
LEMMA EngineTypes ==
  ASSUME NEW e \in Engines
  PROVE  /\ UpdatePause(e) \in Engines
         /\ \A on \in BOOLEAN : TogglePause(e, on) \in Engines
         /\ StopStreams(e) \in Engines
         /\ \A b1, b2 \in BOOLEAN : Seek(e, b1, b2) \in Engines
<1>1. \A f \in Engines : UpdatePause(f) \in Engines
  BY DEF UpdatePause, Engines
<1>2. ASSUME NEW on \in BOOLEAN PROVE TogglePause(e, on) \in Engines
  <2>1. [e EXCEPT !.pause_req = on, !.auto_resume = ~on] \in Engines
    BY DEF Engines
  <2> QED
    BY <1>1, <2>1 DEF TogglePause
<1>3. StopStreams(e) \in Engines
  BY DEF StopStreams, Engines
<1>4. ASSUME NEW b1 \in BOOLEAN, NEW b2 \in BOOLEAN
      PROVE  Seek(e, b1, b2) \in Engines
  <2> DEFINE f == IF b2 THEN [e EXCEPT !.seek_req = FALSE, !.step = FALSE, !.accurate = FALSE]
                  ELSE e
  <2>0. [e EXCEPT !.seek_req = FALSE, !.step = FALSE, !.accurate = FALSE] \in Engines
    BY DEF Engines
  <2>1. f \in Engines
    BY <2>0
  <2>2. /\ [f EXCEPT !.pending = TRUE] \in Engines
        /\ [f EXCEPT !.seek_req = TRUE, !.accurate = b1, !.pause_req = TRUE,
                     !.pending = FALSE] \in Engines
    <3> HIDE DEF f
    <3> QED
      BY <2>1 DEF Engines
  <2> QED
    BY <2>2 DEF Seek
<1> QED
  BY <1>1, <1>2, <1>3, <1>4

LEMMA OpenClipType ==
  ASSUME eng \in Engines, NEW e \in Engines
  PROVE  OpenClip(e) \in Engines
<1>1. (~StartOnPrepared) \in BOOLEAN
  OBVIOUS
<1>2. ASSUME NEW b \in BOOLEAN
      PROVE  [e EXCEPT !.stream = "opening", !.pause_req = b,
                       !.paused = FALSE, !.step = FALSE, !.seek_req = FALSE,
                       !.accurate = FALSE, !.read = "idle", !.completed = FALSE,
                       !.atEnd = FALSE] \in Engines
  <2> DEFINE f == [e EXCEPT !.stream = "opening", !.pause_req = b, !.paused = FALSE]
             g == [f EXCEPT !.step = FALSE, !.seek_req = FALSE, !.accurate = FALSE]
             h == [g EXCEPT !.read = "idle", !.completed = FALSE, !.atEnd = FALSE]
  <2>1. f \in Engines
    BY DEF Engines
  <2>2. g \in Engines
    <3> HIDE DEF f
    <3> QED
      BY <2>1 DEF Engines
  <2>3. h \in Engines
    <3> HIDE DEF g
    <3> QED
      BY <2>2 DEF Engines
  <2> QED
    BY <2>3
<1> QED
  BY <1>1, <1>2 DEF OpenClip

\* A signal moves one loop, a put appends, a removal keeps some of the messages, a
\* turn of msg_queue_get takes the head: the queue stays well formed.
LEMMA QueueKept ==
  ASSUME NEW w, QueueOK(w)
  PROVE  /\ \A v \in Signal(w) : QueueOK(v)
         /\ \A m \in Messages : \A v \in PutTo(w, m) : QueueOK(v)
         /\ \A what : \A v \in RemoveFrom(w, what) : QueueOK(v)
         /\ \A t \in Loops \ w.waiting, block \in BOOLEAN : QueueOK(GetBy(w, t, block))
<1>1. ASSUME NEW v \in Signal(w) PROVE QueueOK(v)
  <2>1. CASE w.waiting = {}
    BY <1>1, <2>1 DEF Signal
  <2>2. CASE w.waiting # {}
    <3>1. PICK t \in w.waiting : v = [w EXCEPT !.waiting = @ \ {t}, !.woken = @ \cup {t}]
      BY <1>1, <2>2 DEF Signal
    <3> QED
      BY <3>1 DEF QueueOK
  <2> QED
    BY <2>1, <2>2
<1>2. ASSUME NEW m \in Messages, NEW v \in PutTo(w, m) PROVE QueueOK(v)
  <2>1. CASE w.abort
    BY <1>2, <2>1 DEF PutTo
  <2>2. CASE ~w.abort
    <3>1. PICK u \in Signal(w) : v = [u EXCEPT !.msgs = Append(@, m)]
      BY <1>2, <2>2 DEF PutTo
    <3>2. QueueOK(u) /\ Append(u.msgs, m) \in Seq(Messages)
      BY <1>1 DEF QueueOK
    <3> QED
      BY <3>1, <3>2 DEF QueueOK
  <2> QED
    BY <2>1, <2>2
<1>3. ASSUME NEW what, NEW v \in RemoveFrom(w, what) PROVE QueueOK(v)
  <2>1. CASE w.abort \/ w.msgs = <<>>
    BY <1>3, <2>1 DEF RemoveFrom
  <2>2. CASE ~(w.abort \/ w.msgs = <<>>)
    <3> DEFINE Other(m) == m.what # what
               kept == {i \in DOMAIN w.msgs : Other(w.msgs[i])}
    <3>1. PICK f \in Selections(w.msgs, Other) : v = [w EXCEPT !.msgs = [i \in DOMAIN f |-> w.msgs[f[i]]]]
      BY <1>3, <2>2 DEF RemoveFrom
    <3>2. PICK n \in 0..Len(w.msgs) : f \in [1..n -> kept]
      BY DEF Selections
    <3>3. w.msgs \in Seq(Messages) /\ n \in Nat
      BY DEF QueueOK
    <3>4. [i \in 1..n |-> w.msgs[f[i]]] \in Seq(Messages)
      BY <3>2, <3>3
    <3> QED
      BY <3>1, <3>2, <3>4 DEF QueueOK
  <2> QED
    BY <2>1, <2>2
<1>4. ASSUME NEW t \in Loops \ w.waiting, NEW block \in BOOLEAN PROVE QueueOK(GetBy(w, t, block))
  <2>1. w.msgs # <<>> => Tail(w.msgs) \in Seq(Messages)
    BY DEF QueueOK
  <2> QED
    BY <1>4, <2>1 DEF GetBy, GetResult, QueueOK
<1> QED BY <1>1, <1>2, <1>3, <1>4

\* ffp_remove_msg twice, then ffp_notify_msg1.
LEMMA QueueTypes ==
  ASSUME NEW w, QueueOK(w)
  PROVE  /\ \A what \in Whats : \A v \in PutTo(w, Msg(what)) : QueueOK(v)
         /\ \A v \in StartOf(w, Msg("FLUSH")) : QueueOK(v)
         /\ \A v \in AbortOf(w) : QueueOK(v)
         /\ \A what : \A v \in RemoveFrom(w, what) : QueueOK(v)
         /\ \A a, b : \A what \in Whats : \A v \in Replace(w, a, b, what) : QueueOK(v)
<1>m. \A what \in Whats : Msg(what) \in Messages
  BY DEF Msg, Messages
<1>1. ASSUME NEW u, QueueOK(u), NEW what \in Whats, NEW v \in PutTo(u, Msg(what))
      PROVE  QueueOK(v)
  BY <1>m, <1>1, QueueKept
<1>2. ASSUME NEW v \in StartOf(w, Msg("FLUSH")) PROVE QueueOK(v)
  <2>1. QueueOK([w EXCEPT !.abort = FALSE])
    BY DEF QueueOK
  <2>2. "FLUSH" \in Whats
    BY DEF Whats
  <2> QED
    BY <1>1, <1>2, <2>1, <2>2 DEF StartOf
<1>3. ASSUME NEW v \in AbortOf(w) PROVE QueueOK(v)
  <2>1. QueueOK([w EXCEPT !.abort = TRUE])
    BY DEF QueueOK
  <2> QED
    BY <1>3, <2>1, QueueKept DEF AbortOf
<1>4. ASSUME NEW u, QueueOK(u), NEW what, NEW v \in RemoveFrom(u, what)
      PROVE  QueueOK(v)
  BY <1>4, QueueKept
<1>5. ASSUME NEW a, NEW b, NEW what \in Whats, NEW v \in Replace(w, a, b, what)
      PROVE  QueueOK(v)
  <2>1. PICK y \in RemoveFrom(w, a) : \E z \in RemoveFrom(y, b) : v \in PutTo(z, Msg(what))
    BY <1>5 DEF Replace
  <2> QED
    BY <1>1, <1>4, <2>1
<1> QED
  BY <1>1, <1>2, <1>3, <1>4, <1>5
-----------------------------------------------------------------------------
(* Types *)

LoopPcs == {"none", "start", "get", "handle", "exit", "shutdown", "join", "done"}
CallerPcs == {"idle", "in", "closing", "closed", "out", "shutdown", "join"}
LoopStates == [Loops -> [pc : LoopPcs, what : Whats]]
CallerStates == [Callers -> [pc : CallerPcs, op : Ops]]

\* TypeOK, by parts, and no loop both asleep and awake.
TypeInv ==
  /\ mp \in Players
  /\ object \in {"alive", "freed"} /\ handle \in BOOLEAN
  /\ QueueOK(q)
  /\ loop \in LoopStates /\ nloop \in 0..MaxLoop
  /\ eng \in Engines
  /\ vout \in [Loops -> {"none", "play", "ended", "done"}]
  /\ caller \in CallerStates
  /\ calls \in 0..MaxCall /\ switches \in 0..MaxSwitch
  /\ last \in {"none", "start", "pause"}

LEMMA TypeParts == TypeInv <=> TypeOK /\ q.waiting \cap q.woken = {}
  BY DEF TypeInv, TypeOK, QueueOK, Messages, LoopStates,
         LoopPcs, CallerStates, CallerPcs

LEMMA TypeInit == Init => TypeInv
<1> SUFFICES ASSUME Init PROVE TypeInv
  OBVIOUS
<1>1. mp \in Players
  BY DEF Init, Players, States
<1>2. QueueOK(q)
  BY DEF Init, NewQueue, QueueOK
<1>3. loop \in LoopStates /\ caller \in CallerStates
  BY DEF Init, LoopStates, LoopPcs, CallerStates, CallerPcs, Whats, Ops
<1>4. eng \in Engines
  <2>1. PICK a \in BOOLEAN, b \in BOOLEAN :
          eng = [stream |-> "none", pause_req |-> FALSE, paused |-> FALSE,
                 step |-> FALSE, auto_resume |-> FALSE, seek_req |-> FALSE,
                 accurate |-> FALSE, pending |-> FALSE, read |-> "idle",
                 completed |-> FALSE, atEnd |-> FALSE, abort |-> FALSE,
                 audio_only |-> a, start_on_prepared |-> b]
    BY MediaPlayerAssumption DEF Init
  <2> QED
    BY <2>1 DEF Engines
<1> QED
  BY <1>1, <1>2, <1>3, <1>4, MediaPlayerAssumption DEF Init, TypeInv

\* Moving a program counter.
LEMMA LoopMoves ==
  ASSUME loop \in LoopStates, NEW t \in Loops
  PROVE  /\ \A pc \in LoopPcs : [loop EXCEPT ![t].pc = pc] \in LoopStates
         /\ \A what \in Whats :
              [loop EXCEPT ![t] = [pc |-> "handle", what |-> what]] \in LoopStates
  BY DEF LoopStates, LoopPcs

LEMMA CallerMoves ==
  ASSUME caller \in CallerStates, NEW c \in Callers
  PROVE  /\ \A pc \in CallerPcs : [caller EXCEPT ![c].pc = pc] \in CallerStates
         /\ \A op \in Ops :
              [caller EXCEPT ![c] = [pc |-> "in", op |-> op]] \in CallerStates
  BY DEF CallerStates, CallerPcs

\* Whoever holds a reference is counted.
LEMMA HoldersCounted ==
  ASSUME TypeInv, RefsAccounted
  PROVE  /\ IsFiniteSet(Inside) /\ IsFiniteSet(Running)
         /\ Cardinality(Inside) \in Nat /\ Cardinality(Running) \in Nat
         /\ handle => mp.ref_count >= 1
         /\ Inside # {} => mp.ref_count >= 1
         /\ Running # {} => mp.ref_count >= 1
         /\ mp.ref_count = 0 => ~handle /\ Inside = {} /\ Running = {}
<1>1. IsFiniteSet(Inside) /\ Cardinality(Inside) \in Nat
  BY FS_Subset, FS_CardinalityType, MediaPlayerAssumption DEF Inside
<1>2. IsFiniteSet(Running) /\ Cardinality(Running) \in Nat
  <2>1. IsFiniteSet(Loops)
    BY FS_Interval, MediaPlayerAssumption DEF Loops
  <2> QED
    BY <2>1, FS_Subset, FS_CardinalityType DEF Running
<1>3. /\ Inside # {} => Cardinality(Inside) # 0
      /\ Running # {} => Cardinality(Running) # 0
  BY <1>1, <1>2, FS_EmptySet
<1>4. mp.ref_count = (IF handle THEN 1 ELSE 0) + Cardinality(Inside) + Cardinality(Running)
  BY DEF RefsAccounted, Holders
<1>5. /\ handle => mp.ref_count = 1 + Cardinality(Inside) + Cardinality(Running)
      /\ ~handle => mp.ref_count = Cardinality(Inside) + Cardinality(Running)
  BY <1>1, <1>2, <1>4
<1> DEFINE m == Cardinality(Inside)
           n == Cardinality(Running)
<1>6. /\ m \in Nat /\ n \in Nat
      /\ handle => mp.ref_count = 1 + m + n
      /\ ~handle => mp.ref_count = m + n
  BY <1>1, <1>2, <1>5
<1>7. /\ handle => mp.ref_count >= 1
      /\ m # 0 => mp.ref_count >= 1
      /\ n # 0 => mp.ref_count >= 1
      /\ mp.ref_count = 0 => ~handle /\ m = 0 /\ n = 0
  <2> HIDE DEF m, n
  <2> QED
    BY <1>6
<1> QED
  BY <1>1, <1>2, <1>3, <1>7

\* A native method keeps the types.
LEMMA CallerTypes ==
  ASSUME TypeInv, RefsAccounted, NEW c \in Callers,
         \/ \E op \in Ops : Enter(c, op)
         \/ AddDataSource(c)
         \/ PrepareAsync(c)
         \/ Start(c)
         \/ Pause(c)
         \/ SeekTo(c)
         \/ Stop(c)
         \/ ReleaseStop(c)
         \/ ReleaseClose(c)
         \/ ReleaseHandle(c)
         \/ Leave(c)
         \/ CallerShutdown(c)
         \/ CallerDestroy(c)
  PROVE  TypeInv'
<1>0. /\ mp \in Players /\ QueueOK(q) /\ loop \in LoopStates /\ caller \in CallerStates
      /\ eng \in Engines /\ nloop \in 0..MaxLoop
  BY DEF TypeInv
<1>1. CASE \E op \in Ops : Enter(c, op)
  <2>1. mp' \in Players
    BY <1>0, <1>1 DEF Enter, Players
  <2>2. caller' \in CallerStates
    BY <1>0, <1>1, CallerMoves DEF Enter
  <2> QED
    BY <1>1, <2>1, <2>2 DEF Enter, TypeInv
<1>2. CASE AddDataSource(c)
  <2>1. mp' \in Players
    BY <1>0, <1>2 DEF AddDataSource, Players, States
  <2>2. caller' \in CallerStates
    BY <1>0, <1>2, CallerMoves DEF AddDataSource, Return, CallerPcs
  <2> QED
    BY <1>2, <2>1, <2>2 DEF AddDataSource, TypeInv
<1>3. CASE PrepareAsync(c)
  <2>1. caller' \in CallerStates
    BY <1>0, <1>3, CallerMoves DEF PrepareAsync, Return, CallerPcs
  <2>2. mp' \in Players
    <3>1. CASE PrepareFrom \in {"INITIALIZED", "STOPPED"}
      <4>1. \A n \in Nat, st \in States :
              [mp EXCEPT !.ref_count = n, !.state = st] \in Players
        BY <1>0 DEF Players
      <4>n. mp.ref_count + 1 \in Nat
        BY <1>0 DEF Players
      <4>2. (IF AudioOnly THEN "PREPARED" ELSE "ASYNC_PREPARING") \in States
            /\ "ERROR" \in States
        BY DEF States
      <4> QED
        BY <1>3, <3>1, <4>n, <4>1, <4>2 DEF PrepareAsync
    <3>2. CASE PrepareFrom \notin {"INITIALIZED", "STOPPED"}
      <4>1. PrepareFrom \in States
        BY <1>0 DEF PrepareFrom, Players, States
      <4> QED
        BY <1>0, <1>3, <3>2, <4>1 DEF PrepareAsync, Players
    <3> QED
      BY <3>1, <3>2
  <2>3. QueueOK(q')
    BY <1>0, <1>3, QueueTypes DEF PrepareAsync
  <2>4. loop' \in LoopStates /\ nloop' \in 0..MaxLoop
    <3>1. CASE nloop' = nloop + 1 /\ nloop < MaxLoop
               /\ loop' = [loop EXCEPT ![nloop'].pc = "start"]
      <4>1. nloop' \in Loops
        BY <1>0, <3>1, MediaPlayerAssumption DEF Loops
      <4>2. \A u \in Loops : [loop EXCEPT ![u].pc = "start"] \in LoopStates
        BY <1>0, LoopMoves DEF LoopPcs
      <4>3. nloop' \in 0..MaxLoop
        BY <4>1, MediaPlayerAssumption DEF Loops
      <4> QED
        BY <3>1, <4>1, <4>2, <4>3
    <3> QED
      BY <1>0, <1>3, <3>1 DEF PrepareAsync
  <2>5. eng' \in Engines
    <3>1. [eng EXCEPT !.stream = "open"] \in Engines
      BY <1>0 DEF Engines
    <3> QED
      BY <1>0, <1>3, <3>1, OpenClipType DEF PrepareAsync
  <2>6. vout' \in [Loops -> {"none", "play", "ended", "done"}]
    BY <1>3 DEF PrepareAsync, TypeInv
  <2> QED
    BY <1>3, <2>1, <2>2, <2>3, <2>4, <2>5, <2>6 DEF PrepareAsync, TypeInv
<1>4. CASE Start(c)
  <2>1. caller' \in CallerStates
    BY <1>0, <1>4, CallerMoves DEF Start, Return, CallerPcs
  <2>2. calls' \in 0..MaxCall /\ last' \in {"none", "start", "pause"}
    BY <1>0, <1>4, MediaPlayerAssumption DEF Start, TypeInv
  <2>3. QueueOK(q')
    BY <1>0, <1>4, QueueTypes DEF Start, Whats
  <2> QED
    BY <1>4, <2>1, <2>2, <2>3 DEF Start, TypeInv
<1>5. CASE Pause(c)
  <2>1. caller' \in CallerStates
    BY <1>0, <1>5, CallerMoves DEF Pause, Return, CallerPcs
  <2>2. calls' \in 0..MaxCall /\ last' \in {"none", "start", "pause"}
    BY <1>0, <1>5, MediaPlayerAssumption DEF Pause, TypeInv
  <2>3. QueueOK(q')
    BY <1>0, <1>5, QueueTypes DEF Pause, Whats
  <2> QED
    BY <1>5, <2>1, <2>2, <2>3 DEF Pause, TypeInv
<1>6. CASE SeekTo(c)
  <2>1. caller' \in CallerStates
    BY <1>0, <1>6, CallerMoves DEF SeekTo, Return, CallerPcs
  <2>2. calls' \in 0..MaxCall /\ last' \in {"none", "start", "pause"}
    BY <1>0, <1>6, MediaPlayerAssumption DEF SeekTo, TypeInv
  <2>3. QueueOK(q')
    <3>1. CASE Playable
      <4>1. PICK w \in RemoveFrom(q, "REQ_SEEK") : q' \in PutTo(w, Msg("REQ_SEEK"))
        BY <1>6, <3>1 DEF SeekTo
      <4>2. "REQ_SEEK" \in Whats
        BY DEF Whats
      <4> QED
        BY <1>0, <4>1, <4>2, QueueTypes
    <3> QED
      BY <1>0, <1>6, <3>1 DEF SeekTo
  <2> QED
    BY <1>6, <2>1, <2>2, <2>3 DEF SeekTo, TypeInv
<1>7. CASE Stop(c)
  <2>1. caller' \in CallerStates
    BY <1>0, <1>7, CallerMoves DEF Stop, Return, CallerPcs
  <2>2. QueueOK(q')
    BY <1>0, <1>7, QueueTypes DEF Stop
  <2>3. eng' \in Engines
    BY <1>0, <1>7, EngineTypes DEF Stop
  <2>4. mp' \in Players
    BY <1>0, <1>7 DEF Stop, Players, States
  <2> QED
    BY <1>7, <2>1, <2>2, <2>3, <2>4 DEF Stop, TypeInv
<1>8. CASE ReleaseStop(c)
  <2>1. caller' \in CallerStates
    BY <1>0, <1>8, CallerMoves DEF ReleaseStop, CallerPcs
  <2>2. QueueOK(q')
    BY <1>0, <1>8, QueueTypes DEF ReleaseStop
  <2>3. eng' \in Engines
    <3>1. \A e \in Engines : [e EXCEPT !.abort = TRUE] \in Engines
      BY DEF Engines
    <3> QED
      BY <1>0, <1>8, <3>1, EngineTypes DEF ReleaseStop
  <2> QED
    BY <1>8, <2>1, <2>2, <2>3 DEF ReleaseStop, TypeInv
<1>9. CASE ReleaseClose(c)
  <2>1. caller' \in CallerStates
    BY <1>0, <1>9, CallerMoves DEF ReleaseClose, CallerPcs
  <2>2. QueueOK(q')
    BY <1>0, <1>9, QueueTypes DEF ReleaseClose
  <2>3. eng' \in Engines
    BY <1>0, <1>9 DEF ReleaseClose, Engines
  <2> QED
    BY <1>9, <2>1, <2>2, <2>3 DEF ReleaseClose, TypeInv
<1>10. CASE ReleaseHandle(c)
  <2>1. caller' \in CallerStates
    BY <1>0, <1>10, CallerMoves DEF ReleaseHandle, Return, CallerPcs
  <2>2. mp' \in Players
    <3>1. mp.ref_count \in Nat /\ (handle => mp.ref_count - 1 \in Nat)
      BY <1>0, HoldersCounted DEF Players
    <3> QED
      BY <1>0, <1>10, <3>1 DEF ReleaseHandle, Players
  <2> QED
    BY <1>10, <2>1, <2>2 DEF ReleaseHandle, TypeInv
<1>11. CASE Leave(c)
  <2>1. mp' \in Players
    <3>1. mp.ref_count - 1 \in Nat
      <4>1. c \in Inside
        BY <1>11 DEF Leave, Inside
      <4> QED
        BY <1>0, <4>1, HoldersCounted DEF Players
    <3> QED
      BY <1>0, <1>11, <3>1 DEF Leave, Players
  <2>2. caller' \in CallerStates
    BY <1>0, <1>11, CallerMoves DEF Leave, CallerPcs
  <2> QED
    BY <1>11, <2>1, <2>2 DEF Leave, TypeInv
<1>12. CASE CallerShutdown(c)
  <2>1. caller' \in CallerStates
    BY <1>0, <1>12, CallerMoves DEF CallerShutdown, CallerPcs
  <2>2. QueueOK(q')
    BY <1>0, <1>12, QueueTypes DEF CallerShutdown, Shutdown
  <2>3. eng' \in Engines
    <3>1. [eng EXCEPT !.stream = "none", !.abort = TRUE, !.seek_req = FALSE] \in Engines
      BY <1>0 DEF Engines
    <3>2. \A e \in Engines : [e EXCEPT !.read = "idle"] \in Engines
      BY DEF Engines
    <3> QED
      BY <1>0, <1>12, <3>1, <3>2 DEF CallerShutdown, Shutdown
  <2> QED
    BY <1>12, <2>1, <2>2, <2>3 DEF CallerShutdown, Shutdown, TypeInv
<1>13. CASE CallerDestroy(c)
  <2>1. caller' \in CallerStates
    BY <1>0, <1>13, CallerMoves DEF CallerDestroy, CallerPcs
  <2> QED
    BY <1>13, <2>1 DEF CallerDestroy, TypeInv
<1> QED
  BY <1>1, <1>2, <1>3, <1>4, <1>5, <1>6, <1>7, <1>8, <1>9, <1>10, <1>11, <1>12, <1>13

\* A step of a message loop keeps the types.
LEMMA LoopTypes ==
  ASSUME TypeInv, RefsAccounted, NEW t \in Loops,
         \/ LoopBegin(t)
         \/ LoopGet(t)
         \/ HandleOther(t)
         \/ HandlePrepared(t)
         \/ HandleCompleted(t)
         \/ HandleSeekComplete(t)
         \/ HandleStart(t)
         \/ HandlePause(t)
         \/ HandleSeek(t)
         \/ LoopExit(t)
         \/ LoopShutdown(t)
         \/ LoopDestroy(t)
  PROVE  TypeInv'
<1>0. /\ mp \in Players /\ QueueOK(q) /\ loop \in LoopStates /\ caller \in CallerStates
      /\ eng \in Engines /\ nloop \in 0..MaxLoop
  BY DEF TypeInv
<1>1. CASE LoopBegin(t)
  <2>1. loop' \in LoopStates
    BY <1>0, <1>1, LoopMoves DEF LoopBegin, Goto, LoopPcs
  <2> QED
    BY <1>1, <2>1 DEF LoopBegin, TypeInv
<1>2. CASE LoopGet(t)
  <2>1. QueueOK(q')
    BY <1>0, <1>2, QueueKept DEF LoopGet
  <2>2. loop' \in LoopStates
    <3>1. CASE GetResult(q, TRUE) = "message"
      <4>1. Head(q.msgs).what \in Whats
        <5>1. q.msgs \in Seq(Messages) /\ q.msgs # <<>>
          BY <1>0, <3>1 DEF GetResult, QueueOK
        <5>2. Head(q.msgs) \in Messages
          BY <5>1
        <5> QED
          BY <5>2 DEF Messages
      <4> QED
        BY <1>0, <1>2, <3>1, <4>1, LoopMoves DEF LoopGet
    <3>2. CASE GetResult(q, TRUE) = "aborted"
      BY <1>0, <1>2, <3>2, LoopMoves DEF LoopGet, LoopPcs
    <3>3. CASE GetResult(q, TRUE) \notin {"message", "aborted"}
      BY <1>0, <1>2, <3>3 DEF LoopGet
    <3> QED
      BY <3>1, <3>2, <3>3
  <2> QED
    BY <1>2, <2>1, <2>2 DEF LoopGet, TypeInv
<1>3. CASE HandleOther(t)
  <2>1. loop' \in LoopStates
    BY <1>0, <1>3, LoopMoves DEF HandleOther, Handles, Goto, LoopPcs
  <2> QED
    BY <1>3, <2>1 DEF HandleOther, Handles, TypeInv
<1>4. CASE HandlePrepared(t)
  <2>1. loop' \in LoopStates
    BY <1>0, <1>4, LoopMoves DEF HandlePrepared, Handles, Goto, LoopPcs
  <2>2. mp' \in Players
    BY <1>0, <1>4 DEF HandlePrepared, Players, States
  <2> QED
    BY <1>4, <2>1, <2>2 DEF HandlePrepared, Handles, TypeInv
<1>5. CASE HandleCompleted(t)
  <2>1. loop' \in LoopStates
    BY <1>0, <1>5, LoopMoves DEF HandleCompleted, Handles, Goto, LoopPcs
  <2>2. mp' \in Players
    BY <1>0, <1>5 DEF HandleCompleted, Players, States
  <2>3. eng' \in Engines
    BY <1>0, <1>5 DEF HandleCompleted, Engines
  <2> QED
    BY <1>5, <2>1, <2>2, <2>3 DEF HandleCompleted, Handles, TypeInv
<1>6. CASE HandleSeekComplete(t)
  <2>1. loop' \in LoopStates
    BY <1>0, <1>6, LoopMoves DEF HandleSeekComplete, Handles, Goto, LoopPcs
  <2>2. mp' \in Players
    BY <1>0, <1>6 DEF HandleSeekComplete, Players
  <2>3. eng' \in Engines
    BY <1>0, <1>6 DEF HandleSeekComplete, Engines
  <2>4. QueueOK(q')
    BY <1>0, <1>6, QueueTypes DEF HandleSeekComplete, Whats
  <2> QED
    BY <1>6, <2>1, <2>2, <2>3, <2>4 DEF HandleSeekComplete, Handles, TypeInv
<1>7. CASE HandleStart(t)
  <2>1. loop' \in LoopStates
    BY <1>0, <1>7, LoopMoves DEF HandleStart, Handles, Goto, LoopPcs
  <2>2. mp' \in Players
    BY <1>0, <1>7 DEF HandleStart, StartPlayer, Players, States
  <2>3. eng' \in Engines
    <3>1. \A b \in BOOLEAN : [eng EXCEPT !.paused = FALSE, !.atEnd = b] \in Engines
      BY <1>0 DEF Engines
    <3>2. mp.restart \in BOOLEAN /\ eng.atEnd \in BOOLEAN
      BY <1>0 DEF Players, Engines
    <3>3. TogglePause(eng, FALSE) \in Engines
      BY <1>0, EngineTypes
    <3> QED
      BY <1>0, <1>7, <3>1, <3>2, <3>3 DEF HandleStart, StartPlayer
  <2> QED
    BY <1>7, <2>1, <2>2, <2>3 DEF HandleStart, Handles, TypeInv
<1>8. CASE HandlePause(t)
  <2>1. loop' \in LoopStates
    BY <1>0, <1>8, LoopMoves DEF HandlePause, Handles, Goto, LoopPcs
  <2>2. mp' \in Players
    BY <1>0, <1>8 DEF HandlePause, Players, States
  <2>3. eng' \in Engines
    <3>1. [eng EXCEPT !.paused = TRUE] \in Engines /\ TogglePause(eng, TRUE) \in Engines
      BY <1>0, EngineTypes DEF Engines
    <3> QED
      BY <1>0, <1>8, <3>1 DEF HandlePause
  <2> QED
    BY <1>8, <2>1, <2>2, <2>3 DEF HandlePause, Handles, TypeInv
<1>9. CASE HandleSeek(t)
  <2>1. loop' \in LoopStates
    BY <1>0, <1>9, LoopMoves DEF HandleSeek, Handles, Goto, LoopPcs
  <2>2. mp' \in Players
    BY <1>0, <1>9 DEF HandleSeek, Players
  <2>3. eng' \in Engines
    <3>1. [eng EXCEPT !.atEnd = FALSE] \in Engines
      BY <1>0 DEF Engines
    <3>2. OpenClip(eng) \in Engines
      BY <1>0, OpenClipType
    <3>3. \A b1, b2 \in BOOLEAN : /\ Seek(eng, b1, b2) \in Engines
                                   /\ Seek(OpenClip(eng), b1, b2) \in Engines
      BY <1>0, <3>2, EngineTypes
    <3> QED
      BY <1>0, <1>9, <3>1, <3>3 DEF HandleSeek
  <2> QED
    BY <1>9, <2>1, <2>2, <2>3 DEF HandleSeek, Handles, TypeInv
<1>10. CASE LoopExit(t)
  <2>1. loop' \in LoopStates
    BY <1>0, <1>10, LoopMoves DEF LoopExit, Goto, LoopPcs
  <2>2. mp' \in Players
    <3>1. mp.ref_count - 1 \in Nat
      <4>1. t \in Running
        BY <1>10 DEF LoopExit, Running
      <4> QED
        BY <1>0, <4>1, HoldersCounted DEF Players
    <3> QED
      BY <1>0, <1>10, <3>1 DEF LoopExit, Players
  <2> QED
    BY <1>10, <2>1, <2>2 DEF LoopExit, TypeInv
<1>11. CASE LoopShutdown(t)
  <2>1. loop' \in LoopStates
    BY <1>0, <1>11, LoopMoves DEF LoopShutdown, Goto, LoopPcs
  <2>2. QueueOK(q')
    BY <1>0, <1>11, QueueTypes DEF LoopShutdown, Shutdown
  <2>3. eng' \in Engines
    <3>1. [eng EXCEPT !.stream = "none", !.abort = TRUE, !.seek_req = FALSE] \in Engines
      BY <1>0 DEF Engines
    <3>2. \A e \in Engines : [e EXCEPT !.read = "idle"] \in Engines
      BY DEF Engines
    <3> QED
      BY <1>0, <1>11, <3>1, <3>2 DEF LoopShutdown, Shutdown
  <2> QED
    BY <1>11, <2>1, <2>2, <2>3 DEF LoopShutdown, Shutdown, TypeInv
<1>12. CASE LoopDestroy(t)
  <2>1. loop' \in LoopStates
    BY <1>0, <1>12, LoopMoves DEF LoopDestroy, Goto, LoopPcs
  <2> QED
    BY <1>12, <2>1 DEF LoopDestroy, TypeInv
<1> QED
  BY <1>1, <1>2, <1>3, <1>4, <1>5, <1>6, <1>7, <1>8, <1>9, <1>10, <1>11, <1>12

\* A step of the engine's threads keeps the types.
LEMMA EngineStepTypes ==
  ASSUME TypeInv,
         \/ ReadStep \/ OpenFails \/ ReadEnds \/ TargetReached \/ ShowStep
         \/ \E v \in Loops : EndReached(v) \/ Complete(v) \/ VoutEnd(v)
  PROVE  TypeInv'
<1>0. /\ QueueOK(q) /\ eng \in Engines
  BY DEF TypeInv
<1>1. EngineOnly
  BY DEF ReadStep, PostPrepared, PostResume, SeekDone, ResumeOrStep, PostSeekComplete,
         OpenFails, ReadEnds, TargetReached, ShowStep, EndReached, Complete, VoutEnd
<1>2. QueueOK(q')
  BY <1>0, QueueTypes DEF Whats, ReadStep, PostPrepared, PostResume, SeekDone,
         ResumeOrStep, PostSeekComplete, OpenFails, ReadEnds, TargetReached, ShowStep,
         EndReached, Complete, VoutEnd
<1>3. vout' \in [Loops -> {"none", "play", "ended", "done"}]
  BY DEF TypeInv, ReadStep, PostPrepared, PostResume, SeekDone,
         ResumeOrStep, PostSeekComplete, OpenFails, ReadEnds, TargetReached, ShowStep,
         EndReached, Complete, VoutEnd
<1>5. switches' \in 0..MaxSwitch
  <2>1. CASE ReadEnds
    BY <2>1, MediaPlayerAssumption DEF ReadEnds, TypeInv
  <2>2. CASE ReadStep \/ OpenFails \/ TargetReached \/ ShowStep
    <3>1. switches' = switches
      BY <2>2 DEF ReadStep, PostPrepared, PostResume, SeekDone, ResumeOrStep,
                  PostSeekComplete, OpenFails, TargetReached, ShowStep
    <3> QED
      BY <3>1 DEF TypeInv
  <2>3. ASSUME NEW v \in Loops, EndReached(v) \/ Complete(v) \/ VoutEnd(v)
        PROVE  switches' \in 0..MaxSwitch
    BY <2>3, MediaPlayerAssumption DEF EndReached, Complete, VoutEnd, TypeInv
  <2> QED
    BY <2>1, <2>2, <2>3
<1>4. eng' \in Engines
  <2>1. /\ \A e \in Engines : UpdatePause(e) \in Engines
        /\ \A e \in Engines : TogglePause(e, TRUE) \in Engines
    BY EngineTypes
  <2>2. CASE PostPrepared
    <3>1. \A e \in Engines : [e EXCEPT !.stream = "resuming"] \in Engines
      BY DEF Engines
    <3> QED
      BY <1>0, <2>1, <2>2, <3>1 DEF PostPrepared
  <2>3. CASE PostResume
    BY <1>0, <2>3 DEF PostResume, Engines
  <2>4. CASE SeekDone
    <3>1. [eng EXCEPT !.seek_req = FALSE, !.read = "resume"] \in Engines
      BY <1>0 DEF Engines
    <3>2. \A e \in Engines : [e EXCEPT !.completed = FALSE, !.atEnd = FALSE] \in Engines
      BY DEF Engines
    <3> QED
      BY <2>4, <3>1, <3>2 DEF SeekDone
  <2>5. CASE ResumeOrStep
    <3>1. \A e \in Engines : [e EXCEPT !.read = "post"] \in Engines
      BY DEF Engines
    <3>2. /\ [eng EXCEPT !.pause_req = FALSE, !.auto_resume = FALSE] \in Engines
          /\ [eng EXCEPT !.paused = FALSE, !.step = TRUE] \in Engines
      BY <1>0 DEF Engines
    <3> QED
      BY <1>0, <2>1, <2>5, <3>1, <3>2 DEF ResumeOrStep
  <2>6. CASE PostSeekComplete
    BY <1>0, <2>6 DEF PostSeekComplete, Engines
  <2>7. CASE OpenFails
    BY <1>0, <2>7 DEF OpenFails, Engines
  <2>8. CASE ReadEnds
    <3>1. \A e \in Engines :
            [e EXCEPT !.auto_resume = FALSE, !.completed = TRUE] \in Engines
      BY DEF Engines
    <3> QED
      BY <1>0, <2>1, <2>8, <3>1 DEF ReadEnds
  <2>9. CASE TargetReached
    BY <1>0, <2>9 DEF TargetReached, Engines
  <2>10. CASE ShowStep
    <3>1. [eng EXCEPT !.step = FALSE] \in Engines
      BY <1>0 DEF Engines
    <3> QED
      BY <2>1, <2>10, <3>1 DEF ShowStep
  <2>11. ASSUME NEW v \in Loops, EndReached(v) \/ Complete(v) \/ VoutEnd(v)
         PROVE  eng' \in Engines
    <3>1. /\ [eng EXCEPT !.atEnd = TRUE] \in Engines
          /\ [eng EXCEPT !.pause_req = TRUE, !.auto_resume = FALSE, !.atEnd = TRUE]
               \in Engines
      BY <1>0 DEF Engines
    <3> QED
      BY <1>0, <2>1, <2>11, <3>1 DEF EndReached, Complete, VoutEnd
  <2> QED
    BY <2>2, <2>3, <2>4, <2>5, <2>6, <2>7, <2>8, <2>9, <2>10, <2>11 DEF ReadStep
<1> QED
  BY <1>1, <1>2, <1>3, <1>4, <1>5 DEF EngineOnly, TypeInv

\* So does every step.
LEMMA TypeStep == ASSUME TypeInv, RefsAccounted, [Next]_vars PROVE TypeInv'
<1>1. ASSUME NEW c \in Callers, (\E op \in Ops : Enter(c, op)) \/ Call(c)
      PROVE  TypeInv'
  BY <1>1, CallerTypes DEF Call
<1>2. ASSUME NEW t \in Loops, LoopStep(t) PROVE TypeInv'
  BY <1>2, LoopTypes DEF LoopStep, Handle
<1>3. CASE UNCHANGED vars
  BY <1>3 DEF vars, TypeInv
<1> QED
  BY <1>1, <1>2, <1>3, EngineStepTypes DEF Next
-----------------------------------------------------------------------------
(* References *)

\* A session that has not begun has no threads.
Fresh == \A t \in Loops : t > nloop => loop[t].pc = "none" /\ vout[t] = "none"

LEMMA FreshStep == ASSUME TypeInv, Fresh, [Next]_vars PROVE Fresh'
<1>0. /\ loop \in LoopStates /\ nloop \in 0..MaxLoop
      /\ vout \in [Loops -> {"none", "play", "ended", "done"}]
      /\ \A t \in Loops : t \in Nat
  BY MediaPlayerAssumption DEF TypeInv, Loops
<1>1. ASSUME NEW c \in Callers, (\E op \in Ops : Enter(c, op)) \/ Call(c)
      PROVE  Fresh'
  <2>1. CASE PrepareAsync(c)
    <3>1. CASE nloop' = nloop + 1 /\ nloop < MaxLoop
               /\ loop' = [loop EXCEPT ![nloop'].pc = "start"]
               /\ (vout' = [vout EXCEPT ![nloop'] = "play"] \/ vout' = vout)
      BY <1>0, <3>1 DEF Fresh, LoopStates
    <3>2. CASE UNCHANGED <<nloop, loop, vout>>
      BY <3>2 DEF Fresh
    <3> QED
      BY <2>1, <3>1, <3>2 DEF PrepareAsync
  <2>2. CASE ~PrepareAsync(c)
    <3>1. UNCHANGED <<nloop, loop, vout>>
      BY <1>1, <2>2 DEF Enter, Call, AddDataSource, Start, Pause, SeekTo, Stop, ReleaseStop,
                        ReleaseClose, ReleaseHandle, Leave, CallerShutdown, CallerDestroy
    <3> QED
      BY <3>1 DEF Fresh
  <2> QED
    BY <2>1, <2>2
<1>2. ASSUME NEW t \in Loops, LoopStep(t) PROVE Fresh'
  <2>1. loop[t].pc # "none"
    <3>1. CASE Handle(t)
      <4>1. \E what \in Whats : loop[t] = [pc |-> "handle", what |-> what]
        BY <3>1 DEF Handle, HandleOther, HandlePrepared, HandleCompleted, HandleSeekComplete,
                    HandleStart, HandlePause, HandleSeek, Handles, Whats
      <4> QED
        BY <4>1
    <3> QED
      BY <1>2, <3>1 DEF LoopStep, LoopBegin, LoopGet, LoopExit, LoopShutdown, LoopDestroy
  <2>3. UNCHANGED <<nloop, vout>>
    BY <1>2 DEF LoopStep, Handle, LoopBegin, LoopGet, HandleOther, HandlePrepared,
                HandleCompleted, HandleSeekComplete, HandleStart, HandlePause, HandleSeek,
                Handles, LoopExit, LoopShutdown, LoopDestroy
  <2>2. \A u \in Loops : u # t => loop'[u] = loop[u]
    BY <1>0, <1>2 DEF LoopStep, Handle, LoopBegin, LoopGet, HandleOther, HandlePrepared,
                HandleCompleted, HandleSeekComplete, HandleStart, HandlePause, HandleSeek,
                Handles, LoopExit, LoopShutdown, LoopDestroy, Goto, LoopStates
  <2> QED
    BY <2>1, <2>2, <2>3 DEF Fresh
<1>3. CASE ReadStep \/ OpenFails \/ ReadEnds \/ TargetReached \/ ShowStep
  BY <1>3 DEF Fresh, EngineOnly, ReadStep, PostPrepared, PostResume, SeekDone, ResumeOrStep,
              PostSeekComplete, OpenFails, ReadEnds, TargetReached, ShowStep
<1>4. ASSUME NEW v \in Loops, EndReached(v) \/ Complete(v) \/ VoutEnd(v) PROVE Fresh'
  BY <1>0, <1>4 DEF Fresh, EngineOnly, EndReached, Complete, VoutEnd
<1>5. CASE UNCHANGED vars
  BY <1>5 DEF vars, Fresh
<1> QED
  BY <1>1, <1>2, <1>3, <1>4, <1>5 DEF Next

\* How a move of one thread changes who is counted.
LEMMA InsideMoves ==
  ASSUME caller \in CallerStates, NEW c \in Callers, NEW pc \in CallerPcs,
         \/ caller' = [caller EXCEPT ![c].pc = pc]
         \/ \E op \in Ops : caller' = [caller EXCEPT ![c] = [pc |-> pc, op |-> op]]
  PROVE  Inside' = IF pc \in {"in", "closing", "closed", "out"}
                   THEN Inside \cup {c} ELSE Inside \ {c}
  BY DEF CallerStates, Inside

LEMMA InsideStays ==
  ASSUME caller \in CallerStates, NEW c \in Inside,
         NEW pc \in {"closing", "closed", "out"}, caller' = [caller EXCEPT ![c].pc = pc]
  PROVE  Inside' = Inside
  BY DEF CallerStates, Inside

LEMMA RunningMoves ==
  ASSUME loop \in LoopStates, NEW t \in Loops, NEW pc \in LoopPcs,
         \/ loop' = [loop EXCEPT ![t].pc = pc]
         \/ \E what \in Whats : loop' = [loop EXCEPT ![t] = [pc |-> pc, what |-> what]]
  PROVE  Running' = IF pc \in {"start", "get", "handle", "exit"}
                    THEN Running \cup {t} ELSE Running \ {t}
  BY DEF LoopStates, Running

\* Steps that take and drop no reference.
LEMMA SameHolders ==
  ASSUME RefsAccounted, Inside' = Inside, Running' = Running, handle' = handle,
         mp'.ref_count = mp.ref_count
  PROVE  RefsAccounted'
  BY DEF RefsAccounted, Holders

LEMMA CallerRefs ==
  ASSUME TypeInv, RefsAccounted, Fresh, NEW c \in Callers,
         (\E op \in Ops : Enter(c, op)) \/ Call(c)
  PROVE  RefsAccounted'
<1>0. /\ mp \in Players /\ caller \in CallerStates /\ loop \in LoopStates
      /\ nloop \in 0..MaxLoop /\ handle \in BOOLEAN /\ mp.ref_count \in Nat
  BY DEF TypeInv, Players
<1>h. /\ IsFiniteSet(Inside) /\ IsFiniteSet(Running)
      /\ Cardinality(Inside) \in Nat /\ Cardinality(Running) \in Nat
      /\ mp.ref_count = (IF handle THEN 1 ELSE 0) + Cardinality(Inside) + Cardinality(Running)
  BY HoldersCounted DEF RefsAccounted, Holders
<1>s. UNCHANGED loop => Running' = Running
  BY DEF Running
<1>1. ASSUME NEW op \in Ops, Enter(c, op) PROVE RefsAccounted'
  <2>1. caller' = [caller EXCEPT ![c] = [pc |-> "in", op |-> op]] /\ c \notin Inside
    BY <1>1 DEF Enter, Inside
  <2>2. Inside' = Inside \cup {c}
    BY <1>0, <2>1, InsideMoves DEF CallerPcs
  <2>3. Cardinality(Inside') = Cardinality(Inside) + 1
    BY <1>h, <2>1, <2>2, FS_AddElement
  <2>4. mp'.ref_count = mp.ref_count + 1 /\ handle' = handle /\ Running' = Running
    BY <1>0, <1>1, <1>s DEF Enter, Players
  <2> QED
    BY <1>h, <2>3, <2>4 DEF RefsAccounted, Holders
<1>2. CASE AddDataSource(c) \/ Start(c) \/ Pause(c) \/ SeekTo(c) \/ Stop(c)
  <2>1. caller' = [caller EXCEPT ![c].pc = "out"] /\ c \in Inside
    BY <1>2 DEF AddDataSource, Start, Pause, SeekTo, Stop, Return, In, Inside
  <2>2. Inside' = Inside
    BY <1>0, <2>1, InsideStays
  <2>3. mp'.ref_count = mp.ref_count /\ UNCHANGED <<loop, handle>>
    BY <1>0, <1>2 DEF AddDataSource, Start, Pause, SeekTo, Stop, Players
  <2> QED
    BY <1>s, <2>2, <2>3, SameHolders
<1>3. CASE PrepareAsync(c)
  <2>1. caller' = [caller EXCEPT ![c].pc = "out"] /\ c \in Inside /\ handle' = handle
    BY <1>3 DEF PrepareAsync, Return, In, Inside
  <2>2. Inside' = Inside
    BY <1>0, <2>1, InsideStays
  <2>3. CASE PrepareFrom \in {"INITIALIZED", "STOPPED"}
    <3>1. /\ nloop' = nloop + 1 /\ nloop < MaxLoop
          /\ loop' = [loop EXCEPT ![nloop'].pc = "start"]
          /\ mp'.ref_count = mp.ref_count + 1
      BY <1>0, <1>3, <2>3 DEF PrepareAsync, Players
    <3>2. nloop' \in Loops /\ nloop' > nloop
      BY <1>0, <3>1, MediaPlayerAssumption DEF Loops
    <3>3. nloop' \notin Running
      BY <3>2 DEF Fresh, Running
    <3>4. \A t \in Loops : loop' = [loop EXCEPT ![t].pc = "start"]
                             => Running' = Running \cup {t}
      BY <1>0, RunningMoves DEF LoopPcs
    <3>5. Running' = Running \cup {nloop'}
      BY <3>1, <3>2, <3>4
    <3>6. Cardinality(Running') = Cardinality(Running) + 1
      BY <1>h, <3>3, <3>5, FS_AddElement
    <3> QED
      BY <1>h, <2>1, <2>2, <3>1, <3>6 DEF RefsAccounted, Holders
  <2>4. CASE PrepareFrom \notin {"INITIALIZED", "STOPPED"}
    <3>1. mp'.ref_count = mp.ref_count /\ UNCHANGED loop
      BY <1>0, <1>3, <2>4 DEF PrepareAsync, Players
    <3> QED
      BY <1>s, <2>1, <2>2, <3>1, SameHolders
  <2> QED
    BY <2>3, <2>4
<1>4. CASE ReleaseStop(c) \/ ReleaseClose(c)
  <2>1. /\ c \in Inside /\ UNCHANGED <<mp, handle, loop>>
        /\ \/ caller' = [caller EXCEPT ![c].pc = "closing"]
           \/ caller' = [caller EXCEPT ![c].pc = "closed"]
    BY <1>4 DEF ReleaseStop, ReleaseClose, In, Inside
  <2>2. Inside' = Inside
    BY <1>0, <2>1, InsideStays
  <2> QED
    BY <1>s, <2>1, <2>2, SameHolders
<1>5. CASE ReleaseHandle(c)
  <2>1. caller' = [caller EXCEPT ![c].pc = "out"] /\ c \in Inside
    BY <1>5 DEF ReleaseHandle, Return, Inside
  <2>2. Inside' = Inside /\ Running' = Running
    BY <1>0, <1>5, <1>s, <2>1, InsideStays DEF ReleaseHandle
  <2>3. ~handle' /\ mp'.ref_count = IF handle THEN mp.ref_count - 1 ELSE mp.ref_count
    BY <1>0, <1>5 DEF ReleaseHandle, Players
  <2>4. CASE handle
    BY <1>h, <2>2, <2>3, <2>4 DEF RefsAccounted, Holders
  <2>5. CASE ~handle
    BY <1>h, <2>2, <2>3, <2>5 DEF RefsAccounted, Holders
  <2> QED
    BY <2>4, <2>5
<1>6. CASE Leave(c)
  <2>1. /\ c \in Inside /\ mp'.ref_count = mp.ref_count - 1 /\ UNCHANGED <<handle, loop>>
        /\ \/ caller' = [caller EXCEPT ![c].pc = "shutdown"]
           \/ caller' = [caller EXCEPT ![c].pc = "idle"]
    BY <1>0, <1>6 DEF Leave, Inside, Players
  <2>2. Inside' = Inside \ {c}
    BY <1>0, <2>1, InsideMoves DEF CallerPcs
  <2>3. Cardinality(Inside') = Cardinality(Inside) - 1
    BY <1>h, <2>1, <2>2, FS_RemoveElement
  <2> QED
    BY <1>h, <1>s, <2>1, <2>3 DEF RefsAccounted, Holders
<1>7. CASE CallerShutdown(c) \/ CallerDestroy(c)
  <2>1. /\ c \notin Inside /\ UNCHANGED <<mp, handle, loop>>
        /\ \/ caller' = [caller EXCEPT ![c].pc = "join"]
           \/ caller' = [caller EXCEPT ![c].pc = "idle"]
    BY <1>7 DEF CallerShutdown, CallerDestroy, Inside
  <2>2. Inside' = Inside
    BY <1>0, <2>1, InsideMoves DEF CallerPcs
  <2> QED
    BY <1>s, <2>1, <2>2, SameHolders
<1> QED
  BY <1>1, <1>2, <1>3, <1>4, <1>5, <1>6, <1>7 DEF Call

LEMMA LoopRefs ==
  ASSUME TypeInv, RefsAccounted, NEW t \in Loops, LoopStep(t)
  PROVE  RefsAccounted'
<1>0. /\ mp \in Players /\ loop \in LoopStates /\ mp.ref_count \in Nat
      /\ QueueOK(q)
  BY DEF TypeInv, Players
<1>h. /\ IsFiniteSet(Running)
      /\ Cardinality(Inside) \in Nat /\ Cardinality(Running) \in Nat
      /\ mp.ref_count = (IF handle THEN 1 ELSE 0) + Cardinality(Inside) + Cardinality(Running)
  BY HoldersCounted DEF RefsAccounted, Holders
<1>s. UNCHANGED caller => Inside' = Inside
  BY DEF Inside
<1>1. CASE LoopBegin(t) \/ LoopGet(t) \/ Handle(t)
  <2>3. t \in Running
    <3>1. CASE Handle(t)
      <4>1. \E what \in Whats : loop[t] = [pc |-> "handle", what |-> what]
        BY <3>1 DEF Handle, HandleOther, HandlePrepared, HandleCompleted, HandleSeekComplete,
                    HandleStart, HandlePause, HandleSeek, Handles, Whats
      <4> QED
        BY <4>1 DEF Running
    <3> QED
      BY <1>1, <3>1 DEF LoopBegin, LoopGet, Running
  <2>4. UNCHANGED <<handle, caller>>
    BY <1>1 DEF LoopBegin, LoopGet, Handle, HandleOther, HandlePrepared,
                HandleCompleted, HandleSeekComplete, HandleStart, HandlePause,
                HandleSeek, Handles
  <2>5. mp'.ref_count = mp.ref_count
    <3>1. CASE HandleStart(t)
      <4>1. ASSUME NEW m \in Players, StartPlayer(m) PROVE mp'.ref_count = m.ref_count
        BY <4>1 DEF StartPlayer, Players
      <4>2. [mp EXCEPT !.restart = FALSE] \in Players
        BY <1>0 DEF Players
      <4> QED
        BY <1>0, <3>1, <4>1, <4>2 DEF HandleStart, Players
    <3>2. CASE HandlePause(t) \/ HandleSeek(t)
      BY <1>0, <3>2 DEF HandlePause, HandleSeek, Players
    <3>3. CASE HandleOther(t) \/ HandlePrepared(t) \/ HandleCompleted(t)
               \/ HandleSeekComplete(t)
      BY <1>0, <3>3 DEF HandleOther, HandlePrepared, HandleCompleted, HandleSeekComplete,
                        Players
    <3> QED
      BY <1>1, <3>1, <3>2, <3>3 DEF Handle, LoopBegin, LoopGet
  <2>1. t \in Running /\ UNCHANGED <<handle, caller>> /\ mp'.ref_count = mp.ref_count
    BY <2>3, <2>4, <2>5
  <2>2. Running' = Running
    <3>1. CASE \/ loop' = [loop EXCEPT ![t].pc = "get"]
               \/ loop' = [loop EXCEPT ![t].pc = "exit"]
      BY <1>0, <2>1, <3>1, RunningMoves DEF LoopPcs
    <3>2. CASE LoopGet(t)
      BY <1>0, <2>1, <3>2 DEF LoopGet, Running, LoopStates
    <3> QED
      BY <1>1, <3>1, <3>2 DEF LoopBegin, Handle, HandleOther, HandlePrepared,
                HandleCompleted, HandleSeekComplete, HandleStart, HandlePause,
                HandleSeek, Handles, Goto
  <2> QED
    BY <1>s, <2>1, <2>2, SameHolders
<1>2. CASE LoopExit(t)
  <2>1. /\ t \in Running /\ mp'.ref_count = mp.ref_count - 1 /\ UNCHANGED <<handle, caller>>
        /\ \/ loop' = [loop EXCEPT ![t].pc = "shutdown"]
           \/ loop' = [loop EXCEPT ![t].pc = "done"]
    BY <1>0, <1>2 DEF LoopExit, Goto, Running, Players
  <2>2. Running' = Running \ {t}
    BY <1>0, <2>1, RunningMoves DEF LoopPcs
  <2>3. Cardinality(Running') = Cardinality(Running) - 1
    BY <1>h, <2>1, <2>2, FS_RemoveElement
  <2> QED
    BY <1>h, <1>s, <2>1, <2>3 DEF RefsAccounted, Holders
<1>3. CASE LoopShutdown(t) \/ LoopDestroy(t)
  <2>1. /\ t \notin Running /\ UNCHANGED <<mp, handle, caller>>
        /\ \/ loop' = [loop EXCEPT ![t].pc = "join"]
           \/ loop' = [loop EXCEPT ![t].pc = "done"]
    BY <1>3 DEF LoopShutdown, LoopDestroy, Goto, Running
  <2>2. Running' = Running
    BY <1>0, <2>1, RunningMoves DEF LoopPcs
  <2> QED
    BY <1>s, <2>1, <2>2, SameHolders
<1> QED
  BY <1>1, <1>2, <1>3 DEF LoopStep

\* The engine's threads hold no reference.
LEMMA EngineFrame ==
  ASSUME \/ ReadStep \/ OpenFails \/ ReadEnds \/ TargetReached \/ ShowStep
         \/ \E v \in Loops : EndReached(v) \/ Complete(v) \/ VoutEnd(v)
  PROVE  EngineOnly
  BY DEF ReadStep, PostPrepared, PostResume, SeekDone, ResumeOrStep, PostSeekComplete,
         OpenFails, ReadEnds, TargetReached, ShowStep, EndReached, Complete, VoutEnd

LEMMA RefsStep == ASSUME TypeInv, RefsAccounted, Fresh, [Next]_vars PROVE RefsAccounted'
<1>1. CASE EngineOnly \/ UNCHANGED vars
  <2>1. UNCHANGED <<mp, handle, caller, loop>>
    BY <1>1 DEF EngineOnly, vars
  <2>2. Inside' = Inside /\ Running' = Running
    BY <2>1 DEF Inside, Running
  <2> QED
    BY <2>1, <2>2, SameHolders
<1> QED
  BY <1>1, CallerRefs, LoopRefs, EngineFrame DEF Next
-----------------------------------------------------------------------------
(* The last reference *)

Dying(pc) == pc \in {"shutdown", "join"}

\* At most one thread has dropped the last reference and not yet freed the
\* player, and what was freed is not referred to.
OneDestroyer ==
  /\ \A c, d \in Callers : Dying(caller[c].pc) /\ Dying(caller[d].pc) => c = d
  /\ \A t, u \in Loops : Dying(loop[t].pc) /\ Dying(loop[u].pc) => t = u
  /\ \A c \in Callers, t \in Loops : ~(Dying(caller[c].pc) /\ Dying(loop[t].pc))
  /\ \A c \in Callers : Dying(caller[c].pc) => object = "alive" /\ mp.ref_count = 0
  /\ \A t \in Loops : Dying(loop[t].pc) => object = "alive" /\ mp.ref_count = 0
  /\ object = "freed" => mp.ref_count = 0

NobodyDies ==
  /\ \A c \in Callers : ~Dying(caller[c].pc)
  /\ \A t \in Loops : ~Dying(loop[t].pc)

\* As long as anyone holds the player, it is there and nobody frees it.
LEMMA HeldAlive ==
  ASSUME TypeInv, RefsAccounted, OneDestroyer, handle \/ Inside # {} \/ Running # {}
  PROVE  mp.ref_count > 0 /\ object = "alive" /\ NobodyDies
<1>1. /\ IsFiniteSet(Inside) /\ IsFiniteSet(Running)
      /\ Cardinality(Inside) \in Nat /\ Cardinality(Running) \in Nat
      /\ mp.ref_count = (IF handle THEN 1 ELSE 0) + Cardinality(Inside) + Cardinality(Running)
  BY HoldersCounted DEF RefsAccounted, Holders
<1>2. Inside # {} => Cardinality(Inside) > 0
  BY <1>1, FS_EmptySet
<1>3. Running # {} => Cardinality(Running) > 0
  BY <1>1, FS_EmptySet
<1>4. mp.ref_count > 0
  BY <1>1, <1>2, <1>3
<1>5. object \in {"alive", "freed"}
  BY DEF TypeInv
<1> QED
  BY <1>4, <1>5 DEF OneDestroyer, NobodyDies

\* The steps of a thread that holds the player, except the last one.
LEMMA HeldSteps ==
  ASSUME TypeInv, RefsAccounted, OneDestroyer, handle \/ Inside # {} \/ Running # {},
         object' = object,
         \/ UNCHANGED loop
         \/ \E t \in Loops, pc \in LoopPcs : ~Dying(pc)
              /\ \/ loop' = [loop EXCEPT ![t].pc = pc]
                 \/ \E what \in Whats : loop' = [loop EXCEPT ![t] = [pc |-> pc, what |-> what]],
         \/ UNCHANGED caller
         \/ \E c \in Callers, pc \in CallerPcs : ~Dying(pc)
              /\ \/ caller' = [caller EXCEPT ![c].pc = pc]
                 \/ \E op \in Ops : caller' = [caller EXCEPT ![c] = [pc |-> pc, op |-> op]]
  PROVE  object' = "alive" /\ NobodyDies'
<1>1. object = "alive" /\ NobodyDies
  BY HeldAlive
<1>2. caller \in CallerStates /\ loop \in LoopStates
  BY DEF TypeInv
<1>3. \A t \in Loops : ~Dying(loop'[t].pc)
  BY <1>1, <1>2 DEF LoopStates, NobodyDies
<1>4. \A c \in Callers : ~Dying(caller'[c].pc)
  BY <1>1, <1>2 DEF CallerStates, NobodyDies
<1> QED
  BY <1>1, <1>3, <1>4 DEF NobodyDies

LEMMA NobodyIsOne == object = "alive" /\ NobodyDies => OneDestroyer
  BY DEF NobodyDies, OneDestroyer

\* What a native method that holds the player does to it.
LEMMA CallerHolds ==
  ASSUME TypeInv, RefsAccounted, OneDestroyer, NEW c \in Callers,
         \/ \E op \in Ops : Enter(c, op)
         \/ AddDataSource(c) \/ PrepareAsync(c) \/ Start(c) \/ Pause(c) \/ SeekTo(c)
         \/ Stop(c) \/ ReleaseStop(c) \/ ReleaseClose(c) \/ ReleaseHandle(c)
  PROVE  object' = "alive" /\ NobodyDies'
<1>0. nloop \in 0..MaxLoop /\ MaxLoop \in Nat
  BY MediaPlayerAssumption DEF TypeInv
<1>1. handle \/ Inside # {}
  BY DEF Enter, AddDataSource, PrepareAsync, Start, Pause, SeekTo, Stop, ReleaseStop,
         ReleaseClose, ReleaseHandle, In, Inside
<1>2. object' = object
  BY DEF Enter, AddDataSource, PrepareAsync, Start, Pause, SeekTo, Stop, ReleaseStop,
         ReleaseClose, ReleaseHandle
<1>3. \/ UNCHANGED loop
      \/ \E t \in Loops : loop' = [loop EXCEPT ![t].pc = "start"]
  <2>1. CASE PrepareAsync(c)
    <3>1. CASE nloop < MaxLoop /\ nloop' = nloop + 1
               /\ loop' = [loop EXCEPT ![nloop'].pc = "start"]
      <4>1. nloop' \in Loops
        BY <1>0, <3>1 DEF Loops
      <4> QED
        BY <3>1, <4>1
    <3>2. CASE UNCHANGED loop
      BY <3>2
    <3> QED
      BY <2>1, <3>1, <3>2 DEF PrepareAsync
  <2>2. CASE ~PrepareAsync(c)
    BY <2>2 DEF Enter, AddDataSource, Start, Pause, SeekTo, Stop, ReleaseStop,
                ReleaseClose, ReleaseHandle
  <2> QED
    BY <2>1, <2>2
<1>4. \/ \E op \in Ops : caller' = [caller EXCEPT ![c] = [pc |-> "in", op |-> op]]
      \/ \E pc \in {"closing", "closed", "out"} : caller' = [caller EXCEPT ![c].pc = pc]
  BY DEF Enter, AddDataSource, PrepareAsync, Start, Pause, SeekTo, Stop, ReleaseStop,
         ReleaseClose, ReleaseHandle, Return
<1>5. "start" \in LoopPcs /\ ~Dying("start")
  BY DEF LoopPcs, Dying
<1>6. \A pc \in {"in", "closing", "closed", "out"} : pc \in CallerPcs /\ ~Dying(pc)
  BY DEF CallerPcs, Dying
<1>7. \/ UNCHANGED loop
      \/ \E t \in Loops, pc \in LoopPcs : ~Dying(pc)
           /\ \/ loop' = [loop EXCEPT ![t].pc = pc]
              \/ \E what \in Whats : loop' = [loop EXCEPT ![t] = [pc |-> pc, what |-> what]]
  BY <1>3, <1>5
<1>8. \/ UNCHANGED caller
      \/ \E d \in Callers, pc \in CallerPcs : ~Dying(pc)
           /\ \/ caller' = [caller EXCEPT ![d].pc = pc]
              \/ \E op \in Ops : caller' = [caller EXCEPT ![d] = [pc |-> pc, op |-> op]]
  BY <1>4, <1>6
<1> QED
  BY <1>1, <1>2, <1>7, <1>8, HeldSteps

\* And what a message loop does.
LEMMA LoopHolds ==
  ASSUME TypeInv, RefsAccounted, OneDestroyer, NEW t \in Loops,
         LoopBegin(t) \/ LoopGet(t) \/ Handle(t)
  PROVE  object' = "alive" /\ NobodyDies'
<1>1. t \in Running
  <2>1. CASE Handle(t)
    <3>1. \E what \in Whats : loop[t] = [pc |-> "handle", what |-> what]
      BY <2>1 DEF Handle, HandleOther, HandlePrepared, HandleCompleted, HandleSeekComplete,
                  HandleStart, HandlePause, HandleSeek, Handles, Whats
    <3> QED
      BY <3>1 DEF Running
  <2> QED
    BY <2>1 DEF LoopBegin, LoopGet, Running
<1>2. object' = object /\ UNCHANGED caller
  BY DEF LoopBegin, LoopGet, Handle, HandleOther, HandlePrepared, HandleCompleted,
         HandleSeekComplete, HandleStart, HandlePause, HandleSeek, Handles
<1>3. object = "alive" /\ NobodyDies
  BY <1>1, HeldAlive
<1>4. \A u \in Loops : ~Dying(loop'[u].pc)
  <2>0. loop \in LoopStates /\ \A u \in Loops : ~Dying(loop[u].pc)
    BY <1>3 DEF TypeInv, NobodyDies
  <2>1. CASE LoopGet(t)
    BY <2>0, <2>1 DEF LoopGet, LoopStates, Dying
  <2>2. CASE \E pc \in {"get", "exit"} : loop' = [loop EXCEPT ![t].pc = pc]
    BY <2>0, <2>2 DEF LoopStates, Dying
  <2> QED
    BY <2>1, <2>2 DEF LoopBegin, Handle, HandleOther, HandlePrepared, HandleCompleted,
         HandleSeekComplete, HandleStart, HandlePause, HandleSeek, Handles, Goto
<1>5. \A c \in Callers : ~Dying(caller'[c].pc)
  BY <1>2, <1>3 DEF NobodyDies
<1> QED
  BY <1>2, <1>3, <1>4, <1>5 DEF NobodyDies

LEMMA DestroyerStep ==
  ASSUME TypeInv, RefsAccounted, OneDestroyer, [Next]_vars
  PROVE  OneDestroyer'
<1>0. /\ mp \in Players /\ caller \in CallerStates /\ loop \in LoopStates
      /\ mp.ref_count \in Nat /\ object \in {"alive", "freed"}
  BY DEF TypeInv, Players
<1>1. ASSUME NEW c \in Callers,
             \/ \E op \in Ops : Enter(c, op)
             \/ AddDataSource(c) \/ PrepareAsync(c) \/ Start(c) \/ Pause(c) \/ SeekTo(c)
             \/ Stop(c) \/ ReleaseStop(c) \/ ReleaseClose(c) \/ ReleaseHandle(c)
      PROVE  OneDestroyer'
  <2>1. object' = "alive" /\ NobodyDies'
    BY <1>1, CallerHolds
  <2> QED
    BY <2>1 DEF NobodyDies, OneDestroyer
<1>2. ASSUME NEW c \in Callers, Leave(c) PROVE OneDestroyer'
  <2>1. c \in Inside
    BY <1>2 DEF Leave, Inside
  <2>2. mp.ref_count > 0 /\ object = "alive" /\ NobodyDies
    BY <2>1, HeldAlive
  <2>3. /\ UNCHANGED <<object, loop>>
        /\ \A d \in Callers : d # c => caller'[d] = caller[d]
        /\ Dying(caller'[c].pc) => mp'.ref_count = 0
    BY <1>0, <1>2 DEF Leave, CallerStates, Dying
  <2> QED
    BY <2>2, <2>3 DEF OneDestroyer, NobodyDies
<1>3. ASSUME NEW c \in Callers, CallerShutdown(c) PROVE OneDestroyer'
  <2>1. /\ UNCHANGED <<object, loop, mp>>
        /\ Dying(caller[c].pc)
        /\ \A d \in Callers : d # c => caller'[d] = caller[d]
    BY <1>0, <1>3 DEF CallerShutdown, CallerStates, Dying
  <2> QED
    BY <2>1 DEF OneDestroyer
<1>4. ASSUME NEW c \in Callers, CallerDestroy(c) PROVE OneDestroyer'
  <2>1. /\ UNCHANGED <<loop, mp>>
        /\ Dying(caller[c].pc) /\ ~Dying(caller'[c].pc)
        /\ \A d \in Callers : d # c => caller'[d] = caller[d]
    BY <1>0, <1>4 DEF CallerDestroy, CallerStates, Dying
  <2>2. mp.ref_count = 0 /\ NobodyDies'
    BY <2>1 DEF OneDestroyer, NobodyDies
  <2> QED
    BY <2>1, <2>2 DEF OneDestroyer, NobodyDies
<1>5. ASSUME NEW t \in Loops, LoopBegin(t) \/ LoopGet(t) \/ Handle(t)
      PROVE  OneDestroyer'
  <2>1. object' = "alive" /\ NobodyDies'
    BY <1>5, LoopHolds
  <2> QED
    BY <2>1 DEF NobodyDies, OneDestroyer
<1>6. ASSUME NEW t \in Loops, LoopExit(t) PROVE OneDestroyer'
  <2>1. t \in Running
    BY <1>6 DEF LoopExit, Running
  <2>2. mp.ref_count > 0 /\ object = "alive" /\ NobodyDies
    BY <2>1, HeldAlive
  <2>3. /\ UNCHANGED <<object, caller>>
        /\ \A u \in Loops : u # t => loop'[u] = loop[u]
        /\ Dying(loop'[t].pc) => mp'.ref_count = 0
    BY <1>0, <1>6 DEF LoopExit, Goto, LoopStates, Dying
  <2> QED
    BY <2>2, <2>3 DEF OneDestroyer, NobodyDies
<1>7. ASSUME NEW t \in Loops, LoopShutdown(t) PROVE OneDestroyer'
  <2>1. /\ UNCHANGED <<object, caller, mp>>
        /\ Dying(loop[t].pc)
        /\ \A u \in Loops : u # t => loop'[u] = loop[u]
    BY <1>0, <1>7 DEF LoopShutdown, Goto, LoopStates, Dying
  <2> QED
    BY <2>1 DEF OneDestroyer
<1>8. ASSUME NEW t \in Loops, LoopDestroy(t) PROVE OneDestroyer'
  <2>1. /\ UNCHANGED <<caller, mp>>
        /\ Dying(loop[t].pc) /\ ~Dying(loop'[t].pc)
        /\ \A u \in Loops : u # t => loop'[u] = loop[u]
    BY <1>0, <1>8 DEF LoopDestroy, Goto, LoopStates, Dying
  <2>2. mp.ref_count = 0 /\ NobodyDies'
    BY <2>1 DEF OneDestroyer, NobodyDies
  <2> QED
    BY <2>1, <2>2 DEF OneDestroyer, NobodyDies
<1>9. CASE EngineOnly \/ UNCHANGED vars
  <2>1. UNCHANGED <<mp, object, caller, loop>>
    BY <1>9 DEF EngineOnly, vars
  <2> QED
    BY <2>1 DEF OneDestroyer
<1> QED
  BY <1>1, <1>2, <1>3, <1>4, <1>5, <1>6, <1>7, <1>8, <1>9, EngineFrame
  DEF Next, Call, LoopStep

\* The streams are closed, for good.
Closed ==
  \/ object = "freed"
  \/ \E c \in Callers : caller[c].pc = "join"
  \/ \E t \in Loops : loop[t].pc = "join"

VoutGone == Closed => VoutJoined

LEMMA VoutStep ==
  ASSUME TypeInv, RefsAccounted, OneDestroyer, VoutGone, [Next]_vars
  PROVE  VoutGone'
<1>0. /\ caller \in CallerStates /\ loop \in LoopStates /\ nloop \in 0..MaxLoop
      /\ vout \in [Loops -> {"none", "play", "ended", "done"}] /\ MaxLoop \in Nat
  BY MediaPlayerAssumption DEF TypeInv
<1>1. ASSUME NEW c \in Callers,
             \/ \E op \in Ops : Enter(c, op)
             \/ AddDataSource(c) \/ PrepareAsync(c) \/ Start(c) \/ Pause(c) \/ SeekTo(c)
             \/ Stop(c) \/ ReleaseStop(c) \/ ReleaseClose(c) \/ ReleaseHandle(c)
      PROVE  VoutGone'
  <2>1. object' = "alive" /\ NobodyDies'
    BY <1>1, CallerHolds
  <2> QED
    BY <2>1 DEF NobodyDies, Dying, VoutGone, Closed
<1>2. ASSUME NEW t \in Loops, LoopBegin(t) \/ LoopGet(t) \/ Handle(t)
      PROVE  VoutGone'
  <2>1. object' = "alive" /\ NobodyDies'
    BY <1>2, LoopHolds
  <2> QED
    BY <2>1 DEF NobodyDies, Dying, VoutGone, Closed
<1>3. ASSUME NEW c \in Callers, Leave(c) \/ CallerShutdown(c) \/ CallerDestroy(c)
      PROVE  VoutGone'
  <2>1. UNCHANGED <<nloop, vout, loop>>
    BY <1>3 DEF Leave, CallerShutdown, CallerDestroy
  <2>2. Closed' => Closed \/ VoutJoined
    BY <1>0, <1>3, <2>1 DEF Closed, Leave, CallerShutdown, CallerDestroy, Shutdown, CallerStates
  <2> QED
    BY <2>1, <2>2 DEF VoutGone, VoutJoined
<1>4. ASSUME NEW t \in Loops, LoopExit(t) \/ LoopShutdown(t) \/ LoopDestroy(t)
      PROVE  VoutGone'
  <2>1. UNCHANGED <<nloop, vout, caller>>
    BY <1>4 DEF LoopExit, LoopShutdown, LoopDestroy
  <2>2. Closed' => Closed \/ VoutJoined
    BY <1>0, <1>4, <2>1 DEF Closed, LoopExit, LoopShutdown, LoopDestroy, Shutdown, Goto,
                            LoopStates
  <2> QED
    BY <2>1, <2>2 DEF VoutGone, VoutJoined
<1>5. CASE \/ UNCHANGED vars
           \/ ReadStep \/ OpenFails \/ ReadEnds \/ TargetReached \/ ShowStep
           \/ \E v \in Loops : EndReached(v) \/ Complete(v) \/ VoutEnd(v)
  <2>1. UNCHANGED <<object, nloop, caller, loop>>
    BY <1>5, EngineFrame DEF EngineOnly, vars
  <2>2. Closed' = Closed
    BY <2>1 DEF Closed
  <2>3. \/ UNCHANGED vout
        \/ \E v \in Loops : /\ vout[v] \in {"play", "ended"}
                            /\ \E s \in {"play", "ended", "done"} :
                                 vout' = [vout EXCEPT ![v] = s]
    BY <1>5 DEF vars, ReadStep, PostPrepared, PostResume, SeekDone, ResumeOrStep,
                PostSeekComplete, OpenFails, ReadEnds, TargetReached, ShowStep, EndReached,
                Complete, VoutEnd
  <2>4. VoutJoined => VoutJoined'
    BY <1>0, <2>1, <2>3 DEF VoutJoined, Loops
  <2> QED
    BY <2>2, <2>4 DEF VoutGone
<1> QED
  BY <1>1, <1>2, <1>3, <1>4, <1>5 DEF Next, Call, LoopStep
-----------------------------------------------------------------------------
(* The theorems *)

Inv ==
  /\ TypeInv
  /\ RefsAccounted
  /\ Fresh
  /\ OneDestroyer
  /\ VoutGone

LEMMA InvInit == Init => Inv
<1> SUFFICES ASSUME Init PROVE Inv
  OBVIOUS
<1>1. TypeInv
  BY TypeInit
<1>2. RefsAccounted
  <2>1. Inside = {} /\ Running = {}
    BY DEF Init, Inside, Running
  <2>2. handle /\ mp.ref_count = 1
    BY DEF Init
  <2> QED
    BY <2>1, <2>2, FS_EmptySet DEF RefsAccounted, Holders
<1>3. Fresh
  BY DEF Init, Fresh
<1>4. NobodyDies /\ object = "alive" /\ ~Closed
  BY DEF Init, NobodyDies, Dying, Closed
<1> QED
  BY <1>1, <1>2, <1>3, <1>4, NobodyIsOne DEF Inv, VoutGone

LEMMA InvNext == ASSUME Inv, [Next]_vars PROVE Inv'
  BY TypeStep, RefsStep, FreshStep, DestroyerStep, VoutStep DEF Inv

LEMMA InvHolds == Spec => []Inv
<1>1. Init => Inv
  BY InvInit
<1>2. Inv /\ [Next]_vars => Inv'
  BY InvNext
<1> QED
  BY <1>1, <1>2, PTL DEF Spec

\* Every variable keeps its type: ijkplayer.c, ijkplayer_jni.c and the flags of
\* ff_ffplay.c the player reads and writes.
THEOREM PlayerTypeCorrect == Spec => []TypeOK
<1>1. Inv => TypeOK
  BY TypeParts DEF Inv
<1> QED
  BY <1>1, InvHolds, PTL

\* ref_count is the number of those who hold the player, however the native
\* methods, the releases and the message loops interleave, for any number of
\* threads and of calls of prepare_async.
THEOREM RefsCorrect == Spec => []RefsAccounted
<1>1. Inv => RefsAccounted
  BY DEF Inv
<1> QED
  BY <1>1, InvHolds, PTL

\* A freed player is in nobody's hands: no native method and no message loop
\* runs on it, and no second thread is about to free it.
THEOREM FreeCorrect == Spec => []NoUseAfterFree
<1>1. ASSUME Inv, object = "freed"
      PROVE  /\ ~handle
             /\ \A c \in Callers : caller[c].pc = "idle"
             /\ \A t \in Loops : loop[t].pc \in {"none", "done"}
  <2>1. ~handle /\ Inside = {} /\ Running = {}
    BY <1>1, HeldAlive DEF Inv
  <2>2. NobodyDies
    BY <1>1 DEF Inv, OneDestroyer, NobodyDies
  <2>3. caller \in CallerStates /\ loop \in LoopStates
    BY <1>1 DEF Inv, TypeInv
  <2>4. \A c \in Callers : caller[c].pc = "idle"
    BY <2>1, <2>2, <2>3 DEF Inside, NobodyDies, Dying, CallerStates, CallerPcs
  <2>5. \A t \in Loops : loop[t].pc \in {"none", "done"}
    BY <2>1, <2>2, <2>3 DEF Running, NobodyDies, Dying, LoopStates, LoopPcs
  <2> QED
    BY <2>1, <2>4, <2>5
<1>2. Inv => NoUseAfterFree
  BY <1>1 DEF NoUseAfterFree
<1> QED
  BY <1>2, InvHolds, PTL

\* A player that was prepared once is freed after its refresh thread has ended:
\* ffp_wait_stop_l is on every path to ijkmp_destroy.
THEOREM VoutCorrect == Spec => []VoutEnded
<1>1. ASSUME Inv, object = "freed", nloop <= 1, NEW v \in Loops
      PROVE  vout[v] \in {"none", "done"}
  <2>1. VoutJoined /\ nloop \in Nat /\ v \in Nat /\ v > 0
    BY <1>1, MediaPlayerAssumption DEF Inv, VoutGone, Closed, TypeInv, Loops
  <2>2. CASE v > nloop
    BY <1>1, <2>2 DEF Inv, Fresh
  <2>3. CASE v = nloop
    BY <2>1, <2>3 DEF VoutJoined
  <2> QED
    BY <1>1, <2>1, <2>2, <2>3
<1>2. Inv => VoutEnded
  BY <1>1 DEF VoutEnded
<1> QED
  BY <1>2, InvHolds, PTL
-----------------------------------------------------------------------------
(* PAUSED and the clip *)

\* A paused clip was asked to pause and not to go on; a clip that shows one frame
\* is not asked to do both; one that is being opened has no seek under way; and
\* an audio-only player has neither seeks nor steps.
FlagsAgree(e) ==
  /\ e.paused /\ ~e.audio_only => e.pause_req /\ ~e.auto_resume
  /\ e.step /\ e.auto_resume => ~e.pause_req
  /\ e.stream \in {"opening", "resuming"} => e.read = "idle" /\ ~e.step
  /\ e.audio_only => /\ e.stream \in {"none", "open"}
                     /\ ~e.seek_req /\ e.read = "idle" /\ ~e.step

\* The clip is paused, or on its way to the frame it pauses at.
ComesToRest(e) ==
  IF e.audio_only THEN e.stream = "open" => e.paused
  ELSE e.stream \in {"opening", "resuming", "open"} =>
         /\ e.pause_req
         /\ e.paused \/ e.step \/ e.seek_req \/ e.read = "resume"
         /\ e.stream = "open" => ~e.auto_resume

PauseInv == FlagsAgree(eng) /\ (mp.state = "PAUSED" => ComesToRest(eng))

\* What is asked for, and what the clip is about to do.
SameWork(f, e) ==
  /\ f.stream = e.stream /\ f.read = e.read /\ f.seek_req = e.seek_req
  /\ f.step = e.step /\ f.audio_only = e.audio_only

SameFlags(f, e) ==
  SameWork(f, e) /\ f.paused = e.paused /\ f.pause_req = e.pause_req /\ f.auto_resume = e.auto_resume

LEMMA SameFlagsAgree ==
  ASSUME NEW e, NEW f, SameFlags(f, e), FlagsAgree(e)
  PROVE  FlagsAgree(f) /\ (ComesToRest(e) => ComesToRest(f))
BY DEF SameFlags, SameWork, FlagsAgree, ComesToRest

\* stream_update_pause2_l and toggle_pause2.
LEMMA PauseFields ==
  ASSUME NEW e \in Engines
  PROVE  /\ SameWork(UpdatePause(e), e)
         /\ UpdatePause(e).paused <=> e.pause_req /\ ~e.step
         /\ UpdatePause(e).pause_req = e.pause_req
         /\ UpdatePause(e).auto_resume = e.auto_resume
         /\ \A on \in BOOLEAN :
              LET f == TogglePause(e, on) IN
              /\ SameWork(f, e) /\ f \in Engines
              /\ f.paused <=> on /\ ~e.step
              /\ f.pause_req = on /\ f.auto_resume = ~on
<1>1. ASSUME NEW d \in Engines
      PROVE  /\ SameWork(UpdatePause(d), d)
             /\ UpdatePause(d).paused <=> d.pause_req /\ ~d.step
             /\ UpdatePause(d).pause_req = d.pause_req
             /\ UpdatePause(d).auto_resume = d.auto_resume
  <2>1. (d.pause_req /\ ~d.step) \in BOOLEAN
    OBVIOUS
  <2>2. ASSUME NEW b \in BOOLEAN
        PROVE  LET f == [d EXCEPT !.paused = b]
               IN  SameWork(f, d) /\ f.paused = b /\ f.pause_req = d.pause_req /\ f.auto_resume = d.auto_resume
    BY DEF Engines, SameWork
  <2> QED
    BY <2>1, <2>2 DEF UpdatePause
<1>2. ASSUME NEW on \in BOOLEAN
      PROVE  LET f == TogglePause(e, on) IN
             /\ SameWork(f, e) /\ f \in Engines
             /\ f.paused <=> on /\ ~e.step
             /\ f.pause_req = on /\ f.auto_resume = ~on
  <2> DEFINE d == [e EXCEPT !.pause_req = on, !.auto_resume = ~on]
  <2>1. d \in Engines /\ SameWork(d, e) /\ d.pause_req = on /\ d.auto_resume = ~on
    BY DEF Engines, SameWork
  <2>2. TogglePause(e, on) = UpdatePause(d)
    BY DEF TogglePause
  <2>3. TogglePause(e, on) \in Engines
    BY EngineTypes
  <2> HIDE DEF d
  <2> QED
    BY <1>1, <2>1, <2>2, <2>3 DEF SameWork
<1> QED
  BY <1>1, <1>2

\* ffp_seek_to_l asks for a seek, or leaves it pending.
LEMMA SeekFields ==
  ASSUME NEW e \in Engines, NEW b1 \in BOOLEAN, NEW b2 \in BOOLEAN
  PROVE  LET f == Seek(e, b1, b2) IN
         \/ SameFlags(f, e)
         \/ /\ f.stream = e.stream /\ f.read = e.read /\ f.audio_only = e.audio_only
            /\ f.seek_req /\ f.pause_req /\ ~f.step
            /\ f.paused = e.paused /\ f.auto_resume = e.auto_resume
<1> DEFINE d == IF b2 THEN [e EXCEPT !.seek_req = FALSE, !.step = FALSE, !.accurate = FALSE]
                ELSE e
<1>1. /\ d \in Engines /\ d.stream = e.stream /\ d.read = e.read /\ d.audio_only = e.audio_only
      /\ d.paused = e.paused /\ d.auto_resume = e.auto_resume /\ d.pause_req = e.pause_req
      /\ b2 => ~d.seek_req /\ ~d.step /\ ~d.accurate
      /\ ~b2 => d = e
  <2>1. CASE b2
    BY <2>1 DEF Engines
  <2>2. CASE ~b2
    BY <2>2
  <2> QED
    BY <2>1, <2>2
<1>2. Seek(e, b1, b2) = IF d.seek_req \/ d.accurate \/ d.step
                        THEN [d EXCEPT !.pending = TRUE]
                        ELSE [d EXCEPT !.seek_req = TRUE, !.accurate = b1, !.pause_req = TRUE,
                                       !.pending = FALSE]
  BY DEF Seek
<1> HIDE DEF d
<1>3. CASE d.seek_req \/ d.accurate \/ d.step
  <2>1. ~b2 /\ d = e
    BY <1>1, <1>3
  <2> QED
    BY <1>1, <1>2, <1>3, <2>1 DEF SameFlags, SameWork, Engines
<1>4. CASE ~(d.seek_req \/ d.accurate \/ d.step)
  BY <1>1, <1>2, <1>4 DEF Engines
<1> QED
  BY <1>3, <1>4

\* stream_open_video begins anew, but does not forget that it shall go on.
LEMMA OpenFields ==
  ASSUME NEW e \in Engines
  PROVE  LET f == OpenClip(e) IN
         /\ f.stream = "opening" /\ ~f.paused /\ ~f.step /\ ~f.seek_req /\ f.read = "idle"
         /\ f.auto_resume = e.auto_resume /\ f.audio_only = e.audio_only /\ ~f.accurate
<1> DEFINE b == ~StartOnPrepared
<1> DEFINE f1 == [e EXCEPT !.stream = "opening", !.pause_req = b, !.paused = FALSE]
           f2 == [f1 EXCEPT !.step = FALSE, !.seek_req = FALSE, !.accurate = FALSE]
           f3 == [f2 EXCEPT !.read = "idle", !.completed = FALSE, !.atEnd = FALSE]
<1>1. b \in BOOLEAN
  OBVIOUS
<1>2. OpenClip(e) = f3
  BY DEF OpenClip
<1> HIDE DEF b
<1>3. /\ f1 \in Engines /\ f1.stream = "opening" /\ ~f1.paused
      /\ f1.auto_resume = e.auto_resume /\ f1.audio_only = e.audio_only
  BY <1>1 DEF Engines
<1> HIDE DEF f1
<1>4. /\ f2 \in Engines /\ f2.stream = "opening" /\ ~f2.paused /\ ~f2.step /\ ~f2.seek_req /\ ~f2.accurate
      /\ f2.auto_resume = e.auto_resume /\ f2.audio_only = e.audio_only
  BY <1>3 DEF Engines
<1> HIDE DEF f2
<1>5. /\ f3.stream = "opening" /\ ~f3.paused /\ ~f3.step /\ ~f3.seek_req /\ f3.read = "idle" /\ ~f3.accurate
      /\ f3.auto_resume = e.auto_resume /\ f3.audio_only = e.audio_only
  BY <1>4 DEF Engines
<1> QED
  BY <1>2, <1>5

\* A step that leaves the flags of the clip alone, and does not pause.
LEMMA PauseQuiet ==
  ASSUME PauseInv, SameFlags(eng', eng),
         mp'.state = "PAUSED" => mp.state = "PAUSED" \/ ComesToRest(eng)
  PROVE  PauseInv'
<1>1. FlagsAgree(eng') /\ (ComesToRest(eng) => ComesToRest(eng'))
  BY SameFlagsAgree DEF PauseInv
<1> QED
  BY <1>1 DEF PauseInv

\* The streams are told to end, or have ended.
LEMMA PauseStopped ==
  ASSUME PauseInv, eng \in Engines, eng' \in Engines,
         eng'.audio_only = eng.audio_only, eng'.paused = eng.paused, eng'.pause_req = eng.pause_req,
         eng'.auto_resume = eng.auto_resume, eng'.step = eng.step,
         eng'.seek_req => eng.seek_req, eng'.read = eng.read \/ eng'.read = "idle",
         \/ eng'.stream = "none"
         \/ ~eng.audio_only /\ eng'.stream = "aborted"
         \/ SameFlags(eng', eng),
         mp'.state = "PAUSED" => mp.state = "PAUSED"
  PROVE  PauseInv'
<1>1. CASE SameFlags(eng', eng)
  BY <1>1, PauseQuiet
<1>2. CASE eng'.stream = "none"
  BY <1>2 DEF PauseInv, FlagsAgree, ComesToRest
<1>3. CASE ~eng.audio_only /\ eng'.stream = "aborted"
  BY <1>3 DEF PauseInv, FlagsAgree, ComesToRest
<1> QED
  BY <1>1, <1>2, <1>3

LEMMA StopFields ==
  ASSUME eng \in Engines
  PROVE  LET f == StopStreams(eng) IN
         /\ f \in Engines /\ f.audio_only = eng.audio_only /\ f.paused = eng.paused
         /\ f.pause_req = eng.pause_req /\ f.auto_resume = eng.auto_resume
         /\ f.step = eng.step /\ f.seek_req = eng.seek_req /\ f.read = eng.read
         /\ (f = eng \/ (~eng.audio_only /\ f.stream = "aborted"))
<1>1. CASE Streaming(eng) /\ ~AudioOnly
  BY <1>1 DEF StopStreams, Engines, AudioOnly
<1>2. CASE ~(Streaming(eng) /\ ~AudioOnly)
  BY <1>2 DEF StopStreams
<1> QED
  BY <1>1, <1>2

\* No native method wakes a paused clip.
LEMMA CallerPause ==
  ASSUME TypeInv, TypeInv', PauseInv, NEW c \in Callers, (\E op \in Ops : Enter(c, op)) \/ Call(c)
  PROVE  PauseInv'
<1>0. eng \in Engines /\ eng' \in Engines /\ mp \in Players
  BY DEF TypeInv
<1>1. CASE \/ \E op \in Ops : Enter(c, op)
           \/ AddDataSource(c) \/ Start(c) \/ Pause(c) \/ SeekTo(c) \/ ReleaseHandle(c) \/ Leave(c)
           \/ CallerDestroy(c)
  <2>1. eng' = eng
    BY <1>1 DEF Enter, AddDataSource, Start, Pause, SeekTo, ReleaseHandle, Leave, CallerDestroy
  <2>2. mp'.state = mp.state \/ mp'.state = "INITIALIZED"
    BY <1>0, <1>1 DEF Enter, AddDataSource, Start, Pause, SeekTo, ReleaseHandle, Leave, CallerDestroy,
                      Players
  <2> QED
    BY <2>1, <2>2, PauseQuiet DEF SameFlags, SameWork
<1>2. CASE PrepareAsync(c)
  <2>1. CASE PrepareFrom \notin {"INITIALIZED", "STOPPED"}
    <3>1. eng' = eng /\ mp' = [mp EXCEPT !.state = PrepareFrom] /\ ~AudioOnly
      BY <1>2, <2>1 DEF PrepareAsync, PrepareFrom
    <3>2. mp'.state = mp.state
      BY <1>0, <3>1 DEF PrepareFrom, Players
    <3> QED
      BY <3>1, <3>2, PauseQuiet DEF SameFlags, SameWork
  <2>2. CASE PrepareFrom \in {"INITIALIZED", "STOPPED"}
    <3>1. mp'.state \in {"PREPARED", "ASYNC_PREPARING", "ERROR"}
      BY <1>0, <1>2, <2>2 DEF PrepareAsync, Players
    <3>2. \/ ~AudioOnly /\ eng' = OpenClip(eng)
          \/ eng' = eng
          \/ AudioOnly /\ eng' = [eng EXCEPT !.stream = "open"]
      BY <1>2, <2>2 DEF PrepareAsync
    <3>3. CASE ~AudioOnly /\ eng' = OpenClip(eng)
      BY <1>0, <3>1, <3>3, OpenFields DEF PauseInv, FlagsAgree, AudioOnly
    <3>4. CASE eng' = eng
      BY <3>1, <3>4 DEF PauseInv
    <3>5. CASE AudioOnly /\ eng' = [eng EXCEPT !.stream = "open"]
      BY <1>0, <3>1, <3>5 DEF PauseInv, FlagsAgree, AudioOnly, Engines
    <3> QED
      BY <3>2, <3>3, <3>4, <3>5
  <2> QED
    BY <2>1, <2>2
<1>3. CASE Stop(c)
  <2>1. (eng' = StopStreams(eng) /\ mp'.state = "STOPPED") \/ (eng' = eng /\ mp' = mp)
    BY <1>0, <1>3 DEF Stop, Players
  <2>2. CASE eng' = eng /\ mp' = mp
    BY <2>2 DEF PauseInv
  <2>3. CASE eng' = StopStreams(eng) /\ mp'.state = "STOPPED"
    BY <1>0, <2>3, StopFields, PauseStopped DEF SameFlags, SameWork
  <2> QED
    BY <2>1, <2>2, <2>3
<1>4. CASE ReleaseStop(c)
  <2> DEFINE f == StopStreams(eng)
  <2>1. eng' = [f EXCEPT !.abort = TRUE] /\ mp' = mp
    BY <1>4 DEF ReleaseStop
  <2>2. /\ f \in Engines /\ f.audio_only = eng.audio_only /\ f.paused = eng.paused
        /\ f.pause_req = eng.pause_req /\ f.auto_resume = eng.auto_resume
        /\ f.step = eng.step /\ f.seek_req = eng.seek_req /\ f.read = eng.read
        /\ (f = eng \/ (~eng.audio_only /\ f.stream = "aborted"))
    BY <1>0, StopFields
  <2> HIDE DEF f
  <2>3. /\ SameFlags(eng', f)
    BY <2>1, <2>2 DEF Engines, SameFlags, SameWork
  <2> QED
    BY <1>0, <2>1, <2>2, <2>3, PauseStopped DEF SameFlags, SameWork
<1>5. CASE ReleaseClose(c) \/ CallerShutdown(c)
  <2>1. mp' = mp
    BY <1>5 DEF ReleaseClose, CallerShutdown
  <2>2. \/ eng' = [eng EXCEPT !.stream = "none", !.seek_req = FALSE, !.read = "idle"]
        \/ eng' = [eng EXCEPT !.stream = "none", !.abort = TRUE, !.seek_req = FALSE, !.read = "idle"]
    BY <1>5 DEF ReleaseClose, CallerShutdown, Shutdown
  <2>3. /\ eng'.audio_only = eng.audio_only /\ eng'.paused = eng.paused /\ eng'.pause_req = eng.pause_req
        /\ eng'.auto_resume = eng.auto_resume /\ eng'.step = eng.step /\ ~eng'.seek_req
        /\ eng'.read = "idle" /\ eng'.stream = "none"
    BY <1>0, <2>2 DEF Engines
  <2> QED
    BY <1>0, <2>1, <2>3, PauseStopped
<1> QED
  BY <1>1, <1>2, <1>3, <1>4, <1>5 DEF Call

\* What the message loop does with a message keeps PAUSED and the clip together.
LEMMA LoopPause ==
  ASSUME TypeInv, TypeInv', PauseInv, NEW t \in Loops, LoopStep(t)
  PROVE  PauseInv'
<1>0. eng \in Engines /\ eng' \in Engines /\ mp \in Players
  BY DEF TypeInv
<1>1. CASE LoopBegin(t) \/ LoopGet(t) \/ HandleOther(t) \/ LoopExit(t) \/ LoopDestroy(t)
  <2>1. eng' = eng /\ mp'.state = mp.state
    BY <1>0, <1>1 DEF LoopBegin, LoopGet, HandleOther, LoopExit, LoopDestroy, Players
  <2> QED
    BY <2>1, PauseQuiet DEF SameFlags, SameWork
<1>2. CASE HandlePrepared(t)
  <2>1. eng' = eng /\ (mp'.state = "PAUSED" => mp.state = "PAUSED" \/ IsPaused(eng))
    BY <1>0, <1>2 DEF HandlePrepared, Players
  <2>2. IsPaused(eng) => ComesToRest(eng)
    BY DEF IsPaused, Streaming, ComesToRest, PauseInv, FlagsAgree
  <2> QED
    BY <2>1, <2>2, PauseQuiet DEF SameFlags, SameWork
<1>3. CASE HandleCompleted(t)
  <2>1. mp'.state = "COMPLETED" /\ eng' = IF AudioOnly THEN [eng EXCEPT !.paused = TRUE] ELSE eng
    BY <1>0, <1>3 DEF HandleCompleted, Players
  <2>2. FlagsAgree(eng')
    BY <1>0, <2>1 DEF PauseInv, FlagsAgree, AudioOnly, Engines
  <2> QED
    BY <2>1, <2>2 DEF PauseInv
<1>4. CASE HandleSeekComplete(t)
  <2>1. mp'.state = mp.state /\ (eng' = eng \/ eng' = [eng EXCEPT !.pending = FALSE])
    BY <1>0, <1>4 DEF HandleSeekComplete, Players
  <2>2. SameFlags(eng', eng)
    BY <1>0, <2>1 DEF SameFlags, SameWork, Engines
  <2> QED
    BY <2>1, <2>2, PauseQuiet
<1>5. CASE HandleStart(t)
  <2>1. CASE AudioOnly
    <3>1. mp'.state = "STARTED"
      BY <1>0, <1>5, <2>1 DEF HandleStart, Players
    <3>2. eng'.audio_only /\ eng'.stream = eng.stream /\ eng'.seek_req = eng.seek_req
            /\ eng'.read = eng.read /\ eng'.step = eng.step
            /\ eng'.auto_resume = eng.auto_resume /\ eng'.pause_req = eng.pause_req
      <4> DEFINE x == IF mp.restart THEN FALSE ELSE eng.atEnd
      <4>1. eng' = [eng EXCEPT !.paused = FALSE, !.atEnd = x]
        BY <1>5, <2>1 DEF HandleStart
      <4> HIDE DEF x
      <4> QED
        BY <1>0, <2>1, <4>1 DEF Engines, AudioOnly
    <3> QED
      BY <2>1, <3>1, <3>2 DEF PauseInv, FlagsAgree, AudioOnly
  <2>2. CASE ~AudioOnly
    <3> DEFINE m == [mp EXCEPT !.restart = FALSE]
    <3>0. m \in Players /\ m.state = mp.state
      BY <1>0 DEF Players
    <3>1. \/ eng' = eng /\ mp' = mp
          \/ eng' = eng /\ (mp' = m \/ mp' = [m EXCEPT !.seek_req = TRUE])
          \/ eng' = TogglePause(eng, FALSE) /\ mp' = [m EXCEPT !.state = "STARTED"]
      BY <1>5, <2>2 DEF HandleStart, StartPlayer
    <3> HIDE DEF m
    <3>2. \/ eng' = eng /\ mp'.state = mp.state
          \/ eng' = TogglePause(eng, FALSE) /\ mp'.state = "STARTED"
      BY <1>0, <3>0, <3>1 DEF Players
    <3>3. CASE eng' = eng /\ mp'.state = mp.state
      BY <3>3 DEF PauseInv
    <3>4. CASE eng' = TogglePause(eng, FALSE) /\ mp'.state = "STARTED"
      <4>1. SameWork(eng', eng) /\ ~eng'.paused /\ ~eng'.pause_req
        BY <1>0, <3>4, PauseFields
      <4> QED
        BY <2>2, <3>4, <4>1 DEF PauseInv, FlagsAgree, SameWork, AudioOnly
    <3> QED
      BY <3>2, <3>3, <3>4
  <2> QED
    BY <2>1, <2>2
<1>6. CASE HandlePause(t)
  <2>1. CASE AudioOnly
    <3>1. eng' = [eng EXCEPT !.paused = TRUE]
      BY <1>6, <2>1 DEF HandlePause
    <3>2. eng'.audio_only /\ eng'.paused /\ SameWork(eng', eng)
            /\ eng'.auto_resume = eng.auto_resume /\ eng'.pause_req = eng.pause_req
      BY <1>0, <2>1, <3>1 DEF Engines, SameWork, AudioOnly
    <3> QED
      BY <3>2 DEF PauseInv, FlagsAgree, ComesToRest, SameWork
  <2>2. CASE ~AudioOnly /\ Playable /\ Streaming(eng)
    <3>1. eng' = TogglePause(eng, TRUE)
      BY <1>6, <2>2 DEF HandlePause
    <3>2. SameWork(eng', eng) /\ (eng'.paused <=> ~eng.step) /\ eng'.pause_req /\ eng'.auto_resume = FALSE
      BY <1>0, <3>1, PauseFields
    <3> QED
      BY <2>2, <3>2 DEF PauseInv, FlagsAgree, ComesToRest, SameWork, AudioOnly
  <2>3. CASE ~AudioOnly /\ ~(Playable /\ Streaming(eng))
    <3>1. eng' = eng /\ mp'.state = mp.state
      BY <1>0, <1>6, <2>3 DEF HandlePause, Players
    <3> QED
      BY <3>1 DEF PauseInv
  <2> QED
    BY <2>1, <2>2, <2>3
<1>7. CASE HandleSeek(t)
  <2>1. CASE AudioOnly
    <3>1. mp'.state = mp.state /\ eng' = [eng EXCEPT !.atEnd = FALSE]
      BY <1>0, <1>7, <2>1 DEF HandleSeek, Players
    <3>2. SameFlags(eng', eng)
      BY <1>0, <3>1 DEF SameFlags, SameWork, Engines
    <3> QED
      BY <3>1, <3>2, PauseQuiet
  <2>2. CASE ~AudioOnly
    <3>0. mp' = mp /\ ~eng.audio_only
      BY <1>7, <2>2 DEF HandleSeek, AudioOnly
    <3>1. ASSUME NEW b1 \in BOOLEAN, NEW b2 \in BOOLEAN, eng' = Seek(eng, b1, b2)
          PROVE  PauseInv'
      <4>1. CASE SameFlags(eng', eng)
        BY <3>0, <4>1, PauseQuiet
      <4>2. CASE ~SameFlags(eng', eng)
        <5>1. /\ eng'.stream = eng.stream /\ eng'.read = eng.read /\ eng'.audio_only = eng.audio_only
              /\ eng'.seek_req /\ eng'.pause_req /\ ~eng'.step
              /\ eng'.paused = eng.paused /\ eng'.auto_resume = eng.auto_resume
          BY <1>0, <3>1, <4>2, SeekFields
        <5> QED
          BY <3>0, <5>1 DEF PauseInv, FlagsAgree, ComesToRest
      <4> QED
        BY <4>1, <4>2
    <3>2. ASSUME NEW b1 \in BOOLEAN, NEW b2 \in BOOLEAN, eng' = Seek(OpenClip(eng), b1, b2)
          PROVE  PauseInv'
      <4> DEFINE e == OpenClip(eng)
      <4>1. /\ e \in Engines
            /\ e.stream = "opening" /\ ~e.paused /\ ~e.step /\ ~e.seek_req /\ e.read = "idle"
            /\ e.audio_only = eng.audio_only /\ ~e.accurate
        BY <1>0, OpenFields, OpenClipType
      <4>2. eng' = Seek(e, b1, b2)
        BY <3>2
      <4> HIDE DEF e
      <4>3. /\ eng'.stream = "opening" /\ ~eng'.paused /\ ~eng'.step /\ eng'.seek_req /\ eng'.read = "idle"
            /\ eng'.audio_only = eng.audio_only /\ eng'.pause_req
        <5>1. CASE b2
          BY <4>1, <4>2, <5>1 DEF Seek, Engines
        <5>2. CASE ~b2
          BY <4>1, <4>2, <5>2 DEF Seek, Engines
        <5> QED
          BY <5>1, <5>2
      <4> QED
        BY <3>0, <4>3 DEF PauseInv, FlagsAgree, ComesToRest
    <3>3. CASE eng' = eng
      BY <3>0, <3>3 DEF PauseInv
    <3> QED
      BY <1>7, <2>2, <3>1, <3>2, <3>3 DEF HandleSeek
  <2> QED
    BY <2>1, <2>2
<1>8. CASE LoopShutdown(t)
  <2>1. mp' = mp /\ eng' = [eng EXCEPT !.stream = "none", !.abort = TRUE, !.seek_req = FALSE, !.read = "idle"]
    BY <1>8 DEF LoopShutdown, Shutdown
  <2>2. /\ eng'.audio_only = eng.audio_only /\ eng'.paused = eng.paused /\ eng'.pause_req = eng.pause_req
        /\ eng'.auto_resume = eng.auto_resume /\ eng'.step = eng.step /\ ~eng'.seek_req
        /\ eng'.read = "idle" /\ eng'.stream = "none"
    BY <1>0, <2>1 DEF Engines
  <2> QED
    BY <1>0, <2>1, <2>2, PauseStopped
<1> QED
  BY <1>1, <1>2, <1>3, <1>4, <1>5, <1>6, <1>7, <1>8 DEF LoopStep, Handle

\* Nor does a thread of the engine, except to show the frame of a seek.
LEMMA EnginePause ==
  ASSUME TypeInv, TypeInv', PauseInv,
         \/ ReadStep \/ OpenFails \/ ReadEnds \/ TargetReached \/ ShowStep
         \/ \E v \in Loops : EndReached(v) \/ Complete(v) \/ VoutEnd(v)
  PROVE  PauseInv'
<1>0. eng \in Engines /\ eng' \in Engines /\ mp' = mp
  BY DEF TypeInv, EngineOnly, ReadStep, PostPrepared, PostResume, SeekDone, ResumeOrStep,
         PostSeekComplete, OpenFails, ReadEnds, TargetReached, ShowStep, EndReached, Complete, VoutEnd
<1>1. CASE PostPrepared
  <2> DEFINE e == IF StartOnPrepared THEN eng ELSE TogglePause(eng, TRUE)
  <2>1. eng' = [e EXCEPT !.stream = "resuming"] /\ eng.stream = "opening"
    BY <1>1 DEF PostPrepared
  <2>2. /\ e \in Engines /\ SameWork(e, eng)
        /\ \/ e.paused = eng.paused /\ e.pause_req = eng.pause_req /\ e.auto_resume = eng.auto_resume
           \/ (e.paused <=> ~eng.step) /\ e.pause_req = TRUE /\ e.auto_resume = FALSE
    <3>1. CASE StartOnPrepared
      BY <1>0, <3>1 DEF SameWork
    <3>2. CASE ~StartOnPrepared
      BY <1>0, <3>2, PauseFields
    <3> QED
      BY <3>1, <3>2
  <2> HIDE DEF e
  <2>3. /\ eng'.stream = "resuming" /\ eng'.read = e.read /\ eng'.seek_req = e.seek_req
        /\ eng'.step = e.step /\ eng'.audio_only = e.audio_only /\ eng'.paused = e.paused
        /\ eng'.pause_req = e.pause_req /\ eng'.auto_resume = e.auto_resume
    BY <2>1, <2>2 DEF Engines
  <2> QED
    BY <1>0, <2>1, <2>2, <2>3 DEF PauseInv, FlagsAgree, ComesToRest, SameWork
<1>2. CASE PostResume
  <2>1. eng' = [eng EXCEPT !.stream = "open", !.auto_resume = FALSE] /\ eng.stream = "resuming"
    BY <1>2 DEF PostResume
  <2>2. /\ eng'.stream = "open" /\ eng'.read = eng.read /\ eng'.seek_req = eng.seek_req
        /\ eng'.step = eng.step /\ eng'.audio_only = eng.audio_only /\ eng'.paused = eng.paused
        /\ eng'.pause_req = eng.pause_req /\ eng'.auto_resume = FALSE
    BY <1>0, <2>1 DEF Engines
  <2> QED
    BY <1>0, <2>1, <2>2 DEF PauseInv, FlagsAgree, ComesToRest
<1>3. CASE SeekDone
  <2> DEFINE e == [eng EXCEPT !.seek_req = FALSE, !.read = "resume"]
  <2>1. eng' = [e EXCEPT !.completed = FALSE, !.atEnd = FALSE] /\ eng.stream = "open" /\ eng.seek_req
    BY <1>3 DEF SeekDone
  <2>2. /\ e \in Engines /\ e.stream = eng.stream /\ e.read = "resume" /\ ~e.seek_req
        /\ e.step = eng.step /\ e.audio_only = eng.audio_only /\ e.paused = eng.paused
        /\ e.pause_req = eng.pause_req /\ e.auto_resume = eng.auto_resume
    BY <1>0 DEF Engines
  <2> HIDE DEF e
  <2>3. SameFlags(eng', e)
    BY <2>1, <2>2 DEF SameFlags, SameWork, Engines
  <2> QED
    BY <1>0, <2>1, <2>2, <2>3 DEF PauseInv, FlagsAgree, ComesToRest, SameFlags, SameWork
<1>4. CASE ResumeOrStep
  <2> DEFINE d == [eng EXCEPT !.pause_req = FALSE, !.auto_resume = FALSE]
             e == IF eng.auto_resume THEN UpdatePause(d)
                  ELSE IF eng.pause_req THEN [eng EXCEPT !.paused = FALSE, !.step = TRUE]
                  ELSE eng
  <2>1. eng' = [e EXCEPT !.read = "post"] /\ eng.read = "resume"
    BY <1>4 DEF ResumeOrStep
  <2>2. ~eng.audio_only /\ eng.stream \notin {"opening", "resuming"}
    BY <2>1 DEF PauseInv, FlagsAgree
  <2>3. /\ e \in Engines /\ e.stream = eng.stream /\ e.seek_req = eng.seek_req
        /\ e.audio_only = eng.audio_only
        /\ \/ eng.auto_resume /\ e.step = eng.step /\ ~e.paused /\ ~e.pause_req /\ ~e.auto_resume
           \/ ~eng.auto_resume /\ e.auto_resume = eng.auto_resume /\ e.pause_req = eng.pause_req
                /\ IF eng.pause_req THEN e.step /\ ~e.paused
                   ELSE e.paused = eng.paused /\ e.step = eng.step
    <3>1. CASE eng.auto_resume
      <4>1. d \in Engines /\ SameWork(d, eng) /\ d.pause_req = FALSE /\ d.auto_resume = FALSE
        BY <1>0 DEF Engines, SameWork
      <4>2. e = UpdatePause(d)
        BY <3>1
      <4> HIDE DEF d, e
      <4>3. SameWork(e, d) /\ e \in Engines /\ ~e.paused /\ e.pause_req = FALSE /\ e.auto_resume = FALSE
        BY <4>1, <4>2, PauseFields, EngineTypes
      <4> QED
        BY <3>1, <4>1, <4>3 DEF SameWork
    <3>2. CASE ~eng.auto_resume /\ eng.pause_req
      BY <1>0, <3>2 DEF Engines
    <3>3. CASE ~eng.auto_resume /\ ~eng.pause_req
      BY <1>0, <3>3
    <3> QED
      BY <3>1, <3>2, <3>3
  <2> HIDE DEF e
  <2>4. /\ eng'.stream = e.stream /\ eng'.read = "post" /\ eng'.seek_req = e.seek_req
        /\ eng'.step = e.step /\ eng'.audio_only = e.audio_only /\ eng'.paused = e.paused
        /\ eng'.pause_req = e.pause_req /\ eng'.auto_resume = e.auto_resume
    BY <2>1, <2>3 DEF Engines
  <2>5. FlagsAgree(eng')
    BY <2>2, <2>3, <2>4 DEF PauseInv, FlagsAgree
  <2>6. ComesToRest(eng) => ComesToRest(eng')
    BY <2>2, <2>3, <2>4 DEF ComesToRest
  <2> QED
    BY <1>0, <2>5, <2>6 DEF PauseInv
<1>5. CASE PostSeekComplete
  <2>1. eng' = [eng EXCEPT !.read = "idle"] /\ eng.read = "post"
    BY <1>5 DEF PostSeekComplete
  <2>2. /\ eng'.stream = eng.stream /\ eng'.read = "idle" /\ eng'.seek_req = eng.seek_req
        /\ eng'.step = eng.step /\ eng'.audio_only = eng.audio_only /\ eng'.paused = eng.paused
        /\ eng'.pause_req = eng.pause_req /\ eng'.auto_resume = eng.auto_resume
    BY <1>0, <2>1 DEF Engines
  <2> QED
    BY <1>0, <2>1, <2>2 DEF PauseInv, FlagsAgree, ComesToRest
<1>6. CASE OpenFails
  <2>1. eng' = [eng EXCEPT !.stream = "dead"] /\ ~eng.audio_only
    BY <1>6 DEF OpenFails, AudioOnly
  <2>2. /\ eng'.stream = "dead" /\ eng'.audio_only = eng.audio_only /\ eng'.paused = eng.paused
        /\ eng'.pause_req = eng.pause_req /\ eng'.auto_resume = eng.auto_resume /\ eng'.step = eng.step
    BY <1>0, <2>1 DEF Engines
  <2> QED
    BY <1>0, <2>1, <2>2 DEF PauseInv, FlagsAgree, ComesToRest
<1>7. CASE ReadEnds
  <2> DEFINE e == TogglePause(eng, TRUE)
  <2>1. eng' = [e EXCEPT !.auto_resume = FALSE, !.completed = TRUE] /\ ~eng.audio_only
    BY <1>7 DEF ReadEnds, AudioOnly
  <2>2. e \in Engines /\ SameWork(e, eng) /\ (e.paused <=> ~eng.step) /\ e.pause_req = TRUE
    BY <1>0, PauseFields
  <2> HIDE DEF e
  <2>3. SameWork(eng', e) /\ eng'.paused = e.paused /\ eng'.pause_req = e.pause_req /\ eng'.auto_resume = FALSE
    BY <2>1, <2>2 DEF SameWork, Engines
  <2> QED
    BY <1>0, <2>1, <2>2, <2>3 DEF PauseInv, FlagsAgree, ComesToRest, SameWork
<1>8. CASE TargetReached
  <2>1. SameFlags(eng', eng)
    BY <1>0, <1>8 DEF TargetReached, SameFlags, SameWork, Engines
  <2> QED
    BY <1>0, <2>1, PauseQuiet
<1>9. CASE ShowStep
  <2> DEFINE e == [eng EXCEPT !.step = FALSE]
  <2>1. eng' = UpdatePause(e) /\ eng.step
    BY <1>9 DEF ShowStep
  <2>2. /\ e \in Engines /\ e.stream = eng.stream /\ e.read = eng.read /\ e.seek_req = eng.seek_req
        /\ ~e.step /\ e.audio_only = eng.audio_only
        /\ e.pause_req = eng.pause_req /\ e.auto_resume = eng.auto_resume
    BY <1>0 DEF Engines
  <2> HIDE DEF e
  <2>3. /\ SameWork(eng', e) /\ (eng'.paused <=> e.pause_req)
        /\ eng'.pause_req = e.pause_req /\ eng'.auto_resume = e.auto_resume
    BY <2>1, <2>2, PauseFields
  <2> QED
    BY <1>0, <2>1, <2>2, <2>3 DEF PauseInv, FlagsAgree, ComesToRest, SameWork
<1>10. ASSUME NEW v \in Loops, EndReached(v) \/ VoutEnd(v)
       PROVE  PauseInv'
  <2>1. eng' = eng
    BY <1>10 DEF EndReached, VoutEnd
  <2> QED
    BY <1>0, <2>1 DEF PauseInv
<1>11. ASSUME NEW v \in Loops, Complete(v)
       PROVE  PauseInv'
  <2>1. CASE AudioOnly
    <3>1. SameFlags(eng', eng)
      BY <1>0, <1>11, <2>1 DEF Complete, SameFlags, SameWork, Engines
    <3> QED
      BY <1>0, <3>1, PauseQuiet
  <2>2. CASE ~AudioOnly
    <3> DEFINE e == [eng EXCEPT !.pause_req = TRUE, !.auto_resume = FALSE, !.atEnd = TRUE]
    <3>1. eng' = UpdatePause(e) /\ ~eng.audio_only
      BY <1>11, <2>2 DEF Complete, AudioOnly
    <3>2. e \in Engines /\ SameWork(e, eng) /\ e.pause_req = TRUE /\ e.auto_resume = FALSE
      BY <1>0 DEF Engines, SameWork
    <3> HIDE DEF e
    <3>3. /\ SameWork(eng', e) /\ (eng'.paused <=> ~e.step)
          /\ eng'.pause_req = TRUE /\ eng'.auto_resume = FALSE
      BY <3>1, <3>2, PauseFields
    <3> QED
      BY <1>0, <3>1, <3>2, <3>3 DEF PauseInv, FlagsAgree, ComesToRest, SameWork
  <2> QED
    BY <2>1, <2>2
<1> QED
  BY <1>1, <1>2, <1>3, <1>4, <1>5, <1>6, <1>7, <1>8, <1>9, <1>10, <1>11 DEF ReadStep

\* The player is PAUSED only while its clip is, or is about to show the one frame a
\* paused seek ends with, whatever the order in which start, pause, seek, stop,
\* prepare, the end of the clip and the engine's own resume reach it.
THEOREM PausedCorrect == Spec => []PausedIsPaused
<1>1. Init => PauseInv
  <2>1. ASSUME Init PROVE PauseInv
    <3>1. /\ mp.state = "IDLE" /\ eng.stream = "none" /\ ~eng.seek_req /\ eng.read = "idle"
          /\ ~eng.step /\ ~eng.paused
      BY <2>1 DEF Init
    <3> QED
      BY <3>1 DEF PauseInv, FlagsAgree
  <2> QED
    BY <2>1
<1>2. Inv /\ Inv' /\ PauseInv /\ [Next]_vars => PauseInv'
  <2> SUFFICES ASSUME Inv, Inv', PauseInv, [Next]_vars PROVE PauseInv'
    OBVIOUS
  <2>1. TypeInv /\ TypeInv'
    BY DEF Inv
  <2>2. CASE UNCHANGED vars
    BY <2>2 DEF vars, PauseInv
  <2> QED
    BY <2>1, <2>2, CallerPause, LoopPause, EnginePause DEF Next
<1>3. PauseInv => PausedIsPaused
  BY DEF PauseInv, FlagsAgree, ComesToRest, PausedIsPaused
<1> QED
  BY <1>1, <1>2, <1>3, InvHolds, PTL DEF Spec

=============================================================================
