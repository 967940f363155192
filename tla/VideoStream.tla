----------------------------- MODULE VideoStream -----------------------------
(***************************************************************************)
(* One clip with a video stream and no sound (ff_ffplay.c): the read       *)
(* thread fills the packet queue, the video thread decodes into the        *)
(* picture queue, the refresh thread shows the pictures, a control thread  *)
(* (the message loop) seeks, starts and pauses, and a closing thread ends  *)
(* the clip.  Each step is what one thread does between two places where   *)
(* another thread can come in: a queue operation under its mutex, or an    *)
(* unlocked read of what another thread writes.                            *)
(*                                                                         *)
(* A picture is the number of its packet, and its number is its time.      *)
(* Options stay at their defaults: packet-buffering on, framedrop and      *)
(* loop off, accurate seeks by the clip's own flag (f_0xdc).               *)
(***************************************************************************)
EXTENDS Integers, Sequences, FiniteSets

CONSTANTS Last,       \* the clip has the pictures 0..Last
          Keys,       \* key pictures, where a demuxer seek can land
          EndTime,    \* begin_time + duration of the clip
          Limit,      \* packets beyond which the queue counts as full
          PictqSize,  \* slots of the picture queue
          CodecDelay, \* pictures the codec keeps back until it is drained
          MaxSeek,    \* bound: seeks
          MaxToggle,  \* bound: starts and pauses
          FailSeeks,  \* whether a demuxer seek may fail
          MayClose    \* whether the clip may be closed before its end

ASSUME VideoStreamAssumption ==
  /\ Last \in Nat /\ EndTime \in Nat /\ 0 \in Keys /\ Keys \subseteq 0..Last
  /\ Limit \in Nat \ {0} /\ PictqSize \in Nat \ {0, 1} /\ CodecDelay \in Nat
  /\ MaxSeek \in Nat /\ MaxToggle \in Nat /\ FailSeeks \in BOOLEAN
  /\ MayClose \in BOOLEAN

Pictures == 0..Last
Slots == 0..(PictqSize - 1)

VARIABLES
  is,      \* flags of the VideoState every thread reads and writes
  videoq,  \* packet queue: its packets, its serial, abort_request
  pictq,   \* picture queue: a ring of slots and its three indices
  codec,   \* the decoder library: pictures inside, and whether it drains
  dec,     \* the video thread
  rd,      \* the read thread
  rf,      \* the refresh thread
  ui,      \* the control thread and the seek it makes
  closer,  \* the closing thread
  ended,   \* how often the refresh thread ended the clip, capped at 2
  shown,   \* the picture on the screen
  least    \* first picture the last accurate seek asked for

vars == <<is, videoq, pictq, codec, dec, rd, rf, ui, closer, ended, shown, least>>

Packets == [kind : {"data", "flush", "null"}, serial : Nat, n : Pictures]
Frames == [serial : Nat, n : Pictures, gen : Nat]
NoPacket == [kind |-> "null", serial |-> 0, n |-> 0]
NoFrame == [serial |-> 0, n |-> 0, gen |-> 0]

Flags == [paused : BOOLEAN, pause_req : BOOLEAN, step : BOOLEAN,
          buffering_on : BOOLEAN, auto_resume : BOOLEAN, seek_req : BOOLEAN,
          seek_pos : Pictures, accurate : BOOLEAN, force_refresh : BOOLEAN,
          doneVideo : BOOLEAN, abort : BOOLEAN]
PacketQueues == [pkts : Seq(Packets), serial : Nat, abort : BOOLEAN]
PictureQueues == [slot : [Slots -> Frames], rindex : Slots, windex : Slots,
                  size : 0..PictqSize, shown : 0..1]
Codecs == [held : Seq([n : Pictures, gen : Nat]), draining : BOOLEAN]
Decoders == [pc : {"decode", "fetch", "get", "buffer", "block", "asleep",
                   "check", "send", "queue", "slot", "noslot", "fill",
                   "push", "exit"},
             pkt_serial : Nat, finished : Nat, pkt : Packets,
             done : BOOLEAN, frame : Frames]
Readers == [pc : {"loop", "flush", "put", "clear", "settle", "read", "done"},
            target : Pictures, pos : 0..(Last + 1), eof : BOOLEAN,
            completed : BOOLEAN]
Refreshers == [pc : {"top", "look", "time", "next", "empty", "delay", "out"},
               again : BOOLEAN, ending : BOOLEAN, last : Pictures]
Controls == [pc : {"idle", "raise"}, exact : BOOLEAN,
             seeks : 0..MaxSeek, toggles : 0..MaxToggle]

TypeOK ==
  /\ is \in Flags
  /\ videoq \in PacketQueues
  /\ pictq \in PictureQueues
  /\ codec \in Codecs
  /\ dec \in Decoders
  /\ rd \in Readers
  /\ rf \in Refreshers
  /\ ui \in Controls
  /\ closer \in {"none", "wait", "join", "joindec", "closed"}
  /\ ended \in 0..2
  /\ shown \in [serial : Nat, n : Pictures]
  /\ least \in Pictures

\* After stream_component_open: packet_queue_start has put the first flush_pkt.
Init ==
  /\ is = [paused |-> FALSE, pause_req |-> FALSE, step |-> FALSE,
           buffering_on |-> FALSE, auto_resume |-> FALSE, seek_req |-> FALSE,
           seek_pos |-> 0, accurate |-> FALSE, force_refresh |-> FALSE,
           doneVideo |-> FALSE, abort |-> FALSE]
  /\ videoq = [pkts |-> <<[kind |-> "flush", serial |-> 1, n |-> 0]>>,
               serial |-> 1, abort |-> FALSE]
  /\ pictq = [slot |-> [s \in Slots |-> NoFrame], rindex |-> 0, windex |-> 0,
              size |-> 0, shown |-> 0]
  /\ codec = [held |-> <<>>, draining |-> FALSE]
  /\ dec = [pc |-> "decode", pkt_serial |-> 0, finished |-> 0, pkt |-> NoPacket,
            done |-> FALSE, frame |-> NoFrame]
  /\ rd = [pc |-> "loop", target |-> 0, pos |-> 0, eof |-> FALSE, completed |-> FALSE]
  /\ rf = [pc |-> "top", again |-> FALSE, ending |-> FALSE, last |-> 0]
  /\ ui = [pc |-> "idle", exact |-> FALSE, seeks |-> 0, toggles |-> 0]
  /\ closer = "none"
  /\ ended = 0
  /\ shown = [serial |-> 0, n |-> 0]
  /\ least = 0

-----------------------------------------------------------------------------
(* Shared pieces *)

\* stream_update_pause2_l
UpdatePause(v) ==
  [v EXCEPT !.paused = ~v.step /\ (v.pause_req \/ v.buffering_on)]

\* toggle_pause2
TogglePause(v, on) == UpdatePause([v EXCEPT !.pause_req = on, !.auto_resume = ~on])

\* ffp_toggle_buffering
ToggleBuffering(v, on) ==
  IF v.buffering_on = on THEN v ELSE UpdatePause([v EXCEPT !.buffering_on = on])

\* SDL_CondSignal of the packet queue: only the video thread waits there.
WakeGetter(d) == IF d.pc = "asleep" THEN [d EXCEPT !.pc = "block"] ELSE d

\* SDL_CondSignal of the picture queue: only the video thread waits there.
WakeWriter(d) == IF d.pc = "noslot" THEN [d EXCEPT !.pc = "slot"] ELSE d

\* packet_queue_put_private, and the signal it gives.
Put(kind, n) ==
  IF videoq.abort THEN UNCHANGED <<videoq, dec>>
  ELSE LET s == IF kind = "flush" THEN videoq.serial + 1 ELSE videoq.serial
       IN  /\ videoq' = [videoq EXCEPT !.serial = s,
                           !.pkts = Append(@, [kind |-> kind, serial |-> s, n |-> n])]
           /\ dec' = WakeGetter(dec)

\* What packet_queue_get can deliver: a packet with data stays until another
\* one is behind it.
Deliverable ==
  /\ videoq.pkts # <<>>
  /\ Head(videoq.pkts).kind = "null" \/ Len(videoq.pkts) > 1

\* frame_queue_nb_remaining
Remaining(f) == f.size - f.shown

\* frame_queue_peek
Peek(f) == f.slot[(f.rindex + f.shown) % PictqSize]

\* frame_queue_next, with keep_last
Next_(f) ==
  IF f.shown = 0 THEN [f EXCEPT !.shown = 1]
  ELSE [f EXCEPT !.slot[f.rindex] = NoFrame,
                 !.rindex = (@ + 1) % PictqSize, !.size = @ - 1]

-----------------------------------------------------------------------------
(* Read thread: read_thread *)

ReaderAt(pc) == rd.pc = pc /\ ~is.abort

\* The queue is full: no need to read more.
Full == Len(videoq.pkts) > Limit

\* Faulty: pictures still in the picture queue are not counted.
DecodedAll == dec.finished = videoq.serial

\* All packets are decoded and all pictures are shown.
PlayedOut == dec.finished = videoq.serial /\ Remaining(pictq) = 0

\* seek_req seen: buffer, and let the demuxer seek to the key picture before
\* the target; a failed seek leaves the queue as it is.
ReaderSeek ==
  /\ ReaderAt("loop")
  /\ is.seek_req
  /\ is' = ToggleBuffering(is, TRUE)
  /\ \/ \E k \in Keys :
          /\ k <= is.seek_pos
          /\ \A j \in Keys : j <= is.seek_pos => j <= k
          /\ rd' = [rd EXCEPT !.pc = "flush", !.target = is.seek_pos, !.pos = k]
     \/ /\ FailSeeks
        /\ rd' = [rd EXCEPT !.pc = "clear", !.target = is.seek_pos]
  /\ UNCHANGED <<videoq, pictq, codec, dec, rf, ui, closer, ended, shown, least>>

\* packet_queue_flush
ReaderFlush ==
  /\ rd.pc = "flush"
  /\ videoq' = [videoq EXCEPT !.pkts = <<>>]
  /\ rd' = [rd EXCEPT !.pc = "put"]
  /\ UNCHANGED <<is, pictq, codec, dec, rf, ui, closer, ended, shown, least>>

\* packet_queue_put of flush_pkt
ReaderPutFlush ==
  /\ rd.pc = "put"
  /\ Put("flush", 0)
  /\ rd' = [rd EXCEPT !.pc = "clear"]
  /\ least' = IF ui.exact THEN rd.target ELSE 0
  /\ UNCHANGED <<is, pictq, codec, rf, ui, closer, ended, shown>>

\* The seek is over.
ReaderClear ==
  /\ rd.pc = "clear"
  /\ is' = [is EXCEPT !.seek_req = FALSE]
  /\ rd' = [rd EXCEPT !.pc = "settle", !.target = 0, !.eof = FALSE, !.completed = FALSE]
  /\ UNCHANGED <<videoq, pictq, codec, dec, rf, ui, closer, ended, shown, least>>

\* step_to_next_frame2_l
StepToNextFrame(v) == [v EXCEPT !.paused = FALSE, !.step = TRUE]

\* Under mutex_0x18: resume, or step to show one picture while paused.  Then
\* SEEK_COMPLETE, and buffering until the queue has filled.
ReaderSettle ==
  /\ rd.pc = "settle"
  /\ LET resumed == IF is.auto_resume
                    THEN UpdatePause([is EXCEPT !.pause_req = FALSE,
                           !.buffering_on = TRUE, !.auto_resume = FALSE])
                    ELSE is
         stepped == IF resumed.pause_req THEN StepToNextFrame(resumed) ELSE resumed
     IN  is' = ToggleBuffering(stepped, TRUE)
  /\ rd' = [rd EXCEPT !.pc = "loop"]
  /\ UNCHANGED <<videoq, pictq, codec, dec, rf, ui, closer, ended, shown, least>>

\* The queue is full: stop buffering.
ReaderFull ==
  /\ ReaderAt("loop")
  /\ ~is.seek_req
  /\ Full
  /\ ~rd.eof
  /\ is.buffering_on
  /\ is' = ToggleBuffering(is, FALSE)
  /\ UNCHANGED <<videoq, pictq, codec, dec, rd, rf, ui, closer, ended, shown, least>>

\* The clip has played out: pause it.
ReaderComplete ==
  /\ ReaderAt("loop")
  /\ ~is.seek_req
  /\ ~Full
  /\ ~is.paused
  /\ ~rd.completed
  /\ PlayedOut
  /\ rd' = [rd EXCEPT !.pc = "read", !.completed = TRUE]
  /\ is' = TogglePause(ToggleBuffering([is EXCEPT !.auto_resume = FALSE], FALSE), TRUE)
  /\ UNCHANGED <<videoq, pictq, codec, dec, rf, ui, closer, ended, shown, least>>

\* The read thread goes on to av_read_frame in this turn.
Reads ==
  \/ rd.pc = "read"
  \/ ReaderAt("loop") /\ ~is.seek_req /\ ~Full
     /\ ~(PlayedOut /\ (rd.completed \/ ~is.paused))

ReaderPacket ==
  /\ Reads
  /\ rd.pos <= Last
  /\ Put("data", rd.pos)
  /\ rd' = [rd EXCEPT !.pc = "loop", !.pos = @ + 1, !.eof = FALSE]
  /\ UNCHANGED <<is, pictq, codec, rf, ui, closer, ended, shown, least>>

\* Faulty: buffering goes on at the end of the file.
EofKeepsBuffering ==
  /\ Reads
  /\ rd.pos > Last
  /\ IF rd.eof THEN UNCHANGED <<videoq, dec>> ELSE Put("null", 0)
  /\ rd' = [rd EXCEPT !.pc = "loop", !.eof = TRUE]
  /\ UNCHANGED <<is, pictq, codec, rf, ui, closer, ended, shown, least>>

\* End of file: one null packet, and no more buffering.
ReaderEof ==
  /\ Reads
  /\ rd.pos > Last
  /\ IF rd.eof THEN UNCHANGED <<videoq, dec>> ELSE Put("null", 0)
  /\ rd' = [rd EXCEPT !.pc = "loop", !.eof = TRUE]
  /\ is' = ToggleBuffering(is, FALSE)
  /\ UNCHANGED <<pictq, codec, rf, ui, closer, ended, shown, least>>

ReaderExit ==
  /\ rd.pc = "loop"
  /\ is.abort
  /\ rd' = [rd EXCEPT !.pc = "done"]
  /\ UNCHANGED <<is, videoq, pictq, codec, dec, rf, ui, closer, ended, shown, least>>

Reader == \/ ReaderSeek \/ ReaderFlush \/ ReaderPutFlush \/ ReaderClear
          \/ ReaderSettle \/ ReaderFull \/ ReaderComplete \/ ReaderPacket
          \/ ReaderEof \/ ReaderExit

-----------------------------------------------------------------------------
(* Video thread: decoder_decode_frame, queue_picture2 *)

EmptyCodec == [held |-> <<>>, draining |-> FALSE]

\* avcodec_receive_frame has a picture.
HasPicture == /\ codec.held # <<>>
              /\ codec.draining \/ Len(codec.held) > CodecDelay

\* Decoding goes on only while the packets taken are of the queue's serial.
Decoding == dec.pc = "decode" /\ videoq.serial = dec.pkt_serial

ReceivePicture ==
  /\ Decoding
  /\ ~videoq.abort
  /\ HasPicture
  /\ dec' = [dec EXCEPT !.pc = "queue",
               !.frame = [serial |-> dec.pkt_serial, n |-> Head(codec.held).n,
                          gen |-> Head(codec.held).gen]]
  /\ codec' = [codec EXCEPT !.held = Tail(@)]
  /\ UNCHANGED <<is, videoq, pictq, rd, rf, ui, closer, ended, shown, least>>

\* AVERROR_EOF: every picture of this serial is out.
ReceiveEof ==
  /\ Decoding
  /\ ~videoq.abort
  /\ codec.held = <<>> /\ codec.draining
  /\ dec' = [dec EXCEPT !.finished = dec.pkt_serial]
  /\ codec' = EmptyCodec
  /\ UNCHANGED <<is, videoq, pictq, rd, rf, ui, closer, ended, shown, least>>

\* The decoder needs another packet, or was told to stop.
ReceiveNothing ==
  /\ dec.pc = "decode"
  /\ \/ /\ Decoding /\ videoq.abort
        /\ dec' = [dec EXCEPT !.pc = "exit"]
     \/ /\ \/ ~Decoding
           \/ ~videoq.abort /\ ~HasPicture /\ ~codec.draining
        /\ dec' = [dec EXCEPT !.pc = "fetch"]
  /\ UNCHANGED <<is, videoq, pictq, codec, rd, rf, ui, closer, ended, shown, least>>

\* An empty queue is taken for the end of the clip.
FetchPacket ==
  /\ dec.pc = "fetch"
  /\ dec' = [dec EXCEPT !.pc = "get", !.done = videoq.pkts = <<>>]
  /\ is' = [is EXCEPT !.doneVideo = @ \/ videoq.pkts = <<>>]
  /\ UNCHANGED <<videoq, pictq, codec, rd, rf, ui, closer, ended, shown, least>>

\* The part of packet_queue_get that removes the first packet.  What is left
\* of a serial that has ended is dropped (packet_queue_get_or_buffering).
TakePacket ==
  LET p == Head(videoq.pkts)
  IN  /\ videoq' = [videoq EXCEPT !.pkts = Tail(@)]
      /\ dec' = [dec EXCEPT !.pkt = p, !.pkt_serial = p.serial,
                   !.pc = IF dec.finished = p.serial THEN "get" ELSE "check"]

\* packet_queue_get without blocking
GetPacket ==
  /\ dec.pc = "get"
  /\ IF videoq.abort THEN dec' = [dec EXCEPT !.pc = "exit"] /\ UNCHANGED videoq
     ELSE IF Deliverable THEN TakePacket
     ELSE dec' = [dec EXCEPT !.pc = "buffer"] /\ UNCHANGED videoq
  /\ UNCHANGED <<is, pictq, codec, rd, rf, ui, closer, ended, shown, least>>

\* Nothing to take: buffer, then block.
StartBuffering ==
  /\ dec.pc = "buffer"
  /\ dec' = [dec EXCEPT !.pc = "block"]
  /\ is' = IF dec.finished = 0 THEN ToggleBuffering(is, TRUE) ELSE is
  /\ UNCHANGED <<videoq, pictq, codec, rd, rf, ui, closer, ended, shown, least>>

\* packet_queue_get, blocking
BlockForPacket ==
  /\ dec.pc = "block"
  /\ IF videoq.abort THEN dec' = [dec EXCEPT !.pc = "exit"] /\ UNCHANGED videoq
     ELSE IF Deliverable THEN TakePacket
     ELSE dec' = [dec EXCEPT !.pc = "asleep"] /\ UNCHANGED videoq
  /\ UNCHANGED <<is, pictq, codec, rd, rf, ui, closer, ended, shown, least>>

\* The packet counts only if no seek came in between.
CheckPacket ==
  /\ dec.pc = "check"
  /\ is' = [is EXCEPT !.doneVideo = @ \/ dec.done]
  /\ dec' = IF videoq.serial = dec.pkt_serial
             THEN [dec EXCEPT !.pc = "send", !.done = FALSE]
             ELSE [dec EXCEPT !.pc = "fetch", !.done = FALSE, !.pkt = NoPacket]
  /\ UNCHANGED <<videoq, pictq, codec, rd, rf, ui, closer, ended, shown, least>>

\* Faulty: a flush packet leaves the pictures inside the codec.
SendKeepsPictures ==
  /\ dec.pc = "send"
  /\ dec' = [dec EXCEPT !.pc = "decode", !.pkt = NoPacket,
                        !.finished = IF dec.pkt.kind = "flush" THEN 0 ELSE @]
  /\ codec' = CASE dec.pkt.kind = "null" -> [codec EXCEPT !.draining = TRUE]
                [] dec.pkt.kind = "data" -> [codec EXCEPT !.held =
                     Append(@, [n |-> dec.pkt.n, gen |-> dec.pkt.serial])]
                [] OTHER -> codec
  /\ UNCHANGED <<is, videoq, pictq, rd, rf, ui, closer, ended, shown, least>>

\* avcodec_flush_buffers for a flush packet, avcodec_send_packet for another.
SendPacket ==
  /\ dec.pc = "send"
  /\ dec' = [dec EXCEPT !.pc = "decode", !.pkt = NoPacket,
                        !.finished = IF dec.pkt.kind = "flush" THEN 0 ELSE @]
  /\ codec' = CASE dec.pkt.kind = "flush" -> EmptyCodec
                [] dec.pkt.kind = "null" -> [codec EXCEPT !.draining = TRUE]
                [] OTHER -> IF codec.draining THEN codec
                            ELSE [codec EXCEPT !.held =
                              Append(@, [n |-> dec.pkt.n, gen |-> dec.pkt.serial])]
  /\ UNCHANGED <<is, videoq, pictq, rd, rf, ui, closer, ended, shown, least>>

\* queue_picture2: a picture of an old serial, or before the target of an
\* accurate seek, is dropped; the first one at the target ends the search.
QueuePicture ==
  /\ dec.pc = "queue"
  /\ LET stale == dec.frame.serial # videoq.serial
         search == ~is.seek_req /\ is.accurate
         early == search /\ dec.frame.n < is.seek_pos
     IN  /\ dec' = IF stale \/ early THEN [dec EXCEPT !.pc = "decode", !.frame = NoFrame]
                   ELSE [dec EXCEPT !.pc = "slot"]
         /\ is' = IF search /\ ~stale /\ ~early THEN [is EXCEPT !.accurate = FALSE] ELSE is
  /\ UNCHANGED <<videoq, pictq, codec, rd, rf, ui, closer, ended, shown, least>>

\* Faulty: off by one at the size of the queue.
WaitOneLate ==
  /\ dec.pc = "slot"
  /\ dec' = [dec EXCEPT !.pc = CASE videoq.abort -> "exit"
                                 [] pictq.size > PictqSize -> "noslot"
                                 [] OTHER -> "fill"]
  /\ UNCHANGED <<is, videoq, pictq, codec, rd, rf, ui, closer, ended, shown, least>>

\* frame_queue_peek_writable: wait for a slot.
WaitForSlot ==
  /\ dec.pc = "slot"
  /\ dec' = [dec EXCEPT !.pc = CASE videoq.abort -> "exit"
                                 [] pictq.size >= PictqSize -> "noslot"
                                 [] OTHER -> "fill"]
  /\ UNCHANGED <<is, videoq, pictq, codec, rd, rf, ui, closer, ended, shown, least>>

\* The picture is copied into the slot, without the mutex.
FillSlot ==
  /\ dec.pc = "fill"
  /\ pictq' = [pictq EXCEPT !.slot[pictq.windex] = dec.frame]
  /\ dec' = [dec EXCEPT !.pc = "push"]
  /\ UNCHANGED <<is, videoq, codec, rd, rf, ui, closer, ended, shown, least>>

\* frame_queue_push
PushPicture ==
  /\ dec.pc = "push"
  /\ pictq' = [pictq EXCEPT !.windex = (@ + 1) % PictqSize, !.size = @ + 1]
  /\ dec' = [dec EXCEPT !.pc = "decode", !.frame = NoFrame]
  /\ UNCHANGED <<is, videoq, codec, rd, rf, ui, closer, ended, shown, least>>

VideoThread == \/ ReceivePicture \/ ReceiveEof \/ ReceiveNothing \/ FetchPacket
               \/ GetPacket \/ StartBuffering \/ BlockForPacket \/ CheckPacket
               \/ SendPacket \/ QueuePicture \/ WaitForSlot \/ FillSlot
               \/ PushPicture

-----------------------------------------------------------------------------
(* Refresh thread: refresh_not_444 *)

\* The clip's turn: with force_refresh the last picture is looked at again.
RefreshTop ==
  /\ rf.pc = "top"
  /\ ~is.abort
  /\ ~is.paused \/ is.force_refresh
  /\ rf' = [rf EXCEPT !.pc = "look", !.again = is.force_refresh /\ pictq.shown = 1,
                      !.ending = FALSE]
  /\ pictq' = IF is.force_refresh THEN [pictq EXCEPT !.shown = 0] ELSE pictq
  /\ UNCHANGED <<is, videoq, codec, dec, rd, ui, closer, ended, shown, least>>

\* The clip is told to end: let go of it (f_0x9f4).
RefreshLeave ==
  /\ rf.pc = "top"
  /\ is.abort
  /\ rf' = [rf EXCEPT !.pc = "out"]
  /\ UNCHANGED <<is, videoq, pictq, codec, dec, rd, ui, closer, ended, shown, least>>

\* Look at the next picture: drop it when it is of an old serial, else see
\* whether the clip ends with it.
RefreshLook ==
  /\ rf.pc = "look"
  /\ CASE Remaining(pictq) = 0 ->
            /\ rf' = [rf EXCEPT !.pc = "empty"]
            /\ UNCHANGED <<pictq, dec>>
       [] Remaining(pictq) # 0 /\ Peek(pictq).serial # videoq.serial ->
            /\ pictq' = Next_(pictq)
            /\ dec' = WakeWriter(dec)
            /\ rf' = [rf EXCEPT !.again = FALSE]
       [] OTHER ->
            /\ rf' = [rf EXCEPT !.pc = "time",
                        !.ending = is.doneVideo \/ EndTime <= Peek(pictq).n]
            /\ UNCHANGED <<pictq, dec>>
  /\ UNCHANGED <<is, videoq, codec, rd, ui, closer, ended, shown, least>>

\* The picture's time has not come.  A clip that ends does not wait for it.
RefreshNotYet ==
  /\ rf.pc = "time"
  /\ ~is.paused /\ ~rf.again
  /\ rf' = [rf EXCEPT !.pc = IF rf.ending THEN "delay" ELSE "top"]
  /\ UNCHANGED <<is, videoq, pictq, codec, dec, rd, ui, closer, ended, shown, least>>

Show(n) == shown' = [serial |-> Peek(pictq).serial, n |-> n]

\* A picture of a slow clip is shown ahead of its time, too.
RefreshEarly ==
  /\ rf.pc = "time"
  /\ ~is.paused /\ ~rf.again
  /\ Show(Peek(pictq).n)
  /\ shown' # shown
  /\ rf' = [rf EXCEPT !.pc = "look"]
  /\ UNCHANGED <<is, videoq, pictq, codec, dec, rd, ui, closer, ended, least>>

\* Faulty: any picture is dropped when the next one is already due.
LateAlways ==
  /\ rf.pc = "time"
  /\ ~is.paused /\ ~is.step
  /\ Remaining(pictq) > 1
  /\ pictq' = Next_(pictq)
  /\ dec' = WakeWriter(dec)
  /\ rf' = [rf EXCEPT !.pc = "look", !.again = FALSE]
  /\ UNCHANGED <<is, videoq, codec, rd, ui, closer, ended, shown, least>>

\* A picture looked at again is dropped when the next one is already due.
RefreshLate ==
  /\ rf.pc = "time"
  /\ ~is.paused /\ rf.again /\ ~is.step
  /\ Remaining(pictq) > 1
  /\ pictq' = Next_(pictq)
  /\ dec' = WakeWriter(dec)
  /\ rf' = [rf EXCEPT !.pc = "look", !.again = FALSE]
  /\ UNCHANGED <<is, videoq, codec, rd, ui, closer, ended, shown, least>>

\* The last picture shown (f_0x3a8), forgotten when the clip went back.
LastShown(n) == IF n < rf.last THEN 0 ELSE rf.last

\* The picture is shown, unless it is the one shown last.
RefreshShow ==
  /\ rf.pc = "time"
  /\ LET n == Peek(pictq).n
     IN  \/ /\ is.step \/ n > LastShown(n)
            /\ Show(n)
            /\ rf' = [rf EXCEPT !.pc = "next", !.last = n]
            /\ UNCHANGED <<pictq, dec>>
         \/ /\ ~is.step /\ n <= LastShown(n)
            /\ pictq' = Next_(pictq)
            /\ dec' = WakeWriter(dec)
            /\ rf' = [rf EXCEPT !.last = LastShown(n),
                        !.pc = IF Remaining(Next_(pictq)) = 0 THEN "empty" ELSE "look"]
            /\ UNCHANGED shown
  /\ UNCHANGED <<is, videoq, codec, rd, ui, closer, ended, least>>

\* frame_queue_next, then under mutex_0x18 the end of a step.
RefreshNext ==
  /\ rf.pc = "next"
  /\ pictq' = Next_(pictq)
  /\ dec' = WakeWriter(dec)
  /\ LET stepped == IF is.step
                    THEN IF is.paused THEN [is EXCEPT !.step = FALSE]
                         ELSE UpdatePause([is EXCEPT !.step = FALSE])
                    ELSE is
     IN  is' = [stepped EXCEPT !.force_refresh = FALSE]
  /\ rf' = [rf EXCEPT !.pc = IF rf.ending THEN "delay" ELSE "top"]
  /\ UNCHANGED <<videoq, codec, rd, ui, closer, ended, shown, least>>

\* No picture left: the clip ends when the end was seen, or when its time is
\* over, which takes that no more packets come.
RefreshEmpty ==
  /\ rf.pc = "empty"
  /\ is' = [is EXCEPT !.force_refresh = FALSE]
  /\ \/ rf' = [rf EXCEPT !.pc = IF rf.ending THEN "delay" ELSE "top"]
     \/ rd.eof /\ rf' = [rf EXCEPT !.pc = "delay"]
  /\ UNCHANGED <<videoq, pictq, codec, dec, rd, ui, closer, ended, shown, least>>

\* Half a second later ffp_switch_to_next_clip, for the last clip: pause and
\* FFP_MSG_COMPLETED.
SwitchToNextClip ==
  /\ rf.pc = "delay"
  /\ is' = UpdatePause([is EXCEPT !.pause_req = TRUE, !.auto_resume = FALSE,
                                  !.doneVideo = FALSE])
  /\ ended' = IF ended < 2 THEN ended + 1 ELSE ended
  /\ rf' = [rf EXCEPT !.pc = "top", !.ending = FALSE]
  /\ UNCHANGED <<videoq, pictq, codec, dec, rd, ui, closer, shown, least>>

Refresh == \/ RefreshTop \/ RefreshLeave \/ RefreshLook \/ RefreshNotYet
           \/ RefreshEarly \/ RefreshLate \/ RefreshShow \/ RefreshNext
           \/ RefreshEmpty \/ SwitchToNextClip

-----------------------------------------------------------------------------
(* Control thread: ffp_seek_to_l, ffp_start_l, ffp_pause_l *)

\* A seek that would be put off (f_0x3fc) changes nothing here.
SeekPlace ==
  /\ ui.pc = "idle"
  /\ closer = "none"
  /\ ui.seeks < MaxSeek
  /\ ~is.seek_req /\ ~is.accurate /\ ~is.step
  /\ \E t \in Pictures, exact \in BOOLEAN :
       /\ is' = [is EXCEPT !.seek_pos = t, !.accurate = exact]
       /\ ui' = [ui EXCEPT !.pc = "raise", !.exact = exact, !.seeks = @ + 1]
  /\ UNCHANGED <<videoq, pictq, codec, dec, rd, rf, closer, ended, shown, least>>

\* The last three writes of ffp_seek_to_l count as one: of the other two, the
\* read thread reads pause_req only when the demuxer's seek is over.
SeekRaise ==
  /\ ui.pc = "raise"
  /\ is' = [is EXCEPT !.seek_req = TRUE, !.pause_req = TRUE, !.force_refresh = TRUE]
  /\ ui' = [ui EXCEPT !.pc = "idle"]
  /\ UNCHANGED <<videoq, pictq, codec, dec, rd, rf, closer, ended, shown, least>>

\* ffp_start_l, ffp_pause_l
StartOrPause(on) ==
  /\ ui.pc = "idle"
  /\ closer = "none"
  /\ ui.toggles < MaxToggle
  /\ is' = TogglePause(is, on)
  /\ ui' = [ui EXCEPT !.toggles = @ + 1]
  /\ UNCHANGED <<videoq, pictq, codec, dec, rd, rf, closer, ended, shown, least>>

Control == SeekPlace \/ SeekRaise \/ \E on \in BOOLEAN : StartOrPause(on)

-----------------------------------------------------------------------------
(* Closing thread: clip_op_ci_release_to_pool, stream_close2 *)

CloseBegin ==
  /\ MayClose
  /\ closer = "none"
  /\ ui.pc = "idle"
  /\ is' = [is EXCEPT !.abort = TRUE]
  /\ closer' = "wait"
  /\ UNCHANGED <<videoq, pictq, codec, dec, rd, rf, ui, ended, shown, least>>

\* Faulty: the refresh thread may still look at the clip.
CloseAtOnce ==
  /\ closer = "wait"
  /\ videoq' = [videoq EXCEPT !.abort = TRUE]
  /\ dec' = WakeGetter(dec)
  /\ closer' = "join"
  /\ UNCHANGED <<is, pictq, codec, rd, rf, ui, ended, shown, least>>

\* The refresh thread has let go of the clip: packet_queue_abort.
CloseAbort ==
  /\ closer = "wait"
  /\ rf.pc = "out"
  /\ videoq' = [videoq EXCEPT !.abort = TRUE]
  /\ dec' = WakeGetter(dec)
  /\ closer' = "join"
  /\ UNCHANGED <<is, pictq, codec, rd, rf, ui, ended, shown, least>>

\* Faulty: decoder_abort without frame_queue_signal.
JoinReaderSilently ==
  /\ closer = "join"
  /\ rd.pc = "done"
  /\ dec' = WakeGetter(dec)
  /\ closer' = "joindec"
  /\ UNCHANGED <<is, videoq, pictq, codec, rd, rf, ui, ended, shown, least>>

\* The read thread has ended: the first half of decoder_abort.
CloseJoinReader ==
  /\ closer = "join"
  /\ rd.pc = "done"
  /\ dec' = WakeWriter(WakeGetter(dec))
  /\ closer' = "joindec"
  /\ UNCHANGED <<is, videoq, pictq, codec, rd, rf, ui, ended, shown, least>>

\* The video thread has ended: the queues go.
CloseDestroy ==
  /\ closer = "joindec"
  /\ dec.pc = "exit"
  /\ videoq' = [videoq EXCEPT !.pkts = <<>>]
  /\ pictq' = [pictq EXCEPT !.slot = [s \in Slots |-> NoFrame], !.size = 0, !.shown = 0]
  /\ closer' = "closed"
  /\ UNCHANGED <<is, codec, dec, rd, rf, ui, ended, shown, least>>

Close == CloseBegin \/ CloseAbort \/ CloseJoinReader \/ CloseDestroy

-----------------------------------------------------------------------------
Next == Reader \/ VideoThread \/ Refresh \/ Control \/ Close

Spec == Init /\ [][Next]_vars

\* Every thread goes on as long as it can; a picture's time comes, and so
\* does the end of the clip's time.  Nobody has to seek, start or close.
FairSpec ==
  /\ Spec
  /\ WF_vars(Reader) /\ WF_vars(VideoThread) /\ WF_vars(Refresh)
  /\ SF_vars(RefreshShow) /\ SF_vars(RefreshEmpty /\ rf'.pc = "delay")
  /\ WF_vars(SeekRaise)
  /\ WF_vars(CloseAbort) /\ WF_vars(CloseJoinReader) /\ WF_vars(CloseDestroy)

-----------------------------------------------------------------------------
(* Safety *)

\* Slots of pictures that are on the screen or still to be shown.
Live == {(pictq.rindex + i) % PictqSize : i \in 0..(pictq.size - 1)}

\* The video thread never writes into the picture on the screen or into one
\* that waits, and every slot behind the write index is accounted for.
SlotsDisjoint ==
  /\ pictq.windex = (pictq.rindex + pictq.size) % PictqSize \/ closer = "closed"
  /\ dec.pc \in {"fill", "push"} => pictq.windex \notin Live

\* A picture carries the serial of the packet it was decoded from: none gets
\* from before a seek into the pictures after it.
PicturesOfTheirSerial ==
  \A s \in Live : pictq.slot[s].serial = pictq.slot[s].gen

\* When the read thread declares the clip played out, nothing of it is left
\* on the way: no packet, no picture in the codec, the decoder or the queue,
\* but the last one when it is being shown again.
CompletedMeansShown ==
  rd.pc = "read" =>
    /\ codec.held = <<>>
    /\ \A i \in DOMAIN videoq.pkts : videoq.pkts[i].kind # "data"
    /\ Remaining(pictq) = 0 \/ rf.again
    /\ dec.pc \notin {"send", "queue", "slot", "noslot", "fill", "push"}

\* Nobody is left that uses a closed clip.
ClosedIsUnused ==
  closer = "closed" => rf.pc = "out" /\ rd.pc = "done" /\ dec.pc = "exit"

\* A seek is asked for or being carried out, or has failed: the pictures on the
\* screen are still of the serial before it.
Seeking == \/ ui.pc # "idle" \/ is.seek_req \/ is.force_refresh
           \/ shown.serial # ui.seeks + 1

\* The pictures from one seek to the next follow each other on the screen, none
\* left out, and a picture of before a seek never comes after one of after it.
ShownInOrder ==
  [][\/ shown' = shown
     \/ shown'.serial > shown.serial
     \/ shown'.serial = shown.serial /\ (Seeking \/ shown'.n = shown.n + 1)]_vars

-----------------------------------------------------------------------------
(* Liveness *)

\* A clip that plays and is left alone comes to its end: the refresh thread
\* says so, or the read thread stops the clip.
PlaysOut == ended = 0 ~> \/ ended > 0 \/ rd.completed
                         \/ ui.toggles > 0 \/ ui.seeks > 0 \/ is.abort

\* Closing ends: no thread stays asleep in a queue of the clip.
Closes == closer = "wait" ~> closer = "closed"
==============================================================================
