-------------------------- MODULE VideoStreamProofs --------------------------
(***************************************************************************)
(* For a clip of any length, a picture queue of any size and any number of *)
(* seeks, starts and pauses: the video thread keeps out of the pictures    *)
(* that are shown, serials keep the pictures of before and after a seek    *)
(* apart, nothing is left out when the clip is declared played out, the    *)
(* pictures come to the screen in their order, and a closed clip has no    *)
(* threads.                                                                *)
(***************************************************************************)
EXTENDS VideoStream, SequenceTheorems, TLAPS

\* The picture queue is counted right, and the threads that hold a picture or
\* a slot of it have one.
Counts ==
  /\ pictq.shown <= pictq.size
  /\ rf.pc \in {"time", "next"} => pictq.shown < pictq.size
  /\ dec.pc \in {"fill", "push"} => pictq.size < PictqSize

\* The threads end in the order the closing thread waits for them.
Closing ==
  /\ closer \in {"join", "joindec", "closed"} => rf.pc = "out" /\ videoq.abort
  /\ closer \in {"joindec", "closed"} => rd.pc = "done"
  /\ closer = "closed" => dec.pc = "exit"

TInv == TypeOK /\ Counts /\ Closing

\* The write index is the size ahead of the read index.
Ring == closer # "closed" => pictq.windex = (pictq.rindex + pictq.size) % PictqSize

-----------------------------------------------------------------------------
(* The pieces the steps are made of                                        *)

\* The flags stay flags.
LEMMA FlagTypes ==
  ASSUME NEW v \in Flags, NEW on \in BOOLEAN
  PROVE  /\ UpdatePause(v) \in Flags /\ StepToNextFrame(v) \in Flags
         /\ TogglePause(v, on) \in Flags /\ ToggleBuffering(v, on) \in Flags
<1>1. \A u \in Flags : UpdatePause(u) \in Flags
  BY DEF UpdatePause, Flags
<1>2. StepToNextFrame(v) \in Flags
  BY DEF StepToNextFrame, Flags
<1>3. [v EXCEPT !.pause_req = on, !.auto_resume = ~on] \in Flags
  BY DEF Flags
<1>4. [v EXCEPT !.buffering_on = on] \in Flags
  BY DEF Flags
<1> QED
  BY <1>1, <1>2, <1>3, <1>4 DEF TogglePause, ToggleBuffering

\* Waking the video thread changes where it is, and only that.
Woken(d, e) ==
  /\ e \in Decoders
  /\ e.pkt_serial = d.pkt_serial /\ e.finished = d.finished /\ e.pkt = d.pkt
  /\ e.done = d.done /\ e.frame = d.frame
  /\ \/ e.pc = d.pc
     \/ d.pc = "asleep" /\ e.pc = "block"
     \/ d.pc = "noslot" /\ e.pc = "slot"

LEMMA WakeTypes ==
  ASSUME NEW d \in Decoders
  PROVE  /\ Woken(d, d) /\ Woken(d, WakeGetter(d)) /\ Woken(d, WakeWriter(d))
         /\ Woken(d, WakeWriter(WakeGetter(d)))
<1>1. \A e \in Decoders : Woken(e, WakeGetter(e)) /\ Woken(e, WakeWriter(e))
  BY DEF Woken, WakeGetter, WakeWriter, Decoders
<1>2. WakeGetter(d) \in Decoders /\ Woken(WakeGetter(d), WakeWriter(WakeGetter(d)))
  BY <1>1 DEF Woken
<1>3. Woken(d, WakeWriter(WakeGetter(d)))
  BY <1>1, <1>2 DEF Woken
<1> QED
  BY <1>1, <1>3 DEF Woken

\* The remainders the ring is built of.
LEMMA Remainders ==
  ASSUME NEW n \in Nat \ {0}
  PROVE  /\ \A a \in Nat : a % n \in 0..(n - 1)
         /\ \A a \in Nat : a < n => a % n = a
         /\ \A a \in Nat : n <= a /\ a < n + n => a % n = a - n
OBVIOUS

LEMMA NoFrameType == NoFrame \in Frames /\ NoPacket \in Packets
BY VideoStreamAssumption DEF NoFrame, Frames, NoPacket, Packets, Pictures

\* The sizes of the queue as numbers.
LEMMA Sizes ==
  ASSUME pictq \in PictureQueues
  PROVE  /\ PictqSize \in Nat \ {0} /\ PictqSize > 1
         /\ pictq.rindex \in Nat /\ pictq.rindex < PictqSize
         /\ pictq.windex \in Nat /\ pictq.windex < PictqSize
         /\ pictq.size \in Nat /\ pictq.size <= PictqSize
         /\ pictq.shown \in {0, 1} /\ pictq.shown \in Nat
         /\ pictq.slot \in [Slots -> Frames]
         /\ pictq.rindex \in Slots /\ pictq.windex \in Slots
BY VideoStreamAssumption DEF PictureQueues, Slots

\* Letting go of the picture on the screen, when there is a next one.
LEMMA NextType ==
  ASSUME pictq \in PictureQueues, pictq.shown < pictq.size
  PROVE  LET f == Next_(pictq)
         IN  /\ f \in PictureQueues
             /\ f.shown <= f.size /\ f.size <= pictq.size /\ f.windex = pictq.windex
             /\ \A s \in Slots : f.slot[s] \in {pictq.slot[s], NoFrame}
             /\ \/ f.rindex = pictq.rindex /\ f.size = pictq.size
                \/ f.rindex = (pictq.rindex + 1) % PictqSize /\ f.size = pictq.size - 1
<1> USE Sizes, NoFrameType
<1>1. CASE pictq.shown = 0
  <2>1. Next_(pictq) = [pictq EXCEPT !.shown = 1]
    BY <1>1 DEF Next_
  <2> QED
    BY <1>1, <2>1 DEF PictureQueues
<1>2. CASE pictq.shown = 1
  <2> DEFINE g == [pictq.slot EXCEPT ![pictq.rindex] = NoFrame]
             r == (pictq.rindex + 1) % PictqSize
             z == pictq.size - 1
  <2>1. Next_(pictq) = [pictq EXCEPT !.slot = g, !.rindex = r, !.size = z]
    BY <1>2 DEF Next_
  <2>2. g \in [Slots -> Frames] /\ \A s \in Slots : g[s] \in {pictq.slot[s], NoFrame}
    OBVIOUS
  <2>3. r \in Slots
    <3>1. pictq.rindex + 1 \in Nat
      OBVIOUS
    <3> QED
      BY <3>1, Remainders DEF Slots
  <2>4. z \in 0..PictqSize /\ z <= pictq.size /\ pictq.shown <= z
    BY <1>2
  <2> HIDE DEF g, r, z
  <2>5. /\ Next_(pictq) \in PictureQueues /\ Next_(pictq).slot = g
        /\ Next_(pictq).rindex = r /\ Next_(pictq).size = z
        /\ Next_(pictq).shown = pictq.shown /\ Next_(pictq).windex = pictq.windex
    BY <2>1, <2>2, <2>3, <2>4 DEF PictureQueues
  <2> QED
    BY <2>2, <2>4, <2>5 DEF r, z
<1> QED
  BY <1>1, <1>2

\* What putting a packet does.
LEMMA PutEffect ==
  ASSUME videoq \in PacketQueues, dec \in Decoders,
         NEW kind \in {"data", "flush", "null"}, NEW n \in Pictures, Put(kind, n)
  PROVE  /\ videoq' \in PacketQueues /\ Woken(dec, dec') /\ videoq'.abort = videoq.abort
         /\ \/ videoq' = videoq /\ videoq.abort
            \/ /\ videoq'.serial = IF kind = "flush" THEN videoq.serial + 1 ELSE videoq.serial
               /\ videoq'.pkts = Append(videoq.pkts,
                                   [kind |-> kind, serial |-> videoq'.serial, n |-> n])
<1>1. CASE videoq.abort
  BY <1>1, WakeTypes DEF Put
<1>2. CASE ~videoq.abort
  <2> DEFINE s == IF kind = "flush" THEN videoq.serial + 1 ELSE videoq.serial
             p == [kind |-> kind, serial |-> s, n |-> n]
             a == Append(videoq.pkts, p)
  <2>1. s \in Nat /\ videoq.pkts \in Seq(Packets)
    BY DEF PacketQueues
  <2>2. p \in Packets
    BY <2>1 DEF Packets
  <2>3. a \in Seq(Packets)
    BY <2>1, <2>2
  <2>4. videoq' = [videoq EXCEPT !.serial = s, !.pkts = a]
    BY <1>2 DEF Put
  <2>5. dec' = WakeGetter(dec)
    BY <1>2 DEF Put
  <2>6. /\ videoq' \in PacketQueues /\ videoq'.serial = s /\ videoq'.pkts = a
        /\ videoq'.abort = videoq.abort
    <3> HIDE DEF s, a
    <3> QED
      BY <2>1, <2>3, <2>4 DEF PacketQueues
  <2> QED
    BY <2>5, <2>6, WakeTypes
<1> QED
  BY <1>1, <1>2

-----------------------------------------------------------------------------
(* Types                                                                   *)

LEMMA TypeInit == Init => TInv
<1> SUFFICES ASSUME Init PROVE TInv
  OBVIOUS
<1> USE VideoStreamAssumption, NoFrameType
<1>0. 0 \in Pictures /\ 0 \in Slots
  BY DEF Pictures, Slots
<1>1. is \in Flags
  BY <1>0 DEF Init, Flags
<1>2. videoq \in PacketQueues
  <2>1. [kind |-> "flush", serial |-> 1, n |-> 0] \in Packets
    BY <1>0 DEF Packets
  <2> QED
    BY <2>1 DEF Init, PacketQueues
<1>3. pictq \in PictureQueues
  BY <1>0 DEF Init, PictureQueues
<1>4. codec \in Codecs
  BY DEF Init, Codecs
<1>5. dec \in Decoders
  BY DEF Init, Decoders
<1>6. rd \in Readers /\ rf \in Refreshers /\ ui \in Controls
  BY <1>0 DEF Init, Readers, Refreshers, Controls
<1>7. shown \in [serial : Nat, n : Pictures] /\ least \in Pictures
  BY <1>0 DEF Init
<1> QED
  BY <1>1, <1>2, <1>3, <1>4, <1>5, <1>6, <1>7 DEF Init, TInv, TypeOK, Counts, Closing

\* What the read thread may do without disturbing the others.
LEMMA ReaderFrame ==
  ASSUME TInv, rd.pc # "done", is' \in Flags, rd' \in Readers, least' \in Pictures,
         videoq' \in PacketQueues, videoq'.abort = videoq.abort, Woken(dec, dec'),
         UNCHANGED <<pictq, codec, rf, ui, closer, ended, shown>>
  PROVE  TInv'
BY DEF TInv, TypeOK, Counts, Closing, Woken

LEMMA ReaderTypes == TInv /\ Reader => TInv'
<1> SUFFICES ASSUME TInv, Reader PROVE TInv'
  OBVIOUS
<1>0. /\ is \in Flags /\ videoq \in PacketQueues /\ dec \in Decoders /\ rd \in Readers
      /\ least \in Pictures /\ Woken(dec, dec) /\ 0 \in Pictures
  BY WakeTypes, VideoStreamAssumption DEF TInv, TypeOK, Pictures
<1>1. CASE ReaderSeek
  <2>1. is' \in Flags
    BY <1>0, <1>1, FlagTypes DEF ReaderSeek
  <2>2. rd' \in Readers
    <3>1. is.seek_pos \in Pictures /\ \A k \in Keys : k \in 0..(Last + 1)
      BY <1>0, VideoStreamAssumption DEF Flags, Pictures
    <3> QED
      BY <1>0, <1>1, <3>1 DEF ReaderSeek, Readers
  <2> QED
    BY <1>0, <1>1, <2>1, <2>2, ReaderFrame DEF ReaderSeek, ReaderAt
<1>2. CASE ReaderFlush
  <2>1. videoq' \in PacketQueues /\ videoq'.abort = videoq.abort
    <3>1. <<>> \in Seq(Packets)
      OBVIOUS
    <3> QED
      BY <1>0, <1>2, <3>1 DEF ReaderFlush, PacketQueues
  <2>2. rd' \in Readers
    BY <1>0, <1>2 DEF ReaderFlush, Readers
  <2> QED
    BY <1>0, <1>2, <2>1, <2>2, ReaderFrame DEF ReaderFlush
<1>3. CASE ReaderPutFlush
  <2>1. videoq' \in PacketQueues /\ videoq'.abort = videoq.abort /\ Woken(dec, dec')
    BY <1>0, <1>3, PutEffect DEF ReaderPutFlush
  <2>2. rd' \in Readers /\ least' \in Pictures
    BY <1>0, <1>3 DEF ReaderPutFlush, Readers
  <2> QED
    BY <1>0, <1>3, <2>1, <2>2, ReaderFrame DEF ReaderPutFlush
<1>4. CASE ReaderClear
  <2>1. is' \in Flags
    BY <1>0, <1>4 DEF ReaderClear, Flags
  <2>2. rd' \in Readers
    BY <1>0, <1>4 DEF ReaderClear, Readers
  <2> QED
    BY <1>0, <1>4, <2>1, <2>2, ReaderFrame DEF ReaderClear
<1>5. CASE ReaderSettle
  <2>1. is' \in Flags
    <3> DEFINE resumed == IF is.auto_resume
                          THEN UpdatePause([is EXCEPT !.pause_req = FALSE,
                                 !.buffering_on = TRUE, !.auto_resume = FALSE])
                          ELSE is
               stepped == IF resumed.pause_req THEN StepToNextFrame(resumed) ELSE resumed
    <3>1. [is EXCEPT !.pause_req = FALSE, !.buffering_on = TRUE, !.auto_resume = FALSE] \in Flags
      BY <1>0 DEF Flags
    <3>2. resumed \in Flags
      BY <1>0, <3>1, FlagTypes
    <3>3. stepped \in Flags
      <4> HIDE DEF resumed
      <4> QED
        BY <3>2, FlagTypes
    <3>4. is' = ToggleBuffering(stepped, TRUE)
      BY <1>5 DEF ReaderSettle
    <3> HIDE DEF stepped
    <3> QED
      BY <3>3, <3>4, FlagTypes
  <2>2. rd' \in Readers
    BY <1>0, <1>5 DEF ReaderSettle, Readers
  <2> QED
    BY <1>0, <1>5, <2>1, <2>2, ReaderFrame DEF ReaderSettle
<1>6. CASE ReaderFull
  <2>1. is' \in Flags
    BY <1>0, <1>6, FlagTypes DEF ReaderFull
  <2> QED
    BY <1>0, <1>6, <2>1, ReaderFrame DEF ReaderFull, ReaderAt
<1>7. CASE ReaderComplete
  <2>1. is' \in Flags
    <3>1. [is EXCEPT !.auto_resume = FALSE] \in Flags
      BY <1>0 DEF Flags
    <3> QED
      BY <1>7, <3>1, FlagTypes DEF ReaderComplete
  <2>2. rd' \in Readers
    BY <1>0, <1>7 DEF ReaderComplete, Readers
  <2> QED
    BY <1>0, <1>7, <2>1, <2>2, ReaderFrame DEF ReaderComplete, ReaderAt
<1>8. CASE ReaderPacket
  <2>0. rd.pos \in Pictures /\ rd.pos + 1 \in 0..(Last + 1)
    BY <1>0, <1>8, VideoStreamAssumption DEF ReaderPacket, Readers, Pictures
  <2>1. videoq' \in PacketQueues /\ videoq'.abort = videoq.abort /\ Woken(dec, dec')
    BY <1>0, <1>8, <2>0, PutEffect DEF ReaderPacket
  <2>2. rd' \in Readers
    BY <1>0, <1>8, <2>0 DEF ReaderPacket, Readers
  <2> QED
    BY <1>0, <1>8, <2>1, <2>2, ReaderFrame DEF ReaderPacket, Reads, ReaderAt
<1>9. CASE ReaderEof
  <2>1. videoq' \in PacketQueues /\ videoq'.abort = videoq.abort /\ Woken(dec, dec')
    BY <1>0, <1>9, PutEffect DEF ReaderEof
  <2>2. rd' \in Readers
    BY <1>0, <1>9 DEF ReaderEof, Readers
  <2>3. is' \in Flags
    BY <1>0, <1>9, FlagTypes DEF ReaderEof
  <2> QED
    BY <1>0, <1>9, <2>1, <2>2, <2>3, ReaderFrame DEF ReaderEof, Reads, ReaderAt
<1>10. CASE ReaderExit
  <2>1. rd' \in Readers
    BY <1>0, <1>10 DEF ReaderExit, Readers
  <2> QED
    BY <1>0, <1>10, <2>1, ReaderFrame DEF ReaderExit
<1> QED
  BY <1>1, <1>2, <1>3, <1>4, <1>5, <1>6, <1>7, <1>8, <1>9, <1>10 DEF Reader

\* What the video thread may do without disturbing the others.
LEMMA VideoFrame ==
  ASSUME TInv, dec.pc # "exit", is' \in Flags, dec' \in Decoders, codec' \in Codecs,
         videoq' \in PacketQueues, videoq'.abort = videoq.abort,
         pictq' \in PictureQueues, pictq'.shown = pictq.shown, pictq.size <= pictq'.size,
         dec'.pc \in {"fill", "push"} => pictq'.size < PictqSize,
         UNCHANGED <<rd, rf, ui, closer, ended, shown, least>>
  PROVE  TInv'
<1>1. /\ pictq'.shown \in Nat /\ pictq.size \in Nat /\ pictq'.size \in Nat
  BY VideoStreamAssumption DEF TInv, TypeOK, PictureQueues
<1>2. Counts'
  BY <1>1 DEF TInv, Counts
<1> QED
  BY <1>2 DEF TInv, TypeOK, Closing

\* A packet taken from the queue.
LEMMA TakeType ==
  ASSUME videoq \in PacketQueues, dec \in Decoders, TakePacket, Deliverable
  PROVE  /\ videoq' \in PacketQueues /\ videoq'.abort = videoq.abort /\ dec' \in Decoders
         /\ videoq'.serial = videoq.serial /\ videoq'.pkts = Tail(videoq.pkts)
         /\ videoq.pkts # <<>> /\ dec'.pkt = Head(videoq.pkts)
         /\ dec'.pkt_serial = dec'.pkt.serial /\ dec'.finished = dec.finished
         /\ dec'.frame = dec.frame /\ dec'.pc \in {"get", "check"}
         /\ dec'.pc = "get" <=> dec.finished = dec'.pkt_serial
<1> DEFINE p == Head(videoq.pkts)
           t == Tail(videoq.pkts)
           x == IF dec.finished = p.serial THEN "get" ELSE "check"
<1>1. videoq.pkts \in Seq(Packets) /\ videoq.pkts # <<>>
  BY DEF PacketQueues, Deliverable
<1>2. p \in Packets /\ t \in Seq(Packets)
  BY <1>1
<1>3. p.serial \in Nat
  BY <1>2 DEF Packets
<1>4. videoq' = [videoq EXCEPT !.pkts = t]
  BY DEF TakePacket
<1>5. dec' = [dec EXCEPT !.pkt = p, !.pkt_serial = p.serial, !.pc = x]
  BY DEF TakePacket
<1>6. x \in {"get", "check"} /\ (x = "get" <=> dec.finished = p.serial)
  OBVIOUS
<1>7. videoq' \in PacketQueues /\ videoq'.abort = videoq.abort
        /\ videoq'.serial = videoq.serial /\ videoq'.pkts = t
  BY <1>2, <1>4 DEF PacketQueues
<1> HIDE DEF p, x
<1>8. /\ dec' \in Decoders /\ dec'.pkt = p /\ dec'.pkt_serial = p.serial /\ dec'.pc = x
      /\ dec'.finished = dec.finished /\ dec'.frame = dec.frame
  BY <1>2, <1>3, <1>5, <1>6 DEF Decoders
<1> QED
  BY <1>1, <1>6, <1>7, <1>8 DEF p

LEMMA VideoTypes == TInv /\ VideoThread => TInv'
<1> SUFFICES ASSUME TInv, VideoThread PROVE TInv'
  OBVIOUS
<1>0. /\ is \in Flags /\ videoq \in PacketQueues /\ dec \in Decoders /\ codec \in Codecs
      /\ pictq \in PictureQueues /\ pictq.size \in Nat /\ pictq.size <= pictq.size
      /\ dec.pc \in {"fill", "push"} => pictq.size < PictqSize
      /\ NoFrame \in Frames /\ NoPacket \in Packets /\ EmptyCodec \in Codecs
  <2>1. EmptyCodec \in Codecs
    BY DEF EmptyCodec, Codecs
  <2> QED
    BY <2>1, NoFrameType, Sizes DEF TInv, TypeOK, Counts
<1>1. CASE ReceivePicture
  <2> DEFINE h == Head(codec.held)
             f == [serial |-> dec.pkt_serial, n |-> h.n, gen |-> h.gen]
             t == Tail(codec.held)
  <2>1. codec.held \in Seq([n : Pictures, gen : Nat]) /\ codec.held # <<>>
    BY <1>0, <1>1 DEF ReceivePicture, HasPicture, Codecs
  <2>2. h \in [n : Pictures, gen : Nat] /\ t \in Seq([n : Pictures, gen : Nat])
    BY <2>1, HeadTailProperties
  <2>3. f \in Frames
    BY <1>0, <2>2 DEF Frames, Decoders
  <2>4. dec' = [dec EXCEPT !.pc = "queue", !.frame = f] /\ codec' = [codec EXCEPT !.held = t]
    BY <1>1 DEF ReceivePicture
  <2> HIDE DEF h, f, t
  <2>5. dec' \in Decoders /\ dec'.pc = "queue" /\ codec' \in Codecs
    BY <1>0, <2>2, <2>3, <2>4 DEF Decoders, Codecs
  <2> QED
    BY <1>0, <1>1, <2>5, VideoFrame DEF ReceivePicture, Decoding
<1>2. CASE ReceiveEof
  <2>1. dec' \in Decoders /\ dec'.pc = dec.pc /\ codec' \in Codecs
    BY <1>0, <1>2 DEF ReceiveEof, Decoders
  <2> QED
    BY <1>0, <1>2, <2>1, VideoFrame DEF ReceiveEof, Decoding
<1>3. CASE ReceiveNothing
  <2>1. dec' \in Decoders /\ dec'.pc \in {"exit", "fetch"}
    BY <1>0, <1>3 DEF ReceiveNothing, Decoders
  <2> QED
    BY <1>0, <1>3, <2>1, VideoFrame DEF ReceiveNothing
<1>4. CASE FetchPacket
  <2>1. dec' \in Decoders /\ dec'.pc = "get"
    BY <1>0, <1>4 DEF FetchPacket, Decoders
  <2>2. is' \in Flags
    BY <1>0, <1>4 DEF FetchPacket, Flags
  <2> QED
    BY <1>0, <1>4, <2>1, <2>2, VideoFrame DEF FetchPacket
<1>5. CASE GetPacket
  <2>1. CASE ~videoq.abort /\ Deliverable
    BY <1>0, <1>5, <2>1, TakeType, VideoFrame DEF GetPacket
  <2>2. CASE ~(~videoq.abort /\ Deliverable)
    <3>1. dec' \in Decoders /\ dec'.pc \in {"exit", "buffer"} /\ UNCHANGED videoq
      BY <1>0, <1>5, <2>2 DEF GetPacket, Decoders
    <3> QED
      BY <1>0, <1>5, <3>1, VideoFrame DEF GetPacket
  <2> QED
    BY <2>1, <2>2
<1>6. CASE StartBuffering
  <2>1. dec' \in Decoders /\ dec'.pc = "block"
    BY <1>0, <1>6 DEF StartBuffering, Decoders
  <2>2. is' \in Flags
    BY <1>0, <1>6, FlagTypes DEF StartBuffering
  <2> QED
    BY <1>0, <1>6, <2>1, <2>2, VideoFrame DEF StartBuffering
<1>7. CASE BlockForPacket
  <2>1. CASE ~videoq.abort /\ Deliverable
    BY <1>0, <1>7, <2>1, TakeType, VideoFrame DEF BlockForPacket
  <2>2. CASE ~(~videoq.abort /\ Deliverable)
    <3>1. dec' \in Decoders /\ dec'.pc \in {"exit", "asleep"} /\ UNCHANGED videoq
      BY <1>0, <1>7, <2>2 DEF BlockForPacket, Decoders
    <3> QED
      BY <1>0, <1>7, <3>1, VideoFrame DEF BlockForPacket
  <2> QED
    BY <2>1, <2>2
<1>8. CASE CheckPacket
  <2>1. dec' \in Decoders /\ dec'.pc \in {"send", "fetch"}
    BY <1>0, <1>8 DEF CheckPacket, Decoders
  <2>2. is' \in Flags
    BY <1>0, <1>8 DEF CheckPacket, Flags, Decoders
  <2> QED
    BY <1>0, <1>8, <2>1, <2>2, VideoFrame DEF CheckPacket
<1>9. CASE SendPacket
  <2>1. dec' \in Decoders /\ dec'.pc = "decode"
    BY <1>0, <1>9 DEF SendPacket, Decoders
  <2>2. codec' \in Codecs
    <3> DEFINE x == [n |-> dec.pkt.n, gen |-> dec.pkt.serial]
               a == Append(codec.held, x)
    <3>1. x \in [n : Pictures, gen : Nat] /\ codec.held \in Seq([n : Pictures, gen : Nat])
      BY <1>0 DEF Decoders, Packets, Codecs
    <3>2. a \in Seq([n : Pictures, gen : Nat])
      <4> HIDE DEF x
      <4> QED
        BY <3>1
    <3>3. [codec EXCEPT !.held = a] \in Codecs /\ [codec EXCEPT !.draining = TRUE] \in Codecs
      <4> HIDE DEF a
      <4> QED
        BY <1>0, <3>2 DEF Codecs
    <3> QED
      BY <1>0, <1>9, <3>3 DEF SendPacket
  <2> QED
    BY <1>0, <1>9, <2>1, <2>2, VideoFrame DEF SendPacket
<1>10. CASE QueuePicture
  <2>1. dec' \in Decoders /\ dec'.pc \in {"decode", "slot"}
    BY <1>0, <1>10 DEF QueuePicture, Decoders
  <2>2. is' \in Flags
    <3>1. [is EXCEPT !.accurate = FALSE] \in Flags
      BY <1>0 DEF Flags
    <3> QED
      BY <1>0, <1>10, <3>1 DEF QueuePicture
  <2> QED
    BY <1>0, <1>10, <2>1, <2>2, VideoFrame DEF QueuePicture
<1>11. CASE WaitForSlot
  <2>1. /\ dec' \in Decoders /\ dec'.pc \in {"exit", "noslot", "fill"}
        /\ dec'.pc = "fill" => ~(pictq.size >= PictqSize)
    BY <1>0, <1>11 DEF WaitForSlot, Decoders
  <2>2. dec'.pc = "fill" => pictq.size < PictqSize
    BY <1>0, <2>1, VideoStreamAssumption
  <2> QED
    BY <1>0, <1>11, <2>1, <2>2, VideoFrame DEF WaitForSlot
<1>12. CASE FillSlot
  <2>1. dec' \in Decoders /\ dec'.pc = "push" /\ dec.frame \in Frames
    BY <1>0, <1>12 DEF FillSlot, Decoders
  <2>2. pictq' \in PictureQueues /\ pictq'.size = pictq.size /\ pictq'.shown = pictq.shown
    <3> DEFINE g == [pictq.slot EXCEPT ![pictq.windex] = dec.frame]
    <3>1. pictq' = [pictq EXCEPT !.slot = g]
      BY <1>12 DEF FillSlot
    <3>2. g \in [Slots -> Frames]
      BY <1>0, <2>1, Sizes
    <3> HIDE DEF g
    <3> QED
      BY <1>0, <3>1, <3>2 DEF PictureQueues
  <2> QED
    BY <1>0, <1>12, <2>1, <2>2, VideoFrame DEF FillSlot
<1>13. CASE PushPicture
  <2>1. dec' \in Decoders /\ dec'.pc = "decode"
    BY <1>0, <1>13 DEF PushPicture, Decoders
  <2>2. pictq' \in PictureQueues /\ pictq'.size = pictq.size + 1 /\ pictq'.shown = pictq.shown
    <3> DEFINE w == (pictq.windex + 1) % PictqSize
               z == pictq.size + 1
    <3>1. pictq' = [pictq EXCEPT !.windex = w, !.size = z]
      BY <1>13 DEF PushPicture
    <3>2. w \in Slots
      <4>1. pictq.windex + 1 \in Nat
        BY <1>0, Sizes
      <4> QED
        BY <1>0, <4>1, Remainders, Sizes DEF Slots
    <3>3. z \in 0..PictqSize
      BY <1>0, <1>13, Sizes DEF PushPicture
    <3> HIDE DEF w, z
    <3>4. /\ pictq' \in PictureQueues /\ pictq'.size = z /\ pictq'.shown = pictq.shown
      BY <1>0, <3>1, <3>2, <3>3 DEF PictureQueues
    <3> QED
      BY <3>4 DEF z
  <2> QED
    BY <1>0, <1>13, <2>1, <2>2, VideoFrame DEF PushPicture
<1> QED
  BY <1>1, <1>2, <1>3, <1>4, <1>5, <1>6, <1>7, <1>8, <1>9, <1>10, <1>11, <1>12, <1>13
     DEF VideoThread

\* What the refresh thread may do without disturbing the others.
LEMMA RefreshFrame ==
  ASSUME TInv, rf.pc # "out", is' \in Flags, rf' \in Refreshers, Woken(dec, dec'),
         pictq' \in PictureQueues, pictq'.shown <= pictq'.size, pictq'.size <= pictq.size,
         rf'.pc \in {"time", "next"} => pictq'.shown < pictq'.size,
         shown' \in [serial : Nat, n : Pictures], ended' \in 0..2,
         UNCHANGED <<videoq, codec, rd, ui, closer, least>>
  PROVE  TInv'
<1>1. pictq'.size \in Nat /\ pictq.size \in Nat /\ PictqSize \in Nat
  BY VideoStreamAssumption DEF TInv, TypeOK, PictureQueues
<1>2. dec'.pc \in {"fill", "push"} => dec.pc \in {"fill", "push"}
  BY DEF Woken
<1>3. Counts'
  BY <1>1, <1>2 DEF TInv, Counts
<1>4. Closing'
  BY DEF TInv, Closing, Woken
<1> QED
  BY <1>3, <1>4 DEF TInv, TypeOK, Woken

\* The next picture is one of the queue.
LEMMA PeekType ==
  ASSUME pictq \in PictureQueues
  PROVE  Peek(pictq) \in Frames /\ Peek(pictq).serial \in Nat /\ Peek(pictq).n \in Pictures
<1>1. pictq.rindex + pictq.shown \in Nat
  BY Sizes
<1>2. (pictq.rindex + pictq.shown) % PictqSize \in Slots
  BY <1>1, Remainders, Sizes DEF Slots
<1>3. Peek(pictq) \in Frames
  BY <1>2, Sizes DEF Peek
<1> QED
  BY <1>3 DEF Frames

LEMMA RefreshTypes == TInv /\ Refresh => TInv'
<1> SUFFICES ASSUME TInv, Refresh PROVE TInv'
  OBVIOUS
<1>0. /\ is \in Flags /\ videoq \in PacketQueues /\ dec \in Decoders /\ rf \in Refreshers
      /\ pictq \in PictureQueues /\ pictq.size \in Nat /\ pictq.size <= pictq.size
      /\ pictq.shown \in Nat /\ pictq.shown <= pictq.size
      /\ rf.pc \in {"time", "next"} => pictq.shown < pictq.size
      /\ shown \in [serial : Nat, n : Pictures] /\ ended \in 0..2
      /\ Woken(dec, dec) /\ Woken(dec, WakeWriter(dec))
      /\ Peek(pictq) \in Frames /\ Peek(pictq).serial \in Nat /\ Peek(pictq).n \in Pictures
  BY Sizes, PeekType, WakeTypes DEF TInv, TypeOK, Counts
<1>n. pictq.shown < pictq.size =>
        LET f == Next_(pictq)
        IN  f \in PictureQueues /\ f.shown <= f.size /\ f.size <= pictq.size
  BY <1>0, NextType
<1>r. Remaining(pictq) # 0 => pictq.shown < pictq.size
  BY <1>0 DEF Remaining
<1>1. CASE RefreshTop
  <2>1. rf' \in Refreshers /\ rf'.pc = "look"
    BY <1>0, <1>1 DEF RefreshTop, Refreshers
  <2>2. pictq' \in PictureQueues /\ pictq'.size = pictq.size /\ pictq'.shown <= pictq'.size
    BY <1>0, <1>1 DEF RefreshTop, PictureQueues
  <2> QED
    BY <1>0, <1>1, <2>1, <2>2, RefreshFrame DEF RefreshTop
<1>2. CASE RefreshLeave
  <2>1. rf' \in Refreshers /\ rf'.pc = "out"
    BY <1>0, <1>2 DEF RefreshLeave, Refreshers
  <2> QED
    BY <1>0, <1>2, <2>1, RefreshFrame DEF RefreshLeave
<1>3. CASE RefreshLook
  <2>0. rf.pc = "look"
    BY <1>3 DEF RefreshLook
  <2>1. CASE Remaining(pictq) = 0
    <3>1. rf' \in Refreshers /\ rf'.pc = "empty"
      BY <1>0, <1>3, <2>1 DEF RefreshLook, Refreshers
    <3> QED
      BY <1>0, <1>3, <2>0, <2>1, <3>1, RefreshFrame DEF RefreshLook
  <2>2. CASE Remaining(pictq) # 0 /\ Peek(pictq).serial # videoq.serial
    <3>1. rf' = [rf EXCEPT !.again = FALSE] /\ pictq' = Next_(pictq) /\ dec' = WakeWriter(dec)
      BY <1>3, <2>2 DEF RefreshLook
    <3>2. rf' \in Refreshers /\ rf'.pc = "look"
      BY <1>0, <2>0, <3>1 DEF Refreshers
    <3> QED
      BY <1>0, <1>n, <1>r, <1>3, <2>0, <2>2, <3>1, <3>2, RefreshFrame DEF RefreshLook
  <2>3. CASE Remaining(pictq) # 0 /\ Peek(pictq).serial = videoq.serial
    <3>1. /\ rf' = [rf EXCEPT !.pc = "time", !.ending = is.doneVideo \/ EndTime <= Peek(pictq).n]
          /\ UNCHANGED <<pictq, dec>>
      BY <1>3, <2>3 DEF RefreshLook
    <3>2. (is.doneVideo \/ EndTime <= Peek(pictq).n) \in BOOLEAN
      BY <1>0 DEF Flags
    <3>3. rf' \in Refreshers
      BY <1>0, <3>1, <3>2 DEF Refreshers
    <3> QED
      BY <1>0, <1>r, <1>3, <2>0, <2>3, <3>1, <3>3, RefreshFrame DEF RefreshLook
  <2> QED
    BY <2>1, <2>2, <2>3
<1>4. CASE RefreshNotYet
  <2>1. rf' \in Refreshers /\ rf'.pc \in {"delay", "top"}
    BY <1>0, <1>4 DEF RefreshNotYet, Refreshers
  <2> QED
    BY <1>0, <1>4, <2>1, RefreshFrame DEF RefreshNotYet
<1>5. CASE RefreshEarly
  <2>1. rf' \in Refreshers /\ rf'.pc = "look"
    BY <1>0, <1>5 DEF RefreshEarly, Refreshers
  <2>2. shown' \in [serial : Nat, n : Pictures]
    BY <1>0, <1>5 DEF RefreshEarly, Show
  <2> QED
    BY <1>0, <1>5, <2>1, <2>2, RefreshFrame DEF RefreshEarly
<1>6. CASE RefreshLate
  <2>1. rf' \in Refreshers /\ rf'.pc = "look"
    BY <1>0, <1>6 DEF RefreshLate, Refreshers
  <2> QED
    BY <1>0, <1>n, <1>6, <2>1, RefreshFrame DEF RefreshLate
<1>7. CASE RefreshShow
  <2> DEFINE n == Peek(pictq).n
  <2>0. rf.pc = "time" /\ n \in Pictures /\ LastShown(n) \in Pictures
    BY <1>0, <1>7, VideoStreamAssumption DEF RefreshShow, LastShown, Refreshers, Pictures
  <2>1. CASE /\ Show(n) /\ rf' = [rf EXCEPT !.pc = "next", !.last = n]
             /\ UNCHANGED <<pictq, dec>>
    <3>1. rf' \in Refreshers
      BY <1>0, <2>0, <2>1 DEF Refreshers
    <3>2. shown' \in [serial : Nat, n : Pictures]
      BY <1>0, <2>1 DEF Show
    <3> QED
      BY <1>0, <1>7, <2>0, <2>1, <3>1, <3>2, RefreshFrame DEF RefreshShow
  <2>2. CASE /\ pictq' = Next_(pictq) /\ dec' = WakeWriter(dec)
             /\ rf' = [rf EXCEPT !.last = LastShown(n),
                         !.pc = IF Remaining(Next_(pictq)) = 0 THEN "empty" ELSE "look"]
             /\ UNCHANGED shown
    <3>1. rf' \in Refreshers /\ rf'.pc \in {"empty", "look"}
      <4> DEFINE x == IF Remaining(Next_(pictq)) = 0 THEN "empty" ELSE "look"
      <4>1. x \in {"empty", "look"} /\ rf' = [rf EXCEPT !.last = LastShown(n), !.pc = x]
        BY <2>2
      <4> HIDE DEF x, n
      <4> QED
        BY <1>0, <2>0, <4>1 DEF Refreshers
    <3> QED
      BY <1>0, <1>n, <1>7, <2>0, <2>2, <3>1, RefreshFrame DEF RefreshShow
  <2> QED
    BY <1>7, <2>1, <2>2 DEF RefreshShow
<1>8. CASE RefreshNext
  <2>1. rf' \in Refreshers /\ rf'.pc \in {"delay", "top"}
    BY <1>0, <1>8 DEF RefreshNext, Refreshers
  <2>2. is' \in Flags
    <3> DEFINE stepped == IF is.step
                          THEN IF is.paused THEN [is EXCEPT !.step = FALSE]
                               ELSE UpdatePause([is EXCEPT !.step = FALSE])
                          ELSE is
    <3>1. [is EXCEPT !.step = FALSE] \in Flags
      BY <1>0 DEF Flags
    <3>2. stepped \in Flags
      BY <1>0, <3>1, FlagTypes
    <3>3. is' = [stepped EXCEPT !.force_refresh = FALSE]
      BY <1>8 DEF RefreshNext
    <3> HIDE DEF stepped
    <3> QED
      BY <3>2, <3>3 DEF Flags
  <2> QED
    BY <1>0, <1>n, <1>8, <2>1, <2>2, RefreshFrame DEF RefreshNext
<1>9. CASE RefreshEmpty
  <2>1. rf' \in Refreshers /\ rf'.pc \in {"delay", "top"}
    BY <1>0, <1>9 DEF RefreshEmpty, Refreshers
  <2>2. is' \in Flags
    BY <1>0, <1>9 DEF RefreshEmpty, Flags
  <2> QED
    BY <1>0, <1>9, <2>1, <2>2, RefreshFrame DEF RefreshEmpty
<1>10. CASE SwitchToNextClip
  <2>1. rf' \in Refreshers /\ rf'.pc = "top"
    BY <1>0, <1>10 DEF SwitchToNextClip, Refreshers
  <2>2. is' \in Flags
    <3>1. [is EXCEPT !.pause_req = TRUE, !.auto_resume = FALSE, !.doneVideo = FALSE] \in Flags
      BY <1>0 DEF Flags
    <3> QED
      BY <1>10, <3>1, FlagTypes DEF SwitchToNextClip
  <2>3. ended' \in 0..2
    BY <1>0, <1>10 DEF SwitchToNextClip
  <2> QED
    BY <1>0, <1>10, <2>1, <2>2, <2>3, RefreshFrame DEF SwitchToNextClip
<1> QED
  BY <1>1, <1>2, <1>3, <1>4, <1>5, <1>6, <1>7, <1>8, <1>9, <1>10 DEF Refresh

LEMMA ControlTypes == TInv /\ Control => TInv'
<1> SUFFICES ASSUME TInv, Control PROVE TInv'
  OBVIOUS
<1>0. is \in Flags /\ ui \in Controls /\ MaxSeek \in Nat /\ MaxToggle \in Nat
  BY VideoStreamAssumption DEF TInv, TypeOK
<1>1. CASE SeekPlace
  <2>1. PICK t \in Pictures, exact \in BOOLEAN :
          /\ is' = [is EXCEPT !.seek_pos = t, !.accurate = exact]
          /\ ui' = [ui EXCEPT !.pc = "raise", !.exact = exact, !.seeks = @ + 1]
    BY <1>1 DEF SeekPlace
  <2>2. is' \in Flags
    BY <1>0, <2>1 DEF Flags
  <2>3. ui' \in Controls
    <3>1. ui.seeks + 1 \in 0..MaxSeek
      BY <1>0, <1>1 DEF Controls, SeekPlace
    <3> QED
      BY <1>0, <2>1, <3>1 DEF Controls
  <2> QED
    BY <1>1, <2>2, <2>3 DEF SeekPlace, TInv, TypeOK, Counts, Closing
<1>2. CASE SeekRaise
  <2>1. is' \in Flags
    BY <1>0, <1>2 DEF SeekRaise, Flags
  <2>2. ui' \in Controls
    BY <1>0, <1>2 DEF SeekRaise, Controls
  <2> QED
    BY <1>2, <2>1, <2>2 DEF SeekRaise, TInv, TypeOK, Counts, Closing
<1>3. ASSUME NEW on \in BOOLEAN, StartOrPause(on) PROVE TInv'
  <2>1. is' \in Flags
    BY <1>0, <1>3, FlagTypes DEF StartOrPause
  <2>2. ui' \in Controls
    BY <1>0, <1>3 DEF StartOrPause, Controls
  <2> QED
    BY <1>3, <2>1, <2>2 DEF StartOrPause, TInv, TypeOK, Counts, Closing
<1> QED
  BY <1>1, <1>2, <1>3 DEF Control

LEMMA CloseTypes == TInv /\ Close => TInv'
<1> SUFFICES ASSUME TInv, Close PROVE TInv'
  OBVIOUS
<1>0. /\ is \in Flags /\ videoq \in PacketQueues /\ dec \in Decoders /\ pictq \in PictureQueues
      /\ Woken(dec, WakeGetter(dec)) /\ Woken(dec, WakeWriter(WakeGetter(dec)))
      /\ [videoq EXCEPT !.abort = TRUE] \in PacketQueues
  <2>1. \A v \in PacketQueues : [v EXCEPT !.abort = TRUE] \in PacketQueues
    BY DEF PacketQueues
  <2> QED
    BY <2>1, WakeTypes DEF TInv, TypeOK
<1>1. CASE CloseBegin
  <2>1. is' \in Flags
    BY <1>0, <1>1 DEF CloseBegin, Flags
  <2> QED
    BY <1>1, <2>1 DEF CloseBegin, TInv, TypeOK, Counts, Closing
<1>2. CASE CloseAbort
  <2>1. videoq' \in PacketQueues /\ videoq'.abort
    BY <1>0, <1>2 DEF CloseAbort, PacketQueues
  <2> QED
    BY <1>0, <1>2, <2>1 DEF CloseAbort, TInv, TypeOK, Counts, Closing, Woken
<1>3. CASE CloseJoinReader
  BY <1>0, <1>3 DEF CloseJoinReader, TInv, TypeOK, Counts, Closing, Woken
<1>4. CASE CloseDestroy
  <2>1. videoq' \in PacketQueues /\ videoq'.abort = videoq.abort
    <3>1. <<>> \in Seq(Packets)
      OBVIOUS
    <3> QED
      BY <1>0, <1>4, <3>1 DEF CloseDestroy, PacketQueues
  <2>2. pictq' \in PictureQueues /\ pictq'.size = 0 /\ pictq'.shown = 0
    <3> DEFINE g == [s \in Slots |-> NoFrame]
    <3>1. g \in [Slots -> Frames] /\ 0 \in 0..PictqSize /\ 0 \in 0..1
      BY NoFrameType, VideoStreamAssumption
    <3>2. pictq' = [pictq EXCEPT !.slot = g, !.size = 0, !.shown = 0]
      BY <1>4 DEF CloseDestroy
    <3> HIDE DEF g
    <3> QED
      BY <1>0, <3>1, <3>2 DEF PictureQueues
  <2>3. closer' = "closed" /\ closer = "joindec" /\ dec.pc = "exit"
    BY <1>4 DEF CloseDestroy
  <2>4. rf.pc = "out" /\ videoq.abort /\ rd.pc = "done"
    BY <2>3 DEF TInv, Closing
  <2> QED
    BY <1>4, <2>1, <2>2, <2>3, <2>4 DEF CloseDestroy, TInv, TypeOK, Counts, Closing
<1> QED
  BY <1>1, <1>2, <1>3, <1>4 DEF Close

\* Every step keeps the types, the counts of the picture queue and the order in
\* which the threads end.
LEMMA TypeStep == TInv /\ [Next]_vars => TInv'
<1> SUFFICES ASSUME TInv, [Next]_vars PROVE TInv'
  OBVIOUS
<1>1. CASE UNCHANGED vars
  BY <1>1 DEF vars, TInv, TypeOK, Counts, Closing
<1> QED
  BY <1>1, ReaderTypes, VideoTypes, RefreshTypes, ControlTypes, CloseTypes DEF Next

\* Every reachable state is well typed: the indices stay inside the picture
\* queue, its size never exceeds it, and no counter leaves its range.
THEOREM StreamTypeCorrect == Spec => []TypeOK
<1>1. TInv => TypeOK
  BY DEF TInv
<1> QED
  BY <1>1, TypeInit, TypeStep, PTL DEF Spec

\* When the queues of a clip are destroyed (stream_close2), no thread of the
\* clip is left that could use them.
THEOREM CloseCorrect == Spec => []ClosedIsUnused
<1>1. TInv => ClosedIsUnused
  BY DEF TInv, Closing, ClosedIsUnused
<1> QED
  BY <1>1, TypeInit, TypeStep, PTL DEF Spec

-----------------------------------------------------------------------------
(* The ring of pictures                                                    *)

\* The refresh thread lets go of a picture, when there is a next one, or looks at
\* the last one again.
LEMMA RefreshPictq ==
  ASSUME TInv, Refresh
  PROVE  \/ pictq' = pictq
         \/ pictq.shown < pictq.size /\ pictq' = Next_(pictq)
         \/ pictq' = [pictq EXCEPT !.shown = 0]
<1>0. /\ pictq.shown \in Nat /\ pictq.size \in Nat /\ pictq.shown <= pictq.size
      /\ rf.pc \in {"time", "next"} => pictq.shown < pictq.size
  BY Sizes DEF TInv, TypeOK, Counts
<1>1. CASE RefreshLook
  <2>1. Remaining(pictq) # 0 => pictq.shown < pictq.size
    BY <1>0 DEF Remaining
  <2> QED
    BY <1>1, <2>1 DEF RefreshLook
<1>2. CASE RefreshLate \/ RefreshShow \/ RefreshNext
  <2>1. rf.pc \in {"time", "next"} /\ (pictq' = pictq \/ pictq' = Next_(pictq))
    BY <1>2 DEF RefreshLate, RefreshShow, RefreshNext
  <2> QED
    BY <1>0, <2>1
<1>3. CASE RefreshTop
  BY <1>0, <1>3 DEF RefreshTop, PictureQueues
<1>4. CASE RefreshLeave \/ RefreshNotYet \/ RefreshEarly \/ RefreshEmpty \/ SwitchToNextClip
  BY <1>4 DEF RefreshLeave, RefreshNotYet, RefreshEarly, RefreshEmpty, SwitchToNextClip
<1> QED
  BY <1>1, <1>2, <1>3, <1>4 DEF Refresh

\* What a step may do to the picture queue.
PictqSteps ==
  /\ closer = "closed" => closer' = "closed"
  /\ \/ pictq' = pictq
     \/ dec.pc = "fill" /\ pictq' = [pictq EXCEPT !.slot[pictq.windex] = dec.frame]
     \/ dec.pc = "push" /\ pictq' = [pictq EXCEPT !.windex = (@ + 1) % PictqSize, !.size = @ + 1]
     \/ pictq.shown < pictq.size /\ pictq' = Next_(pictq)
     \/ pictq' = [pictq EXCEPT !.shown = 0]
     \/ closer' = "closed" /\ pictq' = [pictq EXCEPT !.slot = [s \in Slots |-> NoFrame],
                                                  !.size = 0, !.shown = 0]

LEMMA PictqEffect == TInv /\ [Next]_vars => PictqSteps
<1> SUFFICES ASSUME TInv, [Next]_vars PROVE PictqSteps
  OBVIOUS
<1>1. CASE UNCHANGED vars
  BY <1>1 DEF vars, PictqSteps
<1>2. CASE Reader
  <2>1. UNCHANGED <<pictq, closer>>
    BY <1>2 DEF Reader, ReaderSeek, ReaderFlush, ReaderPutFlush, ReaderClear, ReaderSettle,
                ReaderFull, ReaderComplete, ReaderPacket, ReaderEof, ReaderExit
  <2> QED
    BY <2>1 DEF PictqSteps
<1>3. CASE VideoThread
  <2>1. CASE FillSlot
    BY <2>1 DEF FillSlot, PictqSteps
  <2>2. CASE PushPicture
    BY <2>2 DEF PushPicture, PictqSteps
  <2>3. CASE ~FillSlot /\ ~PushPicture
    <3>1. UNCHANGED <<pictq, closer>>
      BY <1>3, <2>3 DEF VideoThread, ReceivePicture, ReceiveEof, ReceiveNothing, FetchPacket,
            GetPacket, StartBuffering, BlockForPacket, CheckPacket, SendPacket, QueuePicture,
            WaitForSlot
    <3> QED
      BY <3>1 DEF PictqSteps
  <2> QED
    BY <2>1, <2>2, <2>3
<1>4. CASE Refresh
  <2>0. UNCHANGED closer
    BY <1>4 DEF Refresh, RefreshTop, RefreshLeave, RefreshLook, RefreshNotYet, RefreshEarly,
                RefreshLate, RefreshShow, RefreshNext, RefreshEmpty, SwitchToNextClip
  <2> QED
    BY <1>4, <2>0, RefreshPictq DEF PictqSteps
<1>5. CASE Control
  BY <1>5 DEF Control, SeekPlace, SeekRaise, StartOrPause, PictqSteps
<1>6. CASE Close
  <2>1. CASE CloseDestroy
    BY <2>1 DEF CloseDestroy, PictqSteps
  <2>2. CASE CloseBegin \/ CloseAbort \/ CloseJoinReader
    BY <2>2 DEF CloseBegin, CloseAbort, CloseJoinReader, PictqSteps
  <2> QED
    BY <1>6, <2>1, <2>2 DEF Close
<1> QED
  BY <1>1, <1>2, <1>3, <1>4, <1>5, <1>6 DEF Next

\* Places in a ring of n slots, counted from r.
LEMMA RingPlaces ==
  ASSUME NEW n \in Nat \ {0}, NEW r \in Nat, r < n, NEW z \in Nat, z <= n
  PROVE  /\ z < n => (((r + z) % n) + 1) % n = (r + (z + 1)) % n
         /\ z > 0 => (((r + 1) % n) + (z - 1)) % n = (r + z) % n
         /\ \A i \in 0..(z - 1) : z < n => (r + i) % n # (r + z) % n
<1>1. \A a \in Nat : a < n + n => a % n = IF a < n THEN a ELSE a - n
  <2>1. ASSUME NEW a \in Nat, a < n + n, a < n PROVE a % n = a
    BY <2>1
  <2>2. ASSUME NEW a \in Nat, a < n + n, ~(a < n) PROVE a % n = a - n
    BY <2>2
  <2> QED
    BY <2>1, <2>2
<1>2. ASSUME z < n PROVE (((r + z) % n) + 1) % n = (r + (z + 1)) % n
  <2>1. CASE r + z < n
    <3>1. (r + z) % n = r + z
      BY <1>1, <2>1
    <3> QED
      BY <3>1
  <2>2. CASE ~(r + z < n)
    <3>1. (r + z) % n = r + z - n
      BY <1>1, <1>2, <2>2
    <3>2. (r + z - n + 1) % n = r + z - n + 1
      BY <1>1, <1>2, <2>2
    <3>3. (r + (z + 1)) % n = r + (z + 1) - n
      BY <1>1, <1>2, <2>2
    <3> QED
      BY <3>1, <3>2, <3>3
  <2> QED
    BY <2>1, <2>2
<1>3. ASSUME z > 0 PROVE (((r + 1) % n) + (z - 1)) % n = (r + z) % n
  <2>1. CASE r + 1 < n
    <3>1. (r + 1) % n = r + 1
      BY <1>1, <2>1
    <3> QED
      BY <3>1
  <2>2. CASE ~(r + 1 < n)
    <3>1. (r + 1) % n = 0 /\ r + z - n = z - 1 /\ r + 1 = n
      BY <1>1, <2>2
    <3>2. (r + z) % n = z - 1 /\ (z - 1) % n = z - 1
      BY <1>1, <1>3, <3>1
    <3> QED
      BY <3>1, <3>2
  <2> QED
    BY <2>1, <2>2
<1>4. ASSUME NEW i \in 0..(z - 1), z < n PROVE (r + i) % n # (r + z) % n
  <2>1. (r + i) % n = IF r + i < n THEN r + i ELSE r + i - n
    BY <1>1, <1>4
  <2>2. (r + z) % n = IF r + z < n THEN r + z ELSE r + z - n
    BY <1>1, <1>4
  <2> QED
    BY <1>4, <2>1, <2>2
<1> QED
  BY <1>2, <1>3, <1>4

LEMMA RingInit == Init => Ring
<1>1. (0 + 0) % PictqSize = 0
  BY Remainders, VideoStreamAssumption
<1> QED
  BY <1>1 DEF Init, Ring

LEMMA RingStep == TInv /\ Ring /\ [Next]_vars => Ring'
<1> SUFFICES ASSUME TInv, Ring, [Next]_vars, closer' # "closed"
             PROVE  pictq'.windex = (pictq'.rindex + pictq'.size) % PictqSize
  BY DEF Ring
<1> DEFINE r == pictq.rindex
           z == pictq.size
<1>0. PictqSteps /\ pictq \in PictureQueues
  BY PictqEffect DEF TInv, TypeOK
<1>1. pictq.windex = (r + z) % PictqSize
  BY <1>0 DEF Ring, PictqSteps
<1>2. /\ PictqSize \in Nat \ {0} /\ r \in Nat /\ r < PictqSize /\ z \in Nat /\ z <= PictqSize
  BY <1>0, Sizes
<1>p. /\ z < PictqSize =>
           (((r + z) % PictqSize) + 1) % PictqSize = (r + (z + 1)) % PictqSize
      /\ z > 0 =>
           (((r + 1) % PictqSize) + (z - 1)) % PictqSize = (r + z) % PictqSize
  BY <1>2, RingPlaces
<1>3. CASE pictq' = pictq
  BY <1>1, <1>3
<1>4. CASE pictq' = [pictq EXCEPT !.slot[pictq.windex] = dec.frame]
           \/ pictq' = [pictq EXCEPT !.shown = 0]
  <2>1. pictq'.windex = pictq.windex /\ pictq'.rindex = r /\ pictq'.size = z
    BY <1>0, <1>4 DEF PictureQueues
  <2> QED
    BY <1>1, <2>1
<1>5. CASE dec.pc = "push" /\ pictq' = [pictq EXCEPT !.windex = (@ + 1) % PictqSize, !.size = @ + 1]
  <2>1. pictq'.windex = (pictq.windex + 1) % PictqSize /\ pictq'.rindex = r /\ pictq'.size = z + 1
    BY <1>0, <1>5 DEF PictureQueues
  <2>2. z < PictqSize
    BY <1>5 DEF TInv, Counts
  <2> QED
    BY <1>1, <1>p, <2>1, <2>2
<1>6. CASE pictq.shown < pictq.size /\ pictq' = Next_(pictq)
  <2>1. /\ pictq'.windex = pictq.windex
        /\ \/ pictq'.rindex = r /\ pictq'.size = z
           \/ pictq'.rindex = (r + 1) % PictqSize /\ pictq'.size = z - 1
    BY <1>0, <1>6, NextType
  <2>2. z > 0
    BY <1>0, <1>2, <1>6, Sizes
  <2> QED
    BY <1>1, <1>p, <2>1, <2>2
<1> QED
  BY <1>0, <1>3, <1>4, <1>5, <1>6 DEF PictqSteps

\* The slot the video thread fills (frame_queue_peek_writable to frame_queue_push)
\* is never one of a picture on the screen or of one that waits to be shown.
THEOREM SlotsCorrect == Spec => []SlotsDisjoint
<1>1. TInv /\ Ring => SlotsDisjoint
  <2> SUFFICES ASSUME TInv, Ring, dec.pc \in {"fill", "push"},
                      NEW i \in 0..(pictq.size - 1)
               PROVE  pictq.windex # (pictq.rindex + i) % PictqSize
    BY DEF SlotsDisjoint, Live, Ring
  <2>1. /\ PictqSize \in Nat \ {0} /\ pictq.rindex \in Nat /\ pictq.rindex < PictqSize
        /\ pictq.size \in Nat /\ pictq.size <= PictqSize /\ pictq.size < PictqSize
    BY Sizes DEF TInv, TypeOK, Counts
  <2>2. pictq.windex = (pictq.rindex + pictq.size) % PictqSize
    BY DEF Ring, TInv, Closing
  <2>3. (pictq.rindex + i) % PictqSize # (pictq.rindex + pictq.size) % PictqSize
    BY <2>1, RingPlaces
  <2> QED
    BY <2>2, <2>3
<1>2. Init => TInv /\ Ring
  BY TypeInit, RingInit
<1>3. TInv /\ Ring /\ [Next]_vars => (TInv /\ Ring)'
  BY TypeStep, RingStep
<1> QED
  BY <1>1, <1>2, <1>3, PTL DEF Spec

-----------------------------------------------------------------------------
(* Serials                                                                 *)

\* The picture the video thread carries, and those in the slots, have the serial
\* of their packet.
InHand ==
  dec.pc \in {"queue", "slot", "noslot", "fill", "push"} => dec.frame.serial = dec.frame.gen
InSlots == \A s \in Slots : pictq.slot[s].serial = pictq.slot[s].gen

\* Serials grow along the way of the packets.
Sorted ==
  /\ \A i, j \in 1..Len(videoq.pkts) : i <= j => videoq.pkts[i].serial <= videoq.pkts[j].serial
  /\ \A i \in 1..Len(videoq.pkts) : /\ dec.pkt_serial <= videoq.pkts[i].serial
                                   /\ videoq.pkts[i].serial <= videoq.serial
  /\ dec.finished <= dec.pkt_serial /\ dec.pkt_serial <= videoq.serial
  /\ dec.pc \in {"check", "send"} => dec.pkt.serial = dec.pkt_serial

\* The first packet of a new serial is a flush, or is about to be put.
FlushAhead ==
  \E j \in 1..Len(videoq.pkts) :
    /\ videoq.pkts[j].kind = "flush" /\ videoq.pkts[j].serial = videoq.serial
    /\ \A i \in 1..(j - 1) : videoq.pkts[i].serial < videoq.serial
FlushFirst ==
  ~videoq.abort /\ dec.pkt_serial # videoq.serial =>
    \/ rd.pc = "put" /\ videoq.pkts = <<>>
    \/ FlushAhead

\* Once the decoder has been flushed for it, the pictures inside are of the
\* queue's serial.
FlushHeld == dec.pc \in {"check", "send"} /\ dec.pkt.kind = "flush"
Held ==
  dec.pkt_serial = videoq.serial /\ ~FlushHeld =>
    \A i \in 1..Len(codec.held) : codec.held[i].gen = dec.pkt_serial

SInv == InHand /\ InSlots /\ Sorted /\ FlushFirst /\ Held

LEMMA SerialInit == Init => SInv
<1> SUFFICES ASSUME Init PROVE SInv
  OBVIOUS
<1>1. InHand /\ InSlots
  BY DEF Init, InHand, InSlots, NoFrame
<1>2. Sorted
  BY DEF Init, Sorted
<1>3. FlushAhead
  BY DEF Init, FlushAhead
<1>4. Held
  BY DEF Init, Held
<1> QED
  BY <1>1, <1>2, <1>3, <1>4 DEF SInv, FlushFirst

\* Packets of the queue, and their serials as numbers.
LEMMA SerialTypes ==
  ASSUME TInv
  PROVE  /\ videoq.pkts \in Seq(Packets) /\ Len(videoq.pkts) \in Nat
         /\ \A i \in 1..Len(videoq.pkts) : /\ videoq.pkts[i] \in Packets
                                          /\ videoq.pkts[i].serial \in Nat
         /\ videoq.serial \in Nat /\ dec.pkt_serial \in Nat /\ dec.finished \in Nat
         /\ codec.held \in Seq([n : Pictures, gen : Nat]) /\ Len(codec.held) \in Nat
<1>1. videoq.pkts \in Seq(Packets) /\ videoq.serial \in Nat
  BY DEF TInv, TypeOK, PacketQueues
<1>2. Len(videoq.pkts) \in Nat /\ \A i \in 1..Len(videoq.pkts) : videoq.pkts[i] \in Packets
  BY <1>1
<1>3. \A p \in Packets : p.serial \in Nat
  BY DEF Packets
<1>4. dec.pkt_serial \in Nat /\ dec.finished \in Nat
  BY DEF TInv, TypeOK, Decoders
<1>5. codec.held \in Seq([n : Pictures, gen : Nat])
  BY DEF TInv, TypeOK, Codecs
<1>6. Len(codec.held) \in Nat
  BY <1>5, LenProperties
<1> QED
  BY <1>1, <1>2, <1>3, <1>4, <1>5, <1>6

\* Steps that neither put, take nor send a packet, nor carry a picture.
LEMMA SerialFrame ==
  ASSUME SInv, videoq'.pkts = videoq.pkts, videoq'.serial = videoq.serial,
         videoq.abort => videoq'.abort, Woken(dec, dec'), codec' = codec,
         \A s \in Slots : pictq'.slot[s] \in {pictq.slot[s], NoFrame},
         rd.pc = "put" => rd'.pc = "put"
  PROVE  SInv'
<1>1. InHand'
  BY DEF SInv, InHand, Woken
<1>2. InSlots'
  BY DEF SInv, InSlots, NoFrame
<1>3. Sorted'
  BY DEF SInv, Sorted, Woken
<1>4. FlushFirst'
  BY DEF SInv, FlushFirst, FlushAhead, Woken
<1>5. Held'
  BY DEF SInv, Held, FlushHeld, Woken
<1> QED
  BY <1>1, <1>2, <1>3, <1>4, <1>5 DEF SInv

\* Putting a packet: a flush begins a serial nobody has seen.
LEMMA SerialPut ==
  ASSUME TInv, SInv, NEW kind \in {"data", "flush", "null"}, NEW n \in Pictures,
         Put(kind, n), rd.pc = "put" => kind = "flush" \/ videoq.abort,
         UNCHANGED <<pictq, codec>>
  PROVE  SInv'
<1> DEFINE q == videoq.pkts
           m == Len(q)
           s == videoq'.serial
           p == [kind |-> kind, serial |-> s, n |-> n]
<1>0. /\ Woken(dec, dec') /\ videoq'.abort = videoq.abort
      /\ \/ videoq' = videoq /\ videoq.abort
         \/ /\ s = IF kind = "flush" THEN videoq.serial + 1 ELSE videoq.serial
            /\ videoq'.pkts = Append(q, p)
  BY PutEffect DEF TInv, TypeOK
<1>w. /\ dec'.pkt_serial = dec.pkt_serial /\ dec'.finished = dec.finished
      /\ dec'.pkt = dec.pkt /\ dec'.frame = dec.frame
      /\ dec'.pc \in {"check", "send"} <=> dec.pc \in {"check", "send"}
      /\ dec'.pc \in {"queue", "slot", "noslot", "fill", "push"}
           <=> dec.pc \in {"queue", "slot", "noslot", "fill", "push"}
  BY <1>0 DEF Woken
<1>1. CASE videoq' = videoq /\ videoq.abort
  <2>1. InHand' /\ InSlots'
    BY <1>w DEF SInv, InHand, InSlots
  <2>2. Sorted' /\ Held'
    BY <1>1, <1>w DEF SInv, Sorted, Held, FlushHeld
  <2>3. FlushFirst'
    BY <1>1 DEF FlushFirst
  <2> QED
    BY <2>1, <2>2, <2>3 DEF SInv
<1>2. CASE /\ s = IF kind = "flush" THEN videoq.serial + 1 ELSE videoq.serial
           /\ videoq'.pkts = Append(q, p)
  <2>0. /\ q \in Seq(Packets) /\ m \in Nat /\ videoq.serial \in Nat /\ s \in Nat
        /\ videoq.serial <= s /\ dec.pkt_serial \in Nat
        /\ \A i \in 1..m : q[i].serial \in Nat
    BY <1>2, SerialTypes
  <2>1. /\ Len(videoq'.pkts) = m + 1 /\ videoq'.pkts[m + 1] = p
        /\ \A i \in 1..m : videoq'.pkts[i] = q[i]
    BY <1>2, <2>0
  <2>2. p.serial = s /\ p.kind = kind
    OBVIOUS
  <2> HIDE DEF p, q, m, s
  <2>3. InHand' /\ InSlots'
    BY <1>w DEF SInv, InHand, InSlots
  <2>4. Sorted'
    <3>1. ASSUME NEW i \in 1..m
          PROVE  /\ dec.pkt_serial <= q[i].serial /\ q[i].serial <= videoq.serial
                 /\ \A j \in 1..m : i <= j => q[i].serial <= q[j].serial
      BY DEF SInv, Sorted, q, m
    <3>2. dec.finished <= dec.pkt_serial /\ dec.pkt_serial <= videoq.serial
      BY DEF SInv, Sorted
    <3>3. dec.pkt_serial <= s
      BY <2>0, <3>2
    <3>4. ASSUME NEW i \in 1..m PROVE q[i].serial <= s
      BY <2>0, <3>1
    <3>5. ASSUME NEW i \in 1..(m + 1)
          PROVE  /\ dec.pkt_serial <= videoq'.pkts[i].serial /\ videoq'.pkts[i].serial <= s
      <4>1. CASE i \in 1..m
        BY <2>1, <3>1, <3>4, <4>1
      <4>2. CASE i = m + 1
        BY <2>0, <2>1, <2>2, <3>3, <4>2
      <4> QED
        BY <2>0, <4>1, <4>2
    <3>6. ASSUME NEW i \in 1..(m + 1), NEW j \in 1..(m + 1), i <= j
          PROVE  videoq'.pkts[i].serial <= videoq'.pkts[j].serial
      <4>1. CASE j \in 1..m
        <5>1. i \in 1..m
          BY <2>0, <3>6, <4>1
        <5> QED
          BY <2>1, <3>1, <3>6, <4>1, <5>1
      <4>2. CASE j = m + 1
        BY <2>1, <2>2, <3>5, <4>2
      <4> QED
        BY <2>0, <4>1, <4>2
    <3>7. dec'.pc \in {"check", "send"} => dec'.pkt.serial = dec'.pkt_serial
      BY <1>w DEF SInv, Sorted
    <3> QED
      BY <1>w, <2>1, <3>2, <3>3, <3>5, <3>6, <3>7 DEF Sorted, s
  <2>5. CASE kind = "flush"
    <3>1. s = videoq.serial + 1
      BY <1>2, <2>5
    <3>2. \A i \in 1..m : videoq'.pkts[i].serial < s
      <4> SUFFICES ASSUME NEW i \in 1..m PROVE videoq'.pkts[i].serial < s
        OBVIOUS
      <4>1. q[i].serial <= videoq.serial
        BY DEF SInv, Sorted, q, m
      <4>2. videoq'.pkts[i] = q[i] /\ q[i].serial \in Nat /\ videoq.serial \in Nat
        BY <2>0, <2>1
      <4> QED
        BY <3>1, <4>1, <4>2
    <3>3. FlushAhead'
      <4>1. m + 1 \in 1..(m + 1) /\ (m + 1) - 1 = m
        BY <2>0
      <4> QED
        BY <2>1, <2>2, <2>5, <3>2, <4>1 DEF FlushAhead, s
    <3>4. dec.pkt_serial # s
      <4>1. dec.pkt_serial <= videoq.serial
        BY DEF SInv, Sorted
      <4> QED
        BY <2>0, <3>1, <4>1
    <3>5. Held'
      BY <1>w, <3>4 DEF Held, s
    <3> QED
      BY <2>3, <2>4, <3>3, <3>5 DEF SInv, FlushFirst
  <2>6. CASE kind # "flush"
    <3>1. s = videoq.serial
      BY <1>2, <2>6
    <3>2. Held'
      BY <1>w, <3>1 DEF SInv, Held, FlushHeld, s
    <3>3. ASSUME FlushAhead PROVE FlushAhead'
      <4>1. PICK j \in 1..m : /\ q[j].kind = "flush" /\ q[j].serial = videoq.serial
                              /\ \A i \in 1..(j - 1) : q[i].serial < videoq.serial
        BY <3>3 DEF FlushAhead, q, m
      <4>2. j \in 1..(m + 1) /\ \A i \in 1..(j - 1) : i \in 1..m
        BY <2>0
      <4> QED
        BY <2>1, <3>1, <4>1, <4>2 DEF FlushAhead, s
    <3>4. FlushFirst'
      BY <1>0, <1>w, <2>6, <3>1, <3>3 DEF SInv, FlushFirst, s
    <3> QED
      BY <2>3, <2>4, <3>2, <3>4 DEF SInv
  <2> QED
    BY <2>5, <2>6
<1> QED
  BY <1>0, <1>1, <1>2

LEMMA SerialReader == TInv /\ SInv /\ Reader => SInv'
<1> SUFFICES ASSUME TInv, SInv, Reader PROVE SInv'
  OBVIOUS
<1>0. dec \in Decoders /\ Woken(dec, dec) /\ 0 \in Pictures /\ UNCHANGED <<pictq, codec>>
  <2>1. UNCHANGED <<pictq, codec>>
    BY DEF Reader, ReaderSeek, ReaderFlush, ReaderPutFlush, ReaderClear, ReaderSettle,
           ReaderFull, ReaderComplete, ReaderPacket, ReaderEof, ReaderExit
  <2> QED
    BY <2>1, WakeTypes, VideoStreamAssumption DEF TInv, TypeOK, Pictures
<1>1. CASE ReaderFlush
  <2>1. /\ videoq'.pkts = <<>> /\ videoq'.serial = videoq.serial /\ rd'.pc = "put"
        /\ UNCHANGED dec
    BY <1>1 DEF ReaderFlush, TInv, TypeOK, PacketQueues, Readers
  <2>2. InHand' /\ InSlots' /\ Held'
    BY <1>0, <2>1 DEF SInv, InHand, InSlots, Held, FlushHeld
  <2>3. Sorted'
    <3>1. Len(videoq'.pkts) = 0
      BY <2>1
    <3> QED
      BY <2>1, <3>1 DEF SInv, Sorted
  <2>4. FlushFirst'
    BY <2>1 DEF FlushFirst
  <2> QED
    BY <2>2, <2>3, <2>4 DEF SInv
<1>2. CASE ReaderPutFlush
  BY <1>0, <1>2, SerialPut DEF ReaderPutFlush
<1>3. CASE ReaderPacket
  <2>1. rd.pos \in Pictures /\ rd.pc # "put"
    BY <1>3, VideoStreamAssumption DEF ReaderPacket, Reads, ReaderAt, TInv, TypeOK, Readers, Pictures
  <2> QED
    BY <1>0, <1>3, <2>1, SerialPut DEF ReaderPacket
<1>4. CASE ReaderEof
  <2>1. rd.pc # "put"
    BY <1>4 DEF ReaderEof, Reads, ReaderAt
  <2>2. CASE rd.eof
    BY <1>0, <1>4, <2>1, <2>2, SerialFrame DEF ReaderEof
  <2>3. CASE ~rd.eof
    BY <1>0, <1>4, <2>1, <2>3, SerialPut DEF ReaderEof
  <2> QED
    BY <2>2, <2>3
<1>5. CASE ReaderSeek \/ ReaderClear \/ ReaderSettle \/ ReaderFull \/ ReaderComplete \/ ReaderExit
  <2>1. UNCHANGED <<videoq, dec>> /\ rd.pc # "put"
    BY <1>5 DEF ReaderSeek, ReaderClear, ReaderSettle, ReaderFull, ReaderComplete, ReaderExit, ReaderAt
  <2> QED
    BY <1>0, <2>1, SerialFrame
<1> QED
  BY <1>1, <1>2, <1>3, <1>4, <1>5 DEF Reader

\* What taking a packet does to the serials: the first packet of a new one is a
\* flush, which the decoder goes on with.
LEMMA Taken ==
  ASSUME TInv, SInv, TakePacket, Deliverable, ~videoq.abort
  PROVE  LET q == videoq.pkts
             m == Len(q)
             s == videoq.serial
         IN  /\ videoq'.serial = s /\ q # <<>> /\ m \in Nat /\ m >= 1
             /\ dec'.finished = dec.finished /\ dec'.pc \in {"get", "check"}
             /\ dec'.pc = "get" <=> dec.finished = dec'.pkt_serial
             /\ Len(videoq'.pkts) = m - 1 /\ dec'.pkt = q[1]
             /\ dec'.pkt_serial = q[1].serial /\ dec'.pkt.serial = dec'.pkt_serial
             /\ \A i \in 1..(m - 1) : i + 1 \in 1..m /\ videoq'.pkts[i] = q[i + 1]
             /\ dec.pkt_serial = s => dec'.pkt_serial = s
             /\ dec.pkt_serial # s /\ dec'.pkt_serial = s =>
                  dec'.pkt.kind = "flush" /\ dec'.pc = "check"
             /\ dec'.pkt_serial # s => FlushAhead'
<1> DEFINE q == videoq.pkts
           m == Len(q)
           s == videoq.serial
<1>0. /\ videoq'.serial = s /\ videoq'.pkts = Tail(q) /\ q # <<>>
      /\ dec'.pkt = Head(q) /\ dec'.pkt_serial = dec'.pkt.serial /\ dec'.finished = dec.finished
      /\ dec'.pc \in {"get", "check"}
      /\ dec'.pc = "get" <=> dec.finished = dec'.pkt_serial
  BY TakeType DEF TInv, TypeOK
<1>1. /\ q \in Seq(Packets) /\ m \in Nat /\ s \in Nat /\ dec.pkt_serial \in Nat
      /\ dec.finished \in Nat /\ \A i \in 1..m : q[i].serial \in Nat
  BY SerialTypes
<1>2. /\ m >= 1 /\ Len(videoq'.pkts) = m - 1 /\ dec'.pkt = q[1] /\ 1 \in 1..m
      /\ \A i \in 1..(m - 1) : i + 1 \in 1..m /\ videoq'.pkts[i] = q[i + 1]
  <2>1. m # 0
    BY <1>0, <1>1, EmptySeq
  <2> QED
    BY <1>0, <1>1, <2>1
<1>3. /\ dec.pkt_serial <= q[1].serial /\ q[1].serial <= s
      /\ dec.finished <= dec.pkt_serial /\ dec.pkt_serial <= s
  BY <1>2 DEF SInv, Sorted
<1>4. dec'.pkt_serial = q[1].serial
  BY <1>0, <1>2
<1> HIDE DEF q, m, s
<1>5. dec.pkt_serial = s => dec'.pkt_serial = s
  BY <1>1, <1>2, <1>3, <1>4
<1>6. ASSUME dec.pkt_serial # s
      PROVE  /\ dec'.pkt_serial = s => dec'.pkt.kind = "flush" /\ dec'.pc = "check"
             /\ dec'.pkt_serial # s => FlushAhead'
  <2>1. PICK j \in 1..m : /\ q[j].kind = "flush" /\ q[j].serial = s
                          /\ \A i \in 1..(j - 1) : q[i].serial < s
    BY <1>0, <1>6 DEF SInv, FlushFirst, FlushAhead, q, m, s
  <2>2. CASE j = 1
    <3>1. dec'.pkt_serial = s /\ dec'.pkt.kind = "flush"
      BY <1>0, <1>2, <1>4, <2>1, <2>2
    <3>2. dec.finished # dec'.pkt_serial
      BY <1>1, <1>3, <1>6, <3>1
    <3> QED
      BY <1>0, <3>1, <3>2
  <2>3. CASE j # 1
    <3>1. j - 1 \in 1..(m - 1) /\ 1 \in 1..(j - 1) /\ (j - 1) + 1 = j
      BY <1>1, <2>3
    <3>2. videoq'.pkts[j - 1] = q[j]
      BY <1>2, <3>1
    <3>3. ASSUME NEW i \in 1..((j - 1) - 1) PROVE videoq'.pkts[i].serial < s
      <4>1. i \in 1..(m - 1) /\ i + 1 \in 1..(j - 1)
        BY <1>1, <3>1
      <4> QED
        BY <1>2, <2>1, <4>1
    <3>4. FlushAhead'
      BY <1>0, <1>2, <2>1, <3>1, <3>2, <3>3 DEF FlushAhead, s
    <3>5. dec'.pkt_serial # s
      <4>1. q[1].serial < s
        BY <2>1, <3>1
      <4> QED
        BY <1>1, <1>2, <1>4, <4>1
    <3> QED
      BY <3>4, <3>5
  <2> QED
    BY <2>2, <2>3
<1> QED
  BY <1>0, <1>1, <1>2, <1>4, <1>5, <1>6 DEF q, m, s

\* Taking a packet keeps the serials in order.
LEMMA SerialTake ==
  ASSUME TInv, SInv, TakePacket, Deliverable, ~videoq.abort, dec.pc \in {"get", "block"},
         UNCHANGED <<pictq, codec, rd>>
  PROVE  SInv'
<1> DEFINE q == videoq.pkts
           m == Len(q)
           s == videoq.serial
<1>0. /\ videoq'.serial = s /\ m \in Nat /\ m >= 1 /\ dec'.finished = dec.finished
      /\ dec'.pc \in {"get", "check"} /\ Len(videoq'.pkts) = m - 1
      /\ dec'.pkt_serial = q[1].serial /\ dec'.pkt.serial = dec'.pkt_serial
      /\ \A i \in 1..(m - 1) : i + 1 \in 1..m /\ videoq'.pkts[i] = q[i + 1]
      /\ dec.pkt_serial = s => dec'.pkt_serial = s
      /\ dec.pkt_serial # s /\ dec'.pkt_serial = s =>
           dec'.pkt.kind = "flush" /\ dec'.pc = "check"
      /\ dec'.pkt_serial # s => FlushAhead'
  BY Taken
<1>1. /\ s \in Nat /\ dec.pkt_serial \in Nat /\ dec.finished \in Nat
      /\ \A i \in 1..m : q[i].serial \in Nat
  BY SerialTypes
<1>2. /\ \A i \in 1..m : dec.pkt_serial <= q[i].serial /\ q[i].serial <= s
      /\ \A i, j \in 1..m : i <= j => q[i].serial <= q[j].serial
      /\ dec.finished <= dec.pkt_serial /\ dec.pkt_serial <= s /\ 1 \in 1..m
  BY <1>0 DEF SInv, Sorted
<1> HIDE DEF q, m, s
<1>3. InHand' /\ InSlots'
  BY <1>0 DEF SInv, InHand, InSlots
<1>4. Sorted'
  <2>1. ASSUME NEW i \in 1..(m - 1)
        PROVE  dec'.pkt_serial <= videoq'.pkts[i].serial /\ videoq'.pkts[i].serial <= s
    <3>1. i + 1 \in 1..m /\ 1 <= i + 1 /\ videoq'.pkts[i] = q[i + 1]
      BY <1>0
    <3> QED
      BY <1>0, <1>2, <3>1
  <2>2. ASSUME NEW i \in 1..(m - 1), NEW j \in 1..(m - 1), i <= j
        PROVE  videoq'.pkts[i].serial <= videoq'.pkts[j].serial
    <3>1. i + 1 \in 1..m /\ j + 1 \in 1..m /\ i + 1 <= j + 1
      BY <1>0, <2>2
    <3>2. videoq'.pkts[i] = q[i + 1] /\ videoq'.pkts[j] = q[j + 1]
      BY <1>0
    <3> QED
      BY <1>2, <3>1, <3>2
  <2>3. dec'.finished <= dec'.pkt_serial /\ dec'.pkt_serial <= s
    <3>1. dec.finished <= q[1].serial /\ q[1].serial <= s
      BY <1>1, <1>2
    <3> QED
      BY <1>0, <3>1
  <2> QED
    BY <1>0, <2>1, <2>2, <2>3 DEF Sorted, s
<1>5. FlushFirst'
  BY <1>0 DEF FlushFirst, s
<1>6. Held'
  <2> SUFFICES ASSUME dec'.pkt_serial = s, ~FlushHeld'
               PROVE  \A i \in 1..Len(codec.held) : codec.held[i].gen = s
    BY <1>0 DEF Held, s
  <2>1. dec.pkt_serial = s
    BY <1>0 DEF FlushHeld
  <2>2. ~FlushHeld
    BY DEF FlushHeld
  <2> QED
    BY <2>1, <2>2 DEF SInv, Held, s
<1> QED
  BY <1>3, <1>4, <1>5, <1>6 DEF SInv

LEMMA SerialVideo == TInv /\ SInv /\ VideoThread => SInv'
<1> SUFFICES ASSUME TInv, SInv, VideoThread PROVE SInv'
  OBVIOUS
<1>0. /\ dec \in Decoders /\ codec \in Codecs /\ pictq \in PictureQueues
      /\ UNCHANGED rd /\ videoq.serial \in Nat /\ dec.pkt_serial \in Nat
      /\ codec.held \in Seq([n : Pictures, gen : Nat]) /\ Len(codec.held) \in Nat
  <2>1. UNCHANGED rd
    BY DEF VideoThread, ReceivePicture, ReceiveEof, ReceiveNothing, FetchPacket, GetPacket,
           StartBuffering, BlockForPacket, CheckPacket, SendPacket, QueuePicture, WaitForSlot,
           FillSlot, PushPicture
  <2> QED
    BY <2>1, SerialTypes DEF TInv, TypeOK
<1>1. CASE ReceivePicture
  <2>1. /\ dec.pc = "decode" /\ videoq.serial = dec.pkt_serial /\ codec.held # <<>>
        /\ UNCHANGED <<videoq, pictq>>
    BY <1>1 DEF ReceivePicture, Decoding, HasPicture
  <2>2. \A i \in 1..Len(codec.held) : codec.held[i].gen = dec.pkt_serial
    BY <2>1 DEF SInv, Held, FlushHeld
  <2>3. Head(codec.held).gen = dec.pkt_serial
    <3>1. Len(codec.held) # 0
      BY <1>0, <2>1, EmptySeq
    <3> QED
      BY <1>0, <2>2, <3>1
  <2>4. /\ dec'.pc = "queue" /\ dec'.frame.serial = dec.pkt_serial
        /\ dec'.frame.gen = Head(codec.held).gen /\ dec'.pkt_serial = dec.pkt_serial
        /\ dec'.finished = dec.finished
    BY <1>0, <1>1 DEF ReceivePicture, Decoders
  <2>5. InHand' /\ InSlots'
    BY <2>1, <2>3, <2>4 DEF SInv, InHand, InSlots
  <2>6. Sorted' /\ FlushFirst'
    BY <2>1, <2>4 DEF SInv, Sorted, FlushFirst
  <2>7. Held'
    <3>1. codec'.held = Tail(codec.held)
      BY <1>0, <1>1 DEF ReceivePicture, Codecs
    <3>2. /\ Len(Tail(codec.held)) = Len(codec.held) - 1
          /\ \A i \in 1..Len(Tail(codec.held)) : Tail(codec.held)[i] = codec.held[i + 1]
      BY <1>0, <2>1, HeadTailProperties
    <3>3. \A i \in 1..(Len(codec.held) - 1) : i + 1 \in 1..Len(codec.held)
      BY <1>0
    <3> QED
      BY <2>2, <2>4, <3>1, <3>2, <3>3 DEF Held
  <2> QED
    BY <2>5, <2>6, <2>7 DEF SInv
<1>2. CASE ReceiveEof
  <2>1. /\ dec.pc = "decode" /\ videoq.serial = dec.pkt_serial /\ UNCHANGED <<videoq, pictq>>
        /\ dec'.pc = "decode" /\ dec'.pkt_serial = dec.pkt_serial
        /\ dec'.finished = dec.pkt_serial /\ codec'.held = <<>>
    BY <1>0, <1>2 DEF ReceiveEof, Decoding, Decoders, EmptyCodec
  <2>2. Len(codec'.held) = 0
    BY <2>1
  <2>3. InHand' /\ InSlots' /\ Held'
    BY <2>1, <2>2 DEF SInv, InHand, InSlots, Held
  <2>4. Sorted' /\ FlushFirst'
    BY <1>0, <2>1 DEF SInv, Sorted, FlushFirst
  <2> QED
    BY <2>3, <2>4 DEF SInv
<1>3. CASE GetPacket \/ BlockForPacket
  <2>1. CASE ~videoq.abort /\ Deliverable
    BY <1>0, <1>3, <2>1, SerialTake DEF GetPacket, BlockForPacket
  <2>2. CASE ~(~videoq.abort /\ Deliverable)
    <3>1. /\ UNCHANGED <<videoq, pictq, codec>> /\ dec.pc \in {"get", "block"}
          /\ \E x \in {"exit", "buffer", "asleep"} : dec' = [dec EXCEPT !.pc = x]
      BY <1>3, <2>2 DEF GetPacket, BlockForPacket
    <3>2. /\ dec'.pc \in {"exit", "buffer", "asleep"} /\ dec'.pkt_serial = dec.pkt_serial
          /\ dec'.finished = dec.finished
      BY <1>0, <3>1 DEF Decoders
    <3>3. InHand' /\ InSlots' /\ Sorted'
      BY <3>1, <3>2 DEF SInv, InHand, InSlots, Sorted
    <3>4. FlushFirst' /\ Held'
      BY <1>0, <3>1, <3>2 DEF SInv, FlushFirst, FlushAhead, Held, FlushHeld
    <3> QED
      BY <3>3, <3>4 DEF SInv
  <2> QED
    BY <2>1, <2>2
<1>4. CASE ReceiveNothing \/ FetchPacket \/ StartBuffering
  <2>1. /\ UNCHANGED <<videoq, pictq, codec>> /\ dec.pc \in {"decode", "fetch", "buffer"}
        /\ dec'.pc \in {"exit", "fetch", "get", "block"} /\ dec'.pkt_serial = dec.pkt_serial
        /\ dec'.finished = dec.finished
    BY <1>0, <1>4 DEF ReceiveNothing, FetchPacket, StartBuffering, Decoders
  <2>2. InHand' /\ InSlots' /\ Sorted'
    BY <2>1 DEF SInv, InHand, InSlots, Sorted
  <2>3. FlushFirst' /\ Held'
    BY <1>0, <2>1 DEF SInv, FlushFirst, FlushAhead, Held, FlushHeld
  <2> QED
    BY <2>2, <2>3 DEF SInv
<1>5. CASE CheckPacket
  <2>1. /\ UNCHANGED <<videoq, pictq, codec>> /\ dec.pc = "check"
        /\ dec'.pkt_serial = dec.pkt_serial /\ dec'.finished = dec.finished
        /\ \/ videoq.serial = dec.pkt_serial /\ dec'.pc = "send" /\ dec'.pkt = dec.pkt
           \/ videoq.serial # dec.pkt_serial /\ dec'.pc = "fetch"
    BY <1>0, <1>5 DEF CheckPacket, Decoders
  <2>2. InHand' /\ InSlots' /\ Sorted'
    BY <2>1 DEF SInv, InHand, InSlots, Sorted
  <2>3. FlushFirst' /\ Held'
    BY <1>0, <2>1 DEF SInv, FlushFirst, FlushAhead, Held, FlushHeld
  <2> QED
    BY <2>2, <2>3 DEF SInv
<1>6. CASE SendPacket
  <2>1. /\ UNCHANGED <<videoq, pictq>> /\ dec.pc = "send" /\ dec'.pc = "decode"
        /\ dec'.pkt_serial = dec.pkt_serial /\ dec'.finished \in {0, dec.finished}
    BY <1>0, <1>6 DEF SendPacket, Decoders
  <2>2. InHand' /\ InSlots' /\ Sorted' /\ FlushFirst'
    BY <1>0, <2>1 DEF SInv, InHand, InSlots, Sorted, FlushFirst, FlushAhead
  <2>3. Held'
    <3> SUFFICES ASSUME dec.pkt_serial = videoq.serial
                 PROVE  \A i \in 1..Len(codec'.held) : codec'.held[i].gen = dec.pkt_serial
      BY <2>1 DEF Held
    <3>1. CASE dec.pkt.kind = "flush"
      <4>1. codec'.held = <<>>
        BY <1>6, <3>1 DEF SendPacket, EmptyCodec
      <4>2. Len(codec'.held) = 0
        BY <4>1
      <4> QED
        BY <4>2
    <3>2. CASE dec.pkt.kind # "flush"
      <4> DEFINE x == [n |-> dec.pkt.n, gen |-> dec.pkt.serial]
      <4>1. codec'.held \in {codec.held, Append(codec.held, x)}
        BY <1>0, <1>6, <3>2 DEF SendPacket, Codecs
      <4>2. \A i \in 1..Len(codec.held) : codec.held[i].gen = dec.pkt_serial
        BY <3>2 DEF SInv, Held, FlushHeld
      <4>3. x \in [n : Pictures, gen : Nat] /\ x.gen = dec.pkt_serial
        BY <1>0, <2>1 DEF SInv, Sorted, Decoders, Packets
      <4> HIDE DEF x
      <4>4. /\ Len(Append(codec.held, x)) = Len(codec.held) + 1
            /\ Append(codec.held, x)[Len(codec.held) + 1] = x
            /\ \A i \in 1..Len(codec.held) : Append(codec.held, x)[i] = codec.held[i]
        BY <1>0, <4>3, AppendProperties
      <4>5. \A i \in 1..(Len(codec.held) + 1) : i \in 1..Len(codec.held) \/ i = Len(codec.held) + 1
        BY <1>0
      <4> QED
        BY <4>1, <4>2, <4>3, <4>4, <4>5
    <3> QED
      BY <3>1, <3>2
  <2> QED
    BY <2>2, <2>3 DEF SInv
<1>7. CASE QueuePicture \/ WaitForSlot \/ FillSlot \/ PushPicture
  <2>1. /\ UNCHANGED <<videoq, codec>> /\ dec.pc \in {"queue", "slot", "fill", "push"}
        /\ dec'.pc \in {"decode", "slot", "exit", "noslot", "fill", "push"}
        /\ dec'.pkt_serial = dec.pkt_serial /\ dec'.finished = dec.finished
        /\ dec'.pc = "decode" \/ dec'.frame = dec.frame
    BY <1>0, <1>7 DEF QueuePicture, WaitForSlot, FillSlot, PushPicture, Decoders
  <2>2. InHand' /\ Sorted'
    BY <2>1 DEF SInv, InHand, Sorted
  <2>3. FlushFirst' /\ Held'
    BY <1>0, <2>1 DEF SInv, FlushFirst, FlushAhead, Held, FlushHeld
  <2>4. InSlots'
    <3>1. CASE FillSlot
      <4>1. dec.frame.serial = dec.frame.gen
        BY <3>1 DEF FillSlot, SInv, InHand
      <4>2. pictq'.slot = [pictq.slot EXCEPT ![pictq.windex] = dec.frame]
        BY <1>0, <3>1 DEF FillSlot, PictureQueues
      <4>3. \A s \in Slots : pictq'.slot[s] \in {pictq.slot[s], dec.frame}
        BY <1>0, <4>2, Sizes
      <4> QED
        BY <4>1, <4>3 DEF SInv, InSlots
    <3>2. CASE ~FillSlot
      <4>1. pictq'.slot = pictq.slot
        BY <1>0, <1>7, <3>2 DEF QueuePicture, WaitForSlot, PushPicture, PictureQueues
      <4> QED
        BY <4>1 DEF SInv, InSlots
    <3> QED
      BY <3>1, <3>2
  <2> QED
    BY <2>2, <2>3, <2>4 DEF SInv
<1> QED
  BY <1>1, <1>2, <1>3, <1>4, <1>5, <1>6, <1>7 DEF VideoThread

\* The refresh, control and closing threads take no part in it, but for the end
\* of the queues.
LEMMA SerialOthers == TInv /\ SInv /\ (Refresh \/ Control \/ Close) => SInv'
<1> SUFFICES ASSUME TInv, SInv, Refresh \/ Control \/ Close PROVE SInv'
  OBVIOUS
<1>0. /\ dec \in Decoders /\ pictq \in PictureQueues /\ videoq \in PacketQueues
      /\ Woken(dec, dec) /\ Woken(dec, WakeGetter(dec)) /\ Woken(dec, WakeWriter(dec))
      /\ Woken(dec, WakeWriter(WakeGetter(dec)))
  BY WakeTypes DEF TInv, TypeOK
<1>1. CASE Refresh
  <2>1. /\ UNCHANGED <<videoq, codec, rd>> /\ dec' \in {dec, WakeWriter(dec)}
    BY <1>1 DEF Refresh, RefreshTop, RefreshLeave, RefreshLook, RefreshNotYet, RefreshEarly,
                RefreshLate, RefreshShow, RefreshNext, RefreshEmpty, SwitchToNextClip
  <2>2. \/ pictq' = pictq
        \/ pictq.shown < pictq.size /\ pictq' = Next_(pictq)
        \/ pictq' = [pictq EXCEPT !.shown = 0]
    BY <1>1, RefreshPictq
  <2>3. \A s \in Slots : pictq'.slot[s] \in {pictq.slot[s], NoFrame}
    <3>1. CASE pictq.shown < pictq.size /\ pictq' = Next_(pictq)
      BY <1>0, <3>1, NextType
    <3>2. CASE pictq' = [pictq EXCEPT !.shown = 0]
      <4>1. pictq'.slot = pictq.slot
        BY <1>0, <3>2 DEF PictureQueues
      <4> QED
        BY <4>1
    <3> QED
      BY <2>2, <3>1, <3>2
  <2> QED
    BY <1>0, <2>1, <2>3, SerialFrame
<1>2. CASE Control
  <2>1. UNCHANGED <<videoq, codec, rd, dec, pictq>>
    BY <1>2 DEF Control, SeekPlace, SeekRaise, StartOrPause
  <2> QED
    BY <1>0, <2>1, SerialFrame
<1>3. CASE CloseBegin \/ CloseAbort \/ CloseJoinReader
  <2>1. /\ UNCHANGED <<codec, rd, pictq>> /\ videoq' \in {videoq, [videoq EXCEPT !.abort = TRUE]}
        /\ dec' \in {dec, WakeGetter(dec), WakeWriter(WakeGetter(dec))}
    BY <1>3 DEF CloseBegin, CloseAbort, CloseJoinReader
  <2>2. /\ videoq'.pkts = videoq.pkts /\ videoq'.serial = videoq.serial
        /\ videoq.abort => videoq'.abort
    BY <1>0, <2>1 DEF PacketQueues
  <2> QED
    BY <1>0, <2>1, <2>2, SerialFrame
<1>4. CASE CloseDestroy
  <2>1. /\ videoq'.pkts = <<>> /\ videoq'.serial = videoq.serial /\ videoq'.abort = videoq.abort
        /\ UNCHANGED <<dec, codec, rd>>
    BY <1>0, <1>4 DEF CloseDestroy, PacketQueues
  <2>2. videoq.abort
    BY <1>4 DEF CloseDestroy, TInv, Closing
  <2>3. Len(videoq'.pkts) = 0
    BY <2>1
  <2>4. InSlots'
    <3>1. pictq'.slot = [s \in Slots |-> NoFrame]
      BY <1>0, <1>4 DEF CloseDestroy, PictureQueues
    <3> QED
      BY <3>1 DEF InSlots, NoFrame
  <2>5. InHand' /\ Sorted' /\ Held'
    BY <2>1, <2>3 DEF SInv, InHand, Sorted, Held, FlushHeld
  <2>6. FlushFirst'
    BY <2>1, <2>2 DEF FlushFirst
  <2> QED
    BY <2>4, <2>5, <2>6 DEF SInv
<1> QED
  BY <1>1, <1>2, <1>3, <1>4 DEF Close

LEMMA SerialStep == TInv /\ SInv /\ [Next]_vars => SInv'
<1> SUFFICES ASSUME TInv, SInv, [Next]_vars PROVE SInv'
  OBVIOUS
<1>1. CASE UNCHANGED vars
  <2>1. UNCHANGED <<videoq, codec, rd, dec, pictq>> /\ Woken(dec, dec)
    BY <1>1, WakeTypes DEF vars, TInv, TypeOK
  <2> QED
    BY <2>1, SerialFrame
<1> QED
  BY <1>1, SerialReader, SerialVideo, SerialOthers DEF Next

\* No picture decoded from a packet of before a seek is taken for one of after it:
\* what the serial of a slot says (queue_picture2) is where the picture came from.
THEOREM SerialsCorrect == Spec => []PicturesOfTheirSerial
<1>1. TInv /\ SInv => PicturesOfTheirSerial
  <2> SUFFICES ASSUME TInv, SInv, NEW i \in 0..(pictq.size - 1)
               PROVE  LET s == (pictq.rindex + i) % PictqSize
                      IN  pictq.slot[s].serial = pictq.slot[s].gen
    BY DEF PicturesOfTheirSerial, Live
  <2>1. pictq.rindex + i \in Nat /\ PictqSize \in Nat \ {0}
    BY Sizes DEF TInv, TypeOK
  <2>2. (pictq.rindex + i) % PictqSize \in Slots
    BY <2>1, Remainders DEF Slots
  <2> QED
    BY <2>2 DEF SInv, InSlots
<1>2. Init => TInv /\ SInv
  BY TypeInit, SerialInit
<1>3. TInv /\ SInv /\ [Next]_vars => (TInv /\ SInv)'
  BY TypeStep, SerialStep
<1> QED
  BY <1>1, <1>2, <1>3, PTL DEF Spec

-----------------------------------------------------------------------------
(* The end of the clip                                                     *)

NullQueued == \E i \in 1..Len(videoq.pkts) : videoq.pkts[i].kind = "null"
NoDataQueued == \A i \in 1..Len(videoq.pkts) : videoq.pkts[i].kind # "data"

\* The decoder has got the null packet of the queue's serial.
EndTaken ==
  /\ dec.pkt_serial = videoq.serial
  /\ \/ dec.pc \in {"check", "send"} /\ dec.pkt.kind = "null"
     \/ codec.draining /\ ~FlushHeld
     \/ dec.finished = videoq.serial

\* A null packet comes of the end of the file, or a seek is about to remove it.
AtEnd == rd.pos > Last \/ rd.pc \in {"flush", "put"}
EndRead == (NullQueued \/ EndTaken) /\ ~videoq.abort => AtEnd

\* No data comes after a null packet.
NullLast ==
  \A i, j \in 1..Len(videoq.pkts) :
    i <= j /\ videoq.pkts[i].kind = "null" => videoq.pkts[j].kind # "data"
Drained == EndTaken => NoDataQueued

\* A serial that is finished has left nothing in the decoder.
Finished ==
  dec.finished = videoq.serial =>
    /\ codec.held = <<>> /\ ~codec.draining
    /\ dec.pc \notin {"check", "send", "queue", "slot", "noslot", "fill", "push"}

\* While the read thread takes the clip for played out, nothing but the picture
\* on the screen is in the picture queue.
LastPicture ==
  \/ pictq.shown = pictq.size
  \/ pictq.shown = 0 /\ pictq.size = 1 /\ rf.again /\ rf.pc \in {"look", "time", "next"}
PlayedOutStays == rd.pc = "read" => dec.finished = videoq.serial /\ LastPicture

EInv == /\ EndRead /\ NullLast /\ Drained /\ Finished /\ PlayedOutStays
        /\ videoq.serial >= 1 /\ (rd.pc = "put" => videoq.pkts = <<>>)

LEMMA EndInit == Init => EInv
<1> SUFFICES ASSUME Init PROVE EInv
  OBVIOUS
<1>1. Len(videoq.pkts) = 1 /\ videoq.pkts[1].kind = "flush"
  BY DEF Init
<1>2. ~NullQueued /\ NoDataQueued /\ NullLast
  BY <1>1 DEF NullQueued, NoDataQueued, NullLast
<1>3. ~EndTaken
  BY DEF Init, EndTaken
<1> QED
  BY <1>2, <1>3 DEF Init, EInv, EndRead, Drained, Finished, PlayedOutStays

\* Steps that neither put, take nor send a packet, nor carry a picture.
LEMMA EndFrame ==
  ASSUME EInv, videoq'.pkts = videoq.pkts, videoq'.serial = videoq.serial,
         videoq.abort => videoq'.abort, Woken(dec, dec'), codec' = codec,
         AtEnd => AtEnd', rd'.pc = "put" => rd.pc = "put", PlayedOutStays'
  PROVE  EInv'
<1>1. EndTaken' <=> EndTaken
  BY DEF EndTaken, FlushHeld, Woken
<1>2. (NullQueued' <=> NullQueued) /\ (NoDataQueued' <=> NoDataQueued)
  BY DEF NullQueued, NoDataQueued
<1>3. EndRead' /\ Drained'
  BY <1>1, <1>2 DEF EInv, EndRead, Drained
<1>4. NullLast'
  BY DEF EInv, NullLast
<1>5. Finished'
  BY DEF EInv, Finished, Woken
<1> QED
  BY <1>3, <1>4, <1>5 DEF EInv

\* Putting a packet: data only before the end of the file has been read.
LEMMA EndPut ==
  ASSUME TInv, SInv, EInv, NEW kind \in {"data", "flush", "null"}, NEW n \in Pictures,
         Put(kind, n), UNCHANGED <<pictq, codec, rf>>, rd'.pc \notin {"read", "put"},
         kind = "flush" => rd.pc = "put",
         kind = "null" => rd'.pos > Last,
         kind = "data" => rd.pos <= Last /\ rd.pc \notin {"flush", "put"}
  PROVE  EInv'
<1> DEFINE q == videoq.pkts
           m == Len(q)
           s == videoq'.serial
           p == [kind |-> kind, serial |-> s, n |-> n]
<1>0. /\ Woken(dec, dec') /\ videoq'.abort = videoq.abort
      /\ \/ videoq' = videoq /\ videoq.abort
         \/ /\ s = IF kind = "flush" THEN videoq.serial + 1 ELSE videoq.serial
            /\ videoq'.pkts = Append(q, p)
  BY PutEffect DEF TInv, TypeOK
<1>w. /\ dec'.pkt_serial = dec.pkt_serial /\ dec'.finished = dec.finished
      /\ dec'.pkt = dec.pkt /\ (FlushHeld' <=> FlushHeld)
      /\ dec'.pc \in {"check", "send"} <=> dec.pc \in {"check", "send"}
      /\ dec'.pc \in {"check", "send", "queue", "slot", "noslot", "fill", "push"}
           <=> dec.pc \in {"check", "send", "queue", "slot", "noslot", "fill", "push"}
  BY <1>0 DEF Woken, FlushHeld
<1>1. CASE videoq' = videoq /\ videoq.abort
  <2>1. EndTaken' <=> EndTaken
    BY <1>1, <1>w DEF EndTaken
  <2>2. EndRead' /\ Drained' /\ PlayedOutStays'
    BY <1>1, <2>1 DEF EInv, EndRead, Drained, NoDataQueued, PlayedOutStays
  <2>3. NullLast' /\ Finished'
    BY <1>1, <1>w DEF EInv, NullLast, Finished
  <2> QED
    BY <1>1, <2>2, <2>3 DEF EInv
<1>2. CASE /\ s = IF kind = "flush" THEN videoq.serial + 1 ELSE videoq.serial
           /\ videoq'.pkts = Append(q, p) /\ ~videoq.abort
  <2>0. /\ q \in Seq(Packets) /\ m \in Nat /\ videoq.serial \in Nat /\ s \in Nat /\ s >= 1
        /\ dec.finished <= dec.pkt_serial /\ dec.pkt_serial <= videoq.serial
        /\ dec.finished \in Nat /\ dec.pkt_serial \in Nat
    BY <1>2, SerialTypes DEF SInv, Sorted, EInv
  <2>1. /\ Len(videoq'.pkts) = m + 1 /\ videoq'.pkts[m + 1] = p
        /\ \A i \in 1..m : videoq'.pkts[i] = q[i]
        /\ \A i \in 1..(m + 1) : i \in 1..m \/ i = m + 1
    BY <1>2, <2>0
  <2>2. p.kind = kind
    OBVIOUS
  <2>3. PlayedOutStays'
    BY DEF PlayedOutStays
  <2> HIDE DEF p, q, m, s
  <2>4. CASE kind = "flush"
    <3>1. q = <<>> /\ s = videoq.serial + 1
      BY <1>2, <2>4 DEF EInv, q
    <3>2. m = 0
      BY <3>1 DEF m
    <3>3. /\ ~NullQueued' /\ NoDataQueued' /\ NullLast'
      BY <2>1, <2>2, <2>4, <3>2 DEF NullQueued, NoDataQueued, NullLast
    <3>4. dec.pkt_serial # s /\ dec.finished # s
      BY <2>0, <3>1
    <3>5. ~EndTaken' /\ Finished'
      BY <1>w, <3>4 DEF EndTaken, Finished, s
    <3> QED
      BY <2>0, <2>3, <3>3, <3>5 DEF EInv, EndRead, Drained, s
  <2>5. CASE kind \in {"data", "null"}
    <3>1. s = videoq.serial
      BY <1>2, <2>5
    <3>2. EndTaken' <=> EndTaken
      BY <1>w, <3>1 DEF EndTaken, s
    <3>3. Finished'
      BY <1>w, <3>1 DEF EInv, Finished, s
    <3>4. CASE kind = "null"
      <4>1. EndRead'
        BY <3>4 DEF EndRead, AtEnd
      <4>2. NullLast'
        <5> SUFFICES ASSUME NEW i \in 1..(m + 1), NEW j \in 1..(m + 1), i <= j,
                            videoq'.pkts[i].kind = "null", videoq'.pkts[j].kind = "data"
                     PROVE  FALSE
          BY <2>1 DEF NullLast
        <5>1. j \in 1..m
          BY <2>1, <2>2, <3>4
        <5>2. i \in 1..m
          BY <2>0, <5>1
        <5> QED
          BY <2>1, <5>1, <5>2 DEF EInv, NullLast, q, m
      <4>3. Drained'
        BY <2>1, <2>2, <3>2, <3>4 DEF EInv, Drained, NoDataQueued, q, m
      <4> QED
        BY <2>0, <2>3, <3>3, <4>1, <4>2, <4>3 DEF EInv, s
    <3>5. CASE kind = "data"
      <4>1. ~AtEnd
        <5>1. rd.pos \in Int /\ Last \in Int
          BY VideoStreamAssumption DEF TInv, TypeOK, Readers
        <5> QED
          BY <3>5, <5>1 DEF AtEnd
      <4>2. ~NullQueued /\ ~EndTaken
        BY <1>2, <4>1 DEF EInv, EndRead
      <4>3. \A i \in 1..(m + 1) : videoq'.pkts[i].kind # "null"
        BY <2>1, <2>2, <3>5, <4>2 DEF NullQueued, q, m
      <4>4. NullLast' /\ ~NullQueued'
        BY <2>1, <4>3 DEF NullLast, NullQueued
      <4>5. EndRead' /\ Drained'
        BY <3>2, <4>2, <4>4 DEF EndRead, Drained
      <4> QED
        BY <2>0, <2>3, <3>3, <4>4, <4>5 DEF EInv, s
    <3> QED
      BY <2>5, <3>4, <3>5
  <2> QED
    BY <2>4, <2>5
<1>3. ~videoq.abort \/ videoq' = videoq
  BY DEF Put
<1> QED
  BY <1>0, <1>1, <1>2, <1>3

LEMMA EndReader == TInv /\ SInv /\ EInv /\ Reader => EInv'
<1> SUFFICES ASSUME TInv, SInv, EInv, Reader PROVE EInv'
  OBVIOUS
<1>0. /\ rd \in Readers /\ Woken(dec, dec) /\ 0 \in Pictures /\ UNCHANGED <<pictq, codec, rf>>
      /\ videoq \in PacketQueues
  <2>1. UNCHANGED <<pictq, codec, rf>>
    BY DEF Reader, ReaderSeek, ReaderFlush, ReaderPutFlush, ReaderClear, ReaderSettle,
           ReaderFull, ReaderComplete, ReaderPacket, ReaderEof, ReaderExit
  <2> QED
    BY <2>1, WakeTypes, VideoStreamAssumption DEF TInv, TypeOK, Pictures
<1>1. CASE ReaderFlush
  <2>1. /\ videoq'.pkts = <<>> /\ videoq'.serial = videoq.serial /\ rd'.pc = "put"
        /\ UNCHANGED dec
    BY <1>0, <1>1 DEF ReaderFlush, PacketQueues, Readers
  <2>2. Len(videoq'.pkts) = 0
    BY <2>1
  <2>3. EndRead' /\ PlayedOutStays'
    BY <2>1 DEF EndRead, AtEnd, PlayedOutStays
  <2>4. NullLast' /\ Drained'
    BY <2>2 DEF NullLast, Drained, NoDataQueued
  <2>5. Finished'
    BY <1>0, <2>1 DEF EInv, Finished
  <2> QED
    BY <2>1, <2>3, <2>4, <2>5 DEF EInv
<1>2. CASE ReaderPutFlush
  <2>1. rd.pc = "put" /\ rd'.pc = "clear"
    BY <1>0, <1>2 DEF ReaderPutFlush, Readers
  <2> QED
    BY <1>0, <1>2, <2>1, EndPut DEF ReaderPutFlush
<1>3. CASE ReaderPacket
  <2>1. rd.pos \in Pictures /\ rd.pc \notin {"flush", "put"} /\ rd'.pc = "loop" /\ rd.pos <= Last
    BY <1>0, <1>3, VideoStreamAssumption DEF ReaderPacket, Reads, ReaderAt, Readers, Pictures
  <2> QED
    BY <1>0, <1>3, <2>1, EndPut DEF ReaderPacket
<1>4. CASE ReaderEof
  <2>1. rd.pc \notin {"flush", "put"} /\ rd'.pc = "loop" /\ rd'.pos = rd.pos /\ rd.pos > Last
    BY <1>0, <1>4 DEF ReaderEof, Reads, ReaderAt, Readers
  <2>2. CASE rd.eof
    <3>1. UNCHANGED <<videoq, dec>> /\ PlayedOutStays'
      BY <1>4, <2>1, <2>2 DEF ReaderEof, PlayedOutStays
    <3> QED
      BY <1>0, <2>1, <3>1, EndFrame DEF AtEnd
  <2>3. CASE ~rd.eof
    BY <1>0, <1>4, <2>1, <2>3, EndPut DEF ReaderEof
  <2> QED
    BY <2>2, <2>3
<1>5. CASE ReaderSeek \/ ReaderClear \/ ReaderSettle \/ ReaderFull \/ ReaderExit
  <2>1. /\ UNCHANGED <<videoq, dec>> /\ rd.pc \notin {"flush", "put"}
        /\ rd'.pc \notin {"put", "read"} /\ (rd'.pos = rd.pos \/ rd'.pc = "flush")
    <3>1. CASE ReaderSeek
      <4>1. UNCHANGED <<videoq, dec>> /\ rd.pc = "loop"
        BY <3>1 DEF ReaderSeek, ReaderAt
      <4>2. rd \in Readers
        BY <1>0 DEF TInv, TypeOK
      <4>3. \/ \E k \in Keys : rd' = [rd EXCEPT !.pc = "flush", !.target = is.seek_pos, !.pos = k]
            \/ rd' = [rd EXCEPT !.pc = "clear", !.target = is.seek_pos]
        BY <3>1 DEF ReaderSeek
      <4>4. ASSUME NEW k \in Keys, rd' = [rd EXCEPT !.pc = "flush", !.target = is.seek_pos, !.pos = k]
            PROVE  rd'.pc = "flush"
        BY <4>2, <4>4 DEF Readers
      <4>5. ASSUME rd' = [rd EXCEPT !.pc = "clear", !.target = is.seek_pos]
            PROVE  rd'.pc = "clear" /\ rd'.pos = rd.pos
        BY <4>2, <4>5 DEF Readers
      <4>6. rd'.pc = "flush" \/ (rd'.pc = "clear" /\ rd'.pos = rd.pos)
        BY <4>3, <4>4, <4>5
      <4> QED
        BY <4>1, <4>6
    <3>2. CASE ReaderClear \/ ReaderSettle \/ ReaderFull \/ ReaderExit
      BY <1>0, <3>2 DEF ReaderClear, ReaderSettle, ReaderFull, ReaderExit, ReaderAt, Readers
    <3> QED
      BY <1>5, <3>1, <3>2
  <2>2. PlayedOutStays' /\ (AtEnd => AtEnd')
    BY <2>1 DEF PlayedOutStays, AtEnd
  <2> QED
    BY <1>0, <2>1, <2>2, EndFrame
<1>6. CASE ReaderComplete
  <2>1. /\ UNCHANGED <<videoq, dec>> /\ rd'.pc = "read" /\ rd'.pos = rd.pos /\ rd.pc = "loop"
        /\ dec.finished = videoq.serial /\ Remaining(pictq) = 0
    BY <1>0, <1>6 DEF ReaderComplete, ReaderAt, PlayedOut, Readers
  <2>2. pictq.shown = pictq.size
    BY <2>1, Sizes DEF Remaining, TInv, TypeOK
  <2>3. PlayedOutStays' /\ (AtEnd => AtEnd')
    BY <1>0, <2>1, <2>2 DEF PlayedOutStays, LastPicture, AtEnd
  <2> QED
    BY <1>0, <2>1, <2>3, EndFrame
<1> QED
  BY <1>1, <1>2, <1>3, <1>4, <1>5, <1>6 DEF Reader

\* Steps of the video thread that leave the packet queue alone.
LEMMA EndVideoFrame ==
  ASSUME EInv, UNCHANGED <<videoq, rd>>, EndTaken' => EndTaken, Finished', PlayedOutStays'
  PROVE  EInv'
<1>1. (NullQueued' <=> NullQueued) /\ (NoDataQueued' <=> NoDataQueued) /\ (AtEnd' <=> AtEnd)
  BY DEF NullQueued, NoDataQueued, AtEnd
<1>2. EndRead' /\ Drained' /\ NullLast'
  BY <1>1 DEF EInv, EndRead, Drained, NullLast
<1> QED
  BY <1>2 DEF EInv

LEMMA EndTake ==
  ASSUME TInv, SInv, EInv, TakePacket, Deliverable, ~videoq.abort,
         dec.pc \in {"get", "block"}, UNCHANGED <<pictq, codec, rd, rf>>
  PROVE  EInv'
<1> DEFINE q == videoq.pkts
           m == Len(q)
           s == videoq.serial
<1>0. /\ videoq'.serial = s /\ q # <<>> /\ m \in Nat /\ m >= 1 /\ dec'.finished = dec.finished
      /\ dec'.pc \in {"get", "check"} /\ (dec'.pc = "get" <=> dec.finished = dec'.pkt_serial)
      /\ Len(videoq'.pkts) = m - 1 /\ dec'.pkt = q[1]
      /\ \A i \in 1..(m - 1) : i + 1 \in 1..m /\ videoq'.pkts[i] = q[i + 1]
      /\ dec.pkt_serial = s => dec'.pkt_serial = s
      /\ dec.pkt_serial # s /\ dec'.pkt_serial = s =>
           dec'.pkt.kind = "flush" /\ dec'.pc = "check"
  BY Taken
<1>1. dec.finished = s => dec.pkt_serial = s
  <2>1. dec.finished <= dec.pkt_serial /\ dec.pkt_serial <= s
    BY DEF SInv, Sorted
  <2> QED
    BY <2>1, SerialTypes
<1>2. 1 \in 1..m /\ \A i \in 1..(m - 1) : 1 <= i + 1
  BY <1>0
<1>3. rd.pc # "put"
  BY <1>0 DEF EInv
<1> HIDE DEF q, m, s
<1>4. EndTaken' => EndTaken \/ q[1].kind = "null"
  <2> SUFFICES ASSUME EndTaken', q[1].kind # "null" PROVE EndTaken
    OBVIOUS
  <2>1. dec'.pkt_serial = s /\ ((codec.draining /\ ~FlushHeld') \/ dec.finished = s)
    BY <1>0 DEF EndTaken, s
  <2>2. dec.pkt_serial = s
    BY <1>0, <1>1, <2>1 DEF FlushHeld
  <2>3. ~FlushHeld
    BY DEF FlushHeld
  <2> QED
    BY <2>1, <2>2, <2>3 DEF EndTaken, s
<1>5. EndRead'
  <2>1. NullQueued' => NullQueued
    BY <1>0 DEF NullQueued, q, m
  <2>2. q[1].kind = "null" => NullQueued
    BY <1>2 DEF NullQueued, q, m
  <2> QED
    BY <1>4, <2>1, <2>2 DEF EInv, EndRead, AtEnd
<1>6. NullLast'
  <2> SUFFICES ASSUME NEW i \in 1..(m - 1), NEW j \in 1..(m - 1), i <= j,
                      videoq'.pkts[i].kind = "null"
               PROVE  videoq'.pkts[j].kind # "data"
    BY <1>0 DEF NullLast
  <2>1. i + 1 \in 1..m /\ j + 1 \in 1..m /\ i + 1 <= j + 1
    BY <1>0
  <2>2. q[i + 1].kind = "null" /\ videoq'.pkts[j] = q[j + 1]
    BY <1>0
  <2> QED
    BY <2>1, <2>2 DEF EInv, NullLast, q, m
<1>7. Drained'
  <2> SUFFICES ASSUME EndTaken', NEW i \in 1..(m - 1)
               PROVE  videoq'.pkts[i].kind # "data"
    BY <1>0 DEF Drained, NoDataQueued
  <2>1. i + 1 \in 1..m /\ videoq'.pkts[i] = q[i + 1]
    BY <1>0
  <2>2. CASE EndTaken
    BY <2>1, <2>2 DEF EInv, Drained, NoDataQueued, q, m
  <2>3. CASE q[1].kind = "null"
    BY <1>2, <2>1, <2>3 DEF EInv, NullLast, q, m
  <2> QED
    BY <1>4, <2>2, <2>3
<1>8. Finished'
  <2> SUFFICES ASSUME dec.finished = s
               PROVE  codec.held = <<>> /\ ~codec.draining /\ dec'.pc = "get"
    BY <1>0 DEF Finished, s
  <2>1. dec'.pkt_serial = s
    BY <1>0, <1>1
  <2> QED
    BY <1>0, <2>1 DEF EInv, Finished, s
<1>9. PlayedOutStays'
  BY <1>0 DEF EInv, PlayedOutStays, LastPicture, s
<1> QED
  BY <1>0, <1>3, <1>5, <1>6, <1>7, <1>8, <1>9 DEF EInv, s

LEMMA EndVideo == TInv /\ SInv /\ EInv /\ VideoThread => EInv'
<1> SUFFICES ASSUME TInv, SInv, EInv, VideoThread PROVE EInv'
  OBVIOUS
<1>0. dec \in Decoders /\ codec \in Codecs /\ UNCHANGED <<rd, rf>>
  <2>1. UNCHANGED <<rd, rf>>
    BY DEF VideoThread, ReceivePicture, ReceiveEof, ReceiveNothing, FetchPacket, GetPacket,
           StartBuffering, BlockForPacket, CheckPacket, SendPacket, QueuePicture, WaitForSlot,
           FillSlot, PushPicture
  <2> QED
    BY <2>1 DEF TInv, TypeOK
<1>f. \/ codec.held # <<>>
      \/ dec.pc \in {"check", "send", "queue", "slot", "noslot", "fill", "push"}
      => dec.finished # videoq.serial /\ rd.pc # "read"
  BY DEF EInv, Finished, PlayedOutStays
<1>1. CASE ReceivePicture
  <2>1. /\ dec.pc = "decode" /\ codec.held # <<>> /\ UNCHANGED videoq
        /\ dec'.pc = "queue" /\ dec'.pkt_serial = dec.pkt_serial /\ dec'.finished = dec.finished
        /\ codec'.draining = codec.draining
    BY <1>0, <1>1 DEF ReceivePicture, Decoding, HasPicture, Decoders, Codecs
  <2>2. EndTaken' => EndTaken
    BY <2>1 DEF EndTaken, FlushHeld
  <2>3. Finished' /\ PlayedOutStays'
    BY <1>0, <1>f, <2>1 DEF Finished, PlayedOutStays
  <2> QED
    BY <1>0, <2>1, <2>2, <2>3, EndVideoFrame
<1>2. CASE ReceiveEof
  <2>1. /\ dec.pc = "decode" /\ dec'.pc = "decode" /\ codec.draining /\ UNCHANGED <<videoq, pictq>>
        /\ dec.pkt_serial = videoq.serial /\ dec'.finished = dec.pkt_serial
        /\ codec'.held = <<>> /\ ~codec'.draining
    BY <1>0, <1>2 DEF ReceiveEof, Decoding, Decoders, EmptyCodec
  <2>2. EndTaken
    BY <2>1 DEF EndTaken, FlushHeld
  <2>3. Finished' /\ PlayedOutStays'
    BY <1>0, <2>1 DEF EInv, Finished, PlayedOutStays, LastPicture
  <2> QED
    BY <1>0, <2>1, <2>2, <2>3, EndVideoFrame
<1>3. CASE (GetPacket \/ BlockForPacket) /\ ~videoq.abort /\ Deliverable
  <2>1. TakePacket /\ dec.pc \in {"get", "block"} /\ UNCHANGED <<pictq, codec, rd, rf>>
    BY <1>3 DEF GetPacket, BlockForPacket
  <2> QED
    BY <1>3, <2>1, EndTake
<1>4. CASE \/ ReceiveNothing \/ FetchPacket \/ StartBuffering
           \/ (GetPacket \/ BlockForPacket) /\ ~(~videoq.abort /\ Deliverable)
  <2>1. /\ UNCHANGED <<videoq, pictq, codec>>
        /\ dec.pc \in {"decode", "fetch", "buffer", "get", "block"}
        /\ dec'.pc \in {"exit", "fetch", "get", "block", "buffer", "asleep"}
        /\ dec'.pkt_serial = dec.pkt_serial /\ dec'.finished = dec.finished
    <3>1. CASE ReceiveNothing \/ FetchPacket \/ StartBuffering
      BY <1>0, <3>1 DEF ReceiveNothing, FetchPacket, StartBuffering, Decoders
    <3>2. CASE (GetPacket \/ BlockForPacket) /\ ~(~videoq.abort /\ Deliverable)
      BY <1>0, <3>2 DEF GetPacket, BlockForPacket, Decoders
    <3> QED
      BY <1>4, <3>1, <3>2
  <2>2. EndTaken' => EndTaken
    BY <2>1 DEF EndTaken, FlushHeld
  <2>3. Finished' /\ PlayedOutStays'
    BY <1>0, <2>1 DEF EInv, Finished, PlayedOutStays, LastPicture
  <2> QED
    BY <1>0, <2>1, <2>2, <2>3, EndVideoFrame
<1>5. CASE CheckPacket
  <2>1. /\ UNCHANGED <<videoq, codec>> /\ dec.pc = "check"
        /\ dec'.pkt_serial = dec.pkt_serial /\ dec'.finished = dec.finished
        /\ \/ videoq.serial = dec.pkt_serial /\ dec'.pc = "send" /\ dec'.pkt = dec.pkt
           \/ videoq.serial # dec.pkt_serial /\ dec'.pc = "fetch"
    BY <1>0, <1>5 DEF CheckPacket, Decoders
  <2>2. EndTaken' => EndTaken
    BY <2>1 DEF EndTaken, FlushHeld
  <2>3. Finished' /\ PlayedOutStays'
    BY <1>0, <1>f, <2>1 DEF Finished, PlayedOutStays
  <2> QED
    BY <1>0, <2>1, <2>2, <2>3, EndVideoFrame
<1>6. CASE SendPacket
  <2>1. /\ UNCHANGED videoq /\ dec.pc = "send" /\ dec'.pc = "decode"
        /\ dec'.pkt_serial = dec.pkt_serial /\ dec'.finished \in {0, dec.finished}
        /\ dec.pkt.kind = "flush" => ~codec'.draining
        /\ dec.pkt.kind # "flush" =>
             codec'.draining = codec.draining \/ dec.pkt.kind = "null"
    <3>1. /\ UNCHANGED videoq /\ dec.pc = "send" /\ dec'.pc = "decode"
          /\ dec'.pkt_serial = dec.pkt_serial /\ dec'.finished \in {0, dec.finished}
      BY <1>0, <1>6 DEF SendPacket, Decoders
    <3>2. dec.pkt.kind = "flush" => ~codec'.draining
      BY <1>6 DEF SendPacket, EmptyCodec
    <3>3. ASSUME dec.pkt.kind # "flush", dec.pkt.kind # "null"
          PROVE  codec'.draining = codec.draining
      BY <1>0, <1>6, <3>3 DEF SendPacket, Codecs
    <3> QED
      BY <3>1, <3>2, <3>3
  <2>2. dec.finished # videoq.serial /\ dec'.finished # videoq.serial /\ rd.pc # "read"
    <3>1. videoq.serial # 0
      BY SerialTypes DEF EInv
    <3> QED
      BY <1>f, <2>1, <3>1
  <2>3. EndTaken' => EndTaken
    BY <2>1, <2>2 DEF EndTaken, FlushHeld
  <2>4. Finished' /\ PlayedOutStays'
    BY <1>0, <2>1, <2>2 DEF Finished, PlayedOutStays
  <2> QED
    BY <1>0, <2>1, <2>3, <2>4, EndVideoFrame
<1>7. CASE QueuePicture \/ WaitForSlot \/ FillSlot \/ PushPicture
  <2>1. /\ UNCHANGED <<videoq, codec>> /\ dec.pc \in {"queue", "slot", "fill", "push"}
        /\ dec'.pc \in {"decode", "slot", "exit", "noslot", "fill", "push"}
        /\ dec'.pkt_serial = dec.pkt_serial /\ dec'.finished = dec.finished
    BY <1>0, <1>7 DEF QueuePicture, WaitForSlot, FillSlot, PushPicture, Decoders
  <2>2. EndTaken' => EndTaken
    BY <2>1 DEF EndTaken, FlushHeld
  <2>3. Finished' /\ PlayedOutStays'
    BY <1>0, <1>f, <2>1 DEF Finished, PlayedOutStays
  <2> QED
    BY <1>0, <2>1, <2>2, <2>3, EndVideoFrame
<1> QED
  BY <1>1, <1>2, <1>3, <1>4, <1>5, <1>6, <1>7 DEF VideoThread

\* The refresh thread may only look at the last picture again.
LEMMA EndRefresh ==
  ASSUME TInv, EInv, Refresh, rd.pc = "read"
  PROVE  LastPicture'
<1>0. /\ LastPicture /\ pictq \in PictureQueues /\ rf \in Refreshers
      /\ pictq.shown \in Nat /\ pictq.size \in Nat /\ pictq.shown \in {0, 1}
      /\ pictq.shown <= pictq.size
      /\ rf.pc \in {"time", "next"} => pictq.shown < pictq.size
  BY Sizes DEF EInv, PlayedOutStays, TInv, TypeOK, Counts
<1>1. ASSUME pictq' = Next_(pictq), pictq.shown < pictq.size PROVE LastPicture'
  <2>1. pictq.shown = 0 /\ pictq.size = 1
    BY <1>0, <1>1 DEF LastPicture
  <2>2. pictq' = [pictq EXCEPT !.shown = 1]
    BY <1>1, <2>1 DEF Next_
  <2>3. pictq'.shown = 1 /\ pictq'.size = 1
    BY <1>0, <2>1, <2>2 DEF PictureQueues
  <2> QED
    BY <2>3 DEF LastPicture
<1>2. ASSUME pictq' = pictq, pictq.shown = pictq.size PROVE LastPicture'
  BY <1>2 DEF LastPicture
<1>3. ~(pictq.shown < pictq.size) => pictq.shown = pictq.size
  BY <1>0
<1>4. CASE RefreshTop
  <2>0. rf.pc = "top"
    BY <1>4 DEF RefreshTop
  <2>1. pictq.shown = pictq.size
    BY <1>0, <2>0 DEF LastPicture
  <2>2. CASE ~is.force_refresh
    BY <1>2, <1>4, <2>1, <2>2 DEF RefreshTop
  <2>3. CASE is.force_refresh
    <3>1. pictq'.shown = 0 /\ pictq'.size = pictq.size
      BY <1>0, <1>4, <2>3 DEF RefreshTop, PictureQueues
    <3>2. rf'.pc = "look" /\ (pictq.shown = 1 => rf'.again)
      BY <1>0, <1>4, <2>3 DEF RefreshTop, Refreshers
    <3> QED
      BY <1>0, <2>1, <3>1, <3>2 DEF LastPicture
  <2> QED
    BY <2>2, <2>3
<1>5. CASE RefreshLook
  <2>0. Remaining(pictq) = 0 <=> pictq.shown = pictq.size
    BY <1>0 DEF Remaining
  <2>1. CASE Remaining(pictq) = 0
    BY <1>2, <1>5, <2>0, <2>1 DEF RefreshLook
  <2>2. CASE Remaining(pictq) # 0 /\ Peek(pictq).serial # videoq.serial
    BY <1>1, <1>3, <1>5, <2>0, <2>2 DEF RefreshLook
  <2>3. CASE Remaining(pictq) # 0 /\ Peek(pictq).serial = videoq.serial
    <3>1. /\ pictq' = pictq
          /\ rf' = [rf EXCEPT !.pc = "time", !.ending = is.doneVideo \/ EndTime <= Peek(pictq).n]
      BY <1>5, <2>3 DEF RefreshLook
    <3>2. rf'.pc = "time" /\ rf'.again = rf.again
      BY <1>0, <3>1 DEF Refreshers
    <3> QED
      BY <1>0, <2>0, <2>3, <3>1, <3>2 DEF LastPicture
  <2> QED
    BY <2>1, <2>2, <2>3
<1>6. CASE RefreshNotYet \/ RefreshEarly
  <2>1. ~rf.again /\ pictq' = pictq
    BY <1>6 DEF RefreshNotYet, RefreshEarly
  <2> QED
    BY <1>0, <1>2, <2>1 DEF LastPicture
<1>7. CASE RefreshLate \/ RefreshNext
  <2>1. rf.pc \in {"time", "next"} /\ pictq' = Next_(pictq)
    BY <1>7 DEF RefreshLate, RefreshNext
  <2> QED
    BY <1>0, <1>1, <2>1
<1>8. CASE RefreshShow
  <2>0. rf.pc = "time" /\ pictq.shown < pictq.size
    BY <1>0, <1>8 DEF RefreshShow
  <2>1. CASE pictq' = Next_(pictq)
    BY <1>1, <2>0, <2>1
  <2>2. CASE /\ pictq' = pictq
             /\ rf' = [rf EXCEPT !.pc = "next", !.last = Peek(pictq).n]
    <3>1. rf'.pc = "next" /\ rf'.again = rf.again
      BY <1>0, <2>2 DEF Refreshers
    <3> QED
      BY <1>0, <2>0, <2>2, <3>1 DEF LastPicture
  <2> QED
    BY <1>8, <2>1, <2>2 DEF RefreshShow
<1>9. CASE RefreshLeave \/ RefreshEmpty \/ SwitchToNextClip
  <2>1. rf.pc \in {"top", "empty", "delay"} /\ pictq' = pictq
    BY <1>9 DEF RefreshLeave, RefreshEmpty, SwitchToNextClip
  <2> QED
    BY <1>0, <1>2, <2>1 DEF LastPicture
<1> QED
  BY <1>4, <1>5, <1>6, <1>7, <1>8, <1>9 DEF Refresh

LEMMA EndOthers == TInv /\ EInv /\ (Refresh \/ Control \/ Close) => EInv'
<1> SUFFICES ASSUME TInv, EInv, Refresh \/ Control \/ Close PROVE EInv'
  OBVIOUS
<1>0. /\ dec \in Decoders /\ videoq \in PacketQueues
      /\ Woken(dec, dec) /\ Woken(dec, WakeGetter(dec)) /\ Woken(dec, WakeWriter(dec))
      /\ Woken(dec, WakeWriter(WakeGetter(dec)))
  BY WakeTypes DEF TInv, TypeOK
<1>1. CASE Refresh
  <2>1. UNCHANGED <<videoq, codec, rd>> /\ dec' \in {dec, WakeWriter(dec)}
    BY <1>1 DEF Refresh, RefreshTop, RefreshLeave, RefreshLook, RefreshNotYet, RefreshEarly,
                RefreshLate, RefreshShow, RefreshNext, RefreshEmpty, SwitchToNextClip
  <2>2. dec'.finished = dec.finished
    BY <1>0, <2>1 DEF Woken
  <2>3. PlayedOutStays' /\ (AtEnd => AtEnd')
    BY <1>1, <2>1, <2>2, EndRefresh DEF EInv, PlayedOutStays, AtEnd
  <2> QED
    BY <1>0, <2>1, <2>3, EndFrame
<1>2. CASE Control \/ CloseBegin \/ CloseAbort \/ CloseJoinReader
  <2>1. /\ UNCHANGED <<codec, rd, pictq, rf>>
        /\ videoq' \in {videoq, [videoq EXCEPT !.abort = TRUE]}
        /\ dec' \in {dec, WakeGetter(dec), WakeWriter(WakeGetter(dec))}
    <3>1. CASE Control
      BY <3>1 DEF Control, SeekPlace, SeekRaise, StartOrPause
    <3>2. CASE CloseBegin \/ CloseAbort \/ CloseJoinReader
      BY <3>2 DEF CloseBegin, CloseAbort, CloseJoinReader
    <3> QED
      BY <1>2, <3>1, <3>2
  <2>2. /\ videoq'.pkts = videoq.pkts /\ videoq'.serial = videoq.serial
        /\ videoq.abort => videoq'.abort
    BY <1>0, <2>1 DEF PacketQueues
  <2>3. Woken(dec, dec') /\ dec'.finished = dec.finished
    BY <1>0, <2>1 DEF Woken
  <2>4. PlayedOutStays' /\ (AtEnd => AtEnd')
    BY <2>1, <2>2, <2>3 DEF EInv, PlayedOutStays, LastPicture, AtEnd
  <2> QED
    BY <2>1, <2>2, <2>3, <2>4, EndFrame
<1>3. CASE CloseDestroy
  <2>1. /\ videoq'.pkts = <<>> /\ videoq'.serial = videoq.serial /\ videoq'.abort = videoq.abort
        /\ UNCHANGED <<dec, codec, rd>>
    BY <1>0, <1>3 DEF CloseDestroy, PacketQueues
  <2>2. videoq.abort /\ rd.pc = "done"
    BY <1>3 DEF CloseDestroy, TInv, Closing
  <2>3. Len(videoq'.pkts) = 0
    BY <2>1
  <2>4. EndRead' /\ PlayedOutStays'
    BY <2>1, <2>2 DEF EndRead, PlayedOutStays
  <2>5. NullLast' /\ Drained'
    BY <2>3 DEF NullLast, Drained, NoDataQueued
  <2>6. Finished'
    BY <2>1 DEF EInv, Finished
  <2> QED
    BY <2>1, <2>4, <2>5, <2>6 DEF EInv
<1> QED
  BY <1>1, <1>2, <1>3 DEF Close

LEMMA EndStep == TInv /\ SInv /\ EInv /\ [Next]_vars => EInv'
<1> SUFFICES ASSUME TInv, SInv, EInv, [Next]_vars PROVE EInv'
  OBVIOUS
<1>1. CASE UNCHANGED vars
  <2>1. UNCHANGED <<videoq, codec, rd, dec, pictq, rf>> /\ Woken(dec, dec)
    BY <1>1, WakeTypes DEF vars, TInv, TypeOK
  <2>2. PlayedOutStays' /\ (AtEnd => AtEnd')
    BY <2>1 DEF EInv, PlayedOutStays, LastPicture, AtEnd
  <2> QED
    BY <2>1, <2>2, EndFrame
<1> QED
  BY <1>1, EndReader, EndVideo, EndOthers DEF Next

\* When the read thread declares the clip played out (stream_has_enough_packets and
\* the test of finished against the serial), no packet, no picture in the decoder
\* and none in the queue is left, but the last one when it is shown again.
THEOREM CompletionCorrect == Spec => []CompletedMeansShown
<1>1. TInv /\ SInv /\ EInv => CompletedMeansShown
  <2> SUFFICES ASSUME TInv, SInv, EInv, rd.pc = "read"
               PROVE  /\ codec.held = <<>>
                      /\ \A i \in DOMAIN videoq.pkts : videoq.pkts[i].kind # "data"
                      /\ Remaining(pictq) = 0 \/ rf.again
                      /\ dec.pc \notin {"send", "queue", "slot", "noslot", "fill", "push"}
    BY DEF CompletedMeansShown
  <2>1. dec.finished = videoq.serial /\ LastPicture
    BY DEF EInv, PlayedOutStays
  <2>2. EndTaken
    <3>1. dec.finished <= dec.pkt_serial /\ dec.pkt_serial <= videoq.serial
      BY DEF SInv, Sorted
    <3>2. dec.pkt_serial = videoq.serial
      BY <2>1, <3>1, SerialTypes
    <3> QED
      BY <2>1, <3>2 DEF EndTaken
  <2>3. \A i \in DOMAIN videoq.pkts : videoq.pkts[i].kind # "data"
    <3>1. DOMAIN videoq.pkts = 1..Len(videoq.pkts)
      BY SerialTypes
    <3> QED
      BY <2>2, <3>1 DEF EInv, Drained, NoDataQueued
  <2>4. Remaining(pictq) = 0 \/ rf.again
    BY <2>1, Sizes DEF LastPicture, Remaining, TInv, TypeOK
  <2> QED
    BY <2>1, <2>3, <2>4 DEF EInv, Finished
<1>2. Init => TInv /\ SInv /\ EInv
  BY TypeInit, SerialInit, EndInit
<1>3. TInv /\ SInv /\ EInv /\ [Next]_vars => (TInv /\ SInv /\ EInv)'
  BY TypeStep, SerialStep, EndStep
<1> QED
  BY <1>1, <1>2, <1>3, PTL DEF Spec

-----------------------------------------------------------------------------
(* The order of the pictures on the screen                                 *)

\* No seek is asked for whose flush has not been put yet.
Latest == videoq.serial = ui.seeks + 1 /\ ~videoq.abort

\* The decoder has taken the flush of the queue's serial.
Entered == dec.pkt_serial = videoq.serial

\* The video thread has a packet, or a picture.
DataHeld == dec.pc \in {"check", "send"} /\ dec.pkt.kind = "data"
Carrying == dec.pc \in {"queue", "slot", "noslot", "fill", "push"}

\* The refresh thread looks at the clip.
Looking == rf.pc \in {"look", "time", "next", "empty"}

\* The pictures of the queue, the oldest first.
SlotAt(i) == pictq.slot[(pictq.rindex + i) % PictqSize]

\* A seek is counted before it is asked for, and asked for until its flush is put.
SeekOrder ==
  /\ rd.pc \in {"flush", "put", "clear"} => is.seek_req
  /\ ui.pc = "raise" => ~is.seek_req
  /\ videoq.serial <= ui.seeks + 1
  /\ ui.pc = "raise" \/ (is.seek_req /\ rd.pc # "clear") => videoq.serial <= ui.seeks
  /\ videoq.abort => rf.pc = "out"

\* What the threads do to the flags of a seek, beside asking for one.
SameSeek(v, w) ==
  /\ w.seek_req = v.seek_req /\ w.accurate = v.accurate
  /\ w.force_refresh = v.force_refresh

LEMMA SameSeeks ==
  ASSUME NEW v \in Flags, NEW on \in BOOLEAN
  PROVE  /\ SameSeek(v, v)
         /\ SameSeek(v, UpdatePause(v)) /\ SameSeek(v, StepToNextFrame(v))
         /\ SameSeek(v, TogglePause(v, on)) /\ SameSeek(v, ToggleBuffering(v, on))
<1>1. \A u \in Flags : SameSeek(u, UpdatePause(u))
  BY DEF UpdatePause, Flags, SameSeek
<1>2. SameSeek(v, StepToNextFrame(v))
  BY DEF StepToNextFrame, Flags, SameSeek
<1>3. LET u == [v EXCEPT !.pause_req = on, !.auto_resume = ~on] IN u \in Flags /\ SameSeek(v, u)
  BY DEF Flags, SameSeek
<1>4. LET u == [v EXCEPT !.buffering_on = on] IN u \in Flags /\ SameSeek(v, u)
  BY DEF Flags, SameSeek
<1>5. SameSeek(v, v)
  BY DEF SameSeek
<1>6. SameSeek(v, TogglePause(v, on))
  BY <1>1, <1>3 DEF TogglePause, SameSeek
<1>7. SameSeek(v, ToggleBuffering(v, on))
  BY <1>1, <1>4 DEF ToggleBuffering, SameSeek
<1> QED
  BY <1>1, <1>2, <1>5, <1>6, <1>7

LEMMA SettleSeek ==
  ASSUME TInv, ReaderSettle
  PROVE  SameSeek(is, is')
<1> DEFINE u == [is EXCEPT !.pause_req = FALSE, !.buffering_on = TRUE, !.auto_resume = FALSE]
           resumed == IF is.auto_resume THEN UpdatePause(u) ELSE is
           stepped == IF resumed.pause_req THEN StepToNextFrame(resumed) ELSE resumed
<1>0. is \in Flags
  BY DEF TInv, TypeOK
<1>1. u \in Flags /\ SameSeek(is, u)
  BY <1>0 DEF Flags, SameSeek
<1> HIDE DEF u
<1>2. resumed \in Flags /\ SameSeek(is, resumed)
  BY <1>0, <1>1, FlagTypes, SameSeeks DEF SameSeek
<1> HIDE DEF resumed
<1>3. stepped \in Flags /\ SameSeek(is, stepped)
  BY <1>2, FlagTypes, SameSeeks DEF SameSeek
<1>4. is' = ToggleBuffering(stepped, TRUE)
  BY DEF ReaderSettle, stepped, resumed, u
<1> HIDE DEF stepped
<1> QED
  BY <1>3, <1>4, SameSeeks DEF SameSeek

\* Steps that have no part in a seek.
LEMMA SeekFrame ==
  ASSUME SeekOrder, is'.seek_req = is.seek_req, videoq'.serial = videoq.serial,
         rd'.pc \in {"flush", "put", "clear"} \/ rd.pc = "clear" => rd'.pc = rd.pc,
         ui'.pc = ui.pc, ui'.seeks = ui.seeks,
         videoq'.abort => videoq.abort \/ rf.pc = "out", rf.pc = "out" => rf'.pc = "out"
  PROVE  SeekOrder'
BY DEF SeekOrder

LEMMA SeekReader == TInv /\ SeekOrder /\ Reader => SeekOrder'
<1> SUFFICES ASSUME TInv, SeekOrder, Reader PROVE SeekOrder'
  OBVIOUS
<1>0. /\ is \in Flags /\ videoq \in PacketQueues /\ rd \in Readers /\ dec \in Decoders
      /\ UNCHANGED <<ui, rf>> /\ videoq.serial \in Nat /\ ui.seeks \in Nat /\ 0 \in Pictures
  <2>1. UNCHANGED <<ui, rf>>
    BY DEF Reader, ReaderSeek, ReaderFlush, ReaderPutFlush, ReaderClear, ReaderSettle,
           ReaderFull, ReaderComplete, ReaderPacket, ReaderEof, ReaderExit
  <2> QED
    BY <2>1, VideoStreamAssumption DEF TInv, TypeOK, PacketQueues, Controls, Pictures
<1>1. CASE ReaderSeek
  <2>1. rd.pc = "loop" /\ is.seek_req /\ rd'.pc \in {"flush", "clear"} /\ UNCHANGED videoq
    BY <1>0, <1>1 DEF ReaderSeek, ReaderAt, Readers
  <2>2. is'.seek_req = is.seek_req
    BY <1>0, <1>1, SameSeeks DEF ReaderSeek, SameSeek
  <2> QED
    BY <1>0, <2>1, <2>2 DEF SeekOrder
<1>2. CASE ReaderFlush
  <2>1. /\ rd.pc = "flush" /\ rd'.pc = "put" /\ UNCHANGED is
        /\ videoq'.serial = videoq.serial /\ videoq'.abort = videoq.abort
    BY <1>0, <1>2 DEF ReaderFlush, Readers, PacketQueues
  <2> QED
    BY <1>0, <2>1 DEF SeekOrder
<1>3. CASE ReaderPutFlush
  <2>1. rd.pc = "put" /\ rd'.pc = "clear" /\ UNCHANGED is
    BY <1>0, <1>3 DEF ReaderPutFlush, Readers
  <2>2. videoq'.abort = videoq.abort /\ videoq'.serial \in {videoq.serial, videoq.serial + 1}
    BY <1>0, <1>3, PutEffect DEF ReaderPutFlush
  <2>3. is.seek_req /\ videoq.serial <= ui.seeks /\ ui.pc # "raise"
    BY <2>1 DEF SeekOrder
  <2> QED
    BY <1>0, <2>1, <2>2, <2>3 DEF SeekOrder
<1>4. CASE ReaderClear
  <2>1. rd.pc = "clear" /\ rd'.pc = "settle" /\ ~is'.seek_req /\ UNCHANGED videoq
    BY <1>0, <1>4 DEF ReaderClear, Readers, Flags
  <2> QED
    BY <1>0, <2>1 DEF SeekOrder
<1>5. CASE ReaderSettle
  <2>1. rd.pc = "settle" /\ rd'.pc = "loop" /\ UNCHANGED videoq
    BY <1>0, <1>5 DEF ReaderSettle, Readers
  <2>2. is'.seek_req = is.seek_req
    BY <1>5, SettleSeek DEF SameSeek
  <2> QED
    BY <1>0, <2>1, <2>2, SeekFrame
<1>6. CASE ReaderFull \/ ReaderExit
  <2>1. rd.pc = "loop" /\ rd'.pc \in {"loop", "done"} /\ UNCHANGED videoq
    BY <1>0, <1>6 DEF ReaderFull, ReaderExit, ReaderAt, Readers
  <2>2. is'.seek_req = is.seek_req
    BY <1>0, <1>6, SameSeeks DEF ReaderFull, ReaderExit, SameSeek
  <2> QED
    BY <1>0, <2>1, <2>2, SeekFrame
<1>7. CASE ReaderComplete
  <2>1. rd.pc = "loop" /\ rd'.pc = "read" /\ UNCHANGED videoq
    BY <1>0, <1>7 DEF ReaderComplete, ReaderAt, Readers
  <2>2. is'.seek_req = is.seek_req
    <3> DEFINE u == [is EXCEPT !.auto_resume = FALSE]
    <3>1. u \in Flags /\ SameSeek(is, u)
      BY <1>0 DEF Flags, SameSeek
    <3>2. is' = TogglePause(ToggleBuffering(u, FALSE), TRUE)
      BY <1>7 DEF ReaderComplete
    <3> HIDE DEF u
    <3> QED
      BY <3>1, <3>2, FlagTypes, SameSeeks DEF SameSeek
  <2> QED
    BY <1>0, <2>1, <2>2, SeekFrame
<1>8. CASE ReaderPacket \/ ReaderEof
  <2>1. rd.pc \in {"loop", "read"} /\ rd'.pc = "loop"
    BY <1>0, <1>8 DEF ReaderPacket, ReaderEof, Reads, ReaderAt, Readers
  <2>2. is'.seek_req = is.seek_req
    BY <1>0, <1>8, SameSeeks DEF ReaderPacket, ReaderEof, SameSeek
  <2>3. videoq'.abort = videoq.abort /\ videoq'.serial = videoq.serial
    <3>1. CASE ReaderPacket
      <4>1. rd.pos \in Pictures
        BY <1>0, <3>1, VideoStreamAssumption DEF ReaderPacket, Readers, Pictures
      <4> QED
        BY <1>0, <3>1, <4>1, PutEffect DEF ReaderPacket
    <3>2. CASE ReaderEof
      BY <1>0, <3>2, PutEffect DEF ReaderEof
    <3> QED
      BY <1>8, <3>1, <3>2
  <2> QED
    BY <1>0, <2>1, <2>2, <2>3, SeekFrame
<1> QED
  BY <1>1, <1>2, <1>3, <1>4, <1>5, <1>6, <1>7, <1>8 DEF Reader

LEMMA SeekOthers ==
  TInv /\ SeekOrder /\ (VideoThread \/ Refresh \/ Control \/ Close) => SeekOrder'
<1> SUFFICES ASSUME TInv, SeekOrder, VideoThread \/ Refresh \/ Control \/ Close
             PROVE  SeekOrder'
  OBVIOUS
<1>0. /\ is \in Flags /\ videoq \in PacketQueues /\ dec \in Decoders /\ ui \in Controls
      /\ rf \in Refreshers /\ videoq.serial \in Nat /\ ui.seeks \in Nat
  BY DEF TInv, TypeOK, PacketQueues, Controls
<1>1. CASE VideoThread
  <2>1. /\ UNCHANGED <<rd, rf, ui>> /\ videoq'.abort = videoq.abort
        /\ videoq'.serial = videoq.serial
    BY <1>0, <1>1, TakeType
       DEF VideoThread, ReceivePicture, ReceiveEof, ReceiveNothing, FetchPacket, GetPacket,
           StartBuffering, BlockForPacket, CheckPacket, SendPacket, QueuePicture, WaitForSlot,
           FillSlot, PushPicture
  <2>2. is'.seek_req = is.seek_req
    <3>1. CASE StartBuffering
      BY <1>0, <3>1, SameSeeks DEF StartBuffering, SameSeek
    <3>2. CASE FetchPacket \/ CheckPacket \/ QueuePicture
      BY <1>0, <3>2 DEF FetchPacket, CheckPacket, QueuePicture, Flags
    <3>3. CASE ~StartBuffering /\ ~FetchPacket /\ ~CheckPacket /\ ~QueuePicture
      BY <1>1, <3>3 DEF VideoThread, ReceivePicture, ReceiveEof, ReceiveNothing, GetPacket,
           BlockForPacket, SendPacket, WaitForSlot, FillSlot, PushPicture
    <3> QED
      BY <3>1, <3>2, <3>3
  <2> QED
    BY <2>1, <2>2, SeekFrame
<1>2. CASE Refresh
  <2>1. UNCHANGED <<rd, ui, videoq>> /\ rf.pc # "out"
    BY <1>2 DEF Refresh, RefreshTop, RefreshLeave, RefreshLook, RefreshNotYet, RefreshEarly,
                RefreshLate, RefreshShow, RefreshNext, RefreshEmpty, SwitchToNextClip
  <2>2. is'.seek_req = is.seek_req
    <3>1. CASE RefreshNext
      <4> DEFINE u == [is EXCEPT !.step = FALSE]
                 stepped == IF is.step THEN IF is.paused THEN u ELSE UpdatePause(u) ELSE is
      <4>1. u \in Flags /\ SameSeek(is, u)
        BY <1>0 DEF Flags, SameSeek
      <4>2. stepped \in Flags /\ SameSeek(is, stepped)
        <5> HIDE DEF u
        <5> QED
          BY <1>0, <4>1, FlagTypes, SameSeeks DEF SameSeek
      <4>3. is' = [stepped EXCEPT !.force_refresh = FALSE]
        BY <3>1 DEF RefreshNext
      <4> HIDE DEF stepped
      <4> QED
        BY <4>2, <4>3 DEF Flags, SameSeek
    <3>2. CASE SwitchToNextClip
      <4> DEFINE u == [is EXCEPT !.pause_req = TRUE, !.auto_resume = FALSE, !.doneVideo = FALSE]
      <4>1. u \in Flags /\ SameSeek(is, u) /\ is' = UpdatePause(u)
        BY <1>0, <3>2 DEF Flags, SameSeek, SwitchToNextClip
      <4> HIDE DEF u
      <4> QED
        BY <4>1, SameSeeks DEF SameSeek
    <3>3. CASE RefreshEmpty
      BY <1>0, <3>3 DEF RefreshEmpty, Flags
    <3>4. CASE ~RefreshNext /\ ~SwitchToNextClip /\ ~RefreshEmpty
      BY <1>2, <3>4 DEF Refresh, RefreshTop, RefreshLeave, RefreshLook, RefreshNotYet,
                        RefreshEarly, RefreshLate, RefreshShow
    <3> QED
      BY <3>1, <3>2, <3>3, <3>4
  <2> QED
    BY <2>1, <2>2, SeekFrame
<1>3. CASE SeekPlace
  <2>1. /\ ~is.seek_req /\ ~is'.seek_req /\ ui'.seeks = ui.seeks + 1
        /\ UNCHANGED <<videoq, rd, rf>>
    BY <1>0, <1>3 DEF SeekPlace, Flags, Controls
  <2> QED
    BY <1>0, <2>1 DEF SeekOrder
<1>4. CASE SeekRaise
  <2>1. /\ ui.pc = "raise" /\ is'.seek_req /\ ui'.pc = "idle" /\ ui'.seeks = ui.seeks
        /\ UNCHANGED <<videoq, rd, rf>>
    BY <1>0, <1>4 DEF SeekRaise, Flags, Controls
  <2> QED
    BY <1>0, <2>1 DEF SeekOrder
<1>5. ASSUME NEW on \in BOOLEAN, StartOrPause(on) PROVE SeekOrder'
  <2>1. ui'.pc = ui.pc /\ ui'.seeks = ui.seeks /\ UNCHANGED <<videoq, rd, rf>>
    BY <1>0, <1>5 DEF StartOrPause, Controls
  <2>2. is'.seek_req = is.seek_req
    BY <1>0, <1>5, SameSeeks DEF StartOrPause, SameSeek
  <2> QED
    BY <2>1, <2>2, SeekFrame
<1>6. CASE Close
  <2>1. /\ UNCHANGED <<rd, rf, ui>> /\ is'.seek_req = is.seek_req
        /\ videoq'.serial = videoq.serial
        /\ videoq'.abort => videoq.abort \/ rf.pc = "out"
    BY <1>0, <1>6 DEF Close, CloseBegin, CloseAbort, CloseJoinReader, CloseDestroy,
                      Flags, PacketQueues
  <2> QED
    BY <2>1, SeekFrame
<1> QED
  BY <1>1, <1>2, <1>3, <1>4, <1>5, <1>6 DEF Control

\* Every step keeps a seek in order.
LEMMA SeekStep == TInv /\ SeekOrder /\ [Next]_vars => SeekOrder'
<1>1. ASSUME SeekOrder, UNCHANGED vars PROVE SeekOrder'
  BY <1>1 DEF vars, SeekOrder
<1> QED
  BY <1>1, SeekReader, SeekOthers DEF Next

\* The picture the refresh thread looks at is one of those that wait.
LEMMA Places ==
  ASSUME TInv
  PROVE  /\ \A i \in Nat : (pictq.rindex + i) % PictqSize \in Slots /\ SlotAt(i) \in Frames
         /\ Peek(pictq) = SlotAt(pictq.shown)
<1>0. pictq \in PictureQueues
  BY DEF TInv, TypeOK
<1>1. ASSUME NEW i \in Nat
      PROVE  (pictq.rindex + i) % PictqSize \in Slots /\ SlotAt(i) \in Frames
  <2>1. pictq.rindex + i \in Nat
    BY <1>0, Sizes
  <2>2. (pictq.rindex + i) % PictqSize \in Slots
    BY <1>0, <2>1, Remainders, Sizes DEF Slots
  <2> QED
    BY <1>0, <2>2, Sizes DEF SlotAt
<1> QED
  BY <1>1 DEF Peek, SlotAt

\* Letting go of the picture on the screen moves those behind it up.
LEMMA NextPlaces ==
  ASSUME TInv, pictq.shown < pictq.size, pictq' = Next_(pictq)
  PROVE  /\ pictq'.shown = 1 /\ pictq'.windex = pictq.windex
         /\ \A s \in Slots : pictq'.slot[s] \in {pictq.slot[s], NoFrame}
         /\ \/ /\ pictq.shown = 0 /\ pictq'.size = pictq.size
               /\ \A i \in 0..(pictq'.size - 1) : SlotAt(i)' = SlotAt(i)
            \/ /\ pictq.shown = 1 /\ pictq'.size = pictq.size - 1
               /\ \A i \in 0..(pictq'.size - 1) : SlotAt(i)' = SlotAt(i + 1)
<1> DEFINE r == pictq.rindex
           z == pictq.size
<1>0. /\ pictq \in PictureQueues /\ PictqSize \in Nat \ {0} /\ r \in Nat /\ r < PictqSize
      /\ z \in Nat /\ z <= PictqSize /\ r \in Slots
      /\ pictq.slot \in [Slots -> Frames] /\ pictq.shown \in {0, 1}
  BY Sizes DEF TInv, TypeOK
<1>n. pictq'.windex = pictq.windex /\ \A s \in Slots : pictq'.slot[s] \in {pictq.slot[s], NoFrame}
  BY <1>0, NextType
<1>1. CASE pictq.shown = 0
  <2>1. pictq' = [pictq EXCEPT !.shown = 1]
    BY <1>1 DEF Next_
  <2>2. /\ pictq'.shown = 1 /\ pictq'.size = z /\ pictq'.rindex = r
        /\ pictq'.slot = pictq.slot
    BY <1>0, <2>1 DEF PictureQueues
  <2> QED
    BY <1>1, <1>n, <2>2 DEF SlotAt
<1>2. CASE pictq.shown = 1
  <2> DEFINE g == [pictq.slot EXCEPT ![r] = NoFrame]
             q == (r + 1) % PictqSize
  <2>1. pictq' = [pictq EXCEPT !.slot = g, !.rindex = q, !.size = z - 1]
    BY <1>2 DEF Next_
  <2> HIDE DEF g, q
  <2>2. /\ pictq'.shown = 1 /\ pictq'.size = z - 1 /\ pictq'.rindex = q
        /\ pictq'.slot = g
    BY <1>0, <1>2, <2>1 DEF PictureQueues
  <2>3. ASSUME NEW i \in 0..(z - 1 - 1) PROVE SlotAt(i)' = SlotAt(i + 1)
    <3>1. i \in Nat /\ i + 1 \in Nat /\ i + 1 > 0 /\ i + 1 < PictqSize /\ (i + 1) - 1 = i
      BY <1>0
    <3>2. (q + i) % PictqSize = (r + (i + 1)) % PictqSize
      <4>1. (((r + 1) % PictqSize) + ((i + 1) - 1)) % PictqSize = (r + (i + 1)) % PictqSize
        <5>1. i + 1 <= PictqSize
          BY <1>0, <3>1
        <5> QED
          BY <1>0, <3>1, <5>1, RingPlaces
      <4> QED
        BY <3>1, <4>1 DEF q
    <3>3. (r + 0) % PictqSize # (r + (i + 1)) % PictqSize
      <4>1. 0 \in 0..((i + 1) - 1) /\ i + 1 <= PictqSize
        BY <1>0, <3>1
      <4> QED
        BY <1>0, <3>1, <4>1, RingPlaces
    <3>4. (r + 0) % PictqSize = r
      BY <1>0
    <3>5. (r + (i + 1)) % PictqSize \in Slots
      BY <3>1, Places
    <3> QED
      BY <1>0, <2>2, <3>2, <3>3, <3>4, <3>5 DEF SlotAt, g
  <2> QED
    BY <1>2, <1>n, <2>2, <2>3
<1> QED
  BY <1>0, <1>1, <1>2

\* The slot that is filled is behind the pictures that wait.
LEMMA FillPlaces ==
  ASSUME TInv, Ring, FillSlot
  PROVE  /\ pictq'.shown = pictq.shown /\ pictq'.size = pictq.size
         /\ pictq'.windex = pictq.windex /\ pictq'.slot[pictq.windex] = dec.frame
         /\ \A s \in Slots : pictq'.slot[s] \in {pictq.slot[s], dec.frame}
         /\ \A i \in 0..(pictq.size - 1) : SlotAt(i)' = SlotAt(i)
<1> DEFINE r == pictq.rindex
           z == pictq.size
           w == pictq.windex
           g == [pictq.slot EXCEPT ![w] = dec.frame]
<1>0. /\ pictq \in PictureQueues /\ PictqSize \in Nat \ {0} /\ r \in Nat /\ r < PictqSize
      /\ z \in Nat /\ z <= PictqSize /\ z < PictqSize /\ w \in Slots
      /\ pictq.slot \in [Slots -> Frames]
  BY Sizes DEF TInv, TypeOK, Counts, FillSlot
<1>1. w = (r + z) % PictqSize
  BY DEF Ring, TInv, Closing, FillSlot
<1>2. pictq' = [pictq EXCEPT !.slot = g]
  BY DEF FillSlot
<1>3. /\ g[w] = dec.frame /\ \A s \in Slots : g[s] \in {pictq.slot[s], dec.frame}
      /\ \A s \in Slots : s # w => g[s] = pictq.slot[s]
  BY <1>0
<1> HIDE DEF g
<1>4. /\ pictq'.shown = pictq.shown /\ pictq'.size = z /\ pictq'.rindex = r
      /\ pictq'.windex = w /\ pictq'.slot = g
  BY <1>0, <1>2 DEF PictureQueues
<1>5. ASSUME NEW i \in 0..(z - 1) PROVE SlotAt(i)' = SlotAt(i)
  <2>1. (r + i) % PictqSize # (r + z) % PictqSize
    BY <1>0, RingPlaces
  <2>2. (r + i) % PictqSize \in Slots
    BY <1>0, Places
  <2> QED
    BY <1>1, <1>3, <1>4, <2>1, <2>2 DEF SlotAt
<1> QED
  BY <1>3, <1>4, <1>5

\* The picture in that slot becomes the last one of them.
LEMMA PushPlaces ==
  ASSUME TInv, Ring, PushPicture
  PROVE  /\ pictq'.shown = pictq.shown /\ pictq'.size = pictq.size + 1
         /\ pictq'.slot = pictq.slot
         /\ \A i \in 0..pictq.size : SlotAt(i)' = SlotAt(i)
         /\ SlotAt(pictq.size) = pictq.slot[pictq.windex]
<1>0. pictq \in PictureQueues
  BY DEF TInv, TypeOK
<1>1. pictq.windex = (pictq.rindex + pictq.size) % PictqSize
  BY DEF Ring, TInv, Closing, PushPicture
<1>2. \A w, z : LET p == [pictq EXCEPT !.windex = w, !.size = z]
                IN  /\ p.shown = pictq.shown /\ p.size = z /\ p.rindex = pictq.rindex
                    /\ p.slot = pictq.slot
  BY <1>0 DEF PictureQueues
<1>3. pictq' = [pictq EXCEPT !.windex = (pictq.windex + 1) % PictqSize, !.size = pictq.size + 1]
  BY DEF PushPicture
<1>4. /\ pictq'.shown = pictq.shown /\ pictq'.size = pictq.size + 1
      /\ pictq'.rindex = pictq.rindex /\ pictq'.slot = pictq.slot
  BY <1>2, <1>3
<1> QED
  BY <1>1, <1>4 DEF SlotAt

\* The pictures are of serials the decoder has taken, those that wait in the order
\* of their serials; the one in hand is of the serial taken last.
Behind ==
  /\ \A s \in Slots : pictq.slot[s].serial <= dec.pkt_serial
  /\ shown.serial <= dec.pkt_serial
  /\ Carrying => dec.frame.serial = dec.pkt_serial
  /\ dec.pc = "push" => pictq.slot[pictq.windex] = dec.frame
  /\ \A i, j \in 0..(pictq.size - 1) : i <= j => SlotAt(i).serial <= SlotAt(j).serial

\* Letting go of a picture leaves the one that was filled last.
LEMMA FilledStays ==
  ASSUME TInv, Ring, pictq.shown < pictq.size, pictq' = Next_(pictq), dec.pc = "push"
  PROVE  pictq'.slot[pictq.windex] = pictq.slot[pictq.windex]
<1> DEFINE r == pictq.rindex
           z == pictq.size
<1>0. /\ pictq \in PictureQueues /\ PictqSize \in Nat \ {0} /\ r \in Nat /\ r < PictqSize
      /\ z \in Nat /\ z < PictqSize /\ z <= PictqSize /\ z > 0 /\ r \in Slots
      /\ pictq.windex \in Slots
      /\ pictq.slot \in [Slots -> Frames] /\ pictq.shown \in {0, 1}
  BY Sizes DEF TInv, TypeOK, Counts
<1>1. pictq.windex = (r + z) % PictqSize
  BY DEF Ring, TInv, Closing
<1>2. (r + 0) % PictqSize # (r + z) % PictqSize
  <2>1. 0 \in 0..(z - 1)
    BY <1>0
  <2> QED
    BY <1>0, <2>1, RingPlaces
<1>3. pictq.windex # r
  <2>1. (r + 0) % PictqSize = r
    BY <1>0
  <2> QED
    BY <1>1, <1>2, <2>1
<1>4. CASE pictq.shown = 0
  <2>1. pictq' = [pictq EXCEPT !.shown = 1]
    BY <1>4 DEF Next_
  <2> QED
    BY <1>0, <2>1 DEF PictureQueues
<1>5. CASE pictq.shown = 1
  <2> DEFINE g == [pictq.slot EXCEPT ![r] = NoFrame]
             q == (r + 1) % PictqSize
  <2>1. pictq' = [pictq EXCEPT !.slot = g, !.rindex = q, !.size = z - 1]
    BY <1>5 DEF Next_
  <2>2. g[pictq.windex] = pictq.slot[pictq.windex]
    BY <1>0, <1>3
  <2> HIDE DEF g, q
  <2> QED
    BY <1>0, <2>1, <2>2 DEF PictureQueues
<1> QED
  BY <1>0, <1>4, <1>5

\* Serials of pictures as numbers.
LEMMA PictureSerials ==
  ASSUME TInv
  PROVE  /\ \A s \in Slots : pictq.slot[s].serial \in Nat /\ pictq.slot[s].n \in Nat
         /\ \A i \in Nat : SlotAt(i).serial \in Nat /\ SlotAt(i).n \in Nat
         /\ shown.serial \in Nat /\ shown.n \in Nat /\ dec.frame.serial \in Nat
         /\ dec.frame.n \in Nat /\ dec.pkt_serial \in Nat /\ videoq.serial \in Nat
         /\ ui.seeks \in Nat /\ rf.last \in Nat /\ rd.pos \in Nat /\ dec.pkt.n \in Nat
         /\ pictq.size \in Nat /\ pictq.shown \in {0, 1} /\ pictq.shown \in Nat
         /\ pictq.shown <= pictq.size /\ pictq.windex \in Slots
<1>1. \A f \in Frames : f.serial \in Nat /\ f.n \in Nat
  BY DEF Frames, Pictures
<1>2. \A s \in Slots : pictq.slot[s] \in Frames
  BY Sizes DEF TInv, TypeOK
<1>3. dec.frame \in Frames /\ dec.pkt_serial \in Nat /\ dec.pkt.n \in Nat
  BY DEF TInv, TypeOK, Decoders, Packets, Pictures
<1>4. /\ shown.serial \in Nat /\ shown.n \in Nat /\ videoq.serial \in Nat
      /\ ui.seeks \in Nat /\ rf.last \in Nat /\ rd.pos \in Nat
  BY DEF TInv, TypeOK, PacketQueues, Controls, Refreshers, Readers, Pictures
<1> QED
  BY <1>1, <1>2, <1>3, <1>4, Places, Sizes DEF TInv, TypeOK, Counts

\* Steps of the threads that do not decode.
LEMMA BehindFrame ==
  ASSUME TInv, Ring, Behind, Woken(dec, dec'),
         \/ pictq' = pictq
         \/ pictq.shown < pictq.size /\ pictq' = Next_(pictq)
         \/ pictq' = [pictq EXCEPT !.shown = 0],
         shown'.serial \in {shown.serial, Peek(pictq).serial}
  PROVE  Behind'
<1>0. /\ dec'.pkt_serial = dec.pkt_serial /\ dec'.frame = dec.frame
      /\ Carrying' => Carrying /\ (dec'.pc = "push" => dec.pc = "push")
  BY DEF Woken, Carrying
<1>1. shown'.serial <= dec.pkt_serial
  <2>1. Peek(pictq).serial <= dec.pkt_serial
    BY Places, PictureSerials DEF Behind, Peek
  <2> QED
    BY <2>1 DEF Behind
<1>2. Carrying' => dec'.frame.serial = dec'.pkt_serial
  BY <1>0 DEF Behind
<1>3. CASE pictq' = pictq \/ pictq' = [pictq EXCEPT !.shown = 0]
  <2>1. /\ pictq'.slot = pictq.slot /\ pictq'.windex = pictq.windex
        /\ pictq'.rindex = pictq.rindex /\ pictq'.size = pictq.size
    BY <1>3 DEF TInv, TypeOK, PictureQueues
  <2>2. \A i \in 0..(pictq.size - 1) : SlotAt(i)' = SlotAt(i)
    BY <2>1 DEF SlotAt
  <2> QED
    BY <1>0, <1>1, <1>2, <2>1, <2>2 DEF Behind, Woken
<1>4. CASE pictq.shown < pictq.size /\ pictq' = Next_(pictq)
  <2>1. \A s \in Slots : pictq'.slot[s].serial <= dec.pkt_serial
    BY <1>4, NextPlaces, PictureSerials DEF Behind, NoFrame
  <2>2. dec'.pc = "push" => pictq'.slot[pictq'.windex] = dec'.frame
    BY <1>0, <1>4, NextPlaces, FilledStays DEF Behind, Woken
  <2>3. ASSUME NEW i \in 0..(pictq'.size - 1), NEW j \in 0..(pictq'.size - 1), i <= j
        PROVE  SlotAt(i)'.serial <= SlotAt(j)'.serial
    <3>1. CASE /\ pictq'.size = pictq.size
               /\ \A k \in 0..(pictq'.size - 1) : SlotAt(k)' = SlotAt(k)
      BY <2>3, <3>1 DEF Behind
    <3>2. CASE /\ pictq'.size = pictq.size - 1
               /\ \A k \in 0..(pictq'.size - 1) : SlotAt(k)' = SlotAt(k + 1)
      <4>1. i + 1 \in 0..(pictq.size - 1) /\ j + 1 \in 0..(pictq.size - 1) /\ i + 1 <= j + 1
        BY <2>3, <3>2, PictureSerials
      <4> QED
        BY <2>3, <3>2, <4>1 DEF Behind
    <3> QED
      BY <1>4, <3>1, <3>2, NextPlaces
  <2> QED
    BY <1>0, <1>1, <1>2, <2>1, <2>2, <2>3 DEF Behind
<1> QED
  BY <1>3, <1>4

\* What the video thread does to the pictures.
LEMMA BehindVideo == TInv /\ SInv /\ Ring /\ Behind /\ VideoThread => Behind'
<1> SUFFICES ASSUME TInv, SInv, Ring, Behind, VideoThread PROVE Behind'
  OBVIOUS
<1>0. dec \in Decoders /\ UNCHANGED shown
  BY DEF TInv, TypeOK, VideoThread, ReceivePicture, ReceiveEof, ReceiveNothing, FetchPacket,
         GetPacket, StartBuffering, BlockForPacket, CheckPacket, SendPacket, QueuePicture,
         WaitForSlot, FillSlot, PushPicture
<1>1. ASSUME UNCHANGED pictq, dec.pkt_serial <= dec'.pkt_serial, dec'.pkt_serial \in Nat,
             Carrying' => dec'.frame.serial = dec'.pkt_serial, dec'.pc # "push"
      PROVE  Behind'
  <2>1. \A s \in Slots : pictq'.slot[s].serial <= dec'.pkt_serial
    BY <1>1, PictureSerials DEF Behind
  <2>2. shown'.serial <= dec'.pkt_serial
    BY <1>0, <1>1, PictureSerials DEF Behind
  <2>3. \A i, j \in 0..(pictq'.size - 1) : i <= j => SlotAt(i)'.serial <= SlotAt(j)'.serial
    BY <1>1 DEF Behind, SlotAt
  <2> QED
    BY <1>1, <2>1, <2>2, <2>3 DEF Behind
<1>2. CASE ReceivePicture
  <2>1. /\ dec'.pc = "queue" /\ dec'.frame.serial = dec.pkt_serial
        /\ dec'.pkt_serial = dec.pkt_serial /\ UNCHANGED pictq
    BY <1>0, <1>2 DEF ReceivePicture, Decoders
  <2> QED
    BY <1>1, <2>1, PictureSerials
<1>3. CASE GetPacket \/ BlockForPacket
  <2>1. CASE ~videoq.abort /\ Deliverable
    <3>1. TakePacket /\ UNCHANGED pictq
      BY <1>3, <2>1 DEF GetPacket, BlockForPacket
    <3>2. /\ dec'.pc \in {"get", "check"} /\ dec'.pkt_serial = videoq.pkts[1].serial
          /\ Len(videoq.pkts) \in Nat /\ Len(videoq.pkts) >= 1
      BY <2>1, <3>1, Taken
    <3>3. dec.pkt_serial <= dec'.pkt_serial /\ dec'.pkt_serial \in Nat
      BY <3>2, SerialTypes DEF SInv, Sorted
    <3> QED
      BY <1>1, <3>1, <3>2, <3>3 DEF Carrying
  <2>2. CASE ~(~videoq.abort /\ Deliverable)
    <3>1. /\ dec'.pc \in {"exit", "buffer", "asleep"} /\ dec'.pkt_serial = dec.pkt_serial
          /\ UNCHANGED pictq
      BY <1>0, <1>3, <2>2 DEF GetPacket, BlockForPacket, Decoders
    <3> QED
      BY <1>1, <3>1, PictureSerials DEF Carrying
  <2> QED
    BY <2>1, <2>2
<1>4. CASE ReceiveEof \/ ReceiveNothing \/ FetchPacket \/ StartBuffering \/ CheckPacket \/ SendPacket
  <2>1. /\ dec'.pc \in {"exit", "decode", "fetch", "get", "block", "send"}
        /\ dec'.pkt_serial = dec.pkt_serial /\ UNCHANGED pictq
    BY <1>0, <1>4 DEF ReceiveEof, ReceiveNothing, FetchPacket, StartBuffering, CheckPacket,
       SendPacket, Decoding, Decoders
  <2> QED
    BY <1>1, <2>1, PictureSerials DEF Carrying
<1>5. CASE QueuePicture \/ WaitForSlot
  <2>1. /\ Carrying /\ dec'.pkt_serial = dec.pkt_serial /\ UNCHANGED pictq
        /\ \/ dec'.pc \in {"exit", "decode"}
           \/ dec'.pc \in {"slot", "noslot", "fill"} /\ dec'.frame = dec.frame
    BY <1>0, <1>5 DEF QueuePicture, WaitForSlot, Carrying, Decoders
  <2>2. Carrying' => dec'.frame.serial = dec'.pkt_serial
    BY <2>1 DEF Carrying, Behind
  <2> QED
    BY <1>1, <2>1, <2>2, PictureSerials
<1>6. CASE FillSlot
  <2>1. /\ Carrying /\ dec'.pkt_serial = dec.pkt_serial /\ dec'.frame = dec.frame
        /\ dec.frame.serial = dec.pkt_serial
    BY <1>0, <1>6 DEF FillSlot, Carrying, Decoders, Behind
  <2>2. /\ pictq'.size = pictq.size /\ pictq'.windex = pictq.windex
        /\ pictq'.slot[pictq.windex] = dec.frame
        /\ \A s \in Slots : pictq'.slot[s] \in {pictq.slot[s], dec.frame}
        /\ \A i \in 0..(pictq.size - 1) : SlotAt(i)' = SlotAt(i)
    BY <1>6, FillPlaces
  <2>3. \A s \in Slots : pictq'.slot[s].serial <= dec'.pkt_serial
    BY <2>1, <2>2, PictureSerials DEF Behind
  <2> QED
    BY <1>0, <2>1, <2>2, <2>3 DEF Behind
<1>7. CASE PushPicture
  <2>1. /\ Carrying /\ dec'.pkt_serial = dec.pkt_serial /\ dec'.pc = "decode"
        /\ dec.frame.serial = dec.pkt_serial /\ pictq.slot[pictq.windex] = dec.frame
    BY <1>0, <1>7 DEF PushPicture, Carrying, Decoders, Behind
  <2>2. /\ pictq'.size = pictq.size + 1 /\ pictq'.slot = pictq.slot
        /\ \A i \in 0..pictq.size : SlotAt(i)' = SlotAt(i)
        /\ SlotAt(pictq.size) = dec.frame
    BY <1>7, <2>1, PushPlaces
  <2>3. ASSUME NEW i \in 0..pictq.size, NEW j \in 0..pictq.size, i <= j
        PROVE  SlotAt(i).serial <= SlotAt(j).serial
    <3>1. CASE j = pictq.size
      <4>1. SlotAt(i).serial <= dec.pkt_serial
        BY Places DEF Behind, SlotAt
      <4> QED
        BY <2>1, <2>2, <3>1, <4>1
    <3>2. CASE j # pictq.size
      <4>1. i \in 0..(pictq.size - 1) /\ j \in 0..(pictq.size - 1)
        BY <2>3, <3>2, PictureSerials
      <4> QED
        BY <2>3, <4>1 DEF Behind
    <3> QED
      BY <3>1, <3>2
  <2>4. pictq'.size - 1 = pictq.size
    BY <2>2, PictureSerials
  <2> QED
    BY <1>0, <2>1, <2>2, <2>3, <2>4 DEF Behind, Carrying
<1> QED
  BY <1>2, <1>3, <1>4, <1>5, <1>6, <1>7 DEF VideoThread

\* The threads that do not decode only wake the video thread.
LEMMA OthersWake ==
  ASSUME TInv, Reader \/ Refresh \/ Control \/ Close \/ UNCHANGED vars
  PROVE  Woken(dec, dec')
<1>0. /\ dec \in Decoders /\ videoq \in PacketQueues /\ rd \in Readers /\ 0 \in Pictures
      /\ Woken(dec, dec) /\ Woken(dec, WakeGetter(dec)) /\ Woken(dec, WakeWriter(dec))
      /\ Woken(dec, WakeWriter(WakeGetter(dec)))
  BY WakeTypes, VideoStreamAssumption DEF TInv, TypeOK, Pictures
<1>1. CASE Reader
  <2>1. CASE ReaderPutFlush
    BY <1>0, <2>1, PutEffect DEF ReaderPutFlush
  <2>2. CASE ReaderPacket
    <3>1. rd.pos \in Pictures
      BY <1>0, <2>2, VideoStreamAssumption DEF ReaderPacket, Readers, Pictures
    <3> QED
      BY <1>0, <2>2, <3>1, PutEffect DEF ReaderPacket
  <2>3. CASE ReaderEof
    BY <1>0, <2>3, PutEffect DEF ReaderEof
  <2>4. CASE ~ReaderPutFlush /\ ~ReaderPacket /\ ~ReaderEof
    <3>1. UNCHANGED dec
      BY <1>1, <2>4 DEF Reader, ReaderSeek, ReaderFlush, ReaderClear, ReaderSettle,
                        ReaderFull, ReaderComplete, ReaderExit
    <3> QED
      BY <1>0, <3>1
  <2> QED
    BY <2>1, <2>2, <2>3, <2>4
<1>2. CASE Refresh
  <2>1. dec' \in {dec, WakeWriter(dec)}
    BY <1>2 DEF Refresh, RefreshTop, RefreshLeave, RefreshLook, RefreshNotYet, RefreshEarly,
                RefreshLate, RefreshShow, RefreshNext, RefreshEmpty, SwitchToNextClip
  <2> QED
    BY <1>0, <2>1
<1>3. CASE Control
  BY <1>0, <1>3 DEF Control, SeekPlace, SeekRaise, StartOrPause
<1>4. CASE Close
  <2>1. dec' \in {dec, WakeGetter(dec), WakeWriter(WakeGetter(dec))}
    BY <1>4 DEF Close, CloseBegin, CloseAbort, CloseJoinReader, CloseDestroy
  <2> QED
    BY <1>0, <2>1
<1>5. CASE UNCHANGED vars
  BY <1>0, <1>5 DEF vars
<1> QED
  BY <1>1, <1>2, <1>3, <1>4, <1>5

LEMMA BehindStep == TInv /\ SInv /\ Ring /\ Behind /\ [Next]_vars => Behind'
<1> SUFFICES ASSUME TInv, SInv, Ring, Behind, [Next]_vars PROVE Behind'
  OBVIOUS
<1>0. /\ dec \in Decoders /\ pictq \in PictureQueues
      /\ Reader \/ Refresh \/ Control \/ Close \/ UNCHANGED vars => Woken(dec, dec')
  BY OthersWake DEF TInv, TypeOK
<1>1. CASE UNCHANGED vars
  <2>1. UNCHANGED <<pictq, shown>>
    BY <1>1 DEF vars
  <2> QED
    BY <1>0, <1>1, <2>1, BehindFrame
<1>2. CASE Reader
  <2>1. UNCHANGED <<pictq, shown>>
    BY <1>2 DEF Reader, ReaderSeek, ReaderFlush, ReaderPutFlush, ReaderClear, ReaderSettle,
                ReaderFull, ReaderComplete, ReaderPacket, ReaderEof, ReaderExit
  <2> QED
    BY <1>0, <1>2, <2>1, BehindFrame
<1>3. CASE Refresh
  <2>1. shown'.serial \in {shown.serial, Peek(pictq).serial}
    BY <1>3 DEF Refresh, RefreshTop, RefreshLeave, RefreshLook, RefreshNotYet, RefreshEarly,
                RefreshLate, RefreshShow, RefreshNext, RefreshEmpty, SwitchToNextClip, Show
  <2> QED
    BY <1>0, <1>3, <2>1, RefreshPictq, BehindFrame
<1>4. CASE Control \/ CloseBegin \/ CloseAbort \/ CloseJoinReader
  <2>1. UNCHANGED <<pictq, shown>>
    BY <1>4 DEF Control, SeekPlace, SeekRaise, StartOrPause, CloseBegin, CloseAbort,
                CloseJoinReader
  <2> QED
    BY <1>0, <1>4, <2>1, BehindFrame DEF Close
<1>5. CASE CloseDestroy
  <2>1. /\ UNCHANGED <<dec, shown>> /\ dec.pc = "exit"
        /\ pictq' = [pictq EXCEPT !.slot = [s \in Slots |-> NoFrame], !.size = 0, !.shown = 0]
    BY <1>5 DEF CloseDestroy
  <2>2. pictq'.size = 0 /\ \A s \in Slots : pictq'.slot[s].serial = 0
    BY <1>0, <2>1 DEF PictureQueues, NoFrame
  <2>3. \A s \in Slots : pictq'.slot[s].serial <= dec.pkt_serial
    BY <2>2, PictureSerials
  <2>4. 0..(pictq'.size - 1) = {}
    BY <2>2
  <2> QED
    BY <2>1, <2>3, <2>4 DEF Behind, Carrying
<1> QED
  BY <1>1, <1>2, <1>3, <1>4, <1>5, BehindVideo DEF Next, Close

\* What the packet queue looks like while no seek is under way: a flush the decoder
\* has not taken comes first, a null packet last.
QueueForm ==
  /\ \A i \in 1..Len(videoq.pkts) :
       /\ videoq.pkts[i].kind = "flush" <=> i = 1 /\ ~Entered
       /\ videoq.pkts[i].kind = "null" => i = Len(videoq.pkts)
  /\ ~Entered => Len(videoq.pkts) >= 1
  /\ rd.pc = "clear" => ~Entered /\ Len(videoq.pkts) = 1
  /\ NullQueued => rd.eof
  /\ DataHeld /\ Entered => ~codec.draining

\* The numbers from which on the pictures are still to be taken from the queue, to
\* be sent to the decoder, to be received from it, to be pushed.
NullPackets == IF NullQueued THEN 1 ELSE 0
FlushPackets == IF Entered THEN 0 ELSE 1
PacketHeld == IF DataHeld /\ Entered THEN 1 ELSE 0
CodecHeld == IF Entered /\ ~FlushHeld THEN Len(codec.held) ELSE 0
PictureHeld == IF Carrying /\ Entered THEN 1 ELSE 0
FromQueue == rd.pos - (Len(videoq.pkts) - NullPackets - FlushPackets)
FromPacket == FromQueue - PacketHeld
FromCodec == FromPacket - CodecHeld
FromHand == FromCodec - PictureHeld

\* The pictures on the way follow each other without a gap.
Numbers ==
  /\ \A i \in 1..Len(videoq.pkts) :
       videoq.pkts[i].kind = "data" => videoq.pkts[i].n = FromQueue + (i - 1) - FlushPackets
  /\ DataHeld /\ Entered => dec.pkt.n = FromPacket
  /\ Entered /\ ~FlushHeld =>
       \A i \in 1..Len(codec.held) : codec.held[i].n = FromCodec + (i - 1)
  /\ Carrying /\ Entered => dec.frame.n = FromHand

Flow == Latest => QueueForm /\ Numbers

\* A step that begins no serial: the video thread may let go of its picture.
Released == IF Entered /\ Carrying /\ ~Carrying' THEN 1 ELSE 0
Moves ==
  Latest' => Latest /\ videoq'.serial = videoq.serial /\ FromHand' = FromHand + Released

\* The step that begins one.
NewSerial == videoq'.serial = videoq.serial + 1 /\ dec'.pkt_serial = dec.pkt_serial

\* The numbers are numbers.
LEMMA FlowTypes ==
  ASSUME TInv
  PROVE  /\ NullPackets \in {0, 1} /\ FlushPackets \in {0, 1}
         /\ PacketHeld \in {0, 1} /\ CodecHeld \in Nat /\ PictureHeld \in {0, 1}
         /\ FromQueue \in Int /\ FromPacket \in Int /\ FromCodec \in Int /\ FromHand \in Int
         /\ Len(videoq.pkts) \in Nat /\ Len(codec.held) \in Nat /\ rd.pos \in Nat
<1>1. Len(videoq.pkts) \in Nat /\ Len(codec.held) \in Nat /\ rd.pos \in Nat
  BY SerialTypes, PictureSerials
<1>2. /\ NullPackets \in {0, 1} /\ FlushPackets \in {0, 1} /\ PacketHeld \in {0, 1}
      /\ CodecHeld \in Nat /\ PictureHeld \in {0, 1}
  BY <1>1 DEF NullPackets, FlushPackets, PacketHeld, CodecHeld, PictureHeld
<1>3. FromQueue \in Int
  BY <1>1, <1>2 DEF FromQueue
<1> QED
  BY <1>1, <1>2, <1>3 DEF FromPacket, FromCodec, FromHand

\* Steps that neither put, take nor send a packet, nor get a picture.
LEMMA FlowFrame ==
  ASSUME TInv, Flow, videoq'.pkts = videoq.pkts, videoq'.serial = videoq.serial,
         videoq.abort => videoq'.abort, codec' = codec, ui'.seeks = ui.seeks,
         rd'.pos = rd.pos, Latest /\ NullQueued => rd'.eof,
         rd'.pc = "clear" => rd.pc = "clear", dec'.pkt_serial = dec.pkt_serial,
         Entered => /\ DataHeld' <=> DataHeld
                    /\ FlushHeld' <=> FlushHeld
                    /\ DataHeld => dec'.pkt = dec.pkt,
         Carrying' => Carrying /\ dec'.frame = dec.frame
  PROVE  Flow' /\ Moves
<1> SUFFICES ASSUME Latest'
             PROVE  /\ QueueForm' /\ Numbers' /\ Latest /\ videoq'.serial = videoq.serial
                    /\ FromHand' = FromHand + Released
  BY DEF Flow, Moves
<1>1. Latest /\ QueueForm /\ Numbers
  BY DEF Flow, Latest
<1>2. (Entered' <=> Entered) /\ (NullQueued' <=> NullQueued)
  BY DEF Entered, NullQueued
<1>3. QueueForm'
  BY <1>1, <1>2 DEF QueueForm
<1>4. /\ NullPackets' = NullPackets /\ FlushPackets' = FlushPackets
      /\ PacketHeld' = PacketHeld /\ CodecHeld' = CodecHeld
      /\ PictureHeld' = PictureHeld - Released /\ Released \in {0, 1}
  BY <1>2 DEF NullPackets, FlushPackets, PacketHeld, CodecHeld, PictureHeld, Released
<1>5. FromQueue' = FromQueue
  BY <1>4 DEF FromQueue
<1>6. FromPacket' = FromPacket
  BY <1>4, <1>5 DEF FromPacket
<1>c. FromCodec' = FromCodec
  BY <1>4, <1>6 DEF FromCodec
<1>7. FromHand' = FromHand + Released
  BY <1>4, <1>c, FlowTypes DEF FromHand
<1>8. Numbers'
  <2>1. \A i \in 1..Len(videoq'.pkts) :
          videoq'.pkts[i].kind = "data" => videoq'.pkts[i].n = FromQueue' + (i - 1) - FlushPackets'
    BY <1>1, <1>4, <1>5 DEF Numbers
  <2>2. DataHeld' /\ Entered' => dec'.pkt.n = FromPacket'
    BY <1>1, <1>2, <1>6 DEF Numbers
  <2>3. Entered' /\ ~FlushHeld' =>
          \A i \in 1..Len(codec'.held) : codec'.held[i].n = FromCodec' + (i - 1)
    BY <1>1, <1>2, <1>c DEF Numbers
  <2>4. Carrying' /\ Entered' => dec'.frame.n = FromHand'
    BY <1>1, <1>2, <1>7, FlowTypes DEF Numbers, Released
  <2> QED
    BY <2>1, <2>2, <2>3, <2>4 DEF Numbers
<1> QED
  BY <1>1, <1>3, <1>7, <1>8

\* A picture put into the queue is the next one after those on the way.
LEMMA FlowPut ==
  ASSUME TInv, Flow, NEW kind \in {"data", "null"}, NEW n \in Pictures, Put(kind, n),
         UNCHANGED <<codec, ui>>, ~NullQueued \/ videoq.abort,
         rd.pc # "clear", rd'.pc # "clear", kind = "null" => rd'.eof,
         kind = "data" => n = rd.pos /\ rd'.pos = rd.pos + 1,
         kind = "null" => rd'.pos = rd.pos
  PROVE  Flow' /\ Moves
<1> DEFINE q == videoq.pkts
           m == Len(q)
           s == videoq.serial
           p == [kind |-> kind, serial |-> s, n |-> n]
<1>0. /\ Woken(dec, dec') /\ videoq'.abort = videoq.abort
      /\ \/ videoq' = videoq /\ videoq.abort
         \/ videoq'.serial = s /\ videoq'.pkts = Append(q, p)
  BY PutEffect DEF TInv, TypeOK
<1>1. CASE videoq.abort
  BY <1>0, <1>1 DEF Flow, Moves, Latest
<1> SUFFICES ASSUME ~videoq.abort, Latest'
             PROVE  /\ QueueForm' /\ Numbers' /\ Latest /\ videoq'.serial = videoq.serial
                    /\ FromHand' = FromHand + Released
  BY <1>1 DEF Flow, Moves
<1>2. q \in Seq(Packets) /\ m \in Nat /\ p.kind = kind /\ p.n = n
  BY SerialTypes
<1>3. /\ Len(videoq'.pkts) = m + 1 /\ videoq'.pkts[m + 1] = p
      /\ \A i \in 1..m : videoq'.pkts[i] = q[i]
  BY <1>0, <1>2
<1>4. \A i \in 1..(m + 1) : i \in 1..m \/ i = m + 1
  BY <1>2
<1>5. Latest /\ QueueForm /\ Numbers /\ videoq'.serial = s
  BY <1>0 DEF Flow, Latest
<1> HIDE DEF p, q, m
<1>6. /\ Entered' <=> Entered
      /\ DataHeld' <=> DataHeld
      /\ FlushHeld' <=> FlushHeld
      /\ Carrying' <=> Carrying
      /\ dec'.pkt = dec.pkt /\ dec'.frame = dec.frame
  BY <1>0, <1>5 DEF Woken, Entered, DataHeld, FlushHeld, Carrying, s
<1>7. NullQueued' <=> kind = "null"
  <2>1. m + 1 \in 1..(m + 1) /\ 1..m \subseteq 1..(m + 1)
    BY <1>2
  <2> QED
    BY <1>2, <1>3, <1>4, <2>1 DEF NullQueued, q, m
<1>8. /\ ~NullQueued /\ (~Entered => m >= 1)
      /\ \A i \in 1..m : /\ q[i].kind = "flush" <=> i = 1 /\ ~Entered
                         /\ q[i].kind # "null"
  BY <1>5 DEF QueueForm, NullQueued, q, m
<1>9. QueueForm'
  <2>1. ASSUME NEW i \in 1..(m + 1)
        PROVE  /\ videoq'.pkts[i].kind = "flush" <=> i = 1 /\ ~Entered
               /\ videoq'.pkts[i].kind = "null" => i = m + 1
    <3>1. CASE i \in 1..m
      BY <1>3, <1>8, <3>1
    <3>2. CASE i = m + 1
      BY <1>2, <1>3, <1>8, <3>2
    <3> QED
      BY <1>4, <3>1, <3>2
  <2>2. ~Entered => m + 1 >= 1
    BY <1>2
  <2>3. DataHeld /\ Entered => ~codec.draining
    BY <1>5 DEF QueueForm
  <2> QED
    BY <1>3, <1>6, <1>7, <2>1, <2>2, <2>3 DEF QueueForm
<1>c. /\ NullPackets = 0 /\ NullPackets' = (IF kind = "null" THEN 1 ELSE 0)
      /\ FlushPackets' = FlushPackets /\ FlushPackets \in {0, 1}
      /\ PacketHeld' = PacketHeld /\ CodecHeld' = CodecHeld /\ PictureHeld' = PictureHeld
      /\ Released = 0
  BY <1>6, <1>7, <1>8 DEF NullPackets, FlushPackets, PacketHeld, CodecHeld, PictureHeld, Released
<1>q. FromQueue = rd.pos - (m - FlushPackets)
  BY <1>2, <1>c, PictureSerials DEF FromQueue, m, q
<1>10. FromQueue' = FromQueue
  <2>1. rd'.pos + NullPackets' = rd.pos + 1 /\ rd'.pos \in Nat /\ NullPackets' \in Nat
    BY <1>c, PictureSerials
  <2>2. FromQueue' = rd'.pos - (m + 1 - NullPackets' - FlushPackets)
    BY <1>2, <1>3, <1>c, <2>1 DEF FromQueue
  <2> QED
    BY <1>2, <1>c, <1>q, <2>1, <2>2, PictureSerials
<1>11. FromPacket' = FromPacket
  BY <1>c, <1>10 DEF FromPacket
<1>12. FromCodec' = FromCodec
  BY <1>c, <1>11 DEF FromCodec
<1>13. FromHand' = FromHand + Released
  BY <1>c, <1>12, FlowTypes DEF FromHand
<1>14. Numbers'
  <2>1. ASSUME NEW i \in 1..(m + 1), videoq'.pkts[i].kind = "data"
        PROVE  videoq'.pkts[i].n = FromQueue + (i - 1) - FlushPackets
    <3>1. CASE i \in 1..m
      BY <1>3, <1>5, <2>1, <3>1 DEF Numbers, q, m
    <3>2. CASE i = m + 1
      <4>1. videoq'.pkts[i].n = rd.pos
        BY <1>2, <1>3, <2>1, <3>2
      <4> QED
        BY <1>2, <1>c, <1>q, <3>2, <4>1, PictureSerials
    <3> QED
      BY <1>4, <3>1, <3>2
  <2>3. \A i \in 1..Len(videoq'.pkts) :
          videoq'.pkts[i].kind = "data" => videoq'.pkts[i].n = FromQueue' + (i - 1) - FlushPackets'
    BY <1>3, <1>c, <1>10, <2>1
  <2> QED
    BY <1>5, <1>6, <1>11, <1>12, <1>13, <1>c, <2>3, FlowTypes DEF Numbers
<1> QED
  BY <1>5, <1>9, <1>13, <1>14 DEF s

\* Reading: what is put follows what is on the way; a flush begins a new serial.
LEMMA FlowReader ==
  ASSUME TInv, SInv, EInv, SeekOrder, Flow, Reader
  PROVE  Flow' /\ (Moves \/ NewSerial)
<1>0. /\ videoq \in PacketQueues /\ rd \in Readers /\ dec \in Decoders /\ 0 \in Pictures
      /\ UNCHANGED <<codec, ui>> /\ videoq.serial \in Nat /\ ui.seeks \in Nat
      /\ rd.pos \in Nat
  <2>1. UNCHANGED <<codec, ui>>
    BY DEF Reader, ReaderSeek, ReaderFlush, ReaderPutFlush, ReaderClear, ReaderSettle,
           ReaderFull, ReaderComplete, ReaderPacket, ReaderEof, ReaderExit
  <2> QED
    BY <2>1, PictureSerials, VideoStreamAssumption DEF TInv, TypeOK, Pictures
<1>1. CASE ReaderSeek \/ ReaderFlush
  <2>1. /\ rd.pc \in {"loop", "flush"} /\ is.seek_req
        /\ videoq'.serial = videoq.serial
    BY <1>0, <1>1 DEF ReaderSeek, ReaderFlush, ReaderAt, SeekOrder, PacketQueues
  <2>2. ~Latest'
    BY <1>0, <2>1 DEF SeekOrder, Latest
  <2> QED
    BY <2>2 DEF Flow, Moves
<1>2. CASE ReaderPutFlush
  <2>1. rd.pc = "put" /\ rd'.pc = "clear" /\ rd'.pos = rd.pos /\ videoq.pkts = <<>>
    BY <1>0, <1>2 DEF ReaderPutFlush, Readers, EInv
  <2>2. CASE videoq.abort
    BY <1>2, <2>2 DEF ReaderPutFlush, Put, Flow, Moves, Latest
  <2>3. CASE ~videoq.abort
    <3> DEFINE p == [kind |-> "flush", serial |-> videoq'.serial, n |-> 0]
    <3>1. /\ Woken(dec, dec') /\ videoq'.serial = videoq.serial + 1
          /\ videoq'.pkts = Append(videoq.pkts, p)
      BY <1>0, <1>2, <2>3, PutEffect DEF ReaderPutFlush
    <3>2. Len(videoq'.pkts) = 1 /\ videoq'.pkts[1] = p /\ p.kind = "flush"
      BY <2>1, <3>1
    <3> HIDE DEF p
    <3>3. ~Entered' /\ dec'.pkt_serial = dec.pkt_serial
      <4>1. dec.pkt_serial <= videoq.serial /\ dec.pkt_serial \in Nat
        BY SerialTypes DEF SInv, Sorted
      <4> QED
        BY <1>0, <3>1, <4>1 DEF Entered, Woken
    <3>4. \A i \in 1..1 : i = 1
      OBVIOUS
    <3>5. ~NullQueued'
      BY <3>2, <3>4 DEF NullQueued
    <3>6. QueueForm'
      BY <3>2, <3>3, <3>4, <3>5 DEF QueueForm
    <3>7. Numbers'
      BY <3>2, <3>3, <3>4 DEF Numbers
    <3> QED
      BY <3>1, <3>3, <3>6, <3>7 DEF Flow, NewSerial
  <2> QED
    BY <2>2, <2>3
<1>3. CASE ReaderPacket
  <2>1. /\ rd.pos \in Pictures /\ rd.pc \in {"loop", "read"} /\ rd'.pc = "loop"
        /\ rd'.pos = rd.pos + 1 /\ ~(rd.pos > Last)
    BY <1>0, <1>3, VideoStreamAssumption DEF ReaderPacket, Reads, ReaderAt, Readers, Pictures
  <2>2. ~NullQueued \/ videoq.abort
    BY <2>1 DEF EInv, EndRead, AtEnd
  <2>3. Flow' /\ Moves
    BY <1>0, <1>3, <2>1, <2>2, FlowPut DEF ReaderPacket
  <2> QED
    BY <2>3
<1>4. CASE ReaderEof
  <2>1. rd.pc \in {"loop", "read"} /\ rd'.pc = "loop" /\ rd'.pos = rd.pos /\ rd'.eof
    BY <1>0, <1>4 DEF ReaderEof, Reads, ReaderAt, Readers
  <2>2. CASE rd.eof
    <3>1. UNCHANGED <<videoq, dec>>
      BY <1>4, <2>2 DEF ReaderEof
    <3>2. Flow' /\ Moves
      BY <1>0, <2>1, <3>1, FlowFrame DEF Carrying, DataHeld, FlushHeld
    <3> QED
      BY <3>2
  <2>3. CASE ~rd.eof
    <3>1. ~NullQueued \/ ~Latest
      BY <2>3 DEF Flow, QueueForm
    <3>2. CASE ~NullQueued
      <4>1. Flow' /\ Moves
        BY <1>0, <1>4, <2>1, <2>3, <3>2, FlowPut DEF ReaderEof
      <4> QED
        BY <4>1
    <3>3. CASE ~Latest
      <4>1. videoq'.serial = videoq.serial /\ videoq'.abort = videoq.abort
        BY <1>0, <1>4, <2>3, PutEffect DEF ReaderEof
      <4>2. ~Latest'
        BY <1>0, <3>3, <4>1 DEF Latest
      <4> QED
        BY <4>2 DEF Flow, Moves
    <3> QED
      BY <3>1, <3>2, <3>3
  <2> QED
    BY <2>2, <2>3
<1>5. CASE ReaderClear \/ ReaderSettle \/ ReaderFull \/ ReaderComplete \/ ReaderExit
  <2>1. /\ UNCHANGED <<videoq, dec>> /\ rd'.pc # "clear" /\ rd'.pos = rd.pos
        /\ rd.pc # "clear" => rd'.eof = rd.eof
    <3>1. CASE ReaderClear \/ ReaderSettle
      BY <1>0, <3>1 DEF ReaderClear, ReaderSettle, Readers
    <3>2. CASE ReaderFull \/ ReaderComplete \/ ReaderExit
      BY <1>0, <3>2 DEF ReaderFull, ReaderComplete, ReaderExit, ReaderAt, Readers
    <3> QED
      BY <1>5, <3>1, <3>2
  <2>2. Latest /\ NullQueued => rd'.eof
    <3>1. ASSUME Latest, rd.pc = "clear" PROVE ~NullQueued
      <4>1. Len(videoq.pkts) = 1 /\ ~Entered /\ \A i \in 1..1 : i = 1
        BY <3>1 DEF Flow, QueueForm
      <4> QED
        BY <3>1, <4>1 DEF Flow, QueueForm, NullQueued
    <3> QED
      BY <2>1, <3>1 DEF Flow, QueueForm
  <2>3. Flow' /\ Moves
    BY <1>0, <2>1, <2>2, FlowFrame DEF Carrying, DataHeld, FlushHeld
  <2> QED
    BY <2>3
<1> QED
  BY <1>1, <1>2, <1>3, <1>4, <1>5 DEF Reader

\* Taking a packet: the flush of the serial, the next picture, or the end.
LEMMA FlowTake ==
  ASSUME TInv, SInv, EInv, Flow, TakePacket, Deliverable, ~videoq.abort,
         dec.pc \in {"get", "block"}, UNCHANGED <<codec, rd, ui>>
  PROVE  Flow' /\ Moves
<1> DEFINE q == videoq.pkts
           m == Len(q)
           s == videoq.serial
<1>0. /\ videoq'.serial = s /\ q # <<>> /\ m \in Nat /\ m >= 1 /\ dec'.pc \in {"get", "check"}
      /\ dec'.pc = "get" <=> dec.finished = dec'.pkt_serial
      /\ Len(videoq'.pkts) = m - 1 /\ dec'.pkt = q[1]
      /\ \A i \in 1..(m - 1) : i + 1 \in 1..m /\ videoq'.pkts[i] = q[i + 1]
      /\ dec.pkt_serial = s => dec'.pkt_serial = s
      /\ dec.pkt_serial # s /\ dec'.pkt_serial = s => dec'.pkt.kind = "flush" /\ dec'.pc = "check"
      /\ dec'.pkt_serial # s => FlushAhead'
  BY Taken
<1>t. q \in Seq(Packets) /\ \A i \in 1..m : q[i] \in Packets
  BY SerialTypes
<1> SUFFICES ASSUME Latest'
             PROVE  /\ QueueForm' /\ Numbers' /\ Latest /\ videoq'.serial = videoq.serial
                    /\ FromHand' = FromHand + Released
  BY DEF Flow, Moves
<1>1. Latest /\ QueueForm /\ Numbers
  BY <1>0 DEF Flow, Latest
<1>2. ~Carrying /\ ~Carrying' /\ ~DataHeld /\ ~FlushHeld /\ Released = 0
      /\ PictureHeld = 0 /\ PictureHeld' = 0 /\ PacketHeld = 0
  BY <1>0 DEF Carrying, DataHeld, FlushHeld, Released, PictureHeld, PacketHeld
<1>3. rd.pc # "clear"
  <2> SUFFICES ASSUME rd.pc = "clear" PROVE FALSE
    OBVIOUS
  <2>1. m = 1 /\ q[1].kind = "flush"
    BY <1>0, <1>1 DEF QueueForm
  <2>2. Head(q) = q[1]
    BY <1>0, <1>t
  <2> QED
    BY <2>1, <2>2 DEF Deliverable
<1> HIDE DEF q, m
<1>4. /\ \A i \in 1..m : /\ q[i].kind = "flush" <=> i = 1 /\ ~Entered
                         /\ q[i].kind = "null" => i = m
                         /\ q[i].kind = "data" => q[i].n = FromQueue + (i - 1) - FlushPackets
      /\ FromQueue = rd.pos - (m - NullPackets - FlushPackets)
  BY <1>1 DEF QueueForm, Numbers, FromQueue, q, m
<1>5. /\ 1 \in 1..m /\ \A i \in 1..m : i = 1 \/ i - 1 \in 1..(m - 1)
      /\ \A i \in 1..(m - 1) : i + 1 # 1 /\ (i + 1) - 1 = i /\ (i + 1 = m => i = m - 1)
  BY <1>0
<1>6. NullQueued' <=> NullQueued /\ q[1].kind # "null"
  <2>1. NullQueued <=> \E i \in 1..m : q[i].kind = "null"
    BY DEF NullQueued, q, m
  <2>2. NullQueued' <=> \E i \in 1..(m - 1) : q[i + 1].kind = "null"
    BY <1>0 DEF NullQueued
  <2>3. ASSUME NEW i \in 1..m, q[i].kind = "null", q[1].kind # "null"
        PROVE  \E j \in 1..(m - 1) : q[j + 1].kind = "null"
    <3>1. i - 1 \in 1..(m - 1) /\ (i - 1) + 1 = i
      BY <1>0, <1>5, <2>3
    <3> QED
      BY <2>3, <3>1
  <2>4. ASSUME NEW j \in 1..(m - 1), q[j + 1].kind = "null"
        PROVE  (\E i \in 1..m : q[i].kind = "null") /\ q[1].kind # "null"
    <3>1. j + 1 \in 1..m /\ j + 1 = m /\ m # 1
      BY <1>0, <1>4, <2>4
    <3> QED
      BY <1>4, <1>5, <2>4, <3>1
  <2> QED
    BY <2>1, <2>2, <2>3, <2>4
<1>7. Entered'
  <2> SUFFICES ASSUME ~Entered' PROVE FALSE
    OBVIOUS
  <2>1. ~Entered /\ FlushAhead'
    BY <1>0 DEF Entered, s
  <2>2. PICK j \in 1..(m - 1) : q[j + 1].kind = "flush"
    BY <1>0, <2>1 DEF FlushAhead
  <2> QED
    BY <1>0, <1>4, <1>5, <2>2
<1>8. /\ FlushPackets' = 0
      /\ q[1].kind = "flush" <=> ~Entered
      /\ Entered => FlushPackets = 0 /\ CodecHeld' = (IF FlushHeld' THEN 0 ELSE CodecHeld)
      /\ ~Entered => FlushPackets = 1 /\ CodecHeld = 0
  <2>1. codec' = codec
    OBVIOUS
  <2> QED
    BY <1>2, <1>4, <1>5, <1>7, <2>1 DEF FlushPackets, CodecHeld
<1>9. ASSUME DataHeld' => ~codec.draining PROVE QueueForm'
  <2>1. ASSUME NEW i \in 1..(m - 1)
        PROVE  videoq'.pkts[i].kind # "flush" /\ (videoq'.pkts[i].kind = "null" => i = m - 1)
    BY <1>0, <1>4, <1>5
  <2>2. NullQueued' => rd'.eof
    BY <1>1, <1>6 DEF QueueForm
  <2> QED
    BY <1>0, <1>3, <1>7, <1>9, <2>1, <2>2 DEF QueueForm, q, m
<1>10. ASSUME NEW k \in {0, 1}, FromQueue' = FromQueue + k, k = 1 - FlushPackets \/ m = 1
       PROVE  \A i \in 1..(m - 1) :
                videoq'.pkts[i].kind = "data" => videoq'.pkts[i].n = FromQueue' + (i - 1) - FlushPackets'
  <2> SUFFICES ASSUME NEW i \in 1..(m - 1), videoq'.pkts[i].kind = "data"
               PROVE  videoq'.pkts[i].n = FromQueue' + (i - 1) - FlushPackets'
    OBVIOUS
  <2>1. videoq'.pkts[i] = q[i + 1] /\ i + 1 \in 1..m /\ m # 1
    BY <1>0
  <2>2. q[i + 1].n = FromQueue + ((i + 1) - 1) - FlushPackets
    BY <1>4, <2>1
  <2> QED
    BY <1>8, <1>10, <2>1, <2>2, FlowTypes
<1>11. CASE q[1].kind = "flush"
  <2>1. ~Entered /\ dec'.pc = "check" /\ FlushHeld' /\ ~DataHeld'
    BY <1>0, <1>7, <1>8, <1>11 DEF Entered, FlushHeld, DataHeld, s
  <2>2. NullPackets' = NullPackets /\ PacketHeld' = 0 /\ CodecHeld' = 0
    BY <1>6, <1>11, <2>1 DEF NullPackets, PacketHeld, CodecHeld
  <2>3. FromQueue' = FromQueue
    BY <1>0, <1>4, <1>8, <2>1, <2>2, FlowTypes DEF FromQueue
  <2>4. FromPacket' = FromPacket /\ FromCodec' = FromCodec /\ FromHand' = FromHand
    BY <1>2, <1>8, <2>1, <2>2, <2>3 DEF FromPacket, FromCodec, FromHand
  <2>5. \A i \in 1..(m - 1) :
          videoq'.pkts[i].kind = "data" => videoq'.pkts[i].n = FromQueue' + (i - 1) - FlushPackets'
    BY <1>8, <1>10, <2>1, <2>3, FlowTypes
  <2>6. Numbers'
    BY <1>0, <1>2, <2>1, <2>5 DEF Numbers
  <2> QED
    BY <1>0, <1>1, <1>2, <1>9, <2>1, <2>4, <2>6, FlowTypes
<1>12. CASE q[1].kind = "null"
  <2>1. Entered /\ m = 1 /\ ~FlushHeld' /\ ~DataHeld'
    BY <1>0, <1>4, <1>5, <1>8, <1>12 DEF FlushHeld, DataHeld
  <2>2. NullPackets' = 0 /\ NullPackets = 1 /\ PacketHeld' = 0 /\ CodecHeld' = CodecHeld
    BY <1>5, <1>6, <1>8, <1>12, <2>1 DEF NullPackets, PacketHeld, NullQueued, q, m
  <2>3. FromQueue' = FromQueue
    BY <1>0, <1>4, <1>8, <2>1, <2>2, FlowTypes DEF FromQueue
  <2>4. FromPacket' = FromPacket /\ FromCodec' = FromCodec /\ FromHand' = FromHand
    BY <1>2, <2>2, <2>3 DEF FromPacket, FromCodec, FromHand
  <2>5. Len(videoq'.pkts) = 0
    BY <1>0, <2>1
  <2>6. Numbers'
    BY <1>1, <1>2, <2>1, <2>4, <2>5 DEF Numbers
  <2> QED
    BY <1>0, <1>1, <1>2, <1>9, <2>1, <2>4, <2>6, FlowTypes
<1>13. CASE q[1].kind = "data"
  <2>0. Entered /\ ~EndTaken
    <3>1. 1 \in 1..Len(videoq.pkts) /\ videoq.pkts[1].kind = "data"
      BY <1>5, <1>13 DEF q, m
    <3> QED
      BY <1>8, <1>13, <3>1 DEF EInv, Drained, NoDataQueued
  <2>1. dec'.pc = "check" /\ ~FlushHeld' /\ DataHeld' /\ ~codec.draining
    BY <1>0, <1>2, <1>13, <2>0 DEF Entered, EndTaken, FlushHeld, DataHeld, s
  <2>2. NullPackets' = NullPackets /\ PacketHeld' = 1 /\ CodecHeld' = CodecHeld
    BY <1>6, <1>7, <1>8, <1>13, <2>0, <2>1 DEF NullPackets, PacketHeld
  <2>3. FromQueue' = FromQueue + 1
    BY <1>0, <1>4, <1>8, <2>0, <2>2, FlowTypes DEF FromQueue
  <2>4. FromPacket' = FromPacket /\ FromCodec' = FromCodec /\ FromHand' = FromHand
    BY <1>2, <2>2, <2>3, FlowTypes DEF FromPacket, FromCodec, FromHand
  <2>5. \A i \in 1..(m - 1) :
          videoq'.pkts[i].kind = "data" => videoq'.pkts[i].n = FromQueue' + (i - 1) - FlushPackets'
    BY <1>8, <1>10, <2>0, <2>3
  <2>6. dec'.pkt.n = FromPacket'
    <3>1. q[1].n = FromQueue + (1 - 1) - 0
      BY <1>4, <1>5, <1>8, <1>13, <2>0
    <3> QED
      BY <1>0, <1>2, <2>4, <3>1, FlowTypes DEF FromPacket
  <2>7. Numbers'
    BY <1>0, <1>1, <1>2, <2>0, <2>1, <2>4, <2>5, <2>6 DEF Numbers
  <2> QED
    BY <1>0, <1>1, <1>2, <1>9, <2>1, <2>4, <2>7, FlowTypes
<1>14. q[1].kind \in {"data", "flush", "null"}
  BY <1>t, <1>5 DEF Packets, q, m
<1> QED
  BY <1>11, <1>12, <1>13, <1>14


\* A packet goes into the decoder, behind the pictures it holds.
LEMMA FlowSend == TInv /\ SInv /\ Flow /\ SendPacket => Flow' /\ Moves
<1> SUFFICES ASSUME TInv, SInv, Flow, SendPacket, Latest'
             PROVE  /\ QueueForm' /\ Numbers' /\ Latest /\ videoq'.serial = videoq.serial
                    /\ FromHand' = FromHand + Released
  BY DEF Flow, Moves
<1> DEFINE h == codec.held
           x == [n |-> dec.pkt.n, gen |-> dec.pkt.serial]
<1>0. /\ UNCHANGED <<videoq, rd, ui>> /\ dec.pc = "send" /\ dec'.pc = "decode"
      /\ dec'.pkt_serial = dec.pkt_serial /\ dec.pkt.kind \in {"data", "flush", "null"}
  BY DEF SendPacket, TInv, TypeOK, Decoders, Packets
<1>1. Latest /\ QueueForm /\ Numbers
  BY <1>0 DEF Flow, Latest
<1>2. /\ ~Carrying /\ ~Carrying' /\ ~DataHeld' /\ ~FlushHeld'
      /\ DataHeld <=> dec.pkt.kind = "data"
      /\ FlushHeld <=> dec.pkt.kind = "flush"
      /\ Entered' <=> Entered
      /\ NullQueued' <=> NullQueued
  BY <1>0 DEF Carrying, DataHeld, FlushHeld, Entered, NullQueued
<1>3. /\ Released = 0 /\ PictureHeld = 0 /\ PictureHeld' = 0 /\ PacketHeld' = 0
      /\ NullPackets' = NullPackets /\ FlushPackets' = FlushPackets
  BY <1>2 DEF Released, PictureHeld, PacketHeld, NullPackets, FlushPackets
<1>4. QueueForm'
  BY <1>0, <1>1, <1>2 DEF QueueForm
<1>5. FromQueue' = FromQueue
  BY <1>0, <1>3 DEF FromQueue
<1>6. \A i \in 1..Len(videoq'.pkts) :
        videoq'.pkts[i].kind = "data" => videoq'.pkts[i].n = FromQueue' + (i - 1) - FlushPackets'
  BY <1>0, <1>1, <1>3, <1>5 DEF Numbers
<1>t. h \in Seq([n : Pictures, gen : Nat]) /\ Len(h) \in Nat
  BY SerialTypes
<1>7. CASE ~Entered
  <2>1. CodecHeld = 0 /\ CodecHeld' = 0 /\ PacketHeld = 0
    BY <1>2, <1>7 DEF CodecHeld, PacketHeld
  <2>2. FromHand' = FromHand
    BY <1>3, <1>5, <2>1 DEF FromPacket, FromCodec, FromHand
  <2>3. Numbers'
    BY <1>2, <1>6, <1>7 DEF Numbers
  <2> QED
    BY <1>0, <1>1, <1>3, <1>4, <2>2, <2>3, FlowTypes
<1>8. CASE Entered /\ dec.pkt.kind = "flush"
  <2>1. codec'.held = <<>> /\ Len(codec'.held) = 0
    BY <1>8 DEF SendPacket, EmptyCodec
  <2>2. CodecHeld = 0 /\ CodecHeld' = 0 /\ PacketHeld = 0
    BY <1>2, <1>8, <2>1 DEF CodecHeld, PacketHeld
  <2>3. FromHand' = FromHand
    BY <1>3, <1>5, <2>2 DEF FromPacket, FromCodec, FromHand
  <2>4. Numbers'
    BY <1>2, <1>6, <2>1 DEF Numbers
  <2> QED
    BY <1>0, <1>1, <1>3, <1>4, <2>3, <2>4, FlowTypes
<1>9. CASE Entered /\ dec.pkt.kind = "null"
  <2>1. codec'.held = h
    BY <1>9 DEF SendPacket, TInv, TypeOK, Codecs
  <2>2. CodecHeld' = CodecHeld /\ PacketHeld = 0
    BY <1>2, <1>9, <2>1 DEF CodecHeld, PacketHeld
  <2>3. FromCodec' = FromCodec /\ FromHand' = FromHand
    BY <1>3, <1>5, <2>2 DEF FromPacket, FromCodec, FromHand
  <2>4. Numbers'
    BY <1>1, <1>2, <1>6, <1>9, <2>1, <2>3 DEF Numbers
  <2> QED
    BY <1>0, <1>1, <1>3, <1>4, <2>3, <2>4, FlowTypes
<1>10. CASE Entered /\ dec.pkt.kind = "data"
  <2>0. ~codec.draining
    BY <1>1, <1>2, <1>10 DEF QueueForm
  <2>1. codec'.held = Append(h, x)
    BY <1>10, <2>0 DEF SendPacket, TInv, TypeOK, Codecs
  <2>2. x \in [n : Pictures, gen : Nat] /\ x.n = dec.pkt.n
    BY DEF TInv, TypeOK, Decoders, Packets
  <2> HIDE DEF x, h
  <2>3. /\ Len(codec'.held) = Len(h) + 1 /\ codec'.held[Len(h) + 1] = x
        /\ \A i \in 1..Len(h) : codec'.held[i] = h[i]
    BY <1>t, <2>1, <2>2, AppendProperties
  <2>4. CodecHeld = Len(h) /\ CodecHeld' = Len(h) + 1 /\ PacketHeld = 1
    BY <1>2, <1>10, <2>3 DEF CodecHeld, PacketHeld, h
  <2>5. FromPacket' = FromPacket + 1 /\ FromCodec' = FromCodec /\ FromHand' = FromHand
    BY <1>3, <1>5, <1>t, <2>4, FlowTypes DEF FromPacket, FromCodec, FromHand
  <2>6. ASSUME NEW i \in 1..(Len(h) + 1) PROVE codec'.held[i].n = FromCodec + (i - 1)
    <3>1. CASE i \in 1..Len(h)
      BY <1>1, <1>2, <1>10, <2>3, <3>1 DEF Numbers, h
    <3>2. CASE i = Len(h) + 1
      <4>1. x.n = FromPacket
        BY <1>1, <1>2, <1>10, <2>2 DEF Numbers
      <4> QED
        BY <1>t, <2>3, <2>4, <3>2, <4>1, FlowTypes DEF FromCodec
    <3> QED
      BY <1>t, <3>1, <3>2
  <2>7. Numbers'
    BY <1>2, <1>6, <2>3, <2>5, <2>6 DEF Numbers
  <2> QED
    BY <1>0, <1>1, <1>3, <1>4, <2>5, <2>7, FlowTypes
<1> QED
  BY <1>0, <1>7, <1>8, <1>9, <1>10

\* The decoder gives the oldest of the pictures it holds.
LEMMA FlowReceive == TInv /\ SInv /\ Flow /\ ReceivePicture => Flow' /\ Moves
<1> SUFFICES ASSUME TInv, SInv, Flow, ReceivePicture, Latest'
             PROVE  /\ QueueForm' /\ Numbers' /\ Latest /\ videoq'.serial = videoq.serial
                    /\ FromHand' = FromHand + Released
  BY DEF Flow, Moves
<1> DEFINE h == codec.held
<1>0. /\ UNCHANGED <<videoq, rd, ui>> /\ dec.pc = "decode" /\ dec'.pc = "queue"
      /\ dec'.pkt_serial = dec.pkt_serial /\ Entered /\ h # <<>>
      /\ dec'.frame.n = Head(h).n /\ codec'.held = Tail(h)
      /\ codec'.draining = codec.draining
  BY DEF ReceivePicture, Decoding, HasPicture, Entered, TInv, TypeOK, Decoders, Codecs
<1>1. Latest /\ QueueForm /\ Numbers
  BY <1>0 DEF Flow, Latest
<1>2. /\ ~Carrying /\ Carrying' /\ ~DataHeld /\ ~DataHeld' /\ ~FlushHeld /\ ~FlushHeld'
      /\ Entered'
      /\ NullQueued' <=> NullQueued
  BY <1>0 DEF Carrying, DataHeld, FlushHeld, Entered, NullQueued
<1>3. /\ Released = 0 /\ PictureHeld = 0 /\ PictureHeld' = 1 /\ PacketHeld = 0 /\ PacketHeld' = 0
      /\ NullPackets' = NullPackets /\ FlushPackets' = FlushPackets
  BY <1>0, <1>2 DEF Released, PictureHeld, PacketHeld, NullPackets, FlushPackets
<1>4. QueueForm'
  BY <1>0, <1>1, <1>2 DEF QueueForm
<1>5. FromQueue' = FromQueue
  BY <1>0, <1>3 DEF FromQueue
<1>6. \A i \in 1..Len(videoq'.pkts) :
        videoq'.pkts[i].kind = "data" => videoq'.pkts[i].n = FromQueue' + (i - 1) - FlushPackets'
  BY <1>0, <1>1, <1>3, <1>5 DEF Numbers
<1>t. h \in Seq([n : Pictures, gen : Nat]) /\ Len(h) \in Nat /\ Len(h) > 0
  <2>1. h \in Seq([n : Pictures, gen : Nat]) /\ Len(h) \in Nat
    BY SerialTypes
  <2> QED
    BY <1>0, <2>1, EmptySeq
<1>7. /\ Len(codec'.held) = Len(h) - 1 /\ Head(h) = h[1]
      /\ \A i \in 1..(Len(h) - 1) : codec'.held[i] = h[i + 1]
  BY <1>0, <1>t, HeadTailProperties
<1> HIDE DEF h
<1>8. CodecHeld = Len(h) /\ CodecHeld' = Len(h) - 1
  BY <1>0, <1>2, <1>7 DEF CodecHeld, h
<1>9. FromCodec' = FromCodec + 1 /\ FromHand' = FromHand /\ FromHand = FromCodec
  BY <1>3, <1>5, <1>8, <1>t, FlowTypes DEF FromPacket, FromCodec, FromHand
<1>10. \A i \in 1..Len(h) : h[i].n = FromCodec + (i - 1)
  BY <1>0, <1>1, <1>2 DEF Numbers, h
<1>11. dec'.frame.n = FromHand'
  <2>1. 1 \in 1..Len(h)
    BY <1>t
  <2> QED
    BY <1>0, <1>7, <1>9, <1>10, <2>1, FlowTypes
<1>12. ASSUME NEW i \in 1..(Len(h) - 1) PROVE codec'.held[i].n = FromCodec' + (i - 1)
  <2>1. i + 1 \in 1..Len(h)
    BY <1>t
  <2>2. codec'.held[i] = h[i + 1]
    BY <1>7
  <2>3. h[i + 1].n = FromCodec + ((i + 1) - 1)
    BY <1>10, <2>1
  <2> QED
    BY <1>9, <2>2, <2>3, FlowTypes
<1>13. Numbers'
  BY <1>2, <1>6, <1>7, <1>11, <1>12 DEF Numbers
<1> QED
  BY <1>0, <1>1, <1>3, <1>4, <1>9, <1>13, FlowTypes

LEMMA FlowVideo == TInv /\ SInv /\ EInv /\ Flow /\ VideoThread => Flow' /\ Moves
<1> SUFFICES ASSUME TInv, SInv, EInv, Flow, VideoThread PROVE Flow' /\ Moves
  OBVIOUS
<1>0. dec \in Decoders /\ codec \in Codecs /\ UNCHANGED <<rd, ui>>
  BY DEF TInv, TypeOK, VideoThread, ReceivePicture, ReceiveEof, ReceiveNothing, FetchPacket,
         GetPacket, StartBuffering, BlockForPacket, CheckPacket, SendPacket, QueuePicture,
         WaitForSlot, FillSlot, PushPicture
<1>1. ASSUME UNCHANGED <<videoq, codec>>, dec'.pkt_serial = dec.pkt_serial,
             Entered => /\ DataHeld' <=> DataHeld
                        /\ FlushHeld' <=> FlushHeld
                        /\ DataHeld => dec'.pkt = dec.pkt,
             Carrying' => Carrying /\ dec'.frame = dec.frame
      PROVE  Flow' /\ Moves
  <2>1. Latest /\ NullQueued => rd'.eof
    BY <1>0 DEF Flow, QueueForm
  <2> QED
    BY <1>0, <1>1, <2>1, FlowFrame
<1>2. CASE ReceiveEof
  <2>1. /\ UNCHANGED <<videoq, rd, ui>> /\ dec'.pkt_serial = dec.pkt_serial
        /\ dec.pc = "decode" /\ dec'.pc = "decode" /\ codec.held = <<>> /\ codec'.held = <<>>
    BY <1>0, <1>2 DEF ReceiveEof, Decoding, EmptyCodec, Decoders
  <2> SUFFICES ASSUME Latest'
               PROVE  /\ QueueForm' /\ Numbers' /\ Latest /\ videoq'.serial = videoq.serial
                      /\ FromHand' = FromHand + Released
    BY DEF Flow, Moves
  <2>2. Latest /\ QueueForm /\ Numbers
    BY <2>1 DEF Flow, Latest
  <2>3. /\ ~Carrying /\ ~Carrying' /\ ~DataHeld /\ ~DataHeld' /\ ~FlushHeld /\ ~FlushHeld'
        /\ Entered' <=> Entered
        /\ NullQueued' <=> NullQueued
    BY <2>1 DEF Carrying, DataHeld, FlushHeld, Entered, NullQueued
  <2>4. /\ Released = 0 /\ PictureHeld' = PictureHeld /\ PacketHeld' = PacketHeld
        /\ NullPackets' = NullPackets /\ FlushPackets' = FlushPackets /\ CodecHeld' = CodecHeld
    BY <2>1, <2>3 DEF Released, PictureHeld, PacketHeld, NullPackets, FlushPackets, CodecHeld
  <2>5. FromQueue' = FromQueue /\ FromHand' = FromHand
    BY <2>1, <2>4 DEF FromQueue, FromPacket, FromCodec, FromHand
  <2>6. QueueForm'
    BY <2>1, <2>2, <2>3 DEF QueueForm
  <2>7. Numbers'
    <3>1. Len(codec'.held) = 0
      BY <2>1
    <3> QED
      BY <2>1, <2>2, <2>3, <2>4, <2>5, <3>1 DEF Numbers
  <2> QED
    BY <2>1, <2>2, <2>4, <2>5, <2>6, <2>7, FlowTypes
<1>3. CASE GetPacket \/ BlockForPacket
  <2>1. CASE ~videoq.abort /\ Deliverable
    BY <1>0, <1>3, <2>1, FlowTake DEF GetPacket, BlockForPacket
  <2>2. CASE ~(~videoq.abort /\ Deliverable)
    <3>1. /\ dec.pc \in {"get", "block"} /\ dec'.pc \in {"exit", "buffer", "asleep"}
          /\ dec'.pkt_serial = dec.pkt_serial /\ UNCHANGED <<videoq, codec>>
      BY <1>0, <1>3, <2>2 DEF GetPacket, BlockForPacket, Decoders
    <3> QED
      BY <1>1, <3>1 DEF Carrying, DataHeld, FlushHeld
  <2> QED
    BY <2>1, <2>2
<1>4. CASE ReceiveNothing \/ FetchPacket \/ StartBuffering
  <2>1. /\ dec.pc \in {"decode", "fetch", "buffer"} /\ dec'.pc \in {"exit", "fetch", "get", "block"}
        /\ dec'.pkt_serial = dec.pkt_serial /\ UNCHANGED <<videoq, codec>>
    BY <1>0, <1>4 DEF ReceiveNothing, FetchPacket, StartBuffering, Decoders
  <2> QED
    BY <1>1, <2>1 DEF Carrying, DataHeld, FlushHeld
<1>5. CASE CheckPacket
  <2>1. /\ UNCHANGED <<videoq, codec>> /\ dec.pc = "check" /\ dec'.pkt_serial = dec.pkt_serial
        /\ \/ dec'.pc = "send" /\ dec'.pkt = dec.pkt
           \/ ~Entered /\ dec'.pc = "fetch"
    BY <1>0, <1>5 DEF CheckPacket, Entered, Decoders
  <2> QED
    BY <1>1, <2>1 DEF Carrying, DataHeld, FlushHeld
<1>6. CASE QueuePicture \/ WaitForSlot \/ FillSlot \/ PushPicture
  <2>1. /\ UNCHANGED <<videoq, codec>> /\ dec.pc \in {"queue", "slot", "fill", "push"}
        /\ dec'.pc \in {"decode", "slot", "exit", "noslot", "fill", "push"}
        /\ dec'.pkt_serial = dec.pkt_serial
        /\ dec'.pc = "decode" \/ dec'.frame = dec.frame
    BY <1>0, <1>6 DEF QueuePicture, WaitForSlot, FillSlot, PushPicture, Decoders
  <2> QED
    BY <1>1, <2>1 DEF Carrying, DataHeld, FlushHeld
<1> QED
  BY <1>2, <1>3, <1>4, <1>5, <1>6, FlowSend, FlowReceive DEF VideoThread

\* The other threads take no part in it; a new seek is not the latest before its
\* flush is put.
LEMMA FlowOthers ==
  TInv /\ SeekOrder /\ Flow /\ (Refresh \/ Control \/ Close) => Flow' /\ Moves
<1> SUFFICES ASSUME TInv, SeekOrder, Flow, Refresh \/ Control \/ Close PROVE Flow' /\ Moves
  OBVIOUS
<1>0. /\ dec \in Decoders /\ videoq \in PacketQueues /\ ui \in Controls
      /\ Woken(dec, dec) /\ Woken(dec, WakeGetter(dec)) /\ Woken(dec, WakeWriter(dec))
      /\ Woken(dec, WakeWriter(WakeGetter(dec)))
  BY WakeTypes DEF TInv, TypeOK
<1>1. ASSUME UNCHANGED <<codec, rd>>, ui'.seeks = ui.seeks,
             videoq' \in {videoq, [videoq EXCEPT !.abort = TRUE]},
             dec' \in {dec, WakeGetter(dec), WakeWriter(dec), WakeWriter(WakeGetter(dec))}
      PROVE  Flow' /\ Moves
  <2>1. /\ videoq'.pkts = videoq.pkts /\ videoq'.serial = videoq.serial
        /\ videoq.abort => videoq'.abort
    BY <1>0, <1>1 DEF PacketQueues
  <2>2. Woken(dec, dec')
    BY <1>0, <1>1
  <2>3. Latest /\ NullQueued => rd'.eof
    BY <1>1 DEF Flow, QueueForm
  <2>4. /\ DataHeld' <=> DataHeld
        /\ FlushHeld' <=> FlushHeld
        /\ Carrying' <=> Carrying
        /\ dec'.pkt = dec.pkt /\ dec'.frame = dec.frame /\ dec'.pkt_serial = dec.pkt_serial
    BY <2>2 DEF Woken, DataHeld, FlushHeld, Carrying
  <2> QED
    BY <1>1, <2>1, <2>3, <2>4, FlowFrame
<1>2. CASE Refresh
  <2>1. UNCHANGED <<videoq, codec, rd, ui>> /\ dec' \in {dec, WakeWriter(dec)}
    BY <1>2 DEF Refresh, RefreshTop, RefreshLeave, RefreshLook, RefreshNotYet, RefreshEarly,
                RefreshLate, RefreshShow, RefreshNext, RefreshEmpty, SwitchToNextClip
  <2> QED
    BY <1>1, <2>1
<1>3. CASE SeekPlace
  <2>1. ui'.seeks = ui.seeks + 1 /\ videoq'.serial = videoq.serial
    BY <1>0, <1>3 DEF SeekPlace, Controls
  <2>2. ~Latest'
    BY <2>1, PictureSerials DEF SeekOrder, Latest
  <2> QED
    BY <2>2 DEF Flow, Moves
<1>4. CASE SeekRaise \/ \E on \in BOOLEAN : StartOrPause(on)
  <2>1. UNCHANGED <<videoq, codec, rd, dec>> /\ ui'.seeks = ui.seeks
    BY <1>0, <1>4 DEF SeekRaise, StartOrPause, Controls
  <2> QED
    BY <1>1, <2>1
<1>5. CASE CloseBegin \/ CloseAbort \/ CloseJoinReader
  <2>1. /\ UNCHANGED <<codec, rd, ui>> /\ videoq' \in {videoq, [videoq EXCEPT !.abort = TRUE]}
        /\ dec' \in {dec, WakeGetter(dec), WakeWriter(WakeGetter(dec))}
    BY <1>5 DEF CloseBegin, CloseAbort, CloseJoinReader
  <2> QED
    BY <1>1, <2>1
<1>6. CASE CloseDestroy
  <2>1. videoq.abort /\ videoq'.abort = videoq.abort
    BY <1>0, <1>6 DEF CloseDestroy, PacketQueues, TInv, Closing
  <2> QED
    BY <2>1 DEF Flow, Moves, Latest
<1> QED
  BY <1>2, <1>3, <1>4, <1>5, <1>6 DEF Control, Close

LEMMA FlowStep ==
  TInv /\ SInv /\ EInv /\ SeekOrder /\ Flow /\ [Next]_vars => Flow' /\ (Moves \/ NewSerial)
<1> SUFFICES ASSUME TInv, SInv, EInv, SeekOrder, Flow, [Next]_vars
             PROVE  Flow' /\ (Moves \/ NewSerial)
  OBVIOUS
<1>1. CASE UNCHANGED vars
  <2>1. UNCHANGED <<videoq, codec, rd, dec, ui>>
    BY <1>1 DEF vars
  <2>2. Latest /\ NullQueued => rd'.eof
    BY <2>1 DEF Flow, QueueForm
  <2>3. Flow' /\ Moves
    BY <2>1, <2>2, FlowFrame DEF Carrying, DataHeld, FlushHeld
  <2> QED
    BY <2>3
<1> QED
  BY <1>1, FlowReader, FlowVideo, FlowOthers DEF Next

\* Until an accurate seek has found its picture, none of the new serial is queued
\* or on the screen.
Searching ==
  Latest /\ is.accurate =>
    /\ \A s \in Slots : pictq.slot[s].serial # videoq.serial
    /\ shown.serial # videoq.serial
    /\ dec.pc \in {"slot", "noslot", "fill", "push"} => ~Entered

\* The place of the first picture that has not been on the screen, and the number
\* it has: a picture that is looked at again counts as shown.
FirstNew == IF rf.again /\ Looking THEN 1 ELSE pictq.shown
Awaited == FromHand - (pictq.size - FirstNew)

\* The pictures that wait follow each other, up to the one in hand.
Waiting ==
  Latest => \A i \in 0..(pictq.size - 1) :
              SlotAt(i).serial = videoq.serial => SlotAt(i).n = FromHand - (pictq.size - i)

\* A picture is looked at again only while a refresh is forced.
LookedAt ==
  rf.again /\ Looking => /\ is.force_refresh /\ pictq.size >= 1
                         /\ pictq.shown = 0 => rf.pc # "empty"

\* The picture about to be shown is not older than the one on the screen.
AboutToShow ==
  /\ rf.pc = "time" =>
       /\ shown.serial <= SlotAt(pictq.shown).serial
       /\ SlotAt(pictq.shown).serial = videoq.serial \/ shown.serial < videoq.serial
  /\ rf.pc = "next" =>
       /\ shown.serial = SlotAt(pictq.shown).serial /\ shown.n = SlotAt(pictq.shown).n
       /\ rf.last = shown.n
  /\ rf.pc \in {"look", "time"} /\ rf.again /\ pictq.shown = 1 =>
       /\ rf.last = SlotAt(0).n
       /\ SlotAt(0).serial = videoq.serial \/ shown.serial < videoq.serial

\* With a picture of the new serial on the screen, all that wait are of it, and the
\* first of them is the next one, or is the one on the screen: shown already, ahead
\* of its time, or to be passed over by a forced refresh.
RestIsNew ==
  Latest /\ shown.serial = videoq.serial =>
    \A i \in 0..(pictq.size - 1) : FirstNew <= i => SlotAt(i).serial = videoq.serial
InLine ==
  Latest /\ shown.serial = videoq.serial /\ rf.pc # "next" =>
    \/ shown.n = Awaited
    \/ /\ rf.last < Awaited
       /\ \/ shown.n = Awaited - 1
          \/ is.force_refresh /\ rf.pc # "empty" /\ pictq.size > FirstNew

Display == Waiting /\ LookedAt /\ AboutToShow /\ RestIsNew /\ InLine

\* No picture of the queue's serial is in the picture queue or on the screen.
NoneNew ==
  /\ \A i \in 0..(pictq.size - 1) : SlotAt(i).serial # videoq.serial
  /\ shown.serial # videoq.serial

\* Steps that leave the screen, and the pictures that wait, as they are.
LEMMA DisplayFrame ==
  ASSUME TInv, Display, UNCHANGED <<rf, shown>>,
         pictq'.shown = pictq.shown, pictq'.size = pictq.size,
         \A i \in 0..(pictq.size - 1) : SlotAt(i)' = SlotAt(i),
         is.force_refresh => is'.force_refresh,
         videoq'.serial = videoq.serial \/ shown.serial < videoq'.serial,
         Latest' => \/ Latest /\ videoq'.serial = videoq.serial /\ FromHand' = FromHand
                    \/ NoneNew'
  PROVE  Display'
<1>0. /\ pictq.size \in Nat /\ pictq.shown \in Nat
      /\ rf.pc \in {"time", "next"} => pictq.shown < pictq.size
  BY PictureSerials DEF TInv, Counts
<1>1. FirstNew' = FirstNew
  BY DEF FirstNew, Looking
<1>2. FromHand' = FromHand => Awaited' = Awaited
  BY <1>1 DEF Awaited
<1>3. Waiting'
  BY DEF Display, Waiting, NoneNew
<1>4. LookedAt'
  BY DEF Display, LookedAt, Looking
<1>5. AboutToShow'
  <2>1. rf.pc \in {"time", "next"} => SlotAt(pictq.shown)' = SlotAt(pictq.shown)
    <3>1. rf.pc \in {"time", "next"} => pictq.shown \in 0..(pictq.size - 1)
      BY <1>0
    <3> QED
      BY <3>1 DEF SlotAt
  <2>2. pictq.shown = 1 => SlotAt(0)' = SlotAt(0)
    <3>1. pictq.shown = 1 => 0 \in 0..(pictq.size - 1)
      BY <1>0 DEF TInv, Counts
    <3> QED
      BY <3>1
  <2> QED
    BY <2>1, <2>2, PictureSerials DEF Display, AboutToShow
<1>6. RestIsNew'
  BY <1>1 DEF Display, RestIsNew, NoneNew
<1>7. InLine'
  BY <1>1, <1>2 DEF Display, InLine, NoneNew
<1> QED
  BY <1>3, <1>4, <1>5, <1>6, <1>7 DEF Display

LEMMA OrderInit == Init => SeekOrder /\ Behind /\ Flow /\ Searching /\ Display
<1> SUFFICES ASSUME Init PROVE SeekOrder /\ Behind /\ Flow /\ Searching /\ Display
  OBVIOUS
<1>1. SeekOrder
  BY DEF Init, SeekOrder
<1>2. Behind
  BY Sizes, VideoStreamAssumption DEF Init, Behind, NoFrame, Carrying
<1>3. /\ Len(videoq.pkts) = 1 /\ videoq.pkts[1] = [kind |-> "flush", serial |-> 1, n |-> 0]
      /\ videoq.serial = 1 /\ dec.pkt_serial = 0 /\ dec.pc = "decode" /\ rd.pc = "loop"
  BY DEF Init
<1>4. ~Entered /\ ~NullQueued /\ ~DataHeld /\ ~FlushHeld /\ ~Carrying
  BY <1>3 DEF Entered, NullQueued, DataHeld, FlushHeld, Carrying
<1>5. QueueForm
  BY <1>3, <1>4 DEF QueueForm
<1>6. Numbers
  BY <1>3, <1>4 DEF Numbers
<1>7. Flow
  BY <1>5, <1>6 DEF Flow
<1>8. Searching
  BY DEF Init, Searching
<1>9. pictq.size = 0 /\ shown.serial # videoq.serial /\ rf.pc = "top"
  BY DEF Init
<1>10. Display
  BY <1>9 DEF Display, Waiting, LookedAt, AboutToShow, RestIsNew, InLine, Looking
<1> QED
  BY <1>1, <1>2, <1>7, <1>8, <1>10

\* What the steps do to the two flags the screen depends on.
LEMMA FlagSteps ==
  ASSUME TInv, [Next]_vars
  PROVE  /\ is'.accurate = is.accurate \/ SeekPlace \/ QueuePicture
         /\ is.force_refresh => is'.force_refresh \/ RefreshNext \/ RefreshEmpty
<1>0. is \in Flags
  BY DEF TInv, TypeOK
<1>1. SameSeek(is, is') => is'.accurate = is.accurate /\ is'.force_refresh = is.force_refresh
  BY DEF SameSeek
<1>2. UNCHANGED is => SameSeek(is, is')
  BY DEF SameSeek
<1>3. CASE Reader
  <2>1. CASE ReaderSeek \/ ReaderFull \/ ReaderEof
    <3>1. is' \in {ToggleBuffering(is, TRUE), ToggleBuffering(is, FALSE)}
      BY <2>1 DEF ReaderSeek, ReaderFull, ReaderEof
    <3> QED
      BY <1>0, <1>1, <3>1, SameSeeks
  <2>2. CASE ReaderClear
    BY <1>0, <2>2 DEF ReaderClear, Flags
  <2>3. CASE ReaderSettle
    BY <1>1, <2>3, SettleSeek
  <2>4. CASE ReaderComplete
    <3> DEFINE u == [is EXCEPT !.auto_resume = FALSE]
    <3>1. u \in Flags /\ SameSeek(is, u)
      BY <1>0 DEF Flags, SameSeek
    <3>2. is' = TogglePause(ToggleBuffering(u, FALSE), TRUE)
      BY <2>4 DEF ReaderComplete
    <3> HIDE DEF u
    <3> QED
      BY <3>1, <3>2, FlagTypes, SameSeeks DEF SameSeek
  <2>5. CASE ReaderFlush \/ ReaderPutFlush \/ ReaderPacket \/ ReaderExit
    BY <1>1, <1>2, <2>5 DEF ReaderFlush, ReaderPutFlush, ReaderPacket, ReaderExit
  <2> QED
    BY <1>3, <2>1, <2>2, <2>3, <2>4, <2>5 DEF Reader
<1>4. CASE VideoThread
  <2>1. CASE StartBuffering
    BY <1>0, <1>1, <1>2, <2>1, SameSeeks DEF StartBuffering
  <2>2. CASE FetchPacket \/ CheckPacket \/ QueuePicture
    BY <1>0, <2>2 DEF FetchPacket, CheckPacket, QueuePicture, Flags
  <2>3. CASE ~StartBuffering /\ ~FetchPacket /\ ~CheckPacket /\ ~QueuePicture
    BY <1>1, <1>2, <1>4, <2>3 DEF VideoThread, ReceivePicture, ReceiveEof, ReceiveNothing,
       GetPacket, BlockForPacket, SendPacket, WaitForSlot, FillSlot, PushPicture
  <2> QED
    BY <2>1, <2>2, <2>3
<1>5. CASE Refresh
  <2>1. CASE RefreshNext
    <3> DEFINE u == [is EXCEPT !.step = FALSE]
               stepped == IF is.step THEN IF is.paused THEN u ELSE UpdatePause(u) ELSE is
    <3>1. u \in Flags /\ SameSeek(is, u)
      BY <1>0 DEF Flags, SameSeek
    <3>2. stepped \in Flags /\ SameSeek(is, stepped)
      <4> HIDE DEF u
      <4> QED
        BY <1>0, <3>1, FlagTypes, SameSeeks DEF SameSeek
    <3>3. is' = [stepped EXCEPT !.force_refresh = FALSE]
      BY <2>1 DEF RefreshNext
    <3> HIDE DEF stepped
    <3> QED
      BY <2>1, <3>2, <3>3 DEF Flags, SameSeek
  <2>2. CASE SwitchToNextClip
    <3> DEFINE u == [is EXCEPT !.pause_req = TRUE, !.auto_resume = FALSE, !.doneVideo = FALSE]
    <3>1. u \in Flags /\ SameSeek(is, u) /\ is' = UpdatePause(u)
      BY <1>0, <2>2 DEF Flags, SameSeek, SwitchToNextClip
    <3> HIDE DEF u
    <3> QED
      BY <3>1, SameSeeks DEF SameSeek
  <2>3. CASE RefreshEmpty
    BY <1>0, <2>3 DEF RefreshEmpty, Flags
  <2>4. CASE ~RefreshNext /\ ~SwitchToNextClip /\ ~RefreshEmpty
    BY <1>1, <1>2, <1>5, <2>4 DEF Refresh, RefreshTop, RefreshLeave, RefreshLook,
       RefreshNotYet, RefreshEarly, RefreshLate, RefreshShow
  <2> QED
    BY <2>1, <2>2, <2>3, <2>4
<1>6. CASE SeekPlace \/ SeekRaise
  BY <1>0, <1>6 DEF SeekPlace, SeekRaise, Flags
<1>7. ASSUME NEW on \in BOOLEAN, StartOrPause(on)
      PROVE  is'.accurate = is.accurate /\ is'.force_refresh = is.force_refresh
  BY <1>0, <1>1, <1>7, SameSeeks DEF StartOrPause
<1>8. CASE Close \/ UNCHANGED vars
  BY <1>0, <1>8 DEF Close, CloseBegin, CloseAbort, CloseJoinReader, CloseDestroy, Flags, vars
<1> QED
  BY <1>3, <1>4, <1>5, <1>6, <1>7, <1>8 DEF Next, Control

\* A serial that begins has no picture yet.
LEMMA NoneYet ==
  ASSUME TInv, Behind, pictq' = pictq, shown' = shown, videoq'.serial \in Nat,
         dec.pkt_serial < videoq'.serial
  PROVE  /\ NoneNew' /\ shown'.serial < videoq'.serial
         /\ \A s \in Slots : pictq'.slot[s].serial # videoq'.serial
<1>1. \A s \in Slots : pictq.slot[s].serial < videoq'.serial
  BY PictureSerials DEF Behind
<1>2. shown.serial < videoq'.serial
  BY PictureSerials DEF Behind
<1>3. ASSUME NEW i \in 0..(pictq.size - 1) PROVE SlotAt(i)'.serial # videoq'.serial
  <2>1. (pictq.rindex + i) % PictqSize \in Slots
    BY PictureSerials, Places
  <2>2. SlotAt(i)' = SlotAt(i)
    BY DEF SlotAt
  <2>3. SlotAt(i).serial < videoq'.serial
    BY <1>1, <2>1 DEF SlotAt
  <2> QED
    BY <2>2, <2>3, PictureSerials
<1> QED
  BY <1>1, <1>2, <1>3, PictureSerials DEF NoneNew

\* Steps that find no picture.
LEMMA SearchFrame ==
  ASSUME TInv, Searching, Latest' => Latest /\ videoq'.serial = videoq.serial,
         is'.accurate => is.accurate, videoq.serial >= 1,
         \A s \in Slots : pictq'.slot[s] \in {pictq.slot[s], NoFrame},
         shown'.serial \in {shown.serial, Peek(pictq).serial},
         dec'.pc \in {"slot", "noslot", "fill", "push"} =>
           dec.pc \in {"slot", "noslot", "fill", "push"} /\ dec'.pkt_serial = dec.pkt_serial
  PROVE  Searching'
<1> SUFFICES ASSUME Latest', is'.accurate
             PROVE  /\ \A s \in Slots : pictq'.slot[s].serial # videoq'.serial
                    /\ shown'.serial # videoq'.serial
                    /\ dec'.pc \in {"slot", "noslot", "fill", "push"} => ~Entered'
  BY DEF Searching
<1>1. /\ \A s \in Slots : pictq.slot[s].serial # videoq.serial
      /\ shown.serial # videoq.serial /\ videoq'.serial = videoq.serial
      /\ dec.pc \in {"slot", "noslot", "fill", "push"} => ~Entered
  BY DEF Searching
<1>2. Peek(pictq).serial # videoq.serial
  BY <1>1, Places, PictureSerials DEF Peek
<1>3. NoFrame.serial # videoq.serial
  BY PictureSerials DEF NoFrame
<1> QED
  BY <1>1, <1>2, <1>3 DEF Entered

LEMMA SearchVideo ==
  TInv /\ EInv /\ SeekOrder /\ Behind /\ Flow /\ Searching /\ Moves /\ VideoThread => Searching'
<1> SUFFICES ASSUME TInv, EInv, SeekOrder, Behind, Flow, Searching, Moves, VideoThread
             PROVE  Searching'
  OBVIOUS
<1>0. /\ is \in Flags /\ dec \in Decoders /\ pictq \in PictureQueues /\ videoq.serial >= 1
      /\ UNCHANGED <<shown, rd>>
      /\ Latest' => Latest /\ videoq'.serial = videoq.serial
  BY DEF TInv, TypeOK, EInv, Moves, VideoThread, ReceivePicture, ReceiveEof, ReceiveNothing,
         FetchPacket, GetPacket, StartBuffering, BlockForPacket, CheckPacket, SendPacket,
         QueuePicture, WaitForSlot, FillSlot, PushPicture
<1>1. ~QueuePicture => is'.accurate = is.accurate
  <2>1. ui' = ui
    BY DEF VideoThread, ReceivePicture, ReceiveEof, ReceiveNothing, FetchPacket, GetPacket,
           StartBuffering, BlockForPacket, CheckPacket, SendPacket, QueuePicture,
           WaitForSlot, FillSlot, PushPicture
  <2>2. ~SeekPlace
    <3>1. ASSUME SeekPlace PROVE ui'.seeks = ui.seeks + 1
      BY <3>1 DEF SeekPlace, TInv, TypeOK, Controls
    <3> QED
      BY <2>1, <3>1, PictureSerials
  <2>3. [Next]_vars
    BY DEF Next
  <2> QED
    BY <2>2, <2>3, FlagSteps
<1>2. CASE GetPacket \/ BlockForPacket
  <2>1. dec'.pc \in {"get", "check", "exit", "buffer", "asleep"} /\ UNCHANGED pictq
    BY <1>0, <1>2 DEF GetPacket, BlockForPacket, TakePacket, Decoders
  <2> QED
    BY <1>0, <1>1, <1>2, <2>1, SearchFrame DEF GetPacket, BlockForPacket, QueuePicture
<1>3. CASE \/ ReceivePicture \/ ReceiveEof \/ ReceiveNothing \/ FetchPacket
           \/ StartBuffering \/ CheckPacket \/ SendPacket
  <2>1. /\ dec'.pc \in {"queue", "decode", "exit", "fetch", "get", "block", "send"}
        /\ dec.pc # "queue" /\ UNCHANGED pictq
    BY <1>0, <1>3 DEF ReceivePicture, ReceiveEof, ReceiveNothing, FetchPacket, StartBuffering,
       CheckPacket, SendPacket, Decoding, Decoders
  <2> QED
    BY <1>0, <1>1, <2>1, SearchFrame DEF QueuePicture
<1>4. CASE QueuePicture
  <2>1. /\ dec.pc = "queue" /\ UNCHANGED <<pictq, videoq>> /\ dec'.pkt_serial = dec.pkt_serial
        /\ is'.accurate => is.accurate
    BY <1>0, <1>4 DEF QueuePicture, Decoders, Flags
  <2>2. CASE dec'.pc # "slot"
    <3>1. dec'.pc = "decode"
      BY <1>0, <1>4, <2>2 DEF QueuePicture, Decoders
    <3> QED
      BY <1>0, <2>1, <3>1, SearchFrame
  <2>3. CASE dec'.pc = "slot" /\ ~(Latest /\ is.accurate)
    BY <1>0, <2>1, <2>3 DEF Searching
  <2>4. CASE dec'.pc = "slot" /\ Latest /\ is.accurate
    <3>1. Entered
      <4>1. dec.frame.serial = videoq.serial
        BY <1>0, <1>4, <2>4 DEF QueuePicture, Decoders
      <4> QED
        BY <2>1, <4>1 DEF Behind, Carrying, Entered
    <3>2. ~is.seek_req
      <4>1. rd.pc # "clear"
        BY <2>4, <3>1 DEF Flow, QueueForm
      <4>2. is.seek_req => videoq.serial <= ui.seeks
        BY <4>1 DEF SeekOrder
      <4> QED
        BY <2>4, <4>2, PictureSerials DEF Latest
    <3>3. ~is'.accurate
      BY <1>0, <1>4, <2>4, <3>2 DEF QueuePicture, Flags, Decoders
    <3> QED
      BY <3>3 DEF Searching
  <2> QED
    BY <2>2, <2>3, <2>4
<1>5. CASE WaitForSlot \/ PushPicture
  <2>1. /\ dec.pc \in {"slot", "push"} /\ dec'.pkt_serial = dec.pkt_serial
        /\ pictq'.slot = pictq.slot
    BY <1>0, <1>5 DEF WaitForSlot, PushPicture, Decoders, PictureQueues
  <2> QED
    BY <1>0, <1>1, <1>5, <2>1, SearchFrame DEF WaitForSlot, PushPicture, QueuePicture
<1>6. CASE FillSlot
  <2>1. /\ dec.pc = "fill" /\ dec'.pkt_serial = dec.pkt_serial
        /\ pictq' = [pictq EXCEPT !.slot[pictq.windex] = dec.frame]
    BY <1>0, <1>6 DEF FillSlot, Decoders
  <2> SUFFICES ASSUME Latest', is'.accurate
               PROVE  /\ \A s \in Slots : pictq'.slot[s].serial # videoq'.serial
                      /\ shown'.serial # videoq'.serial /\ ~Entered'
    BY DEF Searching
  <2>2. /\ videoq'.serial = videoq.serial /\ ~Entered /\ shown.serial # videoq.serial
        /\ \A s \in Slots : pictq.slot[s].serial # videoq.serial
    BY <1>0, <1>1, <1>6, <2>1 DEF Searching, QueuePicture, FillSlot
  <2>3. dec.frame.serial # videoq.serial
    BY <2>1, <2>2 DEF Behind, Carrying, Entered
  <2>4. \A s \in Slots : pictq'.slot[s] \in {pictq.slot[s], dec.frame}
    BY <1>0, <2>1, Sizes DEF PictureQueues
  <2> QED
    BY <1>0, <2>1, <2>2, <2>3, <2>4 DEF Entered
<1> QED
  BY <1>2, <1>3, <1>4, <1>5, <1>6 DEF VideoThread

\* The step that begins a serial leaves the pictures alone.
LEMMA BeginStep ==
  ASSUME TInv, SInv, Behind, Reader, NewSerial
  PROVE  /\ NoneNew' /\ shown'.serial < videoq'.serial /\ ~Entered'
         /\ \A s \in Slots : pictq'.slot[s].serial # videoq'.serial
<1>1. UNCHANGED <<pictq, shown>>
  BY DEF Reader, ReaderSeek, ReaderFlush, ReaderPutFlush, ReaderClear, ReaderSettle,
         ReaderFull, ReaderComplete, ReaderPacket, ReaderEof, ReaderExit
<1>2. dec.pkt_serial < videoq'.serial /\ videoq'.serial \in Nat
  BY PictureSerials DEF NewSerial, SInv, Sorted
<1>3. ~Entered'
  BY <1>2, PictureSerials DEF NewSerial, Entered
<1> QED
  BY <1>1, <1>2, <1>3, NoneYet

LEMMA SearchStep ==
  TInv /\ SInv /\ EInv /\ SeekOrder /\ Behind /\ Flow /\ Searching /\ [Next]_vars => Searching'
<1> SUFFICES ASSUME TInv, SInv, EInv, SeekOrder, Behind, Flow, Searching, [Next]_vars
             PROVE  Searching'
  OBVIOUS
<1>0. videoq.serial >= 1 /\ pictq \in PictureQueues
  BY DEF EInv, TInv, TypeOK
<1>1. ASSUME Reader \/ Refresh \/ Control \/ Close \/ UNCHANGED vars
      PROVE  dec'.pkt_serial = dec.pkt_serial
             /\ (dec'.pc \in {"slot", "noslot", "fill", "push"} =>
                   dec.pc \in {"slot", "noslot", "fill", "push"})
  BY <1>1, OthersWake DEF Woken
<1>2. CASE VideoThread
  BY <1>2, FlowVideo, SearchVideo
<1>3. CASE Reader /\ NewSerial
  BY <1>3, BeginStep DEF Searching, NoneNew
<1>4. CASE (Reader /\ Moves) \/ UNCHANGED vars
  <2>1. UNCHANGED <<pictq, shown>>
    BY <1>4 DEF Reader, ReaderSeek, ReaderFlush, ReaderPutFlush, ReaderClear, ReaderSettle,
                ReaderFull, ReaderComplete, ReaderPacket, ReaderEof, ReaderExit, vars
  <2>2. is'.accurate = is.accurate
    <3>1. CASE UNCHANGED vars
      BY <3>1 DEF vars
    <3>2. CASE Reader
      <4>1. UNCHANGED <<ui, codec>>
        BY <3>2 DEF Reader, ReaderSeek, ReaderFlush, ReaderPutFlush, ReaderClear,
                    ReaderSettle, ReaderFull, ReaderComplete, ReaderPacket, ReaderEof, ReaderExit
      <4>2. ~SeekPlace
        <5>1. ASSUME SeekPlace PROVE ui'.seeks = ui.seeks + 1
          BY <5>1 DEF SeekPlace, TInv, TypeOK, Controls
        <5> QED
          BY <4>1, <5>1, PictureSerials
      <4>3. ~QueuePicture
        <5>1. ASSUME QueuePicture PROVE dec.pc = "queue" /\ dec'.pc \in {"decode", "slot"}
          BY <5>1 DEF QueuePicture, TInv, TypeOK, Decoders
        <5> QED
          BY <3>2, <5>1, OthersWake DEF Woken
      <4> QED
        BY <4>2, <4>3, FlagSteps
    <3> QED
      BY <1>4, <3>1, <3>2
  <2>3. Latest' => Latest /\ videoq'.serial = videoq.serial
    BY <1>4 DEF Moves, vars, Latest
  <2> QED
    BY <1>0, <1>1, <1>4, <2>1, <2>2, <2>3, SearchFrame
<1>5. CASE Refresh
  <2>1. /\ UNCHANGED <<videoq, ui>>
        /\ shown'.serial \in {shown.serial, Peek(pictq).serial}
    BY <1>5 DEF Refresh, RefreshTop, RefreshLeave, RefreshLook, RefreshNotYet, RefreshEarly,
                RefreshLate, RefreshShow, RefreshNext, RefreshEmpty, SwitchToNextClip, Show
  <2>2. \A s \in Slots : pictq'.slot[s] \in {pictq.slot[s], NoFrame}
    <3>1. CASE pictq' = pictq \/ pictq' = [pictq EXCEPT !.shown = 0]
      BY <1>0, <3>1 DEF PictureQueues
    <3>2. CASE pictq.shown < pictq.size /\ pictq' = Next_(pictq)
      BY <3>2, NextPlaces
    <3> QED
      BY <1>5, <3>1, <3>2, RefreshPictq
  <2>3. is'.accurate = is.accurate
    <3>1. ~SeekPlace
      <4>1. ASSUME SeekPlace PROVE ui'.seeks = ui.seeks + 1
        BY <4>1 DEF SeekPlace, TInv, TypeOK, Controls
      <4> QED
        BY <2>1, <4>1, PictureSerials
    <3>2. ~QueuePicture
      <4>1. ASSUME QueuePicture PROVE dec.pc = "queue" /\ dec'.pc \in {"decode", "slot"}
        BY <4>1 DEF QueuePicture, TInv, TypeOK, Decoders
      <4> QED
        BY <1>5, <4>1, OthersWake DEF Woken
    <3> QED
      BY <3>1, <3>2, FlagSteps
  <2>4. Latest' <=> Latest
    BY <2>1 DEF Latest
  <2> QED
    BY <1>0, <1>1, <1>5, <2>1, <2>2, <2>3, <2>4, SearchFrame
<1>6. CASE Control \/ CloseBegin \/ CloseAbort \/ CloseJoinReader
  <2>1. UNCHANGED <<pictq, shown>>
    BY <1>6 DEF Control, SeekPlace, SeekRaise, StartOrPause, CloseBegin, CloseAbort,
                CloseJoinReader
  <2>2. Moves
    BY <1>6, FlowOthers DEF Close
  <2>3. Latest' => is'.accurate = is.accurate
    <3>1. ~QueuePicture
      <4>1. ASSUME QueuePicture PROVE dec.pc = "queue" /\ dec'.pc \in {"decode", "slot"}
        BY <4>1 DEF QueuePicture, TInv, TypeOK, Decoders
      <4> QED
        BY <1>6, <4>1, OthersWake DEF Woken, Close
    <3>2. SeekPlace => ~Latest'
      <4>1. ASSUME SeekPlace PROVE ui'.seeks = ui.seeks + 1 /\ videoq' = videoq
        BY <4>1 DEF SeekPlace, TInv, TypeOK, Controls
      <4> QED
        BY <4>1, PictureSerials DEF SeekOrder, Latest
    <3> QED
      BY <3>1, <3>2, FlagSteps
  <2> SUFFICES ASSUME Latest' PROVE Searching'
    BY DEF Searching
  <2> QED
    BY <1>0, <1>1, <1>6, <2>1, <2>2, <2>3, SearchFrame DEF Moves, Close
<1>7. CASE CloseDestroy
  <2>1. videoq.abort /\ videoq'.abort = videoq.abort
    BY <1>7 DEF CloseDestroy, PacketQueues, TInv, TypeOK, Closing
  <2> QED
    BY <2>1 DEF Searching, Latest
<1> QED
  BY <1>2, <1>3, <1>4, <1>5, <1>6, <1>7, FlowReader DEF Next, Close

\* A forced refresh is over when the refresh thread has been there.
LEMMA StaysForced ==
  ASSUME TInv, [Next]_vars, rf' = rf
  PROVE  is.force_refresh => is'.force_refresh
<1>1. RefreshNext \/ RefreshEmpty => rf.pc \in {"next", "empty"} /\ rf'.pc \in {"delay", "top"}
  BY DEF RefreshNext, RefreshEmpty, TInv, TypeOK, Refreshers
<1> QED
  BY <1>1, FlagSteps

LEMMA DisplayOthers ==
  ASSUME TInv, SInv, EInv, SeekOrder, Behind, Flow, Display,
         Reader \/ Control \/ Close \/ UNCHANGED vars
  PROVE  Display'
<1>0. [Next]_vars /\ pictq \in PictureQueues /\ videoq \in PacketQueues
  BY DEF Next, TInv, TypeOK
<1>1. Released = 0
  BY OthersWake DEF Woken, Released, Carrying
<1>2. ASSUME UNCHANGED <<pictq, shown, rf>>,
             videoq'.serial = videoq.serial \/ shown.serial < videoq'.serial,
             Moves \/ NoneNew'
      PROVE  Display'
  <2>1. is.force_refresh => is'.force_refresh
    BY <1>0, <1>2, StaysForced
  <2>2. Latest' => \/ Latest /\ videoq'.serial = videoq.serial /\ FromHand' = FromHand
                   \/ NoneNew'
    BY <1>1, <1>2, FlowTypes DEF Moves
  <2>3. \A i \in 0..(pictq.size - 1) : SlotAt(i)' = SlotAt(i)
    BY <1>2 DEF SlotAt
  <2> QED
    BY <1>2, <2>1, <2>2, <2>3, DisplayFrame
<1>3. CASE Reader
  <2>1. UNCHANGED <<pictq, shown, rf>>
    BY <1>3 DEF Reader, ReaderSeek, ReaderFlush, ReaderPutFlush, ReaderClear, ReaderSettle,
                ReaderFull, ReaderComplete, ReaderPacket, ReaderEof, ReaderExit
  <2>2. CASE NewSerial
    BY <1>2, <1>3, <2>1, <2>2, BeginStep
  <2>3. CASE Moves /\ ~NewSerial
    <3>1. videoq'.serial = videoq.serial
      <4>1. CASE ReaderPutFlush
        <5>1. videoq'.serial \in {videoq.serial, videoq.serial + 1}
          BY <1>0, <4>1, PutEffect, VideoStreamAssumption
             DEF ReaderPutFlush, TInv, TypeOK, Pictures
        <5>2. dec'.pkt_serial = dec.pkt_serial
          BY <1>3, OthersWake DEF Woken
        <5> QED
          BY <2>3, <5>1, <5>2 DEF NewSerial
      <4>2. CASE ReaderPacket
        <5>1. rd.pos \in Pictures
          BY <4>2, VideoStreamAssumption DEF ReaderPacket, TInv, TypeOK, Readers, Pictures
        <5> QED
          BY <1>0, <4>2, <5>1, PutEffect DEF ReaderPacket, TInv, TypeOK
      <4>3. CASE ReaderEof
        BY <1>0, <4>3, PutEffect, VideoStreamAssumption DEF ReaderEof, TInv, TypeOK, Pictures
      <4>4. CASE ReaderFlush
        BY <1>0, <4>4 DEF ReaderFlush, PacketQueues
      <4>5. CASE ~ReaderPutFlush /\ ~ReaderPacket /\ ~ReaderEof /\ ~ReaderFlush
        BY <1>3, <4>5 DEF Reader, ReaderSeek, ReaderClear, ReaderSettle, ReaderFull,
                          ReaderComplete, ReaderExit
      <4> QED
        BY <4>1, <4>2, <4>3, <4>4, <4>5
    <3> QED
      BY <1>2, <2>1, <2>3, <3>1
  <2> QED
    BY <1>3, <2>2, <2>3, FlowReader
<1>4. CASE Control \/ CloseBegin \/ CloseAbort \/ CloseJoinReader
  <2>1. UNCHANGED <<pictq, shown, rf>>
    BY <1>4 DEF Control, SeekPlace, SeekRaise, StartOrPause, CloseBegin, CloseAbort,
                CloseJoinReader
  <2>2. videoq'.serial = videoq.serial
    BY <1>0, <1>4 DEF Control, SeekPlace, SeekRaise, StartOrPause, CloseBegin, CloseAbort,
                CloseJoinReader, PacketQueues
  <2>3. Moves
    BY <1>4, FlowOthers DEF Close
  <2> QED
    BY <1>2, <2>1, <2>2, <2>3
<1>5. CASE CloseDestroy
  <2>1. /\ rf.pc = "out" /\ rf' = rf /\ videoq'.abort
    BY <1>0, <1>5 DEF CloseDestroy, PacketQueues, TInv, Closing
  <2> QED
    BY <2>1 DEF Display, Waiting, LookedAt, AboutToShow, RestIsNew, InLine, Looking, Latest
<1>6. CASE UNCHANGED vars
  <2>1. UNCHANGED <<pictq, shown, rf, videoq>>
    BY <1>6 DEF vars
  <2>2. Moves
    <3>1. UNCHANGED <<videoq, codec, rd, dec, ui>>
      BY <1>6 DEF vars
    <3>2. Latest /\ NullQueued => rd'.eof
      BY <3>1 DEF Flow, QueueForm
    <3> QED
      BY <3>1, <3>2, FlowFrame DEF Carrying, DataHeld, FlushHeld
  <2> QED
    BY <1>2, <2>1, <2>2
<1> QED
  BY <1>3, <1>4, <1>5, <1>6 DEF Close

\* The picture in hand takes its place behind those that wait.
LEMMA DisplayPush ==
  ASSUME TInv, SInv, Ring, Behind, Flow, Moves, Display, PushPicture
  PROVE  Display'
<1> DEFINE z == pictq.size
<1>0. /\ dec \in Decoders /\ UNCHANGED <<rf, shown, is, videoq, ui>>
      /\ dec.pc = "push" /\ dec'.pc = "decode" /\ dec'.pkt_serial = dec.pkt_serial
  BY DEF PushPicture, TInv, TypeOK, Decoders
<1>1. /\ pictq'.shown = pictq.shown /\ pictq'.size = z + 1
      /\ \A i \in 0..z : SlotAt(i)' = SlotAt(i)
      /\ SlotAt(z) = dec.frame /\ dec.frame.serial = dec.pkt_serial
  BY <1>0, PushPlaces DEF Behind, Carrying
<1>2. /\ z \in Nat /\ pictq.shown \in Nat /\ pictq.shown <= z /\ 0 \in 0..z
      /\ z + 1 - 1 = z /\ z \in 0..z /\ pictq.shown \in 0..z
      /\ \A i \in 0..z : i # z => i \in 0..(z - 1)
      /\ FromHand \in Int /\ FirstNew \in Nat
  <2>1. z \in Nat /\ pictq.shown \in Nat /\ pictq.shown <= z
    BY PictureSerials
  <2>2. FromHand \in Int
    BY FlowTypes
  <2>3. FirstNew \in Nat
    BY <2>1 DEF FirstNew
  <2> HIDE DEF z
  <2>4. 0 \in 0..z /\ z + 1 - 1 = z /\ z \in 0..z /\ pictq.shown \in 0..z
    BY <2>1
  <2>5. \A i \in 0..z : i # z => i \in 0..(z - 1)
    BY <2>1
  <2> QED
    BY <2>1, <2>2, <2>3, <2>4, <2>5
<1>3. FirstNew' = FirstNew
  BY <1>0, <1>1 DEF FirstNew, Looking
<1>4. LookedAt'
  BY <1>0, <1>1, <1>2 DEF Display, LookedAt, Looking
<1>5. AboutToShow'
  <2>1. SlotAt(pictq.shown)' = SlotAt(pictq.shown) /\ SlotAt(0)' = SlotAt(0)
    BY <1>1, <1>2
  <2> QED
    BY <1>0, <1>1, <2>1 DEF Display, AboutToShow
<1>6. Latest' => Latest
  BY <1>0 DEF Latest
<1>7. CASE ~Entered
  <2>1. /\ dec.pkt_serial < videoq.serial /\ dec.pkt_serial \in Nat /\ videoq.serial \in Nat
        /\ shown.serial \in Nat /\ shown.serial <= dec.pkt_serial
    BY <1>7, PictureSerials DEF Entered, SInv, Sorted, Behind
  <2>2. \A i \in 0..z : SlotAt(i).serial <= dec.pkt_serial /\ SlotAt(i).serial \in Nat
    BY <1>2, Places, PictureSerials DEF Behind, SlotAt
  <2>3. \A i \in 0..z : SlotAt(i)'.serial # videoq'.serial
    <3>1. \A i \in 0..z : SlotAt(i).serial # videoq.serial
      BY <2>1, <2>2
    <3> QED
      BY <1>0, <1>1, <3>1
  <2>4. shown'.serial # videoq'.serial
    BY <1>0, <2>1
  <2>5. Waiting'
    BY <1>1, <1>2, <2>3 DEF Waiting
  <2>6. RestIsNew' /\ InLine'
    BY <2>4 DEF RestIsNew, InLine
  <2> QED
    BY <1>4, <1>5, <2>5, <2>6 DEF Display
<1>8. CASE Entered /\ Latest
  <2>1. Released = 1
    BY <1>0, <1>8 DEF Released, Carrying
  <2>2. FromHand' = FromHand + 1
    BY <1>0, <1>8, <2>1 DEF Moves, Latest
  <2>3. dec.frame.n = FromHand /\ dec.frame.serial = videoq.serial
    BY <1>0, <1>1, <1>8 DEF Flow, Numbers, Carrying, Entered
  <2>4. Awaited' = Awaited
    BY <1>1, <1>2, <1>3, <2>2 DEF Awaited
  <2>5. Waiting'
    <3> SUFFICES ASSUME NEW i \in 0..z, SlotAt(i)'.serial = videoq'.serial
                 PROVE  SlotAt(i)'.n = FromHand' - ((z + 1) - i)
      BY <1>1, <1>2 DEF Waiting
    <3>1. SlotAt(i)' = SlotAt(i) /\ SlotAt(i).serial = videoq.serial
      BY <1>0, <1>1
    <3>2. CASE i = z
      <4>1. FromHand' - ((z + 1) - i) = FromHand
        BY <1>2, <2>2, <3>2
      <4> QED
        BY <1>1, <2>3, <3>1, <3>2, <4>1
    <3>3. CASE i # z
      <4>1. SlotAt(i).n = FromHand - (z - i)
        BY <1>2, <1>8, <3>1, <3>3 DEF Display, Waiting
      <4>2. FromHand' - ((z + 1) - i) = FromHand - (z - i)
        BY <1>2, <2>2
      <4> QED
        BY <3>1, <4>1, <4>2
    <3> QED
      BY <3>2, <3>3
  <2>6. RestIsNew'
    <3> SUFFICES ASSUME shown.serial = videoq.serial, NEW i \in 0..z, FirstNew <= i
                 PROVE  SlotAt(i).serial = videoq.serial
      BY <1>0, <1>1, <1>2, <1>3 DEF RestIsNew
    <3>1. CASE i = z
      BY <1>1, <2>3, <3>1
    <3>2. CASE i # z
      BY <1>2, <1>8, <3>2 DEF Display, RestIsNew
    <3> QED
      BY <3>1, <3>2
  <2>7. InLine'
    <3>1. z > FirstNew => z + 1 > FirstNew
      BY <1>2
    <3> QED
      BY <1>0, <1>1, <1>3, <1>8, <2>4, <3>1 DEF Display, InLine
  <2> QED
    BY <1>4, <1>5, <2>5, <2>6, <2>7 DEF Display
<1>9. CASE ~Latest
  BY <1>4, <1>5, <1>6, <1>9 DEF Display, Waiting, RestIsNew, InLine
<1> QED
  BY <1>7, <1>8, <1>9

LEMMA DisplayVideo ==
  ASSUME TInv, SInv, EInv, Ring, Behind, Flow, Searching, Display, VideoThread
  PROVE  Display'
<1>0. /\ [Next]_vars /\ Moves /\ dec \in Decoders /\ UNCHANGED <<rf, shown>>
      /\ videoq'.serial = videoq.serial
  <2>1. UNCHANGED <<rf, shown>>
    BY DEF VideoThread, ReceivePicture, ReceiveEof, ReceiveNothing, FetchPacket, GetPacket,
           StartBuffering, BlockForPacket, CheckPacket, SendPacket, QueuePicture,
           WaitForSlot, FillSlot, PushPicture
  <2>2. videoq'.serial = videoq.serial
    BY TakeType DEF TInv, TypeOK, PacketQueues,
           VideoThread, ReceivePicture, ReceiveEof, ReceiveNothing, FetchPacket, GetPacket,
           StartBuffering, BlockForPacket, CheckPacket, SendPacket, QueuePicture,
           WaitForSlot, FillSlot, PushPicture
  <2> QED
    BY <2>1, <2>2, FlowVideo DEF Next, TInv, TypeOK
<1>1. is.force_refresh => is'.force_refresh
  BY <1>0, StaysForced
<1>2. ASSUME UNCHANGED pictq, Latest' => Released = 0 \/ NoneNew' PROVE Display'
  <2>1. Latest' => \/ Latest /\ videoq'.serial = videoq.serial /\ FromHand' = FromHand
                   \/ NoneNew'
    BY <1>0, <1>2, FlowTypes DEF Moves
  <2>2. \A i \in 0..(pictq.size - 1) : SlotAt(i)' = SlotAt(i)
    BY <1>2 DEF SlotAt
  <2> QED
    BY <1>0, <1>1, <1>2, <2>1, <2>2, DisplayFrame
<1>3. CASE \/ ReceivePicture \/ ReceiveEof \/ ReceiveNothing \/ FetchPacket \/ GetPacket
           \/ StartBuffering \/ BlockForPacket \/ CheckPacket \/ SendPacket
  <2>1. /\ UNCHANGED pictq
        /\ dec.pc \in {"decode", "fetch", "get", "buffer", "block", "check", "send"}
    BY <1>3 DEF ReceivePicture, ReceiveEof, ReceiveNothing, FetchPacket, GetPacket,
       StartBuffering, BlockForPacket, CheckPacket, SendPacket, Decoding
  <2>2. Released = 0
    BY <2>1 DEF Released, Carrying
  <2> QED
    BY <1>2, <2>1, <2>2
<1>4. CASE QueuePicture
  <2>1. UNCHANGED <<pictq, videoq>> /\ dec.pc = "queue"
    BY <1>4 DEF QueuePicture
  <2>2. CASE dec'.pc = "slot" \/ ~Entered
    BY <1>2, <2>1, <2>2 DEF Released, Carrying
  <2>3. CASE dec'.pc # "slot" /\ Entered
    <3>1. dec.frame.serial = videoq.serial
      BY <2>1, <2>3 DEF Behind, Carrying, Entered
    <3>2. is.accurate
      BY <1>0, <1>4, <2>3, <3>1 DEF QueuePicture, Decoders
    <3>3. Latest' => NoneNew'
      <4> SUFFICES ASSUME Latest' PROVE NoneNew'
        OBVIOUS
      <4>1. /\ \A s \in Slots : pictq.slot[s].serial # videoq.serial
            /\ shown.serial # videoq.serial
        BY <1>0, <3>2 DEF Searching, Moves
      <4>2. \A i \in 0..(pictq.size - 1) : SlotAt(i).serial # videoq.serial
        BY <4>1, Places, PictureSerials DEF SlotAt
      <4>3. \A i \in 0..(pictq.size - 1) : SlotAt(i)' = SlotAt(i)
        BY <2>1 DEF SlotAt
      <4> QED
        BY <1>0, <2>1, <4>1, <4>2, <4>3 DEF NoneNew
    <3> QED
      BY <1>2, <2>1, <3>3
  <2> QED
    BY <2>2, <2>3
<1>5. CASE WaitForSlot
  <2>1. /\ UNCHANGED <<pictq, videoq>> /\ dec.pc = "slot"
        /\ dec'.pc \in {"noslot", "fill"} \/ videoq.abort
    BY <1>0, <1>5 DEF WaitForSlot, Decoders
  <2>2. Latest' => Released = 0
    BY <2>1 DEF Latest, Released, Carrying
  <2> QED
    BY <1>2, <2>1, <2>2
<1>6. CASE FillSlot
  <2>1. dec'.pc = "push"
    BY <1>0, <1>6 DEF FillSlot, Decoders
  <2>2. Released = 0
    BY <2>1 DEF Released, Carrying
  <2>3. Latest' => Latest /\ videoq'.serial = videoq.serial /\ FromHand' = FromHand
    BY <1>0, <2>2, FlowTypes DEF Moves
  <2>4. /\ pictq'.shown = pictq.shown /\ pictq'.size = pictq.size
        /\ \A i \in 0..(pictq.size - 1) : SlotAt(i)' = SlotAt(i)
    BY <1>6, FillPlaces
  <2> QED
    BY <1>0, <1>1, <2>3, <2>4, DisplayFrame
<1>7. CASE PushPicture
  BY <1>0, <1>7, DisplayPush
<1> QED
  BY <1>3, <1>4, <1>5, <1>6, <1>7 DEF VideoThread

\* The refresh thread leaves the packets and the picture in hand alone.
LEMMA RefreshSteady ==
  ASSUME TInv, SeekOrder, Flow, Refresh
  PROVE  /\ UNCHANGED <<videoq, ui, rd>> /\ rf.pc # "out"
         /\ Latest' <=> Latest
         /\ Latest => FromHand' = FromHand
<1>1. UNCHANGED <<videoq, ui, rd>> /\ rf.pc # "out"
  BY DEF Refresh, RefreshTop, RefreshLeave, RefreshLook, RefreshNotYet, RefreshEarly,
         RefreshLate, RefreshShow, RefreshNext, RefreshEmpty, SwitchToNextClip
<1>2. Latest' <=> Latest
  BY <1>1 DEF Latest
<1>3. Released = 0
  BY OthersWake DEF Woken, Released, Carrying
<1> QED
  BY <1>1, <1>2, <1>3, FlowOthers, FlowTypes DEF Moves

\* The places after a picture was let go of.
LEMMA NextShift ==
  ASSUME TInv, pictq.shown < pictq.size, pictq' = Next_(pictq)
  PROVE  /\ pictq'.shown = 1 /\ pictq'.size = pictq.size - pictq.shown
         /\ pictq'.size \in Nat /\ pictq'.size >= 1
         /\ \A i \in 0..(pictq'.size - 1) : /\ i + pictq.shown \in 0..(pictq.size - 1)
                                           /\ SlotAt(i)' = SlotAt(i + pictq.shown)
<1>0. pictq.size \in Nat /\ pictq.shown \in {0, 1}
  BY PictureSerials
<1>1. CASE /\ pictq.shown = 0 /\ pictq'.size = pictq.size
           /\ \A i \in 0..(pictq'.size - 1) : SlotAt(i)' = SlotAt(i)
  <2>1. \A i \in 0..(pictq.size - 1) : i + 0 = i
    BY <1>0
  <2> QED
    BY <1>0, <1>1, <2>1, NextPlaces
<1>2. CASE /\ pictq.shown = 1 /\ pictq'.size = pictq.size - 1
           /\ \A i \in 0..(pictq'.size - 1) : SlotAt(i)' = SlotAt(i + 1)
  <2>1. \A i \in 0..(pictq.size - 1 - 1) : i + 1 \in 0..(pictq.size - 1)
    BY <1>0
  <2>2. pictq.size - 1 \in Nat /\ pictq.size - 1 >= 1
    BY <1>0, <1>2
  <2> QED
    BY <1>0, <1>2, <2>1, <2>2, NextPlaces
<1> QED
  BY <1>1, <1>2, NextPlaces

\* Behind a picture of the queue's serial there are only such.
LEMMA Ascending ==
  ASSUME TInv, SInv, Behind, NEW i \in 0..(pictq.size - 1), NEW j \in 0..(pictq.size - 1),
         i <= j, SlotAt(i).serial = videoq.serial
  PROVE  SlotAt(j).serial = videoq.serial
<1>1. SlotAt(i).serial <= SlotAt(j).serial
  BY DEF Behind
<1>2. SlotAt(j).serial <= dec.pkt_serial
  BY Places, PictureSerials DEF Behind, SlotAt
<1>3. dec.pkt_serial <= videoq.serial
  BY DEF SInv, Sorted
<1>4. /\ SlotAt(j).serial \in Nat /\ videoq.serial \in Nat /\ dec.pkt_serial \in Nat
  BY PictureSerials
<1>5. videoq.serial <= SlotAt(j).serial
  BY <1>1
<1> QED
  BY <1>2, <1>3, <1>4, <1>5

LEMMA WaitingNext ==
  ASSUME TInv, SeekOrder, Flow, Refresh, Waiting, pictq.shown < pictq.size,
         pictq' = Next_(pictq)
  PROVE  Waiting'
<1> SUFFICES ASSUME Latest', NEW i \in 0..(pictq'.size - 1), SlotAt(i)'.serial = videoq'.serial
             PROVE  SlotAt(i)'.n = FromHand' - (pictq'.size - i)
  BY DEF Waiting
<1>1. /\ pictq'.size = pictq.size - pictq.shown /\ i + pictq.shown \in 0..(pictq.size - 1)
      /\ SlotAt(i)' = SlotAt(i + pictq.shown)
  BY NextShift
<1>2. Latest /\ FromHand' = FromHand /\ videoq' = videoq
  BY RefreshSteady
<1>3. SlotAt(i + pictq.shown).n = FromHand - (pictq.size - (i + pictq.shown))
  BY <1>1, <1>2 DEF Waiting
<1>4. FromHand \in Int /\ pictq.size \in Nat /\ pictq.shown \in Nat /\ i \in Nat
  BY <1>1, PictureSerials, FlowTypes
<1>5. FromHand - (pictq.size - (i + pictq.shown)) = FromHand - ((pictq.size - pictq.shown) - i)
  BY <1>4
<1> QED
  BY <1>1, <1>2, <1>3, <1>5

\* The refresh thread leaves the pictures and the screen as they are, and counts the
\* same of them as shown.
LEMMA RefreshRest ==
  ASSUME TInv, SeekOrder, Flow, Refresh, Display, shown' = shown,
         pictq'.size = pictq.size,
         \A i \in 0..(pictq.size - 1) : SlotAt(i)' = SlotAt(i), FirstNew' = FirstNew
  PROVE  Waiting' /\ RestIsNew' /\ (Latest => Awaited' = Awaited)
<1>1. UNCHANGED videoq /\ (Latest' <=> Latest) /\ (Latest => FromHand' = FromHand)
  BY RefreshSteady
<1>2. Latest => Awaited' = Awaited
  BY <1>1 DEF Awaited
<1> QED
  BY <1>1, <1>2 DEF Display, Waiting, RestIsNew

LEMMA DisplayTurn ==
  ASSUME TInv, SeekOrder, Flow, Display,
         RefreshTop \/ RefreshLeave \/ RefreshNotYet \/ RefreshEmpty \/ SwitchToNextClip
  PROVE  Display'
<1>0. /\ Refresh /\ [Next]_vars /\ rf \in Refreshers /\ pictq \in PictureQueues
      /\ pictq.shown \in {0, 1} /\ pictq.shown <= pictq.size /\ pictq.size \in Nat
  BY PictureSerials DEF Refresh, Next, TInv, TypeOK
<1>1. /\ shown' = shown /\ pictq'.size = pictq.size /\ pictq'.slot = pictq.slot
      /\ pictq'.rindex = pictq.rindex /\ rf'.last = rf.last
  BY <1>0 DEF RefreshTop, RefreshLeave, RefreshNotYet, RefreshEmpty, SwitchToNextClip,
              PictureQueues, Refreshers
<1>2. \A i \in 0..(pictq.size - 1) : SlotAt(i)' = SlotAt(i)
  BY <1>1 DEF SlotAt
<1>3. CASE RefreshTop
  <2>1. /\ rf.pc = "top" /\ rf'.pc = "look" /\ rf'.again = (is.force_refresh /\ pictq.shown = 1)
        /\ is' = is
        /\ pictq'.shown = IF is.force_refresh THEN 0 ELSE pictq.shown
    BY <1>0, <1>3 DEF RefreshTop, PictureQueues, Refreshers
  <2>2. FirstNew' = FirstNew
    BY <1>0, <2>1 DEF FirstNew, Looking
  <2>3. LookedAt'
    BY <1>0, <1>1, <2>1 DEF LookedAt
  <2>4. AboutToShow'
    <3>1. rf'.again => pictq'.shown = 0
      BY <2>1
    <3>2. ~(rf'.again /\ pictq'.shown = 1)
      BY <3>1
    <3> QED
      BY <2>1, <3>2 DEF AboutToShow
  <2>5. UNCHANGED videoq /\ (Latest' <=> Latest)
    BY <1>0, RefreshSteady
  <2>6. Waiting' /\ RestIsNew' /\ (Latest => Awaited' = Awaited)
    BY <1>0, <1>1, <1>2, <2>2, RefreshRest
  <2>7. InLine'
    BY <1>1, <2>1, <2>2, <2>5, <2>6 DEF Display, InLine
  <2> QED
    BY <2>3, <2>4, <2>6, <2>7 DEF Display
<1>4. CASE RefreshLeave \/ RefreshNotYet \/ RefreshEmpty \/ SwitchToNextClip
  <2>1. /\ rf.pc \in {"top", "time", "empty", "delay"} /\ rf'.pc \in {"out", "top", "delay"}
        /\ pictq' = pictq
        /\ rf.pc = "time" => ~rf.again
    BY <1>0, <1>4 DEF RefreshLeave, RefreshNotYet, RefreshEmpty, SwitchToNextClip, Refreshers
  <2>2. is.force_refresh => is'.force_refresh \/ rf.pc = "empty"
    <3>1. RefreshNext => rf.pc = "next"
      BY DEF RefreshNext
    <3>2. RefreshEmpty => rf.pc = "empty"
      BY DEF RefreshEmpty
    <3> QED
      BY <1>0, <2>1, <3>1, <3>2, FlagSteps
  <2>3. FirstNew' = FirstNew
    BY <1>0, <2>1 DEF FirstNew, Looking, Display, LookedAt
  <2>4. LookedAt' /\ AboutToShow'
    BY <2>1 DEF LookedAt, AboutToShow, Looking
  <2>5. UNCHANGED videoq /\ (Latest' <=> Latest)
    BY <1>0, RefreshSteady
  <2>6. Waiting' /\ RestIsNew' /\ (Latest => Awaited' = Awaited)
    BY <1>0, <1>1, <1>2, <2>3, RefreshRest
  <2>7. InLine'
    BY <1>1, <2>1, <2>2, <2>3, <2>5, <2>6 DEF Display, InLine
  <2> QED
    BY <2>4, <2>6, <2>7 DEF Display
<1> QED
  BY <1>3, <1>4

LEMMA DisplayLook ==
  ASSUME TInv, SInv, SeekOrder, Behind, Flow, Display, RefreshLook
  PROVE  Display'
<1>0. /\ Refresh /\ rf \in Refreshers /\ pictq \in PictureQueues
      /\ pictq.shown \in {0, 1} /\ pictq.shown <= pictq.size /\ pictq.size \in Nat
      /\ rf.pc = "look" /\ UNCHANGED <<is, shown>> /\ Peek(pictq) = SlotAt(pictq.shown)
  BY PictureSerials, Places DEF Refresh, TInv, TypeOK, RefreshLook
<1>1. UNCHANGED videoq /\ (Latest' <=> Latest)
  BY <1>0, RefreshSteady
<1>2. CASE Remaining(pictq) = 0
  <2>1. rf' = [rf EXCEPT !.pc = "empty"] /\ pictq' = pictq /\ pictq.shown = pictq.size
    BY <1>0, <1>2 DEF RefreshLook, Remaining
  <2>2. rf'.pc = "empty" /\ rf'.again = rf.again /\ rf'.last = rf.last
    BY <1>0, <2>1 DEF Refreshers
  <2>3. FirstNew' = FirstNew /\ \A i \in 0..(pictq.size - 1) : SlotAt(i)' = SlotAt(i)
    BY <1>0, <2>1, <2>2 DEF FirstNew, Looking, SlotAt
  <2>4. Waiting' /\ RestIsNew' /\ (Latest => Awaited' = Awaited)
    BY <1>0, <2>1, <2>3, RefreshRest
  <2>5. rf.again => is.force_refresh /\ pictq.size >= 1
    BY <1>0 DEF Display, LookedAt, Looking
  <2>6. rf.again => pictq.shown # 0 /\ pictq.size = 1
    BY <1>0, <2>1, <2>5
  <2>7. LookedAt'
    BY <1>0, <2>1, <2>2, <2>5, <2>6 DEF LookedAt
  <2>8. AboutToShow'
    BY <2>2 DEF AboutToShow
  <2>9. ~(pictq.size > FirstNew)
    <3>1. CASE rf.again
      BY <1>0, <2>6, <3>1 DEF FirstNew, Looking
    <3>2. CASE ~rf.again
      BY <1>0, <2>1, <3>2 DEF FirstNew
    <3> QED
      BY <3>1, <3>2
  <2>10. InLine'
    BY <1>0, <1>1, <2>2, <2>4, <2>9 DEF Display, InLine
  <2> QED
    BY <2>4, <2>7, <2>8, <2>10 DEF Display
<1>3. CASE Remaining(pictq) # 0 /\ Peek(pictq).serial # videoq.serial
  <2>1. pictq' = Next_(pictq) /\ rf' = [rf EXCEPT !.again = FALSE] /\ pictq.shown < pictq.size
    BY <1>0, <1>3 DEF RefreshLook, Remaining
  <2>2. rf'.pc = "look" /\ ~rf'.again /\ rf'.last = rf.last
    BY <1>0, <2>1 DEF Refreshers
  <2>3. LookedAt' /\ AboutToShow'
    BY <2>2 DEF LookedAt, AboutToShow
  <2>4. Waiting'
    BY <1>0, <2>1, WaitingNext DEF Display
  <2>5. CASE rf.again /\ pictq.shown = 0
    <3>1. /\ pictq'.shown = 1 /\ pictq'.size = pictq.size
          /\ \A i \in 0..(pictq.size - 1) : SlotAt(i)' = SlotAt(i)
      BY <2>1, <2>5, NextPlaces
    <3>2. FirstNew' = FirstNew
      BY <1>0, <2>2, <2>5, <3>1 DEF FirstNew, Looking
    <3>3. RestIsNew' /\ (Latest => Awaited' = Awaited)
      BY <1>0, <3>1, <3>2, RefreshRest
    <3>4. InLine'
      BY <1>0, <1>1, <2>2, <3>1, <3>2, <3>3 DEF Display, InLine
    <3> QED
      BY <2>3, <2>4, <3>3, <3>4 DEF Display
  <2>6. CASE ~(rf.again /\ pictq.shown = 0)
    <3>1. FirstNew = pictq.shown
      BY <1>0, <2>6 DEF FirstNew
    <3>2. pictq.shown \in 0..(pictq.size - 1) /\ FirstNew <= pictq.shown
      BY <1>0, <2>1, <3>1
    <3>3. ~(Latest /\ shown.serial = videoq.serial)
      BY <1>0, <1>3, <3>2 DEF Display, RestIsNew
    <3>4. RestIsNew' /\ InLine'
      BY <1>0, <1>1, <3>3 DEF RestIsNew, InLine
    <3> QED
      BY <2>3, <2>4, <3>4 DEF Display
  <2> QED
    BY <2>5, <2>6
<1>4. CASE Remaining(pictq) # 0 /\ Peek(pictq).serial = videoq.serial
  <2>1. /\ pictq' = pictq
        /\ rf' = [rf EXCEPT !.pc = "time", !.ending = is.doneVideo \/ EndTime <= Peek(pictq).n]
    BY <1>4 DEF RefreshLook
  <2>2. rf'.pc = "time" /\ rf'.again = rf.again /\ rf'.last = rf.last
    BY <1>0, <2>1 DEF Refreshers
  <2>3. FirstNew' = FirstNew /\ \A i : SlotAt(i)' = SlotAt(i)
    BY <1>0, <2>1, <2>2 DEF FirstNew, Looking, SlotAt
  <2>4. Waiting' /\ RestIsNew' /\ (Latest => Awaited' = Awaited)
    BY <1>0, <2>1, <2>3, RefreshRest
  <2>5. LookedAt'
    BY <1>0, <2>1, <2>2 DEF Display, LookedAt, Looking
  <2>6. AboutToShow'
    <3>1. shown.serial <= videoq.serial
      BY PictureSerials DEF Behind, SInv, Sorted
    <3>2. SlotAt(pictq.shown)' = SlotAt(pictq.shown) /\ SlotAt(0)' = SlotAt(0)
      BY <2>1 DEF SlotAt
    <3> QED
      BY <1>0, <1>1, <1>4, <2>1, <2>2, <3>1, <3>2 DEF Display, AboutToShow
  <2>7. InLine'
    BY <1>0, <1>1, <2>1, <2>2, <2>3, <2>4 DEF Display, InLine
  <2> QED
    BY <2>4, <2>5, <2>6, <2>7 DEF Display
<1> QED
  BY <1>2, <1>3, <1>4

LEMMA DisplayEarly ==
  ASSUME TInv, SInv, SeekOrder, Behind, Flow, Display, RefreshEarly
  PROVE  Display'
<1>0. /\ Refresh /\ rf \in Refreshers /\ FromHand \in Int
      /\ pictq.shown \in {0, 1} /\ pictq.shown < pictq.size /\ pictq.size \in Nat
      /\ rf.pc = "time" /\ ~rf.again /\ UNCHANGED <<is, pictq>>
      /\ shown' = [serial |-> SlotAt(pictq.shown).serial, n |-> SlotAt(pictq.shown).n]
      /\ rf' = [rf EXCEPT !.pc = "look"]
  BY PictureSerials, Places, FlowTypes DEF Refresh, TInv, TypeOK, Counts, RefreshEarly, Show
<1>1. /\ UNCHANGED videoq /\ (Latest' <=> Latest) /\ (Latest => FromHand' = FromHand)
  BY <1>0, RefreshSteady
<1>2. /\ rf'.pc = "look" /\ ~rf'.again
      /\ shown'.serial = SlotAt(pictq.shown).serial /\ shown'.n = SlotAt(pictq.shown).n
  BY <1>0 DEF Refreshers
<1>3. /\ FirstNew' = pictq.shown /\ pictq.shown \in 0..(pictq.size - 1)
      /\ \A i \in 0..(pictq.size - 1) : SlotAt(i)' = SlotAt(i)
  BY <1>0, <1>2 DEF FirstNew, SlotAt
<1>4. Waiting'
  BY <1>0, <1>1, <1>3 DEF Display, Waiting
<1>5. LookedAt' /\ AboutToShow'
  BY <1>2 DEF LookedAt, AboutToShow
<1>6. RestIsNew'
  <2> SUFFICES ASSUME SlotAt(pictq.shown).serial = videoq.serial,
                      NEW i \in 0..(pictq.size - 1), pictq.shown <= i
               PROVE  SlotAt(i).serial = videoq.serial
    BY <1>0, <1>1, <1>2, <1>3 DEF RestIsNew
  <2> QED
    BY <1>3, Ascending
<1>7. InLine'
  <2> SUFFICES ASSUME Latest, SlotAt(pictq.shown).serial = videoq.serial
               PROVE  shown'.n = Awaited'
    BY <1>1, <1>2 DEF InLine
  <2>1. shown'.n = FromHand - (pictq.size - pictq.shown)
    BY <1>2, <1>3 DEF Display, Waiting
  <2> QED
    BY <1>0, <1>1, <1>3, <2>1 DEF Awaited
<1> QED
  BY <1>4, <1>5, <1>6, <1>7 DEF Display

LEMMA DisplayLate ==
  ASSUME TInv, SeekOrder, Flow, Display, RefreshLate
  PROVE  Display'
<1>0. /\ Refresh /\ rf \in Refreshers /\ FromHand \in Int
      /\ pictq.shown \in {0, 1} /\ pictq.size \in Nat /\ pictq.size - pictq.shown > 1
      /\ rf.pc = "time" /\ rf.again /\ UNCHANGED <<is, shown>>
      /\ pictq' = Next_(pictq) /\ rf' = [rf EXCEPT !.pc = "look", !.again = FALSE]
  BY PictureSerials, FlowTypes DEF Refresh, TInv, TypeOK, RefreshLate, Remaining
<1>1. /\ UNCHANGED videoq /\ (Latest' <=> Latest) /\ (Latest => FromHand' = FromHand)
  BY <1>0, RefreshSteady
<1>2. rf'.pc = "look" /\ ~rf'.again /\ rf'.last = rf.last
  BY <1>0 DEF Refreshers
<1>3. /\ pictq.shown < pictq.size /\ 0 \in 0..(pictq.size - 1) /\ FirstNew = 1
  BY <1>0 DEF FirstNew, Looking
<1>4. LookedAt' /\ AboutToShow'
  BY <1>2 DEF LookedAt, AboutToShow
<1>5. Waiting'
  BY <1>0, <1>3, WaitingNext DEF Display
<1>6. /\ FirstNew' = 1 /\ is.force_refresh
  BY <1>0, <1>2, <1>3, NextShift DEF FirstNew, Looking, Display, LookedAt
<1>7. CASE pictq.shown = 0
  <2>1. /\ pictq'.size = pictq.size
        /\ \A i \in 0..(pictq.size - 1) : SlotAt(i)' = SlotAt(i)
    BY <1>0, <1>3, <1>7, NextPlaces
  <2>2. RestIsNew' /\ (Latest => Awaited' = Awaited)
    BY <1>0, <1>3, <1>6, <2>1, RefreshRest
  <2>3. InLine'
    BY <1>0, <1>1, <1>2, <1>3, <1>6, <2>1, <2>2 DEF Display, InLine
  <2> QED
    BY <1>4, <1>5, <2>2, <2>3 DEF Display
<1>8. CASE pictq.shown = 1
  <2>1. /\ pictq'.size = pictq.size - 1
        /\ \A i \in 0..(pictq'.size - 1) : /\ i + 1 \in 0..(pictq.size - 1)
                                           /\ SlotAt(i)' = SlotAt(i + 1)
    BY <1>0, <1>3, <1>8, NextShift
  <2>2. RestIsNew'
    <3> SUFFICES ASSUME Latest, shown.serial = videoq.serial,
                        NEW i \in 0..(pictq'.size - 1), 1 <= i
                 PROVE  SlotAt(i)'.serial = videoq.serial
      BY <1>0, <1>1, <1>6 DEF RestIsNew
    <3>1. i + 1 \in 0..(pictq.size - 1) /\ SlotAt(i)' = SlotAt(i + 1) /\ 1 <= i + 1
      BY <2>1
    <3> QED
      BY <1>3, <3>1 DEF Display, RestIsNew
  <2>3. InLine'
    <3> SUFFICES ASSUME Latest, shown.serial = videoq.serial
                 PROVE  rf'.last < Awaited' /\ pictq'.size > 1
      BY <1>0, <1>1, <1>2, <1>6 DEF InLine
    <3>1. rf.last = SlotAt(0).n /\ SlotAt(0).serial = videoq.serial
      BY <1>0, <1>8, PictureSerials DEF Display, AboutToShow
    <3>2. rf.last = FromHand - (pictq.size - 0)
      BY <1>3, <3>1 DEF Display, Waiting
    <3>3. Awaited' = FromHand - ((pictq.size - 1) - 1)
      BY <1>1, <1>6, <2>1 DEF Awaited
    <3> QED
      BY <1>0, <1>2, <1>8, <2>1, <3>2, <3>3
  <2> QED
    BY <1>4, <1>5, <2>2, <2>3 DEF Display
<1> QED
  BY <1>0, <1>7, <1>8

LEMMA DisplayShow ==
  ASSUME TInv, SInv, SeekOrder, Behind, Flow, Display, RefreshShow
  PROVE  Display'
<1> DEFINE p == SlotAt(pictq.shown)
<1>0. /\ Refresh /\ rf \in Refreshers /\ FromHand \in Int /\ rf.last \in Nat
      /\ pictq.shown \in {0, 1} /\ pictq.shown < pictq.size /\ pictq.size \in Nat
      /\ rf.pc = "time" /\ UNCHANGED is /\ p.n \in Nat /\ p.n \in Pictures
      /\ pictq.shown \in 0..(pictq.size - 1) /\ 0 \in 0..(pictq.size - 1)
      /\ Peek(pictq) = p
  <2>1. /\ Refresh /\ rf \in Refreshers /\ FromHand \in Int /\ rf.last \in Nat
        /\ pictq.shown \in {0, 1} /\ pictq.shown < pictq.size /\ pictq.size \in Nat
        /\ rf.pc = "time" /\ UNCHANGED is /\ p.n \in Nat /\ Peek(pictq) = p
    BY PictureSerials, Places, FlowTypes DEF Refresh, TInv, TypeOK, Counts, RefreshShow
  <2>2. p.n \in Pictures
    BY <2>1, PeekType DEF TInv, TypeOK
  <2> QED
    BY <2>1, <2>2
<1>1. /\ UNCHANGED videoq /\ (Latest' <=> Latest) /\ (Latest => FromHand' = FromHand)
  BY <1>0, RefreshSteady
<1>2. Latest /\ p.serial = videoq.serial => p.n = FromHand - (pictq.size - pictq.shown)
  BY <1>0 DEF Display, Waiting
<1>3. CASE /\ Show(p.n) /\ rf' = [rf EXCEPT !.pc = "next", !.last = p.n]
           /\ UNCHANGED <<pictq, dec>>
  <2>1. /\ rf'.pc = "next" /\ rf'.last = p.n /\ rf'.again = rf.again
        /\ shown' = [serial |-> p.serial, n |-> p.n] /\ pictq' = pictq
    BY <1>0, <1>3 DEF Refreshers, Show
  <2>2. /\ FirstNew' = FirstNew /\ FirstNew \in Nat /\ pictq.shown <= FirstNew
        /\ \A i : SlotAt(i)' = SlotAt(i)
    BY <1>0, <2>1 DEF FirstNew, Looking, SlotAt
  <2>3. Waiting'
    BY <1>1, <2>1, <2>2 DEF Display, Waiting
  <2>4. LookedAt'
    BY <1>0, <2>1 DEF Display, LookedAt, Looking
  <2>5. AboutToShow'
    <3>1. SlotAt(pictq.shown)' = p
      BY <2>1 DEF SlotAt
    <3> QED
      BY <2>1, <3>1 DEF AboutToShow
  <2>6. RestIsNew'
    <3> SUFFICES ASSUME p.serial = videoq.serial, NEW i \in 0..(pictq.size - 1), FirstNew <= i
                 PROVE  SlotAt(i).serial = videoq.serial
      BY <1>1, <2>1, <2>2 DEF RestIsNew
    <3>1. pictq.shown <= i
      BY <1>0, <2>2
    <3> QED
      BY <1>0, <3>1, Ascending
  <2>7. InLine'
    BY <2>1 DEF InLine
  <2> QED
    BY <2>3, <2>4, <2>5, <2>6, <2>7 DEF Display
<1>4. CASE /\ p.n <= LastShown(p.n) /\ pictq' = Next_(pictq) /\ UNCHANGED shown
           /\ rf' = [rf EXCEPT !.last = LastShown(p.n),
                       !.pc = IF Remaining(Next_(pictq)) = 0 THEN "empty" ELSE "look"]
  <2>1. /\ rf'.pc = (IF Remaining(pictq') = 0 THEN "empty" ELSE "look")
        /\ rf'.last = LastShown(p.n) /\ rf'.again = rf.again
    BY <1>0, <1>4 DEF Refreshers
  <2>2. rf'.last = p.n /\ p.n <= rf.last
    BY <1>0, <1>4, <2>1 DEF LastShown
  <2>3. /\ pictq'.shown = 1 /\ pictq'.size = pictq.size - pictq.shown
        /\ pictq'.size \in Nat /\ pictq'.size >= 1 /\ 0 \in 0..(pictq'.size - 1)
        /\ \A i \in 0..(pictq'.size - 1) : /\ i + pictq.shown \in 0..(pictq.size - 1)
                                           /\ SlotAt(i)' = SlotAt(i + pictq.shown)
    BY <1>0, <1>4, NextShift
  <2>4. FirstNew' = 1
    BY <2>3 DEF FirstNew
  <2>5. Waiting'
    BY <1>0, <1>4, WaitingNext DEF Display
  <2>6. LookedAt'
    BY <1>0, <2>1, <2>3 DEF Display, LookedAt, Looking
  <2>7. AboutToShow'
    <3>1. SlotAt(0)' = p
      <4>1. SlotAt(0)' = SlotAt(0 + pictq.shown)
        BY <2>3
      <4>2. 0 + pictq.shown = pictq.shown
        BY <1>0
      <4> QED
        BY <4>1, <4>2
    <3>2. p.serial = videoq.serial \/ shown.serial < videoq.serial
      BY <1>0 DEF Display, AboutToShow
    <3>3. rf'.pc \notin {"time", "next"}
      BY <2>1
    <3> QED
      BY <1>1, <1>4, <2>2, <3>1, <3>2, <3>3 DEF AboutToShow
  <2>8. RestIsNew'
    <3> SUFFICES ASSUME Latest, shown.serial = videoq.serial,
                        NEW i \in 0..(pictq'.size - 1), 1 <= i
                 PROVE  SlotAt(i)'.serial = videoq.serial
      BY <1>1, <1>4, <2>4 DEF RestIsNew
    <3>1. i + pictq.shown \in 0..(pictq.size - 1) /\ SlotAt(i)' = SlotAt(i + pictq.shown)
      BY <2>3
    <3>2. FirstNew <= i + pictq.shown
      BY <1>0 DEF FirstNew
    <3> QED
      BY <3>1, <3>2 DEF Display, RestIsNew
  <2>9. InLine'
    <3> SUFFICES ASSUME Latest, shown.serial = videoq.serial
                 PROVE  \/ shown.n = Awaited'
                        \/ /\ rf'.last < Awaited'
                           /\ \/ shown.n = Awaited' - 1
                              \/ is.force_refresh /\ rf'.pc # "empty" /\ pictq'.size > 1
      BY <1>0, <1>1, <1>4, <2>4 DEF InLine
    <3>0. shown.n \in Nat /\ Awaited \in Int
      BY <1>0, PictureSerials DEF Awaited, FirstNew
    <3>1. p.serial = videoq.serial
      BY <1>0, PictureSerials DEF Display, AboutToShow
    <3>2. p.n = FromHand - (pictq.size - pictq.shown)
      BY <1>2, <3>1
    <3>3. Awaited' = FromHand - ((pictq.size - pictq.shown) - 1)
      BY <1>1, <2>3, <2>4 DEF Awaited
    <3>4. \/ shown.n = Awaited
          \/ /\ rf.last < Awaited
             /\ \/ shown.n = Awaited - 1
                \/ is.force_refresh /\ pictq.size > FirstNew
      BY <1>0 DEF Display, InLine
    <3>5. CASE rf.again /\ pictq.shown = 0
      <4>1. FirstNew = 1 /\ Awaited = FromHand - (pictq.size - 1)
        BY <1>0, <3>5 DEF FirstNew, Looking, Awaited
      <4>2. Awaited' = Awaited /\ p.n = Awaited - 1
        BY <1>0, <3>2, <3>3, <3>5, <4>1
      <4>3. rf'.last < Awaited'
        BY <1>0, <2>2, <3>0, <4>2
      <4>4. pictq.size > 1 => rf'.pc # "empty" /\ pictq'.size > 1
        BY <1>0, <2>1, <2>3, <3>5 DEF Remaining
      <4> QED
        BY <3>4, <4>1, <4>2, <4>3, <4>4
    <3>6. CASE rf.again /\ pictq.shown = 1
      <4>1. rf.last = SlotAt(0).n /\ SlotAt(0).serial = videoq.serial
        BY <1>0, <3>6, PictureSerials DEF Display, AboutToShow
      <4>2. rf.last = FromHand - (pictq.size - 0)
        BY <1>0, <4>1 DEF Display, Waiting
      <4> QED
        BY <1>0, <2>2, <3>2, <3>6, <4>2
    <3>7. CASE ~rf.again
      <4>1. Awaited = p.n
        BY <3>2, <3>7 DEF Awaited, FirstNew
      <4>2. Awaited' = Awaited + 1
        BY <1>0, <3>2, <3>3, <4>1
      <4>3. shown.n = Awaited
        BY <1>0, <2>2, <3>4, <4>1
      <4> QED
        BY <1>0, <2>2, <3>0, <4>1, <4>2, <4>3
    <3> QED
      BY <1>0, <3>5, <3>6, <3>7
  <2> QED
    BY <2>5, <2>6, <2>7, <2>8, <2>9 DEF Display
<1> QED
  BY <1>0, <1>3, <1>4 DEF RefreshShow

LEMMA DisplayNext ==
  ASSUME TInv, SInv, SeekOrder, Behind, Flow, Display, RefreshNext
  PROVE  Display'
<1> DEFINE p == SlotAt(pictq.shown)
<1>0. /\ Refresh /\ rf \in Refreshers /\ FromHand \in Int
      /\ pictq.shown \in {0, 1} /\ pictq.shown < pictq.size /\ pictq.size \in Nat
      /\ rf.pc = "next" /\ shown' = shown /\ pictq' = Next_(pictq)
      /\ pictq.shown \in 0..(pictq.size - 1)
  BY PictureSerials, FlowTypes DEF Refresh, TInv, TypeOK, Counts, RefreshNext
<1>1. /\ UNCHANGED videoq /\ (Latest' <=> Latest) /\ (Latest => FromHand' = FromHand)
  BY <1>0, RefreshSteady
<1>2. rf'.pc \in {"delay", "top"} /\ rf'.last = rf.last
  BY <1>0 DEF RefreshNext, Refreshers
<1>3. shown.serial = p.serial /\ shown.n = p.n /\ rf.last = shown.n
  BY <1>0 DEF Display, AboutToShow
<1>4. /\ pictq'.shown = 1 /\ pictq'.size = pictq.size - pictq.shown
      /\ \A i \in 0..(pictq'.size - 1) : /\ i + pictq.shown \in 0..(pictq.size - 1)
                                         /\ SlotAt(i)' = SlotAt(i + pictq.shown)
  BY <1>0, NextShift
<1>5. FirstNew' = 1
  BY <1>4 DEF FirstNew
<1>6. Waiting'
  BY <1>0, WaitingNext DEF Display
<1>7. LookedAt' /\ AboutToShow'
  BY <1>2 DEF LookedAt, AboutToShow, Looking
<1>8. RestIsNew'
  <2> SUFFICES ASSUME shown.serial = videoq.serial, NEW i \in 0..(pictq'.size - 1), 1 <= i
               PROVE  SlotAt(i)'.serial = videoq.serial
    BY <1>0, <1>1, <1>5 DEF RestIsNew
  <2>1. i + pictq.shown \in 0..(pictq.size - 1) /\ SlotAt(i)' = SlotAt(i + pictq.shown)
    BY <1>4
  <2>2. pictq.shown <= i + pictq.shown
    BY <1>0
  <2> QED
    BY <1>0, <1>3, <2>1, <2>2, Ascending
<1>9. InLine'
  <2> SUFFICES ASSUME Latest, shown.serial = videoq.serial
               PROVE  rf.last < Awaited' /\ shown.n = Awaited' - 1
    BY <1>0, <1>1, <1>2 DEF InLine
  <2>1. shown.n = FromHand - (pictq.size - pictq.shown)
    BY <1>0, <1>3 DEF Display, Waiting
  <2>2. Awaited' = FromHand - ((pictq.size - pictq.shown) - 1)
    BY <1>1, <1>4, <1>5 DEF Awaited
  <2>3. shown.n = Awaited' - 1 /\ shown.n < Awaited'
    BY <1>0, <2>1, <2>2
  <2> QED
    BY <1>3, <2>3
<1> QED
  BY <1>6, <1>7, <1>8, <1>9 DEF Display

\* Every step keeps the screen in order with what waits behind it.
LEMMA DisplayStep ==
  ASSUME TInv, SInv, EInv, Ring, SeekOrder, Behind, Flow, Searching, Display, [Next]_vars
  PROVE  Display'
<1>1. CASE Refresh
  BY <1>1, DisplayTurn, DisplayLook, DisplayEarly, DisplayLate, DisplayShow, DisplayNext
     DEF Refresh
<1> QED
  BY <1>1, DisplayOthers, DisplayVideo DEF Next

\* What a step may do to the screen.
InOrder ==
  \/ shown' = shown
  \/ shown'.serial > shown.serial
  \/ shown'.serial = shown.serial /\ (Seeking \/ shown'.n = shown.n + 1)

LEMMA ShownStep ==
  ASSUME TInv, SInv, SeekOrder, Behind, Display, [Next]_vars
  PROVE  InOrder
<1> DEFINE p == SlotAt(pictq.shown)
<1>1. \/ shown' = shown
      \/ rf.pc = "time" /\ shown' = [serial |-> p.serial, n |-> p.n]
  <2>1. CASE RefreshEarly \/ RefreshShow
    BY <2>1, Places DEF RefreshEarly, RefreshShow, Show
  <2>2. CASE Refresh /\ ~RefreshEarly /\ ~RefreshShow
    BY <2>2 DEF Refresh, RefreshTop, RefreshLeave, RefreshLook, RefreshNotYet, RefreshLate,
                RefreshNext, RefreshEmpty, SwitchToNextClip
  <2>3. CASE Reader
    BY <2>3 DEF Reader, ReaderSeek, ReaderFlush, ReaderPutFlush, ReaderClear, ReaderSettle,
                ReaderFull, ReaderComplete, ReaderPacket, ReaderEof, ReaderExit
  <2>4. CASE VideoThread
    BY <2>4 DEF VideoThread, ReceivePicture, ReceiveEof, ReceiveNothing, FetchPacket,
       GetPacket, StartBuffering, BlockForPacket, CheckPacket, SendPacket, QueuePicture,
       WaitForSlot, FillSlot, PushPicture
  <2>5. CASE Control \/ Close \/ UNCHANGED vars
    BY <2>5 DEF Control, SeekPlace, SeekRaise, StartOrPause, Close, CloseBegin, CloseAbort,
                CloseJoinReader, CloseDestroy, vars
  <2> QED
    BY <2>1, <2>2, <2>3, <2>4, <2>5 DEF Next
<1>2. CASE rf.pc = "time" /\ shown' = [serial |-> p.serial, n |-> p.n]
  <2>0. /\ p.serial \in Nat /\ p.n \in Nat /\ shown.serial \in Nat /\ shown.n \in Nat
        /\ videoq.serial \in Nat /\ ui.seeks \in Nat /\ pictq.shown \in Nat
        /\ pictq.size \in Nat /\ pictq.shown < pictq.size
        /\ pictq.shown \in 0..(pictq.size - 1)
    BY <1>2, PictureSerials DEF TInv, Counts
  <2>1. shown.serial <= p.serial
    BY <1>2 DEF Display, AboutToShow
  <2>2. CASE shown.serial # p.serial
    <3>1. p.serial > shown.serial
      BY <2>0, <2>1, <2>2
    <3> QED
      BY <1>2, <3>1 DEF InOrder
  <2>3. CASE shown.serial = p.serial /\ Seeking
    BY <1>2, <2>3 DEF InOrder
  <2>4. CASE shown.serial = p.serial /\ ~Seeking
    <3>1. shown.serial = ui.seeks + 1 /\ ~is.force_refresh
      BY <2>4 DEF Seeking
    <3>2. videoq.serial <= ui.seeks + 1
      BY DEF SeekOrder
    <3>3. p.serial = videoq.serial
      BY <1>2, <2>0, <3>1, <3>2 DEF Display, AboutToShow
    <3>4. Latest /\ shown.serial = videoq.serial
      BY <1>2, <2>4, <3>1, <3>3 DEF Latest, SeekOrder
    <3>5. FirstNew = pictq.shown
      BY <1>2, <3>1 DEF FirstNew, Looking, Display, LookedAt
    <3>6. p.n = Awaited
      BY <2>0, <3>3, <3>4, <3>5 DEF Display, Waiting, Awaited
    <3>7. shown.n = Awaited \/ shown.n = Awaited - 1
      BY <1>2, <3>1, <3>4 DEF Display, InLine
    <3>8. CASE shown.n = p.n
      <4>1. shown = [serial |-> shown.serial, n |-> shown.n]
        BY DEF TInv, TypeOK
      <4> QED
        BY <1>2, <2>4, <3>8, <4>1 DEF InOrder
    <3>9. CASE shown.n = p.n - 1
      <4>1. p.n = shown.n + 1
        BY <2>0, <3>9
      <4> QED
        BY <1>2, <2>4, <4>1 DEF InOrder
    <3> QED
      BY <3>6, <3>7, <3>8, <3>9
  <2> QED
    BY <2>2, <2>3, <2>4
<1>3. CASE shown' = shown
  BY <1>3 DEF InOrder
<1> QED
  BY <1>1, <1>2, <1>3

\* Between two seeks the pictures follow each other on the screen, none left out or
\* shown before its turn, and after a seek none of before it comes back: the read
\* thread seeks and flushes (read_thread), the video thread drops what is of an old
\* serial (queue_picture2), and the refresh thread passes over what it has shown,
\* looks at the last picture again and shows one ahead of its time (refresh_not_444).
THEOREM OrderCorrect == Spec => ShownInOrder
<1> DEFINE OInv == /\ TInv /\ SInv /\ EInv /\ Ring
                   /\ SeekOrder /\ Behind /\ Flow /\ Searching /\ Display
<1>1. Init => OInv
  BY TypeInit, SerialInit, EndInit, RingInit, OrderInit
<1>2. OInv /\ [Next]_vars => OInv'
  <2> SUFFICES ASSUME OInv, [Next]_vars PROVE OInv'
    OBVIOUS
  <2>1. TInv' /\ SInv' /\ EInv' /\ Ring'
    BY TypeStep, SerialStep, EndStep, RingStep
  <2>2. SeekOrder' /\ Behind' /\ Flow' /\ Searching' /\ Display'
    BY SeekStep, BehindStep, FlowStep, SearchStep, DisplayStep
  <2> QED
    BY <2>1, <2>2
<1>3. OInv /\ [Next]_vars => InOrder
  BY ShownStep
<1>4. ShownInOrder <=> [][InOrder]_vars
  BY DEF ShownInOrder, InOrder
<1> HIDE DEF OInv
<1> QED
  BY <1>1, <1>2, <1>3, <1>4, PTL DEF Spec
=============================================================================
