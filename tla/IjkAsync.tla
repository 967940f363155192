----------------------------- MODULE IjkAsync ------------------------------
(***************************************************************************)
(* The async: protocol of ijkasync.c over the HTTP hook.  A background     *)
(* thread reads ahead into a ring buffer; the main thread (the demuxer)    *)
(* reads from the ring and keeps some bytes behind its position for short  *)
(* seeks back.  A seek out of the ring is handed to the background thread. *)
(*                                                                         *)
(* The mutex is held from a wake-up to the next wait, so such a section is *)
(* one step; the hook's seek is made under the mutex (bg.at = "seeking"),  *)
(* the hook's read is not (bg.at = "filling").  A condition wait has no    *)
(* timeout; there are no spurious wake-ups.  Variables whose value nothing  *)
(* reads any more are reset, which keeps the number of states small.       *)
(***************************************************************************)
EXTENDS UrlHook, Sequences

CONSTANTS Forwards,     \* forwards_capacity
          Backwards,    \* backwards_capacity, read_back_capacity of the ring
          Chunk,        \* the 4096 bytes of one turn of the background thread
          ShortSeek,    \* SHORT_SEEK_THRESHOLD
          MaxRead       \* bound: bytes asked for in one read

ASSUME CapacityAssumption ==
    /\ Forwards \in Nat \ {0} /\ Backwards \in Nat /\ Chunk \in Nat \ {0} /\ ShortSeek \in Nat
    /\ MaxRead \in Nat \ {0}

VARIABLES ring,         \* the fifo: the bytes it holds, those already read first
          readPos,      \* ring.read_pos
          c,            \* the rest of the Context
          main,         \* the thread of the demuxer
          bg            \* async_buffer_task

vars == <<hook, faults, interrupted, ring, readPos, c, main, bg>>

Least(a, b) == IF a < b THEN a ELSE b

RingSize == Len(ring) - readPos
RingSpace == Forwards + Backwards - Len(ring)

Contexts == [seekRequest : BOOLEAN, seekPos : Positions, seekDone : BOOLEAN,
             seekRet : Positions \cup Errors,
             err : Errors \cup {0}, eof : BOOLEAN, pos : Positions]

Mains == [at : {"new", "opening", "idle", "read", "readwait", "seek", "seekwait", "joining", "closed"},
          want : Nat, got : Nat, complete : BOOLEAN, ret : Int, data : Seq(0 .. FileSize - 1)]

Tasks == [at : {"none", "top", "asleep", "filling", "seeking", "relock", "gone"},
          left : Nat, got : Nat]

TypeOK ==
    /\ HookType
    /\ ring \in Seq(0 .. FileSize - 1) /\ Len(ring) <= Forwards + Backwards
    /\ readPos \in 0 .. Backwards /\ readPos <= Len(ring)
    /\ c \in Contexts /\ main \in Mains /\ bg \in Tasks

Init ==
    /\ HookInit
    /\ ring = <<>> /\ readPos = 0
    /\ c = [seekRequest |-> FALSE, seekPos |-> 0, seekDone |-> FALSE, seekRet |-> 0,
            err |-> 0, eof |-> FALSE, pos |-> 0]
    /\ main = [at |-> "new", want |-> 0, got |-> 0, complete |-> FALSE, ret |-> 0, data |-> <<>>]
    /\ bg = [at |-> "none", left |-> 0, got |-> 0]

\* async_check_interrupt: abort_request, or the player's callback, whose answer
\* is kept.  The inner protocols ask it too, so it is one flag with theirs.
Aborting == interrupted

\* pthread_cond_signal of cond_wakeup_background and of cond_wakeup_main
WakeBackground == IF bg.at = "asleep" THEN [bg EXCEPT !.at = "top"] ELSE bg
WakeMain == CASE main.at = "readwait" -> [main EXCEPT !.at = "read"]
              [] main.at = "seekwait" -> [main EXCEPT !.at = "seek"]
              [] OTHER -> main

-----------------------------------------------------------------------------
(* Opening and closing.                                                    *)

OpenCall ==
    /\ main.at = "new"
    /\ CallHookOpen
    /\ main' = [main EXCEPT !.at = "opening"]
    /\ UNCHANGED <<faults, interrupted, ring, readPos, c, bg>>

\* The inner protocol is open and the background thread is created, or not.
OpenReturns ==
    /\ main.at = "opening" /\ hook.call = "none"
    /\ IF hook.ret = 0
       THEN /\ main' = [main EXCEPT !.at = "idle"]
            /\ bg' = [bg EXCEPT !.at = "top"]
       ELSE /\ main' = [main EXCEPT !.at = "closed", !.ret = hook.ret]
            /\ UNCHANGED bg
    /\ UNCHANGED <<hook, faults, interrupted, ring, readPos, c>>

\* Faulty: the background thread is joined without being woken up.
CloseSilently ==
    /\ main.at = "idle" /\ bg.at # "seeking"
    /\ interrupted' = TRUE
    /\ main' = [main EXCEPT !.at = "joining"]
    /\ UNCHANGED <<hook, faults, ring, readPos, c, bg>>

CloseCall ==
    /\ main.at = "idle" /\ bg.at # "seeking"
    /\ interrupted' = TRUE
    /\ bg' = WakeBackground
    /\ main' = [main EXCEPT !.at = "joining"]
    /\ UNCHANGED <<hook, faults, ring, readPos, c>>

CloseReturns ==
    /\ main.at = "joining" /\ bg.at = "gone"
    /\ main' = [main EXCEPT !.at = "closed"]
    /\ UNCHANGED <<hook, faults, interrupted, ring, readPos, c, bg>>

-----------------------------------------------------------------------------
(* Reading: async_read_internal.                                           *)

ReadCall(n) ==
    /\ main.at = "idle"
    /\ main' = [main EXCEPT !.at = "read", !.want = n, !.got = 0, !.complete = FALSE, !.data = <<>>]
    /\ UNCHANGED <<hook, faults, interrupted, ring, readPos, c, bg>>

ReadReturns(r, data) ==
    main' = [main EXCEPT !.at = "idle", !.want = 0, !.got = 0, !.complete = FALSE, !.ret = r, !.data = data]

\* Faulty: the bytes behind the reader are not limited.
TakeBytesKeepAll(k) == readPos' = readPos + k /\ UNCHANGED ring

\* What is ring_generic_read of k bytes: they stay behind read_pos, as many as
\* the ring may keep there.
TakeBytes(k) ==
    LET behind == Least(readPos + k, Backwards) IN
    /\ ring' = SubSeq(ring, readPos + k - behind + 1, Len(ring))
    /\ readPos' = behind

ReadAborted ==
    /\ main.at = "read" /\ bg.at # "seeking"
    /\ Aborting
    /\ ReadReturns(IF main.complete THEN c.pos ELSE Exit, <<>>)
    /\ bg' = WakeBackground
    /\ UNCHANGED <<hook, faults, interrupted, ring, readPos, c>>

\* Some bytes are in the ring.  A forward seek (complete) waits for the rest.
ReadSome ==
    /\ main.at = "read" /\ bg.at # "seeking"
    /\ ~Aborting
    /\ RingSize > 0
    /\ LET k == Least(main.want - main.got, RingSize) IN
        /\ TakeBytes(k)
        /\ c' = [c EXCEPT !.pos = @ + k]
        /\ IF main.complete /\ main.got + k < main.want
           THEN main' = [main EXCEPT !.at = "readwait", !.got = @ + k]
           ELSE ReadReturns(IF main.complete THEN c.pos + k ELSE k,
                            IF main.complete THEN <<>> ELSE SubSeq(ring, readPos + 1, readPos + k))
    /\ bg' = WakeBackground
    /\ UNCHANGED <<hook, faults, interrupted>>

\* Faulty: an error is told as the end of the file.
ErrorAsEof ==
    /\ main.at = "read" /\ bg.at # "seeking"
    /\ ~Aborting
    /\ RingSize = 0 /\ c.eof
    /\ ReadReturns(IF main.complete THEN c.pos ELSE Eof, <<>>)
    /\ bg' = WakeBackground
    /\ UNCHANGED <<hook, faults, interrupted, ring, readPos, c>>

\* Nothing is left and nothing will come: the error, or the end of the file.
\* A forward seek returns its position, whether it got there or not.
ReadEof ==
    /\ main.at = "read" /\ bg.at # "seeking"
    /\ ~Aborting
    /\ RingSize = 0 /\ c.eof
    /\ ReadReturns(IF main.complete THEN c.pos ELSE IF c.err # 0 THEN c.err ELSE Eof, <<>>)
    /\ bg' = WakeBackground
    /\ UNCHANGED <<hook, faults, interrupted, ring, readPos, c>>

ReadWait ==
    /\ main.at = "read" /\ bg.at # "seeking"
    /\ ~Aborting
    /\ RingSize = 0 /\ ~c.eof
    /\ main' = [main EXCEPT !.at = "readwait"]
    /\ bg' = WakeBackground
    /\ UNCHANGED <<hook, faults, interrupted, ring, readPos, c>>

-----------------------------------------------------------------------------
(* Seeking: async_seek.  The sizes of the ring are read without the mutex. *)

InRing(p) == c.pos - readPos <= p /\ p < c.pos + RingSize + ShortSeek

\* Where the reader is already, or not in the file: no thread is involved.
SeekNowhere(p) ==
    /\ main.at = "idle"
    /\ p = c.pos \/ (~InRing(p) /\ p > FileSize)
    /\ main' = [main EXCEPT !.ret = IF p = c.pos THEN p ELSE Einval, !.data = <<>>]
    /\ UNCHANGED <<hook, faults, interrupted, ring, readPos, c, bg>>

SeekForward(p) ==
    /\ main.at = "idle"
    /\ p > c.pos /\ InRing(p)
    /\ main' = [main EXCEPT !.at = "read", !.want = p - c.pos, !.got = 0, !.complete = TRUE, !.data = <<>>]
    /\ UNCHANGED <<hook, faults, interrupted, ring, readPos, c, bg>>

\* Faulty: only the ring goes back.
DrainOnly(p) ==
    /\ main.at = "idle"
    /\ p < c.pos /\ InRing(p)
    /\ readPos' = readPos - (c.pos - p)
    /\ main' = [main EXCEPT !.ret = p, !.data = <<>>]
    /\ UNCHANGED <<hook, faults, interrupted, ring, c, bg>>

\* ring_drain by a negative number, without the mutex.
SeekBack(p) ==
    /\ main.at = "idle"
    /\ p < c.pos /\ InRing(p)
    /\ readPos' = readPos - (c.pos - p)
    /\ c' = [c EXCEPT !.pos = p]
    /\ main' = [main EXCEPT !.ret = p, !.data = <<>>]
    /\ UNCHANGED <<hook, faults, interrupted, ring, bg>>

SeekCall(p) ==
    /\ main.at = "idle" /\ bg.at # "seeking"
    /\ p # c.pos /\ ~InRing(p) /\ p <= FileSize
    /\ IF Aborting
       THEN /\ main' = [main EXCEPT !.ret = Exit, !.data = <<>>]
            /\ UNCHANGED bg
       ELSE /\ main' = [main EXCEPT !.at = "seekwait", !.data = <<>>]
            /\ bg' = WakeBackground
    /\ c' = [c EXCEPT !.seekRequest = TRUE, !.seekPos = p, !.seekDone = FALSE, !.seekRet = 0]
    /\ UNCHANGED <<hook, faults, interrupted, ring, readPos>>

-----------------------------------------------------------------------------
(* The background thread: async_buffer_task.                               *)

BgStops ==
    /\ bg.at = "top"
    /\ Aborting
    /\ c' = [c EXCEPT !.eof = TRUE, !.err = Exit]
    /\ main' = WakeMain
    /\ bg' = [bg EXCEPT !.at = "gone"]
    /\ UNCHANGED <<hook, faults, interrupted, ring, readPos>>

BgSeek ==
    /\ bg.at = "top"
    /\ ~Aborting
    /\ c.seekRequest
    /\ CallHookSeek(c.seekPos)
    /\ bg' = [bg EXCEPT !.at = "seeking"]
    /\ UNCHANGED <<faults, interrupted, ring, readPos, c, main>>

\* Faulty: what was read ahead before the seek stays in the ring.
SeekKeepsRing ==
    /\ bg.at = "seeking" /\ hook.call = "none"
    /\ c' = [c EXCEPT !.eof = hook.ret < 0, !.err = IF hook.ret < 0 THEN hook.ret ELSE 0,
                      !.seekDone = TRUE, !.seekRet = hook.ret, !.seekRequest = FALSE]
    /\ main' = WakeMain
    /\ bg' = [bg EXCEPT !.at = "top"]
    /\ UNCHANGED <<hook, faults, interrupted, ring, readPos>>

\* The answer is for a main thread that waits for it, and may have been aborted.
BgSeekReturns ==
    /\ bg.at = "seeking" /\ hook.call = "none"
    /\ c' = [c EXCEPT !.eof = hook.ret < 0, !.err = IF hook.ret < 0 THEN hook.ret ELSE 0,
                      !.seekDone = TRUE, !.seekRet = hook.ret, !.seekRequest = FALSE]
    /\ ring' = <<>> /\ readPos' = 0
    /\ main' = WakeMain
    /\ bg' = [bg EXCEPT !.at = "top"]
    /\ UNCHANGED <<hook, faults, interrupted>>

BgSleep ==
    /\ bg.at = "top"
    /\ ~Aborting /\ ~c.seekRequest
    /\ c.eof \/ RingSpace <= 0
    /\ main' = WakeMain
    /\ bg' = [bg EXCEPT !.at = "asleep"]
    /\ UNCHANGED <<hook, faults, interrupted, ring, readPos, c>>

\* It leaves the mutex and reads, the ring's space being what it was then.
BgFill ==
    /\ bg.at = "top"
    /\ ~Aborting /\ ~c.seekRequest
    /\ ~c.eof /\ RingSpace > 0
    /\ LET n == Least(Chunk, RingSpace) IN
        /\ bg' = [bg EXCEPT !.at = "filling", !.left = n, !.got = 0]
        /\ CallHookRead(n)
    /\ UNCHANGED <<faults, interrupted, ring, readPos, c, main>>

\* av_fifo_generic_write: it goes on until it has all or the hook gives nothing.
BgFilled ==
    /\ bg.at = "filling" /\ hook.call = "none"
    /\ LET k == hook.ret IN
       IF k > 0
       THEN /\ ring' = ring \o [i \in 1 .. k |-> hook.pos - k + i - 1]
            /\ IF k < bg.left
               THEN /\ bg' = [bg EXCEPT !.left = @ - k, !.got = @ + k]
                    /\ CallHookRead(bg.left - k)
               ELSE /\ bg' = [bg EXCEPT !.at = "relock", !.got = @ + k]
                    /\ UNCHANGED hook
       ELSE /\ bg' = [bg EXCEPT !.at = "relock"]
            /\ UNCHANGED <<hook, ring>>
    /\ UNCHANGED <<faults, interrupted, readPos, c, main>>

\* A turn that read nothing is the end; inner_io_error is that of its last read.
BgRelock ==
    /\ bg.at = "relock"
    /\ c' = IF bg.got > 0 THEN c
            ELSE [c EXCEPT !.eof = TRUE, !.err = IF hook.ret < 0 THEN hook.ret ELSE @]
    /\ main' = WakeMain
    /\ bg' = [at |-> "top", left |-> 0, got |-> 0]
    /\ UNCHANGED <<hook, faults, interrupted, ring, readPos>>

-----------------------------------------------------------------------------

\* The main thread, woken up in async_seek.
SeekReturns ==
    /\ main.at = "seek" /\ bg.at # "seeking"
    /\ \/ /\ Aborting
          /\ main' = [main EXCEPT !.at = "idle", !.ret = Exit]
          /\ UNCHANGED <<c, bg>>
       \/ /\ ~Aborting /\ c.seekDone
          /\ main' = [main EXCEPT !.at = "idle", !.ret = c.seekRet]
          /\ c' = [c EXCEPT !.pos = IF c.seekRet >= 0 THEN c.seekRet ELSE @,
                            !.seekPos = 0, !.seekDone = FALSE, !.seekRet = 0]
          /\ UNCHANGED bg
       \/ /\ ~Aborting /\ ~c.seekDone
          /\ main' = [main EXCEPT !.at = "seekwait"]
          /\ bg' = WakeBackground
          /\ UNCHANGED c
    /\ UNCHANGED <<hook, faults, interrupted, ring, readPos>>

-----------------------------------------------------------------------------

BackgroundStep ==
    \/ BgStops \/ BgSeek \/ BgSeekReturns \/ BgSleep \/ BgFill \/ BgFilled \/ BgRelock
    \/ HookStep /\ UNCHANGED <<ring, readPos, c, main, bg>>

MainStep ==
    OpenReturns \/ CloseReturns \/ ReadAborted \/ ReadSome \/ ReadEof \/ ReadWait \/ SeekReturns

Call ==
    \/ OpenCall \/ CloseCall
    \/ \E n \in 1 .. MaxRead : ReadCall(n)
    \/ \E p \in 0 .. FileSize + 1 : SeekNowhere(p) \/ SeekForward(p) \/ SeekBack(p) \/ SeekCall(p)

Next ==
    \/ BackgroundStep \/ MainStep \/ Call
    \/ Interrupt /\ UNCHANGED <<ring, readPos, c, main, bg>>

\* Both threads are scheduled, and the application answers the hook.  Nobody
\* has to read or to close.
Spec == Init /\ [][Next]_vars /\ WF_vars(BackgroundStep) /\ WF_vars(MainStep)

-----------------------------------------------------------------------------
(* Properties.                                                             *)

\* The answer to a seek that the reader has not taken yet already holds for
\* what the background thread reads.
Answered == main.at \in {"seek", "seekwait"} /\ c.seekDone /\ c.seekRet >= 0

Base == (IF Answered THEN c.seekRet ELSE c.pos) - readPos

\* The ring holds the file from read_pos bytes behind the reader on, whatever
\* reads, short seeks, seeks of the background thread, failures and reconnects
\* came before; unless the last seek of the connection failed and the hook
\* called that position 0 (ijkurlhook.c:398, 411).  Once the protocol is told to
\* stop, no read returns a byte any more; nor does one while the mutex is held
\* for a seek.
RingInPlace == ~hook.lied /\ ~Aborting /\ bg.at # "seeking" => \A i \in 1 .. Len(ring) : ring[i] = Base + i - 1

\* The two condition variables (ijkasync.c:428, 239): the reader and the
\* background thread never wait for one another.
NeverBothWait == ~(main.at \in {"readwait", "seekwait"} /\ bg.at = "asleep")

\* A read that says `end of file' (ijkasync.c:417) is at the end of the file,
\* or the position was lost, or a read of the connection failed and the
\* application did not take it on (ijkurlhook.c:317 returns 0).
EofIsTheEnd ==
    main.at = "idle" /\ main.ret = Eof => c.pos = FileSize \/ hook.lied \/ hook.declined

File == INSTANCE FileReader WITH pos <- c.pos, data <- main.data, lost <- hook.lied

\* With its ring, its thread and its hook the protocol is to its reader the
\* file at a position.
IsAFile == File!Spec

\* An open, a read, a seek and a close return, however often the connection
\* fails and whatever the other thread is doing.
CallsReturn == main.at \notin {"new", "idle", "closed"} ~> main.at \in {"idle", "closed"}

=============================================================================
