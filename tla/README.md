# Formal models of the player

A verification development for the video player under `src/ijkplayer` (a fork of
ijkplayer with a clip pool for editing): TLA+ models of its control, TLC
configurations that check them on small instances, and theorems checked with
TLAPS. `PROJECT.json` lists the runs, the mutants each property catches, the
lines each definition stands for, the hazards and the findings.

## 1. The system

| part | state it keeps | operations | who calls it |
|---|---|---|---|
| Message queue (`ff_ffmsg_queue.h`) | linked list, recycle list, count, `abort_request`, mutex and condition | put, start, abort, flush, remove, get, destroy | every thread |
| Player (`ijkplayer.c`) | `mp_state`, `restart`, `seek_req`, `ref_count`, `weak_thiz`, `msg_thread` | the native methods; `ijkmp_get_msg` on the loop | Java threads, message loops |
| JNI (`ijkplayer_jni.c`) | `mNativeMediaPlayer` of the Java object | takes and drops a reference around each call; `message_loop` | Java, `msg_thread` |
| Engine, one clip (`ff_ffplay.c`) | `VideoState`: flags, packet queue with serials, picture queue, decoder, clocks | `read_thread`, `ffplay_video_thread`, `ffp_seek_to_l`, `ffp_start_l`, `ffp_pause_l`, `stream_close2` | one read and one video thread per clip, the message loop |
| Refresh (`ff_ffplay.c`) | `f_0x3a8`, `f_0x3b0`, the clip in play | `video_refresh_thread`, `refresh_not_444`, `ffp_switch_to_next_clip` | one thread per prepare |
| Clip list and pool (`ff_ffplay.c`) | `ClipEditOp`: list of clips; two open `VideoClip`s, `mutext_8` | insert, delete, exchange, copy, cut, speed, attach, release to pool, switch | Java threads, message loop, refresh thread |
| Audio (`ff_audio.c`, `ff_ffplay.c`) | `AudioTrackEditOp`: tracks, current clips, filter graph, frame queue | `audio_thread`, track operations, `audio_track_seek`, the callback | decode thread, audio device, Java threads, message loop |
| HTTP hook (`ijkurlhook.c`) | `Context`: position, error, inner connection | open, read, seek; asks the application before it connects again | whoever reads through it |
| Read-ahead (`ijkasync.c`) | ring buffer, `seek_request`, two conditions | open, read, seek, close; `async_buffer_task` | demuxer, one background thread |
| Cache (`ijkiomanager.c`, `ijkiocache.c`) | one file, trees of entries, a context for each input | open, read, seek, pause, resume, close; `ijkio_cache_task`; saving, reading and sharing the map | demuxer, thread pool |

They interact through shared flags of `VideoState` and `FFPlayer` (most of them
read without a lock), through the packet and picture queues (mutex and
condition each), and through the message queue: the engine posts PREPARED,
SEEK_COMPLETE, COMPLETED and ERROR; start, pause and seek of the application
are posted as requests; the message loop takes them all, changes `mp_state`
under `mp->mutex`, and calls back into the engine. At the end of a clip the
refresh thread opens the next one itself and tells the message loop to bring the
pool in step. Below the engine the demuxer's reads go through protocols that
read ahead or cache in threads of their own.

What is hard: the flags `pause_req`, `paused`, `step`, `auto_resume`,
`seek_req`, `f_0xdc` (accurate), `f_0x3fc` (pending seek) are written by four
threads; the end of a clip is noticed twice, by the read and by the refresh
thread; a stopped player may be prepared again while threads of the first
session are alive; the player is freed by whoever drops the last reference. The
clip list is edited while the refresh thread sleeps inside one of its clips, and
releasing a clip gives the lock up in the middle. The audio tracks are edited
between any two passes of the thread that mixes them, and edits move an index of
the ring that thread writes. The read-ahead thread reads without the mutex that
guards its ring; connections fail in the middle of a read or of a seek; one
cache file is shared by inputs, by players and by the next process.

What makes each part correct:

- queue: messages in order, none lost, none kept for ever, no sleeping getter
  while there is work, an abort ends every wait, one owner for each object;
- player: exact reference count, no use after free, a release ends, the reported
  state agrees with the clip, a start is carried out;
- clip: every picture shown once, in order, of the serial of its seek; the slot
  on the screen is not overwritten; the end is reached and announced; buffering
  and closing end;
- clip pool: a clip is open at most once, its index follows the list, the clip
  the refresh thread is in stays open, the next clip played is the next of the
  list, every wait for an entry ends;
- audio: the count of tracks and the current clips follow the edits, no sound of
  before a seek after it, frames in order and once, a seek and a stop are
  carried out;
- IO: a read returns the bytes at the reader's position, whatever was read
  ahead, cached, sought, emptied, lost or connected again; an end that is told is
  the end; every call returns.

## 2. Modules

| module | models |
|---|---|
| `MsgQueueOps` | the queue's operations as functions from a queue to the queues a call can leave |
| `MsgQueue` | the queue as a state machine: what it promises |
| `MsgQueueList` | the same code at the level of its list: nodes, `first_msg`, `last_msg`, `recycle_msg`, `nb_messages`, owned objects; implements `MsgQueue` |
| `MsgQueueProofs` | what each operation does to any queue, and the theorems about `MsgQueue` |
| `MsgQueueListProofs` | theorems about `MsgQueueList`, the refinement among them |
| `MediaPlayer` | player, JNI, message loops, on top of `MsgQueueOps`, with the engine as the player sees it |
| `MediaPlayerProofs` | theorems about `MediaPlayer` |
| `MediaPlayerDoc` | a statement of the header that the code does not keep |
| `VideoStream` | one clip: read, video, refresh, control and closing thread |
| `VideoStreamProofs` | theorems about `VideoStream` |
| `ClipPool` | the clip list, the two pool entries, and the three threads that use them |
| `ClipPoolProofs` | theorems about `ClipPool` |
| `AudioTracks` | the audio tracks, the decode thread, the frame queue and the callback |
| `AudioTracksProofs` | theorems about `AudioTracks` |
| `AudioTracksDoc` | a statement of a comment that the code does not keep |
| `FileReader` | what a protocol promises to the demuxer: a file at a position |
| `UrlHook` | the HTTP hook: its steps, without a caller |
| `IjkAsync` | the read-ahead protocol over the hook; implements `FileReader` |
| `IjkAsyncProofs` | theorems about `IjkAsync`, the refinement among them |
| `IoCache` | the cache and its manager |
| `IoCacheProofs` | theorems about `IoCache` |
| `MCMsgQueue`, `MCMsgQueueList` | instances for TLC, the second with its symmetry; the other modules get their constants from a .cfg alone |

Every queue operation and every section under `mp->mutex` is one step. In
`VideoStream` a step ends wherever another thread can come in: at a queue
operation, or between two unlocked accesses to what another thread writes.

**MediaPlayer.** `mp`, `object`, `handle` are the native player and the Java
object's pointer to it; `q` is `msg_queue`; `loop[i]` is the message loop the
i-th `prepare_async` started, `vout[i]` its refresh thread; `caller` is where
each Java thread is inside its native method; `eng` holds the flags of the clip
in play. `Enter` and `Leave` are the references around a native method;
`ReleaseStop`, `ReleaseClose`, `ReleaseHandle` are the parts of `release`
between which other threads run; `Handle...` are the cases of `ijkmp_get_msg`,
one message each. The engine's actions are what its threads do to those flags:
`PostPrepared`, `SeekDone`, `ResumeOrStep`, `ShowStep`, `EndReached`, `Complete`
and so on.
`last` and `calls`, `switches` are not in the code: what was asked for last, and
the bounds.
Left out: buffering (it is in `VideoStream`), partial seeks (message 601,
`param6`), more than one clip, notifications to Java, `reset`.

**VideoStream.** A picture is a number, which is its time. The demuxer delivers
0..Last and seeks back to a key picture; the codec holds `CodecDelay` pictures
until it is drained. `is` holds the flags, `videoq` and `pictq` the queues,
`dec`, `rd`, `rf`, `ui`, `closer` the program counters and locals of the five
threads; `rd.target` is cleared with the seek and `gen` of a picture (the serial
it was read under) is history for the properties. Time is not a number: a
picture may be found due, early or late at any look.
Left out: sound, frame drop, `loop`, `packet_pending` (never set by this code),
MediaCodec, the per-clip speed; the three last writes of `ffp_seek_to_l` are one
step because the read thread reads `pause_req` only after the demuxer's seek.
`check_buffering_l` only computes: its toggle is commented out
(ff_ffplay.c:8251), so the full queue and the end of the file end buffering.

**ClipPool.** `list` holds the ids of the clips in order, `pool[1]` and `pool[2]`
are `info[0]` and `info[1]`; `lock` is `mutext_8`; `job[t]` says how far thread t
is in `clip_op_prepare` or in a switch: it scans the entries (`ReleaseScanned`),
may have to empty the first one (`ReleaseFirst`), waits for the refresh thread to
leave it with the lock given up (`Close`), and opens the clip and the one after
it (`OpenClip`, `OpenNext`). `Look` to `Leave` are the refresh thread: it marks
the entry in play (`f_0x9f4`), shows, waits half a second at the end (`Delay`),
and switches. `Loop...` are the requests the message loop takes, the other
actions the application's calls under `mp->mutex`. An entry's own threads are
those of `VideoStream`; here it is open or closed, and the two meet where the
pool calls `stream_open_video` and `stream_close2`. `mutext_8` is taken to be
error-checking, as the code does when it compares the result of locking with
EDEADLK (ff_ffplay.c:9261). Where the code follows a null or freed pointer the
model stops (`env.gone`) and promises nothing: so it does when a clip was deleted
while a seek waited to open it (`Deleted`). A paused clip whose picture is to be shown
again (`force_refresh`) goes through the refresh thread's look; each time takes one of
the calls of the bound.
Left out: `cut` (it changes times only), images, volume, and opening that fails.

**AudioTracks.** `tracks[t]` is an entry of `arr[]`, `clips` what is known of each
clip, `audio` the rest of `AudioTrackEditOp`. The decode thread is at the top of
its loop (`Enter`, `EnterSeek`), in `p3` with the mutex (`Loop`, `Feed`,
`ClipEnds`), or moves frames from the filter graph to the queue without it
(`Drain`, `Room`, `Push`, `Drained`). `Begin` and the edit after it are the two
halves of a track operation: `frame_queue_write_break` before the mutex, the rest
under it, and `Done` is `frame_queue_write_unbreak` and the signal. Which edit it is
is chosen with the mutex, because nobody else changes the lists. The callback begins
(`Call`) when the device is open and not paused and nothing holds it back; then it
waits for a frame (`Take`) and plays it or passes it over (`Play`), until it has filled
its buffer or the device was paused (`GoesOn`). Between `Take` and `Play` `Volume` can
come in. `audio.held` stands for the three conditions on which the callback returns
with nothing taken (ff_ffplay.c:4649-4673): no clip in play, a step under way, a video
that has not started. A step un-pauses the device and begins it (`Hold`), the refresh
thread ends it when it shows a picture (`Release`), which need not happen.
`decode.built` says that there is a filter graph; before, the drain goes back to the
top of the loop (3962).
Left out: samples and times (a pass takes one frame of each track; a clip ends
when it likes), formats, volume and fades as values, the sound inside a video
clip, memory running out, and an index that a delete takes past the end of a list by
two or more (`InReach`), which reads through a null pointer (ff_audio.c:189-196).

**UrlHook, IjkAsync.** The byte of the file at position p is p, so a ring, a read
and a position can be compared. `hook` is the hook's `Context` and the call it is
in; `faults` counts the failures the network has left. `IjkAsync` adds the ring
(`ring`, `readPos`), the shared fields `c` and the two threads `main` and `bg`.
The section from a wake-up to the next wait holds the mutex and is one step; the
hook's seek is made under it, the hook's read is not, so a seek back in the ring
or a seek request comes in between. `lied` and `declined` are history: the hook
told a failed seek as position 0, or a failed read as the end. The sizes of the
ring that `async_seek` reads without the mutex are those of that moment.
Left out: the size and speed statistics, and the options.

**IoCache.** Positions count blocks of 4096 bytes, the size of the task's reads.
`c[x]` is a context, `task[x]` its task, `file` the cache file with the trees of
all contexts, `io` the demuxer's thread in the manager. The tree of a file is a
function from its blocks to blocks of the cache file; `EntryEnd` finds where an
entry ends. `TaskTop` to `TaskLeave` are `ijkio_cache_task`, split wherever the
mutex is given up; `SyncReadCached` and `SyncReadThrough` are the variant without
a task. `WillShare`, `Quit`, `Crash` and `Restart` are the map being written and
read again; a crash may lose the end of the file. A read that finds the cache given up
while it waits seeks the connection itself; when that seek fails the connection stays
where the task left it (`DirectSeekFails`, ijkiocache.c:986-991). Every context stands for one
file, and one thread makes all calls, as FFmpeg's demuxer does.
Left out: errors of the disk, the wrappers of single protocols, the
immediate-refresh variant.

## 3. Runs

| run | what it shows | bounds |
|---|---|---|
| MCMsgQueue | no lost wakeup, order, abort unblocks, everything consumed | 1 loop, 2 kinds, 5 messages: enough for a removal between two kept messages across stop and start |
| MCMsgQueueList | list, tail pointer, recycling and object ownership are right and implement the queue | 2 getters, 4 messages, 4 nodes |
| Player | PAUSED is the state of a clip that does not run; no refresh thread outlives the player; a release ends; a start is honoured | 1 caller, 1 loop, 2 calls, 1 end of the clip, all values of both options |
| PlayerShared | exact reference count, no use after free | 2 callers, 2 loops: release against release, prepare after stop |
| StreamSeek | slots, serials, order of pictures, completion | 3 pictures, 2 key pictures, 3 slots, 1 seek that may fail |
| StreamPlay | plays out, closing ends, nobody left | 4 pictures, 3 slots, 1 start or pause, close at any moment |
| Async | the ring is the file; the end is the end; implements `FileReader`; calls return | file of 4, ring of 2 + 1, reads of 2, short seeks of 1, 2 failures: the ring wraps, is full, and is left by a seek |
| IoCache | entries lead to their blocks; reads return them; what is passed is cached; calls return | 2 contexts, files of 2, cache of 3 (so that it is full), with and without read-ahead, 4 calls, 2 troubles, 1 restart; a trouble is a failure of the network, an interrupt, a sharing or an end of the process |
| ClipPool | pool in step with the list; the clip in use stays open; the switch goes to the next; calls return | 2 clips at first, at most 3, 3 calls: two edits while a third thread waits |
| Audio | tracks in step; no old sound; order; a seek and a stop are carried out | 2 tracks, 3 clips, 2 slots, 1 seek; 3 frames, or 2 and one edit, pause, step, failure or stop; with no such event the callback may be held from the start |
| DocStartAlways, DocDeletedClip | the findings below | smallest instance that shows them |

`CHECK_DEADLOCK FALSE` where the program really stops: a freed player, a clip
played out, a closed protocol, an application that calls nothing more. The
constants that begin with `Max`, and `FileSize`, `Capacity` and the sizes of
queues, bound how often the application, the network or the clip's end act;
nothing else is bounded. Two contexts are alike until one is opened, so the first to be
opened is context 1 (`OpenCall`). The cache has to hold the read-ahead: with a capacity
below it the task empties the cache for every block and a reader may wait for ever for
one that is there for a moment only, which `CacheAssumption` does not exclude and
`CallsReturn` does not hold for. A larger instance passed too, and is left to the
reader because it takes long: Player with 3 calls (safety). One did not: with four clips and four calls (`MaxClips = 4`,
`Clips0 = 3`, `MaxIds = 4`, `MaxCalls = 4`) a prepare, a switch, a seek, a seek back
and a copy leave one clip open in both entries of the pool, 40 states from the start.
The proof of `PoolInStep` found it, in a step that did not go through; it is the
exception `env.evicted`.
`Released` and `VoutEnded` speak of a player prepared at most once: after two
prepares two loops may wait on one condition, an abort wakes one of them, and
`thread_vout` (ff_ffplay.c:7774) names only the last refresh thread.
`StartHonoured` excuses a seek that was put off: what then happens is
DocStartAlways.

Several properties except a state the code gets wrong. Each exception is a named
ghost or state predicate, so that what holds elsewhere is not lost:

| exception | what the code does there |
|---|---|
| `lied`, `declined` (`IjkAsync`) | a failed seek returns 0, a failed read that the application left alone returns 0 (ijkurlhook.c:398, 411, 317) |
| `env.behind` (`IoCache`) | the task gave the cache up; the reader goes on from wherever the connection is, because its own seek failed or was never made (ijkiocache.c:966, 987), and an error is subtracted from a count (994) |
| `env.staleMap` | after a crash the map is older than the file (ijkiomanager.c:339) |
| `env.switched` | a context without a task was resumed after another moved the offset of the file (ijkiomanager.c:453) |
| `env.misled` | `file_logical_end` is 0 while unknown (ijkiocache.c:442) |
| `LostAbort`, `LostSeek` | the task sleeps without looking at `abort_request` again (ijkiocache.c:510), or leaves without an answer to a seek (1062) |
| `SelfWait` (`ClipPool`) | the refresh thread waits for its own mark (ff_ffplay.c:6310, 9258) |
| `env.evicted` | while a thread waits for the refresh thread to leave entry 0, another one opens the clip in entry 1; it is then opened again in entry 0 (ff_ffplay.c:9259, 6310) |
| `env.wiped` | delete-all deletes every other clip (ff_ffplay.c:9768) |
| `env.gone` (`ClipPool`, `AudioTracks`) | a null or freed pointer is followed: an index past an empty list (ff_ffplay.c:9878), an entry two threads wait for (9259), a clip deleted while it waits to be opened (6268), a deleted current clip (ff_audio.c:180), a graph without links |
| `env.astray`, `env.kept`, `env.drift`, `env.late` (`AudioTracks`) | an edit moves `windex` (ff_ffplay.c:967); a seek past every clip of the counted tracks leaves the mixer as it is; an empty track is counted off (8929); the last clip ends at the moment of a seek (3361) |
| `decode.at = "asleep"` | the decode thread missed the signal it then waits for (ff_ffplay.c:3982) |
| `<>[](audio.paused \/ audio.held)` | a device that stays silent for ever takes no frame, and the decode thread waits for room in the queue (864) with the seek not handled; a step that no picture ends (5641, 1729) is such a silence |

**Fairness.** A thread that can run does (weak fairness of each thread; the
operating system schedules them, and every wait in the code is on a condition
that another thread signals or has a timeout). A native method once entered
returns. Nothing forces the application to call, the clip to end or reading to
fail. `VideoStream` adds strong fairness of showing a picture and of the end
check when the queue is empty: both compare a clock that advances with a fixed
time, so they cannot be put off for ever by looks that come too soon.
`FramesFairSpec` of `MediaPlayerDoc` adds that the clip has a frame to show
after every seek, to leave that excuse out of its counterexample. `IjkAsync` and
`IoCache` have weak fairness of their threads, the hook's steps being part of the
background thread: the application answers when it is asked. `ClipPool` and
`AudioTracks` guard theirs by `~env.gone`. That of the audio callback is the device's:
it calls while it is open and not paused, and nothing says that what holds the callback
back (`audio.held`) ends. An edit of the audio tracks has strong
fairness: it waits for a mutex that the decode thread gives up and takes again in
every pass, and the mutex does not starve a waiter for ever. There are no
spurious wake-ups: they only re-evaluate a condition.

**Outside the repository.** Condition variables, threads and mutexes (SDL,
pthread), the decoder, the demuxer, the network and the audio device are modelled
from how the code uses them. Unlocking a mutex that one does not hold does
nothing.

## 4. Findings

1. *A second seek can stay pending for ever* (DocStartAlways). It is noted in
   `f_0x3fc` and replayed by SEEK_COMPLETE; the message meant for that is posted
   to the address of the `FFPlayer` instead of `&ffp->msg_queue`
   (ff_ffplay.c:6728). A later start waits for that seek.
2. *A deleted clip stays the current clip of its track* (DocDeletedClip). Going on
   to the next clip fails when that clip was never opened; the result is ignored
   and the clip freed (ff_audio.c:180).

Seen in counterexamples of trial runs and kept as hazards or exceptions without a
run of their own:

- player: an abort wakes one of two message loops (ff_ffmsg_queue.h:222);
  `msg_queue_put_simple4` loses its object when the queue is aborted (157); a clip
  that cannot be opened leaves `mp_state` at ASYNC_PREPARING (ijkplayer.h:71-72);
  a message taken before a stop changes the state after it; a start put off by a
  seek overtakes a later pause; a pause between the end of the clip and COMPLETED
  is overwritten (ijkplayer.h:115); after COMPLETED a start does not go back to
  the beginning (ijkplayer.h:114);
- clip: COMPLETED may not be announced, because the read thread pauses the clip at
  its end, its own message is commented out (ff_ffplay.c:5785), and the refresh
  thread does not look at a paused clip; an accurate seek may show a picture
  before its target, because `f_0xdc` is written before `seek_req` (7825); a
  failed demuxer seek at the end of the file leaves the step without a picture;
- audio: a swap that fails at the end of a clip gives the mutex up in the middle of
  a pass (ff_ffplay.c:3489), and those in the table above;
- IO: those in the table above.

## 5. Proofs

`MsgQueueProofs` first says what `Put`, `Remove`, `Get` and a signal do to a
well-formed queue of any messages and getters (`SignalEffect`, `PutEffect`,
`RemoveEffect`, `GetEffect`): what is left in `msgs`, and who waits. Then, for any set
of getters, kinds of message and bound: `TypeCorrect`, `WakeupCorrect` (under
`OneGetter`) and `FifoCorrect`. The invariants are inductive once the type invariant
is known, and each theorem goes through the actions one by one. `NoLostWakeup` is
false for two getters: one signal is given for a condition that concerns both
(ff_ffmsg_queue.h:222).

`MsgQueueListProofs`, for any number of nodes, messages, kinds of message and getters,
from `BoundsAssumption` alone: `PointersOK`, `OneOwner` and `Refinement`, the last that
the list implements `MsgQueue`. With `FifoCorrect` and `WakeupCorrect` this says of the
list as it is written that it keeps the order and, with one loop, loses no wakeup.

- A chain of nodes is described by the sequence of its addresses. `Shaped` says that
  the queue is one sequence and the recycle list another, that no node is in either
  twice or in both, that the nodes in use are those two, and that the tail and the
  counter are those of the first. `IInv` says that there are such sequences (they are
  unique: `ChainIs`), that the messages in the queue have ascending numbers and objects
  of their own number, that the recycle list holds no objects until the queue is
  flushed, and that live objects are of messages that were put. `ListOK` and
  `ObjectsOwned` are what follows from it; neither is inductive without the numbers.
- A node for a message (`NodeTaken`), a node linked behind the tail (`Appended`), the
  head unlinked (`Popped`) and a node cut out of the middle (`Unlinked`) are described
  by what they do to the two sequences.
- The loops of `msg_queue_remove` and `msg_queue_flush` are functions of the number of
  their turns, as is the walk along a chain. Their invariants (`RemoveStep`,
  `RecycleStep`) say which nodes a turn has gone through; they go from turn to turn by
  `UpTo`, which is induction over a set of numbers, without an operator for parameter.
  At the end `Removed` says that the nodes kept are those of another kind, in their
  order, and that the tail is the last of them.
- `AcceptStep`, `DeliverStep`, `PurgeStep`, `FlushStep` and `DestroyStep` join the list
  and the objects, and say what becomes of the sequence of queued messages. The
  refinement uses nothing else: `Queue` is the queue that `MsgQueue` sees, and each
  operation has a lemma (`PutRefined`, `GetRefined`, ...) that it is the operation of
  the same name there. Destroying changes nothing there because a flush has come
  before it, freeing an object because `MsgQueue` has none.

`MediaPlayerProofs`, for any finite set of Java threads and any bounds:
`PlayerTypeCorrect`, `RefsCorrect`, `FreeCorrect` and `VoutCorrect`, from
`MediaPlayerAssumption` alone. None of the four is inductive. They are proved
together from `Inv`, the conjunction of

- `TypeInv`: the types, and a queue in which nobody both waits and is woken;
- `RefsAccounted`: without it `ref_count` could fall below zero, so it is needed
  even for the types;
- `Fresh`: a session that has not begun has no threads, so that a new message
  loop is one more holder;
- `OneDestroyer`: whoever has dropped the last reference and not yet freed the
  player is alone, the player still exists and the count is zero;
- `VoutGone`: once the streams are closed the refresh thread of the last session
  has ended.

The argument is `HeldAlive`: while anyone holds the player the count is positive,
so the player exists and nobody is about to free it. Every step of a native
method or a message loop is taken by a holder, except the two steps of the
destroyer; the engine's threads change neither the count nor who holds it.
TLC has checked `Inv` on the instance of PlayerShared.

`IjkAsyncProofs`, for a file of any length, any capacities, any sizes of reads and
short seeks and any number of failures, from the assumptions on those constants:
`AsyncTypeCorrect`, `RingCorrect` (the ring is the file at its place),
`AsyncIsAFile` (the protocol implements `FileReader`) and `AsyncNeverBothWait`.
They follow from `Inv`, which TLC has checked on the instance of Async. Its parts
are the types and

- `Calls`: the hook is called by the background thread, or by the reader that
  opens, with the arguments that thread remembers;
- `SeekPending` and `SeekAnswer`: a seek under way has a reader that waits for it,
  and its answer is where the hook is, if the hook does not lie;
- `Room`: what the hook has read and the ring has not got yet fits into the ring;
  without it the ring could outgrow its type;
- `HookAhead`: the hook's position is where the ring ends plus those bytes. This is
  the heart of it: reads, short seeks and reconnects leave it alone, a seek of the
  connection empties the ring and restores it, and it is why the bytes appended
  after an unlocked read continue the ring;
- `RingEnds`, `RingInPlace`: the ring lies in the file and holds it;
- `NoData`, `Wanting`: what a call under way has to hand over.

`HookEffect` says what a step of the hook may do to its caller; every other lemma
about the background thread uses only that. `StepOfReader` maps a step of the
protocol to a read, a seek or a stutter of `FileReader`: bytes are handed over by
`ReadSome` alone, out of a ring that `RingInPlace` describes.

`VideoStreamProofs`, for a clip of any length with any key pictures, packet and
picture queues of any size (two slots or more), any codec delay and any number of
seeks, starts and pauses, from `VideoStreamAssumption` alone: `StreamTypeCorrect`,
`CloseCorrect`, `SlotsCorrect`, `SerialsCorrect`, `CompletionCorrect` and
`OrderCorrect`. TLC has checked the parts of the invariant on both instances of the clip. They are

- `Counts`, `Closing`: a thread that holds a picture or a slot has one, and the
  threads end in the order the closing thread joins them;
- `Ring`: the write index is `size` ahead of the read index. `SlotsDisjoint` is
  then arithmetic: two places less than `PictqSize` apart are different slots;
- `Sorted`, `FlushFirst`: the serials of the packet queue ascend to that of the
  queue, and the first packet of a new serial is the flush packet. It is why the
  decoder has thrown away its old pictures before it sees a packet of the new
  serial (`Held`), and with `InHand` and `InSlots` why a picture carries the
  serial it was read under;
- `EndRead`, `NullLast`, `Drained`: the null packet comes after everything the
  demuxer had, unless a seek has begun, and nothing follows it but a seek;
- `Finished`: a serial whose end the decoder has told (`finished`) has nothing
  left in the codec or on the way to the picture queue;
- `PlayedOutStays`: what the read thread tests for the end, one value after the
  other and without a lock, is not undone before it acts on it.

`OrderCorrect` (`ShownInOrder`) needs a second layer, because three threads number
the pictures between them and two flags without a lock decide what is shown:

- `SeekOrder`: a seek is counted before it is asked for, and asked for until its
  flush packet is put. `Latest` is the time in between, when the queue's serial is
  that of the last seek; only then is anything claimed of numbers;
- `Behind`: the serials of the pictures ascend in the picture queue and are at most
  the one the decoder took last, so none can be of a serial that begins;
- `Flow`: counting back from the read thread's position over the packets queued, the
  packet held, the pictures in the codec and the one in hand gives the number of
  the picture at each place (`Numbers`, down to `FromHand`), as long as flush and null
  packets are where `QueueForm` says. A step that begins no serial moves `FromHand`
  only when the video thread lets go of its picture (`Moves`);
- `Searching`: what an accurate seek drops, it drops before any picture of the new
  serial is queued, so the drop leaves no gap behind one that is shown;
- `Display`: the pictures that wait count up to the one in hand (`Waiting`), and the
  one on the screen is of the number before the first that was not shown yet, or is
  that very one, shown ahead of its time (`InLine`). `Awaited` is that number. The
  third case of `InLine` is a forced refresh, which may pass over pictures that are
  late: the flag stays up until one of those left has been shown, and that is why
  `Seeking` includes it.

The lemmas follow the threads: for each part, one lemma for the read thread, one
for the video thread and one for the rest, each split into its actions, and frame
lemmas for the steps that leave a part's variables alone.

`PausedCorrect` and `EofCorrect` come after them, each with an invariant of its own
on top of the module's `Inv`. `PAUSED` means little by itself: a clip may still be
opening, seeking or on its way to one frame. `PauseInv` says which flags agree
(`FlagsAgree`) and that a clip reported as paused comes to rest (`ComesToRest`:
asked to pause, and paused, stepping or seeking); it holds at every step of the loop
and of the engine, and `PausedIsPaused` is what it says of an idle clip. `Ends`
follows the end of the file from the hook, over the bytes the background thread has
got but not put into the ring (`EndTold`) and the flag and error it sets
(`EofKnown`), to the reader, and says that a seek in between takes them back.

`ClipPoolProofs`, for a list of any length, any number of clips and any number of
calls, from `PoolAssumption` alone: `MarkCorrect`, `StepCorrect` and `SwitchCorrect`.
The invariant `Inv` has been checked with TLC on the instance of ClipPool. Its parts,
beside the types, are

- `LockHeld`: whoever scans or opens has the lock; a wait gives it up;
- `Emptied`, `Room`: an entry emptied for a clip stays empty until the clip is opened
  in it, at the index the clip has now, and the clip is not in the other entry. This
  is what a wait for the refresh thread breaks (`env.evicted`);
- `Distinct`, `Seen`: no clip is open twice, and an entry whose index is not that of
  its clip is one that a copy or an exchange under way has still to look at. It is
  why an index is right again when the scan ends, however often it waited;
- `SpeedKept`: the clip in play has its clip's speed.

`MarkProtects` is a part of it that needs only `LockHeld` and the types: whoever
releases an entry has looked at the mark under the lock. `SwitchesToNext` is an action
property: it follows from `Seen` in the state before the step, since the refresh
thread reads the index of the clip it is in.

`AudioTracksProofs`, for any number of tracks, clips, frames, edits, seeks and failing
files and a queue of any size of two or more, from `AudioAssumption` alone:
`TracksCorrect`, `NoOldSoundCorrect` and `PlaysCorrect`, each from an invariant:

- `Typed` holds the types of all parts and what the tracks depend on: the lists of a
  track and of two tracks have no clip in common, their clips are added and not freed
  (`Lists`), and the count is the number of tracks with clips (`Counted`). `GoodPut`, `CountPut`,
  `WithGood` and `WithoutGood` say what an edit of one track does to all of them.
- `Fresh`: what is in the mixer, in the thread's hands and in the queue is of the
  serial it will be played under. It is not inductive without the case of a seek whose
  file cannot be opened: then the serial is raised before the mixer is emptied, and the
  thread is back at the top with the seek still to do.
- `InOrder`: frames get ascending numbers in the mixer; those in the queue, the one in
  the thread's hands, those in the mixer and those to come follow each other, and all
  that are not yet shown follow the one played last. `NextAt` and `PushAt` are the
  arithmetic of the ring: the i-th place after a frame is let go is the (i+1)-th before,
  and a push changes the place behind the last one only. An edit moves `windex`, so
  that the next push may go elsewhere: from then on `env.astray` holds.

`TracksInStep` was proved as stated; the proof of `NoOldSound` narrowed its exception
(`env.kept`) and widened its case: with three tracks a seek past the clips of the
counted tracks keeps the mixer though an uncounted track is active.

`IoCacheProofs`, for any number of contexts, files of any length, a cache of any
capacity, with and without read-ahead, and any number of calls, troubles and restarts,
from `CacheAssumption` alone: `WindowCorrect`, `CacheHoldsCorrect`, `ReadsCorrect` and
`EndCorrect`. TLC has checked the invariants on three configurations. They are layers,
each proved with the ones before it:

- `Shape`, whatever the network and the process do. One context is started at most
  (`Alone`), only it has a task, and nobody tells that task to leave but who is about to
  wait for it (`Control`). The entries of all trees together number the blocks of the
  cache file from 0 on, each once (`Numbered`, with `Fills`): it is why an emptied tree
  and an added entry leave the others right, and why a map that is read back has the
  size of its file. `Window` is `WindowCached`; `Offset` is for contexts without a task,
  which write where the file's offset happens to be. It is false after one was resumed
  behind another (`env.switched`): there `Inv` promises nothing.
- `Content`: what the file holds (`Holds`), for the map in memory and for the saved one,
  and that a context knows where its connection is (`Connection`) until it gives the
  cache up: the block a task adds is the block it asked for.
- `Position`: where the demuxer is (`Place`). Between calls it is where the context
  reads, or where the bare connection is once the cache was given up; in a read it is
  the start of the read, and what the read has so far ends where it goes on.
- `Ends`: without a failure of the network a task that believes in an end has filled
  the cache up to the end (`Told`).

Each layer has one lemma for each action. A turn of a read is split into its outcomes
once (`Turned`: aborted, direct, cached, ended, waiting), as is a read without a task
that goes through to the connection (`ReadThrough`); `ReadsRun` says which blocks come
out of the cache file when an entry is read with those that follow it.

Only model-checked: liveness (`AbortUnblocks`, `Consumed`, `Released`,
`StartHonoured`, `PlaysOut`, `Closes`, `CallsReturn`, `SeekHandled`,
`StopReturns`) and whatever needs ENABLED.

## 6. Not modelled, and the plan

Left out on purpose: pure I/O wrappers (live hook, long url, segment, media data
source, the protocols under the cache; the TCP hook is the HTTP hook without its
seek), function tables (pipelines), copies of FFmpeg's data structures (fifo,
dictionary), calls into libraries that are not in the repository (FFmpeg, SDL
port, MediaCodec, the FFmpeg command line). Clocks are real arithmetic on system
time: `VideoStream` lets a picture be due at any moment instead.

Next, in this order:

1. The failing paths of opening a clip in `ClipPool`, and `cut`.
2. Images and the render hand-shake of save mode (ff_ffplay.c:6039-6248).
3. The MediaCodec node with its input thread; the growth of the thread pool.
