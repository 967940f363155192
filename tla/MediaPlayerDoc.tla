---------------------------- MODULE MediaPlayerDoc ----------------------------
(* What the header says of the player and the code does not do.              *)
EXTENDS MediaPlayer

\* The clip has a frame to show after every seek.
FramesFairSpec == FairSpec /\ WF_vars(TargetReached) /\ WF_vars(ShowStep)

\* ijkplayer.h, MP_STATE_PREPARED: ijkmp_start -> MP_STATE_STARTED.  A second seek
\* that comes before the frame of the first is shown is put off, for ever: the
\* message that would replay it is lost (ShowStep), and the start waits for that
\* seek.
StartAlwaysStarts ==
  last = "start" ~> \/ mp.state \in {"STARTED", "COMPLETED"}
                    \/ last # "start"
                    \/ eng.stream # "open"
                    \/ eng.completed
                    \/ q.abort
=============================================================================
