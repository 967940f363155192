--------------------------- MODULE AudioTracksDoc ---------------------------
(* What comments say of the audio tracks and the code does not do.         *)
EXTENDS AudioTracks

\* ff_audio.c:179, `switch next clip neu clip bi delete la current clip' (to the next
\* clip, if the clip that is deleted is the current one): a deleted clip is not the
\* current clip of its track.
DeletedIsLeft == \A t \in Tracks : tracks[t].cur # None => ~clips[tracks[t].cur].freed
=============================================================================
