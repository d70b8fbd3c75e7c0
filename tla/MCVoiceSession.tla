--------------------------- MODULE MCVoiceSession ---------------------------
(* Bounded instance of VoiceSession.  Two turns are enough for one to replace *)
(* the other; a third lets two replaced turns unwind while the third runs.    *)
EXTENDS VoiceSession
=============================================================================
