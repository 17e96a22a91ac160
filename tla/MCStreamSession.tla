--------------------------- MODULE MCStreamSession ---------------------------
(* StreamSession for TLC; the values are in session.cfg.                   *)
EXTENDS StreamSession
=============================================================================
