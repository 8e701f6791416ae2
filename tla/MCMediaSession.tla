--------------------------- MODULE MCMediaSession ---------------------------
(* The instance of MediaSession that TLC checks: see MediaSession.cfg. *)
EXTENDS MediaSession
=============================================================================
