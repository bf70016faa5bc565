--------------------------- MODULE MCSessionCache ---------------------------
(* Small instances of SessionCache, whose constants are plain values: more *)
(* sessions than entries.                                                  *)
EXTENDS SessionCache

=============================================================================
