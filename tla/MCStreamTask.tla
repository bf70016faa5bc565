---------------------------- MODULE MCStreamTask ----------------------------
(* Small instances of StreamTask, whose constants are all plain values. *)
EXTENDS StreamTask

=============================================================================
