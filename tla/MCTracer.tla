------------------------------- MODULE MCTracer -------------------------------
(* A small instance of Tracer. *)
EXTENDS Tracer

MCLevels == {INFO, ERROR}

=============================================================================
