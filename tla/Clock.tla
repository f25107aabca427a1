------------------------------- MODULE Clock -------------------------------
(* The clock that the components read with time.Now, in ticks since the     *)
(* start.  Each component that depends on time advances it up to a horizon  *)
(* of its own.                                                              *)
VARIABLE now
=============================================================================
