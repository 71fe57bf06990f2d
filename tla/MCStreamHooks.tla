---------------------------- MODULE MCStreamHooks ----------------------------
(* A small instance of StreamHooks for TLC: with two turns, a worker may     *)
(* overtake another by a whole turn.                                         *)
EXTENDS StreamHooks
=============================================================================
