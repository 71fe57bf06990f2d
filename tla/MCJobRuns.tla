------------------------------ MODULE MCJobRuns ------------------------------
(* A small instance of JobRuns for TLC: a request and a scheduled execution  *)
(* can overlap another of either kind.                                       *)
EXTENDS JobRuns
=============================================================================
