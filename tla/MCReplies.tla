------------------------------ MODULE MCReplies ------------------------------
(* A small instance of Replies for TLC: two calls, in one session or in two,  *)
(* and two requests per session, for one model or for two.                    *)
EXTENDS Replies, TLC

CallSymmetry == Permutations(Calls) \cup Permutations(Models)
=============================================================================
