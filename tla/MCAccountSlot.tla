---------------------------- MODULE MCAccountSlot ----------------------------
(* A small instance of AccountSlot for TLC: three agents, so that the middle *)
(* one is both a replacer and a replaced one, and three failures.            *)
EXTENDS AccountSlot
=============================================================================
