------------------------------ MODULE MCProfiles ------------------------------
(* A small instance of Profiles for TLC: three profiles with a gateway each,  *)
(* or two of them behind one multiplexer.                                     *)
EXTENDS Profiles, TLC

CONSTANTS p1, p2, p3, g1, g2, g3, t1

MCLayouts ==
    {p1 :> g1 @@ p2 :> g2 @@ p3 :> g3, p1 :> g1 @@ p2 :> g1 @@ p3 :> g2}

(* By hand, only the third gateway has a token. *)
MCDotenvs == {[g \in Gateways |-> IF g = g3 THEN t1 ELSE Unset]}

(* The first YAML has a token, the second may lack it, the third is blank. *)
MCYamls == {p1 :> t1 @@ p2 :> v @@ p3 :> Null : v \in {t1, Unset}}

(* The user may blank the second and fill in the third. *)
MCEdits == {<<p2, Null>>, <<p3, t1>>}

ModelSymmetry == Permutations(Models)
=============================================================================
