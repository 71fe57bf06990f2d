------------------------------ MODULE MCInbound ------------------------------
(* A small instance of Inbound for TLC: two sessions whose tools could be    *)
(* mixed up, and three frames, so that two may wait behind a download.       *)
EXTENDS Inbound, TLC

Shape(kind, sealed, attached, named) ==
    [kind |-> kind, sealed |-> sealed, attached |-> attached, named |-> named]

(* A message is plain, sealed, sealed with a file, or that without an id;   *)
(* an action has no user.                                                   *)
MCShapes ==
    {Shape("message", FALSE, FALSE, TRUE), Shape("message", TRUE, FALSE, TRUE),
     Shape("message", TRUE, TRUE, TRUE), Shape("message", TRUE, TRUE, FALSE),
     Shape("command", FALSE, FALSE, TRUE), Shape("action", FALSE, FALSE, FALSE),
     Shape("media", TRUE, TRUE, TRUE)}

Symmetric == Permutations(Sessions)
=============================================================================
