------------------------------ MODULE AgentLink ------------------------------
(***************************************************************************)
(* What one agent promises its BotsChat account: at most one connection,   *)
(* which greets and is then served, and which is never dialled again once  *)
(* the agent has retired, be it by stop(), by auth.fail or by a 4009       *)
(* (the docstring of ws_client.py, lines 5-11).                            *)
(***************************************************************************)

VARIABLES
    line,     \* "down", "greeting" (auth sent), "serving" (auth accepted)
    retired   \* will this agent never dial again?

linkVars == <<line, retired>>

Init ==
    /\ line = "down"
    /\ retired = FALSE

Dial ==
    /\ ~retired
    /\ line = "down"
    /\ line' = "greeting"
    /\ UNCHANGED retired

Admit ==
    /\ line = "greeting"
    /\ line' = "serving"
    /\ UNCHANGED retired

Drop ==
    /\ line # "down"
    /\ line' = "down"
    /\ UNCHANGED retired

(* stop() or an auth.fail: the connection is closed afterwards. *)
Retire ==
    /\ ~retired
    /\ retired' = TRUE
    /\ UNCHANGED line

(* 4009: a newer connection of the account took this one's place. *)
Replace ==
    /\ ~retired
    /\ line = "serving"
    /\ line' = "down"
    /\ retired' = TRUE

Next == Dial \/ Admit \/ Drop \/ Retire \/ Replace

Spec == Init /\ [][Next]_linkVars
=============================================================================
