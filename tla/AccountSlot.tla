----------------------------- MODULE AccountSlot -----------------------------
(***************************************************************************)
(* Several agents on one BotsChat account.  The ConnectionDO keeps a       *)
(* single agent socket: it closes every other one with 4009 when a new one *)
(* authenticates (README 229-232).  Each agent is the client of            *)
(* ws_client.py reduced to its promise, AgentLink, plus the close that is  *)
(* on its way to it and not read yet.                                      *)
(***************************************************************************)
EXTENDS Naturals, FiniteSets

CONSTANTS
    Agents,          \* profiles that open a connection on the account
    NoAgent,         \* no agent has authenticated yet
    FailureBound     \* bound on the connections that die or are abandoned

ASSUME AgentsAssumption == IsFiniteSet(Agents) /\ NoAgent \notin Agents
ASSUME BoundAssumption == FailureBound \in Nat

VARIABLES
    phase,    \* agent |-> where its run task is
    cut,      \* agent |-> the close its socket got and it has not read
    newest,   \* the agent whose authentication the DO accepted last
    accepts,  \* number of authentications accepted
    failures, \* number of connections that died or were abandoned
    raised    \* agents whose message handler raised

vars == <<phase, cut, newest, accepts, failures, raised>>

Phases == {"off", "dialing", "greeting", "serving", "waiting", "retired"}

TypeOK ==
    /\ phase \in [Agents -> Phases]
    /\ cut \in [Agents -> {"none", "lost", "replaced"}]
    /\ newest \in Agents \cup {NoAgent}
    /\ accepts \in Nat
    /\ failures \in 0..FailureBound
    /\ raised \subseteq Agents

Init ==
    /\ phase = [a \in Agents |-> "off"]
    /\ cut = [a \in Agents |-> "none"]
    /\ newest = NoAgent
    /\ accepts = 0
    /\ failures = 0
    /\ raised = {}

Move(a, p) == phase' = [phase EXCEPT ![a] = p]

Start(a) ==
    /\ phase[a] = "off"
    /\ Move(a, "dialing")
    /\ UNCHANGED <<cut, newest, accepts, failures, raised>>

(* The connect succeeds and the auth frame leaves. *)
Dial(a) ==
    /\ phase[a] = "dialing"
    /\ Move(a, "greeting")
    /\ UNCHANGED <<cut, newest, accepts, failures, raised>>

(* The DO accepts agent a and closes every other agent socket with 4009. *)
Accept(a) ==
    /\ phase[a] = "greeting"
    /\ cut[a] = "none"
    /\ Move(a, "serving")
    /\ cut' = [b \in Agents |->
                  IF b # a /\ phase[b] = "serving" /\ cut[b] = "none"
                  THEN "replaced" ELSE cut[b]]
    /\ newest' = a
    /\ accepts' = accepts + 1
    /\ UNCHANGED <<failures, raised>>

(* The connection of an agent dies before the DO closes it. *)
Drop(a) ==
    /\ phase[a] \in {"greeting", "serving"}
    /\ cut[a] = "none"
    /\ failures < FailureBound
    /\ cut' = [cut EXCEPT ![a] = "lost"]
    /\ failures' = failures + 1
    /\ UNCHANGED <<phase, newest, accepts, raised>>

(* Mutants of ReadClose: every close retires the agent; 4009 is a close    *)
(* like any other.                                                         *)
ReadCloseRetires(a) ==
    /\ phase[a] \in {"greeting", "serving"}
    /\ cut[a] # "none"
    /\ Move(a, "retired")
    /\ cut' = [cut EXCEPT ![a] = "none"]
    /\ UNCHANGED <<newest, accepts, failures, raised>>
ReadCloseRetries(a) ==
    /\ phase[a] \in {"greeting", "serving"}
    /\ cut[a] # "none"
    /\ Move(a, "waiting")
    /\ cut' = [cut EXCEPT ![a] = "none"]
    /\ UNCHANGED <<newest, accepts, failures, raised>>

(* The agent reads the close: 4009 retires it, anything else sends it into *)
(* its backoff.                                                            *)
ReadClose(a) ==
    /\ phase[a] \in {"greeting", "serving"}
    /\ cut[a] # "none"
    /\ Move(a, IF cut[a] = "replaced" THEN "retired" ELSE "waiting")
    /\ cut' = [cut EXCEPT ![a] = "none"]
    /\ UNCHANGED <<newest, accepts, failures, raised>>

(* The handler raises: the run loop leaves the socket, read or not, and    *)
(* goes into its backoff.                                                  *)
Raise(a) ==
    /\ phase[a] = "serving"
    /\ failures < FailureBound
    /\ Move(a, "waiting")
    /\ cut' = [cut EXCEPT ![a] = "none"]
    /\ failures' = failures + 1
    /\ raised' = raised \cup {a}
    /\ UNCHANGED <<newest, accepts>>

(* Mutant of Wake: the agent gives up once the failures have run out. *)
WakeGivesUp(a) ==
    /\ phase[a] = "waiting"
    /\ failures < FailureBound
    /\ Move(a, "dialing")
    /\ UNCHANGED <<cut, newest, accepts, failures, raised>>

(* The backoff ends. *)
Wake(a) ==
    /\ phase[a] = "waiting"
    /\ Move(a, "dialing")
    /\ UNCHANGED <<cut, newest, accepts, failures, raised>>

Next ==
    \E a \in Agents :
        Start(a) \/ Dial(a) \/ Accept(a) \/ Drop(a) \/ ReadClose(a)
            \/ Raise(a) \/ Wake(a)

Spec == Init /\ [][Next]_vars

(* Every client runs, and the DO answers every auth frame. *)
FairSpec ==
    Spec /\ \A a \in Agents :
                WF_vars(Dial(a) \/ Accept(a) \/ ReadClose(a) \/ Wake(a))

(* Each agent keeps the promise of AgentLink. *)
Line(a) ==
    IF cut[a] # "none" THEN "down"
    ELSE IF phase[a] \in {"greeting", "serving"} THEN phase[a] ELSE "down"

Link(a) == INSTANCE AgentLink WITH
               line <- Line(a),
               retired <- (phase[a] = "retired" \/ cut[a] = "replaced")

-----------------------------------------------------------------------------
(* Properties *)

(* Replacement never leaves the account without an agent: whatever order   *)
(* authentications, drops and 4009s come in, the agents do not retire each *)
(* other, and the newest one is never the victim (_run_loop 164-167).      *)
NewestSurvives ==
    newest # NoAgent => phase[newest] # "retired" /\ cut[newest] # "replaced"

(* "without a loop" (docs/spec.md 145): agents that replace each other do  *)
(* not go round in circles; only a connection that died or was abandoned   *)
(* is followed by another authentication (_run_loop 164-167).              *)
NoReplaceLoop == accepts <= Cardinality(Agents) + failures

(* An agent whose handler never raised keeps its own promise while the     *)
(* others, raising or not, fight over the slot: once it was replaced it    *)
(* never dials again (_run_loop, _connect_once).                           *)
AgentsKeepPromise ==
    /\ \A a \in Agents : Link(a)!Init
    /\ [][\A a \in Agents \ raised' : [Link(a)!Next]_(Link(a)!linkVars)]_vars

(* Fair: the fight ends with every started agent retired except one, which *)
(* is served for good (_run_loop).                                         *)
Settles ==
    <>[](/\ \A a \in Agents : phase[a] \in {"off", "serving", "retired"}
         /\ Cardinality({a \in Agents : phase[a] = "serving"}) <= 1)
=============================================================================
