--------------------------- MODULE AccountSlotProofs ---------------------------
(***************************************************************************)
(* Proofs about AccountSlot, for any finite set of agents and any number   *)
(* of failures.                                                            *)
(***************************************************************************)
EXTENDS AccountSlot, FiniteSetTheorems, TLAPS

(* A close waits for an agent that still reads its socket, and a 4009 was  *)
(* sent to one that had been accepted.                                     *)
CutInv ==
    \A a \in Agents :
        /\ cut[a] # "none" => phase[a] \in {"greeting", "serving"}
        /\ cut[a] = "replaced" => phase[a] = "serving"

(* The agents that may yet authenticate without another failure.           *)
Pending ==
    {a \in Agents : phase[a] \in {"off", "dialing", "greeting", "waiting"}
                        \/ cut[a] = "lost"}

(* Every authentication so far and every one still to come has an agent's  *)
(* first attempt or a failure behind it.                                   *)
Budget == accepts + Cardinality(Pending) <= Cardinality(Agents) + failures

(* The inductive invariant. *)
IInv == TypeOK /\ CutInv /\ NewestSurvives /\ Budget

-----------------------------------------------------------------------------
LEMMA StepTypes == ASSUME TypeOK, [Next]_vars PROVE TypeOK'
<1> USE AgentsAssumption, BoundAssumption DEF TypeOK, Phases, Move
<1>1. ASSUME NEW a \in Agents, Start(a) PROVE TypeOK'
  BY <1>1 DEF Start
<1>2. ASSUME NEW a \in Agents, Dial(a) PROVE TypeOK'
  BY <1>2 DEF Dial
<1>3. ASSUME NEW a \in Agents, Accept(a) PROVE TypeOK'
  BY <1>3 DEF Accept
<1>4. ASSUME NEW a \in Agents, Drop(a) PROVE TypeOK'
  BY <1>4 DEF Drop
<1>5. ASSUME NEW a \in Agents, ReadClose(a) PROVE TypeOK'
  BY <1>5 DEF ReadClose
<1>6. ASSUME NEW a \in Agents, Raise(a) PROVE TypeOK'
  BY <1>6 DEF Raise
<1>7. ASSUME NEW a \in Agents, Wake(a) PROVE TypeOK'
  BY <1>7 DEF Wake
<1>8. CASE UNCHANGED vars
  BY <1>8 DEF vars
<1> QED
  BY <1>1, <1>2, <1>3, <1>4, <1>5, <1>6, <1>7, <1>8 DEF Next

(* No step leaves a close to an agent that has gone on. *)
LEMMA StepCut == ASSUME TypeOK, CutInv, [Next]_vars PROVE CutInv'
<1> USE DEF TypeOK, Phases, Move, CutInv
<1>1. ASSUME NEW a \in Agents, Start(a) PROVE CutInv'
  BY <1>1 DEF Start
<1>2. ASSUME NEW a \in Agents, Dial(a) PROVE CutInv'
  BY <1>2 DEF Dial
<1>3. ASSUME NEW a \in Agents, Accept(a) PROVE CutInv'
  BY <1>3 DEF Accept
<1>4. ASSUME NEW a \in Agents, Drop(a) PROVE CutInv'
  BY <1>4 DEF Drop
<1>5. ASSUME NEW a \in Agents, ReadClose(a) PROVE CutInv'
  BY <1>5 DEF ReadClose
<1>6. ASSUME NEW a \in Agents, Raise(a) PROVE CutInv'
  BY <1>6 DEF Raise
<1>7. ASSUME NEW a \in Agents, Wake(a) PROVE CutInv'
  BY <1>7 DEF Wake
<1>8. CASE UNCHANGED vars
  BY <1>8 DEF vars
<1> QED
  BY <1>1, <1>2, <1>3, <1>4, <1>5, <1>6, <1>7, <1>8 DEF Next

(* Only an authentication of another agent costs the newest one its place, *)
(* and then it is the newest no longer.                                    *)
LEMMA StepNewest ==
    ASSUME TypeOK, NewestSurvives, [Next]_vars PROVE NewestSurvives'
<1> USE DEF TypeOK, Phases, Move, NewestSurvives
<1>1. ASSUME NEW a \in Agents, Start(a) PROVE NewestSurvives'
  BY <1>1 DEF Start
<1>2. ASSUME NEW a \in Agents, Dial(a) PROVE NewestSurvives'
  BY <1>2 DEF Dial
<1>3. ASSUME NEW a \in Agents, Accept(a) PROVE NewestSurvives'
  BY <1>3 DEF Accept
<1>4. ASSUME NEW a \in Agents, Drop(a) PROVE NewestSurvives'
  BY <1>4 DEF Drop
<1>5. ASSUME NEW a \in Agents, ReadClose(a) PROVE NewestSurvives'
  BY <1>5 DEF ReadClose
<1>6. ASSUME NEW a \in Agents, Raise(a) PROVE NewestSurvives'
  BY <1>6 DEF Raise
<1>7. ASSUME NEW a \in Agents, Wake(a) PROVE NewestSurvives'
  BY <1>7 DEF Wake
<1>8. CASE UNCHANGED vars
  BY <1>8 DEF vars
<1> QED
  BY <1>1, <1>2, <1>3, <1>4, <1>5, <1>6, <1>7, <1>8 DEF Next

-----------------------------------------------------------------------------
LEMMA PendingFinite ==
    /\ IsFiniteSet(Pending)
    /\ Cardinality(Pending) \in Nat
    /\ Cardinality(Agents) \in Nat
    /\ Cardinality(Pending) <= Cardinality(Agents)
  BY AgentsAssumption, FS_Subset, FS_CardinalityType DEF Pending

(* A failure makes at most one more agent pending. *)
LEMMA OneMore ==
    ASSUME NEW a \in Agents, Pending' \subseteq Pending \cup {a}
    PROVE  /\ Cardinality(Pending') \in Nat
           /\ Cardinality(Pending') <= Cardinality(Pending) + 1
<1>1. /\ IsFiniteSet(Pending \cup {a})
      /\ Cardinality(Pending \cup {a}) <= Cardinality(Pending) + 1
  BY PendingFinite, FS_AddElement
<1> QED
  BY <1>1, PendingFinite, FS_Subset, FS_CardinalityType

(* Every step keeps the budget: an authentication takes an agent out of    *)
(* those that are pending, and only a failure brings one back.             *)
LEMMA StepBudget ==
    ASSUME TypeOK, CutInv, Budget, [Next]_vars PROVE Budget'
<1> USE PendingFinite DEF TypeOK, Phases, Move, Budget
<1>1. ASSUME Pending' = Pending, accepts' = accepts, failures' = failures
      PROVE  Budget'
  BY <1>1
<1>2. ASSUME NEW a \in Agents, Start(a) PROVE Budget'
  BY <1>2, <1>1 DEF Start, Pending
<1>3. ASSUME NEW a \in Agents, Dial(a) PROVE Budget'
  BY <1>3, <1>1 DEF Dial, Pending
<1>4. ASSUME NEW a \in Agents, Accept(a) PROVE Budget'
  <2>1. a \in Pending /\ Pending' = Pending \ {a}
    BY <1>4 DEF Accept, Pending
  <2>2. Cardinality(Pending') = Cardinality(Pending) - 1
    BY <2>1, FS_RemoveElement
  <2> QED
    BY <1>4, <2>2 DEF Accept
<1>5. ASSUME NEW a \in Agents, Drop(a) PROVE Budget'
  <2>1. Pending' \subseteq Pending \cup {a}
    BY <1>5 DEF Drop, Pending
  <2> QED
    BY <1>5, <2>1, OneMore DEF Drop
<1>6. ASSUME NEW a \in Agents, ReadClose(a) PROVE Budget'
  BY <1>6, <1>1 DEF ReadClose, Pending, CutInv
<1>7. ASSUME NEW a \in Agents, Raise(a) PROVE Budget'
  <2>1. Pending' \subseteq Pending \cup {a}
    BY <1>7 DEF Raise, Pending
  <2> QED
    BY <1>7, <2>1, OneMore DEF Raise
<1>8. ASSUME NEW a \in Agents, Wake(a) PROVE Budget'
  BY <1>8, <1>1 DEF Wake, Pending
<1>9. CASE UNCHANGED vars
  BY <1>9, <1>1 DEF vars, Pending
<1> QED
  BY <1>2, <1>3, <1>4, <1>5, <1>6, <1>7, <1>8, <1>9 DEF Next

-----------------------------------------------------------------------------
(* The inductive invariant of the slot. *)
THEOREM SlotCorrect == Spec => []IInv
<1>1. Init => IInv
  <2> SUFFICES ASSUME Init PROVE IInv
    OBVIOUS
  <2>1. TypeOK /\ CutInv /\ NewestSurvives
    BY AgentsAssumption, BoundAssumption
       DEF Init, TypeOK, Phases, CutInv, NewestSurvives
  <2>2. Budget
    BY PendingFinite DEF Init, Budget
  <2> QED
    BY <2>1, <2>2 DEF IInv
<1>2. IInv /\ [Next]_vars => IInv'
  BY StepTypes, StepCut, StepNewest, StepBudget DEF IInv
<1> QED
  BY <1>1, <1>2, PTL DEF Spec

(* However many agents replace each other, the newest one is not retired   *)
(* (_run_loop 164-167).                                                    *)
THEOREM NewestCorrect == Spec => []NewestSurvives
<1>1. IInv => NewestSurvives
  BY DEF IInv
<1> QED
  BY <1>1, SlotCorrect, PTL

(* Agents that replace each other do not go round in circles: no more      *)
(* authentications than agents and failures (_run_loop 164-167).           *)
THEOREM NoLoopCorrect == Spec => []NoReplaceLoop
<1>1. IInv => NoReplaceLoop
  BY PendingFinite DEF IInv, TypeOK, Budget, NoReplaceLoop
<1> QED
  BY <1>1, SlotCorrect, PTL

-----------------------------------------------------------------------------
(* The promise of one agent is that of AgentLink. *)

LEMMA LinkInit == ASSUME Init, NEW a \in Agents PROVE Link(a)!Init
  BY DEF Init, Link!Init, Line

(* What another agent does shows at most as a replacement. *)
LEMMA LinkStep ==
    ASSUME TypeOK, CutInv, [Next]_vars, NEW a \in Agents, a \notin raised'
    PROVE  [Link(a)!Next]_(Link(a)!linkVars)
<1> USE DEF TypeOK, Phases, Move, CutInv, Line
<1> DEFINE Gone == phase[a] = "retired" \/ cut[a] = "replaced"
<1>1. ASSUME Line(a)' = Line(a), Gone' = Gone
      PROVE  [Link(a)!Next]_(Link(a)!linkVars)
  BY <1>1 DEF Link!linkVars
<1>2. ASSUME NEW b \in Agents, Start(b)
      PROVE  [Link(a)!Next]_(Link(a)!linkVars)
  BY <1>1, <1>2 DEF Start
<1>3. ASSUME NEW b \in Agents, Dial(b)
      PROVE  [Link(a)!Next]_(Link(a)!linkVars)
  <2>1. CASE a = b
    BY <1>3, <2>1 DEF Dial, Link!Next, Link!Dial
  <2>2. CASE a # b
    BY <1>1, <1>3, <2>2 DEF Dial
  <2> QED
    BY <2>1, <2>2
<1>4. ASSUME NEW b \in Agents, Accept(b)
      PROVE  [Link(a)!Next]_(Link(a)!linkVars)
  <2>1. CASE a = b
    BY <1>4, <2>1 DEF Accept, Link!Next, Link!Admit
  <2>2. CASE a # b /\ phase[a] = "serving" /\ cut[a] = "none"
    BY <1>4, <2>2 DEF Accept, Link!Next, Link!Replace
  <2>3. CASE a # b /\ ~(phase[a] = "serving" /\ cut[a] = "none")
    BY <1>1, <1>4, <2>3 DEF Accept
  <2> QED
    BY <2>1, <2>2, <2>3
<1>5. ASSUME NEW b \in Agents, Drop(b)
      PROVE  [Link(a)!Next]_(Link(a)!linkVars)
  <2>1. CASE a = b
    BY <1>5, <2>1 DEF Drop, Link!Next, Link!Drop
  <2>2. CASE a # b
    BY <1>1, <1>5, <2>2 DEF Drop
  <2> QED
    BY <2>1, <2>2
<1>6. ASSUME NEW b \in Agents, ReadClose(b)
      PROVE  [Link(a)!Next]_(Link(a)!linkVars)
  BY <1>1, <1>6 DEF ReadClose
<1>7. ASSUME NEW b \in Agents, Raise(b)
      PROVE  [Link(a)!Next]_(Link(a)!linkVars)
  <2>1. a # b
    BY <1>7 DEF Raise
  <2> QED
    BY <1>1, <1>7, <2>1 DEF Raise
<1>8. ASSUME NEW b \in Agents, Wake(b)
      PROVE  [Link(a)!Next]_(Link(a)!linkVars)
  BY <1>1, <1>8 DEF Wake
<1>9. CASE UNCHANGED vars
  BY <1>1, <1>9 DEF vars
<1> QED
  BY <1>2, <1>3, <1>4, <1>5, <1>6, <1>7, <1>8, <1>9 DEF Next

(* Every agent implements AgentLink for as long as none of its handlers    *)
(* raised, whatever the others do: replaced, it never dials again          *)
(* (_run_loop, _connect_once).                                             *)
THEOREM PromiseCorrect == Spec => AgentsKeepPromise
<1>1. Init => \A a \in Agents : Link(a)!Init
  BY LinkInit
<1>2. IInv /\ [Next]_vars =>
          [\A a \in Agents \ raised' : [Link(a)!Next]_(Link(a)!linkVars)]_vars
  BY LinkStep DEF IInv
<1> QED
  BY <1>1, <1>2, SlotCorrect, PTL DEF Spec, AgentsKeepPromise
================================================================================
