----------------------------- MODULE JobRunsProofs -----------------------------
(***************************************************************************)
(* Proofs about JobRuns, for any requests and any scheduled executions.    *)
(***************************************************************************)
EXTENDS JobRuns, TLAPS

(* A request executes after its announcement, and a hook tells of an       *)
(* execution that has begun.                                               *)
StartInv ==
    /\ \A r \in Runs :
           poll[r] \in {"none", "unknown", "announcing"} => exec[r] = "none"
    /\ \A e \in Executions : exec[e] = "none" => tale[e] = "none"

(* The record is the one of the execution that was recorded last. *)
RecordInv ==
    /\ \A e \in Executions :
           IF exec[e] = "recorded"
             THEN order[e] \in 1..lastRun /\ result[e] \in {"ok", "error"}
             ELSE order[e] = 0 /\ result[e] = "none"
    /\ \A e, f \in Executions :
           exec[e] = "recorded" /\ order[e] = order[f] => e = f
    /\ IF lastRun = 0 THEN status = "none"
       ELSE \E e \in Executions :
                exec[e] = "recorded" /\ order[e] = lastRun /\ result[e] = status

(* No request has read a record from the future. *)
LaterInv == \A r \in Runs : preRun[r] <= lastRun

(* e, or the request that asks for it, is under way. *)
Busy(e) ==
    \/ AtWork(e)
    \/ e \in Runs /\ poll[e] \in {"announcing", "polling"}

(* Unless there has been an overlap, one at a time is under way, *)
SoloInv == ~overlap =>
    \A e, f \in Executions : Busy(e) /\ Busy(f) => e = f

(* nothing is recorded between the record of an execution and its hook, in *)
(* whichever order they come,                                              *)
HookInv == ~overlap => \A e \in Executions \ blind :
    /\ exec[e] = "recorded" /\ tale[e] = "none" => order[e] = lastRun
    /\ exec[e] = "running" /\ tale[e] \in {"ok", "error"} =>
           \/ tale[e] = status
           \/ tale[e] = "ok" /\ (lastRun = 0 \/ ~exists)

(* and nothing but the run itself while its request is polled.             *)
PollInv == ~overlap => \A r \in Runs :
    poll[r] \in {"announcing", "polling"} =>
        IF exec[r] = "recorded" THEN order[r] = lastRun ELSE lastRun = preRun[r]

(* The inductive invariant. *)
IInv == /\ TypeOK /\ StartInv /\ RecordInv /\ SoloInv
        /\ HookInv /\ HookLagsByOne
        /\ PollInv /\ ShowsOwnRun
        /\ LaterInv /\ ShowsLaterRun

-----------------------------------------------------------------------------
LEMMA Members == Runs \subseteq Executions /\ Scheduled \subseteq Executions
  BY DEF Executions

(* Every step keeps the types. *)
LEMMA StepTypes == ASSUME TypeOK, [Next]_vars PROVE TypeOK'
<1> USE Members DEF TypeOK, hermesVars, pastVars
<1>1. ASSUME NEW r \in Runs, Run(r) PROVE TypeOK'
  BY <1>1 DEF Run
<1>2. ASSUME NEW r \in Runs, Dispatch(r) PROVE TypeOK'
  BY <1>2 DEF Dispatch
<1>3. ASSUME NEW r \in Runs, Report(r) PROVE TypeOK'
  BY <1>3 DEF Report
<1>4. ASSUME NEW r \in Runs, FindGone(r) PROVE TypeOK'
  BY <1>4 DEF FindGone
<1>5. ASSUME NEW r \in Runs, Expire(r) PROVE TypeOK'
  BY <1>5 DEF Expire
<1>6. ASSUME NEW e \in Executions, Fire(e) PROVE TypeOK'
  BY <1>6 DEF Fire
<1>7. ASSUME NEW e \in Executions, SessionEnds(e) PROVE TypeOK'
  <2>1. Recorded \in {"ok", "error"}
    BY DEF Recorded
  <2> QED
    BY <1>7, <2>1 DEF SessionEnds
<1>8. ASSUME NEW e \in Executions, NEW s \in {"ok", "error"}, EndExecution(e, s)
      PROVE  TypeOK'
  BY <1>8 DEF EndExecution
<1>9. CASE DeleteJob
  BY <1>9 DEF DeleteJob
<1>10. CASE UNCHANGED vars
  BY <1>10 DEF vars
<1> QED
  BY <1>1, <1>2, <1>3, <1>4, <1>5, <1>6, <1>7, <1>8, <1>9, <1>10 DEF Next

LEMMA StepStart ==
    ASSUME TypeOK, StartInv, [Next]_vars PROVE StartInv'
<1> USE Members, RunsAssumption DEF TypeOK, StartInv, hermesVars, pastVars
<1>1. ASSUME NEW r \in Runs, Run(r) PROVE StartInv'
  BY <1>1 DEF Run
<1>2. ASSUME NEW r \in Runs, Dispatch(r) PROVE StartInv'
  BY <1>2 DEF Dispatch
<1>3. ASSUME NEW r \in Runs, Report(r) \/ FindGone(r) \/ Expire(r) PROVE StartInv'
  BY <1>3 DEF Report, FindGone, Expire
<1>4. ASSUME NEW e \in Executions, Fire(e) PROVE StartInv'
  BY <1>4 DEF Fire
<1>5. ASSUME NEW e \in Executions, SessionEnds(e) PROVE StartInv'
  BY <1>5 DEF SessionEnds
<1>6. ASSUME NEW e \in Executions, NEW s \in {"ok", "error"}, EndExecution(e, s)
      PROVE  StartInv'
  BY <1>6 DEF EndExecution
<1>7. CASE DeleteJob \/ UNCHANGED vars
  BY <1>7 DEF DeleteJob, vars
<1> QED
  BY <1>1, <1>2, <1>3, <1>4, <1>5, <1>6, <1>7 DEF Next

(* Only the end of an execution touches the record. *)
LEMMA StepRecord ==
    ASSUME TypeOK, StartInv, RecordInv, [Next]_vars PROVE RecordInv'
<1> USE Members, RunsAssumption DEF TypeOK, hermesVars, pastVars
<1>1. ASSUME UNCHANGED <<lastRun, status, result, order>>,
             \A e \in Executions : exec'[e] = "recorded" <=> exec[e] = "recorded"
      PROVE  RecordInv'
  BY <1>1 DEF RecordInv
<1>2. ASSUME NEW r \in Runs, Dispatch(r) PROVE RecordInv'
  BY <1>1, <1>2 DEF Dispatch, StartInv
<1>3. ASSUME NEW r \in Runs, Run(r) \/ Report(r) \/ FindGone(r) \/ Expire(r)
      PROVE  RecordInv'
  BY <1>1, <1>3 DEF Run, Report, FindGone, Expire
<1>4. ASSUME NEW e \in Executions, Fire(e) \/ SessionEnds(e) PROVE RecordInv'
  BY <1>1, <1>4 DEF Fire, SessionEnds
<1>5. ASSUME NEW e \in Executions, NEW s \in {"ok", "error"}, EndExecution(e, s)
      PROVE  RecordInv'
  <2>1. /\ exec[e] = "running" /\ order[e] = 0
        /\ exec' = [exec EXCEPT ![e] = "recorded"]
        /\ result' = [result EXCEPT ![e] = s]
        /\ lastRun' = lastRun + 1 /\ status' = s
        /\ order' = [order EXCEPT ![e] = lastRun + 1]
    BY <1>5 DEF EndExecution, RecordInv
  <2>2. exec'[e] = "recorded" /\ order'[e] = lastRun' /\ result'[e] = s /\ lastRun' # 0
    BY <2>1
  <2>3. \A f \in Executions \ {e} :
            exec'[f] = exec[f] /\ order'[f] = order[f] /\ result'[f] = result[f]
    BY <2>1
  <2>4. ASSUME NEW f \in Executions
        PROVE  IF exec'[f] = "recorded"
                 THEN order'[f] \in 1..lastRun' /\ result'[f] \in {"ok", "error"}
                 ELSE order'[f] = 0 /\ result'[f] = "none"
    <3>1. CASE f = e
      BY <2>1, <2>2, <3>1
    <3>2. CASE f # e
      BY <2>1, <2>3, <3>2 DEF RecordInv
    <3> QED
      BY <3>1, <3>2
  <2>5. \A f \in Executions : order[f] # lastRun + 1
    BY DEF RecordInv
  <2>6. ASSUME NEW f \in Executions, NEW g \in Executions,
               exec'[f] = "recorded", order'[f] = order'[g]
        PROVE  f = g
    <3>1. CASE f = e \/ g = e
      BY <2>1, <2>2, <2>3, <2>5, <2>6, <3>1
    <3>2. CASE f # e /\ g # e
      BY <2>3, <2>6, <3>2 DEF RecordInv
    <3> QED
      BY <3>1, <3>2
  <2> QED
    BY <2>1, <2>2, <2>4, <2>6 DEF RecordInv
<1>6. CASE DeleteJob \/ UNCHANGED vars
  BY <1>1, <1>6 DEF DeleteJob, vars
<1> QED
  BY <1>2, <1>3, <1>4, <1>5, <1>6 DEF Next

(* Without an overlap, what begins begins alone. *)
LEMMA AloneIsIdle ==
    ASSUME TypeOK, Alone, NEW e \in Executions PROVE ~Busy(e)
  BY DEF TypeOK, Alone, Busy

LEMMA StepSolo ==
    ASSUME TypeOK, StartInv, SoloInv, [Next]_vars PROVE SoloInv'
<1> USE Members, RunsAssumption DEF TypeOK, hermesVars, pastVars
<1>1. ASSUME overlap' = overlap, \A e \in Executions : Busy(e)' => Busy(e)
      PROVE  SoloInv'
  BY <1>1 DEF SoloInv
<1>2. ASSUME NEW d \in Executions, overlap' = (overlap \/ ~Alone),
             \A e \in Executions : Busy(e)' => Busy(e) \/ e = d
      PROVE  SoloInv'
  BY <1>2, AloneIsIdle DEF SoloInv
<1>3. ASSUME NEW r \in Runs, Run(r) PROVE SoloInv'
  <2>1. CASE poll' = [poll EXCEPT ![r] = "announcing"]
    BY <1>2, <1>3, <2>1 DEF Run, Busy, AtWork
  <2>2. CASE poll' = [poll EXCEPT ![r] = "unknown"]
    <3>1. overlap' = overlap /\ exec' = exec /\ tale' = tale
      BY <1>3, <2>2 DEF Run
    <3> QED
      BY <1>1, <2>2, <3>1 DEF Busy, AtWork
  <2> QED
    BY <1>3, <2>1, <2>2 DEF Run
<1>4. ASSUME NEW r \in Runs, Dispatch(r) PROVE SoloInv'
  <2>1. /\ poll[r] = "announcing" /\ poll' = [poll EXCEPT ![r] = "polling"]
        /\ exec' = exec \/ exec' = [exec EXCEPT ![r] = "running"]
        /\ tale' = tale /\ overlap' = overlap
    BY <1>4 DEF Dispatch
  <2>2. \A e \in Executions : Busy(e)' => Busy(e)
    BY <2>1 DEF Busy, AtWork
  <2> QED
    BY <1>1, <2>1, <2>2
<1>5. ASSUME NEW r \in Runs, Report(r) \/ FindGone(r) \/ Expire(r) PROVE SoloInv'
  <2>1. /\ \A q \in Runs :
               poll'[q] \in {"announcing", "polling"} => poll'[q] = poll[q]
        /\ exec' = exec /\ tale' = tale /\ overlap' = overlap
    BY <1>5 DEF Report, FindGone, Expire
  <2>2. \A e \in Executions : Busy(e)' => Busy(e)
    BY <2>1 DEF Busy, AtWork
  <2> QED
    BY <1>1, <2>1, <2>2
<1>6. ASSUME NEW e \in Executions, Fire(e) PROVE SoloInv'
  <2>1. /\ exec' = [exec EXCEPT ![e] = "running"]
        /\ poll' = poll /\ tale' = tale /\ overlap' = (overlap \/ ~Alone)
    BY <1>6 DEF Fire
  <2>2. \A d \in Executions : Busy(d)' => Busy(d) \/ d = e
    BY <2>1 DEF Busy, AtWork
  <2> QED
    BY <1>2, <2>1, <2>2
<1>7. ASSUME NEW e \in Executions, SessionEnds(e) PROVE SoloInv'
  BY <1>1, <1>7 DEF SessionEnds, Busy, AtWork
<1>8. ASSUME NEW e \in Executions, NEW s \in {"ok", "error"}, EndExecution(e, s)
      PROVE  SoloInv'
  BY <1>1, <1>8 DEF EndExecution, Busy, AtWork
<1>9. CASE DeleteJob \/ UNCHANGED vars
  BY <1>1, <1>9 DEF DeleteJob, vars, Busy, AtWork
<1> QED
  BY <1>3, <1>4, <1>5, <1>6, <1>7, <1>8, <1>9 DEF Next

(* Without an overlap, the end of an execution finds nothing else under    *)
(* way, neither an execution nor a request.                                *)
LEMMA EndsAlone ==
    ASSUME SoloInv, ~overlap, NEW e \in Executions, exec[e] = "running",
           NEW f \in Executions, f # e
    PROVE  ~Busy(f)
  BY DEF SoloInv, Busy, AtWork

(* The status of the record is how the execution it is of ended. *)
LEMMA StatusOf ==
    ASSUME RecordInv, NEW e \in Executions, exec[e] = "recorded", order[e] = lastRun,
           TypeOK
    PROVE  status = result[e] /\ status \in {"ok", "error"}
<1>1. lastRun # 0
  BY DEF RecordInv, TypeOK
<1>2. PICK f \in Executions :
          exec[f] = "recorded" /\ order[f] = lastRun /\ result[f] = status
  BY <1>1 DEF RecordInv
<1>3. f = e
  BY <1>2 DEF RecordInv
<1> QED
  BY <1>2, <1>3 DEF RecordInv

(* A hook reads the record of its own execution, or of the one before it.  *)
LEMMA StepHook ==
    ASSUME TypeOK, StartInv, RecordInv, SoloInv, HookInv, [Next]_vars PROVE HookInv'
<1> USE Members, RunsAssumption DEF TypeOK, hermesVars, pastVars
<1>1. ASSUME UNCHANGED <<lastRun, status, order, tale, blind>>, overlap => overlap',
             exists' => exists,
             \A e \in Executions : exec'[e] # exec[e] => tale[e] = "none" /\ exec'[e] = "running"
      PROVE  HookInv'
  BY <1>1 DEF HookInv
<1>2. ASSUME NEW r \in Runs, Dispatch(r) PROVE HookInv'
  BY <1>1, <1>2 DEF Dispatch, StartInv
<1>3. ASSUME NEW r \in Runs, Run(r) \/ Report(r) \/ FindGone(r) \/ Expire(r)
      PROVE  HookInv'
  BY <1>1, <1>3 DEF Run, Report, FindGone, Expire
<1>4. ASSUME NEW e \in Executions, Fire(e) PROVE HookInv'
  BY <1>1, <1>4 DEF Fire, StartInv
<1>5. ASSUME NEW e \in Executions, SessionEnds(e) PROVE HookInv'
  <2>1. /\ UNCHANGED <<exists, lastRun, status, exec, order, overlap>>
        /\ blind \subseteq blind'
    BY <1>5 DEF SessionEnds
  <2>2. Recorded = status \/ (Recorded = "ok" /\ (lastRun = 0 \/ ~exists))
    BY DEF Recorded, RecordInv
  <2>3. e \notin blind' => tale'[e] = Recorded \/ tale'[e] = "lost"
    BY <1>5 DEF SessionEnds
  <2>4. Recorded # "none"
    BY DEF Recorded
  <2>5. \A f \in Executions \ {e} : tale'[f] = tale[f]
    BY <1>5 DEF SessionEnds
  <2>6. e \notin blind' => tale'[e] # "none"
    BY <2>3, <2>4
  <2> QED
    BY <2>1, <2>2, <2>3, <2>5, <2>6 DEF HookInv
<1>6. ASSUME NEW e \in Executions, NEW s \in {"ok", "error"}, EndExecution(e, s)
      PROVE  HookInv'
  <2>1. SUFFICES ASSUME ~overlap', NEW f \in Executions, f \notin blind'
                 PROVE  /\ exec'[f] = "recorded" /\ tale'[f] = "none" =>
                               order'[f] = lastRun'
                        /\ exec'[f] # "running"
    BY DEF HookInv
  <2>2. CASE f = e
    BY <1>6, <2>2 DEF EndExecution
  <2>3. CASE f # e
    <3>1. ~Busy(f)
      BY <1>6, <2>1, <2>3, EndsAlone DEF EndExecution
    <3> QED
      BY <1>6, <2>3, <3>1 DEF EndExecution, Busy, AtWork
  <2> QED
    BY <2>2, <2>3
<1>7. CASE DeleteJob
  BY <1>1, <1>7 DEF DeleteJob
<1>8. CASE UNCHANGED vars
  BY <1>1, <1>8 DEF vars
<1> QED
  BY <1>2, <1>3, <1>4, <1>5, <1>6, <1>7, <1>8 DEF Next

(* What a hook has told of a recorded execution stays true. *)
Told(e) ==
    \/ tale[e] = result[e]
    \/ \E f \in Executions : order[f] = order[e] - 1 /\ result[f] = tale[e]
    \/ tale[e] = "ok" /\ (order[e] = 1 \/ ~exists)

LEMMA StepTold ==
    ASSUME TypeOK, StartInv, RecordInv, SoloInv, HookInv, HookLagsByOne, [Next]_vars
    PROVE  HookLagsByOne'
<1> USE Members, RunsAssumption DEF TypeOK, hermesVars, pastVars
<1>1. ASSUME UNCHANGED <<result, order, tale, blind>>, overlap => overlap',
             exists' => exists,
             \A e \in Executions : exec'[e] = "recorded" => exec[e] = "recorded"
      PROVE  HookLagsByOne'
  BY <1>1 DEF HookLagsByOne
<1>2. ASSUME NEW r \in Runs,
             Run(r) \/ Dispatch(r) \/ Report(r) \/ FindGone(r) \/ Expire(r)
      PROVE  HookLagsByOne'
  BY <1>1, <1>2 DEF Run, Dispatch, Report, FindGone, Expire
<1>3. ASSUME NEW e \in Executions, Fire(e) PROVE HookLagsByOne'
  BY <1>1, <1>3 DEF Fire
<1>4. ASSUME NEW e \in Executions, SessionEnds(e) PROVE HookLagsByOne'
  <2>1. SUFFICES ASSUME ~overlap', NEW f \in Executions, f \notin blind',
                        exec'[f] = "recorded", tale'[f] \in {"ok", "error"}
                 PROVE  Told(f)'
    BY DEF HookLagsByOne, Told
  <2>2. /\ UNCHANGED <<exists, exec, result, order, overlap>>
        /\ f \notin blind
    BY <1>4, <2>1 DEF SessionEnds
  <2>3. CASE f = e
    <3>1. order[e] = lastRun /\ tale'[e] = Recorded
      BY <1>4, <2>1, <2>2, <2>3 DEF SessionEnds, HookInv
    <3>2. status = result[e] /\ status \in {"ok", "error"}
      BY <2>1, <2>2, <2>3, <3>1, StatusOf
    <3> QED
      BY <2>2, <2>3, <3>1, <3>2 DEF Told, Recorded
  <2>4. CASE f # e
    <3>1. tale'[f] = tale[f]
      BY <1>4, <2>4 DEF SessionEnds
    <3>2. Told(f)
      BY <2>1, <2>2, <3>1 DEF HookLagsByOne, Told
    <3> QED
      BY <2>2, <3>1, <3>2 DEF Told
  <2> QED
    BY <2>3, <2>4
<1>5. ASSUME NEW e \in Executions, NEW s \in {"ok", "error"}, EndExecution(e, s)
      PROVE  HookLagsByOne'
  <2>1. SUFFICES ASSUME ~overlap', NEW f \in Executions, f \notin blind',
                        exec'[f] = "recorded", tale'[f] \in {"ok", "error"}
                 PROVE  Told(f)'
    BY DEF HookLagsByOne, Told
  <2>2. /\ exec[e] = "running" /\ order'[e] = lastRun + 1
        /\ \A g \in Executions \ {e} :
               exec'[g] = exec[g] /\ order'[g] = order[g] /\ result'[g] = result[g]
        /\ UNCHANGED <<exists, tale, overlap, blind>>
    BY <1>5 DEF EndExecution
  <2>3. CASE f = e
    <3>1. tale[e] = status \/ (tale[e] = "ok" /\ (lastRun = 0 \/ ~exists))
      BY <2>1, <2>2, <2>3 DEF HookInv
    <3>2. CASE tale[e] = "ok" /\ (lastRun = 0 \/ ~exists)
      BY <2>2, <2>3, <3>2 DEF Told
    <3>3. CASE tale[e] = status
      <4>1. PICK g \in Executions :
                exec[g] = "recorded" /\ order[g] = lastRun /\ result[g] = status
        BY <2>1, <2>2, <2>3, <3>3 DEF RecordInv
      <4>2. g # e
        BY <2>2, <4>1
      <4>3. order'[g] = order'[e] - 1 /\ result'[g] = tale'[e]
        BY <2>2, <3>3, <4>1, <4>2
      <4> QED
        BY <2>3, <4>3 DEF Told
    <3> QED
      BY <3>1, <3>2, <3>3
  <2>4. CASE f # e
    <3>1. Told(f)
      BY <2>1, <2>2, <2>4 DEF HookLagsByOne, Told
    <3>2. ASSUME NEW g \in Executions, order[g] = order[f] - 1, result[g] = tale[f]
          PROVE  order'[g] = order'[f] - 1 /\ result'[g] = tale'[f]
      <4>1. g # e
        BY <2>1, <2>2, <3>2 DEF RecordInv
      <4> QED
        BY <2>2, <2>4, <3>2, <4>1
    <3> QED
      BY <2>2, <2>4, <3>1, <3>2 DEF Told
  <2> QED
    BY <2>3, <2>4
<1>6. CASE DeleteJob
  BY <1>1, <1>6 DEF DeleteJob
<1>7. CASE UNCHANGED vars
  BY <1>1, <1>7 DEF vars
<1> QED
  BY <1>2, <1>3, <1>4, <1>5, <1>6, <1>7 DEF Next

(* While a request is polled, what is recorded is its run. *)
LEMMA StepPoll ==
    ASSUME TypeOK, StartInv, RecordInv, SoloInv, PollInv, [Next]_vars PROVE PollInv'
<1> USE Members, RunsAssumption DEF TypeOK, hermesVars, pastVars
<1>1. ASSUME UNCHANGED <<lastRun, order, preRun>>, overlap => overlap',
             \A r \in Runs : poll'[r] \in {"announcing", "polling"} =>
                 /\ poll[r] \in {"announcing", "polling"}
                 /\ exec'[r] = "recorded" <=> exec[r] = "recorded"
      PROVE  PollInv'
  BY <1>1 DEF PollInv
<1>2. ASSUME NEW r \in Runs, Run(r) PROVE PollInv'
  <2>1. overlap => overlap'
    BY <1>2 DEF Run
  <2>2. exec[r] = "none"
    BY <1>2 DEF Run, StartInv
  <2>3. CASE poll'[r] = "announcing"
    BY <1>2, <2>1, <2>2, <2>3 DEF Run, PollInv
  <2>4. CASE poll'[r] # "announcing"
    BY <1>1, <1>2, <2>1, <2>4 DEF Run
  <2> QED
    BY <2>3, <2>4
<1>3. ASSUME NEW r \in Runs, Dispatch(r) PROVE PollInv'
  <2>1. exec[r] = "none"
    BY <1>3 DEF Dispatch, StartInv
  <2> QED
    BY <1>1, <1>3, <2>1 DEF Dispatch
<1>4. ASSUME NEW r \in Runs, Report(r) \/ FindGone(r) \/ Expire(r) PROVE PollInv'
  BY <1>1, <1>4 DEF Report, FindGone, Expire
<1>5. ASSUME NEW e \in Executions, Fire(e) PROVE PollInv'
  BY <1>1, <1>5 DEF Fire
<1>6. ASSUME NEW e \in Executions, SessionEnds(e) PROVE PollInv'
  BY <1>1, <1>6 DEF SessionEnds
<1>7. ASSUME NEW e \in Executions, NEW s \in {"ok", "error"}, EndExecution(e, s)
      PROVE  PollInv'
  <2>1. SUFFICES ASSUME ~overlap', NEW r \in Runs,
                        poll'[r] \in {"announcing", "polling"}
                 PROVE  exec'[r] = "recorded" /\ order'[r] = lastRun'
    BY DEF PollInv
  <2>2. exec[e] = "running" /\ poll' = poll /\ overlap' = overlap
    BY <1>7 DEF EndExecution
  <2>3. r = e
    BY <2>1, <2>2, EndsAlone DEF Busy
  <2> QED
    BY <1>7, <2>3 DEF EndExecution
<1>8. CASE DeleteJob \/ UNCHANGED vars
  BY <1>1, <1>8 DEF DeleteJob, vars
<1> QED
  BY <1>2, <1>3, <1>4, <1>5, <1>6, <1>7, <1>8 DEF Next

(* A row is closed with the status of its own run. *)
LEMMA StepShows ==
    ASSUME TypeOK, StartInv, RecordInv, PollInv, ShowsOwnRun, [Next]_vars
    PROVE  ShowsOwnRun'
<1> USE Members, RunsAssumption DEF TypeOK, hermesVars, pastVars, Closed
<1>1. ASSUME UNCHANGED <<shown, result>>, overlap => overlap' PROVE ShowsOwnRun'
  BY <1>1 DEF ShowsOwnRun
<1>2. ASSUME NEW r \in Runs, Run(r) PROVE ShowsOwnRun'
  BY <1>2 DEF Run, ShowsOwnRun
<1>3. ASSUME NEW r \in Runs, Report(r) PROVE ShowsOwnRun'
  <2>1. ASSUME ~overlap PROVE status = result[r]
    <3>1. exec[r] = "recorded" /\ order[r] = lastRun
      BY <1>3, <2>1 DEF Report, News, PollInv
    <3> QED
      BY <3>1, StatusOf
  <2> QED
    BY <1>3, <2>1 DEF Report, ShowsOwnRun
<1>4. ASSUME NEW r \in Runs, Dispatch(r) \/ FindGone(r) \/ Expire(r)
      PROVE  ShowsOwnRun'
  BY <1>1, <1>4 DEF Dispatch, FindGone, Expire
<1>5. ASSUME NEW e \in Executions, Fire(e) \/ SessionEnds(e) PROVE ShowsOwnRun'
  BY <1>1, <1>5 DEF Fire, SessionEnds
<1>6. ASSUME NEW e \in Executions, NEW s \in {"ok", "error"}, EndExecution(e, s)
      PROVE  ShowsOwnRun'
  <2>1. exec[e] = "running" /\ result[e] = "none"
    BY <1>6 DEF EndExecution, RecordInv
  <2> QED
    BY <1>6, <2>1 DEF EndExecution, ShowsOwnRun
<1>7. CASE DeleteJob \/ UNCHANGED vars
  BY <1>1, <1>7 DEF DeleteJob, vars
<1> QED
  BY <1>2, <1>3, <1>4, <1>5, <1>6, <1>7 DEF Next

(* A closed row shows the result of an execution recorded after the        *)
(* request: the record that is reported is not the one that was read first.*)
LEMMA StepLater ==
    ASSUME TypeOK, StartInv, RecordInv, LaterInv, ShowsLaterRun, [Next]_vars
    PROVE  LaterInv' /\ ShowsLaterRun'
<1> USE Members, RunsAssumption DEF TypeOK, hermesVars, pastVars, Closed
<1>1. ASSUME UNCHANGED <<lastRun, order, result, preRun, shown>>
      PROVE  LaterInv' /\ ShowsLaterRun'
  BY <1>1 DEF LaterInv, ShowsLaterRun
<1>2. ASSUME NEW r \in Runs, Run(r) PROVE LaterInv' /\ ShowsLaterRun'
  BY <1>2 DEF Run, LaterInv, ShowsLaterRun
<1>3. ASSUME NEW r \in Runs, Report(r) PROVE LaterInv' /\ ShowsLaterRun'
  <2>1. /\ lastRun # preRun[r] /\ status \in {"ok", "error"}
        /\ shown' = [shown EXCEPT ![r] = status]
        /\ UNCHANGED <<lastRun, order, result, preRun>>
    BY <1>3 DEF Report, News
  <2>2. lastRun > preRun[r]
    BY <2>1 DEF LaterInv
  <2>3. PICK e \in Executions : order[e] = lastRun /\ result[e] = status
    BY <2>2 DEF RecordInv
  <2>4. order'[e] > preRun'[r] /\ result'[e] = shown'[r]
    BY <2>1, <2>2, <2>3
  <2> QED
    BY <2>1, <2>4 DEF LaterInv, ShowsLaterRun
<1>4. ASSUME NEW r \in Runs, Dispatch(r) \/ FindGone(r) \/ Expire(r)
      PROVE  LaterInv' /\ ShowsLaterRun'
  BY <1>1, <1>4 DEF Dispatch, FindGone, Expire
<1>5. ASSUME NEW e \in Executions, Fire(e) \/ SessionEnds(e)
      PROVE  LaterInv' /\ ShowsLaterRun'
  BY <1>1, <1>5 DEF Fire, SessionEnds
<1>6. ASSUME NEW e \in Executions, NEW s \in {"ok", "error"}, EndExecution(e, s)
      PROVE  LaterInv' /\ ShowsLaterRun'
  <2>1. /\ order[e] = 0 /\ lastRun' = lastRun + 1
        /\ order' = [order EXCEPT ![e] = lastRun + 1]
        /\ result' = [result EXCEPT ![e] = s]
        /\ UNCHANGED <<preRun, shown>>
    BY <1>6 DEF EndExecution, RecordInv
  <2>2. LaterInv'
    BY <2>1 DEF LaterInv
  <2>3. ASSUME NEW r \in Runs, Closed(r)
        PROVE  \E f \in Executions : order'[f] > preRun'[r] /\ result'[f] = shown'[r]
    <3>1. PICK f \in Executions : order[f] > preRun[r] /\ result[f] = shown[r]
      BY <2>3 DEF ShowsLaterRun
    <3>2. f # e
      BY <2>1, <3>1
    <3> QED
      BY <2>1, <3>1, <3>2
  <2> QED
    BY <2>1, <2>2, <2>3 DEF ShowsLaterRun
<1>7. CASE DeleteJob \/ UNCHANGED vars
  BY <1>1, <1>7 DEF DeleteJob, vars
<1> QED
  BY <1>2, <1>3, <1>4, <1>5, <1>6, <1>7 DEF Next

-----------------------------------------------------------------------------
(* The inductive invariant holds in every reachable state (JobRuns). *)
THEOREM JobRunsCorrect == Spec => []IInv
<1>1. Init => IInv
  <2> SUFFICES ASSUME Init PROVE IInv
    OBVIOUS
  <2> USE Members DEF Init
  <2>1. TypeOK /\ StartInv /\ RecordInv
    BY DEF TypeOK, StartInv, RecordInv
  <2>2. SoloInv /\ HookInv /\ PollInv
    BY DEF SoloInv, HookInv, PollInv, Busy, AtWork
  <2>3. HookLagsByOne /\ ShowsOwnRun
    BY DEF HookLagsByOne, ShowsOwnRun, Closed
  <2>4. LaterInv /\ ShowsLaterRun
    BY DEF LaterInv, ShowsLaterRun, Closed
  <2> QED
    BY <2>1, <2>2, <2>3, <2>4 DEF IInv
<1>2. IInv /\ [Next]_vars => IInv'
  BY StepTypes, StepStart, StepRecord, StepSolo, StepHook, StepTold, StepPoll,
     StepShows, StepLater DEF IInv
<1> QED
  BY <1>1, <1>2, PTL DEF Spec

(* Every variable keeps its type: a row shows a status of the protocol     *)
(* (run, _poll_run).                                                       *)
THEOREM TypeCorrect == Spec => []TypeOK
<1>1. IInv => TypeOK
  BY DEF IInv
<1> QED
  BY <1>1, JobRunsCorrect, PTL

(* What the hook tells of an execution is at most one execution old,       *)
(* however its call and the record cross, unless executions have           *)
(* overlapped or the hook could not read an error (_on_cron_session_end).  *)
THEOREM HookCorrect == Spec => []HookLagsByOne
<1>1. IInv => HookLagsByOne
  BY DEF IInv
<1> QED
  BY <1>1, JobRunsCorrect, PTL

(* A row shows how its own run ended, unless executions have overlapped    *)
(* (run, _poll_run).                                                       *)
THEOREM ShowsCorrect == Spec => []ShowsOwnRun
<1>1. IInv => ShowsOwnRun
  BY DEF IInv
<1> QED
  BY <1>1, JobRunsCorrect, PTL

(* A row shows a result recorded after its request, whatever overlaps      *)
(* (run, _poll_run).                                                       *)
THEOREM LaterCorrect == Spec => []ShowsLaterRun
<1>1. IInv => ShowsLaterRun
  BY DEF IInv
<1> QED
  BY <1>1, JobRunsCorrect, PTL
=============================================================================
