------------------------------- MODULE JobRuns -------------------------------
(***************************************************************************)
(* Runs of one cron job and the job.update frames that report them         *)
(* (tasks.py: run, _poll_run; adapter.py: _on_cron_session_end).  A run    *)
(* asked for in the UI is announced as running, handed to the cronjob      *)
(* tool, which executes it in the background, and then followed by polling *)
(* the job's record: the record tells only the time and the status of the  *)
(* execution that finished last.  Every execution, asked for or scheduled, *)
(* ends with a hook that opens a row of its own from the same record,      *)
(* which may not know of it yet.  The store may be unreadable at any time. *)
(* Whether a report reaches the server is not this module's concern.       *)
(***************************************************************************)
EXTENDS Naturals

CONSTANTS
    Runs,          \* task.run requests
    Scheduled      \* executions the cron scheduler starts by itself

ASSUME RunsAssumption == Runs \cap Scheduled = {}

VARIABLES
    \* Hermes
    exists,   \* does the job exist?
    lastRun,  \* last_run_at: the number of executions recorded
    status,   \* last_status
    exec,     \* execution |-> where it is
    result,   \* execution |-> how it ended
    order,    \* execution |-> its place among those recorded
    \* the bridge
    poll,     \* request |-> where its handler, then its poll, is
    preRun,   \* request |-> last_run_at in the record its handler read
    shown,    \* request |-> the status reported last for its row
    tale,     \* execution |-> the status its hook reported
    \* the past
    overlap,  \* has an execution or a request ever overlapped another?
    blind     \* executions whose hook could not read the error on record

hermesVars == <<exists, lastRun, status, exec, result, order>>
pastVars == <<overlap, blind>>
vars == <<hermesVars, poll, preRun, shown, tale, pastVars>>

Executions == Runs \cup Scheduled

TypeOK ==
    /\ exists \in BOOLEAN
    /\ lastRun \in Nat
    /\ status \in {"none", "ok", "error"}
    /\ exec \in [Executions -> {"none", "running", "recorded"}]
    /\ result \in [Executions -> {"none", "ok", "error"}]
    /\ order \in [Executions -> Nat]
    /\ poll \in [Runs -> {"none", "unknown", "announcing", "polling",
                        "reported", "gone", "expired"}]
    /\ preRun \in [Runs -> Nat]
    /\ shown \in [Runs -> {"none", "running", "ok", "error"}]
    /\ tale \in [Executions -> {"none", "ok", "error", "lost"}]
    /\ overlap \in BOOLEAN
    /\ blind \subseteq Executions

Init ==
    /\ exists = TRUE
    /\ lastRun = 0
    /\ status = "none"
    /\ exec = [e \in Executions |-> "none"]
    /\ result = [e \in Executions |-> "none"]
    /\ order = [e \in Executions |-> 0]
    /\ poll = [r \in Runs |-> "none"]
    /\ preRun = [r \in Runs |-> 0]
    /\ shown = [r \in Runs |-> "none"]
    /\ tale = [e \in Executions |-> "none"]
    /\ overlap = FALSE
    /\ blind = {}

-----------------------------------------------------------------------------
(* The bridge *)

(* An execution is at work until it is recorded and its hook has returned. *)
AtWork(e) ==
    \/ exec[e] = "running"
    \/ exec[e] = "recorded" /\ tale[e] = "none"

Alone ==
    /\ \A e \in Executions : ~AtWork(e)
    /\ \A r \in Runs : poll[r] \notin {"announcing", "polling"}

(* run(): the record is read, and the row is announced as running.  A job  *)
(* that is gone, or a store that cannot be read, is an unknown job.        *)
Run(r) ==
    /\ poll[r] = "none"
    /\ \/ /\ exists
          /\ overlap' = (overlap \/ ~Alone)
          /\ poll' = [poll EXCEPT ![r] = "announcing"]
          /\ preRun' = [preRun EXCEPT ![r] = lastRun]
          /\ shown' = [shown EXCEPT ![r] = "running"]
       \/ /\ poll' = [poll EXCEPT ![r] = "unknown"]
          /\ UNCHANGED <<overlap, preRun, shown>>
    /\ UNCHANGED <<hermesVars, tale, blind>>

(* The announcement has left: the tool starts the run, or fails with JSON  *)
(* that nobody reads; either way the poll begins.                          *)
Dispatch(r) ==
    /\ poll[r] = "announcing"
    /\ poll' = [poll EXCEPT ![r] = "polling"]
    /\ \/ /\ exists
          /\ exec' = [exec EXCEPT ![r] = "running"]
       \/ UNCHANGED exec
    /\ UNCHANGED <<exists, lastRun, status, result, order, preRun, shown, tale, pastVars>>

(* The record tells of an execution that ended after the request came. *)
News(r) == lastRun # preRun[r] /\ status \in {"ok", "error"}

(* Mutant of Report: any status in the record counts. *)
ReportAnyStatus(r) ==
    /\ poll[r] = "polling"
    /\ exists
    /\ status \in {"ok", "error"}
    /\ shown' = [shown EXCEPT ![r] = status]
    /\ poll' = [poll EXCEPT ![r] = "reported"]
    /\ UNCHANGED <<hermesVars, preRun, tale, pastVars>>

(* The poll sees a later execution in the record and reports its status,   *)
(* with a job.output and the last job.update of the row.                   *)
Report(r) ==
    /\ poll[r] = "polling"
    /\ exists
    /\ News(r)
    /\ shown' = [shown EXCEPT ![r] = status]
    /\ poll' = [poll EXCEPT ![r] = "reported"]
    /\ UNCHANGED <<hermesVars, preRun, tale, pastVars>>

(* The poll finds no job, because it is gone or the store cannot be read,  *)
(* and ends in silence.                                                    *)
FindGone(r) ==
    /\ poll[r] = "polling"
    /\ poll' = [poll EXCEPT ![r] = "gone"]
    /\ UNCHANGED <<hermesVars, preRun, shown, tale, pastVars>>

(* Mutant of Expire: the deadline is checked before the record is read. *)
ExpireUnread(r) ==
    /\ poll[r] = "polling"
    /\ poll' = [poll EXCEPT ![r] = "expired"]
    /\ UNCHANGED <<hermesVars, preRun, shown, tale, pastVars>>

(* The 600 s of the poll are over after a read without news: it ends in    *)
(* silence too.                                                            *)
Expire(r) ==
    /\ poll[r] = "polling"
    /\ exists
    /\ ~News(r)
    /\ poll' = [poll EXCEPT ![r] = "expired"]
    /\ UNCHANGED <<hermesVars, preRun, shown, tale, pastVars>>

(* Mutant of Recorded: the record is not looked at. *)
RecordedIgnored == "ok"

(* What the hook reads in the record, "ok" if there is nothing to read. *)
Recorded == IF exists /\ status \in {"ok", "error"} THEN status ELSE "ok"

(* The session of an execution ends: its thread calls the hook, before or  *)
(* after the execution is recorded.  A record that cannot be read is       *)
(* reported as "ok", which matters if it says "error"; without a connected *)
(* client the report is lost.                                              *)
SessionEnds(e) ==
    /\ exec[e] # "none"
    /\ tale[e] = "none"
    /\ \/ /\ tale' = [tale EXCEPT ![e] = Recorded]
          /\ UNCHANGED blind
       \/ /\ Recorded = "error"
          /\ tale' = [tale EXCEPT ![e] = "ok"]
          /\ blind' = blind \cup {e}
       \/ /\ tale' = [tale EXCEPT ![e] = "lost"]
          /\ UNCHANGED blind
    /\ UNCHANGED <<hermesVars, poll, preRun, shown, overlap>>

-----------------------------------------------------------------------------
(* Hermes *)

Fire(e) ==
    /\ e \in Scheduled
    /\ exists
    /\ exec[e] = "none"
    /\ overlap' = (overlap \/ ~Alone)
    /\ exec' = [exec EXCEPT ![e] = "running"]
    /\ UNCHANGED <<exists, lastRun, status, result, order, poll, preRun, shown,
                   tale, blind>>

(* An execution ends and is recorded; nobody reads the record of a deleted *)
(* job.                                                                    *)
EndExecution(e, s) ==
    /\ exec[e] = "running"
    /\ exec' = [exec EXCEPT ![e] = "recorded"]
    /\ result' = [result EXCEPT ![e] = s]
    /\ lastRun' = lastRun + 1
    /\ order' = [order EXCEPT ![e] = lastRun + 1]
    /\ status' = s
    /\ UNCHANGED <<exists, poll, preRun, shown, tale, pastVars>>

DeleteJob ==
    /\ exists
    /\ exists' = FALSE
    /\ UNCHANGED <<lastRun, status, exec, result, order, poll, preRun, shown, tale,
                   pastVars>>

Next ==
    \/ \E r \in Runs : Run(r) \/ Dispatch(r) \/ Report(r) \/ FindGone(r)
                   \/ Expire(r)
    \/ \E e \in Executions :
           Fire(e) \/ SessionEnds(e) \/ \E s \in {"ok", "error"} : EndExecution(e, s)
    \/ DeleteJob

Spec == Init /\ [][Next]_vars

(* The event loop runs the handlers and the polls, which find a deleted    *)
(* job gone, and an execution ends; nothing makes it outlast the poll, nor *)
(* the store unreadable.                                                   *)
FairSpec ==
    /\ Spec
    /\ \A r \in Runs :
           /\ WF_vars(Dispatch(r))
           /\ WF_vars(Report(r))
           /\ WF_vars(~exists /\ FindGone(r))
    /\ \A e \in Executions : WF_vars(\E s \in {"ok", "error"} : EndExecution(e, s))

-----------------------------------------------------------------------------
(* Properties *)

Closed(r) == shown[r] \in {"ok", "error"}

(* What the hook tells of an execution is at most one execution old,       *)
(* however its call and the record cross: how the execution itself ended,  *)
(* or the one recorded before it, or "ok" if there is no such record,      *)
(* unless executions have overlapped or the hook could not read an error   *)
(* (_on_cron_session_end 888-891, "The job record may lag the hook").      *)
HookLagsByOne ==
    ~overlap =>
        \A e \in Executions \ blind :
            exec[e] = "recorded" /\ tale[e] \in {"ok", "error"} =>
                \/ tale[e] = result[e]
                \/ \E f \in Executions :
                       order[f] = order[e] - 1 /\ result[f] = tale[e]
                \/ tale[e] = "ok" /\ (order[e] = 1 \/ ~exists)

(* A row shows how its own run ended, even if the run failed to start or   *)
(* an earlier poll expired, unless executions of the job have overlapped   *)
(* (run, _poll_run).                                                       *)
ShowsOwnRun ==
    ~overlap => \A r \in Runs : Closed(r) => shown[r] = result[r]

(* A row never shows a result that was on record before it was asked for,  *)
(* whatever overlaps: it is that of an execution recorded later            *)
(* (run 235, _poll_run 249).                                               *)
ShowsLaterRun ==
    \A r \in Runs : Closed(r) =>
        \E e \in Executions : order[e] > preRun[r] /\ result[e] = shown[r]

(* Fair: a run that is recorded while it is polled closes its row, even if *)
(* the poll is about to expire, unless a read finds no job (_poll_run).    *)
RowsClose ==
    \A r \in Runs :
        poll[r] = "polling" /\ exec[r] = "recorded" ~> Closed(r) \/ poll[r] = "gone"
=============================================================================
