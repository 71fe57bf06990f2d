------------------------------ MODULE TaskBridge ------------------------------
(***************************************************************************)
(* Background tasks of the BotsChat UI and the Hermes cron jobs that stand *)
(* for them (tasks.py: schedule, delete; adapter.py: _on_cloud and         *)
(* _dispatch_cron).  The server keeps a row per task with the id of its    *)
(* job, which it learns from the ack of the first task.schedule.           *)
(*                                                                         *)
(* schedule() and delete() never wait, so each is one step.  A task's      *)
(* settings are a revision number (prompt and schedule) and its enabled    *)
(* flag, which the code applies by a dispatch of its own.  The name goes   *)
(* out only when a job is created, and an empty model leaves the old one.  *)
(*                                                                         *)
(* trouble records what went wrong so far; what the bridge promises        *)
(* depends on it.                                                          *)
(***************************************************************************)
EXTENDS Naturals, Sequences, FiniteSets

CONSTANTS
    Tasks,       \* tasks of the UI
    Jobs,        \* ids of the cron jobs that may be created
    NoJob,       \* the empty cronJobId
    EditBound    \* bound on the edits of all tasks together

ASSUME JobsAssumption == NoJob \notin Jobs
ASSUME BoundAssumption == EditBound \in Nat

VARIABLES
    \* the server
    edits,  \* number of edits so far
    want,   \* task |-> the settings its user asked for
    gone,   \* tasks deleted in the UI
    row,    \* task |-> the job id of its row
    down,   \* frames on their way to the plugin
    up,     \* acks on their way to the server
    \* Hermes
    store,  \* job |-> its record, while it exists
    used,   \* job ids ever given out
    trouble \* what went wrong so far

serverVars == <<edits, want, gone, row>>
vars == <<serverVars, down, up, store, used, trouble>>

(* A task edited or deleted before its first ack; frames lost by a dropped *)
(* connection; a job store that cannot be read; a cronjob tool that fails, *)
(* or that creates a job and does not answer with its id.                  *)
Troubles == {"early", "lost", "read", "write", "answer"}

Settings == [rev : 0..EditBound, on : BOOLEAN]
Records  == [task : Tasks, rev : 1..EditBound, on : BOOLEAN]

Schedules == [type : {"task.schedule"}, task : Tasks, job : Jobs \cup {NoJob},
              rev : 1..EditBound, on : BOOLEAN]
Deletes   == [type : {"task.delete"}, job : Jobs \cup {NoJob}]
Acks      == [task : Tasks, job : Jobs \cup {NoJob}, ok : BOOLEAN,
              rev : 1..EditBound, on : BOOLEAN]

TypeOK ==
    /\ edits \in 0..EditBound
    /\ want \in [Tasks -> Settings]
    /\ gone \subseteq Tasks
    /\ row \in [Tasks -> Jobs \cup {NoJob}]
    /\ down \in Seq(Schedules \cup Deletes)
    /\ up \in Seq(Acks)
    /\ used \subseteq Jobs
    /\ DOMAIN store \subseteq used
    /\ store \in [DOMAIN store -> Records]
    /\ trouble \subseteq Troubles

Init ==
    /\ edits = 0
    /\ want = [t \in Tasks |-> [rev |-> 0, on |-> TRUE]]
    /\ gone = {}
    /\ row = [t \in Tasks |-> NoJob]
    /\ down = <<>>
    /\ up = <<>>
    /\ store = <<>>
    /\ used = {}
    /\ trouble = {}

-----------------------------------------------------------------------------
(* The server and its user *)

Settled == down = <<>> /\ up = <<>>

Meet(what) == trouble' = trouble \cup what

(* The user does not wait for the ack of a task that has no job id yet. *)
Early(t) == IF row[t] = NoJob /\ want[t].rev > 0 THEN {"early"} ELSE {}

Edit(t, on) ==
    /\ t \notin gone
    /\ edits < EditBound
    /\ edits' = edits + 1
    /\ want' = [want EXCEPT ![t] = [rev |-> @.rev + 1, on |-> on]]
    /\ down' = Append(down, [type |-> "task.schedule", task |-> t,
                             job |-> row[t], rev |-> want[t].rev + 1,
                             on |-> on])
    /\ Meet(Early(t))
    /\ UNCHANGED <<gone, row, up, store, used>>

Delete(t) ==
    /\ t \notin gone
    /\ want[t].rev > 0
    /\ gone' = gone \cup {t}
    /\ down' = Append(down, [type |-> "task.delete", job |-> row[t]])
    /\ Meet(Early(t))
    /\ UNCHANGED <<edits, want, row, up, store, used>>

(* The server writes the job id of a successful ack into the task's row. *)
TakeAck ==
    /\ up # <<>>
    /\ row' = IF Head(up).ok THEN [row EXCEPT ![Head(up).task] = Head(up).job]
                             ELSE row
    /\ up' = Tail(up)
    /\ UNCHANGED <<edits, want, gone, down, store, used, trouble>>

(* A dropped connection takes the acks with it and the frames that have    *)
(* not reached the client.                                                 *)
LoseFrames ==
    /\ ~Settled
    /\ \E n \in 0..Len(down) : down' = SubSeq(down, 1, n)
    /\ up' = <<>>
    /\ Meet({"lost"})
    /\ UNCHANGED <<serverVars, store, used>>

-----------------------------------------------------------------------------
(* The bridge *)

(* Mutants of FindJob: an empty id finds any job; the look-up misses.      *)
FindJobAny(j, bad) ==
    IF "read" \in bad \/ DOMAIN store = {} THEN NoJob
    ELSE IF j \in DOMAIN store THEN j
    ELSE CHOOSE k \in DOMAIN store : TRUE
FindJobMisses(j, bad) == NoJob

(* What _find_job returns: the job, or None when there is no such job or   *)
(* when neither get_job nor load_jobs can read the store.                  *)
FindJob(j, bad) ==
    IF "read" \notin bad /\ j \in DOMAIN store THEN j ELSE NoJob

(* What may go wrong while a frame is handled, and the trouble it is. *)
Mishaps == SUBSET {"read", "first", "second"}
Suffer(bad) ==
    Meet((bad \cap {"read", "answer"})
             \cup (IF bad \cap {"first", "second"} = {} THEN {} ELSE {"write"}))

(* Record r after a dispatch that asks for g: _dispatch_cron reports a     *)
(* failure in the JSON it returns, which nobody reads.                     *)
Dispatched(r, g, fails) == IF fails THEN r ELSE g

(* Mutant of Switched: a task that is enabled again is not resumed. *)
SwitchedOff(r, on, fails) ==
    IF on THEN r ELSE Dispatched(r, [r EXCEPT !.on = FALSE], fails)

(* The pause or the resume of a job. *)
Switched(r, on, fails) == Dispatched(r, [r EXCEPT !.on = on], fails)

Ack(m, j, ok) ==
    up' = Append(up, [task |-> m.task, job |-> j, ok |-> ok,
                      rev |-> m.rev, on |-> m.on])

(* An update, and then a resume or a pause. *)
Update(m, j, bad) ==
    LET updated == Dispatched(store[j], [store[j] EXCEPT !.rev = m.rev],
                              "first" \in bad)
    IN /\ store' = [store EXCEPT ![j] = Switched(updated, m.on, "second" \in bad)]
       /\ Ack(m, j, TRUE)
       /\ UNCHANGED used

(* Mutant of Create: ids may be given out twice. *)
CreateReuses(m, bad) ==
    \E j \in Jobs \ DOMAIN store :
        /\ "first" \notin bad
        /\ store' = [k \in DOMAIN store \cup {j} |->
                        IF k = j THEN [task |-> m.task, rev |-> m.rev, on |-> m.on]
                                 ELSE store[k]]
        /\ Ack(m, j, TRUE)
        /\ UNCHANGED used

(* A new job is created enabled, and paused if it should not be. *)
Create(m, bad) ==
    \E j \in Jobs \ used :
        LET new == [task |-> m.task, rev |-> m.rev, on |-> TRUE]
            made == IF m.on THEN new ELSE Switched(new, FALSE, "second" \in bad)
        IN /\ "first" \notin bad
           /\ used' = used \cup {j}
           /\ store' = [k \in DOMAIN store \cup {j} |->
                            IF k = j THEN made ELSE store[k]]
           /\ Ack(m, j, TRUE)

(* A create that fails leaves no job and no id to extract: the ack says so. *)
CreateFails(m, bad) ==
    /\ "first" \in bad
    /\ Ack(m, m.job, FALSE)
    /\ UNCHANGED <<store, used>>

(* A job is created, but the answer has no id to extract: the ack says     *)
(* that the create failed, and no pause is asked for.                      *)
CreateUnheard(m, bad) ==
    \E j \in Jobs \ used :
        /\ bad \subseteq {"read"}
        /\ used' = used \cup {j}
        /\ store' = [k \in DOMAIN store \cup {j} |->
                        IF k = j THEN [task |-> m.task, rev |-> m.rev, on |-> TRUE]
                                 ELSE store[k]]
        /\ Ack(m, m.job, FALSE)

(* Mutant of NextFrame: every frame gets a task of its own. *)
NextFrameAny(m) ==
    \E n \in 1..Len(down) :
        /\ m = down[n]
        /\ down' = SubSeq(down, 1, n - 1) \o SubSeq(down, n + 1, Len(down))

(* The receive loop awaits the handler of a frame before it takes the next. *)
NextFrame(m) ==
    /\ down # <<>>
    /\ m = Head(down)
    /\ down' = Tail(down)

Schedule(m) ==
    /\ NextFrame(m)
    /\ m.type = "task.schedule"
    /\ \E bad \in Mishaps :
           LET j == FindJob(m.job, bad)
           IN \/ j # NoJob /\ Update(m, j, bad) /\ Suffer(bad)
              \/ j = NoJob /\ Create(m, bad) /\ Suffer(bad)
              \/ j = NoJob /\ CreateFails(m, bad) /\ Suffer(bad)
              \/ j = NoJob /\ CreateUnheard(m, bad) /\ Suffer(bad \cup {"answer"})
    /\ UNCHANGED serverVars

(* delete() removes the job it finds; there is no ack. *)
HandleDelete(m) ==
    /\ NextFrame(m)
    /\ m.type = "task.delete"
    /\ \E bad \in Mishaps :
           LET found == IF "first" \in bad THEN {} ELSE {FindJob(m.job, bad)}
           IN /\ store' = [k \in DOMAIN store \ found |-> store[k]]
              /\ Suffer(bad)
    /\ UNCHANGED <<serverVars, up, used>>

Next ==
    \/ \E t \in Tasks : Delete(t) \/ \E on \in BOOLEAN : Edit(t, on)
    \/ TakeAck
    \/ LoseFrames
    \/ \E m \in {down[n] : n \in 1..Len(down)} : Schedule(m) \/ HandleDelete(m)

Spec == Init /\ [][Next]_vars

-----------------------------------------------------------------------------
(* Properties *)

JobsOf(t) == {j \in DOMAIN store : store[j].task = t}

(* Tasks and jobs map 1:1 (docs/analysis.md 111): a task never has two     *)
(* jobs, which would both run its prompt, even if the cronjob tool fails,  *)
(* as long as no ack is lost or outrun, the store can be read and the tool *)
(* answers with the id of a job it created.                                *)
OneJobPerTask ==
    trouble \subseteq {"write"} =>
        \A t \in Tasks : Cardinality(JobsOf(t)) <= 1

(* When nothing is in flight and nothing went wrong, Hermes mirrors the    *)
(* UI: a deleted task has no job left, any other one has a single job with *)
(* the settings asked for last, however the edits, deletes and acks of the *)
(* tasks crossed (schedule, delete).                                       *)
Mirrored ==
    Settled /\ trouble = {} => \A t \in Tasks :
        IF t \in gone \/ want[t].rev = 0
        THEN JobsOf(t) = {}
        ELSE /\ JobsOf(t) = {row[t]}
             /\ store[row[t]].rev = want[t].rev
             /\ store[row[t]].on = want[t].on

(* Whatever is lost or fails, the row of a task never points at the job of *)
(* another task, so that an edit or a delete hits the right one.           *)
OwnJob ==
    \A t \in Tasks : row[t] \in DOMAIN store => store[row[t]].task = t

(* Whatever is lost or fails, a job never goes back to an older revision   *)
(* of its task's settings (_on_cloud 393-399 awaits schedule and delete).  *)
NoRegress ==
    [][\A j \in DOMAIN store \cap DOMAIN store' :
           store'[j].rev >= store[j].rev]_vars

-----------------------------------------------------------------------------
(* What the documentation says and the code does not do.                   *)

(* task.schedule.ack is sent "after schedule applied" (docs/spec.md 84),   *)
(* with ok: the job has the settings the ack is about.                     *)
AckMeansApplied ==
    [][\A n \in 1..Len(up') :
           n > Len(up) /\ up'[n].ok =>
               store'[up'[n].job] = [task |-> up'[n].task, rev |-> up'[n].rev,
                                     on |-> up'[n].on]]_vars
=============================================================================
