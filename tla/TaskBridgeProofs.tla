---------------------------- MODULE TaskBridgeProofs ----------------------------
(***************************************************************************)
(* Proofs about TaskBridge, for any tasks and jobs and any number of       *)
(* edits.                                                                  *)
(***************************************************************************)
EXTENDS TaskBridge, SequenceTheorems, FiniteSetTheorems, TLAPS

(* The n-th frame on its way to the plugin is a schedule of t. *)
Sched(n, t) == down[n].type = "task.schedule" /\ down[n].task = t

(* The n-th frame on its way to the plugin deletes the job of t. *)
Removal(n, t) == down[n].type = "task.delete" /\ down[n].job = row[t]

(* The n-th ack is one of t that succeeded. *)
Acked(n, t) == up[n].task = t /\ up[n].ok

(* j stands for t: it was given out for it, and is its job if it exists. *)
Owns(t, j) == j \in used /\ (j \in DOMAIN store => store[j].task = t)

(* Whatever the server knows or says of a task names a job of the task. *)
OwnInv ==
    /\ \A t \in Tasks : row[t] = NoJob \/ Owns(t, row[t])
    /\ \A n \in 1..Len(down) : \A t \in Tasks :
           Sched(n, t) => down[n].job = NoJob \/ Owns(t, down[n].job)
    /\ \A n \in 1..Len(up) : \A t \in Tasks : Acked(n, t) => Owns(t, up[n].job)

(* A task has no more revisions than there were edits. *)
EditInv == \A t \in Tasks : want[t].rev <= edits

(* What is on its way is newer than what is applied, in the order of the   *)
(* edits.                                                                  *)
RevInv ==
    /\ \A j \in DOMAIN store : store[j].rev <= want[store[j].task].rev
    /\ \A n \in 1..Len(up) : up[n].rev <= want[up[n].task].rev
    /\ \A t \in Tasks : \A n \in 1..Len(down) : Sched(n, t) =>
           /\ down[n].rev <= want[t].rev
           /\ \A k \in 1..Len(down) : Sched(k, t) /\ n < k => down[n].rev < down[k].rev
           /\ \A j \in DOMAIN store : store[j].task = t => store[j].rev < down[n].rev

(* No frame was lost or outrun, the store could be read and no answer of   *)
(* the cronjob tool kept the id of a new job back.                         *)
Clean == trouble \subseteq {"write"}

(* Then a task without a row is still at its first edit, which is on its   *)
(* way or has made its only job.                                           *)
Rowless(t) ==
    /\ t \notin gone /\ want[t].rev <= 1
    /\ \A n \in 1..Len(down) : Sched(n, t) =>
           /\ down[n].job = NoJob
           /\ JobsOf(t) = {}
           /\ \A k \in 1..Len(up) : ~Acked(k, t)
    /\ \A n \in 1..Len(up) : Acked(n, t) => JobsOf(t) = {up[n].job}
    /\ \A i, j \in JobsOf(t) : i = j

(* Any other has at most the job of its row, which goes only with it. *)
Rowed(t) ==
    /\ row[t] \in DOMAIN store \/ t \in gone
    /\ \A n \in 1..Len(down) : Sched(n, t) =>
           down[n].job = row[t] /\ row[t] \in DOMAIN store
    /\ \A n \in 1..Len(up) : Acked(n, t) => up[n].job = row[t]
    /\ JobsOf(t) \subseteq {row[t]}

(* A delete comes after all edits of its task. *)
RemovalInv ==
    \A n \in 1..Len(down) : down[n].type = "task.delete" =>
        \E t \in gone :
            /\ row[t] # NoJob /\ Removal(n, t)
            /\ \A k \in 1..Len(down) : Sched(k, t) => k < n

RowInv(t) == IF row[t] = NoJob THEN Rowless(t) ELSE Rowed(t)

CleanInv == Clean => RemovalInv /\ \A t \in Tasks : RowInv(t)

(* The settings asked for last are on their way or applied. *)
Current(t) ==
    \/ t \in gone
    \/ want[t].rev = 0
    \/ \E n \in 1..Len(down) : Sched(n, t) /\ down[n].rev = want[t].rev
    \/ \E j \in JobsOf(t) : store[j].rev = want[t].rev /\ store[j].on = want[t].on

(* A frame with them says what was asked for. *)
Latest(t) ==
    \A n \in 1..Len(down) :
        Sched(n, t) /\ down[n].rev = want[t].rev => down[n].on = want[t].on

(* A deleted task has its delete on its way, or no job. *)
Removed(t) ==
    t \in gone => JobsOf(t) = {} \/ \E n \in 1..Len(down) : Removal(n, t)

(* The server is about to learn of a job it does not know. *)
Told(t) ==
    row[t] = NoJob =>
        \A j \in JobsOf(t) : \E n \in 1..Len(up) : Acked(n, t) /\ up[n].job = j

Mirror(t) == Current(t) /\ Latest(t) /\ Removed(t) /\ Told(t)

(* If moreover nothing failed, all this is so. *)
MirrorInv == trouble = {} => \A t \in Tasks : Mirror(t)

(* The inductive invariant. *)
IInv == TypeOK /\ EditInv /\ OwnInv /\ RevInv /\ CleanInv /\ MirrorInv

-----------------------------------------------------------------------------
(* Lemmas about the queues *)

(* What Append adds comes last and leaves the rest alone. *)
LEMMA Pushed ==
    ASSUME NEW S, NEW q \in Seq(S), NEW x \in S
    PROVE  LET r == Append(q, x)
           IN  /\ r \in Seq(S)
               /\ Len(q) + 1 \in 1..Len(r) /\ r[Len(q) + 1] = x
               /\ \A n \in 1..Len(q) : n \in 1..Len(r) /\ r[n] = q[n] /\ n < Len(q) + 1
               /\ \A n \in 1..Len(r) :
                      \/ n \in 1..Len(q) /\ r[n] = q[n]
                      \/ n = Len(q) + 1 /\ r[n] = x
<1> DEFINE r == Append(q, x)
<1>1. /\ r \in Seq(S) /\ Len(r) = Len(q) + 1
      /\ \A n \in 1..Len(q) : r[n] = q[n]
      /\ r[Len(q) + 1] = x
  BY AppendProperties
<1>2. Len(q) \in Nat
  BY LenProperties
<1> HIDE DEF r
<1>3. /\ r \in Seq(S)
      /\ Len(q) + 1 \in 1..Len(r) /\ r[Len(q) + 1] = x
      /\ \A n \in 1..Len(q) : n \in 1..Len(r) /\ r[n] = q[n] /\ n < Len(q) + 1
      /\ \A n \in 1..Len(r) :
             \/ n \in 1..Len(q) /\ r[n] = q[n]
             \/ n = Len(q) + 1 /\ r[n] = x
  BY <1>1, <1>2
<1> QED
  BY <1>3 DEF r

(* What Tail takes away came first; the rest moves up. *)
LEMMA Popped ==
    ASSUME NEW S, NEW q \in Seq(S), q # <<>>
    PROVE  LET r == Tail(q)
           IN  /\ r \in Seq(S)
               /\ 1 \in 1..Len(q) /\ q[1] = Head(q) /\ q[1] \in S
               /\ \A n \in 1..Len(r) : n + 1 \in 1..Len(q) /\ r[n] = q[n + 1] /\ 1 < n + 1
               /\ \A n \in 1..Len(q) :
                      n = 1 \/ (n - 1 \in 1..Len(r) /\ r[n - 1] = q[n] /\ n \in Int)
<1>1. /\ Tail(q) \in Seq(S) /\ Len(Tail(q)) = Len(q) - 1
      /\ \A n \in 1..Len(Tail(q)) : Tail(q)[n] = q[n + 1]
  BY HeadTailProperties
<1>2. Len(q) \in Nat /\ Len(q) # 0
  BY EmptySeq
<1>3. 1 \in 1..Len(q) /\ q[1] = Head(q)
  BY <1>2
<1>4. q[1] \in S
  BY <1>3, ElementOfSeq
<1> DEFINE r == Tail(q)
<1> HIDE DEF r
<1>5. /\ \A n \in 1..Len(r) : n + 1 \in 1..Len(q) /\ r[n] = q[n + 1] /\ 1 < n + 1
      /\ \A n \in 1..Len(q) :
             n = 1 \/ (n - 1 \in 1..Len(r) /\ r[n - 1] = q[n] /\ n \in Int)
  BY <1>1, <1>2 DEF r
<1> QED
  BY <1>1, <1>3, <1>4, <1>5 DEF r

(* A dropped connection leaves the frames at the head of the queue. *)
LEMMA Kept ==
    ASSUME NEW S, NEW q \in Seq(S), NEW n \in 0..Len(q)
    PROVE  LET r == SubSeq(q, 1, n)
           IN  /\ r \in Seq(S)
               /\ \A k \in 1..Len(r) : k \in 1..Len(q) /\ r[k] = q[k]
<1>1. n \in Int /\ Len(q) \in Nat /\ \A k \in 1..n : q[k] \in S
  BY LenProperties, ElementOfSeq
<1>2. /\ SubSeq(q, 1, n) \in Seq(S)
      /\ Len(SubSeq(q, 1, n)) = IF 1 <= n THEN n - 1 + 1 ELSE 0
      /\ \A k \in 1..n - 1 + 1 : SubSeq(q, 1, n)[k] = q[1 + k - 1]
  BY <1>1, SubSeqProperties
<1>3. \A k \in 1..Len(SubSeq(q, 1, n)) :
          k \in 1..Len(q) /\ SubSeq(q, 1, n)[k] = q[k]
  BY <1>1, <1>2
<1> QED
  BY <1>2, <1>3

-----------------------------------------------------------------------------
(* Lemmas about the operators of the bridge *)

LEMMA ScheduleType ==
    ASSUME NEW m \in Schedules
    PROVE  /\ m.task \in Tasks /\ m.job \in Jobs \cup {NoJob}
           /\ m.rev \in 1..EditBound /\ m.on \in BOOLEAN
  BY DEF Schedules

(* The ack of schedule m. *)
AckOf(m, j, ok) ==
    [task |-> m.task, job |-> j, ok |-> ok, rev |-> m.rev, on |-> m.on]

LEMMA AckShape ==
    ASSUME NEW m \in Schedules, NEW j \in Jobs \cup {NoJob}, NEW ok \in BOOLEAN
    PROVE  LET a == AckOf(m, j, ok)
           IN  /\ a \in Acks
               /\ a.task = m.task /\ a.job = j /\ a.ok = ok /\ a.rev = m.rev
  BY ScheduleType DEF AckOf, Acks

(* An update touches one job: it keeps its task and gets the settings of   *)
(* the frame, unless a dispatch fails.                                     *)
LEMMA Updated ==
    ASSUME TypeOK, NEW m \in Schedules, NEW j \in DOMAIN store, NEW bad,
           Update(m, j, bad)
    PROVE  /\ DOMAIN store' = DOMAIN store
           /\ store' \in [DOMAIN store' -> Records]
           /\ \A k \in DOMAIN store \ {j} : store'[k] = store[k]
           /\ store'[j].task = store[j].task
           /\ store'[j].rev \in {store[j].rev, m.rev}
           /\ "first" \notin bad => store'[j].rev = m.rev
           /\ "second" \notin bad => store'[j].on = m.on
           /\ used' = used
           /\ up' = Append(up, AckOf(m, j, TRUE))
<1> DEFINE a == Dispatched(store[j], [store[j] EXCEPT !.rev = m.rev], "first" \in bad)
           b == Switched(a, m.on, "second" \in bad)
<1>1. store[j] \in Records /\ store \in [DOMAIN store -> Records]
  BY DEF TypeOK
<1>2. /\ a \in Records /\ a.task = store[j].task /\ a.rev \in {store[j].rev, m.rev}
      /\ "first" \notin bad => a.rev = m.rev
  BY <1>1, ScheduleType DEF Dispatched, Records
<1> HIDE DEF a
<1>3. /\ b \in Records /\ b.task = a.task /\ b.rev = a.rev
      /\ "second" \notin bad => b.on = m.on
  BY <1>2, ScheduleType DEF Switched, Dispatched, Records
<1>4. store' = [store EXCEPT ![j] = b] /\ used' = used
      /\ up' = Append(up, AckOf(m, j, TRUE))
  BY DEF Update, a, Ack, AckOf
<1> HIDE DEF b
<1> QED
  BY <1>1, <1>2, <1>3, <1>4

(* A create gives out a new id, for a job with the settings of the frame. *)
LEMMA Created ==
    ASSUME TypeOK, NEW m \in Schedules, NEW bad, Create(m, bad)
    PROVE  \E j \in Jobs \ used :
               /\ used' = used \cup {j}
               /\ DOMAIN store' = DOMAIN store \cup {j} /\ j \notin DOMAIN store
               /\ store' \in [DOMAIN store' -> Records]
               /\ \A k \in DOMAIN store : store'[k] = store[k]
               /\ store'[j].task = m.task /\ store'[j].rev = m.rev
               /\ "second" \notin bad => store'[j].on = m.on
               /\ up' = Append(up, AckOf(m, j, TRUE))
<1> DEFINE new == [task |-> m.task, rev |-> m.rev, on |-> TRUE]
           made == IF m.on THEN new ELSE Switched(new, FALSE, "second" \in bad)
<1>1. PICK j \in Jobs \ used :
          /\ used' = used \cup {j}
          /\ store' = [k \in DOMAIN store \cup {j} |-> IF k = j THEN made ELSE store[k]]
          /\ up' = Append(up, AckOf(m, j, TRUE))
  BY DEF Create, Ack, AckOf
<1>2. /\ made \in Records /\ made.task = m.task /\ made.rev = m.rev
      /\ "second" \notin bad => made.on = m.on
  BY ScheduleType DEF Switched, Dispatched, Records
<1>3. j \notin DOMAIN store /\ store \in [DOMAIN store -> Records]
  BY DEF TypeOK
<1> HIDE DEF made
<1> QED
  BY <1>1, <1>2, <1>3

(* So does a create whose answer is not understood; its ack says nothing   *)
(* of the job.                                                             *)
LEMMA Unheard ==
    ASSUME TypeOK, NEW m \in Schedules, NEW bad, CreateUnheard(m, bad)
    PROVE  \E j \in Jobs \ used :
               /\ used' = used \cup {j}
               /\ DOMAIN store' = DOMAIN store \cup {j} /\ j \notin DOMAIN store
               /\ store' \in [DOMAIN store' -> Records]
               /\ \A k \in DOMAIN store : store'[k] = store[k]
               /\ store'[j].task = m.task /\ store'[j].rev = m.rev
               /\ up' = Append(up, AckOf(m, m.job, FALSE))
<1> DEFINE new == [task |-> m.task, rev |-> m.rev, on |-> TRUE]
<1>1. PICK j \in Jobs \ used :
          /\ used' = used \cup {j}
          /\ store' = [k \in DOMAIN store \cup {j} |-> IF k = j THEN new ELSE store[k]]
          /\ up' = Append(up, AckOf(m, m.job, FALSE))
  BY DEF CreateUnheard, Ack, AckOf
<1>2. new \in Records /\ new.task = m.task /\ new.rev = m.rev
  BY ScheduleType DEF Records
<1>3. j \notin DOMAIN store /\ store \in [DOMAIN store -> Records]
  BY DEF TypeOK
<1> HIDE DEF new
<1> QED
  BY <1>1, <1>2, <1>3

-----------------------------------------------------------------------------
(* What may go wrong in a step of the bridge. *)
Faults == {"read", "first", "second", "answer"}

(* The steps of the bridge, by what becomes of a frame. *)
Handles(m, bad) ==
    /\ NextFrame(m)
    /\ bad \in SUBSET Faults
    /\ Suffer(bad)
    /\ UNCHANGED serverVars
HandlesUpdate(m, bad) ==
    /\ Handles(m, bad)
    /\ "read" \notin bad
    /\ m.job \in DOMAIN store
    /\ Update(m, m.job, bad)
HandlesCreate(m, bad) ==
    /\ Handles(m, bad)
    /\ "read" \in bad \/ m.job \notin DOMAIN store
    /\ Create(m, bad)
HandlesFailure(m, bad) ==
    /\ Handles(m, bad)
    /\ CreateFails(m, bad)
HandlesUnheard(m, bad) ==
    /\ Handles(m, bad)
    /\ "answer" \in bad
    /\ CreateUnheard(m, bad \ {"answer"})
HandlesRemoval(m, bad) ==
    /\ Handles(m, bad)
    /\ DOMAIN store' \in {DOMAIN store, DOMAIN store \ {m.job}}
    /\ bad = {} => m.job \notin DOMAIN store'
    /\ store' \in [DOMAIN store' -> Records]
    /\ \A k \in DOMAIN store' : store'[k] = store[k]
    /\ up' = up /\ used' = used

LEMMA StepKinds ==
    ASSUME TypeOK, [Next]_vars
    PROVE  \/ \E t \in Tasks : Delete(t) \/ \E on \in BOOLEAN : Edit(t, on)
           \/ TakeAck
           \/ LoseFrames
           \/ \E m \in Schedules : \E bad \in SUBSET Faults :
                  \/ HandlesUpdate(m, bad)
                  \/ HandlesCreate(m, bad)
                  \/ HandlesFailure(m, bad)
                  \/ HandlesUnheard(m, bad)
           \/ \E m \in Deletes : \E bad \in SUBSET Faults : HandlesRemoval(m, bad)
           \/ UNCHANGED vars
<1> USE DEF TypeOK
<1>1. NoJob \notin DOMAIN store
  BY JobsAssumption
<1>2. ASSUME NEW n \in 1..Len(down) PROVE down[n] \in Schedules \cup Deletes
  BY ElementOfSeq
<1>3. ASSUME NEW m \in Schedules \cup Deletes, Schedule(m)
      PROVE  m \in Schedules /\ \E bad \in SUBSET Faults :
                 \/ HandlesUpdate(m, bad)
                 \/ HandlesCreate(m, bad)
                 \/ HandlesFailure(m, bad)
                 \/ HandlesUnheard(m, bad)
  <2>1. m \in Schedules
    BY <1>3 DEF Schedule, Deletes
  <2>2. PICK bad \in Mishaps :
            LET j == FindJob(m.job, bad)
            IN  \/ j # NoJob /\ Update(m, j, bad) /\ Suffer(bad)
                \/ j = NoJob /\ Create(m, bad) /\ Suffer(bad)
                \/ j = NoJob /\ CreateFails(m, bad) /\ Suffer(bad)
                \/ j = NoJob /\ CreateUnheard(m, bad) /\ Suffer(bad \cup {"answer"})
    BY <1>3 DEF Schedule
  <2>3. bad \in SUBSET Faults /\ "answer" \notin bad
    BY DEF Mishaps, Faults
  <2>4. Suffer(bad) => Handles(m, bad)
    BY <1>3, <2>3 DEF Schedule, Handles
  <2>5. CASE /\ FindJob(m.job, bad) # NoJob /\ Suffer(bad)
             /\ Update(m, FindJob(m.job, bad), bad)
    <3>1. FindJob(m.job, bad) = m.job /\ "read" \notin bad /\ m.job \in DOMAIN store
      BY <2>5 DEF FindJob
    <3> QED
      BY <2>1, <2>3, <2>4, <2>5, <3>1 DEF HandlesUpdate
  <2>6. CASE FindJob(m.job, bad) = NoJob /\ Create(m, bad) /\ Suffer(bad)
    <3>1. "read" \in bad \/ m.job \notin DOMAIN store
      BY <1>1, <2>6 DEF FindJob
    <3> QED
      BY <2>1, <2>3, <2>4, <2>6, <3>1 DEF HandlesCreate
  <2>7. CASE CreateFails(m, bad) /\ Suffer(bad)
    BY <2>1, <2>3, <2>4, <2>7 DEF HandlesFailure
  <2>8. CASE CreateUnheard(m, bad) /\ Suffer(bad \cup {"answer"})
    <3> DEFINE worse == bad \cup {"answer"}
    <3>1. worse \in SUBSET Faults /\ "answer" \in worse /\ worse \ {"answer"} = bad
      BY <2>3 DEF Faults
    <3>2. Handles(m, worse)
      BY <1>3, <2>8, <3>1 DEF Schedule, Handles
    <3>3. HandlesUnheard(m, worse)
      BY <2>8, <3>1, <3>2 DEF HandlesUnheard
    <3> QED
      BY <2>1, <3>1, <3>3
  <2> QED
    BY <2>2, <2>5, <2>6, <2>7, <2>8
<1>4. ASSUME NEW m \in Schedules \cup Deletes, HandleDelete(m)
      PROVE  m \in Deletes /\ \E bad \in SUBSET Faults : HandlesRemoval(m, bad)
  <2>1. m \in Deletes
    BY <1>4 DEF HandleDelete, Schedules
  <2>2. PICK bad \in Mishaps :
            /\ store' = [k \in DOMAIN store
                             \ (IF "first" \in bad THEN {} ELSE {FindJob(m.job, bad)})
                         |-> store[k]]
            /\ Suffer(bad)
    BY <1>4 DEF HandleDelete
  <2>3. /\ Handles(m, bad) /\ up' = up /\ used' = used
        /\ bad \in SUBSET Faults
    BY <1>4, <2>2 DEF HandleDelete, Handles, Mishaps, Faults
  <2>4. FindJob(m.job, bad) \in {m.job, NoJob}
    BY DEF FindJob
  <2>5. DOMAIN store' \in {DOMAIN store, DOMAIN store \ {m.job}}
    BY <1>1, <2>2, <2>4
  <2>6. bad = {} => m.job \notin DOMAIN store'
    BY <2>2 DEF FindJob
  <2>7. /\ \A k \in DOMAIN store' : store'[k] = store[k]
        /\ store' \in [DOMAIN store' -> Records]
    BY <2>2
  <2> QED
    BY <2>1, <2>3, <2>5, <2>6, <2>7 DEF HandlesRemoval
<1>5. ASSUME NEW m \in {down[n] : n \in 1..Len(down)}, Schedule(m) \/ HandleDelete(m)
      PROVE  m \in Schedules \cup Deletes
  BY <1>2
<1> QED
  BY <1>3, <1>4, <1>5 DEF Next

(* What goes wrong while a frame is handled is remembered. *)
LEMMA Suffered ==
    ASSUME NEW m, NEW bad, Handles(m, bad)
    PROVE  /\ Clean' => Clean /\ "read" \notin bad /\ "answer" \notin bad
           /\ trouble' = {} => trouble = {} /\ bad = {}
           /\ trouble \subseteq Troubles => trouble' \subseteq Troubles
<1>1. trouble' = trouble \cup (bad \cap {"read", "answer"})
                     \cup (IF bad \cap {"first", "second"} = {} THEN {} ELSE {"write"})
  BY DEF Handles, Suffer, Meet
<1>2. bad \subseteq {"read", "first", "second", "answer"}
  BY DEF Handles, Faults
<1>3. trouble' = {} => trouble = {} /\ bad = {}
  BY <1>1, <1>2
<1>4. Clean' => Clean /\ "read" \notin bad /\ "answer" \notin bad
  BY <1>1 DEF Clean
<1>5. trouble \subseteq Troubles => trouble' \subseteq Troubles
  BY <1>1 DEF Troubles
<1> QED
  BY <1>3, <1>4, <1>5

(* A frame that is handled was the first; the others move up. *)
LEMMA Handled ==
    ASSUME TypeOK, NEW m, NEW bad, Handles(m, bad)
    PROVE  /\ down' \in Seq(Schedules \cup Deletes)
           /\ 1 \in 1..Len(down) /\ down[1] = m
           /\ \A n \in 1..Len(down') :
                  n + 1 \in 1..Len(down) /\ down'[n] = down[n + 1] /\ 1 < n + 1
           /\ \A n \in 1..Len(down) :
                  n = 1 \/ (n - 1 \in 1..Len(down') /\ down'[n - 1] = down[n] /\ n \in Int)
           /\ UNCHANGED <<edits, want, gone, row>>
  BY Popped DEF TypeOK, Handles, NextFrame, serverVars

(* The schedule of an edit. *)
Asked(t, on) ==
    [type |-> "task.schedule", task |-> t, job |-> row[t],
     rev |-> want[t].rev + 1, on |-> on]

(* What an edit does to the settings and the queue. *)
LEMMA Edited ==
    ASSUME TypeOK, EditInv, NEW t \in Tasks, NEW on \in BOOLEAN, Edit(t, on)
    PROVE  /\ edits \in 0..EditBound - 1 /\ edits' = edits + 1
           /\ Asked(t, on) \in Schedules /\ down' = Append(down, Asked(t, on))
           /\ want' \in [Tasks -> Settings]
           /\ \A u \in Tasks \ {t} : want'[u] = want[u]
           /\ want'[t].rev = want[t].rev + 1 /\ want'[t].on = on
           /\ UNCHANGED <<gone, row, up, store, used>>
<1> USE DEF TypeOK
<1>1. edits \in 0..EditBound - 1 /\ edits' = edits + 1
  BY BoundAssumption DEF Edit
<1>2. want[t] \in Settings /\ want[t].rev <= edits
  BY DEF EditInv
<1>3. want[t].rev + 1 \in 1..EditBound
  BY <1>1, <1>2, BoundAssumption DEF Settings
<1>4. Asked(t, on) \in Schedules
  BY <1>3 DEF Asked, Schedules
<1>5. [rev |-> want[t].rev + 1, on |-> on] \in Settings
  BY <1>3 DEF Settings
<1>6. want' = [want EXCEPT ![t] = [rev |-> want[t].rev + 1, on |-> on]]
  BY DEF Edit
<1> QED
  BY <1>1, <1>4, <1>5, <1>6 DEF Edit, Asked

(* The frame of a delete. *)
Dropped(t) == [type |-> "task.delete", job |-> row[t]]

(* What a delete does to the queue. *)
LEMMA Deleted ==
    ASSUME TypeOK, NEW t \in Tasks, Delete(t)
    PROVE  /\ Dropped(t) \in Deletes /\ down' = Append(down, Dropped(t))
           /\ gone' = gone \cup {t}
           /\ UNCHANGED <<edits, want, row, up, store, used>>
  BY DEF TypeOK, Delete, Deletes, Dropped

(* What an ack is. *)
LEMMA AckType ==
    ASSUME NEW a \in Acks
    PROVE  /\ a.task \in Tasks /\ a.job \in Jobs \cup {NoJob} /\ a.ok \in BOOLEAN
           /\ a.rev \in 1..EditBound
  BY DEF Acks

(* Every step keeps the types. *)
LEMMA StepTypes == ASSUME TypeOK, EditInv, [Next]_vars PROVE TypeOK' /\ EditInv'
<1> USE DEF TypeOK
<1>1. ASSUME NEW t \in Tasks, NEW on \in BOOLEAN, Edit(t, on) PROVE TypeOK' /\ EditInv'
  <2>1. /\ edits \in 0..EditBound - 1 /\ edits' = edits + 1
        /\ Asked(t, on) \in Schedules /\ down' = Append(down, Asked(t, on))
        /\ want' \in [Tasks -> Settings]
        /\ \A u \in Tasks \ {t} : want'[u] = want[u]
        /\ want'[t].rev = want[t].rev + 1
        /\ UNCHANGED <<gone, row, up, store, used>>
    BY <1>1, Edited
  <2>2. down' \in Seq(Schedules \cup Deletes)
    BY <2>1, Pushed
  <2>3. trouble' \subseteq Troubles
    BY <1>1 DEF Edit, Meet, Early, Troubles
  <2>4. EditInv'
    <3>1. ASSUME NEW u \in Tasks PROVE want[u].rev \in Nat /\ want[u].rev <= edits
      BY DEF EditInv, Settings
    <3> QED
      BY <2>1, <3>1 DEF EditInv
  <2>5. edits' \in 0..EditBound
    BY <2>1, BoundAssumption
  <2> QED
    BY <2>1, <2>2, <2>3, <2>4, <2>5
<1>2. ASSUME NEW t \in Tasks, Delete(t) PROVE TypeOK' /\ EditInv'
  <2>1. down' \in Seq(Schedules \cup Deletes)
    <3>1. Dropped(t) \in Schedules \cup Deletes /\ down' = Append(down, Dropped(t))
      BY <1>2, Deleted
    <3> QED
      BY <3>1, Pushed
  <2>2. trouble' \subseteq Troubles
    BY <1>2 DEF Delete, Meet, Early, Troubles
  <2> QED
    BY <1>2, <2>1, <2>2 DEF Delete, EditInv
<1>3. CASE TakeAck
  <2>1. up' \in Seq(Acks) /\ Head(up) \in Acks
    BY <1>3, Popped DEF TakeAck
  <2>2. row' \in [Tasks -> Jobs \cup {NoJob}]
    BY <1>3, <2>1, AckType DEF TakeAck
  <2> QED
    BY <1>3, <2>1, <2>2 DEF TakeAck, EditInv
<1>4. CASE LoseFrames
  <2>1. down' \in Seq(Schedules \cup Deletes)
    <3>1. PICK n \in 0..Len(down) : down' = SubSeq(down, 1, n)
      BY <1>4 DEF LoseFrames
    <3> QED
      BY <3>1, Kept
  <2>2. up' \in Seq(Acks)
    BY <1>4, EmptySeq DEF LoseFrames
  <2>3. trouble' \subseteq Troubles
    BY <1>4 DEF LoseFrames, Meet, Troubles
  <2> QED
    BY <1>4, <2>1, <2>2, <2>3 DEF LoseFrames, serverVars, EditInv
<1>5. ASSUME NEW m, NEW bad, Handles(m, bad),
             up' \in Seq(Acks), used' \subseteq Jobs, DOMAIN store' \subseteq used',
             store' \in [DOMAIN store' -> Records]
      PROVE  TypeOK' /\ EditInv'
  BY <1>5, Handled, Suffered DEF EditInv
<1>6. ASSUME NEW a \in Acks, up' = Append(up, a) PROVE up' \in Seq(Acks)
  BY <1>6, Pushed
<1>7. ASSUME NEW m \in Schedules, NEW bad \in SUBSET Faults, HandlesUpdate(m, bad)
      PROVE  TypeOK' /\ EditInv'
  <2>1. /\ used' = used /\ DOMAIN store' = DOMAIN store
        /\ store' \in [DOMAIN store' -> Records]
        /\ up' = Append(up, AckOf(m, m.job, TRUE))
    BY <1>7, Updated DEF HandlesUpdate
  <2>2. up' \in Seq(Acks)
    BY <1>6, <2>1, AckShape, ScheduleType
  <2> QED
    BY <1>5, <1>7, <2>1, <2>2 DEF HandlesUpdate
<1>8. ASSUME NEW m \in Schedules, NEW bad \in SUBSET Faults, HandlesCreate(m, bad)
      PROVE  TypeOK' /\ EditInv'
  <2>1. PICK j \in Jobs \ used :
            /\ used' = used \cup {j} /\ DOMAIN store' = DOMAIN store \cup {j}
            /\ store' \in [DOMAIN store' -> Records]
            /\ up' = Append(up, AckOf(m, j, TRUE))
    BY <1>8, Created DEF HandlesCreate
  <2>2. up' \in Seq(Acks)
    BY <1>6, <2>1, AckShape
  <2> QED
    BY <1>5, <1>8, <2>1, <2>2 DEF HandlesCreate
<1>9. ASSUME NEW m \in Schedules, NEW bad \in SUBSET Faults, HandlesFailure(m, bad)
      PROVE  TypeOK' /\ EditInv'
  <2>1. up' \in Seq(Acks)
    <3>1. up' = Append(up, AckOf(m, m.job, FALSE))
      BY <1>9 DEF HandlesFailure, CreateFails, Ack, AckOf
    <3> QED
      BY <1>6, <3>1, AckShape, ScheduleType
  <2> QED
    BY <1>5, <1>9, <2>1 DEF HandlesFailure, CreateFails
<1>10. ASSUME NEW m \in Schedules, NEW bad \in SUBSET Faults, HandlesUnheard(m, bad)
       PROVE  TypeOK' /\ EditInv'
  <2>1. PICK j \in Jobs \ used :
            /\ used' = used \cup {j} /\ DOMAIN store' = DOMAIN store \cup {j}
            /\ store' \in [DOMAIN store' -> Records]
            /\ up' = Append(up, AckOf(m, m.job, FALSE))
    BY <1>10, Unheard DEF HandlesUnheard
  <2>2. up' \in Seq(Acks)
    BY <1>6, <2>1, AckShape, ScheduleType
  <2> QED
    BY <1>5, <1>10, <2>1, <2>2 DEF HandlesUnheard
<1>11. ASSUME NEW m \in Deletes, NEW bad \in SUBSET Faults, HandlesRemoval(m, bad)
       PROVE  TypeOK' /\ EditInv'
  BY <1>5, <1>11 DEF HandlesRemoval
<1>12. CASE UNCHANGED vars
  BY <1>12 DEF vars, serverVars, EditInv
<1> QED
  BY <1>1, <1>2, <1>3, <1>4, <1>7, <1>8, <1>9, <1>10, <1>11, <1>12, StepKinds

(* What the server does with an ack. *)
LEMMA Taken ==
    ASSUME TypeOK, TakeAck
    PROVE  /\ 1 \in 1..Len(up) /\ up[1] \in Acks
           /\ \A n \in 1..Len(up') : n + 1 \in 1..Len(up) /\ up'[n] = up[n + 1]
           /\ \A n \in 1..Len(up) :
                  n = 1 \/ (n - 1 \in 1..Len(up') /\ up'[n - 1] = up[n] /\ n \in Int)
           /\ row' = IF up[1].ok THEN [row EXCEPT ![up[1].task] = up[1].job] ELSE row
           /\ UNCHANGED <<edits, want, gone, down, store, used, trouble>>
<1>1. up # <<>> /\ up' = Tail(up) /\ up \in Seq(Acks)
  BY DEF TypeOK, TakeAck
<1>2. up[1] = Head(up)
  BY <1>1, Popped
<1> QED
  BY <1>1, <1>2, Popped DEF TakeAck

-----------------------------------------------------------------------------
(* A job that exists keeps its task, and a new one has a new id. *)
LEMMA StoreStep ==
    ASSUME TypeOK, [Next]_vars
    PROVE  /\ used \subseteq used'
           /\ \A k \in DOMAIN store' :
                  k \in used => k \in DOMAIN store /\ store'[k].task = store[k].task
<1>1. ASSUME store' = store /\ used' = used
      PROVE  /\ used \subseteq used'
             /\ \A k \in DOMAIN store' :
                    k \in used => k \in DOMAIN store /\ store'[k].task = store[k].task
  BY <1>1 DEF TypeOK
<1>2. ASSUME NEW m \in Schedules, NEW bad \in SUBSET Faults, HandlesUpdate(m, bad)
      PROVE  /\ used' = used /\ DOMAIN store' = DOMAIN store
             /\ \A k \in DOMAIN store : store'[k].task = store[k].task
  BY <1>2, Updated DEF HandlesUpdate
<1>3. ASSUME NEW m \in Schedules, NEW bad \in SUBSET Faults, HandlesCreate(m, bad)
      PROVE  \E j \in Jobs \ used :
                 /\ used' = used \cup {j} /\ DOMAIN store' = DOMAIN store \cup {j}
                 /\ \A k \in DOMAIN store : store'[k] = store[k]
  BY <1>3, Created DEF HandlesCreate
<1>4. ASSUME NEW m \in Deletes, NEW bad \in SUBSET Faults, HandlesRemoval(m, bad)
      PROVE  /\ used' = used /\ DOMAIN store' \subseteq DOMAIN store
             /\ \A k \in DOMAIN store' : store'[k] = store[k]
  BY <1>4 DEF HandlesRemoval
<1>5. ASSUME NEW m \in Schedules, NEW bad \in SUBSET Faults, HandlesUnheard(m, bad)
      PROVE  \E j \in Jobs \ used :
                 /\ used' = used \cup {j} /\ DOMAIN store' = DOMAIN store \cup {j}
                 /\ \A k \in DOMAIN store : store'[k] = store[k]
  BY <1>5, Unheard DEF HandlesUnheard
<1>6. ASSUME ~ \E m \in Schedules : \E bad \in SUBSET Faults :
                   \/ HandlesUpdate(m, bad)
                   \/ HandlesCreate(m, bad)
                   \/ HandlesUnheard(m, bad),
             ~ \E m \in Deletes : \E bad \in SUBSET Faults : HandlesRemoval(m, bad)
      PROVE  store' = store /\ used' = used
  BY <1>6, StepKinds
     DEF Delete, Edit, TakeAck, LoseFrames, HandlesFailure, CreateFails, vars
<1> QED
  BY <1>1, <1>2, <1>3, <1>4, <1>5, <1>6

(* Owns in the next state. *)
OwnsNext(t, j) == j \in used' /\ (j \in DOMAIN store' => store'[j].task = t)

(* What stands for a task stands for it ever after. *)
LEMMA OwnsStays ==
    ASSUME TypeOK, [Next]_vars, NEW t \in Tasks, NEW j, Owns(t, j)
    PROVE  OwnsNext(t, j)
  BY StoreStep DEF Owns, OwnsNext

(* Whatever is lost or fails, what is known of a task stays true of it. *)
LEMMA StepOwn ==
    ASSUME TypeOK, EditInv, OwnInv, [Next]_vars PROVE OwnInv'
<1>1. ASSUME NEW t \in Tasks, NEW j, j = NoJob \/ Owns(t, j)
      PROVE  j = NoJob \/ OwnsNext(t, j)
  BY <1>1, OwnsStays
<1>2. ASSUME NEW t \in Tasks, NEW j, Owns(t, j) PROVE OwnsNext(t, j)
  BY <1>2, OwnsStays
<1>3. ASSUME row' = row PROVE \A t \in Tasks : row'[t] = NoJob \/ OwnsNext(t, row[t])
  BY <1>1, <1>3 DEF OwnInv, Owns, OwnsNext
<1>4. ASSUME \A n \in 1..Len(down') : \E k \in 1..Len(down) : down'[n] = down[k]
      PROVE  \A n \in 1..Len(down') : \A t \in Tasks :
                 Sched(n, t)' => down'[n].job = NoJob \/ OwnsNext(t, down'[n].job)
  BY <1>1, <1>4 DEF OwnInv, Sched
<1>5. ASSUME \A n \in 1..Len(up') : \E k \in 1..Len(up) : up'[n] = up[k]
      PROVE  \A n \in 1..Len(up') : \A t \in Tasks :
                 Acked(n, t)' => OwnsNext(t, up'[n].job)
  BY <1>2, <1>5 DEF OwnInv, Acked
<1>6. ASSUME NEW t \in Tasks, NEW on \in BOOLEAN, Edit(t, on) PROVE OwnInv'
  <2>1. /\ down' = Append(down, Asked(t, on)) /\ Asked(t, on) \in Schedules
        /\ down \in Seq(Schedules \cup Deletes)
        /\ row' = row /\ up' = up
    BY <1>6, Edited DEF TypeOK
  <2>2. ASSUME NEW n \in 1..Len(down'), NEW u \in Tasks, Sched(n, u)'
        PROVE  down'[n].job = NoJob \/ OwnsNext(u, down'[n].job)
    <3>1. \/ n \in 1..Len(down) /\ down'[n] = down[n]
          \/ down'[n] = Asked(t, on)
      BY <2>1, Pushed
    <3>2. CASE n \in 1..Len(down) /\ down'[n] = down[n]
      BY <1>1, <2>2, <3>2 DEF OwnInv, Sched
    <3>3. CASE down'[n] = Asked(t, on)
      <4>1. u = t /\ down'[n].job = row[t]
        BY <2>2, <3>3 DEF Sched, Asked
      <4> QED
        BY <1>1, <4>1 DEF OwnInv
    <3> QED
      BY <3>1, <3>2, <3>3
  <2> QED
    BY <1>3, <1>5, <2>1, <2>2 DEF OwnInv, Owns, OwnsNext
<1>7. ASSUME NEW t \in Tasks, Delete(t) PROVE OwnInv'
  <2>1. /\ down' = Append(down, Dropped(t)) /\ Dropped(t) \in Deletes
        /\ down \in Seq(Schedules \cup Deletes)
        /\ row' = row /\ up' = up
    BY <1>7, Deleted DEF TypeOK
  <2>2. ASSUME NEW n \in 1..Len(down'), NEW u \in Tasks, Sched(n, u)'
        PROVE  down'[n].job = NoJob \/ OwnsNext(u, down'[n].job)
    <3>1. \/ n \in 1..Len(down) /\ down'[n] = down[n]
          \/ down'[n] = Dropped(t)
      BY <2>1, Pushed
    <3>2. down'[n] # Dropped(t)
      BY <2>2 DEF Sched, Dropped
    <3> QED
      BY <1>1, <2>2, <3>1, <3>2 DEF OwnInv, Sched
  <2> QED
    BY <1>3, <1>5, <2>1, <2>2 DEF OwnInv, Owns, OwnsNext
<1>8. CASE TakeAck
  <2>1. /\ 1 \in 1..Len(up) /\ up[1] \in Acks
        /\ \A n \in 1..Len(up') : n + 1 \in 1..Len(up) /\ up'[n] = up[n + 1]
        /\ row' = IF up[1].ok THEN [row EXCEPT ![up[1].task] = up[1].job] ELSE row
        /\ down' = down
    BY <1>8, Taken
  <2>2. ASSUME NEW t \in Tasks PROVE row'[t] = NoJob \/ OwnsNext(t, row'[t])
    <3>1. CASE Acked(1, t)
      <4>1. row'[t] = up[1].job
        BY <2>1, <3>1 DEF Acked, TypeOK
      <4>2. Owns(t, up[1].job)
        BY <2>1, <3>1 DEF OwnInv
      <4> QED
        BY <1>2, <4>1, <4>2
    <3>2. CASE ~Acked(1, t)
      <4>1. row'[t] = row[t]
        BY <2>1, <3>2 DEF Acked, TypeOK
      <4> QED
        BY <1>1, <4>1 DEF OwnInv
    <3> QED
      BY <3>1, <3>2
  <2>3. \A n \in 1..Len(up') : \A t \in Tasks : Acked(n, t)' => OwnsNext(t, up'[n].job)
    BY <1>5, <2>1
  <2>4. \A n \in 1..Len(down') : \A t \in Tasks :
            Sched(n, t)' => down'[n].job = NoJob \/ OwnsNext(t, down'[n].job)
    BY <1>4, <2>1
  <2> QED
    BY <2>2, <2>3, <2>4 DEF OwnInv, Owns, OwnsNext
<1>9. CASE LoseFrames
  <2>1. PICK n \in 0..Len(down) : down' = SubSeq(down, 1, n)
    BY <1>9 DEF LoseFrames
  <2>2. \A k \in 1..Len(down') : k \in 1..Len(down) /\ down'[k] = down[k]
    BY <2>1, Kept DEF TypeOK
  <2>3. row' = row /\ Len(up') = 0
    BY <1>9 DEF LoseFrames, serverVars
  <2> QED
    BY <1>3, <1>4, <1>5, <2>2, <2>3 DEF OwnInv, Owns, OwnsNext
<1>10. ASSUME NEW m, NEW bad, Handles(m, bad)
       PROVE  /\ row' = row
              /\ \A n \in 1..Len(down') : \E k \in 1..Len(down) : down'[n] = down[k]
  BY <1>10, Handled
<1>11. ASSUME NEW m \in Schedules, NEW bad \in SUBSET Faults, Handles(m, bad),
              NEW j \in Jobs \cup {NoJob}, NEW ok \in BOOLEAN,
              up' = Append(up, AckOf(m, j, ok)), ok => OwnsNext(m.task, j)
       PROVE  OwnInv'
  <2>1. /\ AckOf(m, j, ok) \in Acks /\ AckOf(m, j, ok).task = m.task
        /\ AckOf(m, j, ok).job = j /\ AckOf(m, j, ok).ok = ok
    BY AckShape
  <2>2. ASSUME NEW n \in 1..Len(up'), NEW t \in Tasks, Acked(n, t)'
        PROVE  OwnsNext(t, up'[n].job)
    <3>1. \/ n \in 1..Len(up) /\ up'[n] = up[n]
          \/ up'[n] = AckOf(m, j, ok)
      BY <1>11, <2>1, Pushed DEF TypeOK
    <3>2. CASE n \in 1..Len(up) /\ up'[n] = up[n]
      BY <1>2, <2>2, <3>2 DEF OwnInv, Acked
    <3>3. CASE up'[n] = AckOf(m, j, ok)
      BY <1>11, <2>1, <2>2, <3>3 DEF Acked
    <3> QED
      BY <3>1, <3>2, <3>3
  <2> QED
    BY <1>3, <1>4, <1>10, <1>11, <2>2 DEF OwnInv, Owns, OwnsNext
<1>12. ASSUME NEW m \in Schedules, NEW bad \in SUBSET Faults, HandlesUpdate(m, bad)
       PROVE  OwnInv'
  <2>1. Handles(m, bad) /\ m.job \in DOMAIN store /\ m.job # NoJob /\ m.job \in Jobs
    BY <1>12, JobsAssumption DEF HandlesUpdate, TypeOK
  <2>2. Owns(m.task, m.job)
    <3>1. 1 \in 1..Len(down) /\ down[1] = m
      BY <2>1, Handled
    <3>2. Sched(1, m.task)
      BY <3>1 DEF Sched, Schedules
    <3> QED
      BY <2>1, <3>1, <3>2, ScheduleType DEF OwnInv
  <2>3. up' = Append(up, AckOf(m, m.job, TRUE))
    BY <1>12, <2>1, Updated DEF HandlesUpdate
  <2> QED
    BY <1>2, <1>11, <2>1, <2>2, <2>3, ScheduleType
<1>13. ASSUME NEW m \in Schedules, NEW bad \in SUBSET Faults, HandlesCreate(m, bad)
       PROVE  OwnInv'
  <2>1. PICK j \in Jobs \ used :
            /\ used' = used \cup {j} /\ store'[j].task = m.task
            /\ up' = Append(up, AckOf(m, j, TRUE))
    BY <1>13, Created DEF HandlesCreate
  <2>2. OwnsNext(m.task, j)
    BY <2>1 DEF OwnsNext
  <2> QED
    BY <1>11, <1>13, <2>1, <2>2 DEF HandlesCreate
<1>14. ASSUME NEW m \in Schedules, NEW bad \in SUBSET Faults, HandlesFailure(m, bad)
       PROVE  OwnInv'
  <2>1. up' = Append(up, AckOf(m, m.job, FALSE)) /\ Handles(m, bad)
    BY <1>14 DEF HandlesFailure, CreateFails, Ack, AckOf
  <2> QED
    BY <1>11, <2>1, ScheduleType
<1>15. ASSUME NEW m \in Deletes, NEW bad \in SUBSET Faults, HandlesRemoval(m, bad)
       PROVE  OwnInv'
  <2>1. Handles(m, bad) /\ up' = up
    BY <1>15 DEF HandlesRemoval
  <2> QED
    BY <1>3, <1>4, <1>5, <1>10, <2>1 DEF OwnInv, Owns, OwnsNext
<1>16. ASSUME NEW m \in Schedules, NEW bad \in SUBSET Faults, HandlesUnheard(m, bad)
       PROVE  OwnInv'
  <2>1. up' = Append(up, AckOf(m, m.job, FALSE)) /\ Handles(m, bad)
    BY <1>16, Unheard DEF HandlesUnheard
  <2> QED
    BY <1>11, <2>1, ScheduleType
<1>17. CASE UNCHANGED vars
  BY <1>3, <1>4, <1>5, <1>17 DEF OwnInv, Owns, OwnsNext, vars, serverVars
<1> QED
  BY <1>6, <1>7, <1>8, <1>9, <1>12, <1>13, <1>14, <1>15, <1>16, <1>17, StepKinds

-----------------------------------------------------------------------------
(* What is known of a schedule when its turn comes. *)
LEMMA NextSchedule ==
    ASSUME TypeOK, OwnInv, RevInv, NEW m \in Schedules, NEW bad, Handles(m, bad)
    PROVE  /\ 1 \in 1..Len(down) /\ down[1] = m /\ Sched(1, m.task)
           /\ m.task \in Tasks /\ m.rev \in Nat
           /\ m.rev <= want[m.task].rev
           /\ \A k \in 1..Len(down) : Sched(k, m.task) /\ 1 < k => m.rev < down[k].rev
           /\ \A j \in DOMAIN store : store[j].task = m.task => store[j].rev < m.rev
           /\ m.job \in DOMAIN store => store[m.job].task = m.task
<1>1. 1 \in 1..Len(down) /\ down[1] = m
  BY Handled
<1>2. m.task \in Tasks /\ m.rev \in Nat
  BY ScheduleType, BoundAssumption
<1>3. Sched(1, m.task)
  BY <1>1 DEF Sched, Schedules
<1>4. m.job \in DOMAIN store => store[m.job].task = m.task
  BY <1>1, <1>2, <1>3, JobsAssumption DEF OwnInv, Owns, TypeOK
<1> QED
  BY <1>1, <1>2, <1>3, <1>4 DEF RevInv

(* The revisions are numbers. *)
LEMMA Numbers ==
    ASSUME TypeOK
    PROVE  /\ \A t \in Tasks : want[t].rev \in Nat
           /\ \A j \in DOMAIN store : store[j].rev \in Nat \ {0} /\ store[j].task \in Tasks
           /\ \A n \in 1..Len(up) : up[n].rev \in Nat \ {0} /\ up[n].task \in Tasks
           /\ \A t \in Tasks : \A n \in 1..Len(down) :
                  Sched(n, t) => down[n].rev \in Nat \ {0} /\ down[n] \in Schedules
<1>1. ASSUME NEW t \in Tasks PROVE want[t].rev \in Nat
  BY DEF TypeOK, Settings
<1>2. ASSUME NEW j \in DOMAIN store PROVE store[j].rev \in Nat \ {0} /\ store[j].task \in Tasks
  <2>1. store[j] \in Records
    BY DEF TypeOK
  <2> QED
    BY <2>1 DEF Records
<1>3. ASSUME NEW n \in 1..Len(up) PROVE up[n].rev \in Nat \ {0} /\ up[n].task \in Tasks
  <2>1. up[n] \in Acks
    BY ElementOfSeq DEF TypeOK
  <2> QED
    BY <2>1 DEF Acks
<1>4. ASSUME NEW t \in Tasks, NEW n \in 1..Len(down), Sched(n, t)
      PROVE  down[n].rev \in Nat \ {0} /\ down[n] \in Schedules
  <2>1. down[n] \in Schedules \cup Deletes
    BY ElementOfSeq DEF TypeOK
  <2>2. down[n] \in Schedules
    BY <1>4, <2>1 DEF Sched, Deletes
  <2>3. down[n].rev \in 1..EditBound
    BY <2>2, ScheduleType
  <2> QED
    BY <2>2, <2>3, BoundAssumption
<1> QED
  BY <1>1, <1>2, <1>3, <1>4

(* What handling a frame makes of jobs and acks: they stay, or they are of *)
(* the frame's task and revision.                                          *)
Effect(m) ==
    /\ \A j \in DOMAIN store' :
           \/ /\ j \in DOMAIN store
              /\ store'[j].task = store[j].task /\ store'[j].rev = store[j].rev
           \/ m \in Schedules /\ store'[j].task = m.task /\ store'[j].rev = m.rev
    /\ \A n \in 1..Len(up') :
           \/ n \in 1..Len(up) /\ up'[n] = up[n]
           \/ m \in Schedules /\ up'[n].task = m.task /\ up'[n].rev = m.rev

LEMMA Effects ==
    ASSUME TypeOK, OwnInv, RevInv, NEW m, NEW bad,
           \/ m \in Schedules /\ HandlesUpdate(m, bad)
           \/ m \in Schedules /\ HandlesCreate(m, bad)
           \/ m \in Schedules /\ HandlesFailure(m, bad)
           \/ m \in Schedules /\ HandlesUnheard(m, bad)
           \/ HandlesRemoval(m, bad)
    PROVE  Handles(m, bad) /\ Effect(m)
<1>1. ASSUME m \in Schedules, NEW j \in Jobs \cup {NoJob}, NEW ok \in BOOLEAN,
             up' = Append(up, AckOf(m, j, ok))
      PROVE  \A n \in 1..Len(up') :
                 \/ n \in 1..Len(up) /\ up'[n] = up[n]
                 \/ m \in Schedules /\ up'[n].task = m.task /\ up'[n].rev = m.rev
  <2>1. /\ AckOf(m, j, ok) \in Acks
        /\ AckOf(m, j, ok).task = m.task /\ AckOf(m, j, ok).rev = m.rev
    BY <1>1, AckShape
  <2> QED
    BY <1>1, <2>1, Pushed DEF TypeOK
<1>2. CASE m \in Schedules /\ HandlesUpdate(m, bad)
  <2>1. Handles(m, bad) /\ m.job \in DOMAIN store /\ store[m.job].task = m.task
    BY <1>2, NextSchedule DEF HandlesUpdate
  <2>2. /\ DOMAIN store' = DOMAIN store
        /\ \A k \in DOMAIN store \ {m.job} : store'[k] = store[k]
        /\ store'[m.job].task = store[m.job].task
        /\ store'[m.job].rev \in {store[m.job].rev, m.rev}
        /\ up' = Append(up, AckOf(m, m.job, TRUE))
    BY <1>2, <2>1, Updated DEF HandlesUpdate
  <2> QED
    BY <1>1, <1>2, <2>1, <2>2, ScheduleType DEF Effect
<1>3. CASE m \in Schedules /\ HandlesCreate(m, bad)
  <2>1. PICK j \in Jobs \ used :
            /\ DOMAIN store' = DOMAIN store \cup {j}
            /\ \A k \in DOMAIN store : store'[k] = store[k]
            /\ store'[j].task = m.task /\ store'[j].rev = m.rev
            /\ up' = Append(up, AckOf(m, j, TRUE))
    BY <1>3, Created DEF HandlesCreate
  <2> QED
    BY <1>1, <1>3, <2>1 DEF Effect, HandlesCreate
<1>4. CASE m \in Schedules /\ HandlesFailure(m, bad)
  <2>1. /\ up' = Append(up, AckOf(m, m.job, FALSE))
        /\ store' = store
    BY <1>4 DEF HandlesFailure, CreateFails, Ack, AckOf
  <2> QED
    BY <1>1, <1>4, <2>1, ScheduleType DEF Effect, HandlesFailure
<1>5. CASE HandlesRemoval(m, bad)
  BY <1>5 DEF HandlesRemoval, Effect
<1>6. CASE m \in Schedules /\ HandlesUnheard(m, bad)
  <2>1. PICK j \in Jobs \ used :
            /\ DOMAIN store' = DOMAIN store \cup {j}
            /\ \A k \in DOMAIN store : store'[k] = store[k]
            /\ store'[j].task = m.task /\ store'[j].rev = m.rev
            /\ up' = Append(up, AckOf(m, m.job, FALSE))
    BY <1>6, Unheard DEF HandlesUnheard
  <2> QED
    BY <1>1, <1>6, <2>1, ScheduleType DEF Effect, HandlesUnheard
<1> QED
  BY <1>2, <1>3, <1>4, <1>5, <1>6

(* What is on its way stays newer than what is applied. *)
LEMMA StepRev ==
    ASSUME TypeOK, EditInv, OwnInv, RevInv, [Next]_vars PROVE RevInv'
<1>1. ASSUME want' = want, store' = store,
             \A n \in 1..Len(up') : \E k \in 1..Len(up) : up'[n] = up[k],
             \A n \in 1..Len(down') : \A t \in Tasks : Sched(n, t)' =>
                 n \in 1..Len(down) /\ down'[n] = down[n]
      PROVE  RevInv'
  <2>1. \A t \in Tasks : \A n \in 1..Len(down') : Sched(n, t)' => Sched(n, t)
    BY <1>1 DEF Sched
  <2> QED
    BY <1>1, <2>1 DEF RevInv
<1>2. ASSUME NEW t \in Tasks, NEW on \in BOOLEAN, Edit(t, on) PROVE RevInv'
  <2>1. /\ down' = Append(down, Asked(t, on)) /\ Asked(t, on) \in Schedules
        /\ down \in Seq(Schedules \cup Deletes)
        /\ \A u \in Tasks \ {t} : want'[u] = want[u]
        /\ want'[t].rev = want[t].rev + 1
        /\ up' = up /\ store' = store
    BY <1>2, Edited DEF TypeOK
  <2>2. \A u \in Tasks : want[u].rev <= want'[u].rev /\ want[u].rev \in Nat
                         /\ want'[u].rev \in Nat
    BY <2>1, Numbers
  <2>3. \A j \in DOMAIN store' : store'[j].rev <= want'[store'[j].task].rev
    BY <2>1, <2>2, Numbers DEF RevInv
  <2>4. \A n \in 1..Len(up') : up'[n].rev <= want'[up'[n].task].rev
    BY <2>1, <2>2, Numbers DEF RevInv
  <2>5. ASSUME NEW n \in 1..Len(down'), NEW u \in Tasks, Sched(n, u)'
        PROVE  \/ n \in 1..Len(down) /\ Sched(n, u) /\ down'[n] = down[n]
               \/ n = Len(down) + 1 /\ u = t /\ down'[n].rev = want[t].rev + 1
    <3>1. \/ n \in 1..Len(down) /\ down'[n] = down[n]
          \/ n = Len(down) + 1 /\ down'[n] = Asked(t, on)
      BY <2>1, Pushed
    <3> QED
      BY <2>5, <3>1 DEF Sched, Asked
  <2>6. ASSUME NEW u \in Tasks, NEW n \in 1..Len(down'), Sched(n, u)'
        PROVE  /\ down'[n].rev <= want'[u].rev
               /\ \A k \in 1..Len(down') :
                      Sched(k, u)' /\ n < k => down'[n].rev < down'[k].rev
               /\ \A j \in DOMAIN store' :
                      store'[j].task = u => store'[j].rev < down'[n].rev
    <3>1. Len(down) \in Nat
      BY <2>1, LenProperties
    <3>2. CASE n \in 1..Len(down) /\ Sched(n, u) /\ down'[n] = down[n]
      <4>1. /\ down[n].rev <= want[u].rev /\ down[n].rev \in Nat
            /\ \A k \in 1..Len(down) : Sched(k, u) /\ n < k => down[n].rev < down[k].rev
            /\ \A j \in DOMAIN store : store[j].task = u => store[j].rev < down[n].rev
        BY <3>2, Numbers DEF RevInv
      <4>2. down'[n].rev <= want'[u].rev
        BY <2>2, <3>2, <4>1
      <4>3. ASSUME NEW k \in 1..Len(down'), Sched(k, u)', n < k
            PROVE  down'[n].rev < down'[k].rev
        <5>1. CASE k \in 1..Len(down) /\ Sched(k, u) /\ down'[k] = down[k]
          BY <3>2, <4>1, <4>3, <5>1
        <5>2. CASE u = t /\ down'[k].rev = want[t].rev + 1
          BY <2>2, <3>2, <4>1, <5>2
        <5> QED
          BY <2>5, <4>3, <5>1, <5>2
      <4> QED
        BY <2>1, <3>2, <4>1, <4>2, <4>3
    <3>3. CASE n = Len(down) + 1 /\ u = t /\ down'[n].rev = want[t].rev + 1
      <4>1. \A k \in 1..Len(down') : ~(n < k)
        BY <2>1, <3>1, <3>3, Pushed
      <4>2. \A j \in DOMAIN store : store[j].task = u => store[j].rev < down'[n].rev
        BY <2>2, <3>3, Numbers DEF RevInv
      <4> QED
        BY <2>1, <2>2, <3>3, <4>1, <4>2
    <3> QED
      BY <2>5, <2>6, <3>2, <3>3
  <2> QED
    BY <2>3, <2>4, <2>6 DEF RevInv
<1>3. ASSUME NEW t \in Tasks, Delete(t) PROVE RevInv'
  <2>1. /\ down' = Append(down, Dropped(t)) /\ Dropped(t) \in Deletes
        /\ down \in Seq(Schedules \cup Deletes)
        /\ want' = want /\ up' = up /\ store' = store
    BY <1>3, Deleted DEF TypeOK
  <2>2. ASSUME NEW n \in 1..Len(down'), NEW u \in Tasks, Sched(n, u)'
        PROVE  n \in 1..Len(down) /\ down'[n] = down[n]
    <3>1. down'[n] # Dropped(t)
      BY <2>2 DEF Sched, Dropped
    <3> QED
      BY <2>1, <3>1, Pushed
  <2> QED
    BY <1>1, <2>1, <2>2
<1>4. CASE TakeAck
  BY <1>1, <1>4, Taken
<1>5. CASE LoseFrames
  <2>1. PICK n \in 0..Len(down) : down' = SubSeq(down, 1, n)
    BY <1>5 DEF LoseFrames
  <2>2. \A k \in 1..Len(down') : k \in 1..Len(down) /\ down'[k] = down[k]
    BY <2>1, Kept DEF TypeOK
  <2>3. want' = want /\ store' = store /\ Len(up') = 0
    BY <1>5 DEF LoseFrames, serverVars
  <2> QED
    BY <1>1, <2>2, <2>3
<1>6. ASSUME NEW m, NEW bad, Handles(m, bad), Effect(m) PROVE RevInv'
  <2>1. /\ \A n \in 1..Len(down') :
               n + 1 \in 1..Len(down) /\ down'[n] = down[n + 1] /\ 1 < n + 1
        /\ want' = want
    BY <1>6, Handled
  <2>2. \A t \in Tasks : \A n \in 1..Len(down') : Sched(n, t)' => Sched(n + 1, t)
    BY <2>1 DEF Sched
  <2>3. ASSUME m \in Schedules
        PROVE  /\ m.task \in Tasks /\ m.rev <= want[m.task].rev
               /\ \A k \in 1..Len(down) :
                      Sched(k, m.task) /\ 1 < k => m.rev < down[k].rev
    BY <1>6, <2>3, NextSchedule
  <2>4. \A j \in DOMAIN store' : store'[j].rev <= want'[store'[j].task].rev
    BY <1>6, <2>1, <2>3 DEF Effect, RevInv
  <2>5. \A n \in 1..Len(up') : up'[n].rev <= want'[up'[n].task].rev
    BY <1>6, <2>1, <2>3 DEF Effect, RevInv
  <2>6. ASSUME NEW t \in Tasks, NEW n \in 1..Len(down'), Sched(n, t)'
        PROVE  /\ down'[n].rev <= want'[t].rev
               /\ \A k \in 1..Len(down') :
                      Sched(k, t)' /\ n < k => down'[n].rev < down'[k].rev
               /\ \A j \in DOMAIN store' :
                      store'[j].task = t => store'[j].rev < down'[n].rev
    <3>1. n + 1 \in 1..Len(down) /\ Sched(n + 1, t) /\ down'[n] = down[n + 1] /\ 1 < n + 1
      BY <2>1, <2>2, <2>6
    <3>2. down'[n].rev <= want'[t].rev
      BY <2>1, <3>1 DEF RevInv
    <3>3. ASSUME NEW k \in 1..Len(down'), Sched(k, t)', n < k
          PROVE  down'[n].rev < down'[k].rev
      <4>1. k + 1 \in 1..Len(down) /\ Sched(k + 1, t) /\ down'[k] = down[k + 1]
        BY <2>1, <2>2, <3>3
      <4>2. n + 1 < k + 1
        BY <3>3
      <4> QED
        BY <3>1, <4>1, <4>2 DEF RevInv
    <3>4. ASSUME NEW j \in DOMAIN store', store'[j].task = t
          PROVE  store'[j].rev < down'[n].rev
      <4>1. CASE /\ j \in DOMAIN store
                 /\ store'[j].task = store[j].task /\ store'[j].rev = store[j].rev
        BY <3>1, <3>4, <4>1 DEF RevInv
      <4>2. CASE m \in Schedules /\ store'[j].task = m.task /\ store'[j].rev = m.rev
        BY <2>3, <3>1, <3>4, <4>2
      <4> QED
        BY <1>6, <4>1, <4>2 DEF Effect
    <3> QED
      BY <3>2, <3>3, <3>4
  <2> QED
    BY <2>4, <2>5, <2>6 DEF RevInv
<1>7. CASE UNCHANGED vars
  BY <1>1, <1>7 DEF vars, serverVars
<1> QED
  BY <1>2, <1>3, <1>4, <1>5, <1>6, <1>7, StepKinds, Effects

-----------------------------------------------------------------------------
(* What a step does not do to task t keeps what is known of it. *)
LEMMA RowInvStays ==
    ASSUME NEW t, RowInv(t),
           row'[t] = row[t], t \in gone' <=> t \in gone,
           want'[t].rev = want[t].rev, JobsOf(t)' = JobsOf(t),
           row[t] \in DOMAIN store => row[t] \in DOMAIN store',
           \A n \in 1..Len(down') : Sched(n, t)' =>
               \E k \in 1..Len(down) : Sched(k, t) /\ down'[n].job = down[k].job,
           \A n \in 1..Len(up') : Acked(n, t)' =>
               \E k \in 1..Len(up) : Acked(k, t) /\ up'[n].job = up[k].job
    PROVE  RowInv(t)'
<1>1. CASE row[t] = NoJob
  BY <1>1 DEF RowInv, Rowless
<1>2. CASE row[t] # NoJob
  BY <1>2 DEF RowInv, Rowed
<1> QED
  BY <1>1, <1>2

(* The acks after one more. *)
LEMMA OneAck ==
    ASSUME TypeOK, NEW m \in Schedules, NEW j \in Jobs \cup {NoJob},
           NEW ok \in BOOLEAN, up' = Append(up, AckOf(m, j, ok))
    PROVE  /\ \A n \in 1..Len(up) : n \in 1..Len(up') /\ up'[n] = up[n]
           /\ Len(up) + 1 \in 1..Len(up') /\ up'[Len(up) + 1] = AckOf(m, j, ok)
           /\ \A n \in 1..Len(up') : \A t : Acked(n, t)' =>
                  \/ n \in 1..Len(up) /\ Acked(n, t) /\ up'[n] = up[n]
                  \/ ok /\ t = m.task /\ up'[n].job = j
<1>1. /\ AckOf(m, j, ok) \in Acks /\ AckOf(m, j, ok).task = m.task
      /\ AckOf(m, j, ok).job = j /\ AckOf(m, j, ok).ok = ok
  BY AckShape
<1>2. /\ \A n \in 1..Len(up) : n \in 1..Len(up') /\ up'[n] = up[n]
      /\ Len(up) + 1 \in 1..Len(up') /\ up'[Len(up) + 1] = AckOf(m, j, ok)
      /\ \A n \in 1..Len(up') :
             \/ n \in 1..Len(up) /\ up'[n] = up[n]
             \/ up'[n] = AckOf(m, j, ok)
  BY <1>1, Pushed DEF TypeOK
<1> QED
  BY <1>1, <1>2 DEF Acked

(* The successful acks after one more. *)
LEMMA OneGoodAck ==
    ASSUME TypeOK, NEW a \in Acks, a.ok, up' = Append(up, a)
    PROVE  /\ \A n \in 1..Len(up) : n \in 1..Len(up') /\ up'[n] = up[n]
           /\ Len(up) + 1 \in 1..Len(up') /\ up'[Len(up) + 1] = a
           /\ \A n \in 1..Len(up') : \A t : Acked(n, t)' =>
                  \/ n \in 1..Len(up) /\ Acked(n, t) /\ up'[n] = up[n]
                  \/ t = a.task /\ up'[n] = a
<1>1. /\ \A n \in 1..Len(up) : n \in 1..Len(up') /\ up'[n] = up[n]
      /\ Len(up) + 1 \in 1..Len(up') /\ up'[Len(up) + 1] = a
      /\ \A n \in 1..Len(up') :
             \/ n \in 1..Len(up) /\ up'[n] = up[n]
             \/ up'[n] = a
  BY Pushed DEF TypeOK
<1> QED
  BY <1>1 DEF Acked

(* A frame leaves the others in their order. *)
LEMMA HandledInv ==
    ASSUME TypeOK, NEW m, NEW bad, Handles(m, bad)
    PROVE  /\ \A t : \A n \in 1..Len(down') : Sched(n, t)' =>
                  n + 1 \in 1..Len(down) /\ Sched(n + 1, t) /\ down'[n] = down[n + 1]
                  /\ 1 < n + 1
           /\ RemovalInv => RemovalInv'
<1>1. /\ \A n \in 1..Len(down') :
             n + 1 \in 1..Len(down) /\ down'[n] = down[n + 1] /\ 1 < n + 1
      /\ gone' = gone /\ row' = row
  BY Handled
<1>2. ASSUME NEW t, NEW n \in 1..Len(down'), Sched(n, t)' PROVE Sched(n + 1, t)
  BY <1>1, <1>2 DEF Sched
<1>3. ASSUME RemovalInv PROVE RemovalInv'
  <2>1. SUFFICES ASSUME NEW n \in 1..Len(down'), down'[n].type = "task.delete"
                 PROVE  \E t \in gone :
                            /\ row[t] # NoJob
                            /\ down'[n].type = "task.delete" /\ down'[n].job = row[t]
                            /\ \A k \in 1..Len(down') : Sched(k, t)' => k < n
    BY <1>1 DEF RemovalInv, Removal
  <2>2. n + 1 \in 1..Len(down) /\ down'[n] = down[n + 1]
    BY <1>1
  <2>3. PICK t \in gone :
            /\ row[t] # NoJob /\ Removal(n + 1, t)
            /\ \A k \in 1..Len(down) : Sched(k, t) => k < n + 1
    BY <1>3, <2>1, <2>2 DEF RemovalInv
  <2>4. ASSUME NEW k \in 1..Len(down'), Sched(k, t)' PROVE k < n
    <3>1. k + 1 < n + 1
      BY <1>1, <1>2, <2>3, <2>4
    <3> QED
      BY <3>1
  <2> QED
    BY <2>1, <2>2, <2>3, <2>4 DEF Removal
<1> QED
  BY <1>1, <1>2, <1>3

(* As long as nothing is lost or outrun, a task has at most one job. *)
LEMMA StepClean ==
    ASSUME TypeOK, EditInv, OwnInv, RevInv, CleanInv, [Next]_vars PROVE CleanInv'
<1> SUFFICES ASSUME Clean' PROVE RemovalInv' /\ \A t \in Tasks : RowInv(t)'
  BY DEF CleanInv
<1>1. ASSUME NEW t \in Tasks, NEW on \in BOOLEAN, Edit(t, on)
      PROVE  RemovalInv' /\ \A u \in Tasks : RowInv(u)'
  <2>1. /\ down' = Append(down, Asked(t, on)) /\ Asked(t, on) \in Schedules
        /\ down \in Seq(Schedules \cup Deletes)
        /\ \A u \in Tasks \ {t} : want'[u] = want[u]
        /\ want'[t].rev = want[t].rev + 1
        /\ UNCHANGED <<gone, row, up, store>>
        /\ t \notin gone
    BY <1>1, Edited DEF TypeOK, Edit
  <2>2. Clean /\ (row[t] = NoJob => want[t].rev = 0)
    <3>1. trouble' = trouble \cup Early(t)
      BY <1>1 DEF Edit, Meet
    <3>2. want[t].rev \in Nat
      BY Numbers
    <3> QED
      BY <3>1, <3>2 DEF Clean, Early
  <2>3. RemovalInv /\ \A u \in Tasks : RowInv(u)
    BY <2>2 DEF CleanInv
  <2>4. /\ Len(down) + 1 \in 1..Len(down')
        /\ \A n \in 1..Len(down') :
               \/ n \in 1..Len(down) /\ down'[n] = down[n]
               \/ n = Len(down) + 1 /\ down'[n] = Asked(t, on)
    BY <2>1, Pushed
  <2>5. ASSUME NEW n \in 1..Len(down'), NEW u, Sched(n, u)'
        PROVE  \/ n \in 1..Len(down) /\ Sched(n, u) /\ down'[n] = down[n]
               \/ u = t /\ down'[n].job = row[t]
    BY <2>4, <2>5 DEF Sched, Asked
  <2>6. RemovalInv'
    <3>1. SUFFICES ASSUME NEW n \in 1..Len(down'), down'[n].type = "task.delete"
                   PROVE  \E u \in gone :
                              /\ row[u] # NoJob
                              /\ down'[n].type = "task.delete" /\ down'[n].job = row[u]
                              /\ \A k \in 1..Len(down') : Sched(k, u)' => k < n
      BY <2>1 DEF RemovalInv, Removal
    <3>2. n \in 1..Len(down) /\ down'[n] = down[n]
      BY <2>4, <3>1 DEF Asked
    <3>3. PICK u \in gone :
              /\ row[u] # NoJob /\ Removal(n, u)
              /\ \A k \in 1..Len(down) : Sched(k, u) => k < n
      BY <2>3, <3>1, <3>2 DEF RemovalInv
    <3>4. u # t
      BY <2>1, <3>3
    <3> QED
      BY <2>5, <3>1, <3>2, <3>3, <3>4 DEF Removal
  <2>7. ASSUME NEW u \in Tasks, u # t PROVE RowInv(u)'
    <3>1. JobsOf(u)' = JobsOf(u)
      BY <2>1 DEF JobsOf
    <3>2. \A n \in 1..Len(up') : Acked(n, u)' => Acked(n, u)
      BY <2>1 DEF Acked
    <3>3. \A n \in 1..Len(down') : Sched(n, u)' =>
              \E k \in 1..Len(down) : Sched(k, u) /\ down'[n].job = down[k].job
      BY <2>5, <2>7
    <3> QED
      BY <2>1, <2>3, <2>7, <3>1, <3>2, <3>3, RowInvStays
  <2>8. RowInv(t)'
    <3>1. JobsOf(t)' = JobsOf(t) /\ row' = row /\ up' = up /\ gone' = gone
      BY <2>1 DEF JobsOf
    <3>2. CASE row[t] = NoJob
      <4>1. want[t].rev = 0 /\ want'[t].rev = 1
        BY <2>1, <2>2, <3>2
      <4>2. \A n \in 1..Len(down) : ~Sched(n, t)
        BY <4>1, Numbers DEF RevInv
      <4>3. \A n \in 1..Len(up) : ~Acked(n, t)
        BY <4>1, Numbers DEF RevInv, Acked
      <4>4. JobsOf(t) = {}
        BY <4>1, Numbers DEF RevInv, JobsOf
      <4>5. \A n \in 1..Len(down') : Sched(n, t)' => down'[n].job = NoJob
        BY <2>5, <3>2, <4>2
      <4>6. \A n \in 1..Len(up') : ~Acked(n, t)'
        BY <3>1, <4>3 DEF Acked
      <4> QED
        BY <2>1, <3>1, <3>2, <4>1, <4>4, <4>5, <4>6 DEF RowInv, Rowless
    <3>3. CASE row[t] # NoJob
      <4>1. Rowed(t) /\ row[t] \in DOMAIN store
        BY <2>1, <2>3, <3>3 DEF RowInv, Rowed
      <4>2. \A n \in 1..Len(down') : Sched(n, t)' => down'[n].job = row[t]
        BY <2>5, <4>1 DEF Rowed
      <4>3. \A n \in 1..Len(up') : Acked(n, t)' => up'[n].job = row[t]
        BY <3>1, <4>1 DEF Rowed, Acked
      <4> QED
        BY <2>1, <3>1, <3>3, <4>1, <4>2, <4>3 DEF RowInv, Rowed
    <3> QED
      BY <3>2, <3>3
  <2> QED
    BY <2>6, <2>7, <2>8
<1>2. ASSUME NEW t \in Tasks, Delete(t)
      PROVE  RemovalInv' /\ \A u \in Tasks : RowInv(u)'
  <2>1. /\ down' = Append(down, Dropped(t)) /\ Dropped(t) \in Deletes
        /\ down \in Seq(Schedules \cup Deletes)
        /\ gone' = gone \cup {t}
        /\ UNCHANGED <<want, row, up, store>>
    BY <1>2, Deleted DEF TypeOK
  <2>2. Clean /\ row[t] # NoJob
    BY <1>2 DEF Delete, Meet, Clean, Early
  <2>3. RemovalInv /\ \A u \in Tasks : RowInv(u)
    BY <2>2 DEF CleanInv
  <2>4. /\ Len(down) + 1 \in 1..Len(down')
        /\ \A n \in 1..Len(down') :
               \/ n \in 1..Len(down) /\ down'[n] = down[n]
               \/ n = Len(down) + 1 /\ down'[n] = Dropped(t)
        /\ \A n \in 1..Len(down) : n < Len(down) + 1
    BY <2>1, Pushed
  <2>5. ASSUME NEW n \in 1..Len(down'), NEW u, Sched(n, u)'
        PROVE  n \in 1..Len(down) /\ Sched(n, u) /\ down'[n] = down[n]
    BY <2>4, <2>5 DEF Sched, Dropped
  <2>6. RemovalInv'
    <3>1. SUFFICES ASSUME NEW n \in 1..Len(down'), down'[n].type = "task.delete"
                   PROVE  \E u \in gone' :
                              /\ row[u] # NoJob
                              /\ down'[n].type = "task.delete" /\ down'[n].job = row[u]
                              /\ \A k \in 1..Len(down') : Sched(k, u)' => k < n
      BY <2>1 DEF RemovalInv, Removal
    <3>2. CASE n \in 1..Len(down) /\ down'[n] = down[n]
      <4>1. PICK u \in gone :
                /\ row[u] # NoJob /\ Removal(n, u)
                /\ \A k \in 1..Len(down) : Sched(k, u) => k < n
        BY <2>3, <3>1, <3>2 DEF RemovalInv
      <4> QED
        BY <2>1, <2>5, <3>1, <3>2, <4>1 DEF Removal
    <3>3. CASE n = Len(down) + 1 /\ down'[n] = Dropped(t)
      BY <2>1, <2>2, <2>4, <2>5, <3>1, <3>3 DEF Dropped
    <3> QED
      BY <2>4, <3>2, <3>3
  <2>7. ASSUME NEW u \in Tasks PROVE RowInv(u)'
    <3>1. JobsOf(u)' = JobsOf(u)
      BY <2>1 DEF JobsOf
    <3>2. \A n \in 1..Len(up') : Acked(n, u)' => Acked(n, u)
      BY <2>1 DEF Acked
    <3>3. CASE u # t
      BY <2>1, <2>3, <2>5, <3>1, <3>2, <3>3, RowInvStays
    <3>4. CASE u = t
      BY <2>1, <2>2, <2>3, <2>5, <3>1, <3>2, <3>4 DEF RowInv, Rowed
    <3> QED
      BY <3>3, <3>4
  <2> QED
    BY <2>6, <2>7
<1>3. CASE TakeAck
  <2>1. /\ 1 \in 1..Len(up) /\ up[1] \in Acks
        /\ \A n \in 1..Len(up') : n + 1 \in 1..Len(up) /\ up'[n] = up[n + 1]
        /\ row' = IF up[1].ok THEN [row EXCEPT ![up[1].task] = up[1].job] ELSE row
        /\ UNCHANGED <<want, gone, down, store, trouble>>
    BY <1>3, Taken
  <2>2. RemovalInv /\ \A u \in Tasks : RowInv(u)
    BY <2>1 DEF CleanInv, Clean
  <2>3. ASSUME NEW u \in Tasks
        PROVE  row'[u] = IF Acked(1, u) THEN up[1].job ELSE row[u]
    BY <2>1 DEF Acked, TypeOK
  <2>4. ASSUME NEW u \in Tasks, NEW n \in 1..Len(up'), Acked(n, u)'
        PROVE  n + 1 \in 1..Len(up) /\ Acked(n + 1, u) /\ up'[n].job = up[n + 1].job
    BY <2>1, <2>4 DEF Acked
  <2>5. ASSUME NEW u \in Tasks, Acked(1, u) PROVE up[1].job # NoJob
    BY <2>1, <2>5, JobsAssumption DEF OwnInv, Owns, TypeOK
  <2>6. ASSUME NEW u \in Tasks, row[u] # NoJob PROVE row'[u] = row[u]
    BY <2>1, <2>2, <2>3, <2>6 DEF RowInv, Rowed
  <2>7. RemovalInv'
    <3>1. gone \subseteq Tasks
      BY DEF TypeOK
    <3> QED
      BY <2>1, <2>2, <2>6, <3>1 DEF RemovalInv, Removal, Sched
  <2>8. ASSUME NEW u \in Tasks PROVE RowInv(u)'
    <3>1. JobsOf(u)' = JobsOf(u)
      BY <2>1 DEF JobsOf
    <3>2. \A n \in 1..Len(down') : Sched(n, u)' =>
              n \in 1..Len(down) /\ Sched(n, u) /\ down'[n] = down[n]
      BY <2>1 DEF Sched
    <3>3. CASE row[u] # NoJob \/ ~Acked(1, u)
      <4>1. row'[u] = row[u]
        BY <2>3, <2>6, <3>3
      <4> QED
        BY <2>1, <2>2, <2>4, <3>1, <3>2, <4>1, RowInvStays
    <3>4. CASE row[u] = NoJob /\ Acked(1, u)
      <4>1. row'[u] = up[1].job /\ up[1].job # NoJob
        BY <2>3, <2>5, <3>4
      <4>2. Rowless(u)
        BY <2>2, <3>4 DEF RowInv
      <4>3. JobsOf(u) = {up[1].job}
        BY <2>1, <3>4, <4>2 DEF Rowless
      <4>4. \A n \in 1..Len(down') : ~Sched(n, u)'
        BY <2>1, <3>2, <3>4, <4>2 DEF Rowless
      <4>5. \A n \in 1..Len(up') : Acked(n, u)' => up'[n].job = up[1].job
        BY <2>4, <4>2, <4>3 DEF Rowless
      <4>6. up[1].job \in DOMAIN store
        BY <4>3 DEF JobsOf
      <4> QED
        BY <2>1, <3>1, <4>1, <4>3, <4>4, <4>5, <4>6 DEF RowInv, Rowed
    <3> QED
      BY <3>3, <3>4
  <2> QED
    BY <2>7, <2>8
<1>4. CASE LoseFrames
  BY <1>4 DEF LoseFrames, Meet, Clean
<1>5. ASSUME NEW m, NEW bad, Handles(m, bad)
      PROVE  /\ "read" \notin bad
             /\ RemovalInv /\ \A u \in Tasks : RowInv(u)
             /\ RemovalInv'
             /\ UNCHANGED <<want, gone, row>>
             /\ \A u : \A n \in 1..Len(down') : Sched(n, u)' =>
                    n + 1 \in 1..Len(down) /\ Sched(n + 1, u) /\ down'[n] = down[n + 1]
                    /\ 1 < n + 1
  BY <1>5, Suffered, Handled, HandledInv DEF CleanInv
<1>6. ASSUME NEW m \in Schedules, NEW bad \in SUBSET Faults, HandlesUpdate(m, bad)
      PROVE  \A u \in Tasks : RowInv(u)'
  <2>1. Handles(m, bad) /\ m.job \in DOMAIN store
    BY <1>6 DEF HandlesUpdate
  <2>2. /\ DOMAIN store' = DOMAIN store
        /\ \A k \in DOMAIN store : store'[k].task = store[k].task
        /\ up' = Append(up, AckOf(m, m.job, TRUE))
    BY <1>6, Updated DEF HandlesUpdate
  <2>3. \A n \in 1..Len(up') : \A u : Acked(n, u)' =>
            \/ n \in 1..Len(up) /\ Acked(n, u) /\ up'[n] = up[n]
            \/ u = m.task /\ up'[n].job = m.job
    <3>1. PICK a \in Acks :
              a = AckOf(m, m.job, TRUE) /\ a.task = m.task /\ a.job = m.job /\ a.ok
      BY AckShape, ScheduleType
    <3>2. up' = Append(up, a) /\ a.task = m.task /\ a.job = m.job /\ a.ok
      BY <2>2, <3>1
    <3> QED
      BY <3>2, OneGoodAck
  <2>4. \A u \in Tasks : JobsOf(u)' = JobsOf(u)
    BY <2>2 DEF JobsOf
  <2>5. ASSUME NEW u \in Tasks, u # m.task PROVE RowInv(u)'
    BY <1>5, <2>1, <2>2, <2>3, <2>4, <2>5, RowInvStays
  <2>6. RowInv(m.task)'
    <3>1. /\ 1 \in 1..Len(down) /\ down[1] = m /\ Sched(1, m.task) /\ m.task \in Tasks
      BY <2>1, NextSchedule
    <3>2. m.job # NoJob
      BY <2>1, JobsAssumption DEF TypeOK
    <3>3. row[m.task] # NoJob
      BY <1>5, <2>1, <3>1, <3>2 DEF RowInv, Rowless
    <3>4. Rowed(m.task) /\ m.job = row[m.task]
      BY <1>5, <2>1, <3>1, <3>3 DEF RowInv, Rowed
    <3>5. \A n \in 1..Len(up') : Acked(n, m.task)' => up'[n].job = row[m.task]
      BY <2>3, <3>4 DEF Rowed
    <3>6. \A n \in 1..Len(down') : Sched(n, m.task)' => down'[n].job = row[m.task]
      BY <1>5, <2>1, <3>4 DEF Rowed
    <3>7. row[m.task] \in DOMAIN store' /\ JobsOf(m.task)' \subseteq {row[m.task]}
      BY <2>1, <2>2, <2>4, <3>1, <3>4 DEF Rowed
    <3>8. row' = row
      BY <1>5, <2>1
    <3> DEFINE t == m.task
    <3> HIDE DEF t
    <3>9. RowInv(t)'
      BY <3>3, <3>5, <3>6, <3>7, <3>8 DEF RowInv, Rowed, t
    <3> QED
      BY <3>9 DEF t
  <2> QED
    BY <2>5, <2>6
<1>7. ASSUME NEW m \in Schedules, NEW bad \in SUBSET Faults, HandlesCreate(m, bad)
      PROVE  \A u \in Tasks : RowInv(u)'
  <2>1. Handles(m, bad) /\ m.job \notin DOMAIN store
    BY <1>5, <1>7 DEF HandlesCreate
  <2>2. PICK j \in Jobs \ used :
            /\ DOMAIN store' = DOMAIN store \cup {j} /\ j \notin DOMAIN store
            /\ \A k \in DOMAIN store : store'[k] = store[k]
            /\ store'[j].task = m.task
            /\ up' = Append(up, AckOf(m, j, TRUE))
    BY <1>7, Created DEF HandlesCreate
  <2>3. \A n \in 1..Len(up') : \A u : Acked(n, u)' =>
            \/ n \in 1..Len(up) /\ Acked(n, u) /\ up'[n] = up[n]
            \/ u = m.task /\ up'[n].job = j
    <3>1. PICK a \in Acks :
              a = AckOf(m, j, TRUE) /\ a.task = m.task /\ a.job = j /\ a.ok
      BY AckShape
    <3>2. up' = Append(up, a) /\ a.task = m.task /\ a.job = j /\ a.ok
      BY <2>2, <3>1
    <3> QED
      BY <3>2, OneGoodAck
  <2>4. ASSUME NEW u \in Tasks, u # m.task PROVE RowInv(u)'
    <3>1. JobsOf(u)' = JobsOf(u)
      BY <2>2, <2>4 DEF JobsOf
    <3>2. \A n \in 1..Len(down') : Sched(n, u)' =>
              \E k \in 1..Len(down) : Sched(k, u) /\ down'[n].job = down[k].job
      BY <1>5, <2>1
    <3>3. \A n \in 1..Len(up') : Acked(n, u)' =>
              \E k \in 1..Len(up) : Acked(k, u) /\ up'[n].job = up[k].job
      BY <2>3, <2>4
    <3>4. RowInv(u) /\ UNCHANGED <<want, gone, row>>
      BY <1>5, <2>1
    <3> QED
      BY <2>2, <3>1, <3>2, <3>3, <3>4, RowInvStays
  <2>5. RowInv(m.task)'
    <3> DEFINE t == m.task
    <3>1. /\ 1 \in 1..Len(down) /\ down[1] = m /\ Sched(1, t) /\ t \in Tasks
          /\ m.rev \in Nat \ {0}
          /\ \A k \in 1..Len(down) : Sched(k, t) /\ 1 < k => m.rev < down[k].rev
      BY <2>1, NextSchedule, Numbers
    <3>2. row[t] = NoJob
      BY <1>5, <2>1, <3>1 DEF RowInv, Rowed
    <3>3. Rowless(t)
      BY <1>5, <2>1, <3>1, <3>2 DEF RowInv
    <3>4. JobsOf(t) = {} /\ \A k \in 1..Len(up) : ~Acked(k, t)
      BY <3>1, <3>3 DEF Rowless
    <3>5. JobsOf(t)' = {j}
      BY <2>2, <3>4 DEF JobsOf
    <3>6. ASSUME NEW n \in 1..Len(down'), Sched(n, t)' PROVE FALSE
      <4>1. n + 1 \in 1..Len(down) /\ Sched(n + 1, t) /\ 1 < n + 1
        BY <1>5, <2>1, <3>6
      <4>2. m.rev < down[n + 1].rev /\ down[n + 1].rev <= want[t].rev /\ want[t].rev <= 1
        BY <3>1, <3>3, <4>1 DEF RevInv, Rowless
      <4>3. down[n + 1].rev \in Nat /\ want[t].rev \in Nat
        BY <3>1, <4>1, Numbers
      <4> QED
        BY <3>1, <4>2, <4>3
    <3>7. \A n \in 1..Len(up') : Acked(n, t)' => up'[n].job = j
      BY <2>3, <3>4
    <3> HIDE DEF t
    <3>8. RowInv(t)'
      BY <1>5, <2>1, <3>2, <3>3, <3>5, <3>6, <3>7 DEF RowInv, Rowless
    <3> QED
      BY <3>8 DEF t
  <2> QED
    BY <2>4, <2>5
<1>8. ASSUME NEW m \in Schedules, NEW bad \in SUBSET Faults, HandlesFailure(m, bad)
      PROVE  \A u \in Tasks : RowInv(u)'
  <2>1. /\ Handles(m, bad) /\ store' = store
        /\ up' = Append(up, AckOf(m, m.job, FALSE))
    BY <1>8 DEF HandlesFailure, CreateFails, Ack, AckOf
  <2>2. \A n \in 1..Len(up') : \A u : Acked(n, u)' =>
            n \in 1..Len(up) /\ Acked(n, u) /\ up'[n] = up[n]
    BY <2>1, OneAck, ScheduleType
  <2>3. \A u \in Tasks : JobsOf(u)' = JobsOf(u)
    BY <2>1 DEF JobsOf
  <2> QED
    BY <1>5, <2>1, <2>2, <2>3, RowInvStays
<1>9. ASSUME NEW m \in Deletes, NEW bad \in SUBSET Faults, HandlesRemoval(m, bad)
      PROVE  \A u \in Tasks : RowInv(u)'
  <2>1. /\ Handles(m, bad) /\ up' = up
        /\ DOMAIN store' \subseteq DOMAIN store
        /\ DOMAIN store \ {m.job} \subseteq DOMAIN store'
        /\ \A k \in DOMAIN store' : store'[k] = store[k]
    BY <1>9 DEF HandlesRemoval
  <2>2. 1 \in 1..Len(down) /\ down[1] = m /\ m.type = "task.delete"
    BY <2>1, Handled DEF Deletes
  <2>3. PICK t \in gone :
            /\ row[t] # NoJob /\ Removal(1, t)
            /\ \A k \in 1..Len(down) : Sched(k, t) => k < 1
    BY <1>5, <2>1, <2>2 DEF RemovalInv
  <2>4. t \in Tasks /\ m.job = row[t] /\ Owns(t, m.job)
    BY <2>2, <2>3 DEF TypeOK, Removal, OwnInv
  <2>5. \A u : \A n \in 1..Len(up') : Acked(n, u)' => Acked(n, u) /\ up'[n] = up[n]
    BY <2>1 DEF Acked
  <2>6. ASSUME NEW u \in Tasks, u # t PROVE RowInv(u)'
    <3>1. JobsOf(u)' = JobsOf(u)
      BY <2>1, <2>4, <2>6 DEF JobsOf, Owns
    <3>2. row[u] \in DOMAIN store => row[u] \in DOMAIN store'
      <4>1. ASSUME row[u] \in DOMAIN store PROVE row[u] # m.job
        BY <2>4, <2>6, <4>1, JobsAssumption DEF OwnInv, Owns, TypeOK
      <4> QED
        BY <2>1, <4>1
    <3> QED
      BY <1>5, <2>1, <2>5, <3>1, <3>2, RowInvStays
  <2>7. RowInv(t)'
    <3>1. Rowed(t)
      BY <1>5, <2>1, <2>3, <2>4 DEF RowInv
    <3>2. JobsOf(t)' \subseteq JobsOf(t)
      BY <2>1 DEF JobsOf
    <3>3. \A n \in 1..Len(down') : ~Sched(n, t)'
      BY <1>5, <2>1, <2>3
    <3>4. up' = up /\ row' = row /\ gone' = gone
      BY <1>5, <2>1
    <3> QED
      BY <2>3, <2>5, <3>1, <3>2, <3>3, <3>4 DEF RowInv, Rowed
  <2> QED
    BY <2>6, <2>7
<1>10. CASE UNCHANGED vars
  <2>1. CleanInv'
    BY <1>10 DEF vars, serverVars, CleanInv, Clean, RemovalInv, RowInv, Rowless, Rowed,
                 Removal, Sched, Acked, JobsOf
  <2> QED
    BY <2>1 DEF CleanInv
<1>11. ASSUME NEW m, NEW bad, Handles(m, bad) PROVE RemovalInv'
  BY <1>5, <1>11
<1>12. ASSUME NEW m \in Schedules, NEW bad \in SUBSET Faults,
              HandlesUpdate(m, bad) \/ HandlesCreate(m, bad) \/ HandlesFailure(m, bad)
       PROVE  RemovalInv' /\ \A u \in Tasks : RowInv(u)'
  <2>1. Handles(m, bad)
    BY <1>12 DEF HandlesUpdate, HandlesCreate, HandlesFailure
  <2> QED
    BY <1>6, <1>7, <1>8, <1>11, <1>12, <2>1
<1>13. ASSUME NEW m \in Schedules, NEW bad \in SUBSET Faults, HandlesUnheard(m, bad)
       PROVE  FALSE
  BY <1>13, Suffered DEF HandlesUnheard
<1>14. ASSUME NEW m \in Deletes, NEW bad \in SUBSET Faults, HandlesRemoval(m, bad)
       PROVE  RemovalInv' /\ \A u \in Tasks : RowInv(u)'
  BY <1>9, <1>11, <1>14 DEF HandlesRemoval
<1> QED
  BY <1>1, <1>2, <1>3, <1>4, <1>10, <1>12, <1>13, <1>14, StepKinds

-----------------------------------------------------------------------------
(* What a step does not do to task t keeps what is known of its settings. *)
LEMMA MirrorStays ==
    ASSUME NEW t, Mirror(t),
           want'[t] = want[t], t \in gone' <=> t \in gone, row'[t] = row[t],
           JobsOf(t)' = JobsOf(t), \A j \in JobsOf(t) : store'[j] = store[j],
           \A n \in 1..Len(down') : Sched(n, t)' =>
               \E k \in 1..Len(down) : Sched(k, t) /\ down'[n] = down[k],
           \A k \in 1..Len(down) : Sched(k, t) =>
               \E n \in 1..Len(down') : Sched(n, t)' /\ down'[n] = down[k],
           \A k \in 1..Len(down) : Removal(k, t) =>
               JobsOf(t) = {} \/ \E n \in 1..Len(down') : Removal(n, t)',
           \A k \in 1..Len(up) : Acked(k, t) =>
               \E n \in 1..Len(up') : Acked(n, t)' /\ up'[n].job = up[k].job
    PROVE  Mirror(t)'
<1>1. Current(t)'
  <2>1. CASE t \in gone \/ want[t].rev = 0
    BY <2>1 DEF Current
  <2>2. CASE \E n \in 1..Len(down) : Sched(n, t) /\ down[n].rev = want[t].rev
    BY <2>2 DEF Current
  <2>3. CASE \E j \in JobsOf(t) : store[j].rev = want[t].rev /\ store[j].on = want[t].on
    BY <2>3 DEF Current
  <2> QED
    BY <2>1, <2>2, <2>3 DEF Mirror, Current
<1>2. Latest(t)'
  BY DEF Mirror, Latest
<1>3. Removed(t)'
  BY DEF Mirror, Removed
<1>4. Told(t)'
  BY DEF Mirror, Told
<1> QED
  BY <1>1, <1>2, <1>3, <1>4 DEF Mirror

(* The frames after one of m is handled: those of other tasks are still    *)
(* there.                                                                  *)
LEMMA Others ==
    ASSUME TypeOK, NEW m, NEW bad, Handles(m, bad)
    PROVE  /\ \A n \in 1..Len(down') : \A t : Sched(n, t)' =>
                  \E k \in 1..Len(down) : Sched(k, t) /\ down'[n] = down[k]
           /\ \A k \in 1..Len(down) : \A t : Sched(k, t) =>
                  k = 1 \/ \E n \in 1..Len(down') : Sched(n, t)' /\ down'[n] = down[k]
           /\ \A k \in 1..Len(down) : \A t : Removal(k, t) =>
                  k = 1 \/ \E n \in 1..Len(down') : Removal(n, t)'
<1>1. /\ \A n \in 1..Len(down') : n + 1 \in 1..Len(down) /\ down'[n] = down[n + 1]
      /\ \A n \in 1..Len(down) :
             n = 1 \/ (n - 1 \in 1..Len(down') /\ down'[n - 1] = down[n])
      /\ row' = row
  BY Handled
<1>2. ASSUME NEW n \in 1..Len(down'), NEW t, Sched(n, t)'
      PROVE  \E k \in 1..Len(down) : Sched(k, t) /\ down'[n] = down[k]
  BY <1>1, <1>2 DEF Sched
<1>3. ASSUME NEW k \in 1..Len(down), NEW t, Sched(k, t), k # 1
      PROVE  \E n \in 1..Len(down') : Sched(n, t)' /\ down'[n] = down[k]
  BY <1>1, <1>3 DEF Sched
<1>4. ASSUME NEW k \in 1..Len(down), NEW t, Removal(k, t), k # 1
      PROVE  \E n \in 1..Len(down') : Removal(n, t)'
  BY <1>1, <1>4 DEF Removal
<1> QED
  BY <1>2, <1>3, <1>4

(* As long as nothing goes wrong, Hermes is about to mirror the UI. *)
LEMMA StepMirror ==
    ASSUME TypeOK, EditInv, OwnInv, RevInv, CleanInv, MirrorInv, [Next]_vars, trouble' = {}
    PROVE  \A u \in Tasks : Mirror(u)'
<1>1. ASSUME NEW t \in Tasks, NEW on \in BOOLEAN, Edit(t, on)
      PROVE  \A u \in Tasks : Mirror(u)'
  <2>1. /\ down' = Append(down, Asked(t, on)) /\ Asked(t, on) \in Schedules
        /\ down \in Seq(Schedules \cup Deletes)
        /\ \A u \in Tasks \ {t} : want'[u] = want[u]
        /\ want'[t].rev = want[t].rev + 1 /\ want'[t].on = on
        /\ UNCHANGED <<gone, row, up, store>>
        /\ t \notin gone
    BY <1>1, Edited DEF TypeOK, Edit
  <2>2. \A u \in Tasks : Mirror(u)
    BY <1>1 DEF Edit, Meet, MirrorInv
  <2>3. /\ Len(down) + 1 \in 1..Len(down') /\ down'[Len(down) + 1] = Asked(t, on)
        /\ \A n \in 1..Len(down) : n \in 1..Len(down') /\ down'[n] = down[n]
        /\ \A n \in 1..Len(down') :
               \/ n \in 1..Len(down) /\ down'[n] = down[n]
               \/ n = Len(down) + 1 /\ down'[n] = Asked(t, on)
    BY <2>1, Pushed
  <2>4. ASSUME NEW u \in Tasks, u # t PROVE Mirror(u)'
    <3>1. JobsOf(u)' = JobsOf(u)
      BY <2>1 DEF JobsOf
    <3>2. \A n \in 1..Len(down') : Sched(n, u)' =>
              \E k \in 1..Len(down) : Sched(k, u) /\ down'[n] = down[k]
      BY <2>3, <2>4 DEF Sched, Asked
    <3>3. \A k \in 1..Len(down) : Sched(k, u) =>
              \E n \in 1..Len(down') : Sched(n, u)' /\ down'[n] = down[k]
      BY <2>3 DEF Sched
    <3>4. \A k \in 1..Len(down) : Removal(k, u) => \E n \in 1..Len(down') : Removal(n, u)'
      BY <2>1, <2>3 DEF Removal
    <3>5. \A k \in 1..Len(up) : Acked(k, u) =>
              \E n \in 1..Len(up') : Acked(n, u)' /\ up'[n].job = up[k].job
      BY <2>1 DEF Acked
    <3> QED
      BY <2>1, <2>2, <2>4, <3>1, <3>2, <3>3, <3>4, <3>5, MirrorStays
  <2>5. Mirror(t)'
    <3>1. Asked(t, on).type = "task.schedule" /\ Asked(t, on).task = t
          /\ Asked(t, on).rev = want[t].rev + 1 /\ Asked(t, on).on = on
      BY DEF Asked
    <3>2. Current(t)'
      BY <2>1, <2>3, <3>1 DEF Current, Sched
    <3>3. Latest(t)'
      <4>1. SUFFICES ASSUME NEW n \in 1..Len(down'), Sched(n, t)',
                            down'[n].rev = want'[t].rev
                     PROVE  down'[n].on = on
        BY <2>1 DEF Latest
      <4>2. CASE n \in 1..Len(down) /\ down'[n] = down[n]
        <5>1. Sched(n, t)
          BY <4>1, <4>2 DEF Sched
        <5>2. down[n].rev <= want[t].rev /\ want[t].rev \in Nat /\ down[n].rev \in Nat
          BY <4>2, <5>1, Numbers DEF RevInv
        <5> QED
          BY <2>1, <4>1, <4>2, <5>2
      <4>3. CASE down'[n] = Asked(t, on)
        BY <3>1, <4>3
      <4> QED
        BY <2>3, <4>2, <4>3
    <3>4. Removed(t)'
      BY <2>1 DEF Removed
    <3>5. Told(t)'
      BY <2>1, <2>2 DEF Mirror, Told, Acked, JobsOf
    <3> QED
      BY <3>2, <3>3, <3>4, <3>5 DEF Mirror
  <2> QED
    BY <2>4, <2>5
<1>2. ASSUME NEW t \in Tasks, Delete(t) PROVE \A u \in Tasks : Mirror(u)'
  <2>1. /\ down' = Append(down, Dropped(t)) /\ Dropped(t) \in Deletes
        /\ down \in Seq(Schedules \cup Deletes)
        /\ gone' = gone \cup {t}
        /\ UNCHANGED <<want, row, up, store>>
    BY <1>2, Deleted DEF TypeOK
  <2>2. \A u \in Tasks : Mirror(u)
    BY <1>2 DEF Delete, Meet, MirrorInv
  <2>3. /\ Len(down) + 1 \in 1..Len(down') /\ down'[Len(down) + 1] = Dropped(t)
        /\ \A n \in 1..Len(down) : n \in 1..Len(down') /\ down'[n] = down[n]
        /\ \A n \in 1..Len(down') :
               \/ n \in 1..Len(down) /\ down'[n] = down[n]
               \/ n = Len(down) + 1 /\ down'[n] = Dropped(t)
    BY <2>1, Pushed
  <2>4. ASSUME NEW u, NEW n \in 1..Len(down'), Sched(n, u)'
        PROVE  n \in 1..Len(down) /\ Sched(n, u) /\ down'[n] = down[n]
    BY <2>3, <2>4 DEF Sched, Dropped
  <2>5. ASSUME NEW u \in Tasks, u # t PROVE Mirror(u)'
    <3>1. JobsOf(u)' = JobsOf(u)
      BY <2>1 DEF JobsOf
    <3>2. \A k \in 1..Len(down) : Sched(k, u) =>
              \E n \in 1..Len(down') : Sched(n, u)' /\ down'[n] = down[k]
      BY <2>3 DEF Sched
    <3>3. \A k \in 1..Len(down) : Removal(k, u) => \E n \in 1..Len(down') : Removal(n, u)'
      BY <2>1, <2>3 DEF Removal
    <3>4. \A k \in 1..Len(up) : Acked(k, u) =>
              \E n \in 1..Len(up') : Acked(n, u)' /\ up'[n].job = up[k].job
      BY <2>1 DEF Acked
    <3> QED
      BY <2>1, <2>2, <2>4, <2>5, <3>1, <3>2, <3>3, <3>4, MirrorStays
  <2>6. Mirror(t)'
    <3>1. Current(t)'
      BY <2>1 DEF Current
    <3>2. Latest(t)'
      BY <2>1, <2>2, <2>4 DEF Mirror, Latest
    <3>3. Removed(t)'
      <4>1. PICK n \in 1..Len(down') : down'[n] = Dropped(t)
        BY <2>3
      <4>2. Removal(n, t)'
        BY <2>1, <4>1 DEF Removal, Dropped
      <4> QED
        BY <4>1, <4>2 DEF Removed
    <3>4. Told(t)'
      BY <2>1, <2>2 DEF Mirror, Told, Acked, JobsOf
    <3> QED
      BY <3>1, <3>2, <3>3, <3>4 DEF Mirror
  <2> QED
    BY <2>5, <2>6
<1>3. CASE TakeAck
  <2>1. /\ 1 \in 1..Len(up) /\ up[1] \in Acks
        /\ \A n \in 1..Len(up) :
               n = 1 \/ (n - 1 \in 1..Len(up') /\ up'[n - 1] = up[n])
        /\ row' = IF up[1].ok THEN [row EXCEPT ![up[1].task] = up[1].job] ELSE row
        /\ UNCHANGED <<want, gone, down, store, trouble>>
    BY <1>3, Taken
  <2>2. \A u \in Tasks : Mirror(u)
    BY <2>1 DEF MirrorInv
  <2>3. ASSUME NEW u \in Tasks
        PROVE  row'[u] = IF Acked(1, u) THEN up[1].job ELSE row[u]
    BY <2>1 DEF Acked, TypeOK
  <2>4. ASSUME NEW u \in Tasks, Acked(1, u) PROVE up[1].job # NoJob
    BY <2>1, <2>4, JobsAssumption DEF OwnInv, Owns, TypeOK
  <2>5. ASSUME NEW u \in Tasks PROVE RowInv(u)
    BY <2>1 DEF CleanInv, Clean
  <2>6. ASSUME NEW u \in Tasks, row[u] # NoJob PROVE row'[u] = row[u]
    BY <2>1, <2>3, <2>5, <2>6 DEF RowInv, Rowed
  <2>7. ASSUME NEW u \in Tasks PROVE JobsOf(u)' = JobsOf(u)
    BY <2>1 DEF JobsOf
  <2>8. ASSUME NEW u \in Tasks, ~Acked(1, u) PROVE Mirror(u)'
    <3>1. row'[u] = row[u]
      BY <2>3, <2>8
    <3>2. \A k \in 1..Len(up) : Acked(k, u) =>
              \E n \in 1..Len(up') : Acked(n, u)' /\ up'[n].job = up[k].job
      <4>1. SUFFICES ASSUME NEW k \in 1..Len(up), Acked(k, u)
                     PROVE  \E n \in 1..Len(up') : Acked(n, u)' /\ up'[n].job = up[k].job
        OBVIOUS
      <4>2. k - 1 \in 1..Len(up') /\ up'[k - 1] = up[k]
        BY <2>1, <2>8, <4>1
      <4>3. Acked(k - 1, u)'
        BY <4>1, <4>2 DEF Acked
      <4> QED
        BY <4>2, <4>3
    <3>3. /\ \A k \in 1..Len(down) : Sched(k, u) => Sched(k, u)'
          /\ \A k \in 1..Len(down) : Sched(k, u)' => Sched(k, u)
          /\ \A k \in 1..Len(down) : Removal(k, u) => Removal(k, u)'
      BY <2>1, <3>1 DEF Sched, Removal
    <3> QED
      BY <2>1, <2>2, <2>7, <3>1, <3>2, <3>3, MirrorStays
  <2>9. ASSUME NEW u \in Tasks, Acked(1, u) PROVE Mirror(u)'
    <3>1. row'[u] # NoJob
      BY <2>3, <2>4, <2>9
    <3>2. Current(u)' /\ Latest(u)'
      BY <2>1, <2>2, <2>7, <2>9 DEF Mirror, Current, Latest, Sched
    <3>3. Removed(u)'
      <4>1. SUFFICES ASSUME u \in gone PROVE Removed(u)'
        BY <2>1 DEF Removed
      <4>2. row'[u] = row[u]
        BY <2>5, <2>6, <4>1 DEF RowInv, Rowless
      <4> QED
        BY <2>1, <2>2, <2>7, <4>2 DEF Mirror, Removed, Removal
    <3>4. Told(u)'
      BY <3>1 DEF Told
    <3> QED
      BY <3>2, <3>3, <3>4 DEF Mirror
  <2> QED
    BY <2>8, <2>9
<1>4. CASE LoseFrames
  BY <1>4 DEF LoseFrames, Meet
<1>5. ASSUME NEW m, NEW bad, Handles(m, bad)
      PROVE  /\ bad = {}
             /\ RemovalInv /\ \A u \in Tasks : RowInv(u) /\ Mirror(u)
             /\ UNCHANGED <<want, gone, row>>
             /\ 1 \in 1..Len(down) /\ down[1] = m
  BY <1>5, Suffered, Handled DEF CleanInv, Clean, MirrorInv
<1>6. ASSUME NEW m \in Schedules, NEW bad \in SUBSET Faults, HandlesUpdate(m, bad)
      PROVE  \A u \in Tasks : Mirror(u)'
  <2> DEFINE t == m.task
  <2>1. Handles(m, bad) /\ m.job \in DOMAIN store /\ m.type = "task.schedule"
    BY <1>6 DEF HandlesUpdate, Schedules
  <2>2. /\ DOMAIN store' = DOMAIN store
        /\ \A k \in DOMAIN store \ {m.job} : store'[k] = store[k]
        /\ store'[m.job].task = store[m.job].task
        /\ store'[m.job].rev = m.rev /\ store'[m.job].on = m.on
        /\ up' = Append(up, AckOf(m, m.job, TRUE))
    BY <1>5, <1>6, <2>1, Updated DEF HandlesUpdate
  <2>3. /\ down[1] = m /\ Sched(1, t) /\ t \in Tasks /\ 1 \in 1..Len(down)
        /\ m.rev \in Nat /\ m.rev <= want[t].rev
        /\ \A j \in DOMAIN store : store[j].task = t => store[j].rev < m.rev
        /\ store[m.job].task = t
    BY <2>1, NextSchedule
  <2>4. \A n \in 1..Len(up) : n \in 1..Len(up') /\ up'[n] = up[n]
    BY <2>2, OneAck, ScheduleType
  <2>5. \A u : JobsOf(u)' = JobsOf(u)
    BY <2>2 DEF JobsOf
  <2>6. row[t] # NoJob
    BY <1>5, <2>1, <2>3, JobsAssumption DEF RowInv, Rowless, TypeOK
  <2>7. \A k \in 1..Len(down) : \A u : Removal(k, u) => k # 1
    BY <2>1, <2>3 DEF Removal
  <2> HIDE DEF t
  <2>8. ASSUME NEW u \in Tasks, u # t PROVE Mirror(u)'
    <3>1. \A j \in JobsOf(u) : store'[j] = store[j]
      BY <2>2, <2>3, <2>8 DEF JobsOf
    <3>2. ~Sched(1, u)
      BY <2>3, <2>8 DEF Sched
    <3>3. \A k \in 1..Len(up) : Acked(k, u) =>
              \E n \in 1..Len(up') : Acked(n, u)' /\ up'[n].job = up[k].job
      BY <2>4 DEF Acked
    <3>4. Mirror(u) /\ UNCHANGED <<want, gone, row>>
      BY <1>5, <2>1
    <3>5. /\ \A n \in 1..Len(down') : Sched(n, u)' =>
                 \E k \in 1..Len(down) : Sched(k, u) /\ down'[n] = down[k]
          /\ \A k \in 1..Len(down) : Sched(k, u) =>
                 \E n \in 1..Len(down') : Sched(n, u)' /\ down'[n] = down[k]
          /\ \A k \in 1..Len(down) : Removal(k, u) =>
                 \E n \in 1..Len(down') : Removal(n, u)'
      BY <2>1, <2>7, <3>2, Others
    <3> QED
      BY <2>5, <3>1, <3>3, <3>4, <3>5, MirrorStays
  <2>9. Mirror(t)'
    <3>1. Mirror(t) /\ UNCHANGED <<want, gone, row>>
      BY <1>5, <2>1, <2>3
    <3>2. Current(t)'
      <4>1. CASE t \in gone \/ want[t].rev = 0
        BY <3>1, <4>1 DEF Current
      <4>2. ASSUME NEW n \in 1..Len(down), Sched(n, t), down[n].rev = want[t].rev
            PROVE  Current(t)'
        <5>1. CASE n = 1
          <6>1. m.rev = want[t].rev /\ m.on = want[t].on
            BY <2>3, <3>1, <4>2, <5>1 DEF Mirror, Latest
          <6>2. m.job \in JobsOf(t)'
            BY <2>1, <2>2, <2>3 DEF JobsOf
          <6> QED
            BY <2>2, <3>1, <6>1, <6>2 DEF Current
        <5>2. CASE n # 1
          <6>1. \E k \in 1..Len(down') : Sched(k, t)' /\ down'[k] = down[n]
            BY <2>1, <4>2, <5>2, Others
          <6> QED
            BY <3>1, <4>2, <6>1 DEF Current
        <5> QED
          BY <5>1, <5>2
      <4>3. ASSUME NEW j \in JobsOf(t), store[j].rev = want[t].rev PROVE FALSE
        <5>1. store[j].rev < m.rev /\ store[j].rev \in Nat
          BY <2>3, Numbers DEF JobsOf
        <5> QED
          BY <2>3, <4>3, <5>1, Numbers
      <4> QED
        BY <3>1, <4>1, <4>2, <4>3 DEF Mirror, Current
    <3>3. Latest(t)'
      <4>1. \A n \in 1..Len(down') : Sched(n, t)' =>
                \E k \in 1..Len(down) : Sched(k, t) /\ down'[n] = down[k]
        BY <2>1, Others
      <4> QED
        BY <3>1, <4>1 DEF Mirror, Latest
    <3>4. Removed(t)'
      <4>1. \A k \in 1..Len(down) : Removal(k, t) =>
                \E n \in 1..Len(down') : Removal(n, t)'
        BY <2>1, <2>7, Others
      <4> QED
        BY <2>5, <3>1, <4>1 DEF Mirror, Removed
    <3>5. Told(t)'
      BY <2>6, <3>1 DEF Told
    <3> QED
      BY <3>2, <3>3, <3>4, <3>5 DEF Mirror
  <2> QED
    BY <2>8, <2>9
<1>7. ASSUME NEW m \in Schedules, NEW bad \in SUBSET Faults, HandlesCreate(m, bad)
      PROVE  \A u \in Tasks : Mirror(u)'
  <2> DEFINE t == m.task
  <2>1. Handles(m, bad) /\ m.job \notin DOMAIN store /\ m.type = "task.schedule"
    BY <1>5, <1>7 DEF HandlesCreate, Schedules
  <2>2. PICK j \in Jobs \ used :
            /\ DOMAIN store' = DOMAIN store \cup {j} /\ j \notin DOMAIN store
            /\ \A k \in DOMAIN store : store'[k] = store[k]
            /\ store'[j].task = m.task /\ store'[j].rev = m.rev /\ store'[j].on = m.on
            /\ up' = Append(up, AckOf(m, j, TRUE))
    BY <1>5, <1>7, <2>1, Created DEF HandlesCreate
  <2>3. /\ down[1] = m /\ Sched(1, t) /\ t \in Tasks /\ 1 \in 1..Len(down)
        /\ m.rev \in Nat /\ m.rev <= want[t].rev
    BY <2>1, NextSchedule
  <2>4. \E a \in Acks : /\ a.task = t /\ a.job = j /\ a.ok
                        /\ up' = Append(up, a)
    BY <2>2, AckShape
  <2>5. /\ \A n \in 1..Len(up) : n \in 1..Len(up') /\ up'[n] = up[n]
        /\ \E n \in 1..Len(up') : Acked(n, t)' /\ up'[n].job = j
    BY <2>4, OneGoodAck DEF Acked
  <2>6. row[t] = NoJob
    BY <1>5, <2>1, <2>3 DEF RowInv, Rowed
  <2>7. JobsOf(t) = {} /\ t \notin gone
    BY <1>5, <2>1, <2>3, <2>6 DEF RowInv, Rowless
  <2>8. \A k \in 1..Len(down) : \A u : Removal(k, u) => k # 1
    BY <2>1, <2>3 DEF Removal
  <2>9. store'[j].task = t
    BY <2>2
  <2> HIDE DEF t
  <2>10. ASSUME NEW u \in Tasks, u # t PROVE Mirror(u)'
    <3>1. JobsOf(u)' = JobsOf(u) /\ \A k \in JobsOf(u) : store'[k] = store[k]
      BY <2>2, <2>9, <2>10 DEF JobsOf
    <3>2. ~Sched(1, u)
      BY <2>3, <2>10 DEF Sched
    <3>3. \A k \in 1..Len(up) : Acked(k, u) =>
              \E n \in 1..Len(up') : Acked(n, u)' /\ up'[n].job = up[k].job
      BY <2>5 DEF Acked
    <3>4. Mirror(u) /\ UNCHANGED <<want, gone, row>>
      BY <1>5, <2>1
    <3>5. /\ \A n \in 1..Len(down') : Sched(n, u)' =>
                 \E k \in 1..Len(down) : Sched(k, u) /\ down'[n] = down[k]
          /\ \A k \in 1..Len(down) : Sched(k, u) =>
                 \E n \in 1..Len(down') : Sched(n, u)' /\ down'[n] = down[k]
          /\ \A k \in 1..Len(down) : Removal(k, u) =>
                 \E n \in 1..Len(down') : Removal(n, u)'
      BY <2>1, <2>8, <3>2, Others
    <3> QED
      BY <3>1, <3>3, <3>4, <3>5, MirrorStays
  <2>11. Mirror(t)'
    <3>1. Mirror(t) /\ UNCHANGED <<want, gone, row>>
      BY <1>5, <2>1, <2>3
    <3>2. JobsOf(t)' = {j}
      BY <2>2, <2>7, <2>9 DEF JobsOf
    <3>3. Current(t)'
      <4>1. CASE want[t].rev = 0
        BY <3>1, <4>1 DEF Current
      <4>2. ASSUME NEW n \in 1..Len(down), Sched(n, t), down[n].rev = want[t].rev
            PROVE  Current(t)'
        <5>1. CASE n = 1
          <6>1. m.rev = want[t].rev /\ m.on = want[t].on
            BY <2>3, <3>1, <4>2, <5>1 DEF Mirror, Latest
          <6> QED
            BY <2>2, <3>1, <3>2, <6>1 DEF Current
        <5>2. CASE n # 1
          <6>1. \E k \in 1..Len(down') : Sched(k, t)' /\ down'[k] = down[n]
            BY <2>1, <4>2, <5>2, Others
          <6> QED
            BY <3>1, <4>2, <6>1 DEF Current
        <5> QED
          BY <5>1, <5>2
      <4> QED
        BY <2>7, <3>1, <4>1, <4>2 DEF Mirror, Current
    <3>4. Latest(t)'
      <4>1. \A n \in 1..Len(down') : Sched(n, t)' =>
                \E k \in 1..Len(down) : Sched(k, t) /\ down'[n] = down[k]
        BY <2>1, Others
      <4> QED
        BY <3>1, <4>1 DEF Mirror, Latest
    <3>5. Removed(t)'
      BY <2>7, <3>1 DEF Removed
    <3>6. Told(t)'
      BY <2>5, <3>2 DEF Told
    <3> QED
      BY <3>3, <3>4, <3>5, <3>6 DEF Mirror
  <2> QED
    BY <2>10, <2>11
<1>8. ASSUME NEW m \in Schedules, NEW bad \in SUBSET Faults, HandlesFailure(m, bad)
      PROVE  FALSE
  BY <1>5, <1>8 DEF HandlesFailure, CreateFails
<1>9. ASSUME NEW m \in Schedules, NEW bad \in SUBSET Faults, HandlesUnheard(m, bad)
       PROVE  FALSE
  BY <1>5, <1>9 DEF HandlesUnheard
<1>10. ASSUME NEW m \in Deletes, NEW bad \in SUBSET Faults, HandlesRemoval(m, bad)
      PROVE  \A u \in Tasks : Mirror(u)'
  <2>1. /\ Handles(m, bad) /\ up' = up
        /\ DOMAIN store' \subseteq DOMAIN store
        /\ DOMAIN store \ {m.job} \subseteq DOMAIN store'
        /\ m.job \notin DOMAIN store'
        /\ \A k \in DOMAIN store' : store'[k] = store[k]
    BY <1>5, <1>10 DEF HandlesRemoval
  <2>2. 1 \in 1..Len(down) /\ down[1] = m /\ m.type = "task.delete"
    BY <2>1, Handled DEF Deletes
  <2>3. PICK t \in gone :
            /\ row[t] # NoJob /\ Removal(1, t)
            /\ \A k \in 1..Len(down) : Sched(k, t) => k < 1
    BY <1>5, <2>1, <2>2 DEF RemovalInv
  <2>4. t \in Tasks /\ m.job = row[t] /\ Owns(t, m.job)
    BY <2>2, <2>3 DEF TypeOK, Removal, OwnInv
  <2>5. ASSUME NEW u \in Tasks, u # t PROVE Mirror(u)'
    <3>1. JobsOf(u)' = JobsOf(u) /\ \A k \in JobsOf(u) : store'[k] = store[k]
      BY <2>1, <2>4, <2>5 DEF JobsOf, Owns
    <3>2. ~Sched(1, u)
      BY <2>2 DEF Sched
    <3>3. \A k \in 1..Len(up) : Acked(k, u) =>
              \E n \in 1..Len(up') : Acked(n, u)' /\ up'[n].job = up[k].job
      BY <2>1 DEF Acked
    <3>4. Mirror(u) /\ RowInv(u) /\ UNCHANGED <<want, gone, row>>
      BY <1>5, <2>1
    <3>5. Removal(1, u) => JobsOf(u) = {}
      <4>1. SUFFICES ASSUME Removal(1, u), NEW i \in JobsOf(u) PROVE FALSE
        OBVIOUS
      <4>2. row[u] = m.job /\ row[u] # NoJob
        BY <2>2, <2>3, <2>4, <4>1 DEF Removal
      <4>3. i = m.job
        BY <3>4, <4>1, <4>2 DEF RowInv, Rowed
      <4> QED
        BY <2>4, <2>5, <4>1, <4>3 DEF JobsOf, Owns
    <3>6. /\ \A n \in 1..Len(down') : Sched(n, u)' =>
                 \E k \in 1..Len(down) : Sched(k, u) /\ down'[n] = down[k]
          /\ \A k \in 1..Len(down) : Sched(k, u) =>
                 \E n \in 1..Len(down') : Sched(n, u)' /\ down'[n] = down[k]
          /\ \A k \in 1..Len(down) : Removal(k, u) =>
                 JobsOf(u) = {} \/ \E n \in 1..Len(down') : Removal(n, u)'
      BY <2>1, <3>2, <3>5, Others
    <3> QED
      BY <3>1, <3>3, <3>4, <3>6, MirrorStays
  <2>6. Mirror(t)'
    <3>1. UNCHANGED <<want, gone, row>> /\ RowInv(t)
      BY <1>5, <2>1, <2>4
    <3>2. JobsOf(t)' = {}
      <4>1. JobsOf(t) \subseteq {m.job}
        BY <2>3, <2>4, <3>1 DEF RowInv, Rowed
      <4>2. JobsOf(t)' \subseteq JobsOf(t) /\ m.job \notin JobsOf(t)'
        BY <2>1 DEF JobsOf
      <4> QED
        BY <4>1, <4>2
    <3>3. \A n \in 1..Len(down') : ~Sched(n, t)'
      BY <2>1, <2>3, HandledInv
    <3> QED
      BY <2>3, <3>1, <3>2, <3>3 DEF Mirror, Current, Latest, Removed, Told
  <2> QED
    BY <2>5, <2>6
<1>11. CASE UNCHANGED vars
  <2>1. MirrorInv'
    BY <1>11 DEF vars, serverVars, MirrorInv, Mirror, Current, Latest, Removed, Told,
                 Removal, Sched, Acked, JobsOf
  <2> QED
    BY <2>1 DEF MirrorInv
<1> QED
  BY <1>1, <1>2, <1>3, <1>4, <1>6, <1>7, <1>8, <1>9, <1>10, <1>11, StepKinds

-----------------------------------------------------------------------------
(* The theorems *)

LEMMA InitInv == ASSUME Init PROVE IInv
<1> USE DEF Init
<1>1. Len(down) = 0 /\ Len(up) = 0 /\ 1..0 = {}
  OBVIOUS
<1>2. TypeOK
  <2>1. down \in Seq(Schedules \cup Deletes) /\ up \in Seq(Acks)
    BY EmptySeq
  <2>2. store \in [DOMAIN store -> Records] /\ DOMAIN store = {}
    OBVIOUS
  <2>3. want \in [Tasks -> Settings]
    BY BoundAssumption DEF Settings
  <2>4. edits \in 0..EditBound
    BY BoundAssumption
  <2> QED
    BY <2>1, <2>2, <2>3, <2>4 DEF TypeOK
<1>3. \A t \in Tasks : want[t].rev = 0 /\ row[t] = NoJob /\ t \notin gone
  OBVIOUS
<1>4. DOMAIN store = {} /\ \A t : JobsOf(t) = {}
  BY DEF JobsOf
<1> QED
  BY <1>1, <1>2, <1>3, <1>4
     DEF IInv, EditInv, OwnInv, RevInv, CleanInv, RemovalInv, RowInv, Rowless,
         MirrorInv, Mirror, Current, Latest, Removed, Told

(* The bridge keeps its inductive invariant: the types, which job stands   *)
(* for which task, which revisions are on their way, and, as long as no    *)
(* frame is lost or outrun, what rows, frames, acks and jobs know of each  *)
(* other (tasks.py schedule and delete, adapter.py _on_cloud).             *)
THEOREM TaskBridgeCorrect == Spec => []IInv
<1>1. IInv /\ [Next]_vars => IInv'
  <2> SUFFICES ASSUME IInv, [Next]_vars PROVE IInv'
    OBVIOUS
  <2>1. TypeOK' /\ EditInv' /\ OwnInv' /\ RevInv'
    BY StepTypes, StepOwn, StepRev DEF IInv
  <2>2. CleanInv'
    BY StepClean DEF IInv
  <2>3. ASSUME trouble' = {} PROVE \A u \in Tasks : Mirror(u)'
    BY <2>3, StepMirror DEF IInv
  <2>4. MirrorInv'
    BY <2>3 DEF MirrorInv
  <2> QED
    BY <2>1, <2>2, <2>4 DEF IInv
<1> QED
  BY <1>1, InitInv, PTL DEF Spec

(* Frames, acks, rows and jobs keep their types. *)
THEOREM TypeCorrect == Spec => []TypeOK
<1>1. IInv => TypeOK
  BY DEF IInv
<1> QED
  BY <1>1, TaskBridgeCorrect, PTL

(* Whatever is lost or fails, a row points at a job of its own task, so    *)
(* that an edit or a delete hits the right one (_find_job, delete).        *)
THEOREM OwnJobCorrect == Spec => []OwnJob
<1>1. ASSUME IInv PROVE OwnJob
  <2>1. SUFFICES ASSUME NEW t \in Tasks, row[t] \in DOMAIN store
                 PROVE  store[row[t]].task = t
    BY DEF OwnJob
  <2>2. row[t] # NoJob
    BY <1>1, <2>1, JobsAssumption DEF IInv, TypeOK
  <2> QED
    BY <1>1, <2>1, <2>2 DEF IInv, OwnInv, Owns
<1> QED
  BY <1>1, TaskBridgeCorrect, PTL

(* As long as no ack is lost or outrun, the store can be read and the tool *)
(* names the jobs it creates, a task has one job at most, for any number   *)
(* of tasks, jobs and edits (schedule).                                    *)
THEOREM OneJobCorrect == Spec => []OneJobPerTask
<1>1. ASSUME IInv PROVE OneJobPerTask
  <2>1. SUFFICES ASSUME Clean, NEW t \in Tasks PROVE Cardinality(JobsOf(t)) <= 1
    BY DEF OneJobPerTask, Clean
  <2>2. \A i, j \in JobsOf(t) : i = j
    BY <1>1, <2>1 DEF IInv, CleanInv, RowInv, Rowless, Rowed
  <2>3. CASE JobsOf(t) = {}
    <3>1. Cardinality(JobsOf(t)) = 0
      BY <2>3, FS_EmptySet
    <3> QED
      BY <3>1
  <2>4. CASE JobsOf(t) # {}
    <3>1. PICK j \in JobsOf(t) : TRUE
      BY <2>4
    <3>2. JobsOf(t) = {j}
      BY <2>2, <3>1
    <3>3. Cardinality(JobsOf(t)) = 1
      BY <3>2, FS_Singleton
    <3> QED
      BY <3>3
  <2> QED
    BY <2>3, <2>4
<1> QED
  BY <1>1, TaskBridgeCorrect, PTL

(* When nothing is in flight and nothing went wrong, Hermes has exactly    *)
(* the jobs of the tasks that exist, with the settings asked for last.     *)
THEOREM MirroredCorrect == Spec => []Mirrored
<1>1. ASSUME IInv PROVE Mirrored
  <2>1. SUFFICES ASSUME Settled, trouble = {}, NEW t \in Tasks
                 PROVE  IF t \in gone \/ want[t].rev = 0
                        THEN JobsOf(t) = {}
                        ELSE /\ JobsOf(t) = {row[t]}
                             /\ store[row[t]].rev = want[t].rev
                             /\ store[row[t]].on = want[t].on
    BY DEF Mirrored
  <2>2. Len(down) = 0 /\ Len(up) = 0 /\ 1..0 = {}
    BY <2>1 DEF Settled
  <2>3. Mirror(t) /\ RowInv(t) /\ TypeOK /\ RevInv
    BY <1>1, <2>1 DEF IInv, MirrorInv, CleanInv, Clean
  <2>4. CASE t \in gone
    BY <2>2, <2>3, <2>4 DEF Mirror, Removed
  <2>5. CASE want[t].rev = 0
    <3>1. ASSUME NEW j \in JobsOf(t) PROVE FALSE
      BY <2>3, <2>5, Numbers DEF JobsOf, RevInv
    <3> QED
      BY <2>5, <3>1
  <2>6. CASE t \notin gone /\ want[t].rev # 0
    <3>1. PICK j \in JobsOf(t) : store[j].rev = want[t].rev /\ store[j].on = want[t].on
      BY <2>2, <2>3, <2>6 DEF Mirror, Current
    <3>2. row[t] # NoJob
      BY <2>2, <2>3, <3>1 DEF Mirror, Told
    <3>3. JobsOf(t) = {row[t]} /\ j = row[t]
      BY <2>3, <3>1, <3>2 DEF RowInv, Rowed
    <3> QED
      BY <2>6, <3>1, <3>3
  <2> QED
    BY <2>4, <2>5, <2>6
<1> QED
  BY <1>1, TaskBridgeCorrect, PTL

(* Whatever is lost or fails, a job never goes back to older settings of   *)
(* its task: each frame is handled before the next is taken.               *)
THEOREM NoRegressCorrect == Spec => NoRegress
<1> DEFINE A == \A j \in DOMAIN store \cap DOMAIN store' :
                    store'[j].rev >= store[j].rev
<1>1. ASSUME IInv, [Next]_vars PROVE A
  <2> USE <1>1 DEF IInv
  <2>1. ASSUME NEW m \in Schedules, NEW bad \in SUBSET Faults, HandlesUpdate(m, bad) PROVE A
    <3>1. /\ \A k \in DOMAIN store \ {m.job} : store'[k] = store[k]
          /\ store'[m.job].rev \in {store[m.job].rev, m.rev}
      BY <2>1, Updated DEF HandlesUpdate
    <3>2. store[m.job].rev < m.rev /\ m.rev \in Nat /\ m.job \in DOMAIN store
      BY <2>1, NextSchedule DEF HandlesUpdate
    <3> QED
      BY <3>1, <3>2, Numbers
  <2>2. ASSUME \A j \in DOMAIN store \cap DOMAIN store' : store'[j] = store[j] PROVE A
    BY <2>2, Numbers
  <2>3. ASSUME NEW m \in Schedules, NEW bad \in SUBSET Faults, HandlesCreate(m, bad) PROVE A
    BY <2>2, <2>3, Created DEF HandlesCreate
  <2>4. ASSUME NEW m \in Deletes, NEW bad \in SUBSET Faults, HandlesRemoval(m, bad) PROVE A
    BY <2>2, <2>4 DEF HandlesRemoval
  <2>5. CASE store' = store
    BY <2>2, <2>5
  <2>6. ASSUME NEW m \in Schedules, NEW bad \in SUBSET Faults, HandlesUnheard(m, bad)
        PROVE  A
    BY <2>2, <2>6, Unheard DEF HandlesUnheard
  <2> QED
    BY <2>1, <2>3, <2>4, <2>5, <2>6, StepKinds
       DEF Delete, Edit, TakeAck, LoseFrames, HandlesFailure, CreateFails, vars
<1>2. IInv /\ [Next]_vars => [A]_vars
  BY <1>1
<1> QED
  BY <1>2, TaskBridgeCorrect, PTL DEF Spec, NoRegress
=============================================================================
