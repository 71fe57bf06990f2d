-------------------------- MODULE StreamHooksProofs --------------------------
(***************************************************************************)
(* Proofs about StreamHooks, for any sessions and any number of turns and  *)
(* deltas.                                                                 *)
(***************************************************************************)
EXTENDS StreamHooks, SequenceTheorems, TLAPS

(* Where an event or a frame is: with Hermes, looked up, or written. *)
Queued(e)  == \E n \in 1..Len(queue[e.kind]) : queue[e.kind][n] = e
Held(f)    == f \in held[f.kind]
Written(f) == \E i \in 1..Len(wire[f.session]) : wire[f.session][i] = f
Seen(f)    == Held(f) \/ Written(f)

(* e may come after f. *)
Before(f, e) ==
    \/ f.turn < e.turn
    \/ /\ f.turn = e.turn
       /\ Place[f.kind] < Place[e.kind] \/ (f.kind = "chunk" /\ e.kind = "chunk")

(* e comes from a turn that has begun, and has ended if e is its end. *)
Emitted(e) ==
    /\ e.turn <= turn[e.session]
    /\ e.kind = "end" /\ e.turn = turn[e.session] => ~streaming[e.session]

(* A worker has the events and frames of its kind only, and its events in  *)
(* the order of the turns.                                                 *)
QueueInv ==
    /\ \A w \in Kinds : \A n \in 1..Len(queue[w]) :
           /\ queue[w][n].kind = w
           /\ \A k \in 1..Len(queue[w]) :
                  n < k /\ queue[w][n].session = queue[w][k].session =>
                      Before(queue[w][n], queue[w][k])
    /\ \A w \in Kinds : \A f \in held[w] : f.kind = w
    /\ \A s \in Sessions : \A i \in 1..Len(wire[s]) : wire[s][i].session = s

(* Nothing runs ahead of the turns. *)
TurnInv ==
    /\ \A e \in Events : Queued(e) => Emitted(e)
    /\ \A f \in HeldFrames : Seen(f) => Emitted(f)
    /\ \A s \in Sessions : runs[s] <= turn[s] /\ (streaming[s] => turn[s] # 0)

(* The end of turn t of s is still to come. *)
End(s, t) == [kind |-> "end", session |-> s, turn |-> t]
Ends(s, t) == (streaming[s] /\ turn[s] = t) \/ Queued(End(s, t))

(* As long as no worker overtakes another: what was looked up is from      *)
(* before what was not, under a run that had begun,                        *)
SeenInv ==
    \A f \in HeldFrames : Seen(f) =>
        /\ f.run <= f.turn
        /\ \A e \in Events : Queued(e) /\ e.session = f.session => Before(f, e)

(* a session has one frame at a time between look-up and post, from after  *)
(* those that are written,                                                 *)
HeldInv ==
    \A f \in HeldFrames : Held(f) =>
        \A g \in HeldFrames : g.session = f.session =>
            /\ Held(g) => g.kind = f.kind
            /\ Written(g) => Precedes(g, f)

(* the run of a session goes on with what was looked up,                   *)
LastInv ==
    \A f \in HeldFrames : Seen(f) =>
        \/ runs[f.session] = 0
        \/ f.run < runs[f.session]
        \/ f.run = runs[f.session] /\ f.kind # "end"

(* and it is not from after the events that wait.                          *)
RunInv ==
    \A e \in Events : Queued(e) =>
        \/ runs[e.session] = 0
        \/ runs[e.session] < e.turn
        \/ runs[e.session] = e.turn /\ e.kind # "start"

OrderInv == ~overtaken => SeenInv /\ HeldInv /\ LastInv /\ RunInv

(* If no end is lost either: the run of a frame is that of its turn,       *)
OwnInv == \A f \in HeldFrames : Seen(f) => f.run = f.turn

(* and, as long as there is an adapter, the end of a turn that has a run,  *)
(* or is to get one, is still to come.                                     *)
EndInv ==
    connected => \A s \in Sessions : \A t \in 1..TurnBound :
        /\ runs[s] = t => Ends(s, t)
        /\ \A e \in Events :
               Queued(e) /\ e.kind = "start" /\ e.session = s /\ e.turn = t => Ends(s, t)

KeptInv == ~overtaken /\ ~endLost => OwnInv /\ EndInv

(* Whatever is overtaken or lost: a run that an end frame carries is not   *)
(* in _stream_runs and gets there no more, neither by a start that waits   *)
(* nor by a turn to come.                                                  *)
SpentInv ==
    \A f \in HeldFrames : Seen(f) /\ f.kind = "end" =>
        /\ f.run <= turn[f.session]
        /\ f.run # runs[f.session]
        /\ \A e \in Events : Queued(e) /\ e.kind = "start" /\ e.session = f.session =>
               e.turn # f.run

OnceInv ==
    /\ SpentInv
    /\ \A e \in Events : Queued(e) /\ e.kind = "start" => runs[e.session] # e.turn
    /\ \A f, g \in HeldFrames :
           Held(f) /\ Written(g) /\ f.kind = "end" /\ g.kind = "end"
               /\ f.session = g.session => f.run # g.run

(* The inductive invariant. *)
IInv ==
    /\ TypeOK /\ QueueInv /\ TurnInv
    /\ OrderInv /\ KeptInv /\ Ordered
    /\ OnceInv /\ EndsOnce

-----------------------------------------------------------------------------
(* Lemmas about the order of events *)

LEMMA EventType ==
    /\ \A e \in Events : /\ e.kind \in Kinds /\ e.session \in Sessions
                         /\ e.turn \in Nat \ {0} /\ e.turn \in 1..TurnBound
    /\ \A f \in HeldFrames : /\ f.kind \in Kinds /\ f.session \in Sessions
                             /\ f.turn \in Nat \ {0} /\ f.turn \in 1..TurnBound
                             /\ f.run \in Nat \ {0}
  BY BoundAssumption DEF Events, HeldFrames

LEMMA Places ==
    /\ Kinds = {"start", "chunk", "end"}
    /\ Place["start"] = 1 /\ Place["chunk"] = 2 /\ Place["end"] = 3
  BY DEF Kinds, Place

(* Of two events of a session with different workers, one is earlier. *)
LEMMA OneIsEarlier ==
    ASSUME NEW e, NEW f, e.kind \in Kinds, f.kind \in Kinds, e.kind # f.kind,
           e.turn \in Nat, f.turn \in Nat, e.session = f.session
    PROVE  Before(e, f) \/ Earlier(f, e)
  BY Places DEF Before, Earlier

(* What is before an event is earlier, or both are deltas of one turn. *)
LEMMA BeforeIsEarlier ==
    ASSUME NEW e, NEW f, e.session = f.session, Before(f, e)
    PROVE  Earlier(f, e) \/ (f.kind = "chunk" /\ e.kind = "chunk")
  BY DEF Before, Earlier

-----------------------------------------------------------------------------
(* Lemmas about the queues *)

(* Emit adds an event after the others. *)
LEMMA Emits ==
    ASSUME TypeOK, NEW kind \in Kinds, NEW s \in Sessions, NEW t \in 1..TurnBound,
           Emit(kind, s, t)
    PROVE  LET x == [kind |-> kind, session |-> s, turn |-> t]
           IN  /\ x \in Events /\ queue' \in [Kinds -> Seq(Events)]
               /\ \A v \in Kinds : \A n \in 1..Len(queue'[v]) :
                      \/ n \in 1..Len(queue[v]) /\ queue'[v][n] = queue[v][n]
                      \/ v = kind /\ n = Len(queue[v]) + 1 /\ queue'[v][n] = x
               /\ \A v \in Kinds : \A n \in 1..Len(queue[v]) :
                      /\ n \in 1..Len(queue'[v]) /\ queue'[v][n] = queue[v][n]
                      /\ n < Len(queue[v]) + 1
               /\ \E n \in 1..Len(queue'[kind]) : queue'[kind][n] = x
<1> DEFINE x == [kind |-> kind, session |-> s, turn |-> t]
           q == queue[kind]
           r == Append(q, x)
<1>1. x \in Events
  BY DEF Events
<1>2. queue' = [queue EXCEPT ![kind] = r]
  BY DEF Emit
<1>3. q \in Seq(Events) /\ queue \in [Kinds -> Seq(Events)]
  BY DEF TypeOK
<1> HIDE DEF x, q
<1>4. /\ r \in Seq(Events) /\ Len(r) = Len(q) + 1 /\ Len(q) \in Nat
      /\ \A n \in 1..Len(q) : r[n] = q[n]
      /\ r[Len(q) + 1] = x
  BY <1>1, <1>3, AppendProperties, LenProperties
<1> HIDE DEF r
<1>5. queue'[kind] = r /\ \A v \in Kinds \ {kind} : queue'[v] = queue[v]
  BY <1>2, <1>3
<1>6. \A v \in Kinds : Len(queue[v]) \in Nat
  BY <1>3, LenProperties
<1>7. \A v \in Kinds : \A n \in 1..Len(queue'[v]) :
          \/ n \in 1..Len(queue[v]) /\ queue'[v][n] = queue[v][n]
          \/ v = kind /\ n = Len(queue[v]) + 1 /\ queue'[v][n] = x
  BY <1>4, <1>5, <1>6 DEF q
<1>8. \A v \in Kinds : \A n \in 1..Len(queue[v]) :
          /\ n \in 1..Len(queue'[v]) /\ queue'[v][n] = queue[v][n]
          /\ n < Len(queue[v]) + 1
  BY <1>4, <1>5, <1>6 DEF q
<1>9. \E n \in 1..Len(queue'[kind]) : queue'[kind][n] = x
  BY <1>4, <1>5
<1>10. queue' \in [Kinds -> Seq(Events)]
  BY <1>2, <1>3, <1>4
<1> QED
  BY <1>1, <1>7, <1>8, <1>9, <1>10 DEF x

(* Worker w loses its oldest event. *)
Pops(w) == queue[w] # <<>> /\ queue' = [queue EXCEPT ![w] = Tail(@)]

LEMMA Popped ==
    ASSUME TypeOK, QueueInv, NEW w \in Kinds, Pops(w)
    PROVE  LET x == Head(queue[w])
           IN  /\ x \in Events /\ x.kind = w /\ Queued(x)
               /\ queue' \in [Kinds -> Seq(Events)]
               /\ \A v \in Kinds : \E d \in {0, 1} : \A n \in 1..Len(queue'[v]) :
                      n + d \in 1..Len(queue[v]) /\ queue'[v][n] = queue[v][n + d]
               /\ \A e : Queued(e)' /\ e.kind \in Kinds => Queued(e)
               /\ \A e : Queued(e) /\ e.kind \in Kinds => Queued(e)' \/ e = x
               /\ \A e : Queued(e)' /\ e.kind = w /\ e.session = x.session => Before(x, e)
<1> DEFINE q == queue[w]
           r == Tail(q)
           x == Head(q)
<1>1. q \in Seq(Events) /\ queue \in [Kinds -> Seq(Events)] /\ q # <<>>
  BY DEF TypeOK, Pops
<1>2. queue' = [queue EXCEPT ![w] = r]
  BY DEF Pops
<1> HIDE DEF q
<1>3. /\ r \in Seq(Events) /\ Len(r) = Len(q) - 1
      /\ \A n \in 1..Len(r) : r[n] = q[n + 1]
  BY <1>1, HeadTailProperties
<1>4. Len(q) \in Nat \ {0} /\ x = q[1]
  BY <1>1, EmptySeq, LenProperties
<1>5. x \in Events
  BY <1>1, <1>4, ElementOfSeq
<1> HIDE DEF r, x
<1>6. queue'[w] = r /\ \A v \in Kinds \ {w} : queue'[v] = queue[v]
  BY <1>1, <1>2
<1>7. \A v \in Kinds : Len(queue[v]) \in Nat
  BY <1>1, LenProperties
<1>8. queue' \in [Kinds -> Seq(Events)]
  BY <1>1, <1>2, <1>3
<1>9. /\ \A n \in 1..Len(r) : n + 1 \in 1..Len(q) /\ r[n] = q[n + 1] /\ 1 < n + 1
      /\ \A n \in 1..Len(q) : n = 1 \/ (n - 1 \in 1..Len(r) /\ r[n - 1] = q[n])
      /\ 1 \in 1..Len(q)
  BY <1>3, <1>4
<1>10. x.kind = w /\ Queued(x)
  BY <1>4, <1>9 DEF QueueInv, Queued, q
<1>11. ASSUME NEW v \in Kinds
       PROVE  \E d \in {0, 1} : \A n \in 1..Len(queue'[v]) :
                  n + d \in 1..Len(queue[v]) /\ queue'[v][n] = queue[v][n + d]
  <2>1. CASE v = w
    BY <1>6, <1>9, <2>1 DEF q
  <2>2. CASE v # w
    BY <1>6, <1>7, <2>2
  <2> QED
    BY <2>1, <2>2
<1>12. ASSUME NEW e, Queued(e)', e.kind \in Kinds
       PROVE  Queued(e) /\ (e.kind = w /\ e.session = x.session => Before(x, e))
  <2>1. CASE e.kind = w
    <3>1. PICK n \in 1..Len(r) : r[n] = e
      BY <1>6, <1>12, <2>1 DEF Queued
    <3>2. n + 1 \in 1..Len(q) /\ q[n + 1] = e /\ 1 < n + 1
      BY <1>9, <3>1
    <3>3. Queued(e)
      BY <2>1, <3>2 DEF Queued, q
    <3>4. e.session = x.session => Before(x, e)
      BY <1>4, <1>9, <3>2 DEF QueueInv, q
    <3> QED
      BY <3>3, <3>4
  <2>2. CASE e.kind # w
    BY <1>6, <1>12, <2>2 DEF Queued
  <2> QED
    BY <2>1, <2>2
<1>13. ASSUME NEW e, Queued(e), e.kind \in Kinds PROVE Queued(e)' \/ e = x
  <2>1. CASE e.kind = w
    <3>1. PICK n \in 1..Len(q) : q[n] = e
      BY <1>13, <2>1 DEF Queued, q
    <3>2. CASE n = 1
      BY <1>4, <3>1, <3>2
    <3>3. CASE n - 1 \in 1..Len(r) /\ r[n - 1] = e
      BY <1>6, <2>1, <3>3 DEF Queued
    <3> QED
      BY <1>9, <3>1, <3>2, <3>3
  <2>2. CASE e.kind # w
    BY <1>6, <1>13, <2>2 DEF Queued
  <2> QED
    BY <2>1, <2>2
<1> QED
  BY <1>5, <1>8, <1>10, <1>11, <1>12, <1>13 DEF x, q

(* A worker that takes its oldest event. *)
LEMMA Taken ==
    ASSUME NEW w \in Kinds, NEW e, Take(w, e)
    PROVE  Pops(w) /\ e = Head(queue[w]) /\ held[w] = {}
  BY DEF Take, Pops

(* What a look-up does, by what becomes of the run. *)
LEMMA LookedUp ==
    ASSUME TypeOK, QueueInv, NEW w \in Kinds, NEW e \in Events, LookUp(w, e)
    PROVE  /\ e.kind = w /\ Queued(e) /\ Pops(w) /\ e = Head(queue[w]) /\ held[w] = {}
           /\ \A v \in Kinds \ {w} : held'[v] = held[v]
           /\ \A s \in Sessions \ {e.session} : runs'[s] = runs[s]
           /\ \/ /\ w = "start"
                 /\ \A f \in held'[w] : f = Frame(e, e.turn)
                 /\ runs'[e.session] = e.turn
              \/ /\ w = "chunk"
                 /\ \A f \in held'[w] :
                        f = Frame(e, runs[e.session]) /\ runs[e.session] # 0
                 /\ runs'[e.session] = runs[e.session]
              \/ /\ w = "end"
                 /\ \A f \in held'[w] :
                        f = Frame(e, runs[e.session]) /\ runs[e.session] # 0
                 /\ runs'[e.session] = 0
           /\ runs' \in [Sessions -> 0..TurnBound] /\ held' \in [Kinds -> SUBSET HeldFrames]
           /\ connected
           /\ overtaken' = (overtaken \/ Overtakes(e))
           /\ UNCHANGED <<hostVars, connected, open, wire, endLost>>
<1>1. Pops(w) /\ e = Head(queue[w]) /\ held[w] = {}
  BY Taken DEF LookUp
<1>2. e.kind = w /\ Queued(e)
  BY <1>1, Popped
<1>3. /\ runs \in [Sessions -> 0..TurnBound] /\ held \in [Kinds -> SUBSET HeldFrames]
      /\ e.session \in Sessions /\ e.turn \in 1..TurnBound /\ e.kind \in Kinds
      /\ runs[e.session] \in 0..TurnBound
  BY EventType DEF TypeOK
<1>4. ASSUME NEW run \in 1..TurnBound PROVE Frame(e, run) \in HeldFrames
  BY <1>3 DEF Frame, HeldFrames
<1>5. OnStart(w, e) \/ OnDelta(w, e) \/ OnEnd(w, e)
  BY DEF LookUp
<1>6. connected /\ overtaken' = (overtaken \/ Overtakes(e))
      /\ UNCHANGED <<hostVars, connected, open, wire, endLost>>
  BY DEF LookUp
<1>7. CASE OnStart(w, e)
  <2>1. /\ runs' = [runs EXCEPT ![e.session] = e.turn]
        /\ held' = [held EXCEPT ![w] = {Frame(e, e.turn)}]
        /\ w = "start"
    BY <1>2, <1>7 DEF OnStart
  <2>2. Frame(e, e.turn) \in HeldFrames
    BY <1>3, <1>4
  <2> QED
    BY <1>1, <1>2, <1>3, <1>6, <2>1, <2>2
<1>8. ASSUME held' = [held EXCEPT ![w] = IF runs[e.session] = 0 THEN {}
                                         ELSE {Frame(e, runs[e.session])}]
      PROVE  /\ \A v \in Kinds \ {w} : held'[v] = held[v]
             /\ \A f \in held'[w] : f = Frame(e, runs[e.session]) /\ runs[e.session] # 0
             /\ held' \in [Kinds -> SUBSET HeldFrames]
  <2>1. runs[e.session] # 0 => Frame(e, runs[e.session]) \in HeldFrames
    BY <1>3, <1>4, BoundAssumption
  <2> QED
    BY <1>3, <1>8, <2>1
<1>9. CASE OnDelta(w, e)
  <2>1. runs' = runs /\ w = "chunk"
    BY <1>2, <1>9 DEF OnDelta
  <2>2. held' = [held EXCEPT ![w] = IF runs[e.session] = 0 THEN {}
                                    ELSE {Frame(e, runs[e.session])}]
    BY <1>9 DEF OnDelta
  <2> QED
    BY <1>1, <1>2, <1>3, <1>6, <1>8, <2>1, <2>2
<1>10. CASE OnEnd(w, e)
  <2>1. runs' = [runs EXCEPT ![e.session] = 0] /\ w = "end"
    BY <1>2, <1>10 DEF OnEnd
  <2>2. held' = [held EXCEPT ![w] = IF runs[e.session] = 0 THEN {}
                                    ELSE {Frame(e, runs[e.session])}]
    BY <1>10 DEF OnEnd
  <2>3. runs' \in [Sessions -> 0..TurnBound] /\ runs'[e.session] = 0
    BY <1>3, <2>1, BoundAssumption
  <2> QED
    BY <1>1, <1>2, <1>3, <1>6, <1>8, <2>1, <2>2, <2>3
<1> QED
  BY <1>5, <1>7, <1>9, <1>10

(* What a post does. *)
LEMMA Posted ==
    ASSUME TypeOK, QueueInv, NEW w \in Kinds, NEW f \in held[w], Post(w, f)
    PROVE  /\ f \in HeldFrames /\ f.kind = w /\ f.session \in Sessions /\ Held(f)
           /\ held' \in [Kinds -> SUBSET HeldFrames]
           /\ held'[w] = {} /\ \A v \in Kinds \ {w} : held'[v] = held[v]
           /\ wire' \in [Sessions -> Seq(HeldFrames)]
           /\ \A s \in Sessions : \A i \in 1..Len(wire'[s]) :
                  \/ i \in 1..Len(wire[s]) /\ wire'[s][i] = wire[s][i]
                  \/ s = f.session /\ wire'[s][i] = f /\ i = Len(wire[s]) + 1
           /\ UNCHANGED <<hostVars, queue, connected, runs, open, pastVars>>
<1>1. f \in HeldFrames /\ f.kind = w /\ f.session \in Sessions /\ Held(f)
  BY EventType DEF TypeOK, QueueInv, Held
<1>2. /\ held' \in [Kinds -> SUBSET HeldFrames]
      /\ held'[w] = {} /\ \A v \in Kinds \ {w} : held'[v] = held[v]
  BY DEF TypeOK, Post
<1>3. wire \in [Sessions -> Seq(HeldFrames)]
  BY DEF TypeOK
<1>4. \A s \in Sessions : Len(wire[s]) \in Nat
  BY <1>3, LenProperties
<1>5. CASE wire' = wire
  BY <1>1, <1>2, <1>3, <1>4, <1>5 DEF Post
<1>6. CASE wire' = [wire EXCEPT ![f.session] = Append(@, f)]
  <2> DEFINE q == wire[f.session]
             r == Append(q, f)
  <2>1. wire' = [wire EXCEPT ![f.session] = r] /\ q \in Seq(HeldFrames)
    BY <1>1, <1>3, <1>6
  <2> HIDE DEF q
  <2>2. /\ r \in Seq(HeldFrames) /\ Len(r) = Len(q) + 1 /\ Len(q) \in Nat
        /\ \A n \in 1..Len(q) : r[n] = q[n]
        /\ r[Len(q) + 1] = f
    BY <1>1, <2>1, AppendProperties, LenProperties
  <2> HIDE DEF r
  <2>3. wire'[f.session] = r /\ \A s \in Sessions \ {f.session} : wire'[s] = wire[s]
    BY <1>1, <1>3, <2>1
  <2>4. wire' \in [Sessions -> Seq(HeldFrames)]
    BY <1>3, <2>1, <2>2
  <2>5. \A s \in Sessions : \A i \in 1..Len(wire'[s]) :
            \/ i \in 1..Len(wire[s]) /\ wire'[s][i] = wire[s][i]
            \/ s = f.session /\ wire'[s][i] = f /\ i = Len(wire[s]) + 1
    <3>1. ASSUME NEW i \in 1..Len(r)
          PROVE  (i \in 1..Len(q) /\ r[i] = q[i]) \/ (r[i] = f /\ i = Len(q) + 1)
      BY <2>2
    <3> QED
      BY <1>4, <2>3, <3>1 DEF q
  <2> QED
    BY <1>1, <1>2, <2>4, <2>5 DEF Post
<1> QED
  BY <1>5, <1>6 DEF Post

-----------------------------------------------------------------------------
(* The begin, a delta and the end of a turn of s. *)
HostStep(kind, s, t) ==
    /\ Emit(kind, s, t)
    /\ UNCHANGED <<held, connected, runs, open, wire, pastVars>>
Begins(s) ==
    /\ ~streaming[s] /\ turn[s] + 1 \in 1..TurnBound
    /\ turn' = [turn EXCEPT ![s] = turn[s] + 1]
    /\ streaming' = [streaming EXCEPT ![s] = TRUE]
    /\ HostStep("start", s, turn[s] + 1)
Goes(s) ==
    /\ streaming[s] /\ turn[s] \in 1..TurnBound
    /\ UNCHANGED <<turn, streaming>>
    /\ HostStep("chunk", s, turn[s])
Finishes(s) ==
    /\ streaming[s] /\ turn[s] \in 1..TurnBound
    /\ turn' = turn
    /\ streaming' = [streaming EXCEPT ![s] = FALSE]
    /\ HostStep("end", s, turn[s])

(* The steps, by what they do to the queues. *)
LEMMA HostSteps ==
    ASSUME TypeOK, TurnInv, NEW s \in Sessions
    PROVE  /\ BeginTurn(s) => Begins(s) /\ deltas' \in [Sessions -> 0..DeltaBound]
           /\ StreamDelta(s) => Goes(s) /\ deltas' \in [Sessions -> 0..DeltaBound]
           /\ EndTurn(s) => Finishes(s) /\ deltas' \in [Sessions -> 0..DeltaBound]
<1>1. /\ turn[s] \in 0..TurnBound /\ deltas[s] \in 0..DeltaBound
      /\ streaming[s] => turn[s] # 0
      /\ deltas \in [Sessions -> 0..DeltaBound]
      /\ TurnBound \in Nat /\ DeltaBound \in Nat
  BY BoundAssumption DEF TypeOK, TurnInv
<1>2. ASSUME BeginTurn(s)
      PROVE  Begins(s) /\ deltas' \in [Sessions -> 0..DeltaBound]
  BY <1>1, <1>2 DEF BeginTurn, Begins, HostStep
<1>3. ASSUME StreamDelta(s)
      PROVE  Goes(s) /\ deltas' \in [Sessions -> 0..DeltaBound]
  BY <1>1, <1>3 DEF StreamDelta, Goes, HostStep
<1>4. ASSUME EndTurn(s)
      PROVE  Finishes(s) /\ deltas' \in [Sessions -> 0..DeltaBound]
  BY <1>1, <1>4 DEF EndTurn, Finishes, HostStep
<1> QED
  BY <1>2, <1>3, <1>4

(* A worker loses an event and the rest stays: its queue is full, its hook *)
(* returns at once or raises.  An end is lost only without an adapter, or  *)
(* on the record.                                                          *)
Skips(w) ==
    /\ Pops(w)
    /\ endLost => endLost'
    /\ ~connected \/ w # "end" \/ endLost'
    /\ UNCHANGED <<hostVars, held, connected, runs, open, wire, overtaken>>

LEMMA Skipped ==
    ASSUME TypeOK, QueueInv, NEW w \in Kinds,
           HostDrops(w) \/ Ignore(w) \/ HookRaises(w)
    PROVE  Skips(w)
<1>1. CASE Ignore(w)
  BY <1>1, Taken DEF Ignore, Skips, pastVars
<1>2. CASE HookRaises(w)
  <2>1. PICK e \in Events : Take(w, e) /\ e.kind = "start"
    BY <1>2 DEF HookRaises
  <2>2. Pops(w) /\ e = Head(queue[w])
    BY <2>1, Taken
  <2>3. w = "start"
    BY <2>1, <2>2, Popped
  <2> QED
    BY <1>2, <2>2, <2>3 DEF HookRaises, Skips, pastVars
<1>3. CASE HostDrops(w)
  BY <1>3 DEF HostDrops, Skips, Pops
<1> QED
  BY <1>1, <1>2, <1>3

(* The steps that touch neither queues nor frames nor runs. *)
Flips ==
    /\ UNCHANGED <<hostVars, queue, held, runs, wire, pastVars>>
    /\ connected' => connected

LEMMA StepKinds ==
    ASSUME TypeOK, QueueInv, TurnInv, [Next]_vars
    PROVE  \/ \E s \in Sessions : Begins(s) \/ Goes(s) \/ Finishes(s)
           \/ \E w \in Kinds : Skips(w)
           \/ \E w \in Kinds : \E e \in Events : LookUp(w, e)
           \/ \E w \in Kinds : \E f \in held[w] : Post(w, f)
           \/ Flips
<1>1. SocketFlips \/ Stop \/ UNCHANGED vars => Flips
  BY DEF SocketFlips, Stop, Flips, vars
<1> QED
  BY <1>1, HostSteps, Skipped DEF Next

(* Every step keeps the types. *)
LEMMA StepTypes ==
    ASSUME TypeOK, QueueInv, TurnInv, [Next]_vars PROVE TypeOK'
<1>1. ASSUME NEW s \in Sessions, Begins(s) \/ Goes(s) \/ Finishes(s),
             deltas' \in [Sessions -> 0..DeltaBound]
      PROVE  TypeOK'
  <2>1. queue' \in [Kinds -> Seq(Events)]
    <3>1. PICK kind \in Kinds, t \in 1..TurnBound : Emit(kind, s, t)
      BY <1>1, Places DEF Begins, Goes, Finishes, HostStep
    <3> QED
      BY <3>1, Emits
  <2>2. turn' \in [Sessions -> 0..TurnBound] /\ streaming' \in [Sessions -> BOOLEAN]
    <3>1. turn \in [Sessions -> 0..TurnBound] /\ streaming \in [Sessions -> BOOLEAN]
      BY DEF TypeOK
    <3>2. CASE Begins(s)
      <4>1. turn[s] + 1 \in 0..TurnBound
        BY <3>2, BoundAssumption DEF Begins
      <4> QED
        BY <3>1, <3>2, <4>1 DEF Begins
    <3>3. CASE Goes(s)
      BY <3>1, <3>3 DEF Goes
    <3>4. CASE Finishes(s)
      BY <3>1, <3>4 DEF Finishes
    <3> QED
      BY <1>1, <3>2, <3>3, <3>4
  <2> QED
    BY <1>1, <2>1, <2>2 DEF Begins, Goes, Finishes, HostStep, TypeOK, pastVars
<1>2. ASSUME NEW s \in Sessions, BeginTurn(s) \/ StreamDelta(s) \/ EndTurn(s) PROVE TypeOK'
  BY <1>1, <1>2, HostSteps
<1>3. ASSUME NEW w \in Kinds, Pops(w)
      PROVE  queue' \in [Kinds -> Seq(Events)]
  BY <1>3, Popped
<1>4. ASSUME NEW w \in Kinds, HostDrops(w) PROVE TypeOK'
  <2>1. queue' \in [Kinds -> Seq(Events)]
    BY <1>3, <1>4 DEF HostDrops, Pops
  <2> QED
    BY <1>4, <2>1 DEF HostDrops, hostVars, TypeOK
<1>5. ASSUME NEW w \in Kinds, Ignore(w) \/ HookRaises(w) PROVE TypeOK'
  <2>1. queue' \in [Kinds -> Seq(Events)]
    BY <1>3, <1>5, Skipped DEF Skips
  <2> QED
    BY <1>5, <2>1 DEF Ignore, HookRaises, hostVars, pastVars, TypeOK
<1>6. ASSUME NEW w \in Kinds, NEW e \in Events, LookUp(w, e) PROVE TypeOK'
  <2>1. /\ runs' \in [Sessions -> 0..TurnBound] /\ held' \in [Kinds -> SUBSET HeldFrames]
        /\ overtaken' = (overtaken \/ Overtakes(e))
        /\ UNCHANGED <<hostVars, connected, open, wire, endLost>>
        /\ Pops(w)
    BY <1>6, LookedUp
  <2>2. queue' \in [Kinds -> Seq(Events)]
    BY <1>3, <2>1
  <2> QED
    BY <2>1, <2>2 DEF hostVars, TypeOK, Overtakes
<1>7. ASSUME NEW w \in Kinds, NEW f \in held[w], Post(w, f) PROVE TypeOK'
  BY <1>7, Posted DEF hostVars, pastVars, TypeOK
<1>8. CASE SocketFlips \/ Stop
  BY <1>8 DEF SocketFlips, Stop, hostVars, pastVars, TypeOK
<1>9. CASE UNCHANGED vars
  BY <1>9 DEF vars, hostVars, pastVars, TypeOK
<1> QED
  BY <1>2, <1>4, <1>5, <1>6, <1>7, <1>8, <1>9 DEF Next

-----------------------------------------------------------------------------
(* Every worker keeps the order of its events. *)
LEMMA StepQueue ==
    ASSUME TypeOK, QueueInv, TurnInv, [Next]_vars PROVE QueueInv'
<1> DEFINE QueueNext ==
        \A w \in Kinds : \A n \in 1..Len(queue'[w]) :
            /\ queue'[w][n].kind = w
            /\ \A k \in 1..Len(queue'[w]) :
                   n < k /\ queue'[w][n].session = queue'[w][k].session =>
                       Before(queue'[w][n], queue'[w][k])
<1>1. ASSUME QueueNext, held' = held, wire' = wire PROVE QueueInv'
  BY <1>1 DEF QueueInv, Before
<1>2. ASSUME NEW kind \in Kinds, NEW s \in Sessions, NEW t \in 1..TurnBound,
             HostStep(kind, s, t),
             \A e \in Events : Queued(e) /\ e.session = s /\ e.kind = kind =>
                 e.turn < t \/ (e.turn = t /\ kind = "chunk")
      PROVE  QueueInv'
  <2> DEFINE x == [kind |-> kind, session |-> s, turn |-> t]
  <2>1. /\ \A v \in Kinds : \A n \in 1..Len(queue'[v]) :
               \/ n \in 1..Len(queue[v]) /\ queue'[v][n] = queue[v][n]
               \/ v = kind /\ n = Len(queue[v]) + 1 /\ queue'[v][n] = x
        /\ held' = held /\ wire' = wire
    BY <1>2, Emits DEF HostStep
  <2>2. x.kind = kind /\ x.session = s /\ x.turn = t
    OBVIOUS
  <2> HIDE DEF x
  <2>3. ASSUME NEW w \in Kinds, NEW n \in 1..Len(queue'[w])
        PROVE  queue'[w][n].kind = w
    BY <2>1, <2>2 DEF QueueInv
  <2>4. ASSUME NEW w \in Kinds, NEW n \in 1..Len(queue'[w]), NEW k \in 1..Len(queue'[w]),
               n < k, queue'[w][n].session = queue'[w][k].session
        PROVE  Before(queue'[w][n], queue'[w][k])
    <3>1. Len(queue[w]) \in Nat /\ queue[w] \in Seq(Events)
      BY LenProperties DEF TypeOK
    <3>2. n \in 1..Len(queue[w]) /\ queue'[w][n] = queue[w][n]
      BY <2>1, <2>4, <3>1
    <3>3. CASE k \in 1..Len(queue[w]) /\ queue'[w][k] = queue[w][k]
      BY <2>4, <3>2, <3>3 DEF QueueInv
    <3>4. CASE w = kind /\ queue'[w][k] = x
      <4>1. queue[w][n] \in Events /\ queue[w][n].kind = w
        BY <3>1, <3>2, ElementOfSeq DEF QueueInv
      <4>2. Queued(queue[w][n])
        BY <3>2, <4>1 DEF Queued
      <4>3. LET e == queue[w][n] IN e.turn < t \/ (e.turn = t /\ kind = "chunk")
        BY <1>2, <2>2, <2>4, <3>2, <3>4, <4>1, <4>2
      <4> QED
        BY <2>2, <3>2, <3>4, <4>1, <4>3 DEF Before
    <3> QED
      BY <2>1, <3>3, <3>4
  <2> QED
    BY <1>1, <2>1, <2>3, <2>4
<1>3. ASSUME NEW s \in Sessions, Begins(s) \/ Goes(s) \/ Finishes(s) PROVE QueueInv'
  <2>1. ASSUME NEW e \in Events, Queued(e), e.session = s
        PROVE  /\ e.turn <= turn[s] /\ e.turn \in Nat /\ turn[s] \in Nat
               /\ e.kind = "end" /\ e.turn = turn[s] => ~streaming[s]
    BY <2>1, EventType, BoundAssumption DEF TurnInv, Emitted, TypeOK
  <2>2. CASE Begins(s)
    BY <1>2, <2>1, <2>2, Places DEF Begins
  <2>3. CASE Goes(s)
    BY <1>2, <2>1, <2>3, Places DEF Goes
  <2>4. CASE Finishes(s)
    BY <1>2, <2>1, <2>4, Places DEF Finishes
  <2> QED
    BY <1>3, <2>2, <2>3, <2>4
<1>4. ASSUME NEW w \in Kinds, Pops(w) PROVE QueueNext
  <2>1. \A v \in Kinds : \E d \in {0, 1} : \A n \in 1..Len(queue'[v]) :
            n + d \in 1..Len(queue[v]) /\ queue'[v][n] = queue[v][n + d]
    BY <1>4, Popped
  <2>2. SUFFICES ASSUME NEW v \in Kinds, NEW n \in 1..Len(queue'[v])
                 PROVE  /\ queue'[v][n].kind = v
                        /\ \A k \in 1..Len(queue'[v]) :
                               n < k /\ queue'[v][n].session = queue'[v][k].session =>
                                   Before(queue'[v][n], queue'[v][k])
    OBVIOUS
  <2>3. PICK d \in {0, 1} : \A k \in 1..Len(queue'[v]) :
            k + d \in 1..Len(queue[v]) /\ queue'[v][k] = queue[v][k + d]
    BY <2>1
  <2>4. ASSUME NEW k \in 1..Len(queue'[v]), n < k,
               queue'[v][n].session = queue'[v][k].session
        PROVE  Before(queue'[v][n], queue'[v][k])
    <3>1. n + d < k + d
      BY <2>4
    <3>2. Before(queue[v][n + d], queue[v][k + d])
      BY <2>3, <2>4, <3>1 DEF QueueInv
    <3> QED
      BY <2>3, <3>2
  <2>5. queue'[v][n].kind = v
    BY <2>3 DEF QueueInv
  <2> QED
    BY <2>4, <2>5
<1> HIDE DEF QueueNext
<1>6. ASSUME NEW w \in Kinds, Skips(w) PROVE QueueInv'
  BY <1>1, <1>4, <1>6 DEF Skips
<1>7. ASSUME NEW w \in Kinds, NEW e \in Events, LookUp(w, e) PROVE QueueInv'
  <2>1. /\ e.kind = w /\ Pops(w)
        /\ \A v \in Kinds \ {w} : held'[v] = held[v]
        /\ wire' = wire
        /\ \A f \in held'[w] : f = Frame(e, e.turn) \/ f = Frame(e, runs[e.session])
    BY <1>7, LookedUp
  <2>2. QueueNext
    BY <1>4, <2>1
  <2>3. \A v \in Kinds : \A f \in held'[v] : f.kind = v
    BY <2>1 DEF QueueInv, Frame
  <2> QED
    BY <2>1, <2>2, <2>3 DEF QueueInv, QueueNext, Before
<1>8. ASSUME NEW w \in Kinds, NEW f \in held[w], Post(w, f) PROVE QueueInv'
  <2>1. /\ held'[w] = {} /\ \A v \in Kinds \ {w} : held'[v] = held[v]
        /\ \A s \in Sessions : \A i \in 1..Len(wire'[s]) :
               \/ i \in 1..Len(wire[s]) /\ wire'[s][i] = wire[s][i]
               \/ s = f.session /\ wire'[s][i] = f
        /\ queue' = queue
    BY <1>8, Posted
  <2>2. \A v \in Kinds : \A g \in held'[v] : g.kind = v
    BY <2>1 DEF QueueInv
  <2>3. \A s \in Sessions : \A i \in 1..Len(wire'[s]) : wire'[s][i].session = s
    BY <2>1 DEF QueueInv
  <2> QED
    BY <2>1, <2>2, <2>3 DEF QueueInv, Before
<1>9. CASE Flips
  BY <1>9 DEF Flips, QueueInv, Before
<1> QED
  BY <1>3, <1>6, <1>7, <1>8, <1>9, StepKinds

-----------------------------------------------------------------------------
(* What a step of Hermes adds to the queues. *)
LEMMA HostQueued ==
    ASSUME TypeOK, NEW kind \in Kinds, NEW s \in Sessions, NEW t \in 1..TurnBound,
           HostStep(kind, s, t)
    PROVE  LET x == [kind |-> kind, session |-> s, turn |-> t]
           IN  /\ \A e : e.kind \in Kinds /\ Queued(e)' => Queued(e) \/ e = x
               /\ \A e : e.kind \in Kinds /\ Queued(e) => Queued(e)'
               /\ Queued(x)'
               /\ \A f : (Held(f)' <=> Held(f)) /\ (Written(f)' <=> Written(f))
               /\ UNCHANGED <<connected, runs, wire, pastVars>>
<1> DEFINE x == [kind |-> kind, session |-> s, turn |-> t]
<1>1. /\ \A v \in Kinds : \A n \in 1..Len(queue'[v]) :
             \/ n \in 1..Len(queue[v]) /\ queue'[v][n] = queue[v][n]
             \/ v = kind /\ queue'[v][n] = x
      /\ \A v \in Kinds : \A n \in 1..Len(queue[v]) :
             n \in 1..Len(queue'[v]) /\ queue'[v][n] = queue[v][n]
      /\ \E n \in 1..Len(queue'[kind]) : queue'[kind][n] = x
  BY Emits DEF HostStep
<1>2. x.kind = kind
  OBVIOUS
<1> HIDE DEF x
<1>3. \A e : e.kind \in Kinds /\ Queued(e)' => Queued(e) \/ e = x
  BY <1>1 DEF Queued
<1>4. \A e : e.kind \in Kinds /\ Queued(e) => Queued(e)'
  BY <1>1 DEF Queued
<1>6. Queued([kind |-> kind, session |-> s, turn |-> t])'
  BY <1>1 DEF Queued, x
<1>7. /\ \A f : (Held(f)' <=> Held(f)) /\ (Written(f)' <=> Written(f))
      /\ UNCHANGED <<connected, runs, wire, pastVars>>
  BY DEF HostStep, Held, Written
<1> QED
  BY <1>3, <1>4, <1>6, <1>7 DEF x

(* What a look-up adds to the frames. *)
LEMMA LookUpSeen ==
    ASSUME TypeOK, QueueInv, NEW w \in Kinds, NEW e \in Events, LookUp(w, e)
    PROVE  /\ \A f \in HeldFrames : Held(f)' =>
                  \/ Held(f)
                  \/ /\ f.kind = w /\ f.kind = e.kind /\ f.session = e.session
                     /\ f.turn = e.turn
                     /\ f.run = e.turn \/ (f.run = runs[e.session] /\ w # "start")
           /\ \A f : Written(f)' <=> Written(f)
           /\ \A f \in HeldFrames : Held(f) => f.kind # w
<1>1. /\ e.kind = w /\ held[w] = {} /\ wire' = wire
      /\ \A v \in Kinds \ {w} : held'[v] = held[v]
      /\ \A f \in held'[w] :
             \/ f = Frame(e, e.turn)
             \/ f = Frame(e, runs[e.session]) /\ w # "start"
  BY LookedUp
<1>2. ASSUME NEW f \in HeldFrames, Held(f)', ~Held(f)
      PROVE  /\ f.kind = w /\ f.session = e.session /\ f.turn = e.turn
             /\ f.run = e.turn \/ (f.run = runs[e.session] /\ w # "start")
  <2>1. f.kind = w
    BY <1>1, <1>2, EventType DEF Held
  <2>2. f \in held'[w]
    BY <1>2, <2>1 DEF Held
  <2> QED
    BY <1>1, <2>1, <2>2 DEF Frame
<1> QED
  BY <1>1, <1>2 DEF Held, Written

(* What a post does to the frames. *)
LEMMA PostSeen ==
    ASSUME TypeOK, QueueInv, NEW w \in Kinds, NEW f \in held[w], Post(w, f)
    PROVE  /\ \A g \in HeldFrames : Held(g)' => Held(g) /\ g.kind # w
           /\ \A g \in HeldFrames : Written(g)' => Written(g) \/ g = f
<1>1. /\ f \in HeldFrames
      /\ held'[w] = {} /\ \A v \in Kinds \ {w} : held'[v] = held[v]
      /\ \A s \in Sessions : \A i \in 1..Len(wire'[s]) :
             \/ i \in 1..Len(wire[s]) /\ wire'[s][i] = wire[s][i]
             \/ s = f.session /\ wire'[s][i] = f
  BY Posted
<1>2. \A g \in HeldFrames : Held(g)' => Held(g) /\ g.kind # w
  BY <1>1, EventType DEF Held
<1>3. \A g \in HeldFrames : Written(g)' => Written(g) \/ g = f
  BY <1>1, EventType DEF Written
<1> QED
  BY <1>2, <1>3

(* Nothing runs ahead of the turns. *)
LEMMA StepTurn ==
    ASSUME TypeOK, QueueInv, TurnInv, [Next]_vars PROVE TurnInv'
<1>1. \A s \in Sessions : turn[s] \in Nat /\ runs[s] \in Nat
  BY BoundAssumption DEF TypeOK
<1>2. ASSUME NEW s \in Sessions, Begins(s) \/ Goes(s) \/ Finishes(s) PROVE TurnInv'
  <2>1. PICK kind \in Kinds, t \in 1..TurnBound :
            /\ HostStep(kind, s, t) /\ t = turn'[s]
            /\ kind = "end" => ~streaming'[s]
            /\ streaming'[s] => turn'[s] # 0
    BY <1>1, <1>2, Places DEF Begins, Goes, Finishes, TypeOK
  <2>2. /\ \A u \in Sessions \ {s} : turn'[u] = turn[u] /\ streaming'[u] = streaming[u]
        /\ turn'[s] >= turn[s] /\ turn'[s] \in Nat
        /\ turn'[s] = turn[s] => (streaming'[s] => streaming[s])
    BY <1>1, <1>2 DEF Begins, Goes, Finishes, TypeOK
  <2>3. ASSUME NEW e, e.session \in Sessions, e.turn \in Nat, Emitted(e) PROVE Emitted(e)'
    <3>1. CASE e.session = s
      BY <1>1, <2>2, <2>3, <3>1 DEF Emitted
    <3>2. CASE e.session # s
      BY <2>2, <2>3, <3>2 DEF Emitted
    <3> QED
      BY <3>1, <3>2
  <2> DEFINE x == [kind |-> kind, session |-> s, turn |-> t]
  <2>4. x.kind = kind /\ x.session = s /\ x.turn = t
    OBVIOUS
  <2>5. /\ \A e : e.kind \in Kinds /\ Queued(e)' => Queued(e) \/ e = x
        /\ \A f : (Held(f)' <=> Held(f)) /\ (Written(f)' <=> Written(f))
        /\ runs' = runs
    BY <2>1, HostQueued
  <2> HIDE DEF x
  <2>6. Emitted(x)'
    <3>1. t <= turn'[s] /\ (kind = "end" => ~streaming'[s])
      BY <2>1, <2>2
    <3> QED
      BY <2>4, <3>1 DEF Emitted, x
  <2>7. ASSUME NEW e \in Events, Queued(e)' PROVE Emitted(e)'
    <3>1. CASE Queued(e)
      BY <2>3, <3>1, EventType DEF TurnInv
    <3>2. CASE e = x
      BY <2>6, <3>2 DEF Emitted
    <3> QED
      BY <2>5, <2>7, <3>1, <3>2, EventType
  <2>8. ASSUME NEW f \in HeldFrames, Seen(f)' PROVE Emitted(f)'
    BY <2>3, <2>5, <2>8, EventType DEF TurnInv, Seen
  <2>9. ASSUME NEW u \in Sessions PROVE runs'[u] <= turn'[u] /\ (streaming'[u] => turn'[u] # 0)
    BY <1>1, <2>1, <2>2, <2>5 DEF TurnInv
  <2> QED
    BY <2>7, <2>8, <2>9 DEF TurnInv
<1>3. ASSUME UNCHANGED hostVars,
             \A e \in Events : Queued(e)' => Queued(e),
             \A f \in HeldFrames : Seen(f)' =>
                 \/ Seen(f)
                 \/ \E e \in Events : /\ Queued(e) /\ f.kind = e.kind
                                      /\ f.session = e.session /\ f.turn = e.turn,
             \A s \in Sessions : runs'[s] <= turn[s]
      PROVE  TurnInv'
  <2>1. \A e : Emitted(e)' <=> Emitted(e)
    BY <1>3 DEF Emitted, hostVars
  <2>2. ASSUME NEW f \in HeldFrames, Seen(f)' PROVE Emitted(f)
    <3>1. CASE Seen(f)
      BY <3>1 DEF TurnInv
    <3>2. CASE \E e \in Events : /\ Queued(e) /\ f.kind = e.kind
                                 /\ f.session = e.session /\ f.turn = e.turn
      BY <3>2 DEF TurnInv, Emitted
    <3> QED
      BY <1>3, <2>2, <3>1, <3>2
  <2>3. \A s \in Sessions : streaming'[s] => turn'[s] # 0
    BY <1>3 DEF TurnInv, hostVars
  <2>4. \A s \in Sessions : runs'[s] <= turn'[s]
    BY <1>3 DEF hostVars
  <2>5. \A e \in Events : Queued(e)' => Emitted(e)'
    BY <1>3, <2>1 DEF TurnInv
  <2> QED
    BY <2>1, <2>2, <2>3, <2>4, <2>5 DEF TurnInv
<1>4. \A f : held' = held /\ wire' = wire => (Seen(f)' <=> Seen(f))
  BY DEF Seen, Held, Written
<1>5. \A s \in Sessions : runs[s] <= turn[s]
  BY DEF TurnInv
<1>6. ASSUME NEW w \in Kinds, Pops(w) PROVE \A e \in Events : Queued(e)' => Queued(e)
  BY <1>6, Popped, EventType
<1>8. ASSUME NEW w \in Kinds, Skips(w) PROVE TurnInv'
  BY <1>3, <1>4, <1>5, <1>6, <1>8 DEF Skips
<1>9. ASSUME NEW w \in Kinds, NEW e \in Events, LookUp(w, e) PROVE TurnInv'
  <2>1. /\ Queued(e) /\ Pops(w) /\ UNCHANGED hostVars
        /\ \A s \in Sessions \ {e.session} : runs'[s] = runs[s]
        /\ runs'[e.session] \in {e.turn, runs[e.session], 0}
    BY <1>9, LookedUp
  <2>2. e.turn <= turn[e.session] /\ e.session \in Sessions
    BY <2>1, EventType DEF TurnInv, Emitted
  <2>3. \A s \in Sessions : runs'[s] <= turn[s]
    BY <1>1, <1>5, <2>1, <2>2
  <2>4. ASSUME NEW f \in HeldFrames, Seen(f)'
        PROVE  Seen(f) \/ (f.kind = e.kind /\ f.session = e.session /\ f.turn = e.turn)
    BY <1>9, <2>4, LookUpSeen DEF Seen
  <2> QED
    BY <1>3, <1>6, <2>1, <2>3, <2>4
<1>10. ASSUME NEW w \in Kinds, NEW f \in held[w], Post(w, f) PROVE TurnInv'
  <2>1. /\ UNCHANGED hostVars /\ queue' = queue /\ runs' = runs /\ Held(f)
        /\ \A g \in HeldFrames : Seen(g)' => Seen(g) \/ g = f
    BY <1>10, Posted, PostSeen DEF Seen
  <2>2. \A e : Queued(e)' <=> Queued(e)
    BY <2>1 DEF Queued
  <2> QED
    BY <1>3, <1>5, <2>1, <2>2 DEF Seen
<1>11. CASE Flips
  <2>1. \A e : Queued(e)' <=> Queued(e)
    BY <1>11 DEF Queued, Flips
  <2> QED
    BY <1>3, <1>4, <1>5, <1>11, <2>1 DEF Flips
<1> QED
  BY <1>2, <1>8, <1>9, <1>10, <1>11, StepKinds

-----------------------------------------------------------------------------
(* What a look-up knows that overtakes nothing: the frame comes before     *)
(* everything that waits, no other frame of its session is between look-up *)
(* and post, and the run is not from a later turn.                         *)
LEMMA InTurn ==
    ASSUME TypeOK, QueueInv, TurnInv, OrderInv,
           NEW w \in Kinds, NEW e \in Events, LookUp(w, e), ~overtaken'
    PROVE  /\ ~overtaken /\ ~Overtakes(e)
           /\ \A d \in Events : Queued(d) => ~Earlier(d, e)
           /\ \A d \in Events : Queued(d)' /\ d.session = e.session => Before(e, d)
           /\ \A g \in HeldFrames : Held(g) => g.session # e.session
           /\ runs[e.session] <= e.turn
<1>1. /\ ~overtaken /\ ~Overtakes(e)
      /\ e.kind = w /\ Queued(e) /\ Pops(w) /\ e = Head(queue[w]) /\ connected
  BY LookedUp
<1>2. SeenInv /\ RunInv
  BY <1>1 DEF OrderInv
<1>3. ASSUME NEW d \in Events, Queued(d) PROVE ~Earlier(d, e)
  BY <1>1, <1>3, EventType DEF Queued, Overtakes
<1>4. ASSUME NEW d \in Events, Queued(d)', d.session = e.session PROVE Before(e, d)
  <2>1. Queued(d) /\ (d.kind = w => Before(e, d))
    BY <1>1, <1>4, Popped, EventType
  <2>2. CASE d.kind # w
    BY <1>1, <1>3, <1>4, <2>1, <2>2, OneIsEarlier, EventType
  <2> QED
    BY <2>1, <2>2
<1>5. ASSUME NEW g \in HeldFrames, Held(g), g.session = e.session PROVE FALSE
  <2>1. Before(g, e) /\ g.kind # w
    BY <1>1, <1>2, <1>5, LookUpSeen DEF SeenInv, Seen
  <2>2. Earlier(g, e)
    BY <1>1, <1>5, <2>1, BeforeIsEarlier
  <2> QED
    BY <1>1, <1>5, <2>2, EventType DEF Overtakes, Held
<1>6. runs[e.session] <= e.turn
  <2>1. e.turn \in Nat \ {0} /\ e.session \in Sessions /\ runs[e.session] \in 0..TurnBound
    BY EventType DEF TypeOK
  <2> QED
    BY <1>1, <1>2, <2>1, BoundAssumption DEF RunInv
<1> QED
  BY <1>1, <1>3, <1>4, <1>5, <1>6

(* What a look-up knows if no end is lost either: the run is that of its   *)
(* turn.                                                                   *)
LEMMA OwnRun ==
    ASSUME TypeOK, QueueInv, TurnInv, OrderInv, KeptInv,
           NEW w \in Kinds, NEW e \in Events, LookUp(w, e), ~overtaken', ~endLost
    PROVE  w # "start" /\ runs[e.session] # 0 => runs[e.session] = e.turn
<1> DEFINE s == e.session
           r == runs[s]
<1> SUFFICES ASSUME w # "start", r # 0, r # e.turn PROVE FALSE
  OBVIOUS
<1>1. /\ ~overtaken /\ r <= e.turn
      /\ \A d \in Events : Queued(d) => ~Earlier(d, e)
  BY InTurn
<1>2. EndInv /\ connected /\ Queued(e)
  BY <1>1, LookedUp DEF KeptInv
<1>3. s \in Sessions /\ r \in 1..TurnBound /\ r \in Nat /\ e.turn \in Nat /\ r < e.turn
  BY <1>1, EventType, BoundAssumption DEF TypeOK
<1>4. Ends(s, r)
  BY <1>2, <1>3 DEF EndInv
<1>5. CASE streaming[s] /\ turn[s] = r
  BY <1>2, <1>3, <1>5 DEF TurnInv, Emitted
<1>6. CASE Queued(End(s, r))
  <2>1. End(s, r) \in Events
    BY <1>3, Places DEF End, Events
  <2>2. Earlier(End(s, r), e)
    BY <1>3 DEF Earlier, End
  <2> QED
    BY <1>1, <1>6, <2>1, <2>2
<1> QED
  BY <1>4, <1>5, <1>6 DEF Ends

-----------------------------------------------------------------------------
(* What a step of Hermes puts before the workers, and what it knows of it. *)
LEMMA HostEvent ==
    ASSUME TypeOK, TurnInv, NEW s \in Sessions, Begins(s) \/ Goes(s) \/ Finishes(s)
    PROVE  \E x \in Events :
               /\ x.session = s
               /\ \/ x.kind = "start" /\ Begins(s) /\ x.turn = turn[s] + 1
                  \/ x.kind = "chunk" /\ Goes(s) /\ x.turn = turn[s]
                  \/ /\ x.kind = "end" /\ Finishes(s) /\ x.turn = turn[s]
                     /\ x = End(s, turn[s])
               /\ \A e : e.kind \in Kinds /\ Queued(e)' => Queued(e) \/ e = x
               /\ \A e : e.kind \in Kinds /\ Queued(e) => Queued(e)'
               /\ Queued(x)'
               /\ \A f : (Held(f)' <=> Held(f)) /\ (Written(f)' <=> Written(f))
               /\ UNCHANGED <<connected, runs, wire, overtaken, endLost>>
<1>1. PICK kind \in Kinds, t \in 1..TurnBound :
          /\ HostStep(kind, s, t)
          /\ \/ kind = "start" /\ Begins(s) /\ t = turn[s] + 1
             \/ kind = "chunk" /\ Goes(s) /\ t = turn[s]
             \/ kind = "end" /\ Finishes(s) /\ t = turn[s]
  BY Places DEF Begins, Goes, Finishes
<1> DEFINE x == [kind |-> kind, session |-> s, turn |-> t]
<1>2. /\ x \in Events /\ x.kind = kind /\ x.session = s /\ x.turn = t
      /\ kind = "end" => x = End(s, t)
  BY DEF End, Events
<1>3. /\ \A e : e.kind \in Kinds /\ Queued(e)' => Queued(e) \/ e = x
      /\ \A e : e.kind \in Kinds /\ Queued(e) => Queued(e)'
      /\ Queued(x)'
      /\ \A f : (Held(f)' <=> Held(f)) /\ (Written(f)' <=> Written(f))
      /\ UNCHANGED <<connected, runs, wire, overtaken, endLost>>
  BY <1>1, HostQueued DEF pastVars
<1> HIDE DEF x
<1> QED
  BY <1>1, <1>2, <1>3

(* As long as no worker overtakes another, the order is kept. *)
LEMMA StepOrder ==
    ASSUME TypeOK, QueueInv, TurnInv, OrderInv, [Next]_vars PROVE OrderInv'
<1> SUFFICES ASSUME ~overtaken' PROVE SeenInv' /\ HeldInv' /\ LastInv' /\ RunInv'
  BY DEF OrderInv
<1>1. \A s \in Sessions : turn[s] \in Nat /\ runs[s] \in Nat
  BY BoundAssumption DEF TypeOK
<1>2. ASSUME NEW s \in Sessions, Begins(s) \/ Goes(s) \/ Finishes(s)
      PROVE  SeenInv' /\ HeldInv' /\ LastInv' /\ RunInv'
  <2>1. PICK x \in Events :
            /\ x.session = s
            /\ \/ x.kind = "start" /\ x.turn = turn[s] + 1
               \/ x.kind = "chunk" /\ streaming[s] /\ x.turn = turn[s]
               \/ x.kind = "end" /\ streaming[s] /\ x.turn = turn[s]
            /\ \A e : e.kind \in Kinds /\ Queued(e)' => Queued(e) \/ e = x
            /\ \A f : (Held(f)' <=> Held(f)) /\ (Written(f)' <=> Written(f))
            /\ UNCHANGED <<runs, overtaken>>
    BY <1>2, HostEvent DEF Goes, Finishes
  <2>2. SeenInv /\ HeldInv /\ LastInv /\ RunInv
    BY <2>1 DEF OrderInv
  <2>3. SeenInv'
    <3>1. SUFFICES ASSUME NEW f \in HeldFrames, Seen(f), NEW e \in Events, Queued(e)',
                          e.session = f.session
                   PROVE  Before(f, e)
      BY <2>1, <2>2 DEF SeenInv, Seen, Before
    <3>2. CASE Queued(e)
      BY <2>2, <3>1, <3>2 DEF SeenInv
    <3>3. CASE e = x
      <4>1. /\ f.turn <= turn[s] /\ (f.turn = turn[s] /\ streaming[s] => f.kind # "end")
            /\ f.turn \in Nat /\ f.kind \in Kinds
        BY <2>1, <3>1, <3>3, EventType DEF TurnInv, Emitted
      <4> QED
        BY <1>1, <2>1, <3>3, <4>1, Places DEF Before
    <3> QED
      BY <2>1, <3>1, <3>2, <3>3, EventType
  <2>4. HeldInv' /\ LastInv'
    BY <2>1, <2>2 DEF HeldInv, LastInv, Seen, Precedes
  <2>5. RunInv'
    <3>1. SUFFICES ASSUME NEW e \in Events, Queued(e)'
                   PROVE  \/ runs[e.session] = 0
                          \/ runs[e.session] < e.turn
                          \/ runs[e.session] = e.turn /\ e.kind # "start"
      BY <2>1 DEF RunInv
    <3>2. CASE Queued(e)
      BY <2>2, <3>2 DEF RunInv
    <3>3. CASE e = x
      BY <1>1, <2>1, <3>3 DEF TurnInv
    <3> QED
      BY <2>1, <3>1, <3>2, <3>3, EventType
  <2> QED
    BY <2>3, <2>4, <2>5
<1>3. ASSUME NEW w \in Kinds, Skips(w)
      PROVE  SeenInv' /\ HeldInv' /\ LastInv' /\ RunInv'
  <2>1. Pops(w) /\ UNCHANGED <<held, runs, wire, overtaken>>
    BY <1>3 DEF Skips
  <2>2. \A e \in Events : Queued(e)' => Queued(e)
    BY <2>1, Popped, EventType
  <2>3. SeenInv /\ HeldInv /\ LastInv /\ RunInv
    BY <2>1 DEF OrderInv
  <2>4. \A f : (Held(f)' <=> Held(f)) /\ (Written(f)' <=> Written(f))
    BY <2>1 DEF Held, Written
  <2>5. SeenInv' /\ HeldInv' /\ LastInv'
    BY <2>1, <2>2, <2>3, <2>4 DEF SeenInv, HeldInv, LastInv, Seen, Before, Precedes
  <2>6. RunInv'
    BY <2>1, <2>2, <2>3 DEF RunInv
  <2> QED
    BY <2>5, <2>6
<1>4. ASSUME NEW w \in Kinds, NEW e \in Events, LookUp(w, e)
      PROVE  SeenInv' /\ HeldInv' /\ LastInv' /\ RunInv'
  <2> DEFINE s == e.session
             r == runs[s]
  <2>1. /\ ~overtaken
        /\ \A d \in Events : Queued(d)' /\ d.session = s => Before(e, d)
        /\ \A g \in HeldFrames : Held(g) => g.session # s
        /\ r <= e.turn
    BY <1>4, InTurn
  <2>2. SeenInv /\ HeldInv /\ LastInv /\ RunInv
    BY <2>1 DEF OrderInv
  <2>3. /\ e.kind = w /\ Queued(e) /\ Pops(w)
        /\ \A u \in Sessions \ {s} : runs'[u] = runs[u]
        /\ \/ w = "start" /\ runs'[s] = e.turn
           \/ w = "chunk" /\ runs'[s] = r
           \/ w = "end" /\ runs'[s] = 0
    BY <1>4, LookedUp
  <2>4. \A d \in Events : Queued(d)' => Queued(d)
    BY <2>3, Popped, EventType
  <2>5. /\ \A f \in HeldFrames : Held(f)' =>
               \/ Held(f)
               \/ /\ f.kind = w /\ f.session = s /\ f.turn = e.turn
                  /\ IF w = "start" THEN f.run = e.turn ELSE f.run = r /\ r # 0
        /\ \A f : Written(f)' <=> Written(f)
    <3>1. ASSUME NEW f \in HeldFrames, Held(f)', ~Held(f)
          PROVE  /\ f.kind = w /\ f.session = s /\ f.turn = e.turn
                 /\ IF w = "start" THEN f.run = e.turn ELSE f.run = r /\ r # 0
      <4>1. f.kind = w /\ f.session = s /\ f.turn = e.turn
        BY <1>4, <3>1, LookUpSeen
      <4>2. f \in held'[w]
        BY <3>1, <4>1 DEF Held
      <4>3. /\ w = "start" => f = Frame(e, e.turn)
            /\ w # "start" => f = Frame(e, r) /\ r # 0
        BY <1>4, <4>2, LookedUp
      <4> QED
        BY <4>1, <4>3 DEF Frame
    <3> QED
      BY <1>4, <3>1, LookUpSeen
  <2>6. s \in Sessions /\ e.turn \in Nat \ {0} /\ r \in Nat
    BY <1>1, EventType
  <2>7. ASSUME NEW f \in HeldFrames, f.kind = w, f.turn = e.turn, NEW g
        PROVE  (Before(e, g) <=> Before(f, g)) /\ (Before(g, e) <=> Before(g, f))
    BY <2>3, <2>7 DEF Before
  <2>8. ASSUME NEW g \in HeldFrames, g.session = s, Seen(g)
        PROVE  /\ Before(g, e) /\ g.run <= g.turn /\ g.run \in Nat /\ g.turn \in Nat
               /\ r = 0 \/ g.run < r \/ (g.run = r /\ g.kind # "end")
    BY <2>2, <2>3, <2>8, EventType DEF SeenInv, LastInv
  <2>9. ASSUME NEW g \in HeldFrames, g.session = s, Seen(g), w = "start"
        PROVE  g.run < e.turn
    <3>1. g.turn < e.turn
      BY <2>3, <2>6, <2>8, <2>9, EventType, Places DEF Before
    <3> QED
      BY <2>6, <2>8, <2>9, <3>1
  <2> HIDE DEF s, r
  <2>10. SeenInv'
    <3>1. SUFFICES ASSUME NEW f \in HeldFrames, Seen(f)'
                   PROVE  /\ f.run <= f.turn
                          /\ \A d \in Events : Queued(d)' /\ d.session = f.session => Before(f, d)
      BY DEF SeenInv, Before
    <3>2. CASE Seen(f)
      BY <2>2, <2>4, <3>2 DEF SeenInv
    <3>3. CASE f.kind = w /\ f.session = s /\ f.turn = e.turn /\ f.run \in {e.turn, r}
      <4>1. f.run <= f.turn
        BY <2>1, <2>6, <3>3
      <4> QED
        BY <2>1, <2>7, <3>3, <4>1
    <3> QED
      BY <2>5, <3>1, <3>2, <3>3 DEF Seen
  <2>11. HeldInv'
    <3>1. SUFFICES ASSUME NEW f \in HeldFrames, Held(f)', NEW g \in HeldFrames,
                          g.session = f.session
                   PROVE  (Held(g)' => g.kind = f.kind) /\ (Written(g) => Precedes(g, f))
      BY <2>5 DEF HeldInv, Precedes
    <3>2. CASE Held(f)
      <4>1. f.session # s
        BY <2>1, <3>2
      <4> QED
        BY <2>2, <2>5, <3>1, <3>2, <4>1 DEF HeldInv
    <3>3. CASE /\ f.kind = w /\ f.session = s /\ f.turn = e.turn
               /\ IF w = "start" THEN f.run = e.turn ELSE f.run = r /\ r # 0
      <4>1. Held(g)' => g.kind = w
        BY <2>1, <2>5, <3>1, <3>3
      <4>2. ASSUME Written(g) PROVE Precedes(g, f)
        <5>1. Seen(g) /\ g.session = s
          BY <3>1, <3>3, <4>2 DEF Seen
        <5>2. CASE w = "start"
          <6>1. g.run < f.run
            BY <2>9, <3>3, <5>1, <5>2
          <6> QED
            BY <6>1 DEF Precedes
        <5>3. CASE w # "start"
          <6>1. g.run < f.run \/ (g.run = f.run /\ g.kind # "end")
            BY <2>8, <3>3, <5>1, <5>3
          <6> QED
            BY <3>3, <5>3, <6>1, EventType, Places DEF Precedes
        <5> QED
          BY <5>2, <5>3
      <4> QED
        BY <3>3, <4>1, <4>2
    <3> QED
      BY <2>5, <3>1, <3>2, <3>3
  <2>12. LastInv'
    <3>1. SUFFICES ASSUME NEW f \in HeldFrames, Seen(f)'
                   PROVE  \/ runs'[f.session] = 0
                          \/ f.run < runs'[f.session]
                          \/ f.run = runs'[f.session] /\ f.kind # "end"
      BY DEF LastInv
    <3>2. CASE Seen(f) /\ f.session # s
      BY <2>2, <2>3, <3>2, EventType DEF LastInv
    <3>3. CASE Seen(f) /\ f.session = s
      BY <2>3, <2>8, <2>9, <3>3 DEF r, s
    <3>4. CASE /\ f.kind = w /\ f.session = s
               /\ IF w = "start" THEN f.run = e.turn ELSE f.run = r /\ r # 0
      BY <2>3, <3>4, Places
    <3> QED
      BY <2>5, <3>1, <3>2, <3>3, <3>4 DEF Seen
  <2>13. RunInv'
    <3>1. SUFFICES ASSUME NEW d \in Events, Queued(d)'
                   PROVE  \/ runs'[d.session] = 0
                          \/ runs'[d.session] < d.turn
                          \/ runs'[d.session] = d.turn /\ d.kind # "start"
      BY DEF RunInv
    <3>2. d.session \in Sessions /\ Queued(d)
      BY <2>4, <3>1, EventType
    <3>3. CASE runs'[d.session] = runs[d.session]
      BY <2>2, <3>2, <3>3 DEF RunInv
    <3>4. CASE d.session = s /\ runs'[s] = 0
      BY <3>4
    <3>5. CASE d.session = s /\ w = "start" /\ runs'[s] = e.turn
      <4>1. Before(e, d)
        BY <2>1, <3>1, <3>5
      <4> QED
        BY <2>3, <3>5, <4>1, Places DEF Before
    <3> QED
      BY <2>3, <3>2, <3>3, <3>4, <3>5 DEF r, s
  <2> QED
    BY <2>10, <2>11, <2>12, <2>13
<1>5. ASSUME NEW w \in Kinds, NEW f \in held[w], Post(w, f)
      PROVE  SeenInv' /\ HeldInv' /\ LastInv' /\ RunInv'
  <2>1. /\ UNCHANGED <<queue, runs, overtaken>>
        /\ f \in HeldFrames /\ Held(f) /\ f.kind = w
        /\ \A g \in HeldFrames : Held(g)' => Held(g) /\ g.kind # w
        /\ \A g \in HeldFrames : Written(g)' => Written(g) \/ g = f
    BY <1>5, Posted, PostSeen DEF pastVars
  <2>2. SeenInv /\ HeldInv /\ LastInv /\ RunInv
    BY <2>1 DEF OrderInv
  <2>3. /\ \A e : Queued(e)' <=> Queued(e)
        /\ \A g \in HeldFrames : Seen(g)' => Seen(g)
    BY <2>1 DEF Queued, Seen
  <2>4. SeenInv' /\ LastInv'
    BY <2>1, <2>2, <2>3 DEF SeenInv, LastInv, Before
  <2>5. HeldInv'
    BY <2>1, <2>2 DEF HeldInv, Precedes
  <2>6. RunInv'
    BY <2>1, <2>2, <2>3 DEF RunInv
  <2> QED
    BY <2>4, <2>5, <2>6
<1>6. CASE Flips
  <2>1. SeenInv /\ HeldInv /\ LastInv /\ RunInv
    BY <1>6 DEF OrderInv, Flips, pastVars
  <2>2. \A e : (Queued(e)' <=> Queued(e)) /\ (Held(e)' <=> Held(e)) /\ (Written(e)' <=> Written(e))
    BY <1>6 DEF Flips, Queued, Held, Written
  <2>3. SeenInv' /\ HeldInv' /\ LastInv' /\ RunInv'
    BY <1>6, <2>1, <2>2 DEF SeenInv, HeldInv, LastInv, RunInv, Seen, Before, Precedes, Flips
  <2> QED
    BY <2>3
<1> QED
  BY <1>2, <1>3, <1>4, <1>5, <1>6, StepKinds

-----------------------------------------------------------------------------
(* As long as no end is lost either, every frame has the run of its turn,  *)
(* and the end of a run is to come.                                        *)
LEMMA StepKept ==
    ASSUME TypeOK, QueueInv, TurnInv, OrderInv, KeptInv, [Next]_vars PROVE KeptInv'
<1> SUFFICES ASSUME ~overtaken', ~endLost' PROVE OwnInv' /\ EndInv'
  BY DEF KeptInv
<1>1. ASSUME NEW s, NEW t
      PROVE  End(s, t).kind = "end" /\ End(s, t).session = s /\ End(s, t).turn = t
  BY DEF End
<1>2. ASSUME NEW s \in Sessions, Begins(s) \/ Goes(s) \/ Finishes(s) PROVE OwnInv' /\ EndInv'
  <2>1. PICK x \in Events :
            /\ x.session = s
            /\ \/ x.kind = "start" /\ Begins(s) /\ x.turn = turn[s] + 1
               \/ x.kind = "chunk" /\ Goes(s)
               \/ x.kind = "end" /\ Finishes(s) /\ x = End(s, turn[s])
            /\ \A e : e.kind \in Kinds /\ Queued(e)' => Queued(e) \/ e = x
            /\ \A e : e.kind \in Kinds /\ Queued(e) => Queued(e)'
            /\ Queued(x)'
            /\ \A f : (Held(f)' <=> Held(f)) /\ (Written(f)' <=> Written(f))
            /\ UNCHANGED <<connected, runs, overtaken, endLost>>
    BY <1>2, HostEvent
  <2>2. OwnInv /\ EndInv
    BY <2>1 DEF KeptInv
  <2>3. OwnInv'
    BY <2>1, <2>2 DEF OwnInv, Seen
  <2>4. ASSUME NEW u \in Sessions, NEW v \in 1..TurnBound, Ends(u, v) PROVE Ends(u, v)'
    <3>1. CASE Queued(End(u, v))
      BY <1>1, <2>1, <3>1, Places DEF Ends
    <3>2. CASE streaming[u] /\ turn[u] = v /\ u # s
      BY <1>2, <3>2 DEF Ends, Begins, Goes, Finishes, TypeOK
    <3>3. CASE streaming[u] /\ turn[u] = v /\ u = s
      <4>1. CASE Goes(s)
        BY <3>3, <4>1 DEF Ends, Goes
      <4>2. CASE x = End(s, turn[s])
        BY <2>1, <3>3, <4>2 DEF Ends
      <4>3. CASE Begins(s)
        BY <3>3, <4>3 DEF Begins
      <4> QED
        BY <2>1, <4>1, <4>2, <4>3
    <3> QED
      BY <2>4, <3>1, <3>2, <3>3 DEF Ends
  <2>5. ASSUME connected, NEW e \in Events, Queued(e)', e.kind = "start"
        PROVE  Ends(e.session, e.turn)'
    <3>1. e.session \in Sessions /\ e.turn \in 1..TurnBound
      BY EventType
    <3>2. CASE Queued(e)
      BY <2>2, <2>4, <2>5, <3>1, <3>2 DEF EndInv
    <3>3. CASE e = x
      <4>1. Begins(s) /\ e.session = s /\ e.turn = turn[s] + 1
        BY <1>1, <2>1, <2>5, <3>3
      <4>2. streaming'[s] /\ turn'[s] = turn[s] + 1
        BY <4>1 DEF Begins, TypeOK
      <4> QED
        BY <4>1, <4>2 DEF Ends
    <3> QED
      BY <2>1, <2>5, <3>2, <3>3, EventType
  <2>6. EndInv'
    BY <2>1, <2>2, <2>4, <2>5 DEF EndInv
  <2> QED
    BY <2>3, <2>6
<1>3. ASSUME NEW w \in Kinds, Skips(w) PROVE OwnInv' /\ EndInv'
  <2>1. /\ Pops(w) /\ (~connected \/ w # "end") /\ ~endLost
        /\ UNCHANGED <<hostVars, held, connected, runs, wire, overtaken>>
    BY <1>3 DEF Skips
  <2>2. /\ \A e \in Events : Queued(e)' => Queued(e)
        /\ \A e : Queued(e) /\ e.kind \in Kinds => Queued(e)' \/ e.kind = w
    BY <2>1, Popped, EventType
  <2>3. OwnInv /\ EndInv
    BY <2>1 DEF KeptInv
  <2>4. OwnInv'
    BY <2>1, <2>3 DEF OwnInv, Seen, Held, Written
  <2>5. ASSUME NEW u, NEW v, w # "end", Ends(u, v) PROVE Ends(u, v)'
    <3>1. CASE Queued(End(u, v))
      BY <1>1, <2>2, <2>5, <3>1, Places DEF Ends
    <3>2. CASE streaming[u] /\ turn[u] = v
      BY <2>1, <3>2 DEF Ends, hostVars
    <3> QED
      BY <2>5, <3>1, <3>2 DEF Ends
  <2>6. EndInv'
    BY <2>1, <2>2, <2>3, <2>5 DEF EndInv
  <2> QED
    BY <2>4, <2>6
<1>4. ASSUME NEW w \in Kinds, NEW e \in Events, LookUp(w, e) PROVE OwnInv' /\ EndInv'
  <2> DEFINE s == e.session
  <2>1. ~overtaken /\ \A d \in Events : Queued(d) => ~Earlier(d, e)
    BY <1>4, InTurn
  <2>2. /\ e.kind = w /\ Queued(e) /\ Pops(w)
        /\ connected /\ connected' = connected /\ endLost' = endLost
        /\ UNCHANGED hostVars
        /\ \A u \in Sessions \ {s} : runs'[u] = runs[u]
        /\ \/ w = "start" /\ runs'[s] = e.turn
           \/ w = "chunk" /\ runs'[s] = runs[s]
           \/ w = "end" /\ runs'[s] = 0
    BY <1>4, LookedUp
  <2>3. w # "start" /\ runs[s] # 0 => runs[s] = e.turn
    BY <1>4, <2>2, OwnRun
  <2>4. OwnInv /\ EndInv
    BY <2>1, <2>2 DEF KeptInv
  <2>5. /\ \A d \in Events : Queued(d)' => Queued(d)
        /\ \A d : Queued(d) /\ d.kind \in Kinds => Queued(d)' \/ d = e
    <3>1. e = Head(queue[w])
      BY <1>4, LookedUp
    <3> QED
      BY <2>2, <3>1, Popped, EventType
  <2>6. OwnInv'
    <3>1. SUFFICES ASSUME NEW f \in HeldFrames, Seen(f)', ~Seen(f) PROVE f.run = f.turn
      BY <2>4 DEF OwnInv
    <3>2. /\ f.turn = e.turn
          /\ f.run = e.turn \/ (f.run = runs[s] /\ w # "start")
      BY <1>4, <3>1, LookUpSeen DEF Seen
    <3> QED
      BY <2>3, <3>2, EventType
  <2>7. s \in Sessions /\ e.turn \in 1..TurnBound /\ e.turn # 0
    BY EventType
  <2> HIDE DEF s
  <2>8. ASSUME NEW u \in Sessions, NEW t \in 1..TurnBound, Ends(u, t), e # End(u, t)
        PROVE  Ends(u, t)'
    <3>1. CASE Queued(End(u, t))
      BY <1>1, <2>5, <2>8, <3>1, Places DEF Ends
    <3>2. CASE streaming[u] /\ turn[u] = t
      BY <2>2, <3>2 DEF Ends, hostVars
    <3> QED
      BY <2>8, <3>1, <3>2 DEF Ends
  <2>9. ASSUME NEW u \in Sessions, NEW t \in 1..TurnBound, runs'[u] = t PROVE Ends(u, t)'
    <3>1. CASE u # s
      <4>1. Ends(u, t) /\ e # End(u, t)
        BY <1>1, <2>2, <2>4, <2>9, <3>1 DEF EndInv, s
      <4> QED
        BY <2>8, <4>1
    <3>2. CASE u = s /\ w # "end"
      <4>1. Ends(u, t)
        <5>1. CASE w = "start" /\ t = e.turn
          BY <2>2, <2>4, <2>7, <3>2, <5>1 DEF EndInv, s
        <5>2. CASE runs[u] = t
          BY <2>2, <2>4, <5>2 DEF EndInv
        <5> QED
          BY <2>2, <2>9, <3>2, <5>1, <5>2
      <4>2. e # End(u, t)
        BY <1>1, <2>2, <3>2
      <4> QED
        BY <2>8, <4>1, <4>2
    <3>3. CASE u = s /\ w = "end"
      <4>1. runs'[u] = 0 /\ t # 0
        BY <2>2, <3>3, Places
      <4> QED
        BY <2>9, <4>1
    <3> QED
      BY <3>1, <3>2, <3>3
  <2>10. ASSUME NEW d \in Events, Queued(d)', d.kind = "start"
         PROVE  Ends(d.session, d.turn)'
    <3>1. d.session \in Sessions /\ d.turn \in 1..TurnBound /\ Queued(d)
      BY <2>5, <2>10, EventType
    <3>2. Ends(d.session, d.turn)
      BY <2>2, <2>4, <2>10, <3>1 DEF EndInv
    <3>3. e # End(d.session, d.turn)
      <4>1. SUFFICES ASSUME e = End(d.session, d.turn) PROVE FALSE
        OBVIOUS
      <4>2. Earlier(d, e)
        BY <1>1, <2>10, <4>1, Places DEF Earlier
      <4> QED
        BY <2>1, <3>1, <4>2
    <3> QED
      BY <2>8, <3>1, <3>2, <3>3
  <2>11. EndInv'
    BY <2>9, <2>10 DEF EndInv
  <2> QED
    BY <2>6, <2>11
<1>5. ASSUME NEW w \in Kinds, NEW f \in held[w], Post(w, f) PROVE OwnInv' /\ EndInv'
  <2>1. /\ UNCHANGED <<hostVars, queue, connected, runs, overtaken, endLost>>
        /\ Held(f)
        /\ \A g \in HeldFrames : Held(g)' => Held(g)
        /\ \A g \in HeldFrames : Written(g)' => Written(g) \/ g = f
    BY <1>5, Posted, PostSeen DEF pastVars
  <2>2. OwnInv /\ EndInv
    BY <2>1 DEF KeptInv
  <2>3. OwnInv'
    BY <2>1, <2>2 DEF OwnInv, Seen
  <2>4. \A e : Queued(e)' <=> Queued(e)
    BY <2>1 DEF Queued
  <2>5. EndInv'
    BY <2>1, <2>2, <2>4 DEF EndInv, Ends, hostVars
  <2> QED
    BY <2>3, <2>5
<1>6. CASE Flips
  <2>1. OwnInv /\ EndInv
    BY <1>6 DEF KeptInv, Flips, pastVars
  <2>2. \A e : (Queued(e)' <=> Queued(e)) /\ (Held(e)' <=> Held(e)) /\ (Written(e)' <=> Written(e))
    BY <1>6 DEF Flips, Queued, Held, Written
  <2>3. OwnInv'
    BY <2>1, <2>2 DEF OwnInv, Seen
  <2>4. EndInv'
    BY <1>6, <2>1, <2>2 DEF EndInv, Ends, Flips, hostVars
  <2> QED
    BY <2>3, <2>4
<1> QED
  BY <1>2, <1>3, <1>4, <1>5, <1>6, StepKinds

(* The frames of a session are written in order. *)
LEMMA StepOrdered ==
    ASSUME TypeOK, QueueInv, TurnInv, OrderInv, KeptInv, Ordered, [Next]_vars PROVE Ordered'
<1>1. ASSUME wire' = wire, overtaken => overtaken', endLost => endLost' PROVE Ordered'
  BY <1>1 DEF Ordered, Precedes
<1>2. ASSUME NEW w \in Kinds, NEW f \in held[w], Post(w, f) PROVE Ordered'
  <2>1. /\ f \in HeldFrames /\ f.kind = w /\ f.session \in Sessions /\ Held(f)
        /\ \A s \in Sessions : \A i \in 1..Len(wire'[s]) :
               \/ i \in 1..Len(wire[s]) /\ wire'[s][i] = wire[s][i]
               \/ s = f.session /\ wire'[s][i] = f /\ i = Len(wire[s]) + 1
        /\ overtaken' = overtaken /\ endLost' = endLost
    BY <1>2, Posted DEF pastVars
  <2>2. SUFFICES ASSUME ~overtaken, NEW s \in Sessions
                 PROVE  /\ \A i, j \in 1..Len(wire'[s]) :
                               i < j => Precedes(wire'[s][i], wire'[s][j])
                        /\ ~endLost =>
                               \A i \in 1..Len(wire'[s]) : wire'[s][i].run = wire'[s][i].turn
    BY <2>1 DEF Ordered, Precedes
  <2>3. HeldInv
    BY <2>2 DEF OrderInv
  <2>4. ASSUME NEW i \in 1..Len(wire'[s]), NEW j \in 1..Len(wire'[s]), i < j
        PROVE  Precedes(wire'[s][i], wire'[s][j])
    <3>1. Len(wire[s]) \in Nat /\ wire[s] \in Seq(HeldFrames)
      BY LenProperties DEF TypeOK
    <3>2. i \in 1..Len(wire[s]) /\ wire'[s][i] = wire[s][i]
      BY <2>1, <2>4, <3>1
    <3>3. CASE j \in 1..Len(wire[s]) /\ wire'[s][j] = wire[s][j]
      BY <2>2, <2>4, <3>2, <3>3 DEF Ordered
    <3>4. CASE s = f.session /\ wire'[s][j] = f
      <4> DEFINE g == wire[s][i]
      <4>1. g \in HeldFrames /\ g.session = s
        BY <3>1, <3>2, ElementOfSeq DEF QueueInv
      <4>2. Written(g)
        BY <3>2, <4>1 DEF Written
      <4>3. Precedes(g, f)
        BY <2>1, <2>3, <3>4, <4>1, <4>2 DEF HeldInv
      <4> QED
        BY <3>2, <3>4, <4>3
    <3> QED
      BY <2>1, <3>3, <3>4
  <2>5. ASSUME ~endLost, NEW i \in 1..Len(wire'[s]) PROVE wire'[s][i].run = wire'[s][i].turn
    <3>1. f.run = f.turn
      BY <2>1, <2>2, <2>5 DEF KeptInv, OwnInv, Seen
    <3> QED
      BY <2>1, <2>2, <2>5, <3>1 DEF Ordered
  <2> QED
    BY <2>4, <2>5
<1>3. ASSUME NEW s \in Sessions, Begins(s) \/ Goes(s) \/ Finishes(s) PROVE Ordered'
  BY <1>1, <1>3 DEF Begins, Goes, Finishes, HostStep, pastVars
<1>4. ASSUME NEW w \in Kinds, Skips(w) PROVE Ordered'
  BY <1>1, <1>4 DEF Skips
<1>5. ASSUME NEW w \in Kinds, NEW e \in Events, LookUp(w, e) PROVE Ordered'
  BY <1>1, <1>5, LookedUp
<1>6. CASE Flips
  BY <1>1, <1>6 DEF Flips, pastVars
<1> QED
  BY <1>2, <1>3, <1>4, <1>5, <1>6, StepKinds

-----------------------------------------------------------------------------
(* A run that an end frame carries is spent. *)
LEMMA StepOnce ==
    ASSUME TypeOK, QueueInv, TurnInv, OnceInv, [Next]_vars PROVE OnceInv'
<1>1. \A s \in Sessions : turn[s] \in Nat /\ runs[s] \in Nat /\ runs[s] <= turn[s]
  BY BoundAssumption DEF TypeOK, TurnInv
<1>2. \A f \in HeldFrames : f.session \in Sessions /\ f.run \in Nat \ {0}
  BY EventType
<1>3. ASSUME NEW s \in Sessions, Begins(s) \/ Goes(s) \/ Finishes(s) PROVE OnceInv'
  <2>1. PICK x \in Events :
            /\ x.session = s
            /\ x.kind = "start" => x.turn = turn[s] + 1
            /\ \A e : e.kind \in Kinds /\ Queued(e)' => Queued(e) \/ e = x
            /\ \A f : (Held(f)' <=> Held(f)) /\ (Written(f)' <=> Written(f))
            /\ runs' = runs
    BY <1>3, HostEvent
  <2>2. \A u \in Sessions : turn'[u] \in Nat /\ turn[u] <= turn'[u]
    <3>1. turn' = turn \/ turn' = [turn EXCEPT ![s] = turn[s] + 1]
      BY <1>3 DEF Begins, Goes, Finishes
    <3>2. turn \in [Sessions -> 0..TurnBound]
      BY DEF TypeOK
    <3> QED
      BY <1>1, <3>1, <3>2
  <2>3. ASSUME NEW f \in HeldFrames, Seen(f), f.kind = "end"
        PROVE  /\ f.run <= turn[f.session] /\ f.run <= turn'[f.session]
               /\ f.run # runs[f.session]
               /\ \A e \in Events : Queued(e)' /\ e.kind = "start" /\ e.session = f.session =>
                      e.turn # f.run
    <3>1. /\ f.run <= turn[f.session] /\ f.run # runs[f.session]
          /\ \A e \in Events : Queued(e) /\ e.kind = "start" /\ e.session = f.session =>
                 e.turn # f.run
      BY <2>3 DEF OnceInv, SpentInv
    <3>2. f.run <= turn'[f.session]
      BY <1>1, <1>2, <2>2, <3>1
    <3>3. ASSUME NEW e \in Events, Queued(e)', e.kind = "start", e.session = f.session
          PROVE  e.turn # f.run
      <4>1. CASE Queued(e)
        BY <3>1, <3>3, <4>1
      <4>2. CASE e = x
        BY <1>1, <1>2, <2>1, <3>1, <3>3, <4>2
      <4> QED
        BY <2>1, <3>3, <4>1, <4>2, EventType
    <3> QED
      BY <3>1, <3>2, <3>3
  <2>4. SpentInv'
    BY <2>1, <2>3 DEF SpentInv, Seen
  <2>5. ASSUME NEW e \in Events, Queued(e)', e.kind = "start" PROVE runs[e.session] # e.turn
    <3>1. CASE Queued(e)
      BY <2>5, <3>1 DEF OnceInv
    <3>2. CASE e = x
      BY <1>1, <2>1, <2>5, <3>2
    <3> QED
      BY <2>1, <2>5, <3>1, <3>2, EventType
  <2> QED
    BY <2>1, <2>4, <2>5 DEF OnceInv
<1>4. ASSUME NEW w \in Kinds, Skips(w) PROVE OnceInv'
  <2>1. Pops(w) /\ UNCHANGED <<hostVars, held, runs, wire>>
    BY <1>4 DEF Skips
  <2>2. \A e \in Events : Queued(e)' => Queued(e)
    BY <2>1, Popped, EventType
  <2>3. \A f : (Held(f)' <=> Held(f)) /\ (Written(f)' <=> Written(f))
    BY <2>1 DEF Held, Written
  <2>4. SpentInv'
    BY <2>1, <2>2, <2>3 DEF OnceInv, SpentInv, Seen, hostVars
  <2> QED
    BY <2>1, <2>2, <2>3, <2>4 DEF OnceInv
<1>5. ASSUME NEW w \in Kinds, NEW e \in Events, LookUp(w, e) PROVE OnceInv'
  <2> DEFINE s == e.session
             r == runs[s]
  <2>1. /\ e.kind = w /\ Queued(e) /\ Pops(w) /\ e = Head(queue[w])
        /\ turn' = turn
        /\ \A u \in Sessions \ {s} : runs'[u] = runs[u]
        /\ \/ w = "start" /\ runs'[s] = e.turn
           \/ w = "chunk" /\ runs'[s] = r
           \/ w = "end" /\ runs'[s] = 0
    BY <1>5, LookedUp DEF hostVars
  <2>2. /\ \A d \in Events : Queued(d)' => Queued(d)
        /\ \A d \in Events : Queued(d)' /\ d.kind = w /\ d.session = s => Before(e, d)
    BY <2>1, Popped, EventType
  <2>3. s \in Sessions /\ e.turn \in Nat \ {0} /\ \A d \in Events : d.turn \in Nat
    BY EventType
  <2>4. \A d \in Events : Queued(d) /\ d.kind = "start" => runs[d.session] # d.turn
    BY DEF OnceInv
  <2>5. ASSUME NEW f \in HeldFrames, Held(f)', ~Held(f), f.kind = "end"
        PROVE  w = "end" /\ f.session = s /\ f.run = r
    <3>1. f.kind = w /\ f.session = s
      BY <1>5, <2>5, LookUpSeen
    <3>2. f \in held'[w]
      BY <2>5, <3>1 DEF Held
    <3>3. f = Frame(e, r)
      BY <1>5, <2>5, <3>1, <3>2, LookedUp, Places
    <3> QED
      BY <2>5, <3>1, <3>3 DEF Frame
  <2>6. \A f : Written(f)' <=> Written(f)
    BY <1>5, LookUpSeen
  <2>7. \A d \in Events : Queued(d)' /\ d.kind = "start" /\ d.session = s /\ w = "start" =>
            d.turn # e.turn
    BY <2>1, <2>2, <2>3, Places DEF Before
  <2> HIDE DEF s, r
  <2>8. ASSUME NEW f \in HeldFrames, Seen(f)', f.kind = "end"
        PROVE  /\ f.run <= turn[f.session]
               /\ f.run # runs'[f.session]
               /\ \A d \in Events : Queued(d)' /\ d.kind = "start" /\ d.session = f.session =>
                      d.turn # f.run
    <3>1. CASE Seen(f)
      <4>1. /\ f.run <= turn[f.session] /\ f.run # runs[f.session]
            /\ \A d \in Events : Queued(d) /\ d.kind = "start" /\ d.session = f.session =>
                   d.turn # f.run
        BY <2>8, <3>1 DEF OnceInv, SpentInv
      <4>2. f.run # runs'[f.session]
        <5>1. CASE f.session # s
          BY <1>2, <2>1, <4>1, <5>1
        <5>2. CASE f.session = s /\ w = "start"
          BY <2>1, <4>1, <5>2, Places DEF s
        <5>3. CASE f.session = s /\ w # "start"
          BY <1>2, <2>1, <4>1, <5>3 DEF r, s
        <5> QED
          BY <5>1, <5>2, <5>3
      <4> QED
        BY <2>2, <4>1, <4>2
    <3>2. CASE w = "end" /\ f.session = s /\ f.run = r
      <4>1. f.run <= turn[f.session] /\ f.run # runs'[f.session]
        BY <1>1, <1>2, <2>1, <2>3, <3>2, Places DEF r
      <4>2. \A d \in Events : Queued(d)' /\ d.kind = "start" /\ d.session = s => d.turn # r
        BY <2>2, <2>4 DEF r
      <4> QED
        BY <3>2, <4>1, <4>2
    <3> QED
      BY <2>5, <2>6, <2>8, <3>1, <3>2 DEF Seen
  <2>9. SpentInv'
    BY <2>1, <2>8 DEF SpentInv
  <2>10. ASSUME NEW d \in Events, Queued(d)', d.kind = "start" PROVE runs'[d.session] # d.turn
    <3>1. runs[d.session] # d.turn /\ d.session \in Sessions
      BY <2>2, <2>4, <2>10, EventType
    <3>2. CASE d.session # s \/ w = "chunk"
      BY <2>1, <3>1, <3>2, Places DEF r, s
    <3>3. CASE d.session = s /\ w = "start"
      BY <2>1, <2>7, <2>10, <3>3, Places
    <3>4. CASE d.session = s /\ w = "end"
      BY <2>1, <3>4, EventType, Places
    <3> QED
      BY <2>1, <3>2, <3>3, <3>4
  <2>11. ASSUME NEW f \in HeldFrames, NEW g \in HeldFrames, Held(f)', Written(g),
                f.kind = "end", g.kind = "end", f.session = g.session
         PROVE  f.run # g.run
    <3>1. CASE Held(f)
      BY <2>11, <3>1 DEF OnceInv
    <3>2. CASE f.session = s /\ f.run = r
      <4>1. g.run # runs[g.session]
        BY <2>11 DEF OnceInv, SpentInv, Seen
      <4> QED
        BY <2>11, <3>2, <4>1 DEF r
    <3> QED
      BY <2>5, <2>11, <3>1, <3>2
  <2> QED
    BY <2>6, <2>9, <2>10, <2>11 DEF OnceInv
<1>6. ASSUME NEW w \in Kinds, NEW f \in held[w], Post(w, f) PROVE OnceInv'
  <2>1. /\ UNCHANGED <<turn, queue, runs>>
        /\ f \in HeldFrames /\ Held(f) /\ f.kind = w
        /\ \A g \in HeldFrames : Held(g)' => Held(g) /\ g.kind # w
        /\ \A g \in HeldFrames : Written(g)' => Written(g) \/ g = f
    BY <1>6, Posted, PostSeen DEF hostVars
  <2>2. /\ \A e : Queued(e)' <=> Queued(e)
        /\ \A g \in HeldFrames : Seen(g)' => Seen(g)
    BY <2>1 DEF Queued, Seen
  <2>3. SpentInv'
    BY <2>1, <2>2 DEF OnceInv, SpentInv
  <2>4. ASSUME NEW g \in HeldFrames, NEW h \in HeldFrames, Held(g)', Written(h)',
               g.kind = "end", h.kind = "end", g.session = h.session
        PROVE  g.run # h.run
    <3>1. Held(g) /\ w # "end" /\ Written(h)
      BY <2>1, <2>4
    <3> QED
      BY <2>4, <3>1 DEF OnceInv
  <2> QED
    BY <2>1, <2>2, <2>3, <2>4 DEF OnceInv
<1>7. CASE Flips
  <2>1. \A e : (Queued(e)' <=> Queued(e)) /\ (Held(e)' <=> Held(e)) /\ (Written(e)' <=> Written(e))
    BY <1>7 DEF Flips, Queued, Held, Written
  <2>2. runs' = runs /\ turn' = turn
    BY <1>7 DEF Flips, hostVars
  <2>3. SpentInv'
    BY <2>1, <2>2 DEF OnceInv, SpentInv, Seen
  <2> QED
    BY <2>1, <2>2, <2>3 DEF OnceInv
<1> QED
  BY <1>3, <1>4, <1>5, <1>6, <1>7, StepKinds

(* No run is ended twice. *)
LEMMA StepEndsOnce ==
    ASSUME TypeOK, QueueInv, TurnInv, OnceInv, EndsOnce, [Next]_vars PROVE EndsOnce'
<1>1. ASSUME wire' = wire PROVE EndsOnce'
  BY <1>1 DEF EndsOnce
<1>2. ASSUME NEW w \in Kinds, NEW f \in held[w], Post(w, f) PROVE EndsOnce'
  <2>1. /\ f \in HeldFrames /\ Held(f)
        /\ \A s \in Sessions : \A i \in 1..Len(wire'[s]) :
               \/ i \in 1..Len(wire[s]) /\ wire'[s][i] = wire[s][i]
               \/ s = f.session /\ wire'[s][i] = f /\ i = Len(wire[s]) + 1
    BY <1>2, Posted
  <2>2. SUFFICES ASSUME NEW s \in Sessions,
                        NEW i \in 1..Len(wire'[s]), NEW j \in 1..Len(wire'[s]), i < j,
                        wire'[s][i].kind = "end", wire'[s][j].kind = "end"
                 PROVE  wire'[s][i].run # wire'[s][j].run
    BY DEF EndsOnce
  <2>3. Len(wire[s]) \in Nat /\ wire[s] \in Seq(HeldFrames)
    BY LenProperties DEF TypeOK
  <2>4. i \in 1..Len(wire[s]) /\ wire'[s][i] = wire[s][i]
    BY <2>1, <2>2, <2>3
  <2>5. CASE j \in 1..Len(wire[s]) /\ wire'[s][j] = wire[s][j]
    BY <2>2, <2>4, <2>5 DEF EndsOnce
  <2>6. CASE s = f.session /\ wire'[s][j] = f
    <3> DEFINE g == wire[s][i]
    <3>1. g \in HeldFrames /\ g.session = s
      BY <2>3, <2>4, ElementOfSeq DEF QueueInv
    <3>2. Written(g)
      BY <2>4, <3>1 DEF Written
    <3>3. f.run # g.run
      BY <2>1, <2>2, <2>4, <2>6, <3>1, <3>2 DEF OnceInv
    <3> QED
      BY <2>4, <2>6, <3>3
  <2> QED
    BY <2>1, <2>5, <2>6
<1>3. ASSUME NEW s \in Sessions, Begins(s) \/ Goes(s) \/ Finishes(s) PROVE EndsOnce'
  BY <1>1, <1>3 DEF Begins, Goes, Finishes, HostStep
<1>4. ASSUME NEW w \in Kinds, Skips(w) PROVE EndsOnce'
  BY <1>1, <1>4 DEF Skips
<1>5. ASSUME NEW w \in Kinds, NEW e \in Events, LookUp(w, e) PROVE EndsOnce'
  BY <1>1, <1>5, LookedUp
<1>6. CASE Flips
  BY <1>1, <1>6 DEF Flips
<1> QED
  BY <1>2, <1>3, <1>4, <1>5, <1>6, StepKinds

-----------------------------------------------------------------------------
(* The theorems *)

LEMMA InitInv == ASSUME Init PROVE IInv
<1> USE DEF Init
<1>1. TypeOK
  <2>1. 0 \in 0..TurnBound /\ 0 \in 0..DeltaBound
    BY BoundAssumption
  <2>2. queue \in [Kinds -> Seq(Events)] /\ wire \in [Sessions -> Seq(HeldFrames)]
    BY EmptySeq
  <2>3. /\ turn \in [Sessions -> 0..TurnBound] /\ runs \in [Sessions -> 0..TurnBound]
        /\ deltas \in [Sessions -> 0..DeltaBound]
    BY <2>1
  <2>4. streaming \in [Sessions -> BOOLEAN] /\ held \in [Kinds -> SUBSET HeldFrames]
    OBVIOUS
  <2> QED
    BY <2>2, <2>3, <2>4 DEF TypeOK
<1>2. \A w \in Kinds : Len(queue[w]) = 0 /\ held[w] = {}
  OBVIOUS
<1>3. \A s \in Sessions : Len(wire[s]) = 0 /\ runs[s] = 0 /\ turn[s] = 0 /\ ~streaming[s]
  OBVIOUS
<1>4. 1..0 = {}
  OBVIOUS
<1>5. \A e \in Events : ~Queued(e)
  BY <1>2, <1>4, EventType DEF Queued
<1>6. \A f \in HeldFrames : ~Seen(f) /\ ~Held(f)
  BY <1>2, <1>3, <1>4, EventType DEF Seen, Held, Written
<1>7. QueueInv /\ Ordered /\ EndsOnce
  BY <1>2, <1>3, <1>4 DEF QueueInv, Ordered, EndsOnce
<1>8. TurnInv
  BY <1>3, <1>5, <1>6 DEF TurnInv
<1>9. SeenInv /\ HeldInv /\ LastInv /\ RunInv /\ OwnInv /\ OnceInv
  BY <1>5, <1>6 DEF SeenInv, HeldInv, LastInv, RunInv, OwnInv, OnceInv, SpentInv
<1>10. \A t \in 1..TurnBound : t # 0
  OBVIOUS
<1>11. EndInv
  BY <1>3, <1>5, <1>10 DEF EndInv
<1> QED
  BY <1>1, <1>7, <1>8, <1>9, <1>11 DEF IInv, OrderInv, KeptInv

(* The hooks keep their inductive invariant: workers have their own events *)
(* in order; as long as none overtakes another, what was looked up comes   *)
(* before what was not, one frame at a time; if no end is lost either, a   *)
(* run is there only while the end of its turn is to come; and whatever    *)
(* happens, a run that was ended never comes back (_on_stream_start,       *)
(* _on_stream_delta, _on_stream_end).                                      *)
THEOREM StreamHooksCorrect == Spec => []IInv
<1>1. IInv /\ [Next]_vars => IInv'
  <2> SUFFICES ASSUME IInv, [Next]_vars PROVE IInv'
    OBVIOUS
  <2>1. TypeOK' /\ QueueInv' /\ TurnInv'
    BY StepTypes, StepQueue, StepTurn DEF IInv
  <2>2. OrderInv' /\ KeptInv' /\ Ordered'
    BY StepOrder, StepKept, StepOrdered DEF IInv
  <2>3. OnceInv' /\ EndsOnce'
    BY StepOnce, StepEndsOnce DEF IInv
  <2> QED
    BY <2>1, <2>2, <2>3 DEF IInv
<1> QED
  BY <1>1, InitInv, PTL DEF Spec

(* As long as no worker overtakes another, frames are written as start,    *)
(* chunk*, end, run after run, whatever full queues lose, a start hook     *)
(* that raises or a closed socket; and each under the run of its own turn  *)
(* if no end is lost: for any number of sessions, turns and deltas.        *)
THEOREM OrderedCorrect == Spec => []Ordered
<1>1. IInv => Ordered
  BY DEF IInv
<1> QED
  BY <1>1, StreamHooksCorrect, PTL

(* No run is ended twice, however the workers overtake each other and      *)
(* whatever is lost (_on_stream_end 747).                                  *)
THEOREM EndsOnceCorrect == Spec => []EndsOnce
<1>1. IInv => EndsOnce
  BY DEF IInv
<1> QED
  BY <1>1, StreamHooksCorrect, PTL

(* If so, and with an adapter, no run is left in _stream_runs once all      *)
(* events are handled.                                                     *)
THEOREM NoStaleRunCorrect == Spec => []NoStaleRun
<1>1. ASSUME IInv PROVE NoStaleRun
  <2>1. SUFFICES ASSUME connected, ~overtaken, ~endLost,
                        \A w \in Kinds : queue[w] = <<>>,
                        NEW s \in Sessions, runs[s] # 0
                 PROVE  streaming[s]
    BY DEF NoStaleRun
  <2>2. runs[s] \in 1..TurnBound
    BY <1>1, <2>1, BoundAssumption DEF IInv, TypeOK
  <2>3. Ends(s, runs[s])
    BY <1>1, <2>1, <2>2 DEF IInv, KeptInv, EndInv
  <2>4. Len(queue["end"]) = 0 /\ 1..0 = {}
    BY <2>1, Places
  <2>5. ~Queued(End(s, runs[s]))
    BY <2>4 DEF Queued, End
  <2> QED
    BY <2>3, <2>5 DEF Ends
<1> QED
  BY <1>1, StreamHooksCorrect, PTL
=============================================================================
