----------------------------- MODULE StreamHooks -----------------------------
(***************************************************************************)
(* The stream hooks (adapter.py: _on_stream_start, _on_stream_delta,       *)
(* _on_stream_end).  Hermes queues the events of a turn, in bounded queues *)
(* with one worker thread per callback; each hook looks its run up in the  *)
(* dict _stream_runs and posts a frame on the client's event loop, which   *)
(* writes the frames in the order they were posted.  A hook is two steps,  *)
(* the look-up and the post: another worker may run in between.            *)
(*                                                                         *)
(* A run is named by the number of the turn whose start registered it.     *)
(* Deltas of text and of reasoning are alike.                              *)
(***************************************************************************)
EXTENDS Naturals, Sequences

CONSTANTS
    Sessions,    \* Hermes sessions that belong to BotsChat
    TurnBound,   \* bound on the turns of a session
    DeltaBound   \* bound on the deltas of a turn

ASSUME BoundAssumption == TurnBound \in Nat /\ DeltaBound \in Nat

VARIABLES
    \* Hermes
    turn,       \* session |-> number of turns it began
    deltas,     \* session |-> deltas of its current turn, when streaming
    streaming,  \* session |-> is a turn streaming?
    queue,      \* worker |-> events that wait for it
    held,       \* worker |-> frames it has looked up and not posted
    \* the adapter
    connected,  \* is there an active adapter?
    runs,       \* _stream_runs, 0 for no entry
    open,       \* is the socket open?
    wire,       \* session |-> frames written, oldest first
    \* the past
    overtaken,  \* did a worker ever overtake another on a session?
    endLost     \* did Hermes ever lose the end of a turn?

hostVars == <<turn, deltas, streaming>>
pastVars == <<overtaken, endLost>>
vars == <<hostVars, queue, held, connected, runs, open, wire, pastVars>>

(* The kinds of event, each with a worker of its own. *)
Kinds == {"start", "chunk", "end"}

Events == [kind : Kinds, session : Sessions, turn : 1..TurnBound]

Place == [start |-> 1, chunk |-> 2, end |-> 3]

(* Event or frame f of a session comes from before e. *)
Earlier(f, e) ==
    /\ f.session = e.session
    /\ \/ f.turn < e.turn
       \/ f.turn = e.turn /\ Place[f.kind] < Place[e.kind]

(* The frame an event turns into, with the run it was looked up under. *)
Frame(e, run) == [kind |-> e.kind, session |-> e.session, turn |-> e.turn,
                  run |-> run]
HeldFrames == [kind : Kinds, session : Sessions, turn : 1..TurnBound,
               run : 1..TurnBound]

TypeOK ==
    /\ turn \in [Sessions -> 0..TurnBound]
    /\ deltas \in [Sessions -> 0..DeltaBound]
    /\ streaming \in [Sessions -> BOOLEAN]
    /\ queue \in [Kinds -> Seq(Events)]
    /\ held \in [Kinds -> SUBSET HeldFrames]
    /\ connected \in BOOLEAN
    /\ runs \in [Sessions -> 0..TurnBound]
    /\ open \in BOOLEAN
    /\ wire \in [Sessions -> Seq(HeldFrames)]
    /\ overtaken \in BOOLEAN /\ endLost \in BOOLEAN

Init ==
    /\ turn = [s \in Sessions |-> 0]
    /\ deltas = [s \in Sessions |-> 0]
    /\ streaming = [s \in Sessions |-> FALSE]
    /\ queue = [w \in Kinds |-> <<>>]
    /\ held = [w \in Kinds |-> {}]
    /\ connected = TRUE
    /\ runs = [s \in Sessions |-> 0]
    /\ open = TRUE
    /\ wire = [s \in Sessions |-> <<>>]
    /\ overtaken = FALSE /\ endLost = FALSE

-----------------------------------------------------------------------------
(* Hermes *)

Emit(kind, s, t) ==
    queue' = [queue EXCEPT ![kind] =
                  Append(@, [kind |-> kind, session |-> s, turn |-> t])]

BeginTurn(s) ==
    /\ ~streaming[s]
    /\ turn[s] < TurnBound
    /\ turn' = [turn EXCEPT ![s] = @ + 1]
    /\ deltas' = [deltas EXCEPT ![s] = 0]
    /\ streaming' = [streaming EXCEPT ![s] = TRUE]
    /\ Emit("start", s, turn[s] + 1)
    /\ UNCHANGED <<held, connected, runs, open, wire, pastVars>>

StreamDelta(s) ==
    /\ streaming[s]
    /\ deltas[s] < DeltaBound
    /\ deltas' = [deltas EXCEPT ![s] = @ + 1]
    /\ Emit("chunk", s, turn[s])
    /\ UNCHANGED <<turn, streaming, held, connected, runs, open, wire, pastVars>>

EndTurn(s) ==
    /\ streaming[s]
    /\ streaming' = [streaming EXCEPT ![s] = FALSE]
    /\ Emit("end", s, turn[s])
    /\ UNCHANGED <<turn, deltas, held, connected, runs, open, wire, pastVars>>

-----------------------------------------------------------------------------
(* The hooks *)

(* Some earlier event or frame is still with its worker. *)
Overtakes(e) ==
    \E w \in Kinds :
        \/ \E f \in held[w] : Earlier(f, e)
        \/ \E n \in 1..Len(queue[w]) : Earlier(queue[w][n], e)

(* Worker w is free and takes its oldest event, e. *)
Take(w, e) ==
    /\ held[w] = {}
    /\ queue[w] # <<>>
    /\ e = Head(queue[w])
    /\ queue' = [queue EXCEPT ![w] = Tail(@)]

(* A full queue loses an event; the other workers go on. *)
HostDrops(w) ==
    /\ queue[w] # <<>>
    /\ queue' = [queue EXCEPT ![w] = Tail(@)]
    /\ endLost' = (endLost \/ w = "end")
    /\ UNCHANGED <<hostVars, held, connected, runs, open, wire, overtaken>>

(* Without an active adapter the hooks return at once. *)
Ignore(w) ==
    /\ \E e \in Events : Take(w, e)
    /\ ~connected
    /\ UNCHANGED <<hostVars, held, connected, runs, open, wire, pastVars>>

(* The event loop adds to _known_sessions while the start hook iterates    *)
(* over it: the hook raises and its event is lost.                         *)
HookRaises(w) ==
    /\ connected
    /\ \E e \in Events : Take(w, e) /\ e.kind = "start"
    /\ UNCHANGED <<hostVars, held, connected, runs, open, wire, pastVars>>

(* Mutant of OnStart: the id of a run is too coarse to tell turns apart. *)
OnStartSameRun(w, e) ==
    /\ e.kind = "start"
    /\ runs' = [runs EXCEPT ![e.session] = 1]
    /\ held' = [held EXCEPT ![w] = {Frame(e, 1)}]

(* _on_stream_start registers a new run before it posts the frame. *)
OnStart(w, e) ==
    /\ e.kind = "start"
    /\ runs' = [runs EXCEPT ![e.session] = e.turn]
    /\ held' = [held EXCEPT ![w] = {Frame(e, e.turn)}]

(* _on_stream_delta looks the run up; a delta without a run is dropped. *)
OnDelta(w, e) ==
    /\ e.kind = "chunk"
    /\ held' = [held EXCEPT ![w] = IF runs[e.session] = 0 THEN {}
                                   ELSE {Frame(e, runs[e.session])}]
    /\ UNCHANGED runs

(* Mutant of OnEnd: the run is looked up and not removed. *)
OnEndPeeks(w, e) ==
    /\ e.kind = "end"
    /\ held' = [held EXCEPT ![w] = IF runs[e.session] = 0 THEN {}
                                   ELSE {Frame(e, runs[e.session])}]
    /\ UNCHANGED runs

(* _on_stream_end pops the run; an end without a run is dropped. *)
OnEnd(w, e) ==
    /\ e.kind = "end"
    /\ held' = [held EXCEPT ![w] = IF runs[e.session] = 0 THEN {}
                                   ELSE {Frame(e, runs[e.session])}]
    /\ runs' = [runs EXCEPT ![e.session] = 0]

LookUp(w, e) ==
    /\ connected
    /\ Take(w, e)
    /\ OnStart(w, e) \/ OnDelta(w, e) \/ OnEnd(w, e)
    /\ overtaken' = (overtaken \/ Overtakes(e))
    /\ UNCHANGED <<hostVars, connected, open, wire, endLost>>

(* The frame is posted; client.send drops it when the socket is not open. *)
Post(w, f) ==
    /\ f \in held[w]
    /\ held' = [held EXCEPT ![w] = {}]
    /\ wire' = IF open THEN [wire EXCEPT ![f.session] = Append(@, f)] ELSE wire
    /\ UNCHANGED <<hostVars, queue, connected, runs, open, pastVars>>

-----------------------------------------------------------------------------
(* The client: the socket comes and goes, connected goes when it stops. *)

SocketFlips ==
    /\ connected
    /\ open' = ~open
    /\ UNCHANGED <<hostVars, queue, held, connected, runs, wire, pastVars>>

Stop ==
    /\ connected
    /\ connected' = FALSE
    /\ open' = FALSE
    /\ UNCHANGED <<hostVars, queue, held, runs, wire, pastVars>>

Next ==
    \/ \E s \in Sessions : BeginTurn(s) \/ StreamDelta(s) \/ EndTurn(s)
    \/ \E w \in Kinds :
           \/ HostDrops(w)
           \/ Ignore(w)
           \/ HookRaises(w)
           \/ \E e \in Events : LookUp(w, e)
           \/ \E f \in held[w] : Post(w, f)
    \/ SocketFlips
    \/ Stop

Spec == Init /\ [][Next]_vars

-----------------------------------------------------------------------------
(* Properties *)

(* f may be written before g. *)
Precedes(f, g) ==
    \/ f.run < g.run
    \/ /\ f.run = g.run
       /\ \/ Place[f.kind] < Place[g.kind]
          \/ f.kind = "chunk" /\ g.kind = "chunk"

(* start, chunk*, end: as long as no worker overtakes another, the frames  *)
(* of a session are in the order of the protocol, run after run, whatever  *)
(* events full queues lose, whichever start hooks raise and whatever a     *)
(* closed socket swallows: a run whose end was lost goes on with the next  *)
(* turn.  If no end is lost, each frame carries the run of its own turn    *)
(* (_on_stream_start, _on_stream_delta, _on_stream_end,                    *)
(* match_botschat_session 663).                                            *)
Ordered ==
    ~overtaken => \A s \in Sessions :
        /\ \A i, j \in 1..Len(wire[s]) :
               i < j => Precedes(wire[s][i], wire[s][j])
        /\ ~endLost => \A i \in 1..Len(wire[s]) : wire[s][i].run = wire[s][i].turn

(* No run is ended twice, however the workers overtake each other and      *)
(* whatever is lost: the look-up of _on_stream_end takes the run away      *)
(* (747), and the next turn has a run of its own.                          *)
EndsOnce ==
    \A s \in Sessions : \A i, j \in 1..Len(wire[s]) :
        /\ i < j
        /\ wire[s][i].kind = "end" /\ wire[s][j].kind = "end"
        => wire[s][i].run # wire[s][j].run

(* As long as no worker overtakes another and no end is lost, no run is    *)
(* left behind for a later turn to stumble upon once all events are        *)
(* handled, unless the client has stopped (_on_stream_end 747).            *)
NoStaleRun ==
    /\ connected
    /\ ~overtaken /\ ~endLost
    /\ \A w \in Kinds : queue[w] = <<>> /\ held[w] = {}
    => \A s \in Sessions : runs[s] # 0 => streaming[s]
=============================================================================
