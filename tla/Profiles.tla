------------------------------- MODULE Profiles -------------------------------
(***************************************************************************)
(* The profiles of one machine: how each gateway process gets its settings *)
(* (adapter.py: _apply_yaml_config, validate_config, __init__), how their  *)
(* adapters share pairing tokens (connect, disconnect) and which default   *)
(* model they report (_apply_default_model).  A gateway hosts one profile  *)
(* or, as a multiplexer, several.  The two credentials, URL and token, are *)
(* configured together and stand as one setting, the token.                *)
(***************************************************************************)
EXTENDS Naturals

CONSTANTS
    Profiles,
    Gateways,    \* gateway processes
    NoGateway,   \* the lock is free
    Layouts,     \* ways to spread the profiles over gateways
    Tokens,      \* pairing tokens
    NoneText,    \* the token that spells "None"
    Unset,       \* no such key, no such environment variable
    Null,        \* a YAML key without a value
    Dotenvs,     \* what a gateway's .env may set by hand
    Yamls,       \* what the profiles' config.yaml may say at first
    Edits,       \* the edits the user may make, <<profile, setting>>
    Models,      \* models of Hermes
    NoModel,     \* unknown: `hermes config get` failed
    CrashBound,  \* bound on the crashes of gateways
    SetBound     \* bound on the requests to change a default model

Settings == Tokens \cup {Null, Unset}

ASSUME LayoutAssumption == Layouts \subseteq [Profiles -> Gateways]
ASSUME SettingAssumption ==
    /\ NoneText \in Tokens
    /\ Null \notin Tokens /\ Unset \notin Tokens /\ Null # Unset
    /\ Dotenvs \subseteq [Gateways -> Tokens \cup {Unset}]
    /\ Yamls \subseteq [Profiles -> Settings]
    /\ Edits \subseteq Profiles \X Settings
ASSUME BoundAssumption ==
    /\ NoGateway \notin Gateways /\ NoModel \notin Models
    /\ CrashBound \in Nat /\ SetBound \in Nat

VARIABLES
    host,    \* profile |-> its gateway
    dotenv,  \* gateway |-> the token set by hand
    yaml,    \* profile |-> the pairingToken of its config.yaml
    edited,  \* profiles whose YAML changed after their gateway read it
    env,     \* gateway |-> BOTSCHAT_PAIRING_TOKEN of its process
    pc,      \* profile |-> how far its adapter is
    token,   \* profile |-> the pairing_token of its adapter
    lock,    \* token |-> the gateway its lock file names
    alive,   \* gateways that run
    crashes, \* number of crashes
    config,  \* profile |-> Hermes's model.default
    model,   \* profile |-> _default_model of its adapter
    handler, \* profile |-> the set it awaits, 0 if none
    writers, \* `hermes config set` threads in flight
    torn,    \* profiles whose model.default changed behind their adapter
    sets     \* number of sets requested

settings == <<host, dotenv, yaml, edited, env>>
slots == <<pc, token, lock, alive, crashes>>
models == <<config, model, handler, writers, torn, sets>>
vars == <<settings, slots, models>>

Steps == {"out", "loaded", "ready", "running", "stopping", "fatal"}
Writers == [n : 1..SetBound, by : Profiles, model : Models]

TypeOK ==
    /\ host \in Layouts
    /\ dotenv \in Dotenvs
    /\ yaml \in [Profiles -> Settings]
    /\ edited \subseteq Profiles
    /\ env \in [Gateways -> Tokens \cup {Unset}]
    /\ pc \in [Profiles -> Steps]
    /\ token \in [Profiles -> Tokens \cup {Unset}]
    /\ lock \in [Tokens -> Gateways \cup {NoGateway}]
    /\ alive \subseteq Gateways
    /\ crashes \in 0..CrashBound
    /\ config \in [Profiles -> Models]
    /\ model \in [Profiles -> Models \cup {NoModel}]
    /\ handler \in [Profiles -> 0..SetBound]
    /\ writers \subseteq Writers
    /\ torn \subseteq Profiles
    /\ sets \in 0..SetBound

Init ==
    /\ host \in Layouts
    /\ dotenv \in Dotenvs
    /\ yaml \in Yamls
    /\ edited = {}
    /\ env = dotenv
    /\ pc = [p \in Profiles |-> "out"]
    /\ token = [p \in Profiles |-> Unset]
    /\ lock = [t \in Tokens |-> NoGateway]
    /\ alive = Gateways
    /\ crashes = 0
    /\ \E m \in Models : config = [p \in Profiles |-> m]
    /\ model = [p \in Profiles |-> NoModel]
    /\ handler = [p \in Profiles |-> 0]
    /\ writers = {}
    /\ torn = {}
    /\ sets = 0

Solo(p) == \A q \in Profiles : host[q] = host[p] => q = p

(* The active profile of p's gateway, which the Hermes CLI is pointed at. *)
Hub(p) == CHOOSE q \in Profiles : host[q] = host[p]

At(p, step) == pc[p] = step /\ host[p] \in alive
Using(p) == pc[p] \in {"running", "stopping"}

(* str(value): a key without a value becomes the text "None". *)
Text(v) == IF v = Null THEN NoneText ELSE v

-----------------------------------------------------------------------------
(* Settings *)

(* The user edits config.yaml; a process that read it does not notice. *)
EditYaml(p, v) ==
    /\ <<p, v>> \in Edits
    /\ v # yaml[p]
    /\ yaml' = [yaml EXCEPT ![p] = v]
    /\ edited' = IF pc[p] = "out" THEN edited ELSE edited \cup {p}
    /\ UNCHANGED <<host, dotenv, env, slots, models>>

(* Mutant of Bridged: the YAML wins over a variable set by hand. *)
BridgedOver(p) ==
    IF yaml[p] = Unset THEN env
    ELSE [env EXCEPT ![host[p]] = Text(yaml[p])]

(* The bridge fills the variable from the YAML, and never overwrites it.  *)
Bridged(p) ==
    IF yaml[p] = Unset \/ env[host[p]] # Unset THEN env
    ELSE [env EXCEPT ![host[p]] = Text(yaml[p])]

(* The gateway loads the profile's configuration. *)
Load(p) ==
    /\ At(p, "out")
    /\ pc' = [pc EXCEPT ![p] = "loaded"]
    /\ env' = Bridged(p)
    /\ UNCHANGED <<host, dotenv, yaml, edited, token, lock, alive, crashes, models>>

(* The gate: credentials in the environment, or in the YAML, which is the  *)
(* same once it has been bridged.                                          *)
Enabled(p) == env[host[p]] # Unset

(* The gateway makes an adapter, which reads the variable. *)
Create(p) ==
    /\ At(p, "loaded")
    /\ Enabled(p)
    /\ pc' = [pc EXCEPT ![p] = "ready"]
    /\ token' = [token EXCEPT ![p] = env[host[p]]]
    /\ UNCHANGED <<settings, lock, alive, crashes, models>>

-----------------------------------------------------------------------------
(* The lock on the token.  It belongs to a process: whoever holds it may   *)
(* take it again (206), and a lock whose process is dead is free.          *)

Free(t, g) == lock[t] = g \/ lock[t] \notin alive

(* Mutant of Connect: the client is started although the lock is taken. *)
ConnectUnchecked(p) ==
    /\ At(p, "ready")
    /\ lock' = IF Free(token[p], host[p])
               THEN [lock EXCEPT ![token[p]] = host[p]] ELSE lock
    /\ pc' = [pc EXCEPT ![p] = "running"]
    /\ model' = [model EXCEPT ![p] = NoModel]
    /\ torn' = torn \ {p}
    /\ UNCHANGED <<settings, token, alive, crashes, config, handler, writers, sets>>

(* connect() takes the lock, reads the default model with the CLI, which   *)
(* may fail, and starts a client; it never gives up the event loop.        *)
Connect(p) ==
    /\ At(p, "ready")
    /\ Free(token[p], host[p])
    /\ lock' = [lock EXCEPT ![token[p]] = host[p]]
    /\ pc' = [pc EXCEPT ![p] = "running"]
    /\ \E m \in {config[Hub(p)], NoModel} : model' = [model EXCEPT ![p] = m]
    /\ torn' = torn \ {p}
    /\ UNCHANGED <<settings, token, alive, crashes, config, handler, writers, sets>>

(* The lock is taken: the adapter fails for good and starts no client. *)
ConnectConflict(p) ==
    /\ At(p, "ready")
    /\ ~Free(token[p], host[p])
    /\ pc' = [pc EXCEPT ![p] = "fatal"]
    /\ UNCHANGED <<settings, token, lock, alive, crashes, models>>

(* Mutant of DisconnectBegins: the lock is released before the client has  *)
(* stopped.                                                                *)
DisconnectReleasesFirst(p) ==
    /\ At(p, "running")
    /\ pc' = [pc EXCEPT ![p] = "stopping"]
    /\ lock' = [lock EXCEPT ![token[p]] = NoGateway]
    /\ handler' = [handler EXCEPT ![p] = 0]
    /\ UNCHANGED <<settings, token, alive, crashes, config, model, writers, torn, sets>>

(* disconnect() awaits the stop() of the client, whose socket stays open   *)
(* meanwhile.  A handler is cancelled; the thread it awaited goes on.      *)
DisconnectBegins(p) ==
    /\ At(p, "running")
    /\ pc' = [pc EXCEPT ![p] = "stopping"]
    /\ handler' = [handler EXCEPT ![p] = 0]
    /\ UNCHANGED <<settings, token, lock, alive, crashes, config, model, writers, torn, sets>>

(* Mutant of Released: the lock is kept. *)
NotReleased(p) == lock

(* release_scoped_lock frees the token if this process has it. *)
Released(p) ==
    IF lock[token[p]] = host[p] THEN [lock EXCEPT ![token[p]] = NoGateway] ELSE lock

(* The client has stopped; the adapter may be connected again. *)
DisconnectEnds(p) ==
    /\ At(p, "stopping")
    /\ pc' = [pc EXCEPT ![p] = "ready"]
    /\ lock' = Released(p)
    /\ UNCHANGED <<settings, token, alive, crashes, models>>

(* A gateway dies with its adapters and its environment; its lock files    *)
(* and the commands it started stay behind.                                *)
Crash(g) ==
    /\ g \in alive
    /\ crashes < CrashBound
    /\ alive' = alive \ {g}
    /\ crashes' = crashes + 1
    /\ env' = [env EXCEPT ![g] = dotenv[g]]
    /\ pc' = [p \in Profiles |-> IF host[p] = g THEN "out" ELSE pc[p]]
    /\ token' = [p \in Profiles |-> IF host[p] = g THEN Unset ELSE token[p]]
    /\ handler' = [p \in Profiles |-> IF host[p] = g THEN 0 ELSE handler[p]]
    /\ edited' = {p \in edited : host[p] # g}
    /\ UNCHANGED <<host, dotenv, yaml, lock, config, model, writers, torn, sets>>

(* A gateway restarts; as a new process it does not own the old locks. *)
Restart(g) ==
    /\ g \notin alive
    /\ alive' = alive \cup {g}
    /\ lock' = [t \in Tokens |-> IF lock[t] = g THEN NoGateway ELSE lock[t]]
    /\ UNCHANGED <<settings, pc, token, crashes, models>>

-----------------------------------------------------------------------------
(* The default model *)

(* The web UI sets the default model: a thread runs the CLI, its handler   *)
(* waits for it, and the socket delivers nothing else to this adapter.     *)
SetModel(p, m) ==
    /\ At(p, "running")
    /\ handler[p] = 0
    /\ sets < SetBound
    /\ sets' = sets + 1
    /\ handler' = [handler EXCEPT ![p] = sets + 1]
    /\ writers' = writers \cup {[n |-> sets + 1, by |-> p, model |-> m]}
    /\ UNCHANGED <<settings, slots, config, model, torn>>

(* Mutant of Answered: the model is reported whether or not it was set. *)
AnsweredAlways(w, ok) ==
    IF handler[w.by] = w.n THEN [model EXCEPT ![w.by] = w.model] ELSE model

(* A handler that still waits reports the model if the command succeeded. *)
Answered(w, ok) ==
    IF ok /\ handler[w.by] = w.n THEN [model EXCEPT ![w.by] = w.model] ELSE model

(* The command ends: it did its work; it was killed after 15 s, before or  *)
(* after it wrote; or it failed.  Nobody hears of a cancelled one.         *)
WriterEnds(w, wrote, ok) ==
    /\ ok => wrote
    /\ writers' = writers \ {w}
    /\ config' = IF wrote THEN [config EXCEPT ![Hub(w.by)] = w.model] ELSE config
    /\ model' = Answered(w, ok)
    /\ handler' = IF handler[w.by] = w.n THEN [handler EXCEPT ![w.by] = 0] ELSE handler
    /\ torn' = IF wrote /\ ~(ok /\ handler[w.by] = w.n)
               THEN torn \cup {Hub(w.by)} ELSE torn
    /\ UNCHANGED <<settings, slots, sets>>

Next ==
    \/ \E p \in Profiles :
           \/ \E v \in Settings : EditYaml(p, v)
           \/ Load(p)
           \/ Create(p)
           \/ Connect(p)
           \/ ConnectConflict(p)
           \/ DisconnectBegins(p)
           \/ DisconnectEnds(p)
           \/ \E m \in Models : SetModel(p, m)
    \/ \E w \in writers, wrote, ok \in BOOLEAN : WriterEnds(w, wrote, ok)
    \/ \E g \in Gateways : Crash(g) \/ Restart(g)

Spec == Init /\ [][Next]_vars

-----------------------------------------------------------------------------
(* Properties *)

(* Two profiles with a gateway of their own never bind one token at once,  *)
(* which would split their sessions and duplicate replies (adapter.py      *)
(* 202-206): not while one of them waits for its client to stop, nor after *)
(* a crash left a lock, nor when a multiplexer uses the token as well.     *)
OneBinding ==
    \A p, q \in Profiles :
        Solo(p) /\ Solo(q) /\ Using(p) /\ Using(q) /\ token[p] = token[q] => p = q

(* A token nobody uses is free: a disconnect or a crash never leaves a     *)
(* lock that keeps a later connect() out (disconnect 259-267).             *)
NoLeftoverLock ==
    \A t \in Tokens, g \in alive :
        (\A p \in Profiles : Using(p) => token[p] # t) => Free(t, g)

(* The key of p's YAML has no value, and no variable is set by hand. *)
Blank(p) == yaml[p] = Null /\ dotenv[host[p]] = Unset

(* What a profile asks for itself: the variable set by hand, or what its   *)
(* YAML says.  A key without a value asks for nothing.                     *)
Own(p) ==
    IF dotenv[host[p]] # Unset THEN dotenv[host[p]]
    ELSE IF Blank(p) THEN Unset ELSE yaml[p]

(* A profile with a gateway of its own runs with its own settings whatever *)
(* the other profiles say, and without credentials gets no adapter; an     *)
(* edit under a running gateway is missed.  A key without a value is left  *)
(* out: the bridge makes it the token "None", and the profile gets an      *)
(* adapter for it (_apply_yaml_config 951-963, validate_config).           *)
OwnSettings ==
    \A p \in Profiles :
        /\ Solo(p) /\ p \notin edited /\ ~Blank(p)
        /\ pc[p] \notin {"out", "loaded"}
        => token[p] = Own(p) /\ Own(p) # Unset

(* The default model an adapter reports is the one Hermes uses, unless a   *)
(* set was killed or cancelled and wrote all the same; then until the next *)
(* connect() (connect 226, _apply_default_model 430-432).                  *)
ModelTold ==
    \A p \in Profiles :
        Solo(p) /\ Using(p) /\ p \notin torn =>
            model[p] \in {config[p], NoModel}

(* The inductive invariant behind them: a solo adapter that uses a token   *)
(* owns its lock, and every lock of a running gateway has a user there.    *)
IInv ==
    /\ TypeOK
    /\ \A p \in Profiles :
           /\ pc[p] # "out" => host[p] \in alive
           /\ pc[p] \notin {"out", "loaded"} => token[p] # Unset
           /\ Solo(p) /\ Using(p) => lock[token[p]] = host[p]
           /\ Solo(p) /\ pc[p] = "out" => env[host[p]] = dotenv[host[p]]
           /\ Solo(p) /\ pc[p] # "out" /\ p \notin edited /\ ~Blank(p) =>
                  env[host[p]] = Own(p)
           /\ Solo(p) /\ pc[p] \notin {"out", "loaded"} => token[p] = env[host[p]]
    /\ \A t \in Tokens :
           lock[t] \in alive =>
               \E p \in Profiles : Using(p) /\ token[p] = t /\ host[p] = lock[t]
    /\ ModelTold
=============================================================================
