---------------------------- MODULE ProfilesProofs ----------------------------
(***************************************************************************)
(* Proofs about Profiles, for any profiles, gateways, tokens and layouts.  *)
(* The inductive invariant is split by what it speaks of, so that each     *)
(* lemma says which steps can disturb its part.                            *)
(***************************************************************************)
EXTENDS Profiles, TLAPS

(* The adapter's life cycle: it exists only in a gateway that runs, and    *)
(* has a token.                                                            *)
Alive ==
    \A p \in Profiles :
        /\ pc[p] # "out" => host[p] \in alive
        /\ pc[p] \notin {"out", "loaded"} => token[p] # Unset

(* A solo adapter that uses a token owns its lock. *)
Owned ==
    \A p \in Profiles : Solo(p) /\ Using(p) => lock[token[p]] = host[p]

(* A lock of a running gateway has a user there. *)
Earned ==
    \A t \in Tokens :
        lock[t] \in alive =>
            \E p \in Profiles : Using(p) /\ token[p] = t /\ host[p] = lock[t]

(* The environment of a solo gateway is what its profile asks for, unless  *)
(* that has a key without a value.                                         *)
Bound ==
    \A p \in Profiles :
        Solo(p) =>
            /\ pc[p] = "out" => env[host[p]] = dotenv[host[p]]
            /\ pc[p] # "out" /\ p \notin edited /\ ~Blank(p) => env[host[p]] = Own(p)
            /\ pc[p] \notin {"out", "loaded"} => token[p] = env[host[p]]

LEMMA Parts == IInv <=> TypeOK /\ Alive /\ Owned /\ Earned /\ Bound /\ ModelTold
  BY DEF IInv, Alive, Owned, Earned, Bound

(* A solo profile is its gateway's hub, and no other profile's. *)
LEMMA SoloHub ==
    ASSUME TypeOK, NEW p \in Profiles, Solo(p), NEW q \in Profiles
    PROVE  Hub(q) = p <=> q = p
<1>1. Hub(q) \in Profiles /\ host[Hub(q)] = host[q]
  BY DEF Hub
<1> QED
  BY <1>1 DEF Solo

LEMMA HubType == \A p \in Profiles : Hub(p) \in Profiles
  BY DEF Hub

-----------------------------------------------------------------------------
(* Every step keeps the types. *)
LEMMA StepTypes == ASSUME TypeOK, [Next]_vars PROVE TypeOK'
<1> USE SettingAssumption, LayoutAssumption, BoundAssumption DEF TypeOK, settings, slots, models
<1>1. ASSUME NEW p \in Profiles, NEW v \in Settings, EditYaml(p, v) PROVE TypeOK'
  BY <1>1 DEF EditYaml
<1>2. ASSUME NEW p \in Profiles, Load(p) PROVE TypeOK'
  BY <1>2 DEF Load, Bridged, Text, Steps, At, Settings
<1>3. ASSUME NEW p \in Profiles, Create(p) PROVE TypeOK'
  BY <1>3 DEF Create, Enabled, Steps, At
<1>4. ASSUME NEW p \in Profiles, Connect(p) PROVE TypeOK'
  <2>1. config[Hub(p)] \in Models
    BY HubType
  <2>2. PICK m \in Models \cup {NoModel} : model' = [model EXCEPT ![p] = m]
    BY <1>4, <2>1 DEF Connect
  <2> QED
    BY <1>4, <2>2 DEF Connect, Steps, At
<1>5. ASSUME NEW p \in Profiles, ConnectConflict(p) PROVE TypeOK'
  BY <1>5 DEF ConnectConflict, Steps, At
<1>6. ASSUME NEW p \in Profiles, DisconnectBegins(p) PROVE TypeOK'
  BY <1>6 DEF DisconnectBegins, Steps, At
<1>7. ASSUME NEW p \in Profiles, DisconnectEnds(p) PROVE TypeOK'
  BY <1>7 DEF DisconnectEnds, Released, Steps, At
<1>8. ASSUME NEW p \in Profiles, NEW m \in Models, SetModel(p, m) PROVE TypeOK'
  BY <1>8 DEF SetModel, Writers, At
<1>9. ASSUME NEW w \in writers, NEW wrote \in BOOLEAN, NEW ok \in BOOLEAN,
             WriterEnds(w, wrote, ok)
      PROVE  TypeOK'
  BY <1>9, HubType DEF WriterEnds, Answered, Writers
<1>10. ASSUME NEW g \in Gateways, Crash(g) PROVE TypeOK'
  BY <1>10 DEF Crash, Steps
<1>11. ASSUME NEW g \in Gateways, Restart(g) PROVE TypeOK'
  BY <1>11 DEF Restart
<1>12. CASE UNCHANGED vars
  BY <1>12 DEF vars
<1> QED
  BY <1>1, <1>2, <1>3, <1>4, <1>5, <1>6, <1>7, <1>8, <1>9, <1>10, <1>11, <1>12
     DEF Next
(* Every step keeps adapters in gateways that run. *)
LEMMA StepAlive ==
    ASSUME TypeOK, Alive, [Next]_vars
    PROVE  Alive'
<1> USE SettingAssumption, LayoutAssumption, BoundAssumption
        DEF TypeOK, settings, slots, models, Alive, At
<1>1. ASSUME NEW p \in Profiles, NEW v \in Settings, EditYaml(p, v) PROVE Alive'
  BY <1>1 DEF EditYaml
<1>2. ASSUME NEW p \in Profiles, Load(p) PROVE Alive'
  BY <1>2 DEF Load, Bridged
<1>3. ASSUME NEW p \in Profiles, Create(p) PROVE Alive'
  BY <1>3 DEF Create, Enabled
<1>4. ASSUME NEW p \in Profiles, Connect(p) PROVE Alive'
  BY <1>4 DEF Connect
<1>5. ASSUME NEW p \in Profiles, ConnectConflict(p) PROVE Alive'
  BY <1>5 DEF ConnectConflict
<1>6. ASSUME NEW p \in Profiles, DisconnectBegins(p) PROVE Alive'
  BY <1>6 DEF DisconnectBegins
<1>7. ASSUME NEW p \in Profiles, DisconnectEnds(p) PROVE Alive'
  BY <1>7 DEF DisconnectEnds, Released
<1>8. ASSUME NEW p \in Profiles, NEW m \in Models, SetModel(p, m) PROVE Alive'
  BY <1>8 DEF SetModel
<1>9. ASSUME NEW w \in writers, NEW wrote \in BOOLEAN, NEW ok \in BOOLEAN,
             WriterEnds(w, wrote, ok)
      PROVE  Alive'
  BY <1>9 DEF WriterEnds, Answered
<1>10. ASSUME NEW g \in Gateways, Crash(g) PROVE Alive'
  BY <1>10 DEF Crash
<1>11. ASSUME NEW g \in Gateways, Restart(g) PROVE Alive'
  BY <1>11 DEF Restart
<1>12. CASE UNCHANGED vars
  BY <1>12 DEF vars
<1> QED
  BY <1>1, <1>2, <1>3, <1>4, <1>5, <1>6, <1>7, <1>8, <1>9, <1>10, <1>11, <1>12
     DEF Next

(* Every step leaves a solo adapter's lock alone, except its own steps:    *)
(* another gateway neither takes nor releases it.                          *)
LEMMA StepOwned ==
    ASSUME TypeOK, Alive, Owned, [Next]_vars
    PROVE  Owned'
<1> USE SettingAssumption, LayoutAssumption, BoundAssumption
        DEF TypeOK, settings, slots, models, Alive, Owned, Solo, Using, At
<1>1. ASSUME NEW p \in Profiles, NEW v \in Settings, EditYaml(p, v) PROVE Owned'
  BY <1>1 DEF EditYaml
<1>2. ASSUME NEW p \in Profiles, Load(p) PROVE Owned'
  BY <1>2 DEF Load, Bridged
<1>3. ASSUME NEW p \in Profiles, Create(p) PROVE Owned'
  BY <1>3 DEF Create, Enabled
<1>4. ASSUME NEW p \in Profiles, Connect(p) PROVE Owned'
  BY <1>4 DEF Connect, Free
<1>5. ASSUME NEW p \in Profiles, ConnectConflict(p) PROVE Owned'
  BY <1>5 DEF ConnectConflict
<1>6. ASSUME NEW p \in Profiles, DisconnectBegins(p) PROVE Owned'
  BY <1>6 DEF DisconnectBegins
<1>7. ASSUME NEW p \in Profiles, DisconnectEnds(p) PROVE Owned'
  BY <1>7 DEF DisconnectEnds, Released
<1>8. ASSUME NEW p \in Profiles, NEW m \in Models, SetModel(p, m) PROVE Owned'
  BY <1>8 DEF SetModel
<1>9. ASSUME NEW w \in writers, NEW wrote \in BOOLEAN, NEW ok \in BOOLEAN,
             WriterEnds(w, wrote, ok)
      PROVE  Owned'
  BY <1>9 DEF WriterEnds, Answered
<1>10. ASSUME NEW g \in Gateways, Crash(g) PROVE Owned'
  BY <1>10 DEF Crash
<1>11. ASSUME NEW g \in Gateways, Restart(g) PROVE Owned'
  BY <1>11 DEF Restart
<1>12. CASE UNCHANGED vars
  BY <1>12 DEF vars
<1> QED
  BY <1>1, <1>2, <1>3, <1>4, <1>5, <1>6, <1>7, <1>8, <1>9, <1>10, <1>11, <1>12
     DEF Next

(* Every step that ends a use of a token frees its lock. *)
LEMMA StepEarned ==
    ASSUME TypeOK, Alive, Earned, [Next]_vars
    PROVE  Earned'
<1> USE SettingAssumption, LayoutAssumption, BoundAssumption
        DEF TypeOK, settings, slots, models, Alive, Earned, Using, At
<1>1. ASSUME NEW p \in Profiles, NEW v \in Settings, EditYaml(p, v) PROVE Earned'
  BY <1>1 DEF EditYaml
<1>2. ASSUME NEW p \in Profiles, Load(p) PROVE Earned'
  BY <1>2 DEF Load, Bridged
<1>3. ASSUME NEW p \in Profiles, Create(p) PROVE Earned'
  BY <1>3 DEF Create, Enabled
<1>4. ASSUME NEW p \in Profiles, Connect(p) PROVE Earned'
  BY <1>4 DEF Connect
<1>5. ASSUME NEW p \in Profiles, ConnectConflict(p) PROVE Earned'
  BY <1>5 DEF ConnectConflict
<1>6. ASSUME NEW p \in Profiles, DisconnectBegins(p) PROVE Earned'
  BY <1>6 DEF DisconnectBegins
<1>7. ASSUME NEW p \in Profiles, DisconnectEnds(p) PROVE Earned'
  BY <1>7 DEF DisconnectEnds, Released
<1>8. ASSUME NEW p \in Profiles, NEW m \in Models, SetModel(p, m) PROVE Earned'
  BY <1>8 DEF SetModel
<1>9. ASSUME NEW w \in writers, NEW wrote \in BOOLEAN, NEW ok \in BOOLEAN,
             WriterEnds(w, wrote, ok)
      PROVE  Earned'
  BY <1>9 DEF WriterEnds, Answered
<1>10. ASSUME NEW g \in Gateways, Crash(g) PROVE Earned'
  BY <1>10 DEF Crash
<1>11. ASSUME NEW g \in Gateways, Restart(g) PROVE Earned'
  BY <1>11 DEF Restart
<1>12. CASE UNCHANGED vars
  BY <1>12 DEF vars
<1> QED
  BY <1>1, <1>2, <1>3, <1>4, <1>5, <1>6, <1>7, <1>8, <1>9, <1>10, <1>11, <1>12
     DEF Next

(* Every step leaves a solo gateway the settings of its profile. *)
LEMMA StepBound ==
    ASSUME TypeOK, Alive, Bound, [Next]_vars
    PROVE  Bound'
<1> USE SettingAssumption, LayoutAssumption, BoundAssumption
        DEF TypeOK, settings, slots, models, Alive, Bound, Solo, Own, Blank, At, Settings
<1>1. ASSUME NEW p \in Profiles, NEW v \in Settings, EditYaml(p, v) PROVE Bound'
  BY <1>1 DEF EditYaml
<1>2. ASSUME NEW p \in Profiles, Load(p) PROVE Bound'
  BY <1>2 DEF Load, Bridged, Text
<1>3. ASSUME NEW p \in Profiles, Create(p) PROVE Bound'
  BY <1>3 DEF Create, Enabled
<1>4. ASSUME NEW p \in Profiles, Connect(p) PROVE Bound'
  BY <1>4 DEF Connect
<1>5. ASSUME NEW p \in Profiles, ConnectConflict(p) PROVE Bound'
  BY <1>5 DEF ConnectConflict
<1>6. ASSUME NEW p \in Profiles, DisconnectBegins(p) PROVE Bound'
  BY <1>6 DEF DisconnectBegins
<1>7. ASSUME NEW p \in Profiles, DisconnectEnds(p) PROVE Bound'
  BY <1>7 DEF DisconnectEnds, Released
<1>8. ASSUME NEW p \in Profiles, NEW m \in Models, SetModel(p, m) PROVE Bound'
  BY <1>8 DEF SetModel
<1>9. ASSUME NEW w \in writers, NEW wrote \in BOOLEAN, NEW ok \in BOOLEAN,
             WriterEnds(w, wrote, ok)
      PROVE  Bound'
  BY <1>9 DEF WriterEnds, Answered
<1>10. ASSUME NEW g \in Gateways, Crash(g) PROVE Bound'
  BY <1>10 DEF Crash
<1>11. ASSUME NEW g \in Gateways, Restart(g) PROVE Bound'
  BY <1>11 DEF Restart
<1>12. CASE UNCHANGED vars
  BY <1>12 DEF vars
<1> QED
  BY <1>1, <1>2, <1>3, <1>4, <1>5, <1>6, <1>7, <1>8, <1>9, <1>10, <1>11, <1>12
     DEF Next

(* Every step that changes a solo profile's model tells its adapter, or    *)
(* the profile is torn.                                                    *)
LEMMA StepTold ==
    ASSUME TypeOK, Alive, ModelTold, [Next]_vars
    PROVE  ModelTold'
<1> USE SettingAssumption, LayoutAssumption, BoundAssumption
        DEF TypeOK, settings, slots, models, ModelTold, Solo, Using, At
<1>1. ASSUME NEW p \in Profiles, NEW v \in Settings, EditYaml(p, v) PROVE ModelTold'
  BY <1>1 DEF EditYaml
<1>2. ASSUME NEW p \in Profiles, Load(p) PROVE ModelTold'
  BY <1>2 DEF Load, Bridged
<1>3. ASSUME NEW p \in Profiles, Create(p) PROVE ModelTold'
  BY <1>3 DEF Create, Enabled
<1>4. ASSUME NEW p \in Profiles, Connect(p) PROVE ModelTold'
  <2>1. PICK m \in {config[Hub(p)], NoModel} : model' = [model EXCEPT ![p] = m]
    BY <1>4 DEF Connect
  <2>2. Solo(p) => Hub(p) = p
    BY SoloHub
  <2> QED
    BY <1>4, <2>1, <2>2 DEF Connect
<1>5. ASSUME NEW p \in Profiles, ConnectConflict(p) PROVE ModelTold'
  BY <1>5 DEF ConnectConflict
<1>6. ASSUME NEW p \in Profiles, DisconnectBegins(p) PROVE ModelTold'
  BY <1>6 DEF DisconnectBegins
<1>7. ASSUME NEW p \in Profiles, DisconnectEnds(p) PROVE ModelTold'
  BY <1>7 DEF DisconnectEnds, Released
<1>8. ASSUME NEW p \in Profiles, NEW m \in Models, SetModel(p, m) PROVE ModelTold'
  BY <1>8 DEF SetModel
<1>9. ASSUME NEW w \in writers, NEW wrote \in BOOLEAN, NEW ok \in BOOLEAN,
             WriterEnds(w, wrote, ok)
      PROVE  ModelTold'
  <2>1. w.by \in Profiles /\ w.model \in Models
    BY DEF Writers
  <2>2. ASSUME NEW q \in Profiles, Solo(q) PROVE Hub(w.by) = q <=> w.by = q
    BY <2>1, <2>2, SoloHub
  <2>3. Hub(w.by) \in Profiles
    BY <2>1, HubType
  <2>4. CASE wrote
    BY <1>9, <2>1, <2>2, <2>3, <2>4 DEF WriterEnds, Answered
  <2>5. CASE ~wrote
    BY <1>9, <2>5 DEF WriterEnds, Answered
  <2> QED
    BY <2>4, <2>5
<1>10. ASSUME NEW g \in Gateways, Crash(g) PROVE ModelTold'
  BY <1>10 DEF Crash
<1>11. ASSUME NEW g \in Gateways, Restart(g) PROVE ModelTold'
  BY <1>11 DEF Restart
<1>12. CASE UNCHANGED vars
  BY <1>12 DEF vars
<1> QED
  BY <1>1, <1>2, <1>3, <1>4, <1>5, <1>6, <1>7, <1>8, <1>9, <1>10, <1>11, <1>12
     DEF Next

-----------------------------------------------------------------------------
(* The inductive invariant holds, for any layout of profiles over gateways *)
(* and any settings (connect, disconnect, _apply_yaml_config).             *)
THEOREM LockCorrect == Spec => []IInv
<1>1. Init => IInv
  <2> SUFFICES ASSUME Init PROVE IInv
    OBVIOUS
  <2>1. TypeOK
    BY SettingAssumption, LayoutAssumption, BoundAssumption DEF Init, TypeOK, Steps
  <2> QED
    BY <2>1, Parts, BoundAssumption
       DEF Init, Alive, Owned, Earned, Bound, ModelTold, Using
<1>2. IInv /\ [Next]_vars => IInv'
  <2> SUFFICES ASSUME IInv, [Next]_vars PROVE IInv'
    OBVIOUS
  <2>1. TypeOK' /\ Alive' /\ Owned' /\ Earned' /\ Bound' /\ ModelTold'
    BY Parts, StepTypes, StepAlive, StepOwned, StepEarned, StepBound, StepTold
  <2> QED
    BY <2>1 DEF IInv, Alive, Owned, Earned, Bound
<1> QED
  BY <1>1, <1>2, PTL DEF Spec

(* Two profiles with gateways of their own never bind one token at once,   *)
(* for any number of them and whatever the multiplexers do (connect        *)
(* 207-220, disconnect 251-267).                                           *)
THEOREM BindingCorrect == Spec => []OneBinding
<1>1. IInv => OneBinding
  BY DEF IInv, OneBinding, Solo
<1> QED
  BY <1>1, LockCorrect, PTL

(* A token nobody uses is free for every gateway that runs (disconnect).   *)
THEOREM LeftoverCorrect == Spec => []NoLeftoverLock
<1>1. IInv => NoLeftoverLock
  BY DEF IInv, TypeOK, NoLeftoverLock, Free
<1> QED
  BY <1>1, LockCorrect, PTL

(* A profile with a gateway of its own runs with its own settings, and     *)
(* without credentials gets no adapter, unless the key of its YAML has no  *)
(* value (_apply_yaml_config, validate_config).                            *)
THEOREM SettingsCorrect == Spec => []OwnSettings
<1>1. IInv => OwnSettings
  BY DEF IInv, TypeOK, OwnSettings
<1> QED
  BY <1>1, LockCorrect, PTL

(* The reported default model is Hermes's (connect, _apply_default_model). *)
THEOREM ModelCorrect == Spec => []ModelTold
<1>1. IInv => ModelTold
  BY DEF IInv
<1> QED
  BY <1>1, LockCorrect, PTL
===============================================================================
