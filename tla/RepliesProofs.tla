----------------------------- MODULE RepliesProofs -----------------------------
(***************************************************************************)
(* Proofs about Replies, for any sessions, calls and models, any number of *)
(* requests and clients, with or without a password.                       *)
(***************************************************************************)
EXTENDS Replies, TLAPS

(* The model waiting for a reply is the one asked for last, and if none    *)
(* waits it has been announced; the one that waits is paid for.            *)
ModelInv ==
    \A s \in Sessions :
        /\ pending[s] \in {latest[s], NoModel}
        /\ pending[s] = NoModel => said[s] = latest[s]
        /\ notices[s] + (IF pending[s] = NoModel THEN 0 ELSE 1) <= asked[s]

(* A frame belongs to a call that has written, and so keeps its client and *)
(* its upload; a media frame is the last thing a call does.                *)
CallInv ==
    /\ \A c \in Calls : call[c] = "uploading" => stored[c] # "none"
    /\ \A f \in wire :
           /\ call[f.call] \in {"sending", "success"}
           /\ IsMedia(f) => call[f.call] = "success"

(* A sealed frame was sealed with the key of its call's client. *)
SealInv == \A f \in wire : f.sealed => Keyed(client[f.call])

(* The inductive invariant. *)
IInv == TypeOK /\ ModelInv /\ CallInv /\ FlagsHonest /\ SealInv

-----------------------------------------------------------------------------
LEMMA FrameShapes ==
    ASSUME NEW c \in Calls, NEW m \in BOOLEAN, NEW b \in BOOLEAN
    PROVE  /\ Text(c, b) \in Frames
           /\ Media(c, m, b) \in Frames
           /\ Text(c, b).call = c /\ Text(c, b).sealed = b
           /\ Media(c, m, b).call = c /\ Media(c, m, b).sealed = b
           /\ Media(c, m, b).mediaSealed = m
           /\ ~IsMedia(Text(c, b))
           /\ IsMedia(Media(c, m, b))
  BY DEF Text, Media, Frames, IsMedia

LEMMA FrameType ==
    ASSUME NEW f \in Frames
    PROVE  f.call \in Calls /\ f.sealed \in BOOLEAN
  BY DEF Frames, Text, Media

(* Every step keeps the types. *)
LEMMA StepTypes == ASSUME TypeOK, [Next]_vars PROVE TypeOK'
<1> USE ModelsAssumption, BoundAssumption
        DEF TypeOK, clientVars, adapterVars, farVars, userVars
<1>1. CASE Connect
  BY <1>1 DEF Connect
<1>2. CASE SocketDies
  BY <1>2 DEF SocketDies
<1>3. CASE AuthOk
  BY <1>3 DEF AuthOk
<1>4. CASE Derive
  BY <1>4 DEF Derive
<1>5. CASE Leave
  BY <1>5 DEF Leave
<1>6. CASE Stop
  BY <1>6 DEF Stop
<1>7. CASE Renew
  BY <1>7 DEF Renew
<1>8. ASSUME NEW s \in Sessions, NEW m \in Models, RequestModel(s, m) PROVE TypeOK'
  BY <1>8 DEF RequestModel
<1>9. ASSUME NEW c \in Calls, Begin(c) PROVE TypeOK'
  <2>1. Text(c, Keyed(life)) \in Frames
    BY FrameShapes DEF Keyed
  <2> QED
    BY <1>9, <2>1 DEF Begin, Return, Goto, Write
<1>10. ASSUME NEW c \in Calls, Finish(c) PROVE TypeOK'
  <2>1. said' \in [Sessions -> Models \cup {NoModel}] /\ notices' \in [Sessions -> Nat]
    <3>1. CASE pending[chat[c]] = NoModel
      <4>1. said' = said /\ notices' = notices
        BY <1>10, <3>1 DEF Finish
      <4> QED
        BY <4>1
    <3>2. CASE pending[chat[c]] # NoModel
      <4>1. /\ said' = [said EXCEPT ![chat[c]] = pending[chat[c]]]
            /\ notices' = [notices EXCEPT ![chat[c]] = @ + 1]
        BY <1>10, <3>2 DEF Finish
      <4> QED
        BY <4>1
    <3> QED
      BY <3>1, <3>2
  <2> QED
    BY <1>10, <2>1 DEF Finish, Goto
<1>11. ASSUME NEW c \in Calls, SendMedia(c) PROVE TypeOK'
  BY <1>11 DEF SendMedia, Return, Goto
<1>12. ASSUME NEW c \in Calls, MediaRead(c) PROVE TypeOK'
  BY <1>12 DEF MediaRead, Return, Goto
<1>13. ASSUME NEW c \in Calls, MediaUploaded(c) PROVE TypeOK'
  <2>1. Media(c, stored[c] = "sealed", Keyed(client[c])) \in Frames
    BY FrameShapes DEF Keyed
  <2> QED
    BY <1>13, <2>1 DEF MediaUploaded, Return, Goto, Write
<1>14. CASE UNCHANGED vars
  BY <1>14 DEF vars
<1> QED
  BY <1>1, <1>2, <1>3, <1>4, <1>5, <1>6, <1>7, <1>8, <1>9, <1>10, <1>11, <1>12,
     <1>13, <1>14
     DEF Next, Client, User, Reply, SendText, MediaUnread, UploadFails

(* Only a request and the end of a write touch what is announced. *)
LEMMA StepModel ==
    ASSUME TypeOK, ModelInv, [Next]_vars PROVE ModelInv'
<1> USE ModelsAssumption DEF TypeOK, ModelInv
<1>1. ASSUME UNCHANGED <<pending, said, notices, userVars>> PROVE ModelInv'
  BY <1>1 DEF userVars
<1>2. ASSUME NEW s \in Sessions, NEW m \in Models, RequestModel(s, m)
      PROVE  ModelInv'
  BY <1>2 DEF RequestModel, farVars
<1>3. ASSUME NEW c \in Calls, Finish(c) PROVE ModelInv'
  <2>1. CASE pending[chat[c]] = NoModel
    BY <1>3, <2>1 DEF Finish, userVars
  <2>2. CASE pending[chat[c]] # NoModel
    BY <1>3, <2>2 DEF Finish, userVars
  <2> QED
    BY <2>1, <2>2
<1>4. CASE Client
  BY <1>1, <1>4
     DEF Client, Connect, SocketDies, AuthOk, Derive, Leave, Stop, Renew,
         adapterVars, farVars
<1>5. ASSUME NEW c \in Calls,
             Begin(c) \/ SendMedia(c) \/ MediaRead(c) \/ MediaUploaded(c)
      PROVE  ModelInv'
  BY <1>1, <1>5 DEF Begin, Return, SendMedia, MediaRead, MediaUploaded, farVars
<1>6. CASE UNCHANGED vars
  BY <1>1, <1>6 DEF vars, adapterVars, farVars
<1> QED
  BY <1>2, <1>3, <1>4, <1>5, <1>6
     DEF Next, User, Reply, SendText, MediaUnread, UploadFails

-----------------------------------------------------------------------------
(* A key is never lost, and a client that has none may only get one. *)
LEMMA KeyStays ==
    ASSUME TypeOK, [Next]_vars, NEW n \in 1..LifeBound, Keyed(n)
    PROVE  Keyed(n)'
<1> USE DEF TypeOK, Keyed
<1>1. CASE Client
  BY <1>1 DEF Client, Connect, SocketDies, AuthOk, Derive, Leave, Stop, Renew
<1>2. CASE User
  BY <1>2 DEF User, RequestModel, clientVars
<1>3. CASE Reply
  BY <1>3 DEF Reply, SendText, Finish, SendMedia, MediaRead, MediaUploaded,
              MediaUnread, UploadFails, Begin, Return, clientVars
<1>4. CASE UNCHANGED vars
  BY <1>4 DEF vars, clientVars
<1> QED
  BY <1>1, <1>2, <1>3, <1>4 DEF Next

(* A frame that leaves is of a call that had not written, and what it says *)
(* of its seals is what its client's key and its upload say.               *)
LEMMA NewFrames ==
    ASSUME TypeOK, CallInv, [Next]_vars, NEW f \in wire' \ wire
    PROVE  LET c == f.call
           IN  /\ c \in Calls
               /\ call[c] \in {"idle", "reading", "uploading"}
               /\ call'[c] \in {"sending", "success"}
               /\ stored'[c] = stored[c]
               /\ f.sealed = Keyed(client'[c])
               /\ IsMedia(f) => /\ call[c] = "uploading"
                                /\ call'[c] = "success"
                                /\ f.mediaSealed = (stored[c] = "sealed")
<1> USE DEF TypeOK
<1>1. ASSUME NEW c \in Calls, call[c] \in {"idle", "reading", "uploading"}, Begin(c)
      PROVE  f = Text(c, Keyed(life)) /\ client'[c] = life /\ call'[c] = "sending"
                 /\ UNCHANGED stored
  BY <1>1 DEF Begin, Return, Write, Goto, farVars
<1>2. ASSUME NEW c \in Calls, MediaUploaded(c)
      PROVE  /\ f = Media(c, stored[c] = "sealed", Keyed(client[c]))
             /\ call[c] = "uploading" /\ call'[c] = "success"
             /\ UNCHANGED <<client, stored>>
  BY <1>2 DEF MediaUploaded, Return, Write, Goto, farVars
<1>3. ~(Client \/ User \/ UNCHANGED vars)
  BY DEF Client, Connect, SocketDies, AuthOk, Derive, Leave, Stop, Renew, User,
         RequestModel, vars, farVars
<1>4. ASSUME NEW c \in Calls, SendMedia(c) \/ MediaRead(c) \/ Finish(c) PROVE FALSE
  BY <1>4 DEF SendMedia, MediaRead, Finish, Return, farVars
<1>5. CASE \E c \in Calls : SendText(c) \/ MediaUnread(c) \/ UploadFails(c)
  <2>1. PICK c \in Calls :
            call[c] \in {"idle", "reading", "uploading"} /\ Begin(c)
    BY <1>5 DEF SendText, MediaUnread, UploadFails
  <2>2. Keyed(life) \in BOOLEAN
    BY DEF Keyed
  <2>3. f.call = c /\ f.sealed = Keyed(life) /\ ~IsMedia(f)
    BY <1>1, <2>1, <2>2, FrameShapes
  <2>4. client'[c] = life /\ call'[c] = "sending" /\ stored' = stored
    BY <1>1, <2>1
  <2> QED
    BY <2>1, <2>3, <2>4
<1>6. CASE \E c \in Calls : MediaUploaded(c)
  <2>1. PICK c \in Calls : MediaUploaded(c)
    BY <1>6
  <2>3. f.call = c /\ f.sealed = Keyed(client[c]) /\ f.mediaSealed = (stored[c] = "sealed")
    <3> DEFINE m == stored[c] = "sealed"
               b == Keyed(client[c])
    <3>1. m \in BOOLEAN /\ b \in BOOLEAN
      BY DEF Keyed
    <3>2. f = Media(c, m, b)
      BY <1>2, <2>1
    <3> HIDE DEF m, b
    <3>3. f.call = c /\ f.sealed = b /\ f.mediaSealed = m
      BY <3>1, <3>2, FrameShapes
    <3> QED
      BY <3>3 DEF m, b
  <2>4. client'[c] = client[c] /\ stored'[c] = stored[c]
    BY <1>2, <2>1
  <2>5. f.sealed = Keyed(client'[c])
    BY <2>3, <2>4
  <2>6. call[c] = "uploading" /\ call'[c] = "success"
    BY <1>2, <2>1
  <2> QED
    BY <2>3, <2>4, <2>5, <2>6
<1> QED
  BY <1>3, <1>4, <1>5, <1>6 DEF Next, Reply

(* Frames are never taken back, and their calls keep client and upload. *)
LEMMA OldFrames ==
    ASSUME TypeOK, CallInv, [Next]_vars, NEW f \in wire
    PROVE  LET c == f.call
           IN  /\ c \in Calls
               /\ f \in wire'
               /\ call'[c] \in {"sending", "success"}
               /\ IsMedia(f) => call'[c] = "success"
               /\ stored'[c] = stored[c] /\ client'[c] = client[c]
<1> USE DEF TypeOK, CallInv
<1>1. f.call \in Calls
  BY FrameType
<1>2. CASE Client \/ User \/ UNCHANGED vars
  BY <1>1, <1>2 DEF Client, Connect, SocketDies, AuthOk, Derive, Leave, Stop, Renew,
         User, RequestModel, vars, adapterVars, farVars
<1>3. ASSUME NEW c \in Calls, call[c] \in {"idle", "reading", "uploading"},
             Begin(c) \/ SendMedia(c) \/ MediaRead(c) \/ MediaUploaded(c)
      PROVE  /\ f \in wire' /\ f.call # c /\ call'[f.call] = call[f.call]
             /\ stored'[f.call] = stored[f.call] /\ client'[f.call] = client[f.call]
  BY <1>1, <1>3 DEF Begin, Return, SendMedia, MediaRead, MediaUploaded, Write, Goto, farVars
<1>4. ASSUME NEW c \in Calls, Finish(c)
      PROVE  /\ f \in wire' /\ call'[f.call] \in {"success", call[f.call]}
             /\ stored' = stored /\ client' = client
  BY <1>1, <1>4 DEF Finish, Goto
<1>5. CASE \E c \in Calls : Finish(c)
  BY <1>1, <1>4, <1>5
<1>6. CASE \E c \in Calls : SendText(c) \/ SendMedia(c) \/ MediaRead(c)
             \/ MediaUploaded(c) \/ MediaUnread(c) \/ UploadFails(c)
  <2>1. PICK c \in Calls :
            /\ call[c] \in {"idle", "reading", "uploading"}
            /\ Begin(c) \/ SendMedia(c) \/ MediaRead(c) \/ MediaUploaded(c)
    BY <1>6 DEF SendText, MediaUnread, UploadFails, SendMedia, MediaRead, MediaUploaded
  <2> QED
    BY <1>1, <1>3, <2>1
<1> QED
  BY <1>2, <1>5, <1>6 DEF Next, Reply

(* What a step may do to the place and the upload of a call. *)
LEMMA StepUploads ==
    ASSUME TypeOK, [Next]_vars, NEW c \in Calls
    PROVE  /\ stored'[c] \in {stored[c], "sealed", "plain"}
           /\ call'[c] = "uploading" =>
                  call[c] = "uploading" \/ stored'[c] \in {"sealed", "plain"}
           /\ stored'[c] # stored[c] => MediaRead(c)
<1> USE DEF TypeOK
<1>1. CASE Client \/ User \/ UNCHANGED vars
  BY <1>1 DEF Client, Connect, SocketDies, AuthOk, Derive, Leave, Stop, Renew,
              User, RequestModel, vars, adapterVars
<1>2. ASSUME NEW d \in Calls,
             Begin(d) \/ SendMedia(d) \/ MediaUploaded(d) \/ Finish(d)
      PROVE  /\ stored' = stored
             /\ call'[c] = "uploading" => call[c] = "uploading"
  BY <1>2 DEF Begin, SendMedia, MediaUploaded, Finish, Return, Goto
<1>3. ASSUME NEW d \in Calls, MediaRead(d)
      PROVE  /\ stored'[c] \in {stored[c], "sealed", "plain"}
             /\ c = d /\ call'[c] = "uploading" => stored'[c] \in {"sealed", "plain"}
             /\ c # d => stored'[c] = stored[c] /\ call'[c] = call[c]
  <2>1. CASE Return(d, "refused")
    BY <2>1 DEF Return, Goto
  <2>2. CASE ~Return(d, "refused")
    BY <1>3, <2>2 DEF MediaRead, Goto
  <2> QED
    BY <2>1, <2>2
<1> QED
  <2>1. ASSUME NEW d \in Calls, MediaRead(d), c = d PROVE MediaRead(c)
    BY <2>1
  <2> QED
    BY <1>1, <1>2, <1>3, <2>1 DEF Next, Reply, SendText, MediaUnread, UploadFails

(* Every step keeps the frames in step with calls, uploads and keys. *)
LEMMA StepFrames ==
    ASSUME TypeOK, CallInv, FlagsHonest, SealInv, [Next]_vars
    PROVE  (CallInv /\ FlagsHonest /\ SealInv)'
<1>1. TypeOK'
  BY StepTypes
<1>2. ASSUME NEW n \in 1..LifeBound, Keyed(n) PROVE Keyed(n)'
  BY <1>2, KeyStays
<1>3. ASSUME NEW f \in wire'
      PROVE  /\ call'[f.call] \in {"sending", "success"}
             /\ IsMedia(f) => call'[f.call] = "success"
             /\ IsMedia(f) => stored'[f.call] = IF f.mediaSealed THEN "sealed" ELSE "plain"
             /\ f.sealed => key'[client'[f.call]] = "ready"
  <2>1. f.call \in Calls
    BY <1>1, FrameType DEF TypeOK
  <2>2. client'[f.call] \in 1..LifeBound
    BY <1>1, <2>1 DEF TypeOK
  <2>3. Keyed(client'[f.call]) => key'[client'[f.call]] = "ready"
    BY <1>2, <2>2 DEF Keyed
  <2>4. CASE f \in wire
    <3>1. /\ call'[f.call] \in {"sending", "success"}
          /\ IsMedia(f) => call'[f.call] = "success"
          /\ stored'[f.call] = stored[f.call] /\ client'[f.call] = client[f.call]
      BY <2>4, OldFrames
    <3>2. IsMedia(f) => stored[f.call] = IF f.mediaSealed THEN "sealed" ELSE "plain"
      BY <2>4 DEF FlagsHonest
    <3>3. f.sealed => Keyed(client'[f.call])
      BY <2>4, <3>1 DEF SealInv
    <3> QED
      BY <2>3, <3>1, <3>2, <3>3
  <2>5. CASE f \notin wire
    <3>1. /\ call'[f.call] \in {"sending", "success"}
          /\ stored'[f.call] = stored[f.call]
          /\ f.sealed = Keyed(client'[f.call])
          /\ IsMedia(f) => /\ call[f.call] = "uploading"
                           /\ call'[f.call] = "success"
                           /\ f.mediaSealed = (stored[f.call] = "sealed")
      BY <2>5, NewFrames
    <3>2. call[f.call] = "uploading" => stored[f.call] \in {"plain", "sealed"}
      BY <2>1 DEF CallInv, TypeOK
    <3>3. IsMedia(f) => stored'[f.call] = IF f.mediaSealed THEN "sealed" ELSE "plain"
      BY <3>1, <3>2
    <3> QED
      BY <2>3, <3>1, <3>3
  <2> QED
    BY <2>4, <2>5
<1>4. ASSUME NEW c \in Calls, call'[c] = "uploading" PROVE stored'[c] # "none"
  BY <1>4, StepUploads DEF CallInv
<1> QED
  BY <1>3, <1>4 DEF CallInv, FlagsHonest, SealInv, Keyed

-----------------------------------------------------------------------------
(* The inductive invariant holds in every reachable state (Replies). *)
THEOREM RepliesCorrect == Spec => []IInv
<1>1. Init => IInv
  <2> SUFFICES ASSUME Init PROVE IInv
    OBVIOUS
  <2>1. TypeOK
    <3>1. 1 \in 1..LifeBound /\ 0 \in 0..RequestBound
      BY BoundAssumption
    <3> QED
      BY <3>1 DEF Init, TypeOK
  <2>2. ModelInv
    <3>1. ASSUME NEW s \in Sessions
          PROVE  /\ pending[s] \in {latest[s], NoModel}
                 /\ pending[s] = NoModel => said[s] = latest[s]
                 /\ notices[s] + (IF pending[s] = NoModel THEN 0 ELSE 1) <= asked[s]
      <4>1. /\ pending[s] = NoModel /\ latest[s] = NoModel /\ said[s] = NoModel
            /\ notices[s] = 0 /\ asked[s] = 0
        BY DEF Init
      <4> QED
        BY <4>1
    <3> QED
      BY <3>1 DEF ModelInv
  <2>3. CallInv /\ FlagsHonest /\ SealInv
    BY DEF Init, CallInv, FlagsHonest, SealInv
  <2> QED
    BY <2>1, <2>2, <2>3 DEF IInv
<1>2. IInv /\ [Next]_vars => IInv'
  BY StepTypes, StepModel, StepFrames DEF IInv
<1> QED
  BY <1>1, <1>2, PTL DEF Spec

(* However many replies of a session are under way, a /model request is    *)
(* announced at most once and the latest is never lost to an older one     *)
(* (send 343-345, _on_cloud 358-366, _handle_user_message 450-453).        *)
THEOREM AnnouncedCorrect == Spec => []Announced
<1>1. IInv => Announced
  <2> SUFFICES ASSUME IInv, NEW s \in Sessions
               PROVE  notices[s] <= asked[s] /\ latest[s] \in {pending[s], said[s]}
    BY DEF Announced
  <2>1. notices[s] \in Nat /\ asked[s] \in Nat
    BY DEF IInv, TypeOK
  <2>2. CASE pending[s] = NoModel
    BY <2>1, <2>2 DEF IInv, ModelInv
  <2>3. CASE pending[s] # NoModel
    BY <2>1, <2>3 DEF IInv, ModelInv
  <2> QED
    BY <2>2, <2>3
<1> QED
  BY <1>1, RepliesCorrect, PTL

(* A media frame says of its bytes what was done to them, whenever the key *)
(* turns up (_send_media 597-622).                                         *)
THEOREM FlagsCorrect == Spec => []FlagsHonest
<1>1. IInv => FlagsHonest
  BY DEF IInv
<1> QED
  BY <1>1, RepliesCorrect, PTL

(* Once a client has sent a sealed frame, no text, caption or new upload   *)
(* of it is plain, and a frame that announces plain bytes is of an upload  *)
(* that had begun before (_handle_raw 239-244, send, _send_media): the     *)
(* frame proves that the client has its key, and no step takes it away.    *)
THEOREM StaysSealedCorrect == Spec => StaysSealed
<1>1. ASSUME IInv, [Next]_vars
      PROVE  [\A n \in 1..LifeBound :
                 (\E f \in wire : f.sealed /\ client[f.call] = n) =>
                     /\ \A f \in wire' \ wire : client'[f.call] = n =>
                            /\ f.sealed
                            /\ IsMedia(f) /\ ~f.mediaSealed =>
                                   stored[f.call] = "plain"
                     /\ \A c \in Calls :
                            client[c] = n /\ stored'[c] # stored[c] =>
                                stored'[c] = "sealed"]_vars
  <2>1. SUFFICES ASSUME NEW n \in 1..LifeBound, Keyed(n)
                 PROVE  /\ \A f \in wire' \ wire : client'[f.call] = n =>
                               /\ f.sealed
                               /\ IsMedia(f) /\ ~f.mediaSealed =>
                                      stored[f.call] = "plain"
                        /\ \A c \in Calls :
                               client[c] = n /\ stored'[c] # stored[c] =>
                                   stored'[c] = "sealed"
    BY <1>1 DEF IInv, SealInv
  <2>2. ASSUME NEW f \in wire' \ wire, client'[f.call] = n
        PROVE  f.sealed /\ (IsMedia(f) /\ ~f.mediaSealed => stored[f.call] = "plain")
    <3>1. /\ f.call \in Calls
          /\ f.sealed = Keyed(client'[f.call])
          /\ IsMedia(f) => /\ call[f.call] = "uploading"
                           /\ f.mediaSealed = (stored[f.call] = "sealed")
      BY <1>1, NewFrames DEF IInv
    <3>2. call[f.call] = "uploading" => stored[f.call] \in {"plain", "sealed"}
      BY <1>1, <3>1 DEF IInv, CallInv, TypeOK
    <3> QED
      BY <2>1, <2>2, <3>1, <3>2
  <2>3. ASSUME NEW c \in Calls, client[c] = n, stored'[c] # stored[c]
        PROVE  stored'[c] = "sealed"
    <3>1. MediaRead(c)
      BY <1>1, <2>3, StepUploads DEF IInv
    <3> QED
      BY <1>1, <2>1, <2>3, <3>1 DEF MediaRead, Return, IInv, TypeOK
  <2> QED
    BY <2>2, <2>3
<1> QED
  BY <1>1, RepliesCorrect, PTL DEF Spec, StaysSealed
================================================================================
