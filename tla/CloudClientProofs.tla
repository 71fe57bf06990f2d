-------------------------- MODULE CloudClientProofs --------------------------
(***************************************************************************)
(* Proofs about CloudClient, for every set of sockets and every value of   *)
(* the backoff bounds, the jitters, the Retry-After values and the inbox   *)
(* bound.                                                                  *)
(***************************************************************************)
EXTENDS CloudClient, TLAPS

(* A delay drawn by _sleep_backoff lies within the jitter of the bounds. *)
LEMMA NapBound ==
    ASSUME NEW b \in MinBackoff..MaxBackoff, NEW j \in Jitters
    PROVE  /\ b * j \in 0..MaxNap
           /\ b * j >= 75 * b
<1>1. b \in Nat /\ b <= MaxBackoff /\ MaxBackoff \in Nat
  BY BackoffAssumption
<1>2. j \in Nat /\ 75 <= j /\ j <= 125
  BY JitterAssumption
<1>3. b * j <= b * 125
  BY <1>1, <1>2
<1>4. b * 125 <= 125 * MaxBackoff
  BY <1>1
<1>5. b * j >= 75 * b
  BY <1>1, <1>2
<1>6. b * j \in Nat
  BY <1>1, <1>2
<1>7. QED BY <1>1, <1>3, <1>4, <1>5, <1>6 DEF MaxNap

(* The tail of the loop keeps the run task's variables in their types. *)
LEMMA AttemptType ==
    ASSUME TypeOK,
           NEW b \in MinBackoff..MaxBackoff, NEW i \in BOOLEAN, NEW a \in Int,
           AfterAttempt(b, i, a)
    PROVE  /\ runPc' \in {"backoff", "done"}
           /\ intentional' \in BOOLEAN
           /\ connected' \in BOOLEAN
           /\ backoff' \in MinBackoff..MaxBackoff
           /\ nap' \in 0..MaxNap
           /\ asked' \in Int
<1>1. CASE i
  BY <1>1 DEF AfterAttempt, TypeOK
<1>2. CASE ~i
  <2>1. nap' \in 0..MaxNap
    BY <1>2, NapBound DEF AfterAttempt
  <2>2. Lesser(2 * b, MaxBackoff) \in MinBackoff..MaxBackoff
    BY BackoffAssumption DEF Lesser
  <2>3. QED BY <1>2, <2>1, <2>2 DEF AfterAttempt, TypeOK
<1>3. QED BY <1>1, <1>2

(* The backoff a rejection leads to lies within the bounds. *)
LEMMA RaisedBackoff ==
    ASSUME TypeOK, NEW secs \in Int
    PROVE  Lesser(Greater(backoff, secs), MaxBackoff)
               \in MinBackoff..MaxBackoff
BY BackoffAssumption DEF TypeOK, Lesser, Greater

LEMMA RejectedType ==
    ASSUME TypeOK, NEW status \in {429, 503, 502}, NEW ra \in RetryAfters,
           ConnectRejected(status, ra)
    PROVE  TypeOK'
<1> DEFINE secs == IF status = 503 /\ ra = 0 THEN ServiceRetry ELSE ra
           honoured == status = 503 \/ (status = 429 /\ ra > 0)
           b == IF honoured THEN Lesser(Greater(backoff, secs), MaxBackoff)
                            ELSE backoff
           a == IF honoured THEN secs ELSE 0
<1>1. secs \in Int
  BY BackoffAssumption
<1>2. b \in MinBackoff..MaxBackoff /\ a \in Int
  <2>1. Lesser(Greater(backoff, secs), MaxBackoff) \in MinBackoff..MaxBackoff
    BY <1>1, RaisedBackoff
  <2>2. backoff \in MinBackoff..MaxBackoff
    BY DEF TypeOK
  <2>3. QED BY <1>1, <2>1, <2>2
<1>3. AfterAttempt(b, intentional, a)
  BY DEF ConnectRejected
<1>4. UNCHANGED <<ws, taskVars, stopVars, netVars>>
  BY DEF ConnectRejected
<1>5. intentional \in BOOLEAN
  BY DEF TypeOK
<1> HIDE DEF b, a
<1>6. QED
  BY <1>2, <1>3, <1>4, <1>5, AttemptType
  DEF TypeOK, taskVars, stopVars, netVars

(* Taking a frame leaves the inboxes sequences of frames. *)
LEMMA TakeType ==
    ASSUME TypeOK, NEW f, Take(f)
    PROVE  inbox' \in [Socks -> Seq(Frames)]
<1>1. inbox \in [Socks -> Seq(Frames)]
  BY DEF TypeOK
<1>2. inbox' = [inbox EXCEPT ![ws] = Tail(inbox[ws])] /\ inbox[ws] # <<>>
  BY DEF Take
<1>3. CASE ws \in Socks
  <2>1. inbox[ws] \in Seq(Frames) /\ inbox[ws] # <<>>
    BY <1>1, <1>2, <1>3
  <2>2. Tail(inbox[ws]) \in Seq(Frames)
    BY <2>1
  <2>3. QED BY <1>1, <1>2, <1>3, <2>2
<1>4. CASE ws \notin Socks
  BY <1>1, <1>2, <1>4
<1>5. QED BY <1>3, <1>4

LEMMA InitType == Init => TypeOK
<1> SUFFICES ASSUME Init PROVE TypeOK
  OBVIOUS
<1>1. MinBackoff \in MinBackoff..MaxBackoff /\ 0 \in 0..MaxNap
  BY BackoffAssumption DEF MaxNap
<1>2. <<>> \in Seq(Frames)
  OBVIOUS
<1>3. inbox \in [Socks -> Seq(Frames)]
  BY <1>2 DEF Init
<1>4. nap \in 0..MaxNap
  BY <1>1 DEF Init
<1>5. backoff \in MinBackoff..MaxBackoff
  BY <1>1 DEF Init
<1>6. /\ link \in [Socks -> {"open", "closing", "closed"}]
      /\ code \in [Socks -> {0} \cup Codes]
      /\ auth \in [Socks -> {"none", "sent", "ok", "refused"}]
  BY DEF Init
<1>7. /\ runPc = "idle" /\ stopPc = "idle" /\ key = "none"
      /\ ws = NoSock /\ resetFor = NoSock /\ stopSock = NoSock
      /\ left = {}
  BY DEF Init
<1>8. /\ intentional \in BOOLEAN /\ connected \in BOOLEAN
      /\ keepalive \in BOOLEAN
  BY DEF Init
<1>9. asked \in Int
  BY DEF Init
<1>10. QED BY <1>3, <1>4, <1>5, <1>6, <1>7, <1>8, <1>9 DEF TypeOK

LEMMA NextType == TypeOK /\ [Next]_vars => TypeOK'
<1> SUFFICES ASSUME TypeOK, [Next]_vars PROVE TypeOK'
  OBVIOUS
<1>0. backoff \in MinBackoff..MaxBackoff /\ intentional \in BOOLEAN
      /\ 0 \in Int /\ code \in [Socks -> {0} \cup Codes]
  BY DEF TypeOK
<1>1. CASE Start
  BY <1>1 DEF Start, TypeOK, taskVars, stopVars, netVars
<1>2. ASSUME NEW s \in Socks, ConnectOk(s) PROVE TypeOK'
  BY <1>2 DEF ConnectOk, TypeOK, taskVars, stopVars, Serving
<1>3. ASSUME NEW status \in {429, 503, 502}, NEW ra \in RetryAfters,
             ConnectRejected(status, ra)
      PROVE  TypeOK'
  BY <1>3, RejectedType
<1>4. CASE ConnectFails
  BY <1>0, <1>4, AttemptType
  DEF ConnectFails, TypeOK, taskVars, stopVars, netVars
<1>5. CASE RecvAuthOk
  BY <1>5, TakeType DEF RecvAuthOk, TypeOK, stopVars, Serving
<1>6. CASE RecvAuthFail
  BY <1>6, TakeType DEF RecvAuthFail, TypeOK, taskVars, stopVars, Serving, Codes
<1>7. CASE RecvPing
  BY <1>7, TakeType DEF RecvPing, TypeOK, runVars, taskVars, stopVars
<1>8. CASE RecvMessage
  BY <1>8, TakeType DEF RecvMessage, TypeOK, taskVars, stopVars, Serving
<1>9. CASE RecvClosed
  <2> DEFINE i == intentional \/ code[ws] = Replaced
  <2>1. i \in BOOLEAN
    BY <1>0
  <2>2. AfterAttempt(backoff, i, 0) /\ UNCHANGED <<ws, taskVars, stopVars, netVars>>
    BY <1>9 DEF RecvClosed
  <2> HIDE DEF i
  <2>3. QED
    BY <1>0, <2>1, <2>2, AttemptType DEF TypeOK, taskVars, stopVars, netVars
<1>10. CASE Derive
  BY <1>10 DEF Derive, TypeOK, stopVars, netVars, Serving
<1>11. CASE RefusalClosed
  BY <1>11 DEF RefusalClosed, TypeOK, taskVars, stopVars, netVars, Serving
<1>12. CASE HandlerReturns
  BY <1>12 DEF HandlerReturns, TypeOK, taskVars, stopVars, netVars, Serving
<1>13. CASE HandlerRaises
  <2>1. /\ AfterAttempt(backoff, intentional, 0)
        /\ left' = left \cup {ws}
        /\ UNCHANGED <<ws, taskVars, stopPc, stopSock, netVars>>
    BY <1>13 DEF HandlerRaises
  <2>2. left' \subseteq Socks \cup {NoSock}
    BY <2>1 DEF TypeOK
  <2>3. QED
    BY <1>0, <2>1, <2>2, AttemptType DEF TypeOK, taskVars, netVars
<1>14. CASE BackoffEnds
  <2>1. 0 \in 0..MaxNap
    BY BackoffAssumption DEF MaxNap
  <2>2. nap' \in 0..MaxNap
    BY <1>14, <2>1 DEF BackoffEnds
  <2>3. connected' \in BOOLEAN /\ runPc' \in {"connecting", "done"}
    BY <1>14 DEF BackoffEnds, TypeOK
  <2>4. asked' \in Int
    BY <1>14 DEF BackoffEnds
  <2>5. UNCHANGED <<ws, intentional, backoff, taskVars, stopVars, netVars>>
    BY <1>14 DEF BackoffEnds
  <2>6. QED
    BY <2>2, <2>3, <2>4, <2>5 DEF TypeOK, taskVars, stopVars, netVars
<1>15. CASE ResetFires
  BY <1>15, BackoffAssumption DEF ResetFires, TypeOK, stopVars, netVars
<1>16. CASE StopBegin
  BY <1>16 DEF StopBegin, CloseYields, CancelRun, TypeOK, Codes, Serving
<1>17. CASE StopEnds \/ Unwound \/ CancelAwaited
  BY <1>17 DEF StopEnds, CancelRun, Unwound, CancelAwaited, TypeOK, taskVars,
               stopVars, netVars
<1>18. ASSUME NEW s \in Socks, ServerAccepts(s) PROVE TypeOK'
  BY <1>18 DEF ServerAccepts, Deliver, TypeOK, runVars, taskVars, stopVars,
                Codes, Frames
<1>19. ASSUME NEW s \in Socks, ServerRefuses(s) PROVE TypeOK'
  BY <1>19 DEF ServerRefuses, Deliver, TypeOK, runVars, taskVars, stopVars,
                Frames
<1>20. ASSUME NEW s \in Socks, NEW f \in {"ping", "message"},
              ServerPushes(s, f)
       PROVE  TypeOK'
  BY <1>20 DEF ServerPushes, Deliver, TypeOK, runVars, taskVars, stopVars,
                Frames
<1>21. ASSUME NEW s \in Socks, NEW c \in Codes, ServerCloses(s, c)
       PROVE  TypeOK'
  BY <1>21 DEF ServerCloses, TypeOK, runVars, taskVars, stopVars
<1>22. ASSUME NEW s \in Socks, CloseCompletes(s) PROVE TypeOK'
  BY <1>22 DEF CloseCompletes, TypeOK, runVars, taskVars, stopVars
<1>23. CASE UNCHANGED vars
  BY <1>23 DEF TypeOK, vars, runVars, taskVars, stopVars, netVars
<1>24. QED
  BY <1>1, <1>2, <1>3, <1>4, <1>5, <1>6, <1>7, <1>8, <1>9, <1>10, <1>11,
     <1>12, <1>13, <1>14, <1>15, <1>16, <1>17, <1>18, <1>19, <1>20, <1>21,
     <1>22, <1>23
  DEF Next, Connect, Receive, Resume, Server

(* The client's variables keep their types; in particular the backoff      *)
(* never leaves MIN_BACKOFF_MS..MAX_BACKOFF_MS and no delay exceeds 1.25   *)
(* times the maximum, whatever Retry-After values arrive.                  *)
THEOREM TypeCorrect == Spec => []TypeOK
BY InitType, NextType, PTL DEF Spec

-----------------------------------------------------------------------------
(* Sockets *)

(* Where the tail of the loop may lead: out of it exactly when intentional. *)
LEMMA AttemptEnd ==
    ASSUME NEW b, NEW i, NEW a, AfterAttempt(b, i, a)
    PROVE  /\ intentional' = i
           /\ i => runPc' = "done" /\ connected' = FALSE
           /\ ~i => runPc' = "backoff"
BY DEF AfterAttempt

LEMMA InitSocket == Init => SocketInv
BY SocksAssumption DEF Init, SocketInv, Serving

(* A step of the run task that ends an attempt without a socket of its own *)
(* keeps SocketInv, when a replaced client counts as intentional.          *)
LEMMA AttemptSocket ==
    ASSUME TypeOK, SocketInv, NEW b, NEW i \in BOOLEAN, NEW a,
           AfterAttempt(b, i, a),
           UNCHANGED <<ws, taskVars, stopPc, stopSock, netVars>>,
           left \subseteq left', left' \subseteq Socks,
           runPc \notin {"idle", "cancelled", "done"},
           intentional => i,
           ws # NoSock /\ ws \notin left' /\ code[ws] = Replaced => i,
           ws \in left' \/ link[ws] = "closed" \/ runPc = "connecting"
    PROVE  SocketInv'
<1>1. runPc' \in {"backoff", "done"} /\ (runPc' = "backoff" => ~i)
  BY AttemptEnd
<1>2. intentional' = i /\ (i => runPc' = "done" /\ connected' = FALSE)
  BY AttemptEnd
<1>3. stopPc \in {"idle", "closing"}
  BY DEF SocketInv, TypeOK
<1>4. \A s \in Socks : link[s] # "closed" => s \in left'
  <2>1. ASSUME NEW s \in Socks, link[s] # "closed", s \notin left'
        PROVE  FALSE
    BY <1>3, <2>1 DEF SocketInv, Serving, Strayed
  <2>2. QED BY <2>1
<1>5. ws # NoSock /\ ws \notin left' /\ code[ws] = Replaced => link[ws] = "closed"
  BY DEF SocketInv
<1>6. stopPc # "idle" => i
  BY DEF SocketInv
<1>7. stopPc = "closing" => stopSock \in Socks /\ (stopSock = ws \/ stopSock \in left')
  BY DEF SocketInv
<1>8. /\ UNCHANGED <<ws, stopPc, stopSock, link, code>>
      /\ i => runPc' = "done"
  BY <1>2 DEF netVars
<1>9. QED
  BY <1>1, <1>2, <1>3, <1>4, <1>5, <1>6, <1>7, <1>8 DEF SocketInv, Serving

(* stop() cancels the run task once every socket it may leave is closed.   *)
LEMMA CancelSocket ==
    ASSUME TypeOK, SocketInv, CancelRun, intentional',
           UNCHANGED <<ws, stopSock, left, link, code>>,
           \A s \in Socks : link[s] # "closed" =>
               s \in left \/ (s = ws /\ stopSock \in left),
           ws # NoSock /\ ws \notin left /\ code[ws] = Replaced => link[ws] = "closed"
    PROVE  SocketInv'
<1>1. /\ runPc' \in {"cancelled", "done"}
      /\ stopPc' \in {"cancelling", "stopped"}
  BY DEF CancelRun
<1>2. QED BY <1>1 DEF SocketInv, Serving, Strayed

LEMMA NextSocket == TypeOK /\ SocketInv /\ [Next]_vars => SocketInv'
<1> SUFFICES ASSUME TypeOK, SocketInv, [Next]_vars PROVE SocketInv'
  OBVIOUS
<1> USE SocksAssumption
<1>1. CASE Start
  BY <1>1 DEF Start, SocketInv, Serving, Strayed, taskVars, stopVars, netVars
<1>2. ASSUME NEW s \in Socks, ConnectOk(s) PROVE SocketInv'
  <2>1. /\ runPc = "connecting" /\ runPc' = "recv" /\ ws' = s
        /\ s \notin {ws, stopSock} /\ link[s] = "closed"
        /\ link' = [link EXCEPT ![s] = "open"]
        /\ code' = [code EXCEPT ![s] = 0]
        /\ left' = left \ {s}
        /\ UNCHANGED <<intentional, stopPc, stopSock>>
    BY <1>2 DEF ConnectOk
  <2>2. stopPc \in {"idle", "closing"}
    BY <2>1 DEF SocketInv, TypeOK
  <2>3. stopPc = "closing" => stopSock \in left'
    <3>1. ASSUME stopPc = "closing", stopSock = ws, ws \notin left PROVE FALSE
      BY <2>1, <3>1 DEF SocketInv, Serving
    <3>2. QED BY <2>1, <3>1 DEF SocketInv
  <2>4. \A t \in Socks : link'[t] # "closed" => t = s \/ t \in left'
    BY <2>1, <2>2 DEF SocketInv, TypeOK, Serving, Strayed
  <2>5. /\ \A t \in Socks : t = s => code'[t] = 0
        /\ left' \subseteq Socks /\ s \notin left'
    BY <2>1 DEF TypeOK, SocketInv
  <2>6. QED
    BY <2>1, <2>2, <2>3, <2>4, <2>5 DEF SocketInv, Serving, Replaced
<1>3. ASSUME runPc = "connecting", NEW b, NEW a,
             AfterAttempt(b, intentional, a),
             UNCHANGED <<ws, taskVars, stopVars, netVars>>
      PROVE  SocketInv'
  <2>1. ~(ws # NoSock /\ ws \notin left /\ code[ws] = Replaced)
    BY <1>3 DEF SocketInv, Serving
  <2>2. intentional \in BOOLEAN /\ left \subseteq Socks
    BY DEF TypeOK, SocketInv
  <2>3. UNCHANGED <<ws, taskVars, stopPc, stopSock, netVars>> /\ left' = left
    BY <1>3 DEF stopVars
  <2>4. QED BY <1>3, <2>1, <2>2, <2>3, AttemptSocket
<1>4. CASE \E status \in {429, 503, 502}, ra \in RetryAfters :
               ConnectRejected(status, ra)
  BY <1>3, <1>4 DEF ConnectRejected
<1>5. CASE ConnectFails
  BY <1>3, <1>5 DEF ConnectFails
<1>6. CASE RecvAuthOk
  BY <1>6 DEF RecvAuthOk, Take, SocketInv, stopVars, Serving, Strayed
<1>7. CASE RecvAuthFail
  BY <1>7 DEF RecvAuthFail, Take, SocketInv, TypeOK, taskVars, stopVars,
              Serving, Refused, Replaced, Strayed
<1>8. CASE RecvPing
  BY <1>8 DEF RecvPing, Take, SocketInv, Strayed, runVars, taskVars, stopVars
<1>9. CASE RecvMessage
  BY <1>9 DEF RecvMessage, Take, SocketInv, taskVars, stopVars, Serving, Strayed
<1>10. CASE RecvClosed
  <2> DEFINE i == intentional \/ code[ws] = Replaced
  <2>1. i \in BOOLEAN /\ (intentional => i)
    BY DEF TypeOK
  <2>2. runPc = "recv" /\ link[ws] = "closed" /\ left \subseteq Socks
    BY <1>10 DEF RecvClosed, SocketInv
  <2>3. AfterAttempt(backoff, i, 0)
        /\ UNCHANGED <<ws, taskVars, stopPc, stopSock, netVars>> /\ left' = left
    BY <1>10 DEF RecvClosed, stopVars
  <2>4. code[ws] = Replaced => i
    OBVIOUS
  <2> HIDE DEF i
  <2>5. QED BY <2>1, <2>2, <2>3, <2>4, AttemptSocket
<1>11. CASE Derive
  BY <1>11 DEF Derive, SocketInv, stopVars, netVars, Serving, Strayed
<1>12. CASE RefusalClosed
  BY <1>12 DEF RefusalClosed, SocketInv, taskVars, stopVars, netVars, Serving,
               Strayed
<1>13. CASE HandlerReturns
  BY <1>13 DEF HandlerReturns, SocketInv, taskVars, stopVars, netVars, Serving,
               Strayed
<1>14. CASE HandlerRaises
  <2>1. /\ AfterAttempt(backoff, intentional, 0) /\ runPc = "handling"
        /\ left' = left \cup {ws}
        /\ UNCHANGED <<ws, taskVars, stopPc, stopSock, netVars>>
    BY <1>14 DEF HandlerRaises
  <2>2. left' \subseteq Socks /\ left \subseteq left' /\ ws \in left'
    BY <2>1 DEF SocketInv, Serving
  <2>3. intentional \in BOOLEAN
    BY DEF TypeOK
  <2>4. QED BY <2>1, <2>2, <2>3, AttemptSocket
<1>15. CASE BackoffEnds
  BY <1>15 DEF BackoffEnds, SocketInv, taskVars, stopVars, netVars, Serving,
               Strayed
<1>16. CASE ResetFires
  BY <1>16 DEF ResetFires, SocketInv, Strayed, stopVars, netVars
<1>17. CASE StopBegin
  <2>1. stopPc = "idle" /\ runPc \notin {"idle", "cancelled"}
    BY <1>17 DEF StopBegin, SocketInv
  <2>2. CASE CloseYields
    <3>1. /\ ws \in Socks /\ stopPc' = "closing" /\ stopSock' = ws
          /\ intentional' = TRUE
          /\ UNCHANGED <<runPc, ws, left>>
      BY <1>17, <2>2 DEF StopBegin, CloseYields, TypeOK
    <3>2. /\ \A s \in Socks : link'[s] # "closed" => link[s] # "closed"
          /\ code'[ws] = Replaced => code[ws] = Replaced /\ link'[ws] = link[ws]
      BY <1>17, <2>2, <3>1 DEF StopBegin, TypeOK, Normal, Replaced
    <3>3. ws \notin left => runPc \in Serving \cup {"done"}
      BY <2>1, <2>2, <3>1 DEF CloseYields, SocketInv, Strayed
    <3>4. QED
      BY <2>1, <3>1, <3>2, <3>3 DEF SocketInv, Serving, Strayed
  <2>3. CASE ~CloseYields
    <3>1. CancelRun /\ intentional' /\ UNCHANGED <<ws, stopSock, left, link, code>>
      BY <1>17, <2>3 DEF StopBegin
    <3>2. runPc \notin Serving
      BY <2>3 DEF CloseYields, SocketInv
    <3>3. \A s \in Socks : link[s] # "closed" => s \in left
      BY <2>1, <3>2 DEF SocketInv, Strayed
    <3>4. QED BY <3>1, <3>3, CancelSocket DEF SocketInv
  <2>4. QED BY <2>2, <2>3
<1>18. CASE StopEnds
  <2>1. /\ stopPc = "closing" /\ link[stopSock] = "closed" /\ CancelRun
        /\ UNCHANGED <<ws, intentional, stopSock, left, link, code>>
    BY <1>18 DEF StopEnds, netVars
  <2>2. intentional' /\ stopSock \in Socks /\ (stopSock = ws \/ stopSock \in left)
    BY <2>1 DEF SocketInv
  <2>3. \A s \in Socks : link[s] # "closed" =>
            s \in left \/ (s = ws /\ stopSock \in left)
    BY <2>1, <2>2 DEF SocketInv, Strayed
  <2>4. QED BY <2>1, <2>2, <2>3, CancelSocket DEF SocketInv
<1>19. CASE Unwound
  BY <1>19 DEF Unwound, SocketInv, Serving, Strayed, taskVars, stopVars, netVars
<1>20. CASE CancelAwaited
  BY <1>20 DEF CancelAwaited, SocketInv, Serving, Strayed, taskVars, netVars
<1>21. ASSUME UNCHANGED <<runVars, stopVars>>,
              \A s \in Socks : link'[s] # "closed" => link[s] # "closed",
              ws \in Socks /\ code'[ws] = Replaced =>
                  \/ code[ws] = Replaced /\ link'[ws] = link[ws]
                  \/ link[ws] # "closed" /\ link'[ws] = "closed"
       PROVE  SocketInv'
  <2>1. UNCHANGED <<runPc, ws, intentional, stopPc, stopSock, left>>
    BY <1>21 DEF runVars, stopVars
  <2>2. ASSUME ws # NoSock, ws \notin left, code'[ws] = Replaced
        PROVE  link'[ws] = "closed" /\ runPc \in Serving \cup {"cancelled", "done"}
    <3>1. ws \in Socks
      BY <2>2 DEF TypeOK
    <3>2. QED
      BY <1>21, <2>2, <3>1 DEF SocketInv, Strayed
  <2>3. QED BY <1>21, <2>1, <2>2 DEF SocketInv, Strayed
<1>22. ASSUME NEW s \in Socks, ServerAccepts(s) PROVE SocketInv'
  <2> DEFINE older == {t \in Socks \ {s} : link[t] # "closed" /\ auth[t] = "ok"}
  <2>1. /\ link' = [t \in Socks |-> IF t \in older THEN "closed" ELSE link[t]]
        /\ code' = [t \in Socks |-> IF t \in older THEN Replaced ELSE code[t]]
        /\ UNCHANGED <<runVars, stopVars>>
    BY <1>22 DEF ServerAccepts
  <2>2. \A t \in Socks : link'[t] # "closed" => link[t] # "closed"
    BY <2>1
  <2>3. ws \in Socks /\ code'[ws] = Replaced =>
            \/ code[ws] = Replaced /\ link'[ws] = link[ws]
            \/ link[ws] # "closed" /\ link'[ws] = "closed"
    BY <2>1
  <2>4. QED BY <1>21, <2>1, <2>2, <2>3
<1>23. ASSUME NEW s \in Socks, ServerRefuses(s) PROVE SocketInv'
  BY <1>23 DEF ServerRefuses, SocketInv, Strayed, runVars, taskVars, stopVars
<1>24. ASSUME NEW s \in Socks, NEW f \in {"ping", "message"},
              ServerPushes(s, f)
       PROVE  SocketInv'
  BY <1>24 DEF ServerPushes, SocketInv, Strayed, runVars, taskVars, stopVars
<1>25. ASSUME NEW s \in Socks, NEW c \in Codes, ServerCloses(s, c)
       PROVE  SocketInv'
  BY <1>25 DEF ServerCloses, SocketInv, Strayed, TypeOK, runVars, stopVars
<1>26. ASSUME NEW s \in Socks, CloseCompletes(s) PROVE SocketInv'
  BY <1>26 DEF CloseCompletes, SocketInv, Strayed, TypeOK, runVars, taskVars,
               stopVars
<1>27. CASE UNCHANGED vars
  BY <1>27 DEF SocketInv, Strayed, vars, runVars, taskVars, stopVars, netVars
<1>28. QED
  BY <1>1, <1>2, <1>4, <1>5, <1>6, <1>7, <1>8, <1>9, <1>10, <1>11,
     <1>12, <1>13, <1>14, <1>15, <1>16, <1>17, <1>18, <1>19, <1>20,
     <1>22, <1>23, <1>24, <1>25, <1>26, <1>27
  DEF Next, Connect, Receive, Resume, Server

(* The inductive invariant of the sockets: besides the one being served,   *)
(* only sockets that raising handlers left are open, and a client that     *)
(* must not dial is not about to (_run_loop, _connect_once, stop).         *)
THEOREM SocketCorrect == Spec => []SocketInv
<1>1. Init => TypeOK /\ SocketInv
  BY InitType, InitSocket
<1>2. QED BY <1>1, NextSocket, TypeCorrect, PTL DEF Spec

(* The client has at most one socket open beside those that raising        *)
(* handlers left (_run_loop, _connect_once).                               *)
THEOREM OneSocket == Spec => []AtMostOneSocket
<1>1. SocketInv => AtMostOneSocket
  BY DEF SocketInv, AtMostOneSocket
<1>2. QED BY <1>1, SocketCorrect, PTL

(* When stop() has returned every socket is closed, but those that raising *)
(* handlers left and the one that was opened while stop() closed one of    *)
(* them (stop 119-130).                                                    *)
THEOREM StopCorrect == Spec => []StopLeavesNoSocket
<1>1. SocketInv => StopLeavesNoSocket
  BY DEF SocketInv, StopLeavesNoSocket, Serving, Strayed
<1>2. QED BY <1>1, SocketCorrect, PTL

(* Only a client that is dialling takes a new socket. *)
LEMMA WsStable ==
    ASSUME [Next]_vars, runPc # "connecting" PROVE ws' = ws
BY DEF Next, Connect, Receive, Resume, Server, Start, ConnectOk,
       ConnectRejected, ConnectFails, RecvAuthOk, RecvAuthFail, RecvPing,
       RecvMessage, RecvClosed, Derive, RefusalClosed, HandlerReturns,
       HandlerRaises, BackoffEnds, Unwound, ResetFires, StopBegin, StopEnds,
       CancelAwaited, ServerAccepts, ServerRefuses, ServerPushes,
       ServerCloses, CloseCompletes, vars, runVars

(* A client that was stopped, refused or replaced never dials again, if    *)
(* the handler of its latest socket did not raise (_run_loop 155-170).     *)
THEOREM RetiredCorrect == Spec => RetiredStaysDown
<1>1. SocketInv /\ [Next]_vars => [Retired /\ ws \notin left => ws' = ws]_vars
  BY WsStable DEF SocketInv, Serving, Retired
<1>2. QED BY <1>1, SocketCorrect, PTL DEF Spec, RetiredStaysDown

-----------------------------------------------------------------------------
(* The E2E key *)

LEMMA InitKey == Init => KeyInv
BY DEF Init, KeyInv, Serving

(* Delivering frame f to socket s. *)
LEMMA DeliverFacts ==
    ASSUME TypeOK, NEW s \in Socks, NEW f \in Frames, Deliver(s, f)
    PROVE  /\ \A t \in Socks \ {s} : inbox'[t] = inbox[t]
           /\ inbox'[s] # <<>>
           /\ inbox[s] = <<>> => inbox'[s] = <<f>> /\ Head(inbox'[s]) = f
           /\ inbox[s] # <<>> => Head(inbox'[s]) = Head(inbox[s])
<1>1. inbox[s] \in Seq(Frames) /\ inbox' = [inbox EXCEPT ![s] = Append(@, f)]
  BY DEF TypeOK, Deliver
<1>2. inbox'[s] = Append(inbox[s], f)
  BY <1>1 DEF TypeOK
<1>3. \A t \in Socks \ {s} : inbox'[t] = inbox[t]
  BY <1>1 DEF TypeOK
<1>4. inbox'[s] # <<>>
  BY <1>1, <1>2
<1>5. inbox[s] = <<>> => inbox'[s] = <<f>> /\ Head(inbox'[s]) = f
  BY <1>1, <1>2
<1>6. inbox[s] # <<>> => Head(inbox'[s]) = Head(inbox[s])
  BY <1>1, <1>2
<1>7. QED BY <1>3, <1>4, <1>5, <1>6

LEMMA NextKey == TypeOK /\ KeyInv /\ [Next]_vars => KeyInv'
<1> SUFFICES ASSUME TypeOK, KeyInv, [Next]_vars PROVE KeyInv'
  OBVIOUS
<1>1. CASE Start
  BY <1>1 DEF Start, KeyInv, Serving, taskVars, stopVars, netVars
<1>2. ASSUME NEW s \in Socks, ConnectOk(s) PROVE KeyInv'
  BY <1>2 DEF ConnectOk, KeyInv, TypeOK, taskVars, stopVars, Serving
<1>3. ASSUME UNCHANGED <<ws, taskVars, netVars>>,
             runPc' \in {"backoff", "done", "connecting"}
      PROVE  KeyInv'
  BY <1>3 DEF KeyInv, Serving, taskVars, netVars
<1>4. CASE \E status \in {429, 503, 502}, ra \in RetryAfters :
               ConnectRejected(status, ra)
  BY <1>3, <1>4 DEF ConnectRejected, AfterAttempt
<1>5. CASE ConnectFails
  BY <1>3, <1>5 DEF ConnectFails, AfterAttempt
<1>6. CASE RecvClosed
  BY <1>3, <1>6 DEF RecvClosed, AfterAttempt
<1>7. CASE HandlerRaises
  BY <1>3, <1>7 DEF HandlerRaises, AfterAttempt
<1>8. CASE BackoffEnds
  BY <1>3, <1>8 DEF BackoffEnds
<1>9. ASSUME NEW f, Take(f)
      PROVE  /\ ws \in Socks
             /\ inbox[ws] # <<>> /\ Head(inbox[ws]) = f
             /\ inbox[ws] \in Seq(Frames)
             /\ inbox'[ws] = Tail(inbox[ws])
             /\ \A s \in Socks \ {ws} : inbox'[s] = inbox[s]
             /\ auth[ws] \in {"ok", "refused"}
             /\ auth[ws] = "refused" => f = "auth.fail" /\ inbox'[ws] = <<>>
             /\ E2EPassword /\ key = "none" /\ auth[ws] = "ok" => f = "auth.ok"
  <2>1. ws \in Socks /\ runPc = "recv"
    BY <1>9 DEF Take, KeyInv, Serving
  <2>2. inbox[ws] # <<>> /\ Head(inbox[ws]) = f /\ inbox[ws] \in Seq(Frames)
    BY <1>9, <2>1 DEF Take, TypeOK
  <2>3. inbox'[ws] = Tail(inbox[ws])
        /\ \A s \in Socks \ {ws} : inbox'[s] = inbox[s]
    BY <1>9, <2>1 DEF Take, TypeOK
  <2>4. auth[ws] \in {"ok", "refused"}
    BY <2>1, <2>2 DEF KeyInv, TypeOK
  <2>5. auth[ws] = "refused" => inbox[ws] = <<"auth.fail">>
    BY <2>1, <2>2 DEF KeyInv
  <2>6. auth[ws] = "refused" => f = "auth.fail" /\ inbox'[ws] = <<>>
    <3>1. Head(<<"auth.fail">>) = "auth.fail" /\ Tail(<<"auth.fail">>) = <<>>
      OBVIOUS
    <3>2. QED BY <2>2, <2>3, <2>5, <3>1
  <2>7. E2EPassword /\ key = "none" /\ auth[ws] = "ok" => f = "auth.ok"
    BY <2>1, <2>2 DEF KeyInv
  <2>8. QED BY <2>1, <2>2, <2>3, <2>4, <2>6, <2>7
<1>10. ASSUME NEW f, Take(f), auth' = auth
       PROVE  \A s \in Socks :
                 /\ auth'[s] \in {"none", "sent"} => inbox'[s] = <<>>
                 /\ auth'[s] = "refused" =>
                        inbox'[s] = <<>> \/ inbox'[s] = <<"auth.fail">>
  BY <1>9, <1>10 DEF KeyInv
<1>11. CASE RecvAuthOk
  BY <1>9, <1>10, <1>11 DEF RecvAuthOk, KeyInv, Serving
<1>12. CASE RecvAuthFail
  BY <1>9, <1>10, <1>12 DEF RecvAuthFail, KeyInv, Serving, taskVars
<1>13. CASE RecvPing
  BY <1>9, <1>10, <1>13 DEF RecvPing, KeyInv, runVars, taskVars, Serving
<1>14. CASE RecvMessage
  BY <1>9, <1>10, <1>14 DEF RecvMessage, KeyInv, Serving, taskVars
<1>15. CASE Derive
  BY <1>15 DEF Derive, KeyInv, netVars, Serving
<1>16. CASE RefusalClosed
  BY <1>16 DEF RefusalClosed, KeyInv, taskVars, netVars, Serving
<1>17. CASE HandlerReturns
  BY <1>17 DEF HandlerReturns, KeyInv, taskVars, netVars, Serving
<1>18. CASE ResetFires
  BY <1>18 DEF ResetFires, KeyInv, netVars
<1>19. CASE StopBegin
  BY <1>19 DEF StopBegin, CancelRun, KeyInv, Serving
<1>20. CASE StopEnds \/ Unwound \/ CancelAwaited
  BY <1>20 DEF StopEnds, CancelRun, Unwound, CancelAwaited, KeyInv, taskVars,
               netVars, Serving
<1>21. ASSUME NEW s \in Socks, ServerAccepts(s) PROVE KeyInv'
  <2>1. Deliver(s, "auth.ok") /\ auth[s] = "sent"
        /\ auth' = [auth EXCEPT ![s] = "ok"]
        /\ UNCHANGED <<runVars, taskVars, stopVars>>
    BY <1>21 DEF ServerAccepts
  <2>2. inbox[s] = <<>>
    BY <2>1 DEF KeyInv
  <2>3. /\ Head(inbox'[s]) = "auth.ok" /\ inbox'[s] # <<>>
        /\ \A t \in Socks \ {s} : inbox'[t] = inbox[t]
    BY <2>1, <2>2, DeliverFacts DEF Frames
  <2>4. QED
    BY <2>1, <2>3 DEF KeyInv, TypeOK, runVars, taskVars, Serving
<1>22. ASSUME NEW s \in Socks, ServerRefuses(s) PROVE KeyInv'
  <2>1. Deliver(s, "auth.fail") /\ auth[s] = "sent"
        /\ auth' = [auth EXCEPT ![s] = "refused"]
        /\ UNCHANGED <<runVars, taskVars, stopVars>>
    BY <1>22 DEF ServerRefuses
  <2>2. inbox[s] = <<>>
    BY <2>1 DEF KeyInv
  <2>3. "auth.fail" \in Frames
    BY DEF Frames
  <2>4. inbox'[s] = <<"auth.fail">>
    BY <2>1, <2>2, <2>3, DeliverFacts
  <2>5. \A t \in Socks \ {s} : inbox'[t] = inbox[t]
    BY <2>1, <2>3, DeliverFacts
  <2>6. QED
    BY <2>1, <2>4, <2>5 DEF KeyInv, TypeOK, runVars, taskVars, Serving
<1>23. ASSUME NEW s \in Socks, NEW f \in {"ping", "message"},
              ServerPushes(s, f)
       PROVE  KeyInv'
  <2>1. Deliver(s, f) /\ auth[s] = "ok" /\ auth' = auth
        /\ UNCHANGED <<runVars, taskVars, stopVars>>
    BY <1>23 DEF ServerPushes
  <2>2. /\ \A t \in Socks \ {s} : inbox'[t] = inbox[t]
        /\ inbox'[s] # <<>>
        /\ inbox[s] # <<>> => Head(inbox'[s]) = Head(inbox[s])
    BY <2>1, DeliverFacts DEF Frames
  <2>3. QED BY <2>1, <2>2 DEF KeyInv, runVars, taskVars, Serving
<1>24. ASSUME NEW s \in Socks, NEW c \in Codes, ServerCloses(s, c)
       PROVE  KeyInv'
  BY <1>24 DEF ServerCloses, KeyInv, runVars, taskVars
<1>25. ASSUME NEW s \in Socks, CloseCompletes(s) PROVE KeyInv'
  BY <1>25 DEF CloseCompletes, KeyInv, runVars, taskVars
<1>26. CASE UNCHANGED vars
  BY <1>26 DEF KeyInv, vars, runVars, taskVars, netVars
<1>27. QED
  BY <1>1, <1>2, <1>4, <1>5, <1>6, <1>7, <1>8, <1>11, <1>12, <1>13, <1>14,
     <1>15, <1>16, <1>17, <1>18, <1>19, <1>20, <1>21, <1>22, <1>23, <1>24,
     <1>25, <1>26
  DEF Next, Connect, Receive, Resume, Server

(* With E2E on, no message reaches the adapter before a derivation of the  *)
(* key was tried, on any connection, whether or not the handler raises.    *)
THEOREM KeyCorrect == Spec => []KeyBeforeMessages
<1>1. Init => TypeOK /\ KeyInv
  BY InitType, InitKey
<1>2. TypeOK /\ KeyInv /\ [Next]_vars => KeyInv'
  BY NextKey
<1>3. KeyInv => KeyBeforeMessages
  BY DEF KeyInv, KeyBeforeMessages
<1>4. QED BY <1>1, <1>2, <1>3, TypeCorrect, PTL DEF Spec

-----------------------------------------------------------------------------
(* stop(), whether or not a handler raises *)

(* No step disturbs a client whose stop() has returned: none of its tasks  *)
(* can run, and what the server and the timers still do leaves it alone.   *)
LEMMA NextStop ==
    SocketInv /\ StopIsFinal /\ [Next]_vars => StopIsFinal'
<1> SUFFICES ASSUME SocketInv, StopIsFinal, [Next]_vars PROVE StopIsFinal'
  OBVIOUS
<1>0. stopPc \in {"cancelling", "stopped"} => runPc \in {"cancelled", "done"}
  BY DEF SocketInv
<1>1. CASE Start
  BY <1>0, <1>1 DEF Start, StopIsFinal, stopVars
<1>2. ASSUME runPc \notin {"idle", "cancelled", "done"}, UNCHANGED stopPc
      PROVE  StopIsFinal'
  BY <1>0, <1>2 DEF StopIsFinal
<1>3. ASSUME UNCHANGED <<stopPc, runPc, connected>> PROVE StopIsFinal'
  BY <1>3 DEF StopIsFinal
<1>4. CASE Connect
  BY <1>2, <1>4
  DEF Connect, ConnectOk, ConnectRejected, ConnectFails, stopVars
<1>5. CASE Receive
  BY <1>2, <1>5
  DEF Receive, RecvAuthOk, RecvAuthFail, RecvPing, RecvMessage, RecvClosed,
      Take, stopVars
<1>6. CASE Derive \/ RefusalClosed \/ HandlerReturns \/ HandlerRaises
           \/ BackoffEnds
  BY <1>2, <1>6
  DEF Derive, RefusalClosed, HandlerReturns, HandlerRaises, BackoffEnds,
      stopVars
<1>7. CASE Unwound
  BY <1>7 DEF Unwound, StopIsFinal, stopVars
<1>8. CASE ResetFires
  BY <1>3, <1>8 DEF ResetFires, stopVars
<1>9. CASE StopBegin
  <2>1. CASE CloseYields
    BY <1>9, <2>1 DEF StopBegin, StopIsFinal
  <2>2. CASE ~CloseYields
    BY <1>9, <2>2 DEF StopBegin, CancelRun, StopIsFinal
  <2>3. QED BY <2>1, <2>2
<1>10. CASE StopEnds
  BY <1>10 DEF StopEnds, CancelRun, StopIsFinal
<1>11. CASE CancelAwaited
  BY <1>0, <1>11 DEF CancelAwaited, StopIsFinal
<1>12. CASE Server
  BY <1>3, <1>12
  DEF Server, ServerAccepts, ServerRefuses, ServerPushes, ServerCloses,
      CloseCompletes, runVars, stopVars
<1>13. CASE UNCHANGED vars
  BY <1>3, <1>13 DEF vars, runVars, stopVars
<1>14. QED
  BY <1>1, <1>4, <1>5, <1>6, <1>7, <1>8, <1>9, <1>10, <1>11, <1>12, <1>13
  DEF Next, Resume

(* Once stop() has returned the run task is over or unwinding, and the     *)
(* client reported disconnected, for good (stop).                          *)
THEOREM StopFinalCorrect == Spec => []StopIsFinal
<1>1. Init => StopIsFinal
  BY DEF Init, StopIsFinal
<1>2. QED BY <1>1, NextStop, SocketCorrect, PTL DEF Spec

-----------------------------------------------------------------------------
(* Retry-After *)

(* An attempt that ends with a backoff of at least what was asked, as far  *)
(* as the cap allows, sleeps long enough.                                  *)
LEMMA AttemptSleeps ==
    ASSUME NEW b \in MinBackoff..MaxBackoff, NEW i, NEW a \in Int,
           Lesser(a, MaxBackoff) <= b,
           AfterAttempt(b, i, a)
    PROVE  StaysAway'
<1>1. CASE i
  BY <1>1 DEF AfterAttempt, StaysAway
<1>2. CASE ~i
  <2>1. PICK j \in Jitters : nap' = b * j
    BY <1>2 DEF AfterAttempt
  <2>2. b * j >= 75 * b /\ b * j \in Nat /\ b \in Nat
    BY NapBound, BackoffAssumption DEF MaxNap
  <2>3. Lesser(a, MaxBackoff) \in Int
    BY BackoffAssumption DEF Lesser
  <2>4. nap' >= 75 * Lesser(a, MaxBackoff)
    BY <2>1, <2>2, <2>3
  <2>5. asked' = a
    BY <1>2 DEF AfterAttempt
  <2>6. QED BY <2>4, <2>5 DEF StaysAway
<1>3. QED BY <1>1, <1>2

LEMMA NextStaysAway == TypeOK /\ StaysAway /\ [Next]_vars => StaysAway'
<1> SUFFICES ASSUME TypeOK, StaysAway, [Next]_vars PROVE StaysAway'
  OBVIOUS
<1>1. ASSUME runPc' # "backoff" PROVE StaysAway'
  BY <1>1 DEF StaysAway
<1>2. ASSUME runPc' = runPc, UNCHANGED <<nap, asked>> PROVE StaysAway'
  BY <1>2 DEF StaysAway
<1>3. backoff \in MinBackoff..MaxBackoff /\ Lesser(0, MaxBackoff) <= backoff
  BY BackoffAssumption DEF TypeOK, Lesser
<1>4. ASSUME NEW i, AfterAttempt(backoff, i, 0) PROVE StaysAway'
  BY <1>3, <1>4, AttemptSleeps
<1>5. ASSUME NEW status \in {429, 503, 502}, NEW ra \in RetryAfters,
             ConnectRejected(status, ra)
      PROVE  StaysAway'
  <2> DEFINE secs == IF status = 503 /\ ra = 0 THEN ServiceRetry ELSE ra
             honoured == status = 503 \/ (status = 429 /\ ra > 0)
             raised == Lesser(Greater(backoff, secs), MaxBackoff)
             b == IF honoured THEN raised ELSE backoff
             a == IF honoured THEN secs ELSE 0
  <2>1. secs \in Int
    BY BackoffAssumption
  <2>2. raised \in MinBackoff..MaxBackoff
        /\ Lesser(secs, MaxBackoff) <= raised
    BY <1>3, <2>1, BackoffAssumption DEF Lesser, Greater
  <2>3. b \in MinBackoff..MaxBackoff /\ a \in Int
        /\ Lesser(a, MaxBackoff) <= b
    BY <1>3, <2>1, <2>2
  <2>4. AfterAttempt(b, intentional, a)
    BY <1>5 DEF ConnectRejected
  <2> HIDE DEF b, a
  <2>5. QED BY <2>3, <2>4, AttemptSleeps
<1>6. CASE ConnectFails
  BY <1>4, <1>6 DEF ConnectFails
<1>7. CASE RecvClosed
  BY <1>4, <1>7 DEF RecvClosed
<1>8. CASE HandlerRaises
  BY <1>4, <1>8 DEF HandlerRaises
<1>9. CASE Start \/ BackoffEnds \/ StopEnds \/ Unwound \/ Derive
           \/ RefusalClosed \/ HandlerReturns \/ RecvAuthOk \/ RecvAuthFail
           \/ RecvMessage
  BY <1>1, <1>9
  DEF Start, BackoffEnds, StopEnds, CancelRun, Unwound, Derive,
      RefusalClosed, HandlerReturns, RecvAuthOk, RecvAuthFail, RecvMessage
<1>10. ASSUME NEW s \in Socks, ConnectOk(s) PROVE StaysAway'
  BY <1>1, <1>10 DEF ConnectOk
<1>11. CASE RecvPing \/ ResetFires \/ CancelAwaited
  BY <1>2, <1>11 DEF RecvPing, ResetFires, CancelAwaited, runVars
<1>12. CASE StopBegin
  BY <1>1, <1>2, <1>12 DEF StopBegin, CancelRun
<1>13. CASE Server
  BY <1>2, <1>13
  DEF Server, ServerAccepts, ServerRefuses, ServerPushes, ServerCloses,
      CloseCompletes, runVars
<1>14. CASE UNCHANGED vars
  BY <1>2, <1>14 DEF vars, runVars
<1>15. QED
  BY <1>5, <1>6, <1>7, <1>8, <1>9, <1>10, <1>11, <1>12, <1>13, <1>14
  DEF Next, Connect, Receive, Resume

(* Every delay after a 429 or a 503 is at least 0.75 times the smaller of  *)
(* Retry-After and MAX_BACKOFF_MS.                                         *)
THEOREM StaysAwayCorrect == Spec => []StaysAway
<1>1. Init => StaysAway
  BY DEF Init, StaysAway
<1>2. QED BY <1>1, NextStaysAway, TypeCorrect, PTL DEF Spec

-----------------------------------------------------------------------------
(* AgentLink *)

LEMMA InitLink == Init => Link!Init
BY DEF Init, Link!Init, Line, Retired

(* The line only depends on the sockets and what the server made of them. *)
LEMMA LineKept ==
    ASSUME link' = link, auth' = auth PROVE Line' = Line
BY DEF Line

(* While no socket was left behind, only the one being served is open. *)
LEMMA OnlyServed ==
    ASSUME SocketInv, left = {}, NEW s \in Socks, link[s] # "closed"
    PROVE  s = ws /\ runPc \in Serving
BY DEF SocketInv, Strayed

(* Retirement is final, unless a socket was left behind. *)
LEMMA RetiredKept ==
    ASSUME TypeOK, SocketInv, [Next]_vars, Retired, left = {}
    PROVE  Retired'
<1> USE DEF Next, Connect, Receive, Resume, Server, Start, ConnectOk,
            ConnectRejected, ConnectFails, RecvAuthOk, RecvAuthFail, RecvPing,
            RecvMessage, Take, RecvClosed, Derive, RefusalClosed,
            HandlerReturns, HandlerRaises, BackoffEnds, Unwound, ResetFires,
            StopBegin, CancelRun, StopEnds, CancelAwaited, ServerAccepts,
            ServerRefuses, ServerPushes, ServerCloses, CloseCompletes, vars,
            runVars
<1>1. CASE runPc = "done"
  <2>1. runPc' = "done"
    BY <1>1
  <2>2. QED BY <2>1 DEF Retired
<1>2. CASE intentional
  <2>1. runPc \in Serving \cup {"cancelled", "done"}
    BY <1>2 DEF SocketInv
  <2>2. intentional' = TRUE
    BY <1>2, <2>1, AttemptEnd DEF Serving
  <2>3. QED BY <2>2 DEF Retired
<1>3. CASE ws # NoSock /\ code[ws] = Replaced
  <2>1. /\ runPc \in Serving \cup {"cancelled", "done"}
        /\ link[ws] = "closed" /\ ws \in Socks
    BY <1>3 DEF SocketInv, TypeOK
  <2>2. ws' = ws
    BY <2>1, WsStable DEF Serving
  <2>3. code'[ws] = Replaced
    BY <1>3, <2>1 DEF Serving, TypeOK, netVars
  <2>4. QED BY <1>3, <2>2, <2>3 DEF Retired
<1>4. QED BY <1>1, <1>2, <1>3 DEF Retired

(* A step that leaves the line alone is a stutter or a retirement. *)
LEMMA LineStep ==
    ASSUME Line' = Line, Retired => Retired'
    PROVE  [Link!Next]_(Link!linkVars)
<1>1. CASE Retired <=> Retired'
  BY <1>1 DEF Link!linkVars, Retired
<1>2. CASE ~Retired /\ Retired'
  BY <1>2 DEF Link!Next, Link!Retire, Retired
<1>3. QED BY <1>1, <1>2

(* Under SocketInv the line is that of the one socket that is not closed,  *)
(* while none was left behind.                                             *)
LEMMA LineOf ==
    ASSUME SocketInv, left = {}
    PROVE  /\ (\A s \in Socks : link[s] = "closed") => Line = "down"
           /\ \A s \in Socks : link[s] # "closed" =>
                  Line = IF auth[s] = "ok" THEN "serving" ELSE "greeting"
<1>1. \A s, t \in Socks : link[s] # "closed" /\ link[t] # "closed" => s = t
  BY OnlyServed
<1>2. QED BY <1>1 DEF Line

LEMMA NextLink ==
    ASSUME TypeOK, SocketInv, SocketInv', TypeOK', [Next]_vars,
           left = {}, left' = {}
    PROVE  [Link!Next]_(Link!linkVars)
<1> USE SocksAssumption
<1>0. \A s \in Socks : link'[s] # "closed" => s = ws' /\ runPc' \in Serving
  BY DEF SocketInv, Strayed
<1>1. ASSUME UNCHANGED <<link, auth>> PROVE [Link!Next]_(Link!linkVars)
  BY <1>1, LineKept, LineStep, RetiredKept
<1>2. ASSUME NEW s \in Socks, ConnectOk(s)
      PROVE  [Link!Next]_(Link!linkVars)
  <2>1. runPc = "connecting" /\ ws' = s /\ link'[s] = "open"
        /\ auth'[s] = "sent" /\ code'[s] = 0 /\ runPc' = "recv"
        /\ intentional' = intentional
    BY <1>2 DEF ConnectOk, TypeOK
  <2>2. \A t \in Socks : link[t] = "closed"
    BY <2>1, OnlyServed DEF Serving
  <2>3. Line = "down"
    BY <2>2, LineOf
  <2>4. Line' = "greeting"
    BY <1>0, <2>1 DEF Line
  <2>5. ~Retired /\ ~Retired'
    BY <2>1 DEF Retired, SocketInv, Serving, Replaced
  <2>6. Retired = FALSE /\ Retired' = FALSE
    BY <2>5 DEF Retired
  <2>7. QED BY <2>3, <2>4, <2>6 DEF Link!Next, Link!Dial
<1>3. ASSUME NEW s \in Socks, link[s] # "closed", link'[s] # "closed",
             auth'[s] = "ok" <=> auth[s] = "ok"
      PROVE  [Link!Next]_(Link!linkVars)
  <2>1. Line = IF auth[s] = "ok" THEN "serving" ELSE "greeting"
    BY <1>3, LineOf
  <2>2. \A t \in Socks : link'[t] # "closed" => t = s
    BY <1>0, <1>3
  <2>3. Line' = IF auth'[s] = "ok" THEN "serving" ELSE "greeting"
    BY <1>3, <2>2 DEF Line
  <2>4. QED BY <1>3, <2>1, <2>3, LineStep, RetiredKept
<1>4. CASE RecvAuthFail
  <2>1. runPc = "recv" /\ ws \in Socks /\ auth' = auth
    BY <1>4 DEF RecvAuthFail, Take, SocketInv, Serving
  <2>2. CASE link[ws] = "open"
    <3>1. link'[ws] = "closing"
      BY <1>4, <2>1, <2>2 DEF RecvAuthFail, TypeOK
    <3>2. QED BY <1>3, <2>1, <2>2, <3>1
  <2>3. CASE link[ws] # "open"
    BY <1>1, <1>4, <2>1, <2>3 DEF RecvAuthFail
  <2>4. QED BY <2>2, <2>3
<1>5. CASE StopBegin
  <2>1. auth' = auth
    BY <1>5 DEF StopBegin
  <2>2. CASE CloseYields /\ link[ws] = "open"
    <3>1. ws \in Socks /\ link'[ws] = "closing"
      BY <1>5, <2>2 DEF StopBegin, CloseYields, TypeOK
    <3>2. QED BY <1>3, <2>1, <2>2, <3>1
  <2>3. CASE ~(CloseYields /\ link[ws] = "open")
    BY <1>1, <1>5, <2>1, <2>3 DEF StopBegin
  <2>4. QED BY <2>2, <2>3
<1>6. ASSUME NEW s \in Socks, link[s] # "closed", auth' = auth,
             link' = [link EXCEPT ![s] = "closed"],
             ~Retired /\ Retired' => auth[s] = "ok"
      PROVE  [Link!Next]_(Link!linkVars)
  <2>1. Line = IF auth[s] = "ok" THEN "serving" ELSE "greeting"
    BY <1>6, LineOf
  <2>2. \A t \in Socks : link'[t] = "closed"
    BY <1>6, OnlyServed DEF TypeOK
  <2>3. Line' = "down"
    BY <2>2 DEF Line
  <2>4. Retired => Retired'
    BY RetiredKept
  <2>5. CASE Retired <=> Retired'
    BY <2>1, <2>3, <2>5 DEF Link!Next, Link!Drop, Retired
  <2>6. CASE ~Retired /\ Retired'
    BY <1>6, <2>1, <2>3, <2>6 DEF Link!Next, Link!Replace, Retired
  <2>7. QED BY <2>4, <2>5, <2>6
<1>7. ASSUME NEW s \in Socks, ServerAccepts(s)
      PROVE  [Link!Next]_(Link!linkVars)
  <2>1. link[s] # "closed" /\ auth[s] = "sent" /\ auth'[s] = "ok"
    BY <1>7 DEF ServerAccepts, TypeOK
  <2>2. UNCHANGED <<link, code>>
    BY <1>7, <2>1, OnlyServed DEF ServerAccepts, TypeOK
  <2>3. Line = "greeting"
    BY <2>1, LineOf
  <2>4. Line' = "serving"
    BY <2>1, <2>2 DEF Line
  <2>5. Retired' = Retired
    BY <1>7, <2>2 DEF ServerAccepts, Retired, runVars
  <2>6. QED BY <2>3, <2>4, <2>5 DEF Link!Next, Link!Admit
<1>8. ASSUME NEW s \in Socks, ServerRefuses(s)
      PROVE  [Link!Next]_(Link!linkVars)
  BY <1>3, <1>8 DEF ServerRefuses, TypeOK
<1>9. ASSUME NEW s \in Socks, NEW c \in Codes, ServerCloses(s, c)
      PROVE  [Link!Next]_(Link!linkVars)
  <2>1. ~Retired /\ Retired' => auth[s] = "ok"
    BY <1>9 DEF ServerCloses, Retired, runVars, TypeOK
  <2>2. QED BY <1>6, <1>9, <2>1 DEF ServerCloses
<1>10. ASSUME NEW s \in Socks, CloseCompletes(s)
       PROVE  [Link!Next]_(Link!linkVars)
  <2>1. Retired' = Retired
    BY <1>10 DEF CloseCompletes, Retired, runVars
  <2>2. QED BY <1>6, <1>10, <2>1 DEF CloseCompletes
<1>11. CASE UNCHANGED <<link, auth>>
  BY <1>1, <1>11
<1>12. QED
  BY <1>2, <1>4, <1>5, <1>7, <1>8, <1>9, <1>10, <1>11
  DEF Next, Connect, Receive, Resume, Server, Start, ConnectRejected,
      ConnectFails, RecvAuthOk, RecvPing, RecvMessage, RecvClosed, Derive,
      RefusalClosed, HandlerReturns, HandlerRaises, BackoffEnds, Unwound,
      ResetFires, StopEnds, CancelAwaited, ServerPushes, vars, netVars

(* The client implements the promise of AgentLink, one connection at a     *)
(* time and none after retirement, in every step that no socket left by a  *)
(* raising handler has a part in.                                          *)
THEOREM LinkCorrect == Spec => ImplementsLink
<1>1. TypeOK /\ SocketInv /\ TypeOK' /\ SocketInv' /\ [Next]_vars
          => [left = {} /\ left' = {} => [Link!Next]_(Link!linkVars)]_vars
  BY NextLink
<1>2. QED
  BY <1>1, InitLink, TypeCorrect, SocketCorrect, PTL
  DEF Spec, ImplementsLink
=============================================================================
