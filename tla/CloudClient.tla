----------------------------- MODULE CloudClient -----------------------------
(***************************************************************************)
(* The reconnecting WebSocket client of the plugin (ws_client.py, class    *)
(* BotsChatCloudClient) together with the sockets it opens and the         *)
(* ConnectionDO at their far end.                                          *)
(*                                                                         *)
(* The client is an asyncio object: the run task (_run_loop), the caller   *)
(* of stop(), the heartbeat task and the backoff-reset task interleave     *)
(* only where one of them awaits.  An action below is the code between two *)
(* such points; runPc and stopPc name the await a task is parked at.       *)
(*                                                                         *)
(* A socket is a recyclable identity.  Frames that reached the client stay *)
(* in its inbox after the socket is closed: `async for raw in ws` hands    *)
(* out the buffered frames before it reports the close.                    *)
(***************************************************************************)
EXTENDS Integers, Sequences

CONSTANTS
    Socks,           \* identities of the sockets the client may open
    NoSock,          \* stands for None
    MinBackoff,      \* MIN_BACKOFF_MS, in units of the model
    MaxBackoff,      \* MAX_BACKOFF_MS
    ServiceRetry,    \* the 300 s assumed of a 503 that names no Retry-After
    RetryAfters,     \* the Retry-After values a server may send, 0 for none
    Jitters,         \* the jitter factors, in percent
    InboxBound,      \* bound on the frames a socket buffers
    E2EPassword,     \* is an E2E password configured (and a userId sent)?
    HandlerMayRaise  \* may on_message raise?

ASSUME SocksAssumption == NoSock \notin Socks
ASSUME BackoffAssumption ==
    /\ MinBackoff \in Nat \ {0}
    /\ MaxBackoff \in Nat
    /\ MinBackoff <= MaxBackoff
    /\ ServiceRetry \in Nat \ {0}
    /\ RetryAfters \subseteq Int
ASSUME JitterAssumption ==
    Jitters \subseteq 75..125 /\ Jitters # {}
ASSUME FlagAssumption ==
    /\ InboxBound \in Nat \ {0}
    /\ E2EPassword \in BOOLEAN
    /\ HandlerMayRaise \in BOOLEAN

VARIABLES
    \* the run task
    runPc,        \* the await the run task is parked at
    ws,           \* _ws
    intentional,  \* _intentional_close
    connected,    \* connected, as the adapter and the gateway read it
    backoff,      \* _backoff_ms
    nap,          \* 100 times the delay of the _sleep_backoff in progress
    asked,        \* Retry-After the server asked of that sleep, 0 if none
    \* the tasks auth.ok starts, and the key it derives
    keepalive,    \* is _keepalive_task running?
    resetFor,     \* the socket whose auth.ok scheduled the pending reset
    key,          \* e2e_key: "none", "failed" (tried, still None), "ready"
    \* the caller of stop()
    stopPc,       \* where the caller of stop() is
    stopSock,     \* the socket stop() is closing
    left,         \* sockets a raising handler left, until they are reused
    \* the sockets and the ConnectionDO
    link,         \* socket |-> "open", "closing" (we sent close), "closed"
    code,         \* socket |-> close code, 0 while there is none
    auth,         \* socket |-> what the server made of its auth frame
    inbox         \* socket |-> frames that reached the client, unread

runVars   == <<runPc, ws, intentional, connected, backoff, nap, asked>>
taskVars  == <<keepalive, resetFor, key>>
stopVars  == <<stopPc, stopSock, left>>
netVars   == <<link, code, auth, inbox>>
vars      == <<runVars, taskVars, stopVars, netVars>>

Normal   == 1000   \* close(1000) of stop(), or a clean close by the server
Lost     == 1006   \* the transport died without a close frame
Refused  == 4001   \* CLOSE_AUTH_FAILED
Replaced == 4009   \* CLOSE_REPLACED

Codes  == {Normal, Lost, Refused, Replaced}
Frames == {"auth.ok", "auth.fail", "ping", "message"}

Lesser(a, b)  == IF a <= b THEN a ELSE b
Greater(a, b) == IF a >= b THEN a ELSE b

MaxNap == 125 * MaxBackoff   \* the longest delay the jitter can draw

(* The awaits at which the run task is serving socket ws. *)
Serving == {"recv", "deriving", "refusing", "handling"}

TypeOK ==
    /\ runPc \in {"idle", "connecting", "backoff", "cancelled", "done"}
                    \cup Serving
    /\ ws \in Socks \cup {NoSock}
    /\ intentional \in BOOLEAN
    /\ connected \in BOOLEAN
    /\ backoff \in MinBackoff..MaxBackoff
    /\ nap \in 0..MaxNap
    /\ asked \in Int
    /\ keepalive \in BOOLEAN
    /\ resetFor \in Socks \cup {NoSock}
    /\ key \in {"none", "failed", "ready"}
    /\ stopPc \in {"idle", "closing", "cancelling", "stopped"}
    /\ stopSock \in Socks \cup {NoSock}
    /\ left \subseteq Socks \cup {NoSock}
    /\ link \in [Socks -> {"open", "closing", "closed"}]
    /\ code \in [Socks -> {0} \cup Codes]
    /\ auth \in [Socks -> {"none", "sent", "ok", "refused"}]
    /\ inbox \in [Socks -> Seq(Frames)]

Init ==
    /\ runPc = "idle"
    /\ ws = NoSock
    /\ intentional = FALSE
    /\ connected = FALSE
    /\ backoff = MinBackoff
    /\ nap = 0
    /\ asked = 0
    /\ keepalive = FALSE
    /\ resetFor = NoSock
    /\ key = "none"
    /\ stopPc = "idle"
    /\ stopSock = NoSock
    /\ left = {}
    /\ link = [s \in Socks |-> "closed"]
    /\ code = [s \in Socks |-> 0]
    /\ auth = [s \in Socks |-> "none"]
    /\ inbox = [s \in Socks |-> <<>>]

-----------------------------------------------------------------------------
(* The run task *)

(* Mutants of AfterAttempt: the doubling is not capped; the loop is left   *)
(* without reporting the client disconnected.                              *)
AfterAttemptUncapped(b, i, a) ==
    /\ intentional' = i
    /\ runPc' = IF i THEN "done" ELSE "backoff"
    /\ connected' = IF i THEN FALSE ELSE connected
    /\ backoff' = IF i THEN b ELSE 2 * b
    /\ \E j \in Jitters : nap' = IF i THEN nap ELSE b * j
    /\ asked' = IF i THEN asked ELSE a
AfterAttemptKeepsStatus(b, i, a) ==
    /\ intentional' = i
    /\ runPc' = IF i THEN "done" ELSE "backoff"
    /\ backoff' = IF i THEN b ELSE Lesser(2 * b, MaxBackoff)
    /\ \E j \in Jitters : nap' = IF i THEN nap ELSE b * j
    /\ asked' = IF i THEN asked ELSE a
    /\ UNCHANGED connected

(* The code after the try of _run_loop, entered with the backoff b (which  *)
(* a rejection may just have raised), the flag i and the Retry-After a:    *)
(* leave the loop when the close is intentional, else sleep and double.    *)
AfterAttempt(b, i, a) ==
    /\ intentional' = i
    /\ \/ /\ i
          /\ runPc' = "done"
          /\ connected' = FALSE
          /\ backoff' = b
          /\ UNCHANGED <<nap, asked>>
       \/ /\ ~i
          /\ runPc' = "backoff"
          /\ \E j \in Jitters : nap' = b * j
          /\ backoff' = Lesser(2 * b, MaxBackoff)
          /\ asked' = a
          /\ UNCHANGED connected

(* start(): the run task enters its loop and awaits websockets.connect. *)
Start ==
    /\ runPc = "idle"
    /\ runPc' = "connecting"
    /\ intentional' = FALSE
    /\ UNCHANGED <<ws, connected, backoff, nap, asked,
                   taskVars, stopVars, netVars>>

(* websockets.connect returns: the socket becomes _ws and the auth frame   *)
(* leaves on it.                                                           *)
ConnectOk(s) ==
    /\ runPc = "connecting"
    /\ s \notin {ws, resetFor, stopSock}
    /\ link[s] = "closed"
    /\ runPc' = "recv"
    /\ ws' = s
    /\ link' = [link EXCEPT ![s] = "open"]
    /\ code' = [code EXCEPT ![s] = 0]
    /\ auth' = [auth EXCEPT ![s] = "sent"]
    /\ inbox' = [inbox EXCEPT ![s] = <<>>]
    /\ left' = left \ {s}
    /\ UNCHANGED <<intentional, connected, backoff, nap, asked,
                   taskVars, stopPc, stopSock>>

(* Mutant of ConnectRejected: Retry-After is parsed but not applied. *)
ConnectRejectedIgnored(status, ra) ==
    LET secs == IF status = 503 /\ ra = 0 THEN ServiceRetry ELSE ra
    IN /\ runPc = "connecting"
       /\ AfterAttempt(backoff, intentional,
              IF status = 503 \/ (status = 429 /\ ra > 0) THEN secs ELSE 0)
       /\ UNCHANGED <<ws, taskVars, stopVars, netVars>>

(* The upgrade is refused with an HTTP status: 429 and 503 raise the       *)
(* backoff to what the server asks for, within MAX_BACKOFF_MS.             *)
ConnectRejected(status, ra) ==
    LET secs == IF status = 503 /\ ra = 0 THEN ServiceRetry ELSE ra
        honoured == status = 503 \/ (status = 429 /\ ra > 0)
        b == IF honoured THEN Lesser(Greater(backoff, secs), MaxBackoff)
                         ELSE backoff
    IN /\ runPc = "connecting"
       /\ AfterAttempt(b, intentional, IF honoured THEN secs ELSE 0)
       /\ UNCHANGED <<ws, taskVars, stopVars, netVars>>

(* The server cannot be reached, or the connect times out. *)
ConnectFails ==
    /\ runPc = "connecting"
    /\ AfterAttempt(backoff, intentional, 0)
    /\ UNCHANGED <<ws, taskVars, stopVars, netVars>>

(* _sleep_backoff returns and the loop condition is evaluated. *)
BackoffEnds ==
    /\ runPc = "backoff"
    /\ nap' = 0
    /\ asked' = 0
    /\ \/ /\ intentional
          /\ runPc' = "done"
          /\ connected' = FALSE
       \/ /\ ~intentional
          /\ runPc' = "connecting"
          /\ UNCHANGED connected
    /\ UNCHANGED <<ws, intentional, backoff, taskVars, stopVars, netVars>>

(* The receive loop takes frame f, the oldest one buffered. *)
Take(f) ==
    /\ runPc = "recv"
    /\ inbox[ws] # <<>>
    /\ Head(inbox[ws]) = f
    /\ inbox' = [inbox EXCEPT ![ws] = Tail(@)]

(* Mutant of RecvAuthOk: the key is derived in the background, while the   *)
(* receive loop goes on.                                                   *)
RecvAuthOkNoAwait ==
    /\ Take("auth.ok")
    /\ resetFor' = IF resetFor = NoSock THEN ws ELSE resetFor
    /\ connected' = TRUE
    /\ keepalive' = TRUE
    /\ UNCHANGED <<runPc, ws, intentional, backoff, nap, asked, key,
                   stopVars, link, code, auth>>

(* auth.ok: schedule the reset, mark connected, start the heartbeat, and   *)
(* await the key derivation when a password is configured.                 *)
RecvAuthOk ==
    /\ Take("auth.ok")
    /\ resetFor' = IF resetFor = NoSock THEN ws ELSE resetFor
    /\ connected' = TRUE
    /\ keepalive' = TRUE
    /\ runPc' = IF E2EPassword THEN "deriving" ELSE "recv"
    /\ UNCHANGED <<ws, intentional, backoff, nap, asked, key,
                   stopVars, link, code, auth>>

(* derive_key returns from its thread, or fails and is only logged. *)
Derive ==
    /\ runPc = "deriving"
    /\ runPc' = "recv"
    /\ \/ key' = "ready"
       \/ key' = IF key = "none" THEN "failed" ELSE key
    /\ UNCHANGED <<ws, intentional, connected, backoff, nap, asked,
                   keepalive, resetFor, stopVars, netVars>>

(* auth.fail: never reconnect, and await the close of the socket. *)
RecvAuthFail ==
    /\ Take("auth.fail")
    /\ intentional' = TRUE
    /\ runPc' = "refusing"
    /\ IF link[ws] = "open"
         THEN /\ link' = [link EXCEPT ![ws] = "closing"]
              /\ code' = [code EXCEPT ![ws] = Refused]
         ELSE UNCHANGED <<link, code>>
    /\ UNCHANGED <<ws, connected, backoff, nap, asked,
                   taskVars, stopVars, auth>>

(* The close awaited by the auth.fail branch completes. *)
RefusalClosed ==
    /\ runPc = "refusing"
    /\ link[ws] = "closed"
    /\ runPc' = "recv"
    /\ UNCHANGED <<ws, intentional, connected, backoff, nap, asked,
                   taskVars, stopVars, netVars>>

(* ping is answered and leaves no trace in the client's state. *)
RecvPing ==
    /\ Take("ping")
    /\ UNCHANGED <<runVars, taskVars, stopVars, link, code, auth>>

(* Any other frame goes to on_message, which the receive loop awaits. *)
RecvMessage ==
    /\ Take("message")
    /\ runPc' = "handling"
    /\ UNCHANGED <<ws, intentional, connected, backoff, nap, asked,
                   taskVars, stopVars, link, code, auth>>

HandlerReturns ==
    /\ runPc = "handling"
    /\ runPc' = "recv"
    /\ UNCHANGED <<ws, intentional, connected, backoff, nap, asked,
                   taskVars, stopVars, netVars>>

(* on_message raises: the exception leaves `async for` and _connect_once   *)
(* without closing the socket and lands in the generic handler.            *)
HandlerRaises ==
    /\ HandlerMayRaise
    /\ runPc = "handling"
    /\ AfterAttempt(backoff, intentional, 0)
    /\ left' = left \cup {ws}
    /\ UNCHANGED <<ws, taskVars, stopPc, stopSock, netVars>>

(* Mutants of RecvClosed: a silent socket counts as closed; 4009 counts as *)
(* any other close; a clean close ends the run task.                       *)
RecvClosedOnSilence ==
    /\ runPc = "recv"
    /\ inbox[ws] = <<>>
    /\ AfterAttempt(backoff, intentional \/ code[ws] = Replaced, 0)
    /\ UNCHANGED <<ws, taskVars, stopVars, netVars>>
RecvClosedNoReplaced ==
    /\ runPc = "recv"
    /\ inbox[ws] = <<>>
    /\ link[ws] = "closed"
    /\ AfterAttempt(backoff, intentional, 0)
    /\ UNCHANGED <<ws, taskVars, stopVars, netVars>>
RecvClosedCleanEnds ==
    /\ runPc = "recv"
    /\ inbox[ws] = <<>>
    /\ link[ws] = "closed"
    /\ IF code[ws] = Normal
         THEN /\ runPc' = "done"
              /\ connected' = FALSE
              /\ UNCHANGED <<intentional, backoff, nap, asked>>
         ELSE AfterAttempt(backoff, intentional \/ code[ws] = Replaced, 0)
    /\ UNCHANGED <<ws, taskVars, stopVars, netVars>>

(* The buffered frames are read and the close is reported.  4009 counts as *)
(* an intentional close; a clean close just ends the `async for`.          *)
RecvClosed ==
    /\ runPc = "recv"
    /\ inbox[ws] = <<>>
    /\ link[ws] = "closed"
    /\ AfterAttempt(backoff, intentional \/ code[ws] = Replaced, 0)
    /\ UNCHANGED <<ws, taskVars, stopVars, netVars>>

(* BACKOFF_RESET_MS after the auth.ok that scheduled it. *)
ResetFires ==
    /\ resetFor # NoSock
    /\ resetFor' = NoSock
    /\ backoff' = MinBackoff
    /\ UNCHANGED <<runPc, ws, intentional, connected, nap, asked,
                   keepalive, key, stopVars, netVars>>

-----------------------------------------------------------------------------
(* stop() *)

(* Mutant of CloseYields: stop() only closes a socket that is connected. *)
CloseOnlyConnected == ws # NoSock /\ connected /\ link[ws] # "closed"

(* Does `await self._ws.close()` give up control?  Not when there is no    *)
(* socket or when the run task has already seen it closed.                 *)
CloseYields == ws # NoSock /\ (link[ws] # "closed" \/ runPc \in Serving)

(* Mutant of CancelRun: stop() does not cancel the run task. *)
CancelRunForgotten ==
    /\ stopPc' = "stopped"
    /\ connected' = FALSE
    /\ UNCHANGED runPc

(* What is left of the run task is cancelled: the await it is parked at    *)
(* raises, and stop() waits for it.  A run task that is over is not.       *)
CancelRun ==
    \/ /\ runPc = "done"
       /\ stopPc' = "stopped"
       /\ connected' = FALSE
       /\ UNCHANGED runPc
    \/ /\ runPc # "done"
       /\ stopPc' = "cancelling"
       /\ runPc' = "cancelled"
       /\ UNCHANGED connected

(* Mutant of StopBegin: stop() waits for the close without asking for it. *)
StopBeginWaits ==
    /\ stopPc = "idle"
    /\ runPc # "idle"
    /\ intentional' = TRUE
    /\ keepalive' = FALSE
    /\ resetFor' = NoSock
    /\ IF CloseYields
         THEN /\ stopPc' = "closing"
              /\ stopSock' = ws
              /\ UNCHANGED <<runPc, connected>>
         ELSE CancelRun /\ UNCHANGED stopSock
    /\ UNCHANGED <<ws, backoff, nap, asked, key, left, netVars>>

(* stop() up to its first await, or to its end when it meets none. *)
StopBegin ==
    /\ stopPc = "idle"
    /\ runPc # "idle"
    /\ intentional' = TRUE
    /\ keepalive' = FALSE
    /\ resetFor' = NoSock
    /\ IF CloseYields
         THEN /\ stopPc' = "closing"
              /\ stopSock' = ws
              /\ UNCHANGED <<runPc, connected>>
              /\ IF link[ws] = "open"
                   THEN /\ link' = [link EXCEPT ![ws] = "closing"]
                        /\ code' = [code EXCEPT ![ws] = Normal]
                   ELSE UNCHANGED <<link, code>>
         ELSE /\ CancelRun
              /\ UNCHANGED <<stopSock, link, code>>
    /\ UNCHANGED <<ws, backoff, nap, asked, key, left, auth, inbox>>

(* The close returns; the run task is cancelled if it is not done. *)
StopEnds ==
    /\ stopPc = "closing"
    /\ link[stopSock] = "closed"
    /\ CancelRun
    /\ UNCHANGED <<ws, intentional, backoff, nap, asked,
                   taskVars, stopSock, left, netVars>>

(* The cancelled run task has unwound: its CancelledError is passed on.    *)
Unwound ==
    /\ runPc = "cancelled"
    /\ runPc' = "done"
    /\ UNCHANGED <<ws, intentional, connected, backoff, nap, asked,
                   taskVars, stopVars, netVars>>

(* stop() has waited for the run task, or for 5 s, and reports             *)
(* disconnected.                                                           *)
CancelAwaited ==
    /\ stopPc = "cancelling"
    /\ stopPc' = "stopped"
    /\ connected' = FALSE
    /\ UNCHANGED <<runPc, ws, intentional, backoff, nap, asked,
                   taskVars, stopSock, left, netVars>>

-----------------------------------------------------------------------------
(* The ConnectionDO and the network *)

Deliver(s, f) ==
    /\ Len(inbox[s]) < InboxBound
    /\ inbox' = [inbox EXCEPT ![s] = Append(@, f)]

(* The DO accepts the auth frame and closes every other authenticated      *)
(* socket of the account with 4009.                                        *)
ServerAccepts(s) ==
    LET older == {t \in Socks \ {s} : link[t] # "closed" /\ auth[t] = "ok"}
    IN /\ auth[s] = "sent"
       /\ link[s] # "closed"
       /\ Deliver(s, "auth.ok")
       /\ auth' = [auth EXCEPT ![s] = "ok"]
       /\ link' = [t \in Socks |-> IF t \in older THEN "closed" ELSE link[t]]
       /\ code' = [t \in Socks |-> IF t \in older THEN Replaced ELSE code[t]]
       /\ UNCHANGED <<runVars, taskVars, stopVars>>

(* The DO refuses the auth frame; it closes the socket with 4001 next. *)
ServerRefuses(s) ==
    /\ auth[s] = "sent"
    /\ link[s] # "closed"
    /\ Deliver(s, "auth.fail")
    /\ auth' = [auth EXCEPT ![s] = "refused"]
    /\ UNCHANGED <<runVars, taskVars, stopVars, link, code>>

(* The DO pings, or pushes a user, task, models or settings message. *)
ServerPushes(s, f) ==
    /\ auth[s] = "ok"
    /\ link[s] # "closed"
    /\ Deliver(s, f)
    /\ UNCHANGED <<runVars, taskVars, stopVars, link, code, auth>>

(* The socket goes down from the far side: a server restart, a dead        *)
(* network, a refusal, or (4009) a connection made from elsewhere.         *)
ServerCloses(s, c) ==
    /\ link[s] # "closed"
    /\ c = Replaced => auth[s] = "ok"
    /\ c = Refused => auth[s] = "refused"
    /\ link' = [link EXCEPT ![s] = "closed"]
    /\ code' = [code EXCEPT ![s] = c]
    /\ UNCHANGED <<runVars, taskVars, stopVars, auth, inbox>>

(* The close the client sent completes, by the handshake or by the         *)
(* close_timeout of the connection.                                        *)
CloseCompletes(s) ==
    /\ link[s] = "closing"
    /\ link' = [link EXCEPT ![s] = "closed"]
    /\ UNCHANGED <<runVars, taskVars, stopVars, code, auth, inbox>>

-----------------------------------------------------------------------------
Connect ==
    \/ \E s \in Socks : ConnectOk(s)
    \/ \E status \in {429, 503, 502}, ra \in RetryAfters :
           ConnectRejected(status, ra)
    \/ ConnectFails

Receive ==
    \/ RecvAuthOk
    \/ RecvAuthFail
    \/ RecvPing
    \/ RecvMessage
    \/ RecvClosed

Resume ==
    \/ Derive
    \/ RefusalClosed
    \/ HandlerReturns
    \/ HandlerRaises
    \/ BackoffEnds
    \/ Unwound

Server ==
    \E s \in Socks :
        \/ ServerAccepts(s)
        \/ ServerRefuses(s)
        \/ \E f \in {"ping", "message"} : ServerPushes(s, f)
        \/ \E c \in Codes : ServerCloses(s, c)
        \/ CloseCompletes(s)

Next ==
    \/ Start
    \/ Connect
    \/ Receive
    \/ Resume
    \/ ResetFires
    \/ StopBegin
    \/ StopEnds
    \/ CancelAwaited
    \/ Server

Spec == Init /\ [][Next]_vars

(* The event loop runs every task that can run, connect has an            *)
(* open_timeout and close a close_timeout; whether stop() is ever called   *)
(* is the gateway's choice.                                                *)
Fairness ==
    /\ WF_vars(Start)
    /\ WF_vars(Connect)
    /\ WF_vars(Receive)
    /\ WF_vars(Derive \/ RefusalClosed \/ HandlerReturns \/ BackoffEnds
                  \/ Unwound)
    /\ WF_vars(ResetFires)
    /\ WF_vars(StopEnds \/ CancelAwaited)
    /\ \A s \in Socks : WF_vars(CloseCompletes(s))

FairSpec == Spec /\ Fairness

(* A network that comes back: a server that is dialled again and again is  *)
(* reached and accepts the token in the end.  Only Recovers assumes it.    *)
NetworkRecovers ==
    /\ SF_vars(\E s \in Socks : ConnectOk(s))
    /\ SF_vars(\E s \in Socks : ServerAccepts(s))

-----------------------------------------------------------------------------
(* The promise of the agent's connection, AgentLink, read off this state. *)

Retired ==
    \/ intentional
    \/ runPc = "done"
    \/ ws # NoSock /\ code[ws] = Replaced

Line ==
    IF \A s \in Socks : link[s] = "closed" THEN "down"
    ELSE IF \E s \in Socks : link[s] # "closed" /\ auth[s] = "ok"
         THEN "serving"
         ELSE "greeting"

Link == INSTANCE AgentLink WITH line <- Line, retired <- Retired

(* One connection at a time and none after retirement: the client          *)
(* implements AgentLink, step by step, except while a socket that a        *)
(* raising handler left has not been replaced by its next use              *)
(* (_run_loop, _connect_once, _handle_raw and stop together).              *)
ImplementsLink ==
    /\ Link!Init
    /\ [][left = {} /\ left' = {} => [Link!Next]_(Link!linkVars)]_vars

-----------------------------------------------------------------------------
(* Properties *)

(* The client has read the auth.ok of its socket and not yet seen it die. *)
Authenticated ==
    /\ runPc \in Serving
    /\ auth[ws] = "ok"
    /\ \A n \in 1..Len(inbox[ws]) : inbox[ws][n] # "auth.ok"

(* "One persistent outbound WSS connection": a new socket is never opened  *)
(* while an earlier one is still open, whatever order the reads, the       *)
(* closes, the backoff and stop() come in, except beside one that a        *)
(* raising handler left (_run_loop, stop).                                 *)
AtMostOneSocket ==
    \A s, t \in Socks \ left :
        link[s] # "closed" /\ link[t] # "closed" => s = t

(* No message is handed to the adapter before the key derivation of an     *)
(* earlier auth.ok was tried, though the server pushes right behind it and *)
(* the derivation is awaited in the receive loop (_handle_raw 238-244).    *)
KeyBeforeMessages ==
    E2EPassword /\ runPc = "handling" => key # "none"

(* Once stop() has returned the run task is over, or still unwinds from    *)
(* the cancellation, and the gateway has been told that the client is      *)
(* disconnected, for good, even if an auth.ok, a refusal or a replacement  *)
(* was in flight while stop() waited for the close (stop).                 *)
StopIsFinal ==
    stopPc = "stopped" => runPc \in {"cancelled", "done"} /\ ~connected

(* stop() leaves no socket behind, whichever await of the run task it      *)
(* interrupts, but those that raising handlers left and, if it closed one  *)
(* of those, the one the run task was opening (stop, _connect_once).       *)
StopLeavesNoSocket ==
    stopPc = "stopped" /\ stopSock \notin left =>
        \A s \in Socks \ left : link[s] = "closed"

(* After a 429 or a 503 the client stays away for the time the server      *)
(* asked for, short of the jitter and within MAX_BACKOFF_MS, whatever the  *)
(* reset task does meanwhile (_run_loop 171-185, _sleep_backoff).          *)
StaysAway ==
    runPc = "backoff" => nap >= 75 * Lesser(asked, MaxBackoff)

(* A client whose socket the server closed with 4009 never dials again,    *)
(* even if the close arrives behind unread frames, during the derivation,  *)
(* a handler or stop() (_run_loop 164-167).                                *)
ReplacedStaysDown ==
    [][ws # NoSock /\ code[ws] = Replaced => ws' = ws]_vars

(* A client that must not dial again, because of stop(), an auth.fail or a *)
(* 4009, does not, wherever its run task was and whatever was unread,      *)
(* unless the handler of its latest socket raised (_run_loop 155-170, 191, *)
(* _handle_raw 247).                                                       *)
RetiredStaysDown == [][Retired /\ ws \notin left => ws' = ws]_vars

(* May stop() have missed a socket?  Only one that was opened while it     *)
(* closed one that a raising handler had left.                             *)
Strayed == stopPc # "idle" /\ stopSock \in left

(* The inductive invariant behind the socket properties: only the socket   *)
(* being served and those that raising handlers left are open, and a       *)
(* client that must not dial again is serving its last socket or done.     *)
SocketInv ==
    /\ left \subseteq Socks
    /\ \A s \in Socks : link[s] # "closed" =>
           s \in left \/ (s = ws /\ (runPc \in Serving \/ Strayed))
    /\ runPc \in Serving => ws \in Socks \ left
    /\ intentional /\ ws \notin left => runPc \in Serving \cup {"cancelled", "done"}
    /\ ws # NoSock /\ ws \notin left /\ code[ws] = Replaced =>
           /\ link[ws] = "closed"
           /\ runPc \in Serving \cup {"cancelled", "done"}
    /\ stopPc # "idle" => intentional
    /\ stopPc = "closing" => stopSock \in Socks /\ (stopSock = ws \/ stopSock \in left)
    /\ runPc = "idle" => stopPc = "idle"
    /\ runPc = "cancelled" => stopPc \in {"cancelling", "stopped"}
    /\ stopPc \in {"cancelling", "stopped"} => runPc \in {"cancelled", "done"}

(* The inductive invariant behind KeyBeforeMessages: until the first       *)
(* derivation was tried, the oldest unread frame of an accepted socket is  *)
(* its auth.ok, and a refused socket holds nothing but its auth.fail.      *)
KeyInv ==
    /\ runPc \in Serving => ws \in Socks
    /\ \A s \in Socks : auth[s] \in {"none", "sent"} => inbox[s] = <<>>
    /\ \A s \in Socks : auth[s] = "refused" =>
           inbox[s] = <<>> \/ inbox[s] = <<"auth.fail">>
    /\ E2EPassword /\ key = "none" =>
           /\ runPc = "recv" /\ auth[ws] = "ok" =>
                  inbox[ws] # <<>> /\ Head(inbox[ws]) = "auth.ok"
           /\ runPc = "refusing" => auth[ws] = "refused"
           /\ runPc # "handling"

(* Fair: stop() returns, whatever the server and the run task are doing. *)
StopReturns == stopPc # "idle" ~> stopPc = "stopped"

(* Fair: an intentional close, a refusal or a replacement is followed by   *)
(* the end of the run task, and from then on it is over for good.          *)
Unwinds == Retired ~> [](runPc = "done" /\ ~connected)

(* With a network that recovers: a client that was neither stopped,        *)
(* refused nor replaced is authenticated again and again, whatever drops   *)
(* and rejections come between (_run_loop).                                *)
Recovers == NetworkRecovers => []<>(Authenticated \/ intentional)
=============================================================================
