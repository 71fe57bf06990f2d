------------------------------- MODULE Replies -------------------------------
(***************************************************************************)
(* The adapter's outbound path (adapter.py: send, _send_media) and the     *)
(* /model requests that ride on it (_on_cloud, _handle_user_message).      *)
(*                                                                         *)
(* The gateway calls send and _send_media from tasks of its own, so the    *)
(* calls interleave with each other and with the client wherever they      *)
(* await: a write on the socket (which may wait for the transport to       *)
(* drain), the thread that reads the media, the thread that uploads it.    *)
(* A write on a closed socket returns without waiting; it is given the     *)
(* same pause here, which only adds interleavings.                         *)
(* The client is ws_client.py reduced to what a send looks at: its key,    *)
(* its connected flag and whether its socket is open.  Every connect() of  *)
(* the adapter makes a new one; a call goes on with the client it found,   *)
(* which may have been stopped meanwhile.                                  *)
(***************************************************************************)
EXTENDS Naturals

CONSTANTS
    Sessions,     \* BotsChat session keys
    Calls,        \* the calls of send and _send_media
    Models,       \* model names a user may ask for
    NoModel,      \* no model
    RequestBound, \* bound on the /model requests of a session
    LifeBound,    \* bound on the clients, one for each connect()
    E2EPassword   \* is an E2E password configured (and a userId sent)?

ASSUME ModelsAssumption == NoModel \notin Models
ASSUME BoundAssumption ==
    RequestBound \in Nat /\ LifeBound \in Nat \ {0} /\ E2EPassword \in BOOLEAN

VARIABLES
    \* the clients
    life,      \* the client of the adapter, by its number
    task,      \* where its run task is
    open,      \* is its socket _ws open?
    connected, \* client.connected
    key,       \* client |-> e2e_key: "none", "failed" (still None), "ready"
    \* the adapter
    pending,   \* _pending_model_changes
    call,      \* call |-> the await it is parked at, or "success" or "refused":
               \* it returned an error, or raised
    chat,      \* call |-> its session
    client,    \* call |-> the client it found
    stored,    \* call |-> how its bytes were uploaded
    \* what the far side got
    wire,      \* frames written to an open socket
    said,      \* session |-> the model of its last model.changed, sent or lost
    notices,   \* session |-> number of its model.changed, sent or lost
    \* the users
    asked,     \* session |-> number of its /model requests
    latest     \* session |-> the model requested last

clientVars  == <<life, task, open, connected, key>>
adapterVars == <<pending, call, chat, client, stored>>
farVars     == <<wire, said, notices>>
userVars    == <<asked, latest>>
vars        == <<clientVars, adapterVars, farVars, userVars>>

Text(c, sealed) == [call |-> c, sealed |-> sealed]
Media(c, mediaSealed, sealed) ==
    [call |-> c, sealed |-> sealed, mediaSealed |-> mediaSealed]
Frames ==
    {Text(c, b) : c \in Calls, b \in BOOLEAN}
        \cup {Media(c, m, b) : c \in Calls, m \in BOOLEAN, b \in BOOLEAN}

TypeOK ==
    /\ life \in 1..LifeBound
    /\ task \in {"away", "greeting", "deriving", "served", "off"}
    /\ open \in BOOLEAN
    /\ connected \in BOOLEAN
    /\ key \in [1..LifeBound -> {"none", "failed", "ready"}]
    /\ pending \in [Sessions -> Models \cup {NoModel}]
    /\ call \in [Calls -> {"idle", "sending", "reading", "uploading",
                           "success", "refused"}]
    /\ chat \in [Calls -> Sessions]
    /\ client \in [Calls -> 1..LifeBound]
    /\ stored \in [Calls -> {"none", "plain", "sealed"}]
    /\ wire \subseteq Frames
    /\ said \in [Sessions -> Models \cup {NoModel}]
    /\ notices \in [Sessions -> Nat]
    /\ asked \in [Sessions -> 0..RequestBound]
    /\ latest \in [Sessions -> Models \cup {NoModel}]

Init ==
    /\ life = 1
    /\ task = "away"
    /\ open = FALSE
    /\ connected = FALSE
    /\ key = [n \in 1..LifeBound |-> "none"]
    /\ pending = [s \in Sessions |-> NoModel]
    /\ call = [c \in Calls |-> "idle"]
    /\ chat \in [Calls -> Sessions]
    /\ client = [c \in Calls |-> 1]
    /\ stored = [c \in Calls |-> "none"]
    /\ wire = {}
    /\ said = [s \in Sessions |-> NoModel]
    /\ notices = [s \in Sessions |-> 0]
    /\ asked = [s \in Sessions |-> 0]
    /\ latest = [s \in Sessions |-> NoModel]

-----------------------------------------------------------------------------
(* The client *)

Connect ==
    /\ task = "away"
    /\ task' = "greeting"
    /\ open' = TRUE
    /\ UNCHANGED <<life, connected, key, adapterVars, farVars, userVars>>

(* The socket dies; the run task finds out when it has read what the       *)
(* socket had buffered.                                                    *)
SocketDies ==
    /\ open
    /\ open' = FALSE
    /\ UNCHANGED <<life, task, connected, key, adapterVars, farVars, userVars>>

(* Mutant of AuthOk: a new authentication forgets the key. *)
AuthOkForgetsKey ==
    /\ task = "greeting"
    /\ task' = IF E2EPassword THEN "deriving" ELSE "served"
    /\ connected' = TRUE
    /\ key' = [key EXCEPT ![life] = "none"]
    /\ UNCHANGED <<life, open, adapterVars, farVars, userVars>>

(* auth.ok marks the client connected before it derives the key. *)
AuthOk ==
    /\ task = "greeting"
    /\ task' = IF E2EPassword THEN "deriving" ELSE "served"
    /\ connected' = TRUE
    /\ UNCHANGED <<life, open, key, adapterVars, farVars, userVars>>

Derive ==
    /\ task = "deriving"
    /\ task' = "served"
    /\ \E k \in {"ready", IF key[life] = "none" THEN "failed" ELSE key[life]} :
           key' = [key EXCEPT ![life] = k]
    /\ UNCHANGED <<life, open, connected, adapterVars, farVars, userVars>>

(* The run task leaves a dead socket for its backoff and dials again; it   *)
(* does not touch connected.                                               *)
Leave ==
    /\ task \in {"greeting", "served"}
    /\ ~open
    /\ task' = "away"
    /\ UNCHANGED <<life, open, connected, key, adapterVars, farVars, userVars>>

(* disconnect() closes the client, or the client retires by itself. *)
Stop ==
    /\ task # "off"
    /\ task' = "off"
    /\ open' = FALSE
    /\ connected' = FALSE
    /\ UNCHANGED <<life, key, adapterVars, farVars, userVars>>

(* connect() makes a new client; what the adapter has noted stays.         *)
Renew ==
    /\ task = "off"
    /\ life < LifeBound
    /\ life' = life + 1
    /\ task' = "away"
    /\ UNCHANGED <<open, connected, key, adapterVars, farVars, userVars>>

-----------------------------------------------------------------------------
(* /model requests *)

(* Mutant of RequestModel: a request does not replace an earlier one. *)
RequestModelKeepsFirst(s, m) ==
    /\ task = "served"
    /\ asked[s] < RequestBound
    /\ pending' = [pending EXCEPT ![s] = IF @ = NoModel THEN m ELSE @]
    /\ asked' = [asked EXCEPT ![s] = @ + 1]
    /\ latest' = [latest EXCEPT ![s] = m]
    /\ UNCHANGED <<clientVars, call, chat, client, stored, farVars>>

(* A user types /model m, as a command or as a message: the adapter notes  *)
(* the model for the next reply of the session and hands the request to    *)
(* the gateway.                                                            *)
RequestModel(s, m) ==
    /\ task = "served"
    /\ asked[s] < RequestBound
    /\ pending' = [pending EXCEPT ![s] = m]
    /\ asked' = [asked EXCEPT ![s] = @ + 1]
    /\ latest' = [latest EXCEPT ![s] = m]
    /\ UNCHANGED <<clientVars, call, chat, client, stored, farVars>>

-----------------------------------------------------------------------------
(* send and _send_media *)

(* Does client n have a key? *)
Keyed(n) == key[n] = "ready"

(* send of client n: a frame for a socket that is not open is dropped. *)
Write(n, f) == wire' = IF open /\ n = life THEN wire \cup {f} ELSE wire

Goto(c, pc) == call' = [call EXCEPT ![c] = pc]

(* Nothing is left to do for the call but to say how it ended. *)
Return(c, outcome) ==
    /\ Goto(c, outcome)
    /\ UNCHANGED <<clientVars, pending, chat, client, stored, farVars, userVars>>

(* send of a text, up to the write on the socket.  An empty text is a      *)
(* success without a frame; a text that cannot be encrypted stays here.    *)
Begin(c) ==
    \/ ~connected /\ Return(c, "refused")
    \/ connected /\ Return(c, "success")
    \/ connected /\ Keyed(life) /\ Return(c, "refused")
    \/ /\ connected
       /\ Goto(c, "sending")
       /\ client' = [client EXCEPT ![c] = life]
       /\ Write(life, Text(c, Keyed(life)))
       /\ UNCHANGED <<clientVars, pending, chat, stored, said, notices, userVars>>

SendText(c) == call[c] = "idle" /\ Begin(c)

(* The write returns: the reply takes the session's model request along.   *)
Finish(c) ==
    LET s == chat[c]
    IN /\ call[c] = "sending"
       /\ Goto(c, "success")
       /\ pending' = [pending EXCEPT ![s] = NoModel]
       /\ IF pending[s] = NoModel
            THEN UNCHANGED <<said, notices>>
            ELSE /\ said' = [said EXCEPT ![s] = pending[s]]
                 /\ notices' = [notices EXCEPT ![s] = @ + 1]
       /\ UNCHANGED <<clientVars, chat, client, stored, wire, userVars>>

SendMedia(c) ==
    /\ call[c] = "idle"
    /\ \/ ~connected /\ Return(c, "refused")
       \/ /\ connected
          /\ Goto(c, "reading")
          /\ client' = [client EXCEPT ![c] = life]
          /\ UNCHANGED <<clientVars, pending, chat, stored, farVars, userVars>>

(* The media is read: it is encrypted if the client has a key by now, and  *)
(* the upload starts; an encryption that fails is raised.                  *)
MediaRead(c) ==
    /\ call[c] = "reading"
    /\ \/ /\ Goto(c, "uploading")
          /\ stored' = [stored EXCEPT ![c] =
                            IF Keyed(client[c]) THEN "sealed" ELSE "plain"]
          /\ UNCHANGED <<clientVars, pending, chat, client, farVars, userVars>>
       \/ Keyed(client[c]) /\ Return(c, "refused")

(* Mutant of MediaUploaded: the flag is read off the key at the end. *)
MediaUploadedRereads(c) ==
    /\ call[c] = "uploading"
    /\ Goto(c, "success")
    /\ Write(client[c], Media(c, Keyed(client[c]), Keyed(client[c])))
    /\ UNCHANGED <<clientVars, pending, chat, client, stored, said, notices, userVars>>

(* The upload returns a URL: the caption is encrypted if the client has a  *)
(* key by now, and the frame leaves, unless the encryption raises.         *)
MediaUploaded(c) ==
    /\ call[c] = "uploading"
    /\ \/ /\ Goto(c, "success")
          /\ Write(client[c], Media(c, stored[c] = "sealed", Keyed(client[c])))
          /\ UNCHANGED <<clientVars, pending, chat, client, stored, said, notices,
                         userVars>>
       \/ Keyed(client[c]) /\ Return(c, "refused")

(* The media cannot be read: its URL is sent as a text. *)
MediaUnread(c) == call[c] = "reading" /\ Begin(c)

(* The upload fails or times out, or answers without a URL. *)
UploadFails(c) == call[c] = "uploading" /\ Begin(c)

-----------------------------------------------------------------------------
Client == Connect \/ SocketDies \/ AuthOk \/ Derive \/ Leave \/ Stop \/ Renew

User == \E s \in Sessions, m \in Models : RequestModel(s, m)

Reply ==
    \E c \in Calls :
        \/ SendText(c)
        \/ Finish(c)
        \/ SendMedia(c)
        \/ MediaRead(c)
        \/ MediaUploaded(c)
        \/ MediaUnread(c)
        \/ UploadFails(c)

Next == Client \/ User \/ Reply

Spec == Init /\ [][Next]_vars

-----------------------------------------------------------------------------
(* Properties *)

IsMedia(f) == "mediaSealed" \in DOMAIN f

(* A media frame says of its bytes what was done to them, although the key *)
(* may turn up while the upload is under way (_send_media 597-622).        *)
FlagsHonest ==
    \A f \in wire : IsMedia(f) =>
        stored[f.call] = IF f.mediaSealed THEN "sealed" ELSE "plain"

(* Once a client has sent a sealed frame, no text or caption leaves        *)
(* through it in plaintext, no upload of plain bytes begins, and a media   *)
(* frame that announces plain bytes is of an upload that had begun before: *)
(* no reconnect, failed derivation or fallback opens a plaintext window    *)
(* again, and what is left of the one before the key is media that was     *)
(* read in it (_handle_raw 239-244, send, _send_media).                    *)
StaysSealed ==
    [][\A n \in 1..LifeBound :
           (\E f \in wire : f.sealed /\ client[f.call] = n) =>
               /\ \A f \in wire' \ wire : client'[f.call] = n =>
                      /\ f.sealed
                      /\ IsMedia(f) /\ ~f.mediaSealed => stored[f.call] = "plain"
               /\ \A c \in Calls :
                      client[c] = n /\ stored'[c] # stored[c] => stored'[c] = "sealed"
      ]_vars

(* However many replies of a session are under way, a /model request is    *)
(* announced at most once, and the latest is never lost to an older one:   *)
(* it is waiting for a reply or it is the one announced last (send         *)
(* 343-345, _on_cloud 358-366, _handle_user_message 450-453).              *)
Announced ==
    \A s \in Sessions :
        /\ notices[s] <= asked[s]
        /\ latest[s] \in {pending[s], said[s]}

-----------------------------------------------------------------------------
(* What the documentation says and the code does not do.                   *)

(* "With E2E on, the server stores ciphertext only" (README 183). *)
CiphertextOnly == E2EPassword => \A f \in wire : f.sealed
=============================================================================
