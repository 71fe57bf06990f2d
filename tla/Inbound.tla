------------------------------- MODULE Inbound -------------------------------
(***************************************************************************)
(* What users send, on its way to Hermes (adapter.py: _on_cloud,           *)
(* _handle_user_message, _dispatch, _download_inbound_media), and the tool *)
(* hooks that look up the sessions it leaves behind (_on_pre_tool_call,    *)
(* _on_post_tool_call).                                                    *)
(*                                                                         *)
(* The receive loop awaits the handler of a frame, which awaits the        *)
(* download of an attachment and the hand-over to the gateway.  The hooks  *)
(* run on a worker thread of Hermes, each as a look-up and a post.         *)
(*                                                                         *)
(* A message may be a reply in a thread, whose parent is opened with the   *)
(* key like its text and stands with it here; the profile that hub mode    *)
(* stamps on it is a function of its session.  A session has one user.     *)
(* The client is the one of a connect() until its disconnect().            *)
(***************************************************************************)
EXTENDS Naturals, Sequences

CONSTANTS
    Sessions,     \* BotsChat session keys
    Foreign,      \* a Hermes session that belongs to another channel
    NoSession,    \* stands for None
    Shapes,       \* the shapes of the frames users send
    FrameBound    \* bound on the frames users send

ASSUME SessionsAssumption ==
    Foreign \notin Sessions /\ NoSession \notin Sessions \cup {Foreign}
ASSUME BoundAssumption == FrameBound \in Nat

(* sealed says what the browser did to text and file; a user.media frame   *)
(* does not tell.  named: a message has a messageId, an action a userId.   *)
ASSUME ShapesAssumption ==
    Shapes \subseteq
        [kind : {"message", "command", "action", "media"},
         sealed : BOOLEAN, attached : BOOLEAN, named : BOOLEAN]

VARIABLES
    \* the cloud
    sent,      \* number of frames users sent
    inbox,     \* frames that reached the client, unread
    \* the client and the adapter's handler
    task,      \* where the receive loop is
    current,   \* the message being handled, if any
    key,       \* client.e2e_key: "none", "failed" (tried, still None), "ready"
    known,     \* _known_sessions
    last,      \* _last_session
    users,     \* sessions with an entry in _session_users
    \* Hermes
    events,    \* messages handed to the gateway, oldest first
    held,      \* the activity a tool hook has looked up and not posted
    activity   \* the last activity posted

cloudVars   == <<sent, inbox>>
adapterVars == <<task, current, key, known, last, users>>
hookVars    == <<held, activity>>
vars        == <<cloudVars, adapterVars, events, hookVars>>

Frames == [no : 1..FrameBound, kind : {"message", "command", "action", "media"},
           session : Sessions, sealed : BOOLEAN, attached : BOOLEAN,
           named : BOOLEAN]

(* A text is plain, opened with the key, replaced by "[Decryption Failed]" *)
(* or still sealed; a file is plain, opened, garbled by a wrong id or      *)
(* still sealed.  An attachment that cannot be downloaded is handed on as  *)
(* its URL.  It comes from the user of the session, from whom the frame    *)
(* itself names, or from somebody called "command" or "action".            *)
Events == [no : 1..FrameBound, session : Sessions, named : BOOLEAN,
           by : {"user", "named", "command", "action"},
           text : {"plain", "opened", "failed", "sealed"},
           file : {"none", "plain", "opened", "garbled", "sealed", "url"}]

(* The start or the end of a tool call of origin, and where it is shown.   *)
Activities == [origin : Sessions \cup {Foreign}, shown : Sessions]

TypeOK ==
    /\ sent \in 0..FrameBound
    /\ inbox \in Seq(Frames)
    /\ task \in {"served", "fetching", "handing", "away", "off"}
    /\ current \subseteq Frames
    /\ key \in {"none", "failed", "ready"}
    /\ known \subseteq Sessions
    /\ last \in Sessions \cup {NoSession}
    /\ users \subseteq Sessions
    /\ events \in Seq(Events)
    /\ held \subseteq Activities
    /\ activity \subseteq Activities

Init ==
    /\ sent = 0
    /\ inbox = <<>>
    /\ task = "away"
    /\ current = {}
    /\ key = "none"
    /\ known = {}
    /\ last = NoSession
    /\ users = {}
    /\ events = <<>>
    /\ held = {}
    /\ activity = {}

-----------------------------------------------------------------------------
(* The cloud *)

UserSends(f) ==
    /\ task \notin {"away", "off"}
    /\ f.no = sent + 1
    /\ [kind |-> f.kind, sealed |-> f.sealed, attached |-> f.attached,
        named |-> f.named] \in Shapes
    /\ sent' = f.no
    /\ inbox' = Append(inbox, f)
    /\ UNCHANGED <<adapterVars, events, hookVars>>

(* The connection drops; the frames that have not reached the client are   *)
(* lost, and the others are read before the loop finds out.                *)
Drop ==
    /\ inbox # <<>>
    /\ \E n \in 0..Len(inbox) - 1 : inbox' = SubSeq(inbox, 1, n)
    /\ UNCHANGED <<sent, adapterVars, events, hookVars>>

-----------------------------------------------------------------------------
(* The client *)

(* Mutant of Authenticate: a derivation that fails forgets the key. *)
AuthenticateForgets ==
    /\ task = "away"
    /\ task' = "served"
    /\ key' \in {"ready", "failed"}
    /\ UNCHANGED <<cloudVars, current, known, last, users, events, hookVars>>

(* auth.ok, with the derivation of the key, which the receive loop awaits. *)
Authenticate ==
    /\ task = "away"
    /\ task' = "served"
    /\ \/ key' = "ready"
       \/ key' = IF key = "none" THEN "failed" ELSE key
    /\ UNCHANGED <<cloudVars, current, known, last, users, events, hookVars>>

(* The receive loop has read everything and finds its socket closed. *)
Leave ==
    /\ task = "served"
    /\ inbox = <<>>
    /\ task' = "away"
    /\ UNCHANGED <<cloudVars, current, key, known, last, users, events, hookVars>>

(* disconnect() cancels the run task, whatever it is handling. *)
Stop ==
    /\ task # "off"
    /\ task' = "off"
    /\ current' = {}
    /\ inbox' = <<>>
    /\ UNCHANGED <<sent, key, known, last, users, events, hookVars>>

-----------------------------------------------------------------------------
(* The handler *)

Keyed == key = "ready"

(* Mutant of NextFrame: every frame gets a task of its own. *)
NextFrameAny(f) ==
    /\ task = "served"
    /\ \E n \in 1..Len(inbox) :
           /\ f = inbox[n]
           /\ inbox' = SubSeq(inbox, 1, n - 1) \o SubSeq(inbox, n + 1, Len(inbox))

NextFrame(f) ==
    /\ task = "served"
    /\ inbox # <<>>
    /\ f = Head(inbox)
    /\ inbox' = Tail(inbox)

(* What may become of the text of frame f: _handle_user_message opens that *)
(* of a sealed message if it has the key and the id it was sealed under,   *)
(* or puts "[Decryption Failed]" for it.  The key does not change while    *)
(* the handler is awaited.                                                 *)
Texts(f) ==
    IF ~f.sealed \/ f.kind # "message" THEN {"plain"}
    ELSE IF Keyed /\ f.named THEN {"opened", "failed"} ELSE {"sealed"}

(* The downloaded file of frame f: user.media does not say whether it is   *)
(* sealed, so it is written as it is; that of a message is opened under    *)
(* any id, as the cipher does not notice a wrong one.                      *)
FileOf(f) ==
    IF ~f.sealed THEN "plain"
    ELSE IF ~Keyed \/ f.kind # "message" THEN "sealed"
    ELSE IF f.named THEN "opened" ELSE "garbled"

(* Mutant of Noted: there is one last sender, not one per session. *)
NotedLast(f) == IF f.kind = "message" THEN {f.session} ELSE users

(* Messages name their user, whom _handle_user_message notes. *)
Noted(f) == IF f.kind = "message" THEN users \cup {f.session} ELSE users

(* A command has no user of its own: it is the session's.  An action may   *)
(* name its user, and media does.                                          *)
SenderOf(f) ==
    CASE f.kind = "media" -> "named"
      [] f.kind = "action" -> IF f.named THEN "named" ELSE "action"
      [] OTHER -> IF f.session \in Noted(f) THEN "user" ELSE "command"

(* What the download may come to: the file, or None, when its URL stands in. *)
Download(f) == {FileOf(f), "url"}

HandOver(f, file) ==
    /\ task' = "handing"
    /\ \E text \in Texts(f) :
           events' = Append(events, [no |-> f.no, session |-> f.session,
                                     named |-> f.named, by |-> SenderOf(f),
                                     text |-> text, file |-> file])

(* Mutants of Remember: the session before is noted, if any or not; only    *)
(* the last session is noted.                                              *)
RememberBefore(f) ==
    /\ known' = known \cup {last}
    /\ last' = f.session
RememberLast(f) ==
    /\ last' = f.session
    /\ UNCHANGED known

(* What _dispatch notes of a frame's session. *)
Remember(f) ==
    /\ known' = known \cup {f.session}
    /\ last' = f.session

(* A frame is opened and dispatched, up to its first await. *)
Handle(f) ==
    /\ NextFrame(f)
    /\ Remember(f)
    /\ users' = Noted(f)
    /\ current' = {f}
    /\ IF f.attached
         THEN task' = "fetching" /\ UNCHANGED events
         ELSE HandOver(f, "none")
    /\ UNCHANGED <<sent, key, hookVars>>

(* The download ends. *)
Fetched(f) ==
    /\ task = "fetching"
    /\ f \in current
    /\ \E file \in Download(f) : HandOver(f, file)
    /\ UNCHANGED <<cloudVars, current, key, known, last, users, hookVars>>

(* handle_message of the gateway returns. *)
Handled ==
    /\ task = "handing"
    /\ task' = "served"
    /\ current' = {}
    /\ UNCHANGED <<cloudVars, key, known, last, users, events, hookVars>>

(* A frame, its download or the gateway raises: the run loop abandons the  *)
(* socket with what is unread.                                             *)
Raise ==
    /\ \/ task \in {"fetching", "handing"}
       \/ task = "served" /\ inbox # <<>>
    /\ task' = "away"
    /\ current' = {}
    /\ inbox' = <<>>
    /\ UNCHANGED <<sent, key, known, last, users, events, hookVars>>

-----------------------------------------------------------------------------
(* The tool hooks *)

(* Hermes calls a tool in a turn of session s. *)
Turns == {Foreign} \cup {events[n].session : n \in 1..Len(events)}

(* The session an activity of s is shown in: s if it is known to the       *)
(* adapter, else the session dispatched last.                              *)
Attribute(s) == IF s \in known THEN s ELSE last

(* A tool hook looks the session up, when there is an adapter with a       *)
(* connected client: connected goes only when the client stops.            *)
ToolHook(s) ==
    /\ task # "off"
    /\ held = {}
    /\ held' = IF Attribute(s) = NoSession THEN {}
               ELSE {[origin |-> s, shown |-> Attribute(s)]}
    /\ UNCHANGED <<cloudVars, adapterVars, events, activity>>

(* The activity is posted; client.send drops it when the socket is down.   *)
PostActivity ==
    /\ held # {}
    /\ held' = {}
    /\ activity' \in {activity, held}
    /\ UNCHANGED <<cloudVars, adapterVars, events>>

Next ==
    \/ \E f \in Frames : UserSends(f)
    \/ Drop
    \/ Authenticate
    \/ Leave
    \/ Stop
    \/ \E n \in 1..Len(inbox) : Handle(inbox[n])
    \/ \E f \in current : Fetched(f)
    \/ Handled
    \/ Raise
    \/ \E s \in Turns : ToolHook(s)
    \/ PostActivity

Spec == Init /\ [][Next]_vars

-----------------------------------------------------------------------------
(* Properties *)

(* Hermes gets the messages in the order they were sent, and none twice,   *)
(* although downloads take their time, handlers raise and connections drop *)
(* (_handle_raw 260-264 awaits the handler).                               *)
InOrder ==
    \A i, j \in 1..Len(events) : i < j => events[i].no < events[j].no

(* Once the client has opened a message, it hands none to Hermes as        *)
(* ciphertext again, neither its text nor its file, whatever derivations   *)
(* fail (_handle_raw 239-244, _handle_user_message 442, _download 543):    *)
(* only a text without a messageId, which nobody could open, stays sealed. *)
(* The files of user.media, which says nothing of a seal, have no text.    *)
OpenOnceKeyed ==
    \A i, j \in 1..Len(events) :
        i < j /\ events[i].text = "opened" =>
            /\ events[j].text = "sealed" => ~events[j].named
            /\ events[j].text # "plain" => events[j].file # "sealed"

(* A command is the session's user's, who is authorized to give it, once a *)
(* message of the session has reached Hermes, whatever raised or dropped   *)
(* since and however the client reconnected (_on_cloud 370,                *)
(* _handle_user_message 439).                                              *)
OwnSender ==
    \A i, j \in 1..Len(events) :
        i < j /\ events[i].session = events[j].session /\ events[i].by = "user" =>
            events[j].by # "command"

(* The tools of a BotsChat session show up in that session, whichever      *)
(* session is dispatched while they run (_dispatch 497, the tool hooks).   *)
OwnActivity ==
    \A a \in activity \cup held : a.origin \in Sessions => a.shown = a.origin
=============================================================================
