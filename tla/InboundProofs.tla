----------------------------- MODULE InboundProofs -----------------------------
(***************************************************************************)
(* Proofs about Inbound, for any sessions and any number of frames.        *)
(***************************************************************************)
EXTENDS Inbound, SequenceTheorems, TLAPS

(* The numbers of the unread frames increase and have been given out. *)
QueueInv ==
    /\ \A n \in 1..Len(inbox) : inbox[n].no <= sent
    /\ \A m, n \in 1..Len(inbox) : m < n => inbox[m].no < inbox[n].no

(* What Hermes has is older than what is downloaded, which is older than   *)
(* what is unread.                                                         *)
PassedInv ==
    /\ \A i \in 1..Len(events) :
           /\ events[i].no <= sent
           /\ \A n \in 1..Len(inbox) : events[i].no < inbox[n].no
    /\ \A f \in current :
           /\ f.no <= sent
           /\ \A n \in 1..Len(inbox) : f.no < inbox[n].no
    /\ task = "fetching" =>
           \A f \in current : \A i \in 1..Len(events) : events[i].no < f.no

(* A message has been opened with a key the client still has. *)
KeyInv == \A i \in 1..Len(events) : events[i].text = "opened" => Keyed

(* The users of the sessions that spoke are noted. *)
UserInv ==
    /\ \A i \in 1..Len(events) : events[i].by = "user" => events[i].session \in users
    /\ \A f \in current : f.kind = "message" => f.session \in users

(* The sessions Hermes has turns of are known. *)
KnownInv ==
    /\ \A i \in 1..Len(events) : events[i].session \in known
    /\ \A f \in current : f.session \in known

(* The inductive invariant. *)
IInv ==
    /\ TypeOK
    /\ QueueInv /\ PassedInv /\ InOrder
    /\ KeyInv /\ OpenOnceKeyed
    /\ UserInv /\ OwnSender
    /\ KnownInv /\ OwnActivity

(* The event that HandOver makes of frame f, its text and its file. *)
EventOf(f, text, file) ==
    [no |-> f.no, session |-> f.session, named |-> f.named, by |-> SenderOf(f),
     text |-> text, file |-> file]

(* The files an event may come with. *)
Files(f) == Download(f) \cup {"none"}

(* s is a part of t without gaps. *)
Within(s, t) ==
    \E d \in Nat : \A n \in 1..Len(s) : n + d \in 1..Len(t) /\ s[n] = t[n + d]

-----------------------------------------------------------------------------
(* Lemmas about the operators of the model *)

LEMMA FrameType ==
    ASSUME NEW f \in Frames
    PROVE  /\ f.no \in 1..FrameBound /\ f.session \in Sessions
           /\ f.kind \in {"message", "command", "action", "media"}
           /\ f.named \in BOOLEAN
  BY DEF Frames

(* An event of a frame is an event. *)
LEMMA EventType ==
    ASSUME NEW f \in Frames, NEW text \in Texts(f), NEW file \in Files(f)
    PROVE  LET e == EventOf(f, text, file)
           IN  /\ e \in Events
               /\ e.no = f.no /\ e.session = f.session /\ e.named = f.named
               /\ e.by = SenderOf(f) /\ e.text = text /\ e.file = file
<1>1. SenderOf(f) \in {"user", "named", "command", "action"}
  BY DEF SenderOf
<1>2. text \in {"plain", "opened", "failed", "sealed"}
  BY DEF Texts
<1>3. file \in {"none", "plain", "opened", "garbled", "sealed", "url"}
  BY DEF Files, Download, FileOf
<1> QED
  BY <1>1, <1>2, <1>3, FrameType DEF EventOf, Events

(* With a key, only a text without an id stays sealed, and no file of a    *)
(* sealed message; without a key, nothing is opened.                       *)
LEMMA Opened ==
    ASSUME NEW f \in Frames, NEW text \in Texts(f), NEW file \in Files(f)
    PROVE  /\ Keyed => /\ text = "sealed" => ~f.named
                       /\ text # "plain" => file # "sealed"
           /\ text = "opened" => Keyed
<1>1. CASE ~f.sealed \/ f.kind # "message"
  BY <1>1 DEF Texts
<1>2. CASE f.sealed /\ f.kind = "message"
  <2>1. Keyed => FileOf(f) # "sealed"
    BY <1>2 DEF FileOf
  <2> QED
    BY <1>2, <2>1 DEF Texts, Files, Download
<1> QED
  BY <1>1, <1>2

(* What is read, lost or dropped leaves a part of the queue. *)
LEMMA Parts ==
    ASSUME NEW s \in Seq(Frames)
    PROVE  /\ Within(s, s) /\ Within(<<>>, s)
           /\ s # <<>> => Within(Tail(s), s)
           /\ \A n \in 0..Len(s) : SubSeq(s, 1, n) \in Seq(Frames)
                                   /\ Within(SubSeq(s, 1, n), s)
<1>1. Within(s, s)
  <2>1. \A n \in 1..Len(s) : n + 0 \in 1..Len(s) /\ s[n] = s[n + 0]
    OBVIOUS
  <2> QED
    BY <2>1 DEF Within
<1>2. Within(<<>>, s)
  <2>1. \A n \in 1..Len(<<>>) : n + 0 \in 1..Len(s) /\ <<>>[n] = s[n + 0]
    OBVIOUS
  <2> QED
    BY <2>1 DEF Within
<1>3. ASSUME s # <<>> PROVE Within(Tail(s), s)
  <2>1. /\ Len(Tail(s)) = Len(s) - 1
        /\ \A n \in 1..Len(Tail(s)) : Tail(s)[n] = s[n + 1]
    BY <1>3, HeadTailProperties
  <2>2. \A n \in 1..Len(Tail(s)) : n + 1 \in 1..Len(s) /\ Tail(s)[n] = s[n + 1]
    BY <2>1, LenProperties
  <2> QED
    BY <2>2 DEF Within
<1>4. ASSUME NEW n \in 0..Len(s)
      PROVE  SubSeq(s, 1, n) \in Seq(Frames) /\ Within(SubSeq(s, 1, n), s)
  <2>1. n \in Int /\ Len(s) \in Nat /\ \A i \in 1..n : s[i] \in Frames
    BY LenProperties, ElementOfSeq
  <2>2. /\ SubSeq(s, 1, n) \in Seq(Frames)
        /\ Len(SubSeq(s, 1, n)) = IF 1 <= n THEN n - 1 + 1 ELSE 0
        /\ \A i \in 1..n - 1 + 1 : SubSeq(s, 1, n)[i] = s[1 + i - 1]
    BY <2>1, SubSeqProperties
  <2>3. \A i \in 1..Len(SubSeq(s, 1, n)) :
            i + 0 \in 1..Len(s) /\ SubSeq(s, 1, n)[i] = s[i + 0]
    BY <2>1, <2>2
  <2> QED
    BY <2>2, <2>3 DEF Within
<1> QED
  BY <1>1, <1>2, <1>3, <1>4

(* What HandOver does to the events. *)
LEMMA HandedOver ==
    ASSUME events \in Seq(Events), NEW f \in Frames, NEW file \in Files(f),
           HandOver(f, file)
    PROVE  \E text \in Texts(f) :
               LET e == EventOf(f, text, file)
               IN  /\ task' = "handing"
                   /\ events' \in Seq(Events)
                   /\ Len(events') = Len(events) + 1
                   /\ \A i \in 1..Len(events) : events'[i] = events[i]
                   /\ events'[Len(events) + 1] = e
<1>1. PICK text \in Texts(f) : events' = Append(events, EventOf(f, text, file))
  BY DEF HandOver, EventOf
<1>2. EventOf(f, text, file) \in Events /\ task' = "handing"
  BY EventType DEF HandOver
<1> QED
  BY <1>1, <1>2, AppendProperties

-----------------------------------------------------------------------------
(* The step of the frame at the head of the queue. *)
Arrives(f) ==
    /\ inbox # <<>> /\ f = Head(inbox) /\ inbox' = Tail(inbox)
    /\ sent' = sent
    /\ current' = {f}
    /\ Remember(f)
    /\ users' = Noted(f)
    /\ key' = key
    /\ hookVars' = hookVars
    /\ \/ task' = "fetching" /\ events' = events
       \/ HandOver(f, "none")

(* What the other steps leave alone. *)
Rests ==
    /\ events' = events /\ sent' = sent
    /\ Within(inbox', inbox)
    /\ current' \subseteq current
    /\ task' = "fetching" => task = "fetching"
    /\ users' = users /\ known' = known
    /\ Keyed => Keyed'
    /\ \/ hookVars' = hookVars
       \/ PostActivity
       \/ \E s \in Turns : ToolHook(s)

LEMMA StepKinds ==
    ASSUME TypeOK, [Next]_vars
    PROVE  \/ \E f \in Frames : UserSends(f) \/ Arrives(f)
           \/ \E f \in current : Fetched(f)
           \/ Rests
<1> USE DEF TypeOK, cloudVars, adapterVars, hookVars, Keyed, Rests
<1>1. ASSUME NEW n \in 1..Len(inbox), Handle(inbox[n])
      PROVE  inbox[n] \in Frames /\ Arrives(inbox[n])
  BY <1>1, ElementOfSeq DEF Handle, NextFrame, Arrives
<1>2. CASE Drop
  <2>1. Within(inbox', inbox)
    BY <1>2, Parts, LenProperties DEF Drop
  <2> QED
    BY <1>2, <2>1 DEF Drop
<1>3. Within(inbox, inbox) /\ Within(<<>>, inbox)
  BY Parts
<1>4. CASE Authenticate
  BY <1>3, <1>4 DEF Authenticate
<1>5. CASE Leave
  BY <1>3, <1>5 DEF Leave
<1>6. CASE Stop
  BY <1>3, <1>6 DEF Stop
<1>7. CASE Handled
  BY <1>3, <1>7 DEF Handled
<1>8. CASE Raise
  BY <1>3, <1>8 DEF Raise
<1>9. ASSUME NEW s \in Turns, ToolHook(s) PROVE Rests
  BY <1>3, <1>9 DEF ToolHook
<1>10. CASE PostActivity
  BY <1>3, <1>10 DEF PostActivity
<1>11. CASE UNCHANGED vars
  BY <1>3, <1>11 DEF vars
<1> QED
  BY <1>1, <1>2, <1>4, <1>5, <1>6, <1>7, <1>8, <1>9, <1>10, <1>11 DEF Next

(* Every step keeps the types. *)
LEMMA StepTypes == ASSUME TypeOK, [Next]_vars PROVE TypeOK'
<1> USE DEF TypeOK, cloudVars, adapterVars, hookVars
<1>1. ASSUME NEW f \in Frames, UserSends(f) PROVE TypeOK'
  <2>1. inbox' \in Seq(Frames)
    BY <1>1, AppendProperties DEF UserSends
  <2>2. sent' \in 0..FrameBound
    BY <1>1, FrameType, BoundAssumption DEF UserSends
  <2> QED
    BY <1>1, <2>1, <2>2 DEF UserSends
<1>2. CASE Drop
  <2>1. inbox' \in Seq(Frames)
    BY <1>2, Parts, LenProperties DEF Drop
  <2> QED
    BY <1>2, <2>1 DEF Drop
<1>3. CASE Authenticate
  BY <1>3 DEF Authenticate
<1>4. CASE Leave
  BY <1>4 DEF Leave
<1>5. CASE Stop
  BY <1>5 DEF Stop
<1>6. ASSUME NEW n \in 1..Len(inbox), Handle(inbox[n]) PROVE TypeOK'
  <2> DEFINE f == inbox[n]
  <2>1. f \in Frames
    BY ElementOfSeq
  <2>2. inbox' \in Seq(Frames)
    BY <1>6, HeadTailProperties DEF Handle, NextFrame
  <2>3. known' \subseteq Sessions /\ last' \in Sessions /\ users' \subseteq Sessions
    BY <1>6, <2>1, FrameType DEF Handle, Remember, Noted
  <2>4. events' \in Seq(Events) /\ task' \in {"fetching", "handing"}
    BY <1>6, <2>1, HandedOver DEF Handle, Files
  <2> QED
    BY <1>6, <2>1, <2>2, <2>3, <2>4 DEF Handle
<1>7. ASSUME NEW f \in current, Fetched(f) PROVE TypeOK'
  <2>1. events' \in Seq(Events) /\ task' = "handing"
    BY <1>7, HandedOver DEF Fetched, Files
  <2> QED
    BY <1>7, <2>1 DEF Fetched
<1>8. CASE Handled
  BY <1>8 DEF Handled
<1>9. CASE Raise
  BY <1>9 DEF Raise
<1>10. ASSUME NEW s \in Turns, ToolHook(s) PROVE TypeOK'
  <2>1. s \in Sessions \cup {Foreign}
    <3>1. ASSUME NEW i \in 1..Len(events) PROVE events[i].session \in Sessions
      <4>1. events[i] \in Events
        BY ElementOfSeq
      <4> QED
        BY <4>1 DEF Events
    <3> QED
      BY <1>10, <3>1 DEF Turns
  <2>2. Attribute(s) \in Sessions \cup {NoSession}
    BY DEF Attribute
  <2>3. held' \subseteq Activities
    BY <1>10, <2>1, <2>2 DEF ToolHook, Activities
  <2> QED
    BY <1>10, <2>3 DEF ToolHook
<1>11. CASE PostActivity
  BY <1>11 DEF PostActivity
<1>12. CASE UNCHANGED vars
  BY <1>12 DEF vars
<1> QED
  BY <1>1, <1>2, <1>3, <1>4, <1>5, <1>6, <1>7, <1>8, <1>9, <1>10, <1>11, <1>12
     DEF Next

(* The queue stays in order: a new frame goes to its end with a number of  *)
(* its own, and what remains of it is a part of it.                        *)
LEMMA PartsInOrder ==
    ASSUME QueueInv, sent' = sent, Within(inbox', inbox)
    PROVE  /\ QueueInv'
           /\ \A n \in 1..Len(inbox') : \E m \in 1..Len(inbox) : inbox'[n] = inbox[m]
<1>1. PICK d \in Nat : \A n \in 1..Len(inbox') :
          n + d \in 1..Len(inbox) /\ inbox'[n] = inbox[n + d]
  BY DEF Within
<1>2. \A m, n \in 1..Len(inbox') : m < n => m + d < n + d
  OBVIOUS
<1> QED
  BY <1>1, <1>2 DEF QueueInv

(* A frame that is handed over is younger than what Hermes has, and        *)
(* becomes an event that fits what is known, noted and opened.             *)
LEMMA Delivered ==
    ASSUME TypeOK, InOrder, KeyInv, OpenOnceKeyed, UserInv, OwnSender, KnownInv,
           NEW f \in Frames, NEW file \in Files(f), HandOver(f, file),
           \A i \in 1..Len(events) : events[i].no < f.no,
           key' = key, users' = Noted(f),
           known \subseteq known', f.session \in known'
    PROVE  /\ (InOrder /\ KeyInv /\ OpenOnceKeyed /\ OwnSender)'
           /\ \A i \in 1..Len(events') :
                  /\ events'[i].no <= f.no
                  /\ events'[i].by = "user" => events'[i].session \in users'
                  /\ events'[i].session \in known'
<1>0. PICK text \in Texts(f) :
          /\ Len(events') = Len(events) + 1
          /\ \A i \in 1..Len(events) : events'[i] = events[i]
          /\ events'[Len(events) + 1] = EventOf(f, text, file)
  BY HandedOver DEF TypeOK
<1> DEFINE N == Len(events)
           e == EventOf(f, text, file)
<1>1. /\ N \in Nat /\ Len(events') = N + 1
      /\ \A i \in 1..N : events'[i] = events[i] /\ events[i] \in Events
      /\ events'[N + 1] = e
  BY <1>0, LenProperties, ElementOfSeq DEF TypeOK
<1>2. /\ e.no = f.no /\ e.session = f.session /\ e.named = f.named
      /\ e.by = SenderOf(f) /\ e.text = text /\ e.file = file
      /\ e.no \in Nat
  BY EventType, FrameType
<1>3. \A i \in 1..N : events[i].no \in Nat
  BY <1>1 DEF Events
<1> HIDE DEF N, e
<1>4. users \subseteq users'
  BY DEF Noted
<1>5. ASSUME NEW i \in 1..N
      PROVE  /\ events[i].no < e.no
             /\ events[i].text = "opened" =>
                    /\ e.text = "sealed" => ~e.named
                    /\ e.text # "plain" => e.file # "sealed"
             /\ events[i].session = e.session /\ events[i].by = "user" =>
                    e.by # "command"
  <2>1. events[i].text = "opened" => Keyed
    BY DEF KeyInv, N
  <2>2. events[i].by = "user" => events[i].session \in Noted(f)
    BY DEF UserInv, Noted, N
  <2>3. f.session \in Noted(f) => SenderOf(f) # "command"
    BY DEF SenderOf
  <2> QED
    BY <1>2, <2>1, <2>2, <2>3, Opened DEF N
<1>6. /\ e.no <= f.no
      /\ e.text = "opened" => Keyed
      /\ e.by = "user" => e.session \in users'
      /\ e.session \in known'
  BY <1>2, Opened DEF SenderOf
<1>7. ASSUME NEW i \in 1..N
      PROVE  /\ events[i].no <= f.no
             /\ events[i].text = "opened" => Keyed
             /\ events[i].by = "user" => events[i].session \in users'
             /\ events[i].session \in known'
  BY <1>2, <1>3, <1>4, <1>5 DEF KeyInv, UserInv, KnownInv, N
<1>8. ASSUME NEW i \in 1..N + 1, NEW j \in 1..N + 1, i < j
      PROVE  i \in 1..N /\ (j \in 1..N \/ j = N + 1)
  BY <1>1, <1>8
<1>9. ASSUME NEW i \in 1..N + 1 PROVE i \in 1..N \/ i = N + 1
  BY <1>1
<1>10. InOrder'
  <2>1. \A i, j \in 1..N : i < j => events[i].no < events[j].no
    BY DEF InOrder, N
  <2> QED
    BY <1>1, <1>5, <1>8, <2>1 DEF InOrder
<1>11. KeyInv'
  BY <1>1, <1>6, <1>7, <1>9 DEF KeyInv, Keyed
<1>12. OpenOnceKeyed'
  <2>1. \A i, j \in 1..N :
            i < j /\ events[i].text = "opened" =>
                /\ events[j].text = "sealed" => ~events[j].named
                /\ events[j].text # "plain" => events[j].file # "sealed"
    BY DEF OpenOnceKeyed, N
  <2> QED
    BY <1>1, <1>5, <1>8, <2>1 DEF OpenOnceKeyed
<1>13. OwnSender'
  <2>1. \A i, j \in 1..N :
            i < j /\ events[i].session = events[j].session /\ events[i].by = "user" =>
                events[j].by # "command"
    BY DEF OwnSender, N
  <2> QED
    BY <1>1, <1>5, <1>8, <2>1 DEF OwnSender
<1> QED
  BY <1>1, <1>6, <1>7, <1>9, <1>10, <1>11, <1>12, <1>13

(* A frame a user sends joins the queue with the number after all others.  *)
LEMMA StepSends ==
    ASSUME IInv, NEW f \in Frames, UserSends(f)
    PROVE  (QueueInv /\ PassedInv)'
<1> DEFINE L == Len(inbox)
<1>1. /\ L \in Nat /\ Len(inbox') = L + 1
      /\ \A n \in 1..L : inbox'[n] = inbox[n]
      /\ inbox'[L + 1] = f
  BY AppendProperties, LenProperties DEF IInv, TypeOK, UserSends
<1>2. /\ sent \in Nat /\ f.no = sent + 1 /\ sent' = f.no
      /\ events' = events /\ current' = current /\ task' = task
  BY DEF IInv, TypeOK, UserSends, adapterVars
<1>3. /\ \A n \in 1..L : inbox[n].no \in Nat
      /\ \A i \in 1..Len(events) : events[i].no \in Nat
      /\ \A g \in current : g.no \in Nat
  <2>1. /\ \A n \in 1..L : inbox[n] \in Frames
        /\ \A i \in 1..Len(events) : events[i] \in Events
        /\ \A g \in current : g \in Frames
    BY ElementOfSeq DEF IInv, TypeOK
  <2> QED
    BY <2>1, FrameType DEF Events
<1>4. /\ \A n \in 1..L : inbox[n].no <= sent
      /\ \A m, n \in 1..L : m < n => inbox[m].no < inbox[n].no
      /\ \A i \in 1..Len(events) : /\ events[i].no <= sent
                                   /\ \A n \in 1..L : events[i].no < inbox[n].no
      /\ \A g \in current : g.no <= sent /\ \A n \in 1..L : g.no < inbox[n].no
  BY DEF IInv, QueueInv, PassedInv
<1> HIDE DEF L
<1>5. ASSUME NEW n \in 1..L + 1 PROVE n \in 1..L \/ n = L + 1
  BY <1>1
<1>6. QueueInv'
  <2>1. \A n \in 1..L + 1 : inbox'[n].no <= sent'
    BY <1>1, <1>2, <1>3, <1>4, <1>5
  <2>2. ASSUME NEW m \in 1..L + 1, NEW n \in 1..L + 1, m < n
        PROVE  inbox'[m].no < inbox'[n].no
    <3>1. m \in 1..L /\ inbox'[m] = inbox[m]
      BY <1>1, <2>2
    <3>2. CASE n \in 1..L
      BY <1>1, <1>4, <2>2, <3>1, <3>2
    <3>3. CASE n = L + 1
      <4>1. inbox[m].no <= sent /\ inbox[m].no \in Nat
        BY <1>3, <1>4, <3>1
      <4> QED
        BY <1>1, <1>2, <3>1, <3>3, <4>1
    <3> QED
      BY <1>5, <3>2, <3>3
  <2> QED
    BY <1>1, <2>1, <2>2 DEF QueueInv
<1>7. PassedInv'
  <2>1. \A i \in 1..Len(events) :
            /\ events[i].no <= sent'
            /\ \A n \in 1..L + 1 : events[i].no < inbox'[n].no
    BY <1>1, <1>2, <1>3, <1>4, <1>5
  <2>2. \A g \in current : g.no <= sent' /\ \A n \in 1..L + 1 : g.no < inbox'[n].no
    BY <1>1, <1>2, <1>3, <1>4, <1>5
  <2>3. task = "fetching" =>
            \A g \in current : \A i \in 1..Len(events) : events[i].no < g.no
    BY DEF IInv, PassedInv
  <2> QED
    BY <1>1, <1>2, <2>1, <2>2, <2>3 DEF PassedInv
<1> QED
  BY <1>6, <1>7

(* The tools of a known session are shown in it. *)
LEMMA StepActivity ==
    ASSUME IInv, \/ hookVars' = hookVars
                 \/ PostActivity
                 \/ \E s \in Turns : ToolHook(s)
    PROVE  OwnActivity'
<1>1. CASE hookVars' = hookVars
  BY <1>1 DEF IInv, OwnActivity, hookVars
<1>2. CASE PostActivity
  BY <1>2 DEF IInv, OwnActivity, PostActivity
<1>3. ASSUME NEW s \in Turns, ToolHook(s) PROVE OwnActivity'
  <2>1. s \in Sessions => s \in known
    BY SessionsAssumption DEF IInv, KnownInv, Turns
  <2>2. \A a \in held' : a.origin = s /\ a.shown = Attribute(s)
    BY <1>3 DEF ToolHook
  <2>3. \A a \in activity' : a \in activity
    BY <1>3 DEF ToolHook
  <2> QED
    BY <2>1, <2>2, <2>3 DEF IInv, OwnActivity, Attribute
<1> QED
  BY <1>1, <1>2, <1>3

(* A frame that arrives is younger than what was handed over before it and *)
(* older than what is left.                                                *)
LEMMA StepArrives ==
    ASSUME IInv, NEW f \in Frames, Arrives(f), TypeOK'
    PROVE  IInv'
<1> USE DEF IInv
<1>1. /\ inbox \in Seq(Frames) /\ inbox # <<>>
      /\ f = inbox[1] /\ Len(inbox) \in Nat \ {0}
      /\ sent' = sent
  BY EmptySeq DEF TypeOK, Arrives
<1>2. /\ \A n \in 1..Len(inbox') : n + 1 \in 1..Len(inbox) /\ inbox'[n] = inbox[n + 1]
  BY <1>1, HeadTailProperties, LenProperties DEF TypeOK, Arrives
<1>3. Within(inbox', inbox)
  BY <1>1, Parts DEF Arrives
<1>4. QueueInv'
  BY <1>1, <1>3, PartsInOrder
<1>5. \A n \in 1..Len(inbox') : f.no < inbox'[n].no
  <2>1. \A n \in 1..Len(inbox') : 1 < n + 1
    OBVIOUS
  <2> QED
    BY <1>1, <1>2, <2>1 DEF QueueInv
<1>6. f.no <= sent
  BY <1>1 DEF QueueInv
<1>7. /\ \A i \in 1..Len(events) :
             events[i].no < f.no /\ events[i].no <= sent
      /\ \A i \in 1..Len(events) : \A n \in 1..Len(inbox') :
             events[i].no < inbox'[n].no
  <2>1. 1 \in 1..Len(inbox)
    BY <1>1
  <2>2. \A i \in 1..Len(events) :
            /\ events[i].no <= sent
            /\ \A n \in 1..Len(inbox) : events[i].no < inbox[n].no
    BY DEF PassedInv
  <2>3. ASSUME NEW i \in 1..Len(events), NEW n \in 1..Len(inbox')
        PROVE  events[i].no < inbox'[n].no
    <3>1. n + 1 \in 1..Len(inbox) /\ inbox'[n] = inbox[n + 1]
      BY <1>2
    <3> QED
      BY <2>2, <3>1
  <2> QED
    BY <1>1, <2>1, <2>2, <2>3
<1>8. /\ current' = {f} /\ users' = Noted(f) /\ key' = key
      /\ known' = known \cup {f.session}
      /\ held' = held /\ activity' = activity
  BY DEF Arrives, Remember, hookVars
<1>9. /\ users \subseteq users'
      /\ \A g \in current' : g.kind = "message" => g.session \in users'
      /\ \A g \in current' : g.session \in known'
      /\ \A g \in current' : g.no <= sent' /\ \A n \in 1..Len(inbox') : g.no < inbox'[n].no
  BY <1>1, <1>5, <1>6, <1>8 DEF Noted
<1>10. CASE task' = "fetching" /\ events' = events
  <2>1. PassedInv'
    BY <1>1, <1>7, <1>8, <1>9, <1>10 DEF PassedInv
  <2>2. (InOrder /\ KeyInv /\ OpenOnceKeyed /\ OwnSender /\ OwnActivity)'
    BY <1>8, <1>10 DEF InOrder, KeyInv, OpenOnceKeyed, OwnSender, OwnActivity, Keyed
  <2>3. UserInv' /\ KnownInv'
    BY <1>8, <1>9, <1>10 DEF UserInv, KnownInv
  <2> QED
    BY <1>4, <2>1, <2>2, <2>3
<1>11. CASE HandOver(f, "none")
  <2>1. "none" \in Files(f)
    BY DEF Files
  <2>2. /\ (InOrder /\ KeyInv /\ OpenOnceKeyed /\ OwnSender)'
        /\ \A i \in 1..Len(events') :
               /\ events'[i].no <= f.no
               /\ events'[i].by = "user" => events'[i].session \in users'
               /\ events'[i].session \in known'
    BY <1>7, <1>8, <1>11, <2>1, Delivered
  <2>3. task' = "handing"
    BY <1>11 DEF HandOver
  <2>4. PassedInv'
    <3>1. \A i \in 1..Len(events') :
              events'[i].no <= sent' /\ \A n \in 1..Len(inbox') : events'[i].no < inbox'[n].no
      <4>1. ASSUME NEW i \in 1..Len(events') PROVE events'[i] \in Events
        BY ElementOfSeq DEF TypeOK
      <4>2. ASSUME NEW n \in 1..Len(inbox') PROVE inbox'[n] \in Frames
        BY ElementOfSeq DEF TypeOK
      <4>3. f.no \in Nat /\ sent \in Nat
        BY FrameType DEF TypeOK
      <4>4. ASSUME NEW i \in 1..Len(events') PROVE events'[i].no \in Nat
        BY <4>1 DEF Events
      <4>5. ASSUME NEW n \in 1..Len(inbox') PROVE inbox'[n].no \in Nat
        BY <4>2 DEF Frames
      <4> QED
        BY <1>1, <1>5, <1>6, <2>2, <4>3, <4>4, <4>5
    <3> QED
      BY <1>9, <2>3, <3>1 DEF PassedInv
  <2>5. OwnActivity'
    BY <1>8 DEF OwnActivity
  <2> QED
    BY <1>4, <1>9, <2>2, <2>4, <2>5 DEF UserInv, KnownInv
<1> QED
  BY <1>10, <1>11 DEF Arrives

(* The frame whose file was downloaded is still older than what is unread. *)
LEMMA StepFetched ==
    ASSUME IInv, NEW f \in current, Fetched(f), TypeOK'
    PROVE  IInv'
<1> USE DEF IInv
<1>1. /\ f \in Frames /\ task = "fetching"
      /\ inbox' = inbox /\ sent' = sent /\ current' = current /\ key' = key
      /\ users' = users /\ known' = known
      /\ held' = held /\ activity' = activity
  BY DEF TypeOK, Fetched, cloudVars, hookVars
<1>2. PICK file \in Files(f) : HandOver(f, file)
  BY DEF Fetched, Files
<1>3. /\ Noted(f) = users /\ f.session \in known
      /\ \A i \in 1..Len(events) : events[i].no < f.no
      /\ f.no <= sent /\ \A n \in 1..Len(inbox) : f.no < inbox[n].no
  BY <1>1 DEF PassedInv, UserInv, KnownInv, Noted
<1>4. /\ (InOrder /\ KeyInv /\ OpenOnceKeyed /\ OwnSender)'
      /\ \A i \in 1..Len(events') :
             /\ events'[i].no <= f.no
             /\ events'[i].by = "user" => events'[i].session \in users'
             /\ events'[i].session \in known'
  BY <1>1, <1>2, <1>3, Delivered
<1>5. PassedInv'
  <2>1. task' = "handing"
    BY <1>2 DEF HandOver
  <2>2. \A i \in 1..Len(events') :
            events'[i].no <= sent /\ \A n \in 1..Len(inbox) : events'[i].no < inbox[n].no
    <3>1. ASSUME NEW i \in 1..Len(events') PROVE events'[i].no \in Nat
      <4>1. events'[i] \in Events
        BY ElementOfSeq DEF TypeOK
      <4> QED
        BY <4>1 DEF Events
    <3>2. ASSUME NEW n \in 1..Len(inbox) PROVE inbox[n].no \in Nat
      <4>1. inbox[n] \in Frames
        BY ElementOfSeq DEF TypeOK
      <4> QED
        BY <4>1 DEF Frames
    <3>3. f.no \in Nat /\ sent \in Nat
      BY <1>1, FrameType DEF TypeOK
    <3> QED
      BY <1>3, <1>4, <3>1, <3>2, <3>3
  <2> QED
    BY <1>1, <2>1, <2>2 DEF PassedInv
<1>6. (QueueInv /\ OwnActivity)'
  BY <1>1 DEF QueueInv, OwnActivity
<1> QED
  BY <1>1, <1>4, <1>5, <1>6 DEF UserInv, KnownInv

(* The other steps take nothing back. *)
LEMMA StepRests ==
    ASSUME IInv, Rests, TypeOK'
    PROVE  IInv'
<1> USE DEF IInv
<1>1. /\ QueueInv'
      /\ \A n \in 1..Len(inbox') : \E m \in 1..Len(inbox) : inbox'[n] = inbox[m]
  BY PartsInOrder DEF Rests
<1>2. PassedInv'
  BY <1>1 DEF PassedInv, Rests
<1>3. (InOrder /\ KeyInv /\ OpenOnceKeyed /\ OwnSender /\ UserInv /\ KnownInv)'
  BY DEF InOrder, KeyInv, OpenOnceKeyed, OwnSender, UserInv, KnownInv, Rests
<1>4. OwnActivity'
  BY StepActivity DEF Rests
<1> QED
  BY <1>1, <1>2, <1>3, <1>4

-----------------------------------------------------------------------------
(* The inductive invariant holds in every reachable state (Inbound). *)
THEOREM InboundCorrect == Spec => []IInv
<1>1. Init => IInv
  <2> SUFFICES ASSUME Init PROVE IInv
    OBVIOUS
  <2>1. TypeOK
    BY BoundAssumption, EmptySeq DEF Init, TypeOK
  <2>2. Len(inbox) = 0 /\ Len(events) = 0 /\ current = {} /\ held = {} /\ activity = {}
    BY DEF Init
  <2> QED
    BY <2>1, <2>2 DEF IInv, QueueInv, PassedInv, InOrder, KeyInv, OpenOnceKeyed,
                      UserInv, OwnSender, KnownInv, OwnActivity
<1>2. IInv /\ [Next]_vars => IInv'
  <2> SUFFICES ASSUME IInv, [Next]_vars PROVE IInv'
    OBVIOUS
  <2>1. TypeOK'
    BY StepTypes DEF IInv
  <2>2. ASSUME NEW f \in Frames, UserSends(f) PROVE IInv'
    <3>1. (InOrder /\ KeyInv /\ OpenOnceKeyed /\ OwnSender /\ UserInv /\ KnownInv
              /\ OwnActivity)'
      BY <2>2 DEF IInv, InOrder, KeyInv, OpenOnceKeyed, OwnSender, UserInv, KnownInv,
                  OwnActivity, Keyed, UserSends, adapterVars, hookVars
    <3> QED
      BY <2>1, <2>2, <3>1, StepSends DEF IInv
  <2> QED
    BY <2>1, <2>2, StepKinds, StepArrives, StepFetched, StepRests DEF IInv
<1> QED
  BY <1>1, <1>2, PTL DEF Spec

(* Every variable keeps its type: what Hermes gets is an event, and the    *)
(* sessions and users noted are the cloud's (_on_cloud, _dispatch).        *)
THEOREM TypeCorrect == Spec => []TypeOK
<1>1. IInv => TypeOK
  BY DEF IInv
<1> QED
  BY <1>1, InboundCorrect, PTL

(* Hermes gets the messages in the order they were sent and none twice,    *)
(* however many there are, wherever a handler raises and whenever the      *)
(* connection drops (_handle_raw 260-264).                                 *)
THEOREM InOrderCorrect == Spec => []InOrder
<1>1. IInv => InOrder
  BY DEF IInv
<1> QED
  BY <1>1, InboundCorrect, PTL

(* Once the client has opened a message it hands none to Hermes sealed,    *)
(* but for a text that has no id to open it with                           *)
(* (_handle_raw 239-244, _handle_user_message 442, _download 543).         *)
THEOREM OpenCorrect == Spec => []OpenOnceKeyed
<1>1. IInv => OpenOnceKeyed
  BY DEF IInv
<1> QED
  BY <1>1, InboundCorrect, PTL

(* A command after a message of its session is the session's user's        *)
(* (_on_cloud 370, _handle_user_message 439).                              *)
THEOREM SenderCorrect == Spec => []OwnSender
<1>1. IInv => OwnSender
  BY DEF IInv
<1> QED
  BY <1>1, InboundCorrect, PTL

(* The tools of a BotsChat session show up in that session (_dispatch 497, *)
(* _on_pre_tool_call, _on_post_tool_call).                                 *)
THEOREM ActivityCorrect == Spec => []OwnActivity
<1>1. IInv => OwnActivity
  BY DEF IInv
<1> QED
  BY <1>1, InboundCorrect, PTL
=============================================================================
