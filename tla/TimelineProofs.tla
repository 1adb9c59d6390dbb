--------------------------- MODULE TimelineProofs -----------------------------
(***************************************************************************)
(* What is posted to a task's timeline.  Theorems about TaskThreads for    *)
(* any people, forms and requests: nobody comes to a task untold, and no   *)
(* id is told twice but by lists that repeat it, or of what is not there;  *)
(* and about MediaJobs for any attachments, pollers and workers, failures  *)
(* and restarts: a result is kept, and no voice note is stranded without a *)
(* fault.                                                                  *)
(***************************************************************************)
EXTENDS TaskThreads, MediaJobs, FiniteSetTheorems, TLAPS

--------------------------------------------------------------------------------
(* Participants, comments and notifications *)

(***************************************************************************)
(* The inductive invariant: an event belongs to one request, which has     *)
(* told nobody before it writes, and from then on only those it mentions.  *)
(***************************************************************************)
Untold(e) == \A n \in sent : n.event # e

OwnEvents ==
    /\ \A n \in sent : n.event <= clock
    /\ \A r \in Requests : request[r] # Idle =>
        /\ request[r].event <= clock
        /\ \A q \in Requests : request[q] # Idle /\ request[q].event = request[r].event => q = r

Telling(r) ==
    /\ request[r].call.op = "comment"
    /\ request[r].event \in {c.event : c \in comments}
    /\ \A n \in sent : n.event = request[r].event =>
        n.as = "MENTION" /\ n.to \in uniqueMentionedIds(r)

RequestSound(r) ==
    /\ request[r] # Idle /\ request[r].step = "begun" => Untold(request[r].event)
    /\ request[r] # Idle /\ request[r].step = "telling" => Telling(r)

IInv ==
    /\ TypeOK /\ OwnEvents
    /\ \A r \in Requests : RequestSound(r)
    /\ AssignedAreTold /\ ToldOnceOfWhatExists

(***************************************************************************)
(* What one event sends.                                                   *)
(***************************************************************************)

\* Two rows of one event that may go to the same id: in two roles, or for two entries.
Apart(n, m) ==
    \/ {n.as, m.as} = ParticipantRole
    \/ n.as = m.as /\ n.to.nr # m.to.nr

\* Rows of one event, of which no two are the same news for the same entry.
Sends(rows, e) ==
    /\ rows \subseteq Notification
    /\ \A n \in rows : n.event = e
    /\ \A n, m \in rows : n # m /\ SameId(n, m) => Apart(n, m)

\* Somebody the database names is an entry of its own.
LEMMA IdEntry ==
    ASSUME NEW p \in People
    PROVE  /\ Id(p) \in Entry
           /\ Id(p).who = p /\ Id(p).spelling = "canonical" /\ Id(p).nr = 1
BY DEF Id, Entry

\* The participants of a form are rows of the table, whoever they are.
LEMMA InsertedRows ==
    ASSUME NEW list \in Lists
    PROVE  Inserted(list) \subseteq People \X ParticipantRole
<1>1. list.assignees \subseteq Entry /\ list.subscribers \subseteq Entry
  BY ThreadsAssumption
<1>2. Named(list.assignees) \subseteq People /\ Named(list.subscribers) \subseteq People
  BY <1>1 DEF Named, Entry
<1>3. QED
  BY <1>2 DEF Inserted, ParticipantRole

\* A row has what is put into it.
LEMMA NotifyRow ==
    ASSUME NEW e \in 1..MaxRequests, NEW x \in Entry,
           NEW as \in ParticipantRole \cup {"MENTION", "AUTHOR", "CREATOR"},
           NEW kind \in CardKinds
    PROVE  /\ Notify(e, x, as, kind) \in Notification
           /\ Notify(e, x, as, kind).to = x /\ Notify(e, x, as, kind).as = as
           /\ Notify(e, x, as, kind).kind = kind /\ Notify(e, x, as, kind).event = e
BY DEF Notify, Notification

\* Two entries of one id are told apart by their number.
LEMMA EqualEntries ==
    ASSUME NEW x \in Entry, NEW y \in Entry, x.who = y.who, x.spelling = y.spelling, x # y
    PROVE  x.nr # y.nr
BY DEF Entry

\* The entries of a form that are new are each told once for each role, and the assignees
\* among them get their card.
LEMMA WelcomeRows ==
    ASSUME NEW e \in 1..MaxRequests, NEW list \in Lists, NEW old
    PROVE  /\ Sends(Welcome(e, list, old), e)
           /\ \A n \in Welcome(e, list, old) : n.as \in ParticipantRole
           /\ \A p \in Named(list.assignees) \ old : \E n \in Welcome(e, list, old) :
                n.to.who = p /\ n.kind = "ASSIGNED" /\ n.event = e
<1> DEFINE carded == Newcomers(list.assignees, old)
           lined  == Newcomers(list.subscribers, old)
           card(x) == Notify(e, x, "ASSIGNEE", "ASSIGNED")
           line(x) == Notify(e, x, "SUBSCRIBER", "none")
           cards == {card(x) : x \in carded}
           lines == {line(x) : x \in lined}
<1>0. carded \subseteq Entry /\ lined \subseteq Entry
  BY ThreadsAssumption DEF Newcomers
<1>1. \A x \in Entry :
        /\ card(x) \in Notification /\ card(x).to = x /\ card(x).as = "ASSIGNEE"
        /\ card(x).kind = "ASSIGNED" /\ card(x).event = e
  BY NotifyRow DEF ParticipantRole, CardKinds
<1>2. \A x \in Entry :
        /\ line(x) \in Notification /\ line(x).to = x /\ line(x).as = "SUBSCRIBER"
        /\ line(x).event = e
  BY NotifyRow DEF ParticipantRole, CardKinds
<1>3. \A p \in Named(list.assignees) \ old : \E x \in carded : x.who = p
  BY DEF Named, Newcomers
<1>4. Welcome(e, list, old) = cards \cup lines
  BY DEF Welcome
<1> HIDE DEF carded, lined, card, line
<1>5. \A n \in cards :
        /\ n \in Notification /\ n.as = "ASSIGNEE" /\ n.event = e
        /\ n.to \in Entry /\ n = card(n.to)
  BY <1>0, <1>1
<1>6. \A n \in lines :
        /\ n \in Notification /\ n.as = "SUBSCRIBER" /\ n.event = e
        /\ n.to \in Entry /\ n = line(n.to)
  BY <1>0, <1>2
<1>7. \A p \in Named(list.assignees) \ old : \E n \in cards :
        n.to.who = p /\ n.kind = "ASSIGNED" /\ n.event = e
  BY <1>0, <1>1, <1>3
<1> HIDE DEF cards, lines
<1>8. ASSUME NEW n \in cards \cup lines, NEW m \in cards \cup lines, n # m, SameId(n, m)
      PROVE  Apart(n, m)
  <2>1. CASE n \in cards /\ m \in cards
    <3>1. n.to # m.to /\ n.to \in Entry /\ m.to \in Entry
      BY <1>5, <1>8, <2>1
    <3>2. n.to.nr # m.to.nr
      BY <1>8, <3>1, EqualEntries DEF SameId
    <3>3. QED
      BY <1>5, <2>1, <3>2 DEF Apart
  <2>2. CASE n \in lines /\ m \in lines
    <3>1. n.to # m.to /\ n.to \in Entry /\ m.to \in Entry
      BY <1>6, <1>8, <2>2
    <3>2. n.to.nr # m.to.nr
      BY <1>8, <3>1, EqualEntries DEF SameId
    <3>3. QED
      BY <1>6, <2>2, <3>2 DEF Apart
  <2>3. CASE n \in cards /\ m \in lines
    BY <1>5, <1>6, <2>3 DEF Apart, ParticipantRole
  <2>4. CASE n \in lines /\ m \in cards
    BY <1>5, <1>6, <2>4 DEF Apart, ParticipantRole
  <2>5. QED
    BY <2>1, <2>2, <2>3, <2>4
<1>9. Sends(cards \cup lines, e)
  BY <1>5, <1>6, <1>8 DEF Sends
<1>10. QED
  BY <1>4, <1>5, <1>6, <1>7, <1>9 DEF ParticipantRole

\* A decision tells every participant once for each of their roles.
LEMMA CardRows ==
    ASSUME participants \subseteq People \X ParticipantRole,
           NEW e \in 1..MaxRequests, NEW actor, NEW kind \in Decisions
    PROVE  /\ Sends(notifyParticipantsWithCard(e, actor, kind), e)
           /\ \A n \in notifyParticipantsWithCard(e, actor, kind) : n.as \in ParticipantRole
<1> DEFINE told(p) == IF p[2] = "ASSIGNEE" /\ p[1] # actor THEN kind ELSE "none"
           item(p) == Notify(e, Id(p[1]), p[2], told(p))
<1>1. \A p \in participants : p = <<p[1], p[2]>> /\ p[1] \in People /\ p[2] \in ParticipantRole
  OBVIOUS
<1>2. \A p \in participants : told(p) \in CardKinds
  BY DEF CardKinds
<1>3. \A p \in participants :
        /\ item(p) \in Notification /\ item(p).to = Id(p[1])
        /\ item(p).as = p[2] /\ item(p).event = e
  BY <1>1, <1>2, NotifyRow, IdEntry
<1>4. notifyParticipantsWithCard(e, actor, kind) = {item(p) : p \in participants}
  BY DEF notifyParticipantsWithCard
<1> HIDE DEF told, item
<1>5. ASSUME NEW p \in participants, NEW q \in participants,
             item(p) # item(q), SameId(item(p), item(q))
      PROVE  Apart(item(p), item(q))
  <2>1. p[1] = q[1] /\ p[2] # q[2]
    BY <1>1, <1>3, <1>5, IdEntry DEF SameId
  <2>2. QED
    BY <1>1, <1>3, <2>1 DEF Apart, ParticipantRole
<1>6. QED
  BY <1>1, <1>3, <1>4, <1>5 DEF Sends

\* An entry of the timeline tells those it mentions, and the others once for each role.
LEMMA PostRows ==
    ASSUME NEW e \in 1..MaxRequests, NEW mentions \in SUBSET Entry,
           NEW others \in SUBSET (People \X ParticipantRole),
           \A p \in others : \A x \in mentions : x.spelling = "canonical" => x.who # p[1]
    PROVE  LET rows == {Notify(e, x, "MENTION", "none") : x \in mentions}
                        \cup {Notify(e, Id(p[1]), p[2], "none") : p \in others}
           IN  /\ Sends(rows, e)
               /\ \A n \in rows : n.as \in ParticipantRole \cup {"MENTION"}
<1> DEFINE named(x) == Notify(e, x, "MENTION", "none")
           line(p)  == Notify(e, Id(p[1]), p[2], "none")
           mentioned == {named(x) : x \in mentions}
           lines    == {line(p) : p \in others}
<1>1. \A p \in others : p = <<p[1], p[2]>> /\ p[1] \in People /\ p[2] \in ParticipantRole
  OBVIOUS
<1>2. \A x \in mentions :
        /\ named(x) \in Notification /\ named(x).to = x
        /\ named(x).as = "MENTION" /\ named(x).event = e
  BY NotifyRow DEF CardKinds
<1>3. \A p \in others :
        /\ line(p) \in Notification /\ line(p).to = Id(p[1])
        /\ line(p).as = p[2] /\ line(p).event = e
  BY <1>1, NotifyRow, IdEntry DEF CardKinds
<1> HIDE DEF named, line
<1>4. \A n \in mentioned :
        /\ n \in Notification /\ n.as = "MENTION" /\ n.event = e
        /\ n.to \in mentions /\ n = named(n.to)
  BY <1>2
<1>5. \A n \in lines :
        /\ n \in Notification /\ n.event = e
        /\ \E p \in others : n = line(p) /\ n.to = Id(p[1]) /\ n.as = p[2]
  BY <1>3
<1> HIDE DEF mentioned, lines
<1>6. ASSUME NEW n \in mentioned, NEW m \in mentioned, n # m, SameId(n, m)
      PROVE  Apart(n, m)
  <2>1. n.to # m.to /\ n.to \in Entry /\ m.to \in Entry
    BY <1>4, <1>6
  <2>2. n.to.nr # m.to.nr
    BY <1>6, <2>1, EqualEntries DEF SameId
  <2>3. QED
    BY <1>4, <2>2 DEF Apart
<1>7. ASSUME NEW n \in mentioned, NEW m \in lines PROVE ~SameId(n, m) /\ ~SameId(m, n)
  <2>1. PICK p \in others : m.to = Id(p[1])
    BY <1>5
  <2>2. Id(p[1]).who = p[1] /\ Id(p[1]).spelling = "canonical"
    BY <1>1, IdEntry
  <2>3. n.to.spelling = "canonical" => n.to.who # p[1]
    BY <1>4
  <2>4. QED
    BY <2>1, <2>2, <2>3 DEF SameId
<1>8. ASSUME NEW n \in lines, NEW m \in lines, n # m, SameId(n, m)
      PROVE  Apart(n, m)
  <2>1. PICK p \in others : n = line(p) /\ n.to = Id(p[1]) /\ n.as = p[2]
    BY <1>5
  <2>2. PICK q \in others : m = line(q) /\ m.to = Id(q[1]) /\ m.as = q[2]
    BY <1>5
  <2>3. p[1] = q[1] /\ p[2] # q[2]
    BY <1>1, <1>8, <2>1, <2>2, IdEntry DEF SameId
  <2>4. QED
    BY <1>1, <2>1, <2>2, <2>3 DEF Apart, ParticipantRole
<1>9. Sends(mentioned \cup lines, e)
  BY <1>4, <1>5, <1>6, <1>7, <1>8 DEF Sends
<1>10. \A n \in mentioned \cup lines : n.as \in ParticipantRole \cup {"MENTION"}
  BY <1>1, <1>4, <1>5
<1>11. mentioned \cup lines = {Notify(e, x, "MENTION", "none") : x \in mentions}
                                \cup {Notify(e, Id(p[1]), p[2], "none") : p \in others}
  BY DEF mentioned, lines, named, line
<1>12. QED
  BY <1>9, <1>10, <1>11

(***************************************************************************)
(* What a step leaves of the invariant.                                    *)
(***************************************************************************)

\* A request in the middle of something is well typed.
LEMMA RunningRequest ==
    ASSUME TypeOK, NEW r \in Requests, request[r].step \in {"begun", "telling"}
    PROVE  /\ request[r] # Idle /\ request[r] \in Running
           /\ request[r].event \in 1..MaxRequests /\ request[r].call \in Call
<1>1. Idle.step = "idle"
  BY DEF Idle
<1>2. request[r] # Idle
  BY <1>1
<1>3. request[r] \in Running
  BY <1>2 DEF TypeOK
<1>4. QED
  BY <1>2, <1>3 DEF Running

\* When a request ends with rows of its own event, the others are none the wiser.
LEMMA RequestEnds ==
    ASSUME IInv, NEW r \in Requests, request[r] # Idle,
           request' = [request EXCEPT ![r] = Idle], clock' = clock, comments' = comments,
           NEW rows, \A n \in rows : n.event = request[r].event,
           sent' = sent \cup rows
    PROVE  OwnEvents' /\ \A q \in Requests : RequestSound(q)'
<1>1. request'[r] = Idle /\ \A q \in Requests : q # r => request'[q] = request[q]
  BY DEF IInv, TypeOK
<1>2. request[r].event <= clock
  BY DEF IInv, OwnEvents
<1>3. \A n \in sent' : n.event <= clock'
  BY <1>2 DEF IInv, OwnEvents
<1>4. OwnEvents'
  BY <1>1, <1>3 DEF IInv, OwnEvents
<1>5. ASSUME NEW q \in Requests, q # r, request[q] # Idle PROVE RequestSound(q)'
  <2>1. request[q].event # request[r].event
    BY <1>5 DEF IInv, OwnEvents
  <2>2. \A n \in sent' : n.event = request[q].event => n \in sent
    BY <2>1
  <2>3. RequestSound(q)
    BY DEF IInv
  <2>4. QED
    BY <1>1, <1>5, <2>2, <2>3 DEF RequestSound, Untold, Telling, uniqueMentionedIds
<1>6. ASSUME NEW q \in Requests, request'[q] = Idle PROVE RequestSound(q)'
  BY <1>6 DEF RequestSound
<1>7. QED
  BY <1>1, <1>4, <1>5, <1>6

\* Rows of an event nobody was told of leave everybody told once.
LEMMA ToldOfAnother ==
    ASSUME ToldOnceOfWhatExists, NEW e, Untold(e), NEW rows, Sends(rows, e),
           sent' = sent \cup rows, comments \subseteq comments', updates \subseteq updates',
           \A n \in rows : n.as # "AUTHOR" /\ (n.as = "MENTION" => e \in {u.event : u \in updates'})
    PROVE  ToldOnceOfWhatExists'
<1>1. ASSUME NEW n \in sent', NEW m \in sent', n # m, n.event = m.event, SameId(n, m)
      PROVE  /\ Apart(n, m)
             /\ \/ {n.as, m.as} = ParticipantRole
                \/ n.as = "MENTION" => n.event \in {u.event : u \in updates'}
  <2>1. CASE n \in sent /\ m \in sent
    BY <1>1, <2>1 DEF ToldOnceOfWhatExists, Apart
  <2>2. CASE n \in rows /\ m \in rows
    BY <1>1, <2>2 DEF Sends
  <2>3. CASE n \in rows /\ m \in sent
    BY <1>1, <2>3 DEF Sends, Untold
  <2>4. CASE n \in sent /\ m \in rows
    BY <1>1, <2>4 DEF Sends, Untold
  <2>5. QED
    BY <2>1, <2>2, <2>3, <2>4
<1>2. \A n \in sent' : n.as = "AUTHOR" => n.event \in {c.event : c \in comments'}
  BY DEF ToldOnceOfWhatExists
<1>3. \A n \in sent' : n.as = "MENTION" =>
        n.event \in {c.event : c \in comments'} \cup {u.event : u \in updates'}
  BY DEF ToldOnceOfWhatExists, Sends
<1>4. QED
  BY <1>1, <1>2, <1>3 DEF ToldOnceOfWhatExists, Apart

\* Nobody who was sent a card loses it, as long as nobody comes or goes.
LEMMA StillTold ==
    ASSUME AssignedAreTold, since' = since, sent \subseteq sent'
    PROVE  AssignedAreTold'
BY DEF AssignedAreTold

\* A form's newcomers are told by the event that brings them.
LEMMA NewcomersTold ==
    ASSUME TypeOK, AssignedAreTold, NEW e \in 1..MaxRequests, NEW list \in Lists, NEW old,
           old \subseteq {p[1] : p \in participants},
           Joins(e, list), sent' = sent \cup Welcome(e, list, old)
    PROVE  AssignedAreTold' /\ since' \in [People -> 0..MaxRequests]
<1> DEFINE present == {p[1] : p \in participants}
           named == Named(list.assignees \cup list.subscribers)
           new(p) == IF p \in present /\ p \in named THEN since[p]
                     ELSE IF p \in Named(list.assignees) \ present THEN e ELSE 0
<1>1. since' = [p \in People |-> new(p)]
  BY DEF Joins
<1>2. \A p \in People : new(p) \in 0..MaxRequests
  <2>1. \A p \in People : since[p] \in 0..MaxRequests
    BY DEF TypeOK
  <2>2. 0 \in 0..MaxRequests /\ e \in 0..MaxRequests
    BY ThreadsAssumption
  <2>3. QED
    BY <2>1, <2>2
<1>3. ASSUME NEW p \in People, since'[p] # 0
      PROVE  \E n \in sent' : n.to.who = p /\ n.kind = "ASSIGNED" /\ n.event = since'[p]
  <2>1. since'[p] = new(p)
    BY <1>1
  <2>2. CASE p \in present
    <3>1. since'[p] = since[p]
      BY <1>3, <2>1, <2>2
    <3>2. QED
      BY <1>3, <3>1 DEF AssignedAreTold
  <2>3. CASE p \notin present
    <3>1. since'[p] = e /\ p \in Named(list.assignees) \ old
      BY <1>3, <2>1, <2>3
    <3>2. QED
      BY <3>1, WelcomeRows
  <2>4. QED
    BY <2>2, <2>3
<1>4. QED
  BY <1>1, <1>2, <1>3 DEF AssignedAreTold

\* The bell's variables keep within what was sent.
LEMMA TypeKept ==
    ASSUME TypeOK, NEW r \in Requests, End(r), NEW rows, rows \subseteq Notification,
           sent' = sent \cup rows, comments' = comments,
           review' \in {"none", "UNSUBMITTED", "PENDING", "APPROVED", "REJECTED"},
           participants' \subseteq People \X ParticipantRole,
           updates' \subseteq [event : 1..MaxRequests, author : People],
           since' \in [People -> 0..MaxRequests]
    PROVE  TypeOK'
<1>1. request' \in [Requests -> Running \cup {Idle}]
  BY DEF TypeOK, End
<1>2. QED
  BY <1>1 DEF TypeOK, End, bell

(***************************************************************************)
(* The steps.                                                              *)
(***************************************************************************)

\* A task nobody has heard of is sound.
LEMMA InitInv == Init => IInv
<1> SUFFICES ASSUME Init PROVE IInv
  OBVIOUS
<1>1. TypeOK
  BY ThreadsAssumption DEF Init, TypeOK
<1>2. OwnEvents /\ \A r \in Requests : RequestSound(r)
  BY DEF Init, OwnEvents, RequestSound
<1>3. AssignedAreTold /\ ToldOnceOfWhatExists
  BY DEF Init, AssignedAreTold, ToldOnceOfWhatExists
<1>4. QED
  BY <1>1, <1>2, <1>3 DEF IInv

\* A request that begins has an event nobody was told of.
LEMMA BeginInv ==
    ASSUME IInv, NEW r \in Requests, NEW call \in Call, Begin(r, call)
    PROVE  IInv'
<1> DEFINE new == [step |-> "begun", event |-> clock + 1, seen |-> participants, call |-> call]
<1>1. clock + 1 \in 1..MaxRequests /\ clock' = clock + 1
  BY ThreadsAssumption DEF IInv, TypeOK, Begin
<1>2. new \in Running /\ request' = [request EXCEPT ![r] = new]
  BY <1>1 DEF IInv, TypeOK, Begin, Running
<1>3. new.step = "begun" /\ new.event = clock + 1
  OBVIOUS
<1> HIDE DEF new
<1>4. request'[r] = new /\ \A q \in Requests : q # r => request'[q] = request[q]
  BY <1>2 DEF IInv, TypeOK
<1>5. UNCHANGED <<review, participants, updates, comments, sent, read, dismissed, cleared, marks, since, lost>>
  BY DEF Begin, table, bell
<1>6. TypeOK'
  BY <1>1, <1>2, <1>5, ThreadsAssumption DEF IInv, TypeOK
<1>7. OwnEvents'
  <2>1. \A n \in sent' : n.event <= clock'
    <3>1. \A n \in sent : n.event \in Nat /\ n.event <= clock
      BY DEF IInv, OwnEvents, TypeOK, Notification
    <3>2. QED
      BY <1>1, <1>5, <3>1 DEF IInv, TypeOK
  <2>2. \A q \in Requests : q # r /\ request'[q] # Idle =>
            request'[q].event \in Nat /\ request'[q].event <= clock
    BY <1>4 DEF IInv, OwnEvents, TypeOK, Running
  <2>3. clock \in Nat
    BY DEF IInv, TypeOK
  <2>4. \A q \in Requests : request'[q] # Idle => request'[q].event <= clock'
    BY <1>1, <1>3, <1>4, <2>2, <2>3
  <2>5. ASSUME NEW p \in Requests, NEW q \in Requests, request'[p] # Idle, request'[q] # Idle,
               request'[q].event = request'[p].event
        PROVE  q = p
    <3>1. CASE p # r /\ q # r
      BY <1>4, <2>5, <3>1 DEF IInv, OwnEvents
    <3>2. CASE (p = r \/ q = r) /\ p # q
      BY <1>3, <1>4, <2>2, <2>3, <2>5, <3>2
    <3>3. QED
      BY <3>1, <3>2
  <2>6. QED
    BY <2>1, <2>4, <2>5 DEF OwnEvents
<1>8. ASSUME NEW q \in Requests PROVE RequestSound(q)'
  <2>1. CASE q = r
    <3>1. \A n \in sent : n.event \in Nat /\ n.event <= clock
      BY DEF IInv, OwnEvents, TypeOK, Notification
    <3>2. clock \in Nat
      BY DEF IInv, TypeOK
    <3>3. \A n \in sent' : n.event # clock + 1
      BY <1>5, <3>1, <3>2
    <3>4. QED
      BY <1>3, <1>4, <2>1, <3>3 DEF RequestSound, Untold
  <2>2. CASE q # r
    <3>1. RequestSound(q) /\ request'[q] = request[q]
      BY <1>4, <2>2 DEF IInv
    <3>2. QED
      BY <1>5, <3>1 DEF RequestSound, Untold, Telling, uniqueMentionedIds
  <2>3. QED
    BY <2>1, <2>2
<1>9. AssignedAreTold' /\ ToldOnceOfWhatExists'
  BY <1>5 DEF IInv, AssignedAreTold, ToldOnceOfWhatExists
<1>10. QED
  BY <1>6, <1>7, <1>8, <1>9 DEF IInv

\* Whatever request begins, its call is one of the handlers'.
LEMMA StartsInv ==
    ASSUME IInv, NEW r \in Requests, Starts(r)
    PROVE  IInv'
<1>1. ASSUME NEW p \in Admins, NEW list \in Lists, Begin(r, [op |-> "edit", who |-> p, list |-> list])
      PROVE  IInv'
  <2>1. [op |-> "edit", who |-> p, list |-> list] \in Call
    BY DEF Call
  <2>2. QED
    BY <1>1, <2>1, BeginInv
<1>2. ASSUME NEW p \in Admins, NEW kind \in Decisions, NEW note \in BOOLEAN,
             Begin(r, [op |-> kind, who |-> p, note |-> note])
      PROVE  IInv'
  <2>1. [op |-> kind, who |-> p, note |-> note] \in Call
    BY DEF Call
  <2>2. QED
    BY <1>2, <2>1, BeginInv
<1>3. ASSUME NEW p \in People, Begin(r, [op |-> "submit", who |-> p])
      PROVE  IInv'
  <2>1. [op |-> "submit", who |-> p] \in Call
    BY DEF Call
  <2>2. QED
    BY <1>3, <2>1, BeginInv
<1>4. ASSUME NEW p \in People, NEW m \in Mentions, Begin(r, [op |-> "post", who |-> p, mentions |-> m])
      PROVE  IInv'
  <2>1. [op |-> "post", who |-> p, mentions |-> m] \in Call
    BY DEF Call
  <2>2. QED
    BY <1>4, <2>1, BeginInv
<1>5. ASSUME NEW p \in People, NEW m \in Mentions, NEW u \in updates,
             Begin(r, [op |-> "comment", who |-> p, mentions |-> m, on |-> u.event])
      PROVE  IInv'
  <2>1. u.event \in 1..MaxRequests
    BY DEF IInv, TypeOK
  <2>2. [op |-> "comment", who |-> p, mentions |-> m, on |-> u.event] \in Call
    BY <2>1 DEF Call
  <2>3. QED
    BY <1>5, <2>2, BeginInv
<1>6. QED
  BY <1>1, <1>2, <1>3, <1>4, <1>5 DEF Starts

\* A new task tells its participants of an event of its own.
LEMMA CreateInv ==
    ASSUME IInv, NEW list \in Lists, CreateTask(list)
    PROVE  IInv'
<1> DEFINE e == clock + 1
           rows == Welcome(e, list, {})
<1>1. e \in 1..MaxRequests /\ clock' = e /\ clock \in Nat
  BY ThreadsAssumption DEF IInv, TypeOK, CreateTask
<1>2. Sends(rows, e) /\ \A n \in rows : n.as \in ParticipantRole
  BY <1>1, WelcomeRows
<1>3. sent' = sent \cup rows /\ Joins(e, list) /\ participants' = Inserted(list)
      /\ review' = "UNSUBMITTED"
      /\ UNCHANGED <<updates, comments, read, dismissed, cleared, marks, request, lost>>
  BY DEF CreateTask, bell
<1> HIDE DEF e, rows
<1>4. \A n \in sent : n.event \in Nat /\ n.event <= clock
  BY DEF IInv, OwnEvents, TypeOK, Notification
<1>5. Untold(e)
  <2>1. e = clock + 1
    BY DEF e
  <2>2. QED
    BY <1>1, <1>4, <2>1 DEF Untold
<1>6. ToldOnceOfWhatExists'
  BY <1>2, <1>3, <1>5, ToldOfAnother DEF IInv, ParticipantRole
<1>7. AssignedAreTold' /\ since' \in [People -> 0..MaxRequests]
  BY <1>1, <1>3, NewcomersTold DEF IInv, rows
<1>8. TypeOK'
  <2>1. sent' \subseteq Notification
    BY <1>2, <1>3 DEF IInv, TypeOK, Sends
  <2>2. participants' \subseteq People \X ParticipantRole
    BY <1>3, InsertedRows
  <2>3. clock' \in 0..MaxRequests
    BY <1>1, ThreadsAssumption
  <2>4. QED
    BY <1>3, <1>7, <2>1, <2>2, <2>3 DEF IInv, TypeOK
<1>9. OwnEvents' /\ \A q \in Requests : RequestSound(q)'
  <2>1. e = clock + 1
    BY DEF e
  <2>2. \A n \in sent' : n.event <= clock'
    BY <1>1, <1>2, <1>3, <1>4, <2>1 DEF Sends
  <2>3. \A q \in Requests : request[q] # Idle => request[q].event \in Nat /\ request[q].event <= clock
    BY DEF IInv, OwnEvents, TypeOK, Running
  <2>4. OwnEvents'
    <3>1. \A q \in Requests : request[q] # Idle => request[q].event <= clock'
      BY <1>1, <2>1, <2>3
    <3>2. QED
      BY <1>3, <2>2, <3>1 DEF IInv, OwnEvents
  <2>5. \A q \in Requests : request[q] # Idle =>
            \A n \in sent' : n.event = request[q].event => n \in sent
    BY <1>1, <1>2, <1>3, <2>1, <2>3 DEF Sends
  <2>6. QED
    BY <1>3, <2>4, <2>5 DEF IInv, RequestSound, Untold, Telling, uniqueMentionedIds
<1>10. QED
  BY <1>6, <1>7, <1>8, <1>9 DEF IInv

\* A transaction that ends with rows of its event, and no comment, keeps the invariant.
LEMMA TransactionEnds ==
    ASSUME IInv, NEW r \in Requests, request[r].step = "begun", End(r),
           NEW rows, Sends(rows, request[r].event), sent' = sent \cup rows,
           comments' = comments, updates \subseteq updates',
           \A n \in rows : n.as # "AUTHOR" /\
                (n.as = "MENTION" => request[r].event \in {u.event : u \in updates'}),
           review' \in {"none", "UNSUBMITTED", "PENDING", "APPROVED", "REJECTED"},
           participants' \subseteq People \X ParticipantRole,
           updates' \subseteq [event : 1..MaxRequests, author : People],
           since' \in [People -> 0..MaxRequests], AssignedAreTold'
    PROVE  IInv'
<1>1. TypeOK /\ request[r] # Idle
  BY RunningRequest DEF IInv
<1>2. Untold(request[r].event)
  BY <1>1 DEF IInv, RequestSound
<1>3. ToldOnceOfWhatExists'
  BY <1>2, ToldOfAnother DEF IInv
<1>4. OwnEvents' /\ \A q \in Requests : RequestSound(q)'
  BY <1>1, RequestEnds DEF End, Sends
<1>5. TypeOK'
  BY <1>1, TypeKept DEF Sends
<1>6. QED
  BY <1>3, <1>4, <1>5 DEF IInv

\* An edit tells those it brings in.
LEMMA EditInv ==
    ASSUME IInv, NEW r \in Requests, UpdateTaskDetails(r)
    PROVE  IInv'
<1> DEFINE e == request[r].event
           list == request[r].call.list
           rows == Welcome(e, list, OldMap(r))
<1>1. request[r].step = "begun" /\ request[r].call.op = "edit"
  BY DEF UpdateTaskDetails, At
<1>2. e \in 1..MaxRequests /\ list \in Lists
  <2>1. e \in 1..MaxRequests /\ request[r].call \in Call
    BY <1>1, RunningRequest DEF IInv
  <2>2. QED
    BY <1>1, <2>1 DEF Call, Decisions
<1>3. Sends(rows, e) /\ \A n \in rows : n.as \in ParticipantRole
  BY <1>2, WelcomeRows
<1>4. End(r) /\ sent' = sent \cup rows /\ Joins(e, list) /\ participants' = Inserted(list)
      /\ UNCHANGED <<review, updates, comments>>
  BY DEF UpdateTaskDetails
<1>5. AssignedAreTold' /\ since' \in [People -> 0..MaxRequests]
  <2>1. OldMap(r) \subseteq {p[1] : p \in participants}
    BY DEF OldMap
  <2>2. QED
    BY <1>2, <1>4, <2>1, NewcomersTold DEF IInv
<1> HIDE DEF rows, list
<1>6. participants' \subseteq People \X ParticipantRole
  BY <1>2, <1>4, InsertedRows
<1>7. QED
  BY <1>1, <1>3, <1>4, <1>5, <1>6, TransactionEnds DEF IInv, TypeOK, ParticipantRole

\* A request that stops before its commit leaves nothing.
LEMMA RollbackInv ==
    ASSUME IInv, NEW r \in Requests, Rollback(r)
    PROVE  IInv'
<1>1. request[r].step = "begun" /\ End(r)
      /\ UNCHANGED <<review, participants, updates, comments, sent, since>>
  BY DEF Rollback, table
<1>0. PICK rows : rows = {}
  OBVIOUS
<1>2. Sends(rows, request[r].event) /\ sent' = sent \cup rows
  BY <1>0, <1>1 DEF Sends
<1>3. AssignedAreTold'
  BY <1>1, StillTold DEF IInv
<1>4. \A n \in rows : n.as # "AUTHOR" /\ n.as # "MENTION"
  BY <1>0
<1>5. review' \in {"none", "UNSUBMITTED", "PENDING", "APPROVED", "REJECTED"}
      /\ participants' \subseteq People \X ParticipantRole
      /\ updates' \subseteq [event : 1..MaxRequests, author : People]
      /\ since' \in [People -> 0..MaxRequests]
  BY <1>1 DEF IInv, TypeOK
<1>6. comments' = comments /\ updates \subseteq updates'
  BY <1>1
<1>7. QED
  BY <1>1, <1>2, <1>3, <1>4, <1>5, <1>6, TransactionEnds

\* An entry of the timeline is the author's, who is one of the people.
LEMMA NewUpdate ==
    ASSUME TypeOK, NEW e \in 1..MaxRequests, NEW p \in People, AddTaskUpdate(e, p)
    PROVE  /\ updates' \subseteq [event : 1..MaxRequests, author : People]
           /\ updates \subseteq updates' /\ e \in {u.event : u \in updates'}
<1>1. [event |-> e, author |-> p] \in updates' /\ [event |-> e, author |-> p].event = e
  BY DEF AddTaskUpdate
<1>2. [event |-> e, author |-> p] \in [event : 1..MaxRequests, author : People]
  OBVIOUS
<1>3. updates' = updates \cup {[event |-> e, author |-> p]}
  BY DEF AddTaskUpdate
<1>4. updates' \subseteq [event : 1..MaxRequests, author : People]
  BY <1>2, <1>3 DEF TypeOK
<1>5. QED
  BY <1>1, <1>3, <1>4

\* A submission tells the creator.
LEMMA SubmitInv ==
    ASSUME IInv, NEW r \in Requests, SubmitTaskForReview(r)
    PROVE  IInv'
<1> DEFINE e == request[r].event
           item == Notify(e, Id(Creator), "CREATOR", "REVIEW")
           cards == {item}
<1>1. request[r].step = "begun" /\ request[r].call.op = "submit"
  BY DEF SubmitTaskForReview, At
<1>2. e \in 1..MaxRequests /\ request[r].call \in Call
  BY <1>1, RunningRequest DEF IInv
<1>3. request[r].call.who \in People
  BY <1>1, <1>2 DEF Call, Decisions
<1>4. item \in Notification /\ item.event = e /\ item.as = "CREATOR"
  <2>1. Creator \in People /\ "REVIEW" \in CardKinds
    BY ThreadsAssumption DEF CardKinds
  <2>2. QED
    BY <1>2, <2>1, IdEntry, NotifyRow
<1>5. review' = "PENDING" /\ AddTaskUpdate(e, request[r].call.who) /\ sent' = sent \cup {item}
      /\ End(r) /\ UNCHANGED <<participants, comments, since>>
  BY DEF SubmitTaskForReview
<1>6. updates' \subseteq [event : 1..MaxRequests, author : People] /\ updates \subseteq updates'
  BY <1>2, <1>3, <1>5, NewUpdate DEF IInv
<1> HIDE DEF item
<1>7. Sends(cards, e)
  BY <1>4 DEF Sends
<1>8. AssignedAreTold'
  BY <1>5, StillTold DEF IInv
<1>9. \A n \in cards : n.as # "AUTHOR" /\ n.as # "MENTION"
  BY <1>4
<1>10. participants' \subseteq People \X ParticipantRole /\ since' \in [People -> 0..MaxRequests]
  BY <1>5 DEF IInv, TypeOK
<1>11. End(r) /\ sent' = sent \cup cards /\ comments' = comments
       /\ review' \in {"none", "UNSUBMITTED", "PENDING", "APPROVED", "REJECTED"}
  BY <1>5
<1> HIDE DEF cards
<1>12. \A n \in cards : n.as # "AUTHOR" /\
            (n.as = "MENTION" => request[r].event \in {u.event : u \in updates'})
  BY <1>9
<1>13. QED
  BY <1>1, <1>6, <1>7, <1>8, <1>10, <1>11, <1>12, TransactionEnds

\* A decision tells the participants.
LEMMA DecideInv ==
    ASSUME IInv, NEW r \in Requests, NEW kind \in Decisions, Decide(r, kind)
    PROVE  IInv'
<1> DEFINE e == request[r].event
           actor == request[r].call.who
           rows == notifyParticipantsWithCard(e, actor, kind)
<1>1. request[r].step = "begun" /\ request[r].call.op = kind
  BY DEF Decide, At
<1>2. e \in 1..MaxRequests /\ request[r].call \in Call
  BY <1>1, RunningRequest DEF IInv
<1>3. actor \in People
  BY <1>1, <1>2, ThreadsAssumption DEF Call, Decisions
<1>4. Sends(rows, e) /\ \A n \in rows : n.as \in ParticipantRole
  BY <1>2, CardRows DEF IInv, TypeOK
<1>5. review' \in {"UNSUBMITTED", "APPROVED", "REJECTED"} /\ sent' = sent \cup rows
      /\ (AddTaskUpdate(e, actor) \/ updates' = updates)
      /\ End(r) /\ UNCHANGED <<participants, comments, since>>
  BY DEF Decide, Decisions
<1>6. updates' \subseteq [event : 1..MaxRequests, author : People] /\ updates \subseteq updates'
  <2>1. CASE AddTaskUpdate(e, actor)
    BY <1>2, <1>3, <2>1, NewUpdate DEF IInv
  <2>2. CASE updates' = updates
    BY <2>2 DEF IInv, TypeOK
  <2>3. QED
    BY <1>5, <2>1, <2>2
<1> HIDE DEF rows
<1>7. AssignedAreTold'
  BY <1>5, StillTold DEF IInv
<1>8. QED
  BY <1>1, <1>4, <1>5, <1>6, <1>7, TransactionEnds DEF IInv, TypeOK, ParticipantRole

\* An entry tells those it mentions and the others who took part when it was begun.
LEMMA PostInv ==
    ASSUME IInv, NEW r \in Requests, PostTaskUpdate(r)
    PROVE  IInv'
<1> DEFINE e == request[r].event
           mentions == request[r].call.mentions
           rows == {Notify(e, x, "MENTION", "none") : x \in mentions}
                    \cup {Notify(e, Id(p[1]), p[2], "none") : p \in Others(r)}
<1>1. request[r].step = "begun" /\ request[r].call.op = "post"
  BY DEF PostTaskUpdate, At
<1>2. e \in 1..MaxRequests /\ request[r].call \in Call /\ request[r] \in Running
  BY <1>1, RunningRequest DEF IInv
<1>3. request[r].call.who \in People /\ mentions \in Mentions
  BY <1>1, <1>2 DEF Call, Decisions
<1>4. mentions \in SUBSET Entry
  BY <1>3, ThreadsAssumption
<1>5. /\ Others(r) \in SUBSET (People \X ParticipantRole)
      /\ \A p \in Others(r) : \A x \in mentions : x.spelling = "canonical" => x.who # p[1]
  BY <1>2 DEF Others, Running, mentionedMap, Named
<1>6. Sends(rows, e) /\ \A n \in rows : n.as \in ParticipantRole \cup {"MENTION"}
  BY <1>2, <1>4, <1>5, PostRows
<1>7. AddTaskUpdate(e, request[r].call.who) /\ sent' = sent \cup rows
      /\ End(r) /\ UNCHANGED <<review, participants, comments, since>>
  BY DEF PostTaskUpdate
<1> HIDE DEF rows
<1>8. /\ updates' \subseteq [event : 1..MaxRequests, author : People]
      /\ updates \subseteq updates' /\ e \in {u.event : u \in updates'}
  BY <1>2, <1>3, <1>7, NewUpdate DEF IInv
<1>9. AssignedAreTold'
  BY <1>7, StillTold DEF IInv
<1>10. \A n \in rows : n.as # "AUTHOR"
  BY <1>6 DEF ParticipantRole
<1>11. QED
  BY <1>1, <1>6, <1>7, <1>8, <1>9, <1>10, TransactionEnds DEF IInv, TypeOK

\* A comment is committed before anybody is told of it.
LEMMA CommentInv ==
    ASSUME IInv, NEW r \in Requests, PostUpdateComment(r)
    PROVE  IInv'
<1> DEFINE e == request[r].event
           mentions == request[r].call.mentions
           item == [event |-> e, mentions |-> mentions]
           new == [request[r] EXCEPT !.step = "telling"]
<1>1. request[r].step = "begun" /\ request[r].call.op = "comment"
  BY DEF PostUpdateComment, At
<1>2. e \in 1..MaxRequests /\ request[r].call \in Call /\ request[r] \in Running /\ request[r] # Idle
  BY <1>1, RunningRequest DEF IInv
<1>3. mentions \in Mentions
  BY <1>1, <1>2 DEF Call, Decisions
<1>4. mentions \in SUBSET Entry
  BY <1>3, ThreadsAssumption
<1>5. /\ comments' = comments \cup {item} /\ request' = [request EXCEPT ![r] = new]
      /\ UNCHANGED <<review, participants, updates, sent, read, dismissed, cleared, marks, clock, since, lost>>
  BY DEF PostUpdateComment, InsertComment, bell
<1>6. new \in Running /\ new.step = "telling" /\ new.event = e /\ new.call = request[r].call
  BY <1>2 DEF Running
<1>7. new # Idle
  BY <1>6 DEF Idle
<1>8. item.event = e /\ item \in [event : 1..MaxRequests, mentions : SUBSET Entry]
  BY <1>2, <1>4
<1>9. Untold(e)
  BY <1>1, <1>2 DEF IInv, RequestSound
<1> HIDE DEF new, item
<1>10. request'[r] = new /\ \A q \in Requests : q # r => request'[q] = request[q]
  BY <1>5 DEF IInv, TypeOK
<1>11. TypeOK'
  <2>1. request' \in [Requests -> Running \cup {Idle}]
    BY <1>5, <1>6 DEF IInv, TypeOK
  <2>2. {c.event : c \in comments} \subseteq {c.event : c \in comments'}
    BY <1>5
  <2>3. QED
    BY <1>5, <1>8, <2>1, <2>2 DEF IInv, TypeOK
<1>12. OwnEvents'
  BY <1>2, <1>5, <1>6, <1>7, <1>10 DEF IInv, OwnEvents
<1>13. ASSUME NEW q \in Requests PROVE RequestSound(q)'
  <2>1. CASE q = r
    <3>1. e \in {c.event : c \in comments'}
      BY <1>5, <1>8
    <3>2. QED
      BY <1>1, <1>5, <1>6, <1>9, <1>10, <2>1, <3>1 DEF RequestSound, Telling, Untold, uniqueMentionedIds
  <2>2. CASE q # r
    <3>1. RequestSound(q) /\ request'[q] = request[q]
      BY <1>10, <2>2 DEF IInv
    <3>2. QED
      BY <1>5, <3>1 DEF RequestSound, Untold, Telling, uniqueMentionedIds
  <2>3. QED
    BY <2>1, <2>2
<1>14. AssignedAreTold'
  BY <1>5, StillTold DEF IInv
<1>15. ToldOnceOfWhatExists'
  <2>1. {c.event : c \in comments} \subseteq {c.event : c \in comments'}
    BY <1>5
  <2>2. QED
    BY <1>5, <2>1 DEF IInv, ToldOnceOfWhatExists
<1>16. QED
  BY <1>11, <1>12, <1>13, <1>14, <1>15 DEF IInv

\* The goroutine tells those mentioned, each id once.
LEMMA TellMentionedInv ==
    ASSUME IInv, NEW r \in Requests, TellMentioned(r)
    PROVE  IInv'
<1>0. request[r].step = "telling"
  BY DEF TellMentioned
<1> DEFINE e == request[r].event
<1>1. PICK x \in uniqueMentionedIds(r) \ Told(r) :
        sent' = sent \cup {[Notify(e, x, "MENTION", "none") EXCEPT !.stamp = clock]}
  BY DEF TellMentioned
<1> DEFINE item == [Notify(e, x, "MENTION", "none") EXCEPT !.stamp = clock]
<1>2. e \in 1..MaxRequests /\ request[r] # Idle /\ request[r].call \in Call
  BY <1>0, RunningRequest DEF IInv
<1>3. e <= clock /\ clock \in 1..MaxRequests
  <2>1. e <= clock
    BY <1>2 DEF IInv, OwnEvents
  <2>2. QED
    BY <1>2, <2>1 DEF IInv, TypeOK
<1>4. Telling(r)
  BY <1>0, <1>2 DEF IInv, RequestSound
<1>5. uniqueMentionedIds(r) \subseteq Entry /\ \A y \in uniqueMentionedIds(r) : y.nr = 1
  <2>1. request[r].call.mentions \in Mentions
    BY <1>2, <1>4 DEF Telling, Call, Decisions
  <2>2. QED
    BY <2>1, ThreadsAssumption DEF uniqueMentionedIds
<1>6. item \in Notification /\ item.event = e /\ item.to = x /\ item.as = "MENTION"
  BY <1>1, <1>2, <1>3, <1>5 DEF Notify, Notification, CardKinds
<1>7. /\ \A n \in sent : n.event # item.event \/ n.to # x
      /\ sent' = sent \cup {item}
      /\ UNCHANGED <<review, participants, updates, comments, read, dismissed, cleared, marks,
                      request, clock, since, lost>>
  BY <1>1, <1>6 DEF TellMentioned, table, bell, Told
<1> HIDE DEF item
<1>8. TypeOK'
  BY <1>6, <1>7 DEF IInv, TypeOK
<1>9. OwnEvents'
  BY <1>3, <1>6, <1>7 DEF IInv, OwnEvents
<1>10. ASSUME NEW q \in Requests PROVE RequestSound(q)'
  <2>1. RequestSound(q)
    BY DEF IInv
  <2>2. CASE q = r
    <3>1. Telling(r)'
      BY <1>0, <1>1, <1>6, <1>7, <1>4 DEF Telling, uniqueMentionedIds
    <3>2. QED
      BY <1>0, <1>7, <2>2, <3>1 DEF RequestSound
  <2>3. CASE q # r /\ request[q] # Idle
    <3>1. request[q].event # e
      BY <1>2, <2>3 DEF IInv, OwnEvents
    <3>2. QED
      BY <1>6, <1>7, <2>1, <3>1 DEF RequestSound, Telling, Untold, uniqueMentionedIds
  <2>4. CASE request[q] = Idle
    BY <1>7, <2>4 DEF RequestSound
  <2>5. QED
    BY <2>2, <2>3, <2>4
<1>11. AssignedAreTold'
  BY <1>7, StillTold DEF IInv
<1>12. ToldOnceOfWhatExists'
  <2>1. ASSUME NEW n \in sent', NEW m \in sent', n # m, n.event = m.event, SameId(n, m)
        PROVE  n \in sent /\ m \in sent
    <3>1. \A y \in uniqueMentionedIds(r) : y # x => y.who # x.who \/ y.spelling # x.spelling
      BY <1>1, <1>5, EqualEntries
    <3>2. \A y \in sent : y.event = e => y.to \in uniqueMentionedIds(r) /\ y.to # x
      BY <1>4, <1>6, <1>7 DEF Telling
    <3>3. QED
      BY <1>6, <1>7, <2>1, <3>1, <3>2 DEF SameId
  <2>2. \A n \in sent' : n.as = "AUTHOR" => n.event \in {c.event : c \in comments'}
    BY <1>6, <1>7 DEF IInv, ToldOnceOfWhatExists
  <2>3. e \in {c.event : c \in comments'}
    BY <1>7, <1>4 DEF Telling
  <2>4. \A n \in sent' : n.as = "MENTION" =>
            n.event \in {c.event : c \in comments'} \cup {u.event : u \in updates'}
    BY <1>6, <1>7, <2>3 DEF IInv, ToldOnceOfWhatExists
  <2>5. QED
    BY <1>7, <2>1, <2>2, <2>4 DEF IInv, ToldOnceOfWhatExists
<1>13. QED
  BY <1>8, <1>9, <1>10, <1>11, <1>12 DEF IInv

\* The author of an entry is told last, and only if the comment did not mention them.
LEMMA TellAuthorInv ==
    ASSUME IInv, NEW r \in Requests, TellAuthor(r)
    PROVE  IInv'
<1> DEFINE e == request[r].event
           told(p) == [Notify(e, Id(p), "AUTHOR", "none") EXCEPT !.stamp = clock]
           rows == {told(p) : p \in Author(r)}
<1>1. request[r].step = "telling" /\ End(r) /\ sent' = sent \cup rows
      /\ UNCHANGED <<review, participants, updates, comments, since>>
  BY DEF TellAuthor, table
<1>2. e \in 1..MaxRequests /\ request[r] # Idle
  BY <1>1, RunningRequest DEF IInv
<1>3. e <= clock /\ clock \in 1..MaxRequests
  <2>1. e <= clock
    BY <1>2 DEF IInv, OwnEvents
  <2>2. QED
    BY <1>2, <2>1 DEF IInv, TypeOK
<1>4. /\ Author(r) \subseteq People
      /\ \A p \in Author(r) : \A x \in uniqueMentionedIds(r) :
            x.spelling = "canonical" => x.who # p
  BY DEF IInv, TypeOK, Author, mentionedMap, uniqueMentionedIds, Named
<1>5. \A p \in Author(r) :
        /\ told(p) \in Notification /\ told(p).event = e /\ told(p).as = "AUTHOR"
        /\ told(p).to = Id(p) /\ Id(p).who = p /\ Id(p).spelling = "canonical"
  BY <1>2, <1>3, <1>4, IdEntry DEF Notify, Notification, CardKinds
<1> HIDE DEF told
<1>6. \A n \in rows :
        /\ n \in Notification /\ n.event = e /\ n.as = "AUTHOR"
        /\ n.to.who \in Author(r) /\ n.to.spelling = "canonical" /\ n = told(n.to.who)
  BY <1>5
<1> HIDE DEF rows
<1>7. Telling(r)
  BY <1>1, <1>2 DEF IInv, RequestSound
<1>8. TypeOK'
  <2>1. rows \subseteq Notification
    BY <1>6
  <2>2. QED
    BY <1>1, <2>1, TypeKept DEF IInv, TypeOK
<1>9. OwnEvents' /\ \A q \in Requests : RequestSound(q)'
  BY <1>1, <1>2, <1>6, RequestEnds DEF End
<1>10. AssignedAreTold'
  BY <1>1, StillTold DEF IInv
<1>11. ToldOnceOfWhatExists'
  <2>1. ASSUME NEW n \in sent', NEW m \in sent', n # m, n.event = m.event, SameId(n, m)
        PROVE  n \in sent /\ m \in sent
    <3>1. CASE n \in sent /\ m \in sent
      BY <3>1
    <3>2. CASE n \in rows /\ m \in rows
      BY <1>6, <2>1, <3>2 DEF SameId
    <3>3. CASE n \in rows /\ m \in sent
      BY <1>4, <1>6, <1>7, <2>1, <3>3 DEF Telling, SameId
    <3>4. CASE n \in sent /\ m \in rows
      BY <1>4, <1>6, <1>7, <2>1, <3>4 DEF Telling, SameId
    <3>5. QED
      BY <1>1, <3>1, <3>2, <3>3, <3>4
  <2>2. e \in {c.event : c \in comments'}
    BY <1>1, <1>7 DEF Telling
  <2>3. \A n \in sent' : n.as = "AUTHOR" => n.event \in {c.event : c \in comments'}
    BY <1>1, <1>6, <2>2 DEF IInv, ToldOnceOfWhatExists
  <2>4. \A n \in sent' : n.as = "MENTION" =>
            n.event \in {c.event : c \in comments'} \cup {u.event : u \in updates'}
    BY <1>1, <1>6 DEF IInv, ToldOnceOfWhatExists
  <2>5. QED
    BY <1>1, <2>1, <2>3, <2>4 DEF IInv, ToldOnceOfWhatExists
<1>12. QED
  BY <1>8, <1>9, <1>10, <1>11 DEF IInv

\* A goroutine that dies leaves what it has sent.
LEMMA CutShortInv ==
    ASSUME IInv, NEW r \in Requests, CutShort(r)
    PROVE  IInv'
<1>1. request[r].step = "telling" /\ request' = [request EXCEPT ![r] = Idle]
      /\ lost' = lost \cup {request[r].event}
      /\ UNCHANGED <<review, participants, updates, comments, sent, read, dismissed, cleared, marks, clock, since>>
  BY DEF CutShort, table, bell
<1>2. request[r] # Idle
  BY <1>1, RunningRequest DEF IInv
<1>3. request[r].event \in {c.event : c \in comments}
  BY <1>1, <1>2 DEF IInv, RequestSound, Telling
<1>4. TypeOK'
  <2>1. request' \in [Requests -> Running \cup {Idle}]
    BY <1>1 DEF IInv, TypeOK
  <2>2. lost' \subseteq {c.event : c \in comments'}
    BY <1>1, <1>3 DEF IInv, TypeOK
  <2>3. QED
    BY <1>1, <2>1, <2>2 DEF IInv, TypeOK
<1>5. PICK rows : rows = {}
  OBVIOUS
<1>6. OwnEvents' /\ \A q \in Requests : RequestSound(q)'
  <2>1. clock' = clock /\ comments' = comments
    BY <1>1
  <2>2. request' = [request EXCEPT ![r] = Idle]
    BY <1>1
  <2>3. sent' = sent \cup rows /\ \A n \in rows : n.event = request[r].event
    BY <1>1, <1>5
  <2>4. QED
    BY <1>2, <2>1, <2>2, <2>3, RequestEnds
<1>7. AssignedAreTold' /\ ToldOnceOfWhatExists'
  BY <1>1 DEF IInv, AssignedAreTold, ToldOnceOfWhatExists
<1>8. QED
  BY <1>4, <1>6, <1>7 DEF IInv

\* Nothing of the invariant but the types speaks of what people do with the bell.
LEMMA BellInv ==
    ASSUME IInv, UNCHANGED <<review, participants, updates, comments, sent, request, clock, since, lost>>,
           read' \subseteq sent, dismissed' \subseteq sent, cleared' \subseteq sent,
           marks' \in 0..MaxMarks
    PROVE  IInv'
<1>1. TypeOK'
  BY DEF IInv, TypeOK
<1>2. OwnEvents' /\ \A r \in Requests : RequestSound(r)'
  BY DEF IInv, OwnEvents, RequestSound, Untold, Telling, uniqueMentionedIds
<1>3. AssignedAreTold' /\ ToldOnceOfWhatExists'
  BY DEF IInv, AssignedAreTold, ToldOnceOfWhatExists
<1>4. QED
  BY <1>1, <1>2, <1>3 DEF IInv

\* People read, dismiss and clear what was sent to them.
LEMMA MarksInv ==
    ASSUME IInv, NEW p \in People,
           \/ MarkNotificationsRead(p) \/ MarkOneNotificationRead(p)
           \/ DismissTaskCard(p) \/ ClearNotifications(p)
    PROVE  IInv'
<1>1. UNCHANGED <<review, participants, updates, comments, sent, request, clock, since, lost>>
      /\ marks' \in 0..MaxMarks
  BY ThreadsAssumption
  DEF IInv, TypeOK, MarkNotificationsRead, MarkOneNotificationRead, DismissTaskCard,
      ClearNotifications, Mark, table
<1>2. read \subseteq sent /\ dismissed \subseteq sent /\ cleared \subseteq sent
  BY DEF IInv, TypeOK
<1>3. Mine(p) \subseteq sent /\ GetUserNotifications(p) \subseteq sent /\ GetUserTaskCards(p) \subseteq sent
  BY DEF Mine, GetUserNotifications, GetUserTaskCards
<1>4. read' \subseteq sent /\ dismissed' \subseteq sent /\ cleared' \subseteq sent
  BY <1>2, <1>3
  DEF MarkNotificationsRead, MarkOneNotificationRead, DismissTaskCard, ClearNotifications
<1>5. QED
  BY <1>1, <1>4, BellInv

\* Every step keeps the invariant.
LEMMA Inductive == IInv /\ [Next]_vars => IInv'
<1> SUFFICES ASSUME IInv, [Next]_vars PROVE IInv'
  OBVIOUS
<1>1. CASE UNCHANGED vars
  <2>1. UNCHANGED <<review, participants, updates, comments, sent, request, clock, since, lost>>
        /\ UNCHANGED <<read, dismissed, cleared, marks>>
    BY <1>1 DEF vars, table, bell
  <2>2. QED
    BY <2>1, BellInv DEF IInv, TypeOK
<1>2. CASE \E list \in Lists : CreateTask(list)
  BY <1>2, CreateInv
<1>3. ASSUME NEW r \in Requests,
             \/ Starts(r) \/ UpdateTaskDetails(r) \/ SubmitTaskForReview(r) \/ PostTaskUpdate(r)
             \/ PostUpdateComment(r) \/ Tell(r) \/ CutShort(r) \/ Rollback(r)
             \/ \E kind \in Decisions : Decide(r, kind)
      PROVE  IInv'
  BY <1>3, StartsInv, EditInv, SubmitInv, PostInv, CommentInv, TellMentionedInv, TellAuthorInv,
     CutShortInv, RollbackInv, DecideInv DEF Tell
<1>4. ASSUME NEW p \in People,
             \/ MarkNotificationsRead(p) \/ MarkOneNotificationRead(p)
             \/ DismissTaskCard(p) \/ ClearNotifications(p)
      PROVE  IInv'
  BY <1>4, MarksInv
<1>5. QED
  BY <1>1, <1>2, <1>3, <1>4 DEF Next

\* The invariant holds in every state of every behaviour.
THEOREM Invariance == Spec => []IInv
BY InitInv, Inductive, PTL DEF Spec

\* Every reachable state is well typed: what a request is in the middle of, and what has
\* become of a notification, are of things that were sent.
THEOREM TypeCorrect == Spec => []TypeOK
<1>1. IInv => TypeOK
  BY DEF IInv
<1>2. QED
  BY <1>1, Invariance, PTL

\* However many edits of one task overlap, whoever they make an assignee has the card
\* that says so.
THEOREM NewcomersHaveTheirCard == Spec => []AssignedAreTold
<1>1. IInv => AssignedAreTold
  BY DEF IInv
<1>2. QED
  BY <1>1, Invariance, PTL

\* However many requests and goroutines interleave, one event tells no id twice but in two
\* roles or where a form or an update repeats it, and of nothing that was rolled back.
THEOREM NobodyToldTwice == Spec => []ToldOnceOfWhatExists
<1>1. IInv => ToldOnceOfWhatExists
  BY DEF IInv
<1>2. QED
  BY <1>1, Invariance, PTL

--------------------------------------------------------------------------------
(* Voice notes *)

(***************************************************************************)
(* The inductive invariant: the file a row points to, or is about to point *)
(* to, has been uploaded, and none is ever taken away; a row that has its  *)
(* result keeps it, and an attachment is posted once.                      *)
(***************************************************************************)
FilesKept == \A j \in Jobs : row[j].output = "file" => j.att \in file

ResultsKept ==
    \A j \in saved :
        /\ att[j.att] # "unborn"
        /\ row[j] # NoRow => row[j].output = Output(j)

UploadedBeforeSave ==
    \A w \in Workers :
        work[w] # NoWork /\ work[w].step = "save" /\ Output(work[w].job) = "file" =>
            work[w].job.att \in file

MediaInv ==
    MediaTypeOK /\ FilesKept /\ ResultsKept /\ UploadedBeforeSave /\ NothingStranded

(***************************************************************************)
(* Jobs and rows.                                                          *)
(***************************************************************************)

\* No job is the mark for none, and each is of an attachment.
LEMMA JobFacts ==
    /\ NoJob \notin Jobs
    /\ \A j \in Jobs : j.att \in Attachments /\ j.kind \in {"transcription", "transcode"}
BY MediaAssumption DEF Jobs, NoJob

\* What has been saved is of jobs.
LEMMA SavedAreJobs ==
    ASSUME MediaInv
    PROVE  saved \subseteq Jobs
BY DEF MediaInv, MediaTypeOK

\* A worker that is not idle has a step and a job.
LEMMA WorkFacts ==
    ASSUME MediaTypeOK, NEW w \in Workers, work[w].step # "idle"
    PROVE  work[w] # NoWork /\ work[w].job \in Jobs /\ work[w].step \in {"download", "convert", "save"}
           /\ work[w] = [step |-> work[w].step, job |-> work[w].job]
BY DEF MediaTypeOK, NoWork

\* What an UPDATE of a row's status leaves.
LEMMA SetFacts ==
    ASSUME MediaTypeOK, NEW j \in Jobs, NEW status \in {"PROCESSING", "FAILED"}
    PROVE  /\ Set(j, status) \in [Jobs -> Row \cup {NoRow}]
           /\ \A i \in Jobs : Set(j, status)[i] = NoRow <=> row[i] = NoRow
           /\ \A i \in Jobs \ {j} : Set(j, status)[i] = row[i]
           /\ Set(j, status)[j].status \in {"none", status}
           /\ \A i \in Jobs : Set(j, status)[i].output = row[i].output
BY DEF MediaTypeOK, Set, Row, NoRow

\* What a completion leaves.
LEMMA CompleteFacts ==
    ASSUME MediaTypeOK, NEW j \in Jobs
    PROVE  /\ Complete(j, Output(j)) \in [Jobs -> Row \cup {NoRow}]
           /\ \A i \in Jobs : Complete(j, Output(j))[i] = NoRow <=> row[i] = NoRow
           /\ \A i \in Jobs \ {j} : Complete(j, Output(j))[i] = row[i]
           /\ Complete(j, Output(j))[j] \in {NoRow, [status |-> "COMPLETED", output |-> Output(j)]}
BY DEF MediaTypeOK, Complete, Output, Row, NoRow

(***************************************************************************)
(* The steps.                                                              *)
(***************************************************************************)

\* The handlers.
LEMMA HandlerStep ==
    ASSUME MediaInv, NEW a \in Attachments,
           Upload(a) \/ PostAttachment(a) \/ DeleteAttachment(a) \/ RemoveObject(a)
    PROVE  MediaInv'
<1>1. UNCHANGED <<file, poll, queue, work, dropped, saved, faults, stops>>
  BY DEF Upload, PostAttachment, DeleteAttachment, RemoveObject
<1>2. source' \subseteq Attachments
  BY DEF MediaInv, MediaTypeOK, Upload, PostAttachment, DeleteAttachment, RemoveObject
<1>3. /\ att' \in [Attachments -> {"unborn", "live", "deleted"}]
      /\ row' \in [Jobs -> Row \cup {NoRow}]
      /\ \A j \in Jobs : row'[j] = NoRow <=> att'[j.att] # "live"
  <2>1. CASE PostAttachment(a)
    BY <2>1, JobFacts DEF MediaInv, MediaTypeOK, PostAttachment, Row, NoRow
  <2>2. CASE DeleteAttachment(a)
    BY <2>2, JobFacts DEF MediaInv, MediaTypeOK, DeleteAttachment, Row, NoRow
  <2>3. CASE UNCHANGED <<att, row>>
    BY <2>3 DEF MediaInv, MediaTypeOK
  <2>4. QED
    BY <2>1, <2>2, <2>3 DEF Upload, RemoveObject
<1>4. MediaTypeOK'
  BY <1>1, <1>2, <1>3 DEF MediaInv, MediaTypeOK
<1>5. \A j \in Jobs :
        \/ row'[j] = row[j]
        \/ row'[j] = NoRow
        \/ att[j.att] = "unborn" /\ row'[j] = [status |-> "PENDING", output |-> "none"]
  BY JobFacts DEF MediaInv, MediaTypeOK, Upload, PostAttachment, DeleteAttachment, RemoveObject
<1>6. FilesKept' /\ NothingStranded'
  BY <1>1, <1>5 DEF MediaInv, FilesKept, NothingStranded, InCharge, NoRow
<1>7. ResultsKept'
  <2>1. \A x \in Attachments : att[x] # "unborn" => att'[x] # "unborn"
    BY DEF MediaInv, MediaTypeOK, Upload, PostAttachment, DeleteAttachment, RemoveObject
  <2>2. saved \subseteq Jobs
    BY DEF MediaInv, MediaTypeOK
  <2>3. QED
    BY <1>1, <1>5, <2>1, <2>2, JobFacts DEF MediaInv, ResultsKept, Output, Skips
<1>8. UploadedBeforeSave'
  BY <1>1 DEF MediaInv, UploadedBeforeSave, Output, Skips
<1>9. QED
  BY <1>4, <1>6, <1>7, <1>8 DEF MediaInv

\* The pollers.
LEMMA PollerStep ==
    ASSUME MediaInv, NEW p \in Pollers,
           \/ \E k \in Kinds : Poll(p, k)
           \/ \E j \in Jobs : Claim(p, j)
           \/ Enqueue(p) \/ FailEnqueue(p)
    PROVE  MediaInv'
<1>1. UNCHANGED <<att, source, file, work, saved, stops>>
  BY DEF Poll, Claim, Enqueue, FailEnqueue
<1>2. UploadedBeforeSave'
  BY <1>1 DEF MediaInv, UploadedBeforeSave, Output, Skips
<1>3. ASSUME NEW k \in Kinds, Poll(p, k) PROVE MediaInv'
  <2>1. PICK todo \in SUBSET Pending(k) : poll' = [poll EXCEPT ![p] = [poll[p] EXCEPT !.todo = todo]]
    BY <1>3 DEF Poll
  <2>2. poll' \in [Pollers -> [todo : SUBSET Jobs, job : Jobs \cup {NoJob}]]
        /\ \A q \in Pollers : poll'[q].job = poll[q].job
    BY <2>1 DEF MediaInv, MediaTypeOK, Pending
  <2>3. UNCHANGED <<row, queue, dropped, faults>>
    BY <1>3 DEF Poll
  <2>4. MediaTypeOK' /\ FilesKept' /\ ResultsKept' /\ NothingStranded'
    BY <1>1, <2>2, <2>3 DEF MediaInv, MediaTypeOK, FilesKept, ResultsKept, Output, Skips,
       NothingStranded, InCharge
  <2>5. QED
    BY <1>2, <2>4 DEF MediaInv
<1>4. ASSUME NEW j \in Jobs, Claim(p, j) PROVE MediaInv'
  <2>1. poll' = [poll EXCEPT ![p] = [todo |-> poll[p].todo \ {j}, job |-> j]]
        /\ poll[p].job = NoJob /\ UNCHANGED <<queue, dropped>>
    BY <1>4 DEF Claim
  <2>2. poll' \in [Pollers -> [todo : SUBSET Jobs, job : Jobs \cup {NoJob}]]
        /\ poll'[p].job = j /\ \A q \in Pollers \ {p} : poll'[q].job = poll[q].job
    BY <2>1 DEF MediaInv, MediaTypeOK
  <2>3. faults' \in Nat /\ (row' = Set(j, "PROCESSING") \/ row' = row)
    BY <1>4 DEF MediaInv, MediaTypeOK, Claim, Fault
  <2>4. /\ row' \in [Jobs -> Row \cup {NoRow}]
        /\ \A i \in Jobs : row'[i] = NoRow <=> row[i] = NoRow
        /\ \A i \in Jobs \ {j} : row'[i] = row[i]
        /\ row'[j] = row[j] \/ row'[j].status \in {"none", "PROCESSING"}
        /\ \A i \in Jobs : row'[i].output = row[i].output
    BY <2>3, SetFacts DEF MediaInv, MediaTypeOK
  <2>5. MediaTypeOK'
    BY <1>1, <2>1, <2>2, <2>3, <2>4 DEF MediaInv, MediaTypeOK
  <2>6. FilesKept' /\ ResultsKept'
    BY <1>1, <2>4, SavedAreJobs DEF MediaInv, FilesKept, ResultsKept, Output, Skips
  <2>7. NothingStranded'
    BY <1>1, <2>1, <2>2, <2>4, JobFacts DEF MediaInv, NothingStranded, InCharge
  <2>8. QED
    BY <1>2, <2>5, <2>6, <2>7 DEF MediaInv
<1>5. CASE Enqueue(p)
  <2>1. poll[p].job \in Jobs /\ UNCHANGED <<row, dropped, faults>>
        /\ queue' = [queue EXCEPT ![poll[p].job] = queue[poll[p].job] + 1]
        /\ poll' = [poll EXCEPT ![p] = [poll[p] EXCEPT !.job = NoJob]]
    BY <1>5 DEF Enqueue, MediaInv, MediaTypeOK
  <2>2. /\ poll' \in [Pollers -> [todo : SUBSET Jobs, job : Jobs \cup {NoJob}]]
        /\ \A q \in Pollers \ {p} : poll'[q].job = poll[q].job
    BY <2>1 DEF MediaInv, MediaTypeOK
  <2>3. /\ queue' \in [Jobs -> Nat] /\ queue'[poll[p].job] > 0
        /\ \A i \in Jobs \ {poll[p].job} : queue'[i] = queue[i]
    BY <2>1 DEF MediaInv, MediaTypeOK
  <2>4. MediaTypeOK' /\ FilesKept' /\ ResultsKept'
    BY <1>1, <2>1, <2>2, <2>3
       DEF MediaInv, MediaTypeOK, FilesKept, ResultsKept, Output, Skips
  <2>5. NothingStranded'
    BY <1>1, <2>1, <2>2, <2>3 DEF MediaInv, NothingStranded, InCharge
  <2>6. QED
    BY <1>2, <2>4, <2>5 DEF MediaInv
<1>6. CASE FailEnqueue(p)
  <2> DEFINE j == poll[p].job
  <2>1. j \in Jobs /\ UNCHANGED queue /\ faults' \in Nat
        /\ poll' = [poll EXCEPT ![p] = [poll[p] EXCEPT !.job = NoJob]]
    BY <1>6 DEF FailEnqueue, Fault, MediaInv, MediaTypeOK
  <2>2. /\ poll' \in [Pollers -> [todo : SUBSET Jobs, job : Jobs \cup {NoJob}]]
        /\ \A q \in Pollers \ {p} : poll'[q].job = poll[q].job
    BY <2>1 DEF MediaInv, MediaTypeOK
  <2>3. \/ row' = Set(j, "FAILED") /\ dropped' = dropped
        \/ row' = row /\ dropped' = dropped \cup {j}
    BY <1>6 DEF FailEnqueue
  <2>4. /\ row' \in [Jobs -> Row \cup {NoRow}]
        /\ \A i \in Jobs : row'[i] = NoRow <=> row[i] = NoRow
        /\ \A i \in Jobs \ {j} : row'[i] = row[i]
        /\ \/ row'[j] = row[j] /\ j \in dropped'
           \/ row'[j].status \in {"none", "FAILED"}
        /\ \A i \in Jobs : row'[i].output = row[i].output
    BY <2>1, <2>3, SetFacts DEF MediaInv, MediaTypeOK
  <2>5. dropped \subseteq dropped' /\ dropped' \subseteq Jobs
    BY <2>1, <2>3 DEF MediaInv, MediaTypeOK
  <2>6. MediaTypeOK'
    BY <1>1, <2>1, <2>2, <2>4, <2>5 DEF MediaInv, MediaTypeOK
  <2>7. FilesKept' /\ ResultsKept'
    BY <1>1, <2>4, SavedAreJobs DEF MediaInv, FilesKept, ResultsKept, Output, Skips
  <2>8. NothingStranded'
    BY <1>1, <2>1, <2>2, <2>4, <2>5 DEF MediaInv, NothingStranded, InCharge
  <2>9. QED
    BY <1>2, <2>6, <2>7, <2>8 DEF MediaInv
<1>7. QED
  BY <1>3, <1>4, <1>5, <1>6

\* A worker takes a message, or has downloaded or converted.
LEMMA WorkerGoesOn ==
    ASSUME MediaInv, NEW w \in Workers,
           (\E j \in Jobs : Start(w, j)) \/ Download(w) \/ Convert(w)
    PROVE  MediaInv'
<1>1. UNCHANGED <<att, row, source, poll, dropped, saved, faults, stops>>
  BY DEF Start, Download, Convert
<1>2. ResultsKept'
  BY <1>1 DEF MediaInv, ResultsKept, Output, Skips
<1>3. ASSUME NEW j \in Jobs, Start(w, j) PROVE MediaInv'
  <2>1. /\ queue[j] > 0 /\ queue' = [queue EXCEPT ![j] = queue[j] - 1]
        /\ work' = [work EXCEPT ![w] = [step |-> "download", job |-> j]]
        /\ work[w] = NoWork /\ UNCHANGED file
    BY <1>3 DEF Start
  <2>2. /\ queue' \in [Jobs -> Nat] /\ \A i \in Jobs \ {j} : queue'[i] = queue[i]
        /\ work'[w] = [step |-> "download", job |-> j] /\ work'[w] # NoWork
        /\ \A v \in Workers \ {w} : work'[v] = work[v]
    BY <2>1 DEF MediaInv, MediaTypeOK, NoWork
  <2>3. MediaTypeOK'
    BY <1>1, <2>1, <2>2 DEF MediaInv, MediaTypeOK
  <2>4. FilesKept' /\ UploadedBeforeSave'
    BY <1>1, <2>1, <2>2 DEF MediaInv, FilesKept, UploadedBeforeSave, Output, Skips
  <2>5. NothingStranded'
    BY <1>1, <2>1, <2>2 DEF MediaInv, NothingStranded, InCharge
  <2>6. QED
    BY <1>2, <2>3, <2>4, <2>5 DEF MediaInv
<1>4. ASSUME Download(w) \/ Convert(w) PROVE MediaInv'
  <2>1. work[w].step \in {"download", "convert"} /\ UNCHANGED queue
    BY <1>4 DEF Download, Convert
  <2>2. work[w] # NoWork /\ work[w].job \in Jobs /\ work[w] = [step |-> work[w].step, job |-> work[w].job]
    BY <2>1, WorkFacts DEF MediaInv
  <2>3. PICK step \in {"convert", "save"} :
            work' = [work EXCEPT ![w] = [work[w] EXCEPT !.step = step]]
    BY <1>4 DEF Download, Convert
  <2>4. /\ work'[w] = [step |-> step, job |-> work[w].job] /\ work'[w] # NoWork
        /\ \A v \in Workers \ {w} : work'[v] = work[v]
    BY <2>2, <2>3 DEF MediaInv, MediaTypeOK, NoWork
  <2>5. file \subseteq file' /\ file' \subseteq Attachments
    BY <1>4, <2>2, JobFacts DEF MediaInv, MediaTypeOK, Download, Convert
  <2>6. step = "save" /\ Output(work[w].job) = "file" => work[w].job.att \in file'
    <3>1. CASE Download(w)
      <4>1. ~Skips(work[w].job) => step = "convert"
        BY <2>2, <2>4, <3>1 DEF Download, MediaInv, MediaTypeOK
      <4>2. QED
        BY <4>1 DEF Output
    <3>2. CASE Convert(w)
      BY <3>2, <2>2, JobFacts DEF Convert, Output
    <3>3. QED
      BY <1>4, <3>1, <3>2
  <2>7. MediaTypeOK'
    BY <1>1, <2>1, <2>2, <2>4, <2>5, <2>3 DEF MediaInv, MediaTypeOK
  <2>8. FilesKept'
    BY <1>1, <2>5 DEF MediaInv, FilesKept
  <2>9. UploadedBeforeSave'
    BY <2>4, <2>5, <2>6 DEF MediaInv, UploadedBeforeSave, Output, Skips
  <2>10. NothingStranded'
    BY <1>1, <2>1, <2>2, <2>4 DEF MediaInv, NothingStranded, InCharge
  <2>11. QED
    BY <1>2, <2>7, <2>8, <2>9, <2>10 DEF MediaInv
<1>5. QED
  BY <1>3, <1>4

\* A worker that lays down a job has written its row, or the job is queued or dropped.
LEMMA LaidDown ==
    ASSUME MediaInv, NEW w \in Workers, work[w].step # "idle",
           UNCHANGED <<att, source, file, poll, stops>>,
           work' = [work EXCEPT ![w] = NoWork],
           row' \in [Jobs -> Row \cup {NoRow}],
           \A i \in Jobs : row'[i] = NoRow <=> row[i] = NoRow,
           \A i \in Jobs \ {work[w].job} : row'[i] = row[i],
           queue' \in [Jobs -> Nat], \A i \in Jobs : queue'[i] >= queue[i],
           dropped \subseteq dropped', dropped' \subseteq Jobs, faults' \in Nat,
           row'[work[w].job].status = "PROCESSING" =>
               queue'[work[w].job] > 0 \/ work[w].job \in dropped',
           saved \subseteq saved', saved' \subseteq saved \cup {work[w].job},
           row'[work[w].job].output = "file" => work[w].job.att \in file,
           work[w].job \in saved' =>
               /\ att[work[w].job.att] # "unborn"
               /\ row'[work[w].job] # NoRow => row'[work[w].job].output = Output(work[w].job)
    PROVE  MediaInv'
<1>1. work[w] # NoWork /\ work[w].job \in Jobs
  BY WorkFacts DEF MediaInv
<1>2. work'[w] = NoWork /\ \A v \in Workers \ {w} : work'[v] = work[v]
  BY DEF MediaInv, MediaTypeOK
<1>3. MediaTypeOK'
  BY <1>1, <1>2 DEF MediaInv, MediaTypeOK
<1>4. FilesKept' /\ ResultsKept'
  <2>1. FilesKept'
    BY <1>1 DEF MediaInv, FilesKept
  <2>2. ASSUME NEW j \in saved'
        PROVE  /\ att[j.att] # "unborn"
               /\ row'[j] # NoRow => row'[j].output = Output(j)
    <3>1. CASE j = work[w].job
      BY <3>1
    <3>2. CASE j # work[w].job
      BY <3>2, SavedAreJobs DEF MediaInv, ResultsKept
    <3>3. QED
      BY <3>1, <3>2
  <2>3. QED
    BY <2>1, <2>2 DEF ResultsKept, Output, Skips
<1>5. UploadedBeforeSave'
  BY <1>2 DEF MediaInv, UploadedBeforeSave, Output, Skips
<1>6. NothingStranded'
  <2>1. ASSUME NEW j \in Jobs, row'[j].status = "PROCESSING", j # work[w].job
        PROVE  InCharge(j)' \/ j \in dropped'
    <3>1. InCharge(j) \/ j \in dropped
      BY <2>1 DEF MediaInv, NothingStranded
    <3>2. queue[j] \in Nat /\ queue'[j] \in Nat
      BY DEF MediaInv, MediaTypeOK
    <3>3. QED
      BY <1>2, <2>1, <3>1, <3>2 DEF InCharge
  <2>2. QED
    BY <1>1, <2>1 DEF NothingStranded, InCharge
<1>7. QED
  BY <1>3, <1>4, <1>5, <1>6 DEF MediaInv

\* The ways a worker ends a job.
LEMMA WorkerEnds ==
    ASSUME MediaInv, NEW w \in Workers, FailDownload(w) \/ Save(w) \/ FailWork(w) \/ FailSave(w)
    PROVE  MediaInv'
<1> DEFINE j == work[w].job
<1>1. work[w].step # "idle" /\ j \in Jobs
  BY WorkFacts DEF MediaInv, FailDownload, Save, FailWork, FailSave
<1>2. UNCHANGED <<att, source, file, poll, stops>> /\ work' = [work EXCEPT ![w] = NoWork]
  BY DEF FailDownload, Save, FailWork, FailSave, GivesUp
<1>3. faults' \in Nat
  <2>1. faults' = faults \/ faults' = faults + 1
    BY DEF FailDownload, Save, FailWork, FailSave, Fault
  <2>2. QED
    BY <2>1 DEF MediaInv, MediaTypeOK
<1>4. queue' = queue \/ queue' = [queue EXCEPT ![j] = queue[j] + 1]
  BY DEF FailDownload, Save, FailWork, FailSave, GivesUp
<1>5. queue' \in [Jobs -> Nat] /\ \A i \in Jobs : queue'[i] >= queue[i]
  BY <1>1, <1>4 DEF MediaInv, MediaTypeOK
<1>6. dropped' = dropped \/ dropped' = dropped \cup {j}
  BY DEF FailDownload, Save, FailWork, FailSave, GivesUp
<1>7. dropped \subseteq dropped' /\ dropped' \subseteq Jobs
  BY <1>1, <1>6 DEF MediaInv, MediaTypeOK
<1>8. \/ row' = Set(j, "FAILED") /\ saved' = saved
      \/ /\ row' = Complete(j, Output(j)) /\ work[w].step = "save"
         /\ saved' = IF row[j] = NoRow THEN saved ELSE saved \cup {j}
      \/ /\ row' = row /\ saved' = saved
         /\ queue' = [queue EXCEPT ![j] = queue[j] + 1] \/ j \in dropped'
  BY DEF FailDownload, Save, FailWork, FailSave, GivesUp
<1>9. CASE row' = Set(j, "FAILED") /\ saved' = saved
  <2>1. /\ row' \in [Jobs -> Row \cup {NoRow}]
        /\ \A i \in Jobs : row'[i] = NoRow <=> row[i] = NoRow
        /\ \A i \in Jobs \ {j} : row'[i] = row[i]
    BY <1>1, <1>9, SetFacts DEF MediaInv
  <2>2. row'[j].status \in {"none", "FAILED"} /\ row'[j].output = row[j].output
    BY <1>1, <1>9, SetFacts DEF MediaInv
  <2>3. row'[j].output = "file" => j.att \in file
    BY <1>1, <2>2 DEF MediaInv, FilesKept
  <2>4. j \in saved' =>
            att[j.att] # "unborn" /\ (row'[j] # NoRow => row'[j].output = Output(j))
    BY <1>1, <1>9, <2>1, <2>2 DEF MediaInv, ResultsKept
  <2>5. QED
    BY <1>1, <1>2, <1>3, <1>5, <1>7, <1>9, <2>1, <2>2, <2>3, <2>4, LaidDown
<1>10. CASE /\ row' = Complete(j, Output(j)) /\ work[w].step = "save"
            /\ saved' = IF row[j] = NoRow THEN saved ELSE saved \cup {j}
  <2>1. /\ row' \in [Jobs -> Row \cup {NoRow}] /\ \A i \in Jobs : row'[i] = NoRow <=> row[i] = NoRow
        /\ \A i \in Jobs \ {j} : row'[i] = row[i]
    BY <1>1, <1>10, CompleteFacts DEF MediaInv
  <2>2. row'[j] \in {NoRow, [status |-> "COMPLETED", output |-> Output(j)]}
    BY <1>1, <1>10, CompleteFacts DEF MediaInv
  <2>3. /\ row'[j].status # "PROCESSING" /\ (row'[j].output = "file" => Output(j) = "file")
        /\ row'[j] # NoRow => row'[j].output = Output(j)
    BY <2>2 DEF NoRow
  <2>4. Output(j) = "file" => j.att \in file
    BY <1>1, <1>10, WorkFacts DEF MediaInv, UploadedBeforeSave
  <2>5. saved \subseteq saved' /\ saved' \subseteq saved \cup {j}
    BY <1>10
  <2>6. j \in saved' => att[j.att] # "unborn"
    BY <1>1, <1>10 DEF MediaInv, MediaTypeOK, ResultsKept
  <2>7. QED
    BY <1>1, <1>2, <1>3, <1>5, <1>7, <2>1, <2>3, <2>4, <2>5, <2>6, LaidDown
<1>11. CASE /\ row' = row /\ saved' = saved
            /\ queue' = [queue EXCEPT ![j] = queue[j] + 1] \/ j \in dropped'
  <2>1. queue'[j] > 0 \/ j \in dropped'
    BY <1>1, <1>11 DEF MediaInv, MediaTypeOK
  <2>2. /\ row[j].output = "file" => j.att \in file
        /\ j \in saved =>
            att[j.att] # "unborn" /\ (row[j] # NoRow => row[j].output = Output(j))
    BY <1>1 DEF MediaInv, FilesKept, ResultsKept
  <2>3. row' \in [Jobs -> Row \cup {NoRow}]
    BY <1>11 DEF MediaInv, MediaTypeOK
  <2>4. QED
    BY <1>1, <1>2, <1>3, <1>5, <1>7, <1>11, <2>1, <2>2, <2>3, LaidDown
<1>12. QED
  BY <1>8, <1>9, <1>10, <1>11

\* A stop drops what a run has claimed; what a worker had is queued again or dropped.
LEMMA StopStep ==
    ASSUME MediaInv, StopWorker
    PROVE  MediaInv'
<1> DEFINE busy == {w \in Workers : work[w] # NoWork}
<1>1. PICK again \in SUBSET busy :
        /\ queue' = [j \in Jobs |-> queue[j] + Cardinality({w \in again : work[w].job = j})]
        /\ dropped' = dropped \cup {work[w].job : w \in busy \ again}
                        \cup ({poll[p].job : p \in Pollers} \ {NoJob})
  BY DEF StopWorker
<1>2. /\ poll' = [p \in Pollers |-> Resting] /\ work' = [w \in Workers |-> NoWork]
      /\ stops' = stops + 1 /\ UNCHANGED <<att, row, source, file, saved, faults>>
  BY DEF StopWorker
<1>3. ASSUME NEW j \in Jobs
      PROVE  /\ Cardinality({w \in again : work[w].job = j}) \in Nat
             /\ (\E w \in again : work[w].job = j) => Cardinality({w \in again : work[w].job = j}) > 0
  <2>1. {w \in again : work[w].job = j} \subseteq Workers /\ IsFiniteSet(Workers)
    BY MediaAssumption
  <2>2. IsFiniteSet({w \in again : work[w].job = j})
    BY <2>1, FS_Subset
  <2>3. QED
    BY <2>2, FS_CardinalityType, FS_EmptySet
<1>4. queue' \in [Jobs -> Nat]
  BY <1>1, <1>3 DEF MediaInv, MediaTypeOK
<1>5. dropped' \subseteq Jobs
  BY <1>1 DEF MediaInv, MediaTypeOK
<1>6. MediaTypeOK'
  BY <1>2, <1>4, <1>5, JobFacts DEF MediaInv, MediaTypeOK, Resting
<1>7. FilesKept' /\ ResultsKept' /\ UploadedBeforeSave'
  BY <1>2 DEF MediaInv, FilesKept, ResultsKept, UploadedBeforeSave, Output, Skips, NoWork
<1>8. NothingStranded'
  <2>1. ASSUME NEW j \in Jobs, row[j].status = "PROCESSING", j \notin dropped'
        PROVE  queue'[j] > 0
    <3>1. InCharge(j)
      BY <1>1, <2>1 DEF MediaInv, NothingStranded
    <3>2. \A p \in Pollers : poll[p].job # j
      BY <1>1, <2>1, JobFacts
    <3>3. CASE queue[j] > 0
      BY <1>1, <1>3, <3>3 DEF MediaInv, MediaTypeOK
    <3>4. ASSUME NEW w \in Workers, work[w] # NoWork, work[w].job = j
          PROVE  queue'[j] > 0
      <4>1. w \in again
        BY <1>1, <2>1, <3>4
      <4>2. queue[j] \in Nat /\ queue'[j] = queue[j] + Cardinality({v \in again : work[v].job = j})
        BY <1>1 DEF MediaInv, MediaTypeOK
      <4>3. QED
        BY <1>3, <3>4, <4>1, <4>2
    <3>5. QED
      BY <3>1, <3>2, <3>3, <3>4 DEF InCharge
  <2>2. QED
    BY <1>2, <2>1 DEF NothingStranded, InCharge
<1>9. QED
  BY <1>6, <1>7, <1>8 DEF MediaInv

(***************************************************************************)
(* The theorems.                                                           *)
(***************************************************************************)

\* The invariant holds at the start, where there is nothing.
LEMMA MediaInitInv == MediaInit => MediaInv
<1> SUFFICES ASSUME MediaInit PROVE MediaInv
  OBVIOUS
<1>1. MediaTypeOK
  BY JobFacts DEF MediaInit, MediaTypeOK, Resting
<1>2. FilesKept /\ ResultsKept /\ UploadedBeforeSave /\ NothingStranded
  BY DEF MediaInit, FilesKept, ResultsKept, UploadedBeforeSave, NothingStranded, NoRow
<1>3. QED
  BY <1>1, <1>2 DEF MediaInv

\* The invariant is kept by every step.
LEMMA MediaInductive == MediaInv /\ [MediaNext]_media => MediaInv'
<1> SUFFICES ASSUME MediaInv, [MediaNext]_media PROVE MediaInv'
  OBVIOUS
<1>1. CASE UNCHANGED media
  BY <1>1 DEF media, MediaInv, MediaTypeOK, FilesKept, ResultsKept, UploadedBeforeSave,
     NothingStranded, InCharge, Output, Skips
<1>2. CASE MediaNext
  BY <1>2, HandlerStep, PollerStep, WorkerGoesOn, WorkerEnds, StopStep DEF MediaNext
<1>3. QED
  BY <1>1, <1>2

\* The invariant holds in every state of every behaviour.
THEOREM MediaInvariance == MediaSpec => []MediaInv
BY MediaInitInv, MediaInductive, PTL DEF MediaSpec

\* The variables have their types, and a row lives exactly as long as its attachment.
THEOREM MediaTypeCorrect == MediaSpec => []MediaTypeOK
<1>1. MediaInv => MediaTypeOK
  BY DEF MediaInv
<1>2. QED
  BY <1>1, MediaInvariance, PTL

\* What a run has produced outlives the runs that fail after it, for as long as its
\* attachment lives, whatever jobs run twice or are stopped and whoever deletes recordings.
THEOREM ResultsAreKept == MediaSpec => []ResultsOutliveFailures
<1>1. ASSUME MediaInv, NEW j \in saved, row[j] # NoRow
      PROVE  row[j].output = Output(j) /\ (Output(j) = "file" => j.att \in file)
  BY <1>1, SavedAreJobs DEF MediaInv, FilesKept, ResultsKept
<1>2. MediaInv => ResultsOutliveFailures
  BY <1>1 DEF ResultsOutliveFailures
<1>3. QED
  BY <1>2, MediaInvariance, PTL

\* A row that is PROCESSING has a poller, a message or a worker, or was dropped.
THEOREM NobodyIsStranded == MediaSpec => []NothingStranded
<1>1. MediaInv => NothingStranded
  BY DEF MediaInv
<1>2. QED
  BY <1>1, MediaInvariance, PTL
================================================================================
