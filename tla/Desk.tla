-------------------------------- MODULE Desk --------------------------------
(***************************************************************************)
(* What is changed from forms and touches no money: the sponsors and their *)
(* order, the event's status and cover, the name on a ticket.  Every form  *)
(* was filled in from a page loaded earlier, and every handler reads       *)
(* before it writes; what it may rely on in between is a lock (sponsors),  *)
(* a condition in the UPDATE (status, name) or nothing (cover).  Pictures  *)
(* lie in a bucket no transaction spans: they are stored before the row    *)
(* names them and deleted after it has stopped to, as well as that goes.   *)
(***************************************************************************)
EXTENDS Integers, Sequences, SequencesExt, FiniteSets

CONSTANTS
  Sponsor,      \* ids a sponsor may be given
  Wanted,       \* positions a form may ask for, or NULL
  Name,         \* names a ticket may bear
  MaxRequests,  \* bound on the requests
  NULL

Level == {"presenting", "partner", "supporter"}

\* A sponsor as the table has it; its logo's key tells whose it is.
SponsorRow == [level : Level, position : Int, logo : Sponsor \X Nat]

ASSUME NullAssumption == NULL \notin Int /\ NULL \notin Sponsor \cup Name /\ NULL \notin SponsorRow
ASSUME SponsorAssumption ==
  /\ IsFiniteSet(Sponsor) /\ Sponsor # {}
  /\ "event" \notin Sponsor  \* keys tell whose picture it is
ASSUME BoundAssumption == MaxRequests \in Nat /\ Wanted \subseteq Int \cup {NULL}

Status == {"draft", "published", "archived"}

\* Keys carry their owner and are fresh for each upload.
Key(owner, n) == <<owner, n>>
Cover(n) == Key("event", n)

VARIABLES
  rows,      \* table sponsors, by id: level, position, logo key
  event,     \* the event's row: status and image key
  ticket,    \* a ticket's row: name, and whether it is issued
  trail,     \* its renames and its cancellation in the audit trail
  stored,    \* the objects in the bucket
  work,      \* requests between their read or upload and their write
  uploaded,  \* covers the browser has put and not yet reported
  trash,     \* objects a request is about to delete, its write committed
  orphans,   \* objects whose deletion failed or never came
  requests   \* requests so far

db == <<rows, event, ticket, trail>>
bucket == <<stored, uploaded, trash, orphans>>
vars == <<db, bucket, work, requests>>

\* One more request; its number is also that of the picture it brings.
This == requests + 1
Request == requests < MaxRequests /\ requests' = This
Begin(w) == Request /\ work' = work \cup {w}
End(w) == work' = work \ {w} /\ UNCHANGED requests

-----------------------------------------------------------------------------
(* The order of sponsors within a level.                                   *)

\* listIdsByLevel
InLevel(r, level) == {s \in Sponsor : r[s] # NULL /\ r[s].level = level}
ByPosition_Any(r, S) == SetToSeq(S)  \* seeded fault: without ORDER BY
\* DISPLAY_ORDER
ByPosition(r, S) ==
  CHOOSE order \in SetToSeqs(S) :
    \A i, j \in DOMAIN order : i < j => r[order[i]].position <= r[order[j]].position

Order(r, level) == ByPosition(r, InLevel(r, level))
Others(r, level, s) == ByPosition(r, InLevel(r, level) \ {s})

\* placeIn: sponsor s at the place asked for, clamped; at the end without one.
PlaceIn(order, s, wanted) ==
  LET end == Len(order) + 1
  IN  InsertAt(order, IF wanted = NULL \/ wanted > end THEN end
                      ELSE IF wanted < 1 THEN 1 ELSE wanted, s)

\* renumber: positions 1..n in the order given, which is a whole level's.
Renumber(r, order) ==
  [s \in Sponsor |-> IF r[s] # NULL /\ \E n \in DOMAIN order : order[n] = s
                       THEN [r[s] EXCEPT !.position = CHOOSE n \in DOMAIN order : order[n] = s]
                       ELSE r[s]]

\* Seeded fault: no room is made at the top.
DemotePresenting_NoRoom(r, keep) ==
  [s \in Sponsor |-> IF s \in InLevel(r, "presenting") \ {keep}
                       THEN [r[s] EXCEPT !.level = "partner", !.position = 1] ELSE r[s]]
\* Seeded fault: position 0, above Partner #1, left for a renumber to settle.
DemotePresenting_Zero(r, keep) ==
  [s \in Sponsor |-> IF s \in InLevel(r, "presenting") \ {keep}
                       THEN [r[s] EXCEPT !.level = "partner", !.position = 0] ELSE r[s]]
\* demotePresenting: the presenting sponsor, unless it is keep, becomes
\* Partner #1, and every partner moves down one.
DemotePresenting(r, keep) ==
  LET old == InLevel(r, "presenting") \ {keep}
  IN  [s \in Sponsor |->
         IF s \in old THEN [r[s] EXCEPT !.level = "partner", !.position = 1]
         ELSE IF old # {} /\ s \in InLevel(r, "partner") THEN [r[s] EXCEPT !.position = @ + 1]
         ELSE r[s]]

\* The rows before a sponsor gets a level: only one is presenting.
MadeRoom(level, keep) == IF level = "presenting" THEN DemotePresenting(rows, keep) ELSE rows

\* The rows with sponsor s in its new place: the level it joins is numbered
\* afresh, and the gap it leaves in its old one is closed.
Inserted(s, level, wanted, logo) ==
  LET r == MadeRoom(level, NULL)
      new == [level |-> level, position |-> 0, logo |-> logo]
  IN  Renumber([r EXCEPT ![s] = new], PlaceIn(Order(r, level), s, wanted))

Moved(s, level, wanted, logo) ==
  LET old == rows[s]
      r == MadeRoom(level, s)
      place == IF wanted = NULL /\ level = old.level THEN old.position ELSE wanted
      new == [old EXCEPT !.level = level, !.logo = logo]
      moved == Renumber([r EXCEPT ![s] = new], PlaceIn(Others(r, level, s), s, place))
  IN  IF level = old.level THEN moved ELSE Renumber(moved, Order(moved, old.level))

-----------------------------------------------------------------------------
(* Sponsors.  Every write takes one advisory lock first, so each           *)
(* transaction is a step.                                                  *)

\* storeLogo: the logo is in the bucket before the transaction begins.  The id
\* of a new sponsor is made now; that of an old one is looked up.
UploadLogo(s, isNew) ==
  /\ IF isNew THEN rows[s] = NULL /\ \A key \in stored : key[1] # s ELSE rows[s] # NULL
  /\ stored' = stored \cup {Key(s, This)}
  /\ Begin([op |-> IF isNew THEN "create" ELSE "update", id |-> s, key |-> Key(s, This)])
  /\ UNCHANGED <<db, uploaded, trash, orphans>>

\* create: the transaction.
Create(w, level, wanted) ==
  /\ w.op = "create"
  /\ rows' = Inserted(w.id, level, wanted, w.key)
  /\ End(w)
  /\ UNCHANGED <<event, ticket, trail, bucket>>

\* The logo an update replaces, read under the lock.
ReplacedLogo(w) == rows[w.id].logo

\* update, with a new logo: the transaction.
Update(w, level, wanted) ==
  /\ w.op = "update" /\ rows[w.id] # NULL
  /\ rows' = Moved(w.id, level, wanted, w.key)
  /\ trash' = trash \cup {ReplacedLogo(w)}
  /\ End(w)
  /\ UNCHANGED <<event, ticket, trail, stored, uploaded, orphans>>

\* update, without one.
Edit(s, level, wanted) ==
  /\ rows[s] # NULL /\ Request
  /\ rows' = Moved(s, level, wanted, rows[s].logo)
  /\ UNCHANGED <<event, ticket, trail, bucket, work>>

Discard_Kept(w) == UNCHANGED trash  \* seeded fault: the upload is forgotten
\* The upload of a request whose transaction fails is removed again.
Discard(w) == trash' = trash \cup {w.key}

\* The sponsor was deleted while its new logo was being stored, or the
\* database fails.
SaveFails(w) ==
  /\ w.op \in {"create", "update"}
  /\ Discard(w)
  /\ End(w)
  /\ UNCHANGED <<db, stored, uploaded, orphans>>

SetPosition(s, wanted) ==
  /\ rows[s] # NULL /\ wanted # NULL /\ Request
  /\ rows' = Renumber(rows, PlaceIn(Others(rows, rows[s].level, s), s, wanted))
  /\ UNCHANGED <<event, ticket, trail, bucket, work>>

Delete(s) ==
  LET r == [rows EXCEPT ![s] = NULL]
  IN  /\ rows[s] # NULL /\ Request
      /\ rows' = Renumber(r, Order(r, rows[s].level))
      /\ trash' = trash \cup {rows[s].logo}
      /\ UNCHANGED <<event, ticket, trail, stored, uploaded, orphans, work>>

-----------------------------------------------------------------------------
(* The bucket, and requests that die.                                      *)

\* bestEffortDelete
DeleteObject(key) ==
  /\ stored' = stored \ {key}
  /\ trash' = trash \ {key}
  /\ UNCHANGED <<db, uploaded, orphans, work, requests>>

DeleteObjectFails(key) ==
  /\ trash' = trash \ {key}
  /\ orphans' = orphans \cup {key}
  /\ UNCHANGED <<db, stored, uploaded, work, requests>>

\* The process dies; what the request had stored stays.
Crash(w) ==
  /\ orphans' = orphans \cup (IF w.op \in {"create", "update"} THEN {w.key} ELSE {})
  /\ End(w)
  /\ UNCHANGED <<db, stored, uploaded, trash>>

-----------------------------------------------------------------------------
(* The event.                                                              *)

\* The browser puts the file under the key it was given, to report it once.
UploadCover ==
  /\ Request
  /\ stored' = stored \cup {Cover(This)}
  /\ uploaded' = uploaded \cup {Cover(This)}
  /\ UNCHANGED <<db, trash, orphans, work>>

\* setCoverImage: the event's row is read and the object looked at, ...
ReadForCover(key) ==
  /\ uploaded' = uploaded \ {key}
  /\ work' = work \cup {[op |-> "cover", key |-> key, old |-> event.image]}
  /\ UNCHANGED <<db, stored, trash, orphans, requests>>

\* removeCoverImage
ReadForRemoval ==
  /\ Begin([op |-> "cover", key |-> NULL, old |-> event.image])
  /\ UNCHANGED <<db, bucket>>

\* The picture that goes: the one seen before, unless it is the new one.
OldCover(w) == {w.old} \ {NULL, w.key}

\* ... the row is pointed at the new picture, the old one goes.
SetImageKey(w) ==
  /\ w.op = "cover"
  /\ event' = [event EXCEPT !.image = w.key]
  /\ trash' = trash \cup OldCover(w)
  /\ End(w)
  /\ UNCHANGED <<rows, ticket, trail, stored, uploaded, orphans>>

EventTransitions ==
  {<<"draft", "published">>, <<"draft", "archived">>, <<"published", "draft">>,
   <<"published", "archived">>, <<"archived", "draft">>}

\* changeEventStatus: the move and, for publishing, the cover are judged from
\* one read (the other checks are of data no handler here changes) ...
ReadStatus(to) ==
  /\ <<event.status, to>> \in EventTransitions
  /\ to = "published" => event.image # NULL
  /\ Begin([op |-> "status", from |-> event.status, to |-> to])
  /\ UNCHANGED <<db, bucket>>

StillIn(w) == event.status = w.from

\* ... and the UPDATE is on condition of the status seen.
TransitionStatus(w) ==
  /\ w.op = "status"
  /\ event' = IF StillIn(w) THEN [event EXCEPT !.status = w.to] ELSE event
  /\ End(w)
  /\ UNCHANGED <<rows, ticket, trail, bucket>>

-----------------------------------------------------------------------------
(* The name on a ticket.                                                   *)

\* renameAttendee: the ticket is read (and the registration window) ...
ReadForRename(name) ==
  /\ ticket.issued
  /\ Begin([op |-> "rename", n |-> This, old |-> ticket.name, name |-> name])
  /\ UNCHANGED <<db, bucket>>

StillNamed_Any(w) == ticket.issued  \* seeded fault: the old name is not compared
StillNamed(w) == ticket.issued /\ ticket.name = w.old

\* ... and under the order's lock renamed, if it still is what was read.
Rename(w) ==
  /\ w.op = "rename"
  /\ IF StillNamed(w)
       THEN /\ ticket' = [ticket EXCEPT !.name = w.name]
            /\ trail' = Append(trail, [old |-> w.old, new |-> w.name])
       ELSE UNCHANGED <<ticket, trail>>
  /\ End(w)
  /\ UNCHANGED <<rows, event, bucket>>

CancelTicket ==
  /\ ticket.issued /\ Request
  /\ ticket' = [ticket EXCEPT !.issued = FALSE]
  /\ trail' = Append(trail, [old |-> ticket.name, new |-> NULL])
  /\ UNCHANGED <<rows, event, bucket, work>>

-----------------------------------------------------------------------------
\* Sponsors as earlier requests may have left them; an event with a cover.
Init ==
  /\ \E level \in [Sponsor -> Level \cup {NULL}] :
       LET first == [s \in Sponsor |-> IF level[s] = NULL THEN NULL
                       ELSE [level |-> level[s], position |-> 0, logo |-> Key(s, 0)]]
           presenting == InLevel(first, "presenting")
           partners == Renumber(first, SetToSeq(InLevel(first, "partner")))
       IN  /\ Cardinality(presenting) <= 1
           /\ rows = Renumber(Renumber(partners, SetToSeq(presenting)),
                              SetToSeq(InLevel(first, "supporter")))
           /\ stored = {Cover(0)} \cup {Key(s, 0) : s \in {t \in Sponsor : level[t] # NULL}}
  /\ event = [status |-> "draft", image |-> Cover(0)]
  /\ \E name \in Name : ticket = [name |-> name, issued |-> TRUE]
  /\ trail = <<>> /\ work = {} /\ uploaded = {} /\ trash = {} /\ orphans = {}
  /\ requests = 0

SponsorStep ==
  \/ \E s \in Sponsor, level \in Level, wanted \in Wanted :
       Edit(s, level, wanted)
  \/ \E w \in work, level \in Level, wanted \in Wanted :
       Create(w, level, wanted) \/ Update(w, level, wanted)
  \/ \E s \in Sponsor, isNew \in BOOLEAN : UploadLogo(s, isNew)
  \/ \E s \in Sponsor : Delete(s) \/ \E wanted \in Wanted : SetPosition(s, wanted)
  \/ \E w \in work : SaveFails(w)

BucketStep ==
  \/ \E key \in trash : DeleteObject(key) \/ DeleteObjectFails(key)
  \/ \E w \in work : Crash(w)

EventStep ==
  \/ UploadCover \/ ReadForRemoval
  \/ \E key \in uploaded : ReadForCover(key)
  \/ \E to \in Status : ReadStatus(to)
  \/ \E w \in work : SetImageKey(w) \/ TransitionStatus(w)

TicketStep ==
  \/ CancelTicket
  \/ \E name \in Name : ReadForRename(name)
  \/ \E w \in work : Rename(w)

Next == SponsorStep \/ BucketStep \/ EventStep \/ TicketStep

Spec == Init /\ [][Next]_vars

-----------------------------------------------------------------------------
(* Properties.                                                             *)

\* The type invariant: rows, and what a request may delete or report exists.
TypeOK ==
  /\ \A s \in Sponsor : rows[s] # NULL =>
       /\ rows[s].level \in Level /\ rows[s].position \in Nat \ {0}
       /\ rows[s].logo[1] = s
  /\ event.status \in Status
  /\ event.image = NULL \/ event.image[1] = "event"
  /\ ticket \in [name : Name, issued : BOOLEAN]
  /\ uploaded \subseteq stored
  /\ requests \in 0 .. MaxRequests

\* Whatever two admins do at once, a level's positions are 1..n, and at most
\* one sponsor is presenting (the unique index is never needed).
PositionsDense ==
  /\ \A level \in Level :
       {rows[s].position : s \in InLevel(rows, level)} = 1 .. Cardinality(InLevel(rows, level))
  /\ Cardinality(InLevel(rows, "presenting")) <= 1

\* A form moves one sponsor: any other two of a level stay in their order.
OthersKeepOrder ==
  [][\E s \in Sponsor : \A a, b \in Sponsor \ {s} :
       /\ rows[a] # NULL /\ rows[b] # NULL /\ rows'[a] # NULL /\ rows'[b] # NULL
       /\ rows[a].level = rows[b].level
       /\ rows'[a].level = rows[a].level /\ rows'[b].level = rows[b].level
       => ((rows[a].position < rows[b].position) <=> (rows'[a].position < rows'[b].position))]_vars

\* What a row names is in the bucket, and nobody is about to delete it.
PicturesExist ==
  /\ \A s \in Sponsor : rows[s] # NULL => rows[s].logo \in stored \ trash
  /\ event.image # NULL => event.image \in stored \ trash

\* The bucket and the rows, which no transaction spans, agree.  Besides, no
\* logo is left behind by requests that end well: every one in the bucket is a
\* row's, a request's or about to be deleted, or a crash or a failed deletion
\* left it.
BucketMatchesRows ==
  /\ PicturesExist
  /\ \A key \in stored :
       key[1] \in Sponsor =>
         \/ rows[key[1]] # NULL /\ rows[key[1]].logo = key
         \/ key \in trash \cup orphans
         \/ \E w \in work : w.op \in {"create", "update"} /\ w.key = key

\* Two admins at once never move the event in a way one of them could not.
StatusMovesLegal ==
  [][event'.status # event.status => <<event.status, event'.status>> \in EventTransitions]_vars

\* The audit trail tells every name the ticket bore: each row starts from the
\* name the last one left, the ticket bears the last one, and none follows a
\* cancellation.
NameTrailExact ==
  /\ \A n \in DOMAIN trail : n > 1 => trail[n].old = trail[n - 1].new
  /\ trail # <<>> =>
       IF ticket.issued THEN Last(trail).new = ticket.name
                        ELSE Last(trail) = [old |-> ticket.name, new |-> NULL]
=============================================================================
