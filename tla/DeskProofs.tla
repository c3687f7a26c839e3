----------------------------- MODULE DeskProofs -----------------------------
(***************************************************************************)
(* Theorems about Desk, for any number of sponsors, names and requests.    *)
(* The event and the ticket are safe because what a request has read stays *)
(* true of its own write; a picture that a row names is in the bucket      *)
(* because keys are fresh and each has one owner and one request (Keys);   *)
(* the sponsors of a level stay numbered 1..n, and in the order they had,  *)
(* because each transaction numbers whole levels (Ordered, Formed).        *)
(***************************************************************************)
EXTENDS Desk, FunctionTheorems, FiniteSetTheorems, SequenceTheorems, WellFoundedInduction, TLAPS

-----------------------------------------------------------------------------
(* The event's status.                                                     *)

\* A request moves the event only where it could when it read it.
MovesLegal == \A w \in work : w.op = "status" => <<w.from, w.to>> \in EventTransitions

\* The move a request has in hand was legal when it began.
LEMMA MovesKept == MovesLegal /\ [Next]_vars => MovesLegal'
<1> SUFFICES ASSUME MovesLegal, [Next]_vars PROVE MovesLegal'
  OBVIOUS
<1>1. ASSUME work' \subseteq work
      PROVE  MovesLegal'
  BY <1>1 DEF MovesLegal
<1>2. ASSUME NEW w, Begin(w), w.op # "status"
      PROVE  MovesLegal'
  BY <1>2 DEF Begin, MovesLegal
<1>3. ASSUME SponsorStep
      PROVE  MovesLegal'
  <2>1. CASE \E s \in Sponsor, isNew \in BOOLEAN : UploadLogo(s, isNew)
    <3>1. PICK s \in Sponsor, isNew \in BOOLEAN : UploadLogo(s, isNew)
      BY <2>1
    <3>2. Begin([op |-> IF isNew THEN "create" ELSE "update", id |-> s, key |-> Key(s, This)])
      BY <3>1 DEF UploadLogo
    <3> QED
      BY <1>2, <3>2
  <2>2. CASE ~(\E s \in Sponsor, isNew \in BOOLEAN : UploadLogo(s, isNew))
    <3>1. work' \subseteq work
      BY <1>3, <2>2 DEF SponsorStep, Edit, Create, Update, Delete, SetPosition, SaveFails, End
    <3> QED
      BY <1>1, <3>1
  <2> QED
    BY <2>1, <2>2
<1>4. ASSUME EventStep
      PROVE  MovesLegal'
  <2>1. CASE \E to \in Status : ReadStatus(to)
    <3>1. PICK to \in Status : ReadStatus(to)
      BY <2>1
    <3>2. /\ work' = work \cup {[op |-> "status", from |-> event.status, to |-> to]}
          /\ <<event.status, to>> \in EventTransitions
      BY <3>1 DEF ReadStatus, Begin
    <3> QED
      BY <3>2 DEF MovesLegal
  <2>2. CASE ReadForRemoval
    BY <1>2, <2>2 DEF ReadForRemoval
  <2>3. CASE \E key \in uploaded : ReadForCover(key)
    BY <2>3 DEF ReadForCover, MovesLegal
  <2>4. CASE UploadCover \/ \E w \in work : SetImageKey(w) \/ TransitionStatus(w)
    <3>1. work' \subseteq work
      BY <2>4 DEF UploadCover, SetImageKey, TransitionStatus, End
    <3> QED
      BY <1>1, <3>1
  <2> QED
    BY <1>4, <2>1, <2>2, <2>3, <2>4 DEF EventStep
<1>5. ASSUME TicketStep
      PROVE  MovesLegal'
  <2>1. CASE \E name \in Name : ReadForRename(name)
    <3>1. PICK name \in Name : ReadForRename(name)
      BY <2>1
    <3>2. Begin([op |-> "rename", n |-> This, old |-> ticket.name, name |-> name])
      BY <3>1 DEF ReadForRename
    <3> QED
      BY <1>2, <3>2
  <2>2. CASE CancelTicket \/ \E w \in work : Rename(w)
    <3>1. work' \subseteq work
      BY <2>2 DEF CancelTicket, Rename, End
    <3> QED
      BY <1>1, <3>1
  <2> QED
    BY <1>5, <2>1, <2>2 DEF TicketStep
<1>6. ASSUME BucketStep \/ UNCHANGED vars
      PROVE  MovesLegal'
  <2>1. work' \subseteq work
    BY <1>6 DEF BucketStep, DeleteObject, DeleteObjectFails, Crash, End, vars
  <2> QED
    BY <1>1, <2>1
<1> QED
  BY <1>3, <1>4, <1>5, <1>6 DEF Next

\* The event's row has its two columns.
EventRow == event = [status |-> event.status, image |-> event.image]

\* Every action keeps them.
LEMMA EventKept == EventRow /\ [Next]_vars => EventRow'
<1> SUFFICES ASSUME EventRow, [Next]_vars PROVE EventRow'
  OBVIOUS
<1>1. ASSUME NEW w \in work, SetImageKey(w)
      PROVE  EventRow'
  BY <1>1 DEF SetImageKey, EventRow
<1>2. ASSUME NEW w \in work, TransitionStatus(w)
      PROVE  EventRow'
  BY <1>2 DEF TransitionStatus, EventRow
<1>3. ASSUME event' = event
      PROVE  EventRow'
  BY <1>3 DEF EventRow
<1> QED
  BY <1>1, <1>2, <1>3
     DEF Next, SponsorStep, BucketStep, EventStep, TicketStep, vars, db, bucket,
         Edit, Create, Update, UploadLogo, Delete, SetPosition, SaveFails, DeleteObject,
         DeleteObjectFails, Crash, UploadCover, ReadForRemoval, ReadForCover, ReadStatus,
         CancelTicket, ReadForRename, Rename

\* Whatever two admins do at once, the event moves only where one may move it:
\* the UPDATE is on condition of the status the request has read.
THEOREM StatusMoves == Spec => StatusMovesLegal
<1>1. Init => MovesLegal /\ EventRow
  BY DEF Init, MovesLegal, EventRow
<1>2. MovesLegal /\ EventRow /\ [Next]_vars => MovesLegal' /\ EventRow'
  BY MovesKept, EventKept
<1>3. MovesLegal /\ EventRow /\ [Next]_vars
        => [event'.status # event.status => <<event.status, event'.status>> \in EventTransitions]_vars
  <2> SUFFICES ASSUME MovesLegal, EventRow, Next, event'.status # event.status
               PROVE  <<event.status, event'.status>> \in EventTransitions
    BY DEF vars
  <2>1. PICK w \in work : SetImageKey(w) \/ TransitionStatus(w)
    BY DEF Next, SponsorStep, BucketStep, EventStep, TicketStep, db, bucket,
           Edit, Create, Update, UploadLogo, Delete, SetPosition, SaveFails, DeleteObject,
           DeleteObjectFails, Crash, UploadCover, ReadForRemoval, ReadForCover, ReadStatus,
           CancelTicket, ReadForRename, Rename
  <2>2. CASE SetImageKey(w)
    BY <2>2 DEF SetImageKey, EventRow
  <2>3. CASE TransitionStatus(w)
    BY <2>3 DEF TransitionStatus, StillIn, EventRow, MovesLegal
  <2> QED
    BY <2>1, <2>2, <2>3
<1> QED
  BY <1>1, <1>2, <1>3, PTL DEF Spec, StatusMovesLegal
-----------------------------------------------------------------------------
(* The name on the ticket.                                                 *)

TrailRow == [old : Name, new : Name \cup {NULL}]

\* The ticket, the names requests are about to give it, and its trail.
Names ==
  /\ ticket \in [name : Name, issued : BOOLEAN]
  /\ trail \in Seq(TrailRow)
  /\ trail = <<>> => ticket.issued
  /\ \A w \in work : w.op = "rename" => w.name \in Name
  /\ NameTrailExact

\* A row that starts from the name an issued ticket bears continues the trail.
LEMMA TrailGrows ==
  ASSUME Names, ticket.issued, NEW new \in Name \cup {NULL},
         trail' = Append(trail, [old |-> ticket.name, new |-> new]),
         ticket' \in [name : Name, issued : BOOLEAN],
         IF ticket'.issued THEN new = ticket'.name ELSE new = NULL /\ ticket'.name = ticket.name
  PROVE  trail' \in Seq(TrailRow) /\ trail' # <<>> /\ NameTrailExact'
<1> DEFINE row == [old |-> ticket.name, new |-> new]
           last == Len(trail) + 1
<1>1. row \in TrailRow /\ row.old = ticket.name /\ row.new = new
  BY DEF Names, TrailRow
<1> HIDE DEF row
<1>2. /\ Len(trail) \in Nat /\ DOMAIN trail = 1 .. Len(trail)
      /\ trail' \in Seq(TrailRow) /\ trail' # <<>>
      /\ DOMAIN trail' = 1 .. last /\ Len(trail') = last
      /\ \A n \in 1 .. Len(trail) : trail'[n] = trail[n]
      /\ trail'[last] = row
  BY <1>1, LenProperties, AppendProperties DEF Names, row
<1>3. Last(trail)' = row
  BY <1>2 DEF Last
<1>4. ASSUME NEW n \in 1 .. last, n > 1
      PROVE  trail'[n].old = trail'[n - 1].new
  <2>1. CASE n = last
    <3>1. trail # <<>> /\ n - 1 = Len(trail) /\ n - 1 \in 1 .. Len(trail)
      BY <1>2, <1>4, <2>1
    <3>2. Last(trail).new = ticket.name
      BY <3>1 DEF Names, NameTrailExact
    <3> QED
      BY <1>1, <1>2, <2>1, <3>1, <3>2 DEF Last
  <2>2. CASE n # last
    <3>1. n \in 1 .. Len(trail) /\ n - 1 \in 1 .. Len(trail)
      BY <1>2, <1>4, <2>2
    <3> QED
      BY <1>2, <1>4, <3>1 DEF Names, NameTrailExact
  <2> QED
    BY <2>1, <2>2
<1>5. IF ticket'.issued THEN row.new = ticket'.name ELSE row = [old |-> ticket'.name, new |-> NULL]
  BY <1>1 DEF row
<1> QED
  BY <1>2, <1>3, <1>4, <1>5 DEF NameTrailExact

\* Every action keeps the names.
LEMMA NamesKept == Names /\ [Next]_vars => Names'
<1> SUFFICES ASSUME Names, [Next]_vars PROVE Names'
  OBVIOUS
<1>1. ASSUME ticket' = ticket, trail' = trail,
             \A w \in work' : w \in work \/ w.op # "rename" \/ w.name \in Name
      PROVE  Names'
  BY <1>1 DEF Names, NameTrailExact, Last
<1>2. ASSUME TicketStep
      PROVE  Names'
  <2>1. CASE CancelTicket
    <3>1. /\ ticket.issued /\ ticket' = [ticket EXCEPT !.issued = FALSE] /\ work' = work
          /\ trail' = Append(trail, [old |-> ticket.name, new |-> NULL])
      BY <2>1 DEF CancelTicket
    <3>2. ticket' \in [name : Name, issued : BOOLEAN] /\ ~ticket'.issued /\ ticket'.name = ticket.name
      BY <3>1 DEF Names
    <3>3. trail' \in Seq(TrailRow) /\ trail' # <<>> /\ NameTrailExact'
      BY <3>1, <3>2, TrailGrows
    <3> QED
      BY <3>1, <3>2, <3>3 DEF Names
  <2>2. CASE \E name \in Name : ReadForRename(name)
    <3>1. PICK name \in Name : ReadForRename(name)
      BY <2>2
    <3>2. /\ work' = work \cup {[op |-> "rename", n |-> This, old |-> ticket.name, name |-> name]}
          /\ ticket' = ticket /\ trail' = trail
      BY <3>1 DEF ReadForRename, Begin, db
    <3> QED
      BY <1>1, <3>2
  <2>3. CASE \E w \in work : Rename(w)
    <3>1. PICK w \in work : Rename(w)
      BY <2>3
    <3>2. work' \subseteq work /\ w.name \in Name
      BY <3>1 DEF Rename, End, Names
    <3>3. CASE ~StillNamed(w)
      BY <1>1, <3>1, <3>2, <3>3 DEF Rename
    <3>4. CASE StillNamed(w)
      <4>1. /\ ticket.issued /\ w.old = ticket.name
            /\ ticket' = [ticket EXCEPT !.name = w.name]
            /\ trail' = Append(trail, [old |-> w.old, new |-> w.name])
        BY <3>1, <3>4 DEF Rename, StillNamed
      <4>2. /\ ticket' \in [name : Name, issued : BOOLEAN]
            /\ ticket'.issued /\ ticket'.name = w.name
        BY <3>2, <4>1 DEF Names
      <4>3. trail' \in Seq(TrailRow) /\ trail' # <<>> /\ NameTrailExact'
        BY <3>2, <4>1, <4>2, TrailGrows
      <4> QED
        BY <3>2, <4>2, <4>3 DEF Names
    <3> QED
      BY <3>3, <3>4
  <2> QED
    BY <1>2, <2>1, <2>2, <2>3 DEF TicketStep
<1>3. ASSUME NEW s \in Sponsor, NEW isNew \in BOOLEAN, UploadLogo(s, isNew)
      PROVE  Names'
  <2>1. /\ work' = work \cup {[op |-> IF isNew THEN "create" ELSE "update", id |-> s, key |-> Key(s, This)]}
        /\ ticket' = ticket /\ trail' = trail
    BY <1>3 DEF UploadLogo, Begin, db
  <2> QED
    BY <1>1, <2>1
<1>4. ASSUME EventStep
      PROVE  Names'
  <2>1. /\ ticket' = ticket /\ trail' = trail
        /\ \A w \in work' : w \in work \/ w.op # "rename"
    <3>1. CASE \E key \in uploaded : ReadForCover(key)
      BY <3>1 DEF ReadForCover, db
    <3>2. CASE ReadForRemoval
      BY <3>2 DEF ReadForRemoval, Begin, db
    <3>3. CASE \E to \in Status : ReadStatus(to)
      BY <3>3 DEF ReadStatus, Begin, db
    <3>4. CASE UploadCover \/ \E w \in work : SetImageKey(w) \/ TransitionStatus(w)
      BY <3>4 DEF UploadCover, SetImageKey, TransitionStatus, End, db
    <3> QED
      BY <1>4, <3>1, <3>2, <3>3, <3>4 DEF EventStep
  <2> QED
    BY <1>1, <2>1
<1>5. ASSUME SponsorStep \/ BucketStep \/ UNCHANGED vars,
             ~(\E s \in Sponsor, isNew \in BOOLEAN : UploadLogo(s, isNew))
      PROVE  Names'
  <2>1. ticket' = ticket /\ trail' = trail /\ work' \subseteq work
    BY <1>5 DEF SponsorStep, Edit, Create, Update, Delete, SetPosition, SaveFails, End,
                BucketStep, DeleteObject, DeleteObjectFails, Crash, vars, db
  <2> QED
    BY <1>1, <2>1
<1> QED
  BY <1>2, <1>3, <1>4, <1>5 DEF Next

\* The audit trail tells every name the ticket bore: a rename is on condition
\* of the name its request has read, and of the ticket being issued still.
THEOREM NamesExplained == Spec => []NameTrailExact
<1>1. Init => Names
  BY DEF Init, Names, NameTrailExact
<1>2. Names => NameTrailExact
  BY DEF Names
<1> QED
  BY <1>1, <1>2, NamesKept, PTL DEF Spec
-----------------------------------------------------------------------------
(* The pictures.                                                           *)

\* What a sponsor's row holds, if there is one.
Fields(r) == r # NULL => {"level", "position", "logo"} \subseteq DOMAIN r
\* Row new, if there is one, is row old with the same logo.
SameLogo(old, new) == new # NULL => old # NULL /\ new.logo = old.logo

\* Renumbering leaves the logos.
LEMMA RenumberedLogo ==
  ASSUME NEW r, NEW places, NEW t \in Sponsor, Fields(r[t])
  PROVE  Fields(Renumber(r, places)[t]) /\ SameLogo(r[t], Renumber(r, places)[t])
<1> DEFINE place == CHOOSE n \in DOMAIN places : places[n] = t
           new == Renumber(r, places)[t]
<1>1. new = IF r[t] # NULL /\ \E n \in DOMAIN places : places[n] = t
              THEN [r[t] EXCEPT !.position = place] ELSE r[t]
  BY DEF Renumber
<1> HIDE DEF place, new
<1>2. new = r[t] \/ (r[t] # NULL /\ new = [r[t] EXCEPT !.position = place])
  BY <1>1
<1>3. CASE new = r[t]
  BY <1>3 DEF SameLogo, new
<1>4. CASE r[t] # NULL /\ new = [r[t] EXCEPT !.position = place]
  <2>1. {"level", "position", "logo"} \subseteq DOMAIN r[t]
    BY <1>4 DEF Fields
  <2>2. DOMAIN new = DOMAIN r[t] /\ new.logo = r[t].logo
    BY <1>4, <2>1
  <2> QED
    BY <1>4, <2>1, <2>2 DEF Fields, SameLogo, new
<1> QED
  BY <1>2, <1>3, <1>4

\* So does making room at the top.
LEMMA RoomLogo ==
  ASSUME NEW level, NEW keep, NEW t \in Sponsor, Fields(rows[t])
  PROVE  Fields(MadeRoom(level, keep)[t]) /\ SameLogo(rows[t], MadeRoom(level, keep)[t])
<1> DEFINE new == DemotePresenting(rows, keep)[t]
<1>1. \/ new = rows[t]
      \/ rows[t] # NULL /\ new = [rows[t] EXCEPT !.level = "partner", !.position = 1]
      \/ rows[t] # NULL /\ new = [rows[t] EXCEPT !.position = @ + 1]
  BY DEF DemotePresenting, InLevel
<1> HIDE DEF new
<1>2. Fields(new) /\ SameLogo(rows[t], new)
  <2>1. CASE new = rows[t]
    BY <2>1 DEF SameLogo
  <2>2. CASE rows[t] # NULL /\ new # rows[t]
    <3>1. {"level", "position", "logo"} \subseteq DOMAIN rows[t]
      BY <2>2 DEF Fields
    <3>2. DOMAIN new = DOMAIN rows[t] /\ new.logo = rows[t].logo
      BY <1>1, <2>2, <3>1
    <3> QED
      BY <2>2, <3>1, <3>2 DEF Fields, SameLogo
  <2> QED
    BY <1>1, <2>1, <2>2
<1>3. MadeRoom(level, keep)[t] = new \/ MadeRoom(level, keep)[t] = rows[t]
  BY DEF MadeRoom, new
<1> QED
  BY <1>2, <1>3 DEF SameLogo

\* A new sponsor changes nobody else's logo and has its own.
LEMMA InsertedLogo ==
  ASSUME NEW s \in Sponsor, NEW level, NEW wanted, NEW logo,
         DOMAIN rows = Sponsor, NEW t \in Sponsor, Fields(rows[t])
  PROVE  /\ Fields(Inserted(s, level, wanted, logo)[t])
         /\ t # s => SameLogo(rows[t], Inserted(s, level, wanted, logo)[t])
         /\ t = s => (Inserted(s, level, wanted, logo)[t] # NULL
                        => Inserted(s, level, wanted, logo)[t].logo = logo)
<1> DEFINE r == MadeRoom(level, NULL)
           new == [level |-> level, position |-> 0, logo |-> logo]
           next == [r EXCEPT ![s] = new]
           places == PlaceIn(Order(r, level), s, wanted)
<1>1. Inserted(s, level, wanted, logo) = Renumber(next, places)
  BY DEF Inserted
<1>2. Fields(r[t]) /\ SameLogo(rows[t], r[t])
  BY RoomLogo
<1>3. DOMAIN r = Sponsor
  BY DEF MadeRoom, DemotePresenting
<1>4. Fields(new) /\ new.logo = logo
  BY DEF Fields
<1> HIDE DEF r, new, places
<1>5. IF t = s THEN next[t] = new ELSE next[t] = r[t]
  BY <1>3 DEF next
<1> HIDE DEF next
<1>6. Fields(next[t])
  BY <1>2, <1>4, <1>5
<1>7. /\ Fields(Renumber(next, places)[t])
      /\ SameLogo(next[t], Renumber(next, places)[t])
  BY <1>6, RenumberedLogo
<1> QED
  BY <1>1, <1>2, <1>4, <1>5, <1>7 DEF SameLogo

\* Nor does one that moves.
LEMMA MovedLogo ==
  ASSUME NEW s \in Sponsor, NEW level, NEW wanted, NEW logo,
         DOMAIN rows = Sponsor, rows[s] # NULL, Fields(rows[s]), NEW t \in Sponsor, Fields(rows[t])
  PROVE  /\ Fields(Moved(s, level, wanted, logo)[t])
         /\ t # s => SameLogo(rows[t], Moved(s, level, wanted, logo)[t])
         /\ t = s => (Moved(s, level, wanted, logo)[t] # NULL
                        => Moved(s, level, wanted, logo)[t].logo = logo)
<1> DEFINE old == rows[s]
           r == MadeRoom(level, s)
           place == IF wanted = NULL /\ level = old.level THEN old.position ELSE wanted
           new == [old EXCEPT !.level = level, !.logo = logo]
           next == [r EXCEPT ![s] = new]
           places == PlaceIn(Others(r, level, s), s, place)
           moved == Renumber(next, places)
           gap == Order(moved, old.level)
           final == Moved(s, level, wanted, logo)
<1>1. final = moved \/ final = Renumber(moved, gap)
  BY DEF Moved
<1>2. Fields(r[t]) /\ SameLogo(rows[t], r[t])
  BY RoomLogo
<1>3. DOMAIN r = Sponsor
  BY DEF MadeRoom, DemotePresenting
<1>4. Fields(new) /\ new.logo = logo
  BY DEF Fields
<1> HIDE DEF r, new, places, gap
<1>5. IF t = s THEN next[t] = new ELSE next[t] = r[t]
  BY <1>3 DEF next
<1> HIDE DEF next
<1>6. Fields(next[t])
  BY <1>2, <1>4, <1>5
<1>7. /\ Fields(Renumber(next, places)[t])
      /\ SameLogo(next[t], Renumber(next, places)[t])
  BY <1>6, RenumberedLogo
<1>8. Fields(moved[t]) /\ SameLogo(next[t], moved[t])
  BY <1>7
<1> HIDE DEF moved
<1>9. Fields(Renumber(moved, gap)[t]) /\ SameLogo(moved[t], Renumber(moved, gap)[t])
  BY <1>8, RenumberedLogo
<1> HIDE DEF final
<1>10. Fields(final[t]) /\ SameLogo(next[t], final[t])
  BY <1>1, <1>8, <1>9 DEF SameLogo
<1>11. final = Moved(s, level, wanted, logo)
  BY DEF final
<1> QED
  BY <1>2, <1>4, <1>5, <1>10, <1>11 DEF SameLogo

\* Requests that are about to write a sponsor's row, or the event's cover.
Saving == {w \in work : w.op \in {"create", "update"}}
Covering == {w \in work : w.op = "cover"}

\* A key has its owner and is no newer than the last request.
Made(key, owner) == key[1] = owner /\ key[2] \in 0 .. requests

Keys ==
  /\ requests \in Nat /\ DOMAIN rows = Sponsor
  /\ \A s \in Sponsor : Fields(rows[s]) /\ (rows[s] # NULL => Made(rows[s].logo, s))
  /\ \A key \in trash : key[2] \in 0 .. requests
  /\ \A key \in uploaded : Made(key, "event")
  /\ \A w \in Saving : w.id \in Sponsor /\ Made(w.key, w.id)
  /\ \A w \in Covering : (w.key # NULL => Made(w.key, "event")) /\ (w.old # NULL => Made(w.old, "event"))
  /\ event.image # NULL => Made(event.image, "event")

\* The logo that a request will name is in the bucket, and nobody's yet.
LogosKept ==
  /\ \A s \in Sponsor : rows[s] # NULL => rows[s].logo \in stored \ trash
  /\ \A w \in Saving : /\ w.key \in stored \ trash
                       /\ \A s \in Sponsor : rows[s] # NULL => rows[s].logo # w.key
  /\ \A v, w \in Saving : v # w => v.key # w.key

\* So is the cover that is reported or will be, and no request replaces it.
CoversKept ==
  /\ event.image # NULL => event.image \in stored \ trash
  /\ \A key \in uploaded : key \in stored \ trash /\ (key = event.image => key = NULL)
  /\ \A w \in Covering : /\ w.old # NULL => w.old \notin uploaded
                         /\ w.key # NULL => /\ w.key \in stored \ trash
                                            /\ w.key # event.image /\ w.key \notin uploaded
  /\ \A v, w \in Covering : w.key # NULL => (v # w => v.key # w.key) /\ v.old # w.key

Pictures == EventRow /\ Keys /\ LogosKept /\ CoversKept

\* Later requests do not make a key newer.
LEMMA MadeStays ==
  ASSUME requests \in Nat, requests' \in Nat, requests <= requests', NEW key, NEW owner, Made(key, owner)
  PROVE  Made(key, owner)'
BY DEF Made

\* A request that ends, an object that goes: nothing that was kept is not.
LEMMA NothingNew ==
  ASSUME Keys, LogosKept, CoversKept, rows' = rows, event'.image = event.image,
         Saving' \subseteq Saving, Covering' \subseteq Covering, uploaded' \subseteq uploaded,
         stored \ trash \subseteq stored' \ trash', trash' \subseteq trash,
         requests' \in Nat, requests <= requests'
  PROVE  Keys' /\ LogosKept' /\ CoversKept'
<1>1. Keys'
  BY DEF Keys, Made
<1>2. LogosKept'
  BY DEF LogosKept
<1>3. CoversKept'
  BY DEF CoversKept
<1> QED
  BY <1>1, <1>2, <1>3

\* What is done to logos does not touch covers, ...
LEMMA CoversApart ==
  ASSUME Keys, CoversKept, event' = event, uploaded' = uploaded, Covering' = Covering,
         stored \subseteq stored', \A key \in trash' : key \in trash \/ key[1] \in Sponsor
  PROVE  CoversKept'
<1>1. ASSUME NEW key, key \in stored \ trash, key[1] = "event"
      PROVE  key \in stored' \ trash'
  BY <1>1, SponsorAssumption
<1> QED
  BY <1>1 DEF CoversKept, Keys, Made

\* ... nor the other way round.
LEMMA LogosApart ==
  ASSUME Keys, LogosKept, rows' = rows, Saving' = Saving,
         stored \subseteq stored', \A key \in trash' : key \in trash \/ key[1] = "event"
  PROVE  LogosKept'
<1>1. ASSUME NEW key, key \in stored \ trash, key[1] \in Sponsor
      PROVE  key \in stored' \ trash'
  BY <1>1, SponsorAssumption
<1> QED
  BY <1>1 DEF LogosKept, Keys, Made

\* One sponsor's row is written: it keeps its logo, or gets the one of a
\* request that is now over; another logo of the sponsor may be dropped.
RowWritten(s, over, dropped) ==
  /\ event' = event /\ uploaded' = uploaded /\ stored' = stored
  /\ Covering' = Covering /\ Saving' = Saving \ over
  /\ requests' \in Nat /\ requests <= requests'
  /\ trash' = trash \cup dropped
  /\ dropped # {} => rows[s] # NULL /\ dropped = {rows[s].logo}
  /\ DOMAIN rows' = Sponsor /\ \A t \in Sponsor : Fields(rows'[t])
  /\ \A t \in Sponsor : t # s => SameLogo(rows[t], rows'[t])
  /\ rows'[s] # NULL =>
       \/ rows[s] # NULL /\ rows'[s].logo = rows[s].logo /\ dropped = {}
       \/ \E w \in over : w.id = s /\ rows'[s].logo = w.key

\* Such a write leaves every row with a logo that is kept.
LEMMA RowsWritten ==
  ASSUME Keys, LogosKept, CoversKept, NEW s \in Sponsor, NEW over \in SUBSET Saving, NEW dropped,
         RowWritten(s, over, dropped)
  PROVE  Keys' /\ LogosKept' /\ CoversKept'
<1> USE DEF RowWritten
<1>1. dropped \subseteq {key \in {rows[s].logo} : Made(key, s)}
  BY DEF Keys
<1>2. ASSUME NEW t \in Sponsor, rows'[t] # NULL
      PROVE  /\ Made(rows'[t].logo, t) /\ rows'[t].logo \in stored' \ trash'
             /\ \A w \in Saving' : rows'[t].logo # w.key
  <2>1. CASE t # s
    <3>1. rows[t] # NULL /\ rows'[t].logo = rows[t].logo
      BY <1>2, <2>1 DEF SameLogo
    <3>2. rows[t].logo \notin dropped
      BY <1>1, <2>1, <3>1 DEF Keys, Made
    <3> QED
      BY <3>1, <3>2 DEF Keys, LogosKept
  <2>2. CASE t = s /\ rows[s] # NULL /\ rows'[s].logo = rows[s].logo /\ dropped = {}
    BY <2>2 DEF Keys, LogosKept
  <2>3. CASE t = s /\ \E w \in over : w.id = s /\ rows'[s].logo = w.key
    <3>1. PICK w \in over : w.id = s /\ rows'[s].logo = w.key
      BY <2>3
    <3>2. w.key \notin dropped
      BY <1>1, <3>1 DEF LogosKept
    <3> QED
      BY <2>3, <3>1, <3>2 DEF Keys, LogosKept
  <2> QED
    BY <1>2, <2>1, <2>2, <2>3
<1>3. Keys'
  <2>1. \A key \in trash' : key[2] \in 0 .. requests
    BY <1>1 DEF Keys, Made
  <2> QED
    BY <1>2, <2>1 DEF Keys, Made
<1>4. LogosKept'
  <2>1. \A w \in Saving' : w.key \notin dropped
    BY <1>1 DEF LogosKept
  <2> QED
    BY <1>2, <2>1 DEF LogosKept
<1>5. CoversKept'
  BY <1>1, CoversApart DEF Made
<1> QED
  BY <1>3, <1>4, <1>5

\* A sponsor's new logo is stored.
LEMMA LogoUploaded ==
  ASSUME Keys, LogosKept, CoversKept, NEW s \in Sponsor, NEW isNew \in BOOLEAN, UploadLogo(s, isNew)
  PROVE  Keys' /\ LogosKept' /\ CoversKept'
<1> DEFINE key == Key(s, This)
           w == [op |-> IF isNew THEN "create" ELSE "update", id |-> s, key |-> key]
<1>1. /\ stored' = stored \cup {key} /\ work' = work \cup {w} /\ requests' = requests + 1
      /\ rows' = rows /\ event' = event /\ uploaded' = uploaded /\ trash' = trash
  BY DEF UploadLogo, Begin, Request, This, db
<1>2. w.op \in {"create", "update"} /\ w.id = s /\ w.key = key
  OBVIOUS
<1>3. key[1] = s /\ key[2] = requests + 1
  BY DEF Key, This
<1> HIDE DEF key, w
<1>4. Saving' = Saving \cup {w} /\ Covering' = Covering
  BY <1>1, <1>2 DEF Saving, Covering
<1>5. /\ key \notin trash
      /\ \A v \in Saving : v.key # key
      /\ \A t \in Sponsor : rows[t] # NULL => rows[t].logo # key
  BY <1>3 DEF Keys, Made
<1>6. Keys'
  BY <1>1, <1>2, <1>3, <1>4 DEF Keys, Made
<1>7. LogosKept'
  BY <1>1, <1>2, <1>4, <1>5 DEF LogosKept
<1>8. CoversKept'
  BY <1>1, <1>4, CoversApart
<1> QED
  BY <1>6, <1>7, <1>8

\* A form's write: its own sponsor's row, and the logo it replaces.
LEMMA FormWrites ==
  ASSUME Keys, LogosKept, CoversKept,
         \/ \E s \in Sponsor, level \in Level, wanted \in Wanted : Edit(s, level, wanted)
         \/ \E w \in work, level \in Level, wanted \in Wanted :
              Create(w, level, wanted) \/ Update(w, level, wanted)
         \/ \E s \in Sponsor : Delete(s) \/ \E wanted \in Wanted : SetPosition(s, wanted)
  PROVE  Keys' /\ LogosKept' /\ CoversKept'
<1>a. requests \in Nat /\ DOMAIN rows = Sponsor /\ \A t \in Sponsor : Fields(rows[t])
  BY DEF Keys
<1>b. \A r, places : DOMAIN Renumber(r, places) = Sponsor
  BY DEF Renumber
<1>1. ASSUME NEW w \in work, NEW level, NEW wanted, Create(w, level, wanted)
      PROVE  Keys' /\ LogosKept' /\ CoversKept'
  <2>1. /\ w \in Saving /\ w.id \in Sponsor
        /\ rows' = Inserted(w.id, level, wanted, w.key) /\ work' = work \ {w}
        /\ event' = event /\ requests' = requests
        /\ stored' = stored /\ uploaded' = uploaded /\ trash' = trash
    BY <1>1 DEF Create, End, Saving, bucket, Keys
  <2>2. Saving' = Saving \ {w} /\ Covering' = Covering
    BY <2>1 DEF Saving, Covering
  <2>3. /\ DOMAIN rows' = Sponsor /\ \A t \in Sponsor : Fields(rows'[t])
        /\ \A t \in Sponsor : t # w.id => SameLogo(rows[t], rows'[t])
        /\ rows'[w.id] # NULL => rows'[w.id].logo = w.key
    <3>1. DOMAIN rows' = Sponsor
      BY <1>b, <2>1 DEF Inserted
    <3> QED
      BY <1>a, <2>1, <3>1, InsertedLogo
  <2>4. RowWritten(w.id, {w}, {})
    BY <1>a, <2>1, <2>2, <2>3 DEF RowWritten
  <2> QED
    BY <2>1, <2>4, RowsWritten
<1>2. ASSUME NEW w \in work, NEW level, NEW wanted, Update(w, level, wanted)
      PROVE  Keys' /\ LogosKept' /\ CoversKept'
  <2>1. /\ w \in Saving /\ w.id \in Sponsor /\ rows[w.id] # NULL
        /\ rows' = Moved(w.id, level, wanted, w.key) /\ work' = work \ {w}
        /\ event' = event /\ requests' = requests
        /\ stored' = stored /\ uploaded' = uploaded /\ trash' = trash \cup {rows[w.id].logo}
    BY <1>2 DEF Update, ReplacedLogo, End, Saving, Keys
  <2>2. Saving' = Saving \ {w} /\ Covering' = Covering
    BY <2>1 DEF Saving, Covering
  <2>3. /\ DOMAIN rows' = Sponsor /\ \A t \in Sponsor : Fields(rows'[t])
        /\ \A t \in Sponsor : t # w.id => SameLogo(rows[t], rows'[t])
        /\ rows'[w.id] # NULL => rows'[w.id].logo = w.key
    <3>1. DOMAIN rows' = Sponsor
      BY <1>b, <2>1 DEF Moved
    <3> QED
      BY <1>a, <2>1, <3>1, MovedLogo
  <2>4. RowWritten(w.id, {w}, {rows[w.id].logo})
    BY <1>a, <2>1, <2>2, <2>3 DEF RowWritten
  <2> QED
    BY <2>1, <2>4, RowsWritten
<1>3. ASSUME NEW s \in Sponsor, NEW level, NEW wanted, Edit(s, level, wanted)
      PROVE  Keys' /\ LogosKept' /\ CoversKept'
  <2>1. /\ rows[s] # NULL /\ rows' = Moved(s, level, wanted, rows[s].logo) /\ work' = work
        /\ event' = event /\ requests' = requests + 1
        /\ stored' = stored /\ uploaded' = uploaded /\ trash' = trash
    BY <1>3 DEF Edit, Request, This, bucket
  <2>2. Saving' = Saving \ {} /\ Covering' = Covering
    BY <2>1 DEF Saving, Covering
  <2>3. /\ DOMAIN rows' = Sponsor /\ \A t \in Sponsor : Fields(rows'[t])
        /\ \A t \in Sponsor : t # s => SameLogo(rows[t], rows'[t])
        /\ rows'[s] # NULL => rows'[s].logo = rows[s].logo
    <3>1. DOMAIN rows' = Sponsor
      BY <1>b, <2>1 DEF Moved
    <3> QED
      BY <1>a, <2>1, <3>1, MovedLogo
  <2>4. RowWritten(s, {}, {})
    BY <1>a, <2>1, <2>2, <2>3 DEF RowWritten
  <2> QED
    BY <2>4, RowsWritten
<1>4. ASSUME NEW s \in Sponsor, NEW wanted, SetPosition(s, wanted)
      PROVE  Keys' /\ LogosKept' /\ CoversKept'
  <2>1. /\ rows[s] # NULL /\ work' = work
        /\ event' = event /\ requests' = requests + 1
        /\ stored' = stored /\ uploaded' = uploaded /\ trash' = trash
    BY <1>4 DEF SetPosition, Request, This, bucket
  <2>2. Saving' = Saving \ {} /\ Covering' = Covering
    BY <2>1 DEF Saving, Covering
  <2>3. /\ DOMAIN rows' = Sponsor /\ \A t \in Sponsor : Fields(rows'[t])
        /\ \A t \in Sponsor : SameLogo(rows[t], rows'[t])
    BY <1>4, <1>a, <1>b, RenumberedLogo DEF SetPosition
  <2>4. rows'[s] # NULL => rows'[s].logo = rows[s].logo
    BY <2>3 DEF SameLogo
  <2>5. RowWritten(s, {}, {})
    BY <1>a, <2>1, <2>2, <2>3, <2>4 DEF RowWritten
  <2> QED
    BY <2>5, RowsWritten
<1>5. ASSUME NEW s \in Sponsor, Delete(s)
      PROVE  Keys' /\ LogosKept' /\ CoversKept'
  <2> DEFINE r == [rows EXCEPT ![s] = NULL]
             places == Order(r, rows[s].level)
  <2>1. /\ rows[s] # NULL /\ work' = work
        /\ event' = event /\ requests' = requests + 1
        /\ stored' = stored /\ uploaded' = uploaded /\ trash' = trash \cup {rows[s].logo}
        /\ rows' = Renumber(r, places)
    BY <1>5 DEF Delete, Request, This
  <2>2. Saving' = Saving \ {} /\ Covering' = Covering
    BY <2>1 DEF Saving, Covering
  <2>3. \A t \in Sponsor : Fields(r[t]) /\ SameLogo(rows[t], r[t])
    BY <1>a DEF Fields, SameLogo
  <2>4. r[s] = NULL
    BY <1>a
  <2> HIDE DEF r, places
  <2>5. /\ DOMAIN rows' = Sponsor /\ \A t \in Sponsor : Fields(rows'[t])
        /\ \A t \in Sponsor : SameLogo(r[t], rows'[t])
    BY <1>b, <2>1, <2>3, RenumberedLogo
  <2>6. rows'[s] = NULL /\ \A t \in Sponsor : SameLogo(rows[t], rows'[t])
    BY <2>3, <2>4, <2>5 DEF SameLogo
  <2>7. RowWritten(s, {}, {rows[s].logo})
    BY <1>a, <2>1, <2>2, <2>5, <2>6 DEF RowWritten
  <2> QED
    BY <2>7, RowsWritten
<1> QED
  BY <1>1, <1>2, <1>3, <1>4, <1>5

\* A request whose transaction failed drops the logo it had stored.
LEMMA UploadDiscarded ==
  ASSUME Keys, LogosKept, CoversKept, NEW w \in work, SaveFails(w)
  PROVE  Keys' /\ LogosKept' /\ CoversKept'
<1>1. /\ w \in Saving /\ work' = work \ {w} /\ trash' = trash \cup {w.key}
      /\ rows' = rows /\ event' = event /\ requests' = requests
      /\ stored' = stored /\ uploaded' = uploaded
  BY DEF SaveFails, Discard, End, Saving, db
<1>2. Saving' = Saving \ {w} /\ Covering' = Covering
  BY <1>1 DEF Saving, Covering
<1>3. Keys'
  BY <1>1, <1>2 DEF Keys, Made
<1>4. LogosKept'
  BY <1>1, <1>2 DEF LogosKept
<1>5. CoversKept'
  BY <1>1, <1>2, CoversApart DEF Keys, Made
<1> QED
  BY <1>3, <1>4, <1>5

\* A cover is put, read for, taken away, or pointed at.
LEMMA CoverWrites ==
  ASSUME EventRow, Keys, LogosKept, CoversKept,
         \/ UploadCover \/ ReadForRemoval
         \/ \E key \in uploaded : ReadForCover(key)
         \/ \E w \in work : SetImageKey(w)
  PROVE  Keys' /\ LogosKept' /\ CoversKept'
<1>1. ASSUME UploadCover
      PROVE  Keys' /\ LogosKept' /\ CoversKept'
  <2> DEFINE key == Cover(This)
  <2>1. /\ stored' = stored \cup {key} /\ uploaded' = uploaded \cup {key} /\ requests' = requests + 1
        /\ rows' = rows /\ event' = event /\ work' = work /\ trash' = trash
    BY <1>1 DEF UploadCover, Request, This, db
  <2>2. key[1] = "event" /\ key[2] = requests + 1
    BY DEF Cover, Key, This
  <2> HIDE DEF key
  <2>3. Saving' = Saving /\ Covering' = Covering
    BY <2>1 DEF Saving, Covering
  <2>4. /\ key \notin trash /\ (event.image # NULL => key # event.image)
        /\ \A w \in Covering : (w.key # NULL => key # w.key) /\ (w.old # NULL => key # w.old)
    BY <2>2 DEF Keys, Made
  <2>5. Keys'
    BY <2>1, <2>2, <2>3 DEF Keys, Made
  <2>6. LogosKept'
    BY <2>1, <2>3, LogosApart
  <2>7. CoversKept'
    BY <2>1, <2>3, <2>4 DEF CoversKept
  <2> QED
    BY <2>5, <2>6, <2>7
<1>2. ASSUME NEW w, w.op = "cover", w.old = event.image, work' = work \cup {w},
             \/ w.key = NULL /\ uploaded' = uploaded
             \/ w.key \in uploaded /\ uploaded' = uploaded \ {w.key},
             rows' = rows, event' = event, stored' = stored, trash' = trash,
             requests' \in Nat, requests <= requests'
      PROVE  Keys' /\ LogosKept' /\ CoversKept'
  <2>1. Saving' = Saving /\ Covering' = Covering \cup {w}
    BY <1>2 DEF Saving, Covering
  <2>2. Keys'
    <3>1. (w.key # NULL => Made(w.key, "event")) /\ (w.old # NULL => Made(w.old, "event"))
      BY <1>2 DEF Keys
    <3> QED
      BY <1>2, <2>1, <3>1 DEF Keys, Made
  <2>3. LogosKept'
    BY <1>2, <2>1, LogosApart
  <2>4. CoversKept'
    BY <1>2, <2>1 DEF CoversKept
  <2> QED
    BY <2>2, <2>3, <2>4
<1>3. ASSUME ReadForRemoval
      PROVE  Keys' /\ LogosKept' /\ CoversKept'
  <2> DEFINE w == [op |-> "cover", key |-> NULL, old |-> event.image]
  <2>1. /\ work' = work \cup {w} /\ requests' = requests + 1
        /\ rows' = rows /\ event' = event /\ stored' = stored /\ trash' = trash /\ uploaded' = uploaded
    BY <1>3 DEF ReadForRemoval, Begin, Request, This, db, bucket
  <2>2. w.op = "cover" /\ w.key = NULL /\ w.old = event.image
    OBVIOUS
  <2>3. requests \in Nat
    BY DEF Keys
  <2> HIDE DEF w
  <2> QED
    BY <1>2, <2>1, <2>2, <2>3
<1>4. ASSUME NEW key \in uploaded, ReadForCover(key)
      PROVE  Keys' /\ LogosKept' /\ CoversKept'
  <2> DEFINE w == [op |-> "cover", key |-> key, old |-> event.image]
  <2>1. /\ work' = work \cup {w} /\ requests' = requests
        /\ rows' = rows /\ event' = event /\ stored' = stored /\ trash' = trash
        /\ uploaded' = uploaded \ {key}
    BY <1>4 DEF ReadForCover, db
  <2>2. w.op = "cover" /\ w.key = key /\ w.old = event.image
    OBVIOUS
  <2>3. requests \in Nat
    BY DEF Keys
  <2> HIDE DEF w
  <2> QED
    BY <1>2, <2>1, <2>2, <2>3
<1>5. ASSUME NEW w \in work, SetImageKey(w)
      PROVE  Keys' /\ LogosKept' /\ CoversKept'
  <2>1. /\ w \in Covering /\ work' = work \ {w} /\ requests' = requests
        /\ event'.image = w.key
        /\ rows' = rows /\ stored' = stored /\ uploaded' = uploaded
        /\ trash' = trash \cup OldCover(w)
    BY <1>5 DEF SetImageKey, End, Covering, EventRow
  <2>2. Saving' = Saving /\ Covering' = Covering \ {w}
    BY <2>1 DEF Saving, Covering
  <2>3. OldCover(w) = {w.old} \ {NULL, w.key}
    BY DEF OldCover
  <2>4. \A key \in OldCover(w) : Made(key, "event")
    BY <2>1, <2>3 DEF Keys
  <2>5. Keys'
    BY <2>1, <2>2, <2>4 DEF Keys, Made
  <2>6. LogosKept'
    BY <2>1, <2>2, <2>4, LogosApart DEF Made
  <2>7. CoversKept'
    BY <2>1, <2>2, <2>3 DEF CoversKept
  <2> QED
    BY <2>5, <2>6, <2>7
<1> QED
  BY <1>1, <1>3, <1>4, <1>5

\* Every action keeps the pictures.
LEMMA PicturesKept == Pictures /\ [Next]_vars => Pictures'
<1> SUFFICES ASSUME Pictures, [Next]_vars PROVE Pictures'
  OBVIOUS
<1>1. EventRow /\ Keys /\ LogosKept /\ CoversKept /\ requests \in Nat
  BY DEF Pictures, Keys
<1>2. EventRow'
  BY <1>1, EventKept
<1>3. ASSUME SponsorStep
      PROVE  Keys' /\ LogosKept' /\ CoversKept'
  <2>1. CASE \E s \in Sponsor, isNew \in BOOLEAN : UploadLogo(s, isNew)
    BY <1>1, <2>1, LogoUploaded
  <2>2. CASE \E w \in work : SaveFails(w)
    BY <1>1, <2>2, UploadDiscarded
  <2> QED
    BY <1>1, <1>3, <2>1, <2>2, FormWrites DEF SponsorStep
<1>4. ASSUME rows' = rows, event'.image = event.image, work' \subseteq work, uploaded' = uploaded,
             stored \ trash \subseteq stored' \ trash', trash' \subseteq trash,
             requests' \in {requests, requests + 1}
      PROVE  Keys' /\ LogosKept' /\ CoversKept'
  BY <1>1, <1>4, NothingNew DEF Saving, Covering
<1>5. ASSUME BucketStep
      PROVE  Keys' /\ LogosKept' /\ CoversKept'
  <2>1. ASSUME NEW key \in trash, DeleteObject(key) \/ DeleteObjectFails(key)
        PROVE  /\ rows' = rows /\ event' = event /\ work' = work /\ uploaded' = uploaded
               /\ stored \ trash \subseteq stored' \ trash' /\ trash' \subseteq trash
               /\ requests' = requests
    BY <2>1 DEF DeleteObject, DeleteObjectFails, db
  <2>2. ASSUME NEW w \in work, Crash(w)
        PROVE  /\ rows' = rows /\ event' = event /\ work' \subseteq work /\ uploaded' = uploaded
               /\ stored' = stored /\ trash' = trash /\ requests' = requests
    BY <2>2 DEF Crash, End, db
  <2> QED
    BY <1>4, <1>5, <2>1, <2>2 DEF BucketStep
<1>6. ASSUME NEW w, Begin(w), w.op \notin {"create", "update", "cover"}, UNCHANGED <<db, bucket>>
      PROVE  Keys' /\ LogosKept' /\ CoversKept'
  <2>1. Saving' = Saving /\ Covering' = Covering
    BY <1>6 DEF Begin, Saving, Covering
  <2>2. requests' = requests + 1
    BY <1>6 DEF Begin, Request, This
  <2>3. /\ rows' = rows /\ event' = event /\ uploaded' = uploaded
        /\ stored' = stored /\ trash' = trash
    BY <1>6 DEF db, bucket
  <2> QED
    BY <1>1, <2>1, <2>2, <2>3, NothingNew
<1>7. ASSUME EventStep
      PROVE  Keys' /\ LogosKept' /\ CoversKept'
  <2>1. ASSUME NEW to \in Status, ReadStatus(to)
        PROVE  Keys' /\ LogosKept' /\ CoversKept'
    <3>1. /\ Begin([op |-> "status", from |-> event.status, to |-> to])
          /\ UNCHANGED <<db, bucket>>
      BY <2>1 DEF ReadStatus
    <3> QED
      BY <1>6, <3>1
  <2>2. ASSUME NEW w \in work, TransitionStatus(w)
        PROVE  Keys' /\ LogosKept' /\ CoversKept'
    <3>1. event'.image = event.image /\ requests' = requests /\ work' \subseteq work
      BY <1>1, <2>2 DEF TransitionStatus, EventRow, End
    <3>2. rows' = rows /\ stored' = stored /\ uploaded' = uploaded /\ trash' = trash
      BY <2>2 DEF TransitionStatus, bucket
    <3> QED
      BY <1>4, <3>1, <3>2
  <2> QED
    BY <1>1, <1>7, <2>1, <2>2, CoverWrites DEF EventStep
<1>8. ASSUME TicketStep
      PROVE  Keys' /\ LogosKept' /\ CoversKept'
  <2>1. ASSUME NEW name \in Name, ReadForRename(name)
        PROVE  Keys' /\ LogosKept' /\ CoversKept'
    <3>1. /\ Begin([op |-> "rename", n |-> This, old |-> ticket.name, name |-> name])
          /\ UNCHANGED <<db, bucket>>
      BY <2>1 DEF ReadForRename
    <3> QED
      BY <1>6, <3>1
  <2>2. ASSUME CancelTicket \/ \E w \in work : Rename(w)
        PROVE  Keys' /\ LogosKept' /\ CoversKept'
    <3>1. /\ rows' = rows /\ event' = event /\ work' \subseteq work /\ uploaded' = uploaded
          /\ stored' = stored /\ trash' = trash /\ requests' \in {requests, requests + 1}
      BY <2>2 DEF CancelTicket, Request, This, Rename, End, bucket
    <3> QED
      BY <1>4, <3>1
  <2> QED
    BY <1>8, <2>1, <2>2 DEF TicketStep
<1>9. ASSUME UNCHANGED vars
      PROVE  Keys' /\ LogosKept' /\ CoversKept'
  BY <1>4, <1>9 DEF vars, db, bucket
<1> QED
  BY <1>2, <1>3, <1>5, <1>7, <1>8, <1>9 DEF Next, Pictures

\* They are kept at first.
LEMMA PicturesFirst == Init => Pictures
<1> SUFFICES ASSUME Init PROVE Pictures
  OBVIOUS
<1>1. PICK level \in [Sponsor -> Level \cup {NULL}] :
        LET first == [s \in Sponsor |-> IF level[s] = NULL THEN NULL
                        ELSE [level |-> level[s], position |-> 0, logo |-> Key(s, 0)]]
            presenting == InLevel(first, "presenting")
            partners == Renumber(first, SetToSeq(InLevel(first, "partner")))
        IN  /\ rows = Renumber(Renumber(partners, SetToSeq(presenting)),
                               SetToSeq(InLevel(first, "supporter")))
            /\ stored = {Cover(0)} \cup {Key(s, 0) : s \in {t \in Sponsor : level[t] # NULL}}
  BY DEF Init
<1> DEFINE first == [s \in Sponsor |-> IF level[s] = NULL THEN NULL
                       ELSE [level |-> level[s], position |-> 0, logo |-> Key(s, 0)]]
           a == SetToSeq(InLevel(first, "partner"))
           b == SetToSeq(InLevel(first, "presenting"))
           c == SetToSeq(InLevel(first, "supporter"))
           one == Renumber(first, a)
           two == Renumber(one, b)
<1>2. rows = Renumber(two, c)
  BY <1>1
<1>3. stored = {Cover(0)} \cup {Key(s, 0) : s \in {t \in Sponsor : level[t] # NULL}}
  BY <1>1
<1>4. /\ event = [status |-> "draft", image |-> Cover(0)]
      /\ work = {} /\ uploaded = {} /\ trash = {} /\ requests = 0
  BY DEF Init
<1>5. \A s \in Sponsor : Fields(first[s]) /\ (first[s] # NULL => level[s] # NULL /\ first[s].logo = Key(s, 0))
  BY DEF Fields
<1> HIDE DEF first, a, b, c
<1>6. DOMAIN rows = Sponsor
  BY <1>2 DEF Renumber
<1>7. \A s \in Sponsor : Fields(one[s]) /\ SameLogo(first[s], one[s])
  BY <1>5, RenumberedLogo
<1> HIDE DEF one
<1>8. \A s \in Sponsor : Fields(two[s]) /\ SameLogo(one[s], two[s])
  BY <1>7, RenumberedLogo
<1> HIDE DEF two
<1>9. \A s \in Sponsor : Fields(rows[s]) /\ SameLogo(two[s], rows[s])
  BY <1>2, <1>8, RenumberedLogo
<1>10. \A s \in Sponsor : rows[s] # NULL => level[s] # NULL /\ rows[s].logo = Key(s, 0)
  BY <1>5, <1>7, <1>8, <1>9 DEF SameLogo
<1>11. Saving = {} /\ Covering = {} /\ event.image = Cover(0) /\ EventRow
  BY <1>4 DEF Saving, Covering, EventRow
<1>12. Keys
  BY <1>4, <1>6, <1>9, <1>10, <1>11 DEF Keys, Made, Key, Cover
<1>13. LogosKept
  BY <1>3, <1>4, <1>10, <1>11 DEF LogosKept
<1>14. CoversKept
  BY <1>3, <1>4, <1>11 DEF CoversKept
<1> QED
  BY <1>11, <1>12, <1>13, <1>14 DEF Pictures

\* What a sponsor's row or the event's row names is in the bucket and nobody is
\* about to delete it: only what a committed write has replaced is, or what no
\* row was given.
THEOREM NoPictureDangles == Spec => []PicturesExist
<1>1. Pictures => PicturesExist
  BY DEF Pictures, LogosKept, CoversKept, PicturesExist
<1> QED
  BY <1>1, PicturesFirst, PicturesKept, PTL DEF Spec
-----------------------------------------------------------------------------
(* The order of sponsors.                                                  *)

RowsTyped(r) == r \in [Sponsor -> SponsorRow \cup {NULL}]

\* Sequence q lists set S, each member once.
Lists(q, S) ==
  /\ q \in [1 .. Cardinality(S) -> S]
  /\ \A i, j \in 1 .. Cardinality(S) : q[i] = q[j] => i = j
  /\ \A x \in S : \E i \in 1 .. Cardinality(S) : q[i] = x

\* By their positions in the rows r.
Sorted(q, r) == \A i, j \in DOMAIN q : i < j => r[q[i]].position <= r[q[j]].position

\* What takes each member once takes them all.
LEMMA ListsAll ==
  ASSUME NEW S, IsFiniteSet(S)
  PROVE  /\ \A q \in SetToSeqs(S) : Lists(q, S)
         /\ \A q : Lists(q, S) => q \in SetToSeqs(S)
<1> DEFINE n == Cardinality(S)
<1>1. n \in Nat
  BY FS_CardinalityType
<1>2. ASSUME NEW q \in SetToSeqs(S)
      PROVE  Lists(q, S)
  <2>1. q \in [1 .. n -> S] /\ \A i, j \in 1 .. n : i # j => q[i] # q[j]
    BY DEF SetToSeqs
  <2>2. IsFiniteSet(1 .. n) /\ Cardinality(1 .. n) = n
    BY <1>1, FS_Interval
  <2>3. q \in Injection(1 .. n, S)
    BY <2>1 DEF Injection, IsInjective
  <2>4. q \in Surjection(1 .. n, S)
    BY <2>2, <2>3, FS_Injection
  <2>5. \A x \in S : \E i \in 1 .. n : q[i] = x
    BY <2>4 DEF Surjection
  <2> QED
    BY <2>1, <2>5 DEF Lists
<1>3. \A q : Lists(q, S) => q \in SetToSeqs(S)
  BY DEF Lists, SetToSeqs
<1> QED
  BY <1>2, <1>3

\* A finite set of sponsors that is not empty has one that comes last.
LEMMA LastExists ==
  ASSUME NEW r, RowsTyped(r), NEW S \in SUBSET Sponsor, S # {}, \A s \in S : r[s] # NULL
  PROVE  \E x \in S : \A y \in S : r[y].position <= r[x].position
<1> DEFINE HasLast(A) == \E x \in A : \A y \in A : r[y].position <= r[x].position
           Bad == {A \in FiniteSubsetsOf(S) : A # {} /\ ~HasLast(A)}
<1>0. IsFiniteSet(S)
  BY SponsorAssumption, FS_Subset
<1>1. SUFFICES ASSUME Bad # {} PROVE FALSE
  BY <1>0 DEF FiniteSubsetsOf
<1>p. \A s \in S : r[s].position \in Int
  BY DEF RowsTyped, SponsorRow
<1>2. PICK A \in Bad : \A B \in Bad : <<B, A>> \notin StrictSubsetOrdering(S)
  <2>1. IsWellFoundedOn(StrictSubsetOrdering(S), FiniteSubsetsOf(S))
    BY FS_StrictSubsetOrderingWellFounded
  <2>2. Bad \subseteq FiniteSubsetsOf(S)
    OBVIOUS
  <2> QED BY <1>1, <2>1, <2>2, WFMin
<1>3. A \in SUBSET S /\ IsFiniteSet(A) /\ A # {} /\ ~HasLast(A)
  BY DEF FiniteSubsetsOf
<1>4. PICK x \in A : TRUE
  BY <1>3
<1>5. A \ {x} # {}
  BY <1>3, <1>4, <1>p
<1>6. A \ {x} \in FiniteSubsetsOf(S)
  BY <1>3, FS_RemoveElement DEF FiniteSubsetsOf
<1>7. <<A \ {x}, A>> \in StrictSubsetOrdering(S)
  BY <1>3, <1>4 DEF StrictSubsetOrdering
<1>8. HasLast(A \ {x})
  BY <1>2, <1>5, <1>6, <1>7
<1>9. PICK n \in A \ {x} : \A m \in A \ {x} : r[m].position <= r[n].position
  BY <1>8
<1>10. r[x].position \in Int /\ r[n].position \in Int /\ \A m \in A : r[m].position \in Int
  BY <1>3, <1>4, <1>9, <1>p
<1>11. CASE r[x].position <= r[n].position
  BY <1>3, <1>9, <1>11
<1>12. CASE r[n].position < r[x].position
  <2>1. \A m \in A : r[m].position <= r[x].position
    BY <1>9, <1>10, <1>12
  <2> QED BY <1>3, <1>4, <2>1
<1> QED BY <1>10, <1>11, <1>12

\* So they can be listed in the order of their positions.
LEMMA OrderExists ==
  ASSUME NEW r, RowsTyped(r), NEW S \in SUBSET Sponsor, \A s \in S : r[s] # NULL
  PROVE  \E q \in SetToSeqs(S) : Sorted(q, r)
<1> DEFINE HasOrder(A) == \E q \in SetToSeqs(A) : Sorted(q, r)
           Bad == {A \in FiniteSubsetsOf(S) : ~HasOrder(A)}
<1>0. IsFiniteSet(S)
  BY SponsorAssumption, FS_Subset
<1>1. SUFFICES ASSUME Bad # {} PROVE FALSE
  BY <1>0 DEF FiniteSubsetsOf
<1>2. PICK A \in Bad : \A B \in Bad : <<B, A>> \notin StrictSubsetOrdering(S)
  <2>1. IsWellFoundedOn(StrictSubsetOrdering(S), FiniteSubsetsOf(S))
    BY FS_StrictSubsetOrderingWellFounded
  <2>2. Bad \subseteq FiniteSubsetsOf(S)
    OBVIOUS
  <2> QED BY <1>1, <2>1, <2>2, WFMin
<1>3. A \in SUBSET S /\ IsFiniteSet(A) /\ ~HasOrder(A)
  BY DEF FiniteSubsetsOf
<1>4. A # {}
  <2> SUFFICES ASSUME A = {} PROVE FALSE
    OBVIOUS
  <2>1. Cardinality(A) = 0
    BY FS_EmptySet
  <2>2. <<>> \in SetToSeqs(A) /\ Sorted(<<>>, r)
    BY <2>1 DEF SetToSeqs, Sorted
  <2> QED
    BY <1>3, <2>2
<1>5. PICK x \in A : \A y \in A : r[y].position <= r[x].position
  BY <1>3, <1>4, LastExists
<1>6. A \ {x} \in FiniteSubsetsOf(S) /\ IsFiniteSet(A \ {x})
  BY <1>3, FS_RemoveElement DEF FiniteSubsetsOf
<1>7. <<A \ {x}, A>> \in StrictSubsetOrdering(S)
  BY <1>3, <1>5 DEF StrictSubsetOrdering
<1>8. PICK q \in SetToSeqs(A \ {x}) : Sorted(q, r)
  BY <1>2, <1>6, <1>7
<1> DEFINE n == Cardinality(A \ {x})
           p == [i \in 1 .. n + 1 |-> IF i = n + 1 THEN x ELSE q[i]]
<1>9. n \in Nat /\ Cardinality(A) = n + 1
  <2>1. n \in Nat /\ Cardinality(A) \in Nat /\ n = Cardinality(A) - 1
    BY <1>3, <1>5, <1>6, FS_RemoveElement, FS_CardinalityType
  <2> QED
    BY <2>1
<1>10. q \in [1 .. n -> A \ {x}] /\ \A i, j \in 1 .. n : i # j => q[i] # q[j]
  BY <1>8 DEF SetToSeqs
<1> HIDE DEF n
<1>11. p \in [1 .. n + 1 -> A]
  BY <1>5, <1>9, <1>10
<1>12. \A i, j \in 1 .. n + 1 : i # j => p[i] # p[j]
  BY <1>9, <1>10
<1>13. Sorted(p, r)
  <2> SUFFICES ASSUME NEW i \in 1 .. n + 1, NEW j \in 1 .. n + 1, i < j
               PROVE  r[p[i]].position <= r[p[j]].position
    BY DEF Sorted
  <2>1. i \in 1 .. n /\ p[i] = q[i] /\ p[i] \in A
    BY <1>9, <1>10
  <2>2. CASE j = n + 1
    BY <1>5, <2>1, <2>2
  <2>3. CASE j # n + 1
    BY <1>8, <1>9, <1>10, <2>1, <2>3 DEF Sorted
  <2> QED
    BY <2>2, <2>3
<1>14. p \in SetToSeqs(A)
  BY <1>9, <1>11, <1>12 DEF SetToSeqs
<1> QED
  BY <1>3, <1>13, <1>14

\* DISPLAY_ORDER lists them so.
LEMMA ByPositionLists ==
  ASSUME NEW r, RowsTyped(r), NEW S \in SUBSET Sponsor, \A s \in S : r[s] # NULL
  PROVE  /\ Lists(ByPosition(r, S), S) /\ Sorted(ByPosition(r, S), r)
         /\ IsFiniteSet(S) /\ Cardinality(S) \in Nat
<1>1. IsFiniteSet(S) /\ Cardinality(S) \in Nat
  BY SponsorAssumption, FS_Subset, FS_CardinalityType
<1>2. \E q \in SetToSeqs(S) :
        \A i, j \in DOMAIN q : i < j => r[q[i]].position <= r[q[j]].position
  BY OrderExists DEF Sorted
<1>3. ByPosition(r, S) \in SetToSeqs(S) /\ Sorted(ByPosition(r, S), r)
  BY <1>2 DEF ByPosition, Sorted
<1> QED
  BY <1>1, <1>3, ListsAll

\* A sponsor is put between those before its place and those after it.
LEMMA PlaceInLists ==
  ASSUME NEW S, IsFiniteSet(S), NEW q, Lists(q, S), NEW x, x \notin S,
         NEW wanted \in Int \cup {NULL}
  PROVE  LET p == PlaceIn(q, x, wanted)
             n == Cardinality(S)
         IN  /\ Cardinality(S \cup {x}) = n + 1 /\ n \in Nat
             /\ Lists(p, S \cup {x})
             /\ \A i, j \in 1 .. n + 1, k, l \in 1 .. n :
                  p[i] = q[k] /\ p[j] = q[l] => (i < j <=> k < l)
<1> DEFINE n == Cardinality(S)
           p == PlaceIn(q, x, wanted)
           place == IF wanted = NULL \/ wanted > n + 1 THEN n + 1
                    ELSE IF wanted < 1 THEN 1 ELSE wanted
<1>1. n \in Nat /\ Cardinality(S \cup {x}) = n + 1
  BY FS_CardinalityType, FS_AddElement
<1>2. /\ q \in [1 .. n -> S] /\ \A i, j \in 1 .. n : q[i] = q[j] => i = j
      /\ \A y \in S : \E i \in 1 .. n : q[i] = y
  BY DEF Lists
<1> HIDE DEF n
<1>3. q \in Seq(S) /\ Len(q) = n
  BY <1>1, <1>2
<1>4. place \in 1 .. n + 1
  BY <1>1
<1>5. p = SubSeq(q, 1, place - 1) \o <<x>> \o SubSeq(q, place, n)
  BY <1>3 DEF PlaceIn, InsertAt
<1> HIDE DEF place, p
<1> DEFINE a == SubSeq(q, 1, place - 1)
           b == SubSeq(q, place, n)
<1>6. /\ a \in Seq(S) /\ Len(a) = place - 1
      /\ \A i \in 1 .. place - 1 : a[i] = q[i]
  BY <1>1, <1>3, <1>4, SubSeqProperties
<1>7. /\ b \in Seq(S) /\ Len(b) = n + 1 - place
      /\ \A i \in 1 .. n + 1 - place : b[i] = q[place + i - 1]
  BY <1>1, <1>3, <1>4, SubSeqProperties
<1> HIDE DEF a, b
<1> DEFINE T == S \cup {x}
<1>8. a \in Seq(T) /\ b \in Seq(T) /\ <<x>> \in Seq(T)
  BY <1>6, <1>7, SeqDef
<1> DEFINE c == a \o <<x>>
<1>9. /\ c \in Seq(T) /\ Len(c) = place
      /\ \A i \in 1 .. place : c[i] = IF i = place THEN x ELSE a[i]
  BY <1>4, <1>6, <1>8
<1> HIDE DEF c
<1>10. /\ p \in Seq(T) /\ Len(p) = n + 1
       /\ \A i \in 1 .. n + 1 : p[i] = IF i <= place THEN c[i] ELSE b[i - place]
  BY <1>1, <1>4, <1>5, <1>7, <1>8, <1>9 DEF a, b, c
<1>11. \A i \in 1 .. n + 1 : p[i] = IF i < place THEN q[i] ELSE IF i = place THEN x ELSE q[i - 1]
  <2> SUFFICES ASSUME NEW i \in 1 .. n + 1
               PROVE  p[i] = IF i < place THEN q[i] ELSE IF i = place THEN x ELSE q[i - 1]
    OBVIOUS
  <2>1. CASE i <= place
    BY <1>1, <1>4, <1>6, <1>9, <1>10, <2>1
  <2>2. CASE i > place
    <3>1. p[i] = b[i - place] /\ i - place \in 1 .. n + 1 - place
      BY <1>1, <1>4, <1>10, <2>2
    <3>2. b[i - place] = q[place + (i - place) - 1]
      BY <1>7, <3>1
    <3> QED
      BY <1>1, <1>4, <2>2, <3>1, <3>2
  <2> QED
    BY <1>1, <1>4, <2>1, <2>2
<1>12. p \in [1 .. n + 1 -> T]
  BY <1>10
<1>13. ASSUME NEW i \in 1 .. n + 1, NEW j \in 1 .. n + 1, p[i] = p[j]
       PROVE  i = j
  <2>1. \A m \in 1 .. n : q[m] # x
    BY <1>2
  <2> QED
    BY <1>1, <1>2, <1>4, <1>11, <1>13, <2>1
<1>14. ASSUME NEW y \in T
       PROVE  \E i \in 1 .. n + 1 : p[i] = y
  <2>1. CASE y = x
    BY <1>4, <1>11, <2>1
  <2>2. CASE y \in S
    <3>1. PICK m \in 1 .. n : q[m] = y
      BY <1>2, <2>2
    <3>2. CASE m < place
      BY <1>1, <1>11, <3>1, <3>2
    <3>3. CASE m >= place
      <4>1. m + 1 \in 1 .. n + 1 /\ ~(m + 1 < place) /\ m + 1 # place /\ (m + 1) - 1 = m
        BY <1>1, <1>4, <3>3
      <4> QED
        BY <1>11, <3>1, <4>1
    <3> QED
      BY <1>4, <3>2, <3>3
  <2> QED
    BY <2>1, <2>2
<1>15. ASSUME NEW i \in 1 .. n + 1, NEW j \in 1 .. n + 1, NEW k \in 1 .. n, NEW l \in 1 .. n,
              p[i] = q[k], p[j] = q[l]
       PROVE  i < j <=> k < l
  <2>1. \A h \in 1 .. n + 1, m \in 1 .. n :
          p[h] = q[m] => h = IF m < place THEN m ELSE m + 1
    <3> SUFFICES ASSUME NEW h \in 1 .. n + 1, NEW m \in 1 .. n, p[h] = q[m]
                 PROVE  h = IF m < place THEN m ELSE m + 1
      OBVIOUS
    <3>1. q[m] # x
      BY <1>2
    <3> QED
      BY <1>1, <1>2, <1>4, <1>11, <3>1
  <2>2. /\ i = IF k < place THEN k ELSE k + 1
        /\ j = IF l < place THEN l ELSE l + 1
    BY <1>15, <2>1
  <2> QED
    BY <1>1, <1>4, <2>2
<1>16. Lists(p, T)
  BY <1>1, <1>12, <1>13, <1>14 DEF Lists, n
<1> QED
  BY <1>1, <1>15, <1>16 DEF n, p

\* Positions 1..n in the order of a list, and nothing else.
LEMMA RenumberIs ==
  ASSUME NEW r, RowsTyped(r), NEW S \in SUBSET Sponsor, \A t \in S : r[t] # NULL,
         NEW q, Lists(q, S)
  PROVE  LET z == Renumber(r, q)
             n == Cardinality(S)
         IN  /\ RowsTyped(z)
             /\ \A t \in Sponsor : t \notin S => z[t] = r[t]
             /\ \A i \in 1 .. n : q[i] \in S /\ z[q[i]].position = i
             /\ \A t \in S : z[t] # NULL /\ z[t].level = r[t].level
<1> DEFINE z == Renumber(r, q)
           n == Cardinality(S)
           Place(t) == CHOOSE m \in DOMAIN q : q[m] = t
<1>1. /\ q \in [1 .. n -> S] /\ \A i, j \in 1 .. n : q[i] = q[j] => i = j
      /\ \A x \in S : \E i \in 1 .. n : q[i] = x
  BY DEF Lists
<1>2. n \in Nat
  BY SponsorAssumption, FS_Subset, FS_CardinalityType
<1> HIDE DEF n
<1>3. \A t \in S : Place(t) \in 1 .. n /\ q[Place(t)] = t
  BY <1>1
<1>4. \A i \in 1 .. n : Place(q[i]) = i
  BY <1>1, <1>3
<1>5. \A t \in Sponsor : z[t] = IF r[t] # NULL /\ \E m \in DOMAIN q : q[m] = t
                                  THEN [r[t] EXCEPT !.position = Place(t)] ELSE r[t]
  BY DEF Renumber
<1>6. DOMAIN z = Sponsor /\ z = [t \in Sponsor |-> z[t]]
  BY DEF Renumber
<1> DEFINE Put(t) == [r[t] EXCEPT !.position = Place(t)]
<1>a. \A t \in Sponsor : z[t] = IF r[t] # NULL /\ \E m \in DOMAIN q : q[m] = t THEN Put(t) ELSE r[t]
  BY <1>5
<1> HIDE DEF z, Place, Put
<1>7. \A t \in Sponsor : t \notin S => z[t] = r[t]
  BY <1>1, <1>a
<1>8. \A t \in S : z[t] = [r[t] EXCEPT !.position = Place(t)]
  <2> SUFFICES ASSUME NEW t \in S PROVE z[t] = [r[t] EXCEPT !.position = Place(t)]
    OBVIOUS
  <2>1. \E m \in DOMAIN q : q[m] = t
    BY <1>1
  <2> QED
    BY <1>a, <2>1 DEF Put
<1>9. \A t \in S : r[t] \in SponsorRow
  BY DEF RowsTyped
<1>10. \A t \in S : /\ z[t] \in SponsorRow /\ z[t].level = r[t].level
                    /\ z[t].position = Place(t)
  <2> SUFFICES ASSUME NEW t \in S
               PROVE  z[t] \in SponsorRow /\ z[t].level = r[t].level /\ z[t].position = Place(t)
    OBVIOUS
  <2>1. Place(t) \in Int
    BY <1>2, <1>3
  <2>2. r[t] \in [level : Level, position : Int, logo : Sponsor \X Nat]
    BY <1>9 DEF SponsorRow
  <2>3. z[t] = [r[t] EXCEPT !.position = Place(t)]
    BY <1>8
  <2> HIDE DEF Level
  <2> QED
    BY <2>1, <2>2, <2>3 DEF SponsorRow
<1>11. RowsTyped(z)
  BY <1>6, <1>7, <1>10 DEF RowsTyped
<1>12. \A t \in S : z[t] # NULL
  BY <1>10, NullAssumption
<1>13. \A i \in 1 .. n : q[i] \in S
  BY <1>1
<1> QED
  BY <1>4, <1>7, <1>8, <1>10, <1>11, <1>12, <1>13 DEF z, n

\* The positions of the sponsors S are 1..n.
Dense(r, S) == {r[t].position : t \in S} = 1 .. Cardinality(S)

\* Then no two of them are the same.
LEMMA DenseApart ==
  ASSUME NEW r, NEW S \in SUBSET Sponsor, Dense(r, S)
  PROVE  \A a, b \in S : r[a].position = r[b].position => a = b
<1> DEFINE n == Cardinality(S)
           f == [t \in S |-> r[t].position]
<1>1. IsFiniteSet(S) /\ n \in Nat
  BY SponsorAssumption, FS_Subset, FS_CardinalityType
<1>2. IsFiniteSet(1 .. n) /\ Cardinality(1 .. n) = n
  BY <1>1, FS_Interval
<1>3. f \in Surjection(S, 1 .. n)
  BY DEF Surjection, Dense
<1> HIDE DEF n, f
<1>4. f \in Injection(S, 1 .. n)
  BY <1>1, <1>2, <1>3, FS_Surjection DEF n
<1> USE DEF f
<1> QED
  BY <1>4 DEF Injection, IsInjective

\* A list gives its sponsors dense positions.
LEMMA RenumberDense ==
  ASSUME NEW r, RowsTyped(r), NEW S \in SUBSET Sponsor, \A t \in S : r[t] # NULL,
         NEW q, Lists(q, S)
  PROVE  Dense(Renumber(r, q), S)
<1> DEFINE z == Renumber(r, q)
           n == Cardinality(S)
<1>1. \A i \in 1 .. n : q[i] \in S /\ z[q[i]].position = i
  BY RenumberIs
<1>2. \A x \in S : \E i \in 1 .. n : q[i] = x
  BY DEF Lists
<1> HIDE DEF z, n
<1> QED
  BY <1>1, <1>2 DEF Dense, z, n

\* Every sponsor but s stays in its level, ...
SameLevels(r, z, s) ==
  \A t \in Sponsor \ {s} : (z[t] = NULL <=> r[t] = NULL) /\ (r[t] # NULL => z[t].level = r[t].level)

\* ... and any two others of a level stay in their order.
KeepsOrder(r, z, s) ==
  \A a, b \in Sponsor \ {s} :
    /\ r[a] # NULL /\ r[b] # NULL /\ z[a] # NULL /\ z[b] # NULL
    /\ r[a].level = r[b].level
    /\ z[a].level = r[a].level /\ z[b].level = r[b].level
    => ((r[a].position < r[b].position) <=> (z[a].position < z[b].position))

\* No two of these are at one position.
Apart(r, S) == \A a, b \in S : r[a].position = r[b].position => a = b

\* Places in a sorted list are as the positions are.
LEMMA SortedPlaces ==
  ASSUME NEW r, RowsTyped(r), NEW S \in SUBSET Sponsor, \A t \in S : r[t] # NULL, Apart(r, S),
         NEW q, Lists(q, S), Sorted(q, r),
         NEW k \in 1 .. Cardinality(S), NEW l \in 1 .. Cardinality(S)
  PROVE  k < l <=> r[q[k]].position < r[q[l]].position
<1> DEFINE n == Cardinality(S)
<1>1. n \in Nat
  BY SponsorAssumption, FS_Subset, FS_CardinalityType
<1>2. q \in [1 .. n -> S] /\ \A i, j \in 1 .. n : q[i] = q[j] => i = j
  BY DEF Lists
<1> HIDE DEF n
<1>3. \A i, j \in 1 .. n : i < j => r[q[i]].position <= r[q[j]].position
  BY <1>2 DEF Sorted
<1>4. k \in 1 .. n /\ l \in 1 .. n
  BY DEF n
<1>5. /\ q[k] \in S /\ q[l] \in S /\ r[q[k]] \in SponsorRow /\ r[q[l]] \in SponsorRow
      /\ r[q[k]].position = r[q[l]].position => k = l
  BY <1>2, <1>4 DEF RowsTyped, Apart
<1>6. r[q[k]].position \in Int /\ r[q[l]].position \in Int
  BY <1>5 DEF SponsorRow
<1>7. /\ k < l => r[q[k]].position <= r[q[l]].position
      /\ l < k => r[q[l]].position <= r[q[k]].position
  BY <1>3, <1>4
<1> QED
  BY <1>1, <1>4, <1>5, <1>6, <1>7

\* A sponsor is put in its place: it alone moves.
LEMMA PlacedKeeps ==
  ASSUME NEW r, RowsTyped(r), NEW s \in Sponsor, NEW new \in SponsorRow,
         Apart(r, InLevel(r, new.level) \ {s}), NEW wanted \in Int \cup {NULL},
         NEW next \in [Sponsor -> SponsorRow \cup {NULL}], next[s] = new,
         \A t \in Sponsor \ {s} : next[t] = r[t],
         NEW z, z = Renumber(next, PlaceIn(ByPosition(r, InLevel(r, new.level) \ {s}), s, wanted))
  PROVE  /\ RowsTyped(z) /\ z[s] # NULL /\ z[s].level = new.level
         /\ SameLevels(r, z, s) /\ KeepsOrder(r, z, s)
         /\ InLevel(z, new.level) = InLevel(r, new.level) \cup {s}
         /\ Dense(z, InLevel(z, new.level))
         /\ \A level \in Level \ {new.level} :
              /\ InLevel(z, level) = InLevel(r, level) \ {s}
              /\ \A t \in InLevel(z, level) : z[t] = r[t]
<1> DEFINE S == InLevel(r, new.level) \ {s}
           n == Cardinality(S)
           q == ByPosition(r, S)
           p == PlaceIn(q, s, wanted)
           T == S \cup {s}
<1>1. S \in SUBSET Sponsor /\ \A t \in S : r[t] # NULL /\ r[t].level = new.level
  BY DEF InLevel
<1>a. \A t \in Sponsor \ {s} : r[t] # NULL /\ t \notin S => r[t].level # new.level
  BY DEF InLevel
<1>b. Apart(r, S)
  OBVIOUS
<1>c. s \notin S
  OBVIOUS
<1>d. z = Renumber(next, p)
  OBVIOUS
<1> HIDE DEF S
<1>2. Lists(q, S) /\ Sorted(q, r) /\ IsFiniteSet(S) /\ n \in Nat
  BY <1>1, ByPositionLists
<1>3. new # NULL
  BY NullAssumption
<1> HIDE DEF q
<1>4. /\ Cardinality(T) = n + 1 /\ Lists(p, T)
      /\ \A i, j \in 1 .. n + 1, k, l \in 1 .. n :
           p[i] = q[k] /\ p[j] = q[l] => (i < j <=> k < l)
  BY <1>2, <1>c, PlaceInLists
<1> HIDE DEF p
<1>5. T \in SUBSET Sponsor /\ \A t \in T : next[t] # NULL
  BY <1>1, <1>3
<1>6. RowsTyped(next)
  BY <1>3 DEF RowsTyped
<1> HIDE DEF T
<1>7. /\ RowsTyped(Renumber(next, p))
      /\ \A t \in Sponsor : t \notin T => Renumber(next, p)[t] = next[t]
      /\ \A i \in 1 .. Cardinality(T) : p[i] \in T /\ Renumber(next, p)[p[i]].position = i
      /\ \A t \in T : /\ Renumber(next, p)[t] # NULL
                      /\ Renumber(next, p)[t].level = next[t].level
  BY <1>4, <1>5, <1>6, RenumberIs
<1>e. /\ RowsTyped(z)
      /\ \A t \in Sponsor : t \notin T => z[t] = next[t]
      /\ \A t \in T : z[t] # NULL /\ z[t].level = next[t].level
  BY <1>d, <1>7
<1>f. \A i \in 1 .. n + 1 : p[i] \in T /\ z[p[i]].position = i
  BY <1>d, <1>4, <1>7
<1>g. \A x \in T : \E i \in 1 .. n + 1 : p[i] = x
  BY <1>4 DEF Lists
<1>8. Dense(z, T)
  BY <1>4, <1>5, <1>6, <1>d, RenumberDense
<1> USE DEF T
<1>9. \A t \in Sponsor \ {s} : IF t \in S THEN z[t] # NULL /\ z[t].level = r[t].level ELSE z[t] = r[t]
  <2> SUFFICES ASSUME NEW t \in Sponsor, t # s
               PROVE  IF t \in S THEN z[t] # NULL /\ z[t].level = r[t].level ELSE z[t] = r[t]
    OBVIOUS
  <2>1. next[t] = r[t]
    BY <1>3
  <2>2. t \in T <=> t \in S
    OBVIOUS
  <2> QED
    BY <1>e, <2>1, <2>2
<1>10. z[s] # NULL /\ z[s].level = new.level
  BY <1>3, <1>e
<1>11. SameLevels(r, z, s)
  BY <1>1, <1>9 DEF SameLevels
<1>12. InLevel(z, new.level) = T
  <2>1. \A t \in Sponsor : t \in T <=> z[t] # NULL /\ z[t].level = new.level
    BY <1>1, <1>a, <1>c, <1>9, <1>10
  <2> QED
    BY <1>5, <2>1 DEF InLevel
<1>13. T = InLevel(r, new.level) \cup {s}
  BY DEF S
<1>14. ASSUME NEW level \in Level \ {new.level}
       PROVE  /\ InLevel(z, level) = InLevel(r, level) \ {s}
              /\ \A t \in InLevel(z, level) : z[t] = r[t]
  <2>1. \A t \in Sponsor \ {s} : t \in S => z[t] # NULL /\ r[t] # NULL /\ z[t].level # level /\ r[t].level # level
    BY <1>1, <1>9
  <2>2. \A t \in Sponsor \ {s} : t \notin S => z[t] = r[t]
    BY <1>9
  <2>3. s \notin InLevel(z, level)
    BY <1>10 DEF InLevel
  <2>4. \A t \in InLevel(z, level) : t # s /\ t \notin S /\ z[t] = r[t] /\ t \in InLevel(r, level)
    BY <2>1, <2>2, <2>3 DEF InLevel
  <2>5. \A t \in InLevel(r, level) \ {s} : t \in InLevel(z, level)
    BY <2>1, <2>2 DEF InLevel
  <2> QED
    BY <2>4, <2>5
<1>15. KeepsOrder(r, z, s)
  <2> SUFFICES ASSUME NEW a \in Sponsor \ {s}, NEW b \in Sponsor \ {s},
                      r[a] # NULL, r[b] # NULL, r[a].level = r[b].level
               PROVE  (r[a].position < r[b].position) <=> (z[a].position < z[b].position)
    BY DEF KeepsOrder
  <2>1. CASE r[a].level # new.level
    <3>1. a \notin S /\ b \notin S
      BY <1>1, <2>1
    <3> QED
      BY <1>9, <3>1
  <2>2. CASE r[a].level = new.level
    <3>1. a \in S /\ b \in S
      BY <1>a, <2>2
    <3>2. PICK k \in 1 .. n, l \in 1 .. n : q[k] = a /\ q[l] = b
      BY <1>2, <3>1 DEF Lists
    <3>3. PICK i \in 1 .. n + 1, j \in 1 .. n + 1 : p[i] = a /\ p[j] = b
      BY <1>g, <3>1
    <3>4. z[a].position = i /\ z[b].position = j
      BY <1>f, <3>3
    <3>5. k < l <=> r[a].position < r[b].position
      BY <1>1, <1>2, <1>b, <3>2, SortedPlaces
    <3>6. i < j <=> k < l
      BY <1>4, <3>2, <3>3
    <3> QED
      BY <3>4, <3>5, <3>6
  <2> QED
    BY <2>1, <2>2
<1> QED
  BY <1>e, <1>8, <1>10, <1>11, <1>12, <1>13, <1>14, <1>15

\* The rows with sponsor s in its place, before a gap is closed.
Put(r, s, new, wanted) == Renumber([r EXCEPT ![s] = new], PlaceIn(Others(r, new.level, s), s, wanted))

\* What they are like.
WellPut(r, s, level, z) ==
  /\ RowsTyped(z) /\ z[s] # NULL /\ z[s].level = level
  /\ SameLevels(r, z, s) /\ KeepsOrder(r, z, s)
  /\ InLevel(z, level) = InLevel(r, level) \cup {s}
  /\ Dense(z, InLevel(z, level))
  /\ \A l \in Level \ {level} :
       /\ InLevel(z, l) = InLevel(r, l) \ {s}
       /\ \A t \in InLevel(z, l) : z[t] = r[t]

\* The rows with a sponsor in its place are as WellPut says.
LEMMA PutWell ==
  ASSUME NEW r, RowsTyped(r), NEW s \in Sponsor, NEW new \in SponsorRow,
         Apart(r, InLevel(r, new.level) \ {s}), NEW wanted \in Int \cup {NULL}
  PROVE  WellPut(r, s, new.level, Put(r, s, new, wanted))
<1> DEFINE next == [r EXCEPT ![s] = new]
           z == Put(r, s, new, wanted)
<1>1. /\ next \in [Sponsor -> SponsorRow \cup {NULL}] /\ next[s] = new
      /\ \A t \in Sponsor \ {s} : next[t] = r[t]
  BY DEF RowsTyped
<1>2. z = Renumber(next, PlaceIn(ByPosition(r, InLevel(r, new.level) \ {s}), s, wanted))
  BY DEF Put, Others
<1> HIDE DEF next, z
<1>3. RowsTyped(z) /\ z[s] # NULL /\ z[s].level = new.level
  BY <1>1, <1>2, PlacedKeeps
<1>4. SameLevels(r, z, s)
  BY <1>1, <1>2, PlacedKeeps
<1>5. KeepsOrder(r, z, s)
  BY <1>1, <1>2, PlacedKeeps
<1>6. InLevel(z, new.level) = InLevel(r, new.level) \cup {s}
  BY <1>1, <1>2, PlacedKeeps
<1>7. Dense(z, InLevel(z, new.level))
  BY <1>1, <1>2, PlacedKeeps
<1>8. \A l \in Level \ {new.level} : InLevel(z, l) = InLevel(r, l) \ {s}
  BY <1>1, <1>2, PlacedKeeps
<1>9. \A l \in Level \ {new.level} : \A t \in InLevel(z, l) : z[t] = r[t]
  BY <1>1, <1>2, PlacedKeeps
<1>10. WellPut(r, s, new.level, z)
  BY <1>3, <1>4, <1>5, <1>6, <1>7, <1>8, <1>9 DEF WellPut
<1> QED
  BY <1>10 DEF z

\* A gap is closed: nobody moves past anybody.
WellClosed(r, level, z) ==
  /\ RowsTyped(z) /\ Dense(z, InLevel(z, level))
  /\ \A s : SameLevels(r, z, s) /\ KeepsOrder(r, z, s)
  /\ \A l : InLevel(z, l) = InLevel(r, l)
  /\ \A t \in Sponsor : r[t] # NULL => z[t] # NULL
  /\ \A t \in Sponsor : t \notin InLevel(r, level) => z[t] = r[t]

\* A level listed by its positions and numbered afresh is as WellClosed says.
LEMMA GapClosed ==
  ASSUME NEW r, RowsTyped(r), NEW level, Apart(r, InLevel(r, level))
  PROVE  WellClosed(r, level, Renumber(r, Order(r, level)))
<1> DEFINE z == Renumber(r, Order(r, level))
<1> DEFINE S == InLevel(r, level)
           n == Cardinality(S)
           q == ByPosition(r, S)
<1>1. S \in SUBSET Sponsor /\ \A t \in S : r[t] # NULL /\ r[t].level = level
  BY DEF InLevel
<1>2. z = Renumber(r, q)
  BY DEF Order
<1>a. \A t \in Sponsor : r[t] # NULL /\ t \notin S => r[t].level # level
  BY DEF InLevel
<1> HIDE DEF S, z
<1>3. Lists(q, S) /\ Sorted(q, r) /\ IsFiniteSet(S) /\ n \in Nat
  BY <1>1, ByPositionLists
<1>4. Apart(r, S)
  BY DEF S
<1> HIDE DEF q
<1>5. /\ RowsTyped(z)
      /\ \A t \in Sponsor : t \notin S => z[t] = r[t]
      /\ \A i \in 1 .. n : q[i] \in S /\ z[q[i]].position = i
      /\ \A t \in S : z[t] # NULL /\ z[t].level = r[t].level
  BY <1>1, <1>2, <1>3, RenumberIs
<1>6. Dense(z, S)
  BY <1>1, <1>2, <1>3, RenumberDense
<1>7. \A t \in Sponsor : (z[t] = NULL <=> r[t] = NULL) /\ (r[t] # NULL => z[t].level = r[t].level)
  BY <1>1, <1>5
<1>8. \A l : InLevel(z, l) = InLevel(r, l)
  BY <1>7 DEF InLevel
<1>9. ASSUME NEW s
      PROVE  KeepsOrder(r, z, s)
  <2> SUFFICES ASSUME NEW a \in Sponsor, NEW b \in Sponsor,
                      r[a] # NULL, r[b] # NULL, r[a].level = r[b].level
               PROVE  (r[a].position < r[b].position) <=> (z[a].position < z[b].position)
    BY DEF KeepsOrder
  <2>1. CASE a \notin S
    <3>1. b \notin S
      BY <1>1, <1>a, <2>1
    <3> QED
      BY <1>5, <2>1, <3>1
  <2>2. CASE a \in S
    <3>1. b \in S
      BY <1>1, <1>a, <2>2
    <3>2. PICK k \in 1 .. n, l \in 1 .. n : q[k] = a /\ q[l] = b
      BY <1>3, <2>2, <3>1 DEF Lists
    <3>3. z[a].position = k /\ z[b].position = l
      BY <1>5, <3>2
    <3>4. k < l <=> r[a].position < r[b].position
      BY <1>1, <1>3, <1>4, <3>2, SortedPlaces
    <3> QED
      BY <3>3, <3>4
  <2> QED
    BY <2>1, <2>2
<1>10. \A s : SameLevels(r, z, s)
  BY <1>7 DEF SameLevels
<1>11. \A s : SameLevels(r, z, s) /\ KeepsOrder(r, z, s)
  BY <1>9, <1>10
<1>12. Dense(z, InLevel(z, level))
  BY <1>6, <1>8 DEF S
<1>13. \A t \in Sponsor : r[t] # NULL => z[t] # NULL
  BY <1>7
<1>14. \A t \in Sponsor : t \notin InLevel(r, level) => z[t] = r[t]
  BY <1>5 DEF S
<1>15. WellClosed(r, level, z)
  BY <1>5, <1>8, <1>11, <1>12, <1>13, <1>14 DEF WellClosed
<1> QED
  BY <1>15 DEF z

\* Two changes one after the other, of which the second leaves the levels.
LEMMA OrderThrough ==
  ASSUME NEW r, NEW x, NEW z, NEW s, KeepsOrder(r, x, s), KeepsOrder(x, z, s), SameLevels(x, z, s)
  PROVE  KeepsOrder(r, z, s)
BY DEF KeepsOrder, SameLevels

\* What the rows are like between two forms.
Ordered(r) ==
  /\ RowsTyped(r)
  /\ \A level \in Level : Dense(r, InLevel(r, level))
  /\ Cardinality(InLevel(r, "presenting")) <= 1

\* In rows that are in order no two of a level share a position.
LEMMA OrderedApart ==
  ASSUME NEW r, Ordered(r), NEW level \in Level
  PROVE  Apart(r, InLevel(r, level))
<1>1. InLevel(r, level) \in SUBSET Sponsor
  BY DEF InLevel
<1> QED
  BY <1>1, DenseApart DEF Ordered, Apart

\* Any two presenting sponsors are one.
LEMMA OnePresenting ==
  ASSUME NEW r, Ordered(r)
  PROVE  \A a, b \in InLevel(r, "presenting") : a = b
<1> DEFINE S == InLevel(r, "presenting")
           n == Cardinality(S)
<1>1. "presenting" \in Level
  BY DEF Level
<1>2. S \in SUBSET Sponsor /\ Apart(r, S)
  BY <1>1, OrderedApart DEF InLevel
<1>3. {r[t].position : t \in S} = 1 .. n /\ n <= 1
  BY <1>1 DEF Ordered, Dense
<1>4. n \in Nat
  BY <1>2, SponsorAssumption, FS_Subset, FS_CardinalityType
<1> HIDE DEF S, n
<1>5. \A a \in S : r[a].position = 1
  BY <1>3, <1>4
<1> QED
  BY <1>2, <1>5 DEF S, Apart

\* At most one of a set of at most one.
LEMMA AtMostOne ==
  ASSUME NEW S, NEW x, S \subseteq {x}
  PROVE  Cardinality(S) <= 1
<1>1. IsFiniteSet({x}) /\ Cardinality({x}) = 1
  BY FS_Singleton
<1> QED
  BY <1>1, FS_Subset

\* A row that has become Partner #1 is a row.
LEMMA Demoted ==
  ASSUME NEW row \in SponsorRow, NEW new, new = [row EXCEPT !.level = "partner", !.position = 1]
  PROVE  new \in SponsorRow /\ new.level = "partner" /\ new.position = 1
<1>1. "partner" \in Level /\ 1 \in Int
  BY DEF Level
<1> HIDE DEF Level
<1>2. row \in [level : Level, position : Int, logo : Sponsor \X Nat]
  BY DEF SponsorRow
<1> QED
  BY <1>1, <1>2 DEF SponsorRow

\* Room at the top: the presenting sponsor becomes Partner #1.
LEMMA RoomOrdered ==
  ASSUME Ordered(rows), NEW level, NEW keep, NEW r, r = MadeRoom(level, keep)
  PROVE  /\ Ordered(r)
         /\ level = "presenting" => InLevel(r, "presenting") \subseteq {keep}
         /\ \A t \in Sponsor : (r[t] = NULL <=> rows[t] = NULL) /\ (t = keep => r[t] = rows[t] \/ r[t].level = rows[t].level)
         /\ \A s : KeepsOrder(rows, r, s)
<1> DEFINE old == InLevel(rows, "presenting") \ {keep}
           P == InLevel(rows, "partner")
<1>0. RowsTyped(rows)
  BY DEF Ordered
<1>1. CASE r = rows /\ (level = "presenting" => old = {})
  BY <1>1 DEF KeepsOrder
<1>2. CASE level = "presenting" /\ old # {}
  <2>1. PICK x \in old : TRUE
    BY <1>2
  <2>2. InLevel(rows, "presenting") = {x} /\ x # keep /\ old = {x}
    BY <2>1, OnePresenting
  <2>3. x \in Sponsor /\ rows[x] # NULL /\ rows[x] \in SponsorRow /\ x \notin P
    BY <1>0, <2>2 DEF InLevel, RowsTyped
  <2>4. r = [t \in Sponsor |->
               IF t = x THEN [rows[t] EXCEPT !.level = "partner", !.position = 1]
               ELSE IF t \in P THEN [rows[t] EXCEPT !.position = @ + 1]
               ELSE rows[t]]
    BY <1>2, <2>2 DEF MadeRoom, DemotePresenting
  <2>5. r[x] \in SponsorRow /\ r[x].level = "partner" /\ r[x].position = 1
    <3>1. r[x] = [rows[x] EXCEPT !.level = "partner", !.position = 1]
      BY <2>3, <2>4
    <3> QED
      BY <2>3, <3>1, Demoted
  <2>6. P \in SUBSET Sponsor /\ \A t \in P : rows[t] # NULL /\ rows[t].level = "partner" /\ rows[t] \in SponsorRow
    BY <1>0 DEF InLevel, RowsTyped
  <2>7. \A t \in P : /\ r[t] \in SponsorRow /\ r[t].level = "partner"
                     /\ r[t].position = rows[t].position + 1
    <3> SUFFICES ASSUME NEW t \in P
                 PROVE  /\ r[t] \in SponsorRow /\ r[t].level = "partner"
                        /\ r[t].position = rows[t].position + 1
      OBVIOUS
    <3>1. r[t] = [rows[t] EXCEPT !.position = rows[t].position + 1]
      BY <2>3, <2>4, <2>6
    <3>2. rows[t] \in [level : Level, position : Int, logo : Sponsor \X Nat] /\ rows[t].level = "partner"
      BY <2>6 DEF SponsorRow
    <3> HIDE DEF P, Level
    <3> QED
      BY <3>1, <3>2 DEF SponsorRow
  <2>8. \A t \in Sponsor : t # x /\ t \notin P => r[t] = rows[t]
    BY <2>4
  <2>9. RowsTyped(r)
    <3>1. r = [t \in Sponsor |-> r[t]]
      BY <2>4
    <3>2. \A t \in Sponsor : r[t] \in SponsorRow \cup {NULL}
      BY <1>0, <2>5, <2>7, <2>8 DEF RowsTyped
    <3> QED
      BY <3>1, <3>2 DEF RowsTyped
  <2>10. \A t \in Sponsor : r[t] = NULL <=> rows[t] = NULL
    BY <2>3, <2>5, <2>6, <2>7, <2>8, NullAssumption
  <2>11. \A t \in Sponsor : t \notin P /\ rows[t] # NULL => rows[t].level # "partner"
    BY DEF InLevel
  <2>12. \A t \in Sponsor : t # x /\ rows[t] # NULL => rows[t].level # "presenting" /\ r[t].level = rows[t].level
    <3>1. \A t \in Sponsor : t # x /\ rows[t] # NULL => rows[t].level # "presenting"
      BY <2>2 DEF InLevel
    <3> QED
      BY <2>6, <2>7, <2>8, <3>1
  <2> HIDE DEF P
  <2>13. InLevel(r, "partner") = P \cup {x}
    <3>1. \A t \in Sponsor : t \in P \cup {x} <=> r[t] # NULL /\ r[t].level = "partner"
      BY <2>3, <2>5, <2>6, <2>7, <2>8, <2>10, <2>11
    <3> QED
      BY <2>3, <2>6, <3>1 DEF InLevel
  <2>14. InLevel(r, "presenting") = {}
    BY <2>5, <2>10, <2>12 DEF InLevel
  <2>15. InLevel(r, "supporter") = InLevel(rows, "supporter")
         /\ \A t \in InLevel(rows, "supporter") : r[t] = rows[t]
    BY <2>2, <2>5, <2>6, <2>7, <2>8, <2>10 DEF InLevel
  <2>16. Dense(r, InLevel(r, "partner"))
    <3> DEFINE n == Cardinality(P)
    <3>1. {rows[t].position : t \in P} = 1 .. n
      BY DEF Ordered, Dense, P, Level
    <3>2. n \in Nat /\ Cardinality(P \cup {x}) = n + 1
      BY <2>3, <2>6, SponsorAssumption, FS_Subset, FS_CardinalityType, FS_AddElement
    <3> HIDE DEF n
    <3>3. ASSUME NEW i \in 1 .. n + 1
          PROVE  \E t \in P \cup {x} : r[t].position = i
      <4>1. CASE i = 1
        BY <2>5, <4>1
      <4>2. CASE i # 1
        <5>1. i - 1 \in 1 .. n
          BY <3>2, <4>2
        <5>2. PICK t \in P : rows[t].position = i - 1
          BY <3>1, <5>1
        <5> QED
          BY <2>7, <5>2
      <4> QED
        BY <4>1, <4>2
    <3>4. \A t \in P \cup {x} : r[t].position \in 1 .. n + 1
      <4>1. \A t \in P : rows[t].position \in 1 .. n
        BY <3>1
      <4> QED
        BY <2>5, <2>7, <3>2, <4>1
    <3> QED
      BY <2>13, <3>2, <3>3, <3>4 DEF Dense
  <2>17. Dense(r, InLevel(r, "presenting"))
    <3>1. Cardinality({}) = 0
      BY FS_EmptySet
    <3> QED
      BY <2>14, <3>1 DEF Dense
  <2>18. Dense(r, InLevel(r, "supporter"))
    <3>1. Dense(rows, InLevel(rows, "supporter"))
      BY DEF Ordered, Level
    <3> QED
      BY <2>15, <3>1 DEF Dense
  <2>19. Ordered(r)
    <3>1. Cardinality(InLevel(r, "presenting")) <= 1
      BY <2>14, FS_EmptySet
    <3> QED
      BY <2>9, <2>16, <2>17, <2>18, <3>1 DEF Ordered, Level
  <2>20. ASSUME NEW s
         PROVE  KeepsOrder(rows, r, s)
    <3> SUFFICES ASSUME NEW a \in Sponsor, NEW b \in Sponsor,
                        rows[a] # NULL, rows[b] # NULL, rows[a].level = rows[b].level,
                        r[a].level = rows[a].level, r[b].level = rows[b].level
                 PROVE  (rows[a].position < rows[b].position) <=> (r[a].position < r[b].position)
      BY DEF KeepsOrder
    <3>1. a # x /\ b # x
      BY <2>2, <2>5 DEF InLevel
    <3>2. CASE a \in P
      <4>1. b \in P
        BY <2>6, <2>11, <3>2
      <4>2. rows[a].position \in Int /\ rows[b].position \in Int
        BY <2>6, <3>2, <4>1 DEF SponsorRow
      <4> QED
        BY <2>7, <3>2, <4>1, <4>2
    <3>3. CASE a \notin P
      BY <2>6, <2>8, <2>11, <3>1, <3>3
    <3> QED
      BY <3>2, <3>3
  <2> QED
    BY <2>2, <2>10, <2>12, <2>14, <2>19, <2>20
<1>3. \/ r = rows /\ (level = "presenting" => old = {})
      \/ level = "presenting" /\ old # {}
  <2>1. CASE level = "presenting" /\ old = {}
    <3>1. r = [t \in Sponsor |-> rows[t]]
      BY <2>1 DEF MadeRoom, DemotePresenting
    <3> QED
      BY <1>0, <2>1, <3>1 DEF RowsTyped
  <2>2. CASE level # "presenting"
    BY <2>2 DEF MadeRoom
  <2> QED
    BY <2>1, <2>2
<1> QED
  BY <1>1, <1>2, <1>3

\* Two changes that leave the levels leave them together.
LEMMA LevelsThrough ==
  ASSUME NEW r, NEW x, NEW z, NEW s, SameLevels(r, x, s), SameLevels(x, z, s)
  PROVE  SameLevels(r, z, s)
BY DEF SameLevels

\* Positions are dense where the rows are the same.
LEMMA DenseAs ==
  ASSUME NEW r, NEW z, NEW S, \A t \in S : z[t] = r[t], Dense(r, S)
  PROVE  Dense(z, S)
<1> DEFINE p == {z[t].position : t \in S}
           q == {r[t].position : t \in S}
<1>1. ASSUME NEW n PROVE n \in p <=> n \in q
  <2>1. n \in p <=> \E t \in S : n = z[t].position
    OBVIOUS
  <2>2. n \in q <=> \E t \in S : n = r[t].position
    OBVIOUS
  <2> QED
    BY <2>1, <2>2
<1>2. p = q
  BY <1>1
<1> QED
  BY <1>2 DEF Dense

\* A sponsor is put in its place and the gap it leaves in another level closed.
Fits(r, z, s) == Ordered(z) /\ KeepsOrder(r, z, s) /\ SameLevels(r, z, s) /\ z[s] # NULL

\* A sponsor put in a level leaves the rows in order, once the gap in its old
\* level is closed.
LEMMA PutOrdered ==
  ASSUME NEW r, Ordered(r), NEW s \in Sponsor, NEW new \in SponsorRow, NEW wanted \in Int \cup {NULL},
         new.level = "presenting" => InLevel(r, "presenting") \subseteq {s},
         NEW old, r[s] # NULL => r[s].level = old
  PROVE  LET x == Put(r, s, new, wanted)
         IN  IF new.level = old THEN Fits(r, x, s) ELSE Fits(r, Renumber(x, Order(x, old)), s)
<1>0. RowsTyped(r) /\ new.level \in Level
  BY DEF Ordered, SponsorRow
<1> HIDE DEF Level
<1>1. Apart(r, InLevel(r, new.level) \ {s})
  BY <1>0, OrderedApart DEF Apart
<1> DEFINE x == Put(r, s, new, wanted)
           z == Renumber(x, Order(x, old))
<1>a. WellPut(r, s, new.level, x)
  BY <1>0, <1>1, PutWell
<1> HIDE DEF x
<1>2. /\ RowsTyped(x) /\ x[s] # NULL /\ x[s].level = new.level
      /\ SameLevels(r, x, s) /\ KeepsOrder(r, x, s)
      /\ InLevel(x, new.level) = InLevel(r, new.level) \cup {s}
      /\ Dense(x, InLevel(x, new.level))
      /\ \A level \in Level \ {new.level} :
           /\ InLevel(x, level) = InLevel(r, level) \ {s}
           /\ \A t \in InLevel(x, level) : x[t] = r[t]
  BY <1>a DEF WellPut
<1>3. ASSUME NEW level \in Level, level # new.level, level # old
      PROVE  Dense(x, InLevel(x, level))
  <2>1. s \notin InLevel(r, level)
    BY <1>3 DEF InLevel
  <2>a. InLevel(x, level) = InLevel(r, level) \ {s} /\ \A t \in InLevel(x, level) : x[t] = r[t]
    BY <1>2, <1>3
  <2>b. InLevel(r, level) \ {s} = InLevel(r, level)
    BY <2>1
  <2>2. InLevel(x, level) = InLevel(r, level) /\ \A t \in InLevel(r, level) : x[t] = r[t]
    BY <2>a, <2>b
  <2>3. Dense(r, InLevel(r, level))
    BY DEF Ordered
  <2> QED
    BY <2>2, <2>3, DenseAs
<1>4. Cardinality(InLevel(x, "presenting")) <= 1
  <2>1. CASE new.level = "presenting"
    <3>1. InLevel(x, "presenting") \subseteq {s}
      BY <1>2, <2>1
    <3> QED
      BY <3>1, AtMostOne
  <2>2. CASE new.level # "presenting"
    <3>1. InLevel(x, "presenting") \subseteq InLevel(r, "presenting")
      BY <1>0, <1>2, <2>2 DEF Level
    <3>2. IsFiniteSet(InLevel(r, "presenting"))
      <4>1. InLevel(r, "presenting") \subseteq Sponsor
        BY DEF InLevel
      <4> QED
        BY <4>1, SponsorAssumption, FS_Subset
    <3>3. /\ Cardinality(InLevel(x, "presenting")) <= Cardinality(InLevel(r, "presenting"))
          /\ Cardinality(InLevel(x, "presenting")) \in Nat
          /\ Cardinality(InLevel(r, "presenting")) \in Nat
      BY <3>1, <3>2, FS_Subset, FS_CardinalityType
    <3>4. Cardinality(InLevel(r, "presenting")) <= 1
      BY DEF Ordered
    <3> QED
      BY <3>3, <3>4
  <2> QED
    BY <2>1, <2>2
<1>5. CASE new.level = old
  <2>2. \A level \in Level : Dense(x, InLevel(x, level))
    BY <1>2, <1>3, <1>5
  <2> QED
    BY <1>2, <1>4, <1>5, <2>2 DEF Ordered, Fits, x
<1>6. CASE new.level # old
  <2> HIDE DEF z
  <2>1. z = Renumber(x, Order(x, old))
    BY DEF z
  <2>2. Apart(x, InLevel(x, old))
    <3>1. CASE old \in Level
      <4>1. InLevel(x, old) = InLevel(r, old) \ {s} /\ \A t \in InLevel(x, old) : x[t] = r[t]
        BY <1>2, <1>6, <3>1
      <4>2. Apart(r, InLevel(r, old))
        BY <3>1, OrderedApart
      <4>3. \A t \in InLevel(x, old) : t \in InLevel(r, old) /\ x[t].position = r[t].position
        BY <4>1
      <4> QED
        BY <4>2, <4>3 DEF Apart
    <3>2. CASE old \notin Level
      <4>1. InLevel(x, old) = {}
        <5>1. \A t \in Sponsor : x[t] # NULL => x[t] \in [level : Level, position : Int, logo : Sponsor \X Nat]
          BY <1>2 DEF RowsTyped, SponsorRow
        <5>2. \A t \in Sponsor : x[t] # NULL => x[t].level \in Level
          BY <5>1
        <5> QED
          BY <3>2, <5>2 DEF InLevel
      <4> QED
        BY <4>1 DEF Apart
    <3> QED
      BY <3>1, <3>2
  <2>3. /\ RowsTyped(z) /\ Dense(z, InLevel(z, old))
        /\ SameLevels(x, z, s) /\ KeepsOrder(x, z, s)
        /\ \A l : InLevel(z, l) = InLevel(x, l)
        /\ \A t \in Sponsor : x[t] # NULL => z[t] # NULL
        /\ \A t \in Sponsor : t \notin InLevel(x, old) => z[t] = x[t]
    <3>1. WellClosed(x, old, z)
      BY <1>2, <2>1, <2>2, GapClosed
    <3> QED
      BY <3>1 DEF WellClosed
  <2>4. ASSUME NEW level \in Level
        PROVE  Dense(z, InLevel(z, level))
    <3>1. CASE level = old
      BY <2>3, <3>1
    <3>2. CASE level # old
      <4>1. \A t \in InLevel(x, level) : t \in Sponsor /\ t \notin InLevel(x, old)
        BY <3>2 DEF InLevel
      <4>2. Dense(x, InLevel(x, level))
        BY <1>2, <1>3, <3>2
      <4> QED
        <5>1. InLevel(z, level) = InLevel(x, level)
          BY <2>3
        <5>2. \A t \in InLevel(x, level) : z[t] = x[t]
          BY <2>3, <4>1
        <5> QED
          BY <4>2, <5>1, <5>2, DenseAs
    <3> QED
      BY <3>1, <3>2
  <2>5. Ordered(z)
    BY <1>4, <2>3, <2>4 DEF Ordered
  <2>6. KeepsOrder(r, z, s)
    BY <1>2, <2>3, OrderThrough
  <2>7. SameLevels(r, z, s)
    BY <1>2, <2>3, LevelsThrough
  <2>8. z[s] # NULL
    BY <1>2, <2>3
  <2> QED
    BY <1>6, <2>5, <2>6, <2>7, <2>8 DEF Fits, x, z
<1> QED
  BY <1>5, <1>6

\* Whoever but s was there still is, and nobody else.
SamePresent(r, z, s) == \A t \in Sponsor \ {s} : z[t] = NULL <=> r[t] = NULL

\* A form's work on the rows r of sponsor s.
Formed(z, s) == Ordered(z) /\ KeepsOrder(rows, z, s) /\ SamePresent(rows, z, s)

\* So does a change made to rows in which room was made first.
LEMMA FitsThrough ==
  ASSUME NEW r, NEW z, NEW s \in Sponsor, \A t \in Sponsor : r[t] = NULL <=> rows[t] = NULL,
         KeepsOrder(rows, r, s), Fits(r, z, s)
  PROVE  Formed(z, s) /\ z[s] # NULL
<1>1. KeepsOrder(rows, z, s)
  BY OrderThrough DEF Fits
<1>2. SamePresent(rows, z, s)
  BY DEF Fits, SameLevels, SamePresent
<1> QED
  BY <1>1, <1>2 DEF Fits, Formed

\* A new sponsor.
LEMMA InsertedOrdered ==
  ASSUME Ordered(rows), NEW s \in Sponsor, rows[s] = NULL, NEW level \in Level, NEW wanted \in Int \cup {NULL},
         NEW logo \in Sponsor \X Nat
  PROVE  Formed(Inserted(s, level, wanted, logo), s) /\ Inserted(s, level, wanted, logo)[s] # NULL
<1> DEFINE r == MadeRoom(level, NULL)
           new == [level |-> level, position |-> 0, logo |-> logo]
           z == Inserted(s, level, wanted, logo)
<1>1. /\ Ordered(r)
      /\ level = "presenting" => InLevel(r, "presenting") \subseteq {NULL}
      /\ \A t \in Sponsor : r[t] = NULL <=> rows[t] = NULL
      /\ KeepsOrder(rows, r, s)
  BY RoomOrdered
<1>2. z = Renumber([r EXCEPT ![s] = new], PlaceIn(Order(r, level), s, wanted))
  BY DEF Inserted
<1>3. new \in SponsorRow /\ new.level = level
  BY DEF SponsorRow
<1> HIDE DEF r, new, z
<1>4. new.level = "presenting" => InLevel(r, "presenting") \subseteq {s}
  BY <1>1, <1>3, NullAssumption DEF InLevel
<1>5. r[s] = NULL
  BY <1>1
<1>6. InLevel(r, level) \ {s} = InLevel(r, level)
  BY <1>5 DEF InLevel
<1>7. z = Put(r, s, new, wanted)
  BY <1>2, <1>3, <1>6 DEF Put, Order, Others
<1>8. Fits(r, Put(r, s, new, wanted), s)
  BY <1>1, <1>3, <1>4, <1>5, PutOrdered
<1> QED
  BY <1>1, <1>7, <1>8, FitsThrough DEF z

\* A sponsor that moves, or is only edited.
LEMMA MovedOrdered ==
  ASSUME Ordered(rows), NEW s \in Sponsor, rows[s] # NULL, NEW level \in Level, NEW wanted \in Int \cup {NULL},
         NEW logo \in Sponsor \X Nat
  PROVE  Formed(Moved(s, level, wanted, logo), s) /\ Moved(s, level, wanted, logo)[s] # NULL
<1> DEFINE old == rows[s]
           r == MadeRoom(level, s)
           place == IF wanted = NULL /\ level = old.level THEN old.position ELSE wanted
           new == [old EXCEPT !.level = level, !.logo = logo]
           x == Put(r, s, new, place)
           z == Moved(s, level, wanted, logo)
<1>1. /\ Ordered(r)
      /\ level = "presenting" => InLevel(r, "presenting") \subseteq {s}
      /\ \A t \in Sponsor : r[t] = NULL <=> rows[t] = NULL
      /\ r[s] = rows[s] \/ r[s].level = rows[s].level
      /\ KeepsOrder(rows, r, s)
  BY RoomOrdered
<1>2. old \in [level : Level, position : Int, logo : Sponsor \X Nat]
  BY DEF Ordered, RowsTyped, SponsorRow
<1> HIDE DEF Level
<1>3. new \in SponsorRow /\ new.level = level
  BY <1>2 DEF SponsorRow
<1>4. place \in Int \cup {NULL}
  BY <1>2
<1>5. z = IF level = old.level THEN Renumber([r EXCEPT ![s] = new], PlaceIn(Others(r, level, s), s, place))
          ELSE Renumber(Renumber([r EXCEPT ![s] = new], PlaceIn(Others(r, level, s), s, place)),
                        Order(Renumber([r EXCEPT ![s] = new], PlaceIn(Others(r, level, s), s, place)), old.level))
  BY DEF Moved
<1> HIDE DEF r, place, new, z
<1>6. z = IF new.level = old.level THEN x ELSE Renumber(x, Order(x, old.level))
  BY <1>3, <1>5 DEF Put
<1>7. /\ new.level = "presenting" => InLevel(r, "presenting") \subseteq {s}
      /\ r[s] # NULL => r[s].level = old.level
  BY <1>1, <1>3
<1> HIDE DEF old
<1>8. IF new.level = old.level THEN Fits(r, x, s) ELSE Fits(r, Renumber(x, Order(x, old.level)), s)
  BY <1>1, <1>3, <1>4, <1>7, PutOrdered
<1> HIDE DEF x
<1>9. Fits(r, z, s)
  BY <1>6, <1>8
<1> QED
  BY <1>1, <1>9, FitsThrough DEF z

\* A sponsor that is given a position.
LEMMA PositionOrdered ==
  ASSUME Ordered(rows), NEW s \in Sponsor, rows[s] # NULL, NEW wanted \in Int \cup {NULL},
         NEW z, z = Renumber(rows, PlaceIn(Others(rows, rows[s].level, s), s, wanted))
  PROVE  Formed(z, s) /\ z[s] # NULL
<1> DEFINE new == rows[s]
<1>1. rows = [rows EXCEPT ![s] = new] /\ new \in SponsorRow
  BY DEF Ordered, RowsTyped
<1>2. z = Put(rows, s, new, wanted)
  BY <1>1 DEF Put
<1>3. new.level = "presenting" => InLevel(rows, "presenting") \subseteq {s}
  BY OnePresenting DEF InLevel
<1>4. Fits(rows, Put(rows, s, new, wanted), s)
  BY <1>1, <1>3, PutOrdered
<1>5. KeepsOrder(rows, rows, s)
  BY DEF KeepsOrder
<1> QED
  BY <1>2, <1>4, <1>5, FitsThrough

\* A sponsor that goes.
Deleted(s) == LET r == [rows EXCEPT ![s] = NULL] IN Renumber(r, Order(r, rows[s].level))

\* The rows without it are in order.
LEMMA DeletedOrdered ==
  ASSUME Ordered(rows), NEW s \in Sponsor, rows[s] # NULL
  PROVE  Formed(Deleted(s), s) /\ Deleted(s)[s] = NULL
<1> DEFINE old == rows[s].level
           r == [rows EXCEPT ![s] = NULL]
           z == Deleted(s)
<1>1. RowsTyped(rows) /\ \A level \in Level : Apart(rows, InLevel(rows, level))
  BY OrderedApart DEF Ordered
<1>2. RowsTyped(r) /\ r[s] = NULL /\ \A t \in Sponsor \ {s} : r[t] = rows[t]
  BY <1>1 DEF RowsTyped
<1>3. rows[s] \in [level : Level, position : Int, logo : Sponsor \X Nat]
  BY <1>1 DEF RowsTyped, SponsorRow
<1>4. old \in Level
  BY <1>3
<1> HIDE DEF Level
<1>5. \A level : InLevel(r, level) = InLevel(rows, level) \ {s}
  BY <1>2 DEF InLevel
<1>6. z = Renumber(r, Order(r, old))
  BY DEF Deleted
<1> HIDE DEF r, z
<1>7. \A level \in Level \ {old} : InLevel(r, level) = InLevel(rows, level)
  BY <1>5 DEF InLevel
<1> HIDE DEF old
<1>8. Apart(r, InLevel(r, old))
  <2>1. Apart(rows, InLevel(rows, old))
    BY <1>1, <1>4
  <2>2. \A t \in InLevel(r, old) : t \in InLevel(rows, old) /\ r[t] = rows[t]
    BY <1>2, <1>5 DEF InLevel
  <2> QED
    BY <2>1, <2>2 DEF Apart
<1>9. WellClosed(r, old, z)
  BY <1>2, <1>6, <1>8, GapClosed
<1>10. /\ RowsTyped(z) /\ Dense(z, InLevel(z, old))
       /\ SameLevels(r, z, s) /\ KeepsOrder(r, z, s)
       /\ \A l : InLevel(z, l) = InLevel(r, l)
  BY <1>9 DEF WellClosed
<1>13. \A t \in Sponsor : t \notin InLevel(r, old) => z[t] = r[t]
  BY <1>9 DEF WellClosed
<1>14. ASSUME NEW level \in Level
       PROVE  Dense(z, InLevel(z, level))
  <2>1. CASE level = old
    BY <1>10, <2>1
  <2>2. CASE level # old
    <3>1. InLevel(z, level) = InLevel(rows, level)
      BY <1>7, <1>10, <2>2
    <3>2. ASSUME NEW t \in InLevel(rows, level)
          PROVE  t # s /\ t \in Sponsor /\ t \notin InLevel(r, old)
      <4>1. t \in InLevel(r, level)
        BY <1>7, <2>2
      <4>2. r[t] # NULL /\ r[t].level = level /\ t \in Sponsor
        BY <4>1 DEF InLevel
      <4> QED
        BY <1>2, <2>2, <4>2 DEF InLevel
    <3>3. \A t \in InLevel(rows, level) : z[t] = rows[t]
      BY <1>2, <1>13, <3>2
    <3>4. Dense(rows, InLevel(rows, level))
      BY DEF Ordered
    <3>5. Dense(z, InLevel(rows, level))
      BY <3>3, <3>4, DenseAs
    <3> QED
      BY <3>1, <3>5
  <2> QED
    BY <2>1, <2>2
<1>15. Cardinality(InLevel(z, "presenting")) <= 1
  <2>1. InLevel(z, "presenting") \subseteq InLevel(rows, "presenting")
    BY <1>5, <1>10
  <2>2. IsFiniteSet(InLevel(rows, "presenting"))
    <3>1. InLevel(rows, "presenting") \subseteq Sponsor
      BY DEF InLevel
    <3> QED
      BY <3>1, SponsorAssumption, FS_Subset
  <2>3. /\ Cardinality(InLevel(z, "presenting")) <= Cardinality(InLevel(rows, "presenting"))
        /\ Cardinality(InLevel(z, "presenting")) \in Nat
        /\ Cardinality(InLevel(rows, "presenting")) \in Nat
    BY <2>1, <2>2, FS_Subset, FS_CardinalityType
  <2>4. Cardinality(InLevel(rows, "presenting")) <= 1
    BY DEF Ordered
  <2> QED
    BY <2>3, <2>4
<1>16. Ordered(z)
  BY <1>10, <1>14, <1>15 DEF Ordered
<1>17. SamePresent(rows, z, s)
  <2>1. SameLevels(r, z, s)
    BY <1>10
  <2> QED
    BY <1>2, <2>1 DEF SameLevels, SamePresent
<1>18. KeepsOrder(rows, r, s)
  BY <1>2 DEF KeepsOrder
<1>19. KeepsOrder(rows, z, s)
  BY <1>10, <1>18, OrderThrough
<1>20. z[s] = NULL
  BY <1>2, <1>13 DEF InLevel
<1> QED
  BY <1>16, <1>17, <1>19, <1>20 DEF Formed, z

-----------------------------------------------------------------------------
(* Forms, one after the other.                                             *)

\* A new sponsor's id is nobody's yet, and no other request's.
CreatesAlone ==
  \A w \in Saving : w.op = "create" =>
    rows[w.id] = NULL /\ \A v \in Saving : v.id = w.id => v = w

Forms ==
  /\ Pictures /\ Ordered(rows) /\ CreatesAlone
  /\ \A w \in Saving : w.key \in Sponsor \X Nat

\* A form's transaction: its sponsor's row is written, the requests in over are
\* done and their logos named; a logo that no row names any more is to go.
Write(s, over) ==
  /\ over \subseteq Saving /\ Saving' = Saving \ over
  /\ Formed(rows', s)
  /\ rows[s] = NULL => \E w \in over : w.op = "create" /\ w.id = s
  /\ stored' = stored /\ orphans' = orphans /\ trash \subseteq trash'
  /\ \A w \in over : rows'[w.id] # NULL /\ rows'[w.id].logo = w.key
  /\ \A t \in Sponsor : rows[t] # NULL =>
       rows[t].logo \in trash' \/ (rows'[t] # NULL /\ rows'[t].logo = rows[t].logo)

\* Every form's transaction is such a write.
LEMMA FormStep ==
  ASSUME Forms,
         \/ \E s \in Sponsor, level \in Level, wanted \in Wanted : Edit(s, level, wanted)
         \/ \E w \in work, level \in Level, wanted \in Wanted :
              Create(w, level, wanted) \/ Update(w, level, wanted)
         \/ \E s \in Sponsor : Delete(s) \/ \E wanted \in Wanted : SetPosition(s, wanted)
  PROVE  \E s \in Sponsor, over \in SUBSET Saving : Write(s, over)
<1>a. /\ DOMAIN rows = Sponsor /\ (\A t \in Sponsor : Fields(rows[t]))
      /\ Ordered(rows) /\ CreatesAlone
  BY DEF Forms, Pictures, Keys
<1>b. \A wanted \in Wanted : wanted \in Int \cup {NULL}
  BY BoundAssumption
<1>c. \A t \in Sponsor : rows[t] # NULL => rows[t].logo \in Sponsor \X Nat
  <2>1. \A t \in Sponsor : rows[t] # NULL => rows[t] \in [level : Level, position : Int, logo : Sponsor \X Nat]
    BY <1>a DEF Ordered, RowsTyped, SponsorRow
  <2> HIDE DEF Level
  <2> QED
    BY <2>1
<1>d. \A w \in Saving : w.id \in Sponsor /\ w.key \in Sponsor \X Nat
  BY DEF Forms, Pictures, Keys
<1> HIDE DEF Level
<1>1. ASSUME NEW w \in work, NEW level \in Level, NEW wanted \in Wanted, Create(w, level, wanted)
      PROVE  Write(w.id, {w})
  <2>1. /\ w \in Saving /\ w.op = "create" /\ w.id \in Sponsor /\ w.key \in Sponsor \X Nat
        /\ rows' = Inserted(w.id, level, wanted, w.key) /\ work' = work \ {w}
        /\ stored' = stored /\ orphans' = orphans /\ trash' = trash
    BY <1>1, <1>d DEF Create, End, Saving, bucket
  <2>2. rows[w.id] = NULL
    BY <1>a, <2>1 DEF CreatesAlone
  <2>3. Saving' = Saving \ {w}
    BY <2>1 DEF Saving
  <2>4. Formed(rows', w.id) /\ rows'[w.id] # NULL
    BY <1>1, <1>a, <1>b, <2>1, <2>2, InsertedOrdered
  <2>5. /\ \A t \in Sponsor : t # w.id => SameLogo(rows[t], rows'[t])
        /\ rows'[w.id] # NULL => rows'[w.id].logo = w.key
    BY <1>a, <2>1, InsertedLogo
  <2>6. \A t \in Sponsor : rows[t] # NULL => rows'[t] # NULL /\ rows'[t].logo = rows[t].logo
    BY <2>2, <2>4, <2>5 DEF SameLogo, Formed, SamePresent
  <2> QED
    BY <2>1, <2>3, <2>4, <2>5, <2>6 DEF Write
<1>2. ASSUME NEW w \in work, NEW level \in Level, NEW wanted \in Wanted, Update(w, level, wanted)
      PROVE  Write(w.id, {w})
  <2>1. /\ w \in Saving /\ w.id \in Sponsor /\ rows[w.id] # NULL /\ w.key \in Sponsor \X Nat
        /\ rows' = Moved(w.id, level, wanted, w.key) /\ work' = work \ {w}
        /\ stored' = stored /\ orphans' = orphans /\ trash' = trash \cup {rows[w.id].logo}
    BY <1>2, <1>d DEF Update, ReplacedLogo, End, Saving
  <2>2. Saving' = Saving \ {w}
    BY <2>1 DEF Saving
  <2>3. Formed(rows', w.id) /\ rows'[w.id] # NULL
    BY <1>2, <1>a, <1>b, <2>1, MovedOrdered
  <2>4. /\ \A t \in Sponsor : t # w.id => SameLogo(rows[t], rows'[t])
        /\ rows'[w.id] # NULL => rows'[w.id].logo = w.key
    BY <1>a, <2>1, MovedLogo
  <2>5. \A t \in Sponsor : t # w.id /\ rows[t] # NULL => rows'[t] # NULL /\ rows'[t].logo = rows[t].logo
    BY <2>3, <2>4 DEF SameLogo, Formed, SamePresent
  <2> QED
    BY <2>1, <2>2, <2>3, <2>4, <2>5 DEF Write
<1>3. ASSUME NEW s \in Sponsor, NEW level \in Level, NEW wanted \in Wanted, Edit(s, level, wanted)
      PROVE  Write(s, {})
  <2>1. /\ rows[s] # NULL /\ rows' = Moved(s, level, wanted, rows[s].logo) /\ work' = work
        /\ stored' = stored /\ orphans' = orphans /\ trash' = trash /\ rows[s].logo \in Sponsor \X Nat
    BY <1>3, <1>c DEF Edit, bucket
  <2>2. Saving' = Saving \ {}
    BY <2>1 DEF Saving
  <2>3. Formed(rows', s) /\ rows'[s] # NULL
    BY <1>3, <1>a, <1>b, <2>1, MovedOrdered
  <2>4. /\ \A t \in Sponsor : t # s => SameLogo(rows[t], rows'[t])
        /\ rows'[s] # NULL => rows'[s].logo = rows[s].logo
    BY <1>a, <2>1, MovedLogo
  <2>5. \A t \in Sponsor : rows[t] # NULL => rows'[t] # NULL /\ rows'[t].logo = rows[t].logo
    BY <2>3, <2>4 DEF SameLogo, Formed, SamePresent
  <2> QED
    BY <2>1, <2>2, <2>3, <2>5 DEF Write
<1>4. ASSUME NEW s \in Sponsor, NEW wanted \in Wanted, SetPosition(s, wanted)
      PROVE  Write(s, {})
  <2> DEFINE places == PlaceIn(Others(rows, rows[s].level, s), s, wanted)
  <2>1. /\ rows[s] # NULL /\ rows' = Renumber(rows, places) /\ work' = work
        /\ stored' = stored /\ orphans' = orphans /\ trash' = trash
    BY <1>4 DEF SetPosition, bucket
  <2>2. Saving' = Saving \ {}
    BY <2>1 DEF Saving
  <2>3. Formed(rows', s) /\ rows'[s] # NULL
    BY <1>a, <1>b, <2>1, PositionOrdered
  <2> HIDE DEF places
  <2>4. \A t \in Sponsor : SameLogo(rows[t], rows'[t])
    BY <1>a, <2>1, RenumberedLogo
  <2>5. \A t \in Sponsor : rows[t] # NULL => rows'[t] # NULL /\ rows'[t].logo = rows[t].logo
    BY <2>3, <2>4 DEF SameLogo, Formed, SamePresent
  <2> QED
    BY <2>1, <2>2, <2>3, <2>5 DEF Write
<1>5. ASSUME NEW s \in Sponsor, Delete(s)
      PROVE  Write(s, {})
  <2>1. /\ rows[s] # NULL /\ rows' = Deleted(s) /\ work' = work
        /\ stored' = stored /\ orphans' = orphans /\ trash' = trash \cup {rows[s].logo}
    BY <1>5 DEF Delete, Deleted
  <2>2. Saving' = Saving \ {}
    BY <2>1 DEF Saving
  <2>3. Formed(rows', s) /\ rows'[s] = NULL
    BY <1>a, <2>1, DeletedOrdered
  <2> DEFINE r == [rows EXCEPT ![s] = NULL]
             places == Order(r, rows[s].level)
  <2>4. \A t \in Sponsor : Fields(r[t]) /\ SameLogo(rows[t], r[t])
    BY <1>a DEF Fields, SameLogo
  <2>5. rows' = Renumber(r, places)
    BY <2>1 DEF Deleted
  <2> HIDE DEF r, places
  <2>6. \A t \in Sponsor : SameLogo(r[t], rows'[t])
    BY <2>4, <2>5, RenumberedLogo
  <2>7. \A t \in Sponsor : t # s /\ rows[t] # NULL => rows'[t] # NULL /\ rows'[t].logo = rows[t].logo
    BY <2>3, <2>4, <2>6 DEF SameLogo, Formed, SamePresent
  <2> QED
    BY <2>1, <2>2, <2>3, <2>7 DEF Write
<1> QED
  <2>1. CASE \E s \in Sponsor, level \in Level, wanted \in Wanted : Edit(s, level, wanted)
    BY <1>3, <2>1
  <2>2. CASE \E w \in work, level \in Level, wanted \in Wanted :
               Create(w, level, wanted) \/ Update(w, level, wanted)
    <3>1. PICK w \in work, level \in Level, wanted \in Wanted :
                 Create(w, level, wanted) \/ Update(w, level, wanted)
      BY <2>2
    <3>2. w \in Saving
      BY <3>1 DEF Create, Update, Saving
    <3>3. Write(w.id, {w})
      BY <1>1, <1>2, <3>1
    <3> QED
      BY <1>d, <3>2, <3>3
  <2>3. CASE \E s \in Sponsor : Delete(s) \/ \E wanted \in Wanted : SetPosition(s, wanted)
    BY <1>4, <1>5, <2>3
  <2> QED
    BY <2>1, <2>2, <2>3

\* Any other step leaves the rows: it may begin a form, or end one whose logo
\* then goes or is left behind.
Quiet ==
  /\ rows' = rows
  /\ Saving' \subseteq Saving \/ \E s \in Sponsor, isNew \in BOOLEAN : UploadLogo(s, isNew)
  /\ \A w \in Saving : w \in Saving' \/ w.key \in trash' \cup orphans'
  /\ \A key \in stored' : key \in stored \/ key[1] = "event" \/ \E w \in Saving' : w.key = key
  /\ \A key \in trash \cup orphans : key \in trash' \cup orphans' \/ key \notin stored'

\* Every other step is quiet.
LEMMA OtherSteps ==
  ASSUME Pictures, [Next]_vars,
         ~(\E s \in Sponsor, level \in Level, wanted \in Wanted : Edit(s, level, wanted)),
         ~(\E w \in work, level \in Level, wanted \in Wanted :
             Create(w, level, wanted) \/ Update(w, level, wanted)),
         ~(\E s \in Sponsor : Delete(s) \/ \E wanted \in Wanted : SetPosition(s, wanted))
  PROVE  Quiet
<1> USE DEF Quiet
<1>1. ASSUME NEW s \in Sponsor, NEW isNew \in BOOLEAN, UploadLogo(s, isNew)
      PROVE  Quiet
  <2> DEFINE w == [op |-> IF isNew THEN "create" ELSE "update", id |-> s, key |-> Key(s, This)]
  <2>1. /\ stored' = stored \cup {w.key} /\ work' = work \cup {w}
        /\ rows' = rows /\ trash' = trash /\ orphans' = orphans
    BY <1>1 DEF UploadLogo, Begin, db
  <2>2. w.op \in {"create", "update"}
    OBVIOUS
  <2> HIDE DEF w
  <2>3. Saving' = Saving \cup {w}
    BY <2>1, <2>2 DEF Saving
  <2> QED
    BY <1>1, <2>1, <2>3
<1>2. ASSUME NEW w \in work, SaveFails(w)
      PROVE  Quiet
  BY <1>2 DEF SaveFails, Discard, End, Saving, db
<1>3. ASSUME NEW key \in trash, DeleteObject(key) \/ DeleteObjectFails(key)
      PROVE  Quiet
  BY <1>3 DEF DeleteObject, DeleteObjectFails, Saving, db
<1>4. ASSUME NEW w \in work, Crash(w)
      PROVE  Quiet
  BY <1>4 DEF Crash, End, Saving, db
<1>5. ASSUME rows' = rows, Saving' = Saving, trash \subseteq trash', orphans' = orphans,
             \A key \in stored' : key \in stored \/ key[1] = "event"
      PROVE  Quiet
  BY <1>5
<1>6. ASSUME NEW w, Begin(w), w.op \notin {"create", "update"}, UNCHANGED <<db, bucket>>
      PROVE  Quiet
  <2>1. Saving' = Saving
    BY <1>6 DEF Begin, Saving
  <2> QED
    BY <1>5, <1>6, <2>1 DEF db, bucket
<1>7. ASSUME EventStep
      PROVE  Quiet
  <2>1. CASE UploadCover
    BY <1>5, <2>1 DEF UploadCover, Cover, Key, Saving, db
  <2>2. CASE ReadForRemoval
    BY <1>6, <2>2 DEF ReadForRemoval
  <2>3. ASSUME NEW key \in uploaded, ReadForCover(key)
        PROVE  Quiet
    BY <1>5, <2>3 DEF ReadForCover, Saving, db
  <2>4. ASSUME NEW to \in Status, ReadStatus(to)
        PROVE  Quiet
    <3>1. /\ Begin([op |-> "status", from |-> event.status, to |-> to])
          /\ UNCHANGED <<db, bucket>>
      BY <2>4 DEF ReadStatus
    <3> QED
      BY <1>6, <3>1
  <2>5. ASSUME NEW w \in work, SetImageKey(w) \/ TransitionStatus(w)
        PROVE  Quiet
    BY <1>5, <2>5 DEF SetImageKey, TransitionStatus, End, Saving, bucket
  <2> QED
    BY <1>7, <2>1, <2>2, <2>3, <2>4, <2>5 DEF EventStep
<1>8. ASSUME TicketStep
      PROVE  Quiet
  <2>1. ASSUME NEW name \in Name, ReadForRename(name)
        PROVE  Quiet
    <3>1. /\ Begin([op |-> "rename", n |-> This, old |-> ticket.name, name |-> name])
          /\ UNCHANGED <<db, bucket>>
      BY <2>1 DEF ReadForRename
    <3> QED
      BY <1>6, <3>1
  <2>2. ASSUME CancelTicket \/ \E w \in work : Rename(w)
        PROVE  Quiet
    BY <1>5, <2>2 DEF CancelTicket, Rename, End, Saving, bucket
  <2> QED
    BY <1>8, <2>1, <2>2 DEF TicketStep
<1>9. ASSUME UNCHANGED vars
      PROVE  Quiet
  BY <1>5, <1>9 DEF vars, db, bucket, Saving
<1> HIDE DEF Quiet
<1> QED
  BY <1>1, <1>2, <1>3, <1>4, <1>7, <1>8, <1>9 DEF Next, SponsorStep, BucketStep

\* So a step is a form's transaction or leaves the rows.
LEMMA WriteOrQuiet ==
  ASSUME Forms, [Next]_vars
  PROVE  Quiet \/ \E s \in Sponsor, over \in SUBSET Saving : Write(s, over)
<1>1. Pictures
  BY DEF Forms
<1> QED
  BY <1>1, FormStep, OtherSteps

\* Every action keeps the rows in order and the new ids apart.
LEMMA FormsKept == Forms /\ [Next]_vars => Forms'
<1> SUFFICES ASSUME Forms, [Next]_vars PROVE Forms'
  OBVIOUS
<1>1. Pictures /\ Ordered(rows) /\ CreatesAlone /\ \A w \in Saving : w.key \in Sponsor \X Nat
  BY DEF Forms
<1>2. Pictures'
  BY <1>1, PicturesKept
<1>3. /\ \A w \in Saving : w.id \in Sponsor /\ Made(w.key, w.id) /\ w.key \in stored
      /\ requests \in Nat
  BY <1>1 DEF Pictures, Keys, LogosKept
<1>4. ASSUME NEW s \in Sponsor, NEW over \in SUBSET Saving, Write(s, over)
      PROVE  Forms'
  <2>1. /\ Saving' = Saving \ over /\ Formed(rows', s)
        /\ rows[s] = NULL => \E w \in over : w.op = "create" /\ w.id = s
    BY <1>4 DEF Write
  <2>2. Ordered(rows') /\ \A t \in Sponsor \ {s} : rows'[t] = NULL <=> rows[t] = NULL
    BY <2>1 DEF Formed, SamePresent
  <2>3. ASSUME NEW w \in Saving', w.op = "create"
        PROVE  rows'[w.id] = NULL /\ \A v \in Saving' : v.id = w.id => v = w
    <3>1. rows[w.id] = NULL /\ \A v \in Saving : v.id = w.id => v = w
      BY <1>1, <2>1, <2>3 DEF CreatesAlone
    <3>2. w.id # s
      BY <2>1, <3>1
    <3> QED
      BY <1>3, <2>1, <2>2, <3>1, <3>2
  <2>4. CreatesAlone'
    BY <2>3 DEF CreatesAlone
  <2>5. Ordered(rows)'
    BY <2>2 DEF Ordered, RowsTyped, Dense, InLevel
  <2>6. \A w \in Saving' : w.key \in Sponsor \X Nat
    BY <1>1, <2>1
  <2> QED
    BY <1>2, <2>4, <2>5, <2>6 DEF Forms
<1>5. ASSUME Quiet
      PROVE  Forms'
  <2>1. rows' = rows
    BY <1>5 DEF Quiet
  <2>2. Ordered(rows)'
    BY <1>1, <2>1 DEF Ordered, RowsTyped, Dense, InLevel
  <2>3. CASE Saving' \subseteq Saving
    BY <1>1, <1>2, <2>1, <2>2, <2>3 DEF Forms, CreatesAlone
  <2>4. CASE \E s \in Sponsor, isNew \in BOOLEAN : UploadLogo(s, isNew)
    <3>1. PICK s \in Sponsor, isNew \in BOOLEAN : UploadLogo(s, isNew)
      BY <2>4
    <3> DEFINE new == [op |-> IF isNew THEN "create" ELSE "update", id |-> s, key |-> Key(s, This)]
    <3>2. /\ work' = work \cup {new}
          /\ IF isNew THEN rows[s] = NULL /\ \A key \in stored : key[1] # s ELSE rows[s] # NULL
      BY <3>1 DEF UploadLogo, Begin
    <3>3. /\ new.op = IF isNew THEN "create" ELSE "update"
          /\ new.id = s /\ new.key \in Sponsor \X Nat
      BY <1>3 DEF Key, This
    <3> HIDE DEF new
    <3>4. Saving' = Saving \cup {new}
      BY <3>2, <3>3 DEF Saving
    <3>5. isNew => \A w \in Saving : w.id # s
      BY <1>3, <3>2 DEF Made
    <3>6. ~isNew => \A w \in Saving : w.op = "create" => w.id # s
      BY <1>1, <3>2 DEF CreatesAlone
    <3>7. CreatesAlone'
      BY <1>1, <2>1, <3>2, <3>3, <3>4, <3>5, <3>6 DEF CreatesAlone
    <3>8. \A w \in Saving' : w.key \in Sponsor \X Nat
      BY <1>1, <3>3, <3>4
    <3> QED
      BY <1>2, <2>2, <3>7, <3>8 DEF Forms
  <2> QED
    BY <1>5, <2>3, <2>4 DEF Quiet
<1> QED
  BY <1>4, <1>5, WriteOrQuiet

\* Some list of a set is one.
LEMMA ListOfSet ==
  ASSUME NEW S, IsFiniteSet(S)
  PROVE  Lists(SetToSeq(S), S)
<1> DEFINE n == Cardinality(S)
<1>1. n \in Nat /\ ExistsBijection(1 .. n, S)
  BY FS_CardinalityType
<1> HIDE DEF n
<1>2. PICK f : f \in Bijection(1 .. n, S)
  BY <1>1 DEF ExistsBijection
<1>3. f \in [1 .. n -> S] /\ \A a, b \in 1 .. n : f[a] = f[b] => a = b
  BY <1>2 DEF Bijection, Injection, IsInjective
<1>4. \A a, b \in DOMAIN f : f[a] = f[b] => a = b
  BY <1>3
<1>5. \E g \in [1 .. n -> S] : \A a, b \in DOMAIN g : g[a] = g[b] => a = b
  BY <1>3, <1>4
<1>6. /\ SetToSeq(S) \in [1 .. n -> S]
      /\ \A a, b \in DOMAIN SetToSeq(S) : SetToSeq(S)[a] = SetToSeq(S)[b] => a = b
  BY <1>5 DEF SetToSeq, IsInjective, n
<1>7. SetToSeq(S) \in SetToSeqs(S)
  BY <1>6 DEF SetToSeqs, n
<1> QED
  BY <1>7, ListsAll

\* A whole level numbered afresh; the other levels are as they were.
LEMMA LevelNumbered ==
  ASSUME NEW r, RowsTyped(r), NEW level
  PROVE  LET z == Renumber(r, SetToSeq(InLevel(r, level)))
         IN  /\ RowsTyped(z) /\ \A l : InLevel(z, l) = InLevel(r, l)
             /\ Dense(z, InLevel(r, level))
             /\ \A l : l # level => \A t \in InLevel(r, l) : z[t] = r[t]
<1> DEFINE S == InLevel(r, level)
           q == SetToSeq(S)
           z == Renumber(r, q)
<1>1. S \in SUBSET Sponsor /\ \A t \in S : r[t] # NULL /\ r[t].level = level
  BY DEF InLevel
<1>2. \A l : \A t \in InLevel(r, l) : t \in Sponsor /\ r[t].level = l
  BY DEF InLevel
<1> HIDE DEF S
<1>3. Lists(q, S)
  BY <1>1, SponsorAssumption, FS_Subset, ListOfSet
<1> HIDE DEF q
<1>4. RowsTyped(z)
  BY <1>1, <1>3, RenumberIs
<1>5. \A t \in Sponsor : t \notin S => z[t] = r[t]
  BY <1>1, <1>3, RenumberIs
<1>6. \A t \in S : z[t] # NULL /\ z[t].level = r[t].level
  BY <1>1, <1>3, RenumberIs
<1>7. Dense(z, S)
  BY <1>1, <1>3, RenumberDense
<1> HIDE DEF z
<1>8. \A l : InLevel(z, l) = InLevel(r, l)
  BY <1>1, <1>5, <1>6 DEF InLevel
<1>9. \A l : l # level => \A t \in InLevel(r, l) : z[t] = r[t]
  BY <1>1, <1>2, <1>5
<1> QED
  BY <1>4, <1>7, <1>8, <1>9 DEF z, q, S

\* The rows that were there are in order at first.
LEMMA FirstRows ==
  ASSUME Init
  PROVE  /\ Ordered(rows)
         /\ \E level \in [Sponsor -> Level \cup {NULL}] :
              /\ stored = {Cover(0)} \cup {Key(s, 0) : s \in {t \in Sponsor : level[t] # NULL}}
              /\ \A s \in Sponsor : level[s] # NULL => rows[s] # NULL
<1>1. PICK level \in [Sponsor -> Level \cup {NULL}] :
        LET first == [s \in Sponsor |-> IF level[s] = NULL THEN NULL
                        ELSE [level |-> level[s], position |-> 0, logo |-> Key(s, 0)]]
            presenting == InLevel(first, "presenting")
            partners == Renumber(first, SetToSeq(InLevel(first, "partner")))
        IN  /\ Cardinality(presenting) <= 1
            /\ rows = Renumber(Renumber(partners, SetToSeq(presenting)),
                               SetToSeq(InLevel(first, "supporter")))
            /\ stored = {Cover(0)} \cup {Key(s, 0) : s \in {t \in Sponsor : level[t] # NULL}}
  BY DEF Init
<1> DEFINE first == [s \in Sponsor |-> IF level[s] = NULL THEN NULL
                       ELSE [level |-> level[s], position |-> 0, logo |-> Key(s, 0)]]
           one == Renumber(first, SetToSeq(InLevel(first, "partner")))
           two == Renumber(one, SetToSeq(InLevel(one, "presenting")))
           three == Renumber(two, SetToSeq(InLevel(two, "supporter")))
<1>2. /\ Cardinality(InLevel(first, "presenting")) <= 1
      /\ rows = Renumber(Renumber(one, SetToSeq(InLevel(first, "presenting"))),
                         SetToSeq(InLevel(first, "supporter")))
  BY <1>1
<1>3. RowsTyped(first)
  <2>1. \A s \in Sponsor : Key(s, 0) \in Sponsor \X Nat
    BY DEF Key
  <2>2. \A s \in Sponsor : level[s] \in Level \cup {NULL} /\ 0 \in Int
    OBVIOUS
  <2> HIDE DEF Level
  <2>3. \A s \in Sponsor : first[s] \in SponsorRow \cup {NULL}
    BY <2>1, <2>2 DEF SponsorRow
  <2> QED
    BY <2>3 DEF RowsTyped
<1>b. \A s \in Sponsor : level[s] # NULL => s \in InLevel(first, level[s])
  <2> SUFFICES ASSUME NEW s \in Sponsor, level[s] # NULL
               PROVE  s \in InLevel(first, level[s])
    OBVIOUS
  <2>1. first[s] \in SponsorRow \cup {NULL}
    BY <1>3 DEF RowsTyped
  <2>2. first[s] = [level |-> level[s], position |-> 0, logo |-> Key(s, 0)]
    OBVIOUS
  <2>3. [level |-> level[s], position |-> 0, logo |-> Key(s, 0)] \in SponsorRow
    <3>1. level[s] \in Level /\ 0 \in Int /\ Key(s, 0) \in Sponsor \X Nat
      BY DEF Key
    <3> HIDE DEF Level
    <3> QED
      BY <3>1 DEF SponsorRow
  <2>4. first[s] # NULL /\ first[s].level = level[s]
    BY <2>2, <2>3, NullAssumption
  <2> HIDE DEF first
  <2> QED
    BY <2>4 DEF InLevel
<1>c. stored = {Cover(0)} \cup {Key(s, 0) : s \in {t \in Sponsor : level[t] # NULL}}
  BY <1>1
<1> HIDE DEF first
<1>4. /\ RowsTyped(one) /\ (\A l : InLevel(one, l) = InLevel(first, l))
      /\ Dense(one, InLevel(first, "partner"))
  BY <1>3, LevelNumbered
<1> HIDE DEF one
<1>5. /\ RowsTyped(two) /\ (\A l : InLevel(two, l) = InLevel(one, l))
      /\ Dense(two, InLevel(one, "presenting"))
      /\ \A l : l # "presenting" => \A t \in InLevel(one, l) : two[t] = one[t]
  BY <1>4, LevelNumbered
<1>a. rows = Renumber(two, SetToSeq(InLevel(first, "supporter")))
  BY <1>2, <1>4
<1> HIDE DEF two
<1>6. /\ RowsTyped(three) /\ (\A l : InLevel(three, l) = InLevel(two, l))
      /\ Dense(three, InLevel(two, "supporter"))
      /\ \A l : l # "supporter" => \A t \in InLevel(two, l) : three[t] = two[t]
  BY <1>5, LevelNumbered
<1>7. rows = three
  BY <1>a, <1>4, <1>5
<1> HIDE DEF three
<1>8. Dense(three, InLevel(three, "supporter"))
  BY <1>6
<1>9. Dense(three, InLevel(three, "presenting"))
  <2>1. Dense(two, InLevel(two, "presenting")) /\ \A t \in InLevel(two, "presenting") : three[t] = two[t]
    BY <1>5, <1>6
  <2>2. Dense(three, InLevel(two, "presenting"))
    BY <2>1, DenseAs
  <2> QED
    BY <1>6, <2>2
<1>10. Dense(three, InLevel(three, "partner"))
  <2>1. Dense(one, InLevel(one, "partner")) /\ \A t \in InLevel(one, "partner") : two[t] = one[t]
    BY <1>4, <1>5
  <2>2. Dense(two, InLevel(one, "partner"))
    BY <2>1, DenseAs
  <2>3. Dense(two, InLevel(two, "partner")) /\ \A t \in InLevel(two, "partner") : three[t] = two[t]
    BY <1>5, <1>6, <2>2
  <2>4. Dense(three, InLevel(two, "partner"))
    BY <2>3, DenseAs
  <2> QED
    BY <1>6, <2>4
<1>11. InLevel(three, "presenting") = InLevel(first, "presenting")
  BY <1>4, <1>5, <1>6
<1>12. Ordered(three)
  BY <1>2, <1>6, <1>8, <1>9, <1>10, <1>11 DEF Ordered, Level
<1>13. \A s \in Sponsor : level[s] # NULL => rows[s] # NULL
  <2>1. \A l : InLevel(rows, l) = InLevel(first, l)
    BY <1>4, <1>5, <1>6, <1>7
  <2> QED
    BY <1>b, <2>1 DEF InLevel
<1> QED
  BY <1>7, <1>c, <1>12, <1>13

\* The rows are in order at first, and no request is under way.
LEMMA FormsFirst == Init => Forms
<1> SUFFICES ASSUME Init PROVE Forms
  OBVIOUS
<1>1. Saving = {}
  BY DEF Init, Saving
<1> QED
  BY <1>1, FirstRows, PicturesFirst DEF Forms, CreatesAlone

\* Whatever two admins do at once, a level's positions are 1..n and at most one
\* sponsor is presenting: each transaction leaves whole levels numbered, and
\* the lock puts one after the other.
THEOREM PositionsStayDense == Spec => []PositionsDense
<1>1. Forms => PositionsDense
  BY DEF Forms, Ordered, Dense, PositionsDense
<1> QED
  BY <1>1, FormsFirst, FormsKept, PTL DEF Spec

\* A form moves one sponsor, and nobody past anybody else: not those it makes
\* room among, not those it closes the gap of, not those below a new partner.
THEOREM FormsMoveOne == Spec => OthersKeepOrder
<1>1. Forms /\ [Next]_vars
        => [\E s \in Sponsor : \A a, b \in Sponsor \ {s} :
              /\ rows[a] # NULL /\ rows[b] # NULL /\ rows'[a] # NULL /\ rows'[b] # NULL
              /\ rows[a].level = rows[b].level
              /\ rows'[a].level = rows[a].level /\ rows'[b].level = rows[b].level
              => ((rows[a].position < rows[b].position) <=> (rows'[a].position < rows'[b].position))]_vars
  <2> SUFFICES ASSUME Forms, [Next]_vars
               PROVE  \E s \in Sponsor : KeepsOrder(rows, rows', s)
    BY DEF KeepsOrder
  <2>1. CASE Quiet
    <3>1. PICK s \in Sponsor : TRUE
      BY SponsorAssumption
    <3>2. KeepsOrder(rows, rows', s)
      BY <2>1 DEF Quiet, KeepsOrder
    <3> QED
      BY <3>2
  <2>2. CASE \E s \in Sponsor, over \in SUBSET Saving : Write(s, over)
    BY <2>2 DEF Write, Formed
  <2> QED
    BY <2>1, <2>2, WriteOrQuiet
<1> QED
  BY <1>1, FormsFirst, FormsKept, PTL DEF Spec, OthersKeepOrder

\* Every logo in the bucket is a row's, a request's or about to go, or a crash
\* or a failed deletion left it.
NothingLeft ==
  \A key \in stored :
    key[1] \in Sponsor =>
      \/ rows[key[1]] # NULL /\ rows[key[1]].logo = key
      \/ key \in trash \cup orphans
      \/ \E w \in Saving : w.key = key

\* Every action keeps the bucket free of logos that are nobody's.
LEMMA NothingLeftKept == Forms /\ NothingLeft /\ [Next]_vars => NothingLeft'
<1> SUFFICES ASSUME Forms, NothingLeft, [Next]_vars,
                    NEW key \in stored', key[1] \in Sponsor
             PROVE  \/ rows'[key[1]] # NULL /\ rows'[key[1]].logo = key
                    \/ key \in trash' \cup orphans'
                    \/ \E w \in Saving' : w.key = key
  BY DEF NothingLeft
<1>1. \A w \in Saving : Made(w.key, w.id)
  BY DEF Forms, Pictures, Keys
<1>2. key[1] # "event"
  BY SponsorAssumption
<1>3. key \in stored => \/ rows[key[1]] # NULL /\ rows[key[1]].logo = key
                        \/ key \in trash \cup orphans
                        \/ \E w \in Saving : w.key = key
  BY DEF NothingLeft
<1>4. CASE Quiet
  BY <1>2, <1>3, <1>4 DEF Quiet
<1>5. ASSUME NEW s \in Sponsor, NEW over \in SUBSET Saving, Write(s, over)
      PROVE  \/ rows'[key[1]] # NULL /\ rows'[key[1]].logo = key
             \/ key \in trash' \cup orphans'
             \/ \E w \in Saving' : w.key = key
  <2>1. /\ Saving' = Saving \ over /\ stored' = stored /\ orphans' = orphans /\ trash \subseteq trash'
        /\ \A w \in over : rows'[w.id] # NULL /\ rows'[w.id].logo = w.key
        /\ \A t \in Sponsor : rows[t] # NULL =>
             rows[t].logo \in trash' \/ (rows'[t] # NULL /\ rows'[t].logo = rows[t].logo)
    BY <1>5 DEF Write
  <2>2. CASE \E w \in over : w.key = key
    <3>1. PICK w \in over : w.key = key
      BY <2>2
    <3>2. w.id = key[1]
      BY <1>1, <3>1 DEF Made
    <3> QED
      BY <2>1, <3>1, <3>2
  <2>3. CASE ~\E w \in over : w.key = key
    BY <1>3, <2>1, <2>3
  <2> QED
    BY <2>2, <2>3
<1> QED
  BY <1>4, <1>5, WriteOrQuiet

\* The bucket and the rows agree: no picture dangles, and no logo is left in
\* the bucket but by a crash or a failed deletion.
THEOREM BucketAgrees == Spec => []BucketMatchesRows
<1>1. Init => NothingLeft
  <2> SUFFICES ASSUME Init, NEW key \in stored, key[1] \in Sponsor
               PROVE  rows[key[1]] # NULL /\ rows[key[1]].logo = key
    BY DEF NothingLeft
  <2>1. PICK level \in [Sponsor -> Level \cup {NULL}] :
          /\ stored = {Cover(0)} \cup {Key(s, 0) : s \in {t \in Sponsor : level[t] # NULL}}
          /\ \A s \in Sponsor : level[s] # NULL => rows[s] # NULL
    BY FirstRows
  <2>2. ASSUME NEW k \in stored, k[1] \in Sponsor
        PROVE  level[k[1]] # NULL /\ k = Key(k[1], 0)
    BY <2>1, <2>2, SponsorAssumption DEF Cover, Key
  <2>3. rows[key[1]] # NULL
    BY <2>1, <2>2
  <2>4. rows[key[1]].logo \in stored /\ rows[key[1]].logo[1] = key[1]
    BY <2>3, PicturesFirst DEF Pictures, Keys, LogosKept, Made
  <2>5. rows[key[1]].logo = Key(key[1], 0) /\ key = Key(key[1], 0)
    BY <2>2, <2>4
  <2> QED
    BY <2>3, <2>5
<1>2. Forms /\ NothingLeft => BucketMatchesRows
  BY DEF Forms, Pictures, LogosKept, CoversKept, PicturesExist, NothingLeft, Saving, BucketMatchesRows
<1> QED
  BY <1>1, <1>2, FormsFirst, FormsKept, NothingLeftKept, PTL DEF Spec

\* Requests are as many as are allowed.
LEMMA RequestsBounded ==
  requests \in 0 .. MaxRequests /\ [Next]_vars => requests' \in 0 .. MaxRequests
<1> SUFFICES ASSUME requests \in 0 .. MaxRequests, [Next]_vars
             PROVE  requests' = requests \/ (requests < MaxRequests /\ requests' = requests + 1)
  BY BoundAssumption
<1> USE DEF Begin, End, Request, This
<1>1. ASSUME SponsorStep
      PROVE  requests' = requests \/ Request
  BY <1>1 DEF SponsorStep, Edit, Create, Update, UploadLogo, Delete, SetPosition, SaveFails
<1>2. ASSUME BucketStep
      PROVE  requests' = requests \/ Request
  BY <1>2 DEF BucketStep, DeleteObject, DeleteObjectFails, Crash
<1>3. ASSUME EventStep
      PROVE  requests' = requests \/ Request
  BY <1>3 DEF EventStep, UploadCover, ReadForRemoval, ReadForCover, ReadStatus, SetImageKey, TransitionStatus
<1>4. ASSUME TicketStep
      PROVE  requests' = requests \/ Request
  BY <1>4 DEF TicketStep, CancelTicket, ReadForRename, Rename
<1> QED
  BY <1>1, <1>2, <1>3, <1>4 DEF Next, vars

\* The type invariant: every sponsor's place is a position of its level, every
\* key lies with its owner, and what the browser may report is in the bucket.
THEOREM DeskTyped == Spec => []TypeOK
<1> DEFINE Rest == /\ event.status \in Status /\ requests \in 0 .. MaxRequests
<1>1. Init => Forms
  BY FormsFirst
<1>a. Init => Names
  BY DEF Init, Names, NameTrailExact
<1>2. Init => Rest
  <2> SUFFICES ASSUME Init PROVE Rest
    OBVIOUS
  <2>1. event = [status |-> "draft", image |-> Cover(0)] /\ requests = 0
    BY DEF Init
  <2> QED
    BY <2>1, BoundAssumption DEF Status
<1>3. Rest /\ [Next]_vars
        /\ [event'.status # event.status => <<event.status, event'.status>> \in EventTransitions]_vars
        => Rest'
  BY RequestsBounded DEF Status, EventTransitions, vars, db
<1>4. Forms /\ Names /\ Rest => TypeOK
  <2> SUFFICES ASSUME Forms, Names, Rest PROVE TypeOK
    OBVIOUS
  <2>1. ASSUME NEW s \in Sponsor, rows[s] # NULL
        PROVE  rows[s].level \in Level /\ rows[s].position \in Nat \ {0}
    <3>1. rows[s] \in [level : Level, position : Int, logo : Sponsor \X Nat]
      BY <2>1 DEF Forms, Ordered, RowsTyped, SponsorRow
    <3> DEFINE l == rows[s].level
               S == InLevel(rows, l)
    <3>2. l \in Level
      BY <3>1
    <3>3. s \in S /\ Dense(rows, S)
      BY <2>1, <3>2 DEF Forms, Ordered, InLevel
    <3> HIDE DEF S, l
    <3>4. rows[s].position \in 1 .. Cardinality(S)
      BY <3>3 DEF Dense
    <3> QED
      BY <3>2, <3>4 DEF l
  <2>2. \A s \in Sponsor : rows[s] # NULL => rows[s].logo[1] = s
    BY DEF Forms, Pictures, Keys, Made
  <2>3. event.image = NULL \/ event.image[1] = "event"
    BY DEF Forms, Pictures, Keys, Made
  <2>4. uploaded \subseteq stored
    BY DEF Forms, Pictures, CoversKept
  <2>5. ticket \in [name : Name, issued : BOOLEAN]
    BY DEF Names
  <2> QED
    BY <2>1, <2>2, <2>3, <2>4, <2>5 DEF TypeOK
<1> QED
  BY <1>1, <1>a, <1>2, <1>3, <1>4, FormsKept, NamesKept, StatusMoves, PTL DEF Spec, StatusMovesLegal
=============================================================================
