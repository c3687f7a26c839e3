------------------------------ MODULE RelayRoom ------------------------------
(***************************************************************************)
(* The gate relay.  The server announces every check-in, undo and revoked  *)
(* pass after its commit, through a queue whose worker delivers one        *)
(* announcement at a time and tries a failed one again later; a room (one  *)
(* single-threaded durable object per event) keeps a row per ticket and    *)
(* tells the door phones; a phone that comes back asks for what it missed  *)
(* by the last sequence number it heard and the room's epoch.              *)
(*                                                                         *)
(* Times are numbered check-ins; gate names, page sizes, rates and expiry  *)
(* of the signed passes are left out, and a batch of re-sent claims is its *)
(* items one by one.                                                       *)
(***************************************************************************)
EXTENDS Integers, Sequences, SequencesExt, FiniteSets

CONSTANTS
  Ticket,       \* tickets
  Pass,         \* gate passes
  Phone,        \* door phones
  PassOf,       \* [Phone -> Pass]
  NULL,
  UndoSlack,    \* UNDO_SLACK_MS, in ticks
  PassClaimCap, \* PASS_CLAIM_CAP
  RoomCap,      \* ROOM_CAP
  MaxTries,     \* attempts of a queued announcement
  RacyEnqueue,  \* whether two commits may reach the queue in the other order
  TornCatchUp,  \* whether a link may drop in the middle of a catch-up
  MaxCommits,   \* bound on what the server announces
  MaxSeq,       \* bound on the sequence numbers of one room
  MaxEpoch      \* bound on the rebuilds of the room

\* A check-in as the room stores it: of a pass as long as the server has not
\* confirmed it.
RoomRow ==
  [at : 1 .. MaxCommits + 1, pass : Pass \cup {NULL}, confirmed : BOOLEAN,
   seq : 1 .. MaxSeq, removed : {"no", "gate", "server"}]

ASSUME NullAssumption ==
  /\ NULL \notin Ticket /\ NULL \notin Pass /\ NULL \notin Phone
  /\ NULL \notin RoomRow /\ NULL \notin Nat
ASSUME TicketAssumption == IsFiniteSet(Ticket)
ASSUME PassAssumption == PassOf \in [Phone -> Pass]
ASSUME BoundAssumption ==
  /\ UndoSlack \in Nat /\ PassClaimCap \in Nat /\ RoomCap \in Nat
  /\ MaxTries \in Nat \ {0} /\ RacyEnqueue \in BOOLEAN /\ TornCatchUp \in BOOLEAN
  /\ MaxCommits \in Nat /\ MaxSeq \in Nat /\ MaxEpoch \in Nat \ {0}

VARIABLES
  log,        \* the announcements, in the order of their commits
  unqueued,   \* those (by their place in log) the web app has yet to enqueue
  waiting,    \* the queue: places in log, the next one first
  delayed,    \* failed ones, waiting for their backoff to end
  tries,      \* failed attempts at each
  delivered,  \* what the room has taken from the server, in that order
  rows,       \* the room's row of each ticket, NULL = none
  seq,        \* the room's last sequence number
  epoch,      \* which room this is
  revoked,    \* passes the room keeps out
  phones      \* per phone: its link, what is on its way to it, its cursor, what it knows

vars == <<log, unqueued, waiting, delayed, tries, delivered, rows, seq, epoch, revoked, phones>>

Row(at, pass, confirmed, n, removed) ==
  [at |-> at, pass |-> pass, confirmed |-> confirmed, seq |-> n, removed |-> removed]

Standing(row) == row # NULL /\ row.removed = "no"

\* A message to a phone; news is a set of <<ticket, seq>>.
Message(kind, news, catchup) ==
  [kind |-> kind, news |-> news, epoch |-> epoch, catchup |-> catchup]

Kind(row) == IF row.removed = "no" THEN "checkins" ELSE "undo"

-----------------------------------------------------------------------------
(* The server: what its commits announce.                                  *)

AboutTicket(n, k) == log[n].kind \in {"in", "undo"} /\ log[n].subject = k

\* Ticket k as its last commit left it: the time of the check-in, or NULL.
CheckedIn(k) ==
  LET of == {n \in DOMAIN log : AboutTicket(n, k)}
  IN  IF of = {} THEN NULL
      ELSE LET last == CHOOSE n \in of : \A m \in of : m <= n
           IN  IF log[last].kind = "in" THEN log[last].at ELSE NULL

Commit(kind, subject, at) ==
  /\ Len(log) < MaxCommits
  /\ log' = Append(log, [kind |-> kind, subject |-> subject, at |-> at])
  /\ unqueued' = unqueued \cup {Len(log) + 1}
  /\ UNCHANGED <<waiting, delayed, tries, delivered, rows, seq, epoch, revoked, phones>>

\* A check-in, now or (an offline one that is synced) in the past; no two of
\* a ticket are of the same millisecond.
CommitIn(k, at) ==
  /\ CheckedIn(k) = NULL
  /\ \A n \in DOMAIN log : AboutTicket(n, k) => log[n].at # at
  /\ Commit("in", k, at)

CommitUndo(k) == CheckedIn(k) # NULL /\ Commit("undo", k, CheckedIn(k))

CommitRevoke(p) ==
  /\ \A n \in DOMAIN log : log[n].kind = "revoke" => log[n].subject # p
  /\ Commit("revoke", p, NULL)

-----------------------------------------------------------------------------
(* The queue.                                                              *)

\* announce queues it after the commit, and nobody waits for that.
Enqueue(n) ==
  /\ n \in unqueued
  /\ RacyEnqueue \/ \A m \in unqueued : n <= m
  /\ unqueued' = unqueued \ {n}
  /\ waiting' = Append(waiting, n)
  /\ UNCHANGED <<log, delayed, tries, delivered, rows, seq, epoch, revoked, phones>>

\* Redis cannot be reached in time: the announcement is lost.
EnqueueFails(n) ==
  /\ n \in unqueued
  /\ unqueued' = unqueued \ {n}
  /\ UNCHANGED <<log, waiting, delayed, tries, delivered, rows, seq, epoch, revoked, phones>>

\* The attempt failed: again after a while, unless it was the last one.
Retry(n) ==
  /\ tries' = [tries EXCEPT ![n] = @ + 1]
  /\ delayed' = IF tries[n] + 1 < MaxTries THEN delayed \cup {n} ELSE delayed

BackoffOver(n) ==
  /\ n \in delayed
  /\ delayed' = delayed \ {n}
  /\ waiting' = Append(waiting, n)
  /\ UNCHANGED <<log, unqueued, tries, delivered, rows, seq, epoch, revoked, phones>>

-----------------------------------------------------------------------------
(* The room.                                                               *)

\* Every phone with a link gets these messages, except "sender".
Broadcast(messages, sender) ==
  [p \in Phone |-> IF phones[p].up /\ p # sender
                     THEN [phones[p] EXCEPT !.inbox = @ \o messages]
                     ELSE phones[p]]

\* Row r replaces k's row, under the next seq, and everyone hears of it.
Put(k, r) ==
  /\ seq < MaxSeq
  /\ seq' = seq + 1
  /\ rows' = [rows EXCEPT ![k] = r]
  /\ phones' = Broadcast(<<Message(Kind(r), {<<k, seq + 1>>}, FALSE)>>, NULL)
  /\ UNCHANGED <<epoch, revoked>>

\* fromServer "in": a repeat, or a check-in that was undone since.
AlreadyTaken(row, at) ==
  \/ Standing(row) /\ row.confirmed /\ row.at = at
  \/ row # NULL /\ row.removed = "server" /\ row.at >= at

TakeIn(k, at) ==
  IF AlreadyTaken(rows[k], at) THEN UNCHANGED <<rows, seq, epoch, revoked, phones>>
  ELSE Put(k, Row(at, NULL, TRUE, seq + 1, "no"))

\* Seeded faults: an undo takes away whatever row there is; an undo of a
\* confirmed check-in is taken for a stale one.
UndoOfAnother_Never(row, at) == FALSE
UndoOfAnother_Confirmed(row, at) == Standing(row) /\ row.confirmed
\* fromServer "undo": of another check-in than the room's, or older than a claim.
UndoOfAnother(row, at) ==
  /\ Standing(row)
  /\ IF row.confirmed THEN row.at # at ELSE row.at > at + UndoSlack

TakeUndo(k, at) ==
  IF UndoOfAnother(rows[k], at) THEN UNCHANGED <<rows, seq, epoch, revoked, phones>>
  ELSE Put(k, Row(at, NULL, TRUE, seq + 1, "server"))

ClaimsOf_None(p) == {}  \* seeded fault: a revoked pass's claims stay
ClaimsOf(p) == {k \in Ticket : Standing(rows[k]) /\ ~rows[k].confirmed /\ rows[k].pass = p}

\* fromServer "revoke": the pass's claims go, and then its sockets.  (A message
\* is handled when it is sent: that the runtime hands over none of a socket
\* closed here is assumed, webSocketMessage itself does not ask.)
TakeRevoke(p) ==
  \E order \in SetToSeqs(ClaimsOf(p)) :
    LET Place(k) == CHOOSE i \in DOMAIN order : order[i] = k
        messages == [i \in DOMAIN order |->
                       Message("undo", {<<order[i], seq + i>>}, FALSE)]
        told == Broadcast(messages, NULL)
    IN  /\ seq + Len(order) <= MaxSeq
        /\ seq' = seq + Len(order)
        /\ rows' = [k \in Ticket |->
                      IF k \in ClaimsOf(p)
                        THEN [rows[k] EXCEPT !.removed = "gate", !.seq = seq + Place(k)]
                        ELSE rows[k]]
        /\ revoked' = revoked \cup {p}
        /\ phones' = [f \in Phone |-> IF PassOf[f] = p
                                        THEN [told[f] EXCEPT !.up = FALSE, !.inbox = <<>>]
                                        ELSE told[f]]
        /\ UNCHANGED epoch

FromServer(n) ==
  /\ delivered' = Append(delivered, n)
  /\ \/ log[n].kind = "in" /\ TakeIn(log[n].subject, log[n].at)
     \/ log[n].kind = "undo" /\ TakeUndo(log[n].subject, log[n].at)
     \/ log[n].kind = "revoke" /\ TakeRevoke(log[n].subject)

\* One attempt of the worker at the head of the queue: it arrives ...
Deliver ==
  /\ waiting # <<>>
  /\ waiting' = Tail(waiting)
  /\ FromServer(Head(waiting))
  /\ UNCHANGED <<log, unqueued, delayed, tries>>

\* ... or it arrives, and the answer does not ...
DeliverUnanswered ==
  /\ waiting # <<>>
  /\ waiting' = Tail(waiting)
  /\ FromServer(Head(waiting))
  /\ Retry(Head(waiting))
  /\ UNCHANGED <<log, unqueued>>

\* ... or it never gets there.
DeliverFails ==
  /\ waiting # <<>>
  /\ waiting' = Tail(waiting)
  /\ Retry(Head(waiting))
  /\ UNCHANGED <<log, unqueued, delivered, rows, seq, epoch, revoked, phones>>

\* fromPhone "in": the first word on a ticket stands.
Claim(p, k, at) ==
  /\ phones[p].up
  /\ ~Standing(rows[k])
  /\ Cardinality({t \in Ticket : rows[t] # NULL}) < RoomCap
  /\ Cardinality({t \in Ticket : rows[t] # NULL /\ rows[t].pass = PassOf[p]}) < PassClaimCap
  /\ seq < MaxSeq
  /\ seq' = seq + 1
  /\ rows' = [rows EXCEPT ![k] = Row(at, PassOf[p], FALSE, seq + 1, "no")]
  /\ phones' = [Broadcast(<<Message("checkins", {<<k, seq + 1>>}, FALSE)>>, p)
                  EXCEPT ![p].knows[k] = <<epoch, seq + 1>>]
  /\ UNCHANGED <<log, unqueued, waiting, delayed, tries, delivered, epoch, revoked>>

\* Seeded fault: a phone may take back what the server has confirmed.
Unclaimable_Confirmed(p, row) == Standing(row)
\* fromPhone "undo": this pass's own claim, before the server has it.
Unclaimable(p, row) == Standing(row) /\ ~row.confirmed /\ row.pass = PassOf[p]

Unclaim(p, k) ==
  /\ phones[p].up
  /\ Unclaimable(p, rows[k])
  /\ seq < MaxSeq
  /\ seq' = seq + 1
  /\ rows' = [rows EXCEPT ![k].removed = "gate", ![k].seq = seq + 1]
  /\ phones' = [Broadcast(<<Message("undo", {<<k, seq + 1>>}, FALSE)>>, p)
                  EXCEPT ![p].knows[k] = <<epoch, seq + 1>>]
  /\ UNCHANGED <<log, unqueued, waiting, delayed, tries, delivered, epoch, revoked>>

\* A new schema: the check-ins go, the revocations stay, every socket closes,
\* and the room is another one.
Rebuild ==
  /\ epoch < MaxEpoch
  /\ epoch' = epoch + 1
  /\ rows' = [k \in Ticket |-> NULL]
  /\ seq' = 0
  /\ delivered' = <<>>
  /\ phones' = [p \in Phone |-> [phones[p] EXCEPT !.up = FALSE, !.inbox = <<>>]]
  /\ UNCHANGED <<log, unqueued, waiting, delayed, tries, revoked>>

-----------------------------------------------------------------------------
(* A phone's link.                                                         *)

\* Seeded fault: a cursor of another room is taken for one of this room.
CatchUpFrom_AnyRoom(p) == IF phones[p].heard > seq THEN 0 ELSE phones[p].heard
\* Where the catch-up starts: at the cursor, if it is a place in this room.
CatchUpFrom(p) ==
  IF phones[p].epoch # epoch \/ phones[p].heard > seq THEN 0 ELSE phones[p].heard

\* backlog: the room's name, then all rows that stand, then each undo.
Backlog(p) ==
  LET missed   == {k \in Ticket : rows[k] # NULL /\ rows[k].seq > CatchUpFrom(p)}
      stands   == {k \in missed : Standing(rows[k])}
      undoes   == CHOOSE s \in SetToSeqs(missed \ stands) :
                    \A i, j \in DOMAIN s : i < j => rows[s[i]].seq < rows[s[j]].seq
  IN  <<Message("hello", {}, TRUE)>>
      \o (IF stands = {} THEN <<>>
          ELSE <<Message("checkins", {<<k, rows[k].seq>> : k \in stands}, TRUE)>>)
      \o [i \in DOMAIN undoes |->
            Message("undo", {<<undoes[i], rows[undoes[i]].seq>>}, TRUE)]

Connect(p) ==
  /\ ~phones[p].up
  /\ PassOf[p] \notin revoked
  /\ phones' = [phones EXCEPT ![p].up = TRUE, ![p].inbox = Backlog(p)]
  /\ UNCHANGED <<log, unqueued, waiting, delayed, tries, delivered, rows, seq, epoch, revoked>>

\* The newest word on k once m is heard: m's, but for a claim the phone made
\* itself after m was sent.
NewestWord(known, k, m) ==
  LET said == {e[2] : e \in {d \in m.news : d[1] = k}}
      own  == IF known[1] = m.epoch THEN {known[2]} ELSE {}
  IN  IF said = {} THEN known ELSE <<m.epoch, Max(said \cup own)>>

Cursor_Kept(p, m) == phones[p].heard  \* seeded fault: kept across rooms
\* A hello of another room starts the cursor over.
Cursor(p, m) == IF m.epoch # phones[p].epoch THEN 0 ELSE phones[p].heard

\* onmessage: the cursor is the highest seq heard.
Hear(p) ==
  LET m == Head(phones[p].inbox)
  IN  /\ phones[p].inbox # <<>>
      /\ phones' = [phones EXCEPT ![p] =
           [up    |-> TRUE,
            inbox |-> Tail(phones[p].inbox),
            epoch |-> m.epoch,
            heard |-> Max({Cursor(p, m)} \cup {e[2] : e \in m.news}),
            knows |-> [k \in Ticket |-> NewestWord(phones[p].knows[k], k, m)]]]
      /\ UNCHANGED <<log, unqueued, waiting, delayed, tries, delivered, rows, seq, epoch,
                     revoked>>

InCatchUp(p) ==
  /\ \E i \in DOMAIN phones[p].inbox : phones[p].inbox[i].catchup
  /\ Head(phones[p].inbox).kind # "hello"

\* The link drops; what was on its way is lost.
Drop(p) ==
  /\ phones[p].up
  /\ TornCatchUp \/ ~InCatchUp(p)
  /\ phones' = [phones EXCEPT ![p].up = FALSE, ![p].inbox = <<>>]
  /\ UNCHANGED <<log, unqueued, waiting, delayed, tries, delivered, rows, seq, epoch, revoked>>

-----------------------------------------------------------------------------
Init ==
  /\ log = <<>> /\ unqueued = {}
  /\ waiting = <<>> /\ delayed = {} /\ tries = [n \in 1 .. MaxCommits |-> 0]
  /\ delivered = <<>>
  /\ rows = [k \in Ticket |-> NULL] /\ seq = 0 /\ epoch = 1 /\ revoked = {}
  /\ phones = [p \in Phone |-> [up |-> FALSE, inbox |-> <<>>, epoch |-> 0, heard |-> 0,
                                knows |-> [k \in Ticket |-> <<0, 0>>]]]

Next ==
  \/ \E k \in Ticket : (\E at \in 1 .. Len(log) + 1 : CommitIn(k, at)) \/ CommitUndo(k)
  \/ \E p \in Pass : CommitRevoke(p)
  \/ \E n \in DOMAIN log : Enqueue(n) \/ EnqueueFails(n) \/ BackoffOver(n)
  \/ Deliver \/ DeliverUnanswered \/ DeliverFails
  \/ \E p \in Phone, k \in Ticket :
       (\E at \in 1 .. Len(log) + 1 : Claim(p, k, at)) \/ Unclaim(p, k)
  \/ \E p \in Phone : Connect(p) \/ Hear(p) \/ Drop(p)
  \/ Rebuild

Spec == Init /\ [][Next]_vars

-----------------------------------------------------------------------------
(* Properties.                                                             *)

Announcement ==
  [kind : {"in", "undo"}, subject : Ticket, at : 1 .. MaxCommits]
    \cup [kind : {"revoke"}, subject : Pass, at : {NULL}]

PhoneMessage ==
  [kind : {"hello", "checkins", "undo"}, news : SUBSET (Ticket \X (1 .. MaxSeq)),
   epoch : 1 .. MaxEpoch, catchup : BOOLEAN]

\* The type invariant; the rows of a room have different sequence numbers, no
\* phone's cursor is past what its room handed out, and a row belongs to a
\* pass exactly while the server has not taken it over.
TypeOK ==
  /\ log \in Seq(Announcement) /\ unqueued \subseteq DOMAIN log
  /\ waiting \in Seq(DOMAIN log) /\ delayed \subseteq DOMAIN log
  /\ tries \in [1 .. MaxCommits -> 0 .. MaxTries]
  /\ delivered \in Seq(DOMAIN log)
  /\ rows \in [Ticket -> RoomRow \cup {NULL}]
  /\ seq \in 0 .. MaxSeq /\ epoch \in 1 .. MaxEpoch /\ revoked \subseteq Pass
  /\ \A k \in Ticket : rows[k] # NULL =>
       /\ rows[k].seq <= seq
       /\ \A j \in Ticket \ {k} : rows[j] # NULL => rows[j].seq # rows[k].seq
       /\ rows[k].confirmed <=> rows[k].pass = NULL
  /\ \A p \in Phone :
       /\ phones[p].up \in BOOLEAN /\ phones[p].inbox \in Seq(PhoneMessage)
       /\ phones[p].epoch \in 0 .. epoch /\ phones[p].heard \in 0 .. MaxSeq
       /\ phones[p].epoch = epoch => phones[p].heard <= seq
       /\ phones[p].knows \in [Ticket -> (0 .. MaxEpoch) \X (0 .. MaxSeq)]

\* The announcements about k that reached the room.
Reached(k) == {delivered[i] : i \in {j \in DOMAIN delivered : AboutTicket(delivered[j], k)}}

\* None of them came twice, or after a later one.
InOrder(k) ==
  \A i, j \in {d \in DOMAIN delivered : AboutTicket(delivered[d], k)} :
    i < j => delivered[i] < delivered[j]

\* Everything the server announced about k reached the room, once and in order.
Heard(k) ==
  /\ Reached(k) # {} /\ InOrder(k)
  /\ Reached(k) = {n \in DOMAIN log : AboutTicket(n, k)}

\* A check-in of k is later than any undone before it: no offline check-in
\* was synced after the undo of a later one.
TimesInOrder(k) ==
  \A m, n \in {i \in DOMAIN log : AboutTicket(i, k)} :
    m < n /\ log[m].kind = "undo" /\ log[n].kind = "in" => log[m].at < log[n].at

\* Whatever the phones claim and take back meanwhile, a room that heard all of
\* the server's announcements about a ticket in order says of it what the
\* server does: confirmed in, at that time, or not.
RoomMatchesServer ==
  \A k \in Ticket : Heard(k) /\ TimesInOrder(k) =>
    IF CheckedIn(k) = NULL THEN ~(Standing(rows[k]) /\ rows[k].confirmed)
    ELSE Standing(rows[k]) /\ rows[k].confirmed /\ rows[k].at = CheckedIn(k)

\* The server's word falls only to the server's undo of that very check-in: no
\* phone removes a confirmed row, and no late, repeated or reordered undo of
\* an earlier check-in removes a re-admit.
ConfirmedFallsToItsUndo ==
  [][\A k \in Ticket :
       Standing(rows[k]) /\ rows[k].confirmed /\ epoch' = epoch =>
         \/ Standing(rows'[k]) /\ rows'[k].confirmed
         \/ \E n \in DOMAIN log :
              log[n] = [kind |-> "undo", subject |-> k, at |-> rows[k].at]]_vars

\* Once the room took a revocation, that pass has no socket and no claim of it
\* stands, although its phones may have been sending at that moment.
RevokedPassSilent ==
  \A p \in revoked :
    /\ \A f \in Phone : PassOf[f] = p => ~phones[f].up
    /\ \A k \in Ticket : Standing(rows[k]) => rows[k].pass # p

\* A phone whose link is up and has nothing on its way knows the newest word on
\* every ticket of the room, however often it was away, whatever was sent or
\* undone while it was, and also when the room was rebuilt.
PhoneKnowsRoom ==
  \A p \in Phone : phones[p].up /\ phones[p].inbox = <<>> =>
    \A k \in Ticket : rows[k] # NULL => phones[p].knows[k] = <<epoch, rows[k].seq>>

\* What room.ts says of a late announcement: a check-in whose undo the room
\* has taken does not come back.  (It does, once a claim has taken the place of
\* the undo's tombstone.)
UndoStands ==
  \A k \in Ticket : Standing(rows[k]) /\ rows[k].confirmed =>
    \A i \in DOMAIN delivered :
      log[delivered[i]] # [kind |-> "undo", subject |-> k, at |-> rows[k].at]
=============================================================================
