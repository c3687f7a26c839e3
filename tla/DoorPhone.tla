------------------------------ MODULE DoorPhone ------------------------------
(***************************************************************************)
(* A door phone and the server it may not reach.  The phone answers a scan *)
(* by itself when the server is slow (it shows ADMIT and checks behind the *)
(* person) or silent (it judges from its copy of the ticket list), and     *)
(* sends what it decided from an outbox, later and perhaps twice.  What it *)
(* knows beyond the list are its marks, one per ticket.  Requests the      *)
(* phone has given up on may still land; the page may be reloaded, and     *)
(* then only what IndexedDB holds is left.  IndexedDB is taken to work:    *)
(* the phone goes on without it when a write fails, with its memory only   *)
(* (store.ts), and what is kept for after a reload is then not kept.       *)
(*                                                                         *)
(* The server is one step per scan here (module Gate has its statements).  *)
(* One event with its doors open, one phone; other gates, the organizer    *)
(* and the relay are what the phone can see of them.  A tick is 7.5 s: the *)
(* 4 s of a scan request cross at most one, half of a list's 15 s round    *)
(* trip is the clock's error, and 15 s of grace are two.                   *)
(***************************************************************************)
EXTENDS Integers, Sequences, SequencesExt, FiniteSets

CONSTANTS
  Ticket,     \* tickets
  SyncBatch,  \* SYNC_BATCH
  Grace,      \* MARK_GRACE_MS, in ticks
  MaxSkew,    \* the error of the corrected clock, in ticks
  MaxScans,   \* bound on the scan ids made
  MaxClock,   \* bound on the clock
  MaxLosses,  \* bound on the requests the phone gives up on
  MaxReloads, \* bound on the reloads of the page
  MaxEvents,  \* bound on what happens around the phone: lists, pings, relay
              \* messages, and what others do at the server
  NULL

ASSUME BoundAssumption ==
  /\ SyncBatch \in Nat \ {0} /\ Grace \in Nat /\ MaxSkew \in Nat
  /\ MaxScans \in Nat /\ MaxClock \in Nat /\ MaxLosses \in Nat /\ MaxReloads \in Nat
  /\ MaxEvents \in Nat

Scan == 1 .. MaxScans
Elsewhere == 0  \* a check-in made at another gate, in the place of a scan id
CheckIn == Scan \cup {Elsewhere}

\* What the phone showed; NULL for a scan the server is to judge.
Verdict == {"admitted", "refused", "undone"}

\* A scan of the outbox, or one the server is asked about.
ItemType == [id : Scan, verdict : Verdict \cup {NULL}, supersedes : Scan \cup {NULL},
             attempted : BOOLEAN]
\* A row of the log; what the server answers of one scan.
Result == {"admitted", "already_in", "cancelled", "turned_away"}
RowType == [verdict : Verdict \cup {NULL}, result : Result, of : CheckIn \cup {NULL},
            supersedes : Scan \cup {NULL}]
AnswerType == [result : Result \cup {"rescan", "scan_id_conflict"}, of : CheckIn \cup {NULL}]
\* A list, on its way and adopted; a batch being sent; a mark on a ticket; a scan
\* that waits for its answer.
ListingType == [asOf : Nat, in : SUBSET Ticket, gone : SUBSET Ticket]
ListType == [in : SUBSET Ticket, gone : SUBSET Ticket]
SyncType == [step : {"saving", "sent", "removing"}, batch : Seq(ItemType)]
MarkType == [of : CheckIn, known : Int \cup {NULL}, source : {"own", "server", "relay"}]
WaitType == [id : Scan, race : BOOLEAN, since : Nat]

ASSUME NullAssumption ==
  /\ NULL \notin Ticket /\ NULL \notin Int /\ NULL \notin Verdict
  /\ NULL \notin RowType /\ NULL \notin AnswerType /\ NULL \notin ListingType
  /\ NULL \notin ListType
  /\ NULL \notin SyncType /\ NULL \notin MarkType /\ NULL \notin WaitType

Item(id, verdict, supersedes) ==
  [id |-> id, verdict |-> verdict, supersedes |-> supersedes, attempted |-> FALSE]
OnlineItem(id) == Item(id, NULL, NULL)

VARIABLES
  clock,    \* the server's clock
  ticket,   \* table tickets: live, and by = the check-in that stands
  rows,     \* table door_scans, by scan id; of = the check-in that stood then
  undone,   \* <<ticket, check-in>> taken back at the server
  net,      \* requests: their items, how many the server has done, its last
            \* answer, and whether the phone still waits
  listing,  \* a list on its way to the phone
  made,     \* the ticket of every scan id made, in that order
  list,     \* the list, in the page and in IndexedDB: who is in, who cancelled
  disk,     \* the outbox in IndexedDB
  marks, outbox,            \* the page: its marks, its outbox, the batch being
  syncing, front, behind,   \* sent, the scan that waits for its answer, those
  failed, offline,          \* behind an early ADMIT, those to retry
  over,     \* the session has ended
  losses, reloads, events,             \* counted for the bounds
  letIn,    \* scans for which the phone showed ADMIT and did not take it back
  mine,     \* those of them this page has to remember
  stop,     \* early ADMITs the server refused, shown to the gate
  lost,     \* scans the gate was told could not be sent
  cut,      \* early ADMITs whose page was closed before their answer: forgotten
  sent,     \* the verdicts sent under each scan id
  replaced  \* <<offline admit, request it was given in the place of>>, whatever
            \* the item says of it

server == <<clock, ticket, rows, undone>>
page == <<list, marks, outbox, syncing, front, behind, failed, offline>>
history == <<letIn, mine, stop, lost, cut, sent, replaced>>
bounds == <<losses, reloads, events>>
vars == <<server, net, listing, made, disk, page, over, bounds, history>>

\* One more of what is bounded.
Lossy == losses < MaxLosses /\ losses' = losses + 1 /\ UNCHANGED <<reloads, events>>
Event == events < MaxEvents /\ events' = events + 1 /\ UNCHANGED <<losses, reloads>>

-----------------------------------------------------------------------------
(* The server: one scan, a replay of it, and what others do.               *)

Admissible(k) == ticket[k].live /\ ticket[k].by = NULL

\* A fresh item is judged as the ticket stands; what the door did not admit is
\* only logged.
Fresh(i) ==
  LET k == made[i.id]
  IN  IF ~ticket[k].live THEN "cancelled"
      ELSE IF ticket[k].by # NULL THEN "already_in"
      ELSE IF i.verdict \in {NULL, "admitted"} THEN "admitted" ELSE "turned_away"

\* A known scan id is replayed: the same verdict, and an admit that stands.
Replayed(i) ==
  LET row == rows[i.id]
  IN  IF row.verdict # i.verdict THEN "scan_id_conflict"
      ELSE IF row.result = "admitted" /\ ticket[made[i.id]].by # i.id THEN "rescan"
      ELSE row.result

Request(items) == [items |-> items, done |-> 0, answer |-> NULL, heard |-> TRUE]
Complete(m) == m.done = Len(m.items)
IsSync(m) == m.items[1].verdict # NULL

\* scanBatch: one item of a request at a time.
Serve(m) ==
  LET i == m.items[m.done + 1]
      k == made[i.id]
      isNew == rows[i.id] = NULL
      res == IF isNew THEN Fresh(i) ELSE Replayed(i)
      by == IF isNew /\ res = "admitted" THEN i.id ELSE ticket[k].by
      of == IF isNew THEN by ELSE rows[i.id].of
      next == [m EXCEPT !.done = @ + 1, !.answer = [result |-> res, of |-> of]]
  IN  /\ ~Complete(m)
      /\ rows' = IF isNew THEN [rows EXCEPT ![i.id] = [verdict |-> i.verdict, result |-> res, of |-> of,
                                                      supersedes |-> i.supersedes]]
                          ELSE rows
      /\ ticket' = [ticket EXCEPT ![k].by = by]
      /\ net' = (net \ {m}) \cup (IF Complete(next) /\ ~next.heard THEN {} ELSE {next})
      /\ UNCHANGED <<clock, undone, listing, made, disk, page, over, bounds, history>>

\* A request the phone has given up on never lands, or fails halfway.
Lose(m) ==
  /\ ~m.heard
  /\ net' = net \ {m}
  /\ UNCHANGED <<server, listing, made, disk, page, over, bounds, history>>

\* Another gate checks the ticket in, once.
CheckInElsewhere(k) ==
  /\ Admissible(k) /\ <<k, Elsewhere>> \notin undone
  /\ ticket' = [ticket EXCEPT ![k].by = Elsewhere]
  /\ Event
  /\ UNCHANGED <<clock, rows, undone, net, listing, made, disk, page, over, history>>

\* The organizer, or the gate itself online, takes a check-in back.
UndoAtServer(k) ==
  /\ ticket[k].by # NULL
  /\ undone' = undone \cup {<<k, ticket[k].by>>}
  /\ ticket' = [ticket EXCEPT ![k].by = NULL]
  /\ Event
  /\ UNCHANGED <<clock, rows, net, listing, made, disk, page, over, history>>

CancelTicket(k) ==
  /\ Admissible(k)
  /\ ticket' = [ticket EXCEPT ![k].live = FALSE]
  /\ Event
  /\ UNCHANGED <<clock, rows, undone, net, listing, made, disk, page, over, history>>

\* listConflicts: the offline ADMITs the check-in did not follow, unless the
\* request a scan replaced was itself the check-in.
CheckedIn(s) == s # NULL /\ rows[s] # NULL /\ rows[s].result = "admitted"
DoubleEntry(s) ==
  /\ rows[s] # NULL /\ rows[s].verdict = "admitted" /\ rows[s].result # "admitted"
  /\ ~CheckedIn(rows[s].supersedes)

-----------------------------------------------------------------------------
(* The phone's bookkeeping.                                                *)

\* The corrected clock, as read at some moment.
PhoneTimes == {clock + e : e \in -MaxSkew .. MaxSkew}

Mark(of, known, source) == [of |-> of, known |-> known, source |-> source]

\* judgeOffline: what this page answers for a ticket by itself.
Judge(k) ==
  IF k \in list.gone THEN "cancelled"
  ELSE IF marks[k] # NULL \/ k \in list.in THEN "already_in" ELSE "admitted"

\* Seeded fault: no grace for the clock's error.
ListCovers_NoGrace(known, asOf) == known # NULL /\ known <= asOf
\* Whether a list as of a time may replace a mark known since another.
ListCovers(known, asOf) == known # NULL /\ known + Grace < asOf

Ids(items) == {i.id : i \in ToSet(items)}

\* Numbers in ascending order.
Ascending(S) ==
  CHOOSE order \in SetToSeqs(S) : \A i, j \in DOMAIN order : i < j => order[i] < order[j]

\* The place in the outbox of the last admit of ticket k, if any.
QueuedAdmits(items, k) ==
  {n \in DOMAIN items : items[n].verdict = "admitted" /\ made[items[n].id] = k}

\* adopt: drop the marks the list covers, and mark again what is in the outbox.
Adopted(asOf, old, items) ==
  [k \in Ticket |->
     LET queued == QueuedAdmits(items, k)
     IN  IF queued # {}
           THEN LET last == CHOOSE n \in queued : \A q \in queued : q <= n
                IN  Mark(items[last].id, NULL, "own")
         ELSE IF old[k] # NULL /\ ListCovers(old[k].known, asOf) THEN NULL
         ELSE old[k]]

NewId == Len(made) + 1

\* putOutbox: by scan id.
Put(items, new) == {i \in items : i.id # new.id} \cup {new}

Queue(item) ==
  /\ outbox' = Append(outbox, item)
  /\ disk' = Put(disk, item)

\* answer: judge ticket k from the list under a new scan id, and queue it.
AnswerOffline(k, supersedes) ==
  LET admit == Judge(k) = "admitted"
      id == NewId
  IN  /\ list # NULL /\ Len(made) < MaxScans
      /\ made' = Append(made, k)
      /\ Queue(Item(id, IF admit THEN "admitted" ELSE "refused", supersedes))
      /\ marks' = IF admit THEN [marks EXCEPT ![k] = Mark(id, NULL, "own")] ELSE marks
      /\ letIn' = IF admit THEN letIn \cup {id} ELSE letIn
      /\ mine' = IF admit THEN mine \cup {id} ELSE mine

Waiting == behind \cup (IF front = NULL THEN {} ELSE {front})

\* The requests of scan s the phone still waits for.
RequestsOf(s) == {m \in net : m.heard /\ ~IsSync(m) /\ m.items[1].id = s}
GiveUp(reqs) == net' = (net \ reqs) \cup {[m EXCEPT !.heard = FALSE] : m \in {r \in reqs : ~Complete(r)}}

-----------------------------------------------------------------------------
(* Scanning.                                                               *)

Free == ~over /\ front = NULL

\* send, known to be offline: straight to the list.  (A scan of that ticket that
\* got no answer is forgotten, and the new one does not name it.)
ReadOffline(k) ==
  /\ Free /\ offline
  /\ AnswerOffline(k, NULL)
  /\ failed' = [failed EXCEPT ![k] = NULL]
  /\ UNCHANGED <<server, net, listing, list, syncing, front, behind, offline,
                 over, bounds, stop, lost, cut, sent, replaced>>

Ask(id, k, race) ==
  /\ front' = [id |-> id, race |-> race, since |-> clock]
  /\ net' = net \cup {Request(<<OnlineItem(id)>>)}
  /\ UNCHANGED <<server, listing, disk, list, marks, outbox, syncing, behind, failed,
                 offline, over, bounds, history>>

\* send, online: the server is asked; a ticket the list would admit races it.
ReadOnline(k) ==
  /\ Free /\ (offline => list = NULL) /\ Len(made) < MaxScans
  /\ made' = Append(made, k)
  /\ Ask(NewId, k, list # NULL /\ Judge(k) = "admitted")

\* The same code again, or the Retry button (which never races), for a scan
\* that got no answer: the same scan id.
Retry(k, viaButton) ==
  /\ Free /\ failed[k] # NULL /\ (offline => list = NULL)
  /\ Ask(failed[k], k, ~viaButton /\ list # NULL /\ Judge(k) = "admitted")
  /\ UNCHANGED made

\* RACE_MS without an answer: ADMIT is shown, and the next person may come.
AdmitEarly ==
  /\ ~over /\ front # NULL /\ front.race
  /\ marks' = [marks EXCEPT ![made[front.id]] = Mark(front.id, NULL, "own")]
  /\ behind' = behind \cup {front}
  /\ front' = NULL
  /\ letIn' = letIn \cup {front.id}
  /\ mine' = mine \cup {front.id}
  /\ UNCHANGED <<server, net, listing, made, disk, list, outbox, syncing, failed, offline,
                 over, bounds, stop, lost, cut, sent, replaced>>

\* learn: an online answer makes a mark, unless one of the phone's own or the
\* server's is there.
Learnt(k, a, now) ==
  IF list = NULL \/ a.result \notin {"admitted", "already_in"}
     \/ (marks[k] # NULL /\ marks[k].source # "relay")
    THEN marks
    ELSE [marks EXCEPT ![k] = Mark(a.of, now, IF a.of \in Scan THEN "own" ELSE "server")]

\* A mark the phone takes the server to know of.
Known(m) == m # NULL /\ m.known # NULL /\ m.source # "relay"

\* The answer, in time: it is shown.
FrontAnswered(m) ==
  LET s == front.id
      k == made[s]
      admit == m.answer.result = "admitted"
  IN  /\ ~over /\ front # NULL /\ m \in RequestsOf(s) /\ Complete(m)
      /\ net' = net \ {m}
      /\ front' = NULL
      /\ offline' = FALSE
      /\ failed' = [failed EXCEPT ![k] = NULL]
      /\ \E now \in PhoneTimes : marks' = Learnt(k, m.answer, now)
      /\ letIn' = IF admit THEN letIn \cup {s} ELSE letIn
      /\ mine' = IF admit /\ list # NULL /\ ~Known(marks[k]) THEN mine \cup {s} ELSE mine
      /\ UNCHANGED <<server, listing, made, disk, list, outbox, syncing, behind, over,
                     bounds, stop, lost, cut, sent, replaced>>

\* No answer in 4 s: the list answers under a new scan id that names this
\* request; without a list, the scan is kept for a retry.
FrontTimeout ==
  LET s == front.id
      k == made[s]
  IN  /\ ~over /\ front # NULL /\ Lossy
      /\ GiveUp(RequestsOf(s))
      /\ front' = NULL
      /\ IF list # NULL
           THEN /\ AnswerOffline(k, s)
                /\ failed' = [failed EXCEPT ![k] = NULL]
                /\ offline' = TRUE
                /\ replaced' = replaced \cup {<<NewId, s>>}
           ELSE /\ failed' = [failed EXCEPT ![k] = s]
                /\ UNCHANGED <<made, disk, outbox, marks, letIn, mine, offline, replaced>>
      /\ UNCHANGED <<server, listing, list, syncing, behind, over, stop, lost, cut, sent>>

\* Told to slow down: not recorded, kept for a retry.
FrontSlow(m) ==
  /\ ~over /\ front # NULL /\ m \in RequestsOf(front.id) /\ m.done = 0 /\ Lossy
  /\ net' = net \ {m}
  /\ failed' = [failed EXCEPT ![made[front.id]] = front.id]
  /\ front' = NULL
  /\ UNCHANGED <<server, listing, made, disk, list, marks, outbox, syncing, behind,
                 offline, over, history>>

\* Refused as it stands (never expected): not recorded, and the gate is told -
\* of an early ADMIT, to note the name.
FrontRefused(m) ==
  /\ ~over /\ front # NULL /\ m \in RequestsOf(front.id) /\ m.done = 0
  /\ net' = net \ {m}
  /\ front' = NULL
  /\ UNCHANGED <<server, listing, made, disk, list, marks, outbox, syncing, behind, failed,
                 offline, over, bounds, history>>

BehindRefused(w, m) ==
  /\ ~over /\ m \in RequestsOf(w.id) /\ m.done = 0
  /\ net' = net \ {m}
  /\ behind' = behind \ {w}
  /\ lost' = lost \cup {w.id}
  /\ UNCHANGED <<server, listing, made, disk, list, marks, outbox, syncing, front, failed,
                 offline, over, bounds, letIn, mine, stop, cut, sent, replaced>>

\* settleEarly: the server's late answer to an early ADMIT confirms its mark,
\* corrects it, or takes it away; a refusal stops the gate.
Settled(k, s, a, now) ==
  CASE a.result = "admitted" ->
         IF marks[k] = NULL THEN marks
         ELSE [marks EXCEPT ![k].known = now, ![k].of = s]
    [] a.result = "already_in" -> [marks EXCEPT ![k] = Mark(a.of, now, "server")]
    [] OTHER -> [marks EXCEPT ![k] = NULL]

BehindAnswered(w, m) ==
  LET k == made[w.id]
  IN  /\ ~over /\ m \in RequestsOf(w.id) /\ Complete(m)
      /\ net' = net \ {m}
      /\ behind' = behind \ {w}
      /\ offline' = FALSE
      /\ \E now \in PhoneTimes : marks' = Settled(k, w.id, m.answer, now)
      /\ stop' = IF m.answer.result = "admitted" THEN stop ELSE stop \cup {w.id}
      /\ mine' = IF m.answer.result \in {"admitted", "already_in"} THEN mine
                 ELSE {s \in mine : made[s] # k}
      /\ UNCHANGED <<server, listing, made, disk, list, outbox, syncing, front, failed,
                     over, bounds, letIn, lost, cut, sent, replaced>>

\* Seeded fault: the offline admit does not name the request it replaces.
EarlyItem_Unnamed(s) == Item(NewId, "admitted", NULL)
\* The offline admit that replaces an early one's request.
EarlyItem(s) == Item(NewId, "admitted", s)

\* queueEarlyAdmit: no answer behind the person (or told to slow down, and
\* then nothing of it will land); the phone goes offline in the first case.
BehindUnanswered(w, slow) ==
  /\ ~over /\ Lossy /\ Len(made) < MaxScans
  /\ IF slow THEN /\ \E m \in RequestsOf(w.id) : m.done = 0 /\ net' = net \ {m}
                  /\ UNCHANGED offline
             ELSE GiveUp(RequestsOf(w.id)) /\ offline' = TRUE
  /\ behind' = behind \ {w}
  /\ made' = Append(made, made[w.id])
  /\ Queue(EarlyItem(w.id))
  /\ replaced' = replaced \cup {<<NewId, w.id>>}
  /\ UNCHANGED <<server, listing, list, marks, syncing, front, failed, over, letIn, mine,
                 stop, lost, cut, sent>>

\* The gate takes back an offline admit that never left the phone.  (Its two
\* minutes may have passed: then it does not.)
Undoable(i) ==
  /\ i.verdict = "admitted" /\ ~i.attempted
  /\ syncing # NULL => i.id \notin Ids(syncing.batch)

UndoHere(n) ==
  LET i == outbox[n]
      new == [i EXCEPT !.verdict = "undone"]
      k == made[i.id]
  IN  /\ ~over /\ n \in DOMAIN outbox /\ Undoable(i)
      /\ outbox' = [outbox EXCEPT ![n] = new]
      /\ disk' = Put(disk, new)
      /\ marks' = [marks EXCEPT ![k] = NULL]
      /\ letIn' = letIn \ {i.id, i.supersedes}
      /\ mine' = {s \in mine : made[s] # k}
      /\ UNCHANGED <<server, net, listing, made, list, syncing, front, behind, failed,
                     offline, over, bounds, stop, lost, cut, sent, replaced>>

-----------------------------------------------------------------------------
(* Sending the outbox.                                                     *)

\* The oldest items, marked as sent before they leave, in one step.
TakeBatch ==
  LET n == IF Len(outbox) < SyncBatch THEN Len(outbox) ELSE SyncBatch
      batch == [j \in 1 .. n |-> [outbox[j] EXCEPT !.attempted = TRUE]]
  IN  /\ ~over /\ syncing = NULL /\ outbox # <<>>
      /\ syncing' = [step |-> "saving", batch |-> batch]
      /\ outbox' = batch \o SubSeq(outbox, n + 1, Len(outbox))
      /\ UNCHANGED <<server, net, listing, made, disk, list, marks, front, behind, failed,
                     offline, over, bounds, history>>

Saved_Unmarked(items, batch) == items  \* seeded fault: that it was sent is not saved
Saved(items, batch) == {i \in items : i.id \notin Ids(batch)} \cup ToSet(batch)

SendBatch ==
  /\ ~over /\ syncing # NULL /\ syncing.step = "saving"
  /\ disk' = Saved(disk, syncing.batch)
  /\ net' = net \cup {Request(syncing.batch)}
  /\ sent' = sent \cup {<<i.id, i.verdict>> : i \in ToSet(syncing.batch)}
  /\ syncing' = [syncing EXCEPT !.step = "sent"]
  /\ UNCHANGED <<server, listing, made, list, marks, outbox, front, behind, failed, offline,
                 over, bounds, letIn, mine, stop, lost, cut, replaced>>

SyncRequest(m) == m \in net /\ m.heard /\ IsSync(m)
Sending == ~over /\ syncing # NULL /\ syncing.step = "sent"

\* Seeded fault: what was queued during the send goes too.
Dequeue_All == outbox' = <<>> /\ syncing' = [syncing EXCEPT !.step = "removing"]
\* Out of the outbox of the page, then of IndexedDB.
Dequeue ==
  /\ LET rest == Ascending({n \in DOMAIN outbox : outbox[n].id \notin Ids(syncing.batch)})
     IN  outbox' = [j \in DOMAIN rest |-> outbox[rest[j]]]
  /\ syncing' = [syncing EXCEPT !.step = "removing"]

\* All of the batch answered: the server knows these tickets as of now.
BatchAnswered(m) ==
  /\ Sending /\ SyncRequest(m) /\ Complete(m)
  /\ net' = net \ {m}
  /\ Dequeue
  /\ \E now \in PhoneTimes :
       marks' = [k \in Ticket |->
                   IF /\ \E i \in Ids(syncing.batch) : made[i] = k
                      /\ marks[k] # NULL /\ marks[k].known = NULL
                     THEN [marks[k] EXCEPT !.known = now] ELSE marks[k]]
  /\ mine' = {s \in mine : rows[s] # NULL \/ \A i \in Ids(syncing.batch) : made[i] # made[s]}
  /\ UNCHANGED <<server, listing, made, disk, list, front, behind, failed, offline, over,
                 bounds, letIn, stop, lost, cut, sent, replaced>>

\* The scans given up with these items: theirs, and the requests they replaced.
GivenUp(items) == Ids(items) \cup ({i.supersedes : i \in ToSet(items)} \ {NULL})

\* A batch the server refuses is given up, and the gate is told.
BatchRefused(m) ==
  /\ Sending /\ SyncRequest(m) /\ m.done = 0
  /\ net' = net \ {m}
  /\ Dequeue
  /\ lost' = lost \cup GivenUp(syncing.batch)
  /\ mine' = {s \in mine : \A i \in Ids(syncing.batch) : made[i] # made[s]}
  /\ UNCHANGED <<server, listing, made, disk, list, marks, front, behind, failed, offline,
                 over, bounds, letIn, stop, cut, sent, replaced>>

\* Seeded fault: a send that failed is still taken to be running.
SendOver_Running == UNCHANGED syncing
\* The send is over: the next one may start.
SendOver == syncing' = NULL

\* No answer (15 s, a dead connection, an error halfway), or told to slow down.
BatchUnanswered ==
  /\ Sending /\ Lossy
  /\ GiveUp({m \in net : SyncRequest(m)})
  /\ SendOver
  /\ UNCHANGED <<server, listing, made, disk, list, marks, outbox, front, behind, failed,
                 offline, over, history>>

ForgetBatch ==
  /\ ~over /\ syncing # NULL /\ syncing.step = "removing"
  /\ disk' = {i \in disk : i.id \notin Ids(syncing.batch)}
  /\ SendOver
  /\ UNCHANGED <<server, net, listing, made, list, marks, outbox, front, behind, failed,
                 offline, over, bounds, history>>

-----------------------------------------------------------------------------
(* The list, the status ping, the relay.                                   *)

\* The list: the time is taken first, the tickets are read after it.  (A list
\* that was on its way is lost, or was never asked for.)
ReadList(asOf) ==
  /\ ~over /\ asOf \in {clock - 1, clock} \cap Nat
  /\ listing' = [asOf |-> asOf, in |-> {k \in Ticket : ticket[k].by # NULL},
                 gone |-> {k \in Ticket : ~ticket[k].live}]
  /\ Event
  /\ UNCHANGED <<server, net, made, disk, page, over, history>>

\* refreshList: adopted and saved.
AdoptList ==
  /\ ~over /\ listing # NULL
  /\ list' = [in |-> listing.in, gone |-> listing.gone]
  /\ listing' = NULL
  /\ marks' = Adopted(listing.asOf, marks, outbox)
  /\ UNCHANGED <<server, net, made, disk, outbox, syncing, front, behind, failed, offline, over, bounds,
                 history>>

\* Only a relay's claim gives way to the server's word.
Replaceable(m) == m = NULL \/ m.source = "relay"

\* The status ping: the check-ins since the last one (some of those that
\* stand).
Ping(news, now) ==
  /\ ~over
  /\ news \subseteq {k \in Ticket : ticket[k].by # NULL}
  /\ offline' = FALSE
  /\ marks' = IF list = NULL THEN marks
              ELSE [k \in Ticket |-> IF k \in news /\ Replaceable(marks[k])
                                       THEN Mark(ticket[k].by, now, "server") ELSE marks[k]]
  /\ Event
  /\ UNCHANGED <<server, net, listing, made, disk, list, outbox, syncing, front, behind, failed,
                 over, history>>

\* markFromRelay: another gate's claim, or the server's announcement.
HearCheckIn(k, confirmed, now) ==
  LET of == IF confirmed THEN ticket[k].by ELSE Elsewhere
      m == marks[k]
      known == IF ~confirmed THEN NULL
               ELSE IF m = NULL \/ m.known = NULL THEN now ELSE m.known
  IN  /\ ~over /\ list # NULL
      /\ confirmed => ticket[k].by # NULL
      /\ m # NULL => m.source = "relay" /\ (m.known = NULL \/ confirmed)
      /\ marks' = [marks EXCEPT ![k] = Mark(of, known, "relay")]
      /\ Event
      /\ UNCHANGED <<server, net, listing, made, disk, list, outbox, syncing, front, behind,
                     failed, offline, over, history>>

\* relayUndoRemoves: a gate takes back its claim, or the server a check-in (the
\* one the mark is of, or a claim from before it); never this phone's own admit
\* that the server has yet to hear of.
HearUndo(k, byGate) ==
  LET m == marks[k]
      claim == m.source = "relay" /\ m.known = NULL
  IN  /\ ~over /\ m # NULL
      /\ ~(m.source = "own" /\ m.known = NULL)
      /\ \/ claim /\ (byGate \/ \E c \in CheckIn : <<k, c>> \in undone)
         \/ ~byGate /\ <<k, m.of>> \in undone
      /\ marks' = [marks EXCEPT ![k] = NULL]
      /\ Event
      /\ UNCHANGED <<server, net, listing, made, disk, list, outbox, syncing, front, behind,
                     failed, offline, over, history>>

-----------------------------------------------------------------------------
(* The page ends.                                                          *)

Hang == net' = {[m EXCEPT !.heard = FALSE] : m \in {r \in net : ~Complete(r)}}

\* The page is closed or reloaded: what IndexedDB holds is loaded, and the
\* first ping says whether there is signal.  (An early ADMIT without its answer
\* is in no outbox: nothing is left of it, and nobody is told.)
Reload(noSignal) ==
  LET ids == Ascending({i.id : i \in disk})
      kept == [j \in DOMAIN ids |-> CHOOSE i \in disk : i.id = ids[j]]
      none == [k \in Ticket |-> NULL]
  IN  /\ ~over /\ reloads < MaxReloads
      /\ reloads' = reloads + 1
      /\ Hang
      /\ listing' = NULL
      /\ outbox' = kept
      /\ marks' = IF list = NULL THEN none ELSE Adopted(0, none, kept)
      /\ syncing' = NULL /\ front' = NULL /\ behind' = {}
      /\ failed' = none
      /\ offline' = noSignal
      /\ mine' = {i.id : i \in {j \in disk : j.verdict = "admitted"}}
      /\ cut' = cut \cup {w.id : w \in behind}
      /\ UNCHANGED <<server, made, list, disk, over, losses, events, letIn, stop, lost, sent, replaced>>

\* A 401 to any request, or End session, which waits for a send in progress:
\* everything on the phone is wiped, and the outbox is counted out to the gate
\* (not the early ADMITs without an answer).
SignOut ==
  /\ ~over
  /\ syncing = NULL \/ \E m \in net : m.heard
  /\ over' = TRUE
  /\ Hang
  /\ listing' = NULL
  /\ disk' = {} /\ list' = NULL /\ outbox' = <<>>
  /\ marks' = [k \in Ticket |-> NULL]
  /\ syncing' = NULL /\ front' = NULL /\ behind' = {}
  /\ failed' = [k \in Ticket |-> NULL]
  /\ offline' = FALSE
  /\ mine' = {}
  /\ lost' = lost \cup GivenUp(outbox)
  /\ cut' = cut \cup {w.id : w \in behind}
  /\ UNCHANGED <<server, made, bounds, letIn, stop, sent, replaced>>

\* Time passes, a request's 4 s at a time.
Tick ==
  /\ clock < MaxClock
  /\ \A w \in Waiting : w.since = clock
  /\ clock' = clock + 1
  /\ UNCHANGED <<ticket, rows, undone, net, listing, made, disk, page, over, bounds, history>>

-----------------------------------------------------------------------------
\* The page opens with no list, or with one it kept from before the doors opened.
Init ==
  /\ clock = 0
  /\ ticket = [k \in Ticket |-> [live |-> TRUE, by |-> NULL]]
  /\ rows = [s \in Scan |-> NULL]
  /\ undone = {} /\ net = {} /\ listing = NULL /\ made = <<>>
  /\ disk = {} /\ list \in {NULL, [in |-> {}, gone |-> {}]}
  /\ marks = [k \in Ticket |-> NULL]
  /\ outbox = <<>> /\ syncing = NULL /\ front = NULL /\ behind = {}
  /\ failed = [k \in Ticket |-> NULL]
  /\ offline = FALSE /\ over = FALSE
  /\ losses = 0 /\ reloads = 0 /\ events = 0
  /\ letIn = {} /\ mine = {} /\ stop = {} /\ lost = {} /\ cut = {} /\ sent = {} /\ replaced = {}

Scanning ==
  \/ \E k \in Ticket : ReadOffline(k) \/ ReadOnline(k) \/ \E b \in BOOLEAN : Retry(k, b)
  \/ AdmitEarly \/ FrontTimeout
  \/ \E m \in net : FrontAnswered(m) \/ FrontSlow(m) \/ FrontRefused(m)
  \/ \E w \in behind : \/ \E m \in net : BehindAnswered(w, m) \/ BehindRefused(w, m)
                       \/ \E slow \in BOOLEAN : BehindUnanswered(w, slow)
  \/ \E n \in DOMAIN outbox : UndoHere(n)

Syncing ==
  \/ TakeBatch \/ SendBatch \/ BatchUnanswered \/ ForgetBatch
  \/ \E m \in net : BatchAnswered(m) \/ BatchRefused(m)

Listening ==
  \/ AdoptList
  \/ \E news \in SUBSET Ticket, now \in PhoneTimes : Ping(news, now)
  \/ \E k \in Ticket, b \in BOOLEAN : HearUndo(k, b) \/ \E now \in PhoneTimes : HearCheckIn(k, b, now)

Next ==
  \/ Scanning \/ Syncing \/ Listening
  \/ \E m \in net : Serve(m) \/ Lose(m)
  \/ \E k \in Ticket : CheckInElsewhere(k) \/ UndoAtServer(k) \/ CancelTicket(k)
  \/ \E asOf \in 0 .. MaxClock : ReadList(asOf)
  \/ \E noSignal \in BOOLEAN : Reload(noSignal)
  \/ SignOut \/ Tick

Spec == Init /\ [][Next]_vars

\* The phone tries again every 10 s, and a signal that holds gets a request
\* through and its answer back (the losses and the reloads are bounded).
Fairness ==
  /\ WF_vars(TakeBatch) /\ WF_vars(SendBatch) /\ WF_vars(ForgetBatch)
  /\ WF_vars(\E m \in net : m.heard /\ IsSync(m) /\ Serve(m))
  /\ WF_vars(\E m \in net : BatchAnswered(m))

LiveSpec == Spec /\ Fairness

-----------------------------------------------------------------------------
(* Properties.                                                             *)

\* The type invariant; the outbox of the page and the one in IndexedDB hold the
\* same scans, but for those just being removed.
TypeOK ==
  /\ clock \in 0 .. MaxClock
  /\ ticket \in [Ticket -> [live : BOOLEAN, by : CheckIn \cup {NULL}]]
  /\ rows \in [Scan -> RowType \cup {NULL}]
  /\ \A s \in Scan : rows[s] # NULL => s <= Len(made)
  /\ undone \subseteq Ticket \X CheckIn
  /\ \A m \in net : m.items \in Seq(ItemType) /\ m.done \in 0 .. Len(m.items)
  /\ listing \in ListingType \cup {NULL} /\ (listing # NULL => listing.asOf <= clock)
  /\ list \in ListType \cup {NULL}
  /\ made \in Seq(Ticket) /\ Len(made) <= MaxScans
  /\ disk \subseteq ItemType
  /\ marks \in [Ticket -> MarkType \cup {NULL}]
  /\ outbox \in Seq(ItemType) /\ syncing \in SyncType \cup {NULL}
  /\ IF syncing # NULL /\ syncing.step = "removing"
       THEN Ids(outbox) = {i.id : i \in disk} \ Ids(syncing.batch)
       ELSE Ids(outbox) = {i.id : i \in disk}
  /\ front \in WaitType \cup {NULL} /\ behind \subseteq WaitType
  /\ failed \in [Ticket -> Scan \cup {NULL}]
  /\ offline \in BOOLEAN /\ over \in BOOLEAN

\* However often the outbox is sent, undone or reloaded, the server never gets
\* two verdicts for one scan id: a conflict is never the phone's own doing.
OneVerdictSent ==
  \A x, y \in sent : x[1] = y[1] => x[2] = y[2]

\* The scans that stand for ADMIT s: itself, or the offline one that replaced it.
StandFor(s) ==
  {s} \cup {i.id : i \in {j \in ToSet(outbox) : j.supersedes = s}}
      \cup {r \in Scan : rows[r] # NULL /\ rows[r].supersedes = s}

\* Of no ADMIT a gate has shown is the trace lost while the phone keeps its
\* page: it is still being asked for or in the outbox, it is the check-in, or
\* somebody is told - the gate (STOP, or not sent) or the organizer (a double
\* entry).  What is in the outbox outlasts the page; the exception are the early
\* ADMITs whose page was closed, reloaded or signed out before their answer:
\* only the outbox is loaded (use-offline.ts) and counted, and nobody is told.
EveryAdmitAccounted ==
  \A s \in letIn :
    \/ \E w \in behind : w.id = s
    \/ s \in stop \cup cut
    \/ \E r \in StandFor(s) : \/ r \in Ids(outbox) \cup lost
                              \/ CheckedIn(r) \/ DoubleEntry(r)
                              \/ rows[r] # NULL /\ CheckedIn(rows[r].supersedes)

\* No offline admit is listed as a double entry on account of the request it was
\* given in the place of, however late that one lands and however often the item
\* is queued, reloaded and sent: there is a check-in under another scan, or the
\* ticket was cancelled.  (The other scan may be this phone's: a code read again
\* offline names no earlier read of it, also one that got no answer, and when
\* that one lands late one person is listed as two.)
DoubleEntryIsReal ==
  \A s \in Scan :
    DoubleEntry(s) =>
      LET k == made[s]
      IN  \/ ~ticket[k].live
          \/ \E c \in CheckIn \ {s} :
               <<s, c>> \notin replaced /\ (<<k, c>> \in undone \/ ticket[k].by = c)

\* A person this page let in is not let in again by it, whatever lists, pings
\* and relay messages arrive in whatever order - unless a check-in of that
\* ticket was taken back, at the server or here, the server refused an early
\* ADMIT of it (then nothing is left of its mark), its batch was given up, or its
\* mark was taken for known with another scan of the ticket: the answer to a
\* batch marks whatever mark the ticket has by then.  (An online ADMIT does not
\* renew a mark that counts as known.)
OwnAdmitsRemembered ==
  \A s \in mine :
    list # NULL /\ (\A c \in CheckIn : <<made[s], c>> \notin undone) =>
      Judge(made[s]) # "admitted"

\* What was scanned without signal reaches the server, once a signal holds, or
\* somebody was told that it did not.
OutboxDrains ==
  \A s \in Scan : (s \in Ids(outbox)) ~> (rows[s] # NULL \/ s \in lost)

\* scanner.tsx: an offline admit taken back before it was sent goes to the
\* server as undone and is never checked in - nor is the request it replaced.
UndoneIsNeverIn ==
  \A i \in ToSet(outbox) :
    i.verdict = "undone" => ticket[made[i.id]].by \notin {i.id, i.supersedes} \ {NULL}
=============================================================================
