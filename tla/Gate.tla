-------------------------------- MODULE Gate --------------------------------
(***************************************************************************)
(* Check-in at the gate, on the server: the door service between a phone's *)
(* request and the ticket row.  A scan is not one transaction: it          *)
(* authenticates, looks the scan id up, reads the ticket, and only then    *)
(* opens the transaction that locks the pass, checks the ticket in with a  *)
(* conditional UPDATE (re-reading and trying once more when it misses) and *)
(* inserts the scan row, whose unique id makes a retry harmless.  Each of  *)
(* those statements is a step here, and any number of Requests, retries of *)
(* the same scan among them, interleave with undos, revocations and        *)
(* cancellations.  A successful conditional UPDATE holds the ticket's row  *)
(* lock until its transaction ends, so it is one step with the commit.     *)
(* One event.  A scan id is a phone's, for one ticket and one pass.        *)
(***************************************************************************)
EXTENDS Integers, Sequences, FiniteSets

CONSTANTS
  Pass,      \* gate passes
  Ticket,    \* issued tickets
  MaxScans,  \* bound on the scan ids of one pass for one ticket
  MaxSends,  \* bound on the requests sent, first ones and retries
  Request,   \* requests the server works on at the same time
  NULL       \* the SQL NULL

ScanId == Pass \X Ticket \X (1 .. MaxScans)
PassOf(s) == s[1]
TicketOf(s) == s[2]

\* What the phone says it showed when it scanned offline: NULL for a scan made
\* online.  ("refused" and "practice" are treated as "undone" is.)
Verdict == {NULL, "admitted", "undone"}

\* What a scan row may record.
Recorded == {"admitted", "already_in", "cancelled", "practice_ok", "turned_away"}

ScanRow == [verdict : Verdict, result : Recorded]

ASSUME NullAssumption ==
  NULL \notin Pass /\ NULL \notin Ticket /\ NULL \notin ScanId /\ NULL \notin ScanRow
ASSUME BoundAssumption == MaxSends \in Nat

\* What a phone may be told.
Answer == Recorded \cup {"rescan", "scan_id_conflict"}

VARIABLES
  ticket,    \* table tickets: live (issued, not cancelled), by = checked_in_scan_id
  passState, \* table door_passes; "cleared" = revoked, and its check-ins undone
  revoking,  \* passes that a revoke-and-undo transaction holds, uncommitted
  standing,  \* the check-ins of each of those passes, as that transaction read them
  scans,     \* table door_scans, by scan id; NULL = no row
  trail,     \* the check-in rows of order_events, per ticket
  open,      \* whether the doors are open (before that, scans are practice)
  req,       \* the requests in progress
  sends,     \* how many requests were sent (bounded, read by nothing else)
  told       \* what the phones have been told

vars == <<ticket, passState, revoking, standing, scans, trail, open, req, sends, told>>

Idle == [pc |-> "idle", scan |-> NULL, verdict |-> NULL, practice |-> FALSE,
         result |-> NULL]

\* Places in which a request's transaction holds the pass's row FOR SHARE.
InTransaction == {"checking", "missed", "retrying", "missed_again", "refusing"}

Goto(r, pc) == req' = [req EXCEPT ![r].pc = pc]

\* The request ends with an answer; its transaction, if any, is over.
Reply(r, a) ==
  /\ told' = told \cup {[scan |-> req[r].scan, verdict |-> req[r].verdict, answer |-> a]}
  /\ req' = [req EXCEPT ![r] = Idle]

-----------------------------------------------------------------------------
(* The rows.                                                               *)

\* Seeded fault: a cancelled ticket can be checked in.
Admissible_AnyStatus(k) == ticket[k].by = NULL
\* checkIn's WHERE: issued and not checked in.
Admissible(k) == ticket[k].live /\ ticket[k].by = NULL

Refusal_Unset(k) == NULL  \* seeded fault: no result for a refused scan
Refusal(k) == IF ticket[k].live THEN "already_in" ELSE "cancelled"

\* Seeded fault: the scan id is not unique, so a second row replaces the first.
ScanIdFree_Always(s) == TRUE
\* The unique index on door_scans.scan_id.
ScanIdFree(s) == scans[s] = NULL

\* Seeded fault: whoever is inside is put out, whichever check-in was meant.
StandsBy_Anyone(s) == ticket[TicketOf(s)].by # NULL
\* undoCheckIn's WHERE: the ticket is in by this very scan.
StandsBy(s) == ticket[TicketOf(s)].by = s

InsertScan(s, v, res) == scans' = [scans EXCEPT ![s] = [verdict |-> v, result |-> res]]

Undo(s) ==
  /\ StandsBy(s)
  /\ ticket' = [ticket EXCEPT ![TicketOf(s)].by = NULL]
  /\ trail' = [trail EXCEPT ![TicketOf(s)] = Append(@, [kind |-> "undone", scan |-> s])]

\* Seeded fault: admits that an offline phone synced later are forgotten.
StandingOf_Online(p) == {s \in ScanId : /\ PassOf(s) = p /\ StandsBy(s)
                                       /\ scans[s].verdict = NULL}
\* ticketsCheckedInByPass.
StandingOf(p) == {s \in ScanId : PassOf(s) = p /\ StandsBy(s)}

\* Seeded fault: the pass row is read without FOR SHARE.
Sharers_None(p) == {}
\* The requests whose transaction has locked pass p.
Sharers(p) == {r \in Request : req[r].pc \in InTransaction /\ PassOf(req[r].scan) = p}

-----------------------------------------------------------------------------
(* One scan request, statement by statement.                               *)

\* authenticate: the pass is not revoked, as far as is committed; a retry or
\* a late duplicate of a scan is one more request.
Receive(r, s, v) ==
  /\ req[r] = Idle
  /\ sends < MaxSends
  /\ sends' = sends + 1
  /\ passState[PassOf(s)] = "active"
  /\ req' = [req EXCEPT ![r] = [pc |-> "received", scan |-> s, verdict |-> v,
                                practice |-> ~open, result |-> NULL]]
  /\ UNCHANGED <<ticket, passState, revoking, standing, scans, trail, open, told>>

\* findScanByScanId: a scan seen before is replayed, any other is fresh.
Look(r) ==
  /\ req[r].pc = "received"
  /\ Goto(r, IF scans[req[r].scan] = NULL THEN "fresh" ELSE "replaying")
  /\ UNCHANGED <<ticket, passState, revoking, standing, scans, trail, open, told, sends>>

\* Seeded fault: an offline scan that the door undid is checked in all the same.
LogOnly_Practice(r) == req[r].practice
\* Scans that are logged and never checked in.
LogOnly(r) == req[r].practice \/ req[r].verdict = "undone"

\* fresh: the ticket is read outside any transaction; for a scan that is only
\* logged this read is the answer.
ReadTicket(r) ==
  LET k == TicketOf(req[r].scan)
      would == IF ~Admissible(k) THEN Refusal(k)
               ELSE IF req[r].practice THEN "practice_ok" ELSE "turned_away"
  IN  /\ req[r].pc = "fresh"
      /\ req' = IF LogOnly(r)
                  THEN [req EXCEPT ![r].pc = "logging", ![r].result = would]
                  ELSE [req EXCEPT ![r].pc = "locking"]
      /\ UNCHANGED <<ticket, passState, revoking, standing, scans, trail, open, told, sends>>

\* lockActivePass: waits for a revocation in progress, then sees it, and the
\* request is refused.
LockPass(r) ==
  LET p == PassOf(req[r].scan)
  IN  /\ req[r].pc = "locking"
      /\ passState[p] = "active" => p \notin revoking
      /\ req' = [req EXCEPT ![r] = IF passState[p] = "active"
                                     THEN [@ EXCEPT !.pc = "checking"] ELSE Idle]
      /\ UNCHANGED <<ticket, passState, revoking, standing, scans, trail, open, told, sends>>

\* checkIn matched: the audit row and the scan row follow and the transaction
\* commits - or the scan id is taken, and everything rolls back.
CheckIn(r) ==
  LET s == req[r].scan
      k == TicketOf(s)
  IN  /\ req[r].pc \in {"checking", "retrying"}
      /\ Admissible(k)
      /\ IF ScanIdFree(s)
           THEN /\ ticket' = [ticket EXCEPT ![k].by = s]
                /\ trail' = [trail EXCEPT ![k] = Append(@, [kind |-> "in", scan |-> s])]
                /\ InsertScan(s, req[r].verdict, "admitted")
                /\ Reply(r, "admitted")
           ELSE Goto(r, "replaying") /\ UNCHANGED <<ticket, trail, scans, told>>
      /\ UNCHANGED <<passState, revoking, standing, open, sends>>

\* checkIn matched no row; the first time, the ticket is read again.
MissCheckIn(r) ==
  /\ req[r].pc \in {"checking", "retrying"}
  /\ ~Admissible(TicketOf(req[r].scan))
  /\ Goto(r, IF req[r].pc = "checking" THEN "missed" ELSE "missed_again")
  /\ UNCHANGED <<ticket, passState, revoking, standing, scans, trail, open, told, sends>>

\* The re-read: admissible again (an undo landed in between) means one more
\* try; after a second miss the answer is what the read says.
ReRead(r) ==
  LET k == TicketOf(req[r].scan)
  IN  /\ req[r].pc \in {"missed", "missed_again"}
      /\ req' = IF req[r].pc = "missed" /\ Admissible(k)
                  THEN [req EXCEPT ![r].pc = "retrying"]
                  ELSE [req EXCEPT ![r].pc = "refusing", ![r].result = Refusal(k)]
      /\ UNCHANGED <<ticket, passState, revoking, standing, scans, trail, open, told, sends>>

\* insertScan of a scan that is refused or only logged, and the answer.
Record(r) ==
  LET s == req[r].scan
  IN  /\ req[r].pc \in {"logging", "refusing"}
      /\ IF ScanIdFree(s)
           THEN /\ InsertScan(s, req[r].verdict, req[r].result)
                /\ Reply(r, req[r].result)
           ELSE Goto(r, "replaying") /\ UNCHANGED <<scans, told>>
      /\ UNCHANGED <<ticket, passState, revoking, standing, trail, open, sends>>

\* Seeded fault: the verdict is not compared.
SameScan_AnyVerdict(v, row) == TRUE
\* A replay must be of the same scan, with the same verdict.
SameScan(v, row) == v = row.verdict

\* replay: the recorded answer again; a recorded admit only while it stands.
Replay(r) ==
  LET s == req[r].scan
      row == scans[s]
  IN  /\ req[r].pc = "replaying"
      /\ Reply(r, IF ~SameScan(req[r].verdict, row) THEN "scan_id_conflict"
                  ELSE IF row.result = "admitted" /\ ~StandsBy(s) THEN "rescan"
                  ELSE row.result)
      /\ UNCHANGED <<ticket, passState, revoking, standing, scans, trail, open, sends>>

\* The request dies: its transaction rolls back, the phone hears nothing.
Abort(r) ==
  /\ req[r] # Idle
  /\ req' = [req EXCEPT ![r] = Idle]
  /\ UNCHANGED <<ticket, passState, revoking, standing, scans, trail, open, told, sends>>

-----------------------------------------------------------------------------
(* Undos, revocations and cancellations.                                   *)

\* undoOwnAdmit: the gate takes back its own admit, its pass locked as above.
UndoOwnAdmit(s) ==
  /\ scans[s] # NULL /\ scans[s].result = "admitted"
  /\ passState[PassOf(s)] = "active" /\ PassOf(s) \notin revoking
  /\ Undo(s)
  /\ UNCHANGED <<passState, revoking, standing, scans, open, req, told, sends>>

\* undoCheckInAsAdmin: the page, perhaps an old one, showed the check-in s.
UndoCheckInAsAdmin(s) ==
  /\ scans[s] # NULL /\ scans[s].result = "admitted"
  /\ Undo(s)
  /\ UNCHANGED <<passState, revoking, standing, scans, open, req, told, sends>>

\* revokePass: waits for the transactions that have locked the pass.
RevokePass(p) ==
  /\ passState[p] = "active" /\ p \notin revoking
  /\ Sharers(p) = {}
  /\ passState' = [passState EXCEPT ![p] = "revoked"]
  /\ UNCHANGED <<ticket, revoking, standing, scans, trail, open, req, told, sends>>

\* revokeAndUndo, first half: the pass is revoked and locked, its standing
\* check-ins are read.
RevokeAndUndo(p) ==
  /\ p \notin revoking
  /\ passState[p] = "active" => Sharers(p) = {}
  /\ revoking' = revoking \cup {p}
  /\ standing' = [standing EXCEPT ![p] = StandingOf(p)]
  /\ UNCHANGED <<ticket, passState, scans, trail, open, req, told, sends>>

\* Second half: each one that still stands by the scan that was read is undone.
FinishRevoke(p) ==
  LET undone == {s \in standing[p] : StandsBy(s)}
  IN  /\ p \in revoking
      /\ revoking' = revoking \ {p}
      /\ standing' = [standing EXCEPT ![p] = {}]
      /\ passState' = [passState EXCEPT ![p] = "cleared"]
      /\ ticket' = [k \in Ticket |->
                      IF ticket[k].by \in undone THEN [ticket[k] EXCEPT !.by = NULL]
                                                 ELSE ticket[k]]
      /\ trail' = [k \in Ticket |->
                     IF ticket[k].by \in undone
                       THEN Append(trail[k], [kind |-> "undone", scan |-> ticket[k].by])
                       ELSE trail[k]]
      /\ UNCHANGED <<scans, open, req, told, sends>>

\* cancelTicket (module Orders), as the gate sees it.
CancelTicket(k) ==
  /\ Admissible(k)
  /\ ticket' = [ticket EXCEPT ![k].live = FALSE]
  /\ UNCHANGED <<passState, revoking, standing, scans, trail, open, req, told, sends>>

\* The clock reaches the pass window's start: scans are real from now on.
OpenDoors ==
  /\ ~open
  /\ open' = TRUE
  /\ UNCHANGED <<ticket, passState, revoking, standing, scans, trail, req, told, sends>>

-----------------------------------------------------------------------------
Init ==
  /\ ticket = [k \in Ticket |-> [live |-> TRUE, by |-> NULL]]
  /\ passState = [p \in Pass |-> "active"]
  /\ revoking = {}
  /\ standing = [p \in Pass |-> {}]
  /\ scans = [s \in ScanId |-> NULL]
  /\ trail = [k \in Ticket |-> <<>>]
  /\ open = FALSE
  /\ req = [r \in Request |-> Idle]
  /\ sends = 0
  /\ told = {}

Work(r) ==
  \/ Look(r) \/ ReadTicket(r) \/ LockPass(r) \/ CheckIn(r) \/ MissCheckIn(r)
  \/ ReRead(r) \/ Record(r) \/ Replay(r)

Next ==
  \/ \E r \in Request, s \in ScanId, v \in Verdict : Receive(r, s, v)
  \/ \E r \in Request : Work(r) \/ Abort(r)
  \/ \E s \in ScanId : UndoOwnAdmit(s) \/ UndoCheckInAsAdmin(s)
  \/ \E p \in Pass : RevokePass(p) \/ RevokeAndUndo(p) \/ FinishRevoke(p)
  \/ \E k \in Ticket : CancelTicket(k)
  \/ OpenDoors

Spec == Init /\ [][Next]_vars

-----------------------------------------------------------------------------
(* Properties.                                                             *)

CheckInRow == [kind : {"in", "undone"}, scan : ScanId]

RequestState ==
  [pc : {"idle", "received", "fresh", "locking", "logging", "replaying"} \cup InTransaction,
   scan : ScanId \cup {NULL}, verdict : Verdict, practice : BOOLEAN,
   result : Recorded \cup {NULL}]

\* The type invariant: a request at work has a scan, one about to record has a
\* result to record, one about to replay has a row to replay.
TypeOK ==
  /\ ticket \in [Ticket -> [live : BOOLEAN, by : ScanId \cup {NULL}]]
  /\ passState \in [Pass -> {"active", "revoked", "cleared"}]
  /\ revoking \subseteq Pass
  /\ standing \in [Pass -> SUBSET ScanId]
  /\ scans \in [ScanId -> ScanRow \cup {NULL}]
  /\ trail \in [Ticket -> Seq(CheckInRow)]
  /\ open \in BOOLEAN
  /\ req \in [Request -> RequestState]
  /\ \A r \in Request :
       /\ req[r].pc # "idle" => req[r].scan \in ScanId
       /\ req[r].pc \in {"logging", "refusing"} => req[r].result \in Recorded
       /\ req[r].pc = "replaying" => scans[req[r].scan] # NULL
  /\ sends \in 0 .. MaxSends
  /\ told \subseteq [scan : ScanId, verdict : Verdict, answer : Answer]

\* The audit trail of a ticket alternates check-in and undo, an undo always of
\* the check-in just before it, and its last row is what the ticket row says:
\* no stale page, late retry or revocation ever takes back another check-in.
TrailMatchesTicket ==
  \A k \in Ticket :
    LET n == Len(trail[k])
        Scan(i) == trail[k][i].scan
    IN  /\ \A i \in 1 .. n : /\ trail[k][i].kind = (IF i % 2 = 1 THEN "in" ELSE "undone")
                             /\ i % 2 = 0 => Scan(i) = Scan(i - 1)
        /\ ticket[k].by = (IF n % 2 = 1 THEN Scan(n) ELSE NULL)

\* The check-ins of scan s, as the trail records them.
AdmitsBy(s) ==
  {i \in DOMAIN trail[TicketOf(s)] : trail[TicketOf(s)][i] = [kind |-> "in", scan |-> s]}

\* However often a scan is sent, and however its retries race each other and
\* an undo, it checks its ticket in at most once - when its row says so.
ScanAdmitsOnce ==
  \A s \in ScanId :
    Cardinality(AdmitsBy(s)) =
      IF scans[s] # NULL /\ scans[s].result = "admitted" THEN 1 ELSE 0

\* Whoever is inside holds a live ticket, also when a cancellation commits
\* between the two tries of one scan.
AdmittedAreLive == \A k \in Ticket : ticket[k].by # NULL => ticket[k].live

\* After revoke-and-undo, nobody is inside on a check-in of that pass, and
\* none comes later.
ClearedPassStandsNowhere ==
  \A k \in Ticket :
    ticket[k].by # NULL => passState[PassOf(ticket[k].by)] # "cleared"

\* A revoked pass checks nobody in, not even for a scan that was authenticated
\* before the revocation.
RevokedPassAdmitsNobody ==
  [][\A k \in Ticket :
       Len(trail'[k]) > Len(trail[k]) /\ trail'[k][Len(trail'[k])].kind = "in" =>
         passState[PassOf(trail'[k][Len(trail'[k])].scan)] = "active"]_vars

\* A phone that reports its admit as undone, and is not told of a conflict, can
\* rely on it: that scan never checks the ticket in, before or after.
UndoneScanNeverAdmits ==
  \A m \in told :
    m.verdict = "undone" /\ m.answer # "scan_id_conflict" =>
      AdmitsBy(m.scan) = {}

\* Retries of a scan are never told two different things, and of two verdicts
\* sent under one scan id only one is taken for it.
OneAnswerPerScan ==
  \A m, n \in told :
    m.scan = n.scan /\ "scan_id_conflict" \notin {m.answer, n.answer} =>
      /\ m.verdict = n.verdict
      /\ m.answer = n.answer \/ {m.answer, n.answer} = {"admitted", "rescan"}
=============================================================================
