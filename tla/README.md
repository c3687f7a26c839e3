# EchoAndAura in TLA+

EchoAndAura sells event tickets: a buyer registers, pays by bKash outside the
system and types in the transaction id, an admin approves it against the bank
statement, the tickets go out by email, and gate staff scan them on their
phones, with or without a network. This directory models the parts of that
program in which several actors touch one piece of state, checks them with TLC
on small instances and proves what can be proved for all instances with TLAPS.

Paths below are relative to the repository. The application is in `src/`, the
gate relay (a Cloudflare worker with one durable object per event) in `relay/`.

## 1. The system

| Component | Code | State | Operations | What makes it correct | Module |
| --- | --- | --- | --- | --- | --- |
| Orders | `src/server/services/orders.service.ts`, `lib/order-status.ts`, `lib/hold.ts` | `orders`, `order_events` | createOrder, submitPayment, expireLapsedHolds | legal moves only; one payment, one order; a hold ends only after its time and its grace; the open-order cap | `Orders` |
| Fulfilment | `services/fulfilment.service.ts` | the same, `tickets` | approveOrder, rejectOrder, issueComplimentaryTickets, cancelTicket, resendTicketsEmail | one ticket per paid seat, the order ends with its last ticket | `Orders`, `EmailQueue` |
| Inventory | `repositories/inventory.repository.ts`, `services/ticket-types.service.ts` | three counters per ticket type | reserve, release, convertToSold, releaseSold, edit of the total | counters equal what the order and ticket rows say; never oversold | `Orders`, `SeatLedger` |
| Gate server | `services/door.service.ts`, `repositories/door.repository.ts` | `tickets.checked_in_*`, `door_scans`, `door_passes`, `order_events` | scan, sync of offline scans, undo (own, organizer's), revoke, revoke and undo | a scan admits at most once; the trail alternates; a revoked pass admits nobody | `Gate` |
| Gate relay | `relay/src/*`, `server/relay/relay.ts`, `app/door/use-relay.ts` | announcements in a queue, rows and revocations of the room, a cursor per phone | announce, deliver, claim, unclaim, catch up, rebuild | the room repeats what the server said; a phone that was away misses nothing | `RelayRoom` |
| Door phone | `app/door/offline/*`, `app/door/scanner.tsx` | downloaded list, marks, outbox, the scans that wait | scan with and without signal, early ADMIT, undo, sync, adopt a list, hear pings and relay, reload, sign out | no ADMIT forgotten while the page lives, none sent with two verdicts or reported twice on account of the request it replaced, newer marks survive an older list | `DoorPhone` |
| Emails and their queue | `server/email/*`, `server/queue/*`, `worker.ts` | BullMQ jobs in Redis, email lines in the audit trail | hook, enqueue, look, send, record, retry, report, resend | sent again only for a reason, nothing misleading after news, every job ends in the trail | `EmailQueue` |
| Hold-expiry job | `worker.ts` | the list it fetched | list, expire one, skip one, die | work is done at least once, and doing it twice is harmless | `Orders` |
| Sponsors, events, rename | `services/sponsors.service.ts`, `events.service.ts`, `tickets.service.ts` | positions and logos; status and cover; attendee names; the bucket of pictures | create, update, move, delete; publish, archive, set and remove the cover; rename, cancel | dense positions, no row names a picture that is gone, the trail tells every name | `Desk` |
| Money | `lib/promo.ts`, `lib/pricing.ts`, `lib/money.ts` | none | per-ticket discount, order totals, judging a code | integer paisa, never below zero, the total is the sum of its tickets | `Pricing` |
| Reports, settings, authentication, pages, docs site, infrastructure | the rest | - | - | section 6 | - |

How they meet: the HTTP handlers (one Node process or several) and the worker
share Postgres only. Most handlers are one transaction that first takes a row
lock, an advisory lock or a conditional `UPDATE`. What they read *before* the
transaction (the clock, the page an admin looked at, the ticket a scan looked
up, the list of lapsed holds, the pass that was authenticated, the cover that is
to be replaced) is stale by construction, and most of the hazards come from
there. After a commit the handlers enqueue emails and relay announcements;
nothing ties the enqueue to the commit. The relay and the phones form a second
system that hears of the first one late, repeatedly, out of order or never.

`PROJECT.json` lists the hazards one by one at their lines, with the properties
aimed at them.

## 2. The modules

| Module | Models | Notes |
| --- | --- | --- |
| `SeatLedger` | what the shop promises about seats: each one is unused, held, sold or given back, and no more are taken than exist | abstract, no code of its own |
| `Orders` | orders, fulfilment, inventory, the expiry job, the part of the gate that reads tickets | `Ledger == INSTANCE SeatLedger WITH ...`, refined |
| `Gate` | the door service statement by statement | |
| `RelayRoom` | announcement queue, room, phone cursors | |
| `DoorPhone` | one phone, the requests it gave up on, and what it can see of the rest | the server is one step per scan here |
| `Desk` | sponsors, the event's status and cover, a ticket's name, the bucket | |
| `EmailQueue` | the four emails of an order, their jobs and the worker | |
| `Pricing` | discounts and totals, with their theorems | operators only |
| `OrdersProofs`, `SeatProofs`, `GateProofs`, `RelayProofs`, `PhoneProofs`, `EmailProofs`, `DeskProofs` | theorems about the module they are named for (the first two: `Orders`) | |
| `MC_*` | instances for TLC | symmetry sets and a function-valued constant |

An operator with a suffix after an underscore and the comment "seeded fault"
(`Available_IgnoresHolds`) is a plausible bug in the operator it is named for;
no behaviour of the system uses it. With it in the place of the right one, the
property `PROJECT.json` names is violated.

### Orders

A handler that is one transaction is one action, taken at its commit; the lock
it takes first (`findByIdForUpdate`, the buyer's advisory lock, the conditional
counter statements) is what makes that sound. The models take these locks for
granted: a `createOrder` that lost its own would not be caught here. Kept apart,
because the code keeps them apart:

* `at`, the clock reading of a handler (`now()` before the transaction), may be
  up to `Lag` ticks behind `now` at the commit;
* `listed`, what `expireLapsedHolds` fetched without a lock and then tries one
  order at a time (`ExpireHold`, or `SkipHold` when the locked row is no longer
  pending), until it is done or the worker dies (`WorkerCrash`). One list is
  worked on at a time: an order expired by *another* run before its turn would
  meet the guard of `SkipHold`, but no such run is modelled;
* `verified`, the pairs of order and transaction id the admin checked on a page
  loaded earlier. `ApproveOrder` compares that id with the locked row's.

`stock` holds the three counters, `tickets` the ticket rows (`Order \X
1..MaxQuantity`), `admitted` those with `checked_in_at` set, `trail` the
`order_events` rows that change a status. Row updates, counters, tickets and
audit rows of one handler are one action. `SeatLedger` forgets all of that but
where each seat is; `ImplementsLedger` says that every step of `Orders` gives,
takes, sells or returns seats as one step of the ledger may, or leaves them.

### Gate

A scan is not one transaction. Each request of `Request` goes through
*received → looked up → ticket read → pass locked and ticket updated → row
recorded*; the program counter is `req[r].pc` and every SQL statement that can
see another's effect is a step. A conditional `UPDATE` that succeeds holds the
row until its transaction ends, so it is one step with the rest of that
transaction (`CheckIn`); one that misses commits to nothing, so the re-read, the
second try and the insertion of the refusal are steps of their own. A unique
`scan_id` may already be taken when the insert runs; the transaction then rolls
back and the request answers from the stored row. The shared lock on the pass
row (`Sharers`) keeps a revocation waiting. `revokeAndUndo` is one transaction:
`RevokeAndUndo` takes the pass's row lock and reads the list of its check-ins,
`FinishRevoke` undoes them, each only if it still stands, and commits with the
pass revoked. Of one pass there is one `revokeAndUndo` at a time.

A scan id is of one pass and one ticket: a phone draws a fresh UUID for each
scan. Left out: scans of unknown codes, of another event, or with the wrong
phone digits (they append a log row and touch nothing else); the doors close
again only if the event's dates move.

### RelayRoom

`log` is what the server committed, in order. An announcement is enqueued after
the commit (`Enqueue`, `EnqueueFails` after the producer's 3-second limit, which
may still have reached Redis), tried by the worker at the head of the queue
(`Deliver`, `DeliverUnanswered`, `DeliverFails`) and after a failure comes back
behind later ones (`Retry`, `BackoffOver`). The room is single-threaded, so each
message is one action with its broadcast and the sockets it closes. `phones[p]`
is a phone's link, its inbox, its cursor (`epoch`, `heard`) and, as a history
variable for the properties, the newest word it heard on each ticket (`knows`).

Times are small numbers; one pass may own several phones; a batch of re-sent
claims is its items one by one; a catch-up is one page (pages are sent one after
the other from the same turn of the event loop). Two environment assumptions
have names: `RacyEnqueue` lets two commits reach the queue in the other order
(two handlers are not ordered between commit and enqueue), `TornCatchUp` lets a
link drop in the middle of a catch-up. A third is built in: once the room has
closed a socket, the runtime hands over no message that socket still had under
way (`webSocketMessage` does not ask again whether its pass is revoked).

### DoorPhone

What the page keeps (`list`, `marks`, `outbox`, the batch being sent, the scan
in front and those that wait behind an early ADMIT) is apart from what IndexedDB
keeps (`list`, `disk`), so that a reload loses exactly what the code loses. A
request is a message in `net` that the server serves item by item; when the
phone stops waiting for it, it stays there with `heard = FALSE` and may still be
served, which is how a timed-out request that lands late is modelled. A scan
goes one of three ways: judged from the list (`ReadOffline`), asked and answered
(`ReadOnline`, `FrontAnswered`), or asked, shown as ADMIT while the server is
slow, and settled behind the person (`AdmitEarly`, `BehindAnswered`,
`BehindUnanswered`, which queues an offline admit that *supersedes* the online
scan). Sending is four steps with a reload possible between any two: `TakeBatch`
marks the items as sent in memory, `SendBatch` has it on disk, `BatchAnswered`
takes them from the page, `ForgetBatch` from the disk. Lists, status pings and
relay messages arrive at any time with any true content; the phone's clock is
off by up to `MaxSkew`. `UndoHere`, `SignOut` and `Reload` may come between any
two of these. `letIn`, `mine`, `stop`, `lost`, `cut`, `replaced` and `sent` are
history variables that only the properties read: `lost` are the outbox items a
sign-out threw away and told of, `cut` the early ADMITs whose page was closed,
reloaded or signed out before their answer, of which nobody is told (only the
outbox is loaded again and counted), and `replaced` the pairs of an offline
ADMIT and the request it was given in the place of.

IndexedDB is taken to work. The code swallows a write that fails and goes on
with the page's memory (`offline/store.ts:178-185`); a reload would then forget
items of the outbox, or take a sent one for unsent. No property here covers
that.

### Desk

A sponsor write takes one advisory lock before it reads, so its transaction is
one step (losing that lock would not be caught), with the renumbering of both levels and the demotion of the presenting
sponsor; the logo is stored before (`UploadLogo`) and the old one deleted after
(`trash`, `DeleteObject`), and the process may die in between. The event's cover
has no lock: `ReadForCover` and `SetImageKey` are two steps. The event's status
and a ticket's name are each a read and an `UPDATE` on condition of what was
read. `orphans` is a history variable: objects that a crash or a failed deletion
left.

### EmailQueue

One order's status moves on (`OrderMoves`), and each hook that follows a commit
either reaches Redis or does not. A job's attempt is four steps: taken, looked at
(`Look` reads the order once and skips what no longer fits), sent, recorded;
after any of them the worker may die, and the job waits again without an attempt
being counted. An attempt fails when the provider is not reached, refuses for
good, or takes the message and its answer is lost. `knew` is how many emails were
out when the order was looked at, `lost` and `unwritten` count what was
forgotten; all three are there for the properties.

### Pricing

`promoDiscountPerTicket`, `computeOrderTotals`, `judgePromo` and
`percentOfPaisa` as operators over all natural prices, in whole paisa. There is
no state, so there is no run; the theorems cover every input.

## 3. Runs

| Run | Instance | Distinct states | Shows |
| --- | --- | --- | --- |
| `orders_pair` | 2 orders, up to 2 seats each, 2 ticket types, 1 transaction id, lag 1, clock to 3 | 201,335 | counters equal rows; capacity; tickets match their order; nobody inside on a cancelled ticket; the trail explains the status; only lapsed holds expire; ended orders are frozen; `SeatLedger` is implemented |
| `orders_live` | 2 orders of which 1 may be open, 1 seat each, 2 transaction ids, lag 0, clock to 4, fair worker | 100,272 | one payment pays one order; the open-order cap holds when the clock does not lag; every lapsed hold is given back |
| `orders_cap` | 3 orders of which 2 may be open, lag 1 | violation | finding 1 |
| `gate_race` | 2 passes, 1 ticket, 3 sends, 2 requests at once | 1,487,772 | the eight gate properties |
| `relay_server` | 1 ticket, 1 phone, 3 commits, 2 attempts, both environment assumptions on | 2,661,250 | the room matches the server, a confirmed row falls only to its own undo, a revoked pass is silent |
| `relay_phones` | 2 tickets, 2 phones, 2 rooms | 1,228,859 | a connected phone with nothing in flight knows the newest word |
| `relay_late` | 1 ticket, 1 phone, 2 commits, 2 attempts, a room for 2, in-order enqueue | violation | finding 2 |
| `relay_torn` | as `relay_phones`, torn catch-ups | violation | finding 3 |
| `phone_outbox` | 1 ticket, 2 scans, 1 lost request, 1 reload, 2 events around the phone, clock to 2, skew 1, fair sync timer | 1,183,233 | no scan has two verdicts; no ADMIT is forgotten but an early one whose page is closed before its answer; none is listed twice on account of the request it replaced; own admits outlive older lists; the outbox drains |
| `phone_undo` | as `phone_outbox`, batches of 1, no clock | violation | finding 4 |
| `desk_forms` | 3 sponsors, 2 names, 3 requests | 638,655 | positions are dense and others keep their order; bucket and rows agree; the trail tells every name |
| `email_worker` | 1 resend, 2 jobs, 2 at a time, 2 attempts, 2 faults, fair worker | 306,678 | an email is repeated only for a reason; no payment instructions looked at after the news; every queued email ends |

Why the bounds are enough. Two orders and three seats are the least in which an
order is refused for want of seats, a partial cancellation leaves one ticket
live, and an edit of the total competes with both; two transaction ids allow a
correction and a reuse. With `HoldTime = GraceTime = 1` a clock to 3 or 4 passes
start, hold end, cutoff and one tick after. At the gate three sends make a first
request, a retry and another scan, two at a time; a second ticket would only add
independent copies. In the room three commits give check-in, undo and re-admit
(or revoke), two attempts let any of them come late or twice, and sequence
numbers to 4 let a claim, an unclaim and two announcements pass. Its room holds
one claim at a time, and a tombstone takes that place, so no claim is put over a
tombstone in `relay_server`; that happens in `relay_late`, whose room holds two,
and in the theorems, which hold for every size. For the room's
phones, two tickets, two phones and a rebuilt room give the catch-up something
old and something new in each of two rooms. On the door phone two scan ids are
an online scan and the offline admit that supersedes it, or one person's admit
and another's; one lost request is a timeout that lands late; two events are a
list and what makes it old, or a relay message and the ping that contradicts it.
Marks, list entries and outbox items of different tickets meet only in the batch
they share, so one ticket is checked. Three sponsors let two change places under
a third, and three requests are an update, a deletion under it and another
write. Two jobs of two attempts with two faults give an email a lost answer, a
retry and a death of the worker.

Bounds are `MaxCapacity`, `MaxResubmits`, `Horizon`, `Lag`; `MaxScans`,
`MaxSends`; `MaxCommits`, `MaxTries`, `MaxSeq`, `MaxEpoch`; `MaxClock`,
`MaxLosses`, `MaxReloads`, `MaxEvents`, `MaxSkew`; `MaxRequests`; `MaxResends`,
`MaxJobs`, `MaxFaults`. All are in guards. `MaxQuantity`, `MaxOpenOrders`,
`HoldTime`, `GraceTime`, `UndoSlack`, `PassClaimCap`, `RoomCap`, `SyncBatch`,
`Grace`, `MaxAttempts` and `Concurrency` are the code's own limits made small.

Symmetry is used on orders, transaction ids and ticket types; passes, tickets and
requests; tickets and phones of one pass; sponsors and names. The runs with
liveness (`orders_live`, `phone_outbox`, `email_worker`) use none.

Deadlock is checked in `Orders` and `Gate`. In the others it is not: once the
room's commits and sequence numbers are used up and every pass is revoked, the
phone's session has ended, the forms' requests are made, or every email has
ended, nothing is left to do.

### Fairness

* `orders_live`. The expiry job is a BullMQ repeating job on its own queue with
  its own worker every 60 seconds, so the list is read again and again (weak
  fairness of `ListLapsedHolds`). A worker may die inside any run but not inside
  every one, so an order that is listed again and again is tried at some point
  (strong fairness of `ExpireHold`), and one that no longer qualifies is passed
  over (weak fairness of `SkipHold`). Buyers, admins, and the clock are not fair:
  once a hold has lapsed nothing but the job can end it, because `submitPayment`
  refuses it.
* `phone_outbox`. The page tries its outbox every 10 seconds and after each scan
  (weak fairness of `TakeBatch`, `SendBatch`, `ForgetBatch`), and a signal that
  holds gets a sync request served and its answer back. How often a request is
  lost or the page reloaded is bounded, so a signal does hold in the end. Scans,
  undos, lists and other gates are not fair.
* `email_worker`. A worker that died is restarted by its container, and BullMQ
  gives a job to whoever is free (weak fairness of each job's `Attempt` and
  `Report`); faults are bounded. Hooks are not fair: one that never reaches Redis
  is only logged, so `EmailsSettle` speaks of queued jobs.

## 4. Proofs

The theorems hold for every value of the constants that satisfies the modules'
named assumptions: finitely many orders, tickets or passes where the code counts
them, a `NULL` that is none of the things it stands beside, and numeric ranges.
None of them assumes anything about bounds being small, about symmetry or about
fairness. Three have a hypothesis on the environment, without which the property
is false: `CapHolds` (`Lag = 0`, finding 1), `PhonesKnow` (`TornCatchUp = FALSE`,
finding 3) and `AdmitsRemembered` (`MaxSkew <= Grace`: the code takes half of a
list's 15 s round trip for the clock's error and waits 15 s).

**`OrdersProofs`.** `TypeCorrect` (`Spec => []TypeOK`), one lemma per handler,
whose `TypeOK` also says what a status implies about the row (a pending order
has a hold end, one under verification a transaction id), which the later proofs
need; and `AdmittedAreLive`.

`OrdersProofs` also has the payments: `PaymentsSpentOnce`, from

    PaymentInv == TypeOK /\ TrxIdsUnique /\ ApprovalsStand

The property speaks of the audit trail; what keeps an id from being approved
twice is that an approved order's row keeps its id for ever (`ApprovalsStand`)
and the unique index refuses it elsewhere (`TrxIdsUnique`). `TrailNeverLies`:
the rows of `order_events` always lead by legal moves from the order's creation
to the status it has. `EndedForGood` and `HoldsExpireLate` are the action
properties; the second rests on `HoldInv`: a fetched hold has lapsed by every
clock from the fetch on. `CapHolds` says under `Lag = 0` that the cap on open
orders holds for any cap, any buyers and any orders; with a lag it does not
(finding 1), so the assumption is the point of the theorem. The others assume
nothing about `Lag`.

**`SeatProofs`.** `SeatsKept`, that

    SeatInv == TypeOK /\ TicketsMatchOrder /\ CountersMatchRows /\ StockWithinTotal

is inductive, and from it `CountersCorrect`, `TicketsCorrect` and
`NeverOversold`. None of the conjuncts is inductive alone: an approval keeps the
counters right only if the order had no tickets before; a cancellation ends the
order only if its tickets match; capacity bounds *seats* only because the
counters count them, while the database's `CHECK` bounds the *counters*. The
argument is about cardinalities: `AddBlock`/`RemoveBlock` say what adding or
taking away an order's `q` seats does to the size of a set of seats; one lemma
per handler puts that together with what each counter statement does.
`LedgerImplemented` is the refinement, `Spec => ImplementsLedger`: under
`MapInv == SeatInv /\ UnbornEmpty` (an order that does not exist yet has no
tickets) every handler maps to one step of `SeatLedger` or to none.

**`GateProofs`.** From

    GateInv == TypeOK /\ PassesLocked /\ RequestsMeanIt /\ RowsInv /\ TrailMatchesTicket
               /\ ScanAdmitsOnce /\ UndoneRowsRefuse /\ AnswersFromRows

all eight properties of `gate_race`. `PassesLocked` is the shared lock (a request
inside its transaction has a pass that is not revoked), `RequestsMeanIt` what a
request still knows at each program counter, `RowsInv` ties a scan's row to the
trail, and `AnswersFromRows` says that every answer given was read from, or
written to, the one row of its scan id.

**`RelayProofs`.** `RevokedSilent` and `ConfirmedStands` from

    RelayInv == Announced /\ RoomRows /\ Links /\ RevokedPassSilent

`Announced` types the queue, `RoomRows` says that a confirmed row is no pass's,
and `Links` that nothing is on its way to a phone without a link (otherwise
hearing a last message would reconnect a revoked pass). That the server's own
undo carries the time of a check-in it announced needs a largest element of a
finite set; `LargestExists` gets it from the well-foundedness of strict
inclusion, since an induction rule cannot be instantiated here.

`RelayTyped` and `PhonesKnow` need what the phones are told. `QueueOnce` says that
a place in the log is in one place of the queue and has an attempt left, and
`PhonesAbreast` that the rows' sequence numbers are apart and every phone is
`Abreast` of them: what it heard and is about to hear is of this room and no
newer than its rows (`Truthful`); a hello comes first, and what is not of a
catch-up is newer than everything before it in the inbox (`InStep`); a word it
does not know is on its way while its link is up, and past its cursor except in
the middle of a catch-up (`Informed`), so that the next catch-up, which starts at
the cursor, brings it. Nothing is claimed of phones that are `LeftOut`: those of
a revoked pass, and all of them where a catch-up may be torn. One lemma says how
a link stays abreast when rows are replaced by newer ones and the messages that
tell of them are appended; each action of the room is an instance of it.

`RoomAgrees` says that a room which heard a ticket's announcements once and in
order agrees with the server, from

    RoomAgreed == Answered /\ \A k \in Ticket : Agrees(k) /\ Tombstone(k)

Each undo in the log takes back the last check-in before it (`Answered`); as long
as announcements came in order with none missing, the row obeys the last one
taken (`Agrees`); and a row removed by the server carries the time of an undo
that came (`Tombstone`), which a later check-in, of a later time, is not taken
for. The phones' claims and take-backs may come anywhere between.

**`PhoneProofs`.** `PhoneIsTyped` and `OneVerdict` from

    TypedInv == PhoneTyped /\ BoxInv

`PhoneTyped` says what each part of the phone, the server and the requests
between them is (what a request has done is in the log; an ADMIT it answers is a
check-in in the log). `BoxInv` is about the three copies of what is to be sent:
the outbox of the page, the one in IndexedDB and the batch on its way. They hold
the same scans with the same verdicts, except those being removed, and *what was
sent of a scan is what its item still says*. That is inductive only because an
item is marked as attempted in the step that takes the batch: `UndoHere` refuses
a marked item or one in flight, so a verdict changes only while nothing was sent
of it, also after a reload, since the mark is saved before the batch leaves.

`DoubleEntriesReal` is from `TypedInv`, `Kinds` and `DoubleInv`. `ByOurs` says that
a check-in of this phone that stands is in the log with its ticket: where an
offline ADMIT is logged as *already in*, the standing check-in is then neither
that scan nor, by the condition of the report, the request its row names, and it
stays in the trail when it is undone (`DoubleApart`). `Kinds` says that a scan id
was drawn either for a request to the server or for a verdict of the phone, the
latter always with the same name for the request it replaced, and that this name
is the request it really was given in the place of (`Truly`), through queue,
disk, batch and log. So the check-in that explains a double entry is another
than that request. It need not be another person's: section 5 says where one
person is listed as two.

`AdmitsAccounted` is `Accounted`: whoever was shown ADMIT is behind, or was told
of, or is in an outbox, or in the log, or is one of `cut`. That exception is the
code's: an early ADMIT lives in the page's memory until its answer. An item
leaves the outbox when *a* batch is answered, so the proof needs `Heard` (the only
batch the phone waits for is the one being sent, with the same items, although an
earlier one may still land) and `Kinds`: without it, the row found under the
item's id could be of another verdict, or not name the early ADMIT the item stood
for.

`AdmitsRemembered` is about what the phone knows of a person it let in, in three
places at once: a mark, the list it judges by, and a list on its way that will
replace the one and drop the other. From

    MemoryInv == TypedInv /\ Kinds /\ LogTrue /\ AnswersTrue /\ MineAdmits
                   /\ NoListYet /\ Remembered

`Remembered` says that either the mark is the phone's own and the server is not
known to have it (no list takes that away), or the ticket admits nobody at the
server any more, the mark or the list has that, and the list on its way will have
it too or is too old for the mark to give way (`Outlives`). The third part is
where the grace is needed: a mark that becomes known *now*, by a clock that may
be slow, must outlast every list read before. That the ticket admits nobody when
a mark becomes known is `LogTrue` and `AnswersTrue` (an answer says what the log
does, and the log is true of the ticket unless a check-in was taken back), with
`MineAdmits`: a remembered ADMIT is called nothing else by an outbox, a request or
the log, so its row is no mere note of a refusal.

**`EmailProofs`.** `TypeCorrect`, `EmailsSentOnce` and `NewsNeverOvertaken` from
`IInv`: `Account` relates the messages and lines of a job to how far it has got,
and `NoWayBack` says that an order which has stopped to await money never does
again, so no instructions are looked at after any news is out.

**`DeskProofs`.** `StatusMoves`: no two admins together move an event in a way one
of them could not, since the condition in the `UPDATE` makes the stale read
harmless. `NamesExplained`: the trail tells every name. `NoPictureDangles`, from
`Pictures == EventRow /\ Keys /\ LogosKept /\ CoversKept`: what a row names is in
the bucket and nobody is about to delete it, because every key is fresh and has
one owner and one request.

`PositionsStayDense` and `FormsMoveOne` are about `Renumber` and
`DemotePresenting`, from `Forms == Pictures /\ Ordered(rows) /\ CreatesAlone /\ ...`:
a level's positions are `1 .. n` for its `n` sponsors, and a new sponsor's id is
nobody's and no other request's. A form's transaction numbers whole levels: a
finite set of sponsors with different keys has a list in their order
(well-foundedness of strict inclusion once more), the places in that list are
dense, and a sponsor inserted into or taken from it leaves the others in theirs.
`BucketAgrees` adds to that `NothingLeft`, that a logo in the bucket is a row's, a
request's, about to go, or was left by a crash; `DeskTyped` is `TypeOK`.

**`Pricing`.** `DiscountWithinPrice`, `TotalExact`, `NoAmountRefused` and
`PercentMonotone`, for all natural prices, all codes that can be entered and all
quantities.

Every invariant and action property the runs check is a theorem. Only
model-checked are the three liveness properties, since liveness under fairness,
like `ENABLED`, is out of the prover's reach.

## 5. Findings

1. **The cap on open orders can be passed** (`orders_cap`). `createOrder` counts a
   buyer's open orders under a lock, but leaves out those whose hold has lapsed
   by its clock. `submitPayment` takes neither that lock nor the count and
   judges the hold by a clock reading taken before its transaction commits. A
   submission that read the clock just before the cutoff can commit after an
   order that was allowed because that hold had lapsed: three open orders.
   With `Lag = 0` the cap holds (`orders_live`, and `CapHolds` for every
   instance).
2. **A late check-in announcement comes back after its undo** (`relay_late`). The
   room knows the undo only as long as its tombstone is the ticket's row. The
   trace: a check-in is announced, but the answer is lost; its undo is announced
   and leaves a tombstone; a phone's claim takes the tombstone's place; the
   check-in is announced again, and the room confirms it over the claim. The
   undo is announced again only if its own answer was lost too.
3. **A torn catch-up hides an undo** (`relay_torn`). `backlog` sends the standing
   rows of a page before its undos, and a phone's cursor is the highest number
   heard. If the link drops between the two, the next catch-up starts behind
   the undo.
4. **An undone guest may still be checked in** (`phone_undo`). The scanner says that
   an offline admit taken back before it was sent "goes to the server as undone
   — never checked in" (`scanner.tsx:740`). `localUndo` looks at the outbox item
   only. If that item superseded an online request that timed out, the request
   may still land and check the guest in, and the item that follows, undone,
   does not take it back.

What the models also show, and no document contradicts (or one accepts it):

* A scan that misses twice answers `already_in` with no prior check-in if the
  undo lands before the last read (`door.service.ts:489`): the ticket is free,
  the next scan admits.
* An offline check-in synced after the undo of a *later* one is ignored by the
  room because its time is earlier, which is why `RoomMatchesServer` assumes
  `TimesInOrder`.
* On the phone: the answer to a batch marks whatever mark its ticket has by then
  (`use-offline.ts:246`), and an online ADMIT does not renew a mark that counts
  as known, so after an undo and a re-admit an older list may drop it; a late
  refusal of an early ADMIT takes away whatever mark its ticket has by then; a
  reload without signal forgets online admits newer than the list. `OwnAdmitsRemembered` states these
  exceptions. An item refused with its batch may make a relay claim count as
  known, which the design accepts (ADR-058).
* An early ADMIT whose page is closed, reloaded or signed out before its answer is
  forgotten and nobody is told: only the outbox is loaded again
  (`use-offline.ts:296`) and only it is counted at sign-out
  (`scanner.tsx:267-278`). If the request was lost as well, the person is in
  without a line. `EveryAdmitAccounted` states this exception (`cut`).
* A code read again offline, after a scan of it that got no answer and no offline
  verdict, is answered under a new id that names nothing (`scanner.tsx:456`).
  When the first request lands late, one person is listed as a double entry,
  although ADR-034 (`docs/decisions/034-gate-scanner-offline.md:69-71`) and the
  comment at `scanner.tsx:494-495` say that the server knows them for one.
  `DoubleEntryIsReal` therefore speaks of the request an offline ADMIT was given
  in the place of, and of no earlier one.
* Two reports of a cover at once leave the older picture behind, which a comment
  in the code accepts; a database commit whose answer is lost would let the
  error path delete a logo the row names; two reports of *one* key would let a
  row name a deleted cover, but the browser reports a key once. The model has
  neither of the last two. Publish readiness is judged from a read before the
  move, and a published event's cover may be removed.
* `docs/systems/EMAIL.md:90` says that a stale job can never send a misleading
  email. That holds up to the moment the job reads the order; `NewsInOrder`
  states exactly what holds. A hook whose job never reaches Redis is only
  logged, and two resends in the same millisecond share a job id.

## 6. Not modelled, and why

* **Ticket types and promo codes as rows.** Creating, editing and deleting them
  are single-row writes guarded by foreign keys; only `quantity_total`, which
  competes with orders, is an action (`Orders`).
* **`createOrder`'s reads before its transaction** (event status, registration
  window, price, promo code): they guard the request and may be stale at the
  commit; no document promises otherwise.
* **The rest of the door service**: the decision endpoint, search, status, the
  list of tickets and the conflict report read rows or append to a log. In the
  relay: token checks, the rate limit per socket, the cap of sockets per pass
  and the alarm that deletes an old room.
* **On the phone**: writes to IndexedDB that fail; the camera, the search box, the wording of the cards, QR
  tokens with their blocklist and manual codes; they decide *which* ticket a
  scan is of, before the model's step.
* **Queues**: heartbeats, error reports, BullMQ's handling of a job that stalls
  twice, and the sign-in and account emails, which have no order and no trail.
* **Desk**: setting a sponsor active, a flag no other operation reads; the
  checks of a picture's contents; creating and editing events.
* **Reports, dashboard, settings**: read-only queries and single-row settings.
  **Authentication**: sessions and second factors are a library's, and the rate
  limiter is one Redis script, atomic by itself.
* **Pages, admin pages, docs site, infrastructure, scripts**: rendering, test
  data and deployment. They are most of the repository's lines, which is why the
  lines the modules stand for are a small part of it; the services, repositories
  and queues in which actors compete are covered.

## 7. Plan

What could be added: a composition of `DoorPhone` with the statement-level
`Gate`, for two phones of one pass.
