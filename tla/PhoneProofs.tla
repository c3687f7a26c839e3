---------------------------- MODULE PhoneProofs ----------------------------
(***************************************************************************)
(* Theorems about DoorPhone, for any tickets, batch size, grace and        *)
(* bounds.  The outbox in the page and the one in IndexedDB agree, and     *)
(* what was sent of a scan is what its item still says (BoxInv): so the    *)
(* server never gets two verdicts.  A check-in of this phone that stands   *)
(* is in the log (ByOurs), and a scan id is drawn either for the server or *)
(* offline, with the one request it replaces (Kinds): so a double entry is *)
(* explained by a check-in other than that request.  The batch being sent  *)
(* is the only one waited for (Heard): so what leaves the outbox is in the *)
(* log with the same verdict, and an ADMIT is accounted for wherever it    *)
(* goes (Accounted).  The log is true of the tickets, an ADMIT remembered  *)
(* is called nothing else anywhere, and the phone's mark or its list, and  *)
(* the list on its way, have it (LogTrue, MineAdmits, Remembered): so it   *)
(* is not let in again.                                                    *)
(***************************************************************************)
EXTENDS DoorPhone, FiniteSetTheorems, SequenceTheorems, WellFoundedInduction, TLAPS

-----------------------------------------------------------------------------
(* The invariant.                                                          *)

\* The scan ids made so far.
Old == 1 .. Len(made)

\* The scans this page drew, in order, and what it keeps of them.
PageInv ==
  /\ made \in Seq(Ticket) /\ Len(made) <= MaxScans
  /\ list \in ListType \cup {NULL}
  /\ marks \in [Ticket -> MarkType \cup {NULL}]
  /\ front \in WaitType \cup {NULL} /\ (front # NULL => front.id \in Old)
  /\ behind \subseteq WaitType /\ \A w \in behind : w.id \in Old
  /\ failed \in [Ticket -> Scan \cup {NULL}]
  /\ \A k \in Ticket : failed[k] # NULL => failed[k] \in Old
  /\ offline \in BOOLEAN /\ over \in BOOLEAN
  /\ letIn \subseteq Old /\ mine \subseteq Old

\* An answer, or a row: who is in is told with the check-in that stands.
Tells(a) == a.result \in {"admitted", "already_in"} => a.of # NULL

ServerInv ==
  /\ clock \in 0 .. MaxClock
  /\ ticket \in [Ticket -> [live : BOOLEAN, by : CheckIn \cup {NULL}]]
  /\ undone \subseteq Ticket \X CheckIn
  /\ listing \in ListingType \cup {NULL} /\ (listing # NULL => listing.asOf <= clock)
  /\ rows \in [Scan -> RowType \cup {NULL}]
  /\ \A s \in Scan : rows[s] # NULL => s \in Old /\ Tells(rows[s])

RequestType ==
  [items : Seq(ItemType), done : Nat, answer : AnswerType \cup {NULL}, heard : BOOLEAN]

\* A request on its way: of one scan to be judged or of a batch of judged ones;
\* what was done of it is in the log, and an ADMIT it answers is the check-in's.
RequestIs(items, done, answer) ==
  /\ items # <<>> /\ done <= Len(items)
  /\ \A j \in DOMAIN items :
       items[j].id \in Old /\ (items[1].verdict # NULL <=> items[j].verdict # NULL)
  /\ done > 0 => answer # NULL /\ Tells(answer)
  /\ \A j \in 1 .. done : rows[items[j].id] # NULL
  /\ items[1].verdict = NULL =>
       /\ Len(items) = 1
       /\ done = 1 /\ answer.result = "admitted" => CheckedIn(items[1].id)
RequestOK(m) == m \in RequestType /\ RequestIs(m.items, m.done, m.answer)

NetInv == \A m \in net : RequestOK(m)

PhoneTyped == PageInv /\ ServerInv /\ NetInv

-----------------------------------------------------------------------------
(* What any step leaves in place.                                          *)

\* No scan id changes its ticket, no row of the log its contents.
MadeGrows ==
  /\ made' \in Seq(Ticket) /\ Len(made) <= Len(made') /\ Len(made') <= MaxScans
  /\ \A s \in Old : made'[s] = made[s]

RowsGrow == \A s \in Scan : rows[s] # NULL => rows'[s] = rows[s]

\* A scan id is drawn.
LEMMA OneMore ==
  ASSUME made \in Seq(Ticket), Len(made) < MaxScans, NEW k \in Ticket, made' = Append(made, k)
  PROVE  MadeGrows /\ Len(made') = Len(made) + 1 /\ NewId \in Scan /\ NewId \in Old'
         /\ NewId \notin Old /\ made'[NewId] = k
BY BoundAssumption DEF MadeGrows, Old, NewId, Scan

\* No scan id is drawn.
LEMMA MadeKept ==
  ASSUME PageInv, made' = made
  PROVE  MadeGrows /\ Old' = Old
BY BoundAssumption DEF PageInv, MadeGrows, Old

\* The scan ids made stay made, and are within the bound.
LEMMA OldGrows ==
  ASSUME made \in Seq(Ticket), MadeGrows
  PROVE  Old \subseteq Old' /\ Old \subseteq Scan /\ Old' \subseteq Scan
BY BoundAssumption DEF MadeGrows, Old, Scan

\* No step gives a scan id another ticket, or makes one beyond the bound.
LEMMA NextMade == PageInv /\ [Next]_vars => MadeGrows
<1> SUFFICES ASSUME PageInv, [Next]_vars PROVE MadeGrows
  OBVIOUS
<1>0. made \in Seq(Ticket)
  BY DEF PageInv
<1>1. ASSUME NEW k \in Ticket, NEW s, AnswerOffline(k, s) PROVE MadeGrows
  BY <1>0, <1>1, OneMore DEF AnswerOffline
<1>2. ASSUME NEW k \in Ticket, ReadOffline(k) PROVE MadeGrows
  BY <1>1, <1>2 DEF ReadOffline
<1>3. ASSUME NEW k \in Ticket, ReadOnline(k) PROVE MadeGrows
  BY <1>0, <1>3, OneMore DEF ReadOnline
<1>4. ASSUME NEW s \in Old, made' = Append(made, made[s]), Len(made) < MaxScans PROVE MadeGrows
  <2>1. made[s] \in Ticket
    BY <1>0 DEF Old
  <2> QED BY <1>0, <1>4, <2>1, OneMore
<1>5. CASE FrontTimeout
  <2>1. front.id \in Old /\ made[front.id] \in Ticket
    BY <1>0, <1>5 DEF FrontTimeout, PageInv, Old
  <2>2. (made' = made) \/ AnswerOffline(made[front.id], front.id)
    BY <1>5 DEF FrontTimeout
  <2> QED BY <1>1, <2>1, <2>2, MadeKept
<1>6. ASSUME NEW w \in behind, NEW slow, BehindUnanswered(w, slow) PROVE MadeGrows
  BY <1>4, <1>6 DEF BehindUnanswered, PageInv
<1>7. \/ made' = made
      \/ \E k \in Ticket : ReadOffline(k) \/ ReadOnline(k)
      \/ FrontTimeout
      \/ \E w \in behind, slow \in BOOLEAN : BehindUnanswered(w, slow)
  BY ZenonT(30) DEF Next, Scanning, Syncing, Listening, vars, server, page, history, bounds, Retry,
         AdmitEarly, FrontAnswered, FrontSlow, FrontRefused, BehindAnswered, BehindRefused, UndoHere,
         TakeBatch, SendBatch, BatchUnanswered, ForgetBatch, BatchAnswered, BatchRefused,
         AdoptList, Ping, HearUndo, HearCheckIn, Serve, Lose, CheckInElsewhere, UndoAtServer,
         CancelTicket, ReadList, Reload, SignOut, Tick
<1> QED BY <1>2, <1>3, <1>5, <1>6, <1>7, MadeKept

\* No step changes a row of the log.
LEMMA NextRows == ServerInv /\ NetInv /\ [Next]_vars => RowsGrow
<1> SUFFICES ASSUME ServerInv, NetInv, [Next]_vars PROVE RowsGrow
  OBVIOUS
<1>1. ASSUME NEW m \in net, Serve(m) PROVE RowsGrow
  <2> DEFINE i == m.items[m.done + 1]
  <2>1. \/ rows' = rows
        \/ rows[i.id] = NULL /\ \E r : rows' = [rows EXCEPT ![i.id] = r]
    BY <1>1 DEF Serve
  <2> HIDE DEF i
  <2> QED BY <2>1 DEF RowsGrow, ServerInv
<1>2. rows' = rows \/ \E m \in net : Serve(m)
  BY ZenonT(30) DEF Next, Scanning, Syncing, Listening, vars, server, page, history, bounds, ReadOffline,
         ReadOnline, Ask, Retry, AdmitEarly, FrontTimeout,
         FrontAnswered, FrontSlow, FrontRefused, BehindAnswered, BehindRefused, BehindUnanswered, UndoHere,
         TakeBatch, SendBatch, BatchUnanswered, ForgetBatch, BatchAnswered, BatchRefused,
         AdoptList, Ping, HearUndo, HearCheckIn, Lose, CheckInElsewhere, UndoAtServer,
         CancelTicket, ReadList, Reload, SignOut, Tick
<1> QED BY <1>1, <1>2 DEF RowsGrow

-----------------------------------------------------------------------------
(* The page.                                                               *)

\* A set of places that is not empty has a last one.
LEMMA LastPlace ==
  ASSUME NEW n \in Nat, NEW S \in SUBSET (1 .. n), S # {}
  PROVE  \E last \in S : \A q \in S : q <= last
<1> DEFINE HasLast(A) == \E x \in A : \A y \in A : y <= x
           Bad == {A \in FiniteSubsetsOf(S) : A # {} /\ ~HasLast(A)}
<1>0. IsFiniteSet(S)
  <2>1. IsFiniteSet(1 .. n)
    BY FS_Interval
  <2> QED BY <2>1, FS_Subset
<1>1. SUFFICES ASSUME Bad # {} PROVE FALSE
  BY <1>0 DEF FiniteSubsetsOf
<1>2. PICK A \in Bad : \A B \in Bad : <<B, A>> \notin StrictSubsetOrdering(S)
  <2>1. IsWellFoundedOn(StrictSubsetOrdering(S), FiniteSubsetsOf(S))
    BY FS_StrictSubsetOrderingWellFounded
  <2>2. Bad \subseteq FiniteSubsetsOf(S)
    OBVIOUS
  <2> QED BY <1>1, <2>1, <2>2, WFMin
<1>3. A \in SUBSET S /\ IsFiniteSet(A) /\ A # {} /\ ~HasLast(A)
  BY DEF FiniteSubsetsOf
<1>4. PICK x \in A : TRUE
  BY <1>3
<1>5. A \ {x} # {}
  BY <1>3, <1>4
<1>6. A \ {x} \in FiniteSubsetsOf(S)
  BY <1>3, FS_RemoveElement DEF FiniteSubsetsOf
<1>7. <<A \ {x}, A>> \in StrictSubsetOrdering(S)
  BY <1>3, <1>4 DEF StrictSubsetOrdering
<1>8. PICK y \in A \ {x} : \A z \in A \ {x} : z <= y
  BY <1>2, <1>5, <1>6, <1>7
<1>9. HasLast(A)
  <2>1. \A z \in A : z \in Nat
    BY <1>3
  <2>2. CASE x <= y
    BY <1>8, <2>1, <2>2
  <2>3. CASE y < x
    <3>1. \A z \in A : z <= x
      BY <1>4, <1>8, <2>1, <2>3
    <3> QED BY <1>4, <3>1
  <2> QED BY <1>4, <1>8, <2>1, <2>2, <2>3
<1> QED BY <1>3, <1>9

\* A mark is well-formed.
LEMMA MarkOK ==
  ASSUME NEW of \in CheckIn, NEW known \in Int \cup {NULL}, NEW source \in {"own", "server", "relay"}
  PROVE  Mark(of, known, source) \in MarkType
BY DEF Mark, MarkType

\* So is the phone's clock.
LEMMA TimesOK == ServerInv => \A now \in PhoneTimes : now \in Int
BY BoundAssumption DEF ServerInv, PhoneTimes

MarksTyped(f) == f \in [Ticket -> MarkType \cup {NULL}]

\* An online answer leaves the marks well-formed.
LEMMA LearntTyped ==
  ASSUME PageInv, NEW k \in Ticket, NEW a, Tells(a), a.of \in CheckIn \cup {NULL}, NEW now \in Int
  PROVE  MarksTyped(Learnt(k, a, now))
<1>0. MarksTyped(marks)
  BY DEF PageInv, MarksTyped
<1>1. CASE list = NULL \/ a.result \notin {"admitted", "already_in"}
           \/ (marks[k] # NULL /\ marks[k].source # "relay")
  BY <1>0, <1>1 DEF Learnt
<1>2. CASE ~(list = NULL \/ a.result \notin {"admitted", "already_in"}
           \/ (marks[k] # NULL /\ marks[k].source # "relay"))
  <2> DEFINE m == Mark(a.of, now, IF a.of \in Scan THEN "own" ELSE "server")
  <2>1. Learnt(k, a, now) = [marks EXCEPT ![k] = m]
    BY <1>2 DEF Learnt
  <2>2. m \in MarkType
    BY <1>2, MarkOK DEF Tells
  <2> HIDE DEF m
  <2> QED BY <1>0, <2>1, <2>2 DEF MarksTyped
<1> QED BY <1>1, <1>2

\* A late answer to an early ADMIT does.
LEMMA SettledTyped ==
  ASSUME PageInv, NEW k \in Ticket, NEW s \in Scan, NEW a, Tells(a), a.of \in CheckIn \cup {NULL},
         NEW now \in Int
  PROVE  MarksTyped(Settled(k, s, a, now))
<1>0. MarksTyped(marks)
  BY DEF PageInv, MarksTyped
<1>1. CASE a.result = "admitted"
  <2>1. CASE marks[k] = NULL
    BY <1>0, <1>1, <2>1 DEF Settled
  <2>2. CASE marks[k] # NULL
    <3> DEFINE m == [[marks[k] EXCEPT !.known = now] EXCEPT !.of = s]
    <3>1. Settled(k, s, a, now) = [marks EXCEPT ![k] = m]
      BY <1>0, <1>1, <2>2 DEF Settled, MarksTyped
    <3>2. marks[k] \in MarkType
      BY <1>0, <2>2 DEF MarksTyped
    <3>3. m \in MarkType
      BY <3>2 DEF MarkType, CheckIn
    <3> HIDE DEF m
    <3> QED BY <1>0, <3>1, <3>3 DEF MarksTyped
  <2> QED BY <2>1, <2>2
<1>2. CASE a.result = "already_in"
  <2> DEFINE m == Mark(a.of, now, "server")
  <2>1. Settled(k, s, a, now) = [marks EXCEPT ![k] = m]
    BY <1>2 DEF Settled
  <2>2. m \in MarkType
    BY <1>2, MarkOK DEF Tells
  <2> HIDE DEF m
  <2> QED BY <1>0, <2>1, <2>2 DEF MarksTyped
<1>3. CASE a.result \notin {"admitted", "already_in"}
  <2>1. Settled(k, s, a, now) = [marks EXCEPT ![k] = NULL]
    BY <1>3 DEF Settled
  <2> QED BY <1>0, <2>1 DEF MarksTyped
<1> QED BY <1>1, <1>2, <1>3

\* The list adopted over the marks old, with the outbox items.
LEMMA AdoptedTyped ==
  ASSUME NEW asOf, NEW old, MarksTyped(old), NEW items, NEW n \in Nat, DOMAIN items = 1 .. n,
         \A i \in 1 .. n : items[i].id \in Scan
  PROVE  MarksTyped(Adopted(asOf, old, items))
<1> DEFINE queued(k) == QueuedAdmits(items, k)
           last(k) == CHOOSE i \in queued(k) : \A q \in queued(k) : q <= i
           new(k) == IF queued(k) # {} THEN Mark(items[last(k)].id, NULL, "own")
                     ELSE IF old[k] # NULL /\ ListCovers(old[k].known, asOf) THEN NULL
                     ELSE old[k]
<1>1. Adopted(asOf, old, items) = [k \in Ticket |-> new(k)]
  BY DEF Adopted
<1>2. ASSUME NEW k \in Ticket PROVE new(k) \in MarkType \cup {NULL}
  <2>1. CASE queued(k) # {}
    <3>1. queued(k) \subseteq 1 .. n
      BY DEF QueuedAdmits
    <3>2. last(k) \in queued(k)
      <4> HIDE DEF queued
      <4> QED BY <2>1, <3>1, LastPlace
    <3>3. items[last(k)].id \in CheckIn
      BY <3>1, <3>2 DEF CheckIn
    <3> QED BY <2>1, <3>3, MarkOK
  <2>2. CASE queued(k) = {}
    BY <2>2 DEF MarksTyped
  <2> QED BY <2>1, <2>2
<1> HIDE DEF new
<1> QED BY <1>1, <1>2 DEF MarksTyped

\* Sequence q lists set S of numbers in ascending order.
Lists(q, S) ==
  \E c \in Nat : /\ q \in [1 .. c -> S]
                 /\ \A i, j \in 1 .. c : i < j => q[i] < q[j]
                 /\ \A x \in S : \E i \in 1 .. c : q[i] = x

\* Numbers can be put in ascending order.
LEMMA AscendingExists ==
  ASSUME NEW n \in Nat, NEW S \in SUBSET (1 .. n)
  PROVE  \E q \in SetToSeqs(S) : \A i, j \in DOMAIN q : i < j => q[i] < q[j]
<1> DEFINE Sorted(q) == \A i, j \in DOMAIN q : i < j => q[i] < q[j]
           HasOrder(A) == \E q \in SetToSeqs(A) : Sorted(q)
           Bad == {A \in FiniteSubsetsOf(S) : ~HasOrder(A)}
<1>0. IsFiniteSet(S)
  <2>1. IsFiniteSet(1 .. n)
    BY FS_Interval
  <2> QED BY <2>1, FS_Subset
<1>1. SUFFICES ASSUME Bad # {} PROVE FALSE
  BY <1>0 DEF FiniteSubsetsOf
<1>2. PICK A \in Bad : \A B \in Bad : <<B, A>> \notin StrictSubsetOrdering(S)
  <2>1. IsWellFoundedOn(StrictSubsetOrdering(S), FiniteSubsetsOf(S))
    BY FS_StrictSubsetOrderingWellFounded
  <2>2. Bad \subseteq FiniteSubsetsOf(S)
    OBVIOUS
  <2> QED BY <1>1, <2>1, <2>2, WFMin
<1>3. A \in SUBSET S /\ IsFiniteSet(A) /\ ~HasOrder(A)
  BY DEF FiniteSubsetsOf
<1>4. A # {}
  <2> SUFFICES ASSUME A = {} PROVE FALSE
    OBVIOUS
  <2>1. Cardinality(A) = 0
    BY FS_EmptySet
  <2>2. <<>> \in SetToSeqs(A) /\ Sorted(<<>>)
    BY <2>1 DEF SetToSeqs
  <2> QED BY <1>3, <2>2
<1>5. PICK x \in A : \A y \in A : y <= x
  BY <1>3, <1>4, LastPlace
<1>6. A \ {x} \in FiniteSubsetsOf(S) /\ IsFiniteSet(A \ {x})
  BY <1>3, FS_RemoveElement DEF FiniteSubsetsOf
<1>7. <<A \ {x}, A>> \in StrictSubsetOrdering(S)
  BY <1>3, <1>5 DEF StrictSubsetOrdering
<1>8. PICK q \in SetToSeqs(A \ {x}) : Sorted(q)
  BY <1>2, <1>6, <1>7
<1> DEFINE c == Cardinality(A \ {x})
           p == [i \in 1 .. c + 1 |-> IF i = c + 1 THEN x ELSE q[i]]
<1>9. c \in Nat /\ Cardinality(A) = c + 1
  <2>1. c \in Nat /\ Cardinality(A) \in Nat /\ c = Cardinality(A) - 1
    BY <1>3, <1>5, <1>6, FS_RemoveElement, FS_CardinalityType
  <2> QED BY <2>1
<1>10. q \in [1 .. c -> A \ {x}] /\ \A i, j \in 1 .. c : i # j => q[i] # q[j]
  BY <1>8 DEF SetToSeqs
<1> HIDE DEF c
<1>11. p \in [1 .. c + 1 -> A]
  BY <1>5, <1>9, <1>10
<1>12. \A i, j \in 1 .. c + 1 : i # j => p[i] # p[j]
  BY <1>9, <1>10
<1>13. \A y \in A : y \in Nat
  BY <1>3
<1>14. Sorted(p)
  <2> SUFFICES ASSUME NEW i \in 1 .. c + 1, NEW j \in 1 .. c + 1, i < j
               PROVE  p[i] < p[j]
    BY <1>11
  <2>1. i \in 1 .. c /\ p[i] = q[i] /\ p[i] \in A \ {x}
    BY <1>9, <1>10
  <2>2. CASE j = c + 1
    BY <1>5, <1>13, <2>1, <2>2
  <2>3. CASE j # c + 1
    <3>1. j \in 1 .. c /\ p[j] = q[j]
      BY <1>9, <2>3
    <3>2. q[i] < q[j]
      BY <1>8, <1>10, <2>1, <3>1
    <3> QED BY <2>1, <3>1, <3>2
  <2> QED BY <2>2, <2>3
<1>15. p \in SetToSeqs(A)
  BY <1>9, <1>11, <1>12 DEF SetToSeqs
<1> QED BY <1>3, <1>14, <1>15

\* `Ascending' does it, and leaves none out.
LEMMA AscendingLists ==
  ASSUME NEW n \in Nat, NEW S \in SUBSET (1 .. n)
  PROVE  Lists(Ascending(S), S)
<1> DEFINE q == Ascending(S)
           c == Cardinality(S)
<1>0. IsFiniteSet(S)
  <2>1. IsFiniteSet(1 .. n)
    BY FS_Interval
  <2> QED BY <2>1, FS_Subset
<1>1. c \in Nat
  BY <1>0, FS_CardinalityType
<1>2. q \in SetToSeqs(S) /\ \A i, j \in DOMAIN q : i < j => q[i] < q[j]
  BY AscendingExists DEF Ascending
<1> HIDE DEF q
<1>3. q \in [1 .. c -> S] /\ \A i, j \in 1 .. c : i # j => q[i] # q[j]
  BY <1>2 DEF SetToSeqs
<1>4. IsFiniteSet(1 .. c) /\ Cardinality(1 .. c) = c
  BY <1>1, FS_Interval
<1>5. q \in Injection(1 .. c, S)
  BY <1>3 DEF Injection, IsInjective
<1>6. q \in Surjection(1 .. c, S)
  BY <1>0, <1>4, <1>5, FS_Injection
<1>7. \A x \in S : \E i \in 1 .. c : q[i] = x
  BY <1>6 DEF Surjection
<1>8. \A i, j \in 1 .. c : i < j => q[i] < q[j]
  BY <1>2, <1>3
<1> HIDE DEF c
<1>9. Lists(q, S)
  BY <1>1, <1>3, <1>7, <1>8 DEF Lists
<1> QED BY <1>9 DEF q

-----------------------------------------------------------------------------
(* The outbox.                                                             *)

\* What was sent of item i's scan is what it says, and it is marked as sent.
AsSent(i, told) == \A x \in told : x[1] = i.id => i.attempted /\ i.verdict = x[2]
Keeps(i, ids, told) == i \in ItemType /\ i.id \in ids /\ i.verdict # NULL /\ AsSent(i, told)

DiskIds == {i.id : i \in disk}

\* The page and IndexedDB hold the same scans, but for those being removed.
SameScans ==
  IF syncing # NULL /\ syncing.step = "removing"
    THEN Ids(outbox) = DiskIds \ Ids(syncing.batch)
    ELSE Ids(outbox) = DiskIds

\* A batch on its way is in the outbox as it was taken.
BatchInv ==
  syncing # NULL =>
    /\ \A j \in DOMAIN syncing.batch : syncing.batch[j].id \in Old
    /\ syncing.step # "removing" =>
         /\ syncing.batch # <<>>
         /\ \A j \in DOMAIN syncing.batch :
              /\ syncing.batch[j].attempted
              /\ \E n \in DOMAIN outbox : outbox[n] = syncing.batch[j]

Outbox ==
  /\ outbox \in Seq(ItemType)
  /\ \A n \in DOMAIN outbox : Keeps(outbox[n], Old, sent)
  /\ \A n, o \in DOMAIN outbox : outbox[n].id = outbox[o].id => n = o

Disk ==
  /\ \A i \in disk : Keeps(i, Old, sent)
  /\ \A i, j \in disk : i.id = j.id => i = j
  /\ \A n \in DOMAIN outbox : \A i \in disk : outbox[n].id = i.id => outbox[n].verdict = i.verdict

BoxInv ==
  /\ sent \subseteq Old \X Verdict /\ syncing \in SyncType \cup {NULL}
  /\ Outbox /\ Disk /\ SameScans /\ BatchInv

\* The scan ids of a sequence of items.
LEMMA IdsAre ==
  ASSUME NEW s
  PROVE  /\ \A n \in DOMAIN s : s[n].id \in Ids(s)
         /\ \A x \in Ids(s) : \E n \in DOMAIN s : s[n].id = x
BY DEF Ids, ToSet

\* What is kept of an item outlasts a step that sends nothing.
LEMMA KeepsOn ==
  ASSUME made \in Seq(Ticket), MadeGrows, sent' = sent
  PROVE  \A i : Keeps(i, Old, sent) => Keeps(i, Old', sent')
<1>1. Old \subseteq Old'
  BY OldGrows
<1> QED BY <1>1 DEF Keeps, AsSent

\* Nothing of the outbox changes.
LEMMA BoxStays ==
  ASSUME PageInv, BoxInv, MadeGrows, UNCHANGED <<outbox, disk, syncing, sent>>
  PROVE  BoxInv'
<1>0. made \in Seq(Ticket)
  BY DEF PageInv
<1>1. Old \subseteq Old' /\ \A i : Keeps(i, Old, sent) => Keeps(i, Old', sent')
  BY <1>0, OldGrows, KeepsOn
<1>2. Outbox'
  BY <1>1 DEF BoxInv, Outbox
<1>3. Disk'
  BY <1>1 DEF BoxInv, Disk
<1>4. SameScans'
  BY DEF BoxInv, SameScans, DiskIds, Ids
<1>5. BatchInv'
  BY <1>1 DEF BoxInv, BatchInv
<1> QED BY <1>1, <1>2, <1>3, <1>4, <1>5 DEF BoxInv

\* A new scan is queued.
LEMMA QueueBoxed ==
  ASSUME PageInv, BoxInv, NEW k \in Ticket, Len(made) < MaxScans, made' = Append(made, k),
         NEW v \in Verdict, NEW s \in Scan \cup {NULL}, Queue(Item(NewId, v, s)),
         UNCHANGED <<syncing, sent>>
  PROVE  BoxInv'
<1> DEFINE new == Item(NewId, v, s)
<1>0. made \in Seq(Ticket)
  BY DEF PageInv
<1>1. MadeGrows /\ NewId \in Scan /\ NewId \in Old' /\ NewId \notin Old
  BY <1>0, OneMore
<1>2. Old \subseteq Old' /\ \A i : Keeps(i, Old, sent) => Keeps(i, Old', sent')
  BY <1>0, <1>1, OldGrows, KeepsOn
<1>3. new \in ItemType /\ new.id = NewId /\ new.verdict = v
  BY <1>1 DEF Item, ItemType
<1>4. outbox' = Append(outbox, new) /\ disk' = Put(disk, new)
  BY DEF Queue
<1> HIDE DEF new
<1>5. Keeps(new, Old', sent')
  <2>1. \A x \in sent : x[1] # NewId
    BY <1>1 DEF BoxInv
  <2>2. v # NULL
    BY NullAssumption
  <2> QED BY <1>1, <1>3, <2>1, <2>2 DEF Keeps, AsSent
<1>6. outbox \in Seq(ItemType)
  BY DEF BoxInv, Outbox
<1>7. /\ DOMAIN outbox' = 1 .. Len(outbox) + 1 /\ outbox' \in Seq(ItemType)
      /\ outbox'[Len(outbox) + 1] = new
      /\ \A n \in DOMAIN outbox : n \in DOMAIN outbox' /\ outbox'[n] = outbox[n]
      /\ \A n \in DOMAIN outbox' : n \in DOMAIN outbox \/ n = Len(outbox) + 1
  BY <1>3, <1>4, <1>6
<1>8. \A n \in DOMAIN outbox : outbox[n].id # NewId
  BY <1>1 DEF BoxInv, Outbox, Keeps
<1>9. \A i \in disk : i.id # NewId
  BY <1>1 DEF BoxInv, Disk, Keeps
<1>10. disk' = disk \cup {new}
  BY <1>3, <1>4, <1>9 DEF Put
<1>11. Outbox'
  <2>1. \A n \in DOMAIN outbox' : Keeps(outbox'[n], Old', sent')
    BY <1>2, <1>5, <1>7 DEF BoxInv, Outbox
  <2>2. \A n, o \in DOMAIN outbox' : outbox'[n].id = outbox'[o].id => n = o
    BY <1>3, <1>7, <1>8 DEF BoxInv, Outbox
  <2> QED BY <1>7, <2>1, <2>2 DEF Outbox
<1>12. Disk'
  <2>1. \A i \in disk' : Keeps(i, Old', sent')
    BY <1>2, <1>5, <1>10 DEF BoxInv, Disk
  <2>2. \A i, j \in disk' : i.id = j.id => i = j
    BY <1>3, <1>9, <1>10 DEF BoxInv, Disk
  <2>3. ASSUME NEW n \in DOMAIN outbox', NEW i \in disk', outbox'[n].id = i.id
        PROVE  outbox'[n].verdict = i.verdict
    BY <1>3, <1>7, <1>8, <1>9, <1>10, <2>3 DEF BoxInv, Disk
  <2> QED BY <2>1, <2>2, <2>3 DEF Disk
<1>13. SameScans'
  <2>1. Ids(outbox') = Ids(outbox) \cup {NewId}
    BY <1>3, <1>7 DEF Ids, ToSet
  <2>2. DiskIds' = DiskIds \cup {NewId}
    BY <1>3, <1>10 DEF DiskIds
  <2>3. syncing # NULL => NewId \notin Ids(syncing.batch)
    BY <1>1, IdsAre DEF BoxInv, BatchInv
  <2> QED BY <2>1, <2>2, <2>3 DEF BoxInv, SameScans
<1>14. BatchInv'
  BY <1>2, <1>7 DEF BoxInv, BatchInv
<1> QED BY <1>2, <1>11, <1>12, <1>13, <1>14 DEF BoxInv

\* One that did not leave is taken back.
LEMMA UndoBoxed ==
  ASSUME PageInv, BoxInv, NEW n \in DOMAIN outbox, UndoHere(n)
  PROVE  BoxInv'
<1> DEFINE i == outbox[n]
           new == [i EXCEPT !.verdict = "undone"]
<1>0. made' = made /\ sent' = sent /\ syncing' = syncing /\ Old' = Old
  BY DEF UndoHere, Old
<1>1. i \in ItemType /\ i.id \in Old /\ AsSent(i, sent) /\ i.verdict # NULL
  BY DEF BoxInv, Outbox, Keeps
<1>2. ~i.attempted /\ (syncing # NULL => i.id \notin Ids(syncing.batch))
  BY DEF UndoHere, Undoable
<1>3. /\ new \in ItemType /\ new.id = i.id /\ new.verdict = "undone"
  BY <1>1 DEF ItemType, Verdict
<1>4. outbox' = [outbox EXCEPT ![n] = new] /\ disk' = Put(disk, new)
  BY DEF UndoHere
<1> HIDE DEF new
<1>5. \A x : Keeps(x, Old', sent') <=> Keeps(x, Old, sent)
  BY <1>0 DEF Keeps, AsSent
<1>6. Keeps(new, Old, sent)
  <2>1. \A x \in sent : x[1] # i.id
    BY <1>1, <1>2 DEF AsSent
  <2>2. new.verdict # NULL
    BY <1>3, NullAssumption DEF Verdict
  <2> HIDE DEF i
  <2> QED BY <1>1, <1>3, <2>1, <2>2 DEF Keeps, AsSent
<1>7. outbox \in Seq(ItemType)
  BY DEF BoxInv, Outbox
<1>8. /\ DOMAIN outbox' = DOMAIN outbox /\ outbox' \in Seq(ItemType)
      /\ outbox'[n] = new /\ \A o \in DOMAIN outbox : o # n => outbox'[o] = outbox[o]
      /\ \A o \in DOMAIN outbox : outbox'[o].id = outbox[o].id
  BY <1>3, <1>4, <1>7
<1>9. disk' = {j \in disk : j.id # i.id} \cup {new}
  BY <1>3, <1>4 DEF Put
<1>10. i.id \in DiskIds
  <2>1. i.id \in Ids(outbox)
    BY IdsAre
  <2> QED BY <2>1 DEF BoxInv, SameScans
<1>11. Outbox'
  BY <1>5, <1>6, <1>8 DEF BoxInv, Outbox
<1>12. Disk'
  <2>1. \A j \in disk' : Keeps(j, Old, sent)
    BY <1>6, <1>9 DEF BoxInv, Disk
  <2>2. \A j, o \in disk' : j.id = o.id => j = o
    BY <1>3, <1>9 DEF BoxInv, Disk
  <2>3. ASSUME NEW o \in DOMAIN outbox', NEW j \in disk', outbox'[o].id = j.id
        PROVE  outbox'[o].verdict = j.verdict
    <3>1. CASE o = n
      BY <1>3, <1>8, <1>9, <2>3, <3>1
    <3>2. CASE o # n
      <4>1. j \in disk /\ outbox'[o] = outbox[o]
        <5>1. outbox[o].id # i.id
          BY <1>8, <3>2 DEF BoxInv, Outbox
        <5> QED BY <1>3, <1>8, <1>9, <2>3, <3>2, <5>1
      <4> QED BY <1>8, <2>3, <4>1 DEF BoxInv, Disk
    <3> QED BY <3>1, <3>2
  <2> QED BY <1>5, <2>1, <2>2, <2>3 DEF Disk
<1>13. SameScans'
  <2>1. Ids(outbox') = Ids(outbox)
    BY <1>8 DEF Ids, ToSet
  <2>2. DiskIds' = DiskIds
    BY <1>3, <1>9, <1>10 DEF DiskIds
  <2> QED BY <1>0, <2>1, <2>2 DEF BoxInv, SameScans
<1>14. BatchInv'
  <2> SUFFICES ASSUME syncing # NULL
               PROVE  /\ \A j \in DOMAIN syncing.batch : syncing.batch[j].id \in Old
                      /\ syncing.step # "removing" =>
                           /\ syncing.batch # <<>>
                           /\ \A j \in DOMAIN syncing.batch :
                                /\ syncing.batch[j].attempted
                                /\ \E o \in DOMAIN outbox' : outbox'[o] = syncing.batch[j]
    BY <1>0 DEF BatchInv
  <2>1. ASSUME NEW j \in DOMAIN syncing.batch, NEW o \in DOMAIN outbox, outbox[o] = syncing.batch[j]
        PROVE  outbox'[o] = syncing.batch[j]
    <3>1. outbox[o].id # i.id
      BY <1>2, <2>1, IdsAre
    <3> QED BY <1>8, <2>1, <3>1
  <2> QED BY <1>8, <2>1 DEF BoxInv, BatchInv
<1> QED BY <1>0, <1>11, <1>12, <1>13, <1>14 DEF BoxInv

\* The oldest items are marked as sent.
LEMMA TakeItems ==
  ASSUME BoxInv, TakeBatch
  PROVE  /\ syncing = NULL /\ syncing' \in SyncType /\ syncing'.step = "saving"
         /\ DOMAIN outbox' = DOMAIN outbox /\ outbox' \in Seq(ItemType)
         /\ \A j \in DOMAIN outbox : \/ outbox'[j] = outbox[j]
                                     \/ outbox'[j] = [outbox[j] EXCEPT !.attempted = TRUE]
         /\ syncing'.batch # <<>> /\ DOMAIN syncing'.batch \subseteq DOMAIN outbox
         /\ \A j \in DOMAIN syncing'.batch :
              /\ outbox'[j] = syncing'.batch[j]
              /\ syncing'.batch[j] = [outbox[j] EXCEPT !.attempted = TRUE]
<1> DEFINE n == IF Len(outbox) < SyncBatch THEN Len(outbox) ELSE SyncBatch
           taken(j) == [outbox[j] EXCEPT !.attempted = TRUE]
           batch == [j \in 1 .. n |-> taken(j)]
           rest == SubSeq(outbox, n + 1, Len(outbox))
<1>1. outbox \in Seq(ItemType) /\ outbox # <<>> /\ syncing = NULL
  BY DEF BoxInv, Outbox, TakeBatch
<1>2. syncing' = [step |-> "saving", batch |-> batch] /\ outbox' = batch \o rest
  BY DEF TakeBatch
<1>3. n \in Nat /\ n >= 1 /\ n <= Len(outbox)
  BY <1>1, BoundAssumption
<1> HIDE DEF n
<1>4. \A j \in 1 .. n : taken(j) \in ItemType
  <2> SUFFICES ASSUME NEW j \in 1 .. n PROVE taken(j) \in ItemType
    OBVIOUS
  <2>1. outbox[j] \in ItemType
    BY <1>1, <1>3
  <2> QED BY <2>1 DEF ItemType
<1> HIDE DEF taken
<1>5. batch \in Seq(ItemType) /\ Len(batch) = n /\ DOMAIN batch = 1 .. n
  BY <1>3, <1>4
<1>6. rest \in Seq(ItemType) /\ Len(rest) = Len(outbox) - n
      /\ \A j \in 1 .. Len(rest) : rest[j] = outbox[n + j]
  BY <1>1, <1>3
<1>7. \A j \in 1 .. n : batch[j] = taken(j)
  OBVIOUS
<1>8. batch # <<>>
  BY <1>3, <1>5
<1>9. syncing' \in SyncType /\ syncing'.step = "saving" /\ syncing'.batch = batch
  BY <1>2, <1>5 DEF SyncType
<1> HIDE DEF batch, rest
<1>10. /\ outbox' \in Seq(ItemType) /\ Len(outbox') = Len(outbox)
       /\ \A j \in 1 .. Len(outbox') : outbox'[j] = IF j <= n THEN batch[j] ELSE rest[j - n]
  <2>1. outbox' = batch \o rest
    BY <1>2
  <2>2. /\ batch \o rest \in Seq(ItemType) /\ Len(batch \o rest) = Len(batch) + Len(rest)
        /\ \A j \in 1 .. Len(batch) + Len(rest) :
             (batch \o rest)[j] = IF j <= Len(batch) THEN batch[j] ELSE rest[j - Len(batch)]
    BY <1>5, <1>6, ConcatProperties
  <2>3. Len(batch) + Len(rest) = Len(outbox)
    BY <1>1, <1>3, <1>5, <1>6
  <2> QED BY <1>5, <2>1, <2>2, <2>3
<1>11. DOMAIN outbox' = DOMAIN outbox /\ DOMAIN batch \subseteq DOMAIN outbox
  BY <1>1, <1>3, <1>5, <1>10
<1>12. \A j \in 1 .. n : outbox'[j] = batch[j]
  BY <1>1, <1>3, <1>10
<1>13. \A j \in DOMAIN outbox : j \notin 1 .. n => outbox'[j] = outbox[j]
  <2> SUFFICES ASSUME NEW j \in DOMAIN outbox, j \notin 1 .. n PROVE outbox'[j] = outbox[j]
    OBVIOUS
  <2>1. j \in 1 .. Len(outbox) /\ ~(j <= n) /\ j - n \in 1 .. Len(rest) /\ n + (j - n) = j
    BY <1>1, <1>3, <1>6
  <2>2. outbox'[j] = rest[j - n] /\ rest[j - n] = outbox[n + (j - n)]
    BY <1>6, <1>10, <2>1
  <2> QED BY <2>1, <2>2
<1> QED BY <1>1, <1>5, <1>7, <1>8, <1>9, <1>10, <1>11, <1>12, <1>13 DEF taken

\* Marked as sent, the items are as before.
LEMMA TakeBoxed ==
  ASSUME PageInv, BoxInv, TakeBatch
  PROVE  BoxInv'
<1>0. made' = made /\ sent' = sent /\ disk' = disk /\ Old' = Old
  BY DEF TakeBatch, history, Old
<1>1. /\ syncing = NULL /\ syncing' \in SyncType /\ syncing'.step = "saving"
      /\ DOMAIN outbox' = DOMAIN outbox /\ outbox' \in Seq(ItemType)
      /\ syncing'.batch # <<>> /\ DOMAIN syncing'.batch \subseteq DOMAIN outbox
  BY TakeItems
<1>2. ASSUME NEW j \in DOMAIN outbox
      PROVE  /\ outbox'[j].id = outbox[j].id /\ outbox'[j].verdict = outbox[j].verdict
             /\ Keeps(outbox'[j], Old, sent)
  <2>1. outbox'[j] = outbox[j] \/ outbox'[j] = [outbox[j] EXCEPT !.attempted = TRUE]
    BY TakeItems
  <2>2. outbox[j] \in ItemType /\ outbox'[j] \in ItemType
    BY <1>1 DEF BoxInv, Outbox
  <2>3. /\ outbox'[j].id = outbox[j].id /\ outbox'[j].verdict = outbox[j].verdict
        /\ outbox[j].attempted => outbox'[j].attempted
    BY <2>1, <2>2 DEF ItemType
  <2>4. Keeps(outbox[j], Old, sent)
    BY DEF BoxInv, Outbox
  <2> QED BY <2>2, <2>3, <2>4 DEF Keeps, AsSent
<1>3. ASSUME NEW j \in DOMAIN syncing'.batch
      PROVE  outbox'[j] = syncing'.batch[j] /\ syncing'.batch[j].attempted
  <2>1. j \in DOMAIN outbox /\ outbox'[j] = syncing'.batch[j]
        /\ syncing'.batch[j] = [outbox[j] EXCEPT !.attempted = TRUE]
    BY <1>1, TakeItems
  <2>2. outbox[j] \in ItemType
    BY <2>1 DEF BoxInv, Outbox
  <2> QED BY <2>1, <2>2 DEF ItemType
<1>4. Outbox'
  BY <1>0, <1>1, <1>2 DEF BoxInv, Outbox
<1>5. Disk'
  BY <1>0, <1>1, <1>2 DEF BoxInv, Disk
<1>6. SameScans'
  <2>1. Ids(outbox') = Ids(outbox)
    BY <1>1, <1>2 DEF Ids, ToSet
  <2> QED BY <1>0, <1>1, <2>1 DEF BoxInv, SameScans, DiskIds
<1>7. BatchInv'
  <2>1. \A j \in DOMAIN syncing'.batch :
          /\ syncing'.batch[j].id \in Old
          /\ syncing'.batch[j].attempted /\ j \in DOMAIN outbox' /\ outbox'[j] = syncing'.batch[j]
    BY <1>1, <1>2, <1>3 DEF Keeps
  <2> QED BY <1>0, <1>1, <2>1 DEF BatchInv
<1> QED BY <1>0, <1>1, <1>4, <1>5, <1>6, <1>7 DEF BoxInv

\* What a batch on its way holds.
LEMMA BatchItems ==
  ASSUME BoxInv, syncing # NULL, syncing.step # "removing"
  PROVE  /\ \A i \in ToSet(syncing.batch) : i.attempted /\ \E n \in DOMAIN outbox : outbox[n] = i
         /\ \A i \in ToSet(syncing.batch) : Keeps(i, Old, sent)
         /\ \A i, j \in ToSet(syncing.batch) : i.id = j.id => i = j
         /\ \A n \in DOMAIN outbox :
              outbox[n].id \in Ids(syncing.batch) => outbox[n] \in ToSet(syncing.batch)
         /\ Ids(syncing.batch) \subseteq DiskIds
<1>1. \A i \in ToSet(syncing.batch) : i.attempted /\ \E n \in DOMAIN outbox : outbox[n] = i
  BY DEF BoxInv, BatchInv, ToSet
<1>2. \A i \in ToSet(syncing.batch) : Keeps(i, Old, sent)
  BY <1>1 DEF BoxInv, Outbox
<1>3. \A i, j \in ToSet(syncing.batch) : i.id = j.id => i = j
  BY <1>1 DEF BoxInv, Outbox
<1>4. \A n \in DOMAIN outbox :
        outbox[n].id \in Ids(syncing.batch) => outbox[n] \in ToSet(syncing.batch)
  BY <1>1 DEF BoxInv, Outbox, Ids
<1>5. Ids(syncing.batch) \subseteq DiskIds
  <2>1. \A i \in ToSet(syncing.batch) : i.id \in Ids(outbox)
    BY <1>1, IdsAre
  <2> QED BY <2>1 DEF BoxInv, SameScans, Ids
<1> QED BY <1>1, <1>2, <1>3, <1>4, <1>5

\* The batch is saved and leaves.
LEMMA SendBoxed ==
  ASSUME PageInv, BoxInv, SendBatch
  PROVE  BoxInv'
<1> DEFINE B == ToSet(syncing.batch)
<1>0. /\ made' = made /\ outbox' = outbox /\ Old' = Old
      /\ syncing # NULL /\ syncing.step = "saving"
      /\ syncing \in SyncType /\ syncing' = [syncing EXCEPT !.step = "sent"]
      /\ disk' = Saved(disk, syncing.batch)
      /\ sent' = sent \cup {<<i.id, i.verdict>> : i \in B}
  BY DEF SendBatch, Old, BoxInv
<1>1. syncing' \in SyncType /\ syncing'.step = "sent" /\ syncing'.batch = syncing.batch
      /\ syncing' # NULL
  BY <1>0, NullAssumption DEF SyncType
<1>2. /\ \A i \in B : i.attempted /\ \E n \in DOMAIN outbox : outbox[n] = i
      /\ \A i \in B : Keeps(i, Old, sent)
      /\ \A i, j \in B : i.id = j.id => i = j
      /\ \A n \in DOMAIN outbox : outbox[n].id \in Ids(syncing.batch) => outbox[n] \in B
      /\ Ids(syncing.batch) \subseteq DiskIds
  BY <1>0, BatchItems
<1>3. Ids(syncing.batch) = {i.id : i \in B}
  BY DEF Ids
<1> HIDE DEF B
<1>4. ASSUME NEW i, Keeps(i, Old, sent), \A j \in B : j.id = i.id => j.verdict = i.verdict /\ i.attempted
      PROVE  Keeps(i, Old, sent')
  BY <1>0, <1>4 DEF Keeps, AsSent
<1>5. \A i \in B : Keeps(i, Old, sent')
  BY <1>2, <1>4
<1>6. \A n \in DOMAIN outbox : Keeps(outbox[n], Old, sent')
  <2> SUFFICES ASSUME NEW n \in DOMAIN outbox PROVE Keeps(outbox[n], Old, sent')
    OBVIOUS
  <2>1. Keeps(outbox[n], Old, sent)
    BY DEF BoxInv, Outbox
  <2>2. CASE outbox[n].id \in Ids(syncing.batch)
    BY <1>2, <1>5, <2>2
  <2>3. CASE outbox[n].id \notin Ids(syncing.batch)
    BY <1>3, <1>4, <2>1, <2>3
  <2> QED BY <2>2, <2>3
<1>7. sent' \subseteq Old \X Verdict
  <2>1. \A i \in B : i.id \in Old /\ i.verdict \in Verdict
    BY <1>2 DEF Keeps, ItemType
  <2> QED BY <1>0, <2>1 DEF BoxInv
<1>8. disk' = {i \in disk : i.id \notin Ids(syncing.batch)} \cup B
  BY <1>0 DEF Saved, B
<1>9. Outbox'
  BY <1>0, <1>6 DEF BoxInv, Outbox
<1>10. Disk'
  <2>1. \A i \in disk' : Keeps(i, Old, sent')
    <3>1. \A i \in disk : i.id \notin Ids(syncing.batch) => Keeps(i, Old, sent')
      BY <1>3, <1>4 DEF BoxInv, Disk
    <3> QED BY <1>5, <1>8, <3>1
  <2>2. \A i, j \in disk' : i.id = j.id => i = j
    BY <1>2, <1>3, <1>8 DEF BoxInv, Disk
  <2>3. ASSUME NEW n \in DOMAIN outbox, NEW i \in disk', outbox[n].id = i.id
        PROVE  outbox[n].verdict = i.verdict
    <3>1. CASE i \in B
      <4>1. outbox[n] \in B
        BY <1>2, <1>3, <2>3, <3>1
      <4> QED BY <1>2, <2>3, <3>1, <4>1
    <3>2. CASE i \in disk
      BY <2>3, <3>2 DEF BoxInv, Disk
    <3> QED BY <1>8, <3>1, <3>2
  <2> QED BY <1>0, <2>1, <2>2, <2>3 DEF Disk
<1>11. SameScans'
  <2>1. DiskIds' = DiskIds
    <3>1. \A i \in B : i.id \in DiskIds
      BY <1>2, <1>3
    <3>2. \A i \in disk : i.id \in Ids(syncing.batch) => \E j \in B : j.id = i.id
      BY <1>3
    <3> QED BY <1>8, <3>1, <3>2 DEF DiskIds
  <2> QED BY <1>0, <1>1, <2>1 DEF BoxInv, SameScans
<1>12. BatchInv'
  BY <1>0, <1>1 DEF BoxInv, BatchInv
<1>13. Old' = Old
  BY <1>0
<1> QED BY <1>1, <1>7, <1>9, <1>10, <1>11, <1>12, <1>13 DEF BoxInv

\* The batch's items leave the outbox, the others keep their order.
LEMMA DequeueItems ==
  ASSUME BoxInv, Dequeue
  PROVE  /\ outbox' \in Seq(ItemType)
         /\ \A j \in DOMAIN outbox' :
              \E n \in DOMAIN outbox : outbox'[j] = outbox[n] /\ outbox[n].id \notin Ids(syncing.batch)
         /\ \A n \in DOMAIN outbox :
              outbox[n].id \notin Ids(syncing.batch) => \E j \in DOMAIN outbox' : outbox'[j] = outbox[n]
         /\ \A i, j \in DOMAIN outbox' : outbox'[i].id = outbox'[j].id => i = j
<1> DEFINE S == {n \in DOMAIN outbox : outbox[n].id \notin Ids(syncing.batch)}
           q == Ascending(S)
<1>0. outbox \in Seq(ItemType) /\ \A n, o \in DOMAIN outbox : outbox[n].id = outbox[o].id => n = o
  BY DEF BoxInv, Outbox
<1>1. outbox' = [j \in DOMAIN q |-> outbox[q[j]]]
  BY DEF Dequeue
<1>2. S \subseteq 1 .. Len(outbox) /\ Len(outbox) \in Nat
  BY <1>0
<1>3. Lists(q, S)
  <2> HIDE DEF S
  <2> QED BY <1>2, AscendingLists
<1> HIDE DEF q
<1>4. PICK c \in Nat : /\ q \in [1 .. c -> S]
                       /\ \A i, j \in 1 .. c : i < j => q[i] < q[j]
                       /\ \A x \in S : \E i \in 1 .. c : q[i] = x
  BY <1>3 DEF Lists
<1>5. DOMAIN q = 1 .. c /\ \A j \in 1 .. c : q[j] \in S
  BY <1>4
<1>6. \A j \in 1 .. c : outbox'[j] = outbox[q[j]]
  BY <1>1, <1>5
<1>7. DOMAIN outbox' = 1 .. c
  BY <1>1, <1>5
<1>8. \A j \in 1 .. c : outbox[q[j]] \in ItemType
  BY <1>0, <1>5
<1>9. outbox' \in Seq(ItemType)
  BY <1>1, <1>4, <1>5, <1>8
<1>10. \A i, j \in 1 .. c : q[i] = q[j] => i = j
  <2>1. \A i, j \in 1 .. c : i # j => q[i] # q[j]
    <3> SUFFICES ASSUME NEW i \in 1 .. c, NEW j \in 1 .. c, i # j, q[i] = q[j] PROVE FALSE
      OBVIOUS
    <3>1. i < j \/ j < i
      BY <1>4
    <3>2. q[i] \in Nat /\ q[j] \in Nat
      BY <1>2, <1>5
    <3> QED BY <1>4, <3>1, <3>2
  <2> QED BY <2>1
<1>11. \A i, j \in DOMAIN outbox' : outbox'[i].id = outbox'[j].id => i = j
  BY <1>0, <1>5, <1>6, <1>7, <1>10
<1>12. \A j \in DOMAIN outbox' :
         \E n \in DOMAIN outbox : outbox'[j] = outbox[n] /\ outbox[n].id \notin Ids(syncing.batch)
  BY <1>5, <1>6, <1>7
<1>13. \A n \in S : \E j \in DOMAIN outbox' : outbox'[j] = outbox[n]
  BY <1>4, <1>6, <1>7
<1> QED BY <1>9, <1>11, <1>12, <1>13

\* What was answered, or given up, is out of the page and not yet out of IndexedDB.
LEMMA DequeueBoxed ==
  ASSUME PageInv, BoxInv, Sending, Dequeue, UNCHANGED <<made, disk, sent>>
  PROVE  BoxInv'
<1>0. Old' = Old /\ syncing # NULL /\ syncing.step = "sent" /\ syncing \in SyncType
      /\ syncing' = [syncing EXCEPT !.step = "removing"]
  BY DEF Old, Sending, Dequeue, BoxInv
<1>1. syncing' \in SyncType /\ syncing'.step = "removing" /\ syncing'.batch = syncing.batch
      /\ syncing' # NULL
  BY <1>0, NullAssumption DEF SyncType
<1>2. /\ outbox' \in Seq(ItemType)
      /\ \A j \in DOMAIN outbox' :
           \E n \in DOMAIN outbox : outbox'[j] = outbox[n] /\ outbox[n].id \notin Ids(syncing.batch)
      /\ \A n \in DOMAIN outbox :
           outbox[n].id \notin Ids(syncing.batch) => \E j \in DOMAIN outbox' : outbox'[j] = outbox[n]
      /\ \A i, j \in DOMAIN outbox' : outbox'[i].id = outbox'[j].id => i = j
  BY DequeueItems
<1>3. Outbox'
  BY <1>0, <1>2 DEF BoxInv, Outbox
<1>4. Disk'
  <2>1. \A n \in DOMAIN outbox' : \A i \in disk : outbox'[n].id = i.id => outbox'[n].verdict = i.verdict
    BY <1>2 DEF BoxInv, Disk
  <2>2. Old' = Old
    BY <1>0
  <2> QED BY <2>1, <2>2 DEF BoxInv, Disk
<1>5. SameScans'
  <2>1. Ids(outbox) = DiskIds /\ DiskIds' = DiskIds
    BY <1>0 DEF BoxInv, SameScans, DiskIds
  <2>2. Ids(outbox') = Ids(outbox) \ Ids(syncing.batch)
    <3>1. ASSUME NEW x \in Ids(outbox') PROVE x \in Ids(outbox) \ Ids(syncing.batch)
      <4>1. PICK j \in DOMAIN outbox' : outbox'[j].id = x
        BY <3>1, IdsAre
      <4>2. PICK n \in DOMAIN outbox : outbox'[j] = outbox[n] /\ outbox[n].id \notin Ids(syncing.batch)
        BY <1>2
      <4> QED BY <4>1, <4>2, IdsAre
    <3>2. ASSUME NEW x \in Ids(outbox), x \notin Ids(syncing.batch) PROVE x \in Ids(outbox')
      <4>1. PICK n \in DOMAIN outbox : outbox[n].id = x
        BY <3>2, IdsAre
      <4>2. PICK j \in DOMAIN outbox' : outbox'[j] = outbox[n]
        BY <1>2, <3>2, <4>1
      <4> QED BY <4>1, <4>2 DEF Ids, ToSet
    <3> QED BY <3>1, <3>2
  <2> QED BY <1>1, <2>1, <2>2 DEF SameScans
<1>6. BatchInv'
  <2>1. \A j \in DOMAIN syncing.batch : syncing.batch[j].id \in Old
    BY <1>0 DEF BoxInv, BatchInv
  <2>2. Old' = Old
    BY <1>0
  <2> QED BY <1>1, <2>1, <2>2 DEF BatchInv
<1>7. sent' \subseteq Old' \X Verdict
  BY <1>0 DEF BoxInv
<1> QED BY <1>1, <1>3, <1>4, <1>5, <1>6, <1>7 DEF BoxInv

\* A send that ends: unanswered, or once the batch is off the disk.
LEMMA SendOverBoxed ==
  ASSUME PageInv, BoxInv, BatchUnanswered \/ ForgetBatch
  PROVE  BoxInv'
<1>0. made' = made /\ outbox' = outbox /\ sent' = sent /\ Old' = Old /\ syncing' = NULL /\ syncing # NULL
  BY DEF BatchUnanswered, ForgetBatch, SendOver, Sending, history, Old
<1>1. Outbox'
  BY <1>0 DEF BoxInv, Outbox
<1>2. disk' \subseteq disk
  BY DEF BatchUnanswered, ForgetBatch
<1>3. Disk'
  BY <1>0, <1>2 DEF BoxInv, Disk
<1>4. SameScans'
  <2>1. CASE BatchUnanswered
    <3>1. disk' = disk /\ syncing.step = "sent"
      BY <2>1 DEF BatchUnanswered, Sending
    <3> QED BY <1>0, <3>1 DEF BoxInv, SameScans, DiskIds
  <2>2. CASE ForgetBatch
    <3>1. disk' = {i \in disk : i.id \notin Ids(syncing.batch)} /\ syncing.step = "removing"
      BY <2>2 DEF ForgetBatch
    <3>2. DiskIds' = DiskIds \ Ids(syncing.batch)
      BY <3>1 DEF DiskIds
    <3> QED BY <1>0, <3>1, <3>2 DEF BoxInv, SameScans
  <2> QED BY <2>1, <2>2
<1>5. BatchInv'
  BY <1>0 DEF BatchInv
<1> QED BY <1>0, <1>1, <1>3, <1>4, <1>5 DEF BoxInv

\* What is loaded from IndexedDB.
LEMMA ReloadItems ==
  ASSUME PageInv, BoxInv, NEW b \in BOOLEAN, Reload(b)
  PROVE  /\ outbox' \in Seq(ItemType)
         /\ \A j \in DOMAIN outbox' : outbox'[j] \in disk
         /\ \A i \in disk : \E j \in DOMAIN outbox' : outbox'[j] = i
         /\ \A i, j \in DOMAIN outbox' : outbox'[i].id = outbox'[j].id => i = j
<1> DEFINE ids == {i.id : i \in disk}
           q == Ascending(ids)
           stored(x) == CHOOSE i \in disk : i.id = x
<1>0. (\A i \in disk : Keeps(i, Old, sent)) /\ \A i, j \in disk : i.id = j.id => i = j
  BY DEF BoxInv, Disk
<1>1. outbox' = [j \in DOMAIN q |-> stored(q[j])]
  BY DEF Reload
<1>2. ids \subseteq 1 .. Len(made) /\ Len(made) \in Nat
  BY <1>0 DEF PageInv, Keeps, Old
<1>3. \A x \in ids : stored(x) \in disk /\ stored(x).id = x
  OBVIOUS
<1> HIDE DEF stored
<1>4. Lists(q, ids)
  <2> HIDE DEF ids
  <2> QED BY <1>2, AscendingLists
<1>5. \A i \in disk : i.id \in ids
  OBVIOUS
<1>6. \A x \in ids : x \in Nat
  BY <1>2
<1>7. \A i \in disk : stored(i.id) = i
  BY <1>0, <1>3, <1>5
<1> HIDE DEF q, ids
<1>8. PICK c \in Nat : /\ q \in [1 .. c -> ids]
                       /\ \A i, j \in 1 .. c : i < j => q[i] < q[j]
                       /\ \A x \in ids : \E i \in 1 .. c : q[i] = x
  BY <1>4 DEF Lists
<1>9. DOMAIN q = 1 .. c /\ \A j \in 1 .. c : q[j] \in ids
  BY <1>8
<1>10. DOMAIN outbox' = 1 .. c /\ \A j \in 1 .. c : outbox'[j] = stored(q[j])
  BY <1>1, <1>9
<1>11. \A j \in 1 .. c : stored(q[j]) \in disk /\ stored(q[j]).id = q[j]
  BY <1>3, <1>9
<1>12. \A i \in disk : i \in ItemType
  BY <1>0 DEF Keeps
<1>13. outbox' \in Seq(ItemType)
  BY <1>1, <1>8, <1>9, <1>11, <1>12
<1>14. \A i \in disk : \E j \in DOMAIN outbox' : outbox'[j] = i
  <2> SUFFICES ASSUME NEW i \in disk PROVE \E j \in DOMAIN outbox' : outbox'[j] = i
    OBVIOUS
  <2>1. PICK j \in 1 .. c : q[j] = i.id
    BY <1>5, <1>8
  <2> QED BY <1>7, <1>10, <2>1
<1>15. \A i, j \in 1 .. c : q[i] = q[j] => i = j
  <2> SUFFICES ASSUME NEW i \in 1 .. c, NEW j \in 1 .. c, i # j, q[i] = q[j] PROVE FALSE
    OBVIOUS
  <2>1. i < j \/ j < i
    BY <1>8
  <2>2. q[i] \in Nat /\ q[j] \in Nat
    BY <1>6, <1>9
  <2> QED BY <1>8, <2>1, <2>2
<1> QED BY <1>10, <1>11, <1>13, <1>14, <1>15

\* Loaded again, the two outboxes hold the same.
LEMMA ReloadBoxed ==
  ASSUME PageInv, BoxInv, NEW b \in BOOLEAN, Reload(b)
  PROVE  BoxInv'
<1>0. made' = made /\ disk' = disk /\ sent' = sent /\ Old' = Old /\ syncing' = NULL
  BY DEF Reload, Old
<1>1. /\ outbox' \in Seq(ItemType)
      /\ \A j \in DOMAIN outbox' : outbox'[j] \in disk
      /\ \A i \in disk : \E j \in DOMAIN outbox' : outbox'[j] = i
      /\ \A i, j \in DOMAIN outbox' : outbox'[i].id = outbox'[j].id => i = j
  BY ReloadItems
<1>2. Outbox'
  BY <1>0, <1>1 DEF BoxInv, Disk, Outbox
<1>3. Disk'
  BY <1>0, <1>1 DEF BoxInv, Disk
<1>4. SameScans'
  <2>1. Ids(outbox') = DiskIds
    BY <1>1 DEF Ids, ToSet, DiskIds
  <2> QED BY <1>0, <2>1 DEF SameScans, DiskIds
<1>5. BatchInv'
  BY <1>0 DEF BatchInv
<1> QED BY <1>0, <1>2, <1>3, <1>4, <1>5 DEF BoxInv

\* Both are empty.
LEMMA SignOutBoxed ==
  ASSUME PageInv, BoxInv, SignOut
  PROVE  BoxInv'
<1>0. made' = made /\ disk' = {} /\ sent' = sent /\ Old' = Old /\ syncing' = NULL /\ outbox' = <<>>
  BY DEF SignOut, Old
<1>1. Outbox' /\ Disk' /\ BatchInv'
  BY <1>0 DEF Outbox, Disk, BatchInv
<1>2. SameScans'
  BY <1>0 DEF SameScans, DiskIds, Ids, ToSet
<1> QED BY <1>0, <1>1, <1>2 DEF BoxInv

\* A scan judged from the list.
LEMMA AnswerBoxed ==
  ASSUME PageInv, BoxInv, NEW k \in Ticket, NEW s \in Scan \cup {NULL}, AnswerOffline(k, s),
         UNCHANGED <<syncing, sent>>
  PROVE  BoxInv'
<1> DEFINE v == IF Judge(k) = "admitted" THEN "admitted" ELSE "refused"
<1>1. v \in Verdict
  BY DEF Verdict
<1>2. Len(made) < MaxScans /\ made' = Append(made, k) /\ Queue(Item(NewId, v, s))
  BY DEF AnswerOffline
<1> HIDE DEF v
<1> QED BY <1>1, <1>2, QueueBoxed

\* The scan in front is one this page drew.
LEMMA FrontIs ==
  ASSUME PageInv, front # NULL
  PROVE  front \in WaitType /\ front.id \in Old /\ front.id \in Scan /\ made[front.id] \in Ticket
<1>1. front \in WaitType /\ front.id \in Old /\ made \in Seq(Ticket)
  BY DEF PageInv
<1> QED BY <1>1 DEF WaitType, Old

\* So are those behind an early ADMIT.
LEMMA BehindIs ==
  ASSUME PageInv, NEW w \in behind
  PROVE  w \in WaitType /\ w.id \in Old /\ w.id \in Scan /\ made[w.id] \in Ticket
<1>1. w \in WaitType /\ w.id \in Old /\ made \in Seq(Ticket)
  BY DEF PageInv
<1> QED BY <1>1 DEF WaitType, Old

\* Every step keeps the two outboxes and the batch together.
LEMMA NextBoxed == PageInv /\ BoxInv /\ [Next]_vars => BoxInv'
<1> SUFFICES ASSUME PageInv, BoxInv, [Next]_vars PROVE BoxInv'
  OBVIOUS
<1>0. MadeGrows
  BY NextMade
<1>1. ASSUME NEW k \in Ticket, ReadOffline(k) PROVE BoxInv'
  BY <1>1, AnswerBoxed DEF ReadOffline
<1>2. CASE FrontTimeout
  <2>1. front.id \in Scan /\ made[front.id] \in Ticket
    BY <1>2, FrontIs DEF FrontTimeout
  <2>2. /\ UNCHANGED <<syncing, sent>>
        /\ AnswerOffline(made[front.id], front.id) \/ UNCHANGED <<outbox, disk>>
    BY <1>2 DEF FrontTimeout
  <2>3. CASE AnswerOffline(made[front.id], front.id)
    BY <2>1, <2>2, <2>3, AnswerBoxed
  <2>4. CASE UNCHANGED <<outbox, disk>>
    BY <1>0, <2>2, <2>4, BoxStays
  <2> QED BY <2>2, <2>3, <2>4
<1>3. ASSUME NEW w \in behind, NEW slow \in BOOLEAN, BehindUnanswered(w, slow) PROVE BoxInv'
  <2>1. w.id \in Scan /\ made[w.id] \in Ticket
    BY BehindIs
  <2>2. /\ Len(made) < MaxScans /\ made' = Append(made, made[w.id])
        /\ Queue(Item(NewId, "admitted", w.id)) /\ UNCHANGED <<syncing, sent>>
    BY <1>3 DEF BehindUnanswered, EarlyItem, history
  <2>3. "admitted" \in Verdict
    BY DEF Verdict
  <2> QED BY <2>1, <2>2, <2>3, QueueBoxed
<1>4. ASSUME NEW m \in net, BatchAnswered(m) \/ BatchRefused(m) PROVE BoxInv'
  <2>1. Sending /\ Dequeue /\ UNCHANGED <<made, disk, sent>>
    BY <1>4 DEF BatchAnswered, BatchRefused
  <2> QED BY <2>1, DequeueBoxed
<1>5. \/ UNCHANGED <<outbox, disk, syncing, sent>>
      \/ \E k \in Ticket : ReadOffline(k)
      \/ FrontTimeout
      \/ \E w \in behind, slow \in BOOLEAN : BehindUnanswered(w, slow)
      \/ \E n \in DOMAIN outbox : UndoHere(n)
      \/ TakeBatch \/ SendBatch \/ BatchUnanswered \/ ForgetBatch
      \/ \E m \in net : BatchAnswered(m) \/ BatchRefused(m)
      \/ \E b \in BOOLEAN : Reload(b)
      \/ SignOut
  BY ZenonT(30) DEF Next, Scanning, Syncing, Listening, vars, server, page, history, bounds, ReadOnline, Ask,
         Retry, AdmitEarly, FrontAnswered, FrontSlow, FrontRefused, BehindAnswered, BehindRefused,
         AdoptList, Ping, HearUndo, HearCheckIn, Serve, Lose, CheckInElsewhere, UndoAtServer,
         CancelTicket, ReadList, Tick
<1>6. CASE UNCHANGED <<outbox, disk, syncing, sent>>
  BY <1>0, <1>6, BoxStays
<1> QED BY <1>1, <1>2, <1>3, <1>4, <1>5, <1>6, UndoBoxed, TakeBoxed, SendBoxed, SendOverBoxed,
           ReloadBoxed, SignOutBoxed

-----------------------------------------------------------------------------
(* Requests.                                                               *)

Muted(m) == [m EXCEPT !.heard = FALSE]

\* Nothing new is asked, nothing is served.
NoNews == \A m \in net' : m \in net \/ \E q \in net : m = Muted(q)

\* A check-in stays in the log.
LEMMA CheckedInStays ==
  ASSUME RowsGrow, NEW s \in Scan, CheckedIn(s)
  PROVE  CheckedIn(s)'
BY DEF RowsGrow, CheckedIn

\* A request stays true of a log that only grows.
LEMMA RequestStays ==
  ASSUME made \in Seq(Ticket), MadeGrows, RowsGrow, NEW items \in Seq(ItemType), NEW done \in Nat,
         NEW answer,
         RequestIs(items, done, answer)
  PROVE  RequestIs(items, done, answer)'
<1>1. Old \subseteq Old' /\ Old \subseteq Scan
  BY OldGrows
<1>2. \A j \in DOMAIN items : items[j].id \in Old
  BY DEF RequestIs
<1>3. DOMAIN items = 1 .. Len(items) /\ items # <<>> /\ done \in Nat /\ done <= Len(items)
      /\ Len(items) \in Nat
  BY DEF RequestIs
<1>4. \A j \in 1 .. done : rows'[items[j].id] # NULL
  <2> SUFFICES ASSUME NEW j \in 1 .. done PROVE rows'[items[j].id] # NULL
    OBVIOUS
  <2>1. items[j].id \in Scan
    BY <1>1, <1>2, <1>3
  <2>2. rows[items[j].id] # NULL
    BY DEF RequestIs
  <2> QED BY <2>1, <2>2 DEF RowsGrow
<1>5. items[1].id \in Scan
  BY <1>1, <1>2, <1>3
<1>6. CheckedIn(items[1].id) => CheckedIn(items[1].id)'
  BY <1>5, CheckedInStays
<1> QED BY <1>1, <1>4, <1>6 DEF RequestIs

\* So do all requests, where none is new.
LEMMA NoNewsKept ==
  ASSUME PageInv, NetInv, MadeGrows, RowsGrow, NoNews
  PROVE  NetInv'
<1> SUFFICES ASSUME NEW m \in net' PROVE RequestOK(m)'
  BY DEF NetInv
<1>0. made \in Seq(Ticket)
  BY DEF PageInv
<1>1. PICK q \in net : m = q \/ m = Muted(q)
  BY DEF NoNews
<1>2. q \in RequestType /\ RequestIs(q.items, q.done, q.answer)
  BY DEF NetInv, RequestOK
<1>3. m \in RequestType /\ m.items = q.items /\ m.done = q.done /\ m.answer = q.answer
  BY <1>1, <1>2 DEF RequestType, Muted
<1>4. RequestIs(m.items, m.done, m.answer)'
  <2>1. q.items \in Seq(ItemType) /\ q.done \in Nat
    BY <1>2 DEF RequestType
  <2>2. RequestIs(q.items, q.done, q.answer)'
    BY <1>0, <1>2, <2>1, RequestStays
  <2> QED BY <1>3, <2>2
<1> QED BY <1>3, <1>4 DEF RequestOK

\* The item a request is served next.
Due(m) == m.items[m.done + 1]

\* The item due is of a scan that was made.
LEMMA DueIs ==
  ASSUME PageInv, NetInv, NEW m \in net, ~Complete(m)
  PROVE  /\ m \in RequestType /\ m.done \in Nat /\ m.done + 1 \in DOMAIN m.items
         /\ Due(m) \in ItemType /\ Due(m).id \in Old /\ Due(m).id \in Scan
         /\ made[Due(m).id] \in Ticket
<1>1. m \in RequestType /\ RequestIs(m.items, m.done, m.answer)
  BY DEF NetInv, RequestOK
<1>2. /\ m.done \in Nat /\ m.items \in Seq(ItemType) /\ m.done <= Len(m.items) /\ m.done # Len(m.items)
      /\ \A j \in DOMAIN m.items : m.items[j].id \in Old
  BY <1>1 DEF RequestType, RequestIs, Complete
<1>3. m.done + 1 \in DOMAIN m.items
  BY <1>2
<1>4. Due(m) \in ItemType /\ Due(m).id \in Old
  BY <1>2, <1>3 DEF Due
<1>5. made \in Seq(Ticket)
  BY DEF PageInv
<1> QED BY <1>1, <1>2, <1>3, <1>4, <1>5 DEF Old, ItemType

\* The request once its due item has the answer a.
Served(m, a) == [items |-> m.items, done |-> m.done + 1, answer |-> a, heard |-> m.heard]

\* What one served item does: to the log, to its ticket, and to its request.
LEMMA ServedItem ==
  ASSUME PageInv, ServerInv, NetInv, NEW m \in net, Serve(m)
  PROVE  LET i == Due(m)
             k == made[i.id]
         IN  /\ rows' \in [Scan -> RowType \cup {NULL}] /\ rows'[i.id] # NULL
             /\ \A s \in Scan : s # i.id => rows'[s] = rows[s]
             /\ rows[i.id] # NULL => rows' = rows /\ ticket' = ticket
             /\ rows[i.id] = NULL =>
                  /\ rows'[i.id].verdict = i.verdict /\ rows'[i.id].supersedes = i.supersedes
                  /\ rows'[i.id].result = Fresh(i) /\ Tells(rows'[i.id])
                  /\ rows'[i.id].result \in {"admitted", "already_in"} => ticket'[k].by # NULL
             /\ ticket' \in [Ticket -> [live : BOOLEAN, by : CheckIn \cup {NULL}]]
             /\ \A t \in Ticket : ticket'[t].live = ticket[t].live /\ (t # k => ticket'[t] = ticket[t])
             /\ \/ ticket'[k].by = ticket[k].by
                \/ ticket[k].by = NULL /\ ticket'[k].by = i.id /\ CheckedIn(i.id)'
             /\ \E a \in AnswerType :
                  /\ Tells(a) /\ (a.result = "admitted" => CheckedIn(i.id)')
                  /\ a.result \in {"admitted", "already_in"} => rows'[i.id].result = a.result
                  /\ net' \subseteq (net \ {m}) \cup {Served(m, a)}
<1> DEFINE i == Due(m)
           k == made[i.id]
           res == IF rows[i.id] = NULL THEN Fresh(i) ELSE Replayed(i)
           by == IF rows[i.id] = NULL /\ res = "admitted" THEN i.id ELSE ticket[k].by
           of == IF rows[i.id] = NULL THEN by ELSE rows[i.id].of
           a == [result |-> res, of |-> of]
           row == [verdict |-> i.verdict, result |-> res, of |-> of, supersedes |-> i.supersedes]
           begun == [m EXCEPT !.done = m.done + 1]
           next == [begun EXCEPT !.answer = a]
<1>1. i \in ItemType /\ i.id \in Old /\ i.id \in Scan /\ k \in Ticket
  BY DueIs DEF Serve
<1>2. /\ rows' = IF rows[i.id] = NULL THEN [rows EXCEPT ![i.id] = row] ELSE rows
      /\ ticket' = [ticket EXCEPT ![k].by = by]
      /\ net' = (net \ {m}) \cup (IF Complete(next) /\ ~next.heard THEN {} ELSE {next})
  BY DEF Serve, Due
<1>3. /\ i.verdict \in Verdict \cup {NULL} /\ i.supersedes \in Scan \cup {NULL}
  BY <1>1 DEF ItemType
<1>4. /\ ticket \in [Ticket -> [live : BOOLEAN, by : CheckIn \cup {NULL}]]
      /\ rows \in [Scan -> RowType \cup {NULL}]
      /\ rows[i.id] # NULL => rows[i.id] \in RowType /\ Tells(rows[i.id])
  BY <1>1 DEF ServerInv
<1>5. ticket[k].live \in BOOLEAN /\ ticket[k].by \in CheckIn \cup {NULL}
      /\ ticket[k] = [live |-> ticket[k].live, by |-> ticket[k].by]
  BY <1>1, <1>4
<1> HIDE DEF i
<1>6. ASSUME rows[i.id] = NULL
      PROVE  /\ res = Fresh(i) /\ res \in Result /\ of = by
             /\ res = "admitted" => by = i.id /\ ticket[k].by = NULL
             /\ res # "admitted" => by = ticket[k].by
             /\ res = "already_in" => ticket[k].by # NULL
  BY <1>6 DEF Fresh, Result
<1>7. ASSUME rows[i.id] # NULL
      PROVE  /\ res \in Result \cup {"rescan", "scan_id_conflict"} /\ by = ticket[k].by
             /\ of = rows[i.id].of
             /\ res \in {"admitted", "already_in"} => rows[i.id].result = res
  BY <1>4, <1>7 DEF Replayed, Result, RowType
<1>8. by \in CheckIn \cup {NULL} /\ i.id # NULL /\ i.id \in CheckIn
  BY <1>1, <1>5, <1>6, <1>7, NullAssumption DEF CheckIn, Scan
<1>9. of \in CheckIn \cup {NULL}
  BY <1>4, <1>6, <1>7, <1>8 DEF RowType
<1>10. a \in AnswerType /\ a.result = res /\ a.of = of
  BY <1>6, <1>7, <1>9 DEF AnswerType
<1>11. row.result = res /\ row.of = of /\ row.verdict = i.verdict /\ row.supersedes = i.supersedes
  OBVIOUS
<1>12. rows[i.id] = NULL => row \in RowType
  BY <1>3, <1>6, <1>9 DEF RowType
<1>13. rows[i.id] = NULL => Tells(row)
  BY <1>6, <1>8, <1>11 DEF Tells
<1>14. Tells(a)
  <2>1. CASE rows[i.id] = NULL
    BY <1>6, <1>8, <1>10, <2>1 DEF Tells
  <2>2. CASE rows[i.id] # NULL
    BY <1>4, <1>7, <1>10, <2>2 DEF Tells
  <2> QED BY <2>1, <2>2
<1>15. \A t \in Ticket : ticket'[t] = IF t = k THEN [live |-> ticket[k].live, by |-> by] ELSE ticket[t]
  BY <1>1, <1>2, <1>4, <1>5
<1>16. ticket' \in [Ticket -> [live : BOOLEAN, by : CheckIn \cup {NULL}]]
  <2>1. [live |-> ticket[k].live, by |-> by] \in [live : BOOLEAN, by : CheckIn \cup {NULL}]
    BY <1>5, <1>8
  <2>2. ticket' = [t \in Ticket |-> ticket'[t]]
    BY <1>2, <1>4
  <2> HIDE DEF by
  <2> QED BY <1>4, <1>15, <2>1, <2>2
<1>17. net' \subseteq (net \ {m}) \cup {Served(m, a)}
  <2>1. m \in RequestType
    BY DEF NetInv, RequestOK
  <2>2. m = [items |-> m.items, done |-> m.done, answer |-> m.answer, heard |-> m.heard]
    BY <2>1 DEF RequestType
  <2>3. begun = [items |-> m.items, done |-> m.done + 1, answer |-> m.answer, heard |-> m.heard]
    BY <2>2
  <2> HIDE DEF a, begun
  <2>4. next = Served(m, a)
    BY <2>3 DEF Served
  <2>5. net' \subseteq (net \ {m}) \cup {next}
    BY <1>2 DEF begun
  <2> HIDE DEF next
  <2> QED BY <2>4, <2>5
<1> HIDE DEF a, row, next
<1>18. rows' \in [Scan -> RowType \cup {NULL}] /\ (\A s \in Scan : s # i.id => rows'[s] = rows[s])
       /\ (rows[i.id] = NULL => rows'[i.id] = row)
       /\ (rows[i.id] # NULL => rows' = rows)
  BY <1>1, <1>2, <1>4, <1>12
<1>19. rows'[i.id] # NULL
  BY <1>12, <1>18, NullAssumption
<1>20. rows[i.id] # NULL => ticket' = ticket
  <2> SUFFICES ASSUME rows[i.id] # NULL PROVE ticket' = ticket
    OBVIOUS
  <2>1. by = ticket[k].by
    BY <1>7
  <2>2. \A t \in Ticket : ticket'[t] = ticket[t]
    BY <1>5, <1>15, <2>1
  <2> QED BY <1>4, <1>16, <2>2
<1>21. res = "admitted" => CheckedIn(i.id)'
  BY <1>6, <1>7, <1>8, <1>11, <1>18, <1>19 DEF CheckedIn
<1>22. \/ ticket'[k].by = ticket[k].by
       \/ ticket[k].by = NULL /\ ticket'[k].by = i.id /\ CheckedIn(i.id)'
  BY <1>1, <1>6, <1>7, <1>15, <1>21
<1>23. /\ \A t \in Ticket : ticket'[t].live = ticket[t].live /\ (t # k => ticket'[t] = ticket[t])
  BY <1>5, <1>15
<1>24. rows[i.id] = NULL =>
         /\ rows'[i.id].verdict = i.verdict /\ rows'[i.id].supersedes = i.supersedes
         /\ rows'[i.id].result = Fresh(i) /\ Tells(rows'[i.id])
         /\ rows'[i.id].result \in {"admitted", "already_in"} => ticket'[k].by # NULL
  BY <1>1, <1>6, <1>8, <1>11, <1>13, <1>15, <1>18
<1>25. res \in {"admitted", "already_in"} => rows'[i.id].result = res
  BY <1>6, <1>7, <1>11, <1>18
<1>26. \E x \in AnswerType :
         /\ Tells(x) /\ (x.result = "admitted" => CheckedIn(i.id)')
         /\ x.result \in {"admitted", "already_in"} => rows'[i.id].result = x.result
         /\ net' \subseteq (net \ {m}) \cup {Served(m, x)}
  BY <1>10, <1>14, <1>17, <1>21, <1>25
<1> QED BY <1>16, <1>18, <1>19, <1>20, <1>22, <1>23, <1>24, <1>26 DEF i

\* A request that leaves.
LEMMA NewRequest ==
  ASSUME NEW items \in Seq(ItemType), items # <<>>, \A j \in DOMAIN items : items[j].id \in Old',
         \/ \A j \in DOMAIN items : items[j].verdict # NULL
         \/ Len(items) = 1
  PROVE  RequestOK(Request(items))'
<1>1. Request(items) \in RequestType /\ Request(items).items = items /\ Request(items).done = 0
  BY DEF Request, RequestType
<1>2. DOMAIN items = 1 .. Len(items) /\ Len(items) \in Nat /\ Len(items) # 0
  OBVIOUS
<1>3. 1 \in DOMAIN items
  BY <1>2
<1>4. RequestIs(items, 0, Request(items).answer)'
  BY <1>2, <1>3 DEF RequestIs
<1> QED BY <1>1, <1>4 DEF RequestOK

\* Where nothing else is asked, what was is as it should be still.
LEMMA OthersKept ==
  ASSUME PageInv, NetInv, MadeGrows, RowsGrow, NEW m \in net
  PROVE  RequestOK(m)'
<1>1. made \in Seq(Ticket)
  BY DEF PageInv
<1>2. m \in RequestType /\ RequestIs(m.items, m.done, m.answer)
  BY DEF NetInv, RequestOK
<1>3. m.items \in Seq(ItemType) /\ m.done \in Nat
  BY <1>2 DEF RequestType
<1>4. RequestIs(m.items, m.done, m.answer)'
  BY <1>1, <1>2, <1>3, RequestStays
<1> QED BY <1>2, <1>4 DEF RequestOK

\* One more item served leaves the request true of the log.
LEMMA ServedKept ==
  ASSUME PageInv, ServerInv, NetInv, MadeGrows, RowsGrow, NEW m \in net, Serve(m)
  PROVE  NetInv'
<1> DEFINE i == Due(m)
<1>1. PICK a \in AnswerType :
        /\ Tells(a) /\ (a.result = "admitted" => CheckedIn(i.id)')
        /\ net' \subseteq (net \ {m}) \cup {Served(m, a)}
  BY ServedItem
<1>2. rows'[i.id] # NULL
  BY ServedItem
<1> DEFINE next == Served(m, a)
<1>3. m \in RequestType /\ m.done \in Nat /\ m.done + 1 \in DOMAIN m.items
  BY DueIs DEF Serve
<1>4. RequestOK(m)'
  BY OthersKept
<1>5. /\ next \in RequestType /\ next.items = m.items /\ next.done = m.done + 1 /\ next.answer = a
      /\ m.items \in Seq(ItemType)
  BY <1>1, <1>3 DEF RequestType, Served
<1>6. \A q \in net' : q \in net \/ q = next
  BY <1>1
<1>7. a # NULL
  BY <1>1, NullAssumption
<1> HIDE DEF next
<1>8. RequestIs(m.items, m.done + 1, a)'
  <2>1. RequestIs(m.items, m.done, m.answer)'
    BY <1>4 DEF RequestOK
  <2>2. \A j \in 1 .. m.done + 1 : j \in 1 .. m.done \/ j = m.done + 1
    BY <1>3
  <2>3. \A j \in 1 .. m.done + 1 : rows'[m.items[j].id] # NULL
    BY <1>2, <2>1, <2>2 DEF RequestIs, Due
  <2>4. m.done + 1 = 1 => Due(m) = m.items[1]
    BY DEF Due
  <2>5. DOMAIN m.items = 1 .. Len(m.items) /\ Len(m.items) \in Nat
    BY <1>5
  <2> QED BY <1>1, <1>3, <1>7, <2>1, <2>3, <2>4, <2>5 DEF RequestIs, Tells
<1>9. RequestOK(next)'
  BY <1>5, <1>8 DEF RequestOK
<1> QED BY <1>6, <1>9, OthersKept DEF NetInv

\* Where a request of the network may come from.
LEMMA NextNews ==
  [Next]_vars => \/ NoNews
                 \/ \E m \in net : Serve(m)
                 \/ \E k \in Ticket : ReadOnline(k) \/ \E b \in BOOLEAN : Retry(k, b)
                 \/ SendBatch
<1> SUFFICES ASSUME [Next]_vars
             PROVE  \/ NoNews
                    \/ \E m \in net : Serve(m)
                    \/ \E k \in Ticket : ReadOnline(k) \/ \E b \in BOOLEAN : Retry(k, b)
                    \/ SendBatch
  OBVIOUS
<1>1. ASSUME NEW reqs, reqs \subseteq net, GiveUp(reqs) PROVE NoNews
  BY <1>1 DEF GiveUp, NoNews, Muted
<1>2. \A s : RequestsOf(s) \subseteq net
  BY DEF RequestsOf
<1>3. ASSUME FrontTimeout PROVE NoNews
  <2>1. GiveUp(RequestsOf(front.id))
    BY <1>3 DEF FrontTimeout
  <2> QED BY <1>1, <1>2, <2>1
<1>4. ASSUME NEW w \in behind, NEW slow \in BOOLEAN, BehindUnanswered(w, slow) PROVE NoNews
  BY <1>1, <1>2, <1>4 DEF BehindUnanswered, NoNews
<1>5. ASSUME BatchUnanswered PROVE NoNews
  <2> DEFINE reqs == {m \in net : SyncRequest(m)}
  <2>1. GiveUp(reqs) /\ reqs \subseteq net
    BY <1>5 DEF BatchUnanswered
  <2> HIDE DEF reqs
  <2> QED BY <1>1, <2>1
<1>6. ASSUME SignOut \/ \E b \in BOOLEAN : Reload(b) PROVE NoNews
  <2>1. Hang
    BY <1>6 DEF SignOut, Reload
  <2>2. net' = {Muted(m) : m \in {r \in net : ~Complete(r)}}
    BY <2>1, Zenon DEF Hang, Muted
  <2> SUFFICES ASSUME NEW m \in net' PROVE \E q \in net : m = Muted(q)
    BY DEF NoNews
  <2> QED BY <2>2
<1>7. net' \subseteq net => NoNews
  BY DEF NoNews
<1>8. \/ net' \subseteq net
      \/ \E m \in net : Serve(m)
      \/ \E k \in Ticket : ReadOnline(k) \/ \E b \in BOOLEAN : Retry(k, b)
      \/ SendBatch \/ FrontTimeout \/ BatchUnanswered \/ SignOut
      \/ \E w \in behind, slow \in BOOLEAN : BehindUnanswered(w, slow)
      \/ \E b \in BOOLEAN : Reload(b)
  BY ZenonT(30) DEF Next, Scanning, Syncing, Listening, vars, server, page, history, bounds, ReadOffline,
         AdmitEarly, FrontAnswered, FrontSlow, FrontRefused, BehindAnswered, BehindRefused,
         UndoHere, TakeBatch, ForgetBatch, BatchAnswered, BatchRefused,
         AdoptList, Ping, HearUndo, HearCheckIn, Lose, CheckInElsewhere, UndoAtServer,
         CancelTicket, ReadList, Tick
<1> QED BY <1>3, <1>4, <1>5, <1>6, <1>7, <1>8

\* Every step keeps the requests true of the log.
LEMMA NextNet == PhoneTyped /\ BoxInv /\ [Next]_vars => NetInv'
<1> SUFFICES ASSUME PhoneTyped, BoxInv, [Next]_vars PROVE NetInv'
  OBVIOUS
<1> USE DEF PhoneTyped
<1>0. MadeGrows /\ RowsGrow /\ made \in Seq(Ticket)
  BY NextMade, NextRows DEF PageInv
<1>1. ASSUME NEW m \in net, Serve(m) PROVE NetInv'
  BY <1>0, <1>1, ServedKept
<1>2. ASSUME NEW id \in Scan, id \in Old', net' = net \cup {Request(<<OnlineItem(id)>>)} PROVE NetInv'
  <2> DEFINE items == <<OnlineItem(id)>>
  <2>1. OnlineItem(id) \in ItemType /\ OnlineItem(id).id = id
    BY <1>2 DEF OnlineItem, Item, ItemType
  <2>2. items \in Seq(ItemType) /\ items # <<>> /\ Len(items) = 1
        /\ \A j \in DOMAIN items : items[j].id \in Old'
    BY <1>2, <2>1
  <2> HIDE DEF items
  <2>3. RequestOK(Request(items))'
    BY <2>2, NewRequest
  <2> QED BY <1>0, <1>2, <2>3, OthersKept DEF NetInv, items
<1>3. ASSUME NEW k \in Ticket, ReadOnline(k) PROVE NetInv'
  <2>1. NewId \in Scan /\ NewId \in Old' /\ net' = net \cup {Request(<<OnlineItem(NewId)>>)}
    BY <1>0, <1>3, OneMore DEF ReadOnline, Ask
  <2> QED BY <1>2, <2>1
<1>4. ASSUME NEW k \in Ticket, NEW b \in BOOLEAN, Retry(k, b) PROVE NetInv'
  <2>1. failed[k] \in Scan /\ failed[k] \in Old
    BY <1>4 DEF Retry, PageInv
  <2>2. failed[k] \in Old' /\ net' = net \cup {Request(<<OnlineItem(failed[k])>>)}
    BY <1>4, <2>1 DEF Retry, Ask, Old
  <2> QED BY <1>2, <2>1, <2>2
<1>5. CASE SendBatch
  <2>1. /\ syncing # NULL /\ syncing.step = "saving" /\ syncing.batch \in Seq(ItemType)
        /\ net' = net \cup {Request(syncing.batch)} /\ Old' = Old
    BY <1>5 DEF SendBatch, BoxInv, SyncType, Old
  <2>2. /\ syncing.batch # <<>>
        /\ \A j \in DOMAIN syncing.batch : \E n \in DOMAIN outbox : outbox[n] = syncing.batch[j]
    BY <2>1 DEF BoxInv, BatchInv
  <2>3. \A j \in DOMAIN syncing.batch : syncing.batch[j].id \in Old' /\ syncing.batch[j].verdict # NULL
    BY <2>1, <2>2 DEF BoxInv, Outbox, Keeps
  <2> SUFFICES ASSUME NEW items, items = syncing.batch PROVE NetInv'
    OBVIOUS
  <2>4. /\ items \in Seq(ItemType) /\ items # <<>>
        /\ \A j \in DOMAIN items : items[j].id \in Old' /\ items[j].verdict # NULL
    BY <2>1, <2>2, <2>3
  <2>5. net' = net \cup {Request(items)}
    BY <2>1
  <2>6. RequestOK(Request(items))'
    BY <2>4, NewRequest
  <2>7. \A q \in net : RequestOK(q)'
    BY <1>0, OthersKept
  <2> QED BY <2>5, <2>6, <2>7 DEF NetInv
<1> QED BY <1>0, <1>1, <1>3, <1>4, <1>5, NextNews, NoNewsKept

\* What is shown for a ticket is as typed as it was.
LEMMA OneMark ==
  ASSUME PageInv, NEW k \in Ticket, NEW m \in MarkType \cup {NULL}, marks' = [marks EXCEPT ![k] = m]
  PROVE  marks' \in [Ticket -> MarkType \cup {NULL}]
BY DEF PageInv

\* A scan judged from the list leaves the page well-formed.
LEMMA AnswerPage ==
  ASSUME PageInv, NEW k \in Ticket, NEW s, AnswerOffline(k, s)
  PROVE  /\ made' \in Seq(Ticket) /\ Len(made') <= MaxScans
         /\ marks' \in [Ticket -> MarkType \cup {NULL}]
         /\ letIn' \subseteq Old' /\ mine' \subseteq Old'
<1>0. made \in Seq(Ticket) /\ letIn \subseteq Old /\ mine \subseteq Old
  BY DEF PageInv
<1>1. MadeGrows /\ NewId \in Scan /\ NewId \in Old' /\ Old \subseteq Old'
  BY <1>0, OneMore, OldGrows DEF AnswerOffline
<1>2. Mark(NewId, NULL, "own") \in MarkType
  BY <1>1, MarkOK DEF CheckIn
<1>3. marks' = marks \/ marks' = [marks EXCEPT ![k] = Mark(NewId, NULL, "own")]
  BY DEF AnswerOffline
<1>4. (letIn' = letIn \/ letIn' = letIn \cup {NewId}) /\ (mine' = mine \/ mine' = mine \cup {NewId})
  BY DEF AnswerOffline
<1>5. marks' \in [Ticket -> MarkType \cup {NULL}]
  BY <1>2, <1>3, OneMark DEF PageInv
<1> QED BY <1>0, <1>1, <1>4, <1>5 DEF MadeGrows

\* The answer to a request that was served.
LEMMA AnswerIs ==
  ASSUME NetInv, NEW m \in net, Complete(m)
  PROVE  Tells(m.answer) /\ m.answer.of \in CheckIn \cup {NULL}
<1>1. m \in RequestType /\ RequestIs(m.items, m.done, m.answer)
  BY DEF NetInv, RequestOK
<1>2. m.done > 0
  BY <1>1 DEF RequestIs, RequestType, Complete
<1>3. m.answer # NULL /\ Tells(m.answer)
  BY <1>1, <1>2 DEF RequestIs
<1>4. m.answer \in AnswerType
  BY <1>1, <1>3 DEF RequestType
<1> QED BY <1>3, <1>4 DEF AnswerType

\* No new scan id.
SamePage ==
  /\ list' \in ListType \cup {NULL}
  /\ marks' \in [Ticket -> MarkType \cup {NULL}]
  /\ front' \in {front, NULL} /\ behind' \subseteq Waiting
  /\ failed' \in [Ticket -> Scan \cup {NULL}]
  /\ \A k \in Ticket : failed'[k] \in {failed[k], NULL} \/ (front # NULL /\ failed'[k] = front.id)
  /\ offline' \in BOOLEAN /\ over' \in BOOLEAN
  /\ letIn' \subseteq letIn \cup {w.id : w \in Waiting} /\ mine' \subseteq Old

\* A step that draws no scan id leaves the page well-formed.
LEMMA SamePageKept ==
  ASSUME PageInv, made' = made, SamePage
  PROVE  PageInv'
<1>0. Old' = Old
  BY DEF Old
<1>1. front # NULL => front.id \in Old /\ front \in WaitType
  BY DEF PageInv
<1>2. \A w \in Waiting : w \in WaitType /\ w.id \in Old
  BY <1>1 DEF PageInv, Waiting
<1>3. letIn' \subseteq Old
  BY <1>2 DEF SamePage, PageInv
<1>4. front' \in WaitType \cup {NULL} /\ (front' # NULL => front'.id \in Old)
  BY DEF SamePage, PageInv
<1>5. behind' \subseteq WaitType /\ \A w \in behind' : w.id \in Old
  BY <1>2 DEF SamePage
<1>6. \A k \in Ticket : failed'[k] # NULL => failed'[k] \in Old
  BY <1>1 DEF SamePage, PageInv
<1> QED BY <1>0, <1>3, <1>4, <1>5, <1>6 DEF SamePage, PageInv

\* A scan waits for its answer.
LEMMA AskPage ==
  ASSUME PhoneTyped, NEW id \in Old', id \in Scan, NEW k, NEW race \in BOOLEAN, Ask(id, k, race),
         MadeGrows
  PROVE  PageInv'
<1>0. PageInv /\ clock \in Nat /\ made \in Seq(Ticket)
  BY DEF PhoneTyped, PageInv, ServerInv
<1>1. Old \subseteq Old'
  BY <1>0, OldGrows
<1>2. front' = [id |-> id, race |-> race, since |-> clock]
  BY DEF Ask
<1>3. front' \in WaitType /\ front'.id \in Old'
  BY <1>0, <1>2 DEF WaitType
<1>4. UNCHANGED <<list, marks, behind, failed, offline, over, letIn, mine>>
  BY DEF Ask, history
<1>5. made' \in Seq(Ticket) /\ Len(made') <= MaxScans
  BY DEF MadeGrows
<1> QED BY <1>0, <1>1, <1>3, <1>4, <1>5 DEF PageInv

\* Every step leaves the page well-formed.
LEMMA NextPage == PhoneTyped /\ BoxInv /\ [Next]_vars => PageInv'
<1> SUFFICES ASSUME PhoneTyped, BoxInv, [Next]_vars PROVE PageInv'
  OBVIOUS
<1>0. /\ PageInv /\ ServerInv /\ NetInv /\ MadeGrows /\ made \in Seq(Ticket) /\ Old \subseteq Old'
      /\ Old \subseteq Scan
  BY NextMade, OldGrows DEF PhoneTyped, PageInv
<1>m. /\ list \in ListType \cup {NULL} /\ marks \in [Ticket -> MarkType \cup {NULL}]
      /\ failed \in [Ticket -> Scan \cup {NULL}] /\ offline \in BOOLEAN /\ over \in BOOLEAN
      /\ letIn \subseteq Old /\ mine \subseteq Old
  BY <1>0 DEF PageInv
<1>n. NULL \in MarkType \cup {NULL}
  OBVIOUS
<1>1. ASSUME NEW k \in Ticket, ReadOffline(k) PROVE PageInv'
  <2>1. /\ AnswerOffline(k, NULL) /\ UNCHANGED <<list, front, behind, offline, over>>
        /\ failed' = [failed EXCEPT ![k] = NULL]
    BY <1>1 DEF ReadOffline
  <2>2. /\ made' \in Seq(Ticket) /\ Len(made') <= MaxScans
        /\ marks' \in [Ticket -> MarkType \cup {NULL}]
        /\ letIn' \subseteq Old' /\ mine' \subseteq Old'
    BY <1>0, <2>1, AnswerPage
  <2>3. failed' \in [Ticket -> Scan \cup {NULL}] /\ \A t \in Ticket : failed'[t] \in {failed[t], NULL}
    BY <1>m, <2>1
  <2> QED BY <1>0, <2>1, <2>2, <2>3 DEF PageInv
<1>2. ASSUME NEW k \in Ticket, ReadOnline(k) PROVE PageInv'
  <2>1. NewId \in Old' /\ NewId \in Scan
    BY <1>0, <1>2, OneMore DEF ReadOnline
  <2>2. Ask(NewId, k, list # NULL /\ Judge(k) = "admitted")
    BY <1>2 DEF ReadOnline
  <2>3. (list # NULL /\ Judge(k) = "admitted") \in BOOLEAN
    OBVIOUS
  <2> QED BY <1>0, <2>1, <2>2, <2>3, AskPage
<1>3. ASSUME NEW k \in Ticket, NEW b \in BOOLEAN, Retry(k, b) PROVE PageInv'
  <2>1. failed[k] \in Old' /\ failed[k] \in Scan
    BY <1>0, <1>3 DEF Retry, PageInv
  <2>2. Ask(failed[k], k, ~b /\ list # NULL /\ Judge(k) = "admitted")
    BY <1>3 DEF Retry
  <2>3. (~b /\ list # NULL /\ Judge(k) = "admitted") \in BOOLEAN
    OBVIOUS
  <2> QED BY <1>0, <2>1, <2>2, <2>3, AskPage
<1>4. CASE AdmitEarly
  <2>1. front # NULL /\ front.id \in Old /\ front.id \in Scan /\ made[front.id] \in Ticket
    BY <1>0, <1>4, FrontIs DEF AdmitEarly
  <2>2. Mark(front.id, NULL, "own") \in MarkType
    BY <2>1, MarkOK DEF CheckIn
  <2>3. marks' \in [Ticket -> MarkType \cup {NULL}]
    BY <1>0, <1>4, <2>1, <2>2, OneMark DEF AdmitEarly
  <2>4. made' = made /\ front' = NULL /\ behind' = behind \cup {front} /\ mine' \subseteq Old
        /\ letIn' = letIn \cup {front.id} /\ UNCHANGED <<list, failed, offline, over>>
    BY <1>m, <1>4, <2>1 DEF AdmitEarly
  <2>5. SamePage
    BY <1>m, <2>1, <2>3, <2>4 DEF SamePage, Waiting
  <2> QED BY <1>0, <2>4, <2>5, SamePageKept
<1>5. CASE FrontTimeout
  <2>1. front # NULL /\ front.id \in Old /\ front.id \in Scan /\ made[front.id] \in Ticket
    BY <1>0, <1>5, FrontIs DEF FrontTimeout
  <2>2. front' = NULL /\ UNCHANGED <<list, behind, over>>
    BY <1>5 DEF FrontTimeout
  <2>3. CASE list # NULL
    <3>1. /\ AnswerOffline(made[front.id], front.id) /\ offline' = TRUE
          /\ failed' = [failed EXCEPT ![made[front.id]] = NULL]
      BY <1>5, <2>3 DEF FrontTimeout
    <3>2. /\ made' \in Seq(Ticket) /\ Len(made') <= MaxScans
          /\ marks' \in [Ticket -> MarkType \cup {NULL}]
          /\ letIn' \subseteq Old' /\ mine' \subseteq Old'
      BY <1>0, <2>1, <3>1, AnswerPage
    <3>3. failed' \in [Ticket -> Scan \cup {NULL}] /\ \A k \in Ticket : failed'[k] \in {failed[k], NULL}
      BY <1>m, <3>1
    <3>4. offline' \in BOOLEAN
      BY <3>1
    <3> QED BY <1>0, <2>2, <3>2, <3>3, <3>4 DEF PageInv
  <2>4. CASE list = NULL
    <3>1. failed' = [failed EXCEPT ![made[front.id]] = front.id]
          /\ UNCHANGED <<made, marks, letIn, mine, offline>>
      BY <1>5, <2>4 DEF FrontTimeout
    <3>2. failed' \in [Ticket -> Scan \cup {NULL}] /\ \A k \in Ticket : failed'[k] \in {failed[k], front.id}
      BY <1>m, <2>1, <3>1
    <3>3. UNCHANGED <<made, marks, letIn, mine, offline>>
      BY <3>1
    <3>4. SamePage
      BY <1>m, <2>1, <2>2, <3>2, <3>3 DEF SamePage, Waiting
    <3> QED BY <1>0, <3>3, <3>4, SamePageKept
  <2> QED BY <2>3, <2>4
<1>6. ASSUME NEW m \in net, FrontAnswered(m) PROVE PageInv'
  <2>1. front # NULL /\ front.id \in Old /\ front.id \in Scan /\ made[front.id] \in Ticket
    BY <1>0, <1>6, FrontIs DEF FrontAnswered
  <2>2. Tells(m.answer) /\ m.answer.of \in CheckIn \cup {NULL}
    BY <1>0, <1>6, AnswerIs DEF FrontAnswered
  <2>3. PICK now \in PhoneTimes : marks' = Learnt(made[front.id], m.answer, now)
    BY <1>6 DEF FrontAnswered
  <2>4. now \in Int
    BY <1>0, <2>3, TimesOK
  <2>5. MarksTyped(Learnt(made[front.id], m.answer, now))
    BY <1>0, <2>1, <2>2, <2>4, LearntTyped
  <2>6. /\ made' = made /\ front' = NULL /\ offline' = FALSE /\ UNCHANGED <<list, behind, over>>
        /\ failed' = [failed EXCEPT ![made[front.id]] = NULL]
        /\ letIn' \subseteq letIn \cup {front.id} /\ mine' \subseteq mine \cup {front.id}
    BY <1>6 DEF FrontAnswered
  <2>7. failed' \in [Ticket -> Scan \cup {NULL}] /\ \A k \in Ticket : failed'[k] \in {failed[k], NULL}
    BY <1>m, <2>6
  <2>8. marks' \in [Ticket -> MarkType \cup {NULL}]
    BY <2>3, <2>5 DEF MarksTyped
  <2>9. made' = made /\ front' = NULL /\ offline' = FALSE /\ UNCHANGED <<list, behind, over>>
        /\ letIn' \subseteq letIn \cup {front.id} /\ mine' \subseteq mine \cup {front.id}
    BY <2>6
  <2>10. SamePage
    BY <1>m, <2>1, <2>7, <2>8, <2>9 DEF SamePage, Waiting
  <2> QED BY <1>0, <2>9, <2>10, SamePageKept
<1>7. ASSUME NEW m \in net, FrontSlow(m) PROVE PageInv'
  <2>1. front # NULL /\ front.id \in Old /\ front.id \in Scan /\ made[front.id] \in Ticket
    BY <1>0, <1>7, FrontIs DEF FrontSlow
  <2>2. /\ made' = made /\ front' = NULL /\ UNCHANGED <<list, behind, over, marks, offline, letIn, mine>>
        /\ failed' = [failed EXCEPT ![made[front.id]] = front.id]
    BY <1>7 DEF FrontSlow, history
  <2>3. failed' \in [Ticket -> Scan \cup {NULL}] /\ \A k \in Ticket : failed'[k] \in {failed[k], front.id}
    BY <1>m, <2>1, <2>2
  <2>4. made' = made /\ front' = NULL /\ UNCHANGED <<list, behind, over, marks, offline, letIn, mine>>
    BY <2>2
  <2>5. SamePage
    BY <1>m, <2>1, <2>3, <2>4 DEF SamePage, Waiting
  <2> QED BY <1>0, <2>4, <2>5, SamePageKept
<1>8. ASSUME NEW m \in net, FrontRefused(m) PROVE PageInv'
  <2>1. made' = made /\ front' = NULL /\ UNCHANGED <<list, behind, over, marks, failed, offline, letIn, mine>>
    BY <1>8 DEF FrontRefused, history
  <2>2. SamePage
    BY <1>m, <2>1 DEF SamePage, Waiting
  <2> QED BY <1>0, <2>1, <2>2, SamePageKept
<1>9. ASSUME NEW w \in behind, NEW m \in net, BehindAnswered(w, m) PROVE PageInv'
  <2>1. w.id \in Scan /\ made[w.id] \in Ticket
    BY <1>0, BehindIs
  <2>2. Tells(m.answer) /\ m.answer.of \in CheckIn \cup {NULL}
    BY <1>0, <1>9, AnswerIs DEF BehindAnswered
  <2>3. PICK now \in PhoneTimes : marks' = Settled(made[w.id], w.id, m.answer, now)
    BY <1>9 DEF BehindAnswered
  <2>4. now \in Int
    BY <1>0, <2>3, TimesOK
  <2>5. MarksTyped(Settled(made[w.id], w.id, m.answer, now))
    BY <1>0, <2>1, <2>2, <2>4, SettledTyped
  <2>6. /\ made' = made /\ offline' = FALSE /\ behind' \subseteq behind /\ mine' \subseteq mine
        /\ UNCHANGED <<list, front, failed, over, letIn>>
    BY <1>9 DEF BehindAnswered
  <2>7. marks' \in [Ticket -> MarkType \cup {NULL}]
    BY <2>3, <2>5 DEF MarksTyped
  <2>8. SamePage
    BY <1>m, <2>6, <2>7 DEF SamePage, Waiting
  <2> QED BY <1>0, <2>6, <2>8, SamePageKept
<1>10. ASSUME NEW w \in behind, NEW m \in net, BehindRefused(w, m) PROVE PageInv'
  <2>1. made' = made /\ behind' \subseteq behind
        /\ UNCHANGED <<list, front, over, marks, failed, offline, letIn, mine>>
    BY <1>10 DEF BehindRefused
  <2>2. SamePage
    BY <1>m, <2>1 DEF SamePage, Waiting
  <2> QED BY <1>0, <2>1, <2>2, SamePageKept
<1>11. ASSUME NEW w \in behind, NEW slow \in BOOLEAN, BehindUnanswered(w, slow) PROVE PageInv'
  <2>1. /\ behind' \subseteq behind /\ (offline' = offline \/ offline' = TRUE)
        /\ UNCHANGED <<list, front, over, marks, failed, letIn, mine>>
    BY <1>11 DEF BehindUnanswered, history
  <2> QED BY <1>0, <1>m, <2>1 DEF MadeGrows, PageInv
<1>12. ASSUME NEW n \in DOMAIN outbox, UndoHere(n) PROVE PageInv'
  <2>1. outbox[n].id \in Old
    BY DEF BoxInv, Outbox, Keeps
  <2>2. made[outbox[n].id] \in Ticket
    BY <1>0, <2>1 DEF Old
  <2>3. marks' = [marks EXCEPT ![made[outbox[n].id]] = NULL]
    BY <1>12 DEF UndoHere
  <2>4. marks' \in [Ticket -> MarkType \cup {NULL}]
    BY <1>0, <1>n, <2>2, <2>3, OneMark
  <2>5. /\ made' = made /\ letIn' \subseteq letIn /\ mine' \subseteq mine
        /\ UNCHANGED <<list, front, behind, failed, over, offline>>
    BY <1>12 DEF UndoHere
  <2>6. SamePage
    BY <1>m, <2>4, <2>5 DEF SamePage, Waiting
  <2> QED BY <1>0, <2>5, <2>6, SamePageKept
<1>13. ASSUME NEW m \in net, BatchAnswered(m) PROVE PageInv'
  <2> DEFINE answered(k, now) == [marks[k] EXCEPT !.known = now]
             new(k, now) == IF /\ \E i \in Ids(syncing.batch) : made[i] = k
                               /\ marks[k] # NULL /\ marks[k].known = NULL
                              THEN answered(k, now) ELSE marks[k]
  <2>1. PICK now \in PhoneTimes : marks' = [k \in Ticket |-> new(k, now)]
    BY <1>13, Zenon DEF BatchAnswered
  <2>2. now \in Int
    BY <1>0, <2>1, TimesOK
  <2>3. \A k \in Ticket : marks[k] # NULL => answered(k, now) \in MarkType
    <3> SUFFICES ASSUME NEW k \in Ticket, marks[k] # NULL PROVE answered(k, now) \in MarkType
      OBVIOUS
    <3>1. marks[k] \in MarkType
      BY <1>m
    <3> QED BY <2>2, <3>1 DEF MarkType
  <2> HIDE DEF answered
  <2>4. \A k \in Ticket : new(k, now) \in MarkType \cup {NULL}
    BY <1>m, <2>3
  <2> HIDE DEF new
  <2>5. marks' \in [Ticket -> MarkType \cup {NULL}]
    BY <2>1, <2>4
  <2>6. made' = made /\ mine' \subseteq mine
        /\ UNCHANGED <<list, front, behind, failed, over, offline, letIn>>
    BY <1>13 DEF BatchAnswered
  <2>7. SamePage
    BY <1>m, <2>5, <2>6 DEF SamePage, Waiting
  <2> QED BY <1>0, <2>6, <2>7, SamePageKept
<1>14. ASSUME NEW m \in net, BatchRefused(m) PROVE PageInv'
  <2>1. made' = made /\ mine' \subseteq mine
        /\ UNCHANGED <<list, marks, front, behind, failed, over, offline, letIn>>
    BY <1>14 DEF BatchRefused
  <2>2. SamePage
    BY <1>m, <2>1 DEF SamePage, Waiting
  <2> QED BY <1>0, <2>1, <2>2, SamePageKept
<1>15. CASE AdoptList
  <2>1. listing \in ListingType
    BY <1>0, <1>15 DEF AdoptList, ServerInv
  <2>2. list' = [in |-> listing.in, gone |-> listing.gone]
    BY <1>15 DEF AdoptList
  <2>3. list' \in ListType
    BY <2>1, <2>2 DEF ListType, ListingType
  <2>4. MarksTyped(Adopted(listing.asOf, marks, outbox))
    <3>1. MarksTyped(marks) /\ DOMAIN outbox = 1 .. Len(outbox) /\ Len(outbox) \in Nat
      BY <1>m DEF MarksTyped, BoxInv, Outbox
    <3>2. \A i \in 1 .. Len(outbox) : outbox[i].id \in Scan
      BY <1>0, <3>1 DEF BoxInv, Outbox, Keeps
    <3> QED BY <3>1, <3>2, AdoptedTyped
  <2>5. marks' \in [Ticket -> MarkType \cup {NULL}]
    BY <1>15, <2>4 DEF AdoptList, MarksTyped
  <2>6. made' = made /\ UNCHANGED <<front, behind, failed, over, offline, letIn, mine>>
    BY <1>15 DEF AdoptList, history
  <2>7. SamePage
    BY <1>m, <2>3, <2>5, <2>6 DEF SamePage, Waiting
  <2> QED BY <1>0, <2>6, <2>7, SamePageKept
<1>16. ASSUME NEW news \in SUBSET Ticket, NEW now \in PhoneTimes, Ping(news, now) PROVE PageInv'
  <2> DEFINE new(k) == IF k \in news /\ Replaceable(marks[k])
                      THEN Mark(ticket[k].by, now, "server") ELSE marks[k]
  <2>1. now \in Int
    BY <1>0, TimesOK
  <2>2. ASSUME NEW k \in Ticket PROVE new(k) \in MarkType \cup {NULL}
    <3>1. CASE k \in news
      <4>1. ticket[k].by \in CheckIn
        BY <1>0, <1>16, <3>1 DEF Ping, ServerInv
      <4>2. Mark(ticket[k].by, now, "server") \in MarkType
        BY <2>1, <4>1, MarkOK
      <4> QED BY <1>m, <4>2
    <3>2. CASE k \notin news
      BY <1>m, <3>2
    <3> QED BY <3>1, <3>2
  <2>3. marks' = marks \/ marks' = [k \in Ticket |-> new(k)]
    BY <1>16 DEF Ping
  <2> HIDE DEF new
  <2>4. marks' \in [Ticket -> MarkType \cup {NULL}]
    BY <1>m, <2>2, <2>3
  <2>5. made' = made /\ offline' = FALSE /\ UNCHANGED <<list, front, behind, failed, over, letIn, mine>>
    BY <1>16 DEF Ping, history
  <2>6. SamePage
    BY <1>m, <2>4, <2>5 DEF SamePage, Waiting
  <2> QED BY <1>0, <2>5, <2>6, SamePageKept
<1>17. ASSUME NEW k \in Ticket, NEW b \in BOOLEAN, NEW now \in PhoneTimes, HearCheckIn(k, b, now)
      PROVE PageInv'
  <2> DEFINE of == IF b THEN ticket[k].by ELSE Elsewhere
             known == IF ~b THEN NULL
                      ELSE IF marks[k] = NULL \/ marks[k].known = NULL THEN now ELSE marks[k].known
  <2>1. now \in Int
    BY <1>0, TimesOK
  <2>2. of \in CheckIn
    BY <1>0, <1>17 DEF HearCheckIn, ServerInv, CheckIn
  <2>3. known \in Int \cup {NULL}
    BY <1>m, <2>1 DEF MarkType
  <2>4. marks' = [marks EXCEPT ![k] = Mark(of, known, "relay")]
    BY <1>17 DEF HearCheckIn
  <2> HIDE DEF of, known
  <2>5. Mark(of, known, "relay") \in MarkType
    BY <2>2, <2>3, MarkOK
  <2>6. marks' \in [Ticket -> MarkType \cup {NULL}]
    BY <1>0, <2>4, <2>5, OneMark
  <2>7. made' = made /\ UNCHANGED <<list, front, behind, failed, over, offline, letIn, mine>>
    BY <1>17 DEF HearCheckIn, history
  <2>8. SamePage
    BY <1>m, <2>6, <2>7 DEF SamePage, Waiting
  <2> QED BY <1>0, <2>7, <2>8, SamePageKept
<1>18. ASSUME NEW k \in Ticket, NEW b \in BOOLEAN, HearUndo(k, b) PROVE PageInv'
  <2>1. marks' = [marks EXCEPT ![k] = NULL]
    BY <1>18 DEF HearUndo
  <2>2. marks' \in [Ticket -> MarkType \cup {NULL}]
    BY <1>0, <1>n, <2>1, OneMark
  <2>3. made' = made /\ UNCHANGED <<list, front, behind, failed, over, offline, letIn, mine>>
    BY <1>18 DEF HearUndo, history
  <2>4. SamePage
    BY <1>m, <2>2, <2>3 DEF SamePage, Waiting
  <2> QED BY <1>0, <2>3, <2>4, SamePageKept
<1>19. ASSUME NEW b \in BOOLEAN, Reload(b) PROVE PageInv'
  <2> DEFINE none == [k \in Ticket |-> NULL]
  <2>1. /\ outbox' \in Seq(ItemType) /\ \A j \in DOMAIN outbox' : outbox'[j] \in disk
    BY <1>0, <1>19, ReloadItems
  <2>2. \A i \in disk : i.id \in Old /\ i.id \in Scan
    BY <1>0 DEF BoxInv, Disk, Keeps
  <2>3. marks' = none \/ marks' = Adopted(0, none, outbox')
    BY <1>19 DEF Reload
  <2>4. MarksTyped(none)
    BY DEF MarksTyped
  <2>5. MarksTyped(Adopted(0, none, outbox'))
    <3>1. DOMAIN outbox' = 1 .. Len(outbox') /\ Len(outbox') \in Nat
      BY <2>1
    <3>2. \A i \in 1 .. Len(outbox') : outbox'[i].id \in Scan
      BY <2>1, <2>2, <3>1
    <3> HIDE DEF none
    <3> QED BY <2>4, <3>1, <3>2, AdoptedTyped
  <2>6. marks' \in [Ticket -> MarkType \cup {NULL}]
    BY <2>3, <2>4, <2>5 DEF MarksTyped
  <2>7. made' = made /\ front' = NULL /\ behind' = {} /\ offline' = b /\ failed' = none
        /\ UNCHANGED <<list, over, letIn>>
    BY <1>19 DEF Reload
  <2>8. mine' \subseteq Old
    BY <1>19, <2>2 DEF Reload
  <2>9. SamePage
    BY <1>m, <2>6, <2>7, <2>8 DEF SamePage, Waiting
  <2> QED BY <1>0, <2>7, <2>9, SamePageKept
<1>20. CASE SignOut
  <2> DEFINE none == [k \in Ticket |-> NULL]
  <2>1. made' = made /\ front' = NULL /\ behind' = {} /\ offline' = FALSE /\ failed' = none /\ over' = TRUE
        /\ marks' = none /\ mine' = {} /\ list' = NULL /\ letIn' = letIn
    BY <1>20 DEF SignOut
  <2>2. SamePage
    BY <2>1 DEF SamePage, Waiting
  <2> QED BY <1>0, <2>1, <2>2, SamePageKept
<1>21. CASE UNCHANGED <<made, list, marks, front, behind, failed, offline, over, letIn, mine>>
  <2>1. SamePage
    BY <1>m, <1>21 DEF SamePage, Waiting
  <2> QED BY <1>0, <1>21, <2>1, SamePageKept
<1>22. \/ UNCHANGED <<made, list, marks, front, behind, failed, offline, over, letIn, mine>>
       \/ Scanning \/ Listening
       \/ \E m \in net : BatchAnswered(m) \/ BatchRefused(m)
       \/ SignOut \/ \E b \in BOOLEAN : Reload(b)
  BY ZenonT(30) DEF Next, Syncing, vars, page, history, TakeBatch, SendBatch, BatchUnanswered, ForgetBatch,
         Serve, Lose, CheckInElsewhere, UndoAtServer, CancelTicket, ReadList, Tick
<1>23. CASE Scanning
  BY <1>1, <1>2, <1>3, <1>4, <1>5, <1>6, <1>7, <1>8, <1>9, <1>10, <1>11, <1>12, <1>23 DEF Scanning
<1>24. CASE Listening
  BY <1>15, <1>16, <1>17, <1>18, <1>24 DEF Listening
<1> QED BY <1>13, <1>14, <1>19, <1>20, <1>21, <1>22, <1>23, <1>24

\* One ticket changes at the server.
LEMMA OneTicket ==
  ASSUME ServerInv, NEW k \in Ticket, NEW t \in [live : BOOLEAN, by : CheckIn \cup {NULL}],
         ticket' = [ticket EXCEPT ![k] = t]
  PROVE  ticket' \in [Ticket -> [live : BOOLEAN, by : CheckIn \cup {NULL}]]
BY DEF ServerInv

\* The clock, the log and the list on its way are as typed as they were.
LEMMA ServerStays ==
  ASSUME PageInv, ServerInv, MadeGrows, clock' \in 0 .. MaxClock, clock <= clock',
         ticket' \in [Ticket -> [live : BOOLEAN, by : CheckIn \cup {NULL}]],
         undone' \subseteq Ticket \X CheckIn, listing' \in {listing, NULL}, rows' = rows
  PROVE  ServerInv'
<1>1. Old \subseteq Old'
  BY OldGrows DEF PageInv
<1>2. listing' \in ListingType \cup {NULL} /\ (listing' # NULL => listing'.asOf <= clock')
  <2>1. ASSUME listing # NULL PROVE listing.asOf \in Nat /\ listing.asOf <= clock
    BY <2>1 DEF ServerInv, ListingType
  <2>2. clock \in Nat /\ clock' \in Nat
    BY BoundAssumption DEF ServerInv
  <2> QED BY <2>1, <2>2 DEF ServerInv
<1>3. \A s \in Scan : rows'[s] # NULL => s \in Old' /\ Tells(rows'[s])
  BY <1>1 DEF ServerInv
<1> QED BY <1>2, <1>3 DEF ServerInv

\* Every step leaves the server's tables well-formed.
LEMMA NextServer == PhoneTyped /\ [Next]_vars => ServerInv'
<1> SUFFICES ASSUME PhoneTyped, [Next]_vars PROVE ServerInv'
  OBVIOUS
<1>0. PageInv /\ ServerInv /\ NetInv /\ MadeGrows /\ RowsGrow
  BY NextMade, NextRows DEF PhoneTyped
<1>c. clock \in 0 .. MaxClock /\ clock \in Nat /\ clock <= clock /\ MaxClock \in Nat
  BY <1>0, BoundAssumption DEF ServerInv
<1>1. ASSUME NEW m \in net, Serve(m) PROVE ServerInv'
  <2> DEFINE i == Due(m)
  <2>0. UNCHANGED <<clock, undone, listing, made>>
    BY <1>1 DEF Serve
  <2>1. i.id \in Old /\ i.id \in Scan
    BY <1>0, <1>1, DueIs DEF Serve
  <2>2. /\ rows' \in [Scan -> RowType \cup {NULL}]
        /\ \A s \in Scan : s # i.id => rows'[s] = rows[s]
        /\ rows[i.id] # NULL => rows' = rows
        /\ rows[i.id] = NULL => Tells(rows'[i.id])
        /\ ticket' \in [Ticket -> [live : BOOLEAN, by : CheckIn \cup {NULL}]]
    BY <1>0, <1>1, ServedItem
  <2> HIDE DEF i
  <2>3. Old' = Old
    BY <2>0 DEF Old
  <2>4. \A s \in Scan : rows'[s] # NULL => s \in Old' /\ Tells(rows'[s])
    BY <1>0, <2>1, <2>2, <2>3 DEF ServerInv
  <2> QED BY <1>0, <2>0, <2>2, <2>4 DEF ServerInv
<1>2. ASSUME NEW k \in Ticket, CheckInElsewhere(k) \/ UndoAtServer(k) \/ CancelTicket(k) PROVE ServerInv'
  <2>1. ticket[k] \in [live : BOOLEAN, by : CheckIn \cup {NULL}]
    BY <1>0 DEF ServerInv
  <2>2. Elsewhere \in CheckIn
    BY DEF CheckIn
  <2>3. /\ [ticket[k] EXCEPT !.by = Elsewhere] \in [live : BOOLEAN, by : CheckIn \cup {NULL}]
        /\ [ticket[k] EXCEPT !.by = NULL] \in [live : BOOLEAN, by : CheckIn \cup {NULL}]
        /\ [ticket[k] EXCEPT !.live = FALSE] \in [live : BOOLEAN, by : CheckIn \cup {NULL}]
    <3> SUFFICES ASSUME NEW r \in [live : BOOLEAN, by : CheckIn \cup {NULL}]
                 PROVE  /\ [r EXCEPT !.by = Elsewhere] \in [live : BOOLEAN, by : CheckIn \cup {NULL}]
                        /\ [r EXCEPT !.by = NULL] \in [live : BOOLEAN, by : CheckIn \cup {NULL}]
                        /\ [r EXCEPT !.live = FALSE] \in [live : BOOLEAN, by : CheckIn \cup {NULL}]
      BY <2>1
    <3> QED BY <2>2
  <2>4. ticket' \in [Ticket -> [live : BOOLEAN, by : CheckIn \cup {NULL}]]
    BY <1>0, <1>2, <2>3, OneTicket DEF CheckInElsewhere, UndoAtServer, CancelTicket
  <2>5. undone' \subseteq Ticket \X CheckIn
    BY <1>0, <1>2, <2>1 DEF ServerInv, CheckInElsewhere, UndoAtServer, CancelTicket
  <2>6. UNCHANGED <<clock, listing, rows>>
    BY <1>2 DEF CheckInElsewhere, UndoAtServer, CancelTicket
  <2> QED BY <1>0, <1>c, <2>4, <2>5, <2>6, ServerStays
<1>3. ASSUME NEW asOf \in 0 .. MaxClock, ReadList(asOf) PROVE ServerInv'
  <2>1. /\ listing' = [asOf |-> asOf, in |-> {k \in Ticket : ticket[k].by # NULL},
                       gone |-> {k \in Ticket : ~ticket[k].live}]
        /\ asOf <= clock /\ UNCHANGED <<clock, ticket, undone, rows, made>>
    BY <1>3, <1>c DEF ReadList, server
  <2>2. listing' \in ListingType /\ listing'.asOf <= clock'
    BY <2>1 DEF ListingType
  <2>3. Old' = Old
    BY <2>1 DEF Old
  <2> QED BY <1>0, <2>1, <2>2, <2>3 DEF ServerInv
<1>4. CASE Tick
  <2>1. clock' = clock + 1 /\ clock < MaxClock /\ UNCHANGED <<ticket, undone, listing, rows>>
    BY <1>4 DEF Tick
  <2>2. clock' \in 0 .. MaxClock /\ clock <= clock'
    BY <1>c, <2>1
  <2>3. ticket' \in [Ticket -> [live : BOOLEAN, by : CheckIn \cup {NULL}]]
        /\ undone' \subseteq Ticket \X CheckIn
    BY <1>0, <2>1 DEF ServerInv
  <2> QED BY <1>0, <2>1, <2>2, <2>3, ServerStays
<1>5. CASE UNCHANGED <<clock, ticket, undone, rows>> /\ listing' \in {listing, NULL}
  <2>1. ticket' \in [Ticket -> [live : BOOLEAN, by : CheckIn \cup {NULL}]]
        /\ undone' \subseteq Ticket \X CheckIn
    BY <1>0, <1>5 DEF ServerInv
  <2> QED BY <1>0, <1>5, <1>c, <2>1, ServerStays
<1>6. \/ UNCHANGED <<clock, ticket, undone, rows>> /\ listing' \in {listing, NULL}
      \/ \E m \in net : Serve(m)
      \/ \E k \in Ticket : CheckInElsewhere(k) \/ UndoAtServer(k) \/ CancelTicket(k)
      \/ \E asOf \in 0 .. MaxClock : ReadList(asOf)
      \/ Tick
  BY ZenonT(30) DEF Next, Scanning, Syncing, Listening, vars, server, page, history, bounds, ReadOffline,
         ReadOnline, Ask, Retry, AdmitEarly, FrontTimeout,
         FrontAnswered, FrontSlow, FrontRefused, BehindAnswered, BehindRefused, BehindUnanswered, UndoHere,
         TakeBatch, SendBatch, BatchUnanswered, ForgetBatch, BatchAnswered, BatchRefused,
         AdoptList, Ping, HearUndo, HearCheckIn, Lose, Reload, SignOut
<1> QED BY <1>1, <1>2, <1>3, <1>4, <1>5, <1>6

-----------------------------------------------------------------------------
(* The first theorems.                                                     *)

TypedInv == PhoneTyped /\ BoxInv

\* The first state is typed.
LEMMA InitTyped == Init => TypedInv
<1> SUFFICES ASSUME Init PROVE TypedInv
  OBVIOUS
<1> USE DEF Init
<1>1. made \in Seq(Ticket) /\ Len(made) = 0 /\ Old = {}
  BY DEF Old
<1>2. list \in ListType \cup {NULL}
  BY DEF ListType
<1>3. PageInv
  <2>1. 0 <= MaxScans
    BY BoundAssumption
  <2>2. marks \in [Ticket -> MarkType \cup {NULL}] /\ failed \in [Ticket -> Scan \cup {NULL}]
    OBVIOUS
  <2>3. \A k \in Ticket : failed[k] = NULL
    OBVIOUS
  <2> QED BY <1>1, <1>2, <2>1, <2>2, <2>3 DEF PageInv
<1>4. ServerInv
  BY BoundAssumption DEF ServerInv
<1>5. NetInv
  BY DEF NetInv
<1>6. BoxInv
  BY DEF BoxInv, Outbox, Disk, SameScans, BatchInv, Ids, ToSet, DiskIds
<1> QED BY <1>3, <1>4, <1>5, <1>6 DEF TypedInv, PhoneTyped

\* Every step keeps the page, the server, the requests and the outbox typed.
LEMMA NextTyped == TypedInv /\ [Next]_vars => TypedInv'
BY NextPage, NextServer, NextNet, NextBoxed DEF TypedInv, PhoneTyped

\* So they always are.
LEMMA TypedHolds == Spec => []TypedInv
BY InitTyped, NextTyped, PTL DEF Spec

\* That says more than the type invariant.
LEMMA TypedIsTypeOK == TypedInv => TypeOK
<1> SUFFICES ASSUME TypedInv PROVE TypeOK
  OBVIOUS
<1>0. PageInv /\ ServerInv /\ NetInv /\ BoxInv
  BY DEF TypedInv, PhoneTyped
<1>1. \A m \in net : m.items \in Seq(ItemType) /\ m.done \in 0 .. Len(m.items)
  <2> SUFFICES ASSUME NEW m \in net PROVE m.items \in Seq(ItemType) /\ m.done \in 0 .. Len(m.items)
    OBVIOUS
  <2>1. m \in RequestType /\ m.done <= Len(m.items)
    BY <1>0 DEF NetInv, RequestOK, RequestIs
  <2> QED BY <2>1 DEF RequestType
<1>2. \A s \in Scan : rows[s] # NULL => s <= Len(made)
  BY <1>0 DEF ServerInv, Old, PageInv
<1>3. disk \subseteq ItemType
  BY <1>0 DEF BoxInv, Disk, Keeps
<1>4. outbox \in Seq(ItemType) /\ syncing \in SyncType \cup {NULL}
  BY <1>0 DEF BoxInv, Outbox
<1>5. IF syncing # NULL /\ syncing.step = "removing"
       THEN Ids(outbox) = {i.id : i \in disk} \ Ids(syncing.batch)
       ELSE Ids(outbox) = {i.id : i \in disk}
  BY <1>0 DEF BoxInv, SameScans, DiskIds
<1> QED BY <1>0, <1>1, <1>2, <1>3, <1>4, <1>5 DEF TypeOK, PageInv, ServerInv

\* The page, the server, the requests and the list keep their types in every
\* behaviour, and the outbox of the page holds the scans of the one in IndexedDB,
\* but for those just being removed (use-offline.ts: sendOutbox, load).
THEOREM PhoneIsTyped == Spec => []TypeOK
BY TypedHolds, TypedIsTypeOK, PTL

\* A batch that leaves repeats what was sent of its scans before.
LEMMA NextVerdicts == TypedInv /\ OneVerdictSent /\ [Next]_vars => OneVerdictSent'
<1> SUFFICES ASSUME TypedInv, OneVerdictSent, [Next]_vars PROVE OneVerdictSent'
  OBVIOUS
<1>0. BoxInv
  BY DEF TypedInv
<1>1. CASE SendBatch
  <2> DEFINE batch == ToSet(syncing.batch)
  <2>1. syncing # NULL /\ syncing.step # "removing"
        /\ sent' = sent \cup {<<i.id, i.verdict>> : i \in batch}
    BY <1>1 DEF SendBatch
  <2>2. /\ \A i \in batch : \E n \in DOMAIN outbox : outbox[n] = i
        /\ \A i \in batch : AsSent(i, sent)
        /\ \A i, j \in batch : i.id = j.id => i = j
    BY <1>0, <2>1, BatchItems DEF BoxInv, Outbox, Keeps
  <2> HIDE DEF batch
  <2> SUFFICES ASSUME NEW x \in sent', NEW y \in sent', x[1] = y[1] PROVE x[2] = y[2]
    BY DEF OneVerdictSent
  <2>3. CASE x \in sent /\ y \in sent
    BY <2>3 DEF OneVerdictSent
  <2>4. ASSUME NEW i \in batch, x = <<i.id, i.verdict>>, y \in sent PROVE x[2] = y[2]
    BY <2>2, <2>4 DEF AsSent
  <2>5. ASSUME NEW i \in batch, y = <<i.id, i.verdict>>, x \in sent PROVE x[2] = y[2]
    BY <2>2, <2>5 DEF AsSent
  <2>6. ASSUME NEW i \in batch, NEW j \in batch, x = <<i.id, i.verdict>>, y = <<j.id, j.verdict>>
        PROVE  x[2] = y[2]
    BY <2>2, <2>6
  <2> QED BY <2>1, <2>3, <2>4, <2>5, <2>6
<1>2. sent' = sent \/ SendBatch
  BY ZenonT(30) DEF Next, Scanning, Syncing, Listening, vars, server, page, history, bounds, ReadOffline,
         ReadOnline, Ask, Retry, AdmitEarly, FrontTimeout,
         FrontAnswered, FrontSlow, FrontRefused, BehindAnswered, BehindRefused, BehindUnanswered, UndoHere,
         TakeBatch, BatchUnanswered, ForgetBatch, BatchAnswered, BatchRefused,
         AdoptList, Ping, HearUndo, HearCheckIn, Lose, Reload, SignOut, Serve, CheckInElsewhere,
         UndoAtServer, CancelTicket, ReadList, Tick
<1> QED BY <1>1, <1>2 DEF OneVerdictSent

\* However often a batch is sent again, a scan is taken back or the page is
\* loaded again, the server gets one verdict of a scan: what localUndo may change
\* has not left the phone, and what has left is marked so before (sendOutbox).
THEOREM OneVerdict == Spec => []OneVerdictSent
<1>1. Init => OneVerdictSent
  BY DEF Init, OneVerdictSent
<1> QED BY <1>1, TypedHolds, NextVerdicts, PTL DEF Spec

-----------------------------------------------------------------------------
(* Double entries.                                                         *)

\* A check-in of this phone that stands is in the log, for that ticket.
ByOurs ==
  \A k \in Ticket :
    ticket[k].by \in Scan => CheckedIn(ticket[k].by) /\ made[ticket[k].by] = k

\* Where an offline admit is listed, a check-in stands or stood that is neither
\* its own nor of the request its row names.
DoubleApart ==
  \A s \in Scan :
    DoubleEntry(s) =>
      LET k == made[s]
      IN  \/ ~ticket[k].live
          \/ \E c \in CheckIn \ {s, rows[s].supersedes} :
               <<k, c>> \in undone \/ ticket[k].by = c

DoubleInv == ByOurs /\ DoubleApart

\* A scan that was made is of a ticket.
LEMMA LogTickets ==
  ASSUME PageInv, NEW s \in Scan, s \in Old
  PROVE  made[s] \in Ticket
BY DEF PageInv, Old

\* What of a double entry outlasts every step.
LEMMA RealStays ==
  ASSUME PageInv, ServerInv, MadeGrows, RowsGrow,
         \A k \in Ticket :
           /\ ticket[k].by \in CheckIn =>
                ticket'[k].by = ticket[k].by \/ <<k, ticket[k].by>> \in undone'
           /\ ~ticket[k].live => ~ticket'[k].live,
         undone \subseteq undone',
         DoubleApart, NEW s \in Scan, rows[s] # NULL, DoubleEntry(s)'
  PROVE  LET k == made'[s]
         IN  \/ ~ticket'[k].live
             \/ \E c \in CheckIn \ {s, rows'[s].supersedes} :
                  <<k, c>> \in undone' \/ ticket'[k].by = c
<1>1. rows'[s] = rows[s] /\ s \in Old /\ made'[s] = made[s] /\ made[s] \in Ticket
  BY LogTickets DEF RowsGrow, ServerInv, MadeGrows
<1>2. rows[s].supersedes \in Scan \cup {NULL}
  BY DEF ServerInv, RowType
<1>3. DoubleEntry(s)
  BY <1>1, <1>2, CheckedInStays DEF DoubleEntry, CheckedIn
<1>4. \/ ~ticket[made[s]].live
      \/ \E c \in CheckIn \ {s, rows[s].supersedes} :
           <<made[s], c>> \in undone \/ ticket[made[s]].by = c
  BY <1>3 DEF DoubleApart
<1> QED BY <1>1, <1>4
\* A check-in ends only by being taken back, a cancelled ticket stays so, and
\* only `Serve' checks in one of the phone's scans.
LEMMA NextTickets ==
  TypedInv /\ [Next]_vars =>
    /\ undone \subseteq undone'
    /\ \A k \in Ticket :
         /\ ticket[k].by \in CheckIn =>
              ticket'[k].by = ticket[k].by \/ <<k, ticket[k].by>> \in undone'
         /\ ~ticket[k].live => ~ticket'[k].live
    /\ \/ \E m \in net : Serve(m)
       \/ rows' = rows /\ \A k \in Ticket : ticket'[k].by = ticket[k].by \/ ticket'[k].by \notin Scan
<1> DEFINE Stays(k) ==
             /\ ticket[k].by \in CheckIn =>
                  ticket'[k].by = ticket[k].by \/ <<k, ticket[k].by>> \in undone'
             /\ ~ticket[k].live => ~ticket'[k].live
           Others(k) == ticket'[k].by = ticket[k].by \/ ticket'[k].by \notin Scan
<1> SUFFICES ASSUME TypedInv, [Next]_vars
             PROVE  /\ undone \subseteq undone' /\ \A k \in Ticket : Stays(k)
                    /\ \/ \E m \in net : Serve(m)
                       \/ rows' = rows /\ \A k \in Ticket : Others(k)
  OBVIOUS
<1>0. PageInv /\ ServerInv /\ NetInv
  BY DEF PhoneTyped, TypedInv
<1>n. NULL \notin Scan /\ Elsewhere \notin Scan /\ NULL \notin CheckIn
  BY NullAssumption DEF Scan, Elsewhere, CheckIn
<1>1. ASSUME NEW m \in net, Serve(m) PROVE undone \subseteq undone' /\ \A k \in Ticket : Stays(k)
  <2>1. undone' = undone
    BY <1>1 DEF Serve
  <2>2. \A t \in Ticket : ticket'[t].live = ticket[t].live
                          /\ (t # made[Due(m).id] => ticket'[t] = ticket[t])
    BY <1>0, <1>1, ServedItem
  <2>3. \/ ticket'[made[Due(m).id]].by = ticket[made[Due(m).id]].by
        \/ ticket[made[Due(m).id]].by = NULL
    BY <1>0, <1>1, ServedItem
  <2> QED BY <1>n, <2>1, <2>2, <2>3
<1>2. ASSUME NEW k \in Ticket, CheckInElsewhere(k) \/ UndoAtServer(k) \/ CancelTicket(k)
      PROVE  /\ rows' = rows /\ undone \subseteq undone'
             /\ \A t \in Ticket : Stays(t) /\ Others(t)
  <2>1. rows' = rows /\ undone \subseteq undone'
    BY <1>2 DEF CheckInElsewhere, UndoAtServer, CancelTicket
  <2>2. ASSUME NEW t \in Ticket PROVE Stays(t) /\ Others(t)
    <3>0. ticket \in [Ticket -> [live : BOOLEAN, by : CheckIn \cup {NULL}]]
      BY <1>0 DEF ServerInv
    <3>1. CASE t # k
      BY <1>2, <3>0, <3>1 DEF CheckInElsewhere, UndoAtServer, CancelTicket
    <3>2. CASE t = k
      <4>1. CASE CheckInElsewhere(k)
        <5>1. ticket'[k].by = Elsewhere /\ ticket'[k].live = ticket[k].live /\ ticket[k].by = NULL
          BY <3>0, <4>1 DEF CheckInElsewhere, Admissible
        <5> QED BY <1>n, <3>2, <5>1
      <4>2. CASE UndoAtServer(k)
        <5>1. ticket'[k].by = NULL /\ ticket'[k].live = ticket[k].live /\ <<k, ticket[k].by>> \in undone'
          BY <3>0, <4>2 DEF UndoAtServer
        <5> QED BY <1>n, <3>2, <5>1
      <4>3. CASE CancelTicket(k)
        <5>1. ticket'[k].by = ticket[k].by /\ ticket'[k].live = FALSE
          BY <3>0, <4>3 DEF CancelTicket
        <5> QED BY <3>2, <5>1
      <4> QED BY <1>2, <4>1, <4>2, <4>3
    <3> QED BY <3>1, <3>2
  <2> QED BY <2>1, <2>2
<1>3. ASSUME UNCHANGED <<ticket, undone, rows>>
      PROVE  rows' = rows /\ undone \subseteq undone' /\ \A t \in Ticket : Stays(t) /\ Others(t)
  BY <1>3
<1>4. \/ UNCHANGED <<ticket, undone, rows>>
      \/ \E m \in net : Serve(m)
      \/ \E k \in Ticket : CheckInElsewhere(k) \/ UndoAtServer(k) \/ CancelTicket(k)
  BY ZenonT(30) DEF Next, Scanning, Syncing, Listening, vars, server, page, history, bounds, ReadOffline,
         ReadOnline, Ask, Retry, AdmitEarly, FrontTimeout,
         FrontAnswered, FrontSlow, FrontRefused, BehindAnswered, BehindRefused, BehindUnanswered, UndoHere,
         TakeBatch, SendBatch, BatchUnanswered, ForgetBatch, BatchAnswered, BatchRefused,
         AdoptList, Ping, HearUndo, HearCheckIn, Lose, Reload, SignOut, ReadList, Tick
<1> HIDE DEF Stays, Others
<1> QED BY <1>1, <1>2, <1>3, <1>4

\* No step lists a double entry that no other check-in explains.
LEMMA NextDouble == TypedInv /\ DoubleInv /\ [Next]_vars => DoubleInv'
<1> SUFFICES ASSUME TypedInv, DoubleInv, [Next]_vars PROVE DoubleInv'
  OBVIOUS
<1>0. PageInv /\ ServerInv /\ NetInv /\ MadeGrows /\ RowsGrow /\ ByOurs /\ DoubleApart
  BY NextMade, NextRows DEF PhoneTyped, TypedInv, DoubleInv
<1>n. NULL \notin Scan /\ Elsewhere \notin Scan
  BY NullAssumption DEF Scan, Elsewhere
<1>t. \A k \in Ticket : ticket[k].by \in CheckIn \cup {NULL}
  BY <1>0 DEF ServerInv
\* a check-in of this phone that stood stays in the log
<1>b. ASSUME NEW k \in Ticket, ticket[k].by \in Scan
      PROVE  CheckedIn(ticket[k].by) /\ made'[ticket[k].by] = k /\ rows[ticket[k].by] # NULL
             /\ rows'[ticket[k].by] = rows[ticket[k].by]
  <2>1. CheckedIn(ticket[k].by) /\ made[ticket[k].by] = k
    BY <1>0, <1>b DEF ByOurs
  <2>2. rows[ticket[k].by] # NULL
    BY <2>1 DEF CheckedIn
  <2>3. ticket[k].by \in Old
    BY <1>0, <1>b, <2>2 DEF ServerInv
  <2> QED BY <1>0, <1>b, <2>1, <2>2, <2>3 DEF MadeGrows, RowsGrow
<1>1. ASSUME NEW m \in net, Serve(m) PROVE DoubleInv'
  <2> DEFINE i == Due(m)
             k == made[i.id]
  <2>0. UNCHANGED <<undone, made>>
    BY <1>1 DEF Serve
  <2>1. i.id \in Old /\ i.id \in Scan /\ k \in Ticket /\ i \in ItemType
    BY <1>0, <1>1, DueIs DEF Serve
  <2>2. /\ rows'[i.id] # NULL
        /\ \A s \in Scan : s # i.id => rows'[s] = rows[s]
        /\ rows[i.id] # NULL => rows' = rows /\ ticket' = ticket
        /\ rows[i.id] = NULL =>
             /\ rows'[i.id].verdict = i.verdict /\ rows'[i.id].supersedes = i.supersedes
             /\ rows'[i.id].result = Fresh(i)
        /\ \A t \in Ticket : ticket'[t].live = ticket[t].live /\ (t # k => ticket'[t] = ticket[t])
        /\ \/ ticket'[k].by = ticket[k].by
           \/ ticket[k].by = NULL /\ ticket'[k].by = i.id /\ CheckedIn(i.id)'
    BY <1>0, <1>1, ServedItem
  <2> DEFINE s == i.id
  <2>3. s \in Scan /\ s \in Old /\ k = made[s]
    BY <2>1
  <2>4. ASSUME rows[s] = NULL, rows'[s].verdict = "admitted", rows'[s].result # "admitted"
        PROVE  ~ticket[k].live \/ (ticket[k].by # NULL)
    BY <2>2, <2>4 DEF Fresh
  <2> HIDE DEF i
  <2>5. i.supersedes \in Scan \cup {NULL}
    BY <2>1 DEF ItemType
  <2> HIDE DEF s, k
  <2>6. ByOurs'
    <3> SUFFICES ASSUME NEW t \in Ticket, ticket'[t].by \in Scan
                 PROVE  CheckedIn(ticket[t].by)' /\ made'[ticket'[t].by] = t
      BY DEF ByOurs
    <3>1. CASE ticket'[t].by = ticket[t].by
      <4>1. CheckedIn(ticket[t].by) /\ made'[ticket[t].by] = t /\ rows[ticket[t].by] # NULL
            /\ rows'[ticket[t].by] = rows[ticket[t].by]
        BY <1>b, <3>1
      <4> QED BY <1>n, <3>1, <4>1 DEF CheckedIn
    <3>2. CASE ticket'[t].by # ticket[t].by
      <4>1. t = k /\ ticket'[t].by = s /\ CheckedIn(s)'
        BY <2>2, <3>2 DEF s
      <4> QED BY <2>0, <2>3, <4>1 DEF CheckedIn
    <3> QED BY <3>1, <3>2
  <2>7. /\ \A t \in Ticket :
           /\ ticket[t].by \in CheckIn =>
                ticket'[t].by = ticket[t].by \/ <<t, ticket[t].by>> \in undone'
           /\ ~ticket[t].live => ~ticket'[t].live
        /\ undone \subseteq undone'
    <3>1. NULL \notin CheckIn
      BY NullAssumption DEF CheckIn, Scan, Elsewhere
    <3> QED BY <2>0, <2>2, <3>1
  <2>8. DoubleApart'
    <3> SUFFICES ASSUME NEW r \in Scan, DoubleEntry(r)'
                 PROVE  LET t == made'[r]
                        IN  \/ ~ticket'[t].live
                            \/ \E c \in CheckIn \ {r, rows'[r].supersedes} :
                                 <<t, c>> \in undone' \/ ticket'[t].by = c
      BY DEF DoubleApart
    <3>1. CASE rows[r] # NULL
      BY <1>0, <2>7, <3>1, RealStays
    <3>2. CASE rows[r] = NULL
      <4>1. r = s /\ rows[s] = NULL
        BY <2>2, <3>2 DEF DoubleEntry, s
      <4>2. rows'[s].verdict = "admitted" /\ rows'[s].result # "admitted" /\ ~CheckedIn(rows[s].supersedes)'
        BY <4>1 DEF DoubleEntry
      <4>3. CASE ~ticket[k].live
        BY <2>0, <2>1, <2>2, <2>3, <4>1, <4>3
      <4>4. CASE ticket[k].by # NULL
        <5> DEFINE c == ticket[k].by
        <5>1. c \in CheckIn /\ ticket'[k].by = c
          BY <1>t, <2>1, <2>2, <4>4
        <5>2. c # s
          BY <1>b, <2>1, <2>3, <4>1
        <5>3. c # rows'[s].supersedes
          <6> SUFFICES ASSUME c = rows'[s].supersedes PROVE FALSE
            OBVIOUS
          <6>1. c = i.supersedes
            BY <2>2, <4>1 DEF s
          <6>2. c \in Scan
            BY <2>5, <4>4, <6>1
          <6>3. CheckedIn(c)
            BY <1>b, <2>1, <6>2
          <6>4. rows'[c] = rows[c]
            BY <1>b, <2>1, <6>2
          <6>5. CheckedIn(rows[s].supersedes)'
            BY <6>3, <6>4 DEF CheckedIn
          <6> QED BY <4>2, <6>5
        <5> QED BY <2>0, <2>3, <4>1, <5>1, <5>2, <5>3
      <4> QED BY <2>4, <4>1, <4>2, <4>3, <4>4
    <3> QED BY <3>1, <3>2
  <2> QED BY <2>6, <2>8 DEF DoubleInv
\* everything else that happens to the tickets and the log
<1>2. ASSUME rows' = rows, undone \subseteq undone',
             \A k \in Ticket :
               /\ ticket'[k].by = ticket[k].by \/ ticket'[k].by \notin Scan
               /\ ticket[k].by \in CheckIn =>
                    ticket'[k].by = ticket[k].by \/ <<k, ticket[k].by>> \in undone'
               /\ ~ticket[k].live => ~ticket'[k].live
      PROVE  DoubleInv'
  <2>1. ByOurs'
    <3> SUFFICES ASSUME NEW t \in Ticket, ticket'[t].by \in Scan
                 PROVE  CheckedIn(ticket[t].by)' /\ made'[ticket'[t].by] = t
      BY DEF ByOurs
    <3>1. ticket'[t].by = ticket[t].by
      BY <1>2
    <3>2. CheckedIn(ticket[t].by) /\ made'[ticket[t].by] = t
      BY <1>b, <3>1
    <3> QED BY <1>2, <3>1, <3>2 DEF CheckedIn
  <2>2. DoubleApart'
    <3> SUFFICES ASSUME NEW r \in Scan, DoubleEntry(r)'
                 PROVE  LET t == made'[r]
                        IN  \/ ~ticket'[t].live
                            \/ \E c \in CheckIn \ {r, rows'[r].supersedes} :
                                 <<t, c>> \in undone' \/ ticket'[t].by = c
      BY DEF DoubleApart
    <3>1. rows[r] # NULL
      BY <1>2 DEF DoubleEntry
    <3> QED BY <1>0, <1>2, <3>1, RealStays
  <2> QED BY <2>1, <2>2 DEF DoubleInv
<1> QED BY <1>1, <1>2, NextTickets

-----------------------------------------------------------------------------
(* The batch being sent.                                                   *)

\* A batch the phone waits for is the one being sent, and the only one.
Heard ==
  \A m \in net : m.heard /\ IsSync(m) =>
    /\ syncing # NULL /\ syncing.step = "sent" /\ m.items = syncing.batch
    /\ \A q \in net : q.heard /\ IsSync(q) => q = m

Silent == \A m \in net : ~(m.heard /\ IsSync(m))

\* A request that is heard still is one of those there were.
LEMMA NoNewsHeard ==
  ASSUME NetInv, NoNews, NEW m \in net'
  PROVE  (m.heard => m \in net) /\ \E q \in net : m.items = q.items
<1>1. CASE m \in net
  BY <1>1
<1>2. ASSUME NEW q \in net, m = Muted(q) PROVE m.heard = FALSE /\ m.items = q.items
  <2>1. q \in RequestType
    BY DEF NetInv, RequestOK
  <2> QED BY <1>2, <2>1 DEF Muted, RequestType
<1> QED BY <1>1, <1>2 DEF NoNews

\* A page that ends hears no request any more.
LEMMA HungUp ==
  ASSUME NetInv, Hang
  PROVE  \A m \in net' : ~m.heard
<1> SUFFICES ASSUME NEW m \in net' PROVE ~m.heard
  OBVIOUS
<1>1. net' = {Muted(q) : q \in {r \in net : ~Complete(r)}}
  BY Zenon DEF Hang, Muted
<1>2. PICK q \in net : m = Muted(q)
  BY <1>1
<1>3. q \in RequestType
  BY DEF NetInv, RequestOK
<1> QED BY <1>2, <1>3 DEF Muted, RequestType

\* A send that is given up hears no batch any more.
LEMMA BatchHungUp ==
  ASSUME NetInv, BatchUnanswered
  PROVE  Silent'
<1> DEFINE reqs == {q \in net : SyncRequest(q)}
<1>1. GiveUp(reqs)
  BY DEF BatchUnanswered
<1>2. \A q \in net : q.heard /\ IsSync(q) => q \in reqs
  BY DEF SyncRequest
<1>3. reqs \subseteq net
  OBVIOUS
<1> HIDE DEF reqs
<1>4. net' = (net \ reqs) \cup {Muted(q) : q \in {r \in reqs : ~Complete(r)}}
  BY <1>1, Zenon DEF GiveUp, Muted
<1> SUFFICES ASSUME NEW m \in net', m.heard, IsSync(m) PROVE FALSE
  BY DEF Silent, IsSync
<1>5. m \notin net \ reqs
  BY <1>2
<1>6. PICK q \in reqs : m = Muted(q)
  BY <1>4, <1>5
<1>7. q \in RequestType
  BY <1>3 DEF NetInv, RequestOK
<1> QED BY <1>6, <1>7 DEF Muted, RequestType

\* Every step keeps the batch being sent the only one the phone waits for.
LEMMA NextHeard == TypedInv /\ Heard /\ [Next]_vars => Heard'
<1> SUFFICES ASSUME TypedInv, Heard, [Next]_vars PROVE Heard'
  OBVIOUS
<1>0. PageInv /\ ServerInv /\ NetInv /\ BoxInv /\ PhoneTyped
  BY DEF PhoneTyped, TypedInv
<1>1. ASSUME NoNews, syncing' = syncing PROVE Heard'
  <2>1. \A m \in net' : m.heard => m \in net
    BY <1>0, <1>1, NoNewsHeard
  <2> QED BY <1>1, <2>1 DEF Heard, IsSync
<1>2. ASSUME Silent' PROVE Heard'
  BY <1>2 DEF Heard, Silent, IsSync
<1>3. (syncing = NULL \/ syncing.step # "sent") => Silent
  BY DEF Heard, Silent
<1>4. CASE TakeBatch
  BY <1>2, <1>3, <1>4 DEF TakeBatch, Silent, IsSync
<1>5. CASE ForgetBatch
  BY <1>2, <1>3, <1>5 DEF ForgetBatch, Silent, IsSync
<1>6. CASE SendBatch
  <2>1. Silent
    BY <1>3, <1>6 DEF SendBatch
  <2>2. /\ net' = net \cup {Request(syncing.batch)} /\ syncing # NULL
        /\ syncing' = [syncing EXCEPT !.step = "sent"]
    BY <1>6 DEF SendBatch
  <2>3. syncing' # NULL /\ syncing'.step = "sent" /\ syncing'.batch = syncing.batch
    <3>1. syncing \in SyncType
      BY <1>0, <2>2 DEF BoxInv
    <3>2. syncing' \in SyncType /\ syncing'.step = "sent" /\ syncing'.batch = syncing.batch
      BY <2>2, <3>1 DEF SyncType
    <3> QED BY <3>2, NullAssumption
  <2>4. Request(syncing.batch).items = syncing.batch
    BY DEF Request
  <2> QED BY <2>1, <2>2, <2>3, <2>4 DEF Heard, Silent, IsSync
<1>7. CASE BatchUnanswered
  BY <1>0, <1>2, <1>7, BatchHungUp
<1>8. ASSUME NEW m \in net, BatchAnswered(m) \/ BatchRefused(m) PROVE Heard'
  <2>1. m.heard /\ IsSync(m) /\ net' = net \ {m}
    BY <1>8 DEF BatchAnswered, BatchRefused, SyncRequest
  <2>2. \A q \in net : q.heard /\ IsSync(q) => q = m
    BY <2>1 DEF Heard
  <2> QED BY <1>2, <2>1, <2>2 DEF Silent, IsSync
<1>9. ASSUME SignOut \/ \E b \in BOOLEAN : Reload(b) PROVE Heard'
  <2>1. Hang
    BY <1>9 DEF SignOut, Reload
  <2> QED BY <1>0, <1>2, <2>1, HungUp DEF Silent
<1>10. ASSUME NEW m \in net, Serve(m) PROVE Heard'
  <2>1. PICK a \in AnswerType : net' \subseteq (net \ {m}) \cup {Served(m, a)}
    BY <1>0, <1>10, ServedItem
  <2> DEFINE next == Served(m, a)
  <2>2. next.items = m.items /\ next.heard = m.heard /\ (IsSync(next) <=> IsSync(m))
    BY DEF Served, IsSync
  <2>3. syncing' = syncing
    BY <1>10 DEF Serve, page
  <2> HIDE DEF next
  <2> SUFFICES ASSUME NEW q \in net', q.heard, IsSync(q)
               PROVE  /\ syncing # NULL /\ syncing.step = "sent" /\ q.items = syncing.batch
                      /\ \A r \in net' : r.heard /\ IsSync(r) => r = q
    BY <2>3 DEF Heard, IsSync
  <2>4. \A r \in net' : r = next \/ (r \in net /\ r # m)
    BY <2>1 DEF next
  <2>5. CASE q = next
    BY <2>2, <2>4, <2>5 DEF Heard
  <2>6. CASE q # next
    BY <2>2, <2>4, <2>6 DEF Heard
  <2> QED BY <2>5, <2>6
<1>11. ASSUME NEW k \in Ticket, ReadOnline(k) \/ \E b \in BOOLEAN : Retry(k, b) PROVE Heard'
  <2>1. syncing' = syncing /\ \E id : net' = net \cup {Request(<<OnlineItem(id)>>)}
    BY <1>11 DEF ReadOnline, Retry, Ask
  <2>2. \A id : ~IsSync(Request(<<OnlineItem(id)>>))
    BY DEF IsSync, Request, OnlineItem, Item
  <2> QED BY <2>1, <2>2 DEF Heard, IsSync
<1>12. \/ NoNews /\ syncing' = syncing
       \/ \E m \in net : Serve(m)
       \/ \E k \in Ticket : ReadOnline(k) \/ \E b \in BOOLEAN : Retry(k, b)
       \/ TakeBatch \/ SendBatch \/ BatchUnanswered \/ ForgetBatch
       \/ \E m \in net : BatchAnswered(m) \/ BatchRefused(m)
       \/ SignOut \/ \E b \in BOOLEAN : Reload(b)
  <2>1. \/ syncing' = syncing
        \/ TakeBatch \/ SendBatch \/ BatchUnanswered \/ ForgetBatch
        \/ \E m \in net : BatchAnswered(m) \/ BatchRefused(m)
        \/ SignOut \/ \E b \in BOOLEAN : Reload(b)
    BY ZenonT(30) DEF Next, Scanning, Syncing, Listening, vars, server, page, history, bounds, ReadOffline,
         ReadOnline, Ask, Retry, AdmitEarly, FrontTimeout,
         FrontAnswered, FrontSlow, FrontRefused, BehindAnswered, BehindRefused, BehindUnanswered, UndoHere,
         AdoptList, Ping, HearUndo, HearCheckIn, Lose, Serve, CheckInElsewhere,
         UndoAtServer, CancelTicket, ReadList, Tick
  <2> QED BY <1>0, <2>1, NextNews
<1> QED BY <1>1, <1>4, <1>5, <1>6, <1>7, <1>8, <1>9, <1>10, <1>11, <1>12

-----------------------------------------------------------------------------
(* Scan ids drawn offline, and the requests they replace.                  *)

\* Item i is of a scan id drawn offline, and names what names says of it.
Named(i, off, names) == i.id \in off /\ i.supersedes = names[i.id]

\* What a request asks: a batch only what was counted as sent, an online scan
\* only for an id that was not drawn offline.
AsksFor(items, off, names, told) ==
  \A j \in DOMAIN items :
    IF items[1].verdict # NULL THEN Named(items[j], off, names) /\ <<items[j].id, items[j].verdict>> \in told
    ELSE items[j].id \notin off

\* A row of the log, the same.
Logged(r, row, off, names, told) ==
  IF row.verdict = NULL THEN r \notin off
  ELSE r \in off /\ row.supersedes = names[r] /\ <<r, row.verdict>> \in told

BoxNamed(off, names) ==
  /\ \A n \in DOMAIN outbox : Named(outbox[n], off, names)
  /\ \A i \in disk : Named(i, off, names)
NetNamed(off, names) == \A m \in net : AsksFor(m.items, off, names, sent)
LogNamed(off, names) == \A r \in Scan : rows[r] # NULL => Logged(r, rows[r], off, names, sent)
PageNamed(off) ==
  /\ front # NULL => front.id \notin off
  /\ \A k \in Ticket : failed[k] # NULL => failed[k] \notin off

\* What an offline scan names is the request it was given in the place of.
Truly(pairs, off, names) == \A p \in pairs : p[1] \in off /\ names[p[1]] = p[2]

KindOf(off, names) ==
  /\ BoxNamed(off, names) /\ NetNamed(off, names) /\ LogNamed(off, names) /\ PageNamed(off)
  /\ Truly(replaced, off, names)

\* Some scan ids are of offline verdicts, each with one name for what it
\* replaces; the others are of online requests.
Kinds == \E off \in SUBSET Old, names \in [Scan -> Scan \cup {NULL}] : KindOf(off, names)

\* A new scan id may be one of either kind.
LEMMA Widened ==
  ASSUME TypedInv, Kinds, NewId \in Scan, NEW s \in Scan \cup {NULL}
  PROVE  \E off \in SUBSET (Old \cup {NewId}), names \in [Scan -> Scan \cup {NULL}] :
           KindOf(off, names) /\ NewId \in off /\ names[NewId] = s
<1>0. PageInv /\ ServerInv /\ NetInv /\ BoxInv
  BY DEF PhoneTyped, TypedInv
<1>1. PICK off \in SUBSET Old, names \in [Scan -> Scan \cup {NULL}] : KindOf(off, names)
  BY DEF Kinds
<1> DEFINE off2 == off \cup {NewId}
           names2 == [names EXCEPT ![NewId] = s]
<1>2. NewId \notin Old /\ Old \subseteq Scan
  BY <1>0, BoundAssumption DEF PageInv, Old, NewId, Scan
<1>3. names2 \in [Scan -> Scan \cup {NULL}] /\ names2[NewId] = s
      /\ \A x \in Old : (x \in off2 <=> x \in off) /\ names2[x] = names[x]
  BY <1>2
<1> HIDE DEF off2, names2
<1>4. BoxNamed(off2, names2)
  <2>1. BoxNamed(off, names)
    BY <1>1 DEF KindOf
  <2>2. /\ \A n \in DOMAIN outbox : outbox[n].id \in Old
        /\ \A i \in disk : i.id \in Old
    BY <1>0 DEF BoxInv, Outbox, Disk, Keeps
  <2> QED BY <1>3, <2>1, <2>2 DEF BoxNamed, Named
<1>5. NetNamed(off2, names2)
  <2> SUFFICES ASSUME NEW m \in net PROVE AsksFor(m.items, off2, names2, sent)
    BY DEF NetNamed
  <2>1. AsksFor(m.items, off, names, sent)
    BY <1>1 DEF KindOf, NetNamed
  <2>2. \A j \in DOMAIN m.items : m.items[j].id \in Old
    BY <1>0 DEF NetInv, RequestOK, RequestIs
  <2> QED BY <1>3, <2>1, <2>2 DEF AsksFor, Named
<1>6. LogNamed(off2, names2)
  <2> SUFFICES ASSUME NEW r \in Scan, rows[r] # NULL PROVE Logged(r, rows[r], off2, names2, sent)
    BY DEF LogNamed
  <2>1. Logged(r, rows[r], off, names, sent)
    BY <1>1 DEF KindOf, LogNamed
  <2>2. r \in Old
    BY <1>0 DEF ServerInv
  <2> QED BY <1>3, <2>1, <2>2 DEF Logged
<1>7. PageNamed(off2)
  <2>1. PageNamed(off)
    BY <1>1 DEF KindOf
  <2>2. (front # NULL => front.id \in Old) /\ \A k \in Ticket : failed[k] # NULL => failed[k] \in Old
    BY <1>0 DEF PageInv
  <2> QED BY <1>3, <2>1, <2>2 DEF PageNamed
<1>8. off2 \in SUBSET (Old \cup {NewId}) /\ NewId \in off2
  BY DEF off2
<1>9. Truly(replaced, off2, names2)
  <2>1. Truly(replaced, off, names)
    BY <1>1 DEF KindOf
  <2> QED BY <1>3, <2>1 DEF Truly
<1> QED BY <1>3, <1>4, <1>5, <1>6, <1>7, <1>8, <1>9 DEF KindOf

\* A step at the server.
LEMMA ServedNamed ==
  ASSUME TypedInv, NEW off, NEW names, KindOf(off, names), NEW m \in net, Serve(m)
  PROVE  KindOf(off, names)'
<1> DEFINE i == Due(m)
<1>0. PageInv /\ ServerInv /\ NetInv /\ BoxInv
  BY DEF PhoneTyped, TypedInv
<1>1. i.id \in Scan /\ i \in ItemType /\ m.done + 1 \in DOMAIN m.items
  BY <1>0, DueIs DEF Serve
<1>2. /\ \A s \in Scan : s # i.id => rows'[s] = rows[s]
      /\ rows[i.id] # NULL => rows' = rows
      /\ rows[i.id] = NULL => rows'[i.id].verdict = i.verdict /\ rows'[i.id].supersedes = i.supersedes
  BY <1>0, ServedItem
<1>3. PICK a \in AnswerType : net' \subseteq (net \ {m}) \cup {Served(m, a)}
  BY <1>0, ServedItem
<1>4. UNCHANGED <<disk, outbox, front, failed, sent, replaced>>
  BY DEF Serve, page, history
<1>5. AsksFor(m.items, off, names, sent)
  BY DEF KindOf, NetNamed
<1>6. m.items[1].verdict # NULL <=> i.verdict # NULL
  BY <1>0, <1>1 DEF NetInv, RequestOK, RequestIs, Due
<1>7. IF i.verdict # NULL THEN Named(i, off, names) /\ <<i.id, i.verdict>> \in sent ELSE i.id \notin off
  BY <1>1, <1>5, <1>6 DEF AsksFor, Due
<1> HIDE DEF i
<1>8. LogNamed(off, names)'
  <2> SUFFICES ASSUME NEW r \in Scan, rows'[r] # NULL PROVE Logged(r, rows'[r], off, names, sent)
    BY <1>4 DEF LogNamed
  <2>1. CASE rows[r] # NULL
    <3>1. rows'[r] = rows[r]
      BY <1>2, <2>1
    <3> QED BY <2>1, <3>1 DEF KindOf, LogNamed
  <2>2. CASE rows[r] = NULL
    <3>1. r = i.id
      BY <1>2, <2>2
    <3> QED BY <1>2, <1>7, <2>2, <3>1 DEF Logged, Named
  <2> QED BY <2>1, <2>2
<1>9. NetNamed(off, names)'
  <2>1. Served(m, a).items = m.items
    BY DEF Served
  <2> QED BY <1>3, <1>4, <1>5, <2>1 DEF NetNamed, KindOf
<1>10. BoxNamed(off, names)' /\ PageNamed(off)' /\ Truly(replaced', off, names)
  BY <1>4 DEF KindOf, BoxNamed, PageNamed
<1> QED BY <1>8, <1>9, <1>10 DEF KindOf

\* A step of the phone: what it keeps and asks is as named.
LEMMA NamedStays ==
  ASSUME NEW off, NEW names, KindOf(off, names), rows' = rows, sent \subseteq sent',
         \A n \in DOMAIN outbox' : Named(outbox'[n], off, names),
         \A i \in disk' : Named(i, off, names),
         \A m \in net' : AsksFor(m.items, off, names, sent') \/ \E q \in net : m.items = q.items,
         front' # NULL => front'.id \notin off,
         \A k \in Ticket : failed'[k] # NULL => failed'[k] \notin off,
         Truly(replaced', off, names)
  PROVE  KindOf(off, names)'
<1>1. \A items : AsksFor(items, off, names, sent) => AsksFor(items, off, names, sent')
  BY DEF AsksFor
<1>2. NetNamed(off, names)'
  BY <1>1 DEF KindOf, NetNamed
<1>3. LogNamed(off, names)'
  <2>1. \A r, row : Logged(r, row, off, names, sent) => Logged(r, row, off, names, sent')
    BY DEF Logged
  <2> QED BY <2>1 DEF KindOf, LogNamed
<1> QED BY <1>2, <1>3 DEF KindOf, BoxNamed, PageNamed

\* The same scan and the same request replaced.
Alike(i, j) == i.id = j.id /\ i.supersedes = j.supersedes

\* Every item kept was kept.
SameBox ==
  /\ \A n \in DOMAIN outbox' :
       \/ \E o \in DOMAIN outbox : Alike(outbox'[n], outbox[o])
       \/ \E i \in disk : Alike(outbox'[n], i)
  /\ \A i \in disk' : (\E j \in disk : Alike(i, j)) \/ \E o \in DOMAIN outbox : Alike(i, outbox[o])

SameFront ==
  /\ front' \in {front, NULL}
  /\ \A k \in Ticket : failed'[k] \in {failed[k], NULL} \/ (front # NULL /\ failed'[k] = front.id)

\* Items alike name the same request.
LEMMA AlikeNamed ==
  ASSUME NEW i, NEW j, Alike(i, j), NEW off, NEW names, Named(j, off, names)
  PROVE  Named(i, off, names)
BY DEF Alike, Named

\* Items kept name what they named.
LEMMA BoxNamedStays ==
  ASSUME NEW off, NEW names, BoxNamed(off, names), SameBox
  PROVE  BoxNamed(off, names)'
<1>1. ASSUME NEW n \in DOMAIN outbox' PROVE Named(outbox'[n], off, names)
  <2> SUFFICES ASSUME NEW x, x = outbox'[n] PROVE Named(x, off, names)
    OBVIOUS
  <2>1. (\E o \in DOMAIN outbox : Alike(x, outbox[o])) \/ \E i \in disk : Alike(x, i)
    BY DEF SameBox
  <2> QED BY <2>1, AlikeNamed DEF BoxNamed
<1>2. ASSUME NEW i \in disk' PROVE Named(i, off, names)
  <2>1. (\E j \in disk : Alike(i, j)) \/ \E o \in DOMAIN outbox : Alike(i, outbox[o])
    BY DEF SameBox
  <2> QED BY <2>1, AlikeNamed DEF BoxNamed
<1> QED BY <1>1, <1>2 DEF BoxNamed

\* The scans that wait stay online ones.
LEMMA PageNamedStays ==
  ASSUME NEW off, PageNamed(off), SameFront
  PROVE  PageNamed(off)'
BY DEF PageNamed, SameFront

\* A step that draws no scan id and asks nothing keeps the kinds apart.
LEMMA KindsStay ==
  ASSUME TypedInv, Kinds, MadeGrows, NoNews, UNCHANGED <<rows, sent, replaced>>, SameBox, SameFront
  PROVE  Kinds'
<1>0. PageInv /\ NetInv /\ made \in Seq(Ticket)
  BY DEF TypedInv, PhoneTyped, PageInv
<1>1. PICK off \in SUBSET Old, names \in [Scan -> Scan \cup {NULL}] : KindOf(off, names)
  BY DEF Kinds
<1>2. Old \subseteq Old'
  BY <1>0, OldGrows
<1>3. \A m \in net' : \E q \in net : m.items = q.items
  BY <1>0, NoNewsHeard
<1>4. BoxNamed(off, names)' /\ PageNamed(off)' /\ Truly(replaced', off, names)
  BY <1>1, BoxNamedStays, PageNamedStays DEF KindOf
<1>5. KindOf(off, names)'
  BY <1>1, <1>3, <1>4, NamedStays DEF BoxNamed, PageNamed
<1> QED BY <1>2, <1>5 DEF Kinds

\* A scan judged by the phone draws an id that is offline.
LEMMA KindsQueued ==
  ASSUME TypedInv, Kinds, MadeGrows, NoNews, rows' = rows, sent' = sent, SameFront,
         Len(made) < MaxScans, NEW k \in Ticket, made' = Append(made, k),
         NEW v, NEW s \in Scan \cup {NULL}, Queue(Item(NewId, v, s)),
         replaced' \subseteq replaced \cup {<<NewId, s>>}
  PROVE  Kinds'
<1> DEFINE new == Item(NewId, v, s)
<1>0. PageInv /\ NetInv /\ BoxInv /\ made \in Seq(Ticket)
  BY DEF TypedInv, PhoneTyped, PageInv
<1>1. NewId \in Scan /\ NewId \in Old' /\ Old \subseteq Old'
  BY <1>0, OneMore, OldGrows
<1>2. PICK off \in SUBSET (Old \cup {NewId}), names \in [Scan -> Scan \cup {NULL}] :
        KindOf(off, names) /\ NewId \in off /\ names[NewId] = s
  BY <1>1, Widened
<1>3. new.id = NewId /\ new.supersedes = s
  BY DEF Item
<1>4. outbox' = Append(outbox, new) /\ disk' = Put(disk, new) /\ outbox \in Seq(ItemType)
  BY <1>0 DEF Queue, BoxInv, Outbox
<1> HIDE DEF new
<1>5. Named(new, off, names)
  BY <1>2, <1>3 DEF Named
<1>6. \A n \in DOMAIN outbox' : outbox'[n] = new \/ \E o \in DOMAIN outbox : outbox'[n] = outbox[o]
  BY <1>4
<1>7. \A n \in DOMAIN outbox' : Named(outbox'[n], off, names)
  <2> SUFFICES ASSUME NEW n \in DOMAIN outbox', NEW x, x = outbox'[n] PROVE Named(x, off, names)
    OBVIOUS
  <2>1. x = new \/ \E o \in DOMAIN outbox : x = outbox[o]
    BY <1>6
  <2> QED BY <1>2, <1>5, <2>1 DEF KindOf, BoxNamed
<1>8. \A i \in disk' : Named(i, off, names)
  BY <1>2, <1>4, <1>5 DEF KindOf, BoxNamed, Put
<1>9. \A m \in net' : \E q \in net : m.items = q.items
  BY <1>0, NoNewsHeard
<1>10. PageNamed(off)' /\ Truly(replaced', off, names)
  <2>1. PageNamed(off)'
    BY <1>2, PageNamedStays DEF KindOf
  <2>2. Truly(replaced', off, names)
    BY <1>2 DEF KindOf, Truly
  <2> QED BY <2>1, <2>2
<1>11. KindOf(off, names)'
  BY <1>2, <1>7, <1>8, <1>9, <1>10, NamedStays DEF PageNamed
<1>12. off \in SUBSET Old'
  BY <1>1
<1> QED BY <1>11, <1>12 DEF Kinds

\* A scan the server is asked of keeps an id that is not.
LEMMA KindsAsked ==
  ASSUME TypedInv, Kinds, MadeGrows, rows' = rows, sent' = sent,
         UNCHANGED <<disk, outbox, failed, replaced>>, NEW id,
         net' = net \cup {Request(<<OnlineItem(id)>>)}, front'.id = id,
         \A off \in SUBSET Old : \A names : KindOf(off, names) => id \notin off
  PROVE  Kinds'
<1>0. PageInv /\ NetInv /\ made \in Seq(Ticket)
  BY DEF TypedInv, PhoneTyped, PageInv
<1>1. PICK off \in SUBSET Old, names \in [Scan -> Scan \cup {NULL}] : KindOf(off, names)
  BY DEF Kinds
<1>2. id \notin off
  BY <1>1
<1>3. Old \subseteq Old'
  BY <1>0, OldGrows
<1>4. AsksFor(<<OnlineItem(id)>>, off, names, sent')
  BY <1>2 DEF AsksFor, OnlineItem, Item
<1>5. Request(<<OnlineItem(id)>>).items = <<OnlineItem(id)>>
  BY DEF Request
<1>6. KindOf(off, names)'
  <2> HIDE DEF KindOf
  <2>1. \A m \in net' : AsksFor(m.items, off, names, sent') \/ \E q \in net : m.items = q.items
    BY <1>4, <1>5
  <2>2. /\ \A n \in DOMAIN outbox' : Named(outbox'[n], off, names)
        /\ \A i \in disk' : Named(i, off, names)
        /\ \A k \in Ticket : failed'[k] # NULL => failed'[k] \notin off
        /\ Truly(replaced', off, names)
    BY <1>1 DEF KindOf, BoxNamed, PageNamed
  <2> QED BY <1>1, <1>2, <2>1, <2>2, NamedStays
<1> QED BY <1>3, <1>6 DEF Kinds

\* The batch leaves.
LEMMA KindsSent ==
  ASSUME TypedInv, Kinds, SendBatch
  PROVE  Kinds'
<1> DEFINE batch == syncing.batch
<1>0. PageInv /\ NetInv /\ BoxInv
  BY DEF TypedInv, PhoneTyped
<1>1. PICK off \in SUBSET Old, names \in [Scan -> Scan \cup {NULL}] : KindOf(off, names)
  BY DEF Kinds
<1>2. /\ UNCHANGED <<made, outbox, front, failed, rows, replaced>>
      /\ disk' = Saved(disk, batch)
      /\ net' = net \cup {Request(batch)}
      /\ sent' = sent \cup {<<i.id, i.verdict>> : i \in ToSet(batch)}
      /\ syncing # NULL /\ syncing.step # "removing"
  BY DEF SendBatch, server
<1>3. \A i \in ToSet(batch) : (\E n \in DOMAIN outbox : outbox[n] = i) /\ i.verdict # NULL
  BY <1>0, <1>2, BatchItems DEF Keeps
<1> HIDE DEF batch
<1>4. \A i \in ToSet(batch) : Named(i, off, names)
  BY <1>1, <1>3 DEF KindOf, BoxNamed
<1>5. \A i \in disk' : Named(i, off, names)
  BY <1>1, <1>2, <1>4 DEF KindOf, BoxNamed, Saved
<1>6. \A j \in DOMAIN batch : batch[j] \in ToSet(batch)
  BY DEF ToSet
<1>7. AsksFor(batch, off, names, sent')
  <2> SUFFICES ASSUME NEW j \in DOMAIN batch
               PROVE  IF batch[1].verdict # NULL
                        THEN Named(batch[j], off, names) /\ <<batch[j].id, batch[j].verdict>> \in sent'
                        ELSE batch[j].id \notin off
    BY DEF AsksFor
  <2>1. batch \in Seq(ItemType)
    BY <1>0, <1>2 DEF BoxInv, SyncType, batch
  <2>2. 1 \in DOMAIN batch
    BY <2>1
  <2>3. batch[1].verdict # NULL
    BY <1>3, <1>6, <2>2
  <2> QED BY <1>2, <1>4, <1>6, <2>3
<1>8. Request(batch).items = batch
  BY DEF Request
<1>9. \A m \in net' : AsksFor(m.items, off, names, sent') \/ \E q \in net : m.items = q.items
  BY <1>2, <1>7, <1>8
<1>10. /\ \A n \in DOMAIN outbox' : Named(outbox'[n], off, names)
       /\ front' # NULL => front'.id \notin off
       /\ \A k \in Ticket : failed'[k] # NULL => failed'[k] \notin off
       /\ Truly(replaced', off, names)
  BY <1>1, <1>2 DEF KindOf, BoxNamed, PageNamed
<1>11. sent \subseteq sent'
  BY <1>2
<1>12. KindOf(off, names)'
  BY <1>1, <1>2, <1>5, <1>9, <1>10, <1>11, NamedStays
<1>13. Old' = Old
  BY <1>2 DEF Old
<1> QED BY <1>12, <1>13 DEF Kinds

\* The outbox as each step leaves it.
LEMMA BoxAlike ==
  ASSUME TypedInv
  PROVE  /\ UNCHANGED <<outbox, disk>> => SameBox
         /\ \A n \in DOMAIN outbox : UndoHere(n) => SameBox
         /\ TakeBatch => SameBox
         /\ ForgetBatch => SameBox
         /\ \A m \in net : BatchAnswered(m) \/ BatchRefused(m) => SameBox
         /\ \A b \in BOOLEAN : Reload(b) => SameBox
         /\ SignOut => SameBox
<1>0. PageInv /\ BoxInv
  BY DEF TypedInv, PhoneTyped
<1>1. \A i : Alike(i, i)
  BY DEF Alike
<1>2. UNCHANGED <<outbox, disk>> => SameBox
  BY <1>1 DEF SameBox
<1>3. ASSUME NEW n \in DOMAIN outbox, UndoHere(n) PROVE SameBox
  <2> DEFINE new == [outbox[n] EXCEPT !.verdict = "undone"]
  <2>1. outbox' = [outbox EXCEPT ![n] = new] /\ disk' = Put(disk, new)
    BY <1>3 DEF UndoHere
  <2>2. outbox[n] \in ItemType /\ outbox \in Seq(ItemType)
    BY <1>0 DEF BoxInv, Outbox
  <2>3. Alike(new, outbox[n])
    BY <2>2 DEF Alike, ItemType
  <2> HIDE DEF new
  <2>4. ASSUME NEW o \in DOMAIN outbox'
        PROVE o \in DOMAIN outbox /\ (outbox'[o] = outbox[o] \/ (o = n /\ outbox'[o] = new))
    BY <2>1, <2>2
  <2>5. ASSUME NEW o \in DOMAIN outbox' PROVE \E p \in DOMAIN outbox : Alike(outbox'[o], outbox[p])
    <3> SUFFICES ASSUME NEW x, x = outbox'[o] PROVE \E p \in DOMAIN outbox : Alike(x, outbox[p])
      OBVIOUS
    <3> QED BY <1>1, <2>3, <2>4
  <2>6. \A i \in disk' : i \in disk \/ i = new
    BY <2>1 DEF Put
  <2> QED BY <1>1, <2>3, <2>5, <2>6 DEF SameBox
<1>4. ASSUME TakeBatch PROVE SameBox
  <2>1. /\ DOMAIN outbox' = DOMAIN outbox /\ disk' = disk
        /\ \A j \in DOMAIN outbox : \/ outbox'[j] = outbox[j]
                                    \/ outbox'[j] = [outbox[j] EXCEPT !.attempted = TRUE]
    BY <1>0, <1>4, TakeItems DEF TakeBatch
  <2>2. ASSUME NEW i \in ItemType PROVE Alike([i EXCEPT !.attempted = TRUE], i)
    BY DEF Alike, ItemType
  <2>3. \A j \in DOMAIN outbox : outbox[j] \in ItemType
    BY <1>0 DEF BoxInv, Outbox
  <2>4. ASSUME NEW j \in DOMAIN outbox PROVE Alike(outbox'[j], outbox[j])
    <3> SUFFICES ASSUME NEW x, x = outbox'[j] PROVE Alike(x, outbox[j])
      OBVIOUS
    <3>1. x = outbox[j] \/ x = [outbox[j] EXCEPT !.attempted = TRUE]
      BY <2>1
    <3>2. outbox[j] \in ItemType
      BY <2>3
    <3> QED BY <1>1, <2>2, <3>1, <3>2, Zenon
  <2> QED BY <1>1, <2>1, <2>4 DEF SameBox
<1>5. ASSUME ForgetBatch PROVE SameBox
  BY <1>1, <1>5 DEF SameBox, ForgetBatch
<1>6. ASSUME NEW m \in net, BatchAnswered(m) \/ BatchRefused(m) PROVE SameBox
  <2>1. Dequeue /\ disk' = disk
    BY <1>6 DEF BatchAnswered, BatchRefused
  <2>2. \A j \in DOMAIN outbox' : \E n \in DOMAIN outbox : outbox'[j] = outbox[n]
    BY <1>0, <2>1, DequeueItems
  <2>3. ASSUME NEW j \in DOMAIN outbox' PROVE \E n \in DOMAIN outbox : Alike(outbox'[j], outbox[n])
    <3> SUFFICES ASSUME NEW x, x = outbox'[j] PROVE \E n \in DOMAIN outbox : Alike(x, outbox[n])
      OBVIOUS
    <3> QED BY <1>1, <2>2
  <2> QED BY <1>1, <2>1, <2>3 DEF SameBox
<1>7. ASSUME NEW b \in BOOLEAN, Reload(b) PROVE SameBox
  <2>1. \A j \in DOMAIN outbox' : outbox'[j] \in disk
    BY <1>0, <1>7, ReloadItems
  <2>2. disk' = disk
    BY <1>7 DEF Reload
  <2>3. ASSUME NEW j \in DOMAIN outbox' PROVE \E i \in disk : Alike(outbox'[j], i)
    <3> SUFFICES ASSUME NEW x, x = outbox'[j] PROVE \E i \in disk : Alike(x, i)
      OBVIOUS
    <3> QED BY <1>1, <2>1
  <2> QED BY <1>1, <2>2, <2>3 DEF SameBox
<1>8. ASSUME SignOut PROVE SameBox
  <2>1. outbox' = <<>> /\ disk' = {}
    BY <1>8 DEF SignOut
  <2> QED BY <2>1 DEF SameBox
<1> QED BY <1>2, <1>3, <1>4, <1>5, <1>6, <1>7, <1>8

\* The front of the queue, and what is kept for a retry.
LEMMA FrontAlike ==
  ASSUME PageInv
  PROVE  /\ UNCHANGED <<front, failed>> => SameFront
         /\ AdmitEarly => SameFront
         /\ FrontTimeout => SameFront
         /\ \A k \in Ticket : ReadOffline(k) => SameFront
         /\ \A m \in net : FrontAnswered(m) \/ FrontSlow(m) \/ FrontRefused(m) => SameFront
         /\ \A b \in BOOLEAN : Reload(b) => SameFront
         /\ SignOut => SameFront
<1>0. failed \in [Ticket -> Scan \cup {NULL}]
  BY DEF PageInv
<1>1. ASSUME front # NULL PROVE made[front.id] \in Ticket
  BY <1>1, FrontIs
<1>2. ASSUME front # NULL, front' \in {front, NULL}, NEW x \in {NULL, front.id},
             failed' = [failed EXCEPT ![made[front.id]] = x] \/ failed' = failed
      PROVE  SameFront
  BY <1>0, <1>1, <1>2 DEF SameFront
<1>3. UNCHANGED <<front, failed>> => SameFront
  BY DEF SameFront
<1>4. AdmitEarly => SameFront
  BY DEF SameFront, AdmitEarly
<1>5. FrontTimeout => SameFront
  BY <1>2 DEF FrontTimeout
<1>6. \A m \in net : FrontAnswered(m) \/ FrontSlow(m) \/ FrontRefused(m) => SameFront
  BY <1>2 DEF FrontAnswered, FrontSlow, FrontRefused
<1>7. (\A b \in BOOLEAN : Reload(b) => SameFront) /\ (SignOut => SameFront)
  BY DEF Reload, SignOut, SameFront
<1>8. \A k \in Ticket : ReadOffline(k) => SameFront
  BY <1>0 DEF SameFront, ReadOffline
<1> QED BY <1>3, <1>4, <1>5, <1>6, <1>7, <1>8

\* At first there are none of either kind.
LEMMA InitKinds == Init => Kinds
<1> SUFFICES ASSUME Init PROVE Kinds
  OBVIOUS
<1>1. KindOf({}, [s \in Scan |-> NULL])
  BY DEF Init, KindOf, BoxNamed, NetNamed, LogNamed, PageNamed, Truly
<1> QED BY <1>1 DEF Kinds

\* Every step keeps the kinds of scan ids apart.
LEMMA NextKinds == TypedInv /\ Kinds /\ [Next]_vars => Kinds'
<1> SUFFICES ASSUME TypedInv, Kinds, [Next]_vars PROVE Kinds'
  OBVIOUS
<1>0. PageInv /\ NetInv /\ BoxInv /\ MadeGrows /\ made \in Seq(Ticket)
  BY NextMade DEF PhoneTyped, TypedInv, PageInv
<1>1. ASSUME NEW m \in net, Serve(m) PROVE Kinds'
  <2>1. PICK off \in SUBSET Old, names \in [Scan -> Scan \cup {NULL}] : KindOf(off, names)
    BY DEF Kinds
  <2>2. KindOf(off, names)'
    BY <1>1, <2>1, ServedNamed
  <2>3. Old' = Old
    BY <1>1 DEF Serve, Old
  <2> QED BY <2>1, <2>2, <2>3 DEF Kinds
<1>2. ASSUME NEW k \in Ticket, ReadOnline(k) PROVE Kinds'
  <2>1. NewId \notin Old
    BY <1>0, <1>2, OneMore DEF ReadOnline
  <2>2. /\ net' = net \cup {Request(<<OnlineItem(NewId)>>)} /\ front'.id = NewId
        /\ UNCHANGED <<disk, outbox, failed, rows, sent, replaced>>
    BY <1>2 DEF ReadOnline, Ask, server, history
  <2>3. \A off \in SUBSET Old : \A names : KindOf(off, names) => NewId \notin off
    BY <2>1
  <2> HIDE DEF NewId
  <2> QED BY <1>0, <2>2, <2>3, KindsAsked
<1>3. ASSUME NEW k \in Ticket, NEW b \in BOOLEAN, Retry(k, b) PROVE Kinds'
  <2>1. /\ net' = net \cup {Request(<<OnlineItem(failed[k])>>)} /\ front'.id = failed[k]
        /\ UNCHANGED <<disk, outbox, failed, rows, sent, replaced>> /\ failed[k] # NULL
    BY <1>3 DEF Retry, Ask, server, history
  <2>2. \A off \in SUBSET Old : \A names : KindOf(off, names) => failed[k] \notin off
    BY <2>1 DEF KindOf, PageNamed
  <2> DEFINE id == failed[k]
  <2>3. /\ net' = net \cup {Request(<<OnlineItem(id)>>)} /\ front'.id = id
        /\ \A off \in SUBSET Old : \A names : KindOf(off, names) => id \notin off
    BY <2>1, <2>2
  <2> HIDE DEF id
  <2> QED BY <1>0, <2>1, <2>3, KindsAsked
<1>4. ASSUME NEW k \in Ticket, NEW s \in Scan \cup {NULL}, AnswerOffline(k, s), NoNews, SameFront,
             UNCHANGED <<rows, sent>>, replaced' \subseteq replaced \cup {<<NewId, s>>}
      PROVE  Kinds'
  BY <1>0, <1>4, KindsQueued DEF AnswerOffline
<1>5. ASSUME NEW k \in Ticket, ReadOffline(k) PROVE Kinds'
  <2>1. AnswerOffline(k, NULL) /\ UNCHANGED <<rows, sent, replaced, net>>
    BY <1>5 DEF ReadOffline, server
  <2>2. NoNews
    BY <2>1 DEF NoNews
  <2>3. SameFront
    BY <1>0, <1>5, FrontAlike
  <2> QED BY <1>4, <2>1, <2>2, <2>3
<1>6. CASE FrontTimeout
  <2>1. front.id \in Scan /\ made[front.id] \in Ticket
    BY <1>0, <1>6, FrontIs DEF FrontTimeout
  <2>2. NoNews
    <3>1. GiveUp(RequestsOf(front.id))
      BY <1>6 DEF FrontTimeout
    <3> QED BY <3>1 DEF NoNews, GiveUp, Muted, RequestsOf
  <2>3. SameFront
    BY <1>0, <1>6, FrontAlike
  <2>4. /\ UNCHANGED <<rows, sent>>
        /\ \/ /\ AnswerOffline(made[front.id], front.id)
              /\ replaced' = replaced \cup {<<NewId, front.id>>}
           \/ UNCHANGED <<outbox, disk, replaced>>
    BY <1>6 DEF FrontTimeout, server
  <2>5. ASSUME AnswerOffline(made[front.id], front.id), replaced' = replaced \cup {<<NewId, front.id>>}
        PROVE  Kinds'
    <3>1. UNCHANGED <<rows, sent>>
      BY <2>4
    <3>2. replaced' \subseteq replaced \cup {<<NewId, front.id>>}
      BY <2>5
    <3> QED BY <1>4, <2>1, <2>2, <2>3, <2>5, <3>1, <3>2, Zenon
  <2>6. CASE UNCHANGED <<outbox, disk, replaced>>
    <3>1. SameBox
      BY <2>6, BoxAlike
    <3>2. UNCHANGED <<rows, sent, replaced>>
      BY <2>4, <2>6
    <3> QED BY <1>0, <2>2, <2>3, <3>1, <3>2, KindsStay
  <2> QED BY <2>4, <2>5, <2>6
<1>7. ASSUME NEW w \in behind, NEW slow \in BOOLEAN, BehindUnanswered(w, slow) PROVE Kinds'
  <2>1. w.id \in Scan /\ made[w.id] \in Ticket
    BY <1>0, BehindIs
  <2>2. /\ Len(made) < MaxScans /\ made' = Append(made, made[w.id])
        /\ Queue(Item(NewId, "admitted", w.id)) /\ UNCHANGED <<rows, sent, front, failed>>
        /\ replaced' = replaced \cup {<<NewId, w.id>>}
    BY <1>7 DEF BehindUnanswered, EarlyItem, server
  <2>3. NoNews
    BY <1>7 DEF BehindUnanswered, NoNews, GiveUp, Muted, RequestsOf
  <2>4. SameFront
    BY <1>0, <2>2, FrontAlike
  <2> QED BY <1>0, <2>1, <2>2, <2>3, <2>4, KindsQueued
<1>8. CASE SendBatch
  BY <1>8, KindsSent
\* everything else draws no scan id and asks nothing
<1>9. ASSUME NoNews, SameBox, SameFront, UNCHANGED <<rows, sent, replaced>> PROVE Kinds'
  BY <1>0, <1>9, KindsStay
<1>10. ASSUME \/ AdmitEarly
              \/ \E m \in net : FrontAnswered(m) \/ FrontSlow(m) \/ FrontRefused(m)
              \/ \E w \in behind, m \in net : BehindAnswered(w, m) \/ BehindRefused(w, m)
              \/ \E n \in DOMAIN outbox : UndoHere(n)
       PROVE  SameBox /\ SameFront /\ UNCHANGED <<rows, sent, replaced>>
  <2>1. UNCHANGED <<rows, sent, replaced>>
    BY <1>10 DEF AdmitEarly, FrontAnswered, FrontSlow, FrontRefused, BehindAnswered, BehindRefused,
                 UndoHere, server, history
  <2>2. UNCHANGED <<outbox, disk>> \/ \E n \in DOMAIN outbox : UndoHere(n)
    BY <1>10 DEF AdmitEarly, FrontAnswered, FrontSlow, FrontRefused, BehindAnswered, BehindRefused
  <2>3. \/ UNCHANGED <<front, failed>> \/ AdmitEarly
        \/ \E m \in net : FrontAnswered(m) \/ FrontSlow(m) \/ FrontRefused(m)
    BY <1>10 DEF BehindAnswered, BehindRefused, UndoHere
  <2> QED BY <1>0, <2>1, <2>2, <2>3, BoxAlike, FrontAlike
<1>11. ASSUME \/ TakeBatch \/ BatchUnanswered \/ ForgetBatch \/ Listening
              \/ \E m \in net : BatchAnswered(m) \/ BatchRefused(m) \/ Lose(m)
              \/ \E k \in Ticket : CheckInElsewhere(k) \/ UndoAtServer(k) \/ CancelTicket(k)
              \/ \E asOf \in 0 .. MaxClock : ReadList(asOf)
              \/ Tick \/ UNCHANGED vars
       PROVE  SameBox /\ SameFront /\ UNCHANGED <<rows, sent, replaced>>
  <2>1. UNCHANGED <<rows, sent, replaced, front, failed>>
    BY <1>11 DEF vars, server, page, history, Listening, TakeBatch, BatchUnanswered, ForgetBatch,
         BatchAnswered, BatchRefused, AdoptList, Ping, HearUndo, HearCheckIn, Lose, CheckInElsewhere,
         UndoAtServer, CancelTicket, ReadList, Tick
  <2>2. \/ UNCHANGED <<outbox, disk>> \/ TakeBatch \/ ForgetBatch
        \/ \E m \in net : BatchAnswered(m) \/ BatchRefused(m)
    BY <1>11 DEF vars, page, Listening, BatchUnanswered,
         AdoptList, Ping, HearUndo, HearCheckIn, Lose, CheckInElsewhere,
         UndoAtServer, CancelTicket, ReadList, Tick
  <2> QED BY <1>0, <2>1, <2>2, BoxAlike, FrontAlike
<1>12. ASSUME SignOut \/ \E b \in BOOLEAN : Reload(b)
       PROVE  SameBox /\ SameFront /\ UNCHANGED <<rows, sent, replaced>>
  <2>1. UNCHANGED <<rows, sent, replaced>>
    BY <1>12 DEF SignOut, Reload, server
  <2> QED BY <1>0, <1>12, <2>1, BoxAlike, FrontAlike
<1>13. \/ \E k \in Ticket : ReadOffline(k)
       \/ FrontTimeout
       \/ \E w \in behind, slow \in BOOLEAN : BehindUnanswered(w, slow)
       \/ SameBox /\ SameFront /\ UNCHANGED <<rows, sent, replaced>>
       \/ \E m \in net : Serve(m)
       \/ \E k \in Ticket : ReadOnline(k) \/ \E b \in BOOLEAN : Retry(k, b)
       \/ SendBatch
  BY <1>10, <1>11, <1>12 DEF Next, Scanning, Syncing
<1>14. \/ \E k \in Ticket : ReadOffline(k)
       \/ FrontTimeout
       \/ \E w \in behind, slow \in BOOLEAN : BehindUnanswered(w, slow)
       \/ NoNews /\ SameBox /\ SameFront /\ UNCHANGED <<rows, sent, replaced>>
       \/ \E m \in net : Serve(m)
       \/ \E k \in Ticket : ReadOnline(k) \/ \E b \in BOOLEAN : Retry(k, b)
       \/ SendBatch
  BY <1>13, NextNews
<1> QED BY <1>1, <1>2, <1>3, <1>5, <1>6, <1>7, <1>8, <1>9, <1>14

-----------------------------------------------------------------------------
\* What a double entry rests on, as one inductive invariant.
DoubleIsReal == TypedInv /\ Kinds /\ DoubleInv

\* No offline ADMIT is listed as a double entry (offlineConflicts) on account of
\* the request it was given in the place of: another scan checked the ticket in,
\* or it was cancelled.  The other scan may be an earlier read of the same person.
THEOREM DoubleEntriesReal == Spec => []DoubleEntryIsReal
<1>1. Init => DoubleIsReal
  <2> SUFFICES ASSUME Init PROVE DoubleIsReal
    OBVIOUS
  <2>1. \A k \in Ticket : ticket[k].by = NULL
    BY DEF Init
  <2>2. NULL \notin Scan
    BY NullAssumption DEF Scan
  <2>3. \A s \in Scan : rows[s] = NULL
    BY DEF Init
  <2>4. DoubleInv
    BY <2>1, <2>2, <2>3 DEF DoubleInv, ByOurs, DoubleApart, DoubleEntry
  <2> QED BY <2>4, InitTyped, InitKinds DEF DoubleIsReal
<1>2. DoubleIsReal /\ [Next]_vars => DoubleIsReal'
  BY NextTyped, NextKinds, NextDouble DEF DoubleIsReal
<1>3. DoubleIsReal => DoubleEntryIsReal
  <2> SUFFICES ASSUME DoubleIsReal, NEW s \in Scan, DoubleEntry(s), ticket[made[s]].live
               PROVE  \E c \in CheckIn \ {s} :
                        <<s, c>> \notin replaced /\ (<<made[s], c>> \in undone \/ ticket[made[s]].by = c)
    BY DEF DoubleEntryIsReal
  <2>1. PICK off \in SUBSET Old, names \in [Scan -> Scan \cup {NULL}] : KindOf(off, names)
    BY DEF DoubleIsReal, Kinds
  <2>2. rows[s] # NULL /\ rows[s].verdict = "admitted"
    BY DEF DoubleEntry
  <2>3. rows[s].supersedes = names[s]
    <3>1. Logged(s, rows[s], off, names, sent)
      BY <2>1, <2>2 DEF KindOf, LogNamed
    <3> QED BY <2>2, <3>1, NullAssumption DEF Logged, Verdict
  <2>4. PICK c \in CheckIn \ {s, rows[s].supersedes} : <<made[s], c>> \in undone \/ ticket[made[s]].by = c
    BY DEF DoubleIsReal, DoubleInv, DoubleApart
  <2>5. <<s, c>> \notin replaced
    <3>1. Truly(replaced, off, names)
      BY <2>1 DEF KindOf
    <3> QED BY <2>3, <2>4, <3>1 DEF Truly
  <2> QED BY <2>4, <2>5
<1> QED BY <1>1, <1>2, <1>3, PTL DEF Spec

-----------------------------------------------------------------------------
(* Every ADMIT shown.                                                      *)

\* Item i admits scan s: it is of s, or replaces its request.
AdmitsOf(i, s) == i.verdict = "admitted" /\ s \in {i.id, i.supersedes}
\* Row r of the log settles scan s: a check-in, or an offline ADMIT the organizer
\* is shown where it is not one.
Settles(r, s) ==
  rows[r] # NULL /\ s \in {r, rows[r].supersedes} /\ (CheckedIn(r) \/ rows[r].verdict = "admitted")

Asked(s) == \E w \in behind : w.id = s
Queued(s) == \E n \in DOMAIN outbox : AdmitsOf(outbox[n], s)
InLog(s) == \E r \in Scan : Settles(r, s)

Acc(s) == Asked(s) \/ s \in stop \cup lost \cup cut \/ Queued(s) \/ InLog(s)
Accounted == \A s \in letIn : Acc(s)

\* What accounts for an ADMIT is what the property lists.
LEMMA AccountedIs == BoxInv /\ PageInv /\ Accounted => EveryAdmitAccounted
<1> SUFFICES ASSUME BoxInv, PageInv, Accounted, NEW s \in letIn
             PROVE  \/ \E w \in behind : w.id = s
                    \/ s \in stop \cup cut
                    \/ \E r \in StandFor(s) : \/ r \in Ids(outbox) \cup lost
                                              \/ CheckedIn(r) \/ DoubleEntry(r)
                                              \/ rows[r] # NULL /\ CheckedIn(rows[r].supersedes)
  BY DEF EveryAdmitAccounted
<1>1. Acc(s)
  BY DEF Accounted
<1>2. CASE Queued(s)
  <2>1. PICK n \in DOMAIN outbox : AdmitsOf(outbox[n], s)
    BY <1>2 DEF Queued
  <2>2. outbox[n] \in ToSet(outbox) /\ outbox[n].id \in Ids(outbox)
    BY IdsAre DEF ToSet
  <2>3. outbox[n].id \in StandFor(s)
    BY <2>1, <2>2 DEF AdmitsOf, StandFor
  <2> QED BY <2>2, <2>3
<1>3. CASE InLog(s)
  <2>1. PICK r \in Scan : Settles(r, s)
    BY <1>3 DEF InLog
  <2>2. r \in StandFor(s)
    BY <2>1 DEF Settles, StandFor
  <2>3. CheckedIn(r) \/ DoubleEntry(r) \/ (rows[r] # NULL /\ CheckedIn(rows[r].supersedes))
    BY <2>1, NullAssumption DEF Settles, DoubleEntry, CheckedIn, Scan
  <2> QED BY <2>2, <2>3
<1>4. CASE s \in lost
  BY <1>4 DEF StandFor
<1> QED BY <1>1, <1>2, <1>3, <1>4 DEF Acc, Asked

\* A row that settles a scan stays.
LEMMA SettledStays ==
  ASSUME RowsGrow
  PROVE  \A s : InLog(s) => InLog(s)'
<1> SUFFICES ASSUME NEW s, NEW r \in Scan, Settles(r, s) PROVE Settles(r, s)'
  BY DEF InLog
<1>1. rows'[r] = rows[r]
  BY DEF RowsGrow, Settles
<1> QED BY <1>1 DEF Settles, CheckedIn

\* Each way to account for an ADMIT lasts, or leads to another.
Lasts ==
  /\ stop \subseteq stop' /\ lost \subseteq lost' /\ cut \subseteq cut'
  /\ \A s : Asked(s) /\ s \in letIn' => Acc(s)'
  /\ \A s : Queued(s) /\ s \in letIn' => Acc(s)'
  /\ \A s \in letIn' : s \in letIn \/ Acc(s)'

\* So every ADMIT stays accounted for.
LEMMA LastsAccounted ==
  ASSUME RowsGrow, Accounted, Lasts
  PROVE  Accounted'
<1> SUFFICES ASSUME NEW s \in letIn' PROVE Acc(s)'
  BY DEF Accounted
<1>1. CASE s \notin letIn
  BY <1>1 DEF Lasts
<1>2. CASE s \in letIn
  <2>1. Asked(s) \/ s \in stop \cup lost \cup cut \/ Queued(s) \/ InLog(s)
    BY <1>2 DEF Accounted, Acc
  <2>2. CASE s \in stop \cup lost \cup cut
    BY <2>2 DEF Lasts, Acc
  <2>3. CASE InLog(s)
    BY <2>3, SettledStays DEF Acc
  <2> QED BY <2>1, <2>2, <2>3 DEF Lasts
<1> QED BY <1>1, <1>2

\* What was checked in is settled.
LEMMA CheckedInSettles ==
  ASSUME NEW s \in Scan, CheckedIn(s)
  PROVE  InLog(s)
BY DEF CheckedIn, InLog, Settles

\* The online answer ADMIT is the check-in of its scan.
LEMMA AnsweredIn ==
  ASSUME NetInv, NEW s, NEW m \in RequestsOf(s), Complete(m), m.answer.result = "admitted"
  PROVE  CheckedIn(s)
<1>1. m \in net /\ ~IsSync(m) /\ m.items[1].id = s
  BY DEF RequestsOf
<1>2. RequestIs(m.items, m.done, m.answer)
  BY <1>1 DEF NetInv, RequestOK
<1>3. m.items[1].verdict = NULL
  BY <1>1 DEF IsSync
<1>4. Len(m.items) = 1 /\ m.done = 1
  BY <1>2, <1>3 DEF RequestIs, Complete
<1> QED BY <1>1, <1>2, <1>3, <1>4 DEF RequestIs

\* A batch that was answered is in the log, with what the outbox says of it.
LEMMA AnsweredSettles ==
  ASSUME TypedInv, Heard, Kinds, NEW m \in net, BatchAnswered(m), NEW n \in DOMAIN outbox,
         outbox[n].id \in Ids(syncing.batch), outbox[n].verdict = "admitted"
  PROVE  \A s \in {outbox[n].id, outbox[n].supersedes} : Settles(outbox[n].id, s)
<1>0. NetInv /\ BoxInv
  BY DEF TypedInv, PhoneTyped
<1>1. PICK off \in SUBSET Old, names \in [Scan -> Scan \cup {NULL}] : KindOf(off, names)
  BY DEF Kinds
<1> DEFINE i == outbox[n]
<1>2. i.id \in Old /\ i \in ItemType /\ AsSent(i, sent) /\ Named(i, off, names)
  BY <1>0, <1>1 DEF BoxInv, Outbox, Keeps, KindOf, BoxNamed
<1>3. m.items = syncing.batch /\ Complete(m)
  BY DEF Heard, BatchAnswered, SyncRequest
<1>4. PICK j \in DOMAIN syncing.batch : syncing.batch[j].id = i.id
  BY IdsAre
<1>5. m \in RequestType /\ RequestIs(m.items, m.done, m.answer)
  BY <1>0 DEF NetInv, RequestOK
<1>6. j \in 1 .. m.done
  BY <1>3, <1>4, <1>5 DEF RequestType, Complete
<1>7. rows[i.id] # NULL
  BY <1>3, <1>4, <1>5, <1>6 DEF RequestIs
<1>8. i.id \in Scan
  BY <1>2 DEF ItemType
<1> HIDE DEF i
<1>9. Logged(i.id, rows[i.id], off, names, sent)
  BY <1>1, <1>7, <1>8 DEF KindOf, LogNamed
<1>10. rows[i.id].verdict # NULL
  BY <1>2, <1>9 DEF Logged, Named
<1>11. rows[i.id].supersedes = i.supersedes /\ <<i.id, rows[i.id].verdict>> \in sent
  BY <1>2, <1>9, <1>10 DEF Logged, Named
<1>12. rows[i.id].verdict = i.verdict
  BY <1>2, <1>11 DEF AsSent
<1>13. i.verdict = "admitted"
  BY DEF i
<1> HIDE DEF KindOf
<1>14. \A s \in {i.id, i.supersedes} : Settles(i.id, s)
  BY <1>7, <1>11, <1>12, <1>13 DEF Settles
<1> QED BY <1>14 DEF i

QueueKept == \A s : Queued(s) => Queued(s)'

\* Nothing to account for anew, and nothing of what accounts for it is gone.
LEMMA SteadyLasts ==
  ASSUME stop \subseteq stop', lost \subseteq lost', cut \subseteq cut', behind \subseteq behind', QueueKept,
         letIn' \subseteq letIn
  PROVE  Lasts
BY DEF Lasts, QueueKept, Acc, Asked

\* Queueing an item drops none.
LEMMA AppendKept ==
  ASSUME BoxInv, NEW item, outbox' = Append(outbox, item)
  PROVE  QueueKept /\ \A s : AdmitsOf(item, s) => Queued(s)'
<1>1. outbox \in Seq(ItemType)
  BY DEF BoxInv, Outbox
<1>2. /\ \A n \in DOMAIN outbox : n \in DOMAIN outbox' /\ outbox'[n] = outbox[n]
      /\ Len(outbox) + 1 \in DOMAIN outbox' /\ outbox'[Len(outbox) + 1] = item
  BY <1>1
<1>3. QueueKept
  BY <1>2 DEF QueueKept, Queued
<1> QED BY <1>2, <1>3 DEF Queued

\* Neither does marking the oldest as sent.
LEMMA TakeKept ==
  ASSUME BoxInv, TakeBatch
  PROVE  QueueKept
<1>1. /\ DOMAIN outbox' = DOMAIN outbox
      /\ \A j \in DOMAIN outbox : \/ outbox'[j] = outbox[j]
                                  \/ outbox'[j] = [outbox[j] EXCEPT !.attempted = TRUE]
  BY TakeItems
<1>2. ASSUME NEW i \in ItemType, NEW s, AdmitsOf(i, s) PROVE AdmitsOf([i EXCEPT !.attempted = TRUE], s)
  BY <1>2 DEF AdmitsOf, ItemType
<1>3. \A j \in DOMAIN outbox : outbox[j] \in ItemType
  BY DEF BoxInv, Outbox
<1> SUFFICES ASSUME NEW s, NEW j \in DOMAIN outbox, AdmitsOf(outbox[j], s), NEW x, x = outbox'[j]
             PROVE  AdmitsOf(x, s)
  BY <1>1 DEF QueueKept, Queued
<1>4. x = outbox[j] \/ x = [outbox[j] EXCEPT !.attempted = TRUE]
  BY <1>1
<1>5. outbox[j] \in ItemType
  BY <1>3
<1> QED BY <1>2, <1>4, <1>5, Zenon

\* What is loaded again is what was in the outbox, and more.
LEMMA ReloadKept ==
  ASSUME TypedInv, Kinds, NEW b \in BOOLEAN, Reload(b)
  PROVE  QueueKept
<1>0. PageInv /\ BoxInv
  BY DEF TypedInv, PhoneTyped
<1>1. PICK off \in SUBSET Old, names \in [Scan -> Scan \cup {NULL}] : KindOf(off, names)
  BY DEF Kinds
<1> SUFFICES ASSUME NEW s, NEW n \in DOMAIN outbox, AdmitsOf(outbox[n], s)
             PROVE  Queued(s)'
  BY DEF QueueKept, Queued
<1>2. outbox[n].id \in DiskIds
  <2>1. outbox[n].id \in Ids(outbox)
    BY IdsAre
  <2> QED BY <1>0, <2>1 DEF BoxInv, SameScans
<1>3. PICK i \in disk : i.id = outbox[n].id
  BY <1>2 DEF DiskIds
<1>4. i.verdict = outbox[n].verdict
  BY <1>0, <1>3 DEF BoxInv, Disk
<1>5. Named(outbox[n], off, names) /\ Named(i, off, names)
  BY <1>1 DEF KindOf, BoxNamed
<1>6. AdmitsOf(i, s)
  BY <1>3, <1>4, <1>5 DEF AdmitsOf, Named
<1>7. PICK j \in DOMAIN outbox' : outbox'[j] = i
  BY <1>0, ReloadItems
<1> QED BY <1>6, <1>7 DEF Queued

\* An item that leaves the outbox of the page is of the batch.
LEMMA DequeueKept ==
  ASSUME BoxInv, Dequeue, NEW s, Queued(s)
  PROVE  \/ Queued(s)'
         \/ \E n \in DOMAIN outbox : AdmitsOf(outbox[n], s) /\ outbox[n].id \in Ids(syncing.batch)
<1>1. PICK n \in DOMAIN outbox : AdmitsOf(outbox[n], s)
  BY DEF Queued
<1>2. CASE outbox[n].id \notin Ids(syncing.batch)
  <2>1. PICK j \in DOMAIN outbox' : outbox'[j] = outbox[n]
    BY <1>2, DequeueItems
  <2> QED BY <1>1, <2>1 DEF Queued
<1> QED BY <1>1, <1>2

\* In every step.
LEMMA NextLasts == TypedInv /\ Heard /\ Kinds /\ RowsGrow /\ [Next]_vars => Lasts
<1> SUFFICES ASSUME TypedInv, Heard, Kinds, RowsGrow, [Next]_vars PROVE Lasts
  OBVIOUS
<1>0. PageInv /\ ServerInv /\ NetInv /\ BoxInv
  BY DEF PhoneTyped, TypedInv
<1>q. outbox' = outbox => QueueKept
  BY DEF QueueKept, Queued
<1>1. ASSUME NEW k \in Ticket, NEW s \in Scan \cup {NULL}, AnswerOffline(k, s),
      UNCHANGED <<behind, stop, lost, cut>>
      PROVE  Lasts
  <2> DEFINE admit == Judge(k) = "admitted"
             item == Item(NewId, IF admit THEN "admitted" ELSE "refused", s)
  <2> SUFFICES ASSUME NEW id, id = NewId PROVE Lasts
    OBVIOUS
  <2>1. outbox' = Append(outbox, item)
    BY <1>1 DEF AnswerOffline, Queue
  <2>2. letIn' = (IF admit THEN letIn \cup {id} ELSE letIn)
    BY <1>1 DEF AnswerOffline
  <2>3. admit => AdmitsOf(item, id)
    BY DEF AdmitsOf, Item
  <2> HIDE DEF item, admit, NewId
  <2>4. QueueKept /\ (AdmitsOf(item, id) => Queued(id)')
    BY <1>0, <2>1, AppendKept
  <2>5. \A x \in letIn' : x \in letIn \/ Queued(x)'
    BY <2>2, <2>3, <2>4
  <2> QED BY <1>1, <2>4, <2>5 DEF Lasts, QueueKept, Acc, Asked
<1>2. ASSUME NEW k \in Ticket, ReadOffline(k) PROVE Lasts
  BY <1>1, <1>2 DEF ReadOffline
<1>3. CASE FrontTimeout
  <2>1. front.id \in Scan /\ made[front.id] \in Ticket
    BY <1>0, <1>3, FrontIs DEF FrontTimeout
  <2>2. /\ UNCHANGED <<behind, stop, lost, cut>>
        /\ AnswerOffline(made[front.id], front.id) \/ UNCHANGED <<outbox, letIn>>
    BY <1>3 DEF FrontTimeout
  <2> QED BY <1>1, <1>q, <2>1, <2>2, SteadyLasts
<1>4. CASE AdmitEarly
  <2>1. /\ letIn' = letIn \cup {front.id} /\ behind' = behind \cup {front}
        /\ UNCHANGED <<outbox, stop, lost, cut>>
    BY <1>4 DEF AdmitEarly
  <2>2. QueueKept
    BY <1>q, <2>1
  <2>3. \A s : Asked(s) \/ s = front.id => Asked(s)'
    BY <2>1 DEF Asked
  <2> QED BY <2>1, <2>2, <2>3 DEF Lasts, QueueKept, Acc
<1>5. ASSUME NEW m \in net, FrontAnswered(m) PROVE Lasts
  <2>1. /\ UNCHANGED <<behind, outbox, stop, lost, cut>> /\ rows' = rows
        /\ letIn' = IF m.answer.result = "admitted" THEN letIn \cup {front.id} ELSE letIn
        /\ front # NULL /\ m \in RequestsOf(front.id) /\ Complete(m)
    BY <1>5 DEF FrontAnswered, server
  <2>2. QueueKept
    BY <1>q, <2>1
  <2>3. front.id \in Scan
    BY <1>0, <2>1, FrontIs
  <2>4. m.answer.result = "admitted" => InLog(front.id)
    <3>1. m.answer.result = "admitted" => CheckedIn(front.id)
      BY <1>0, <2>1, AnsweredIn
    <3> QED BY <2>3, <3>1, CheckedInSettles
  <2>5. \A s \in letIn' : s \in letIn \/ InLog(s)'
    BY <2>1, <2>4, SettledStays
  <2> QED BY <2>1, <2>2, <2>5 DEF Lasts, QueueKept, Acc, Asked
<1>6. ASSUME NEW w \in behind, behind' = behind \ {w}, Acc(w.id)', letIn' = letIn,
             stop \subseteq stop', lost \subseteq lost', cut \subseteq cut', QueueKept
      PROVE  Lasts
  <2>1. \A s : Asked(s) => Asked(s)' \/ s = w.id
    BY <1>6 DEF Asked
  <2> QED BY <1>6, <2>1 DEF Lasts, QueueKept, Acc
<1>7. ASSUME NEW w \in behind, NEW m \in net, BehindAnswered(w, m) PROVE Lasts
  <2>1. /\ UNCHANGED <<outbox, lost, cut, letIn>> /\ behind' = behind \ {w}
        /\ m \in RequestsOf(w.id) /\ Complete(m)
        /\ IF m.answer.result = "admitted" THEN stop' = stop ELSE stop' = stop \cup {w.id}
    BY <1>7 DEF BehindAnswered
  <2>2. w.id \in Scan
    BY <1>0, BehindIs
  <2>3. m.answer.result = "admitted" => InLog(w.id)'
    <3>1. m.answer.result = "admitted" => CheckedIn(w.id)
      BY <1>0, <2>1, AnsweredIn
    <3>2. m.answer.result = "admitted" => InLog(w.id)
      BY <2>2, <3>1, CheckedInSettles
    <3> QED BY <3>2, SettledStays
  <2>4. Acc(w.id)'
    BY <2>1, <2>3 DEF Acc
  <2> QED BY <1>6, <1>q, <2>1, <2>4
<1>8. ASSUME NEW w \in behind, NEW m \in net, BehindRefused(w, m) PROVE Lasts
  <2>1. UNCHANGED <<outbox, stop, cut, letIn>> /\ behind' = behind \ {w} /\ lost' = lost \cup {w.id}
    BY <1>8 DEF BehindRefused
  <2>2. Acc(w.id)'
    BY <2>1 DEF Acc
  <2> QED BY <1>6, <1>q, <2>1, <2>2
<1>9. ASSUME NEW w \in behind, NEW slow \in BOOLEAN, BehindUnanswered(w, slow) PROVE Lasts
  <2> DEFINE item == EarlyItem(w.id)
  <2>1. UNCHANGED <<stop, lost, cut, letIn>> /\ behind' = behind \ {w} /\ outbox' = Append(outbox, item)
    BY <1>9 DEF BehindUnanswered, history, Queue
  <2>2. AdmitsOf(item, w.id)
    BY DEF AdmitsOf, EarlyItem, Item
  <2> HIDE DEF item
  <2>3. QueueKept /\ Queued(w.id)'
    <3>1. QueueKept /\ \A x : AdmitsOf(item, x) => Queued(x)'
      BY <1>0, <2>1, AppendKept
    <3> QED BY <2>2, <3>1
  <2>4. Acc(w.id)'
    BY <2>3 DEF Acc
  <2> QED BY <1>6, <2>1, <2>3, <2>4
<1>10. ASSUME NEW n \in DOMAIN outbox, UndoHere(n) PROVE Lasts
  <2> DEFINE new == [outbox[n] EXCEPT !.verdict = "undone"]
  <2>1. /\ outbox' = [outbox EXCEPT ![n] = new] /\ UNCHANGED <<behind, stop, lost, cut>>
        /\ letIn' = letIn \ {outbox[n].id, outbox[n].supersedes}
    BY <1>10 DEF UndoHere
  <2>2. outbox \in Seq(ItemType)
    BY <1>0 DEF BoxInv, Outbox
  <2> HIDE DEF new
  <2>3. \A o \in DOMAIN outbox : o # n => o \in DOMAIN outbox' /\ outbox'[o] = outbox[o]
    BY <2>1, <2>2
  <2>4. ASSUME NEW s \in letIn', Queued(s) PROVE Queued(s)'
    <3>1. PICK o \in DOMAIN outbox : AdmitsOf(outbox[o], s)
      BY <2>4 DEF Queued
    <3>2. o # n
      BY <2>1, <3>1 DEF AdmitsOf
    <3> QED BY <2>3, <3>1, <3>2 DEF Queued
  <2> QED BY <2>1, <2>4 DEF Lasts, Acc, Asked
<1>11. ASSUME NEW m \in net, BatchAnswered(m) PROVE Lasts
  <2>1. Dequeue /\ UNCHANGED <<behind, stop, lost, cut, letIn>> /\ rows' = rows
    BY <1>11 DEF BatchAnswered, server
  <2>2. ASSUME NEW s, Queued(s) PROVE Acc(s)'
    <3>1. CASE Queued(s)'
      BY <3>1 DEF Acc
    <3>2. ASSUME NEW n \in DOMAIN outbox, AdmitsOf(outbox[n], s), outbox[n].id \in Ids(syncing.batch)
          PROVE  Acc(s)'
      <4>1. Settles(outbox[n].id, s)
        BY <1>11, <3>2, AnsweredSettles DEF AdmitsOf
      <4>2. outbox[n].id \in Scan
        BY <1>0 DEF BoxInv, Outbox, Keeps, ItemType
      <4>3. InLog(s)
        BY <4>1, <4>2 DEF InLog
      <4> QED BY <4>3, SettledStays DEF Acc
    <3> QED BY <1>0, <2>1, <2>2, <3>1, <3>2, DequeueKept
  <2> QED BY <2>1, <2>2 DEF Lasts, Acc, Asked
<1>12. ASSUME NEW m \in net, BatchRefused(m) PROVE Lasts
  <2>1. /\ Dequeue /\ UNCHANGED <<behind, stop, cut, letIn>> /\ lost' = lost \cup GivenUp(syncing.batch)
        /\ syncing # NULL /\ syncing.step # "removing"
    BY <1>12 DEF BatchRefused, Sending
  <2>2. ASSUME NEW s \in letIn', Queued(s) PROVE Acc(s)'
    <3>1. CASE Queued(s)'
      BY <3>1 DEF Acc
    <3>2. ASSUME NEW n \in DOMAIN outbox, AdmitsOf(outbox[n], s), outbox[n].id \in Ids(syncing.batch)
          PROVE  Acc(s)'
      <4>1. outbox[n] \in ToSet(syncing.batch)
        BY <1>0, <2>1, <3>2, BatchItems
      <4>2. s # NULL
        BY <1>0, <2>1, <2>2, NullAssumption DEF PageInv, Old
      <4>3. s \in GivenUp(syncing.batch)
        BY <3>2, <4>1, <4>2 DEF AdmitsOf, GivenUp
      <4> QED BY <2>1, <4>3 DEF Acc
    <3> QED BY <1>0, <2>1, <2>2, <3>1, <3>2, DequeueKept
  <2> QED BY <2>1, <2>2 DEF Lasts, Acc, Asked
<1>13. ASSUME NEW b \in BOOLEAN, Reload(b) PROVE Lasts
  <2>1. UNCHANGED <<stop, lost, letIn>> /\ cut' = cut \cup {w.id : w \in behind}
    BY <1>13 DEF Reload
  <2>2. QueueKept
    BY <1>13, ReloadKept
  <2> QED BY <2>1, <2>2 DEF Lasts, QueueKept, Acc, Asked
<1>14. CASE SignOut
  <2>1. /\ UNCHANGED <<stop, letIn>> /\ lost' = lost \cup GivenUp(outbox)
        /\ cut' = cut \cup {w.id : w \in behind}
    BY <1>14 DEF SignOut
  <2>2. ASSUME NEW s \in letIn, Queued(s) PROVE s \in lost'
    <3>1. PICK n \in DOMAIN outbox : AdmitsOf(outbox[n], s)
      BY <2>2 DEF Queued
    <3>2. outbox[n] \in ToSet(outbox)
      BY DEF ToSet
    <3>3. s # NULL
      BY <1>0, <2>2, NullAssumption DEF PageInv, Old
    <3> QED BY <2>1, <3>1, <3>2, <3>3, IdsAre DEF AdmitsOf, GivenUp
  <2> QED BY <2>1, <2>2 DEF Lasts, Acc, Asked
<1>15. CASE TakeBatch
  <2>1. UNCHANGED <<behind, letIn, stop, lost, cut>>
    BY <1>15 DEF TakeBatch, history
  <2> QED BY <1>0, <1>15, <2>1, TakeKept, SteadyLasts
<1>16. CASE UNCHANGED <<outbox, behind, letIn, stop, lost, cut>>
  BY <1>16, <1>q, SteadyLasts
<1>17. \/ UNCHANGED <<outbox, behind, letIn, stop, lost, cut>>
       \/ \E k \in Ticket : ReadOffline(k)
       \/ FrontTimeout \/ AdmitEarly
       \/ \E m \in net : FrontAnswered(m)
       \/ \E w \in behind : \/ \E m \in net : BehindAnswered(w, m) \/ BehindRefused(w, m)
                            \/ \E slow \in BOOLEAN : BehindUnanswered(w, slow)
       \/ \E n \in DOMAIN outbox : UndoHere(n)
       \/ TakeBatch
       \/ \E m \in net : BatchAnswered(m) \/ BatchRefused(m)
       \/ \E b \in BOOLEAN : Reload(b)
       \/ SignOut
  BY ZenonT(30) DEF Next, Scanning, Syncing, Listening, vars, page, history, ReadOnline, Ask, Retry,
         FrontSlow, FrontRefused, SendBatch, BatchUnanswered, ForgetBatch,
         AdoptList, Ping, HearUndo, HearCheckIn, Serve, Lose, CheckInElsewhere, UndoAtServer,
         CancelTicket, ReadList, Tick
<1> QED BY <1>2, <1>3, <1>4, <1>5, <1>7, <1>8, <1>9, <1>10, <1>11, <1>12, <1>13, <1>14, <1>15, <1>16, <1>17

-----------------------------------------------------------------------------
AccountInv == TypedInv /\ Heard /\ Kinds /\ Accounted

\* No ADMIT a gate has shown is forgotten, whatever is lost, repeated or refused:
\* it is waited for, queued or in the log, or somebody was told (settleEarly,
\* queueEarlyAdmit, sendOutbox, onSignedOut) - but for the early ones whose page
\* was closed, reloaded or signed out before their answer (cut).
THEOREM AdmitsAccounted == Spec => []EveryAdmitAccounted
<1>1. Init => AccountInv
  <2> SUFFICES ASSUME Init PROVE AccountInv
    OBVIOUS
  <2>1. Heard /\ Accounted
    BY DEF Init, Heard, Accounted
  <2>3. Kinds
    BY InitKinds
  <2> QED BY <2>1, <2>3, InitTyped DEF AccountInv
<1>2. AccountInv /\ [Next]_vars => AccountInv'
  <2> SUFFICES ASSUME AccountInv, [Next]_vars PROVE AccountInv'
    OBVIOUS
  <2>1. RowsGrow
    BY NextRows DEF AccountInv, TypedInv, PhoneTyped
  <2>2. Lasts
    BY <2>1, NextLasts DEF AccountInv
  <2> QED BY <2>1, <2>2, LastsAccounted, NextTyped, NextHeard, NextKinds DEF AccountInv
<1>3. AccountInv => EveryAdmitAccounted
  BY AccountedIs DEF AccountInv, TypedInv, PhoneTyped
<1> QED BY <1>1, <1>2, <1>3, PTL DEF Spec

-----------------------------------------------------------------------------
(* What the log says of the tickets.                                       *)

\* No check-in of ticket k was taken back at the server.
NoUndo(k) == \A c \in CheckIn : <<k, c>> \notin undone
InOrGone(k) == ticket[k].by # NULL \/ ~ticket[k].live

\* A row judged by the ticket is true of it, as long as nothing is taken back;
\* what is only logged was no admission for the gate.
Row(r) ==
  /\ rows[r].result \in {"admitted", "already_in"} /\ NoUndo(made[r]) => ticket[made[r]].by # NULL
  /\ rows[r].result = "cancelled" => ~ticket[made[r]].live
  /\ rows[r].result = "turned_away" => rows[r].verdict \notin {NULL, "admitted"}
LogTrue == \A r \in Scan : rows[r] # NULL => Row(r)

\* An answer still waited for says what the log does.
AnswerTrue(m) ==
  m.items[1].verdict = NULL /\ m.done = 1 /\ m.answer.result \in {"admitted", "already_in"} =>
    rows[m.items[1].id].result = m.answer.result
AnswersTrue == \A m \in net : AnswerTrue(m)

\* Who is in stays in.
LEMMA InStays ==
  ASSUME TypedInv, [Next]_vars, NEW k \in Ticket, NoUndo(k)'
  PROVE  /\ NoUndo(k)
         /\ ticket[k].by # NULL => ticket'[k].by # NULL
         /\ InOrGone(k) => InOrGone(k)'
<1>1. /\ undone \subseteq undone'
      /\ ticket[k].by \in CheckIn =>
           ticket'[k].by = ticket[k].by \/ <<k, ticket[k].by>> \in undone'
      /\ ~ticket[k].live => ~ticket'[k].live
  BY NextTickets
<1>2. ticket[k].by \in CheckIn \cup {NULL}
  BY DEF TypedInv, PhoneTyped, ServerInv
<1>3. \A c \in CheckIn : <<k, c>> \notin undone'
  BY DEF NoUndo
<1>4. NoUndo(k)
  BY <1>1, <1>3 DEF NoUndo
<1>5. ticket[k].by # NULL => ticket'[k].by # NULL
  BY <1>1, <1>2, <1>3
<1> QED BY <1>1, <1>4, <1>5 DEF InOrGone

\* The log stays true of the tickets.
LEMMA NextLogTrue == TypedInv /\ LogTrue /\ [Next]_vars => LogTrue'
<1> SUFFICES ASSUME TypedInv, LogTrue, [Next]_vars, NEW r \in Scan, rows'[r] # NULL
             PROVE  Row(r)'
  BY DEF LogTrue
<1>0. PageInv /\ ServerInv /\ NetInv /\ MadeGrows /\ RowsGrow
  BY NextMade, NextRows DEF PhoneTyped, TypedInv
<1>1. CASE rows[r] # NULL
  <2>1. rows'[r] = rows[r] /\ r \in Old
    BY <1>0, <1>1 DEF RowsGrow, ServerInv
  <2>2. made'[r] = made[r] /\ made[r] \in Ticket
    BY <1>0, <2>1, LogTickets DEF MadeGrows
  <2>3. Row(r)
    BY <1>1 DEF LogTrue
  <2>4. ~ticket[made[r]].live => ~ticket'[made[r]].live
    BY <2>2, NextTickets
  <2> DEFINE k == made[r]
  <2>5. NoUndo(k)' => NoUndo(made[r]) /\ (ticket[made[r]].by # NULL => ticket'[made[r]].by # NULL)
    <3> SUFFICES ASSUME NEW t \in Ticket, t = made[r], t = made'[r], NoUndo(t)'
                 PROVE  NoUndo(made[r]) /\ (ticket[made[r]].by # NULL => ticket'[made[r]].by # NULL)
      BY <2>2
    <3>1. NoUndo(t) /\ (ticket[t].by # NULL => ticket'[t].by # NULL)
      BY InStays
    <3> QED BY <3>1
  <2> QED BY <2>1, <2>2, <2>3, <2>4, <2>5 DEF Row
<1>2. CASE rows[r] = NULL
  <2>1. PICK m \in net : Serve(m)
    BY <1>2, NextTickets
  <2> DEFINE i == Due(m)
  <2>2. i.id \in Old /\ i.id \in Scan /\ made[i.id] \in Ticket /\ made' = made
    BY <1>0, <2>1, DueIs DEF Serve
  <2>3. r = i.id
    BY <1>0, <1>2, <2>1, ServedItem
  <2>4. /\ rows'[i.id].verdict = i.verdict /\ rows'[i.id].result = Fresh(i)
        /\ rows'[i.id].result \in {"admitted", "already_in"} => ticket'[made[i.id]].by # NULL
    BY <1>0, <1>2, <2>1, <2>3, ServedItem
  <2>5. ticket'[made[i.id]].live = ticket[made[i.id]].live
    BY <1>0, <2>1, <2>2, ServedItem
  <2>6. Fresh(i) = "cancelled" => ~ticket[made[i.id]].live
    BY DEF Fresh
  <2>7. Fresh(i) = "turned_away" => i.verdict \notin {NULL, "admitted"}
    BY DEF Fresh
  <2> HIDE DEF i
  <2> QED BY <2>2, <2>3, <2>4, <2>5, <2>6, <2>7 DEF Row
<1> QED BY <1>1, <1>2

\* An answer on its way stays true of the log.
LEMMA NextAnswersTrue == TypedInv /\ AnswersTrue /\ [Next]_vars => AnswersTrue'
<1> SUFFICES ASSUME TypedInv, AnswersTrue, [Next]_vars PROVE AnswersTrue'
  OBVIOUS
<1>0. PageInv /\ ServerInv /\ NetInv /\ RowsGrow /\ MadeGrows /\ Old \subseteq Scan
  BY NextMade, NextRows, OldGrows DEF PhoneTyped, TypedInv, PageInv
<1>1. ASSUME NEW m \in net PROVE AnswerTrue(m)'
  <2> SUFFICES ASSUME m.items[1].verdict = NULL, m.done = 1,
                      m.answer.result \in {"admitted", "already_in"}
               PROVE  rows'[m.items[1].id].result = m.answer.result
    BY DEF AnswerTrue
  <2>1. RequestIs(m.items, m.done, m.answer)
    BY <1>0 DEF NetInv, RequestOK
  <2>2. rows[m.items[1].id] # NULL
    BY <2>1 DEF RequestIs
  <2>3. 1 \in DOMAIN m.items
    <3>1. m.items \in Seq(ItemType) /\ m.items # <<>>
      BY <1>0 DEF NetInv, RequestOK, RequestIs, RequestType
    <3> QED BY <3>1
  <2>4. m.items[1].id \in Scan
    BY <1>0, <2>1, <2>3 DEF RequestIs
  <2>5. rows'[m.items[1].id] = rows[m.items[1].id]
    BY <1>0, <2>2, <2>4 DEF RowsGrow
  <2> QED BY <2>5 DEF AnswersTrue, AnswerTrue
<1>2. CASE NoNews
  <2> SUFFICES ASSUME NEW m \in net' PROVE AnswerTrue(m)'
    BY DEF AnswersTrue
  <2>1. ASSUME NEW q \in net, m = Muted(q) PROVE AnswerTrue(m)'
    <3>1. q \in RequestType
      BY <1>0 DEF NetInv, RequestOK
    <3>2. m.items = q.items /\ m.done = q.done /\ m.answer = q.answer
      BY <2>1, <3>1 DEF Muted, RequestType
    <3>3. AnswerTrue(q)'
      BY <1>1
    <3> QED BY <3>2, <3>3 DEF AnswerTrue
  <2> QED BY <1>1, <1>2, <2>1 DEF NoNews
<1>3. ASSUME NEW m \in net, Serve(m) PROVE AnswersTrue'
  <2>1. PICK a \in AnswerType :
          /\ a.result \in {"admitted", "already_in"} => rows'[Due(m).id].result = a.result
          /\ net' \subseteq (net \ {m}) \cup {Served(m, a)}
    BY <1>0, <1>3, ServedItem
  <2> DEFINE next == Served(m, a)
  <2>2. next.items = m.items /\ next.done = m.done + 1 /\ next.answer = a
    BY DEF Served
  <2>3. m.done \in Nat
    BY <1>0 DEF NetInv, RequestOK, RequestType
  <2> HIDE DEF next
  <2>4. AnswerTrue(next)'
    <3> SUFFICES ASSUME m.done + 1 = 1, a.result \in {"admitted", "already_in"}
                 PROVE  rows'[m.items[1].id].result = a.result
      BY <2>2 DEF AnswerTrue
    <3>1. Due(m) = m.items[1]
      BY DEF Due
    <3> QED BY <2>1, <3>1
  <2>5. \A q \in net' : q \in net \/ q = next
    BY <2>1 DEF next
  <2> QED BY <1>1, <2>4, <2>5 DEF AnswersTrue
<1>4. ASSUME NEW items, net' = net \cup {Request(items)} PROVE AnswersTrue'
  <2>1. Request(items).done = 0
    BY DEF Request
  <2>2. AnswerTrue(Request(items))'
    BY <2>1 DEF AnswerTrue
  <2> QED BY <1>1, <1>4, <2>2 DEF AnswersTrue
<1>5. ASSUME NEW k \in Ticket, ReadOnline(k) \/ \E b \in BOOLEAN : Retry(k, b) PROVE AnswersTrue'
  <2>1. \E items : net' = net \cup {Request(items)}
    BY <1>5 DEF ReadOnline, Retry, Ask
  <2> QED BY <1>4, <2>1
<1>6. ASSUME SendBatch PROVE AnswersTrue'
  BY <1>4, <1>6 DEF SendBatch
<1> QED BY <1>2, <1>3, <1>5, <1>6, NextNews

-----------------------------------------------------------------------------
(* What was said of a scan.                                                *)

\* Verdict v is said of scan s by an outbox, by a request, by the log.
BoxSays(s, v) ==
  \/ \E n \in DOMAIN outbox : outbox[n].id = s /\ outbox[n].verdict = v
  \/ \E i \in disk : i.id = s /\ i.verdict = v
NetSays(s, v) == \E m \in net : \E j \in DOMAIN m.items : m.items[j].id = s /\ m.items[j].verdict = v
LogSays(s, v) == rows[s] # NULL /\ rows[s].verdict = v
Said(s, v) == BoxSays(s, v) \/ NetSays(s, v) \/ LogSays(s, v)

\* An ADMIT the page remembers is not said to be anything else.
MineAdmits == \A s \in mine : \A v : Said(s, v) => v \in {NULL, "admitted"}

\* Without an undo here, the outboxes say nothing else of a scan.
LEMMA BoxSaysNoMore ==
  ASSUME TypedInv, [Next]_vars, NEW s \in Old,
         \A n \in DOMAIN outbox : UndoHere(n) => outbox[n].id # s,
         NEW v, BoxSays(s, v)'
  PROVE  BoxSays(s, v)
<1>0. PageInv /\ BoxInv
  BY DEF TypedInv, PhoneTyped
<1>1. ASSUME UNCHANGED <<outbox, disk>> PROVE BoxSays(s, v)
  BY <1>1 DEF BoxSays
<1>2. ASSUME NEW item, Queue(item), item.id \notin Old PROVE BoxSays(s, v)
  <2>1. disk' \subseteq disk \cup {item}
    BY <1>2 DEF Queue, Put
  <2>2. \A n \in DOMAIN outbox' : outbox'[n] = item \/ (n \in DOMAIN outbox /\ outbox'[n] = outbox[n])
    <3>1. outbox \in Seq(ItemType) /\ outbox' = Append(outbox, item)
      BY <1>0, <1>2 DEF BoxInv, Outbox, Queue
    <3> QED BY <3>1
  <2> QED BY <1>2, <2>1, <2>2 DEF BoxSays
<1>3. ASSUME NEW k, NEW r, AnswerOffline(k, r) PROVE BoxSays(s, v)
  <2> DEFINE item == Item(NewId, IF Judge(k) = "admitted" THEN "admitted" ELSE "refused", r)
  <2>1. Queue(item)
    BY <1>3 DEF AnswerOffline
  <2>2. item.id = NewId
    BY DEF Item
  <2>3. NewId \notin Old
    BY <1>0 DEF PageInv, NewId, Old
  <2> HIDE DEF item
  <2> QED BY <1>2, <2>1, <2>2, <2>3
<1>4. ASSUME NEW w \in behind, NEW slow \in BOOLEAN, BehindUnanswered(w, slow) PROVE BoxSays(s, v)
  <2> DEFINE item == EarlyItem(w.id)
  <2>1. Queue(item)
    BY <1>4 DEF BehindUnanswered
  <2>2. item.id = NewId
    BY DEF EarlyItem, Item
  <2>3. NewId \notin Old
    BY <1>0 DEF PageInv, NewId, Old
  <2> HIDE DEF item
  <2> QED BY <1>2, <2>1, <2>2, <2>3
<1>5. ASSUME NEW n \in DOMAIN outbox, UndoHere(n) PROVE BoxSays(s, v)
  <2> DEFINE new == [outbox[n] EXCEPT !.verdict = "undone"]
  <2>1. outbox' = [outbox EXCEPT ![n] = new] /\ disk' = Put(disk, new)
    BY <1>5 DEF UndoHere
  <2>2. new.id # s
    BY <1>5
  <2> HIDE DEF new
  <2>3. \A o \in DOMAIN outbox' : o \in DOMAIN outbox /\ (outbox'[o] = new \/ outbox'[o] = outbox[o])
    BY <2>1
  <2>4. disk' \subseteq disk \cup {new}
    BY <2>1 DEF Put
  <2> QED BY <2>2, <2>3, <2>4 DEF BoxSays
<1>6. ASSUME TakeBatch PROVE BoxSays(s, v)
  <2>1. disk' = disk
    BY <1>6 DEF TakeBatch
  <2>2. DOMAIN outbox' = DOMAIN outbox
        /\ \A j \in DOMAIN outbox : \/ outbox'[j] = outbox[j]
                                    \/ outbox'[j] = [outbox[j] EXCEPT !.attempted = TRUE]
    BY <1>0, <1>6, TakeItems
  <2>3. ASSUME NEW j \in DOMAIN outbox
        PROVE  outbox'[j].id = outbox[j].id /\ outbox'[j].verdict = outbox[j].verdict
    <3>1. outbox[j] \in ItemType
      BY <1>0 DEF BoxInv, Outbox, Keeps
    <3> QED BY <2>2, <3>1 DEF ItemType
  <2> QED BY <2>1, <2>2, <2>3 DEF BoxSays
<1>7. ASSUME SendBatch PROVE BoxSays(s, v)
  <2>1. outbox' = outbox /\ disk' \subseteq disk \cup ToSet(syncing.batch)
        /\ syncing # NULL /\ syncing.step # "removing"
    BY <1>7 DEF SendBatch, Saved
  <2>2. \A i \in ToSet(syncing.batch) : \E n \in DOMAIN outbox : outbox[n] = i
    BY <1>0, <2>1, BatchItems
  <2> QED BY <2>1, <2>2 DEF BoxSays
<1>8. ASSUME NEW m \in net, BatchAnswered(m) \/ BatchRefused(m) PROVE BoxSays(s, v)
  <2>1. Dequeue /\ disk' = disk
    BY <1>8 DEF BatchAnswered, BatchRefused
  <2>2. \A j \in DOMAIN outbox' : \E n \in DOMAIN outbox : outbox'[j] = outbox[n]
    BY <1>0, <2>1, DequeueItems
  <2> QED BY <2>1, <2>2 DEF BoxSays
<1>9. ASSUME ForgetBatch PROVE BoxSays(s, v)
  <2>1. outbox' = outbox /\ disk' \subseteq disk
    BY <1>9 DEF ForgetBatch
  <2> QED BY <2>1 DEF BoxSays
<1>10. ASSUME NEW b \in BOOLEAN, Reload(b) PROVE BoxSays(s, v)
  <2>1. disk' = disk /\ \A j \in DOMAIN outbox' : outbox'[j] \in disk
    BY <1>0, <1>10, ReloadItems DEF Reload
  <2> QED BY <2>1 DEF BoxSays
<1>11. ASSUME SignOut PROVE BoxSays(s, v)
  <2>1. disk' = {} /\ outbox' = <<>>
    BY <1>11 DEF SignOut
  <2>2. DOMAIN outbox' = {}
    BY <2>1
  <2> QED BY <2>1, <2>2 DEF BoxSays
<1>12. ASSUME FrontTimeout PROVE BoxSays(s, v)
  <2>1. AnswerOffline(made[front.id], front.id) \/ UNCHANGED <<outbox, disk>>
    BY <1>12 DEF FrontTimeout
  <2> QED BY <1>1, <1>3, <2>1
<1>13. \/ UNCHANGED <<outbox, disk>>
       \/ \E k \in Ticket : AnswerOffline(k, NULL)
       \/ FrontTimeout
       \/ \E w \in behind, slow \in BOOLEAN : BehindUnanswered(w, slow)
       \/ \E n \in DOMAIN outbox : UndoHere(n)
       \/ TakeBatch \/ SendBatch \/ ForgetBatch
       \/ \E m \in net : BatchAnswered(m) \/ BatchRefused(m)
       \/ \E b \in BOOLEAN : Reload(b)
       \/ SignOut
  BY ZenonT(30) DEF Next, Scanning, Syncing, Listening, vars, server, page, history, bounds, ReadOffline,
         ReadOnline, Ask, Retry, AdmitEarly, FrontAnswered, FrontSlow, FrontRefused, BehindAnswered,
         BehindRefused, BatchUnanswered, AdoptList, Ping, HearUndo, HearCheckIn, Serve, Lose,
         CheckInElsewhere, UndoAtServer, CancelTicket, ReadList, Tick
<1> QED BY <1>1, <1>3, <1>4, <1>5, <1>6, <1>7, <1>8, <1>9, <1>10, <1>11, <1>12, <1>13

\* Nor do the requests, but for what an outbox says, or a question.
LEMMA NetSaysNoMore ==
  ASSUME TypedInv, [Next]_vars, NEW s, NEW v, NetSays(s, v)'
  PROVE  v = NULL \/ NetSays(s, v) \/ BoxSays(s, v)
<1>0. PageInv /\ ServerInv /\ NetInv /\ BoxInv
  BY DEF TypedInv, PhoneTyped
<1>1. PICK m \in net' : \E j \in DOMAIN m.items : m.items[j].id = s /\ m.items[j].verdict = v
  BY DEF NetSays
<1>2. ASSUME NEW q \in net, m.items = q.items PROVE NetSays(s, v)
  BY <1>1, <1>2 DEF NetSays
<1>3. CASE NoNews
  BY <1>0, <1>2, <1>3, NoNewsHeard
<1>4. ASSUME NEW q \in net, Serve(q) PROVE NetSays(s, v)
  <2>1. PICK a : net' \subseteq (net \ {q}) \cup {Served(q, a)}
    BY <1>0, <1>4, ServedItem
  <2>2. Served(q, a).items = q.items
    BY DEF Served
  <2> QED BY <1>2, <2>1, <2>2
<1>5. ASSUME NEW id, net' = net \cup {Request(<<OnlineItem(id)>>)} PROVE v = NULL \/ NetSays(s, v)
  <2>1. m \in net \/ m.items = <<OnlineItem(id)>>
    BY <1>5 DEF Request
  <2>2. OnlineItem(id).verdict = NULL
    BY DEF OnlineItem, Item
  <2>3. m.items = <<OnlineItem(id)>> => \A j \in DOMAIN m.items : m.items[j] = OnlineItem(id)
    OBVIOUS
  <2> QED BY <1>1, <1>2, <2>1, <2>2, <2>3
<1>6. ASSUME NEW k \in Ticket, ReadOnline(k) \/ \E b \in BOOLEAN : Retry(k, b)
      PROVE  v = NULL \/ NetSays(s, v)
  <2>1. \E id : net' = net \cup {Request(<<OnlineItem(id)>>)}
    BY <1>6 DEF ReadOnline, Retry, Ask
  <2> QED BY <1>5, <2>1
<1>7. ASSUME SendBatch PROVE NetSays(s, v) \/ BoxSays(s, v)
  <2>1. net' = net \cup {Request(syncing.batch)} /\ syncing # NULL /\ syncing.step # "removing"
    BY <1>7 DEF SendBatch
  <2>2. m \in net \/ m.items = syncing.batch
    BY <2>1 DEF Request
  <2>3. ASSUME m.items = syncing.batch PROVE BoxSays(s, v)
    <3>1. \A j \in DOMAIN syncing.batch : \E n \in DOMAIN outbox : outbox[n] = syncing.batch[j]
      BY <1>0, <2>1 DEF BoxInv, BatchInv
    <3> QED BY <1>1, <2>3, <3>1 DEF BoxSays
  <2> QED BY <1>2, <2>2, <2>3
<1> QED BY <1>3, <1>4, <1>6, <1>7, NextNews

\* Nor does the log, but for what a request says.
LEMMA LogSaysNoMore ==
  ASSUME TypedInv, [Next]_vars, NEW s \in Scan, NEW v, LogSays(s, v)'
  PROVE  LogSays(s, v) \/ NetSays(s, v)
<1>0. PageInv /\ ServerInv /\ NetInv /\ RowsGrow
  BY NextRows DEF TypedInv, PhoneTyped
<1>1. CASE rows[s] # NULL
  BY <1>0, <1>1 DEF RowsGrow, LogSays
<1>2. CASE rows[s] = NULL
  <2>1. PICK m \in net : Serve(m)
    BY <1>2, NextTickets DEF LogSays
  <2>2. s = Due(m).id
    BY <1>0, <1>2, <2>1, ServedItem DEF LogSays
  <2>3. rows'[s].verdict = Due(m).verdict
    BY <1>0, <1>2, <2>1, <2>2, ServedItem
  <2>4. m.done + 1 \in DOMAIN m.items
    BY <1>0, <2>1, DueIs DEF Serve
  <2> QED BY <2>2, <2>3, <2>4 DEF LogSays, NetSays, Due
<1> QED BY <1>1, <1>2

\* What is said of an online scan is no verdict; of a scan in IndexedDB, nothing
\* but the verdict kept.
LEMMA KindsSay ==
  ASSUME TypedInv, Kinds
  PROVE  /\ front # NULL => \A v : Said(front.id, v) => v = NULL
         /\ \A i \in disk : \A v : Said(i.id, v) => v \in {NULL, i.verdict}
<1>0. PageInv /\ ServerInv /\ NetInv /\ BoxInv
  BY DEF TypedInv, PhoneTyped
<1>1. PICK off \in SUBSET Old, names \in [Scan -> Scan \cup {NULL}] : KindOf(off, names)
  BY DEF Kinds
<1>2. BoxNamed(off, names) /\ NetNamed(off, names) /\ LogNamed(off, names) /\ PageNamed(off)
  BY <1>1 DEF KindOf
<1>3. ASSUME NEW m \in net, NEW j \in DOMAIN m.items, m.items[j].verdict # NULL
      PROVE  m.items[j].id \in off /\ <<m.items[j].id, m.items[j].verdict>> \in sent
  <2>1. m.items[1].verdict # NULL
    BY <1>0, <1>3 DEF NetInv, RequestOK, RequestIs
  <2> QED BY <1>2, <2>1 DEF NetNamed, AsksFor, Named
<1>4. ASSUME NEW s \in Scan, rows[s] # NULL, rows[s].verdict # NULL
      PROVE  s \in off /\ <<s, rows[s].verdict>> \in sent
  BY <1>2, <1>4 DEF LogNamed, Logged
<1>5. ASSUME NEW s \in Scan, NEW v, v # NULL, NetSays(s, v) \/ LogSays(s, v)
      PROVE  s \in off /\ <<s, v>> \in sent
  BY <1>3, <1>4, <1>5 DEF NetSays, LogSays
<1>6. ASSUME NEW s, NEW v, BoxSays(s, v) PROVE s \in off
  BY <1>2, <1>6 DEF BoxSays, BoxNamed, Named
<1>7. ASSUME front # NULL, NEW v, Said(front.id, v), v # NULL PROVE FALSE
  <2>1. front.id \notin off /\ front.id \in Scan
    BY <1>0, <1>2, <1>7, FrontIs DEF PageNamed
  <2> QED BY <1>5, <1>6, <1>7, <2>1 DEF Said
<1>8. ASSUME NEW i \in disk, NEW v, Said(i.id, v), v # NULL PROVE v = i.verdict
  <2>1. i.id \in Scan /\ AsSent(i, sent)
    BY <1>0, OldGrows DEF BoxInv, Disk, Keeps, ItemType
  <2>2. CASE BoxSays(i.id, v)
    BY <1>0, <2>2 DEF BoxSays, BoxInv, Disk
  <2>3. CASE NetSays(i.id, v) \/ LogSays(i.id, v)
    <3>1. <<i.id, v>> \in sent
      BY <1>5, <1>8, <2>1, <2>3
    <3>2. <<i.id, v>>[1] = i.id => i.verdict = <<i.id, v>>[2]
      BY <2>1, <3>1 DEF AsSent
    <3> QED BY <3>2
  <2> QED BY <1>8, <2>2, <2>3 DEF Said
<1> QED BY <1>7, <1>8

\* A scan judged from the list is said to be what it was judged.
LEMMA NewSaid ==
  ASSUME TypedInv, NEW x, x = NewId, NEW k, NEW r, AnswerOffline(k, r), NoNews, x \in mine', rows' = rows
  PROVE  \A v : Said(x, v)' => v \in {NULL, "admitted"}
<1>0. PageInv /\ ServerInv /\ NetInv /\ BoxInv
  BY DEF TypedInv, PhoneTyped
<1>1. x \notin Old /\ x \notin mine /\ x \in Scan
  <2>1. made \in Seq(Ticket) /\ mine \subseteq Old /\ Len(made) < MaxScans
    BY <1>0 DEF PageInv, AnswerOffline
  <2>2. x = Len(made) + 1 /\ Len(made) \in Nat /\ MaxScans \in Nat
    BY <2>1, BoundAssumption DEF NewId
  <2> QED BY <2>1, <2>2 DEF Old, Scan
<1>2. Judge(k) = "admitted"
  BY <1>1 DEF AnswerOffline
<1> DEFINE item == Item(NewId, "admitted", r)
<1>3. Queue(item)
  BY <1>2 DEF AnswerOffline
<1>4. item.id = x /\ item.verdict = "admitted"
  BY DEF Item
<1>5. disk' \subseteq disk \cup {item} /\ outbox' = Append(outbox, item)
  BY <1>3 DEF Queue, Put
<1> SUFFICES ASSUME NEW new, new = item PROVE \A v : Said(x, v)' => v \in {NULL, "admitted"}
  OBVIOUS
<1> HIDE DEF item
<1>6. (\A i \in disk' : i \in disk \/ i = new)
      /\ \A n \in DOMAIN outbox' : outbox'[n] = new \/ (n \in DOMAIN outbox /\ outbox'[n] = outbox[n])
  <2>1. outbox \in Seq(ItemType) /\ outbox' = Append(outbox, new)
    BY <1>0, <1>5 DEF BoxInv, Outbox
  <2> QED BY <1>5, <2>1
<1>7. (\A i \in disk : i.id \in Old) /\ \A n \in DOMAIN outbox : outbox[n].id \in Old
  BY <1>0 DEF BoxInv, Disk, Outbox, Keeps
<1>8. \A v : BoxSays(x, v)' => v = "admitted"
  BY <1>1, <1>4, <1>6, <1>7 DEF BoxSays
<1>9. \A v : ~NetSays(x, v)'
  <2> SUFFICES ASSUME NEW m \in net', NEW j \in DOMAIN m.items, m.items[j].id = x PROVE FALSE
    BY DEF NetSays
  <2>1. PICK q \in net : m.items = q.items
    BY <1>0, NoNewsHeard
  <2>2. q.items[j].id \in Old
    BY <1>0, <2>1 DEF NetInv, RequestOK, RequestIs
  <2> QED BY <1>1, <2>1, <2>2
<1>10. rows[x] = NULL
  BY <1>0, <1>1 DEF ServerInv
<1>11. \A v : ~LogSays(x, v)'
  BY <1>10 DEF LogSays
<1> QED BY <1>8, <1>9, <1>11 DEF Said

\* What is said of the ADMITs the page remembers stays so.
LEMMA NextMineAdmits == TypedInv /\ Kinds /\ MineAdmits /\ [Next]_vars => MineAdmits'
<1> SUFFICES ASSUME TypedInv, Kinds, MineAdmits, [Next]_vars,
                    NEW s \in mine', NEW v, Said(s, v)', v # NULL
             PROVE  v = "admitted"
  BY DEF MineAdmits
<1>0. PageInv /\ ServerInv /\ NetInv /\ BoxInv /\ mine \subseteq Old /\ Old \subseteq Scan
  BY NextMade, OldGrows DEF TypedInv, PhoneTyped, PageInv
<1>1. ASSUME s \in Old PROVE Said(s, v)
  <2>1. ASSUME NEW n \in DOMAIN outbox, UndoHere(n) PROVE outbox[n].id # s
    <3>1. mine' = {x \in mine : made[x] # made[outbox[n].id]}
      BY <2>1 DEF UndoHere
    <3> QED BY <3>1
  <2>2. BoxSays(s, v)' => BoxSays(s, v)
    BY <1>1, <2>1, BoxSaysNoMore
  <2>3. NetSays(s, v)' => NetSays(s, v) \/ BoxSays(s, v)
    BY NetSaysNoMore
  <2>4. LogSays(s, v)' => LogSays(s, v) \/ NetSays(s, v)
    BY <1>0, <1>1, LogSaysNoMore
  <2> QED BY <2>2, <2>3, <2>4 DEF Said
<1>2. CASE s \in mine
  BY <1>0, <1>1, <1>2 DEF MineAdmits
<1>3. ASSUME NEW k, NEW r, AnswerOffline(k, r), NoNews, rows' = rows, s \notin mine PROVE v = "admitted"
  <2>1. s = NewId
    BY <1>3 DEF AnswerOffline
  <2> QED BY <1>3, <2>1, NewSaid
<1>4. ASSUME NEW k \in Ticket, ReadOffline(k), s \notin mine PROVE v = "admitted"
  <2>1. AnswerOffline(k, NULL) /\ net' = net /\ rows' = rows
    BY <1>4 DEF ReadOffline, server
  <2>2. NoNews
    BY <2>1 DEF NoNews
  <2> QED BY <1>3, <1>4, <2>1, <2>2
<1>5. ASSUME FrontTimeout, s \notin mine PROVE v = "admitted"
  <2>1. AnswerOffline(made[front.id], front.id) /\ rows' = rows /\ GiveUp(RequestsOf(front.id))
    BY <1>5 DEF FrontTimeout, server
  <2>2. NoNews
    BY <2>1 DEF NoNews, GiveUp, Muted, RequestsOf
  <2> QED BY <1>3, <1>5, <2>1, <2>2
<1>6. ASSUME s = front.id, front # NULL PROVE v = "admitted"
  <2>1. s \in Old
    BY <1>0, <1>6, FrontIs
  <2> QED BY <1>1, <1>6, <2>1, KindsSay
<1>7. ASSUME AdmitEarly \/ \E m \in net : FrontAnswered(m), s \notin mine PROVE v = "admitted"
  <2>1. front # NULL /\ mine' \subseteq mine \cup {front.id}
    BY <1>7 DEF AdmitEarly, FrontAnswered
  <2> QED BY <1>6, <1>7, <2>1
<1>8. ASSUME NEW b \in BOOLEAN, Reload(b) PROVE v = "admitted"
  <2>1. PICK i \in disk : i.verdict = "admitted" /\ s = i.id
    BY <1>8 DEF Reload
  <2>2. s \in Old
    BY <1>0, <2>1 DEF BoxInv, Disk, Keeps
  <2>3. v \in {NULL, i.verdict}
    BY <1>1, <2>1, <2>2, KindsSay
  <2> QED BY <2>1, <2>3
<1>9. \/ mine' \subseteq mine
      \/ \E k \in Ticket : ReadOffline(k)
      \/ FrontTimeout \/ AdmitEarly
      \/ \E m \in net : FrontAnswered(m)
      \/ \E b \in BOOLEAN : Reload(b)
  <2>1. \A w \in behind, m \in net : BehindAnswered(w, m) => mine' \subseteq mine
    BY DEF BehindAnswered
  <2>2. \A n \in DOMAIN outbox : UndoHere(n) => mine' \subseteq mine
    BY DEF UndoHere
  <2>3. \A m \in net : BatchAnswered(m) \/ BatchRefused(m) => mine' \subseteq mine
    BY DEF BatchAnswered, BatchRefused
  <2>4. SignOut => mine' \subseteq mine
    BY DEF SignOut
  <2>5. mine' = mine => mine' \subseteq mine
    OBVIOUS
  <2>6. \/ mine' = mine
        \/ \E k \in Ticket : ReadOffline(k)
        \/ FrontTimeout \/ AdmitEarly
        \/ \E m \in net : FrontAnswered(m) \/ BatchAnswered(m) \/ BatchRefused(m)
        \/ \E w \in behind, m \in net : BehindAnswered(w, m)
        \/ \E n \in DOMAIN outbox : UndoHere(n)
        \/ \E b \in BOOLEAN : Reload(b)
        \/ SignOut
    BY ZenonT(30) DEF Next, Scanning, Syncing, Listening, vars, server, page, history, bounds,
         ReadOnline, Ask, Retry, FrontSlow, FrontRefused, BehindRefused, BehindUnanswered,
         TakeBatch, SendBatch, ForgetBatch, BatchUnanswered, AdoptList, Ping, HearUndo, HearCheckIn,
         Serve, Lose, CheckInElsewhere, UndoAtServer, CancelTicket, ReadList, Tick
  <2> QED BY <2>1, <2>2, <2>3, <2>4, <2>5, <2>6
<1> QED BY <1>2, <1>4, <1>5, <1>7, <1>8, <1>9

-----------------------------------------------------------------------------
(* Before there is a list.                                                 *)

\* Without a list the phone lets nobody in by itself.
NoListYet ==
  list = NULL =>
    /\ mine = {} /\ disk = {} /\ behind = {} /\ syncing = NULL
    /\ front # NULL => ~front.race

\* Without a list, no step shows an ADMIT the server did not answer.
LEMMA NextNoList == TypedInv /\ NoListYet /\ [Next]_vars => NoListYet'
<1> SUFFICES ASSUME TypedInv, NoListYet, [Next]_vars, list' = NULL
             PROVE  /\ mine' = {} /\ disk' = {} /\ behind' = {} /\ syncing' = NULL
                    /\ front' # NULL => ~front'.race
  BY DEF NoListYet
<1>0. PageInv /\ ServerInv /\ NetInv /\ BoxInv
  BY DEF TypedInv, PhoneTyped
<1>1. CASE SignOut
  BY <1>1 DEF SignOut
<1>2. ASSUME AdoptList PROVE FALSE
  <2>1. listing \in ListingType /\ list' = [in |-> listing.in, gone |-> listing.gone]
    BY <1>0, <1>2 DEF AdoptList, ServerInv
  <2>2. list' \in ListType
    BY <2>1 DEF ListType, ListingType
  <2> QED BY <2>2, NullAssumption
<1>3. list' = list \/ SignOut \/ AdoptList
  BY ZenonT(30) DEF Next, Scanning, Syncing, Listening, vars, server, page, history, bounds, ReadOffline,
         ReadOnline, Ask, Retry, AdmitEarly, FrontTimeout,
         FrontAnswered, FrontSlow, FrontRefused, BehindAnswered, BehindRefused, BehindUnanswered, UndoHere,
         TakeBatch, SendBatch, BatchUnanswered, ForgetBatch, BatchAnswered, BatchRefused,
         Ping, HearUndo, HearCheckIn, Serve, Lose, CheckInElsewhere, UndoAtServer,
         CancelTicket, ReadList, Tick, Reload
<1> SUFFICES ASSUME list' = list, ~SignOut
             PROVE  /\ mine' = {} /\ disk' = {} /\ behind' = {} /\ syncing' = NULL
                    /\ front' # NULL => ~front'.race
  BY <1>1, <1>2, <1>3
<1>4. /\ list = NULL /\ mine = {} /\ disk = {} /\ behind = {} /\ syncing = NULL
      /\ front # NULL => ~front.race
  BY DEF NoListYet
<1>5. DOMAIN outbox = {} /\ outbox = <<>>
  <2>1. outbox \in Seq(ItemType) /\ Ids(outbox) = {}
    BY <1>0, <1>4 DEF BoxInv, Outbox, SameScans, DiskIds
  <2>2. DOMAIN outbox = {}
    BY <2>1, IdsAre
  <2> QED BY <2>1, <2>2
<1>6. ASSUME NEW k, NEW r, AnswerOffline(k, r) PROVE FALSE
  BY <1>4, <1>6 DEF AnswerOffline
<1>7. ASSUME NEW k, NEW id, NEW race, Ask(id, k, race)
      PROVE  front'.race = race /\ UNCHANGED <<mine, disk, behind, syncing>>
  BY <1>7 DEF Ask, history
<1>8. ASSUME NEW k \in Ticket, ReadOnline(k)
      PROVE  ~front'.race /\ UNCHANGED <<mine, disk, behind, syncing>>
  BY <1>4, <1>8, <1>7 DEF ReadOnline
<1>9. ASSUME NEW k \in Ticket, NEW b \in BOOLEAN, Retry(k, b)
      PROVE  ~front'.race /\ UNCHANGED <<mine, disk, behind, syncing>>
  BY <1>4, <1>7, <1>9 DEF Retry
<1>10. ASSUME FrontTimeout PROVE front' = NULL /\ UNCHANGED <<mine, disk, behind, syncing>>
  BY <1>4, <1>10 DEF FrontTimeout
<1>11. ASSUME NEW m \in net, FrontAnswered(m)
       PROVE  front' = NULL /\ UNCHANGED <<mine, disk, behind, syncing>>
  BY <1>4, <1>11 DEF FrontAnswered
<1>12. ASSUME NEW m \in net, FrontSlow(m) \/ FrontRefused(m)
       PROVE  front' = NULL /\ UNCHANGED <<mine, disk, behind, syncing>>
  BY <1>12 DEF FrontSlow, FrontRefused, history
<1>13. ASSUME NEW b \in BOOLEAN, Reload(b)
       PROVE  front' = NULL /\ mine' = {} /\ disk' = {} /\ behind' = {} /\ syncing' = NULL
  <2>1. front' = NULL /\ disk' = {} /\ behind' = {} /\ syncing' = NULL
    BY <1>4, <1>13 DEF Reload
  <2>2. mine' = {i.id : i \in {j \in disk : j.verdict = "admitted"}}
    BY <1>13 DEF Reload
  <2> QED BY <1>4, <2>1, <2>2
<1>14. \/ UNCHANGED <<mine, disk, behind, syncing, front>>
       \/ \E k \in Ticket : ReadOnline(k) \/ \E b \in BOOLEAN : Retry(k, b)
       \/ FrontTimeout
       \/ \E m \in net : FrontAnswered(m) \/ FrontSlow(m) \/ FrontRefused(m)
       \/ \E b \in BOOLEAN : Reload(b)
  <2>1. \A k \in Ticket : ~ReadOffline(k)
    BY <1>6 DEF ReadOffline
  <2>2. ~AdmitEarly
    BY <1>4 DEF AdmitEarly
  <2>3. ~TakeBatch /\ ~SendBatch /\ ~BatchUnanswered /\ ~ForgetBatch
    BY <1>4, <1>5 DEF TakeBatch, SendBatch, BatchUnanswered, ForgetBatch, Sending
  <2>4. \A m \in net : ~BatchAnswered(m) /\ ~BatchRefused(m)
    BY <1>4 DEF BatchAnswered, BatchRefused, Sending
  <2>5. (\A w \in behind : FALSE) /\ (\A n \in DOMAIN outbox : FALSE)
    BY <1>4, <1>5
  <2>6. \/ UNCHANGED <<mine, disk, behind, syncing, front>>
        \/ \E k \in Ticket : ReadOffline(k) \/ ReadOnline(k) \/ \E b \in BOOLEAN : Retry(k, b)
        \/ AdmitEarly \/ FrontTimeout
        \/ \E m \in net : FrontAnswered(m) \/ FrontSlow(m) \/ FrontRefused(m)
        \/ \E w \in behind : TRUE
        \/ \E n \in DOMAIN outbox : TRUE
        \/ TakeBatch \/ SendBatch \/ BatchUnanswered \/ ForgetBatch
        \/ \E m \in net : BatchAnswered(m) \/ BatchRefused(m)
        \/ AdoptList \/ SignOut
        \/ \E b \in BOOLEAN : Reload(b)
    BY ZenonT(30) DEF Next, Scanning, Syncing, Listening, vars, server, page, history, bounds,
         Ping, HearUndo, HearCheckIn, Serve, Lose, CheckInElsewhere, UndoAtServer,
         CancelTicket, ReadList, Tick
  <2> QED BY <1>2, <2>1, <2>2, <2>3, <2>4, <2>5, <2>6
<1> QED BY <1>4, <1>8, <1>9, <1>10, <1>11, <1>12, <1>13, <1>14

-----------------------------------------------------------------------------
(* The ADMITs the page remembers.                                          *)

\* A mark no claim of a gate makes or takes away; one that only this page knows.
Firm(m) == m # NULL /\ (m.source # "relay" \/ m.known # NULL)
OnlyHere(m) == m # NULL /\ m.source # "relay" /\ m.known = NULL

OnList(l, k) == k \in l.in \cup l.gone

\* Ticket k is on the list on its way, or mark m stays when that list comes.
Outlives(m, k) ==
  listing # NULL => OnList(listing, k) \/ (Firm(m) /\ ~ListCovers(m.known, listing.asOf))

\* The server lets nobody in by ticket k any more, and the phone has it from there.
InView(k) ==
  /\ InOrGone(k)
  /\ Firm(marks[k]) \/ OnList(list, k)
  /\ Outlives(marks[k], k)

Remembers(k) == OnlyHere(marks[k]) \/ InView(k)
Remembered == \A s \in mine : list # NULL /\ NoUndo(made[s]) => Remembers(made[s])

\* What is remembered in that sense is not let in again.
LEMMA RememberedIs ==
  ASSUME TypedInv, Remembered
  PROVE  OwnAdmitsRemembered
<1> SUFFICES ASSUME NEW s \in mine, list # NULL, \A c \in CheckIn : <<made[s], c>> \notin undone
             PROVE  Judge(made[s]) # "admitted"
  BY DEF OwnAdmitsRemembered
<1>1. Remembers(made[s])
  BY DEF Remembered, NoUndo
<1>2. marks[made[s]] # NULL \/ made[s] \in list.in \/ made[s] \in list.gone
  BY <1>1 DEF Remembers, OnlyHere, InView, Firm, OnList
<1> QED BY <1>2 DEF Judge

\* A mark known as of now is kept by any list read until now.
LEMMA FreshRemembers ==
  ASSUME MaxSkew <= Grace, TypedInv, [Next]_vars, NEW k \in Ticket, NoUndo(k)', InOrGone(k),
         NEW now \in PhoneTimes, marks'[k] # NULL, marks'[k].known = now, listing' = listing
  PROVE  Remembers(k)'
<1>1. InOrGone(k)'
  BY InStays
<1>2. now # NULL /\ now \in Int /\ clock - MaxSkew <= now
  <2>1. clock \in Int /\ MaxSkew \in Nat
    BY BoundAssumption DEF TypedInv, PhoneTyped, ServerInv
  <2>2. PICK e \in -MaxSkew .. MaxSkew : now = clock + e
    BY DEF PhoneTimes
  <2> QED BY <2>1, <2>2, NullAssumption
<1>3. Firm(marks'[k])
  BY <1>2 DEF Firm
<1>4. ASSUME listing # NULL PROVE ~ListCovers(now, listing.asOf)
  <2>1. listing.asOf \in Nat /\ listing.asOf <= clock /\ clock \in Int
    BY <1>4 DEF TypedInv, PhoneTyped, ServerInv, ListingType
  <2>2. ~(now + Grace < listing.asOf)
    BY <1>2, <2>1, BoundAssumption
  <2> QED BY <2>2 DEF ListCovers
<1>5. Outlives(marks[k], k)'
  BY <1>3, <1>4 DEF Outlives
<1> QED BY <1>1, <1>3, <1>5 DEF Remembers, InView

\* What the phone knows of a ticket stays, where its mark does (or was a claim),
\* and the list.
LEMMA KeptRemembers ==
  ASSUME TypedInv, [Next]_vars, NEW k \in Ticket, NoUndo(k)', Remembers(k), list' = list,
         \/ marks'[k] = marks[k]
         \/ ~Firm(marks[k])
         \/ /\ marks[k].source = "relay" /\ Firm(marks'[k])
            /\ marks'[k].known = marks[k].known,
         \/ listing' \in {listing, NULL}
         \/ marks'[k] = marks[k] /\ (InOrGone(k) => OnList(listing', k))
  PROVE  Remembers(k)'
<1>1. CASE OnlyHere(marks[k])
  <2>1. marks'[k] = marks[k]
    BY <1>1 DEF OnlyHere, Firm
  <2> QED BY <1>1, <2>1 DEF Remembers
<1>2. CASE InView(k)
  <2>1. InOrGone(k)'
    BY <1>2, InStays DEF InView
  <2>2. Firm(marks[k]) => Firm(marks'[k]) /\ marks'[k].known = marks[k].known
    OBVIOUS
  <2>3. (Firm(marks[k]) \/ OnList(list, k))'
    BY <1>2, <2>2 DEF InView, OnList
  <2>4. Outlives(marks[k], k)'
    <3>1. CASE listing' = NULL
      BY <3>1 DEF Outlives
    <3>2. CASE listing' = listing
      BY <1>2, <2>2, <3>2 DEF InView, Outlives, OnList, ListCovers
    <3>3. CASE OnList(listing', k)
      BY <3>3 DEF Outlives, OnList
    <3> QED BY <1>2, <3>1, <3>2, <3>3 DEF InView
  <2> QED BY <2>1, <2>3, <2>4 DEF Remembers, InView
<1> QED BY <1>1, <1>2 DEF Remembers

\* An own admit the server may not know of is such a mark.
LEMMA OwnMark ==
  ASSUME NEW x \in CheckIn
  PROVE  OnlyHere(Mark(x, NULL, "own"))
<1>1. Mark(x, NULL, "own") \in MarkType
  BY MarkOK
<1>2. Mark(x, NULL, "own").known = NULL /\ Mark(x, NULL, "own").source = "own"
  BY DEF Mark
<1> QED BY <1>1, <1>2, NullAssumption DEF OnlyHere

\* What adopting a list does to a mark.
LEMMA AdoptedIs ==
  ASSUME NEW asOf, NEW old, NEW items, NEW n \in Nat, DOMAIN items = 1 .. n,
         \A i \in 1 .. n : items[i].id \in Scan, NEW k \in Ticket
  PROVE  /\ QueuedAdmits(items, k) # {} => OnlyHere(Adopted(asOf, old, items)[k])
         /\ QueuedAdmits(items, k) = {} =>
              Adopted(asOf, old, items)[k] =
                IF old[k] # NULL /\ ListCovers(old[k].known, asOf) THEN NULL ELSE old[k]
<1> DEFINE queued(t) == QueuedAdmits(items, t)
           last(t) == CHOOSE i \in queued(t) : \A q \in queued(t) : q <= i
           rest(t) == IF old[t] # NULL /\ ListCovers(old[t].known, asOf) THEN NULL ELSE old[t]
           new(t) == IF queued(t) # {} THEN Mark(items[last(t)].id, NULL, "own") ELSE rest(t)
<1>1. Adopted(asOf, old, items) = [t \in Ticket |-> new(t)]
  BY DEF Adopted
<1>2. ASSUME queued(k) # {} PROVE OnlyHere(new(k))
  <2>1. queued(k) \subseteq 1 .. n
    BY DEF QueuedAdmits
  <2>2. last(k) \in queued(k)
    <3> HIDE DEF queued
    <3> QED BY <1>2, <2>1, LastPlace
  <2>3. items[last(k)].id \in CheckIn
    BY <2>1, <2>2 DEF CheckIn
  <2>4. new(k) = Mark(items[last(k)].id, NULL, "own")
    BY <1>2
  <2> HIDE DEF new, last
  <2> QED BY <2>3, <2>4, OwnMark
<1>3. queued(k) = {} => new(k) = rest(k)
  OBVIOUS
<1> HIDE DEF new, rest
<1>4. Adopted(asOf, old, items)[k] = new(k)
  BY <1>1
<1> QED BY <1>2, <1>3, <1>4 DEF rest

\* A list adopted leaves remembered what it does not have itself.
LEMMA AdoptRemembers ==
  ASSUME TypedInv, [Next]_vars, NEW k \in Ticket, NoUndo(k)', Remembers(k), AdoptList
  PROVE  Remembers(k)'
<1>0. PageInv /\ BoxInv /\ Old \subseteq Scan
  BY NextMade, OldGrows DEF TypedInv, PhoneTyped, PageInv
<1>1. /\ listing # NULL /\ listing' = NULL
      /\ list'.in = listing.in /\ list'.gone = listing.gone
      /\ marks' = Adopted(listing.asOf, marks, outbox)
  BY DEF AdoptList
<1>2. /\ QueuedAdmits(outbox, k) # {} => OnlyHere(marks'[k])
      /\ QueuedAdmits(outbox, k) = {} =>
           marks'[k] = IF marks[k] # NULL /\ ListCovers(marks[k].known, listing.asOf) THEN NULL ELSE marks[k]
  <2>1. DOMAIN outbox = 1 .. Len(outbox) /\ Len(outbox) \in Nat
    BY <1>0 DEF BoxInv, Outbox
  <2>2. \A i \in 1 .. Len(outbox) : outbox[i].id \in Scan
    BY <1>0, <2>1 DEF BoxInv, Outbox, Keeps
  <2> QED BY <1>1, <2>1, <2>2, AdoptedIs
<1>3. CASE QueuedAdmits(outbox, k) # {}
  BY <1>2, <1>3 DEF Remembers
<1>4. CASE QueuedAdmits(outbox, k) = {} /\ OnlyHere(marks[k])
  <2>1. marks'[k] = marks[k]
    BY <1>2, <1>4 DEF OnlyHere, ListCovers
  <2> QED BY <1>4, <2>1 DEF Remembers
<1>5. CASE QueuedAdmits(outbox, k) = {} /\ InView(k)
  <2>1. InOrGone(k)'
    BY <1>5, InStays DEF InView
  <2>2. Outlives(marks[k], k)'
    BY <1>1 DEF Outlives
  <2>3. CASE OnList(listing, k)
    <3>1. OnList(list, k)'
      BY <1>1, <2>3 DEF OnList
    <3> QED BY <2>1, <2>2, <3>1 DEF Remembers, InView
  <2>4. CASE Firm(marks[k]) /\ ~ListCovers(marks[k].known, listing.asOf)
    <3>1. marks'[k] = marks[k]
      BY <1>2, <1>5, <2>4
    <3> QED BY <2>1, <2>2, <2>4, <3>1 DEF Remembers, InView
  <2> QED BY <1>1, <1>5, <2>3, <2>4 DEF InView, Outlives
<1> QED BY <1>3, <1>4, <1>5 DEF Remembers

\* A page that is loaded again marks what it remembers.
LEMMA ReloadRemembers ==
  ASSUME TypedInv, [Next]_vars, NEW b \in BOOLEAN, Reload(b), list # NULL, NEW s \in mine'
  PROVE  OnlyHere(marks'[made[s]])
<1>0. PageInv /\ BoxInv /\ Old \subseteq Scan
  BY NextMade, OldGrows DEF TypedInv, PhoneTyped, PageInv
<1> DEFINE none == [k \in Ticket |-> NULL]
<1>1. marks' = Adopted(0, none, outbox')
  BY DEF Reload
<1>2. PICK i \in disk : i.verdict = "admitted" /\ i.id = s
  BY DEF Reload
<1>3. i.id \in Old /\ made[s] \in Ticket
  <2>1. i.id \in Old
    BY <1>0 DEF BoxInv, Disk, Keeps
  <2> QED BY <1>0, <1>2, <2>1, LogTickets
<1>4. outbox' \in Seq(ItemType) /\ (\A j \in DOMAIN outbox' : outbox'[j] \in disk)
      /\ \E j \in DOMAIN outbox' : outbox'[j] = i
  BY <1>0, ReloadItems
<1>5. \E j \in QueuedAdmits(outbox', made[s]) : TRUE
  BY <1>2, <1>4 DEF QueuedAdmits
<1>6. QueuedAdmits(outbox', made[s]) # {}
  BY <1>5
<1>7. DOMAIN outbox' = 1 .. Len(outbox') /\ Len(outbox') \in Nat
  BY <1>4
<1>8. \A j \in 1 .. Len(outbox') : outbox'[j].id \in Scan
  <2>1. \A x \in disk : x.id \in Scan
    BY <1>0 DEF BoxInv, Disk, Keeps
  <2> QED BY <1>4, <1>7, <2>1
<1> HIDE DEF none
<1> QED BY <1>1, <1>3, <1>6, <1>7, <1>8, AdoptedIs

\* The scan ids made are scan ids.
LEMMA OldIsScan == PageInv => Old \subseteq Scan
BY BoundAssumption DEF PageInv, Old, Scan

\* Who is let in, or in already, by an answer still waited for, is in.
LEMMA AnswerMeansIn ==
  ASSUME TypedInv, LogTrue, AnswersTrue, NEW x, NEW m \in net, m \in RequestsOf(x), Complete(m),
         m.answer.result \in {"admitted", "already_in"}
  PROVE  m.answer.of \in CheckIn /\ (NoUndo(made[x]) => InOrGone(made[x]))
<1>0. ServerInv /\ NetInv /\ PageInv /\ Old \subseteq Scan
  BY OldIsScan DEF TypedInv, PhoneTyped
<1>1. m \in RequestType /\ RequestIs(m.items, m.done, m.answer)
  BY <1>0 DEF NetInv, RequestOK
<1>2. m.items[1].verdict = NULL /\ m.items[1].id = x
  BY DEF RequestsOf, IsSync
<1>3. Len(m.items) = 1 /\ m.done = 1 /\ 1 \in DOMAIN m.items
  <2>1. Len(m.items) = 1 /\ m.items \in Seq(ItemType)
    BY <1>1, <1>2 DEF RequestIs, RequestType
  <2> QED BY <2>1 DEF Complete
<1>4. m.answer \in AnswerType /\ m.answer.of # NULL
  BY <1>1, <1>3 DEF RequestIs, RequestType, Tells
<1>5. x \in Scan /\ rows[x] # NULL
  BY <1>0, <1>1, <1>2, <1>3 DEF RequestIs
<1>6. rows[x].result = m.answer.result
  BY <1>2, <1>3 DEF AnswersTrue, AnswerTrue
<1>7. Row(x)
  BY <1>5 DEF LogTrue
<1> QED BY <1>4, <1>6, <1>7 DEF Row, InOrGone, AnswerType

\* So does an ADMIT the page remembers that is in the log.
LEMMA LoggedIsIn ==
  ASSUME TypedInv, LogTrue, MineAdmits, NEW s \in mine, rows[s] # NULL, NoUndo(made[s])
  PROVE  InOrGone(made[s])
<1>1. s \in Scan
  BY OldIsScan DEF TypedInv, PhoneTyped, PageInv
<1>2. rows[s] \in RowType /\ Row(s)
  BY <1>1 DEF TypedInv, PhoneTyped, ServerInv, LogTrue
<1>3. rows[s].verdict \in {NULL, "admitted"}
  BY DEF MineAdmits, Said, LogSays
<1>4. rows[s].result # "turned_away"
  BY <1>2, <1>3 DEF Row
<1> QED BY <1>2, <1>4 DEF Row, RowType, Result, InOrGone

\* A mark with the server's word, as of now.
LEMMA FreshMark ==
  ASSUME MaxSkew <= Grace, TypedInv, [Next]_vars, NEW k \in Ticket, NoUndo(k)', InOrGone(k),
         NEW now \in PhoneTimes, NEW of \in CheckIn, NEW source \in {"own", "server", "relay"},
         marks'[k] = Mark(of, now, source), listing' = listing
  PROVE  Remembers(k)'
<1>1. now \in Int
  BY TimesOK DEF TypedInv, PhoneTyped
<1>2. marks'[k] \in MarkType
  BY <1>1, MarkOK
<1>3. marks'[k] # NULL /\ marks'[k].known = now
  BY <1>2, NullAssumption DEF Mark
<1> QED BY <1>3, FreshRemembers

\* An answer shown: what was remembered is, and the ADMIT just shown.
LEMMA LearntRemembers ==
  ASSUME MaxSkew <= Grace, TypedInv, LogTrue, AnswersTrue, [Next]_vars, list # NULL,
         NEW k \in Ticket, NoUndo(k)', NEW m \in net, FrontAnswered(m),
         \/ Remembers(k)
         \/ k = made[front.id] /\ m.answer.result = "admitted" /\ ~Known(marks[k])
  PROVE  Remembers(k)'
<1>0. PageInv
  BY DEF TypedInv, PhoneTyped
<1> DEFINE t == made[front.id]
           a == m.answer
<1>1. PICK now \in PhoneTimes : marks' = Learnt(t, a, now)
  BY DEF FrontAnswered
<1>2. list' = list /\ listing' = listing /\ m \in RequestsOf(front.id) /\ Complete(m)
  BY DEF FrontAnswered
<1>3. ASSUME marks'[k] = marks[k], Remembers(k) PROVE Remembers(k)'
  BY <1>2, <1>3, KeptRemembers
<1>4. CASE (marks[t] # NULL /\ marks[t].source # "relay") \/ a.result \notin {"admitted", "already_in"}
  <2>1. marks' = marks
    BY <1>1, <1>4 DEF Learnt
  <2>2. CASE Remembers(k)
    BY <1>3, <2>1, <2>2
  <2>3. CASE k = t /\ a.result = "admitted" /\ ~Known(marks[k])
    <3>1. OnlyHere(marks[k])
      BY <1>4, <2>3 DEF OnlyHere, Known
    <3> QED BY <2>1, <3>1 DEF Remembers
  <2> QED BY <2>2, <2>3
<1>5. CASE ~((marks[t] # NULL /\ marks[t].source # "relay") \/ a.result \notin {"admitted", "already_in"})
  <2> DEFINE source == IF a.of \in Scan THEN "own" ELSE "server"
  <2>1. marks' = [marks EXCEPT ![t] = Mark(a.of, now, source)]
    BY <1>1, <1>5 DEF Learnt
  <2>2. CASE k # t
    <3>1. marks'[k] = marks[k]
      BY <1>0, <2>1, <2>2 DEF PageInv
    <3> QED BY <1>3, <2>2, <3>1
  <2>3. CASE k = t
    <3>1. marks'[k] = Mark(a.of, now, source)
      BY <1>0, <2>1, <2>3 DEF PageInv
    <3>2. a.of \in CheckIn /\ (NoUndo(k) => InOrGone(k))
      BY <1>2, <1>5, <2>3, AnswerMeansIn
    <3>3. NoUndo(k)
      BY InStays
    <3>4. source \in {"own", "server", "relay"}
      OBVIOUS
    <3> HIDE DEF source
    <3> QED BY <1>2, <3>1, <3>2, <3>3, <3>4, FreshMark
  <2> QED BY <2>2, <2>3
<1> QED BY <1>4, <1>5

\* The late answer to an early ADMIT.
LEMMA SettledRemembers ==
  ASSUME MaxSkew <= Grace, TypedInv, LogTrue, AnswersTrue, [Next]_vars,
         NEW k \in Ticket, NoUndo(k)', Remembers(k), NEW w \in behind, NEW m \in net, BehindAnswered(w, m),
         k # made[w.id] \/ m.answer.result \in {"admitted", "already_in"}
  PROVE  Remembers(k)'
<1>0. PageInv
  BY DEF TypedInv, PhoneTyped
<1> DEFINE t == made[w.id]
           a == m.answer
<1>1. PICK now \in PhoneTimes : marks' = Settled(t, w.id, a, now)
  BY DEF BehindAnswered
<1>2. list' = list /\ listing' = listing /\ m \in RequestsOf(w.id) /\ Complete(m)
  BY DEF BehindAnswered
<1>3. ASSUME marks'[k] = marks[k] PROVE Remembers(k)'
  BY <1>2, <1>3, KeptRemembers
<1>4. marks \in [Ticket -> MarkType \cup {NULL}] /\ now \in Int /\ now # NULL
  BY <1>0, TimesOK, NullAssumption DEF PageInv, TypedInv, PhoneTyped
<1>5. CASE k # t
  <2>1. marks'[k] = marks[k]
    BY <1>1, <1>4, <1>5 DEF Settled
  <2> QED BY <1>3, <2>1
<1>6. CASE k = t
  <2>1. a.of \in CheckIn /\ InOrGone(k)
    <3>1. a.of \in CheckIn /\ (NoUndo(k) => InOrGone(k))
      BY <1>2, <1>6, AnswerMeansIn
    <3> QED BY <3>1, InStays
  <2>2. CASE a.result = "admitted" /\ marks[k] = NULL
    <3>1. marks' = marks
      BY <1>1, <1>6, <2>2 DEF Settled
    <3> QED BY <1>3, <3>1
  <2>3. CASE a.result = "admitted" /\ marks[k] # NULL
    <3> DEFINE new == [[marks[k] EXCEPT !.known = now] EXCEPT !.of = w.id]
    <3>1. marks' = [marks EXCEPT ![k] = new]
      BY <1>1, <1>4, <1>6, <2>3 DEF Settled
    <3>2. marks[k] \in MarkType /\ w.id \in Scan
      <4>1. w \in WaitType
        BY <1>0 DEF PageInv
      <4> QED BY <1>4, <2>3, <4>1 DEF WaitType
    <3>3. new \in MarkType /\ new.known = now
      BY <1>4, <3>2 DEF MarkType, CheckIn
    <3> HIDE DEF new
    <3>4. marks'[k] = new
      BY <1>4, <3>1
    <3>5. marks'[k] # NULL /\ marks'[k].known = now
      BY <3>3, <3>4, NullAssumption
    <3> QED BY <1>2, <2>1, <3>5, FreshRemembers
  <2>4. CASE a.result = "already_in"
    <3>1. marks' = [marks EXCEPT ![k] = Mark(a.of, now, "server")]
      BY <1>1, <1>6, <2>4 DEF Settled
    <3>2. marks'[k] = Mark(a.of, now, "server")
      BY <1>4, <3>1
    <3> QED BY <1>2, <2>1, <3>2, FreshMark
  <2> QED BY <1>6, <2>2, <2>3, <2>4
<1> QED BY <1>5, <1>6

\* The answer to a batch.
LEMMA SentRemembers ==
  ASSUME MaxSkew <= Grace, TypedInv, LogTrue, MineAdmits, [Next]_vars, NEW m \in net, BatchAnswered(m),
         NEW s \in mine, s \in mine', NEW k \in Ticket, k = made[s], NoUndo(k)', Remembers(k)
  PROVE  Remembers(k)'
<1>0. PageInv
  BY DEF TypedInv, PhoneTyped
<1>1. list' = list /\ listing' = listing
      /\ (rows[s] # NULL \/ \A i \in Ids(syncing.batch) : made[i] # k)
  BY DEF BatchAnswered
<1> DEFINE sentNow(x) == /\ \E i \in Ids(syncing.batch) : made[i] = x
                         /\ marks[x] # NULL /\ marks[x].known = NULL
<1>2. PICK now \in PhoneTimes :
        marks' = [x \in Ticket |-> IF sentNow(x) THEN [marks[x] EXCEPT !.known = now] ELSE marks[x]]
  BY DEF BatchAnswered
<1>3. CASE ~sentNow(k)
  <2>1. marks'[k] = marks[k]
    BY <1>2, <1>3
  <2> QED BY <1>1, <2>1, KeptRemembers
<1>4. CASE sentNow(k)
  <2> DEFINE new == [marks[k] EXCEPT !.known = now]
  <2>1. marks'[k] = new
    BY <1>2, <1>4
  <2>2. marks[k] \in MarkType /\ now \in Int
    BY <1>0, <1>4, TimesOK DEF PageInv, TypedInv, PhoneTyped
  <2>3. new \in MarkType /\ new.known = now
    BY <2>2 DEF MarkType
  <2> HIDE DEF new
  <2>4. marks'[k] # NULL /\ marks'[k].known = now
    BY <2>1, <2>3, NullAssumption
  <2>5. InOrGone(k)
    <3>1. rows[s] # NULL
      BY <1>1, <1>4
    <3> QED BY <3>1, InStays, LoggedIsIn
  <2> HIDE DEF sentNow
  <2> QED BY <1>1, <2>4, <2>5, FreshRemembers
<1> QED BY <1>3, <1>4

\* What is heard of the server and of other gates.
LEMMA HeardRemembers ==
  ASSUME MaxSkew <= Grace, TypedInv, [Next]_vars, NEW k \in Ticket, NoUndo(k)', Remembers(k),
         \/ \E news \in SUBSET Ticket, now \in PhoneTimes : Ping(news, now)
         \/ \E t \in Ticket, b \in BOOLEAN : HearUndo(t, b) \/ \E now \in PhoneTimes : HearCheckIn(t, b, now)
  PROVE  Remembers(k)'
<1>0. PageInv /\ ServerInv /\ NoUndo(k)
  BY InStays DEF TypedInv, PhoneTyped
<1>m. marks \in [Ticket -> MarkType \cup {NULL}]
  BY <1>0 DEF PageInv
<1>1. list' = list /\ listing' = listing
  BY DEF Ping, HearUndo, HearCheckIn
<1>2. ASSUME marks'[k] = marks[k] \/ ~Firm(marks[k]) PROVE Remembers(k)'
  BY <1>1, <1>2, KeptRemembers
<1>3. ASSUME NEW news \in SUBSET Ticket, NEW now \in PhoneTimes, Ping(news, now) PROVE Remembers(k)'
  <2>1. marks'[k] = marks[k] \/ (k \in news /\ marks'[k] = Mark(ticket[k].by, now, "server"))
    BY <1>3 DEF Ping
  <2>2. k \in news => ticket[k].by # NULL
    BY <1>3 DEF Ping
  <2>3. ASSUME k \in news, marks'[k] = Mark(ticket[k].by, now, "server") PROVE Remembers(k)'
    <3>1. ticket[k].by \in CheckIn /\ InOrGone(k)
      BY <1>0, <2>2, <2>3 DEF ServerInv, InOrGone
    <3> QED BY <1>1, <2>3, <3>1, FreshMark
  <2> QED BY <1>2, <2>1, <2>3
<1>4. ASSUME NEW t \in Ticket, NEW b \in BOOLEAN, HearUndo(t, b) PROVE Remembers(k)'
  <2>1. marks' = [marks EXCEPT ![t] = NULL]
    BY <1>4 DEF HearUndo
  <2>2. k # t => marks'[k] = marks[k]
    BY <1>m, <2>1
  <2>3. ASSUME k = t PROVE ~Firm(marks[k])
    <3>1. /\ marks[k] # NULL
          /\ (marks[k].source = "relay" /\ marks[k].known = NULL) \/ <<k, marks[k].of>> \in undone
      BY <1>4, <2>3 DEF HearUndo
    <3>2. marks[k].of \in CheckIn
      BY <1>m, <3>1 DEF MarkType
    <3> QED BY <1>0, <3>1, <3>2 DEF Firm, NoUndo
  <2> QED BY <1>2, <2>2, <2>3
<1>5. ASSUME NEW t \in Ticket, NEW b \in BOOLEAN, NEW now \in PhoneTimes, HearCheckIn(t, b, now)
      PROVE  Remembers(k)'
  <2> DEFINE of == IF b THEN ticket[t].by ELSE Elsewhere
             known == IF ~b THEN NULL
                      ELSE IF marks[t] = NULL \/ marks[t].known = NULL THEN now ELSE marks[t].known
  <2>1. marks' = [marks EXCEPT ![t] = Mark(of, known, "relay")]
    BY <1>5 DEF HearCheckIn
  <2>2. k # t => marks'[k] = marks[k]
    BY <1>m, <2>1
  <2>3. ASSUME k = t, Firm(marks[k]) PROVE Remembers(k)'
    <3>1. marks[k].source = "relay" /\ marks[k].known # NULL /\ b /\ ticket[k].by # NULL
      BY <1>5, <2>3 DEF HearCheckIn, Firm
    <3>2. known = marks[k].known /\ of = ticket[k].by
      BY <2>3, <3>1 DEF Firm
    <3>3. of \in CheckIn /\ known \in Int
      <4>1. marks[k] \in MarkType
        BY <1>m, <2>3 DEF Firm
      <4> QED BY <1>0, <3>1, <3>2, <4>1 DEF ServerInv, MarkType
    <3> HIDE DEF of, known
    <3>4. marks'[k] = Mark(of, known, "relay")
      BY <1>m, <2>1, <2>3
    <3>5. marks'[k] \in MarkType
      BY <3>3, <3>4, MarkOK
    <3>6. Firm(marks'[k]) /\ marks'[k].known = marks[k].known
      BY <3>1, <3>2, <3>4, <3>5, NullAssumption DEF Firm, Mark
    <3> QED BY <1>1, <3>1, <3>6, KeptRemembers
  <2> QED BY <1>2, <2>2, <2>3
<1> QED BY <1>3, <1>4, <1>5

\* The ADMITs the phone shows by itself.
LEMMA AnswerRemembers ==
  ASSUME TypedInv, [Next]_vars, NEW t \in Ticket, NEW r, AnswerOffline(t, r),
         list' = list, listing' = listing,
         NEW s \in mine', NEW k, k = made'[s], NoUndo(k)', s \in mine => Remembers(k)
  PROVE  Remembers(k)'
<1>0. PageInv
  BY DEF TypedInv, PhoneTyped
<1>m. marks \in [Ticket -> MarkType \cup {NULL}]
  BY <1>0 DEF PageInv
<1>1. made' = Append(made, t) /\ Len(made) < MaxScans
  BY DEF AnswerOffline
<1>2. NewId \in Scan /\ NewId \notin Old /\ made'[NewId] = t /\ MadeGrows
  BY <1>0, <1>1, OneMore DEF PageInv
<1>3. OnlyHere(Mark(NewId, NULL, "own"))
  BY <1>2, OwnMark DEF CheckIn
<1>4. \/ mine' = mine /\ marks' = marks
      \/ mine' = mine \cup {NewId} /\ marks' = [marks EXCEPT ![t] = Mark(NewId, NULL, "own")]
  BY DEF AnswerOffline
<1>5. ASSUME NEW own, own = Mark(NewId, NULL, "own"), marks' = [marks EXCEPT ![t] = own], k = t
      PROVE  Remembers(k)'
  <2>1. marks'[k] = own
    BY <1>m, <1>5
  <2>2. OnlyHere(marks'[k])
    BY <1>3, <1>5, <2>1
  <2> QED BY <2>2 DEF Remembers
<1>6. ASSUME marks'[k] = marks[k], s \in mine PROVE Remembers(k)'
  <2>1. k \in Ticket
    BY <1>0, <1>2, <1>6, LogTickets, OldIsScan DEF MadeGrows, PageInv
  <2> QED BY <1>6, <2>1, KeptRemembers
<1>7. s \notin mine => s = NewId /\ marks' = [marks EXCEPT ![t] = Mark(NewId, NULL, "own")]
  BY <1>4
<1>8. k # t => marks'[k] = marks[k]
  <2>1. \A x, own : x # t /\ marks' = [marks EXCEPT ![t] = own] => marks'[x] = marks[x]
    BY <1>m
  <2> QED BY <1>4, <2>1
<1>9. CASE s \in mine
  BY <1>4, <1>5, <1>6, <1>8, <1>9
<1>10. CASE s \notin mine
  BY <1>2, <1>5, <1>7, <1>10
<1> QED BY <1>9, <1>10

\* So does an early one.
LEMMA EarlyRemembers ==
  ASSUME TypedInv, [Next]_vars, AdmitEarly,
         NEW s \in mine', NEW k \in Ticket, k = made[s], NoUndo(k)', s \in mine => Remembers(k)
  PROVE  Remembers(k)'
<1>0. PageInv
  BY DEF TypedInv, PhoneTyped
<1>m. marks \in [Ticket -> MarkType \cup {NULL}]
  BY <1>0 DEF PageInv
<1> DEFINE own == Mark(front.id, NULL, "own")
<1>1. /\ marks' = [marks EXCEPT ![made[front.id]] = own]
      /\ mine' = mine \cup {front.id} /\ list' = list /\ listing' = listing
  BY DEF AdmitEarly
<1>2. OnlyHere(own)
  <2>1. front.id \in CheckIn
    BY <1>0, FrontIs, OldIsScan DEF AdmitEarly, CheckIn
  <2> QED BY <2>1, OwnMark
<1> HIDE DEF own
<1>3. CASE k = made[front.id]
  <2>1. marks'[k] = own
    BY <1>m, <1>1, <1>3
  <2> QED BY <1>2, <2>1 DEF Remembers
<1>4. CASE k # made[front.id]
  <2>1. marks'[k] = marks[k] /\ s \in mine
    BY <1>m, <1>1, <1>4
  <2> QED BY <1>1, <2>1, KeptRemembers
<1> QED BY <1>3, <1>4

\* A list is read: what the phone knows of is on it.
LEMMA ReadRemembers ==
  ASSUME TypedInv, [Next]_vars, NEW k \in Ticket, NoUndo(k)', Remembers(k), NEW asOf, ReadList(asOf)
  PROVE  Remembers(k)'
<1>1. list' = list /\ marks' = marks
  BY DEF ReadList, page
<1>2. /\ listing'.in = {x \in Ticket : ticket[x].by # NULL}
      /\ listing'.gone = {x \in Ticket : ~ticket[x].live}
  BY DEF ReadList
<1>3. InOrGone(k) => OnList(listing', k)
  BY <1>2 DEF InOrGone, OnList
<1> QED BY <1>1, <1>3, KeptRemembers

\* What the page remembers it knows of.
LEMMA NextRemembered ==
  ASSUME MaxSkew <= Grace, TypedInv, LogTrue, AnswersTrue, MineAdmits, NoListYet, Remembered, [Next]_vars
  PROVE  Remembered'
<1>0. PageInv /\ MadeGrows /\ mine \subseteq Old /\ Old \subseteq Scan
  BY NextMade, OldIsScan DEF TypedInv, PhoneTyped, PageInv
<1> SUFFICES ASSUME NEW s \in mine', NEW k, k = made'[s], list' # NULL, NoUndo(k)'
             PROVE  Remembers(k)'
  BY DEF Remembered
<1>1. ASSUME s \in mine, list # NULL PROVE k = made[s] /\ k \in Ticket /\ NoUndo(k) /\ Remembers(k)
  <2>1. k = made[s] /\ k \in Ticket
    BY <1>0, <1>1, LogTickets DEF MadeGrows
  <2>2. NoUndo(k)
    BY <2>1, InStays
  <2> QED BY <1>1, <2>1, <2>2 DEF Remembered
<1>2. s \in mine => list # NULL
  BY DEF NoListYet
<1>3. s \in mine => Remembers(k)
  BY <1>1, <1>2
<1>4. ASSUME s \in mine, list' = list, listing' \in {listing, NULL}, marks' = marks PROVE Remembers(k)'
  BY <1>1, <1>2, <1>4, KeptRemembers
<1>5. ASSUME NEW t \in Ticket, ReadOffline(t) PROVE Remembers(k)'
  <2>1. AnswerOffline(t, NULL) /\ list' = list /\ listing' = listing
    BY <1>5 DEF ReadOffline
  <2> QED BY <1>3, <2>1, AnswerRemembers
<1>6. CASE FrontTimeout
  <2>1. list' = list /\ listing' = listing
        /\ (AnswerOffline(made[front.id], front.id) \/ (mine' = mine /\ marks' = marks))
    BY <1>6 DEF FrontTimeout
  <2>2. made[front.id] \in Ticket
    BY <1>0, <1>6, FrontIs, LogTickets DEF FrontTimeout
  <2> QED BY <1>3, <1>4, <2>1, <2>2, AnswerRemembers
<1>7. CASE AdmitEarly
  <2>1. s \in Old /\ made' = made
    BY <1>0, <1>7, FrontIs DEF AdmitEarly
  <2>2. k = made[s] /\ k \in Ticket
    BY <1>0, <2>1, LogTickets
  <2> QED BY <1>3, <1>7, <2>2, EarlyRemembers
<1>8. ASSUME NEW m \in net, FrontAnswered(m) PROVE Remembers(k)'
  <2>1. made' = made /\ list' = list /\ front # NULL
        /\ (s \in mine \/ (s = front.id /\ m.answer.result = "admitted" /\ ~Known(marks[made[s]])))
    BY <1>8 DEF FrontAnswered
  <2>2. k = made[s] /\ k \in Ticket
    BY <1>0, <2>1, FrontIs, LogTickets
  <2>3. Remembers(k) \/ (k = made[front.id] /\ m.answer.result = "admitted" /\ ~Known(marks[k]))
    BY <1>3, <2>1, <2>2
  <2> QED BY <1>8, <2>1, <2>2, <2>3, LearntRemembers
<1>9. ASSUME NEW w \in behind, NEW m \in net, BehindAnswered(w, m) PROVE Remembers(k)'
  <2>1. s \in mine /\ made' = made
        /\ (m.answer.result \in {"admitted", "already_in"} \/ made[s] # made[w.id])
    BY <1>9 DEF BehindAnswered
  <2> QED BY <1>1, <1>2, <1>9, <2>1, SettledRemembers
<1>10. ASSUME NEW n \in DOMAIN outbox, UndoHere(n) PROVE Remembers(k)'
  <2> DEFINE t == made[outbox[n].id]
  <2>1. /\ s \in mine /\ made[s] # t /\ list' = list /\ listing' = listing
        /\ marks' = [marks EXCEPT ![t] = NULL]
    BY <1>10 DEF UndoHere
  <2>2. k = made[s] /\ k \in Ticket /\ Remembers(k)
    BY <1>1, <1>2, <2>1
  <2>3. marks'[k] = marks[k]
    BY <1>0, <2>1, <2>2 DEF PageInv
  <2> QED BY <2>1, <2>2, <2>3, KeptRemembers
<1>11. ASSUME NEW m \in net, BatchAnswered(m) PROVE Remembers(k)'
  <2>1. s \in mine
    BY <1>11 DEF BatchAnswered
  <2> QED BY <1>1, <1>2, <1>11, <2>1, SentRemembers
<1>12. ASSUME NEW m \in net, BatchRefused(m) PROVE Remembers(k)'
  <2>1. s \in mine /\ list' = list /\ listing' = listing /\ marks' = marks
    BY <1>12 DEF BatchRefused
  <2> QED BY <1>4, <2>1
<1>13. ASSUME mine' = mine,
              \/ \E news \in SUBSET Ticket, now \in PhoneTimes : Ping(news, now)
              \/ \E t \in Ticket, b \in BOOLEAN :
                   HearUndo(t, b) \/ \E now \in PhoneTimes : HearCheckIn(t, b, now)
       PROVE  Remembers(k)'
  BY <1>1, <1>2, <1>13, HeardRemembers
<1>14. ASSUME NEW asOf, ReadList(asOf) PROVE Remembers(k)'
  <2>1. mine' = mine
    BY <1>14 DEF ReadList, history
  <2> QED BY <1>1, <1>2, <1>14, <2>1, ReadRemembers
<1>15. CASE AdoptList
  <2>1. s \in mine
    BY <1>15 DEF AdoptList, history
  <2> QED BY <1>1, <1>2, <1>15, <2>1, AdoptRemembers
<1>16. ASSUME NEW b \in BOOLEAN, Reload(b) PROVE Remembers(k)'
  <2>1. list # NULL /\ made' = made
    BY <1>16 DEF Reload
  <2>2. OnlyHere(marks'[made[s]])
    BY <1>16, <2>1, ReloadRemembers
  <2> QED BY <2>1, <2>2 DEF Remembers
<1>17. ~SignOut
  BY DEF SignOut
<1>18. \/ mine' = mine /\ list' = list /\ listing' \in {listing, NULL} /\ marks' = marks
       \/ \E t \in Ticket : ReadOffline(t)
       \/ FrontTimeout \/ AdmitEarly
       \/ \E m \in net : FrontAnswered(m) \/ BatchAnswered(m) \/ BatchRefused(m)
       \/ \E w \in behind, m \in net : BehindAnswered(w, m)
       \/ \E n \in DOMAIN outbox : UndoHere(n)
       \/ /\ mine' = mine
          /\ \/ \E news \in SUBSET Ticket, now \in PhoneTimes : Ping(news, now)
             \/ \E t \in Ticket, b \in BOOLEAN :
                  HearUndo(t, b) \/ \E now \in PhoneTimes : HearCheckIn(t, b, now)
       \/ \E asOf \in 0 .. MaxClock : ReadList(asOf)
       \/ AdoptList
       \/ \E b \in BOOLEAN : Reload(b)
       \/ SignOut
  BY ZenonT(30) DEF Next, Scanning, Syncing, Listening, vars, server, page, history, bounds,
       ReadOnline, Ask, Retry, FrontSlow, FrontRefused, BehindRefused, BehindUnanswered,
       TakeBatch, SendBatch, ForgetBatch, BatchUnanswered, Ping, HearUndo, HearCheckIn,
       Serve, Lose, CheckInElsewhere, UndoAtServer, CancelTicket, Tick
<1> QED BY <1>4, <1>5, <1>6, <1>7, <1>8, <1>9, <1>10, <1>11, <1>12, <1>13, <1>14, <1>15, <1>16, <1>17,
           <1>18

MemoryInv ==
  TypedInv /\ Kinds /\ LogTrue /\ AnswersTrue /\ MineAdmits /\ NoListYet /\ Remembered

\* With a clock off by no more than the grace (MARK_GRACE_MS), the page does not
\* let in again whom it let in, whatever lists, pings, answers and relay messages
\* come in whatever order (use-offline.ts: adopt, markFromServer, markFromRelay,
\* sendOutbox; scanner.tsx: settleEarly).
THEOREM AdmitsRemembered ==
  ASSUME MaxSkew <= Grace
  PROVE  Spec => []OwnAdmitsRemembered
<1>1. Init => MemoryInv
  <2> SUFFICES ASSUME Init PROVE MemoryInv
    OBVIOUS
  <2>1. LogTrue /\ AnswersTrue /\ MineAdmits /\ NoListYet /\ Remembered
    BY DEF Init, LogTrue, AnswersTrue, MineAdmits, NoListYet, Remembered
  <2>3. Kinds
    BY InitKinds
  <2> QED BY <2>1, <2>3, InitTyped DEF MemoryInv
<1>2. MemoryInv /\ [Next]_vars => MemoryInv'
  BY NextTyped, NextKinds, NextLogTrue, NextAnswersTrue, NextMineAdmits, NextNoList, NextRemembered
     DEF MemoryInv
<1>3. MemoryInv => OwnAdmitsRemembered
  BY RememberedIs DEF MemoryInv
<1> QED BY <1>1, <1>2, <1>3, PTL DEF Spec
=============================================================================
