----------------------------- MODULE RelayProofs -----------------------------
(***************************************************************************)
(* Theorems about RelayRoom, for any number of tickets, passes, phones,    *)
(* commits, attempts and rebuilds, with announcements in any order and     *)
(* links that drop anywhere: the state is of its type, a revoked pass is   *)
(* silent, the server's word falls only to the server's undo of that very  *)
(* check-in, and a room that heard all of the server's words in order      *)
(* agrees with it.  And, where no link drops in the middle of a catch-up,  *)
(* a phone with nothing on its way knows all that the room does.           *)
(***************************************************************************)
EXTENDS RelayRoom, FiniteSetTheorems, SequenceTheorems, WellFoundedInduction, TLAPS

\* What is announced and queued.
Announced ==
  /\ log \in Seq(Announcement) /\ Len(log) <= MaxCommits
  /\ unqueued \subseteq 1 .. Len(log) /\ delayed \subseteq 1 .. Len(log)
  /\ waiting \in Seq(1 .. Len(log))

\* The room's rows: a confirmed one is no pass's.
RoomRows ==
  /\ rows \in [Ticket -> RoomRow \cup {NULL}]
  /\ \A k \in Ticket : rows[k] # NULL /\ rows[k].confirmed => rows[k].pass = NULL
  /\ seq \in 0 .. MaxSeq /\ epoch \in Nat /\ revoked \subseteq Pass

\* The phones' links: nothing is on its way to one that is down.
Links ==
  /\ phones = [f \in Phone |-> phones[f]]
  /\ \A f \in Phone : /\ {"up", "inbox", "knows"} \subseteq DOMAIN phones[f]
                      /\ phones[f].up \in BOOLEAN
                      /\ ~phones[f].up => phones[f].inbox = <<>>

RelayInv == Announced /\ RoomRows /\ Links /\ RevokedPassSilent

-----------------------------------------------------------------------------
(* Facts about the data.                                                   *)

\* A finite set of numbers that is not empty has a largest one.
LEMMA LargestExists ==
  ASSUME NEW S \in SUBSET Nat, IsFiniteSet(S), S # {}
  PROVE  \E n \in S : \A m \in S : m <= n
<1> DEFINE HasLargest(A) == \E n \in A : \A m \in A : m <= n
           Bad == {A \in FiniteSubsetsOf(Nat) : A # {} /\ ~HasLargest(A)}
<1>1. SUFFICES ASSUME Bad # {} PROVE FALSE
  BY DEF FiniteSubsetsOf
<1>2. PICK A \in Bad : \A B \in Bad : <<B, A>> \notin StrictSubsetOrdering(Nat)
  <2>1. IsWellFoundedOn(StrictSubsetOrdering(Nat), FiniteSubsetsOf(Nat))
    BY FS_StrictSubsetOrderingWellFounded
  <2>2. Bad \subseteq FiniteSubsetsOf(Nat)
    OBVIOUS
  <2> QED BY <1>1, <2>1, <2>2, WFMin
<1>3. A \in SUBSET Nat /\ IsFiniteSet(A) /\ A # {} /\ ~HasLargest(A)
  BY DEF FiniteSubsetsOf
<1>4. PICK x \in A : TRUE
  BY <1>3
<1>5. A \ {x} # {}
  BY <1>3, <1>4
<1>6. A \ {x} \in FiniteSubsetsOf(Nat)
  BY <1>3, FS_RemoveElement DEF FiniteSubsetsOf
<1>7. <<A \ {x}, A>> \in StrictSubsetOrdering(Nat)
  BY <1>3, <1>4 DEF StrictSubsetOrdering
<1>8. HasLargest(A \ {x})
  BY <1>2, <1>5, <1>6, <1>7
<1>9. PICK n \in A \ {x} : \A m \in A \ {x} : m <= n
  BY <1>8
<1>10. CASE x <= n
  BY <1>3, <1>9, <1>10
<1>11. CASE n < x
  <2>1. \A m \in A : m <= x
    BY <1>3, <1>4, <1>9, <1>11
  <2> QED BY <1>3, <1>4, <2>1
<1> QED BY <1>3, <1>4, <1>9, <1>10, <1>11

\* What the server says of a ticket is the last of what it announced about it.
LEMMA LastWord ==
  ASSUME Announced, NEW k \in Ticket
  PROVE  \/ CheckedIn(k) = NULL /\ \A n \in DOMAIN log : ~AboutTicket(n, k)
         \/ \E n \in DOMAIN log :
              /\ AboutTicket(n, k) /\ \A m \in DOMAIN log : AboutTicket(m, k) => m <= n
              /\ CheckedIn(k) = IF log[n].kind = "in" THEN log[n].at ELSE NULL
<1> DEFINE of == {n \in DOMAIN log : AboutTicket(n, k)}
           last == CHOOSE n \in of : \A m \in of : m <= n
<1>1. of \in SUBSET (1 .. Len(log)) /\ Len(log) \in Nat
  BY DEF Announced
<1>2. CheckedIn(k) = IF of = {} THEN NULL
                     ELSE IF log[last].kind = "in" THEN log[last].at ELSE NULL
  BY Zenon DEF CheckedIn
<1>3. CASE of = {}
  BY <1>2, <1>3
<1>4. CASE of # {}
  <2>1. IsFiniteSet(1 .. Len(log))
    BY <1>1, FS_Interval
  <2> HIDE DEF of
  <2>2. IsFiniteSet(of)
    BY <1>1, <2>1, FS_Subset
  <2>3. of \in SUBSET Nat
    BY <1>1
  <2>4. \E n \in of : \A m \in of : m <= n
    BY <1>4, <2>2, <2>3, LargestExists
  <2>5. last \in of /\ \A m \in of : m <= last
    BY <2>4
  <2>6. CheckedIn(k) = IF log[last].kind = "in" THEN log[last].at ELSE NULL
    BY <1>2, <1>4
  <2> HIDE DEF last
  <2> QED BY <2>5, <2>6 DEF of
<1> QED BY <1>3, <1>4

\* The time of the check-in that stands at the server is one it announced.
LEMMA CheckedInTime ==
  ASSUME Announced, NEW k \in Ticket, CheckedIn(k) # NULL
  PROVE  CheckedIn(k) \in 1 .. MaxCommits
<1>1. PICK n \in DOMAIN log : log[n].kind = "in" /\ CheckedIn(k) = log[n].at
  BY LastWord
<1>2. log[n] \in Announcement
  BY DEF Announced
<1> QED BY <1>1, <1>2 DEF Announcement

\* A message to everyone changes nothing but what is on its way.
LEMMA ToldOnly ==
  ASSUME Links, NEW messages, NEW sender
  PROVE  LET told == Broadcast(messages, sender)
         IN  /\ told = [f \in Phone |-> told[f]]
             /\ \A f \in Phone : /\ {"up", "inbox", "knows"} \subseteq DOMAIN told[f]
                                 /\ told[f].up = phones[f].up
                                 /\ ~told[f].up => told[f].inbox = <<>>
<1> DEFINE told == Broadcast(messages, sender)
<1>1. told = [f \in Phone |-> told[f]]
  BY DEF Broadcast
<1>2. ASSUME NEW f \in Phone
      PROVE  /\ {"up", "inbox", "knows"} \subseteq DOMAIN told[f]
             /\ told[f].up = phones[f].up
             /\ ~told[f].up => told[f].inbox = <<>>
  <2>1. told[f] = IF phones[f].up /\ f # sender
                    THEN [phones[f] EXCEPT !.inbox = @ \o messages]
                    ELSE phones[f]
    BY <1>2 DEF Broadcast
  <2>2. {"up", "inbox", "knows"} \subseteq DOMAIN phones[f]
    BY <1>2 DEF Links
  <2>3. ~phones[f].up => phones[f].inbox = <<>>
    BY <1>2 DEF Links
  <2> HIDE DEF told
  <2>4. CASE phones[f].up /\ f # sender
    <3>1. told[f] = [phones[f] EXCEPT !.inbox = phones[f].inbox \o messages]
      BY <2>1, <2>4
    <3> QED BY <2>2, <2>4, <3>1
  <2>5. CASE ~(phones[f].up /\ f # sender)
    BY <2>1, <2>2, <2>3, <2>5
  <2> QED BY <2>4, <2>5
<1> HIDE DEF told
<1> QED BY <1>1, <1>2 DEF told

\* So a step whose phones only hear of something leaves every link as it was.
LEMMA StillLinked ==
  ASSUME Links, NEW messages, NEW sender, phones' = Broadcast(messages, sender)
  PROVE  Links' /\ \A f \in Phone : phones'[f].up = phones[f].up
BY ToldOnly DEF Links

\* The phone that spoke also knows its own word.
LEMMA KnowsOnly ==
  ASSUME Links, NEW messages, NEW sender \in Phone, NEW k, NEW word,
         phones' = [Broadcast(messages, sender) EXCEPT ![sender].knows[k] = word]
  PROVE  Links' /\ \A f \in Phone : phones'[f].up = phones[f].up
<1> DEFINE told == Broadcast(messages, sender)
           l == [told[sender] EXCEPT !.knows = [told[sender].knows EXCEPT ![k] = word]]
<1>1. /\ told = [f \in Phone |-> told[f]]
      /\ \A f \in Phone : /\ {"up", "inbox", "knows"} \subseteq DOMAIN told[f]
                          /\ told[f].up = phones[f].up
                          /\ ~told[f].up => told[f].inbox = <<>>
  BY ToldOnly
<1>2. phones' = [told EXCEPT ![sender] = l]
  OBVIOUS
<1> HIDE DEF told
<1>3. /\ {"up", "inbox", "knows"} \subseteq DOMAIN l /\ l.up = told[sender].up
      /\ l.inbox = told[sender].inbox
  BY <1>1
<1> HIDE DEF l
<1>4. phones' = [f \in Phone |-> IF f = sender THEN l ELSE told[f]]
  BY <1>1, <1>2
<1>5. \A f \in Phone : /\ {"up", "inbox", "knows"} \subseteq DOMAIN phones'[f]
                       /\ phones'[f].up = phones[f].up
                       /\ ~phones'[f].up => phones'[f].inbox = <<>>
  BY <1>1, <1>3, <1>4
<1>6. \A f \in Phone : phones[f].up \in BOOLEAN
  BY DEF Links
<1> QED BY <1>4, <1>5, <1>6 DEF Links

-----------------------------------------------------------------------------
(* What the room's own steps keep.                                         *)

\* What a step must keep of a confirmed row.
ConfirmedKept ==
  \A k \in Ticket :
    Standing(rows[k]) /\ rows[k].confirmed /\ epoch' = epoch =>
      \/ Standing(rows'[k]) /\ rows'[k].confirmed
      \/ \E n \in DOMAIN log :
           log[n] = [kind |-> "undo", subject |-> k, at |-> rows[k].at]

\* A row the server's word puts in place of another keeps the invariant.
LEMMA PutKeeps ==
  ASSUME RoomRows, Links, RevokedPassSilent, NEW k \in Ticket, NEW at \in 1 .. MaxCommits,
         NEW removed \in {"no", "server"},
         Put(k, Row(at, NULL, TRUE, seq + 1, removed))
  PROVE  RoomRows' /\ Links' /\ RevokedPassSilent'
<1> DEFINE r == Row(at, NULL, TRUE, seq + 1, removed)
<1>1. seq + 1 \in 1 .. MaxSeq /\ seq' = seq + 1
  BY BoundAssumption DEF Put, RoomRows
<1>2. r \in RoomRow /\ r.confirmed /\ r.pass = NULL
  BY <1>1, BoundAssumption DEF Row, RoomRow
<1> HIDE DEF r
<1>3. rows' = [rows EXCEPT ![k] = r] /\ UNCHANGED <<epoch, revoked>>
  BY DEF Put, r
<1>4. RoomRows'
  BY <1>1, <1>2, <1>3 DEF RoomRows
<1>5. Links' /\ \A f \in Phone : phones'[f].up = phones[f].up
  BY StillLinked DEF Put
<1>6. \A j \in Ticket : rows'[j] = IF j = k THEN r ELSE rows[j]
  BY <1>3 DEF RoomRows
<1>7. NULL \notin revoked
  BY NullAssumption DEF RoomRows
<1>8. RevokedPassSilent'
  <2> SUFFICES ASSUME NEW p \in revoked
               PROVE  /\ \A f \in Phone : PassOf[f] = p => ~phones'[f].up
                      /\ \A j \in Ticket : Standing(rows'[j]) => rows'[j].pass # p
    BY <1>3 DEF RevokedPassSilent, Standing
  <2>1. \A f \in Phone : PassOf[f] = p => ~phones'[f].up
    BY <1>5 DEF RevokedPassSilent
  <2>2. \A j \in Ticket : Standing(rows'[j]) => rows'[j].pass # p
    BY <1>2, <1>6, <1>7 DEF RevokedPassSilent
  <2> QED BY <2>1, <2>2
<1> QED BY <1>4, <1>5, <1>8

\* Nothing of the room moved.
LEMMA RoomStays ==
  ASSUME RoomRows, Links, RevokedPassSilent, UNCHANGED <<rows, seq, epoch, revoked, phones>>
  PROVE  RoomRows' /\ Links' /\ RevokedPassSilent' /\ ConfirmedKept
BY DEF RoomRows, Links, RevokedPassSilent, Standing, ConfirmedKept

\* A check-in the server announced.
LEMMA TakeInKeeps ==
  ASSUME RoomRows, Links, RevokedPassSilent, NEW k \in Ticket, NEW at \in 1 .. MaxCommits,
         TakeIn(k, at)
  PROVE  RoomRows' /\ Links' /\ RevokedPassSilent' /\ ConfirmedKept
<1>1. CASE AlreadyTaken(rows[k], at)
  <2>1. UNCHANGED <<rows, seq, epoch, revoked, phones>>
    BY <1>1 DEF TakeIn
  <2> QED BY <2>1, RoomStays
<1>2. CASE ~AlreadyTaken(rows[k], at)
  <2> DEFINE r == Row(at, NULL, TRUE, seq + 1, "no")
  <2>1. Put(k, r)
    BY <1>2 DEF TakeIn
  <2>2. RoomRows' /\ Links' /\ RevokedPassSilent'
    BY <2>1, PutKeeps
  <2>3. r \in RoomRow /\ r.confirmed /\ r.removed = "no"
    BY <2>1, BoundAssumption DEF Put, RoomRows, Row, RoomRow
  <2>4. \A j \in Ticket : rows'[j] = IF j = k THEN r ELSE rows[j]
    BY <2>1 DEF Put, RoomRows
  <2>5. ConfirmedKept
    <3> HIDE DEF r
    <3> QED BY <2>3, <2>4, NullAssumption DEF ConfirmedKept, Standing
  <2> QED BY <2>2, <2>5
<1> QED BY <1>1, <1>2

\* An undo the server announced: of a confirmed row, only of that check-in.
LEMMA TakeUndoKeeps ==
  ASSUME RoomRows, Links, RevokedPassSilent, NEW k \in Ticket, NEW at \in 1 .. MaxCommits,
         NEW n \in DOMAIN log, log[n] = [kind |-> "undo", subject |-> k, at |-> at],
         TakeUndo(k, at)
  PROVE  RoomRows' /\ Links' /\ RevokedPassSilent' /\ ConfirmedKept
<1>1. CASE UndoOfAnother(rows[k], at)
  <2>1. UNCHANGED <<rows, seq, epoch, revoked, phones>>
    BY <1>1 DEF TakeUndo
  <2> QED BY <2>1, RoomStays
<1>2. CASE ~UndoOfAnother(rows[k], at)
  <2>1. Put(k, Row(at, NULL, TRUE, seq + 1, "server"))
    BY <1>2 DEF TakeUndo
  <2>2. RoomRows' /\ Links' /\ RevokedPassSilent'
    BY <2>1, PutKeeps
  <2>3. \A j \in Ticket : j # k => rows'[j] = rows[j]
    BY <2>1 DEF Put, RoomRows
  <2>4. Standing(rows[k]) /\ rows[k].confirmed => rows[k].at = at
    BY <1>2 DEF UndoOfAnother
  <2>5. ConfirmedKept
    BY <2>3, <2>4 DEF ConfirmedKept
  <2> QED BY <2>2, <2>5
<1> QED BY <1>1, <1>2

\* A revoked pass: its claims go, then its phones' links; no confirmed row is a
\* claim.
LEMMA TakeRevokeKeeps ==
  ASSUME RoomRows, Links, RevokedPassSilent, NEW p \in Pass, TakeRevoke(p)
  PROVE  RoomRows' /\ Links' /\ RevokedPassSilent' /\ ConfirmedKept
<1>1. PICK order \in SetToSeqs(ClaimsOf(p)) :
        LET Place(k) == CHOOSE i \in DOMAIN order : order[i] = k
            messages == [i \in DOMAIN order |->
                           Message("undo", {<<order[i], seq + i>>}, FALSE)]
            told == Broadcast(messages, NULL)
        IN  /\ seq + Len(order) <= MaxSeq
            /\ seq' = seq + Len(order)
            /\ rows' = [k \in Ticket |->
                          IF k \in ClaimsOf(p)
                            THEN [rows[k] EXCEPT !.removed = "gate", !.seq = seq + Place(k)]
                            ELSE rows[k]]
            /\ revoked' = revoked \cup {p}
            /\ phones' = [f \in Phone |-> IF PassOf[f] = p
                                            THEN [told[f] EXCEPT !.up = FALSE, !.inbox = <<>>]
                                            ELSE told[f]]
            /\ UNCHANGED epoch
  BY Zenon DEF TakeRevoke
<1> DEFINE Place(k) == CHOOSE i \in DOMAIN order : order[i] = k
           messages == [i \in DOMAIN order |->
                          Message("undo", {<<order[i], seq + i>>}, FALSE)]
           told == Broadcast(messages, NULL)
<1>2. /\ seq + Len(order) <= MaxSeq /\ seq' = seq + Len(order)
      /\ revoked' = revoked \cup {p} /\ epoch' = epoch
  BY <1>1
<1>3. rows' = [k \in Ticket |->
                 IF k \in ClaimsOf(p)
                   THEN [rows[k] EXCEPT !.removed = "gate", !.seq = seq + Place(k)]
                   ELSE rows[k]]
  BY <1>1
<1>4. phones' = [f \in Phone |-> IF PassOf[f] = p
                                   THEN [told[f] EXCEPT !.up = FALSE, !.inbox = <<>>]
                                   ELSE told[f]]
  BY <1>1
<1> DEFINE C == ClaimsOf(p)
           n == Cardinality(C)
<1>5. /\ n \in Nat /\ order \in [1 .. n -> C] /\ Len(order) = n
      /\ \A k \in C : \E i \in 1 .. n : order[i] = k
  <2>1. IsFiniteSet(C)
    BY TicketAssumption, FS_Subset DEF ClaimsOf
  <2> HIDE DEF C
  <2>2. n \in Nat
    BY <2>1, FS_CardinalityType
  <2>3. order \in [1 .. n -> C] /\ \A i, j \in 1 .. n : i # j => order[i] # order[j]
    BY <1>1 DEF SetToSeqs, C
  <2>4. IsFiniteSet(1 .. n) /\ Cardinality(1 .. n) = n
    BY <2>2, FS_Interval
  <2>5. order \in Injection(1 .. n, C)
    BY <2>3 DEF Injection, IsInjective
  <2>6. order \in Surjection(1 .. n, C)
    BY <2>1, <2>4, <2>5, FS_Injection
  <2>7. \A k \in C : \E i \in 1 .. n : order[i] = k
    BY <2>6 DEF Surjection
  <2>8. Len(order) = n
    BY <2>2, <2>3
  <2> QED BY <2>2, <2>3, <2>7, <2>8
<1>6. \A k \in C : Place(k) \in 1 .. n
  <2> SUFFICES ASSUME NEW k \in C PROVE Place(k) \in 1 .. n
    OBVIOUS
  <2>1. DOMAIN order = 1 .. n
    BY <1>5
  <2>2. \E i \in DOMAIN order : order[i] = k
    BY <1>5, <2>1
  <2> HIDE DEF C, n
  <2> QED BY <2>1, <2>2
<1>7. C \subseteq Ticket /\ \A k \in C : /\ rows[k] \in RoomRow /\ ~rows[k].confirmed
                                         /\ Standing(rows[k])
  BY DEF ClaimsOf, RoomRows, Standing
<1>8. \A k \in Ticket : Standing(rows[k]) /\ rows[k].pass = p => rows[k].confirmed \/ k \in C
  BY DEF ClaimsOf
<1>9. \A k \in C : seq + Place(k) \in 1 .. MaxSeq
  BY <1>2, <1>5, <1>6, BoundAssumption DEF RoomRows
<1>10. \A k \in Ticket : Standing(rows[k]) /\ rows[k].confirmed => rows[k].pass \notin Pass
  BY NullAssumption DEF RoomRows, Standing
<1> DEFINE Gone(k) == [rows[k] EXCEPT !.removed = "gate", !.seq = seq + Place(k)]
<1>11. \A k \in C : /\ Gone(k) \in RoomRow /\ ~Gone(k).confirmed /\ ~Standing(Gone(k))
  <2> HIDE DEF C, Place
  <2> QED BY <1>7, <1>9 DEF RoomRow, Standing
<1> HIDE DEF C, Gone
<1>12. rows' = [k \in Ticket |-> IF k \in C THEN Gone(k) ELSE rows[k]]
  BY <1>3 DEF C, Gone
<1>13. RoomRows'
  BY <1>2, <1>5, <1>11, <1>12 DEF RoomRows
<1>14. ConfirmedKept
  BY <1>7, <1>12 DEF ConfirmedKept
<1>15. /\ told = [f \in Phone |-> told[f]]
       /\ \A f \in Phone : /\ {"up", "inbox", "knows"} \subseteq DOMAIN told[f]
                           /\ told[f].up = phones[f].up
                           /\ ~told[f].up => told[f].inbox = <<>>
  BY ToldOnly
<1> HIDE DEF told
<1>16. \A f \in Phone : /\ {"up", "inbox", "knows"} \subseteq DOMAIN phones'[f]
                        /\ phones'[f].up = IF PassOf[f] = p THEN FALSE ELSE phones[f].up
                        /\ ~phones'[f].up => phones'[f].inbox = <<>>
  BY <1>4, <1>15
<1>17. Links'
  BY <1>4, <1>16 DEF Links
<1>18. RevokedPassSilent'
  <2> SUFFICES ASSUME NEW q \in revoked'
               PROVE  /\ \A f \in Phone : PassOf[f] = q => ~phones'[f].up
                      /\ \A k \in Ticket : Standing(rows'[k]) => rows'[k].pass # q
    BY DEF RevokedPassSilent, Standing
  <2>1. \A f \in Phone : PassOf[f] = q => ~phones'[f].up
    BY <1>2, <1>16 DEF RevokedPassSilent
  <2>2. \A k \in Ticket : Standing(rows'[k]) => rows'[k].pass # q
    BY <1>2, <1>8, <1>10, <1>11, <1>12 DEF RevokedPassSilent
  <2> QED BY <2>1, <2>2
<1> QED BY <1>13, <1>14, <1>17, <1>18

\* A phone's claim: of a pass that is not revoked, where no row stands.
LEMMA ClaimKeeps ==
  ASSUME RoomRows, Links, RevokedPassSilent, Len(log) \in 0 .. MaxCommits,
         NEW f \in Phone, NEW k \in Ticket, NEW at \in 1 .. Len(log) + 1, Claim(f, k, at)
  PROVE  RoomRows' /\ Links' /\ RevokedPassSilent' /\ ConfirmedKept
<1> DEFINE r == Row(at, PassOf[f], FALSE, seq + 1, "no")
           told == Broadcast(<<Message("checkins", {<<k, seq + 1>>}, FALSE)>>, f)
<1>1. r \in RoomRow /\ ~r.confirmed /\ r.pass = PassOf[f] /\ seq + 1 \in 0 .. MaxSeq
  BY PassAssumption, BoundAssumption DEF Claim, RoomRows, Row, RoomRow
<1>2. PassOf[f] \notin revoked
  BY DEF Claim, RevokedPassSilent
<1>3. /\ ~Standing(rows[k])
      /\ rows' = [rows EXCEPT ![k] = r]
      /\ seq' = seq + 1 /\ UNCHANGED <<epoch, revoked>>
      /\ phones' = [told EXCEPT ![f].knows[k] = <<epoch, seq + 1>>]
  BY DEF Claim
<1> HIDE DEF r
<1>4. \A j \in Ticket : rows'[j] = IF j = k THEN r ELSE rows[j]
  BY <1>3 DEF RoomRows
<1>5. RoomRows'
  BY <1>1, <1>3 DEF RoomRows
<1>6. ConfirmedKept
  BY <1>3, <1>4 DEF ConfirmedKept
<1>7. Links' /\ \A g \in Phone : phones'[g].up = phones[g].up
  BY <1>3, KnowsOnly
<1>8. RevokedPassSilent'
  <2> SUFFICES ASSUME NEW p \in revoked
               PROVE  /\ \A g \in Phone : PassOf[g] = p => ~phones'[g].up
                      /\ \A j \in Ticket : Standing(rows'[j]) => rows'[j].pass # p
    BY <1>3 DEF RevokedPassSilent, Standing
  <2>1. \A g \in Phone : PassOf[g] = p => ~phones'[g].up
    BY <1>7 DEF RevokedPassSilent
  <2>2. \A j \in Ticket : Standing(rows'[j]) => rows'[j].pass # p
    BY <1>1, <1>2, <1>4 DEF RevokedPassSilent
  <2> QED BY <2>1, <2>2
<1> QED BY <1>5, <1>6, <1>7, <1>8

\* A phone takes back its own claim, which the server has not confirmed.
LEMMA UnclaimKeeps ==
  ASSUME RoomRows, Links, RevokedPassSilent,
         NEW f \in Phone, NEW k \in Ticket, Unclaim(f, k)
  PROVE  RoomRows' /\ Links' /\ RevokedPassSilent' /\ ConfirmedKept
<1> DEFINE r == [rows[k] EXCEPT !.removed = "gate", !.seq = seq + 1]
           told == Broadcast(<<Message("undo", {<<k, seq + 1>>}, FALSE)>>, f)
<1>1. /\ Standing(rows[k]) /\ ~rows[k].confirmed /\ rows[k] \in RoomRow
      /\ seq + 1 \in 1 .. MaxSeq
  BY BoundAssumption DEF Unclaim, Unclaimable, RoomRows, Standing
<1>2. /\ seq' = seq + 1 /\ UNCHANGED <<epoch, revoked>>
      /\ phones' = [told EXCEPT ![f].knows[k] = <<epoch, seq + 1>>]
  BY DEF Unclaim
<1>3. rows' = [rows EXCEPT ![k].removed = "gate", ![k].seq = seq + 1]
  BY DEF Unclaim
<1>4. r \in RoomRow /\ ~r.confirmed /\ ~Standing(r)
  BY <1>1 DEF RoomRow, Standing
<1>5. rows' = [rows EXCEPT ![k] = r]
  BY <1>3 DEF RoomRows
<1> HIDE DEF r
<1>6. \A j \in Ticket : rows'[j] = IF j = k THEN r ELSE rows[j]
  BY <1>5 DEF RoomRows
<1>7. RoomRows'
  BY <1>1, <1>2, <1>4, <1>5 DEF RoomRows
<1>8. ConfirmedKept
  BY <1>1, <1>6 DEF ConfirmedKept
<1>9. Links' /\ \A g \in Phone : phones'[g].up = phones[g].up
  BY <1>2, KnowsOnly
<1>10. RevokedPassSilent'
  BY <1>2, <1>4, <1>6, <1>9 DEF RevokedPassSilent, Standing
<1> QED BY <1>7, <1>8, <1>9, <1>10

\* A new schema: no row is left, no socket open, the revocations stay.
LEMMA RebuildKeeps ==
  ASSUME RoomRows, Links, RevokedPassSilent, Rebuild
  PROVE  RoomRows' /\ Links' /\ RevokedPassSilent' /\ ConfirmedKept
<1>1. /\ epoch' = epoch + 1 /\ rows' = [k \in Ticket |-> NULL] /\ seq' = 0
      /\ revoked' = revoked
  BY DEF Rebuild
<1> DEFINE Closed(f) == [phones[f] EXCEPT !.up = FALSE, !.inbox = <<>>]
<1>2. phones' = [f \in Phone |-> Closed(f)]
  BY DEF Rebuild
<1>3. RoomRows' /\ ConfirmedKept
  <2>1. epoch \in Nat /\ revoked \subseteq Pass
    BY DEF RoomRows
  <2>2. RoomRows'
    BY <1>1, <2>1, BoundAssumption DEF RoomRows
  <2>3. ConfirmedKept
    BY <1>1, <2>1 DEF ConfirmedKept
  <2> QED BY <2>2, <2>3
<1>4. \A f \in Phone : /\ {"up", "inbox", "knows"} \subseteq DOMAIN phones'[f]
                       /\ ~phones'[f].up /\ phones'[f].up \in BOOLEAN
                       /\ phones'[f].inbox = <<>>
  <2> SUFFICES ASSUME NEW f \in Phone
               PROVE  /\ {"up", "inbox", "knows"} \subseteq DOMAIN phones'[f]
                      /\ phones'[f].up = FALSE /\ phones'[f].inbox = <<>>
    OBVIOUS
  <2>1. {"up", "inbox", "knows"} \subseteq DOMAIN phones[f]
    BY DEF Links
  <2>2. phones'[f] = Closed(f)
    BY <1>2
  <2>3. /\ {"up", "inbox", "knows"} \subseteq DOMAIN Closed(f)
        /\ Closed(f).up = FALSE /\ Closed(f).inbox = <<>>
    BY <2>1
  <2> QED BY <2>2, <2>3
<1> HIDE DEF Closed
<1>5. Links'
  BY <1>2, <1>4 DEF Links
<1>6. RevokedPassSilent'
  BY <1>1, <1>4 DEF RevokedPassSilent, Standing
<1> QED BY <1>3, <1>5, <1>6

-----------------------------------------------------------------------------
(* A phone's link.                                                         *)

\* What a phone's own link may do: come up only with a pass that is not revoked.
LEMMA LinkKeeps ==
  ASSUME RoomRows, Links, RevokedPassSilent, NEW f \in Phone, NEW l,
         phones' = [phones EXCEPT ![f] = l],
         {"up", "inbox", "knows"} \subseteq DOMAIN l, l.up \in BOOLEAN, ~l.up => l.inbox = <<>>,
         l.up => phones[f].up \/ PassOf[f] \notin revoked,
         UNCHANGED <<rows, seq, epoch, revoked>>
  PROVE  RoomRows' /\ Links' /\ RevokedPassSilent' /\ ConfirmedKept
<1>1. \A g \in Phone : phones'[g] = IF g = f THEN l ELSE phones[g]
  BY DEF Links
<1>2. RoomRows' /\ ConfirmedKept
  BY DEF RoomRows, ConfirmedKept, Standing
<1>3. Links'
  BY <1>1 DEF Links
<1>4. RevokedPassSilent'
  BY <1>1 DEF RevokedPassSilent, Standing
<1> QED BY <1>2, <1>3, <1>4

\* A phone that connects, hears a message, or loses its link.
LEMMA LinksMove ==
  ASSUME RoomRows, Links, RevokedPassSilent, NEW f \in Phone, Connect(f) \/ Hear(f) \/ Drop(f)
  PROVE  RoomRows' /\ Links' /\ RevokedPassSilent' /\ ConfirmedKept
<1>1. {"up", "inbox", "knows"} \subseteq DOMAIN phones[f] /\ phones[f].up \in BOOLEAN
      /\ (~phones[f].up => phones[f].inbox = <<>>) /\ phones = [g \in Phone |-> phones[g]]
  BY DEF Links
<1>2. CASE Connect(f)
  <2> DEFINE l == [phones[f] EXCEPT !.up = TRUE, !.inbox = Backlog(f)]
  <2>1. phones' = [phones EXCEPT ![f].up = TRUE, ![f].inbox = Backlog(f)]
    BY <1>2 DEF Connect
  <2>2. phones' = [phones EXCEPT ![f] = l]
    BY <1>1, <2>1
  <2>3. {"up", "inbox", "knows"} \subseteq DOMAIN l /\ l.up
    BY <1>1
  <2>4. PassOf[f] \notin revoked /\ UNCHANGED <<rows, seq, epoch, revoked>>
    BY <1>2 DEF Connect
  <2> HIDE DEF l
  <2> QED BY <2>2, <2>3, <2>4, LinkKeeps
<1>3. CASE Hear(f)
  <2> DEFINE m == Head(phones[f].inbox)
             l == [up    |-> TRUE,
                   inbox |-> Tail(phones[f].inbox),
                   epoch |-> m.epoch,
                   heard |-> Max({Cursor(f, m)} \cup {e[2] : e \in m.news}),
                   knows |-> [k \in Ticket |-> NewestWord(phones[f].knows[k], k, m)]]
  <2>1. phones[f].inbox # <<>> /\ phones' = [phones EXCEPT ![f] = l]
        /\ UNCHANGED <<rows, seq, epoch, revoked>>
    BY <1>3 DEF Hear
  <2>2. {"up", "inbox", "knows"} \subseteq DOMAIN l /\ l.up
    OBVIOUS
  <2>3. phones[f].up
    BY <1>1, <2>1
  <2> HIDE DEF l
  <2> QED BY <2>1, <2>2, <2>3, LinkKeeps
<1>4. CASE Drop(f)
  <2> DEFINE l == [phones[f] EXCEPT !.up = FALSE, !.inbox = <<>>]
  <2>1. phones' = [phones EXCEPT ![f].up = FALSE, ![f].inbox = <<>>]
        /\ UNCHANGED <<rows, seq, epoch, revoked>>
    BY <1>4 DEF Drop
  <2>2. phones' = [phones EXCEPT ![f] = l]
    BY <1>1, <2>1
  <2>3. {"up", "inbox", "knows"} \subseteq DOMAIN l /\ l.up = FALSE /\ l.inbox = <<>>
    BY <1>1
  <2> HIDE DEF l
  <2> QED BY <2>1, <2>2, <2>3, LinkKeeps
<1> QED BY <1>2, <1>3, <1>4

-----------------------------------------------------------------------------
(* The server and the queue.                                               *)

\* A commit announces one thing more.
LEMMA CommitKeeps ==
  ASSUME Announced, NEW kind, NEW subject, NEW at,
         [kind |-> kind, subject |-> subject, at |-> at] \in Announcement,
         Commit(kind, subject, at)
  PROVE  Announced'
<1> DEFINE e == [kind |-> kind, subject |-> subject, at |-> at]
<1>1. /\ log \in Seq(Announcement) /\ Len(log) \in Nat /\ Len(log) < MaxCommits
      /\ log' = Append(log, e) /\ unqueued' = unqueued \cup {Len(log) + 1}
      /\ waiting' = waiting /\ delayed' = delayed
  BY DEF Announced, Commit
<1> HIDE DEF e
<1>2. log' \in Seq(Announcement) /\ Len(log') = Len(log) + 1
  BY <1>1 DEF e
<1>3. 1 .. Len(log) \subseteq 1 .. Len(log')
  BY <1>1, <1>2
<1>4. waiting' \in Seq(1 .. Len(log'))
  <2>1. waiting \in [1 .. Len(waiting) -> 1 .. Len(log)] /\ Len(waiting) \in Nat
    BY DEF Announced
  <2>2. waiting \in [1 .. Len(waiting) -> 1 .. Len(log')]
    BY <1>3, <2>1
  <2> QED BY <1>1, <2>1, <2>2, IsASeq
<1>5. Len(log') <= MaxCommits /\ Len(log) + 1 \in 1 .. Len(log')
  BY <1>1, <1>2, BoundAssumption
<1>6. unqueued \subseteq 1 .. Len(log) /\ delayed \subseteq 1 .. Len(log)
  BY DEF Announced
<1>7. unqueued' \subseteq 1 .. Len(log') /\ delayed' \subseteq 1 .. Len(log')
  BY <1>1, <1>3, <1>5, <1>6
<1> QED BY <1>2, <1>4, <1>5, <1>7 DEF Announced

\* What the server commits keeps the announcements well formed.
LEMMA ServerCommits ==
  ASSUME Announced,
         \/ \E k \in Ticket : (\E at \in 1 .. Len(log) + 1 : CommitIn(k, at)) \/ CommitUndo(k)
         \/ \E p \in Pass : CommitRevoke(p)
  PROVE  Announced'
<1>0. Len(log) \in Nat
  BY DEF Announced
<1>1. ASSUME NEW k \in Ticket, NEW at \in 1 .. Len(log) + 1, CommitIn(k, at)
      PROVE  Announced'
  <2>1. Commit("in", k, at)
    BY <1>1 DEF CommitIn
  <2>2. at \in 1 .. MaxCommits
    BY <1>0, <1>1, <2>1, BoundAssumption DEF Commit
  <2>3. [kind |-> "in", subject |-> k, at |-> at] \in Announcement
    BY <2>2 DEF Announcement
  <2> QED BY <2>1, <2>3, CommitKeeps
<1>2. ASSUME NEW k \in Ticket, CommitUndo(k)
      PROVE  Announced'
  <2>1. CheckedIn(k) # NULL /\ Commit("undo", k, CheckedIn(k))
    BY <1>2 DEF CommitUndo
  <2>2. CheckedIn(k) \in 1 .. MaxCommits
    BY <2>1, CheckedInTime
  <2>3. [kind |-> "undo", subject |-> k, at |-> CheckedIn(k)] \in Announcement
    BY <2>2 DEF Announcement
  <2> QED BY <2>1, <2>3, CommitKeeps
<1>3. ASSUME NEW p \in Pass, CommitRevoke(p)
      PROVE  Announced'
  <2>1. Commit("revoke", p, NULL)
    BY <1>3 DEF CommitRevoke
  <2>2. [kind |-> "revoke", subject |-> p, at |-> NULL] \in Announcement
    BY DEF Announcement
  <2> QED BY <2>1, <2>2, CommitKeeps
<1> QED BY <1>1, <1>2, <1>3

\* The server and the phones change nothing that is announced; the queue only
\* moves it from place to place.
LEMMA QueueMoves ==
  ASSUME Announced, log' = log,
         \/ UNCHANGED <<unqueued, waiting, delayed>>
         \/ \E n \in DOMAIN log : Enqueue(n) \/ EnqueueFails(n) \/ BackoffOver(n)
         \/ /\ waiting # <<>> /\ waiting' = Tail(waiting) /\ unqueued' = unqueued
            /\ delayed' = delayed \/ Retry(Head(waiting))
  PROVE  Announced'
<1>1. /\ log \in Seq(Announcement) /\ Len(log) <= MaxCommits /\ DOMAIN log = 1 .. Len(log)
      /\ unqueued \subseteq 1 .. Len(log) /\ delayed \subseteq 1 .. Len(log)
      /\ waiting \in Seq(1 .. Len(log))
  BY DEF Announced
<1>2. CASE UNCHANGED <<unqueued, waiting, delayed>>
  BY <1>1, <1>2 DEF Announced
<1>3. ASSUME NEW n \in DOMAIN log, Enqueue(n) \/ EnqueueFails(n) \/ BackoffOver(n)
      PROVE  Announced'
  <2>1. unqueued' \subseteq unqueued /\ delayed' \subseteq delayed
        /\ waiting' \in {waiting, Append(waiting, n)}
    BY <1>3 DEF Enqueue, EnqueueFails, BackoffOver
  <2>2. waiting' \in Seq(1 .. Len(log))
    <3> DEFINE Place == 1 .. Len(log)
    <3>1. waiting \in Seq(Place) /\ n \in Place
      BY <1>1
    <3> HIDE DEF Place
    <3>2. Append(waiting, n) \in Seq(Place)
      BY <3>1
    <3> QED BY <2>1, <3>1, <3>2 DEF Place
  <2> QED BY <1>1, <2>1, <2>2 DEF Announced
<1>4. CASE /\ waiting # <<>> /\ waiting' = Tail(waiting) /\ unqueued' = unqueued
           /\ delayed' = delayed \/ Retry(Head(waiting))
  <2>1. Tail(waiting) \in Seq(1 .. Len(log)) /\ Head(waiting) \in 1 .. Len(log)
    BY <1>1, <1>4
  <2>2. delayed' \subseteq delayed \cup {Head(waiting)}
    BY <1>4 DEF Retry
  <2> QED BY <1>1, <1>4, <2>1, <2>2 DEF Announced
<1> QED BY <1>2, <1>3, <1>4

\* What arrives at the room was announced.
LEMMA ArrivesKeeps ==
  ASSUME RelayInv, waiting # <<>>, FromServer(Head(waiting))
  PROVE  RoomRows' /\ Links' /\ RevokedPassSilent' /\ ConfirmedKept
<1> DEFINE n == Head(waiting)
<1>1. n \in DOMAIN log /\ log[n] \in Announcement
  BY DEF RelayInv, Announced
<1> HIDE DEF n
<1>2. \/ log[n].kind = "in" /\ TakeIn(log[n].subject, log[n].at)
      \/ log[n].kind = "undo" /\ TakeUndo(log[n].subject, log[n].at)
      \/ log[n].kind = "revoke" /\ TakeRevoke(log[n].subject)
  BY DEF FromServer, n
<1>3. CASE log[n].kind = "in" /\ TakeIn(log[n].subject, log[n].at)
  <2>1. log[n].subject \in Ticket /\ log[n].at \in 1 .. MaxCommits
    BY <1>1, <1>3 DEF Announcement
  <2> QED BY <1>3, <2>1, TakeInKeeps DEF RelayInv
<1>4. CASE log[n].kind = "undo" /\ TakeUndo(log[n].subject, log[n].at)
  <2>1. /\ log[n].subject \in Ticket /\ log[n].at \in 1 .. MaxCommits
        /\ log[n] = [kind |-> "undo", subject |-> log[n].subject, at |-> log[n].at]
    BY <1>1, <1>4 DEF Announcement
  <2> DEFINE k == log[n].subject
             at == log[n].at
  <2>2. k \in Ticket /\ at \in 1 .. MaxCommits /\ n \in DOMAIN log
        /\ log[n] = [kind |-> "undo", subject |-> k, at |-> at] /\ TakeUndo(k, at)
    BY <1>1, <1>4, <2>1
  <2> HIDE DEF k, at
  <2> QED BY <2>2, TakeUndoKeeps DEF RelayInv
<1>5. CASE log[n].kind = "revoke" /\ TakeRevoke(log[n].subject)
  <2>1. log[n].subject \in Pass
    BY <1>1, <1>5 DEF Announcement
  <2> QED BY <1>5, <2>1, TakeRevokeKeeps DEF RelayInv
<1> QED BY <1>2, <1>3, <1>4, <1>5

-----------------------------------------------------------------------------
(* That invariant.                                                         *)

\* It all holds at the start.
LEMMA StartsSilent == Init => RelayInv
<1> SUFFICES ASSUME Init PROVE RelayInv
  OBVIOUS
<1>1. Announced
  BY BoundAssumption DEF Init, Announced
<1>2. RoomRows
  BY BoundAssumption DEF Init, RoomRows
<1>3. Links
  BY DEF Init, Links
<1>4. RevokedPassSilent
  BY DEF Init, RevokedPassSilent
<1> QED BY <1>1, <1>2, <1>3, <1>4 DEF RelayInv

\* And every step keeps it, and a confirmed row with it.
LEMMA NextSilent == RelayInv /\ [Next]_vars => RelayInv' /\ (ConfirmedKept \/ UNCHANGED vars)
<1> SUFFICES ASSUME RelayInv, [Next]_vars
             PROVE  RelayInv' /\ (ConfirmedKept \/ UNCHANGED vars)
  OBVIOUS
<1> USE DEF RelayInv
<1>1. CASE \/ \E k \in Ticket : (\E at \in 1 .. Len(log) + 1 : CommitIn(k, at)) \/ CommitUndo(k)
           \/ \E p \in Pass : CommitRevoke(p)
  <2>1. UNCHANGED <<rows, seq, epoch, revoked, phones>>
    BY <1>1 DEF CommitIn, CommitUndo, CommitRevoke, Commit
  <2>2. Announced'
    BY <1>1, ServerCommits
  <2> QED BY <2>1, <2>2, RoomStays
<1>2. CASE \E n \in DOMAIN log : Enqueue(n) \/ EnqueueFails(n) \/ BackoffOver(n)
  <2>1. UNCHANGED <<log, rows, seq, epoch, revoked, phones>>
    BY <1>2 DEF Enqueue, EnqueueFails, BackoffOver
  <2>2. Announced'
    BY <1>2, <2>1, QueueMoves
  <2> QED BY <2>1, <2>2, RoomStays
<1>3. CASE Deliver \/ DeliverUnanswered
  <2>1. /\ waiting # <<>> /\ FromServer(Head(waiting)) /\ waiting' = Tail(waiting)
        /\ log' = log /\ unqueued' = unqueued
        /\ delayed' = delayed \/ Retry(Head(waiting))
    BY <1>3 DEF Deliver, DeliverUnanswered
  <2> QED BY <2>1, QueueMoves, ArrivesKeeps
<1>4. CASE DeliverFails
  <2>1. /\ waiting # <<>> /\ Retry(Head(waiting)) /\ waiting' = Tail(waiting)
        /\ UNCHANGED <<log, unqueued, rows, seq, epoch, revoked, phones>>
    BY <1>4 DEF DeliverFails
  <2> QED BY <2>1, QueueMoves, RoomStays
<1>5. CASE \E p \in Phone, k \in Ticket :
             (\E at \in 1 .. Len(log) + 1 : Claim(p, k, at)) \/ Unclaim(p, k)
  <2>1. UNCHANGED <<log, unqueued, waiting, delayed>>
    BY <1>5 DEF Claim, Unclaim
  <2>2. Announced'
    BY <2>1, QueueMoves
  <2>3. Len(log) \in 0 .. MaxCommits
    BY BoundAssumption DEF Announced
  <2> QED BY <1>5, <2>2, <2>3, ClaimKeeps, UnclaimKeeps
<1>6. CASE \E p \in Phone : Connect(p) \/ Hear(p) \/ Drop(p)
  <2>1. UNCHANGED <<log, unqueued, waiting, delayed>>
    BY <1>6 DEF Connect, Hear, Drop
  <2> QED BY <1>6, <2>1, QueueMoves, LinksMove
<1>7. CASE Rebuild
  <2>1. UNCHANGED <<log, unqueued, waiting, delayed>>
    BY <1>7 DEF Rebuild
  <2> QED BY <1>7, <2>1, QueueMoves, RebuildKeeps
<1>8. CASE UNCHANGED vars
  <2>1. UNCHANGED <<log, unqueued, waiting, delayed, rows, seq, epoch, revoked, phones>>
    BY <1>8 DEF vars
  <2> QED BY <1>8, <2>1, QueueMoves, RoomStays
<1> QED BY <1>1, <1>2, <1>3, <1>4, <1>5, <1>6, <1>7, <1>8 DEF Next

-----------------------------------------------------------------------------
(* Each announcement is in one place of the queue.                         *)

\* A place in the log is in one place of the queue, and has an attempt left
\* while it is in there.
QueueOnce ==
  /\ tries \in [1 .. MaxCommits -> 0 .. MaxTries] /\ delivered \in Seq(1 .. Len(log))
  /\ \A n \in 1 .. MaxCommits : n > Len(log) => tries[n] < MaxTries
  /\ \A n \in unqueued \cup delayed : tries[n] < MaxTries
  /\ unqueued \cap delayed = {}
  /\ \A i \in DOMAIN waiting : /\ tries[waiting[i]] < MaxTries
                               /\ waiting[i] \notin unqueued \cup delayed
                               /\ \A j \in DOMAIN waiting : waiting[i] = waiting[j] => i = j

\* A sequence of numbers up to n is one of numbers up to a larger m.
LEMMA SeqWider ==
  ASSUME NEW n \in Nat, NEW m \in Nat, n <= m, NEW s \in Seq(1 .. n)
  PROVE  s \in Seq(1 .. m)
<1>1. s \in [1 .. Len(s) -> 1 .. n] /\ Len(s) \in Nat
  OBVIOUS
<1>2. s \in [1 .. Len(s) -> 1 .. m]
  BY <1>1
<1> QED BY <1>1, <1>2, IsASeq

\* A commit: a new place in the log, queued nowhere yet and never tried.
LEMMA CommitQueued ==
  ASSUME Announced, QueueOnce, NEW kind, NEW subject, NEW at, Commit(kind, subject, at)
  PROVE  QueueOnce'
<1>1. /\ Len(log) \in Nat /\ Len(log) < MaxCommits /\ Len(log') = Len(log) + 1
      /\ unqueued' = unqueued \cup {Len(log) + 1}
      /\ UNCHANGED <<waiting, delayed, tries, delivered>>
  BY DEF Announced, Commit
<1>2. /\ unqueued \subseteq 1 .. Len(log) /\ delayed \subseteq 1 .. Len(log)
      /\ \A i \in DOMAIN waiting : waiting[i] \in 1 .. Len(log)
  BY DEF Announced
<1>3. delivered' \in Seq(1 .. Len(log'))
  BY <1>1, SeqWider DEF QueueOnce
<1>4. Len(log) + 1 \in 1 .. MaxCommits /\ tries[Len(log) + 1] < MaxTries
  BY <1>1, BoundAssumption DEF QueueOnce
<1>5. \A n \in 1 .. MaxCommits : n > Len(log') => tries'[n] < MaxTries
  BY <1>1, BoundAssumption DEF QueueOnce
<1>6. \A n \in unqueued' \cup delayed' : tries'[n] < MaxTries
  BY <1>1, <1>4 DEF QueueOnce
<1>7. Len(log) + 1 \notin 1 .. Len(log)
  BY <1>1
<1>8. unqueued' \cap delayed' = {}
  BY <1>1, <1>2, <1>7 DEF QueueOnce
<1>9. \A i \in DOMAIN waiting' :
        /\ tries'[waiting'[i]] < MaxTries /\ waiting'[i] \notin unqueued' \cup delayed'
        /\ \A j \in DOMAIN waiting' : waiting'[i] = waiting'[j] => i = j
  BY <1>1, <1>2, <1>7 DEF QueueOnce
<1> QED BY <1>1, <1>3, <1>5, <1>6, <1>8, <1>9 DEF QueueOnce

\* Enqueue, a lost enqueue, the end of a backoff: one place moves or goes.
LEMMA LineUp ==
  ASSUME Announced, QueueOnce, NEW n \in DOMAIN log, Enqueue(n) \/ EnqueueFails(n) \/ BackoffOver(n)
  PROVE  QueueOnce'
<1>1. /\ UNCHANGED <<log, tries, delivered>> /\ n \in unqueued \cup delayed
      /\ unqueued' \subseteq unqueued /\ delayed' \subseteq delayed
      /\ waiting' = waiting \/ (waiting' = Append(waiting, n) /\ n \notin unqueued' \cup delayed')
  BY DEF Enqueue, EnqueueFails, BackoffOver, QueueOnce
<1>2. waiting \in Seq(1 .. Len(log)) /\ tries[n] < MaxTries
  BY <1>1 DEF QueueOnce, Announced
<1>3. CASE waiting' = waiting
  BY <1>1, <1>3 DEF QueueOnce
<1>4. CASE waiting' = Append(waiting, n) /\ n \notin unqueued' \cup delayed'
  <2>1. /\ DOMAIN waiting' = 1 .. Len(waiting) + 1 /\ waiting'[Len(waiting) + 1] = n
        /\ DOMAIN waiting = 1 .. Len(waiting) /\ Len(waiting) \in Nat
        /\ \A i \in DOMAIN waiting : waiting'[i] = waiting[i]
    BY <1>2, <1>4
  <2>2. \A i \in DOMAIN waiting :
          /\ tries'[waiting[i]] < MaxTries /\ waiting[i] \notin unqueued' \cup delayed'
          /\ waiting[i] # n
          /\ \A j \in DOMAIN waiting : waiting[i] = waiting[j] => i = j
    BY <1>1 DEF QueueOnce
  <2>3. tries'[n] < MaxTries /\ n \notin unqueued' \cup delayed'
    BY <1>1, <1>2, <1>4
  <2>4. \A i \in DOMAIN waiting' : i \in DOMAIN waiting \/ i = Len(waiting) + 1
    BY <2>1
  <2>5. \A i \in DOMAIN waiting' :
          /\ tries'[waiting'[i]] < MaxTries /\ waiting'[i] \notin unqueued' \cup delayed'
    BY <2>1, <2>2, <2>3, <2>4
  <2>6. \A i, j \in DOMAIN waiting' : waiting'[i] = waiting'[j] => i = j
    BY <2>1, <2>2, <2>4
  <2> QED BY <1>1, <2>5, <2>6 DEF QueueOnce
<1> QED BY <1>1, <1>3, <1>4

\* One attempt of the worker takes the head of the queue out; another attempt
\* at it waits only while it has one left.
LEMMA TryOnce ==
  ASSUME Announced, QueueOnce, waiting # <<>>, waiting' = Tail(waiting),
         UNCHANGED <<log, unqueued>>,
         UNCHANGED <<delayed, tries>> \/ Retry(Head(waiting)),
         delivered' = delivered \/ delivered' = Append(delivered, Head(waiting))
  PROVE  QueueOnce'
<1> DEFINE n == Head(waiting)
<1>1. /\ waiting \in Seq(1 .. Len(log)) /\ n = waiting[1] /\ n \in 1 .. Len(log)
      /\ Len(log) \in Nat /\ Len(log) <= MaxCommits /\ 1 \in DOMAIN waiting
  BY DEF Announced
<1> HIDE DEF n
<1>2. /\ DOMAIN waiting' = 1 .. Len(waiting) - 1 /\ Len(waiting) \in Nat
      /\ DOMAIN waiting = 1 .. Len(waiting)
      /\ \A i \in DOMAIN waiting' : i + 1 \in DOMAIN waiting /\ waiting'[i] = waiting[i + 1]
  BY <1>1
<1>3. tries[n] < MaxTries /\ n \notin unqueued \cup delayed
  BY <1>1 DEF QueueOnce
<1>4. \A i \in DOMAIN waiting' : /\ tries[waiting'[i]] < MaxTries /\ waiting'[i] # n
                                 /\ waiting'[i] \notin unqueued \cup delayed
  <2> SUFFICES ASSUME NEW i \in DOMAIN waiting'
               PROVE  /\ tries[waiting'[i]] < MaxTries /\ waiting'[i] # n
                      /\ waiting'[i] \notin unqueued \cup delayed
    OBVIOUS
  <2>1. i + 1 \in DOMAIN waiting /\ waiting'[i] = waiting[i + 1] /\ i + 1 # 1
    BY <1>2
  <2> QED BY <1>1, <2>1 DEF QueueOnce
<1>5. \A i, j \in DOMAIN waiting' : waiting'[i] = waiting'[j] => i = j
  <2> SUFFICES ASSUME NEW i \in DOMAIN waiting', NEW j \in DOMAIN waiting',
                      waiting'[i] = waiting'[j]
               PROVE  i = j
    OBVIOUS
  <2>1. i + 1 = j + 1
    BY <1>2 DEF QueueOnce
  <2> QED BY <1>2, <2>1
<1>6. delivered' \in Seq(1 .. Len(log'))
  <2> DEFINE Place == 1 .. Len(log)
  <2>1. delivered \in Seq(Place) /\ n \in Place /\ Len(log') = Len(log)
    BY <1>1 DEF QueueOnce
  <2> HIDE DEF Place
  <2>2. Append(delivered, n) \in Seq(Place)
    BY <2>1
  <2>3. delivered' \in Seq(Place)
    BY <2>1, <2>2 DEF n
  <2> QED BY <2>1, <2>3 DEF Place
<1>7. CASE UNCHANGED <<delayed, tries>>
  BY <1>4, <1>5, <1>6, <1>7 DEF QueueOnce
<1>8. CASE Retry(n)
  <2>1. tries' = [tries EXCEPT ![n] = tries[n] + 1]
        /\ delayed' = IF tries[n] + 1 < MaxTries THEN delayed \cup {n} ELSE delayed
    BY <1>8 DEF Retry
  <2>2. n \in 1 .. MaxCommits /\ tries[n] \in 0 .. MaxTries
    BY <1>1, BoundAssumption DEF QueueOnce
  <2>3. tries' \in [1 .. MaxCommits -> 0 .. MaxTries]
    BY <1>3, <2>1, <2>2, BoundAssumption DEF QueueOnce
  <2>4. \A m \in 1 .. MaxCommits : tries'[m] = IF m = n THEN tries[n] + 1 ELSE tries[m]
    BY <2>1 DEF QueueOnce
  <2>5. \A m \in unqueued \cup delayed : m \in 1 .. MaxCommits /\ m # n
    BY <1>1, <1>3, BoundAssumption DEF Announced
  <2>6. \A m \in 1 .. MaxCommits : m > Len(log') => tries'[m] < MaxTries
    <3>1. \A m \in 1 .. MaxCommits : m > Len(log) => m # n /\ tries[m] < MaxTries
      BY <1>1 DEF QueueOnce
    <3>2. log' = log
      OBVIOUS
    <3> QED BY <2>4, <3>1, <3>2
  <2>7. \A m \in unqueued' \cup delayed' : tries'[m] < MaxTries
    <3>1. \A m \in unqueued \cup delayed : tries'[m] < MaxTries
      BY <2>4, <2>5 DEF QueueOnce
    <3>2. n \in delayed' => n \in delayed \/ tries'[n] < MaxTries
      BY <2>1, <2>2, <2>4
    <3>3. unqueued' = unqueued /\ delayed' \subseteq delayed \cup {n}
      BY <2>1
    <3> QED BY <3>1, <3>2, <3>3
  <2>8. unqueued' \cap delayed' = {}
    BY <1>3, <2>1 DEF QueueOnce
  <2>9. \A i \in DOMAIN waiting' : waiting'[i] \in 1 .. MaxCommits
    BY <1>1, <1>2, BoundAssumption
  <2>10. \A i \in DOMAIN waiting' : /\ tries'[waiting'[i]] < MaxTries
                                    /\ waiting'[i] \notin unqueued' \cup delayed'
    BY <1>4, <2>1, <2>4, <2>9
  <2> QED BY <1>5, <1>6, <2>3, <2>6, <2>7, <2>8, <2>10 DEF QueueOnce
<1> QED BY <1>7, <1>8 DEF n

\* At the start nothing is queued.
LEMMA StartsQueued == Init => QueueOnce
BY BoundAssumption DEF Init, QueueOnce

\* The server's log, the queue and what the room has of them.
LEMMA NextQueued == RelayInv /\ QueueOnce /\ [Next]_vars => QueueOnce'
<1> SUFFICES ASSUME RelayInv, QueueOnce, [Next]_vars PROVE QueueOnce'
  OBVIOUS
<1>0. Announced
  BY DEF RelayInv
<1>1. CASE \/ \E k \in Ticket : (\E at \in 1 .. Len(log) + 1 : CommitIn(k, at)) \/ CommitUndo(k)
           \/ \E p \in Pass : CommitRevoke(p)
  BY <1>0, <1>1, CommitQueued DEF CommitIn, CommitUndo, CommitRevoke
<1>2. CASE \E n \in DOMAIN log : Enqueue(n) \/ EnqueueFails(n) \/ BackoffOver(n)
  BY <1>0, <1>2, LineUp
<1>3. CASE Deliver \/ DeliverUnanswered \/ DeliverFails
  <2>1. /\ waiting # <<>> /\ waiting' = Tail(waiting) /\ UNCHANGED <<log, unqueued>>
        /\ UNCHANGED <<delayed, tries>> \/ Retry(Head(waiting))
        /\ delivered' = delivered \/ delivered' = Append(delivered, Head(waiting))
    BY <1>3 DEF Deliver, DeliverUnanswered, DeliverFails, FromServer
  <2> QED BY <1>0, <2>1, TryOnce
<1>4. CASE \/ \E p \in Phone, k \in Ticket :
                (\E at \in 1 .. Len(log) + 1 : Claim(p, k, at)) \/ Unclaim(p, k)
           \/ \E p \in Phone : Connect(p) \/ Hear(p) \/ Drop(p)
           \/ UNCHANGED vars
  <2>1. UNCHANGED <<log, unqueued, waiting, delayed, tries, delivered>>
    BY <1>4 DEF Claim, Unclaim, Connect, Hear, Drop, vars
  <2> QED BY <2>1 DEF QueueOnce
<1>5. CASE Rebuild
  <2>1. UNCHANGED <<log, unqueued, waiting, delayed, tries>> /\ delivered' = <<>>
    BY <1>5 DEF Rebuild
  <2> QED BY <2>1 DEF QueueOnce
<1> QED BY <1>1, <1>2, <1>3, <1>4, <1>5 DEF Next

-----------------------------------------------------------------------------
(* The rows of one room, and the newest and the order of them.             *)

\* The rows of one room: none is newer than its last sequence number, no two
\* have the same one, and one belongs to a pass until the server confirms it.
RowsApart(w, s) ==
  \A k \in Ticket : w[k] # NULL =>
    /\ w[k].seq <= s
    /\ \A j \in Ticket \ {k} : w[j] # NULL => w[j].seq # w[k].seq
    /\ w[k].confirmed <=> w[k].pass = NULL

\* Any rows a room may have.
RowsTyped(w) == w \in [Ticket -> RoomRow \cup {NULL}]

\* Sequence q has the tickets by the age of their rows.
OldestFirst(q, w) == \A i, j \in DOMAIN q : i < j => w[q[i]].seq < w[q[j]].seq

\* Of tickets that have rows, one has the newest.
LEMMA NewestExists ==
  ASSUME NEW w, RowsTyped(w), NEW S \in SUBSET Ticket, S # {}, \A k \in S : w[k] # NULL
  PROVE  \E x \in S : \A y \in S : w[y].seq <= w[x].seq
<1> DEFINE f == [k \in S |-> w[k].seq]
           T == {f[k] : k \in S}
<1>1. \A k \in S : f[k] \in Nat
  BY BoundAssumption DEF RowsTyped, RoomRow
<1>2. T \in SUBSET Nat /\ T # {}
  BY <1>1
<1>3. IsFiniteSet(S)
  BY TicketAssumption, FS_Subset
<1>4. IsFiniteSet(T)
  <2>1. T = {f[k] : k \in S} /\ f \in Surjection(S, T)
    BY DEF Surjection
  <2> HIDE DEF f, T
  <2> QED BY <1>3, <2>1, FS_Surjection
<1> HIDE DEF T
<1>5. PICK t \in T : \A u \in T : u <= t
  BY <1>2, <1>4, LargestExists
<1>6. PICK x \in S : f[x] = t
  BY <1>5 DEF T
<1>7. \A y \in S : f[y] <= f[x]
  BY <1>5, <1>6 DEF T
<1> QED BY <1>7

\* So they can be listed, the oldest row first.
LEMMA OrderExists ==
  ASSUME NEW w, RowsTyped(w), NEW s, RowsApart(w, s),
         NEW S \in SUBSET Ticket, \A k \in S : w[k] # NULL
  PROVE  \E q \in SetToSeqs(S) : OldestFirst(q, w)
<1> DEFINE HasOrder(A) == \E q \in SetToSeqs(A) : OldestFirst(q, w)
           Bad == {A \in FiniteSubsetsOf(S) : ~HasOrder(A)}
<1>0. IsFiniteSet(S)
  BY TicketAssumption, FS_Subset
<1>1. SUFFICES ASSUME Bad # {} PROVE FALSE
  BY <1>0 DEF FiniteSubsetsOf
<1>2. PICK A \in Bad : \A B \in Bad : <<B, A>> \notin StrictSubsetOrdering(S)
  <2>1. IsWellFoundedOn(StrictSubsetOrdering(S), FiniteSubsetsOf(S))
    BY FS_StrictSubsetOrderingWellFounded
  <2>2. Bad \subseteq FiniteSubsetsOf(S)
    OBVIOUS
  <2> QED BY <1>1, <2>1, <2>2, WFMin
<1>3. A \in SUBSET S /\ IsFiniteSet(A) /\ ~HasOrder(A)
  BY DEF FiniteSubsetsOf
<1>4. A # {}
  <2> SUFFICES ASSUME A = {} PROVE FALSE
    OBVIOUS
  <2>1. Cardinality(A) = 0
    BY FS_EmptySet
  <2>2. <<>> \in SetToSeqs(A) /\ OldestFirst(<<>>, w)
    BY <2>1 DEF SetToSeqs, OldestFirst
  <2> QED BY <1>3, <2>2
<1>5. PICK x \in A : \A y \in A : w[y].seq <= w[x].seq
  BY <1>3, <1>4, NewestExists
<1>6. A \ {x} \in FiniteSubsetsOf(S) /\ IsFiniteSet(A \ {x})
  BY <1>3, FS_RemoveElement DEF FiniteSubsetsOf
<1>7. <<A \ {x}, A>> \in StrictSubsetOrdering(S)
  BY <1>3, <1>5 DEF StrictSubsetOrdering
<1>8. PICK q \in SetToSeqs(A \ {x}) : OldestFirst(q, w)
  BY <1>2, <1>6, <1>7
<1> DEFINE n == Cardinality(A \ {x})
           p == [i \in 1 .. n + 1 |-> IF i = n + 1 THEN x ELSE q[i]]
<1>9. n \in Nat /\ Cardinality(A) = n + 1
  <2>1. n \in Nat /\ Cardinality(A) \in Nat /\ n = Cardinality(A) - 1
    BY <1>3, <1>5, <1>6, FS_RemoveElement, FS_CardinalityType
  <2> QED BY <2>1
<1>10. q \in [1 .. n -> A \ {x}] /\ \A i, j \in 1 .. n : i # j => q[i] # q[j]
  BY <1>8 DEF SetToSeqs
<1> HIDE DEF n
<1>11. p \in [1 .. n + 1 -> A]
  BY <1>5, <1>9, <1>10
<1>12. \A i, j \in 1 .. n + 1 : i # j => p[i] # p[j]
  BY <1>9, <1>10
<1>13. \A y \in A \ {x} : w[y].seq < w[x].seq
  <2>1. \A y \in A : w[y].seq \in Nat /\ y \in Ticket /\ w[y] # NULL
    BY <1>3, BoundAssumption DEF RowsTyped, RoomRow
  <2>2. \A y \in A \ {x} : w[y].seq # w[x].seq
    BY <1>5, <2>1 DEF RowsApart
  <2> QED BY <1>5, <2>1, <2>2
<1>14. OldestFirst(p, w)
  <2> SUFFICES ASSUME NEW i \in 1 .. n + 1, NEW j \in 1 .. n + 1, i < j
               PROVE  w[p[i]].seq < w[p[j]].seq
    BY DEF OldestFirst
  <2>1. i \in 1 .. n /\ p[i] = q[i] /\ p[i] \in A \ {x}
    BY <1>9, <1>10
  <2>2. CASE j = n + 1
    BY <1>13, <2>1, <2>2
  <2>3. CASE j # n + 1
    BY <1>8, <1>9, <1>10, <2>1, <2>3 DEF OldestFirst
  <2> QED BY <2>2, <2>3
<1>15. p \in SetToSeqs(A)
  BY <1>9, <1>11, <1>12 DEF SetToSeqs
<1> QED BY <1>3, <1>14, <1>15

\* What takes each member of a finite set once takes them all.
LEMMA ListsAll ==
  ASSUME NEW S, IsFiniteSet(S), NEW q \in SetToSeqs(S)
  PROVE  /\ Cardinality(S) \in Nat /\ q \in [1 .. Cardinality(S) -> S]
         /\ Len(q) = Cardinality(S)
         /\ \A i, j \in 1 .. Cardinality(S) : q[i] = q[j] => i = j
         /\ \A k \in S : \E i \in 1 .. Cardinality(S) : q[i] = k
<1> DEFINE n == Cardinality(S)
<1>1. n \in Nat
  BY FS_CardinalityType
<1>2. q \in [1 .. n -> S] /\ \A i, j \in 1 .. n : i # j => q[i] # q[j]
  BY DEF SetToSeqs
<1>3. IsFiniteSet(1 .. n) /\ Cardinality(1 .. n) = n
  BY <1>1, FS_Interval
<1>4. q \in Injection(1 .. n, S)
  BY <1>2 DEF Injection, IsInjective
<1>5. q \in Surjection(1 .. n, S)
  BY <1>3, <1>4, FS_Injection
<1>6. \A k \in S : \E i \in 1 .. n : q[i] = k
  BY <1>5 DEF Surjection
<1> HIDE DEF n
<1>7. Len(q) = n
  BY <1>1, <1>2
<1> QED BY <1>1, <1>2, <1>6, <1>7 DEF n

-----------------------------------------------------------------------------
(* What a phone's link says of the rows of the room.                       *)

\* A phone's link.
Link == [up : BOOLEAN, inbox : Seq(PhoneMessage), epoch : 0 .. MaxEpoch, heard : 0 .. MaxSeq,
         knows : [Ticket -> (0 .. MaxEpoch) \X (0 .. MaxSeq)]]

\* What link l heard, knows and is about to hear is of the room with the rows
\* w, last sequence number s and epoch e, and no newer than these rows.
Truthful(l, w, s, e) ==
  /\ l.epoch <= e /\ (l.epoch = e => l.heard <= s)
  /\ \A k \in Ticket : /\ l.knows[k][1] <= e
                       /\ l.knows[k][1] = e => w[k] # NULL /\ l.knows[k][2] <= w[k].seq
  /\ \A i \in DOMAIN l.inbox :
       /\ l.inbox[i].epoch = e
       /\ \A d \in l.inbox[i].news : w[d[1]] # NULL /\ d[2] <= w[d[1]].seq

\* A hello comes first, and what is not of a catch-up is newer than all before.
InStep(l, e) ==
  /\ \A i \in DOMAIN l.inbox : l.inbox[i].kind = "hello" => i = 1
  /\ \A j \in DOMAIN l.inbox : ~l.inbox[j].catchup =>
       \A d \in l.inbox[j].news :
         /\ l.epoch = e => l.heard < d[2]
         /\ \A i \in DOMAIN l.inbox : i < j => \A c \in l.inbox[i].news : c[2] < d[2]

\* Link l knows row k's newest word, or that word is on its way; and it is in
\* the middle of a catch-up.
Knows(l, k, w, e) == w[k] = NULL \/ l.knows[k] = <<e, w[k].seq>>
Coming(l, k, w) == \E i \in DOMAIN l.inbox : <<k, w[k].seq>> \in l.inbox[i].news
CatchingUp(l) == (\E i \in DOMAIN l.inbox : l.inbox[i].catchup) /\ Head(l.inbox).kind # "hello"

\* What the phone does not know of is on its way to it while its link is up,
\* and past its cursor but in the middle of a catch-up; "out" are the phones of
\* which nothing is claimed.
Informed(l, w, e, out) ==
  ~out => \A k \in Ticket :
    /\ l.up => Knows(l, k, w, e) \/ Coming(l, k, w)
    /\ l.epoch = e => Knows(l, k, w, e) \/ w[k].seq > l.heard \/ CatchingUp(l)

\* All of it.
Abreast(l, w, s, e, out) ==
  l \in Link /\ Truthful(l, w, s, e) /\ InStep(l, e) /\ Informed(l, w, e, out)

\* The rows of C were replaced by newer ones.
Grown(w, s, w2, s2, C) ==
  /\ s \in Nat /\ s2 \in Nat /\ s <= s2 /\ RowsTyped(w) /\ RowsTyped(w2) /\ C \subseteq Ticket
  /\ \A k \in C : w2[k] # NULL /\ s < w2[k].seq /\ w2[k].seq <= s2
  /\ \A k \in Ticket \ C : w2[k] = w[k]
  /\ \A k \in Ticket : w[k] # NULL => w[k].seq <= s

\* The messages that tell of them, in the order of their sequence numbers.
Words(M, C, w2, e) ==
  /\ M \in Seq(PhoneMessage)
  /\ \A i \in DOMAIN M :
       /\ M[i].epoch = e /\ ~M[i].catchup /\ M[i].kind # "hello"
       /\ \A d \in M[i].news : d[1] \in C /\ d[2] = w2[d[1]].seq
  /\ \A i, j \in DOMAIN M : i < j => \A c \in M[i].news, d \in M[j].news : c[2] < d[2]
  /\ \A k \in C : \E i \in DOMAIN M : <<k, w2[k].seq>> \in M[i].news

\* A newer row is past every number of before, and the others stay.
LEMMA GrownOlder ==
  ASSUME NEW w, NEW s, NEW w2, NEW s2, NEW C, Grown(w, s, w2, s2, C),
         NEW k \in Ticket, w[k] # NULL
  PROVE  w2[k] # NULL /\ w[k].seq <= w2[k].seq /\ w[k].seq \in Nat /\ w2[k].seq \in Nat
<1>1. CASE k \in C
  BY <1>1, BoundAssumption DEF Grown, RowsTyped, RoomRow
<1>2. CASE k \notin C
  BY <1>2, BoundAssumption DEF Grown, RowsTyped, RoomRow
<1> QED BY <1>1, <1>2

\* The types of a link's fields, one by one.
LEMMA LinkFields ==
  ASSUME NEW l \in Link
  PROVE  /\ l.up \in BOOLEAN /\ l.inbox \in Seq(PhoneMessage) /\ l.epoch \in 0 .. MaxEpoch
         /\ l.heard \in 0 .. MaxSeq /\ l.epoch \in Nat /\ l.heard \in Nat
         /\ l.knows \in [Ticket -> (0 .. MaxEpoch) \X (0 .. MaxSeq)]
         /\ \A k \in Ticket : l.knows[k][1] \in Nat /\ l.knows[k][2] \in Nat
         /\ \A i \in DOMAIN l.inbox : \A d \in l.inbox[i].news :
              d[1] \in Ticket /\ d[2] \in Nat /\ d[2] > 0
<1>1. /\ l.up \in BOOLEAN /\ l.inbox \in Seq(PhoneMessage) /\ l.epoch \in 0 .. MaxEpoch
      /\ l.heard \in 0 .. MaxSeq
      /\ l.knows \in [Ticket -> (0 .. MaxEpoch) \X (0 .. MaxSeq)]
  BY DEF Link
<1>2. l.epoch \in Nat /\ l.heard \in Nat
  BY <1>1, BoundAssumption
<1>3. \A k \in Ticket : l.knows[k][1] \in Nat /\ l.knows[k][2] \in Nat
  BY <1>1, BoundAssumption
<1>4. ASSUME NEW i \in DOMAIN l.inbox, NEW d \in l.inbox[i].news
      PROVE  d[1] \in Ticket /\ d[2] \in Nat /\ d[2] > 0
  <2>1. l.inbox[i] \in PhoneMessage
    BY <1>1, <1>4
  <2>2. d \in Ticket \X (1 .. MaxSeq)
    BY <1>4, <2>1 DEF PhoneMessage
  <2> QED BY <2>2, BoundAssumption
<1> QED BY <1>1, <1>2, <1>3, <1>4

\* A link that hears of what the room wrote stays abreast of it.
LEMMA Told ==
  ASSUME NEW l, NEW w, NEW s, NEW w2, NEW s2, NEW e, NEW C, NEW M, NEW o \in BOOLEAN,
         Grown(w, s, w2, s2, C), Words(M, C, w2, e), Abreast(l, w, s, e, o), l.up
  PROVE  Abreast([l EXCEPT !.inbox = l.inbox \o M], w2, s2, e, o)
<1> DEFINE x == [l EXCEPT !.inbox = l.inbox \o M]
           b == l.inbox
           c == b \o M
           n == Len(b)
<1>1. /\ l \in Link /\ b \in Seq(PhoneMessage) /\ M \in Seq(PhoneMessage) /\ n \in Nat
  BY LinkFields DEF Abreast, Words
<1>2. x \in Link /\ x.up = l.up /\ x.inbox = c /\ x.epoch = l.epoch /\ x.heard = l.heard
      /\ x.knows = l.knows
  <2>1. c \in Seq(PhoneMessage)
    BY <1>1
  <2> HIDE DEF c
  <2>2. x = [l EXCEPT !.inbox = c]
    BY DEF c
  <2> HIDE DEF x
  <2> QED BY <1>1, <2>1, <2>2 DEF Link
<1>3. /\ c \in Seq(PhoneMessage) /\ DOMAIN b = 1 .. n /\ DOMAIN M = 1 .. Len(M)
      /\ DOMAIN c = 1 .. n + Len(M) /\ Len(M) \in Nat
      /\ \A i \in DOMAIN b : i \in DOMAIN c /\ c[i] = b[i]
      /\ \A i \in DOMAIN M : n + i \in DOMAIN c /\ c[n + i] = M[i]
      /\ \A i \in DOMAIN c : i \notin DOMAIN b => i - n \in DOMAIN M /\ c[i] = M[i - n]
  BY <1>1
<1>4. /\ Truthful(l, w, s, e) /\ InStep(l, e) /\ Informed(l, w, e, o)
  BY DEF Abreast
<1>f. /\ l.up \in BOOLEAN /\ l.epoch \in Nat /\ l.heard \in Nat
      /\ \A k \in Ticket : l.knows[k][1] \in Nat /\ l.knows[k][2] \in Nat
      /\ \A i \in DOMAIN b : \A d \in b[i].news : d[1] \in Ticket /\ d[2] \in Nat
  BY <1>1, LinkFields
<1> HIDE DEF x, b, c, n
<1>5. Truthful(x, w2, s2, e)
  <2>1. x.epoch <= e /\ (x.epoch = e => x.heard <= s2)
    BY <1>2, <1>4, <1>f DEF Truthful, Grown
  <2>2. ASSUME NEW k \in Ticket
        PROVE  /\ x.knows[k][1] <= e
               /\ x.knows[k][1] = e => w2[k] # NULL /\ x.knows[k][2] <= w2[k].seq
    <3>1. /\ l.knows[k][1] <= e
          /\ l.knows[k][1] = e => w[k] # NULL /\ l.knows[k][2] <= w[k].seq
      BY <1>4 DEF Truthful
    <3>2. w[k] # NULL => w2[k] # NULL /\ w[k].seq <= w2[k].seq
                         /\ w[k].seq \in Nat /\ w2[k].seq \in Nat
      BY GrownOlder
    <3>3. l.knows[k][2] \in Nat
      BY <1>f
    <3> QED BY <1>2, <3>1, <3>2, <3>3
  <2>3. ASSUME NEW i \in DOMAIN c
        PROVE  /\ c[i].epoch = e
               /\ \A d \in c[i].news : w2[d[1]] # NULL /\ d[2] <= w2[d[1]].seq
    <3>1. CASE i \in DOMAIN b
      <4>1. c[i] = b[i] /\ b[i].epoch = e
            /\ \A d \in b[i].news : w[d[1]] # NULL /\ d[2] <= w[d[1]].seq
        BY <1>3, <1>4, <3>1 DEF Truthful, b
      <4>2. \A d \in b[i].news : d[1] \in Ticket /\ d[2] \in Nat
        BY <1>f, <3>1
      <4>3. ASSUME NEW d \in b[i].news
            PROVE  w2[d[1]] # NULL /\ d[2] <= w2[d[1]].seq
        <5> DEFINE k == d[1]
        <5>1. k \in Ticket /\ w[k] # NULL /\ d[2] <= w[k].seq /\ d[2] \in Nat
          BY <4>1, <4>2, <4>3
        <5> HIDE DEF k
        <5>2. w2[k] # NULL /\ w[k].seq <= w2[k].seq /\ w[k].seq \in Nat /\ w2[k].seq \in Nat
          BY <5>1, GrownOlder
        <5>3. w2[k] # NULL /\ d[2] <= w2[k].seq
          BY <5>1, <5>2
        <5> QED BY <5>3 DEF k
      <4> QED BY <4>1, <4>3
    <3>2. CASE i \notin DOMAIN b
      <4>1. i - n \in DOMAIN M /\ c[i] = M[i - n]
        BY <1>3, <2>3, <3>2
      <4>2. c[i].epoch = e /\ \A d \in c[i].news : d[1] \in C /\ d[2] = w2[d[1]].seq
        BY <4>1 DEF Words
      <4>3. \A k \in C : w2[k] # NULL /\ w2[k].seq <= w2[k].seq
        BY BoundAssumption DEF Grown, RowsTyped, RoomRow
      <4> QED BY <4>2, <4>3
    <3> QED BY <3>1, <3>2
  <2> QED BY <1>2, <2>1, <2>2, <2>3 DEF Truthful
<1>6. InStep(x, e)
  <2>1. \A i \in DOMAIN c : c[i].kind = "hello" => i = 1
    <3> SUFFICES ASSUME NEW i \in DOMAIN c, c[i].kind = "hello" PROVE i = 1
      OBVIOUS
    <3>1. CASE i \in DOMAIN b
      BY <1>3, <1>4, <3>1 DEF InStep, b
    <3>2. CASE i \notin DOMAIN b
      BY <1>3, <3>2 DEF Words
    <3> QED BY <3>1, <3>2
  <2>2. \A i \in DOMAIN b : \A d \in b[i].news : d[2] <= s
    <3> SUFFICES ASSUME NEW i \in DOMAIN b, NEW d \in b[i].news PROVE d[2] <= s
      OBVIOUS
    <3> DEFINE k == d[1]
    <3>1. k \in Ticket /\ d[2] \in Nat
      BY <1>f
    <3>2. \A g \in b[i].news : w[g[1]] # NULL /\ g[2] <= w[g[1]].seq
      BY <1>4 DEF Truthful, b
    <3>3. w[k] # NULL /\ d[2] <= w[k].seq
      BY <3>2
    <3> HIDE DEF k
    <3>4. w[k].seq <= s /\ s \in Nat
      BY <3>1, <3>3 DEF Grown
    <3>5. w[k].seq \in Nat
      BY <3>1, <3>3, GrownOlder
    <3> QED BY <3>1, <3>3, <3>4, <3>5
  <2>3. \A i \in DOMAIN M : \A d \in M[i].news : s < d[2] /\ d[2] \in Nat
    <3> SUFFICES ASSUME NEW i \in DOMAIN M, NEW d \in M[i].news PROVE s < d[2] /\ d[2] \in Nat
      OBVIOUS
    <3> DEFINE k == d[1]
    <3>1. k \in C /\ d[2] = w2[k].seq
      BY DEF Words
    <3> HIDE DEF k
    <3>2. k \in Ticket /\ w2[k] # NULL /\ s < w2[k].seq
      BY <3>1 DEF Grown
    <3>3. w2[k].seq \in Nat
      BY <3>2, BoundAssumption DEF Grown, RowsTyped, RoomRow
    <3> QED BY <3>1, <3>2, <3>3
  <2>4. ASSUME NEW j \in DOMAIN c, ~c[j].catchup, NEW d \in c[j].news
        PROVE  /\ x.epoch = e => x.heard < d[2]
               /\ \A i \in DOMAIN c : i < j => \A f \in c[i].news : f[2] < d[2]
    <3>1. CASE j \in DOMAIN b
      <4>1. c[j] = b[j]
        BY <1>3, <3>1
      <4>2. /\ l.epoch = e => l.heard < d[2]
            /\ \A i \in DOMAIN b : i < j => \A f \in b[i].news : f[2] < d[2]
        BY <1>4, <2>4, <3>1, <4>1 DEF InStep, b
      <4>3. \A i \in DOMAIN c : i < j => i \in DOMAIN b /\ c[i] = b[i]
        BY <1>1, <1>3, <3>1
      <4> QED BY <1>2, <4>2, <4>3
    <3>2. CASE j \notin DOMAIN b
      <4>1. j - n \in DOMAIN M /\ c[j] = M[j - n]
        BY <1>3, <3>2, <2>4
      <4>2. s < d[2] /\ d[2] \in Nat /\ s \in Nat
        BY <2>3, <2>4, <4>1 DEF Grown
      <4>3. l.epoch = e => l.heard <= s
        BY <1>4 DEF Truthful
      <4>4. x.epoch = e => x.heard < d[2]
        BY <1>2, <1>f, <4>2, <4>3
      <4>5. ASSUME NEW i \in DOMAIN c, i < j, NEW f \in c[i].news
            PROVE  f[2] < d[2]
        <5>1. CASE i \in DOMAIN b
          <6>1. f \in b[i].news
            BY <1>3, <4>5, <5>1
          <6>2. f[2] <= s /\ f[2] \in Nat
            BY <1>f, <2>2, <5>1, <6>1
          <6> QED BY <4>2, <6>2
        <5>2. CASE i \notin DOMAIN b
          <6>1. i - n \in DOMAIN M /\ c[i] = M[i - n]
            BY <1>3, <4>5, <5>2
          <6>2. i - n < j - n
            BY <1>1, <1>3, <2>4, <4>5
          <6> QED BY <2>4, <4>1, <4>5, <6>1, <6>2 DEF Words
        <5> QED BY <5>1, <5>2
      <4> QED BY <4>4, <4>5
    <3> QED BY <3>1, <3>2
  <2> QED BY <1>2, <2>1, <2>4 DEF InStep
<1>7. Informed(x, w2, e, o)
  <2> SUFFICES ASSUME ~o, NEW k \in Ticket
               PROVE  /\ x.up => Knows(x, k, w2, e) \/ Coming(x, k, w2)
                      /\ x.epoch = e =>
                           Knows(x, k, w2, e) \/ w2[k].seq > x.heard \/ CatchingUp(x)
    BY DEF Informed
  <2>1. CASE k \in C
    <3>1. PICK i \in DOMAIN M : <<k, w2[k].seq>> \in M[i].news
      BY <2>1 DEF Words
    <3>2. n + i \in DOMAIN c /\ c[n + i] = M[i]
      BY <1>3, <3>1
    <3>3. Coming(x, k, w2)
      BY <1>2, <3>1, <3>2 DEF Coming
    <3>4. x.epoch = e => w2[k].seq > x.heard
      <4>1. s < w2[k].seq /\ w2[k] # NULL /\ s \in Nat
        BY <2>1 DEF Grown
      <4>2. w2[k].seq \in Nat
        BY <4>1, BoundAssumption DEF Grown, RowsTyped, RoomRow
      <4>3. l.epoch = e => l.heard <= s
        BY <1>4 DEF Truthful
      <4> QED BY <1>2, <1>f, <4>1, <4>2, <4>3
    <3> QED BY <3>3, <3>4
  <2>2. CASE k \notin C
    <3>1. w2[k] = w[k]
      BY <2>2 DEF Grown
    <3>2. /\ l.up => Knows(l, k, w, e) \/ Coming(l, k, w)
          /\ l.epoch = e => Knows(l, k, w, e) \/ w[k].seq > l.heard \/ CatchingUp(l)
      BY <1>4 DEF Informed
    <3>3. Knows(l, k, w, e) => Knows(x, k, w2, e)
      BY <1>2, <3>1 DEF Knows
    <3>4. Coming(l, k, w) => Coming(x, k, w2)
      BY <1>2, <1>3, <3>1 DEF Coming, b
    <3>5. CatchingUp(l) => CatchingUp(x)
      <4> SUFFICES ASSUME CatchingUp(l) PROVE CatchingUp(x)
        OBVIOUS
      <4>1. PICK i \in DOMAIN b : b[i].catchup
        BY DEF CatchingUp, b
      <4>2. 1 \in DOMAIN b /\ Head(b) = b[1] /\ Head(c) = c[1]
        BY <1>1, <1>3, <4>1
      <4>3. i \in DOMAIN c /\ c[i] = b[i] /\ c[1] = b[1]
        BY <1>3, <4>1, <4>2
      <4> QED BY <1>2, <4>1, <4>2, <4>3 DEF CatchingUp, b
    <3> QED BY <1>2, <3>1, <3>2, <3>3, <3>4, <3>5
  <2> QED BY <2>1, <2>2
<1> QED BY <1>2, <1>5, <1>6, <1>7 DEF Abreast, x, c, b

\* A link that is down hears nothing, and stays as far as it was.
LEMMA Aside ==
  ASSUME NEW l, NEW w, NEW s, NEW w2, NEW s2, NEW e, NEW C, NEW o \in BOOLEAN,
         NEW o2 \in BOOLEAN, Grown(w, s, w2, s2, C), Abreast(l, w, s, e, o),
         ~l.up, l.inbox = <<>>, o => o2
  PROVE  Abreast(l, w2, s2, e, o2)
<1>1. l \in Link /\ Truthful(l, w, s, e) /\ InStep(l, e) /\ Informed(l, w, e, o)
  BY DEF Abreast
<1>2. /\ l.epoch \in Nat /\ l.heard \in Nat
      /\ \A k \in Ticket : l.knows[k][1] \in Nat /\ l.knows[k][2] \in Nat
  BY <1>1, LinkFields
<1>3. DOMAIN l.inbox = {}
  OBVIOUS
<1>4. Truthful(l, w2, s2, e)
  <2>1. l.epoch <= e /\ (l.epoch = e => l.heard <= s2)
    BY <1>1, <1>2 DEF Truthful, Grown
  <2>2. ASSUME NEW k \in Ticket
        PROVE  /\ l.knows[k][1] <= e
               /\ l.knows[k][1] = e => w2[k] # NULL /\ l.knows[k][2] <= w2[k].seq
    <3>1. /\ l.knows[k][1] <= e
          /\ l.knows[k][1] = e => w[k] # NULL /\ l.knows[k][2] <= w[k].seq
      BY <1>1 DEF Truthful
    <3>2. w[k] # NULL => w2[k] # NULL /\ w[k].seq <= w2[k].seq
                         /\ w[k].seq \in Nat /\ w2[k].seq \in Nat
      BY GrownOlder
    <3>3. l.knows[k][2] \in Nat
      BY <1>2
    <3> QED BY <3>1, <3>2, <3>3
  <2> QED BY <1>3, <2>1, <2>2 DEF Truthful
<1>5. Informed(l, w2, e, o2)
  <2> SUFFICES ASSUME NEW k \in Ticket, ~o2, l.epoch = e
               PROVE  Knows(l, k, w2, e) \/ w2[k].seq > l.heard
    BY DEF Informed
  <2>1. Knows(l, k, w, e) \/ w[k].seq > l.heard
    BY <1>1, <1>3 DEF Informed, CatchingUp
  <2>2. CASE k \in C
    <3>1. s < w2[k].seq /\ w2[k] # NULL /\ s \in Nat
      BY <2>2 DEF Grown
    <3>2. w2[k].seq \in Nat
      BY <3>1, BoundAssumption DEF Grown, RowsTyped, RoomRow
    <3>3. l.heard <= s
      BY <1>1 DEF Truthful
    <3> QED BY <1>2, <3>1, <3>2, <3>3
  <2>3. CASE k \notin C
    BY <2>1, <2>3 DEF Grown, Knows
  <2> QED BY <2>2, <2>3
<1> QED BY <1>1, <1>4, <1>5 DEF Abreast

\* Link l of a phone that said this word of k itself.
Spoken(l, k, word) == [l EXCEPT !.knows = [l.knows EXCEPT ![k] = word]]

\* The phone that spoke hears nothing back, but knows its own word.
LEMMA Spoke ==
  ASSUME NEW l, NEW w, NEW s, NEW w2, NEW s2, NEW e \in Nat, NEW k \in Ticket, NEW o \in BOOLEAN,
         Grown(w, s, w2, s2, {k}), Abreast(l, w, s, e, o), l.up,
         e <= MaxEpoch, s2 <= MaxSeq
  PROVE  Abreast(Spoken(l, k, <<e, w2[k].seq>>), w2, s2, e, o)
<1> DEFINE word == <<e, w2[k].seq>>
           g == [l.knows EXCEPT ![k] = word]
           x == [l EXCEPT !.knows = g]
<1>1. l \in Link /\ Truthful(l, w, s, e) /\ InStep(l, e) /\ Informed(l, w, e, o)
  BY DEF Abreast
<1>2. w2[k] # NULL /\ s < w2[k].seq /\ w2[k].seq <= s2 /\ w2[k].seq \in Nat /\ s \in Nat
      /\ s2 \in Nat
  <2>1. w2[k] # NULL /\ s < w2[k].seq /\ w2[k].seq <= s2 /\ s \in Nat /\ s2 \in Nat
    BY DEF Grown
  <2>2. w2[k].seq \in Nat
    BY <2>1, BoundAssumption DEF Grown, RowsTyped, RoomRow
  <2> QED BY <2>1, <2>2
<1>3. word \in (0 .. MaxEpoch) \X (0 .. MaxSeq)
  BY <1>2, BoundAssumption
<1>f. /\ l.epoch \in Nat /\ l.heard \in Nat /\ l.up \in BOOLEAN
      /\ l.knows \in [Ticket -> (0 .. MaxEpoch) \X (0 .. MaxSeq)]
      /\ \A j \in Ticket : l.knows[j][1] \in Nat /\ l.knows[j][2] \in Nat
      /\ \A i \in DOMAIN l.inbox : \A d \in l.inbox[i].news : d[1] \in Ticket /\ d[2] \in Nat
  BY <1>1, LinkFields
<1>4. g \in [Ticket -> (0 .. MaxEpoch) \X (0 .. MaxSeq)]
      /\ \A j \in Ticket : g[j] = IF j = k THEN word ELSE l.knows[j]
  <2> HIDE DEF word
  <2> QED BY <1>3, <1>f
<1>5. x \in Link /\ x.up = l.up /\ x.inbox = l.inbox /\ x.epoch = l.epoch
      /\ x.heard = l.heard /\ x.knows = g
  <2> HIDE DEF g
  <2> QED BY <1>1, <1>4 DEF Link
<1>w. word[1] = e /\ word[2] = w2[k].seq
  OBVIOUS
<1> HIDE DEF g, x, word
<1>6. \A j \in Ticket : j # k => w2[j] = w[j]
  BY DEF Grown
<1>7. Truthful(x, w2, s2, e)
  <2>1. x.epoch <= e /\ (x.epoch = e => x.heard <= s2)
    BY <1>1, <1>2, <1>5, <1>f DEF Truthful, Grown
  <2>2. ASSUME NEW j \in Ticket
        PROVE  /\ x.knows[j][1] <= e
               /\ x.knows[j][1] = e => w2[j] # NULL /\ x.knows[j][2] <= w2[j].seq
    <3>1. CASE j = k
      BY <1>2, <1>4, <1>5, <1>w, <3>1
    <3>2. CASE j # k
      BY <1>1, <1>4, <1>5, <1>6, <3>2 DEF Truthful
    <3> QED BY <3>1, <3>2
  <2>3. ASSUME NEW i \in DOMAIN l.inbox
        PROVE  /\ l.inbox[i].epoch = e
               /\ \A d \in l.inbox[i].news : w2[d[1]] # NULL /\ d[2] <= w2[d[1]].seq
    <3>1. /\ l.inbox[i].epoch = e
          /\ \A d \in l.inbox[i].news : w[d[1]] # NULL /\ d[2] <= w[d[1]].seq
      BY <1>1, <2>3 DEF Truthful
    <3>2. ASSUME NEW d \in l.inbox[i].news
          PROVE  w2[d[1]] # NULL /\ d[2] <= w2[d[1]].seq
      <4> DEFINE j == d[1]
      <4>1. j \in Ticket /\ w[j] # NULL /\ d[2] <= w[j].seq /\ d[2] \in Nat
        BY <1>f, <2>3, <3>1, <3>2
      <4> HIDE DEF j
      <4>2. w2[j] # NULL /\ w[j].seq <= w2[j].seq /\ w[j].seq \in Nat /\ w2[j].seq \in Nat
        BY <4>1, GrownOlder
      <4>3. w2[j] # NULL /\ d[2] <= w2[j].seq
        BY <4>1, <4>2
      <4> QED BY <4>3 DEF j
    <3> QED BY <3>1, <3>2
  <2> QED BY <1>5, <2>1, <2>2, <2>3 DEF Truthful
<1>8. InStep(x, e)
  BY <1>1, <1>5 DEF InStep
<1>9. Informed(x, w2, e, o)
  <2> SUFFICES ASSUME ~o, NEW j \in Ticket
               PROVE  /\ x.up => Knows(x, j, w2, e) \/ Coming(x, j, w2)
                      /\ x.epoch = e =>
                           Knows(x, j, w2, e) \/ w2[j].seq > x.heard \/ CatchingUp(x)
    BY DEF Informed
  <2>1. CASE j = k
    <3>1. Knows(x, j, w2, e)
      BY <1>4, <1>5, <2>1 DEF Knows, word
    <3> QED BY <3>1
  <2>2. CASE j # k
    <3>1. x.knows[j] = l.knows[j] /\ w2[j] = w[j]
      BY <1>4, <1>5, <1>6, <2>2
    <3>2. /\ l.up => Knows(l, j, w, e) \/ Coming(l, j, w)
          /\ l.epoch = e => Knows(l, j, w, e) \/ w[j].seq > l.heard \/ CatchingUp(l)
      BY <1>1 DEF Informed
    <3> QED BY <1>5, <3>1, <3>2 DEF Knows, Coming, CatchingUp
  <2> QED BY <2>1, <2>2
<1> QED BY <1>5, <1>7, <1>8, <1>9 DEF Abreast, Spoken, x, g, word

\* Link l once it is shut.
ShutLink(l) == [l EXCEPT !.up = FALSE, !.inbox = <<>>]

\* A link that a rebuild shuts: what it knows is of a room that is no more.
LEMMA Closed ==
  ASSUME NEW l, NEW w, NEW s, NEW w2, NEW s2, NEW e \in Nat, NEW o \in BOOLEAN,
         NEW o2 \in BOOLEAN, Abreast(l, w, s, e, o)
  PROVE  Abreast(ShutLink(l), w2, s2, e + 1, o2)
<1> DEFINE x == ShutLink(l)
<1>1. l \in Link /\ Truthful(l, w, s, e)
  BY DEF Abreast
<1>f. l.epoch \in Nat /\ \A j \in Ticket : l.knows[j][1] \in Nat
  BY <1>1, LinkFields
<1>2. <<>> \in Seq(PhoneMessage)
  OBVIOUS
<1>3. x \in Link /\ ~x.up /\ x.inbox = <<>> /\ x.epoch = l.epoch /\ x.heard = l.heard
      /\ x.knows = l.knows
  BY <1>1, <1>2 DEF Link, ShutLink
<1> HIDE DEF x
<1>4. DOMAIN x.inbox = {}
  BY <1>3
<1>5. l.epoch <= e /\ \A k \in Ticket : l.knows[k][1] <= e
  BY <1>1 DEF Truthful
<1>6. /\ x.epoch <= e + 1 /\ x.epoch # e + 1
      /\ \A k \in Ticket : x.knows[k][1] <= e + 1 /\ x.knows[k][1] # e + 1
  BY <1>3, <1>5, <1>f
<1>7. Truthful(x, w2, s2, e + 1)
  BY <1>4, <1>6 DEF Truthful
<1> QED BY <1>3, <1>4, <1>6, <1>7 DEF Abreast, InStep, Informed, x

\* Less is claimed of a phone that is left out.
LEMMA LeftBehind ==
  ASSUME NEW l, NEW w, NEW s, NEW e, NEW o, Abreast(l, w, s, e, o)
  PROVE  Abreast(l, w, s, e, TRUE)
BY DEF Abreast, Informed

\* A link that drops, but not in the middle of a catch-up.
LEMMA Dropped ==
  ASSUME NEW l, NEW w, NEW s, NEW e \in Nat, NEW o \in BOOLEAN, Abreast(l, w, s, e, o),
         ~CatchingUp(l) \/ o
  PROVE  Abreast(ShutLink(l), w, s, e, o)
<1> DEFINE x == ShutLink(l)
<1>1. l \in Link /\ Truthful(l, w, s, e) /\ Informed(l, w, e, o)
  BY DEF Abreast
<1>2. <<>> \in Seq(PhoneMessage)
  OBVIOUS
<1>3. x \in Link /\ ~x.up /\ x.inbox = <<>> /\ x.epoch = l.epoch /\ x.heard = l.heard
      /\ x.knows = l.knows
  BY <1>1, <1>2 DEF Link, ShutLink
<1> HIDE DEF x
<1>4. DOMAIN x.inbox = {}
  BY <1>3
<1>5. Truthful(x, w, s, e)
  BY <1>1, <1>3, <1>4 DEF Truthful
<1>6. InStep(x, e)
  BY <1>4 DEF InStep
<1>7. Informed(x, w, e, o)
  BY <1>1, <1>3 DEF Informed, Knows
<1> QED BY <1>3, <1>5, <1>6, <1>7 DEF Abreast, x

\* The messages of a catch-up from a cursor on.
CatchUp(b, w, e, from) ==
  /\ b \in Seq(PhoneMessage)
  /\ \A i \in DOMAIN b :
       /\ b[i].epoch = e /\ b[i].catchup /\ (b[i].kind = "hello" => i = 1)
       /\ \A d \in b[i].news : w[d[1]] # NULL /\ d[2] = w[d[1]].seq
  /\ \A k \in Ticket : w[k] # NULL /\ w[k].seq > from =>
       \E i \in DOMAIN b : <<k, w[k].seq>> \in b[i].news

\* Link l once it is up, with b on its way.
Opened(l, b) == [l EXCEPT !.up = TRUE, !.inbox = b]

\* A link that comes up again.
LEMMA Connected ==
  ASSUME NEW l, NEW w, NEW s \in Nat, NEW e \in Nat, NEW b, NEW from, NEW o \in BOOLEAN,
         Abreast(l, w, s, e, o),
         RowsTyped(w), ~l.up, l.inbox = <<>>,
         from = IF l.epoch # e \/ l.heard > s THEN 0 ELSE l.heard,
         CatchUp(b, w, e, from)
  PROVE  Abreast(Opened(l, b), w, s, e, o)
<1> DEFINE x == Opened(l, b)
<1>1. l \in Link /\ Truthful(l, w, s, e) /\ Informed(l, w, e, o)
  BY DEF Abreast
<1>2. b \in Seq(PhoneMessage)
  BY DEF CatchUp
<1>3. x \in Link /\ x.up /\ x.inbox = b /\ x.epoch = l.epoch /\ x.heard = l.heard
      /\ x.knows = l.knows
  BY <1>1, <1>2 DEF Link, Opened
<1> HIDE DEF x
<1>4. \A k \in Ticket : w[k] # NULL => w[k].seq \in Nat /\ w[k].seq > 0
  BY BoundAssumption DEF RowsTyped, RoomRow
<1>5. Truthful(x, w, s, e)
  <2>1. ASSUME NEW i \in DOMAIN b
        PROVE  /\ b[i].epoch = e
               /\ \A d \in b[i].news : w[d[1]] # NULL /\ d[2] <= w[d[1]].seq
    <3>1. ASSUME NEW d \in b[i].news
          PROVE  w[d[1]] # NULL /\ d[2] <= w[d[1]].seq
      <4>1. w[d[1]] # NULL /\ d[2] = w[d[1]].seq
        BY <2>1, <3>1 DEF CatchUp
      <4>2. d[1] \in Ticket
        <5>1. x.inbox[i] = b[i] /\ i \in DOMAIN x.inbox
          BY <1>3, <2>1
        <5> QED BY <1>3, <3>1, <5>1, LinkFields
      <4> QED BY <1>4, <4>1, <4>2
    <3> QED BY <2>1, <3>1 DEF CatchUp
  <2> QED BY <1>1, <1>3, <2>1 DEF Truthful
<1>6. InStep(x, e)
  BY <1>3 DEF InStep, CatchUp
<1>7. Informed(x, w, e, o)
  <2> SUFFICES ASSUME ~o, NEW k \in Ticket
               PROVE  /\ Knows(x, k, w, e) \/ Coming(x, k, w)
                      /\ x.epoch = e => Knows(x, k, w, e) \/ w[k].seq > x.heard
    BY DEF Informed
  <2>1. l.epoch = e => Knows(l, k, w, e) \/ w[k].seq > l.heard
    BY <1>1 DEF Informed, CatchingUp
  <2>2. Knows(l, k, w, e) => Knows(x, k, w, e)
    BY <1>3 DEF Knows
  <2>3. w[k] # NULL /\ w[k].seq > from => Coming(x, k, w)
    BY <1>3 DEF Coming, CatchUp
  <2>4. l.epoch = e => from = l.heard
    BY <1>1, LinkFields DEF Truthful
  <2>5. l.epoch # e => from = 0
    OBVIOUS
  <2>6. w[k] = NULL => Knows(x, k, w, e)
    BY DEF Knows
  <2> QED BY <1>3, <1>4, <2>1, <2>2, <2>3, <2>4, <2>5, <2>6
<1> QED BY <1>3, <1>5, <1>6, <1>7 DEF Abreast, x

\* The largest of some numbers.
LEMMA MaxIs ==
  ASSUME NEW n \in Nat, NEW S \in SUBSET (0 .. n), S # {}
  PROVE  Max(S) \in S /\ \A m \in S : m <= Max(S)
<1>1. IsFiniteSet(S) /\ S \in SUBSET Nat
  <2>1. IsFiniteSet(0 .. n)
    BY FS_Interval
  <2>2. IsFiniteSet(S)
    BY <2>1, FS_Subset
  <2>3. S \in SUBSET Nat
    OBVIOUS
  <2> QED BY <2>2, <2>3
<1>2. \E x \in S : \A m \in S : m <= x
  BY <1>1, LargestExists
<1>3. \A x \in S, m \in S : m <= x <=> x >= m
  OBVIOUS
<1>4. \E x \in S : \A m \in S : x >= m
  BY <1>2, <1>3
<1>5. Max(S) = CHOOSE x \in S : \A m \in S : x >= m
  BY Zenon DEF Max
<1>6. Max(S) \in S /\ \A m \in S : Max(S) >= m
  <2> HIDE DEF Max
  <2> QED BY <1>4, <1>5
<1> QED BY <1>3, <1>6

\* The newest word on a ticket is the message's, the phone's own, or both.
LEMMA NewestIs ==
  ASSUME NEW known \in (0 .. MaxEpoch) \X (0 .. MaxSeq), NEW k \in Ticket,
         NEW m \in PhoneMessage
  PROVE  LET word == NewestWord(known, k, m)
             said == {d[2] : d \in {c \in m.news : c[1] = k}}
         IN  /\ word \in (0 .. MaxEpoch) \X (0 .. MaxSeq)
             /\ said = {} => word = known
             /\ said # {} => /\ word[1] = m.epoch
                             /\ word[2] \in said \/ (known[1] = m.epoch /\ word[2] = known[2])
                             /\ \A n \in said : n <= word[2]
                             /\ known[1] = m.epoch => known[2] <= word[2]
<1> DEFINE said == {d[2] : d \in {c \in m.news : c[1] = k}}
           own == IF known[1] = m.epoch THEN {known[2]} ELSE {}
           word == NewestWord(known, k, m)
<1>1. m.news \subseteq Ticket \X (1 .. MaxSeq) /\ m.epoch \in 1 .. MaxEpoch
  BY DEF PhoneMessage
<1>2. said \subseteq 0 .. MaxSeq
  <2> SUFFICES ASSUME NEW d \in m.news PROVE d[2] \in 0 .. MaxSeq
    OBVIOUS
  <2>1. d \in Ticket \X (1 .. MaxSeq)
    BY <1>1
  <2> QED BY <2>1, BoundAssumption
<1>3. known[1] \in 0 .. MaxEpoch /\ known[2] \in 0 .. MaxSeq
  OBVIOUS
<1>4. said \cup own \subseteq 0 .. MaxSeq
  BY <1>2, <1>3
<1>5. word = IF said = {} THEN known ELSE <<m.epoch, Max(said \cup own)>>
  BY Zenon DEF NewestWord
<1> HIDE DEF said, word
<1>6. CASE said = {}
  BY <1>5, <1>6 DEF said, word
<1>7. CASE said # {}
  <2> DEFINE top == Max(said \cup own)
  <2>1. top \in said \cup own /\ \A n \in said \cup own : n <= top
    BY <1>4, <1>7, MaxIs, BoundAssumption
  <2> HIDE DEF top
  <2>2. word = <<m.epoch, top>>
    BY <1>5, <1>7 DEF top
  <2>3. top \in 0 .. MaxSeq
    BY <1>4, <2>1
  <2>4. word \in (0 .. MaxEpoch) \X (0 .. MaxSeq)
    BY <1>1, <2>2, <2>3, BoundAssumption
  <2>5. word[1] = m.epoch /\ word[2] = top
    BY <2>2
  <2>6. top \in said \/ (known[1] = m.epoch /\ top = known[2])
    BY <2>1
  <2>7. (known[1] = m.epoch => known[2] <= top) /\ \A n \in said : n <= top
    BY <2>1
  <2> QED BY <1>7, <2>4, <2>5, <2>6, <2>7 DEF said, word
<1> QED BY <1>6, <1>7

\* Link l once it heard message m from its cursor on.
Hearing(l, m, cursor) ==
  [up    |-> TRUE,
   inbox |-> Tail(l.inbox),
   epoch |-> m.epoch,
   heard |-> Max({cursor} \cup {d[2] : d \in m.news}),
   knows |-> [k \in Ticket |-> NewestWord(l.knows[k], k, m)]]

\* A phone that hears the message at the head of its inbox.
LEMMA HeardNext ==
  ASSUME NEW l, NEW w, NEW s \in Nat, NEW e \in Nat, NEW o \in BOOLEAN,
         Abreast(l, w, s, e, o), RowsTyped(w), RowsApart(w, s), l.up, l.inbox # <<>>,
         NEW m, m = Head(l.inbox),
         NEW cursor, cursor = IF m.epoch # l.epoch THEN 0 ELSE l.heard
  PROVE  Abreast(Hearing(l, m, cursor), w, s, e, o)
<1> DEFINE x == Hearing(l, m, cursor)
           b == l.inbox
           t == Tail(b)
           n == Len(b)
           told == {d[2] : d \in m.news}
           h == Max({cursor} \cup told)
           Said(k) == {d[2] : d \in {c \in m.news : c[1] = k}}
           g == [k \in Ticket |-> NewestWord(l.knows[k], k, m)]
<1>1. l \in Link /\ Truthful(l, w, s, e) /\ InStep(l, e) /\ Informed(l, w, e, o)
  BY DEF Abreast
<1>f. /\ l.epoch \in Nat /\ l.heard \in 0 .. MaxSeq /\ b \in Seq(PhoneMessage) /\ l.heard \in Nat
      /\ \A k \in Ticket : l.knows[k][1] \in Nat /\ l.knows[k][2] \in Nat
      /\ \A k \in Ticket : l.knows[k] \in (0 .. MaxEpoch) \X (0 .. MaxSeq)
      /\ \A i \in DOMAIN b : \A d \in b[i].news : d[1] \in Ticket /\ d[2] \in Nat /\ d[2] > 0
  BY <1>1, LinkFields
<1>2. /\ n \in Nat /\ 1 \in DOMAIN b /\ m = b[1] /\ m \in PhoneMessage /\ t \in Seq(PhoneMessage)
      /\ \A i \in DOMAIN t : i \in Nat /\ i + 1 \in DOMAIN b /\ t[i] = b[i + 1]
      /\ \A i \in DOMAIN b : i \in Nat /\ (i # 1 => i - 1 \in DOMAIN t /\ t[i - 1] = b[i])
  BY <1>f
<1>3. m.epoch = e /\ \A d \in m.news : d[1] \in Ticket /\ d[2] \in Nat /\ w[d[1]] # NULL
                                       /\ d[2] <= w[d[1]].seq /\ d[2] > 0
  <2>1. b[1].epoch = e /\ \A d \in b[1].news : w[d[1]] # NULL /\ d[2] <= w[d[1]].seq
    BY <1>1, <1>2 DEF Truthful, b
  <2> QED BY <1>2, <1>f, <2>1
<1>m. m.epoch \in 1 .. MaxEpoch /\ m.news \subseteq Ticket \X (1 .. MaxSeq)
  BY <1>2 DEF PhoneMessage
<1>4. told \subseteq 0 .. MaxSeq
  <2> SUFFICES ASSUME NEW d \in m.news PROVE d[2] \in 0 .. MaxSeq
    OBVIOUS
  <2>1. d \in Ticket \X (1 .. MaxSeq)
    BY <1>m
  <2> QED BY <2>1, BoundAssumption
<1>5. cursor \in 0 .. MaxSeq
  BY <1>f, BoundAssumption
<1> HIDE DEF told
<1>6. h \in {cursor} \cup told /\ \A c \in {cursor} \cup told : c <= h
  <2>1. {cursor} \cup told \in SUBSET (0 .. MaxSeq) /\ MaxSeq \in Nat
    BY <1>4, <1>5, BoundAssumption
  <2> QED BY <2>1, MaxIs
<1> HIDE DEF h
<1>7. h \in 0 .. MaxSeq /\ h \in Nat /\ cursor <= h /\ \A d \in m.news : d[2] <= h
  <2>1. h \in 0 .. MaxSeq /\ cursor <= h
    BY <1>4, <1>5, <1>6
  <2>2. h \in Nat
    BY <2>1, BoundAssumption
  <2>3. \A d \in m.news : d[2] \in told
    BY DEF told
  <2> QED BY <1>6, <2>1, <2>2, <2>3
<1>8. ASSUME NEW k \in Ticket
      PROVE  /\ g[k] \in (0 .. MaxEpoch) \X (0 .. MaxSeq)
             /\ Said(k) = {} => g[k] = l.knows[k]
             /\ Said(k) # {} =>
                  /\ g[k][1] = e
                  /\ g[k][2] \in Said(k) \/ (l.knows[k][1] = e /\ g[k][2] = l.knows[k][2])
                  /\ \A c \in Said(k) : c <= g[k][2]
                  /\ l.knows[k][1] = e => l.knows[k][2] <= g[k][2]
  <2> DEFINE word == NewestWord(l.knows[k], k, m)
  <2>1. l.knows[k] \in (0 .. MaxEpoch) \X (0 .. MaxSeq)
    BY <1>f
  <2>2. /\ word \in (0 .. MaxEpoch) \X (0 .. MaxSeq)
        /\ Said(k) = {} => word = l.knows[k]
        /\ Said(k) # {} =>
             /\ word[1] = m.epoch
             /\ word[2] \in Said(k) \/ (l.knows[k][1] = m.epoch /\ word[2] = l.knows[k][2])
             /\ \A c \in Said(k) : c <= word[2]
             /\ l.knows[k][1] = m.epoch => l.knows[k][2] <= word[2]
    BY <1>2, <2>1, NewestIs
  <2>3. g[k] = word
    OBVIOUS
  <2> HIDE DEF word, g, Said
  <2> QED BY <1>3, <2>2, <2>3
<1>9. g \in [Ticket -> (0 .. MaxEpoch) \X (0 .. MaxSeq)]
  <2>1. g = [k \in Ticket |-> g[k]]
    OBVIOUS
  <2> HIDE DEF g, Said
  <2> QED BY <1>8, <2>1
<1>10. \A k \in Ticket : \A c \in Said(k) : <<k, c>> \in m.news
  <2> SUFFICES ASSUME NEW k \in Ticket, NEW d \in m.news, d[1] = k PROVE <<k, d[2]>> \in m.news
    OBVIOUS
  <2>1. d \in Ticket \X (1 .. MaxSeq)
    BY <1>m
  <2>2. d = <<d[1], d[2]>>
    BY <2>1
  <2> QED BY <2>2
<1>11. \A k \in Ticket : \A c : <<k, c>> \in m.news => c \in Said(k)
  <2> SUFFICES ASSUME NEW k \in Ticket, NEW c, <<k, c>> \in m.news PROVE c \in Said(k)
    OBVIOUS
  <2>1. <<k, c>>[1] = k /\ <<k, c>>[2] = c
    OBVIOUS
  <2> QED BY <2>1
<1>12. x.up = TRUE /\ x.inbox = t /\ x.epoch = e /\ x.heard = h /\ x.knows = g
  <2>1. x = [up |-> TRUE, inbox |-> t, epoch |-> m.epoch, heard |-> h, knows |-> g]
    BY DEF h, told, Hearing
  <2> HIDE DEF g, t, x
  <2> QED BY <1>3, <2>1
<1>13. x \in Link
  <2>1. x = [up |-> TRUE, inbox |-> t, epoch |-> m.epoch, heard |-> h, knows |-> g]
    BY DEF h, told, Hearing
  <2>2. m.epoch \in 0 .. MaxEpoch
    BY <1>m
  <2> HIDE DEF g, t, x
  <2> QED BY <1>2, <1>7, <1>9, <2>1, <2>2 DEF Link
<1> HIDE DEF x, g, t, b, n, Said
<1>14. \A k \in Ticket : w[k] # NULL => w[k].seq \in Nat /\ w[k].seq <= s
  BY BoundAssumption DEF RowsTyped, RoomRow, RowsApart
<1>15. ASSUME NEW k \in Ticket, NEW c \in Said(k)
       PROVE  c \in Nat /\ w[k] # NULL /\ c <= w[k].seq
  <2>1. <<k, c>> \in m.news
    BY <1>10, <1>15
  <2>2. <<k, c>>[1] = k /\ <<k, c>>[2] = c
    OBVIOUS
  <2> QED BY <1>3, <2>1, <2>2
<1>16. Truthful(x, w, s, e)
  <2>1. h <= s
    <3>1. cursor <= s
      BY <1>1, <1>3, <1>f DEF Truthful
    <3>2. ASSUME NEW d \in m.news PROVE d[2] <= s
      <4> DEFINE k == d[1]
      <4>1. k \in Ticket /\ w[k] # NULL /\ d[2] <= w[k].seq /\ d[2] \in Nat
        BY <1>3, <3>2
      <4> HIDE DEF k
      <4> QED BY <1>14, <4>1
    <3> QED BY <1>6, <3>1, <3>2 DEF told
  <2>2. ASSUME NEW k \in Ticket
        PROVE  g[k][1] <= e /\ (g[k][1] = e => w[k] # NULL /\ g[k][2] <= w[k].seq)
    <3>1. l.knows[k][1] <= e /\ (l.knows[k][1] = e => w[k] # NULL /\ l.knows[k][2] <= w[k].seq)
      BY <1>1 DEF Truthful
    <3>2. CASE Said(k) = {}
      BY <1>8, <3>1, <3>2
    <3>3. CASE Said(k) # {}
      <4>1. g[k][1] = e
            /\ (g[k][2] \in Said(k) \/ (l.knows[k][1] = e /\ g[k][2] = l.knows[k][2]))
        BY <1>8, <3>3
      <4> QED BY <1>15, <3>1, <4>1
    <3> QED BY <3>2, <3>3
  <2>3. ASSUME NEW i \in DOMAIN t
        PROVE  /\ t[i].epoch = e
               /\ \A d \in t[i].news : w[d[1]] # NULL /\ d[2] <= w[d[1]].seq
    <3>1. i + 1 \in DOMAIN b /\ t[i] = b[i + 1]
      BY <1>2, <2>3
    <3>2. \A j \in DOMAIN b : /\ b[j].epoch = e
                              /\ \A d \in b[j].news : w[d[1]] # NULL /\ d[2] <= w[d[1]].seq
      BY <1>1 DEF Truthful, b
    <3> QED BY <3>1, <3>2
  <2> QED BY <1>12, <2>1, <2>2, <2>3 DEF Truthful
<1>17. InStep(x, e)
  <2>1. ASSUME NEW i \in DOMAIN t PROVE t[i].kind # "hello"
    <3>1. i + 1 \in DOMAIN b /\ t[i] = b[i + 1] /\ i + 1 # 1
      <4>1. i \in Nat /\ i + 1 \in DOMAIN b /\ t[i] = b[i + 1] /\ i # 0
        BY <1>2, <2>1
      <4> QED BY <4>1
    <3> QED BY <1>1, <3>1 DEF InStep, b
  <2>2. ASSUME NEW j \in DOMAIN t, ~t[j].catchup, NEW d \in t[j].news
        PROVE  h < d[2] /\ \A i \in DOMAIN t : i < j => \A c \in t[i].news : c[2] < d[2]
    <3>1. j \in Nat /\ j # 0 /\ j + 1 \in DOMAIN b /\ t[j] = b[j + 1]
      BY <1>2, <2>2
    <3>2. /\ l.epoch = e => l.heard < d[2]
          /\ \A i \in DOMAIN b : i < j + 1 => \A c \in b[i].news : c[2] < d[2]
      BY <1>1, <2>2, <3>1 DEF InStep, b
    <3>3. d[2] \in Nat /\ d[2] > 0
      BY <1>f, <2>2, <3>1
    <3>4. cursor < d[2]
      BY <1>3, <3>2, <3>3
    <3>5. \A c \in m.news : c[2] < d[2]
      <4>1. 1 < j + 1
        BY <3>1
      <4> QED BY <1>2, <3>2, <4>1
    <3>6. h < d[2]
      BY <1>6, <3>4, <3>5 DEF told
    <3>7. ASSUME NEW i \in DOMAIN t, i < j
          PROVE  \A c \in t[i].news : c[2] < d[2]
      <4>1. i + 1 \in DOMAIN b /\ t[i] = b[i + 1] /\ i + 1 < j + 1
        BY <1>2, <3>1, <3>7
      <4> QED BY <3>2, <4>1
    <3> QED BY <3>6, <3>7
  <2> QED BY <1>12, <2>1, <2>2 DEF InStep
<1>18. ASSUME ~o, NEW k \in Ticket
       PROVE  Knows(x, k, w, e) \/ Coming(x, k, w)
  <2>1. Knows(l, k, w, e) \/ Coming(l, k, w)
    BY <1>1, <1>18 DEF Informed
  <2>2. SUFFICES ASSUME w[k] # NULL PROVE Knows(x, k, w, e) \/ Coming(x, k, w)
    BY DEF Knows
  <2>3. w[k].seq \in Nat
    BY <1>14, <2>2
  <2>4. ASSUME w[k].seq \in Said(k) \/ l.knows[k] = <<e, w[k].seq>>, Said(k) # {}
        PROVE  g[k] = <<e, w[k].seq>>
    <3>1. /\ g[k][1] = e
          /\ g[k][2] \in Said(k) \/ (l.knows[k][1] = e /\ g[k][2] = l.knows[k][2])
          /\ \A c \in Said(k) : c <= g[k][2]
          /\ l.knows[k][1] = e => l.knows[k][2] <= g[k][2]
      BY <1>8, <2>4
    <3>2. l.knows[k][1] = e => l.knows[k][2] <= w[k].seq
      BY <1>1 DEF Truthful
    <3>3. g[k][2] <= w[k].seq /\ g[k][2] \in Nat
      BY <1>15, <1>f, <3>1, <3>2
    <3>4. w[k].seq <= g[k][2]
      <4>1. CASE w[k].seq \in Said(k)
        BY <3>1, <4>1
      <4>2. CASE l.knows[k] = <<e, w[k].seq>>
        <5>1. l.knows[k][1] = e /\ l.knows[k][2] = w[k].seq
          BY <4>2
        <5> QED BY <3>1, <5>1
      <4> QED BY <2>4, <4>1, <4>2
    <3>5. g[k][2] = w[k].seq
      BY <2>3, <3>3, <3>4
    <3>6. g[k] = <<g[k][1], g[k][2]>>
      BY <1>8
    <3> QED BY <3>1, <3>5, <3>6
  <2>5. CASE l.knows[k] = <<e, w[k].seq>>
    <3>1. g[k] = <<e, w[k].seq>>
      BY <1>8, <2>4, <2>5
    <3> QED BY <1>12, <3>1 DEF Knows
  <2>6. CASE Coming(l, k, w)
    <3>1. PICK i \in DOMAIN b : <<k, w[k].seq>> \in b[i].news
      BY <2>6 DEF Coming, b
    <3>2. CASE i = 1
      <4>1. w[k].seq \in Said(k)
        BY <1>2, <1>11, <3>1, <3>2
      <4>2. g[k] = <<e, w[k].seq>>
        BY <2>4, <4>1
      <4> QED BY <1>12, <4>2 DEF Knows
    <3>3. CASE i # 1
      <4>1. i - 1 \in DOMAIN t /\ t[i - 1] = b[i]
        BY <1>2, <3>1, <3>3
      <4> QED BY <1>12, <3>1, <4>1 DEF Coming
    <3> QED BY <3>2, <3>3
  <2> QED BY <2>1, <2>2, <2>5, <2>6 DEF Knows
<1>19. ASSUME ~o, NEW k \in Ticket
       PROVE  Knows(x, k, w, e) \/ w[k].seq > h \/ CatchingUp(x)
  <2>1. SUFFICES ASSUME ~Knows(x, k, w, e) PROVE w[k].seq > h \/ CatchingUp(x)
    OBVIOUS
  <2>2. PICK i \in DOMAIN t : <<k, w[k].seq>> \in t[i].news
    BY <1>12, <1>18, <1>19, <2>1 DEF Coming
  <2>3. CASE t[i].catchup
    <3>1. 1 \in DOMAIN t /\ Head(t) = t[1]
      BY <1>2, <2>2
    <3>2. t[1].kind # "hello"
      <4>1. 2 \in DOMAIN b /\ t[1] = b[2]
        BY <1>2, <3>1
      <4> QED BY <1>1, <4>1 DEF InStep, b
    <3> QED BY <1>12, <2>3, <3>1, <3>2 DEF CatchingUp
  <2>4. CASE ~t[i].catchup
    <3>1. <<k, w[k].seq>>[2] = w[k].seq
      OBVIOUS
    <3>2. h < <<k, w[k].seq>>[2]
      BY <1>12, <1>17, <2>2, <2>4 DEF InStep
    <3>3. w[k].seq \in Nat
      BY <1>14, <2>1 DEF Knows
    <3> QED BY <1>7, <3>1, <3>2, <3>3
  <2> QED BY <2>3, <2>4
<1>20. Informed(x, w, e, o)
  BY <1>12, <1>18, <1>19 DEF Informed
<1> QED BY <1>13, <1>16, <1>17, <1>20 DEF Abreast, x

-----------------------------------------------------------------------------
(* What the room's steps say to the phones.                                *)

\* Phones of which the room claims nothing: of a revoked pass, or all where a
\* catch-up may be torn.
LeftOut(f) == TornCatchUp \/ PassOf[f] \in revoked

\* The room's rows, and what every phone heard of them.
PhonesAbreast ==
  /\ RowsApart(rows, seq) /\ epoch \in 1 .. MaxEpoch
  /\ \A f \in Phone : Abreast(phones[f], rows, seq, epoch, LeftOut(f))

\* One row in the place of another, under the next number.
LEMMA OneGrown ==
  ASSUME NEW w, NEW s \in Nat, NEW w2, NEW k \in Ticket, NEW r \in RoomRow,
         RowsTyped(w), RowsApart(w, s), w2 = [w EXCEPT ![k] = r],
         r.seq = s + 1, r.confirmed <=> r.pass = NULL
  PROVE  Grown(w, s, w2, s + 1, {k}) /\ RowsApart(w2, s + 1)
<1>1. \A j \in Ticket : w2[j] = IF j = k THEN r ELSE w[j]
  BY DEF RowsTyped
<1>2. RowsTyped(w2)
  BY DEF RowsTyped
<1>3. \A j \in Ticket : w[j] # NULL =>
        /\ w[j].seq <= s /\ w[j].seq \in Nat
        /\ \A i \in Ticket \ {j} : w[i] # NULL => w[i].seq # w[j].seq
        /\ w[j].confirmed <=> w[j].pass = NULL
  BY BoundAssumption DEF RowsApart, RowsTyped, RoomRow
<1>4. r # NULL
  BY NullAssumption
<1>5. Grown(w, s, w2, s + 1, {k})
  <2>1. s + 1 \in Nat /\ s <= s + 1 /\ s < r.seq /\ r.seq <= s + 1
    OBVIOUS
  <2>2. \A j \in {k} : w2[j] # NULL /\ s < w2[j].seq /\ w2[j].seq <= s + 1
    BY <1>1, <1>4, <2>1
  <2>3. \A j \in Ticket \ {k} : w2[j] = w[j]
    BY <1>1
  <2>4. \A j \in Ticket : w[j] # NULL => w[j].seq <= s
    BY <1>3
  <2> QED BY <1>2, <2>1, <2>2, <2>3, <2>4 DEF Grown
<1>6. RowsApart(w2, s + 1)
  <2> SUFFICES ASSUME NEW j \in Ticket, w2[j] # NULL
               PROVE  /\ w2[j].seq <= s + 1
                      /\ \A i \in Ticket \ {j} : w2[i] # NULL => w2[i].seq # w2[j].seq
                      /\ w2[j].confirmed <=> w2[j].pass = NULL
    BY DEF RowsApart
  <2>1. CASE j = k
    <3>1. w2[j] = r
      BY <1>1, <2>1
    <3>2. \A i \in Ticket \ {j} : w2[i] # NULL => w2[i].seq # s + 1
      BY <1>1, <1>3, <2>1
    <3> QED BY <3>1, <3>2
  <2>2. CASE j # k
    <3>1. w2[j] = w[j] /\ w[j] # NULL
      BY <1>1, <2>2
    <3>2. w[j].seq <= s + 1 /\ w[j].seq # s + 1
      BY <1>3, <3>1
    <3>3. \A i \in Ticket \ {j} : w2[i] # NULL => w2[i].seq # w2[j].seq
      BY <1>1, <1>3, <3>1, <3>2
    <3> QED BY <1>3, <3>1, <3>2, <3>3
  <2> QED BY <2>1, <2>2
<1> QED BY <1>5, <1>6

\* And the message that tells of it.
LEMMA OneWord ==
  ASSUME NEW s \in Nat, s < MaxSeq, epoch \in 1 .. MaxEpoch, NEW w2, NEW k \in Ticket,
         w2[k].seq = s + 1, NEW kind \in {"checkins", "undo"}
  PROVE  Words(<<Message(kind, {<<k, s + 1>>}, FALSE)>>, {k}, w2, epoch)
<1> DEFINE m == Message(kind, {<<k, s + 1>>}, FALSE)
           M == <<m>>
<1>1. s + 1 \in 1 .. MaxSeq
  BY BoundAssumption
<1>2. m = [kind |-> kind, news |-> {<<k, s + 1>>}, epoch |-> epoch, catchup |-> FALSE]
  BY DEF Message
<1>3. {<<k, s + 1>>} \in SUBSET (Ticket \X (1 .. MaxSeq))
  BY <1>1
<1>4. m \in PhoneMessage /\ m.epoch = epoch /\ ~m.catchup /\ m.kind # "hello"
      /\ m.news = {<<k, s + 1>>}
  <2> HIDE DEF m
  <2> QED BY <1>2, <1>3 DEF PhoneMessage
<1> HIDE DEF m
<1>5. M \in Seq(PhoneMessage) /\ DOMAIN M = {1} /\ M[1] = m
  BY <1>4
<1>6. <<k, s + 1>>[1] = k /\ <<k, s + 1>>[2] = s + 1
  OBVIOUS
<1>7. \A d \in m.news : d[1] \in {k} /\ d[2] = w2[d[1]].seq
  BY <1>4, <1>6
<1> HIDE DEF M
<1>8. \A i, j \in DOMAIN M : ~(i < j)
  BY <1>5
<1>9. Words(M, {k}, w2, epoch)
  BY <1>4, <1>5, <1>7, <1>8 DEF Words
<1> QED BY <1>9 DEF M, m

\* What the room says to everyone but the sender.
LEMMA Spread ==
  ASSUME Links, NEW w2, NEW s2, NEW C, NEW M, NEW sender, NEW f \in Phone, f # sender,
         NEW w, NEW s, NEW e, NEW o \in BOOLEAN, Grown(w, s, w2, s2, C), Words(M, C, w2, e),
         Abreast(phones[f], w, s, e, o)
  PROVE  Abreast(Broadcast(M, sender)[f], w2, s2, e, o)
<1>1. Broadcast(M, sender)[f] = IF phones[f].up THEN [phones[f] EXCEPT !.inbox = @ \o M]
                                ELSE phones[f]
  BY DEF Broadcast
<1>2. CASE phones[f].up
  <2>1. Abreast([phones[f] EXCEPT !.inbox = phones[f].inbox \o M], w2, s2, e, o)
    BY <1>2, Told
  <2>2. Broadcast(M, sender)[f] = [phones[f] EXCEPT !.inbox = phones[f].inbox \o M]
    BY <1>1, <1>2
  <2> QED BY <2>1, <2>2
<1>3. CASE ~phones[f].up
  <2>1. phones[f].inbox = <<>>
    BY <1>3 DEF Links
  <2>2. Abreast(phones[f], w2, s2, e, o)
    BY <1>3, <2>1, Aside
  <2> QED BY <1>1, <1>3, <2>2
<1> QED BY <1>2, <1>3

\* A row the server's word puts in place of another, and everyone hears of it.
LEMMA PutTold ==
  ASSUME RelayInv, PhonesAbreast, NEW k \in Ticket, NEW r \in RoomRow,
         r.seq = seq + 1, r.confirmed <=> r.pass = NULL, Put(k, r)
  PROVE  PhonesAbreast'
<1> DEFINE M == <<Message(Kind(r), {<<k, seq + 1>>}, FALSE)>>
<1>1. /\ seq < MaxSeq /\ seq' = seq + 1 /\ rows' = [rows EXCEPT ![k] = r]
      /\ phones' = Broadcast(M, NULL) /\ epoch' = epoch /\ revoked' = revoked
  BY DEF Put
<1>2. RowsTyped(rows) /\ seq \in Nat /\ Links
  BY DEF RelayInv, RoomRows, RowsTyped
<1>3. RowsApart(rows, seq) /\ epoch \in 1 .. MaxEpoch
  BY DEF PhonesAbreast
<1>4. Grown(rows, seq, rows', seq', {k}) /\ RowsApart(rows', seq')
  BY <1>1, <1>2, <1>3, OneGrown
<1>5. Words(M, {k}, rows', epoch)
  <2>1. rows'[k].seq = seq + 1
    BY <1>1, <1>2 DEF RowsTyped
  <2>2. Kind(r) \in {"checkins", "undo"}
    BY DEF Kind
  <2> QED BY <1>1, <1>2, <1>3, <2>1, <2>2, OneWord
<1> HIDE DEF M
<1>6. ASSUME NEW f \in Phone
      PROVE  Abreast(phones'[f], rows', seq', epoch', LeftOut(f)')
  <2>1. f # NULL /\ LeftOut(f) \in BOOLEAN /\ LeftOut(f)' = LeftOut(f)
    BY <1>1, NullAssumption, BoundAssumption DEF LeftOut
  <2>2. Abreast(phones[f], rows, seq, epoch, LeftOut(f))
    BY DEF PhonesAbreast
  <2>3. Abreast(Broadcast(M, NULL)[f], rows', seq', epoch, LeftOut(f))
    BY <1>2, <1>4, <1>5, <2>1, <2>2, Spread
  <2> QED BY <1>1, <2>1, <2>3
<1> QED BY <1>1, <1>3, <1>4, <1>6 DEF PhonesAbreast

\* What a claim and the taking back of one do to the room.
Says(g, k, r, kind) ==
  /\ phones[g].up /\ seq < MaxSeq
  /\ seq' = seq + 1 /\ rows' = [rows EXCEPT ![k] = r] /\ UNCHANGED <<epoch, revoked>>
  /\ phones' = [Broadcast(<<Message(kind, {<<k, seq + 1>>}, FALSE)>>, g)
                   EXCEPT ![g].knows[k] = <<epoch, seq + 1>>]

\* A phone's word: everyone else hears of it, and the phone knows its own.
LEMMA WordTold ==
  ASSUME RelayInv, PhonesAbreast, NEW g \in Phone, NEW k \in Ticket, NEW r \in RoomRow,
         NEW kind \in {"checkins", "undo"}, r.seq = seq + 1, r.confirmed <=> r.pass = NULL,
         Says(g, k, r, kind)
  PROVE  PhonesAbreast'
<1> DEFINE M == <<Message(kind, {<<k, seq + 1>>}, FALSE)>>
           told == Broadcast(M, g)
<1>1. /\ seq < MaxSeq /\ phones[g].up /\ seq' = seq + 1 /\ epoch' = epoch
      /\ revoked' = revoked
  BY DEF Says
<1>2. RowsTyped(rows) /\ seq \in Nat /\ Links
  BY DEF RelayInv, RoomRows, RowsTyped
<1>3. RowsApart(rows, seq) /\ epoch \in 1 .. MaxEpoch
  BY DEF PhonesAbreast
<1>4. Grown(rows, seq, rows', seq', {k}) /\ RowsApart(rows', seq')
  BY <1>1, <1>2, <1>3, OneGrown DEF Says
<1>w. rows'[k].seq = seq + 1
  BY <1>2 DEF RowsTyped, Says
<1>5. Words(M, {k}, rows', epoch)
  BY <1>1, <1>2, <1>3, <1>w, OneWord
<1> HIDE DEF M
<1>6. told = [f \in Phone |-> told[f]] /\ told[g] = phones[g]
  BY DEF Broadcast
<1>7. phones' = [told EXCEPT ![g] = [told[g] EXCEPT !.knows =
                                       [told[g].knows EXCEPT ![k] = <<epoch, seq + 1>>]]]
  BY DEF M, Says
<1> DEFINE own == [told[g] EXCEPT !.knows = [told[g].knows EXCEPT ![k] = <<epoch, seq + 1>>]]
<1> HIDE DEF told, own
<1>8. /\ \A f \in Phone : f # g => phones'[f] = told[f]
      /\ phones'[g] = own
  <2>1. phones' = [told EXCEPT ![g] = own]
    BY <1>7 DEF own
  <2>2. DOMAIN told = Phone
    BY <1>6
  <2> QED BY <2>1, <2>2
<1>9. phones'[g] = Spoken(phones[g], k, <<epoch, rows'[k].seq>>)
  <2> DEFINE word == <<epoch, seq + 1>>
  <2>1. word = <<epoch, rows'[k].seq>>
    BY <1>w
  <2>2. own = [told[g] EXCEPT !.knows = [told[g].knows EXCEPT ![k] = word]]
    BY DEF own
  <2> HIDE DEF word
  <2> QED BY <1>6, <1>8, <2>1, <2>2 DEF Spoken
<1>10. ASSUME NEW f \in Phone
       PROVE  Abreast(phones'[f], rows', seq', epoch', LeftOut(f)')
  <2>1. LeftOut(f) \in BOOLEAN /\ LeftOut(f)' = LeftOut(f)
    BY <1>1, BoundAssumption DEF LeftOut
  <2>2. Abreast(phones[f], rows, seq, epoch, LeftOut(f))
    BY DEF PhonesAbreast
  <2>3. CASE f # g
    <3>1. Abreast(told[f], rows', seq', epoch, LeftOut(f))
      BY <1>2, <1>4, <1>5, <2>1, <2>2, <2>3, Spread DEF told
    <3> QED BY <1>1, <1>8, <2>1, <2>3, <3>1
  <2>4. CASE f = g
    <3>1. epoch \in Nat /\ epoch <= MaxEpoch /\ seq' <= MaxSeq
      BY <1>1, <1>2, <1>3, BoundAssumption
    <3>2. Abreast(Spoken(phones[g], k, <<epoch, rows'[k].seq>>), rows', seq', epoch, LeftOut(g))
      BY <1>1, <1>4, <2>1, <2>2, <2>4, <3>1, Spoke
    <3>3. Abreast(phones'[g], rows', seq', epoch, LeftOut(g))
      BY <1>9, <3>2
    <3> QED BY <1>1, <2>1, <2>4, <3>3
  <2> QED BY <2>3, <2>4
<1> QED BY <1>1, <1>3, <1>4, <1>10 DEF PhonesAbreast

\* The rows w of C taken away, under the numbers after s; the messages that say so.
Taken(row, n) == [row EXCEPT !.removed = "gate", !.seq = n]
TakenRows(w, s, C, place) ==
  [k \in Ticket |-> IF k \in C THEN Taken(w[k], s + place[k]) ELSE w[k]]
TakenWords(order, n, s) ==
  [i \in 1 .. n |-> Message("undo", {<<order[i], s + i>>}, FALSE)]

\* A row taken away is a row still.
LEMMA TakenRow ==
  ASSUME NEW row \in RoomRow, NEW n \in 1 .. MaxSeq
  PROVE  /\ Taken(row, n) \in RoomRow /\ Taken(row, n).seq = n /\ Taken(row, n).pass = row.pass
         /\ Taken(row, n).confirmed = row.confirmed /\ Taken(row, n).removed = "gate"
BY DEF Taken, RoomRow

\* What a revocation does to the rows, and what it says of them.
LEMMA RevokeGrows ==
  ASSUME NEW w, NEW s \in Nat, RowsTyped(w), RowsApart(w, s), epoch \in 1 .. MaxEpoch,
         NEW C \in SUBSET Ticket, \A k \in C : w[k] # NULL,
         NEW n \in Nat, NEW order \in [1 .. n -> C], s + n <= MaxSeq,
         \A i, j \in 1 .. n : order[i] = order[j] => i = j,
         NEW place \in [C -> 1 .. n], \A k \in C : order[place[k]] = k
  PROVE  LET w2 == TakenRows(w, s, C, place)
         IN  /\ Grown(w, s, w2, s + n, C) /\ RowsApart(w2, s + n)
             /\ Words(TakenWords(order, n, s), C, w2, epoch)
<1> DEFINE w2 == TakenRows(w, s, C, place)
           M == TakenWords(order, n, s)
           Gone(k) == Taken(w[k], s + place[k])
<1>w. w2 = [k \in Ticket |-> IF k \in C THEN Gone(k) ELSE w[k]]
  BY DEF TakenRows
<1>m. M = [i \in 1 .. n |-> Message("undo", {<<order[i], s + i>>}, FALSE)]
  BY DEF TakenWords
<1> HIDE DEF w2, M
<1>1. \A k \in C : /\ w[k] \in RoomRow /\ s + place[k] \in 1 .. MaxSeq
                   /\ s < s + place[k] /\ s + place[k] <= s + n
  BY BoundAssumption DEF RowsTyped
<1>2. \A k \in C : /\ Gone(k) \in RoomRow /\ Gone(k).seq = s + place[k]
                   /\ Gone(k).pass = w[k].pass /\ Gone(k).confirmed = w[k].confirmed
  <2> SUFFICES ASSUME NEW k \in C
               PROVE  /\ Gone(k) \in RoomRow /\ Gone(k).seq = s + place[k]
                      /\ Gone(k).pass = w[k].pass /\ Gone(k).confirmed = w[k].confirmed
    OBVIOUS
  <2> DEFINE row == w[k]
             m == s + place[k]
  <2>1. row \in RoomRow /\ m \in 1 .. MaxSeq
    BY <1>1
  <2> HIDE DEF row, m
  <2>2. /\ Taken(row, m) \in RoomRow /\ Taken(row, m).seq = m
        /\ Taken(row, m).pass = row.pass /\ Taken(row, m).confirmed = row.confirmed
    BY <2>1, TakenRow
  <2> QED BY <2>2 DEF row, m
<1> HIDE DEF Gone
<1>3. w2 = [k \in Ticket |-> IF k \in C THEN Gone(k) ELSE w[k]]
  BY <1>w
<1>4. \A k \in Ticket : w2[k] = IF k \in C THEN Gone(k) ELSE w[k]
  BY <1>3
<1>5. RowsTyped(w2)
  BY <1>2, <1>3 DEF RowsTyped
<1>6. \A k \in C : w2[k] # NULL /\ w2[k].seq = s + place[k] /\ place[k] \in 1 .. n
  BY <1>2, <1>4, NullAssumption
<1>7. \A j \in Ticket : w[j] # NULL =>
        /\ w[j].seq <= s /\ w[j].seq \in Nat
        /\ \A i \in Ticket \ {j} : w[i] # NULL => w[i].seq # w[j].seq
        /\ w[j].confirmed <=> w[j].pass = NULL
  BY BoundAssumption DEF RowsApart, RowsTyped, RoomRow
<1>8. Grown(w, s, w2, s + n, C)
  <2>1. s + n \in Nat /\ s <= s + n
    OBVIOUS
  <2>2. \A k \in C : w2[k] # NULL /\ s < w2[k].seq /\ w2[k].seq <= s + n
    BY <1>1, <1>6
  <2>3. \A k \in Ticket \ C : w2[k] = w[k]
    BY <1>4
  <2>4. \A k \in Ticket : w[k] # NULL => w[k].seq <= s
    BY <1>7
  <2> QED BY <1>5, <2>1, <2>2, <2>3, <2>4 DEF Grown
<1>9. RowsApart(w2, s + n)
  <2> SUFFICES ASSUME NEW j \in Ticket, w2[j] # NULL
               PROVE  /\ w2[j].seq <= s + n
                      /\ \A i \in Ticket \ {j} : w2[i] # NULL => w2[i].seq # w2[j].seq
                      /\ w2[j].confirmed <=> w2[j].pass = NULL
    BY DEF RowsApart
  <2>1. CASE j \in C
    <3>1. w2[j].seq <= s + n
      BY <1>1, <1>6, <2>1
    <3>2. w2[j].confirmed <=> w2[j].pass = NULL
      BY <1>2, <1>4, <1>7, <2>1
    <3>3. ASSUME NEW i \in Ticket \ {j}, w2[i] # NULL PROVE w2[i].seq # w2[j].seq
      <4>1. CASE i \in C
        <5>1. place[i] # place[j]
          BY <2>1, <3>3, <4>1
        <5> QED BY <1>6, <2>1, <4>1, <5>1
      <4>2. CASE i \notin C
        <5>1. w2[i] = w[i] /\ w[i].seq <= s /\ w[i].seq \in Nat
          BY <1>4, <1>7, <3>3, <4>2
        <5> QED BY <1>6, <2>1, <5>1
      <4> QED BY <4>1, <4>2
    <3> QED BY <3>1, <3>2, <3>3
  <2>2. CASE j \notin C
    <3>1. w2[j] = w[j] /\ w[j] # NULL /\ w[j].seq <= s /\ w[j].seq \in Nat
          /\ (w[j].confirmed <=> w[j].pass = NULL)
      BY <1>4, <1>7, <2>2
    <3>2. ASSUME NEW i \in Ticket \ {j}, w2[i] # NULL PROVE w2[i].seq # w2[j].seq
      <4>1. CASE i \in C
        BY <1>6, <3>1, <4>1
      <4>2. CASE i \notin C
        BY <1>4, <1>7, <3>1, <3>2, <4>2
      <4> QED BY <4>1, <4>2
    <3> QED BY <3>1, <3>2
  <2> QED BY <2>1, <2>2
<1>10. ASSUME NEW i \in 1 .. n
       PROVE  /\ M[i] \in PhoneMessage /\ M[i].epoch = epoch /\ ~M[i].catchup
              /\ M[i].kind = "undo" /\ M[i].news = {<<order[i], s + i>>}
  <2> DEFINE news == {<<order[i], s + i>>}
  <2>1. order[i] \in Ticket /\ s + i \in 1 .. MaxSeq
    BY <1>10, BoundAssumption
  <2>2. news \in SUBSET (Ticket \X (1 .. MaxSeq))
    BY <2>1
  <2>3. M[i] = Message("undo", news, FALSE)
    BY <1>m, <1>10
  <2> HIDE DEF news
  <2>4. M[i] = [kind |-> "undo", news |-> news, epoch |-> epoch, catchup |-> FALSE]
    BY <2>3 DEF Message
  <2>5. /\ M[i] \in PhoneMessage /\ M[i].epoch = epoch /\ ~M[i].catchup
        /\ M[i].kind = "undo" /\ M[i].news = news
    BY <2>2, <2>4 DEF PhoneMessage
  <2> QED BY <2>5 DEF news
<1>11. DOMAIN M = 1 .. n /\ M \in Seq(PhoneMessage)
  <2>1. M = [i \in 1 .. n |-> M[i]]
    BY <1>m
  <2>2. M \in [1 .. n -> PhoneMessage]
    BY <1>10, <2>1
  <2> QED BY <2>2, IsASeq
<1>12. \A k \in C, i \in 1 .. n : order[i] = k => w2[k].seq = s + i
  <2> SUFFICES ASSUME NEW i \in 1 .. n PROVE w2[order[i]].seq = s + i
    OBVIOUS
  <2>1. order[i] \in C /\ place[order[i]] = i
    OBVIOUS
  <2> QED BY <1>6, <2>1
<1>13. \A i \in 1 .. n : \A d \in M[i].news : d[1] = order[i] /\ d[2] = s + i
  <2> SUFFICES ASSUME NEW i \in 1 .. n, NEW d \in M[i].news
               PROVE  d[1] = order[i] /\ d[2] = s + i
    OBVIOUS
  <2>1. d = <<order[i], s + i>>
    BY <1>10
  <2> QED BY <2>1
<1>14. Words(M, C, w2, epoch)
  <2>1. ASSUME NEW i \in 1 .. n, NEW d \in M[i].news
        PROVE  d[1] \in C /\ d[2] = w2[d[1]].seq
    BY <1>12, <1>13, <2>1
  <2>2. ASSUME NEW i \in 1 .. n, NEW j \in 1 .. n, i < j, NEW c \in M[i].news, NEW d \in M[j].news
        PROVE  c[2] < d[2]
    BY <1>13, <2>2
  <2>3. ASSUME NEW k \in C PROVE \E i \in 1 .. n : <<k, w2[k].seq>> \in M[i].news
    BY <1>6, <1>10, <2>3
  <2>4. \A i \in 1 .. n : M[i].epoch = epoch /\ ~M[i].catchup /\ M[i].kind # "hello"
    BY <1>10
  <2> QED BY <1>11, <2>1, <2>2, <2>3, <2>4 DEF Words
<1> QED BY <1>8, <1>9, <1>14 DEF w2, M

\* A link that is shut and of which nothing is claimed any more.
LEMMA ShutOut ==
  ASSUME NEW l, NEW w, NEW s, NEW e \in Nat, NEW o \in BOOLEAN, Abreast(l, w, s, e, o)
  PROVE  Abreast(ShutLink(l), w, s, e, TRUE)
<1>1. Abreast(l, w, s, e, TRUE)
  BY LeftBehind
<1> QED BY <1>1, Dropped

\* A revoked pass: its claims go, and then its phones' links.
LEMMA RevokeTold ==
  ASSUME RelayInv, PhonesAbreast, NEW p \in Pass, TakeRevoke(p)
  PROVE  PhonesAbreast'
<1>1. PICK order \in SetToSeqs(ClaimsOf(p)) :
        LET Place(k) == CHOOSE i \in DOMAIN order : order[i] = k
            messages == [i \in DOMAIN order |->
                           Message("undo", {<<order[i], seq + i>>}, FALSE)]
            told == Broadcast(messages, NULL)
        IN  /\ seq + Len(order) <= MaxSeq
            /\ seq' = seq + Len(order)
            /\ rows' = [k \in Ticket |->
                          IF k \in ClaimsOf(p)
                            THEN [rows[k] EXCEPT !.removed = "gate", !.seq = seq + Place(k)]
                            ELSE rows[k]]
            /\ revoked' = revoked \cup {p}
            /\ phones' = [f \in Phone |-> IF PassOf[f] = p
                                            THEN [told[f] EXCEPT !.up = FALSE, !.inbox = <<>>]
                                            ELSE told[f]]
            /\ UNCHANGED epoch
  BY Zenon DEF TakeRevoke
<1> DEFINE C == ClaimsOf(p)
           n == Cardinality(C)
           Place(k) == CHOOSE i \in DOMAIN order : order[i] = k
           place == [k \in C |-> Place(k)]
           w2 == TakenRows(rows, seq, C, place)
           M == TakenWords(order, n, seq)
           told == Broadcast(M, NULL)
<1>2. IsFiniteSet(C) /\ C \in SUBSET Ticket /\ \A k \in C : rows[k] # NULL
  <2>1. C \in SUBSET Ticket /\ \A k \in C : rows[k] # NULL
    BY DEF ClaimsOf, Standing
  <2>2. IsFiniteSet(C)
    BY <2>1, TicketAssumption, FS_Subset
  <2> QED BY <2>1, <2>2
<1>3. /\ n \in Nat /\ order \in [1 .. n -> C] /\ Len(order) = n
      /\ \A i, j \in 1 .. n : order[i] = order[j] => i = j
      /\ \A k \in C : \E i \in 1 .. n : order[i] = k
  <2>1. order \in SetToSeqs(C)
    BY <1>1
  <2> HIDE DEF C
  <2> QED BY <1>2, <2>1, ListsAll
<1>4. DOMAIN order = 1 .. n
  BY <1>3
<1>5. place \in [C -> 1 .. n] /\ \A k \in C : order[place[k]] = k
  <2>1. \A k \in C : Place(k) \in 1 .. n /\ order[Place(k)] = k
    <3> SUFFICES ASSUME NEW k \in C PROVE Place(k) \in 1 .. n /\ order[Place(k)] = k
      OBVIOUS
    <3>1. \E i \in DOMAIN order : order[i] = k
      BY <1>3, <1>4
    <3>2. Place(k) \in DOMAIN order /\ order[Place(k)] = k
      BY <3>1
    <3> HIDE DEF Place
    <3> QED BY <1>4, <3>2
  <2> HIDE DEF Place, C
  <2> QED BY <2>1
<1>6. /\ seq + n <= MaxSeq /\ seq' = seq + n /\ revoked' = revoked \cup {p} /\ epoch' = epoch
  BY <1>1, <1>3
<1>7. rows' = w2
  <2>1. rows' = [k \in Ticket |->
                   IF k \in C THEN [rows[k] EXCEPT !.removed = "gate", !.seq = seq + Place(k)]
                   ELSE rows[k]]
    BY <1>1
  <2>2. w2 = [k \in Ticket |-> IF k \in C THEN Taken(rows[k], seq + place[k]) ELSE rows[k]]
    BY DEF TakenRows
  <2>3. \A k \in C : place[k] = Place(k)
    OBVIOUS
  <2> HIDE DEF Place, place, w2
  <2>4. \A k \in C : Taken(rows[k], seq + place[k])
                       = [rows[k] EXCEPT !.removed = "gate", !.seq = seq + Place(k)]
    BY <2>3 DEF Taken
  <2> HIDE DEF C
  <2> QED BY <2>1, <2>2, <2>4
<1>8. phones' = [f \in Phone |-> IF PassOf[f] = p THEN ShutLink(told[f]) ELSE told[f]]
  <2> DEFINE messages == [i \in DOMAIN order |->
                            Message("undo", {<<order[i], seq + i>>}, FALSE)]
             told1 == Broadcast(messages, NULL)
  <2>1. phones' = [f \in Phone |-> IF PassOf[f] = p
                                     THEN [told1[f] EXCEPT !.up = FALSE, !.inbox = <<>>]
                                     ELSE told1[f]]
    BY <1>1
  <2>2. messages = M
    BY <1>4 DEF TakenWords
  <2> HIDE DEF messages, M
  <2>3. told1 = told
    BY <2>2
  <2> HIDE DEF told1, told
  <2> QED BY <2>1, <2>3 DEF ShutLink
<1>9. RowsTyped(rows) /\ seq \in Nat /\ Links /\ revoked \subseteq Pass
  BY DEF RelayInv, RoomRows, RowsTyped
<1>10. RowsApart(rows, seq) /\ epoch \in 1 .. MaxEpoch
  BY DEF PhonesAbreast
<1> HIDE DEF C, n, Place, place
<1>11. Grown(rows, seq, w2, seq + n, C) /\ RowsApart(w2, seq + n) /\ Words(M, C, w2, epoch)
  <2> DEFINE s == seq
  <2>1. /\ RowsTyped(rows) /\ RowsApart(rows, s) /\ s \in Nat /\ epoch \in 1 .. MaxEpoch
        /\ C \in SUBSET Ticket /\ \A k \in C : rows[k] # NULL
        /\ n \in Nat /\ order \in [1 .. n -> C] /\ s + n <= MaxSeq
        /\ \A i, j \in 1 .. n : order[i] = order[j] => i = j
        /\ place \in [C -> 1 .. n] /\ \A k \in C : order[place[k]] = k
    BY <1>2, <1>3, <1>5, <1>6, <1>9, <1>10
  <2>2. w2 = TakenRows(rows, s, C, place) /\ M = TakenWords(order, n, s)
    OBVIOUS
  <2> HIDE DEF s, w2, M
  <2>3. Grown(rows, s, w2, s + n, C) /\ RowsApart(w2, s + n) /\ Words(M, C, w2, epoch)
    BY <2>1, <2>2, RevokeGrows, Zenon
  <2> QED BY <2>3 DEF s
<1> HIDE DEF w2, M
<1>12. ASSUME NEW f \in Phone
       PROVE  Abreast(phones'[f], rows', seq', epoch', LeftOut(f)')
  <2>1. f # NULL /\ LeftOut(f) \in BOOLEAN
    BY NullAssumption, BoundAssumption DEF LeftOut
  <2>2. Abreast(phones[f], rows, seq, epoch, LeftOut(f))
    BY DEF PhonesAbreast
  <2>3. Abreast(told[f], w2, seq + n, epoch, LeftOut(f))
    BY <1>9, <1>11, <2>1, <2>2, Spread
  <2> HIDE DEF told
  <2>4. CASE PassOf[f] = p
    <3>1. Abreast(ShutLink(told[f]), w2, seq + n, epoch, TRUE)
      <4> DEFINE l == told[f]
                 s == seq + n
                 o == LeftOut(f)
      <4>1. Abreast(l, w2, s, epoch, o) /\ o \in BOOLEAN /\ epoch \in Nat
        BY <1>10, <2>1, <2>3
      <4> HIDE DEF l, s, o
      <4>2. Abreast(ShutLink(l), w2, s, epoch, TRUE)
        BY <4>1, ShutOut
      <4> QED BY <4>2 DEF l, s
    <3>2. LeftOut(f)' = TRUE
      <4>1. PassOf[f] \in revoked'
        BY <1>6, <2>4
      <4> QED BY Zenon, <4>1 DEF LeftOut
    <3>3. phones'[f] = ShutLink(told[f])
      BY <1>8, <2>4
    <3> QED BY <1>6, <1>7, <3>1, <3>2, <3>3
  <2>5. CASE PassOf[f] # p
    <3>1. LeftOut(f)' = LeftOut(f)
      BY <1>6, <2>5, BoundAssumption DEF LeftOut
    <3>2. phones'[f] = told[f]
      BY <1>8, <2>5
    <3> QED BY <1>6, <1>7, <2>3, <3>1, <3>2
  <2> QED BY <2>4, <2>5
<1> QED BY <1>6, <1>7, <1>10, <1>11, <1>12 DEF PhonesAbreast

\* A new schema: another room, of which no phone knows anything yet.
LEMMA RebuildTold ==
  ASSUME RelayInv, PhonesAbreast, Rebuild
  PROVE  PhonesAbreast'
<1>1. /\ epoch < MaxEpoch /\ epoch' = epoch + 1 /\ seq' = 0 /\ revoked' = revoked
      /\ rows' = [k \in Ticket |-> NULL]
  BY DEF Rebuild
<1>2. \A f \in Phone : phones'[f] = ShutLink(phones[f])
  BY DEF Rebuild, ShutLink
<1>3. epoch \in 1 .. MaxEpoch
  BY DEF PhonesAbreast
<1>4. epoch' \in 1 .. MaxEpoch
  BY <1>1, <1>3, BoundAssumption
<1>5. RowsApart(rows', seq')
  BY <1>1 DEF RowsApart
<1>6. ASSUME NEW f \in Phone
      PROVE  Abreast(phones'[f], rows', seq', epoch', LeftOut(f)')
  <2>1. Abreast(phones[f], rows, seq, epoch, LeftOut(f)) /\ epoch \in Nat
    BY <1>3 DEF PhonesAbreast
  <2>3. LeftOut(f) \in BOOLEAN /\ LeftOut(f)' \in BOOLEAN
    BY Zenon DEF LeftOut
  <2>2. Abreast(ShutLink(phones[f]), rows', seq', epoch + 1, LeftOut(f)')
    BY <2>1, <2>3, Closed
  <2> QED BY <1>1, <1>2, <2>2
<1> QED BY <1>4, <1>5, <1>6 DEF PhonesAbreast

\* The undone rows a phone missed, listed oldest first.
LEMMA UndoesListed ==
  ASSUME RowsTyped(rows), RowsApart(rows, seq), NEW S \in SUBSET Ticket,
         \A k \in S : rows[k] # NULL
  PROVE  LET q == CHOOSE s \in SetToSeqs(S) :
                    \A i, j \in DOMAIN s : i < j => rows[s[i]].seq < rows[s[j]].seq
         IN  q \in Seq(S) /\ \A k \in S : \E i \in DOMAIN q : q[i] = k
<1> DEFINE q == CHOOSE s \in SetToSeqs(S) :
                  \A i, j \in DOMAIN s : i < j => rows[s[i]].seq < rows[s[j]].seq
<1>1. IsFiniteSet(S)
  BY TicketAssumption, FS_Subset
<1>2. \E s \in SetToSeqs(S) :
        \A i, j \in DOMAIN s : i < j => rows[s[i]].seq < rows[s[j]].seq
  BY OrderExists DEF OldestFirst
<1>3. q \in SetToSeqs(S)
  BY <1>2
<1> HIDE DEF q
<1>4. /\ Cardinality(S) \in Nat /\ q \in [1 .. Cardinality(S) -> S]
      /\ \A k \in S : \E i \in 1 .. Cardinality(S) : q[i] = k
  BY <1>1, <1>3, ListsAll
<1>5. q \in Seq(S) /\ \A k \in S : \E i \in DOMAIN q : q[i] = k
  <2> DEFINE n == Cardinality(S)
  <2> HIDE DEF n
  <2>1. n \in Nat /\ q \in [1 .. n -> S] /\ \A k \in S : \E i \in 1 .. n : q[i] = k
    BY <1>4 DEF n
  <2>2. q \in Seq(S)
    BY <2>1, IsASeq
  <2>3. DOMAIN q = 1 .. n
    BY <2>1
  <2> QED BY <2>1, <2>2, <2>3
<1> QED BY <1>5 DEF q

\* A message of a catch-up: of this room, and true of its rows.
CatchUpWord(m) ==
  /\ m \in PhoneMessage /\ m.epoch = epoch /\ m.catchup
  /\ \A d \in m.news : rows[d[1]] # NULL /\ d[2] = rows[d[1]].seq

\* A message about rows of this room is one of a catch-up.
LEMMA OneCatchUpWord ==
  ASSUME RowsTyped(rows), epoch \in 1 .. MaxEpoch, NEW kind \in {"hello", "checkins", "undo"},
         NEW S \in SUBSET Ticket, \A k \in S : rows[k] # NULL
  PROVE  LET m == Message(kind, {<<k, rows[k].seq>> : k \in S}, TRUE)
         IN  CatchUpWord(m) /\ m.kind = kind /\ m.news = {<<k, rows[k].seq>> : k \in S}
<1> DEFINE news == {<<k, rows[k].seq>> : k \in S}
           m == Message(kind, news, TRUE)
<1>1. \A k \in S : rows[k] \in RoomRow /\ rows[k].seq \in 1 .. MaxSeq
  BY DEF RowsTyped, RoomRow
<1>2. news \in SUBSET (Ticket \X (1 .. MaxSeq))
  BY <1>1
<1>3. \A d \in news : rows[d[1]] # NULL /\ d[2] = rows[d[1]].seq
  <2> SUFFICES ASSUME NEW k \in S
               PROVE  rows[<<k, rows[k].seq>>[1]] # NULL
                      /\ <<k, rows[k].seq>>[2] = rows[<<k, rows[k].seq>>[1]].seq
    OBVIOUS
  <2>1. <<k, rows[k].seq>>[1] = k /\ <<k, rows[k].seq>>[2] = rows[k].seq
    OBVIOUS
  <2> QED BY <2>1
<1> HIDE DEF news
<1>4. m = [kind |-> kind, news |-> news, epoch |-> epoch, catchup |-> TRUE]
  BY DEF Message
<1> HIDE DEF m
<1>5. m \in PhoneMessage /\ m.epoch = epoch /\ m.catchup /\ m.news = news /\ m.kind = kind
  BY <1>2, <1>4 DEF PhoneMessage
<1>6. CatchUpWord(m) /\ m.kind = kind /\ m.news = news
  BY <1>3, <1>5 DEF CatchUpWord
<1> QED BY <1>6 DEF m, news

\* Sequence b has m at its head, then only what is in c or u, and all of that.
Joins(b, m, c, u) ==
  /\ \A i \in DOMAIN b : \/ i = 1 /\ b[i] = m
                         \/ \E j \in DOMAIN c : b[i] = c[j]
                         \/ \E j \in DOMAIN u : b[i] = u[j]
  /\ \A j \in DOMAIN c : \E i \in DOMAIN b : b[i] = c[j]
  /\ \A j \in DOMAIN u : \E i \in DOMAIN b : b[i] = u[j]

\* Message m, then c, then u: the shape of Backlog.
Chained(m, c, u) == (<<m>> \o c) \o u

\* And it is joined so.
LEMMA Joined ==
  ASSUME NEW S, NEW m \in S, NEW c \in Seq(S), NEW u \in Seq(S)
  PROVE  Chained(m, c, u) \in Seq(S) /\ Joins(Chained(m, c, u), m, c, u)
<1> DEFINE a == <<m>> \o c
           b == a \o u
<1>1. <<m>> \in Seq(S) /\ Len(<<m>>) = 1 /\ <<m>>[1] = m
  OBVIOUS
<1>2. /\ a \in Seq(S) /\ Len(a) = 1 + Len(c) /\ a[1] = m
      /\ \A i \in 1 .. Len(a) : i = 1 \/ (i - 1 \in 1 .. Len(c) /\ a[i] = c[i - 1])
      /\ \A j \in 1 .. Len(c) : j + 1 \in 1 .. Len(a) /\ a[j + 1] = c[j]
  BY <1>1
<1>3. /\ Len(c) \in Nat /\ Len(u) \in Nat /\ Len(a) \in Nat /\ DOMAIN c = 1 .. Len(c)
      /\ DOMAIN u = 1 .. Len(u)
  BY <1>2
<1> HIDE DEF a
<1>4. /\ b \in Seq(S) /\ Len(b) = Len(a) + Len(u) /\ DOMAIN b = 1 .. Len(a) + Len(u)
      /\ \A i \in 1 .. Len(a) : b[i] = a[i]
      /\ \A j \in 1 .. Len(u) : b[Len(a) + j] = u[j]
  <2>1. a \in Seq(S) /\ u \in Seq(S)
    BY <1>2
  <2>2. b \in Seq(S) /\ Len(b) = Len(a) + Len(u)
    BY <2>1, ConcatProperties
  <2>3. \A i \in 1 .. Len(a) + Len(u) :
          b[i] = IF i <= Len(a) THEN a[i] ELSE u[i - Len(a)]
    BY <2>1, ConcatProperties
  <2>4. \A i \in 1 .. Len(a) : b[i] = a[i]
    BY <1>3, <2>3
  <2>5. \A j \in 1 .. Len(u) : b[Len(a) + j] = u[j]
    <3> SUFFICES ASSUME NEW j \in 1 .. Len(u) PROVE b[Len(a) + j] = u[j]
      OBVIOUS
    <3>1. /\ Len(a) + j \in 1 .. Len(a) + Len(u) /\ ~(Len(a) + j <= Len(a))
          /\ Len(a) + j - Len(a) = j
      BY <1>3
    <3> HIDE DEF b
    <3> QED BY <2>3, <3>1
  <2> HIDE DEF b
  <2>6. DOMAIN b = 1 .. Len(b)
    BY <2>2
  <2> QED BY <2>2, <2>4, <2>5, <2>6
<1>5. \A i \in 1 .. Len(a) + Len(u) :
        i \in 1 .. Len(a) \/ (i - Len(a) \in 1 .. Len(u) /\ Len(a) + (i - Len(a)) = i)
  BY <1>3
<1> HIDE DEF b
<1>6. \A i \in DOMAIN b : \/ i = 1 /\ b[i] = m
                          \/ \E j \in DOMAIN c : b[i] = c[j]
                          \/ \E j \in DOMAIN u : b[i] = u[j]
  <2> SUFFICES ASSUME NEW i \in DOMAIN b
               PROVE  \/ i = 1 /\ b[i] = m
                      \/ \E j \in DOMAIN c : b[i] = c[j]
                      \/ \E j \in DOMAIN u : b[i] = u[j]
    OBVIOUS
  <2>1. CASE i \in 1 .. Len(a)
    <3>1. b[i] = a[i] /\ (i = 1 \/ (i - 1 \in 1 .. Len(c) /\ a[i] = c[i - 1]))
      BY <1>2, <1>4, <2>1
    <3>2. CASE i = 1
      BY <1>2, <3>1, <3>2
    <3>3. CASE i - 1 \in 1 .. Len(c) /\ a[i] = c[i - 1]
      <4>1. i - 1 \in DOMAIN c /\ b[i] = c[i - 1]
        BY <1>3, <3>1, <3>3
      <4> QED BY <4>1
    <3> QED BY <3>1, <3>2, <3>3
  <2>2. CASE i \notin 1 .. Len(a)
    <3>1. i - Len(a) \in 1 .. Len(u) /\ b[Len(a) + (i - Len(a))] = u[i - Len(a)]
          /\ Len(a) + (i - Len(a)) = i
      BY <1>4, <1>5, <2>2
    <3>2. i - Len(a) \in DOMAIN u /\ b[i] = u[i - Len(a)]
      BY <1>3, <3>1
    <3> QED BY <3>2
  <2> QED BY <2>1, <2>2
<1>7. \A j \in DOMAIN c : \E i \in DOMAIN b : b[i] = c[j]
  <2> SUFFICES ASSUME NEW j \in 1 .. Len(c) PROVE \E i \in DOMAIN b : b[i] = c[j]
    BY <1>3
  <2>1. j + 1 \in 1 .. Len(a) /\ b[j + 1] = c[j]
    BY <1>2, <1>4
  <2>2. j + 1 \in DOMAIN b
    BY <1>3, <1>4, <2>1
  <2> QED BY <2>1, <2>2
<1>8. \A j \in DOMAIN u : \E i \in DOMAIN b : b[i] = u[j]
  <2> SUFFICES ASSUME NEW j \in 1 .. Len(u) PROVE \E i \in DOMAIN b : b[i] = u[j]
    BY <1>3
  <2>1. Len(a) + j \in DOMAIN b /\ b[Len(a) + j] = u[j]
    BY <1>3, <1>4
  <2> QED BY <2>1
<1> QED BY <1>4, <1>6, <1>7, <1>8 DEF a, b, Chained, Joins

\* What a phone gets when it connects is a catch-up from its cursor on.
LEMMA BacklogIs ==
  ASSUME RowsTyped(rows), RowsApart(rows, seq), epoch \in 1 .. MaxEpoch, NEW p \in Phone
  PROVE  CatchUp(Backlog(p), rows, epoch, CatchUpFrom(p))
<1> DEFINE missed == {k \in Ticket : rows[k] # NULL /\ rows[k].seq > CatchUpFrom(p)}
           stands == {k \in missed : Standing(rows[k])}
           gone   == missed \ stands
           undoes == CHOOSE s \in SetToSeqs(gone) :
                       \A i, j \in DOMAIN s : i < j => rows[s[i]].seq < rows[s[j]].seq
           said   == {<<k, rows[k].seq>> : k \in stands}
           hello  == Message("hello", {}, TRUE)
           c      == IF stands = {} THEN <<>> ELSE <<Message("checkins", said, TRUE)>>
           u      == [i \in DOMAIN undoes |->
                        Message("undo", {<<undoes[i], rows[undoes[i]].seq>>}, TRUE)]
           b      == Chained(hello, c, u)
<1>1. Backlog(p) = b
  BY Zenon DEF Backlog, Chained
<1>2. /\ missed \in SUBSET Ticket /\ stands \in SUBSET Ticket /\ gone \in SUBSET Ticket
      /\ \A k \in missed : rows[k] # NULL
      /\ \A k \in stands : rows[k] # NULL
      /\ \A k \in gone : rows[k] # NULL
      /\ \A k \in missed : k \in stands \/ k \in gone
  OBVIOUS
<1> HIDE DEF stands, gone
<1>3. undoes \in Seq(gone) /\ \A k \in gone : \E i \in DOMAIN undoes : undoes[i] = k
  BY <1>2, UndoesListed
<1> HIDE DEF undoes
<1>4. CatchUpWord(hello)
  <2> DEFINE none == {<<k, rows[k].seq>> : k \in {}}
  <2>1. CatchUpWord(Message("hello", none, TRUE))
    BY OneCatchUpWord
  <2>2. none = {}
    OBVIOUS
  <2> QED BY <2>1, <2>2
<1>5. /\ c \in Seq(PhoneMessage)
      /\ \A i \in DOMAIN c : CatchUpWord(c[i]) /\ c[i].kind = "checkins"
      /\ \A k \in stands : \E i \in DOMAIN c : <<k, rows[k].seq>> \in c[i].news
  <2> DEFINE m == Message("checkins", said, TRUE)
  <2>1. CatchUpWord(m) /\ m.kind = "checkins" /\ m.news = said
    BY <1>2, OneCatchUpWord
  <2>2. \A k \in stands : <<k, rows[k].seq>> \in said
    OBVIOUS
  <2>3. c = IF stands = {} THEN <<>> ELSE <<m>>
    OBVIOUS
  <2> HIDE DEF m, said, c
  <2>4. m \in PhoneMessage
    BY <2>1 DEF CatchUpWord
  <2>5. CASE stands = {}
    BY <2>3, <2>5
  <2>6. CASE stands # {}
    <3>1. c = <<m>> /\ DOMAIN c = {1} /\ c[1] = m
      BY <2>3, <2>6
    <3> QED BY <2>1, <2>2, <2>4, <3>1
  <2> QED BY <2>5, <2>6
<1>6. /\ u \in Seq(PhoneMessage)
      /\ \A i \in DOMAIN u : CatchUpWord(u[i]) /\ u[i].kind = "undo"
      /\ \A k \in gone : \E i \in DOMAIN u : <<k, rows[k].seq>> \in u[i].news
  <2>1. ASSUME NEW i \in DOMAIN undoes
        PROVE  /\ CatchUpWord(u[i]) /\ u[i].kind = "undo"
               /\ <<undoes[i], rows[undoes[i]].seq>> \in u[i].news
    <3> DEFINE k == undoes[i]
               one == {<<j, rows[j].seq>> : j \in {k}}
    <3>1. u[i] = Message("undo", {<<k, rows[k].seq>>}, TRUE)
      BY <2>1
    <3>2. one = {<<k, rows[k].seq>>}
      OBVIOUS
    <3>3. k \in Ticket /\ rows[k] # NULL
      BY <1>2, <1>3, <2>1
    <3> HIDE DEF k
    <3>4. {k} \in SUBSET Ticket /\ \A j \in {k} : rows[j] # NULL
      BY <3>3
    <3>5. /\ CatchUpWord(Message("undo", one, TRUE))
          /\ Message("undo", one, TRUE).kind = "undo"
          /\ Message("undo", one, TRUE).news = one
      BY <3>4, OneCatchUpWord
    <3> HIDE DEF one, u
    <3>6. u[i] = Message("undo", one, TRUE)
      BY <3>1, <3>2
    <3>7. <<k, rows[k].seq>> \in one
      BY <3>2
    <3>8. <<k, rows[k].seq>> \in u[i].news
      BY <3>5, <3>6, <3>7
    <3> QED BY <3>5, <3>6, <3>8 DEF k
  <2>2. DOMAIN u = DOMAIN undoes /\ u = [i \in DOMAIN undoes |-> u[i]]
    OBVIOUS
  <2> HIDE DEF u
  <2>3. u \in Seq(PhoneMessage)
    <3>1. DOMAIN undoes = 1 .. Len(undoes) /\ Len(undoes) \in Nat
      BY <1>3
    <3>2. \A i \in DOMAIN undoes : u[i] \in PhoneMessage
      BY <2>1 DEF CatchUpWord
    <3>3. u \in [1 .. Len(undoes) -> PhoneMessage]
      BY <2>2, <3>1, <3>2
    <3> QED BY <3>1, <3>3, IsASeq
  <2> QED BY <1>3, <2>1, <2>2, <2>3
<1> HIDE DEF hello, c, u
<1>7. /\ b \in Seq(PhoneMessage)
      /\ \A i \in DOMAIN b : \/ i = 1 /\ b[i] = hello
                             \/ \E j \in DOMAIN c : b[i] = c[j]
                             \/ \E j \in DOMAIN u : b[i] = u[j]
      /\ \A j \in DOMAIN c : \E i \in DOMAIN b : b[i] = c[j]
      /\ \A j \in DOMAIN u : \E i \in DOMAIN b : b[i] = u[j]
  <2>1. hello \in PhoneMessage
    BY <1>4 DEF CatchUpWord
  <2>2. c \in Seq(PhoneMessage) /\ u \in Seq(PhoneMessage)
    BY <1>5, <1>6
  <2>3. b \in Seq(PhoneMessage) /\ Joins(b, hello, c, u)
    BY <2>1, <2>2, Joined
  <2> HIDE DEF b
  <2> QED BY <2>3 DEF Joins
<1> HIDE DEF b
<1>8. \A i \in DOMAIN b : CatchUpWord(b[i]) /\ (b[i].kind = "hello" => i = 1)
  BY <1>4, <1>5, <1>6, <1>7
<1>9. \A k \in Ticket : rows[k] # NULL /\ rows[k].seq > CatchUpFrom(p) =>
        \E i \in DOMAIN b : <<k, rows[k].seq>> \in b[i].news
  <2> SUFFICES ASSUME NEW k \in missed
               PROVE  \E i \in DOMAIN b : <<k, rows[k].seq>> \in b[i].news
    OBVIOUS
  <2>1. CASE k \in stands
    BY <1>5, <1>7, <2>1
  <2>2. CASE k \in gone
    BY <1>6, <1>7, <2>2
  <2> QED BY <1>2, <2>1, <2>2
<1> QED BY <1>1, <1>7, <1>8, <1>9 DEF CatchUp, CatchUpWord

\* One phone's link became l; the room is as it was.
LEMMA OneMoved ==
  ASSUME PhonesAbreast, Links, NEW f \in Phone, NEW l, phones' = [phones EXCEPT ![f] = l],
         Abreast(l, rows, seq, epoch, LeftOut(f)), UNCHANGED <<rows, seq, epoch, revoked>>
  PROVE  PhonesAbreast'
<1>1. RowsApart(rows', seq') /\ epoch' \in 1 .. MaxEpoch
  BY DEF PhonesAbreast
<1>2. ASSUME NEW g \in Phone
      PROVE  Abreast(phones'[g], rows', seq', epoch', LeftOut(g)')
  <2>1. phones'[g] = IF g = f THEN l ELSE phones[g]
    BY DEF Links
  <2>2. LeftOut(g)' = LeftOut(g)
    BY Zenon DEF LeftOut
  <2>3. Abreast(phones[g], rows, seq, epoch, LeftOut(g))
    BY DEF PhonesAbreast
  <2>4. CASE g = f
    <3>1. phones'[g] = l
      BY <2>1, <2>4
    <3> QED BY <2>2, <2>4, <3>1
  <2>5. CASE g # f
    <3>1. phones'[g] = phones[g]
      BY <2>1, <2>5
    <3> QED BY <2>2, <2>3, <3>1
  <2> QED BY <2>4, <2>5
<1> QED BY <1>1, <1>2 DEF PhonesAbreast

\* LeftOut is a Boolean.
LEMMA LeftOutIs == \A f \in Phone : LeftOut(f) \in BOOLEAN
BY BoundAssumption DEF LeftOut

\* A phone that connects gets its catch-up.
LEMMA ConnectTold ==
  ASSUME RelayInv, PhonesAbreast, NEW f \in Phone, Connect(f)
  PROVE  PhonesAbreast'
<1> DEFINE l == phones[f]
           b == Backlog(f)
           o == LeftOut(f)
           from == CatchUpFrom(f)
<1>1. ~l.up /\ phones' = [phones EXCEPT ![f].up = TRUE, ![f].inbox = b]
      /\ UNCHANGED <<rows, seq, epoch, revoked>>
  BY DEF Connect
<1>2. RowsTyped(rows) /\ seq \in Nat /\ Links /\ epoch \in Nat
  BY BoundAssumption DEF RelayInv, RoomRows, RowsTyped
<1>3. RowsApart(rows, seq) /\ epoch \in 1 .. MaxEpoch /\ Abreast(l, rows, seq, epoch, o)
  BY DEF PhonesAbreast
<1>4. CatchUp(b, rows, epoch, from)
  BY <1>2, <1>3, BacklogIs
<1>5. from = IF l.epoch # epoch \/ l.heard > seq THEN 0 ELSE l.heard
  BY DEF CatchUpFrom
<1>6. l.inbox = <<>> /\ o \in BOOLEAN
  BY <1>1, <1>2, LeftOutIs DEF Links
<1>7. phones' = [phones EXCEPT ![f] = Opened(l, b)]
  BY <1>1, <1>2 DEF Opened, Links
<1> HIDE DEF l, b, o, from
<1>8. Abreast(Opened(l, b), rows, seq, epoch, o)
  BY <1>1, <1>2, <1>3, <1>4, <1>5, <1>6, Connected
<1> DEFINE x == Opened(l, b)
<1>9. phones' = [phones EXCEPT ![f] = x] /\ Abreast(x, rows, seq, epoch, LeftOut(f))
  BY <1>7, <1>8 DEF o
<1> HIDE DEF x
<1> QED BY <1>1, <1>2, <1>9, OneMoved

\* A phone hears what is next.
LEMMA HearTold ==
  ASSUME RelayInv, PhonesAbreast, NEW f \in Phone, Hear(f)
  PROVE  PhonesAbreast'
<1> DEFINE l == phones[f]
           m == Head(phones[f].inbox)
           cursor == Cursor(f, m)
           o == LeftOut(f)
           x == Hearing(l, m, cursor)
<1>1. l.inbox # <<>> /\ phones' = [phones EXCEPT ![f] = x]
      /\ UNCHANGED <<rows, seq, epoch, revoked>>
  BY DEF Hear, Hearing
<1>2. RowsTyped(rows) /\ seq \in Nat /\ Links /\ epoch \in Nat
  BY BoundAssumption DEF RelayInv, RoomRows, RowsTyped
<1>3. RowsApart(rows, seq) /\ Abreast(l, rows, seq, epoch, o)
  BY DEF PhonesAbreast
<1>4. cursor = IF m.epoch # l.epoch THEN 0 ELSE l.heard
  BY DEF Cursor
<1>5. l.up /\ o \in BOOLEAN /\ m = Head(l.inbox)
  BY <1>1, <1>2, LeftOutIs DEF Links
<1> HIDE DEF l, m, cursor, o
<1>6. Abreast(x, rows, seq, epoch, o)
  BY <1>1, <1>2, <1>3, <1>4, <1>5, HeardNext
<1> HIDE DEF x
<1> QED BY <1>1, <1>2, <1>6, OneMoved DEF o

\* A link drops, in the middle of a catch-up only where that may be.
LEMMA DropTold ==
  ASSUME RelayInv, PhonesAbreast, NEW f \in Phone, Drop(f)
  PROVE  PhonesAbreast'
<1> DEFINE l == phones[f]
           o == LeftOut(f)
           x == ShutLink(l)
<1>1. /\ phones' = [phones EXCEPT ![f].up = FALSE, ![f].inbox = <<>>]
      /\ TornCatchUp \/ ~InCatchUp(f)
      /\ UNCHANGED <<rows, seq, epoch, revoked>>
  BY DEF Drop
<1>2. seq \in Nat /\ Links /\ epoch \in Nat
  BY BoundAssumption DEF RelayInv, RoomRows
<1>3. Abreast(l, rows, seq, epoch, o) /\ o \in BOOLEAN
  BY LeftOutIs DEF PhonesAbreast
<1>4. ~CatchingUp(l) \/ o
  BY <1>1, Zenon DEF InCatchUp, CatchingUp, LeftOut
<1>5. phones' = [phones EXCEPT ![f] = x]
  BY <1>1, <1>2 DEF ShutLink, Links
<1> HIDE DEF l, o
<1>6. Abreast(x, rows, seq, epoch, o)
  BY <1>2, <1>3, <1>4, Dropped
<1> HIDE DEF x
<1> QED BY <1>1, <1>2, <1>5, <1>6, OneMoved DEF o

\* A step of the server or the queue is none of the phones' business.
LEMMA RoomAside ==
  ASSUME PhonesAbreast, UNCHANGED <<rows, seq, epoch, revoked, phones>>
  PROVE  PhonesAbreast'
<1>1. \A f \in Phone : LeftOut(f)' = LeftOut(f)
  BY Zenon DEF LeftOut
<1> QED BY <1>1 DEF PhonesAbreast

\* An announcement arrives: a check-in, an undo or a revocation.
LEMMA ArrivesTold ==
  ASSUME RelayInv, PhonesAbreast, waiting # <<>>, FromServer(Head(waiting))
  PROVE  PhonesAbreast'
<1> DEFINE n == Head(waiting)
           k == log[n].subject
           at == log[n].at
<1>1. n \in DOMAIN log /\ log[n] \in Announcement
  BY DEF RelayInv, Announced
<1>2. seq \in 0 .. MaxSeq
  BY DEF RelayInv, RoomRows
<1> HIDE DEF n
<1>3. \/ log[n].kind = "in" /\ TakeIn(k, at)
      \/ log[n].kind = "undo" /\ TakeUndo(k, at)
      \/ log[n].kind = "revoke" /\ TakeRevoke(k)
  BY DEF FromServer, n
<1>4. (log[n].kind \in {"in", "undo"} => k \in Ticket /\ at \in 1 .. MaxCommits)
      /\ (log[n].kind = "revoke" => k \in Pass)
  BY <1>1 DEF Announcement
<1> HIDE DEF k, at
<1>5. ASSUME k \in Ticket, at \in 1 .. MaxCommits, NEW removed \in {"no", "server"},
             Put(k, Row(at, NULL, TRUE, seq + 1, removed))
      PROVE  PhonesAbreast'
  <2> DEFINE r == Row(at, NULL, TRUE, seq + 1, removed)
  <2>1. seq + 1 \in 1 .. MaxSeq
    BY <1>2, <1>5, BoundAssumption DEF Put
  <2>2. r \in RoomRow /\ r.seq = seq + 1 /\ (r.confirmed <=> r.pass = NULL)
    BY <1>5, <2>1, BoundAssumption DEF Row, RoomRow
  <2> HIDE DEF r
  <2> QED BY <1>5, <2>2, PutTold DEF r
<1>6. CASE log[n].kind = "in" /\ TakeIn(k, at)
  BY <1>4, <1>5, <1>6, RoomAside DEF TakeIn
<1>7. CASE log[n].kind = "undo" /\ TakeUndo(k, at)
  BY <1>4, <1>5, <1>7, RoomAside DEF TakeUndo
<1>8. CASE log[n].kind = "revoke" /\ TakeRevoke(k)
  BY <1>4, <1>8, RevokeTold
<1> QED BY <1>3, <1>6, <1>7, <1>8

\* A phone claims a ticket, or takes a claim back.
LEMMA ClaimTold ==
  ASSUME RelayInv, PhonesAbreast, NEW f \in Phone, NEW k \in Ticket,
         \/ \E at \in 1 .. Len(log) + 1 : Claim(f, k, at)
         \/ Unclaim(f, k)
  PROVE  PhonesAbreast'
<1>1. seq \in 0 .. MaxSeq /\ RowsTyped(rows) /\ Len(log) \in 0 .. MaxCommits
  BY BoundAssumption DEF RelayInv, RoomRows, RowsTyped, Announced
<1>2. ASSUME NEW at \in 1 .. Len(log) + 1, Claim(f, k, at)
      PROVE  PhonesAbreast'
  <2> DEFINE r == Row(at, PassOf[f], FALSE, seq + 1, "no")
  <2>1. seq + 1 \in 1 .. MaxSeq /\ at \in 1 .. MaxCommits + 1
    BY <1>1, <1>2, BoundAssumption DEF Claim
  <2>2. r \in RoomRow /\ r.seq = seq + 1 /\ (r.confirmed <=> r.pass = NULL)
    BY <2>1, PassAssumption, NullAssumption, BoundAssumption DEF Row, RoomRow
  <2>3. Says(f, k, r, "checkins")
    BY <1>2 DEF Claim, Says
  <2> HIDE DEF r
  <2> QED BY <2>2, <2>3, WordTold
<1>3. ASSUME Unclaim(f, k)
      PROVE  PhonesAbreast'
  <2> DEFINE r == Taken(rows[k], seq + 1)
  <2>1. seq + 1 \in 1 .. MaxSeq
    BY <1>1, <1>3, BoundAssumption DEF Unclaim
  <2>2. rows[k] \in RoomRow /\ rows[k] # NULL
    BY <1>1, <1>3 DEF Unclaim, Unclaimable, Standing, RowsTyped
  <2>3. RowsApart(rows, seq)
    BY DEF PhonesAbreast
  <2>4. rows[k].confirmed <=> rows[k].pass = NULL
    BY <2>2, <2>3 DEF RowsApart
  <2>5. r \in RoomRow /\ r.seq = seq + 1 /\ (r.confirmed <=> r.pass = NULL)
    BY <2>1, <2>2, <2>4, TakenRow
  <2>6. rows' = [rows EXCEPT ![k].removed = "gate", ![k].seq = seq + 1]
    BY <1>3 DEF Unclaim
  <2>7. rows' = [rows EXCEPT ![k] = r]
    BY <1>1, <2>6 DEF RowsTyped, Taken
  <2> HIDE DEF r
  <2>8. Says(f, k, r, "undo")
    BY <1>3, <2>7 DEF Unclaim, Says
  <2> QED BY <2>5, <2>8, WordTold
<1> QED BY <1>2, <1>3

\* So every step keeps the phones abreast of the room,
LEMMA NextTold == RelayInv /\ PhonesAbreast /\ [Next]_vars => PhonesAbreast'
<1> SUFFICES ASSUME RelayInv, PhonesAbreast, [Next]_vars PROVE PhonesAbreast'
  OBVIOUS
<1>1. CASE \/ \E k \in Ticket : (\E at \in 1 .. Len(log) + 1 : CommitIn(k, at)) \/ CommitUndo(k)
           \/ \E p \in Pass : CommitRevoke(p)
           \/ \E n \in DOMAIN log : Enqueue(n) \/ EnqueueFails(n) \/ BackoffOver(n)
           \/ DeliverFails
           \/ UNCHANGED vars
  <2>1. UNCHANGED <<rows, seq, epoch, revoked, phones>>
    BY <1>1 DEF CommitIn, CommitUndo, CommitRevoke, Commit, Enqueue, EnqueueFails, BackoffOver,
                DeliverFails, vars
  <2> QED BY <2>1, RoomAside
<1>2. CASE Deliver \/ DeliverUnanswered
  BY <1>2, ArrivesTold DEF Deliver, DeliverUnanswered
<1>3. CASE \E p \in Phone, k \in Ticket :
             (\E at \in 1 .. Len(log) + 1 : Claim(p, k, at)) \/ Unclaim(p, k)
  BY <1>3, ClaimTold
<1>4. CASE \E p \in Phone : Connect(p) \/ Hear(p) \/ Drop(p)
  BY <1>4, ConnectTold, HearTold, DropTold
<1>5. CASE Rebuild
  BY <1>5, RebuildTold
<1> QED BY <1>1, <1>2, <1>3, <1>4, <1>5 DEF Next

\* and they are at the start: they know of no room yet.
LEMMA StartsTold == Init => PhonesAbreast
<1> SUFFICES ASSUME Init PROVE PhonesAbreast
  OBVIOUS
<1>1. /\ rows = [k \in Ticket |-> NULL] /\ seq = 0 /\ epoch = 1
      /\ phones = [p \in Phone |-> [up |-> FALSE, inbox |-> <<>>, epoch |-> 0, heard |-> 0,
                                    knows |-> [k \in Ticket |-> <<0, 0>>]]]
  BY DEF Init
<1>2. RowsApart(rows, seq) /\ epoch \in 1 .. MaxEpoch
  BY <1>1, BoundAssumption DEF RowsApart
<1>3. ASSUME NEW f \in Phone
      PROVE  Abreast(phones[f], rows, seq, epoch, LeftOut(f))
  <2> DEFINE l == phones[f]
             no == [k \in Ticket |-> <<0, 0>>]
  <2>1. l.up = FALSE /\ l.inbox = <<>> /\ l.epoch = 0 /\ l.heard = 0 /\ l.knows = no
        /\ l = [up |-> FALSE, inbox |-> <<>>, epoch |-> 0, heard |-> 0, knows |-> no]
    BY <1>1
  <2>2. no \in [Ticket -> (0 .. MaxEpoch) \X (0 .. MaxSeq)] /\ <<>> \in Seq(PhoneMessage)
    BY BoundAssumption
  <2>3. \A k \in Ticket : no[k][1] = 0
    OBVIOUS
  <2> HIDE DEF no
  <2>4. l \in Link
    BY <2>1, <2>2, BoundAssumption DEF Link
  <2> HIDE DEF l
  <2>5. Truthful(l, rows, seq, epoch) /\ InStep(l, epoch) /\ Informed(l, rows, epoch, LeftOut(f))
    BY <1>1, <2>1, <2>3 DEF Truthful, InStep, Informed, Knows
  <2> QED BY <2>4, <2>5 DEF Abreast, l
<1> QED BY <1>2, <1>3 DEF PhonesAbreast

-----------------------------------------------------------------------------
(* What the room says of a ticket, and what the server announced of it.    *)

\* Every undo the server announces takes back its last word on that ticket.
Answered ==
  \A n \in DOMAIN log : log[n].kind = "undo" =>
    \E m \in DOMAIN log :
      /\ m < n /\ log[m].kind = "in" /\ log[m].subject = log[n].subject /\ log[m].at = log[n].at
      /\ \A i \in DOMAIN log : m < i /\ i < n => ~AboutTicket(i, log[n].subject)

\* No announcement about k before one that reached the room is missing.
Served(k) ==
  \A m \in Reached(k) : \A n \in DOMAIN log : AboutTicket(n, k) /\ n < m => n \in Reached(k)

\* What the row of k says after announcement n: it is in, or it is not.
Obeys(row, n) ==
  IF log[n].kind = "in" THEN Standing(row) /\ row.confirmed /\ row.at = log[n].at
  ELSE ~(Standing(row) /\ row.confirmed)

\* The room agrees with the last of a ticket's announcements it took.
Agrees(k) ==
  InOrder(k) /\ Served(k) /\ TimesInOrder(k) =>
    \A n \in Reached(k) : (\A m \in Reached(k) : m <= n) => Obeys(rows[k], n)

\* A row the server's word removed has the time of an undo that came.
Tombstone(k) ==
  rows[k] # NULL /\ rows[k].removed = "server" =>
    \E n \in Reached(k) : log[n].kind = "undo" /\ log[n].at = rows[k].at

\* What holds of the log and of every ticket's row.
RoomAgreed == Answered /\ \A k \in Ticket : Agrees(k) /\ Tombstone(k)

\* The places, among what came, of the announcements about k.
Of(k) == {i \in DOMAIN delivered : AboutTicket(delivered[i], k)}

\* One announcement more at the end of the log changes nothing of what came.
LEMMA LogGrows ==
  ASSUME Announced, QueueOnce, NEW x, log' = Append(log, x), delivered' = delivered,
         NEW k \in Ticket
  PROVE  /\ Reached(k)' = Reached(k) /\ (InOrder(k)' => InOrder(k))
         /\ (Served(k)' => Served(k)) /\ (TimesInOrder(k)' => TimesInOrder(k))
         /\ Reached(k) \subseteq DOMAIN log
<1>1. /\ log \in Seq(Announcement) /\ Len(log) \in Nat /\ DOMAIN log = 1 .. Len(log)
      /\ delivered \in Seq(1 .. Len(log))
  BY DEF Announced, QueueOnce
<1>2. /\ DOMAIN log' = 1 .. Len(log) + 1
      /\ \A n \in DOMAIN log : n \in DOMAIN log' /\ log'[n] = log[n]
  BY <1>1
<1>3. \A i \in DOMAIN delivered : delivered[i] \in DOMAIN log
  BY <1>1
<1>4. Of(k)' = Of(k)
  BY <1>2, <1>3 DEF Of, AboutTicket
<1>7. Reached(k)' = Reached(k)
  BY <1>4 DEF Reached, Of
<1>8. InOrder(k)' => InOrder(k)
  BY <1>4 DEF InOrder, Of
<1>9. Reached(k) \subseteq DOMAIN log
  BY <1>3 DEF Reached
<1>10. Served(k)' => Served(k)
  BY <1>2, <1>7 DEF Served, AboutTicket
<1>11. TimesInOrder(k)' => TimesInOrder(k)
  BY <1>2 DEF TimesInOrder, AboutTicket
<1> QED BY <1>7, <1>8, <1>9, <1>10, <1>11

\* What one more delivery changes of what came.
LEMMA OneMoreCame ==
  ASSUME Announced, QueueOnce, NEW n \in DOMAIN log, log' = log,
         delivered' = Append(delivered, n), NEW k \in Ticket
  PROVE  /\ Reached(k)' = IF AboutTicket(n, k) THEN Reached(k) \cup {n} ELSE Reached(k)
         /\ InOrder(k)' => InOrder(k) /\ (AboutTicket(n, k) => \A m \in Reached(k) : m < n)
         /\ TimesInOrder(k)' = TimesInOrder(k)
         /\ Served(k)' <=> \A m \in Reached(k)' : \A i \in DOMAIN log :
                             AboutTicket(i, k) /\ i < m => i \in Reached(k)'
         /\ Reached(k) \subseteq {m \in DOMAIN log : AboutTicket(m, k)}
<1> DEFINE d == Len(delivered)
<1>1. /\ DOMAIN log = 1 .. Len(log) /\ delivered \in Seq(1 .. Len(log)) /\ d \in Nat
  BY DEF Announced, QueueOnce
<1>2. /\ DOMAIN delivered = 1 .. d /\ DOMAIN delivered' = 1 .. d + 1
      /\ \A i \in 1 .. d : delivered'[i] = delivered[i] /\ delivered[i] \in DOMAIN log
      /\ delivered'[d + 1] = n
  BY <1>1
<1> HIDE DEF d
<1>3. Of(k)' = {i \in DOMAIN delivered' : AboutTicket(delivered'[i], k)}
  BY DEF Of, AboutTicket
<1>4. Of(k)' = IF AboutTicket(n, k) THEN Of(k) \cup {d + 1} ELSE Of(k)
  <2>1. \A i : i \in 1 .. d + 1 <=> i \in 1 .. d \/ i = d + 1
    BY <1>1
  <2>2. d + 1 \notin 1 .. d
    BY <1>1
  <2>3. \A i : i \in Of(k)' <=> i \in Of(k) \/ (i = d + 1 /\ AboutTicket(n, k))
    BY <1>2, <1>3, <2>1, <2>2 DEF Of
  <2> QED BY <2>3
<1>5. \A i \in Of(k) : i \in 1 .. d /\ delivered'[i] = delivered[i] /\ delivered[i] \in DOMAIN log
                       /\ AboutTicket(delivered[i], k)
  BY <1>2 DEF Of
<1>6. Reached(k) = {delivered[i] : i \in Of(k)}
  BY DEF Reached, Of
<1>7. Reached(k)' = {delivered'[i] : i \in Of(k)'}
  BY DEF Reached, Of
<1>8. InOrder(k) <=> \A i, j \in Of(k) : i < j => delivered[i] < delivered[j]
  BY DEF InOrder, Of
<1>9. InOrder(k)' <=> \A i, j \in Of(k)' : i < j => delivered'[i] < delivered'[j]
  BY DEF InOrder, Of
<1>10. Reached(k)' = IF AboutTicket(n, k) THEN Reached(k) \cup {n} ELSE Reached(k)
  <2> DEFINE O == Of(k)
  <2>1. {delivered'[i] : i \in O} = {delivered[i] : i \in O}
    BY <1>5
  <2> HIDE DEF O
  <2>2. {delivered'[i] : i \in O \cup {d + 1}} = {delivered'[i] : i \in O} \cup {delivered'[d + 1]}
    OBVIOUS
  <2> QED BY <1>2, <1>4, <1>6, <1>7, <2>1, <2>2 DEF O
<1>11. InOrder(k)' => InOrder(k)
  BY <1>4, <1>5, <1>8, <1>9
<1>12. ASSUME InOrder(k)', AboutTicket(n, k), NEW m \in Reached(k)
       PROVE  m < n
  <2>1. PICK i \in Of(k) : m = delivered[i]
    BY <1>6
  <2>2. i < d + 1
    BY <1>1, <1>5
  <2>3. d + 1 \in Of(k)' /\ i \in Of(k)'
    BY <1>4, <1>12
  <2>4. delivered'[i] < delivered'[d + 1]
    BY <1>9, <1>12, <2>2, <2>3
  <2> QED BY <1>2, <1>5, <2>1, <2>4
<1>13. TimesInOrder(k)' = TimesInOrder(k)
  BY Zenon DEF TimesInOrder, AboutTicket
<1>14. Served(k)' <=> \A m \in Reached(k)' : \A i \in DOMAIN log :
                        AboutTicket(i, k) /\ i < m => i \in Reached(k)'
  BY DEF Served, AboutTicket
<1> QED BY <1>5, <1>6, <1>10, <1>11, <1>12, <1>13, <1>14

\* The row of k is as it was, or a phone's word moved one the server had not
\* confirmed.
MovesAside(k) ==
  \/ rows'[k] = rows[k]
  \/ /\ ~(Standing(rows[k]) /\ rows[k].confirmed)
     /\ ~rows'[k].confirmed /\ rows'[k].removed # "server"

\* Nothing about k came, or is new in the log before the end.
SameNews(k) ==
  /\ Reached(k)' = Reached(k) /\ Reached(k) \subseteq DOMAIN log
  /\ (InOrder(k)' => InOrder(k)) /\ (Served(k)' => Served(k))
  /\ (TimesInOrder(k)' => TimesInOrder(k))
  /\ \A n \in DOMAIN log : log'[n] = log[n]

\* A commit, an announcement of something else, and anything but a delivery
\* bring nothing about k.
LEMMA NothingNew ==
  ASSUME Announced, QueueOnce, NEW k \in Ticket,
         \/ UNCHANGED <<log, delivered>>
         \/ delivered' = delivered /\ \E x : log' = Append(log, x)
         \/ log' = log /\ \E n \in DOMAIN log : /\ delivered' = Append(delivered, n)
                                                /\ ~AboutTicket(n, k)
  PROVE  SameNews(k)
<1>1. CASE UNCHANGED <<log, delivered>>
  <2>1. Reached(k)' = Reached(k) /\ InOrder(k)' = InOrder(k) /\ TimesInOrder(k)' = TimesInOrder(k)
    BY <1>1, Zenon DEF Reached, InOrder, TimesInOrder, AboutTicket
  <2>2. Served(k)' = Served(k)
    BY <1>1, <2>1, Zenon DEF Served, AboutTicket
  <2>3. Reached(k) \subseteq DOMAIN log
    BY DEF Reached, Announced, QueueOnce
  <2> QED BY <1>1, <2>1, <2>2, <2>3 DEF SameNews
<1>2. ASSUME delivered' = delivered, NEW x, log' = Append(log, x)
      PROVE  SameNews(k)
  <2>1. \A n \in DOMAIN log : log'[n] = log[n]
    BY <1>2 DEF Announced
  <2> QED BY <1>2, <2>1, LogGrows DEF SameNews
<1>3. ASSUME log' = log, NEW n \in DOMAIN log, delivered' = Append(delivered, n), ~AboutTicket(n, k)
      PROVE  SameNews(k)
  <2>1. /\ Reached(k)' = Reached(k) /\ (InOrder(k)' => InOrder(k))
        /\ TimesInOrder(k)' = TimesInOrder(k)
        /\ Served(k)' <=> \A m \in Reached(k)' : \A i \in DOMAIN log :
                            AboutTicket(i, k) /\ i < m => i \in Reached(k)'
        /\ Reached(k) \subseteq DOMAIN log
    BY <1>3, OneMoreCame
  <2>2. Served(k)' => Served(k)
    BY <2>1 DEF Served
  <2> QED BY <1>3, <2>1, <2>2 DEF SameNews
<1> QED BY <1>1, <1>2, <1>3

\* So what the room says of k keeps agreeing with what came about it.
LEMMA Bystander ==
  ASSUME NEW k \in Ticket, SameNews(k), MovesAside(k), Agrees(k), Tombstone(k)
  PROVE  Agrees(k)' /\ Tombstone(k)'
<1>1. /\ Reached(k)' = Reached(k)
      /\ \A n \in Reached(k) : log'[n] = log[n]
  BY DEF SameNews
<1>2. ASSUME NEW n \in Reached(k), Obeys(rows[k], n)
      PROVE  Obeys(rows[k], n)'
  BY <1>1, <1>2 DEF Obeys, MovesAside, Standing
<1>3. Agrees(k)'
  <2> SUFFICES ASSUME InOrder(k)', Served(k)', TimesInOrder(k)', NEW n \in Reached(k)',
                      \A m \in Reached(k)' : m <= n
               PROVE  Obeys(rows[k], n)'
    BY DEF Agrees
  <2>1. InOrder(k) /\ Served(k) /\ TimesInOrder(k)
    BY DEF SameNews
  <2>2. n \in Reached(k) /\ \A m \in Reached(k) : m <= n
    BY <1>1
  <2>3. Obeys(rows[k], n)
    BY <2>1, <2>2 DEF Agrees
  <2> QED BY <1>2, <2>2, <2>3
<1>4. Tombstone(k)'
  <2> SUFFICES ASSUME rows'[k] # NULL, rows'[k].removed = "server"
               PROVE  \E n \in Reached(k)' : log'[n].kind = "undo" /\ log'[n].at = rows'[k].at
    BY DEF Tombstone
  <2>1. rows'[k] = rows[k]
    BY DEF MovesAside
  <2>2. PICK n \in Reached(k) : log[n].kind = "undo" /\ log[n].at = rows[k].at
    BY <2>1 DEF Tombstone
  <2> QED BY <1>1, <2>1, <2>2
<1> QED BY <1>3, <1>4

\* A check-in that comes after every announcement before it is taken.
LEMMA InComes ==
  ASSUME Announced, RoomRows, QueueOnce, NEW n \in DOMAIN log, NEW k \in Ticket,
         log[n].kind = "in", log[n].subject = k, log' = log, delivered' = Append(delivered, n),
         TakeIn(k, log[n].at), Tombstone(k)
  PROVE  Agrees(k)' /\ Tombstone(k)'
<1> DEFINE at == log[n].at
<1>1. AboutTicket(n, k) /\ log[n] \in Announcement
  BY DEF AboutTicket, Announced
<1>2. at \in 1 .. MaxCommits
  BY <1>1 DEF Announcement
<1>3. /\ Reached(k)' = Reached(k) \cup {n}
      /\ InOrder(k)' => InOrder(k) /\ \A m \in Reached(k) : m < n
      /\ TimesInOrder(k)' = TimesInOrder(k)
      /\ Reached(k) \subseteq {m \in DOMAIN log : AboutTicket(m, k)}
  BY <1>1, OneMoreCame
<1>4. CASE AlreadyTaken(rows[k], at)
  <2>1. rows' = rows
    BY <1>4 DEF TakeIn
  <2>2. Tombstone(k)'
    BY <1>3, <2>1 DEF Tombstone
  <2>3. ASSUME InOrder(k)', TimesInOrder(k)'
        PROVE  Standing(rows[k]) /\ rows[k].confirmed /\ rows[k].at = at
    <3> SUFFICES ASSUME rows[k] # NULL, rows[k].removed = "server", rows[k].at >= at
                 PROVE  FALSE
      BY <1>4 DEF AlreadyTaken
    <3>1. PICK m \in Reached(k) : log[m].kind = "undo" /\ log[m].at = rows[k].at
      BY DEF Tombstone
    <3>2. m < n /\ m \in DOMAIN log /\ AboutTicket(m, k)
      BY <1>3, <2>3, <3>1
    <3>3. log[m].at < at
      BY <1>1, <1>3, <2>3, <3>1, <3>2 DEF TimesInOrder
    <3>4. log[m] \in Announcement
      BY <3>2 DEF Announced
    <3>5. log[m].at \in 1 .. MaxCommits
      BY <3>1, <3>4 DEF Announcement
    <3> QED BY <1>2, <3>1, <3>3, <3>5, BoundAssumption
  <2>4. ASSUME NEW j \in Reached(k)', InOrder(k)', TimesInOrder(k)',
               \A m \in Reached(k)' : m <= j
        PROVE  Obeys(rows[k], j)'
    <3>1. j \in DOMAIN log /\ n <= j /\ (j # n => j < n)
      BY <1>3, <2>4
    <3>2. j = n
      <4>1. n \in Nat /\ j \in Nat
        BY <3>1 DEF Announced
      <4> QED BY <3>1, <4>1
    <3> QED BY <2>1, <2>3, <2>4, <3>2 DEF Obeys, Standing
  <2> QED BY <2>2, <2>4 DEF Agrees
<1>5. CASE ~AlreadyTaken(rows[k], at)
  <2> DEFINE r == Row(at, NULL, TRUE, seq + 1, "no")
  <2>1. Put(k, r)
    BY <1>5 DEF TakeIn
  <2>2. seq + 1 \in 1 .. MaxSeq
    BY <2>1, BoundAssumption DEF Put, RoomRows
  <2>3. r \in RoomRow /\ r.removed = "no" /\ r.confirmed /\ r.at = at
    BY <1>2, <2>2, BoundAssumption DEF Row, RoomRow
  <2> HIDE DEF r
  <2>4. rows'[k] = r /\ r # NULL
    BY <2>1, <2>3, NullAssumption DEF Put, RoomRows
  <2>5. Tombstone(k)'
    BY <2>3, <2>4 DEF Tombstone
  <2>6. ASSUME NEW j \in Reached(k)', InOrder(k)', \A m \in Reached(k)' : m <= j
        PROVE  Obeys(rows[k], j)'
    <3>1. j \in DOMAIN log /\ n <= j /\ (j # n => j < n)
      BY <1>3, <2>6
    <3>2. j = n
      <4>1. n \in Nat /\ j \in Nat
        BY <3>1 DEF Announced
      <4> QED BY <3>1, <4>1
    <3> QED BY <2>3, <2>4, <3>2 DEF Obeys, Standing
  <2> QED BY <2>5, <2>6 DEF Agrees
<1> QED BY <1>4, <1>5

\* An undo that comes after every announcement before it meets the very
\* check-in it takes back.
LEMMA UndoComes ==
  ASSUME Announced, RoomRows, QueueOnce, Answered, NEW n \in DOMAIN log, NEW k \in Ticket,
         log[n].kind = "undo", log[n].subject = k, log' = log, delivered' = Append(delivered, n),
         TakeUndo(k, log[n].at), Agrees(k), Tombstone(k)
  PROVE  Agrees(k)' /\ Tombstone(k)'
<1> DEFINE at == log[n].at
           r == Row(at, NULL, TRUE, seq + 1, "server")
<1>1. AboutTicket(n, k) /\ log[n] \in Announcement /\ DOMAIN log \subseteq Nat
  BY DEF AboutTicket, Announced
<1>2. at \in 1 .. MaxCommits
  BY <1>1 DEF Announcement
<1>3. /\ Reached(k)' = Reached(k) \cup {n}
      /\ InOrder(k)' => InOrder(k) /\ \A m \in Reached(k) : m < n
      /\ TimesInOrder(k)' = TimesInOrder(k)
      /\ Served(k)' <=> \A m \in Reached(k)' : \A i \in DOMAIN log :
                          AboutTicket(i, k) /\ i < m => i \in Reached(k)'
      /\ Reached(k) \subseteq {m \in DOMAIN log : AboutTicket(m, k)}
  BY <1>1, OneMoreCame
<1>4. ASSUME ~UndoOfAnother(rows[k], at)
      PROVE  rows'[k] = r /\ r.removed = "server" /\ r.at = at
  <2>1. Put(k, r)
    BY <1>4 DEF TakeUndo
  <2>2. r.removed = "server" /\ r.at = at
    BY DEF Row
  <2> HIDE DEF r
  <2> QED BY <2>1, <2>2 DEF Put, RoomRows
<1>5. ASSUME UndoOfAnother(rows[k], at)
      PROVE  rows' = rows
  BY <1>5 DEF TakeUndo
<1> HIDE DEF r
<1>6. Tombstone(k)'
  <2>1. CASE UndoOfAnother(rows[k], at)
    BY <1>3, <1>5, <2>1 DEF Tombstone
  <2>2. CASE ~UndoOfAnother(rows[k], at)
    BY <1>3, <1>4, <2>2 DEF Tombstone
  <2> QED BY <2>1, <2>2
<1>7. ASSUME InOrder(k)', Served(k)', TimesInOrder(k)'
      PROVE  ~UndoOfAnother(rows[k], at)
  <2>1. PICK m \in DOMAIN log :
          /\ m < n /\ log[m].kind = "in" /\ log[m].subject = k /\ log[m].at = at
          /\ \A i \in DOMAIN log : m < i /\ i < n => ~AboutTicket(i, k)
    BY DEF Answered
  <2>2. AboutTicket(m, k) /\ m \in Reached(k)
    <3>1. AboutTicket(m, k)
      BY <2>1 DEF AboutTicket
    <3>2. m \in Reached(k)'
      BY <1>3, <1>7, <2>1, <3>1
    <3>3. m # n
      BY <1>1, <2>1
    <3> QED BY <1>3, <3>1, <3>2, <3>3
  <2>3. \A j \in Reached(k) : j <= m
    <3> SUFFICES ASSUME NEW j \in Reached(k), ~(j <= m) PROVE FALSE
      OBVIOUS
    <3>1. j < n /\ j \in DOMAIN log /\ AboutTicket(j, k)
      BY <1>3, <1>7
    <3>2. m < j
      BY <1>1, <3>1
    <3> QED BY <2>1, <3>1, <3>2
  <2>4. Served(k)
    <3> SUFFICES ASSUME NEW j \in Reached(k), NEW i \in DOMAIN log, AboutTicket(i, k), i < j
                 PROVE  i \in Reached(k)
      BY DEF Served
    <3>1. i \in Reached(k)' /\ j < n /\ j \in DOMAIN log
      BY <1>3, <1>7
    <3>2. i # n
      BY <1>1, <3>1
    <3> QED BY <1>3, <3>1, <3>2
  <2>5. Obeys(rows[k], m)
    BY <1>3, <1>7, <2>2, <2>3, <2>4 DEF Agrees
  <2> QED BY <2>1, <2>5 DEF Obeys, UndoOfAnother
<1>8. ASSUME NEW j \in Reached(k)', InOrder(k)', Served(k)', TimesInOrder(k)',
             \A m \in Reached(k)' : m <= j
      PROVE  Obeys(rows[k], j)'
  <2>1. j \in DOMAIN log /\ n <= j /\ (j # n => j < n)
    BY <1>3, <1>8
  <2>2. j = n
    BY <1>1, <2>1
  <2>3. rows'[k] = r /\ r.removed = "server"
    BY <1>4, <1>7, <1>8
  <2> QED BY <2>2, <2>3 DEF Obeys, Standing
<1> QED BY <1>6, <1>8 DEF Agrees

\* What is announced of a check-in's undo: it is the one that stands.
LEMMA CommitAnswered ==
  ASSUME Announced, Answered, NEW kind, NEW subject, NEW at, Commit(kind, subject, at),
         kind = "undo" =>
           \E m \in DOMAIN log :
             /\ log[m].kind = "in" /\ log[m].subject = subject /\ log[m].at = at
             /\ \A i \in DOMAIN log : AboutTicket(i, subject) => i <= m
  PROVE  Answered'
<1> DEFINE e == [kind |-> kind, subject |-> subject, at |-> at]
           last == Len(log) + 1
<1>1. log' = Append(log, e) /\ e.kind = kind /\ e.subject = subject /\ e.at = at
  BY DEF Commit
<1> HIDE DEF e
<1>2. /\ DOMAIN log = 1 .. Len(log) /\ Len(log) \in Nat /\ DOMAIN log' = 1 .. last
      /\ log'[last] = e /\ \A n \in DOMAIN log : n \in DOMAIN log' /\ log'[n] = log[n] /\ n < last
  BY <1>1 DEF Announced
<1> HIDE DEF last
<1>3. \A n \in DOMAIN log' : n \in DOMAIN log \/ n = last
  BY <1>2 DEF last
<1>4. \A n \in DOMAIN log : \A k : AboutTicket(n, k)' <=> AboutTicket(n, k)
  BY <1>2 DEF AboutTicket
<1> SUFFICES ASSUME NEW n \in DOMAIN log', log'[n].kind = "undo"
             PROVE  \E m \in DOMAIN log' :
                      /\ m < n /\ log'[m].kind = "in" /\ log'[m].subject = log'[n].subject
                      /\ log'[m].at = log'[n].at
                      /\ \A i \in DOMAIN log' : m < i /\ i < n => ~AboutTicket(i, log[n].subject)'
  BY DEF Answered
<1>5. CASE n \in DOMAIN log
  <2>1. log'[n] = log[n]
    BY <1>2, <1>5
  <2>2. PICK m \in DOMAIN log :
          /\ m < n /\ log[m].kind = "in" /\ log[m].subject = log[n].subject
          /\ log[m].at = log[n].at
          /\ \A i \in DOMAIN log : m < i /\ i < n => ~AboutTicket(i, log[n].subject)
    BY <1>5, <2>1 DEF Answered
  <2>3. \A i \in DOMAIN log' : i < n => i \in DOMAIN log
    BY <1>2, <1>3, <1>5
  <2>4. \A i \in DOMAIN log' : m < i /\ i < n => ~AboutTicket(i, log[n].subject)'
    BY <1>2, <1>4, <1>5, <2>1, <2>2, <2>3 DEF AboutTicket
  <2> QED BY <1>2, <2>1, <2>2, <2>4
<1>6. CASE n = last
  <2>1. log'[n] = e
    BY <1>2, <1>6
  <2>2. PICK m \in DOMAIN log :
          /\ log[m].kind = "in" /\ log[m].subject = subject /\ log[m].at = at
          /\ \A i \in DOMAIN log : AboutTicket(i, subject) => i <= m
    BY <1>1, <2>1
  <2>3. \A i \in DOMAIN log' : m < i /\ i < n => i \in DOMAIN log /\ ~(i <= m)
    BY <1>2, <1>3, <1>6
  <2>4. \A i \in DOMAIN log' : m < i /\ i < n => ~AboutTicket(i, log[n].subject)'
    BY <1>1, <1>2, <2>1, <2>2, <2>3 DEF AboutTicket
  <2> QED BY <1>1, <1>2, <1>6, <2>1, <2>2, <2>4
<1> QED BY <1>3, <1>5, <1>6

\* The server's commits keep every undo to its check-in.
LEMMA CommitsAnswered ==
  ASSUME Announced, Answered,
         \/ \E k \in Ticket : (\E at \in 1 .. Len(log) + 1 : CommitIn(k, at)) \/ CommitUndo(k)
         \/ \E p \in Pass : CommitRevoke(p)
  PROVE  Answered'
<1>1. CASE \/ \E k \in Ticket : \E at \in 1 .. Len(log) + 1 : CommitIn(k, at)
           \/ \E p \in Pass : CommitRevoke(p)
  BY <1>1, CommitAnswered DEF CommitIn, CommitRevoke
<1>2. ASSUME NEW k \in Ticket, CommitUndo(k)
      PROVE  Answered'
  <2>1. CheckedIn(k) # NULL /\ Commit("undo", k, CheckedIn(k))
    BY <1>2 DEF CommitUndo
  <2>2. PICK m \in DOMAIN log :
          /\ AboutTicket(m, k) /\ \A i \in DOMAIN log : AboutTicket(i, k) => i <= m
          /\ CheckedIn(k) = IF log[m].kind = "in" THEN log[m].at ELSE NULL
    BY <2>1, LastWord
  <2>3. log[m].kind = "in" /\ log[m].subject = k /\ log[m].at = CheckedIn(k)
    BY <2>1, <2>2 DEF AboutTicket
  <2> QED BY <2>1, <2>2, <2>3, CommitAnswered
<1> QED BY <1>1, <1>2

\* As does every step that announces nothing.
LEMMA StillAnswered ==
  ASSUME Answered, log' = log
  PROVE  Answered'
BY DEF Answered, AboutTicket

\* An announcement that comes.
LEMMA ArrivesAgreed ==
  ASSUME RelayInv, QueueOnce, RoomAgreed, waiting # <<>>, log' = log, FromServer(Head(waiting))
  PROVE  RoomAgreed'
<1> DEFINE n == Head(waiting)
<1>0. Announced /\ RoomRows /\ Answered
  BY DEF RelayInv, RoomAgreed
<1>1. n \in DOMAIN log /\ log[n] \in Announcement
  BY DEF RelayInv, Announced
<1> HIDE DEF n
<1>2. /\ delivered' = Append(delivered, n)
      /\ \/ log[n].kind = "in" /\ TakeIn(log[n].subject, log[n].at)
         \/ log[n].kind = "undo" /\ TakeUndo(log[n].subject, log[n].at)
         \/ log[n].kind = "revoke" /\ TakeRevoke(log[n].subject)
  BY DEF FromServer, n
<1>3. Answered'
  BY <1>0, StillAnswered
<1> SUFFICES ASSUME NEW k \in Ticket PROVE Agrees(k)' /\ Tombstone(k)'
  BY <1>3 DEF RoomAgreed
<1>4. Agrees(k) /\ Tombstone(k)
  BY DEF RoomAgreed
<1>5. ASSUME ~AboutTicket(n, k)
      PROVE  SameNews(k)
  BY <1>0, <1>1, <1>2, <1>5, NothingNew
<1>6. CASE log[n].kind = "in" /\ TakeIn(log[n].subject, log[n].at)
  <2>1. CASE log[n].subject = k
    <3>1. TakeIn(k, log[n].at)
      BY <1>6, <2>1
    <3> QED BY <1>0, <1>1, <1>2, <1>4, <1>6, <2>1, <3>1, InComes
  <2>2. CASE log[n].subject # k
    <3>1. rows'[k] = rows[k]
      BY <1>0, <1>6, <2>2 DEF TakeIn, Put, RoomRows
    <3>2. SameNews(k)
      BY <1>5, <2>2 DEF AboutTicket
    <3> QED BY <1>4, <3>1, <3>2, Bystander DEF MovesAside
  <2> QED BY <2>1, <2>2
<1>7. CASE log[n].kind = "undo" /\ TakeUndo(log[n].subject, log[n].at)
  <2>1. CASE log[n].subject = k
    <3>1. TakeUndo(k, log[n].at)
      BY <1>7, <2>1
    <3> QED BY <1>0, <1>1, <1>2, <1>4, <1>7, <2>1, <3>1, UndoComes
  <2>2. CASE log[n].subject # k
    <3>1. rows'[k] = rows[k]
      BY <1>0, <1>7, <2>2 DEF TakeUndo, Put, RoomRows
    <3>2. SameNews(k)
      BY <1>5, <2>2 DEF AboutTicket
    <3> QED BY <1>4, <3>1, <3>2, Bystander DEF MovesAside
  <2> QED BY <2>1, <2>2
<1>8. CASE log[n].kind = "revoke" /\ TakeRevoke(log[n].subject)
  <2>1. SameNews(k)
    BY <1>5, <1>8 DEF AboutTicket
  <2> DEFINE p == log[n].subject
             C == ClaimsOf(p)
  <2>2. PICK order \in SetToSeqs(C) :
          rows' = [j \in Ticket |->
            IF j \in C
              THEN [rows[j] EXCEPT !.removed = "gate",
                                   !.seq = seq + (CHOOSE i \in DOMAIN order : order[i] = j)]
              ELSE rows[j]]
    BY <1>8, Zenon DEF TakeRevoke
  <2> DEFINE number == seq + (CHOOSE i \in DOMAIN order : order[i] = k)
  <2>3. rows'[k] = IF k \in C THEN [rows[k] EXCEPT !.removed = "gate", !.seq = number] ELSE rows[k]
    BY <2>2, Zenon
  <2> HIDE DEF number
  <2>4. MovesAside(k)
    <3>1. CASE k \notin C
      BY <2>3, <3>1 DEF MovesAside
    <3>2. CASE k \in C
      <4>1. rows[k] \in RoomRow /\ ~rows[k].confirmed
        BY <1>0, <3>2 DEF ClaimsOf, RoomRows, Standing
      <4>2. ~rows'[k].confirmed /\ rows'[k].removed = "gate"
        BY <2>3, <3>2, <4>1 DEF RoomRow
      <4> QED BY <4>1, <4>2 DEF MovesAside
    <3> QED BY <3>1, <3>2
  <2> QED BY <1>4, <2>1, <2>4, Bystander
<1> QED BY <1>2, <1>6, <1>7, <1>8

\* At the start the room says nothing of any ticket.
LEMMA StartsAgreed == Init => RoomAgreed
<1> SUFFICES ASSUME Init PROVE RoomAgreed
  OBVIOUS
<1>1. Answered
  BY DEF Init, Answered
<1>2. ASSUME NEW k \in Ticket PROVE Agrees(k) /\ Tombstone(k)
  <2>1. Reached(k) = {} /\ rows[k] = NULL
    BY DEF Init, Reached
  <2> QED BY <2>1 DEF Agrees, Tombstone
<1> QED BY <1>1, <1>2 DEF RoomAgreed

\* And every step keeps it in agreement with what came.
LEMMA NextAgreed == RelayInv /\ QueueOnce /\ RoomAgreed /\ [Next]_vars => RoomAgreed'
<1> SUFFICES ASSUME RelayInv, QueueOnce, RoomAgreed, [Next]_vars PROVE RoomAgreed'
  OBVIOUS
<1>0. Announced /\ RoomRows /\ Answered /\ \A k \in Ticket : Agrees(k) /\ Tombstone(k)
  BY DEF RelayInv, RoomAgreed
<1>1. CASE \/ \E k \in Ticket : (\E at \in 1 .. Len(log) + 1 : CommitIn(k, at)) \/ CommitUndo(k)
           \/ \E p \in Pass : CommitRevoke(p)
  <2>1. rows' = rows /\ delivered' = delivered /\ \E x : log' = Append(log, x)
    BY <1>1 DEF CommitIn, CommitUndo, CommitRevoke, Commit
  <2>2. Answered'
    BY <1>0, <1>1, CommitsAnswered
  <2>3. \A k \in Ticket : SameNews(k)
    BY <1>0, <2>1, NothingNew
  <2>4. \A k \in Ticket : MovesAside(k)
    BY <2>1 DEF MovesAside
  <2> QED BY <1>0, <2>2, <2>3, <2>4, Bystander DEF RoomAgreed
<1>2. CASE Deliver \/ DeliverUnanswered
  BY <1>2, ArrivesAgreed DEF Deliver, DeliverUnanswered
<1>3. CASE \/ \E n \in DOMAIN log : Enqueue(n) \/ EnqueueFails(n) \/ BackoffOver(n)
           \/ DeliverFails
           \/ \E p \in Phone, k \in Ticket :
                (\E at \in 1 .. Len(log) + 1 : Claim(p, k, at)) \/ Unclaim(p, k)
           \/ \E p \in Phone : Connect(p) \/ Hear(p) \/ Drop(p)
           \/ UNCHANGED vars
  <2>1. UNCHANGED <<log, delivered>>
    BY <1>3 DEF Enqueue, EnqueueFails, BackoffOver, DeliverFails, Claim, Unclaim, Connect, Hear,
                Drop, vars
  <2>2. Answered'
    BY <1>0, <2>1, StillAnswered
  <2>3. \A k \in Ticket : SameNews(k)
    BY <1>0, <2>1, NothingNew
  <2>4. ASSUME NEW k \in Ticket PROVE MovesAside(k)
    <3>1. CASE rows' = rows
      BY <3>1 DEF MovesAside
    <3>2. ASSUME NEW f \in Phone, NEW j \in Ticket, NEW at \in 1 .. Len(log) + 1, Claim(f, j, at)
          PROVE  MovesAside(k)
      <4> DEFINE r == Row(at, PassOf[f], FALSE, seq + 1, "no")
      <4>1. ~Standing(rows[j]) /\ rows' = [rows EXCEPT ![j] = r]
        BY <3>2 DEF Claim
      <4>2. ~r.confirmed /\ r.removed = "no"
        BY DEF Row
      <4> HIDE DEF r
      <4> QED BY <1>0, <4>1, <4>2 DEF MovesAside, RoomRows
    <3>3. ASSUME NEW f \in Phone, NEW j \in Ticket, Unclaim(f, j)
          PROVE  MovesAside(k)
      <4> DEFINE r == Taken(rows[j], seq + 1)
      <4>1. /\ rows[j] \in RoomRow /\ ~rows[j].confirmed
            /\ rows' = [rows EXCEPT ![j].removed = "gate", ![j].seq = seq + 1]
        BY <1>0, <3>3 DEF Unclaim, Unclaimable, RoomRows, Standing
      <4>2. rows' = [rows EXCEPT ![j] = r]
        BY <1>0, <4>1 DEF RoomRows, Taken
      <4>3. ~r.confirmed /\ r.removed = "gate"
        BY <4>1 DEF Taken, RoomRow
      <4> HIDE DEF r
      <4> QED BY <1>0, <4>1, <4>2, <4>3 DEF MovesAside, RoomRows
    <3>4. CASE \/ \E n \in DOMAIN log : Enqueue(n) \/ EnqueueFails(n) \/ BackoffOver(n)
               \/ DeliverFails
               \/ \E p \in Phone : Connect(p) \/ Hear(p) \/ Drop(p)
               \/ UNCHANGED vars
      <4>1. rows' = rows
        BY <3>4 DEF Enqueue, EnqueueFails, BackoffOver, DeliverFails, Connect, Hear, Drop, vars
      <4> QED BY <3>1, <4>1
    <3> QED BY <1>3, <3>2, <3>3, <3>4
  <2> QED BY <1>0, <2>2, <2>3, <2>4, Bystander DEF RoomAgreed
<1>4. CASE Rebuild
  <2>1. log' = log /\ delivered' = <<>> /\ rows' = [k \in Ticket |-> NULL]
    BY <1>4 DEF Rebuild
  <2>2. Answered'
    BY <1>0, <2>1, StillAnswered
  <2>3. ASSUME NEW k \in Ticket PROVE Agrees(k)' /\ Tombstone(k)'
    <3>1. Reached(k)' = {} /\ rows'[k] = NULL
      BY <2>1 DEF Reached
    <3> QED BY <3>1 DEF Agrees, Tombstone
  <2> QED BY <2>2, <2>3 DEF RoomAgreed
<1> QED BY <1>1, <1>2, <1>3, <1>4 DEF Next

-----------------------------------------------------------------------------
(* The theorems.                                                           *)

\* Once the room took a revocation, no phone of that pass has a link and no
\* claim of it stands: room.ts drops the claims and closes the sockets in one
\* step, and lets no phone of that pass in again, also after a rebuild.
THEOREM RevokedSilent == Spec => []RevokedPassSilent
<1>1. RelayInv => RevokedPassSilent
  BY DEF RelayInv
<1> QED BY <1>1, StartsSilent, NextSilent, PTL DEF Spec

\* The server's word falls only to the server's undo of that very check-in: no
\* claim, unclaim or revocation and no repeated or late announcement of room.ts
\* takes a confirmed row away.
THEOREM ConfirmedStands == Spec => ConfirmedFallsToItsUndo
<1>1. RelayInv /\ [Next]_vars =>
        [\A k \in Ticket :
           Standing(rows[k]) /\ rows[k].confirmed /\ epoch' = epoch =>
             \/ Standing(rows'[k]) /\ rows'[k].confirmed
             \/ \E n \in DOMAIN log :
                  log[n] = [kind |-> "undo", subject |-> k, at |-> rows[k].at]]_vars
  BY NextSilent DEF ConfirmedKept
<1> QED BY <1>1, StartsSilent, NextSilent, PTL DEF Spec, ConfirmedFallsToItsUndo

\* The type invariant, with what TypeOK says of the room's data: the rows have
\* different sequence numbers, none past the last one handed out (room.ts), no
\* cursor is past it either (feed.ts), and a row is of a pass exactly until the
\* server takes it over.
THEOREM RelayTyped == Spec => []TypeOK
<1>1. RelayInv /\ QueueOnce /\ PhonesAbreast => TypeOK
  <2> SUFFICES ASSUME RelayInv, QueueOnce, PhonesAbreast PROVE TypeOK
    OBVIOUS
  <2>1. DOMAIN log = 1 .. Len(log)
    BY DEF RelayInv, Announced
  <2>2. /\ log \in Seq(Announcement) /\ unqueued \subseteq DOMAIN log
        /\ waiting \in Seq(DOMAIN log) /\ delayed \subseteq DOMAIN log
        /\ tries \in [1 .. MaxCommits -> 0 .. MaxTries]
        /\ delivered \in Seq(DOMAIN log)
    BY <2>1 DEF RelayInv, Announced, QueueOnce
  <2>3. /\ rows \in [Ticket -> RoomRow \cup {NULL}]
        /\ seq \in 0 .. MaxSeq /\ epoch \in 1 .. MaxEpoch /\ revoked \subseteq Pass
    BY DEF RelayInv, RoomRows, PhonesAbreast
  <2>4. RowsApart(rows, seq)
    BY DEF PhonesAbreast
  <2>5. ASSUME NEW p \in Phone
        PROVE  /\ phones[p].up \in BOOLEAN /\ phones[p].inbox \in Seq(PhoneMessage)
               /\ phones[p].epoch \in 0 .. epoch /\ phones[p].heard \in 0 .. MaxSeq
               /\ phones[p].epoch = epoch => phones[p].heard <= seq
               /\ phones[p].knows \in [Ticket -> (0 .. MaxEpoch) \X (0 .. MaxSeq)]
    <3> DEFINE l == phones[p]
    <3>1. l \in Link /\ l.epoch <= epoch /\ (l.epoch = epoch => l.heard <= seq)
      BY DEF PhonesAbreast, Abreast, Truthful
    <3> HIDE DEF l
    <3>2. /\ l.up \in BOOLEAN /\ l.inbox \in Seq(PhoneMessage) /\ l.epoch \in 0 .. MaxEpoch
          /\ l.heard \in 0 .. MaxSeq /\ l.knows \in [Ticket -> (0 .. MaxEpoch) \X (0 .. MaxSeq)]
      BY <3>1 DEF Link
    <3> QED BY <2>3, <3>1, <3>2, BoundAssumption DEF l
  <2> QED BY <2>2, <2>3, <2>4, <2>5 DEF TypeOK, RowsApart
<1> QED BY <1>1, StartsSilent, StartsQueued, StartsTold, NextSilent, NextQueued, NextTold,
           PTL DEF Spec

\* A phone whose link is up and has nothing on its way knows the newest word on
\* every row of the room: room.ts sends a phone that comes back all it missed
\* since its cursor, and all of it where the cursor is of another room, and
\* feed.ts moves the cursor to the highest number heard.  True as long as no
\* link drops in the middle of a catch-up, where the cursor has moved past what
\* the rest of the catch-up would have told.
THEOREM PhonesKnow ==
  ASSUME TornCatchUp = FALSE
  PROVE  Spec => []PhoneKnowsRoom
<1>1. RelayInv /\ PhonesAbreast => PhoneKnowsRoom
  <2> SUFFICES ASSUME RelayInv, PhonesAbreast, NEW p \in Phone, phones[p].up,
                      phones[p].inbox = <<>>, NEW k \in Ticket, rows[k] # NULL
               PROVE  phones[p].knows[k] = <<epoch, rows[k].seq>>
    BY DEF PhoneKnowsRoom
  <2> DEFINE l == phones[p]
  <2>1. PassOf[p] \notin revoked
    BY DEF RelayInv, RevokedPassSilent
  <2>2. ~LeftOut(p)
    BY <2>1, Zenon DEF LeftOut
  <2>3. Informed(l, rows, epoch, LeftOut(p))
    BY DEF PhonesAbreast, Abreast
  <2>4. l.up /\ l.inbox = <<>>
    OBVIOUS
  <2> HIDE DEF l
  <2>5. Knows(l, k, rows, epoch) \/ Coming(l, k, rows)
    BY <2>2, <2>3, <2>4 DEF Informed
  <2> QED BY <2>4, <2>5 DEF Knows, Coming, l
<1> QED BY <1>1, StartsSilent, StartsTold, NextSilent, NextTold, PTL DEF Spec

\* A room that heard all of the server's announcements about a ticket, once
\* and in order, says of it what the server does, whatever the phones claimed
\* and took back meanwhile: fromServer of room.ts takes a check-in over any
\* claim, and an undo that comes in order meets the check-in it takes back.
\* The hypothesis that a ticket's check-ins are of ascending times is that of
\* the property: without it a tombstone may turn away a later check-in.
THEOREM RoomAgrees == Spec => []RoomMatchesServer
<1>1. RelayInv /\ QueueOnce /\ RoomAgreed => RoomMatchesServer
  <2> SUFFICES ASSUME RelayInv, RoomAgreed, NEW k \in Ticket, Heard(k), TimesInOrder(k)
               PROVE  IF CheckedIn(k) = NULL THEN ~(Standing(rows[k]) /\ rows[k].confirmed)
                      ELSE Standing(rows[k]) /\ rows[k].confirmed /\ rows[k].at = CheckedIn(k)
    BY DEF RoomMatchesServer
  <2>1. Announced /\ Agrees(k)
    BY DEF RelayInv, RoomAgreed
  <2>2. /\ Reached(k) # {} /\ InOrder(k)
        /\ Reached(k) = {n \in DOMAIN log : AboutTicket(n, k)}
    BY DEF Heard
  <2>3. Served(k)
    BY <2>2 DEF Served
  <2>4. PICK n \in DOMAIN log :
          /\ AboutTicket(n, k) /\ \A m \in DOMAIN log : AboutTicket(m, k) => m <= n
          /\ CheckedIn(k) = IF log[n].kind = "in" THEN log[n].at ELSE NULL
    BY <2>1, <2>2, LastWord
  <2>5. Obeys(rows[k], n)
    BY <2>1, <2>2, <2>3, <2>4 DEF Agrees
  <2>6. log[n].kind = "in" => log[n].at # NULL
    <3>1. log[n] \in Announcement
      BY <2>1 DEF Announced
    <3> QED BY <3>1, NullAssumption DEF Announcement
  <2> QED BY <2>4, <2>5, <2>6 DEF Obeys
<1> QED BY <1>1, StartsSilent, StartsQueued, StartsAgreed, NextSilent, NextQueued, NextAgreed,
           PTL DEF Spec
=============================================================================
