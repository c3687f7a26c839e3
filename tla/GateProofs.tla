----------------------------- MODULE GateProofs -----------------------------
(***************************************************************************)
(* Theorems about module Gate, for every number of passes, tickets, scans  *)
(* and requests at work at the same time.                                  *)
(***************************************************************************)
EXTENDS Gate, FiniteSetTheorems, SequenceTheorems, TLAPS

\* A scan id is of a pass and of a ticket.
LEMMA ScanParts ==
  \A s \in ScanId : PassOf(s) \in Pass /\ TicketOf(s) \in Ticket
  BY DEF ScanId, PassOf, TicketOf

\* A request that moves on stays a request.
LEMMA GotoType ==
  ASSUME req \in [Request -> RequestState], NEW r \in Request,
         NEW pc \in {"received", "fresh", "locking", "logging", "replaying"} \cup InTransaction,
         Goto(r, pc)
  PROVE  /\ req' \in [Request -> RequestState]
         /\ req'[r] = [req[r] EXCEPT !.pc = pc]
         /\ \A q \in Request \ {r} : req'[q] = req[q]
  BY DEF Goto, RequestState

\* So does one that ends, with or without an answer.
LEMMA IdleType ==
  ASSUME req \in [Request -> RequestState], NEW r \in Request,
         req' = [req EXCEPT ![r] = Idle]
  PROVE  /\ req' \in [Request -> RequestState]
         /\ req'[r].pc = "idle"
         /\ \A q \in Request \ {r} : req'[q] = req[q]
  BY DEF RequestState, Idle, Verdict

\* An answer is told of the request's scan, with its verdict.
LEMMA ReplyType ==
  ASSUME TypeOK, NEW r \in Request, req[r].pc # "idle", NEW a \in Answer, Reply(r, a)
  PROVE  /\ req' \in [Request -> RequestState]
         /\ req'[r].pc = "idle"
         /\ \A q \in Request \ {r} : req'[q] = req[q]
         /\ told' \subseteq [scan : ScanId, verdict : Verdict, answer : Answer]
  <1>1. req[r].scan \in ScanId /\ req[r].verdict \in Verdict
    BY DEF TypeOK, RequestState
  <1>2. req' = [req EXCEPT ![r] = Idle]
    BY DEF Reply
  <1>3. told' \subseteq [scan : ScanId, verdict : Verdict, answer : Answer]
    BY <1>1 DEF Reply, TypeOK
  <1> QED BY <1>2, <1>3, IdleType DEF TypeOK

\* What TypeOK says of one request.
RequestOK(q, row) ==
  /\ q \in RequestState
  /\ q.pc # "idle" => q.scan \in ScanId
  /\ q.pc \in {"logging", "refusing"} => q.result \in Recorded
  /\ q.pc = "replaying" => row[q.scan] # NULL

\* Rows of the scan table are written once and stay.
LEMMA OtherRequests ==
  ASSUME TypeOK, NEW r \in Request,
         \A q \in Request \ {r} : req'[q] = req[q],
         \A s \in ScanId : scans[s] # NULL => scans'[s] # NULL
  PROVE  \A q \in Request \ {r} : RequestOK(req'[q], scans')
  BY DEF TypeOK, RequestOK

-----------------------------------------------------------------------------
(* The steps, by the tables they write.                                    *)

\* A scan that checks its ticket in.
Admits(r) ==
  LET s == req[r].scan
      k == TicketOf(s)
  IN  /\ req[r].pc \in {"checking", "retrying"}
      /\ Admissible(k)
      /\ ScanIdFree(s)
      /\ ticket' = [ticket EXCEPT ![k].by = s]
      /\ trail' = [trail EXCEPT ![k] = Append(@, [kind |-> "in", scan |-> s])]
      /\ InsertScan(s, req[r].verdict, "admitted")
      /\ Reply(r, "admitted")
      /\ UNCHANGED <<passState, revoking, standing>>

\* A scan that is recorded without a check-in.
Records(r) ==
  LET s == req[r].scan
  IN  /\ req[r].pc \in {"logging", "refusing"}
      /\ ScanIdFree(s)
      /\ InsertScan(s, req[r].verdict, req[r].result)
      /\ Reply(r, req[r].result)
      /\ UNCHANGED <<ticket, passState, revoking, standing, trail>>

\* The tables a gate reads and writes, requests and answers apart.
Tables == <<ticket, passState, revoking, standing, scans, trail>>

\* A step writes no table, or is one of seven that do.
LEMMA StepKinds ==
  ASSUME [Next]_vars
  PROVE  \/ UNCHANGED Tables
         \/ \E r \in Request : Admits(r) \/ Records(r)
         \/ \E s \in ScanId : /\ Undo(s) /\ scans[s] # NULL /\ scans[s].result = "admitted"
                              /\ UNCHANGED <<passState, revoking, standing, scans, req, told>>
         \/ \E p \in Pass : RevokePass(p) \/ RevokeAndUndo(p) \/ FinishRevoke(p)
         \/ \E k \in Ticket : CancelTicket(k)
  <1>1. CASE UNCHANGED vars
    BY <1>1 DEF vars, Tables
  <1>2. ASSUME NEW r \in Request, Work(r) \/ Abort(r)
        PROVE  UNCHANGED Tables \/ Admits(r) \/ Records(r)
    <2>1. CASE CheckIn(r)
      BY <2>1 DEF CheckIn, Admits, Tables
    <2>2. CASE Record(r)
      BY <2>2 DEF Record, Records, Tables
    <2> QED BY <1>2, <2>1, <2>2
            DEF Work, Look, ReadTicket, LockPass, MissCheckIn, ReRead, Replay, Abort, Tables
  <1>3. ASSUME NEW s \in ScanId, UndoOwnAdmit(s) \/ UndoCheckInAsAdmin(s)
        PROVE  /\ Undo(s) /\ scans[s] # NULL /\ scans[s].result = "admitted"
               /\ UNCHANGED <<passState, revoking, standing, scans, req, told>>
    BY <1>3 DEF UndoOwnAdmit, UndoCheckInAsAdmin
  <1>4. CASE \/ \E r \in Request, s \in ScanId, v \in Verdict : Receive(r, s, v)
             \/ OpenDoors
    BY <1>4 DEF Receive, OpenDoors, Tables
  <1> QED BY <1>1, <1>2, <1>3, <1>4 DEF Next

-----------------------------------------------------------------------------
(* Type correctness.                                                       *)

\* The tables alone.
TablesOK ==
  /\ ticket \in [Ticket -> [live : BOOLEAN, by : ScanId \cup {NULL}]]
  /\ passState \in [Pass -> {"active", "revoked", "cleared"}]
  /\ revoking \subseteq Pass
  /\ standing \in [Pass -> SUBSET ScanId]
  /\ scans \in [ScanId -> ScanRow \cup {NULL}]
  /\ trail \in [Ticket -> Seq(CheckInRow)]

\* One more audit row.
LEMMA TrailType ==
  ASSUME trail \in [Ticket -> Seq(CheckInRow)], NEW k \in Ticket, NEW s \in ScanId,
         NEW kind \in {"in", "undone"},
         trail' = [trail EXCEPT ![k] = Append(@, [kind |-> kind, scan |-> s])]
  PROVE  trail' \in [Ticket -> Seq(CheckInRow)]
  <1>1. [kind |-> kind, scan |-> s] \in CheckInRow
    BY DEF CheckInRow
  <1> QED BY <1>1, AppendProperties

\* Every step keeps the tables well typed, and no scan row ever goes.
LEMMA TablesType ==
  ASSUME TypeOK, [Next]_vars
  PROVE  /\ TablesOK'
         /\ \A s \in ScanId : scans[s] # NULL => scans'[s] = scans[s]
  <1>0. TablesOK
    BY DEF TypeOK, TablesOK
  <1>1. CASE UNCHANGED Tables
    BY <1>0, <1>1 DEF TablesOK, Tables
  <1>2. ASSUME NEW r \in Request, Admits(r)
        PROVE  TablesOK' /\ \A s \in ScanId : scans[s] # NULL => scans'[s] = scans[s]
    <2> DEFINE s == req[r].scan
    <2>1. s \in ScanId /\ req[r].verdict \in Verdict /\ scans[s] = NULL
      BY <1>2 DEF Admits, TypeOK, RequestState, ScanIdFree
    <2>2. TicketOf(s) \in Ticket
      BY <2>1, ScanParts
    <2>3. trail' \in [Ticket -> Seq(CheckInRow)]
      BY <1>0, <1>2, <2>1, <2>2, TrailType DEF Admits, TablesOK
    <2>4. [verdict |-> req[r].verdict, result |-> "admitted"] \in ScanRow
      BY <2>1 DEF ScanRow, Recorded
    <2>5. /\ scans' \in [ScanId -> ScanRow \cup {NULL}]
          /\ \A t \in ScanId : scans[t] # NULL => scans'[t] = scans[t]
      BY <1>0, <1>2, <2>1, <2>4 DEF Admits, InsertScan, TablesOK
    <2>6. ticket' \in [Ticket -> [live : BOOLEAN, by : ScanId \cup {NULL}]]
      BY <1>0, <1>2, <2>1, <2>2 DEF Admits, TablesOK
    <2> QED BY <1>0, <1>2, <2>3, <2>5, <2>6 DEF Admits, TablesOK
  <1>3. ASSUME NEW r \in Request, Records(r)
        PROVE  TablesOK' /\ \A s \in ScanId : scans[s] # NULL => scans'[s] = scans[s]
    <2> DEFINE s == req[r].scan
    <2>1. /\ s \in ScanId /\ req[r].verdict \in Verdict /\ scans[s] = NULL
          /\ req[r].result \in Recorded
      BY <1>3 DEF Records, TypeOK, RequestState, ScanIdFree
    <2>2. [verdict |-> req[r].verdict, result |-> req[r].result] \in ScanRow
      BY <2>1 DEF ScanRow
    <2>3. /\ scans' \in [ScanId -> ScanRow \cup {NULL}]
          /\ \A t \in ScanId : scans[t] # NULL => scans'[t] = scans[t]
      BY <1>0, <1>3, <2>1, <2>2 DEF Records, InsertScan, TablesOK
    <2> QED BY <1>0, <1>3, <2>3 DEF Records, TablesOK
  <1>4. ASSUME NEW s \in ScanId, Undo(s),
               UNCHANGED <<passState, revoking, standing, scans, req, told>>
        PROVE  TablesOK'
    <2>1. TicketOf(s) \in Ticket
      BY ScanParts
    <2>2. trail' \in [Ticket -> Seq(CheckInRow)]
      BY <1>0, <1>4, <2>1, TrailType DEF Undo, TablesOK
    <2>3. ticket' \in [Ticket -> [live : BOOLEAN, by : ScanId \cup {NULL}]]
      BY <1>0, <1>4, <2>1 DEF Undo, TablesOK
    <2> QED BY <1>0, <1>4, <2>2, <2>3 DEF TablesOK
  <1>5. ASSUME NEW p \in Pass, RevokePass(p)
        PROVE  TablesOK'
    BY <1>0, <1>5 DEF RevokePass, TablesOK
  <1>6. ASSUME NEW p \in Pass, RevokeAndUndo(p)
        PROVE  TablesOK'
    <2>1. StandingOf(p) \in SUBSET ScanId
      BY DEF StandingOf
    <2> QED BY <1>0, <1>6, <2>1 DEF RevokeAndUndo, TablesOK
  <1>7. ASSUME NEW p \in Pass, FinishRevoke(p)
        PROVE  TablesOK'
    <2> DEFINE undone == {s \in standing[p] : StandsBy(s)}
    <2>1. \A k \in Ticket : trail[k] \in Seq(CheckInRow) /\ ticket[k].by \in ScanId \cup {NULL}
      BY <1>0 DEF TablesOK
    <2>2. undone \subseteq ScanId
      BY <1>0 DEF TablesOK
    <2>3. \A k \in Ticket : ticket[k].by \in undone =>
            Append(trail[k], [kind |-> "undone", scan |-> ticket[k].by]) \in Seq(CheckInRow)
      BY <2>1, <2>2, AppendProperties DEF CheckInRow
    <2>4. trail' \in [Ticket -> Seq(CheckInRow)]
      BY <1>7, <2>1, <2>3 DEF FinishRevoke
    <2>5. ticket' \in [Ticket -> [live : BOOLEAN, by : ScanId \cup {NULL}]]
      BY <1>0, <1>7 DEF FinishRevoke, TablesOK
    <2>6. /\ revoking' \subseteq Pass
          /\ standing' \in [Pass -> SUBSET ScanId]
          /\ passState' \in [Pass -> {"active", "revoked", "cleared"}]
          /\ scans' = scans
      BY <1>0, <1>7 DEF FinishRevoke, TablesOK
    <2> QED BY <1>0, <2>4, <2>5, <2>6 DEF TablesOK
  <1>8. ASSUME NEW k \in Ticket, CancelTicket(k)
        PROVE  TablesOK'
    BY <1>0, <1>8 DEF CancelTicket, TablesOK
  <1> QED BY <1>1, <1>2, <1>3, <1>4, <1>5, <1>6, <1>7, <1>8, StepKinds
          DEF Tables, RevokePass, RevokeAndUndo, FinishRevoke, CancelTicket

\* What TypeOK says of the rest: the requests, what was sent and what was told.
RequestsOK ==
  /\ req \in [Request -> RequestState]
  /\ \A r \in Request : RequestOK(req[r], scans)
  /\ sends \in 0 .. MaxSends
  /\ open \in BOOLEAN
  /\ told \subseteq [scan : ScanId, verdict : Verdict, answer : Answer]

\* The type invariant is the two together.
LEMMA TypeParts == TypeOK <=> TablesOK /\ RequestsOK
  BY DEF TypeOK, TablesOK, RequestsOK, RequestOK

\* The same of the next state.
LEMMA TypePartsNext == TypeOK' <=> TablesOK' /\ RequestsOK'
  BY DEF TypeOK, TablesOK, RequestsOK, RequestOK

\* A request that ends leaves the others as they were.
LEMMA RequestEnds ==
  ASSUME TypeOK, NEW r \in Request, req[r].pc # "idle",
         \A s \in ScanId : scans[s] # NULL => scans'[s] # NULL,
         \/ \E a \in Answer : Reply(r, a)
         \/ req' = [req EXCEPT ![r] = Idle] /\ UNCHANGED told,
         UNCHANGED <<sends, open>>
  PROVE  RequestsOK'
  <1>1. /\ req' \in [Request -> RequestState]
        /\ req'[r].pc = "idle"
        /\ \A q \in Request \ {r} : req'[q] = req[q]
        /\ told' \subseteq [scan : ScanId, verdict : Verdict, answer : Answer]
    <2>1. CASE \E a \in Answer : Reply(r, a)
      BY <2>1, ReplyType
    <2>2. CASE req' = [req EXCEPT ![r] = Idle] /\ UNCHANGED told
      BY <2>2, IdleType DEF TypeOK
    <2> QED BY <2>1, <2>2
  <1>2. \A q \in Request \ {r} : RequestOK(req'[q], scans')
    BY <1>1, OtherRequests
  <1>3. RequestOK(req'[r], scans')
    BY <1>1 DEF RequestOK
  <1> QED BY <1>1, <1>2, <1>3 DEF RequestsOK, TypeOK

\* A request that moves on leaves the others as they were.
LEMMA RequestMoves ==
  ASSUME TypeOK, NEW r \in Request, NEW row \in RequestState,
         RequestOK(row, scans),
         req' = [req EXCEPT ![r] = row],
         UNCHANGED <<scans, open, told>>, sends' \in 0 .. MaxSends
  PROVE  RequestsOK'
  <1>1. req' \in [Request -> RequestState] /\ req'[r] = row
        /\ \A q \in Request \ {r} : req'[q] = req[q]
    BY DEF TypeOK
  <1>2. \A q \in Request \ {r} : RequestOK(req'[q], scans')
    BY <1>1, OtherRequests
  <1> QED BY <1>1, <1>2 DEF RequestsOK, TypeOK

\* A statement of a request keeps the requests well typed.
LEMMA WorkType ==
  ASSUME TypeOK, TablesOK', NEW r \in Request, Work(r) \/ Abort(r),
         \A s \in ScanId : scans[s] # NULL => scans'[s] # NULL
  PROVE  RequestsOK'
  <1> DEFINE s == req[r].scan
  <1>0. /\ req[r] \in RequestState
        /\ req[r].pc # "idle" => s \in ScanId
        /\ sends \in 0 .. MaxSends
    BY DEF TypeOK
  <1>1. CASE Look(r)
    <2>1. \E pc \in {"fresh", "replaying"} :
            /\ req' = [req EXCEPT ![r] = [req[r] EXCEPT !.pc = pc]]
            /\ pc = "replaying" => scans[s] # NULL
      BY <1>1 DEF Look, Goto
    <2>2. req[r].pc = "received" /\ UNCHANGED <<scans, open, told, sends>>
      BY <1>1 DEF Look
    <2>3. ASSUME NEW pc \in {"fresh", "replaying"}, pc = "replaying" => scans[s] # NULL
          PROVE  RequestOK([req[r] EXCEPT !.pc = pc], scans)
      BY <1>0, <2>2, <2>3 DEF RequestOK, RequestState
    <2> QED BY <1>0, <2>1, <2>2, <2>3, RequestMoves DEF RequestOK
  <1>2. CASE ReadTicket(r)
    <2>1. req[r].pc = "fresh" /\ UNCHANGED <<scans, open, told, sends>>
      BY <1>2 DEF ReadTicket
    <2>2. PICK row \in RequestState :
            req' = [req EXCEPT ![r] = row] /\ RequestOK(row, scans)
      <3>1. CASE LogOnly(r)
        <4>1. PICK would \in Recorded :
                req' = [req EXCEPT ![r] = [req[r] EXCEPT !.pc = "logging", !.result = would]]
          BY <1>2, <3>1 DEF ReadTicket, Recorded, Refusal
        <4>2. RequestOK([req[r] EXCEPT !.pc = "logging", !.result = would], scans)
          BY <1>0, <2>1 DEF RequestOK, RequestState
        <4> QED BY <4>1, <4>2 DEF RequestOK
      <3>2. CASE ~LogOnly(r)
        <4>1. req' = [req EXCEPT ![r] = [req[r] EXCEPT !.pc = "locking"]]
          BY <1>2, <3>2 DEF ReadTicket
        <4>2. RequestOK([req[r] EXCEPT !.pc = "locking"], scans)
          BY <1>0, <2>1 DEF RequestOK, RequestState
        <4> QED BY <4>1, <4>2 DEF RequestOK
      <3> QED BY <3>1, <3>2
    <2> QED BY <1>0, <2>1, <2>2, RequestMoves
  <1>3. CASE LockPass(r)
    <2>1. req[r].pc = "locking" /\ UNCHANGED <<scans, open, told, sends>>
      BY <1>3 DEF LockPass
    <2>2. CASE passState[PassOf(s)] = "active"
      <3>1. req' = [req EXCEPT ![r] = [req[r] EXCEPT !.pc = "checking"]]
        BY <1>3, <2>2 DEF LockPass
      <3>2. RequestOK([req[r] EXCEPT !.pc = "checking"], scans)
        BY <1>0, <2>1 DEF RequestOK, RequestState, InTransaction
      <3> QED BY <1>0, <2>1, <3>1, <3>2, RequestMoves DEF RequestOK
    <2>3. CASE passState[PassOf(s)] # "active"
      <3>1. req' = [req EXCEPT ![r] = Idle]
        BY <1>3, <2>3 DEF LockPass
      <3> QED BY <2>1, <3>1, RequestEnds
    <2> QED BY <2>2, <2>3
  <1>4. CASE CheckIn(r)
    <2>1. req[r].pc \in {"checking", "retrying"} /\ UNCHANGED <<open, sends>>
      BY <1>4 DEF CheckIn
    <2>2. CASE ScanIdFree(s)
      <3>1. Reply(r, "admitted") /\ "admitted" \in Answer
        BY <1>4, <2>2 DEF CheckIn, Answer, Recorded
      <3> QED BY <2>1, <3>1, RequestEnds
    <2>3. CASE ~ScanIdFree(s)
      <3>1. /\ req' = [req EXCEPT ![r] = [req[r] EXCEPT !.pc = "replaying"]]
            /\ UNCHANGED <<scans, told>>
        BY <1>4, <2>3 DEF CheckIn, Goto
      <3>2. RequestOK([req[r] EXCEPT !.pc = "replaying"], scans)
        BY <1>0, <2>1, <2>3 DEF RequestOK, RequestState, ScanIdFree
      <3> QED BY <1>0, <2>1, <3>1, <3>2, RequestMoves DEF RequestOK
    <2> QED BY <2>2, <2>3
  <1>5. CASE MissCheckIn(r)
    <2>1. PICK pc \in {"missed", "missed_again"} :
            req' = [req EXCEPT ![r] = [req[r] EXCEPT !.pc = pc]]
      BY <1>5 DEF MissCheckIn, Goto
    <2>2. req[r].pc \in {"checking", "retrying"} /\ UNCHANGED <<scans, open, told, sends>>
      BY <1>5 DEF MissCheckIn
    <2>3. RequestOK([req[r] EXCEPT !.pc = pc], scans)
      BY <1>0, <2>2 DEF RequestOK, RequestState, InTransaction
    <2> QED BY <1>0, <2>1, <2>2, <2>3, RequestMoves DEF RequestOK
  <1>6. CASE ReRead(r)
    <2>1. req[r].pc \in {"missed", "missed_again"} /\ UNCHANGED <<scans, open, told, sends>>
      BY <1>6 DEF ReRead
    <2>2. \/ req' = [req EXCEPT ![r] = [req[r] EXCEPT !.pc = "retrying"]]
          \/ \E res \in {"already_in", "cancelled"} :
               req' = [req EXCEPT ![r] = [req[r] EXCEPT !.pc = "refusing", !.result = res]]
      BY <1>6 DEF ReRead, Refusal
    <2>3. RequestOK([req[r] EXCEPT !.pc = "retrying"], scans)
      BY <1>0, <2>1 DEF RequestOK, RequestState, InTransaction
    <2>4. ASSUME NEW res \in {"already_in", "cancelled"}
          PROVE  RequestOK([req[r] EXCEPT !.pc = "refusing", !.result = res], scans)
      BY <1>0, <2>1 DEF RequestOK, RequestState, InTransaction, Recorded
    <2> QED BY <1>0, <2>1, <2>2, <2>3, <2>4, RequestMoves DEF RequestOK
  <1>7. CASE Record(r)
    <2>1. /\ req[r].pc \in {"logging", "refusing"} /\ req[r].result \in Recorded
          /\ UNCHANGED <<open, sends>>
      BY <1>7 DEF Record, TypeOK
    <2>2. CASE ScanIdFree(s)
      <3>1. Reply(r, req[r].result) /\ req[r].result \in Answer
        BY <1>7, <2>1, <2>2 DEF Record, Answer
      <3> QED BY <2>1, <3>1, RequestEnds
    <2>3. CASE ~ScanIdFree(s)
      <3>1. /\ req' = [req EXCEPT ![r] = [req[r] EXCEPT !.pc = "replaying"]]
            /\ UNCHANGED <<scans, told>>
        BY <1>7, <2>3 DEF Record, Goto
      <3>2. RequestOK([req[r] EXCEPT !.pc = "replaying"], scans)
        BY <1>0, <2>1, <2>3 DEF RequestOK, RequestState, ScanIdFree
      <3> QED BY <1>0, <2>1, <3>1, <3>2, RequestMoves DEF RequestOK
    <2> QED BY <2>2, <2>3
  <1>8. CASE Replay(r)
    <2>1. req[r].pc = "replaying" /\ UNCHANGED <<open, sends>>
      BY <1>8 DEF Replay
    <2>2. scans[s] \in ScanRow
      BY <1>0, <2>1 DEF TypeOK
    <2>3. \E a \in Answer : Reply(r, a)
      BY <1>8, <2>2 DEF Replay, Answer, ScanRow
    <2> QED BY <2>1, <2>3, RequestEnds
  <1>9. CASE Abort(r)
    <2>1. CASE req[r].pc # "idle"
      BY <1>9, <2>1, RequestEnds DEF Abort
    <2>2. CASE req[r].pc = "idle"
      <3>1. RequestOK(Idle, scans)
        BY DEF RequestOK, RequestState, Idle, Verdict
      <3> QED BY <1>0, <1>9, <3>1, RequestMoves DEF Abort, RequestOK
    <2> QED BY <2>1, <2>2
  <1> QED BY <1>1, <1>2, <1>3, <1>4, <1>5, <1>6, <1>7, <1>8, <1>9 DEF Work

\* An incoming request is well typed.
LEMMA ReceiveType ==
  ASSUME TypeOK, NEW r \in Request, NEW s \in ScanId, NEW v \in Verdict, Receive(r, s, v)
  PROVE  RequestsOK'
  <1> DEFINE row == [pc |-> "received", scan |-> s, verdict |-> v, practice |-> ~open,
                     result |-> NULL]
  <1>1. RequestOK(row, scans)
    BY DEF RequestOK, RequestState, TypeOK
  <1>2. req' = [req EXCEPT ![r] = row] /\ UNCHANGED <<scans, open, told>>
    BY DEF Receive
  <1>3. sends' \in 0 .. MaxSends
    BY BoundAssumption DEF Receive, TypeOK
  <1> HIDE DEF row
  <1> QED BY <1>1, <1>2, <1>3, RequestMoves DEF RequestOK

\* Every step keeps the types.
LEMMA NextType == TypeOK /\ [Next]_vars => TypeOK'
  <1> SUFFICES ASSUME TypeOK, [Next]_vars PROVE TypeOK'
    OBVIOUS
  <1>1. TablesOK' /\ \A s \in ScanId : scans[s] # NULL => scans'[s] # NULL
    BY TablesType
  <1>2. ASSUME NEW r \in Request, Work(r) \/ Abort(r)
        PROVE  RequestsOK'
    BY <1>1, <1>2, WorkType
  <1>3. ASSUME NEW r \in Request, NEW s \in ScanId, NEW v \in Verdict, Receive(r, s, v)
        PROVE  RequestsOK'
    BY <1>3, ReceiveType
  <1>4. ASSUME UNCHANGED <<req, sends, told, scans>>, open' = open \/ open' = TRUE
        PROVE  RequestsOK'
    <2>1. RequestsOK
      BY TypeParts
    <2>2. open' \in BOOLEAN
      BY <1>4, <2>1 DEF RequestsOK
    <2>3. /\ req' \in [Request -> RequestState] /\ sends' \in 0 .. MaxSends
          /\ told' \subseteq [scan : ScanId, verdict : Verdict, answer : Answer]
      BY <1>4, <2>1 DEF RequestsOK
    <2>4. \A r \in Request : RequestOK(req'[r], scans')
      BY <1>4, <2>1 DEF RequestsOK
    <2> QED BY <2>2, <2>3, <2>4 DEF RequestsOK
  <1>5. \/ \E r \in Request, s \in ScanId, v \in Verdict : Receive(r, s, v)
        \/ \E r \in Request : Work(r) \/ Abort(r)
        \/ UNCHANGED <<req, sends, told, scans>> /\ (open' = open \/ open' = TRUE)
    BY DEF Next, vars, UndoOwnAdmit, UndoCheckInAsAdmin, RevokePass, RevokeAndUndo,
           FinishRevoke, CancelTicket, OpenDoors
  <1>6. RequestsOK'
    BY <1>2, <1>3, <1>4, <1>5
  <1> QED BY <1>1, <1>6, TypePartsNext

\* Before anyone scans, everything is well typed.
LEMMA InitType == Init => TypeOK
  <1> SUFFICES ASSUME Init PROVE TypeOK
    OBVIOUS
  <1>1. TablesOK
    <2>1. trail \in [Ticket -> Seq(CheckInRow)]
      BY DEF Init
    <2> QED BY <2>1 DEF Init, TablesOK
  <1>2. Idle \in RequestState /\ Idle.pc = "idle"
    BY DEF Idle, RequestState, Verdict
  <1>3. req \in [Request -> RequestState] /\ \A r \in Request : req[r].pc = "idle"
    BY <1>2 DEF Init
  <1>4. \A r \in Request : RequestOK(req[r], scans)
    BY <1>3 DEF RequestOK
  <1>5. sends \in 0 .. MaxSends
    BY BoundAssumption DEF Init
  <1>6. RequestsOK
    BY <1>3, <1>4, <1>5 DEF RequestsOK, Init
  <1> QED BY <1>1, <1>6, TypeParts

\* The tables of the gate, its requests and its answers keep their types: a
\* request at work has a scan, one about to answer has an answer to give, and
\* one that replays has a row to replay.
THEOREM TypeCorrect == Spec => []TypeOK
  BY InitType, NextType, PTL DEF Spec

-----------------------------------------------------------------------------
(* The inductive invariant.                                                *)

\* A ticket that is in is in by a scan of its own, recorded as admitted.
TicketRows ==
  \A k \in Ticket :
    ticket[k].by # NULL =>
      /\ TicketOf(ticket[k].by) = k
      /\ scans[ticket[k].by] # NULL
      /\ scans[ticket[k].by].result = "admitted"

\* The pass a transaction has locked can be neither revoked nor in revocation.
PassesLocked ==
  \A r \in Request :
    req[r].pc \in InTransaction =>
      /\ passState[PassOf(req[r].scan)] = "active"
      /\ PassOf(req[r].scan) \notin revoking

\* A revoke-and-undo in progress has read every check-in that stands by its pass.
RevocationsComplete ==
  \A k \in Ticket :
    ticket[k].by # NULL /\ PassOf(ticket[k].by) \in revoking =>
      ticket[k].by \in standing[PassOf(ticket[k].by)]

\* A request that is about to be recorded without a check-in says so, and one
\* that may check in was not undone at the door.
RequestsMeanIt ==
  \A r \in Request :
    /\ req[r].pc \in {"logging", "refusing"} => req[r].result # "admitted"
    /\ req[r].pc \in InTransaction \cup {"locking"} => req[r].verdict # "undone"

\* No scan that was undone at the door is recorded as admitted.
UndoneRowsRefuse ==
  \A s \in ScanId :
    scans[s] # NULL /\ scans[s].verdict = "undone" => scans[s].result # "admitted"

\* Whatever a phone was told, a conflict apart, is what the scan's row says.
AnswersFromRows ==
  \A m \in told :
    m.answer # "scan_id_conflict" =>
      /\ scans[m.scan] # NULL
      /\ scans[m.scan].verdict = m.verdict
      /\ \/ m.answer = scans[m.scan].result
         \/ m.answer = "rescan" /\ scans[m.scan].result = "admitted"

\* The requests first: what a transaction holds and what it means to do.
LEMMA NextRequests ==
  ASSUME TypeOK, PassesLocked, RequestsMeanIt, [Next]_vars
  PROVE  PassesLocked' /\ RequestsMeanIt'
  <1>0. /\ req \in [Request -> RequestState]
        /\ passState \in [Pass -> {"active", "revoked", "cleared"}]
        /\ \A r \in Request : req[r].pc \in InTransaction => PassOf(req[r].scan) \in Pass
    BY ScanParts DEF TypeOK, InTransaction
  <1>1. CASE UNCHANGED vars
    BY <1>1 DEF vars, PassesLocked, RequestsMeanIt
  <1>2. ASSUME NEW r \in Request, NEW s \in ScanId, NEW v \in Verdict, Receive(r, s, v)
        PROVE  PassesLocked' /\ RequestsMeanIt'
    BY <1>0, <1>2 DEF Receive, PassesLocked, RequestsMeanIt, InTransaction
  <1>3. ASSUME NEW r \in Request, Work(r) \/ Abort(r)
        PROVE  PassesLocked' /\ RequestsMeanIt'
    <2> DEFINE p == PassOf(req[r].scan)
    <2>1. UNCHANGED <<passState, revoking>>
      BY <1>3 DEF Work, Look, ReadTicket, LockPass, CheckIn, MissCheckIn, ReRead, Record,
                  Replay, Abort
    <2>2. \A q \in Request \ {r} : req'[q] = req[q]
      BY <1>0, <1>3 DEF Work, Look, ReadTicket, LockPass, CheckIn, MissCheckIn, ReRead,
                        Record, Replay, Abort, Goto, Reply
    <2>3. /\ req'[r].pc \in InTransaction => /\ req'[r].scan = req[r].scan
                                             /\ passState[p] = "active" /\ p \notin revoking
          /\ req'[r].pc \in {"logging", "refusing"} => req'[r].result # "admitted"
          /\ req'[r].pc \in InTransaction \cup {"locking"} => req'[r].verdict # "undone"
      <3>1. CASE Look(r)
        BY <1>0, <3>1 DEF Look, Goto, InTransaction, RequestState
      <3>2. CASE ReadTicket(r)
        BY <1>0, <3>2 DEF ReadTicket, LogOnly, Refusal, InTransaction, RequestState
      <3>3. CASE LockPass(r)
        BY <1>0, <3>3 DEF LockPass, InTransaction, RequestState, Idle, RequestsMeanIt
      <3>4. CASE CheckIn(r)
        BY <1>0, <3>4 DEF CheckIn, Goto, Reply, InTransaction, RequestState, Idle
      <3>5. CASE MissCheckIn(r)
        BY <1>0, <3>5
           DEF MissCheckIn, Goto, InTransaction, RequestState, RequestsMeanIt, PassesLocked
      <3>6. CASE ReRead(r)
        BY <1>0, <3>6
           DEF ReRead, Refusal, InTransaction, RequestState, RequestsMeanIt, PassesLocked
      <3>7. CASE Record(r)
        BY <1>0, <3>7 DEF Record, Goto, Reply, InTransaction, RequestState, Idle
      <3>8. CASE Replay(r)
        BY <1>0, <3>8 DEF Replay, Reply, InTransaction, Idle
      <3>9. CASE Abort(r)
        BY <1>0, <3>9 DEF Abort, InTransaction, Idle
      <3> QED BY <1>3, <3>1, <3>2, <3>3, <3>4, <3>5, <3>6, <3>7, <3>8, <3>9 DEF Work
    <2> QED BY <2>1, <2>2, <2>3 DEF PassesLocked, RequestsMeanIt
  <1>4. ASSUME NEW p \in Pass, RevokePass(p) \/ RevokeAndUndo(p) \/ FinishRevoke(p)
        PROVE  PassesLocked' /\ RequestsMeanIt'
    <2>1. req' = req
      BY <1>4 DEF RevokePass, RevokeAndUndo, FinishRevoke
    <2>2. \A r \in Request : req[r].pc \in InTransaction => PassOf(req[r].scan) # p
      BY <1>4 DEF RevokePass, RevokeAndUndo, FinishRevoke, Sharers, PassesLocked
    <2>3. \A u \in Pass \ {p} : /\ passState'[u] = passState[u]
                                /\ u \in revoking' => u \in revoking
      BY <1>0, <1>4 DEF RevokePass, RevokeAndUndo, FinishRevoke
    <2> QED BY <1>0, <2>1, <2>2, <2>3 DEF PassesLocked, RequestsMeanIt
  <1>5. CASE UNCHANGED <<req, passState, revoking>>
    BY <1>5 DEF PassesLocked, RequestsMeanIt
  <1> QED BY <1>1, <1>2, <1>3, <1>4, <1>5
          DEF Next, UndoOwnAdmit, UndoCheckInAsAdmin, CancelTicket, OpenDoors

\* What each kind of step does to the scan a ticket is in by.
LEMMA AdmitsRow ==
  ASSUME TypeOK, NEW r \in Request, Admits(r)
  PROVE  LET s == req[r].scan
             k == TicketOf(s)
         IN  /\ s \in ScanId /\ k \in Ticket /\ s # NULL
             /\ scans[s] = NULL
             /\ scans' = [scans EXCEPT ![s] =
                            [verdict |-> req[r].verdict, result |-> "admitted"]]
             /\ scans'[s] # NULL /\ scans'[s].result = "admitted"
             /\ ticket[k].live /\ ticket[k].by = NULL
             /\ ticket'[k].live = ticket[k].live /\ ticket'[k].by = s
             /\ \A j \in Ticket \ {k} : ticket'[j] = ticket[j]
  <1> DEFINE s == req[r].scan
             k == TicketOf(s)
  <1>1. s \in ScanId /\ k \in Ticket /\ s # NULL /\ req[r].verdict \in Verdict
    BY ScanParts, NullAssumption DEF Admits, TypeOK, RequestState
  <1>2. [verdict |-> req[r].verdict, result |-> "admitted"] \in ScanRow
    BY <1>1 DEF ScanRow, Recorded
  <1>3. /\ scans' = [scans EXCEPT ![s] = [verdict |-> req[r].verdict, result |-> "admitted"]]
        /\ scans[s] = NULL
    BY DEF Admits, InsertScan, ScanIdFree
  <1>4. scans'[s] # NULL /\ scans'[s].result = "admitted"
    <2>1. scans'[s] = [verdict |-> req[r].verdict, result |-> "admitted"]
      BY <1>1, <1>3 DEF TypeOK
    <2> QED BY <1>2, <2>1, NullAssumption
  <1>5. /\ ticket[k].live /\ ticket[k].by = NULL
        /\ ticket' = [ticket EXCEPT ![k].by = s]
    BY DEF Admits, Admissible
  <1>6. /\ ticket'[k].live = ticket[k].live /\ ticket'[k].by = s
        /\ \A j \in Ticket \ {k} : ticket'[j] = ticket[j]
    BY <1>1, <1>5 DEF TypeOK
  <1> QED BY <1>1, <1>3, <1>4, <1>5, <1>6

\* An undo puts out whoever is in by that scan, and nobody else.
LEMMA UndoRow ==
  ASSUME TypeOK, NEW s \in ScanId, Undo(s)
  PROVE  LET k == TicketOf(s)
         IN  /\ k \in Ticket
             /\ ticket[k].by = s
             /\ ticket'[k].live = ticket[k].live /\ ticket'[k].by = NULL
             /\ \A j \in Ticket \ {k} : ticket'[j] = ticket[j]
  <1>1. TicketOf(s) \in Ticket
    BY ScanParts
  <1> QED BY <1>1 DEF Undo, StandsBy, TypeOK

\* A finished revocation puts out those it had read who still stand.
LEMMA FinishRow ==
  ASSUME TypeOK, NEW p \in Pass, FinishRevoke(p), NEW k \in Ticket
  PROVE  LET goes == ticket[k].by \in standing[p] /\ StandsBy(ticket[k].by)
         IN  /\ ticket'[k].live = ticket[k].live
             /\ ticket'[k].by = IF goes THEN NULL ELSE ticket[k].by
             /\ trail'[k] = IF goes THEN Append(trail[k], [kind |-> "undone",
                                                           scan |-> ticket[k].by])
                                    ELSE trail[k]
  BY DEF FinishRevoke, TypeOK

\* A cancellation takes a ticket nobody is in by.
LEMMA CancelRow ==
  ASSUME TypeOK, NEW k \in Ticket, CancelTicket(k)
  PROVE  /\ ticket[k].by = NULL /\ ticket'[k].by = NULL
         /\ \A j \in Ticket \ {k} : ticket'[j] = ticket[j]
         /\ UNCHANGED <<passState, revoking, standing, scans, trail, req, told>>
  BY DEF CancelTicket, Admissible, TypeOK

\* The ticket rows and the passes: who is in, by which scan, and under which
\* revocation.
RowsInv ==
  TicketRows /\ AdmittedAreLive /\ RevocationsComplete /\ ClearedPassStandsNowhere

\* Every step keeps them.
LEMMA NextRows ==
  ASSUME TypeOK, TypeOK', PassesLocked, RowsInv, [Next]_vars
  PROVE  RowsInv'
  <1> USE DEF RowsInv
  <1>0. /\ \A k \in Ticket : ticket[k].by = NULL \/ ticket[k].by \in ScanId
        /\ \A s \in ScanId : scans[s] # NULL => scans'[s] = scans[s]
    BY TablesType DEF TypeOK
  <1>1. CASE UNCHANGED Tables
    BY <1>1 DEF Tables, TicketRows, AdmittedAreLive, RevocationsComplete,
                ClearedPassStandsNowhere
  <1>2. ASSUME NEW r \in Request, Admits(r)
        PROVE  RowsInv'
    <2> DEFINE s == req[r].scan
    <2>1. passState[PassOf(s)] = "active" /\ PassOf(s) \notin revoking
      BY <1>2 DEF Admits, PassesLocked, InTransaction
    <2>2. UNCHANGED <<passState, revoking, standing>>
      BY <1>2 DEF Admits
    <2>3. TicketRows'
      <3> SUFFICES ASSUME NEW k \in Ticket, ticket'[k].by # NULL
                   PROVE  /\ TicketOf(ticket'[k].by) = k
                          /\ scans'[ticket'[k].by] # NULL
                          /\ scans'[ticket'[k].by].result = "admitted"
        BY DEF TicketRows
      <3>1. CASE k = TicketOf(s)
        BY <1>2, <3>1, AdmitsRow
      <3>2. CASE k # TicketOf(s)
        <4>1. ticket'[k] = ticket[k]
          BY <1>2, <3>2, AdmitsRow
        <4> HIDE DEF s
        <4> QED BY <1>0, <4>1 DEF TicketRows
      <3> QED BY <3>1, <3>2
    <2>4. AdmittedAreLive'
      BY <1>2, AdmitsRow DEF AdmittedAreLive
    <2>5. \A k \in Ticket : ticket'[k].by = s \/ ticket'[k] = ticket[k]
      BY <1>2, AdmitsRow
    <2> HIDE DEF s
    <2>6. RevocationsComplete'
      BY <2>1, <2>2, <2>5 DEF RevocationsComplete
    <2>7. ClearedPassStandsNowhere'
      BY <2>1, <2>2, <2>5 DEF ClearedPassStandsNowhere
    <2> QED BY <2>3, <2>4, <2>6, <2>7
  <1>3. ASSUME NEW r \in Request, Records(r)
        PROVE  RowsInv'
    <2>1. UNCHANGED <<ticket, passState, revoking, standing>>
      BY <1>3 DEF Records
    <2>2. TicketRows'
      BY <1>0, <2>1 DEF TicketRows
    <2> QED BY <2>1, <2>2 DEF AdmittedAreLive, RevocationsComplete, ClearedPassStandsNowhere
  <1>4. ASSUME NEW s \in ScanId, Undo(s),
               UNCHANGED <<passState, revoking, standing, scans, req, told>>
        PROVE  RowsInv'
    BY <1>4, UndoRow
       DEF TicketRows, AdmittedAreLive, RevocationsComplete, ClearedPassStandsNowhere
  <1>5. ASSUME NEW p \in Pass, RevokePass(p)
        PROVE  RowsInv'
    <2>1. /\ UNCHANGED <<ticket, revoking, standing, scans>>
          /\ \A u \in Pass : passState'[u] = "cleared" => passState[u] = "cleared"
      BY <1>5 DEF RevokePass, TypeOK
    <2>2. ClearedPassStandsNowhere'
      BY <1>0, <2>1, ScanParts DEF ClearedPassStandsNowhere
    <2> QED BY <2>1, <2>2 DEF TicketRows, AdmittedAreLive, RevocationsComplete
  <1>6. ASSUME NEW p \in Pass, RevokeAndUndo(p)
        PROVE  RowsInv'
    <2>1. /\ UNCHANGED <<ticket, passState, scans>>
          /\ revoking' = revoking \cup {p}
          /\ standing'[p] = StandingOf(p)
          /\ \A u \in Pass \ {p} : standing'[u] = standing[u]
      BY <1>6 DEF RevokeAndUndo, TypeOK
    <2>2. RevocationsComplete'
      <3> SUFFICES ASSUME NEW k \in Ticket, ticket[k].by # NULL,
                          PassOf(ticket[k].by) \in revoking \cup {p}
                   PROVE  ticket[k].by \in standing'[PassOf(ticket[k].by)]
        BY <2>1 DEF RevocationsComplete
      <3>1. ticket[k].by \in ScanId /\ PassOf(ticket[k].by) \in Pass
        BY <1>0, ScanParts
      <3>2. CASE PassOf(ticket[k].by) = p
        <4>1. StandsBy(ticket[k].by)
          BY DEF StandsBy, TicketRows
        <4> QED BY <2>1, <3>1, <3>2, <4>1 DEF StandingOf
      <3>3. CASE PassOf(ticket[k].by) # p
        BY <2>1, <3>1, <3>3 DEF RevocationsComplete
      <3> QED BY <3>2, <3>3
    <2> QED BY <2>1, <2>2 DEF TicketRows, AdmittedAreLive, ClearedPassStandsNowhere
  <1>7. ASSUME NEW p \in Pass, FinishRevoke(p)
        PROVE  RowsInv'
    <2>1. /\ p \in revoking /\ revoking' = revoking \ {p}
          /\ \A u \in Pass \ {p} : /\ standing'[u] = standing[u]
                                   /\ passState'[u] = passState[u]
          /\ scans' = scans
      BY <1>7 DEF FinishRevoke, TypeOK
    <2>2. ASSUME NEW k \in Ticket, ticket'[k].by # NULL
          PROVE  /\ ticket'[k].by = ticket[k].by /\ ticket'[k].live = ticket[k].live
                 /\ ticket[k].by \in ScanId /\ PassOf(ticket[k].by) \in Pass \ {p}
      <3>1. ticket'[k].by = ticket[k].by /\ ticket'[k].live = ticket[k].live
        BY <1>7, <2>2, FinishRow
      <3>2. ticket[k].by \in ScanId
        BY <1>0, <2>2, <3>1
      <3>3. StandsBy(ticket[k].by)
        BY <2>2, <3>1 DEF StandsBy, TicketRows
      <3>4. PassOf(ticket[k].by) # p
        BY <1>7, <2>1, <2>2, <3>1, <3>3, FinishRow DEF RevocationsComplete
      <3> QED BY <3>1, <3>2, <3>4, ScanParts
    <2>3. TicketRows'
      BY <2>1, <2>2 DEF TicketRows
    <2>4. AdmittedAreLive'
      BY <2>2 DEF AdmittedAreLive
    <2>5. RevocationsComplete'
      BY <2>1, <2>2 DEF RevocationsComplete
    <2>6. ClearedPassStandsNowhere'
      BY <2>1, <2>2 DEF ClearedPassStandsNowhere
    <2> QED BY <2>3, <2>4, <2>5, <2>6
  <1>8. ASSUME NEW k \in Ticket, CancelTicket(k)
        PROVE  RowsInv'
    BY <1>8, CancelRow
       DEF TicketRows, AdmittedAreLive, RevocationsComplete, ClearedPassStandsNowhere
  <1> QED BY <1>1, <1>2, <1>3, <1>4, <1>5, <1>6, <1>7, <1>8, StepKinds

-----------------------------------------------------------------------------
(* The audit trail.                                                        *)

\* Check-ins and undos in turn, each undo of the check-in before it, and "by"
\* whoever the last row leaves inside.
Alternates(q, by) ==
  /\ \A i \in 1 .. Len(q) : /\ q[i].kind = (IF i % 2 = 1 THEN "in" ELSE "undone")
                            /\ i % 2 = 0 => q[i].scan = q[i - 1].scan
  /\ by = (IF Len(q) % 2 = 1 THEN q[Len(q)].scan ELSE NULL)

\* A check-in of a ticket nobody is in by.
LEMMA InAlternates ==
  ASSUME NEW q \in Seq(CheckInRow), NEW s \in ScanId, Alternates(q, NULL)
  PROVE  Alternates(Append(q, [kind |-> "in", scan |-> s]), s)
  <1> DEFINE n == Len(q)
             a == Append(q, [kind |-> "in", scan |-> s])
  <1>1. /\ n \in Nat /\ Len(a) = n + 1
        /\ a[n + 1] = [kind |-> "in", scan |-> s]
        /\ \A i \in 1 .. n : a[i] = q[i]
    BY AppendProperties DEF CheckInRow
  <1>2. n % 2 = 0
    <2>1. n % 2 = 1 => n \in 1 .. n /\ q[n] \in CheckInRow
      BY <1>1
    <2>2. n % 2 # 1
      BY <1>1, <2>1, NullAssumption DEF Alternates, CheckInRow
    <2> QED BY <1>1, <2>2
  <1>3. (n + 1) % 2 = 1
    BY <1>1, <1>2
  <1>4. ASSUME NEW i \in 1 .. n + 1
        PROVE  /\ a[i].kind = (IF i % 2 = 1 THEN "in" ELSE "undone")
               /\ i % 2 = 0 => a[i].scan = a[i - 1].scan
    <2>1. CASE i = n + 1
      BY <1>1, <1>3, <2>1
    <2>2. CASE i # n + 1
      <3>1. i \in 1 .. n /\ (i % 2 = 0 => i - 1 \in 1 .. n)
        BY <1>1, <2>2
      <3>2. /\ q[i].kind = (IF i % 2 = 1 THEN "in" ELSE "undone")
            /\ i % 2 = 0 => q[i].scan = q[i - 1].scan
        BY <3>1 DEF Alternates
      <3> HIDE DEF a, n
      <3> QED BY <1>1, <3>1, <3>2
    <2> QED BY <2>1, <2>2
  <1> HIDE DEF a, n
  <1>5. Alternates(a, s)
    BY <1>1, <1>3, <1>4 DEF Alternates
  <1> QED BY <1>5 DEF a

\* An undo of the check-in that stands.
LEMMA UndoAlternates ==
  ASSUME NEW q \in Seq(CheckInRow), NEW s \in ScanId, Alternates(q, s)
  PROVE  Alternates(Append(q, [kind |-> "undone", scan |-> s]), NULL)
  <1> DEFINE n == Len(q)
             a == Append(q, [kind |-> "undone", scan |-> s])
  <1>1. /\ n \in Nat /\ Len(a) = n + 1
        /\ a[n + 1] = [kind |-> "undone", scan |-> s]
        /\ \A i \in 1 .. n : a[i] = q[i]
    BY AppendProperties
  <1>2. n % 2 = 1 /\ q[n].scan = s
    BY <1>1, NullAssumption DEF Alternates
  <1>3. (n + 1) % 2 = 0 /\ n \in 1 .. n
    BY <1>1, <1>2
  <1>4. ASSUME NEW i \in 1 .. n + 1
        PROVE  /\ a[i].kind = (IF i % 2 = 1 THEN "in" ELSE "undone")
               /\ i % 2 = 0 => a[i].scan = a[i - 1].scan
    <2>1. CASE i = n + 1
      <3>1. a[i - 1] = q[n] /\ i % 2 = 0
        BY <1>1, <1>3, <2>1
      <3> HIDE DEF a, n
      <3> QED BY <1>1, <1>2, <2>1, <3>1
    <2>2. CASE i # n + 1
      <3>1. i \in 1 .. n /\ (i % 2 = 0 => i - 1 \in 1 .. n)
        BY <1>1, <2>2
      <3>2. /\ q[i].kind = (IF i % 2 = 1 THEN "in" ELSE "undone")
            /\ i % 2 = 0 => q[i].scan = q[i - 1].scan
        BY <3>1 DEF Alternates
      <3> HIDE DEF a, n
      <3> QED BY <1>1, <3>1, <3>2
    <2> QED BY <2>1, <2>2
  <1> HIDE DEF a, n
  <1>5. Alternates(a, NULL)
    BY <1>1, <1>3, <1>4 DEF Alternates
  <1> QED BY <1>5 DEF a

\* The trail of every ticket, said with Alternates.
LEMMA TrailAlternates ==
  /\ TrailMatchesTicket <=> \A k \in Ticket : Alternates(trail[k], ticket[k].by)
  /\ TrailMatchesTicket' <=> \A k \in Ticket : Alternates(trail'[k], ticket'[k].by)
  BY DEF TrailMatchesTicket, Alternates

\* Every step keeps the trail and the ticket rows together.
LEMMA NextTrail ==
  ASSUME TypeOK, TicketRows, TrailMatchesTicket, [Next]_vars
  PROVE  TrailMatchesTicket'
  <1> SUFFICES ASSUME NEW k \in Ticket
               PROVE  Alternates(trail'[k], ticket'[k].by)
    BY TrailAlternates
  <1>0. Alternates(trail[k], ticket[k].by) /\ trail[k] \in Seq(CheckInRow)
    BY TrailAlternates DEF TypeOK
  <1>1. CASE trail'[k] = trail[k] /\ ticket'[k].by = ticket[k].by
    BY <1>0, <1>1
  <1>2. ASSUME NEW r \in Request, Admits(r)
        PROVE  Alternates(trail'[k], ticket'[k].by)
    <2> DEFINE s == req[r].scan
    <2>1. CASE k = TicketOf(s)
      <3>1. /\ s \in ScanId /\ ticket[k].by = NULL /\ ticket'[k].by = s
            /\ trail'[k] = Append(trail[k], [kind |-> "in", scan |-> s])
        <4>1. trail' = [trail EXCEPT ![k] = Append(@, [kind |-> "in", scan |-> s])]
          BY <1>2, <2>1 DEF Admits
        <4> QED BY <1>2, <2>1, <4>1, AdmitsRow DEF TypeOK
      <3> HIDE DEF s
      <3> QED BY <1>0, <3>1, InAlternates
    <2>2. CASE k # TicketOf(s)
      <3>1. trail'[k] = trail[k] /\ ticket'[k] = ticket[k]
        BY <1>2, <2>2, AdmitsRow DEF Admits, TypeOK
      <3> QED BY <1>0, <3>1
    <2> QED BY <2>1, <2>2
  <1>3. ASSUME NEW s \in ScanId, Undo(s)
        PROVE  Alternates(trail'[k], ticket'[k].by)
    <2>1. CASE k = TicketOf(s)
      <3>1. /\ ticket[k].by = s /\ ticket'[k].by = NULL
            /\ trail'[k] = Append(trail[k], [kind |-> "undone", scan |-> s])
        BY <1>3, <2>1, UndoRow DEF Undo, TypeOK
      <3> QED BY <1>0, <3>1, UndoAlternates
    <2>2. CASE k # TicketOf(s)
      <3>1. trail'[k] = trail[k] /\ ticket'[k] = ticket[k]
        BY <1>3, <2>2, UndoRow DEF Undo, TypeOK
      <3> QED BY <1>0, <3>1
    <2> QED BY <2>1, <2>2
  <1>4. ASSUME NEW p \in Pass, FinishRevoke(p)
        PROVE  Alternates(trail'[k], ticket'[k].by)
    <2>1. CASE ticket[k].by \in standing[p] /\ StandsBy(ticket[k].by)
      <3>1. /\ ticket[k].by \in ScanId /\ ticket'[k].by = NULL
            /\ trail'[k] = Append(trail[k], [kind |-> "undone", scan |-> ticket[k].by])
        BY <1>4, <2>1, FinishRow DEF TypeOK
      <3> QED BY <1>0, <3>1, UndoAlternates
    <2>2. CASE ~(ticket[k].by \in standing[p] /\ StandsBy(ticket[k].by))
      BY <1>0, <1>4, <2>2, FinishRow
    <2> QED BY <2>1, <2>2
  <1>5. ASSUME NEW j \in Ticket, CancelTicket(j)
        PROVE  trail'[k] = trail[k] /\ ticket'[k].by = ticket[k].by
    BY <1>5, CancelRow
  <1> QED BY <1>1, <1>2, <1>3, <1>4, <1>5, StepKinds
          DEF Tables, Records, RevokePass, RevokeAndUndo

-----------------------------------------------------------------------------
(* Scans and answers.                                                      *)

\* The places of a sequence where x stands.
Places(q, x) == {i \in DOMAIN q : q[i] = x}

\* Appending adds a place only for the element appended.
LEMMA PlacesAppend ==
  ASSUME NEW q \in Seq(CheckInRow), NEW e \in CheckInRow, NEW x
  PROVE  Places(Append(q, e), x) =
           IF e = x THEN Places(q, x) \cup {Len(q) + 1} ELSE Places(q, x)
  <1>1. /\ Len(q) \in Nat /\ Len(Append(q, e)) = Len(q) + 1
        /\ Append(q, e)[Len(q) + 1] = e
        /\ \A i \in 1 .. Len(q) : Append(q, e)[i] = q[i]
        /\ DOMAIN q = 1 .. Len(q) /\ DOMAIN Append(q, e) = 1 .. Len(q) + 1
    BY AppendProperties
  <1> QED BY <1>1 DEF Places

\* A scan's check-ins are places of its ticket's trail.
LEMMA AdmitsArePlaces ==
  ASSUME NEW s
  PROVE  /\ AdmitsBy(s) = Places(trail[TicketOf(s)], [kind |-> "in", scan |-> s])
         /\ AdmitsBy(s)' = Places(trail'[TicketOf(s)], [kind |-> "in", scan |-> s])
  BY DEF AdmitsBy, Places

\* There are finitely many.
LEMMA AdmitsFinite ==
  ASSUME TypeOK, NEW s \in ScanId
  PROVE  IsFiniteSet(AdmitsBy(s))
  <1>1. trail[TicketOf(s)] \in Seq(CheckInRow)
    BY ScanParts DEF TypeOK
  <1>2. DOMAIN trail[TicketOf(s)] = 1 .. Len(trail[TicketOf(s)])
        /\ Len(trail[TicketOf(s)]) \in Nat
    BY <1>1
  <1>3. IsFiniteSet(DOMAIN trail[TicketOf(s)])
    BY <1>2, FS_Interval
  <1> QED BY <1>3, FS_Subset DEF AdmitsBy

\* Only a check-in of scan s adds to the check-ins of s.
LEMMA AdmitsMove ==
  ASSUME TypeOK, TicketRows, [Next]_vars, NEW s \in ScanId
  PROVE  \/ AdmitsBy(s)' = AdmitsBy(s) /\ \A r \in Request : Admits(r) => req[r].scan # s
         \/ \E r \in Request :
              /\ Admits(r) /\ req[r].scan = s
              /\ AdmitsBy(s)' = AdmitsBy(s) \cup {Len(trail[TicketOf(s)]) + 1}
  <1> DEFINE k == TicketOf(s)
             x == [kind |-> "in", scan |-> s]
  <1>0. k \in Ticket /\ trail[k] \in Seq(CheckInRow) /\ x \in CheckInRow
    BY ScanParts DEF TypeOK, CheckInRow
  <1>1. ASSUME trail'[k] = trail[k]
        PROVE  AdmitsBy(s)' = AdmitsBy(s)
    BY <1>1, AdmitsArePlaces
  <1>2. ASSUME NEW t, t \in ScanId,
               trail'[k] = Append(trail[k], [kind |-> "undone", scan |-> t])
        PROVE  AdmitsBy(s)' = AdmitsBy(s)
    <2>1. [kind |-> "undone", scan |-> t] \in CheckInRow
          /\ [kind |-> "undone", scan |-> t] # x
      BY <1>2 DEF CheckInRow
    <2> HIDE DEF x, k
    <2>2. Places(trail'[k], x) = Places(trail[k], x)
      BY <1>0, <1>2, <2>1, PlacesAppend
    <2> QED BY <2>2, AdmitsArePlaces DEF x, k
  <1>3. ASSUME NEW r \in Request, Admits(r)
        PROVE  \/ AdmitsBy(s)' = AdmitsBy(s) /\ req[r].scan # s
               \/ /\ req[r].scan = s
                  /\ AdmitsBy(s)' = AdmitsBy(s) \cup {Len(trail[k]) + 1}
    <2> DEFINE t == req[r].scan
               e == [kind |-> "in", scan |-> t]
    <2>1. CASE TicketOf(t) = k
      <3>1. trail'[k] = Append(trail[k], e) /\ e \in CheckInRow /\ (e = x <=> t = s)
        BY <1>0, <1>3, <2>1, AdmitsRow DEF Admits, TypeOK, CheckInRow
      <3> HIDE DEF x, e, k
      <3>2. e = x => Places(trail'[k], x) = Places(trail[k], x) \cup {Len(trail[k]) + 1}
        BY <1>0, <3>1, PlacesAppend
      <3>3. e # x => Places(trail'[k], x) = Places(trail[k], x)
        BY <1>0, <3>1, PlacesAppend
      <3>4. CASE t = s
        BY <3>1, <3>2, <3>4, AdmitsArePlaces DEF x, k
      <3>5. CASE t # s
        <4>1. Places(trail'[k], x) = Places(trail[k], x)
          BY <3>1, <3>3, <3>5
        <4>2. AdmitsBy(s)' = AdmitsBy(s)
          BY <4>1, AdmitsArePlaces DEF x, k
        <4> QED BY <3>5, <4>2
      <3> QED BY <3>4, <3>5
    <2>2. CASE TicketOf(t) # k
      <3>1. trail'[k] = trail[k]
        BY <1>0, <1>3, <2>2, AdmitsRow DEF Admits, TypeOK
      <3>2. AdmitsBy(s)' = AdmitsBy(s)
        BY <1>1, <3>1
      <3>3. req[r].scan # s
        BY <2>2
      <3> QED BY <3>2, <3>3
    <2> QED BY <2>1, <2>2
  <1>4. ASSUME NEW t \in ScanId, Undo(t)
        PROVE  AdmitsBy(s)' = AdmitsBy(s)
    <2>1. CASE TicketOf(t) = k
      <3>1. trail'[k] = Append(trail[k], [kind |-> "undone", scan |-> t])
        BY <1>0, <1>4, <2>1 DEF Undo, TypeOK
      <3> QED BY <1>2, <3>1
    <2>2. CASE TicketOf(t) # k
      <3>1. trail'[k] = trail[k]
        BY <1>0, <1>4, <2>2, UndoRow DEF Undo, TypeOK
      <3> QED BY <1>1, <3>1
    <2> QED BY <2>1, <2>2
  <1>5. ASSUME NEW p \in Pass, FinishRevoke(p)
        PROVE  AdmitsBy(s)' = AdmitsBy(s)
    <2>1. \/ trail'[k] = trail[k]
          \/ /\ ticket[k].by \in ScanId
             /\ trail'[k] = Append(trail[k], [kind |-> "undone", scan |-> ticket[k].by])
      BY <1>0, <1>5, FinishRow DEF TypeOK
    <2> QED BY <1>1, <1>2, <2>1
  <1>6. ASSUME NEW j \in Ticket, CancelTicket(j)
        PROVE  trail'[k] = trail[k]
    BY <1>6, CancelRow
  <1>7. ASSUME \/ UNCHANGED Tables
               \/ \E r \in Request : Records(r)
               \/ \E p \in Pass : RevokePass(p) \/ RevokeAndUndo(p)
        PROVE  trail'[k] = trail[k]
    BY <1>7 DEF Tables, Records, RevokePass, RevokeAndUndo
  <1> QED BY <1>1, <1>3, <1>4, <1>5, <1>6, <1>7, StepKinds

\* A scan's row says admitted exactly once it has checked its ticket in.
LEMMA NextOnce ==
  ASSUME TypeOK, TicketRows, RequestsMeanIt, ScanAdmitsOnce, [Next]_vars
  PROVE  ScanAdmitsOnce'
  <1> SUFFICES ASSUME NEW s \in ScanId
               PROVE  Cardinality(AdmitsBy(s)') =
                        IF scans'[s] # NULL /\ scans'[s].result = "admitted" THEN 1 ELSE 0
    BY DEF ScanAdmitsOnce
  <1>0. Cardinality(AdmitsBy(s)) =
          IF scans[s] # NULL /\ scans[s].result = "admitted" THEN 1 ELSE 0
    BY DEF ScanAdmitsOnce
  <1>1. CASE \E r \in Request :
               /\ Admits(r) /\ req[r].scan = s
               /\ AdmitsBy(s)' = AdmitsBy(s) \cup {Len(trail[TicketOf(s)]) + 1}
    <2>1. PICK r \in Request :
            /\ Admits(r) /\ req[r].scan = s
            /\ AdmitsBy(s)' = AdmitsBy(s) \cup {Len(trail[TicketOf(s)]) + 1}
      BY <1>1
    <2>2. scans[s] = NULL /\ scans'[s] # NULL /\ scans'[s].result = "admitted"
      BY <2>1, AdmitsRow
    <2>3. AdmitsBy(s) = {}
      BY <1>0, <2>2, AdmitsFinite, FS_EmptySet
    <2> DEFINE n == Len(trail[TicketOf(s)]) + 1
    <2>4. AdmitsBy(s)' = {n}
      BY <2>1, <2>3
    <2> HIDE DEF n
    <2>5. Cardinality({n}) = 1
      BY FS_Singleton
    <2>6. Cardinality(AdmitsBy(s)') = 1
      BY <2>4, <2>5
    <2> QED BY <2>2, <2>6
  <1>2. CASE AdmitsBy(s)' = AdmitsBy(s) /\ \A r \in Request : Admits(r) => req[r].scan # s
    <2>1. CASE scans'[s] = scans[s]
      BY <1>0, <1>2, <2>1
    <2>2. CASE scans'[s] # scans[s]
      <3>1. scans[s] = NULL
        BY <2>2, TablesType
      <3>2. PICK r \in Request : Admits(r) \/ Records(r)
        BY <2>2, StepKinds DEF Tables, RevokePass, RevokeAndUndo, FinishRevoke, CancelTicket
      <3>3. ~Admits(r)
        BY <1>2, <2>2, AdmitsRow DEF TypeOK
      <3>4. /\ req[r].pc \in {"logging", "refusing"}
            /\ scans' = [scans EXCEPT ![req[r].scan] =
                           [verdict |-> req[r].verdict, result |-> req[r].result]]
        BY <3>2, <3>3 DEF Records, InsertScan
      <3>5. scans'[s].result # "admitted"
        <4>1. scans'[s] = [verdict |-> req[r].verdict, result |-> req[r].result]
          BY <2>2, <3>4 DEF TypeOK
        <4> QED BY <3>4, <4>1 DEF RequestsMeanIt
      <3> QED BY <1>0, <1>2, <3>1, <3>5
    <2> QED BY <2>1, <2>2
  <1> QED BY <1>1, <1>2, AdmitsMove

\* A scan row that is new says what its request said.
LEMMA NewRow ==
  ASSUME TypeOK, [Next]_vars, NEW s \in ScanId, scans'[s] # scans[s]
  PROVE  \E r \in Request :
           /\ req[r].scan = s
           /\ \/ Admits(r) /\ scans'[s] = [verdict |-> req[r].verdict, result |-> "admitted"]
              \/ Records(r) /\ scans'[s] = [verdict |-> req[r].verdict, result |-> req[r].result]
  <1>1. PICK r \in Request : Admits(r) \/ Records(r)
    BY StepKinds DEF Tables, RevokePass, RevokeAndUndo, FinishRevoke, CancelTicket
  <1> QED BY <1>1 DEF Admits, Records, InsertScan, TypeOK

\* A scan that was undone at the door is never recorded as admitted.
LEMMA NextUndone ==
  ASSUME TypeOK, RequestsMeanIt, UndoneRowsRefuse, [Next]_vars
  PROVE  UndoneRowsRefuse'
  <1> SUFFICES ASSUME NEW s \in ScanId, scans'[s] # NULL, scans'[s].verdict = "undone"
               PROVE  scans'[s].result # "admitted"
    BY DEF UndoneRowsRefuse
  <1>1. CASE scans'[s] = scans[s]
    BY <1>1 DEF UndoneRowsRefuse
  <1>2. CASE scans'[s] # scans[s]
    <2>1. PICK r \in Request :
            /\ req[r].scan = s
            /\ \/ Admits(r) /\ scans'[s] = [verdict |-> req[r].verdict, result |-> "admitted"]
               \/ Records(r) /\ scans'[s] = [verdict |-> req[r].verdict,
                                             result |-> req[r].result]
      BY <1>2, NewRow
    <2>2. ~Admits(r)
      BY <2>1 DEF Admits, RequestsMeanIt, InTransaction
    <2> QED BY <2>1, <2>2 DEF Records, RequestsMeanIt
  <1> QED BY <1>1, <1>2

\* What a phone is told is what the row of its scan says from then on.
LEMMA NextAnswers ==
  ASSUME TypeOK, TypeOK', AnswersFromRows, [Next]_vars
  PROVE  AnswersFromRows'
  <1>0. /\ \A s \in ScanId : scans[s] # NULL => scans'[s] = scans[s]
        /\ \A m \in told : m.scan \in ScanId
    BY TablesType DEF TypeOK
  <1>1. CASE UNCHANGED told
    BY <1>0, <1>1 DEF AnswersFromRows
  <1>2. ASSUME NEW r \in Request, NEW a, Reply(r, a), req[r].scan \in ScanId,
               a # "scan_id_conflict" =>
                 /\ scans'[req[r].scan] # NULL
                 /\ scans'[req[r].scan].verdict = req[r].verdict
                 /\ \/ a = scans'[req[r].scan].result
                    \/ a = "rescan" /\ scans'[req[r].scan].result = "admitted"
        PROVE  AnswersFromRows'
    <2>1. told' = told \cup {[scan |-> req[r].scan, verdict |-> req[r].verdict, answer |-> a]}
      BY <1>2 DEF Reply
    <2> QED BY <1>0, <1>2, <2>1 DEF AnswersFromRows
  <1>3. ASSUME NEW r \in Request, Work(r) \/ Abort(r)
        PROVE  AnswersFromRows'
    <2> DEFINE s == req[r].scan
    <2>1. CASE CheckIn(r) \/ Record(r)
      <3>1. s \in ScanId
        BY <2>1 DEF CheckIn, Record, TypeOK
      <3>2. CASE ScanIdFree(s)
        <4>1. PICK a \in Recorded :
                Reply(r, a) /\ InsertScan(s, req[r].verdict, a)
          BY <2>1, <3>2 DEF CheckIn, Record, Recorded, TypeOK
        <4>2. /\ scans'[s].verdict = req[r].verdict /\ scans'[s].result = a
              /\ scans'[s] \in ScanRow
          BY <3>1, <4>1 DEF InsertScan, TypeOK, ScanRow, RequestState
        <4> QED BY <1>2, <3>1, <4>1, <4>2, NullAssumption
      <3>3. CASE ~ScanIdFree(s)
        BY <1>1, <2>1, <3>3 DEF CheckIn, Record
      <3> QED BY <3>2, <3>3
    <2>2. CASE Replay(r)
      <3>1. s \in ScanId /\ scans[s] # NULL /\ scans' = scans
        BY <2>2 DEF Replay, TypeOK
      <3>2. PICK a : /\ Reply(r, a)
                     /\ a = IF ~SameScan(req[r].verdict, scans[s]) THEN "scan_id_conflict"
                            ELSE IF scans[s].result = "admitted" /\ ~StandsBy(s) THEN "rescan"
                            ELSE scans[s].result
        BY <2>2 DEF Replay
      <3>3. a # "scan_id_conflict" =>
              /\ scans[s].verdict = req[r].verdict
              /\ a = scans[s].result \/ (a = "rescan" /\ scans[s].result = "admitted")
        BY <3>2 DEF SameScan
      <3> QED BY <1>2, <3>1, <3>2, <3>3
    <2> QED BY <1>1, <1>3, <2>1, <2>2
            DEF Work, Look, ReadTicket, LockPass, MissCheckIn, ReRead, Abort
  <1> QED BY <1>1, <1>3
          DEF Next, vars, Receive, UndoOwnAdmit, UndoCheckInAsAdmin, RevokePass,
              RevokeAndUndo, FinishRevoke, CancelTicket, OpenDoors

-----------------------------------------------------------------------------
(* The theorems.                                                           *)

\* No conjunct but the first is inductive alone.
GateInv ==
  /\ TypeOK
  /\ PassesLocked
  /\ RequestsMeanIt
  /\ RowsInv
  /\ TrailMatchesTicket
  /\ ScanAdmitsOnce
  /\ UndoneRowsRefuse
  /\ AnswersFromRows

\* Before anyone scans, all of it holds.
LEMMA InitGate == Init => GateInv
  <1> SUFFICES ASSUME Init PROVE GateInv
    OBVIOUS
  <1>1. TypeOK
    BY InitType
  <1>2. PassesLocked /\ RequestsMeanIt
    BY DEF Init, PassesLocked, RequestsMeanIt, Idle, InTransaction
  <1>3. RowsInv
    BY DEF Init, RowsInv, TicketRows, AdmittedAreLive, RevocationsComplete,
           ClearedPassStandsNowhere
  <1>4. \A k \in Ticket : trail[k] = <<>> /\ ticket[k].by = NULL
    BY DEF Init
  <1>5. TrailMatchesTicket
    <2>1. Alternates(<<>>, NULL)
      BY DEF Alternates
    <2> QED BY <1>4, <2>1, TrailAlternates
  <1>6. \A s \in ScanId : scans[s] = NULL /\ AdmitsBy(s) = {}
    BY <1>4, ScanParts DEF Init, AdmitsBy
  <1>7. ScanAdmitsOnce
    BY <1>6, FS_EmptySet DEF ScanAdmitsOnce
  <1>8. UndoneRowsRefuse /\ AnswersFromRows
    BY <1>6 DEF Init, UndoneRowsRefuse, AnswersFromRows
  <1> QED BY <1>1, <1>2, <1>3, <1>5, <1>7, <1>8 DEF GateInv

\* And every step keeps it.
LEMMA NextGate == GateInv /\ [Next]_vars => GateInv'
  <1> SUFFICES ASSUME GateInv, [Next]_vars PROVE GateInv'
    OBVIOUS
  <1> USE DEF GateInv
  <1>1. TypeOK'
    BY NextType
  <1>2. PassesLocked' /\ RequestsMeanIt'
    BY NextRequests
  <1>3. RowsInv'
    BY <1>1, NextRows
  <1>4. TrailMatchesTicket' /\ ScanAdmitsOnce'
    BY NextTrail, NextOnce DEF RowsInv
  <1>5. UndoneRowsRefuse' /\ AnswersFromRows'
    BY <1>1, NextUndone, NextAnswers
  <1> QED BY <1>1, <1>2, <1>3, <1>4, <1>5

\* What the gate keeps, as one invariant.
THEOREM GateKept == Spec => []GateInv
  BY InitGate, NextGate, PTL DEF Spec

\* No stale page, late retry or revocation ever takes back another check-in
\* than the one it means, and the ticket row is where its trail ends.
THEOREM TrailCorrect == Spec => []TrailMatchesTicket
  <1>1. GateInv => TrailMatchesTicket
    BY DEF GateInv
  <1> QED BY <1>1, GateKept, PTL

\* However many requests carry one scan at the same time, the ticket is checked
\* in by it at most once.
THEOREM AdmitsOnce == Spec => []ScanAdmitsOnce
  <1>1. GateInv => ScanAdmitsOnce
    BY DEF GateInv
  <1> QED BY <1>1, GateKept, PTL

\* Whoever is inside holds a live ticket.
THEOREM InsideAreLive == Spec => []AdmittedAreLive
  <1>1. GateInv => AdmittedAreLive
    BY DEF GateInv, RowsInv
  <1> QED BY <1>1, GateKept, PTL

\* Once revoke-and-undo has answered, nobody is inside on a check-in of that
\* pass: the list it undoes, read before, was complete.
THEOREM ClearedForGood == Spec => []ClearedPassStandsNowhere
  <1>1. GateInv => ClearedPassStandsNowhere
    BY DEF GateInv, RowsInv
  <1> QED BY <1>1, GateKept, PTL

\* A door that reported its admit as undone, and was told of no conflict, never
\* let anyone in by that scan.
THEOREM UndoneNeverAdmits == Spec => []UndoneScanNeverAdmits
  <1>1. GateInv => UndoneScanNeverAdmits
    <2> SUFFICES ASSUME GateInv, NEW m \in told, m.verdict = "undone",
                        m.answer # "scan_id_conflict"
                 PROVE  AdmitsBy(m.scan) = {}
      BY DEF UndoneScanNeverAdmits
    <2>1. m.scan \in ScanId
      BY DEF GateInv, TypeOK
    <2>2. scans[m.scan] # NULL /\ scans[m.scan].result # "admitted"
      BY <2>1 DEF GateInv, AnswersFromRows, UndoneRowsRefuse
    <2>3. Cardinality(AdmitsBy(m.scan)) = 0
      BY <2>1, <2>2 DEF GateInv, ScanAdmitsOnce
    <2> QED BY <2>1, <2>3, AdmitsFinite, FS_EmptySet DEF GateInv
  <1> QED BY <1>1, GateKept, PTL

\* Retries of one scan are never told two different things.
THEOREM AnswersAgree == Spec => []OneAnswerPerScan
  <1>1. GateInv => OneAnswerPerScan
    BY DEF GateInv, AnswersFromRows, OneAnswerPerScan
  <1> QED BY <1>1, GateKept, PTL

\* A check-in is only ever made under a pass that is active at its commit.
THEOREM RevokedAdmitsNobody == Spec => RevokedPassAdmitsNobody
  <1> DEFINE OneStep == \A k \in Ticket :
               Len(trail'[k]) > Len(trail[k]) /\ trail'[k][Len(trail'[k])].kind = "in" =>
                 passState[PassOf(trail'[k][Len(trail'[k])].scan)] = "active"
  <1>1. ASSUME GateInv, [Next]_vars
        PROVE  OneStep
    <2> SUFFICES ASSUME NEW k \in Ticket, Len(trail'[k]) > Len(trail[k]),
                        trail'[k][Len(trail'[k])].kind = "in"
                 PROVE  passState[PassOf(trail'[k][Len(trail'[k])].scan)] = "active"
      OBVIOUS
    <2>0. TypeOK /\ PassesLocked /\ trail[k] \in Seq(CheckInRow) /\ Len(trail[k]) \in Nat
      BY <1>1 DEF GateInv, TypeOK
    <2>1. trail'[k] # trail[k]
      BY <2>0
    <2>2. ASSUME NEW e \in CheckInRow, trail'[k] = Append(trail[k], e)
          PROVE  trail'[k][Len(trail'[k])] = e
      BY <2>0, <2>2, AppendProperties
    <2>3. ASSUME NEW s \in ScanId, trail'[k] = Append(trail[k], [kind |-> "undone", scan |-> s])
          PROVE  FALSE
      BY <2>2, <2>3 DEF CheckInRow
    <2>4. ASSUME NEW r \in Request, Admits(r)
          PROVE  passState[PassOf(trail'[k][Len(trail'[k])].scan)] = "active"
      <3> DEFINE s == req[r].scan
      <3>1. s \in ScanId /\ passState[PassOf(s)] = "active"
        BY <2>0, <2>4, AdmitsRow DEF Admits, PassesLocked, InTransaction
      <3>2. trail'[k] = Append(trail[k], [kind |-> "in", scan |-> s])
        BY <2>0, <2>1, <2>4 DEF Admits, TypeOK
      <3>3. [kind |-> "in", scan |-> s] \in CheckInRow
        BY <3>1 DEF CheckInRow
      <3>4. trail'[k][Len(trail'[k])].scan = s
        BY <2>2, <3>2, <3>3
      <3> QED BY <3>1, <3>4
    <2>5. ASSUME NEW s \in ScanId, Undo(s)
          PROVE  FALSE
      <3>1. trail'[k] = Append(trail[k], [kind |-> "undone", scan |-> s])
        BY <2>0, <2>1, <2>5 DEF Undo, TypeOK
      <3> QED BY <2>3, <3>1
    <2>6. ASSUME NEW p \in Pass, FinishRevoke(p)
          PROVE  FALSE
      <3>1. /\ ticket[k].by \in ScanId
            /\ trail'[k] = Append(trail[k], [kind |-> "undone", scan |-> ticket[k].by])
        BY <2>0, <2>1, <2>6, FinishRow DEF TypeOK
      <3> QED BY <2>3, <3>1
    <2> QED BY <1>1, <2>1, <2>4, <2>5, <2>6, StepKinds
            DEF Tables, Records, RevokePass, RevokeAndUndo, CancelTicket
  <1>2. GateInv /\ [Next]_vars => OneStep
    BY <1>1
  <1> QED BY <1>2, GateKept, PTL DEF Spec, RevokedPassAdmitsNobody
=============================================================================
