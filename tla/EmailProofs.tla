----------------------------- MODULE EmailProofs -----------------------------
(***************************************************************************)
(* Theorems about EmailQueue, for any number of resends, attempts, faults  *)
(* and jobs at a time.  The counts of an email hold because of how far its *)
(* job has got (Account); that news come in order, because an order never  *)
(* awaits money again once it has stopped to (NoWayBack).                  *)
(***************************************************************************)
EXTENDS EmailQueue, FiniteSetTheorems, SequenceTheorems, TLAPS

State == InWork \cup Done \cup {"absent", "waiting"}
JobRow == [state : State, made : Nat, knew : Nat]
Message == [job : Job, knew : Nat]

\* The variables' types.
Types ==
  /\ status \in Status /\ lapsed \in BOOLEAN /\ resends \in 0 .. MaxResends
  /\ hooks \subseteq Job /\ reporting \subseteq Job /\ unwritten \subseteq Job
  /\ job \in [Job -> JobRow]
  /\ mail \in Seq(Message)
  /\ rows \in [Job -> [Line -> Nat]]
  /\ lost \in [Job -> Nat]
  /\ faults \in 0 .. MaxFaults

\* The attempts made, by where a job is.
Attempts ==
  \A j \in Job : /\ job[j].made <= MaxAttempts
                 /\ job[j].state \notin Done => job[j].made < MaxAttempts

\* What is out and what is written of an email, by where its job is.
Out(j) == job[j].state \in {"accepted", "recorded"} \cup Done
Written(j) == job[j].state \in {"recorded"} \cup Done /\ j \notin reporting
Account(j) ==
  /\ rows[j]["sent"] <= Messages(j)
  /\ job[j].state = "accepted" => rows[j]["sent"] < Messages(j)
  /\ Messages(j) <= lost[j] + (IF Out(j) THEN 1 ELSE 0)
  /\ Lines(j) <= lost[j] + (IF Written(j) THEN 1 ELSE 0)
  /\ j \in reporting => job[j].state = "failed"

\* A resend's job or hook has its row.
Asked == \A j \in hooks \cup Queued : j[2] <= resends

Pending == {"pending_payment", "pending_verification"}
Instructs(j) == KindOf(j) = "payment-instructions"

\* News of an order's end is sent, or about to be, only if it has ended; and
\* instructions about to be sent were looked at before any such news was out.
NoWayBack ==
  /\ \A j \in Job : job[j].state = "ready" =>
       /\ job[j].knew <= Len(mail)
       /\ ~Instructs(j) => status \notin Pending
       /\ Instructs(j) => \A n \in DOMAIN mail : ~Instructs(mail[n].job) => job[j].knew < n
  /\ \A n \in DOMAIN mail : ~Instructs(mail[n].job) => status \notin Pending

IInv ==
  /\ Types /\ Attempts /\ Asked /\ NoWayBack /\ NewsInOrder
  /\ \A j \in Job : Account(j)
  /\ Cardinality(Working) <= Concurrency

-----------------------------------------------------------------------------
(* Facts about the data.                                                   *)

\* There are finitely many jobs.
LEMMA JobFinite == IsFiniteSet(Job)
<1>1. IsFiniteSet({0}) /\ IsFiniteSet({"tickets-issued"})
  BY FS_Singleton
<1>a. IsFiniteSet(Kind)
  <2>1. /\ IsFiniteSet({"payment-instructions"}) /\ IsFiniteSet({"rejected"})
        /\ IsFiniteSet({"expired"}) /\ IsFiniteSet({"tickets-issued"})
    BY FS_Singleton
  <2>2. IsFiniteSet({"payment-instructions"} \cup {"tickets-issued"})
    BY <2>1, FS_Union
  <2>3. IsFiniteSet({"rejected"} \cup {"expired"})
    BY <2>1, FS_Union
  <2>4. IsFiniteSet(({"payment-instructions"} \cup {"tickets-issued"}) \cup ({"rejected"} \cup {"expired"}))
    BY <2>2, <2>3, FS_Union
  <2>5. Kind = ({"payment-instructions"} \cup {"tickets-issued"}) \cup ({"rejected"} \cup {"expired"})
    BY DEF Kind
  <2> QED
    BY <2>4, <2>5
<1>2. IsFiniteSet(1 .. MaxResends)
  BY FS_Interval, BoundsAssumption
<1>3. IsFiniteSet(Kind \X {0}) /\ IsFiniteSet({"tickets-issued"} \X (1 .. MaxResends))
  BY <1>1, <1>a, <1>2, FS_Product
<1> QED
  BY <1>3, FS_Union DEF Job

\* One more message is one more of its job's and of no other's.
LEMMA OneMore ==
  ASSUME mail \in Seq(Message), NEW msg \in Message, mail' = Append(mail, msg), NEW k \in Job
  PROVE  /\ Messages(k) \in Nat
         /\ Messages(k)' = Messages(k) + (IF k = msg.job THEN 1 ELSE 0)
<1> DEFINE old == {n \in DOMAIN mail : mail[n].job = k}
           new == {n \in DOMAIN mail' : mail'[n].job = k}
           last == Len(mail) + 1
<1>1. /\ Len(mail) \in Nat /\ DOMAIN mail = 1 .. Len(mail)
      /\ DOMAIN mail' = 1 .. last
      /\ \A n \in 1 .. Len(mail) : mail'[n] = mail[n]
      /\ mail'[last] = msg
  BY LenProperties, AppendProperties
<1>2. IsFiniteSet(old)
  <2>1. IsFiniteSet(1 .. Len(mail)) /\ old \subseteq 1 .. Len(mail)
    BY <1>1, FS_Interval
  <2> QED
    BY <2>1, FS_Subset
<1>3. last \notin old
  BY <1>1
<1>4. new = IF k = msg.job THEN old \cup {last} ELSE old
  BY <1>1
<1>5. Cardinality(old) \in Nat /\ Cardinality(new) = Cardinality(old) + (IF k = msg.job THEN 1 ELSE 0)
  <2>1. Cardinality(old) \in Nat
    BY <1>2, FS_CardinalityType
  <2>2. Cardinality(old \cup {last}) = Cardinality(old) + 1
    BY <1>2, <1>3, FS_AddElement
  <2> HIDE DEF old, new
  <2> QED
    BY <2>1, <2>2, <1>4
<1> QED
  BY <1>5 DEF Messages

\* Goes: the job has its new state and has forgotten what it knew.
LEMMA GoesTo ==
  ASSUME job \in [Job -> JobRow], NEW j \in Job, NEW state \in State, Goes(j, state)
  PROVE  /\ job' \in [Job -> JobRow]
         /\ job'[j] = [state |-> state, made |-> job[j].made, knew |-> 0]
         /\ job'[j].state = state
         /\ \A k \in Job : k # j => job'[k] = job[k]
BY DEF Goes, At, JobRow

\* AttemptFails: the job has one attempt more, and is over with the last.
LEMMA FailedOnce ==
  ASSUME job \in [Job -> JobRow], reporting \subseteq Job, NEW j \in Job, AttemptFails(j)
  PROVE  /\ job' \in [Job -> JobRow]
         /\ job'[j] = [state |-> IF job[j].made + 1 >= MaxAttempts THEN "failed" ELSE "waiting",
                       made |-> job[j].made + 1, knew |-> 0]
         /\ job'[j].state = (IF job[j].made + 1 >= MaxAttempts THEN "failed" ELSE "waiting")
         /\ \A k \in Job : k # j => job'[k] = job[k]
         /\ reporting' = IF job[j].made + 1 >= MaxAttempts THEN reporting \cup {j} ELSE reporting
BY BoundsAssumption DEF AttemptFails, Final, Reports, At, JobRow, State, Done

\* Write: the email has one such line more.
LEMMA OneLine ==
  ASSUME rows \in [Job -> [Line -> Nat]], NEW j \in Job, NEW line \in Line, Write(j, line)
  PROVE  /\ rows' \in [Job -> [Line -> Nat]]
         /\ rows'[j][line] = rows[j][line] + 1
         /\ \A l \in Line : l # line => rows'[j][l] = rows[j][l]
         /\ \A k \in Job : k # j => rows'[k] = rows[k]
<1>1. rows[j] \in [Line -> Nat]
  OBVIOUS
<1>2. rows' = [rows EXCEPT ![j] = [rows[j] EXCEPT ![line] = rows[j][line] + 1]]
  BY DEF Write
<1>3. [rows[j] EXCEPT ![line] = rows[j][line] + 1] \in [Line -> Nat]
  BY <1>1
<1> QED
  BY <1>1, <1>2, <1>3

\* Accepted: the message is of the job and knows what its attempt knew.
LEMMA OneMessage ==
  ASSUME job \in [Job -> JobRow], mail \in Seq(Message), NEW j \in Job, Accepted(j)
  PROVE  /\ [job |-> j, knew |-> job[j].knew] \in Message
         /\ mail' = Append(mail, [job |-> j, knew |-> job[j].knew])
         /\ mail' \in Seq(Message)
<1>1. [job |-> j, knew |-> job[j].knew] \in Message
  BY DEF JobRow, Message
<1> QED
  BY <1>1, AppendProperties DEF Accepted

\* Crash: what was in work waits.
LEMMA Crashed ==
  ASSUME job \in [Job -> JobRow], lost \in [Job -> Nat], Crash
  PROVE  /\ job' \in [Job -> JobRow] /\ lost' \in [Job -> Nat]
         /\ \A k \in Job :
              /\ job'[k] = IF job[k].state \in InWork
                             THEN [state |-> "waiting", made |-> job[k].made, knew |-> 0] ELSE job[k]
              /\ job[k].state \in InWork => job'[k].state = "waiting"
              /\ lost'[k] = IF job[k].state \in {"accepted", "recorded"} THEN lost[k] + 1 ELSE lost[k]
<1>1. ASSUME NEW k \in Job
      PROVE  /\ job'[k] = IF job[k].state \in InWork
                            THEN [state |-> "waiting", made |-> job[k].made, knew |-> 0] ELSE job[k]
             /\ job[k].state \in InWork => job'[k].state = "waiting"
             /\ job'[k] \in JobRow
  <2>1. job[k] \in JobRow
    OBVIOUS
  <2> QED
    BY <2>1 DEF Crash, Working, At, JobRow, State
<1>2. job' = [k \in Job |-> job'[k]]
  BY DEF Crash
<1>3. job' \in [Job -> JobRow]
  BY <1>1, <1>2
<1>4. ASSUME NEW k \in Job
      PROVE  lost'[k] = IF job[k].state \in {"accepted", "recorded"} THEN lost[k] + 1 ELSE lost[k]
  BY DEF Crash
<1>5. lost' \in [Job -> Nat]
  BY DEF Crash
<1> QED
  BY <1>1, <1>3, <1>4, <1>5

-----------------------------------------------------------------------------
(* Types and attempts.                                                     *)

\* A step of one job that counts its attempts keeps everybody's.
LEMMA OthersStay ==
  ASSUME Attempts, NEW j \in Job, \A k \in Job : k # j => job'[k] = job[k],
         job'[j].made <= MaxAttempts, job'[j].state \notin Done => job'[j].made < MaxAttempts
  PROVE  Attempts'
BY DEF Attempts

\* Every action keeps the variables' types and counts its attempts.
LEMMA TypesKept == Types /\ Attempts /\ [Next]_vars => Types' /\ Attempts'
<1> SUFFICES ASSUME Types, Attempts, [Next]_vars PROVE Types' /\ Attempts'
  OBVIOUS
<1>1. ASSUME NEW to \in Status, OrderMoves(to)
      PROVE  Types' /\ Attempts'
  BY <1>1, BoundsAssumption DEF OrderMoves, order, history, Announced, Job, Kind, Types, Attempts
<1>2. ASSUME HoldLapses
      PROVE  Types' /\ Attempts'
  BY <1>2, BoundsAssumption DEF HoldLapses, order, history, Types, Attempts
<1>3. ASSUME Resend
      PROVE  Types' /\ Attempts'
  BY <1>3, BoundsAssumption DEF Resend, order, history, Job, Types, Attempts
<1>4. ASSUME Crash
      PROVE  Types' /\ Attempts'
  <2>1. /\ job' \in [Job -> JobRow] /\ lost' \in [Job -> Nat]
        /\ \A k \in Job :
             job'[k] = IF job[k].state \in InWork
                         THEN [state |-> "waiting", made |-> job[k].made, knew |-> 0] ELSE job[k]
    BY <1>4, Crashed DEF Types
  <2>2. Attempts'
    <3> SUFFICES ASSUME NEW k \in Job
                 PROVE  /\ job'[k].made <= MaxAttempts
                        /\ job'[k].state \notin Done => job'[k].made < MaxAttempts
      BY DEF Attempts
    <3>1. CASE job[k].state \in InWork
      BY <2>1, <3>1 DEF Attempts, InWork, Done
    <3>2. CASE job[k].state \notin InWork
      BY <2>1, <3>2 DEF Attempts
    <3> QED
      BY <3>1, <3>2
  <2>3. Types'
    BY <1>4, <2>1, BoundsAssumption DEF Crash, Types, order, history, Fault
  <2> QED
    BY <2>2, <2>3
<1>5. ASSUME NEW j \in hooks, Enqueue(j)
      PROVE  Types' /\ Attempts'
  <2>1. CASE j \in Queued
    BY <1>5, <2>1 DEF Enqueue, Types, Attempts, order, history
  <2>2. CASE j \notin Queued
    <3>1. job' = [job EXCEPT ![j] = [state |-> "waiting", made |-> 0, knew |-> 0]] /\ j \in Job
      BY <1>5, <2>2 DEF Enqueue, At, Types
    <3>2. job' \in [Job -> JobRow]
      BY <3>1 DEF Types, JobRow, State
    <3>3. Attempts'
      BY <3>1, <3>2, BoundsAssumption, OthersStay DEF Types, Attempts
    <3>4. Types'
      BY <1>5, <3>2 DEF Enqueue, Types, order, history
    <3> QED
      BY <3>3, <3>4
  <2> QED
    BY <2>1, <2>2
<1>6. ASSUME NEW j \in hooks, NotEnqueued(j)
      PROVE  Types' /\ Attempts'
  BY <1>6, BoundsAssumption DEF NotEnqueued, order, history, Types, Attempts
<1>7. ASSUME NEW j \in Job, Take(j)
      PROVE  Types' /\ Attempts'
  <2>1. /\ job' \in [Job -> JobRow] /\ job'[j] = [state |-> "active", made |-> job[j].made, knew |-> 0]
        /\ \A k \in Job : k # j => job'[k] = job[k]
    BY <1>7, GoesTo DEF Take, Types, JobRow, State, InWork, Done
  <2>a. job[j].state \notin Done /\ job[j].made \in Nat
    BY <1>7 DEF Take, Types, JobRow, Done
  <2>2. Attempts'
    BY <2>a, <2>1, OthersStay, BoundsAssumption DEF Attempts, Done
  <2>3. Types'
    BY <1>7, <2>1 DEF Take, Types, order, history, Fault
  <2> QED
    BY <2>2, <2>3
<1>8. ASSUME NEW j \in Job, Look(j)
      PROVE  Types' /\ Attempts'
  <2>1. CASE Fits(j)
    <3>b. Len(mail) \in Nat
      BY LenProperties DEF Types
    <3>c. job' = [job EXCEPT ![j] = [state |-> "ready", made |-> job[j].made, knew |-> Len(mail)]]
      BY <1>8, <2>1 DEF Look
    <3>1. /\ job' \in [Job -> JobRow] /\ job'[j] = [state |-> "ready", made |-> job[j].made, knew |-> Len(mail)]
        /\ \A k \in Job : k # j => job'[k] = job[k]
      BY <3>b, <3>c DEF Types, JobRow, State, InWork
    <3>a. job[j].state \notin Done /\ job[j].made \in Nat
      BY <1>8 DEF Look, Types, JobRow, Done
    <3>2. Attempts'
      BY <3>a, <3>1, OthersStay, BoundsAssumption DEF Attempts
    <3>3. Types'
      BY <1>8, <2>1, <3>1 DEF Look, Types, order, history
    <3> QED
      BY <3>2, <3>3
  <2>2. CASE ~Fits(j)
    <3>1. /\ job' \in [Job -> JobRow] /\ job'[j] = [state |-> "recorded", made |-> job[j].made, knew |-> 0]
        /\ \A k \in Job : k # j => job'[k] = job[k]
      BY <1>8, <2>2, GoesTo DEF Look, Types, State, InWork
    <3>a. job[j].state \notin Done /\ job[j].made \in Nat
      BY <1>8 DEF Look, Types, JobRow, Done
    <3>2. Attempts'
      BY <3>a, <3>1, OthersStay, BoundsAssumption DEF Attempts
    <3>3. rows' \in [Job -> [Line -> Nat]]
      BY <1>8, <2>2, OneLine DEF Look, Types, Line
    <3>4. Types'
      BY <1>8, <3>1, <3>3 DEF Look, Types, order, history
    <3> QED
      BY <3>2, <3>4
  <2> QED
    BY <2>1, <2>2
<1>9. ASSUME NEW j \in Job, Send(j)
      PROVE  Types' /\ Attempts'
  <2>1. /\ job' \in [Job -> JobRow] /\ job'[j] = [state |-> "accepted", made |-> job[j].made, knew |-> 0]
        /\ \A k \in Job : k # j => job'[k] = job[k]
    BY <1>9, GoesTo DEF Send, Types, JobRow, State, InWork, Done
  <2>a. job[j].state \notin Done /\ job[j].made \in Nat
    BY <1>9 DEF Send, Types, JobRow, Done
  <2>2. Attempts'
    BY <2>a, <2>1, OthersStay, BoundsAssumption DEF Attempts, Done
  <2>3. Types'
    BY <1>9, <2>1, OneMessage DEF Send, Types, order, history, Fault
  <2> QED
    BY <2>2, <2>3
<1>10. ASSUME NEW j \in Job, SendUnanswered(j)
      PROVE  Types' /\ Attempts'
  <2>1. /\ job' \in [Job -> JobRow] /\ job'[j] = [state |-> IF job[j].made + 1 >= MaxAttempts THEN "failed" ELSE "waiting",
            made |-> job[j].made + 1, knew |-> 0]
        /\ \A k \in Job : k # j => job'[k] = job[k]
        /\ reporting' \subseteq Job
    BY <1>10, FailedOnce DEF SendUnanswered, Types
  <2>a. job[j].state \notin Done /\ job[j].made \in Nat
    BY <1>10 DEF SendUnanswered, Types, JobRow, Done
  <2>2. Attempts'
    BY <2>a, <2>1, OthersStay, BoundsAssumption DEF Attempts, Done
  <2>b. mail' \in Seq(Message) /\ lost' \in [Job -> Nat]
    <3>1. mail' \in Seq(Message)
      BY <1>10, OneMessage DEF SendUnanswered, Types
    <3>2. lost' \in [Job -> Nat]
      BY <1>10 DEF SendUnanswered, Types
    <3> QED
      BY <3>1, <3>2
  <2>3. Types'
    BY <1>10, <2>1, <2>b, BoundsAssumption DEF SendUnanswered, Types, order, history, Fault
  <2> QED
    BY <2>2, <2>3
<1>11. ASSUME NEW j \in Job, SendFails(j)
      PROVE  Types' /\ Attempts'
  <2>1. /\ job' \in [Job -> JobRow] /\ job'[j] = [state |-> IF job[j].made + 1 >= MaxAttempts THEN "failed" ELSE "waiting",
            made |-> job[j].made + 1, knew |-> 0]
        /\ \A k \in Job : k # j => job'[k] = job[k]
        /\ reporting' \subseteq Job
    BY <1>11, FailedOnce DEF SendFails, Types
  <2>a. job[j].state \notin Done /\ job[j].made \in Nat
    BY <1>11 DEF SendFails, Types, JobRow, Done
  <2>2. Attempts'
    BY <2>a, <2>1, OthersStay, BoundsAssumption DEF Attempts, Done
  <2>3. Types'
    BY <1>11, <2>1, BoundsAssumption DEF SendFails, Types, order, history, Fault
  <2> QED
    BY <2>2, <2>3
<1>12. ASSUME NEW j \in Job, Refused(j)
      PROVE  Types' /\ Attempts'
  <2>1. /\ job' \in [Job -> JobRow] /\ job'[j] = [state |-> "failed", made |-> job[j].made + 1, knew |-> 0]
        /\ \A k \in Job : k # j => job'[k] = job[k]
    BY <1>12, BoundsAssumption DEF Refused, Types, JobRow, State, InWork, Done, At
  <2>a. job[j].state \notin Done /\ job[j].made \in Nat
    BY <1>12 DEF Refused, Types, JobRow, Done
  <2>2. Attempts'
    BY <2>a, <2>1, OthersStay, BoundsAssumption DEF Attempts, Done
  <2>3. Types'
    BY <1>12, <2>1, BoundsAssumption DEF Refused, Types, order, history, Fault
  <2> QED
    BY <2>2, <2>3
<1>13. ASSUME NEW j \in Job, Record(j)
      PROVE  Types' /\ Attempts'
  <2>1. /\ job' \in [Job -> JobRow] /\ job'[j] = [state |-> "recorded", made |-> job[j].made, knew |-> 0]
        /\ \A k \in Job : k # j => job'[k] = job[k]
    BY <1>13, GoesTo DEF Record, Types, JobRow, State, InWork, Done
  <2>a. job[j].state \notin Done /\ job[j].made \in Nat
    BY <1>13 DEF Record, Types, JobRow, Done
  <2>2. Attempts'
    BY <2>a, <2>1, OthersStay, BoundsAssumption DEF Attempts, Done
  <2>3. Types'
    BY <1>13, <2>1, OneLine DEF Record, Types, order, history, Fault, Line
  <2> QED
    BY <2>2, <2>3
<1>14. ASSUME NEW j \in Job, RecordFails(j)
      PROVE  Types' /\ Attempts'
  <2>1. /\ job' \in [Job -> JobRow] /\ job'[j] = [state |-> "recorded", made |-> job[j].made, knew |-> 0]
        /\ \A k \in Job : k # j => job'[k] = job[k]
    BY <1>14, GoesTo DEF RecordFails, Types, JobRow, State, InWork, Done, AfterUnrecorded
  <2>a. job[j].state \notin Done /\ job[j].made \in Nat
    BY <1>14 DEF RecordFails, Types, JobRow, Done
  <2>2. Attempts'
    BY <2>a, <2>1, OthersStay, BoundsAssumption DEF Attempts, Done
  <2>3. Types'
    BY <1>14, <2>1, BoundsAssumption DEF RecordFails, Types, order, history, Fault
  <2> QED
    BY <2>2, <2>3
<1>15. ASSUME NEW j \in Job, Complete(j)
      PROVE  Types' /\ Attempts'
  <2>1. /\ job' \in [Job -> JobRow] /\ job'[j] = [state |-> "completed", made |-> job[j].made, knew |-> 0]
        /\ \A k \in Job : k # j => job'[k] = job[k]
    BY <1>15, GoesTo DEF Complete, Types, JobRow, State, InWork, Done
  <2>a. job[j].state \notin Done /\ job[j].made \in Nat
    BY <1>15 DEF Complete, Types, JobRow, Done
  <2>2. Attempts'
    BY <2>a, <2>1, OthersStay, BoundsAssumption DEF Attempts, Done
  <2>3. Types'
    BY <1>15, <2>1 DEF Complete, Types, order, history, Fault
  <2> QED
    BY <2>2, <2>3
<1>16. ASSUME NEW j \in Job, ReportFailure(j)
      PROVE  Types' /\ Attempts'
  BY <1>16, OneLine DEF ReportFailure, order, history, Types, Attempts, Line
<1>17. ASSUME NEW j \in Job, ReportFails(j)
      PROVE  Types' /\ Attempts'
  BY <1>17, BoundsAssumption DEF ReportFails, order, history, Fault, Types, Attempts
<1>18. CASE UNCHANGED vars
  BY <1>18 DEF vars, order, history, Types, Attempts
<1> QED
  BY <1>1, <1>2, <1>3, <1>4, <1>5, <1>6, <1>7, <1>8, <1>9, <1>10, <1>11, <1>12, <1>13, <1>14, <1>15, <1>16, <1>17, <1>18 DEF Next, Attempt, Report, Types

-----------------------------------------------------------------------------
(* News in order.                                                          *)

\* A step that sends nothing, lets no further job send, and does not make the
\* order await money again.
Quiet ==
  /\ mail' = mail
  /\ status' \in Pending => status \in Pending
  /\ \A k \in Job : job'[k].state = "ready" => job[k].state = "ready" /\ job'[k].knew = job[k].knew

\* Such a step keeps the news in order.
LEMMA NoNews ==
  ASSUME NoWayBack, NewsInOrder, Quiet
  PROVE  NoWayBack' /\ NewsInOrder'
BY DEF NoWayBack, NewsInOrder, Quiet, Instructs, KindOf

\* So does sending the email of a job that is ready.
LEMMA NewsOut ==
  ASSUME Types, NoWayBack, NewsInOrder, NEW j \in Job, job[j].state = "ready",
         Accepted(j), status' = status, job'[j].state # "ready",
         \A k \in Job : k # j => job'[k] = job[k]
  PROVE  NoWayBack' /\ NewsInOrder'
<1> DEFINE last == Len(mail) + 1
<1> DEFINE msg == [job |-> j, knew |-> job[j].knew]
<1>a. msg \in Message /\ mail' = Append(mail, msg) /\ mail \in Seq(Message)
  BY OneMessage DEF Types
<1>b. msg.job = j /\ msg.knew = job[j].knew
  OBVIOUS
<1> HIDE DEF msg
<1>1. /\ Len(mail) \in Nat /\ DOMAIN mail = 1 .. Len(mail)
      /\ DOMAIN mail' = 1 .. last /\ Len(mail') = last
      /\ \A n \in 1 .. Len(mail) : mail'[n] = mail[n]
      /\ mail'[last].job = j /\ mail'[last].knew = job[j].knew
  BY <1>a, <1>b, LenProperties, AppendProperties
<1>2. job[j].knew \in Nat /\ \A k \in Job : job[k].knew \in Nat
  BY DEF Types, JobRow
<1> HIDE DEF last
<1>3. last = Len(mail) + 1
  BY DEF last
<1>4. NewsInOrder'
  <2> SUFFICES ASSUME NEW n \in 1 .. last, NEW m \in 1 .. last, n < m,
                      ~Instructs(mail'[n].job), Instructs(mail'[m].job)
               PROVE  mail'[m].knew < n
    BY <1>1 DEF NewsInOrder, Instructs, KindOf
  <2>1. n \in 1 .. Len(mail) /\ mail'[n] = mail[n]
    BY <1>1, <1>3
  <2>2. CASE m = last
    BY <1>1, <2>1, <2>2 DEF NoWayBack
  <2>3. CASE m # last
    <3>1. m \in 1 .. Len(mail) /\ mail'[m] = mail[m]
      BY <1>1, <1>3, <2>3
    <3> QED
      BY <1>1, <2>1, <3>1 DEF NewsInOrder, Instructs
  <2> QED
    BY <2>2, <2>3
<1>5. ASSUME NEW k \in Job, job'[k].state = "ready"
      PROVE  /\ job'[k].knew <= Len(mail')
             /\ ~Instructs(k) => status' \notin Pending
             /\ Instructs(k) => \A n \in DOMAIN mail' : ~Instructs(mail'[n].job) => job'[k].knew < n
  <2>1. job'[k] = job[k] /\ job[k].state = "ready"
    BY <1>5
  <2>2. job[k].knew <= Len(mail) /\ (~Instructs(k) => status \notin Pending)
    BY <2>1 DEF NoWayBack
  <2>3. ASSUME Instructs(k), NEW n \in 1 .. last, ~Instructs(mail'[n].job)
        PROVE  job[k].knew < n
    <3>1. CASE n = last
      BY <1>1, <1>2, <1>3, <2>2, <3>1
    <3>2. CASE n # last
      <4>1. n \in 1 .. Len(mail) /\ mail'[n] = mail[n]
        BY <1>1, <1>3, <3>2
      <4> QED
        BY <1>1, <2>1, <2>3, <4>1 DEF NoWayBack
    <3> QED
      BY <3>1, <3>2
  <2> QED
    BY <1>1, <1>2, <1>3, <2>1, <2>2, <2>3
<1>6. ASSUME NEW n \in 1 .. last, ~Instructs(mail'[n].job)
      PROVE  status' \notin Pending
  <2>1. CASE n = last
    BY <1>1, <1>6, <2>1 DEF NoWayBack
  <2>2. CASE n # last
    <3>1. n \in 1 .. Len(mail) /\ mail'[n] = mail[n]
      BY <1>1, <1>3, <2>2
    <3> QED
      BY <1>1, <1>6, <3>1 DEF NoWayBack
  <2> QED
    BY <2>1, <2>2
<1> QED
  BY <1>1, <1>4, <1>5, <1>6 DEF NoWayBack, Instructs, KindOf

\* Every action keeps the news in order.
LEMMA NewsKept == Types /\ NoWayBack /\ NewsInOrder /\ [Next]_vars => NoWayBack' /\ NewsInOrder'
<1> SUFFICES ASSUME Types, NoWayBack, NewsInOrder, [Next]_vars PROVE NoWayBack' /\ NewsInOrder'
  OBVIOUS
<1>1. ASSUME NEW to \in Status, OrderMoves(to)
      PROVE  Quiet
  BY <1>1 DEF OrderMoves, Transitions, Pending, Quiet
<1>2. ASSUME HoldLapses \/ Resend
      PROVE  Quiet
  BY <1>2 DEF HoldLapses, Resend, Quiet
<1>3. ASSUME Crash
      PROVE  Quiet
  <2>1. \A k \in Job : IF job[k].state \in InWork THEN job'[k].state = "waiting" ELSE job'[k] = job[k]
    BY <1>3, Crashed DEF Types
  <2>2. \A k \in Job : job'[k].state = "ready" => job[k].state = "ready" /\ job'[k].knew = job[k].knew
    BY <2>1
  <2> QED
    BY <1>3, <2>2 DEF Crash, order, Quiet
<1>4. ASSUME NEW j \in hooks, Enqueue(j) \/ NotEnqueued(j)
      PROVE  Quiet
  <2>1. \A k \in Job : job'[k] = job[k] \/ job'[k].state = "waiting"
    BY <1>4 DEF Enqueue, NotEnqueued, At, Types
  <2> QED
    BY <1>4, <2>1 DEF Enqueue, NotEnqueued, order, Quiet
<1>5. ASSUME NEW j \in Job, Take(j) \/ Record(j) \/ RecordFails(j) \/ Complete(j)
      PROVE  Quiet
  <2>1. PICK state \in State \ {"ready"} : Goes(j, state)
    BY <1>5 DEF Take, Record, RecordFails, Complete, AfterUnrecorded, State, InWork, Done
  <2>2. job'[j].state # "ready" /\ \A k \in Job : k # j => job'[k] = job[k]
    BY <2>1, GoesTo DEF Types
  <2> QED
    BY <1>5, <2>2 DEF Take, Record, RecordFails, Complete, order, Quiet
<1>6. ASSUME NEW j \in Job, SendFails(j)
      PROVE  Quiet
  <2>1. job'[j].state # "ready" /\ \A k \in Job : k # j => job'[k] = job[k]
    BY <1>6, FailedOnce DEF SendFails, Types
  <2> QED
    BY <1>6, <2>1 DEF SendFails, order, Quiet
<1>7. ASSUME NEW j \in Job, Refused(j)
      PROVE  Quiet
  BY <1>7 DEF Refused, At, order, Types, Quiet
<1>8. ASSUME NEW j \in Job, Report(j)
      PROVE  Quiet
  BY <1>8 DEF Report, ReportFailure, ReportFails, order, Quiet
<1>9. ASSUME UNCHANGED vars
      PROVE  Quiet
  BY <1>9 DEF vars, order, Quiet
<1>10. ASSUME NEW j \in Job, Look(j)
       PROVE  NoWayBack' /\ NewsInOrder'
  <2>1. CASE ~Fits(j)
    <3>1. job'[j].state # "ready" /\ \A k \in Job : k # j => job'[k] = job[k]
      <4>1. Goes(j, "recorded") /\ "recorded" \in State
        BY <1>10, <2>1 DEF Look, State, InWork
      <4> QED
        BY <4>1, GoesTo DEF Types
    <3>2. Quiet
      BY <1>10, <3>1 DEF Look, order, Quiet
    <3> QED
      BY <3>2, NoNews
  <2>2. CASE Fits(j)
    <3>1. Len(mail) \in Nat /\ DOMAIN mail = 1 .. Len(mail)
      BY LenProperties DEF Types
    <3>2. job' = [job EXCEPT ![j] = [state |-> "ready", made |-> @.made, knew |-> Len(mail)]]
      BY <1>10, <2>2 DEF Look
    <3>3. job'[j].knew = Len(mail) /\ \A k \in Job : k # j => job'[k] = job[k]
      BY <3>2 DEF Types
    <3>4. mail' = mail /\ status' = status
      BY <1>10 DEF Look, order
    <3>5. ~Instructs(j) => status \notin Pending
      BY <2>2 DEF Fits, Instructs, KindOf, Job, Kind, Sendable, Pending
    <3>6. Instructs(j) => status \in Pending
      BY <2>2 DEF Fits, Instructs, Sendable, Pending
    <3>7. Instructs(j) => \A n \in DOMAIN mail : Instructs(mail[n].job)
      BY <3>6 DEF NoWayBack
    <3>8. NewsInOrder'
      BY <3>4 DEF NewsInOrder, KindOf
    <3>9. ASSUME NEW k \in Job, job'[k].state = "ready"
          PROVE  /\ job'[k].knew <= Len(mail)
                 /\ ~Instructs(k) => status \notin Pending
                 /\ Instructs(k) => \A n \in DOMAIN mail : ~Instructs(mail[n].job) => job'[k].knew < n
      <4>1. CASE k = j
        BY <3>1, <3>3, <3>5, <3>7, <4>1
      <4>2. CASE k # j
        BY <3>3, <3>9, <4>2 DEF NoWayBack
      <4> QED
        BY <4>1, <4>2
    <3> QED
      BY <3>4, <3>8, <3>9 DEF NoWayBack, Instructs, KindOf
  <2> QED
    BY <2>1, <2>2
<1>11. ASSUME NEW j \in Job, Send(j)
       PROVE  NoWayBack' /\ NewsInOrder'
  <2>1. job'[j].state # "ready" /\ \A k \in Job : k # j => job'[k] = job[k]
    <3>1. Goes(j, "accepted") /\ "accepted" \in State
      BY <1>11 DEF Send, State, InWork
    <3> QED
      BY <3>1, GoesTo DEF Types
  <2> QED
    BY <1>11, <2>1, NewsOut DEF Send, order
<1>12. ASSUME NEW j \in Job, SendUnanswered(j)
       PROVE  NoWayBack' /\ NewsInOrder'
  <2>1. job'[j].state # "ready" /\ \A k \in Job : k # j => job'[k] = job[k]
    BY <1>12, FailedOnce DEF SendUnanswered, Types
  <2> QED
    BY <1>12, <2>1, NewsOut DEF SendUnanswered, order
<1> QED
  BY <1>1, <1>2, <1>3, <1>4, <1>5, <1>6, <1>7, <1>8, <1>9, <1>10, <1>11, <1>12, NoNews
     DEF Next, Attempt

-----------------------------------------------------------------------------
(* The work.                                                               *)

\* Job j goes from one of these states to one of those; no other job moves.
Moves(j, from, to) ==
  /\ job[j].state \in from /\ job'[j].state \in to
  /\ \A k \in Job : k # j => job'[k] = job[k]

\* Where an attempt takes its job.
LEMMA StateOf ==
  ASSUME Types, NEW j \in Job
  PROVE  /\ Take(j) => Moves(j, {"waiting"}, {"active"})
         /\ Look(j) /\ Fits(j) => Moves(j, {"active"}, {"ready"})
         /\ Look(j) /\ ~Fits(j) => Moves(j, {"active"}, {"recorded"})
         /\ Send(j) => Moves(j, {"ready"}, {"accepted"})
         /\ SendUnanswered(j) => Moves(j, {"ready"}, {"waiting", "failed"})
         /\ SendFails(j) => Moves(j, {"active", "ready"}, {"waiting", "failed"})
         /\ Refused(j) => Moves(j, {"ready"}, {"failed"})
         /\ Record(j) => Moves(j, {"accepted"}, {"recorded"})
         /\ RecordFails(j) => Moves(j, {"accepted"}, {"recorded"})
         /\ Complete(j) => Moves(j, {"recorded"}, {"completed"})
<1> DEFINE Rest == \A k \in Job : k # j => job'[k] = job[k]
<1>1. ASSUME NEW state \in {"active", "recorded", "accepted", "completed"}, Goes(j, state)
      PROVE  job'[j].state = state /\ Rest
  BY <1>1, GoesTo DEF Types, State, InWork, Done
<1>2. ASSUME AttemptFails(j)
      PROVE  job'[j].state \in {"waiting", "failed"} /\ Rest
  BY <1>2, FailedOnce DEF Types
<1>3. ASSUME NEW r, job' = [job EXCEPT ![j] = r]
      PROVE  job'[j] = r /\ Rest
  BY <1>3 DEF Types
<1>4. ASSUME Look(j), Fits(j)
      PROVE  job'[j].state = "ready" /\ Rest
  BY <1>3, <1>4 DEF Look
<1>5. ASSUME Refused(j)
      PROVE  job'[j].state = "failed" /\ Rest
  BY <1>3, <1>5 DEF Refused, At
<1> HIDE DEF Rest
<1>6. Take(j) => Moves(j, {"waiting"}, {"active"})
  BY <1>1 DEF Take, Moves, Rest
<1>7. /\ Look(j) /\ Fits(j) => Moves(j, {"active"}, {"ready"})
      /\ Look(j) /\ ~Fits(j) => Moves(j, {"active"}, {"recorded"})
  BY <1>1, <1>4 DEF Look, Moves, Rest
<1>8. Send(j) => Moves(j, {"ready"}, {"accepted"})
  BY <1>1 DEF Send, Moves, Rest
<1>9. SendUnanswered(j) => Moves(j, {"ready"}, {"waiting", "failed"})
  BY <1>2 DEF SendUnanswered, Moves, Rest
<1>10. SendFails(j) => Moves(j, {"active", "ready"}, {"waiting", "failed"})
  BY <1>2 DEF SendFails, Moves, Rest
<1>11. Refused(j) => Moves(j, {"ready"}, {"failed"})
  BY <1>5 DEF Refused, Moves, Rest
<1>12. Record(j) => Moves(j, {"accepted"}, {"recorded"})
  BY <1>1 DEF Record, Moves, Rest
<1>13. RecordFails(j) => Moves(j, {"accepted"}, {"recorded"})
  BY <1>1 DEF RecordFails, AfterUnrecorded, Moves, Rest
<1>14. Complete(j) => Moves(j, {"recorded"}, {"completed"})
  BY <1>1 DEF Complete, Moves, Rest
<1> QED
  BY <1>6, <1>7, <1>8, <1>9, <1>10, <1>11, <1>12, <1>13, <1>14

\* If no job but j starts to be worked on, there is at most one more in work.
LEMMA OneMoreWorks ==
  ASSUME NEW j, \A k \in Job : job'[k].state \in InWork => job[k].state \in InWork \/ k = j
  PROVE  /\ Cardinality(Working) \in Nat /\ Cardinality(Working') \in Nat
         /\ Cardinality(Working') <= Cardinality(Working) + 1
         /\ (\A k \in Job : job'[k].state \in InWork => job[k].state \in InWork)
              => Cardinality(Working') <= Cardinality(Working)
<1>1. Working \subseteq Job /\ Working' \subseteq Job
  BY DEF Working
<1>2. IsFiniteSet(Working) /\ IsFiniteSet(Working') /\ IsFiniteSet(Working \cup {j})
  <2>1. IsFiniteSet(Working) /\ IsFiniteSet(Working')
    BY <1>1, JobFinite, FS_Subset
  <2> QED
    BY <2>1, FS_AddElement
<1>3. Cardinality(Working) \in Nat /\ Cardinality(Working') \in Nat /\ Cardinality(Working \cup {j}) \in Nat
  BY <1>2, FS_CardinalityType
<1>4. Cardinality(Working \cup {j}) <= Cardinality(Working) + 1
  BY <1>2, <1>3, FS_AddElement
<1>5. Cardinality(Working') <= Cardinality(Working \cup {j})
  <2>1. Working' \subseteq Working \cup {j}
    BY DEF Working
  <2> QED
    BY <1>2, <2>1, FS_Subset
<1>6. (\A k \in Job : job'[k].state \in InWork => job[k].state \in InWork)
        => Cardinality(Working') <= Cardinality(Working)
  <2>1. (\A k \in Job : job'[k].state \in InWork => job[k].state \in InWork) => Working' \subseteq Working
    BY DEF Working
  <2> QED
    BY <1>2, <2>1, FS_Subset
<1> QED
  BY <1>3, <1>4, <1>5, <1>6

\* Every action leaves the worker with no more jobs than it may have.
LEMMA WorkKept ==
  Types /\ Cardinality(Working) <= Concurrency /\ [Next]_vars => Cardinality(Working') <= Concurrency
<1> SUFFICES ASSUME Types, Cardinality(Working) <= Concurrency, [Next]_vars
             PROVE  Cardinality(Working') <= Concurrency
  OBVIOUS
<1> DEFINE NoMore == \A k \in Job : job'[k].state \in InWork => job[k].state \in InWork
<1>1. ASSUME NEW j \in Job, Take(j)
      PROVE  Cardinality(Working') <= Concurrency
  <2>1. Moves(j, {"waiting"}, {"active"})
    BY <1>1, StateOf
  <2>2. \A k \in Job : job'[k].state \in InWork => job[k].state \in InWork \/ k = j
    BY <2>1 DEF Moves
  <2>3. Cardinality(Working) < Concurrency
    BY <1>1 DEF Take
  <2>4. /\ Cardinality(Working) \in Nat /\ Cardinality(Working') \in Nat
        /\ Cardinality(Working') <= Cardinality(Working) + 1
    BY <2>2, OneMoreWorks
  <2> QED
    BY <2>3, <2>4, BoundsAssumption
<1>2. ASSUME NEW j \in Job, Attempt(j), ~Take(j)
      PROVE  NoMore
  <2>1. PICK from \in SUBSET InWork, to \in SUBSET State : Moves(j, from, to)
    BY <1>2, StateOf DEF Attempt, State, InWork, Done
  <2> QED
    BY <2>1 DEF Moves
<1>3. ASSUME Crash
      PROVE  NoMore
  <2>1. \A k \in Job : IF job[k].state \in InWork THEN job'[k].state = "waiting" ELSE job'[k] = job[k]
    BY <1>3, Crashed DEF Types
  <2> QED
    BY <2>1
<1>4. ASSUME NEW j \in hooks, Enqueue(j) \/ NotEnqueued(j)
      PROVE  NoMore
  <2>1. \A k \in Job : job'[k] = job[k] \/ job'[k].state = "waiting"
    BY <1>4 DEF Enqueue, NotEnqueued, At, Types
  <2> QED
    BY <2>1 DEF InWork
<1>5. ASSUME \/ \E to \in Status : OrderMoves(to)
             \/ HoldLapses \/ Resend
             \/ \E j \in Job : Report(j)
             \/ UNCHANGED vars
      PROVE  NoMore
  BY <1>5 DEF OrderMoves, HoldLapses, Resend, Report, ReportFailure, ReportFails, vars
<1>6. ASSUME NoMore
      PROVE  Cardinality(Working') <= Concurrency
  <2>1. /\ Cardinality(Working) \in Nat /\ Cardinality(Working') \in Nat
        /\ Cardinality(Working') <= Cardinality(Working)
    BY <1>6, OneMoreWorks
  <2> QED
    BY <2>1, BoundsAssumption
<1> HIDE DEF NoMore
<1> QED
  BY <1>1, <1>2, <1>3, <1>4, <1>5, <1>6 DEF Next

\* Every action gives a resend its row before it has a job.
LEMMA AskedKept == Types /\ Asked /\ [Next]_vars => Asked'
<1> SUFFICES ASSUME Types, Asked, [Next]_vars PROVE Asked'
  OBVIOUS
<1> DEFINE NoNew == \A k \in Job : job'[k].state # "absent" => k \in hooks \cup Queued
<1>1. ASSUME NEW to \in Status, OrderMoves(to)
      PROVE  Asked'
  <2>1. resends' = resends /\ 0 <= resends /\ Queued' = Queued
    BY <1>1, BoundsAssumption DEF OrderMoves, Types, Queued
  <2>2. \A k \in Announced(to) : k[2] = 0
    <3>1. Announced(to) \in {{<<"tickets-issued", 0>>}, {<<to, 0>>}, {}}
      BY DEF Announced
    <3> QED
      BY <3>1
  <2>3. hooks' = hooks \cup Announced(to)
    BY <1>1 DEF OrderMoves
  <2> QED
    BY <2>1, <2>2, <2>3 DEF Asked
<1>2. ASSUME Resend
      PROVE  Asked'
  <2>1. resends' = resends + 1 /\ resends \in Nat /\ Queued' = Queued
    BY <1>2, BoundsAssumption DEF Resend, Types, Queued
  <2>2. hooks' = hooks \cup {<<"tickets-issued", resends + 1>>}
    BY <1>2 DEF Resend
  <2>3. \A k \in hooks \cup Queued : k[2] \in Nat
    <3>1. hooks \cup Queued \subseteq Job
      BY DEF Types, Queued
    <3> QED
      BY <3>1, BoundsAssumption DEF Job
  <2> QED
    BY <2>1, <2>2, <2>3 DEF Asked
<1>3. ASSUME NEW j \in Job, Attempt(j)
      PROVE  NoNew /\ resends' = resends /\ hooks' = hooks
  <2>1. PICK from \in SUBSET (State \ {"absent"}), to \in SUBSET State : Moves(j, from, to)
    BY <1>3, StateOf DEF Attempt, State, InWork, Done
  <2>2. NoNew
    BY <2>1 DEF Moves, Queued
  <2>3. UNCHANGED <<order, hooks>>
    BY <1>3 DEF Attempt, Take, Look, Send, SendUnanswered, SendFails, Refused, Record, RecordFails, Complete
  <2> QED
    BY <2>2, <2>3 DEF order
<1>4. ASSUME Crash
      PROVE  NoNew /\ resends' = resends /\ hooks' = hooks
  <2>1. \A k \in Job : IF job[k].state \in InWork THEN job'[k].state = "waiting" ELSE job'[k] = job[k]
    BY <1>4, Crashed DEF Types
  <2>2. NoNew
    BY <2>1 DEF Queued, InWork
  <2> QED
    BY <1>4, <2>2 DEF Crash, order
<1>5. ASSUME NEW j \in hooks, Enqueue(j) \/ NotEnqueued(j)
      PROVE  NoNew /\ resends' = resends /\ hooks' \subseteq hooks
  <2>1. \A k \in Job : k # j => job'[k] = job[k]
    BY <1>5 DEF Enqueue, NotEnqueued, Types
  <2> QED
    BY <1>5, <2>1 DEF Enqueue, NotEnqueued, order, Queued
<1>6. ASSUME HoldLapses \/ (\E j \in Job : Report(j)) \/ UNCHANGED vars
      PROVE  NoNew /\ resends' = resends /\ hooks' = hooks
  BY <1>6 DEF HoldLapses, Report, ReportFailure, ReportFails, vars, order, Queued
<1>7. ASSUME NoNew, resends' = resends, hooks' \subseteq hooks
      PROVE  Asked'
  BY <1>7 DEF Asked, Queued
<1> HIDE DEF NoNew
<1> QED
  BY <1>1, <1>2, <1>3, <1>4, <1>5, <1>6, <1>7 DEF Next

-----------------------------------------------------------------------------
(* The account of an email.                                                *)

\* The counts are numbers.
LEMMA Counts ==
  ASSUME Types, NEW k \in Job
  PROVE  /\ rows[k]["sent"] \in Nat /\ rows[k]["skipped"] \in Nat /\ rows[k]["failed"] \in Nat
         /\ Lines(k) \in Nat /\ lost[k] \in Nat /\ Messages(k) \in Nat
<1>1. rows[k]["sent"] \in Nat /\ rows[k]["skipped"] \in Nat /\ rows[k]["failed"] \in Nat
  BY DEF Types, Line
<1>2. IsFiniteSet({n \in DOMAIN mail : mail[n].job = k})
  <2>1. DOMAIN mail = 1 .. Len(mail) /\ Len(mail) \in Nat
    BY LenProperties DEF Types
  <2>2. IsFiniteSet(1 .. Len(mail))
    BY <2>1, FS_Interval
  <2> QED
    BY <2>1, <2>2, FS_Subset
<1>3. Messages(k) \in Nat
  BY <1>2, FS_CardinalityType DEF Messages
<1> QED
  BY <1>1, <1>3 DEF Types, Lines

\* A line more of an email is a line more in its count.
LEMMA LineCounted ==
  ASSUME Types, NEW j \in Job, NEW line \in Line, Write(j, line)
  PROVE  /\ Lines(j)' = Lines(j) + 1
         /\ rows'[j]["sent"] = rows[j]["sent"] + (IF line = "sent" THEN 1 ELSE 0)
         /\ \A k \in Job : k # j => rows'[k] = rows[k]
<1>1. /\ rows'[j][line] = rows[j][line] + 1
      /\ \A l \in Line : l # line => rows'[j][l] = rows[j][l]
      /\ \A k \in Job : k # j => rows'[k] = rows[k]
  BY OneLine DEF Types
<1>2. rows[j]["sent"] \in Nat /\ rows[j]["skipped"] \in Nat /\ rows[j]["failed"] \in Nat
  BY Counts
<1> QED
  BY <1>1, <1>2 DEF Line, Lines

\* A step that leaves an email's counts, and its job where it was, keeps its
\* account.
LEMMA SameAccount ==
  ASSUME NEW k \in Job, Account(k), job'[k].state = job[k].state, rows'[k] = rows[k],
         Messages(k)' = Messages(k), lost'[k] = lost[k], k \in reporting' <=> k \in reporting
  PROVE  Account(k)'
BY DEF Account, Out, Written, Lines

\* Every action keeps the account of every email.
LEMMA AccountKept == Types /\ (\A k \in Job : Account(k)) /\ [Next]_vars => \A k \in Job : Account(k)'
<1> SUFFICES ASSUME Types, \A k \in Job : Account(k), [Next]_vars, NEW k \in Job
             PROVE  Account(k)'
  OBVIOUS
<1>c. /\ rows[k]["sent"] \in Nat /\ Lines(k) \in Nat /\ lost[k] \in Nat /\ Messages(k) \in Nat
  BY Counts
<1>m. mail' = mail => Messages(k)' = Messages(k)
  BY DEF Messages
<1>r. rows' = rows => Lines(k)' = Lines(k)
  BY DEF Lines
<1>1. ASSUME (\E to \in Status : OrderMoves(to)) \/ HoldLapses \/ Resend \/ UNCHANGED vars
      PROVE  Account(k)'
  BY <1>1, <1>m, SameAccount DEF OrderMoves, HoldLapses, Resend, vars, history
<1>2. ASSUME Crash
      PROVE  Account(k)'
  <2>1. /\ IF job[k].state \in InWork THEN job'[k].state = "waiting" ELSE job'[k] = job[k]
        /\ lost'[k] = IF job[k].state \in {"accepted", "recorded"} THEN lost[k] + 1 ELSE lost[k]
    BY <1>2, Crashed DEF Types
  <2>2. mail' = mail /\ rows' = rows /\ reporting' = {}
    BY <1>2 DEF Crash
  <2>3. CASE job[k].state \in InWork
    BY <1>c, <1>m, <1>r, <2>1, <2>2, <2>3 DEF Account, Out, Written, InWork, Done
  <2>4. CASE job[k].state \notin InWork
    BY <1>c, <1>m, <1>r, <2>1, <2>2, <2>4 DEF Account, Out, Written, InWork, Done
  <2> QED
    BY <2>3, <2>4
<1>3. ASSUME NEW j \in hooks, Enqueue(j) \/ NotEnqueued(j)
      PROVE  Account(k)'
  <2>1. \/ job'[k].state = job[k].state
        \/ job[k].state = "absent" /\ job'[k].state = "waiting"
    <3>1. CASE job' = job
      BY <3>1
    <3>2. CASE job' # job
      <4>1. j \in Job /\ j \notin Queued /\ job' = [job EXCEPT ![j] = At("waiting", 0)]
        BY <1>3, <3>2 DEF Enqueue, NotEnqueued, Types
      <4>2. job[j].state = "absent"
        BY <4>1 DEF Queued
      <4>3. job'[j].state = "waiting" /\ \A i \in Job : i # j => job'[i] = job[i]
        BY <4>1 DEF At, Types
      <4> QED
        BY <4>2, <4>3
    <3> QED
      BY <3>1, <3>2
  <2>2. mail' = mail /\ rows' = rows /\ lost' = lost /\ reporting' = reporting
    BY <1>3 DEF Enqueue, NotEnqueued, history
  <2>3. CASE job'[k].state = job[k].state
    BY <1>m, <2>2, <2>3, SameAccount
  <2>4. CASE job[k].state = "absent" /\ job'[k].state = "waiting"
    BY <1>c, <1>m, <1>r, <2>2, <2>4 DEF Account, Out, Written, Done
  <2> QED
    BY <2>1, <2>3, <2>4
<1>4. ASSUME NEW j \in Job, Take(j) \/ (Look(j) /\ Fits(j)) \/ SendFails(j) \/ Refused(j)
                            \/ RecordFails(j) \/ Complete(j)
      PROVE  Account(k)'
  <2>1. mail' = mail /\ rows' = rows /\ lost' = lost
    BY <1>4 DEF Take, Look, SendFails, Refused, RecordFails, Complete, history
  <2>2. reporting \subseteq reporting' /\ reporting' \subseteq reporting \cup {j}
    BY <1>4 DEF Take, Look, SendFails, AttemptFails, Refused, RecordFails, Complete
  <2>3. \A i \in Job : i # j => job'[i] = job[i]
    BY <1>4, StateOf DEF Moves
  <2>4. CASE k # j
    BY <1>m, <2>1, <2>2, <2>3, <2>4, SameAccount
  <2>5. CASE k = j
    <3>1. CASE Take(j) \/ (Look(j) /\ Fits(j))
      <4>1. /\ job[k].state \in {"waiting", "active"} /\ job'[k].state \in {"active", "ready"}
            /\ reporting' = reporting
        BY <2>5, <3>1, StateOf DEF Moves, Take, Look
      <4> QED
        BY <1>c, <1>m, <1>r, <2>1, <4>1 DEF Account, Out, Written, Done
    <3>2. CASE SendFails(j)
      <4>1. job[k].state \in {"active", "ready"} /\ job'[k].state \in {"waiting", "failed"}
        BY <2>5, <3>2, StateOf DEF Moves
      <4>2. k \in reporting' => job'[k].state = "failed"
        <5>1. k \notin reporting
          BY <4>1 DEF Account
        <5>2. /\ job'[j].state = (IF job[j].made + 1 >= MaxAttempts THEN "failed" ELSE "waiting")
              /\ reporting' = IF job[j].made + 1 >= MaxAttempts THEN reporting \cup {j} ELSE reporting
          BY <3>2, FailedOnce DEF SendFails, Types
        <5> QED
          BY <2>5, <5>1, <5>2
      <4> QED
        BY <1>c, <1>m, <1>r, <2>1, <4>1, <4>2 DEF Account, Out, Written, Done
    <3>3. CASE Refused(j)
      <4>1. job[k].state = "ready" /\ job'[k].state = "failed"
        BY <2>5, <3>3, StateOf DEF Moves
      <4> QED
        BY <1>c, <1>m, <1>r, <2>1, <4>1 DEF Account, Out, Written, Done
    <3>4. CASE RecordFails(j) \/ Complete(j)
      <4>1. /\ \/ job[k].state = "accepted" /\ job'[k].state = "recorded"
               \/ job[k].state = "recorded" /\ job'[k].state = "completed"
            /\ reporting' = reporting
        BY <2>5, <3>4, StateOf DEF Moves, RecordFails, Complete
      <4> QED
        BY <1>c, <1>m, <1>r, <2>1, <4>1 DEF Account, Out, Written, Done
    <3> QED
      BY <1>4, <3>1, <3>2, <3>3, <3>4
  <2> QED
    BY <2>4, <2>5
<1>5. ASSUME NEW j \in Job, (Look(j) /\ ~Fits(j)) \/ Record(j)
      PROVE  Account(k)'
  <2>1. mail' = mail /\ lost' = lost /\ reporting' = reporting
    BY <1>5 DEF Look, Record, history
  <2>2. PICK line \in Line : Write(j, line) /\ (line = "sent" => Record(j))
    BY <1>5 DEF Look, Record, Line
  <2>3. /\ Lines(j)' = Lines(j) + 1
        /\ rows'[j]["sent"] = rows[j]["sent"] + (IF line = "sent" THEN 1 ELSE 0)
        /\ \A i \in Job : i # j => rows'[i] = rows[i]
    BY <2>2, LineCounted
  <2>4. \A i \in Job : i # j => job'[i] = job[i]
    BY <1>5, StateOf DEF Moves
  <2>5. CASE k # j
    BY <1>m, <2>1, <2>3, <2>4, <2>5, SameAccount
  <2>6. CASE k = j
    <3>1. /\ job[k].state \in {"active", "accepted"} /\ job'[k].state = "recorded"
          /\ Record(j) => job[k].state = "accepted"
      BY <1>5, <2>6, StateOf DEF Moves
    <3> QED
      BY <1>c, <1>m, <2>1, <2>2, <2>3, <2>6, <3>1 DEF Account, Out, Written, Done
  <2> QED
    BY <2>5, <2>6
<1>6. ASSUME NEW j \in Job, Send(j) \/ SendUnanswered(j)
      PROVE  Account(k)'
  <2>1. rows' = rows
    BY <1>6 DEF Send, SendUnanswered
  <2>2. Messages(k)' = Messages(k) + (IF k = j THEN 1 ELSE 0)
    <3>1. Accepted(j)
      BY <1>6 DEF Send, SendUnanswered
    <3>2. [job |-> j, knew |-> job[j].knew] \in Message /\ mail' = Append(mail, [job |-> j, knew |-> job[j].knew])
      BY <3>1, OneMessage DEF Types
    <3>3. [job |-> j, knew |-> job[j].knew].job = j
      OBVIOUS
    <3> HIDE DEF Message
    <3> QED
      BY <3>2, <3>3, OneMore DEF Types
  <2>3. CASE k # j
    <3>1. job'[k] = job[k]
      BY <1>6, <2>3, StateOf DEF Moves
    <3>2. lost'[k] = lost[k]
      <4>1. CASE Send(j)
        BY <4>1 DEF Send, history
      <4>2. CASE SendUnanswered(j)
        BY <2>3, <4>2 DEF SendUnanswered, Types
      <4> QED
        BY <1>6, <4>1, <4>2
    <3>3. k \in reporting' <=> k \in reporting
      BY <1>6, <2>3 DEF Send, SendUnanswered, AttemptFails
    <3>4. Messages(k)' = Messages(k)
      BY <1>c, <2>2, <2>3
    <3> QED
      BY <2>1, <3>1, <3>2, <3>3, <3>4, SameAccount
  <2>4. CASE k = j /\ Send(j)
    <3>1. job[k].state = "ready" /\ job'[k].state = "accepted"
      BY <2>4, StateOf DEF Moves
    <3>2. lost' = lost /\ reporting' = reporting
      BY <2>4 DEF Send, history
    <3> QED
      BY <1>c, <1>r, <2>1, <2>2, <2>4, <3>1, <3>2 DEF Account, Out, Written, Done
  <2>5. CASE k = j /\ SendUnanswered(j)
    <3>1. job[k].state = "ready" /\ job'[k].state \in {"waiting", "failed"}
      BY <2>5, StateOf DEF Moves
    <3>2. lost'[k] = lost[k] + 1
      BY <2>5 DEF SendUnanswered, Types
    <3>3. k \in reporting' => job'[k].state = "failed"
      <4>1. k \notin reporting
        BY <3>1 DEF Account
      <4>2. /\ job'[j].state = (IF job[j].made + 1 >= MaxAttempts THEN "failed" ELSE "waiting")
            /\ reporting' = IF job[j].made + 1 >= MaxAttempts THEN reporting \cup {j} ELSE reporting
        BY <2>5, FailedOnce DEF SendUnanswered, Types
      <4> QED
        BY <2>5, <4>1, <4>2
    <3> QED
      BY <1>c, <1>r, <2>1, <2>2, <2>5, <3>1, <3>2, <3>3 DEF Account, Out, Written, Done
  <2> QED
    BY <1>6, <2>3, <2>4, <2>5
<1>7. ASSUME NEW j \in Job, Report(j)
      PROVE  Account(k)'
  <2>1. job' = job /\ mail' = mail /\ lost' = lost /\ j \in reporting /\ reporting' = reporting \ {j}
    BY <1>7 DEF Report, ReportFailure, ReportFails, history
  <2>2. /\ k # j => rows'[k] = rows[k]
        /\ rows'[k]["sent"] = rows[k]["sent"]
        /\ Lines(k)' = Lines(k) \/ Lines(k)' = Lines(k) + 1
    <3>1. CASE ReportFailure(j)
      <4>1. Write(j, "failed") /\ "failed" \in Line
        BY <3>1 DEF ReportFailure, Line
      <4>2. /\ Lines(j)' = Lines(j) + 1
            /\ rows'[j]["sent"] = rows[j]["sent"] + 0
            /\ \A i \in Job : i # j => rows'[i] = rows[i]
        BY <4>1, LineCounted
      <4> QED
        BY <1>c, <4>2 DEF Lines
    <3>2. CASE ReportFails(j)
      BY <1>c, <1>r, <3>2 DEF ReportFails
    <3> QED
      BY <1>7, <3>1, <3>2 DEF Report
  <2>3. CASE k # j
    BY <1>m, <2>1, <2>2, <2>3, SameAccount
  <2>4. CASE k = j
    <3>1. job[k].state = "failed"
      BY <2>1, <2>4 DEF Account
    <3> QED
      BY <1>c, <1>m, <2>1, <2>2, <2>4, <3>1 DEF Account, Out, Written, Done
  <2> QED
    BY <2>3, <2>4
<1> QED
  BY <1>1, <1>2, <1>3, <1>4, <1>5, <1>6, <1>7 DEF Next, Attempt

-----------------------------------------------------------------------------
(* The theorems.                                                           *)

\* The invariant holds at first, ...
LEMMA InitInv == Init => IInv
<1> SUFFICES ASSUME Init PROVE IInv
  OBVIOUS
<1>1. /\ job = [j \in Job |-> At("absent", 0)] /\ mail = <<>>
      /\ rows = [j \in Job |-> [l \in Line |-> 0]] /\ lost = [j \in Job |-> 0]
      /\ reporting = {} /\ unwritten = {} /\ faults = 0 /\ lapsed = FALSE /\ resends = 0
  BY DEF Init
<1>2. status \in Status /\ hooks \in {{<<"payment-instructions", 0>>}, {<<"tickets-issued", 0>>}}
  BY DEF Init, Status
<1>3. \A j \in Job : job[j].state = "absent" /\ job[j].made = 0
  BY <1>1 DEF At
<1>4. Types
  <2>1. job \in [Job -> JobRow]
    BY <1>1 DEF At, JobRow, State
  <2>2. mail \in Seq(Message)
    BY <1>1
  <2>3. hooks \subseteq Job
    BY <1>2 DEF Job, Kind
  <2>4. rows \in [Job -> [Line -> Nat]] /\ lost \in [Job -> Nat]
    BY <1>1
  <2> QED
    <3>1. faults \in 0 .. MaxFaults /\ resends \in 0 .. MaxResends
      BY <1>1, BoundsAssumption
    <3>2. lapsed \in BOOLEAN /\ reporting \subseteq Job /\ unwritten \subseteq Job
      BY <1>1
    <3> QED
      BY <1>2, <2>1, <2>2, <2>3, <2>4, <3>1, <3>2 DEF Types
<1>5. Attempts
  BY <1>3, BoundsAssumption DEF Attempts
<1>6. Asked
  <2>1. Queued = {}
    BY <1>3 DEF Queued
  <2>2. \A k \in hooks : k[2] = 0
    BY <1>2
  <2> QED
    BY <1>1, <2>1, <2>2 DEF Asked
<1>7. NoWayBack /\ NewsInOrder
  <2>1. DOMAIN mail = {}
    BY <1>1
  <2> QED
    BY <1>3, <2>1 DEF NoWayBack, NewsInOrder
<1>8. ASSUME NEW j \in Job PROVE Account(j)
  <2>1. Messages(j) = 0
    <3>1. {n \in DOMAIN mail : mail[n].job = j} = {}
      BY <1>1
    <3> QED
      BY <3>1, FS_EmptySet DEF Messages
  <2>2. rows[j]["sent"] = 0 /\ Lines(j) = 0
    BY <1>1 DEF Lines, Line
  <2> QED
    BY <1>1, <1>3, <2>1, <2>2 DEF Account, Out, Written, Done
<1>9. Cardinality(Working) <= Concurrency
  <2>1. Working = {}
    BY <1>3 DEF Working, InWork
  <2> QED
    BY <2>1, FS_EmptySet, BoundsAssumption
<1> QED
  BY <1>4, <1>5, <1>6, <1>7, <1>8, <1>9 DEF IInv

\* ... and every step keeps it.
LEMMA StepInv == IInv /\ [Next]_vars => IInv'
<1> SUFFICES ASSUME IInv, [Next]_vars PROVE IInv'
  OBVIOUS
<1>1. /\ Types /\ Attempts /\ Asked /\ NoWayBack /\ NewsInOrder
      /\ \A j \in Job : Account(j)
      /\ Cardinality(Working) <= Concurrency
  BY DEF IInv
<1>2. Types' /\ Attempts'
  BY <1>1, TypesKept
<1>3. Asked'
  BY <1>1, AskedKept
<1>4. NoWayBack' /\ NewsInOrder'
  BY <1>1, NewsKept
<1>5. \A j \in Job : Account(j)'
  BY <1>1, AccountKept
<1>6. Cardinality(Working') <= Concurrency
  BY <1>1, WorkKept
<1> QED
  BY <1>2, <1>3, <1>4, <1>5, <1>6 DEF IInv, Job

\* So it holds in every state.
LEMMA Invariance == Spec => []IInv
BY InitInv, StepInv, PTL DEF Spec

\* Every variable has its type, no job has more attempts than it may, and the
\* worker no more jobs at once.
THEOREM TypeCorrect == Spec => []TypeOK
<1>1. IInv => TypeOK
  BY DEF IInv, Types, Attempts, TypeOK, JobRow, State
<1> QED
  BY <1>1, Invariance, PTL

\* An email goes out once for every time its sending was not forgotten, and
\* the order's trail has no line too many.
THEOREM EmailsSentOnce == Spec => []SentOnce
<1>1. IInv => SentOnce
  <2> SUFFICES ASSUME IInv, NEW j \in Job
               PROVE  /\ Messages(j) <= 1 + lost[j]
                      /\ rows[j].sent <= Messages(j)
                      /\ Lines(j) <= 1 + lost[j]
                      /\ j \in Queued => j[2] <= resends
    BY DEF SentOnce
  <2>1. Account(j) /\ Types /\ Asked
    BY DEF IInv
  <2>2. rows[j]["sent"] \in Nat /\ Lines(j) \in Nat /\ lost[j] \in Nat /\ Messages(j) \in Nat
    BY <2>1, Counts
  <2>3. j \in Queued => j[2] <= resends
    BY <2>1 DEF Asked
  <2> QED
    BY <2>1, <2>2, <2>3 DEF Account
<1> QED
  BY <1>1, Invariance, PTL

\* Instructions to pay never follow the news that an order has ended, unless
\* the attempt had looked at the order before that news was out.
THEOREM NewsNeverOvertaken == Spec => []NewsInOrder
<1>1. IInv => NewsInOrder
  BY DEF IInv
<1> QED
  BY <1>1, Invariance, PTL
=============================================================================
