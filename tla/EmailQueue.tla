----------------------------- MODULE EmailQueue -----------------------------
(***************************************************************************)
(* The emails of one order.  A change of the order commits, then hands the *)
(* queue a job; a worker looks at the order again, sends what still fits,  *)
(* and leaves a line in the order's audit trail.  The mail provider's      *)
(* answer can get lost and the worker can die between any two steps, so an *)
(* email may be sent again, never without such a reason.  What the queue   *)
(* itself does (the BullMQ library) is modelled from how it is configured; *)
(* the wait before a retry is a job that waits.                            *)
(***************************************************************************)
EXTENDS Naturals, Sequences, FiniteSets

CONSTANTS
  Concurrency,  \* jobs the worker has at once
  MaxAttempts,  \* attempts of one job
  MaxResends,   \* bound on the emails an admin asks for again,
  MaxJobs,      \* and on the jobs they may bring the order to
  MaxFaults     \* bound on what goes wrong: sends, writes, deaths of the worker

ASSUME BoundsAssumption ==
  /\ Concurrency \in Nat \ {0} /\ MaxAttempts \in Nat \ {0}
  /\ MaxResends \in Nat /\ MaxJobs \in Nat /\ MaxFaults \in Nat

Kind == {"payment-instructions", "tickets-issued", "rejected", "expired"}
Status == {"pending_payment", "pending_verification", "issued", "rejected", "expired", "cancelled"}

\* A job's id is its kind's, so a kind is queued once; a resend has its own.
Job == (Kind \X {0}) \cup ({"tickets-issued"} \X (1 .. MaxResends))
KindOf(j) == j[1]

VARIABLES
  status,     \* the order's
  lapsed,     \* its hold's deadline is over
  resends,    \* rows "email.resend_requested" in its trail
  hooks,      \* jobs that requests, their change committed, are handing over
  job,        \* the queue: each job's state, attempts made, and of the attempt
              \*   that looked at the order, how many emails were out then
  mail,       \* what the provider accepted: the job, and that number
  rows,       \* lines of each job in the trail: sent, skipped, failed
  reporting,  \* failed jobs whose line is being written
  lost,       \* attempts of each job whose sending or skipping was forgotten
  unwritten,  \* jobs of which a line could not be written
  faults

order == <<status, lapsed, resends>>
history == <<lost, unwritten>>
vars == <<order, hooks, job, mail, rows, reporting, history, faults>>

Line == {"sent", "skipped", "failed"}
InWork == {"active", "ready", "accepted", "recorded"}
Done == {"completed", "failed"}
\* A job's row, of no attempt that has looked at the order.
At(state, made) == [state |-> state, made |-> made, knew |-> 0]
Queued == {j \in Job : job[j].state # "absent"}
Working == {j \in Job : job[j].state \in InWork}

Messages(j) == Cardinality({n \in DOMAIN mail : mail[n].job = j})
Lines(j) == rows[j].sent + rows[j].skipped + rows[j].failed

-----------------------------------------------------------------------------
(* The order, and the hooks after its commits.                             *)

Transitions ==
  {<<"pending_payment", "pending_verification">>, <<"pending_payment", "expired">>,
   <<"pending_verification", "issued">>, <<"pending_verification", "rejected">>,
   <<"issued", "cancelled">>}

Announced(to) ==
  CASE to = "issued" -> {<<"tickets-issued", 0>>}
    [] to \in {"rejected", "expired"} -> {<<to, 0>>}
    [] OTHER -> {}

OrderMoves(to) ==
  /\ <<status, to>> \in Transitions
  /\ to = "expired" => lapsed
  /\ status' = to
  /\ hooks' = hooks \cup Announced(to)
  /\ UNCHANGED <<lapsed, resends, job, mail, rows, reporting, history, faults>>

HoldLapses ==
  /\ ~lapsed /\ status \in {"pending_payment", "pending_verification"}
  /\ lapsed' = TRUE
  /\ UNCHANGED <<status, resends, hooks, job, mail, rows, reporting, history, faults>>

\* resendTicketsEmail: who asked is written down before the job exists.  (The
\* status it checks may be old by then; the worker looks again.)
Resend ==
  /\ status = "issued"
  /\ resends < MaxResends /\ Cardinality(hooks \cup Queued) < MaxJobs
  /\ resends' = resends + 1
  /\ hooks' = hooks \cup {<<"tickets-issued", resends + 1>>}
  /\ UNCHANGED <<status, lapsed, job, mail, rows, reporting, history, faults>>

\* enqueueEmail's command reaches Redis, be it after the hook's time limit.
\* A job whose id exists is left alone.
Enqueue(j) ==
  /\ job' = IF j \in Queued THEN job ELSE [job EXCEPT ![j] = At("waiting", 0)]
  /\ hooks' = hooks \ {j}
  /\ UNCHANGED <<order, mail, rows, reporting, history, faults>>

\* It never does: Redis is away, which is only logged, or the process dies.
NotEnqueued(j) ==
  /\ hooks' = hooks \ {j}
  /\ UNCHANGED <<order, job, mail, rows, reporting, history, faults>>

-----------------------------------------------------------------------------
(* The worker.                                                             *)

Goes(j, state) == job' = [job EXCEPT ![j] = At(state, @.made)]
Write(j, line) == rows' = [rows EXCEPT ![j][line] = @ + 1]

Take(j) ==
  /\ job[j].state = "waiting" /\ Cardinality(Working) < Concurrency
  /\ Goes(j, "active")
  /\ UNCHANGED <<order, hooks, mail, rows, reporting, history, faults>>

\* SENDABLE
Sendable_Always(kind) == Status  \* seeded fault: no status guard
Sendable(kind) ==
  CASE kind = "payment-instructions" -> {"pending_payment", "pending_verification"}
    [] kind = "tickets-issued" -> {"issued"}
    [] OTHER -> {kind}

Fits(j) == status \in Sendable(KindOf(j)) /\ ~(KindOf(j) = "payment-instructions" /\ lapsed)

\* dispatch: the order is read once; what no longer fits is skipped.
Look(j) ==
  /\ job[j].state = "active"
  /\ IF Fits(j)
       THEN /\ job' = [job EXCEPT ![j] = [state |-> "ready", made |-> @.made, knew |-> Len(mail)]]
            /\ UNCHANGED rows
       ELSE Goes(j, "recorded") /\ Write(j, "skipped")
  /\ UNCHANGED <<order, hooks, mail, reporting, history, faults>>

\* Something goes wrong.
Fault == faults < MaxFaults /\ faults' = faults + 1

Accepted(j) == mail' = Append(mail, [job |-> j, knew |-> job[j].knew])

\* The provider has the message, and says so.
Send(j) ==
  /\ job[j].state = "ready" /\ Goes(j, "accepted") /\ Accepted(j)
  /\ UNCHANGED <<order, hooks, rows, reporting, history, faults>>

Final_OneMore(made) == made > MaxAttempts  \* seeded fault
\* Of the attempts made, the last: the job is not tried again.
Final(made) == made >= MaxAttempts

Reports_Never(made) == FALSE  \* seeded fault: only what is refused for good is reported
\* The failed handler writes a line after the last attempt.
Reports(made) == Final(made)

AttemptFails(j) ==
  LET made == job[j].made + 1
  IN  /\ job' = [job EXCEPT ![j] = At(IF Final(made) THEN "failed" ELSE "waiting", made)]
      /\ reporting' = IF Reports(made) THEN reporting \cup {j} ELSE reporting

\* The message is accepted but the answer lost.
SendUnanswered(j) ==
  /\ Fault /\ job[j].state = "ready" /\ Accepted(j) /\ AttemptFails(j)
  /\ lost' = [lost EXCEPT ![j] = @ + 1]
  /\ UNCHANGED <<order, hooks, rows, unwritten>>

\* The provider is not reached or throttles; or the order cannot be read, or
\* the line of a skipped email not be written.
SendFails(j) ==
  /\ Fault /\ job[j].state \in {"active", "ready"} /\ AttemptFails(j)
  /\ UNCHANGED <<order, hooks, mail, rows, history>>

\* The provider will never accept it.
Refused(j) ==
  /\ Fault /\ job[j].state = "ready"
  /\ job' = [job EXCEPT ![j] = At("failed", @.made + 1)]
  /\ reporting' = reporting \cup {j}
  /\ UNCHANGED <<order, hooks, mail, rows, history>>

Record(j) ==
  /\ job[j].state = "accepted" /\ Goes(j, "recorded") /\ Write(j, "sent")
  /\ UNCHANGED <<order, hooks, mail, reporting, history, faults>>

AfterUnrecorded_Retry == "waiting"  \* seeded fault: the error fails the job
\* The error is caught: the message is out, the job must not run again.
AfterUnrecorded == "recorded"

RecordFails(j) ==
  /\ Fault /\ job[j].state = "accepted" /\ Goes(j, AfterUnrecorded)
  /\ unwritten' = unwritten \cup {j}
  /\ UNCHANGED <<order, hooks, mail, rows, reporting, lost>>

Complete(j) ==
  /\ job[j].state = "recorded" /\ Goes(j, "completed")
  /\ UNCHANGED <<order, hooks, mail, rows, reporting, history, faults>>

ReportFailure(j) ==
  /\ j \in reporting /\ reporting' = reporting \ {j} /\ Write(j, "failed")
  /\ UNCHANGED <<order, hooks, job, mail, history, faults>>

ReportFails(j) ==
  /\ Fault /\ j \in reporting /\ reporting' = reporting \ {j}
  /\ unwritten' = unwritten \cup {j}
  /\ UNCHANGED <<order, hooks, job, mail, rows, lost>>

\* The worker dies: what it had in work waits again, no attempt counted, and
\* the lines it was writing are never written.
Crash ==
  /\ Fault
  /\ job' = [j \in Job |-> IF j \in Working THEN At("waiting", job[j].made) ELSE job[j]]
  /\ lost' = [j \in Job |-> IF job[j].state \in {"accepted", "recorded"} THEN lost[j] + 1 ELSE lost[j]]
  /\ unwritten' = unwritten \cup reporting
  /\ reporting' = {}
  /\ UNCHANGED <<order, hooks, mail, rows>>

-----------------------------------------------------------------------------
\* An order is placed, or given as complimentary tickets.
Init ==
  /\ \/ status = "pending_payment" /\ hooks = {<<"payment-instructions", 0>>}
     \/ status = "issued" /\ hooks = {<<"tickets-issued", 0>>}
  /\ lapsed = FALSE /\ resends = 0
  /\ job = [j \in Job |-> At("absent", 0)]
  /\ mail = <<>>
  /\ rows = [j \in Job |-> [l \in Line |-> 0]]
  /\ reporting = {} /\ lost = [j \in Job |-> 0] /\ unwritten = {}
  /\ faults = 0

Attempt(j) ==
  \/ Take(j) \/ Look(j) \/ Send(j) \/ SendUnanswered(j) \/ SendFails(j) \/ Refused(j)
  \/ Record(j) \/ RecordFails(j) \/ Complete(j)
Report(j) == ReportFailure(j) \/ ReportFails(j)

Next ==
  \/ \E to \in Status : OrderMoves(to)
  \/ HoldLapses \/ Resend \/ Crash
  \/ \E j \in hooks : Enqueue(j) \/ NotEnqueued(j)
  \/ \E j \in Job : Attempt(j) \/ Report(j)

\* The worker is restarted when it dies, and takes jobs as long as there are any.
Fairness == \A j \in Job : WF_vars(Attempt(j) \/ Report(j))

Spec == Init /\ [][Next]_vars /\ Fairness

-----------------------------------------------------------------------------
(* Properties.                                                             *)

\* The type invariant, with the bounds on the work: no job is tried more often
\* than it may be, and the worker never has more of them than it should.
TypeOK ==
  /\ status \in Status /\ lapsed \in BOOLEAN /\ resends \in 0 .. MaxResends
  /\ hooks \subseteq Job /\ reporting \subseteq Job /\ unwritten \subseteq Job
  /\ \A j \in Job : /\ job[j].state \in InWork \cup Done \cup {"absent", "waiting"}
                    /\ job[j].made \in 0 .. MaxAttempts
                    /\ job[j].state \notin Done => job[j].made < MaxAttempts
  /\ Cardinality(Working) <= Concurrency
  /\ faults \in 0 .. MaxFaults

\* An email goes out once, unless an answer was lost or the worker died after
\* it had gone; the trail has a line of it only if it went, one line for each
\* time a job had an outcome, and knows of every resend that was asked for.
SentOnce ==
  \A j \in Job :
    /\ Messages(j) <= 1 + lost[j]
    /\ rows[j].sent <= Messages(j)
    /\ Lines(j) <= 1 + lost[j]
    /\ j \in Queued => j[2] <= resends

\* A buyer who was told how the order ended is not then asked for money: only
\* an email whose attempt had looked at the order before the news was out can
\* still follow it.
NewsInOrder ==
  \A n, m \in DOMAIN mail :
    /\ n < m
    /\ KindOf(mail[n].job) # "payment-instructions"
    /\ KindOf(mail[m].job) = "payment-instructions"
    => mail[m].knew < n

\* Every email that was queued is sent, skipped or given up, and the trail
\* tells which unless that line could not be written.
EmailsSettle ==
  \A j \in Job :
    j \in Queued ~>
      job[j].state \in Done /\ j \notin reporting /\ (Lines(j) > 0 \/ j \in unwritten)
=============================================================================
