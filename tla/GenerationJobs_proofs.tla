----------------------- MODULE GenerationJobs_proofs -----------------------
(***************************************************************************)
(* Theorems about GenerationJobs for any number of requests, keys, worker  *)
(* losses and ticks: what a request's charge, row and message say about    *)
(* each other at every step of the chain of commits.                       *)
(***************************************************************************)
EXTENDS GenerationJobs, CreditLedger_proofs

\* A charge is linked to its own job or to none, and an empty row to none.
OwnJob(r) ==
    /\ charges[r].job \in {NoJob, r}
    /\ charges[r].state = "none" => charges[r].job = NoJob

\* What a submit has not done yet has not happened.
NotYet(r) ==
    /\ submit[r].pc \in {"idle", "lookup", "hold"} => charges[r].state = "none"
    /\ submit[r].pc \in {"idle", "lookup", "hold", "create", "refund_duplicate", "link",
                         "duplicate"} =>
           charges[r].job = NoJob
    /\ submit[r].pc \in {"idle", "lookup", "hold", "create", "refund_duplicate", "link",
                         "duplicate", "send"} =>
           task[r].state = "none"

\* Nobody knows of a job before its row is there.
Unborn(r) ==
    submit[r].pc \in {"idle", "lookup", "hold", "create"} =>
        /\ jobs[r].status = "none" /\ cancel[r].pc = "idle"
        /\ \A status \in Terminal : <<r, status>> \notin seen

\* From the link on, and wherever a task is, the charge names the job.
Linked(r) ==
    submit[r].pc \in {"send", "refund_unsent", "replied"} \/ task[r].state # "none" =>
        charges[r].state # "none" /\ charges[r].job = r

\* A worker works on a message it has been given.
Started(r) == work[r] # "idle" => task[r].state = "started"

\* Nobody reads "succeeded" before there is a result.
SuccessIsReal(r) ==
    jobs[r].status = "succeeded" \/ <<r, "succeeded">> \in seen => jobs[r].published

SpentIsReal(r) == charges[r].state = "spent" => charges[r].job = r /\ jobs[r].published

FreeDuplicate(r) == submit[r].pc = "duplicate" => charges[r].state \in {"none", "refunded"}

RequestInv(r) ==
    /\ OwnJob(r) /\ NotYet(r) /\ Unborn(r) /\ Linked(r) /\ Started(r)
    /\ SuccessIsReal(r) /\ SpentIsReal(r) /\ FreeDuplicate(r)

\* A row that is not there has neither an idempotency key nor a result.
NoRowNoKey ==
    \A j \in Requests :
        jobs[j].status = "none" => jobs[j].idem = NoIdem /\ ~jobs[j].published

GenInv ==
    /\ TypeOK
    /\ \A r \in Requests : RequestInv(r)
    /\ NoRowNoKey
    /\ OneJobPerIdempotencyKey

-----------------------------------------------------------------------------

\* Whatever the chain does to the ledger, the ledger alone allows too.
LEMMA LedgerAllowsIt ==
  ASSUME TypeOK, [GenNext]_vars
  PROVE  [Next]_ledgerVars
<1>1. ASSUME NEW r \in Requests, SubmitStep(r) PROVE [Next]_ledgerVars
  <2>1. CASE SubmitHold(r)
    <3>1. submit[r].owner \in Keys \cup {NoKey}
      BY DEF TypeOK, SubmitRows, Owners
    <3>2. HoldStep(r)
      BY <2>1, <3>1 DEF SubmitHold, HoldStep
    <3>. QED
      BY <3>2 DEF Next
  <2>2. CASE LinkJob(r)
    BY <2>2, JobsAssumption DEF LinkJob, LinkStep, Next
  <2>3. CASE RefundDuplicate(r) \/ RefundUnsent(r)
    BY <2>3 DEF RefundDuplicate, RefundUnsent, SettleStep, Statuses, Next
  <2>4. CASE Call(r) \/ Lookup(r) \/ SubmitUncharged(r) \/ SubmitRefused(r)
    BY <2>4 DEF Call, Lookup, SubmitUncharged, SubmitRefused
  <2>5. CASE CreateJob(r) \/ LinkFails(r) \/ SendTask(r) \/ SendFails(r) \/ Abandon(r)
    BY <2>5 DEF CreateJob, LinkFails, SendTask, SendFails, Abandon
  <2>. QED
    BY <1>1, <2>1, <2>2, <2>3, <2>4, <2>5 DEF SubmitStep
<1>2. ASSUME NEW r \in Requests, WorkStep(r) \/ CancelStep(r) \/ Poll(r)
      PROVE  [Next]_ledgerVars
  BY <1>2 DEF WorkStep, Deliver, TaskRaises, Generate, StopCancelled, GotResult, Upload,
       Publish, GenerationFails, Acknowledge, WorkerLost, CancelStep, CancelRead, CancelRevoke,
       CancelWrite, Poll
<1>3. ASSUME NEW r \in Requests, ReconcileRow(r) PROVE [Next]_ledgerVars
  <2>1. charges[r].job \in JobIds \cup {NoJob}
    BY DEF TypeOK, LedgerTypeOK, ChargeRows
  <2>2. CASE Settle(r, "failed")
    BY <2>2 DEF SettleStep, Statuses, Next
  <2>3. CASE charges[r].job # NoJob /\ jobs[charges[r].job].status \in Terminal
               /\ SettleJob(charges[r].job, jobs[charges[r].job].status)
    BY <2>1, <2>3 DEF SettleJobStep, Statuses, Terminal, Next
  <2>4. CASE ReadOrphan(r)
    BY <2>4 DEF ReadOrphan
  <2>. QED
    BY <1>3, <2>2, <2>3, <2>4 DEF ReconcileRow, SettleEnded, RefundOrphan
<1>4. ASSUME NEW r \in Requests, NEW status \in Terminal, SettleSeen(r, status)
      PROVE  [Next]_ledgerVars
  BY <1>4, JobsAssumption DEF SettleSeen, SettleJobStep, Statuses, Terminal, Next
<1>5. CASE LedgerStep
  BY <1>5 DEF LedgerStep, KeyStep, Next
<1>6. CASE UNCHANGED vars
  BY <1>6 DEF vars
<1>. QED
  BY <1>1, <1>2, <1>3, <1>4, <1>5, <1>6 DEF GenNext

\* Moving a submit's program counter, or a row's status, keeps the types.
LEMMA GoToType ==
  ASSUME submit \in [Requests -> SubmitRows], NEW r \in Requests, NEW p \in SubmitPcs, GoTo(r, p)
  PROVE  submit' \in [Requests -> SubmitRows]
  BY DEF GoTo, SubmitRows

\* Writing a job's status keeps the types of its row and of seen.
LEMMA UpdateJobType ==
  ASSUME TypeOK, NEW j \in Requests, NEW status \in JobStatuses, UpdateJob(j, status)
  PROVE  /\ jobs' \in [Requests -> JobRows]
         /\ seen' \in SUBSET (Requests \X Terminal)
<1>1. [jobs[j] EXCEPT !.status = status] \in JobRows
  BY DEF TypeOK, JobRows
<1>2. status \in Terminal => <<j, status>> \in Requests \X Terminal
  OBVIOUS
<1>. QED
  BY <1>1, <1>2 DEF UpdateJob, TypeOK

\* Every step of the chain keeps the types of all its variables.
LEMMA GenTypeStep ==
  ASSUME TypeOK, [GenNext]_vars
  PROVE  TypeOK'
<1>. USE DEF TypeOK
<1>1. LedgerTypeOK'
  BY LedgerAllowsIt, LedgerNextTypeOK
<1>2. ASSUME NEW r \in Requests, SubmitStep(r) PROVE TypeOK'
  <2>0. \A p \in SubmitPcs : GoTo(r, p) => submit' \in [Requests -> SubmitRows]
    BY GoToType
  <2>. USE <1>1
  <2>1. CASE Call(r)
    <3>1. ASSUME NEW o \in Owners, NEW h \in MaybeIdem, NEW f \in MaybeIdem
          PROVE  [pc |-> "lookup", owner |-> o, header |-> h, ref |-> f] \in SubmitRows
      BY DEF SubmitRows, SubmitPcs
    <3>. QED
      BY <2>1, <3>1 DEF Call
  <2>2. CASE Lookup(r)
    <3>1. GoTo(r, "duplicate") \/ GoTo(r, "hold")
      BY <2>2 DEF Lookup
    <3>. QED
      BY <2>0, <2>2, <3>1 DEF Lookup, SubmitPcs
  <2>3. CASE SubmitHold(r)
    BY <2>0, <2>3 DEF SubmitHold, SubmitPcs
  <2>4. CASE SubmitUncharged(r) \/ SubmitRefused(r)
    BY <2>0, <2>4 DEF SubmitUncharged, SubmitRefused, SubmitPcs
  <2>5. CASE CreateJob(r)
    <3>1. submit[r] \in SubmitRows
      OBVIOUS
    <3>2. [status |-> "queued", owner |-> submit[r].owner, idem |-> DedupeKey(submit[r]),
           ref |-> submit[r].ref, published |-> FALSE] \in JobRows
      BY <3>1 DEF SubmitRows, JobRows, DedupeKey, JobStatuses
    <3>. QED
      BY <2>0, <2>5, <3>2 DEF CreateJob, SubmitPcs
  <2>6. CASE RefundDuplicate(r) \/ RefundUnsent(r) \/ LinkJob(r) \/ LinkFails(r) \/ Abandon(r)
    BY <2>0, <2>6 DEF RefundDuplicate, RefundUnsent, LinkJob, LinkFails, Abandon, SubmitPcs
  <2>7. CASE SendTask(r)
    BY <2>0, <2>7 DEF SendTask, SubmitPcs, TaskRows, TaskStates
  <2>8. CASE SendFails(r)
    <3>1. "failed" \in JobStatuses /\ "refund_unsent" \in SubmitPcs
      BY DEF JobStatuses, Terminal, SubmitPcs
    <3>2. task' \in [Requests -> TaskRows]
      BY <2>8 DEF SendFails, TaskRows, TaskStates
    <3>. QED
      BY <2>0, <2>8, <3>1, <3>2, UpdateJobType DEF SendFails
  <2>. QED
    BY <1>2, <2>1, <2>2, <2>3, <2>4, <2>5, <2>6, <2>7, <2>8 DEF SubmitStep
<1>3. ASSUME NEW j \in Requests, WorkStep(j) PROVE TypeOK'
  <2>. USE <1>1 DEF WorkPcs, EndTask
  <2>1. CASE Deliver(j)
    <3>1. [task[j] EXCEPT !.state = "done"] \in TaskRows
          /\ [task[j] EXCEPT !.state = "started"] \in TaskRows
      BY DEF TaskRows, TaskStates
    <3>2. CASE task[j].revoked
      BY <2>1, <3>1, <3>2 DEF Deliver
    <3>3. CASE ~task[j].revoked
      BY <2>1, <3>1, <3>3 DEF Deliver
    <3>. QED
      BY <3>2, <3>3
  <2>2. CASE TaskRaises(j) \/ GotResult(j) \/ Upload(j)
    BY <2>2 DEF TaskRaises, GotResult, Upload
  <2>3. CASE Generate(j) \/ StopCancelled(j) \/ GenerationFails(j)
    <3>1. {"running", "cancelled", "failed"} \subseteq JobStatuses
      BY DEF JobStatuses, Terminal
    <3>. QED
      BY <2>3, <3>1, UpdateJobType DEF Generate, StopCancelled, GenerationFails
  <2>4. CASE Publish(j)
    <3>1. [jobs[j] EXCEPT !.status = "succeeded", !.published = TRUE] \in JobRows
      BY DEF JobRows, JobStatuses, Terminal
    <3>2. jobs' \in [Requests -> JobRows]
      BY <2>4, <3>1 DEF Publish
    <3>3. seen' \in SUBSET (Requests \X Terminal)
      BY <2>4 DEF Publish, Terminal
    <3>. QED
      BY <2>4, <3>2, <3>3 DEF Publish
  <2>5. CASE Acknowledge(j) \/ WorkerLost(j)
    <3>1. \A state \in TaskStates : [task[j] EXCEPT !.state = state] \in TaskRows
      BY DEF TaskRows
    <3>2. CASE Acknowledge(j)
      BY <3>1, <3>2 DEF Acknowledge, TaskStates
    <3>3. CASE WorkerLost(j)
      BY <3>1, <3>3 DEF WorkerLost, TaskStates
    <3>. QED
      BY <2>5, <3>2, <3>3
  <2>. QED
    BY <1>3, <2>1, <2>2, <2>3, <2>4, <2>5 DEF WorkStep
<1>4. ASSUME NEW j \in Requests, CancelStep(j) PROVE TypeOK'
  <2>. USE <1>1
  <2>1. CASE CancelRead(j)
    BY <2>1 DEF CancelRead, CancelRows, JobRows
  <2>2. CASE CancelRevoke(j)
    BY <2>2 DEF CancelRevoke, CancelRows, TaskRows
  <2>3. CASE CancelWrite(j)
    <3>1. UpdateJob(j, "cancelled") \/ UpdateJob(j, "cancel_requested")
      BY <2>3 DEF CancelWrite
    <3>2. {"cancelled", "cancel_requested"} \subseteq JobStatuses
      BY DEF JobStatuses, Terminal
    <3>3. jobs' \in [Requests -> JobRows] /\ seen' \in SUBSET (Requests \X Terminal)
      BY <3>1, <3>2, UpdateJobType
    <3>. QED
      BY <2>3, <3>3 DEF CancelWrite, CancelRows, JobStatuses
  <2>. QED
    BY <1>4, <2>1, <2>2, <2>3 DEF CancelStep
<1>5. ASSUME NEW j \in Requests, Poll(j) PROVE TypeOK'
  BY <1>1, <1>5 DEF Poll
<1>6. ASSUME NEW r \in Requests, ReconcileRow(r) PROVE TypeOK'
  BY <1>1, <1>6 DEF ReconcileRow, SettleEnded, ReadOrphan, RefundOrphan, jobVars
<1>7. ASSUME NEW r \in Requests, NEW status \in Terminal, SettleSeen(r, status) PROVE TypeOK'
  BY <1>1, <1>7 DEF SettleSeen, jobVars
<1>8. CASE LedgerStep
  BY <1>1, <1>8 DEF LedgerStep, jobVars
<1>9. CASE UNCHANGED vars
  BY <1>1, <1>9 DEF vars, jobVars
<1>. QED
  BY <1>2, <1>3, <1>4, <1>5, <1>6, <1>7, <1>8, <1>9 DEF GenNext

\* Init of the chain is one of the ledger's states, with the keys in place.
LEMMA GenInit == Init => GenInv
<1>. SUFFICES ASSUME Init PROVE GenInv
     OBVIOUS
<1>1. LedgerTypeOK
  BY NoKeyAssumption, ChoicesAssumption
  DEF Init, LedgerTypeOK, KeyRows, ChargeRows, ChargeStates, NoRow, NoCharge, Unlimited, Limits
<1>2. TypeOK
  BY <1>1 DEF Init, TypeOK, SubmitRows, SubmitPcs, Owners, MaybeIdem, JobRows, JobStatuses,
               TaskRows, TaskStates, WorkPcs, CancelRows
<1>3. ASSUME NEW r \in Requests PROVE RequestInv(r)
  BY DEF Init, NoCharge, RequestInv, OwnJob, NotYet, Unborn, Linked, Started, SuccessIsReal,
         SpentIsReal, FreeDuplicate
<1>4. NoRowNoKey /\ OneJobPerIdempotencyKey
  BY DEF Init, NoRowNoKey, OneJobPerIdempotencyKey, Jobs
<1>. QED
  BY <1>2, <1>3, <1>4 DEF GenInv

\* Steps of one request touch the rows, messages and worker of that request only.
LEMMA Others ==
  ASSUME TypeOK, NEW r \in Requests, NEW q \in Requests, q # r,
         SubmitStep(r) \/ WorkStep(r) \/ CancelStep(r) \/ Poll(r)
  PROVE  /\ charges'[q] = charges[q] /\ submit'[q] = submit[q] /\ jobs'[q] = jobs[q]
         /\ task'[q] = task[q] /\ work'[q] = work[q] /\ cancel'[q] = cancel[q]
         /\ \A status \in Terminal : <<q, status>> \in seen' <=> <<q, status>> \in seen
<1>1. CASE SubmitStep(r)
  <2>. USE DEF TypeOK, LedgerTypeOK, GoTo
  <2>1. CASE Call(r) \/ Lookup(r) \/ SubmitUncharged(r) \/ SubmitRefused(r) \/ LinkFails(r) \/ Abandon(r)
    BY <2>1 DEF Call, Lookup, SubmitUncharged, SubmitRefused, LinkFails, Abandon, ledgerVars
  <2>2. CASE SubmitHold(r)
    BY <2>2 DEF SubmitHold, Hold
  <2>3. CASE CreateJob(r)
    BY <2>3 DEF CreateJob, ledgerVars
  <2>4. CASE RefundDuplicate(r) \/ RefundUnsent(r)
    BY <2>4 DEF RefundDuplicate, RefundUnsent, Settle, SettleHeld
  <2>5. CASE LinkJob(r)
    BY <2>5 DEF LinkJob, Link
  <2>6. CASE SendTask(r)
    BY <2>6 DEF SendTask, ledgerVars
  <2>7. CASE SendFails(r)
    BY <2>7 DEF SendFails, UpdateJob, ledgerVars
  <2>. QED
    BY <1>1, <2>1, <2>2, <2>3, <2>4, <2>5, <2>6, <2>7 DEF SubmitStep
<1>2. CASE WorkStep(r)
  <2>. USE DEF TypeOK, EndTask, ledgerVars
  <2>1. CASE Deliver(r) \/ TaskRaises(r) \/ GotResult(r) \/ Upload(r) \/ Acknowledge(r) \/ WorkerLost(r)
    BY <2>1 DEF Deliver, TaskRaises, GotResult, Upload, Acknowledge, WorkerLost
  <2>2. CASE Generate(r) \/ StopCancelled(r) \/ GenerationFails(r)
    BY <2>2 DEF Generate, StopCancelled, GenerationFails, UpdateJob
  <2>3. CASE Publish(r)
    BY <2>3 DEF Publish
  <2>. QED
    BY <1>2, <2>1, <2>2, <2>3 DEF WorkStep
<1>3. CASE CancelStep(r)
  BY <1>3 DEF CancelStep, CancelRead, CancelRevoke, CancelWrite, UpdateJob, TypeOK, ledgerVars
<1>4. CASE Poll(r)
  BY <1>4 DEF Poll, ledgerVars
<1>. QED
  BY <1>1, <1>2, <1>3, <1>4

\* So the invariant of every other request is kept.
LEMMA OthersKeep ==
  ASSUME TypeOK, NEW r \in Requests, NEW q \in Requests, q # r, RequestInv(q),
         SubmitStep(r) \/ WorkStep(r) \/ CancelStep(r) \/ Poll(r)
  PROVE  RequestInv(q)'
<1>1. /\ charges'[q] = charges[q] /\ submit'[q] = submit[q] /\ jobs'[q] = jobs[q]
      /\ task'[q] = task[q] /\ work'[q] = work[q] /\ cancel'[q] = cancel[q]
      /\ \A status \in Terminal : <<q, status>> \in seen' <=> <<q, status>> \in seen
  BY Others
<1>. QED
  BY <1>1 DEF Terminal, RequestInv, OwnJob, NotYet, Unborn, Linked, Started, SuccessIsReal, SpentIsReal, FreeDuplicate
-----------------------------------------------------------------------------
(* What happens to a charge, for PrepaidOrder and for the invariant.       *)

Refunds(q) ==
    charges[q].state = "held" /\ charges'[q] = [charges[q] EXCEPT !.state = "refunded"]

Spends(q) ==
    /\ charges[q].state = "held" /\ charges[q].job = q /\ jobs[q].published
    /\ charges'[q] = [charges[q] EXCEPT !.state = "spent"]

SettlesAtMost(q) == charges'[q] = charges[q] \/ Refunds(q) \/ Spends(q)

\* A settlement by request id is always a refund.
LEMMA FailedRefunds ==
  ASSUME TypeOK, NEW r \in Requests, NEW q \in Requests, Settle(r, "failed")
  PROVE  SettlesAtMost(q) /\ ~Spends(q) /\ (q # r => charges'[q] = charges[q])
                          /\ (q = r => charges'[q].state # "held")
<1>1. charges[q] \in ChargeRows
  BY DEF TypeOK, LedgerTypeOK
<1>2. charges'[q] = IF q = r /\ charges[q].state = "held"
                    THEN [charges[q] EXCEPT !.state = "refunded"] ELSE charges[q]
  BY DEF Settle, SettleHeld, SettledAs
<1>. QED
  BY <1>1, <1>2 DEF SettlesAtMost, Refunds, Spends, ChargeRows

\* A settlement by job id reaches the job's own charge, and spends it only if
\* the status is "succeeded".
LEMMA JobSettles ==
  ASSUME TypeOK, NEW j \in Requests, NEW status \in Terminal, SettleJob(j, status),
         NEW q \in Requests, OwnJob(q),
         status = "succeeded" => jobs[j].published
  PROVE  SettlesAtMost(q) /\ (q # j => charges'[q] = charges[q])
<1>1. charges[q] \in ChargeRows /\ NoJob # j
  BY JobsAssumption, NoJobAssumption DEF TypeOK, LedgerTypeOK
<1>2. charges'[q] = IF charges[q].job = j /\ charges[q].state = "held"
                    THEN [charges[q] EXCEPT !.state = SettledAs(status)] ELSE charges[q]
  BY DEF SettleJob, SettleHeld, RequestsOf
<1>3. charges[q].job = j => q = j
  BY <1>1 DEF OwnJob
<1>4. CASE status = "succeeded"
  BY <1>1, <1>2, <1>3, <1>4 DEF SettlesAtMost, Spends, SettledAs
<1>5. CASE status # "succeeded"
  BY <1>1, <1>2, <1>3, <1>5 DEF SettlesAtMost, Refunds, SettledAs
<1>. QED
  BY <1>4, <1>5

\* A settlement alone keeps a request's invariant.
LEMMA SettlementKeeps ==
  ASSUME TypeOK, NEW q \in Requests, RequestInv(q), SettlesAtMost(q),
         submit'[q] = submit[q], jobs'[q] = jobs[q], task'[q] = task[q], work'[q] = work[q],
         cancel'[q] = cancel[q], seen' = seen
  PROVE  RequestInv(q)'
<1>1. charges[q] \in ChargeRows
  BY DEF TypeOK, LedgerTypeOK
<1>2. /\ charges'[q].job = charges[q].job
      /\ \/ charges'[q].state = charges[q].state
         \/ charges[q].state = "held" /\ charges'[q].state \in {"spent", "refunded"}
      /\ charges'[q].state = "spent" =>
            charges[q].state = "spent" \/ (charges[q].job = q /\ jobs[q].published)
  <2>1. CASE charges'[q] = charges[q]
    BY <2>1
  <2>2. CASE Refunds(q)
    BY <1>1, <2>2 DEF Refunds, ChargeRows
  <2>3. CASE Spends(q)
    BY <1>1, <2>3 DEF Spends, ChargeRows
  <2>. QED
    BY <2>1, <2>2, <2>3 DEF SettlesAtMost
<1>3. charges[q].state = "held" => submit[q].pc # "duplicate"
  BY DEF RequestInv, FreeDuplicate
<1>4. Unborn(q)' /\ SuccessIsReal(q)' /\ Started(q)'
  BY DEF RequestInv, Unborn, SuccessIsReal, Started
<1>5. OwnJob(q)' /\ NotYet(q)' /\ Linked(q)' /\ SpentIsReal(q)' /\ FreeDuplicate(q)'
  BY <1>2, <1>3 DEF RequestInv, OwnJob, NotYet, Linked, SpentIsReal, FreeDuplicate
<1>. QED
  BY <1>4, <1>5 DEF RequestInv

\* The submit's own steps.
LEMMA SubmitKeeps ==
  ASSUME TypeOK, NEW r \in Requests, RequestInv(r), SubmitStep(r)
  PROVE  RequestInv(r)'
<1>. USE DEF RequestInv, OwnJob, NotYet, Unborn, Linked, Started, SuccessIsReal, SpentIsReal, FreeDuplicate
<1>0. charges[r] \in ChargeRows /\ submit[r] \in SubmitRows /\ jobs[r] \in JobRows
      /\ task[r] \in TaskRows
  BY DEF TypeOK, LedgerTypeOK
<1>a. \A p : GoTo(r, p) => submit'[r].pc = p
  BY DEF GoTo, TypeOK, SubmitRows
<1>1. CASE Call(r)
  BY <1>0, <1>1 DEF Call, TypeOK, ledgerVars
<1>2. CASE Lookup(r)
  <2>1. submit'[r].pc \in {"duplicate", "hold"}
    BY <1>a, <1>2 DEF Lookup
  <2>. QED
    BY <1>2, <2>1 DEF Lookup, ledgerVars
<1>3. CASE SubmitHold(r)
  <2>1. charges'[r].state = "held" /\ charges'[r].job = NoJob
    BY <1>3 DEF SubmitHold, Hold, TypeOK, LedgerTypeOK
  <2>2. submit'[r].pc = "create" /\ task' = task /\ work' = work /\ jobs' = jobs /\ seen' = seen
    BY <1>a, <1>3 DEF SubmitHold
  <2>. QED
    BY <1>3, <2>1, <2>2 DEF SubmitHold
<1>4. CASE SubmitUncharged(r) \/ SubmitRefused(r) \/ LinkFails(r) \/ Abandon(r)
  BY <1>a, <1>4 DEF SubmitUncharged, SubmitRefused, LinkFails, Abandon, ledgerVars
<1>5. CASE CreateJob(r)
  <2>1. submit'[r].pc \in {"refund_duplicate", "link"}
    BY <1>a, <1>5 DEF CreateJob
  <2>2. <<r, "succeeded">> \notin seen
    BY <1>5 DEF CreateJob, Terminal
  <2>3. jobs'[r] = jobs[r] \/ jobs'[r].status = "queued"
    BY <1>5 DEF CreateJob, TypeOK
  <2>4. charges[r].state # "spent"
    BY <1>5, JobsAssumption, NoJobAssumption DEF CreateJob
  <2>5. UNCHANGED <<charges, task, work, cancel, seen>>
    BY <1>5 DEF CreateJob, ledgerVars
  <2>6. submit[r].pc = "create"
    BY <1>5 DEF CreateJob
  <2>. QED
    BY <2>1, <2>2, <2>3, <2>4, <2>5, <2>6
<1>6. CASE RefundDuplicate(r)
  <2>1. submit[r].pc = "refund_duplicate" /\ submit'[r].pc = "duplicate"
        /\ UNCHANGED <<jobs, task, work, cancel, seen>>
    BY <1>a, <1>6 DEF RefundDuplicate
  <2>2. charges'[r].job = charges[r].job /\ charges'[r].state # "held"
        /\ (charges'[r].state = charges[r].state \/ charges'[r].state = "refunded")
    BY <1>0, <1>6, FailedRefunds
    DEF RefundDuplicate, SettlesAtMost, Refunds, ChargeRows
  <2>3. charges[r].state \in ChargeStates /\ charges[r].state # "spent"
    BY <1>0, <2>1, JobsAssumption, NoJobAssumption DEF ChargeRows
  <2>. QED
    BY <2>1, <2>2, <2>3 DEF ChargeStates
<1>7. CASE RefundUnsent(r)
  <2>1. submit[r].pc = "refund_unsent" /\ submit'[r].pc = "refused"
        /\ UNCHANGED <<jobs, task, work, cancel, seen>>
    BY <1>a, <1>7 DEF RefundUnsent
  <2>2. /\ charges'[r].job = charges[r].job
        /\ \/ charges'[r].state = charges[r].state
           \/ charges[r].state = "held" /\ charges'[r].state = "refunded"
    <3>1. charges'[r] = charges[r] \/ Refunds(r)
      BY <1>7, FailedRefunds DEF RefundUnsent, SettlesAtMost
    <3>. QED
      BY <1>0, <3>1 DEF Refunds, ChargeRows
  <2>. QED
    BY <2>1, <2>2
<1>8. CASE LinkJob(r)
  <2>1. charges'[r].job = r /\ charges'[r].state = charges[r].state /\ charges[r].state # "none"
    BY <1>0, <1>8 DEF LinkJob, Link, TypeOK, LedgerTypeOK, ChargeRows
  <2>. QED
    BY <1>a, <1>8, <2>1 DEF LinkJob
<1>9. CASE SendTask(r)
  <2>1. submit[r].pc = "send" /\ submit'[r].pc = "replied" /\ task'[r].state = "queued"
        /\ UNCHANGED <<charges, jobs, work, cancel, seen>>
    BY <1>a, <1>9 DEF SendTask, TypeOK, ledgerVars, TaskRows
  <2>2. work[r] = "idle" \/ task[r].state = "started"
    OBVIOUS
  <2>. QED
    BY <2>1, <2>2
<1>10. CASE SendFails(r)
  BY <1>0, <1>a, <1>10 DEF SendFails, UpdateJob, TypeOK, ledgerVars, TaskRows, JobRows, Terminal
<1>. QED
  BY <1>1, <1>2, <1>3, <1>4, <1>5, <1>6, <1>7, <1>8, <1>9, <1>10 DEF SubmitStep

\* The steps of the worker, of a cancel and of a poll.
LEMMA WorkKeeps ==
  ASSUME TypeOK, NEW r \in Requests, RequestInv(r), WorkStep(r) \/ CancelStep(r) \/ Poll(r)
  PROVE  RequestInv(r)'
<1>. USE DEF RequestInv, OwnJob, NotYet, Unborn, Linked, Started, SuccessIsReal, SpentIsReal, FreeDuplicate
<1>1. /\ charges' = charges /\ submit' = submit
      /\ task[r].state # "none" => task'[r].state # "none"
      /\ task[r].state = "none" => task'[r].state = "none"
      /\ work'[r] # "idle" => task'[r].state = "started"
  <2>. USE DEF TypeOK, TaskRows, WorkPcs, EndTask, ledgerVars
  <2>1. CASE Deliver(r)
    BY <2>1 DEF Deliver
  <2>2. CASE Acknowledge(r)
    BY <2>2 DEF Acknowledge
  <2>3. CASE WorkerLost(r)
    BY <2>3 DEF WorkerLost
  <2>4. CASE TaskRaises(r) \/ Generate(r) \/ StopCancelled(r) \/ GotResult(r) \/ Upload(r)
              \/ Publish(r) \/ GenerationFails(r)
    BY <2>4 DEF TaskRaises, Generate, StopCancelled, GotResult, Upload, Publish, GenerationFails
  <2>5. CASE CancelStep(r) \/ Poll(r)
    BY <2>5 DEF CancelStep, CancelRead, CancelRevoke, CancelWrite, Poll
  <2>. QED
    BY <2>1, <2>2, <2>3, <2>4, <2>5 DEF WorkStep
<1>2. /\ jobs[r].published => jobs'[r].published
      /\ jobs'[r].status = "succeeded" \/ <<r, "succeeded">> \in seen' => jobs'[r].published
  <2>. USE DEF TypeOK, JobRows, UpdateJob, Terminal
  <2>1. CASE Deliver(r) \/ TaskRaises(r) \/ GotResult(r) \/ Upload(r) \/ Acknowledge(r) \/ WorkerLost(r)
    BY <2>1 DEF Deliver, TaskRaises, GotResult, Upload, Acknowledge, WorkerLost
  <2>2. CASE Generate(r) \/ StopCancelled(r) \/ GenerationFails(r)
    BY <2>2 DEF Generate, StopCancelled, GenerationFails
  <2>3. CASE Publish(r)
    BY <2>3 DEF Publish
  <2>4. CASE CancelRead(r) \/ CancelRevoke(r)
    BY <2>4 DEF CancelRead, CancelRevoke
  <2>5. CASE CancelWrite(r)
    BY <2>5 DEF CancelWrite
  <2>6. CASE Poll(r)
    BY <2>6 DEF Poll
  <2>. QED
    BY <2>1, <2>2, <2>3, <2>4, <2>5, <2>6 DEF WorkStep, CancelStep
<1>3. submit[r].pc \notin {"idle", "lookup", "hold", "create"}
  <2>1. CASE WorkStep(r)
    BY <2>1 DEF WorkStep, Deliver, TaskRaises, GotResult, Upload, Acknowledge, WorkerLost,
                Generate, StopCancelled, GenerationFails, Publish
  <2>2. CASE CancelStep(r)
    BY <2>2 DEF CancelStep, CancelRead, CancelRevoke, CancelWrite, Jobs
  <2>3. CASE Poll(r)
    BY <2>3 DEF Poll, Terminal
  <2>. QED
    BY <2>1, <2>2, <2>3
<1>. QED
  BY <1>1, <1>2, <1>3
\* A settlement by a late reader or by the sweep: one charge, if any.
SettlesOnly(r) ==
    /\ \A q \in Requests : SettlesAtMost(q) /\ (q # r => charges'[q] = charges[q])
    /\ UNCHANGED <<submit, jobs, task, work, cancel, seen>>

\* The steps that settle late: the sweep, and whoever once read or wrote a status.
LEMMA LateSettlement ==
  ASSUME GenInv, NEW r \in Requests,
         ReconcileRow(r) \/ \E status \in Terminal : SettleSeen(r, status)
  PROVE  SettlesOnly(r)
<1>0. TypeOK /\ \A q \in Requests : OwnJob(q) /\ SuccessIsReal(q)
  BY DEF GenInv, RequestInv
<1>1. ASSUME NEW status \in Terminal, SettleSeen(r, status) PROVE SettlesOnly(r)
  <2>1. status = "succeeded" => jobs[r].published
    BY <1>0, <1>1 DEF SuccessIsReal, SettleSeen
  <2>. QED
    BY <1>0, <1>1, <2>1, JobSettles DEF SettleSeen, SettlesOnly, jobVars
<1>2. CASE RefundOrphan(r)
  BY <1>0, <1>2, FailedRefunds DEF RefundOrphan, SettlesOnly, jobVars
<1>3. CASE ReadOrphan(r)
  BY <1>3 DEF ReadOrphan, SettlesOnly, SettlesAtMost, ledgerVars
<1>4. CASE SettleEnded(r)
  <2>1. charges[r].job = r
    BY <1>0, <1>4 DEF SettleEnded, OwnJob
  <2>2. jobs[r].status = "succeeded" => jobs[r].published
    BY <1>0 DEF SuccessIsReal
  <2>. QED
    BY <1>0, <1>4, <2>1, <2>2, JobSettles DEF SettleEnded, SettlesOnly, jobVars
<1>. QED
  BY <1>1, <1>2, <1>3, <1>4 DEF ReconcileRow

\* The rows: their owner and key are written once, where the unique index
\* allows it.
SameRows ==
    \A q \in Requests :
        /\ jobs'[q].owner = jobs[q].owner /\ jobs'[q].idem = jobs[q].idem
        /\ jobs'[q].status = "none" => jobs[q].status = "none" /\ jobs'[q] = jobs[q]

\* Apart from a submit's own insert, no step touches a row's owner or key.
LEMMA RowsKept ==
  ASSUME TypeOK, NEW r \in Requests,
         SubmitStep(r) \/ WorkStep(r) \/ CancelStep(r) \/ Poll(r),
         ~CreateJob(r)
  PROVE  SameRows
<1>. USE DEF SameRows
<1>1. ASSUME NEW status \in JobStatuses \ {"none"}, UpdateJob(r, status) PROVE SameRows
  BY <1>1 DEF UpdateJob, TypeOK, JobRows
<1>2. CASE jobs' = jobs
  BY <1>2
<1>3. {"running", "failed", "cancelled", "cancel_requested"} \subseteq JobStatuses \ {"none"}
  BY DEF JobStatuses, Terminal
<1>4. CASE SubmitStep(r)
  <2>1. jobs' = jobs \/ UpdateJob(r, "failed")
    BY <1>4 DEF SubmitStep, Call, Lookup, SubmitHold, SubmitUncharged, SubmitRefused,
         RefundDuplicate, RefundUnsent, LinkJob, LinkFails, SendTask, SendFails, Abandon
  <2>. QED
    BY <1>1, <1>2, <1>3, <2>1
<1>5. CASE WorkStep(r)
  <2>1. CASE Publish(r)
    BY <2>1 DEF Publish, TypeOK, JobRows
  <2>2. CASE ~Publish(r)
    <3>1. jobs' = jobs \/ UpdateJob(r, "running") \/ UpdateJob(r, "cancelled") \/ UpdateJob(r, "failed")
      BY <1>5, <2>2 DEF WorkStep, Deliver, TaskRaises, Generate, StopCancelled, GotResult,
           Upload, GenerationFails, Acknowledge, WorkerLost
    <3>. QED
      BY <1>1, <1>2, <1>3, <3>1
  <2>. QED
    BY <2>1, <2>2
<1>6. CASE CancelStep(r)
  <2>1. jobs' = jobs \/ UpdateJob(r, "cancelled") \/ UpdateJob(r, "cancel_requested")
    BY <1>6 DEF CancelStep, CancelRead, CancelRevoke, CancelWrite
  <2>. QED
    BY <1>1, <1>2, <1>3, <2>1
<1>7. CASE Poll(r)
  BY <1>2, <1>7 DEF Poll
<1>. QED
  BY <1>4, <1>5, <1>6, <1>7

\* So those steps cannot make two rows with one key.
LEMMA RowsStayUnique ==
  ASSUME TypeOK, NoRowNoKey, OneJobPerIdempotencyKey, SameRows
  PROVE  NoRowNoKey' /\ OneJobPerIdempotencyKey'
<1>1. NoRowNoKey'
  BY DEF SameRows, NoRowNoKey
<1>2. ASSUME NEW j \in Jobs', jobs'[j].idem # NoIdem PROVE j \in Jobs
  BY <1>2 DEF SameRows, NoRowNoKey, Jobs
<1>3. OneJobPerIdempotencyKey'
  <2>1. SUFFICES ASSUME NEW i \in Jobs', NEW j \in Jobs', i # j, jobs'[i].idem # NoIdem
                 PROVE  <<jobs'[i].owner, jobs'[i].idem>> # <<jobs'[j].owner, jobs'[j].idem>>
    BY DEF OneJobPerIdempotencyKey
  <2>2. CASE jobs'[j].idem = NoIdem
    BY <2>1, <2>2
  <2>3. CASE jobs'[j].idem # NoIdem
    <3>1. i \in Jobs /\ j \in Jobs
      BY <1>2, <2>1, <2>3
    <3>. QED
      BY <2>1, <3>1 DEF OneJobPerIdempotencyKey, SameRows, Jobs
  <2>. QED
    BY <2>2, <2>3
<1>. QED
  BY <1>1, <1>3

\* The insert refuses a key its owner has used: the unique index at work.
LEMMA CreateKeepsUnique ==
  ASSUME TypeOK, NoRowNoKey, OneJobPerIdempotencyKey, NEW r \in Requests, CreateJob(r)
  PROVE  NoRowNoKey' /\ OneJobPerIdempotencyKey'
<1>1. CASE Collides(r)
  BY <1>1, RowsStayUnique DEF CreateJob, SameRows
<1>2. CASE ~Collides(r)
  <2>1. /\ jobs'[r].status = "queued" /\ jobs'[r].owner = submit[r].owner
        /\ jobs'[r].idem = DedupeKey(submit[r])
        /\ \A q \in Requests : q # r => jobs'[q] = jobs[q]
    BY <1>2 DEF CreateJob, TypeOK
  <2>2. \A j \in Jobs : DedupeKey(submit[r]) # NoIdem =>
            ~(jobs[j].owner = submit[r].owner /\ jobs[j].idem = DedupeKey(submit[r]))
    BY <1>2 DEF Collides
  <2>3. NoRowNoKey'
    BY <2>1 DEF NoRowNoKey
  <2>4. \A j \in Jobs' : j # r => j \in Jobs
    BY <2>1 DEF Jobs
  <2>5. OneJobPerIdempotencyKey'
    <3>1. SUFFICES ASSUME NEW i \in Jobs', NEW j \in Jobs', i # j, jobs'[i].idem # NoIdem,
                          jobs'[i].owner = jobs'[j].owner, jobs'[i].idem = jobs'[j].idem
                   PROVE  FALSE
      BY DEF OneJobPerIdempotencyKey
    <3>2. CASE i # r /\ j # r
      BY <2>1, <2>4, <3>1, <3>2 DEF OneJobPerIdempotencyKey, Jobs
    <3>3. CASE i = r
      BY <2>1, <2>2, <2>4, <3>1, <3>3 DEF Jobs
    <3>4. CASE j = r
      BY <2>1, <2>2, <2>4, <3>1, <3>4 DEF Jobs
    <3>. QED
      BY <3>2, <3>3, <3>4
  <2>. QED
    BY <2>3, <2>5
<1>. QED
  BY <1>1, <1>2
-----------------------------------------------------------------------------
(* The invariant and what follows from it.                                 *)

\* The invariant is inductive.
LEMMA GenInvStep == GenInv /\ [GenNext]_vars => GenInv'
<1>. SUFFICES ASSUME GenInv, [GenNext]_vars PROVE GenInv'
     OBVIOUS
<1>0. TypeOK' /\ TypeOK
  BY GenTypeStep DEF GenInv
<1>1. ASSUME NEW r \in Requests, SubmitStep(r) \/ WorkStep(r) \/ CancelStep(r) \/ Poll(r)
      PROVE  GenInv'
  <2>1. \A q \in Requests : RequestInv(q)
    BY DEF GenInv
  <2>2. \A q \in Requests : q # r => RequestInv(q)'
    BY <1>0, <1>1, <2>1, OthersKeep
  <2>3. RequestInv(r)'
    BY <1>0, <1>1, <2>1, SubmitKeeps, WorkKeeps
  <2>4. NoRowNoKey' /\ OneJobPerIdempotencyKey'
    <3>1. CASE CreateJob(r)
      BY <1>0, <3>1, CreateKeepsUnique DEF GenInv
    <3>2. CASE ~CreateJob(r)
      BY <1>0, <1>1, <3>2, RowsKept, RowsStayUnique DEF GenInv
    <3>. QED
      BY <3>1, <3>2
  <2>. QED
    BY <1>0, <2>2, <2>3, <2>4 DEF GenInv
<1>2. ASSUME UNCHANGED <<submit, jobs, task, work, cancel, seen>>, \A q \in Requests : SettlesAtMost(q)
      PROVE  GenInv'
  <2>1. \A q \in Requests : RequestInv(q)'
    BY <1>0, <1>2, SettlementKeeps DEF GenInv
  <2>2. SameRows
    BY <1>0, <1>2 DEF SameRows
  <2>. QED
    BY <1>0, <2>1, <2>2, RowsStayUnique DEF GenInv
<1>3. ASSUME NEW r \in Requests,
             ReconcileRow(r) \/ \E status \in Terminal : SettleSeen(r, status)
      PROVE  GenInv'
  BY <1>2, <1>3, LateSettlement DEF SettlesOnly
<1>4. CASE LedgerStep \/ UNCHANGED vars
  <2>1. UNCHANGED <<submit, jobs, task, work, cancel, seen>> /\ charges' = charges
    BY <1>4 DEF LedgerStep, Tick, DeleteKey, vars, ledgerVars, jobVars
  <2>. QED
    BY <1>2, <2>1 DEF SettlesAtMost
<1>. QED
  BY <1>1, <1>3, <1>4 DEF GenNext

\* It holds in every reachable state of the chain, for any number of requests,
\* keys and crashes.
THEOREM GenInvariant == GenSpec => []GenInv
  BY GenInit, GenInvStep, PTL DEF GenSpec

\* The rows of both databases, the messages and the program counters keep
\* their types through every interleaving, crash and late settlement.
THEOREM GenTypes == GenSpec => []TypeOK
<1>1. GenInv => TypeOK
  BY DEF GenInv
<1>. QED
  BY <1>1, GenInvariant, PTL

\* For any number of submits, duplicates, workers that die, cancels and late
\* readers: money that was spent has a published result.
THEOREM SpentMeansPublished == GenSpec => []SpentIsPublished
<1>1. GenInv => SpentIsPublished
  BY DEF GenInv, RequestInv, SpentIsReal, SpentIsPublished
<1>. QED
  BY <1>1, GenInvariant, PTL

\* No message reaches the broker for a job whose charge does not name it.
THEOREM WorkIsAlwaysCharged == GenSpec => []WorkIsCharged
<1>1. GenInv => WorkIsCharged
  BY DEF GenInv, RequestInv, Linked, WorkIsCharged
<1>. QED
  BY <1>1, GenInvariant, PTL

\* A call answered as a duplicate keeps no money, however many retries race.
THEOREM DuplicatesAreFree == GenSpec => []DuplicateIsFree
<1>1. GenInv => DuplicateIsFree
  BY DEF GenInv, RequestInv, FreeDuplicate, DuplicateIsFree
<1>. QED
  BY <1>1, GenInvariant, PTL

\* Any number of concurrent submits with one idempotency key make one job.
THEOREM OneJobPerKey == GenSpec => []OneJobPerIdempotencyKey
<1>1. GenInv => OneJobPerIdempotencyKey
  BY DEF GenInv
<1>. QED
  BY <1>1, GenInvariant, PTL

-----------------------------------------------------------------------------
(* The refinement.                                                         *)

\* The part of the state PrepaidOrder sees.
Money == [r \in Requests |-> charges[r].state]

\* The chain starts where the abstract order starts.
LEMMA OrderInits == Init => Order!OrderInit
  BY DEF Init, NoCharge, Published, Order!OrderInit

\* A step that settles at most one charge and publishes nothing.
LEMMA OrderSettles ==
  ASSUME TypeOK, NEW r \in Requests, SettlesAtMost(r), Published' = Published,
         \A q \in Requests : q # r => charges'[q] = charges[q]
  PROVE  [Order!OrderNext]_<<Money, Published>>
<1>0. charges[r] \in ChargeRows
  BY DEF TypeOK, LedgerTypeOK
<1>1. CASE charges'[r] = charges[r]
  BY <1>1 DEF Money
<1>2. CASE Refunds(r)
  <2>1. charges[r].state = "held" /\ charges'[r].state = "refunded"
    BY <1>0, <1>2 DEF Refunds, ChargeRows
  <2>2. Money' = [Money EXCEPT ![r] = "refunded"] /\ Money[r] = "held"
    BY <2>1 DEF Money
  <2>3. Order!RefundMoney(r)
    BY <2>2 DEF Order!RefundMoney, Money
  <2>. QED
    BY <2>3 DEF Order!OrderNext, Order!OrderStep
<1>3. CASE Spends(r)
  <2>1. charges[r].state = "held" /\ charges'[r].state = "spent" /\ r \in Published
    BY <1>0, <1>3 DEF Spends, ChargeRows, Published
  <2>2. Money' = [Money EXCEPT ![r] = "spent"] /\ Money[r] = "held"
    BY <2>1 DEF Money
  <2>3. Published' = Published \cup {r}
    BY <2>1
  <2>4. Order!SpendMoney(r)
    BY <2>2, <2>3 DEF Order!SpendMoney, Money
  <2>. QED
    BY <2>4 DEF Order!OrderNext, Order!OrderStep
<1>. QED
  BY <1>1, <1>2, <1>3 DEF SettlesAtMost

\* Every step of the chain is a step of the abstract order, or none.
LEMMA OrderSteps ==
  ASSUME GenInv, [GenNext]_vars
  PROVE  [Order!OrderNext]_<<Money, Published>>
<1>0. TypeOK /\ \A q \in Requests : RequestInv(q)
  BY DEF GenInv
<1>1. ASSUME NEW r \in Requests, SubmitStep(r) PROVE [Order!OrderNext]_<<Money, Published>>
  <2>1. Published' = Published
    <3>1. CASE CreateJob(r) /\ ~Collides(r)
      <4>1. ~jobs[r].published
        BY <1>0, <3>1 DEF GenInv, NoRowNoKey, CreateJob, RequestInv, Unborn
      <4>2. ~jobs'[r].published /\ \A q \in Requests : q # r => jobs'[q] = jobs[q]
        BY <1>0, <3>1 DEF CreateJob, TypeOK
      <4>. QED
        BY <4>1, <4>2 DEF Published
    <3>2. CASE CreateJob(r) /\ Collides(r)
      BY <3>2 DEF CreateJob, Published
    <3>3. CASE SendFails(r)
      BY <1>0, <3>3 DEF SendFails, UpdateJob, Published, TypeOK, JobRows
    <3>4. CASE ~CreateJob(r) /\ ~SendFails(r)
      <4>1. jobs' = jobs
        BY <1>1, <3>4 DEF SubmitStep, Call, Lookup, SubmitHold, SubmitUncharged, SubmitRefused,
           RefundDuplicate, RefundUnsent, LinkJob, LinkFails, SendTask, Abandon
      <4>. QED
        BY <4>1 DEF Published
    <3>. QED
      BY <3>1, <3>2, <3>3, <3>4
  <2>2. \A q \in Requests : q # r => charges'[q] = charges[q]
    BY <1>0, <1>1, Others
  <2>3. CASE SubmitHold(r)
    <3>1. charges[r].state = "none" /\ charges'[r].state = "held"
      BY <1>0, <2>3 DEF SubmitHold, Hold, TypeOK, LedgerTypeOK
    <3>2. Money' = [Money EXCEPT ![r] = "held"] /\ Money[r] = "none"
      BY <2>2, <3>1 DEF Money
    <3>3. Order!HoldMoney(r)
      BY <2>1, <3>2 DEF Order!HoldMoney, Money
    <3>. QED
      BY <3>3 DEF Order!OrderNext, Order!OrderStep
  <2>4. CASE RefundDuplicate(r) \/ RefundUnsent(r)
    BY <1>0, <2>1, <2>2, <2>4, FailedRefunds, OrderSettles DEF RefundDuplicate, RefundUnsent
  <2>5. CASE LinkJob(r)
    <3>1. charges'[r].state = charges[r].state
      BY <1>0, <2>5 DEF LinkJob, Link, TypeOK, LedgerTypeOK, ChargeRows
    <3>. QED
      BY <2>1, <2>2, <3>1 DEF Money
  <2>6. CASE ~SubmitHold(r) /\ ~RefundDuplicate(r) /\ ~RefundUnsent(r) /\ ~LinkJob(r)
    <3>1. charges' = charges
      BY <1>1, <2>6 DEF SubmitStep, Call, Lookup, SubmitUncharged, SubmitRefused, CreateJob,
         LinkFails, SendTask, SendFails, Abandon, ledgerVars
    <3>. QED
      BY <2>1, <3>1 DEF Money
  <2>. QED
    BY <2>3, <2>4, <2>5, <2>6
<1>2. ASSUME NEW r \in Requests, WorkStep(r) \/ CancelStep(r) \/ Poll(r)
      PROVE  [Order!OrderNext]_<<Money, Published>>
  <2>1. charges' = charges
    BY <1>2 DEF WorkStep, Deliver, TaskRaises, Generate, StopCancelled, GotResult, Upload,
       Publish, GenerationFails, Acknowledge, WorkerLost, CancelStep, CancelRead, CancelRevoke,
       CancelWrite, Poll, ledgerVars
  <2>2. Money' = Money
    BY <2>1 DEF Money
  <2>3. CASE Publish(r)
    <3>1. Published' = Published \cup {r}
      BY <1>0, <2>3 DEF Publish, Published, TypeOK, JobRows
    <3>2. charges[r].state # "none"
      BY <1>0, <2>3 DEF Publish, RequestInv, Started, Linked
    <3>3. Order!DeliverOrder(r)
      BY <2>2, <3>1, <3>2 DEF Order!DeliverOrder, Money
    <3>. QED
      BY <3>3 DEF Order!OrderNext, Order!OrderStep
  <2>4. CASE ~Publish(r)
    <3>1. \A status : UpdateJob(r, status) => Published' = Published
      BY <1>0 DEF UpdateJob, Published, TypeOK, JobRows
    <3>2. jobs' = jobs => Published' = Published
      BY DEF Published
    <3>3. jobs' = jobs \/ \E status \in JobStatuses : UpdateJob(r, status)
      BY <1>2, <2>4 DEF WorkStep, Deliver, TaskRaises, Generate, StopCancelled, GotResult, Upload,
         GenerationFails, Acknowledge, WorkerLost, CancelStep, CancelRead, CancelRevoke,
         CancelWrite, Poll, JobStatuses, Terminal
    <3>. QED
      BY <2>2, <3>1, <3>2, <3>3
  <2>. QED
    BY <2>3, <2>4
<1>3. ASSUME NEW r \in Requests,
             ReconcileRow(r) \/ \E status \in Terminal : SettleSeen(r, status)
      PROVE  [Order!OrderNext]_<<Money, Published>>
  <2>1. SettlesOnly(r)
    BY <1>3, LateSettlement
  <2>2. Published' = Published
    BY <2>1 DEF SettlesOnly, Published
  <2>. QED
    BY <1>0, <2>1, <2>2, OrderSettles DEF SettlesOnly
<1>4. CASE LedgerStep \/ UNCHANGED vars
  <2>1. jobs' = jobs /\ charges' = charges
    BY <1>4 DEF LedgerStep, Tick, DeleteKey, vars, ledgerVars, jobVars
  <2>. QED
    BY <2>1 DEF Money, Published
<1>. QED
  BY <1>1, <1>2, <1>3, <1>4 DEF GenNext

\* The whole chain of submits, workers, polls, cancels, sweeps and crashes
\* implements a prepaid order: held before it is worked on, settled once, spent
\* only on what was delivered.
THEOREM ChainIsPrepaidOrder == GenSpec => ImplementsPrepaidOrder
<1>1. GenInv /\ [GenNext]_vars => [Order!OrderNext]_<<Money, Published>>
  BY OrderSteps
<1>. QED
  BY <1>1, OrderInits, GenInvariant, PTL
  DEF GenSpec, ImplementsPrepaidOrder, Order!OrderSpec, Order!orderVars, Money
-----------------------------------------------------------------------------
(* The ledger's promises, kept by its only user that is modelled whole.    *)

\* The chain starts with an empty book and takes the ledger's steps only.
LEMMA ChainKeepsBook ==
    /\ Init => LedgerInv
    /\ GenInv /\ LedgerInv /\ [GenNext]_vars => LedgerInv' /\ [Next]_ledgerVars
<1>1. Init => LedgerInv
  <2> SUFFICES ASSUME Init PROVE LedgerInv
    OBVIOUS
  <2>1. LedgerTypeOK
    BY GenInit DEF GenInv, TypeOK
  <2>2. Booked = {}
    BY DEF Init, Booked, NoCharge
  <2>. QED
    BY <2>1, <2>2, FS_EmptySet DEF LedgerInv
<1>2. GenInv /\ [GenNext]_vars => [Next]_ledgerVars
  BY LedgerAllowsIt DEF GenInv
<1>. QED
  BY <1>1, <1>2, LedgerInvInductive

\* No interleaving of submits, retries, cancels, crashes and sweeps makes the
\* money spoken for rise beyond a limit in force.
THEOREM ChainRespectsLimits == GenSpec => SpendRisesWithinLimits
<1>1. LedgerInv /\ [Next]_ledgerVars => [WithinLimits]_ledgerVars
  BY WithinLimitsStep
<1>. QED
  BY <1>1, ChainKeepsBook, GenInvariant, PTL
  DEF GenSpec, SpendRisesWithinLimits, WithinLimits

\* Whoever of the poll, the worker, the cancel and the sweep settles first, the
\* others change nothing any more, nor does a late link.
THEOREM ChainSettlesOnce == GenSpec => SettledIsFinal
<1>1. LedgerInv /\ [Next]_ledgerVars => [SettledStays]_charges
  BY SettledStaysStep DEF LedgerInv
<1>. QED
  BY <1>1, ChainKeepsBook, GenInvariant, PTL
  DEF GenSpec, SettledIsFinal, SettledStays
-----------------------------------------------------------------------------
(* Why a linked hold ends.                                                 *)

\* A hold that names its job is booked only on a success of that job, and given
\* back only on a failure or a cancel of it, or by a sweep whose snapshot showed
\* the charge stale and without a job (orphans), before it was linked.  That sweep
\* apart, nothing in the chain settles on a guess: not the submit whose send failed,
\* nor a reader whose status is long out of date.
Verdicts ==
    \A r \in Requests :
        charges[r].state = "held" /\ charges[r].job = r /\ charges'[r].state # "held" =>
            \/ charges'[r].state = "spent" /\ <<r, "succeeded">> \in seen
            \/ charges'[r].state = "refunded"
               /\ (<<r, "failed">> \in seen \/ <<r, "cancelled">> \in seen \/ r \in orphans)

SettledByVerdict == [][Verdicts]_vars

\* A verdict in the row has been seen by whoever wrote it, and a submit gives
\* back the money of an unsent task after it has failed the row.
VerdictKnown(r) ==
    /\ jobs[r].status \in Terminal => <<r, jobs[r].status>> \in seen
    /\ submit[r].pc = "refund_unsent" => <<r, "failed">> \in seen

VerdictInv == \A r \in Requests : VerdictKnown(r)

LEMMA GoesTo ==
  ASSUME TypeOK, NEW r \in Requests, NEW pc, GoTo(r, pc)
  PROVE  submit'[r].pc = pc
  BY DEF TypeOK, GoTo, SubmitRows

\* A step of a submit that touches no row keeps what is known of its job.
LEMMA VerdictKept ==
  ASSUME NEW r \in Requests, VerdictKnown(r), jobs' = jobs, seen' = seen,
         submit'[r].pc # "refund_unsent"
  PROVE  VerdictKnown(r)'
  BY DEF VerdictKnown

LEMMA VerdictInvStep == GenInv /\ VerdictInv /\ [GenNext]_vars => VerdictInv'
<1> SUFFICES ASSUME GenInv, VerdictInv, [GenNext]_vars PROVE VerdictInv'
  OBVIOUS
<1>0. TypeOK
  BY DEF GenInv
<1>1. ASSUME NEW r \in Requests, SubmitStep(r) \/ WorkStep(r) \/ CancelStep(r) \/ Poll(r)
      PROVE  VerdictInv'
  <2>1. ASSUME NEW q \in Requests, q # r PROVE VerdictKnown(q)'
    <3>1. /\ submit'[q] = submit[q] /\ jobs'[q] = jobs[q]
          /\ \A status \in Terminal : <<q, status>> \in seen' <=> <<q, status>> \in seen
      BY <1>0, <1>1, <2>1, Others
    <3>. QED
      BY <3>1 DEF VerdictInv, VerdictKnown, Terminal
  <2>. submit[r] \in SubmitRows /\ jobs[r] \in JobRows /\ VerdictKnown(r)
    BY <1>0 DEF TypeOK, VerdictInv
  <2>2. ASSUME SubmitStep(r) PROVE VerdictKnown(r)'
    <3>1. CASE Lookup(r)
      BY <1>0, <3>1, GoesTo, VerdictKept DEF Lookup
    <3>2. CASE SubmitHold(r)
      BY <1>0, <3>2, GoesTo, VerdictKept DEF SubmitHold
    <3>3. CASE SubmitUncharged(r) \/ SubmitRefused(r)
      BY <1>0, <3>3, GoesTo, VerdictKept DEF SubmitUncharged, SubmitRefused
    <3>4. CASE CreateJob(r)
      <4>1. CASE jobs' = jobs
        BY <1>0, <3>4, <4>1, GoesTo, VerdictKept DEF CreateJob
      <4>2. CASE jobs' # jobs
        <5>1. /\ submit'[r].pc = "link" /\ seen' = seen
              /\ jobs' = [jobs EXCEPT ![r] =
                    [status |-> "queued", owner |-> submit[r].owner,
                     idem |-> DedupeKey(submit[r]), ref |-> submit[r].ref,
                     published |-> FALSE]]
          BY <1>0, <3>4, <4>2, GoesTo DEF CreateJob
        <5>2. jobs'[r].status = "queued"
          BY <1>0, <5>1 DEF TypeOK
        <5>. QED
          BY <5>1, <5>2 DEF VerdictKnown, Terminal
      <4>. QED
        BY <4>1, <4>2
    <3>5. CASE RefundDuplicate(r)
      BY <1>0, <3>5, GoesTo, VerdictKept DEF RefundDuplicate
    <3>6. CASE LinkJob(r) \/ LinkFails(r)
      BY <1>0, <3>6, GoesTo, VerdictKept DEF LinkJob, LinkFails
    <3> USE <1>0 DEF TypeOK, GoTo, SubmitRows, JobRows, VerdictKnown, Terminal
    <3>7. CASE Call(r)
      BY <3>7 DEF Call
    <3>8. CASE SendTask(r)
      BY <3>8 DEF SendTask
    <3>9. CASE Abandon(r)
      BY <3>9 DEF Abandon
    <3>10. CASE RefundUnsent(r)
      BY <3>10 DEF RefundUnsent
    <3>11. CASE SendFails(r)
      BY <3>11 DEF SendFails, UpdateJob
    <3>. QED
      BY <2>2, <3>1, <3>2, <3>3, <3>4, <3>5, <3>6, <3>7, <3>8, <3>9, <3>10, <3>11
      DEF SubmitStep
  <2>3. ASSUME WorkStep(r) PROVE VerdictKnown(r)'
    <3> USE <1>0 DEF TypeOK, JobRows, VerdictKnown, Terminal, UpdateJob
    <3>1. CASE Deliver(r) \/ TaskRaises(r)
      BY <3>1 DEF Deliver, TaskRaises
    <3>2. CASE Generate(r) \/ StopCancelled(r)
      BY <3>2 DEF Generate, StopCancelled
    <3>3. CASE GotResult(r) \/ Upload(r)
      BY <3>3 DEF GotResult, Upload
    <3>4. CASE Publish(r) \/ GenerationFails(r)
      BY <3>4 DEF Publish, GenerationFails
    <3>5. CASE Acknowledge(r) \/ WorkerLost(r)
      BY <3>5 DEF Acknowledge, WorkerLost
    <3>. QED
      BY <2>3, <3>1, <3>2, <3>3, <3>4, <3>5 DEF WorkStep
  <2>4. ASSUME CancelStep(r) \/ Poll(r) PROVE VerdictKnown(r)'
    <3>1. CASE Poll(r) \/ CancelRead(r) \/ CancelRevoke(r)
      BY <1>0, <3>1 DEF TypeOK, JobRows, VerdictKnown, Terminal, Poll, CancelRead, CancelRevoke
    <3>2. CASE CancelWrite(r)
      BY <1>0, <3>2 DEF TypeOK, JobRows, VerdictKnown, Terminal, CancelWrite, UpdateJob
    <3>. QED
      BY <2>4, <3>1, <3>2 DEF CancelStep
  <2>. QED
    BY <1>1, <2>1, <2>2, <2>3, <2>4 DEF VerdictInv
<1>2. ASSUME NEW r \in Requests,
             ReconcileRow(r) \/ \E status \in Terminal : SettleSeen(r, status)
      PROVE  VerdictInv'
  BY <1>2, LateSettlement DEF SettlesOnly, VerdictInv, VerdictKnown
<1>3. CASE LedgerStep \/ UNCHANGED vars
  BY <1>3 DEF LedgerStep, vars, jobVars, VerdictInv, VerdictKnown
<1>. QED
  BY <1>1, <1>2, <1>3 DEF GenNext

\* Settling one's own job by a status.
LEMMA VerdictOfSettleJob ==
  ASSUME TypeOK, NEW j \in Requests, NEW status \in Terminal, SettleJob(j, status),
         NEW q \in Requests, charges[q].state = "held", charges[q].job = q
  PROVE  charges'[q].state =
            IF q = j THEN IF status = "succeeded" THEN "spent" ELSE "refunded" ELSE "held"
  BY DEF SettleJob, SettleHeld, SettledAs, RequestsOf, TypeOK, LedgerTypeOK, ChargeRows

LEMMA VerdictsStep == GenInv /\ VerdictInv /\ [GenNext]_vars => Verdicts
<1> SUFFICES ASSUME GenInv, VerdictInv, [GenNext]_vars, NEW r \in Requests,
                    charges[r].state = "held", charges[r].job = r, charges'[r].state # "held"
             PROVE  \/ charges'[r].state = "spent" /\ <<r, "succeeded">> \in seen
                    \/ charges'[r].state = "refunded"
                       /\ (<<r, "failed">> \in seen \/ <<r, "cancelled">> \in seen
                           \/ r \in orphans)
  BY DEF Verdicts
<1>0. TypeOK /\ RequestInv(r) /\ VerdictKnown(r) /\ charges[r] \in ChargeRows /\ NoJob # r
  BY JobsAssumption, NoJobAssumption DEF GenInv, VerdictInv, TypeOK, LedgerTypeOK
<1>1. ASSUME NEW q \in Requests, SubmitStep(q) \/ WorkStep(q) \/ CancelStep(q) \/ Poll(q)
      PROVE  q = r /\ RefundUnsent(r)
  <2>1. q = r
    BY <1>0, <1>1, Others
  <2>2. submit[r].pc # "refund_duplicate"
    BY <1>0 DEF RequestInv, NotYet
  <2>3. ~ (WorkStep(r) \/ CancelStep(r) \/ Poll(r))
    BY <1>0 DEF WorkStep, Deliver, TaskRaises, Generate, StopCancelled, GotResult, Upload,
       Publish, GenerationFails, Acknowledge, WorkerLost, CancelStep, CancelRead, CancelRevoke,
       CancelWrite, Poll, ledgerVars
  <2>4. SubmitStep(r)
    BY <1>1, <2>1, <2>3
  <2>5. ~ (Call(r) \/ Lookup(r) \/ SubmitUncharged(r) \/ SubmitRefused(r) \/ CreateJob(r)
           \/ LinkFails(r) \/ SendTask(r) \/ SendFails(r) \/ Abandon(r))
    BY DEF Call, Lookup, SubmitUncharged, SubmitRefused, CreateJob, LinkFails, SendTask,
       SendFails, Abandon, ledgerVars
  <2>6. ~ SubmitHold(r)
    BY DEF SubmitHold, Hold
  <2>7. ~ LinkJob(r)
    BY <1>0 DEF LinkJob, Link, TypeOK, LedgerTypeOK, ChargeRows
  <2>. QED
    BY <2>1, <2>2, <2>4, <2>5, <2>6, <2>7 DEF SubmitStep, RefundDuplicate
<1>2. CASE RefundUnsent(r)
  BY <1>0, <1>2 DEF RefundUnsent, Settle, SettleHeld, SettledAs, VerdictKnown, ChargeRows
<1>3. ASSUME NEW q \in Requests, NEW status \in Terminal, SettleSeen(q, status)
      PROVE  charges'[r].state = (IF status = "succeeded" THEN "spent" ELSE "refunded")
             /\ <<r, status>> \in seen
  BY <1>0, <1>3, VerdictOfSettleJob DEF SettleSeen
<1>4. ASSUME NEW q \in Requests, SettleEnded(q)
      PROVE  \E status \in Terminal :
                charges'[r].state = (IF status = "succeeded" THEN "spent" ELSE "refunded")
                /\ <<r, status>> \in seen
  <2>1. charges[q].job = q
    BY <1>4 DEF SettleEnded, GenInv, RequestInv, OwnJob
  <2>. QED
    BY <1>0, <1>4, <2>1, VerdictOfSettleJob DEF SettleEnded, VerdictKnown
<1>7. ASSUME NEW q \in Requests, RefundOrphan(q)
      PROVE  charges'[r].state = "refunded" /\ r \in orphans
  <2>1. q = r
    BY <1>0, <1>7, FailedRefunds DEF RefundOrphan
  <2>. QED
    BY <1>0, <1>7, <2>1, FailedRefunds DEF RefundOrphan, SettlesAtMost, Refunds, ChargeRows
<1>8. ASSUME NEW q \in Requests, ReadOrphan(q) PROVE FALSE
  BY <1>8 DEF ReadOrphan, ledgerVars
<1>5. CASE LedgerStep \/ UNCHANGED vars
  BY <1>5 DEF LedgerStep, Tick, DeleteKey, vars, ledgerVars
<1>6. ASSUME NEW status \in Terminal, <<r, status>> \in seen,
             charges'[r].state = (IF status = "succeeded" THEN "spent" ELSE "refunded")
      PROVE  \/ charges'[r].state = "spent" /\ <<r, "succeeded">> \in seen
             \/ charges'[r].state = "refunded"
                /\ (<<r, "failed">> \in seen \/ <<r, "cancelled">> \in seen)
  BY <1>6 DEF Terminal
<1>. QED
  BY <1>1, <1>2, <1>3, <1>4, <1>5, <1>6, <1>7, <1>8 DEF GenNext, ReconcileRow

\* For any number of requests, crashes and late readers.
THEOREM HoldsEndByVerdict == GenSpec => SettledByVerdict
<1>1. Init => VerdictInv
  BY DEF Init, VerdictInv, VerdictKnown, Terminal
<1>2. GenInv /\ VerdictInv /\ [GenNext]_vars => [Verdicts]_vars
  BY VerdictsStep
<1>. QED
  BY <1>1, <1>2, VerdictInvStep, GenInvariant, PTL DEF GenSpec, SettledByVerdict
=============================================================================
