--------------------------- MODULE GenerationJobs ---------------------------
(***************************************************************************)
(* The life of a prepaid generation job, from the submit call to the last  *)
(* settlement: control_plane/generation_jobs.py (the API side),            *)
(* ai_capabilities.py (table generation_jobs), generation_tasks.py (the    *)
(* Celery worker) and billing_reconcile.py (the sweep), on the ledger of   *)
(* CreditLedger.                                                           *)
(*                                                                         *)
(* The jobs and the ledger live in two databases and the task in a broker, *)
(* so a submit is a chain of separate commits: any of them may be the last *)
(* one (Abandon), and the worker, the client's polls and cancels and the   *)
(* sweep run between any two.  A job's uuid is made by the submit that     *)
(* creates it, so the job of request r is named r.                         *)
(*                                                                         *)
(* Whoever reads a job's status and then settles the ledger does so in two *)
(* transactions.  Any number of clients poll, so seen keeps every status   *)
(* that was ever read or written on the way to a settlement: each may      *)
(* still be settled on, however old it is by then, or never, if its reader *)
(* died or its settlement failed (update_job swallows that).  Likewise     *)
(* orphans keeps every charge that a sweep's snapshot showed without a job:*)
(* it may be given back at any time after, also when it has been linked    *)
(* since.                                                                  *)
(*                                                                         *)
(* The loop over upstream channels is reduced to its outcomes (a result, a *)
(* failure, a cancel seen while polling): it changes no state shared with  *)
(* the other actors until it ends.                                         *)
(***************************************************************************)
EXTENDS CreditLedger

CONSTANTS
    IdemKeys,     \* values of Idempotency-Key and external_ref
    NoIdem,       \* neither given
    StaleAfter,   \* STALE_AFTER_HOURS, in ticks
    MaxCrashes    \* bound on worker losses

ASSUME JobsAssumption == JobIds = Requests
ASSUME NoIdemAssumption == NoIdem \notin IdemKeys
ASSUME BoundsAssumption == StaleAfter \in Nat /\ MaxCrashes \in Nat

VARIABLES
    submit,   \* one submit call per request
    jobs,     \* table generation_jobs
    task,     \* the Celery message of a job
    work,     \* the worker running that task
    cancel,   \* one cancel call per job
    seen,     \* <<job, status>> pairs somebody may still settle on
    crashes,  \* worker losses so far
    orphans   \* charges a sweep has read as stale and without a job

jobVars == <<submit, jobs, task, work, cancel, seen, crashes, orphans>>
vars == <<ledgerVars, jobVars>>

MaybeIdem == IdemKeys \cup {NoIdem}
Owners == Keys \cup {NoKey}
Terminal == {"succeeded", "failed", "cancelled"}
JobStatuses == {"none", "queued", "running", "cancel_requested"} \cup Terminal

SubmitPcs == {"idle", "lookup", "hold", "create", "refund_duplicate", "link", "send",
              "refund_unsent", "replied", "duplicate", "refused", "dead"}
TaskStates == {"none", "queued", "started", "done"}
WorkPcs == {"idle", "waiting_slot", "generating", "finishing", "uploading", "returning"}

Jobs == {j \in Requests : jobs[j].status # "none"}

SubmitRows == [pc : SubmitPcs, owner : Owners, header : MaybeIdem, ref : MaybeIdem]
JobRows == [status : JobStatuses, owner : Owners, idem : MaybeIdem, ref : MaybeIdem,
            published : BOOLEAN]
TaskRows == [state : TaskStates, revoked : BOOLEAN]
CancelRows == [pc : {"idle", "read", "revoked"}, seen : JobStatuses]

TypeOK ==
    /\ LedgerTypeOK
    /\ submit \in [Requests -> SubmitRows]
    /\ jobs \in [Requests -> JobRows]
    /\ task \in [Requests -> TaskRows]
    /\ work \in [Requests -> WorkPcs]
    /\ cancel \in [Requests -> CancelRows]
    /\ seen \in SUBSET (Requests \X Terminal)
    /\ crashes \in Nat
    /\ orphans \in SUBSET Requests

\* Keys exist before they call; the limits of this module's runs are the
\* ledger's business and stay as they are.
Init ==
    /\ now = 0
    /\ apiKeys = [k \in Keys |-> [NoRow EXCEPT !.row = "present", !.enabled = TRUE]]
    /\ platformLimits \in LimitChoices
    /\ charges = [r \in Requests |-> NoCharge]
    /\ submit = [r \in Requests |->
           [pc |-> "idle", owner |-> NoKey, header |-> NoIdem, ref |-> NoIdem]]
    /\ jobs = [r \in Requests |->
           [status |-> "none", owner |-> NoKey, idem |-> NoIdem, ref |-> NoIdem,
            published |-> FALSE]]
    /\ task = [r \in Requests |-> [state |-> "none", revoked |-> FALSE]]
    /\ work = [r \in Requests |-> "idle"]
    /\ cancel = [r \in Requests |-> [pc |-> "idle", seen |-> "none"]]
    /\ seen = {}
    /\ crashes = 0
    /\ orphans = {}

-----------------------------------------------------------------------------
(* update_job: the row is written whatever it held before; a terminal      *)
(* status is then settled in the ledger.                                   *)

UpdateJob(j, status) ==
    /\ jobs' = [jobs EXCEPT ![j].status = status]
    /\ seen' = IF status \in Terminal THEN seen \cup {<<j, status>>} ELSE seen

\* settle_job, by a caller who read or wrote that status at some time.
SettleSeen(j, status) ==
    /\ <<j, status>> \in seen
    /\ SettleJob(j, status)
    /\ UNCHANGED jobVars

-----------------------------------------------------------------------------
(* GenerationJobClient.submit.                                             *)

\* str(idempotency_key or data.get("external_ref") or "") or None
DedupeKey(s) == IF s.header # NoIdem THEN s.header ELSE s.ref

\* job_by_idempotency: either column may match, within the caller's key.
\* ORDER BY created_at LIMIT 1 picks one of them.
Matches(j, owner, dedupe) ==
    /\ j \in Jobs
    /\ jobs[j].owner = owner
    /\ jobs[j].idem = dedupe \/ jobs[j].ref = dedupe

GoTo(r, pc) == submit' = [submit EXCEPT ![r].pc = pc]

Call(r) ==
    /\ submit[r].pc = "idle"
    /\ \E owner \in Owners, header \in MaybeIdem, ref \in MaybeIdem :
          submit' = [submit EXCEPT ![r] =
              [pc |-> "lookup", owner |-> owner, header |-> header, ref |-> ref]]
    /\ UNCHANGED <<ledgerVars, jobs, task, work, cancel, seen, crashes, orphans>>

Lookup(r) ==
    LET dedupe == DedupeKey(submit[r])
        found == dedupe # NoIdem /\ \E j \in Requests : Matches(j, submit[r].owner, dedupe)
    IN  /\ submit[r].pc = "lookup"
        /\ GoTo(r, IF found THEN "duplicate" ELSE "hold")
        /\ UNCHANGED <<ledgerVars, jobs, task, work, cancel, seen, crashes, orphans>>

\* Bound: a hold is made early enough for the sweep to see it grow stale.
Early == now + StaleAfter < MaxTime

SubmitHold(r) ==
    /\ submit[r].pc = "hold" /\ Early
    /\ \E quote \in Quotes : Hold(r, submit[r].owner, quote)
    /\ GoTo(r, "create")
    /\ UNCHANGED <<jobs, task, work, cancel, seen, crashes, orphans>>

\* The key was deleted since it was admitted: hold returns without a charge_id.
KeyGone(r) == submit[r].owner # NoKey /\ ~Present(submit[r].owner)

SubmitUncharged(r) ==
    /\ submit[r].pc = "hold"
    /\ KeyGone(r)
    /\ GoTo(r, "create")
    /\ UNCHANGED <<ledgerVars, jobs, task, work, cancel, seen, crashes, orphans>>

\* CreditQuotaExceeded
SubmitRefused(r) ==
    /\ submit[r].pc = "hold"
    /\ ~KeyGone(r)
    /\ \E quote \in Quotes : ~CanHold(submit[r].owner, Charged(quote))
    /\ GoTo(r, "refused")
    /\ UNCHANGED <<ledgerVars, jobs, task, work, cancel, seen, crashes, orphans>>

\* Mutant of Collides: no unique index, only the lookup before the hold.
CollidesNever(r) == FALSE

\* create_job: the unique index on (api_key_id, idempotency_key) decides
\* between concurrent inserts, whether the SELECT or the INSERT meets it.
Collides(r) ==
    LET dedupe == DedupeKey(submit[r])
    IN  dedupe # NoIdem /\ \E j \in Jobs : jobs[j].owner = submit[r].owner
                                        /\ jobs[j].idem = dedupe

CreateJob(r) ==
    /\ submit[r].pc = "create"
    /\ IF Collides(r)
       THEN GoTo(r, "refund_duplicate") /\ UNCHANGED jobs
       ELSE /\ GoTo(r, "link")
            /\ jobs' = [jobs EXCEPT ![r] =
                   [status |-> "queued", owner |-> submit[r].owner,
                    idem |-> DedupeKey(submit[r]), ref |-> submit[r].ref,
                    published |-> FALSE]]
    /\ UNCHANGED <<ledgerVars, task, work, cancel, seen, crashes, orphans>>

\* Mutant of RefundDuplicate: the losing insert keeps its hold.
RefundDuplicateNot(r) ==
    /\ submit[r].pc = "refund_duplicate"
    /\ GoTo(r, "duplicate")
    /\ UNCHANGED <<ledgerVars, jobs, task, work, cancel, seen, crashes, orphans>>

\* The losing insert gives its hold back.
RefundDuplicate(r) ==
    /\ submit[r].pc = "refund_duplicate"
    /\ Settle(r, "failed")
    /\ GoTo(r, "duplicate")
    /\ UNCHANGED <<jobs, task, work, cancel, seen, crashes, orphans>>

\* Mutant of LinkJob: the task is sent while the charge names no job yet.
LinkJobLater(r) ==
    /\ submit[r].pc = "link"
    /\ GoTo(r, "send")
    /\ UNCHANGED <<ledgerVars, jobs, task, work, cancel, seen, crashes, orphans>>

LinkJob(r) ==
    /\ submit[r].pc = "link"
    /\ Link(r, r)
    /\ GoTo(r, "send")
    /\ UNCHANGED <<jobs, task, work, cancel, seen, crashes, orphans>>

\* Without a charge, held["charge_id"] raises and the row stays queued.
LinkFails(r) ==
    /\ submit[r].pc = "link"
    /\ charges[r].state = "none"
    /\ GoTo(r, "dead")
    /\ UNCHANGED <<ledgerVars, jobs, task, work, cancel, seen, crashes, orphans>>

SendTask(r) ==
    /\ submit[r].pc = "send"
    /\ task' = [task EXCEPT ![r].state = "queued"]
    /\ GoTo(r, "replied")
    /\ UNCHANGED <<ledgerVars, jobs, work, cancel, seen, crashes, orphans>>

\* send_task raises: the job is failed.  The broker may have taken the message
\* before the connection broke.
SendFails(r) ==
    /\ submit[r].pc = "send"
    /\ \/ task' = [task EXCEPT ![r].state = "queued"]
       \/ UNCHANGED task
    /\ UpdateJob(r, "failed")
    /\ GoTo(r, "refund_unsent")
    /\ UNCHANGED <<ledgerVars, work, cancel, crashes, orphans>>

RefundUnsent(r) ==
    /\ submit[r].pc = "refund_unsent"
    /\ Settle(r, "failed")
    /\ GoTo(r, "refused")
    /\ UNCHANGED <<jobs, task, work, cancel, seen, crashes, orphans>>

\* The API process dies, or the next statement of submit raises (a model that
\* is disabled between validation and create_job, a locked database): what was
\* committed so far stays.
Abandon(r) ==
    /\ submit[r].pc \in {"lookup", "hold", "create", "refund_duplicate", "link", "send",
                         "refund_unsent"}
    /\ GoTo(r, "dead")
    /\ UNCHANGED <<ledgerVars, jobs, task, work, cancel, seen, crashes, orphans>>

-----------------------------------------------------------------------------
(* The worker: task generate, run once per delivery of the message.        *)

\* A revoked message is dropped by the worker that receives it.
Deliver(j) ==
    /\ task[j].state = "queued"
    /\ IF task[j].revoked
       THEN task' = [task EXCEPT ![j].state = "done"] /\ UNCHANGED work
       ELSE /\ task' = [task EXCEPT ![j].state = "started"]
            /\ work' = [work EXCEPT ![j] = "waiting_slot"]
    /\ UNCHANGED <<ledgerVars, submit, jobs, cancel, seen, crashes, orphans>>

EndTask(j) == work' = [work EXCEPT ![j] = "returning"]

\* task_acks_late: the message is acknowledged after the task has returned or
\* raised.
Acknowledge(j) ==
    /\ work[j] = "returning"
    /\ work' = [work EXCEPT ![j] = "idle"]
    /\ task' = [task EXCEPT ![j].state = "done"]
    /\ UNCHANGED <<ledgerVars, submit, jobs, cancel, seen, crashes, orphans>>

\* job_slot gives up, a time limit of the task strikes, or the jobs database
\* does not answer: the task fails in Celery and the job's row is left as it is.
TaskRaises(j) ==
    /\ work[j] \in {"waiting_slot", "generating", "finishing", "uploading"}
    /\ EndTask(j)
    /\ UNCHANGED <<ledgerVars, submit, jobs, task, cancel, seen, crashes, orphans>>

\* _generate starts by writing status="running".
Generate(j) ==
    /\ work[j] = "waiting_slot"
    /\ work' = [work EXCEPT ![j] = "generating"]
    /\ UpdateJob(j, "running")
    /\ UNCHANGED <<ledgerVars, submit, task, cancel, crashes, orphans>>

\* _cancel_requested reads the row.
CancelSeen(j) == jobs[j].status \in {"cancel_requested", "cancelled"}

StopCancelled(j) ==
    /\ work[j] \in {"generating", "finishing"}
    /\ CancelSeen(j)
    /\ UpdateJob(j, "cancelled")
    /\ EndTask(j)
    /\ UNCHANGED <<ledgerVars, submit, task, cancel, crashes, orphans>>

\* A channel delivered a result; the cancel flag was not read since.
GotResult(j) ==
    /\ work[j] = "generating"
    /\ work' = [work EXCEPT ![j] = "finishing"]
    /\ UNCHANGED <<ledgerVars, submit, jobs, task, cancel, seen, crashes, orphans>>

\* _finish_success: no cancel so far, then the results are copied to OSS.
Upload(j) ==
    /\ work[j] = "finishing"
    /\ ~CancelSeen(j)
    /\ work' = [work EXCEPT ![j] = "uploading"]
    /\ UNCHANGED <<ledgerVars, submit, jobs, task, cancel, seen, crashes, orphans>>

Publish(j) ==
    /\ work[j] = "uploading"
    /\ jobs' = [jobs EXCEPT ![j].status = "succeeded", ![j].published = TRUE]
    /\ seen' = seen \cup {<<j, "succeeded">>}
    /\ EndTask(j)
    /\ UNCHANGED <<ledgerVars, submit, task, cancel, crashes, orphans>>

\* Every channel failed, or the one that took the order did not answer in
\* time, or the copy to OSS failed.
GenerationFails(j) ==
    /\ work[j] \in {"generating", "uploading"}
    /\ UpdateJob(j, "failed")
    /\ EndTask(j)
    /\ UNCHANGED <<ledgerVars, submit, task, cancel, crashes, orphans>>

\* task_reject_on_worker_lost: the message is delivered again, even if all that
\* was left to do was to acknowledge it.
WorkerLost(j) ==
    /\ work[j] # "idle"
    /\ crashes < MaxCrashes
    /\ crashes' = crashes + 1
    /\ work' = [work EXCEPT ![j] = "idle"]
    /\ task' = [task EXCEPT ![j].state = "queued"]
    /\ UNCHANGED <<ledgerVars, submit, jobs, cancel, seen, orphans>>

-----------------------------------------------------------------------------
(* Polls and cancels.  A client learns the job's id from its submit, from  *)
(* a duplicate of it, or with GET .../jobs?external_ref= as soon as the    *)
(* row is there.                                                           *)

\* status: the poll of a job that has ended goes on to settle it.
Poll(j) ==
    /\ jobs[j].status \in Terminal
    /\ seen' = seen \cup {<<j, jobs[j].status>>}
    /\ UNCHANGED <<ledgerVars, submit, jobs, task, work, cancel, crashes, orphans>>

CancelRead(j) ==
    /\ cancel[j].pc = "idle"
    /\ j \in Jobs /\ jobs[j].status \notin Terminal
    /\ cancel' = [cancel EXCEPT ![j] = [pc |-> "read", seen |-> jobs[j].status]]
    /\ UNCHANGED <<ledgerVars, submit, jobs, task, work, seen, crashes, orphans>>

\* revoke(terminate=False) stops a message that is not started yet; it is a
\* broadcast, so a worker that is down when it is sent misses it.
CancelRevoke(j) ==
    /\ cancel[j].pc = "read"
    /\ \/ task' = [task EXCEPT ![j].revoked = TRUE]
       \/ UNCHANGED task
    /\ cancel' = [cancel EXCEPT ![j].pc = "revoked"]
    /\ UNCHANGED <<ledgerVars, submit, jobs, work, seen, crashes, orphans>>

\* The row is written from the status read before the revoke.
CancelWrite(j) ==
    /\ cancel[j].pc = "revoked"
    /\ UpdateJob(j, IF cancel[j].seen = "queued" THEN "cancelled" ELSE "cancel_requested")
    /\ cancel' = [cancel EXCEPT ![j] = [pc |-> "idle", seen |-> "none"]]
    /\ UNCHANGED <<ledgerVars, submit, task, work, crashes, orphans>>

-----------------------------------------------------------------------------
(* billing_reconcile.reconcile_held, one row of held_charges at a time.    *)
(* The rows are a snapshot: whether a charge has a job is read there, and  *)
(* the charge given back later.  A row with a job is settled by the status *)
(* of that job at once (SettleEnded) or later on (SettleSeen).             *)

\* Mutant of SettleEnded: only jobs that succeeded are settled.
SettleEndedSucceeded(r) ==
    LET j == charges[r].job
    IN  /\ r \in HeldCharges(StaleAfter)
        /\ j # NoJob /\ jobs[j].status = "succeeded"
        /\ SettleJob(j, jobs[j].status)
        /\ UNCHANGED jobVars

SettleEnded(r) ==
    LET j == charges[r].job
    IN  /\ r \in HeldCharges(StaleAfter)
        /\ j # NoJob /\ jobs[j].status \in Terminal
        /\ SettleJob(j, jobs[j].status)
        /\ UNCHANGED jobVars

\* Mutant of ReadOrphan: the test for a job the wrong way round.
ReadOrphanLinked(r) ==
    /\ r \in HeldCharges(StaleAfter)
    /\ charges[r].job # NoJob
    /\ orphans' = orphans \cup {r}
    /\ UNCHANGED <<ledgerVars, submit, jobs, task, work, cancel, seen, crashes>>

\* The snapshot has the row, and no job in it.
ReadOrphan(r) ==
    /\ r \in HeldCharges(StaleAfter)
    /\ charges[r].job = NoJob
    /\ orphans' = orphans \cup {r}
    /\ UNCHANGED <<ledgerVars, submit, jobs, task, work, cancel, seen, crashes>>

\* Mutant of RefundOrphan: a charge without a job is booked as spent.
RefundOrphanBooks(r) == r \in orphans /\ Settle(r, "succeeded") /\ UNCHANGED jobVars

\* keys.settle(request_id, "failed"): nothing asks again whether it is linked.
RefundOrphan(r) == r \in orphans /\ Settle(r, "failed") /\ UNCHANGED jobVars

ReconcileRow(r) == SettleEnded(r) \/ ReadOrphan(r) \/ RefundOrphan(r)

-----------------------------------------------------------------------------

SubmitStep(r) ==
    \/ Call(r) \/ Lookup(r) \/ SubmitHold(r) \/ SubmitUncharged(r) \/ SubmitRefused(r)
    \/ CreateJob(r) \/ RefundDuplicate(r) \/ LinkJob(r) \/ LinkFails(r)
    \/ SendTask(r) \/ SendFails(r) \/ RefundUnsent(r) \/ Abandon(r)

WorkStep(j) ==
    \/ Deliver(j) \/ TaskRaises(j) \/ Generate(j) \/ StopCancelled(j) \/ GotResult(j)
    \/ Upload(j) \/ Publish(j) \/ GenerationFails(j) \/ Acknowledge(j) \/ WorkerLost(j)

CancelStep(j) == CancelRead(j) \/ CancelRevoke(j) \/ CancelWrite(j)

LedgerStep == (Tick \/ \E k \in Keys : DeleteKey(k)) /\ UNCHANGED jobVars

GenNext ==
    \/ \E r \in Requests : SubmitStep(r) \/ WorkStep(r) \/ CancelStep(r) \/ Poll(r)
                        \/ ReconcileRow(r)
    \/ \E r \in Requests, status \in Terminal : SettleSeen(r, status)
    \/ LedgerStep

GenSpec == Init /\ [][GenNext]_vars

\* _billing_reconcile_loop runs every ten minutes, and time passes.  A sweep that
\* dies with a stale snapshot gives nothing back: only a charge the next sweep
\* finds still without a job is sure to be.
GenFairness ==
    /\ WF_vars(Tick /\ UNCHANGED jobVars)
    /\ \A r \in Requests :
          /\ WF_vars(SettleEnded(r)) /\ WF_vars(ReadOrphan(r))
          /\ WF_vars(RefundOrphan(r) /\ charges[r].job = NoJob)

GenFairSpec == GenSpec /\ GenFairness

-----------------------------------------------------------------------------
(* Properties.                                                             *)

\* Two submits with the same key never make two jobs, however they interleave
\* (tests/test_generation_jobs.py: a retry of a broken call makes no second
\* job and costs no second time).
OneJobPerIdempotencyKey ==
    \A i, j \in Jobs :
        i # j /\ jobs[i].idem # NoIdem =>
            <<jobs[i].owner, jobs[i].idem>> # <<jobs[j].owner, jobs[j].idem>>

\* A call that was answered "deduplicated" pays nothing itself.
DuplicateIsFree ==
    \A r \in Requests :
        submit[r].pc = "duplicate" => charges[r].state \in {"none", "refunded"}

\* No task reaches the broker before the charge that pays for it names the
\* job: from then on the worker, a poll or the sweep can settle it.
WorkIsCharged ==
    \A j \in Requests :
        task[j].state # "none" => charges[j].state # "none" /\ charges[j].job = j

\* Nobody pays for a job that produced nothing, whatever crashed or was
\* cancelled, retried or read late: spent money has a published result.
SpentIsPublished ==
    \A r \in Requests :
        charges[r].state = "spent" => charges[r].job = r /\ jobs[r].published

\* A hold whose submit died before it made a job is given back by the sweep.
UnlinkedHoldIsRefunded ==
    \A r \in Requests :
        (charges[r].state = "held" /\ charges[r].job = NoJob /\ submit[r].pc = "dead")
            ~> charges[r].state = "refunded"

\* A job that stays ended is paid or refunded, even if nobody polls it and the
\* settlement of the worker was lost.
EndedJobIsSettled ==
    \A r \in Requests :
        (charges[r].state = "held" /\ charges[r].job = r /\ jobs[r].status \in Terminal)
            ~> (charges[r].state # "held" \/ jobs[r].status \notin Terminal)

Published == {j \in Requests : jobs[j].published}

\* The billing chain as seen by the payer.
Order == INSTANCE PrepaidOrder WITH
    Orders <- Requests,
    money <- [r \in Requests |-> charges[r].state],
    delivered <- Published

\* Every step of the submits, workers, polls, cancels, sweeps and crashes is one
\* a prepaid order allows, or none: held before it is worked on, settled once,
\* spent only on what was delivered.
ImplementsPrepaidOrder == Order!OrderSpec

-----------------------------------------------------------------------------
(* Statements of the repository that the code does not keep.               *)

\* "Running jobs are cancelled cooperatively: the worker stops polling and
\* publishing" (docs/reports/GENERAL_VIDEO_GENERATION_FIX_20260909.md:16).
NoPublishAfterCancel ==
    [][\A j \in Requests :
          ~jobs[j].published /\ jobs'[j].published =>
              jobs[j].status \notin {"cancel_requested", "cancelled"}]_jobs

\* "A success settles, a failure or a cancel gives the sum back" (settle,
\* api_keys.py:396): a job that was accepted and published is not refunded.
PublishedIsNotRefunded ==
    \A j \in Requests :
        submit[j].pc = "replied" /\ jobs[j].status = "succeeded" =>
            charges[j].state # "refunded"

\* "The sums in the window are only those not finished yet and those that
\* succeeded" (hold, api_keys.py:336-337): once its task has ended for good, a
\* job does not keep its hold.
EndedTaskReleasesHold ==
    \A j \in Requests :
        (task[j].state = "done" /\ charges[j].state = "held") ~> charges[j].state # "held"

\* "Better keep the quota occupied than give back money that was really spent"
\* (reconcile_held, billing_reconcile.py:37-38): the sweep gives no charge back
\* that names a job.
SweepKeepsLinkedHolds ==
    [][\A r \in Requests : RefundOrphan(r) /\ charges[r].state = "held" =>
          charges[r].job = NoJob]_vars
=============================================================================
