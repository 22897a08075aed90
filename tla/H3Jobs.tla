------------------------------- MODULE H3Jobs -------------------------------
(***************************************************************************)
(* MiniMax H3 video jobs: H3JobClient (h3_jobs.py), the Celery task        *)
(* generate_minimax_h3 (h3_tasks.py), the worker leases of H3Scheduler     *)
(* (h3_scheduler.py) and the job, attempt and worker rows of H3Store       *)
(* (h3_store.py).                                                          *)
(*                                                                         *)
(* A method of H3Store is one SQLite transaction and one step; a Redis     *)
(* command is one step.  Nothing is atomic across two of them.             *)
(*                                                                         *)
(* A task process p is one of the eight of the Celery worker.  The lease   *)
(* version (a uuid per acquisition) is kept as the process that drew it.   *)
(* Jobs are numbered in the order of the queue: priority, then age.        *)
(* Stages follow the status and decide nothing more, so they are left out. *)
(***************************************************************************)
EXTENDS Integers, FiniteSets

CONSTANTS
    Jobs,             \* job ids, smaller is served first
    Workers,          \* GPU workers
    Procs,            \* task processes
    MaxAttempts,      \* 3 in the code
    WithReferences,   \* jobs that download reference media first
    Cancellable,      \* jobs whose client may ask for a cancel
    Billed,           \* jobs submitted with an API key
    MaxFaults,        \* lost processes, second deliveries, failed releases
    MayStall,         \* whether a heartbeat may miss a whole lease
    NoJob, NoWorker, NoProc

Terminal == {"succeeded", "failed", "cancelled"}
CancelStates == {"cancel_requested", "cancelled"}
Statuses == Terminal \cup {"none", "queued", "running", "cancel_requested"}
RowStates == Terminal \cup {"none", "running"}
Numbers == 1..MaxAttempts

\* Where the process holds a worker and its heartbeat thread renews the lease,
\* and where an attempt of its own is in the table as running.
Beating == {"begin", "work"}
Attempting == {"work", "render", "stop", "break"}
Deciding == {"pick", "scan", "lease"}

Pcs == Beating \cup Attempting \cup Deciding \cup
       {"idle", "start", "fetch", "prepare", "loop", "requeue", "resend",
        "free_stopped", "free_broken", "free_done", "again", "give_up", "fail"}

ASSUME H3JobsAssumption == Jobs \subseteq Nat /\ NoJob \notin Jobs
ASSUME H3WorkersAssumption == NoWorker \notin Workers /\ NoProc \notin Procs
ASSUME H3BoundsAssumption == MaxAttempts \in Nat \ {0} /\ MaxFaults \in Nat
ASSUME H3StallAssumption == MayStall \in BOOLEAN

Row == [state: RowStates, worker: Workers \cup {NoWorker}, by: Procs \cup {NoProc}]
NoRow == [state |-> "none", worker |-> NoWorker, by |-> NoProc]

VARIABLES
    status,    \* jobs.status
    attempt,   \* jobs.attempt_count and active_attempt, written together
    current,   \* jobs.current_worker_id
    result,    \* the attempt whose film is in jobs.result_url, 0 for none
    rows,      \* table attempts
    health,    \* workers.status: online, incompatible, or else out (unknown, busy, offline)
    holder,    \* workers.current_job_id
    lease,     \* the lease key of each worker in Redis
    queue,     \* messages of each job in the broker
    revoked,   \* task ids the Celery worker was told to drop
    charge,    \* the usage charge linked to the job
    pc, job, number, worker, found, again,   \* the task processes
    cancel,    \* where the cancel request of each job is
    faults     \* faults so far

table == <<status, attempt, current, result, rows>>
fleet == <<health, holder>>
local == <<pc, job, number, worker, found, again>>
world == <<revoked, charge, cancel>>
vars == <<table, fleet, lease, queue, world, local, faults>>

H3TypeOK ==
    /\ status \in [Jobs -> Statuses]
    /\ attempt \in [Jobs -> 0..MaxAttempts]
    /\ current \in [Jobs -> Workers \cup {NoWorker}]
    /\ result \in [Jobs -> 0..MaxAttempts]
    /\ rows \in [Jobs -> [Numbers -> Row]]
    /\ health \in [Workers -> {"online", "out", "incompatible"}]
    /\ holder \in [Workers -> Jobs \cup {NoJob}]
    /\ lease \in [Workers -> Procs \cup {NoProc}]
    /\ queue \in [Jobs -> Nat]
    /\ revoked \in SUBSET Jobs
    /\ charge \in [Jobs -> {"held", "spent", "refunded"}]
    /\ pc \in [Procs -> Pcs]
    /\ job \in [Procs -> Jobs \cup {NoJob}]
    /\ number \in [Procs -> 0..MaxAttempts]
    /\ worker \in [Procs -> Workers \cup {NoWorker}]
    /\ found \in [Procs -> SUBSET Workers]
    /\ again \in SUBSET Procs
    /\ cancel \in [Jobs -> {"none", "read", "mark", "look", "drop", "revoke", "done"}]
    /\ faults \in 0..MaxFaults

H3Init ==
    /\ status = [j \in Jobs |-> "none"]
    /\ attempt = [j \in Jobs |-> 0]
    /\ current = [j \in Jobs |-> NoWorker]
    /\ result = [j \in Jobs |-> 0]
    /\ rows = [j \in Jobs |-> [n \in Numbers |-> NoRow]]
    /\ health = [w \in Workers |-> "out"]
    /\ holder = [w \in Workers |-> NoJob]
    /\ lease = [w \in Workers |-> NoProc]
    /\ queue = [j \in Jobs |-> 0]
    /\ revoked = {}
    /\ charge = [j \in Jobs |-> "held"]
    /\ pc = [p \in Procs |-> "idle"]
    /\ job = [p \in Procs |-> NoJob]
    /\ number = [p \in Procs |-> 0]
    /\ worker = [p \in Procs |-> NoWorker]
    /\ found = [p \in Procs |-> {}]
    /\ again = {}
    /\ cancel = [j \in Jobs |-> "none"]
    /\ faults = 0

GoTo(p, there) == pc' = [pc EXCEPT ![p] = there]
SetStatus(j, s) == status' = [status EXCEPT ![j] = s]
CancelSeen(j) == status[j] \in CancelStates

\* _pending_queue_where: in the queue and on no worker.
Pending(j) == status[j] \in {"queued", "running"} /\ current[j] = NoWorker
AheadOf(j) == IF Pending(j) THEN {i \in Jobs : i < j /\ Pending(i)} ELSE {}
IsNext(j) == Pending(j) /\ AheadOf(j) = {}

Schedulable == {w \in Workers : health[w] = "online" /\ holder[w] = NoJob}

\* attempt_runtime: the attempt row that is running, if any.
RunningRows(j) == {n \in Numbers : rows[j][n].state = "running"}

-----------------------------------------------------------------------------
(* H3JobClient: submit and cancel, each a chain of separate commits.       *)

CreateJob(j) ==
    /\ status[j] = "none"
    /\ SetStatus(j, "queued")
    /\ queue' = [queue EXCEPT ![j] = @ + 1]
    /\ UNCHANGED <<attempt, current, result, rows, fleet, lease, world, local, faults>>

\* The broker refuses the message; the row is marked and the call raises.
EnqueueFails(j) ==
    /\ status[j] = "none"
    /\ SetStatus(j, "failed")
    /\ UNCHANGED <<attempt, current, result, rows, fleet, lease, queue, world, local, faults>>

\* The process dies after create_job and before send_task.
SubmitDies(j) ==
    /\ status[j] = "none" /\ faults < MaxFaults
    /\ SetStatus(j, "queued")
    /\ faults' = faults + 1
    /\ UNCHANGED <<attempt, current, result, rows, fleet, lease, queue, world, local>>

CancelTo(j, there) == cancel' = [cancel EXCEPT ![j] = there]

\* cancel_requested: the status is read ...
CancelRead(j) ==
    /\ j \in Cancellable /\ status[j] # "none" /\ cancel[j] = "none"
    /\ CancelTo(j, IF status[j] \in Terminal THEN "look" ELSE "mark")
    /\ UNCHANGED <<table, fleet, lease, queue, revoked, charge, local, faults>>

\* ... and written by another transaction.
CancelMark(j) ==
    /\ cancel[j] = "mark"
    /\ SetStatus(j, "cancel_requested")
    /\ CancelTo(j, "look")
    /\ UNCHANGED <<attempt, current, result, rows, fleet, lease, queue, revoked, charge, local,
                   faults>>

\* With an attempt at work its last prompt is cancelled, as far as possible;
\* without one the job is set to cancelled, whatever it is by then.
CancelLook(j) ==
    /\ cancel[j] = "look"
    /\ CancelTo(j, IF RunningRows(j) = {} THEN "drop" ELSE "revoke")
    /\ UNCHANGED <<table, fleet, lease, queue, revoked, charge, local, faults>>

CancelDrop(j) ==
    /\ cancel[j] = "drop"
    /\ SetStatus(j, "cancelled")
    /\ CancelTo(j, "revoke")
    /\ UNCHANGED <<attempt, current, result, rows, fleet, lease, queue, revoked, charge, local,
                   faults>>

CancelRevoke(j) ==
    /\ cancel[j] = "revoke"
    /\ revoked' = revoked \cup {j}
    /\ CancelTo(j, "done")
    /\ UNCHANGED <<table, fleet, lease, queue, charge, local, faults>>

\* Mutant of Settle: only a failure gives the money back.
SettleUnlessFailed(j) ==
    /\ j \in Billed /\ status[j] \in Terminal /\ charge[j] = "held"
    /\ charge' = [charge EXCEPT ![j] = IF status[j] # "failed" THEN "spent" ELSE "refunded"]
    /\ UNCHANGED <<table, fleet, lease, queue, revoked, cancel, local, faults>>

\* A poll, an answer to a cancel or the sweep settles what it reads as ended
\* (get_h3_job, cancel_h3_job; reconcile_held).
Settle(j) ==
    /\ j \in Billed /\ status[j] \in Terminal /\ charge[j] = "held"
    /\ charge' = [charge EXCEPT ![j] = IF status[j] = "succeeded" THEN "spent" ELSE "refunded"]
    /\ UNCHANGED <<table, fleet, lease, queue, revoked, cancel, local, faults>>

-----------------------------------------------------------------------------
(* The task, up to the lease.                                              *)

\* The task returns and its message is acknowledged.
Forget(p) ==
    /\ GoTo(p, "idle")
    /\ job' = [job EXCEPT ![p] = NoJob]
    /\ number' = [number EXCEPT ![p] = 0]
    /\ worker' = [worker EXCEPT ![p] = NoWorker]
    /\ found' = [found EXCEPT ![p] = {}]
    /\ again' = again \ {p}

Receive(p, j) ==
    /\ pc[p] = "idle" /\ queue[j] > 0 /\ j \notin revoked
    /\ queue' = [queue EXCEPT ![j] = @ - 1]
    /\ job' = [job EXCEPT ![p] = j]
    /\ GoTo(p, "start")
    /\ UNCHANGED <<table, fleet, lease, world, number, worker, found, again, faults>>

\* Celery drops the message of a revoked task.
Discard(j) ==
    /\ queue[j] > 0 /\ j \in revoked
    /\ queue' = [queue EXCEPT ![j] = @ - 1]
    /\ UNCHANGED <<table, fleet, lease, world, local, faults>>

\* _check_cancel before the downloads and before every attempt.
CheckCancel(p) ==
    /\ pc[p] \in {"start", "loop"}
    /\ GoTo(p, IF CancelSeen(job[p]) THEN "give_up"
               ELSE IF pc[p] = "start" THEN "fetch" ELSE "pick")
    /\ UNCHANGED <<table, fleet, lease, queue, world, job, number, worker, found, again,
                   faults>>

\* The job is "running" while its references are fetched.
Fetch(p) ==
    /\ pc[p] = "fetch"
    /\ IF job[p] \in WithReferences
       THEN SetStatus(job[p], "running")
       ELSE UNCHANGED status
    /\ GoTo(p, "prepare")
    /\ UNCHANGED <<attempt, current, result, rows, fleet, lease, queue, world, job, number,
                   worker, found, again, faults>>

\* Mutant of Prepare: the attempts are not counted.
PrepareForEver(p) ==
    /\ pc[p] = "prepare"
    /\ number' = [number EXCEPT ![p] = attempt[job[p]] + 1]
    /\ GoTo(p, "loop")
    /\ UNCHANGED <<table, fleet, lease, queue, world, job, worker, found, again, faults>>

\* The references are ready and the number of the first attempt is read; with
\* all attempts used up the loop is empty.
Prepare(p) ==
    /\ pc[p] = "prepare"
    /\ IF attempt[job[p]] < MaxAttempts
       THEN /\ number' = [number EXCEPT ![p] = attempt[job[p]] + 1]
            /\ GoTo(p, "loop")
       ELSE GoTo(p, "fail") /\ UNCHANGED number
    /\ UNCHANGED <<table, fleet, lease, queue, world, job, worker, found, again, faults>>

\* A download, a probe or a split of the reference fails.
PrepareFails(p) ==
    /\ pc[p] = "prepare"
    /\ GoTo(p, "fail")
    /\ UNCHANGED <<table, fleet, lease, queue, world, job, number, worker, found, again,
                   faults>>

\* acquire: is it this job's turn ...
Pick(p) ==
    /\ pc[p] = "pick"
    /\ found' = [found EXCEPT ![p] = {}]
    /\ GoTo(p, IF IsNext(job[p]) THEN "scan" ELSE "lease")
    /\ UNCHANGED <<table, fleet, lease, queue, world, job, number, worker, again, faults>>

\* ... which workers are free ...
Scan(p) ==
    /\ pc[p] = "scan"
    /\ found' = [found EXCEPT ![p] = Schedulable]
    /\ GoTo(p, "lease")
    /\ UNCHANGED <<table, fleet, lease, queue, world, job, number, worker, again, faults>>

\* Mutant of TakeLease: SET without NX.
TakeLeaseAnyway(p) ==
    /\ pc[p] = "lease"
    /\ \E w \in found[p] :
        /\ lease' = [lease EXCEPT ![w] = p]
        /\ worker' = [worker EXCEPT ![p] = w]
    /\ found' = [found EXCEPT ![p] = {}]
    /\ GoTo(p, "begin")
    /\ UNCHANGED <<table, fleet, queue, world, job, number, again, faults>>

\* ... and the first of them whose lease can be set (SET NX EX).
TakeLease(p) ==
    /\ pc[p] = "lease"
    /\ \E w \in found[p] :
        /\ lease[w] = NoProc
        /\ lease' = [lease EXCEPT ![w] = p]
        /\ worker' = [worker EXCEPT ![p] = w]
    /\ found' = [found EXCEPT ![p] = {}]
    /\ GoTo(p, "begin")
    /\ UNCHANGED <<table, fleet, queue, world, job, number, again, faults>>

\* No lease: with nobody ahead the workers are probed (Probe)
\* and it tries once more; then the job goes back to the queue ...
NoLease(p) ==
    /\ pc[p] = "lease" /\ \A w \in found[p] : lease[w] # NoProc
    /\ found' = [found EXCEPT ![p] = {}]
    /\ \/ /\ p \notin again /\ AheadOf(job[p]) = {}
          /\ again' = again \cup {p}
          /\ GoTo(p, "pick")
       \/ /\ p \in again \/ AheadOf(job[p]) # {}
          /\ again' = again \ {p}
          /\ GoTo(p, "requeue")
    /\ UNCHANGED <<table, fleet, lease, queue, world, job, number, worker, faults>>

\* ... or has waited for seven days.
TooLate(p) ==
    /\ pc[p] = "lease" /\ \A w \in found[p] : lease[w] # NoProc
    /\ p \in again \/ AheadOf(job[p]) # {}
    /\ found' = [found EXCEPT ![p] = {}]
    /\ again' = again \ {p}
    /\ GoTo(p, "fail")
    /\ UNCHANGED <<table, fleet, lease, queue, world, job, number, worker, faults>>

Requeue(p) ==
    /\ pc[p] = "requeue"
    /\ SetStatus(job[p], "queued")
    /\ GoTo(p, "resend")
    /\ UNCHANGED <<attempt, current, result, rows, fleet, lease, queue, world, job, number,
                   worker, found, again, faults>>

\* Mutant of Resend: the job waits for a message that is not sent.
ResendNothing(p) ==
    /\ pc[p] = "resend"
    /\ Forget(p)
    /\ UNCHANGED <<table, fleet, lease, queue, world, faults>>

\* self.retry: a new message with the same task id.
Resend(p) ==
    /\ pc[p] = "resend"
    /\ queue' = [queue EXCEPT ![job[p]] = @ + 1]
    /\ Forget(p)
    /\ UNCHANGED <<table, fleet, lease, world, faults>>

-----------------------------------------------------------------------------
(* One attempt.                                                            *)

\* Mutant of Begin: the second insert of a number replaces the first.
BeginAgain(p) ==
    LET j == job[p]  n == number[p]  w == worker[p] IN
    /\ pc[p] = "begin"
    /\ rows' = [rows EXCEPT ![j][n] = [state |-> "running", worker |-> w, by |-> p]]
    /\ SetStatus(j, "running")
    /\ attempt' = [attempt EXCEPT ![j] = n]
    /\ current' = [current EXCEPT ![j] = w]
    /\ health' = [health EXCEPT ![w] = "out"]
    /\ holder' = [holder EXCEPT ![w] = j]
    /\ GoTo(p, "work")
    /\ UNCHANGED <<result, lease, queue, world, job, number, worker, found, again, faults>>

\* begin_attempt: one row per job and number (UNIQUE); the insert of a second
\* raises, and the task ends outside the attempt's own handlers.
Begin(p) ==
    LET j == job[p]  n == number[p]  w == worker[p] IN
    /\ pc[p] = "begin" /\ rows[j][n].state = "none"
    /\ rows' = [rows EXCEPT ![j][n] = [state |-> "running", worker |-> w, by |-> p]]
    /\ SetStatus(j, "running")
    /\ attempt' = [attempt EXCEPT ![j] = n]
    /\ current' = [current EXCEPT ![j] = w]
    /\ health' = [health EXCEPT ![w] = "out"]
    /\ holder' = [holder EXCEPT ![w] = j]
    /\ GoTo(p, "work")
    /\ UNCHANGED <<result, lease, queue, world, job, number, worker, found, again, faults>>

NumberTaken(p) ==
    /\ pc[p] = "begin" /\ rows[job[p]][number[p]].state # "none"
    /\ GoTo(p, "fail")
    /\ UNCHANGED <<table, fleet, lease, queue, world, job, number, worker, found, again,
                   faults>>

\* Between two parts and at every poll (on_poll).
WorkSeesCancel(p) ==
    /\ pc[p] = "work" /\ CancelSeen(job[p])
    /\ GoTo(p, "stop")
    /\ UNCHANGED <<table, fleet, lease, queue, world, job, number, worker, found, again,
                   faults>>

WorkLosesLease(p) ==
    /\ pc[p] = "work" /\ lease[worker[p]] # p
    /\ GoTo(p, "break")
    /\ UNCHANGED <<table, fleet, lease, queue, world, job, number, worker, found, again,
                   faults>>

\* An upload, a prompt, its polling or its download fails; the prompt may go on.
WorkFails(p) ==
    /\ pc[p] = "work"
    /\ GoTo(p, "break")
    /\ UNCHANGED <<table, fleet, lease, queue, world, job, number, worker, found, again,
                   faults>>

\* H3WorkerIncompatible: recorded on the worker before the attempt is closed.
WorkIncompatible(p) ==
    /\ pc[p] = "work"
    /\ health' = [health EXCEPT ![worker[p]] = "incompatible"]
    /\ GoTo(p, "break")
    /\ UNCHANGED <<table, holder, lease, queue, world, job, number, worker, found, again,
                   faults>>

\* All parts are there; a last look at the cancel and a last renewal.
WorkDone(p) ==
    /\ pc[p] = "work" /\ ~CancelSeen(job[p]) /\ lease[worker[p]] = p
    /\ GoTo(p, "render")
    /\ UNCHANGED <<table, fleet, lease, queue, world, job, number, worker, found, again,
                   faults>>

RenderFails(p) ==
    /\ pc[p] = "render"
    /\ GoTo(p, "break")
    /\ UNCHANGED <<table, fleet, lease, queue, world, job, number, worker, found, again,
                   faults>>

\* A worker is given back by the job that is written on it, and by no other.
FreeWorker(w, j, then) ==
    IF holder[w] = j
    THEN /\ holder' = [holder EXCEPT ![w] = NoJob]
         /\ health' = [health EXCEPT ![w] = IF @ = "incompatible" THEN @ ELSE then]
    ELSE UNCHANGED fleet

\* complete_job_if_active: the attempt is still the job's, and nobody has
\* cancelled or completed the job.
MayComplete(p) ==
    LET j == job[p]  n == number[p] IN
    /\ attempt[j] = n
    /\ rows[j][n].by = p /\ rows[j][n].state = "running"
    /\ status[j] \notin CancelStates \cup {"succeeded"}

\* Mutant of Complete: the attempt stays open.
CompleteLeavingAttempt(p) ==
    LET j == job[p]  n == number[p] IN
    /\ pc[p] = "render" /\ MayComplete(p)
    /\ SetStatus(j, "succeeded")
    /\ result' = [result EXCEPT ![j] = n]
    /\ FreeWorker(rows[j][n].worker, j, "online")
    /\ GoTo(p, "free_done")
    /\ UNCHANGED <<attempt, current, rows, lease, queue, world, job, number, worker, found, again,
                   faults>>

Complete(p) ==
    LET j == job[p]  n == number[p] IN
    /\ pc[p] = "render" /\ MayComplete(p)
    /\ rows' = [rows EXCEPT ![j][n].state = "succeeded"]
    /\ SetStatus(j, "succeeded")
    /\ result' = [result EXCEPT ![j] = n]
    /\ FreeWorker(rows[j][n].worker, j, "online")
    /\ GoTo(p, "free_done")
    /\ UNCHANGED <<attempt, current, lease, queue, world, job, number, worker, found, again,
                   faults>>

NotPublished(p) ==
    /\ pc[p] = "render" /\ ~MayComplete(p)
    /\ GoTo(p, "free_done")
    /\ UNCHANGED <<table, fleet, lease, queue, world, job, number, worker, found, again,
                   faults>>

\* Mutant of Finish: the worker is not given back.
FinishKeepingWorker(p) ==
    LET j == job[p]  n == number[p]  w == rows[j][n].worker IN
    /\ pc[p] \in {"stop", "break"}
    /\ rows' = [rows EXCEPT ![j][n].state = IF pc[p] = "stop" THEN "cancelled" ELSE "failed"]
    /\ current' = [current EXCEPT ![j] = IF attempt[j] = n /\ @ = w THEN NoWorker ELSE @]
    /\ GoTo(p, IF pc[p] = "stop" THEN "free_stopped" ELSE "free_broken")
    /\ UNCHANGED <<status, attempt, result, fleet, lease, queue, world, job, number, worker,
                   found, again, faults>>

\* finish_attempt, from the handlers of a cancel and of a failure.
Finish(p) ==
    LET j == job[p]  n == number[p]  w == rows[j][n].worker IN
    /\ pc[p] \in {"stop", "break"}
    /\ rows' = [rows EXCEPT ![j][n].state = IF pc[p] = "stop" THEN "cancelled" ELSE "failed"]
    /\ current' = [current EXCEPT ![j] = IF attempt[j] = n /\ @ = w THEN NoWorker ELSE @]
    /\ FreeWorker(w, j, "out")
    /\ GoTo(p, IF pc[p] = "stop" THEN "free_stopped" ELSE "free_broken")
    /\ UNCHANGED <<status, attempt, result, lease, queue, world, job, number, worker, found,
                   again, faults>>

\* release: compare and delete.
FreeLease(p) == lease' = [lease EXCEPT ![worker[p]] = IF @ = p THEN NoProc ELSE @]

Release(p) ==
    /\ pc[p] \in {"free_stopped", "free_broken"}
    /\ FreeLease(p)
    /\ GoTo(p, IF pc[p] = "free_stopped" THEN "give_up" ELSE "again")
    /\ UNCHANGED <<table, fleet, queue, world, job, number, worker, found, again, faults>>

\* The job is published, or it was not this attempt's to publish.
Return(p) ==
    /\ pc[p] = "free_done"
    /\ FreeLease(p)
    /\ Forget(p)
    /\ UNCHANGED <<table, fleet, queue, world, faults>>

\* Redis raises: after the publication that is one more failure of the attempt,
\* in a handler it ends the task.
ReleaseFails(p) ==
    /\ pc[p] \in {"free_stopped", "free_broken", "free_done"} /\ faults < MaxFaults
    /\ faults' = faults + 1
    /\ GoTo(p, IF pc[p] = "free_done" THEN "break" ELSE "fail")
    /\ UNCHANGED <<table, fleet, lease, queue, world, job, number, worker, found, again>>

\* After a failure: queued, and the next attempt, or all of them have failed.
NextAttempt(p) ==
    LET j == job[p]  n == number[p] IN
    /\ pc[p] = "again" /\ n < MaxAttempts
    /\ SetStatus(j, "queued")
    /\ number' = [number EXCEPT ![p] = n + 1]
    /\ GoTo(p, "loop")
    /\ UNCHANGED <<attempt, current, result, rows, fleet, lease, queue, world, job, worker,
                   found, again, faults>>

NoMoreAttempts(p) ==
    /\ pc[p] = "again" /\ number[p] = MaxAttempts
    /\ GoTo(p, "fail")
    /\ UNCHANGED <<table, fleet, lease, queue, world, job, number, worker, found, again,
                   faults>>

\* The outer handlers write the verdict over whatever the status is.
GiveUp(p) ==
    /\ pc[p] = "give_up"
    /\ SetStatus(job[p], "cancelled")
    /\ Forget(p)
    /\ UNCHANGED <<attempt, current, result, rows, fleet, lease, queue, world, faults>>

Fail(p) ==
    /\ pc[p] = "fail"
    /\ SetStatus(job[p], "failed")
    /\ Forget(p)
    /\ UNCHANGED <<attempt, current, result, rows, fleet, lease, queue, world, faults>>

-----------------------------------------------------------------------------
(* Workers, time and faults.                                               *)

\* record_probe, after enough answers of one kind: a worker with a job is busy,
\* any other is busy too as long as ComfyUI has a prompt.
Probe(w) ==
    /\ \E h \in {"online", "out", "incompatible"} :
        /\ h = "online" => holder[w] = NoJob
        /\ health' = [health EXCEPT ![w] = h]
    /\ UNCHANGED <<table, holder, lease, queue, world, local, faults>>

\* Nobody renews the lease any more: the heartbeat ends with the generation, and
\* rendering, merging and uploading go on without it; or the process stalls.
Expire(w) ==
    /\ lease[w] # NoProc
    /\ MayStall \/ worker[lease[w]] # w \/ pc[lease[w]] \notin Beating
    /\ lease' = [lease EXCEPT ![w] = NoProc]
    /\ UNCHANGED <<table, fleet, queue, world, local, faults>>

\* A process is lost: its message is delivered again (acks_late), its lease and
\* its prompt stay behind.
Lose(p) ==
    /\ pc[p] # "idle" /\ faults < MaxFaults
    /\ faults' = faults + 1
    /\ queue' = [queue EXCEPT ![job[p]] = @ + 1]
    /\ Forget(p)
    /\ UNCHANGED <<table, fleet, lease, world>>

\* A task outlasts the visibility timeout of the broker: delivered once more.
DeliverTwice(p) ==
    /\ pc[p] # "idle" /\ faults < MaxFaults
    /\ faults' = faults + 1
    /\ queue' = [queue EXCEPT ![job[p]] = @ + 1]
    /\ UNCHANGED <<table, fleet, lease, world, local>>

-----------------------------------------------------------------------------

TaskStep(p) ==
    \/ CheckCancel(p) \/ Fetch(p) \/ Prepare(p) \/ PrepareFails(p)
    \/ Pick(p) \/ Scan(p) \/ TakeLease(p) \/ NoLease(p) \/ TooLate(p) \/ Requeue(p) \/ Resend(p)
    \/ Begin(p) \/ NumberTaken(p)
    \/ WorkSeesCancel(p) \/ WorkLosesLease(p) \/ WorkFails(p) \/ WorkIncompatible(p) \/ WorkDone(p)
    \/ RenderFails(p) \/ Complete(p) \/ NotPublished(p)
    \/ Finish(p) \/ Release(p) \/ Return(p) \/ ReleaseFails(p) \/ NextAttempt(p) \/ NoMoreAttempts(p)
    \/ GiveUp(p) \/ Fail(p)

ClientStep(j) ==
    \/ CreateJob(j) \/ EnqueueFails(j) \/ SubmitDies(j)
    \/ CancelRead(j) \/ CancelMark(j) \/ CancelLook(j) \/ CancelDrop(j) \/ CancelRevoke(j)
    \/ Settle(j)

WorldStep ==
    \/ \E w \in Workers : Probe(w) \/ Expire(w)
    \/ \E j \in Jobs : Discard(j)
    \/ \E p \in Procs : Lose(p) \/ DeliverTwice(p)

H3Next ==
    \/ \E p \in Procs : TaskStep(p) \/ \E j \in Jobs : Receive(p, j)
    \/ \E j \in Jobs : ClientStep(j)
    \/ WorldStep

H3Spec == H3Init /\ [][H3Next]_vars

(* The Celery worker takes every message in the end and its tasks go on: every *)
(* wait in them has a timeout.  A message that comes back finds, some day, that *)
(* its job is seven days old: without a lease it is then too late for it.       *)
H3Fairness ==
    /\ \A p \in Procs : WF_vars(TaskStep(p))
    /\ \A j \in Jobs :
        /\ SF_vars(\E p \in Procs : Receive(p, j))
        /\ SF_vars(\E p \in Procs : job[p] = j /\ TooLate(p))
    /\ \A j \in Cancellable :
        /\ WF_vars(Discard(j))
        /\ WF_vars(CancelMark(j) \/ CancelLook(j) \/ CancelDrop(j) \/ CancelRevoke(j))

H3FairSpec == H3Spec /\ H3Fairness

-----------------------------------------------------------------------------
(* Properties.                                                             *)

\* However often a message is delivered, at most one process is at work for a
\* job, and its attempt is the newest and is recorded as running, or has been
\* published: begin_attempt admits one process per number, and a job with a
\* worker is not dispatched again.
OneAttemptAtWork ==
    \A p, q \in Procs : pc[p] \in Attempting =>
        /\ pc[q] \in Attempting /\ job[p] = job[q] => p = q
        /\ rows[job[p]][number[p]].by = p
        /\ rows[job[p]][number[p]].state \in {"running", "succeeded"}

\* A GPU works for one task at a time, as long as no heartbeat misses a whole
\* lease: the list of free workers an acquisition goes through may be stale, and
\* only the lease keeps a second task out (h3_scheduler acquire, _keep_lease).
WorkersAreExclusive ==
    \A p, q \in Procs :
        pc[p] = "work" /\ pc[q] = "work" /\ worker[p] = worker[q] => p = q

\* A worker that is written busy with a job is the one the job is written on, and
\* the newest attempt of the job is running there: the three tables agree, so
\* that ending the attempt gives the worker back (finish_attempt).
HolderHasAttempt ==
    \A w \in Workers : holder[w] # NoJob =>
        LET j == holder[w] IN
        /\ current[j] = w
        /\ attempt[j] \in Numbers
        /\ rows[j][attempt[j]].state = "running" /\ rows[j][attempt[j]].worker = w

\* Nobody pays for a job that has no film.
SpentHasResult == \A j \in Jobs : charge[j] = "spent" => result[j] # 0

\* A job whose message was sent and that nobody cancels comes to an end and stays
\* there, whatever fails on the way: a task that is lost leaves its attempt
\* running, and the delivery that follows can only wait for the seven days.
SentJobEnds ==
    \A j \in Jobs \ Cancellable : queue[j] > 0 ~> [](status[j] \in Terminal)

\* The attempts are fenced: a late or a lost one never publishes over a newer.
Fenced == INSTANCE FencedPublication
    WITH token <- attempt, open <- {j \in Jobs : RunningRows(j) # {}}

ImplementsFencedPublication == Fenced!FencedSpec

\* What the documents say and the code does not do.

\* docs/api-docs.md: a client polls until it reads succeeded, failed or cancelled.
CancelledJobEnds == \A j \in Jobs : cancel[j] = "done" ~> status[j] \in Terminal
=============================================================================
