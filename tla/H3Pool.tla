------------------------------- MODULE H3Pool -------------------------------
(***************************************************************************)
(* The pool of rented GPU machines of MiniMax H3: H3PoolManager            *)
(* (h3_pool.py), the managed_deployments and workers rows of H3Store       *)
(* (h3_store.py) and the provider behind SuanliClient (h3_suanli.py).      *)
(*                                                                         *)
(* Two kinds of process run the pool's code: the loop of the API process   *)
(* (reconcile) and the requests of administrators (request_worker,         *)
(* retire).  There is one API process (cli.py), hence one loop, and the    *)
(* Redis lock of reconcile only delays the first pass after a crash.  A    *)
(* method of H3Store is one step, a call of the provider is one step, and  *)
(* what was read before is used after.                                     *)
(*                                                                         *)
(* A deployment d stands for its row, the worker row made for it and the   *)
(* machine whose task id the row names (provider_task_id is set exactly    *)
(* when machine[d] is not "none"). "closed" is stopped or failed: the code *)
(* treats them alike. A "deleted" worker is one with deleted_at: what its  *)
(* status says after that is never looked at. Ages are choices: any worker *)
(* that is idle, or offline, may have been so for long, and of several     *)
(* requested rows any may be the oldest. Whether an incident forbids new   *)
(* machines for a while (provisioning_allowed) is a choice, too. Jobs are  *)
(* seen as far as they occupy workers.                                     *)
(***************************************************************************)
EXTENDS Integers, FiniteSets

CONSTANTS
    Deployments,   \* ids of deployment rows
    Loop, Admins,  \* processes: the pool's loop, administrators' requests
    MinWorkers, MaxWorkers,
    PoolTroubles,  \* crashes, failing or odd provider calls, administrators' requests
    NoDeployment

ASSUME PoolAssumption ==
    /\ IsFiniteSet(Deployments) /\ NoDeployment \notin Deployments
    /\ Loop \notin Admins
    /\ MinWorkers \in Nat /\ MaxWorkers \in Nat \ {0} /\ PoolTroubles \in Nat

Managers == {Loop} \cup Admins

Open == {"requested", "provisioning", "active", "unavailable"}
WorkerStatuses ==
    {"none", "unknown", "online", "busy", "offline", "incompatible", "disabled", "deleted"}
Answers == {"none", "pending", "running", "url", "ended", "odd", "error"}
LoopSteps == {"create", "store", "list", "next", "ask", "note", "link",
              "ask_again", "note_again", "link_again", "inspect", "stop", "delete", "close",
              "cleanup", "idle", "decide"}
RequestSteps == {"count", "insert", "look", "disable", "shut", "drop", "end"}

Manager == [step: LoopSteps \cup RequestSteps \cup {"off"}, sweep: {"warm", "stale"},
            at: Deployments \cup {NoDeployment}, todo: SUBSET Deployments, saw: Answers]

\* A process with nothing in hand.
Off == [step |-> "off", sweep |-> "warm", at |-> NoDeployment, todo |-> {}, saw |-> "none"]

VARIABLES
    row,      \* managed_deployments.status
    linked,   \* rows with a worker_id
    old,      \* rows older than the startup grace
    worker,   \* workers.status of the worker made for the row
    enabled,  \* workers enabled and not draining
    busy,     \* workers with a current_job_id
    machine,  \* the machine the row names
    mgr,      \* the processes: step, sweep, row at hand, rows left, answer
    extra,    \* rows an administrator asked for
    disowned, \* rows an administrator asked to retire
    lost,     \* rows given up while a machine of theirs may run
    troubles  \* crashes, such calls and administrators' requests so far

workerVars == <<worker, enabled, busy>>
rowVars == <<row, linked, old>>
restVars == <<extra, disowned, lost, troubles>>
poolVars == <<rowVars, workerVars, machine, mgr, restVars>>

PoolTypeOK ==
    /\ row \in [Deployments -> Open \cup {"none", "closed"}]
    /\ worker \in [Deployments -> WorkerStatuses]
    /\ machine \in [Deployments -> {"none", "starting", "up", "ended"}]
    /\ {linked, old, enabled, busy, extra, disowned, lost} \subseteq SUBSET Deployments
    /\ mgr \in [Managers -> Manager]
    /\ troubles \in 0..PoolTroubles

PoolInit ==
    /\ row = [d \in Deployments |-> "none"]
    /\ worker = [d \in Deployments |-> "none"]
    /\ machine = [d \in Deployments |-> "none"]
    /\ linked = {} /\ old = {} /\ enabled = {} /\ busy = {} /\ extra = {} /\ disowned = {}
    /\ lost = {}
    /\ troubles = 0
    /\ mgr = [p \in Managers |-> Off]

-----------------------------------------------------------------------------
(* What the pool counts.                                                   *)

Reserve == IF MinWorkers > 1 THEN MinWorkers ELSE 1

Unclosed == {d \in Deployments : row[d] \in Open}

Healthy == {d \in enabled : worker[d] \in {"online", "busy"}}

\* schedulable_workers
Idle == {d \in enabled \ busy : worker[d] = "online"}

\* _pending_within_grace of a row whose worker does not work yet.
Warming ==
    {d \in Unclosed \ old :
        \/ row[d] \in {"requested", "provisioning"} /\ d \notin linked \cap Healthy
        \/ row[d] = "active" /\ d \in linked /\ worker[d] = "unknown"}

\* A healthy worker that no open row is linked to is a slot of its own.
Slots == Cardinality(Unclosed) + Cardinality(Healthy \ (Unclosed \cap linked))

Capacity == Cardinality(Healthy) + Cardinality(Warming)

MayAdd == Slots < MaxWorkers

-----------------------------------------------------------------------------

Become(p, next) == mgr' = [mgr EXCEPT ![p] = next]
GoTo(p, there) == mgr' = [mgr EXCEPT ![p].step = there]

\* The pass or the request is over, or an exception ends it.
Finish(p) == Become(p, Off)

At(p, there) == mgr[p].step = there
SetRow(d, s) == row' = [row EXCEPT ![d] = s]
StopMachine(d) == machine' = [machine EXCEPT ![d] = "ended"]

Trouble == troubles < PoolTroubles /\ troubles' = troubles + 1

\* Of the requested rows the oldest is provisioned, one in a pass.
Provision(p) ==
    LET requested == {d \in Deployments : row[d] = "requested"} IN
    /\ p = Loop /\ At(p, "off")
    /\ \/ \E d \in requested : Become(p, [Off EXCEPT !.step = "create", !.at = d])
       \/ GoTo(p, "list")
    /\ UNCHANGED <<rowVars, workerVars, machine, restVars>>

\* The provider sells a machine ...
Create(p) ==
    /\ At(p, "create")
    /\ GoTo(p, "store")
    /\ UNCHANGED <<rowVars, workerVars, machine, restVars>>

\* _record_provision_failure: the row is closed.
GiveUp(p) ==
    /\ SetRow(mgr[p].at, "closed")
    /\ Become(p, [Off EXCEPT !.step = "list"])
    /\ UNCHANGED <<linked, old, workerVars, machine, extra, disowned>>

\* The row at hand is given up, or a crash forgets it, with a machine running.
LoseMachine(p) == lost' = lost \cup {mgr[p].at}

\* ... or refuses, or sells one and its answer is lost, and nobody knows of it.
CreateFails(p) ==
    /\ At(p, "create")
    /\ GiveUp(p)
    /\ lost' = lost \/ LoseMachine(p)
    /\ UNCHANGED troubles

\* The task id is stored, whatever has become of the row.
Store(p) ==
    /\ At(p, "store")
    /\ machine' = [machine EXCEPT ![mgr[p].at] = "starting"]
    /\ SetRow(mgr[p].at, "provisioning")
    /\ Become(p, [Off EXCEPT !.step = "list"])
    /\ UNCHANGED <<linked, old, workerVars, restVars>>

\* Storing it fails: the row is closed, and its machine runs without a name.
StoreFails(p) ==
    /\ At(p, "store") /\ Trouble
    /\ GiveUp(p)
    /\ LoseMachine(p)

\* Two sweeps: the provisioning rows, then those in service.
List(p) ==
    LET wanted == IF mgr[p].sweep = "warm" THEN {"provisioning"} ELSE {"active", "unavailable"} IN
    /\ At(p, "list")
    /\ mgr' = [mgr EXCEPT ![p].step = "next",
                          ![p].todo = {d \in Deployments : row[d] \in wanted}]
    /\ UNCHANGED <<rowVars, workerVars, machine, restVars>>

\* _stale: out of order for longer than it is given.
MayBeStale(d) ==
    \/ row[d] = "unavailable"
    \/ row[d] = "active" /\ d \in old /\ (d \notin linked \/ worker[d] = "incompatible")
    \/ row[d] = "active" /\ d \in linked /\ worker[d] = "offline"

Take(p) ==
    /\ At(p, "next")
    /\ \E d \in mgr[p].todo :
        /\ mgr[p].sweep = "stale" => MayBeStale(d)
        /\ mgr' = [mgr EXCEPT ![p].todo = @ \ {d}, ![p].at = d,
                              ![p].step = IF mgr[p].sweep = "warm" THEN "ask" ELSE "ask_again"]
    /\ UNCHANGED <<rowVars, workerVars, machine, restVars>>

\* In order, or offline for a short while only.
Pass(p) ==
    /\ At(p, "next") /\ mgr[p].sweep = "stale"
    /\ \E d \in mgr[p].todo :
        /\ MayBeStale(d) => row[d] = "active" /\ worker[d] = "offline"
        /\ mgr' = [mgr EXCEPT ![p].todo = @ \ {d}]
    /\ UNCHANGED <<rowVars, workerVars, machine, restVars>>

SweepEnds(p) ==
    /\ At(p, "next") /\ mgr[p].todo = {}
    /\ Become(p, IF mgr[p].sweep = "warm"
                 THEN [Off EXCEPT !.step = "list", !.sweep = "stale"]
                 ELSE [Off EXCEPT !.step = "cleanup"])
    /\ UNCHANGED <<rowVars, workerVars, machine, restVars>>

-----------------------------------------------------------------------------
(* _refresh_deployment: what the provider says, and what is written then.  *)

\* "odd": a status the code does not know, or none, or a Spot job that is over,
\* while the machine runs.
Possible(d) ==
    {"error"} \cup CASE machine[d] = "starting" -> {"pending", "odd"}
                     [] machine[d] = "up" -> {"running", "url", "odd"}
                     [] OTHER -> {"ended"}

Again(p) == mgr[p].step \in {"ask_again", "note_again", "link_again"}

Ask(p) ==
    /\ mgr[p].step \in {"ask", "ask_again"}
    /\ \E answer \in Possible(mgr[p].at) :
        /\ mgr' = [mgr EXCEPT ![p].saw = answer,
                              ![p].step = IF Again(p) THEN "note_again" ELSE "note"]
        /\ IF answer = "odd" THEN Trouble ELSE UNCHANGED troubles
    /\ UNCHANGED <<rowVars, workerVars, machine, extra, disowned, lost>>

NextRow(p) == mgr' = [mgr EXCEPT ![p].step = "next", ![p].at = NoDeployment, ![p].saw = "none"]

\* A row that was only asked after is asked again and retired when it is still
\* provisioning after its grace; a row to be retired is, unless it is closed.
Onwards(p, s) ==
    LET there == IF Again(p) THEN IF s = "closed" THEN "next" ELSE "inspect"
                 ELSE IF s = "provisioning" /\ mgr[p].at \in old THEN "ask_again" ELSE "next"
    IN  IF there = "next" THEN NextRow(p)
        ELSE mgr' = [mgr EXCEPT ![p].step = there, ![p].saw = "none"]

\* Mutant of Refreshed: a running machine serves before its worker is linked.
RefreshedRunning(p) ==
    CASE mgr[p].saw \in {"ended", "odd"} -> "closed"
      [] mgr[p].saw \in {"running", "url"} -> "active"
      [] mgr[p].saw = "pending" -> "provisioning"
      [] OTHER -> row[mgr[p].at]

\* Mutant of Refreshed: the provider's word is written as it is.
RefreshedWord(p) == mgr[p].saw

\* Any status but Pending and Running is taken for the end of the machine, and
\* nothing is stopped; a failing call changes nothing.
Refreshed(p) ==
    LET d == mgr[p].at IN
    CASE mgr[p].saw \in {"ended", "odd"} -> "closed"
      [] mgr[p].saw \in {"running", "url"} /\ d \in linked -> "active"
      [] mgr[p].saw \in {"pending", "running"} -> "provisioning"
      [] OTHER -> row[d]

\* The worker of a running machine is made in one transaction and linked in the
\* next; its name is unique, so making it twice raises and changes nothing.
MustLink(p) == mgr[p].saw = "url" /\ mgr[p].at \notin linked

Note(p) ==
    /\ mgr[p].step \in {"note", "note_again"}
    /\ MustLink(p) => worker[mgr[p].at] # "none"
    /\ SetRow(mgr[p].at, Refreshed(p))
    /\ Onwards(p, Refreshed(p))
    /\ IF mgr[p].saw = "odd" THEN LoseMachine(p) ELSE UNCHANGED lost
    /\ UNCHANGED <<linked, old, workerVars, machine, extra, disowned, troubles>>

CreateWorker(p) ==
    /\ mgr[p].step \in {"note", "note_again"} /\ MustLink(p) /\ worker[mgr[p].at] = "none"
    /\ worker' = [worker EXCEPT ![mgr[p].at] = "unknown"]
    /\ enabled' = enabled \cup {mgr[p].at}
    /\ GoTo(p, IF Again(p) THEN "link_again" ELSE "link")
    /\ UNCHANGED <<rowVars, busy, machine, restVars>>

Link(p) ==
    /\ mgr[p].step \in {"link", "link_again"}
    /\ linked' = linked \cup {mgr[p].at}
    /\ SetRow(mgr[p].at, "active")
    /\ Onwards(p, "active")
    /\ UNCHANGED <<old, workerVars, machine, restVars>>

-----------------------------------------------------------------------------
(* _retire_stale: stop, delete, close; unavailable when one of them fails. *)

Retry(p) == SetRow(mgr[p].at, "unavailable") /\ NextRow(p)

Inspect(p) ==
    /\ At(p, "inspect")
    /\ IF mgr[p].at \in linked \cap busy THEN Retry(p) ELSE GoTo(p, "stop") /\ UNCHANGED row
    /\ UNCHANGED <<linked, old, workerVars, machine, restVars>>

Stop(p) ==
    /\ At(p, "stop")
    /\ StopMachine(mgr[p].at)
    /\ GoTo(p, IF mgr[p].at \in linked THEN "delete" ELSE "close")
    /\ UNCHANGED <<rowVars, workerVars, restVars>>

\* Mutant of StopFails: the row is closed all the same.
StopFailsUnseen(p) ==
    /\ At(p, "stop") /\ Trouble
    /\ GoTo(p, "close")
    /\ UNCHANGED <<rowVars, workerVars, machine, extra, disowned, lost>>

\* The call fails, or it stops the machine and the answer is lost.
StopFails(p) ==
    /\ At(p, "stop") /\ Trouble
    /\ machine' = machine \/ StopMachine(mgr[p].at)
    /\ Retry(p)
    /\ UNCHANGED <<linked, old, workerVars, extra, disowned, lost>>

\* delete_worker refuses a worker with a job.
DeleteWorker(d) ==
    /\ d \notin busy
    /\ worker' = [worker EXCEPT ![d] = "deleted"]
    /\ enabled' = enabled \ {d}
    /\ UNCHANGED <<busy>>

Delete(p) ==
    /\ At(p, "delete")
    /\ \/ DeleteWorker(mgr[p].at) /\ GoTo(p, "close") /\ UNCHANGED row
       \/ mgr[p].at \in busy /\ Retry(p) /\ UNCHANGED workerVars
    /\ UNCHANGED <<linked, old, machine, restVars>>

Close(p) ==
    /\ At(p, "close")
    /\ SetRow(mgr[p].at, "closed")
    /\ NextRow(p)
    /\ UNCHANGED <<linked, old, workerVars, machine, restVars>>

\* cleanup_offline_workers: workers of no open row, offline for long.
Cleanup(p) ==
    LET loose == {d \in Deployments \ busy : worker[d] = "offline"} \ (Unclosed \cap linked) IN
    /\ At(p, "cleanup")
    /\ \E gone \in SUBSET loose :
        /\ worker' = [d \in Deployments |-> IF d \in gone THEN "deleted" ELSE worker[d]]
        /\ enabled' = enabled \ gone
    /\ GoTo(p, "idle")
    /\ UNCHANGED <<rowVars, busy, machine, restVars>>

-----------------------------------------------------------------------------
(* The decision of a pass, and the two requests it shares with admins.     *)

\* _update_idle: the healthy active rows whose worker has nothing to do.
UpdateIdle(p) ==
    /\ At(p, "idle")
    /\ mgr' = [mgr EXCEPT ![p].step = "decide",
                          ![p].todo = {d \in linked \cap Idle : row[d] = "active"}]
    /\ UNCHANGED <<rowVars, workerVars, machine, restVars>>

\* Mutant of ShouldAdd: a machine that is warming is no reserve.
ShouldAddAlways == Capacity < Reserve \/ Idle = {}

ShouldAdd == Capacity < Reserve \/ (Idle = {} /\ Warming = {})

ShouldRetire == ~ShouldAdd /\ Capacity > Reserve /\ Cardinality(Idle) > 1

\* A pass may also end with nothing done: an incident forbids machines of this
\* kind, or no idle worker has been idle for long enough.
Decide(p) ==
    /\ At(p, "decide")
    /\ \/ ShouldAdd /\ MayAdd /\ Become(p, [Off EXCEPT !.step = "count"])
       \/ ShouldRetire /\ \E d \in mgr[p].todo : Become(p, [Off EXCEPT !.step = "look", !.at = d])
       \/ Finish(p)
    /\ UNCHANGED <<rowVars, workerVars, machine, restVars>>

AdminRequests(p) ==
    /\ p \in Admins /\ At(p, "off") /\ Trouble
    /\ GoTo(p, "count")
    /\ UNCHANGED <<rowVars, workerVars, machine, extra, disowned, lost>>

AdminRetires(p, d) ==
    /\ p \in Admins /\ At(p, "off") /\ row[d] # "none" /\ Trouble
    /\ Become(p, [Off EXCEPT !.step = "look", !.at = d])
    /\ disowned' = disowned \cup {d}
    /\ UNCHANGED <<rowVars, workerVars, machine, extra, lost>>

\* request_worker compares the slots with the maximum, or refuses because of an
\* incident ...
Count(p) ==
    /\ At(p, "count")
    /\ \/ MayAdd /\ GoTo(p, "insert")
       \/ Finish(p)
    /\ UNCHANGED <<rowVars, workerVars, machine, restVars>>

\* ... and inserts by another transaction.
Insert(p) ==
    /\ At(p, "insert")
    /\ \E d \in Deployments :
        /\ row[d] = "none" /\ SetRow(d, "requested")
        /\ extra' = IF p \in Admins THEN extra \cup {d} ELSE extra
    /\ Finish(p)
    /\ UNCHANGED <<linked, old, workerVars, machine, disowned, lost, troubles>>

\* retire: the row and its worker are read.  What was read of them is kept: the
\* worker in todo, the task id in saw.
Look(p) ==
    LET d == mgr[p].at IN
    /\ At(p, "look")
    /\ IF d \in linked \cap busy
       THEN Finish(p)
       ELSE mgr' = [mgr EXCEPT ![p].step = "disable", ![p].todo = linked \cap {d},
                               ![p].saw = IF machine[d] = "none" THEN "none" ELSE "running"]
    /\ UNCHANGED <<rowVars, workerVars, machine, restVars>>

Disable(p) ==
    /\ At(p, "disable")
    /\ enabled' = enabled \ mgr[p].todo
    /\ GoTo(p, "shut")
    /\ UNCHANGED <<rowVars, worker, busy, machine, restVars>>

Shut(p) ==
    /\ At(p, "shut")
    /\ IF mgr[p].saw = "none" THEN UNCHANGED machine ELSE StopMachine(mgr[p].at)
    /\ GoTo(p, "drop")
    /\ UNCHANGED <<rowVars, workerVars, restVars>>

ShutFails(p) ==
    /\ At(p, "shut") /\ mgr[p].saw # "none" /\ Trouble
    /\ machine' = machine \/ StopMachine(mgr[p].at)
    /\ Finish(p)
    /\ UNCHANGED <<rowVars, workerVars, extra, disowned, lost>>

Drop(p) ==
    /\ At(p, "drop")
    /\ \/ mgr[p].todo = {} /\ GoTo(p, "end") /\ UNCHANGED workerVars
       \/ mgr[p].todo # {} /\ DeleteWorker(mgr[p].at) /\ GoTo(p, "end")
       \/ mgr[p].todo # {} /\ mgr[p].at \in busy /\ Finish(p) /\ UNCHANGED workerVars
    /\ UNCHANGED <<rowVars, machine, restVars>>

End(p) ==
    /\ At(p, "end")
    /\ SetRow(mgr[p].at, "closed")
    /\ Finish(p)
    /\ UNCHANGED <<linked, old, workerVars, machine, restVars>>

-----------------------------------------------------------------------------
(* Machines, probes, jobs, time and crashes.                               *)

MachineMoves(d) ==
    /\ \/ machine[d] = "starting" /\ machine' = [machine EXCEPT ![d] = "up"]
       \/ machine[d] \in {"starting", "up"} /\ StopMachine(d)
    /\ UNCHANGED <<rowVars, workerVars, mgr, restVars>>

\* record_probe, after enough answers of one kind.
Verdicts(d) ==
    (IF machine[d] = "up"
     THEN {"incompatible", IF d \notin enabled THEN "disabled"
                           ELSE IF d \in busy THEN "busy" ELSE "online"}
     ELSE {}) \cup {IF d \in enabled THEN "offline" ELSE "disabled"}

Probe(d) ==
    /\ worker[d] \notin {"none", "deleted"}
    /\ \E s \in Verdicts(d) : worker' = [worker EXCEPT ![d] = s]
    /\ UNCHANGED <<rowVars, enabled, busy, machine, mgr, restVars>>

\* A task begins on a worker that was free when it looked, and that may have
\* been retired since.
BeginJob(d) ==
    /\ worker[d] \notin {"none", "unknown"} /\ d \notin busy
    /\ busy' = busy \cup {d}
    /\ worker' = [worker EXCEPT ![d] = IF @ = "deleted" THEN @ ELSE "busy"]
    /\ UNCHANGED <<rowVars, enabled, machine, mgr, restVars>>

EndJob(d) ==
    /\ d \in busy
    /\ busy' = busy \ {d}
    /\ \E s \in {"online", "unknown"} :
        worker' = [worker EXCEPT ![d] = IF @ = "deleted" THEN @
                                        ELSE IF d \notin enabled THEN "disabled"
                                        ELSE IF @ = "incompatible" THEN @ ELSE s]
    /\ UNCHANGED <<rowVars, enabled, machine, mgr, restVars>>

Age(d) ==
    /\ row[d] \in Open /\ d \notin old
    /\ old' = old \cup {d}
    /\ UNCHANGED <<row, linked, workerVars, machine, mgr, restVars>>

\* The API process dies, or a write of the pass raises once more in its handler:
\* of a machine that has been bought and not stored nobody knows.
Crash(p) ==
    /\ p = Loop /\ ~At(p, "off") /\ Trouble
    /\ Become(p, Off)
    /\ IF At(p, "store") THEN LoseMachine(p) ELSE UNCHANGED lost
    /\ UNCHANGED <<rowVars, workerVars, machine, extra, disowned>>

\* A closed row of which nothing is left makes room for a new one.
Forget(d) ==
    /\ row[d] = "closed" /\ worker[d] \in {"none", "deleted"} /\ machine[d] \in {"none", "ended"}
    /\ d \notin busy /\ \A p \in Managers : mgr[p].at # d /\ d \notin mgr[p].todo
    /\ SetRow(d, "none")
    /\ worker' = [worker EXCEPT ![d] = "none"]
    /\ machine' = [machine EXCEPT ![d] = "none"]
    /\ linked' = linked \ {d}
    /\ old' = old \ {d}
    /\ extra' = extra \ {d}
    /\ disowned' = disowned \ {d}
    /\ lost' = lost \ {d}
    /\ UNCHANGED <<enabled, busy, mgr, troubles>>

-----------------------------------------------------------------------------

LoopStep(p) ==
    \/ Provision(p) \/ Create(p) \/ CreateFails(p) \/ Store(p) \/ StoreFails(p)
    \/ List(p) \/ Take(p) \/ Pass(p) \/ SweepEnds(p)
    \/ Ask(p) \/ Note(p) \/ CreateWorker(p) \/ Link(p)
    \/ Inspect(p) \/ Stop(p) \/ StopFails(p) \/ Delete(p) \/ Close(p)
    \/ Cleanup(p) \/ UpdateIdle(p) \/ Decide(p)

RequestStep(p) ==
    \/ Count(p) \/ Insert(p)
    \/ Look(p) \/ Disable(p) \/ Shut(p) \/ ShutFails(p) \/ Drop(p) \/ End(p)

PoolNext ==
    \/ \E p \in Managers :
        \/ LoopStep(p) \/ RequestStep(p) \/ Crash(p) \/ AdminRequests(p)
        \/ \E d \in Deployments : AdminRetires(p, d)
    \/ \E d \in Deployments :
        \/ MachineMoves(d) \/ Probe(d) \/ BeginJob(d) \/ EndJob(d) \/ Age(d) \/ Forget(d)

PoolSpec == PoolInit /\ [][PoolNext]_poolVars

-----------------------------------------------------------------------------
(* Properties.                                                             *)

\* "A requested/provisioning worker counts as the future reserve so that only
\* one machine is started at a time" (h3_pool.py, reconcile): as long as they
\* are within their grace, the loop has no more machines on their way than the
\* reserve asks for, through crashes and beside the requests of administrators.
OneStartAtATime ==
    Cardinality({d \in Unclosed \ (old \cup extra) : row[d] \in {"requested", "provisioning"}})
        <= Reserve

\* A closed row stands for no machine that is still being paid for: whoever closes
\* it has seen its machine ended, or stopped it (_refresh_deployment,
\* _retire_stale, retire).  Excepted are the rows an administrator retires, and
\* those the code gives up without a stop: a status it does not know, and a
\* purchase whose answer was lost or whose task id was not stored (lost).
ClosedMachineHasEnded ==
    \A d \in Deployments \ (disowned \cup lost) :
        row[d] = "closed" => machine[d] \in {"none", "ended"}

\* A machine in service is one the probes reach: the row of an active machine
\* names its worker, and a worker that may be given jobs is not one that was
\* deleted, so that jobs are sent to machines the pool still counts
\* (_refresh_deployment links what it has made, delete_worker withdraws what it
\* deletes).
ActiveIsWatched ==
    \A d \in Deployments :
        /\ row[d] = "active" => d \in linked /\ worker[d] # "none"
        /\ d \in enabled => worker[d] \notin {"none", "deleted"}
=============================================================================
