--------------------------- MODULE H3Jobs_proofs ----------------------------
(***************************************************************************)
(* What H3 jobs never do, for any number of jobs, workers, task processes, *)
(* attempts, lost processes, second deliveries and stalled heartbeats.     *)
(*                                                                         *)
(* The invariant follows a process through its attempt: before it begins,  *)
(* its number is at most the next one, and if it is the next one and the   *)
(* process has passed the dispatch check, the job is on no worker; while   *)
(* it is at work its number is the job's and the row is its own.  Two      *)
(* processes with the next number race for one insert, and the loser's     *)
(* number is then too old for good.                                        *)
(***************************************************************************)
EXTENDS H3Jobs, TLAPS

Before == {"loop", "begin"} \cup Deciding
AtWork == Attempting \cup {"free_done"}
Ended == {"free_stopped", "free_broken", "again"}

\* The process has passed is_next_dispatch_job.
Chosen(p) == pc[p] \in {"scan", "begin"} \/ (pc[p] = "lease" /\ found[p] # {})

\* Types of what a process holds, where it uses it.
Equipped(p) ==
    /\ pc[p] # "idle" => job[p] \in Jobs
    /\ pc[p] \in {"begin"} \cup AtWork \cup Ended => worker[p] \in Workers
    /\ pc[p] \in Before \cup AtWork \cup Ended => number[p] \in Numbers

OwnRow(p) ==
    /\ number[p] = attempt[job[p]]
    /\ current[job[p]] # NoWorker
    /\ rows[job[p]][number[p]].by = p
    /\ rows[job[p]][number[p]].state \in {"running", "succeeded"}

\* Where a process is with its attempt.
InStep(p) ==
    /\ pc[p] \in Before => number[p] <= attempt[job[p]] + 1
    /\ Chosen(p) /\ number[p] = attempt[job[p]] + 1 => current[job[p]] = NoWorker
    /\ pc[p] \in AtWork => OwnRow(p)
    /\ pc[p] \in {"work", "render", "stop"} => rows[job[p]][number[p]].state = "running"
    /\ pc[p] \in Ended => number[p] <= attempt[job[p]]

\* The attempts of a job are numbered without gaps, and one that runs is the newest
\* and on the worker the job is on.
Numbered(j) ==
    \A n \in Numbers :
        /\ rows[j][n].state = "none" <=> n > attempt[j]
        /\ rows[j][n].state = "running" =>
               n = attempt[j] /\ rows[j][n].worker = current[j] /\ current[j] # NoWorker

\* A published job has a film, and so has a paid one.
HasFilm(j) == status[j] = "succeeded" \/ charge[j] = "spent" => result[j] # 0

AttemptInv ==
    /\ H3TypeOK
    /\ \A p \in Procs : Equipped(p) /\ InStep(p)
    /\ \A j \in Jobs : Numbered(j)
    /\ HolderHasAttempt

FilmInv == \A j \in Jobs : HasFilm(j)

\* The heartbeat keeps the lease from the acquisition to the end of the generation.
LeaseKept ==
    \A p \in Procs : pc[p] \in Beating => lease[worker[p]] = p

USE H3JobsAssumption, H3WorkersAssumption, H3BoundsAssumption, H3StallAssumption

-----------------------------------------------------------------------------

\* Types, by part.
TableTypes ==
    /\ status \in [Jobs -> Statuses]
    /\ attempt \in [Jobs -> 0..MaxAttempts]
    /\ current \in [Jobs -> Workers \cup {NoWorker}]
    /\ result \in [Jobs -> 0..MaxAttempts]
    /\ rows \in [Jobs -> [Numbers -> Row]]

FleetTypes ==
    /\ health \in [Workers -> {"online", "out", "incompatible"}]
    /\ holder \in [Workers -> Jobs \cup {NoJob}]
    /\ lease \in [Workers -> Procs \cup {NoProc}]

WorldTypes ==
    /\ queue \in [Jobs -> Nat]
    /\ revoked \in SUBSET Jobs
    /\ charge \in [Jobs -> {"held", "spent", "refunded"}]
    /\ cancel \in [Jobs -> {"none", "read", "mark", "look", "drop", "revoke", "done"}]
    /\ faults \in 0..MaxFaults

ProcTypes ==
    /\ pc \in [Procs -> Pcs]
    /\ job \in [Procs -> Jobs \cup {NoJob}]
    /\ number \in [Procs -> 0..MaxAttempts]
    /\ worker \in [Procs -> Workers \cup {NoWorker}]
    /\ found \in [Procs -> SUBSET Workers]
    /\ again \in SUBSET Procs

LEMMA TypesByPart == H3TypeOK <=> TableTypes /\ FleetTypes /\ WorldTypes /\ ProcTypes
  BY DEF H3TypeOK, TableTypes, FleetTypes, WorldTypes, ProcTypes

\* Writing one field of one attempt leaves rows.
LEMMA RowWrite ==
  ASSUME TableTypes, NEW j \in Jobs, NEW n \in Numbers, NEW s \in RowStates
  PROVE  [rows EXCEPT ![j][n].state = s] \in [Jobs -> [Numbers -> Row]]
<1>1. rows[j] \in [Numbers -> Row] /\ rows[j][n] \in Row
  BY DEF TableTypes
<1>2. [rows[j][n] EXCEPT !.state = s] \in Row
  BY <1>1 DEF Row
<1>3. [rows[j] EXCEPT ![n].state = s] \in [Numbers -> Row]
  BY <1>1, <1>2
<1>. QED
  BY <1>3 DEF TableTypes

\* The client's steps keep the types.
LEMMA ClientTypes ==
  ASSUME H3TypeOK, NEW j \in Jobs, ClientStep(j)
  PROVE  H3TypeOK'
<1>0. TableTypes /\ FleetTypes /\ WorldTypes /\ ProcTypes
  BY TypesByPart
<1>1. UNCHANGED <<attempt, current, result, rows, fleet, lease, local>>
  BY DEF ClientStep, CreateJob, EnqueueFails, SubmitDies, CancelRead, CancelMark, CancelLook,
         CancelDrop, CancelRevoke, Settle, table
<1>2. FleetTypes' /\ ProcTypes'
  BY <1>0, <1>1 DEF FleetTypes, ProcTypes, fleet, local
<1>3. status' \in [Jobs -> Statuses]
  BY <1>0 DEF ClientStep, CreateJob, EnqueueFails, SubmitDies, CancelRead, CancelMark, CancelLook,
         CancelDrop, CancelRevoke, Settle, table, SetStatus, TableTypes, Statuses, Terminal
<1>4. TableTypes'
  BY <1>0, <1>1, <1>3 DEF TableTypes
<1>5. queue' \in [Jobs -> Nat] /\ faults' \in 0..MaxFaults
  BY <1>0 DEF ClientStep, CreateJob, EnqueueFails, SubmitDies, CancelRead, CancelMark, CancelLook,
         CancelDrop, CancelRevoke, Settle, WorldTypes
<1>6. cancel' \in [Jobs -> {"none", "read", "mark", "look", "drop", "revoke", "done"}]
  BY <1>0 DEF ClientStep, CreateJob, EnqueueFails, SubmitDies, CancelRead, CancelMark, CancelLook,
         CancelDrop, CancelRevoke, Settle, WorldTypes, world, CancelTo
<1>7. revoked' \in SUBSET Jobs
  BY <1>0 DEF ClientStep, CreateJob, EnqueueFails, SubmitDies, CancelRead, CancelMark, CancelLook,
         CancelDrop, CancelRevoke, Settle, WorldTypes, world
<1>9. charge' \in [Jobs -> {"held", "spent", "refunded"}]
  BY <1>0 DEF ClientStep, CreateJob, EnqueueFails, SubmitDies, CancelRead, CancelMark, CancelLook,
         CancelDrop, CancelRevoke, Settle, WorldTypes, world
<1>8. WorldTypes'
  BY <1>5, <1>6, <1>7, <1>9 DEF WorldTypes
<1>. QED
  BY <1>2, <1>4, <1>8 DEF H3TypeOK, TableTypes, FleetTypes, WorldTypes, ProcTypes

\* The steps of a task before it has a lease.
PrepStep(p) ==
    \/ CheckCancel(p) \/ Fetch(p) \/ Prepare(p) \/ PrepareFails(p)
    \/ Pick(p) \/ Scan(p) \/ TakeLease(p) \/ NoLease(p) \/ TooLate(p) \/ Requeue(p) \/ Resend(p)

LEMMA NextInRange == \A k \in 0..MaxAttempts : k < MaxAttempts => k + 1 \in Numbers /\ k + 1 \in 0..MaxAttempts
  BY DEF Numbers

LEMMA PrepTypes ==
  ASSUME AttemptInv, NEW p \in Procs, PrepStep(p)
  PROVE  H3TypeOK'
<1>0. TableTypes /\ FleetTypes /\ WorldTypes /\ ProcTypes /\ Equipped(p)
  BY TypesByPart DEF AttemptInv
<1> USE <1>0 DEF PrepStep, CheckCancel, Fetch, Prepare, PrepareFails, Pick, Scan, TakeLease,
        NoLease, TooLate, Requeue, Resend, GoTo, Forget, Equipped
<1>1. job[p] \in Jobs
  BY DEF Pcs
<1>2. UNCHANGED <<attempt, current, result, rows, health, holder, world, faults>>
  BY DEF table, fleet
<1>3. status' \in [Jobs -> Statuses]
  BY <1>1 DEF table, TableTypes, SetStatus, Statuses
<1>4. lease' \in [Workers -> Procs \cup {NoProc}]
  BY DEF FleetTypes, ProcTypes
<1>5. queue' \in [Jobs -> Nat]
  BY <1>1 DEF WorldTypes
<1>6. pc' \in [Procs -> Pcs]
  BY DEF ProcTypes, Pcs, Deciding, Beating, Attempting
<1>7. job' \in [Procs -> Jobs \cup {NoJob}]
  BY DEF ProcTypes
<1>8. number' \in [Procs -> 0..MaxAttempts]
  <2>1. attempt[job[p]] < MaxAttempts => attempt[job[p]] + 1 \in 0..MaxAttempts
    BY <1>1, NextInRange DEF TableTypes
  <2>2. CASE Prepare(p)
    BY <2>1, <2>2 DEF ProcTypes
  <2>3. CASE ~Prepare(p)
    BY <2>3 DEF ProcTypes
  <2>. QED
    BY <2>2, <2>3
<1>9. worker' \in [Procs -> Workers \cup {NoWorker}]
  BY DEF ProcTypes
<1>10. found' \in [Procs -> SUBSET Workers] /\ again' \in SUBSET Procs
  BY DEF ProcTypes, Schedulable
<1>. QED
  BY <1>2, <1>3, <1>4, <1>5, <1>6, <1>7, <1>8, <1>9, <1>10
     DEF H3TypeOK, TableTypes, FleetTypes, WorldTypes, ProcTypes, world

\* The steps of an attempt, from its row to its publication.
AttemptStep(p) ==
    \/ Begin(p) \/ NumberTaken(p)
    \/ WorkSeesCancel(p) \/ WorkLosesLease(p) \/ WorkFails(p) \/ WorkIncompatible(p) \/ WorkDone(p)
    \/ RenderFails(p) \/ Complete(p) \/ NotPublished(p)

\* The steps after an attempt.
EndStep(p) ==
    \/ Finish(p) \/ Release(p) \/ Return(p) \/ ReleaseFails(p) \/ NextAttempt(p) \/ NoMoreAttempts(p)
    \/ GiveUp(p) \/ Fail(p)

LEMMA AttemptTypes ==
  ASSUME AttemptInv, NEW p \in Procs, AttemptStep(p)
  PROVE  H3TypeOK'
<1>0. TableTypes /\ FleetTypes /\ WorldTypes /\ ProcTypes /\ Equipped(p) /\ InStep(p)
  BY TypesByPart DEF AttemptInv
<1>1. job[p] \in Jobs /\ worker[p] \in Workers /\ number[p] \in Numbers
  BY <1>0 DEF AttemptStep, Begin, NumberTaken, WorkSeesCancel, WorkLosesLease, WorkFails,
         WorkIncompatible, WorkDone, RenderFails, Complete, NotPublished, Equipped, AtWork,
         Attempting, Before
<1> DEFINE j == job[p]
           n == number[p]
<1>2. Numbers \subseteq 0..MaxAttempts
  BY DEF Numbers
<1>3. CASE Begin(p)
  <2>1. [state |-> "running", worker |-> worker[p], by |-> p] \in Row
    BY <1>1 DEF Row, RowStates
  <2>2. rows' \in [Jobs -> [Numbers -> Row]]
    BY <1>0, <1>1, <1>3, <2>1 DEF Begin, TableTypes
  <2>3. TableTypes'
    BY <1>0, <1>1, <1>2, <1>3, <2>2 DEF Begin, TableTypes, SetStatus, Statuses
  <2>4. FleetTypes' /\ ProcTypes' /\ WorldTypes'
    BY <1>0, <1>1, <1>3 DEF Begin, FleetTypes, ProcTypes, WorldTypes, world, GoTo, Pcs, Attempting
  <2>. QED
    BY <2>3, <2>4 DEF H3TypeOK, TableTypes, FleetTypes, WorldTypes, ProcTypes
<1>4. CASE Complete(p)
  <2>1. rows' \in [Jobs -> [Numbers -> Row]]
    BY <1>0, <1>1, <1>4, RowWrite DEF Complete, RowStates, Terminal
  <2>2. TableTypes'
    BY <1>0, <1>1, <1>2, <1>4, <2>1 DEF Complete, TableTypes, SetStatus, Statuses, Terminal
  <2>3. FleetTypes'
    BY <1>0, <1>4 DEF Complete, FreeWorker, fleet, FleetTypes
  <2>4. ProcTypes' /\ WorldTypes'
    BY <1>0, <1>4 DEF Complete, ProcTypes, WorldTypes, world, GoTo, Pcs
  <2>. QED
    BY <2>2, <2>3, <2>4 DEF H3TypeOK, TableTypes, FleetTypes, WorldTypes, ProcTypes
<1>5. CASE ~Begin(p) /\ ~Complete(p)
  <2> USE <1>5 DEF AttemptStep, NumberTaken, WorkSeesCancel, WorkLosesLease, WorkFails,
          WorkIncompatible, WorkDone, RenderFails, NotPublished
  <2>1. UNCHANGED <<table, holder, lease, world, queue, faults, job, number, worker, found, again>>
    BY DEF fleet
  <2>2. health' \in [Workers -> {"online", "out", "incompatible"}]
    BY <1>0 DEF fleet, FleetTypes
  <2>3. pc' \in [Procs -> Pcs]
    BY <1>0 DEF ProcTypes, GoTo, Pcs, Attempting
  <2>. QED
    BY <1>0, <2>1, <2>2, <2>3
       DEF H3TypeOK, TableTypes, FleetTypes, WorldTypes, ProcTypes, table, world
<1>. QED
  BY <1>3, <1>4, <1>5 DEF AttemptStep

LEMMA EndTypes ==
  ASSUME AttemptInv, NEW p \in Procs, EndStep(p)
  PROVE  H3TypeOK'
<1>0. TableTypes /\ FleetTypes /\ WorldTypes /\ ProcTypes /\ Equipped(p) /\ InStep(p)
  BY TypesByPart DEF AttemptInv
<1>1. job[p] \in Jobs
  BY <1>0 DEF EndStep, Finish, Release, Return, ReleaseFails, NextAttempt, NoMoreAttempts, GiveUp,
         Fail, Equipped
<1>2. CASE Finish(p)
  <2>1. number[p] \in Numbers
    BY <1>0, <1>2 DEF Finish, Equipped, AtWork, Attempting
  <2>2. rows' \in [Jobs -> [Numbers -> Row]]
    BY <1>0, <1>1, <1>2, <2>1, RowWrite DEF Finish, RowStates, Terminal
  <2>3. TableTypes'
    BY <1>0, <1>1, <1>2, <2>2 DEF Finish, TableTypes
  <2>4. FleetTypes'
    BY <1>0, <1>2 DEF Finish, FreeWorker, fleet, FleetTypes
  <2>5. ProcTypes' /\ WorldTypes'
    BY <1>0, <1>2 DEF Finish, ProcTypes, WorldTypes, world, GoTo, Pcs
  <2>. QED
    BY <2>3, <2>4, <2>5 DEF H3TypeOK, TableTypes, FleetTypes, WorldTypes, ProcTypes
<1>3. CASE ~Finish(p)
  <2> USE <1>0, <1>1, <1>3 DEF EndStep, Release, Return, ReleaseFails, NextAttempt, NoMoreAttempts,
          GiveUp, Fail, GoTo, Forget
  <2>1. UNCHANGED <<attempt, current, result, rows, health, holder, queue, world>>
    BY DEF table, fleet
  <2>2. status' \in [Jobs -> Statuses]
    BY DEF table, TableTypes, SetStatus, Statuses, Terminal
  <2>3. lease' \in [Workers -> Procs \cup {NoProc}] /\ faults' \in 0..MaxFaults
    BY DEF FleetTypes, FreeLease, WorldTypes
  <2>4. pc' \in [Procs -> Pcs]
    BY DEF ProcTypes, Pcs, Attempting
  <2>5. job' \in [Procs -> Jobs \cup {NoJob}] /\ worker' \in [Procs -> Workers \cup {NoWorker}]
    BY DEF ProcTypes
  <2>6. number' \in [Procs -> 0..MaxAttempts]
    BY DEF ProcTypes
  <2>7. found' \in [Procs -> SUBSET Workers] /\ again' \in SUBSET Procs
    BY DEF ProcTypes
  <2>. QED
    BY <2>1, <2>2, <2>3, <2>4, <2>5, <2>6, <2>7
       DEF H3TypeOK, TableTypes, FleetTypes, WorldTypes, ProcTypes, world
<1>. QED
  BY <1>2, <1>3

LEMMA WorldTypesStep ==
  ASSUME AttemptInv, WorldStep \/ \E p \in Procs : \E j \in Jobs : Receive(p, j)
  PROVE  H3TypeOK'
<1>0. TableTypes /\ FleetTypes /\ WorldTypes /\ ProcTypes
  BY TypesByPart DEF AttemptInv
<1>1. CASE \E w \in Workers : Probe(w) \/ Expire(w)
  <2> PICK w \in Workers : Probe(w) \/ Expire(w)
    BY <1>1
  <2>1. UNCHANGED <<table, holder, queue, world, local, faults>>
    BY DEF Probe, Expire, fleet
  <2>2. FleetTypes'
    BY <1>0 DEF Probe, Expire, fleet, FleetTypes
  <2>3. TableTypes' /\ WorldTypes' /\ ProcTypes'
    BY <1>0, <2>1 DEF TableTypes, WorldTypes, ProcTypes, table, world, local
  <2>. QED
    BY <2>2, <2>3 DEF H3TypeOK, TableTypes, FleetTypes, WorldTypes, ProcTypes
<1>2. CASE \E j \in Jobs : Discard(j)
  BY <1>0, <1>2 DEF Discard, H3TypeOK, TableTypes, FleetTypes, WorldTypes, ProcTypes, table,
                    fleet, world, local
<1>3. CASE \E p \in Procs : Lose(p) \/ DeliverTwice(p)
  <2> PICK p \in Procs : Lose(p) \/ DeliverTwice(p)
    BY <1>3
  <2>1. job[p] \in Jobs
    BY DEF AttemptInv, Equipped, Lose, DeliverTwice
  <2>2. TableTypes' /\ FleetTypes'
    BY <1>0 DEF Lose, DeliverTwice, table, fleet, TableTypes, FleetTypes
  <2>3. WorldTypes'
    BY <1>0, <2>1 DEF Lose, DeliverTwice, world, WorldTypes
  <2>4. ProcTypes'
    BY <1>0 DEF Lose, DeliverTwice, local, ProcTypes, Forget, GoTo, Pcs
  <2>. QED
    BY <2>2, <2>3, <2>4 DEF H3TypeOK, TableTypes, FleetTypes, WorldTypes, ProcTypes
<1>4. CASE \E p \in Procs : \E j \in Jobs : Receive(p, j)
  <2> PICK p \in Procs, j \in Jobs : Receive(p, j)
    BY <1>4
  <2>1. TableTypes' /\ FleetTypes'
    BY <1>0 DEF Receive, table, fleet, TableTypes, FleetTypes
  <2>2. queue' \in [Jobs -> Nat]
    BY <1>0 DEF Receive, WorldTypes
  <2>3. WorldTypes'
    BY <1>0, <2>2 DEF Receive, world, WorldTypes
  <2>4. ProcTypes'
    BY <1>0 DEF Receive, ProcTypes, GoTo, Pcs
  <2>. QED
    BY <2>1, <2>3, <2>4 DEF H3TypeOK, TableTypes, FleetTypes, WorldTypes, ProcTypes
<1>. QED
  BY <1>1, <1>2, <1>3, <1>4 DEF WorldStep

LEMMA TypeStep == AttemptInv /\ [H3Next]_vars => H3TypeOK'
<1> SUFFICES ASSUME AttemptInv, [H3Next]_vars PROVE H3TypeOK'
  OBVIOUS
<1>1. CASE \E p \in Procs : TaskStep(p)
  BY <1>1, PrepTypes, AttemptTypes, EndTypes DEF TaskStep, PrepStep, AttemptStep, EndStep
<1>2. CASE \E j \in Jobs : ClientStep(j)
  BY <1>2, ClientTypes DEF AttemptInv
<1>3. CASE UNCHANGED vars
  BY <1>3 DEF vars, table, fleet, world, local, AttemptInv, H3TypeOK
<1>. QED
  BY <1>1, <1>2, <1>3, WorldTypesStep DEF H3Next

-----------------------------------------------------------------------------

\* Where q stands.
Stands(q) == <<pc[q], job[q], number[q], worker[q], found[q]>>

\* A step that leaves the attempts alone and moves no other process.
LEMMA QuietKeeps ==
  ASSUME AttemptInv, H3TypeOK', NEW p \in Procs, UNCHANGED <<attempt, current, rows, holder>>,
         \A q \in Procs : q # p => UNCHANGED Stands(q),
         Equipped(p)', InStep(p)'
  PROVE  AttemptInv'
<1>1. \A q \in Procs : Equipped(q)' /\ InStep(q)'
  <2> SUFFICES ASSUME NEW q \in Procs, q # p PROVE Equipped(q)' /\ InStep(q)'
    OBVIOUS
  <2>1. UNCHANGED Stands(q) /\ Equipped(q) /\ InStep(q)
    BY DEF AttemptInv
  <2>. QED
    BY <2>1 DEF Stands, Equipped, InStep, Chosen, OwnRow
<1>2. \A j \in Jobs : Numbered(j)'
  BY DEF AttemptInv, Numbered
<1>3. HolderHasAttempt'
  BY DEF AttemptInv, HolderHasAttempt
<1>. QED
  BY <1>1, <1>2, <1>3 DEF AttemptInv

LEMMA StillKeeps ==
  ASSUME AttemptInv, H3TypeOK',
         UNCHANGED <<attempt, current, rows, holder, pc, job, number, worker, found>>
  PROVE  AttemptInv'
  BY DEF AttemptInv, Equipped, InStep, Chosen, OwnRow, Numbered, HolderHasAttempt

\* A process that forgets its job is in step with everything.
LEMMA ForgetKeeps ==
  ASSUME AttemptInv, H3TypeOK', NEW p \in Procs, Forget(p),
         UNCHANGED <<attempt, current, rows, holder>>
  PROVE  AttemptInv'
<1>1. pc'[p] = "idle" /\ \A q \in Procs : q # p => UNCHANGED Stands(q)
  BY DEF Forget, GoTo, Stands, AttemptInv, H3TypeOK
<1>2. Equipped(p)' /\ InStep(p)'
  BY <1>1 DEF Equipped, InStep, Before, AtWork, Ended, Attempting, Deciding, Chosen
<1>. QED
  BY <1>1, <1>2, QuietKeeps

\* A job that is next in the queue is on no worker.
LEMMA PrepKeeps ==
  ASSUME AttemptInv, NEW p \in Procs, PrepStep(p)
  PROVE  AttemptInv'
<1>1. H3TypeOK' /\ H3TypeOK /\ Equipped(p) /\ InStep(p)
  BY PrepTypes DEF AttemptInv
<1>2. CASE Resend(p)
  BY <1>1, <1>2, ForgetKeeps DEF Resend, table, fleet
<1>3. CASE ~Resend(p)
  <2> USE <1>1, <1>3 DEF PrepStep, CheckCancel, Fetch, Prepare, PrepareFails, Pick, Scan, TakeLease,
          NoLease, TooLate, Requeue, GoTo
  <2>1. UNCHANGED <<attempt, current, rows, holder, job>>
    BY DEF table, fleet
  <2>2. \A q \in Procs : q # p => UNCHANGED Stands(q)
    BY DEF Stands, H3TypeOK
  <2>3. job[p] \in Jobs
    BY DEF Equipped
  <2>4. CASE Prepare(p)
    <3>1. attempt[job[p]] \in 0..MaxAttempts
      BY <2>3 DEF H3TypeOK
    <3>2. \/ pc'[p] = "loop" /\ number'[p] = attempt[job[p]] + 1 /\ number'[p] \in Numbers
          \/ pc'[p] = "fail"
      BY <2>4, <3>1, NextInRange DEF H3TypeOK
    <3>3. Equipped(p)' /\ InStep(p)'
      BY <2>1, <2>3, <3>1, <3>2
         DEF Equipped, InStep, Before, AtWork, Ended, Attempting, Deciding, Chosen
    <3>. QED
      BY <2>1, <2>2, <3>3, QuietKeeps
  <2>5. CASE Pick(p)
    <3>1. IsNext(job[p]) => current[job[p]] = NoWorker
      BY DEF IsNext, Pending
    <3>. QED
      BY <2>1, <2>2, <2>3, <2>5, <3>1, QuietKeeps
         DEF Equipped, InStep, Before, AtWork, Ended, Attempting, Deciding, Chosen, H3TypeOK
  <2>6. CASE Scan(p) \/ TakeLease(p)
    BY <2>1, <2>2, <2>3, <2>6, QuietKeeps
       DEF Equipped, InStep, Before, AtWork, Ended, Attempting, Deciding, Chosen, H3TypeOK
  <2>7. CASE CheckCancel(p) \/ Fetch(p) \/ PrepareFails(p) \/ NoLease(p) \/ TooLate(p) \/ Requeue(p)
    BY <2>1, <2>2, <2>3, <2>7, QuietKeeps
       DEF Equipped, InStep, Before, AtWork, Ended, Attempting, Deciding, Chosen, H3TypeOK
  <2>. QED
    BY <2>4, <2>5, <2>6, <2>7
<1>. QED
  BY <1>2, <1>3

\* Two processes are never at work for one job.
LEMMA OneAtWork ==
  ASSUME AttemptInv, NEW p \in Procs, NEW q \in Procs, pc[p] \in AtWork, pc[q] \in AtWork,
         job[p] = job[q]
  PROVE  p = q
  BY DEF AttemptInv, InStep, OwnRow

\* The process that begins an attempt has the next number, and nobody is at work.
LEMMA BeginIsNext ==
  ASSUME AttemptInv, NEW p \in Procs, Begin(p)
  PROVE  /\ job[p] \in Jobs /\ worker[p] \in Workers /\ number[p] \in Numbers
         /\ number[p] = attempt[job[p]] + 1
         /\ current[job[p]] = NoWorker
<1>1. job[p] \in Jobs /\ worker[p] \in Workers /\ number[p] \in Numbers
  BY DEF AttemptInv, Begin, Equipped, Before
<1>2. number[p] > attempt[job[p]] /\ number[p] <= attempt[job[p]] + 1
  BY <1>1 DEF AttemptInv, Begin, Numbered, InStep, Before
<1>4. attempt[job[p]] \in 0..MaxAttempts
  BY <1>1 DEF AttemptInv, H3TypeOK
<1>3. number[p] = attempt[job[p]] + 1
  BY <1>1, <1>2, <1>4 DEF Numbers
<1>. QED
  BY <1>1, <1>3 DEF AttemptInv, Begin, InStep, Chosen

\* A step that rewrites one attempt of j: what has to be shown of j alone.
LEMMA RewriteKeeps ==
  ASSUME AttemptInv, H3TypeOK', NEW p \in Procs, NEW j \in Jobs, job[p] = j,
         \A q \in Procs : q # p => UNCHANGED Stands(q),
         \A i \in Jobs : i # j =>
             attempt'[i] = attempt[i] /\ current'[i] = current[i] /\ rows'[i] = rows[i],
         Equipped(p)', InStep(p)',
         \A q \in Procs : q # p /\ pc[q] # "idle" /\ job[q] = j => InStep(q)',
         Numbered(j)', HolderHasAttempt'
  PROVE  AttemptInv'
<1>1. \A q \in Procs : Equipped(q)' /\ InStep(q)'
  <2> SUFFICES ASSUME NEW q \in Procs, q # p PROVE Equipped(q)' /\ InStep(q)'
    OBVIOUS
  <2>1. UNCHANGED Stands(q) /\ Equipped(q) /\ InStep(q)
    BY DEF AttemptInv
  <2>2. Equipped(q)'
    BY <2>1 DEF Stands, Equipped
  <2>3. CASE pc[q] = "idle"
    <3>1. pc'[q] = "idle"
      BY <2>1, <2>3 DEF Stands
    <3>. QED
      BY <2>2, <3>1 DEF InStep, Before, AtWork, Ended, Attempting, Deciding, Chosen
  <2>4. CASE pc[q] # "idle" /\ job[q] # j
    <3>1. job[q] \in Jobs
      BY <2>1, <2>4 DEF Equipped
    <3>2. /\ attempt'[job[q]] = attempt[job[q]] /\ current'[job[q]] = current[job[q]]
          /\ rows'[job[q]] = rows[job[q]]
      BY <2>4, <3>1
    <3>3. pc'[q] = pc[q] /\ job'[q] = job[q] /\ number'[q] = number[q] /\ found'[q] = found[q]
      BY <2>1 DEF Stands
    <3>4. InStep(q)'
      BY <2>1, <3>2, <3>3 DEF InStep, Chosen, OwnRow
    <3>. QED
      BY <2>2, <3>4
  <2>. QED
    BY <2>2, <2>3, <2>4
<1>2. ASSUME NEW i \in Jobs, i # j PROVE Numbered(i)'
  BY <1>2 DEF AttemptInv, Numbered
<1>. QED
  BY <1>1, <1>2 DEF AttemptInv

LEMMA BeginKeeps ==
  ASSUME AttemptInv, NEW p \in Procs, Begin(p),
         NEW j \in Jobs, NEW n \in Numbers, NEW w \in Workers,
         j = job[p], n = number[p], w = worker[p]
  PROVE  AttemptInv'
<1>1. H3TypeOK' /\ H3TypeOK
  BY AttemptTypes DEF AttemptStep, AttemptInv
<1>2. n = attempt[j] + 1 /\ current[j] = NoWorker
  BY BeginIsNext
<1>3. /\ rows' = [rows EXCEPT ![j][n] = [state |-> "running", worker |-> w, by |-> p]]
      /\ attempt' = [attempt EXCEPT ![j] = n]
      /\ current' = [current EXCEPT ![j] = w]
      /\ holder' = [holder EXCEPT ![w] = j]
      /\ pc' = [pc EXCEPT ![p] = "work"]
      /\ UNCHANGED <<job, number, worker, found>>
  BY DEF Begin, GoTo
<1>4. \A q \in Procs : q # p => UNCHANGED Stands(q)
  BY <1>1, <1>3 DEF Stands, H3TypeOK
<1>5. /\ attempt'[j] = n /\ current'[j] = w /\ w # NoWorker
      /\ rows'[j][n] = [state |-> "running", worker |-> w, by |-> p]
      /\ \A m \in Numbers : m # n => rows'[j][m] = rows[j][m]
      /\ \A i \in Jobs : i # j =>
             attempt'[i] = attempt[i] /\ current'[i] = current[i] /\ rows'[i] = rows[i]
  BY <1>1, <1>2, <1>3 DEF H3TypeOK
<1>6. Numbered(j)'
  <2>1. \A m \in Numbers : rows[j][m].state # "running"
    BY <1>2 DEF AttemptInv, Numbered
  <2>2. \A m \in Numbers : m # n => (m > attempt[j] <=> m > n)
    BY <1>1, <1>2 DEF H3TypeOK, Numbers
  <2>3. \A m \in Numbers : rows[j][m].state = "none" <=> m > attempt[j]
    BY <1>2 DEF AttemptInv, Numbered
  <2>4. ~(n > n)
    BY <1>2 DEF Numbers
  <2>5. ASSUME NEW m \in Numbers
        PROVE  /\ rows'[j][m].state = "none" <=> m > attempt'[j]
               /\ rows'[j][m].state = "running" =>
                      m = attempt'[j] /\ rows'[j][m].worker = current'[j] /\ current'[j] # NoWorker
    <3>1. CASE m = n
      BY <1>5, <2>4, <3>1
    <3>2. CASE m # n
      BY <1>5, <2>1, <2>2, <2>3, <3>2
    <3>. QED
      BY <3>1, <3>2
  <2>. QED
    BY <2>5 DEF Numbered
<1>7. HolderHasAttempt'
  <2> SUFFICES ASSUME NEW v \in Workers, holder'[v] # NoJob
               PROVE  /\ current'[holder'[v]] = v
                      /\ attempt'[holder'[v]] \in Numbers
                      /\ rows'[holder'[v]][attempt'[holder'[v]]].state = "running"
                      /\ rows'[holder'[v]][attempt'[holder'[v]]].worker = v
    BY DEF HolderHasAttempt
  <2>1. CASE v = w
    BY <1>1, <1>2, <1>3, <1>5, <2>1 DEF H3TypeOK
  <2>2. CASE v # w
    <3>1. holder'[v] = holder[v] /\ holder[v] \in Jobs
      BY <1>1, <1>3, <2>2 DEF H3TypeOK
    <3>2. /\ current[holder[v]] = v
          /\ attempt[holder[v]] \in Numbers
          /\ rows[holder[v]][attempt[holder[v]]].state = "running"
          /\ rows[holder[v]][attempt[holder[v]]].worker = v
      BY <3>1 DEF AttemptInv, HolderHasAttempt
    <3>3. holder[v] # j
      BY <1>2, <3>2
    <3>. QED
      BY <1>5, <3>1, <3>2, <3>3
  <2>. QED
    BY <2>1, <2>2
<1>8. job'[p] = j /\ number'[p] = n /\ worker'[p] = w /\ pc'[p] = "work"
  BY <1>1, <1>3 DEF H3TypeOK
<1>9. Equipped(p)' /\ InStep(p)'
  BY <1>2, <1>5, <1>8 DEF Equipped, InStep, OwnRow, Before, AtWork, Ended, Attempting, Deciding, Chosen
<1>10. ASSUME NEW q \in Procs, q # p, pc[q] # "idle", job[q] = j PROVE InStep(q)'
  <2>1. UNCHANGED Stands(q) /\ InStep(q) /\ Equipped(q)
    BY <1>4, <1>10 DEF AttemptInv
  <2>2. pc[q] \notin AtWork
    BY <1>2, <1>10, <2>1 DEF InStep, OwnRow
  <2>7. Chosen(q) => pc[q] \in Before
    BY DEF Chosen, Before, Deciding
  <2>5. pc[q] \in Before \cup Ended => number[q] \in Numbers
    BY <2>1 DEF Equipped
  <2>3. /\ pc[q] \in Before => number[q] <= attempt[j] + 1
        /\ pc[q] \in Ended => number[q] <= attempt[j]
    BY <1>10, <2>1 DEF InStep
  <2>4. attempt[j] \in 0..MaxAttempts
    BY <1>1 DEF H3TypeOK
  <2>8. /\ pc[q] \in Before => number[q] <= n + 1 /\ number[q] # n + 1
        /\ pc[q] \in Ended => number[q] <= n
    BY <1>2, <2>3, <2>4, <2>5 DEF Numbers
  <2>6. pc'[q] = pc[q] /\ job'[q] = j /\ number'[q] = number[q] /\ found'[q] = found[q]
    BY <1>10, <2>1 DEF Stands
  <2>9. pc[q] \notin {"work", "render", "stop"}
    BY <2>2 DEF AtWork, Attempting
  <2>. QED
    BY <1>5, <2>2, <2>6, <2>7, <2>8, <2>9 DEF InStep, Chosen
<1>. QED
  BY <1>1, <1>4, <1>5, <1>6, <1>7, <1>9, <1>10, RewriteKeeps

\* Closing the attempt a process is at work with: no row of the job runs any more, no
\* worker is held by it, and the processes that wait for its next attempt may go on.
LEMMA CloseKeeps ==
  ASSUME AttemptInv, H3TypeOK', NEW p \in Procs, NEW j \in Jobs, NEW n \in Numbers,
         NEW s \in Terminal, j = job[p], n = number[p], pc[p] \in AtWork,
         rows' = [rows EXCEPT ![j][n].state = s], attempt' = attempt,
         current' = current \/ current' = [current EXCEPT ![j] = NoWorker],
         \/ holder' = [holder EXCEPT ![rows[j][n].worker] = NoJob]
         \/ holder' = holder /\ holder[rows[j][n].worker] # j,
         \A q \in Procs : q # p => UNCHANGED Stands(q),
         Equipped(p)', InStep(p)'
  PROVE  AttemptInv'
<1>1. H3TypeOK /\ OwnRow(p)
  BY DEF AttemptInv, InStep
<1>2. n = attempt[j]
  BY <1>1 DEF OwnRow
<1>3. /\ attempt'[j] = attempt[j]
      /\ current'[j] \in {current[j], NoWorker}
      /\ rows'[j][n].state = s
      /\ \A m \in Numbers : m # n => rows'[j][m] = rows[j][m]
      /\ \A i \in Jobs : i # j =>
             attempt'[i] = attempt[i] /\ current'[i] = current[i] /\ rows'[i] = rows[i]
  <2>1. rows[j] \in [Numbers -> Row] /\ rows[j][n] \in Row
    BY <1>1 DEF H3TypeOK
  <2>. QED
    BY <1>1, <2>1 DEF H3TypeOK, Row
<1>4. s \notin {"none", "running"}
  BY DEF Terminal
<1>5. Numbered(j)'
  <2>1. ASSUME NEW m \in Numbers
        PROVE  /\ rows[j][m].state = "none" <=> m > attempt[j]
               /\ rows[j][m].state = "running" => m = n
    BY <1>2 DEF AttemptInv, Numbered
  <2>2. ~(n > attempt[j])
    BY <1>2 DEF Numbers
  <2>3. ASSUME NEW m \in Numbers
        PROVE  /\ rows'[j][m].state = "none" <=> m > attempt'[j]
               /\ rows'[j][m].state # "running"
    <3>1. CASE m = n
      BY <1>3, <1>4, <2>2, <3>1
    <3>2. CASE m # n
      BY <1>3, <2>1, <3>2
    <3>. QED
      BY <3>1, <3>2
  <2>. QED
    BY <2>3 DEF Numbered
<1>6. HolderHasAttempt'
  <2> SUFFICES ASSUME NEW v \in Workers, holder'[v] # NoJob
               PROVE  /\ current'[holder'[v]] = v
                      /\ attempt'[holder'[v]] \in Numbers
                      /\ rows'[holder'[v]][attempt'[holder'[v]]].state = "running"
                      /\ rows'[holder'[v]][attempt'[holder'[v]]].worker = v
    BY DEF HolderHasAttempt
  <2>1. holder'[v] = holder[v] /\ holder[v] \in Jobs
    BY <1>1 DEF H3TypeOK
  <2>2. /\ current[holder[v]] = v
        /\ attempt[holder[v]] \in Numbers
        /\ rows[holder[v]][attempt[holder[v]]].state = "running"
        /\ rows[holder[v]][attempt[holder[v]]].worker = v
    BY <2>1 DEF AttemptInv, HolderHasAttempt
  <2>3. holder[v] # j
    <3> SUFFICES ASSUME holder[v] = j PROVE FALSE
      OBVIOUS
    <3>1. rows[j][n].worker = v
      BY <1>2, <2>2
    <3>2. holder'[v] = NoJob
      BY <1>1, <3>1 DEF H3TypeOK
    <3>. QED
      BY <3>2
  <2>. QED
    BY <1>3, <2>1, <2>2, <2>3
<1>7. ASSUME NEW q \in Procs, q # p, pc[q] # "idle", job[q] = j PROVE InStep(q)'
  <2>1. UNCHANGED Stands(q) /\ InStep(q)
    BY <1>7 DEF AttemptInv
  <2>2. pc[q] \notin AtWork
    BY <1>7, OneAtWork
  <2>3. pc[q] \notin {"work", "render", "stop"}
    BY <2>2 DEF AtWork, Attempting
  <2>4. pc'[q] = pc[q] /\ job'[q] = j /\ number'[q] = number[q] /\ found'[q] = found[q]
    BY <1>7, <2>1 DEF Stands
  <2>. QED
    BY <1>3, <1>7, <2>1, <2>2, <2>3, <2>4 DEF InStep, Chosen
<1>. QED
  BY <1>3, <1>5, <1>6, <1>7, RewriteKeeps

LEMMA CompleteKeeps ==
  ASSUME AttemptInv, NEW p \in Procs, Complete(p)
  PROVE  AttemptInv'
<1>1. H3TypeOK' /\ H3TypeOK /\ InStep(p) /\ Equipped(p)
  BY AttemptTypes DEF AttemptStep, AttemptInv
<1>2. pc[p] = "render" /\ pc[p] \in AtWork
  BY DEF Complete, AtWork, Attempting
<1>3. PICK j \in Jobs, n \in Numbers : j = job[p] /\ n = number[p]
  BY <1>1, <1>2 DEF Equipped
<1>4. /\ rows' = [rows EXCEPT ![j][n].state = "succeeded"]
      /\ UNCHANGED <<attempt, current, job, number, worker, found>>
      /\ pc' = [pc EXCEPT ![p] = "free_done"]
  BY <1>3 DEF Complete, GoTo
<1>5. \/ holder' = [holder EXCEPT ![rows[j][n].worker] = NoJob]
      \/ holder' = holder /\ holder[rows[j][n].worker] # j
  BY <1>3 DEF Complete, FreeWorker, fleet
<1>6. \A q \in Procs : q # p => UNCHANGED Stands(q)
  BY <1>1, <1>4 DEF Stands, H3TypeOK
<1>7. pc'[p] = "free_done"
  BY <1>1, <1>4 DEF H3TypeOK
<1>8. /\ rows'[j][n].by = p /\ rows'[j][n].state = "succeeded"
  <2>1. rows[j] \in [Numbers -> Row] /\ rows[j][n] \in Row /\ rows[j][n].by = p
    BY <1>1, <1>2, <1>3 DEF H3TypeOK, InStep, OwnRow
  <2>. QED
    BY <1>1, <1>4, <2>1 DEF H3TypeOK, Row
<1>9. OwnRow(p)'
  BY <1>1, <1>2, <1>3, <1>4, <1>8 DEF InStep, OwnRow
<1>10. InStep(p)'
  BY <1>7, <1>9 DEF InStep, Chosen, Before, Deciding, Ended
<1>11. Equipped(p)'
  BY <1>1, <1>2, <1>4, <1>7 DEF Equipped
<1>. QED
  BY <1>1, <1>2, <1>3, <1>4, <1>5, <1>6, <1>10, <1>11, CloseKeeps DEF Terminal

LEMMA FinishKeeps ==
  ASSUME AttemptInv, NEW p \in Procs, Finish(p)
  PROVE  AttemptInv'
<1>1. H3TypeOK' /\ H3TypeOK /\ InStep(p) /\ Equipped(p)
  BY EndTypes DEF EndStep, AttemptInv
<1>2. pc[p] \in AtWork
  BY DEF Finish, AtWork, Attempting
<1>3. PICK j \in Jobs, n \in Numbers : j = job[p] /\ n = number[p]
  BY <1>1, <1>2 DEF Equipped, AtWork, Attempting
<1>4. PICK s \in Terminal : rows' = [rows EXCEPT ![j][n].state = s]
  BY <1>3 DEF Finish, Terminal
<1>5. /\ UNCHANGED <<attempt, job, number, worker, found>>
      /\ current' = current \/ current' = [current EXCEPT ![j] = NoWorker]
      /\ pc' = [pc EXCEPT ![p] = "free_stopped"] \/ pc' = [pc EXCEPT ![p] = "free_broken"]
  BY <1>1, <1>3 DEF Finish, GoTo, H3TypeOK
<1>6. \/ holder' = [holder EXCEPT ![rows[j][n].worker] = NoJob]
      \/ holder' = holder /\ holder[rows[j][n].worker] # j
  BY <1>3 DEF Finish, FreeWorker, fleet
<1>7. \A q \in Procs : q # p => UNCHANGED Stands(q)
  BY <1>1, <1>5 DEF Stands, H3TypeOK
<1>8. pc'[p] \in {"free_stopped", "free_broken"}
  BY <1>1, <1>5 DEF H3TypeOK
<1>9. number[p] = attempt[job[p]]
  BY <1>1, <1>2 DEF InStep, OwnRow
<1>10. n <= n
  BY DEF Numbers
<1>11. InStep(p)'
  BY <1>3, <1>5, <1>8, <1>9, <1>10
     DEF InStep, Chosen, Before, Deciding, Ended, AtWork, Attempting
<1>12. Equipped(p)'
  BY <1>1, <1>2, <1>5, <1>8 DEF Equipped, AtWork, Attempting
<1>. QED
  BY <1>1, <1>2, <1>3, <1>4, <1>5, <1>6, <1>7, <1>11, <1>12, CloseKeeps

LEMMA AttemptKeeps ==
  ASSUME AttemptInv, NEW p \in Procs, AttemptStep(p)
  PROVE  AttemptInv'
<1>1. H3TypeOK' /\ H3TypeOK /\ InStep(p) /\ Equipped(p)
  BY AttemptTypes DEF AttemptInv
<1>2. CASE Begin(p)
  <2>1. job[p] \in Jobs /\ worker[p] \in Workers /\ number[p] \in Numbers
    BY <1>2, BeginIsNext
  <2>. QED
    BY <1>2, <2>1, BeginKeeps
<1>3. CASE Complete(p)
  BY <1>3, CompleteKeeps
<1>4. CASE ~Begin(p) /\ ~Complete(p)
  <2> USE <1>4 DEF AttemptStep, NumberTaken, WorkSeesCancel, WorkLosesLease, WorkFails,
          WorkIncompatible, WorkDone, RenderFails, NotPublished, GoTo
  <2>1. UNCHANGED <<attempt, current, rows, holder, job, number, worker, found>>
    BY DEF table, fleet
  <2>2. \A q \in Procs : q # p => UNCHANGED Stands(q)
    BY <1>1 DEF Stands, H3TypeOK
  <2>3. CASE NumberTaken(p)
    <3>1. pc'[p] = "fail" /\ pc[p] # "idle"
      BY <1>1, <2>3 DEF H3TypeOK
    <3>2. Equipped(p)' /\ InStep(p)'
      BY <1>1, <2>1, <3>1
         DEF Equipped, InStep, Before, AtWork, Ended, Attempting, Deciding, Chosen
    <3>. QED
      BY <1>1, <2>1, <2>2, <3>2, QuietKeeps
  <2>4. CASE ~NumberTaken(p)
    <3>1. /\ pc[p] \in {"work", "render"} /\ pc'[p] \in AtWork
          /\ pc'[p] \in {"work", "render", "stop"} => pc[p] = "work"
      BY <1>1, <2>4 DEF AtWork, Attempting, H3TypeOK
    <3>2. Equipped(p)'
      BY <1>1, <2>1, <3>1 DEF Equipped, AtWork, Attempting
    <3>3. OwnRow(p)'
      BY <1>1, <2>1, <3>1 DEF InStep, OwnRow, AtWork, Attempting
    <3>4. InStep(p)'
      BY <1>1, <2>1, <3>1, <3>3 DEF InStep, Before, AtWork, Ended, Attempting, Deciding, Chosen
    <3>. QED
      BY <1>1, <2>1, <2>2, <3>2, <3>4, QuietKeeps
  <2>. QED
    BY <2>3, <2>4
<1>. QED
  BY <1>2, <1>3, <1>4

LEMMA EndKeeps ==
  ASSUME AttemptInv, NEW p \in Procs, EndStep(p)
  PROVE  AttemptInv'
<1>1. H3TypeOK' /\ H3TypeOK /\ InStep(p) /\ Equipped(p)
  BY EndTypes DEF AttemptInv
<1>2. CASE Finish(p)
  BY <1>2, FinishKeeps
<1>3. CASE Return(p) \/ GiveUp(p) \/ Fail(p)
  BY <1>1, <1>3, ForgetKeeps DEF Return, GiveUp, Fail, table, fleet
<1>4. CASE NextAttempt(p)
  <2>1. UNCHANGED <<attempt, current, rows, holder, job, worker, found>>
    BY <1>4 DEF NextAttempt, fleet
  <2>2. \A q \in Procs : q # p => UNCHANGED Stands(q)
    BY <1>1, <1>4 DEF NextAttempt, GoTo, Stands, H3TypeOK
  <2>3. job[p] \in Jobs /\ number[p] \in Numbers /\ number[p] < MaxAttempts
    BY <1>1, <1>4 DEF NextAttempt, Equipped, Ended
  <2>4. number[p] <= attempt[job[p]] /\ attempt[job[p]] \in 0..MaxAttempts
    BY <1>1, <1>4, <2>3 DEF NextAttempt, InStep, Ended, H3TypeOK
  <2>5. number[p] + 1 \in Numbers /\ number[p] + 1 <= attempt[job[p]] + 1
    BY <2>3, <2>4 DEF Numbers
  <2>6. pc'[p] = "loop" /\ number'[p] = number[p] + 1
    BY <1>1, <1>4 DEF NextAttempt, GoTo, H3TypeOK
  <2>7. Equipped(p)' /\ InStep(p)'
    BY <2>1, <2>3, <2>5, <2>6
       DEF Equipped, InStep, Before, AtWork, Ended, Attempting, Deciding, Chosen
  <2>. QED
    BY <1>1, <2>1, <2>2, <2>7, QuietKeeps
<1>5. CASE NoMoreAttempts(p) \/ Release(p)
  <2>1. UNCHANGED <<attempt, current, rows, holder, job, number, worker, found>>
    BY <1>5 DEF NoMoreAttempts, Release, table, fleet
  <2>2. \A q \in Procs : q # p => UNCHANGED Stands(q)
    BY <1>1, <1>5 DEF NoMoreAttempts, Release, GoTo, Stands, H3TypeOK
  <2>3. pc[p] \in Ended /\ pc'[p] \in {"give_up", "again", "fail"}
    BY <1>1, <1>5 DEF NoMoreAttempts, Release, GoTo, H3TypeOK, Ended
  <2>4. Equipped(p)'
    BY <1>1, <2>1, <2>3 DEF Equipped, Before, AtWork, Ended, Attempting, Deciding
  <2>5. InStep(p)'
    BY <1>1, <2>1, <2>3 DEF InStep, Before, AtWork, Ended, Attempting, Deciding, Chosen
  <2>. QED
    BY <1>1, <2>1, <2>2, <2>4, <2>5, QuietKeeps
<1>6. CASE ReleaseFails(p)
  <2>1. UNCHANGED <<attempt, current, rows, holder, job, number, worker, found>>
    BY <1>6 DEF ReleaseFails, table, fleet
  <2>2. \A q \in Procs : q # p => UNCHANGED Stands(q)
    BY <1>1, <1>6 DEF ReleaseFails, GoTo, Stands, H3TypeOK
  <2>3. \/ pc[p] = "free_done" /\ pc'[p] = "break"
        \/ pc[p] \in Ended /\ pc'[p] = "fail"
    BY <1>1, <1>6 DEF ReleaseFails, GoTo, H3TypeOK, Ended
  <2>4. Equipped(p)'
    BY <1>1, <2>1, <2>3 DEF Equipped, Before, AtWork, Ended, Attempting, Deciding
  <2>5. pc[p] = "free_done" => OwnRow(p)'
    BY <1>1, <2>1 DEF InStep, OwnRow, AtWork
  <2>6. InStep(p)'
    BY <2>3, <2>5 DEF InStep, Before, AtWork, Ended, Attempting, Deciding, Chosen
  <2>. QED
    BY <1>1, <2>1, <2>2, <2>4, <2>6, QuietKeeps
<1>. QED
  BY <1>2, <1>3, <1>4, <1>5, <1>6 DEF EndStep

LEMMA WorldKeeps ==
  ASSUME AttemptInv, WorldStep \/ \E p \in Procs : \E j \in Jobs : Receive(p, j)
  PROVE  AttemptInv'
<1>1. H3TypeOK' /\ H3TypeOK
  BY WorldTypesStep DEF AttemptInv
<1>2. CASE \E w \in Workers : Probe(w) \/ Expire(w)
  BY <1>1, <1>2, StillKeeps DEF Probe, Expire, table, fleet, local
<1>3. CASE \E j \in Jobs : Discard(j)
  BY <1>1, <1>3, StillKeeps DEF Discard, table, fleet, local
<1>4. CASE \E p \in Procs : DeliverTwice(p)
  BY <1>1, <1>4, StillKeeps DEF DeliverTwice, table, fleet, local
<1>5. CASE \E p \in Procs : Lose(p)
  BY <1>1, <1>5, ForgetKeeps DEF Lose, table, fleet
<1>6. CASE \E p \in Procs : \E j \in Jobs : Receive(p, j)
  <2> PICK p \in Procs, j \in Jobs : Receive(p, j)
    BY <1>6
  <2>1. UNCHANGED <<attempt, current, rows, holder>>
    BY DEF Receive, table, fleet
  <2>2. \A q \in Procs : q # p => UNCHANGED Stands(q)
    BY <1>1 DEF Receive, GoTo, Stands, H3TypeOK
  <2>3. pc'[p] = "start" /\ job'[p] = j
    BY <1>1 DEF Receive, GoTo, H3TypeOK
  <2>4. Equipped(p)' /\ InStep(p)'
    BY <2>3 DEF Equipped, InStep, Before, AtWork, Ended, Attempting, Deciding, Chosen
  <2>. QED
    BY <1>1, <2>1, <2>2, <2>4, QuietKeeps
<1>. QED
  BY <1>2, <1>3, <1>4, <1>5, <1>6 DEF WorldStep

LEMMA ClientKeeps ==
  ASSUME AttemptInv, NEW j \in Jobs, ClientStep(j)
  PROVE  AttemptInv'
<1>1. H3TypeOK'
  BY ClientTypes DEF AttemptInv
<1>2. UNCHANGED <<attempt, current, rows, holder, pc, job, number, worker, found>>
  BY DEF ClientStep, CreateJob, EnqueueFails, SubmitDies, CancelRead, CancelMark, CancelLook,
         CancelDrop, CancelRevoke, Settle, table, fleet, local
<1>. QED
  BY <1>1, <1>2, StillKeeps

LEMMA AttemptInit == H3Init => AttemptInv
<1> SUFFICES ASSUME H3Init PROVE AttemptInv
  OBVIOUS
<1>1. \A p \in Procs : Equipped(p) /\ InStep(p)
  BY DEF H3Init, Equipped, InStep, Before, AtWork, Ended, Attempting, Deciding, Chosen
<1>2. \A j \in Jobs : Numbered(j)
  BY DEF H3Init, Numbered, Numbers, NoRow
<1>3. HolderHasAttempt
  BY DEF H3Init, HolderHasAttempt
<1>4. TableTypes
  BY DEF H3Init, TableTypes, Statuses, Row, NoRow, RowStates, Numbers
<1>5. FleetTypes /\ WorldTypes /\ ProcTypes
  BY DEF H3Init, FleetTypes, WorldTypes, ProcTypes, Pcs
<1>. QED
  BY <1>1, <1>2, <1>3, <1>4, <1>5, TypesByPart DEF AttemptInv

LEMMA AttemptStepKeeps == AttemptInv /\ [H3Next]_vars => AttemptInv'
<1> SUFFICES ASSUME AttemptInv, [H3Next]_vars PROVE AttemptInv'
  OBVIOUS
<1>1. CASE \E p \in Procs : TaskStep(p)
  BY <1>1, PrepKeeps, AttemptKeeps, EndKeeps DEF TaskStep, PrepStep, AttemptStep, EndStep
<1>2. CASE \E j \in Jobs : ClientStep(j)
  BY <1>2, ClientKeeps
<1>3. CASE UNCHANGED vars
  BY <1>3, StillKeeps, TypeStep DEF vars, table, fleet, world, local
<1>. QED
  BY <1>1, <1>2, <1>3, WorldKeeps DEF H3Next

\* The processes, the attempts and the workers agree, whatever is lost or delivered twice.
THEOREM AttemptInvariant == H3Spec => []AttemptInv
<1>. QED
  BY AttemptInit, AttemptStepKeeps, PTL DEF H3Spec

\* The rows, the leases and the processes have their types.
THEOREM H3Types == H3Spec => []H3TypeOK
<1>1. AttemptInv => H3TypeOK
  BY DEF AttemptInv
<1>. QED
  BY <1>1, AttemptInvariant, PTL

\* begin_attempt lets one process in per attempt, so at most one is at work for a job,
\* and its attempt is recorded as running or as published.
THEOREM OneAttempt == H3Spec => []OneAttemptAtWork
<1>1. AttemptInv => OneAttemptAtWork
  BY DEF AttemptInv, OneAttemptAtWork, InStep, OwnRow, AtWork
<1>. QED
  BY <1>1, AttemptInvariant, PTL

\* A busy worker has the running attempt of its job: ending the attempt frees it.
THEOREM HolderIsBusy == H3Spec => []HolderHasAttempt
<1>1. AttemptInv => HolderHasAttempt
  BY DEF AttemptInv
<1>. QED
  BY <1>1, AttemptInvariant, PTL

-----------------------------------------------------------------------------
(* Payment.                                                                *)

LEMMA FilmInit == H3Init => FilmInv
  BY DEF H3Init, FilmInv, HasFilm

LEMMA FilmKept ==
  ASSUME UNCHANGED result, FilmInv,
         \A j \in Jobs : status'[j] = "succeeded" => status[j] = "succeeded",
         \A j \in Jobs : charge'[j] = "spent" => charge[j] = "spent" \/ status[j] = "succeeded"
  PROVE  FilmInv'
  BY DEF FilmInv, HasFilm

\* Only the publication writes "succeeded", and it writes the film with it.
LEMMA FilmStep == AttemptInv /\ FilmInv /\ [H3Next]_vars => FilmInv'
<1> SUFFICES ASSUME AttemptInv, FilmInv, [H3Next]_vars PROVE FilmInv'
  OBVIOUS
<1>0. H3TypeOK
  BY DEF AttemptInv
<1>1. ASSUME NEW p \in Procs, PrepStep(p) PROVE FilmInv'
  <2>1. UNCHANGED <<result, charge>>
    BY <1>1 DEF PrepStep, CheckCancel, Fetch, Prepare, PrepareFails, Pick, Scan, TakeLease, NoLease,
           TooLate, Requeue, Resend, table, world
  <2>2. UNCHANGED status \/ SetStatus(job[p], "running") \/ SetStatus(job[p], "queued")
    BY <1>1 DEF PrepStep, CheckCancel, Fetch, Prepare, PrepareFails, Pick, Scan, TakeLease, NoLease,
           TooLate, Requeue, Resend, table
  <2>. QED
    BY <1>0, <2>1, <2>2, FilmKept DEF SetStatus, H3TypeOK
<1>2. ASSUME NEW p \in Procs, AttemptStep(p) PROVE FilmInv'
  <2>1. CASE Complete(p)
    <3>1. job[p] \in Jobs /\ number[p] \in Numbers
      BY <2>1 DEF AttemptInv, Complete, Equipped, AtWork, Attempting
    <3>2. number[p] # 0
      BY <3>1 DEF Numbers
    <3>3. /\ result' = [result EXCEPT ![job[p]] = number[p]]
          /\ status' = [status EXCEPT ![job[p]] = "succeeded"]
          /\ UNCHANGED charge
      BY <2>1 DEF Complete, SetStatus, world
    <3>. QED
      BY <1>0, <3>1, <3>2, <3>3 DEF FilmInv, HasFilm, H3TypeOK
  <2>2. CASE ~Complete(p)
    <3>1. UNCHANGED <<result, charge>>
      BY <1>2, <2>2 DEF AttemptStep, Begin, NumberTaken, WorkSeesCancel, WorkLosesLease, WorkFails,
             WorkIncompatible, WorkDone, RenderFails, NotPublished, table, world
    <3>2. UNCHANGED status \/ SetStatus(job[p], "running")
      BY <1>2, <2>2 DEF AttemptStep, Begin, NumberTaken, WorkSeesCancel, WorkLosesLease, WorkFails,
             WorkIncompatible, WorkDone, RenderFails, NotPublished, table
    <3>. QED
      BY <1>0, <3>1, <3>2, FilmKept DEF SetStatus, H3TypeOK
  <2>. QED
    BY <2>1, <2>2
<1>3. ASSUME NEW p \in Procs, EndStep(p) PROVE FilmInv'
  <2>1. UNCHANGED <<result, charge>>
    BY <1>3 DEF EndStep, Finish, Release, Return, ReleaseFails, NextAttempt, NoMoreAttempts, GiveUp,
           Fail, table, world
  <2>2. \/ UNCHANGED status
        \/ \E s \in {"queued", "cancelled", "failed"} : SetStatus(job[p], s)
    BY <1>3 DEF EndStep, Finish, Release, Return, ReleaseFails, NextAttempt, NoMoreAttempts, GiveUp,
           Fail, table
  <2>. QED
    BY <1>0, <2>1, <2>2, FilmKept DEF SetStatus, H3TypeOK
<1>4. ASSUME NEW j \in Jobs, ClientStep(j) PROVE FilmInv'
  <2>1. UNCHANGED result
    BY <1>4 DEF ClientStep, CreateJob, EnqueueFails, SubmitDies, CancelRead, CancelMark, CancelLook,
           CancelDrop, CancelRevoke, Settle, table
  <2>2. \/ UNCHANGED status
        \/ \E s \in {"queued", "cancelled", "failed", "cancel_requested"} : SetStatus(j, s)
    BY <1>4 DEF ClientStep, CreateJob, EnqueueFails, SubmitDies, CancelRead, CancelMark, CancelLook,
           CancelDrop, CancelRevoke, Settle, table
  <2>3. \A i \in Jobs : charge'[i] = "spent" => charge[i] = "spent" \/ status[i] = "succeeded"
    BY <1>0, <1>4 DEF ClientStep, CreateJob, EnqueueFails, SubmitDies, CancelRead, CancelMark,
           CancelLook, CancelDrop, CancelRevoke, Settle, world, H3TypeOK
  <2>. QED
    BY <1>0, <2>1, <2>2, <2>3, FilmKept DEF SetStatus, H3TypeOK
<1>5. CASE WorldStep \/ \E p \in Procs : \E j \in Jobs : Receive(p, j)
  <2>1. UNCHANGED <<table, charge>>
    BY <1>5 DEF WorldStep, Probe, Expire, Discard, Lose, DeliverTwice, Receive, world
  <2>. QED
    BY <2>1, FilmKept DEF table
<1>6. CASE UNCHANGED vars
  BY <1>6, FilmKept DEF vars, table, world
<1>. QED
  BY <1>1, <1>2, <1>3, <1>4, <1>5, <1>6 DEF H3Next, TaskStep, PrepStep, AttemptStep, EndStep

\* Nobody pays for a job without a film, through every cancel, retry and loss: only
\* complete_job_if_active writes "succeeded", and nothing takes its film away.
THEOREM PaidHasFilm == H3Spec => []SpentHasResult
<1>1. FilmInv => SpentHasResult
  BY DEF FilmInv, HasFilm, SpentHasResult
<1>. QED
  BY <1>1, AttemptInvariant, FilmInit, FilmStep, PTL DEF H3Spec

-----------------------------------------------------------------------------
(* Leases.                                                                 *)

LEMMA LeaseInit == H3Init => LeaseKept
  BY DEF H3Init, LeaseKept, Beating

\* A step that takes no lease away from one who beats, nor makes anyone beat without.
LEMMA LeaseStays ==
  ASSUME LeaseKept,
         \A q \in Procs : pc'[q] \in Beating =>
             pc[q] \in Beating /\ worker'[q] = worker[q] /\
             (lease[worker[q]] = q => lease'[worker[q]] = q)
  PROVE  LeaseKept'
  BY DEF LeaseKept

LEMMA LeaseStep ==
  ASSUME MayStall = FALSE, AttemptInv, LeaseKept, [H3Next]_vars
  PROVE  LeaseKept'
<1>0. H3TypeOK /\ \A q \in Procs : pc[q] \in Beating => worker[q] \in Workers
  BY DEF AttemptInv, Equipped, Beating, AtWork, Attempting
<1>1. ASSUME NEW p \in Procs, TakeLease(p) PROVE LeaseKept'
  <2>1. PICK w \in Workers : /\ lease[w] = NoProc
                             /\ lease' = [lease EXCEPT ![w] = p]
                             /\ worker' = [worker EXCEPT ![p] = w]
    BY <1>0, <1>1 DEF TakeLease, H3TypeOK
  <2>2. pc' = [pc EXCEPT ![p] = "begin"]
    BY <1>1 DEF TakeLease, GoTo
  <2>3. ASSUME NEW q \in Procs, pc'[q] \in Beating PROVE lease'[worker'[q]] = q
    <3>1. CASE q = p
      BY <1>0, <2>1, <3>1 DEF H3TypeOK
    <3>2. CASE q # p
      <4>1. pc[q] \in Beating /\ worker'[q] = worker[q] /\ worker[q] \in Workers
        BY <1>0, <2>1, <2>2, <2>3, <3>2 DEF H3TypeOK
      <4>2. lease[worker[q]] = q /\ worker[q] # w
        BY <2>1, <4>1 DEF LeaseKept
      <4>. QED
        BY <1>0, <2>1, <4>1, <4>2 DEF H3TypeOK
    <3>. QED
      BY <3>1, <3>2
  <2>. QED
    BY <2>3 DEF LeaseKept
<1>2. ASSUME NEW p \in Procs, TaskStep(p), ~TakeLease(p) PROVE LeaseKept'
  <2>1. CASE Release(p) \/ Return(p)
    <3>1. lease' = [lease EXCEPT ![worker[p]] = IF @ = p THEN NoProc ELSE @]
      BY <2>1 DEF Release, Return, FreeLease
    <3>2. /\ pc'[p] \in {"give_up", "again", "idle"}
          /\ \A q \in Procs : q # p => pc'[q] = pc[q] /\ worker'[q] = worker[q]
      BY <1>0, <2>1 DEF Release, Return, GoTo, Forget, H3TypeOK
    <3>3. \A q \in Procs : pc'[q] \in Beating => q # p /\ worker[q] \in Workers
      BY <1>0, <3>2 DEF Beating
    <3>4. \A q \in Procs : q # p /\ worker[q] \in Workers /\ lease[worker[q]] = q =>
              lease'[worker[q]] = q
      BY <1>0, <3>1 DEF H3TypeOK
    <3>. QED
      BY <3>2, <3>3, <3>4, LeaseStays
  <2>2. CASE PrepStep(p) \/ AttemptStep(p) \/ (EndStep(p) /\ ~Release(p) /\ ~Return(p))
    <3> USE <1>0, <1>2, <2>2 DEF PrepStep, CheckCancel, Fetch, Prepare, PrepareFails, Pick, Scan,
            NoLease, TooLate, Requeue, Resend, AttemptStep, Begin, NumberTaken, WorkSeesCancel,
            WorkLosesLease, WorkFails, WorkIncompatible, WorkDone, RenderFails, Complete, NotPublished,
            EndStep, Finish, ReleaseFails, NextAttempt, NoMoreAttempts, GiveUp, Fail, GoTo, Forget
    <3>1. UNCHANGED lease
      OBVIOUS
    <3>2. \A q \in Procs : q # p => pc'[q] = pc[q] /\ worker'[q] = worker[q]
      BY DEF H3TypeOK
    <3>3. pc'[p] \in Beating => pc[p] \in Beating /\ worker'[p] = worker[p]
      BY DEF Beating, H3TypeOK
    <3>. QED
      BY <3>1, <3>2, <3>3, LeaseStays
  <2>. QED
    BY <1>2, <2>1, <2>2 DEF TaskStep, PrepStep, AttemptStep, EndStep
<1>3. ASSUME NEW p \in Procs, NEW j \in Jobs, Receive(p, j) PROVE LeaseKept'
  <2>1. pc' = [pc EXCEPT ![p] = "start"] /\ UNCHANGED <<worker, lease>>
    BY <1>3 DEF Receive, GoTo
  <2>. QED
    BY <1>0, <2>1, LeaseStays DEF H3TypeOK, Beating
<1>4. ASSUME NEW j \in Jobs, ClientStep(j) PROVE LeaseKept'
  <2>1. UNCHANGED <<pc, worker, lease>>
    BY <1>4 DEF ClientStep, CreateJob, EnqueueFails, SubmitDies, CancelRead, CancelMark, CancelLook,
           CancelDrop, CancelRevoke, Settle, local
  <2>. QED
    BY <2>1, LeaseStays
<1>5. ASSUME NEW w \in Workers, Expire(w) PROVE LeaseKept'
  <2>1. \A q \in Procs : pc[q] \in Beating => worker[q] # w
    BY <1>0, <1>5 DEF Expire, LeaseKept
  <2>2. lease' = [lease EXCEPT ![w] = NoProc] /\ UNCHANGED <<pc, worker>>
    BY <1>5 DEF Expire, local
  <2>. QED
    BY <1>0, <2>1, <2>2, LeaseStays DEF H3TypeOK
<1>6. ASSUME NEW p \in Procs, Lose(p) PROVE LeaseKept'
  <2>1. pc' = [pc EXCEPT ![p] = "idle"] /\ worker' = [worker EXCEPT ![p] = NoWorker] /\ UNCHANGED lease
    BY <1>6 DEF Lose, Forget, GoTo
  <2>. QED
    BY <1>0, <2>1, LeaseStays DEF H3TypeOK, Beating
<1>7. CASE \/ \E w \in Workers : Probe(w)
           \/ \E j \in Jobs : Discard(j)
           \/ \E p \in Procs : DeliverTwice(p)
           \/ UNCHANGED vars
  <2>1. UNCHANGED <<pc, worker, lease>>
    BY <1>7 DEF Probe, Discard, DeliverTwice, local, vars
  <2>. QED
    BY <2>1, LeaseStays
<1>. QED
  BY <1>1, <1>2, <1>3, <1>4, <1>5, <1>6, <1>7 DEF H3Next, WorldStep

\* As long as no heartbeat misses a whole lease, a worker generates for one task at a
\* time: acquire may use an old list of free workers, the lease decides.
THEOREM ExclusiveWorkers == MayStall = FALSE => (H3Spec => []WorkersAreExclusive)
<1> SUFFICES ASSUME MayStall = FALSE PROVE H3Spec => []WorkersAreExclusive
  OBVIOUS
<1>1. LeaseKept => WorkersAreExclusive
  BY DEF LeaseKept, WorkersAreExclusive, Beating
<1>2. AttemptInv /\ LeaseKept /\ [H3Next]_vars => LeaseKept'
  BY LeaseStep
<1>. QED
  BY <1>1, <1>2, AttemptInvariant, LeaseInit, PTL DEF H3Spec

-----------------------------------------------------------------------------
(* No job is lost.                                                         *)

\* A message of the job is in the broker, or a process has one.
Carried(j) == queue[j] > 0 \/ \E p \in Procs : pc[p] # "idle" /\ job[p] = j

\* Somebody still has a say in the status of the job: not a process that only
\* gives its lease back.
Active(j) == queue[j] > 0 \/ \E p \in Procs : pc[p] \notin {"idle", "free_done"} /\ job[p] = j

Waiting(j) == status[j] \in {"queued", "running"}

\* Messages are about jobs in the table.
CarriedIsKnown == \A j \in Jobs : Carried(j) => status[j] # "none"

\* The job is in the table, and its message was not lost with what it waits for.
Kept(j) ==
    /\ status[j] # "none"
    /\ Waiting(j) /\ j \notin revoked => Active(j)

LEMMA KnownInit == H3Init => CarriedIsKnown
  BY DEF H3Init, CarriedIsKnown, Carried

\* A step about one job that is in the table, when it is over.
LEMMA KnownKept ==
  ASSUME H3TypeOK, CarriedIsKnown, NEW i \in Jobs, status'[i] # "none",
         \A j \in Jobs : j # i => status'[j] = status[j] /\ (Carried(j)' => Carried(j))
  PROVE  CarriedIsKnown'
  BY DEF CarriedIsKnown

\* The steps of a task leave the messages and the processes of other jobs alone, and
\* write no "none".
LEMMA TaskIsLocal ==
  ASSUME AttemptInv, NEW p \in Procs, TaskStep(p)
  PROVE  /\ job[p] \in Jobs /\ pc[p] # "idle"
         /\ \A j \in Jobs : j # job[p] => status'[j] = status[j] /\ queue'[j] = queue[j]
         /\ status' = status \/ \E s \in Statuses \ {"none"} : SetStatus(job[p], s)
         /\ \A q \in Procs : q # p => pc'[q] = pc[q] /\ job'[q] = job[q]
         /\ job'[p] \in {job[p], NoJob}
         /\ revoked' = revoked
<1>0. H3TypeOK /\ Equipped(p)
  BY DEF AttemptInv
<1>1. CASE PrepStep(p)
  <2> USE <1>0, <1>1 DEF PrepStep, CheckCancel, Fetch, Prepare, PrepareFails, Pick, Scan, TakeLease,
          NoLease, TooLate, Requeue, Resend, GoTo, Forget
  <2>1. job[p] \in Jobs /\ pc[p] # "idle"
    BY DEF Equipped
  <2>2. status' = status \/ \E s \in {"queued", "running"} : SetStatus(job[p], s)
    BY DEF table
  <2>3. /\ \A q \in Procs : q # p => pc'[q] = pc[q] /\ job'[q] = job[q]
        /\ job'[p] \in {job[p], NoJob}
    BY DEF H3TypeOK
  <2>4. revoked' = revoked /\ \A j \in Jobs : j # job[p] => queue'[j] = queue[j]
    BY DEF world, H3TypeOK
  <2>. QED
    BY <2>1, <2>2, <2>3, <2>4 DEF SetStatus, Statuses, H3TypeOK
<1>2. CASE AttemptStep(p)
  <2> USE <1>0, <1>2 DEF AttemptStep, Begin, NumberTaken, WorkSeesCancel, WorkLosesLease, WorkFails,
          WorkIncompatible, WorkDone, RenderFails, Complete, NotPublished, GoTo
  <2>1. job[p] \in Jobs /\ pc[p] # "idle"
    BY DEF Equipped
  <2>2. status' = status \/ \E s \in {"running", "succeeded"} : SetStatus(job[p], s)
    BY DEF table
  <2>3. \A q \in Procs : q # p => pc'[q] = pc[q]
    BY DEF H3TypeOK
  <2>4. job' = job /\ queue' = queue /\ revoked' = revoked
    BY DEF world
  <2>. QED
    BY <2>1, <2>2, <2>3, <2>4 DEF SetStatus, Statuses, Terminal, H3TypeOK
<1>3. CASE EndStep(p)
  <2> USE <1>0, <1>3 DEF EndStep, Finish, Release, Return, ReleaseFails, NextAttempt, NoMoreAttempts,
          GiveUp, Fail, GoTo, Forget
  <2>1. job[p] \in Jobs /\ pc[p] # "idle"
    BY DEF Equipped
  <2>2. status' = status \/ \E s \in {"queued", "cancelled", "failed"} : SetStatus(job[p], s)
    BY DEF table
  <2>3. /\ \A q \in Procs : q # p => pc'[q] = pc[q] /\ job'[q] = job[q]
        /\ job'[p] \in {job[p], NoJob}
    BY DEF H3TypeOK
  <2>4. queue' = queue /\ revoked' = revoked
    BY DEF world
  <2>. QED
    BY <2>1, <2>2, <2>3, <2>4 DEF SetStatus, Statuses, Terminal, H3TypeOK
<1>. QED
  BY <1>1, <1>2, <1>3 DEF TaskStep, PrepStep, AttemptStep, EndStep

LEMMA KnownStep ==
  ASSUME AttemptInv, CarriedIsKnown, [H3Next]_vars
  PROVE  CarriedIsKnown'
<1>0. H3TypeOK /\ \A q \in Procs : pc[q] # "idle" => job[q] \in Jobs
  BY DEF AttemptInv, Equipped
<1>1. ASSUME NEW p \in Procs, TaskStep(p) PROVE CarriedIsKnown'
  <2>1. job[p] \in Jobs /\ status[job[p]] # "none"
    BY <1>1, TaskIsLocal DEF CarriedIsKnown, Carried
  <2>2. status'[job[p]] # "none"
    BY <1>0, <1>1, <2>1, TaskIsLocal DEF SetStatus, H3TypeOK
  <2>3. ASSUME NEW j \in Jobs, j # job[p] PROVE status'[j] = status[j] /\ (Carried(j)' => Carried(j))
    <3>1. j # NoJob
      OBVIOUS
    <3>. QED
      BY <1>1, <2>3, <3>1, TaskIsLocal DEF Carried
  <2>. QED
    BY <1>0, <2>1, <2>2, <2>3, KnownKept
<1>2. ASSUME NEW p \in Procs, NEW i \in Jobs, Receive(p, i) PROVE CarriedIsKnown'
  <2>1. /\ UNCHANGED status /\ queue' = [queue EXCEPT ![i] = @ - 1] /\ queue[i] > 0
        /\ job' = [job EXCEPT ![p] = i]
        /\ pc' = [pc EXCEPT ![p] = "start"]
    BY <1>2 DEF Receive, table, GoTo
  <2>2. status'[i] # "none"
    BY <2>1 DEF CarriedIsKnown, Carried
  <2>. QED
    BY <1>0, <2>1, <2>2, KnownKept DEF Carried, H3TypeOK
<1>3. ASSUME NEW i \in Jobs, ClientStep(i) PROVE CarriedIsKnown'
  <2>1. UNCHANGED <<pc, job>> /\ \A j \in Jobs : j # i => status'[j] = status[j] /\ queue'[j] = queue[j]
    BY <1>0, <1>3 DEF ClientStep, CreateJob, EnqueueFails, SubmitDies, CancelRead, CancelMark,
           CancelLook, CancelDrop, CancelRevoke, Settle, table, local, SetStatus, H3TypeOK
  <2>2. CASE status'[i] # "none"
    BY <1>0, <2>1, <2>2, KnownKept DEF Carried
  <2>3. CASE status'[i] = "none"
    <3>1. status' = status /\ queue' = queue
      BY <1>0, <1>3, <2>3 DEF ClientStep, CreateJob, EnqueueFails, SubmitDies, CancelRead, CancelMark,
             CancelLook, CancelDrop, CancelRevoke, Settle, table, SetStatus, H3TypeOK
    <3>. QED
      BY <2>1, <3>1 DEF CarriedIsKnown, Carried
  <2>. QED
    BY <2>2, <2>3
<1>4. ASSUME NEW i \in Jobs, Discard(i) PROVE CarriedIsKnown'
  <2>1. /\ UNCHANGED <<status, pc, job>> /\ queue' = [queue EXCEPT ![i] = @ - 1] /\ queue[i] > 0
    BY <1>4 DEF Discard, table, local
  <2>2. status'[i] # "none"
    BY <2>1 DEF CarriedIsKnown, Carried
  <2>. QED
    BY <1>0, <2>1, <2>2, KnownKept DEF Carried, H3TypeOK
<1>5. ASSUME NEW p \in Procs, Lose(p) \/ DeliverTwice(p) PROVE CarriedIsKnown'
  <2>1. /\ job[p] \in Jobs /\ pc[p] # "idle" /\ UNCHANGED status
        /\ queue' = [queue EXCEPT ![job[p]] = @ + 1]
        /\ \A q \in Procs : pc'[q] # "idle" => pc[q] # "idle" /\ job'[q] = job[q]
    BY <1>0, <1>5 DEF Lose, DeliverTwice, Forget, GoTo, table, local, H3TypeOK
  <2>2. status'[job[p]] # "none"
    BY <2>1 DEF CarriedIsKnown, Carried
  <2>. QED
    BY <1>0, <2>1, <2>2, KnownKept DEF Carried, H3TypeOK
<1>6. CASE (\E w \in Workers : Probe(w) \/ Expire(w)) \/ UNCHANGED vars
  <2>1. UNCHANGED <<status, queue, pc, job>>
    BY <1>6 DEF Probe, Expire, table, local, vars
  <2>. QED
    BY <2>1 DEF CarriedIsKnown, Carried
<1>. QED
  BY <1>1, <1>2, <1>3, <1>4, <1>5, <1>6 DEF H3Next, WorldStep

\* The step of a task that has j: it goes on with it, or it has written a verdict or sent
\* a message first.
LEMMA OwnStepKeeps ==
  ASSUME AttemptInv, NEW p \in Procs, TaskStep(p), NEW j \in Jobs, job[p] = j, Kept(j)
  PROVE  Kept(j)'
<1>0. H3TypeOK /\ InStep(p)
  BY DEF AttemptInv
<1>1. status'[j] # "none" /\ revoked' = revoked
  BY <1>0, TaskIsLocal DEF SetStatus, H3TypeOK, Kept
<1>2. CASE GiveUp(p) \/ Fail(p)
  <2>1. status'[j] \in Terminal
    BY <1>0, <1>2 DEF GiveUp, Fail, SetStatus, H3TypeOK, Terminal
  <2>. QED
    BY <1>1, <2>1 DEF Kept, Waiting, Terminal
<1>3. CASE Complete(p)
  <2>1. status'[j] = "succeeded"
    BY <1>0, <1>3 DEF Complete, SetStatus, H3TypeOK
  <2>. QED
    BY <1>1, <2>1 DEF Kept, Waiting
<1>4. CASE NotPublished(p)
  <2>1. OwnRow(p) /\ rows[j][number[p]].state = "running"
    BY <1>0, <1>4 DEF NotPublished, InStep, AtWork, Attempting
  <2>2. status[j] \in CancelStates \cup {"succeeded"} /\ status' = status
    BY <1>4, <2>1 DEF NotPublished, MayComplete, OwnRow, table
  <2>. QED
    BY <1>1, <2>2 DEF Kept, Waiting, CancelStates
<1>5. CASE Resend(p)
  <2>1. queue'[j] = queue[j] + 1 /\ queue[j] \in Nat
    BY <1>0, <1>5 DEF Resend, H3TypeOK
  <2>. QED
    BY <1>1, <2>1 DEF Kept, Active
<1>6. CASE Return(p)
  <2>1. UNCHANGED <<status, queue>> /\ pc[p] = "free_done"
    BY <1>6 DEF Return, table
  <2>2. \A q \in Procs : q # p => pc'[q] = pc[q] /\ job'[q] = job[q]
    BY TaskIsLocal
  <2>. QED
    BY <1>1, <2>1, <2>2 DEF Kept, Waiting, Active
<1>7. CASE PrepStep(p) /\ ~Resend(p)
  <2>1. pc'[p] \notin {"idle", "free_done"} /\ job'[p] = j
    BY <1>0, <1>7 DEF PrepStep, CheckCancel, Fetch, Prepare, PrepareFails, Pick, Scan, TakeLease,
           NoLease, TooLate, Requeue, GoTo, H3TypeOK
  <2>. QED
    BY <1>1, <2>1 DEF Kept, Active
<1>8. CASE AttemptStep(p) /\ ~Complete(p) /\ ~NotPublished(p)
  <2>1. pc'[p] \notin {"idle", "free_done"} /\ job'[p] = j
    BY <1>0, <1>8 DEF AttemptStep, Begin, NumberTaken, WorkSeesCancel, WorkLosesLease, WorkFails,
           WorkIncompatible, WorkDone, RenderFails, GoTo, H3TypeOK
  <2>. QED
    BY <1>1, <2>1 DEF Kept, Active
<1>9. CASE EndStep(p) /\ ~Return(p) /\ ~GiveUp(p) /\ ~Fail(p)
  <2>1. pc'[p] \notin {"idle", "free_done"} /\ job'[p] = j
    BY <1>0, <1>9 DEF EndStep, Finish, Release, ReleaseFails, NextAttempt, NoMoreAttempts, GoTo,
           H3TypeOK
  <2>. QED
    BY <1>1, <2>1 DEF Kept, Active
<1>. QED
  BY <1>2, <1>3, <1>4, <1>5, <1>6, <1>7, <1>8, <1>9 DEF TaskStep, PrepStep, AttemptStep, EndStep

LEMMA KeptStep ==
  ASSUME AttemptInv, NEW j \in Jobs, Kept(j), [H3Next]_vars
  PROVE  Kept(j)'
<1>0. H3TypeOK /\ \A q \in Procs : pc[q] # "idle" => job[q] \in Jobs
  BY DEF AttemptInv, Equipped
<1>1. ASSUME NEW p \in Procs, TaskStep(p) PROVE Kept(j)'
  <2>1. CASE job[p] = j
    BY <1>1, <2>1, OwnStepKeeps
  <2>2. CASE job[p] # j
    <3>1. /\ status'[j] = status[j] /\ queue'[j] = queue[j] /\ revoked' = revoked
          /\ \A q \in Procs : q # p => pc'[q] = pc[q] /\ job'[q] = job[q]
      BY <1>1, <2>2, TaskIsLocal
    <3>. QED
      BY <2>2, <3>1 DEF Kept, Waiting, Active
  <2>. QED
    BY <2>1, <2>2
<1>2. ASSUME NEW p \in Procs, NEW i \in Jobs, Receive(p, i) PROVE Kept(j)'
  <2>1. /\ UNCHANGED <<status, revoked>> /\ queue' = [queue EXCEPT ![i] = @ - 1]
        /\ pc[p] = "idle" /\ pc' = [pc EXCEPT ![p] = "start"] /\ job' = [job EXCEPT ![p] = i]
    BY <1>2 DEF Receive, table, world, GoTo
  <2>2. /\ pc'[p] = "start" /\ job'[p] = i
        /\ \A q \in Procs : q # p => pc'[q] = pc[q] /\ job'[q] = job[q]
    BY <1>0, <2>1 DEF H3TypeOK
  <2>3. i # j => queue'[j] = queue[j]
    BY <1>0, <2>1 DEF H3TypeOK
  <2>4. Active(j) => Active(j)'
    BY <2>1, <2>2, <2>3 DEF Active
  <2>. QED
    BY <2>1, <2>4 DEF Kept, Waiting
<1>3. ASSUME NEW i \in Jobs, ClientStep(i) PROVE Kept(j)'
  <2>1. UNCHANGED <<pc, job>> /\ (queue[j] > 0 => queue'[j] > 0) /\ revoked \subseteq revoked'
    BY <1>0, <1>3 DEF ClientStep, CreateJob, EnqueueFails, SubmitDies, CancelRead, CancelMark,
           CancelLook, CancelDrop, CancelRevoke, Settle, local, world, H3TypeOK
  <2>2. status'[j] \in {status[j], "cancel_requested", "cancelled"}
    BY <1>0, <1>3 DEF ClientStep, CreateJob, EnqueueFails, SubmitDies, CancelRead, CancelMark,
           CancelLook, CancelDrop, CancelRevoke, Settle, table, SetStatus, H3TypeOK, Kept
  <2>3. Active(j) => Active(j)'
    BY <2>1 DEF Active
  <2>. QED
    BY <2>1, <2>2, <2>3 DEF Kept, Waiting
<1>4. ASSUME NEW i \in Jobs, Discard(i) PROVE Kept(j)'
  <2>1. /\ UNCHANGED <<status, pc, job, revoked>> /\ queue' = [queue EXCEPT ![i] = @ - 1]
        /\ i \in revoked
    BY <1>4 DEF Discard, table, local, world
  <2>. QED
    BY <1>0, <2>1 DEF Kept, Waiting, Active, H3TypeOK
<1>5. ASSUME NEW p \in Procs, Lose(p) \/ DeliverTwice(p) PROVE Kept(j)'
  <2>1. /\ job[p] \in Jobs /\ UNCHANGED <<status, revoked>>
        /\ queue' = [queue EXCEPT ![job[p]] = @ + 1]
        /\ \A q \in Procs : q # p => pc'[q] = pc[q] /\ job'[q] = job[q]
    BY <1>0, <1>5 DEF Lose, DeliverTwice, Forget, GoTo, table, local, world, H3TypeOK
  <2>2. job[p] = j => queue'[j] > 0
    BY <1>0, <2>1 DEF H3TypeOK
  <2>3. job[p] # j => queue'[j] = queue[j]
    BY <1>0, <2>1 DEF H3TypeOK
  <2>. QED
    BY <2>1, <2>2, <2>3 DEF Kept, Waiting, Active
<1>6. CASE (\E w \in Workers : Probe(w) \/ Expire(w)) \/ UNCHANGED vars
  <2>1. UNCHANGED <<status, queue, pc, job, revoked>>
    BY <1>6 DEF Probe, Expire, table, local, world, vars
  <2>. QED
    BY <2>1 DEF Kept, Waiting, Active
<1>. QED
  BY <1>1, <1>2, <1>3, <1>4, <1>5, <1>6 DEF H3Next, WorldStep

\* Once the message of a job is sent, as long as the job waits and Celery was not told
\* to drop it, its message is in the broker or with a process: through every loss, second
\* delivery, requeue and attempt nobody leaves it with nobody to write its end.
THEOREM NoJobIsLost ==
  ASSUME NEW j \in Jobs
  PROVE  H3Spec => [](queue[j] > 0 => [](Waiting(j) /\ j \notin revoked => Carried(j)))
<1>1. AttemptInv /\ CarriedIsKnown /\ [H3Next]_vars => CarriedIsKnown'
  BY KnownStep
<1>2. AttemptInv /\ Kept(j) /\ [H3Next]_vars => Kept(j)'
  BY KeptStep
<1>3. CarriedIsKnown /\ queue[j] > 0 => Kept(j)
  BY DEF CarriedIsKnown, Carried, Kept, Active
<1>4. Kept(j) => (Waiting(j) /\ j \notin revoked => Carried(j))
  BY DEF Kept, Active, Carried
<1>. QED
  BY <1>1, <1>2, <1>3, <1>4, AttemptInvariant, KnownInit, PTL DEF H3Spec

-----------------------------------------------------------------------------
(* Publication is fenced.                                                  *)

OpenJobs == {j \in Jobs : RunningRows(j) # {}}

\* A job whose rows are left alone stays as open as it was.
LEMMA SameRows ==
  ASSUME NEW j \in Jobs, rows'[j] = rows[j]
  PROVE  RunningRows(j)' = RunningRows(j)
  BY DEF RunningRows

LEMMA FencedQuiet ==
  ASSUME UNCHANGED <<attempt, rows, result>>
  PROVE  UNCHANGED <<attempt, OpenJobs, result>>
  BY SameRows DEF OpenJobs

LEMMA FencedBegin ==
  ASSUME AttemptInv, NEW p \in Procs, Begin(p)
  PROVE  \E j \in Jobs :
           /\ j \notin OpenJobs /\ attempt[j] < MaxAttempts
           /\ attempt' = [attempt EXCEPT ![j] = @ + 1]
           /\ OpenJobs' = OpenJobs \cup {j}
           /\ UNCHANGED result
<1>1. H3TypeOK
  BY DEF AttemptInv
<1>2. PICK j \in Jobs, n \in Numbers : /\ j = job[p] /\ n = number[p] /\ n = attempt[j] + 1
                                       /\ current[j] = NoWorker
  BY BeginIsNext
<1>3. attempt[j] < MaxAttempts /\ attempt[j] + 1 = n
  BY <1>1, <1>2 DEF Numbers, H3TypeOK
<1>4. RunningRows(j) = {}
  BY <1>2 DEF AttemptInv, Numbered, RunningRows
<1>5. rows' = [rows EXCEPT ![j][n] = [state |-> "running", worker |-> worker[p], by |-> p]]
  BY <1>2 DEF Begin
<1>6. rows'[j][n].state = "running" /\ \A i \in Jobs : i # j => rows'[i] = rows[i]
  BY <1>1, <1>5 DEF H3TypeOK
<1>7. OpenJobs' = OpenJobs \cup {j}
  <2>1. n \in RunningRows(j)'
    BY <1>6 DEF RunningRows
  <2>2. \A i \in Jobs : i # j => RunningRows(i)' = RunningRows(i)
    BY <1>6, SameRows
  <2>. QED
    BY <2>1, <2>2 DEF OpenJobs
<1>. QED
  BY <1>2, <1>3, <1>4, <1>7 DEF Begin, OpenJobs

\* Closing the newest attempt of a job leaves it with none that runs.
LEMMA FencedClose ==
  ASSUME AttemptInv, NEW j \in Jobs, NEW n \in Numbers, NEW s \in Terminal, n = attempt[j],
         rows' = [rows EXCEPT ![j][n].state = s]
  PROVE  OpenJobs' = OpenJobs \ {j}
<1>1. H3TypeOK /\ rows[j] \in [Numbers -> Row] /\ rows[j][n] \in Row
  BY DEF AttemptInv, H3TypeOK
<1>2. \A i \in Jobs : i # j => RunningRows(i)' = RunningRows(i)
  BY <1>1, SameRows DEF H3TypeOK
<1>3. rows'[j][n].state = s /\ \A m \in Numbers : m # n => rows'[j][m] = rows[j][m]
  BY <1>1 DEF H3TypeOK, Row
<1>4. \A m \in Numbers : rows[j][m].state = "running" => m = n
  BY DEF AttemptInv, Numbered
<1>5. RunningRows(j)' = {}
  BY <1>3, <1>4 DEF RunningRows, Terminal
<1>. QED
  BY <1>2, <1>5 DEF OpenJobs

LEMMA FencedComplete ==
  ASSUME AttemptInv, NEW p \in Procs, Complete(p)
  PROVE  \E j \in Jobs :
           /\ j \in OpenJobs
           /\ OpenJobs' = OpenJobs \ {j}
           /\ result' = [result EXCEPT ![j] = attempt[j]]
           /\ UNCHANGED attempt
<1>1. PICK j \in Jobs, n \in Numbers : j = job[p] /\ n = number[p]
  BY DEF AttemptInv, Complete, Equipped, AtWork, Attempting
<1>2. n = attempt[j] /\ rows[j][n].state = "running"
  BY <1>1 DEF Complete, MayComplete
<1>3. /\ rows' = [rows EXCEPT ![j][n].state = "succeeded"]
      /\ result' = [result EXCEPT ![j] = n] /\ UNCHANGED attempt
  BY <1>1 DEF Complete
<1>4. j \in OpenJobs
  BY <1>2 DEF OpenJobs, RunningRows
<1>. QED
  BY <1>2, <1>3, <1>4, FencedClose DEF Terminal

LEMMA FencedFinish ==
  ASSUME AttemptInv, NEW p \in Procs, Finish(p)
  PROVE  \/ \E j \in Jobs : /\ j \in OpenJobs
                            /\ OpenJobs' = OpenJobs \ {j}
                            /\ UNCHANGED <<attempt, result>>
         \/ UNCHANGED <<attempt, OpenJobs, result>>
<1>1. PICK j \in Jobs, n \in Numbers : j = job[p] /\ n = number[p] /\ n = attempt[j]
  BY DEF AttemptInv, Finish, Equipped, AtWork, Attempting, InStep, OwnRow
<1>2. PICK s \in Terminal : rows' = [rows EXCEPT ![j][n].state = s]
  BY <1>1 DEF Finish, Terminal
<1>3. OpenJobs' = OpenJobs \ {j} /\ UNCHANGED <<attempt, result>>
  BY <1>1, <1>2, FencedClose DEF Finish
<1>. QED
  BY <1>3

LEMMA FencedStep ==
  ASSUME AttemptInv, [H3Next]_vars
  PROVE  \/ \E j \in Jobs : /\ j \notin OpenJobs /\ attempt[j] < MaxAttempts
                            /\ attempt' = [attempt EXCEPT ![j] = @ + 1]
                            /\ OpenJobs' = OpenJobs \cup {j}
                            /\ UNCHANGED result
         \/ \E j \in Jobs : /\ j \in OpenJobs
                            /\ OpenJobs' = OpenJobs \ {j}
                            /\ UNCHANGED <<attempt, result>>
         \/ \E j \in Jobs : /\ j \in OpenJobs
                            /\ OpenJobs' = OpenJobs \ {j}
                            /\ result' = [result EXCEPT ![j] = attempt[j]]
                            /\ UNCHANGED attempt
         \/ UNCHANGED <<attempt, OpenJobs, result>>
<1>1. CASE \E p \in Procs : Begin(p)
  BY <1>1, FencedBegin
<1>2. CASE \E p \in Procs : Complete(p)
  BY <1>2, FencedComplete
<1>3. CASE \E p \in Procs : Finish(p)
  BY <1>3, FencedFinish
<1>4. ASSUME NEW p \in Procs, TaskStep(p), ~Begin(p), ~Complete(p), ~Finish(p)
      PROVE  UNCHANGED <<attempt, rows, result>>
  BY <1>4 DEF TaskStep, CheckCancel, Fetch, Prepare, PrepareFails, Pick, Scan, TakeLease,
         NoLease, TooLate, Requeue, Resend, NumberTaken, WorkSeesCancel, WorkLosesLease, WorkFails,
         WorkIncompatible, WorkDone, RenderFails, NotPublished, Release, Return, ReleaseFails,
         NextAttempt, NoMoreAttempts, GiveUp, Fail, table
<1>5. ASSUME NEW j \in Jobs, ClientStep(j) PROVE UNCHANGED <<attempt, rows, result>>
  BY <1>5 DEF ClientStep, CreateJob, EnqueueFails, SubmitDies, CancelRead, CancelMark, CancelLook,
         CancelDrop, CancelRevoke, Settle, table
<1>6. ASSUME WorldStep \/ (\E p \in Procs : \E j \in Jobs : Receive(p, j)) \/ UNCHANGED vars
      PROVE  UNCHANGED <<attempt, rows, result>>
  BY <1>6 DEF WorldStep, Probe, Expire, Discard, Lose, DeliverTwice, Receive, table, vars
<1>. QED
  BY <1>1, <1>2, <1>3, <1>4, <1>5, <1>6, FencedQuiet DEF H3Next

\* H3 jobs implement FencedPublication: however messages are repeated and processes lost,
\* the attempts of a job follow one another, and only the newest publishes, once.
THEOREM PublicationIsFenced == H3Spec => ImplementsFencedPublication
<1>1. H3Init => Fenced!FencedInit
  BY DEF H3Init, Fenced!FencedInit, RunningRows, NoRow
<1>2. AttemptInv /\ [H3Next]_vars => [Fenced!FencedNext]_(Fenced!fenced)
  BY FencedStep DEF Fenced!FencedNext, Fenced!fenced, Fenced!Open, Fenced!Abandon,
                    Fenced!Publish, OpenJobs
<1>. QED
  BY <1>1, <1>2, AttemptInvariant, PTL DEF H3Spec, ImplementsFencedPublication, Fenced!FencedSpec

\* What the fence keeps apart: tokens and films of jobs with and without an open attempt.
FencedInv ==
    \A j \in Jobs :
        /\ attempt[j] \in Nat /\ result[j] \in 0..attempt[j]
        /\ j \in OpenJobs => result[j] < attempt[j]

\* The film of a job is replaced, if ever, by that of a newer attempt.
OnlyNewerFilms ==
    [][\A j \in Jobs : result'[j] # result[j] => result'[j] = attempt[j] /\ result'[j] > result[j]]_vars

LEMMA FencedInvStep ==
  ASSUME AttemptInv, FencedInv, [H3Next]_vars
  PROVE  /\ FencedInv'
         /\ \A j \in Jobs : result'[j] # result[j] => result'[j] = attempt[j] /\ result'[j] > result[j]
<1>. USE DEF FencedInv, AttemptInv, H3TypeOK
<1>1. ASSUME NEW j \in Jobs, j \notin OpenJobs, attempt' = [attempt EXCEPT ![j] = @ + 1],
             OpenJobs' = OpenJobs \cup {j}, UNCHANGED result
      PROVE  FencedInv'
  BY <1>1
<1>2. ASSUME NEW j \in Jobs, j \in OpenJobs, OpenJobs' = OpenJobs \ {j}, UNCHANGED <<attempt, result>>
      PROVE  FencedInv'
  BY <1>2
<1>3. ASSUME NEW j \in Jobs, j \in OpenJobs, OpenJobs' = OpenJobs \ {j},
             result' = [result EXCEPT ![j] = attempt[j]], UNCHANGED attempt
      PROVE  /\ FencedInv'
             /\ \A i \in Jobs : result'[i] # result[i] => result'[i] = attempt[i] /\ result'[i] > result[i]
  BY <1>3
<1>4. ASSUME UNCHANGED <<attempt, OpenJobs, result>>
      PROVE  FencedInv'
  BY <1>4
<1>. QED
  BY <1>1, <1>2, <1>3, <1>4, FencedStep

\* A publication that the release of the worker interrupts counts as a failure, and the job is
\* filmed again: then the new film takes the place of the old one, never the other way round,
\* and no attempt publishes twice.
THEOREM NewerFilmWins == H3Spec => OnlyNewerFilms
<1>1. H3Init => FencedInv
  BY DEF H3Init, FencedInv, OpenJobs, RunningRows, NoRow
<1>2. AttemptInv /\ FencedInv /\ [H3Next]_vars => FencedInv'
  BY FencedInvStep
<1>3. AttemptInv /\ FencedInv /\ [H3Next]_vars =>
        [\A j \in Jobs : result'[j] # result[j] => result'[j] = attempt[j] /\ result'[j] > result[j]]_vars
  BY FencedInvStep
<1>. QED
  BY <1>1, <1>2, <1>3, AttemptInvariant, PTL DEF H3Spec, OnlyNewerFilms
=============================================================================
