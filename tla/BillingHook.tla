----------------------------- MODULE BillingHook -----------------------------
(***************************************************************************)
(* The requests that billing_hook.py charges: a hold before the handler,   *)
(* a settlement by the response after it.  Four kinds of handler:          *)
(*   "call"    does the work while the client waits (recognition, OCR);    *)
(*   "job"     sends a Celery task and returns its id (the *_jobs.py       *)
(*             clients of scenes, watermarks, upscaling, depth, grading);  *)
(*   "wait"    sends such a task and waits for it (.../jobs/wait);         *)
(*   "speech"  sends a task named by the caller's idempotency key, and     *)
(*             links the charge to it (tts/jobs.py, link_current).         *)
(* A command to Redis, to the broker or to the ledger is one step; an      *)
(* upload, a check of a URL and the work of a "call" are the choice of     *)
(* their outcome.  A hold the ledger refuses ends the request before       *)
(* anything happens (CreditLedger has the limits), so only admitted        *)
(* requests are seen.  The jobs keep no row: what is known of them is a    *)
(* marker and a Celery result.                                             *)
(***************************************************************************)
EXTENDS Integers, FiniteSets

CONSTANTS
    Requests,      \* requests; also the fresh ids of the jobs they send
    Speeches,      \* job ids made of idempotency keys
    HookTroubles,  \* crashes, failing commands, lost or retried tasks
    NoJob

ASSUME HookAssumption ==
    /\ Requests \cap Speeches = {} /\ NoJob \notin Requests \cup Speeches
    /\ HookTroubles \in Nat

Jobs == Requests \cup Speeches
Kinds == {"call", "job", "wait", "speech"}
Places == {"away", "handler", "send", "unmark", "look", "link", "wait", "answer", "over"}
Ended == {"succeeded", "failed", "revoked"}

VARIABLES
    at,        \* where a request is in its handler
    kind,      \* its kind
    job,       \* the job it sends
    reply,     \* what it will answer: "none", "ok" or "error"
    deferred,  \* requests whose route must not settle
    charge,    \* their charges: "none", "held", "spent" or "refunded"
    linked,    \* the job a charge names
    marker,    \* jobs with a marker in Redis
    queued,    \* messages of a job at the broker
    running,   \* deliveries of a job at work
    result,    \* its Celery result: "pending", "started" or Ended
    revoked,   \* jobs revoked
    everDone, everFailed, \* jobs that once ended so
    saw,       \* polls between reading and settling: job and verdict
    troubles

requestVars == <<at, kind, job, reply>>
chargeVars == <<deferred, charge, linked>>
taskVars == <<queued, running, result, revoked, everDone, everFailed>>
hookVars == <<requestVars, chargeVars, marker, taskVars, saw, troubles>>

HookTypeOK ==
    /\ at \in [Requests -> Places] /\ kind \in [Requests -> Kinds]
    /\ job \in [Requests -> Jobs \cup {NoJob}]
    /\ reply \in [Requests -> {"none", "ok", "error"}]
    /\ deferred \subseteq Requests
    /\ charge \in [Requests -> {"none", "held", "spent", "refunded"}]
    /\ linked \in [Requests -> Speeches \cup {NoJob}]
    /\ {marker, revoked, everDone, everFailed} \subseteq SUBSET Jobs
    /\ queued \in [Jobs -> Nat] /\ running \in [Jobs -> Nat]
    /\ result \in [Jobs -> Ended \cup {"pending", "started"}]
    /\ saw \subseteq Speeches \X {"spent", "refunded"}
    /\ troubles \in 0..HookTroubles

HookInit ==
    /\ at = [r \in Requests |-> "away"] /\ kind = [r \in Requests |-> "call"]
    /\ job = [r \in Requests |-> NoJob] /\ reply = [r \in Requests |-> "none"]
    /\ deferred = {}
    /\ charge = [r \in Requests |-> "none"] /\ linked = [r \in Requests |-> NoJob]
    /\ marker = {} /\ revoked = {} /\ everDone = {} /\ everFailed = {}
    /\ queued = [j \in Jobs |-> 0] /\ running = [j \in Jobs |-> 0]
    /\ result = [j \in Jobs |-> "pending"]
    /\ saw = {} /\ troubles = 0

Trouble == troubles < HookTroubles /\ troubles' = troubles + 1

-----------------------------------------------------------------------------
(* A request.                                                              *)

Goes(r, from, to) == at[r] = from /\ at' = [at EXCEPT ![r] = to]

Answers(r, from, word) == Goes(r, from, "answer") /\ reply' = [reply EXCEPT ![r] = word]

\* The dependency holds the quota; a speech job is named by its key, any other
\* by a fresh id.
Hold(r, k, j) ==
    /\ Goes(r, "away", "handler")
    /\ j \in CASE k = "call" -> {NoJob} [] k = "speech" -> Speeches [] OTHER -> {r}
    /\ kind' = [kind EXCEPT ![r] = k]
    /\ job' = [job EXCEPT ![r] = j]
    /\ charge' = [charge EXCEPT ![r] = "held"]
    /\ UNCHANGED <<reply, deferred, linked, marker, taskVars, saw, troubles>>

\* The body or a URL is refused, or the work of a call fails.
Refuse(r) ==
    /\ Answers(r, "handler", "error")
    /\ UNCHANGED <<kind, job, chargeVars, marker, taskVars, saw, troubles>>

Serve(r) ==
    /\ kind[r] = "call" /\ Answers(r, "handler", "ok")
    /\ UNCHANGED <<kind, job, chargeVars, marker, taskVars, saw, troubles>>

\* SET of the marker, for a speech job with NX: only the first sends it.
Mark(r) ==
    /\ kind[r] # "call"
    /\ Goes(r, "handler", IF kind[r] = "speech" /\ job[r] \in marker THEN "look" ELSE "send")
    /\ marker' = marker \cup {job[r]}
    /\ UNCHANGED <<kind, job, reply, chargeVars, taskVars, saw, troubles>>

Enqueue(j) == queued' = [queued EXCEPT ![j] = @ + 1]

Send(r) ==
    /\ \/ kind[r] = "speech" /\ Goes(r, "send", "look") /\ UNCHANGED reply
       \/ kind[r] = "wait" /\ Goes(r, "send", "wait") /\ UNCHANGED reply
       \/ kind[r] = "job" /\ Answers(r, "send", "ok")
    /\ Enqueue(job[r])
    /\ UNCHANGED <<kind, job, chargeVars, marker, running, result, revoked, everDone, everFailed,
                   saw, troubles>>

\* send_task raises, although the broker may have the message.
SendFails(r) ==
    /\ Goes(r, "send", "unmark") /\ Trouble
    /\ Enqueue(job[r]) \/ UNCHANGED queued
    /\ UNCHANGED <<kind, job, reply, chargeVars, marker, running, result, revoked, everDone,
                   everFailed, saw>>

Unmark(r) ==
    /\ Answers(r, "unmark", "error")
    /\ marker' = marker \ {job[r]}
    /\ UNCHANGED <<kind, job, chargeVars, taskVars, saw, troubles>>

\* submit ends by a look at the status, which wants the marker.
Look(r) ==
    /\ \/ job[r] \in marker /\ Goes(r, "look", "link") /\ UNCHANGED reply
       \/ job[r] \notin marker /\ Answers(r, "look", "error")
    /\ UNCHANGED <<kind, job, chargeVars, marker, taskVars, saw, troubles>>

\* link_current: deferred first, then linked, for a duplicate, too.
Link(r) ==
    /\ Answers(r, "link", "ok")
    /\ deferred' = deferred \cup {r}
    /\ linked' = [linked EXCEPT ![r] = job[r]]
    /\ UNCHANGED <<kind, job, charge, marker, taskVars, saw, troubles>>

LinkFails(r) ==
    /\ Answers(r, "link", "error") /\ Trouble
    /\ deferred' = deferred \cup {r}
    /\ UNCHANGED <<kind, job, charge, linked, marker, taskVars, saw>>

\* job.get returns the result, raises what the task raised, or gives up (504)
\* while the task goes on.
Waited(r) ==
    /\ Answers(r, "wait", "ok") /\ result[job[r]] = "succeeded"
    /\ UNCHANGED <<kind, job, chargeVars, marker, taskVars, saw, troubles>>

NotWaited(r) ==
    /\ Answers(r, "wait", "error")
    /\ UNCHANGED <<kind, job, chargeVars, marker, taskVars, saw, troubles>>

-----------------------------------------------------------------------------
(* The charge.                                                             *)

SettleHeld(rs, verdict) ==
    charge' = [r \in Requests |-> IF r \in rs /\ charge[r] = "held" THEN verdict ELSE charge[r]]

\* Mutant of RouteSettles: an answer of any kind is booked.
RouteSettlesAlways(r) == SettleHeld({r} \ deferred, "spent")

\* Mutant of RouteSettles: the outcome is written in place of the state.
RouteSettlesOutcome(r) == SettleHeld({r} \ deferred, reply[r])

\* _settle of BillingRoute, by the final response, unless it was deferred.
RouteSettles(r) ==
    SettleHeld({r} \ deferred, IF reply[r] = "ok" THEN "spent" ELSE "refunded")

Answer(r) ==
    /\ Goes(r, "answer", "over")
    /\ RouteSettles(r)
    /\ UNCHANGED <<kind, job, reply, deferred, linked, marker, taskVars, saw, troubles>>

\* The process dies, or the settlement raises: there is no answer.
Dies(r) ==
    /\ at[r] \notin {"away", "over"} /\ Trouble
    /\ at' = [at EXCEPT ![r] = "over"] /\ reply' = [reply EXCEPT ![r] = "none"]
    /\ UNCHANGED <<kind, job, chargeVars, marker, taskVars, saw>>

\* Mutant of VerdictOf: an end is a success.
VerdictOfAny(j) == "spent"

VerdictOf(j) == IF result[j] = "succeeded" THEN "spent" ELSE "refunded"

\* GET of a speech job: reads the result (that of other jobs settles nothing) ...
Poll(j) ==
    /\ j \in Speeches \cap marker /\ result[j] \in Ended
    /\ saw' = saw \cup {<<j, VerdictOf(j)>>}
    /\ UNCHANGED <<requestVars, chargeVars, marker, taskVars, troubles>>

\* ... and settles every charge of the job.
PollSettles(seen) ==
    /\ seen \in saw /\ saw' = saw \ {seen}
    /\ SettleHeld({r \in Requests : linked[r] = seen[1]}, seen[2])
    /\ UNCHANGED <<requestVars, deferred, linked, marker, taskVars, troubles>>

\* Mutant of Orphans: the sweep refunds whatever is held for hours.
OrphansAll == {r \in Requests : at[r] = "over" /\ charge[r] = "held"}

\* Mutant of Orphans: a deferred charge is left to the polls.
OrphansNotDeferred == {r \in Requests : at[r] = "over" /\ charge[r] = "held" /\ r \notin deferred}

\* What reconcile_held refunds: held for hours, and without a job.  Jobs of this
\* module are in no store it looks in, so their charges stay as they are.
Orphans == {r \in Requests : at[r] = "over" /\ charge[r] = "held" /\ linked[r] = NoJob}

Sweep(r) ==
    /\ r \in Orphans
    /\ SettleHeld({r}, "refunded")
    /\ UNCHANGED <<requestVars, deferred, linked, marker, taskVars, saw, troubles>>

-----------------------------------------------------------------------------
(* A task.                                                                 *)

Dequeue(j) == queued[j] > 0 /\ queued' = [queued EXCEPT ![j] = @ - 1]
Yields(j, word) == result' = [result EXCEPT ![j] = word]

\* A worker that started after the revocation has not heard of it.
Begin(j) ==
    /\ Dequeue(j)
    /\ running' = [running EXCEPT ![j] = @ + 1]
    /\ Yields(j, "started")
    /\ UNCHANGED <<requestVars, chargeVars, marker, revoked, everDone, everFailed, saw, troubles>>

Discard(j) ==
    /\ j \in revoked /\ Dequeue(j)
    /\ Yields(j, "revoked")
    /\ everFailed' = everFailed \cup {j}
    /\ UNCHANGED <<requestVars, chargeVars, marker, running, revoked, everDone, saw, troubles>>

End(j) ==
    /\ running[j] > 0 /\ running' = [running EXCEPT ![j] = @ - 1]
    /\ \/ Yields(j, "succeeded") /\ everDone' = everDone \cup {j} /\ UNCHANGED everFailed
       \/ Yields(j, "failed") /\ everFailed' = everFailed \cup {j} /\ UNCHANGED everDone
    /\ UNCHANGED <<requestVars, chargeVars, marker, queued, revoked, saw, troubles>>

\* Its worker is lost, or the provider is unavailable for the moment.
Redeliver(j) ==
    /\ running[j] > 0 /\ running' = [running EXCEPT ![j] = @ - 1] /\ Trouble
    /\ Enqueue(j)
    /\ UNCHANGED <<requestVars, chargeVars, marker, result, revoked, everDone, everFailed, saw>>

\* Speech jobs have no cancel.
Cancel(j) ==
    /\ j \in Requests \cap marker
    /\ revoked' = revoked \cup {j}
    /\ UNCHANGED <<requestVars, chargeVars, marker, queued, running, result, everDone, everFailed,
                   saw, troubles>>

\* Days after the submission the marker expires, and the key may be used again,
\* while an old result may still be seen.  It takes a trouble to hold a job, or
\* the request that sends it, back for so long.
MarkerExpires(j) ==
    /\ j \in marker /\ marker' = marker \ {j}
    /\ \/ /\ queued[j] = 0 /\ running[j] = 0
          /\ \A r \in Requests : job[r] = j => at[r] \notin {"send", "unmark"}
          /\ UNCHANGED troubles
       \/ Trouble
    /\ UNCHANGED <<requestVars, chargeVars, taskVars, saw>>

\* Days after the end its result expires, with or without the marker.
ResultExpires(j) ==
    /\ result[j] \in Ended /\ Yields(j, "pending")
    /\ UNCHANGED <<requestVars, chargeVars, marker, queued, running, revoked, everDone, everFailed,
                   saw, troubles>>

-----------------------------------------------------------------------------

RequestStep(r) ==
    \/ \E k \in Kinds, j \in Jobs \cup {NoJob} : Hold(r, k, j)
    \/ Refuse(r) \/ Serve(r) \/ Mark(r) \/ Send(r) \/ SendFails(r) \/ Unmark(r)
    \/ Look(r) \/ Link(r) \/ LinkFails(r) \/ Waited(r) \/ NotWaited(r)
    \/ Answer(r) \/ Dies(r) \/ Sweep(r)

JobStep(j) ==
    \/ Poll(j) \/ Begin(j) \/ Discard(j) \/ End(j) \/ Redeliver(j) \/ Cancel(j)
    \/ MarkerExpires(j) \/ ResultExpires(j)

HookNext ==
    \/ \E r \in Requests : RequestStep(r)
    \/ \E j \in Jobs : JobStep(j)
    \/ \E seen \in saw : PollSettles(seen)

HookSpec == HookInit /\ [][HookNext]_hookVars

\* The loop of the API process sweeps for ever (_billing_reconcile_loop).
HookFairSpec == HookSpec /\ \A r \in Requests : WF_hookVars(Sweep(r))

-----------------------------------------------------------------------------
(* Properties.                                                             *)

\* Nobody pays for nothing: a call or a wait is booked when it answered with
\* its result, a job when it was accepted, a speech when it was made
\* (BillingRoute, get_tts_job).
BookedWorkIsReal ==
    \A r \in Requests : charge[r] = "spent" =>
        CASE kind[r] = "speech" -> linked[r] = job[r] /\ job[r] \in everDone
          [] kind[r] = "wait" -> reply[r] = "ok" /\ job[r] \in everDone
          [] OTHER -> reply[r] = "ok"

\* "Rather keep the quota than give back money that was really spent"
\* (billing_reconcile.py): a linked charge is given back only for a speech that
\* failed, whoever polls, sweeps, repeats the key or dies.
RefundedSpeechFailed ==
    \A r \in Requests :
        charge[r] = "refunded" /\ linked[r] # NoJob => linked[r] \in everFailed

\* An answer and its charge agree once the request is over, except of speeches,
\* whose charge waits for the job (BillingRoute).
AnsweredIsSettled ==
    \A r \in Requests : at[r] = "over" /\ reply[r] # "none" /\ r \notin deferred =>
        charge[r] = IF reply[r] = "ok" THEN "spent" ELSE "refunded"

\* A hold that names no job ends, also when the request died or its link failed
\* after the deferral (reconcile_held).
HoldWithoutJobEnds ==
    \A r \in Requests :
        (at[r] = "over" /\ charge[r] = "held" /\ linked[r] = NoJob) ~> (charge[r] # "held")

\* "The same value submitted again returns the same task, which avoids charging
\* twice" (docs/EXTERNAL_API.md): one speech, one booked charge.
SpeechIsBookedOnce ==
    \A r, q \in Requests :
        r # q /\ charge[r] = "spent" /\ charge[q] = "spent" /\ linked[r] # NoJob
            => linked[r] # linked[q]
=============================================================================
