--------------------------- MODULE ChannelFailover ---------------------------
(***************************************************************************)
(* One generation job on its way through the upstream channels:            *)
(* _generate of control_plane/generation_tasks.py, the loop that           *)
(* GenerationJobs reduces to its outcomes.                                 *)
(*                                                                         *)
(* Channels are the positions 1..N of the candidate order.  A run is one   *)
(* delivery of the Celery message; an order is what an upstream makes of   *)
(* one POST, whether or not its reply reaches the worker.  Every order     *)
(* that is not dead costs money.                                           *)
(*                                                                         *)
(* An upstream that reports success without a result URL is taken to have  *)
(* none ("empty").  A poll that learns nothing (a retryable status, a      *)
(* network error, an order still in work) changes nothing and is no step.  *)
(***************************************************************************)
EXTENDS Integers

CONSTANTS
    N,        \* number of candidate channels
    Sync,     \* channels whose reply carries the result itself
    MaxRuns   \* bound on deliveries of the message

ASSUME ChannelsAssumption == N \in Nat /\ Sync \subseteq 1..N
ASSUME RunsAssumption == MaxRuns \in Nat \ {0}

VARIABLES
    run,       \* the delivery at work
    pc,        \* where _generate is
    index,     \* position in the candidate order
    submitted, \* the flag of that name: the upstream has taken the order
    missing,   \* missing_result_polls
    status,    \* the job's status
    orders,    \* what the upstreams made of each POST
    receipts   \* orders whose acceptance the worker was told of

vars == <<run, pc, index, submitted, missing, status, orders, receipts>>

OrderIds == (1..MaxRuns) \X (1..N)
OrderStates == {"none", "working", "finished", "empty", "failed"}
Terminal == {"succeeded", "failed", "cancelled"}
Pcs == {"delivered", "choosing", "posting", "polling", "finishing", "uploading", "ended"}

TypeOK ==
    /\ run \in 1..MaxRuns
    /\ pc \in Pcs
    /\ index \in 1..(N + 1)
    /\ submitted \in BOOLEAN
    /\ missing \in 0..2
    /\ status \in {"queued", "running", "cancel_requested"} \cup Terminal
    /\ orders \in [OrderIds -> OrderStates]
    /\ receipts \in SUBSET OrderIds

Init ==
    /\ run = 1 /\ pc = "delivered" /\ index = 1
    /\ submitted = FALSE /\ missing = 0
    /\ status = "queued"
    /\ orders = [o \in OrderIds |-> "none"]
    /\ receipts = {}

Current == <<run, index>>

-----------------------------------------------------------------------------
(* Ways to go on.                                                          *)

\* The except branches that continue the loop.
NextChannel == pc' = "choosing" /\ index' = index + 1

\* The job is failed after the loop.
GiveUp == pc' = "ended" /\ status' = "failed" /\ UNCHANGED index

\* Mutant of OnError: `if submitted: break` dropped.
OnErrorContinues == NextChannel /\ UNCHANGED status

\* An exception that is not the upstream's own verdict: if submitted: break.
OnError ==
    \/ submitted' /\ GiveUp
    \/ ~submitted' /\ NextChannel /\ UNCHANGED status

Start ==
    /\ pc = "delivered"
    /\ pc' = "choosing" /\ index' = 1 /\ status' = "running"
    /\ UNCHANGED <<run, submitted, missing, orders, receipts>>

\* No binding, disabled, not online, or it cannot do what is asked.
Skip ==
    /\ pc = "choosing" /\ index <= N
    /\ NextChannel
    /\ UNCHANGED <<run, submitted, missing, status, orders, receipts>>

Post ==
    /\ pc = "choosing" /\ index <= N
    /\ pc' = "posting" /\ submitted' = FALSE /\ missing' = 0
    /\ UNCHANGED <<run, index, status, orders, receipts>>

Exhausted ==
    /\ pc = "choosing" /\ index = N + 1
    /\ pc' = "ended" /\ status' = "failed"
    /\ UNCHANGED <<run, index, submitted, missing, orders, receipts>>

-----------------------------------------------------------------------------
(* The POST and its reply.                                                 *)

UpstreamAccepts ==
    /\ pc = "posting" /\ orders[Current] = "none"
    /\ orders' = [orders EXCEPT ![Current] = "working"]
    /\ UNCHANGED <<run, pc, index, submitted, missing, status, receipts>>

UpstreamEnds(o) ==
    /\ orders[o] = "working"
    /\ \E end \in {"finished", "empty", "failed"} : orders' = [orders EXCEPT ![o] = end]
    /\ UNCHANGED <<run, pc, index, submitted, missing, status, receipts>>

\* A timeout, a broken connection, HTTP >= 400, a body that is no JSON, says no
\* or names no task: all come before submitted is set.
PostFails ==
    /\ pc = "posting"
    /\ UNCHANGED <<run, submitted, missing, orders, receipts>>
    /\ OnError

\* The reply names a task, and may already tell how it ended.
PostAnswered ==
    /\ pc = "posting" /\ index \notin Sync /\ orders[Current] # "none"
    /\ submitted' = TRUE
    /\ receipts' = receipts \cup {Current}
    /\ \/ orders[Current] = "failed" /\ NextChannel
       \/ orders[Current] = "finished" /\ pc' = "finishing" /\ UNCHANGED index
       \/ pc' = "polling" /\ UNCHANGED index
    /\ UNCHANGED <<run, missing, status, orders>>

\* The reply is the result.  _sync_image_results may find nothing in it, or
\* fail to store it: then the money is gone and no other channel is tried.
SyncAnswered ==
    /\ pc = "posting" /\ index \in Sync /\ orders[Current] \in {"finished", "empty"}
    /\ submitted' = TRUE
    /\ receipts' = receipts \cup {Current}
    /\ \/ orders[Current] = "finished" /\ pc' = "finishing" /\ UNCHANGED <<index, status>>
       \/ OnError
    /\ UNCHANGED <<run, missing, orders>>

-----------------------------------------------------------------------------
(* The polling loop.  Each round looks for a cancel first.                 *)

CancelSeen == status \in {"cancel_requested", "cancelled"}

Polling == pc = "polling" /\ ~CancelSeen

\* The cancel check of the loop, and that of _finish_success.
StopCancelled ==
    /\ pc \in {"polling", "finishing"} /\ CancelSeen
    /\ pc' = "ended" /\ status' = "cancelled"
    /\ UNCHANGED <<run, index, submitted, missing, orders, receipts>>

\* Mutant of PollResult: a success without a URL is a result.
PollResultAny ==
    /\ Polling /\ orders[Current] \in {"finished", "empty"}
    /\ pc' = "finishing"
    /\ UNCHANGED <<run, index, submitted, missing, status, orders, receipts>>

PollResult ==
    /\ Polling /\ orders[Current] = "finished"
    /\ pc' = "finishing"
    /\ UNCHANGED <<run, index, submitted, missing, status, orders, receipts>>

\* Mutant of PollMissing: ask for the URL for ever.
PollMissingAgain ==
    /\ Polling /\ orders[Current] = "empty"
    /\ missing' = missing + 1
    /\ UNCHANGED <<run, pc, index, submitted, status, orders, receipts>>

\* Success without a URL, the third time: UpstreamTerminalError.
PollMissing ==
    /\ Polling /\ orders[Current] = "empty"
    /\ \/ missing < 2 /\ missing' = missing + 1 /\ UNCHANGED <<pc, index>>
       \/ missing = 2 /\ NextChannel /\ UNCHANGED missing
    /\ UNCHANGED <<run, submitted, status, orders, receipts>>

\* UpstreamTerminalError: no result will come, so the next channel may try.
PollFailed ==
    /\ Polling /\ orders[Current] = "failed"
    /\ NextChannel
    /\ UNCHANGED <<run, submitted, missing, status, orders, receipts>>

\* A status that is not retryable, or a body that is no JSON.
PollBroken ==
    /\ Polling
    /\ UNCHANGED <<run, submitted, missing, orders, receipts>>
    /\ OnError

\* Mutant of Deadline: while True.
DeadlineNever == FALSE /\ UNCHANGED vars

\* The channel's timeout_seconds have passed: TimeoutError.
Deadline ==
    /\ pc = "polling"
    /\ UNCHANGED <<run, submitted, missing, orders, receipts>>
    /\ OnError

-----------------------------------------------------------------------------
(* _finish_success.                                                        *)

Upload ==
    /\ pc = "finishing" /\ ~CancelSeen
    /\ pc' = "uploading"
    /\ UNCHANGED <<run, index, submitted, missing, status, orders, receipts>>

Publish ==
    /\ pc = "uploading"
    /\ pc' = "ended" /\ status' = "succeeded"
    /\ UNCHANGED <<run, index, submitted, missing, orders, receipts>>

UploadFails ==
    /\ pc = "uploading"
    /\ UNCHANGED <<run, submitted, missing, orders, receipts>>
    /\ OnError

-----------------------------------------------------------------------------
(* The client and the broker.                                              *)

\* GenerationJobClient.cancel, its read and its write together.
Cancel ==
    /\ status \in {"queued", "running", "cancel_requested"}
    /\ status' = IF status = "queued" THEN "cancelled" ELSE "cancel_requested"
    /\ UNCHANGED <<run, pc, index, submitted, missing, orders, receipts>>

\* The worker is lost before the message is acknowledged: the next delivery
\* starts _generate from the top, with nothing remembered.
Redeliver ==
    /\ run < MaxRuns
    /\ run' = run + 1
    /\ pc' = "delivered" /\ index' = 1 /\ submitted' = FALSE /\ missing' = 0
    /\ UNCHANGED <<status, orders, receipts>>

-----------------------------------------------------------------------------

Choose == Skip \/ Post \/ Exhausted
PostEnds == PostFails \/ PostAnswered \/ SyncAnswered
PollEnds == StopCancelled \/ PollResult \/ PollMissing \/ PollFailed \/ Deadline
FinishEnds == StopCancelled \/ Upload \/ Publish \/ UploadFails

WorkerStep == Start \/ Choose \/ PostEnds \/ PollEnds \/ PollBroken \/ FinishEnds

Next ==
    \/ WorkerStep
    \/ UpstreamAccepts \/ \E o \in OrderIds : UpstreamEnds(o)
    \/ Cancel \/ Redeliver

Spec == Init /\ [][Next]_vars

\* The worker runs; a POST and an upload end by their timeouts, the polling by
\* its deadline.  Nothing makes an upstream accept, work or answer well.
Fairness ==
    /\ WF_vars(Start) /\ WF_vars(Choose) /\ WF_vars(PostEnds)
    /\ WF_vars(PollEnds) /\ WF_vars(FinishEnds)

FairSpec == Spec /\ Fairness

-----------------------------------------------------------------------------
(* Properties.                                                             *)

Alive(o) == orders[o] \in {"working", "finished"}

\* "Once the upstream has taken the order no other channel is tried"
\* (docs/EXTERNAL_API.md:745): of the orders one run has a receipt for, at most
\* one can still deliver, whatever failed after it was taken.
OneKnownLiveOrder ==
    \A c, d \in 1..N :
        LET known == {<<run, c>>, <<run, d>>}
        IN  known \subseteq receipts /\ (\A o \in known : Alive(o)) => c = d

\* A job that ended well has a result of the channel it names: neither an
\* empty success nor a channel left behind is passed off as one.
SuccessIsReal ==
    pc = "ended" /\ status = "succeeded" =>
        index <= N /\ Current \in receipts /\ orders[Current] = "finished"

\* However the upstreams behave, a run that goes on is over in the end and leaves
\* the job in a terminal state: it follows a channel to its deadline, asks for a
\* missing URL three times, and tries each channel once.
GenerationEnds == <>[](pc = "ended" /\ status \in Terminal)

\* "Timeouts and failed copies never generate again, to avoid two finished
\* films and double cost" (docs/api-docs.md:791): no second order while
\* one may still deliver.
NoSecondOrder ==
    \A o, p \in OrderIds : Alive(o) /\ Alive(p) => o = p
=============================================================================
