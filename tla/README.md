# A formal model of the AI Centre control plane

TLA+ modules, TLC runs and TLAPS proofs for the part of this repository that
takes money, runs jobs and limits what runs at once: `control_plane/`. The
modules are translated from the source; file and line of every definition are
in `PROJECT.json` under `map`.

    tlc -workers 2 -config SlotGateStall.cfg MCSlotGate     # one run
    tlapm SlotGate_proofs.tla                               # one module's proofs

## 1. Inventory

Clients call the HTTP API (`api.py`). A call with an API key is priced
(`credit_pricing.py`) and its price is **held** on a ledger (`api_keys.py`,
SQLite). Work that takes long becomes a **job**: a row in a second SQLite
database (`ai_capabilities.py`) and a Celery message in Redis. A worker
(`generation_tasks.py`) first takes a **slot** (`concurrency.py`, Redis), then
tries one **upstream channel** after another until one delivers, copies the
result to OSS and publishes it. Whoever sees that a job has ended **settles** its
charge: the worker's `update_job`, the client's poll, and every ten minutes a
sweep (`billing_reconcile.py`). No transaction spans two of these stores, so
every boundary between them is a place where a process can die, a message be
delivered again, or a value be read before and used after somebody changed it.

| Component | State | Operations | Hard behaviour | What makes it correct |
|---|---|---|---|---|
| Credit ledger `api_keys.py` | keys, limits, charges | create/update/delete key, authenticate_and_consume, hold, link, settle, settle_job, held_charges | concurrent callers of every method, limits and keys changing under held charges, a sliding window | verdicts are final; spend rises only within the limits |
| Generation jobs `generation_jobs.py`, `ai_capabilities.py` | job rows, submit in progress | submit, status, cancel | check-then-insert by idempotency key, crash between any two commits, stale cancel | one job per key, no work without a charge, no charge without a result |
| Generation worker `generation_tasks.py`, `celery_app.py` | position in the task | deliver, run, finish, acknowledge | redelivery, late cancel, raise without a terminal status | what is spent was published |
| Channel failover `generation_tasks.py` | channel, order, submitted flag | skip, POST, poll, deadline, upload, publish | lost replies, empty successes, errors after the money is gone | never two orders that may both deliver |
| Reconciliation `billing_reconcile.py` | a snapshot of held rows | settle ended, refund unlinked | stale snapshot against live submits | every ended or abandoned hold is released |
| Slot gate `concurrency.py` | tickets, expiries, limit | claim, reap, beat, release | single Redis commands that interleave, sudden death, stalls, a moving limit | holders within the limit, dead slots reclaimed |
| Billing route hook `billing_hook.py`, with the `*_jobs.py` clients and `tts/jobs.py` | charge of a request (context variable), markers in Redis, Celery results | hold, settle, defer, link_current; submit, wait, poll, cancel | a handler that fails after deferral, a repeated key, a poll with an old result | nobody pays for nothing, a speech that did not fail is paid, an answer and its charge agree |
| H3 jobs `h3_store.py`, `h3_tasks.py`, `h3_jobs.py`, `h3_scheduler.py` | jobs, attempts, workers; leases in Redis | submit, dispatch, begin/finish attempt, renew, release, cancel, publish | lease expiring under a long render, messages delivered twice, cancel against completion, unconditional status writes | one attempt at work per job, one task per worker, only the newest attempt publishes, every sent job ends |
| H3 pool `h3_pool.py`, `h3_suanli.py` | managed deployments, pool configuration | request, provision, attach, retire, reconcile | decisions on what was read before, crash after a paid create, idle check against assignment, failing stops | one machine started at a time, no closed row for a running machine the code could still stop, machines in service are watched |
| Capability catalogue `ai_capabilities.py` | models, channels, bindings, presets | CRUD, channel_order | none beyond SQLite | candidates in priority order |
| Prices, reports `credit_pricing.py`, `billing_api.py` | rates | quote, reports | rounding | pure functions |
| Runtime settings `runtime_settings.py`, `concurrency_api.py` | a table, a cache per process | update, reset, get_int | a reader caches an old snapshot after an update | stale for at most 2 s |
| GPU control `gpu_control.py` | enabled flags, systemd units | drain, enable | some units fail | flag says what the units do |
| Temporary media `temp_media.py` | file, lease marker, failure marker | allocate, fail, clean up, sweep | sweep by age against live workers | nothing in use is deleted |
| Video upscale `video_upscale_tasks.py` | parts in the work directory, a thread per part, semaphores per API key (which outlive the job) | choose providers, cut, order, poll, retry, merge | short parts and overshooting cuts, all semaphores taken, a part that fails while others work, a second delivery over old files | the film is the source frame by frame, no upload too long, nothing left behind but what a time limit cuts loose |
| Task services (depth, separation, scenes, watermark, colour, review, image upscale) | none of their own | one pipeline per task | the slot gate's | the slot gate's |
| Text, audio, decision generation | job rows as above | subclasses of the job client; sibling worker loops | as generation | as generation |
| Speech synthesis `tts/` | a marker per job, voices, quality store | submit by key, segment, synthesise, retry | a task that runs again, a repeated key | as the billing hook's; the synthesis itself is inside one call |
| Observability, health monitor | call records, probe results | record, probe | none that decides a job | a channel's health flag |
| API, downloads, OSS, provenance, configuration | none | routing and I/O | - | - |
| Inference code, face worker, managed backends, OCR, gateway, admin console, deployment, scripts | not part of the control logic | - | - | - |

`PROJECT.json` repeats this as `components`, with the reason for each part that
is not modelled, and lists under `hazards` the lines where this code can go
wrong in a way a test would hardly reach.

## 2. Modules

    PrepaidOrder       <---implements---  GenerationJobs  ---EXTENDS--->  CreditLedger
                                                |
                        GenerationJobs takes the outcomes of ChannelFailover
                        and enters its work through SlotGate (see "Boundaries")

    FencedPublication  <---implements---  H3Jobs            H3Pool rents the workers of H3Jobs

    BillingHook        the requests that are charged without job rows, and speeches

    VideoUpscale       one of the tasks behind those requests, as one worker process

**`CreditLedger`** - class ApiKeyStore. Each method that writes runs in one
SQLite transaction, so each is one action: `CreateKey`, `UpdateKey`,
`DeleteKey`, `SetPlatformLimits`, `AuthenticateAndConsume`, `Hold`, `Link`,
`Settle`, `SettleJob`. `charges` is table usage_charges by request id. A hold
checks the windows 5h, 24h and total of its key (key row present) and of the
platform, in the code's order. `Counted` is `_sum`: held and spent rows in the
window; a key row that is gone makes hold return without a charge. Time is a
tick counter; the two sliding windows are spans in ticks.

**`PrepaidOrder`** - what a payer is promised: money is held, settled once, and
spent only on something that was delivered.

**`GenerationJobs`** - one submit per request as a chain of separate commits
(`Lookup`, `SubmitHold`, `CreateJob`, `LinkJob`, `SendTask`, and the error
branches), any of which may be the last (`Abandon`); the worker (`Deliver`,
`Generate`, `GotResult`, `Upload`, `Publish`, ...), which may be lost and get its
message again (`WorkerLost`) or raise and leave the row as it is (`TaskRaises`);
polls; a cancel in its three steps (`CancelRead`, `CancelRevoke`,
`CancelWrite`); the sweep (`ReconcileRow`). A status that was read or written
on the way to a settlement is kept in `seen` and may be settled on at any later
time or never: that is how a slow poll, a slow sweep and an
`update_job` whose settlement failed are one action (`SettleSeen`). The sweep works on a
snapshot: a row that names a job is settled by what that job's row says (`SettleEnded`, or
`SettleSeen` later); a row the snapshot shows without a job is remembered in `orphans`
(`ReadOrphan`) and given back by its request id at any later time (`RefundOrphan`), also when a slow
submit has linked it since. Nothing in the code asks again.

**`ChannelFailover`** - `_generate` of one job. `orders` is what the upstreams
really made of each POST, `receipts` what the worker was told: the difference
between the two is the whole point. `submitted`, `index` and
`missing` (missing_result_polls) are the code's variables. `OnError` is the pair
of except branches with `if submitted: break`.

**`SlotGate`** - `job_slot`, `_claim`, `_reap`. One Redis command is one step.
A ticket's number matters only by its order, so `ahead[o]` holds the owners with a
smaller ticket; an expiry score is "live" or "expired".

**`FencedPublication`** - what the attempts of an H3 job promise, without workers
or leases: a token that only grows, one open attempt, and only the open one
publishes.

**`H3Jobs`** - H3JobClient, the task `generate_minimax_h3`, the leases of
H3Scheduler and the tables jobs, attempts and workers of H3Store. A method of
H3Store is one SQLite transaction and one step, a Redis command another. A task
process goes through `Receive`, `CheckCancel`, `Fetch`, `Prepare`, `Pick`
(is_next_dispatch_job), `Scan` (list_schedulable), `TakeLease` (SET NX), `Begin` (begin_attempt,
whose UNIQUE row is `NumberTaken` for the loser), the `Work...` outcomes,
the render, `Complete` (complete_job_if_active), `Release`, and the error branches
up to `NextAttempt`, `GiveUp` and `Fail`. `Expire` is a lease that ran out
because nobody renews it or, with `MayStall`, because a heartbeat missed it; `Lose` and
`DeliverTwice` are a lost process and a message delivered while the first delivery
is still at work. Clients submit (`CreateJob`, `EnqueueFails`, `SubmitDies`), cancel in
up to five commits (`CancelRead` to `CancelRevoke`) and poll (`Settle`). The lease
version, a uuid, is kept as the process that drew it.

**`H3Pool`** - H3PoolManager with the rows managed_deployments and workers and
the provider behind SuanliClient. The loop (`reconcile`) provisions the oldest
requested row, refreshes the provisioning rows, retires those out of order, cleans
up offline workers and decides; administrators request and retire by
the same methods (`Count`, `Insert`; `Look` to `End`). A method of H3Store and a call of the provider
are one step each, and what was read before is used after: `mgr` holds a
process's step, the row at hand, the rows left and the answer. Ages are choices. The provider's answer
may be "odd": a status the code does not know or a missing one, or a Spot job reported complete or failed
by itself. The code then closes the row and stops nothing (`Note`). `lost` names the rows so given up, and those
whose purchase succeeded while its answer (`CreateFails`), the storing of its task id (`StoreFails`) or the
process (`Crash`) was lost: a machine of theirs may run, and nothing in the code will find it.

**`BillingHook`** - the dependency `billable`, BillingRoute and link_current around four kinds
of handler: a call that works while the client waits, a job that is only
sent, a job that is waited for, and a speech named by the caller's
idempotency key. With them the jobs' markers, messages and Celery results (a marker expires from the
submission on, `MarkerExpires`, a result from the end on, `ResultExpires`; either may go first), the
poll that settles a speech (reading and settling are two steps) and the sweep.

**`VideoUpscale`** - `_upscale_video` of one worker process, job after job. `Receive` starts
a job in a new directory or in one a lost process left; `Split` is split_video: ffmpeg
cuts where it likes (`Cuts`), and `Lead`, `Margin`, `TailReal`, `FrameAt` are the frame
accounts of plan_segments and of the slices made by them. `seg` holds the thread of each part
in the executor: it starts (`StartSegment`), takes a slot of a paid account in the code's
order (`PickStart`, `TryKey` key by key, `TakeKey`), orders (`Post...`), polls
(`Poll...`), downloads and checks (`Fetch`), or fails and goes on with the next provider
(`FailAttempt`). Leaving the `with` waits for all threads (`Left`), unless the soft time limit strikes
while it waits (`Abandoned`): then the directory goes, the job is over, and its threads work on. Of these only what the
next job can feel is kept: `stray` counts those on their way to a slot, `lent` the slots they
hold; a stray takes a slot or ends (`StrayTakes`, `StrayEnds`), a lent slot comes back when the polling is
over (`StrayReturns`). An attempt at a paid provider that such a thread begins after the
directory is gone fails when it measures its upload, before it asks for a slot (`video_upscale_tasks.py:233`,
246), and attempts at the usual providers touch nothing that is shared. `free` and
`rotation` belong to the process and survive the job. `adrift` are the parts with a paid order that was given up
while it went on: nothing in the code keeps it. The model lets `Interrupted` and `Abandoned` both happen in any job, where the
one soft limit of a task can be only one of the two (for `Interrupted` there are also failing parts and progress
reports).

**Boundaries.** GenerationJobs sees the channel loop as "a result, a failure or
a cancel seen while polling", and the gate as the right to go on: neither
touches state that the other actors of GenerationJobs read before it ends.
ChannelFailover does the reverse: cancel is one step there, and its three steps are
in GenerationJobs. H3Jobs sees the pool as workers whose health moves at any time, and
H3Pool sees jobs as far as they occupy workers (`BeginJob`, `EndJob`). BillingHook keeps the
charges of its own requests: the limits a hold is checked against are CreditLedger's. VideoUpscale
begins where BillingHook's task of kind "job" begins, in the slot that SlotGate gave it, and
ends where that task ends, well or not.

Mutants are operators beside the definition they mutate, each with a comment
that says which bug it is.

## 3. Runs

| Run | Instance | What it shows |
|---|---|---|
| `ledger` | 1 key, 2 requests, 1 job id, quotes -1 and 2, 3 limit settings, 3 ticks | any caller in any order: a settled charge keeps its verdict, price and payer; the amount that counts in a window, of a key or of the platform, rises only to the limit in force |
| `generation_race` | 2 submits without a key row, 2 idempotency values in header and external_ref | one job per idempotency key however the submits interleave; the loser's hold is given back |
| `generation_life` | 1 request with a key that may be deleted, a quote that fits the platform limit and one that does not, 2 worker losses, 3 ticks | a task is sent only for a charge that names its job; what is spent was published; the sweep releases the hold of a dead submit and of an ended job; the chain implements PrepaidOrder |
| `channel_failover` | 3 channels, the second synchronous, a redelivery, a cancel | a run never leaves an order it has a receipt for while that may deliver; success is a real result of the channel named; every run ends in a terminal status |
| `slot_ordered` | 3 calls, limits 1 and 2 | tickets in order, no stalls: never more holders than the largest limit one of them read, with deaths anywhere but two points |
| `slot_stall` | 2 calls, limits 1 and 2, stalls, tickets in any order | no ticket that nobody can reap; the slot of a dead process is reclaimed |
| `h3_jobs` | 1 job that may be cancelled, 2 workers, 2 processes, 2 attempts, 1 fault, stalls | at most one process at work for a job; jobs, attempts and workers agree; only a filmed job is paid for; H3Jobs implements FencedPublication |
| `h3_queue` | 2 jobs, 1 worker, 2 processes, 1 fault, fair | a worker serves one task at a time; every job that was sent ends for good |
| `h3_pool` | 2 deployments, the loop and an administrator, 1 trouble | one machine is started at a time; a row that was not given up (`lost`) or retired by hand is closed only over a machine that has ended; machines in service have workers |
| `billing_hook` | 2 requests of any kind, 1 speech key, 2 troubles | booked work is real; a speech that did not fail is not given back; answers and charges agree; a hold without a job ends |
| `video_upscale` | 5 frames in 1 to 3 parts, 2 threads, 1 usual and 1 paid provider, 2 accounts with 1 slot, 2 attempts, up to 2 threads of abandoned jobs, fair | the published film is the source frame by frame; uploads fit; a job that is over leaves no thread at work and no slot taken but those a soft time limit cut loose; every job ends |
| `speech_booked_twice` | 2 requests, 1 speech key | **violated**: a repeated submit is not charged twice |

### Bounds and why they are enough

- *Ledger.* Two charges are what it takes for one to shut the other out; quote 2
  against limits 1, 2 and 3 gives "fits", "fits once" and "never fits"; -1 is the negative
  quote that `max(..., 0)` clamps. Three ticks with windows of one and two let
  a charge leave the first window and stay in the second. Limits are set as whole
  triples, from three choices.
- *Race.* Two submits are the smallest race. `MCOneLifeAtATime` lets only one of
  the two jobs have a worker or a cancel at a time: lives of different jobs share
  nothing but the ledger, whose races are the `ledger` run's. `Keys = {}` means
  internal callers (owner NoKey), whose keys cannot be deleted; the key
  that vanishes is in `generation_life`.
- *Life.* `MaxCrashes = 2` allows a redelivery after a redelivery. `Early` keeps
  the last tick for the sweep: a hold made later could never grow stale within
  `MaxTime`, and nothing would be said of it. Idempotency keys are left out here,
  as a lone request has nobody to collide with.
- *Channels.* Three channels give a first, a middle and a last; the synchronous one
  is between two polled ones, so the loop both enters and leaves it. `MaxRuns = 2`:
  one redelivery, which can happen anywhere, after the end too.
- *Gate.* Three calls with limits up to 2 in the ordered run; with stalls or
  crossing tickets two calls are enough to lose or orphan one. `CrashPoints` leave
  out the two places where a ticket exists and the command that makes it reapable is
  still to come; section 5 says what a death there does.
- *H3.* Two processes are two deliveries of one message, or a delivery after a lost
  one; two attempts are a first and a last; two workers let an attempt fail over. One
  fault, because a second one repeats the first in a state the first has reached: the
  theorems of H3Jobs_proofs hold for any number. The queue run has two jobs so that one
  is ahead of the other, and one attempt so that the temporal check stays
  small; `WithReferences = {1}` gives the job ahead the download before its turn.
- *Pool.* Two deployments are one machine on its way and one more; `MinWorkers = 0` makes
  the reserve 1, `MaxWorkers = 2` binds. One trouble is a crash, a failing call, an odd answer, or a request of
  an administrator. With two administrators and two troubles the maximum is exceeded by
  one (section 5), which no property denies. `Forget` lets ids be used again, so that
  the loop runs for ever in a finite space (6.4 million states under symmetry).
- *Hook.* Two requests are the smallest number that can share a key; two
  troubles allow a failing link and then a death, or a retried task and a lost marker.
- *Upscaling.* Five frames allow a cut whose middle part (one frame) is shorter than the
  two frames of context and the three of margin around it, a cut exactly as asked, and a film of one part that
  overshoots to the limit. Two threads for two slots are enough for one to block, since a slot may be lent to
  an abandoned job; three parts for two threads leave one in the queue; two attempts are a first and a last. `MaxStrays = 2`
  lets both slots be lent, so that the next job finds none; it is the only bound on what
  counts without end, since the threads of one abandoned job after the other could add up. Deadlock is
  checked.
- `CHECK_DEADLOCK FALSE` where the system may stop: all jobs over, all calls over,
  clock at its bound. The ledger run checks deadlock as well.

### Fairness

Only what the code schedules is fair. `GenFairness`: time passes, and
`_billing_reconcile_loop` (api.py) sweeps every ten minutes: for each charge `SettleEnded`, `ReadOrphan`, and
`RefundOrphan` as long as the charge is still without a job. A sweep that dies with an old snapshot gives
nothing back, so a refund of what has been linked since may happen and need not. No worker, client or cancel
has to act. `Fairness` of ChannelFailover: the worker runs; a POST and
an upload end by their HTTP timeouts and a polling loop by its deadline
(`PollEnds` contains `Deadline`). No upstream has to accept, work or answer.
`Fairness` of SlotGate: a process that claims goes on with its commands, and the
expiry of a call that is over passes. Nobody has to give up, and a holder may
hold for ever: `DeadSlotIsReclaimed` therefore asks for a reclaim only as
long as some call still claims. `H3Fairness`: every wait of the task has a timeout, so
a process that has a message goes on; Celery takes every message in the end (strongly
fair, because processes are busy in between and a message may go back to the queue);
and a job that is never done is seven days old some day (`TooLate`). No worker has to be
healthy and no attempt has to succeed. `HookFairSpec`: the sweep loop runs.
`UpscaleFairness`: every request and every ffmpeg call has a timeout and polling a deadline, so the
task and each of its threads go on; no provider has to accept or to finish anything, and a thread that
waits for a slot gets it only when another gives one back, an abandoned one too (`StrayReturns`: its polling
has a deadline). H3Pool has no
liveness property: whether a machine ever serves is up to the provider.

## 4. Findings

**A speech booked twice** (`api.py:4754`, run `speech_booked_twice`, whose counterexample can be
followed in the source). A repeated submit holds its own charge before the handler knows it for a
duplicate, `link_current` links it to the first one's job, and `settle_job` books every charge
of that job. `docs/EXTERNAL_API.md:396` promises the opposite.

## 5. Known counterexamples

Nine more statements of the repository fail. They are kept as definitions, and none of
the runs above relies on them; each is shown by a cfg that asks for nothing
else, with the constants given here.

| Statement | Where it fails | Instance |
|---|---|---|
| `NoPublishAfterCancel` (GenerationJobs) | `generation_tasks.py:818`: the last look at the status is before the copy to OSS, the write of `succeeded` after it and unconditional; line 857 likewise sets a cancelled queued job running | GenerationLife.cfg, as PROPERTY |
| `PublishedIsNotRefunded` (GenerationJobs) | `generation_jobs.py:94`: cancel decides on the status it read before the revoke, which does not stop a worker that has started: the row says `cancelled`, the hold is refunded, the worker publishes | GenerationLife.cfg, as INVARIANT |
| `EndedTaskReleasesHold` (GenerationJobs) | `generation_jobs.py:97`: `cancel_requested` over a terminal status, or a task that raises outside the loop's handlers: the row is not terminal, nobody works on it, neither poll nor sweep touches the hold | GenerationLife.cfg, as PROPERTY |
| `SweepKeepsLinkedHolds` (GenerationJobs) | `billing_reconcile.py:53`: a submit that pauses between hold and link for longer than the six hours of a stale hold is in the snapshot (line 46) without a job; it links and sends, the sweep gives the charge back by its request id, and the job works unpaid. The docstring (`billing_reconcile.py:37-38`) says that it is better to keep the quota occupied than to give back money that was really spent | `GenSpec`, constants of GenerationLife.cfg, as PROPERTY |
| `HoldersWithinLimit` (SlotGate) without ordered tickets | `concurrency.py:332`: INCR and ZADD are two commands; the call with ticket 2 adds, ranks 0 and enters, then the call with ticket 1 does | `Spec`, 2 calls, limit 1, `CrashPoints <- MCNone`, no stalls |
| `DeadSlotIsReclaimed` (SlotGate) for any death | `concurrency.py:333`: death between the ZADD of the ticket and that of the expiry; `_reap` starts from expiries and never finds it | `FairSpec`, 2 calls, limit 1, `CrashPoints <- MCAnyCrash` |
| `NoSecondOrder` (ChannelFailover) | `generation_tasks.py:968`: a POST that times out raises before `submitted` is set; the upstream may have taken the order, and the next channel gets it too | ChannelFailover.cfg, as INVARIANT |
| `CancelledJobEnds` (H3Jobs) | `h3_tasks.py:317`: a cancel after the last `_check_cancel`, while the film is rendered, merged or uploaded, writes `cancel_requested`; `complete_job_if_active` then refuses and the task returns: no terminal status (`docs/api-docs.md` has clients poll for one), the attempt running, the worker busy, the hold unsettled | `H3FairSpec`, 1 job that is billed and may be cancelled, 1 worker, 1 process, 2 attempts, no faults, no stalls, as PROPERTY |
| `NoResubmission` (VideoUpscale) | `video_upscale_tasks.py:277`, `:290`: a query that fails or a deadline raises out of the attempt while its paid order goes on; line 682 catches it and the next attempt orders again. `docs/api-docs.md:1290` and the comment at line 43 say that this is excluded | VideoUpscale.cfg, as INVARIANT |

### Known divergences

Seen while modelling and stated by no property, since the code does consistently what it
does:

- A job without a row is booked when it is accepted (`api.py:2185`); if it fails later, nothing
  gives the money back. `billing_hook.py:4-5` and `api_keys.py:336` read as if it were.
- A crash between buying a machine and storing its task id leaks the machine: the code keeps
  nothing that could find it (`h3_pool.py:167`; in H3Pool, `Create` then `Crash`). So does a failing store of the
  task id (`h3_pool.py:173-177`): the row is closed as failed and keeps no task id (`StoreFails`).
- A status that is none of Pending, Running and End, a missing one included (`h3_pool.py:185`, 206-208), and
  a Spot job that is Complete or Failed (188-194) close the row for good, and the machine is not stopped. If it
  goes on, it is paid for and nobody looks (the answer "odd" in H3Pool).
- Two administrators that count before either inserts exceed `max_workers` by one (`h3_pool.py:108`).
- A retirement whose stop fails leaves the row active and its worker disabled (`ShutFails`).
- An H3 job whose message never reached the broker stays first in the queue until it is cancelled
  (`SubmitDies`): hence `SentJobEnds` speaks of jobs that were sent.
- The semaphores of the paid accounts are per process (`video_upscale_tasks.py:121`), while a worker runs
  several: together they pass the limit of an account, whose 429 is then retried.
- The paid provider is used for `auto` when the size is beyond the others (`video_upscale_tasks.py:620`);
  `docs/api-docs.md` says it has to be named.
- Frozen frames fill up the margin of any part whose successor is shorter than it, not only of the last
  as line 405 says (`FrameAt`).
- A result that is denser than the source and covers too little of it passes the check of its
  part, which counts frames before `fps=`, and fails the merge, with attempts left
  (`Accepted` against `KeptOf`).
- After a part has failed, the parts that are still queued are run, and paid for, before the
  job fails (`Left`). If that outlasts the soft time limit (`video_upscale_tasks.py:793`), the exception leaves
  `executor.__exit__` (847-857), the directory is removed under the threads (889-890) and the task is over, while
  threads still poll and hold slots of the process, for which the next job then waits (`Abandoned`).
- A speech key that is used again after its marker has expired, while the result of its first run is
  still there (the marker's time runs from the submission, `tts/jobs.py:42`, the result's from the end,
  `celery_app.py:35`), makes a second speech under the same id; its charge may be settled by the first run's
  verdict, before the second has begun. `BookedWorkIsReal` and `RefundedSpeechFailed` speak of the ends a job
  ever had and do not tell the runs of one key apart.
- A repeated speech key that arrives while the first send fails is answered with a job nobody
  will make, and its hold stays linked (`tts/jobs.py:59`).

## 6. Proofs

All hold for any values of the constants that satisfy the modules' named
assumptions (finite sets of calls, `JobIds = Requests`, natural-number bounds, null
values outside their types).

- **Ledger** (`CreditLedger_proofs`): `LedgerTypes`, `LedgerSettledIsFinal`. One lemma
  (`SettleHeldShape`) says what settling can touch: the state of held rows and nothing
  else; hold needs a fresh request id, link leaves state, amount and key alone.
  `LedgerRespectsLimits` is about sums. The prover has no induction over data, so the lemmas on
  sums over finite sets (a smaller set or smaller amounts do not sum to more, one more element adds its
  amount) come from a smallest counterexample. `LedgerInv` adds to the types that the charges on the
  books are finitely many (`Booked`); then no action but `Hold` makes any sum larger, whatever
  moves the clock, the limits or the keys, and `Hold` has just checked the sum it makes.
- **Gate** (`SlotGate_proofs`): `GateIsNeverOverfull` for `OrderedSpec` with
  `MayStall = FALSE`. "holders <= limit" is not inductive: it says nothing of the call that
  has just ranked. `GateInv` adds that tickets are totally and strictly ordered, that
  only calls that are over are ever reaped, that a claim and a holder
  keep their ticket, and that each holder's rank is below its limit (`Ranked`). Of the holders, the one
  ranked last has all others ahead of it, which bounds their number (by
  finite sets and a largest element). `Ranked` survives a new ticket only because
  of `InOrder`, which the code does not keep (section 5). `NoTicketIsLost` needs
  neither order nor the absence of stalls, only that nobody dies at the two points:
  `ReapInv` says where a call has no ticket, and that a ticket elsewhere has
  an expiry entry or a reaper that has just removed it.
- **Jobs** (`GenerationJobs_proofs`): `GenTypes`, `SpentMeansPublished`,
  `WorkIsAlwaysCharged`, `DuplicatesAreFree`, `OneJobPerKey`, `ChainIsPrepaidOrder`.
  `GenInv` says per request what a commit leaves for the next: a
  charge never names another job, before the send there is no task, before
  the row there is nothing to read, from the link on the charge names the job, and
  "succeeded" is written or remembered only for what was published. The ledger's
  theorems are used through `LedgerAllowsIt`: every step of the chain is a ledger step.
  The refinement maps `money` to the charge's state and `delivered` to
  the published jobs; each action is matched with one of PrepaidOrder or a stutter.
  Since the chain takes ledger steps only and keeps `LedgerInv`, `ChainRespectsLimits` and
  `ChainSettlesOnce` carry the ledger's two action properties over to it. `HoldsEndByVerdict`
  needs `VerdictInv`: an end in a job's row is among the ends somebody may settle on (`seen`), and so is
  the failure a submit writes before it gives back the money of an unsent task. A status may be old when
  it settles; it is still of an end the job had. The exception is stated with it: a hold that
  a sweep read without a job before it was linked (`orphans`) may be given back whatever its job
  does (section 5). `WorkIsCharged`, `UnlinkedHoldIsRefunded` and `EndedJobIsSettled` say that such a charge
  names its job and is settled at last, not by which verdict.
- **Channels** (`ChannelFailover_proofs`): `LoopTypes`, `KnownOrdersAreOne`,
  `SuccessHasResult`. `LoopInv`: an order of this run with a receipt that was left
  behind is dead; the flag `submitted` is set exactly where an order is followed; what
  is being stored was delivered by the channel at hand.
  `RunsAdvance` and `EndedIsTerminal` are the safety half of `GenerationEnds`: every step of a run increases
  `Progress` (channel, then place in its loop, then questions for a missing URL), which has a bound, and a
  run that is over has left a terminal status. That it does take its steps is the fairness TLC assumes.

- **H3 jobs** (`H3Jobs_proofs`): `H3Types`, `OneAttempt`, `HolderIsBusy`, `PaidHasFilm`,
  `ExclusiveWorkers`, `PublicationIsFenced`, for any jobs, workers, processes, attempts and faults.
  "One process at work per job" says nothing of processes that are about to begin,
  and two deliveries may both be. `AttemptInv` therefore follows a process through its attempt:
  before it begins, its number is at most the next one, and if it is the next one and
  the dispatch check is passed, the job is on no worker; at work its number is
  the job's and the row is its own; the numbers of a job have no gaps, and only the
  newest runs. Two processes with the next number race for one UNIQUE insert; the
  loser's number is too old for good. That also gives the refinement: the token is the attempt
  count, open are the jobs with a running row. `ExclusiveWorkers` adds `LeaseKept`, the
  lease from its acquisition to the end of the generation, and needs `MayStall = FALSE`.
  `NoJobIsLost` is the safety half of `SentJobEnds`: once a job's message is sent, as long as
  the job waits it has a message in the broker or a process that has yet to look at it (a job that is revoked
  may lose both; its cancel writes the end). `NewerFilmWins` follows from the fence: if the release
  of a worker fails after the publication, the attempt counts as failed and the job is filmed again;
  then the newer attempt's film takes the older one's place, never the reverse.
- **Pool** (`H3Pool_proofs`): `PoolTypes`, `ClosedMachinesEnd`, `ActiveMachinesWatched`,
  `OneStart`, for any finite set of deployments, any administrators, limits and
  troubles. `PoolInv` says what the loop knows of the row at hand from
  step to step (`Knowing`: an answer "ended" is still true when it is
  written, a machine being closed was stopped; what an odd answer or a lost purchase closes is in `lost`, and
  `ClosedMachinesEnd` speaks of the other rows), what a row says of its machine and
  worker (`Linking`), and that administrators only touch what they disown (`Asking`). For the
  reserve, `Coming` are the loop's rows that are on their way or in hand to be refreshed: they
  are among those it counts as warming when it decides, so it asks for one more only while there
  are fewer than the reserve, and between decision and insertion nobody else adds to them.
  `PoolWithinMaximum`: the check of the maximum and the insertion are two transactions, so the maximum can be
  passed. `Bounded` says by how much: the counted rows, and one for each of those who are past the check
  and have yet to insert, exceed it by at most the number of administrators, each of whom can be past the
  check once at a time. On a small instance TLC reaches the bound.
- **Hook** (`BillingHook_proofs`): `HookTypes`, `BookedIsReal`, `RefundIsOfFailure`,
  `AnswersAreSettled`, for any requests, keys and troubles. `HookInv` says what has become
  of the charge at each place of a request (`Charging`), that only speeches are
  deferred and linked, to the job they sent (`Linking`), and that a verdict on
  its way from a poll to the ledger is true of the job, which may have run
  again since (`TrueEnds`).
  `SpeechIsWorkedOnOnce` counts: what of a speech is at the broker, at work, or with a request that has set
  the marker and not sent yet, is at most one and one more for each trouble (a command that failed, a
  process or a task that was lost, a marker that expired before its speech had ended), although markers expire and a request may take away one it did not
  set. On a small instance TLC reaches the bound.
- **Upscaling** (`VideoUpscale_proofs`): `UpscaleTypes`, `FilmIsWhole`, `UploadsAlwaysFit`,
  `QuietAtTheEnd`, `AccountsWithinLimit`, for any film, cuts, providers, threads, accounts and attempts that
  satisfy `FramesAssumption`, `CutsAssumption` (a cut covers the film and overshoots by no more than
  the margin) and `LimitsAssumption`. "Every slot that is not lent is free when the job is over" says nothing of the
  time before: `UpscaleInv` adds that for each account the free slots, the threads that
  have its key and the slots lent to threads of abandoned jobs make up its limit (`Balanced`), which threads have a key (`KeysInUse`), and
  that threads are at work only while the executor is open (`Placed`). What a film shows is a
  lemma about frame accounts: the frames kept of an upload are its part
  (`MiddleIsThePart`), whatever is frozen or borrowed around them. `Balanced` also gives
  `AccountsWithinLimit`: the orders that the threads of a process, abandoned ones included, have in hand with one account never exceed its slots.
  `NobodyWaitsInACircle` and `ThreadsOnlyAdvance` are the safety half of `UpscaleEnds`. A thread that waits holds
  no slot, so the account it waits for has one free, a holder at work, or one lent, and the part first in the queue
  waits only for a full pool; so some step is always open. And every step takes
  its thread further in the order of attempts, keys and places, so no thread can go on without end.

Model-checked only: the liveness properties (`UnlinkedHoldIsRefunded`,
`EndedJobIsSettled`, `GenerationEnds`, `DeadSlotIsReclaimed`, `SentJobEnds`,
`HoldWithoutJobEnds`, `UpscaleEnds`): that something happens at last rests on fairness, which
is outside the prover's reach. What they need of safety is proved for four of them: `RunsAdvance` and
`EndedIsTerminal` for `GenerationEnds`, `NoJobIsLost` for `SentJobEnds`, `NobodyWaitsInACircle` and
`ThreadsOnlyAdvance` for `UpscaleEnds`, and `NoTicketIsLost` for `DeadSlotIsReclaimed`.

## 7. Assumptions and what is left out

- An upstream that reports success without a URL has none; asking again, as the
  worker does three times, is modelled, an URL that turns up in between is not.
- An order is accepted while its POST is under way. One that is accepted after the worker
  has gone on would break `NoSecondOrder` once more (section 5) and nothing else.
- In GenerationJobs and ChannelFailover a message is delivered again after its worker was
  lost; in H3Jobs and BillingHook also while the first delivery is at work.
- Cancelling an H3 job that has succeeded may set it to cancelled (`update_job` writes any
  status); its film stays, which is why `SpentHasResult` speaks of the film.
- In H3Jobs jobs are numbered in the order of the queue; stages, progress and timings
  decide nothing and are left out.
- Fallible I/O inside a handler is an outcome (`TaskRaises`, `Abandon`, `LinkFails`,
  `SendFails`), not a model of the network.
- Prices, names, requests, responses and results are sets of a few values; request
  building and the formats of some twenty adapters decide only what `PostAnswered`, `PollResult`
  and their siblings say.
- ffmpeg cuts by frame number and with the frame rate pinned, as the code's own checks of the slices demand;
  what it makes of a rate that is not, sound, and the geometry of the result are left out of VideoUpscale.
- touch and set_charge_model write columns no decision reads; the schema migration
  is not modelled.

## 8. Not modelled

| Part | Why |
|---|---|
| Capability catalogue, prices, reports | CRUD with foreign keys, arithmetic and SQL over the ledger: one transaction each, read by the job chain as a choice of channels or an amount |
| Runtime settings | A snapshot of 2 s per process. `SetLimit` moves the limit between any two reads, which is all that snapshots of different ages can do to the gate |
| GPU control | One administrator's loop over systemctl; the state is systemd's and no second actor is in the code |
| Temporary media | A sweep by age: a day against tasks of hours. The ages that decide leave the interleavings nothing to break |
| Task services other than video upscaling | One process that calls a model or ffmpeg, one step after another. Their job clients are in BillingHook, their concurrency is the gate's |
| Text, audio, decision generation | Subclasses of the client, and sibling loops of `generation_tasks.py`; what differs is request and response formats |
| Speech synthesis within a call, managed backends, inference code, face worker, OCR | Signal processing and calls of third-party models, one request at a time |
| H3 ComfyUI client | A client of an external service; its outcomes are `Work...` in H3Jobs |
| H3 pool incidents, alerts, worker rows edited by hand | An incident only forbids a new machine for a while (a choice in `Decide` and `Count`); alerts and metrics change nothing; edits of worker rows are outside the pool's methods |
| Observability, health monitor | Records and probes for operators; the channel health flag they set is a choice in ChannelFailover |
| HTTP API, downloads, OSS, provenance, configuration, gateway, admin console, deployment, scripts | Routing, I/O and configuration. What of `api.py` decides a charge is in BillingHook and GenerationJobs |
