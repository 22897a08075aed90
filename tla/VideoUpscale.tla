--------------------------- MODULE VideoUpscale ----------------------------
(***************************************************************************)
(* The worker process behind video upscaling:                              *)
(* control_plane/video_upscale_tasks.py.                                   *)
(*                                                                         *)
(* A job cuts its film into parts, gives each part some frames of context  *)
(* before and behind it, has a pool of threads send the parts to upstream  *)
(* providers, and joins the middles of what comes back.  Frames are the    *)
(* numbers 0..SourceFrames-1 of the source; a frozen frame repeats a       *)
(* number.  The paid providers (Yotta) accept so many orders per account:  *)
(* the process keeps a semaphore for each key, and it keeps it from one    *)
(* job to the next.  One process works on one job at a time.  A job that   *)
(* runs into its soft time limit while it waits for its threads leaves     *)
(* them behind; they hold, and may still take, slots the next job needs.   *)
(*                                                                         *)
(* A reply of 429 and a poll that finds the order in work change nothing   *)
(* and are no steps.  Where ffmpeg cuts is a choice from Cuts.             *)
(***************************************************************************)
EXTENDS Integers, Sequences, FiniteSets, Functions

CONSTANTS
    SourceFrames,  \* frames of the source
    Cuts,          \* where a source may be cut: <<0, ..., SourceFrames>>
    MaxParts,      \* bound on the parts of a cut
    Ceiling,       \* ceiling_frames: what a provider takes in one upload
    HeadContext,   \* video_upscale_head_context_frames
    TailMargin,    \* video_upscale_tail_margin_frames
    Regular,       \* the list PROVIDERS
    Paid,          \* the list YOTTA_PROVIDERS
    Configured,    \* video_upscale_auto_provider_order
    MaxEdge,       \* _max_output_edge
    Requests,      \* [provider, edge]: what clients ask for
    MaxAttempts,   \* video_upscale_segment_attempts
    Width,         \* segment_limit("video_upscale")
    NumKeys,       \* keys in YOTTA_UPSCALE_API_KEYS
    PerKey,        \* yotta_upscale_concurrency_per_key
    MaxStrays      \* bound on the threads of abandoned jobs that hold or may take slots

ASSUME FramesAssumption ==
    /\ SourceFrames \in Nat /\ HeadContext \in Nat /\ TailMargin \in Nat
    /\ Ceiling \in Nat /\ Ceiling > HeadContext + TailMargin

\* A cut goes from the first frame to the last, has no empty part, and overshoots
\* the length that was asked for by no more than the margin.
ASSUME CutsAssumption ==
    /\ MaxParts \in Nat
    /\ \A c \in Cuts :
        /\ c \in Seq(Nat) /\ Len(c) \in 2..(MaxParts + 1)
        /\ c[1] = 0 /\ c[Len(c)] = SourceFrames
        /\ \A i \in 1..(Len(c) - 1) :
            c[i] < c[i + 1] /\ c[i + 1] - c[i] =< Ceiling - HeadContext

ASSUME LimitsAssumption ==
    /\ MaxAttempts \in Nat \ {0} /\ Width \in Nat \ {0}
    /\ NumKeys \in Nat \ {0} /\ PerKey \in Nat \ {0} /\ MaxStrays \in Nat

VARIABLES
    phase,     \* where _upscale_video is; "idle" between two jobs
    order,     \* providers of the job
    parts,     \* body-*.mp4 in the work directory: first frame and number of frames
    seg,       \* the thread of each part: step, attempt, position in the scan, key
    kept,      \* frames of its part that a finished segment brought back
    free,      \* value of the semaphore of each key
    rotation,  \* _YOTTA_ROTATION, as the key it points at
    adrift,    \* parts with an order at a paid provider that was given up while it went on
    film,      \* the pieces of the published film; none before
    stray,     \* threads of abandoned jobs that are on their way to a slot
    lent       \* slots of each key that threads of abandoned jobs hold

vars == <<phase, order, parts, seg, kept, free, rotation, adrift, film, stray, lent>>

Segs == 1..MaxParts
Keys == 1..NumKeys
NoKey == 0

-----------------------------------------------------------------------------
(* Who is asked: provider_order, providers_for.                            *)

Known(list) == SelectSeq(list, LAMBDA p : p \in {Regular[i] : i \in 1..Len(Regular)}
                                             \cup {Paid[i] : i \in 1..Len(Paid)})

ProviderOrder(requested) ==
    IF requested # "auto" THEN <<requested>>
    ELSE IF Known(Configured) # <<>> THEN Known(Configured) ELSE Regular

\* Paid providers stand in only where none of the usual ones can do the size.
ProvidersFor(requested, edge) ==
    LET Fits(p) == MaxEdge[p] >= edge
        fitting == SelectSeq(ProviderOrder(requested), Fits)
    IN  IF requested # "auto" \/ fitting # <<>> THEN fitting ELSE SelectSeq(Paid, Fits)

Orders == {ProvidersFor(r.provider, r.edge) : r \in Requests}

\* The provider of an attempt: the list, repeated.
Tried(attempt) == order[((attempt - 1) % Len(order)) + 1]
IsPaid(attempt) == \E i \in 1..Len(Paid) : Paid[i] = Tried(attempt)

-----------------------------------------------------------------------------
(* What is cut and sent: plan_segments, split_video.                       *)

PartsOf(cut) == [i \in 1..(Len(cut) - 1) |-> [from |-> cut[i], frames |-> cut[i + 1] - cut[i]]]

Lesser(a, b) == IF a < b THEN a ELSE b

\* The first part has nothing before it and freezes its own first frame.
Lead(i) == IF i = 1 THEN HeadContext ELSE Lesser(HeadContext, parts[i - 1].frames)

\* Mutant of Margin: the margin is not cut to what the ceiling leaves.
MarginUncut(i) == TailMargin

Margin(i) ==
    LET left == Ceiling - Lead(i) - parts[i].frames
    IN  IF left < 0 THEN 0 ELSE Lesser(TailMargin, left)

TailReal(i) == IF i = Len(parts) THEN 0 ELSE Lesser(Margin(i), parts[i + 1].frames)
KeepTo(i) == Lead(i) + parts[i].frames          \* min_frames
UploadFrames(i) == KeepTo(i) + Margin(i)

\* The source frame at a position of an upload.
FrameAt(i, p) ==
    IF p < Lead(i)
    THEN IF i = 1 THEN parts[1].from
                  ELSE parts[i - 1].from + parts[i - 1].frames - Lead(i) + p
    ELSE IF p < KeepTo(i) THEN parts[i].from + p - Lead(i)
    ELSE IF TailReal(i) = 0 THEN parts[i].from + parts[i].frames - 1
    ELSE parts[i + 1].from + Lesser(p - KeepTo(i), TailReal(i) - 1)

-----------------------------------------------------------------------------
(* Threads.                                                                *)

At(step, attempt, at, key) == [step |-> step, attempt |-> attempt, at |-> at, key |-> key]

Queued == At("queued", 0, <<0, 0>>, NoKey)
AllQueued == [s \in Segs |-> Queued]
NothingKept == [s \in Segs |-> 0]
NoneLent == [k \in Keys |-> 0]
AllFree == [k \in Keys |-> PerKey]

AtWork == {s \in Segs : seg[s].step \notin {"queued", "done", "failed"}}
Holders(g, k) == {s \in Segs : g[s].key = k}
Holding == {s \in Segs : seg[s].key # NoKey}
OnTheWay == {s \in Segs : seg[s].step \in {"rotate", "scanning", "blocked"}}

Init ==
    /\ phase = "idle" /\ order = <<>> /\ parts = <<>>
    /\ seg = AllQueued /\ kept = NothingKept
    /\ free = AllFree /\ rotation = 0
    /\ adrift = {} /\ film = <<>>
    /\ stray = 0 /\ lent = NoneLent

\* Where a thread goes with an attempt: paid providers need a slot first.
Enter(attempt) == At(IF IsPaid(attempt) THEN "rotate" ELSE "posting", attempt, <<0, 0>>, NoKey)

\* finally: slot.release().
Release(s) ==
    free' = IF seg[s].key = NoKey THEN free ELSE [free EXCEPT ![seg[s].key] = @ + 1]

\* Mutant of FailAttempt: the slot is given back after a success only.
FailAttemptHolding(s) ==
    /\ seg' = [seg EXCEPT ![s] = IF @.attempt < MaxAttempts THEN Enter(@.attempt + 1)
                                 ELSE At("failed", 0, <<0, 0>>, NoKey)]
    /\ UNCHANGED free

\* ProviderFailure, or any other exception of an attempt.
FailAttempt(s) ==
    /\ seg' = [seg EXCEPT ![s] = IF @.attempt < MaxAttempts THEN Enter(@.attempt + 1)
                                 ELSE At("failed", 0, <<0, 0>>, NoKey)]
    /\ Release(s)

\* The pool takes the parts in their order.
StartSegment(s) ==
    /\ phase \in {"running", "leaving"}
    /\ s \in 1..Len(parts) /\ seg[s].step = "queued"
    /\ \A t \in 1..(s - 1) : seg[t].step # "queued"
    /\ Cardinality(AtWork) < Width
    /\ seg' = [seg EXCEPT ![s] = Enter(1)]
    /\ UNCHANGED <<phase, order, parts, kept, free, rotation, adrift, film, stray, lent>>

-----------------------------------------------------------------------------
(* _acquire_yotta_slot.  `at` is <<start, offset>>.                        *)

KeyAt(start, offset) == ((start + offset) % NumKeys) + 1

PickStart(s) ==
    /\ seg[s].step = "rotate"
    /\ seg' = [seg EXCEPT ![s] = At("scanning", @.attempt, <<rotation, 0>>, NoKey)]
    /\ rotation' = (rotation + 1) % NumKeys
    /\ UNCHANGED <<phase, order, parts, kept, free, adrift, film, stray, lent>>

Take(s, k) ==
    /\ free' = [free EXCEPT ![k] = @ - 1]
    /\ seg' = [seg EXCEPT ![s] = At("posting", @.attempt, <<0, 0>>, k)]

\* Mutant of TryKey: the semaphore is not asked.
TryKeyBlindly(s) ==
    /\ seg[s].step = "scanning"
    /\ Take(s, KeyAt(seg[s].at[1], seg[s].at[2]))
    /\ UNCHANGED <<phase, order, parts, kept, rotation, adrift, film, stray, lent>>

\* acquire(blocking=False), key by key; other threads may run in between.
TryKey(s) ==
    LET start == seg[s].at[1]  offset == seg[s].at[2]  k == KeyAt(start, offset) IN
    /\ seg[s].step = "scanning"
    /\ \/ free[k] > 0 /\ Take(s, k)
       \/ /\ free[k] = 0
          /\ seg' = [seg EXCEPT ![s] =
                IF offset + 1 < NumKeys THEN At("scanning", @.attempt, <<start, offset + 1>>, NoKey)
                ELSE At("blocked", @.attempt, <<start, 0>>, NoKey)]
          /\ UNCHANGED free
    /\ UNCHANGED <<phase, order, parts, kept, rotation, adrift, film, stray, lent>>

\* All were taken: wait for the first, even if another comes free.
TakeKey(s) ==
    LET k == KeyAt(seg[s].at[1], 0) IN
    /\ seg[s].step = "blocked" /\ free[k] > 0
    /\ Take(s, k)
    /\ UNCHANGED <<phase, order, parts, kept, rotation, adrift, film, stray, lent>>

-----------------------------------------------------------------------------
(* run_provider, run_yotta_provider and the rest of _process_segment.      *)

Paying(s) == {t \in {s} : IsPaid(seg[t].attempt)}

PostTaken(s) ==
    /\ seg[s].step = "posting"
    /\ seg' = [seg EXCEPT ![s].step = "polling"]
    /\ UNCHANGED <<phase, order, parts, kept, free, rotation, adrift, film, stray, lent>>

\* Refused, 429 for the last time, or a reply that is lost or names no order:
\* then the provider may have taken it.
PostFails(s) ==
    /\ seg[s].step = "posting"
    /\ FailAttempt(s)
    /\ adrift' \in {adrift, adrift \cup Paying(s)}
    /\ UNCHANGED <<phase, order, parts, kept, rotation, film, stray, lent>>

\* The provider says the order is over, and has no film.
PollFailed(s) ==
    /\ seg[s].step = "polling"
    /\ FailAttempt(s)
    /\ UNCHANGED <<phase, order, parts, kept, rotation, adrift, film, stray, lent>>

\* A query fails (raise_for_status, the network), or the time is over.
PollBroken(s) ==
    /\ seg[s].step = "polling"
    /\ FailAttempt(s)
    /\ adrift' = adrift \cup Paying(s)
    /\ UNCHANGED <<phase, order, parts, kept, rotation, film, stray, lent>>

PollDone(s) ==
    /\ seg[s].step = "polling"
    /\ seg' = [seg EXCEPT ![s] = At("fetching", @.attempt, <<0, 0>>, NoKey)]
    /\ Release(s)
    /\ UNCHANGED <<phase, order, parts, kept, rotation, adrift, film, stray, lent>>

\* What came back has `raw` frames over the time of `grid` frames of the source.
\* Fewer than the grid would mean doubled frames, fewer than keep_to missing ones.
Accepted(s, raw, grid) == raw >= grid /\ raw >= KeepTo(s)

\* Frames of the part that are left once fps= and trim= have been applied.
KeptOf(s, grid) == IF grid < Lead(s) THEN 0 ELSE Lesser(grid, KeepTo(s)) - Lead(s)

Fetch(s) ==
    /\ seg[s].step = "fetching"
    /\ \E grid \in 0..UploadFrames(s) : \E raw \in {grid, UploadFrames(s)} :
        /\ Accepted(s, raw, grid)
        /\ kept' = [kept EXCEPT ![s] = KeptOf(s, grid)]
    /\ seg' = [seg EXCEPT ![s] = At("done", 0, <<0, 0>>, NoKey)]
    /\ UNCHANGED <<phase, order, parts, free, rotation, adrift, film, stray, lent>>

\* Not accepted, or not to be downloaded.
FetchFails(s) ==
    /\ seg[s].step = "fetching"
    /\ FailAttempt(s)
    /\ UNCHANGED <<phase, order, parts, kept, rotation, adrift, film, stray, lent>>

-----------------------------------------------------------------------------
(* _upscale_video.                                                         *)

\* finally: shutil.rmtree(work_dir); the results were a variable of the task.
End == phase' = "idle" /\ parts' = <<>> /\ order' = <<>> /\ kept' = NothingKept

\* A new job, or one whose process died: its directory is still there.
Receive ==
    /\ phase = "idle"
    /\ phase' = "preparing"
    /\ order' \in Orders
    /\ parts' \in {parts, <<>>}
    /\ seg' = AllQueued /\ kept' = NothingKept
    /\ adrift' = {} /\ film' = <<>>
    /\ UNCHANGED <<free, rotation, stray, lent>>

\* The source, the cut, an upload to OSS, or no provider for this size.
PrepareFails ==
    /\ phase = "preparing"
    /\ End
    /\ UNCHANGED <<seg, free, rotation, adrift, film, stray, lent>>

\* Mutant of Split: parts of an earlier delivery are not removed first.
SplitOverStale ==
    /\ phase = "preparing" /\ order # <<>>
    /\ \E c \in Cuts : parts' = PartsOf(c) \o SubSeq(parts, Len(c), Len(parts))
    /\ phase' = "running"
    /\ UNCHANGED <<order, seg, kept, free, rotation, adrift, film, stray, lent>>

Split ==
    /\ phase = "preparing" /\ order # <<>>
    /\ \E c \in Cuts : parts' = PartsOf(c)
    /\ phase' = "running"
    /\ UNCHANGED <<order, seg, kept, free, rotation, adrift, film, stray, lent>>

\* future.result() raises, or SoftTimeLimitExceeded, or the progress report.
Interrupted ==
    /\ phase = "running"
    /\ phase' = "leaving"
    /\ UNCHANGED <<order, parts, seg, kept, free, rotation, adrift, film, stray, lent>>

\* Mutant of Left: the executor is not waited for.
LeftAtOnce ==
    /\ phase = "leaving"
    /\ End
    /\ UNCHANGED <<seg, free, rotation, adrift, film, stray, lent>>

\* Leaving the `with` waits for all that was submitted, begun or not.
Left ==
    /\ phase = "leaving"
    /\ \A s \in 1..Len(parts) : seg[s].step \in {"done", "failed"}
    /\ End
    /\ UNCHANGED <<seg, free, rotation, adrift, film, stray, lent>>

\* SoftTimeLimitExceeded in shutdown(wait=True): nobody is waited for, and the
\* directory goes under the threads.  An attempt at a paid provider that begins
\* now fails before it has a slot (_media_metadata of the upload).
Abandoned ==
    /\ phase = "leaving"
    /\ FoldFunction(+, stray + Cardinality(OnTheWay \cup Holding), lent) =< MaxStrays
    /\ stray' = stray + Cardinality(OnTheWay)
    /\ lent' = [k \in Keys |-> lent[k] + Cardinality(Holders(seg, k))]
    /\ seg' = AllQueued
    /\ End
    /\ UNCHANGED <<free, rotation, adrift, film>>

AllDone ==
    /\ phase = "running"
    /\ \A s \in 1..Len(parts) : seg[s].step = "done"
    /\ phase' = "merging"
    /\ UNCHANGED <<order, parts, seg, kept, free, rotation, adrift, film, stray, lent>>

Piece(s) == [q \in 1..kept[s] |-> FrameAt(s, Lead(s) + q - 1)]

\* merge_segments and the upload.  trim= bounds every piece by its part, so that
\* the sum of the frames is right exactly if every piece is.
Merge ==
    /\ phase = "merging"
    /\ \A s \in 1..Len(parts) : kept[s] = parts[s].frames
    /\ film' = [s \in 1..Len(parts) |-> Piece(s)]
    /\ End
    /\ UNCHANGED <<seg, free, rotation, adrift, stray, lent>>

\* Frames are missing, or ffmpeg or the upload fails.
MergeFails ==
    /\ phase = "merging"
    /\ End
    /\ UNCHANGED <<seg, free, rotation, adrift, film, stray, lent>>

(* Threads of abandoned jobs: one more slot each, at most.                  *)

jobVars == <<phase, order, parts, seg, kept, adrift, film>>

StrayTakes(k) ==
    /\ stray > 0 /\ free[k] > 0
    /\ stray' = stray - 1
    /\ lent' = [lent EXCEPT ![k] = @ + 1]
    /\ free' = [free EXCEPT ![k] = @ - 1]
    /\ rotation' \in {rotation, (rotation + 1) % NumKeys}
    /\ UNCHANGED jobVars

\* Its upload is gone before it was measured.
StrayEnds ==
    /\ stray > 0
    /\ stray' = stray - 1
    /\ UNCHANGED <<jobVars, free, rotation, lent>>

\* Its order has ended, or is given up: finally: slot.release().
StrayReturns(k) ==
    /\ lent[k] > 0
    /\ lent' = [lent EXCEPT ![k] = @ - 1]
    /\ free' = [free EXCEPT ![k] = @ + 1]
    /\ UNCHANGED <<jobVars, rotation, stray>>

\* The hard time limit, or a lost worker: threads and semaphores are gone.
Die ==
    /\ phase' = "idle"
    /\ seg' = AllQueued /\ free' = AllFree /\ rotation' = 0
    /\ stray' = 0 /\ lent' = NoneLent
    /\ order' = <<>> /\ kept' = NothingKept
    /\ UNCHANGED <<parts, adrift, film>>

-----------------------------------------------------------------------------

Acquire(s) == PickStart(s) \/ TryKey(s) \/ TakeKey(s)
Post(s) == PostTaken(s) \/ PostFails(s)
Poll(s) == PollFailed(s) \/ PollBroken(s) \/ PollDone(s)
Download(s) == Fetch(s) \/ FetchFails(s)
Thread(s) == StartSegment(s) \/ Acquire(s) \/ Post(s) \/ Poll(s) \/ Download(s)

FutureFailed == Interrupted /\ \E s \in 1..Len(parts) : seg[s].step = "failed"
Main == PrepareFails \/ Split \/ FutureFailed \/ Left \/ AllDone \/ Merge \/ MergeFails

Stray == StrayEnds \/ \E k \in Keys : StrayTakes(k) \/ StrayReturns(k)

Next ==
    \/ Receive \/ (\E s \in Segs : Thread(s)) \/ Main
    \/ Interrupted \/ Abandoned \/ Stray \/ Die

Spec == Init /\ [][Next]_vars

\* Every request has a timeout and polling a deadline; ffmpeg has a timeout.
\* No provider has to accept or to finish anything.
UpscaleFairness ==
    /\ WF_vars(Main)
    /\ \A s \in Segs : WF_vars(Thread(s))
    /\ \A k \in Keys : WF_vars(StrayReturns(k))

FairSpec == Spec /\ UpscaleFairness

-----------------------------------------------------------------------------
(* Properties.                                                             *)

Steps == {"queued", "rotate", "scanning", "blocked", "posting", "polling", "fetching",
          "done", "failed"}

UpscaleTypeOK ==
    /\ phase \in {"idle", "preparing", "running", "leaving", "merging"}
    /\ order \in Orders \cup {<<>>}
    /\ parts \in {PartsOf(c) : c \in Cuts} \cup {<<>>}
    /\ seg \in [Segs -> [step : Steps, attempt : 0..MaxAttempts,
                         at : (0..(NumKeys - 1)) \X (0..(NumKeys - 1)), key : 0..NumKeys]]
    /\ kept \in [Segs -> Nat]
    /\ free \in [Keys -> 0..PerKey]
    /\ rotation \in 0..(NumKeys - 1)
    /\ adrift \in SUBSET Segs
    /\ film = <<>> \/ \E n \in Segs : film \in [1..n -> Seq(Nat)]
    /\ stray \in Nat
    /\ lent \in [Keys -> 0..PerKey]

\* "All parts done, they are joined in their order without transition"
\* (docs/EXTERNAL_API.md:666): a published film shows each frame of the source
\* once, in order, whatever was cut where, tried how often, dropped by a provider,
\* or left in the directory by an earlier delivery.
FilmIsTheSource ==
    film # <<>> =>
        /\ \A s \in 1..Len(film) : film[s] # <<>>
        /\ film[1][1] = 0
        /\ \A s \in 1..Len(film) : \A q \in 1..(Len(film[s]) - 1) :
              film[s][q + 1] = film[s][q] + 1
        /\ \A s \in 1..(Len(film) - 1) : film[s + 1][1] = film[s][Len(film[s])] + 1
        /\ film[Len(film)][Len(film[Len(film)])] = SourceFrames - 1

\* No upload is longer than the platform takes, even where a cut overshoots
\* (tests/test_video_upscale.py:76); and it is a run of the source, frame by
\* frame, but for the frames frozen before the first part and behind the tail.
UploadsFit ==
    \A i \in 1..Len(parts) :
        /\ UploadFrames(i) =< Ceiling
        /\ \A p \in 0..(UploadFrames(i) - 2) :
              LET frozen == (i = 1 /\ p < Lead(i)) \/ p + 1 >= KeepTo(i) + TailReal(i)
              IN  FrameAt(i, p + 1) = FrameAt(i, p) + (IF frozen THEN 0 ELSE 1)

\* When a job is over, well or not, no thread of it still works in the directory
\* that is gone, and every slot of every account is free for the next one: but for
\* the threads a soft time limit left behind, and the slots those hold.
QuietWhenOver == phase = "idle" =>
    AtWork = {} /\ \A k \in Keys : free[k] + lent[k] = PerKey

\* Threads that wait for each other's slots, parts that fail while others run,
\* providers that never answer: the job comes to an end.
UpscaleEnds == (phase # "idle") ~> (phase = "idle")

\* "The platform guarantees that nothing is submitted again" (docs/api-docs.md:1290):
\* a part has one paid order that may still deliver, not two.
NoResubmission == \A s \in adrift : ~(seg[s].step = "polling" /\ IsPaid(seg[s].attempt))
=============================================================================
