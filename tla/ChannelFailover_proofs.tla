----------------------- MODULE ChannelFailover_proofs -----------------------
(***************************************************************************)
(* What the channel loop never does, for any number of channels, whichever *)
(* of them answer at once, and any number of deliveries of the message.    *)
(*                                                                         *)
(* The invariant: an order of this run that the worker has a receipt for   *)
(* and has left behind is dead, the one at hand is the only other, and the *)
(* flag submitted tells the two apart.                                     *)
(***************************************************************************)
EXTENDS ChannelFailover, TLAPS

\* Receipts of this run are for the channel at hand or for ones left behind.
ReceiptsBehind ==
    \A o \in receipts :
        /\ o[1] <= run
        /\ o[1] = run => o[2] <= index
        /\ o[1] = run /\ o[2] = index => pc \notin {"choosing", "posting"}
        /\ o[1] = run => pc # "delivered"

\* An order that is left behind with a receipt cannot deliver any more.
LeftBehindIsDead ==
    \A c \in 1..N :
        <<run, c>> \in receipts /\ c < index => orders[<<run, c>>] \in {"empty", "failed"}

\* submitted is set exactly where the worker follows an order.
Flagged ==
    /\ pc = "posting" => ~submitted /\ index <= N
    /\ pc \in {"polling", "finishing", "uploading"} =>
           submitted /\ index <= N /\ Current \in receipts

\* What is stored and published was delivered by the channel at hand.
ResultAtHand ==
    pc \in {"finishing", "uploading"} \/ (pc = "ended" /\ status = "succeeded") =>
        index <= N /\ Current \in receipts /\ orders[Current] = "finished"

\* The types of all variables but the flag.
Ranges ==
    /\ run \in 1..MaxRuns
    /\ pc \in Pcs
    /\ index \in 1..(N + 1)
    /\ missing \in 0..2
    /\ status \in {"queued", "running", "cancel_requested"} \cup Terminal
    /\ orders \in [OrderIds -> OrderStates]
    /\ receipts \in SUBSET OrderIds

LoopInv == TypeOK /\ ReceiptsBehind /\ LeftBehindIsDead /\ Flagged /\ ResultAtHand

USE ChannelsAssumption, RunsAssumption

-----------------------------------------------------------------------------

\* The channel at hand has an order id.
LEMMA CurrentIsOrder == TypeOK /\ index <= N => Current \in OrderIds
  BY DEF TypeOK, Current, OrderIds

\* Nothing is remembered before the first delivery.
LEMMA LoopInit == Init => LoopInv
<1> SUFFICES ASSUME Init PROVE LoopInv
  OBVIOUS
<1>1. TypeOK
  <2>1. submitted \in BOOLEAN
    BY Zenon DEF Init
  <2>2. Ranges
    BY DEF Init, Ranges, OrderStates, Pcs, Terminal
  <2>. QED
    BY <2>1, <2>2 DEF Ranges, TypeOK
<1>2. ReceiptsBehind /\ LeftBehindIsDead /\ Flagged /\ ResultAtHand
  BY DEF Init, ReceiptsBehind, LeftBehindIsDead, Flagged, ResultAtHand
<1>. QED
  BY <1>1, <1>2 DEF LoopInv

\* Every step keeps the types; the flag only ever changes to a constant.
LEMMA LoopTypeStep == LoopInv /\ [Next]_vars => TypeOK'
<1> SUFFICES ASSUME LoopInv, [Next]_vars PROVE Ranges' /\ submitted' \in BOOLEAN
  BY DEF Ranges, TypeOK
<1>0. submitted' \in BOOLEAN
  <2>1. submitted \in BOOLEAN
    BY Zenon DEF LoopInv, TypeOK
  <2>2. submitted' = submitted \/ submitted' = TRUE \/ submitted' = FALSE
    BY Zenon DEF Next, WorkerStep, Start, Choose, Skip, Post, Exhausted, PostEnds, PostFails,
       PostAnswered, SyncAnswered, PollEnds, PollBroken, FinishEnds, StopCancelled, PollResult,
       PollMissing, PollFailed, Deadline, Upload, Publish, UploadFails, UpstreamAccepts,
       UpstreamEnds, Cancel, Redeliver, vars
  <2>. QED
    BY Zenon, <2>1, <2>2
<1> SUFFICES Ranges'
  BY <1>0
<1>a. Ranges /\ Flagged
  BY DEF LoopInv, TypeOK, Ranges
<1> USE <1>a DEF Ranges, Pcs, Terminal
<1>1. CASE Start
  BY <1>1 DEF Start
<1>2. CASE Choose
  <2>1. CASE Skip
    BY <2>1 DEF Skip, NextChannel
  <2>2. CASE Post
    BY <2>2 DEF Post
  <2>3. CASE Exhausted
    BY <2>3 DEF Exhausted
  <2>. QED
    BY <1>2, <2>1, <2>2, <2>3 DEF Choose
<1>3. CASE PostEnds
  <2>1. index <= N /\ Current \in OrderIds
    BY <1>3, CurrentIsOrder DEF PostEnds, PostFails, PostAnswered, SyncAnswered, Flagged, LoopInv
  <2>2. CASE PostFails
    BY <2>1, <2>2 DEF PostFails, OnError, NextChannel, GiveUp
  <2>3. CASE PostAnswered
    BY <2>1, <2>3 DEF PostAnswered, NextChannel
  <2>4. CASE SyncAnswered
    BY <2>1, <2>4 DEF SyncAnswered, OnError, GiveUp
  <2>. QED
    BY <1>3, <2>2, <2>3, <2>4 DEF PostEnds
<1>4. CASE PollEnds \/ PollBroken
  BY <1>4 DEF PollEnds, PollBroken, StopCancelled, PollResult, PollMissing, PollFailed, Deadline,
              Polling, OnError, NextChannel, GiveUp, Flagged
<1>5. CASE FinishEnds
  BY <1>5 DEF FinishEnds, StopCancelled, Upload, Publish, UploadFails, OnError, NextChannel,
              GiveUp, Flagged
<1>6. CASE UpstreamAccepts
  BY <1>6 DEF UpstreamAccepts, OrderStates
<1>7. CASE \E o \in OrderIds : UpstreamEnds(o)
  BY <1>7 DEF UpstreamEnds, OrderStates
<1>8. CASE Cancel \/ Redeliver
  BY <1>8 DEF Cancel, Redeliver
<1>9. CASE UNCHANGED vars
  BY <1>9 DEF vars
<1>. QED
  BY <1>1, <1>2, <1>3, <1>4, <1>5, <1>6, <1>7, <1>8, <1>9 DEF Next, WorkerStep

\* Upstreams only end orders that are in work, and start one the worker posts.
LEMMA UpstreamKeeps ==
  ASSUME LoopInv, UpstreamAccepts \/ \E o \in OrderIds : UpstreamEnds(o)
  PROVE  LoopInv'
<1>1. TypeOK'
  BY LoopTypeStep DEF Next
<1>2. UNCHANGED <<run, pc, index, submitted, status, receipts>>
  BY DEF UpstreamAccepts, UpstreamEnds
<1>3. \A o \in OrderIds :
        orders[o] \in {"empty", "failed", "finished"} => orders'[o] = orders[o]
  BY DEF UpstreamAccepts, UpstreamEnds, LoopInv, TypeOK
<1>4. ReceiptsBehind' /\ Flagged'
  BY <1>2 DEF LoopInv, ReceiptsBehind, Flagged, Current
<1>5. LeftBehindIsDead'
  BY <1>2, <1>3 DEF LoopInv, LeftBehindIsDead, TypeOK
<1>6. ResultAtHand'
  BY <1>2, <1>3, CurrentIsOrder DEF LoopInv, ResultAtHand, Current
<1>. QED
  BY <1>1, <1>4, <1>5, <1>6 DEF LoopInv

\* The worker moves on from an order it has a receipt for only when that order
\* is dead; this is the step the flag submitted is there for.
LEMMA NextChannelKeeps ==
  ASSUME LoopInv, TypeOK', NextChannel, index <= N,
         UNCHANGED <<run, orders>>,
         receipts' = receipts \/ receipts' = receipts \cup {Current},
         Current \in receipts' => orders[Current] \in {"empty", "failed"}
  PROVE  LoopInv'
<1>1. pc' = "choosing" /\ index' = index + 1
  BY DEF NextChannel
<1>2. ReceiptsBehind'
  <2> SUFFICES ASSUME NEW o \in receipts'
               PROVE  o[1] <= run /\ (o[1] = run => o[2] < index')
    BY <1>1 DEF ReceiptsBehind, LoopInv, TypeOK, OrderIds
  <2>1. CASE o \in receipts
    BY <1>1, <2>1 DEF LoopInv, ReceiptsBehind, TypeOK, OrderIds
  <2>2. CASE o = Current
    BY <1>1, <2>2 DEF Current, LoopInv, TypeOK
  <2>. QED
    BY <2>1, <2>2
<1>3. LeftBehindIsDead'
  BY <1>1 DEF LoopInv, LeftBehindIsDead, TypeOK, Current
<1>4. Flagged' /\ ResultAtHand'
  BY <1>1 DEF Flagged, ResultAtHand
<1>. QED
  BY <1>2, <1>3, <1>4 DEF LoopInv

\* The steps that stay with the channel at hand, or end the run.
LEMMA StayKeeps ==
  ASSUME LoopInv, TypeOK', UNCHANGED <<run, index, orders>>,
         pc' \notin {"delivered", "choosing", "posting"},
         pc \notin {"delivered"},
         receipts' = receipts \/ receipts' = receipts \cup {Current},
         pc' \in {"polling", "finishing", "uploading"} =>
             submitted' /\ index <= N /\ Current \in receipts',
         pc' \in {"finishing", "uploading"} \/ (pc' = "ended" /\ status' = "succeeded") =>
             index <= N /\ Current \in receipts' /\ orders[Current] = "finished"
  PROVE  LoopInv'
<1>1. ReceiptsBehind'
  BY DEF LoopInv, ReceiptsBehind, TypeOK, Current
<1>2. LeftBehindIsDead'
  BY DEF LoopInv, LeftBehindIsDead, TypeOK, Current
<1>3. Flagged' /\ ResultAtHand'
  BY DEF Flagged, ResultAtHand, Current
<1>. QED
  BY <1>1, <1>2, <1>3 DEF LoopInv

\* A reply, or the lack of one.
LEMMA PostEndsKeeps == LoopInv /\ PostEnds => LoopInv'
<1> SUFFICES ASSUME LoopInv, PostEnds PROVE LoopInv'
  OBVIOUS
<1>1. TypeOK'
  BY LoopTypeStep DEF Next, WorkerStep
<1>2. pc = "posting" /\ ~submitted /\ index <= N /\ Current \notin receipts
  BY DEF PostEnds, PostFails, PostAnswered, SyncAnswered, LoopInv, Flagged, ReceiptsBehind, Current
<1>3. CASE PostFails
  <2>1. NextChannel /\ UNCHANGED <<run, orders, receipts>>
    BY <1>2, <1>3 DEF PostFails, OnError
  <2>. QED
    BY <1>1, <1>2, <2>1, NextChannelKeeps
<1>4. CASE PostAnswered
  <2>1. CASE orders[Current] = "failed" /\ NextChannel
    BY <1>1, <1>2, <1>4, <2>1, NextChannelKeeps DEF PostAnswered
  <2>2. CASE UNCHANGED index /\ (pc' = "polling" \/ (orders[Current] = "finished" /\ pc' = "finishing"))
    BY <1>1, <1>2, <1>4, <2>2, StayKeeps DEF PostAnswered
  <2>. QED
    BY <1>4, <2>1, <2>2 DEF PostAnswered
<1>5. CASE SyncAnswered
  <2>1. /\ UNCHANGED index
        /\ \/ pc' = "ended" /\ status' = "failed"
           \/ pc' = "finishing" /\ orders[Current] = "finished"
    BY Zenon, <1>5 DEF SyncAnswered, OnError, GiveUp
  <2>2. UNCHANGED <<run, orders>> /\ submitted' /\ receipts' = receipts \cup {Current}
    BY <1>5 DEF SyncAnswered
  <2>. QED
    BY <1>1, <1>2, <2>1, <2>2, StayKeeps
<1>. QED
  BY <1>3, <1>4, <1>5 DEF PostEnds

\* A poll, the deadline, a cancel, and the end of a run.
LEMMA FollowKeeps == LoopInv /\ (PollEnds \/ PollBroken \/ FinishEnds) => LoopInv'
<1> SUFFICES ASSUME LoopInv, PollEnds \/ PollBroken \/ FinishEnds PROVE LoopInv'
  OBVIOUS
<1>1. TypeOK'
  BY LoopTypeStep DEF Next, WorkerStep
<1>2. pc \in {"polling", "finishing", "uploading"} /\ UNCHANGED <<run, orders, receipts, submitted>>
  BY DEF PollEnds, PollBroken, FinishEnds, StopCancelled, PollResult, PollMissing, PollFailed,
         Deadline, Polling, Upload, Publish, UploadFails
<1>3. submitted /\ index <= N /\ Current \in receipts
  BY <1>2 DEF LoopInv, Flagged
<1>4. CASE NextChannel /\ orders[Current] \in {"empty", "failed"}
  BY <1>1, <1>2, <1>3, <1>4, NextChannelKeeps
<1>5. CASE UNCHANGED index /\ pc' = "ended" /\ status' # "succeeded"
  BY <1>1, <1>2, <1>3, <1>5, StayKeeps
<1>6. CASE UNCHANGED index /\ orders[Current] = "finished"
             /\ pc' \in {"finishing", "uploading", "ended"}
  BY <1>1, <1>2, <1>3, <1>6, StayKeeps
<1>7. CASE UNCHANGED index /\ pc' = "polling"
  BY <1>1, <1>2, <1>3, <1>7, StayKeeps
<1>8. CASE PollEnds \/ PollBroken
  BY <1>3, <1>4, <1>5, <1>6, <1>7, <1>8
     DEF PollEnds, PollBroken, StopCancelled, PollResult, PollMissing, PollFailed, Deadline,
         Polling, OnError, GiveUp
<1>9. CASE FinishEnds
  BY <1>3, <1>5, <1>6, <1>9
     DEF FinishEnds, StopCancelled, Upload, Publish, UploadFails, OnError, GiveUp, LoopInv,
         ResultAtHand
<1>. QED
  BY <1>8, <1>9

\* The beginning of a run, the choice of a channel, a cancel, a new delivery.
LEMMA OtherKeeps == LoopInv /\ (Start \/ Choose \/ Cancel \/ Redeliver \/ UNCHANGED vars) => LoopInv'
<1> SUFFICES ASSUME LoopInv, Start \/ Choose \/ Cancel \/ Redeliver \/ UNCHANGED vars PROVE LoopInv'
  OBVIOUS
<1>1. TypeOK'
  BY LoopTypeStep DEF Next, WorkerStep
<1>2. CASE Start
  BY <1>1, <1>2 DEF Start, LoopInv, ReceiptsBehind, LeftBehindIsDead, Flagged, ResultAtHand, TypeOK
<1>3. CASE Skip
  <2>1. Current \notin receipts
    BY <1>3 DEF Skip, LoopInv, ReceiptsBehind, Current
  <2>. QED
    BY <1>1, <1>3, <2>1, NextChannelKeeps DEF Skip
<1>4. CASE Post
  BY <1>1, <1>4 DEF Post, LoopInv, ReceiptsBehind, LeftBehindIsDead, Flagged, ResultAtHand
<1>5. CASE Exhausted
  BY <1>1, <1>5, StayKeeps DEF Exhausted
<1>6. CASE Cancel
  BY <1>1, <1>6 DEF Cancel, LoopInv, ReceiptsBehind, LeftBehindIsDead, Flagged, ResultAtHand, Current
<1>7. CASE Redeliver
  <2>1. run' = run + 1 /\ pc' = "delivered" /\ UNCHANGED <<receipts, orders>> /\ run \in Int
    BY <1>7 DEF Redeliver, LoopInv, TypeOK
  <2>2. \A o \in receipts : o[1] \in Int /\ o[1] < run'
    BY <2>1 DEF LoopInv, ReceiptsBehind, TypeOK, OrderIds
  <2>3. ReceiptsBehind'
    BY <2>1, <2>2 DEF ReceiptsBehind
  <2>4. LeftBehindIsDead'
    BY <2>1, <2>2 DEF LeftBehindIsDead
  <2>5. Flagged' /\ ResultAtHand'
    BY <2>1 DEF Flagged, ResultAtHand
  <2>. QED
    BY <1>1, <2>3, <2>4, <2>5 DEF LoopInv
<1>8. CASE UNCHANGED vars
  BY <1>1, <1>8 DEF vars, LoopInv, ReceiptsBehind, LeftBehindIsDead, Flagged, ResultAtHand, Current
<1>. QED
  BY <1>2, <1>3, <1>4, <1>5, <1>6, <1>7, <1>8 DEF Choose

\* The invariant of the loop, from which the theorems below follow.
THEOREM LoopInvariant == Spec => []LoopInv
<1>1. LoopInv /\ [Next]_vars => LoopInv'
  BY UpstreamKeeps, PostEndsKeeps, FollowKeeps, OtherKeeps DEF Next, WorkerStep
<1>. QED
  BY <1>1, LoopInit, PTL DEF Spec

-----------------------------------------------------------------------------

\* The loop's counters stay in range: the third missing URL and the last
\* channel are never overrun.
THEOREM LoopTypes == Spec => []TypeOK
<1>1. LoopInv => TypeOK
  BY DEF LoopInv
<1>. QED
  BY <1>1, LoopInvariant, PTL

\* Of the orders one run knows of, at most one can still deliver: a channel is
\* left only before its reply, or after its own verdict.
THEOREM KnownOrdersAreOne == Spec => []OneKnownLiveOrder
<1>1. LoopInv => OneKnownLiveOrder
  <2> SUFFICES ASSUME LoopInv, NEW c \in 1..N, NEW d \in 1..N,
                      <<run, c>> \in receipts, <<run, d>> \in receipts,
                      Alive(<<run, c>>), Alive(<<run, d>>)
               PROVE  c = d
    BY DEF OneKnownLiveOrder
  <2>1. c <= index /\ d <= index
    BY DEF LoopInv, ReceiptsBehind
  <2>2. ~(c < index) /\ ~(d < index)
    BY DEF LoopInv, LeftBehindIsDead, Alive
  <2>. QED
    BY <2>1, <2>2 DEF LoopInv, TypeOK
<1>. QED
  BY <1>1, LoopInvariant, PTL

\* A job that ended well has a delivered result of the channel it names.
THEOREM SuccessHasResult == Spec => []SuccessIsReal
<1>1. LoopInv => SuccessIsReal
  BY DEF LoopInv, ResultAtHand, SuccessIsReal
<1>. QED
  BY <1>1, LoopInvariant, PTL

-----------------------------------------------------------------------------
(* A run ends.                                                             *)

\* How far the worker is with the channel at hand.
Stage ==
    CASE pc = "delivered" -> 0
      [] pc = "choosing" -> 1
      [] pc = "posting" -> 2
      [] pc = "polling" -> 3 + missing
      [] pc = "finishing" -> 6
      [] pc = "uploading" -> 7
      [] OTHER -> 8

\* How far it is with them all.
Progress == 10 * index + Stage

\* A delivery begins with the first channel; one that is over has left a verdict.
Verdict ==
    /\ pc = "delivered" => index = 1
    /\ pc = "ended" => status \in Terminal

\* Whatever the worker does within one delivery takes it further.
EveryStepAdvances ==
    [][run' = run /\ <<pc, index, missing>>' # <<pc, index, missing>> => Progress' > Progress]_vars

LEMMA StageIsNat == TypeOK => Stage \in 0..8 /\ Progress \in Nat /\ Progress <= 10 * N + 18
  BY DEF TypeOK, Pcs, Stage, Progress

LEMMA ChooseAdvances ==
  ASSUME LoopInv, Verdict, Start \/ Choose \/ PostEnds
  PROVE  Verdict' /\ Progress' > Progress
<1>1. TypeOK /\ TypeOK'
  BY LoopTypeStep DEF LoopInv, Next, WorkerStep
<1>. USE <1>1 DEF TypeOK, Pcs, Terminal, Stage, Progress, Verdict, OnError, NextChannel, GiveUp
<1>2. CASE Start
  BY <1>2 DEF Start
<1>3. CASE Skip
  BY <1>3 DEF Skip
<1>4. CASE Post
  BY <1>4 DEF Post
<1>5. CASE Exhausted
  BY <1>5 DEF Exhausted
<1>6. CASE PostFails
  BY <1>6 DEF PostFails
<1>7. CASE PostAnswered
  BY <1>7 DEF PostAnswered
<1>8. CASE SyncAnswered
  BY <1>8 DEF SyncAnswered
<1>. QED
  BY <1>2, <1>3, <1>4, <1>5, <1>6, <1>7, <1>8 DEF Choose, PostEnds

LEMMA FollowAdvances ==
  ASSUME LoopInv, Verdict, PollEnds \/ PollBroken \/ FinishEnds
  PROVE  Verdict' /\ Progress' > Progress
<1>1. TypeOK /\ TypeOK'
  BY LoopTypeStep DEF LoopInv, Next, WorkerStep
<1>. USE <1>1 DEF TypeOK, Pcs, Terminal, Stage, Progress, Verdict, OnError, NextChannel, GiveUp,
        Polling
<1>2. CASE StopCancelled
  BY <1>2 DEF StopCancelled
<1>3. CASE PollResult
  BY <1>3 DEF PollResult
<1>4. CASE PollMissing
  BY <1>4 DEF PollMissing
<1>5. CASE PollFailed
  BY <1>5 DEF PollFailed
<1>6. CASE PollBroken \/ Deadline
  BY <1>6 DEF PollBroken, Deadline
<1>7. CASE Upload \/ Publish
  BY <1>7 DEF Upload, Publish
<1>8. CASE UploadFails
  BY <1>8 DEF UploadFails
<1>. QED
  BY <1>2, <1>3, <1>4, <1>5, <1>6, <1>7, <1>8 DEF PollEnds, FinishEnds

\* Clients and upstreams leave the worker where it is, and take back no verdict.
LEMMA OthersWait ==
  ASSUME LoopInv, Verdict,
         Cancel \/ UpstreamAccepts \/ (\E o \in OrderIds : UpstreamEnds(o)) \/ UNCHANGED vars
  PROVE  Verdict' /\ UNCHANGED <<pc, index, missing>>
BY DEF Cancel, UpstreamAccepts, UpstreamEnds, vars, Verdict, Terminal

LEMMA VerdictStep ==
  ASSUME LoopInv, Verdict, [Next]_vars
  PROVE  /\ Verdict'
         /\ run' = run /\ <<pc, index, missing>>' # <<pc, index, missing>> => Progress' > Progress
<1>1. CASE Redeliver
  BY <1>1 DEF Redeliver, Verdict, LoopInv, TypeOK
<1>. QED
  BY <1>1, ChooseAdvances, FollowAdvances, OthersWait DEF Next, WorkerStep

\* A run that is over has left the job succeeded, failed or cancelled, whichever way it left
\* the loop and whenever its client cancelled: no poll of the job waits for ever.
THEOREM EndedIsTerminal == Spec => [](pc = "ended" => status \in Terminal)
<1>1. Init => Verdict
  BY DEF Init, Verdict
<1>2. LoopInv /\ Verdict /\ [Next]_vars => Verdict'
  BY VerdictStep
<1>3. Verdict => (pc = "ended" => status \in Terminal)
  BY DEF Verdict
<1>. QED
  BY <1>1, <1>2, <1>3, LoopInvariant, PTL DEF Spec

\* Every change the worker makes to its place takes it further, and there is an end to that:
\* no channel is gone back to, none is polled for a missing URL without end, and a delivery
\* takes at most ten steps for each channel and eight besides, however the upstreams answer.
THEOREM RunsAdvance == Spec => EveryStepAdvances /\ [](Progress \in 0..(10 * N + 18))
<1>1. Init => Verdict
  BY DEF Init, Verdict
<1>2. LoopInv /\ Verdict /\ [Next]_vars => Verdict'
  BY VerdictStep
<1>3. LoopInv /\ Verdict /\ [Next]_vars =>
        [run' = run /\ <<pc, index, missing>>' # <<pc, index, missing>> => Progress' > Progress]_vars
  BY VerdictStep
<1>4. LoopInv => Progress \in 0..(10 * N + 18)
  BY StageIsNat DEF LoopInv
<1>. QED
  BY <1>1, <1>2, <1>3, <1>4, LoopInvariant, PTL DEF Spec, EveryStepAdvances
=============================================================================
