------------------------- MODULE BillingHook_proofs -------------------------
(***************************************************************************)
(* What the charges of the billing hook mean, for any number of requests   *)
(* and keys and any troubles: the types, that booked work is real, that a  *)
(* speech which did not fail is not given back, that answers and charges   *)
(* agree.                                                                  *)
(*                                                                         *)
(* The properties speak of requests that are over; the invariant says of   *)
(* each place in a handler what has become of the charge there, and of     *)
(* each verdict that waits to be applied that the job did end so.          *)
(***************************************************************************)
EXTENDS BillingHook, FiniteSetTheorems, TLAPS

\* Verdicts and results are of jobs that ended so, however often they run again.
TrueEnds ==
    /\ \A seen \in saw : seen[1] \in IF seen[2] = "spent" THEN everDone ELSE everFailed
    /\ \A j \in Jobs :
        /\ result[j] = "succeeded" => j \in everDone
        /\ result[j] \in {"failed", "revoked"} => j \in everFailed

\* A charge is linked to the job its request sent, and only speeches are linked.
Linking ==
    \A r \in Requests :
        /\ linked[r] # NoJob => linked[r] = job[r] /\ r \in deferred
        /\ r \in deferred => kind[r] = "speech" /\ at[r] \in {"answer", "over"}
        /\ at[r] \in {"look", "link"} => kind[r] = "speech"
        /\ at[r] = "wait" => kind[r] = "wait"
        /\ kind[r] = "speech" => job[r] \in Speeches
        /\ kind[r] \in {"job", "wait"} => job[r] \in Jobs
        /\ at[r] = "away" => kind[r] = "call"
        /\ at[r] \in {"send", "unmark"} => job[r] \in Jobs

\* Where a request is, and what has become of its charge.
Charging ==
    \A r \in Requests :
        /\ at[r] = "away" => charge[r] = "none" /\ reply[r] = "none"
        /\ at[r] \notin {"away", "answer", "over"} => charge[r] = "held" /\ reply[r] = "none"
        /\ at[r] = "answer" => reply[r] # "none" /\ (r \notin deferred => charge[r] = "held")
        /\ reply[r] = "ok" /\ kind[r] = "wait" => job[r] \in everDone
        /\ reply[r] = "ok" /\ kind[r] = "speech" => linked[r] # NoJob

HookInv ==
    /\ HookTypeOK /\ TrueEnds /\ Linking /\ Charging
    /\ BookedWorkIsReal /\ RefundedSpeechFailed /\ AnsweredIsSettled

-----------------------------------------------------------------------------

\* A poll settles by the verdict it carries.
LEMMA PollTypes ==
  ASSUME HookTypeOK, NEW seen \in saw, PollSettles(seen)
  PROVE  HookTypeOK'
<1>. USE DEF PollSettles, HookTypeOK
<1>1. seen[2] \in {"spent", "refunded"} /\ saw' \subseteq saw
  OBVIOUS
<1>2. charge' \in [Requests -> {"none", "held", "spent", "refunded"}]
  BY <1>1 DEF SettleHeld
<1>3. saw' \subseteq Speeches \X {"spent", "refunded"}
  BY <1>1
<1>4. UNCHANGED <<at, kind, job, reply, deferred, linked, marker, queued, running, result,
                  revoked, everDone, everFailed, troubles>>
  BY DEF requestVars, taskVars
<1>. QED
  BY <1>2, <1>3, <1>4

\* The types are kept by every step: what is sent is a job, what is linked a speech.
LEMMA TypesStep ==
  ASSUME HookInv, HookNext
  PROVE  HookTypeOK'
<1>1. ASSUME NEW seen \in saw, PollSettles(seen)
      PROVE  HookTypeOK'
  BY <1>1, PollTypes DEF HookInv
<1>. USE HookAssumption DEF Goes, Answers, SettleHeld, Trouble, Yields, requestVars,
        chargeVars, taskVars, HookInv, HookTypeOK, Linking, Kinds, Jobs, Places, Ended
<1>2. ASSUME NEW r \in Requests, NEW k \in Kinds, NEW j \in Jobs \cup {NoJob}, Hold(r, k, j)
      PROVE  HookTypeOK'
  BY <1>2 DEF Hold
<1>3. ASSUME NEW r \in Requests, Refuse(r)
      PROVE  HookTypeOK'
  BY <1>3 DEF Refuse
<1>4. ASSUME NEW r \in Requests, Serve(r)
      PROVE  HookTypeOK'
  BY <1>4 DEF Serve
<1>5. ASSUME NEW r \in Requests, Mark(r)
      PROVE  HookTypeOK'
  BY <1>5 DEF Mark
<1>6. ASSUME NEW r \in Requests, Send(r)
      PROVE  HookTypeOK'
  BY <1>6 DEF Send, Enqueue
<1>7. ASSUME NEW r \in Requests, SendFails(r)
      PROVE  HookTypeOK'
  BY <1>7 DEF SendFails, Enqueue
<1>8. ASSUME NEW r \in Requests, Unmark(r)
      PROVE  HookTypeOK'
  BY <1>8 DEF Unmark
<1>9. ASSUME NEW r \in Requests, Look(r)
      PROVE  HookTypeOK'
  BY <1>9 DEF Look
<1>10. ASSUME NEW r \in Requests, Link(r)
      PROVE  HookTypeOK'
  BY <1>10 DEF Link
<1>11. ASSUME NEW r \in Requests, LinkFails(r)
      PROVE  HookTypeOK'
  BY <1>11 DEF LinkFails
<1>12. ASSUME NEW r \in Requests, Waited(r)
      PROVE  HookTypeOK'
  BY <1>12 DEF Waited
<1>13. ASSUME NEW r \in Requests, NotWaited(r)
      PROVE  HookTypeOK'
  BY <1>13 DEF NotWaited
<1>14. ASSUME NEW r \in Requests, Answer(r)
      PROVE  HookTypeOK'
  BY <1>14 DEF Answer, RouteSettles
<1>15. ASSUME NEW r \in Requests, Dies(r)
      PROVE  HookTypeOK'
  BY <1>15 DEF Dies
<1>16. ASSUME NEW r \in Requests, Sweep(r)
      PROVE  HookTypeOK'
  BY <1>16 DEF Sweep, Orphans
<1>17. ASSUME NEW j \in Jobs, Poll(j)
      PROVE  HookTypeOK'
  BY <1>17 DEF Poll, VerdictOf
<1>18. ASSUME NEW j \in Jobs, Begin(j)
      PROVE  HookTypeOK'
  BY <1>18 DEF Begin, Dequeue
<1>19. ASSUME NEW j \in Jobs, Discard(j)
      PROVE  HookTypeOK'
  BY <1>19 DEF Discard, Dequeue
<1>20. ASSUME NEW j \in Jobs, End(j)
      PROVE  HookTypeOK'
  BY <1>20 DEF End
<1>21. ASSUME NEW j \in Jobs, Redeliver(j)
      PROVE  HookTypeOK'
  BY <1>21 DEF Redeliver, Enqueue
<1>22. ASSUME NEW j \in Jobs, Cancel(j)
      PROVE  HookTypeOK'
  BY <1>22 DEF Cancel
<1>23. ASSUME NEW j \in Jobs, MarkerExpires(j)
      PROVE  HookTypeOK'
  BY <1>23 DEF MarkerExpires
<1>23b. ASSUME NEW j \in Jobs, ResultExpires(j)
      PROVE  HookTypeOK'
  BY <1>23b DEF ResultExpires
<1>. HIDE HookAssumption DEF Goes, Answers, SettleHeld, Trouble, Yields, requestVars,
        chargeVars, taskVars, HookInv, HookTypeOK, Linking, Kinds, Jobs, Places, Ended
<1>24. ASSUME NEW r \in Requests, RequestStep(r)
      PROVE  HookTypeOK'
  BY <1>24, <1>2, <1>3, <1>4, <1>5, <1>6, <1>7, <1>8, <1>9, <1>10, <1>11, <1>12, <1>13, <1>14,
     <1>15, <1>16 DEF RequestStep
<1>25. ASSUME NEW j \in Jobs, JobStep(j)
      PROVE  HookTypeOK'
  BY <1>25, <1>17, <1>18, <1>19, <1>20, <1>21, <1>22, <1>23, <1>23b DEF JobStep
<1>. QED
  BY <1>1, <1>24, <1>25 DEF HookNext

\* What a poll carries stays true: a job that ended once has ended so for ever.
LEMMA EndsStep ==
  ASSUME HookInv, HookNext
  PROVE  TrueEnds'
<1>. USE HookAssumption DEF Goes, Answers, SettleHeld, Trouble, Yields, requestVars,
        chargeVars, taskVars, HookInv, HookTypeOK, TrueEnds, Jobs, Ended
<1>1. ASSUME NEW r \in Requests, NEW k \in Kinds, NEW j \in Jobs \cup {NoJob}, Hold(r, k, j)
      PROVE  TrueEnds'
  BY <1>1 DEF Hold
<1>2. ASSUME NEW r \in Requests, Refuse(r)
      PROVE  TrueEnds'
  BY <1>2 DEF Refuse
<1>3. ASSUME NEW r \in Requests, Serve(r)
      PROVE  TrueEnds'
  BY <1>3 DEF Serve
<1>4. ASSUME NEW r \in Requests, Mark(r)
      PROVE  TrueEnds'
  BY <1>4 DEF Mark
<1>5. ASSUME NEW r \in Requests, Send(r)
      PROVE  TrueEnds'
  BY <1>5 DEF Send, Enqueue
<1>6. ASSUME NEW r \in Requests, SendFails(r)
      PROVE  TrueEnds'
  BY <1>6 DEF SendFails, Enqueue
<1>7. ASSUME NEW r \in Requests, Unmark(r)
      PROVE  TrueEnds'
  BY <1>7 DEF Unmark
<1>8. ASSUME NEW r \in Requests, Look(r)
      PROVE  TrueEnds'
  BY <1>8 DEF Look
<1>9. ASSUME NEW r \in Requests, Link(r)
      PROVE  TrueEnds'
  BY <1>9 DEF Link
<1>10. ASSUME NEW r \in Requests, LinkFails(r)
      PROVE  TrueEnds'
  BY <1>10 DEF LinkFails
<1>11. ASSUME NEW r \in Requests, Waited(r)
      PROVE  TrueEnds'
  BY <1>11 DEF Waited
<1>12. ASSUME NEW r \in Requests, NotWaited(r)
      PROVE  TrueEnds'
  BY <1>12 DEF NotWaited
<1>13. ASSUME NEW r \in Requests, Answer(r)
      PROVE  TrueEnds'
  BY <1>13 DEF Answer, RouteSettles
<1>14. ASSUME NEW r \in Requests, Dies(r)
      PROVE  TrueEnds'
  BY <1>14 DEF Dies
<1>15. ASSUME NEW r \in Requests, Sweep(r)
      PROVE  TrueEnds'
  BY <1>15 DEF Sweep, Orphans
<1>16. ASSUME NEW j \in Jobs, Poll(j)
      PROVE  TrueEnds'
  BY <1>16 DEF Poll, VerdictOf
<1>17. ASSUME NEW j \in Jobs, Begin(j)
      PROVE  TrueEnds'
  BY <1>17 DEF Begin, Dequeue
<1>18. ASSUME NEW j \in Jobs, Discard(j)
      PROVE  TrueEnds'
  BY <1>18 DEF Discard, Dequeue
<1>19. ASSUME NEW j \in Jobs, End(j)
      PROVE  TrueEnds'
  BY <1>19 DEF End
<1>20. ASSUME NEW j \in Jobs, Redeliver(j)
      PROVE  TrueEnds'
  BY <1>20 DEF Redeliver, Enqueue
<1>21. ASSUME NEW j \in Jobs, Cancel(j)
      PROVE  TrueEnds'
  BY <1>21 DEF Cancel
<1>22. ASSUME NEW j \in Jobs, MarkerExpires(j)
      PROVE  TrueEnds'
  BY <1>22 DEF MarkerExpires
<1>22b. ASSUME NEW j \in Jobs, ResultExpires(j)
      PROVE  TrueEnds'
  BY <1>22b DEF ResultExpires
<1>23. ASSUME NEW seen \in saw, PollSettles(seen)
      PROVE  TrueEnds'
  BY <1>23 DEF PollSettles
<1>. QED
  BY <1>1, <1>2, <1>3, <1>4, <1>5, <1>6, <1>7, <1>8, <1>9, <1>10, <1>11, <1>12, <1>13, <1>14,
     <1>15, <1>16, <1>17, <1>18, <1>19, <1>20, <1>21, <1>22, <1>22b, <1>23 DEF HookNext, RequestStep,
     JobStep

\* Only the request itself defers and links its charge, to the job it sent.
LEMMA LinkingStep ==
  ASSUME HookInv, HookNext
  PROVE  Linking'
<1>. USE HookAssumption DEF Goes, Answers, SettleHeld, Trouble, Yields, requestVars,
        chargeVars, taskVars, HookInv, HookTypeOK, Linking, Jobs, Kinds
<1>1. ASSUME NEW r \in Requests, NEW k \in Kinds, NEW j \in Jobs \cup {NoJob}, Hold(r, k, j)
      PROVE  Linking'
  BY <1>1 DEF Hold
<1>2. ASSUME NEW r \in Requests, Refuse(r)
      PROVE  Linking'
  BY <1>2 DEF Refuse
<1>3. ASSUME NEW r \in Requests, Serve(r)
      PROVE  Linking'
  BY <1>3 DEF Serve
<1>4. ASSUME NEW r \in Requests, Mark(r)
      PROVE  Linking'
  BY <1>4 DEF Mark
<1>5. ASSUME NEW r \in Requests, Send(r)
      PROVE  Linking'
  BY <1>5 DEF Send, Enqueue
<1>6. ASSUME NEW r \in Requests, SendFails(r)
      PROVE  Linking'
  BY <1>6 DEF SendFails, Enqueue
<1>7. ASSUME NEW r \in Requests, Unmark(r)
      PROVE  Linking'
  BY <1>7 DEF Unmark
<1>8. ASSUME NEW r \in Requests, Look(r)
      PROVE  Linking'
  BY <1>8 DEF Look
<1>9. ASSUME NEW r \in Requests, Link(r)
      PROVE  Linking'
  BY <1>9 DEF Link
<1>10. ASSUME NEW r \in Requests, LinkFails(r)
      PROVE  Linking'
  BY <1>10 DEF LinkFails
<1>11. ASSUME NEW r \in Requests, Waited(r)
      PROVE  Linking'
  BY <1>11 DEF Waited
<1>12. ASSUME NEW r \in Requests, NotWaited(r)
      PROVE  Linking'
  BY <1>12 DEF NotWaited
<1>13. ASSUME NEW r \in Requests, Answer(r)
      PROVE  Linking'
  BY <1>13 DEF Answer, RouteSettles
<1>14. ASSUME NEW r \in Requests, Dies(r)
      PROVE  Linking'
  BY <1>14 DEF Dies
<1>15. ASSUME NEW r \in Requests, Sweep(r)
      PROVE  Linking'
  BY <1>15 DEF Sweep, Orphans
<1>16. ASSUME NEW j \in Jobs, Poll(j)
      PROVE  Linking'
  BY <1>16 DEF Poll, VerdictOf
<1>17. ASSUME NEW j \in Jobs, Begin(j)
      PROVE  Linking'
  BY <1>17 DEF Begin, Dequeue
<1>18. ASSUME NEW j \in Jobs, Discard(j)
      PROVE  Linking'
  BY <1>18 DEF Discard, Dequeue
<1>19. ASSUME NEW j \in Jobs, End(j)
      PROVE  Linking'
  BY <1>19 DEF End
<1>20. ASSUME NEW j \in Jobs, Redeliver(j)
      PROVE  Linking'
  BY <1>20 DEF Redeliver, Enqueue
<1>21. ASSUME NEW j \in Jobs, Cancel(j)
      PROVE  Linking'
  BY <1>21 DEF Cancel
<1>22. ASSUME NEW j \in Jobs, MarkerExpires(j)
      PROVE  Linking'
  BY <1>22 DEF MarkerExpires
<1>22b. ASSUME NEW j \in Jobs, ResultExpires(j)
      PROVE  Linking'
  BY <1>22b DEF ResultExpires
<1>23. ASSUME NEW seen \in saw, PollSettles(seen)
      PROVE  Linking'
  BY <1>23 DEF PollSettles
<1>. QED
  BY <1>1, <1>2, <1>3, <1>4, <1>5, <1>6, <1>7, <1>8, <1>9, <1>10, <1>11, <1>12, <1>13, <1>14,
     <1>15, <1>16, <1>17, <1>18, <1>19, <1>20, <1>21, <1>22, <1>22b, <1>23 DEF HookNext, RequestStep,
     JobStep

\* Before its answer a request keeps its hold, unless it is linked: the sweep waits for its
\* end, and polls settle linked charges.
LEMMA ChargingStep ==
  ASSUME HookInv, HookNext
  PROVE  Charging'
<1>. USE HookAssumption DEF Goes, Answers, SettleHeld, Trouble, Yields, requestVars,
        chargeVars, taskVars, HookInv, HookTypeOK, TrueEnds, Linking, Charging, Jobs, Kinds
<1>1. ASSUME NEW r \in Requests, NEW k \in Kinds, NEW j \in Jobs \cup {NoJob}, Hold(r, k, j)
      PROVE  Charging'
  BY <1>1 DEF Hold
<1>2. ASSUME NEW r \in Requests, Refuse(r)
      PROVE  Charging'
  BY <1>2 DEF Refuse
<1>3. ASSUME NEW r \in Requests, Serve(r)
      PROVE  Charging'
  BY <1>3 DEF Serve
<1>4. ASSUME NEW r \in Requests, Mark(r)
      PROVE  Charging'
  BY <1>4 DEF Mark
<1>5. ASSUME NEW r \in Requests, Send(r)
      PROVE  Charging'
  BY <1>5 DEF Send, Enqueue
<1>6. ASSUME NEW r \in Requests, SendFails(r)
      PROVE  Charging'
  BY <1>6 DEF SendFails, Enqueue
<1>7. ASSUME NEW r \in Requests, Unmark(r)
      PROVE  Charging'
  BY <1>7 DEF Unmark
<1>8. ASSUME NEW r \in Requests, Look(r)
      PROVE  Charging'
  BY <1>8 DEF Look
<1>9. ASSUME NEW r \in Requests, Link(r)
      PROVE  Charging'
  BY <1>9 DEF Link
<1>10. ASSUME NEW r \in Requests, LinkFails(r)
      PROVE  Charging'
  BY <1>10 DEF LinkFails
<1>11. ASSUME NEW r \in Requests, Waited(r)
      PROVE  Charging'
  BY <1>11 DEF Waited
<1>12. ASSUME NEW r \in Requests, NotWaited(r)
      PROVE  Charging'
  BY <1>12 DEF NotWaited
<1>13. ASSUME NEW r \in Requests, Answer(r)
      PROVE  Charging'
  BY <1>13 DEF Answer, RouteSettles
<1>14. ASSUME NEW r \in Requests, Dies(r)
      PROVE  Charging'
  BY <1>14 DEF Dies
<1>15. ASSUME NEW r \in Requests, Sweep(r)
      PROVE  Charging'
  BY <1>15 DEF Sweep, Orphans
<1>16. ASSUME NEW j \in Jobs, Poll(j)
      PROVE  Charging'
  BY <1>16 DEF Poll, VerdictOf
<1>17. ASSUME NEW j \in Jobs, Begin(j)
      PROVE  Charging'
  BY <1>17 DEF Begin, Dequeue
<1>18. ASSUME NEW j \in Jobs, Discard(j)
      PROVE  Charging'
  BY <1>18 DEF Discard, Dequeue
<1>19. ASSUME NEW j \in Jobs, End(j)
      PROVE  Charging'
  BY <1>19 DEF End
<1>20. ASSUME NEW j \in Jobs, Redeliver(j)
      PROVE  Charging'
  BY <1>20 DEF Redeliver, Enqueue
<1>21. ASSUME NEW j \in Jobs, Cancel(j)
      PROVE  Charging'
  BY <1>21 DEF Cancel
<1>22. ASSUME NEW j \in Jobs, MarkerExpires(j)
      PROVE  Charging'
  BY <1>22 DEF MarkerExpires
<1>22b. ASSUME NEW j \in Jobs, ResultExpires(j)
      PROVE  Charging'
  BY <1>22b DEF ResultExpires
<1>23. ASSUME NEW seen \in saw, PollSettles(seen)
      PROVE  Charging'
  BY <1>23 DEF PollSettles
<1>. QED
  BY <1>1, <1>2, <1>3, <1>4, <1>5, <1>6, <1>7, <1>8, <1>9, <1>10, <1>11, <1>12, <1>13, <1>14,
     <1>15, <1>16, <1>17, <1>18, <1>19, <1>20, <1>21, <1>22, <1>22b, <1>23 DEF HookNext, RequestStep,
     JobStep

\* A charge is booked by an answer with a result, or by a poll of a speech that was made.
LEMMA BookedStep ==
  ASSUME HookInv, HookNext
  PROVE  BookedWorkIsReal'
<1>. USE HookAssumption DEF Goes, Answers, SettleHeld, Trouble, Yields, requestVars,
        chargeVars, taskVars, HookInv, HookTypeOK, TrueEnds, Linking, Charging,
        BookedWorkIsReal, Jobs, Kinds
<1>1. ASSUME NEW r \in Requests, NEW k \in Kinds, NEW j \in Jobs \cup {NoJob}, Hold(r, k, j)
      PROVE  BookedWorkIsReal'
  BY <1>1 DEF Hold
<1>2. ASSUME NEW r \in Requests, Refuse(r)
      PROVE  BookedWorkIsReal'
  BY <1>2 DEF Refuse
<1>3. ASSUME NEW r \in Requests, Serve(r)
      PROVE  BookedWorkIsReal'
  BY <1>3 DEF Serve
<1>4. ASSUME NEW r \in Requests, Mark(r)
      PROVE  BookedWorkIsReal'
  BY <1>4 DEF Mark
<1>5. ASSUME NEW r \in Requests, Send(r)
      PROVE  BookedWorkIsReal'
  BY <1>5 DEF Send, Enqueue
<1>6. ASSUME NEW r \in Requests, SendFails(r)
      PROVE  BookedWorkIsReal'
  BY <1>6 DEF SendFails, Enqueue
<1>7. ASSUME NEW r \in Requests, Unmark(r)
      PROVE  BookedWorkIsReal'
  BY <1>7 DEF Unmark
<1>8. ASSUME NEW r \in Requests, Look(r)
      PROVE  BookedWorkIsReal'
  BY <1>8 DEF Look
<1>9. ASSUME NEW r \in Requests, Link(r)
      PROVE  BookedWorkIsReal'
  BY <1>9 DEF Link
<1>10. ASSUME NEW r \in Requests, LinkFails(r)
      PROVE  BookedWorkIsReal'
  BY <1>10 DEF LinkFails
<1>11. ASSUME NEW r \in Requests, Waited(r)
      PROVE  BookedWorkIsReal'
  BY <1>11 DEF Waited
<1>12. ASSUME NEW r \in Requests, NotWaited(r)
      PROVE  BookedWorkIsReal'
  BY <1>12 DEF NotWaited
<1>13. ASSUME NEW r \in Requests, Answer(r)
      PROVE  BookedWorkIsReal'
  BY <1>13 DEF Answer, RouteSettles
<1>14. ASSUME NEW r \in Requests, Dies(r)
      PROVE  BookedWorkIsReal'
  BY <1>14 DEF Dies
<1>15. ASSUME NEW r \in Requests, Sweep(r)
      PROVE  BookedWorkIsReal'
  BY <1>15 DEF Sweep, Orphans
<1>16. ASSUME NEW j \in Jobs, Poll(j)
      PROVE  BookedWorkIsReal'
  BY <1>16 DEF Poll, VerdictOf
<1>17. ASSUME NEW j \in Jobs, Begin(j)
      PROVE  BookedWorkIsReal'
  BY <1>17 DEF Begin, Dequeue
<1>18. ASSUME NEW j \in Jobs, Discard(j)
      PROVE  BookedWorkIsReal'
  BY <1>18 DEF Discard, Dequeue
<1>19. ASSUME NEW j \in Jobs, End(j)
      PROVE  BookedWorkIsReal'
  BY <1>19 DEF End
<1>20. ASSUME NEW j \in Jobs, Redeliver(j)
      PROVE  BookedWorkIsReal'
  BY <1>20 DEF Redeliver, Enqueue
<1>21. ASSUME NEW j \in Jobs, Cancel(j)
      PROVE  BookedWorkIsReal'
  BY <1>21 DEF Cancel
<1>22. ASSUME NEW j \in Jobs, MarkerExpires(j)
      PROVE  BookedWorkIsReal'
  BY <1>22 DEF MarkerExpires
<1>22b. ASSUME NEW j \in Jobs, ResultExpires(j)
      PROVE  BookedWorkIsReal'
  BY <1>22b DEF ResultExpires
<1>23. ASSUME NEW seen \in saw, PollSettles(seen)
      PROVE  BookedWorkIsReal'
  BY <1>23 DEF PollSettles
<1>. QED
  BY <1>1, <1>2, <1>3, <1>4, <1>5, <1>6, <1>7, <1>8, <1>9, <1>10, <1>11, <1>12, <1>13, <1>14,
     <1>15, <1>16, <1>17, <1>18, <1>19, <1>20, <1>21, <1>22, <1>22b, <1>23 DEF HookNext, RequestStep,
     JobStep

\* A linked charge is given back by polls only, and the sweep leaves it alone.
LEMMA RefundStep ==
  ASSUME HookInv, HookNext
  PROVE  RefundedSpeechFailed'
<1>. USE HookAssumption DEF Goes, Answers, SettleHeld, Trouble, Yields, requestVars,
        chargeVars, taskVars, HookInv, HookTypeOK, TrueEnds, Linking, Charging,
        RefundedSpeechFailed, Jobs, Kinds
<1>1. ASSUME NEW r \in Requests, NEW k \in Kinds, NEW j \in Jobs \cup {NoJob}, Hold(r, k, j)
      PROVE  RefundedSpeechFailed'
  BY <1>1 DEF Hold
<1>2. ASSUME NEW r \in Requests, Refuse(r)
      PROVE  RefundedSpeechFailed'
  BY <1>2 DEF Refuse
<1>3. ASSUME NEW r \in Requests, Serve(r)
      PROVE  RefundedSpeechFailed'
  BY <1>3 DEF Serve
<1>4. ASSUME NEW r \in Requests, Mark(r)
      PROVE  RefundedSpeechFailed'
  BY <1>4 DEF Mark
<1>5. ASSUME NEW r \in Requests, Send(r)
      PROVE  RefundedSpeechFailed'
  BY <1>5 DEF Send, Enqueue
<1>6. ASSUME NEW r \in Requests, SendFails(r)
      PROVE  RefundedSpeechFailed'
  BY <1>6 DEF SendFails, Enqueue
<1>7. ASSUME NEW r \in Requests, Unmark(r)
      PROVE  RefundedSpeechFailed'
  BY <1>7 DEF Unmark
<1>8. ASSUME NEW r \in Requests, Look(r)
      PROVE  RefundedSpeechFailed'
  BY <1>8 DEF Look
<1>9. ASSUME NEW r \in Requests, Link(r)
      PROVE  RefundedSpeechFailed'
  BY <1>9 DEF Link
<1>10. ASSUME NEW r \in Requests, LinkFails(r)
      PROVE  RefundedSpeechFailed'
  BY <1>10 DEF LinkFails
<1>11. ASSUME NEW r \in Requests, Waited(r)
      PROVE  RefundedSpeechFailed'
  BY <1>11 DEF Waited
<1>12. ASSUME NEW r \in Requests, NotWaited(r)
      PROVE  RefundedSpeechFailed'
  BY <1>12 DEF NotWaited
<1>13. ASSUME NEW r \in Requests, Answer(r)
      PROVE  RefundedSpeechFailed'
  BY <1>13 DEF Answer, RouteSettles
<1>14. ASSUME NEW r \in Requests, Dies(r)
      PROVE  RefundedSpeechFailed'
  BY <1>14 DEF Dies
<1>15. ASSUME NEW r \in Requests, Sweep(r)
      PROVE  RefundedSpeechFailed'
  BY <1>15 DEF Sweep, Orphans
<1>16. ASSUME NEW j \in Jobs, Poll(j)
      PROVE  RefundedSpeechFailed'
  BY <1>16 DEF Poll, VerdictOf
<1>17. ASSUME NEW j \in Jobs, Begin(j)
      PROVE  RefundedSpeechFailed'
  BY <1>17 DEF Begin, Dequeue
<1>18. ASSUME NEW j \in Jobs, Discard(j)
      PROVE  RefundedSpeechFailed'
  BY <1>18 DEF Discard, Dequeue
<1>19. ASSUME NEW j \in Jobs, End(j)
      PROVE  RefundedSpeechFailed'
  BY <1>19 DEF End
<1>20. ASSUME NEW j \in Jobs, Redeliver(j)
      PROVE  RefundedSpeechFailed'
  BY <1>20 DEF Redeliver, Enqueue
<1>21. ASSUME NEW j \in Jobs, Cancel(j)
      PROVE  RefundedSpeechFailed'
  BY <1>21 DEF Cancel
<1>22. ASSUME NEW j \in Jobs, MarkerExpires(j)
      PROVE  RefundedSpeechFailed'
  BY <1>22 DEF MarkerExpires
<1>22b. ASSUME NEW j \in Jobs, ResultExpires(j)
      PROVE  RefundedSpeechFailed'
  BY <1>22b DEF ResultExpires
<1>23. ASSUME NEW seen \in saw, PollSettles(seen)
      PROVE  RefundedSpeechFailed'
  BY <1>23 DEF PollSettles
<1>. QED
  BY <1>1, <1>2, <1>3, <1>4, <1>5, <1>6, <1>7, <1>8, <1>9, <1>10, <1>11, <1>12, <1>13, <1>14,
     <1>15, <1>16, <1>17, <1>18, <1>19, <1>20, <1>21, <1>22, <1>22b, <1>23 DEF HookNext, RequestStep,
     JobStep

\* What the answer settled stays settled.
LEMMA SettledStep ==
  ASSUME HookInv, HookNext
  PROVE  AnsweredIsSettled'
<1>. USE HookAssumption DEF Goes, Answers, SettleHeld, Trouble, Yields, requestVars,
        chargeVars, taskVars, HookInv, HookTypeOK, TrueEnds, Linking, Charging,
        AnsweredIsSettled, Jobs, Kinds
<1>1. ASSUME NEW r \in Requests, NEW k \in Kinds, NEW j \in Jobs \cup {NoJob}, Hold(r, k, j)
      PROVE  AnsweredIsSettled'
  BY <1>1 DEF Hold
<1>2. ASSUME NEW r \in Requests, Refuse(r)
      PROVE  AnsweredIsSettled'
  BY <1>2 DEF Refuse
<1>3. ASSUME NEW r \in Requests, Serve(r)
      PROVE  AnsweredIsSettled'
  BY <1>3 DEF Serve
<1>4. ASSUME NEW r \in Requests, Mark(r)
      PROVE  AnsweredIsSettled'
  BY <1>4 DEF Mark
<1>5. ASSUME NEW r \in Requests, Send(r)
      PROVE  AnsweredIsSettled'
  BY <1>5 DEF Send, Enqueue
<1>6. ASSUME NEW r \in Requests, SendFails(r)
      PROVE  AnsweredIsSettled'
  BY <1>6 DEF SendFails, Enqueue
<1>7. ASSUME NEW r \in Requests, Unmark(r)
      PROVE  AnsweredIsSettled'
  BY <1>7 DEF Unmark
<1>8. ASSUME NEW r \in Requests, Look(r)
      PROVE  AnsweredIsSettled'
  BY <1>8 DEF Look
<1>9. ASSUME NEW r \in Requests, Link(r)
      PROVE  AnsweredIsSettled'
  BY <1>9 DEF Link
<1>10. ASSUME NEW r \in Requests, LinkFails(r)
      PROVE  AnsweredIsSettled'
  BY <1>10 DEF LinkFails
<1>11. ASSUME NEW r \in Requests, Waited(r)
      PROVE  AnsweredIsSettled'
  BY <1>11 DEF Waited
<1>12. ASSUME NEW r \in Requests, NotWaited(r)
      PROVE  AnsweredIsSettled'
  BY <1>12 DEF NotWaited
<1>13. ASSUME NEW r \in Requests, Answer(r)
      PROVE  AnsweredIsSettled'
  BY <1>13 DEF Answer, RouteSettles
<1>14. ASSUME NEW r \in Requests, Dies(r)
      PROVE  AnsweredIsSettled'
  BY <1>14 DEF Dies
<1>15. ASSUME NEW r \in Requests, Sweep(r)
      PROVE  AnsweredIsSettled'
  BY <1>15 DEF Sweep, Orphans
<1>16. ASSUME NEW j \in Jobs, Poll(j)
      PROVE  AnsweredIsSettled'
  BY <1>16 DEF Poll, VerdictOf
<1>17. ASSUME NEW j \in Jobs, Begin(j)
      PROVE  AnsweredIsSettled'
  BY <1>17 DEF Begin, Dequeue
<1>18. ASSUME NEW j \in Jobs, Discard(j)
      PROVE  AnsweredIsSettled'
  BY <1>18 DEF Discard, Dequeue
<1>19. ASSUME NEW j \in Jobs, End(j)
      PROVE  AnsweredIsSettled'
  BY <1>19 DEF End
<1>20. ASSUME NEW j \in Jobs, Redeliver(j)
      PROVE  AnsweredIsSettled'
  BY <1>20 DEF Redeliver, Enqueue
<1>21. ASSUME NEW j \in Jobs, Cancel(j)
      PROVE  AnsweredIsSettled'
  BY <1>21 DEF Cancel
<1>22. ASSUME NEW j \in Jobs, MarkerExpires(j)
      PROVE  AnsweredIsSettled'
  BY <1>22 DEF MarkerExpires
<1>22b. ASSUME NEW j \in Jobs, ResultExpires(j)
      PROVE  AnsweredIsSettled'
  BY <1>22b DEF ResultExpires
<1>23. ASSUME NEW seen \in saw, PollSettles(seen)
      PROVE  AnsweredIsSettled'
  BY <1>23 DEF PollSettles
<1>. QED
  BY <1>1, <1>2, <1>3, <1>4, <1>5, <1>6, <1>7, <1>8, <1>9, <1>10, <1>11, <1>12, <1>13, <1>14,
     <1>15, <1>16, <1>17, <1>18, <1>19, <1>20, <1>21, <1>22, <1>22b, <1>23 DEF HookNext, RequestStep,
     JobStep

\* A step that changes nothing keeps the invariant.
LEMMA QuietHook ==
  ASSUME HookInv, UNCHANGED hookVars
  PROVE  HookInv'
BY DEF HookInv, HookTypeOK, TrueEnds, Linking, Charging, BookedWorkIsReal, RefundedSpeechFailed,
       AnsweredIsSettled, hookVars, requestVars, chargeVars, taskVars

\* At the beginning nothing is asked, charged or sent.
LEMMA HookBegins ==
  ASSUME HookInit
  PROVE  HookInv
<1>. USE HookAssumption DEF HookInit
<1>1. HookTypeOK
  BY DEF HookTypeOK, Places, Kinds, Ended, Jobs
<1>2. TrueEnds /\ Linking /\ Charging
  BY DEF TrueEnds, Linking, Charging
<1>3. BookedWorkIsReal /\ RefundedSpeechFailed /\ AnsweredIsSettled
  BY DEF BookedWorkIsReal, RefundedSpeechFailed, AnsweredIsSettled
<1>. QED
  BY <1>1, <1>2, <1>3 DEF HookInv

\* The invariant holds in every reachable state.
THEOREM HookInvariant == HookSpec => []HookInv
<1>1. HookInit => HookInv
  BY HookBegins
<1>2. HookInv /\ [HookNext]_hookVars => HookInv'
  <2>1. ASSUME HookInv, HookNext PROVE HookInv'
    BY <2>1, TypesStep, EndsStep, LinkingStep, ChargingStep, BookedStep, RefundStep, SettledStep
       DEF HookInv
  <2>. QED
    BY <2>1, QuietHook
<1>. QED
  BY <1>1, <1>2, PTL DEF HookSpec

\* Every variable keeps its type.
THEOREM HookTypes == HookSpec => []HookTypeOK
<1>1. HookInv => HookTypeOK
  BY DEF HookInv
<1>. QED
  BY <1>1, HookInvariant, PTL

\* Nobody pays for nothing, whoever dies, polls, repeats a key or runs a task twice.
THEOREM BookedIsReal == HookSpec => []BookedWorkIsReal
<1>1. HookInv => BookedWorkIsReal
  BY DEF HookInv
<1>. QED
  BY <1>1, HookInvariant, PTL

\* A linked charge is given back only for a speech that failed.
THEOREM RefundIsOfFailure == HookSpec => []RefundedSpeechFailed
<1>1. HookInv => RefundedSpeechFailed
  BY DEF HookInv
<1>. QED
  BY <1>1, HookInvariant, PTL

\* An answer and its charge agree once the request is over, except of speeches.
THEOREM AnswersAreSettled == HookSpec => []AnsweredIsSettled
<1>1. HookInv => AnsweredIsSettled
  BY DEF HookInv
<1>. QED
  BY <1>1, HookInvariant, PTL

-----------------------------------------------------------------------------
(* A speech is worked on once.                                             *)

\* The requests that have set the marker of a job and are not done with it.
Sending(j) == {r \in Requests : at[r] \in {"send", "unmark"} /\ job[r] = j}

\* Messages and deliveries of a job, and what lets one more request send it: there
\* is no marker.
Work(j) == queued[j] + running[j] + (IF j \in marker THEN 0 ELSE 1)

Bounded(j) == Work(j) + Cardinality(Sending(j)) <= 1 + troubles

\* Only speeches are named by a key.
KeysAreOfSpeeches == \A r \in Requests : kind[r] # "speech" => job[r] \notin Speeches

\* The marker of a speech expires that nobody sends or works on.
Frees(j) ==
    /\ Sending(j) = {} /\ Sending(j)' = {} /\ Work(j)' <= 1 /\ troubles' = troubles

\* What a step does to the work on a speech.
Same(j) == Sending(j)' = Sending(j) /\ Work(j)' - Work(j) <= troubles' - troubles
Joins(j) ==
    /\ \E r \in Requests : r \notin Sending(j) /\ Sending(j)' = Sending(j) \cup {r}
    /\ Work(j)' = Work(j) - 1 /\ troubles' = troubles
Leaves(j) ==
    /\ \E r \in Sending(j) : Sending(j)' = Sending(j) \ {r}
    /\ Work(j)' <= Work(j) + 1 /\ troubles' >= troubles

LEMMA KeysStep ==
  ASSUME HookInv, KeysAreOfSpeeches, [HookNext]_hookVars
  PROVE  KeysAreOfSpeeches'
<1>1. CASE UNCHANGED <<kind, job>>
  BY <1>1 DEF KeysAreOfSpeeches
<1>2. ASSUME NEW r \in Requests, NEW k \in Kinds, NEW j \in Jobs \cup {NoJob}, Hold(r, k, j)
      PROVE  KeysAreOfSpeeches'
  BY <1>2, HookAssumption DEF Hold, KeysAreOfSpeeches, HookInv, HookTypeOK
<1>. QED
  BY <1>1, <1>2 DEF HookNext, hookVars, requestVars, RequestStep, JobStep, Refuse, Serve, Mark, Send,
     SendFails, Unmark, Look, Link, LinkFails, Waited, NotWaited, Answer, Dies, Sweep, Poll,
     PollSettles, Begin, Discard, End, Redeliver, Cancel, MarkerExpires,
     ResultExpires, Answers, Goes

\* Every step is of one of four kinds for a speech: a request joins those that send it by
\* setting the marker, one of them leaves, the marker expires on a speech nobody sends, or
\* the work only grows with the troubles.
LEMMA WorkStep ==
  ASSUME HookInv, KeysAreOfSpeeches, NEW s \in Speeches, HookNext
  PROVE  Same(s) \/ Joins(s) \/ Leaves(s) \/ Frees(s)
<1>. USE DEF Goes, Answers, Trouble, Yields, requestVars, chargeVars, taskVars, HookInv, HookTypeOK,
        Same, Joins, Leaves, Sending, Work, Ended, Jobs
<1>1. ASSUME NEW r \in Requests, NEW k \in Kinds, NEW j \in Jobs \cup {NoJob}, Hold(r, k, j)
      PROVE  Same(s)
  BY <1>1 DEF Hold
<1>2. ASSUME NEW r \in Requests, Refuse(r)
      PROVE  Same(s)
  BY <1>2 DEF Refuse
<1>3. ASSUME NEW r \in Requests, Serve(r)
      PROVE  Same(s)
  BY <1>3 DEF Serve
<1>4. ASSUME NEW r \in Requests, Mark(r)
      PROVE  Same(s) \/ Joins(s)
  BY <1>4 DEF Mark, KeysAreOfSpeeches
<1>5. ASSUME NEW r \in Requests, Send(r)
      PROVE  Same(s) \/ Leaves(s)
  BY <1>5 DEF Send, Enqueue
<1>6. ASSUME NEW r \in Requests, SendFails(r)
      PROVE  Same(s)
  BY <1>6 DEF SendFails, Enqueue
<1>7. ASSUME NEW r \in Requests, Unmark(r)
      PROVE  Same(s) \/ Leaves(s)
  BY <1>7 DEF Unmark
<1>8. ASSUME NEW r \in Requests, Look(r)
      PROVE  Same(s)
  BY <1>8 DEF Look
<1>9. ASSUME NEW r \in Requests, Link(r)
      PROVE  Same(s)
  BY <1>9 DEF Link
<1>10. ASSUME NEW r \in Requests, LinkFails(r)
      PROVE  Same(s)
  BY <1>10 DEF LinkFails
<1>11. ASSUME NEW r \in Requests, Waited(r) \/ NotWaited(r)
      PROVE  Same(s)
  BY <1>11 DEF Waited, NotWaited
<1>12. ASSUME NEW r \in Requests, Answer(r)
      PROVE  Same(s)
  BY <1>12 DEF Answer
<1>13. ASSUME NEW r \in Requests, Dies(r)
      PROVE  Same(s) \/ Leaves(s)
  BY <1>13 DEF Dies
<1>14. ASSUME NEW r \in Requests, Sweep(r)
      PROVE  Same(s)
  BY <1>14 DEF Sweep
<1>15. ASSUME NEW j \in Jobs, Poll(j) \/ Cancel(j)
      PROVE  Same(s)
  BY <1>15 DEF Poll, Cancel
<1>16. ASSUME NEW j \in Jobs, Begin(j)
      PROVE  Same(s)
  BY <1>16 DEF Begin, Dequeue
<1>17. ASSUME NEW j \in Jobs, Discard(j)
      PROVE  Same(s)
  BY <1>17 DEF Discard, Dequeue
<1>18. ASSUME NEW j \in Jobs, End(j)
      PROVE  Same(s)
  BY <1>18 DEF End
<1>19. ASSUME NEW j \in Jobs, Redeliver(j)
      PROVE  Same(s)
  BY <1>19 DEF Redeliver, Enqueue
<1>20. ASSUME NEW j \in Jobs, MarkerExpires(j)
      PROVE  Same(s) \/ Frees(s)
  <2>1. CASE j = s
    BY <1>20, <2>1 DEF MarkerExpires, Frees
  <2>2. CASE j # s
    BY <1>20, <2>2 DEF MarkerExpires
  <2>. QED
    BY <2>1, <2>2
<1>20b. ASSUME NEW j \in Jobs, ResultExpires(j)
      PROVE  Same(s)
  BY <1>20b DEF ResultExpires
<1>21. ASSUME NEW seen \in saw, PollSettles(seen)
      PROVE  Same(s)
  BY <1>21 DEF PollSettles
<1>. QED
  BY <1>1, <1>2, <1>3, <1>4, <1>5, <1>6, <1>7, <1>8, <1>9, <1>10, <1>11, <1>12, <1>13, <1>14, <1>15, <1>16, <1>17, <1>18, <1>19, <1>20, <1>20b, <1>21
     DEF HookNext, RequestStep, JobStep

LEMMA BoundStep ==
  ASSUME IsFiniteSet(Requests), HookInv, HookTypeOK', NEW s \in Speeches, Bounded(s),
         Same(s) \/ Joins(s) \/ Leaves(s) \/ Frees(s)
  PROVE  Bounded(s)'
<1>1. /\ IsFiniteSet(Sending(s)) /\ Cardinality(Sending(s)) \in Nat
  BY FS_Subset, FS_CardinalityType DEF Sending
<1>2. Work(s) \in Int /\ Work(s)' \in Int /\ troubles \in Int /\ troubles' \in Int
  BY HookAssumption DEF HookInv, HookTypeOK, Work, Jobs
<1>3. CASE Same(s)
  BY <1>1, <1>2, <1>3 DEF Same, Bounded
<1>4. CASE Joins(s)
  <2>1. PICK r \in Requests : r \notin Sending(s) /\ Sending(s)' = Sending(s) \cup {r}
    BY <1>4 DEF Joins
  <2>2. Cardinality(Sending(s)') = Cardinality(Sending(s)) + 1
    BY <1>1, <2>1, FS_AddElement
  <2>. QED
    BY <1>1, <1>2, <1>4, <2>2 DEF Joins, Bounded
<1>5. CASE Leaves(s)
  <2>1. PICK r \in Sending(s) : Sending(s)' = Sending(s) \ {r}
    BY <1>5 DEF Leaves
  <2>2. Cardinality(Sending(s)') = Cardinality(Sending(s)) - 1
    BY <1>1, <2>1, FS_RemoveElement
  <2>. QED
    BY <1>1, <1>2, <1>5, <2>2 DEF Leaves, Bounded
<1>6. CASE Frees(s)
  BY <1>1, <1>2, <1>6, FS_EmptySet, HookAssumption DEF Frees, Bounded, HookInv, HookTypeOK
<1>. QED
  BY <1>3, <1>4, <1>5, <1>6

\* The marker set with NX keeps a speech from being sent twice: with one key it is at the
\* broker or at work no more than once, and once more at most for every command that failed,
\* process that died or task that was lost, although a marker may expire, or be taken away
\* by a request that did not set it.
THEOREM SpeechIsWorkedOnOnce ==
  ASSUME IsFiniteSet(Requests)
  PROVE  HookSpec => [](\A s \in Speeches : queued[s] + running[s] <= 1 + troubles)
<1> DEFINE Inv == KeysAreOfSpeeches /\ \A s \in Speeches : Bounded(s)
<1>1. HookInit => Inv
  <2>1. ASSUME HookInit, NEW s \in Speeches
        PROVE  Bounded(s)
    <3>1. Sending(s) = {} /\ Work(s) = 1 /\ troubles = 0
      BY <2>1 DEF HookInit, Sending, Work, Ended, Jobs
    <3>2. Cardinality({}) = 0
      BY FS_EmptySet
    <3>. QED
      BY <3>1, <3>2 DEF Bounded
  <2>2. HookInit => KeysAreOfSpeeches
    BY HookAssumption DEF HookInit, KeysAreOfSpeeches
  <2>. QED
    BY <2>1, <2>2
<1>2. HookInv /\ HookInv' /\ Inv /\ [HookNext]_hookVars => Inv'
  <2>1. ASSUME HookInv, HookInv', Inv, HookNext, NEW s \in Speeches
        PROVE  Bounded(s)'
    <3>1. Same(s) \/ Joins(s) \/ Leaves(s) \/ Frees(s)
      BY <2>1, WorkStep
    <3>2. HookTypeOK'
      BY <2>1 DEF HookInv
    <3>. QED
      BY <2>1, <3>1, <3>2, BoundStep
  <2>2. ASSUME Inv, UNCHANGED hookVars, NEW s \in Speeches
        PROVE  Bounded(s)'
    BY <2>2 DEF Bounded, Sending, Work, hookVars, requestVars, taskVars
  <2>. QED
    BY <2>1, <2>2, KeysStep
<1>3. HookInv /\ Inv => \A s \in Speeches : queued[s] + running[s] <= 1 + troubles
  <2>1. ASSUME HookInv, Inv, NEW s \in Speeches
        PROVE  queued[s] + running[s] <= 1 + troubles
    <3>1. Cardinality(Sending(s)) \in Nat
      BY FS_Subset, FS_CardinalityType DEF Sending
    <3>2. queued[s] \in Nat /\ running[s] \in Nat /\ troubles \in Nat
      BY <2>1, HookAssumption DEF HookInv, HookTypeOK, Jobs
    <3>. QED
      BY <2>1, <3>1, <3>2 DEF Bounded, Work
  <2>. QED
    BY <2>1
<1>. QED
  BY <1>1, <1>2, <1>3, HookInvariant, PTL DEF HookSpec
=============================================================================
