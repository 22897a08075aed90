--------------------------- MODULE H3Pool_proofs ----------------------------
(***************************************************************************)
(* What the pool of rented machines never does, for any number of          *)
(* deployments and administrators, any limits and any troubles.            *)
(*                                                                         *)
(* Only the loop buys machines and makes, links and closes what it swept;  *)
(* administrators only ask for rows and retire some.  The invariant says   *)
(* what the loop knows of the row at hand from one step to the next, and   *)
(* what a row's status says of its machine and of its worker.              *)
(***************************************************************************)
EXTENDS H3Pool, TLAPS, FiniteSetTheorems

\* The steps with a row at hand, those of a retirement, and those that take a
\* row that was refreshed once, or that is out of order, further.
Refreshing == {"ask", "ask_again", "note", "note_again", "link", "link_again"}
Retiring == {"look", "disable", "shut", "drop", "end"}
Further == {"ask_again", "note_again", "link_again", "inspect", "stop", "delete", "close"}
Placed == {"create", "store"} \cup Refreshing \cup Further \cup Retiring

\* Administrators ask and retire, and what they retire is disowned.
Asking ==
    \A p \in Managers :
        /\ mgr[p].step \in Placed => mgr[p].at \in Deployments
        /\ p # Loop => mgr[p].step \in RequestSteps \cup {"off"}
        /\ p # Loop /\ mgr[p].step \in Retiring => mgr[p].at \in disowned
        /\ mgr[p].step \in {"disable", "shut"} /\ mgr[p].saw # "none" =>
               row[mgr[p].at] \notin {"none", "requested"}

\* What a row says of its machine and of its worker.
Linking ==
    \A d \in Deployments :
        /\ row[d] \in {"none", "requested"} => machine[d] = "none"
        /\ row[d] \in {"none", "requested", "provisioning"} => d \notin linked
        /\ row[d] \in {"provisioning", "active", "unavailable"} => machine[d] # "none"
        /\ row[d] = "active" => d \in linked
        /\ row[d] = "unavailable" => d \in old \cup linked
        /\ machine[d] = "starting" => d \notin linked
        /\ d \in linked => worker[d] # "none"
        /\ d \in enabled => worker[d] \notin {"none", "deleted"}

\* What the loop knows of the row at hand.
Knowing ==
    LET s == mgr[Loop].step  d == mgr[Loop].at  saw == mgr[Loop].saw IN
    /\ s \in {"create", "store"} => d \notin linked /\ (d \notin disowned => row[d] = "requested")
    /\ s \in Refreshing \cup Further =>
        row[d] \notin {"none", "requested"} /\ machine[d] # "none"
    /\ s \in {"next", "decide"} =>
        \A e \in mgr[Loop].todo : row[e] \notin {"none", "requested"} /\ machine[e] # "none"
    /\ s \in {"note", "note_again"} =>
        /\ saw = "ended" => machine[d] = "ended"
        /\ saw = "pending" => d \notin linked
        /\ saw = "url" => machine[d] # "starting"
    /\ s \in {"link", "link_again"} => machine[d] # "starting" /\ worker[d] # "none"
    /\ s \in {"delete", "close"} => machine[d] = "ended"
    /\ s \in Further => d \in old \cup linked
    /\ s = "look" => machine[d] # "none"
    /\ s \in {"disable", "shut"} => saw # "none"
    /\ s \in {"drop", "end"} => machine[d] = "ended"

\* The rows the loop asked for that may still become machines: those on their
\* way, and those it has in hand to refresh.
Coming ==
    {d \in Deployments \ (old \cup extra) :
        \/ row[d] \in {"requested", "provisioning"}
        \/ mgr[Loop].step \in {"create", "store", "ask", "note", "link"} /\ d = mgr[Loop].at
        \/ /\ mgr[Loop].sweep = "warm" /\ mgr[Loop].step \in {"next"} \cup Refreshing \cup Further
           /\ d \in mgr[Loop].todo}

\* Never more than the reserve, and less than it while the loop asks for one.
Reserved ==
    /\ Cardinality(Coming) <= Reserve
    /\ mgr[Loop].step \in {"count", "insert"} => Cardinality(Coming) < Reserve

PoolInv == PoolTypeOK /\ Asking /\ Linking /\ Knowing /\ ClosedMachineHasEnded

\* A step after which no more rows are coming, nor is the loop asking for one if
\* it was not.
Fewer ==
    /\ Coming' \subseteq Coming
    /\ mgr'[Loop].step \in {"count", "insert"} => mgr[Loop].step \in {"count", "insert"}

-----------------------------------------------------------------------------

\* The loop takes the oldest requested row, or it looks at the machines first.
LEMMA ProvisionCases ==
  ASSUME NEW p \in Managers, Provision(p)
  PROVE  /\ p = Loop /\ mgr[p].step = "off"
         /\ UNCHANGED <<row, linked, old, worker, enabled, busy, machine, extra, disowned, lost, troubles>>
         /\ \/ mgr' = [mgr EXCEPT ![p].step = "list"]
            \/ \E d \in Deployments :
                 /\ row[d] = "requested"
                 /\ mgr' = [mgr EXCEPT ![p] = [step |-> "create", sweep |-> "warm", at |-> d,
                                             todo |-> {}, saw |-> "none"]]
BY ZenonT(120) DEF Provision, At, GoTo, Become, Off, rowVars, workerVars, restVars

\* The loop asks for one more machine, takes an idle one to retire, or rests.
LEMMA DecideCases ==
  ASSUME PoolInv, NEW p \in Managers, Decide(p)
  PROVE  /\ mgr[p].step = "decide"
         /\ UNCHANGED <<row, linked, old, worker, enabled, busy, machine, extra, disowned, lost, troubles>>
         /\ \E m \in Manager :
                /\ mgr' = [mgr EXCEPT ![p] = m]
                /\ \/ m.step = "count" /\ ShouldAdd
                   \/ m = Off
                   \/ m.step = "look" /\ m.at \in mgr[p].todo
<1>1. mgr[p].todo \subseteq Deployments
  BY DEF PoolInv, PoolTypeOK, Manager
<1>2. mgr[p].step = "decide"
  BY DEF Decide, At
<1>3. UNCHANGED <<row, linked, old, worker, enabled, busy, machine, extra, disowned, lost, troubles>>
  BY DEF Decide, rowVars, workerVars, restVars
<1>4. CASE ShouldAdd /\ Become(p, [Off EXCEPT !.step = "count"])
  <2>1. [Off EXCEPT !.step = "count"] \in Manager
    BY DEF Off, Manager, RequestSteps, Answers
  <2>2. [Off EXCEPT !.step = "count"].step = "count"
    BY DEF Off
  <2>. QED
    BY <1>2, <1>3, <1>4, <2>1, <2>2 DEF Become
<1>5. ASSUME NEW d \in mgr[p].todo, Become(p, [Off EXCEPT !.step = "look", !.at = d])
      PROVE  \E m \in Manager : /\ mgr' = [mgr EXCEPT ![p] = m]
                               /\ m.step = "look" /\ m.at \in mgr[p].todo
  <2>1. [Off EXCEPT !.step = "look", !.at = d] \in Manager
    BY <1>1 DEF Off, Manager, RequestSteps, Answers
  <2>2. /\ [Off EXCEPT !.step = "look", !.at = d].step = "look"
        /\ [Off EXCEPT !.step = "look", !.at = d].at = d
    BY DEF Off
  <2>. QED
    BY <1>5, <2>1, <2>2 DEF Become
<1>6. CASE Finish(p)
  <2>1. Off \in Manager
    BY DEF Off, Manager, Answers
  <2>. QED
    BY <1>2, <1>3, <1>6, <2>1 DEF Finish, Become
<1>7. CASE \E d \in mgr[p].todo : Become(p, [Off EXCEPT !.step = "look", !.at = d])
  BY <1>2, <1>3, <1>5, <1>7
<1>. QED
  BY <1>4, <1>6, <1>7 DEF Decide

\* The types are kept by every step: a row at hand is always a deployment.
LEMMA TypesStep ==
  ASSUME PoolInv, PoolNext
  PROVE  PoolTypeOK'
<1>. USE PoolAssumption DEF Become, GoTo, Finish, At, Off, SetRow, StopMachine, Trouble,
        NextRow, rowVars, workerVars, restVars, PoolInv, Asking, Placed, Refreshing, Further,
        Retiring, PoolTypeOK, Manager, LoopSteps, RequestSteps, Answers, Open, WorkerStatuses,
        Managers
<1>1. ASSUME NEW p \in Managers, Provision(p)
      PROVE  PoolTypeOK'
  BY <1>1, ProvisionCases
<1>2. ASSUME NEW p \in Managers, Create(p)
      PROVE  PoolTypeOK'
  BY <1>2 DEF Create
<1>3. ASSUME NEW p \in Managers, CreateFails(p)
      PROVE  PoolTypeOK'
  BY <1>3 DEF CreateFails, GiveUp, LoseMachine
<1>4. ASSUME NEW p \in Managers, Store(p)
      PROVE  PoolTypeOK'
  BY <1>4 DEF Store
<1>5. ASSUME NEW p \in Managers, List(p)
      PROVE  PoolTypeOK'
  BY <1>5 DEF List
<1>6. ASSUME NEW p \in Managers, Take(p)
      PROVE  PoolTypeOK'
  BY <1>6 DEF Take, MayBeStale
<1>7. ASSUME NEW p \in Managers, Pass(p)
      PROVE  PoolTypeOK'
  BY <1>7 DEF Pass
<1>8. ASSUME NEW p \in Managers, SweepEnds(p)
      PROVE  PoolTypeOK'
  BY <1>8 DEF SweepEnds
<1>9. ASSUME NEW p \in Managers, Ask(p)
      PROVE  PoolTypeOK'
  BY <1>9 DEF Ask, Possible, Again
<1>10. ASSUME NEW p \in Managers, Note(p)
      PROVE  PoolTypeOK'
  BY <1>10 DEF Note, LoseMachine, Refreshed, MustLink, Onwards, Again
<1>11. ASSUME NEW p \in Managers, CreateWorker(p)
      PROVE  PoolTypeOK'
  BY <1>11 DEF CreateWorker, MustLink, Again
<1>12. ASSUME NEW p \in Managers, Link(p)
      PROVE  PoolTypeOK'
  BY <1>12 DEF Link, Onwards, Again
<1>13. ASSUME NEW p \in Managers, Inspect(p)
      PROVE  PoolTypeOK'
  BY <1>13 DEF Inspect, Retry
<1>14. ASSUME NEW p \in Managers, Stop(p)
      PROVE  PoolTypeOK'
  BY <1>14 DEF Stop
<1>15. ASSUME NEW p \in Managers, StopFails(p)
      PROVE  PoolTypeOK'
  BY <1>15 DEF StopFails, Retry
<1>16. ASSUME NEW p \in Managers, Delete(p)
      PROVE  PoolTypeOK'
  BY <1>16 DEF Delete, DeleteWorker, Retry
<1>17. ASSUME NEW p \in Managers, Close(p)
      PROVE  PoolTypeOK'
  BY <1>17 DEF Close
<1>18. ASSUME NEW p \in Managers, Cleanup(p)
      PROVE  PoolTypeOK'
  BY <1>18 DEF Cleanup
<1>19. ASSUME NEW p \in Managers, UpdateIdle(p)
      PROVE  PoolTypeOK'
  BY <1>19 DEF UpdateIdle, Idle
<1>20. ASSUME NEW p \in Managers, Decide(p)
      PROVE  PoolTypeOK'
  BY <1>20, DecideCases
<1>21. ASSUME NEW p \in Managers, Count(p)
      PROVE  PoolTypeOK'
  BY <1>21 DEF Count
<1>22. ASSUME NEW p \in Managers, Insert(p)
      PROVE  PoolTypeOK'
  BY <1>22 DEF Insert
<1>23. ASSUME NEW p \in Managers, Look(p)
      PROVE  PoolTypeOK'
  BY <1>23 DEF Look
<1>24. ASSUME NEW p \in Managers, Disable(p)
      PROVE  PoolTypeOK'
  BY <1>24 DEF Disable
<1>25. ASSUME NEW p \in Managers, Shut(p)
      PROVE  PoolTypeOK'
  BY <1>25 DEF Shut
<1>26. ASSUME NEW p \in Managers, ShutFails(p)
      PROVE  PoolTypeOK'
  BY <1>26 DEF ShutFails
<1>27. ASSUME NEW p \in Managers, Drop(p)
      PROVE  PoolTypeOK'
  BY <1>27 DEF Drop, DeleteWorker
<1>28. ASSUME NEW p \in Managers, End(p)
      PROVE  PoolTypeOK'
  BY <1>28 DEF End
<1>29. ASSUME NEW p \in Managers, Crash(p)
      PROVE  PoolTypeOK'
  BY <1>29 DEF Crash, LoseMachine
<1>30. ASSUME NEW p \in Managers, AdminRequests(p)
      PROVE  PoolTypeOK'
  BY <1>30 DEF AdminRequests
<1>31. ASSUME NEW p \in Managers, NEW d \in Deployments, AdminRetires(p, d)
      PROVE  PoolTypeOK'
  <2>1. [Off EXCEPT !.step = "look", !.at = d] \in Manager
    OBVIOUS
  <2>2. mgr' \in [Managers -> Manager]
    BY <1>31, <2>1 DEF AdminRetires
  <2>. QED
    BY <1>31, <2>2 DEF AdminRetires
<1>32. ASSUME NEW d \in Deployments, MachineMoves(d)
      PROVE  PoolTypeOK'
  BY <1>32 DEF MachineMoves
<1>33. ASSUME NEW d \in Deployments, Probe(d)
      PROVE  PoolTypeOK'
  BY <1>33 DEF Probe, Verdicts
<1>34. ASSUME NEW d \in Deployments, BeginJob(d)
      PROVE  PoolTypeOK'
  BY <1>34 DEF BeginJob
<1>35. ASSUME NEW d \in Deployments, EndJob(d)
      PROVE  PoolTypeOK'
  BY <1>35 DEF EndJob
<1>36. ASSUME NEW d \in Deployments, Age(d)
      PROVE  PoolTypeOK'
  BY <1>36 DEF Age
<1>37. ASSUME NEW d \in Deployments, Forget(d)
      PROVE  PoolTypeOK'
  BY <1>37 DEF Forget
<1>38. ASSUME NEW p \in Managers, StoreFails(p)
      PROVE  PoolTypeOK'
  BY <1>38 DEF StoreFails, GiveUp, LoseMachine
<1>. QED
  BY <1>1, <1>2, <1>3, <1>4, <1>5, <1>6, <1>7, <1>8, <1>9, <1>10, <1>11, <1>12, <1>13, <1>14,
     <1>15, <1>16, <1>17, <1>18, <1>19, <1>20, <1>21, <1>22, <1>23, <1>24, <1>25, <1>26, <1>27,
     <1>28, <1>29, <1>30, <1>31, <1>32, <1>33, <1>34, <1>35, <1>36, <1>37, <1>38 DEF PoolNext,
     LoopStep, RequestStep

\* Administrators keep to requests and to the rows they disown.
LEMMA AskingStep ==
  ASSUME PoolInv, PoolNext
  PROVE  Asking'
<1>. USE PoolAssumption DEF Become, GoTo, Finish, At, Off, SetRow, StopMachine, Trouble,
        NextRow, rowVars, workerVars, restVars, PoolInv, Asking, Linking, Placed, Refreshing,
        Further, Retiring, PoolTypeOK, Manager, RequestSteps, Managers
<1>1. ASSUME NEW p \in Managers, Provision(p)
      PROVE  Asking'
  BY <1>1, ProvisionCases
<1>2. ASSUME NEW p \in Managers, Create(p)
      PROVE  Asking'
  BY <1>2 DEF Create
<1>3. ASSUME NEW p \in Managers, CreateFails(p)
      PROVE  Asking'
  BY <1>3 DEF CreateFails, GiveUp, LoseMachine
<1>4. ASSUME NEW p \in Managers, Store(p)
      PROVE  Asking'
  BY <1>4 DEF Store
<1>5. ASSUME NEW p \in Managers, List(p)
      PROVE  Asking'
  BY <1>5 DEF List
<1>6. ASSUME NEW p \in Managers, Take(p)
      PROVE  Asking'
  BY <1>6 DEF Take, MayBeStale
<1>7. ASSUME NEW p \in Managers, Pass(p)
      PROVE  Asking'
  BY <1>7 DEF Pass
<1>8. ASSUME NEW p \in Managers, SweepEnds(p)
      PROVE  Asking'
  BY <1>8 DEF SweepEnds
<1>9. ASSUME NEW p \in Managers, Ask(p)
      PROVE  Asking'
  BY <1>9 DEF Ask, Possible, Again
<1>10. ASSUME NEW p \in Managers, Note(p)
      PROVE  Asking'
  BY <1>10 DEF Note, LoseMachine, Refreshed, MustLink, Onwards, Again
<1>11. ASSUME NEW p \in Managers, CreateWorker(p)
      PROVE  Asking'
  BY <1>11 DEF CreateWorker, MustLink, Again
<1>12. ASSUME NEW p \in Managers, Link(p)
      PROVE  Asking'
  BY <1>12 DEF Link, Onwards, Again
<1>13. ASSUME NEW p \in Managers, Inspect(p)
      PROVE  Asking'
  BY <1>13 DEF Inspect, Retry
<1>14. ASSUME NEW p \in Managers, Stop(p)
      PROVE  Asking'
  BY <1>14 DEF Stop
<1>15. ASSUME NEW p \in Managers, StopFails(p)
      PROVE  Asking'
  BY <1>15 DEF StopFails, Retry
<1>16. ASSUME NEW p \in Managers, Delete(p)
      PROVE  Asking'
  BY <1>16 DEF Delete, DeleteWorker, Retry
<1>17. ASSUME NEW p \in Managers, Close(p)
      PROVE  Asking'
  BY <1>17 DEF Close
<1>18. ASSUME NEW p \in Managers, Cleanup(p)
      PROVE  Asking'
  BY <1>18 DEF Cleanup
<1>19. ASSUME NEW p \in Managers, UpdateIdle(p)
      PROVE  Asking'
  BY <1>19 DEF UpdateIdle, Idle
<1>20. ASSUME NEW p \in Managers, Decide(p)
      PROVE  Asking'
  BY <1>20, DecideCases
<1>21. ASSUME NEW p \in Managers, Count(p)
      PROVE  Asking'
  BY <1>21 DEF Count
<1>22. ASSUME NEW p \in Managers, Insert(p)
      PROVE  Asking'
  BY <1>22 DEF Insert
<1>23. ASSUME NEW p \in Managers, Look(p)
      PROVE  Asking'
  BY <1>23 DEF Look
<1>24. ASSUME NEW p \in Managers, Disable(p)
      PROVE  Asking'
  BY <1>24 DEF Disable
<1>25. ASSUME NEW p \in Managers, Shut(p)
      PROVE  Asking'
  BY <1>25 DEF Shut
<1>26. ASSUME NEW p \in Managers, ShutFails(p)
      PROVE  Asking'
  BY <1>26 DEF ShutFails
<1>27. ASSUME NEW p \in Managers, Drop(p)
      PROVE  Asking'
  BY <1>27 DEF Drop, DeleteWorker
<1>28. ASSUME NEW p \in Managers, End(p)
      PROVE  Asking'
  BY <1>28 DEF End
<1>29. ASSUME NEW p \in Managers, Crash(p)
      PROVE  Asking'
  BY <1>29 DEF Crash, LoseMachine
<1>30. ASSUME NEW p \in Managers, AdminRequests(p)
      PROVE  Asking'
  BY <1>30 DEF AdminRequests
<1>31. ASSUME NEW p \in Managers, NEW d \in Deployments, AdminRetires(p, d)
      PROVE  Asking'
  BY <1>31 DEF AdminRetires
<1>32. ASSUME NEW d \in Deployments, MachineMoves(d)
      PROVE  Asking'
  BY <1>32 DEF MachineMoves
<1>33. ASSUME NEW d \in Deployments, Probe(d)
      PROVE  Asking'
  BY <1>33 DEF Probe, Verdicts
<1>34. ASSUME NEW d \in Deployments, BeginJob(d)
      PROVE  Asking'
  BY <1>34 DEF BeginJob
<1>35. ASSUME NEW d \in Deployments, EndJob(d)
      PROVE  Asking'
  BY <1>35 DEF EndJob
<1>36. ASSUME NEW d \in Deployments, Age(d)
      PROVE  Asking'
  BY <1>36 DEF Age
<1>37. ASSUME NEW d \in Deployments, Forget(d)
      PROVE  Asking'
  BY <1>37 DEF Forget
<1>38. ASSUME NEW p \in Managers, StoreFails(p)
      PROVE  Asking'
  BY <1>38 DEF StoreFails, GiveUp, LoseMachine
<1>. QED
  BY <1>1, <1>2, <1>3, <1>4, <1>5, <1>6, <1>7, <1>8, <1>9, <1>10, <1>11, <1>12, <1>13, <1>14,
     <1>15, <1>16, <1>17, <1>18, <1>19, <1>20, <1>21, <1>22, <1>23, <1>24, <1>25, <1>26, <1>27,
     <1>28, <1>29, <1>30, <1>31, <1>32, <1>33, <1>34, <1>35, <1>36, <1>37, <1>38 DEF PoolNext,
     LoopStep, RequestStep

\* A row, its machine and its worker stay in keeping with one another.
LEMMA LinkingStep ==
  ASSUME PoolInv, PoolNext
  PROVE  Linking'
<1>. USE PoolAssumption DEF Become, GoTo, Finish, At, Off, SetRow, StopMachine, Trouble,
        NextRow, rowVars, workerVars, restVars, PoolInv, Asking, Linking, Knowing, Placed,
        Refreshing, Further, Retiring, PoolTypeOK, Manager, RequestSteps, Managers
<1>1. ASSUME NEW p \in Managers, Provision(p)
      PROVE  Linking'
  BY <1>1, ProvisionCases
<1>2. ASSUME NEW p \in Managers, Create(p)
      PROVE  Linking'
  BY <1>2 DEF Create
<1>3. ASSUME NEW p \in Managers, CreateFails(p)
      PROVE  Linking'
  BY <1>3 DEF CreateFails, GiveUp, LoseMachine
<1>4. ASSUME NEW p \in Managers, Store(p)
      PROVE  Linking'
  BY <1>4 DEF Store
<1>5. ASSUME NEW p \in Managers, List(p)
      PROVE  Linking'
  BY <1>5 DEF List
<1>6. ASSUME NEW p \in Managers, Take(p)
      PROVE  Linking'
  BY <1>6 DEF Take, MayBeStale
<1>7. ASSUME NEW p \in Managers, Pass(p)
      PROVE  Linking'
  BY <1>7 DEF Pass
<1>8. ASSUME NEW p \in Managers, SweepEnds(p)
      PROVE  Linking'
  BY <1>8 DEF SweepEnds
<1>9. ASSUME NEW p \in Managers, Ask(p)
      PROVE  Linking'
  BY <1>9 DEF Ask, Possible, Again
<1>10. ASSUME NEW p \in Managers, Note(p)
      PROVE  Linking'
  BY <1>10 DEF Note, LoseMachine, Refreshed, MustLink, Onwards, Again
<1>11. ASSUME NEW p \in Managers, CreateWorker(p)
      PROVE  Linking'
  BY <1>11 DEF CreateWorker, MustLink, Again
<1>12. ASSUME NEW p \in Managers, Link(p)
      PROVE  Linking'
  BY <1>12 DEF Link, Onwards, Again
<1>13. ASSUME NEW p \in Managers, Inspect(p)
      PROVE  Linking'
  BY <1>13 DEF Inspect, Retry
<1>14. ASSUME NEW p \in Managers, Stop(p)
      PROVE  Linking'
  BY <1>14 DEF Stop
<1>15. ASSUME NEW p \in Managers, StopFails(p)
      PROVE  Linking'
  BY <1>15 DEF StopFails, Retry
<1>16. ASSUME NEW p \in Managers, Delete(p)
      PROVE  Linking'
  BY <1>16 DEF Delete, DeleteWorker, Retry
<1>17. ASSUME NEW p \in Managers, Close(p)
      PROVE  Linking'
  BY <1>17 DEF Close
<1>18. ASSUME NEW p \in Managers, Cleanup(p)
      PROVE  Linking'
  BY <1>18 DEF Cleanup
<1>19. ASSUME NEW p \in Managers, UpdateIdle(p)
      PROVE  Linking'
  BY <1>19 DEF UpdateIdle, Idle
<1>20. ASSUME NEW p \in Managers, Decide(p)
      PROVE  Linking'
  BY <1>20, DecideCases
<1>21. ASSUME NEW p \in Managers, Count(p)
      PROVE  Linking'
  BY <1>21 DEF Count
<1>22. ASSUME NEW p \in Managers, Insert(p)
      PROVE  Linking'
  BY <1>22 DEF Insert
<1>23. ASSUME NEW p \in Managers, Look(p)
      PROVE  Linking'
  BY <1>23 DEF Look
<1>24. ASSUME NEW p \in Managers, Disable(p)
      PROVE  Linking'
  BY <1>24 DEF Disable
<1>25. ASSUME NEW p \in Managers, Shut(p)
      PROVE  Linking'
  BY <1>25 DEF Shut
<1>26. ASSUME NEW p \in Managers, ShutFails(p)
      PROVE  Linking'
  BY <1>26 DEF ShutFails
<1>27. ASSUME NEW p \in Managers, Drop(p)
      PROVE  Linking'
  BY <1>27 DEF Drop, DeleteWorker
<1>28. ASSUME NEW p \in Managers, End(p)
      PROVE  Linking'
  BY <1>28 DEF End
<1>29. ASSUME NEW p \in Managers, Crash(p)
      PROVE  Linking'
  BY <1>29 DEF Crash, LoseMachine
<1>30. ASSUME NEW p \in Managers, AdminRequests(p)
      PROVE  Linking'
  BY <1>30 DEF AdminRequests
<1>31. ASSUME NEW p \in Managers, NEW d \in Deployments, AdminRetires(p, d)
      PROVE  Linking'
  BY <1>31 DEF AdminRetires
<1>32. ASSUME NEW d \in Deployments, MachineMoves(d)
      PROVE  Linking'
  BY <1>32 DEF MachineMoves
<1>33. ASSUME NEW d \in Deployments, Probe(d)
      PROVE  Linking'
  BY <1>33 DEF Probe, Verdicts
<1>34. ASSUME NEW d \in Deployments, BeginJob(d)
      PROVE  Linking'
  BY <1>34 DEF BeginJob
<1>35. ASSUME NEW d \in Deployments, EndJob(d)
      PROVE  Linking'
  BY <1>35 DEF EndJob
<1>36. ASSUME NEW d \in Deployments, Age(d)
      PROVE  Linking'
  BY <1>36 DEF Age
<1>37. ASSUME NEW d \in Deployments, Forget(d)
      PROVE  Linking'
  BY <1>37 DEF Forget
<1>38. ASSUME NEW p \in Managers, StoreFails(p)
      PROVE  Linking'
  BY <1>38 DEF StoreFails, GiveUp, LoseMachine
<1>. QED
  BY <1>1, <1>2, <1>3, <1>4, <1>5, <1>6, <1>7, <1>8, <1>9, <1>10, <1>11, <1>12, <1>13, <1>14,
     <1>15, <1>16, <1>17, <1>18, <1>19, <1>20, <1>21, <1>22, <1>23, <1>24, <1>25, <1>26, <1>27,
     <1>28, <1>29, <1>30, <1>31, <1>32, <1>33, <1>34, <1>35, <1>36, <1>37, <1>38 DEF PoolNext,
     LoopStep, RequestStep

\* What the loop found out of the row at hand holds until it acts on it: machines only
\* move forward, and administrators neither unlink a row nor bring one back.
LEMMA KnowingStep ==
  ASSUME PoolInv, PoolNext
  PROVE  Knowing'
<1>. USE PoolAssumption DEF Become, GoTo, Finish, At, Off, SetRow, StopMachine, Trouble,
        NextRow, rowVars, workerVars, restVars, PoolInv, Asking, Linking, Knowing, Placed,
        Refreshing, Further, Retiring, PoolTypeOK, Manager, RequestSteps, Managers
<1>1. ASSUME NEW p \in Managers, Provision(p)
      PROVE  Knowing'
  BY <1>1, ProvisionCases
<1>2. ASSUME NEW p \in Managers, Create(p)
      PROVE  Knowing'
  BY <1>2 DEF Create
<1>3. ASSUME NEW p \in Managers, CreateFails(p)
      PROVE  Knowing'
  BY <1>3 DEF CreateFails, GiveUp, LoseMachine
<1>4. ASSUME NEW p \in Managers, Store(p)
      PROVE  Knowing'
  BY <1>4 DEF Store
<1>5. ASSUME NEW p \in Managers, List(p)
      PROVE  Knowing'
  BY <1>5 DEF List
<1>6. ASSUME NEW p \in Managers, Take(p)
      PROVE  Knowing'
  BY <1>6 DEF Take, MayBeStale
<1>7. ASSUME NEW p \in Managers, Pass(p)
      PROVE  Knowing'
  BY <1>7 DEF Pass
<1>8. ASSUME NEW p \in Managers, SweepEnds(p)
      PROVE  Knowing'
  BY <1>8 DEF SweepEnds
<1>9. ASSUME NEW p \in Managers, Ask(p)
      PROVE  Knowing'
  BY <1>9 DEF Ask, Possible, Again
<1>10. ASSUME NEW p \in Managers, Note(p)
      PROVE  Knowing'
  BY <1>10 DEF Note, LoseMachine, Refreshed, MustLink, Onwards, Again
<1>11. ASSUME NEW p \in Managers, CreateWorker(p)
      PROVE  Knowing'
  BY <1>11 DEF CreateWorker, MustLink, Again
<1>12. ASSUME NEW p \in Managers, Link(p)
      PROVE  Knowing'
  BY <1>12 DEF Link, Onwards, Again
<1>13. ASSUME NEW p \in Managers, Inspect(p)
      PROVE  Knowing'
  BY <1>13 DEF Inspect, Retry
<1>14. ASSUME NEW p \in Managers, Stop(p)
      PROVE  Knowing'
  BY <1>14 DEF Stop
<1>15. ASSUME NEW p \in Managers, StopFails(p)
      PROVE  Knowing'
  BY <1>15 DEF StopFails, Retry
<1>16. ASSUME NEW p \in Managers, Delete(p)
      PROVE  Knowing'
  BY <1>16 DEF Delete, DeleteWorker, Retry
<1>17. ASSUME NEW p \in Managers, Close(p)
      PROVE  Knowing'
  BY <1>17 DEF Close
<1>18. ASSUME NEW p \in Managers, Cleanup(p)
      PROVE  Knowing'
  BY <1>18 DEF Cleanup
<1>19. ASSUME NEW p \in Managers, UpdateIdle(p)
      PROVE  Knowing'
  BY <1>19 DEF UpdateIdle, Idle
<1>20. ASSUME NEW p \in Managers, Decide(p)
      PROVE  Knowing'
  BY <1>20, DecideCases
<1>21. ASSUME NEW p \in Managers, Count(p)
      PROVE  Knowing'
  BY <1>21 DEF Count
<1>22. ASSUME NEW p \in Managers, Insert(p)
      PROVE  Knowing'
  BY <1>22 DEF Insert
<1>23. ASSUME NEW p \in Managers, Look(p)
      PROVE  Knowing'
  BY <1>23 DEF Look
<1>24. ASSUME NEW p \in Managers, Disable(p)
      PROVE  Knowing'
  BY <1>24 DEF Disable
<1>25. ASSUME NEW p \in Managers, Shut(p)
      PROVE  Knowing'
  BY <1>25 DEF Shut
<1>26. ASSUME NEW p \in Managers, ShutFails(p)
      PROVE  Knowing'
  BY <1>26 DEF ShutFails
<1>27. ASSUME NEW p \in Managers, Drop(p)
      PROVE  Knowing'
  BY <1>27 DEF Drop, DeleteWorker
<1>28. ASSUME NEW p \in Managers, End(p)
      PROVE  Knowing'
  BY <1>28 DEF End
<1>29. ASSUME NEW p \in Managers, Crash(p)
      PROVE  Knowing'
  BY <1>29 DEF Crash, LoseMachine
<1>30. ASSUME NEW p \in Managers, AdminRequests(p)
      PROVE  Knowing'
  BY <1>30 DEF AdminRequests
<1>31. ASSUME NEW p \in Managers, NEW d \in Deployments, AdminRetires(p, d)
      PROVE  Knowing'
  BY <1>31 DEF AdminRetires
<1>32. ASSUME NEW d \in Deployments, MachineMoves(d)
      PROVE  Knowing'
  BY <1>32 DEF MachineMoves
<1>33. ASSUME NEW d \in Deployments, Probe(d)
      PROVE  Knowing'
  BY <1>33 DEF Probe, Verdicts
<1>34. ASSUME NEW d \in Deployments, BeginJob(d)
      PROVE  Knowing'
  BY <1>34 DEF BeginJob
<1>35. ASSUME NEW d \in Deployments, EndJob(d)
      PROVE  Knowing'
  BY <1>35 DEF EndJob
<1>36. ASSUME NEW d \in Deployments, Age(d)
      PROVE  Knowing'
  BY <1>36 DEF Age
<1>37. ASSUME NEW d \in Deployments, Forget(d)
      PROVE  Knowing'
  BY <1>37 DEF Forget
<1>38. ASSUME NEW p \in Managers, StoreFails(p)
      PROVE  Knowing'
  BY <1>38 DEF StoreFails, GiveUp, LoseMachine
<1>. QED
  BY <1>1, <1>2, <1>3, <1>4, <1>5, <1>6, <1>7, <1>8, <1>9, <1>10, <1>11, <1>12, <1>13, <1>14,
     <1>15, <1>16, <1>17, <1>18, <1>19, <1>20, <1>21, <1>22, <1>23, <1>24, <1>25, <1>26, <1>27,
     <1>28, <1>29, <1>30, <1>31, <1>32, <1>33, <1>34, <1>35, <1>36, <1>37, <1>38 DEF PoolNext,
     LoopStep, RequestStep

\* A row is closed when its machine has ended, or it is given up (lost).
LEMMA ClosedStep ==
  ASSUME PoolInv, PoolNext
  PROVE  ClosedMachineHasEnded'
<1>. USE PoolAssumption DEF Become, GoTo, Finish, At, Off, SetRow, StopMachine, Trouble,
        NextRow, rowVars, workerVars, restVars, PoolInv, Asking, Linking, Knowing, Placed,
        Refreshing, Further, Retiring, PoolTypeOK, Manager, RequestSteps, Managers,
        ClosedMachineHasEnded
<1>1. ASSUME NEW p \in Managers, Provision(p)
      PROVE  ClosedMachineHasEnded'
  BY <1>1, ProvisionCases
<1>2. ASSUME NEW p \in Managers, Create(p)
      PROVE  ClosedMachineHasEnded'
  BY <1>2 DEF Create
<1>3. ASSUME NEW p \in Managers, CreateFails(p)
      PROVE  ClosedMachineHasEnded'
  BY <1>3 DEF CreateFails, GiveUp, LoseMachine
<1>4. ASSUME NEW p \in Managers, Store(p)
      PROVE  ClosedMachineHasEnded'
  BY <1>4 DEF Store
<1>5. ASSUME NEW p \in Managers, List(p)
      PROVE  ClosedMachineHasEnded'
  BY <1>5 DEF List
<1>6. ASSUME NEW p \in Managers, Take(p)
      PROVE  ClosedMachineHasEnded'
  BY <1>6 DEF Take, MayBeStale
<1>7. ASSUME NEW p \in Managers, Pass(p)
      PROVE  ClosedMachineHasEnded'
  BY <1>7 DEF Pass
<1>8. ASSUME NEW p \in Managers, SweepEnds(p)
      PROVE  ClosedMachineHasEnded'
  BY <1>8 DEF SweepEnds
<1>9. ASSUME NEW p \in Managers, Ask(p)
      PROVE  ClosedMachineHasEnded'
  BY <1>9 DEF Ask, Possible, Again
<1>10. ASSUME NEW p \in Managers, Note(p)
      PROVE  ClosedMachineHasEnded'
  BY <1>10 DEF Note, LoseMachine, Refreshed, MustLink, Onwards, Again
<1>11. ASSUME NEW p \in Managers, CreateWorker(p)
      PROVE  ClosedMachineHasEnded'
  BY <1>11 DEF CreateWorker, MustLink, Again
<1>12. ASSUME NEW p \in Managers, Link(p)
      PROVE  ClosedMachineHasEnded'
  BY <1>12 DEF Link, Onwards, Again
<1>13. ASSUME NEW p \in Managers, Inspect(p)
      PROVE  ClosedMachineHasEnded'
  BY <1>13 DEF Inspect, Retry
<1>14. ASSUME NEW p \in Managers, Stop(p)
      PROVE  ClosedMachineHasEnded'
  BY <1>14 DEF Stop
<1>15. ASSUME NEW p \in Managers, StopFails(p)
      PROVE  ClosedMachineHasEnded'
  BY <1>15 DEF StopFails, Retry
<1>16. ASSUME NEW p \in Managers, Delete(p)
      PROVE  ClosedMachineHasEnded'
  BY <1>16 DEF Delete, DeleteWorker, Retry
<1>17. ASSUME NEW p \in Managers, Close(p)
      PROVE  ClosedMachineHasEnded'
  BY <1>17 DEF Close
<1>18. ASSUME NEW p \in Managers, Cleanup(p)
      PROVE  ClosedMachineHasEnded'
  BY <1>18 DEF Cleanup
<1>19. ASSUME NEW p \in Managers, UpdateIdle(p)
      PROVE  ClosedMachineHasEnded'
  BY <1>19 DEF UpdateIdle, Idle
<1>20. ASSUME NEW p \in Managers, Decide(p)
      PROVE  ClosedMachineHasEnded'
  BY <1>20, DecideCases
<1>21. ASSUME NEW p \in Managers, Count(p)
      PROVE  ClosedMachineHasEnded'
  BY <1>21 DEF Count
<1>22. ASSUME NEW p \in Managers, Insert(p)
      PROVE  ClosedMachineHasEnded'
  BY <1>22 DEF Insert
<1>23. ASSUME NEW p \in Managers, Look(p)
      PROVE  ClosedMachineHasEnded'
  BY <1>23 DEF Look
<1>24. ASSUME NEW p \in Managers, Disable(p)
      PROVE  ClosedMachineHasEnded'
  BY <1>24 DEF Disable
<1>25. ASSUME NEW p \in Managers, Shut(p)
      PROVE  ClosedMachineHasEnded'
  BY <1>25 DEF Shut
<1>26. ASSUME NEW p \in Managers, ShutFails(p)
      PROVE  ClosedMachineHasEnded'
  BY <1>26 DEF ShutFails
<1>27. ASSUME NEW p \in Managers, Drop(p)
      PROVE  ClosedMachineHasEnded'
  BY <1>27 DEF Drop, DeleteWorker
<1>28. ASSUME NEW p \in Managers, End(p)
      PROVE  ClosedMachineHasEnded'
  BY <1>28 DEF End
<1>29. ASSUME NEW p \in Managers, Crash(p)
      PROVE  ClosedMachineHasEnded'
  BY <1>29 DEF Crash, LoseMachine
<1>30. ASSUME NEW p \in Managers, AdminRequests(p)
      PROVE  ClosedMachineHasEnded'
  BY <1>30 DEF AdminRequests
<1>31. ASSUME NEW p \in Managers, NEW d \in Deployments, AdminRetires(p, d)
      PROVE  ClosedMachineHasEnded'
  BY <1>31 DEF AdminRetires
<1>32. ASSUME NEW d \in Deployments, MachineMoves(d)
      PROVE  ClosedMachineHasEnded'
  BY <1>32 DEF MachineMoves
<1>33. ASSUME NEW d \in Deployments, Probe(d)
      PROVE  ClosedMachineHasEnded'
  BY <1>33 DEF Probe, Verdicts
<1>34. ASSUME NEW d \in Deployments, BeginJob(d)
      PROVE  ClosedMachineHasEnded'
  BY <1>34 DEF BeginJob
<1>35. ASSUME NEW d \in Deployments, EndJob(d)
      PROVE  ClosedMachineHasEnded'
  BY <1>35 DEF EndJob
<1>36. ASSUME NEW d \in Deployments, Age(d)
      PROVE  ClosedMachineHasEnded'
  BY <1>36 DEF Age
<1>37. ASSUME NEW d \in Deployments, Forget(d)
      PROVE  ClosedMachineHasEnded'
  BY <1>37 DEF Forget
<1>38. ASSUME NEW p \in Managers, StoreFails(p)
      PROVE  ClosedMachineHasEnded'
  BY <1>38 DEF StoreFails, GiveUp, LoseMachine
<1>. QED
  BY <1>1, <1>2, <1>3, <1>4, <1>5, <1>6, <1>7, <1>8, <1>9, <1>10, <1>11, <1>12, <1>13, <1>14,
     <1>15, <1>16, <1>17, <1>18, <1>19, <1>20, <1>21, <1>22, <1>23, <1>24, <1>25, <1>26, <1>27,
     <1>28, <1>29, <1>30, <1>31, <1>32, <1>33, <1>34, <1>35, <1>36, <1>37, <1>38 DEF PoolNext,
     LoopStep, RequestStep

\* A step that changes nothing keeps the invariant.
LEMMA QuietPool ==
  ASSUME PoolInv, UNCHANGED poolVars
  PROVE  PoolInv'
BY DEF PoolInv, PoolTypeOK, Asking, Linking, Knowing, ClosedMachineHasEnded, poolVars, rowVars,
       workerVars, restVars

\* At the beginning there are no rows, no workers and no machines.
LEMMA PoolBegins ==
  ASSUME PoolInit
  PROVE  PoolInv
<1>. USE PoolAssumption DEF PoolInit, Off, Managers
<1>1. PoolTypeOK
  BY DEF PoolTypeOK, Manager, LoopSteps, RequestSteps, Answers, WorkerStatuses
<1>2. Asking /\ Linking /\ Knowing /\ ClosedMachineHasEnded
  BY DEF Asking, Linking, Knowing, ClosedMachineHasEnded, Placed, Refreshing, Further, Retiring
<1>. QED
  BY <1>1, <1>2 DEF PoolInv

\* The invariant holds in every reachable state.
THEOREM PoolInvariant == PoolSpec => []PoolInv
<1>1. PoolInit => PoolInv
  BY PoolBegins
<1>2. PoolInv /\ [PoolNext]_poolVars => PoolInv'
  <2>1. ASSUME PoolInv, PoolNext PROVE PoolInv'
    BY <2>1, TypesStep, AskingStep, LinkingStep, KnowingStep, ClosedStep DEF PoolInv
  <2>. QED
    BY <2>1, QuietPool
<1>. QED
  BY <1>1, <1>2, PTL DEF PoolSpec

\* Every variable keeps its type.
THEOREM PoolTypes == PoolSpec => []PoolTypeOK
<1>1. PoolInv => PoolTypeOK
  BY DEF PoolInv
<1>. QED
  BY <1>1, PoolInvariant, PTL

\* Whoever closes a row has seen its machine ended, or stopped it, through crashes and
\* failing stops, late answers and machines that move meanwhile.  Excepted are the rows
\* administrators retire and those in lost: a purchase whose answer was lost or whose
\* task id was not stored, and a machine whose status the code does not know.
THEOREM ClosedMachinesEnd == PoolSpec => []ClosedMachineHasEnded
<1>1. PoolInv => ClosedMachineHasEnded
  BY DEF PoolInv
<1>. QED
  BY <1>1, PoolInvariant, PTL

\* A machine in service has a worker, and no deleted worker is given jobs.
THEOREM ActiveMachinesWatched == PoolSpec => []ActiveIsWatched
<1>1. PoolInv => ActiveIsWatched
  BY DEF PoolInv, Linking, ActiveIsWatched
<1>. QED
  BY <1>1, PoolInvariant, PTL

-----------------------------------------------------------------------------
(* The reserve.                                                            *)

\* Every step but the loop's decision and its insertion leaves at most as many rows coming.
LEMMA FewerStep ==
  ASSUME PoolInv, PoolNext, \A p \in Managers : ~Decide(p) /\ ~Insert(p)
  PROVE  Fewer
<1>. USE PoolAssumption DEF Become, GoTo, Finish, At, Off, SetRow, StopMachine, Trouble,
        NextRow, rowVars, workerVars, restVars, PoolInv, Asking, Linking, Knowing, Placed,
        Refreshing, Further, Retiring, PoolTypeOK, Manager, RequestSteps, Managers, Coming,
        Fewer
<1>1. ASSUME NEW p \in Managers, Provision(p)
      PROVE  Fewer
  BY <1>1, ProvisionCases
<1>2. ASSUME NEW p \in Managers, Create(p)
      PROVE  Fewer
  BY <1>2 DEF Create
<1>3. ASSUME NEW p \in Managers, CreateFails(p)
      PROVE  Fewer
  BY <1>3 DEF CreateFails, GiveUp, LoseMachine
<1>4. ASSUME NEW p \in Managers, Store(p)
      PROVE  Fewer
  BY <1>4 DEF Store
<1>5. ASSUME NEW p \in Managers, List(p)
      PROVE  Fewer
  BY <1>5 DEF List
<1>6. ASSUME NEW p \in Managers, Take(p)
      PROVE  Fewer
  BY <1>6 DEF Take, MayBeStale
<1>7. ASSUME NEW p \in Managers, Pass(p)
      PROVE  Fewer
  BY <1>7 DEF Pass
<1>8. ASSUME NEW p \in Managers, SweepEnds(p)
      PROVE  Fewer
  BY <1>8 DEF SweepEnds
<1>9. ASSUME NEW p \in Managers, Ask(p)
      PROVE  Fewer
  BY <1>9 DEF Ask, Possible, Again
<1>10. ASSUME NEW p \in Managers, Note(p)
      PROVE  Fewer
  BY <1>10 DEF Note, LoseMachine, Refreshed, MustLink, Onwards, Again
<1>11. ASSUME NEW p \in Managers, CreateWorker(p)
      PROVE  Fewer
  BY <1>11 DEF CreateWorker, MustLink, Again
<1>12. ASSUME NEW p \in Managers, Link(p)
      PROVE  Fewer
  BY <1>12 DEF Link, Onwards, Again
<1>13. ASSUME NEW p \in Managers, Inspect(p)
      PROVE  Fewer
  BY <1>13 DEF Inspect, Retry
<1>14. ASSUME NEW p \in Managers, Stop(p)
      PROVE  Fewer
  BY <1>14 DEF Stop
<1>15. ASSUME NEW p \in Managers, StopFails(p)
      PROVE  Fewer
  BY <1>15 DEF StopFails, Retry
<1>16. ASSUME NEW p \in Managers, Delete(p)
      PROVE  Fewer
  BY <1>16 DEF Delete, DeleteWorker, Retry
<1>17. ASSUME NEW p \in Managers, Close(p)
      PROVE  Fewer
  BY <1>17 DEF Close
<1>18. ASSUME NEW p \in Managers, Cleanup(p)
      PROVE  Fewer
  BY <1>18 DEF Cleanup
<1>19. ASSUME NEW p \in Managers, UpdateIdle(p)
      PROVE  Fewer
  BY <1>19 DEF UpdateIdle, Idle
<1>20. ASSUME NEW p \in Managers, Count(p)
      PROVE  Fewer
  BY <1>20 DEF Count
<1>21. ASSUME NEW p \in Managers, Look(p)
      PROVE  Fewer
  BY <1>21 DEF Look
<1>22. ASSUME NEW p \in Managers, Disable(p)
      PROVE  Fewer
  BY <1>22 DEF Disable
<1>23. ASSUME NEW p \in Managers, Shut(p)
      PROVE  Fewer
  BY <1>23 DEF Shut
<1>24. ASSUME NEW p \in Managers, ShutFails(p)
      PROVE  Fewer
  BY <1>24 DEF ShutFails
<1>25. ASSUME NEW p \in Managers, Drop(p)
      PROVE  Fewer
  BY <1>25 DEF Drop, DeleteWorker
<1>26. ASSUME NEW p \in Managers, End(p)
      PROVE  Fewer
  BY <1>26 DEF End
<1>27. ASSUME NEW p \in Managers, Crash(p)
      PROVE  Fewer
  BY <1>27 DEF Crash, LoseMachine
<1>28. ASSUME NEW p \in Managers, AdminRequests(p)
      PROVE  Fewer
  BY <1>28 DEF AdminRequests
<1>29. ASSUME NEW p \in Managers, NEW d \in Deployments, AdminRetires(p, d)
      PROVE  Fewer
  BY <1>29 DEF AdminRetires
<1>30. ASSUME NEW d \in Deployments, MachineMoves(d)
      PROVE  Fewer
  BY <1>30 DEF MachineMoves
<1>31. ASSUME NEW d \in Deployments, Probe(d)
      PROVE  Fewer
  BY <1>31 DEF Probe, Verdicts
<1>32. ASSUME NEW d \in Deployments, BeginJob(d)
      PROVE  Fewer
  BY <1>32 DEF BeginJob
<1>33. ASSUME NEW d \in Deployments, EndJob(d)
      PROVE  Fewer
  BY <1>33 DEF EndJob
<1>34. ASSUME NEW d \in Deployments, Age(d)
      PROVE  Fewer
  BY <1>34 DEF Age
<1>35. ASSUME NEW d \in Deployments, Forget(d)
      PROVE  Fewer
  BY <1>35 DEF Forget
<1>36. ASSUME NEW p \in Managers, StoreFails(p)
      PROVE  Fewer
  BY <1>36 DEF StoreFails, GiveUp, LoseMachine
<1>. QED
  BY <1>1, <1>2, <1>3, <1>4, <1>5, <1>6, <1>7, <1>8, <1>9, <1>10, <1>11, <1>12, <1>13, <1>14,
     <1>15, <1>16, <1>17, <1>18, <1>19, <1>20, <1>21, <1>22, <1>23, <1>24, <1>25, <1>26, <1>27,
     <1>28, <1>29, <1>30, <1>31, <1>32, <1>33, <1>34, <1>35, <1>36 DEF PoolNext, LoopStep, RequestStep

\* As many rows as are coming can be counted, and a subset has no more members.
LEMMA ComingCounts ==
  /\ IsFiniteSet(Coming) /\ Cardinality(Coming) \in Nat
  /\ \A S \in SUBSET Coming : Cardinality(S) \in Nat /\ Cardinality(S) <= Cardinality(Coming)
<1>1. IsFiniteSet(Coming)
  BY PoolAssumption, FS_Subset DEF Coming
<1>. QED
  BY <1>1, FS_Subset, FS_CardinalityType

\* The rows coming when the loop decides are among those it counts as warming; it asks for
\* one more only if the reserve is not reached with them, or if there are none.
LEMMA DecisionSeesComing ==
  ASSUME PoolInv, mgr[Loop].step = "decide"
  PROVE  /\ ShouldAdd => Cardinality(Coming) < Reserve
         /\ Coming \subseteq Warming
<1>. USE PoolAssumption
<1>1. Coming \subseteq Warming
  BY DEF Coming, Warming, Unclosed, Open, PoolInv, Linking, Refreshing, Further
<1>2. IsFiniteSet(Warming) /\ IsFiniteSet(Healthy)
  <2>1. Warming \subseteq Deployments /\ Healthy \subseteq Deployments
    BY DEF Warming, Unclosed, Healthy, PoolInv, PoolTypeOK
  <2>. QED
    BY <2>1, FS_Subset
<1>3. Cardinality(Warming) \in Nat /\ Cardinality(Healthy) \in Nat /\ Cardinality(Coming) \in Nat
  BY <1>2, FS_CardinalityType, ComingCounts
<1>4. Cardinality(Coming) <= Cardinality(Warming)
  BY <1>1, <1>2, FS_Subset
<1>5. Reserve \in Nat /\ Reserve > 0
  BY DEF Reserve
<1>6. CASE Capacity < Reserve
  BY <1>1, <1>3, <1>4, <1>5, <1>6 DEF Capacity
<1>7. CASE Warming = {}
  <2>1. Cardinality(Warming) = 0
    BY <1>7, FS_EmptySet
  <2>. QED
    BY <1>1, <1>3, <1>4, <1>5, <2>1
<1>. QED
  BY <1>1, <1>6, <1>7 DEF ShouldAdd

\* A step after which there are fewer rows coming keeps the reserve.
LEMMA FewerKeepsReserve ==
  ASSUME Reserved, Fewer
  PROVE  Reserved'
<1>1. Cardinality(Coming') \in Nat /\ Cardinality(Coming') <= Cardinality(Coming)
  BY ComingCounts DEF Fewer
<1>2. Cardinality(Coming) \in Nat /\ Reserve \in Nat
  BY ComingCounts, PoolAssumption DEF Reserve
<1>3. Cardinality(Coming') <= Reserve
  BY <1>1, <1>2 DEF Reserved
<1>4. mgr'[Loop].step \in {"count", "insert"} => Cardinality(Coming') < Reserve
  BY <1>1, <1>2 DEF Reserved, Fewer
<1>. QED
  BY <1>3, <1>4 DEF Reserved, Reserve

\* The loop decides for one more only while there is room for it.
LEMMA DecideKeepsReserve ==
  ASSUME PoolInv, Reserved, NEW p \in Managers, Decide(p)
  PROVE  Reserved'
<1>. USE DEF PoolInv, PoolTypeOK, Manager, Managers, Asking, RequestSteps
<1>1. p = Loop /\ mgr[Loop].step = "decide"
  BY DEF Decide, At
<1>2. UNCHANGED <<row, old, extra>>
  BY DecideCases
<1>3. mgr'[Loop].step \in {"count", "look", "off"}
  BY <1>1, DecideCases DEF Off
<1>4. mgr'[Loop].step = "count" => ShouldAdd
  BY <1>1, DecideCases DEF Off
<1>5. Coming' \subseteq Coming
  BY <1>2, <1>3 DEF Coming, Refreshing, Further
<1>6. Cardinality(Coming') \in Nat /\ Cardinality(Coming') <= Cardinality(Coming)
  BY <1>5, ComingCounts
<1>7. Cardinality(Coming) \in Nat /\ Reserve \in Nat
  BY ComingCounts, PoolAssumption DEF Reserve
<1>8. Cardinality(Coming') <= Reserve
  BY <1>6, <1>7 DEF Reserved
<1>9. mgr'[Loop].step \in {"count", "insert"} => Cardinality(Coming') < Reserve
  BY <1>1, <1>3, <1>4, <1>6, <1>7, DecisionSeesComing
<1>. QED
  BY <1>8, <1>9 DEF Reserved, Reserve

\* What the loop inserts it had room for; what an administrator inserts is extra.
LEMMA InsertKeepsReserve ==
  ASSUME PoolInv, Reserved, NEW p \in Managers, Insert(p)
  PROVE  Reserved'
<1>. USE DEF PoolInv, PoolTypeOK, Manager, Managers
<1>1. PICK d \in Deployments :
        /\ row[d] = "none" /\ row' = [row EXCEPT ![d] = "requested"]
        /\ extra' = IF p \in Admins THEN extra \cup {d} ELSE extra
  BY DEF Insert, SetRow
<1>2. mgr' = [mgr EXCEPT ![p] = Off] /\ old' = old /\ mgr[p].step = "insert"
  BY DEF Insert, Finish, Become, At
<1>3. CASE p \in Admins
  <2>1. p # Loop /\ mgr'[Loop] = mgr[Loop]
    BY <1>2, <1>3, PoolAssumption
  <2>2. Coming' \subseteq Coming
    BY <1>1, <1>2, <1>3, <2>1 DEF Coming
  <2>. QED
    BY <2>1, <2>2, FewerKeepsReserve DEF Fewer
<1>4. CASE p = Loop
  <2>1. extra' = extra /\ mgr'[Loop].step = "off"
    BY <1>1, <1>2, <1>4, PoolAssumption DEF Off
  <2>2. Coming' \subseteq Coming \cup {d}
    BY <1>1, <1>2, <2>1 DEF Coming, Refreshing, Further
  <2>3. IsFiniteSet(Coming \cup {d}) /\ Cardinality(Coming \cup {d}) <= Cardinality(Coming) + 1
    <3>1. IsFiniteSet(Coming) /\ Cardinality(Coming) \in Nat
      BY ComingCounts
    <3>2. /\ IsFiniteSet(Coming \cup {d})
          /\ Cardinality(Coming \cup {d}) =
                 IF d \in Coming THEN Cardinality(Coming) ELSE Cardinality(Coming) + 1
      BY <3>1, FS_AddElement
    <3>. QED
      BY <3>1, <3>2
  <2>4. Cardinality(Coming') \in Nat /\ Cardinality(Coming \cup {d}) \in Nat
    BY <2>2, <2>3, FS_CardinalityType, FS_Subset
  <2>5. Cardinality(Coming') <= Cardinality(Coming \cup {d})
    BY <2>2, <2>3, FS_Subset
  <2>6. Cardinality(Coming) < Reserve /\ Cardinality(Coming) \in Nat /\ Reserve \in Nat
    BY <1>2, <1>4, ComingCounts, PoolAssumption DEF Reserved, Reserve
  <2>7. Cardinality(Coming') <= Reserve
    BY <2>3, <2>4, <2>5, <2>6
  <2>. QED
    BY <2>1, <2>7 DEF Reserved, Reserve
<1>. QED
  BY <1>3, <1>4

\* The loop starts one machine at a time: those it has on their way, within their grace, are
\* never more than the reserve, whatever administrators request and however often it dies.
THEOREM OneStart == PoolSpec => []OneStartAtATime
<1>1. PoolInit => Reserved
  <2>1. PoolInit => Coming = {}
    BY DEF PoolInit, Coming, Off, Managers, Refreshing, Further
  <2>2. PoolInit => mgr[Loop].step = "off"
    BY DEF PoolInit, Off, Managers
  <2>3. Reserve \in Nat /\ Cardinality({}) = 0
    BY PoolAssumption, FS_EmptySet DEF Reserve
  <2>. QED
    BY <2>1, <2>2, <2>3 DEF Reserved
<1>2. PoolInv /\ Reserved /\ [PoolNext]_poolVars => Reserved'
  <2>1. ASSUME PoolInv, Reserved, PoolNext, \A p \in Managers : ~Decide(p) /\ ~Insert(p)
        PROVE  Reserved'
    BY <2>1, FewerStep, FewerKeepsReserve
  <2>2. ASSUME PoolInv, Reserved, UNCHANGED poolVars
        PROVE  Reserved'
    BY <2>2 DEF Reserved, Reserve, Coming, poolVars, rowVars, restVars
  <2>. QED
    BY <2>1, <2>2, DecideKeepsReserve, InsertKeepsReserve
<1>3. PoolInv /\ Reserved => OneStartAtATime
  <2>1. ASSUME PoolInv, Reserved
        PROVE  OneStartAtATime
    <3> DEFINE onTheirWay ==
            {d \in Unclosed \ (old \cup extra) : row[d] \in {"requested", "provisioning"}}
    <3>1. onTheirWay \subseteq Coming
      BY DEF Unclosed, Coming
    <3>2. Cardinality(onTheirWay) \in Nat /\ Cardinality(onTheirWay) <= Cardinality(Coming)
      BY <3>1, ComingCounts
    <3>3. Cardinality(Coming) <= Reserve /\ Cardinality(Coming) \in Nat /\ Reserve \in Nat
      BY <2>1, ComingCounts, PoolAssumption DEF Reserved, Reserve
    <3>4. Cardinality(onTheirWay) <= Reserve
      BY <3>2, <3>3
    <3>. QED
      BY <3>4 DEF OneStartAtATime
  <2>. QED
    BY <2>1
<1>. QED
  BY <1>1, <1>2, <1>3, PoolInvariant, PTL DEF PoolSpec

-----------------------------------------------------------------------------
(* The maximum.                                                            *)

\* The machines the pool counts, but for those an administrator wants to be rid of.
Counted == Unclosed \ disowned

\* Those that have compared the slots with the maximum and have not inserted yet.
Inserting == {p \in Managers : mgr[p].step = "insert"}

\* A row the loop has listed, or has at hand, is open until the loop itself closes
\* it, unless an administrator retires it: refreshing it brings no row back.
Serving ==
    mgr[Loop].step \in {"next"} \cup Refreshing \cup Further =>
        /\ \A e \in mgr[Loop].todo \ disowned : row[e] \in Open
        /\ mgr[Loop].step # "next" =>
               /\ mgr[Loop].at \notin mgr[Loop].todo
               /\ mgr[Loop].at \notin disowned => row[mgr[Loop].at] \in Open

\* A step after which no more rows are open, and nobody is about to insert one who was not.
Dwindling == Counted' \subseteq Counted /\ Inserting' \subseteq Inserting

LEMMA ServingStep ==
  ASSUME PoolInv, Serving, PoolNext
  PROVE  Serving'
<1>. USE PoolAssumption DEF Become, GoTo, Finish, At, Off, SetRow, StopMachine, Trouble,
        NextRow, rowVars, workerVars, restVars, PoolInv, Asking, Linking, Knowing, Placed,
        Refreshing, Further, Retiring, PoolTypeOK, Manager, RequestSteps, Managers, Open,
        Serving
<1>1. ASSUME NEW p \in Managers, Provision(p)
      PROVE  Serving'
  BY <1>1, ProvisionCases
<1>2. ASSUME NEW p \in Managers, Create(p) \/ CreateFails(p) \/ Store(p) \/ StoreFails(p)
      PROVE  Serving'
  BY <1>2 DEF Create, CreateFails, Store, StoreFails, GiveUp, LoseMachine
<1>3. ASSUME NEW p \in Managers, List(p) \/ Take(p) \/ Pass(p) \/ SweepEnds(p)
      PROVE  Serving'
  <2>1. CASE List(p)
    BY <2>1 DEF List
  <2>2. CASE Take(p)
    BY <2>2 DEF Take, MayBeStale
  <2>3. CASE Pass(p)
    BY <2>3 DEF Pass, MayBeStale
  <2>4. CASE SweepEnds(p)
    BY <2>4 DEF SweepEnds
  <2>. QED
    BY <1>3, <2>1, <2>2, <2>3, <2>4
<1>4. ASSUME NEW p \in Managers, Ask(p)
      PROVE  Serving'
  BY <1>4 DEF Ask, Possible, Again
<1>5. ASSUME NEW p \in Managers, Note(p)
      PROVE  Serving'
  BY <1>5 DEF Note, LoseMachine, Refreshed, MustLink, Onwards, Again
<1>6. ASSUME NEW p \in Managers, CreateWorker(p) \/ Link(p)
      PROVE  Serving'
  BY <1>6 DEF CreateWorker, Link, MustLink, Onwards, Again
<1>7. ASSUME NEW p \in Managers, Inspect(p) \/ Stop(p) \/ StopFails(p)
      PROVE  Serving'
  BY <1>7 DEF Inspect, Stop, StopFails, Retry
<1>8. ASSUME NEW p \in Managers, Delete(p) \/ Close(p)
      PROVE  Serving'
  BY <1>8 DEF Delete, DeleteWorker, Close, Retry
<1>9. ASSUME NEW p \in Managers, Cleanup(p) \/ UpdateIdle(p)
      PROVE  Serving'
  BY <1>9 DEF Cleanup, UpdateIdle, Idle
<1>10. ASSUME NEW p \in Managers, Decide(p)
      PROVE  Serving'
  BY <1>10, DecideCases
<1>11. ASSUME NEW p \in Managers, Count(p) \/ Insert(p)
      PROVE  Serving'
  BY <1>11 DEF Count, Insert
<1>12. ASSUME NEW p \in Managers, Look(p) \/ Disable(p) \/ Shut(p)
      PROVE  Serving'
  BY <1>12 DEF Look, Disable, Shut
<1>13. ASSUME NEW p \in Managers, ShutFails(p) \/ Drop(p) \/ End(p)
      PROVE  Serving'
  BY <1>13 DEF ShutFails, Drop, DeleteWorker, End
<1>14. ASSUME NEW p \in Managers, Crash(p) \/ AdminRequests(p)
      PROVE  Serving'
  BY <1>14 DEF Crash, LoseMachine, AdminRequests
<1>15. ASSUME NEW p \in Managers, NEW d \in Deployments, AdminRetires(p, d)
      PROVE  Serving'
  BY <1>15 DEF AdminRetires
<1>16. ASSUME NEW d \in Deployments, MachineMoves(d) \/ Probe(d) \/ BeginJob(d) \/ EndJob(d) \/ Age(d)
      PROVE  Serving'
  BY <1>16 DEF MachineMoves, Probe, BeginJob, EndJob, Age
<1>17. ASSUME NEW d \in Deployments, Forget(d)
      PROVE  Serving'
  BY <1>17 DEF Forget
<1>. QED
  BY <1>1, <1>2, <1>3, <1>4, <1>5, <1>6, <1>7, <1>8, <1>9, <1>10, <1>11, <1>12, <1>13, <1>14, <1>15, <1>16, <1>17
     DEF PoolNext, LoopStep, RequestStep

\* Every step but a comparison with the maximum and an insertion leaves at most as many rows.
LEMMA DwindlingStep ==
  ASSUME PoolInv, Serving, PoolNext, \A p \in Managers : ~Count(p) /\ ~Insert(p)
  PROVE  Dwindling
<1>. USE PoolAssumption DEF Become, GoTo, Finish, At, Off, SetRow, StopMachine, Trouble,
        NextRow, rowVars, workerVars, restVars, PoolInv, Asking, Linking, Knowing, Placed,
        Refreshing, Further, Retiring, PoolTypeOK, Manager, RequestSteps, Managers, Open,
        Serving,
        Unclosed, Counted, Inserting, Dwindling
<1>1. ASSUME NEW p \in Managers, Provision(p)
      PROVE  Dwindling
  BY <1>1, ProvisionCases
<1>2. ASSUME NEW p \in Managers, Create(p) \/ CreateFails(p) \/ Store(p) \/ StoreFails(p)
      PROVE  Dwindling
  BY <1>2 DEF Create, CreateFails, Store, StoreFails, GiveUp, LoseMachine
<1>3. ASSUME NEW p \in Managers, List(p) \/ Take(p) \/ Pass(p) \/ SweepEnds(p)
      PROVE  Dwindling
  <2>1. CASE List(p)
    BY <2>1 DEF List
  <2>2. CASE Take(p)
    BY <2>2 DEF Take, MayBeStale
  <2>3. CASE Pass(p)
    BY <2>3 DEF Pass, MayBeStale
  <2>4. CASE SweepEnds(p)
    BY <2>4 DEF SweepEnds
  <2>. QED
    BY <1>3, <2>1, <2>2, <2>3, <2>4
<1>4. ASSUME NEW p \in Managers, Ask(p)
      PROVE  Dwindling
  BY <1>4 DEF Ask, Possible, Again
<1>5. ASSUME NEW p \in Managers, Note(p)
      PROVE  Dwindling
  BY <1>5 DEF Note, LoseMachine, Refreshed, MustLink, Onwards, Again
<1>6. ASSUME NEW p \in Managers, CreateWorker(p) \/ Link(p)
      PROVE  Dwindling
  BY <1>6 DEF CreateWorker, Link, MustLink, Onwards, Again
<1>7. ASSUME NEW p \in Managers, Inspect(p) \/ Stop(p) \/ StopFails(p)
      PROVE  Dwindling
  BY <1>7 DEF Inspect, Stop, StopFails, Retry
<1>8. ASSUME NEW p \in Managers, Delete(p) \/ Close(p)
      PROVE  Dwindling
  BY <1>8 DEF Delete, DeleteWorker, Close, Retry
<1>9. ASSUME NEW p \in Managers, Cleanup(p) \/ UpdateIdle(p)
      PROVE  Dwindling
  BY <1>9 DEF Cleanup, UpdateIdle, Idle
<1>10. ASSUME NEW p \in Managers, Decide(p)
      PROVE  Dwindling
  BY <1>10, DecideCases
<1>11. ASSUME NEW p \in Managers, Look(p) \/ Disable(p) \/ Shut(p)
      PROVE  Dwindling
  BY <1>11 DEF Look, Disable, Shut
<1>12. ASSUME NEW p \in Managers, ShutFails(p) \/ Drop(p) \/ End(p)
      PROVE  Dwindling
  BY <1>12 DEF ShutFails, Drop, DeleteWorker, End
<1>13. ASSUME NEW p \in Managers, Crash(p) \/ AdminRequests(p)
      PROVE  Dwindling
  BY <1>13 DEF Crash, LoseMachine, AdminRequests
<1>14. ASSUME NEW p \in Managers, NEW d \in Deployments, AdminRetires(p, d)
      PROVE  Dwindling
  BY <1>14 DEF AdminRetires
<1>15. ASSUME NEW d \in Deployments, MachineMoves(d) \/ Probe(d) \/ BeginJob(d) \/ EndJob(d) \/ Age(d)
      PROVE  Dwindling
  BY <1>15 DEF MachineMoves, Probe, BeginJob, EndJob, Age
<1>16. ASSUME NEW d \in Deployments, Forget(d)
      PROVE  Dwindling
  BY <1>16 DEF Forget
<1>. QED
  BY <1>1, <1>2, <1>3, <1>4, <1>5, <1>6, <1>7, <1>8, <1>9, <1>10, <1>11, <1>12, <1>13, <1>14, <1>15, <1>16
     DEF PoolNext, LoopStep, RequestStep

LEMMA CountedIsFinite ==
  IsFiniteSet(Counted) /\ Cardinality(Counted) \in Nat /\ Counted \subseteq Unclosed
  /\ IsFiniteSet(Unclosed) /\ Cardinality(Unclosed) \in Nat
  /\ Cardinality(Counted) <= Cardinality(Unclosed)
<1>1. IsFiniteSet(Unclosed) /\ Counted \subseteq Unclosed
  BY PoolAssumption, FS_Subset DEF Unclosed, Counted
<1>2. IsFiniteSet(Counted) /\ Cardinality(Counted) <= Cardinality(Unclosed)
  BY <1>1, FS_Subset
<1>. QED
  BY <1>1, <1>2, FS_CardinalityType

LEMMA FewManagers ==
  ASSUME IsFiniteSet(Admins), NEW S \in SUBSET Managers
  PROVE  /\ IsFiniteSet(S) /\ Cardinality(S) \in Nat /\ Cardinality(Admins) \in Nat
         /\ Cardinality(S) <= Cardinality(Admins) + 1
<1>1. Cardinality(Admins) \in Nat
  BY FS_CardinalityType
<1>2. IsFiniteSet(Managers) /\ Cardinality(Managers) = Cardinality(Admins) + 1
  <2>1. Managers = Admins \cup {Loop} /\ Loop \notin Admins
    BY PoolAssumption DEF Managers
  <2>. QED
    BY <2>1, FS_AddElement
<1>3. IsFiniteSet(S) /\ Cardinality(S) <= Cardinality(Managers)
  BY <1>2, FS_Subset
<1>. QED
  BY <1>1, <1>2, <1>3, FS_CardinalityType

\* At most one process for every administrator, and the loop, has compared and not inserted.
LEMMA InsertingIsFinite ==
  ASSUME IsFiniteSet(Admins)
  PROVE  /\ IsFiniteSet(Inserting) /\ Cardinality(Inserting) \in Nat
         /\ Cardinality(Admins) \in Nat
BY FewManagers DEF Inserting

\* Whoever has compared may insert: the slots they were shown are still theirs together
\* with the rows there are, but for one that each administrator may find taken.
Bounded ==
    Cardinality(Counted) + Cardinality(Inserting) <= MaxWorkers + Cardinality(Admins)

\* One who compares finds fewer open rows than the maximum.
LEMMA CountKeepsBound ==
  ASSUME IsFiniteSet(Admins), PoolInv, Bounded, NEW p \in Managers, Count(p)
  PROVE  Bounded'
<1>1. Counted' = Counted
  BY DEF Count, Counted, Unclosed, rowVars, restVars
<1>2. CASE MayAdd
  <2>1. Cardinality(Unclosed) < MaxWorkers
    <3>1. IsFiniteSet(Healthy \ (Unclosed \cap linked))
      <4>1. Healthy \subseteq Deployments
        BY DEF Healthy, PoolInv, PoolTypeOK
      <4>. QED
        BY <4>1, PoolAssumption, FS_Subset
    <3>2. Cardinality(Healthy \ (Unclosed \cap linked)) \in Nat
      BY <3>1, FS_CardinalityType
    <3>. QED
      BY <1>2, <3>2, CountedIsFinite, PoolAssumption DEF MayAdd, Slots
  <2>2. Cardinality(Counted) + 1 <= MaxWorkers
    BY <2>1, CountedIsFinite, PoolAssumption
  <2>3. /\ Cardinality(Inserting') \in Nat /\ Cardinality(Admins) \in Nat
        /\ Cardinality(Inserting') <= Cardinality(Admins) + 1
    <3>1. Inserting' \in SUBSET Managers
      BY DEF Inserting, Managers
    <3>. QED
      BY <3>1, FewManagers
  <2>. QED
    BY <1>1, <2>2, <2>3, CountedIsFinite, PoolAssumption DEF Bounded
<1>3. CASE Finish(p)
  <2>1. Inserting' \subseteq Inserting
    BY <1>3 DEF Inserting, Finish, Become, Off, Managers, PoolInv, PoolTypeOK
  <2>2. /\ Cardinality(Inserting') \in Nat /\ Cardinality(Inserting) \in Nat
        /\ Cardinality(Inserting') <= Cardinality(Inserting)
    BY <2>1, InsertingIsFinite, FS_Subset, FS_CardinalityType
  <2>3. Cardinality(Admins) \in Nat
    BY InsertingIsFinite
  <2>. QED
    BY <1>1, <2>2, <2>3, CountedIsFinite, PoolAssumption DEF Bounded
<1>. QED
  BY <1>2, <1>3 DEF Count

\* Its row takes the place it was counted for.
LEMMA InsertKeepsBound ==
  ASSUME IsFiniteSet(Admins), PoolInv, Bounded, NEW p \in Managers, Insert(p)
  PROVE  Bounded'
<1>1. PICK d \in Deployments : row[d] = "none" /\ SetRow(d, "requested")
  BY DEF Insert
<1>2. Counted' \subseteq Counted \cup {d}
  BY <1>1 DEF Insert, Counted, Unclosed, SetRow, Open, PoolInv, PoolTypeOK
<1>3. p \in Inserting /\ Inserting' \subseteq Inserting \ {p}
  BY DEF Insert, At, Inserting, Finish, Become, Off, Managers, PoolInv, PoolTypeOK
<1>4. /\ IsFiniteSet(Counted \cup {d})
      /\ Cardinality(Counted \cup {d}) <= Cardinality(Counted) + 1
  <2>1. /\ IsFiniteSet(Counted \cup {d})
        /\ Cardinality(Counted \cup {d}) =
               IF d \in Counted THEN Cardinality(Counted) ELSE Cardinality(Counted) + 1
    BY CountedIsFinite, FS_AddElement
  <2>. QED
    BY <2>1, CountedIsFinite
<1>5. /\ IsFiniteSet(Inserting \ {p})
      /\ Cardinality(Inserting \ {p}) = Cardinality(Inserting) - 1
  BY <1>3, InsertingIsFinite, FS_RemoveElement
<1>6. /\ Cardinality(Counted') <= Cardinality(Counted \cup {d})
      /\ Cardinality(Counted') \in Nat /\ Cardinality(Counted \cup {d}) \in Nat
  BY <1>2, <1>4, FS_Subset, FS_CardinalityType
<1>7. /\ Cardinality(Inserting') <= Cardinality(Inserting \ {p})
      /\ Cardinality(Inserting') \in Nat /\ Cardinality(Inserting \ {p}) \in Nat
  BY <1>3, <1>5, FS_Subset, FS_CardinalityType
<1>. QED
  BY <1>4, <1>5, <1>6, <1>7, CountedIsFinite, InsertingIsFinite, PoolAssumption DEF Bounded

\* The check of request_worker and its insertion are two transactions, so the maximum may
\* be passed, but only by administrators whose requests run beside each other or the loop:
\* by one row for each of them, and never by the loop alone.  Rows that an administrator
\* has ordered away are not counted.
THEOREM PoolWithinMaximum ==
  ASSUME IsFiniteSet(Admins)
  PROVE  PoolSpec => [](Cardinality(Counted) <= MaxWorkers + Cardinality(Admins))
<1>1. PoolInit => Bounded /\ Serving
  <2>1. PoolInit => Counted = {} /\ Inserting = {}
    BY DEF PoolInit, Counted, Unclosed, Open, Inserting, Off
  <2>2. Cardinality({}) = 0
    BY FS_EmptySet
  <2>3. Cardinality(Admins) \in Nat
    BY InsertingIsFinite
  <2>4. PoolInit => Serving
    BY DEF PoolInit, Serving, Off, Managers, Refreshing, Further
  <2>. QED
    BY <2>1, <2>2, <2>3, <2>4, PoolAssumption DEF Bounded
<1>2. PoolInv /\ Bounded /\ Serving /\ [PoolNext]_poolVars => (Bounded /\ Serving)'
  <2>1. ASSUME PoolInv, Serving, PoolNext
        PROVE  Serving'
    BY <2>1, ServingStep
  <2>2. ASSUME PoolInv, Bounded, Serving, PoolNext, \A p \in Managers : ~Count(p) /\ ~Insert(p)
        PROVE  Bounded'
    <3>1. Counted' \subseteq Counted /\ Inserting' \subseteq Inserting
      BY <2>2, DwindlingStep DEF Dwindling
    <3>2. /\ Cardinality(Counted') <= Cardinality(Counted) /\ Cardinality(Counted') \in Nat
          /\ Cardinality(Inserting') <= Cardinality(Inserting)
          /\ Cardinality(Inserting') \in Nat
      BY <3>1, CountedIsFinite, InsertingIsFinite, FS_Subset, FS_CardinalityType
    <3>. QED
      BY <2>2, <3>2, CountedIsFinite, InsertingIsFinite, PoolAssumption DEF Bounded
  <2>3. ASSUME PoolInv, Bounded, Serving, UNCHANGED poolVars
        PROVE  (Bounded /\ Serving)'
    BY <2>3 DEF Bounded, Serving, Counted, Unclosed, Inserting, poolVars, rowVars, restVars
  <2>. QED
    BY <2>1, <2>2, <2>3, CountKeepsBound, InsertKeepsBound
<1>3. Bounded => Cardinality(Counted) <= MaxWorkers + Cardinality(Admins)
  BY CountedIsFinite, InsertingIsFinite, PoolAssumption DEF Bounded
<1>. QED
  BY <1>1, <1>2, <1>3, PoolInvariant, PTL DEF PoolSpec
=============================================================================
