-------------------------- MODULE SlotGate_proofs --------------------------
(***************************************************************************)
(* The rank argument of concurrency.py, for any number of calls and any    *)
(* limits: if tickets reach the set in the order in which they were drawn  *)
(* and no live process misses its heartbeats for a whole TTL, the gate     *)
(* never lets in more holders than the largest limit one of them read.     *)
(* And what it gives back: in any order and with any stalls, no ticket is  *)
(* left that nobody can reap.                                              *)
(***************************************************************************)
EXTENDS SlotGate, FiniteSetTheorems, WellFoundedInduction, TLAPS

\* Tickets are strictly ordered, and any two of them can be compared as soon as
\* one is in the set or on its way.
Ordered ==
    /\ \A a \in Owners : a \notin ahead[a]
    /\ \A a, b, c \in Owners : a \in ahead[b] /\ b \in ahead[c] => a \in ahead[c]

\* A call whose ticket neither is in the set nor is on its way there.
Absent(o) == o \notin tickets /\ pc[o] # "add_ticket"

Total ==
    \A a, b \in Owners :
        a # b => a \in ahead[b] \/ b \in ahead[a] \/ (Absent(a) /\ Absent(b))

\* A claim starts without an expiry entry.
NoOldExpiry ==
    \A o \in Owners :
        pc[o] \in {"idle", "wait", "reap", "reap_expiry", "reap_tickets", "incr",
                   "add_ticket", "add_expiry"} => expiry[o] = "none"

\* Only calls that are over are ever reaped.
ReapsTheDead ==
    /\ \A o \in Owners : expiry[o] = "expired" => pc[o] \in Ended
    /\ \A q \in Owners, o \in Owners : o \in stale[q] => pc[o] \in Ended

\* The ticket of a claim in progress and of a holder stays in the set.
KeepsTicket ==
    \A o \in Owners : pc[o] \in {"add_expiry", "rank", "holding"} => o \in tickets

\* A holder's rank never grows after it was checked.
Ranked == \A h \in Holders : Rank(h) < lim[h]

GateInv == TypeOK /\ Ordered /\ Total /\ NoOldExpiry /\ ReapsTheDead /\ KeepsTicket /\ Ranked

-----------------------------------------------------------------------------

\* A rank counts a finite set, so it is a natural number.
LEMMA FiniteRank ==
  ASSUME NEW S, S \subseteq Owners
  PROVE  IsFiniteSet(S) /\ Cardinality(S) \in Nat
  BY OwnersAssumption, FS_Subset, FS_CardinalityType

\* Every non-empty set of natural numbers below a bound has a largest element.
LEMMA LargestBelow ==
  ASSUME NEW T \in SUBSET Nat, T # {}, NEW n \in Nat, \A t \in T : t <= n
  PROVE  \E m \in T : \A t \in T : t <= m
<1>. DEFINE U == {n - t : t \in T}
<1>1. U \subseteq Nat /\ U # {}
  <2>1. \A t \in T : n - t \in Nat
    OBVIOUS
  <2>2. PICK t \in T : TRUE
    OBVIOUS
  <2>3. n - t \in U
    OBVIOUS
  <2>. QED
    BY <2>1, <2>3
<1>2. PICK u \in U : \A v \in U : ~ (<<v, u>> \in OpToRel(<, Nat))
  BY <1>1, NatLessThanWellFounded, WFMin
<1>3. \A v \in U : u <= v
  <2>0. SUFFICES ASSUME NEW v \in U, v < u PROVE FALSE
    <3>1. \A v \in U : v \in Int /\ u \in Int
      BY <1>1
    <3>. HIDE DEF U
    <3>. QED
      BY <3>1
  <2>1. <<v, u>> \in Nat \X Nat /\ <<v, u>>[1] < <<v, u>>[2]
    BY <1>1, <2>0
  <2>2. <<v, u>> \in OpToRel(<, Nat)
    BY <2>1, Zenon DEF OpToRel
  <2>. QED
    BY <1>2, <2>2
<1>4. PICK m \in T : u = n - m
  OBVIOUS
<1>5. ASSUME NEW t \in T PROVE t <= m
  <2>1. n - t \in U
    OBVIOUS
  <2>2. n - m <= n - t
    BY <1>3, <1>4, <2>1
  <2>3. t \in Nat /\ m \in Nat
    OBVIOUS
  <2>. HIDE DEF U
  <2>. QED
    BY <2>2, <2>3, SMT
<1>. QED
  BY <1>5

\* The invariant implies the property: the holder that came last outranks all
\* the others, so its rank, which is below its limit, counts them.
LEMMA LastHolder == GateInv => HoldersWithinLimit
<1>. SUFFICES ASSUME GateInv, Holders # {}
              PROVE  \E h \in Holders : Cardinality(Holders) <= lim[h]
     BY DEF HoldersWithinLimit
<1>. USE DEF GateInv
<1>1. Holders \subseteq Owners /\ Holders \subseteq tickets /\ tickets \subseteq Owners
  BY DEF Holders, KeepsTicket, TypeOK
<1>2. \A S \in SUBSET Owners : IsFiniteSet(S) /\ Cardinality(S) \in Nat
  BY FiniteRank
<1>3. \A h \in Holders : Rank(h) \in Nat /\ Rank(h) <= Cardinality(Owners)
  <2>. SUFFICES ASSUME NEW h \in Holders
                PROVE  Rank(h) \in Nat /\ Rank(h) <= Cardinality(Owners)
       OBVIOUS
  <2>1. ahead[h] \cap tickets \subseteq Owners
    BY <1>1
  <2>. QED
    BY <1>2, <2>1, OwnersAssumption, FS_Subset DEF Rank
<1>4. PICK h \in Holders : \A q \in Holders : Rank(q) <= Rank(h)
  <2>. DEFINE T == {Rank(q) : q \in Holders}
  <2>1. T \in SUBSET Nat /\ T # {} /\ \A t \in T : t <= Cardinality(Owners)
    BY <1>3
  <2>2. Cardinality(Owners) \in Nat
    BY <1>2
  <2>. HIDE DEF T
  <2>3. PICK m \in T : \A t \in T : t <= m
    BY <2>1, <2>2, LargestBelow
  <2>. QED
    BY <2>3 DEF T
<1>5. \A q \in Holders : q # h => q \in ahead[h]
  <2>. SUFFICES ASSUME NEW q \in Holders, q # h, q \notin ahead[h]
                PROVE  FALSE
       OBVIOUS
  <2>1. h \in ahead[q]
    BY <1>1 DEF Total, Absent
  <2>. DEFINE A == ahead[h] \cap tickets
              B == ahead[q] \cap tickets
  <2>2. A \subseteq B
    BY <1>1, <2>1 DEF Ordered, TypeOK
  <2>3. h \in B /\ B \subseteq Owners
    BY <1>1, <2>1
  <2>4. h \notin A
    BY <1>1 DEF Ordered
  <2>5. IsFiniteSet(A) /\ IsFiniteSet(B) /\ Cardinality(A) \in Nat /\ Cardinality(B) \in Nat
    BY <1>1, <1>2, <2>2, <2>3
  <2>6. Cardinality(A \cup {h}) = Cardinality(A) + 1
    BY <2>4, <2>5, FS_AddElement
  <2>7. Cardinality(A \cup {h}) <= Cardinality(B)
    BY <2>2, <2>3, <2>5, FS_Subset
  <2>8. Cardinality(B) <= Cardinality(A)
    BY <1>4 DEF Rank
  <2>. QED
    BY <2>5, <2>6, <2>7, <2>8
<1>6. Holders \ {h} \subseteq ahead[h] \cap tickets
  BY <1>1, <1>5
<1>7. Cardinality(Holders \ {h}) = Cardinality(Holders) - 1
  BY <1>1, <1>2, FS_RemoveElement
<1>8. Cardinality(Holders \ {h}) <= Rank(h)
  BY <1>1, <1>2, <1>6, FS_Subset DEF Rank
<1>9. Rank(h) < lim[h]
  BY DEF Ranked
<1>10. lim[h] \in Nat /\ Cardinality(Holders) \in Nat
  BY <1>1, <1>2, LimitsAssumption DEF TypeOK
<1>. QED
  BY <1>3, <1>7, <1>8, <1>9, <1>10

-----------------------------------------------------------------------------
(* The invariant is inductive.                                             *)

\* An empty gate satisfies the invariant.
LEMMA GateInit == Init => GateInv
  BY LimitsAssumption
  DEF Init, GateInv, TypeOK, Pcs, Ordered, Total, Absent, NoOldExpiry, ReapsTheDead, Ended,
      KeepsTicket, Ranked, Holders

\* A rank does not grow when the tickets it counts become fewer.
LEMMA RankShrinks ==
  ASSUME NEW A, NEW B \in SUBSET Owners, A \subseteq B
  PROVE  Cardinality(A) \in Nat /\ Cardinality(B) \in Nat /\ Cardinality(A) <= Cardinality(B)
<1>1. A \in SUBSET Owners
  OBVIOUS
<1>. QED
  BY <1>1, FiniteRank, FS_Subset

\* The ordered gate takes only steps of the gate.
LEMMA OrderedIsNext == [OrderedNext]_vars => [Next]_vars
  BY DEF OrderedNext, Next

\* Every Redis command keeps the types.
LEMMA GateTypeStep ==
  ASSUME TypeOK, [Next]_vars
  PROVE  TypeOK'
<1>. USE DEF TypeOK, Pcs, Ended, GoTo
<1>1. CASE SetLimit
  BY <1>1 DEF SetLimit
<1>2. CASE UNCHANGED vars
  BY <1>2 DEF vars
<1>3. ASSUME NEW o \in Owners, ClaimStep(o) PROVE TypeOK'
  <2>1. CASE ReadLimit(o)
    BY <2>1 DEF ReadLimit
  <2>2. CASE FindStale(o)
    BY <2>2 DEF FindStale
  <2>3. CASE ReapExpiry(o)
    BY <2>3 DEF ReapExpiry
  <2>4. CASE ReapTickets(o)
    BY <2>4 DEF ReapTickets
  <2>5. CASE DrawTicket(o)
    BY <2>5 DEF DrawTicket
  <2>6. CASE AddExpiry(o)
    BY <2>6 DEF AddExpiry
  <2>7. CASE LostTicket(o) \/ Enter(o) \/ TooLate(o)
    BY <2>7 DEF LostTicket, Enter, TooLate
  <2>8. CASE RemoveTicket(o)
    BY <2>8 DEF RemoveTicket
  <2>9. CASE RemoveExpiry(o)
    BY <2>9 DEF RemoveExpiry
  <2>. QED
    BY <1>3, <2>1, <2>2, <2>3, <2>4, <2>5, <2>6, <2>7, <2>8, <2>9 DEF ClaimStep
<1>4. ASSUME NEW o \in Owners, AddTicket(o) PROVE TypeOK'
  BY <1>4 DEF AddTicket
<1>5. ASSUME NEW o \in Owners, Beat(o) \/ Finish(o) PROVE TypeOK'
  BY <1>5 DEF Beat, Finish
<1>6. ASSUME NEW o \in Owners, Fault(o) PROVE TypeOK'
  BY <1>6 DEF Fault, ReleaseFails, Die, Expire, GiveUp
<1>. QED
  BY <1>1, <1>2, <1>3, <1>4, <1>5, <1>6 DEF Next, QuietStep

\* A new ticket comes after all others, and only a new ticket changes the order.
LEMMA OrderStep ==
  ASSUME GateInv, [OrderedNext]_vars
  PROVE  Ordered' /\ Total'
<1>. USE DEF GateInv
<1>1. ASSUME NEW o \in Owners, DrawTicket(o) PROVE Ordered' /\ Total'
  <2>1. \A q \in Owners : ahead'[q] = IF q = o THEN Owners \ {o} ELSE ahead[q] \ {o}
    BY <1>1 DEF DrawTicket
  <2>2. Ordered'
    <3>1. ASSUME NEW a \in Owners PROVE a \notin ahead'[a]
      BY <2>1 DEF Ordered
    <3>2. ASSUME NEW a \in Owners, NEW b \in Owners, NEW c \in Owners,
                 a \in ahead'[b], b \in ahead'[c]
          PROVE  a \in ahead'[c]
      <4>1. a # o
        BY <2>1, <3>2
      <4>2. CASE c = o
        BY <2>1, <4>1, <4>2
      <4>3. CASE c # o
        <5>1. b # o /\ b \in ahead[c] /\ a \in ahead[b]
          BY <2>1, <3>2, <4>3
        <5>. QED
          BY <2>1, <4>1, <4>3, <5>1 DEF Ordered
      <4>. QED
        BY <4>2, <4>3
    <3>. QED
      BY <3>1, <3>2 DEF Ordered
  <2>3. \A q \in Owners : q # o /\ Absent(q) => Absent(q)'
    BY <1>1 DEF DrawTicket, GoTo, Absent, TypeOK
  <2>4. Total'
    BY <2>1, <2>3 DEF Total
  <2>. QED
    BY <2>2, <2>4
<1>2. ASSUME ahead' = ahead, \A o \in Owners : Absent(o) => Absent(o)'
      PROVE  Ordered' /\ Total'
  BY <1>2 DEF Ordered, Total
<1>3. CASE SetLimit \/ UNCHANGED vars
  BY <1>2, <1>3 DEF SetLimit, vars, Absent
<1>4. ASSUME NEW o \in Owners, ClaimStep(o), ~DrawTicket(o) PROVE Ordered' /\ Total'
  <2>1. ahead' = ahead /\ tickets' \subseteq tickets
    BY <1>4 DEF ClaimStep, ReadLimit, FindStale, ReapExpiry, ReapTickets, AddExpiry,
                LostTicket, Enter, TooLate, RemoveTicket, RemoveExpiry
  <2>2. \A q \in Owners : pc'[q] = "add_ticket" => pc[q] = "add_ticket"
    BY <1>4 DEF ClaimStep, ReadLimit, FindStale, ReapExpiry, ReapTickets, AddExpiry, GoTo,
                LostTicket, Enter, TooLate, RemoveTicket, RemoveExpiry, TypeOK
  <2>. QED
    BY <1>2, <2>1, <2>2 DEF Absent
<1>5. ASSUME NEW o \in Owners, AddTicket(o) PROVE Ordered' /\ Total'
  BY <1>2, <1>5 DEF AddTicket, GoTo, Absent, TypeOK
<1>6. ASSUME NEW o \in Owners, Beat(o) \/ Finish(o) \/ Fault(o) PROVE Ordered' /\ Total'
  <2>1. ahead' = ahead /\ tickets' = tickets
    BY <1>6 DEF Beat, Finish, Fault, ReleaseFails, Die, Expire, GiveUp
  <2>2. \A q \in Owners : pc'[q] = "add_ticket" => pc[q] = "add_ticket"
    BY <1>6 DEF Beat, Finish, Fault, ReleaseFails, Die, Expire, GiveUp, GoTo, TypeOK
  <2>. QED
    BY <1>2, <2>1, <2>2 DEF Absent
<1>. QED
  BY <1>1, <1>3, <1>4, <1>5, <1>6 DEF OrderedNext, QuietStep

\* Without stalls only entries of calls that are over expire and are reaped.
LEMMA ReapStep ==
  ASSUME GateInv, [OrderedNext]_vars, MayStall = FALSE
  PROVE  NoOldExpiry' /\ ReapsTheDead' /\ KeepsTicket'
<1>. USE DEF GateInv, NoOldExpiry, ReapsTheDead, KeepsTicket, TypeOK, Ended, GoTo
<1>1. CASE SetLimit \/ UNCHANGED vars
  BY <1>1 DEF SetLimit, vars
<1>2. ASSUME NEW o \in Owners, ClaimStep(o)
      PROVE  NoOldExpiry' /\ ReapsTheDead' /\ KeepsTicket'
  <2>1. CASE ReadLimit(o)
    BY <2>1 DEF ReadLimit
  <2>2. CASE FindStale(o)
    BY <2>2 DEF FindStale
  <2>3. CASE ReapExpiry(o)
    BY <2>3 DEF ReapExpiry
  <2>4. CASE ReapTickets(o)
    BY <2>4 DEF ReapTickets
  <2>5. CASE DrawTicket(o)
    BY <2>5 DEF DrawTicket
  <2>6. CASE AddExpiry(o)
    BY <2>6 DEF AddExpiry
  <2>7. CASE LostTicket(o) \/ Enter(o) \/ TooLate(o)
    BY <2>7 DEF LostTicket, Enter, TooLate
  <2>8. CASE RemoveTicket(o)
    BY <2>8 DEF RemoveTicket
  <2>9. CASE RemoveExpiry(o)
    BY <2>9 DEF RemoveExpiry
  <2>. QED
    BY <1>2, <2>1, <2>2, <2>3, <2>4, <2>5, <2>6, <2>7, <2>8, <2>9 DEF ClaimStep
<1>3. ASSUME NEW o \in Owners, AddTicket(o)
      PROVE  NoOldExpiry' /\ ReapsTheDead' /\ KeepsTicket'
  BY <1>3 DEF AddTicket
<1>4. ASSUME NEW o \in Owners, Beat(o) \/ Finish(o)
      PROVE  NoOldExpiry' /\ ReapsTheDead' /\ KeepsTicket'
  BY <1>4 DEF Beat, Finish
<1>5. ASSUME NEW o \in Owners, Fault(o)
      PROVE  NoOldExpiry' /\ ReapsTheDead' /\ KeepsTicket'
  BY <1>5 DEF Fault, ReleaseFails, Die, Expire, GiveUp
<1>. QED
  BY <1>1, <1>2, <1>3, <1>4, <1>5 DEF OrderedNext, QuietStep

\* A rank that was low enough stays low enough.
LEMMA RankStep ==
  ASSUME GateInv, [OrderedNext]_vars, MayStall = FALSE
  PROVE  Ranked'
<1>. USE DEF GateInv
<1>1. SUFFICES ASSUME NEW h \in Owners, pc'[h] = "holding" PROVE Rank(h)' < lim'[h]
  BY DEF Ranked, Holders
<1>2. ASSUME pc[h] = "holding", lim'[h] = lim[h],
             ahead'[h] \cap tickets' \subseteq ahead[h] \cap tickets
      PROVE  Rank(h)' < lim'[h]
  <2>1. Rank(h) < lim[h]
    BY <1>2 DEF Ranked, Holders
  <2>2. ahead[h] \cap tickets \in SUBSET Owners
    BY DEF TypeOK
  <2>3. /\ Rank(h) \in Nat
        /\ Cardinality(ahead'[h] \cap tickets') \in Nat
        /\ Cardinality(ahead'[h] \cap tickets') <= Rank(h)
    BY <1>2, <2>2, RankShrinks DEF Rank
  <2>4. lim[h] \in Nat
    BY LimitsAssumption DEF TypeOK
  <2>. QED
    BY <1>2, <2>1, <2>3, <2>4 DEF Rank
<1>3. CASE SetLimit \/ UNCHANGED vars
  BY <1>1, <1>2, <1>3 DEF SetLimit, vars
<1>4. ASSUME NEW o \in Owners, Enter(o) PROVE Rank(h)' < lim'[h]
  <2>1. CASE h = o
    BY <1>4, <2>1 DEF Enter, Rank
  <2>2. CASE h # o
    <3>1. pc[h] = "holding"
      BY <1>1, <1>4, <2>2 DEF Enter, GoTo, TypeOK
    <3>. QED
      BY <1>2, <1>4, <3>1 DEF Enter
  <2>. QED
    BY <2>1, <2>2
<1>5. ASSUME NEW o \in Owners, ClaimStep(o), ~Enter(o) PROVE Rank(h)' < lim'[h]
  <2>1. pc[h] = "holding"
    BY <1>1, <1>5 DEF ClaimStep, ReadLimit, FindStale, ReapExpiry, ReapTickets, DrawTicket,
         AddExpiry, LostTicket, TooLate, RemoveTicket, RemoveExpiry, GoTo, TypeOK
  <2>2. lim'[h] = lim[h]
    BY <1>5, <2>1 DEF ClaimStep, ReadLimit, FindStale, ReapExpiry, ReapTickets, DrawTicket,
         AddExpiry, LostTicket, TooLate, RemoveTicket, RemoveExpiry, TypeOK
  <2>3. ahead'[h] \cap tickets' \subseteq ahead[h] \cap tickets
    BY <1>5, <2>1 DEF ClaimStep, ReadLimit, FindStale, ReapExpiry, ReapTickets, DrawTicket,
         AddExpiry, LostTicket, TooLate, RemoveTicket, RemoveExpiry, TypeOK
  <2>. QED
    BY <1>2, <2>1, <2>2, <2>3
<1>6. ASSUME NEW o \in Owners, AddTicket(o), InOrder(o) PROVE Rank(h)' < lim'[h]
  <2>1. pc[h] = "holding"
    BY <1>1, <1>6 DEF AddTicket, GoTo, TypeOK
  <2>2. o \notin ahead[h]
    BY <1>6, <2>1 DEF InOrder, KeepsTicket
  <2>. QED
    BY <1>2, <1>6, <2>1, <2>2 DEF AddTicket
<1>7. ASSUME NEW o \in Owners, Beat(o) \/ Finish(o) \/ Fault(o) PROVE Rank(h)' < lim'[h]
  <2>1. pc[h] = "holding"
    BY <1>1, <1>7 DEF Beat, Finish, Fault, ReleaseFails, Die, Expire, GiveUp, GoTo, TypeOK
  <2>2. lim' = lim /\ ahead' = ahead /\ tickets' = tickets
    BY <1>7 DEF Beat, Finish, Fault, ReleaseFails, Die, Expire, GiveUp
  <2>. QED
    BY <1>2, <2>1, <2>2
<1>. QED
  BY <1>3, <1>4, <1>5, <1>6, <1>7 DEF OrderedNext, QuietStep

\* For any number of calls, any limits that change at any time, crashes between
\* any two Redis commands and releases that fail: if tickets are inserted in
\* the order of their numbers and nobody stalls, the gate is never overfull.
\* The code guarantees neither assumption; without the first one there is a
\* counterexample (README, Known counterexamples).
THEOREM GateIsNeverOverfull ==
  ASSUME MayStall = FALSE
  PROVE  OrderedSpec => []HoldersWithinLimit
<1>1. Init => GateInv
  BY GateInit
<1>2. GateInv /\ [OrderedNext]_vars => GateInv'
  <2>. SUFFICES ASSUME GateInv, [OrderedNext]_vars PROVE GateInv'
       OBVIOUS
  <2>1. TypeOK'
    BY OrderedIsNext, GateTypeStep DEF GateInv
  <2>. QED
    BY <2>1, OrderStep, ReapStep, RankStep DEF GateInv
<1>3. GateInv => HoldersWithinLimit
  BY LastHolder
<1>. QED
  BY <1>1, <1>2, <1>3, PTL DEF OrderedSpec

\* The variables of the gate keep their types in every behaviour of the code,
\* ordered or not, stalled or not.
THEOREM GateTypes == Spec => []TypeOK
<1>1. Init => TypeOK
  BY GateInit DEF GateInv
<1>2. TypeOK /\ [Next]_vars => TypeOK'
  BY GateTypeStep
<1>. QED
  BY <1>1, <1>2, PTL DEF Spec

-----------------------------------------------------------------------------
(* No ticket that nobody can reap: tickets in any order, heartbeats that   *)
(* stall, any death but between two commands that belong together.         *)

\* A reaper has removed the expiry entry of o and is about to remove its ticket.
BeingReaped(o) == \E q \in Owners : pc[q] = "reap_tickets" /\ o \in stale[q]

\* Where a call has no ticket in the set, and why a ticket is not lost elsewhere.
ReapInv ==
    /\ TypeOK
    /\ \A o \in tickets :
        /\ pc[o] \notin {"idle", "wait", "reap", "reap_expiry", "reap_tickets", "incr",
                        "add_ticket", "drop_expiry", "free_expiry"}
        /\ pc[o] = "add_expiry" \/ expiry[o] # "none" \/ BeingReaped(o)

\* Every step that leaves a ticket without an expiry entry is a reaper's, which goes on
\* to remove the ticket.
LEMMA ReapInvStep ==
  ASSUME {"add_expiry", "reap_tickets"} \cap CrashPoints = {}, ReapInv, [Next]_vars
  PROVE  ReapInv'
<1>1. TypeOK'
  BY GateTypeStep DEF ReapInv
<1>. USE DEF ReapInv, BeingReaped, TypeOK, GoTo
<1>2. CASE SetLimit
  BY <1>1, <1>2 DEF SetLimit
<1>3. CASE UNCHANGED vars
  BY <1>1, <1>3 DEF vars
<1>4. ASSUME NEW o \in Owners, ClaimStep(o) PROVE ReapInv'
  <2>1. CASE ReadLimit(o)
    BY <1>1, <2>1 DEF ReadLimit
  <2>2. CASE FindStale(o)
    BY <1>1, <2>2 DEF FindStale
  <2>3. CASE ReapExpiry(o)
    BY <1>1, <2>3 DEF ReapExpiry
  <2>4. CASE ReapTickets(o)
    BY <1>1, <2>4 DEF ReapTickets
  <2>5. CASE DrawTicket(o)
    BY <1>1, <2>5 DEF DrawTicket
  <2>6. CASE AddExpiry(o)
    BY <1>1, <2>6 DEF AddExpiry
  <2>7. CASE LostTicket(o) \/ Enter(o) \/ TooLate(o)
    BY <1>1, <2>7 DEF LostTicket, Enter, TooLate
  <2>8. CASE RemoveTicket(o)
    BY <1>1, <2>8 DEF RemoveTicket
  <2>9. CASE RemoveExpiry(o)
    BY <1>1, <2>9 DEF RemoveExpiry
  <2>. QED
    BY <1>4, <2>1, <2>2, <2>3, <2>4, <2>5, <2>6, <2>7, <2>8, <2>9 DEF ClaimStep
<1>5. ASSUME NEW o \in Owners, AddTicket(o) PROVE ReapInv'
  BY <1>1, <1>5 DEF AddTicket
<1>6. ASSUME NEW o \in Owners, Beat(o) PROVE ReapInv'
  BY <1>1, <1>6 DEF Beat
<1>7. ASSUME NEW o \in Owners, Finish(o) PROVE ReapInv'
  BY <1>1, <1>7 DEF Finish
<1>8. ASSUME NEW o \in Owners, Fault(o) PROVE ReapInv'
  <2>1. CASE ReleaseFails(o)
    BY <1>1, <2>1 DEF ReleaseFails
  <2>2. CASE Die(o)
    BY <1>1, <2>2 DEF Die
  <2>3. CASE Expire(o)
    BY <1>1, <2>3 DEF Expire
  <2>4. CASE GiveUp(o)
    BY <1>1, <2>4 DEF GiveUp
  <2>. QED
    BY <1>8, <2>1, <2>2, <2>3, <2>4 DEF Fault
<1>. QED
  BY <1>2, <1>3, <1>4, <1>5, <1>6, <1>7, <1>8 DEF Next, QuietStep

\* However many calls claim, stall, give up or die, and in whatever order their tickets
\* arrive: a ticket whose call is over can still be reaped, unless a process died between
\* adding it and adding its expiry entry, or between the two removals of a reaper.
THEOREM NoTicketIsLost ==
  ASSUME {"add_expiry", "reap_tickets"} \cap CrashPoints = {}
  PROVE  Spec => []NoLostTicket
<1>1. Init => ReapInv
  <2>1. Init => TypeOK
    BY GateInit DEF GateInv
  <2>. QED
    BY <2>1 DEF Init, ReapInv
<1>2. ReapInv /\ [Next]_vars => ReapInv'
  BY ReapInvStep
<1>3. ReapInv => NoLostTicket
  <2>1. ASSUME ReapInv, NEW o \in tickets, pc[o] \in Ended \cup {"wait"}
        PROVE  expiry[o] # "none" \/ BeingReaped(o)
    BY <2>1 DEF ReapInv, Ended
  <2>. QED
    BY <2>1 DEF NoLostTicket, BeingReaped
<1>. QED
  BY <1>1, <1>2, <1>3, PTL DEF Spec
=============================================================================
