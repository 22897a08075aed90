------------------------------ MODULE SlotGate ------------------------------
(***************************************************************************)
(* The task-level concurrency gate of control_plane/concurrency.py:        *)
(* job_slot, _claim and _reap on two Redis sorted sets, tickets and        *)
(* expiry.  Every Redis command is atomic and no two of them are atomic    *)
(* together, so each command is one step.                                  *)
(*                                                                         *)
(* An owner is the uuid of one job_slot call.  A ticket is the value of    *)
(* INCR; only the order of the tickets matters, so ahead[o] keeps the      *)
(* owners whose latest ticket is smaller than o's.  An expiry score is     *)
(* kept as "live" or "expired": a live one expires when no heartbeat came  *)
(* for SLOT_TTL_SECONDS.                                                   *)
(***************************************************************************)
EXTENDS Integers, FiniteSets

CONSTANTS
    Owners,       \* job_slot calls
    Limits,       \* values effective_limit may take, at least MIN_LIMIT
    CrashPoints,  \* where a process may die (or a Redis call raise)
    MayStall      \* whether a live process may miss its heartbeats for a TTL

Pcs == {"idle", "reap", "reap_expiry", "reap_tickets", "incr", "add_ticket",
        "add_expiry", "rank", "drop_ticket", "drop_expiry", "wait", "holding",
        "free_ticket", "free_expiry", "left", "timed_out", "dead"}

\* Ways a call may be over.
Ended == {"left", "timed_out", "dead"}

ASSUME OwnersAssumption == IsFiniteSet(Owners)
ASSUME LimitsAssumption == Limits \subseteq Nat \ {0} /\ Limits # {}
ASSUME FaultsAssumption == CrashPoints \subseteq Pcs \ Ended /\ MayStall \in BOOLEAN

VARIABLES
    pc,       \* the next command of each call
    limit,    \* the configured limit
    lim,      \* the limit each call read for its current claim
    stale,    \* the result of its last ZRANGEBYSCORE
    ahead,    \* the order of the tickets drawn so far
    tickets,  \* members of the ticket set
    expiry    \* members of the expiry set, with what their score says

vars == <<pc, limit, lim, stale, ahead, tickets, expiry>>

TypeOK ==
    /\ pc \in [Owners -> Pcs]
    /\ limit \in Limits
    /\ lim \in [Owners -> Limits]
    /\ stale \in [Owners -> SUBSET Owners]
    /\ ahead \in [Owners -> SUBSET Owners]
    /\ tickets \in SUBSET Owners
    /\ expiry \in [Owners -> {"none", "live", "expired"}]

Init ==
    /\ pc = [o \in Owners |-> "idle"]
    /\ limit \in Limits
    /\ lim = [o \in Owners |-> limit]
    /\ stale = [o \in Owners |-> {}]
    /\ ahead = [o \in Owners |-> {}]
    /\ tickets = {}
    /\ expiry = [o \in Owners |-> "none"]

GoTo(o, there) == pc' = [pc EXCEPT ![o] = there]
Holders == {o \in Owners : pc[o] = "holding"}

\* ZRANK: how many members of the ticket set have a smaller ticket.
Rank(o) == Cardinality(ahead[o] \cap tickets)

-----------------------------------------------------------------------------
(* job_slot: one round of the loop reads the limit and tries to claim.     *)

\* Mutant of ReadLimit: max(MIN_LIMIT, ...) forgotten.
ReadLimitUnclamped(o) ==
    /\ pc[o] \in {"idle", "wait"}
    /\ lim' = [lim EXCEPT ![o] = limit - 1]
    /\ GoTo(o, "reap")
    /\ UNCHANGED <<limit, stale, ahead, tickets, expiry>>

ReadLimit(o) ==
    /\ pc[o] \in {"idle", "wait"}
    /\ lim' = [lim EXCEPT ![o] = limit]
    /\ GoTo(o, "reap")
    /\ UNCHANGED <<limit, stale, ahead, tickets, expiry>>

GiveUp(o) ==
    /\ pc[o] = "wait"
    /\ GoTo(o, "timed_out")
    /\ UNCHANGED <<limit, lim, stale, ahead, tickets, expiry>>

(* _reap *)

\* Mutant of FindStale: only the caller's own entry is looked at.
FindStaleOwn(o) ==
    /\ pc[o] = "reap"
    /\ stale' = [stale EXCEPT ![o] = {q \in {o} : expiry[q] = "expired"}]
    /\ GoTo(o, IF stale'[o] = {} THEN "incr" ELSE "reap_expiry")
    /\ UNCHANGED <<limit, lim, ahead, tickets, expiry>>

FindStale(o) ==
    /\ pc[o] = "reap"
    /\ stale' = [stale EXCEPT ![o] = {q \in Owners : expiry[q] = "expired"}]
    /\ GoTo(o, IF stale'[o] = {} THEN "incr" ELSE "reap_expiry")
    /\ UNCHANGED <<limit, lim, ahead, tickets, expiry>>

ReapExpiry(o) ==
    /\ pc[o] = "reap_expiry"
    /\ expiry' = [q \in Owners |-> IF q \in stale[o] THEN "none" ELSE expiry[q]]
    /\ GoTo(o, "reap_tickets")
    /\ UNCHANGED <<limit, lim, stale, ahead, tickets>>

\* Mutant of ReapTickets: only the expiry set is cleaned.
ReapTicketsNot(o) ==
    /\ pc[o] = "reap_tickets"
    /\ GoTo(o, "incr")
    /\ UNCHANGED <<limit, lim, stale, ahead, tickets, expiry>>

ReapTickets(o) ==
    /\ pc[o] = "reap_tickets"
    /\ tickets' = tickets \ stale[o]
    /\ GoTo(o, "incr")
    /\ UNCHANGED <<limit, lim, stale, ahead, expiry>>

(* _claim *)

DrawTicket(o) ==
    /\ pc[o] = "incr"
    /\ ahead' = [q \in Owners |-> IF q = o THEN Owners \ {o} ELSE ahead[q] \ {o}]
    /\ GoTo(o, "add_ticket")
    /\ UNCHANGED <<limit, lim, stale, tickets, expiry>>

AddTicket(o) ==
    /\ pc[o] = "add_ticket"
    /\ tickets' = tickets \cup {o}
    /\ GoTo(o, "add_expiry")
    /\ UNCHANGED <<limit, lim, stale, ahead, expiry>>

AddExpiry(o) ==
    /\ pc[o] = "add_expiry"
    /\ expiry' = [expiry EXCEPT ![o] = "live"]
    /\ GoTo(o, "rank")
    /\ UNCHANGED <<limit, lim, stale, ahead, tickets>>

\* Reaped in between: no rank, try again.
LostTicket(o) ==
    /\ pc[o] = "rank" /\ o \notin tickets
    /\ GoTo(o, "wait")
    /\ UNCHANGED <<limit, lim, stale, ahead, tickets, expiry>>

\* Mutant of Enter: rank <= limit.
EnterOneMore(o) ==
    /\ pc[o] = "rank" /\ o \in tickets
    /\ Rank(o) <= lim[o]
    /\ GoTo(o, "holding")
    /\ UNCHANGED <<limit, lim, stale, ahead, tickets, expiry>>

Enter(o) ==
    /\ pc[o] = "rank" /\ o \in tickets
    /\ Rank(o) < lim[o]
    /\ GoTo(o, "holding")
    /\ UNCHANGED <<limit, lim, stale, ahead, tickets, expiry>>

TooLate(o) ==
    /\ pc[o] = "rank" /\ o \in tickets
    /\ Rank(o) >= lim[o]
    /\ GoTo(o, "drop_ticket")
    /\ UNCHANGED <<limit, lim, stale, ahead, tickets, expiry>>

\* The two ZREMs of a claim that came too late, and those of a release.
RemoveTicket(o) ==
    /\ pc[o] \in {"drop_ticket", "free_ticket"}
    /\ tickets' = tickets \ {o}
    /\ GoTo(o, IF pc[o] = "drop_ticket" THEN "drop_expiry" ELSE "free_expiry")
    /\ UNCHANGED <<limit, lim, stale, ahead, expiry>>

RemoveExpiry(o) ==
    /\ pc[o] \in {"drop_expiry", "free_expiry"}
    /\ expiry' = [expiry EXCEPT ![o] = "none"]
    /\ GoTo(o, IF pc[o] = "drop_expiry" THEN "wait" ELSE "left")
    /\ UNCHANGED <<limit, lim, stale, ahead, tickets>>

(* The holder, its heartbeat (ZADD XX) and its release. *)

Beat(o) ==
    /\ pc[o] = "holding" /\ expiry[o] # "none"
    /\ expiry' = [expiry EXCEPT ![o] = "live"]
    /\ UNCHANGED <<pc, limit, lim, stale, ahead, tickets>>

Finish(o) ==
    /\ pc[o] = "holding"
    /\ GoTo(o, "free_ticket")
    /\ UNCHANGED <<limit, lim, stale, ahead, tickets, expiry>>

\* A release that raises is swallowed; the entries stay to the TTL.
ReleaseFails(o) ==
    /\ pc[o] \in {"free_ticket", "free_expiry"}
    /\ pc[o] \in CrashPoints
    /\ GoTo(o, "left")
    /\ UNCHANGED <<limit, lim, stale, ahead, tickets, expiry>>

(* The environment. *)

Die(o) ==
    /\ pc[o] \in CrashPoints
    /\ GoTo(o, "dead")
    /\ UNCHANGED <<limit, lim, stale, ahead, tickets, expiry>>

\* No heartbeat for a TTL: nobody is left to send one, or the process stalls.
\* A claim is over, and a holder beats, well within a TTL unless it stalls.
Expire(o) ==
    /\ expiry[o] = "live"
    /\ pc[o] \in Ended \cup {"wait"} \/ MayStall
    /\ expiry' = [expiry EXCEPT ![o] = "expired"]
    /\ UNCHANGED <<pc, limit, lim, stale, ahead, tickets>>

SetLimit ==
    /\ limit' \in Limits
    /\ UNCHANGED <<pc, lim, stale, ahead, tickets, expiry>>

-----------------------------------------------------------------------------

ClaimStep(o) ==
    \/ ReadLimit(o) \/ FindStale(o) \/ ReapExpiry(o) \/ ReapTickets(o) \/ DrawTicket(o)
    \/ AddExpiry(o) \/ LostTicket(o) \/ Enter(o) \/ TooLate(o)
    \/ RemoveTicket(o) \/ RemoveExpiry(o)

Fault(o) == ReleaseFails(o) \/ Die(o) \/ Expire(o) \/ GiveUp(o)

QuietStep(o) == ClaimStep(o) \/ Beat(o) \/ Finish(o) \/ Fault(o)

Next == SetLimit \/ \E o \in Owners : QuietStep(o) \/ AddTicket(o)

Spec == Init /\ [][Next]_vars

\* Tickets that reach the set in the order in which they were drawn.
InOrder(o) == \A q \in tickets : o \notin ahead[q]

OrderedNext == SetLimit \/ \E o \in Owners : QuietStep(o) \/ (AddTicket(o) /\ InOrder(o))

\* The gate as its comment argues it: nothing comes between INCR and ZADD that
\* would let a later ticket in first.
OrderedSpec == Init /\ [][OrderedNext]_vars

\* Processes run, heartbeats stop when a process does, and a released slot is
\* freed; nothing makes a call give up or a limit change.
Fairness ==
    \A o \in Owners :
        /\ WF_vars(ClaimStep(o) \/ AddTicket(o))
        /\ WF_vars(Expire(o) /\ pc[o] \in Ended)

FairSpec == Spec /\ Fairness

-----------------------------------------------------------------------------
(* Properties.                                                             *)

\* There are never more holders than the largest limit one of them has read:
\* "the number of members with rank < limit is always <= limit"
\* (concurrency.py:9), for limits that change while calls are in flight.
HoldersWithinLimit ==
    Holders # {} => \E h \in Holders : Cardinality(Holders) <= lim[h]

\* A ticket is nobody's only while it can still be reaped: it belongs to a call
\* that is not over, has an expiry entry, or is being reaped.
NoLostTicket ==
    \A o \in tickets :
        \/ pc[o] \notin Ended \cup {"wait"}
        \/ expiry[o] # "none"
        \/ \E q \in Owners : pc[q] = "reap_tickets" /\ o \in stale[q]

\* The slot of a process that died is given back as long as anyone asks for it
\* ("after a sudden death the slot is reclaimed", concurrency.py:21).
DeadSlotIsReclaimed ==
    \A o \in Owners :
        (pc[o] = "dead" /\ o \in tickets)
            ~> (o \notin tickets \/ \A q \in Owners : pc[q] \in Ended \cup {"holding"})
=============================================================================
