------------------------- MODULE FencedPublication --------------------------
(***************************************************************************)
(* What the attempts of H3 jobs promise, without workers, leases or        *)
(* processes: every job has a fencing token that only grows, at most one   *)
(* attempt is open at a time, and it is the one with the newest token.     *)
(* Only the open attempt publishes, and publishing closes it.              *)
(***************************************************************************)
EXTENDS Naturals

CONSTANTS Jobs, MaxAttempts

VARIABLES
    token,    \* the number of the newest attempt of each job
    open,     \* the jobs with an attempt at work
    result    \* the token of the published attempt, 0 for none

fenced == <<token, open, result>>

FencedInit ==
    /\ token = [j \in Jobs |-> 0]
    /\ open = {}
    /\ result = [j \in Jobs |-> 0]

Open(j) ==
    /\ j \notin open /\ token[j] < MaxAttempts
    /\ token' = [token EXCEPT ![j] = @ + 1]
    /\ open' = open \cup {j}
    /\ UNCHANGED result

Abandon(j) ==
    /\ j \in open
    /\ open' = open \ {j}
    /\ UNCHANGED <<token, result>>

Publish(j) ==
    /\ j \in open
    /\ open' = open \ {j}
    /\ result' = [result EXCEPT ![j] = token[j]]
    /\ UNCHANGED token

FencedNext == \E j \in Jobs : Open(j) \/ Abandon(j) \/ Publish(j)

FencedSpec == FencedInit /\ [][FencedNext]_fenced
=============================================================================
