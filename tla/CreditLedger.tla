---------------------------- MODULE CreditLedger ----------------------------
(***************************************************************************)
(* The prepaid credit ledger: control_plane/api_keys.py, class ApiKeyStore *)
(* (tables api_keys, usage_charges and the platform limits of              *)
(* billing_settings).                                                      *)
(*                                                                         *)
(* Every method of the store that writes runs in one SQLite transaction    *)
(* (BEGIN IMMEDIATE where it reads before it writes), so each is one       *)
(* action here, whichever process calls it.  Money is held before a job    *)
(* starts, and the hold is later settled as spent or refunded.             *)
(*                                                                         *)
(* A request id is a fresh uuid, so it names one charge; charge_id and     *)
(* request_id are one identity here.  Prices are a small set of integers.  *)
(* Time is a tick counter bounded by MaxTime.                              *)
(***************************************************************************)
EXTENDS Integers, FiniteSets, FiniteSetsExt

CONSTANTS
    Keys,           \* API key ids
    Requests,       \* request ids, one charge each
    JobIds,         \* ids a charge can be linked to
    Quotes,         \* amount_micro values estimate_request may return
    NoLimit,        \* a limit, quota or expiry column that is NULL
    NoJob,          \* job_id NULL
    NoKey,          \* key_id None: an internal caller without a key
    LimitChoices,   \* the limit triples an administrator may set
    QuotaChoices,   \* the call quotas an administrator may set
    ExpiryChoices,  \* the expiry times an administrator may set
    Span5h,         \* ticks in the five hour window
    Span24h,        \* ticks in the day window
    MaxTime         \* bound on the clock

Windows == {"5h", "24h", "total"}
Limits == [Windows -> Nat \cup {NoLimit}]

ASSUME NoLimitAssumption == NoLimit \notin Int
ASSUME NoKeyAssumption == NoKey \notin Keys
ASSUME NoJobAssumption == NoJob \notin JobIds
ASSUME QuotesAssumption == Quotes \subseteq Int
ASSUME ChoicesAssumption ==
    /\ LimitChoices \subseteq Limits
    /\ QuotaChoices \subseteq Nat \cup {NoLimit}
    /\ ExpiryChoices \subseteq Nat \cup {NoLimit}
ASSUME TimeAssumption ==
    /\ Span5h \in Nat /\ Span24h \in Nat /\ MaxTime \in Nat
    /\ Span5h <= Span24h

VARIABLES
    now,             \* the wall clock every process reads
    apiKeys,         \* table api_keys
    platformLimits,  \* the platform_limit_* rows of billing_settings
    charges          \* table usage_charges, by request id

ledgerVars == <<now, apiKeys, platformLimits, charges>>

Statuses == {"succeeded", "failed", "cancelled"}
ChargeStates == {"none", "held", "spent", "refunded"}

\* A row of api_keys.  "absent" is a key not created yet, "deleted" one whose
\* row is gone: in both cases no row is found.
KeyRows == [row : {"absent", "present", "deleted"}, enabled : BOOLEAN,
            expires : Nat \cup {NoLimit}, quota : Nat \cup {NoLimit},
            used : Nat, limits : Limits]

ChargeRows == [state : ChargeStates, key : Keys \cup {NoKey}, amount : Nat,
               job : JobIds \cup {NoJob}, at : Nat]

NoCharge == [state |-> "none", key |-> NoKey, amount |-> 0, job |-> NoJob, at |-> 0]
Unlimited == [w \in Windows |-> NoLimit]
NoRow == [row |-> "absent", enabled |-> FALSE, expires |-> NoLimit,
          quota |-> NoLimit, used |-> 0, limits |-> Unlimited]

LedgerTypeOK ==
    /\ now \in Nat
    /\ apiKeys \in [Keys -> KeyRows]
    /\ platformLimits \in Limits
    /\ charges \in [Requests -> ChargeRows]

\* The rows of billing_settings outlive a restart, so any limits may be set.
LedgerInit ==
    /\ now = 0
    /\ apiKeys = [k \in Keys |-> NoRow]
    /\ platformLimits \in LimitChoices
    /\ charges = [r \in Requests |-> NoCharge]

-----------------------------------------------------------------------------
(* What a window counts.                                                   *)

Present(k) == apiKeys[k].row = "present"

\* created_at >= _since(window)
InWindow(w, at) ==
    CASE w = "5h"  -> at >= now - Span5h
      [] w = "24h" -> at >= now - Span24h
      [] OTHER     -> TRUE

\* Mutant of Counted: holds are not money yet.
CountedOnlySpent(w, owner) ==
    {r \in Requests :
        /\ charges[r].state = "spent"
        /\ InWindow(w, charges[r].at)
        /\ owner # NoKey => charges[r].key = owner}

\* The charges _sum adds up: not refunded, inside the window, of one key or
\* of the whole platform (key_id None).
Counted(w, owner) ==
    {r \in Requests :
        /\ charges[r].state \in {"held", "spent"}
        /\ InWindow(w, charges[r].at)
        /\ owner # NoKey => charges[r].key = owner}

\* SUM(amount_micro) over some rows of the table.
Total(rows, rs) == MapThenSumSet(LAMBDA r : rows[r].amount, rs)

Spent(w, owner) == Total(charges, Counted(w, owner))

Fits(limits, owner, amount) ==
    \A w \in Windows :
        limits[w] # NoLimit => Spent(w, owner) + amount <= limits[w]

-----------------------------------------------------------------------------
(* Administration of keys and limits.                                      *)

CreateKey(k) ==
    /\ apiKeys[k].row = "absent"
    /\ \E q \in QuotaChoices, e \in ExpiryChoices, l \in LimitChoices :
          apiKeys' = [apiKeys EXCEPT ![k] =
              [row |-> "present", enabled |-> TRUE, expires |-> e,
               quota |-> q, used |-> 0, limits |-> l]]
    /\ UNCHANGED <<now, platformLimits, charges>>

\* Any subset of the columns may be sent: a column that is not sent keeps its
\* value, and the spent money is never compared with the new limit.
UpdateKey(k) ==
    /\ Present(k)
    /\ \E q \in QuotaChoices \cup {apiKeys[k].quota},
          e \in ExpiryChoices \cup {apiKeys[k].expires},
          l \in LimitChoices \cup {apiKeys[k].limits},
          on \in BOOLEAN :
          apiKeys' = [apiKeys EXCEPT ![k] =
              [@ EXCEPT !.quota = q, !.expires = e, !.limits = l, !.enabled = on]]
    /\ UNCHANGED <<now, platformLimits, charges>>

\* The charges of a deleted key stay in the ledger.
DeleteKey(k) ==
    /\ Present(k)
    /\ apiKeys' = [apiKeys EXCEPT ![k].row = "deleted"]
    /\ UNCHANGED <<now, platformLimits, charges>>

SetPlatformLimits ==
    /\ platformLimits' \in LimitChoices
    /\ UNCHANGED <<now, apiKeys, charges>>

-----------------------------------------------------------------------------
(* One call of a client.                                                   *)

Admitted(k) ==
    /\ Present(k)
    /\ apiKeys[k].enabled
    /\ apiKeys[k].expires # NoLimit => apiKeys[k].expires > now
    /\ apiKeys[k].quota # NoLimit => apiKeys[k].used < apiKeys[k].quota

\* A refused key changes nothing, so only the admitted call is a step.
AuthenticateAndConsume(k) ==
    /\ Admitted(k)
    /\ apiKeys' = [apiKeys EXCEPT ![k].used = @ + 1]
    /\ UNCHANGED <<now, platformLimits, charges>>

\* Mutant of Charged: a negative quote is booked as it is.
ChargedRaw(quote) == quote

Charged(quote) == IF quote > 0 THEN quote ELSE 0

\* Both checks run before the row is written; a limit hit, or a key whose row
\* is gone, leaves no row.
CanHold(owner, amount) ==
    /\ owner # NoKey => Present(owner) /\ Fits(apiKeys[owner].limits, owner, amount)
    /\ Fits(platformLimits, NoKey, amount)

Hold(r, owner, quote) ==
    /\ charges[r].state = "none"
    /\ CanHold(owner, Charged(quote))
    /\ charges' = [charges EXCEPT ![r] =
           [state |-> "held", key |-> owner, amount |-> Charged(quote),
            job |-> NoJob, at |-> now]]
    /\ UNCHANGED <<now, apiKeys, platformLimits>>

\* UPDATE ... SET job_id=? WHERE id=?: whatever state the charge is in.
Link(r, j) ==
    /\ charges[r].state # "none"
    /\ charges' = [charges EXCEPT ![r].job = j]
    /\ UNCHANGED <<now, apiKeys, platformLimits>>

\* Mutant of SettledAs: the job's status is stored as the charge's state.
SettledAsStatus(status) == IF status = "succeeded" THEN "spent" ELSE status

SettledAs(status) == IF status = "succeeded" THEN "spent" ELSE "refunded"

\* Mutant of SettleHeld: the last verdict wins (state='held' dropped).
SettleHeldAgain(rs, status) ==
    [r \in Requests |->
        IF r \in rs /\ charges[r].state # "none"
        THEN [charges[r] EXCEPT !.state = SettledAs(status)]
        ELSE charges[r]]

\* charges after settling those of the given requests that are still held.
SettleHeld(rs, status) ==
    [r \in Requests |->
        IF r \in rs /\ charges[r].state = "held"
        THEN [charges[r] EXCEPT !.state = SettledAs(status)]
        ELSE charges[r]]

RequestsOf(j) == {r \in Requests : charges[r].job = j}

\* settle: the caller knows the request.
Settle(r, status) ==
    /\ charges' = SettleHeld({r}, status)
    /\ UNCHANGED <<now, apiKeys, platformLimits>>

\* settle_job: the caller only knows the job.
SettleJob(j, status) ==
    /\ charges' = SettleHeld(RequestsOf(j), status)
    /\ UNCHANGED <<now, apiKeys, platformLimits>>

\* held_charges(older_than_hours), for the reconciliation sweep.
HeldCharges(age) ==
    {r \in Requests : charges[r].state = "held" /\ charges[r].at < now - age}

Tick ==
    /\ now < MaxTime
    /\ now' = now + 1
    /\ UNCHANGED <<apiKeys, platformLimits, charges>>

-----------------------------------------------------------------------------
(* The ledger on its own, open to any caller in any order.                 *)

KeyStep(k) == CreateKey(k) \/ UpdateKey(k) \/ DeleteKey(k) \/ AuthenticateAndConsume(k)

HoldStep(r) == \E owner \in Keys \cup {NoKey}, quote \in Quotes : Hold(r, owner, quote)

LinkStep(r) == \E j \in JobIds : Link(r, j)

SettleStep(r) == \E status \in Statuses : Settle(r, status)

SettleJobStep(j) == \E status \in Statuses : SettleJob(j, status)

Next ==
    \/ \E k \in Keys : KeyStep(k)
    \/ SetPlatformLimits
    \/ \E r \in Requests : HoldStep(r) \/ LinkStep(r) \/ SettleStep(r)
    \/ \E j \in JobIds : SettleJobStep(j)
    \/ Tick

Spec == LedgerInit /\ [][Next]_ledgerVars

-----------------------------------------------------------------------------
(* Properties.                                                             *)

\* A settled charge never changes its verdict, its price or its payer, whoever
\* settles it again or links it later: the poll of a client, the worker, the
\* cancel handler and the sweep all race for the same row (settle and
\* settle_job, "repeated calls have no effect").
SettledIsFinal ==
    [][\A r \in Requests :
          charges[r].state \in {"spent", "refunded"} =>
              /\ charges'[r].state = charges[r].state
              /\ charges'[r].amount = charges[r].amount
              /\ charges'[r].key = charges[r].key]_charges

\* The money spoken for in a window, of one key or of the whole platform, only
\* rises up to the limit in force, whichever call, settlement, deletion or tick
\* comes in which order, and although the limits themselves move: hold checks
\* every window of both before it writes, and counts what is still held.
SpendRisesWithinLimits ==
    [][\A w \in Windows :
          /\ platformLimits[w] # NoLimit /\ Spent(w, NoKey)' > Spent(w, NoKey) =>
                 Spent(w, NoKey)' <= platformLimits[w]
          /\ \A k \in Keys :
                apiKeys[k].limits[w] # NoLimit /\ Spent(w, k)' > Spent(w, k) =>
                    Spent(w, k)' <= apiKeys[k].limits[w]]_ledgerVars
=============================================================================
