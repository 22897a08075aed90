------------------------ MODULE CreditLedger_proofs ------------------------
(***************************************************************************)
(* Theorems about CreditLedger for every set of keys, requests and jobs,   *)
(* every price, limit and window length.                                   *)
(***************************************************************************)
EXTENDS CreditLedger, FiniteSetTheorems, TLAPS

\* A quote is charged as a natural number, whatever its sign.
LEMMA ChargedIsNat == ASSUME NEW q \in Int PROVE Charged(q) \in Nat
  BY DEF Charged

\* Settling rewrites nothing but the state of charges that are still held.
LEMMA SettleHeldShape ==
  ASSUME NEW rs, NEW status, NEW r \in Requests,
         charges[r] \in ChargeRows
  PROVE  /\ SettleHeld(rs, status)[r] \in ChargeRows
         /\ SettleHeld(rs, status)[r].amount = charges[r].amount
         /\ SettleHeld(rs, status)[r].key = charges[r].key
         /\ SettleHeld(rs, status)[r].job = charges[r].job
         /\ SettleHeld(rs, status)[r].at = charges[r].at
         /\ charges[r].state # "held" => SettleHeld(rs, status)[r] = charges[r]
         /\ SettleHeld(rs, status)[r].state = "none" <=> charges[r].state = "none"
  BY DEF SettleHeld, SettledAs, ChargeRows, ChargeStates

\* An empty ledger is well-formed.
LEMMA LedgerInitTypeOK == LedgerInit => LedgerTypeOK
  BY NoKeyAssumption, ChoicesAssumption
  DEF LedgerInit, LedgerTypeOK, KeyRows, ChargeRows, ChargeStates, NoRow, NoCharge,
      Unlimited, Limits

\* Every step of the ledger keeps the types, so a module that embeds the ledger
\* cites this one lemma for the ledger's variables.
LEMMA LedgerNextTypeOK == LedgerTypeOK /\ [Next]_ledgerVars => LedgerTypeOK'
<1> SUFFICES ASSUME LedgerTypeOK, [Next]_ledgerVars
             PROVE  LedgerTypeOK'
    OBVIOUS
<1>1. ASSUME NEW k \in Keys, CreateKey(k) PROVE LedgerTypeOK'
  BY <1>1, ChoicesAssumption DEF CreateKey, LedgerTypeOK, KeyRows
<1>2. ASSUME NEW k \in Keys, UpdateKey(k) PROVE LedgerTypeOK'
  <2>1. PICK q \in QuotaChoices \cup {apiKeys[k].quota},
             e \in ExpiryChoices \cup {apiKeys[k].expires},
             l \in LimitChoices \cup {apiKeys[k].limits},
             on \in BOOLEAN :
               apiKeys' = [apiKeys EXCEPT ![k] =
                 [@ EXCEPT !.quota = q, !.expires = e, !.limits = l, !.enabled = on]]
    BY <1>2 DEF UpdateKey
  <2>2. apiKeys[k] \in KeyRows
    BY DEF LedgerTypeOK
  <2>3. /\ q \in Nat \cup {NoLimit}
        /\ e \in Nat \cup {NoLimit}
        /\ l \in Limits
    BY <2>2, ChoicesAssumption DEF KeyRows
  <2>4. [apiKeys[k] EXCEPT !.quota = q, !.expires = e, !.limits = l, !.enabled = on]
          \in KeyRows
    BY <2>2, <2>3 DEF KeyRows
  <2>. QED
    BY <1>2, <2>1, <2>4 DEF UpdateKey, LedgerTypeOK
<1>3. ASSUME NEW k \in Keys, DeleteKey(k) PROVE LedgerTypeOK'
  BY <1>3 DEF DeleteKey, LedgerTypeOK, KeyRows
<1>4. ASSUME NEW k \in Keys, AuthenticateAndConsume(k) PROVE LedgerTypeOK'
  BY <1>4 DEF AuthenticateAndConsume, LedgerTypeOK, KeyRows
<1>5. CASE SetPlatformLimits
  BY <1>5, ChoicesAssumption DEF SetPlatformLimits, LedgerTypeOK
<1>6. ASSUME NEW r \in Requests, HoldStep(r) PROVE LedgerTypeOK'
  <2>1. PICK owner \in Keys \cup {NoKey}, quote \in Quotes : Hold(r, owner, quote)
    BY <1>6 DEF HoldStep
  <2>2. Charged(quote) \in Nat
    BY ChargedIsNat, QuotesAssumption
  <2>3. [state |-> "held", key |-> owner, amount |-> Charged(quote),
         job |-> NoJob, at |-> now] \in ChargeRows
    BY <2>2 DEF ChargeRows, ChargeStates, LedgerTypeOK
  <2>. QED
    BY <2>1, <2>3 DEF Hold, LedgerTypeOK
<1>7. ASSUME NEW r \in Requests, LinkStep(r) PROVE LedgerTypeOK'
  BY <1>7 DEF LinkStep, Link, LedgerTypeOK, ChargeRows
<1>8. ASSUME NEW r \in Requests, SettleStep(r) PROVE LedgerTypeOK'
  BY <1>8, SettleHeldShape DEF SettleStep, Settle, SettleHeld, LedgerTypeOK
<1>9. ASSUME NEW j \in JobIds, SettleJobStep(j) PROVE LedgerTypeOK'
  BY <1>9, SettleHeldShape DEF SettleJobStep, SettleJob, SettleHeld, LedgerTypeOK
<1>10. CASE Tick
  BY <1>10 DEF Tick, LedgerTypeOK
<1>11. CASE UNCHANGED ledgerVars
  BY <1>11 DEF ledgerVars, LedgerTypeOK
<1>. QED
  BY <1>1, <1>2, <1>3, <1>4, <1>5, <1>6, <1>7, <1>8, <1>9, <1>10, <1>11
  DEF Next, KeyStep

\* The tables hold well-formed rows for every value of the constants; in
\* particular no charge is ever negative, whatever estimate_request returns.
THEOREM LedgerTypes == Spec => []LedgerTypeOK
  BY LedgerInitTypeOK, LedgerNextTypeOK, PTL DEF Spec

\* No step of the ledger touches verdict, price and payer of a settled charge.
SettledStays ==
    \A r \in Requests :
          charges[r].state \in {"spent", "refunded"} =>
              /\ charges'[r].state = charges[r].state
              /\ charges'[r].amount = charges[r].amount
              /\ charges'[r].key = charges[r].key

LEMMA SettledStaysStep == LedgerTypeOK /\ [Next]_ledgerVars => SettledStays
<1> SUFFICES ASSUME LedgerTypeOK, [Next]_ledgerVars, NEW r \in Requests,
                    charges[r].state \in {"spent", "refunded"}
             PROVE  /\ charges'[r].state = charges[r].state
                    /\ charges'[r].amount = charges[r].amount
                    /\ charges'[r].key = charges[r].key
  BY DEF SettledStays
<1>. charges[r] \in ChargeRows /\ charges[r].state # "held" /\ charges[r].state # "none"
  BY DEF LedgerTypeOK
<1>1. ASSUME NEW k \in Keys, KeyStep(k) PROVE charges' = charges
  BY <1>1 DEF KeyStep, CreateKey, UpdateKey, DeleteKey, AuthenticateAndConsume
<1>2. CASE SetPlatformLimits \/ Tick \/ UNCHANGED ledgerVars
  BY <1>2 DEF SetPlatformLimits, Tick, ledgerVars
<1>3. ASSUME NEW s \in Requests, HoldStep(s) PROVE charges'[r] = charges[r]
  BY <1>3 DEF HoldStep, Hold, LedgerTypeOK
<1>4. ASSUME NEW s \in Requests, LinkStep(s)
      PROVE  /\ charges'[r].state = charges[r].state
             /\ charges'[r].amount = charges[r].amount
             /\ charges'[r].key = charges[r].key
  BY <1>4 DEF LinkStep, Link, LedgerTypeOK, ChargeRows
<1>5. ASSUME NEW s \in Requests, SettleStep(s) PROVE charges'[r] = charges[r]
  BY <1>5, SettleHeldShape DEF SettleStep, Settle
<1>6. ASSUME NEW j \in JobIds, SettleJobStep(j) PROVE charges'[r] = charges[r]
  BY <1>6, SettleHeldShape DEF SettleJobStep, SettleJob
<1>. QED
  BY <1>1, <1>2, <1>3, <1>4, <1>5, <1>6 DEF Next

\* A settled charge keeps its verdict, price and payer for ever: settle and
\* settle_job may be called again, by anyone, in any order, without effect.
THEOREM LedgerSettledIsFinal == Spec => SettledIsFinal
<1>1. LedgerTypeOK /\ [Next]_ledgerVars => [SettledStays]_charges
  BY SettledStaysStep
<1>. QED
  BY <1>1, LedgerTypes, PTL DEF Spec, SettledIsFinal, SettledStays

-----------------------------------------------------------------------------
(* Sums over finite sets.  Induction on a finite set is the choice of a      *)
(* smallest set for which a statement fails.                                 *)

\* Any family of subsets of a finite set has a smallest member.
LEMMA SmallestSet ==
  ASSUME NEW F, IsFiniteSet(F), NEW T \in SUBSET SUBSET F, T # {}
  PROVE  \E U \in T : \A V \in T : V \subseteq U => V = U
<1> DEFINE R == StrictSubsetOrdering(F)
<1>1. T \subseteq FiniteSubsetsOf(F)
  BY FS_Subset DEF FiniteSubsetsOf
<1>2. IsWellFoundedOn(R, FiniteSubsetsOf(F))
  BY FS_StrictSubsetOrderingWellFounded
<1>3. PICK U \in T : \A V \in T : <<V, U>> \notin R
  <2> HIDE DEF R
  <2>. QED BY <1>1, <1>2, WFMin
<1>4. ASSUME NEW V \in T, V \subseteq U, V # U PROVE FALSE
  <2>1. <<V, U>> \in R
    BY <1>4 DEF StrictSubsetOrdering
  <2>. QED BY <2>1, <1>3
<1>. QED BY <1>4

\* The element a fold takes first.
First(s) == CHOOSE x \in s : TRUE

\* g has the sum of every part of F: nothing for no row, and for every row of
\* a set its amount more than for the set without it.
Adds(g, rows, F) ==
  /\ g \in [SUBSET F -> Nat]
  /\ g[{}] = 0
  /\ \A s \in SUBSET F : \A x \in s : g[s] = rows[x].amount + g[s \ {x}]

\* For rows with natural amounts there is such a table of sums.
LEMMA AddsExists ==
  ASSUME NEW F, IsFiniteSet(F), NEW rows, \A x \in F : rows[x].amount \in Nat
  PROVE  \E g : Adds(g, rows, F)
<1> DEFINE T == {U \in SUBSET F : ~ \E g : Adds(g, rows, U)}
<1> SUFFICES ASSUME T # {} PROVE FALSE
  OBVIOUS
<1>1. PICK U \in T : \A V \in T : V \subseteq U => V = U
  <2> HIDE DEF T
  <2>1. T \in SUBSET SUBSET F BY DEF T
  <2>. QED BY <2>1, SmallestSet
<1>2. U # {}
  <2>1. SUFFICES ASSUME U = {} PROVE FALSE OBVIOUS
  <2>2. Adds([s \in SUBSET {} |-> 0], rows, {}) BY DEF Adds
  <2>. QED BY <2>1, <2>2
<1>3. PICK x \in U : TRUE BY <1>2
<1>4. U \ {x} \notin T BY <1>1, <1>3
<1>5. PICK g : Adds(g, rows, U \ {x})
  BY <1>4
<1> DEFINE h == [s \in SUBSET U |-> IF x \in s THEN rows[x].amount + g[s \ {x}] ELSE g[s]]
<1>6. h \in [SUBSET U -> Nat]
  <2> SUFFICES ASSUME NEW s \in SUBSET U PROVE h[s] \in Nat OBVIOUS
  <2>1. s \ {x} \in SUBSET (U \ {x}) /\ (x \notin s => s \in SUBSET (U \ {x})) OBVIOUS
  <2>. QED BY <2>1, <1>5, <1>3 DEF Adds
<1>7. h[{}] = 0 BY <1>5 DEF Adds
<1>8. ASSUME NEW s \in SUBSET U, NEW y \in s PROVE h[s] = rows[y].amount + h[s \ {y}]
  <2>1. CASE y = x
    <3>1. h[s] = rows[x].amount + g[s \ {x}] BY <2>1
    <3>2. h[s \ {x}] = g[s \ {x}] OBVIOUS
    <3>. QED BY <3>1, <3>2, <2>1
  <2>2. CASE y # x /\ x \notin s
    <3>1. h[s] = g[s] /\ h[s \ {y}] = g[s \ {y}] BY <2>2
    <3>2. s \in SUBSET (U \ {x}) BY <2>2
    <3>. QED BY <3>1, <3>2, <1>5 DEF Adds
  <2>3. CASE y # x /\ x \in s
    <3> DEFINE t == s \ {x}
    <3>1. h[s] = rows[x].amount + g[t] BY <2>3
    <3>2. (s \ {y}) \ {x} = t \ {y} OBVIOUS
    <3>3. h[s \ {y}] = rows[x].amount + g[t \ {y}] BY <2>3, <3>2
    <3>4. t \in SUBSET (U \ {x}) /\ y \in t /\ t \ {y} \in SUBSET (U \ {x}) BY <2>3
    <3>5. g[t] = rows[y].amount + g[t \ {y}] BY <3>4, <1>5 DEF Adds
    <3>6. g[t \ {y}] \in Nat BY <3>4, <1>5 DEF Adds
    <3>7. rows[x].amount \in Nat /\ rows[y].amount \in Nat BY <1>3
    <3> HIDE DEF t, h
    <3>. QED BY <3>1, <3>3, <3>5, <3>6, <3>7
  <2>. QED BY <2>1, <2>2, <2>3
<1>9. Adds(h, rows, U)
  <2> HIDE DEF h
  <2>. QED BY <1>6, <1>7, <1>8 DEF Adds
<1>. QED BY <1>9

\* What Total computes: one row is picked, then the next.
LEMMA TotalUnfolds ==
  ASSUME NEW rows, NEW S, NEW g,
         g = [s \in SUBSET S |-> IF s = {} THEN 0 ELSE rows[First(s)].amount + g[s \ {First(s)}]]
  PROVE  \E h : /\ h = [s \in SUBSET S |->
                          IF s = {} THEN 0 ELSE rows[First(s)].amount + h[s \ {First(s)}]]
                /\ Total(rows, S) = h[S]
  BY DEF Total, MapThenSumSet, MapThenFoldSet, First

\* Total is the sum of the amounts, whatever row is picked first.
LEMMA TotalIsSum ==
  ASSUME NEW F, IsFiniteSet(F), NEW rows, NEW g, Adds(g, rows, F), NEW S \in SUBSET F
  PROVE  Total(rows, S) = g[S]
<1>1. ASSUME NEW s \in SUBSET F, s # {} PROVE First(s) \in s
  BY <1>1 DEF First
<1> DEFINE f == [s \in SUBSET S |-> g[s]]
<1>2. f = [s \in SUBSET S |-> IF s = {} THEN 0 ELSE rows[First(s)].amount + f[s \ {First(s)}]]
  <2>1. ASSUME NEW s \in SUBSET S
        PROVE  f[s] = IF s = {} THEN 0 ELSE rows[First(s)].amount + f[s \ {First(s)}]
    <3>1. CASE s = {} BY <3>1 DEF Adds
    <3>2. CASE s # {}
      <4>1. First(s) \in s /\ s \in SUBSET F BY <1>1, <3>2
      <4>2. g[s] = rows[First(s)].amount + g[s \ {First(s)}] BY <4>1 DEF Adds
      <4>3. s \ {First(s)} \in SUBSET S OBVIOUS
      <4>. QED BY <4>2, <4>3, <3>2
    <3>. QED BY <3>1, <3>2
  <2>. QED BY <2>1
<1>3. PICK h : /\ h = [s \in SUBSET S |->
                          IF s = {} THEN 0 ELSE rows[First(s)].amount + h[s \ {First(s)}]]
               /\ Total(rows, S) = h[S]
  <2> HIDE DEF f
  <2>. QED BY <1>2, TotalUnfolds
<1> DEFINE T == {s \in SUBSET S : h[s] # g[s]}
<1>4. T = {}
  <2>1. SUFFICES ASSUME T # {} PROVE FALSE OBVIOUS
  <2>2. PICK U \in T : \A V \in T : V \subseteq U => V = U
    <3>1. IsFiniteSet(S) BY FS_Subset
    <3>2. T \in SUBSET SUBSET S OBVIOUS
    <3> HIDE DEF T
    <3>. QED BY <2>1, <3>1, <3>2, SmallestSet
  <2>3. CASE U = {}
    <3>1. h[{}] = 0 BY <1>3
    <3>. QED BY <2>3, <3>1 DEF Adds
  <2>4. CASE U # {}
    <3> DEFINE x == First(U)
    <3>1. x \in U /\ U \in SUBSET F BY <1>1, <2>4
    <3>2. h[U] = rows[x].amount + h[U \ {x}] BY <1>3, <2>4
    <3>3. g[U] = rows[x].amount + g[U \ {x}] BY <3>1 DEF Adds
    <3>4. U \ {x} \notin T BY <2>2, <3>1
    <3>5. h[U \ {x}] = g[U \ {x}] BY <3>4
    <3> HIDE DEF x
    <3>. QED BY <3>2, <3>3, <3>5
  <2>. QED BY <2>3, <2>4
<1>. QED BY <1>3, <1>4
\* A sum of natural amounts is natural.
LEMMA TotalIsNat ==
  ASSUME NEW S, IsFiniteSet(S), NEW rows, \A r \in S : rows[r].amount \in Nat
  PROVE  Total(rows, S) \in Nat
<1>1. PICK g : Adds(g, rows, S)
  BY AddsExists
<1>2. S \in SUBSET S
  OBVIOUS
<1>3. g[S] \in Nat
  BY <1>1, <1>2 DEF Adds
<1>. QED
  BY <1>1, <1>2, <1>3, TotalIsSum

\* One row more adds its amount.
LEMMA TotalAdd ==
  ASSUME NEW S, IsFiniteSet(S), NEW rows, NEW x \in S, \A r \in S : rows[r].amount \in Nat
  PROVE  Total(rows, S) = Total(rows, S \ {x}) + rows[x].amount
<1>1. PICK g : Adds(g, rows, S)
  BY AddsExists
<1>2. g[S] = rows[x].amount + g[S \ {x}] /\ g[S \ {x}] \in Nat
  BY <1>1 DEF Adds
<1>3. Total(rows, S) = g[S] /\ Total(rows, S \ {x}) = g[S \ {x}]
  BY <1>1, TotalIsSum
<1>. QED
  BY <1>2, <1>3

\* Tables that agree on the rows of a set have the same sum over it.
LEMMA TotalAgrees ==
  ASSUME NEW S, IsFiniteSet(S), NEW rows, NEW others,
         \A r \in S : rows[r].amount \in Nat /\ others[r].amount = rows[r].amount
  PROVE  Total(others, S) = Total(rows, S)
<1>1. PICK g : Adds(g, rows, S)
  BY AddsExists
<1>2. Adds(g, others, S)
  BY <1>1 DEF Adds
<1>. QED
  BY <1>1, <1>2, TotalIsSum

\* Fewer rows, no more money.
LEMMA TotalMonotone ==
  ASSUME NEW S, IsFiniteSet(S), NEW rows, NEW A \in SUBSET S,
         \A r \in S : rows[r].amount \in Nat
  PROVE  Total(rows, A) <= Total(rows, S)
<1>1. PICK g : Adds(g, rows, S)
  BY AddsExists
<1> DEFINE T == {U \in SUBSET S : A \subseteq U /\ ~ (g[A] <= g[U])}
<1>2. T = {}
  <2> SUFFICES ASSUME T # {} PROVE FALSE
    OBVIOUS
  <2>1. PICK U \in T : \A V \in T : V \subseteq U => V = U
    <3>1. T \in SUBSET SUBSET S
      OBVIOUS
    <3> HIDE DEF T
    <3>. QED
      BY <3>1, SmallestSet
  <2>2. \A V \in SUBSET S : g[V] \in Nat
    BY <1>1 DEF Adds
  <2>3. U # A
    BY <2>2
  <2>4. PICK x \in U : x \notin A
    BY <2>3
  <2>5. U \ {x} \notin T
    BY <2>1, <2>4
  <2>6. g[A] <= g[U \ {x}]
    BY <2>4, <2>5
  <2>7. g[U] = rows[x].amount + g[U \ {x}] /\ rows[x].amount \in Nat
    BY <1>1 DEF Adds
  <2>8. ~ (g[A] <= g[U])
    OBVIOUS
  <2>. QED
    BY <2>2, <2>6, <2>7, <2>8
<1>3. g[A] <= g[S]
  BY <1>2
<1>. QED
  BY <1>1, <1>3, TotalIsSum

-----------------------------------------------------------------------------
(* The limits.                                                             *)

\* There are never more than finitely many charges.
Booked == {r \in Requests : charges[r].state # "none"}
LedgerInv == LedgerTypeOK /\ IsFiniteSet(Booked)

\* Booking adds one charge; no other step makes one.
LEMMA LedgerInvInductive ==
    /\ LedgerInit => LedgerInv
    /\ LedgerInv /\ [Next]_ledgerVars => LedgerInv'
<1>1. LedgerInit => LedgerInv
  <2> SUFFICES ASSUME LedgerInit PROVE Booked = {}
    BY LedgerInitTypeOK, FS_EmptySet DEF LedgerInv
  <2>. QED
    BY DEF LedgerInit, Booked, NoCharge
<1>2. ASSUME LedgerInv, [Next]_ledgerVars PROVE LedgerInv'
  <2>. LedgerTypeOK /\ LedgerTypeOK' /\ IsFiniteSet(Booked)
    BY <1>2, LedgerNextTypeOK DEF LedgerInv
  <2>1. ASSUME charges' = charges PROVE Booked' \subseteq Booked
    BY <2>1 DEF Booked
  <2>2. ASSUME NEW k \in Keys, KeyStep(k) PROVE Booked' \subseteq Booked
    BY <2>1, <2>2 DEF KeyStep, CreateKey, UpdateKey, DeleteKey, AuthenticateAndConsume
  <2>3. ASSUME SetPlatformLimits \/ Tick \/ UNCHANGED ledgerVars PROVE Booked' \subseteq Booked
    BY <2>1, <2>3 DEF SetPlatformLimits, Tick, ledgerVars
  <2>4. ASSUME NEW r \in Requests, HoldStep(r) PROVE Booked' \subseteq Booked \cup {r}
    BY <2>4 DEF HoldStep, Hold, Booked, LedgerTypeOK
  <2>5. ASSUME NEW r \in Requests, LinkStep(r) PROVE Booked' \subseteq Booked
    BY <2>5 DEF LinkStep, Link, Booked, LedgerTypeOK, ChargeRows
  <2>6. ASSUME NEW r \in Requests, SettleStep(r) PROVE Booked' \subseteq Booked
    BY <2>6, SettleHeldShape DEF SettleStep, Settle, Booked, LedgerTypeOK
  <2>7. ASSUME NEW j \in JobIds, SettleJobStep(j) PROVE Booked' \subseteq Booked
    BY <2>7, SettleHeldShape DEF SettleJobStep, SettleJob, Booked, LedgerTypeOK
  <2>8. (\E r \in Requests : Booked' \subseteq Booked \cup {r}) \/ Booked' \subseteq Booked
    BY <1>2, <2>2, <2>3, <2>4, <2>5, <2>6, <2>7 DEF Next
  <2>9. IsFiniteSet(Booked')
    <3>1. \A r \in Requests : IsFiniteSet(Booked \cup {r})
      BY FS_AddElement
    <3>. QED
      BY <2>8, <3>1, FS_Subset
  <2>. QED
    BY <2>9 DEF LedgerInv
<1>. QED
  BY <1>1, <1>2

\* What a window counts are booked charges of natural amounts.
LEMMA CountedIsFinite ==
  ASSUME LedgerInv, NEW w, NEW owner
  PROVE  /\ IsFiniteSet(Counted(w, owner))
         /\ \A r \in Counted(w, owner) : charges[r].amount \in Nat
<1>1. Counted(w, owner) \subseteq Booked
  BY DEF Counted, Booked
<1>2. IsFiniteSet(Counted(w, owner))
  BY <1>1, FS_Subset DEF LedgerInv
<1>. QED
  BY <1>2 DEF Counted, LedgerInv, LedgerTypeOK, ChargeRows

\* As long as no charge enters a window and none changes its amount, what is
\* spoken for does not rise.
LEMMA NothingNew ==
  ASSUME LedgerInv, NEW w, NEW owner,
         Counted(w, owner)' \subseteq Counted(w, owner),
         \A r \in Counted(w, owner)' : charges'[r].amount = charges[r].amount
  PROVE  ~ (Spent(w, owner)' > Spent(w, owner))
<1> DEFINE A == Counted(w, owner)'
           S == Counted(w, owner)
<1>1. IsFiniteSet(S) /\ \A r \in S : charges[r].amount \in Nat
  BY CountedIsFinite
<1>2. IsFiniteSet(A)
  BY <1>1, FS_Subset
<1> HIDE DEF A, S
<1>3. A \in SUBSET S /\ \A r \in A : charges'[r].amount = charges[r].amount
  BY DEF A, S
<1>4. Total(charges, A) <= Total(charges, S)
  BY <1>1, <1>3, TotalMonotone
<1>5. Total(charges', A) = Total(charges, A)
  BY <1>1, <1>2, <1>3, TotalAgrees
<1>6. Total(charges, A) \in Nat /\ Total(charges, S) \in Nat
  BY <1>1, <1>2, <1>3, TotalIsNat
<1>7. Spent(w, owner) = Total(charges, S) /\ Spent(w, owner)' = Total(charges', A)
  BY DEF Spent, A, S
<1>. QED
  BY <1>4, <1>5, <1>6, <1>7

\* A new charge raises what is spoken for by its amount at most.
LEMMA HoldAddsItsAmount ==
  ASSUME LedgerInv, NEW r \in Requests, NEW payer \in Keys \cup {NoKey}, NEW quote \in Quotes,
         Hold(r, payer, quote), NEW w \in Windows, NEW owner
  PROVE  /\ Spent(w, owner) \in Nat /\ Spent(w, owner)' \in Nat
         /\ Spent(w, owner)' <= Spent(w, owner) + Charged(quote)
         /\ owner # NoKey /\ owner # payer => ~ (Spent(w, owner)' > Spent(w, owner))
<1> DEFINE A == Counted(w, owner)'
           S == Counted(w, owner)
<1>1. /\ \A q \in Requests \ {r} : charges'[q] = charges[q]
      /\ charges'[r].amount = Charged(quote) /\ charges'[r].key = payer
      /\ charges[r].state = "none" /\ now' = now
  BY DEF Hold, LedgerInv, LedgerTypeOK
<1>2. A \ {r} = S /\ r \notin S
  BY <1>1 DEF Counted, InWindow
<1>3. IsFiniteSet(S) /\ \A q \in S : charges[q].amount \in Nat
  BY CountedIsFinite
<1>4. IsFiniteSet(A)
  <2>1. A \subseteq S \cup {r}
    BY <1>2
  <2>. QED
    BY <1>3, <2>1, FS_AddElement, FS_Subset
<1>5. Charged(quote) \in Nat
  BY ChargedIsNat, QuotesAssumption
<1>6. \A q \in S : q \in Requests \ {r}
  BY <1>2 DEF Counted
<1>7. r \in A => payer = owner \/ owner = NoKey
  BY <1>1 DEF Counted
<1>8. Spent(w, owner) = Total(charges, S) /\ Spent(w, owner)' = Total(charges', A)
  BY DEF Spent
<1> HIDE DEF A, S
<1>9. Total(charges', S) = Total(charges, S)
  BY <1>1, <1>3, <1>6, TotalAgrees
<1>10. Total(charges, S) \in Nat
  BY <1>3, TotalIsNat
<1>11. CASE r \notin A
  <2>1. A = S
    BY <1>2, <1>11
  <2>. QED
    BY <1>5, <1>8, <1>9, <1>10, <2>1
<1>12. CASE r \in A
  <2>1. \A q \in A : charges'[q].amount \in Nat
    BY <1>1, <1>2, <1>3, <1>5, <1>6
  <2>2. Total(charges', A) = Total(charges', A \ {r}) + charges'[r].amount
    BY <1>4, <1>12, <2>1, TotalAdd
  <2>3. Total(charges', A) = Total(charges, S) + Charged(quote)
    BY <1>1, <1>2, <1>9, <2>2
  <2>. QED
    BY <1>5, <1>7, <1>8, <1>10, <1>12, <2>3
<1>. QED
  BY <1>11, <1>12

\* No step but a hold puts a charge into a window: settling only takes some
\* out, a link leaves state, amount, time and payer alone, and windows move on.
LEMMA OnlyHoldAdds ==
  ASSUME LedgerInv, [Next]_ledgerVars, ~ \E r \in Requests : HoldStep(r), NEW w \in Windows, NEW owner
  PROVE  ~ (Spent(w, owner)' > Spent(w, owner))
<1>. /\ LedgerTypeOK
     /\ \A q \in Requests : charges[q] \in ChargeRows
     /\ \A q \in Requests : charges[q].at \in Nat
     /\ now \in Nat
  BY DEF LedgerInv, LedgerTypeOK, ChargeRows
<1> DEFINE Calm(q) ==
      /\ charges'[q].state \in {"held", "spent"} => charges[q].state \in {"held", "spent"}
      /\ charges'[q].amount = charges[q].amount
      /\ charges'[q].key = charges[q].key
      /\ charges'[q].at = charges[q].at
<1>1. ASSUME \A q \in Requests : Calm(q), now' = now \/ now' = now + 1
      PROVE  ~ (Spent(w, owner)' > Spent(w, owner))
  <2>1. \A q \in Requests : InWindow(w, charges[q].at)' => InWindow(w, charges[q].at)
    BY <1>1, TimeAssumption DEF InWindow
  <2>2. Counted(w, owner)' \subseteq Counted(w, owner)
    BY <1>1, <2>1 DEF Counted
  <2>3. \A r \in Counted(w, owner)' : charges'[r].amount = charges[r].amount
    BY <1>1 DEF Counted
  <2>. QED
    BY <2>2, <2>3, NothingNew
<1>2. ASSUME NEW k \in Keys, KeyStep(k) PROVE charges' = charges /\ now' = now
  BY <1>2 DEF KeyStep, CreateKey, UpdateKey, DeleteKey, AuthenticateAndConsume
<1>3. CASE SetPlatformLimits \/ Tick \/ UNCHANGED ledgerVars
  BY <1>1, <1>3 DEF SetPlatformLimits, Tick, ledgerVars
<1>4. ASSUME NEW r \in Requests, LinkStep(r) PROVE ~ (Spent(w, owner)' > Spent(w, owner))
  <2>1. now' = now /\ \A q \in Requests : Calm(q)
    BY <1>4 DEF LinkStep, Link, LedgerTypeOK, ChargeRows
  <2>. QED
    BY <1>1, <2>1
<1>5. ASSUME NEW rs, NEW status, charges' = SettleHeld(rs, status), now' = now
      PROVE  ~ (Spent(w, owner)' > Spent(w, owner))
  <2>1. \A q \in Requests : Calm(q)
    BY <1>5 DEF SettleHeld, ChargeRows, ChargeStates
  <2>. QED
    BY <1>1, <1>5, <2>1
<1>6. ASSUME NEW r \in Requests, SettleStep(r) PROVE ~ (Spent(w, owner)' > Spent(w, owner))
  BY <1>5, <1>6 DEF SettleStep, Settle
<1>7. ASSUME NEW j \in JobIds, SettleJobStep(j) PROVE ~ (Spent(w, owner)' > Spent(w, owner))
  BY <1>5, <1>7 DEF SettleJobStep, SettleJob
<1>8. CASE charges' = charges /\ now' = now
  BY <1>1, <1>8
<1> HIDE DEF Calm
<1>. QED
  BY <1>2, <1>3, <1>4, <1>6, <1>7, <1>8 DEF Next

\* A step that raises what is spoken for stays within the limits in force.
WithinLimits ==
    \A w \in Windows :
          /\ platformLimits[w] # NoLimit /\ Spent(w, NoKey)' > Spent(w, NoKey) =>
                 Spent(w, NoKey)' <= platformLimits[w]
          /\ \A k \in Keys :
                apiKeys[k].limits[w] # NoLimit /\ Spent(w, k)' > Spent(w, k) =>
                    Spent(w, k)' <= apiKeys[k].limits[w]

LEMMA WithinLimitsStep == LedgerInv /\ [Next]_ledgerVars => WithinLimits
<1> SUFFICES ASSUME LedgerInv, [Next]_ledgerVars PROVE WithinLimits
  OBVIOUS
<1>1. CASE ~ \E r \in Requests : HoldStep(r)
  BY <1>1, OnlyHoldAdds, NoKeyAssumption DEF WithinLimits
<1>2. ASSUME NEW r \in Requests, HoldStep(r) PROVE WithinLimits
  <2>1. PICK payer \in Keys \cup {NoKey}, quote \in Quotes : Hold(r, payer, quote)
    BY <1>2 DEF HoldStep
  <2> SUFFICES ASSUME NEW w \in Windows
               PROVE  /\ platformLimits[w] # NoLimit => Spent(w, NoKey)' <= platformLimits[w]
                      /\ \A k \in Keys :
                            apiKeys[k].limits[w] # NoLimit /\ Spent(w, k)' > Spent(w, k) =>
                                Spent(w, k)' <= apiKeys[k].limits[w]
    BY DEF WithinLimits
  <2>2. Charged(quote) \in Nat
    BY ChargedIsNat, QuotesAssumption
  <2>3. /\ platformLimits[w] # NoLimit => Spent(w, NoKey) + Charged(quote) <= platformLimits[w]
        /\ payer # NoKey /\ apiKeys[payer].limits[w] # NoLimit =>
               Spent(w, payer) + Charged(quote) <= apiKeys[payer].limits[w]
    BY <2>1 DEF Hold, CanHold, Fits
  <2>4. /\ Spent(w, NoKey)' <= Spent(w, NoKey) + Charged(quote)
        /\ Spent(w, NoKey) \in Nat /\ Spent(w, NoKey)' \in Nat
        /\ \A k \in Keys :
              /\ Spent(w, k) \in Nat /\ Spent(w, k)' \in Nat
              /\ Spent(w, k)' <= Spent(w, k) + Charged(quote)
              /\ k # payer => ~ (Spent(w, k)' > Spent(w, k))
    BY <2>1, HoldAddsItsAmount, NoKeyAssumption
  <2>5. /\ platformLimits[w] \in Nat \cup {NoLimit}
        /\ \A k \in Keys : apiKeys[k].limits[w] \in Nat \cup {NoLimit}
    BY DEF LedgerInv, LedgerTypeOK, KeyRows, Limits
  <2>6. platformLimits[w] # NoLimit => Spent(w, NoKey)' <= platformLimits[w]
    BY <2>2, <2>3, <2>4, <2>5
  <2>7. ASSUME NEW k \in Keys, apiKeys[k].limits[w] # NoLimit, Spent(w, k)' > Spent(w, k)
        PROVE  Spent(w, k)' <= apiKeys[k].limits[w]
    BY <2>2, <2>3, <2>4, <2>5, <2>7, NoKeyAssumption
  <2>. QED
    BY <2>6, <2>7
<1>. QED
  BY <1>1, <1>2

\* What is spoken for in any window, of any key and of the platform, only rises
\* up to the limit in force, for any prices, limits and window lengths: hold checks
\* the sum it is about to make, and nothing else makes a sum larger.
THEOREM LedgerRespectsLimits == Spec => SpendRisesWithinLimits
<1>1. LedgerInv /\ [Next]_ledgerVars => [WithinLimits]_ledgerVars
  BY WithinLimitsStep
<1>. QED
  BY <1>1, LedgerInvInductive, PTL DEF Spec, SpendRisesWithinLimits, WithinLimits
=============================================================================
