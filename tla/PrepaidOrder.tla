---------------------------- MODULE PrepaidOrder ----------------------------
(***************************************************************************)
(* What the billing chain promises for one prepaid order, without saying   *)
(* which process does what: money is held first, a held sum is settled     *)
(* once, and it is spent only on an order whose result was delivered.      *)
(* (control_plane/api_keys.py, hold and settle.)  GenerationJobs is shown  *)
(* to implement it.                                                        *)
(***************************************************************************)
CONSTANT Orders

VARIABLES
    money,      \* "none", "held", "spent" or "refunded", per order
    delivered   \* the orders with a published result

orderVars == <<money, delivered>>

OrderInit ==
    /\ money = [o \in Orders |-> "none"]
    /\ delivered = {}

HoldMoney(o) ==
    /\ money[o] = "none"
    /\ money' = [money EXCEPT ![o] = "held"]
    /\ UNCHANGED delivered

\* Nothing is produced for an order nobody has paid a deposit for.
DeliverOrder(o) ==
    /\ money[o] # "none"
    /\ delivered' = delivered \cup {o}
    /\ UNCHANGED money

\* The result may be delivered in the same step as it is paid for, and not later.
SpendMoney(o) ==
    /\ money[o] = "held"
    /\ money' = [money EXCEPT ![o] = "spent"]
    /\ delivered' = delivered \cup {o}

RefundMoney(o) ==
    /\ money[o] = "held"
    /\ money' = [money EXCEPT ![o] = "refunded"]
    /\ UNCHANGED delivered

OrderStep(o) == HoldMoney(o) \/ DeliverOrder(o) \/ SpendMoney(o) \/ RefundMoney(o)

OrderNext == \E o \in Orders : OrderStep(o)

OrderSpec == OrderInit /\ [][OrderNext]_orderVars
=============================================================================
