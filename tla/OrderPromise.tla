----------------------------- MODULE OrderPromise -----------------------------
(***************************************************************************)
(* What the shop promises about an order, without tables, handlers,        *)
(* deliveries, workers or the connector (README.md:9-10,                   *)
(* docs/architecture.md:24-26): an order is settled only with the money    *)
(* for it, goods leave only for a settled order, "fulfilled" means         *)
(* delivered, "refused" means not delivered and never to be, and everything*)
(* doubtful is left to a human, for whom goods may still arrive.           *)
(***************************************************************************)
CONSTANT Orders

VARIABLES
    stage,   \* how far each order is
    money,   \* orders whose full price the gateway holds for the shop
    goods    \* orders whose goods were delivered

Stage == {"none", "open", "closed", "settled", "fulfilled", "refused", "review"}

Init ==
    /\ stage = [o \in Orders |-> "none"]
    /\ money = {}
    /\ goods = {}

Moves(o, from, to) ==
    /\ stage[o] = from
    /\ stage' = [stage EXCEPT ![o] = to]
    /\ UNCHANGED <<money, goods>>

Place(o) == Moves(o, "none", "open")

(* An order that never got an invoice is closed; nobody can pay it.        *)
Close(o) == o \notin money /\ Moves(o, "open", "closed")

Receive(o) ==
    /\ stage[o] = "open"
    /\ money' = money \cup {o}
    /\ UNCHANGED <<stage, goods>>

Settle(o) == o \in money /\ Moves(o, "open", "settled")

Deliver(o) ==
    /\ stage[o] \in {"settled", "review"}
    /\ goods' = goods \cup {o}
    /\ UNCHANGED <<stage, money>>

Fulfill(o) == o \in goods /\ Moves(o, "settled", "fulfilled")

Refuse(o) == o \notin goods /\ Moves(o, "settled", "refused")

Review(o) == Moves(o, "settled", "review")

Step(o) == \/ Place(o) \/ Close(o) \/ Receive(o) \/ Settle(o)
           \/ Deliver(o) \/ Fulfill(o) \/ Refuse(o) \/ Review(o)

Next == \E o \in Orders : Step(o)

Spec == Init /\ [][Next]_<<stage, money, goods>>
=============================================================================
