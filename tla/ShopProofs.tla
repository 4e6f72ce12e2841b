------------------------------ MODULE ShopProofs ------------------------------
(***************************************************************************)
(* However many users, chats, offerings and sessions there are: a checkout *)
(* gives one order, as it was confirmed; the conversation uses orders and  *)
(* invoices as PaymentFlow allows, and in the whole shop as Storefront     *)
(* does; goods leave it only as they were confirmed and paid.              *)
(***************************************************************************)
EXTENDS Shop, HandProofs, FiniteSetTheorems

-----------------------------------------------------------------------------
(* After an order was placed the tables of the order core change what has  *)
(* become of it, and not what it is: no UPDATE of src/db/mod.rs sets       *)
(* amount_rial, and none removes a row.                                    *)
OrdersStay ==
    /\ orders' \in [Orders -> OrderRow]
    /\ \A o \in Orders : /\ orders'[o].amount = orders[o].amount
                         /\ orders[o].status # "absent" => orders'[o].status # "absent"

(* UPDATE orders SET status = ...                                          *)
LEMMA SetStatusStays ==
  ASSUME orders \in [Orders -> OrderRow], NEW o, NEW s \in OrderStatus, SetStatus(o, s)
  PROVE  OrdersStay
<1>1. \A p \in Orders : orders'[p] = IF p = o THEN [orders[p] EXCEPT !.status = s] ELSE orders[p]
  BY DEF SetStatus
<1>2. orders' \in [Orders -> OrderRow] BY DEF SetStatus, OrderRow
<1>3. s # "absent" BY DEF OrderStatus
<1>. QED BY <1>1, <1>2, <1>3 DEF OrdersStay, OrderRow

(* A statement that names other tables only.                               *)
LEMMA UnchangedStays ==
  ASSUME orders \in [Orders -> OrderRow], UNCHANGED orders
  PROVE  OrdersStay
  BY DEF OrdersStay

(* Every handler, the gateway and the customer leave orders what they are. *)
LEMMA PayStepStays ==
  ASSUME orders \in [Orders -> OrderRow], PayStep
  PROVE  OrdersStay
<1>1. ASSUME NEW o \in Orders, CreatorStep(o) PROVE OrdersStay
  <2>1. CASE CreateInvoice(o)
    BY <2>1, UnchangedStays DEF CreateInvoice, storeVars
  <2>2. CASE RegisterCreatedInvoice(o)
    <3>1. SetStatus(o, "awaiting_payment") \/ UNCHANGED orders
      BY <2>2 DEF RegisterCreatedInvoice, RegisterInvoice, storeVars
    <3>. QED BY <3>1, SetStatusStays, UnchangedStays DEF OrderStatus
  <2>3. CASE FailCreation(o)
    <3>1. SetStatus(o, "failed") \/ UNCHANGED orders
      BY <2>3 DEF FailCreation, MarkCreationFailed, storeVars
    <3>. QED BY <3>1, SetStatusStays, UnchangedStays DEF OrderStatus
  <2>4. CASE SendLink(o)
    BY <2>4, UnchangedStays DEF SendLink, storeVars
  <2>. QED BY <1>1, <2>1, <2>2, <2>3, <2>4 DEF CreatorStep
<1>2. ASSUME NEW r \in Requests, RequestStep(r) PROVE OrdersStay
  <2>1. CASE Record(r)
    BY <2>1, UnchangedStays DEF Record, RecordDelivery, storeVars
  <2>2. CASE Verify(r)
    BY <2>2, UnchangedStays DEF Verify, storeVars
  <2>3. CASE Settle(r)
    <3>. DEFINE i == notices[requests[r].delivery].invoice
    <3>1. SetStatus(payments[i].order, "paid") \/ UNCHANGED orders
      BY <2>3 DEF Settle, SettlePayment, storeVars
    <3>. QED BY <3>1, SetStatusStays, UnchangedStays DEF OrderStatus
  <2>. QED BY <1>2, <2>1, <2>2, <2>3 DEF RequestStep
<1>3. CASE OutsideStep
  BY <1>3, UnchangedStays DEF OutsideStep, CustomerPays, InvoiceExpires, Notify, Deliver, storeVars
<1>. QED BY <1>1, <1>2, <1>3 DEF PayStep

-----------------------------------------------------------------------------
(* The invariant, in the order of its parts.                               *)

LEMMA CheckoutInvInit == ASSUME CheckoutInit PROVE CheckoutInv
<1>. USE DEF CheckoutInit, PayInit, StoreInit
<1>1. CheckoutRows
  BY DEF CheckoutRows, NoOrder, OrderRow, NoSession, SessionRow, IdleLane, Lane, NoOrigin, Origin
<1>2. \A c \in Chats : ChoiceHolds(c) /\ LockHolds(c)
  BY DEF ChoiceHolds, LockHolds, IdleLane
<1>3. \A s \in Sessions : SessionComplete(s) BY DEF SessionComplete, NoSession
<1>4. \A o \in Orders : OrderSpendsSession(o) BY DEF OrderSpendsSession, NoOrigin
<1>5. OneOrderPerSession BY DEF OneOrderPerSession, NoOrigin
<1>6. OrderAsConfirmed BY DEF OrderAsConfirmed, NoOrigin
<1>. QED BY <1>1, <1>2, <1>3, <1>4, <1>5, <1>6 DEF CheckoutInv

(* What does not concern the orders: sessions keep their user and offering *)
(* for good, and those that gave an order stay deleted.                    *)
SessionsStay ==
    /\ sessions' \in [Sessions -> SessionRow]
    /\ \A s \in Sessions : sessions[s].state # "none" =>
         /\ sessions'[s].state # "none"
         /\ sessions'[s].user = sessions[s].user
         /\ sessions'[s].offering = sessions[s].offering
         /\ sessions[s].state = "deleted" => sessions'[s].state = "deleted"

LEMMA OrdersPart ==
  ASSUME CheckoutInv, OrdersStay, SessionsStay, UNCHANGED origin
  PROVE  /\ \A o \in Orders : OrderSpendsSession(o)'
         /\ OneOrderPerSession'
         /\ OrderAsConfirmed'
<1>. USE DEF CheckoutInv
<1>1. \A o \in Orders : origin[o].session # NULL => origin[o].session \in Sessions
  BY DEF CheckoutRows, Origin
<1>2. \A o \in Orders : OrderSpendsSession(o)'
  BY <1>1 DEF OrderSpendsSession, OrdersStay, SessionsStay
<1>3. OneOrderPerSession' BY DEF OneOrderPerSession
<1>4. OrderAsConfirmed'
  BY <1>1 DEF OrderAsConfirmed, OrderSpendsSession, OrdersStay, SessionsStay
<1>. QED BY <1>2, <1>3, <1>4

(* Steps that leave orders, sessions and their history alone keep the      *)
(* invariant when the lanes are in order.                                  *)
LEMMA LanesPart ==
  ASSUME CheckoutInv, OrdersStay, UNCHANGED <<sessions, origin>>,
         pending' \in [Users -> Offerings \cup {NULL}],
         lanes' \in [Chats -> Lane],
         \A c \in Chats : ChoiceHolds(c)' /\ LockHolds(c)'
  PROVE  CheckoutInv'
<1>1. SessionsStay BY DEF SessionsStay, CheckoutInv, CheckoutRows
<1>2. CheckoutRows' BY DEF CheckoutInv, CheckoutRows, OrdersStay
<1>3. \A s \in Sessions : SessionComplete(s)' BY DEF CheckoutInv, SessionComplete
<1>. QED BY <1>1, <1>2, <1>3, OrdersPart DEF CheckoutInv

(* A lane that becomes idle disturbs no other.                             *)
LEMMA LaneIdlesKeeps ==
  ASSUME CheckoutInv, NEW c \in Chats, NEW o \in Orders \cup {NULL},
         lanes' = [lanes EXCEPT ![c] = [IdleLane EXCEPT !.order = o]],
         \A s \in Sessions : (\E d \in Chats \ {c} : lanes[d].pc = "locked" /\ lanes[d].session = s)
                               => sessions'[s] = sessions[s]
  PROVE  lanes' \in [Chats -> Lane] /\ \A d \in Chats : ChoiceHolds(d)' /\ LockHolds(d)'
<1>. USE DEF CheckoutInv
<1>1. [IdleLane EXCEPT !.order = o] \in Lane BY DEF IdleLane, Lane
<1>2. lanes' \in [Chats -> Lane] BY <1>1 DEF CheckoutRows
<1>3. lanes'[c].pc = "idle" BY DEF CheckoutRows, IdleLane
<1>4. \A d \in Chats \ {c} : lanes'[d] = lanes[d] BY DEF CheckoutRows
<1>5. \A d \in Chats : ChoiceHolds(d)' BY <1>3, <1>4 DEF ChoiceHolds
<1>6. ASSUME NEW d \in Chats PROVE LockHolds(d)'
  <2>1. CASE d = c BY <2>1, <1>3 DEF LockHolds
  <2>2. CASE d # c BY <2>2, <1>3, <1>4 DEF LockHolds
  <2>. QED BY <2>1, <2>2
<1>. QED BY <1>2, <1>5, <1>6

-----------------------------------------------------------------------------
(* The steps.                                                              *)

(* The offering's button: the map takes the choice.                        *)
LEMMA ChooseKeeps ==
  ASSUME CheckoutInv, NEW c \in Chats, NEW u \in Users, NEW f \in Offerings, ChooseOffering(c, u, f)
  PROVE  CheckoutInv'
<1>. USE DEF ChooseOffering, CheckoutInv
<1>1. OrdersStay BY UnchangedStays DEF CheckoutRows, payVars, storeVars
<1>2. pending' \in [Users -> Offerings \cup {NULL}] BY DEF CheckoutRows
<1>3. lanes' \in [Chats -> Lane] BY DEF CheckoutRows
<1>4. \A d \in Chats : ChoiceHolds(d)' /\ LockHolds(d)' BY DEF ChoiceHolds, LockHolds
<1>. QED BY <1>1, <1>2, <1>3, <1>4, LanesPart

(* The handler takes a choice that is there.                               *)
LEMMA TakeKeeps ==
  ASSUME CheckoutInv, NEW c \in Chats, NEW u \in Users, TakeSelection(c, u)
  PROVE  CheckoutInv'
<1>. USE DEF TakeSelection, CheckoutInv
<1>1. OrdersStay BY UnchangedStays DEF CheckoutRows, payVars, storeVars
<1>2. pending' \in [Users -> Offerings \cup {NULL}] BY DEF CheckoutRows
<1>3. pending[u] \in Offerings BY DEF CheckoutRows
<1>4. [IdleLane EXCEPT !.pc = "taken", !.user = u, !.offering = pending[u]] \in Lane
  BY <1>3 DEF IdleLane, Lane
<1>5. lanes' \in [Chats -> Lane] BY <1>4 DEF CheckoutRows
<1>6. lanes'[c].pc = "taken" /\ lanes'[c].user = u /\ lanes'[c].offering = pending[u]
  BY DEF CheckoutRows, IdleLane
<1>7. \A d \in Chats \ {c} : lanes'[d] = lanes[d] BY DEF CheckoutRows
<1>8. \A d \in Chats : ChoiceHolds(d)' BY <1>3, <1>6, <1>7 DEF ChoiceHolds
<1>9. ASSUME NEW d \in Chats PROVE LockHolds(d)'
  <2>1. CASE d = c BY <2>1, <1>6 DEF LockHolds
  <2>2. CASE d # c BY <2>2, <1>6, <1>7 DEF LockHolds
  <2>. QED BY <2>1, <2>2
<1>. QED BY <1>1, <1>2, <1>5, <1>8, <1>9, LanesPart

(* The choice goes back into the map.                                      *)
LEMMA RestoreKeeps ==
  ASSUME CheckoutInv, NEW c \in Chats, RestoreSelection(c)
  PROVE  CheckoutInv'
<1>. USE DEF RestoreSelection, CheckoutInv
<1>1. OrdersStay BY UnchangedStays DEF CheckoutRows, payVars, storeVars
<1>2. pending' \in [Users -> Offerings \cup {NULL}] BY DEF CheckoutRows, ChoiceHolds
<1>3. lanes' = [lanes EXCEPT ![c] = [IdleLane EXCEPT !.order = NULL]]
  BY DEF LaneIdles, IdleLane
<1>4. lanes' \in [Chats -> Lane] /\ \A d \in Chats : ChoiceHolds(d)' /\ LockHolds(d)'
  BY <1>3, LaneIdlesKeeps
<1>. QED BY <1>1, <1>2, <1>4, LanesPart

(* create_checkout: a new session has the user and the offering that the   *)
(* handler holds.                                                          *)
LEMMA CreateKeeps ==
  ASSUME CheckoutInv, NEW c \in Chats, CreateCheckout(c)
  PROVE  CheckoutInv'
<1>. USE DEF CreateCheckout, CheckoutInv
<1>1. OrdersStay BY UnchangedStays DEF CheckoutRows, payVars, storeVars
<1>2. lanes' = [lanes EXCEPT ![c] = [IdleLane EXCEPT !.order = NULL]]
  BY DEF LaneIdles, IdleLane
<1>3. PICK s : \/ /\ s \in Sessions
                  /\ sessions[s].state = "none"
                  /\ sessions' = [sessions EXCEPT ![s] = [state |-> "open",
                                    user |-> lanes[c].user, offering |-> lanes[c].offering]]
               \/ UNCHANGED sessions
  OBVIOUS
<1>4. lanes[c].user \in Users /\ lanes[c].offering \in Offerings BY DEF ChoiceHolds
<1>5. SessionsStay BY <1>3, <1>4 DEF SessionsStay, CheckoutRows, SessionRow
<1>6. \A t \in Sessions : sessions[t].state # "none" => sessions'[t] = sessions[t]
  BY <1>3 DEF CheckoutRows
<1>7. lanes' \in [Chats -> Lane] /\ \A d \in Chats : ChoiceHolds(d)' /\ LockHolds(d)'
  BY <1>2, <1>6, LaneIdlesKeeps DEF LockHolds
<1>8. CheckoutRows' BY <1>1, <1>5, <1>7 DEF CheckoutRows, OrdersStay, SessionsStay
<1>9. \A t \in Sessions : SessionComplete(t)'
  BY <1>3, <1>4, <1>6 DEF SessionComplete, CheckoutRows
<1>. QED BY <1>1, <1>5, <1>7, <1>8, <1>9, OrdersPart

(* cancel_checkout deletes no session that is locked.                      *)
LEMMA CancelKeeps ==
  ASSUME CheckoutInv, NEW c \in Chats, NEW u \in Users, NEW s \in Sessions, Cancel(c, u, s)
  PROVE  CheckoutInv'
<1>. USE DEF Cancel, CheckoutInv
<1>1. OrdersStay BY UnchangedStays DEF CheckoutRows, payVars, storeVars
<1>2. \/ ~Locked(s) /\ sessions' = [sessions EXCEPT ![s].state = "deleted"]
      \/ UNCHANGED sessions
  BY DEF Delete
<1>3. SessionsStay BY <1>2 DEF SessionsStay, CheckoutRows, SessionRow
<1>4. \A t \in Sessions : Locked(t) => sessions'[t] = sessions[t] BY <1>2 DEF CheckoutRows
<1>5. \A d \in Chats : ChoiceHolds(d)' BY DEF ChoiceHolds
<1>6. \A d \in Chats : LockHolds(d)' BY <1>4 DEF LockHolds, Locked
<1>7. CheckoutRows' BY <1>1, <1>3 DEF CheckoutRows, OrdersStay, SessionsStay
<1>8. \A t \in Sessions : sessions'[t].state # "none" => sessions[t].state # "none"
  BY <1>2 DEF CheckoutRows
<1>9. \A t \in Sessions : SessionComplete(t)' BY <1>3, <1>8 DEF SessionComplete, SessionsStay
<1>. QED BY <1>1, <1>3, <1>5, <1>6, <1>7, <1>9, OrdersPart

(* The locking SELECT of finalize_checkout: nobody else has the row.       *)
LEMMA LockKeeps ==
  ASSUME CheckoutInv, NEW c \in Chats, NEW u \in Users, NEW s \in Sessions, LockSession(c, u, s)
  PROVE  CheckoutInv'
<1>. USE DEF LockSession, CheckoutInv
<1>1. OrdersStay BY UnchangedStays DEF CheckoutRows, payVars, storeVars
<1>. DEFINE lane == [IdleLane EXCEPT !.pc = "locked", !.user = u, !.session = s,
                                     !.offering = sessions[s].offering]
<1>2. lane \in Lane BY DEF IdleLane, Lane, CheckoutRows, SessionRow
<1>3. lanes' \in [Chats -> Lane] BY <1>2 DEF CheckoutRows
<1>4. /\ lanes'[c].pc = "locked" /\ lanes'[c].session = s
      /\ lanes'[c].user = u /\ lanes'[c].offering = sessions[s].offering
  BY DEF CheckoutRows, IdleLane
<1>5. \A d \in Chats \ {c} : lanes'[d] = lanes[d] BY DEF CheckoutRows
<1>6. \A d \in Chats : ChoiceHolds(d)' BY <1>4, <1>5 DEF ChoiceHolds
<1>7. \A d \in Chats \ {c} : ~(lanes[d].pc = "locked" /\ lanes[d].session = s) BY DEF Locked
<1>8. ASSUME NEW d \in Chats PROVE LockHolds(d)'
  <2>1. CASE d = c BY <2>1, <1>4, <1>5, <1>7 DEF LockHolds, Finalizable
  <2>2. CASE d # c BY <2>2, <1>4, <1>5, <1>7 DEF LockHolds
  <2>. QED BY <2>1, <2>2
<1>. QED BY <1>1, <1>3, <1>6, <1>8, LanesPart DEF CheckoutRows

(* The rest of finalize_checkout.  The locked session was in nobody else's *)
(* hands, so that no order has come from it.                               *)
LEMMA FinalizeKeeps ==
  ASSUME CheckoutInv, NEW c \in Chats, FinalizeCheckout(c)
  PROVE  CheckoutInv'
<1>. DEFINE s == lanes[c].session
<1>1. /\ s \in Sessions /\ sessions[s].state # "deleted"
      /\ lanes[c].user = sessions[s].user
      /\ lanes[c].offering = sessions[s].offering
      /\ \A d \in Chats \ {c} : ~(lanes[d].pc = "locked" /\ lanes[d].session = s)
  BY DEF CheckoutInv, LockHolds, FinalizeCheckout
<1>2. CASE /\ LaneIdles(c)
           /\ UNCHANGED <<payVars, sessions, origin>>
  <2>. USE <1>2 DEF CheckoutInv
  <2>1. OrdersStay BY UnchangedStays DEF CheckoutRows, payVars, storeVars
  <2>2. lanes' = [lanes EXCEPT ![c] = [IdleLane EXCEPT !.order = NULL]]
    BY DEF LaneIdles, IdleLane
  <2>3. lanes' \in [Chats -> Lane] /\ \A d \in Chats : ChoiceHolds(d)' /\ LockHolds(d)'
    BY <2>2, LaneIdlesKeeps
  <2>. QED BY <2>1, <2>3, LanesPart DEF FinalizeCheckout, CheckoutRows
<1>3. ASSUME NEW o \in Orders,
             PlaceOrder(o, Price[lanes[c].offering]),
             Delete(s),
             origin' = [origin EXCEPT ![o] = [session |-> s, user |-> sessions[s].user,
                                              by |-> lanes[c].user]],
             lanes' = [lanes EXCEPT ![c] = [IdleLane EXCEPT !.order = o]]
      PROVE  CheckoutInv'
  <2>. USE DEF CheckoutInv
  <2>1. sessions[s].user \in Users /\ sessions[s].offering \in Offerings
    BY <1>1 DEF SessionComplete, LockHolds, FinalizeCheckout
  <2>2. Price[lanes[c].offering] \in Amounts BY <1>1, <2>1, PriceAssumption
  <2>3. /\ orders[o].status = "absent"
        /\ orders' = [orders EXCEPT ![o] = [status |-> "payment_creating",
                                            amount |-> Price[lanes[c].offering]]]
    BY <1>3 DEF PlaceOrder, InsertOrder
  <2>4. orders' \in [Orders -> OrderRow]
    BY <2>2, <2>3 DEF CheckoutRows, OrderRow, OrderStatus
  <2>5. /\ orders'[o].status # "absent"
        /\ orders'[o].amount = Price[sessions[s].offering]
        /\ \A p \in Orders \ {o} : orders'[p] = orders[p]
    BY <1>1, <2>3 DEF CheckoutRows
  <2>6. /\ sessions' \in [Sessions -> SessionRow]
        /\ sessions'[s].state = "deleted"
        /\ sessions'[s].user = sessions[s].user
        /\ sessions'[s].offering = sessions[s].offering
        /\ \A t \in Sessions \ {s} : sessions'[t] = sessions[t]
    BY <1>1, <1>3 DEF CheckoutRows, SessionRow, Delete
  <2>7. /\ origin' \in [Orders -> Origin]
        /\ origin'[o] = [session |-> s, user |-> sessions[s].user, by |-> lanes[c].user]
        /\ \A p \in Orders \ {o} : origin'[p] = origin[p]
    BY <1>1, <1>3, <2>1 DEF CheckoutRows, Origin
  <2>8. lanes' \in [Chats -> Lane] /\ \A d \in Chats : ChoiceHolds(d)' /\ LockHolds(d)'
    BY <1>1, <1>3, <2>6, LaneIdlesKeeps, ZenonT(40)
  <2>9. CheckoutRows' BY <2>4, <2>6, <2>7, <2>8 DEF CheckoutRows, FinalizeCheckout
  <2>10. \A t \in Sessions : SessionComplete(t)' BY <2>1, <2>6 DEF SessionComplete
  <2>11. \A p \in Orders \ {o} : origin[p].session # NULL =>
           origin[p].session \in Sessions /\ origin[p].session # s
    BY <1>1 DEF OrderSpendsSession, CheckoutRows, Origin
  <2>12. \A p \in Orders : OrderSpendsSession(p)'
    BY <2>5, <2>6, <2>7, <2>11 DEF OrderSpendsSession
  <2>13. OneOrderPerSession' BY <2>7, <2>11 DEF OneOrderPerSession
  <2>14. OrderAsConfirmed' BY <1>1, <2>5, <2>6, <2>7, <2>11 DEF OrderAsConfirmed
  <2>. QED BY <2>8, <2>9, <2>10, <2>12, <2>13, <2>14
<1>. QED BY <1>2, <1>3 DEF FinalizeCheckout

(* Fifteen minutes pass.                                                   *)
LEMMA ExpireKeeps ==
  ASSUME CheckoutInv, NEW s \in Sessions, SessionExpires(s)
  PROVE  CheckoutInv'
<1>. USE DEF SessionExpires, CheckoutInv
<1>1. OrdersStay BY UnchangedStays DEF CheckoutRows, payVars, storeVars
<1>2. /\ sessions' \in [Sessions -> SessionRow]
      /\ \A t \in Sessions : /\ sessions'[t].user = sessions[t].user
                             /\ sessions'[t].offering = sessions[t].offering
                             /\ sessions'[t].state = IF t = s THEN "expired" ELSE sessions[t].state
  BY DEF CheckoutRows, SessionRow
<1>3. SessionsStay BY <1>2 DEF SessionsStay
<1>4. \A d \in Chats : ChoiceHolds(d)' BY DEF ChoiceHolds
<1>5. \A d \in Chats : LockHolds(d)' BY <1>2 DEF LockHolds
<1>6. CheckoutRows' BY <1>1, <1>3 DEF CheckoutRows, OrdersStay, SessionsStay
<1>7. \A t \in Sessions : SessionComplete(t)' BY <1>2 DEF SessionComplete
<1>. QED BY <1>1, <1>3, <1>4, <1>5, <1>6, <1>7, OrdersPart

(* Steps of the admin, the gateway, the customer and the payment handlers. *)
LEMMA OthersKeep ==
  ASSUME CheckoutInv, OrdersStay, UNCHANGED <<pending, sessions, lanes, origin>>
  PROVE  CheckoutInv'
<1>1. \A c \in Chats : ChoiceHolds(c)' /\ LockHolds(c)'
  BY DEF CheckoutInv, ChoiceHolds, LockHolds
<1>. QED BY <1>1, LanesPart DEF CheckoutInv, CheckoutRows

(* The process dies: its choices and its locks go with it.                 *)
LEMMA CrashKeeps ==
  ASSUME CheckoutInv, CheckoutCrash
  PROVE  CheckoutInv'
<1>. USE DEF CheckoutCrash
<1>1. OrdersStay BY UnchangedStays DEF CheckoutInv, CheckoutRows, LoseHandlers, storeVars
<1>2. lanes' \in [Chats -> Lane] BY DEF IdleLane, Lane
<1>3. \A c \in Chats : ChoiceHolds(c)' /\ LockHolds(c)' BY DEF ChoiceHolds, LockHolds, IdleLane
<1>. QED BY <1>1, <1>2, <1>3, LanesPart

LEMMA CheckoutInvStep ==
  ASSUME CheckoutInv, [CheckoutNext]_allVars
  PROVE  CheckoutInv'
<1>1. CASE CheckoutStep
  <2>1. ASSUME NEW c \in Chats, NEW u \in Users, Press(c, u) \/ TakeSelection(c, u)
        PROVE  CheckoutInv'
    BY <2>1, ChooseKeeps, CancelKeeps, LockKeeps, TakeKeeps DEF Press
  <2>2. ASSUME NEW c \in Chats, RestoreSelection(c) \/ CreateCheckout(c) \/ FinalizeCheckout(c)
        PROVE  CheckoutInv'
    BY <2>2, RestoreKeeps, CreateKeeps, FinalizeKeeps
  <2>3. ASSUME NEW f \in Offerings, ToggleOffering(f) PROVE CheckoutInv'
    BY <2>3, OthersKeep, UnchangedStays
       DEF ToggleOffering, CheckoutInv, CheckoutRows, payVars, storeVars
  <2>. QED BY <1>1, <2>1, <2>2, <2>3, ExpireKeeps DEF CheckoutStep
<1>2. CASE CheckoutCrash BY <1>2, CrashKeeps
<1>3. CASE PayStep /\ UNCHANGED checkoutVars
  BY <1>3, OthersKeep, PayStepStays DEF CheckoutInv, CheckoutRows, checkoutVars
<1>4. CASE UNCHANGED allVars
  BY <1>4, OthersKeep, UnchangedStays
     DEF CheckoutInv, CheckoutRows, allVars, payVars, storeVars, checkoutVars
<1>. QED BY <1>1, <1>2, <1>3, <1>4 DEF CheckoutNext

-----------------------------------------------------------------------------
(* Counting choices.  A user's choice is in the map, in the hands of a     *)
(* handler or in a session.                                                *)
Owned(u) == {s \in Sessions : sessions[s].user = u}
Held(u) == {c \in Chats : lanes[c].pc = "taken" /\ lanes[c].user = u}
Waiting(u) == IF pending[u] = NULL THEN 0 ELSE 1
Counted(u) == Cardinality(Owned(u)) + Cardinality(Held(u)) + Waiting(u) <= choices[u]

ChoiceInv == CheckoutInv /\ choices \in [Users -> Nat] /\ ChoiceUsedOnce

LEMMA CountsAreNumbers ==
  ASSUME NEW u \in Users
  PROVE  /\ IsFiniteSet(Owned(u)) /\ Cardinality(Owned(u)) \in Nat
         /\ IsFiniteSet(Held(u)) /\ Cardinality(Held(u)) \in Nat
         /\ IsFiniteSet(Owned(u)') /\ Cardinality(Owned(u)') \in Nat
         /\ IsFiniteSet(Held(u)') /\ Cardinality(Held(u)') \in Nat
<1>1. Owned(u) \subseteq Sessions /\ Owned(u)' \subseteq Sessions BY DEF Owned
<1>2. Held(u) \subseteq Chats /\ Held(u)' \subseteq Chats BY DEF Held
<1>. QED BY <1>1, <1>2, ChatsAndSessionsFinite, FS_Subset, FS_CardinalityType

LEMMA OneMore ==
  ASSUME NEW S, NEW T, NEW x, IsFiniteSet(S), T \subseteq S \cup {x}
  PROVE  Cardinality(T) <= Cardinality(S) + 1
<1>1. /\ IsFiniteSet(S \cup {x})
      /\ Cardinality(S \cup {x}) = IF x \in S THEN Cardinality(S) ELSE Cardinality(S) + 1
  BY FS_AddElement
<1>2. IsFiniteSet(T) /\ Cardinality(T) <= Cardinality(S \cup {x}) BY <1>1, FS_Subset
<1>3. Cardinality(S) \in Nat /\ Cardinality(T) \in Nat BY <1>2, FS_CardinalityType
<1>. QED BY <1>1, <1>2, <1>3

(* A deleted session stays its user's.                                     *)
LEMMA DeletedKeepsUser ==
  ASSUME CheckoutRows, NEW s, Delete(s)
  PROVE  \A t \in Sessions : sessions'[t].user = sessions[t].user
  BY DEF CheckoutRows, SessionRow, Delete

(* No step but those of a choice's own way makes a count grow.             *)
LEMMA NoChoiceMoves ==
  ASSUME ChoiceUsedOnce, choices \in [Users -> Nat], NEW u \in Users,
         Owned(u)' \subseteq Owned(u), Held(u)' \subseteq Held(u),
         pending[u] = NULL => pending'[u] = NULL, choices'[u] = choices[u]
  PROVE  Counted(u)'
<1>1. Counted(u)
  BY DEF ChoiceUsedOnce, Counted, Owned, Held, Waiting
<1>2. Cardinality(Owned(u)') <= Cardinality(Owned(u)) BY CountsAreNumbers, FS_Subset
<1>3. Cardinality(Held(u)') <= Cardinality(Held(u)) BY CountsAreNumbers, FS_Subset
<1>4. Waiting(u)' <= Waiting(u) /\ Waiting(u) \in Nat /\ Waiting(u)' \in Nat BY DEF Waiting
<1>. QED BY <1>1, <1>2, <1>3, <1>4, CountsAreNumbers DEF Counted

(* The button: one choice more, and at most one more in the map.           *)
LEMMA ChoosingCounts ==
  ASSUME ChoiceInv, NEW c \in Chats, NEW v \in Users, NEW f \in Offerings,
         ChooseOffering(c, v, f), NEW u \in Users
  PROVE  Counted(u)'
<1>. USE DEF ChoiceInv, ChooseOffering
<1>1. Owned(u)' = Owned(u) /\ Held(u)' = Held(u) BY DEF Owned, Held
<1>2. CASE u = v
  <2>1. choices'[u] = choices[u] + 1 BY <1>2
  <2>2. Counted(u)
    BY DEF ChoiceUsedOnce, Counted, Owned, Held, Waiting
  <2>3. Waiting(u)' \in 0 .. 1 /\ Waiting(u) \in 0 .. 1 BY DEF Waiting
  <2>. QED BY <1>1, <2>1, <2>2, <2>3, CountsAreNumbers DEF Counted
<1>3. CASE u # v
  <2>1. pending'[u] = pending[u] /\ choices'[u] = choices[u]
    BY <1>3 DEF CheckoutInv, CheckoutRows
  <2>. QED BY <1>1, <2>1, NoChoiceMoves
<1>. QED BY <1>2, <1>3

(* Out of the map, into a handler's hands.                                 *)
LEMMA TakingCounts ==
  ASSUME ChoiceInv, NEW c \in Chats, NEW v \in Users, TakeSelection(c, v), NEW u \in Users
  PROVE  Counted(u)'
<1>. USE DEF ChoiceInv, TakeSelection, CheckoutInv, CheckoutRows
<1>1. Owned(u)' = Owned(u) /\ choices'[u] = choices[u] BY DEF Owned
<1>2. lanes'[c].user = v /\ \A d \in Chats \ {c} : lanes'[d] = lanes[d] BY DEF IdleLane
<1>3. CASE u = v
  <2>1. Held(u)' \subseteq Held(u) \cup {c} BY <1>2 DEF Held
  <2>2. Cardinality(Held(u)') <= Cardinality(Held(u)) + 1
    BY <2>1, CountsAreNumbers, OneMore
  <2>3. Waiting(u) = 1 /\ Waiting(u)' = 0 BY <1>3 DEF Waiting
  <2>4. Counted(u)
    BY DEF ChoiceUsedOnce, Counted, Owned, Held, Waiting
  <2>. QED BY <1>1, <2>2, <2>3, <2>4, CountsAreNumbers DEF Counted
<1>4. CASE u # v
  <2>1. Held(u)' \subseteq Held(u) BY <1>2, <1>4 DEF Held
  <2>2. pending'[u] = pending[u] BY <1>4
  <2>. QED BY <1>1, <2>1, <2>2, NoChoiceMoves
<1>. QED BY <1>3, <1>4

(* What a handler lets go is one choice less in hand.                      *)
LEMMA LettingGo ==
  ASSUME CheckoutInv, NEW c \in Chats, lanes[c].pc = "taken", LaneIdles(c), NEW u \in Users
  PROVE  /\ Held(u)' \subseteq Held(u)
         /\ lanes[c].user = u => Cardinality(Held(u)') = Cardinality(Held(u)) - 1
<1>1. lanes'[c].pc = "idle" /\ \A d \in Chats \ {c} : lanes'[d] = lanes[d]
  BY DEF CheckoutInv, CheckoutRows, LaneIdles, IdleLane
<1>2. Held(u)' \subseteq Held(u) BY <1>1 DEF Held
<1>3. ASSUME lanes[c].user = u PROVE Cardinality(Held(u)') = Cardinality(Held(u)) - 1
  <2>1. c \in Held(u) BY <1>3 DEF Held
  <2>2. Held(u)' = Held(u) \ {c} BY <1>1 DEF Held
  <2>. QED BY <2>1, <2>2, CountsAreNumbers, FS_RemoveElement
<1>. QED BY <1>2, <1>3

(* Out of a handler's hands, back into the map.                            *)
LEMMA RestoringCounts ==
  ASSUME ChoiceInv, NEW c \in Chats, RestoreSelection(c), NEW u \in Users
  PROVE  Counted(u)'
<1>. USE DEF ChoiceInv, RestoreSelection
<1>1. Owned(u)' = Owned(u) /\ choices'[u] = choices[u] BY DEF Owned
<1>2. CASE lanes[c].user = u
  <2>1. Cardinality(Held(u)') = Cardinality(Held(u)) - 1 BY <1>2, LettingGo
  <2>2. Waiting(u) \in 0 .. 1 /\ Waiting(u)' \in 0 .. 1 BY DEF Waiting
  <2>3. Counted(u)
    BY DEF ChoiceUsedOnce, Counted, Owned, Held, Waiting
  <2>. QED BY <1>1, <2>1, <2>2, <2>3, CountsAreNumbers DEF Counted
<1>3. CASE lanes[c].user # u
  <2>1. Held(u)' \subseteq Held(u) BY LettingGo
  <2>2. pending'[u] = pending[u] BY <1>3 DEF CheckoutInv, CheckoutRows
  <2>. QED BY <1>1, <2>1, <2>2, NoChoiceMoves
<1>. QED BY <1>2, <1>3

(* Out of a handler's hands, into a session or away.                       *)
LEMMA CreatingCounts ==
  ASSUME ChoiceInv, NEW c \in Chats, CreateCheckout(c), NEW u \in Users
  PROVE  Counted(u)'
<1>. USE DEF ChoiceInv, CreateCheckout
<1>1. pending'[u] = pending[u] /\ choices'[u] = choices[u] OBVIOUS
<1>2. PICK s : \/ /\ s \in Sessions
                  /\ sessions' = [sessions EXCEPT ![s] = [state |-> "open",
                                    user |-> lanes[c].user, offering |-> lanes[c].offering]]
               \/ UNCHANGED sessions
  OBVIOUS
<1>3. CASE lanes[c].user = u
  <2>1. Cardinality(Held(u)') = Cardinality(Held(u)) - 1 BY <1>3, LettingGo
  <2>2. Owned(u)' \subseteq Owned(u) \cup {s} BY <1>2 DEF Owned, CheckoutInv, CheckoutRows
  <2>3. Cardinality(Owned(u)') <= Cardinality(Owned(u)) + 1
    BY <2>2, CountsAreNumbers, OneMore
  <2>4. Waiting(u)' = Waiting(u) /\ Waiting(u) \in Nat BY <1>1 DEF Waiting
  <2>5. Counted(u)
    BY DEF ChoiceUsedOnce, Counted, Owned, Held, Waiting
  <2>. QED BY <1>1, <2>1, <2>3, <2>4, <2>5, CountsAreNumbers DEF Counted
<1>4. CASE lanes[c].user # u
  <2>1. Owned(u)' \subseteq Owned(u) BY <1>2, <1>4 DEF Owned, CheckoutInv, CheckoutRows
  <2>2. Held(u)' \subseteq Held(u) BY LettingGo
  <2>. QED BY <1>1, <2>1, <2>2, NoChoiceMoves
<1>. QED BY <1>3, <1>4

(* All other steps move no choice, though a crash forgets some.            *)
LEMMA OthersCount ==
  ASSUME ChoiceInv, NEW u \in Users, UNCHANGED choices,
         pending[u] = NULL => pending'[u] = NULL,
         \A s \in Sessions : sessions'[s].user = sessions[s].user,
         \A c \in Chats : lanes'[c] = lanes[c] \/ lanes'[c].pc # "taken"
  PROVE  Counted(u)'
<1>1. Owned(u)' \subseteq Owned(u) BY DEF Owned
<1>2. Held(u)' \subseteq Held(u) BY DEF Held
<1>. QED BY <1>1, <1>2, NoChoiceMoves DEF ChoiceInv

LEMMA ChoiceInvStep ==
  ASSUME ChoiceInv, [CheckoutNext]_allVars
  PROVE  ChoiceInv'
<1>. USE DEF ChoiceInv
<1>1. CheckoutInv' BY CheckoutInvStep
<1>2. choices' \in [Users -> Nat]
  <2>1. UNCHANGED choices \/ \E u \in Users : choices' = [choices EXCEPT ![u] = @ + 1]
    BY DEF CheckoutNext, CheckoutStep, Press, ChooseOffering, Cancel, LockSession, TakeSelection,
           RestoreSelection, CreateCheckout, FinalizeCheckout, SessionExpires, ToggleOffering,
           CheckoutCrash, checkoutVars, allVars
  <2>. QED BY <2>1
<1>3. ASSUME NEW u \in Users
      PROVE  Counted(u)'
  <2>. USE DEF CheckoutInv, CheckoutRows
  <2>1. ASSUME NEW c \in Chats, NEW v \in Users, Press(c, v) \/ TakeSelection(c, v)
        PROVE  Counted(u)'
    <3>1. ASSUME NEW s \in Sessions, Cancel(c, v, s)
          PROVE  Counted(u)'
      <4>1. \A t \in Sessions : sessions'[t].user = sessions[t].user
        BY <3>1, DeletedKeepsUser DEF Cancel
      <4>. QED BY <3>1, <4>1, OthersCount DEF Cancel
    <3>2. ASSUME NEW s \in Sessions, LockSession(c, v, s)
          PROVE  Counted(u)'
      BY <3>2, OthersCount DEF LockSession, IdleLane
    <3>. QED BY <2>1, <3>1, <3>2, ChoosingCounts, TakingCounts DEF Press
  <2>2. ASSUME NEW c \in Chats, FinalizeCheckout(c)
        PROVE  Counted(u)'
    <3>1. \A s \in Sessions : sessions'[s].user = sessions[s].user
      BY <2>2, DeletedKeepsUser DEF FinalizeCheckout
    <3>2. \A d \in Chats : lanes'[d] = lanes[d] \/ lanes'[d].pc # "taken"
      BY <2>2 DEF FinalizeCheckout, LaneIdles, IdleLane
    <3>. QED BY <2>2, <3>1, <3>2, OthersCount DEF FinalizeCheckout
  <2>3. CASE \E s \in Sessions : SessionExpires(s) BY <2>3, OthersCount DEF SessionExpires
  <2>4. CASE \E f \in Offerings : ToggleOffering(f) BY <2>4, OthersCount DEF ToggleOffering
  <2>5. CASE CheckoutCrash BY <2>5, OthersCount DEF CheckoutCrash, IdleLane
  <2>6. CASE UNCHANGED checkoutVars BY <2>6, OthersCount DEF checkoutVars
  <2>. QED BY <2>1, <2>2, <2>3, <2>4, <2>5, <2>6, RestoringCounts, CreatingCounts
           DEF CheckoutNext, CheckoutStep, allVars
<1>4. ChoiceUsedOnce' BY <1>3 DEF ChoiceUsedOnce, Counted, Owned, Held, Waiting
<1>. QED BY <1>1, <1>2, <1>4

-----------------------------------------------------------------------------
(* The theorems.                                                           *)

(* The invariant holds at every step of every conversation.                *)
THEOREM CheckoutInvariant == CheckoutSpec => []CheckoutInv
<1>1. CheckoutInit => CheckoutInv BY CheckoutInvInit
<1>2. CheckoutInv /\ [CheckoutNext]_allVars => CheckoutInv' BY CheckoutInvStep
<1>. QED BY <1>1, <1>2, PTL DEF CheckoutSpec

(* A checkout whose buttons are pressed again and again, from several      *)
(* chats, around crashes and errors, gives at most one order               *)
(* (finalize_checkout deletes the session that it locks).                  *)
THEOREM OneOrderForACheckout == CheckoutSpec => []OneOrderPerSession
<1>1. CheckoutInv => OneOrderPerSession BY DEF CheckoutInv
<1>. QED BY <1>1, CheckoutInvariant, PTL

(* An order was confirmed by its own user, for the price of the offering   *)
(* that its checkout was about.                                            *)
THEOREM OrdersAreAsConfirmed == CheckoutSpec => []OrderAsConfirmed
<1>1. CheckoutInv => OrderAsConfirmed BY DEF CheckoutInv
<1>. QED BY <1>1, CheckoutInvariant, PTL

(* Around crashes, and while a handler holds the choice and other chats go *)
(* on, one press of an offering's button leads to one checkout at most     *)
(* (pending_offerings in handle_message).                                  *)
THEOREM ChoicesAreUsedOnce == CheckoutSpec => []ChoiceUsedOnce
<1>1. CheckoutInit => ChoiceInv
  <2>1. ASSUME CheckoutInit PROVE ChoiceUsedOnce
    <3>1. \A u \in Users : /\ {s \in Sessions : sessions[s].user = u} = {}
                           /\ {c \in Chats : lanes[c].pc = "taken" /\ lanes[c].user = u} = {}
                           /\ pending[u] = NULL /\ choices[u] = 0
      BY <2>1, CheckoutNullAssumption DEF CheckoutInit, NoSession, IdleLane
    <3>2. Cardinality({}) = 0 BY FS_EmptySet
    <3>3. ASSUME NEW u \in Users
          PROVE  Cardinality({s \in Sessions : sessions[s].user = u})
                   + Cardinality({c \in Chats : lanes[c].pc = "taken" /\ lanes[c].user = u})
                   + (IF pending[u] = NULL THEN 0 ELSE 1) <= choices[u]
      <4>1. /\ Cardinality({s \in Sessions : sessions[s].user = u}) = 0
            /\ Cardinality({c \in Chats : lanes[c].pc = "taken" /\ lanes[c].user = u}) = 0
        BY <3>1, <3>2
      <4>. QED BY <3>1, <4>1
    <3>. QED BY <3>3 DEF ChoiceUsedOnce
  <2>. QED BY <2>1, CheckoutInvInit DEF ChoiceInv, CheckoutInit
<1>2. ChoiceInv /\ [CheckoutNext]_allVars => ChoiceInv' BY ChoiceInvStep
<1>3. ChoiceInv => ChoiceUsedOnce BY DEF ChoiceInv
<1>. QED BY <1>1, <1>2, <1>3, PTL DEF CheckoutSpec

(* What an order costs is a sum of money: it is placed as PaymentFlow      *)
(* places orders.                                                          *)
LEMMA FinalizePlaces ==
  ASSUME CheckoutInv, NEW c \in Chats, FinalizeCheckout(c)
  PROVE  NewOrder \/ UNCHANGED payVars
<1>1. Price[lanes[c].offering] \in Amounts
  BY PriceAssumption DEF CheckoutInv, LockHolds, SessionComplete, FinalizeCheckout
<1>. QED BY <1>1 DEF FinalizeCheckout, NewOrder

(* Of the conversation's steps one places an order, and notes whose it is. *)
Confirms(c, o) ==
    /\ lanes[c].session \in Sessions
    /\ PlaceOrder(o, Price[lanes[c].offering])
    /\ origin' = [origin EXCEPT ![o] = [session |-> lanes[c].session,
                                        user |-> sessions[lanes[c].session].user,
                                        by |-> lanes[c].user]]

LEMMA CheckoutStepPlaces ==
  ASSUME CheckoutInv, CheckoutStep
  PROVE  \/ UNCHANGED <<payVars, origin>>
         \/ NewOrder /\ \E c \in Chats, o \in Orders : Confirms(c, o)
<1>1. ASSUME NEW c \in Chats, NEW u \in Users, Press(c, u) \/ TakeSelection(c, u)
      PROVE  UNCHANGED <<payVars, origin>>
  BY <1>1 DEF Press, ChooseOffering, Cancel, LockSession, TakeSelection
<1>2. ASSUME NEW c \in Chats, RestoreSelection(c) \/ CreateCheckout(c)
      PROVE  UNCHANGED <<payVars, origin>>
  BY <1>2 DEF RestoreSelection, CreateCheckout
<1>3. ASSUME NEW c \in Chats, FinalizeCheckout(c)
      PROVE  \/ UNCHANGED <<payVars, origin>>
             \/ NewOrder /\ \E o \in Orders : Confirms(c, o)
  <2>1. lanes[c].session \in Sessions BY <1>3 DEF CheckoutInv, LockHolds, FinalizeCheckout
  <2>2. CASE UNCHANGED <<payVars, origin>> BY <2>2
  <2>3. CASE \E o \in Orders : Confirms(c, o)
    <3>1. NewOrder \/ UNCHANGED payVars BY <1>3, FinalizePlaces
    <3>2. ~UNCHANGED payVars
      BY <2>3 DEF Confirms, PlaceOrder, InsertOrder, CheckoutInv, CheckoutRows, payVars, storeVars
    <3>. QED BY <2>3, <3>1, <3>2
  <2>. QED BY <1>3, <2>1, <2>2, <2>3 DEF FinalizeCheckout, Confirms
<1>4. ASSUME NEW s \in Sessions, SessionExpires(s) PROVE UNCHANGED <<payVars, origin>>
  BY <1>4 DEF SessionExpires
<1>5. ASSUME NEW f \in Offerings, ToggleOffering(f) PROVE UNCHANGED <<payVars, origin>>
  BY <1>5 DEF ToggleOffering
<1>. QED BY <1>1, <1>2, <1>3, <1>4, <1>5 DEF CheckoutStep

(* A conversation's step is one of PaymentFlow or one that it does not see.*)
LEMMA CheckoutStepMaps ==
  ASSUME CheckoutInv, [CheckoutNext]_allVars
  PROVE  [PayNext]_payVars
<1>1. CASE CheckoutStep BY <1>1, CheckoutStepPlaces DEF PayNext
<1>2. CASE CheckoutCrash BY <1>2 DEF CheckoutCrash, PayNext, PayCrash
<1>3. CASE PayStep BY <1>3 DEF PayNext
<1>4. CASE UNCHANGED allVars BY <1>4 DEF allVars
<1>. QED BY <1>1, <1>2, <1>3, <1>4 DEF CheckoutNext

(* CheckoutFlow is written out of PaymentFlow's own actions, so that this  *)
(* says little by itself: it carries PaymentFlow's theorems over.          *)
LEMMA ConversationImplementsPayment == CheckoutSpec => PaySpec
<1>1. CheckoutInit => PayInit BY DEF CheckoutInit
<1>2. CheckoutInv /\ [CheckoutNext]_allVars => [PayNext]_payVars BY CheckoutStepMaps
<1>. QED BY <1>1, <1>2, CheckoutInvariant, PTL DEF CheckoutSpec, PaySpec

(* The conversation's own bookkeeping: presses are counted up to their     *)
(* bound, and cancellations are of sessions.                               *)
CheckoutCounts == choices \in [Users -> 0 .. MaxChoices] /\ cancelled \subseteq Sessions
                  /\ active \subseteq Offerings

LEMMA CountsStep ==
  ASSUME CheckoutCounts, [CheckoutNext]_allVars
  PROVE  CheckoutCounts'
<1>. USE DEF CheckoutCounts
<1>1. ASSUME NEW c \in Chats, NEW u \in Users, Press(c, u) \/ TakeSelection(c, u)
      PROVE  CheckoutCounts'
  <2>1. ASSUME NEW f \in Offerings, ChooseOffering(c, u, f) PROVE CheckoutCounts'
    BY <2>1, MaxChoicesAssumption DEF ChooseOffering
  <2>2. ASSUME NEW s \in Sessions, Cancel(c, u, s) PROVE CheckoutCounts'
    BY <2>2 DEF Cancel
  <2>3. ASSUME NEW s \in Sessions, LockSession(c, u, s) PROVE CheckoutCounts'
    BY <2>3 DEF LockSession
  <2>4. CASE TakeSelection(c, u) BY <2>4 DEF TakeSelection
  <2>. QED BY <1>1, <2>1, <2>2, <2>3, <2>4 DEF Press
<1>2. ASSUME NEW c \in Chats, RestoreSelection(c) \/ CreateCheckout(c) \/ FinalizeCheckout(c)
      PROVE  CheckoutCounts'
  BY <1>2 DEF RestoreSelection, CreateCheckout, FinalizeCheckout
<1>3. ASSUME NEW s \in Sessions, SessionExpires(s) PROVE CheckoutCounts' BY <1>3 DEF SessionExpires
<1>4. ASSUME NEW f \in Offerings, ToggleOffering(f) PROVE CheckoutCounts' BY <1>4 DEF ToggleOffering
<1>5. CASE CheckoutCrash BY <1>5 DEF CheckoutCrash
<1>6. CASE UNCHANGED checkoutVars BY <1>6 DEF checkoutVars
<1>. QED BY <1>1, <1>2, <1>3, <1>4, <1>5, <1>6 DEF CheckoutNext, CheckoutStep, allVars

(* Every variable of the conversation has its type: its own by the two     *)
(* invariants, those of the order core because it uses them as PaymentFlow *)
(* allows.                                                                 *)
THEOREM ConversationTyped == CheckoutSpec => []CheckoutTypeOK
<1>1. CheckoutInit => CheckoutCounts
  BY MaxChoicesAssumption DEF CheckoutInit, CheckoutCounts
<1>2. CheckoutCounts /\ [CheckoutNext]_allVars => CheckoutCounts' BY CountsStep
<1>3. CheckoutSpec => []PayTypeOK
  BY ConversationImplementsPayment, PaymentTyped, PTL
<1>4. PayTypeOK /\ CheckoutInv /\ CheckoutCounts => CheckoutTypeOK
  BY DEF CheckoutInv, CheckoutRows, CheckoutCounts, CheckoutTypeOK
<1>. QED BY <1>1, <1>2, <1>3, <1>4, CheckoutInvariant, PTL DEF CheckoutSpec

-----------------------------------------------------------------------------
(* The whole shop.  Its invariant joins the conversation's with the order  *)
(* core's.                                                                 *)
ShopInv == CheckoutInv /\ PromiseInv /\ EveryOrderConfirmed /\ DeliveredOnRequest

(* The worker and the connector change what has become of an order, and    *)
(* only of one that was settled.                                           *)
LEMMA WorkNextStays ==
  ASSUME PromiseInv, [Next]_vars, WorkNext, UNCHANGED payOwnVars
  PROVE  OrdersStay
<1>1. WellFormed /\ Queue /\ Goods /\ OrderFollowsJob
  BY DEF PromiseInv, MoneyInv, QueueInv, Queue
<1>2. WorkKeeps BY <1>1, WorkStepView DEF WorkNext
<1>3. PromiseInv' BY NextPromise
<1>4. orders' \in [Orders -> OrderRow]
  BY <1>3 DEF PromiseInv, MoneyInv, QueueInv, WellFormed, StoreTypeOK
<1>5. OrderFollowsJob' BY <1>3 DEF PromiseInv, MoneyInv, QueueInv, Queue
<1>6. ASSUME NEW o \in Orders, orders[o].status # "absent"
      PROVE  orders'[o].status # "absent"
  <2>1. CASE jobs[o].status = "absent" BY <1>2, <1>6, <2>1 DEF WorkKeeps
  <2>2. CASE jobs[o].status # "absent"
    BY <1>2, <1>5, <2>2 DEF WorkKeeps, OrderFollowsJob, JobWithOrder
  <2>. QED BY <2>1, <2>2
<1>. QED BY <1>2, <1>4, <1>6 DEF WorkKeeps, OrdersStay

(* A step of the shop is one of the order core or one that it does not     *)
(* see.                                                                    *)
LEMMA ShopStepMaps ==
  ASSUME CheckoutInv, [ShopNext]_shopVars
  PROVE  [Next]_vars
<1>1. CASE CheckoutStep /\ UNCHANGED workOwnVars
  <2>1. NewOrder \/ UNCHANGED payVars BY <1>1, CheckoutStepPlaces
  <2>. QED BY <1>1, <2>1 DEF Next, vars, payVars
<1>2. CASE PayStep /\ UNCHANGED <<checkoutVars, workOwnVars>> BY <1>2 DEF Next
<1>3. CASE WorkNext /\ UNCHANGED <<checkoutVars, payOwnVars>> BY <1>3 DEF Next, WorkNext
<1>4. CASE ShopCrash BY <1>4 DEF ShopCrash, CheckoutCrash, Next, Crash
<1>5. CASE UNCHANGED shopVars BY <1>5 DEF shopVars
<1>. QED BY <1>1, <1>2, <1>3, <1>4, <1>5 DEF ShopNext

(* Orders come from the conversation only.                                 *)
LEMMA PayStepAddsNone ==
  ASSUME orders \in [Orders -> OrderRow], PayStep, NEW o \in Orders, orders[o].status = "absent"
  PROVE  orders'[o].status = "absent"
<1>1. ASSUME NEW p, NEW s, SetStatus(p, s), orders[p].status # "absent"
      PROVE  orders'[o].status = "absent"
  BY <1>1 DEF SetStatus
<1>2. CASE UNCHANGED orders BY <1>2
<1>3. ASSUME NEW p \in Orders, CreatorStep(p) PROVE orders'[o].status = "absent"
  BY <1>1, <1>2, <1>3
     DEF CreatorStep, CreateInvoice, RegisterCreatedInvoice, CanRegister, RegisterInvoice,
         FailCreation, MarkCreationFailed, SendLink, storeVars
<1>4. ASSUME NEW r \in Requests, RequestStep(r) PROVE orders'[o].status = "absent"
  BY <1>1, <1>2, <1>4
     DEF RequestStep, Record, RecordDelivery, Verify, Settle, Settleable, SettlePayment, storeVars
<1>5. CASE OutsideStep
  BY <1>2, <1>5 DEF OutsideStep, CustomerPays, InvoiceExpires, Notify, Deliver, storeVars
<1>. QED BY <1>3, <1>4, <1>5 DEF PayStep

(* What the conversation takes for granted, the worker does not touch.     *)
LEMMA ConversationKept ==
  ASSUME CheckoutInv, PromiseInv, [ShopNext]_shopVars
  PROVE  CheckoutInv'
<1>1. CASE WorkNext /\ UNCHANGED <<checkoutVars, payOwnVars>>
  BY <1>1, ShopStepMaps, WorkNextStays, OthersKeep DEF checkoutVars
<1>2. CASE ~(WorkNext /\ UNCHANGED <<checkoutVars, payOwnVars>>)
  <2>1. [CheckoutNext]_allVars
    BY <1>2 DEF ShopNext, ShopCrash, CheckoutNext, shopVars, vars, allVars, payVars
  <2>. QED BY <2>1, CheckoutInvStep
<1>. QED BY <1>1, <1>2

(* Every order came out of a checkout, and stays.                          *)
LEMMA ConfirmationKept ==
  ASSUME CheckoutInv, PromiseInv, EveryOrderConfirmed, [ShopNext]_shopVars
  PROVE  EveryOrderConfirmed'
<1>. USE DEF EveryOrderConfirmed
<1>1. ASSUME UNCHANGED <<origin, orders>> PROVE EveryOrderConfirmed' BY <1>1
<1>2. CASE CheckoutStep /\ UNCHANGED workOwnVars
  <2>1. ASSUME NEW c \in Chats, NEW o \in Orders, Confirms(c, o)
        PROVE  EveryOrderConfirmed'
    <3>1. \A p \in Orders \ {o} : orders'[p] = orders[p] /\ origin'[p] = origin[p]
      BY <2>1 DEF Confirms, PlaceOrder, InsertOrder, CheckoutInv, CheckoutRows
    <3>2. origin'[o].session # NULL
      BY <2>1, CheckoutNullAssumption DEF Confirms, CheckoutInv, CheckoutRows
    <3>. QED BY <3>1, <3>2
  <2>. QED BY <1>1, <1>2, <2>1, CheckoutStepPlaces DEF payVars, storeVars
<1>3. CASE PayStep /\ UNCHANGED <<checkoutVars, workOwnVars>>
  BY <1>3, PayStepAddsNone DEF checkoutVars, CheckoutInv, CheckoutRows
<1>4. CASE WorkNext /\ UNCHANGED <<checkoutVars, payOwnVars>>
  <2>1. WorkKeeps
    BY <1>4, WorkStepView DEF WorkNext, PromiseInv, MoneyInv, QueueInv
  <2>2. OrderFollowsJob BY DEF PromiseInv, MoneyInv, QueueInv, Queue
  <2>. QED BY <1>4, <2>1, <2>2 DEF checkoutVars, WorkKeeps, OrderFollowsJob, JobWithOrder
<1>5. CASE ShopCrash BY <1>1, <1>5 DEF ShopCrash, CheckoutCrash, LoseHandlers, storeVars
<1>6. CASE UNCHANGED shopVars BY <1>1, <1>6 DEF shopVars, vars, storeVars, checkoutVars
<1>. QED BY <1>2, <1>3, <1>4, <1>5, <1>6 DEF ShopNext

(* The connector delivers what was posted.                                 *)
LEMMA RequestsKept ==
  ASSUME PromiseInv, DeliveredOnRequest, [ShopNext]_shopVars
  PROVE  DeliveredOnRequest'
<1>. USE DEF DeliveredOnRequest
<1>0. posted \in [Orders -> Nat] /\ delivered \subseteq Orders
  BY DEF PromiseInv, MoneyInv, QueueInv, WellFormed, WorkWellFormed, WorkOwnTypeOK
<1>1. ASSUME UNCHANGED <<delivered, posted>> PROVE DeliveredOnRequest' BY <1>1
<1>2. ASSUME NEW w \in Workers, WorkerStep(w) \/ WorkerCrash(w) PROVE DeliveredOnRequest'
  <2>1. CASE Post(w)
    <3>1. worker[w].job \in Orders
      BY <2>1 DEF Post, PromiseInv, MoneyInv, QueueInv, WellFormed, WorkWellFormed, WorkHandles,
                  WorkerHolds
    <3>2. delivered' = delivered /\ \A o \in Orders : posted[o] > 0 => posted'[o] > 0
      BY <1>0, <2>1, <3>1 DEF Post
    <3>. QED BY <1>0, <3>2
  <2>. QED BY <1>1, <1>2, <2>1 DEF WorkerStep, Claim, FulfillManually, ReadAnswer, LoseAnswer,
                                   Finish, WorkerCrash, connectorVars
<1>3. ASSUME NEW o \in Orders, Serve(o) PROVE DeliveredOnRequest'
  <2>1. posted[o] > 0 BY <1>0, <1>3 DEF Serve
  <2>2. delivered' \subseteq delivered \cup {o} BY <1>3 DEF Serve, Decide
  <2>. QED BY <1>3, <2>1, <2>2 DEF Serve
<1>4. ASSUME NEW o \in Orders, Hang(o) \/ TimePasses(o) PROVE DeliveredOnRequest'
  BY <1>1, <1>4 DEF Hang, TimePasses, workOwnVars
<1>5. CASE WorkNext BY <1>2, <1>3, <1>4, <1>5 DEF WorkNext, WorkStep
<1>6. CASE ~WorkNext BY <1>1, <1>6 DEF ShopNext, ShopCrash, connectorVars, workOwnVars, shopVars, vars
<1>. QED BY <1>5, <1>6

(* The invariant holds at every step of the shop.                          *)
THEOREM ShopInvariant == ShopSpec => []ShopInv
<1>1. ShopInit => ShopInv
  <2>. SUFFICES ASSUME ShopInit PROVE ShopInv OBVIOUS
  <2>1. Init BY DEF ShopInit, CheckoutInit, PayInit, Init
  <2>2. CheckoutInv BY CheckoutInvInit DEF ShopInit
  <2>3. PromiseInv BY <2>1, InitPromise
  <2>4. EveryOrderConfirmed BY <2>1 DEF Init, StoreInit, NoOrder, EveryOrderConfirmed
  <2>5. DeliveredOnRequest BY <2>1 DEF Init, WorkOwnInit, DeliveredOnRequest
  <2>. QED BY <2>2, <2>3, <2>4, <2>5 DEF ShopInv
<1>2. ShopInv /\ [ShopNext]_shopVars => ShopInv'
  <2>. SUFFICES ASSUME ShopInv, [ShopNext]_shopVars PROVE ShopInv' OBVIOUS
  <2>1. PromiseInv' BY ShopStepMaps, NextPromise DEF ShopInv
  <2>. QED BY <2>1, ConversationKept, ConfirmationKept, RequestsKept DEF ShopInv
<1>. QED BY <1>1, <1>2, PTL DEF ShopSpec

(* Shop is written out of Storefront's own actions, so that this, too, is  *)
(* no result but the way by which Storefront's theorems carry over.        *)
LEMMA ShopImplementsStorefront == ShopSpec => Spec
<1>1. ShopInit => Init BY DEF ShopInit, CheckoutInit, PayInit, Init
<1>2. ShopInv /\ [ShopNext]_shopVars => [Next]_vars BY ShopStepMaps DEF ShopInv
<1>. QED BY <1>1, <1>2, ShopInvariant, PTL DEF ShopSpec, Spec

(* So it is for the promise made about every order.                        *)
THEOREM CustomersArePromised == ShopSpec => PromiseKept
BY ShopImplementsStorefront, ShopKeepsItsPromise, PTL

(* Nor does the whole program forget an order, a payment or a job; what a  *)
(* fault makes it drop, no message of a customer brings back.              *)
THEOREM ShopForgetsNothing == ShopSpec => []NothingForgotten
BY ShopImplementsStorefront, NothingIsForgotten, PTL

(* Every conversation, delivery and fulfillment keeps to the transactions  *)
(* of src/db/mod.rs, so that the five tables agree.                        *)
THEOREM ShopTablesAgree == ShopSpec => StoreSpec /\ []TablesAgree
<1>1. TableInv => TablesAgree BY DEF TableInv
<1>. QED BY <1>1, ShopImplementsStorefront, CoreKeepsToStore, TablesAlwaysAgree, PTL

(* For a checkout the gateway makes one invoice at most, however often and *)
(* from wherever it is confirmed, whatever crashes or goes unanswered: a   *)
(* checkout gives one order and an order asks for one invoice.             *)
THEOREM CheckoutsAreInvoicedOnce == ShopSpec => []InvoicedOnce
<1>1. ShopInv /\ OrderInvoicedOnce => InvoicedOnce
  <2>. SUFFICES ASSUME ShopInv, OrderInvoicedOnce, NEW s \in Sessions,
                       NEW i \in InvoicesFor(s), NEW j \in InvoicesFor(s)
                PROVE  i = j
    BY DEF InvoicedOnce
  <2>1. /\ gateway[i].order \in Orders /\ gateway[j].order \in Orders
        /\ gateway[i].order # NULL
    BY DEF InvoicesFor, ShopInv, PromiseInv, MoneyInv, QueueInv, WellFormed, PayWellFormed,
           PayOwnTypeOK, InvoiceState
  <2>2. origin[gateway[i].order].session = s /\ origin[gateway[j].order].session = s /\ s # NULL
    BY CheckoutNullAssumption DEF InvoicesFor
  <2>3. gateway[i].order = gateway[j].order
    BY <2>1, <2>2 DEF ShopInv, CheckoutInv, OneOrderPerSession
  <2>. QED BY <2>1, <2>3 DEF OrderInvoicedOnce, InvoicesFor
<1>. QED BY <1>1, ShopInvariant, ShopImplementsStorefront, OrdersAreInvoicedOnce, PTL

(* Goods leave the shop as they were confirmed, once, and paid in full.    *)
THEOREM GoodsLeaveAsConfirmed == ShopSpec => []GoodsAsConfirmed
<1>1. ShopInv => GoodsAsConfirmed
  <2>. SUFFICES ASSUME ShopInv, NEW o \in Orders,
                       posted[o] > 0 \/ o \in delivered \/ orders[o].status = "fulfilled"
                PROVE  LET s == origin[o].session IN
                       /\ s \in Sessions
                       /\ origin[o].by = sessions[s].user
                       /\ \A p \in Orders \ {o} : origin[p].session # s
                       /\ \E i \in Invoices : /\ gateway[i].state = "verified"
                                              /\ gateway[i].order = o
                                              /\ gateway[i].amount = Price[sessions[s].offering]
    BY DEF GoodsAsConfirmed
  <2>. USE DEF ShopInv
  <2>1. posted[o] > 0
    BY DEF DeliveredOnRequest, PromiseInv, Goods, FiledTruly, ConnectorKeeps
  <2>2. jobs[o].status # "absent" /\ orders[o].status # "absent"
    BY <2>1, PostedIsQueued DEF PromiseInv, MoneyInv
  <2>3. PaidInFull(o) BY <2>2 DEF PromiseInv, MoneyInv, Accounts, SettledOrder
  <2>4. origin[o].session # NULL BY <2>2 DEF EveryOrderConfirmed
  <2>5. origin[o].session \in Sessions BY <2>4 DEF CheckoutInv, CheckoutRows, Origin
  <2>6. /\ origin[o].by = sessions[origin[o].session].user
        /\ orders[o].amount = Price[sessions[origin[o].session].offering]
    BY <2>4 DEF CheckoutInv, OrderAsConfirmed
  <2>7. \A p \in Orders \ {o} : origin[p].session # origin[o].session
    BY <2>4 DEF CheckoutInv, OneOrderPerSession
  <2>. QED BY <2>3, <2>5, <2>6, <2>7 DEF PaidInFull
<1>. QED BY <1>1, ShopInvariant, PTL
=============================================================================
