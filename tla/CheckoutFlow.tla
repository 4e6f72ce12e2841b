----------------------------- MODULE CheckoutFlow -----------------------------
(***************************************************************************)
(* How a customer orders (src/telegram): choosing an offering, naming the  *)
(* recipient, and confirming or cancelling the checkout.  The dispatcher   *)
(* handles the updates of one chat one after the other and those of        *)
(* different chats concurrently; a user can write in several chats, and in *)
(* a group everybody sees the buttons.  A button can be pressed again and  *)
(* again, and Telegram repeats updates after a restart.                    *)
(*                                                                         *)
(* Here the transaction of finalize_checkout is two steps, the locking     *)
(* SELECT and the rest up to COMMIT: what the row lock is for is checked.  *)
(***************************************************************************)
EXTENDS PaymentFlow, FiniteSets

CONSTANTS
    Users, Chats, Offerings,
    Sessions,    \* ids that checkout sessions can get
    Price,       \* price_rial of each offering, which nothing changes
    MaxChoices   \* bound: how often a user presses an offering's button

ASSUME PriceAssumption == Price \in [Offerings -> Amounts]
ASSUME ChatsAndSessionsFinite == IsFiniteSet(Chats) /\ IsFiniteSet(Sessions)
ASSUME MaxChoicesAssumption == MaxChoices \in Nat
ASSUME CheckoutNullAssumption == NULL \notin Users \cup Offerings \cup Sessions

VARIABLES
    active,     \* service_offerings: those with is_active
    pending,    \* AppState::pending_offerings, in memory
    sessions,   \* checkout_sessions
    lanes,      \* the handler at work in each chat
    origin,     \* per order, its session, its user_id and who confirmed it
    choices,    \* how often each user chose an offering
    cancelled   \* sessions whose cancellation was announced

checkoutVars == <<active, pending, sessions, lanes, origin, choices, cancelled>>
allVars == <<payVars, checkoutVars>>

-----------------------------------------------------------------------------

SessionRow == [state: {"none", "open", "expired", "deleted"},
               user: Users \cup {NULL}, offering: Offerings \cup {NULL}]
Lane == [pc: {"idle", "taken", "locked"}, user: Users \cup {NULL},
         offering: Offerings \cup {NULL}, session: Sessions \cup {NULL},
         order: Orders \cup {NULL}]
Origin == [session: Sessions \cup {NULL}, user: Users \cup {NULL}, by: Users \cup {NULL}]

NoSession == [state |-> "none", user |-> NULL, offering |-> NULL]
IdleLane == [pc |-> "idle", user |-> NULL, offering |-> NULL, session |-> NULL, order |-> NULL]
NoOrigin == [session |-> NULL, user |-> NULL, by |-> NULL]

CheckoutInit ==
    /\ PayInit
    /\ active \in SUBSET Offerings
    /\ pending = [u \in Users |-> NULL]
    /\ sessions = [s \in Sessions |-> NoSession]
    /\ lanes = [c \in Chats |-> IdleLane]
    /\ origin = [o \in Orders |-> NoOrigin]
    /\ choices = [u \in Users |-> 0]
    /\ cancelled = {}

(* The handler of a confirmation ends with create_payment_and_reply.       *)
LaneFree(c) ==
    /\ lanes[c].pc = "idle"
    /\ lanes[c].order # NULL => creator[lanes[c].order].pc = "idle"

LaneIdles(c) == lanes' = [lanes EXCEPT ![c] = IdleLane]

-----------------------------------------------------------------------------
(* Bugs that the checks must notice, each a variant of a definition below. *)

(* A bug: the choice stays in the map.                                     *)
PeekSelection(c, u) ==
    /\ LaneFree(c)
    /\ pending[u] # NULL
    /\ lanes' = [lanes EXCEPT ![c] = [IdleLane EXCEPT !.pc = "taken", !.user = u,
                                                      !.offering = pending[u]]]
    /\ UNCHANGED <<payVars, active, pending, sessions, origin, choices, cancelled>>

(* A bug: the SELECT takes no lock.                                        *)
NeverLocked(s) == FALSE

(* A bug: a soft deletion, in a state no query knows.                      *)
SoftDelete(s) == sessions' = [sessions EXCEPT ![s].state = "cancelled"]

(* A bug: anybody's confirmation counts.                                   *)
FinalizableByAnyone(s, u) ==
    sessions[s].state = "open" /\ sessions[s].offering \in active

-----------------------------------------------------------------------------
(* handle_callback: an offering's button.                                  *)
ChooseOffering(c, u, f) ==
    /\ LaneFree(c)
    /\ choices[u] < MaxChoices
    /\ choices' = [choices EXCEPT ![u] = @ + 1]
    /\ pending' = [pending EXCEPT ![u] = f]
    /\ UNCHANGED <<payVars, active, sessions, lanes, origin, cancelled>>

(* handle_message with any other text: the choice is taken out of the map; *)
(* other chats go on while this handler awaits the map's mutex again or    *)
(* the database.                                                           *)
TakeSelection(c, u) ==
    /\ LaneFree(c)
    /\ pending[u] # NULL
    /\ lanes' = [lanes EXCEPT ![c] = [IdleLane EXCEPT !.pc = "taken", !.user = u,
                                                      !.offering = pending[u]]]
    /\ pending' = [pending EXCEPT ![u] = NULL]
    /\ UNCHANGED <<payVars, active, sessions, origin, choices, cancelled>>

(* The text is not a username: the choice is put back.                     *)
RestoreSelection(c) ==
    /\ lanes[c].pc = "taken"
    /\ pending' = [pending EXCEPT ![lanes[c].user] = lanes[c].offering]
    /\ LaneIdles(c)
    /\ UNCHANGED <<payVars, active, sessions, origin, choices, cancelled>>

(* create_checkout, with the buttons to confirm and to cancel.  An offering*)
(* that is not active, an error of the database and a message that is not  *)
(* sent leave no session that anybody could use.                           *)
CreateCheckout(c) ==
    LET f == lanes[c].offering IN
    /\ lanes[c].pc = "taken"
    /\ \/ /\ f \in active
          /\ \E s \in Sessions :
               /\ sessions[s].state = "none"
               /\ sessions' = [sessions EXCEPT ![s] = [state |-> "open", user |-> lanes[c].user,
                                                       offering |-> f]]
       \/ UNCHANGED sessions
    /\ LaneIdles(c)
    /\ UNCHANGED <<payVars, active, pending, origin, choices, cancelled>>

-----------------------------------------------------------------------------
(* The session's buttons.                                                  *)

Locked(s) == \E c \in Chats : lanes[c].pc = "locked" /\ lanes[c].session = s

Delete(s) == sessions' = [sessions EXCEPT ![s].state = "deleted"]

(* cancel_checkout waits for the row lock of its own user's session; an    *)
(* error is logged.  The cancellation is announced in any case.            *)
Cancel(c, u, s) ==
    /\ LaneFree(c)
    /\ sessions[s].state # "none"
    /\ \/ /\ sessions[s].user = u
          /\ ~Locked(s)
          /\ Delete(s)
       \/ /\ sessions[s].user # u \/ "cancel" \in Faults
          /\ UNCHANGED sessions
    /\ cancelled' = IF sessions[s].user = u THEN cancelled \cup {s} ELSE cancelled
    /\ UNCHANGED <<payVars, active, pending, lanes, origin, choices>>

(* finalize_checkout: the SELECT ... FOR UPDATE OF cs.  It waits for a lock*)
(* and finds nothing when the session is gone by then.                     *)
Finalizable(s, u) ==
    /\ sessions[s].state = "open"
    /\ sessions[s].user = u
    /\ sessions[s].offering \in active

LockSession(c, u, s) ==
    /\ LaneFree(c)
    /\ Finalizable(s, u)
    /\ ~Locked(s)
    /\ lanes' = [lanes EXCEPT ![c] = [IdleLane EXCEPT !.pc = "locked", !.user = u, !.session = s,
                                                      !.offering = sessions[s].offering]]
    /\ UNCHANGED <<payVars, active, pending, sessions, origin, choices, cancelled>>

(* The order is inserted and the session deleted; then the invoice.        *)
FinalizeCheckout(c) ==
    LET s == lanes[c].session IN
    /\ lanes[c].pc = "locked"
    /\ \/ \E o \in Orders :
            /\ PlaceOrder(o, Price[lanes[c].offering])
            /\ Delete(s)
            /\ origin' = [origin EXCEPT ![o] = [session |-> s, user |-> sessions[s].user,
                                                by |-> lanes[c].user]]
            /\ lanes' = [lanes EXCEPT ![c] = [IdleLane EXCEPT !.order = o]]
       \/ /\ DbFails("finalize")
          /\ LaneIdles(c)
          /\ UNCHANGED <<payVars, sessions, origin>>
    /\ UNCHANGED <<active, pending, choices, cancelled>>

-----------------------------------------------------------------------------
(* Fifteen minutes pass.                                                   *)
SessionExpires(s) ==
    /\ sessions[s].state = "open"
    /\ sessions' = [sessions EXCEPT ![s].state = "expired"]
    /\ UNCHANGED <<payVars, active, pending, lanes, origin, choices, cancelled>>

(* toggle_offering, from the admin API.                                    *)
ToggleOffering(f) ==
    /\ active' = IF f \in active THEN active \ {f} ELSE active \cup {f}
    /\ UNCHANGED <<payVars, pending, sessions, lanes, origin, choices, cancelled>>

(* A bug: the restart resumes every order that waits for its invoice, also *)
(* where the gateway has made one.                                         *)
ResumingCrash ==
    /\ "crash" \in Faults
    /\ creator' = [o \in Orders |-> IF orders[o].status = "payment_creating"
                                   THEN [pc |-> "invoicing", invoice |-> NULL] ELSE NoCreator]
    /\ pending' = [u \in Users |-> NULL]
    /\ lanes' = [c \in Chats |-> IdleLane]
    /\ UNCHANGED <<storeVars, gateway, links, notices, requests>>
    /\ UNCHANGED <<active, sessions, origin, choices, cancelled>>

(* The pending choices die with the process; its transactions roll back.   *)
CheckoutCrash ==
    /\ "crash" \in Faults
    /\ LoseHandlers
    /\ pending' = [u \in Users |-> NULL]
    /\ lanes' = [c \in Chats |-> IdleLane]
    /\ UNCHANGED <<active, sessions, origin, choices, cancelled>>

Press(c, u) ==
    \/ \E f \in Offerings : ChooseOffering(c, u, f)
    \/ \E s \in Sessions : Cancel(c, u, s) \/ LockSession(c, u, s)

CheckoutStep ==
    \/ \E c \in Chats, u \in Users : Press(c, u) \/ TakeSelection(c, u)
    \/ \E c \in Chats : RestoreSelection(c) \/ CreateCheckout(c) \/ FinalizeCheckout(c)
    \/ \E s \in Sessions : SessionExpires(s)
    \/ \E f \in Offerings : ToggleOffering(f)

CheckoutNext == CheckoutStep \/ CheckoutCrash \/ (PayStep /\ UNCHANGED checkoutVars)

CheckoutSpec == CheckoutInit /\ [][CheckoutNext]_allVars

-----------------------------------------------------------------------------
(* Properties.                                                             *)

(* Every variable has its type.                                            *)
CheckoutTypeOK ==
    /\ PayTypeOK
    /\ active \subseteq Offerings
    /\ pending \in [Users -> Offerings \cup {NULL}]
    /\ sessions \in [Sessions -> SessionRow]
    /\ lanes \in [Chats -> Lane]
    /\ origin \in [Orders -> Origin]
    /\ choices \in [Users -> 0 .. MaxChoices]
    /\ cancelled \subseteq Sessions

(* However often and from wherever its button is pressed, a checkout gives *)
(* at most one order: nobody is asked to pay twice for one purchase.       *)
OneOrderPerSession ==
    \A o, p \in Orders :
        origin[o].session = origin[p].session /\ origin[o].session # NULL => o = p

(* An order is what its buyer confirmed: confirmed by the very user it     *)
(* belongs to, for the price of the offering that the session was about.   *)
OrderAsConfirmed ==
    \A o \in Orders : origin[o].session # NULL =>
        LET s == origin[o].session IN
        /\ origin[o].by = origin[o].user
        /\ origin[o].user = sessions[s].user
        /\ orders[o].amount = Price[sessions[s].offering]

(* docs/architecture.md:26: payments are not repeated automatically.  For  *)
(* one checkout the gateway makes one invoice at most, registered or not,  *)
(* as every invoice could be paid: create_payment_and_reply follows the    *)
(* confirmation outside its transaction, and neither another press of the  *)
(* button nor a restart may lead there again.                              *)
InvoicesFor(s) ==
    {i \in Invoices : gateway[i].order # NULL /\ origin[gateway[i].order].session = s}

InvoicedOnce == \A s \in Sessions : \A i, j \in InvoicesFor(s) : i = j

(* A choice leads to at most one checkout, although it is taken out of the *)
(* map and put back while other chats of the user go on.                   *)
ChoiceUsedOnce ==
    \A u \in Users :
        Cardinality({s \in Sessions : sessions[s].user = u})
          + Cardinality({c \in Chats : lanes[c].pc = "taken" /\ lanes[c].user = u})
          + (IF pending[u] = NULL THEN 0 ELSE 1) <= choices[u]

(* Why the two properties about orders hold at every step: a choice or a   *)
(* lock that a handler holds is about an existing session's or offering's  *)
(* row, a locked session is still there and locked by one handler only,    *)
(* and a session that gave an order is gone.                               *)
ChoiceHolds(c) ==
    lanes[c].pc = "taken" => lanes[c].user \in Users /\ lanes[c].offering \in Offerings

LockHolds(c) == lanes[c].pc = "locked" =>
    LET s == lanes[c].session IN
    /\ s \in Sessions
    /\ sessions[s].state \in {"open", "expired"}
    /\ lanes[c].user = sessions[s].user
    /\ lanes[c].offering = sessions[s].offering
    /\ \A d \in Chats : lanes[d].pc = "locked" /\ lanes[d].session = s => d = c

SessionComplete(s) ==
    sessions[s].state # "none" => sessions[s].user \in Users /\ sessions[s].offering \in Offerings

OrderSpendsSession(o) == origin[o].session # NULL =>
    /\ orders[o].status # "absent"
    /\ sessions[origin[o].session].state = "deleted"

CheckoutRows ==
    /\ orders \in [Orders -> OrderRow]
    /\ pending \in [Users -> Offerings \cup {NULL}]
    /\ sessions \in [Sessions -> SessionRow]
    /\ lanes \in [Chats -> Lane]
    /\ origin \in [Orders -> Origin]

CheckoutInv ==
    /\ CheckoutRows
    /\ \A c \in Chats : ChoiceHolds(c) /\ LockHolds(c)
    /\ \A s \in Sessions : SessionComplete(s)
    /\ \A o \in Orders : OrderSpendsSession(o)
    /\ OneOrderPerSession
    /\ OrderAsConfirmed

(* src/telegram/mod.rs:192: "the purchase was cancelled" is said of        *)
(* purchases that are not going on.                                        *)
CancelledIsOver == \A o \in Orders : origin[o].session \notin cancelled
=============================================================================
