------------------------------ MODULE MoneyProofs ------------------------------
(***************************************************************************)
(* The money, for any number of orders, invoices, deliveries and requests: *)
(* an order is settled once and for its full price, nothing is posted to   *)
(* the connector before that, a payment link leads to a registered         *)
(* invoice, an order's status only moves along the documented chain, and   *)
(* its journal tells where it is.                                          *)
(***************************************************************************)
EXTENDS QueueProofs

-----------------------------------------------------------------------------
(* What the gateway and the tables keep.                                   *)

(* An invoice stays its order's, and a verified one stays as it is.        *)
GatewayKeeps ==
    \A i \in Invoices : gateway[i].state # "none" =>
        /\ gateway'[i].state # "none"
        /\ gateway'[i].order = gateway[i].order
        /\ gateway[i].state = "verified" => gateway'[i] = gateway[i]

PaymentsKeep ==
    \A i \in Invoices : payments[i].status # "absent" =>
        /\ payments'[i].status # "absent"
        /\ payments'[i].order = payments[i].order
        /\ payments[i].status = "paid" => payments'[i] = payments[i]

(* Nothing that the gateway does changes either.                           *)
LEMMA GatewaySteps ==
  ASSUME PayWellFormed, NEW i \in Invoices,
         \/ \E o \in Orders : OpenInvoice(o, i)
         \/ CustomerPays(i) \/ InvoiceExpires(i) \/ UseUp(i) \/ UNCHANGED gateway
  PROVE  GatewayKeeps
<1>0. gateway \in [Invoices -> InvoiceState] BY DEF PayWellFormed, PayOwnTypeOK
<1>1. \A j \in Invoices \ {i} : gateway'[j] = gateway[j]
  BY <1>0 DEF OpenInvoice, CustomerPays, InvoiceExpires, UseUp
<1>2. ASSUME NEW o \in Orders, OpenInvoice(o, i) PROVE GatewayKeeps
  BY <1>1, <1>2 DEF OpenInvoice, GatewayKeeps
<1>3. CASE CustomerPays(i) \/ InvoiceExpires(i)
  BY <1>0, <1>1, <1>3 DEF CustomerPays, InvoiceExpires, GatewayKeeps, InvoiceState
<1>4. CASE UseUp(i)
  <2>1. gateway'[i] = [gateway[i] EXCEPT !.state = IF @ = "paid" THEN "verified" ELSE @]
    BY <1>0, <1>4 DEF UseUp
  <2>2. gateway[i] \in InvoiceState BY <1>0
  <2>. QED BY <1>1, <2>1, <2>2 DEF GatewayKeeps, InvoiceState
<1>. QED BY <1>2, <1>3, <1>4 DEF GatewayKeeps

(* An order that is paid in full stays so.                                 *)
LEMMA StaysPaidInFull ==
  ASSUME GatewayKeeps, PaymentsKeep, NEW o \in Orders, PaidInFull(o), orders'[o].amount = orders[o].amount
  PROVE  PaidInFull(o)'
  BY DEF GatewayKeeps, PaymentsKeep, PaidInFull

(* Steps of the gateway and the handlers that leave the tables alone, but  *)
(* for deliveries and a job's times.                                       *)
LEMMA AccountsKept ==
  ASSUME WellFormed, Accounts, GatewayKeeps, UNCHANGED <<orders, payments, journal>>,
         \A o \in Orders : jobs'[o].status = jobs[o].status
  PROVE  Accounts'
<1>1. PaymentsKeep BY DEF PaymentsKeep
<1>2. ASSUME NEW o \in Orders PROVE SettledOrder(o)' /\ GivenUp(o)'
  <2>1. (Verified(o)' <=> Verified(o)) /\ (PaidInFull(o) => PaidInFull(o)')
    BY <1>1, StaysPaidInFull DEF Verified, Happened
  <2>. QED BY <2>1 DEF Accounts, SettledOrder, GivenUp, Happened
<1>3. \A i \in Invoices : PaymentKnown(i)' BY DEF Accounts, PaymentKnown, GatewayKeeps
<1>. QED BY <1>2, <1>3 DEF Accounts, SettledOnce

-----------------------------------------------------------------------------
(* Transactions that move one order on.                                    *)

(* A payment's row stays true when an order moves on.                      *)
LEMMA PaymentsStayKnown ==
  ASSUME StoreTypeOK, Accounts, UNCHANGED <<gateway, payments>>,
         \A o \in Orders : orders[o].status \notin {"absent", "payment_creating"}
                             => orders'[o].status \notin {"absent", "payment_creating"}
  PROVE  \A i \in Invoices : PaymentKnown(i)'
<1>. SUFFICES ASSUME NEW i \in Invoices, payments[i].status # "absent" PROVE PaymentKnown(i)'
  BY DEF PaymentKnown
<1>1. payments[i] \in PaymentRow BY DEF StoreTypeOK
<1>2. payments[i].order \in Orders BY <1>1 DEF PaymentRow
<1>. QED BY <1>2 DEF Accounts, PaymentKnown

(* An event other than the two that Accounts speaks of, about an order     *)
(* that keeps or gets a status which the accounts allow.                   *)
LEMMA AccountsMove ==
  ASSUME StoreTypeOK, Accounts, UNCHANGED <<gateway, payments>>,
         NEW o \in Orders, NEW e \in EventType, AddEvent(o, e) \/ UNCHANGED journal,
         e \notin {"payment.verified", "payment.invoice_creation_failed"},
         \A p \in Orders \ {o} : orders'[p] = orders[p],
         \A p \in Orders : jobs'[p].status # "absent" => jobs[p].status # "absent",
         \/ orders[o].status = "absent" /\ orders'[o].status = "payment_creating"
         \/ /\ orders[o].status \in {"paid", "fulfillment_processing"}
            /\ orders'[o].status \notin {"absent", "payment_creating", "awaiting_payment"}
            /\ orders'[o].amount = orders[o].amount
  PROVE  Accounts'
<1>0. PaymentsKeep /\ GatewayKeeps BY DEF PaymentsKeep, GatewayKeeps
<1>1. ASSUME NEW x \in {"payment.verified", "payment.invoice_creation_failed"}
      PROVE  \A p \in Orders : Happened(p, x)' <=> Happened(p, x)
  <2>1. CASE UNCHANGED journal BY <2>1 DEF Happened
  <2>2. CASE AddEvent(o, e)
    <3>1. x # e OBVIOUS
    <3>. QED BY <2>2, <3>1, AddEventHappens
  <2>. QED BY <2>1, <2>2
<1>1a. \A p \in Orders : Verified(p)' <=> Verified(p) BY <1>1 DEF Verified
<1>2. \A p \in Orders : Happened(p, "payment.invoice_creation_failed")'
                              <=> Happened(p, "payment.invoice_creation_failed")
  BY <1>1
<1>3. \A i \in Invoices : PaymentKnown(i)' BY PaymentsStayKnown
<1>4. \A p \in Orders : GivenUp(p)' BY <1>2 DEF Accounts, GivenUp
<1>5. ASSUME NEW p \in Orders PROVE SettledOrder(p)'
  <2>1. CASE p # o
    <3>1. PaidInFull(p) => PaidInFull(p)' BY <1>0, <2>1, StaysPaidInFull
    <3>. QED BY <1>1a, <2>1, <3>1 DEF Accounts, SettledOrder
  <2>2. CASE p = o /\ orders[o].status = "absent"
    BY <1>1a, <2>2 DEF Accounts, SettledOrder
  <2>3. CASE p = o /\ orders[o].status # "absent"
    <3>1. PaidInFull(o) => PaidInFull(o)' BY <1>0, <2>3, StaysPaidInFull
    <3>. QED BY <1>1a, <2>3, <3>1 DEF Accounts, SettledOrder
  <2>. QED BY <2>1, <2>2, <2>3
<1>6. SettledOnce'
  <2>1. CASE UNCHANGED journal BY <2>1 DEF Accounts, SettledOnce
  <2>2. CASE AddEvent(o, e) BY <2>2, OnceKept DEF Accounts
  <2>. QED BY <2>1, <2>2
<1>. QED BY <1>3, <1>4, <1>5, <1>6 DEF Accounts

(* register_aban_invoice: from then on the payment's row is about the      *)
(* handler's own invoice, and the order is not given up any more.          *)
LEMMA RegisterAccounts ==
  ASSUME StoreTypeOK, Accounts, UNCHANGED gateway, NEW o \in Orders, NEW i \in Invoices,
         gateway[i].state # "none", gateway[i].order = o,
         orders[o].status = "payment_creating", payments[i].status = "absent",
         RegisterInvoice(o, i)
  PROVE  Accounts' /\ PaymentsKeep
<1>1. /\ orders'[o].status = "awaiting_payment" /\ orders'[o].amount = orders[o].amount
      /\ \A p \in Orders \ {o} : orders'[p] = orders[p]
  BY DEF RegisterInvoice, SetStatus, StoreTypeOK, OrderRow
<1>2. /\ payments'[i] = [status |-> "created", order |-> o]
      /\ \A j \in Invoices \ {i} : payments'[j] = payments[j]
  BY DEF RegisterInvoice, StoreTypeOK
<1>3. AddEvent(o, "payment.invoice_created") /\ UNCHANGED jobs BY DEF RegisterInvoice
<1>4. ASSUME NEW x \in {"payment.verified", "payment.invoice_creation_failed"}
      PROVE  \A p \in Orders : Happened(p, x)' <=> Happened(p, x)
  BY <1>3, AddEventHappens DEF EventType
<1>5. PaymentsKeep /\ GatewayKeeps BY <1>2 DEF PaymentsKeep, GatewayKeeps
<1>6. \A j \in Invoices : PaymentKnown(j)'
  <2>1. PaymentKnown(i)' BY <1>1, <1>2 DEF PaymentKnown
  <2>2. ASSUME NEW j \in Invoices \ {i}, payments[j].status # "absent" PROVE PaymentKnown(j)'
    <3>1. payments[j] \in PaymentRow BY DEF StoreTypeOK
    <3>2. payments[j].order \in Orders BY <2>2, <3>1 DEF PaymentRow
    <3>. QED BY <1>1, <1>2, <2>2, <3>2 DEF Accounts, PaymentKnown
  <2>. QED BY <1>2, <2>1, <2>2 DEF PaymentKnown
<1>7. ASSUME NEW p \in Orders PROVE GivenUp(p)' /\ SettledOrder(p)'
  <2>1. PaidInFull(p) => PaidInFull(p)' BY <1>1, <1>5, StaysPaidInFull
  <2>2. Verified(p)' <=> Verified(p) BY <1>4 DEF Verified
  <2>3. SettledOrder(p)' BY <1>1, <1>3, <2>1, <2>2 DEF Accounts, SettledOrder
  <2>4. GivenUp(p)' BY <1>1, <1>2, <1>4 DEF Accounts, GivenUp
  <2>. QED BY <2>3, <2>4
<1>8. SettledOnce' BY <1>3, OnceKept DEF Accounts, EventType
<1>. QED BY <1>5, <1>6, <1>7, <1>8 DEF Accounts

(* mark_payment_creation_failed of an order that waits for its invoice:    *)
(* there is no payment's row for it.                                       *)
LEMMA MarkFailedAccounts ==
  ASSUME StoreTypeOK, Accounts, UNCHANGED gateway, NEW o \in Orders,
         orders[o].status = "payment_creating", MarkCreationFailed(o)
  PROVE  Accounts'
<1>1. /\ orders'[o].status = "failed" /\ orders'[o].amount = orders[o].amount
      /\ \A p \in Orders \ {o} : orders'[p] = orders[p]
  BY DEF MarkCreationFailed, SetStatus, StoreTypeOK, OrderRow
<1>2. AddEvent(o, "payment.invoice_creation_failed") /\ UNCHANGED <<payments, jobs>>
  BY DEF MarkCreationFailed
<1>3. \A p \in Orders : Verified(p)' <=> Verified(p)
  BY <1>2, AddEventHappens DEF EventType, Verified
<1>4. \A p \in Orders \ {o} : Happened(p, "payment.invoice_creation_failed")'
                                <=> Happened(p, "payment.invoice_creation_failed")
  BY <1>2, AddEventHappens DEF EventType
<1>5. PaymentsKeep /\ GatewayKeeps BY <1>2 DEF PaymentsKeep, GatewayKeeps
<1>6. \A i \in Invoices : PaymentKnown(i)' BY <1>1, <1>2, PaymentsStayKnown
<1>7. ASSUME NEW p \in Orders PROVE GivenUp(p)' /\ SettledOrder(p)'
  <2>1. PaidInFull(p) => PaidInFull(p)' BY <1>1, <1>5, StaysPaidInFull
  <2>2. SettledOrder(p)' BY <1>1, <1>2, <1>3, <2>1 DEF Accounts, SettledOrder
  <2>3. GivenUp(o)' BY <1>1, <1>2 DEF Accounts, GivenUp, PaymentKnown
  <2>4. p # o => GivenUp(p)' BY <1>1, <1>2, <1>4 DEF Accounts, GivenUp
  <2>. QED BY <2>2, <2>3, <2>4
<1>8. SettledOnce' BY <1>2, OnceKept DEF Accounts, EventType
<1>. QED BY <1>6, <1>7, <1>8 DEF Accounts

(* settle_aban_payment: the order was not verified before, as it waited    *)
(* for its payment, and now is, over its full amount.                      *)
LEMMA SettleAccounts ==
  ASSUME StoreTypeOK, OrderFollowsJob, Accounts, UNCHANGED gateway, NEW i \in Invoices, NEW o \in Orders,
         payments[i].status # "absent", payments[i].order = o, Settleable(o),
         gateway[i].state = "verified", gateway[i].amount = orders[o].amount,
         SettlePayment(i)
  PROVE  Accounts' /\ PaymentsKeep
<1>1. /\ orders'[o].status = "paid" /\ orders'[o].amount = orders[o].amount
      /\ \A p \in Orders \ {o} : orders'[p] = orders[p]
  BY DEF SettlePayment, SetStatus, StoreTypeOK, OrderRow
<1>2. /\ payments'[i] = [status |-> "paid", order |-> o]
      /\ \A j \in Invoices \ {i} : payments'[j] = payments[j]
  BY DEF SettlePayment, StoreTypeOK, PaymentRow
<1>3. AddEvent(o, "payment.verified") BY DEF SettlePayment
<1>4. \A p \in Orders \ {o} : jobs'[p] = jobs[p] BY DEF SettlePayment, StoreTypeOK
<1>5. /\ \A p \in Orders \ {o} : Verified(p)' <=> Verified(p)
      /\ Verified(o)'
  BY <1>3, AddEventHappens DEF EventType, Verified
<1>6. \A p \in Orders : Happened(p, "payment.invoice_creation_failed")'
                          <=> Happened(p, "payment.invoice_creation_failed")
  BY <1>3, AddEventHappens DEF EventType
<1>7. PaymentsKeep /\ GatewayKeeps
  <2>1. payments[i] \in PaymentRow BY DEF StoreTypeOK
  <2>2. payments[i].status = "paid" => payments[i] = [status |-> "paid", order |-> o]
    BY <2>1 DEF PaymentRow
  <2>. QED BY <1>2, <2>2 DEF PaymentsKeep, GatewayKeeps
<1>8. orders[o].status = "awaiting_payment" /\ ~Verified(o)
  BY DEF Settleable, Accounts, SettledOrder
<1>9. \A j \in Invoices : PaymentKnown(j)'
  <2>1. ASSUME NEW j \in Invoices, payments[j].status # "absent" PROVE PaymentKnown(j)'
    <3>1. payments[j] \in PaymentRow BY DEF StoreTypeOK
    <3>2. payments[j].order \in Orders BY <2>1, <3>1 DEF PaymentRow
    <3>3. payments'[j].order = payments[j].order BY <1>2
    <3>. QED BY <1>1, <2>1, <3>2, <3>3 DEF Accounts, PaymentKnown
  <2>. QED BY <1>2, <2>1 DEF PaymentKnown
<1>10. ASSUME NEW p \in Orders PROVE GivenUp(p)' /\ SettledOrder(p)'
  <2>1. SettledOrder(o)'
    <3>1. PaidInFull(o)' BY <1>1, <1>2 DEF Accounts, PaymentKnown, PaidInFull
    <3>. QED BY <1>1, <1>5, <3>1 DEF SettledOrder
  <2>2. ASSUME p # o PROVE SettledOrder(p)'
    <3>1. PaidInFull(p) => PaidInFull(p)' BY <1>1, <1>7, <2>2, StaysPaidInFull
    <3>. QED BY <1>1, <1>4, <1>5, <2>2, <3>1 DEF Accounts, SettledOrder
  <2>3. GivenUp(p)'
    <3>1. Happened(p, "payment.invoice_creation_failed") => p # o BY <1>8 DEF Accounts, GivenUp
    <3>. QED BY <1>1, <1>2, <1>6, <3>1 DEF Accounts, GivenUp
  <2>. QED BY <2>1, <2>2, <2>3
<1>11. SettledOnce' BY <1>3, <1>8, OnceKept DEF Accounts, EventType
<1>. QED BY <1>7, <1>9, <1>10, <1>11 DEF Accounts

-----------------------------------------------------------------------------
(* The handlers.                                                           *)

(* Handlers that do not move know what they knew; the others have to know  *)
(* what they need now.                                                     *)
LEMMA HandlersMove ==
  ASSUME PayWellFormed, HandlersKnow, GatewayKeeps, PaymentsKeep,
         \A o \in Orders : \/ CreatorKnows(o)'
                           \/ /\ creator'[o] = creator[o]
                              /\ orders[o].status = "payment_creating"
                                   => orders'[o].status = "payment_creating",
         \A r \in Requests : \/ RequestKnows(r)'
                             \/ /\ requests'[r] = requests[r]
                                /\ requests[r].pc # "idle" =>
                                     notices'[requests[r].delivery].invoice
                                       = notices[requests[r].delivery].invoice,
         links' \subseteq links \cup {i \in Invoices : payments'[i].status # "absent"}
  PROVE  HandlersKnow'
<1>. USE DEF PayWellFormed, PayHandles, PayOwnTypeOK
<1>1. ASSUME NEW o \in Orders PROVE CreatorKnows(o)'
  <2>1. SUFFICES ASSUME creator'[o] = creator[o],
                        orders[o].status = "payment_creating" => orders'[o].status = "payment_creating"
                 PROVE  CreatorKnows(o)'
    OBVIOUS
  <2>2. CreatorKnows(o) /\ CreatorHolds(o) BY DEF HandlersKnow
  <2>. QED BY <2>1, <2>2 DEF CreatorKnows, CreatorHolds, GatewayKeeps, PaymentsKeep
<1>2. ASSUME NEW r \in Requests PROVE RequestKnows(r)'
  <2>1. SUFFICES ASSUME requests'[r] = requests[r], requests[r].pc = "settling",
                        notices'[requests[r].delivery].invoice = notices[requests[r].delivery].invoice
                 PROVE  RequestKnows(r)'
    BY DEF RequestKnows
  <2>2. RequestKnows(r) /\ notices[requests[r].delivery].invoice \in Invoices
    BY <2>1 DEF HandlersKnow, RequestHolds, NoticeHolds
  <2>. QED BY <2>1, <2>2 DEF RequestKnows, GatewayKeeps
<1>3. LinksRegistered' BY DEF HandlersKnow, LinksRegistered, PaymentsKeep
<1>. QED BY <1>1, <1>2, <1>3 DEF HandlersKnow

(* A handler of another order, or of another delivery, does not move.      *)
LEMMA OtherCreators ==
  ASSUME PayWellFormed, NEW o \in Orders, CreatorEnds(o) \/ \E pc, i : CreatorGoes(o, pc, i)
  PROVE  \A p \in Orders \ {o} : creator'[p] = creator[p]
  BY DEF PayWellFormed, PayOwnTypeOK, CreatorEnds, CreatorGoes

(* A handler that ends has nothing to know.                                *)
LEMMA CreatorEndsKnows ==
  ASSUME PayWellFormed, NEW o \in Orders, CreatorEnds(o)
  PROVE  CreatorKnows(o)'
  BY DEF PayWellFormed, PayOwnTypeOK, CreatorEnds, NoCreator, CreatorKnows

LEMMA CreatorAt ==
  ASSUME PayWellFormed, NEW o \in Orders, NEW pc, NEW i, CreatorGoes(o, pc, i)
  PROVE  creator'[o] = [pc |-> pc, invoice |-> i]
  BY DEF PayWellFormed, PayOwnTypeOK, CreatorGoes

LEMMA PlaceOrderMoney ==
  ASSUME WellFormed, OrderFollowsJob, HandlersKnow, Accounts, UNCHANGED jobs,
         NEW o \in Orders, NEW a \in Amounts, PlaceOrder(o, a)
  PROVE  HandlersKnow' /\ Accounts'
<1>. USE DEF WellFormed
<1>1. /\ orders[o].status = "absent" /\ orders'[o].status = "payment_creating"
      /\ \A p \in Orders \ {o} : orders'[p] = orders[p]
  BY DEF PlaceOrder, InsertOrder, StoreTypeOK
<1>2. AddEvent(o, "order.created") /\ UNCHANGED <<payments, gateway, links, notices, requests>>
  BY DEF PlaceOrder, InsertOrder
<1>3. Accounts' BY <1>1, <1>2, AccountsMove DEF EventType
<1>4. GatewayKeeps /\ PaymentsKeep BY <1>2 DEF GatewayKeeps, PaymentsKeep
<1>5. CASE UNCHANGED creator
  BY <1>1, <1>2, <1>4, <1>5, <1>3, HandlersMove
<1>6. CASE CreatorGoes(o, "invoicing", NULL)
  <2>0. creator'[o] = [pc |-> "invoicing", invoice |-> NULL] BY <1>6, CreatorAt
  <2>1. CreatorKnows(o)' BY <1>1, <2>0 DEF CreatorKnows
  <2>2. \A p \in Orders \ {o} : creator'[p] = creator[p] BY <1>6, OtherCreators
  <2>. QED BY <1>1, <1>2, <1>3, <1>4, <2>1, <2>2, HandlersMove
<1>. QED BY <1>5, <1>6 DEF PlaceOrder

(* create_invoice answers with an invoice of the order it was asked for.   *)
LEMMA CreateInvoiceMoney ==
  ASSUME WellFormed, HandlersKnow, Accounts, UNCHANGED jobs, NEW o \in Orders, CreateInvoice(o)
  PROVE  HandlersKnow' /\ Accounts'
<1>. USE DEF WellFormed
<1>1. UNCHANGED <<orders, payments, journal, links, notices, requests>> /\ creator[o].pc = "invoicing"
  BY DEF CreateInvoice, storeVars
<1>2. PaymentsKeep BY <1>1 DEF PaymentsKeep
<1>3. GatewayKeeps BY GatewaySteps DEF CreateInvoice, GatewayKeeps
<1>4. Accounts' BY <1>1, <1>3, AccountsKept
<1>5. orders[o].status = "payment_creating" BY <1>1 DEF HandlersKnow, CreatorKnows
<1>6. ASSUME NEW i \in Invoices, OpenInvoice(o, i), CreatorGoes(o, "registering", i)
      PROVE  HandlersKnow'
  <2>1. gateway'[i].state = "open" /\ gateway'[i].order = o
    BY <1>6 DEF OpenInvoice, PayWellFormed, PayOwnTypeOK
  <2>0. creator'[o] = [pc |-> "registering", invoice |-> i] BY <1>6, CreatorAt
  <2>2. CreatorKnows(o)' BY <1>1, <1>5, <2>0, <2>1 DEF CreatorKnows
  <2>3. \A p \in Orders \ {o} : creator'[p] = creator[p] BY <1>6, OtherCreators
  <2>. QED BY <1>1, <1>2, <1>3, <2>2, <2>3, HandlersMove
<1>7. CASE CreatorGoes(o, "failing", NULL)
  <2>0. creator'[o] = [pc |-> "failing", invoice |-> NULL] BY <1>7, CreatorAt
  <2>1. CreatorKnows(o)' BY <1>1, <1>5, <2>0 DEF CreatorKnows
  <2>2. \A p \in Orders \ {o} : creator'[p] = creator[p] BY <1>7, OtherCreators
  <2>. QED BY <1>1, <1>2, <1>3, <1>4, <2>1, <2>2, HandlersMove
<1>. QED BY <1>4, <1>6, <1>7 DEF CreateInvoice

(* The handler registers its own order's invoice, and sends the link only  *)
(* then.                                                                   *)
LEMMA RegisterCreatedInvoiceMoney ==
  ASSUME WellFormed, HandlersKnow, Accounts, UNCHANGED workOwnVars,
         NEW o \in Orders, RegisterCreatedInvoice(o)
  PROVE  HandlersKnow' /\ Accounts'
<1>. DEFINE i == creator[o].invoice
<1>. USE DEF WellFormed
<1>1. i \in Invoices BY DEF RegisterCreatedInvoice, PayWellFormed, PayHandles, CreatorHolds
<1>2. UNCHANGED <<gateway, links, notices, requests>> BY DEF RegisterCreatedInvoice
<1>3. GatewayKeeps BY <1>2 DEF GatewayKeeps
<1>4. gateway[i].state # "none" /\ gateway[i].order = o /\ orders[o].status = "payment_creating"
  BY DEF RegisterCreatedInvoice, HandlersKnow, CreatorKnows
<1>. HIDE DEF i
<1>5. ASSUME CanRegister(o, i, gateway[i].amount), RegisterInvoice(o, i),
             CreatorGoes(o, "sending", i) \/ CreatorEnds(o)
      PROVE  HandlersKnow' /\ Accounts'
  <2>1. Accounts' /\ PaymentsKeep BY <1>1, <1>2, <1>4, <1>5, RegisterAccounts DEF CanRegister
  <2>2. payments'[i].status = "created" BY <1>1, <1>5 DEF RegisterInvoice, StoreTypeOK
  <2>3. \A p \in Orders \ {o} : orders'[p] = orders[p]
    BY <1>5 DEF RegisterInvoice, SetStatus, StoreTypeOK
  <2>4. \A p \in Orders \ {o} : creator'[p] = creator[p] BY <1>5, OtherCreators
  <2>5. CreatorKnows(o)'
    <3>1. CASE CreatorEnds(o) BY <3>1, CreatorEndsKnows
    <3>2. CASE CreatorGoes(o, "sending", i)
      <4>1. creator'[o] = [pc |-> "sending", invoice |-> i] BY <3>2, CreatorAt
      <4>. QED BY <2>2, <4>1 DEF CreatorKnows
    <3>. QED BY <1>5, <3>1, <3>2
  <2>. QED BY <1>2, <1>3, <2>1, <2>3, <2>4, <2>5, HandlersMove
<1>6. ASSUME UNCHANGED storeVars, CreatorEnds(o) PROVE HandlersKnow' /\ Accounts'
  <2>1. UNCHANGED <<orders, payments, journal, jobs>> BY <1>6 DEF storeVars
  <2>2. Accounts' BY <1>3, <2>1, AccountsKept
  <2>3. PaymentsKeep BY <2>1 DEF PaymentsKeep
  <2>4. CreatorKnows(o)' BY <1>6, CreatorEndsKnows
  <2>5. \A p \in Orders \ {o} : creator'[p] = creator[p] BY <1>6, OtherCreators
  <2>. QED BY <1>2, <1>3, <2>1, <2>2, <2>3, <2>4, <2>5, HandlersMove
<1>. QED BY <1>5, <1>6 DEF RegisterCreatedInvoice, i

(* A handler that gives up, gives up its own order.                        *)
LEMMA FailCreationMoney ==
  ASSUME WellFormed, HandlersKnow, Accounts, UNCHANGED workOwnVars,
         NEW o \in Orders, FailCreation(o)
  PROVE  HandlersKnow' /\ Accounts'
<1>. USE DEF WellFormed
<1>1. UNCHANGED <<gateway, links, notices, requests>> /\ CreatorEnds(o) BY DEF FailCreation
<1>2. orders[o].status = "payment_creating" BY DEF FailCreation, HandlersKnow, CreatorKnows
<1>3. CreatorKnows(o)' BY <1>1, CreatorEndsKnows
<1>4. \A p \in Orders \ {o} : creator'[p] = creator[p] BY <1>1, OtherCreators
<1>5. UNCHANGED payments BY DEF FailCreation, MarkCreationFailed, storeVars
<1>6. GatewayKeeps /\ PaymentsKeep BY <1>1, <1>5 DEF GatewayKeeps, PaymentsKeep
<1>7. \A p \in Orders \ {o} : orders'[p] = orders[p]
  BY DEF FailCreation, MarkCreationFailed, storeVars, SetStatus, StoreTypeOK
<1>8. HandlersKnow' BY <1>1, <1>3, <1>4, <1>6, <1>7, HandlersMove
<1>9. Accounts'
  <2>1. CASE MarkCreationFailed(o) BY <1>1, <1>2, <2>1, MarkFailedAccounts
  <2>2. CASE UNCHANGED storeVars BY <1>6, <2>2, AccountsKept DEF storeVars
  <2>. QED BY <2>1, <2>2 DEF FailCreation
<1>. QED BY <1>8, <1>9

(* The link that is sent is a registered invoice's.                        *)
LEMMA SendLinkMoney ==
  ASSUME WellFormed, HandlersKnow, Accounts, NEW o \in Orders, SendLink(o)
  PROVE  HandlersKnow' /\ Accounts'
<1>. DEFINE i == creator[o].invoice
<1>. USE DEF WellFormed
<1>1. UNCHANGED <<storeVars, gateway, notices, requests>> /\ CreatorEnds(o) BY DEF SendLink
<1>2. UNCHANGED <<orders, payments, journal, jobs>> BY <1>1 DEF storeVars
<1>3. GatewayKeeps /\ PaymentsKeep BY <1>1, <1>2 DEF GatewayKeeps, PaymentsKeep
<1>4. i \in Invoices /\ payments[i].status # "absent"
  BY DEF SendLink, PayWellFormed, PayHandles, CreatorHolds, HandlersKnow, CreatorKnows
<1>5. links' \subseteq links \cup {i} BY DEF SendLink
<1>6. CreatorKnows(o)' BY <1>1, CreatorEndsKnows
<1>7. \A p \in Orders \ {o} : creator'[p] = creator[p] BY <1>1, OtherCreators
<1>. HIDE DEF i
<1>8. links' \subseteq links \cup {j \in Invoices : payments'[j].status # "absent"}
  BY <1>2, <1>4, <1>5
<1>9. HandlersKnow' BY <1>1, <1>2, <1>3, <1>6, <1>7, <1>8, HandlersMove
<1>. QED BY <1>2, <1>3, <1>9, AccountsKept

(* The gateway and the customer.                                           *)
LEMMA OutsideMoney ==
  ASSUME WellFormed, HandlersKnow, Accounts, UNCHANGED workOwnVars, OutsideStep
  PROVE  HandlersKnow' /\ Accounts'
<1>. USE DEF WellFormed
<1>1. UNCHANGED <<orders, payments, journal, jobs, creator, links>>
  BY DEF OutsideStep, CustomerPays, InvoiceExpires, Notify, Deliver, storeVars
<1>2. GatewayKeeps
  <2>1. ASSUME NEW i \in Invoices, CustomerPays(i) \/ InvoiceExpires(i) PROVE GatewayKeeps
    BY <2>1, GatewaySteps
  <2>2. CASE UNCHANGED gateway BY <2>2 DEF GatewayKeeps
  <2>. QED BY <2>1, <2>2 DEF OutsideStep, Notify, Deliver
<1>3. PaymentsKeep BY <1>1 DEF PaymentsKeep
<1>4. Accounts' BY <1>1, <1>2, AccountsKept
<1>5. ASSUME NEW r \in Requests, requests'[r] # requests[r] PROVE RequestKnows(r)'
  <2>1. PICK d \in Deliveries : Deliver(d)
    BY <1>5 DEF OutsideStep, CustomerPays, InvoiceExpires, Notify
  <2>2. requests'[r].pc = "recording"
    BY <1>5, <2>1 DEF Deliver, PayWellFormed, PayOwnTypeOK
  <2>. QED BY <2>2 DEF RequestKnows
<1>6. \A d \in Deliveries : notices[d].state # "unused" => notices'[d].invoice = notices[d].invoice
  BY DEF OutsideStep, CustomerPays, InvoiceExpires, Notify, Deliver, PayWellFormed, PayOwnTypeOK
<1>7. ASSUME NEW r \in Requests, requests[r].pc # "idle"
      PROVE  notices'[requests[r].delivery].invoice = notices[requests[r].delivery].invoice
  BY <1>6, <1>7 DEF PayWellFormed, PayHandles, RequestHolds
<1>. QED BY <1>1, <1>2, <1>3, <1>4, <1>5, <1>7, HandlersMove

(* aban_webhook.  A handler that answers has nothing to know any more.     *)
LEMMA RespondMoney ==
  ASSUME PayWellFormed, HandlersKnow, GatewayKeeps, PaymentsKeep, UNCHANGED <<creator, links>>,
         \A o \in Orders : orders[o].status = "payment_creating"
                             => orders'[o].status = "payment_creating",
         NEW r \in Requests, NEW status, Respond(r, status)
  PROVE  HandlersKnow'
<1>1. RequestKnows(r)'
  BY DEF Respond, PayWellFormed, PayOwnTypeOK, NoRequest, RequestKnows
<1>2. \A q \in Requests \ {r} : requests'[q] = requests[q]
  BY DEF Respond, PayWellFormed, PayOwnTypeOK
<1>3. \A d \in Deliveries : notices'[d].invoice = notices[d].invoice
  BY DEF Respond, PayWellFormed, PayOwnTypeOK, NoticeState
<1>4. \A q \in Requests : requests[q].pc # "idle" => requests[q].delivery \in Deliveries
  BY DEF PayWellFormed, PayHandles, RequestHolds
<1>. QED BY <1>1, <1>2, <1>3, <1>4, HandlersMove

(* A handler that goes on knows what its verification said.                *)
LEMMA RequestGoesMoney ==
  ASSUME PayWellFormed, HandlersKnow, GatewayKeeps, PaymentsKeep,
         UNCHANGED <<creator, links, notices, orders>>,
         NEW r \in Requests, NEW pc, NEW v, NEW a, RequestGoes(r, pc, v, a),
         LET i == notices[requests[r].delivery].invoice
         IN  pc = "settling" /\ v => gateway'[i].state = "verified" /\ a = gateway'[i].amount
  PROVE  HandlersKnow'
<1>1. /\ requests'[r] = [pc |-> pc, delivery |-> requests[r].delivery, verified |-> v, amount |-> a]
      /\ \A q \in Requests \ {r} : requests'[q] = requests[q]
  BY DEF RequestGoes, PayWellFormed, PayOwnTypeOK
<1>2. RequestKnows(r)' BY <1>1 DEF RequestKnows
<1>. QED BY <1>1, <1>2, HandlersMove

LEMMA RecordMoney ==
  ASSUME WellFormed, HandlersKnow, Accounts, UNCHANGED workOwnVars, NEW r \in Requests, Record(r)
  PROVE  HandlersKnow' /\ Accounts'
<1>. USE DEF WellFormed
<1>1. UNCHANGED <<orders, payments, journal, jobs, creator, gateway, links>>
  BY DEF Record, RecordDelivery, storeVars
<1>2. GatewayKeeps /\ PaymentsKeep BY <1>1 DEF GatewayKeeps, PaymentsKeep
<1>3. ASSUME NEW status, Respond(r, status) PROVE HandlersKnow' BY <1>1, <1>2, <1>3, RespondMoney
<1>4. ASSUME RequestGoes(r, "verifying", FALSE, NULL), UNCHANGED notices PROVE HandlersKnow'
  BY <1>1, <1>2, <1>4, RequestGoesMoney
<1>5. HandlersKnow' BY <1>3, <1>4 DEF Record
<1>. QED BY <1>1, <1>2, <1>5, AccountsKept

(* verify_invoice: an invoice that is said to be verified is, from then on.*)
LEMMA VerifyMoney ==
  ASSUME WellFormed, HandlersKnow, Accounts, UNCHANGED workOwnVars, NEW r \in Requests, Verify(r)
  PROVE  HandlersKnow' /\ Accounts'
<1>. DEFINE i == notices[requests[r].delivery].invoice
<1>. USE DEF WellFormed
<1>1. UNCHANGED <<orders, payments, journal, jobs, creator, links>> BY DEF Verify, storeVars
<1>2. i \in Invoices BY DEF Verify, PayWellFormed, PayHandles, RequestHolds, NoticeHolds
<1>3. GatewayKeeps BY <1>2, GatewaySteps DEF Verify
<1>4. PaymentsKeep BY <1>1 DEF PaymentsKeep
<1>5. ASSUME NEW status, Respond(r, status) PROVE HandlersKnow'
  BY <1>1, <1>3, <1>4, <1>5, RespondMoney
<1>6. ASSUME NEW v \in BOOLEAN, v => IsPaid(i), RequestGoes(r, "settling", v, gateway[i].amount),
             UseUp(i), UNCHANGED notices
      PROVE  HandlersKnow'
  <2>1. v => gateway'[i].state = "verified" /\ gateway'[i].amount = gateway[i].amount
    <3>1. gateway'[i] = [gateway[i] EXCEPT !.state = IF @ = "paid" THEN "verified" ELSE @]
      BY <1>2, <1>6 DEF UseUp, PayWellFormed, PayOwnTypeOK
    <3>2. gateway[i] \in InvoiceState BY <1>2 DEF PayWellFormed, PayOwnTypeOK
    <3>. QED BY <1>6, <3>1, <3>2 DEF IsPaid, InvoiceState
  <2>. QED BY <1>1, <1>3, <1>4, <1>6, <2>1, RequestGoesMoney
<1>7. HandlersKnow' BY <1>5, <1>6 DEF Verify
<1>. QED BY <1>1, <1>3, <1>7, AccountsKept

(* settle_aban_payment, after a verification that still holds.             *)
LEMMA SettleMoney ==
  ASSUME WellFormed, OrderFollowsJob, HandlersKnow, Accounts, UNCHANGED workOwnVars,
         NEW r \in Requests, Settle(r)
  PROVE  HandlersKnow' /\ Accounts'
<1>. DEFINE i == notices[requests[r].delivery].invoice
            o == payments[i].order
<1>. USE DEF WellFormed
<1>1. UNCHANGED <<creator, gateway, links>> /\ requests[r].pc = "settling" BY DEF Settle
<1>2. GatewayKeeps BY <1>1 DEF GatewayKeeps
<1>3. PICK status : Respond(r, status) BY DEF Settle
<1>4. ASSUME VerificationAccepted(i, requests[r].verified, requests[r].amount),
             Settleable(o), SettlePayment(i)
      PROVE  HandlersKnow' /\ Accounts'
  <2>1. i \in Invoices /\ o \in Orders /\ payments[i].status # "absent"
    BY <1>1, <1>4, SettlesAnOrder DEF VerificationAccepted
  <2>2. gateway[i].state = "verified" /\ gateway[i].amount = orders[o].amount
    BY <1>1, <1>4 DEF VerificationAccepted, HandlersKnow, RequestKnows
  <2>. HIDE DEF i
  <2>3. Accounts' /\ PaymentsKeep BY <1>1, <1>4, <2>1, <2>2, SettleAccounts
  <2>4. \A p \in Orders : orders[p].status = "payment_creating"
                            => orders'[p].status = "payment_creating"
    BY <1>4, <2>1 DEF SettlePayment, Settleable, SetStatus, StoreTypeOK
  <2>. QED BY <1>1, <1>2, <1>3, <2>3, <2>4, RespondMoney
<1>5. ASSUME UNCHANGED storeVars PROVE HandlersKnow' /\ Accounts'
  <2>1. UNCHANGED <<orders, payments, journal, jobs>> BY <1>5 DEF storeVars
  <2>2. PaymentsKeep BY <2>1 DEF PaymentsKeep
  <2>. QED BY <1>1, <1>2, <1>3, <2>1, <2>2, RespondMoney, AccountsKept
<1>. QED BY <1>4, <1>5 DEF Settle

(* All of the payment side.                                                *)
LEMMA PayStepMoney ==
  ASSUME WellFormed, OrderFollowsJob, HandlersKnow, Accounts, UNCHANGED workOwnVars,
         NewOrder \/ PayStep
  PROVE  HandlersKnow' /\ Accounts'
<1>1. ASSUME NEW o \in Orders, NEW a \in Amounts, PlaceOrder(o, a) PROVE HandlersKnow' /\ Accounts'
  <2>1. UNCHANGED jobs BY <1>1 DEF PlaceOrder, InsertOrder
  <2>. QED BY <1>1, <2>1, PlaceOrderMoney
<1>2. ASSUME NEW o \in Orders, CreateInvoice(o) PROVE HandlersKnow' /\ Accounts'
  <2>1. UNCHANGED jobs BY <1>2 DEF CreateInvoice, storeVars
  <2>. QED BY <1>2, <2>1, CreateInvoiceMoney
<1>3. ASSUME NEW o \in Orders, CreatorStep(o) PROVE HandlersKnow' /\ Accounts'
  BY <1>2, <1>3, RegisterCreatedInvoiceMoney, FailCreationMoney, SendLinkMoney DEF CreatorStep
<1>4. ASSUME NEW r \in Requests, RequestStep(r) PROVE HandlersKnow' /\ Accounts'
  BY <1>4, RecordMoney, VerifyMoney, SettleMoney DEF RequestStep
<1>. QED BY <1>1, <1>3, <1>4, OutsideMoney DEF NewOrder, PayStep

-----------------------------------------------------------------------------
(* The worker.                                                             *)

(* What a claim does to its order.                                         *)
LEMMA ClaimEffect ==
  ASSUME WellFormed, Queue, NEW w \in Workers, NEW o \in Orders, ClaimJob(o, w)
  PROVE  /\ orders[o].status \in {"paid", "fulfillment_processing"}
         /\ orders'[o].status = "fulfillment_processing" /\ orders'[o].amount = orders[o].amount
         /\ \A p \in Orders \ {o} : orders'[p] = orders[p]
         /\ jobs[o].status # "absent" /\ \A p \in Orders \ {o} : jobs'[p] = jobs[p]
         /\ UNCHANGED <<payments, journal>>
<1>. USE DEF ClaimJob, TakeJob
<1>1. jobs[o].status \in {"queued", "retryable_failure"} BY DEF Claimable
<1>2. orders[o].status \in {"paid", "fulfillment_processing"}
  BY <1>1 DEF Queue, OrderFollowsJob, JobWithOrder
<1>3. /\ orders'[o].status = "fulfillment_processing" /\ orders'[o].amount = orders[o].amount
      /\ \A p \in Orders \ {o} : orders'[p] = orders[p]
  BY <1>2 DEF SetStatus, WellFormed, StoreTypeOK, OrderRow
<1>4. \A p \in Orders \ {o} : jobs'[p] = jobs[p] BY DEF WellFormed, StoreTypeOK
<1>. QED BY <1>1, <1>2, <1>3, <1>4

(* What filing a result does to its order: by ClaimExclusive the order is  *)
(* in processing, and stays there on a retry.                              *)
FiledAs ==
    {<<"fulfillment.succeeded", "fulfilled">>, <<"fulfillment.manual_review", "requires_review">>,
     <<"fulfillment.failed", "failed">>, <<"fulfillment.retry_exhausted", "requires_review">>,
     <<"fulfillment.retryable_failure", "fulfillment_processing">>}

LEMMA FinishEffect ==
  ASSUME WellFormed, Queue, NEW w \in Workers, worker[w].pc = "finishing",
         NEW o \in Orders, o = worker[w].job, FinishJob(o, worker[w].result)
  PROVE  \E e \in EventType :
           /\ AddEvent(o, e)
           /\ <<e, orders'[o].status>> \in FiledAs
           /\ orders[o].status = "fulfillment_processing" /\ orders'[o].amount = orders[o].amount
           /\ \A p \in Orders \ {o} : orders'[p] = orders[p]
           /\ jobs[o].status # "absent" /\ \A p \in Orders \ {o} : jobs'[p] = jobs[p]
           /\ UNCHANGED payments
<1>. DEFINE f == Filing(worker[w].result, jobs[o].attempts)
<1>1. jobs[o].status = "processing" /\ orders[o].status = "fulfillment_processing"
  <2>1. jobs[o].status = "processing" BY DEF Queue, ClaimExclusive, HoldsClaim
  <2>. QED BY <2>1 DEF Queue, OrderFollowsJob, JobWithOrder
<1>2. worker[w].result \in FulfillmentResult /\ jobs[o].attempts \in Nat
  BY DEF WellFormed, WorkWellFormed, WorkHandles, WorkerHolds, StoreTypeOK, JobRow
<1>3. /\ f.event \in EventType
      /\ f.job # "retryable_failure" => <<f.event, f.order>> \in FiledAs
      /\ f.job = "retryable_failure" => f.event = "fulfillment.retryable_failure"
  <2>1. CASE worker[w].result = "retryable_failure" /\ ~RetriesLeft(jobs[o].attempts)
    BY <2>1 DEF Filing, Exhausted, EventType, FiledAs
  <2>2. CASE worker[w].result = "retryable_failure" /\ RetriesLeft(jobs[o].attempts)
    BY <2>2 DEF Filing, EventType
  <2>3. CASE worker[w].result # "retryable_failure"
    BY <1>2, <2>3 DEF Filing, FulfillmentResult, EventType, FiledAs
  <2>. QED BY <2>1, <2>2, <2>3
<1>. HIDE DEF f
<1>4. FileJob(o, f) BY DEF FinishJob, f
<1>5. /\ orders'[o].status = IF f.job = "retryable_failure" THEN "fulfillment_processing" ELSE f.order
      /\ orders'[o].amount = orders[o].amount
      /\ \A p \in Orders \ {o} : orders'[p] = orders[p]
  <2>1. CASE f.job = "retryable_failure" BY <1>1, <1>4, <2>1 DEF FileJob, UpdatesOrder
  <2>2. CASE f.job # "retryable_failure"
    <3>1. SetStatus(o, f.order) BY <1>4, <2>2 DEF FileJob, UpdatesOrder
    <3>. QED BY <2>2, <3>1 DEF SetStatus, WellFormed, StoreTypeOK, OrderRow
  <2>. QED BY <2>1, <2>2
<1>6. \A p \in Orders \ {o} : jobs'[p] = jobs[p] BY <1>4 DEF FileJob, WellFormed, StoreTypeOK
<1>7. AddEvent(o, f.event) /\ UNCHANGED payments BY <1>4 DEF FileJob
<1>8. <<f.event, orders'[o].status>> \in FiledAs BY <1>3, <1>5 DEF FiledAs
<1>. QED BY <1>1, <1>3, <1>5, <1>6, <1>7, <1>8

(* The handlers of the payment side do not notice the worker.              *)
LEMMA WorkHandlersKept ==
  ASSUME WellFormed, HandlersKnow, UNCHANGED <<payOwnVars, payments>>,
         \A o \in Orders : orders[o].status = "payment_creating"
                             => orders'[o].status = "payment_creating"
  PROVE  HandlersKnow'
<1>1. GatewayKeeps /\ PaymentsKeep BY DEF GatewayKeeps, PaymentsKeep, payOwnVars
<1>. QED BY <1>1, HandlersMove DEF WellFormed, payOwnVars

LEMMA WorkStepMoney ==
  ASSUME WellFormed, Queue, HandlersKnow, Accounts, UNCHANGED payOwnVars,
         WorkStep \/ \E w \in Workers : WorkerCrash(w)
  PROVE  HandlersKnow' /\ Accounts'
<1>. USE DEF WellFormed
<1>0. UNCHANGED gateway BY DEF payOwnVars
<1>1. ASSUME NEW w \in Workers, NEW o \in Orders, ClaimJob(o, w) PROVE HandlersKnow' /\ Accounts'
  <2>1. /\ orders[o].status \in {"paid", "fulfillment_processing"}
        /\ orders'[o].status = "fulfillment_processing" /\ orders'[o].amount = orders[o].amount
        /\ \A p \in Orders \ {o} : orders'[p] = orders[p]
        /\ jobs[o].status # "absent" /\ \A p \in Orders \ {o} : jobs'[p] = jobs[p]
        /\ UNCHANGED <<payments, journal>>
    BY <1>1, ClaimEffect
  <2>2. Accounts'
    <3>. DEFINE e == "order.created"
    <3>1. e \in EventType /\ e \notin {"payment.verified", "payment.invoice_creation_failed"}
      BY DEF EventType
    <3>. HIDE DEF e
    <3>. QED BY <1>0, <2>1, <3>1, AccountsMove
  <2>. QED BY <2>1, <2>2, WorkHandlersKept
<1>2. ASSUME NEW w \in Workers, worker[w].pc = "finishing", FinishJob(worker[w].job, worker[w].result)
      PROVE  HandlersKnow' /\ Accounts'
  <2>1. PICK o \in Orders : o = worker[w].job
    BY <1>2 DEF WorkWellFormed, WorkHandles, WorkerHolds
  <2>2. PICK e \in EventType :
           /\ AddEvent(o, e)
           /\ <<e, orders'[o].status>> \in FiledAs
           /\ orders[o].status = "fulfillment_processing" /\ orders'[o].amount = orders[o].amount
           /\ \A p \in Orders \ {o} : orders'[p] = orders[p]
           /\ jobs[o].status # "absent" /\ \A p \in Orders \ {o} : jobs'[p] = jobs[p]
           /\ UNCHANGED payments
    BY <1>2, <2>1, FinishEffect
  <2>3. /\ e \notin {"payment.verified", "payment.invoice_creation_failed"}
        /\ orders'[o].status \notin {"absent", "payment_creating", "awaiting_payment"}
    BY <2>2 DEF FiledAs
  <2>4. Accounts' BY <1>0, <2>2, <2>3, AccountsMove
  <2>. QED BY <2>2, <2>4, WorkHandlersKept
<1>3. ASSUME UNCHANGED <<orders, payments, journal>>, \A o \in Orders : jobs'[o].status = jobs[o].status
      PROVE  HandlersKnow' /\ Accounts'
  <2>1. GatewayKeeps BY <1>0 DEF GatewayKeeps
  <2>. QED BY <1>3, <2>1, WorkHandlersKept, AccountsKept
<1>4. ASSUME NEW w \in Workers, WorkerStep(w) \/ WorkerCrash(w) PROVE HandlersKnow' /\ Accounts'
  <2>1. ASSUME UNCHANGED storeVars PROVE HandlersKnow' /\ Accounts' BY <1>3, <2>1 DEF storeVars
  <2>. QED BY <1>1, <1>2, <1>4, <2>1
       DEF WorkerStep, Claim, FulfillManually, Post, ReadAnswer, LoseAnswer, Finish, WorkerCrash
<1>5. ASSUME NEW o \in Orders, Serve(o) \/ Hang(o) \/ TimePasses(o) PROVE HandlersKnow' /\ Accounts'
  <2>1. CASE Serve(o) \/ Hang(o) BY <1>3, <2>1 DEF Serve, Hang, storeVars
  <2>2. CASE TimePasses(o)
    <3>1. UNCHANGED <<orders, payments, journal>> BY <2>2 DEF TimePasses, BackoffElapses, LeaseAges
    <3>2. \A p \in Orders : jobs'[p].status = jobs[p].status
      <4>1. jobs[o] \in JobRow /\ \A p \in Orders \ {o} : jobs'[p] = jobs[p]
        BY <2>2 DEF TimePasses, BackoffElapses, LeaseAges, StoreTypeOK
      <4>2. CASE BackoffElapses(o)
        <5>1. jobs'[o] = [jobs[o] EXCEPT !.due = TRUE] BY <4>2 DEF BackoffElapses, StoreTypeOK
        <5>. QED BY <4>1, <5>1 DEF JobRow
      <4>3. CASE LeaseAges(o)
        <5>1. jobs'[o] = [jobs[o] EXCEPT !.lease = "stale"] BY <4>3 DEF LeaseAges, StoreTypeOK
        <5>. QED BY <4>1, <5>1 DEF JobRow
      <4>. QED BY <2>2, <4>2, <4>3 DEF TimePasses
    <3>. QED BY <1>3, <3>1, <3>2
  <2>. QED BY <1>5, <2>1, <2>2
<1>. QED BY <1>4, <1>5 DEF WorkStep

-----------------------------------------------------------------------------
(* The whole, and what it is for.                                          *)

(* Without orders there is nothing to know.                                *)
THEOREM InitMoney == Init => MoneyInv
<1>. SUFFICES ASSUME Init PROVE MoneyInv OBVIOUS
<1>1. QueueInv BY InitQueue
<1>2. HandlersKnow
  BY DEF Init, PayOwnInit, NoCreator, NoRequest, HandlersKnow, CreatorKnows, RequestKnows, LinksRegistered
<1>3. Accounts
  BY DEF Init, StoreInit, NoPayment, NoJob, Accounts, PaymentKnown, GivenUp, SettledOrder, SettledOnce,
         Verified, Happened
<1>. QED BY <1>1, <1>2, <1>3 DEF MoneyInv

(* MoneyInv is inductive.  A crash takes the handlers and what they knew   *)
(* with it; the accounts are in the tables and at the gateway.             *)
THEOREM NextMoney == MoneyInv /\ [Next]_vars => MoneyInv'
<1>. SUFFICES ASSUME QueueInv, HandlersKnow, Accounts, [Next]_vars PROVE HandlersKnow' /\ Accounts'
  BY NextQueue DEF MoneyInv
<1>0. WellFormed /\ Queue /\ OrderFollowsJob BY DEF QueueInv, Queue
<1>1. CASE (NewOrder \/ PayStep) /\ UNCHANGED workOwnVars BY <1>0, <1>1, PayStepMoney
<1>2. CASE (WorkStep \/ \E w \in Workers : WorkerCrash(w)) /\ UNCHANGED payOwnVars
  BY <1>0, <1>2, WorkStepMoney
<1>3. CASE Crash
  <2>1. /\ UNCHANGED <<orders, payments, journal, jobs, gateway, links, notices>>
        /\ creator' = [o \in Orders |-> NoCreator] /\ requests' = [r \in Requests |-> NoRequest]
    BY <1>3 DEF Crash, LoseHandlers, storeVars
  <2>2. HandlersKnow'
    BY <2>1 DEF NoCreator, NoRequest, HandlersKnow, CreatorKnows, RequestKnows, LinksRegistered
  <2>3. GatewayKeeps BY <2>1 DEF GatewayKeeps
  <2>. QED BY <1>0, <2>1, <2>2, <2>3, AccountsKept
<1>4. CASE UNCHANGED vars
  <2>1. UNCHANGED <<orders, payments, journal, jobs, payOwnVars>> BY <1>4 DEF vars, storeVars
  <2>2. GatewayKeeps BY <2>1 DEF GatewayKeeps, payOwnVars
  <2>. QED BY <1>0, <2>1, <2>2, WorkHandlersKept, AccountsKept
<1>. QED BY <1>1, <1>2, <1>3, <1>4 DEF Next

(* The invariant that carries the theorems below.                          *)
THEOREM MoneyInvariant == Spec => []MoneyInv
  BY InitMoney, NextMoney, PTL DEF Spec

(* An order counts as paid only when the gateway verified an invoice of    *)
(* that very order over exactly its amount (settle_aban_payment).          *)
THEOREM SettledIsPaidInFull == Spec => []SettledMeansPaidInFull
<1>1. MoneyInv => SettledMeansPaidInFull
  BY DEF MoneyInv, Accounts, SettledOrder, SettledMeansPaidInFull
<1>. QED BY MoneyInvariant, <1>1, PTL

(* However many deliveries race, an order is settled at most once          *)
(* (README.md:9).                                                          *)
THEOREM SettlesOnce == Spec => []SettledOnce
<1>1. MoneyInv => SettledOnce BY DEF MoneyInv, Accounts
<1>. QED BY MoneyInvariant, <1>1, PTL

(* A payment link in a customer's hands leads to a registered invoice of   *)
(* an order that was not given up (create_payment_and_reply).              *)
THEOREM LinksAreRegistered == Spec => []LinkedInvoiceRegistered
<1>1. MoneyInv => LinkedInvoiceRegistered
  <2>. SUFFICES ASSUME MoneyInv, NEW i \in links
               PROVE  /\ payments[i].status # "absent"
                      /\ payments[i].order = gateway[i].order
                      /\ ~Happened(payments[i].order, "payment.invoice_creation_failed")
    BY DEF LinkedInvoiceRegistered
  <2>1. i \in Invoices /\ payments \in [Invoices -> PaymentRow]
    BY DEF MoneyInv, QueueInv, WellFormed, PayWellFormed, PayOwnTypeOK, StoreTypeOK
  <2>2. payments[i].status # "absent" BY DEF MoneyInv, HandlersKnow, LinksRegistered
  <2>3. payments[i].order = gateway[i].order BY <2>1, <2>2 DEF MoneyInv, Accounts, PaymentKnown
  <2>4. payments[i].order \in Orders BY <2>1, <2>2 DEF PaymentRow
  <2>5. ~Happened(payments[i].order, "payment.invoice_creation_failed")
    BY <2>1, <2>2, <2>4 DEF MoneyInv, Accounts, GivenUp
  <2>. QED BY <2>2, <2>3, <2>5
<1>. QED BY MoneyInvariant, <1>1, PTL

(* What is posted was claimed, what is claimed was queued.                 *)
LEMMA PostedIsQueued ==
  ASSUME QueueInv, NEW o \in Orders, posted[o] > 0
  PROVE  jobs[o].status # "absent" /\ orders[o].status # "absent"
<1>1. posted[o] \in Nat /\ jobs[o].attempts \in Nat /\ posted[o] <= jobs[o].attempts
  BY DEF QueueInv, Queue, PostsCounted, WellFormed, WorkWellFormed, WorkOwnTypeOK,
         StoreTypeOK, JobRow
<1>2. jobs[o].attempts # 0 BY <1>1
<1>3. jobs[o].status # "absent" BY <1>2 DEF QueueInv, Queue, JobConsistent
<1>. QED BY <1>3 DEF QueueInv, Queue, OrderFollowsJob, JobWithOrder

(* Nothing is ordered from the connector without the money for it: what is *)
(* queued was settled.                                                     *)
THEOREM OnlyPaidPosted == Spec => []OnlyPaidIsPosted
<1>1. MoneyInv => OnlyPaidIsPosted
  BY PostedIsQueued DEF OnlyPaidIsPosted, MoneyInv, Accounts, SettledOrder
<1>. QED BY MoneyInvariant, <1>1, PTL

-----------------------------------------------------------------------------
(* An order's history.                                                     *)

(* The event and the status written with it belong together.               *)
LEMMA JournalTold ==
  ASSUME StoreTypeOK, JournalTellsStatus, NEW o \in Orders, NEW e \in EventType, AddEvent(o, e),
         <<e, orders'[o].status>> \in EventWithStatus,
         \A p \in Orders \ {o} : orders'[p].status = orders[p].status
  PROVE  JournalTellsStatus'
<1>1. /\ journal'[o] = Append(journal[o], e) /\ journal[o] \in Seq(EventType)
      /\ \A p \in Orders \ {o} : journal'[p] = journal[p]
  BY AddEventEffect
<1>2. journal'[o] # <<>> /\ journal'[o][Len(journal'[o])] = e BY <1>1
<1>. QED BY <1>1, <1>2 DEF JournalTellsStatus

(* As long as neither journal nor statuses change, nothing has to be told. *)
LEMMA JournalKept ==
  ASSUME JournalTellsStatus, UNCHANGED journal, \A o \in Orders : orders'[o].status = orders[o].status
  PROVE  JournalTellsStatus'
  BY DEF JournalTellsStatus

(* Both at once, step by step.                                             *)
History == JournalTellsStatus' /\ MovesAlong

(* A transaction that moves one order along one link and says so.          *)
LEMMA HistoryMoves ==
  ASSUME StoreTypeOK, JournalTellsStatus, NEW o \in Orders, NEW e \in EventType, AddEvent(o, e),
         \A p \in Orders \ {o} : orders'[p] = orders[p],
         <<e, orders'[o].status>> \in EventWithStatus,
         \/ orders'[o].status = orders[o].status
         \/ <<orders[o].status, orders'[o].status>> \in ChainLinks
  PROVE  History
<1>1. JournalTellsStatus' BY JournalTold
<1>. QED BY <1>1 DEF History, MovesAlong

(* A step that leaves orders and journal alone.                            *)
LEMMA HistoryRests ==
  ASSUME JournalTellsStatus, UNCHANGED <<orders, journal>>
  PROVE  History
  BY JournalKept DEF History, MovesAlong

-----------------------------------------------------------------------------

LEMMA PlaceOrderHistory ==
  ASSUME StoreTypeOK, JournalTellsStatus, NEW o \in Orders, NEW a \in Amounts, PlaceOrder(o, a)
  PROVE  History
<1>1. /\ orders[o].status = "absent" /\ orders'[o].status = "payment_creating"
      /\ \A p \in Orders \ {o} : orders'[p] = orders[p]
      /\ AddEvent(o, "order.created")
  BY DEF PlaceOrder, InsertOrder, StoreTypeOK
<1>. QED BY <1>1, HistoryMoves DEF EventType, EventWithStatus, ChainLinks

LEMMA CreatorStepHistory ==
  ASSUME WellFormed, HandlersKnow, JournalTellsStatus, NEW o \in Orders, CreatorStep(o)
  PROVE  History
<1>. USE DEF WellFormed
<1>1. CASE UNCHANGED storeVars BY <1>1, HistoryRests DEF storeVars
<1>2. ASSUME NEW i, CanRegister(o, i, gateway[i].amount), RegisterInvoice(o, i) PROVE History
  <2>1. /\ orders[o].status = "payment_creating" /\ orders'[o].status = "awaiting_payment"
        /\ \A p \in Orders \ {o} : orders'[p] = orders[p]
        /\ AddEvent(o, "payment.invoice_created")
    BY <1>2, SetStatusEffect DEF CanRegister, RegisterInvoice
  <2>. QED BY <2>1, HistoryMoves DEF EventType, EventWithStatus, ChainLinks
<1>3. ASSUME creator[o].pc = "failing", MarkCreationFailed(o) PROVE History
  <2>1. orders[o].status = "payment_creating" BY <1>3 DEF HandlersKnow, CreatorKnows
  <2>2. /\ orders'[o].status = "failed"
        /\ \A p \in Orders \ {o} : orders'[p] = orders[p]
        /\ AddEvent(o, "payment.invoice_creation_failed")
    BY <1>3, <2>1, SetStatusEffect DEF MarkCreationFailed
  <2>. QED BY <2>1, <2>2, HistoryMoves DEF EventType, EventWithStatus, ChainLinks
<1>. QED BY <1>1, <1>2, <1>3
     DEF CreatorStep, CreateInvoice, RegisterCreatedInvoice, FailCreation, SendLink

LEMMA RequestStepHistory ==
  ASSUME WellFormed, JournalTellsStatus, NEW r \in Requests, RequestStep(r)
  PROVE  History
<1>. DEFINE i == notices[requests[r].delivery].invoice
            o == payments[i].order
<1>. USE DEF WellFormed
<1>1. CASE UNCHANGED <<orders, journal>> BY <1>1, HistoryRests
<1>2. ASSUME requests[r].pc = "settling",
             VerificationAccepted(i, requests[r].verified, requests[r].amount),
             Settleable(o), SettlePayment(i)
      PROVE  History
  <2>1. o \in Orders BY <1>2, SettlesAnOrder DEF VerificationAccepted
  <2>2. /\ orders[o].status = "awaiting_payment" /\ orders'[o].status = "paid"
        /\ \A p \in Orders \ {o} : orders'[p] = orders[p]
        /\ AddEvent(o, "payment.verified")
    BY <1>2, <2>1, SetStatusEffect DEF Settleable, SettlePayment
  <2>. HIDE DEF o
  <2>. QED BY <2>1, <2>2, HistoryMoves DEF EventType, EventWithStatus, ChainLinks
<1>. QED BY <1>1, <1>2 DEF RequestStep, Record, RecordDelivery, Verify, Settle, storeVars

LEMMA PayStepHistory ==
  ASSUME WellFormed, HandlersKnow, JournalTellsStatus, NewOrder \/ PayStep
  PROVE  History
<1>1. CASE NewOrder BY <1>1, PlaceOrderHistory DEF NewOrder, WellFormed
<1>2. CASE OutsideStep
  BY <1>2, HistoryRests DEF OutsideStep, CustomerPays, InvoiceExpires, Notify, Deliver, storeVars
<1>. QED BY <1>1, <1>2, CreatorStepHistory, RequestStepHistory DEF PayStep

(* The claim leaves no event: where the status moves, the last one is the  *)
(* settlement's.                                                           *)
LEMMA WorkStepHistory ==
  ASSUME WellFormed, Queue, JournalTellsStatus, WorkStep \/ \E w \in Workers : WorkerCrash(w)
  PROVE  History
<1>. USE DEF WellFormed
<1>1. ASSUME NEW w \in Workers, NEW o \in Orders, ClaimJob(o, w) PROVE History
  <2>1. /\ orders[o].status \in {"paid", "fulfillment_processing"}
        /\ orders'[o].status = "fulfillment_processing"
        /\ \A p \in Orders \ {o} : orders'[p] = orders[p]
        /\ UNCHANGED journal
    BY <1>1, ClaimEffect
  <2>2. JournalTellsStatus'
    <3>1. journal[o] # <<>> /\ <<journal[o][Len(journal[o])], orders[o].status>> \in EventWithStatus
      BY <2>1 DEF JournalTellsStatus
    <3>2. <<journal[o][Len(journal[o])], orders'[o].status>> \in EventWithStatus
      BY <2>1, <3>1 DEF EventWithStatus
    <3>. QED BY <2>1, <3>1, <3>2 DEF JournalTellsStatus
  <2>. QED BY <2>1, <2>2 DEF History, MovesAlong, ChainLinks
<1>2. ASSUME NEW w \in Workers, worker[w].pc = "finishing", FinishJob(worker[w].job, worker[w].result)
      PROVE  History
  <2>1. PICK o \in Orders : o = worker[w].job
    BY <1>2 DEF WorkWellFormed, WorkHandles, WorkerHolds
  <2>2. PICK e \in EventType :
           /\ AddEvent(o, e)
           /\ <<e, orders'[o].status>> \in FiledAs
           /\ orders[o].status = "fulfillment_processing"
           /\ \A p \in Orders \ {o} : orders'[p] = orders[p]
    BY <1>2, <2>1, FinishEffect
  <2>3. /\ <<e, orders'[o].status>> \in EventWithStatus
        /\ \/ orders'[o].status = orders[o].status
           \/ <<orders[o].status, orders'[o].status>> \in ChainLinks
    BY <2>2 DEF FiledAs, EventWithStatus, ChainLinks
  <2>. QED BY <2>2, <2>3, HistoryMoves
<1>3. CASE UNCHANGED storeVars BY <1>3, HistoryRests DEF storeVars
<1>4. ASSUME NEW w \in Workers, WorkerStep(w) \/ WorkerCrash(w) PROVE History
  BY <1>1, <1>2, <1>3, <1>4
     DEF WorkerStep, Claim, FulfillManually, Post, ReadAnswer, LoseAnswer, Finish, WorkerCrash
<1>5. ASSUME NEW o \in Orders, Serve(o) \/ Hang(o) \/ TimePasses(o) PROVE History
  BY <1>3, <1>5, HistoryRests DEF Serve, Hang, TimePasses, BackoffElapses, LeaseAges
<1>. QED BY <1>4, <1>5 DEF WorkStep

(* Every step of the shop, from a state of the invariant.                  *)
THEOREM NextHistory == MoneyInv /\ JournalTellsStatus /\ [Next]_vars => History
<1>. SUFFICES ASSUME MoneyInv, JournalTellsStatus, [Next]_vars PROVE History OBVIOUS
<1>0. WellFormed /\ Queue /\ HandlersKnow BY DEF MoneyInv, QueueInv
<1>1. CASE Crash BY <1>1, HistoryRests DEF Crash, LoseHandlers, storeVars
<1>2. CASE UNCHANGED vars BY <1>2, HistoryRests DEF vars, storeVars
<1>. QED BY <1>0, <1>1, <1>2, PayStepHistory, WorkStepHistory DEF Next

-----------------------------------------------------------------------------

(* order_events suffices to tell an order's status.                        *)
THEOREM JournalTells == Spec => []JournalTellsStatus
<1>1. Init => JournalTellsStatus
  <2>. SUFFICES ASSUME Init PROVE JournalTellsStatus OBVIOUS
  <2>1. \A o \in Orders : journal[o] = <<>> /\ orders[o].status = "absent"
    BY DEF Init, StoreInit, NoOrder
  <2>. QED BY <2>1 DEF JournalTellsStatus
<1>2. MoneyInv /\ JournalTellsStatus /\ [Next]_vars => JournalTellsStatus'
  BY NextHistory DEF History
<1>. QED BY MoneyInvariant, <1>1, <1>2, PTL DEF Spec

(* docs/architecture.md:24: an order's status only moves along the chain.  *)
THEOREM OrdersMoveAlongTheChain == Spec => StatusChain
<1>1. MoneyInv /\ JournalTellsStatus /\ [Next]_vars => [MovesAlong]_vars BY NextHistory DEF History
<1>. QED BY MoneyInvariant, JournalTells, <1>1, PTL DEF Spec, StatusChain
================================================================================
