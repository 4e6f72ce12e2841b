----------------------------- MODULE PaymentFlow -----------------------------
(***************************************************************************)
(* How an order gets paid.  create_payment_and_reply (src/telegram) asks   *)
(* the payment gateway for an invoice, registers it and sends the customer *)
(* the link; aban_webhook (src/web) records a delivery of the gateway, has *)
(* the invoice verified and settles the payment.  Every await point of     *)
(* these handlers is a state of its own, so the handlers interleave with   *)
(* each other, with the gateway and the customer, and with crashes.        *)
(*                                                                         *)
(* The gateway is outside the repository and modelled from how the code    *)
(* uses it: it repeats a delivery under the same id until it is answered   *)
(* with 200 (what UNIQUE (provider, delivery_id) is for), and it verifies  *)
(* an invoice once: whether it says `verified` again is left open.         *)
(***************************************************************************)
EXTENDS OrderStore

CONSTANT Requests   \* webhook requests that can be in progress at a time

VARIABLES
    creator,   \* per order, the callback handler that gets its invoice
    gateway,   \* the gateway's invoices
    links,     \* invoices whose payment link reached the customer
    notices,   \* the gateway's webhook deliveries
    requests   \* webhook handlers in progress

payOwnVars == <<creator, gateway, links, notices, requests>>
payVars == <<storeVars, payOwnVars>>

-----------------------------------------------------------------------------

CreatorState == [pc: {"idle", "invoicing", "registering", "failing", "sending"},
                 invoice: Invoices \cup {NULL}]
InvoiceState == [state: {"none", "open", "paid", "verified", "expired"},
                 order: Orders \cup {NULL}, amount: Amounts \cup {NULL}]
NoticeState == [state: {"unused", "pending", "acked"}, invoice: Invoices \cup {NULL},
                event: {"none", "invoice.paid", "invoice.expired"}]
RequestState == [pc: {"idle", "recording", "verifying", "settling"},
                 delivery: Deliveries \cup {NULL}, verified: BOOLEAN,
                 amount: Amounts \cup {NULL}]

PayOwnTypeOK ==
    /\ creator \in [Orders -> CreatorState]
    /\ gateway \in [Invoices -> InvoiceState]
    /\ links \subseteq Invoices
    /\ notices \in [Deliveries -> NoticeState]
    /\ requests \in [Requests -> RequestState]

NoCreator == [pc |-> "idle", invoice |-> NULL]
NoInvoice == [state |-> "none", order |-> NULL, amount |-> NULL]
NoNotice == [state |-> "unused", invoice |-> NULL, event |-> "none"]
NoRequest == [pc |-> "idle", delivery |-> NULL, verified |-> FALSE, amount |-> NULL]

PayOwnInit ==
    /\ creator = [o \in Orders |-> NoCreator]
    /\ gateway = [i \in Invoices |-> NoInvoice]
    /\ links = {}
    /\ notices = [d \in Deliveries |-> NoNotice]
    /\ requests = [r \in Requests |-> NoRequest]

PayInit == StoreInit /\ PayOwnInit

-----------------------------------------------------------------------------
(* How a database call ends: carried out and answered, failed, or carried  *)
(* out without the caller learning of it.                                  *)
DbFails(call) == call \in Faults
CommitUnknown(call) == {call, "unknown_commit"} \subseteq Faults

CreatorGoes(o, pc, i) == creator' = [creator EXCEPT ![o] = [pc |-> pc, invoice |-> i]]
CreatorEnds(o) == creator' = [creator EXCEPT ![o] = NoCreator]

-----------------------------------------------------------------------------
(* Bugs that the checks must notice, each a variant of a definition below. *)

(* A bug: the link is sent even if the invoice could not be registered.    *)
RegisterOrNot(o) ==
    /\ creator[o].pc = "registering"
    /\ RegisterInvoice(o, creator[o].invoice) \/ UNCHANGED storeVars
    /\ CreatorGoes(o, "sending", creator[o].invoice)
    /\ UNCHANGED <<gateway, links, notices, requests>>

(* A bug: errors are answered like successes.                              *)
ErrorsLookFine == 200

-----------------------------------------------------------------------------
(* create_payment_and_reply.                                               *)

(* finalize_checkout makes the order and its handler goes on to the        *)
(* gateway, unless it does not learn that there is an order.               *)
PlaceOrder(o, amount) ==
    /\ InsertOrder(o, amount)
    /\ \/ CreatorGoes(o, "invoicing", NULL)
       \/ CommitUnknown("finalize") /\ UNCHANGED creator
    /\ UNCHANGED <<gateway, links, notices, requests>>

(* create_invoice: the gateway makes an invoice and the answer arrives, or *)
(* no usable answer arrives, whether or not an invoice was made.           *)
QuotedAmounts(o) == IF "misprice" \in Faults THEN Amounts ELSE {orders[o].amount}

OpenInvoice(o, i) ==
    /\ gateway[i].state = "none"
    /\ \E a \in QuotedAmounts(o) :
         gateway' = [gateway EXCEPT ![i] = [state |-> "open", order |-> o, amount |-> a]]

CreateInvoice(o) ==
    /\ creator[o].pc = "invoicing"
    /\ \/ \E i \in Invoices : OpenInvoice(o, i) /\ CreatorGoes(o, "registering", i)
       \/ /\ "create_invoice" \in Faults
          /\ \/ \E i \in Invoices : OpenInvoice(o, i)
             \/ UNCHANGED gateway
          /\ CreatorGoes(o, "failing", NULL)
    /\ UNCHANGED <<storeVars, links, notices, requests>>

(* register_aban_invoice: only its success leads to the link, every error  *)
(* to the advice not to pay.                                               *)
RegisterCreatedInvoice(o) ==
    LET i == creator[o].invoice IN
    /\ creator[o].pc = "registering"
    /\ \/ /\ CanRegister(o, i, gateway[i].amount)
          /\ RegisterInvoice(o, i)
          /\ \/ CreatorGoes(o, "sending", i)
             \/ CommitUnknown("register") /\ CreatorEnds(o)
       \/ /\ ~CanRegister(o, i, gateway[i].amount) \/ DbFails("register")
          /\ CreatorEnds(o)
          /\ UNCHANGED storeVars
    /\ UNCHANGED <<gateway, links, notices, requests>>

(* The error of mark_payment_creation_failed is ignored.                   *)
FailCreation(o) ==
    /\ creator[o].pc = "failing"
    /\ \/ MarkCreationFailed(o)
       \/ DbFails("mark_failed") /\ UNCHANGED storeVars
    /\ CreatorEnds(o)
    /\ UNCHANGED <<gateway, links, notices, requests>>

(* The message with the link, which Telegram may refuse; an unusable       *)
(* payment_url ends the same way.                                          *)
SendLink(o) ==
    /\ creator[o].pc = "sending"
    /\ \/ links' = links \cup {creator[o].invoice}
       \/ "send" \in Faults /\ UNCHANGED links
    /\ CreatorEnds(o)
    /\ UNCHANGED <<storeVars, gateway, notices, requests>>

-----------------------------------------------------------------------------
(* The customer and the gateway.                                           *)

(* Only the bot's message leads a customer to an invoice.                  *)
CustomerPays(i) ==
    /\ i \in links
    /\ gateway[i].state = "open"
    /\ \E a \in Amounts :
         /\ a = gateway[i].amount \/ "misprice" \in Faults
         /\ gateway' = [gateway EXCEPT ![i].state = "paid", ![i].amount = a]
    /\ UNCHANGED <<storeVars, creator, links, notices, requests>>

InvoiceExpires(i) ==
    /\ gateway[i].state = "open"
    /\ gateway' = [gateway EXCEPT ![i].state = "expired"]
    /\ UNCHANGED <<storeVars, creator, links, notices, requests>>

IsPaid(i) == gateway[i].state \in {"paid", "verified"}

EventsOf(i) == IF IsPaid(i) THEN {"invoice.paid"}
               ELSE IF gateway[i].state = "expired" THEN {"invoice.expired"} ELSE {}

Notify(i) ==
    /\ \E d \in Deliveries, e \in EventsOf(i) :
         /\ notices[d].state = "unused"
         /\ notices' = [notices EXCEPT ![d] = [state |-> "pending", invoice |-> i, event |-> e]]
    /\ UNCHANGED <<storeVars, creator, gateway, links, requests>>

-----------------------------------------------------------------------------
(* aban_webhook.  A request without its headers, with a wrong signature,   *)
(* malformed JSON or an event that differs from its header is refused      *)
(* before anything changes and is not an action here.                      *)

RequestGoes(r, pc, verified, amount) ==
    requests' = [requests EXCEPT ![r] = [pc |-> pc, delivery |-> @.delivery,
                                         verified |-> verified, amount |-> amount]]

OK == 200

InternalError == 500

(* A 200 stops the repetition of the delivery, if it gets through.         *)
Respond(r, status) ==
    /\ requests' = [requests EXCEPT ![r] = NoRequest]
    /\ \/ /\ status = OK
          /\ notices' = [notices EXCEPT ![requests[r].delivery].state = "acked"]
       \/ /\ status # OK \/ "ack" \in Faults
          /\ UNCHANGED notices

Deliver(d) ==
    /\ notices[d].state = "pending"
    /\ \E r \in Requests :
         /\ requests[r].pc = "idle"
         /\ requests' = [requests EXCEPT ![r] = [pc |-> "recording", delivery |-> d,
                                                 verified |-> FALSE, amount |-> NULL]]
    /\ UNCHANGED <<storeVars, creator, gateway, links, notices>>

(* record_webhook commits before anything is done about the delivery; a    *)
(* repetition and an event other than invoice.paid are answered with 200.  *)
Record(r) ==
    LET d == requests[r].delivery IN
    /\ requests[r].pc = "recording"
    /\ \/ /\ IsNewDelivery(d)
          /\ RecordDelivery(d)
          /\ \/ /\ notices[d].event = "invoice.paid"
                /\ RequestGoes(r, "verifying", FALSE, NULL)
                /\ UNCHANGED notices
             \/ notices[d].event # "invoice.paid" /\ Respond(r, OK)
             \/ CommitUnknown("record") /\ Respond(r, InternalError)
       \/ ~IsNewDelivery(d) /\ Respond(r, OK) /\ UNCHANGED storeVars
       \/ DbFails("record") /\ Respond(r, InternalError) /\ UNCHANGED storeVars
    /\ UNCHANGED <<creator, gateway, links>>

(* verify_invoice.  Only a paid invoice is verified, and surely only once; *)
(* an answer that is lost may have used up that one time.  The answer is   *)
(* about the invoice that was asked about.                                 *)
UseUp(i) == gateway' = [gateway EXCEPT ![i].state = IF @ = "paid" THEN "verified" ELSE @]

Verify(r) ==
    LET i == notices[requests[r].delivery].invoice IN
    /\ requests[r].pc = "verifying"
    /\ \/ /\ \E v \in BOOLEAN :
               /\ v => IsPaid(i)
               /\ gateway[i].state = "paid" => v
               /\ RequestGoes(r, "settling", v, gateway[i].amount)
          /\ UseUp(i)
          /\ UNCHANGED notices
       \/ /\ "verify" \in Faults
          /\ Respond(r, InternalError)
          /\ UseUp(i) \/ UNCHANGED gateway
    /\ UNCHANGED <<storeVars, creator, links>>

(* settle_aban_payment: 500 for every bail and error, 200 otherwise.       *)
Settle(r) ==
    LET i == notices[requests[r].delivery].invoice
        accepted == VerificationAccepted(i, requests[r].verified, requests[r].amount)
        o == payments[i].order IN
    /\ requests[r].pc = "settling"
    /\ \/ /\ accepted
          /\ Settleable(o)
          /\ SettlePayment(i)
          /\ \/ Respond(r, OK)
             \/ CommitUnknown("settle") /\ Respond(r, InternalError)
       \/ accepted /\ ~Settleable(o) /\ Respond(r, OK) /\ UNCHANGED storeVars
       \/ /\ ~accepted \/ DbFails("settle")
          /\ Respond(r, InternalError)
          /\ UNCHANGED storeVars
    /\ UNCHANGED <<creator, gateway, links>>

(* The process dies: every handler in progress is gone, the tables stay.   *)
LoseHandlers ==
    /\ creator' = [o \in Orders |-> NoCreator]
    /\ requests' = [r \in Requests |-> NoRequest]
    /\ UNCHANGED <<storeVars, gateway, links, notices>>

PayCrash == "crash" \in Faults /\ LoseHandlers

-----------------------------------------------------------------------------

CreatorStep(o) == CreateInvoice(o) \/ RegisterCreatedInvoice(o) \/ FailCreation(o) \/ SendLink(o)
RequestStep(r) == Record(r) \/ Verify(r) \/ Settle(r)
OutsideStep ==
    \/ \E i \in Invoices : CustomerPays(i) \/ InvoiceExpires(i) \/ Notify(i)
    \/ \E d \in Deliveries : Deliver(d)

PayStep ==
    \/ \E o \in Orders : CreatorStep(o)
    \/ \E r \in Requests : RequestStep(r)
    \/ OutsideStep

(* Who places orders is left open here; CheckoutFlow says it.              *)
NewOrder == \E o \in Orders, a \in Amounts : PlaceOrder(o, a)

PayNext == NewOrder \/ PayStep \/ PayCrash

PaySpec == PayInit /\ [][PayNext]_payVars

(* The runtime runs every handler it started, and what a handler asks the  *)
(* gateway is answered or breaks off, an assumption about the network, as  *)
(* AbanClient sets no timeout; the gateway notifies of a                   *)
(* paid invoice and repeats what was not acknowledged (strong fairness,    *)
(* because only the model limits how many requests are served at a time).  *)
(* Its repetitions outlast an outage of the database.  Nobody has to pay.  *)
RecordSucceeds(r) == Record(r) /\ recorded' # recorded

PayFairness ==
    /\ \A o \in Orders : WF_payVars(CreatorStep(o))
    /\ \A r \in Requests : WF_payVars(RequestStep(r)) /\ SF_payVars(RecordSucceeds(r))
    /\ \A d \in Deliveries : SF_payVars(Deliver(d))
    /\ \A i \in Invoices : WF_payVars(IsPaid(i) /\ Notify(i))

FairPaySpec == PaySpec /\ PayFairness

-----------------------------------------------------------------------------
(* Properties.                                                             *)

(* Every variable has its type.                                            *)
PayTypeOK == StoreTypeOK /\ PayOwnTypeOK

(* Why: what a handler holds on to, is there.                              *)
CreatorHolds(o) == creator[o].pc \in {"registering", "sending"} => creator[o].invoice \in Invoices

NoticeHolds(d) == notices[d].state # "unused" => notices[d].invoice \in Invoices

RequestHolds(r) == requests[r].pc # "idle" =>
    /\ requests[r].delivery \in Deliveries
    /\ notices[requests[r].delivery].state # "unused"

PayHandles ==
    /\ \A o \in Orders : CreatorHolds(o)
    /\ \A d \in Deliveries : NoticeHolds(d)
    /\ \A r \in Requests : RequestHolds(r)

PayWellFormed == PayOwnTypeOK /\ PayHandles

(* A payment link reaches a customer only when its invoice is registered,  *)
(* for the order it was made for, and that order was not given up: money   *)
(* that comes in over a link can always be attributed.                     *)
LinkedInvoiceRegistered ==
    \A i \in links :
        /\ payments[i].status # "absent"
        /\ payments[i].order = gateway[i].order
        /\ ~Happened(payments[i].order, "payment.invoice_creation_failed")

(* An order counts as paid only when the gateway verified an invoice of    *)
(* that very order over exactly its amount (settle_aban_payment), however  *)
(* the gateway misquotes, the customer underpays or deliveries interleave. *)
PaidInFull(o) ==
    \E i \in Invoices : /\ payments[i] = [status |-> "paid", order |-> o]
                        /\ gateway[i].state = "verified"
                        /\ gateway[i].order = o
                        /\ gateway[i].amount = orders[o].amount

SettledMeansPaidInFull == \A o \in Orders : Verified(o) => PaidInFull(o)

(* src/telegram/mod.rs:253: once the customer has paid, the order's status *)
(* is brought up to date without anybody's doing.                          *)
PaidIsSettled == \A i \in Invoices : gateway[i].state = "paid" ~> payments[i].status = "paid"
=============================================================================
