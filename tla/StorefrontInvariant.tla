-------------------------- MODULE StorefrontInvariant --------------------------
(***************************************************************************)
(* The inductive invariant of the order core, in parts that say what the   *)
(* handlers, the worker and the tables may rely on about each other.       *)
(***************************************************************************)
EXTENDS Storefront

(* What a worker holds on to, is there.                                    *)
WorkerHolds(w) == worker[w].pc # "idle" =>
    /\ worker[w].job \in Orders
    /\ worker[w].pc = "finishing" => worker[w].result \in FulfillmentResult

WorkHandles == \A w \in Workers : WorkerHolds(w)

WorkWellFormed == WorkOwnTypeOK /\ WorkHandles

WellFormed == StoreTypeOK /\ PayWellFormed /\ WorkWellFormed

(* A worker that has claimed a job has not posted it for that attempt yet. *)
PostsCounted ==
    /\ \A o \in Orders : posted[o] <= jobs[o].attempts
    /\ \A w \in Workers : worker[w].pc = "claimed"
                            => posted[worker[w].job] < jobs[worker[w].job].attempts

Queue ==
    /\ \A o \in Orders : JobConsistent(o)
    /\ OrderFollowsJob
    /\ ClaimExclusive
    /\ PostsCounted

QueueInv == WellFormed /\ Queue

-----------------------------------------------------------------------------
(* Where the money is.  A handler of an order that still waits for its     *)
(* invoice knows the status; what it holds was made, and after that        *)
(* registered, for its own order.                                          *)
CreatorKnows(o) ==
    LET c == creator[o] IN
    /\ c.pc \in {"invoicing", "registering", "failing"} => orders[o].status = "payment_creating"
    /\ c.pc = "registering" => gateway[c.invoice].state # "none" /\ gateway[c.invoice].order = o
    /\ c.pc = "sending" => payments[c.invoice].status # "absent"

(* What a verification said stays true until it is acted on.               *)
RequestKnows(r) ==
    LET i == notices[requests[r].delivery].invoice IN
    requests[r].pc = "settling" /\ requests[r].verified =>
        gateway[i].state = "verified" /\ requests[r].amount = gateway[i].amount

LinksRegistered == \A i \in links : payments[i].status # "absent"

HandlersKnow ==
    /\ \A o \in Orders : CreatorKnows(o)
    /\ \A r \in Requests : RequestKnows(r)
    /\ LinksRegistered

(* A payment's row is about an invoice of its order, and the order waits   *)
(* for its invoice no more.                                                *)
PaymentKnown(i) ==
    payments[i].status # "absent" =>
        /\ gateway[i].state # "none"
        /\ gateway[i].order = payments[i].order
        /\ orders[payments[i].order].status \notin {"absent", "payment_creating"}

(* An order that was given up never gets a payment's row.                  *)
GivenUp(o) ==
    Happened(o, "payment.invoice_creation_failed") =>
        /\ orders[o].status = "failed"
        /\ \A i \in Invoices : payments[i].status # "absent" => payments[i].order # o

SettledOrder(o) ==
    /\ Verified(o) => /\ PaidInFull(o)
                      /\ orders[o].status \notin {"absent", "payment_creating", "awaiting_payment"}
    /\ jobs[o].status # "absent" => Verified(o)

Accounts ==
    /\ \A i \in Invoices : PaymentKnown(i)
    /\ \A o \in Orders : GivenUp(o) /\ SettledOrder(o)
    /\ SettledOnce

MoneyInv == QueueInv /\ HandlersKnow /\ Accounts

-----------------------------------------------------------------------------
(* Where the goods are.  What the connector decided stays decided; what it *)
(* answered, what the worker took from it and what was filed are that      *)
(* decision, as far as goods depend on it.                                 *)
Final == {"succeeded", "permanent_failure"}

ConnectorKeeps(o) ==
    /\ verdict[o] = "succeeded" => o \in delivered
    /\ verdict[o] \in {"none", "permanent_failure"} => o \notin delivered
    /\ answer[o] \in Final => verdict[o] = answer[o]

WorkerTold(w) ==
    worker[w].pc = "finishing" /\ worker[w].result \in Final
        => verdict[worker[w].job] = worker[w].result

FiledTruly(o) ==
    /\ orders[o].status = "fulfilled" => verdict[o] = "succeeded"
    /\ jobs[o].status = "failed" => verdict[o] = "permanent_failure"

Goods ==
    /\ \A o \in Orders : ConnectorKeeps(o) /\ FiledTruly(o)
    /\ \A w \in Workers : WorkerTold(w)

(* Whose money is at the gateway: only registered invoices are paid, an    *)
(* order has one, and one that was closed for want of it has none.         *)
PaidIsRegistered == \A i \in Invoices : IsPaid(i) => payments[i].status # "absent"

Invoiced(o) == \E i \in Invoices : payments[i].status # "absent" /\ payments[i].order = o

ClosedIsUnpaid ==
    \A o \in Orders : orders[o].status = "failed" /\ jobs[o].status = "absent" => ~Invoiced(o)

Purses == PaidIsRegistered /\ OneInvoiceEach /\ ClosedIsUnpaid

PromiseInv == MoneyInv /\ Goods /\ Purses

-----------------------------------------------------------------------------
(* Who has what in hand.  What the gateway asks for an order is its price; *)
(* a notice of a payment is true; a handler verifies and settles what such *)
(* a notice, recorded before, is about.                                    *)
Priced(i) ==
    gateway[i].state # "none" =>
        LET o == gateway[i].order IN
        o \in Orders /\ orders[o].status # "absent" /\ gateway[i].amount = orders[o].amount

NoticeTrue(d) ==
    /\ notices[d].event = "invoice.paid" => notices[d].state # "unused" /\ IsPaid(notices[d].invoice)
    /\ notices[d].state = "acked" => d \in recorded
    /\ d \in recorded => notices[d].state # "unused"

ActsOnPayment(r) ==
    requests[r].pc \in {"verifying", "settling"} =>
        requests[r].delivery \in recorded /\ notices[requests[r].delivery].event = "invoice.paid"

(* From hand to hand: who records goes on to verify, and who verified, to  *)
(* settle.                                                                 *)
RecordedInHand(d) ==
    d \in recorded /\ notices[d].event = "invoice.paid" =>
        \/ gateway[notices[d].invoice].state = "verified"
        \/ Handled(notices[d].invoice, {"verifying"})

VerifiedInHand(i) ==
    gateway[i].state = "verified" =>
        \/ payments[i].status = "paid"
        \/ \E r \in Requests : /\ requests[r].pc = "settling" /\ requests[r].verified
                               /\ notices[requests[r].delivery].invoice = i

Prices == "misprice" \notin Faults => \A i \in Invoices : Priced(i)

Notices ==
    /\ \A d \in Deliveries : NoticeTrue(d)
    /\ \A r \in Requests : ActsOnPayment(r)

Settling == (\A d \in Deliveries : RecordedInHand(d)) /\ (\A i \in Invoices : VerifiedInHand(i))

Hands ==
    /\ Prices
    /\ Notices
    /\ CreationUndisturbed => CreationInHand
    /\ SettlingUndisturbed => Settling
    /\ WorkUndisturbed => JobInHand

HandInv == PromiseInv /\ Hands
================================================================================
