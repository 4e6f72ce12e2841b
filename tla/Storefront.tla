------------------------------ MODULE Storefront ------------------------------
(***************************************************************************)
(* The order core as main.rs runs it: the handlers of PaymentFlow and the  *)
(* worker of FulfillmentWorker over the same tables.  Nothing else joins   *)
(* the two: settle_aban_payment queues a job, the worker claims it.        *)
(***************************************************************************)
EXTENDS PaymentFlow, FulfillmentWorker

vars == <<storeVars, payOwnVars, workOwnVars>>

Init == StoreInit /\ PayOwnInit /\ WorkOwnInit

(* The process ends, on a stop signal, an error of the web server or a     *)
(* failure, and takes its handlers and its worker with it.                 *)
Crash ==
    /\ "crash" \in Faults
    /\ LoseHandlers
    /\ worker' = [w \in Workers |-> IdleWorker]
    /\ UNCHANGED connectorVars

Next ==
    \/ (NewOrder \/ PayStep) /\ UNCHANGED workOwnVars
    \/ (WorkStep \/ \E w \in Workers : WorkerCrash(w)) /\ UNCHANGED payOwnVars
    \/ Crash

Spec == Init /\ [][Next]_vars

(* PayFairness and WorkFairness, over the variables of the whole.          *)
Fairness ==
    /\ \A o \in Orders : WF_vars(CreatorStep(o) /\ UNCHANGED workOwnVars)
    /\ \A r \in Requests : /\ WF_vars(RequestStep(r) /\ UNCHANGED workOwnVars)
                           /\ SF_vars(RecordSucceeds(r) /\ UNCHANGED workOwnVars)
    /\ \A d \in Deliveries : SF_vars(Deliver(d) /\ UNCHANGED workOwnVars)
    /\ \A i \in Invoices : WF_vars(IsPaid(i) /\ Notify(i) /\ UNCHANGED workOwnVars)
    /\ \A w \in Workers : WF_vars(WorkerStep(w) /\ UNCHANGED payOwnVars)
    /\ \A o \in Orders : WF_vars(Serve(o) /\ UNCHANGED payOwnVars)
                         /\ WF_vars(TimePasses(o) /\ UNCHANGED payOwnVars)

FairSpec == Spec /\ Fairness

-----------------------------------------------------------------------------
(* Properties.                                                             *)

(* Every variable has its type.                                            *)
TypeOK == StoreTypeOK /\ PayOwnTypeOK /\ WorkOwnTypeOK

(* An order's status moves along the documented chain (ChainLinks), by any *)
(* step of any handler or worker.                                          *)
StatusChain == [][MovesAlong]_vars

(* The audit trail in order_events suffices to tell an order's status: the *)
(* last event determines it, but for the claim, which leaves no event.     *)
EventWithStatus ==
    {<<"order.created", "payment_creating">>,
     <<"payment.invoice_created", "awaiting_payment">>,
     <<"payment.invoice_creation_failed", "failed">>,
     <<"payment.verified", "paid">>, <<"payment.verified", "fulfillment_processing">>,
     <<"fulfillment.retryable_failure", "fulfillment_processing">>,
     <<"fulfillment.succeeded", "fulfilled">>, <<"fulfillment.failed", "failed">>,
     <<"fulfillment.manual_review", "requires_review">>,
     <<"fulfillment.retry_exhausted", "requires_review">>}

JournalTellsStatus ==
    \A o \in Orders :
        IF journal[o] = <<>> THEN orders[o].status = "absent"
        ELSE <<journal[o][Len(journal[o])], orders[o].status>> \in EventWithStatus

(* Nothing is ever ordered from the connector without the money for it.    *)
OnlyPaidIsPosted == \A o \in Orders : posted[o] > 0 => PaidInFull(o)

(* The shop keeps its promise about every order.                           *)
StageOf(o) ==
    CASE orders[o].status = "absent" -> "none"
      [] orders[o].status \in {"payment_creating", "awaiting_payment"} -> "open"
      [] orders[o].status \in {"paid", "fulfillment_processing"} -> "settled"
      [] orders[o].status = "fulfilled" -> "fulfilled"
      [] orders[o].status = "requires_review" -> "review"
      [] OTHER -> IF jobs[o].status = "absent" THEN "closed" ELSE "refused"

MoneyFor(o) ==
    \E i \in Invoices : /\ payments[i].order = o
                        /\ IsPaid(i)
                        /\ gateway[i].amount = orders[o].amount

Promise == INSTANCE OrderPromise WITH
    stage <- [o \in Orders |-> StageOf(o)],
    money <- {o \in Orders : MoneyFor(o)},
    goods <- delivered

PromiseKept == Promise!Spec

(* From the payment to the end: what a customer paid for gets delivered,   *)
(* refused or into manual review.                                          *)
PaidIsResolved ==
    \A i \in Invoices : gateway[i].state = "paid"
                          ~> payments[i].status = "paid" /\ Resolved(payments[i].order)

(* Who has what in hand: the handler of create_payment_and_reply an order  *)
(* in payment_creating, a handler of aban_webhook a paid invoice whose     *)
(* delivery is recorded, and a worker a job in processing.                 *)
CreationUndisturbed ==
    Faults \cap {"register", "mark_failed", "misprice", "crash"} = {} /\ ~CommitUnknown("finalize")

CreationInHand ==
    \A o \in Orders : orders[o].status = "payment_creating"
                         => creator[o].pc \in {"invoicing", "registering", "failing"}

SettlingUndisturbed ==
    Faults \cap {"verify", "settle", "misprice", "crash"} = {} /\ ~CommitUnknown("record")

Handled(i, pcs) ==
    \E r \in Requests : requests[r].pc \in pcs /\ notices[requests[r].delivery].invoice = i

PaymentInHand ==
    \A d \in recorded : notices[d].event = "invoice.paid" =>
        LET i == notices[d].invoice IN
        payments[i].status = "paid" \/ Handled(i, {"verifying", "settling"})

WorkUndisturbed == Faults \cap {"finish", "crash"} = {} /\ ~CommitUnknown("claim")

JobInHand ==
    \A o \in Orders : jobs[o].status = "processing"
                         => \E w \in Workers : worker[w].pc # "idle" /\ worker[w].job = o

(* README.md:9-10: nothing in the program looks for these orders, payments *)
(* and jobs again once a hand has dropped them, so that none may while it  *)
(* is not done, unless one of the faults named above made it; and the      *)
(* gateway, which repeats what it got no 200 for, gets one only for what   *)
(* was recorded.                                                           *)
NothingForgotten ==
    /\ CreationUndisturbed => CreationInHand
    /\ \A d \in Deliveries : notices[d].state = "acked" => d \in recorded
    /\ SettlingUndisturbed => PaymentInHand
    /\ WorkUndisturbed => JobInHand
=============================================================================
