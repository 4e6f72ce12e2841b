-------------------------- MODULE FulfillmentWorker --------------------------
(***************************************************************************)
(* How a paid order gets delivered: the polling loop of                    *)
(* src/fulfillment/worker.rs and the two providers of                      *)
(* src/fulfillment/mod.rs.  main.rs starts one worker per process; Workers *)
(* are all the processes polling the same job table.                       *)
(*                                                                         *)
(* The connector is outside the repository.  It is modelled by the         *)
(* contract in docs/fragment-connector-contract.md that ExternalProvider   *)
(* relies on: order_id is an idempotency key, an order that was decided is *)
(* not carried out again but answered with the decision, `succeeded` means *)
(* delivered, `retryable_failure` and `permanent_failure` mean that nothing*)
(* was, and `manual_review` may mean either.                               *)
(***************************************************************************)
EXTENDS OrderStore

CONSTANT Providers   \* what FULFILLMENT_PROVIDER may be set to, per start

ASSUME ProvidersAssumption == Providers \subseteq {"manual", "external"}

VARIABLES
    worker,      \* per worker, where it is in its loop
    posted,      \* how many requests were sent to the connector, per order
    inFlight,    \* requests on their way to the connector: <<order, number>>
    verdict,     \* the connector's decision on each order
    answer,      \* its answer to the last request for each order
    delivered,   \* orders the connector has delivered
    unanswered   \* orders with a request whose answer was lost or unusable

workOwnVars == <<worker, posted, inFlight, verdict, answer, delivered, unanswered>>
workVars == <<storeVars, workOwnVars>>

-----------------------------------------------------------------------------

WorkerState == [pc: {"idle", "claimed", "calling", "finishing"},
                job: Orders \cup {NULL},
                result: FulfillmentResult \cup {"none"}]

Decisions == {"succeeded", "manual_review", "permanent_failure"}

WorkOwnTypeOK ==
    /\ worker \in [Workers -> WorkerState]
    /\ posted \in [Orders -> Nat]
    /\ inFlight \subseteq Orders \X Nat
    /\ verdict \in [Orders -> Decisions \cup {"none"}]
    /\ answer \in [Orders -> FulfillmentResult \cup {"none"}]
    /\ delivered \subseteq Orders
    /\ unanswered \subseteq Orders

IdleWorker == [pc |-> "idle", job |-> NULL, result |-> "none"]

WorkOwnInit ==
    /\ worker = [w \in Workers |-> IdleWorker]
    /\ posted = [o \in Orders |-> 0]
    /\ inFlight = {}
    /\ verdict = [o \in Orders |-> "none"]
    /\ answer = [o \in Orders |-> "none"]
    /\ delivered = {}
    /\ unanswered = {}

WorkerGoes(w, pc, o, result) ==
    worker' = [worker EXCEPT ![w] = [pc |-> pc, job |-> o, result |-> result]]
WorkerIdles(w) == worker' = [worker EXCEPT ![w] = IdleWorker]

connectorVars == <<posted, inFlight, verdict, answer, delivered, unanswered>>

-----------------------------------------------------------------------------
(* Bugs that the checks must notice, each a variant of a definition below. *)

(* A bug: an unknown status is passed on.                                  *)
ResultUnknown == "unknown"

-----------------------------------------------------------------------------
(* The loop of worker::run.                                                *)

(* An error of the claim is logged and the worker sleeps; if the claim was *)
(* committed all the same, nobody holds the job it took.                   *)
Claim(w) ==
    /\ worker[w].pc = "idle"
    /\ \E o \in Orders :
         /\ ClaimJob(o, w)
         /\ \/ WorkerGoes(w, "claimed", o, "none")
            \/ {"claim", "unknown_commit"} \subseteq Faults /\ UNCHANGED worker
    /\ UNCHANGED connectorVars

(* ManualProvider answers at once and delivers nothing.                    *)
FulfillManually(w) ==
    /\ worker[w].pc = "claimed"
    /\ "manual" \in Providers
    /\ WorkerGoes(w, "finishing", worker[w].job, "manual_review")
    /\ UNCHANGED <<storeVars, connectorVars>>

(* ExternalProvider posts the order to the connector.                      *)
Post(w) ==
    LET o == worker[w].job IN
    /\ worker[w].pc = "claimed"
    /\ "external" \in Providers
    /\ posted' = [posted EXCEPT ![o] = @ + 1]
    /\ inFlight' = inFlight \cup {<<o, posted'[o]>>}
    /\ answer' = [answer EXCEPT ![o] = "none"]
    /\ WorkerGoes(w, "calling", o, "none")
    /\ UNCHANGED <<storeVars, verdict, delivered, unanswered>>

(* The status of the connector's answer is the result.                     *)
ReadAnswer(w) ==
    LET o == worker[w].job IN
    /\ worker[w].pc = "calling"
    /\ answer[o] # "none"
    /\ WorkerGoes(w, "finishing", o, answer[o])
    /\ UNCHANGED <<storeVars, connectorVars>>

(* No connection, a connection that breaks, an HTTP status other than 2xx, *)
(* a body that is not JSON and an unknown status: each becomes a retryable *)
(* failure, whether or not the connector acts on the request.              *)
ResultOfNoAnswer == "retryable_failure"

LoseAnswer(w) ==
    LET o == worker[w].job IN
    /\ worker[w].pc = "calling"
    /\ "connector" \in Faults
    /\ unanswered' = unanswered \cup {o}
    /\ WorkerGoes(w, "finishing", o, ResultOfNoAnswer)
    /\ UNCHANGED <<storeVars, posted, inFlight, verdict, answer, delivered>>

(* An error of finish_fulfillment_job is logged and forgotten.             *)
Finish(w) ==
    /\ worker[w].pc = "finishing"
    /\ \/ FinishJob(worker[w].job, worker[w].result)
       \/ "finish" \in Faults /\ UNCHANGED storeVars
    /\ WorkerIdles(w)
    /\ UNCHANGED connectorVars

(* The process of the worker dies; a restart polls afresh.                 *)
WorkerCrash(w) ==
    /\ "crash" \in Faults
    /\ worker[w].pc # "idle"
    /\ WorkerIdles(w)
    /\ UNCHANGED <<storeVars, connectorVars>>

-----------------------------------------------------------------------------
(* The connector, under its contract.                                      *)

Decided(o) == verdict[o] # "none"

Decide(o, v, goods) ==
    /\ v = "succeeded" => goods
    /\ v \in {"retryable_failure", "permanent_failure"} => ~goods
    /\ verdict' = IF v \in Decisions THEN [verdict EXCEPT ![o] = v] ELSE verdict
    /\ delivered' = IF goods THEN delivered \cup {o} ELSE delivered

(* Requests for an order are served in any order, also one that nobody     *)
(* waits for any more.                                                     *)
Serve(o) ==
    \E n \in 1 .. posted[o], v \in FulfillmentResult :
        /\ <<o, n>> \in inFlight
        /\ inFlight' = inFlight \ {<<o, n>>}
        /\ \/ Decided(o) /\ v = verdict[o] /\ UNCHANGED <<verdict, delivered>>
           \/ ~Decided(o) /\ \E goods \in BOOLEAN : Decide(o, v, goods)
        /\ answer' = IF n = posted[o] THEN [answer EXCEPT ![o] = v] ELSE answer
        /\ UNCHANGED <<storeVars, worker, posted, unanswered>>

(* The connector takes a request and neither answers it nor closes the     *)
(* connection: ExternalProvider's client, built without a timeout, waits.  *)
Hang(o) ==
    /\ "hang" \in Faults
    /\ \E n \in 1 .. posted[o] : <<o, n>> \in inFlight /\ inFlight' = inFlight \ {<<o, n>>}
    /\ UNCHANGED <<storeVars, worker, posted, verdict, answer, delivered, unanswered>>

-----------------------------------------------------------------------------

WorkerStep(w) ==
    \/ Claim(w) \/ FulfillManually(w) \/ Post(w)
    \/ ReadAnswer(w) \/ LoseAnswer(w) \/ Finish(w)

TimePasses(o) == (BackoffElapses(o) \/ LeaseAges(o)) /\ UNCHANGED workOwnVars

WorkStep ==
    \/ \E w \in Workers : WorkerStep(w)
    \/ \E o \in Orders : Serve(o) \/ Hang(o) \/ TimePasses(o)

WorkNext == WorkStep \/ \E w \in Workers : WorkerCrash(w)

(* On its own the worker starts from orders that were just settled: as     *)
(* many as there are, each with its registered and paid invoice.           *)
SettledStore ==
    /\ orders \in [Orders -> [status: {"paid"}, amount: Amounts]]
    /\ \E invoiceOf \in [Orders -> Invoices] :
         /\ \A o, p \in Orders : invoiceOf[o] = invoiceOf[p] => o = p
         /\ payments = [i \in Invoices |->
              IF \E o \in Orders : invoiceOf[o] = i
              THEN [status |-> "paid", order |-> CHOOSE o \in Orders : invoiceOf[o] = i]
              ELSE NoPayment]
    /\ jobs = [o \in Orders |-> QueuedJob]
    /\ journal = [o \in Orders |->
                    <<"order.created", "payment.invoice_created", "payment.verified">>]
    /\ recorded = Deliveries

WorkInit == SettledStore /\ WorkOwnInit

WorkSpec == WorkInit /\ [][WorkNext]_workVars

(* The runtime runs the worker, the connector serves what reaches it, time *)
(* passes.                                                                 *)
WorkFairness ==
    /\ \A w \in Workers : WF_workVars(WorkerStep(w))
    /\ \A o \in Orders : WF_workVars(Serve(o)) /\ WF_workVars(TimePasses(o))

FairWorkSpec == WorkSpec /\ WorkFairness

-----------------------------------------------------------------------------
(* Properties.                                                             *)

(* FOR UPDATE SKIP LOCKED, the status and locked_by together make a claim  *)
(* exclusive: while a worker is busy, its job stays in processing under    *)
(* its name, however long the provider takes and whatever the others do.   *)
HoldsClaim(w, o) ==
    /\ jobs[o].status = "processing"
    /\ jobs[o].owner = w
    /\ jobs[o].lease # "none"

ClaimExclusive ==
    \A w \in Workers : worker[w].pc # "idle" => HoldsClaim(w, worker[w].job)

(* An order is posted to the connector at most once per counted attempt,   *)
(* and attempts stop at the limit of finish_fulfillment_job, crashes and   *)
(* lost answers included.                                                  *)
AttemptsBounded ==
    \A o \in Orders : posted[o] <= jobs[o].attempts /\ jobs[o].attempts <= MaxAttempts

(* A customer is told "fulfilled" only of goods that were delivered, and a *)
(* job filed as failed is one whose goods never arrive, not even through   *)
(* an earlier request that the connector serves late.                      *)
GoodsAgree ==
    \A o \in Orders : /\ orders[o].status = "fulfilled" => o \in delivered
                      /\ jobs[o].status = "failed" => o \notin delivered

(* README.md:10 and docs/architecture.md:26: a job in the queue comes out  *)
(* of it, delivered, refused or in manual review.                          *)
Resolved(o) == jobs[o].status \in {"succeeded", "manual_review", "failed"}

QueuedIsResolved == \A o \in Orders : jobs[o].status = "queued" ~> Resolved(o)

(* README.md:10, a resilient queue: a delivery that does not come back     *)
(* keeps no other job from its turn.                                       *)
EveryJobGetsItsTurn ==
    \A o \in Orders : jobs[o].status = "queued" ~> Resolved(o) \/ posted[o] > 0

(* docs/architecture.md:26: after an ambiguous error (an answer that was   *)
(* lost) the delivery is not repeated automatically.                       *)
NoRepeatAfterLostAnswer ==
    [][\A o \in unanswered : posted'[o] = posted[o]]_workVars
=============================================================================
