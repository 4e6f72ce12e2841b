------------------------------ MODULE StoreProofs ------------------------------
(***************************************************************************)
(* What the transactions of OrderStore do to the tables: with any callers, *)
(* and with callers that finish a job only while it is in processing.      *)
(***************************************************************************)
EXTENDS OrderStore, TLAPS, SequenceTheorems

(* The transactions alone, with callers that finish any job that was ever  *)
(* claimed: twice, too late, or after somebody else.                       *)
CarelessChange ==
    \/ StoreChange
    \/ \E o \in Orders, result \in FulfillmentResult : jobs[o].attempts > 0 /\ FinishJob(o, result)

CarelessSpec == StoreInit /\ [][CarelessChange]_storeVars

(* What the transactions see to by themselves, with careless callers too:  *)
(* all of TablesAgree but which of the statuses after its payment an order *)
(* with a job has.                                                         *)
JobOnceSettled(o) ==
    /\ jobs[o].status = "absent" =>
         orders[o].status \in {"absent", "payment_creating", "awaiting_payment", "failed"}
    /\ jobs[o].status # "absent" =>
         orders[o].status \in {"paid", "fulfillment_processing", "fulfilled", "requires_review", "failed"}

BooksAgree ==
    /\ \A o \in Orders : JobConsistent(o) /\ SettledWhole(o) /\ JobOnceSettled(o)
    /\ \A o \in Orders : orders[o].status # "absent" => orders[o].amount \in Amounts
    /\ \A i \in Invoices : InvoiceAwaited(i)
    /\ SettledOnce
    /\ OneInvoiceEach

BooksInv == StoreTypeOK /\ BooksAgree

(* Nor do careless callers undo a settlement, queue a job again or regain  *)
(* an attempt: an order that was paid is never unpaid, nor paid anew.      *)
NothingUndone ==
    \A o \in Orders :
        /\ jobs'[o].attempts >= jobs[o].attempts
        /\ jobs'[o].status = "queued" => jobs[o].status \in {"absent", "queued"}
        /\ Verified(o) => Verified(o)' /\ jobs'[o].status # "absent"
        /\ orders'[o].status = "paid" => orders[o].status \in {"awaiting_payment", "paid"}

-----------------------------------------------------------------------------
(* The transactions of src/db/mod.rs leave well-typed tables behind.       *)

(* An event of a known type is all that add_event adds.                    *)
LEMMA AddEventType ==
  ASSUME StoreTypeOK, NEW o, NEW e \in EventType, AddEvent(o, e)
  PROVE  journal' \in [Orders -> Seq(EventType)]
  BY AppendProperties DEF StoreTypeOK, AddEvent

(* An UPDATE to a known status keeps the orders table well typed.          *)
LEMMA SetStatusType ==
  ASSUME StoreTypeOK, NEW o, NEW s \in OrderStatus, SetStatus(o, s)
  PROVE  orders' \in [Orders -> OrderRow]
  BY DEF StoreTypeOK, SetStatus, OrderRow

(* finalize_checkout's INSERT.                                             *)
LEMMA InsertOrderType ==
  ASSUME StoreTypeOK, NEW o \in Orders, NEW a \in Amounts, InsertOrder(o, a)
  PROVE  StoreTypeOK'
<1>1. orders' \in [Orders -> OrderRow]
  BY DEF StoreTypeOK, InsertOrder, OrderRow, OrderStatus
<1>2. journal' \in [Orders -> Seq(EventType)]
  BY AddEventType DEF InsertOrder, EventType
<1>. QED BY <1>1, <1>2 DEF StoreTypeOK, InsertOrder

(* register_aban_invoice: an order waits for its payment, its invoice has  *)
(* a row.                                                                  *)
LEMMA RegisterInvoiceType ==
  ASSUME StoreTypeOK, NEW o \in Orders, NEW i \in Invoices, RegisterInvoice(o, i)
  PROVE  StoreTypeOK'
<1>1. orders' \in [Orders -> OrderRow]
  BY SetStatusType DEF RegisterInvoice, OrderStatus
<1>2. payments' \in [Invoices -> PaymentRow]
  BY DEF StoreTypeOK, RegisterInvoice, PaymentRow
<1>3. journal' \in [Orders -> Seq(EventType)]
  BY AddEventType DEF RegisterInvoice, EventType
<1>. QED BY <1>1, <1>2, <1>3 DEF StoreTypeOK, RegisterInvoice

(* mark_payment_creation_failed, whether or not it finds the order         *)
(* waiting.                                                                *)
LEMMA MarkCreationFailedType ==
  ASSUME StoreTypeOK, NEW o \in Orders, MarkCreationFailed(o)
  PROVE  StoreTypeOK'
<1>1. orders' \in [Orders -> OrderRow]
  <2>1. CASE SetStatus(o, "failed") BY <2>1, SetStatusType DEF OrderStatus
  <2>2. CASE UNCHANGED orders BY <2>2 DEF StoreTypeOK
  <2>. QED BY <2>1, <2>2 DEF MarkCreationFailed
<1>2. journal' \in [Orders -> Seq(EventType)]
  BY AddEventType DEF MarkCreationFailed, EventType
<1>. QED BY <1>1, <1>2 DEF StoreTypeOK, MarkCreationFailed

(* settle_aban_payment: payment, order and job are written together.       *)
LEMMA SettlePaymentType ==
  ASSUME StoreTypeOK, NEW i, payments[i].status # "absent", SettlePayment(i)
  PROVE  StoreTypeOK'
<1>. DEFINE o == payments[i].order
<1>1. orders' \in [Orders -> OrderRow]
  BY SetStatusType DEF SettlePayment, OrderStatus
<1>2. payments' \in [Invoices -> PaymentRow]
  <2>1. payments \in [Invoices -> PaymentRow] BY DEF StoreTypeOK
  <2>2. CASE i \in Invoices
    <3>1. [payments[i] EXCEPT !.status = "paid"] \in PaymentRow BY <2>1, <2>2 DEF PaymentRow
    <3>. QED BY <2>1, <2>2, <3>1 DEF SettlePayment
  <2>3. CASE i \notin Invoices BY <2>1, <2>3 DEF SettlePayment
  <2>. QED BY <2>2, <2>3
<1>3. jobs' \in [Orders -> JobRow]
  BY DEF StoreTypeOK, SettlePayment, JobRow, QueuedJob, JobStatus
<1>4. journal' \in [Orders -> Seq(EventType)]
  BY AddEventType DEF SettlePayment, EventType
<1>. QED BY <1>1, <1>2, <1>3, <1>4 DEF StoreTypeOK, SettlePayment

(* claim_next_fulfillment_job, with and without its UPDATE of the order.   *)
LEMMA ClaimJobType ==
  ASSUME StoreTypeOK, NEW o \in Orders, NEW w \in Workers, ClaimJob(o, w)
  PROVE  StoreTypeOK'
<1>1. orders' \in [Orders -> OrderRow]
  <2>1. CASE SetStatus(o, "fulfillment_processing") BY <2>1, SetStatusType DEF OrderStatus
  <2>2. CASE UNCHANGED orders BY <2>2 DEF StoreTypeOK
  <2>. QED BY <2>1, <2>2 DEF ClaimJob, TakeJob
<1>2. jobs' \in [Orders -> JobRow]
  BY DEF StoreTypeOK, ClaimJob, TakeJob, JobRow, JobStatus
<1>. QED BY <1>1, <1>2 DEF StoreTypeOK, ClaimJob, TakeJob

(* A result is filed under statuses and an event that the tables know.     *)
LEMMA FilingType ==
  ASSUME NEW result \in FulfillmentResult, NEW n \in Nat
  PROVE  Filing(result, n) \in [job : JobStatus, order : OrderStatus, event : EventType]
  BY DEF Filing, FulfillmentResult, JobStatus, OrderStatus, EventType, Exhausted

(* finish_fulfillment_job, for every result a provider can return.         *)
LEMMA FinishJobType ==
  ASSUME StoreTypeOK, NEW o \in Orders, NEW result \in FulfillmentResult, FinishJob(o, result)
  PROVE  StoreTypeOK'
<1>. DEFINE f == Filing(result, jobs[o].attempts)
<1>0. f \in [job : JobStatus, order : OrderStatus, event : EventType]
  BY FilingType DEF StoreTypeOK, JobRow
<1>. HIDE DEF f
<1>1. orders' \in [Orders -> OrderRow]
  <2>1. CASE SetStatus(o, f.order) BY <1>0, <2>1, SetStatusType
  <2>2. CASE UNCHANGED orders BY <2>2 DEF StoreTypeOK
  <2>. QED BY <2>1, <2>2 DEF FinishJob, FileJob, f
<1>2. jobs' \in [Orders -> JobRow]
  <2>1. jobs' = [jobs EXCEPT ![o] = [status |-> f.job, attempts |-> @.attempts,
                      due |-> @.due /\ ~(f.job = "retryable_failure"),
                      lease |-> "none", owner |-> NULL]]
    BY DEF FinishJob, FileJob, f
  <2>. QED BY <1>0, <2>1 DEF StoreTypeOK, JobRow
<1>3. journal' \in [Orders -> Seq(EventType)]
  <2>1. AddEvent(o, f.event) BY DEF FinishJob, FileJob, f
  <2>. QED BY <1>0, <2>1, AddEventType
<1>. QED BY <1>1, <1>2, <1>3 DEF StoreTypeOK, FinishJob, FileJob

(* Time only changes whether a job is due and how old its lock is.         *)
LEMMA TimeType ==
  ASSUME StoreTypeOK, NEW o \in Orders, BackoffElapses(o) \/ LeaseAges(o)
  PROVE  StoreTypeOK'
<1>1. UNCHANGED <<orders, payments, journal, recorded>> BY DEF BackoffElapses, LeaseAges
<1>2. jobs' \in [Orders -> JobRow]
  <2>1. jobs \in [Orders -> JobRow] BY DEF StoreTypeOK
  <2>2. CASE BackoffElapses(o)
    <3>1. [jobs[o] EXCEPT !.due = TRUE] \in JobRow BY <2>1 DEF JobRow
    <3>. QED BY <2>1, <2>2, <3>1 DEF BackoffElapses
  <2>3. CASE LeaseAges(o)
    <3>1. [jobs[o] EXCEPT !.lease = "stale"] \in JobRow BY <2>1 DEF JobRow
    <3>. QED BY <2>1, <2>3, <3>1 DEF LeaseAges
  <2>. QED BY <2>2, <2>3
<1>. QED BY <1>1, <1>2 DEF StoreTypeOK

(* All that may become of the tables.                                      *)
LEMMA StoreChangeType ==
  ASSUME StoreTypeOK, StoreChange
  PROVE  StoreTypeOK'
<1>1. ASSUME NEW i \in Invoices, NEW a \in Amounts, VerificationAccepted(i, TRUE, a), SettlePayment(i)
      PROVE  StoreTypeOK'
  BY <1>1, SettlePaymentType DEF VerificationAccepted
<1>2. ASSUME NEW d \in Deliveries, RecordDelivery(d) PROVE StoreTypeOK'
  BY <1>2 DEF StoreTypeOK, RecordDelivery
<1>. QED BY <1>1, <1>2, InsertOrderType, RegisterInvoiceType, MarkCreationFailedType, ClaimJobType,
            FinishJobType, TimeType DEF StoreChange

-----------------------------------------------------------------------------
(* The journal.                                                            *)

(* add_event appends one event to one order's journal.                     *)
LEMMA AddEventEffect ==
  ASSUME StoreTypeOK, NEW o \in Orders, NEW e \in EventType, AddEvent(o, e)
  PROVE  /\ journal'[o] = Append(journal[o], e)
         /\ \A p \in Orders \ {o} : journal'[p] = journal[p]
         /\ journal[o] \in Seq(EventType)
  BY DEF StoreTypeOK, AddEvent

(* What happened to an order stays, and the event joins it.                *)
LEMMA AddEventHappens ==
  ASSUME StoreTypeOK, NEW o \in Orders, NEW e \in EventType, AddEvent(o, e), NEW x
  PROVE  /\ Happened(o, x)' <=> Happened(o, x) \/ x = e
         /\ \A p \in Orders \ {o} : Happened(p, x)' <=> Happened(p, x)
<1>. DEFINE s == journal[o]
<1>1. /\ journal'[o] = Append(s, e) /\ s \in Seq(EventType)
      /\ \A p \in Orders \ {o} : journal'[p] = journal[p]
  BY AddEventEffect
<1>. HIDE DEF s
<1>2. /\ DOMAIN Append(s, e) = DOMAIN s \cup {Len(s) + 1}
      /\ \A k \in DOMAIN s : Append(s, e)[k] = s[k]
      /\ Append(s, e)[Len(s) + 1] = e
  BY <1>1
<1>3. Happened(o, x)' <=> Happened(o, x) \/ x = e
  BY <1>1, <1>2 DEF Happened, s
<1>. QED BY <1>1, <1>3 DEF Happened

(* An order's payment is verified once, if it is not verified again.       *)
LEMMA OnceKept ==
  ASSUME StoreTypeOK, SettledOnce, NEW o \in Orders, NEW e \in EventType, AddEvent(o, e),
         e = "payment.verified" => ~Verified(o)
  PROVE  SettledOnce'
<1>. DEFINE s == journal[o]
<1>1. /\ journal'[o] = Append(s, e) /\ s \in Seq(EventType)
      /\ \A p \in Orders \ {o} : journal'[p] = journal[p]
  BY AddEventEffect
<1>2. e = "payment.verified" => \A k \in DOMAIN s : s[k] # "payment.verified"
  BY DEF Verified, Happened
<1>3. \A k, l \in DOMAIN s : s[k] = "payment.verified" /\ s[l] = "payment.verified" => k = l
  BY DEF SettledOnce
<1>. HIDE DEF s
<1>4. \A k, l \in DOMAIN Append(s, e) :
         Append(s, e)[k] = "payment.verified" /\ Append(s, e)[l] = "payment.verified" => k = l
  BY <1>1, <1>2, <1>3
<1>5. \A k, l \in DOMAIN journal'[o] :
         journal'[o][k] = "payment.verified" /\ journal'[o][l] = "payment.verified" => k = l
  BY <1>1, <1>4
<1>6. \A p \in Orders \ {o} : \A k, l \in DOMAIN journal'[p] :
         journal'[p][k] = "payment.verified" /\ journal'[p][l] = "payment.verified" => k = l
  BY <1>1 DEF SettledOnce
<1>. QED BY <1>5, <1>6 DEF SettledOnce

-----------------------------------------------------------------------------
(* The tables agree.                                                       *)

(* Every result is filed in statuses that belong together.                 *)
LEMMA FilingAgrees ==
  ASSUME NEW result \in FulfillmentResult, NEW n \in Nat
  PROVE  /\ Filing(result, n).job \in {"succeeded", "manual_review", "failed", "retryable_failure"}
         /\ Filing(result, n).job = "retryable_failure" => RetriesLeft(n)
         /\ Filing(result, n).job # "retryable_failure" =>
              <<Filing(result, n).job, Filing(result, n).order>> \in JobWithOrder
<1>1. CASE result = "succeeded" BY <1>1 DEF Filing, JobWithOrder
<1>2. CASE result = "manual_review" BY <1>2 DEF Filing, JobWithOrder
<1>3. CASE result = "permanent_failure" BY <1>3 DEF Filing, JobWithOrder
<1>4. CASE result = "retryable_failure" /\ ~RetriesLeft(n) BY <1>4 DEF Filing, Exhausted, JobWithOrder
<1>5. CASE result = "retryable_failure" /\ RetriesLeft(n) BY <1>5 DEF Filing
<1>. QED BY <1>1, <1>2, <1>3, <1>4, <1>5 DEF FulfillmentResult

(* A transaction about one order and its payment leaves the others as they *)
(* were; the rest is to be shown of that order.                            *)
LEMMA OneOrderAgrees ==
  ASSUME BooksInv, NEW o \in Orders,
         \A p \in Orders \ {o} : orders'[p] = orders[p] /\ jobs'[p] = jobs[p] /\ journal'[p] = journal[p],
         \A i \in Invoices :
            \/ payments'[i] = payments[i]
            \/ /\ payments'[i].status # "absent" /\ payments'[i].order = o
               /\ payments[i].status # "absent" => payments[i].order = o,
         JobConsistent(o)', SettledWhole(o)',
         orders'[o].status # "absent" => orders'[o].amount \in Amounts,
         JobOnceSettled(o)',
         \A i \in Invoices : payments'[i].status # "absent" /\ payments'[i].order = o => InvoiceAwaited(i)',
         SettledOnce', OneInvoiceEach', StoreTypeOK'
  PROVE  BooksInv'
<1>1. \A p \in Orders : JobConsistent(p)'
  BY DEF BooksInv, BooksAgree, JobConsistent, RetriesLeft
<1>2. ASSUME NEW p \in Orders \ {o} PROVE SettledWhole(p)'
  <2>1. SettledWhole(p) BY DEF BooksInv, BooksAgree
  <2>2. Verified(p)' <=> Verified(p) BY DEF Verified, Happened
  <2>3. \A i \in Invoices : payments'[i] = [status |-> "paid", order |-> p]
                              <=> payments[i] = [status |-> "paid", order |-> p]
    OBVIOUS
  <2>. QED BY <2>1, <2>2, <2>3 DEF SettledWhole
<1>3. ASSUME NEW i \in Invoices PROVE InvoiceAwaited(i)'
  <2>1. CASE payments'[i].status # "absent" /\ payments'[i].order = o BY <2>1
  <2>2. CASE payments'[i].status = "absent" BY <2>2 DEF InvoiceAwaited
  <2>3. CASE payments'[i].status # "absent" /\ payments'[i].order # o
    <3>1. payments'[i] = payments[i] BY <2>3
    <3>2. payments[i].order \in Orders \ {o} BY <2>3, <3>1 DEF BooksInv, StoreTypeOK, PaymentRow
    <3>. QED BY <3>1, <3>2 DEF BooksInv, BooksAgree, InvoiceAwaited
  <2>. QED BY <2>1, <2>2, <2>3
<1>4. \A p \in Orders : JobOnceSettled(p)'
  BY DEF BooksInv, BooksAgree, JobOnceSettled
<1>5. \A p \in Orders : orders'[p].status # "absent" => orders'[p].amount \in Amounts
  BY DEF BooksInv, BooksAgree
<1>. QED BY <1>1, <1>2, <1>3, <1>4, <1>5 DEF BooksInv, BooksAgree

(* What the tables say about one order, to begin with.                     *)
LEMMA BooksAboutOrder ==
  ASSUME BooksInv, NEW o \in Orders
  PROVE  /\ JobConsistent(o) /\ SettledWhole(o)
         /\ orders[o].status # "absent" => orders[o].amount \in Amounts
         /\ JobOnceSettled(o)
         /\ \A i \in Invoices : InvoiceAwaited(i)
         /\ SettledOnce /\ OneInvoiceEach
         /\ orders \in [Orders -> OrderRow] /\ jobs \in [Orders -> JobRow]
         /\ payments \in [Invoices -> PaymentRow] /\ journal \in [Orders -> Seq(EventType)]
  BY DEF BooksInv, BooksAgree, StoreTypeOK

(* An event other than a settlement's, of an order whose job is there or   *)
(* not as before.                                                          *)
LEMMA StillWhole ==
  ASSUME BooksInv, NEW o \in Orders, NEW e \in EventType, AddEvent(o, e) \/ UNCHANGED journal,
         e # "payment.verified", UNCHANGED payments,
         jobs'[o].status = "absent" <=> jobs[o].status = "absent"
  PROVE  SettledWhole(o)' /\ SettledOnce' /\ \A p \in Orders \ {o} : journal'[p] = journal[p]
<1>1. StoreTypeOK /\ SettledWhole(o) /\ SettledOnce BY BooksAboutOrder DEF BooksInv
<1>2. CASE AddEvent(o, e)
  <2>1. Verified(o)' <=> Verified(o) BY <1>1, <1>2, AddEventHappens DEF Verified
  <2>2. SettledOnce' BY <1>1, <1>2, OnceKept
  <2>3. SettledWhole(o)' BY <1>1, <2>1 DEF SettledWhole
  <2>. QED BY <1>1, <1>2, <2>2, <2>3, AddEventEffect
<1>3. CASE UNCHANGED journal
  <2>1. Verified(o)' <=> Verified(o) BY <1>3 DEF Verified, Happened
  <2>. QED BY <1>1, <1>3, <2>1 DEF SettledWhole, SettledOnce
<1>. QED BY <1>2, <1>3

(* finalize_checkout: a new order has no payment, job or settlement.       *)
LEMMA InsertOrderAgrees ==
  ASSUME BooksInv, NEW o \in Orders, NEW a \in Amounts, InsertOrder(o, a)
  PROVE  BooksInv'
<1>0. StoreTypeOK' BY InsertOrderType DEF BooksInv
<1>1. /\ JobConsistent(o) /\ JobOnceSettled(o)
      /\ orders' = [orders EXCEPT ![o] = [status |-> "payment_creating", amount |-> a]]
      /\ AddEvent(o, "order.created") /\ UNCHANGED <<payments, jobs, recorded>>
      /\ orders \in [Orders -> OrderRow] /\ payments \in [Invoices -> PaymentRow]
      /\ orders[o].status = "absent"
  BY BooksAboutOrder DEF InsertOrder
<1>2. jobs'[o].status = "absent" BY <1>1 DEF JobOnceSettled
<1>3. /\ orders'[o].status = "payment_creating" /\ orders'[o].amount = a
      /\ \A p \in Orders \ {o} : orders'[p] = orders[p]
  BY <1>1
<1>4. JobConsistent(o)' BY <1>1 DEF JobConsistent, RetriesLeft
<1>5. SettledWhole(o)' /\ SettledOnce' /\ \A p \in Orders \ {o} : journal'[p] = journal[p]
  BY <1>1, StillWhole DEF EventType
<1>6. JobOnceSettled(o)' BY <1>2, <1>3 DEF JobOnceSettled
<1>7. \A i \in Invoices : payments'[i].status # "absent" => payments'[i].order # o
  BY <1>1, BooksAboutOrder DEF InvoiceAwaited
<1>8. OneInvoiceEach' BY <1>1, BooksAboutOrder DEF OneInvoiceEach
<1>. QED BY <1>0, <1>1, <1>3, <1>4, <1>5, <1>6, <1>7, <1>8, OneOrderAgrees

(* A transaction that leaves payments alone and does not change whether    *)
(* there is a job.                                                         *)
LEMMA UnpaidAgrees ==
  ASSUME BooksInv, NEW o \in Orders, StoreTypeOK', UNCHANGED payments,
         \A p \in Orders \ {o} : orders'[p] = orders[p] /\ jobs'[p] = jobs[p],
         NEW e \in EventType, AddEvent(o, e) \/ UNCHANGED journal, e # "payment.verified",
         orders'[o].amount = orders[o].amount,
         orders[o].status # "absent" \/ orders'[o].status = "absent",
         orders[o].status \in {"absent", "payment_creating"} \/ orders'[o].status # "payment_creating",
         jobs'[o].status = "absent" <=> jobs[o].status = "absent",
         orders'[o].status = "failed" =>
            orders[o].status \in {"failed", "payment_creating"} \/ jobs'[o].status # "absent",
         orders'[o].status # "absent" \/ orders[o].status = "absent",
         JobConsistent(o)', JobOnceSettled(o)'
  PROVE  BooksInv'
<1>1. SettledWhole(o)' /\ SettledOnce' /\ \A p \in Orders \ {o} : journal'[p] = journal[p]
  BY StillWhole
<1>2. \A i \in Invoices : payments'[i].status # "absent" /\ payments'[i].order = o => InvoiceAwaited(i)'
  BY BooksAboutOrder DEF InvoiceAwaited
<1>3. orders'[o].status # "absent" => orders'[o].amount \in Amounts BY BooksAboutOrder
<1>4. OneInvoiceEach' BY BooksAboutOrder DEF OneInvoiceEach
<1>. QED BY <1>1, <1>2, <1>3, <1>4, OneOrderAgrees

(* register_aban_invoice: the order had no payment, and gets its one.      *)
LEMMA RegisterInvoiceAgrees ==
  ASSUME BooksInv, NEW o \in Orders, NEW i \in Invoices,
         CanRegister(o, i, orders[o].amount), RegisterInvoice(o, i)
  PROVE  BooksInv'
<1>0. StoreTypeOK /\ StoreTypeOK' BY RegisterInvoiceType DEF BooksInv
<1>1. /\ orders[o].status = "payment_creating" /\ payments[i].status = "absent"
      /\ orders' = [orders EXCEPT ![o].status = "awaiting_payment"]
      /\ payments' = [payments EXCEPT ![i] = [status |-> "created", order |-> o]]
      /\ AddEvent(o, "payment.invoice_created") /\ UNCHANGED <<jobs, recorded>>
  BY DEF CanRegister, RegisterInvoice, SetStatus
<1>2. /\ JobConsistent(o) /\ SettledWhole(o) /\ orders[o].amount \in Amounts
      /\ JobOnceSettled(o)
      /\ orders \in [Orders -> OrderRow] /\ payments \in [Invoices -> PaymentRow]
      /\ \A j \in Invoices : InvoiceAwaited(j)
      /\ SettledOnce /\ OneInvoiceEach
  BY <1>1, BooksAboutOrder
<1>3. /\ orders'[o].status = "awaiting_payment" /\ orders'[o].amount = orders[o].amount
      /\ \A p \in Orders \ {o} : orders'[p] = orders[p]
      /\ payments'[i] = [status |-> "created", order |-> o]
      /\ \A j \in Invoices \ {i} : payments'[j] = payments[j]
  BY <1>1, <1>2 DEF OrderRow
<1>4. jobs[o].status = "absent" BY <1>1, <1>2 DEF JobOnceSettled
<1>5. JobConsistent(o)' BY <1>1, <1>2 DEF JobConsistent, RetriesLeft
<1>6. \A j \in Invoices : payments[j].status # "absent" => payments[j].order # o
  BY <1>1, <1>2 DEF InvoiceAwaited
<1>7. (Verified(o)' <=> Verified(o)) /\ SettledOnce' /\ \A p \in Orders \ {o} : journal'[p] = journal[p]
  BY <1>0, <1>1, <1>2, AddEventHappens, OnceKept, AddEventEffect DEF Verified, EventType
<1>8. SettledWhole(o)'
  <2>1. ~Verified(o) BY <1>2, <1>4 DEF SettledWhole
  <2>2. \A j \in Invoices : payments'[j] # [status |-> "paid", order |-> o]
    <3>1. \A j \in Invoices \ {i} : payments'[j] # [status |-> "paid", order |-> o]
      BY <1>3, <1>6
    <3>2. payments'[i].status # "paid" BY <1>3
    <3>. QED BY <3>1, <3>2
  <2>. QED BY <1>1, <1>4, <1>7, <2>1, <2>2 DEF SettledWhole
<1>9. JobOnceSettled(o)' BY <1>1, <1>3, <1>4 DEF JobOnceSettled
<1>10. \A j \in Invoices : payments'[j].order = o => InvoiceAwaited(j)' BY <1>3 DEF InvoiceAwaited
<1>11. OneInvoiceEach'
  <2>1. \A j \in Invoices \ {i} : payments'[j].status # "absent" => payments'[j].order # o BY <1>3, <1>6
  <2>. QED BY <1>2, <1>3, <2>1 DEF OneInvoiceEach
<1>12. \A j \in Invoices :
          \/ payments'[j] = payments[j]
          \/ /\ payments'[j].status # "absent" /\ payments'[j].order = o
             /\ payments[j].status # "absent" => payments[j].order = o
  BY <1>1, <1>3
<1>13. orders'[o].status # "absent" => orders'[o].amount \in Amounts BY <1>2, <1>3
<1>14. \A p \in Orders \ {o} : orders'[p] = orders[p] /\ jobs'[p] = jobs[p] /\ journal'[p] = journal[p]
  BY <1>1, <1>3, <1>7
<1>. QED BY <1>0, <1>5, <1>7, <1>8, <1>9, <1>10, <1>11, <1>12, <1>13, <1>14, OneOrderAgrees

(* mark_payment_creation_failed: an order closed here has no payment.      *)
LEMMA MarkCreationFailedAgrees ==
  ASSUME BooksInv, NEW o \in Orders, MarkCreationFailed(o)
  PROVE  BooksInv'
<1>0. StoreTypeOK /\ StoreTypeOK' BY MarkCreationFailedType DEF BooksInv
<1>1. /\ AddEvent(o, "payment.invoice_creation_failed") /\ UNCHANGED <<payments, jobs, recorded>>
      /\ \/ orders[o].status = "payment_creating" /\ orders' = [orders EXCEPT ![o].status = "failed"]
         \/ orders[o].status # "payment_creating" /\ UNCHANGED orders
  BY DEF MarkCreationFailed, SetStatus
<1>2. /\ JobConsistent(o) /\ JobOnceSettled(o)
      /\ orders \in [Orders -> OrderRow]
  BY BooksAboutOrder
<1>3. JobConsistent(o)' BY <1>1, <1>2 DEF JobConsistent, RetriesLeft
<1>4. CASE orders[o].status = "payment_creating" /\ orders' = [orders EXCEPT ![o].status = "failed"]
  <2>1. /\ orders'[o].status = "failed" /\ orders'[o].amount = orders[o].amount
        /\ \A p \in Orders \ {o} : orders'[p] = orders[p]
    BY <1>2, <1>4 DEF OrderRow
  <2>2. JobOnceSettled(o)' BY <1>1, <1>2, <1>4, <2>1 DEF JobOnceSettled
  <2>. QED BY <1>0, <1>1, <1>3, <1>4, <2>1, <2>2, UnpaidAgrees DEF EventType
<1>5. CASE orders[o].status # "payment_creating" /\ UNCHANGED orders
  <2>1. JobOnceSettled(o)' BY <1>1, <1>2, <1>5 DEF JobOnceSettled
  <2>. QED BY <1>0, <1>1, <1>2, <1>3, <1>5, <2>1, UnpaidAgrees DEF EventType
<1>. QED BY <1>1, <1>4, <1>5

(* settle_aban_payment: the first settlement, in all four tables.          *)
LEMMA SettlePaymentAgrees ==
  ASSUME BooksInv, NEW i \in Invoices, payments[i].status # "absent",
         Settleable(payments[i].order), SettlePayment(i)
  PROVE  BooksInv'
<1>0. StoreTypeOK /\ StoreTypeOK' BY SettlePaymentType DEF BooksInv
<1>1. PICK o \in Orders : o = payments[i].order BY <1>0 DEF StoreTypeOK, PaymentRow
<1>2. /\ payments' = [payments EXCEPT ![i].status = "paid"]
      /\ orders' = [orders EXCEPT ![o].status = "paid"]
      /\ jobs' = [jobs EXCEPT ![o] = IF @.status = "absent" THEN QueuedJob ELSE @]
      /\ AddEvent(o, "payment.verified") /\ UNCHANGED recorded
      /\ orders[o].status = "awaiting_payment"
  BY <1>1 DEF SettlePayment, SetStatus, Settleable
<1>3. /\ JobConsistent(o) /\ SettledWhole(o) /\ orders[o].amount \in Amounts
      /\ JobOnceSettled(o)
      /\ orders \in [Orders -> OrderRow] /\ payments \in [Invoices -> PaymentRow]
      /\ jobs \in [Orders -> JobRow]
      /\ SettledOnce /\ OneInvoiceEach
  BY <1>2, BooksAboutOrder
<1>4. jobs[o].status = "absent" BY <1>2, <1>3 DEF JobOnceSettled
<1>5. /\ orders'[o].status = "paid" /\ orders'[o].amount = orders[o].amount
      /\ \A p \in Orders \ {o} : orders'[p] = orders[p] /\ jobs'[p] = jobs[p]
      /\ jobs'[o] = QueuedJob
      /\ payments'[i].status = "paid" /\ payments'[i].order = o
      /\ \A j \in Invoices \ {i} : payments'[j] = payments[j]
  BY <1>1, <1>2, <1>3, <1>4 DEF OrderRow
<1>6. payments'[i] = [status |-> "paid", order |-> o]
  <2>1. payments'[i] = [payments[i] EXCEPT !.status = "paid"] BY <1>2, <1>3
  <2>2. payments[i] \in [status : {"created", "paid"}, order : Orders] BY <1>3 DEF PaymentRow
  <2>. QED BY <1>1, <2>1, <2>2
<1>7. ~Verified(o) BY <1>3, <1>4 DEF SettledWhole
<1>8. Verified(o)' /\ SettledOnce' /\ \A p \in Orders \ {o} : journal'[p] = journal[p]
  BY <1>0, <1>2, <1>3, <1>7, AddEventHappens, OnceKept, AddEventEffect DEF Verified, EventType
<1>9. SettledWhole(o)' BY <1>5, <1>6, <1>8 DEF SettledWhole, QueuedJob
<1>10. JobConsistent(o)' BY <1>5 DEF JobConsistent, QueuedJob, MaxAttempts, RetriesLeft
<1>11. JobOnceSettled(o)' BY <1>5 DEF QueuedJob, JobOnceSettled
<1>12. \A j \in Invoices : payments'[j].order = o => InvoiceAwaited(j)'
  BY <1>5 DEF InvoiceAwaited
<1>13. OneInvoiceEach'
  <2>1. \A j \in Invoices : payments'[j].order = payments[j].order
                            /\ (payments'[j].status # "absent" <=> payments[j].status # "absent")
    BY <1>1, <1>5
  <2>. QED BY <1>3, <2>1 DEF OneInvoiceEach
<1>14. \A j \in Invoices :
          \/ payments'[j] = payments[j]
          \/ /\ payments'[j].status # "absent" /\ payments'[j].order = o
             /\ payments[j].status # "absent" => payments[j].order = o
  BY <1>1, <1>5
<1>15. orders'[o].status # "absent" => orders'[o].amount \in Amounts BY <1>3, <1>5
<1>16. \A p \in Orders \ {o} : orders'[p] = orders[p] /\ jobs'[p] = jobs[p] /\ journal'[p] = journal[p]
  BY <1>5, <1>8
<1>. QED BY <1>0, <1>8, <1>9, <1>10, <1>11, <1>12, <1>13, <1>14, <1>15, <1>16, OneOrderAgrees

(* claim_next_fulfillment_job: both statuses go to processing.             *)
LEMMA ClaimJobAgrees ==
  ASSUME BooksInv, NEW o \in Orders, NEW w \in Workers, ClaimJob(o, w)
  PROVE  BooksInv'
<1>0. StoreTypeOK' BY ClaimJobType DEF BooksInv
<1>1. /\ JobConsistent(o) /\ JobOnceSettled(o)
      /\ orders \in [Orders -> OrderRow] /\ jobs \in [Orders -> JobRow]
  BY BooksAboutOrder
<1>2. /\ jobs[o].status \in {"queued", "retryable_failure"}
      /\ jobs' = [jobs EXCEPT ![o] = [status |-> "processing", attempts |-> @.attempts + 1,
                                      due |-> @.due, lease |-> "fresh", owner |-> w]]
      /\ IF orders[o].status = "paid" THEN SetStatus(o, "fulfillment_processing") ELSE UNCHANGED orders
      /\ UNCHANGED <<payments, journal, recorded>>
  BY DEF ClaimJob, Claimable, TakeJob
<1>3. /\ jobs'[o].status = "processing" /\ jobs'[o].attempts = jobs[o].attempts + 1
      /\ \A p \in Orders \ {o} : jobs'[p] = jobs[p]
  BY <1>1, <1>2
<1>4. /\ orders'[o].status \in {orders[o].status, "fulfillment_processing"}
      /\ orders'[o].amount = orders[o].amount
      /\ \A p \in Orders \ {o} : orders'[p] = orders[p]
      /\ orders[o].status \in {"paid", "fulfillment_processing", "fulfilled", "requires_review", "failed"}
  BY <1>1, <1>2 DEF JobOnceSettled, SetStatus, OrderRow
<1>5. jobs[o].attempts \in Nat /\ jobs[o].attempts < MaxAttempts
  BY <1>1, <1>2 DEF JobConsistent, RetriesLeft, JobRow, MaxAttempts
<1>6. JobConsistent(o)' BY <1>3, <1>5 DEF JobConsistent, MaxAttempts
<1>7. JobOnceSettled(o)' BY <1>3, <1>4 DEF JobOnceSettled
<1>. QED BY <1>0, <1>2, <1>3, <1>4, <1>6, <1>7, UnpaidAgrees DEF EventType

(* finish_fulfillment_job, whatever the job's status and owner: the two    *)
(* statuses go to what the result is filed as.                             *)
LEMMA FinishJobAgrees ==
  ASSUME BooksInv, NEW o \in Orders, NEW result \in FulfillmentResult, jobs[o].attempts > 0,
         FinishJob(o, result)
  PROVE  BooksInv'
<1>0. StoreTypeOK' BY FinishJobType DEF BooksInv
<1>. DEFINE n == jobs[o].attempts
            f == Filing(result, n)
<1>1. /\ JobConsistent(o) /\ JobOnceSettled(o)
      /\ orders \in [Orders -> OrderRow] /\ jobs \in [Orders -> JobRow]
  BY BooksAboutOrder
<1>2. n \in Nat BY <1>1 DEF JobRow
<1>3. /\ f.job \in {"succeeded", "manual_review", "failed", "retryable_failure"}
      /\ f.job = "retryable_failure" => RetriesLeft(n)
      /\ f.job # "retryable_failure" => f.order \in {"fulfilled", "requires_review", "failed"}
  BY <1>2, FilingAgrees DEF JobWithOrder
<1>4. f.event \in EventType /\ f.event # "payment.verified"
  BY DEF Filing, FulfillmentResult, Exhausted, EventType
<1>5. /\ jobs' = [jobs EXCEPT ![o] = [status |-> f.job, attempts |-> @.attempts,
                      due |-> @.due /\ ~(f.job = "retryable_failure"), lease |-> "none", owner |-> NULL]]
      /\ IF f.job # "retryable_failure" THEN SetStatus(o, f.order) ELSE UNCHANGED orders
      /\ AddEvent(o, f.event) /\ UNCHANGED <<payments, recorded>>
  BY DEF FinishJob, FileJob, UpdatesOrder
<1>. HIDE DEF f
<1>6. /\ jobs'[o].status = f.job /\ jobs'[o].attempts = n
      /\ jobs'[o].lease = "none" /\ jobs'[o].owner = NULL
      /\ \A p \in Orders \ {o} : jobs'[p] = jobs[p]
  BY <1>1, <1>5
<1>7. /\ jobs[o].status # "absent"
      /\ orders[o].status \in {"paid", "fulfillment_processing", "fulfilled", "requires_review", "failed"}
  BY <1>1 DEF JobConsistent, JobOnceSettled
<1>8. /\ orders'[o].amount = orders[o].amount
      /\ orders'[o].status = IF f.job # "retryable_failure" THEN f.order ELSE orders[o].status
      /\ \A p \in Orders \ {o} : orders'[p] = orders[p]
  BY <1>1, <1>5, <1>7 DEF SetStatus, OrderRow
<1>9. JobOnceSettled(o)' BY <1>3, <1>6, <1>7, <1>8 DEF JobOnceSettled
<1>10. JobConsistent(o)'
  <2>1. n > 0 /\ n <= MaxAttempts BY <1>1 DEF JobConsistent
  <2>. QED BY <1>3, <1>6, <2>1 DEF JobConsistent, RetriesLeft
<1>11. orders'[o].status \notin {"absent", "payment_creating"}
  BY <1>3, <1>7, <1>8
<1>. QED BY <1>0, <1>3, <1>4, <1>5, <1>6, <1>7, <1>8, <1>9, <1>10, <1>11, UnpaidAgrees

(* Time changes neither a status nor an attempt.                           *)
LEMMA TimeAgrees ==
  ASSUME BooksInv, NEW o \in Orders, BackoffElapses(o) \/ LeaseAges(o)
  PROVE  BooksInv'
<1>0. StoreTypeOK' BY TimeType DEF BooksInv
<1>1. /\ JobConsistent(o) /\ JobOnceSettled(o)
      /\ jobs \in [Orders -> JobRow]
  BY BooksAboutOrder
<1>2. UNCHANGED <<orders, payments, journal, recorded>> BY DEF BackoffElapses, LeaseAges
<1>3. /\ jobs'[o].status = jobs[o].status /\ jobs'[o].attempts = jobs[o].attempts
      /\ jobs'[o].owner = jobs[o].owner /\ (jobs[o].lease = "none" => jobs'[o].lease = "none")
      /\ \A p \in Orders \ {o} : jobs'[p] = jobs[p]
  <2>1. CASE BackoffElapses(o) BY <1>1, <2>1 DEF BackoffElapses, JobRow
  <2>2. CASE LeaseAges(o) BY <1>1, <2>2 DEF LeaseAges, JobRow
  <2>. QED BY <2>1, <2>2
<1>4. JobConsistent(o)' BY <1>1, <1>3 DEF JobConsistent, RetriesLeft
<1>5. JobOnceSettled(o)' BY <1>1, <1>2, <1>3 DEF JobOnceSettled
<1>6. orders'[o].status = "failed" =>
         orders[o].status \in {"failed", "payment_creating"} \/ jobs'[o].status # "absent"
  BY <1>2
<1>7. orders[o].status \in {"absent", "payment_creating"} \/ orders'[o].status # "payment_creating" BY <1>2
<1>. QED BY <1>0, <1>2, <1>3, <1>4, <1>5, <1>6, <1>7, UnpaidAgrees DEF EventType

(* All that may become of the tables, with any callers.                    *)
LEMMA CarelessChangeAgrees ==
  ASSUME BooksInv, [CarelessChange]_storeVars
  PROVE  BooksInv'
<1>1. ASSUME NEW d \in Deliveries, RecordDelivery(d) PROVE BooksInv'
  <2>1. StoreTypeOK' BY <1>1 DEF BooksInv, StoreTypeOK, RecordDelivery
  <2>2. UNCHANGED <<orders, payments, jobs, journal>> BY <1>1 DEF RecordDelivery
  <2>. QED BY <2>1, <2>2 DEF BooksInv, BooksAgree, JobConsistent, RetriesLeft, SettledWhole, Verified,
                             Happened, InvoiceAwaited, JobOnceSettled, SettledOnce, OneInvoiceEach
<1>2. ASSUME UNCHANGED storeVars PROVE BooksInv'
  BY <1>2 DEF storeVars, BooksInv, StoreTypeOK, BooksAgree, JobConsistent, RetriesLeft, SettledWhole,
              Verified, Happened, InvoiceAwaited, JobOnceSettled, SettledOnce, OneInvoiceEach
<1>3. ASSUME NEW i \in Invoices, NEW a \in Amounts, VerificationAccepted(i, TRUE, a),
             Settleable(payments[i].order), SettlePayment(i)
      PROVE  BooksInv'
  BY <1>3, SettlePaymentAgrees DEF VerificationAccepted
<1>4. ASSUME NEW o \in Orders, NEW result \in FulfillmentResult, jobs[o].status = "processing",
             FinishJob(o, result)
      PROVE  BooksInv'
  <2>1. jobs[o].attempts > 0 BY <1>4, BooksAboutOrder DEF JobConsistent
  <2>. QED BY <1>4, <2>1, FinishJobAgrees
<1>. QED BY <1>1, <1>2, <1>3, <1>4, InsertOrderAgrees, RegisterInvoiceAgrees, MarkCreationFailedAgrees,
            ClaimJobAgrees, FinishJobAgrees, TimeAgrees DEF CarelessChange, StoreChange

(* Empty tables agree.                                                     *)
LEMMA StoreInitAgrees == StoreInit => TableInv
  BY EmptySeq DEF StoreInit, TableInv, StoreTypeOK, TablesAgree, JobConsistent, SettledWhole, Verified,
     Happened, InvoiceAwaited, OrderFollowsJob, JobWithOrder, SettledOnce, OneInvoiceEach, NoOrder,
     NoPayment, NoJob, OrderRow, PaymentRow, JobRow, MaxAttempts

(* What TableInv says beyond BooksInv is that statuses belong together.    *)
LEMMA BooksAndStatuses == TableInv <=> BooksInv /\ OrderFollowsJob
<1>1. ASSUME NEW o \in Orders, <<jobs[o].status, orders[o].status>> \in JobWithOrder
      PROVE  JobOnceSettled(o)
  BY <1>1 DEF JobWithOrder, JobOnceSettled
<1>. QED BY <1>1 DEF TableInv, TablesAgree, BooksInv, BooksAgree, OrderFollowsJob

(* Any number of careless callers: a settlement stays one settlement, of   *)
(* one payment and with one job, and no job is tried a fourth time.        *)
THEOREM BooksAlwaysAgree == CarelessSpec => []BooksInv
<1>1. StoreInit => BooksInv BY StoreInitAgrees, BooksAndStatuses
<1>2. BooksInv /\ [CarelessChange]_storeVars => BooksInv' BY CarelessChangeAgrees
<1>. QED BY <1>1, <1>2, PTL DEF CarelessSpec

(* What happened stays so: nothing but add_event writes to a journal.      *)
LEMMA JournalOnlyGrows ==
  ASSUME BooksInv, [CarelessChange]_storeVars, NEW o \in Orders, Verified(o)
  PROVE  Verified(o)'
<1>0. StoreTypeOK BY DEF BooksInv
<1>1. ASSUME UNCHANGED journal PROVE Verified(o)' BY <1>1 DEF Verified, Happened
<1>2. ASSUME NEW p \in Orders, NEW e \in EventType, AddEvent(p, e) PROVE Verified(o)'
  BY <1>0, <1>2, AddEventHappens DEF Verified
<1>3. ASSUME NEW i \in Invoices, NEW a \in Amounts, VerificationAccepted(i, TRUE, a), SettlePayment(i)
      PROVE  Verified(o)'
  <2>1. payments[i].order \in Orders BY <1>0, <1>3 DEF VerificationAccepted, StoreTypeOK, PaymentRow
  <2>. QED BY <1>2, <1>3, <2>1 DEF SettlePayment, EventType
<1>4. ASSUME NEW p \in Orders, NEW result \in FulfillmentResult, FinishJob(p, result) PROVE Verified(o)'
  <2>1. Filing(result, jobs[p].attempts).event \in EventType
    BY DEF Filing, FulfillmentResult, Exhausted, EventType
  <2>. QED BY <1>2, <1>4, <2>1 DEF FinishJob, FileJob
<1>. QED BY <1>1, <1>2, <1>3, <1>4
         DEF CarelessChange, StoreChange, InsertOrder, RegisterInvoice, MarkCreationFailed, RecordDelivery,
             ClaimJob, TakeJob, BackoffElapses, LeaseAges, EventType, storeVars

(* An attempt is never given back, and no job but a new one is queued.     *)
LEMMA AttemptsOnlyGrow ==
  ASSUME BooksInv, [CarelessChange]_storeVars, NEW o \in Orders
  PROVE  /\ jobs'[o].attempts >= jobs[o].attempts
         /\ jobs'[o].status = "queued" => jobs[o].status \in {"absent", "queued"}
<1>. DEFINE Goal == /\ jobs'[o].attempts >= jobs[o].attempts
                    /\ jobs'[o].status = "queued" => jobs[o].status \in {"absent", "queued"}
<1>0. /\ jobs \in [Orders -> JobRow] /\ \A p \in Orders : jobs[p].attempts \in Nat
      /\ \A p \in Orders : JobConsistent(p)
  BY DEF BooksInv, BooksAgree, StoreTypeOK, JobRow
<1>1. ASSUME UNCHANGED jobs PROVE Goal BY <1>0, <1>1
<1>2. ASSUME NEW p \in Orders, NEW job, jobs' = [jobs EXCEPT ![p] = job], job.attempts \in Nat,
             job.attempts >= jobs[p].attempts,
             job.status = "queued" => jobs[p].status \in {"absent", "queued"}
      PROVE  Goal
  BY <1>0, <1>2
<1>3. ASSUME NEW i \in Invoices, NEW a \in Amounts, VerificationAccepted(i, TRUE, a), SettlePayment(i)
      PROVE  Goal
  <2>1. PICK p \in Orders : p = payments[i].order
    BY <1>3 DEF BooksInv, StoreTypeOK, PaymentRow, VerificationAccepted
  <2>2. jobs' = [jobs EXCEPT ![p] = IF @.status = "absent" THEN QueuedJob ELSE @]
    BY <1>3, <2>1 DEF SettlePayment
  <2>3. jobs[p].status = "absent" => jobs[p].attempts = 0 BY <1>0 DEF JobConsistent
  <2>. QED BY <1>0, <1>2, <2>2, <2>3 DEF QueuedJob
<1>4. ASSUME NEW p \in Orders, NEW w \in Workers, ClaimJob(p, w) PROVE Goal
  <2>1. PICK job : job = [status |-> "processing", attempts |-> jobs[p].attempts + 1,
                          due |-> jobs[p].due, lease |-> "fresh", owner |-> w]
    OBVIOUS
  <2>2. jobs' = [jobs EXCEPT ![p] = job] BY <1>0, <1>4, <2>1 DEF ClaimJob, TakeJob
  <2>. QED BY <1>0, <1>2, <2>1, <2>2
<1>5. ASSUME NEW p \in Orders, NEW result \in FulfillmentResult, FinishJob(p, result) PROVE Goal
  <2>1. PICK f : f = Filing(result, jobs[p].attempts) OBVIOUS
  <2>2. f.job \in {"succeeded", "manual_review", "failed", "retryable_failure"}
    BY <1>0, <2>1, FilingAgrees
  <2>3. PICK job : job = [status |-> f.job, attempts |-> jobs[p].attempts,
                          due |-> jobs[p].due /\ ~(f.job = "retryable_failure"),
                          lease |-> "none", owner |-> NULL]
    OBVIOUS
  <2>4. jobs' = [jobs EXCEPT ![p] = job] BY <1>0, <1>5, <2>1, <2>3 DEF FinishJob, FileJob
  <2>. QED BY <1>0, <1>2, <2>2, <2>3, <2>4
<1>6. ASSUME NEW p \in Orders, BackoffElapses(p) \/ LeaseAges(p) PROVE Goal
  <2>1. jobs'[o].status = jobs[o].status /\ jobs'[o].attempts = jobs[o].attempts
    BY <1>0, <1>6 DEF BackoffElapses, LeaseAges, JobRow
  <2>. QED BY <1>0, <2>1
<1>. QED BY <1>1, <1>3, <1>4, <1>5, <1>6
         DEF CarelessChange, StoreChange, InsertOrder, RegisterInvoice, MarkCreationFailed, RecordDelivery,
             storeVars

(* An order is paid by a settlement only, and none is settled that did not *)
(* wait for it.                                                            *)
LEMMA PaidBySettling ==
  ASSUME BooksInv, [CarelessChange]_storeVars, NEW o \in Orders, orders'[o].status = "paid"
  PROVE  orders[o].status \in {"awaiting_payment", "paid"}
<1>0. orders \in [Orders -> OrderRow] BY DEF BooksInv, StoreTypeOK
<1>1. ASSUME UNCHANGED orders PROVE orders[o].status = "paid" BY <1>1
<1>2. ASSUME NEW p \in Orders, NEW s, SetStatus(p, s), s # "paid" PROVE orders[o].status = "paid"
  BY <1>0, <1>2 DEF SetStatus, OrderRow
<1>3. ASSUME NEW p \in Orders, NEW a \in Amounts, InsertOrder(p, a) PROVE orders[o].status = "paid"
  BY <1>0, <1>3 DEF InsertOrder
<1>4. ASSUME NEW i \in Invoices, Settleable(payments[i].order), SettlePayment(i)
      PROVE  orders[o].status \in {"awaiting_payment", "paid"}
  BY <1>0, <1>4 DEF SettlePayment, Settleable, SetStatus
<1>5. ASSUME NEW p \in Orders, NEW result \in FulfillmentResult, FinishJob(p, result)
      PROVE  orders[o].status = "paid"
  <2>1. PICK f : f = Filing(result, jobs[p].attempts) OBVIOUS
  <2>2. f.job # "retryable_failure" => f.order # "paid"
    BY <2>1 DEF Filing, FulfillmentResult, Exhausted
  <2>3. IF f.job # "retryable_failure" THEN SetStatus(p, f.order) ELSE UNCHANGED orders
    BY <1>5, <2>1 DEF FinishJob, FileJob, UpdatesOrder
  <2>. QED BY <1>1, <1>2, <2>2, <2>3
<1>6. ASSUME NEW p \in Orders, NEW w \in Workers, ClaimJob(p, w) PROVE orders[o].status = "paid"
  BY <1>1, <1>2, <1>6 DEF ClaimJob, TakeJob
<1>7. ASSUME NEW p \in Orders, MarkCreationFailed(p) PROVE orders[o].status = "paid"
  BY <1>1, <1>2, <1>7 DEF MarkCreationFailed
<1>. QED BY <1>1, <1>2, <1>3, <1>4, <1>5, <1>6, <1>7
         DEF CarelessChange, StoreChange, RegisterInvoice, RecordDelivery, BackoffElapses, LeaseAges, storeVars

(* Any number of careless callers: what was settled stays settled, with    *)
(* its job, and attempts are used up for good.                             *)
THEOREM SettlementsStand == CarelessSpec => [][NothingUndone]_storeVars
<1>1. BooksInv /\ [CarelessChange]_storeVars => [NothingUndone]_storeVars
  <2>. SUFFICES ASSUME BooksInv, [CarelessChange]_storeVars PROVE NothingUndone OBVIOUS
  <2>1. BooksInv' BY CarelessChangeAgrees
  <2>2. ASSUME NEW o \in Orders, Verified(o) PROVE Verified(o)' /\ jobs'[o].status # "absent"
    <3>1. Verified(o)' BY <2>2, JournalOnlyGrows
    <3>. QED BY <2>1, <3>1 DEF BooksInv, BooksAgree, SettledWhole
  <2>. QED BY <2>2, AttemptsOnlyGrow, PaidBySettling DEF NothingUndone
<1>. QED BY <1>1, BooksAlwaysAgree, PTL DEF CarelessSpec

(* Time and other orders' transactions leave an order's two statuses       *)
(* alone.                                                                  *)
LEMMA StatusesFollow ==
  ASSUME TableInv, NEW o \in Orders,
         \A p \in Orders \ {o} : jobs'[p].status = jobs[p].status /\ orders'[p].status = orders[p].status,
         <<jobs'[o].status, orders'[o].status>> \in JobWithOrder
  PROVE  OrderFollowsJob'
  BY DEF TableInv, TablesAgree, OrderFollowsJob

(* With callers that finish what is in processing, an order's status and   *)
(* its job's go together through every transaction.                        *)
LEMMA StatusesAgree ==
  ASSUME TableInv, [StoreChange]_storeVars
  PROVE  OrderFollowsJob'
<1>0. /\ orders \in [Orders -> OrderRow] /\ jobs \in [Orders -> JobRow]
      /\ \A o \in Orders : <<jobs[o].status, orders[o].status>> \in JobWithOrder
      /\ \A i \in Invoices : payments[i].status # "absent" => payments[i].order \in Orders
  BY DEF TableInv, StoreTypeOK, TablesAgree, OrderFollowsJob, PaymentRow
<1>1. ASSUME NEW o \in Orders, NEW s, SetStatus(o, s)
      PROVE  orders'[o].status = s /\ \A p \in Orders \ {o} : orders'[p] = orders[p]
  BY <1>0, <1>1 DEF SetStatus, OrderRow
<1>2. ASSUME NEW o \in Orders, NEW a \in Amounts, InsertOrder(o, a) PROVE OrderFollowsJob'
  <2>1. /\ orders'[o].status = "payment_creating" /\ jobs' = jobs /\ jobs[o].status = "absent"
        /\ \A p \in Orders \ {o} : orders'[p] = orders[p]
    BY <1>0, <1>2 DEF InsertOrder, JobWithOrder
  <2>. QED BY <2>1, StatusesFollow DEF JobWithOrder
<1>3. ASSUME NEW o \in Orders, NEW i \in Invoices, CanRegister(o, i, orders[o].amount), RegisterInvoice(o, i)
      PROVE  OrderFollowsJob'
  <2>1. /\ orders'[o].status = "awaiting_payment" /\ jobs' = jobs /\ jobs[o].status = "absent"
        /\ \A p \in Orders \ {o} : orders'[p] = orders[p]
    BY <1>0, <1>1, <1>3 DEF CanRegister, RegisterInvoice, JobWithOrder
  <2>. QED BY <2>1, StatusesFollow DEF JobWithOrder
<1>4. ASSUME NEW o \in Orders, MarkCreationFailed(o) PROVE OrderFollowsJob'
  <2>1. CASE orders[o].status = "payment_creating"
    <3>1. /\ orders'[o].status = "failed" /\ jobs' = jobs /\ jobs[o].status = "absent"
          /\ \A p \in Orders \ {o} : orders'[p] = orders[p]
      BY <1>0, <1>1, <1>4, <2>1 DEF MarkCreationFailed, JobWithOrder
    <3>. QED BY <3>1, StatusesFollow DEF JobWithOrder
  <2>2. CASE orders[o].status # "payment_creating"
    <3>1. orders' = orders /\ jobs' = jobs BY <1>4, <2>2 DEF MarkCreationFailed
    <3>. QED BY <1>0, <3>1 DEF OrderFollowsJob
  <2>. QED BY <2>1, <2>2
<1>5. ASSUME NEW i \in Invoices, NEW a \in Amounts, VerificationAccepted(i, TRUE, a),
             Settleable(payments[i].order), SettlePayment(i)
      PROVE  OrderFollowsJob'
  <2>1. PICK o \in Orders : o = payments[i].order BY <1>0, <1>5 DEF VerificationAccepted
  <2>2. /\ orders'[o].status = "paid" /\ jobs[o].status = "absent"
        /\ \A p \in Orders \ {o} : orders'[p] = orders[p]
    BY <1>0, <1>1, <1>5, <2>1 DEF SettlePayment, Settleable, JobWithOrder
  <2>3. jobs'[o] = QueuedJob /\ \A p \in Orders \ {o} : jobs'[p] = jobs[p]
    BY <1>0, <1>5, <2>1, <2>2 DEF SettlePayment
  <2>. QED BY <2>2, <2>3, StatusesFollow DEF JobWithOrder, QueuedJob
<1>6. ASSUME NEW o \in Orders, NEW w \in Workers, ClaimJob(o, w) PROVE OrderFollowsJob'
  <2>1. orders[o].status \in {"paid", "fulfillment_processing"}
    BY <1>0, <1>6 DEF ClaimJob, Claimable, JobWithOrder
  <2>2. /\ orders'[o].status = "fulfillment_processing"
        /\ \A p \in Orders \ {o} : orders'[p] = orders[p]
    BY <1>1, <1>6, <2>1 DEF ClaimJob, TakeJob
  <2>3. jobs'[o].status = "processing" /\ \A p \in Orders \ {o} : jobs'[p] = jobs[p]
    BY <1>0, <1>6 DEF ClaimJob, TakeJob
  <2>. QED BY <2>2, <2>3, StatusesFollow DEF JobWithOrder
<1>7. ASSUME NEW o \in Orders, NEW result \in FulfillmentResult, jobs[o].status = "processing",
             FinishJob(o, result)
      PROVE  OrderFollowsJob'
  <2>. DEFINE f == Filing(result, jobs[o].attempts)
  <2>1. jobs[o].attempts \in Nat /\ orders[o].status = "fulfillment_processing"
    BY <1>0, <1>7 DEF JobRow, JobWithOrder
  <2>2. f.job # "retryable_failure" => <<f.job, f.order>> \in JobWithOrder BY <2>1, FilingAgrees
  <2>3. /\ IF f.job # "retryable_failure" THEN SetStatus(o, f.order) ELSE UNCHANGED orders
        /\ jobs'[o].status = f.job /\ \A p \in Orders \ {o} : jobs'[p] = jobs[p]
    BY <1>0, <1>7 DEF FinishJob, FileJob, UpdatesOrder
  <2>. HIDE DEF f
  <2>4. /\ orders'[o].status = IF f.job # "retryable_failure" THEN f.order ELSE "fulfillment_processing"
        /\ \A p \in Orders \ {o} : orders'[p] = orders[p]
    BY <1>1, <2>1, <2>3
  <2>. QED BY <2>2, <2>3, <2>4, StatusesFollow DEF JobWithOrder
<1>8. ASSUME NEW o \in Orders, BackoffElapses(o) \/ LeaseAges(o) PROVE OrderFollowsJob'
  <2>1. orders' = orders /\ \A p \in Orders : jobs'[p].status = jobs[p].status
    BY <1>0, <1>8 DEF BackoffElapses, LeaseAges, JobRow
  <2>. QED BY <1>0, <2>1 DEF OrderFollowsJob
<1>9. ASSUME UNCHANGED <<orders, jobs>> PROVE OrderFollowsJob' BY <1>0, <1>9 DEF OrderFollowsJob
<1>. QED BY <1>2, <1>3, <1>4, <1>5, <1>6, <1>7, <1>8, <1>9 DEF StoreChange, RecordDelivery, storeVars

(* All that may become of the tables, with callers that finish what is in  *)
(* processing.                                                             *)
LEMMA StoreChangeAgrees ==
  ASSUME TableInv, [StoreChange]_storeVars
  PROVE  TableInv'
<1>1. BooksInv' BY BooksAndStatuses, CarelessChangeAgrees DEF CarelessChange
<1>2. OrderFollowsJob' BY StatusesAgree
<1>. QED BY <1>1, <1>2 DEF TableInv, TablesAgree, BooksInv, BooksAgree

(* For any number of orders, payments, deliveries and workers, the five    *)
(* tables agree, as long as jobs are finished only while in processing:    *)
(* QueueProofs shows that the workers see to that.                         *)
LEMMA TablesAlwaysAgree == StoreSpec => []TableInv
<1>1. StoreInit => TableInv BY StoreInitAgrees
<1>2. TableInv /\ [StoreChange]_storeVars => TableInv' BY StoreChangeAgrees
<1>. QED BY <1>1, <1>2, PTL DEF StoreSpec

-----------------------------------------------------------------------------
(* What the transactions never do.                                         *)

(* An order moves along the chain of docs/architecture.md:24 or leaves it  *)
(* for failed or requires_review.                                          *)
LEMMA StoreMovesAlong ==
  ASSUME TableInv, [StoreChange]_storeVars
  PROVE  MovesAlong
<1>0. orders \in [Orders -> OrderRow] BY DEF TableInv, StoreTypeOK
<1>1. ASSUME NEW o \in Orders, NEW s, SetStatus(o, s), <<orders[o].status, s>> \in ChainLinks
      PROVE  MovesAlong
  BY <1>0, <1>1 DEF SetStatus, MovesAlong, OrderRow
<1>2. ASSUME UNCHANGED orders PROVE MovesAlong BY <1>2 DEF MovesAlong
<1>3. ASSUME NEW o \in Orders, NEW a \in Amounts, InsertOrder(o, a) PROVE MovesAlong
  BY <1>0, <1>3 DEF InsertOrder, MovesAlong, ChainLinks
<1>4. ASSUME NEW o \in Orders, NEW i \in Invoices, CanRegister(o, i, orders[o].amount), RegisterInvoice(o, i)
      PROVE  MovesAlong
  BY <1>1, <1>4 DEF CanRegister, RegisterInvoice, ChainLinks
<1>5. ASSUME NEW o \in Orders, MarkCreationFailed(o) PROVE MovesAlong
  BY <1>1, <1>2, <1>5 DEF MarkCreationFailed, ChainLinks
<1>6. ASSUME NEW i \in Invoices, NEW a \in Amounts, VerificationAccepted(i, TRUE, a),
             Settleable(payments[i].order), SettlePayment(i)
      PROVE  MovesAlong
  <2>1. payments[i].order \in Orders
    BY <1>6 DEF TableInv, StoreTypeOK, PaymentRow, VerificationAccepted
  <2>. QED BY <1>1, <1>6, <2>1 DEF SettlePayment, Settleable, ChainLinks
<1>7. ASSUME NEW o \in Orders, NEW w \in Workers, ClaimJob(o, w) PROVE MovesAlong
  BY <1>1, <1>2, <1>7 DEF ClaimJob, TakeJob, ChainLinks
<1>8. ASSUME NEW o \in Orders, NEW result \in FulfillmentResult, jobs[o].status = "processing",
             FinishJob(o, result)
      PROVE  MovesAlong
  <2>. DEFINE f == Filing(result, jobs[o].attempts)
  <2>1. jobs[o].attempts \in Nat /\ orders[o].status = "fulfillment_processing"
    BY <1>8 DEF TableInv, TablesAgree, StoreTypeOK, OrderFollowsJob, JobRow, JobWithOrder
  <2>2. f.job # "retryable_failure" => <<orders[o].status, f.order>> \in ChainLinks
    BY <2>1, FilingAgrees DEF JobWithOrder, ChainLinks
  <2>3. IF f.job # "retryable_failure" THEN SetStatus(o, f.order) ELSE UNCHANGED orders
    BY <1>8 DEF FinishJob, FileJob, UpdatesOrder
  <2>. HIDE DEF f
  <2>. QED BY <1>1, <1>2, <2>2, <2>3
<1>9. ASSUME NEW o \in Orders, BackoffElapses(o) \/ LeaseAges(o) PROVE MovesAlong
  BY <1>2, <1>9 DEF BackoffElapses, LeaseAges
<1>10. ASSUME NEW d \in Deliveries, RecordDelivery(d) PROVE MovesAlong
  BY <1>2, <1>10 DEF RecordDelivery
<1>11. ASSUME UNCHANGED storeVars PROVE MovesAlong BY <1>2, <1>11 DEF storeVars
<1>. QED BY <1>3, <1>4, <1>5, <1>6, <1>7, <1>8, <1>9, <1>10, <1>11 DEF StoreChange

(* With such callers, in whatever order they come, no late delivery, no    *)
(* repeated settlement and no retry takes an order's status back.          *)
LEMMA StoreKeepsToTheChain == StoreSpec => [][MovesAlong]_storeVars
<1>1. TableInv /\ [StoreChange]_storeVars => [MovesAlong]_storeVars BY StoreMovesAlong
<1>. QED BY <1>1, TablesAlwaysAgree, PTL DEF StoreSpec

(* How far a job is: behind each attempt are the wait for the next one and *)
(* its end, and what is settled comes last.                                *)
Progress(job) ==
    CASE job.status = "absent" -> 0
      [] job.status = "queued" -> 1
      [] job.status = "processing" -> 3 * job.attempts
      [] job.status = "retryable_failure" -> 3 * job.attempts + (IF job.due THEN 2 ELSE 1)
      [] OTHER -> 3 * MaxAttempts + 3

(* What is settled stays as it is; anything else that happens to a job     *)
(* beside its lock's age brings it forward.                                *)
JobMovesOn ==
    \A o \in Orders :
        \/ jobs'[o] \in {jobs[o], [jobs[o] EXCEPT !.lease = "stale"]}
        \/ Progress(jobs'[o]) > Progress(jobs[o])

(* There are not many steps for a job to take.                             *)
LEMMA ProgressBounded ==
  ASSUME TableInv, NEW o \in Orders
  PROVE  Progress(jobs[o]) \in 0 .. 3 * MaxAttempts + 3
<1>1. JobConsistent(o) /\ jobs[o] \in JobRow BY DEF TableInv, TablesAgree, StoreTypeOK
<1>2. jobs[o].attempts \in 0 .. MaxAttempts BY <1>1 DEF JobConsistent, JobRow, MaxAttempts
<1>. QED BY <1>1, <1>2 DEF Progress, JobConsistent, RetriesLeft, MaxAttempts, JobRow, JobStatus

(* One transaction, one job.                                               *)
LEMMA OneJobMovesOn ==
  ASSUME TableInv, NEW o \in Orders, NEW job, jobs' = [jobs EXCEPT ![o] = job],
         job = [jobs[o] EXCEPT !.lease = "stale"] \/ Progress(job) > Progress(jobs[o])
  PROVE  JobMovesOn
  BY DEF TableInv, StoreTypeOK, JobMovesOn

(* Every transaction on jobs brings one forward, and so does the clock.    *)
LEMMA StoreMovesJobsOn ==
  ASSUME TableInv, [StoreChange]_storeVars
  PROVE  JobMovesOn
<1>0. /\ jobs \in [Orders -> JobRow]
      /\ \A o \in Orders : JobConsistent(o) /\ jobs[o].attempts \in 0 .. MaxAttempts
  BY DEF TableInv, TablesAgree, StoreTypeOK, JobConsistent, JobRow, MaxAttempts
<1>1. ASSUME UNCHANGED jobs PROVE JobMovesOn BY <1>1 DEF JobMovesOn
<1>2. ASSUME NEW i \in Invoices, NEW a \in Amounts, VerificationAccepted(i, TRUE, a), SettlePayment(i)
      PROVE  JobMovesOn
  <2>. DEFINE o == payments[i].order
  <2>1. o \in Orders BY <1>2 DEF TableInv, StoreTypeOK, PaymentRow, VerificationAccepted
  <2>2. CASE jobs[o].status = "absent"
    <3>1. jobs' = [jobs EXCEPT ![o] = QueuedJob] BY <1>0, <1>2, <2>1, <2>2 DEF SettlePayment
    <3>2. Progress(QueuedJob) > Progress(jobs[o]) BY <2>2 DEF Progress, QueuedJob
    <3>. QED BY <2>1, <3>1, <3>2, OneJobMovesOn
  <2>3. CASE jobs[o].status # "absent"
    <3>1. jobs' = jobs BY <1>0, <1>2, <2>1, <2>3 DEF SettlePayment
    <3>. QED BY <1>1, <3>1
  <2>. QED BY <2>2, <2>3
<1>3. ASSUME NEW o \in Orders, NEW w \in Workers, ClaimJob(o, w) PROVE JobMovesOn
  <2>1. PICK job : job = [status |-> "processing", attempts |-> jobs[o].attempts + 1,
                          due |-> jobs[o].due, lease |-> "fresh", owner |-> w]
    OBVIOUS
  <2>2. jobs' = [jobs EXCEPT ![o] = job] BY <1>0, <1>3, <2>1 DEF ClaimJob, TakeJob
  <2>3. Progress(job) = 3 * (jobs[o].attempts + 1) BY <2>1 DEF Progress
  <2>4. \/ jobs[o].status = "queued" /\ Progress(jobs[o]) = 1
        \/ Progress(jobs[o]) = 3 * jobs[o].attempts + 2
    BY <1>3 DEF ClaimJob, Claimable, Progress
  <2>5. jobs[o].attempts \in Nat BY <1>0 DEF MaxAttempts
  <2>6. Progress(job) > Progress(jobs[o]) BY <2>3, <2>4, <2>5
  <2>. QED BY <2>2, <2>6, OneJobMovesOn
<1>4. ASSUME NEW o \in Orders, NEW result \in FulfillmentResult, jobs[o].status = "processing",
             FinishJob(o, result)
      PROVE  JobMovesOn
  <2>0. jobs[o].attempts \in 0 .. MaxAttempts BY <1>0
  <2>1. PICK f : f = Filing(result, jobs[o].attempts) OBVIOUS
  <2>2. f.job \in {"succeeded", "manual_review", "failed", "retryable_failure"}
    <3>1. jobs[o].attempts \in Nat BY <2>0 DEF MaxAttempts
    <3>. QED BY <2>1, <3>1, FilingAgrees
  <2>3. PICK job : job = [status |-> f.job, attempts |-> jobs[o].attempts,
                          due |-> jobs[o].due /\ ~(f.job = "retryable_failure"),
                          lease |-> "none", owner |-> NULL]
    OBVIOUS
  <2>4. jobs' = [jobs EXCEPT ![o] = job] BY <1>0, <1>4, <2>1, <2>3 DEF FinishJob, FileJob
  <2>5. Progress(jobs[o]) = 3 * jobs[o].attempts BY <1>4 DEF Progress
  <2>6. CASE f.job = "retryable_failure"
    <3>1. Progress(job) = 3 * jobs[o].attempts + 1 BY <2>3, <2>6 DEF Progress
    <3>2. Progress(job) > Progress(jobs[o]) BY <2>0, <2>5, <3>1 DEF MaxAttempts
    <3>. QED BY <2>4, <3>2, OneJobMovesOn
  <2>7. CASE f.job # "retryable_failure"
    <3>1. Progress(job) = 3 * MaxAttempts + 3 BY <2>2, <2>3, <2>7 DEF Progress
    <3>2. Progress(job) > Progress(jobs[o]) BY <2>0, <2>5, <3>1 DEF MaxAttempts
    <3>. QED BY <2>4, <3>2, OneJobMovesOn
  <2>. QED BY <2>6, <2>7
<1>5. ASSUME NEW o \in Orders, BackoffElapses(o) PROVE JobMovesOn
  <2>1. PICK job : job = [jobs[o] EXCEPT !.due = TRUE] OBVIOUS
  <2>2. jobs' = [jobs EXCEPT ![o] = job] BY <1>0, <1>5, <2>1 DEF BackoffElapses
  <2>3. job.status = "retryable_failure" /\ job.attempts = jobs[o].attempts /\ job.due
    BY <1>0, <1>5, <2>1 DEF BackoffElapses, JobRow
  <2>4. Progress(job) = 3 * jobs[o].attempts + 2 /\ Progress(jobs[o]) = 3 * jobs[o].attempts + 1
    BY <1>5, <2>3 DEF BackoffElapses, Progress
  <2>5. Progress(job) > Progress(jobs[o]) BY <1>0, <2>4 DEF MaxAttempts
  <2>. QED BY <2>2, <2>5, OneJobMovesOn
<1>6. ASSUME NEW o \in Orders, LeaseAges(o) PROVE JobMovesOn
  <2>1. PICK job : job = [jobs[o] EXCEPT !.lease = "stale"] OBVIOUS
  <2>2. jobs' = [jobs EXCEPT ![o] = job] BY <1>0, <1>6, <2>1 DEF LeaseAges
  <2>. QED BY <2>1, <2>2, OneJobMovesOn
<1>. QED BY <1>1, <1>2, <1>3, <1>4, <1>5, <1>6
         DEF StoreChange, storeVars, InsertOrder, RegisterInvoice, MarkCreationFailed, RecordDelivery

(* With such callers the queue moves on: a job changes a dozen times at    *)
(* most, so it is tried three times at most and what was delivered,        *)
(* reviewed or closed stays so, whatever the connector and the clock do.   *)
LEMMA JobsMoveOn ==
  StoreSpec => /\ [][JobMovesOn]_storeVars
               /\ [](\A o \in Orders : Progress(jobs[o]) \in 0 .. 3 * MaxAttempts + 3)
<1>1. TableInv /\ [StoreChange]_storeVars => [JobMovesOn]_storeVars BY StoreMovesJobsOn
<1>2. TableInv => \A o \in Orders : Progress(jobs[o]) \in 0 .. 3 * MaxAttempts + 3 BY ProgressBounded
<1>. QED BY <1>1, <1>2, TablesAlwaysAgree, PTL DEF StoreSpec
================================================================================
