---------------------------- MODULE AdminCatalogue ----------------------------
(***************************************************************************)
(* The catalogue of offerings as admins change it: create_offering and     *)
(* toggle_offering of src/web/mod.rs, which change and log in two          *)
(* statements, and how src/admin/dashboard.html opens.                     *)
(*                                                                         *)
(* A call is a request to the admin API, by whatever client, and the       *)
(* handler that serves it.  The page's own forms and buttons are left out: *)
(* they are behind a login that does not succeed (see PageOpens).          *)
(***************************************************************************)
EXTENDS Naturals, FiniteSets, Bags

CONSTANTS
    Calls,       \* requests that can be on their way at a time
    Offerings,   \* ids that offerings can get
    Codes,       \* offering codes, written small and without blanks around
    MaxChanges,  \* how often the catalogue is changed
    Tabs,        \* browser tabs with the admin page
    AdminFaults, \* what may go wrong
    NULL

(* "drop": the connection breaks, or the process ends, with the handler at *)
(* any of its await points.                                                *)
ASSUME CallsFinite == IsFiniteSet(Calls)
ASSUME AdminFaultsAssumption == AdminFaults \subseteq {"change", "log", "drop"}

VARIABLES
    offerings,   \* service_offerings: code and is_active
    audit,       \* admin_audit_logs, a bag of entries
    changes,     \* what was done to the catalogue, a bag of such entries
    lost,        \* entries whose statement failed or was not reached
    calls,       \* per call, how far it is
    page         \* per tab, whether it is past the login

adminVars == <<offerings, audit, changes, lost, calls, page>>

-----------------------------------------------------------------------------

(* A code as it is typed.  styled: with blanks around it or ASCII capitals *)
(* in it; wide: with a capital outside ASCII, such as a Cyrillic one.      *)
Spelling == [code: Codes, styled: BOOLEAN, wide: BOOLEAN]
Form == [code: Spelling, valid: BOOLEAN, active: BOOLEAN]
OfferingRow == [code: Spelling \cup {NULL}, sale: {"absent", "active", "inactive"}]
Entry == [action: {"offering.created", "offering.toggled"}, offering: Offerings, active: BOOLEAN]

(* form: what is to be created; offering: what is to be toggled; entry:    *)
(* what the handler has done and logs.                                     *)
Call == [pc: {"idle", "called", "logging"}, form: Form \cup {NULL},
         offering: Offerings \cup {NULL}, entry: Entry \cup {NULL}]

NoOffering == [code |-> NULL, sale |-> "absent"]
NoCall == [pc |-> "idle", form |-> NULL, offering |-> NULL, entry |-> NULL]

AdminInit ==
    /\ offerings = [o \in Offerings |-> NoOffering]
    /\ audit = EmptyBag
    /\ changes = EmptyBag
    /\ lost = EmptyBag
    /\ calls = [c \in Calls |-> NoCall]
    /\ page = [t \in Tabs |-> "login"]

Exists(o) == offerings[o].sale # "absent"

(* active_offerings: what the Telegram menu offers.                        *)
Menu == {o \in Offerings : offerings[o].sale = "active"}

-----------------------------------------------------------------------------
(* Bugs that the checks must notice, each a variant of a definition below. *)

(* A bug: codes are stored the way they are typed.                         *)
AsTyped(spelling) == spelling

(* A bug: a toggle that failed is logged as well.                          *)
FailedButLogged(c) ==
    LET o == calls[c].offering IN
    /\ audit' = IF o = NULL THEN audit
                ELSE audit (+) SetToBag({[action |-> "offering.toggled", offering |-> o,
                                          active |-> o \notin Menu]})
    /\ calls' = [calls EXCEPT ![c] = NoCall]
    /\ UNCHANGED <<offerings, changes, lost, page>>

(* A bug: toggling has no entry of its own.                                *)
LogCreations(c) ==
    /\ calls[c].pc = "logging"
    /\ audit' = IF calls[c].form = NULL THEN audit ELSE audit (+) SetToBag({calls[c].entry})
    /\ calls' = [calls EXCEPT ![c] = NoCall]
    /\ UNCHANGED <<offerings, changes, lost, page>>

-----------------------------------------------------------------------------
(* The handlers.  require_admin comes first and changes nothing.           *)
MayChange ==
    BagCardinality(changes) + Cardinality({c \in Calls : calls[c].pc = "called"}) < MaxChanges

Request(c) ==
    /\ MayChange
    /\ calls[c] = NoCall
    /\ \/ \E f \in Form : calls' = [calls EXCEPT ![c].pc = "called", ![c].form = f]
       \/ \E o \in Offerings : calls' = [calls EXCEPT ![c].pc = "called", ![c].offering = o]
    /\ UNCHANGED <<offerings, audit, changes, lost, page>>

SaleOf(active) == IF active THEN "active" ELSE "inactive"

(* trim and to_ascii_lowercase, which leaves other capitals as they are.   *)
Normalised(spelling) == [spelling EXCEPT !.styled = FALSE]

Change(c, o, row, action) ==
    LET entry == [action |-> action, offering |-> o, active |-> row.sale = "active"] IN
    /\ offerings' = [offerings EXCEPT ![o] = row]
    /\ changes' = changes (+) SetToBag({entry})
    /\ calls' = [calls EXCEPT ![c].pc = "logging", ![c].entry = entry]
    /\ UNCHANGED <<audit, lost, page>>

Fail(c) ==
    /\ calls' = [calls EXCEPT ![c] = NoCall]
    /\ UNCHANGED <<offerings, audit, changes, lost, page>>

(* validate_offering, then an INSERT whose code is UNIQUE.                 *)
CanCreate(f) == f.valid /\ \A o \in Offerings : offerings[o].code # Normalised(f.code)

Create(c) ==
    LET f == calls[c].form IN
    /\ calls[c].pc = "called"
    /\ f # NULL
    /\ \/ /\ CanCreate(f)
          /\ \E o \in Offerings :
               /\ ~Exists(o)
               /\ Change(c, o, [code |-> Normalised(f.code), sale |-> SaleOf(f.active)],
                         "offering.created")
       \/ ~CanCreate(f) /\ Fail(c)
       \/ "change" \in AdminFaults /\ Fail(c)

(* UPDATE ... SET is_active = NOT is_active RETURNING.                     *)
Toggle(c) ==
    LET o == calls[c].offering IN
    /\ calls[c].pc = "called"
    /\ o # NULL
    /\ \/ /\ Exists(o)
          /\ Change(c, o, [offerings[o] EXCEPT !.sale = SaleOf(o \notin Menu)], "offering.toggled")
       \/ ~Exists(o) /\ Fail(c)
       \/ "change" \in AdminFaults /\ Fail(c)

(* log_admin_action; its error is a warning, the answer is the same.       *)
Loses(c) == lost' = lost (+) SetToBag({calls[c].entry}) /\ UNCHANGED audit

Log(c) ==
    /\ calls[c].pc = "logging"
    /\ \/ audit' = audit (+) SetToBag({calls[c].entry}) /\ UNCHANGED lost
       \/ "log" \in AdminFaults /\ Loses(c)
    /\ calls' = [calls EXCEPT ![c] = NoCall]
    /\ UNCHANGED <<offerings, changes, page>>

Drop(c) ==
    /\ "drop" \in AdminFaults
    /\ \/ calls[c].pc = "called" /\ Fail(c)
       \/ /\ calls[c].pc = "logging"
          /\ Loses(c)
          /\ calls' = [calls EXCEPT ![c] = NoCall]
          /\ UNCHANGED <<offerings, changes, page>>

-----------------------------------------------------------------------------
(* The page.  Its login is a load() of the summary and both lists: if one  *)
(* of the three fails, the token is forgotten and the login stays.         *)

(* PostgreSQL's sum(), by the type of its column, and the one type that    *)
(* sqlx decodes into an i64.                                               *)
SumType(type) == IF type = "BIGINT" THEN "NUMERIC" ELSE "BIGINT"
ReadsAsI64(type) == type = "BIGINT"

AmountType == "BIGINT"

(* dashboard_summary: three counts, and the sum of today's sales.          *)
SummaryReads == ReadsAsI64("BIGINT") /\ ReadsAsI64(SumType(AmountType))

Login(t) ==
    /\ page[t] = "login"
    /\ page' = [page EXCEPT ![t] = "loading"]
    /\ UNCHANGED <<offerings, audit, changes, lost, calls>>

Load(t) ==
    /\ page[t] = "loading"
    /\ page' = [page EXCEPT ![t] = IF SummaryReads THEN "open" ELSE "login"]
    /\ UNCHANGED <<offerings, audit, changes, lost, calls>>

-----------------------------------------------------------------------------

Handle(c) == Create(c) \/ Toggle(c) \/ Log(c)

AdminNext ==
    \/ \E c \in Calls : Request(c) \/ Handle(c) \/ Drop(c)
    \/ \E t \in Tabs : Login(t) \/ Load(t)

AdminSpec == AdminInit /\ [][AdminNext]_adminVars

(* The runtime runs the handlers, the browser its scripts.                 *)
AdminFairness ==
    /\ \A c \in Calls : WF_adminVars(Handle(c))
    /\ \A t \in Tabs : WF_adminVars(Load(t))

FairAdminSpec == AdminSpec /\ AdminFairness

-----------------------------------------------------------------------------
(* Properties.                                                             *)

(* Every variable has its type.                                            *)
AdminTypeOK ==
    /\ offerings \in [Offerings -> OfferingRow]
    /\ IsABag(audit) /\ IsABag(changes) /\ IsABag(lost)
    /\ BagToSet(audit) \cup BagToSet(changes) \cup BagToSet(lost) \subseteq Entry
    /\ calls \in [Calls -> Call]
    /\ page \in [Tabs -> {"login", "loading", "open"}]

(* No two offerings have codes that differ in nothing but the blanks       *)
(* around them and the size of their ASCII letters, however they were      *)
(* typed and however many admins create at a time.  In other letters they  *)
(* may: the size of those is part of a code.                               *)
CodesDistinct ==
    \A o, p \in Offerings :
        Exists(o) /\ Exists(p) /\ o # p
            => \/ offerings[o].code.code # offerings[p].code.code
               \/ offerings[o].code.wide # offerings[p].code.wide

(* Each entry of the audit log stands for a change of its own, with its    *)
(* true outcome, whatever fails or breaks off between change and entry.    *)
AuditNeverInvents == audit \sqsubseteq changes

(* docs/architecture.md:20: as long as no entry is lost or on its way, the *)
(* log tells which offerings are on sale, although its entries may stand   *)
(* in another order than the changes: what was created, flipped as often   *)
(* as it was toggled.                                                      *)
Copies(e, log) == IF BagIn(e, log) THEN log[e] ELSE 0

Creation(o, active) == [action |-> "offering.created", offering |-> o, active |-> active]
Toggling(o, active) == [action |-> "offering.toggled", offering |-> o, active |-> active]

Toggles(o, log) == Copies(Toggling(o, TRUE), log) + Copies(Toggling(o, FALSE), log)

OnSaleBy(o, log) ==
    \E active \in BOOLEAN :
        /\ BagIn(Creation(o, active), log)
        /\ active <=> Toggles(o, log) % 2 = 0

AuditTellsMenu ==
    lost = EmptyBag /\ (\A c \in Calls : calls[c].pc # "logging")
        => Menu = {o \in Offerings : OnSaleBy(o, audit)}

(* Why: what was done is logged, lost or in the hands of one handler that  *)
(* has yet to log it; stored codes are normalised; and what was done to an *)
(* offering is one creation, which says how its toggling began.            *)
Pending(e) == {c \in Calls : calls[c].pc = "logging" /\ calls[c].entry = e}

BooksBalance ==
    \A e \in Entry :
        Copies(e, audit) + Copies(e, lost) + Cardinality(Pending(e)) = Copies(e, changes)

CodeStored(o) == Exists(o) => offerings[o].code \in Spelling /\ ~offerings[o].code.styled

Past(o) ==
    IF Exists(o)
    THEN \E active \in BOOLEAN :
            /\ Copies(Creation(o, active), changes) = 1
            /\ Copies(Creation(o, ~active), changes) = 0
            /\ o \in Menu <=> (active <=> Toggles(o, changes) % 2 = 0)
    ELSE /\ \A active \in BOOLEAN : Copies(Creation(o, active), changes) = 0
         /\ Toggles(o, changes) = 0

AdminInv ==
    /\ AdminTypeOK
    /\ \A c \in Calls : calls[c].pc = "logging" => calls[c].entry \in Entry
    /\ BooksBalance
    /\ \A o \in Offerings : CodeStored(o) /\ Past(o)
    /\ CodesDistinct

(* README.md:53: who opens the page and gives the token gets to the page,  *)
(* where offerings are created.                                            *)
PageOpens == \A t \in Tabs : page[t] = "loading" ~> page[t] = "open"
===============================================================================
