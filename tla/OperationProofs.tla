---------------------------- MODULE OperationProofs ----------------------------
(***************************************************************************)
(* The shop around the order core: what its admins do to the catalogue,    *)
(* for any number of requests, offerings and codes; how the process        *)
(* starts; and what the text helpers return.                               *)
(***************************************************************************)
EXTENDS AdminCatalogue, Startup, TextHelpers, TLAPS, FiniteSetTheorems, SequenceTheorems

-----------------------------------------------------------------------------
(* Bags.  Adding an entry adds one copy of it and of nothing else.         *)
LEMMA OneMoreEntry ==
  ASSUME NEW B, IsABag(B), NEW x
  PROVE  /\ IsABag(B (+) SetToBag({x}))
         /\ BagToSet(B (+) SetToBag({x})) = BagToSet(B) \cup {x}
         /\ \A e : Copies(e, B (+) SetToBag({x})) = Copies(e, B) + (IF e = x THEN 1 ELSE 0)
<1>. DEFINE C == B (+) SetToBag({x})
<1>1. DOMAIN SetToBag({x}) = {x} /\ SetToBag({x})[x] = 1 BY DEF SetToBag
<1>2. /\ DOMAIN C = DOMAIN B \cup {x}
      /\ \A e \in DOMAIN B \cup {x} : C[e] = (IF e \in DOMAIN B THEN B[e] ELSE 0)
                                               + (IF e = x THEN 1 ELSE 0)
      /\ C = [e \in DOMAIN C |-> C[e]]
  BY <1>1 DEF (+)
<1>3. \A e \in DOMAIN B : B[e] \in Nat /\ B[e] > 0 BY DEF IsABag
<1>. HIDE DEF C
<1>4. \A e \in DOMAIN C : C[e] \in Nat /\ C[e] > 0 BY <1>2, <1>3
<1>5. IsABag(C) BY <1>2, <1>4 DEF IsABag
<1>6. ASSUME NEW e PROVE Copies(e, C) = Copies(e, B) + (IF e = x THEN 1 ELSE 0)
  BY <1>2, <1>3 DEF Copies, BagIn, BagToSet
<1>. QED BY <1>2, <1>5, <1>6 DEF C, BagToSet

LEMMA CopiesType ==
  ASSUME NEW B, IsABag(B), NEW e
  PROVE  Copies(e, B) \in Nat
  BY DEF IsABag, Copies, BagIn, BagToSet

(* A bag is part of another if each element has at most as many copies.    *)
LEMMA PartByCopies ==
  ASSUME NEW B, IsABag(B), NEW C, IsABag(C),
         \A e \in BagToSet(B) : Copies(e, B) <= Copies(e, C)
  PROVE  B \sqsubseteq C
<1>1. ASSUME NEW e \in DOMAIN B PROVE e \in DOMAIN C /\ B[e] <= C[e]
  <2>1. B[e] \in Nat /\ B[e] > 0 /\ Copies(e, B) = B[e] BY DEF IsABag, Copies, BagIn, BagToSet
  <2>2. Copies(e, B) <= Copies(e, C) BY DEF BagToSet
  <2>3. e \in DOMAIN C BY <2>1, <2>2 DEF Copies, BagIn, BagToSet
  <2>. QED BY <2>1, <2>2, <2>3 DEF Copies, BagIn, BagToSet
<1>. QED BY <1>1 DEF \sqsubseteq

LEMMA NoCopies == IsABag(EmptyBag) /\ BagToSet(EmptyBag) = {} /\ \A e : Copies(e, EmptyBag) = 0
<1>1. DOMAIN EmptyBag = {} /\ EmptyBag = [e \in {} |-> 1] BY DEF EmptyBag, SetToBag
<1>. QED BY <1>1 DEF IsABag, Copies, BagIn, BagToSet

-----------------------------------------------------------------------------
(* The handlers at work.                                                   *)

(* Two sets that differ in one element at most.                            *)
LEMMA DifferInOne ==
  ASSUME NEW S, NEW T, NEW x, IsFiniteSet(S), IsFiniteSet(T), S \ {x} = T \ {x}
  PROVE  /\ Cardinality(S) \in Nat /\ Cardinality(T) \in Nat
         /\ (x \in S <=> x \in T) => Cardinality(T) = Cardinality(S)
         /\ x \in S /\ x \notin T => Cardinality(T) = Cardinality(S) - 1
         /\ x \notin S /\ x \in T => Cardinality(T) = Cardinality(S) + 1
<1>1. Cardinality(S) \in Nat /\ Cardinality(T) \in Nat BY FS_CardinalityType
<1>2. Cardinality(S \ {x}) = IF x \in S THEN Cardinality(S) - 1 ELSE Cardinality(S)
  BY FS_RemoveElement
<1>3. Cardinality(S \ {x}) = IF x \in T THEN Cardinality(T) - 1 ELSE Cardinality(T)
  BY FS_RemoveElement
<1>. QED BY <1>1, <1>2, <1>3

(* The handlers that have an entry to log, in any state of the calls.      *)
Holders(cs, e) == {c \in Calls : cs[c].pc = "logging" /\ cs[c].entry = e}

LEMMA HoldersFinite == ASSUME NEW cs, NEW e PROVE IsFiniteSet(Holders(cs, e))
<1>1. Holders(cs, e) \subseteq Calls BY DEF Holders
<1>. QED BY <1>1, CallsFinite, FS_Subset

(* One handler goes from one state to another.                             *)
LEMMA CallMoves ==
  ASSUME NEW c \in Calls, NEW k, NEW e,
         calls \in [Calls -> Call], calls' = [calls EXCEPT ![c] = k]
  PROVE  /\ Holders(calls, e) \ {c} = Holders(calls', e) \ {c}
         /\ c \in Holders(calls, e) <=> calls[c].pc = "logging" /\ calls[c].entry = e
         /\ c \in Holders(calls', e) <=> k.pc = "logging" /\ k.entry = e
         /\ Holders(calls, e) = Pending(e) /\ Holders(calls', e) = Pending(e)'
<1>1. calls'[c] = k /\ \A d \in Calls \ {c} : calls'[d] = calls[d] OBVIOUS
<1>. QED BY <1>1 DEF Holders, Pending

LEMMA HoldersCount == ASSUME NEW cs, NEW e PROVE Cardinality(Holders(cs, e)) \in Nat
  BY HoldersFinite, FS_CardinalityType

(* A call that has nothing to log yet, or never will, moves.               *)
LEMMA CallKeeps ==
  ASSUME AdminInv, NEW c \in Calls, NEW k \in Call, calls' = [calls EXCEPT ![c] = k],
         k.pc # "logging", calls[c].pc # "logging",
         UNCHANGED <<offerings, audit, changes, lost, page>>
  PROVE  AdminInv'
<1>. USE DEF AdminInv
<1>1. AdminTypeOK' BY DEF AdminTypeOK
<1>2. \A d \in Calls : calls'[d].pc = "logging" => calls'[d].entry \in Entry
  BY DEF AdminTypeOK
<1>3. BooksBalance'
  <2>0. calls \in [Calls -> Call] BY DEF AdminTypeOK
  <2>1. ASSUME NEW e \in Entry
        PROVE  Cardinality(Pending(e)') = Cardinality(Pending(e))
    <3>1. /\ Holders(calls, e) \ {c} = Holders(calls', e) \ {c}
          /\ c \in Holders(calls, e) <=> calls[c].pc = "logging" /\ calls[c].entry = e
          /\ c \in Holders(calls', e) <=> k.pc = "logging" /\ k.entry = e
          /\ Holders(calls, e) = Pending(e) /\ Holders(calls', e) = Pending(e)'
      BY <2>0, CallMoves
    <3>2. IsFiniteSet(Holders(calls, e)) /\ IsFiniteSet(Holders(calls', e)) BY HoldersFinite
    <3>3. Cardinality(Holders(calls', e)) = Cardinality(Holders(calls, e))
      <4>1. c \notin Holders(calls, e) /\ c \notin Holders(calls', e) BY <3>1
      <4>. QED BY <3>1, <3>2, <4>1, DifferInOne
    <3>. QED BY <3>1, <3>3
  <2>. QED BY <2>1 DEF BooksBalance
<1>4. \A o \in Offerings : CodeStored(o)' /\ Past(o)'
  BY ZenonT(40) DEF CodeStored, Past, Exists, Menu, Toggles, Copies
<1>5. CodesDistinct' BY DEF CodesDistinct, Exists
<1>. QED BY <1>1, <1>2, <1>3, <1>4, <1>5

(* A request comes in.                                                     *)
LEMMA RequestKeeps ==
  ASSUME AdminInv, NEW c \in Calls, Request(c)
  PROVE  AdminInv'
<1>0. calls[c].pc # "logging" /\ UNCHANGED <<offerings, audit, changes, lost, page>>
  BY DEF Request, NoCall
<1>1. calls[c] \in Call BY DEF AdminInv, AdminTypeOK
<1>2. ASSUME NEW f \in Form, calls' = [calls EXCEPT ![c].pc = "called", ![c].form = f]
      PROVE  AdminInv'
  <2>. DEFINE k == [calls[c] EXCEPT !.pc = "called", !.form = f]
  <2>1. k \in Call /\ k.pc # "logging" BY <1>1 DEF Call
  <2>2. calls' = [calls EXCEPT ![c] = k] BY <1>2
  <2>. HIDE DEF k
  <2>. QED BY <1>0, <2>1, <2>2, CallKeeps
<1>3. ASSUME NEW o \in Offerings, calls' = [calls EXCEPT ![c].pc = "called", ![c].offering = o]
      PROVE  AdminInv'
  <2>. DEFINE k == [calls[c] EXCEPT !.pc = "called", !.offering = o]
  <2>1. k \in Call /\ k.pc # "logging" BY <1>1 DEF Call
  <2>2. calls' = [calls EXCEPT ![c] = k] BY <1>3
  <2>. HIDE DEF k
  <2>. QED BY <1>0, <2>1, <2>2, CallKeeps
<1>. QED BY <1>2, <1>3 DEF Request

(* A call is refused, fails or breaks off before it has changed anything.  *)
LEMMA FailKeeps ==
  ASSUME AdminInv, NEW c \in Calls, calls[c].pc = "called", Fail(c)
  PROVE  AdminInv'
<1>1. NoCall \in Call /\ NoCall.pc = "idle" BY DEF NoCall, Call
<1>. QED BY <1>1, CallKeeps DEF Fail

(* The entry goes into the log or is lost: it leaves the handler's hands.  *)
LEMMA EntryKeeps ==
  ASSUME AdminInv, NEW c \in Calls, calls[c].pc = "logging",
         calls' = [calls EXCEPT ![c] = NoCall],
         UNCHANGED <<offerings, changes, page>>,
         \/ audit' = audit (+) SetToBag({calls[c].entry}) /\ UNCHANGED lost
         \/ Loses(c)
  PROVE  AdminInv'
<1>. USE DEF AdminInv
<1>. DEFINE x == calls[c].entry
<1>0. x \in Entry /\ calls \in [Calls -> Call] BY DEF AdminTypeOK
<1>1. NoCall \in Call /\ NoCall.pc = "idle" BY DEF NoCall, Call
<1>2. IsABag(audit) /\ IsABag(lost) BY DEF AdminTypeOK
<1>3. /\ IsABag(audit') /\ IsABag(lost')
      /\ BagToSet(audit') \cup BagToSet(lost') \subseteq BagToSet(audit) \cup BagToSet(lost) \cup {x}
      /\ \A e : Copies(e, audit') + Copies(e, lost')
                  = Copies(e, audit) + Copies(e, lost) + (IF e = x THEN 1 ELSE 0)
  <2>1. CASE audit' = audit (+) SetToBag({x}) /\ UNCHANGED lost
    <3>1. /\ IsABag(audit') /\ BagToSet(audit') = BagToSet(audit) \cup {x}
          /\ \A e : Copies(e, audit') = Copies(e, audit) + (IF e = x THEN 1 ELSE 0)
      BY <1>2, <2>1, OneMoreEntry
    <3>2. \A e : Copies(e, audit) \in Nat /\ Copies(e, lost) \in Nat BY <1>2, CopiesType
    <3>3. lost' = lost BY <2>1
    <3>. HIDE DEF x
    <3>. QED BY <1>2, <3>1, <3>2, <3>3
  <2>2. CASE Loses(c)
    <3>1. /\ IsABag(lost') /\ BagToSet(lost') = BagToSet(lost) \cup {x}
          /\ \A e : Copies(e, lost') = Copies(e, lost) + (IF e = x THEN 1 ELSE 0)
      BY <1>2, <2>2, OneMoreEntry DEF Loses
    <3>2. \A e : Copies(e, audit) \in Nat /\ Copies(e, lost) \in Nat BY <1>2, CopiesType
    <3>3. audit' = audit BY <2>2 DEF Loses
    <3>. HIDE DEF x
    <3>. QED BY <1>2, <3>1, <3>2, <3>3
  <2>. QED BY <2>1, <2>2
<1>4. AdminTypeOK' BY <1>0, <1>1, <1>3 DEF AdminTypeOK
<1>5. \A d \in Calls : calls'[d].pc = "logging" => calls'[d].entry \in Entry BY <1>0, <1>1
<1>6. BooksBalance'
  <2>0. \A e : Cardinality(Pending(e)) \in Nat BY HoldersCount DEF Holders, Pending
  <2>1. ASSUME NEW e \in Entry
        PROVE  Cardinality(Pending(e)') = Cardinality(Pending(e)) - (IF e = x THEN 1 ELSE 0)
    <3>1. /\ Holders(calls, e) \ {c} = Holders(calls', e) \ {c}
          /\ c \in Holders(calls, e) <=> calls[c].pc = "logging" /\ calls[c].entry = e
          /\ c \in Holders(calls', e) <=> NoCall.pc = "logging" /\ NoCall.entry = e
          /\ Holders(calls, e) = Pending(e) /\ Holders(calls', e) = Pending(e)'
      BY <1>0, <1>1, CallMoves
    <3>2. IsFiniteSet(Holders(calls, e)) /\ IsFiniteSet(Holders(calls', e)) BY HoldersFinite
    <3>3. /\ Cardinality(Holders(calls, e)) \in Nat
          /\ e = x => Cardinality(Holders(calls', e)) = Cardinality(Holders(calls, e)) - 1
          /\ e # x => Cardinality(Holders(calls', e)) = Cardinality(Holders(calls, e))
      <4>1. c \notin Holders(calls', e) /\ (c \in Holders(calls, e) <=> e = x) BY <1>1, <3>1
      <4>. QED BY <3>1, <3>2, <4>1, DifferInOne
    <3>. HIDE DEF x
    <3>. QED BY <3>1, <3>3
  <2>2. \A e : Copies(e, audit') \in Nat /\ Copies(e, lost') \in Nat
               /\ Copies(e, audit) \in Nat /\ Copies(e, lost) \in Nat
    BY <1>2, <1>3, CopiesType
  <2>. HIDE DEF x
  <2>3. \A e \in Entry : Copies(e, audit') + Copies(e, lost') + Cardinality(Pending(e)')
                           = Copies(e, changes)
    BY <1>3, <2>0, <2>1, <2>2 DEF BooksBalance
  <2>. QED BY <2>3 DEF BooksBalance
<1>7. \A o \in Offerings : CodeStored(o)' /\ Past(o)'
  BY ZenonT(40) DEF CodeStored, Past, Exists, Menu, Toggles, Copies
<1>8. CodesDistinct' BY DEF CodesDistinct, Exists
<1>. QED BY <1>4, <1>5, <1>6, <1>7, <1>8

(* A change of the catalogue is one change in the books, in the hands of   *)
(* its handler.                                                            *)
LEMMA ChangeBooks ==
  ASSUME AdminInv, NEW c \in Calls, calls[c].pc = "called",
         NEW o \in Offerings, NEW row \in OfferingRow,
         NEW action \in {"offering.created", "offering.toggled"}, Change(c, o, row, action)
  PROVE  /\ AdminTypeOK'
         /\ \A d \in Calls : calls'[d].pc = "logging" => calls'[d].entry \in Entry
         /\ BooksBalance'
         /\ \A e : Copies(e, changes') =
              Copies(e, changes)
                + (IF e = [action |-> action, offering |-> o, active |-> row.sale = "active"]
                   THEN 1 ELSE 0)
<1>. USE DEF AdminInv
<1>. DEFINE x == [action |-> action, offering |-> o, active |-> row.sale = "active"]
            k == [calls[c] EXCEPT !.pc = "logging", !.entry = x]
<1>0. x \in Entry /\ calls \in [Calls -> Call] BY DEF AdminTypeOK, Entry
<1>1. k \in Call /\ k.pc = "logging" /\ k.entry = x BY <1>0 DEF Call
<1>2. calls' = [calls EXCEPT ![c] = k] /\ changes' = changes (+) SetToBag({x})
      /\ offerings' = [offerings EXCEPT ![o] = row] /\ UNCHANGED <<audit, lost, page>>
  BY DEF Change
<1>. HIDE DEF x, k
<1>3. IsABag(changes) /\ IsABag(audit) /\ IsABag(lost) BY DEF AdminTypeOK
<1>4. /\ IsABag(changes') /\ BagToSet(changes') = BagToSet(changes) \cup {x}
      /\ \A e : Copies(e, changes') = Copies(e, changes) + (IF e = x THEN 1 ELSE 0)
  BY <1>2, <1>3, OneMoreEntry
<1>5. AdminTypeOK' BY <1>0, <1>1, <1>2, <1>4 DEF AdminTypeOK
<1>6. \A d \in Calls : calls'[d].pc = "logging" => calls'[d].entry \in Entry
  BY <1>0, <1>1, <1>2
<1>7. BooksBalance'
  <2>0. \A e : Cardinality(Pending(e)) \in Nat BY HoldersCount DEF Holders, Pending
  <2>1. ASSUME NEW e \in Entry
        PROVE  Cardinality(Pending(e)') = Cardinality(Pending(e)) + (IF e = x THEN 1 ELSE 0)
    <3>1. /\ Holders(calls, e) \ {c} = Holders(calls', e) \ {c}
          /\ c \in Holders(calls, e) <=> calls[c].pc = "logging" /\ calls[c].entry = e
          /\ c \in Holders(calls', e) <=> k.pc = "logging" /\ k.entry = e
          /\ Holders(calls, e) = Pending(e) /\ Holders(calls', e) = Pending(e)'
      BY <1>0, <1>1, <1>2, CallMoves
    <3>2. IsFiniteSet(Holders(calls, e)) /\ IsFiniteSet(Holders(calls', e)) BY HoldersFinite
    <3>. QED BY <1>0, <1>1, <3>1, <3>2, DifferInOne
  <2>2. \A e : Copies(e, changes) \in Nat /\ Copies(e, audit) \in Nat /\ Copies(e, lost) \in Nat
    BY <1>3, CopiesType
  <2>3. \A e \in Entry : Copies(e, audit) + Copies(e, lost) + Cardinality(Pending(e)')
                           = Copies(e, changes')
    BY <1>4, <2>0, <2>1, <2>2 DEF BooksBalance
  <2>. QED BY <1>2, <2>3 DEF BooksBalance, Copies
<1>. QED BY <1>4, <1>5, <1>6, <1>7 DEF x

(* The past of an offering that nothing was done to is what it was.        *)
LEMMA PastKept ==
  ASSUME NEW o \in Offerings, Past(o), offerings'[o] = offerings[o],
         \A active \in BOOLEAN :
            /\ Copies(Creation(o, active), changes') = Copies(Creation(o, active), changes)
            /\ Copies(Toggling(o, active), changes') = Copies(Toggling(o, active), changes)
  PROVE  Past(o)'
<1>1. Toggles(o, changes)' = Toggles(o, changes) BY DEF Toggles, Toggling, Copies
<1>2. \A active \in BOOLEAN : Copies(Creation(o, active), changes)' = Copies(Creation(o, active), changes)
  BY DEF Creation, Copies
<1>3. Exists(o)' <=> Exists(o) BY DEF Exists
<1>4. (o \in Menu)' <=> o \in Menu BY DEF Menu
<1>. QED BY <1>1, <1>2, <1>3, <1>4 DEF Past

(* A new offering: its past is its creation.  Its code is in no other row, *)
(* in the only spelling that is stored.                                    *)
LEMMA CreateKeeps ==
  ASSUME AdminInv, NEW c \in Calls, Create(c)
  PROVE  AdminInv'
<1>. PICK f \in Form : calls[c].form = f
  BY DEF Create, AdminInv, AdminTypeOK, Call
<1>0. calls[c].pc = "called" BY DEF Create
<1>1. CASE Fail(c) BY <1>0, <1>1, FailKeeps
<1>2. ASSUME CanCreate(f), NEW o \in Offerings, ~Exists(o),
             Change(c, o, [code |-> Normalised(f.code), sale |-> SaleOf(f.active)],
                    "offering.created")
      PROVE  AdminInv'
  <2>. DEFINE row == [code |-> Normalised(f.code), sale |-> SaleOf(f.active)]
              x == Creation(o, f.active)
  <2>1. /\ Normalised(f.code) \in Spelling /\ ~Normalised(f.code).styled
        /\ f.active \in BOOLEAN
    BY DEF Form, Spelling, Normalised
  <2>2. /\ row \in OfferingRow /\ row.sale # "absent" /\ (row.sale = "active" <=> f.active)
        /\ row.code = Normalised(f.code)
    BY <2>1 DEF OfferingRow, SaleOf
  <2>3. /\ AdminTypeOK'
        /\ \A d \in Calls : calls'[d].pc = "logging" => calls'[d].entry \in Entry
        /\ BooksBalance'
        /\ \A e : Copies(e, changes') =
             Copies(e, changes)
               + (IF e = [action |-> "offering.created", offering |-> o,
                          active |-> row.sale = "active"] THEN 1 ELSE 0)
    BY <1>0, <1>2, <2>2, ChangeBooks
  <2>4. \A e : Copies(e, changes') = Copies(e, changes) + (IF e = x THEN 1 ELSE 0)
    BY <2>1, <2>2, <2>3 DEF Creation
  <2>5. offerings' = [offerings EXCEPT ![o] = row] /\ offerings \in [Offerings -> OfferingRow]
    BY <1>2 DEF Change, AdminInv, AdminTypeOK
  <2>. HIDE DEF row
  <2>6. \A e : Copies(e, changes) \in Nat
    BY CopiesType DEF AdminInv, AdminTypeOK
  <2>7. ASSUME NEW p \in Offerings PROVE CodeStored(p)' /\ Past(p)'
    <3>1. CASE p = o
      <4>1. Exists(o)' /\ offerings'[o] = row BY <2>2, <2>5 DEF Exists
      <4>2. (o \in Menu)' <=> f.active BY <2>2, <2>5 DEF Menu
      <4>3. /\ \A active \in BOOLEAN : Copies(Creation(o, active), changes) = 0
            /\ Copies(Toggling(o, TRUE), changes) + Copies(Toggling(o, FALSE), changes) = 0
        BY <1>2 DEF AdminInv, Past, Toggles
      <4>4. \A active \in BOOLEAN :
               /\ Creation(o, active) = x <=> active = f.active
               /\ Toggling(o, active) # x
        BY <2>1 DEF Creation, Toggling
      <4>5. \A active \in BOOLEAN :
              /\ Copies(Creation(o, active), changes') = (IF active = f.active THEN 1 ELSE 0)
              /\ Copies(Toggling(o, active), changes') = Copies(Toggling(o, active), changes)
        BY <2>4, <2>6, <4>3, <4>4
      <4>6. Past(o)'
        <5>1. 0 % 2 = 0 OBVIOUS
        <5>2. Toggles(o, changes') = 0 BY <4>3, <4>5 DEF Toggles
        <5>3. /\ Copies(Creation(o, f.active), changes') = 1
              /\ Copies(Creation(o, ~f.active), changes') = 0
          BY <2>1, <4>5
        <5>. QED BY <2>1, <4>1, <4>2, <5>1, <5>2, <5>3
                 DEF Past, Toggles, Toggling, Creation, Copies
      <4>7. CodeStored(o)' BY <2>1, <2>2, <4>1 DEF CodeStored
      <4>. QED BY <3>1, <4>6, <4>7
    <3>2. CASE p # o
      <4>1. offerings'[p] = offerings[p] BY <2>5, <3>2
      <4>2. CodeStored(p)' BY <4>1 DEF AdminInv, CodeStored, Exists
      <4>3. \A active \in BOOLEAN : Creation(p, active) # x /\ Toggling(p, active) # x
        BY <3>2 DEF Creation, Toggling
      <4>4. \A active \in BOOLEAN :
              /\ Copies(Creation(p, active), changes') = Copies(Creation(p, active), changes)
              /\ Copies(Toggling(p, active), changes') = Copies(Toggling(p, active), changes)
        BY <2>4, <2>6, <4>3
      <4>. QED BY <4>1, <4>2, <4>4, PastKept DEF AdminInv
    <3>. QED BY <3>1, <3>2
  <2>8. CodesDistinct'
    <3>1. ASSUME NEW p \in Offerings, p # o, Exists(p)
          PROVE  \/ offerings[p].code.code # row.code.code
                 \/ offerings[p].code.wide # row.code.wide
      <4>1. offerings[p].code # Normalised(f.code) BY <1>2 DEF CanCreate
      <4>2. offerings[p].code \in Spelling /\ ~offerings[p].code.styled
        BY <3>1 DEF AdminInv, CodeStored
      <4>. QED BY <2>1, <2>2, <4>1, <4>2 DEF Spelling
    <3>. QED BY <2>5, <3>1 DEF AdminInv, CodesDistinct, Exists
  <2>. QED BY <2>3, <2>7, <2>8 DEF AdminInv
<1>. QED BY <1>1, <1>2 DEF Create

(* A toggled offering: its past has one more flip, and it changed sides.   *)
LEMMA ToggleKeeps ==
  ASSUME AdminInv, NEW c \in Calls, Toggle(c)
  PROVE  AdminInv'
<1>. PICK o \in Offerings : calls[c].offering = o
  BY DEF Toggle, AdminInv, AdminTypeOK, Call
<1>0. calls[c].pc = "called" BY DEF Toggle
<1>1. CASE Fail(c) BY <1>0, <1>1, FailKeeps
<1>2. ASSUME Exists(o),
             Change(c, o, [offerings[o] EXCEPT !.sale = SaleOf(o \notin Menu)], "offering.toggled")
      PROVE  AdminInv'
  <2>. DEFINE row == [offerings[o] EXCEPT !.sale = SaleOf(o \notin Menu)]
              now == o \notin Menu
              x == Toggling(o, now)
  <2>0. offerings \in [Offerings -> OfferingRow] BY DEF AdminInv, AdminTypeOK
  <2>2. /\ row \in OfferingRow /\ row.sale # "absent" /\ (row.sale = "active" <=> now)
        /\ row.code = offerings[o].code
    BY <1>0, <2>0 DEF OfferingRow, SaleOf
  <2>3. /\ AdminTypeOK'
        /\ \A d \in Calls : calls'[d].pc = "logging" => calls'[d].entry \in Entry
        /\ BooksBalance'
        /\ \A e : Copies(e, changes') =
             Copies(e, changes)
               + (IF e = [action |-> "offering.toggled", offering |-> o,
                          active |-> row.sale = "active"] THEN 1 ELSE 0)
    <3>1. Change(c, o, row, "offering.toggled") BY <1>2
    <3>. HIDE DEF row
    <3>. QED BY <1>0, <2>2, <3>1, ChangeBooks
  <2>4. \A e : Copies(e, changes') = Copies(e, changes) + (IF e = x THEN 1 ELSE 0)
    BY <2>2, <2>3 DEF Toggling
  <2>5. offerings' = [offerings EXCEPT ![o] = row] BY <1>2 DEF Change
  <2>6. \A e : Copies(e, changes) \in Nat BY CopiesType DEF AdminInv, AdminTypeOK
  <2>. HIDE DEF row
  <2>7. ASSUME NEW p \in Offerings PROVE CodeStored(p)' /\ Past(p)'
    <3>1. CASE p = o
      <4>1. Exists(o)' /\ offerings'[o] = row BY <1>0, <2>0, <2>2, <2>5 DEF Exists
      <4>2. (o \in Menu)' <=> o \notin Menu BY <1>0, <2>0, <2>2, <2>5 DEF Menu
      <4>3. PICK active \in BOOLEAN :
              /\ Copies(Creation(o, active), changes) = 1
              /\ Copies(Creation(o, ~active), changes) = 0
              /\ o \in Menu <=> (active <=> Toggles(o, changes) % 2 = 0)
        BY <1>0, <1>2 DEF AdminInv, Past
      <4>4. \A any \in BOOLEAN : Creation(o, any) # x /\ (Toggling(o, any) = x <=> any = now)
        BY DEF Creation, Toggling
      <4>5. \A any \in BOOLEAN :
              /\ Copies(Creation(o, any), changes') = Copies(Creation(o, any), changes)
              /\ Copies(Toggling(o, any), changes')
                   = Copies(Toggling(o, any), changes) + (IF any = now THEN 1 ELSE 0)
        BY <2>4, <2>6, <4>4
      <4>6. Toggles(o, changes') = Toggles(o, changes) + 1 /\ Toggles(o, changes) \in Nat
        <5>1. /\ Copies(Toggling(o, TRUE), changes) \in Nat
              /\ Copies(Toggling(o, FALSE), changes) \in Nat
          BY <2>6
        <5>2. CASE now
          <6>1. /\ Copies(Toggling(o, TRUE), changes') = Copies(Toggling(o, TRUE), changes) + 1
                /\ Copies(Toggling(o, FALSE), changes') = Copies(Toggling(o, FALSE), changes) + 0
            BY <4>5, <5>2
          <6>. QED BY <5>1, <6>1 DEF Toggles, Toggling
        <5>3. CASE ~now
          <6>1. /\ Copies(Toggling(o, TRUE), changes') = Copies(Toggling(o, TRUE), changes) + 0
                /\ Copies(Toggling(o, FALSE), changes') = Copies(Toggling(o, FALSE), changes) + 1
            BY <4>5, <5>3
          <6>. QED BY <5>1, <6>1 DEF Toggles, Toggling
        <5>. QED BY <5>2, <5>3
      <4>7. \A n \in Nat : (n + 1) % 2 = 0 <=> n % 2 # 0 OBVIOUS
      <4>8. (o \in Menu)' <=> (active <=> Toggles(o, changes') % 2 = 0)
        BY <4>2, <4>3, <4>6, <4>7
      <4>9. Past(o)'
        <5>1. /\ Copies(Creation(o, active), changes') = 1
              /\ Copies(Creation(o, ~active), changes') = 0
          BY <4>3, <4>5
        <5>. QED BY <4>1, <4>8, <5>1 DEF Past, Toggles, Toggling, Creation, Copies
      <4>10. CodeStored(o)' BY <1>0, <1>2, <2>2, <4>1 DEF AdminInv, CodeStored
      <4>. QED BY <3>1, <4>9, <4>10
    <3>2. CASE p # o
      <4>1. offerings'[p] = offerings[p] BY <2>0, <2>5, <3>2
      <4>2. CodeStored(p)' BY <4>1 DEF AdminInv, CodeStored, Exists
      <4>3. \A active \in BOOLEAN : Creation(p, active) # x /\ Toggling(p, active) # x
        BY <3>2 DEF Creation, Toggling
      <4>4. \A active \in BOOLEAN :
              /\ Copies(Creation(p, active), changes') = Copies(Creation(p, active), changes)
              /\ Copies(Toggling(p, active), changes') = Copies(Toggling(p, active), changes)
        BY <2>4, <2>6, <4>3
      <4>. QED BY <4>1, <4>2, <4>4, PastKept DEF AdminInv
    <3>. QED BY <3>1, <3>2
  <2>8. CodesDistinct'
    <3>1. \A p \in Offerings : offerings'[p].code = offerings[p].code /\ (Exists(p)' <=> Exists(p))
      BY <1>0, <1>2, <2>0, <2>2, <2>5 DEF Exists
    <3>. QED BY <3>1 DEF AdminInv, CodesDistinct
  <2>. QED BY <2>3, <2>7, <2>8 DEF AdminInv
<1>. QED BY <1>1, <1>2 DEF Toggle

-----------------------------------------------------------------------------
(* The books and the catalogue hold together from the first state on.      *)
LEMMA AdminInit_Inv == AdminInit => AdminInv
<1>. SUFFICES ASSUME AdminInit PROVE AdminInv OBVIOUS
<1>. USE DEF AdminInit
<1>1. \A c \in Calls : calls[c].pc = "idle" BY DEF NoCall
<1>2. AdminTypeOK
  <2>1. NoOffering \in OfferingRow /\ NoCall \in Call BY DEF NoOffering, OfferingRow, NoCall, Call
  <2>. QED BY <2>1, NoCopies DEF AdminTypeOK
<1>3. BooksBalance
  <2>1. ASSUME NEW e \in Entry PROVE Cardinality(Pending(e)) = 0
    <3>1. Pending(e) = {} BY <1>1 DEF Pending
    <3>. QED BY <3>1, FS_EmptySet
  <2>. QED BY <2>1, NoCopies DEF BooksBalance
<1>4. \A o \in Offerings : ~Exists(o) BY DEF Exists, NoOffering
<1>5. \A o \in Offerings : Past(o)
  <2>1. \A o \in Offerings : Toggles(o, changes) = 0 BY NoCopies DEF Toggles, Toggling
  <2>. QED BY <1>4, <2>1, NoCopies DEF Past
<1>. QED BY <1>1, <1>2, <1>3, <1>4, <1>5 DEF AdminInv, CodeStored, CodesDistinct

LEMMA AdminStep_Inv == AdminInv /\ [AdminNext]_adminVars => AdminInv'
<1>. SUFFICES ASSUME AdminInv, [AdminNext]_adminVars PROVE AdminInv' OBVIOUS
<1>1. ASSUME NEW c \in Calls, Request(c) \/ Handle(c) \/ Drop(c) PROVE AdminInv'
  <2>1. CASE Log(c) BY <2>1, EntryKeeps DEF Log
  <2>2. CASE Drop(c) BY <2>2, FailKeeps, EntryKeeps DEF Drop
  <2>. QED BY <1>1, <2>1, <2>2, RequestKeeps, CreateKeeps, ToggleKeeps DEF Handle
<1>2. ASSUME UNCHANGED <<offerings, audit, changes, lost, calls>>,
             page' \in [Tabs -> {"login", "loading", "open"}]
      PROVE  AdminInv'
  <2>1. AdminTypeOK' BY <1>2 DEF AdminInv, AdminTypeOK
  <2>2. BooksBalance' BY <1>2 DEF AdminInv, BooksBalance, Pending
  <2>3. \A o \in Offerings : CodeStored(o)' /\ Past(o)'
    BY <1>2, ZenonT(40) DEF AdminInv, CodeStored, Past, Exists, Menu, Toggles, Copies
  <2>. QED BY <1>2, <2>1, <2>2, <2>3 DEF AdminInv, CodesDistinct, Exists
<1>3. ASSUME NEW t \in Tabs, Login(t) \/ Load(t) PROVE AdminInv'
  BY <1>2, <1>3 DEF Login, Load, AdminInv, AdminTypeOK
<1>4. CASE UNCHANGED adminVars BY <1>2, <1>4 DEF adminVars, AdminInv, AdminTypeOK
<1>. QED BY <1>1, <1>3, <1>4 DEF AdminNext

(* The books of the catalogue balance, every offering's past explains      *)
(* whether it is on sale, and stored codes are normalised and distinct.    *)
THEOREM AdminInvariant == AdminSpec => []AdminInv
  BY AdminInit_Inv, AdminStep_Inv, PTL DEF AdminSpec

(* Every variable of the catalogue has its type.                           *)
THEOREM CatalogueTyped == AdminSpec => []AdminTypeOK
<1>1. AdminInv => AdminTypeOK BY DEF AdminInv
<1>. QED BY <1>1, AdminInvariant, PTL

(* No two offerings get codes that differ in blanks and ASCII capitals     *)
(* only: to_ascii_lowercase before the UNIQUE column suffices, however     *)
(* many admins create at a time.                                           *)
THEOREM CodesAreDistinct == AdminSpec => []CodesDistinct
<1>1. AdminInv => CodesDistinct BY DEF AdminInv
<1>. QED BY <1>1, AdminInvariant, PTL

(* log_admin_action writes no entry but for a change of its own: what is   *)
(* logged is one part of what was done, next to the lost and the pending.  *)
THEOREM AuditIsTrue == AdminSpec => []AuditNeverInvents
<1>1. AdminInv => AuditNeverInvents
  <2>. SUFFICES ASSUME AdminInv PROVE AuditNeverInvents OBVIOUS
  <2>. USE DEF AdminInv
  <2>1. IsABag(audit) /\ IsABag(lost) /\ IsABag(changes) /\ BagToSet(audit) \subseteq Entry
    BY DEF AdminTypeOK
  <2>2. ASSUME NEW e \in BagToSet(audit) PROVE Copies(e, audit) <= Copies(e, changes)
    <3>1. /\ Copies(e, audit) \in Nat /\ Copies(e, lost) \in Nat /\ Copies(e, changes) \in Nat
      BY <2>1, CopiesType
    <3>2. Cardinality(Pending(e)) \in Nat BY HoldersCount DEF Holders, Pending
    <3>3. Copies(e, audit) + Copies(e, lost) + Cardinality(Pending(e)) = Copies(e, changes)
      BY <2>1 DEF BooksBalance
    <3>. QED BY <3>1, <3>2, <3>3
  <2>. QED BY <2>1, <2>2, PartByCopies DEF AuditNeverInvents
<1>. QED BY <1>1, AdminInvariant, PTL

(* docs/architecture.md:20, as far as no entry was lost: the log tells     *)
(* which offerings the menu has, in whatever order its entries came.       *)
THEOREM AuditIsComplete == AdminSpec => []AuditTellsMenu
<1>1. AdminInv => AuditTellsMenu
  <2>. SUFFICES ASSUME AdminInv, lost = EmptyBag, \A c \in Calls : calls[c].pc # "logging"
                PROVE  Menu = {o \in Offerings : OnSaleBy(o, audit)}
    BY DEF AuditTellsMenu
  <2>1. IsABag(audit) /\ IsABag(changes) BY DEF AdminInv, AdminTypeOK
  <2>2. \A e \in Entry : Copies(e, audit) = Copies(e, changes)
    <3>1. ASSUME NEW e \in Entry PROVE Copies(e, audit) = Copies(e, changes)
      <4>1. Pending(e) = {} BY DEF Pending
      <4>2. Cardinality(Pending(e)) = 0 BY <4>1, FS_EmptySet
      <4>3. Copies(e, lost) = 0 BY NoCopies
      <4>4. Copies(e, audit) \in Nat BY <2>1, CopiesType
      <4>. QED BY <4>2, <4>3, <4>4 DEF AdminInv, BooksBalance
    <3>. QED BY <3>1
  <2>3. ASSUME NEW o \in Offerings PROVE o \in Menu <=> OnSaleBy(o, audit)
    <3>1. \A active \in BOOLEAN : Creation(o, active) \in Entry /\ Toggling(o, active) \in Entry
      BY DEF Creation, Toggling, Entry
    <3>2. Toggles(o, audit) = Toggles(o, changes) BY <2>2, <3>1 DEF Toggles
    <3>3. \A e : BagIn(e, audit) <=> Copies(e, audit) # 0
      BY <2>1 DEF IsABag, Copies, BagIn, BagToSet
    <3>4. \A active \in BOOLEAN :
             BagIn(Creation(o, active), audit) <=> Copies(Creation(o, active), changes) # 0
      BY <2>2, <3>1, <3>3
    <3>5. CASE Exists(o)
      <4>1. PICK active \in BOOLEAN :
              /\ Copies(Creation(o, active), changes) = 1
              /\ Copies(Creation(o, ~active), changes) = 0
              /\ o \in Menu <=> (active <=> Toggles(o, changes) % 2 = 0)
        BY <3>5 DEF AdminInv, Past
      <4>2. ASSUME NEW any \in BOOLEAN PROVE BagIn(Creation(o, any), audit) <=> any = active
        <5>1. CASE any = active BY <3>4, <4>1, <5>1
        <5>2. CASE any # active
          <6>1. any = ~active BY <5>2
          <6>2. Copies(Creation(o, any), changes) = 0 BY <4>1, <6>1
          <6>. QED BY <3>4, <5>2, <6>2
        <5>. QED BY <5>1, <5>2
      <4>. QED BY <3>2, <4>1, <4>2 DEF OnSaleBy
    <3>6. CASE ~Exists(o)
      <4>1. \A active \in BOOLEAN : ~BagIn(Creation(o, active), audit)
        BY <3>4, <3>6 DEF AdminInv, Past
      <4>. QED BY <3>6, <4>1 DEF OnSaleBy, Menu, Exists
    <3>. QED BY <3>5, <3>6
  <2>. QED BY <2>3 DEF Menu
<1>. QED BY <1>1, AdminInvariant, PTL

-----------------------------------------------------------------------------
(* How a process starts.                                                   *)
LEMMA StartInit_Inv == StartInit => StartInv
  BY DEF StartInit, StartInv, NeverPanics

LEMMA StartStep_Inv == StartInv /\ [StartNext]_startVars => StartInv'
<1>. SUFFICES ASSUME StartInv, [StartNext]_startVars PROVE StartInv' OBVIOUS
<1>. USE DEF StartInv, NeverPanics, Ends
<1>1. CASE ReadConfig
  <2>1. Configured(env).provider # NoConfig.provider BY DEF Configured, NoConfig
  <2>2. Configured(env) # NoConfig BY <2>1
  <2>3. config = NoConfig \/ config = Configured(env) OBVIOUS
  <2>4. (config # NoConfig => FromEnvOK(env)) /\ env' = env BY <1>1 DEF ReadConfig
  <2>5. CASE FromEnvOK(env) /\ stage' = "configured" /\ config' = Configured(env)
             /\ UNCHANGED <<env, provider, worker>>
    BY <1>1, <2>2, <2>3, <2>5 DEF ReadConfig
  <2>6. CASE ~FromEnvOK(env) /\ Ends("failed") BY <2>6
  <2>. QED BY <1>1, <2>5, <2>6 DEF ReadConfig
<1>2. CASE Connect BY <1>2 DEF Connect
<1>3. CASE BuildProvider
  <2>1. config = Configured(env) /\ FromEnvOK(env) BY <1>3 DEF BuildProvider
  <2>2. ~(config.provider = "external" /\ "none" \in {config.endpoint, config.secret})
    BY <2>1 DEF FromEnvOK, ExternalConfigured, Configured
  <2>. QED BY <1>3, <2>2 DEF BuildProvider
<1>4. CASE SpawnWorker BY <1>4 DEF SpawnWorker
<1>5. CASE Bind BY <1>5 DEF Bind
<1>6. CASE UNCHANGED startVars BY <1>6 DEF startVars
<1>. QED BY <1>1, <1>2, <1>3, <1>4, <1>5, <1>6 DEF StartNext

(* What is configured passed Config::from_env, at every step of main.      *)
THEOREM StartInvariant == StartSpec => []StartInv
  BY StartInit_Inv, StartStep_Inv, PTL DEF StartSpec

(* src/fulfillment/mod.rs:46: from_env has seen to what build_provider     *)
(* expects, whatever the environment and however many variables.           *)
THEOREM StartNeverPanics == StartSpec => []NeverPanics
<1>1. StartInv => NeverPanics BY DEF StartInv
<1>. QED BY <1>1, StartInvariant, PTL

(* No environment turns the connector on by accident.                      *)
THEOREM ConnectorIsChosen == StartSpec => []ConnectorOnPurpose
<1>1. StartInv => ConnectorOnPurpose
  BY DEF StartInv, ConnectorOnPurpose, Configured, FromEnvOK, ExternalConfigured, Optional, Env,
         Setting
<1>. QED BY <1>1, StartInvariant, PTL

-----------------------------------------------------------------------------
(* Recipients, in any text a user may send.                                *)

(* Every set of numbers has a least one: as many numbers are below it as   *)
(* there are that no number of the set is under.                           *)
LEMMA LeastOf ==
  ASSUME NEW K, K \subseteq Nat, K # {}
  PROVE  Min(K) \in K /\ \A n \in K : Min(K) <= n
<1>. PICK x \in K : TRUE OBVIOUS
<1>. DEFINE B == {n \in 0 .. x : \A j \in 0 .. n : j \notin K}
            m == Cardinality(B)
<1>1. x \in Nat /\ IsFiniteSet(0 .. x) /\ Cardinality(0 .. x) = x + 1 BY FS_Interval
<1>2. B \subseteq 0 .. x /\ IsFiniteSet(B) BY <1>1, FS_Subset
<1>3. m \in Nat BY <1>2, FS_CardinalityType
<1>4. ASSUME NEW n \in B PROVE n < m
  <2>1. n \in Nat /\ 0 .. n \subseteq B BY <1>1
  <2>. HIDE DEF B
  <2>2. Cardinality(0 .. n) <= m BY <1>2, <2>1, FS_Subset
  <2>3. Cardinality(0 .. n) = n + 1 BY <2>1, FS_Interval
  <2>. QED BY <1>3, <2>1, <2>2, <2>3
<1>5. B = 0 .. m - 1
  <2>1. B \subseteq 0 .. m - 1
    <3>. HIDE DEF B, m
    <3>. QED BY <1>1, <1>2, <1>3, <1>4
  <2>. HIDE DEF B
  <2>2. m - 1 \in Int /\ (0 > m - 1 <=> m = 0) /\ (m - 1) - 0 + 1 = m BY <1>3
  <2>3. IsFiniteSet(0 .. m - 1) /\ Cardinality(0 .. m - 1) = m BY <2>2, FS_Interval
  <2>. QED BY <2>1, <2>3, FS_Subset
<1>6. m \in K
  <2>1. m <= x
    <3>1. m <= x + 1
      <4>. HIDE DEF B
      <4>. QED BY <1>1, <1>2, FS_Subset
    <3>2. x \notin B BY <1>1
    <3>. HIDE DEF B, m
    <3>3. m # x + 1 BY <1>1, <1>5, <3>2
    <3>. QED BY <1>1, <1>3, <3>1, <3>3
  <2>2. m \notin B
    <3>. HIDE DEF B, m
    <3>. QED BY <1>3, <1>5
  <2>. HIDE DEF m
  <2>3. PICK j \in 0 .. m : j \in K BY <1>1, <1>3, <2>1, <2>2
  <2>4. CASE j < m
    <3>1. j \in B
      <4>. HIDE DEF B
      <4>. QED BY <1>3, <1>5, <2>4
    <3>. QED BY <1>3, <2>3, <3>1
  <2>. QED BY <1>3, <2>3, <2>4
<1>7. ASSUME NEW n \in K PROVE m <= n
  <2>1. n < m => n \in B
    <3>. HIDE DEF B, m
    <3>. QED BY <1>3, <1>5
  <2>2. n \notin B BY <1>7
  <2>. HIDE DEF B, m
  <2>. QED BY <1>3, <2>1, <2>2
<1>. HIDE DEF m
<1>. QED BY <1>6, <1>7 DEF Min

(* What is left of a text without the blanks at its start.                 *)
LEMMA StartTrimmed ==
  ASSUME NEW S, NEW s \in Seq(S)
  PROVE  /\ TrimStart(s) \in Seq(S)
         /\ TrimStart(s) # << >> => /\ TrimStart(s)[1] # " "
                                    /\ TrimStart(s)[Len(TrimStart(s))] = s[Len(s)]
<1>. DEFINE k == {n \in DOMAIN s : s[n] # " "}
            m == Min(k)
<1>1. CASE k = {} BY <1>1, EmptySeq DEF TrimStart
<1>2. CASE k # {}
  <2>1. PICK n \in Nat : Len(s) = n /\ DOMAIN s = 1 .. n BY LenProperties
  <2>2. m \in k
    <3>1. k \subseteq DOMAIN s OBVIOUS
    <3>. HIDE DEF k
    <3>2. k \subseteq Nat BY <2>1, <3>1
    <3>. QED BY <1>2, <3>2, LeastOf
  <2>3. TrimStart(s) = SubSeq(s, m, n) BY <1>2, <2>1 DEF TrimStart
  <2>4. m \in DOMAIN s /\ s[m] # " "
    <3>. HIDE DEF m
    <3>. QED BY <2>2
  <2>. HIDE DEF k, m
  <2>5. m \in 1 .. n BY <2>1, <2>4
  <2>6. \A i \in m .. n : s[i] \in S
    <3>1. \A i \in m .. n : i \in 1 .. n BY <2>1, <2>5
    <3>. QED BY <2>1, <3>1, ElementOfSeq
  <2>7. /\ SubSeq(s, m, n) \in Seq(S)
        /\ Len(SubSeq(s, m, n)) = n - m + 1
        /\ \A i \in 1 .. n - m + 1 : SubSeq(s, m, n)[i] = s[m + i - 1]
    <3>1. m \in Int /\ n \in Int /\ m <= n BY <2>1, <2>5
    <3>. QED BY <2>6, <3>1, SubSeqProperties
  <2>8. 1 \in 1 .. n - m + 1 /\ n - m + 1 \in 1 .. n - m + 1 BY <2>1, <2>5
  <2>9. m + 1 - 1 = m /\ m + (n - m + 1) - 1 = n BY <2>1, <2>5
  <2>10. TrimStart(s)[1] = s[m] /\ TrimStart(s)[Len(TrimStart(s))] = s[n]
    BY <2>3, <2>7, <2>8, <2>9
  <2>. QED BY <2>1, <2>3, <2>4, <2>7, <2>10
<1>. QED BY <1>1, <1>2

LEMMA Reversed ==
  ASSUME NEW S, NEW s \in Seq(S)
  PROVE  /\ Reverse(s) \in Seq(S) /\ Len(Reverse(s)) = Len(s)
         /\ s # << >> => Reverse(s)[1] = s[Len(s)] /\ Reverse(s)[Len(s)] = s[1]
<1>1. Len(s) \in Nat /\ DOMAIN s = 1 .. Len(s) /\ s \in [1 .. Len(s) -> S] BY LenProperties
<1>2. \A i \in 1 .. Len(s) : (Len(s) - i) + 1 \in 1 .. Len(s) BY <1>1
<1>3. Reverse(s) \in [1 .. Len(s) -> S] BY <1>1, <1>2 DEF Reverse
<1>4. Reverse(s) \in Seq(S) BY <1>1, <1>3, SeqDef
<1>5. Len(Reverse(s)) = Len(s)
  <2>1. DOMAIN Reverse(s) = 1 .. Len(s) BY <1>3
  <2>2. DOMAIN Reverse(s) = 1 .. Len(Reverse(s)) /\ Len(Reverse(s)) \in Nat BY <1>4, LenProperties
  <2>. QED BY <1>1, <2>1, <2>2
<1>6. ASSUME s # << >> PROVE Reverse(s)[1] = s[Len(s)] /\ Reverse(s)[Len(s)] = s[1]
  <2>1. Len(s) > 0 BY <1>1, <1>6, EmptySeq
  <2>2. 1 \in 1 .. Len(s) /\ Len(s) \in 1 .. Len(s) /\ (Len(s) - 1) + 1 = Len(s)
        /\ (Len(s) - Len(s)) + 1 = 1
    BY <1>1, <2>1
  <2>. QED BY <2>2 DEF Reverse
<1>. QED BY <1>4, <1>5, <1>6

(* trim() leaves no blank at either end.                                   *)
LEMMA Trimmed ==
  ASSUME NEW S, NEW s \in Seq(S)
  PROVE  /\ Trim(s) \in Seq(S)
         /\ Trim(s) # << >> => Trim(s)[1] # " " /\ Trim(s)[Len(Trim(s))] # " "
<1>. DEFINE u == TrimStart(s)
            v == Reverse(u)
            w == TrimStart(v)
<1>1. u \in Seq(S) /\ (u # << >> => u[1] # " ") BY StartTrimmed
<1>2. v \in Seq(S) /\ Len(v) = Len(u) /\ (u # << >> => v[Len(u)] = u[1]) BY <1>1, Reversed
<1>3. w \in Seq(S) /\ (w # << >> => w[1] # " " /\ w[Len(w)] = v[Len(v)])
  <2>. HIDE DEF v
  <2>. QED BY <1>2, StartTrimmed
<1>4. /\ Reverse(w) \in Seq(S) /\ Len(Reverse(w)) = Len(w)
      /\ w # << >> => Reverse(w)[1] = w[Len(w)] /\ Reverse(w)[Len(w)] = w[1]
  <2>. HIDE DEF w
  <2>. QED BY <1>3, Reversed
<1>5. w # << >> => u # << >>
  <2>1. v = << >> => w = << >>
    <3>1. {n \in DOMAIN << >> : << >>[n] # " "} = {} OBVIOUS
    <3>2. TrimStart(<< >>) = << >> BY <3>1 DEF TrimStart
    <3>. HIDE DEF v
    <3>. QED BY <3>2
  <2>2. u = << >> => v = << >>
    <3>. HIDE DEF u
    <3>. QED BY <1>1, <1>2, EmptySeq
  <2>. QED BY <2>1, <2>2
<1>6. Reverse(w) # << >> => w # << >>
  <2>. HIDE DEF w
  <2>. QED BY <1>3, <1>4, EmptySeq
<1>7. Trim(s) = Reverse(w) BY DEF Trim
<1>. HIDE DEF u, v, w
<1>. QED BY <1>1, <1>2, <1>3, <1>4, <1>5, <1>6, <1>7

(* What the checks of parse_target_username leave is a username as it is   *)
(* stored.                                                                 *)
LEMMA UsernameShape ==
  ASSUME NEW Chars, {"@", "a"} \subseteq Chars, NEW t \in Seq(Chars)
  PROVE  LET name == Tail(t)
             accepted == /\ t # << >> /\ t[1] = "@" /\ LengthOK(name)
                         /\ \A k \in DOMAIN name : name[k] = "a"
         IN  /\ accepted <=> IsUsername(t)
             /\ accepted => <<"@">> \o name = t
<1>. DEFINE name == Tail(t)
            accepted == /\ t # << >> /\ t[1] = "@" /\ LengthOK(name)
                        /\ \A k \in DOMAIN name : name[k] = "a"
<1>1. \A n \in Nat : /\ Times(n, "a") \in Seq(Chars) /\ Len(Times(n, "a")) = n
                     /\ \A i \in 1 .. n : Times(n, "a")[i] = "a"
  <2>1. ASSUME NEW n \in Nat PROVE /\ Times(n, "a") \in [1 .. n -> Chars]
                                   /\ \A i \in 1 .. n : Times(n, "a")[i] = "a"
    BY DEF Times
  <2>2. ASSUME NEW n \in Nat PROVE Times(n, "a") \in Seq(Chars) BY <2>1, SeqDef
  <2>3. ASSUME NEW n \in Nat PROVE Len(Times(n, "a")) = n
    <3>1. 1 .. n = 1 .. Len(Times(n, "a")) /\ Len(Times(n, "a")) \in Nat
      BY <2>1, <2>2, LenProperties
    <3>. QED BY <3>1
  <2>. QED BY <2>1, <2>2, <2>3
<1>2. <<"@">> \in Seq(Chars) /\ Len(<<"@">>) = 1 /\ <<"@">>[1] = "@" OBVIOUS
<1>3. Len(t) \in Nat /\ (t # << >> => Len(t) > 0) BY LenProperties, EmptySeq
<1>4. t # << >> => /\ name \in Seq(Chars) /\ Len(name) = Len(t) - 1
                   /\ \A i \in 1 .. Len(t) - 1 : name[i] = t[i + 1]
  BY HeadTailProperties
<1>5. t # << >> => DOMAIN name = 1 .. Len(name) BY <1>4, LenProperties
<1>6. (\A k \in DOMAIN name : name[k] = "a") /\ t # << >> => Bytes(name) = Len(name)
  <2>1. (\A k \in DOMAIN name : name[k] = "a") => {k \in DOMAIN name : name[k] = "wide"} = {}
    OBVIOUS
  <2>2. \A n \in Nat : n + 0 = n OBVIOUS
  <2>3. t # << >> => Len(name) \in Nat BY <1>4, LenProperties
  <2>. HIDE DEF name
  <2>. QED BY <2>1, <2>2, <2>3, FS_EmptySet DEF Bytes
<1>. HIDE DEF name
<1>7. ASSUME accepted PROVE IsUsername(t) /\ <<"@">> \o name = t
  <2>1. Len(name) \in 5 .. 32 BY <1>3, <1>4, <1>6, <1>7 DEF LengthOK
  <2>2. name = Times(Len(name), "a")
    <3>1. \A i \in 1 .. Len(name) : name[i] = "a" BY <1>5, <1>7
    <3>. QED BY <1>1, <1>4, <1>7, <2>1, <3>1, SeqEqual
  <2>3. <<"@">> \o name = t
    <3>1. /\ <<"@">> \o name \in Seq(Chars) /\ Len(<<"@">> \o name) = 1 + Len(name)
          /\ \A i \in 1 .. 1 + Len(name) :
                (<<"@">> \o name)[i] = IF i <= 1 THEN <<"@">>[i] ELSE name[i - 1]
      BY <1>2, <1>4, <1>7, ConcatProperties
    <3>2. \A i \in 1 .. Len(t) : (<<"@">> \o name)[i] = t[i]
      <4>1. ASSUME NEW i \in 1 .. Len(t), i # 1 PROVE (<<"@">> \o name)[i] = t[i]
        <5>1. i - 1 \in 1 .. Len(t) - 1 /\ (i - 1) + 1 = i /\ ~(i <= 1) /\ i \in 1 .. 1 + Len(name)
          BY <1>3, <1>4, <1>7, <4>1
        <5>2. name[i - 1] = t[i] BY <1>4, <1>7, <5>1
        <5>. QED BY <3>1, <5>1, <5>2
      <4>2. (<<"@">> \o name)[1] = t[1] BY <1>2, <1>3, <1>4, <1>7, <3>1
      <4>. QED BY <4>1, <4>2
    <3>3. Len(<<"@">> \o name) = Len(t) BY <1>3, <1>4, <1>7, <3>1
    <3>. QED BY <3>1, <3>2, <3>3, SeqEqual
  <2>. QED BY <2>1, <2>2, <2>3 DEF IsUsername
<1>8. ASSUME IsUsername(t) PROVE accepted
  <2>1. PICK n \in 5 .. 32 : t = <<"@">> \o Times(n, "a") BY <1>8 DEF IsUsername
  <2>2. /\ Len(t) = 1 + n
        /\ \A i \in 1 .. 1 + n : t[i] = IF i <= 1 THEN <<"@">>[i] ELSE Times(n, "a")[i - 1]
    BY <1>1, <1>2, <2>1, ConcatProperties
  <2>3. t # << >> /\ t[1] = "@" BY <1>2, <2>2, EmptySeq
  <2>4. Len(name) = n BY <1>4, <2>2, <2>3
  <2>5. ASSUME NEW k \in 1 .. n PROVE name[k] = "a"
    <3>1. k + 1 \in 1 .. 1 + n /\ ~(k + 1 <= 1) /\ (k + 1) - 1 = k OBVIOUS
    <3>2. t[k + 1] = Times(n, "a")[k] BY <2>2, <3>1
    <3>. QED BY <1>1, <1>4, <2>2, <2>3, <3>2
  <2>6. \A k \in DOMAIN name : name[k] = "a" BY <1>5, <2>3, <2>4, <2>5
  <2>. QED BY <1>6, <2>3, <2>4, <2>6 DEF LengthOK
<1>. QED BY <1>7, <1>8 DEF name

(* parse_target_username, for any text: it accepts exactly the usernames,  *)
(* whatever blanks are around them, and gives them as they are stored.     *)
THEOREM RecipientsAreUsernames ==
  ASSUME NEW Chars, input.fn = "name" => input.text \in Seq(Chars)
  PROVE  TargetIsUsername
<1>. SUFFICES ASSUME input.fn = "name"
              PROVE  ParseTargetUsername(input.text)
                       = IF IsUsername(Trim(input.text)) THEN Trim(input.text) ELSE NONE
  BY DEF TargetIsUsername
<1>1. Trim(input.text) \in Seq(Chars) BY Trimmed
<1>2. Trim(input.text) \in Seq(Chars \cup {"@", "a"}) BY <1>1, SeqMonotonic
<1>. QED BY <1>2, UsernameShape DEF ParseTargetUsername

-----------------------------------------------------------------------------
(* Complete induction over a set of naturals.                              *)
LEMMA NaturalsByInduction ==
  ASSUME NEW K, \A n \in Nat : (\A m \in 0 .. n - 1 : m \in K) => n \in K
  PROVE  Nat \subseteq K
<1>. DEFINE Out == Nat \ K
<1>1. Out # {} => Min(Out) \in Out /\ \A n \in Out : Min(Out) <= n BY LeastOf
<1>2. Out = {}
  <2>1. SUFFICES ASSUME Out # {} PROVE FALSE OBVIOUS
  <2>. DEFINE n == Min(Out)
  <2>2. n \in Nat /\ n \notin K BY <1>1, <2>1
  <2>3. ASSUME NEW m \in 0 .. n - 1 PROVE m \in K
    <3>1. m \in Nat /\ ~(n <= m) BY <2>2
    <3>. HIDE DEF n
    <3>2. m \notin Out BY <1>1, <2>1, <3>1 DEF n
    <3>. QED BY <3>1, <3>2
  <2>. HIDE DEF n
  <2>. QED BY <2>2, <2>3
<1>. QED BY <1>2

(* What the equation of DigitsFromRight makes of its values below n.       *)
Digits(f, n) == IF n < 10 THEN <<n>> ELSE <<n % 10>> \o f[n \div 10]

(* The last digit of a number and the rest of it.                         *)
LEMMA Quotient ==
  ASSUME NEW n \in Nat
  PROVE  /\ n \div 10 \in Nat /\ n % 10 \in 0 .. 9 /\ n = 10 * (n \div 10) + (n % 10)
         /\ n >= 10 => n \div 10 < n /\ n \div 10 > 0
         /\ n < 10 => n \div 10 = 0 /\ n % 10 = n
OBVIOUS

(* The equation has a solution up to any n, and no two that differ.        *)
LEMMA DigitsUnique ==
  ASSUME NEW n \in Nat, NEW f, \A m \in 0 .. n : f[m] = Digits(f, m),
         NEW g, \A m \in 0 .. n : g[m] = Digits(g, m)
  PROVE  \A m \in 0 .. n : f[m] = g[m]
<1>. DEFINE K == {m \in Nat : m <= n => f[m] = g[m]}
<1>1. ASSUME NEW m \in Nat, \A k \in 0 .. m - 1 : k \in K PROVE m \in K
  <2>1. SUFFICES ASSUME m <= n PROVE f[m] = g[m] OBVIOUS
  <2>2. m \in 0 .. n BY <2>1
  <2>3. m >= 10 => m \div 10 \in 0 .. m - 1 /\ m \div 10 <= n BY <2>1, Quotient
  <2>4. m >= 10 => f[m \div 10] = g[m \div 10] BY <1>1, <2>3
  <2>5. Digits(f, m) = Digits(g, m)
    <3>1. CASE m < 10 BY <3>1 DEF Digits
    <3>2. CASE m >= 10 BY <2>4, <3>2 DEF Digits
    <3>. QED BY <3>1, <3>2
  <2>. QED BY <2>2, <2>5
<1>. HIDE DEF K
<1>2. Nat \subseteq K BY <1>1, NaturalsByInduction
<1>. QED BY <1>2 DEF K

(* Up to any number, some function satisfies the equation of the digits.   *)
LEMMA DigitsUpTo ==
  ASSUME NEW n \in Nat
  PROVE  \E f : \A m \in 0 .. n : f[m] = Digits(f, m)
<1>. DEFINE K == {k \in Nat : \E f : \A m \in 0 .. k : f[m] = Digits(f, m)}
<1>1. ASSUME NEW k \in Nat, \A m \in 0 .. k - 1 : m \in K PROVE k \in K
  <2>1. PICK f : \A m \in 0 .. k - 1 : f[m] = Digits(f, m)
    <3>1. CASE k = 0 BY <3>1
    <3>2. CASE k # 0
      <4>1. k - 1 \in 0 .. k - 1 BY <3>2
      <4>. QED BY <1>1, <4>1
    <3>. QED BY <3>1, <3>2
  <2>. DEFINE g == [m \in 0 .. k |-> IF m = k THEN Digits(f, k) ELSE f[m]]
  <2>2. ASSUME NEW m \in 0 .. k PROVE g[m] = Digits(g, m)
    <3>1. m >= 10 => m \div 10 \in 0 .. k /\ m \div 10 # k BY Quotient
    <3>2. m >= 10 => g[m \div 10] = f[m \div 10] BY <3>1
    <3>3. Digits(g, m) = Digits(f, m) 
      <4>. HIDE DEF g
      <4>. QED BY <3>2 DEF Digits
    <3>4. m # k => m \in 0 .. k - 1 OBVIOUS
    <3>5. g[m] = Digits(f, m) BY <2>1, <3>4
    <3>. HIDE DEF g
    <3>. QED BY <3>3, <3>5
  <2>. HIDE DEF g
  <2>. QED BY <2>2
<1>. HIDE DEF K
<1>2. Nat \subseteq K BY <1>1, NaturalsByInduction
<1>. QED BY <1>2 DEF K

(* So the recursive function satisfies its own equation everywhere.        *)
LEMMA DigitsFromRightDef == DigitsFromRight = [n \in Nat |-> Digits(DigitsFromRight, n)]
<1>. DEFINE upTo(n) == CHOOSE f : \A m \in 0 .. n : f[m] = Digits(f, m)
            h == [n \in Nat |-> upTo(n)[n]]
<1>1. ASSUME NEW n \in Nat PROVE \A m \in 0 .. n : upTo(n)[m] = Digits(upTo(n), m) BY DigitsUpTo
<1>. HIDE DEF upTo
<1>2. ASSUME NEW n \in Nat PROVE h[n] = Digits(h, n)
  <2>1. h[n] = Digits(upTo(n), n) BY <1>1
  <2>2. ASSUME n >= 10 PROVE upTo(n)[n \div 10] = h[n \div 10]
    <3>. DEFINE q == n \div 10
    <3>1. q \in Nat /\ q \in 0 .. n /\ q \in 0 .. q /\ \A m \in 0 .. q : m \in 0 .. n BY <2>2, Quotient
    <3>. HIDE DEF q
    <3>2. \A m \in 0 .. q : upTo(n)[m] = Digits(upTo(n), m) BY <1>1, <3>1
    <3>3. \A m \in 0 .. q : upTo(q)[m] = Digits(upTo(q), m) BY <1>1, <3>1
    <3>4. upTo(n)[q] = upTo(q)[q] BY <3>1, <3>2, <3>3, DigitsUnique
    <3>5. h[q] = upTo(q)[q] BY <3>1
    <3>. QED BY <3>4, <3>5 DEF q
  <2>. HIDE DEF h
  <2>. QED BY <2>1, <2>2 DEF Digits
<1>3. h = [n \in Nat |-> Digits(h, n)]
  <2>1. h = [n \in Nat |-> h[n]] OBVIOUS
  <2>. HIDE DEF h
  <2>. QED BY <1>2, <2>1
<1>. HIDE DEF h
<1>4. DigitsFromRight = CHOOSE d : d = [n \in Nat |-> Digits(d, n)] BY DEF DigitsFromRight, Digits
<1>. QED BY <1>3, <1>4

(* The digits of n, the least first: each is the last digit of what is     *)
(* left of n, the last of them leaves nothing and is no zero that could go.*)
DigitsOf(D, n, R) ==
    /\ D \in Seq(0 .. 9) /\ Len(D) >= 1
    /\ R \in [0 .. Len(D) -> Nat] /\ R[0] = n /\ R[Len(D)] = 0
    /\ \A k \in 1 .. Len(D) : R[k - 1] = 10 * R[k] + D[k]
    /\ Len(D) > 1 => D[Len(D)] # 0

(* What format_rial writes from the right: the digits of the number.       *)
LEMMA DigitsFromRightAre ==
  ASSUME NEW n \in Nat
  PROVE  \E R : DigitsOf(DigitsFromRight[n], n, R)
<1>. DEFINE K == {m \in Nat : \E R : DigitsOf(DigitsFromRight[m], m, R)}
<1>1. ASSUME NEW m \in Nat, \A k \in 0 .. m - 1 : k \in K PROVE m \in K
  <2>1. DigitsFromRight[m] = IF m < 10 THEN <<m>> ELSE <<m % 10>> \o DigitsFromRight[m \div 10]
    BY DigitsFromRightDef DEF Digits
  <2>2. CASE m < 10
    <3>. DEFINE D == <<m>>
                R == [k \in 0 .. 1 |-> IF k = 0 THEN m ELSE 0]
    <3>1. D \in Seq(0 .. 9) /\ Len(D) = 1 /\ D[1] = m BY <2>2
    <3>2. R \in [0 .. 1 -> Nat] /\ R[0] = m /\ R[1] = 0 OBVIOUS
    <3>. HIDE DEF D, R
    <3>3. DigitsOf(D, m, R)
      <4>1. ASSUME NEW k \in 1 .. Len(D) PROVE R[k - 1] = 10 * R[k] + D[k]
        <5>1. k = 1 /\ k - 1 = 0 BY <3>1
        <5>. QED BY <3>1, <3>2, <5>1
      <4>. QED BY <3>1, <3>2, <4>1 DEF DigitsOf
    <3>. QED BY <2>1, <2>2, <3>3 DEF D
  <2>3. CASE m >= 10
    <3>. DEFINE q == m \div 10
                d == m % 10
                E == DigitsFromRight[q]
    <3>1. q \in 0 .. m - 1 /\ q \in Nat /\ q > 0 /\ d \in 0 .. 9 /\ m = 10 * q + d BY <2>3, Quotient
    <3>. DEFINE D == <<d>> \o E
    <3>2. DigitsFromRight[m] = D BY <2>1, <2>3
    <3>. HIDE DEF q, d
    <3>3. PICK S : DigitsOf(E, q, S) BY <1>1, <3>1
    <3>4. E \in Seq(0 .. 9) /\ Len(E) \in Nat /\ Len(E) >= 1 BY <3>3, LenProperties DEF DigitsOf
    <3>. HIDE DEF E
    <3>5. /\ D \in Seq(0 .. 9) /\ Len(D) = Len(E) + 1
          /\ \A k \in 1 .. Len(E) + 1 : D[k] = IF k = 1 THEN d ELSE E[k - 1]
      <4>1. <<d>> \in Seq(0 .. 9) /\ Len(<<d>>) = 1 /\ <<d>>[1] = d BY <3>1
      <4>. QED BY <3>4, <4>1, ConcatProperties
    <3>. HIDE DEF D
    <3>. DEFINE R == [k \in 0 .. Len(D) |-> IF k = 0 THEN m ELSE S[k - 1]]
    <3>6. \A k \in 1 .. Len(D) : k - 1 \in 0 .. Len(E) BY <3>4, <3>5
    <3>7. S \in [0 .. Len(E) -> Nat] /\ S[0] = q /\ S[Len(E)] = 0 BY <3>3 DEF DigitsOf
    <3>8. R \in [0 .. Len(D) -> Nat] /\ R[0] = m /\ \A k \in 1 .. Len(D) : R[k] = S[k - 1]
      <4>1. ASSUME NEW k \in 0 .. Len(D), k # 0 PROVE S[k - 1] \in Nat
        <5>1. k \in 1 .. Len(D) BY <3>4, <3>5, <4>1
        <5>. QED BY <3>6, <3>7, <5>1
      <4>2. 0 \in 0 .. Len(D) /\ \A k \in 1 .. Len(D) : k \in 0 .. Len(D) /\ k # 0 BY <3>4, <3>5
      <4>. QED BY <4>1, <4>2
    <3>. HIDE DEF R
    <3>9. ASSUME NEW k \in 1 .. Len(D) PROVE R[k - 1] = 10 * R[k] + D[k]
      <4>1. CASE k = 1
        <5>1. k - 1 = 0 /\ 1 \in 1 .. Len(D) BY <3>4, <3>5, <4>1
        <5>. QED BY <3>1, <3>5, <3>7, <3>8, <4>1, <5>1
      <4>2. CASE k # 1
        <5>1. k - 1 \in 1 .. Len(D) /\ k - 1 \in 1 .. Len(E) BY <3>4, <3>5, <4>2
        <5>2. S[(k - 1) - 1] = 10 * S[k - 1] + E[k - 1] BY <3>3, <5>1 DEF DigitsOf
        <5>. QED BY <3>5, <3>8, <4>2, <5>1, <5>2
      <4>. QED BY <4>1, <4>2
    <3>10. Len(D) \in 1 .. Len(D) /\ Len(D) # 1 /\ Len(D) - 1 = Len(E) BY <3>4, <3>5
    <3>11. R[Len(D)] = 0 BY <3>7, <3>8, <3>10
    <3>12. D[Len(D)] = E[Len(E)] BY <3>5, <3>10
    <3>13. Len(E) = 1 => E[Len(E)] # 0
      <4>1. ASSUME Len(E) = 1 PROVE S[0] = 10 * S[1] + E[1]
        <5>1. 1 \in 1 .. Len(E) /\ 1 - 1 = 0 BY <4>1
        <5>2. S[1 - 1] = 10 * S[1] + E[1] BY <3>3, <5>1 DEF DigitsOf
        <5>. QED BY <5>1, <5>2
      <4>2. Len(E) = 1 => E[1] \in 0 .. 9
        <5>1. Len(E) = 1 => 1 \in 1 .. Len(E) OBVIOUS
        <5>. QED BY <3>4, <5>1, ElementOfSeq
      <4>. QED BY <3>1, <3>7, <4>1, <4>2
    <3>14. E[Len(E)] # 0
      <4>1. Len(E) > 1 => E[Len(E)] # 0 BY <3>3 DEF DigitsOf
      <4>2. \A x \in Nat : x >= 1 => x = 1 \/ x > 1 OBVIOUS
      <4>. QED BY <3>4, <3>13, <4>1, <4>2, Zenon
    <3>15. Len(D) >= 1 BY <3>4, <3>5
    <3>16. DigitsOf(D, m, R) BY <3>5, <3>8, <3>9, <3>11, <3>12, <3>14, <3>15, Zenon DEF DigitsOf
    <3>. QED BY <3>2, <3>16
  <2>. QED BY <2>2, <2>3
<1>. HIDE DEF K
<1>2. Nat \subseteq K BY <1>1, NaturalsByInduction
<1>. QED BY <1>2 DEF K

(* The first k digits with their commas: every fourth character is one.    *)
Width(k) == IF k = 0 THEN 0 ELSE k + (k - 1) \div 3
Grouped(digits, k) == [q \in 1 .. Width(k) |-> IF q % 4 = 0 THEN COMMA ELSE digits[q - (q \div 4)]]

LEMMA WidthGrows ==
  ASSUME NEW k \in Nat, k > 0
  PROVE  /\ Width(k) \in Nat /\ Width(k - 1) \in Nat
         /\ Width(k) = Width(k - 1) + (IF CommaBefore(k - 1) THEN 2 ELSE 1)
         /\ Width(k) % 4 # 0 /\ Width(k) - (Width(k) \div 4) = k
         /\ CommaBefore(k - 1) => (Width(k) - 1) % 4 = 0
         /\ Width(k) > 1 => k > 1
<1>1. CASE k = 1 BY <1>1 DEF Width, CommaBefore
<1>2. CASE k > 1 BY <1>2 DEF Width, CommaBefore
<1>. QED BY <1>1, <1>2

(* The text pushed so far is a sequence of digits and commas.              *)
LEMMA GroupedSeq ==
  ASSUME NEW Ch, COMMA \in Ch, NEW digits, NEW k \in Nat, \A j \in 1 .. k : digits[j] \in Ch,
         NEW G, G = Grouped(digits, k)
  PROVE  /\ G \in Seq(Ch) /\ Len(G) = Width(k)
         /\ \A q \in 1 .. Width(k) : G[q] = IF q % 4 = 0 THEN COMMA ELSE digits[q - (q \div 4)]
<1>1. /\ Width(k) \in Nat
      /\ k > 0 => Width(k) % 4 # 0 /\ Width(k) - (Width(k) \div 4) = k
      /\ k = 0 => Width(k) = 0
  BY WidthGrows DEF Width
<1>2. ASSUME NEW q \in 1 .. Width(k), q % 4 # 0 PROVE q - (q \div 4) \in 1 .. k
  <2>1. k > 0 BY <1>1, <1>2
  <2>. DEFINE w == Width(k)
  <2>2. w \in Nat /\ w % 4 # 0 /\ w - (w \div 4) = k /\ q \in 1 .. w BY <1>1, <2>1
  <2>. HIDE DEF w
  <2>. QED BY <1>2, <2>2
<1>3. G \in [1 .. Width(k) -> Ch]
  <2>1. ASSUME NEW q \in 1 .. Width(k) PROVE (IF q % 4 = 0 THEN COMMA ELSE digits[q - (q \div 4)]) \in Ch
    BY <1>2
  <2>. QED BY <2>1 DEF Grouped
<1>4. \A q \in 1 .. Width(k) : G[q] = IF q % 4 = 0 THEN COMMA ELSE digits[q - (q \div 4)] BY DEF Grouped
<1>5. G \in Seq(Ch) BY <1>1, <1>3, SeqDef
<1>6. Len(G) = Width(k)
  <2>1. DOMAIN G = 1 .. Width(k) BY <1>3
  <2>2. Len(G) \in Nat /\ DOMAIN G = 1 .. Len(G) BY <1>5, LenProperties
  <2>. QED BY <1>1, <2>1, <2>2
<1>. QED BY <1>4, <1>5, <1>6

(* One turn of format_rial's loop: a comma, if one is due, and a digit.    *)
LEMMA Pushing ==
  ASSUME NEW Ch, NEW F \in Seq(Ch), NEW c \in Seq(Ch), NEW d \in Ch,
         NEW H, H = F \o c \o <<d>>
  PROVE  /\ H \in Seq(Ch) /\ Len(H) = Len(F) + Len(c) + 1
         /\ Len(F) \in Nat /\ Len(c) \in Nat
         /\ \A q \in 1 .. Len(F) : H[q] = F[q]
         /\ \A q \in Len(F) + 1 .. Len(F) + Len(c) : H[q] = c[q - Len(F)]
         /\ H[Len(F) + Len(c) + 1] = d
<1>1. /\ F \o c \in Seq(Ch) /\ Len(F \o c) = Len(F) + Len(c)
      /\ \A q \in 1 .. Len(F) + Len(c) : (F \o c)[q] = IF q <= Len(F) THEN F[q] ELSE c[q - Len(F)]
  BY ConcatProperties
<1>2. Len(F) \in Nat /\ Len(c) \in Nat BY LenProperties
<1>3. <<d>> \in Seq(Ch) /\ Len(<<d>>) = 1 /\ <<d>>[1] = d OBVIOUS
<1>4. ASSUME NEW B \in Seq(Ch), Len(B) = Len(F) + Len(c)
      PROVE  /\ B \o <<d>> \in Seq(Ch) /\ Len(B \o <<d>>) = Len(F) + Len(c) + 1
             /\ \A q \in 1 .. Len(F) + Len(c) : (B \o <<d>>)[q] = B[q]
             /\ (B \o <<d>>)[Len(F) + Len(c) + 1] = d
  <2>1. /\ B \o <<d>> \in Seq(Ch) /\ Len(B \o <<d>>) = Len(B) + 1
        /\ \A q \in 1 .. Len(B) + 1 : (B \o <<d>>)[q] = IF q <= Len(B) THEN B[q] ELSE <<d>>[q - Len(B)]
    BY <1>3, ConcatProperties
  <2>2. ASSUME NEW q \in 1 .. Len(F) + Len(c) PROVE (B \o <<d>>)[q] = B[q]
    <3>1. q \in 1 .. Len(B) + 1 /\ q <= Len(B) BY <1>2, <1>4
    <3>. QED BY <2>1, <3>1
  <2>3. (B \o <<d>>)[Len(F) + Len(c) + 1] = d
    <3>1. /\ Len(B) + 1 \in 1 .. Len(B) + 1 /\ ~(Len(B) + 1 <= Len(B)) /\ (Len(B) + 1) - Len(B) = 1
      BY <1>2, <1>4
    <3>2. (B \o <<d>>)[Len(B) + 1] = <<d>>[1] BY <2>1, <3>1
    <3>. QED BY <1>3, <1>4, <3>2
  <2>. QED BY <1>4, <2>1, <2>2, <2>3
<1>5. ASSUME NEW q \in 1 .. Len(F) PROVE (F \o c)[q] = F[q] /\ q \in 1 .. Len(F) + Len(c) BY <1>1, <1>2
<1>6. ASSUME NEW q \in Len(F) + 1 .. Len(F) + Len(c)
      PROVE  (F \o c)[q] = c[q - Len(F)] /\ q \in 1 .. Len(F) + Len(c)
  <2>1. q \in 1 .. Len(F) + Len(c) /\ ~(q <= Len(F)) BY <1>2
  <2>. QED BY <1>1, <2>1
<1>. QED BY <1>1, <1>2, <1>4, <1>5, <1>6

LEMMA GroupGrows ==
  ASSUME NEW Ch, COMMA \in Ch, NEW digits, NEW k \in Nat, k > 0, \A j \in 1 .. k : digits[j] \in Ch
  PROVE  Grouped(digits, k) = Grouped(digits, k - 1)
                                \o (IF CommaBefore(k - 1) THEN <<COMMA>> ELSE << >>) \o <<digits[k]>>
<1>1. /\ k - 1 \in Nat /\ Width(k) \in Nat /\ Width(k - 1) \in Nat
      /\ Width(k) = Width(k - 1) + (IF CommaBefore(k - 1) THEN 2 ELSE 1)
      /\ Width(k) % 4 # 0 /\ Width(k) - (Width(k) \div 4) = k
      /\ CommaBefore(k - 1) => (Width(k) - 1) % 4 = 0
  BY WidthGrows
<1>2. PICK C : C = IF CommaBefore(k - 1) THEN <<COMMA>> ELSE << >> OBVIOUS
<1>3. /\ C \in Seq(Ch) /\ Width(k) = Width(k - 1) + Len(C) + 1 /\ Len(C) \in 0 .. 1
      /\ Len(C) = 1 => C[1] = COMMA /\ (Width(k) - 1) % 4 = 0
  <2>1. CASE CommaBefore(k - 1)
    <3>1. C = <<COMMA>> BY <1>2, <2>1
    <3>. QED BY <1>1, <2>1, <3>1
  <2>2. CASE ~CommaBefore(k - 1)
    <3>1. C = << >> BY <1>2, <2>2
    <3>2. Width(k) = Width(k - 1) + 1 BY <1>1, <2>2
    <3>. QED BY <1>1, <3>1, <3>2
  <2>. QED BY <2>1, <2>2
<1>4. PICK F : F = Grouped(digits, k - 1) OBVIOUS
<1>5. F \in Seq(Ch) /\ Len(F) = Width(k - 1)
      /\ \A q \in 1 .. Width(k - 1) : F[q] = IF q % 4 = 0 THEN COMMA ELSE digits[q - (q \div 4)]
  <2>1. PICK j \in Nat : j = k - 1 BY <1>1
  <2>2. F = Grouped(digits, j) BY <1>4, <2>1
  <2>3. \A i \in 1 .. j : digits[i] \in Ch BY <2>1
  <2>4. F \in Seq(Ch) /\ Len(F) = Width(j)
        /\ \A q \in 1 .. Width(j) : F[q] = IF q % 4 = 0 THEN COMMA ELSE digits[q - (q \div 4)]
    <3>1. F \in Seq(Ch) /\ Len(F) = Width(j) BY <2>2, <2>3, GroupedSeq
    <3>. QED BY <2>2, <3>1 DEF Grouped
  <2>. QED BY <2>1, <2>4
<1>6. PICK G : G = Grouped(digits, k) OBVIOUS
<1>7. G \in Seq(Ch) /\ Len(G) = Width(k)
      /\ \A q \in 1 .. Width(k) : G[q] = IF q % 4 = 0 THEN COMMA ELSE digits[q - (q \div 4)]
  <2>1. G \in Seq(Ch) /\ Len(G) = Width(k) BY <1>6, GroupedSeq
  <2>. QED BY <1>6, <2>1 DEF Grouped
<1>8. PICK H : H = F \o C \o <<digits[k]>> OBVIOUS
<1>9. digits[k] \in Ch OBVIOUS
<1>10. /\ H \in Seq(Ch) /\ Len(H) = Len(F) + Len(C) + 1
       /\ \A q \in 1 .. Len(F) : H[q] = F[q]
       /\ \A q \in Len(F) + 1 .. Len(F) + Len(C) : H[q] = C[q - Len(F)]
       /\ H[Len(F) + Len(C) + 1] = digits[k]
  <2>1. F \in Seq(Ch) /\ C \in Seq(Ch) BY <1>3, <1>5
  <2>2. PICK d \in Ch : d = digits[k] BY <1>9
  <2>3. H = F \o C \o <<d>> BY <1>8, <2>2
  <2>4. /\ H \in Seq(Ch) /\ Len(H) = Len(F) + Len(C) + 1
        /\ \A q \in 1 .. Len(F) : H[q] = F[q]
        /\ \A q \in Len(F) + 1 .. Len(F) + Len(C) : H[q] = C[q - Len(F)]
        /\ H[Len(F) + Len(C) + 1] = d
    BY <2>1, <2>3, Pushing
  <2>. QED BY <2>2, <2>4
<1>11. ASSUME NEW q \in 1 .. Width(k) PROVE G[q] = H[q]
  <2>1. CASE q = Width(k) BY <1>1, <1>3, <1>5, <1>7, <1>10, <2>1
  <2>2. CASE q <= Width(k - 1)
    <3>1. q \in 1 .. Width(k - 1) BY <1>1, <2>2
    <3>. QED BY <1>5, <1>7, <1>10, <3>1
  <2>3. CASE q < Width(k) /\ ~(q <= Width(k - 1))
    <3>1. Len(C) = 1 /\ q = Width(k) - 1 /\ q = Width(k - 1) + 1
      <4>1. \A a, b \in Nat, c \in 0 .. 1 :
              b = a + c + 1 /\ q < b /\ ~(q <= a) => c = 1 /\ q = b - 1 /\ q = a + 1
        OBVIOUS
      <4>. QED BY <1>1, <1>3, <2>3, <4>1
    <3>2. q \in Len(F) + 1 .. Len(F) + Len(C) /\ q - Len(F) = 1 BY <1>1, <1>5, <3>1
    <3>3. H[q] = COMMA BY <1>3, <1>10, <3>1, <3>2
    <3>. QED BY <1>3, <1>7, <3>1, <3>3
  <2>. QED BY <1>1, <2>1, <2>2, <2>3
<1>12. G = H BY <1>3, <1>5, <1>7, <1>10, <1>11, SeqEqual
<1>. QED BY <1>2, <1>4, <1>6, <1>8, <1>12

(* What the loop of format_rial has pushed at its end.                     *)
LEMMA PushedGroups ==
  ASSUME NEW digits \in Seq(0 .. 9)
  PROVE  Pushed(digits) = Grouped(digits, Len(digits))
<1>. DEFINE s == Len(digits)
            Push(before, k) == before \o (IF CommaBefore(k - 1) THEN <<COMMA>> ELSE << >>) \o <<digits[k]>>
            w == [k \in 0 .. s |-> Grouped(digits, k)]
            Ch == 0 .. 9 \cup {COMMA}
<1>1. s \in Nat /\ COMMA \in Ch /\ \A k \in 1 .. s : digits[k] \in Ch BY LenProperties, ElementOfSeq
<1>. HIDE DEF Ch
<1>2. ASSUME NEW k \in 1 .. s PROVE Grouped(digits, k) = Push(Grouped(digits, k - 1), k)
  <2>1. k \in Nat /\ k > 0 /\ k - 1 \in Nat /\ \A j \in 1 .. k : j \in 1 .. s BY <1>1
  <2>2. \A j \in 1 .. k : digits[j] \in Ch BY <1>1, <2>1
  <2>. QED BY <1>1, <2>1, <2>2, GroupGrows, Zenon
<1>3. Grouped(digits, 0) = << >>
  <2>1. 1 .. Width(0) = {} BY DEF Width
  <2>2. Grouped(digits, 0) = [q \in {} |-> IF q % 4 = 0 THEN COMMA ELSE digits[q - (q \div 4)]]
    BY <2>1 DEF Grouped
  <2>. QED BY <2>2
<1>. DEFINE Loop(output) == [k \in 0 .. s |-> IF k = 0 THEN << >> ELSE Push(output[k - 1], k)]
            out == CHOOSE output : output = Loop(output)
<1>4. w = Loop(w)
  <2>1. ASSUME NEW k \in 0 .. s PROVE w[k] = Loop(w)[k]
    <3>1. CASE k = 0 BY <1>3, <3>1
    <3>2. CASE k # 0
      <4>1. k \in 1 .. s /\ k - 1 \in 0 .. s BY <1>1, <3>2
      <4>2. w[k - 1] = Grouped(digits, k - 1) /\ w[k] = Grouped(digits, k) BY <4>1
      <4>3. Loop(w)[k] = Push(w[k - 1], k) BY <3>2
      <4>. HIDE DEF w, Push, Loop
      <4>. QED BY <1>2, <4>1, <4>2, <4>3
    <3>. QED BY <3>1, <3>2
  <2>2. w = [k \in 0 .. s |-> w[k]] /\ Loop(w) = [k \in 0 .. s |-> Loop(w)[k]] OBVIOUS
  <2>. HIDE DEF w, Loop
  <2>. QED BY <2>1, <2>2
<1>5. out = Loop(out)
  <2>. HIDE DEF w, Loop
  <2>. QED BY <1>4
<1>6. Pushed(digits) = out[s] BY DEF Pushed
<1>. DEFINE K == {k \in Nat : k <= s => out[k] = Grouped(digits, k)}
<1>. HIDE DEF out
<1>7. ASSUME NEW k \in Nat, \A m \in 0 .. k - 1 : m \in K PROVE k \in K
  <2>1. SUFFICES ASSUME k <= s PROVE out[k] = Grouped(digits, k) OBVIOUS
  <2>2. k \in 0 .. s BY <1>1, <2>1
  <2>3. CASE k = 0
    <3>1. out[k] = << >> BY <1>5, <2>2, <2>3
    <3>. QED BY <1>3, <2>3, <3>1
  <2>4. CASE k # 0
    <3>1. k \in 1 .. s /\ k - 1 \in 0 .. k - 1 /\ k - 1 <= s /\ k - 1 \in Nat BY <1>1, <2>1, <2>4
    <3>2. out[k - 1] = Grouped(digits, k - 1) BY <1>7, <3>1
    <3>3. out[k] = Push(out[k - 1], k) BY <1>5, <2>2, <2>4
    <3>. HIDE DEF Push
    <3>. QED BY <1>2, <3>1, <3>2, <3>3
  <2>. QED BY <2>3, <2>4
<1>. HIDE DEF K
<1>8. Nat \subseteq K BY <1>7, NaturalsByInduction
<1>9. out[s] = Grouped(digits, s) BY <1>1, <1>8 DEF K
<1>. QED BY <1>6, <1>9

LEMMA WithoutCommas ==
  ASSUME NEW n \in Nat, NEW q \in 1 .. n, q % 4 # 0
  PROVE  /\ (q - 1) - ((q - 1) \div 4) = (q - (q \div 4)) - 1
         /\ q - (q \div 4) \in 1 .. n - (n \div 4)
OBVIOUS

LEMMA AtAComma ==
  ASSUME NEW q \in Nat, q > 0, q % 4 = 0
  PROVE  (q - 1) - ((q - 1) \div 4) = q - (q \div 4)
OBVIOUS

LEMMA FromTheRight ==
  ASSUME NEW l \in Nat, NEW k \in 1 .. l
  PROVE  /\ l + 1 - k \in 1 .. l
         /\ l - (k - 1) = l + 1 - k
         /\ l - k = (l + 1 - k) - 1
OBVIOUS

(* What Width says of a number of digits, for a text as long as that.      *)
LEMMA WidthOf ==
  ASSUME NEW m \in Nat, m > 0, NEW l, l = Width(m)
  PROVE  l \in Nat /\ l % 4 # 0 /\ l - (l \div 4) = m
<1>1. Width(m) \in Nat /\ Width(m) % 4 # 0 /\ Width(m) - (Width(m) \div 4) = m BY WidthGrows
<1>. QED BY <1>1, Zenon

(* A number written so reads as the number.                                *)
LEMMA ReadsBack ==
  ASSUME NEW D, NEW n, NEW R, DigitsOf(D, n, R), NEW text \in Seq(0 .. 9 \cup {COMMA}),
         Len(text) = Width(Len(D)),
         \A k \in 1 .. Len(text) :
            LET q == Len(text) + 1 - k
            IN  text[k] = IF q % 4 = 0 THEN COMMA ELSE D[q - (q \div 4)]
  PROVE  ReadFromLeft(text) = n
<1>. DEFINE Left(q) == q - (q \div 4)
            Read(before, k) == IF text[k] = COMMA THEN before ELSE 10 * before + text[k]
            Loop(value) == [k \in 0 .. Len(text) |-> IF k = 0 THEN 0 ELSE Read(value[k - 1], k)]
            value == CHOOSE v : v = Loop(v)
            w == [k \in 0 .. Len(text) |-> R[Left(Len(text) - k)]]
<1>1. /\ Len(D) \in Nat /\ Len(D) >= 1 /\ R \in [0 .. Len(D) -> Nat] /\ R[0] = n /\ R[Len(D)] = 0
      /\ \A k \in 1 .. Len(D) : R[k - 1] = 10 * R[k] + D[k] /\ D[k] \in 0 .. 9
  BY LenProperties, ElementOfSeq DEF DigitsOf
<1>2. Len(text) \in Nat /\ Len(text) % 4 # 0 /\ Left(Len(text)) = Len(D)
  BY <1>1, WidthOf, SMTT(30)
<1>3. COMMA \notin 0 .. 9 BY CharactersAssumption
<1>4. ASSUME NEW k \in 1 .. Len(text)
      PROVE  R[Left(Len(text) - k)] = Read(R[Left(Len(text) - (k - 1))], k)
  <2>. DEFINE q == Len(text) + 1 - k
  <2>1. /\ q \in 1 .. Len(text) /\ Len(text) - (k - 1) = q /\ Len(text) - k = q - 1 BY <1>2, FromTheRight
  <2>2. text[k] = IF q % 4 = 0 THEN COMMA ELSE D[Left(q)] OBVIOUS
  <2>. HIDE DEF q
  <2>3. CASE q % 4 = 0
    <3>1. q \in Nat /\ q > 0 BY <1>2, <2>1
    <3>2. Left(q - 1) = Left(q) BY <2>3, <3>1, AtAComma
    <3>. QED BY <2>1, <2>2, <2>3, <3>2
  <2>4. CASE q % 4 # 0
    <3>1. Left(q - 1) = Left(q) - 1 /\ Left(q) \in 1 .. Left(Len(text)) BY <1>2, <2>1, <2>4, WithoutCommas
    <3>2. Left(q) \in 1 .. Len(D) BY <1>2, <3>1
    <3>. HIDE DEF Left
    <3>3. text[k] = D[Left(q)] /\ D[Left(q)] \in 0 .. 9 BY <1>1, <2>2, <2>4, <3>2
    <3>4. R[Left(q) - 1] = 10 * R[Left(q)] + D[Left(q)] BY <1>1, <3>2
    <3>. QED BY <1>3, <2>1, <3>1, <3>3, <3>4
  <2>. QED BY <2>3, <2>4
<1>. HIDE DEF Left, Read
<1>5. w = Loop(w)
  <2>1. ASSUME NEW k \in 0 .. Len(text) PROVE w[k] = Loop(w)[k]
    <3>1. CASE k = 0
      <4>1. Len(text) - 0 = Len(text) BY <1>2
      <4>2. w[0] = R[Left(Len(text))] BY <1>2, <4>1
      <4>. QED BY <1>1, <1>2, <3>1, <4>2
    <3>2. CASE k # 0
      <4>1. k \in 1 .. Len(text) /\ k - 1 \in 0 .. Len(text) BY <1>2, <3>2
      <4>2. w[k - 1] = R[Left(Len(text) - (k - 1))] /\ w[k] = R[Left(Len(text) - k)] BY <4>1
      <4>3. Loop(w)[k] = Read(w[k - 1], k) BY <3>2
      <4>. HIDE DEF w, Loop
      <4>. QED BY <1>4, <4>1, <4>2, <4>3
    <3>. QED BY <3>1, <3>2
  <2>2. w = [k \in 0 .. Len(text) |-> w[k]] /\ Loop(w) = [k \in 0 .. Len(text) |-> Loop(w)[k]] OBVIOUS
  <2>. HIDE DEF w, Loop
  <2>. QED BY <2>1, <2>2
<1>6. value = Loop(value)
  <2>. HIDE DEF w, Loop
  <2>. QED BY <1>5
<1>7. ReadFromLeft(text) = value[Len(text)] BY DEF ReadFromLeft, Read
<1>. DEFINE K == {k \in Nat : k <= Len(text) => value[k] = R[Left(Len(text) - k)]}
<1>. HIDE DEF value
<1>8. ASSUME NEW k \in Nat, \A m \in 0 .. k - 1 : m \in K PROVE k \in K
  <2>1. SUFFICES ASSUME k <= Len(text) PROVE value[k] = R[Left(Len(text) - k)] OBVIOUS
  <2>2. k \in 0 .. Len(text) BY <1>2, <2>1
  <2>3. CASE k = 0
    <3>1. value[k] = 0 BY <1>6, <2>2, <2>3
    <3>2. Len(text) - k = Len(text) BY <1>2, <2>3
    <3>. QED BY <1>1, <1>2, <3>1, <3>2
  <2>4. CASE k # 0
    <3>1. k \in 1 .. Len(text) /\ k - 1 \in 0 .. k - 1 /\ k - 1 <= Len(text) /\ k - 1 \in Nat
      BY <1>2, <2>1, <2>4
    <3>2. value[k - 1] = R[Left(Len(text) - (k - 1))] BY <1>8, <3>1
    <3>3. value[k] = Read(value[k - 1], k) BY <1>6, <2>2, <2>4
    <3>. QED BY <1>4, <3>1, <3>2, <3>3
  <2>. QED BY <2>3, <2>4
<1>. HIDE DEF K
<1>9. Nat \subseteq K BY <1>8, NaturalsByInduction
<1>10. value[Len(text)] = R[Left(Len(text) - Len(text))] BY <1>2, <1>9 DEF K
<1>11. Left(Len(text) - Len(text)) = 0 BY <1>2 DEF Left
<1>. QED BY <1>1, <1>7, <1>10, <1>11

LEMMA Backwards ==
  ASSUME NEW S, NEW s \in Seq(S), NEW r, r = Reverse(s)
  PROVE  r \in Seq(S) /\ Len(r) = Len(s) /\ \A i \in 1 .. Len(s) : r[i] = s[Len(s) + 1 - i]
<1>1. r \in Seq(S) /\ Len(r) = Len(s) BY Reversed
<1>2. ASSUME NEW i \in 1 .. Len(s) PROVE r[i] = s[Len(s) + 1 - i]
  <2>1. (Len(s) - i) + 1 = Len(s) + 1 - i BY LenProperties
  <2>. QED BY <2>1 DEF Reverse
<1>. QED BY <1>1, <1>2

(* format_rial, for every i64 but the least, and whatever the width.       *)
THEOREM SumsAreReadable ==
  ASSUME input.fn = "rial" => input.amount \in -Half .. Half - 1
  PROVE  RialReadable
<1>0. SUFFICES ASSUME input.fn = "rial", input.amount # -Half PROVE RialReadable
  BY DEF RialReadable
<1>1. PICK amount \in Int : amount = input.amount /\ amount # -Half BY <1>0, HalfAssumption
<1>2. PICK n \in Nat : n = (IF amount < 0 THEN -amount ELSE amount) /\ Abs(amount) = n
  BY <1>1 DEF Abs
<1>3. PICK D, R : D = TextFromRight(Abs(amount)) /\ DigitsOf(D, n, R)
  <2>1. TextFromRight(Abs(amount)) = DigitsFromRight[n] BY <1>2 DEF TextFromRight
  <2>. QED BY <2>1, DigitsFromRightAre
<1>4. PICK Ch : Ch = 0 .. 9 \cup {COMMA} OBVIOUS
<1>5. Len(D) \in Nat /\ Len(D) >= 1 /\ D \in Seq(0 .. 9) /\ \A k \in 1 .. Len(D) : D[k] \in 0 .. 9
  BY <1>3, LenProperties, ElementOfSeq DEF DigitsOf
<1>6. PICK L \in Nat : L = Width(Len(D)) /\ L % 4 # 0 /\ L - (L \div 4) = Len(D) /\ (L > 1 => Len(D) > 1)
  <2>1. Len(D) \in Nat /\ Len(D) > 0 BY <1>5
  <2>2. /\ Width(Len(D)) \in Nat /\ Width(Len(D)) % 4 # 0 /\ Width(Len(D)) - (Width(Len(D)) \div 4) = Len(D)
        /\ Width(Len(D)) > 1 => Len(D) > 1
    BY <2>1, WidthGrows
  <2>. QED BY <2>2, Zenon
<1>7. PICK P : P = Pushed(D) OBVIOUS
<1>8. /\ P \in Seq(Ch) /\ Len(P) = L
      /\ \A q \in 1 .. L : P[q] = IF q % 4 = 0 THEN COMMA ELSE D[q - (q \div 4)]
  <2>1. P = Grouped(D, Len(D)) BY <1>5, <1>7, PushedGroups
  <2>2. COMMA \in Ch /\ \A j \in 1 .. Len(D) : D[j] \in Ch BY <1>4, <1>5
  <2>3. Len(D) \in Nat BY <1>5
  <2>4. PICK k \in Nat : k = Len(D) BY <2>3
  <2>5. P = Grouped(D, k) /\ \A j \in 1 .. k : D[j] \in Ch BY <2>1, <2>2, <2>4
  <2>6. P \in Seq(Ch) /\ Len(P) = Width(k) BY <2>2, <2>5, GroupedSeq, SMTT(30)
  <2>7. \A q \in 1 .. Width(k) : P[q] = IF q % 4 = 0 THEN COMMA ELSE D[q - (q \div 4)]
    BY <2>5 DEF Grouped
  <2>. QED BY <1>6, <2>4, <2>6, <2>7, Zenon
<1>9. PICK shown : shown = Reverse(P) OBVIOUS
<1>10. /\ shown \in Seq(Ch) /\ Len(shown) = L /\ DOMAIN shown = 1 .. L
       /\ \A i \in 1 .. L : shown[i] = P[L + 1 - i]
  BY <1>8, <1>9, Backwards, LenProperties
<1>11. ASSUME NEW i \in 1 .. L
       PROVE  LET q == L + 1 - i IN
              /\ shown[i] = IF q % 4 = 0 THEN COMMA ELSE D[q - (q \div 4)]
              /\ q % 4 # 0 => D[q - (q \div 4)] \in 0 .. 9
  <2>1. PICK q \in 1 .. L : q = L + 1 - i OBVIOUS
  <2>2. shown[i] = IF q % 4 = 0 THEN COMMA ELSE D[q - (q \div 4)] BY <1>8, <1>10, <2>1
  <2>3. q % 4 # 0 => q - (q \div 4) \in 1 .. L - (L \div 4) BY <2>1, WithoutCommas
  <2>4. q % 4 # 0 => D[q - (q \div 4)] \in 0 .. 9 BY <1>5, <1>6, <2>3
  <2>. QED BY <2>1, <2>2, <2>4
<1>12. {COMMA, MINUS} \cap 0 .. 9 = {} BY CharactersAssumption
<1>13. L >= 1 /\ shown[1] = D[Len(D)] /\ shown[1] \in 0 .. 9
  <2>1. L >= 1 BY <1>5, <1>6
  <2>2. 1 \in 1 .. L /\ L + 1 - 1 = L BY <2>1
  <2>. QED BY <1>5, <1>6, <1>11, <2>1, <2>2
<1>14. Len(shown) > 1 => shown[1] # 0 BY <1>3, <1>6, <1>10, <1>13 DEF DigitsOf
<1>15. ASSUME NEW k \in DOMAIN shown PROVE shown[k] = COMMA <=> (Len(shown) - k) % 4 = 3
  <2>1. k \in 1 .. L BY <1>10
  <2>2. (L + 1 - k) % 4 = 0 <=> (L - k) % 4 = 3 BY <2>1
  <2>. QED BY <1>10, <1>11, <1>12, <2>1, <2>2
<1>16. ReadFromLeft(shown) = n
  <2>1. \A k \in 1 .. Len(shown) :
          LET q == Len(shown) + 1 - k IN shown[k] = IF q % 4 = 0 THEN COMMA ELSE D[q - (q \div 4)]
    BY <1>10, <1>11
  <2>. QED BY <1>3, <1>4, <1>6, <1>10, <2>1, ReadsBack
<1>17. PICK text : text = FormatRial(amount) OBVIOUS
<1>18. /\ text[1] = MINUS <=> amount < 0
       /\ amount < 0 => Tail(text) = shown
       /\ ~(amount < 0) => text = shown
  <2>1. CASE amount < 0
    <3>1. PICK M, C : M = P \o <<MINUS>> /\ C = Ch \cup {MINUS} OBVIOUS
    <3>2. text = Reverse(M) BY <1>2, <1>3, <1>7, <1>17, <2>1, <3>1 DEF FormatRial
    <3>3. <<MINUS>> \in Seq(C) /\ Len(<<MINUS>>) = 1 /\ <<MINUS>>[1] = MINUS BY <3>1
    <3>4. P \in Seq(C) /\ shown \in Seq(C) BY <1>8, <1>10, <3>1, SeqMonotonic
    <3>5. /\ M \in Seq(C) /\ Len(M) = L + 1
          /\ \A q \in 1 .. L + 1 : M[q] = IF q <= L THEN P[q] ELSE <<MINUS>>[q - L]
      BY <1>8, <3>1, <3>3, <3>4, ConcatProperties
    <3>6. /\ text \in Seq(C) /\ Len(text) = L + 1
          /\ \A i \in 1 .. L + 1 : text[i] = M[L + 1 + 1 - i]
      BY <3>2, <3>5, Backwards
    <3>7. text[1] = MINUS
      <4>1. /\ 1 \in 1 .. L + 1 /\ L + 1 + 1 - 1 = L + 1
            /\ L + 1 \in 1 .. L + 1 /\ ~(L + 1 <= L) /\ (L + 1) - L = 1
        OBVIOUS
      <4>2. text[1] = M[L + 1] BY <3>6, <4>1
      <4>3. M[L + 1] = <<MINUS>>[1] BY <3>5, <4>1
      <4>. QED BY <3>3, <4>2, <4>3
    <3>8. /\ Tail(text) \in Seq(C) /\ Len(Tail(text)) = L
          /\ \A i \in 1 .. L : Tail(text)[i] = text[i + 1]
      <4>1. text # << >> BY <3>6, EmptySeq
      <4>2. Len(text) - 1 = L BY <3>6
      <4>. QED BY <3>6, <4>1, <4>2, HeadTailProperties
    <3>9. ASSUME NEW i \in 1 .. L PROVE Tail(text)[i] = shown[i]
      <4>1. /\ i + 1 \in 1 .. L + 1 /\ L + 1 + 1 - (i + 1) = L + 1 - i /\ L + 1 - i \in 1 .. L + 1
            /\ L + 1 - i <= L
        OBVIOUS
      <4>2. text[i + 1] = P[L + 1 - i] BY <3>5, <3>6, <4>1
      <4>. QED BY <1>10, <3>8, <4>2
    <3>10. Tail(text) = shown BY <1>10, <3>4, <3>8, <3>9, SeqEqual
    <3>. QED BY <2>1, <3>7, <3>10
  <2>2. CASE ~(amount < 0)
    <3>1. text = Reverse(P \o << >>) BY <1>2, <1>3, <1>7, <1>17, <2>2 DEF FormatRial
    <3>2. P \o << >> = P BY <1>8, ConcatEmptySeq
    <3>3. text = shown BY <1>9, <3>1, <3>2
    <3>4. text[1] # MINUS BY <1>12, <1>13, <3>3
    <3>. QED BY <2>2, <3>3, <3>4
  <2>. QED BY <2>1, <2>2
<1>19. shown = IF text[1] = MINUS THEN Tail(text) ELSE text BY <1>18
<1>20. amount = IF text[1] = MINUS THEN -ReadFromLeft(shown) ELSE ReadFromLeft(shown) BY <1>2, <1>16, <1>18
<1>21. shown[1] # COMMA BY <1>12, <1>13
<1>. QED BY <1>1, <1>14, <1>15, <1>17, <1>19, <1>20, <1>21, Zenon DEF RialReadable

================================================================================
