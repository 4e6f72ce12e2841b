----------------------------- MODULE TextHelpers -----------------------------
(***************************************************************************)
(* The pure parts that decide what is accepted and shown, format_rial and  *)
(* parse_target_username of src/telegram/mod.rs, on inputs around their    *)
(* limits.  Texts are sequences of characters; "a" stands for the ASCII    *)
(* letters, digits and the underscore.                                     *)
(***************************************************************************)
EXTENDS Integers, SequencesExt

CONSTANTS
    Half,        \* an i64 is one of -Half .. Half - 1
    Magnitude,   \* sums around the powers of 10 up to 10^Magnitude are tried
    NONE,        \* Option::None
    COMMA, MINUS \* characters beside the digits

ASSUME HalfAssumption == Half \in Nat \ {0}
ASSUME CharactersAssumption == {COMMA, MINUS} \cap 0 .. 9 = {}

VARIABLE input   \* what one of the functions is given

-----------------------------------------------------------------------------
(* format_rial.  The least digit comes first, as in digits.chars().rev(). *)
DigitsFromRight[n \in Nat] == IF n < 10 THEN <<n>> ELSE <<n % 10>> \o DigitsFromRight[n \div 10]

(* A bug: the index is counted from one.                                   *)
CommaOneEarly(index) == index > 0 /\ (index + 1) % 3 = 0

CommaBefore(index) == index > 0 /\ index % 3 = 0

Pushed(digits) ==
    LET output[k \in 0 .. Len(digits)] ==
          IF k = 0 THEN << >>
          ELSE output[k - 1] \o (IF CommaBefore(k - 1) THEN <<COMMA>> ELSE << >>) \o <<digits[k]>>
    IN  output[Len(digits)]

(* i64::abs: the least i64 has no positive counterpart.  The build of the  *)
(* Dockerfile, --release, wraps around to it; a debug build panics.        *)
Abs(amount) == IF amount < 0 /\ amount # -Half THEN -amount ELSE amount

(* to_string, read from the right.                                         *)
TextFromRight(n) == IF n < 0 THEN DigitsFromRight[-n] \o <<MINUS>> ELSE DigitsFromRight[n]

FormatRial(amount) ==
    LET output == Pushed(TextFromRight(Abs(amount)))
    IN  Reverse(output \o (IF amount < 0 THEN <<MINUS>> ELSE << >>))

-----------------------------------------------------------------------------
(* parse_target_username.                                                  *)
TrimStart(s) == LET k == {n \in DOMAIN s : s[n] # " "}
                IN  IF k = {} THEN << >> ELSE SubSeq(s, Min(k), Len(s))
Trim(s) == Reverse(TrimStart(Reverse(TrimStart(s))))

(* len() counts bytes; "wide" is a character of two, such as "é".           *)
Bytes(s) == Len(s) + Cardinality({k \in DOMAIN s : s[k] = "wide"})

(* A bug: the length is compared with the '@' still there.                 *)
LengthWithAt(name) == Bytes(name) + 1 \in 5 .. 32

LengthOK(name) == Bytes(name) \in 5 .. 32

ParseTargetUsername(value) ==
    LET text == Trim(value)
        name == Tail(text) IN
    IF text # << >> /\ text[1] = "@" /\ LengthOK(name) /\ \A k \in DOMAIN name : name[k] = "a"
    THEN <<"@">> \o name
    ELSE NONE

-----------------------------------------------------------------------------
(* The inputs.                                                             *)
Times(n, ch) == [k \in 1 .. n |-> ch]

NoInput == [fn |-> "none"]

GiveAmount ==
    \/ \E k \in 0 .. Magnitude, d \in -50 .. 50, sign \in {-1, 1} :
          /\ 10^k + d \in 0 .. 10^Magnitude
          /\ input' = [fn |-> "rial", amount |-> sign * (10^k + d)]
    \/ \E amount \in {-Half, 1 - Half, Half - 1} : input' = [fn |-> "rial", amount |-> amount]

GiveName ==
    \E around \in 0 .. 1, ats \in 0 .. 2, n \in {0, 1, 3, 4, 5, 31, 32, 33}, odd \in {"a", " ", "-", "wide"} :
    \E at \in {1, n} :
        input' = [fn |-> "name",
                  text |-> Times(around, " ") \o Times(ats, "@")
                             \o [k \in 1 .. n |-> IF k = at THEN odd ELSE "a"] \o Times(around, " ")]

TextInit == input = NoInput
TextNext == input = NoInput /\ (GiveAmount \/ GiveName)
TextSpec == TextInit /\ [][TextNext]_input

-----------------------------------------------------------------------------
(* Properties.                                                             *)

(* A sum of money, whatever i64 the gateway or the database gives, reads   *)
(* as what it is: its digits, read from the left, give its value, and      *)
(* commas leave groups of three from the right.  Only the least i64 does   *)
(* not: its text begins with two minuses (see Abs), or there is none.      *)
ReadFromLeft(text) ==
    LET value[k \in 0 .. Len(text)] ==
          IF k = 0 THEN 0
          ELSE IF text[k] = COMMA THEN value[k - 1] ELSE 10 * value[k - 1] + text[k]
    IN  value[Len(text)]

RialReadable ==
    input.fn = "rial" /\ input.amount # -Half =>
        LET text == FormatRial(input.amount)
            shown == IF text[1] = MINUS THEN Tail(text) ELSE text
            value == ReadFromLeft(shown) IN
        /\ input.amount = IF text[1] = MINUS THEN -value ELSE value
        /\ Len(shown) > 1 => shown[1] # 0
        /\ shown[1] # COMMA
        /\ \A k \in DOMAIN shown : shown[k] = COMMA <=> (Len(shown) - k) % 4 = 3

(* A recipient is stored in one spelling: "@" and 5 to 32 characters that  *)
(* Telegram allows, without what stood around it, and no such name is      *)
(* turned down.                                                            *)
IsUsername(s) == \E n \in 5 .. 32 : s = <<"@">> \o Times(n, "a")

TargetIsUsername ==
    input.fn = "name" =>
        ParseTargetUsername(input.text) = IF IsUsername(Trim(input.text)) THEN Trim(input.text) ELSE NONE
==============================================================================
