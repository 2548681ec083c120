---------------------------- MODULE ConsoleInput ----------------------------
(***************************************************************************)
(* The interactive transfer's prompts, from src/src/CacheWallet/Transfer.cpp: *)
(* transfer() asks for the amount (getTransferAmount), then the fee        *)
(* (getFee), then the mixin (getMixin), each in a loop until its parser    *)
(* accepts the line, with the two balance checks in between.  The parsers  *)
(* are modelled by what they do to the characters: parseAmount (trim, drop *)
(* thousands separators, strip surplus trailing zeros, pad to the decimal  *)
(* places, Common::fromString into uint64), parseFee, and parseMixin with  *)
(* std::stoi and its conversion to uint16_t.                               *)
(*                                                                         *)
(* The widths are constants so that small strings reach their edges:       *)
(* NumDecimalPlaces stands for the 5 of parseAmount, UInt64 for 2^64,      *)
(* IntMax for INT_MAX and UInt16 for 2^16.  The address and payment id     *)
(* prompts are left out: their parsers are the CryptoNote library's.       *)
(***************************************************************************)
EXTENDS Integers, SequencesExt

CONSTANTS
    Chars,            \* the characters the user may type
    MaxLen,           \* the longest line
    NumDecimalPlaces, \* parseAmount's numDecimalPlaces
    UInt64,           \* 2^64
    IntMax,           \* INT_MAX, the range of std::stoi
    UInt16,           \* 2^16
    MinFee,           \* CryptoNote::parameters::MINIMUM_FEE
    MinMixin,         \* CryptoNote::parameters::MINIMUM_MIXIN
    DefaultMixin,     \* CryptoNote::parameters::DEFAULT_MIXIN
    Balances          \* what getActualBalance() may return

DigitSeq == <<"0", "1", "2", "3", "4", "5", "6", "7", "8", "9">>
Digits == Range(DigitSeq)

ASSUME InputAssumption ==
    /\ Chars \subseteq Digits \cup {".", ",", " ", "-", "+", "a"}
    /\ MaxLen \in Nat /\ NumDecimalPlaces \in Nat
    /\ UInt64 \in Nat \ {0} /\ IntMax \in Nat /\ UInt16 \in Nat \ {0}
    /\ MinFee \in 0..UInt64 - 1 /\ MinMixin \in 0..UInt16 - 1
    /\ DefaultMixin \in 0..UInt16 - 1 /\ Balances \subseteq 0..UInt64 - 1

Strings == UNION {[1..n -> Chars] : n \in 0..MaxLen}

\* The value of a digit and of a string of digits.
DigitValue(c) == SelectInSeq(DigitSeq, LAMBDA d : d = c) - 1
Num(d) == FoldLeft(LAMBDA acc, c : 10 * acc + DigitValue(c), 0, d)
AllDigits(s) == \A i \in DOMAIN s : s[i] \in Digits

\* boost::algorithm::trim: drop leading and trailing whitespace.
Trim(s) ==
    LET inner == {i \in DOMAIN s : s[i] # " "}
    IN IF inner = {} THEN <<>>
       ELSE SubSeq(s, Min(inner), Max(inner))

\* The trailing '0's of s.
TrailingZeros(s) ==
    LET other == {i \in DOMAIN s : s[i] # "0"}
    IN Len(s) - (IF other = {} THEN 0 ELSE Max(other))

Pow10(n) == 10 ^ n

-----------------------------------------------------------------------------
(***************************************************************************)
(* parseAmount(strAmount, amount), step by step.  The while loop erases    *)
(* trailing '0's while the fraction is longer than numDecimalPlaces, that  *)
(* is min(trailing zeros, surplus) of them.  Common::fromString reads the  *)
(* digits into a uint64_t and fails when the number does not fit.          *)
(***************************************************************************)
Fail == [ok |-> FALSE, val |-> 0]

\* boost::algorithm::trim, then boost::erase_all of ','.
AmountText(s) == Remove(Trim(s), ",")

\* pointIndex, and the fractionSize it gives.
Point(u) == SelectInSeq(u, LAMBDA c : c = ".")
Fraction(u) == IF Point(u) = 0 THEN 0 ELSE Len(u) - Point(u)

\* The '0's the while loop erases.
Cut(u) ==
    IF Point(u) # 0 /\ NumDecimalPlaces < Fraction(u)
    THEN Min({TrailingZeros(u), Fraction(u) - NumDecimalPlaces})
    ELSE 0

\* The string after the loop and the erase of the point.
Stripped(u) ==
    IF Point(u) = 0 THEN u
    ELSE RemoveAt(SubSeq(u, 1, Len(u) - Cut(u)), Point(u))

\* The append of '0's up to numDecimalPlaces, and Common::fromString.
FromString(v, frac) ==
    LET n == Num(v) * Pow10(NumDecimalPlaces - frac)
    IN IF n >= UInt64 THEN Fail ELSE [ok |-> TRUE, val |-> n]

\* Mutant: a fraction of exactly numDecimalPlaces digits is refused.
ParseAmountStrict(s) ==
    LET u == AmountText(s)
        frac == Fraction(u) - Cut(u)
    IN IF Point(u) # 0 /\ NumDecimalPlaces <= frac THEN Fail
       ELSE IF Stripped(u) = <<>> \/ ~AllDigits(Stripped(u)) THEN Fail
       ELSE FromString(Stripped(u), frac)

ParseAmount(s) ==
    LET u == AmountText(s)
        frac == Fraction(u) - Cut(u)
    IN IF Point(u) # 0 /\ NumDecimalPlaces < frac THEN Fail
       ELSE IF Stripped(u) = <<>> \/ ~AllDigits(Stripped(u)) THEN Fail
       ELSE FromString(Stripped(u), frac)

\* parseFee: an amount of at least MINIMUM_FEE.
ParseFee(s) == ParseAmount(s).ok /\ ParseAmount(s).val >= MinFee

\* std::stoi: skip leading whitespace, an optional sign, then the longest
\* run of digits; no digit throws std::invalid_argument, a value outside
\* int throws std::out_of_range.
Stoi(s) ==
    LET lead   == {i \in DOMAIN s : s[i] # " "}
        start  == IF lead = {} THEN Len(s) + 1 ELSE Min(lead)
        signed == start <= Len(s) /\ s[start] \in {"-", "+"}
        first  == IF signed THEN start + 1 ELSE start
        stop   == {i \in first..Len(s) : s[i] \notin Digits}
        last   == IF stop = {} THEN Len(s) ELSE Min(stop) - 1
        mag    == Num(SubSeq(s, first, last))
        val    == IF signed /\ s[start] = "-" THEN -mag ELSE mag
    IN CASE last < first                 -> [kind |-> "invalid", val |-> 0]
         [] val > IntMax \/ val < -IntMax - 1 -> [kind |-> "range", val |-> 0]
         [] OTHER                        -> [kind |-> "ok", val |-> val]

\* Mutant: the conversion only undoes the sign.
ToUInt16Unwrapped(i) == IF i < 0 THEN i + UInt16 ELSE i

\* The conversion of an int to uint16_t.
ToUInt16(i) == i % UInt16

\* parseMixin: std::invalid_argument is caught, std::out_of_range is not.
ParseMixin(s) ==
    CASE Stoi(s).kind = "invalid" -> "false"
      [] Stoi(s).kind = "range"   -> "throws"
      [] OTHER -> IF ToUInt16(Stoi(s).val) < MinMixin THEN "false" ELSE "true"
-----------------------------------------------------------------------------
(***************************************************************************)
(* The amount text encoding as spec.md states it: after trimming and       *)
(* dropping the thousands separators, digits I or I.F, not both empty; F   *)
(* with its trailing zeros stripped has at most NumDecimalPlaces digits,   *)
(* and the value I * 10^P + F' * 10^(P - |F'|) fits in a uint64_t.          *)
(***************************************************************************)
RefParseAmount(s) ==
    LET u  == AmountText(s)
        p  == Point(u)
        I  == IF p = 0 THEN u ELSE SubSeq(u, 1, p - 1)
        F  == IF p = 0 THEN <<>> ELSE SubSeq(u, p + 1, Len(u))
        F1 == SubSeq(F, 1, Len(F) - TrailingZeros(F))
        n  == Num(I) * Pow10(NumDecimalPlaces)
                + Num(F1) * Pow10(NumDecimalPlaces - Len(F1))
    IN IF \/ I \o F = <<>>
          \/ ~AllDigits(I \o F)
          \/ Len(F1) > NumDecimalPlaces
          \/ n >= UInt64
       THEN Fail
       ELSE [ok |-> TRUE, val |-> n]

-----------------------------------------------------------------------------
(***************************************************************************)
(* transfer(): its prompts in order.  step is where the call is;          *)
(* line is the last line getline returned.  getTransferAmount and getFee   *)
(* return the bool parseAmount(string, uint64_t&) gives, so an accepted    *)
(* amount or fee is 1; getMixin returns std::stoi's int as a uint16_t.     *)
(* An std::out_of_range escapes parseMixin and ends the program.           *)
(***************************************************************************)
\* address holds the returned address, once there is one.
VARIABLES step, line, balance, address, amount, fee, mixin, extra

vars == <<step, line, balance, address, amount, fee, mixin, extra>>

Steps == {"address", "amount", "fee", "mixin", "paymentId", "submit",
          "aborted", "crashed"}

(***************************************************************************)
(* An address line, by what parseAddress looks at: whether its length is  *)
(* that of a generated address, whether parseAccountAddressString accepts *)
(* it, and whether the prefix variable then holds the expected prefix.    *)
(* The call's result is not looked at, and when it fails prefix may never *)
(* have been written; every value of prefixOk is a possible outcome.      *)
(***************************************************************************)
AddressInputs == [lengthOk : BOOLEAN, parsed : BOOLEAN, prefixOk : BOOLEAN]

\* parseAddress: the length test, then the prefix test.
ParseAddress(a) == a.lengthOk /\ a.prefixOk

\* A payment id line: empty, one createTxExtraWithPaymentId accepts, or not.
PaymentIdInputs == {"", "hex", "other"}

\* uint64_t addition.
Add(a, b) == (a + b) % UInt64

\* uint64_t balance = walletInfo->wallet.getActualBalance();
Init ==
    /\ step = "address"
    /\ line = <<>>
    /\ balance \in Balances
    /\ address = {}
    /\ amount = 0 /\ fee = 0 /\ mixin = 0
    /\ extra = "none"

\* One getline of getDestinationAddress (trimmed), through parseAddress.
ReadAddress(a) ==
    /\ step = "address"
    /\ ParseAddress(a) => step' = "amount" /\ address' = {a}
    /\ ~ParseAddress(a) => UNCHANGED <<step, address>>
    /\ UNCHANGED <<line, balance, amount, fee, mixin, extra>>

\* parseAmount(std::string): the overload the prompt calls first.
AmountAccepted(l) == ParseAmount(l).ok

\* One getline of getTransferAmount, and the check balance < amount.
ReadAmount(l) ==
    /\ step = "amount"
    /\ line' = l
    /\ IF AmountAccepted(l)
       THEN /\ amount' = 1
            /\ step' = IF balance < 1 THEN "aborted" ELSE "fee"
       ELSE UNCHANGED <<step, amount>>
    /\ UNCHANGED <<balance, address, fee, mixin, extra>>

\* One getline of getFee, and the check balance < amount + fee.
ReadFee(l) ==
    /\ step = "fee"
    /\ line' = l
    /\ \/ /\ l = <<>> \/ ParseFee(l)
          /\ LET f == IF l = <<>> THEN MinFee ELSE 1
             IN /\ fee' = f
                /\ step' = IF balance < Add(amount, f) THEN "aborted" ELSE "mixin"
       \/ /\ l # <<>> /\ ~ParseFee(l)
          /\ UNCHANGED <<step, fee>>
    /\ UNCHANGED <<balance, address, amount, mixin, extra>>

\* One getline of getMixin.
ReadMixin(l) ==
    /\ step = "mixin"
    /\ line' = l
    /\ CASE l = <<>>                 -> step' = "paymentId" /\ mixin' = DefaultMixin
         [] ParseMixin(l) = "true"   -> step' = "paymentId" /\ mixin' = ToUInt16(Stoi(l).val)
         [] ParseMixin(l) = "throws" -> step' = "crashed" /\ UNCHANGED mixin
         [] OTHER                    -> UNCHANGED <<step, mixin>>
    /\ UNCHANGED <<balance, address, amount, fee, extra>>

\* One getline of getPaymentID; then doTransfer is called.
ReadPaymentID(p) ==
    /\ step = "paymentId"
    /\ p = "" => step' = "submit" /\ extra' = ""
    /\ p = "hex" => step' = "submit" /\ extra' = "extra"
    /\ p = "other" => UNCHANGED <<step, extra>>
    /\ UNCHANGED <<line, balance, address, amount, fee, mixin>>

Next ==
    \/ \E a \in AddressInputs : ReadAddress(a)
    \/ \E l \in Strings : ReadAmount(l) \/ ReadFee(l) \/ ReadMixin(l)
    \/ \E p \in PaymentIdInputs : ReadPaymentID(p)

Spec == Init /\ [][Next]_vars

-----------------------------------------------------------------------------
\* The prompts' values have the C++ types they are stored in.
TypeOK ==
    /\ step \in Steps /\ line \in Strings /\ balance \in Balances
    /\ address \in {{}} \cup {{a} : a \in AddressInputs}
    /\ extra \in {"none", "", "extra"}
    /\ amount \in 0..UInt64 - 1 /\ fee \in 0..UInt64 - 1
    /\ mixin \in 0..UInt16 - 1

\* parseAmount accepts exactly the amount texts of spec.md's encoding, with
\* their values: the trailing-zero loop, the point erase, the zero padding
\* and fromString's range check agree with the reference on every line.
AmountParseMatchesSpec == ParseAmount(line) = RefParseAmount(line)

\* spec.md: a mixin below the network minimum is rejected before any
\* submission.  getMixin submits what std::stoi read from the line.
MixinBelowMinimumRejected ==
    step = "submit" /\ line # <<>> => Stoi(line).val >= MinMixin

\* A mixin line never ends the program: parseMixin catches what std::stoi
\* throws.
MixinNeverCrashes == step # "crashed"

\* spec.md: a TransferRequest's destination is validated.  An address
\* getDestinationAddress returns is one parseAccountAddressString accepted.
AddressParsed == \A a \in address : a.parsed

====
