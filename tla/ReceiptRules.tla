---------------------------- MODULE ReceiptRules ----------------------------
(***************************************************************************)
(* The deterministic expense rules: what a receipt's data is, what the     *)
(* validation engine says of it, which business status the router gives   *)
(* it and how a reviewer's corrections are applied.  Pure operators: the   *)
(* state machines of this project call them where the code calls the      *)
(* corresponding method.                                                   *)
(*                                                                         *)
(* Strings are abstracted to what the rules tell apart: a shop name or a   *)
(* payment method is a value, Blank (only white space) or None (null).     *)
(* Dates are day numbers and amounts are integers in the smallest unit.    *)
(* A business registration number is a sequence of characters in which     *)
(* NonDigit stands for every character that is not a digit.                *)
(***************************************************************************)
EXTENDS Integers, Sequences, FiniteSets
LOCAL INSTANCE FiniteSetsExt

CONSTANTS None,     \* Java's null
          Blank,    \* a string of white space only
          Names,    \* the shop names and payment methods in use
          Today     \* LocalDate.now(clock), a day number

ASSUME TodayIsADay == Today \in Int
-----------------------------------------------------------------------------
NonDigit == 10
Character == 0..NonDigit

Text == Names \cup {None}

ReceiptData ==
    [shopName : Text,
     date : Int \cup {None},
     totalAmount : Int \cup {None},
     businessRegistrationNumber : Seq(Character) \cup {None},
     paymentMethod : Text,
     lineItems : Seq(Int \cup {None})]

Fields == {"shopName", "date", "totalAmount", "businessRegistrationNumber",
           "paymentMethod", "lineItems"}

EmptyData ==
    [shopName |-> None, date |-> None, totalAmount |-> None,
     businessRegistrationNumber |-> None, paymentMethod |-> None,
     lineItems |-> <<>>]

(* The compact constructor of ReceiptData: a blank text becomes null.  The *)
(* trimming of the other texts is not visible to any rule.                 *)
NonBlank(text) == IF text = Blank THEN None ELSE text

Normalize(data) ==
    [data EXCEPT !.shopName = NonBlank(@),
                 !.businessRegistrationNumber = NonBlank(@),
                 !.paymentMethod = NonBlank(@)]
-----------------------------------------------------------------------------
(* BusinessRegistrationNumberValidator.isValid                             *)
Weights == <<1, 3, 7, 1, 3, 7, 1, 3, 5>>

WeightedSum(digits) ==
    digits[1] * Weights[1] + digits[2] * Weights[2] + digits[3] * Weights[3] +
    digits[4] * Weights[4] + digits[5] * Weights[5] + digits[6] * Weights[6] +
    digits[7] * Weights[7] + digits[8] * Weights[8] + digits[9] * Weights[9]

(* Mutant: the carry of the ninth product is left out of the sum.          *)
CheckDigitWithoutCarry(digits) == (10 - (WeightedSum(digits) % 10)) % 10

CheckDigit(digits) ==
    (10 - ((WeightedSum(digits) + (digits[9] * 5) \div 10) % 10)) % 10

IsValidDigits(digits) ==
    /\ Len(digits) = 10
    /\ \E i \in 2..10 : digits[i] # digits[1]
    /\ digits[10] = CheckDigit(digits)

(* Every separator is removed before the digits are looked at.             *)
IsValidBusinessNumber(number) ==
    IsValidDigits(SelectSeq(number, LAMBDA c : c # NonDigit))
-----------------------------------------------------------------------------
(* ValidationEngine: one result per rule, failing rules decide the route.  *)
Outcomes == {"PASS", "FAIL", "NOT_APPLICABLE"}

RuleCodes ==
    {"SHOP_NAME_REQUIRED", "DATE_REQUIRED", "TOTAL_AMOUNT_REQUIRED",
     "DATE_NOT_FUTURE", "TOTAL_AMOUNT_POSITIVE", "ITEM_TOTAL_MATCH",
     "BUSINESS_NUMBER_CHECKSUM", "DUPLICATE_SUBMISSION"}

RuleResult == [code : RuleCodes, outcome : Outcomes]

PassIf(condition) == IF condition THEN "PASS" ELSE "FAIL"

Required(value) == PassIf(value # None)

(* Mutant of DateRule: today counts as the future.                         *)
DateRuleStrict(date) ==
    IF date = None THEN "NOT_APPLICABLE" ELSE PassIf(date < Today)

DateRule(date) ==
    IF date = None THEN "NOT_APPLICABLE" ELSE PassIf(date <= Today)

AmountRule(amount) ==
    IF amount = None THEN "NOT_APPLICABLE" ELSE PassIf(amount > 0)

ItemTotal(items) == MapThenSumSet(LAMBDA i : items[i], DOMAIN items)

ItemTotalRule(data) ==
    IF \/ data.lineItems = <<>>
       \/ data.totalAmount = None
       \/ \E i \in DOMAIN data.lineItems : data.lineItems[i] = None
    THEN "NOT_APPLICABLE"
    ELSE PassIf(ItemTotal(data.lineItems) = data.totalAmount)

BusinessNumberRule(number) ==
    IF number = None THEN "NOT_APPLICABLE"
                     ELSE PassIf(IsValidBusinessNumber(number))

OutcomeOf(code, data, duplicate) ==
    CASE code = "SHOP_NAME_REQUIRED"       -> Required(data.shopName)
      [] code = "DATE_REQUIRED"            -> Required(data.date)
      [] code = "TOTAL_AMOUNT_REQUIRED"    -> Required(data.totalAmount)
      [] code = "DATE_NOT_FUTURE"          -> DateRule(data.date)
      [] code = "TOTAL_AMOUNT_POSITIVE"    -> AmountRule(data.totalAmount)
      [] code = "ITEM_TOTAL_MATCH"         -> ItemTotalRule(data)
      [] code = "BUSINESS_NUMBER_CHECKSUM" ->
             BusinessNumberRule(data.businessRegistrationNumber)
      [] code = "DUPLICATE_SUBMISSION"     -> PassIf(~duplicate)

(* Mutant of Validate: the duplicate flag is not handed on.                *)
ValidateUnflagged(data, duplicate) ==
    LET given == IF data = None THEN EmptyData ELSE data
    IN  {[code |-> c, outcome |-> OutcomeOf(c, given, FALSE)] : c \in RuleCodes}

Validate(data, duplicate) ==
    LET given == IF data = None THEN EmptyData ELSE data
    IN  {[code |-> c, outcome |-> OutcomeOf(c, given, duplicate)] : c \in RuleCodes}

AnyFailed(results) == \E result \in results : result.outcome = "FAIL"

(* What correctFields and markDuplicate read back from the stored results. *)
MarkedDuplicate(results) ==
    [code |-> "DUPLICATE_SUBMISSION", outcome |-> "FAIL"] \in results
-----------------------------------------------------------------------------
(* ReceiptStatusRouter.route                                               *)
ReceiptStatuses ==
    {"AUTO_APPROVED", "NEEDS_REVIEW", "NEEDS_RECAPTURE", "MANUAL_ENTRY",
     "UNREADABLE", "APPROVED", "REJECTED"}

Unusable(data) ==
    \/ data = None
    \/ /\ data.shopName = None
       /\ data.date = None
       /\ data.totalAmount = None

Route(data, results) ==
    IF Unusable(data) THEN "MANUAL_ENTRY"
    ELSE IF AnyFailed(results) THEN "NEEDS_REVIEW" ELSE "AUTO_APPROVED"

(* ReceiptPersistenceService.isTerminal                                    *)
IsTerminal(status) == status \in {"APPROVED", "REJECTED"}
-----------------------------------------------------------------------------
(* FieldCorrections.applyTo.  A correction carries a new value or None for *)
(* every field and the set of fields to clear; clearing wins.              *)
FieldCorrections ==
    [values : [shopName : Text \cup {Blank},
               date : Int \cup {None},
               totalAmount : Int \cup {None},
               businessRegistrationNumber : Seq(Character) \cup {Blank, None},
               paymentMethod : Text \cup {Blank},
               lineItems : Seq(Int \cup {None}) \cup {None}],
     clearFields : SUBSET Fields]

(* null is no receipt and no status, and a blank text is none of the texts *)
(* in use.                                                                 *)
ASSUME BlankAssumption ==
    /\ None \notin ReceiptData
    /\ None \notin ReceiptStatuses
    /\ Blank \notin Names \cup Seq(Character)

Cleared(field) == IF field = "lineItems" THEN <<>> ELSE None

(* Mutant of ApplyTo: new line items are added to the old ones.            *)
ApplyToAdding(corrections, current) ==
    LET base == IF current = None THEN EmptyData ELSE current
    IN  Normalize([field \in Fields |->
            IF field \in corrections.clearFields THEN Cleared(field)
            ELSE IF corrections.values[field] = None THEN base[field]
            ELSE IF field = "lineItems" THEN base[field] \o corrections.values[field]
            ELSE corrections.values[field]])

ApplyTo(corrections, current) ==
    LET base == IF current = None THEN EmptyData ELSE current
    IN  Normalize([field \in Fields |->
            IF field \in corrections.clearFields THEN Cleared(field)
            ELSE IF corrections.values[field] # None
                 THEN corrections.values[field]
                 ELSE base[field]])
-----------------------------------------------------------------------------
(* What the rules promise of one receipt's data.                           *)

(* A receipt that may be approved without a person: the three required     *)
(* fields are there, and nothing that can be compared disagrees.           *)
Approvable(data) ==
    /\ data # None
    /\ data.shopName # None
    /\ data.date # None /\ data.date <= Today
    /\ data.totalAmount # None /\ data.totalAmount > 0
    /\ ItemTotalRule(data) # "FAIL"
    /\ BusinessNumberRule(data.businessRegistrationNumber) # "FAIL"

(* Finding out that a receipt is a duplicate only ever takes an automatic  *)
(* approval away, and the stored results tell that it happened.            *)
DuplicateTightens(data) ==
    LET alone == Validate(data, FALSE)
        again == Validate(data, TRUE)
    IN  /\ MarkedDuplicate(again) /\ ~MarkedDuplicate(alone)
        /\ Route(data, again) = IF Route(data, alone) = "AUTO_APPROVED"
                                THEN "NEEDS_REVIEW" ELSE Route(data, alone)

(* A correction that is sent twice (a retried request) does what it did    *)
(* once, leaves the fields it does not mention alone and never stores a    *)
(* blank text.                                                             *)
CorrectsOnce(patch, data) ==
    LET once == ApplyTo(patch, data)
    IN  /\ ApplyTo(patch, once) = once
        /\ once \in ReceiptData
        /\ \A f \in Fields :
              patch.values[f] = None /\ f \notin patch.clearFields =>
                  once[f] = (IF data = None THEN EmptyData ELSE data)[f]
=============================================================================
