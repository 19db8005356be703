-------------------------- MODULE ReceiptRowsProofs --------------------------
(***************************************************************************)
(* Lemmas about the entities and the rules that the proofs about the queue *)
(* and about the review share: rows stay rows, and a duplicate handed to   *)
(* the rules leads to a person.  Then what the rules and a correction do,  *)
(* for any data, and which wrong digits the checksum detects.              *)
(***************************************************************************)
EXTENDS ReceiptRows, TLAPS

(* The rules yield rule results and the router yields a business status,   *)
(* whatever the data.                                                      *)
LEMMA ValidateType ==
    ASSUME NEW data, NEW duplicate
    PROVE  Validate(data, duplicate) \in SUBSET RuleResult
<1> DEFINE given == IF data = None THEN EmptyData ELSE data
<1>1. \A c \in RuleCodes : OutcomeOf(c, given, duplicate) \in Outcomes
  BY DEF RuleCodes, Outcomes, OutcomeOf, Required, DateRule, AmountRule, PassIf,
         ItemTotalRule, BusinessNumberRule
<1>2. QED
  BY <1>1 DEF Validate, RuleResult

(* The router answers with one of the three statuses a rule can lead to.   *)
LEMMA RouteType ==
    ASSUME NEW data, NEW results
    PROVE  Route(data, results) \in {"MANUAL_ENTRY", "NEEDS_REVIEW", "AUTO_APPROVED"}
BY DEF Route

(* Every method of the job entity yields a job row.                        *)
LEMMA JobMethodTypes ==
    ASSUME NEW job \in Job
    PROVE  /\ Saved(job) \in Job
           /\ CompleteJob(job) \in Job
           /\ FailJob(job) \in Job
           /\ ScheduleRetry(job) \in Job
           /\ RecoverExpiredLease(job) \in Job
           /\ ReleaseClaim(job) \in Job
           /\ MarkJobDuplicate(job) \in Job
           /\ \A w \in Workers, n \in Nat : ClaimJob(job, w, n) \in Job
<1>0. /\ job.version + 1 \in Nat
      /\ job.attemptCount + 1 \in Nat
  BY DEF Job
<1>1. Saved(job) \in Job
  BY <1>0 DEF Job, Saved
<1>5. MarkJobDuplicate(job) \in Job
  BY DEF Job, MarkJobDuplicate
<1>2. ASSUME NEW next \in JobStatuses
      PROVE  Unclaimed(job, next) \in Job
  BY DEF Job, Unclaimed
<1>3. ASSUME NEW w \in Workers, NEW n \in Nat
      PROVE  ClaimJob(job, w, n) \in Job
  BY <1>0 DEF Job, JobStatuses, ClaimJob
<1>4. QED
  BY <1>1, <1>2, <1>3, <1>5 DEF CompleteJob, FailJob, ScheduleRetry, RecoverExpiredLease,
                          ReleaseClaim, JobStatuses

(* So do the methods of the receipt entity.                                *)
LEMMA ReceiptMethodTypes ==
    ASSUME NEW receipt \in Receipt
    PROVE  /\ Saved(receipt) \in Receipt
           /\ \A data \in ReceiptData \cup {None}, results \in SUBSET RuleResult,
                 next \in ReceiptStatuses :
                 CompleteExtraction(receipt, data, results, next) \in Receipt
           /\ receipt.status # None => RevalidatedAsDuplicate(receipt) \in Receipt
<1>1. Saved(receipt) \in Receipt
  BY DEF Receipt, Saved
<1>2. ASSUME NEW data \in ReceiptData \cup {None}, NEW results \in SUBSET RuleResult,
             NEW next \in ReceiptStatuses
      PROVE  CompleteExtraction(receipt, data, results, next) \in Receipt
  BY DEF Receipt, CompleteExtraction
<1>3. ASSUME receipt.status # None
      PROVE  RevalidatedAsDuplicate(receipt) \in Receipt
  <2> DEFINE results == Validate(receipt.currentData, TRUE)
             next == IF IsTerminal(receipt.status) THEN receipt.status
                     ELSE Route(receipt.currentData, results)
  <2>1. results \in SUBSET RuleResult
    BY ValidateType
  <2>2. next \in ReceiptStatuses
    BY <1>3, RouteType DEF Receipt, ReceiptStatuses
  <2>3. receipt.currentData \in ReceiptData \cup {None}
    BY DEF Receipt
  <2> HIDE DEF results, next
  <2>4. UpdateData(receipt, receipt.currentData, results, next) \in Receipt
    BY <2>1, <2>2, <2>3 DEF Receipt, UpdateData
  <2>5. QED
    BY <2>4 DEF RevalidatedAsDuplicate, results, next
<1>4. QED
  BY <1>1, <1>2, <1>3

(* The rows createQueued inserts are rows of their tables.                 *)
LEMMA NewRowTypes ==
    /\ NewJob \in Job
    /\ \A owner \in Owners : NewReceipt(owner) \in Receipt
BY DEF NewJob, Job, JobStatuses, NewReceipt, Receipt
-----------------------------------------------------------------------------
(* The rules mark a receipt as a duplicate exactly when they are told so.  *)
LEMMA MarkedAsTold ==
    ASSUME NEW data, NEW duplicate \in BOOLEAN
    PROVE  MarkedDuplicate(Validate(data, duplicate)) <=> duplicate
<1> DEFINE given == IF data = None THEN EmptyData ELSE data
<1>1. OutcomeOf("DUPLICATE_SUBMISSION", given, duplicate) = PassIf(~duplicate)
  BY DEF OutcomeOf
<1>2. PassIf(~duplicate) = "FAIL" <=> duplicate
  BY DEF PassIf
<1>3. "DUPLICATE_SUBMISSION" \in RuleCodes
  BY DEF RuleCodes
<1> HIDE DEF given
<1>4. [code |-> "DUPLICATE_SUBMISSION", outcome |-> "FAIL"]
          \in {[code |-> c, outcome |-> OutcomeOf(c, given, duplicate)] : c \in RuleCodes}
      <=> duplicate
  BY <1>1, <1>2, <1>3
<1>5. QED
  BY <1>4 DEF MarkedDuplicate, Validate, given

(* The router sends a receipt marked as a duplicate to a person.           *)
LEMMA MarkedGoesToAPerson ==
    ASSUME NEW data, NEW results, MarkedDuplicate(results)
    PROVE  Route(data, results) \in {"NEEDS_REVIEW", "MANUAL_ENTRY"}
<1>1. AnyFailed(results)
  BY DEF MarkedDuplicate, AnyFailed
<1>2. QED
  BY <1>1 DEF Route
-----------------------------------------------------------------------------
(* The rules themselves, for any data and any correction.                  *)

(* What the eight rules come to: a result fails exactly if a required      *)
(* field is missing, a value is out of range, a comparison disagrees or    *)
(* the receipt is a duplicate.                                             *)
LEMMA AnyFailedIff ==
    ASSUME NEW data \in ReceiptData, NEW duplicate \in BOOLEAN
    PROVE  AnyFailed(Validate(data, duplicate)) <=>
              \/ duplicate
              \/ data.shopName = None
              \/ data.date = None \/ ~(data.date <= Today)
              \/ data.totalAmount = None \/ ~(data.totalAmount > 0)
              \/ ItemTotalRule(data) = "FAIL"
              \/ BusinessNumberRule(data.businessRegistrationNumber) = "FAIL"
<1>1. Validate(data, duplicate) =
         {[code |-> c, outcome |-> OutcomeOf(c, data, duplicate)] : c \in RuleCodes}
  BY BlankAssumption DEF Validate
<1>2. AnyFailed(Validate(data, duplicate)) <=>
         \E c \in RuleCodes : OutcomeOf(c, data, duplicate) = "FAIL"
  <2> DEFINE out(c) == OutcomeOf(c, data, duplicate)
             all == {[code |-> c, outcome |-> out(c)] : c \in RuleCodes}
  <2>1. \A c \in RuleCodes : [code |-> c, outcome |-> out(c)] \in all
    OBVIOUS
  <2>2. \A r \in all : \E c \in RuleCodes : r = [code |-> c, outcome |-> out(c)]
    OBVIOUS
  <2>3. Validate(data, duplicate) = all
    BY <1>1
  <2> HIDE DEF out, all
  <2>4. AnyFailed(all) <=> \E c \in RuleCodes : out(c) = "FAIL"
    <3>1. ASSUME NEW c \in RuleCodes, out(c) = "FAIL" PROVE AnyFailed(all)
      BY <2>1, <3>1 DEF AnyFailed
    <3>2. ASSUME NEW r \in all, r.outcome = "FAIL" PROVE \E c \in RuleCodes : out(c) = "FAIL"
      BY <2>2, <3>2
    <3> QED
      BY <3>1, <3>2 DEF AnyFailed
  <2> QED
    BY <2>3, <2>4 DEF out
<1>3. /\ OutcomeOf("SHOP_NAME_REQUIRED", data, duplicate) = Required(data.shopName)
      /\ OutcomeOf("DATE_REQUIRED", data, duplicate) = Required(data.date)
      /\ OutcomeOf("TOTAL_AMOUNT_REQUIRED", data, duplicate) = Required(data.totalAmount)
      /\ OutcomeOf("DATE_NOT_FUTURE", data, duplicate) = DateRule(data.date)
      /\ OutcomeOf("TOTAL_AMOUNT_POSITIVE", data, duplicate) = AmountRule(data.totalAmount)
      /\ OutcomeOf("ITEM_TOTAL_MATCH", data, duplicate) = ItemTotalRule(data)
      /\ OutcomeOf("BUSINESS_NUMBER_CHECKSUM", data, duplicate) =
            BusinessNumberRule(data.businessRegistrationNumber)
      /\ OutcomeOf("DUPLICATE_SUBMISSION", data, duplicate) = PassIf(~duplicate)
  <2>1. OutcomeOf("SHOP_NAME_REQUIRED", data, duplicate) = Required(data.shopName)
    BY DEF OutcomeOf
  <2>2. OutcomeOf("DATE_REQUIRED", data, duplicate) = Required(data.date)
    BY DEF OutcomeOf
  <2>3. OutcomeOf("TOTAL_AMOUNT_REQUIRED", data, duplicate) = Required(data.totalAmount)
    BY DEF OutcomeOf
  <2>4. OutcomeOf("DATE_NOT_FUTURE", data, duplicate) = DateRule(data.date)
    BY DEF OutcomeOf
  <2>5. OutcomeOf("TOTAL_AMOUNT_POSITIVE", data, duplicate) = AmountRule(data.totalAmount)
    BY DEF OutcomeOf
  <2>6. OutcomeOf("ITEM_TOTAL_MATCH", data, duplicate) = ItemTotalRule(data)
    BY DEF OutcomeOf
  <2>7. OutcomeOf("BUSINESS_NUMBER_CHECKSUM", data, duplicate) =
           BusinessNumberRule(data.businessRegistrationNumber)
    BY DEF OutcomeOf
  <2>8. OutcomeOf("DUPLICATE_SUBMISSION", data, duplicate) = PassIf(~duplicate)
    BY DEF OutcomeOf
  <2> QED
    BY <2>1, <2>2, <2>3, <2>4, <2>5, <2>6, <2>7, <2>8
<1>4. /\ Required(data.shopName) = "FAIL" <=> data.shopName = None
      /\ Required(data.date) = "FAIL" <=> data.date = None
      /\ Required(data.totalAmount) = "FAIL" <=> data.totalAmount = None
      /\ PassIf(~duplicate) = "FAIL" <=> duplicate
  BY DEF Required, PassIf
<1>5. /\ DateRule(data.date) = "FAIL" <=> data.date # None /\ ~(data.date <= Today)
      /\ AmountRule(data.totalAmount) = "FAIL" <=>
            data.totalAmount # None /\ ~(data.totalAmount > 0)
  BY DEF DateRule, AmountRule, PassIf
<1> QED
  BY <1>2, <1>3, <1>4, <1>5 DEF RuleCodes

(* The routing after validation (ReceiptPersistenceService with            *)
(* ValidationEngine and ReceiptStatusRouter): a receipt is approved        *)
(* without a person exactly if it is approvable and no duplicate.          *)
THEOREM ApprovedIffApprovable ==
    ASSUME NEW data \in ReceiptData \cup {None}, NEW duplicate \in BOOLEAN
    PROVE  Route(data, Validate(data, duplicate)) = "AUTO_APPROVED"
              <=> Approvable(data) /\ ~duplicate
<1>1. CASE data = None
  BY <1>1 DEF Route, Unusable, Approvable
<1>2. CASE data \in ReceiptData
  BY <1>2, AnyFailedIff, BlankAssumption DEF Route, Unusable, Approvable
<1> QED
  BY <1>1, <1>2

(* The same rules for a receipt that turns out to be a duplicate           *)
(* (markDuplicate): the only change is that nothing is approved without a  *)
(* person any more.                                                        *)
THEOREM DuplicateTightensAlways ==
    ASSUME NEW data PROVE DuplicateTightens(data)
<1>1. MarkedDuplicate(Validate(data, TRUE)) /\ ~MarkedDuplicate(Validate(data, FALSE))
  BY MarkedAsTold
<1>2. AnyFailed(Validate(data, TRUE))
  BY <1>1 DEF MarkedDuplicate, AnyFailed
<1> QED
  BY <1>1, <1>2 DEF DuplicateTightens, Route
-----------------------------------------------------------------------------
(* Normalising replaces blank texts, field by field.                       *)
TextFields == {"shopName", "businessRegistrationNumber", "paymentMethod"}

LEMMA NormalizedFields ==
    ASSUME NEW g, DOMAIN g = Fields, g = [f \in DOMAIN g |-> g[f]]
    PROVE  Normalize(g) = [f \in Fields |-> IF f \in TextFields THEN NonBlank(g[f]) ELSE g[f]]
  BY DEF Fields, Normalize, TextFields

LEMMA DataFields ==
    ASSUME NEW g
    PROVE  g \in ReceiptData <=>
              /\ g = [f \in Fields |-> g[f]]
              /\ g["shopName"] \in Text
              /\ g["date"] \in Int \cup {None}
              /\ g["totalAmount"] \in Int \cup {None}
              /\ g["businessRegistrationNumber"] \in Seq(Character) \cup {None}
              /\ g["paymentMethod"] \in Text
              /\ g["lineItems"] \in Seq(Int \cup {None})
  BY DEF ReceiptData, Fields

(* FieldCorrections.applyTo, for any receipt and any correction.           *)
THEOREM CorrectsOnceAlways ==
    ASSUME NEW patch \in FieldCorrections, NEW data \in ReceiptData \cup {None}
    PROVE  CorrectsOnce(patch, data)
<1> DEFINE Base(d) == IF d = None THEN EmptyData ELSE d
           Given(d, f) == IF f \in patch.clearFields THEN Cleared(f)
                          ELSE IF patch.values[f] # None THEN patch.values[f]
                          ELSE Base(d)[f]
           Kept(d, f) == IF f \in TextFields THEN NonBlank(Given(d, f)) ELSE Given(d, f)
           once == ApplyTo(patch, data)
<1>1. ASSUME NEW d
      PROVE  ApplyTo(patch, d) = [f \in Fields |-> Kept(d, f)]
  <2> DEFINE g == [f \in Fields |-> Given(d, f)]
  <2>1. ApplyTo(patch, d) = Normalize(g)
    BY DEF ApplyTo
  <2>2. Normalize(g) = [f \in Fields |-> IF f \in TextFields THEN NonBlank(g[f]) ELSE g[f]]
    BY NormalizedFields
  <2> QED
    BY <2>1, <2>2
<1>2. Base(data) \in ReceiptData
  BY DEF EmptyData, ReceiptData, Text
<1>3. /\ Base(data)["shopName"] \in Text
      /\ Base(data)["date"] \in Int \cup {None}
      /\ Base(data)["totalAmount"] \in Int \cup {None}
      /\ Base(data)["businessRegistrationNumber"] \in Seq(Character) \cup {None}
      /\ Base(data)["paymentMethod"] \in Text
      /\ Base(data)["lineItems"] \in Seq(Int \cup {None})
  BY <1>2, DataFields
<1>4. /\ patch.values["shopName"] \in Text \cup {Blank}
      /\ patch.values["date"] \in Int \cup {None}
      /\ patch.values["totalAmount"] \in Int \cup {None}
      /\ patch.values["businessRegistrationNumber"] \in Seq(Character) \cup {Blank, None}
      /\ patch.values["paymentMethod"] \in Text \cup {Blank}
      /\ patch.values["lineItems"] \in Seq(Int \cup {None}) \cup {None}
  BY DEF FieldCorrections
<1> HIDE DEF Base
<1>5. once = [f \in Fields |-> once[f]] /\ \A f \in Fields : once[f] = Kept(data, f)
  BY <1>1
<1>6. once \in ReceiptData
  <2>1. /\ Kept(data, "shopName") \in Text /\ Kept(data, "paymentMethod") \in Text
        /\ Kept(data, "businessRegistrationNumber") \in Seq(Character) \cup {None}
    BY <1>3, <1>4 DEF TextFields, Cleared, NonBlank, Text
  <2>2. /\ Kept(data, "date") \in Int \cup {None}
        /\ Kept(data, "totalAmount") \in Int \cup {None}
    BY <1>3, <1>4 DEF TextFields, Cleared
  <2>3. Kept(data, "lineItems") \in Seq(Int \cup {None})
    BY <1>3, <1>4 DEF TextFields, Cleared
  <2> HIDE DEF Kept, once
  <2> QED
    BY <1>5, <2>1, <2>2, <2>3, DataFields DEF Fields
<1>7. Base(once) = once
  BY <1>6, BlankAssumption DEF Base
<1>8. \A f \in Fields : Kept(once, f) = Kept(data, f)
  BY <1>5, <1>7 DEF NonBlank
<1>9. ApplyTo(patch, once) = once
  BY <1>1, <1>5, <1>8
<1>10. ASSUME NEW f \in Fields, patch.values[f] = None, f \notin patch.clearFields
       PROVE  once[f] = Base(data)[f]
  BY <1>3, <1>5, <1>10, BlankAssumption DEF NonBlank, TextFields, Text
<1> QED
  BY <1>6, <1>9, <1>10 DEF CorrectsOnce, Base
-----------------------------------------------------------------------------
(* Sums with the same check digit agree modulo 10.                         *)
LEMMA CheckDigitTellsSum ==
    ASSUME NEW s \in Nat, NEW t \in Nat, (10 - (s % 10)) % 10 = (10 - (t % 10)) % 10
    PROVE  s % 10 = t % 10
<1>1. s % 10 \in 0..9 /\ t % 10 \in 0..9
  BY SMT
<1> DEFINE a == s % 10
           b == t % 10
<1>2. a \in 0..9 /\ b \in 0..9 /\ (10 - a) % 10 = (10 - b) % 10
  BY <1>1
<1> HIDE DEF a, b
<1>3. a = b
  BY <1>2, SMT
<1> QED
  BY <1>3 DEF a, b

(* None of the weights 1, 3 and 7 maps two digits to the same remainder.   *)
LEMMA WeightsTellDigits ==
    ASSUME NEW s \in Nat, NEW x \in 0..9, NEW y \in 0..9, NEW w \in {1, 3, 7},
           s + w * y - w * x \in Nat,
           (s + w * y - w * x) % 10 = s % 10
    PROVE  x = y
<1>1. CASE w = 1
  BY <1>1, SMT
<1>2. CASE w = 3
  BY <1>2, SMT
<1>3. CASE w = 7
  BY <1>3, SMT
<1> QED
  BY <1>1, <1>2, <1>3

(* Nor does the weight 5 of the ninth digit once its carry is added: the   *)
(* digits contribute 0, 5, 11, 16, 22, 27, 33, 38, 44 and 49.              *)
LEMMA CarryTellsDigits ==
    ASSUME NEW s \in Nat, NEW x \in 0..9, NEW y \in 0..9,
           (s + y * 5 + (y * 5) \div 10) % 10 = (s + x * 5 + (x * 5) \div 10) % 10
    PROVE  x = y
<1> DEFINE Contribution(z) == z * 5 + (z * 5) \div 10
<1>1. /\ Contribution(0) = 0  /\ Contribution(1) = 5  /\ Contribution(2) = 11
      /\ Contribution(3) = 16 /\ Contribution(4) = 22 /\ Contribution(5) = 27
      /\ Contribution(6) = 33 /\ Contribution(7) = 38 /\ Contribution(8) = 44
      /\ Contribution(9) = 49
  BY SMT
<1>2. \A z \in 0..9 : Contribution(z) % 10 =
          CASE z = 0 -> 0 [] z = 1 -> 5 [] z = 2 -> 1 [] z = 3 -> 6 [] z = 4 -> 2
            [] z = 5 -> 7 [] z = 6 -> 3 [] z = 7 -> 8 [] z = 8 -> 4 [] z = 9 -> 9
  BY <1>1, SMT
<1>3. \A z \in 0..9 : Contribution(z) \in 0..49
  BY <1>1, SMT
<1>4. (s + Contribution(y)) % 10 = (s + Contribution(x)) % 10
  BY <1>3, SMT
<1> HIDE DEF Contribution
<1>5. Contribution(y) % 10 = Contribution(x) % 10
  <2>1. \A a, b \in 0..49 : (s + a) % 10 = (s + b) % 10 => a % 10 = b % 10
    BY SMTT(30)
  <2> QED
    BY <1>3, <1>4, <2>1
<1> QED
  BY <1>2, <1>5, SMT

(* The weights are those of the code, written out.                         *)
LEMMA SumWrittenOut ==
    ASSUME NEW digits \in [1..10 -> 0..9]
    PROVE  /\ WeightedSum(digits) =
                 digits[1] + digits[2] * 3 + digits[3] * 7 +
                 digits[4] + digits[5] * 3 + digits[6] * 7 +
                 digits[7] + digits[8] * 3 + digits[9] * 5
           /\ WeightedSum(digits) \in Nat
           /\ WeightedSum(digits) - digits[9] * 5 \in Nat
           /\ (digits[9] * 5) \div 10 \in Nat
<1> DEFINE a == digits[1]  b == digits[2]  c == digits[3]
           d == digits[4]  e == digits[5]  f == digits[6]
           g == digits[7]  h == digits[8]  k == digits[9]
<1>1. /\ digits[1] = a /\ digits[2] = b /\ digits[3] = c
      /\ digits[4] = d /\ digits[5] = e /\ digits[6] = f
      /\ digits[7] = g /\ digits[8] = h /\ digits[9] = k
      /\ a \in 0..9 /\ b \in 0..9 /\ c \in 0..9 /\ d \in 0..9 /\ e \in 0..9
      /\ f \in 0..9 /\ g \in 0..9 /\ h \in 0..9 /\ k \in 0..9
  OBVIOUS
<1> HIDE DEF a, b, c, d, e, f, g, h, k
<1>2. /\ Weights[1] = 1 /\ Weights[2] = 3 /\ Weights[3] = 7
      /\ Weights[4] = 1 /\ Weights[5] = 3 /\ Weights[6] = 7
      /\ Weights[7] = 1 /\ Weights[8] = 3 /\ Weights[9] = 5
  BY DEF Weights
<1>3. WeightedSum(digits) =
          a * 1 + b * 3 + c * 7 + d * 1 + e * 3 + f * 7 + g * 1 + h * 3 + k * 5
  BY <1>1, <1>2 DEF WeightedSum
<1>4. (k * 5) \div 10 \in Nat
  BY <1>1, SMT
<1> QED
  BY <1>1, <1>3, <1>4

(* Changing one of the first eight digits changes the sum by the change    *)
(* times the weight of its place.                                          *)
LEMMA ChangedSum ==
    ASSUME NEW digits \in [1..10 -> 0..9], NEW i \in 1..8, NEW digit \in 0..9
    PROVE  WeightedSum([digits EXCEPT ![i] = digit]) =
               WeightedSum(digits) + Weights[i] * digit - Weights[i] * digits[i]
<1> DEFINE wrong == [digits EXCEPT ![i] = digit]
<1>1. /\ wrong \in [1..10 -> 0..9]
      /\ wrong[i] = digit
      /\ \A j \in 1..10 : j # i => wrong[j] = digits[j]
      /\ \A j \in 1..10 : digits[j] \in 0..9
  OBVIOUS
<1> DEFINE a == digits[1]  b == digits[2]  c == digits[3]
           d == digits[4]  e == digits[5]  f == digits[6]
           g == digits[7]  h == digits[8]  k == digits[9]
<1>2. /\ digits[1] = a /\ digits[2] = b /\ digits[3] = c
      /\ digits[4] = d /\ digits[5] = e /\ digits[6] = f
      /\ digits[7] = g /\ digits[8] = h /\ digits[9] = k
      /\ a \in 0..9 /\ b \in 0..9 /\ c \in 0..9 /\ d \in 0..9 /\ e \in 0..9
      /\ f \in 0..9 /\ g \in 0..9 /\ h \in 0..9 /\ k \in 0..9
  BY <1>1
<1> HIDE DEF a, b, c, d, e, f, g, h, k
<1>3. WeightedSum(digits) = a + b * 3 + c * 7 + d + e * 3 + f * 7 + g + h * 3 + k * 5
  BY <1>2, SumWrittenOut
<1>4. WeightedSum(wrong) = wrong[1] + wrong[2] * 3 + wrong[3] * 7 +
                           wrong[4] + wrong[5] * 3 + wrong[6] * 7 +
                           wrong[7] + wrong[8] * 3 + wrong[9] * 5
  BY <1>1, SumWrittenOut
<1>5. /\ Weights[1] = 1 /\ Weights[2] = 3 /\ Weights[3] = 7
      /\ Weights[4] = 1 /\ Weights[5] = 3 /\ Weights[6] = 7
      /\ Weights[7] = 1 /\ Weights[8] = 3
  BY DEF Weights
<1> HIDE DEF wrong
<1> SUFFICES WeightedSum(wrong) = WeightedSum(digits) + Weights[i] * digit - Weights[i] * digits[i]
  BY DEF wrong
<1>11. CASE i = 1
  <2>1. WeightedSum(wrong) = digit + b * 3 + c * 7 + d + e * 3 + f * 7 + g + h * 3 + k * 5
    BY <1>1, <1>2, <1>4, <1>11
  <2> QED
    BY <1>2, <1>3, <1>5, <1>11, <2>1
<1>12. CASE i = 2
  <2>1. WeightedSum(wrong) = a + digit * 3 + c * 7 + d + e * 3 + f * 7 + g + h * 3 + k * 5
    BY <1>1, <1>2, <1>4, <1>12
  <2> QED
    BY <1>2, <1>3, <1>5, <1>12, <2>1
<1>13. CASE i = 3
  <2>1. WeightedSum(wrong) = a + b * 3 + digit * 7 + d + e * 3 + f * 7 + g + h * 3 + k * 5
    BY <1>1, <1>2, <1>4, <1>13
  <2> QED
    BY <1>2, <1>3, <1>5, <1>13, <2>1
<1>14. CASE i = 4
  <2>1. WeightedSum(wrong) = a + b * 3 + c * 7 + digit + e * 3 + f * 7 + g + h * 3 + k * 5
    BY <1>1, <1>2, <1>4, <1>14
  <2> QED
    BY <1>2, <1>3, <1>5, <1>14, <2>1
<1>15. CASE i = 5
  <2>1. WeightedSum(wrong) = a + b * 3 + c * 7 + d + digit * 3 + f * 7 + g + h * 3 + k * 5
    BY <1>1, <1>2, <1>4, <1>15
  <2> QED
    BY <1>2, <1>3, <1>5, <1>15, <2>1
<1>16. CASE i = 6
  <2>1. WeightedSum(wrong) = a + b * 3 + c * 7 + d + e * 3 + digit * 7 + g + h * 3 + k * 5
    BY <1>1, <1>2, <1>4, <1>16
  <2> QED
    BY <1>2, <1>3, <1>5, <1>16, <2>1
<1>17. CASE i = 7
  <2>1. WeightedSum(wrong) = a + b * 3 + c * 7 + d + e * 3 + f * 7 + digit + h * 3 + k * 5
    BY <1>1, <1>2, <1>4, <1>17
  <2> QED
    BY <1>2, <1>3, <1>5, <1>17, <2>1
<1>18. CASE i = 8
  <2>1. WeightedSum(wrong) = a + b * 3 + c * 7 + d + e * 3 + f * 7 + g + digit * 3 + k * 5
    BY <1>1, <1>2, <1>4, <1>18
  <2> QED
    BY <1>2, <1>3, <1>5, <1>18, <2>1
<1> QED
  BY <1>11, <1>12, <1>13, <1>14, <1>15, <1>16, <1>17, <1>18

(* The checksum of a registration number (isValid) detects every single    *)
(* wrong digit, wherever it stands and whatever it was: the recognition    *)
(* of a photograph errs in single digits, and a number that is off by one  *)
(* must never pass for another business.                                   *)
THEOREM WrongDigitDetected ==
    ASSUME NEW digits \in [1..10 -> 0..9], IsValidDigits(digits),
           NEW i \in 1..10, NEW digit \in 0..9, digit # digits[i]
    PROVE  ~IsValidDigits([digits EXCEPT ![i] = digit])
<1> DEFINE wrong == [digits EXCEPT ![i] = digit]
           Sum(d) == WeightedSum(d) + (d[9] * 5) \div 10
<1> SUFFICES ASSUME IsValidDigits(wrong) PROVE FALSE
  OBVIOUS
<1>1. /\ wrong \in [1..10 -> 0..9]
      /\ wrong[i] = digit
      /\ \A j \in 1..10 \ {i} : wrong[j] = digits[j]
      /\ \A j \in 1..10 : digits[j] \in 0..9 /\ wrong[j] \in 0..9
  OBVIOUS
<1>2. Sum(digits) \in Nat /\ Sum(wrong) \in Nat
  <2>1. \A d \in [1..10 -> 0..9] : WeightedSum(d) \in Nat /\ (d[9] * 5) \div 10 \in Nat
    BY SumWrittenOut
  <2>2. \A d \in [1..10 -> 0..9] : Sum(d) \in Nat
    BY <2>1
  <2> HIDE DEF Sum, wrong
  <2> QED
    BY <1>1, <2>2
<1>3. digits[10] = (10 - (Sum(digits) % 10)) % 10
  BY DEF IsValidDigits, CheckDigit
<1>4. wrong[10] = (10 - (Sum(wrong) % 10)) % 10
  BY DEF IsValidDigits, CheckDigit
<1>5. CASE i = 10
  <2>1. Sum(wrong) = Sum(digits)
    BY <1>1, <1>5 DEF WeightedSum
  <2> QED
    BY <1>1, <1>3, <1>4, <1>5, <2>1
<1>6. CASE i # 10
  <2> HIDE DEF wrong
  <2>1. Sum(wrong) % 10 = Sum(digits) % 10
    <3>1. wrong[10] = digits[10]
      BY <1>1, <1>6
    <3> HIDE DEF Sum
    <3> QED
      BY <1>2, <1>3, <1>4, <3>1, CheckDigitTellsSum
  <2>2. CASE i = 9
    <3> DEFINE s == WeightedSum(digits) - digits[9] * 5
    <3>1. s \in Nat
      BY SumWrittenOut
    <3>2. /\ Sum(digits) = s + digits[9] * 5 + (digits[9] * 5) \div 10
          /\ Sum(wrong) = s + digit * 5 + (digit * 5) \div 10
      <4>1. WeightedSum(digits) = s + digits[9] * 5
        BY <1>1, SumWrittenOut
      <4>3. WeightedSum(wrong) = s + digit * 5
        <5>1. /\ wrong[1] = digits[1] /\ wrong[2] = digits[2] /\ wrong[3] = digits[3]
              /\ wrong[4] = digits[4] /\ wrong[5] = digits[5] /\ wrong[6] = digits[6]
              /\ wrong[7] = digits[7] /\ wrong[8] = digits[8] /\ wrong[9] = digit
          BY <1>1, <2>2
        <5> DEFINE others == digits[1] + digits[2] * 3 + digits[3] * 7 +
                             digits[4] + digits[5] * 3 + digits[6] * 7 +
                             digits[7] + digits[8] * 3
        <5>2. others \in Nat
          <6>1. /\ digits[1] \in Nat /\ digits[2] \in Nat /\ digits[3] \in Nat
                /\ digits[4] \in Nat /\ digits[5] \in Nat /\ digits[6] \in Nat
                /\ digits[7] \in Nat /\ digits[8] \in Nat
            BY <1>1
          <6> QED
            BY <6>1
        <5>3. WeightedSum(digits) = others + digits[9] * 5
          BY SumWrittenOut
        <5>4. WeightedSum(wrong) = others + digit * 5
          BY <1>1, <5>1, SumWrittenOut
        <5> HIDE DEF others
        <5> QED
          BY <1>1, <5>2, <5>3, <5>4
      <4>2. wrong[9] = digit
        BY <1>1, <2>2
      <4> HIDE DEF s
      <4> QED
        BY <4>1, <4>2, <4>3
    <3> HIDE DEF s, Sum
    <3> QED
      BY <1>1, <2>1, <2>2, <3>1, <3>2, CarryTellsDigits
  <2>3. CASE i # 9
    <3> DEFINE w == Weights[i]
    <3>1. w \in {1, 3, 7}
      BY <1>6, <2>3 DEF Weights
    <3>2. WeightedSum(wrong) = WeightedSum(digits) + w * digit - w * digits[i]
      <4>1. i \in 1..8
        BY <1>6, <2>3
      <4> QED
        BY <4>1, ChangedSum DEF wrong
    <3>3. wrong[9] = digits[9]
      BY <1>1, <2>3
    <3>4. Sum(wrong) = Sum(digits) + w * digit - w * digits[i]
      <4>1. /\ WeightedSum(digits) \in Nat
            /\ (digits[9] * 5) \div 10 \in Nat
        BY SumWrittenOut
      <4>2. digits[i] \in Nat /\ digit \in Nat /\ w \in Nat
        BY <1>1, <3>1
      <4> HIDE DEF w
      <4> QED
        BY <3>2, <3>3, <4>1, <4>2
    <3> HIDE DEF w, Sum
    <3> QED
      <4>1. (Sum(digits) + w * digit - w * digits[i]) % 10 = Sum(digits) % 10
        BY <2>1, <3>4
      <4>2. digits[i] \in 0..9
        BY <1>1
      <4>3. digits[i] = digit
        BY <1>2, <3>1, <3>4, <4>1, <4>2, WeightsTellDigits
      <4> QED
        BY <4>3
  <2> QED
    BY <2>2, <2>3
<1> QED
  BY <1>5, <1>6
=============================================================================
