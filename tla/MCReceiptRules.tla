--------------------------- MODULE MCReceiptRules ---------------------------
(***************************************************************************)
(* The rules of ReceiptRules compared with what they are meant to say, for *)
(* every receipt, correction and registration number of a bounded set.     *)
(***************************************************************************)
EXTENDS ReceiptRules

VARIABLES data,     \* a receipt's data
          patch,    \* a correction
          number    \* a business registration number, ten digits

vars == <<data, patch, number>>

Next == UNCHANGED vars
-----------------------------------------------------------------------------
ValidNumber == <<1, 2, 0, 8, 1, 4, 7, 5, 2, 1>>
WrongNumber == <<1, 2, 0, 8, 1, 4, 7, 5, 2, 2>>

SomeData ==
    [shopName : {"cafe", None},
     date : {Today - 1, Today, Today + 1, None},
     totalAmount : {-1, 0, 5, None},
     businessRegistrationNumber : {ValidNumber, WrongNumber, None},
     paymentMethod : {None},
     lineItems : {<<>>, <<5>>, <<2, 3>>, <<5, None>>, <<7, -3>>}]

SomePatches ==
    [values : [shopName : {"cafe", Blank, None},
               date : {Today + 1, None},
               totalAmount : {5, None},
               businessRegistrationNumber : {None},
               paymentMethod : {None},
               lineItems : {<<>>, <<5>>, None}],
     clearFields : {{}, {"shopName"}, {"date", "lineItems"}}]

NoPatch == [values |-> [f \in Fields |-> None], clearFields |-> {}]

(* Ten digits whose check digit is right, the ninth digit being any.       *)
SomeNumbers ==
    {n \in {<<a, b, c, d, c, b, a, d, i, k>> : a, b, c, d \in {0, 4, 9}, i, k \in 0..9} :
        IsValidBusinessNumber(n)}

Routing == data \in SomeData \cup {None} /\ patch = NoPatch /\ number = ValidNumber

Correction ==
    /\ data \in {d \in SomeData : d.businessRegistrationNumber = None} \cup {None}
    /\ patch \in SomePatches
    /\ number = ValidNumber

Checksum == data = None /\ patch = NoPatch /\ number \in SomeNumbers

Init == Routing \/ Correction \/ Checksum

Spec == Init /\ [][Next]_vars
-----------------------------------------------------------------------------
(* The items that agree with a total of 5, the only positive one; items of *)
(* which one is unreadable are not compared.                               *)
ItemsOfFive == {<<>>, <<5>>, <<2, 3>>, <<5, None>>}

(* What a receipt must look like to be approved without a person.          *)
IsClean(d) ==
    /\ d # None
    /\ d.shopName # None
    /\ d.date # None
    /\ d.date <= Today
    /\ d.totalAmount # None
    /\ d.totalAmount > 0
    /\ d.lineItems \in ItemsOfFive
    /\ d.businessRegistrationNumber # WrongNumber

(* A receipt is approved automatically exactly when it is clean and is not *)
(* a duplicate; unusable data goes to manual entry whatever else fails.    *)
AutoApprovedIffClean ==
    \A duplicate \in BOOLEAN :
        LET routed == Route(data, Validate(data, duplicate))
        IN  /\ routed = "AUTO_APPROVED" <=> IsClean(data) /\ ~duplicate
            /\ routed = "MANUAL_ENTRY" <=>
                  data # None => \A f \in {"shopName", "date", "totalAmount"} :
                                     data[f] = None

(* Finding out that a receipt is a duplicate only ever takes an automatic  *)
(* approval away, and the stored results tell that it happened.            *)
DuplicateOnlyTightens == DuplicateTightens(data)

(* A correction that is sent twice (a retried request) does what it did    *)
(* once, leaves the fields it does not mention alone and never stores a    *)
(* blank text.                                                             *)
CorrectionIsIdempotent == CorrectsOnce(patch, data)

(* The checksum detects every single wrong digit of a valid number, the    *)
(* ninth included, whose weight 5 alone would confuse every other digit,   *)
(* and ignores separators.                                                 *)
SingleDigitErrorDetected ==
    /\ \A i \in 1..10, digit \in 0..9 :
          digit # number[i] => ~IsValidBusinessNumber([number EXCEPT ![i] = digit])
    /\ IsValidBusinessNumber(SubSeq(number, 1, 3) \o <<NonDigit>> \o
                             SubSeq(number, 4, 10))
=============================================================================
