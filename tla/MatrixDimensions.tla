--------------------------- MODULE MatrixDimensions ---------------------------
(***************************************************************************)
(* UaVariant::validateMatrixDimensions (src/uavariant.cpp), with the width *)
(* of its arithmetic: the dimensions are 32-bit signed, the number of      *)
(* elements is accumulated in a 64-bit signed integer, whose overflow      *)
(* would be undefined behaviour.                                           *)
(***************************************************************************)
EXTENDS Products

CONSTANTS
    IntLimit,   \* one above the largest OpcUa_Int32: 2^31
    LongLimit,  \* one above the largest OpcUa_Int64: 2^63
    MaxSize,    \* the largest number of dimensions a caller passes
    Lengths     \* the array lengths it passes, as OpcUa_UInt32

ASSUME WidthAssumption ==
    /\ IntLimit \in Nat \ {0, 1} /\ LongLimit \in Nat
    /\ IntLimit * IntLimit <= LongLimit
    /\ MaxSize \in Nat
    /\ Lengths \subseteq Nat

VARIABLES
    dimensions,        \* the argument, as the caller filled it in
    arrayLength,       \* the other argument
    index,             \* the loop's i, from 1
    numberOfElements,  \* the loop's product
    verdict            \* the status returned

loopVars == <<dimensions, arrayLength, index, numberOfElements, verdict>>

Int32 == -IntLimit .. IntLimit - 1
Dimensions == UNION {[1 .. n -> Int32] : n \in 0 .. MaxSize}

LoopInit ==
    /\ dimensions \in Dimensions
    /\ arrayLength \in Lengths
    /\ index = 1
    /\ numberOfElements = 1
    /\ verdict = "none"

Return(status) ==
    verdict' = status /\ UNCHANGED <<dimensions, arrayLength, index, numberOfElements>>

\* No dimensions: only an array without elements matches.
NoDimensions ==
    /\ verdict = "none"
    /\ dimensions = <<>>
    /\ Return(IF arrayLength = 0 THEN "Good" ELSE "BadInvalidArgument")

InLoop == verdict = "none" /\ index <= Len(dimensions)

\* A dimension below one.
Positive(d) == d >= 1
BadDimension ==
    /\ InLoop
    /\ ~Positive(dimensions[index])
    /\ Return("BadInvalidArgument")

\* numberOfElements *= dimensions[i], checked against 2^31 in every turn.
BugTooMany(n) == FALSE
TooMany(n) == n >= IntLimit
Multiply ==
    /\ InLoop
    /\ Positive(dimensions[index])
    /\ numberOfElements' = numberOfElements * dimensions[index]
    /\ IF TooMany(numberOfElements')
       THEN verdict' = "BadInvalidArgument" /\ UNCHANGED index
       ELSE index' = index + 1 /\ UNCHANGED verdict
    /\ UNCHANGED <<dimensions, arrayLength>>

BugMatches(n, len) == n >= len
Matches(n, len) == n = len
LoopDone ==
    /\ verdict = "none"
    /\ dimensions # <<>> /\ index > Len(dimensions)
    /\ Return(IF Matches(numberOfElements, arrayLength)
              THEN "Good" ELSE "BadInvalidArgument")

LoopNext == NoDimensions \/ BadDimension \/ Multiply \/ LoopDone

LoopSpec == LoopInit /\ [][LoopNext]_loopVars

-----------------------------------------------------------------------------
(* Properties.                                                             *)

LoopTypeOK ==
    /\ dimensions \in Seq(Int32)
    /\ arrayLength \in Nat
    /\ index \in Nat \ {0}
    /\ numberOfElements \in Nat \ {0}
    /\ verdict \in {"none", "Good", "BadInvalidArgument"}

\* The 64-bit product never overflows, whatever dimensions the caller passes:
\* the check in the loop stops it before a second factor can carry it over.
NoOverflow == numberOfElements < LongLimit

\* While the loop runs the product is below 2^31, so that one more factor fits.
BelowIntLimit == verdict = "none" => numberOfElements < IntLimit

Fitting ==
    IF dimensions = <<>> THEN arrayLength = 0
    ELSE /\ \A k \in 1 .. Len(dimensions) : dimensions[k] >= 1
         /\ Product(dimensions) = arrayLength

\* The verdict is Good exactly when the dimensions are all positive and their
\* true product is the array's length, and below 2^31.
VerdictCorrect ==
    verdict # "none" =>
        (verdict = "Good" <=> Fitting /\ arrayLength < IntLimit)

\* Before a verdict the product is the one of the dimensions the loop has passed,
\* and none of them was below one.
LoopAgrees ==
    verdict = "none" =>
        /\ index <= Len(dimensions) + 1
        /\ numberOfElements = Products(dimensions)[index - 1]
        /\ \A k \in 1 .. index - 1 : dimensions[k] >= 1

LoopInv == LoopTypeOK /\ NoOverflow /\ BelowIntLimit /\ LoopAgrees /\ VerdictCorrect
=============================================================================
