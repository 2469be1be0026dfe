----------------------- MODULE MatrixDimensionsProofs -----------------------
(***************************************************************************)
(* What holds of products of dimensions, by induction on their number, and *)
(* of validateMatrixDimensions for integers of every width.                *)
(***************************************************************************)
EXTENDS MatrixDimensions, WellFoundedInduction, TLAPS

-----------------------------------------------------------------------------
(* Induction and products.                                                 *)

\* A set of numbers that is not empty has a least one.
LEMMA LeastNumber ==
    ASSUME NEW T, T \subseteq Nat, T # {}
    PROVE  \E m \in T : \A n \in T : m <= n
<1> DEFINE R == OpToRel(<, Nat)
<1>1. IsWellFoundedOn(R, Nat)
  BY NatLessThanWellFounded
<1>2. \A x, y \in Nat : x < y => <<x, y>> \in R
  BY DEF OpToRel
<1> HIDE DEF R
<1>3. PICK m \in T : \A n \in T : <<n, m>> \notin R
  BY <1>1, WFMin
<1>4. ASSUME NEW n \in T PROVE m <= n
  <2>1. m \in Nat /\ n \in Nat
    OBVIOUS
  <2>2. ~(n < m)
    BY <1>2, <1>3, <2>1
  <2>3. QED
    BY <2>1, <2>2
<1>5. QED
  BY <1>4

\* Induction, over a set in place of a predicate.
LEMMA Induction ==
    ASSUME NEW S, 0 \in S, \A n \in Nat : n \in S => n + 1 \in S
    PROVE  Nat \subseteq S
<1> SUFFICES ASSUME Nat \ S # {} PROVE FALSE
  OBVIOUS
<1>1. PICK m \in Nat \ S : \A n \in Nat \ S : m <= n
  BY LeastNumber
<1>2. m - 1 \in Nat /\ m - 1 \in S
  BY <1>1
<1>3. QED
  BY <1>1, <1>2

\* The equation that defines Products has a solution for any list d, so that the
\* function chosen satisfies it.
LEMMA ProductsExist ==
    ASSUME NEW d, NEW N \in Nat
    PROVE  \E p : p = [n \in 0 .. N |-> IF n = 0 THEN 1 ELSE p[n - 1] * d[n]]
<1> DEFINE Solves(p, m) == p = [n \in 0 .. m |-> IF n = 0 THEN 1 ELSE p[n - 1] * d[n]]
           S == {m \in Nat : \E p : Solves(p, m)}
<1>1. 0 \in S
  <2>1. Solves([n \in {0} |-> 1], 0)
    OBVIOUS
  <2>2. QED
    BY <2>1
<1>2. ASSUME NEW m \in Nat, m \in S
      PROVE  m + 1 \in S
  <2>1. PICK p : Solves(p, m)
    BY <1>2
  <2> DEFINE q == [n \in 0 .. m + 1 |-> IF n = m + 1 THEN p[m] * d[m + 1] ELSE p[n]]
  <2>2. Solves(q, m + 1)
    <3>1. ASSUME NEW n \in 0 .. m + 1
          PROVE  q[n] = IF n = 0 THEN 1 ELSE q[n - 1] * d[n]
      <4>1. CASE n = m + 1
        BY <4>1
      <4>2. CASE n # m + 1 /\ n = 0
        BY <4>2, <2>1
      <4>3. CASE n # m + 1 /\ n # 0
        <5>1. n \in 0 .. m /\ n - 1 \in 0 .. m /\ n - 1 # m + 1 /\ n - 1 \in 0 .. m + 1
          BY <4>3
        <5>2. q[n] = p[n] /\ q[n - 1] = p[n - 1]
          BY <5>1, <4>3
        <5>3. p[n] = p[n - 1] * d[n]
          BY <5>1, <4>3, <2>1
        <5>4. QED
          BY <5>2, <5>3, <4>3
      <4>4. QED
        BY <4>1, <4>2, <4>3
    <3> HIDE DEF q
    <3>2. q = [n \in 0 .. m + 1 |-> q[n]]
      BY DEF q
    <3>3. QED
      BY <3>1, <3>2
  <2>3. \E r : Solves(r, m + 1)
    <3> HIDE DEF q, Solves
    <3>1. QED
      BY <2>2
  <2>4. QED
    BY <2>3
<1>3. N \in S
  <2> HIDE DEF S
  <2>1. QED
    BY <1>1, <1>2, Induction
<1>4. QED
  BY <1>3

\* What Products is: the equations it is defined by.
LEMMA ProductsUnfold ==
    ASSUME NEW d \in Seq(Int)
    PROVE  /\ Products(d)[0] = 1
           /\ \A n \in 1 .. Len(d) : Products(d)[n] = Products(d)[n - 1] * d[n]
<1> DEFINE p == Products(d)
<1>1. Len(d) \in Nat
  OBVIOUS
<1>2. p = [n \in 0 .. Len(d) |-> IF n = 0 THEN 1 ELSE p[n - 1] * d[n]]
  BY <1>1, ProductsExist DEF Products
<1> HIDE DEF p
<1>3. 0 \in 0 .. Len(d)
  BY <1>1
<1>4. p[0] = 1
  BY <1>2, <1>3
<1>5. ASSUME NEW n \in 1 .. Len(d) PROVE p[n] = p[n - 1] * d[n]
  <2>1. n \in 0 .. Len(d) /\ n # 0
    BY <1>1
  <2>2. QED
    BY <1>2, <2>1
<1>6. QED
  BY <1>4, <1>5 DEF p

\* Products of positive dimensions are positive and only grow.
LEMMA ProductsPositive ==
    ASSUME NEW d \in Seq(Int), NEW m \in 0 .. Len(d),
           \A k \in 1 .. m : d[k] >= 1
    PROVE  /\ \A n \in 0 .. m : Products(d)[n] \in Nat \ {0}
           /\ \A n \in 0 .. m : Products(d)[n] <= Products(d)[m]
<1> DEFINE p == Products(d)
<1>0. Len(d) \in Nat /\ m \in Nat
  OBVIOUS
<1>1. p[0] = 1 /\ \A n \in 1 .. m : p[n] = p[n - 1] * d[n]
  BY <1>0, ProductsUnfold
<1>2. \A n \in 1 .. m : d[n] \in Nat \ {0}
  BY <1>0
<1> HIDE DEF p
<1> DEFINE Grows(n) == p[n] \in Nat \ {0} /\ (n > 0 => p[n - 1] <= p[n])
           S == {n \in Nat : n <= m => Grows(n)}
<1>3. 0 \in S
  BY <1>1
<1>4. ASSUME NEW n \in Nat, n \in S PROVE n + 1 \in S
  <2> SUFFICES ASSUME n + 1 <= m PROVE Grows(n + 1)
    OBVIOUS
  <2>1. p[n] \in Nat \ {0} /\ d[n + 1] \in Nat \ {0} /\ p[n + 1] = p[n] * d[n + 1]
    BY <1>0, <1>1, <1>2, <1>4
  <2>2. \A a, b \in Nat \ {0} : a * b \in Nat \ {0} /\ a <= a * b
    BY SMT
  <2>3. p[n + 1] \in Nat \ {0} /\ p[n] <= p[n + 1]
    BY <2>1, <2>2
  <2>4. QED
    BY <2>3
<1>5. \A n \in 0 .. m : Grows(n)
  <2> HIDE DEF S, Grows
  <2>1. Nat \subseteq S
    BY <1>3, <1>4, Induction
  <2>2. QED
    BY <1>0, <2>1 DEF S
<1> DEFINE U == {j \in Nat : j <= m => p[m - j] <= p[m]}
<1>6. 0 \in U
  BY <1>0, <1>5
<1>7. ASSUME NEW j \in Nat, j \in U PROVE j + 1 \in U
  <2> SUFFICES ASSUME j + 1 <= m PROVE p[m - (j + 1)] <= p[m]
    OBVIOUS
  <2>1. m - j \in 0 .. m /\ m - j > 0 /\ (m - j) - 1 \in 0 .. m /\ (m - j) - 1 = m - (j + 1)
    BY <1>0
  <2>2. p[(m - j) - 1] <= p[m - j] /\ p[m - j] <= p[m]
    BY <1>5, <1>7, <2>1
  <2>3. p[m] \in Nat /\ p[m - j] \in Nat /\ p[(m - j) - 1] \in Nat
    BY <1>0, <1>5, <2>1
  <2>4. QED
    BY <2>1, <2>2, <2>3
<1>8. ASSUME NEW n \in 0 .. m PROVE p[n] <= p[m]
  <2> HIDE DEF U
  <2>1. Nat \subseteq U
    BY <1>6, <1>7, Induction
  <2>2. m - n \in Nat /\ m - n <= m /\ m - (m - n) = n
    BY <1>0
  <2>3. QED
    BY <2>1, <2>2 DEF U
<1>9. QED
  BY <1>5, <1>8 DEF p

\* Dimensions that are all positive have a positive product.
LEMMA PositiveProduct ==
    ASSUME NEW d \in Seq(Int), \A k \in 1 .. Len(d) : d[k] >= 1
    PROVE  Product(d) \in Nat \ {0}
<1>1. Len(d) \in 0 .. Len(d)
  OBVIOUS
<1>2. QED
  BY <1>1, ProductsPositive DEF Product

LEMMA ProductOfOne ==
    ASSUME NEW n \in Int
    PROVE  Product(<<n>>) = n
<1>1. <<n>> \in Seq(Int) /\ Len(<<n>>) = 1 /\ <<n>>[1] = n
  OBVIOUS
<1> DEFINE d == <<n>>
<1>2. d \in Seq(Int) /\ 1 \in 1 .. Len(d) /\ d[1] = n /\ 1 - 1 = 0 /\ Len(d) = 1
  BY <1>1
<1> HIDE DEF d
<1>3. Products(d)[1] = Products(d)[0] * n /\ Products(d)[0] = 1
  BY <1>2, ProductsUnfold
<1>4. Product(d) = n
  BY <1>2, <1>3 DEF Product
<1>5. QED
  BY <1>4 DEF d

-----------------------------------------------------------------------------
(* The loop of validateMatrixDimensions.                                   *)

\* The product of a number below m and one at most m - 1 stays below m * m: why
\* one multiplication after a check against 2^31 cannot overflow 2^63.
LEMMA ProductBound ==
    ASSUME NEW m \in Nat \ {0, 1}, NEW n \in Nat \ {0}, NEW d \in Nat \ {0},
           n < m, d <= m - 1
    PROVE  n * d \in Nat \ {0} /\ n * d < m * m
<1>1. n * d \in Nat \ {0}
  BY SMT
<1>2. n * d <= n * (m - 1)
  BY SMT
<1>3. n * (m - 1) <= m * (m - 1)
  BY SMT
<1>4. m * (m - 1) < m * m
  BY SMT
<1>5. n * (m - 1) \in Int /\ m * (m - 1) \in Int /\ m * m \in Int /\ n * d \in Int
  BY SMT
<1> QED
  BY <1>1, <1>2, <1>3, <1>4, <1>5

\* Before the loop nothing has been multiplied.
LEMMA LoopInvInit == LoopInit => LoopInv
<1> SUFFICES ASSUME LoopInit PROVE LoopInv
  OBVIOUS
<1>1. dimensions \in Seq(Int32)
  <2>1. PICK n \in 0 .. MaxSize : dimensions \in [1 .. n -> Int32]
    BY DEF LoopInit, Dimensions
  <2>2. n \in Nat
    BY <2>1, WidthAssumption
  <2> QED
    BY <2>1, <2>2
<1>2. dimensions \in Seq(Int) /\ Len(dimensions) \in Nat
  BY <1>1, WidthAssumption DEF Int32
<1>3. IntLimit * IntLimit > 1 /\ IntLimit * IntLimit \in Nat
  BY ProductBound, WidthAssumption
<1>4. LoopTypeOK
  BY <1>1, WidthAssumption DEF LoopInit, LoopTypeOK
<1>5. NoOverflow /\ BelowIntLimit
  BY <1>3, WidthAssumption DEF LoopInit, NoOverflow, BelowIntLimit
<1>6. LoopAgrees
  <2>1. index = 1 /\ numberOfElements = 1
    BY DEF LoopInit
  <2>2. Products(dimensions)[index - 1] = 1
    BY <1>2, <2>1, ProductsUnfold
  <2>3. QED
    BY <1>2, <2>1, <2>2 DEF LoopAgrees
<1>7. VerdictCorrect
  BY DEF LoopInit, VerdictCorrect
<1> QED
  BY <1>4, <1>5, <1>6, <1>7 DEF LoopInv

\* A dimension below one is in no list that fits.
LEMMA BadDimensionVerdict ==
    ASSUME LoopInv, BadDimension
    PROVE  ~Fitting
<1>1. index \in 1 .. Len(dimensions) /\ ~(dimensions[index] >= 1)
  BY DEF LoopInv, LoopTypeOK, BadDimension, InLoop, Positive
<1>2. QED
  BY <1>1 DEF Fitting

\* One turn of the loop: the new product, its bounds, and the dimension it took in.
LEMMA Turn ==
    ASSUME LoopInv, Multiply
    PROVE  /\ index \in 1 .. Len(dimensions)
           /\ dimensions[index] \in Nat \ {0}
           /\ numberOfElements' = Products(dimensions)[index]
           /\ numberOfElements' \in Nat \ {0}
           /\ numberOfElements' < LongLimit
           /\ \A k \in 1 .. index : dimensions[k] >= 1
<1>1. /\ dimensions \in Seq(Int32) /\ numberOfElements \in Nat \ {0}
      /\ index \in 1 .. Len(dimensions)
  BY DEF LoopInv, LoopTypeOK, Multiply, InLoop
<1>2. dimensions \in Seq(Int)
  BY <1>1, WidthAssumption DEF Int32
<1>3. dimensions[index] \in Nat \ {0} /\ dimensions[index] <= IntLimit - 1
  <2>1. dimensions[index] \in Int32
    BY <1>1
  <2>2. QED
    BY <2>1, WidthAssumption DEF Int32, Multiply, Positive
<1>4. /\ numberOfElements < IntLimit
      /\ numberOfElements = Products(dimensions)[index - 1]
      /\ \A k \in 1 .. index - 1 : dimensions[k] >= 1
  BY DEF LoopInv, BelowIntLimit, LoopAgrees, Multiply, InLoop
<1>5. numberOfElements' = numberOfElements * dimensions[index]
  BY DEF Multiply
<1>6. Products(dimensions)[index] = Products(dimensions)[index - 1] * dimensions[index]
  BY <1>1, <1>2, ProductsUnfold
<1>7. numberOfElements' \in Nat \ {0} /\ numberOfElements' < LongLimit
  <2> DEFINE d == dimensions[index]
  <2>1. d \in Nat \ {0} /\ d <= IntLimit - 1 /\ numberOfElements' = numberOfElements * d
    BY <1>3, <1>5
  <2> HIDE DEF d
  <2>2. /\ numberOfElements * d \in Nat \ {0}
        /\ numberOfElements * d < IntLimit * IntLimit
    BY <1>1, <1>4, <2>1, ProductBound, WidthAssumption
  <2>3. IntLimit * IntLimit \in Nat
    BY WidthAssumption
  <2>4. QED
    BY <2>1, <2>2, <2>3, WidthAssumption
<1>8. \A k \in 1 .. index : dimensions[k] >= 1
  BY <1>1, <1>3, <1>4
<1>9. QED
  BY <1>1, <1>3, <1>4, <1>5, <1>6, <1>7, <1>8

\* A product that reached the limit only grows with the dimensions that follow, so
\* that no array below the limit fits.
LEMMA TooManyVerdict ==
    ASSUME LoopInv, Multiply, TooMany(numberOfElements')
    PROVE  ~(Fitting /\ arrayLength < IntLimit)
<1> SUFFICES ASSUME Fitting, arrayLength < IntLimit PROVE FALSE
  OBVIOUS
<1> DEFINE p == Products(dimensions)
<1>1. dimensions \in Seq(Int) /\ Len(dimensions) \in Nat /\ IntLimit \in Nat
  BY WidthAssumption DEF LoopInv, LoopTypeOK, Int32
<1>2. index \in 1 .. Len(dimensions) /\ p[index] >= IntLimit
  BY Turn DEF TooMany
<1>3. (\A k \in 1 .. Len(dimensions) : dimensions[k] >= 1) /\ p[Len(dimensions)] = arrayLength
  BY <1>1, <1>2 DEF Fitting, Product
<1> HIDE DEF p
<1>4. p[index] \in Nat /\ p[index] <= p[Len(dimensions)]
  <2>1. index \in 0 .. Len(dimensions) /\ Len(dimensions) \in 0 .. Len(dimensions)
    BY <1>1, <1>2
  <2>2. QED
    BY <1>1, <1>3, <2>1, ProductsPositive DEF p
<1>5. arrayLength \in Nat
  BY DEF LoopInv, LoopTypeOK
<1>6. QED
  BY <1>1, <1>2, <1>3, <1>4, <1>5

\* After the last turn the product is that of all dimensions.
LEMMA LoopDoneVerdict ==
    ASSUME LoopInv, LoopDone
    PROVE  Matches(numberOfElements, arrayLength) <=> Fitting /\ arrayLength < IntLimit
<1>1. /\ dimensions \in Seq(Int32) /\ Len(dimensions) \in Nat /\ index \in Nat
      /\ dimensions # <<>> /\ index > Len(dimensions) /\ index <= Len(dimensions) + 1
  BY DEF LoopInv, LoopTypeOK, LoopAgrees, LoopDone
<1>2. index - 1 = Len(dimensions)
  BY <1>1
<1>3. /\ numberOfElements = Product(dimensions)
      /\ \A k \in 1 .. Len(dimensions) : dimensions[k] >= 1
  BY <1>2 DEF LoopInv, LoopAgrees, LoopDone, Product
<1>4. numberOfElements < IntLimit
  BY DEF LoopInv, BelowIntLimit, LoopDone
<1>5. QED
  BY <1>1, <1>3, <1>4 DEF Fitting, Matches

\* Every turn of the loop and every return keep LoopInv.
LEMMA LoopInvNext == LoopInv /\ [LoopNext]_loopVars => LoopInv'
<1> SUFFICES ASSUME LoopInv, [LoopNext]_loopVars PROVE LoopInv'
  OBVIOUS
<1>1. ASSUME NEW status \in {"Good", "BadInvalidArgument"}, Return(status),
             status = "Good" <=> Fitting /\ arrayLength < IntLimit
      PROVE  LoopInv'
  <2>1. /\ dimensions' = dimensions /\ arrayLength' = arrayLength /\ index' = index
        /\ numberOfElements' = numberOfElements /\ verdict' = status
    BY <1>1 DEF Return
  <2>2. LoopTypeOK' /\ NoOverflow' /\ BelowIntLimit' /\ LoopAgrees'
    BY <2>1 DEF LoopInv, LoopTypeOK, NoOverflow, BelowIntLimit, LoopAgrees
  <2>3. Fitting' <=> Fitting
    BY <2>1 DEF Fitting
  <2>4. VerdictCorrect'
    BY <1>1, <2>1, <2>3 DEF VerdictCorrect
  <2>5. QED
    BY <2>2, <2>4 DEF LoopInv
<1>2. CASE NoDimensions
  <2>1. arrayLength = 0 <=> Fitting /\ arrayLength < IntLimit
    BY <1>2, WidthAssumption DEF NoDimensions, Fitting
  <2>2. QED
    BY <1>1, <1>2, <2>1 DEF NoDimensions
<1>3. CASE BadDimension
  BY <1>1, <1>3, BadDimensionVerdict DEF BadDimension
<1>4. CASE Multiply
  <2>1. /\ dimensions' = dimensions /\ arrayLength' = arrayLength
        /\ verdict' \in {"none", "BadInvalidArgument"}
    BY <1>4 DEF Multiply, InLoop
  <2>2. CASE TooMany(numberOfElements')
    <3>1. index' = index /\ verdict' = "BadInvalidArgument"
      BY <1>4, <2>2 DEF Multiply
    <3>2. LoopTypeOK'
      BY <1>4, <2>1, <3>1, Turn DEF LoopInv, LoopTypeOK
    <3>3. NoOverflow' /\ BelowIntLimit' /\ LoopAgrees'
      BY <1>4, <3>1, Turn DEF NoOverflow, BelowIntLimit, LoopAgrees
    <3>4. VerdictCorrect'
      <4>1. Fitting' <=> Fitting
        BY <2>1 DEF Fitting
      <4>2. QED
        BY <1>4, <2>1, <2>2, <3>1, <4>1, TooManyVerdict DEF VerdictCorrect
    <3>5. QED
      BY <3>2, <3>3, <3>4 DEF LoopInv
  <2>3. CASE ~TooMany(numberOfElements')
    <3>1. index' = index + 1 /\ verdict' = "none"
      BY <1>4, <2>3 DEF Multiply, InLoop
    <3>2. LoopTypeOK'
      BY <1>4, <2>1, <3>1, Turn DEF LoopInv, LoopTypeOK
    <3>3. NoOverflow' /\ BelowIntLimit'
      BY <1>4, <2>3, Turn, WidthAssumption DEF NoOverflow, BelowIntLimit, TooMany
    <3>4. LoopAgrees'
      <4>1. /\ index \in 1 .. Len(dimensions) /\ index' - 1 = index
            /\ index' <= Len(dimensions) + 1
        BY <1>4, <3>1, Turn
      <4>2. /\ numberOfElements' = Products(dimensions)[index]
            /\ \A k \in 1 .. index : dimensions[k] >= 1
        BY <1>4, Turn
      <4>3. /\ index' <= Len(dimensions') + 1
            /\ numberOfElements' = Products(dimensions')[index' - 1]
            /\ \A k \in 1 .. index' - 1 : dimensions'[k] >= 1
        BY <2>1, <4>1, <4>2
      <4>4. QED
        BY <4>3 DEF LoopAgrees
    <3>5. VerdictCorrect'
      BY <3>1 DEF VerdictCorrect
    <3>6. QED
      BY <3>2, <3>3, <3>4, <3>5 DEF LoopInv
  <2>4. QED
    BY <2>2, <2>3
<1>5. CASE LoopDone
  BY <1>1, <1>5, LoopDoneVerdict DEF LoopDone
<1>6. CASE UNCHANGED loopVars
  BY <1>6 DEF loopVars, LoopInv, LoopTypeOK, NoOverflow, BelowIntLimit, LoopAgrees,
              VerdictCorrect, Fitting
<1> QED
  BY <1>2, <1>3, <1>4, <1>5, <1>6 DEF LoopNext

\* validateMatrixDimensions never overflows its 64-bit product, for integers of
\* any width whose square fits the wider one and for any number of dimensions.
THEOREM ProductNeverOverflows == LoopSpec => []NoOverflow
<1>1. LoopInv => NoOverflow
  BY DEF LoopInv
<1> QED
  BY LoopInvInit, LoopInvNext, <1>1, PTL DEF LoopSpec

\* The status validateMatrixDimensions returns is Good exactly for positive
\* dimensions whose true product is the array's length and below 2^31.
THEOREM VerdictIsCorrect == LoopSpec => []VerdictCorrect
<1>1. LoopInv => VerdictCorrect
  BY DEF LoopInv
<1> QED
  BY LoopInvInit, LoopInvNext, <1>1, PTL DEF LoopSpec
=============================================================================
