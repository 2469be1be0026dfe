--------------------------- MODULE UaVariantProofs ---------------------------
(***************************************************************************)
(* Theorems about UaVariant, for types of any width, any values and arrays *)
(* of any length.                                                          *)
(***************************************************************************)
EXTENDS UaVariant, MatrixDimensionsProofs

-----------------------------------------------------------------------------
(* What a variant is.                                                      *)

DataKinds == {"null", "sentinel", "block"}
VariantsOver(S) ==
    [type : Types \cup {"Null"}, data : DataKinds, cells : Seq(S),
     length : Nat, dims : Seq(Int)]

\* The elements of a string type are whatever the caller passes in.
IsVariant(w) == \E S : w \in VariantsOver(S)

Sound(w) == IsVariant(w) /\ Agrees(w)

VariantInv ==
    /\ held = [x \in Variants |-> held[x]]
    /\ \A x \in Variants : Sound(held[x])

LEMMA TypeNames ==
    /\ \A t \in Types : t # "Null"
    /\ NumericTypes \subseteq Types
    /\ \A t \in NumericTypes : Low[t] \in Int /\ High[t] \in Nat \ {0} /\ Low[t] <= 0
  BY LimitsAssumption DEF Types

-----------------------------------------------------------------------------
(* The setters build sound variants.                                       *)

LEMMA UpdatesInType ==
    ASSUME NEW S, NEW w \in VariantsOver(S),
           NEW t \in Types, NEW k \in DataKinds, NEW c \in Seq(S), NEW n \in Nat
    PROVE  /\ [w EXCEPT !.type = t, !.data = k, !.cells = c] \in VariantsOver(S)
           /\ [w EXCEPT !.type = t, !.cells = c, !.length = n, !.data = k] \in VariantsOver(S)
  BY DEF VariantsOver

LEMMA ShapedInType ==
    ASSUME NEW S, NEW w \in VariantsOver(S), NEW d \in Seq(Int)
    PROVE  [w EXCEPT !.dims = d] \in VariantsOver(S)
  BY DEF VariantsOver

LEMMA NothingInType == \A S : Nothing \in VariantsOver(S)
  BY DEF Nothing, VariantsOver, DataKinds

LEMMA ConstructedInType ==
    ASSUME NEW S, NEW t \in Types, NEW c \in Seq(S)
    PROVE  /\ \A v : c = <<v>> => Scalar(t, v) \in VariantsOver(S)
           /\ ArrayOf(t, c) \in VariantsOver(S)
           /\ \A d \in Seq(Int) : MatrixOf(t, c, d) \in VariantsOver(S)
<1> DEFINE k == IF c = <<>> THEN "sentinel" ELSE "block"
<1>1. k \in DataKinds /\ "block" \in DataKinds /\ Len(c) \in Nat
  BY DEF DataKinds
<1>2. Nothing \in VariantsOver(S)
  BY NothingInType
<1> HIDE DEF k
<1>3. [Nothing EXCEPT !.type = t, !.data = "block", !.cells = c] \in VariantsOver(S)
  BY <1>1, <1>2, UpdatesInType
<1>4. [Nothing EXCEPT !.type = t, !.cells = c, !.length = Len(c), !.data = k] \in VariantsOver(S)
  BY <1>1, <1>2, UpdatesInType
<1>5. ArrayOf(t, c) \in VariantsOver(S)
  BY <1>4 DEF ArrayOf, k
<1>6. ASSUME NEW d \in Seq(Int)
      PROVE  MatrixOf(t, c, d) \in VariantsOver(S)
  <2> DEFINE a == ArrayOf(t, c)
  <2>1. a \in VariantsOver(S)
    BY <1>5
  <2> HIDE DEF a
  <2>2. [a EXCEPT !.dims = d] \in VariantsOver(S)
    BY <2>1, ShapedInType
  <2>3. QED
    BY <2>2 DEF MatrixOf, a
<1>7. QED
  BY <1>3, <1>5, <1>6 DEF Scalar

LEMMA NothingIsSound == Sound(Nothing)
<1>1. Nothing \in VariantsOver({})
  BY DEF Nothing, VariantsOver, DataKinds
<1>2. Agrees(Nothing)
  BY DEF Nothing, Agrees, IsScalar
<1>3. QED
  BY <1>1, <1>2 DEF Sound, IsVariant

LEMMA ScalarIsSound ==
    ASSUME NEW t \in Types, NEW v, InType(t, v)
    PROVE  Sound(Scalar(t, v))
<1> DEFINE w == Scalar(t, v)
<1>1. /\ w.type = t /\ w.data = "block" /\ w.cells = <<v>>
      /\ w.length = 0 /\ w.dims = <<>>
  BY DEF Scalar, Nothing
<1>2. <<v>> \in Seq({v}) /\ Len(<<v>>) = 1 /\ <<v>>[1] = v /\ <<v>> # <<>>
  OBVIOUS
<1>3. w \in VariantsOver({v})
  BY <1>2, ConstructedInType
<1> HIDE DEF w
<1>4. Agrees(w)
  BY <1>1, <1>2 DEF Agrees, IsScalar
<1>5. QED
  BY <1>3, <1>4 DEF Sound, IsVariant, w

LEMMA NullArrayIsSound ==
    ASSUME NEW t \in Types
    PROVE  Sound(NullArray(t))
<1>1. NullArray(t) = [type |-> t, data |-> "null", cells |-> <<>>, length |-> 0, dims |-> <<>>]
  BY DEF NullArray, Nothing
<1>2. NullArray(t) \in VariantsOver({})
  BY <1>1 DEF VariantsOver, DataKinds
<1>3. Agrees(NullArray(t))
  BY <1>1 DEF Agrees, IsScalar
<1>4. QED
  BY <1>2, <1>3 DEF Sound, IsVariant

\* Dimensions from outside may come with anything.
LEMMA ReceivedIsSound ==
    ASSUME NEW w, Sound(w), w.type \in Types, NEW d \in ReceivedShapes
    PROVE  Sound([w EXCEPT !.dims = d])
<1> DEFINE u == [w EXCEPT !.dims = d]
<1>1. PICK S : w \in VariantsOver(S)
  BY DEF Sound, IsVariant
<1>2. d \in Seq(Int)
  <2>1. d \in Seq(Nat)
    BY ArgumentsAssumption
  <2>2. QED
    BY <2>1
<1>3. u \in VariantsOver(S)
  BY <1>1, <1>2, ShapedInType
<1>4. /\ u.type = w.type /\ u.data = w.data /\ u.cells = w.cells
      /\ u.length = w.length /\ u.dims = d
  BY <1>1 DEF VariantsOver
<1> HIDE DEF u
<1>5. Agrees(u)
  BY <1>4 DEF Sound, Agrees, IsScalar
<1>6. QED
  BY <1>3, <1>5 DEF Sound, IsVariant, u

LEMMA ElementsInType ==
    ASSUME NEW t \in Types, NEW s \in ArraysOf(t)
    PROVE  /\ s \in Seq(Samples[t])
           /\ \A i \in DOMAIN s : InType(t, s[i])
<1>1. PICK n \in 0 .. MaxLength : s \in [1 .. n -> Samples[t]]
  BY DEF ArraysOf
<1>2. n \in Nat
  BY <1>1, ArgumentsAssumption
<1>3. QED
  <2>1. s \in Seq(Samples[t]) /\ DOMAIN s = 1 .. n
    BY <1>1, <1>2
  <2>2. \A v \in Samples[t] : InType(t, v)
    BY ArgumentsAssumption DEF InType
  <2>3. QED
    BY <1>1, <2>1, <2>2

LEMMA ArrayIsSound ==
    ASSUME NEW t \in Types, NEW s \in ArraysOf(t)
    PROVE  Sound(ArrayOf(t, s))
<1> DEFINE w == ArrayOf(t, s)
<1>1. s \in Seq(Samples[t]) /\ \A i \in DOMAIN s : InType(t, s[i])
  BY ElementsInType
<1>2. /\ w.type = t /\ w.data = IF s = <<>> THEN "sentinel" ELSE "block"
      /\ w.cells = s /\ w.length = Len(s) /\ w.dims = <<>>
  BY DEF ArrayOf, Nothing
<1>3. w \in VariantsOver(Samples[t])
  BY <1>1, ConstructedInType
<1> HIDE DEF w
<1>4. s # <<>> => Len(s) # 0
  BY <1>1
<1>5. Agrees(w)
  BY <1>1, <1>2, <1>4 DEF Agrees, IsScalar
<1>6. QED
  BY <1>3, <1>5 DEF Sound, IsVariant, w

LEMMA MatrixIsSound ==
    ASSUME NEW t \in Types, NEW s \in ArraysOf(t), NEW d \in Seq(Int),
           IF d = <<>> THEN s = <<>> ELSE s # <<>> /\ Product(d) = Len(s)
    PROVE  Sound(MatrixOf(t, s, d))
<1> DEFINE w == MatrixOf(t, s, d)
<1>1. s \in Seq(Samples[t]) /\ \A i \in DOMAIN s : InType(t, s[i])
  BY ElementsInType
<1>2. /\ w.type = t /\ w.data = IF s = <<>> THEN "sentinel" ELSE "block"
      /\ w.cells = s /\ w.length = Len(s) /\ w.dims = d
  BY DEF MatrixOf, ArrayOf, Nothing
<1>3. w \in VariantsOver(Samples[t])
  <2>1. MatrixOf(t, s, d) \in VariantsOver(Samples[t])
    BY <1>1, ConstructedInType
  <2>2. QED
    BY <2>1
<1> HIDE DEF w
<1>4. s # <<>> => Len(s) # 0 /\ Len(s) > 0
  BY <1>1
<1>5. Agrees(w)
  BY <1>1, <1>2, <1>4 DEF Agrees, IsScalar
<1>6. QED
  BY <1>3, <1>5 DEF Sound, IsVariant, w

\* A shape that passes validateMatrixDimensions has elements to shape.
LEMMA ValidShape ==
    ASSUME NEW t \in Types, NEW s \in ArraysOf(t), NEW d \in Shapes, ValidMatrix(s, d)
    PROVE  Sound(MatrixOf(t, s, d))
<1>1. d \in Seq(Int)
  BY ArgumentsAssumption
<1>2. s \in Seq(Samples[t])
  BY ElementsInType
<1>3. CASE d = <<>>
  BY <1>1, <1>3, MatrixIsSound DEF ValidMatrix
<1>4. CASE d # <<>>
  <2>1. Product(d) = Len(s) /\ \A i \in 1 .. Len(d) : d[i] >= 1
    BY <1>1, <1>4 DEF ValidMatrix
  <2>2. s # <<>>
    BY <1>1, <2>1, PositiveProduct
  <2>3. QED
    BY <1>1, <1>4, <2>1, <2>2, MatrixIsSound
<1>5. QED
  BY <1>3, <1>4

\* UA_copy over the first element keeps the rest.
LEMMA OverwrittenIsSound ==
    ASSUME NEW w, Sound(w), NEW v, InType(w.type, v), w.data = "block"
    PROVE  Sound([w EXCEPT !.cells[1] = v])
<1>1. PICK S : w \in VariantsOver(S)
  BY DEF Sound, IsVariant
<1>2. /\ w.cells \in Seq(S) /\ w.cells # <<>>
      /\ \A i \in DOMAIN w.cells : InType(w.type, w.cells[i])
      /\ Len(w.cells) = (IF IsScalar(w) THEN 1 ELSE w.length)
  BY <1>1 DEF VariantsOver, Sound, Agrees
<1> DEFINE c == [w.cells EXCEPT ![1] = v]
           u == [w EXCEPT !.cells = c]
<1>3. /\ c \in Seq(S \cup {v}) /\ Len(c) = Len(w.cells) /\ c # <<>>
      /\ DOMAIN c = DOMAIN w.cells
      /\ \A i \in DOMAIN c : c[i] = v \/ c[i] = w.cells[i]
  BY <1>2
<1>4. [w EXCEPT !.cells[1] = v] = u
  BY <1>1 DEF VariantsOver
<1> HIDE DEF c
<1>5. /\ u \in VariantsOver(S \cup {v}) /\ u.type = w.type /\ u.data = w.data
      /\ u.cells = c /\ u.length = w.length /\ u.dims = w.dims
  BY <1>1, <1>3 DEF VariantsOver
<1> HIDE DEF u
<1>6. Agrees(u)
  <2>1. IsScalar(u) <=> IsScalar(w)
    BY <1>5 DEF IsScalar
  <2>2. Len(u.cells) = (IF IsScalar(u) THEN 1 ELSE u.length)
    BY <1>2, <1>3, <1>5, <2>1
  <2>3. \A i \in DOMAIN u.cells : InType(u.type, u.cells[i])
    BY <1>2, <1>3, <1>5
  <2>4. w # Nothing
    BY DEF Nothing
  <2>5. QED
    BY <1>3, <1>5, <2>2, <2>3, <2>4 DEF Sound, Agrees
<1>7. QED
  BY <1>4, <1>5, <1>6 DEF Sound, IsVariant

-----------------------------------------------------------------------------
(* Numeric conversion.                                                     *)

\* What is cut off a number of halves, and that nothing else is its integral part.
LEMMA Truncation ==
    ASSUME NEW h \in Int
    PROVE  /\ Truncated(h) \in Int
           /\ \A n \in Int : CutOff(n, h) <=> n = Truncated(h)
  BY DEF Truncated, CutOff

LEMMA DoubleCutOff ==
    ASSUME NEW v \in Int
    PROVE  /\ \A n \in Int : CutOff(n, 2 * v) <=> n = v
           /\ Truncated(2 * v) = v
  BY DEF CutOff, Truncated

\* A number is in its type, and nothing else but a real can be NaN.
LEMMA NumbersInType ==
    ASSUME NEW t \in NumericTypes, NEW v, InType(t, v)
    PROVE  /\ v # NaN => v \in Low[t] .. High[t] /\ v \in Int
           /\ v = NaN => t \in RealTypes
<1>1. Low[t] \in Int /\ High[t] \in Int
  BY TypeNames
<1>2. (t \in RealTypes /\ v = NaN) \/ v \in Low[t] .. High[t]
  BY DEF InType
<1>3. v \in Low[t] .. High[t] => v \in Int
  BY <1>1
<1>4. NaN \notin Int
  BY RoundingAssumption
<1>5. QED
  BY <1>2, <1>3, <1>4

\* What becomes of a value that fits is in the type it is converted to.
LEMMA ConvertedInType ==
    ASSUME NEW t \in NumericTypes, NEW u \in NumericTypes, NEW v, InType(t, v),
           Fits(t, u, v), NEW n \in Conversions(t, u, v)
    PROVE  InType(u, n)
<1>1. /\ Low[t] \in Int /\ High[t] \in Int /\ Low[u] \in Int /\ High[u] \in Nat \ {0}
      /\ Low[u] <= 0
  BY TypeNames
<1>2. /\ v # NaN => v \in Low[t] .. High[t] /\ v \in Int
      /\ u \in RealTypes \/ (u \in IntTypes /\ u \notin RealTypes)
      /\ t \in IntTypes \/ (t \in RealTypes /\ t \notin IntTypes)
  BY NumbersInType, LimitsAssumption DEF NumericTypes
<1>3. CASE v = NaN
  <2>1. CASE u \in RealTypes
    BY <1>3, <2>1 DEF Conversions, InType
  <2>2. CASE u \notin RealTypes
    <3>1. n \in Undefined(u)
      BY <1>3, <2>2 DEF Conversions
    <3>2. n \in Low[u] .. High[u]
      BY <1>1, <3>1 DEF Undefined
    <3>3. QED
      BY <3>2 DEF InType
  <2>3. QED
    BY <2>1, <2>2
<1>4. CASE v # NaN /\ u \in RealTypes
  <2>1. n = Nearest(u, Halves(t, v))
    BY <1>4 DEF Conversions
  <2>2. Halves(t, v) \in Low[u] .. High[u]
    <3>1. CASE t \in IntTypes
      <4>1. Low[u] < 2 * Low[t] /\ 2 * High[t] < High[u]
        BY <1>4, <3>1, LimitsAssumption
      <4>2. Halves(t, v) = 2 * v
        BY <3>1 DEF Halves
      <4>3. QED
        BY <1>1, <1>2, <1>4, <4>1, <4>2
    <3>2. CASE t \notin IntTypes
      <4>1. v \in Low[u] .. High[u]
        BY <1>4, <3>2, LimitsAssumption DEF Fits
      <4>2. QED
        BY <3>2, <4>1 DEF Halves
    <3>3. QED
      BY <3>1, <3>2
  <2>3. n \in Low[u] .. High[u]
    BY <1>4, <2>1, <2>2, RoundingAssumption
  <2>4. QED
    BY <2>3 DEF InType
<1>5. CASE v # NaN /\ u \notin RealTypes /\ t \in IntTypes
  <2>1. v \in Low[u] .. High[u]
    BY <1>2, <1>5, LimitsAssumption DEF Fits
  <2>2. n = Truncated(2 * v)
    BY <1>5 DEF Conversions, Halves
  <2>3. n = v
    BY <1>2, <1>5, <2>2, DoubleCutOff
  <2>4. QED
    BY <2>1, <2>3 DEF InType
<1>6. CASE v # NaN /\ u \notin RealTypes /\ t \notin IntTypes
  <2>1. Below(t, u) < v /\ v < Above(t, u)
    BY <1>2, <1>6 DEF Fits
  <2>2. Below(t, u) \in {2 * Low[u] - 2, 2 * Low[u]} /\ Above(t, u) = 2 * High[u] + 2
    BY <1>2, <1>6, RoundingAssumption
  <2>3. 2 * Low[u] - 2 < v /\ v < 2 * High[u] + 2
    BY <1>1, <1>2, <1>6, <2>1, <2>2
  <2>4. n = Truncated(v)
    BY <1>6 DEF Conversions, Halves
  <2>5. n \in Low[u] .. High[u]
    BY <1>1, <1>2, <1>6, <2>3, <2>4 DEF Truncated
  <2>6. QED
    BY <2>5 DEF InType
<1>7. QED
  BY <1>3, <1>4, <1>5, <1>6

\* The first element, which a variant with data in a block has.
LEMMA FirstElement ==
    ASSUME NEW w, Sound(w), w.data \notin {"null", "sentinel"}
    PROVE  w.data = "block" /\ InType(w.type, w.cells[1])
<1>1. PICK S : w \in VariantsOver(S)
  BY DEF Sound, IsVariant
<1>2. w.data = "block" /\ w.cells \in Seq(S)
  BY <1>1 DEF VariantsOver, DataKinds
<1>3. w.cells # <<>>
  BY <1>2 DEF Sound, Agrees
<1>4. 1 \in DOMAIN w.cells
  BY <1>2, <1>3
<1>5. QED
  BY <1>2, <1>4 DEF Sound, Agrees

\* What toSimpleType returns: the element, what it converts to, or a reason.
LEMMA SimpleResults ==
    ASSUME NEW w, NEW t, NEW r \in ToSimple(w, t)
    PROVE  \/ r.status \in {"Bad", "BadOutOfRange"}
           \/ r.status = "Crash" /\ w.data = "sentinel"
           \/ /\ r.status = "Good" /\ w.data \notin {"null", "sentinel"}
              /\ \/ w.type = t /\ r.value = w.cells[1]
                 \/ /\ w.type \in NumericTypes /\ Fits(w.type, t, w.cells[1])
                    /\ r.value \in Conversions(w.type, t, w.cells[1])
<1> DEFINE v == w.cells[1]
<1>1. CASE w.data = "null" \/ (w.type # t /\ ~({w.type, t} \subseteq NumericTypes))
  <2>1. r = Failed("Bad")
    BY <1>1 DEF ToSimple
  <2>2. QED
    BY <2>1 DEF Failed, Result
<1>2. CASE /\ w.data = "sentinel"
           /\ w.type = t \/ {w.type, t} \subseteq NumericTypes
  <2>1. r = Failed("Crash")
    BY <1>2 DEF ToSimple
  <2>2. QED
    BY <1>2, <2>1 DEF Failed, Result
<1>3. CASE w.data \notin {"null", "sentinel"} /\ w.type = t
  <2>1. r = Result("Good", v)
    BY <1>3 DEF ToSimple
  <2>2. QED
    BY <1>3, <2>1 DEF Result
<1>4. CASE /\ w.data \notin {"null", "sentinel"} /\ w.type # t
           /\ {w.type, t} \subseteq NumericTypes
  <2>1. CASE Fits(w.type, t, v)
    <3>1. PICK n \in Conversions(w.type, t, v) : r = Result("Good", n)
      BY <1>4, <2>1 DEF ToSimple
    <3>2. r.status = "Good" /\ r.value = n
      BY <3>1 DEF Result
    <3>3. QED
      BY <1>4, <2>1, <3>2
  <2>2. CASE ~Fits(w.type, t, v)
    <3>1. r = Failed("BadOutOfRange")
      BY <1>4, <2>2 DEF ToSimple
    <3>2. QED
      BY <3>1 DEF Failed, Result
  <2>3. QED
    BY <2>1, <2>2
<1>5. QED
  BY <1>1, <1>2, <1>3, <1>4

LEMMA SimpleInType ==
    ASSUME NEW w, Sound(w), NEW t \in NumericTypes,
           NEW r \in ToSimple(w, t), r.status = "Good"
    PROVE  InType(t, r.value)
<1>1. /\ w.data \notin {"null", "sentinel"}
      /\ \/ w.type = t /\ r.value = w.cells[1]
         \/ /\ w.type \in NumericTypes /\ Fits(w.type, t, w.cells[1])
            /\ r.value \in Conversions(w.type, t, w.cells[1])
  BY SimpleResults
<1>2. InType(w.type, w.cells[1])
  BY <1>1, FirstElement
<1>3. QED
  BY <1>1, <1>2, ConvertedInType

-----------------------------------------------------------------------------
(* What a step does.                                                       *)

\* Taking the dimensions off a matrix leaves its array.
LEMMA MatrixWithoutDimensions ==
    ASSUME NEW t \in Types, NEW s \in ArraysOf(t), NEW d \in Seq(Int)
    PROVE  [MatrixOf(t, s, d) EXCEPT !.dims = <<>>] = ArrayOf(t, s)
<1> DEFINE a == ArrayOf(t, s)
<1>1. s \in Seq(Samples[t])
  BY ElementsInType
<1>2. a \in VariantsOver(Samples[t])
  BY <1>1, ConstructedInType
<1>3. a.dims = <<>>
  BY DEF ArrayOf, Nothing
<1> HIDE DEF a
<1>4. [[a EXCEPT !.dims = d] EXCEPT !.dims = <<>>] = a
  BY <1>2, <1>3 DEF VariantsOver
<1>5. QED
  BY <1>4 DEF MatrixOf, a

\* The first element of a block of the right type is overwritten.
Reuses(x, t, v) ==
    /\ held[x].data = "block" /\ held[x].type = t /\ held[x].dims = <<>> /\ InType(t, v)
    /\ held' = [held EXCEPT ![x].cells[1] = v]
    /\ Returns(x, "Good", Scalar(t, v)) /\ UNCHANGED crashed

\* Memory runs out on the way to w, which the caller is told.
FailsCleanly(x, w, left) ==
    /\ Sound(left) /\ left \in {held[x], Nothing, [w EXCEPT !.dims = <<>>]}
    /\ Throws(x, w, left)

\* Memory runs out for the elements of an array of strings, which the code does not
\* notice.
WritesNull(x, w) ==
    /\ StringsRanOut(w)
    /\ held' = [held EXCEPT ![x] = Released(held[x])]
    /\ Returns(x, "Crash", w) /\ crashed' = TRUE

\* Nothing changes: the call was rejected, or the variant was what it asks for.
Keeps ==
    /\ UNCHANGED <<held, crashed>>
    /\ last'.status \notin {"Threw", "Crash"}
    /\ last'.status = "Good" => held[last'.var] = last'.wanted

\* The address in the data pointer of an empty array is read or written.
Crashes ==
    /\ UNCHANGED held
    /\ \E x \in Variants :
        /\ held[x].data = "sentinel"
        /\ last' = last \/ (last'.status = "Crash" /\ last'.var = x)

StepForms ==
    \/ Keeps
    \/ Crashes
    \/ \E x \in Variants :
        \/ \E w : Sound(w) /\ Done(x, w)
        \/ \E w, left : FailsCleanly(x, w, left)
        \/ \E w : WritesNull(x, w)
        \/ \E t \in Types : \E v : Reuses(x, t, v)

LEMMA ReleasedIsSound ==
    ASSUME NEW w, Sound(w)
    PROVE  Sound(Released(w)) /\ Released(w) \in {w, Nothing}
  BY NothingIsSound DEF Released

LEMMA ReplacesForm ==
    ASSUME NEW x \in Variants, NEW w, Sound(w), Replaces(x, w)
    PROVE  StepForms
<1>1. CASE Done(x, w)
  BY <1>1 DEF StepForms
<1>2. CASE Throws(x, w, Nothing)
  <2>1. FailsCleanly(x, w, Nothing)
    BY <1>2, NothingIsSound DEF FailsCleanly
  <2>2. QED
    BY <2>1 DEF StepForms
<1>3. QED
  BY <1>1, <1>2 DEF Replaces

LEMMA RewritesForm ==
    ASSUME VariantInv, NEW x \in Variants, NEW w, Sound(w), Rewrites(x, w)
    PROVE  StepForms
<1>1. CASE Done(x, w)
  BY <1>1 DEF StepForms
<1>2. CASE Throws(x, w, Released(held[x]))
  <2>1. Sound(held[x])
    BY DEF VariantInv
  <2>2. FailsCleanly(x, w, Released(held[x]))
    BY <1>2, <2>1, ReleasedIsSound DEF FailsCleanly
  <2>3. QED
    BY <2>2 DEF StepForms
<1>3. QED
  BY <1>1, <1>2 DEF Rewrites

LEMMA ElementsFailForm ==
    ASSUME VariantInv, NEW x \in Variants, NEW w, ElementsFail(x, w),
           w.type \in Types, w.cells # <<>> => w.length > 0
    PROVE  StepForms
<1>1. Sound(held[x])
  BY DEF VariantInv
<1>2. CASE Throws(x, w, Nothing)
  <2>1. FailsCleanly(x, w, Nothing)
    BY <1>2, NothingIsSound DEF FailsCleanly
  <2>2. QED
    BY <2>1 DEF StepForms
<1>3. CASE Throws(x, w, Released(held[x]))
  <2>1. FailsCleanly(x, w, Released(held[x]))
    BY <1>1, <1>3, ReleasedIsSound DEF FailsCleanly
  <2>2. QED
    BY <2>1 DEF StepForms
<1>4. CASE /\ w.type \notin NumericTypes
           /\ held' = [held EXCEPT ![x] = Released(@)]
           /\ Returns(x, "Crash", w)
           /\ crashed' = TRUE
  <2>1. StringsRanOut(w)
    BY <1>4 DEF StringsRanOut, ElementsFail
  <2>2. WritesNull(x, w)
    BY <1>4, <2>1 DEF WritesNull
  <2>3. QED
    BY <2>2 DEF StepForms
<1>5. QED
  BY <1>2, <1>3, <1>4 DEF ElementsFail

LEMMA RejectsForm ==
    ASSUME NEW x, NEW status, status \notin {"Good", "Threw", "Crash"}, Rejects(x, status)
    PROVE  StepForms
  BY DEF Rejects, Returns, StepForms, Keeps

LEMMA AssignsForm ==
    ASSUME VariantInv, NEW x \in Variants, NEW t \in Types, NEW v, InType(t, v),
           Assigns(x, t, v)
    PROVE  StepForms
<1>1. CASE Reusable(held[x], t)
  <2>1. /\ held[x].data # "null" /\ held[x].type = t /\ held[x].dims = <<>>
        /\ Overwrites(x, v, Scalar(t, v))
    BY <1>1 DEF Assigns, Reusable
  <2>2. CASE held[x].data = "sentinel"
    BY <2>1, <2>2 DEF Overwrites, Returns, StepForms, Crashes
  <2>3. CASE held[x].data # "sentinel"
    <3>1. PICK S : held[x] \in VariantsOver(S)
      BY DEF VariantInv, Sound, IsVariant
    <3>2. held[x].data = "block"
      BY <2>1, <2>3, <3>1 DEF VariantsOver, DataKinds
    <3>3. /\ held' = [held EXCEPT ![x].cells[1] = v]
          /\ Returns(x, "Good", Scalar(t, v)) /\ UNCHANGED crashed
      BY <2>1, <2>3 DEF Overwrites
    <3>4. Reuses(x, t, v)
      BY <2>1, <3>2, <3>3 DEF Reuses
    <3>5. QED
      BY <3>4 DEF StepForms
  <2>4. QED
    BY <2>2, <2>3
<1>2. CASE ~Reusable(held[x], t)
  <2>1. Replaces(x, Scalar(t, v)) /\ Sound(Scalar(t, v))
    BY <1>2, ScalarIsSound DEF Assigns
  <2>2. QED
    BY <2>1, ReplacesForm
<1>3. QED
  BY <1>1, <1>2

LEMMA ArrayForm ==
    ASSUME VariantInv, NEW x \in Variants, NEW t \in Types, NEW s \in ArraysOf(t),
           SetArray(x, t, s)
    PROVE  StepForms
<1> DEFINE w == ArrayOf(t, s)
<1>1. w.type = t /\ w.cells = s /\ w.length = Len(s)
  BY DEF ArrayOf, Nothing
<1>2. s # <<>> => Len(s) > 0
  BY ElementsInType
<1>3. Sound(w)
  BY ArrayIsSound
<1>4. Done(x, w) \/ ElementsFail(x, w)
  BY DEF SetArray
<1> HIDE DEF w
<1>5. QED
  BY <1>1, <1>2, <1>3, <1>4, ElementsFailForm DEF StepForms

LEMMA MatrixForm ==
    ASSUME VariantInv, NEW x \in Variants, NEW t \in Types, NEW s \in ArraysOf(t),
           NEW d \in Shapes, SetMatrix(x, t, s, d)
    PROVE  StepForms
<1>1. CASE ~ValidMatrix(s, d)
  BY <1>1, RejectsForm DEF SetMatrix
<1>2. CASE ValidMatrix(s, d)
  <2> DEFINE w == MatrixOf(t, s, d)
             a == ArrayOf(t, s)
  <2>1. w.type = t /\ w.cells = s /\ w.length = Len(s)
    BY DEF MatrixOf, ArrayOf, Nothing
  <2>2. s # <<>> => Len(s) > 0
    BY ElementsInType
  <2>3. Sound(w)
    BY <1>2, ValidShape
  <2>4. Sound(a) /\ [w EXCEPT !.dims = <<>>] = a
    BY ArrayIsSound, MatrixWithoutDimensions, ArgumentsAssumption
  <2>5. Done(x, w) \/ ElementsFail(x, w) \/ Throws(x, w, a)
    BY <1>2 DEF SetMatrix
  <2> HIDE DEF w, a
  <2>6. CASE Throws(x, w, a)
    <3>1. FailsCleanly(x, w, a)
      BY <2>4, <2>6 DEF FailsCleanly
    <3>2. QED
      BY <3>1 DEF StepForms
  <2>7. QED
    BY <2>1, <2>2, <2>3, <2>5, <2>6, ElementsFailForm DEF StepForms
<1>3. QED
  BY <1>1, <1>2

LEMMA ReceiveForm ==
    ASSUME NEW x \in Variants, NEW t \in Types, Receive(x, t)
    PROVE  StepForms
<1>1. PICK d \in ReceivedShapes :
        \/ Replaces(x, [NullArray(t) EXCEPT !.dims = d])
        \/ \E v \in Samples[t] : Replaces(x, [Scalar(t, v) EXCEPT !.dims = d])
        \/ \E s \in ArraysOf(t) : Replaces(x, MatrixOf(t, s, d))
  BY DEF Receive
<1>2. CASE Replaces(x, [NullArray(t) EXCEPT !.dims = d])
  <2>1. Sound(NullArray(t)) /\ NullArray(t).type = t
    BY NullArrayIsSound DEF NullArray, Nothing
  <2>2. Sound([NullArray(t) EXCEPT !.dims = d])
    BY <2>1, ReceivedIsSound
  <2>3. QED
    BY <1>2, <2>2, ReplacesForm
<1>3. ASSUME NEW v \in Samples[t], Replaces(x, [Scalar(t, v) EXCEPT !.dims = d])
      PROVE  StepForms
  <2>1. InType(t, v)
    BY ArgumentsAssumption DEF InType
  <2>2. Sound(Scalar(t, v)) /\ Scalar(t, v).type = t
    BY <2>1, ScalarIsSound DEF Scalar, Nothing
  <2>3. Sound([Scalar(t, v) EXCEPT !.dims = d])
    BY <2>2, ReceivedIsSound
  <2>4. QED
    BY <1>3, <2>3, ReplacesForm
<1>4. ASSUME NEW s \in ArraysOf(t), Replaces(x, MatrixOf(t, s, d))
      PROVE  StepForms
  <2>1. Sound(ArrayOf(t, s)) /\ ArrayOf(t, s).type = t
    BY ArrayIsSound DEF ArrayOf, Nothing
  <2>2. Sound(MatrixOf(t, s, d))
    BY <2>1, ReceivedIsSound DEF MatrixOf
  <2>3. QED
    BY <1>4, <2>2, ReplacesForm
<1>5. QED
  BY <1>1, <1>2, <1>3, <1>4

LEMMA ReadsSentinelForm ==
    ASSUME NEW x \in Variants, held[x].data = "sentinel", ReadsSentinel(x)
    PROVE  StepForms
  BY DEF ReadsSentinel, Returns, StepForms, Crashes

LEMMA ChangeTypeForm ==
    ASSUME VariantInv, NEW x \in Variants, NEW t \in Types, NEW toArray \in BOOLEAN,
           ChangeType(x, t, toArray)
    PROVE  StepForms
<1>0. t \in NumericTypes => t # "String" /\ t # "ByteString"
  BY LimitsAssumption
<1>1. CASE toArray
  BY <1>1, RejectsForm DEF ChangeType
<1>2. CASE ~toArray /\ TypeOf(held[x]) = t
  <2>1. Returns(x, "Good", held[x]) /\ UNCHANGED <<held, crashed>>
    BY <1>2 DEF ChangeType
  <2>2. QED
    BY <2>1 DEF Returns, StepForms, Keeps
<1>3. CASE ~toArray /\ TypeOf(held[x]) # t /\ t \in NumericTypes
  <2>1. PICK r \in ToSimple(held[x], t) :
          CASE r.status = "Good" -> Assigns(x, t, r.value)
            [] r.status = "Crash" -> ReadsSentinel(x)
            [] OTHER -> Rejects(x, r.status)
    BY <1>0, <1>3 DEF ChangeType
  <2>2. Sound(held[x])
    BY DEF VariantInv
  <2>3. CASE r.status = "Good"
    <3>1. Assigns(x, t, r.value)
      BY <2>1, <2>3
    <3>2. InType(t, r.value)
      BY <1>3, <2>2, <2>3, SimpleInType
    <3>3. QED
      BY <3>1, <3>2, AssignsForm
  <2>4. CASE r.status = "Crash"
    <3>1. ReadsSentinel(x)
      BY <2>1, <2>4
    <3>2. held[x].data = "sentinel"
      BY <2>4, SimpleResults
    <3>3. QED
      BY <3>1, <3>2, ReadsSentinelForm
  <2>5. CASE r.status \notin {"Good", "Crash"}
    <3>1. r.status \in {"Bad", "BadOutOfRange"}
      BY <2>5, SimpleResults
    <3>2. Rejects(x, r.status)
      BY <2>1, <2>5
    <3>3. QED
      BY <3>1, <3>2, RejectsForm
  <2>6. QED
    BY <2>3, <2>4, <2>5
<1>4. CASE ~toArray /\ TypeOf(held[x]) # t /\ t = "String"
  <2>1. IF TextCrashes(held[x]) THEN ReadsSentinel(x)
        ELSE Rewrites(x, Scalar("String", ToText(held[x])))
    BY <1>0, <1>4 DEF ChangeType
  <2>2. CASE TextCrashes(held[x])
    BY <2>1, <2>2, ReadsSentinelForm DEF TextCrashes
  <2>3. CASE ~TextCrashes(held[x])
    <3>1. InType("String", ToText(held[x]))
      BY LimitsAssumption DEF InType
    <3>2. Sound(Scalar("String", ToText(held[x])))
      BY <1>4, <3>1, ScalarIsSound
    <3>3. QED
      BY <2>1, <2>3, <3>2, RewritesForm
  <2>4. QED
    BY <2>2, <2>3
<1>5. CASE ~toArray /\ TypeOf(held[x]) # t /\ t = "ByteString"
  <2>1. Rejects(x, "BadNotSupported")
    BY <1>0, <1>5 DEF ChangeType
  <2>2. QED
    BY <2>1, RejectsForm
<1>6. QED
  BY <1>1, <1>2, <1>3, <1>4, <1>5 DEF Types

LEMMA NextForm ==
    ASSUME VariantInv, Next
    PROVE  StepForms
<1>1. PICK x \in Variants :
        \/ \E t \in Types :
            \/ \E v \in Samples[t] :
                IF t \in NumericTypes THEN SetScalar(x, t, v) ELSE SetText(x, t, v)
            \/ \E s \in ArraysOf(t) :
                \/ SetArray(x, t, s)
                \/ \E d \in Shapes : SetMatrix(x, t, s, d)
            \/ Receive(x, t)
            \/ \E toArray \in BOOLEAN : ChangeType(x, t, toArray)
            \/ Get(x, t)
        \/ \E y \in Variants : Assign(x, y)
        \/ Clear(x)
  BY DEF Next
<1>2. ASSUME NEW t \in Types, NEW v \in Samples[t],
             IF t \in NumericTypes THEN SetScalar(x, t, v) ELSE SetText(x, t, v)
      PROVE  StepForms
  <2>1. InType(t, v)
    BY ArgumentsAssumption DEF InType
  <2>2. CASE t \in NumericTypes
    BY <1>2, <2>1, <2>2, AssignsForm DEF SetScalar
  <2>3. CASE t \notin NumericTypes
    <3>1. Rewrites(x, Scalar(t, v)) /\ Sound(Scalar(t, v))
      BY <1>2, <2>1, <2>3, ScalarIsSound DEF SetText
    <3>2. QED
      BY <3>1, RewritesForm
  <2>4. QED
    BY <2>2, <2>3
<1>3. ASSUME NEW t \in Types, NEW s \in ArraysOf(t), SetArray(x, t, s)
      PROVE  StepForms
  BY <1>3, ArrayForm
<1>4. ASSUME NEW t \in Types, NEW s \in ArraysOf(t), NEW d \in Shapes, SetMatrix(x, t, s, d)
      PROVE  StepForms
  BY <1>4, MatrixForm
<1>5. ASSUME NEW t \in Types, Receive(x, t)
      PROVE  StepForms
  BY <1>5, ReceiveForm
<1>6. ASSUME NEW t \in Types, NEW toArray \in BOOLEAN, ChangeType(x, t, toArray)
      PROVE  StepForms
  BY <1>6, ChangeTypeForm
<1>7. ASSUME NEW t \in Types, Get(x, t)
      PROVE  StepForms
  <2>1. held[x].data = "sentinel"
    <3>1. \/ \E r \in ToSimple(held[x], t) : r.status = "Crash"
          \/ TextCrashes(held[x])
      BY <1>7 DEF Get
    <3>2. QED
      BY <3>1, SimpleResults DEF TextCrashes
  <2>2. QED
    BY <1>7, <2>1 DEF Get, StepForms, Crashes
<1>8. ASSUME NEW y \in Variants, Assign(x, y)
      PROVE  StepForms
  <2>1. Replaces(x, held[y]) /\ Sound(held[y])
    BY <1>8 DEF Assign, VariantInv
  <2>2. QED
    BY <2>1, ReplacesForm
<1>9. ASSUME Clear(x)
      PROVE  StepForms
  BY <1>9, NothingIsSound DEF Clear, StepForms
<1>10. QED
  BY <1>1, <1>2, <1>3, <1>4, <1>5, <1>6, <1>7, <1>8, <1>9

-----------------------------------------------------------------------------
(* Theorems.                                                               *)

LEMMA VariantInit == Init => VariantInv
  BY NothingIsSound DEF Init, VariantInv

\* One variant is given new, sound contents.
LEMMA OneVariantChanges ==
    ASSUME VariantInv, NEW x \in Variants, NEW w, Sound(w), held' = [held EXCEPT ![x] = w]
    PROVE  VariantInv'
<1>1. held' = [z \in Variants |-> held'[z]]
  BY DEF VariantInv
<1>2. \A z \in Variants : held'[z] = w \/ held'[z] = held[z]
  BY DEF VariantInv
<1>3. \A z \in Variants : Sound(held'[z])
  BY <1>2 DEF VariantInv
<1>4. QED
  BY <1>1, <1>3 DEF VariantInv, Sound, IsVariant, Agrees, InType, IsScalar

LEMMA VariantNext ==
    ASSUME VariantInv, [Next]_vars
    PROVE  VariantInv'
<1>1. CASE UNCHANGED vars
  BY <1>1 DEF vars, VariantInv
<1>2. CASE Keeps \/ Crashes
  BY <1>2 DEF Keeps, Crashes, VariantInv
<1>3. ASSUME NEW x \in Variants, NEW w, Sound(w), Done(x, w)
      PROVE  VariantInv'
  BY <1>3, OneVariantChanges DEF Done
<1>4. ASSUME NEW x \in Variants, NEW w, NEW left, FailsCleanly(x, w, left)
      PROVE  VariantInv'
  BY <1>4, OneVariantChanges DEF FailsCleanly, Throws
<1>5. ASSUME NEW x \in Variants, NEW w, WritesNull(x, w)
      PROVE  VariantInv'
  <2>1. Sound(Released(held[x]))
    BY ReleasedIsSound DEF VariantInv
  <2>2. QED
    BY <1>5, <2>1, OneVariantChanges DEF WritesNull
<1>6. ASSUME NEW x \in Variants, NEW t \in Types, NEW v, Reuses(x, t, v)
      PROVE  VariantInv'
  <2> DEFINE w == [held[x] EXCEPT !.cells[1] = v]
  <2>1. Sound(held[x])
    BY DEF VariantInv
  <2>2. Sound(w)
    BY <1>6, <2>1, OverwrittenIsSound DEF Reuses
  <2>3. held' = [held EXCEPT ![x] = w]
    BY <1>6 DEF Reuses, VariantInv
  <2> HIDE DEF w
  <2>4. QED
    BY <2>2, <2>3, OneVariantChanges
<1>7. QED
  BY <1>1, <1>2, <1>3, <1>4, <1>5, <1>6, NextForm DEF StepForms

LEMMA VariantAlways == Spec => []VariantInv
<1>1. QED
  BY VariantInit, VariantNext, PTL DEF Spec

\* After every call, also one that ran out of memory half way, the fields of
\* every variant agree: setters, assignment, clear and changeType (uavariant.cpp).
THEOREM FieldsAgree == Spec => []WellFormed
<1>1. VariantInv => WellFormed
  BY DEF VariantInv, WellFormed, Sound
<1>2. QED
  BY <1>1, VariantAlways, PTL

\* isScalar, isArray, arrayType, arraySize, dimensionSize, noOfMatrixElements and the
\* getters of arrays and matrices read one shape off those fields, whatever
\* dimensions a UA_Variant from outside came with.
THEOREM OneShape == Spec => []ReadersAgree
<1>1. ASSUME NEW w, Agrees(w), ArrayType(w) = "Matrix"
      PROVE  /\ DimensionSize(w) = Len(ArrayDimensions(w)) /\ ArraySize(w) = -1
             /\ IF Product(ArrayDimensions(w)) = Len(w.cells)
                THEN /\ ToMatrix(w, w.type) = Result("Good", <<w.cells, ArrayDimensions(w)>>)
                     /\ NoOfMatrixElements(w) = Product(ArrayDimensions(w))
                ELSE /\ ArrayDimensions(w) \in ReceivedShapes
                     /\ ToMatrix(w, w.type).status = "BadInvalidArgument"
                     /\ NoOfMatrixElements(w) = -1
  <2>1. IsMatrix(w) /\ ~IsScalar(w) /\ w.dims # <<>>
    BY <1>1 DEF ArrayType, IsMatrix
  <2>2. /\ ArrayDimensions(w) = w.dims /\ Len(w.cells) = w.length
        /\ w.dims \in ReceivedShapes \/ Product(w.dims) = w.length
    BY <1>1, <2>1 DEF ArrayDimensions, Agrees
  <2>3. DimensionSize(w) = Len(ArrayDimensions(w)) /\ ArraySize(w) = -1
    BY <2>1, <2>2 DEF DimensionSize, ArraySize, IsArray
  <2>4. CASE Product(w.dims) = w.length
    BY <2>1, <2>2, <2>3, <2>4 DEF ToMatrix, NoOfMatrixElements
  <2>5. CASE Product(w.dims) # w.length
    <3>1. ToMatrix(w, w.type).status = "BadInvalidArgument" /\ NoOfMatrixElements(w) = -1
      BY <2>1, <2>5 DEF ToMatrix, NoOfMatrixElements, Failed, Result
    <3>2. QED
      BY <2>2, <2>3, <2>5, <3>1
  <2>6. QED
    BY <2>4, <2>5
<1>2. ASSUME NEW w, Agrees(w), ArrayType(w) = "Array"
      PROVE  /\ ToArray(w, w.type).status = "Good"
             /\ ArraySize(w) = Len(ToArray(w, w.type).value)
             /\ ArrayDimensions(w) = <<ArraySize(w)>> /\ DimensionSize(w) = 1
             /\ ToMatrix(w, w.type).status = "BadTypeMismatch"
             /\ NoOfMatrixElements(w) = -1
  <2>1. IsArray(w) /\ ~IsEmpty(w) /\ ~IsMatrix(w) /\ ~IsScalar(w)
    BY <1>2 DEF ArrayType, IsArray
  <2>2. Len(w.cells) = w.length
    BY <1>2, <2>1 DEF Agrees
  <2>3. ToArray(w, w.type).status = "Good" /\ ToArray(w, w.type).value = w.cells
    BY <2>1 DEF ToArray, Result
  <2>4. ArraySize(w) = w.length /\ ArrayDimensions(w) = <<w.length>>
    BY <2>1 DEF ArraySize, ArrayDimensions
  <2>5. /\ DimensionSize(w) = 1 /\ NoOfMatrixElements(w) = -1
        /\ ToMatrix(w, w.type).status = "BadTypeMismatch"
    BY <2>1 DEF DimensionSize, NoOfMatrixElements, ToMatrix, Failed, Result
  <2>6. QED
    BY <2>2, <2>3, <2>4, <2>5
<1>3. ASSUME NEW w, Agrees(w), ArrayType(w) = "Scalar"
      PROVE  /\ IsArray(w) <=> IsEmpty(w)
             /\ ArraySize(w) = (IF IsEmpty(w) THEN 0 ELSE -1)
             /\ ArrayDimensions(w) = (IF IsEmpty(w) THEN <<0>> ELSE <<>>)
             /\ DimensionSize(w) = -1 /\ NoOfMatrixElements(w) = -1
             /\ IsEmpty(w) \/ ToArray(w, w.type).status = "BadDataEncodingInvalid"
             /\ ToMatrix(w, w.type).status = "BadTypeMismatch"
  <2>1. ~IsMatrix(w) /\ (~IsArray(w) \/ IsEmpty(w))
    BY <1>3 DEF ArrayType
  <2>2. /\ DimensionSize(w) = -1 /\ NoOfMatrixElements(w) = -1
        /\ ToMatrix(w, w.type).status = "BadTypeMismatch"
    BY <2>1 DEF DimensionSize, NoOfMatrixElements, ToMatrix, Failed, Result
  <2>3. CASE IsEmpty(w)
    <3>1. w = Nothing
      BY <1>3, <2>3, TypeNames DEF IsEmpty, Agrees
    <3>2. w.data = "null" /\ w.length = 0
      BY <3>1 DEF Nothing
    <3>3. IsArray(w) /\ ~IsScalar(w)
      BY <2>1, <3>2 DEF IsArray, IsScalar
    <3>4. ArraySize(w) = 0 /\ ArrayDimensions(w) = <<0>>
      BY <2>1, <3>2, <3>3 DEF ArraySize, ArrayDimensions
    <3>5. QED
      BY <2>2, <2>3, <3>3, <3>4
  <2>4. CASE ~IsEmpty(w)
    <3>1. ~IsArray(w) /\ IsScalar(w)
      BY <2>1, <2>4 DEF IsArray
    <3>2. ArraySize(w) = -1 /\ ArrayDimensions(w) = <<>>
      BY <2>1, <3>1 DEF ArraySize, ArrayDimensions
    <3>3. ToArray(w, w.type).status = "BadDataEncodingInvalid"
      BY <3>1 DEF ToArray, Failed, Result
    <3>4. QED
      BY <2>2, <2>4, <3>1, <3>2, <3>3
  <2>5. QED
    BY <2>3, <2>4
<1>4. ASSUME VariantInv
      PROVE  ReadersAgree
  <2>1. \A x \in Variants : Agrees(held[x])
    BY <1>4 DEF VariantInv, Sound
  <2>2. \A w : ArrayType(w) \in {"Matrix", "Array", "Scalar"}
    BY DEF ArrayType
  <2>3. QED
    BY <1>1, <1>2, <1>3, <2>1, <2>2 DEF ReadersAgree
<1>5. QED
  BY <1>4, VariantAlways, PTL

\* What toSimpleType may make of a scalar number asked for as one of type u.
LEMMA ScalarResults ==
    ASSUME NEW w, Sound(w), IsScalar(w), w.type \in NumericTypes,
           NEW u \in NumericTypes, NEW r \in ToSimple(w, u)
    PROVE  LET v == w.cells[1] IN
           \/ w.type = u /\ r = Result("Good", v)
           \/ /\ w.type # u /\ Fits(w.type, u, v)
              /\ \E n \in Conversions(w.type, u, v) : r = Result("Good", n)
           \/ w.type # u /\ ~Fits(w.type, u, v) /\ r = Failed("BadOutOfRange")
  BY DEF ToSimple, IsScalar

\* toSimpleType gives the integral part of a number wherever the integer type
\* has room for it, and BadOutOfRange wherever it has not, and of the numbers it has
\* room for it refuses none but reals that are the lowest integer.
THEOREM ConversionsAreSound == Spec => []ConversionSound
<1>1. ASSUME VariantInv
      PROVE  ConversionSound
  <2> SUFFICES ASSUME NEW x \in Variants, NEW u \in IntTypes,
                      IsScalar(held[x]), held[x].type \in NumericTypes,
                      NEW r \in ToSimple(held[x], u)
               PROVE  LET w == held[x] IN
                      IF w.cells[1] = NaN THEN r.status = "Good"
                      ELSE LET fit == {n \in Low[u] .. High[u] :
                                          CutOff(n, Halves(w.type, w.cells[1]))}
                           IN  \/ r.status = "Good" /\ r.value \in fit
                               \/ /\ r.status = "BadOutOfRange"
                                  /\ fit = {} \/ LowestIsLost(w.type, u, w.cells[1])
    BY DEF ConversionSound
  <2> DEFINE v == held[x].cells[1]
             t == held[x].type
             h == Halves(t, v)
             fit == {n \in Low[u] .. High[u] : CutOff(n, h)}
  <2>1. u \in NumericTypes /\ u \notin RealTypes /\ t \in NumericTypes
    BY LimitsAssumption DEF NumericTypes
  <2>2. Sound(held[x]) /\ held[x].data = "block"
    BY <1>1 DEF IsScalar, VariantInv
  <2>3. InType(t, v)
    BY <2>2, FirstElement
  <2>4. \/ t = u /\ r = Result("Good", v)
        \/ /\ t # u /\ Fits(t, u, v)
           /\ \E n \in Conversions(t, u, v) : r = Result("Good", n)
        \/ t # u /\ ~Fits(t, u, v) /\ r = Failed("BadOutOfRange")
    BY <2>1, <2>2, ScalarResults
  <2>5. \A y : /\ Result("Good", y).status = "Good" /\ Result("Good", y).value = y
               /\ Failed("BadOutOfRange").status = "BadOutOfRange"
    BY DEF Result, Failed
  <2>6. /\ Low[t] \in Int /\ High[t] \in Int /\ Low[u] \in Int /\ High[u] \in Nat \ {0}
        /\ Low[u] <= 0
    BY <2>1, TypeNames
  <2> HIDE DEF v, t
  <2>7. CASE v = NaN
    <3>1. Fits(t, u, v)
      BY <2>7 DEF Fits
    <3>2. r.status = "Good"
      BY <2>4, <2>5, <3>1
    <3>3. QED
      BY <2>7, <3>2 DEF v, t
  <2>8. CASE v # NaN /\ t \in IntTypes
    <3>1. v \in Int /\ v \in Low[t] .. High[t] /\ h = 2 * v
      BY <2>1, <2>3, <2>8, NumbersInType DEF Halves
    <3>2. fit = (Low[u] .. High[u]) \cap {v}
      BY <2>6, <3>1, DoubleCutOff
    <3>3. CASE t = u
      BY <2>4, <2>5, <2>8, <3>1, <3>2, <3>3 DEF v, t
    <3>4. CASE t # u
      <4>1. Fits(t, u, v) <=> v \in Low[u] .. High[u]
        BY <2>1, <2>8, LimitsAssumption DEF Fits
      <4>2. Conversions(t, u, v) = {v}
        BY <2>1, <2>8, <3>1, DoubleCutOff DEF Conversions
      <4>3. QED
        BY <2>4, <2>5, <2>8, <3>2, <3>4, <4>1, <4>2 DEF v, t
    <3>5. QED
      BY <3>3, <3>4
  <2>9. CASE v # NaN /\ t \in RealTypes /\ t \notin IntTypes
    <3>1. v \in Int /\ h = v /\ t # u
      BY <2>1, <2>3, <2>9, NumbersInType DEF Halves
    <3>2. Truncated(v) \in Int /\ fit = (Low[u] .. High[u]) \cap {Truncated(v)}
      BY <2>6, <3>1, Truncation
    <3>3. Fits(t, u, v) <=> Below(t, u) < v /\ v < Above(t, u)
      BY <2>9 DEF Fits
    <3>4. Conversions(t, u, v) = {Truncated(v)}
      BY <2>1, <2>9, <3>1 DEF Conversions
    <3>5. Below(t, u) \in {2 * Low[u] - 2, 2 * Low[u]} /\ Above(t, u) = 2 * High[u] + 2
      BY <2>9, RoundingAssumption
    <3>6. Below(t, u) \in Int /\ Above(t, u) \in Int
      BY <2>6, <3>5
    <3>7. CASE Below(t, u) < v /\ v < Above(t, u)
      <4>1. Truncated(v) \in Low[u] .. High[u]
        BY <2>6, <3>1, <3>5, <3>7 DEF Truncated
      <4>2. r.status = "Good" /\ r.value = Truncated(v)
        BY <2>4, <2>5, <3>1, <3>3, <3>4, <3>7
      <4>3. QED
        BY <2>9, <3>2, <4>1, <4>2 DEF v, t
    <3>8. CASE ~(Below(t, u) < v /\ v < Above(t, u))
      <4>1. r.status = "BadOutOfRange"
        BY <2>4, <2>5, <3>1, <3>3, <3>8
      <4>2. fit = {} \/ LowestIsLost(t, u, v)
        <5>1. CASE v <= 2 * Low[u] - 2 \/ v >= 2 * High[u] + 2
          <6>1. Truncated(v) \notin Low[u] .. High[u]
            BY <2>6, <3>1, <5>1 DEF Truncated
          <6>2. QED
            BY <3>2, <6>1
        <5>2. CASE Below(t, u) = 2 * Low[u] /\ v <= 2 * Low[u]
          BY <2>9, <5>2 DEF LowestIsLost
        <5>3. QED
          BY <2>6, <3>1, <3>5, <3>6, <3>8, <5>1, <5>2
      <4>3. QED
        BY <2>9, <4>1, <4>2 DEF v, t
    <3>9. QED
      BY <3>7, <3>8
  <2>10. QED
    BY <2>1, <2>7, <2>8, <2>9 DEF NumericTypes
<1>2. QED
  BY <1>1, VariantAlways, PTL

\* A call that throws leaves the variant empty, or with the new elements in a
\* plain array, or as it was.
THEOREM NoMixtureIsLeft == Spec => FailureLeavesNoMixture
<1> DEFINE Step == last'.status = "Threw" =>
                     held'[last'.var] \in {held[last'.var], Nothing,
                                           [last'.wanted EXCEPT !.dims = <<>>]}
<1>1. ASSUME VariantInv, [Next]_vars
      PROVE  [Step]_vars
  <2>1. CASE UNCHANGED vars
    BY <2>1
  <2>2. CASE Keeps
    BY <2>2 DEF Keeps
  <2>3. CASE Crashes /\ ~UNCHANGED vars
    <3>1. CASE last' = last
      <4>1. CASE last.status = "Threw"
        BY <2>3, <3>1, <4>1 DEF Crashes
      <4>2. QED
        BY <3>1, <4>1
    <3>2. CASE last' # last
      BY <2>3, <3>2 DEF Crashes
    <3>3. QED
      BY <3>1, <3>2
  <2>4. ASSUME NEW x \in Variants, NEW w, Done(x, w)
        PROVE  Step
    BY <2>4 DEF Done, Returns
  <2>5. ASSUME NEW x \in Variants, NEW w, NEW left, FailsCleanly(x, w, left)
        PROVE  Step
    BY <1>1, <2>5 DEF FailsCleanly, Throws, Returns, VariantInv
  <2>6. ASSUME NEW x \in Variants, NEW w, WritesNull(x, w)
        PROVE  Step
    BY <2>6 DEF WritesNull, Returns
  <2>7. ASSUME NEW x \in Variants, NEW t \in Types, NEW v, Reuses(x, t, v)
        PROVE  Step
    BY <2>7 DEF Reuses, Returns
  <2>8. QED
    BY <1>1, <2>1, <2>2, <2>3, <2>4, <2>5, <2>6, <2>7, NextForm DEF StepForms
<1>2. QED
  BY <1>1, VariantAlways, PTL DEF Spec, FailureLeavesNoMixture

\* A scalar that is written over is the scalar that was asked for.
LEMMA OverwrittenScalar ==
    ASSUME NEW w, Sound(w), IsScalar(w), w.dims = <<>>, NEW v
    PROVE  [w EXCEPT !.cells[1] = v] = Scalar(w.type, v)
<1>1. PICK S : w \in VariantsOver(S)
  BY DEF Sound, IsVariant
<1>2. /\ w.data = "block" /\ w.length = 0
      /\ w.cells \in Seq(S) /\ Len(w.cells) = 1
  BY <1>1 DEF Sound, Agrees, IsScalar, VariantsOver
<1> DEFINE c == [w.cells EXCEPT ![1] = v]
<1>3. c = <<v>>
  BY <1>2
<1>4. [w EXCEPT !.cells[1] = v] = [w EXCEPT !.cells = c]
  BY <1>1 DEF VariantsOver
<1> HIDE DEF c
<1>5. [w EXCEPT !.cells = c] =
      [type |-> w.type, data |-> "block", cells |-> c, length |-> 0, dims |-> <<>>]
  BY <1>1, <1>2 DEF VariantsOver
<1>6. Scalar(w.type, v) =
      [type |-> w.type, data |-> "block", cells |-> <<v>>, length |-> 0, dims |-> <<>>]
  <2> DEFINE k == <<v>>
  <2>1. Scalar(w.type, v) = [Nothing EXCEPT !.type = w.type, !.data = "block", !.cells = k]
    BY DEF Scalar
  <2> HIDE DEF k
  <2>2. Scalar(w.type, v) =
        [type |-> w.type, data |-> "block", cells |-> k, length |-> 0, dims |-> <<>>]
    BY <2>1 DEF Nothing
  <2>3. QED
    BY <2>2 DEF k
<1>7. QED
  BY <1>3, <1>4, <1>5, <1>6

\* The status tells what a call did: a bad one that nothing changed, a Good one that
\* the variant is what was asked for, but for an array of one dimension, of which a
\* scalar setter has overwritten the first element (reuseOrRealloc), and a crash met
\* the sentinel or had no memory for the elements of an array of strings.
THEOREM StatusIsTrue == Spec => StatusTellsEffect
<1> DEFINE x == last'.var
           Good == /\ \A y \in Variants \ {x} : held'[y] = held[y]
                   /\ \/ held'[x] = last'.wanted
                      \/ /\ ArrayType(held[x]) = "Array" /\ held[x].type = last'.wanted.type
                         /\ held'[x] = [held[x] EXCEPT !.cells[1] = last'.wanted.cells[1]]
           Crash == \/ held[x].data = "sentinel" /\ held' = held
                    \/ /\ StringsRanOut(last'.wanted)
                       /\ held' \in {held, [held EXCEPT ![x] = Nothing]}
           Step == CASE last'.status = "Threw" -> TRUE
                     [] last'.status = "Crash" -> Crash
                     [] last'.status = "Good" -> Good
                     [] OTHER -> held' = held
<1>1. ASSUME VariantInv, [Next]_vars
      PROVE  [Step]_<<held, last>>
  <2>1. CASE UNCHANGED vars
    BY <2>1 DEF vars
  <2>2. CASE Keeps \/ Crashes
    BY <2>2 DEF Keeps, Crashes
  <2>3. ASSUME NEW z \in Variants, NEW w, Done(z, w)
        PROVE  Step
    BY <1>1, <2>3 DEF Done, Returns, VariantInv
  <2>4. ASSUME NEW z \in Variants, NEW w, NEW left, FailsCleanly(z, w, left)
        PROVE  Step
    BY <2>4 DEF FailsCleanly, Throws, Returns
  <2>5. ASSUME NEW z \in Variants, NEW w, WritesNull(z, w)
        PROVE  Step
    <3>1. last'.status = "Crash" /\ x = z /\ last'.wanted = w /\ StringsRanOut(w)
      BY <2>5 DEF WritesNull, Returns
    <3>2. Released(held[z]) \in {held[z], Nothing}
      BY DEF Released
    <3>3. [held EXCEPT ![z] = held[z]] = held
      BY <1>1 DEF VariantInv
    <3>4. held' \in {held, [held EXCEPT ![z] = Nothing]}
      BY <2>5, <3>2, <3>3 DEF WritesNull
    <3>5. QED
      BY <3>1, <3>4
  <2>6. ASSUME NEW z \in Variants, NEW t \in Types, NEW v, Reuses(z, t, v)
        PROVE  Step
    <3>1. /\ last'.status = "Good" /\ last'.var = z /\ last'.wanted = Scalar(t, v)
          /\ held[z].data = "block" /\ held[z].type = t /\ held[z].dims = <<>>
      BY <2>6 DEF Reuses, Returns
    <3>2. /\ held'[z] = [held[z] EXCEPT !.cells[1] = v]
          /\ \A y \in Variants \ {z} : held'[y] = held[y]
      BY <1>1, <2>6 DEF Reuses, VariantInv
    <3>3. Scalar(t, v).type = t /\ Scalar(t, v).cells[1] = v
      BY DEF Scalar, Nothing
    <3>4. Sound(held[z])
      BY <1>1 DEF VariantInv
    <3>5. CASE IsScalar(held[z])
      <4>1. held'[z] = Scalar(t, v)
        BY <3>1, <3>2, <3>4, <3>5, OverwrittenScalar
      <4>2. QED
        BY <3>1, <3>2, <4>1
    <3>6. CASE ~IsScalar(held[z])
      <4>1. ArrayType(held[z]) = "Array"
        BY <3>1, <3>6, TypeNames DEF ArrayType, IsMatrix, IsArray, IsEmpty
      <4>2. QED
        BY <3>1, <3>2, <3>3, <4>1
    <3>7. QED
      BY <3>5, <3>6
  <2>7. QED
    BY <1>1, <2>1, <2>2, <2>3, <2>4, <2>5, <2>6, NextForm DEF StepForms
<1>2. QED
  BY <1>1, VariantAlways, PTL DEF Spec, StatusTellsEffect

\* Only two things make a call, a getter among them, read or write memory that is
\* not the variant's: an empty array, whose data pointer is UA_EMPTY_ARRAY_SENTINEL,
\* and an array of strings whose elements get no memory (set1DArrayComplexTypes).
THEOREM CrashesHaveTwoCauses == Spec => CrashesHaveCauses
<1> DEFINE Step == crashed' # crashed => \/ \E x \in Variants : held[x].data = "sentinel"
                                         \/ StringsRanOut(last'.wanted)
<1>1. ASSUME VariantInv, [Next]_vars
      PROVE  [Step]_vars
  <2>1. CASE UNCHANGED vars
    BY <2>1
  <2>2. CASE Keeps \/ Crashes
    BY <2>2 DEF Keeps, Crashes
  <2>3. ASSUME NEW x \in Variants, NEW w, WritesNull(x, w)
        PROVE  Step
    BY <2>3 DEF WritesNull, Returns
  <2>4. ASSUME NEW x \in Variants,
               \/ \E w : Done(x, w)
               \/ \E w, left : FailsCleanly(x, w, left)
               \/ \E t \in Types : \E v : Reuses(x, t, v)
        PROVE  Step
    BY <2>4 DEF Done, FailsCleanly, Throws, Reuses
  <2>5. QED
    BY <1>1, <2>1, <2>2, <2>3, <2>4, NextForm DEF StepForms
<1>2. QED
  BY <1>1, VariantAlways, PTL DEF Spec, CrashesHaveCauses

\* operator== is reflexive on copies, symmetric and transitive, for whatever variants
\* a sequence of calls has made.
THEOREM EqualityIsSound == Spec => []EqualIsEquivalence
<1>1. ASSUME NEW w, NEW o, NEW p
      PROVE  /\ w = o /\ ~ReachesPointer(w) => Equal(w, o)
             /\ Equal(w, o) => Equal(o, w)
             /\ Equal(w, o) /\ Equal(o, p) => Equal(w, p)
  <2>1. TypeOf(w) = TypeOf(o) /\ TypeOf(w) # "Null" => w.type = o.type
    BY DEF TypeOf
  <2>2. TypeOf(o) = TypeOf(p) /\ TypeOf(o) # "Null" => o.type = p.type
    BY DEF TypeOf
  <2>3. w = o /\ ~ReachesPointer(w) => Equal(w, o)
    BY DEF Equal, SameBytes
  <2>4. w.type = o.type /\ w.length = o.length /\ SameBytes(w, o) => SameBytes(o, w)
    BY DEF SameBytes, ReachesPointer
  <2>5. w.type = o.type /\ w.length = o.length /\ SameBytes(w, o) /\ SameBytes(o, p)
            => SameBytes(w, p)
    BY DEF SameBytes
  <2>6. Equal(w, o) => Equal(o, w)
    BY <2>1, <2>4 DEF Equal
  <2>7. Equal(w, o) /\ Equal(o, p) => Equal(w, p)
    BY <2>1, <2>2, <2>5 DEF Equal
  <2>8. QED
    BY <2>3, <2>6, <2>7
<1>2. EqualIsEquivalence
  BY <1>1 DEF EqualIsEquivalence
<1>3. QED
  BY <1>2, PTL

\* The verdict of the loop, where there is one, is the one the setters of matrices go
\* by, for arrays shorter than 2^31.
LoopAgreesWithSetters ==
    verdict # "none" /\ arrayLength < IntLimit =>
        \A t \in Types : \A s \in ArraysOf(t) :
            Len(s) = arrayLength => (verdict = "Good" <=> ValidMatrix(s, dimensions))

\* validateMatrixDimensions as the setters use it in one step (ValidMatrix) is what
\* its loop decides, turn by turn and in integers that have a width.
THEOREM LoopDecidesValidMatrix == LoopSpec => []LoopAgreesWithSetters
<1>1. LoopInv => LoopAgreesWithSetters
  <2> SUFFICES ASSUME LoopInv, verdict # "none", arrayLength < IntLimit,
                      NEW t \in Types, NEW s \in ArraysOf(t), Len(s) = arrayLength
               PROVE  verdict = "Good" <=> ValidMatrix(s, dimensions)
    BY DEF LoopAgreesWithSetters
  <2>1. dimensions \in Seq(Int32) /\ s \in Seq(Samples[t])
    BY ElementsInType DEF LoopInv, LoopTypeOK
  <2>2. s = <<>> <=> arrayLength = 0
    BY <2>1
  <2>3. DOMAIN dimensions = 1 .. Len(dimensions)
    BY <2>1
  <2>4. Fitting <=> ValidMatrix(s, dimensions)
    BY <2>2, <2>3 DEF Fitting, ValidMatrix
  <2>5. QED
    BY <2>4 DEF LoopInv, VerdictCorrect
<1>2. QED
  BY <1>1, LoopInvInit, LoopInvNext, PTL DEF LoopSpec
=============================================================================
