------------------------------ MODULE UaVariant ------------------------------
(***************************************************************************)
(* UaVariant (src/uavariant.cpp): a C++ face for the stack's UA_Variant.   *)
(* A variant is nothing, a scalar, a one-dimensional array or a matrix of  *)
(* a built-in type.  Setters reuse the stack's memory where they can,      *)
(* getters convert between numeric types, and everything else is read off  *)
(* the same four fields of UA_Variant in slightly different ways.          *)
(*                                                                         *)
(* Integers are unbounded here, each type having its limits Low and High.  *)
(* Reals are counted in halves, which is enough to tell truncation from    *)
(* rounding; a real type has some of them, Nearest says which.  An         *)
(* allocation inside a setter may fail: most of the code throws.           *)
(***************************************************************************)
EXTENDS Products, TLC

CONSTANTS
    Variants,   \* the UaVariant objects
    IntTypes,   \* the integer types and Boolean
    RealTypes,  \* Float and Double
    Low, High,  \* limits of each numeric type (of a real type: in halves)
    Nearest(_, _), \* Nearest(r, h): the value of real type r nearest to h halves
    NaN,        \* the real that is not a number
    Size,       \* bytes of an element of each type
    Samples,    \* for each type the values the application passes in
    MaxLength,  \* the longest array it passes in
    Shapes,     \* the dimensions it passes in, of matrices
    ReceivedShapes \* the dimensions of UA_Variants it did not make

NumericTypes == IntTypes \cup RealTypes
Types == NumericTypes \cup {"String", "ByteString"}

\* A real type has room for every integer type, as in C++.
ASSUME LimitsAssumption ==
    /\ IntTypes \cap RealTypes = {}
    /\ NumericTypes \cap {"Null", "String", "ByteString"} = {}
    /\ \A t \in NumericTypes : Low[t] \in Int /\ High[t] \in Nat \ {0} /\ Low[t] <= 0
    /\ \A r \in RealTypes, t \in IntTypes : Low[r] < 2 * Low[t] /\ 2 * High[t] < High[r]

\* boost::numeric_cast takes a real of type t for one of an integer type u when it
\* lies between lowest - 1.0 and highest + 1.0, computed in type t.
Below(t, u) == Nearest(t, 2 * Low[u] - 2)
Above(t, u) == Nearest(t, Nearest(t, 2 * High[u]) + 2)

\* The lower limit may round back to the lowest integer itself, as -2^63 - 1.0
\* does.  The upper is exact: highest + 1 is a power of two.
ASSUME RoundingAssumption ==
    /\ NaN \notin Int
    /\ \A r \in RealTypes : \A h \in Low[r] .. High[r] : Nearest(r, h) \in Low[r] .. High[r]
    /\ \A r \in RealTypes, u \in IntTypes :
          /\ Below(r, u) \in {2 * Low[u] - 2, 2 * Low[u]}
          /\ Above(r, u) = 2 * High[u] + 2

\* The values of a type: those of strings are opaque.
InType(t, v) ==
    t \in NumericTypes => (t \in RealTypes /\ v = NaN) \/ v \in Low[t] .. High[t]

VARIABLES
    held,    \* m_impl of each variant: the fields of UA_Variant
    last,    \* what the last call was asked to store, and what it returned
    crashed  \* memory was used that the variant does not own

vars == <<held, last, crashed>>

-----------------------------------------------------------------------------
(* The stack's representation.  The data pointer is null, the sentinel that *)
(* stands for an array without elements, or a block of memory.             *)

Nothing == [type |-> "Null", data |-> "null", cells |-> <<>>,
            length |-> 0, dims |-> <<>>]

Scalar(t, v) == [Nothing EXCEPT !.type = t, !.data = "block", !.cells = <<v>>]

ArrayOf(t, s) ==
    [Nothing EXCEPT !.type = t, !.cells = s, !.length = Len(s),
                    !.data = IF s = <<>> THEN "sentinel" ELSE "block"]

\* An array of unknown length (-1 on the wire) decodes to a null pointer.
NullArray(t) == [Nothing EXCEPT !.type = t]

MatrixOf(t, s, d) == [ArrayOf(t, s) EXCEPT !.dims = d]

\* The arguments have their types.
ASSUME ArgumentsAssumption ==
    /\ \A t \in NumericTypes : \A v \in Samples[t] : InType(t, v)
    /\ MaxLength \in Nat
    /\ Shapes \subseteq Seq(Int)
    /\ ReceivedShapes \subseteq Seq(Nat)

ArraysOf(t) == UNION {[1 .. n -> Samples[t]] : n \in 0 .. MaxLength}

\* validateMatrixDimensions; MatrixDimensions.tla has its arithmetic in full.
BugValidMatrix(s, d) == TRUE
ValidMatrix(s, d) ==
    IF d = <<>> THEN s = <<>>
    ELSE (\A i \in DOMAIN d : d[i] >= 1) /\ Product(d) = Len(s)

-----------------------------------------------------------------------------
(* Reading the shape.                                                      *)

IsScalar(w) == w.data = "block" /\ w.length = 0
IsMatrix(w) == w.data # "null" /\ ~IsScalar(w) /\ w.dims # <<>>
IsArray(w) == ~IsScalar(w) /\ ~IsMatrix(w)
IsEmpty(w) == w.type = "Null"

TypeOf(w) == IF w.data = "null" THEN "Null" ELSE w.type

ArrayType(w) ==
    IF IsMatrix(w) THEN "Matrix"
    ELSE IF IsArray(w) /\ ~IsEmpty(w) THEN "Array" ELSE "Scalar"

ArraySize(w) == IF IsArray(w) THEN w.length ELSE -1

ArrayDimensions(w) ==
    IF IsMatrix(w) THEN w.dims ELSE IF IsScalar(w) THEN <<>> ELSE <<w.length>>

BugNoOfMatrixElements(w) == IF IsMatrix(w) THEN w.length ELSE -1
NoOfMatrixElements(w) ==
    IF IsMatrix(w) /\ Product(w.dims) = w.length THEN w.length ELSE -1

DimensionSize(w) ==
    IF IsMatrix(w) THEN Len(w.dims)
    ELSE IF IsArray(w) /\ ~IsEmpty(w) THEN 1 ELSE -1

-----------------------------------------------------------------------------
(* Reading the contents.  A result has a status and, if Good, a value.     *)

Result(status, value) == [status |-> status, value |-> value]
Failed(status) == Result(status, <<>>)

ToArray(w, t) ==
    IF ~IsScalar(w) /\ w.type = t THEN Result("Good", w.cells)
    ELSE Failed("BadDataEncodingInvalid")

ToMatrix(w, t) ==
    IF ~IsMatrix(w) \/ w.type # t THEN Failed("BadTypeMismatch")
    ELSE IF Product(w.dims) # w.length THEN Failed("BadInvalidArgument")
    ELSE Result("Good", <<w.cells, w.dims>>)

\* boost::numeric_cast from t to u: what passes its range check, and what then
\* becomes of it.  NaN passes, as no comparison holds of it; as an integer it is
\* anything, as a Boolean true.
BugFits(t, u, v) ==
    CASE v = NaN -> TRUE
      [] v # NaN /\ t \in RealTypes /\ u \in IntTypes -> Below(t, u) < v /\ v <= Above(t, u)
      [] OTHER -> (t \in IntTypes /\ u \in RealTypes) \/ v \in Low[u] .. High[u]
Fits(t, u, v) ==
    CASE v = NaN -> TRUE
      [] v # NaN /\ t \in RealTypes /\ u \in IntTypes -> Below(t, u) < v /\ v < Above(t, u)
      [] OTHER -> (t \in IntTypes /\ u \in RealTypes) \/ v \in Low[u] .. High[u]

\* The value v of type t, in halves.
Halves(t, v) == IF t \in IntTypes THEN 2 * v ELSE v

Truncated(h) == IF h >= 0 THEN h \div 2 ELSE -((-h) \div 2)

Undefined(u) == IF u = "Boolean" THEN {1} ELSE Low[u] .. High[u]

Conversions(t, u, v) ==
    CASE v = NaN -> IF u \in RealTypes THEN {NaN} ELSE Undefined(u)
      [] v # NaN /\ u \in RealTypes -> {Nearest(u, Halves(t, v))}
      [] v # NaN /\ u \notin RealTypes -> {Truncated(Halves(t, v))}

\* toSimpleType reads the first element, whatever the shape.
ToSimple(w, t) ==
    IF w.data = "null" THEN {Failed("Bad")}
    ELSE IF w.type # t /\ ~({w.type, t} \subseteq NumericTypes) THEN {Failed("Bad")}
    ELSE IF w.data = "sentinel" THEN {Failed("Crash")}
    ELSE IF w.type = t THEN {Result("Good", w.cells[1])}
    ELSE IF Fits(w.type, t, w.cells[1])
         THEN {Result("Good", n) : n \in Conversions(w.type, t, w.cells[1])}
    ELSE {Failed("BadOutOfRange")}

\* toString prints the first element of a matrix, and there may be none.
TextCrashes(w) == IsMatrix(w) /\ w.data = "sentinel"

\* What it prints: equal integers read the same whatever their type.
ToText(w) ==
    IF IsEmpty(w) THEN <<>>
    ELSE IF IsArray(w) THEN <<"array">>
    ELSE IF w.type = "String" THEN w.cells[1]
    ELSE <<IF w.type \in IntTypes \ {"Boolean"} THEN "integer" ELSE w.type, w.cells[1]>>

\* The second half of a byte string is a pointer, which no two variants share.
ReachesPointer(w) == w.type = "ByteString" /\ 2 * w.length > Size["ByteString"]

\* operator==.  Outside strings it compares as many bytes as the array has
\* elements, none for a scalar.  An element compared in part counts as not
\* compared; of strings in an array or a matrix toString() decides.
SameBytes(w, o) ==
    /\ ~ReachesPointer(w)
    /\ \A i \in 1 .. w.length \div Size[w.type] : w.cells[i] = o.cells[i]

BugEqual(w, o) ==
    /\ TypeOf(w) = TypeOf(o) /\ TypeOf(w) # "Null" /\ w.length = o.length
    /\ w.dims = o.dims /\ ToText(w) = ToText(o)
Equal(w, o) ==
    /\ TypeOf(w) = TypeOf(o) /\ w.length = o.length /\ w.dims = o.dims
    /\ IF TypeOf(w) = "String" THEN ToText(w) = ToText(o)
       ELSE TypeOf(w) = "Null" \/ SameBytes(w, o)

-----------------------------------------------------------------------------
(* Setters.                                                                *)

Returns(x, status, wanted) ==
    last' = [var |-> x, status |-> status, wanted |-> wanted]

Done(x, w) ==
    held' = [held EXCEPT ![x] = w] /\ Returns(x, "Good", w) /\ UNCHANGED crashed

\* An allocation fails on the way to w, and the setter throws.
BugThrows(x, w, left) ==
    held' = [held EXCEPT ![x].type = w.type] /\ Returns(x, "Threw", w) /\ UNCHANGED crashed
Throws(x, w, left) ==
    held' = [held EXCEPT ![x] = left] /\ Returns(x, "Threw", w) /\ UNCHANGED crashed

\* Most setters have released the old contents by the time they allocate.
Replaces(x, w) == Done(x, w) \/ Throws(x, w, Nothing)

\* Those of strings release them only if there is data.
Released(w) == IF w.data = "null" THEN w ELSE Nothing
Rewrites(x, w) == Done(x, w) \/ Throws(x, w, Released(held[x]))

\* UA_copy onto an existing block, or onto the sentinel's address.
Overwrites(x, v, wanted) ==
    IF held[x].data = "sentinel"
    THEN crashed' = TRUE /\ Returns(x, "Crash", wanted) /\ UNCHANGED held
    ELSE /\ held' = [held EXCEPT ![x].cells[1] = v]
         /\ Returns(x, "Good", wanted)
         /\ UNCHANGED crashed

\* reuseOrRealloc
Reusable(w, t) == w.data # "null" /\ w.type = t /\ w.dims = <<>>
Assigns(x, t, v) ==
    IF Reusable(held[x], t) THEN Overwrites(x, v, Scalar(t, v))
    ELSE Replaces(x, Scalar(t, v))

SetScalar(x, t, v) == ~crashed /\ Assigns(x, t, v)

\* setString, setByteString
SetText(x, t, v) == ~crashed /\ Rewrites(x, Scalar(t, v))

\* Memory runs out on the way to the elements of the array or matrix w; one without
\* elements needs none.  An array of strings writes through null when there is none
\* for its elements, and throws when there is none for their texts.
ElementsFail(x, w) ==
    /\ w.cells # <<>>
    /\ \/ w.type \in NumericTypes /\ Throws(x, w, Nothing)
       \/ w.type \notin NumericTypes /\ Throws(x, w, Released(held[x]))
       \/ /\ w.type \notin NumericTypes
          /\ held' = [held EXCEPT ![x] = Released(@)]
          /\ Returns(x, "Crash", w)
          /\ crashed' = TRUE

SetArray(x, t, s) ==
    ~crashed /\ (Done(x, ArrayOf(t, s)) \/ ElementsFail(x, ArrayOf(t, s)))

Rejects(x, status) ==
    Returns(x, status, Nothing) /\ UNCHANGED <<held, crashed>>

\* set...Matrix: a bad shape changes nothing; memory may run out before the
\* array is stored, or between the array and its dimensions.
SetMatrix(x, t, s, d) ==
    /\ ~crashed
    /\ IF ~ValidMatrix(s, d) THEN Rejects(x, "BadInvalidArgument")
       ELSE \/ Done(x, MatrixOf(t, s, d))
            \/ ElementsFail(x, MatrixOf(t, s, d))
            \/ d # <<>> /\ Throws(x, MatrixOf(t, s, d), ArrayOf(t, s))

\* operator=, which leaves a variant alone that is assigned to itself.
Assign(x, y) == ~crashed /\ x # y /\ Replaces(x, held[y])

Clear(x) == ~crashed /\ Done(x, Nothing)

\* A UA_Variant from outside: the array may be null, and there may be dimensions
\* with anything, which nobody has compared with the length.
Receive(x, t) ==
    /\ ~crashed
    /\ \E d \in ReceivedShapes :
          \/ Replaces(x, [NullArray(t) EXCEPT !.dims = d])
          \/ \E v \in Samples[t] : Replaces(x, [Scalar(t, v) EXCEPT !.dims = d])
          \/ \E s \in ArraysOf(t) : Replaces(x, MatrixOf(t, s, d))

\* Memory that is not the variant's is read.
ReadsSentinel(x) ==
    crashed' = TRUE /\ Returns(x, "Crash", Nothing) /\ UNCHANGED held

\* changeType
BugChangeType(x, t, toArray) ==
    /\ ~crashed
    /\ held' = [held EXCEPT ![x] = Nothing]
    /\ \E r \in ToSimple(held[x], t) : Returns(x, r.status, Nothing)
    /\ UNCHANGED crashed
ChangeType(x, t, toArray) ==
    /\ ~crashed
    /\ CASE toArray -> Rejects(x, "BadNotSupported")
         [] ~toArray /\ TypeOf(held[x]) = t -> Returns(x, "Good", held[x]) /\ UNCHANGED <<held, crashed>>
         [] ~toArray /\ TypeOf(held[x]) # t /\ t \in NumericTypes ->
              \E r \in ToSimple(held[x], t) :
                  CASE r.status = "Good" -> Assigns(x, t, r.value)
                    [] r.status = "Crash" -> ReadsSentinel(x)
                    [] OTHER -> Rejects(x, r.status)
         [] ~toArray /\ TypeOf(held[x]) # t /\ t = "String" ->
              IF TextCrashes(held[x]) THEN ReadsSentinel(x)
              ELSE Rewrites(x, Scalar("String", ToText(held[x])))
         [] ~toArray /\ TypeOf(held[x]) # t /\ t = "ByteString" ->
              Rejects(x, "BadNotSupported")

\* toInt32 and its kin and toString: nothing changes, unless the sentinel is read.
Get(x, t) ==
    /\ ~crashed
    /\ \/ t \in NumericTypes /\ \E r \in ToSimple(held[x], t) : r.status = "Crash"
       \/ t = "String" /\ TextCrashes(held[x])
    /\ crashed' = TRUE
    /\ UNCHANGED <<held, last>>

Init ==
    /\ held = [x \in Variants |-> Nothing]
    /\ last = [var |-> CHOOSE x \in Variants : TRUE, status |-> "Good", wanted |-> Nothing]
    /\ crashed = FALSE

Next ==
    \E x \in Variants :
        \/ \E t \in Types :
            \/ \E v \in Samples[t] :
                IF t \in NumericTypes THEN SetScalar(x, t, v) ELSE SetText(x, t, v)
            \/ \E s \in ArraysOf(t) :
                \/ SetArray(x, t, s)
                \/ \E d \in Shapes : SetMatrix(x, t, s, d)
            \/ Receive(x, t)
            \/ \E toArray \in BOOLEAN : ChangeType(x, t, toArray)
            \/ Get(x, t)
        \/ \E y \in Variants : Assign(x, y)
        \/ Clear(x)

Spec == Init /\ [][Next]_vars

-----------------------------------------------------------------------------
(* Properties.                                                             *)

\* The four fields of UA_Variant agree with each other: the elements counted are
\* the elements there, of the variant's type, and the dimensions, unless they came
\* from outside, multiply to their number.  Without a type there is nothing else.
Agrees(w) ==
    /\ w.type \in Types \/ w = Nothing
    /\ w.data = "block" <=> w.cells # <<>>
    /\ Len(w.cells) = (IF IsScalar(w) THEN 1 ELSE w.length)
    /\ \A i \in DOMAIN w.cells : InType(w.type, w.cells[i])
    /\ w.dims \in ReceivedShapes \cup {<<>>}
       \/ (w.data = "block" /\ w.length > 0 /\ Product(w.dims) = w.length)

\* After every call, also one that threw half way, the fields of every variant
\* agree.
WellFormed == \A x \in Variants : Agrees(held[x])

\* The shape functions tell one story.  A variant with a type is one of scalar,
\* array and matrix, and the size functions and getters of the other two refuse it.
\* An array is read whole.  Of a matrix toMatrix and noOfMatrixElements give what
\* the dimensions multiply to or, if these came from outside and do not fit the
\* elements, both refuse (testToMatrixInconsistentDimensionsRejected).  A variant
\* without a type is a scalar to arrayType() and an array of none to isArray(),
\* arraySize() and arrayDimensions().
ReadersAgree ==
    \A x \in Variants : LET w == held[x] IN
        CASE ArrayType(w) = "Matrix" ->
                /\ DimensionSize(w) = Len(ArrayDimensions(w)) /\ ArraySize(w) = -1
                /\ IF Product(ArrayDimensions(w)) = Len(w.cells)
                   THEN /\ ToMatrix(w, w.type) = Result("Good", <<w.cells, ArrayDimensions(w)>>)
                        /\ NoOfMatrixElements(w) = Product(ArrayDimensions(w))
                   ELSE /\ ArrayDimensions(w) \in ReceivedShapes
                        /\ ToMatrix(w, w.type).status = "BadInvalidArgument"
                        /\ NoOfMatrixElements(w) = -1
          [] ArrayType(w) = "Array" ->
                /\ ToArray(w, w.type).status = "Good"
                /\ ArraySize(w) = Len(ToArray(w, w.type).value)
                /\ ArrayDimensions(w) = <<ArraySize(w)>> /\ DimensionSize(w) = 1
                /\ ToMatrix(w, w.type).status = "BadTypeMismatch"
                /\ NoOfMatrixElements(w) = -1
          [] ArrayType(w) = "Scalar" ->
                /\ IsArray(w) <=> IsEmpty(w)
                /\ ArraySize(w) = (IF IsEmpty(w) THEN 0 ELSE -1)
                /\ ArrayDimensions(w) = (IF IsEmpty(w) THEN <<0>> ELSE <<>>)
                /\ DimensionSize(w) = -1 /\ NoOfMatrixElements(w) = -1
                /\ IsEmpty(w) \/ ToArray(w, w.type).status = "BadDataEncodingInvalid"
                /\ ToMatrix(w, w.type).status = "BadTypeMismatch"

\* The integer n is what is left of h halves when the fraction is cut off.
CutOff(n, h) ==
    IF h >= 0 THEN 2 * n <= h /\ h < 2 * n + 2 ELSE 2 * n >= h /\ h > 2 * n - 2

\* Where lowest - 1.0 rounds back to the lowest integer of u, that integer is
\* refused as well.
LowestIsLost(t, u, v) ==
    t \in RealTypes /\ Below(t, u) = 2 * Low[u] /\ v <= 2 * Low[u]

\* Reading a scalar number as an integer gives its integral part when the type can
\* hold it and BadOutOfRange when it cannot, and never a wrapped number
\* (testConvertFromInt32 and the tests around it try a few of these).  A real that
\* is the lowest integer may be refused too.  Of NaN the code promises nothing but
\* the status Good.
ConversionSound ==
    \A x \in Variants, u \in IntTypes : LET w == held[x] IN
        IsScalar(w) /\ w.type \in NumericTypes =>
            \A r \in ToSimple(w, u) :
                IF w.cells[1] = NaN THEN r.status = "Good"
                ELSE LET fit == {n \in Low[u] .. High[u] :
                                    CutOff(n, Halves(w.type, w.cells[1]))}
                     IN  \/ r.status = "Good" /\ r.value \in fit
                         \/ /\ r.status = "BadOutOfRange"
                            /\ fit = {} \/ LowestIsLost(w.type, u, w.cells[1])

\* An array of strings ran out of memory.
StringsRanOut(wanted) == wanted.length > 0 /\ wanted.type \in Types \ NumericTypes

\* The status tells what a call did.  After a bad one every variant is as it was;
\* after a Good one the others are, and the variant is what was asked for, unless it
\* held a one-dimensional array of the type: of that the first element has changed.
\* A crash met the sentinel of an empty array and changed nothing, or the elements
\* of an array of strings got no memory, and the old contents may be gone; what a
\* call that threw leaves is FailureLeavesNoMixture's.
StatusTellsEffect ==
    [][LET x == last'.var IN
        CASE last'.status = "Threw" -> TRUE
          [] last'.status = "Crash" ->
                \/ held[x].data = "sentinel" /\ held' = held
                \/ /\ StringsRanOut(last'.wanted)
                   /\ held' \in {held, [held EXCEPT ![x] = Nothing]}
          [] last'.status = "Good" ->
                /\ \A y \in Variants \ {x} : held'[y] = held[y]
                /\ \/ held'[x] = last'.wanted
                   \/ /\ ArrayType(held[x]) = "Array" /\ held[x].type = last'.wanted.type
                      /\ held'[x] = [held[x] EXCEPT !.cells[1] = last'.wanted.cells[1]]
          [] OTHER -> held' = held]_<<held, last>>

\* The same of every crash, those in getters included, which return their status
\* to the caller only.
CrashesHaveCauses ==
    [][crashed' # crashed =>
        \/ \E x \in Variants : held[x].data = "sentinel"
        \/ StringsRanOut(last'.wanted)]_vars

\* A call that throws leaves the variant as it was, or empty, or, when memory ran out
\* between a matrix and its dimensions, with the new elements in a plain array:
\* never with a mixture of the old value and the new.
FailureLeavesNoMixture ==
    [][last'.status = "Threw" =>
        held'[last'.var] \in {held[last'.var], Nothing,
                              [last'.wanted EXCEPT !.dims = <<>>]}]_vars

\* "Will assign a supplied newValue to the variant's value": after a successful
\* setter the variant is what was asked for.
SetAssigns ==
    last.status = "Good" => held[last.var] = last.wanted

\* operator== is an equivalence.  A variant and its copy compare equal ("equivalent
\* object" in testOperatorIsEqual), but for an array with so many byte strings that
\* their pointers are compared; and equality is symmetric and transitive, although
\* each side decides by its own type how much of the other is read.  Matrices
\* without elements are left out, whose text cannot be read.
EqualIsEquivalence ==
    \A x, y, z \in Variants :
        LET w == held[x]
            o == held[y]
            p == held[z]
        IN  ~TextCrashes(w) /\ ~TextCrashes(o) /\ ~TextCrashes(p) =>
                /\ w = o /\ ~ReachesPointer(w) => Equal(w, o)
                /\ Equal(w, o) => Equal(o, w)
                /\ Equal(w, o) /\ Equal(o, p) => Equal(w, p)

=============================================================================
