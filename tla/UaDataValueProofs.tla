-------------------------- MODULE UaDataValueProofs --------------------------
(***************************************************************************)
(* Theorems about the calls of UaDataValue that hold m_lock, for any       *)
(* threads, heap blocks and contents.                                      *)
(***************************************************************************)
EXTENDS UaDataValue, TLAPS

-----------------------------------------------------------------------------
(* The scripts.                                                            *)

LEMMA Lengths ==
    ASSUME NEW k \in LockingCalls
    PROVE  Len(Script(k)) = CASE k = "operator=" -> 6
                              [] k = "setDataValue" -> 7
                              [] k = "setValue" -> 4
                              [] k = "setValueUpdating" -> 6
                              [] k = "clone" -> 5
                              [] OTHER -> 3
<1>1. CASE k = "operator=" BY <1>1 DEF Script, Body
<1>2. CASE k = "setDataValue" BY <1>2 DEF Script, Body
<1>3. CASE k = "setValue" BY <1>3 DEF Script, Body
<1>8. CASE k = "setValueUpdating" BY <1>8 DEF Script, Body
<1>4. CASE k = "clone" BY <1>4 DEF Script, Body
<1>5. CASE k = "setStatusCode" BY <1>5 DEF Script, Body
<1>6. CASE k = "setSourceTimestamp" BY <1>6 DEF Script, Body
<1>7. CASE k = "setServerTimestamp" BY <1>7 DEF Script, Body
<1>9. QED BY <1>1, <1>2, <1>3, <1>4, <1>5, <1>6, <1>7, <1>8 DEF LockingCalls

LEMMA LengthBounds ==
    ASSUME NEW k \in LockingCalls
    PROVE  Len(Script(k)) \in Nat /\ Len(Script(k)) >= 3
<1>1. CASE k = "operator=" BY <1>1 DEF Script, Body
<1>2. CASE k = "setDataValue" BY <1>2 DEF Script, Body
<1>3. CASE k = "setValue" BY <1>3 DEF Script, Body
<1>8. CASE k = "setValueUpdating" BY <1>8 DEF Script, Body
<1>4. CASE k = "clone" BY <1>4 DEF Script, Body
<1>5. CASE k = "setStatusCode" BY <1>5 DEF Script, Body
<1>6. CASE k = "setSourceTimestamp" BY <1>6 DEF Script, Body
<1>7. CASE k = "setServerTimestamp" BY <1>7 DEF Script, Body
<1>9. QED BY <1>1, <1>2, <1>3, <1>4, <1>5, <1>6, <1>7, <1>8 DEF LockingCalls

\* Which step of which call comes when.
LEMMA StepPlaces ==
    ASSUME NEW k \in LockingCalls, NEW i \in 1..Len(Script(k))
    PROVE  /\ Script(k)[i] = "lock" <=> i = 1
           /\ Script(k)[i] = "unlock" <=> i = Len(Script(k))
           /\ Script(k)[i] = "delete" <=> k = "operator=" /\ i = 2
           /\ Script(k)[i] = "new" <=> k = "operator=" /\ i = 3
           /\ Script(k)[i] = "copyFields" <=> k = "operator=" /\ i = 4
           /\ Script(k)[i] = "clear" <=> k \in {"setDataValue", "setValue", "setValueUpdating"} /\ i = 2
           /\ Script(k)[i] = "copyValue" <=>
                 \/ k = "operator=" /\ i = 5
                 \/ k \in {"setDataValue", "setValue", "setValueUpdating"} /\ i = 3
           /\ Script(k)[i] = "status" <=>
                 (k = "setDataValue" /\ i = 4) \/ (k = "setStatusCode" /\ i = 2)
           /\ Script(k)[i] = "source" <=>
                 \/ (k = "setDataValue" /\ i = 5) \/ (k = "setValueUpdating" /\ i = 4)
                 \/ k = "setSourceTimestamp" /\ i = 2
           /\ Script(k)[i] = "server" <=>
                 \/ (k = "setDataValue" /\ i = 6) \/ (k = "setValueUpdating" /\ i = 5)
                 \/ k = "setServerTimestamp" /\ i = 2
           /\ Script(k)[i] = "load" <=> k = "clone" /\ i = 2
           /\ Script(k)[i] = "readFields" <=> k = "clone" /\ i = 3
           /\ Script(k)[i] = "readValue" <=> k = "clone" /\ i = 4
<1>1. CASE k = "operator="
  <2>1. Script(k) = <<"lock", "delete", "new", "copyFields", "copyValue", "unlock">>
    BY <1>1 DEF Script, Body
  <2>2. Len(Script(k)) = 6
    BY <1>1, Lengths
  <2>3. i = 1 \/ i = 2 \/ i = 3 \/ i = 4 \/ i = 5 \/ i = 6
    BY <2>2
  <2>4. /\ Script(k)[1] = "lock" /\ Script(k)[2] = "delete"
      /\ Script(k)[3] = "new" /\ Script(k)[4] = "copyFields"
      /\ Script(k)[5] = "copyValue" /\ Script(k)[6] = "unlock"
    BY <2>1
  <2>5. QED
    BY <1>1, <2>2, <2>3, <2>4
<1>2. CASE k = "setDataValue"
  <2>1. Script(k) = <<"lock", "clear", "copyValue", "status", "source", "server", "unlock">>
    BY <1>2 DEF Script, Body
  <2>2. Len(Script(k)) = 7
    BY <1>2, Lengths
  <2>3. i = 1 \/ i = 2 \/ i = 3 \/ i = 4 \/ i = 5 \/ i = 6 \/ i = 7
    BY <2>2
  <2>4. /\ Script(k)[1] = "lock" /\ Script(k)[2] = "clear"
      /\ Script(k)[3] = "copyValue" /\ Script(k)[4] = "status"
      /\ Script(k)[5] = "source" /\ Script(k)[6] = "server"
      /\ Script(k)[7] = "unlock"
    BY <2>1
  <2>5. CASE i = 1 \/ i = 2 \/ i = 3
    BY <1>2, <2>2, <2>4, <2>5
  <2>6. CASE i = 4
    BY <1>2, <2>2, <2>4, <2>6
  <2>7. CASE i = 5
    BY <1>2, <2>2, <2>4, <2>7
  <2>8. CASE i = 6
    BY <1>2, <2>2, <2>4, <2>8
  <2>9. CASE i = 7
    BY <1>2, <2>2, <2>4, <2>9
  <2>10. QED
    BY <2>3, <2>5, <2>6, <2>7, <2>8, <2>9
<1>3. CASE k = "setValueUpdating"
  <2>1. Script(k) = <<"lock", "clear", "copyValue", "source", "server", "unlock">>
    BY <1>3 DEF Script, Body
  <2>2. Len(Script(k)) = 6
    BY <1>3, Lengths
  <2>3. i = 1 \/ i = 2 \/ i = 3 \/ i = 4 \/ i = 5 \/ i = 6
    BY <2>2
  <2>4. /\ Script(k)[1] = "lock" /\ Script(k)[2] = "clear"
      /\ Script(k)[3] = "copyValue" /\ Script(k)[4] = "source"
      /\ Script(k)[5] = "server" /\ Script(k)[6] = "unlock"
    BY <2>1
  <2>5. QED
    BY <1>3, <2>2, <2>3, <2>4
<1>9. CASE k = "setValue"
  <2>1. Script(k) = <<"lock", "clear", "copyValue", "unlock">>
    BY <1>9 DEF Script, Body
  <2>2. Len(Script(k)) = 4
    BY <1>9, Lengths
  <2>3. i = 1 \/ i = 2 \/ i = 3 \/ i = 4
    BY <2>2
  <2>4. /\ Script(k)[1] = "lock" /\ Script(k)[2] = "clear"
      /\ Script(k)[3] = "copyValue" /\ Script(k)[4] = "unlock"
    BY <2>1
  <2>5. QED
    BY <1>9, <2>2, <2>3, <2>4
<1>4. CASE k = "clone"
  <2>1. Script(k) = <<"lock", "load", "readFields", "readValue", "unlock">>
    BY <1>4 DEF Script, Body
  <2>2. Len(Script(k)) = 5
    BY <1>4, Lengths
  <2>3. i = 1 \/ i = 2 \/ i = 3 \/ i = 4 \/ i = 5
    BY <2>2
  <2>4. /\ Script(k)[1] = "lock" /\ Script(k)[2] = "load"
      /\ Script(k)[3] = "readFields" /\ Script(k)[4] = "readValue"
      /\ Script(k)[5] = "unlock"
    BY <2>1
  <2>5. QED
    BY <1>4, <2>2, <2>3, <2>4
<1>5. CASE k = "setStatusCode"
  <2>1. Script(k) = <<"lock", "status", "unlock">>
    BY <1>5 DEF Script, Body
  <2>2. Len(Script(k)) = 3
    BY <1>5, Lengths
  <2>3. i = 1 \/ i = 2 \/ i = 3
    BY <2>2
  <2>4. /\ Script(k)[1] = "lock" /\ Script(k)[2] = "status"
      /\ Script(k)[3] = "unlock"
    BY <2>1
  <2>5. QED
    BY <1>5, <2>2, <2>3, <2>4
<1>6. CASE k = "setSourceTimestamp"
  <2>1. Script(k) = <<"lock", "source", "unlock">>
    BY <1>6 DEF Script, Body
  <2>2. Len(Script(k)) = 3
    BY <1>6, Lengths
  <2>3. i = 1 \/ i = 2 \/ i = 3
    BY <2>2
  <2>4. /\ Script(k)[1] = "lock" /\ Script(k)[2] = "source"
      /\ Script(k)[3] = "unlock"
    BY <2>1
  <2>5. QED
    BY <1>6, <2>2, <2>3, <2>4
<1>7. CASE k = "setServerTimestamp"
  <2>1. Script(k) = <<"lock", "server", "unlock">>
    BY <1>7 DEF Script, Body
  <2>2. Len(Script(k)) = 3
    BY <1>7, Lengths
  <2>3. i = 1 \/ i = 2 \/ i = 3
    BY <2>2
  <2>4. /\ Script(k)[1] = "lock" /\ Script(k)[2] = "server"
      /\ Script(k)[3] = "unlock"
    BY <2>1
  <2>5. QED
    BY <1>7, <2>2, <2>3, <2>4
<1>10. QED
  BY <1>1, <1>2, <1>3, <1>4, <1>5, <1>6, <1>7, <1>9 DEF LockingCalls

\* What a call has done when it comes to its n-th step.
LEMMA BeforePlaces ==
    ASSUME NEW k \in LockingCalls, NEW n \in Nat \ {0}, n <= Len(Script(k)) + 1
    PROVE  /\ Before(k, n, "lock") <=> n > 1
           /\ Before(k, n, "unlock") <=> n > Len(Script(k))
           /\ Before(k, n, "delete") <=> k = "operator=" /\ n > 2
           /\ Before(k, n, "new") <=> k = "operator=" /\ n > 3
           /\ Before(k, n, "copyFields") <=> k = "operator=" /\ n > 4
           /\ Before(k, n, "clear") <=> k \in {"setDataValue", "setValue", "setValueUpdating"} /\ n > 2
           /\ Before(k, n, "copyValue") <=>
                 \/ k = "operator=" /\ n > 5
                 \/ k \in {"setDataValue", "setValue", "setValueUpdating"} /\ n > 3
           /\ Before(k, n, "status") <=>
                 (k = "setDataValue" /\ n > 4) \/ (k = "setStatusCode" /\ n > 2)
           /\ Before(k, n, "source") <=>
                 \/ (k = "setDataValue" /\ n > 5) \/ (k = "setValueUpdating" /\ n > 4)
                 \/ k = "setSourceTimestamp" /\ n > 2
           /\ Before(k, n, "server") <=>
                 \/ (k = "setDataValue" /\ n > 6) \/ (k = "setValueUpdating" /\ n > 5)
                 \/ k = "setServerTimestamp" /\ n > 2
           /\ Before(k, n, "load") <=> k = "clone" /\ n > 2
           /\ Before(k, n, "readFields") <=> k = "clone" /\ n > 3
           /\ Before(k, n, "readValue") <=> k = "clone" /\ n > 4
<1>1. /\ Len(Script(k)) \in 3..7
      /\ k = "operator=" => Len(Script(k)) = 6
      /\ k = "setDataValue" => Len(Script(k)) = 7
      /\ k = "setValue" => Len(Script(k)) = 4
      /\ k = "setValueUpdating" => Len(Script(k)) = 6
      /\ k = "clone" => Len(Script(k)) = 5
  BY Lengths
<1>2. \A i \in 1..(n - 1) : i \in 1..Len(Script(k))
  BY <1>1
<1>3. Before(k, n, "lock") <=> n > 1
  <2>1. \A i \in 1..Len(Script(k)) : Script(k)[i] = "lock" <=> i = 1
    BY StepPlaces
  <2>2. QED
    BY <1>1, <1>2, <2>1 DEF Before
<1>4. Before(k, n, "unlock") <=> n > Len(Script(k))
  <2>1. \A i \in 1..Len(Script(k)) : Script(k)[i] = "unlock" <=> i = Len(Script(k))
    BY StepPlaces
  <2>2. QED
    BY <1>1, <1>2, <2>1 DEF Before
<1>5. Before(k, n, "delete") <=> k = "operator=" /\ n > 2
  <2>1. \A i \in 1..Len(Script(k)) : Script(k)[i] = "delete" <=> k = "operator=" /\ i = 2
    BY StepPlaces
  <2>2. QED
    BY <1>1, <1>2, <2>1 DEF Before
<1>6. Before(k, n, "new") <=> k = "operator=" /\ n > 3
  <2>1. \A i \in 1..Len(Script(k)) : Script(k)[i] = "new" <=> k = "operator=" /\ i = 3
    BY StepPlaces
  <2>2. QED
    BY <1>1, <1>2, <2>1 DEF Before
<1>7. Before(k, n, "copyFields") <=> k = "operator=" /\ n > 4
  <2>1. \A i \in 1..Len(Script(k)) : Script(k)[i] = "copyFields" <=> k = "operator=" /\ i = 4
    BY StepPlaces
  <2>2. QED
    BY <1>1, <1>2, <2>1 DEF Before
<1>8. Before(k, n, "clear") <=> k \in {"setDataValue", "setValue", "setValueUpdating"} /\ n > 2
  <2>1. \A i \in 1..Len(Script(k)) : Script(k)[i] = "clear" <=> k \in {"setDataValue", "setValue", "setValueUpdating"} /\ i = 2
    BY StepPlaces
  <2>2. QED
    BY <1>1, <1>2, <2>1 DEF Before
<1>9. Before(k, n, "copyValue") <=>
        \/ k = "operator=" /\ n > 5
        \/ k \in {"setDataValue", "setValue", "setValueUpdating"} /\ n > 3
  <2>1. \A i \in 1..Len(Script(k)) : Script(k)[i] = "copyValue" <=>
          \/ k = "operator=" /\ i = 5
          \/ k \in {"setDataValue", "setValue", "setValueUpdating"} /\ i = 3
    BY StepPlaces
  <2>2. QED
    BY <1>1, <1>2, <2>1 DEF Before
<1>10. Before(k, n, "status") <=>
        (k = "setDataValue" /\ n > 4) \/ (k = "setStatusCode" /\ n > 2)
  <2>1. \A i \in 1..Len(Script(k)) : Script(k)[i] = "status" <=>
          (k = "setDataValue" /\ i = 4) \/ (k = "setStatusCode" /\ i = 2)
    BY StepPlaces
  <2>2. QED
    BY <1>1, <1>2, <2>1 DEF Before
<1>11. Before(k, n, "source") <=>
        \/ (k = "setDataValue" /\ n > 5) \/ (k = "setValueUpdating" /\ n > 4)
        \/ k = "setSourceTimestamp" /\ n > 2
  <2>1. \A i \in 1..Len(Script(k)) : Script(k)[i] = "source" <=>
          \/ (k = "setDataValue" /\ i = 5) \/ (k = "setValueUpdating" /\ i = 4)
          \/ k = "setSourceTimestamp" /\ i = 2
    BY StepPlaces
  <2>2. QED
    BY <1>1, <1>2, <2>1 DEF Before
<1>12. Before(k, n, "server") <=>
        \/ (k = "setDataValue" /\ n > 6) \/ (k = "setValueUpdating" /\ n > 5)
        \/ k = "setServerTimestamp" /\ n > 2
  <2>1. \A i \in 1..Len(Script(k)) : Script(k)[i] = "server" <=>
          \/ (k = "setDataValue" /\ i = 6) \/ (k = "setValueUpdating" /\ i = 5)
          \/ k = "setServerTimestamp" /\ i = 2
    BY StepPlaces
  <2>2. QED
    BY <1>1, <1>2, <2>1 DEF Before
<1>13. Before(k, n, "load") <=> k = "clone" /\ n > 2
  <2>1. \A i \in 1..Len(Script(k)) : Script(k)[i] = "load" <=> k = "clone" /\ i = 2
    BY StepPlaces
  <2>2. QED
    BY <1>1, <1>2, <2>1 DEF Before
<1>14. Before(k, n, "readFields") <=> k = "clone" /\ n > 3
  <2>1. \A i \in 1..Len(Script(k)) : Script(k)[i] = "readFields" <=> k = "clone" /\ i = 3
    BY StepPlaces
  <2>2. QED
    BY <1>1, <1>2, <2>1 DEF Before
<1>15. Before(k, n, "readValue") <=> k = "clone" /\ n > 4
  <2>1. \A i \in 1..Len(Script(k)) : Script(k)[i] = "readValue" <=> k = "clone" /\ i = 4
    BY StepPlaces
  <2>2. QED
    BY <1>1, <1>2, <2>1 DEF Before
<1>16. QED
  BY <1>3, <1>4, <1>5, <1>6, <1>7, <1>8, <1>9, <1>10, <1>11, <1>12, <1>13, <1>14, <1>15

-----------------------------------------------------------------------------
(* The invariant, when the threads make only calls that lock.              *)

\* A thread in a call is somewhere in the script of a call that locks.
LEMMA CallsAreScripts ==
    ASSUME Calls \subseteq LockingCalls, DataValueInv, NEW t \in Threads, Calling(t)
    PROVE  /\ call[t] \in RunningCalls
           /\ call[t].kind \in LockingCalls
           /\ call[t].at \in Nat \ {0}
           /\ call[t].at <= Len(Script(call[t].kind)) + 1
<1>1. call[t] \in RunningCalls
  BY DEF DataValueInv, TypeOK, Calling
<1>2. call[t].at <= Len(Script(call[t].kind)) + 1
  BY DEF DataValueInv, HolderIsInside
<1>3. QED
  BY <1>1, <1>2 DEF RunningCalls

\* Every step but the first is taken by the holder of m_lock.
LEMMA HolderSteps ==
    ASSUME Calls \subseteq LockingCalls, DataValueInv,
           NEW t \in Threads, NEW step, At(t, step), step # "lock"
    PROVE  /\ lock = t
           /\ call[t].at \in 2..Len(Script(call[t].kind))
           /\ call[t].at + 1 \in Nat \ {0}
           /\ step = "unlock" <=> call[t].at = Len(Script(call[t].kind))
<1> DEFINE k == call[t].kind
           n == call[t].at
<1>1. k \in LockingCalls /\ n \in Nat \ {0}
  BY CallsAreScripts DEF At
<1>2. Len(Script(k)) \in 3..7
  BY <1>1, Lengths
<1>3. n \in 1..Len(Script(k)) /\ Script(k)[n] = step
  BY <1>1, <1>2 DEF At
<1>4. /\ Script(k)[n] = "lock" <=> n = 1
      /\ Script(k)[n] = "unlock" <=> n = Len(Script(k))
  BY <1>1, <1>3, StepPlaces
<1>5. Before(k, n, "lock") /\ ~Before(k, n, "unlock")
  BY <1>1, <1>2, <1>3, <1>4, BeforePlaces
<1>6. lock = t
  BY <1>5 DEF At, DataValueInv, HolderIsInside, Past
<1>7. QED
  BY <1>2, <1>3, <1>4, <1>6

\* A step between the two leaves the holder between them.
LEMMA InsideKept ==
    ASSUME Calls \subseteq LockingCalls, DataValueInv,
           NEW t \in Threads, NEW step, At(t, step), step \notin {"lock", "unlock"},
           lock' = lock,
           call'[t].kind = call[t].kind, call'[t].at = call[t].at + 1,
           \A u \in Threads \ {t} : call'[u] = call[u]
    PROVE  HolderIsInside'
<1> DEFINE k == call[t].kind
           n == call[t].at
<1>1. /\ lock = t /\ n \in 2..Len(Script(k)) /\ n + 1 \in Nat \ {0}
      /\ n # Len(Script(k))
  BY HolderSteps
<1>2. k \in LockingCalls /\ Len(Script(k)) \in Nat
  BY CallsAreScripts, Lengths DEF At
<1>3. Calling(t)'
  BY <1>2 DEF Calling, NotCalling, LockingCalls
<1>4. Before(k, n + 1, "lock") /\ ~Before(k, n + 1, "unlock")
  BY <1>1, <1>2, BeforePlaces
<1>5. /\ call'[t].at <= Len(Script(call'[t].kind)) + 1
      /\ lock' = t <=> Calling(t)' /\ Past(t, "lock")' /\ ~Past(t, "unlock")'
  BY <1>1, <1>2, <1>3, <1>4 DEF Past
<1>6. ASSUME NEW u \in Threads \ {t}
      PROVE  /\ Calling(u)' => call'[u].at <= Len(Script(call'[u].kind)) + 1
             /\ lock' = u <=> Calling(u)' /\ Past(u, "lock")' /\ ~Past(u, "unlock")'
  BY DEF DataValueInv, HolderIsInside, Past, Calling
<1>7. QED
  BY <1>5, <1>6 DEF HolderIsInside

\* Such a step keeps the invariant if it keeps the types, touches a live block
\* and leaves the contents as Works says.
LEMMA WorkKept ==
    ASSUME Calls \subseteq LockingCalls, DataValueInv,
           NEW t \in Threads, NEW step, At(t, step), step \notin {"lock", "unlock"},
           lock' = lock,
           call'[t].kind = call[t].kind, call'[t].at = call[t].at + 1,
           \A u \in Threads \ {t} : call'[u] = call[u],
           TypeOK', misused' = FALSE, Works(t)'
    PROVE  DataValueInv'
<1>1. lock = t /\ t # NoThread
  BY HolderSteps, OutsideAssumption
<1>2. HolderIsInside'
  BY InsideKept
<1>3. LockProtects' /\ NoUseAfterDelete'
  BY <1>1 DEF LockProtects, NoUseAfterDelete
<1>4. HolderWorks'
  BY <1>1 DEF HolderWorks, Works
<1>5. QED
  BY <1>2, <1>3, <1>4 DEF DataValueInv

\* A step that only goes on.
LEMMA GoesOn ==
    ASSUME Calls \subseteq LockingCalls, DataValueInv,
           NEW t \in Threads, NEW step, At(t, step), Steps(t)
    PROVE  /\ call' \in [Threads -> {NotCalling} \cup RunningCalls]
           /\ call'[t] = [call[t] EXCEPT !.at = @ + 1]
           /\ call'[t].kind = call[t].kind /\ call'[t].arg = call[t].arg
           /\ call'[t].at = call[t].at + 1
           /\ call'[t].pointer = call[t].pointer /\ call'[t].got = call[t].got
           /\ \A u \in Threads \ {t} : call'[u] = call[u]
<1>1. call[t] \in RunningCalls
  BY CallsAreScripts DEF At
<1>2. [call[t] EXCEPT !.at = @ + 1] \in RunningCalls
  BY <1>1 DEF RunningCalls
<1>3. call \in [Threads -> {NotCalling} \cup RunningCalls]
  BY DEF DataValueInv, TypeOK
<1>4. call'[t] = [call[t] EXCEPT !.at = @ + 1]
  BY <1>3 DEF Steps
<1>5. QED
  BY <1>1, <1>2, <1>3, <1>4 DEF Steps, RunningCalls

\* A write through m_impl finds a live block.
LEMMA WriteKeeps ==
    ASSUME Calls \subseteq LockingCalls, DataValueInv,
           NEW t \in Threads, NEW step, At(t, step),
           step \in {"clear", "copyFields", "copyValue", "status", "source", "server"},
           NEW fields \in Fields, Write(t, fields),
           lock = t /\ impl \in alive => fields = InProgress(t)'
    PROVE  DataValueInv'
<1> DEFINE k == call[t].kind
           n == call[t].at
<1>1. /\ lock = t /\ n \in 2..Len(Script(k)) /\ n + 1 \in Nat \ {0}
      /\ k \in LockingCalls /\ Len(Script(k)) \in Nat
  BY HolderSteps, CallsAreScripts, Lengths DEF At
<1>2. Script(k)[n] = step
  BY DEF At
<1>3. /\ Before(k, n, "delete") => Before(k, n, "new")
      /\ Before(k, n + 1, "delete") => Before(k, n + 1, "new")
      /\ ~Before(k, n + 1, "load") /\ ~Before(k, n + 1, "readFields")
  BY <1>1, <1>2, StepPlaces, BeforePlaces
<1>4. Works(t)
  BY <1>1 DEF DataValueInv, HolderWorks
<1>5. alive = {impl} /\ impl \in alive
  BY <1>3, <1>4 DEF Works, Past
<1>6. /\ impl' = impl /\ alive' = alive /\ lock' = lock /\ committed' = committed
      /\ content' = [content EXCEPT ![impl] = fields]
      /\ Steps(t)
  BY <1>5 DEF Write
<1>7. /\ ~misused /\ misused' = (misused \/ impl \notin alive)
      /\ crashed' = crashed
  BY DEF DataValueInv, NoUseAfterDelete, Write
<1>8. TypeOK'
  BY <1>5, <1>6, <1>7, GoesOn DEF DataValueInv, TypeOK
<1>9. content'[impl'] = InProgress(t)'
  BY <1>1, <1>5, <1>6 DEF DataValueInv, TypeOK
<1>10. Works(t)'
  BY <1>3, <1>5, <1>6, <1>9, GoesOn DEF Works, Past
<1>11. QED
  BY <1>5, <1>6, <1>7, <1>8, <1>10, GoesOn, WorkKept

\* The contents a write finds.
LEMMA WorkFound ==
    ASSUME Calls \subseteq LockingCalls, DataValueInv,
           NEW t \in Threads, NEW step, At(t, step),
           step \in {"clear", "copyFields", "copyValue", "status", "source", "server"}
    PROVE  /\ lock = t /\ Current = InProgress(t) /\ Current \in Fields
           /\ call[t].arg \in Contents /\ committed \in Contents
<1> DEFINE k == call[t].kind
           n == call[t].at
<1>1. /\ lock = t /\ n \in 2..Len(Script(k)) /\ n + 1 \in Nat \ {0}
      /\ k \in LockingCalls /\ Len(Script(k)) \in Nat
  BY HolderSteps, CallsAreScripts, Lengths DEF At
<1>2. Script(k)[n] = step
  BY DEF At
<1>3. Before(k, n, "delete") => Before(k, n, "new")
  BY <1>1, <1>2, StepPlaces, BeforePlaces
<1>4. alive = {impl} /\ content[impl] = InProgress(t)
  BY <1>1, <1>3 DEF DataValueInv, HolderWorks, Works, Past
<1>5. call[t].arg \in Contents
  BY CallsAreScripts DEF At, RunningCalls
<1>6. QED
  BY <1>1, <1>4, <1>5 DEF Current, DataValueInv, TypeOK

LEMMA SetFieldsKeeps ==
    ASSUME Calls \subseteq LockingCalls, DataValueInv, NEW t \in Threads, SetFields(t)
    PROVE  DataValueInv'
<1> DEFINE k == call[t].kind
           n == call[t].at
           arg == call[t].arg
<1>1. CASE At(t, "clear") /\ Write(t, [Current EXCEPT !.value = Blank])
  <2>1. /\ call'[t].kind = k /\ call'[t].at = n + 1 /\ call'[t].arg = arg
        /\ committed' = committed
    BY <1>1, GoesOn DEF Write
  <2>2. Script(k)[n] = "clear"
    BY <1>1 DEF At
  <2>3. /\ k \in LockingCalls /\ n \in 2..Len(Script(k)) /\ n + 1 \in Nat \ {0}
        /\ Len(Script(k)) \in Nat
    BY <1>1, HolderSteps, CallsAreScripts, Lengths DEF At
  <2>4. /\ Before(k, n + 1, "clear") /\ ~Before(k, n, "copyValue")
        /\ \A s \in {"new", "copyFields", "clear", "copyValue", "status", "source", "server"} \ {"clear"} :
              Before(k, n + 1, s) <=> Before(k, n, s)
    BY <2>2, <2>3, StepPlaces, BeforePlaces
  <2>5. [Current EXCEPT !.value = Blank] = InProgress(t)'
    BY <1>1, <2>1, <2>4, WorkFound DEF InProgress, Past, Uniform
  <2>6. [Current EXCEPT !.value = Blank] \in Fields
    BY <1>1, WorkFound DEF Contents, Fields, MarksOrBlank
  <2>7. QED
    BY <1>1, <2>5, <2>6, WriteKeeps
<1>2. CASE At(t, "copyFields") /\ Write(t, [arg EXCEPT !.value = Blank])
  <2>1. /\ call'[t].kind = k /\ call'[t].at = n + 1 /\ call'[t].arg = arg
        /\ committed' = committed
    BY <1>2, GoesOn DEF Write
  <2>2. Script(k)[n] = "copyFields"
    BY <1>2 DEF At
  <2>3. /\ k \in LockingCalls /\ n \in 2..Len(Script(k)) /\ n + 1 \in Nat \ {0}
        /\ Len(Script(k)) \in Nat
    BY <1>2, HolderSteps, CallsAreScripts, Lengths DEF At
  <2>4. /\ Before(k, n + 1, "copyFields") /\ Before(k, n + 1, "new")
        /\ ~Before(k, n + 1, "copyValue") /\ ~Before(k, n + 1, "clear")
    BY <2>2, <2>3, StepPlaces, BeforePlaces
  <2>5. [arg EXCEPT !.value = Blank] = InProgress(t)'
    BY <1>2, <2>1, <2>4, WorkFound DEF InProgress, Past, Uniform, Contents
  <2>6. [arg EXCEPT !.value = Blank] \in Fields
    BY <1>2, WorkFound DEF Contents, Fields, MarksOrBlank
  <2>7. QED
    BY <1>2, <2>5, <2>6, WriteKeeps
<1>3. CASE At(t, "copyValue") /\ Write(t, [Current EXCEPT !.value = arg.value])
  <2>1. /\ call'[t].kind = k /\ call'[t].at = n + 1 /\ call'[t].arg = arg
        /\ committed' = committed
    BY <1>3, GoesOn DEF Write
  <2>2. Script(k)[n] = "copyValue"
    BY <1>3 DEF At
  <2>3. /\ k \in LockingCalls /\ n \in 2..Len(Script(k)) /\ n + 1 \in Nat \ {0}
        /\ Len(Script(k)) \in Nat
    BY <1>3, HolderSteps, CallsAreScripts, Lengths DEF At
  <2>4. /\ Before(k, n + 1, "copyValue")
        /\ \A s \in {"new", "copyFields", "clear", "copyValue", "status", "source", "server"} \ {"copyValue"} :
              Before(k, n + 1, s) <=> Before(k, n, s)
    BY <2>2, <2>3, StepPlaces, BeforePlaces
  <2>5. [Current EXCEPT !.value = arg.value] = InProgress(t)'
    BY <1>3, <2>1, <2>4, WorkFound DEF InProgress, Past, Uniform
  <2>6. [Current EXCEPT !.value = arg.value] \in Fields
    BY <1>3, WorkFound DEF Contents, Fields, MarksOrBlank
  <2>7. QED
    BY <1>3, <2>5, <2>6, WriteKeeps
<1>4. CASE At(t, "status") /\ Write(t, [Current EXCEPT !.status = arg.status])
  <2>1. /\ call'[t].kind = k /\ call'[t].at = n + 1 /\ call'[t].arg = arg
        /\ committed' = committed
    BY <1>4, GoesOn DEF Write
  <2>2. Script(k)[n] = "status"
    BY <1>4 DEF At
  <2>3. /\ k \in LockingCalls /\ n \in 2..Len(Script(k)) /\ n + 1 \in Nat \ {0}
        /\ Len(Script(k)) \in Nat
    BY <1>4, HolderSteps, CallsAreScripts, Lengths DEF At
  <2>4. /\ Before(k, n + 1, "status")
        /\ \A s \in {"new", "copyFields", "clear", "copyValue", "status", "source", "server"} \ {"status"} :
              Before(k, n + 1, s) <=> Before(k, n, s)
    BY <2>2, <2>3, StepPlaces, BeforePlaces
  <2>5. [Current EXCEPT !.status = arg.status] = InProgress(t)'
    BY <1>4, <2>1, <2>4, WorkFound DEF InProgress, Past, Uniform
  <2>6. [Current EXCEPT !.status = arg.status] \in Fields
    BY <1>4, WorkFound DEF Contents, Fields, MarksOrBlank
  <2>7. QED
    BY <1>4, <2>5, <2>6, WriteKeeps
<1>5. CASE At(t, "source") /\ Write(t, [Current EXCEPT !.source = arg.source])
  <2>1. /\ call'[t].kind = k /\ call'[t].at = n + 1 /\ call'[t].arg = arg
        /\ committed' = committed
    BY <1>5, GoesOn DEF Write
  <2>2. Script(k)[n] = "source"
    BY <1>5 DEF At
  <2>3. /\ k \in LockingCalls /\ n \in 2..Len(Script(k)) /\ n + 1 \in Nat \ {0}
        /\ Len(Script(k)) \in Nat
    BY <1>5, HolderSteps, CallsAreScripts, Lengths DEF At
  <2>4. /\ Before(k, n + 1, "source")
        /\ \A s \in {"new", "copyFields", "clear", "copyValue", "status", "source", "server"} \ {"source"} :
              Before(k, n + 1, s) <=> Before(k, n, s)
    BY <2>2, <2>3, StepPlaces, BeforePlaces
  <2>5. [Current EXCEPT !.source = arg.source] = InProgress(t)'
    BY <1>5, <2>1, <2>4, WorkFound DEF InProgress, Past, Uniform
  <2>6. [Current EXCEPT !.source = arg.source] \in Fields
    BY <1>5, WorkFound DEF Contents, Fields, MarksOrBlank
  <2>7. QED
    BY <1>5, <2>5, <2>6, WriteKeeps
<1>6. CASE At(t, "server") /\ Write(t, [Current EXCEPT !.server = arg.server])
  <2>1. /\ call'[t].kind = k /\ call'[t].at = n + 1 /\ call'[t].arg = arg
        /\ committed' = committed
    BY <1>6, GoesOn DEF Write
  <2>2. Script(k)[n] = "server"
    BY <1>6 DEF At
  <2>3. /\ k \in LockingCalls /\ n \in 2..Len(Script(k)) /\ n + 1 \in Nat \ {0}
        /\ Len(Script(k)) \in Nat
    BY <1>6, HolderSteps, CallsAreScripts, Lengths DEF At
  <2>4. /\ Before(k, n + 1, "server")
        /\ \A s \in {"new", "copyFields", "clear", "copyValue", "status", "source", "server"} \ {"server"} :
              Before(k, n + 1, s) <=> Before(k, n, s)
    BY <2>2, <2>3, StepPlaces, BeforePlaces
  <2>5. [Current EXCEPT !.server = arg.server] = InProgress(t)'
    BY <1>6, <2>1, <2>4, WorkFound DEF InProgress, Past, Uniform
  <2>6. [Current EXCEPT !.server = arg.server] \in Fields
    BY <1>6, WorkFound DEF Contents, Fields, MarksOrBlank
  <2>7. QED
    BY <1>6, <2>5, <2>6, WriteKeeps
<1>7. QED
  BY <1>1, <1>2, <1>3, <1>4, <1>5, <1>6 DEF SetFields

\* The deletion and the allocation of operator=.
LEMMA DeleteKeeps ==
    ASSUME Calls \subseteq LockingCalls, DataValueInv, NEW t \in Threads, Delete(t)
    PROVE  DataValueInv'
<1> DEFINE k == call[t].kind
           n == call[t].at
<1>1. At(t, "delete") /\ Steps(t)
  BY DEF Delete
<1>2. /\ lock = t /\ n \in 2..Len(Script(k)) /\ n + 1 \in Nat \ {0}
      /\ k \in LockingCalls /\ Len(Script(k)) \in Nat /\ Script(k)[n] = "delete"
  BY <1>1, HolderSteps, CallsAreScripts, Lengths DEF At
<1>3. /\ ~Before(k, n, "delete")
      /\ Before(k, n + 1, "delete") /\ ~Before(k, n + 1, "new")
      /\ ~Before(k, n + 1, "load") /\ ~Before(k, n + 1, "readFields")
  BY <1>2, StepPlaces, BeforePlaces
<1>4. alive = {impl}
  BY <1>2, <1>3 DEF DataValueInv, HolderWorks, Works, Past
<1>5. impl' = NoBlock /\ alive' = {} /\ lock' = lock /\ misused' = misused
  BY <1>4 DEF Delete
<1>6. content' \in [Blocks -> Fields]
  BY DEF Delete, DataValueInv, TypeOK, Uniform, Fields, MarksOrBlank
<1>7. TypeOK' /\ misused' = FALSE
  BY <1>1, <1>5, <1>6, GoesOn DEF Delete, DataValueInv, TypeOK, NoUseAfterDelete
<1>8. Works(t)'
  BY <1>1, <1>3, <1>5, GoesOn DEF Works, Past
<1>9. QED
  BY <1>1, <1>5, <1>7, <1>8, GoesOn, WorkKept

LEMMA NewKeeps ==
    ASSUME Calls \subseteq LockingCalls, DataValueInv, NEW t \in Threads, New(t)
    PROVE  DataValueInv'
<1> DEFINE k == call[t].kind
           n == call[t].at
<1>1. At(t, "new") /\ Steps(t)
  BY DEF New
<1>2. /\ lock = t /\ n \in 2..Len(Script(k)) /\ n + 1 \in Nat \ {0}
      /\ k \in LockingCalls /\ Len(Script(k)) \in Nat /\ Script(k)[n] = "new"
  BY <1>1, HolderSteps, CallsAreScripts, Lengths DEF At
<1>3. /\ Before(k, n, "delete") /\ ~Before(k, n, "new") /\ Before(k, n + 1, "new")
      /\ ~Before(k, n + 1, "copyFields") /\ ~Before(k, n + 1, "copyValue")
      /\ ~Before(k, n + 1, "clear") /\ ~Before(k, n + 1, "status")
      /\ ~Before(k, n + 1, "source") /\ ~Before(k, n + 1, "server")
      /\ ~Before(k, n + 1, "load") /\ ~Before(k, n + 1, "readFields")
  BY <1>2, StepPlaces, BeforePlaces
<1>4. alive = {}
  BY <1>2, <1>3 DEF DataValueInv, HolderWorks, Works, Past
<1>5. PICK b \in Blocks : /\ impl' = b /\ alive' = {b}
                          /\ content' = [content EXCEPT ![b] = Uniform(Blank)]
  BY <1>4 DEF New
<1>6. UNCHANGED <<lock, misused, crashed, committed>>
  BY DEF New
<1>7. content' \in [Blocks -> Fields] /\ content'[impl'] = Uniform(Blank)
  BY <1>5 DEF DataValueInv, TypeOK, Uniform, Fields, MarksOrBlank
<1>8. TypeOK' /\ misused' = FALSE
  BY <1>1, <1>5, <1>6, <1>7, GoesOn DEF DataValueInv, TypeOK, NoUseAfterDelete
<1>9. InProgress(t)' = Uniform(Blank)
  BY <1>1, <1>3, GoesOn DEF InProgress, Past, Uniform
<1>10. Works(t)'
  BY <1>1, <1>3, <1>5, <1>7, <1>9, GoesOn DEF Works, Past
<1>11. QED
  BY <1>1, <1>6, <1>8, <1>10, GoesOn, WorkKept

\* A clone reads the block m_impl points to, which nobody deletes meanwhile.
LEMMA LoadKeeps ==
    ASSUME Calls \subseteq LockingCalls, DataValueInv, NEW t \in Threads, Load(t)
    PROVE  DataValueInv'
<1> DEFINE k == call[t].kind
           n == call[t].at
<1>1. At(t, "load") /\ call' = [call EXCEPT ![t].pointer = impl, ![t].at = @ + 1]
  BY DEF Load
<1>2. /\ lock = t /\ n \in 2..Len(Script(k)) /\ n + 1 \in Nat \ {0}
      /\ k \in LockingCalls /\ Len(Script(k)) \in Nat /\ Script(k)[n] = "load"
  BY <1>1, HolderSteps, CallsAreScripts, Lengths DEF At
<1>3. /\ ~Before(k, n, "delete") /\ ~Before(k, n + 1, "delete")
      /\ ~Before(k, n + 1, "readFields")
      /\ \A s \in {"new", "copyFields", "clear", "copyValue", "status", "source", "server"} :
            Before(k, n + 1, s) <=> Before(k, n, s)
  BY <1>2, StepPlaces, BeforePlaces
<1>4. /\ call \in [Threads -> {NotCalling} \cup RunningCalls] /\ call[t] \in RunningCalls
      /\ impl \in Blocks \cup {NoBlock}
  BY <1>1, CallsAreScripts DEF DataValueInv, TypeOK, At
<1>5. call'[t] = [call[t] EXCEPT !.pointer = impl, !.at = @ + 1]
  BY <1>1, <1>4
<1>6. /\ call'[t] \in RunningCalls
      /\ call'[t].kind = k /\ call'[t].at = n + 1 /\ call'[t].arg = call[t].arg
      /\ call'[t].pointer = impl
  <2>1. [call[t] EXCEPT !.pointer = impl, !.at = @ + 1] \in RunningCalls
    BY <1>2, <1>4 DEF RunningCalls
  <2>2. QED
    BY <1>4, <1>5, <2>1 DEF RunningCalls
<1>7. /\ call' \in [Threads -> {NotCalling} \cup RunningCalls]
      /\ \A u \in Threads \ {t} : call'[u] = call[u]
  BY <1>1, <1>4, <1>6
<1>8. UNCHANGED <<lock, impl, alive, content, committed, misused, crashed>>
  BY DEF Load
<1>9. TypeOK' /\ misused' = FALSE
  BY <1>7, <1>8 DEF DataValueInv, TypeOK, NoUseAfterDelete
<1>10. alive = {impl} /\ content[impl] = InProgress(t)
  BY <1>2, <1>3 DEF DataValueInv, HolderWorks, Works, Past
<1>11. InProgress(t)' = InProgress(t)
  BY <1>3, <1>6, <1>8 DEF InProgress, Past
<1>12. Works(t)'
  BY <1>3, <1>6, <1>8, <1>10, <1>11 DEF Works, Past
<1>13. QED
  BY <1>1, <1>6, <1>7, <1>8, <1>9, <1>12, WorkKept

LEMMA ReadKeeps ==
    ASSUME Calls \subseteq LockingCalls, DataValueInv, NEW t \in Threads, Read(t)
    PROVE  DataValueInv'
<1> DEFINE k == call[t].kind
           n == call[t].at
           p == call[t].pointer
           seen == IF p \in Blocks THEN content[p] ELSE Uniform(Blank)
<1>1. PICK step \in {"readFields", "readValue"} :
          /\ At(t, step)
          /\ step = "readFields" =>
                call' = [call EXCEPT ![t].got = [seen EXCEPT !.value = Blank], ![t].at = @ + 1]
          /\ step = "readValue" =>
                call' = [call EXCEPT ![t].got.value = seen.value, ![t].at = @ + 1]
  BY DEF Read
<1>2. /\ lock = t /\ n \in 2..Len(Script(k)) /\ n + 1 \in Nat \ {0}
      /\ k \in LockingCalls /\ Len(Script(k)) \in Nat /\ Script(k)[n] = step
  BY <1>1, HolderSteps, CallsAreScripts, Lengths DEF At
<1>3. /\ ~Before(k, n, "delete") /\ ~Before(k, n + 1, "delete")
      /\ Before(k, n, "load") /\ Before(k, n + 1, "readFields")
      /\ step = "readFields" => ~Before(k, n + 1, "readValue")
      /\ step = "readValue" => /\ Before(k, n, "readFields") /\ ~Before(k, n, "readValue")
                               /\ Before(k, n + 1, "readValue")
      /\ \A s \in {"new", "copyFields", "clear", "copyValue", "status", "source", "server"} :
            ~Before(k, n + 1, s) /\ ~Before(k, n, s)
  BY <1>2, StepPlaces, BeforePlaces
<1>4. /\ call \in [Threads -> {NotCalling} \cup RunningCalls] /\ call[t] \in RunningCalls
      /\ committed \in Contents
  BY <1>1, CallsAreScripts DEF DataValueInv, TypeOK, At
<1>5. InProgress(t) = committed
  BY <1>3, <1>4 DEF InProgress, Past, Contents
<1>6. /\ alive = {impl} /\ content[impl] = committed /\ p = impl
      /\ step = "readValue" => call[t].got = [committed EXCEPT !.value = Blank]
  BY <1>2, <1>3, <1>5 DEF DataValueInv, HolderWorks, Works, Past
<1>7. p \in alive /\ seen = committed
  BY <1>6 DEF DataValueInv, TypeOK
<1> DEFINE now == IF step = "readValue" THEN committed ELSE [committed EXCEPT !.value = Blank]
<1>8. call'[t] = [call[t] EXCEPT !.got = now, !.at = @ + 1]
  <2>1. CASE step = "readFields"
    BY <1>1, <1>4, <1>7, <2>1
  <2>2. CASE step = "readValue"
    <3>1. call'[t] = [call[t] EXCEPT !.got.value = committed.value, !.at = @ + 1]
      BY <1>1, <1>4, <1>7, <2>2
    <3>2. [call[t].got EXCEPT !.value = committed.value] = committed
      BY <1>4, <1>6, <2>2 DEF Contents
    <3>3. QED
      BY <2>2, <3>1, <3>2
  <2>3. QED
    BY <2>1, <2>2
<1>9. /\ call'[t] \in RunningCalls
      /\ call'[t].kind = k /\ call'[t].at = n + 1 /\ call'[t].arg = call[t].arg
      /\ call'[t].pointer = p /\ call'[t].got = now
  <2>1. now \in Fields
    BY <1>4 DEF Contents, Fields, MarksOrBlank
  <2>2. [call[t] EXCEPT !.got = now, !.at = @ + 1] \in RunningCalls
    BY <1>2, <1>4, <2>1 DEF RunningCalls
  <2>3. QED
    BY <1>4, <1>8, <2>2 DEF RunningCalls
<1>10. /\ call' \in [Threads -> {NotCalling} \cup RunningCalls]
       /\ \A u \in Threads \ {t} : call'[u] = call[u]
  BY <1>1, <1>4, <1>9
<1>11. /\ UNCHANGED <<lock, impl, alive, content, committed, crashed>>
       /\ misused' = (misused \/ p \notin alive)
  BY DEF Read
<1>12. TypeOK' /\ misused' = FALSE
  BY <1>7, <1>10, <1>11 DEF DataValueInv, TypeOK, NoUseAfterDelete
<1>13. InProgress(t)' = committed
  BY <1>3, <1>4, <1>9, <1>11 DEF InProgress, Past, Contents
<1>14. Works(t)'
  BY <1>3, <1>6, <1>9, <1>11, <1>13 DEF Works, Past
<1>15. QED
  BY <1>1, <1>9, <1>10, <1>11, <1>12, <1>14, WorkKept

\* m_lock is taken when the contents are whole.
LEMMA LockKeeps ==
    ASSUME Calls \subseteq LockingCalls, DataValueInv, NEW t \in Threads, Lock(t)
    PROVE  DataValueInv'
<1> DEFINE k == call[t].kind
<1>1. At(t, "lock") /\ Steps(t) /\ lock = NoThread /\ lock' = t
  BY DEF Lock
<1>2. /\ k \in LockingCalls /\ Len(Script(k)) \in 3..7
      /\ call[t].at \in 1..Len(Script(k)) /\ Script(k)[call[t].at] = "lock"
  BY <1>1, CallsAreScripts, Lengths DEF At
<1>3. call[t].at = 1 /\ call'[t].at = 2 /\ call'[t].kind = k
  <2>1. call[t].at = 1
    BY <1>2, StepPlaces
  <2>2. call'[t].at = call[t].at + 1 /\ call'[t].kind = k
    BY <1>1, GoesOn
  <2>3. QED
    BY <2>1, <2>2
<1>4. /\ Before(k, 2, "lock") /\ ~Before(k, 2, "unlock")
      /\ ~Before(k, 2, "load") /\ ~Before(k, 2, "readFields") /\ ~Before(k, 2, "delete")
      /\ \A s \in {"new", "copyFields", "clear", "copyValue", "status", "source", "server"} :
            ~Before(k, 2, s)
  <2>1. Len(Script(k)) \in Nat /\ Len(Script(k)) >= 3
    BY <1>2, LengthBounds
  <2>2. 2 \in Nat \ {0} /\ 2 <= Len(Script(k)) + 1 /\ ~(2 > Len(Script(k)))
    BY <2>1
  <2>3. QED
    BY <1>2, <2>2, BeforePlaces
<1>5. UNCHANGED <<impl, alive, content, committed, misused, crashed>>
  BY DEF Lock
<1>6. TypeOK' /\ NoUseAfterDelete'
  BY <1>1, <1>5, GoesOn DEF DataValueInv, TypeOK, NoUseAfterDelete
<1>7. Calling(t)'
  BY <1>2, <1>3 DEF Calling, NotCalling, LockingCalls
<1>8. HolderIsInside'
  <2>1. /\ call'[t].at <= Len(Script(call'[t].kind)) + 1
        /\ lock' = t <=> Calling(t)' /\ Past(t, "lock")' /\ ~Past(t, "unlock")'
    BY <1>1, <1>2, <1>3, <1>4, <1>7 DEF Past
  <2>2. ASSUME NEW u \in Threads \ {t}
        PROVE  /\ Calling(u)' => call'[u].at <= Len(Script(call'[u].kind)) + 1
               /\ lock' = u <=> Calling(u)' /\ Past(u, "lock")' /\ ~Past(u, "unlock")'
    <3>1. call'[u] = call[u] /\ lock # u
      BY <1>1, GoesOn, OutsideAssumption
    <3>2. QED
      BY <1>1, <3>1 DEF DataValueInv, HolderIsInside, Past, Calling
  <2>3. QED
    BY <2>1, <2>2 DEF HolderIsInside
<1>9. alive = {impl} /\ content[impl] = committed /\ committed \in Contents
  BY <1>1 DEF DataValueInv, LockProtects, TypeOK
<1>10. InProgress(t)' = committed
  BY <1>3, <1>4, <1>5, <1>9 DEF InProgress, Past, Contents
<1>11. HolderWorks'
  BY <1>1, <1>3, <1>4, <1>5, <1>9, <1>10 DEF HolderWorks, Works, Past
<1>12. LockProtects'
  BY <1>1, OutsideAssumption DEF LockProtects
<1>13. QED
  BY <1>6, <1>8, <1>11, <1>12 DEF DataValueInv

\* When m_lock is released the contents are what the call promises.
LEMMA UnlockEffect ==
    ASSUME Calls \subseteq LockingCalls, DataValueInv, NEW t \in Threads, At(t, "unlock")
    PROVE  /\ lock = t /\ alive = {impl} /\ content[impl] = Current
           /\ Current = Applied(call[t].kind, call[t].arg, committed)
           /\ Current \in Contents
           /\ call[t].kind = "clone" => call[t].got = committed
<1> DEFINE k == call[t].kind
           n == call[t].at
           arg == call[t].arg
<1>1. /\ lock = t /\ n \in 2..Len(Script(k)) /\ n = Len(Script(k))
      /\ k \in LockingCalls
  BY HolderSteps, CallsAreScripts DEF At
<1>2. /\ n \in Nat \ {0} /\ n <= Len(Script(k)) + 1
      /\ n = IF k \in {"operator=", "setValueUpdating"} THEN 6
             ELSE IF k = "setDataValue" THEN 7
             ELSE IF k = "clone" THEN 5
             ELSE IF k = "setValue" THEN 4 ELSE 3
  <2>1. Len(Script(k)) = IF k \in {"operator=", "setValueUpdating"} THEN 6
                         ELSE IF k = "setDataValue" THEN 7
                         ELSE IF k = "clone" THEN 5
             ELSE IF k = "setValue" THEN 4 ELSE 3
    BY <1>1, Lengths
  <2>2. QED
    BY <1>1, <2>1
<1>3. /\ Before(k, n, "delete") <=> k = "operator="
      /\ Before(k, n, "new") <=> k = "operator="
      /\ Before(k, n, "copyFields") <=> k = "operator="
      /\ Before(k, n, "copyValue") <=> k \in {"operator=", "setDataValue", "setValue", "setValueUpdating"}
      /\ Before(k, n, "clear") <=> k \in {"setDataValue", "setValue", "setValueUpdating"}
      /\ Before(k, n, "status") <=> k \in {"setDataValue", "setStatusCode"}
      /\ Before(k, n, "source") <=> k \in {"setDataValue", "setValueUpdating", "setSourceTimestamp"}
      /\ Before(k, n, "server") <=> k \in {"setDataValue", "setValueUpdating", "setServerTimestamp"}
      /\ Before(k, n, "readFields") <=> k = "clone"
      /\ Before(k, n, "readValue") <=> k = "clone"
  <2>1. CASE k \in {"operator=", "setValueUpdating"}
    BY <1>2, <2>1, BeforePlaces DEF LockingCalls
  <2>2. CASE k = "setDataValue"
    BY <1>2, <2>2, BeforePlaces DEF LockingCalls
  <2>3. CASE k \in {"clone", "setValue"}
    BY <1>2, <2>3, BeforePlaces DEF LockingCalls
  <2>4. CASE k \in {"setStatusCode", "setSourceTimestamp", "setServerTimestamp"}
    BY <1>2, <2>4, BeforePlaces DEF LockingCalls
  <2>5. QED
    BY <1>1, <2>1, <2>2, <2>3, <2>4 DEF LockingCalls
<1>4. /\ alive = {impl} /\ content[impl] = InProgress(t)
      /\ k = "clone" => call[t].got = committed
  BY <1>1, <1>3 DEF DataValueInv, HolderWorks, Works, Past
<1>5. content[impl] = Current
  BY <1>4 DEF Current, DataValueInv, TypeOK
<1>6. arg \in Contents /\ committed \in Contents
  BY CallsAreScripts DEF At, RunningCalls, DataValueInv, TypeOK
<1>7. InProgress(t) = Applied(k, arg, committed)
  <2>1. CASE k = "operator="
    BY <1>3, <1>6, <2>1 DEF InProgress, Past, Applied, Contents
  <2>2. CASE k \in {"setDataValue", "setValue", "setValueUpdating"}
    BY <1>3, <1>6, <2>2 DEF InProgress, Past, Applied, Contents
  <2>3. CASE k \in {"setStatusCode", "setSourceTimestamp", "setServerTimestamp"}
    BY <1>3, <1>6, <2>3 DEF InProgress, Past, Applied, Contents
  <2>4. CASE k = "clone"
    BY <1>3, <1>6, <2>4 DEF InProgress, Past, Applied, Contents
  <2>5. QED
    BY <1>1, <2>1, <2>2, <2>3, <2>4 DEF LockingCalls
<1>8. Applied(k, arg, committed) \in Contents
  BY <1>1, <1>6 DEF Applied, Contents, LockingCalls
<1>9. QED
  BY <1>1, <1>4, <1>5, <1>7, <1>8

LEMMA UnlockKeeps ==
    ASSUME Calls \subseteq LockingCalls, DataValueInv, NEW t \in Threads, Unlock(t)
    PROVE  DataValueInv'
<1> DEFINE k == call[t].kind
           n == call[t].at
<1>1. /\ At(t, "unlock") /\ Steps(t) /\ lock' = NoThread /\ committed' = Current
      /\ UNCHANGED <<impl, alive, content, misused, crashed>>
  BY DEF Unlock
<1>2. /\ lock = t /\ alive = {impl} /\ content[impl] = Current /\ Current \in Contents
  BY <1>1, UnlockEffect
<1>3. /\ n = Len(Script(k)) /\ n \in Nat /\ k \in LockingCalls /\ n + 1 \in Nat \ {0}
  BY <1>1, HolderSteps, CallsAreScripts DEF At
<1>4. TypeOK' /\ NoUseAfterDelete' /\ LockProtects'
  BY <1>1, <1>2, GoesOn DEF DataValueInv, TypeOK, NoUseAfterDelete, LockProtects
<1>5. HolderWorks'
  BY <1>1, OutsideAssumption DEF HolderWorks
<1>6. Before(k, n + 1, "unlock")
  BY <1>3, BeforePlaces
<1>7. call'[t].kind = k /\ call'[t].at = n + 1
  BY <1>1, GoesOn
<1>8. /\ call'[t].at <= Len(Script(call'[t].kind)) + 1
      /\ lock' = t <=> Calling(t)' /\ Past(t, "lock")' /\ ~Past(t, "unlock")'
  BY <1>1, <1>3, <1>6, <1>7, OutsideAssumption DEF Past
<1>9. ASSUME NEW u \in Threads \ {t}
      PROVE  /\ Calling(u)' => call'[u].at <= Len(Script(call'[u].kind)) + 1
             /\ lock' = u <=> Calling(u)' /\ Past(u, "lock")' /\ ~Past(u, "unlock")'
  <2>1. call'[u] = call[u] /\ lock # u /\ lock' # u
    BY <1>1, <1>2, GoesOn, OutsideAssumption
  <2>2. QED
    BY <2>1 DEF DataValueInv, HolderIsInside, Past, Calling
<1>10. HolderIsInside'
  BY <1>8, <1>9 DEF HolderIsInside
<1>11. QED
  BY <1>4, <1>5, <1>10 DEF DataValueInv

\* What happens to a call outside the lock touches nobody's work.
LEMMA OutsideKeeps ==
    ASSUME DataValueInv, NEW t \in Threads,
           UNCHANGED <<lock, impl, alive, content, committed, misused, crashed>>,
           call' \in [Threads -> {NotCalling} \cup RunningCalls],
           \A u \in Threads \ {t} : call'[u] = call[u],
           lock # t,
           Calling(t)' => /\ call'[t].at <= Len(Script(call'[t].kind)) + 1
                          /\ ~Past(t, "lock")'
    PROVE  DataValueInv'
<1>1. TypeOK' /\ NoUseAfterDelete' /\ LockProtects'
  BY DEF DataValueInv, TypeOK, NoUseAfterDelete, LockProtects
<1>2. ASSUME NEW u \in Threads
      PROVE  /\ Calling(u)' => call'[u].at <= Len(Script(call'[u].kind)) + 1
             /\ lock' = u <=> Calling(u)' /\ Past(u, "lock")' /\ ~Past(u, "unlock")'
  <2>1. CASE u = t
    BY <2>1
  <2>2. CASE u # t
    BY <2>2 DEF DataValueInv, HolderIsInside, Past, Calling
  <2>3. QED
    BY <2>1, <2>2
<1>3. HolderIsInside'
  BY <1>2 DEF HolderIsInside
<1>4. HolderWorks'
  <2>1. SUFFICES ASSUME lock \in Threads PROVE Works(lock)'
    BY DEF HolderWorks
  <2>2. Works(lock) /\ call'[lock] = call[lock]
    BY <2>1 DEF DataValueInv, HolderWorks
  <2>3. QED
    BY <2>2 DEF Works, Past, InProgress
<1>5. QED
  BY <1>1, <1>3, <1>4 DEF DataValueInv

LEMMA InvokeKeeps ==
    ASSUME Calls \subseteq LockingCalls, DataValueInv, NEW t \in Threads, Invoke(t)
    PROVE  DataValueInv'
<1>1. PICK k \in Calls, m \in Marks :
          call' = [call EXCEPT ![t] = [kind |-> k, arg |-> Uniform(m), at |-> 1,
                                       pointer |-> NoBlock, got |-> Uniform(Blank)]]
  BY DEF Invoke
<1>2. call \in [Threads -> {NotCalling} \cup RunningCalls]
  BY DEF DataValueInv, TypeOK
<1>3. [kind |-> k, arg |-> Uniform(m), at |-> 1, pointer |-> NoBlock,
       got |-> Uniform(Blank)] \in RunningCalls
  BY DEF RunningCalls, Uniform, Contents, Fields, MarksOrBlank
<1>4. call'[t].kind = k /\ call'[t].at = 1
  BY <1>1, <1>2
<1>5. Len(Script(k)) \in 3..7 /\ ~Before(k, 1, "lock")
  BY Lengths DEF Before
<1>6. call'[t].at <= Len(Script(call'[t].kind)) + 1 /\ ~Past(t, "lock")'
  BY <1>4, <1>5 DEF Past
<1>7. lock # t
  BY DEF Invoke, DataValueInv, HolderIsInside
<1>8. UNCHANGED <<lock, impl, alive, content, committed, misused, crashed>>
  BY DEF Invoke
<1>9. call' \in [Threads -> {NotCalling} \cup RunningCalls]
  BY <1>1, <1>2, <1>3
<1>10. QED
  BY <1>1, <1>2, <1>6, <1>7, <1>8, <1>9, OutsideKeeps

LEMMA ReturnKeeps ==
    ASSUME Calls \subseteq LockingCalls, DataValueInv, NEW t \in Threads, Return(t)
    PROVE  DataValueInv'
<1> DEFINE k == call[t].kind
           n == call[t].at
<1>1. /\ Calling(t) /\ n > Len(Script(k)) /\ call' = [call EXCEPT ![t] = NotCalling]
      /\ UNCHANGED <<lock, impl, alive, content, committed, misused, crashed>>
  BY DEF Return, Finished
<1>2. k \in LockingCalls /\ n \in Nat \ {0} /\ n <= Len(Script(k)) + 1
  BY <1>1, CallsAreScripts
<1>3. Before(k, n, "unlock")
  BY <1>1, <1>2, BeforePlaces
<1>4. lock # t
  BY <1>3 DEF DataValueInv, HolderIsInside, Past
<1>5. call \in [Threads -> {NotCalling} \cup RunningCalls]
  BY DEF DataValueInv, TypeOK
<1>6. /\ call' \in [Threads -> {NotCalling} \cup RunningCalls]
      /\ ~Calling(t)'
      /\ \A u \in Threads \ {t} : call'[u] = call[u]
  BY <1>1, <1>5 DEF Calling
<1>7. QED
  BY <1>1, <1>4, <1>6, OutsideKeeps

LEMMA DataValueInvInit == Init => DataValueInv
<1> SUFFICES ASSUME Init PROVE DataValueInv
  OBVIOUS
<1>1. PICK b \in Blocks, m \in Marks :
          /\ lock = NoThread /\ impl = b /\ alive = {b}
          /\ content = [c \in Blocks |-> Uniform(IF c = b THEN m ELSE Blank)]
          /\ call = [t \in Threads |-> NotCalling]
          /\ committed = Uniform(m) /\ misused = FALSE /\ crashed = FALSE
  BY DEF Init
<1>2. TypeOK
  BY <1>1 DEF TypeOK, Uniform, Fields, MarksOrBlank, Contents
<1>3. LockProtects /\ NoUseAfterDelete
  BY <1>1 DEF LockProtects, NoUseAfterDelete
<1>4. HolderIsInside
  BY <1>1, OutsideAssumption DEF HolderIsInside, Calling
<1>5. HolderWorks
  BY <1>1, OutsideAssumption DEF HolderWorks
<1>6. QED
  BY <1>2, <1>3, <1>4, <1>5 DEF DataValueInv

\* Running out of memory ends the process where it is.
LEMMA CrashKeeps ==
    ASSUME DataValueInv, NEW t \in Threads, OutOfMemory(t)
    PROVE  DataValueInv'
<1>1. /\ UNCHANGED <<lock, impl, alive, content, call, committed, misused>>
      /\ crashed' = TRUE
  BY DEF OutOfMemory
<1>2. TypeOK' /\ NoUseAfterDelete' /\ LockProtects'
  BY <1>1 DEF DataValueInv, TypeOK, NoUseAfterDelete, LockProtects
<1>3. HolderIsInside'
  BY <1>1 DEF DataValueInv, HolderIsInside, Past, Calling
<1>4. HolderWorks'
  BY <1>1 DEF DataValueInv, HolderWorks, Works, Past, InProgress
<1>5. QED
  BY <1>2, <1>3, <1>4 DEF DataValueInv

LEMMA DataValueInvStep ==
    ASSUME Calls \subseteq LockingCalls, DataValueInv, [Next]_vars
    PROVE  DataValueInv'
<1>1. ASSUME NEW t \in Threads, Invoke(t) PROVE DataValueInv'
  BY <1>1, InvokeKeeps
<1>2. ASSUME NEW t \in Threads, Lock(t) PROVE DataValueInv'
  BY <1>2, LockKeeps
<1>3. ASSUME NEW t \in Threads, Unlock(t) PROVE DataValueInv'
  BY <1>3, UnlockKeeps
<1>4. ASSUME NEW t \in Threads, Delete(t) PROVE DataValueInv'
  BY <1>4, DeleteKeeps
<1>5. ASSUME NEW t \in Threads, New(t) PROVE DataValueInv'
  BY <1>5, NewKeeps
<1>6. ASSUME NEW t \in Threads, SetFields(t) PROVE DataValueInv'
  BY <1>6, SetFieldsKeeps
<1>7. ASSUME NEW t \in Threads, Load(t) PROVE DataValueInv'
  BY <1>7, LoadKeeps
<1>8. ASSUME NEW t \in Threads, Read(t) PROVE DataValueInv'
  BY <1>8, ReadKeeps
<1>9. ASSUME NEW t \in Threads, Return(t) PROVE DataValueInv'
  BY <1>9, ReturnKeeps
<1>10. CASE UNCHANGED vars
  BY <1>10 DEF vars, DataValueInv, TypeOK, NoUseAfterDelete, LockProtects, HolderIsInside,
     HolderWorks, Works, Past, InProgress, Calling
<1>11. ASSUME NEW t \in Threads, OutOfMemory(t) PROVE DataValueInv'
  BY <1>11, CrashKeeps
<1>12. QED
  BY <1>1, <1>2, <1>3, <1>4, <1>5, <1>6, <1>7, <1>8, <1>9, <1>10, <1>11 DEF Next, Step

\* The calls that lock keep the contents whole: no clone is torn, m_impl is never
\* used while it is null or deleted, and between two calls the data value is in
\* the one block that is alive.  For every mix of those calls.
THEOREM LockedCallsAreSafe ==
    ASSUME Calls \subseteq LockingCalls
    PROVE  Spec => []DataValueInv
<1>1. Init => DataValueInv
  BY DataValueInvInit
<1>2. DataValueInv /\ [Next]_vars => DataValueInv'
  BY DataValueInvStep
<1>3. QED
  BY <1>1, <1>2, PTL DEF Spec

-----------------------------------------------------------------------------
(* The calls that lock are atomic.                                         *)

\* What the abstract value sees of a call that is under way.
LEMMA BegunOrDone ==
    ASSUME Calls \subseteq LockingCalls, DataValueInv, NEW t \in Threads, Calling(t)
    PROVE  AbstractCall[t] =
               IF call[t].at = Len(Script(call[t].kind)) + 1
               THEN Atomic!Done(IF call[t].kind = "clone" THEN {call[t].got} ELSE {})
               ELSE Atomic!Begun(call[t].kind, call[t].arg)
<1>1. /\ call[t].at \in Nat /\ Len(Script(call[t].kind)) \in Nat
      /\ call[t].at <= Len(Script(call[t].kind)) + 1
  BY CallsAreScripts, Lengths
<1>2. Finished(t) <=> call[t].at = Len(Script(call[t].kind)) + 1
  BY <1>1 DEF Finished
<1>3. QED
  BY <1>2 DEF AbstractCall, Atomic!Done, Atomic!Begun

\* The steps inside a call are invisible.
LEMMA InsideStutters ==
    ASSUME Calls \subseteq LockingCalls, DataValueInv, DataValueInv',
           NEW t \in Threads, NEW step, At(t, step), step # "unlock",
           call'[t].kind = call[t].kind, call'[t].arg = call[t].arg,
           call'[t].at = call[t].at + 1,
           \A u \in Threads \ {t} : call'[u] = call[u]
    PROVE  AbstractCall' = AbstractCall
<1> DEFINE k == call[t].kind
           n == call[t].at
<1>1. /\ k \in LockingCalls /\ Len(Script(k)) \in Nat
      /\ n \in 1..Len(Script(k)) /\ Script(k)[n] = step
  BY CallsAreScripts, Lengths DEF At
<1>2. n # Len(Script(k))
  BY <1>1, StepPlaces
<1>3. Calling(t) /\ Calling(t)'
  BY <1>1 DEF At, Calling, NotCalling, LockingCalls
<1>4. ~Finished(t) /\ ~Finished(t)'
  BY <1>1, <1>2 DEF Finished
<1>5. AbstractCall'[t] = AbstractCall[t]
  BY <1>3, <1>4 DEF AbstractCall
<1>6. ASSUME NEW u \in Threads \ {t} PROVE AbstractCall'[u] = AbstractCall[u]
  BY DEF AbstractCall, Calling, Finished
<1>7. QED
  BY <1>5, <1>6 DEF AbstractCall

\* The release of m_lock is the moment a call takes effect.
LEMMA UnlockTakesEffect ==
    ASSUME Calls \subseteq LockingCalls, DataValueInv, NEW t \in Threads, Unlock(t)
    PROVE  Atomic!TakesEffect(t)
<1> DEFINE k == call[t].kind
           n == call[t].at
           got == IF k = "clone" THEN {call[t].got} ELSE {}
<1>1. At(t, "unlock") /\ Steps(t) /\ committed' = Current
  BY DEF Unlock
<1>2. /\ Current = Applied(k, call[t].arg, committed)
      /\ k = "clone" => call[t].got = committed
  BY <1>1, UnlockEffect
<1>3. /\ Calling(t) /\ k \in LockingCalls /\ Len(Script(k)) \in Nat /\ n = Len(Script(k))
  BY <1>1, HolderSteps, CallsAreScripts, Lengths DEF At
<1>4. AbstractCall[t] = Atomic!Begun(k, call[t].arg)
  <2>1. n # Len(Script(k)) + 1
    BY <1>3
  <2>2. QED
    BY <1>3, <2>1, BegunOrDone
<1>5. /\ call'[t].kind = k /\ call'[t].at = n + 1 /\ call'[t].got = call[t].got
      /\ \A u \in Threads \ {t} : call'[u] = call[u]
  BY <1>1, GoesOn
<1>6. Calling(t)' /\ Finished(t)'
  BY <1>3, <1>5 DEF Calling, NotCalling, LockingCalls, Finished
<1>7. AbstractCall'[t] = Atomic!Done(got)
  BY <1>5, <1>6 DEF AbstractCall, Atomic!Done
<1>8. \A u \in Threads \ {t} : AbstractCall'[u] = AbstractCall[u]
  BY <1>5 DEF AbstractCall, Calling, Finished
<1>9. AbstractCall' = [AbstractCall EXCEPT ![t] = Atomic!Done(got)]
  BY <1>7, <1>8 DEF AbstractCall
<1>10. got = IF AbstractCall[t].kind = "clone" THEN {committed} ELSE {}
  BY <1>2, <1>4 DEF Atomic!Begun
<1>11. /\ AbstractCall[t].state = "begun"
       /\ committed' = Applied(AbstractCall[t].kind, AbstractCall[t].arg, committed)
  BY <1>1, <1>2, <1>4 DEF Atomic!Begun
<1>12. QED
  BY <1>9, <1>10, <1>11 DEF Atomic!TakesEffect

LEMMA InvokeBegins ==
    ASSUME Calls \subseteq LockingCalls, DataValueInv, NEW t \in Threads, Invoke(t)
    PROVE  Atomic!Invoke(t)
<1>1. PICK k \in Calls, m \in Marks :
          call' = [call EXCEPT ![t] = [kind |-> k, arg |-> Uniform(m), at |-> 1,
                                       pointer |-> NoBlock, got |-> Uniform(Blank)]]
  BY DEF Invoke
<1>2. ~Calling(t) /\ UNCHANGED committed /\ Uniform(m) \in Contents
  BY DEF Invoke, Uniform, Contents
<1>3. call \in [Threads -> {NotCalling} \cup RunningCalls]
  BY DEF DataValueInv, TypeOK
<1>4. /\ call'[t].kind = k /\ call'[t].at = 1 /\ call'[t].arg = Uniform(m)
      /\ \A u \in Threads \ {t} : call'[u] = call[u]
  BY <1>1, <1>3
<1>5. k \in LockingCalls /\ Len(Script(k)) \in Nat /\ Len(Script(k)) >= 3
  BY LengthBounds
<1>6. Calling(t)' /\ ~Finished(t)'
  BY <1>4, <1>5 DEF Calling, NotCalling, LockingCalls, Finished
<1>7. AbstractCall[t] = Atomic!Idle /\ AbstractCall'[t] = Atomic!Begun(k, Uniform(m))
  BY <1>2, <1>4, <1>6 DEF AbstractCall, Atomic!Idle, Atomic!Begun
<1>8. \A u \in Threads \ {t} : AbstractCall'[u] = AbstractCall[u]
  BY <1>4 DEF AbstractCall, Calling, Finished
<1>9. AbstractCall' = [AbstractCall EXCEPT ![t] = Atomic!Begun(k, Uniform(m))]
  BY <1>7, <1>8 DEF AbstractCall
<1>10. QED
  BY <1>2, <1>7, <1>9 DEF Atomic!Invoke

LEMMA ReturnReturns ==
    ASSUME Calls \subseteq LockingCalls, DataValueInv, NEW t \in Threads, Return(t)
    PROVE  Atomic!Returns(t)
<1>1. /\ Finished(t) /\ call' = [call EXCEPT ![t] = NotCalling] /\ UNCHANGED committed
  BY DEF Return
<1>2. call \in [Threads -> {NotCalling} \cup RunningCalls]
  BY DEF DataValueInv, TypeOK
<1>3. call'[t] = NotCalling /\ \A u \in Threads \ {t} : call'[u] = call[u]
  BY <1>1, <1>2
<1>4. AbstractCall[t].state = "done" /\ AbstractCall'[t] = Atomic!Idle
  BY <1>1, <1>3 DEF AbstractCall, Calling, Finished, Atomic!Idle
<1>5. \A u \in Threads \ {t} : AbstractCall'[u] = AbstractCall[u]
  BY <1>3 DEF AbstractCall, Calling, Finished
<1>6. AbstractCall' = [AbstractCall EXCEPT ![t] = Atomic!Idle]
  <2>1. /\ AbstractCall = [u \in Threads |-> AbstractCall[u]]
        /\ AbstractCall' = [u \in Threads |-> AbstractCall'[u]]
    BY DEF AbstractCall
  <2>2. QED
    BY <1>4, <1>5, <2>1
<1>7. QED
  BY <1>1, <1>4, <1>6 DEF Atomic!Returns

LEMMA AtomicInit == Init => Atomic!Init
<1> SUFFICES ASSUME Init PROVE Atomic!Init
  OBVIOUS
<1>1. committed \in Contents /\ call = [t \in Threads |-> NotCalling]
  BY DEF Init, Uniform, Contents
<1>2. AbstractCall = [t \in Threads |-> Atomic!Idle]
  BY <1>1 DEF AbstractCall, Calling, Atomic!Idle
<1>3. QED
  BY <1>1, <1>2 DEF Atomic!Init

LEMMA AtomicStep ==
    ASSUME Calls \subseteq LockingCalls, DataValueInv, [Next]_vars
    PROVE  [Atomic!Next]_<<committed, AbstractCall>>
<1>0. DataValueInv'
  BY DataValueInvStep
<1>1. ASSUME NEW t \in Threads, Invoke(t) PROVE Atomic!Next
  BY <1>1, InvokeBegins DEF Atomic!Next
<1>2. ASSUME NEW t \in Threads, Unlock(t) PROVE Atomic!Next
  BY <1>2, UnlockTakesEffect DEF Atomic!Next
<1>3. ASSUME NEW t \in Threads, Return(t) PROVE Atomic!Next
  BY <1>3, ReturnReturns DEF Atomic!Next
<1>4. ASSUME NEW t \in Threads,
             Lock(t) \/ Delete(t) \/ New(t) \/ SetFields(t)
      PROVE  UNCHANGED <<committed, AbstractCall>>
  <2>1. PICK step : At(t, step) /\ step # "unlock" /\ Steps(t) /\ committed' = committed
    BY <1>4 DEF Lock, Delete, New, SetFields, Write
  <2>2. QED
    BY <1>0, <2>1, GoesOn, InsideStutters
<1>5. ASSUME NEW t \in Threads, Load(t) \/ Read(t)
      PROVE  UNCHANGED <<committed, AbstractCall>>
  <2>1. PICK step : At(t, step) /\ step # "unlock" /\ committed' = committed
    BY <1>5 DEF Load, Read
  <2>2. call[t] \in RunningCalls /\ call \in [Threads -> {NotCalling} \cup RunningCalls]
    BY <2>1, CallsAreScripts DEF DataValueInv, TypeOK, At
  <2>3. /\ call'[t].kind = call[t].kind /\ call'[t].arg = call[t].arg
        /\ call'[t].at = call[t].at + 1
        /\ \A u \in Threads \ {t} : call'[u] = call[u]
    BY <1>5, <2>2 DEF Load, Read, RunningCalls
  <2>4. QED
    BY <1>0, <2>1, <2>3, InsideStutters
<1>6. CASE UNCHANGED vars
  BY <1>6 DEF vars, AbstractCall, Calling, Finished
<1>7. ASSUME NEW t \in Threads, OutOfMemory(t)
      PROVE  UNCHANGED <<committed, AbstractCall>>
  BY <1>7 DEF OutOfMemory, AbstractCall, Calling, Finished
<1>8. QED
  BY <1>1, <1>2, <1>3, <1>4, <1>5, <1>6, <1>7 DEF Next, Step

\* The calls that lock are atomic: each takes effect at one moment between its
\* beginning and its return, and a clone is the whole of what the calls before
\* that moment have made.
THEOREM LockedCallsAreAtomic ==
    ASSUME Calls \subseteq LockingCalls
    PROVE  Spec => RefinesAtomic
<1>1. Init => Atomic!Init
  BY AtomicInit
<1>2. DataValueInv /\ [Next]_vars => [Atomic!Next]_<<committed, AbstractCall>>
  BY AtomicStep
<1>3. Spec => []DataValueInv
  BY LockedCallsAreSafe
<1>4. QED
  BY <1>1, <1>2, <1>3, PTL DEF Spec, RefinesAtomic, Atomic!Spec

=============================================================================
