----------------------------- MODULE UaDataValue -----------------------------
(***************************************************************************)
(* One UaDataValue shared by threads (src/uadatavalue.cpp): the current    *)
(* value of a BaseDataVariableType, which quasar threads publish to with   *)
(* setValue(), an assignment, and the server thread reads with value(), a  *)
(* clone.  The setters, the assignment and the clone hold m_lock; the      *)
(* getters, the comparison and the copy constructor do not.                *)
(*                                                                         *)
(* A call is a script of steps over the heap block m_impl points to.       *)
(***************************************************************************)
EXTENDS Naturals, Sequences

CONSTANTS
    Threads,
    Marks,    \* what a field may hold: a mark tells which call wrote it
    Blocks,   \* heap blocks UA_DataValue_new hands out
    NoBlock,  \* the null pointer
    NoThread, \* m_lock is free
    Calls     \* the calls the threads make

ASSUME OutsideAssumption == NoBlock \notin Blocks /\ NoThread \notin Threads

VARIABLES
    lock,      \* the thread that holds m_lock
    impl,      \* m_impl
    alive,     \* the blocks that have not been deleted
    content,   \* the fields of each block
    call,      \* each thread's call
    committed, \* the contents when m_lock was last released
    misused,   \* a null or a deleted block was dereferenced
    crashed    \* memory ran out, which the copies do not check

vars == <<lock, impl, alive, content, call, committed, misused, crashed>>

Contents == [value : Marks, status : Marks, source : Marks, server : Marks]

\* A field that is empty, or zero since its block was allocated.
Blank == "blank"
MarksOrBlank == Marks \cup {Blank}
Fields == [value : MarksOrBlank, status : MarksOrBlank,
           source : MarksOrBlank, server : MarksOrBlank]

\* What a call does, in the order the code does it; setValueUpdating is setValue
\* with updateTimeStamps.
Body(kind) ==
    CASE kind = "operator="          -> <<"lock", "delete", "new", "copyFields", "copyValue", "unlock">>
      [] kind = "setDataValue"       -> <<"lock", "clear", "copyValue", "status", "source", "server", "unlock">>
      [] kind = "setValue"           -> <<"lock", "clear", "copyValue", "unlock">>
      [] kind = "setValueUpdating"   -> <<"lock", "clear", "copyValue", "source", "server", "unlock">>
      [] kind = "setStatusCode"      -> <<"lock", "status", "unlock">>
      [] kind = "setSourceTimestamp" -> <<"lock", "source", "unlock">>
      [] kind = "setServerTimestamp" -> <<"lock", "server", "unlock">>
      [] kind = "clone"              -> <<"lock", "load", "readFields", "readValue", "unlock">>
      [] kind = "statusCode"         -> <<"load", "readFields">>
      [] kind = "copy constructor"   -> <<"load", "readFields", "readValue">>

LockingCalls == {"operator=", "setDataValue", "setValue", "setValueUpdating",
                 "setStatusCode", "setSourceTimestamp", "setServerTimestamp", "clone"}

BugUnlockedClone(kind) == Body(IF kind = "clone" THEN "copy constructor" ELSE kind)
Script(kind) == Body(kind)

NotCalling == [kind |-> "none"]
Uniform(m) == [value |-> m, status |-> m, source |-> m, server |-> m]

Calling(t) == call[t] # NotCalling
At(t, step) ==
    /\ Calling(t)
    /\ call[t].at <= Len(Script(call[t].kind))
    /\ Script(call[t].kind)[call[t].at] = step
Finished(t) == Calling(t) /\ call[t].at > Len(Script(call[t].kind))

\* t goes on to its next step.
Steps(t) == call' = [call EXCEPT ![t].at = @ + 1]

RunningCalls ==
    [kind : Calls, arg : Contents, at : Nat \ {0},
     pointer : Blocks \cup {NoBlock}, got : Fields]

TypeOK ==
    /\ lock \in Threads \cup {NoThread}
    /\ impl \in Blocks \cup {NoBlock}
    /\ alive \subseteq Blocks
    /\ content \in [Blocks -> Fields]
    /\ committed \in Contents
    /\ misused \in BOOLEAN
    /\ crashed \in BOOLEAN
    /\ call \in [Threads -> {NotCalling} \cup RunningCalls]

Init ==
    \E b \in Blocks, m \in Marks :
        /\ lock = NoThread
        /\ impl = b
        /\ alive = {b}
        /\ content = [c \in Blocks |-> Uniform(IF c = b THEN m ELSE Blank)]
        /\ call = [t \in Threads |-> NotCalling]
        /\ committed = Uniform(m)
        /\ misused = FALSE
        /\ crashed = FALSE

-----------------------------------------------------------------------------
(* Calls and their steps.                                                  *)

\* The argument of a setter is the caller's own, and so is a clone's result.
Invoke(t) ==
    /\ ~Calling(t)
    /\ \E k \in Calls, m \in Marks :
        call' = [call EXCEPT ![t] = [kind |-> k, arg |-> Uniform(m), at |-> 1,
                                     pointer |-> NoBlock, got |-> Uniform(Blank)]]
    /\ UNCHANGED <<lock, impl, alive, content, committed, misused, crashed>>

Lock(t) ==
    /\ At(t, "lock")
    /\ lock = NoThread
    /\ lock' = t
    /\ Steps(t)
    /\ UNCHANGED <<impl, alive, content, committed, misused, crashed>>

\* What m_impl points to.
Current == IF impl \in Blocks THEN content[impl] ELSE Uniform(Blank)

Unlock(t) ==
    /\ At(t, "unlock")
    /\ lock' = NoThread
    /\ committed' = Current
    /\ Steps(t)
    /\ UNCHANGED <<impl, alive, content, misused, crashed>>

\* UA_DataValue_clear, UA_DataValue_delete, m_impl = 0
Delete(t) ==
    /\ At(t, "delete")
    /\ alive' = alive \ {impl}
    /\ content' = [b \in Blocks |-> IF b = impl THEN Uniform(Blank) ELSE content[b]]
    /\ impl' = NoBlock
    /\ Steps(t)
    /\ UNCHANGED <<lock, committed, misused, crashed>>

\* UA_DataValue_new: any free block, perhaps the one just deleted.
New(t) ==
    /\ At(t, "new")
    /\ \E b \in Blocks \ alive :
        /\ impl' = b
        /\ alive' = alive \cup {b}
        /\ content' = [content EXCEPT ![b] = Uniform(Blank)]
    /\ Steps(t)
    /\ UNCHANGED <<lock, committed, misused, crashed>>

\* UA_DataValue_new finds no memory, and UA_DataValue_copy writes through null.
OutOfMemory(t) ==
    /\ At(t, "new") \/ (At(t, "load") /\ call[t].kind \in {"clone", "copy constructor"})
    /\ crashed' = TRUE
    /\ UNCHANGED <<lock, impl, alive, content, call, committed, misused>>

\* A write through m_impl.
Write(t, fields) ==
    /\ content' = IF impl \in alive THEN [content EXCEPT ![impl] = fields] ELSE content
    /\ misused' = (misused \/ impl \notin alive)
    /\ Steps(t)
    /\ UNCHANGED <<lock, impl, alive, committed, crashed>>

SetFields(t) ==
    LET arg == call[t].arg IN
    \/ At(t, "clear") /\ Write(t, [Current EXCEPT !.value = Blank])
    \/ At(t, "copyFields") /\ Write(t, [arg EXCEPT !.value = Blank])
    \/ At(t, "copyValue") /\ Write(t, [Current EXCEPT !.value = arg.value])
    \/ At(t, "status") /\ Write(t, [Current EXCEPT !.status = arg.status])
    \/ At(t, "source") /\ Write(t, [Current EXCEPT !.source = arg.source])
    \/ At(t, "server") /\ Write(t, [Current EXCEPT !.server = arg.server])

\* A reader loads the pointer once and reads through it.
Load(t) ==
    /\ At(t, "load")
    /\ call' = [call EXCEPT ![t].pointer = impl, ![t].at = @ + 1]
    /\ UNCHANGED <<lock, impl, alive, content, committed, misused, crashed>>

Read(t) ==
    LET p == call[t].pointer
        seen == IF p \in Blocks THEN content[p] ELSE Uniform(Blank)
    IN  /\ \/ /\ At(t, "readFields")
              /\ call' = [call EXCEPT ![t].got = [seen EXCEPT !.value = Blank],
                                      ![t].at = @ + 1]
           \/ /\ At(t, "readValue")
              /\ call' = [call EXCEPT ![t].got.value = seen.value, ![t].at = @ + 1]
        /\ misused' = (misused \/ p \notin alive)
        /\ UNCHANGED <<lock, impl, alive, content, committed, crashed>>

Return(t) ==
    /\ Finished(t)
    /\ call' = [call EXCEPT ![t] = NotCalling]
    /\ UNCHANGED <<lock, impl, alive, content, committed, misused, crashed>>

Step(t) == Lock(t) \/ Unlock(t) \/ Delete(t) \/ New(t) \/ OutOfMemory(t)
             \/ SetFields(t) \/ Load(t) \/ Read(t) \/ Return(t)

\* A crash ends every thread.
Next ==
    \/ ~crashed /\ \E t \in Threads : Invoke(t) \/ Step(t)
    \/ crashed /\ UNCHANGED vars

Spec == Init /\ [][Next]_vars

-----------------------------------------------------------------------------
(* Properties.                                                             *)

\* "The locking done here is to let UaDataValue be concurrently used from
\* multiple threads": no call touches a block that another one has deleted.
NoUseAfterDelete == ~misused

\* Between two calls that lock, the contents are complete and in one live block.
LockProtects ==
    lock = NoThread => alive = {impl} /\ content[impl] = committed

\* The steps a call has taken: those before the n-th of its script.
Before(kind, n, step) == \E i \in 1..(n - 1) : Script(kind)[i] = step
Past(t, step) == Before(call[t].kind, call[t].at, step)

\* Only the holder of m_lock is between its lock and its unlock.
HolderIsInside ==
    \A t \in Threads :
        /\ Calling(t) => call[t].at <= Len(Script(call[t].kind)) + 1
        /\ lock = t <=> Calling(t) /\ Past(t, "lock") /\ ~Past(t, "unlock")

\* What the holder has made of the contents so far.
InProgress(t) ==
    LET arg == call[t].arg
        old == IF Past(t, "new") THEN Uniform(Blank) ELSE committed
        copied == Past(t, "copyFields")
    IN  [value |-> IF Past(t, "copyValue") THEN arg.value
                   ELSE IF Past(t, "clear") THEN Blank ELSE old.value,
         status |-> IF copied \/ Past(t, "status") THEN arg.status ELSE old.status,
         source |-> IF copied \/ Past(t, "source") THEN arg.source ELSE old.source,
         server |-> IF copied \/ Past(t, "server") THEN arg.server ELSE old.server]

\* m_impl is null between the deletion and the allocation, and else has the
\* contents in progress, of which a clone has copied a part.
Works(t) ==
    /\ IF Past(t, "delete") /\ ~Past(t, "new")
       THEN impl = NoBlock /\ alive = {}
       ELSE alive = {impl} /\ content[impl] = InProgress(t)
    /\ Past(t, "load") => call[t].pointer = impl
    /\ Past(t, "readFields") =>
          call[t].got = IF Past(t, "readValue") THEN committed
                        ELSE [committed EXCEPT !.value = Blank]

HolderWorks == lock \in Threads => Works(lock)

\* The calls that lock keep the contents whole and touch no deleted block.
DataValueInv ==
    TypeOK /\ NoUseAfterDelete /\ LockProtects /\ HolderIsInside /\ HolderWorks

\* The calls that lock are atomic: they implement AtomicValue, with the effect
\* of a call at its release of m_lock.
Applied(kind, arg, reg) ==
    CASE kind \in {"operator=", "setDataValue"} -> arg
      [] kind = "setValue" -> [reg EXCEPT !.value = arg.value]
      [] kind = "setValueUpdating" -> [arg EXCEPT !.status = reg.status]
      [] kind = "setStatusCode" -> [reg EXCEPT !.status = arg.status]
      [] kind = "setSourceTimestamp" -> [reg EXCEPT !.source = arg.source]
      [] kind = "setServerTimestamp" -> [reg EXCEPT !.server = arg.server]
      [] kind = "clone" -> reg

AbstractCall == [t \in Threads |->
    IF ~Calling(t) THEN [state |-> "idle"]
    ELSE IF Finished(t)
         THEN [state |-> "done",
               got |-> IF call[t].kind = "clone" THEN {call[t].got} ELSE {}]
    ELSE [state |-> "begun", kind |-> call[t].kind, arg |-> call[t].arg]]

Atomic == INSTANCE AtomicValue WITH
    Apply <- Applied, reg <- committed, call <- AbstractCall
RefinesAtomic == Atomic!Spec
=============================================================================
