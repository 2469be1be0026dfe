------------------------------ MODULE UaSemaphore ------------------------------
(***************************************************************************)
(* include/uasemaphore.h: a count, a mutex and a condition variable.  Each  *)
(* method holds the mutex from its first line to its last, except while it  *)
(* waits on the condition: one step per critical section.                   *)
(***************************************************************************)
EXTENDS Integers, FiniteSets

CONSTANTS
    Callers,      \* the threads that use the semaphore
    CountSize,    \* 2^32 in the code, where the sums of post() wrap
    Initial,      \* initialValue
    MaxRange,     \* m_maxRange
    Releases      \* the counts that are passed to post()

ASSUME CountsAssumption ==
    /\ CountSize \in Nat \ {0}
    /\ MaxRange \in 0 .. CountSize - 1
    /\ Initial \in 0 .. MaxRange
    /\ Releases \subseteq 0 .. CountSize - 1

VARIABLES
    count,        \* m_count
    inside,       \* the method a caller waits in: "none", "wait" or "timedWait"
    asleep,       \* the callers on m_condition that nobody has notified
    woken,        \* the callers that were notified and must take the mutex again
    balance       \* tokens posted with Good, less tokens taken

semVars == <<count, inside, asleep, woken, balance>>

SemTypeOK ==
    /\ count \in 0 .. CountSize - 1
    /\ inside \in [Callers -> {"none", "wait", "timedWait"}]
    /\ asleep \subseteq Callers /\ woken \subseteq Callers
    /\ balance \in Int

SemInit ==
    /\ count = Initial
    /\ inside = [c \in Callers |-> "none"]
    /\ asleep = {} /\ woken = {}
    /\ balance = 0

-----------------------------------------------------------------------------
(* wait() and timedWait()                                                  *)

BugTakesToken == UNCHANGED count /\ balance' = balance - 1
TakesToken == count' = count - 1 /\ balance' = balance - 1

\* The caller returns Good with a token.
Takes(c) ==
    /\ count > 0
    /\ TakesToken
    /\ inside' = [inside EXCEPT ![c] = "none"]
    /\ asleep' = asleep \ {c} /\ woken' = woken \ {c}

\* The predicate is false: the mutex goes and the caller sleeps, in one step.
Sleeps(c, method) ==
    /\ count = 0
    /\ inside' = [inside EXCEPT ![c] = method]
    /\ asleep' = asleep \cup {c} /\ woken' = woken \ {c}
    /\ UNCHANGED <<count, balance>>

CallWait(c, method) ==
    /\ inside[c] = "none"
    /\ Takes(c) \/ Sleeps(c, method)

\* A wake-up, notified or spurious, tests the predicate again.
Wakes(c) ==
    /\ inside[c] # "none"
    /\ Takes(c) \/ Sleeps(c, inside[c])

\* wait_for() tests the predicate a last time when the time is over.
TimesOut(c) ==
    /\ inside[c] = "timedWait"
    /\ \/ Takes(c)
       \/ /\ count = 0
          /\ inside' = [inside EXCEPT ![c] = "none"]
          /\ asleep' = asleep \ {c} /\ woken' = woken \ {c}
          /\ UNCHANGED <<count, balance>>

-----------------------------------------------------------------------------
(* post()                                                                  *)

Sum(k) == (count + k) % CountSize

BugNotifies ==
    IF asleep = {} THEN UNCHANGED <<woken, asleep>>
    ELSE \E c \in asleep : woken' = woken \cup {c} /\ asleep' = asleep \ {c}
Notifies == woken' = woken \cup asleep /\ asleep' = {}

Post(c, k) ==
    /\ inside[c] = "none"
    /\ \/ /\ Sum(k) > MaxRange           \* BadInvalidArgument
          /\ UNCHANGED semVars
       \/ /\ Sum(k) <= MaxRange
          /\ count' = Sum(k) /\ balance' = balance + k
          /\ Notifies
          /\ UNCHANGED inside

-----------------------------------------------------------------------------
(* What the semaphore promises                                             *)

\* A caller on the condition is there because of its own call.
WaitersAreInside ==
    /\ asleep \cap woken = {}
    /\ \A c \in Callers : c \in asleep \cup woken <=> inside[c] # "none"

\* post() wakes everybody: no caller sleeps on while a token is left for it,
\* however many tokens one post() brings and whoever takes the others first.
NobodyOverlooked == asleep # {} => count = 0

\* No wait() returns Good without a token of its own, from the constructor or
\* from a post() that was accepted.  A post() whose sum wraps loses tokens, and
\* neither it nor a wake-up makes one.
TokensNotInvented == count <= Initial + balance

\* The count stays in the range of the constructor, also when the sum wraps.
CountInRange == count <= MaxRange

SemInv ==
    /\ SemTypeOK /\ WaitersAreInside
    /\ NobodyOverlooked /\ TokensNotInvented /\ CountInRange
=============================================================================
