---------------------------- MODULE UaThreadProofs ----------------------------
(***************************************************************************)
(* Theorems about UaSemaphore and UaThread, for any threads, any width of   *)
(* the counts, any range and any counts passed to post().                   *)
(***************************************************************************)
EXTENDS UaThread, TLAPS

-----------------------------------------------------------------------------
(* The semaphore.                                                          *)

\* A count as the constructor leaves it.
LEMMA SemInvInit == SemInit => SemInv
  BY CountsAssumption DEF SemInit, SemInv, SemTypeOK, WaitersAreInside, NobodyOverlooked,
    TokensNotInvented, CountInRange

\* A caller that takes a token finds nobody asleep, and leaves one token less.
LEMMA TakesKeeps ==
    ASSUME SemInv, NEW c \in Callers, Takes(c)
    PROVE  SemInv'
<1>1. asleep = {} /\ asleep' = {} /\ woken' = woken \ {c}
  BY DEF SemInv, NobodyOverlooked, SemTypeOK, Takes
<1>2. count' = count - 1 /\ balance' = balance - 1 /\ count > 0
  BY DEF Takes, TakesToken
<1>3. inside' = [inside EXCEPT ![c] = "none"]
  BY DEF Takes
<1>4. SemTypeOK'
  BY <1>1, <1>2, <1>3, CountsAssumption DEF SemInv, SemTypeOK
<1>5. WaitersAreInside'
  BY <1>1, <1>3 DEF SemInv, SemTypeOK, WaitersAreInside
<1>6. NobodyOverlooked'
  BY <1>1 DEF NobodyOverlooked
<1>7. TokensNotInvented' /\ CountInRange'
  BY <1>2, CountsAssumption DEF SemInv, SemTypeOK, TokensNotInvented, CountInRange
<1>8. QED
  BY <1>4, <1>5, <1>6, <1>7 DEF SemInv

\* A caller goes to sleep only when there is no token.
LEMMA SleepsKeeps ==
    ASSUME SemInv, NEW c \in Callers, NEW method \in {"wait", "timedWait"}, Sleeps(c, method)
    PROVE  SemInv'
<1>1. /\ count = 0 /\ UNCHANGED <<count, balance>>
      /\ inside' = [inside EXCEPT ![c] = method]
      /\ asleep' = asleep \cup {c} /\ woken' = woken \ {c}
  BY DEF Sleeps
<1>2. SemTypeOK'
  BY <1>1 DEF SemInv, SemTypeOK
<1>3. WaitersAreInside'
  BY <1>1 DEF SemInv, SemTypeOK, WaitersAreInside
<1>4. NobodyOverlooked' /\ TokensNotInvented' /\ CountInRange'
  BY <1>1 DEF SemInv, NobodyOverlooked, TokensNotInvented, CountInRange
<1>5. QED
  BY <1>2, <1>3, <1>4 DEF SemInv

\* A time-out without a token takes nothing.
LEMMA TimesOutKeeps ==
    ASSUME SemInv, NEW c \in Callers, TimesOut(c)
    PROVE  SemInv'
<1>1. CASE Takes(c)
  BY <1>1, TakesKeeps
<1>2. CASE /\ count = 0
           /\ inside' = [inside EXCEPT ![c] = "none"]
           /\ asleep' = asleep \ {c} /\ woken' = woken \ {c}
           /\ UNCHANGED <<count, balance>>
  <2>1. SemTypeOK'
    BY <1>2 DEF SemInv, SemTypeOK
  <2>2. WaitersAreInside'
    BY <1>2 DEF SemInv, SemTypeOK, WaitersAreInside
  <2>3. NobodyOverlooked' /\ TokensNotInvented' /\ CountInRange'
    BY <1>2 DEF SemInv, NobodyOverlooked, TokensNotInvented, CountInRange
  <2>4. QED
    BY <2>1, <2>2, <2>3 DEF SemInv
<1>3. QED
  BY <1>1, <1>2 DEF TimesOut

\* The sum of post(), wrapped or not, is a count, and at most the sum of the two.
LEMMA SumWraps ==
    ASSUME SemInv, NEW k \in Releases
    PROVE  Sum(k) \in 0 .. CountSize - 1 /\ Sum(k) <= count + k /\ k \in Int
<1>1. CountSize \in Nat \ {0} /\ count \in Nat /\ k \in Nat
  BY CountsAssumption DEF SemInv, SemTypeOK
<1>2. \A a \in Nat, n \in Nat \ {0} : a % n \in 0 .. n - 1 /\ a % n <= a
  OBVIOUS
<1>3. count + k \in Nat
  BY <1>1
<1>4. (count + k) % CountSize \in 0 .. CountSize - 1 /\ (count + k) % CountSize <= count + k
  BY <1>1, <1>2, <1>3
<1>5. QED
  BY <1>1, <1>4 DEF Sum

\* post() wakes everybody, and a sum that wraps only loses tokens.
LEMMA PostKeeps ==
    ASSUME SemInv, NEW c \in Callers, NEW k \in Releases, Post(c, k)
    PROVE  SemInv'
<1>1. CASE UNCHANGED semVars
  BY <1>1 DEF semVars, SemInv, SemTypeOK, WaitersAreInside, NobodyOverlooked,
    TokensNotInvented, CountInRange
<1>2. CASE /\ Sum(k) <= MaxRange
           /\ count' = Sum(k) /\ balance' = balance + k
           /\ Notifies
           /\ UNCHANGED inside
  <2>1. woken' = woken \cup asleep /\ asleep' = {} /\ inside' = inside
    BY <1>2 DEF Notifies
  <2>2. SemTypeOK'
    BY <1>2, <2>1, SumWraps DEF SemInv, SemTypeOK
  <2>3. WaitersAreInside'
    BY <2>1 DEF SemInv, WaitersAreInside
  <2>4. NobodyOverlooked' /\ CountInRange'
    BY <1>2, <2>1 DEF NobodyOverlooked, CountInRange
  <2>5. TokensNotInvented'
    BY <1>2, SumWraps, CountsAssumption DEF SemInv, SemTypeOK, TokensNotInvented
  <2>6. QED
    BY <2>2, <2>3, <2>4, <2>5 DEF SemInv
<1>3. QED
  BY <1>1, <1>2 DEF Post

\* What a woken caller does keeps the invariant, whatever woke it.
LEMMA WakesKeeps ==
    ASSUME SemInv, NEW c \in Callers, Wakes(c)
    PROVE  SemInv'
<1>1. inside[c] \in {"wait", "timedWait"}
  BY DEF Wakes, SemInv, SemTypeOK
<1>2. QED
  BY <1>1, TakesKeeps, SleepsKeeps DEF Wakes

-----------------------------------------------------------------------------
(* The threads.                                                            *)

\* Objects that were never started satisfy the invariant.
LEMMA ThreadInvInit == Init => ThreadInv
<1> SUFFICES ASSUME Init PROVE ThreadInv
  OBVIOUS
<1>1. SemInv
  BY SemInvInit DEF Init
<1>2. TypeOK
  <2>1. SemTypeOK
    BY <1>1 DEF SemInv
  <2>2. QED
    BY <2>1, CallersAssumption DEF Init, TypeOK, Free
<1>3. FlagsFollowRunner /\ WaitersRun /\ PartsOutlive /\ OwnerIsOut /\ NoUseAfterDestroy
  BY CallersAssumption DEF Init, SemInit, FlagsFollowRunner, WaitersRun, PartsOutlive,
    OwnerIsOut, NoUseAfterDestroy
<1>4. QED
  BY <1>1, <1>2, <1>3 DEF ThreadInv

\* Steps that leave the semaphore alone keep its part of the invariant.
LEMMA SemKept ==
    ASSUME SemInv, WaitersRun, OwnerIsOut, UNCHANGED semVars
    PROVE  SemInv' /\ OwnerIsOut' /\ inside' = inside
  BY DEF semVars, SemInv, SemTypeOK, WaitersAreInside, NobodyOverlooked, TokensNotInvented,
    CountInRange, OwnerIsOut

\* The owner's steps: it destroys nothing that a thread still needs.
LEMMA OwnerKeeps ==
    ASSUME ThreadInv, NEW t \in Threads, OwnerStep(t)
    PROVE  ThreadInv'
<1> USE CallersAssumption
<1>0. /\ TypeOK /\ SemInv /\ FlagsFollowRunner /\ WaitersRun /\ PartsOutlive
      /\ OwnerIsOut /\ NoUseAfterDestroy
  BY DEF ThreadInv
<1>1. UNCHANGED semVars /\ misuse' = misuse
  BY DEF OwnerStep, Start, CallJoin, JoinReturns, Destroy, DestroyEnds
<1>2. SemInv' /\ OwnerIsOut' /\ inside' = inside /\ NoUseAfterDestroy'
  BY <1>0, <1>1, SemKept DEF NoUseAfterDestroy
<1>3. SemTypeOK'
  BY <1>2 DEF SemInv
<1>4. CASE Start(t)
  <2>1. /\ owner = Free /\ object[t] = "alive" /\ ~joinable[t] /\ starts[t] < MaxStarts
        /\ starts' = [starts EXCEPT ![t] = @ + 1]
        /\ running' = [running EXCEPT ![t] = TRUE]
        /\ UNCHANGED <<object, finished, owner, misuse>>
    BY <1>4 DEF Start
  <2>2. \/ /\ joinable' = [joinable EXCEPT ![t] = TRUE]
           /\ runner' = [runner EXCEPT ![t] = "run"]
           /\ calls' = [calls EXCEPT ![t] = MaxCalls]
        \/ UNCHANGED <<joinable, runner, calls>>
    BY <1>4 DEF Start
  <2>3. TypeOK'
    <3>1. starts' \in [Threads -> 0 .. MaxStarts] /\ running' \in [Threads -> BOOLEAN]
      BY <1>0, <2>1 DEF TypeOK
    <3>2. joinable' \in [Threads -> BOOLEAN]
      BY <1>0, <2>2 DEF TypeOK
    <3>3. calls' \in [Callers -> 0 .. MaxCalls]
      BY <1>0, <2>2 DEF TypeOK
    <3>4. runner' \in [Threads -> {"none", "run", "returned", "cleared", "over"}]
      BY <1>0, <2>2 DEF TypeOK
    <3>5. QED
      BY <1>0, <1>3, <2>1, <3>1, <3>2, <3>3, <3>4 DEF TypeOK
  <2>4. runner[t] \in {"none", "over"}
    BY <1>0, <2>1 DEF TypeOK, FlagsFollowRunner
  <2>5. FlagsFollowRunner'
    BY <1>0, <2>1, <2>2, <2>4 DEF TypeOK, FlagsFollowRunner
  <2>6. WaitersRun'
    BY <1>0, <1>2, <2>2 DEF TypeOK, WaitersRun
  <2>7. PartsOutlive'
    BY <1>0, <2>1, <2>2 DEF TypeOK, PartsOutlive
  <2>8. QED
    BY <1>2, <2>3, <2>5, <2>6, <2>7 DEF ThreadInv
<1>5. CASE CallJoin(t)
  <2>1. /\ owner = Free /\ owner' = [does |-> "wait", on |-> t]
        /\ UNCHANGED <<object, joinable, runner, running, finished, starts, calls, misuse>>
    BY <1>5 DEF CallJoin
  <2>2. TypeOK'
    BY <1>0, <1>3, <2>1 DEF TypeOK
  <2>3. FlagsFollowRunner' /\ WaitersRun'
    BY <1>0, <1>2, <2>1 DEF FlagsFollowRunner, WaitersRun
  <2>4. PartsOutlive'
    BY <1>0, <2>1 DEF PartsOutlive, Free
  <2>5. QED
    BY <1>2, <2>2, <2>3, <2>4 DEF ThreadInv
<1>6. CASE JoinReturns(t)
  <2>1. /\ owner = [does |-> "wait", on |-> t] /\ owner' = Free
        /\ runner[t] = "over" /\ joinable' = [joinable EXCEPT ![t] = FALSE]
        /\ UNCHANGED <<object, runner, running, finished, starts, calls, misuse>>
    BY <1>6 DEF JoinReturns, Joins
  <2>2. TypeOK'
    BY <1>0, <1>3, <2>1 DEF TypeOK
  <2>3. FlagsFollowRunner' /\ WaitersRun'
    BY <1>0, <1>2, <2>1 DEF TypeOK, FlagsFollowRunner, WaitersRun
  <2>4. PartsOutlive'
    BY <1>0, <2>1 DEF TypeOK, PartsOutlive
  <2>5. QED
    BY <1>2, <2>2, <2>3, <2>4 DEF ThreadInv
<1>7. CASE Destroy(t)
  <2>1. /\ owner = Free
        /\ ~running[t] \/ ~joinable[t]
        /\ object' = [object EXCEPT ![t] = "base"]
        /\ owner' = [does |-> "destroy", on |-> t]
        /\ UNCHANGED <<joinable, runner, running, finished, starts, calls, misuse>>
    BY <1>7 DEF Destroy, Quiet
  <2>2. TypeOK'
    BY <1>0, <1>3, <2>1 DEF TypeOK
  <2>3. FlagsFollowRunner' /\ WaitersRun'
    BY <1>0, <1>2, <2>1 DEF FlagsFollowRunner, WaitersRun
  <2>4. runner[t] \notin {"run", "returned"}
    BY <1>0, <2>1 DEF FlagsFollowRunner
  <2>5. \A u \in Threads : object[u] # "base"
    <3>1. owner.does # "destroy"
      BY <2>1 DEF Free
    <3>2. QED
      BY <1>0, <3>1 DEF PartsOutlive
  <2>6. PartsOutlive'
    BY <1>0, <2>1, <2>4, <2>5 DEF TypeOK, PartsOutlive
  <2>7. QED
    BY <1>2, <2>2, <2>3, <2>6 DEF ThreadInv
<1>8. CASE DestroyEnds(t)
  <2>1. /\ owner = [does |-> "destroy", on |-> t] /\ owner' = Free
        /\ object' = [object EXCEPT ![t] = "gone"]
        /\ UNCHANGED <<runner, running, finished, starts, calls, misuse>>
    BY <1>8 DEF DestroyEnds
  <2>2. \/ runner[t] = "over" /\ joinable' = [joinable EXCEPT ![t] = FALSE]
        \/ ~joinable[t] /\ joinable' = joinable
    BY <1>8 DEF DestroyEnds, DestructorJoins, Joins
  <2>3. TypeOK'
    BY <1>0, <1>3, <2>1, <2>2 DEF TypeOK
  <2>4. FlagsFollowRunner' /\ WaitersRun'
    BY <1>0, <1>2, <2>1, <2>2 DEF TypeOK, FlagsFollowRunner, WaitersRun
  <2>5. runner[t] \notin {"run", "returned"} /\ ~joinable'[t]
    BY <1>0, <2>2 DEF TypeOK, FlagsFollowRunner
  <2>6. \A u \in Threads \ {t} : object[u] # "base"
    BY <1>0, <2>1 DEF PartsOutlive
  <2>7. PartsOutlive'
    BY <1>0, <2>1, <2>2, <2>5, <2>6 DEF TypeOK, PartsOutlive
  <2>8. QED
    BY <1>2, <2>3, <2>4, <2>7 DEF ThreadInv
<1>9. QED
  BY <1>4, <1>5, <1>6, <1>7, <1>8 DEF OwnerStep

\* A step of run() finds the derived part, and one after it the flags.
LEMMA UsesWhatLives ==
    ASSUME ThreadInv, NEW t \in Threads
    PROVE  /\ runner[t] \in {"run", "returned"} => object[t] = "alive"
           /\ runner[t] = "cleared" => object[t] \in {"alive", "base"}
<1>1. TypeOK /\ FlagsFollowRunner /\ PartsOutlive
  BY DEF ThreadInv
<1>2. QED
  BY <1>1 DEF TypeOK, FlagsFollowRunner, PartsOutlive

\* The thread's own steps.
LEMMA ThreadKeeps ==
    ASSUME ThreadInv, NEW t \in Threads, ThreadStep(t)
    PROVE  ThreadInv'
<1> USE CallersAssumption
<1>0. /\ TypeOK /\ SemInv /\ FlagsFollowRunner /\ WaitersRun /\ PartsOutlive
      /\ OwnerIsOut /\ NoUseAfterDestroy
  BY DEF ThreadInv
<1>1. ASSUME Wakes(t) \/ TimesOut(t), runner[t] = "run", Uses(t, {"alive"}),
             UNCHANGED <<object, joinable, runner, running, finished, starts, calls, owner>>
      PROVE  ThreadInv'
  <2>1. SemInv'
    BY <1>0, <1>1, WakesKeeps, TimesOutKeeps
  <2>2. misuse' = {}
    BY <1>0, <1>1, UsesWhatLives DEF Uses, NoUseAfterDestroy
  <2>3. TypeOK'
    BY <1>0, <1>1, <2>1, <2>2 DEF TypeOK, SemInv
  <2>4. \A c \in Callers \ {t} : inside'[c] = inside[c]
    BY <1>0, <1>1 DEF TypeOK, SemTypeOK, Wakes, TimesOut, Takes, Sleeps
  <2>5. WaitersRun' /\ OwnerIsOut'
    BY <1>0, <1>1, <2>4 DEF WaitersRun, OwnerIsOut
  <2>6. FlagsFollowRunner' /\ PartsOutlive'
    BY <1>0, <1>1 DEF FlagsFollowRunner, PartsOutlive
  <2>7. QED
    BY <2>1, <2>2, <2>3, <2>5, <2>6 DEF ThreadInv, NoUseAfterDestroy
<1>2. CASE WakesIn(t) \/ TimesOutIn(t)
  BY <1>1, <1>2 DEF WakesIn, TimesOutIn
<1>3. CASE RunReturns(t)
  <2>1. /\ runner[t] = "run" /\ inside[t] = "none"
        /\ runner' = [runner EXCEPT ![t] = "returned"]
        /\ UNCHANGED <<object, joinable, running, finished, starts, calls, owner>>
    BY <1>3 DEF RunReturns
  <2>2. misuse' = {}
    BY <1>0, <1>3, UsesWhatLives DEF RunReturns, Uses, NoUseAfterDestroy
  <2>3. SemInv' /\ OwnerIsOut' /\ inside' = inside
    BY <1>0, <1>3, SemKept DEF RunReturns
  <2>4. TypeOK'
    BY <1>0, <2>1, <2>2, <2>3 DEF TypeOK, SemInv
  <2>5. WaitersRun' /\ FlagsFollowRunner' /\ PartsOutlive'
    BY <1>0, <2>1, <2>3 DEF TypeOK, WaitersRun, FlagsFollowRunner, PartsOutlive
  <2>6. QED
    BY <2>2, <2>3, <2>4, <2>5 DEF ThreadInv, NoUseAfterDestroy
<1>4. CASE ClearRunning(t)
  <2>1. /\ runner[t] = "returned" /\ runner' = [runner EXCEPT ![t] = "cleared"]
        /\ running' = [running EXCEPT ![t] = FALSE]
        /\ UNCHANGED <<object, joinable, finished, starts, calls, owner>>
    BY <1>4 DEF ClearRunning
  <2>2. misuse' = {}
    BY <1>0, <1>4, UsesWhatLives DEF ClearRunning, Uses, NoUseAfterDestroy
  <2>3. SemInv' /\ OwnerIsOut' /\ inside' = inside
    BY <1>0, <1>4, SemKept DEF ClearRunning
  <2>4. TypeOK'
    BY <1>0, <2>1, <2>2, <2>3 DEF TypeOK, SemInv
  <2>5. WaitersRun' /\ PartsOutlive'
    BY <1>0, <2>1, <2>3 DEF TypeOK, WaitersRun, PartsOutlive
  <2>6. FlagsFollowRunner'
    BY <1>0, <2>1 DEF TypeOK, FlagsFollowRunner
  <2>7. QED
    BY <2>2, <2>3, <2>4, <2>5, <2>6 DEF ThreadInv, NoUseAfterDestroy
<1>5. CASE SetFinished(t)
  <2>1. /\ runner[t] = "cleared" /\ runner' = [runner EXCEPT ![t] = "over"]
        /\ finished' = [finished EXCEPT ![t] = TRUE]
        /\ UNCHANGED <<object, joinable, running, starts, calls, owner>>
    BY <1>5 DEF SetFinished
  <2>2. misuse' = {}
    BY <1>0, <1>5, UsesWhatLives DEF SetFinished, Uses, NoUseAfterDestroy
  <2>3. SemInv' /\ OwnerIsOut' /\ inside' = inside
    BY <1>0, <1>5, SemKept DEF SetFinished
  <2>4. TypeOK'
    BY <1>0, <2>1, <2>2, <2>3 DEF TypeOK, SemInv
  <2>5. WaitersRun' /\ PartsOutlive'
    BY <1>0, <2>1, <2>3 DEF TypeOK, WaitersRun, PartsOutlive
  <2>6. FlagsFollowRunner'
    BY <1>0, <2>1 DEF TypeOK, FlagsFollowRunner
  <2>7. QED
    BY <2>2, <2>3, <2>4, <2>5, <2>6 DEF ThreadInv, NoUseAfterDestroy
<1>6. QED
  BY <1>2, <1>3, <1>4, <1>5 DEF ThreadStep

\* A semaphore call of run() or of the owner.
LEMMA CallKeeps ==
    ASSUME ThreadInv, NEW c \in Callers, Call(c)
    PROVE  ThreadInv'
<1> USE CallersAssumption
<1>0. /\ TypeOK /\ SemInv /\ FlagsFollowRunner /\ WaitersRun /\ PartsOutlive
      /\ OwnerIsOut /\ NoUseAfterDestroy
  BY DEF ThreadInv
<1>1. /\ calls[c] > 0 /\ calls' = [calls EXCEPT ![c] = @ - 1]
      /\ UNCHANGED <<object, joinable, runner, running, finished, starts, owner>>
  BY DEF Call
<1>2. SemInv'
  <2>1. CASE \E k \in Releases : Post(c, k)
    BY <1>0, <2>1, PostKeeps
  <2>2. CASE \E method \in {"wait", "timedWait"} : CallWait(c, method)
    BY <1>0, <2>2, TakesKeeps, SleepsKeeps DEF CallWait
  <2>3. QED
    BY <2>1, <2>2 DEF Call
<1>3. misuse' = {}
  BY <1>0, UsesWhatLives DEF Call, Uses, NoUseAfterDestroy
<1>4. TypeOK'
  <2>1. calls' \in [Callers -> 0 .. MaxCalls]
    BY <1>0, <1>1 DEF TypeOK
  <2>2. QED
    BY <1>0, <1>1, <1>2, <1>3, <2>1 DEF TypeOK, SemInv
<1>5. \A d \in Callers : inside'[d] = inside[d] \/ (d = c /\ c # Owner)
  BY <1>0 DEF Call, Post, CallWait, Takes, Sleeps, TypeOK, SemTypeOK, semVars
<1>6. c # Owner => runner[c] = "run"
  BY DEF Call
<1>7. WaitersRun' /\ OwnerIsOut'
  BY <1>0, <1>1, <1>5, <1>6 DEF WaitersRun, OwnerIsOut
<1>8. FlagsFollowRunner' /\ PartsOutlive'
  BY <1>0, <1>1 DEF FlagsFollowRunner, PartsOutlive
<1>9. QED
  BY <1>2, <1>3, <1>4, <1>7, <1>8 DEF ThreadInv, NoUseAfterDestroy

\* The inductive invariant is kept by every step.
LEMMA ThreadInvNext == ThreadInv /\ [Next]_vars => ThreadInv'
<1> SUFFICES ASSUME ThreadInv, [Next]_vars PROVE ThreadInv'
  OBVIOUS
<1>1. CASE UNCHANGED vars
  <2>1. UNCHANGED semVars /\ UNCHANGED threadVars
    BY <1>1 DEF vars
  <2>2. SemInv' /\ OwnerIsOut' /\ inside' = inside
    BY <2>1, SemKept DEF ThreadInv
  <2>3. QED
    BY <2>1, <2>2 DEF threadVars, ThreadInv, TypeOK, SemInv, FlagsFollowRunner, WaitersRun,
      PartsOutlive, NoUseAfterDestroy
<1>2. QED
  BY <1>1, OwnerKeeps, ThreadKeeps, CallKeeps DEF Next

-----------------------------------------------------------------------------
(* Theorems.                                                               *)

\* The inductive invariant of semaphore, flags and parts.
THEOREM ThreadsInvariant == Spec => []ThreadInv
  BY ThreadInvInit, ThreadInvNext, PTL DEF Spec

\* No wake-up is lost: a caller sleeps only while there is no token.
THEOREM NobodyIsOverlooked == Spec => []NobodyOverlooked
<1>1. ThreadInv => NobodyOverlooked
  BY DEF ThreadInv, SemInv
<1>2. QED
  BY <1>1, ThreadsInvariant, PTL

\* Every Good wait() has a token of its own, also when the sum of a post() wraps.
THEOREM TokensAreReal == Spec => []TokensNotInvented
<1>1. ThreadInv => TokensNotInvented
  BY DEF ThreadInv, SemInv
<1>2. QED
  BY <1>1, ThreadsInvariant, PTL

\* Whoever destroys an object by what running() says destroys it under nobody.
THEOREM DestroyedUnderNobody == Spec => []NoUseAfterDestroy
<1>1. ThreadInv => NoUseAfterDestroy
  BY DEF ThreadInv
<1>2. QED
  BY <1>1, ThreadsInvariant, PTL
=============================================================================
