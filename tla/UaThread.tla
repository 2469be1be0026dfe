------------------------------- MODULE UaThread -------------------------------
(***************************************************************************)
(* include/uathread.h: objects that run a derived class's run() in a thread *)
(* of their own, here with run()s that share one UaSemaphore.  One owner    *)
(* starts, waits for and destroys them.                                     *)
(***************************************************************************)
EXTENDS UaSemaphore

CONSTANTS
    Threads,      \* UaThread objects
    Owner,        \* the thread that owns them
    MaxStarts,    \* start() calls per object
    MaxCalls      \* semaphore calls of one run(), and of the owner

ASSUME CallersAssumption ==
    /\ Callers = Threads \cup {Owner} /\ Owner \notin Threads
    /\ MaxStarts \in Nat /\ MaxCalls \in Nat

VARIABLES
    object,       \* "alive", "base" (the derived part is destroyed), "gone"
    joinable,     \* m_thread.joinable()
    runner,       \* the thread: "none", "run", "returned", "cleared" or "over"
    running,      \* m_running
    finished,     \* m_finished
    starts,       \* how often start() was called
    calls,        \* semaphore calls left
    owner,        \* what the owner waits for: [does |-> "wait" / "destroy", on |-> t]
    misuse        \* objects that were used after their part was destroyed

threadVars == <<object, joinable, runner, running, finished, starts, calls, owner, misuse>>
vars == <<semVars, threadVars>>

Free == [does |-> "nothing", on |-> Owner]

TypeOK ==
    /\ SemTypeOK
    /\ object \in [Threads -> {"alive", "base", "gone"}]
    /\ joinable \in [Threads -> BOOLEAN]
    /\ runner \in [Threads -> {"none", "run", "returned", "cleared", "over"}]
    /\ running \in [Threads -> BOOLEAN] /\ finished \in [Threads -> BOOLEAN]
    /\ starts \in [Threads -> 0 .. MaxStarts]
    /\ calls \in [Callers -> 0 .. MaxCalls]
    /\ owner \in [does : {"wait", "destroy"}, on : Threads] \cup {Free}
    /\ misuse \subseteq Threads

Init ==
    /\ SemInit
    /\ object = [t \in Threads |-> "alive"]
    /\ joinable = [t \in Threads |-> FALSE]
    /\ runner = [t \in Threads |-> "none"]
    /\ running = [t \in Threads |-> FALSE] /\ finished = [t \in Threads |-> FALSE]
    /\ starts = [t \in Threads |-> 0]
    /\ calls = [c \in Callers |-> IF c = Owner THEN MaxCalls ELSE 0]
    /\ owner = Free
    /\ misuse = {}

-----------------------------------------------------------------------------
(* The owner                                                               *)

\* The flag goes up before there is a thread, and stays up if std::thread throws.
\* Assigning to a joinable m_thread would terminate the program: an owner waits
\* before it starts a thread again.
Start(t) ==
    /\ owner = Free
    /\ object[t] = "alive" /\ ~joinable[t]
    /\ starts[t] < MaxStarts
    /\ starts' = [starts EXCEPT ![t] = @ + 1]
    /\ running' = [running EXCEPT ![t] = TRUE]
    /\ \/ /\ joinable' = [joinable EXCEPT ![t] = TRUE]
          /\ runner' = [runner EXCEPT ![t] = "run"]
          /\ calls' = [calls EXCEPT ![t] = MaxCalls]
       \/ UNCHANGED <<joinable, runner, calls>>
    /\ UNCHANGED <<semVars, object, finished, owner, misuse>>

\* wait() joins without a limit, whatever time it is given; without a thread it
\* returns at once.
CallJoin(t) ==
    /\ owner = Free
    /\ object[t] = "alive" /\ joinable[t]
    /\ owner' = [does |-> "wait", on |-> t]
    /\ UNCHANGED <<semVars, object, joinable, runner, running, finished, starts, calls, misuse>>

\* join() returns when the thread has ended.
Joins(t) == runner[t] = "over" /\ joinable' = [joinable EXCEPT ![t] = FALSE]
JoinReturns(t) ==
    /\ owner = [does |-> "wait", on |-> t]
    /\ Joins(t)
    /\ owner' = Free
    /\ UNCHANGED <<semVars, object, runner, running, finished, starts, calls, misuse>>

\* An owner destroys an object that it did not start, that it waited for, or
\* that running() says has stopped.  The derived part goes first.
BugQuiet(t) == finished[t] \/ ~joinable[t]
Quiet(t) == ~running[t] \/ ~joinable[t]
Destroy(t) ==
    /\ owner = Free
    /\ object[t] = "alive" /\ Quiet(t)
    /\ object' = [object EXCEPT ![t] = "base"]
    /\ owner' = [does |-> "destroy", on |-> t]
    /\ UNCHANGED <<semVars, joinable, runner, running, finished, starts, calls, misuse>>

\* ~UaThread joins what is still joinable; then the flags are gone.
DestructorJoins(t) ==
    \/ joinable[t] /\ Joins(t)
    \/ ~joinable[t] /\ UNCHANGED joinable
DestroyEnds(t) ==
    /\ owner = [does |-> "destroy", on |-> t]
    /\ DestructorJoins(t)
    /\ object' = [object EXCEPT ![t] = "gone"]
    /\ owner' = Free
    /\ UNCHANGED <<semVars, runner, running, finished, starts, calls, misuse>>

-----------------------------------------------------------------------------
(* The thread                                                              *)

\* run() needs the derived part; the lines after it need the flags only.
Uses(t, parts) == misuse' = misuse \cup (IF object[t] \in parts THEN {} ELSE {t})

\* A method of the semaphore that run(), or the free owner, calls.
Call(c) ==
    /\ IF c = Owner THEN owner = Free /\ UNCHANGED misuse
                    ELSE runner[c] = "run" /\ Uses(c, {"alive"})
    /\ calls[c] > 0
    /\ calls' = [calls EXCEPT ![c] = @ - 1]
    /\ \/ \E k \in Releases : Post(c, k)
       \/ c # Owner /\ \E method \in {"wait", "timedWait"} : CallWait(c, method)
    /\ UNCHANGED <<object, joinable, runner, running, finished, starts, owner>>

\* A wake-up in run().
WakesIn(t) ==
    /\ runner[t] = "run"
    /\ Wakes(t)
    /\ Uses(t, {"alive"})
    /\ UNCHANGED <<object, joinable, runner, running, finished, starts, calls, owner>>

TimesOutIn(t) ==
    /\ runner[t] = "run"
    /\ TimesOut(t)
    /\ Uses(t, {"alive"})
    /\ UNCHANGED <<object, joinable, runner, running, finished, starts, calls, owner>>

RunReturns(t) ==
    /\ runner[t] = "run" /\ inside[t] = "none"
    /\ runner' = [runner EXCEPT ![t] = "returned"]
    /\ Uses(t, {"alive"})
    /\ UNCHANGED <<semVars, object, joinable, running, finished, starts, calls, owner>>

ClearRunning(t) ==
    /\ runner[t] = "returned"
    /\ runner' = [runner EXCEPT ![t] = "cleared"]
    /\ running' = [running EXCEPT ![t] = FALSE]
    /\ Uses(t, {"alive", "base"})
    /\ UNCHANGED <<semVars, object, joinable, finished, starts, calls, owner>>

SetFinished(t) ==
    /\ runner[t] = "cleared"
    /\ runner' = [runner EXCEPT ![t] = "over"]
    /\ finished' = [finished EXCEPT ![t] = TRUE]
    /\ Uses(t, {"alive", "base"})
    /\ UNCHANGED <<semVars, object, joinable, running, starts, calls, owner>>

-----------------------------------------------------------------------------
OwnerStep(t) == Start(t) \/ CallJoin(t) \/ JoinReturns(t) \/ Destroy(t) \/ DestroyEnds(t)

ThreadStep(t) ==
    WakesIn(t) \/ TimesOutIn(t) \/ RunReturns(t) \/ ClearRunning(t) \/ SetFinished(t)

Next ==
    \/ \E t \in Threads : OwnerStep(t) \/ ThreadStep(t)
    \/ \E c \in Callers : Call(c)

\* The scheduler runs a thread that can go on, a time-out comes, a run() returns
\* and a join notices it.  Nobody has to start, post, wait or destroy.
Fairness ==
    \A t \in Threads :
        /\ WF_vars(t \in woken /\ WakesIn(t))
        /\ WF_vars(TimesOutIn(t))
        /\ WF_vars(RunReturns(t))
        /\ WF_vars(ClearRunning(t)) /\ WF_vars(SetFinished(t))
        /\ WF_vars(JoinReturns(t)) /\ WF_vars(DestroyEnds(t))

Spec == Init /\ [][Next]_vars
FairSpec == Spec /\ Fairness

-----------------------------------------------------------------------------
(* Properties                                                              *)

\* run() is over when running() says so of a started object, and the flags are
\* set in the order of the code.
FlagsFollowRunner ==
    \A t \in Threads :
        /\ runner[t] \in {"run", "returned"} => running[t] /\ joinable[t]
        /\ runner[t] = "cleared" => ~running[t] /\ joinable[t]
        /\ joinable[t] => runner[t] # "none"
        /\ runner[t] = "over" => finished[t]

\* Nobody waits in a semaphore for a run() that is not running.
WaitersRun == \A t \in Threads : inside[t] # "none" => runner[t] = "run"

\* Base and derived part outlive what uses them.
PartsOutlive ==
    \A t \in Threads :
        /\ runner[t] \in {"run", "returned"} => object[t] = "alive"
        /\ object[t] = "gone" => ~joinable[t]
        /\ object[t] = "base" => owner = [does |-> "destroy", on |-> t]

\* An owner that goes by running() never destroys the derived part under run(),
\* nor the flags under the thread that still has to set m_finished.
NoUseAfterDestroy == misuse = {}

OwnerIsOut == inside[Owner] = "none"

ThreadInv ==
    /\ TypeOK /\ SemInv
    /\ FlagsFollowRunner /\ WaitersRun /\ PartsOutlive /\ OwnerIsOut /\ NoUseAfterDestroy

\* wait() and the destructor return, unless the thread sleeps in the semaphore's
\* wait() for good, and then there is no token for it.
JoinEnds ==
    \A t \in Threads :
        \/ []<>(owner.on # t)
        \/ <>[](inside[t] = "wait" /\ count = 0)
=============================================================================
