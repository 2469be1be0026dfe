---------------------------- MODULE UaSessionProofs ----------------------------
(***************************************************************************)
(* Theorems about UaSession, for any threads, clients and methods and any  *)
(* length of requests, checked by TLAPS.                                   *)
(***************************************************************************)
EXTENDS UaSession, FiniteSetTheorems, TLAPS

\* A session that was never connected satisfies the invariant.
LEMMA SessionInvInit == Init => SessionInv
<1> SUFFICES ASSUME Init PROVE SessionInv
  OBVIOUS
<1> USE OutsideAssumption DEF Init, Idle
<1>1. output \in [Threads -> [status : Statuses, size : 0 .. MaxNodes, fresh : BOOLEAN]]
  BY DEF Nothing, Statuses
<1>2. TypeOK
  BY <1>1 DEF TypeOK
<1>3. LockedHold /\ UsesPointedTo /\ PlacesAgree
  BY DEF LockedHold, Locked, UsesPointedTo, PlacesAgree
<1>4. LiveIsPointedTo /\ NoDeletedClient
  BY DEF LiveIsPointedTo, NoDeletedClient, NoMisuse
<1>5. QED
  BY <1>2, <1>3, <1>4 DEF SessionInv

\* What a method makes of a response is an output, whatever the server sent.
LEMMA OutcomesTyped ==
    ASSUME TypeOK, NEW t \in Threads, call[t].method \in Services,
           NEW r \in Responses, NEW out \in Outcomes(t, r)
    PROVE  out \in [status : Statuses, size : 0 .. MaxNodes, fresh : BOOLEAN]
<1>1. /\ call[t].asked \in 0 .. MaxNodes /\ output[t].size \in 0 .. MaxNodes
      /\ output[t] \in [status : Statuses, size : 0 .. MaxNodes, fresh : BOOLEAN]
  BY DEF TypeOK
<1>2. r.service \in {"Good", "BadTimeout"} /\ 0 \in 0 .. MaxNodes /\ 1 \in 0 .. MaxNodes
  BY OutsideAssumption DEF Responses
<1>3. \A s \in Statuses, n \in 0 .. MaxNodes :
        Output(s, n) \in [status : Statuses, size : 0 .. MaxNodes, fresh : BOOLEAN]
  BY DEF Output
<1>4. {"Good", "Threw", "Bad", "BadTimeout", "BadUnknownResponse"} \subseteq Statuses
  BY DEF Statuses
<1>5. CASE call[t].method \in {"read", "write"}
  <2>1. out = ReadOutcome(call[t].asked, r)
    BY <1>5 DEF Outcomes
  <2>2. QED
    BY <1>1, <1>2, <1>3, <1>4, <2>1 DEF ReadOutcome
<1>6. CASE call[t].method = "call"
  <2>1. out = CallOutcome(output[t], r)
    BY <1>6 DEF Outcomes
  <2>2. \A s \in Statuses : [output[t] EXCEPT !.status = s]
            \in [status : Statuses, size : 0 .. MaxNodes, fresh : BOOLEAN]
    BY <1>1
  <2>3. QED
    BY <1>2, <1>3, <1>4, <2>1, <2>2 DEF CallOutcome
<1>7. CASE call[t].method = "browse"
  <2>1. out \in BrowseOutcomes(r)
    BY <1>7 DEF Outcomes
  <2>2. out \in {Output(r.service, 0), Output("BadUnknownResponse", 0),
                 Output("Good", 1), Output("Threw", 1)}
    BY <2>1 DEF BrowseOutcomes
  <2>3. r.service \in Statuses /\ "BadUnknownResponse" \in Statuses
        /\ "Good" \in Statuses /\ "Threw" \in Statuses
    BY <1>2 DEF Statuses
  <2>4. CASE out = Output(r.service, 0)
    BY <1>2, <1>3, <2>3, <2>4
  <2>5. CASE out = Output("BadUnknownResponse", 0)
    BY <1>2, <1>3, <2>3, <2>5
  <2>6. CASE out = Output("Good", 1)
    BY <1>2, <1>3, <2>3, <2>6
  <2>7. CASE out = Output("Threw", 1)
    BY <1>2, <1>3, <2>3, <2>7
  <2>8. QED
    BY <2>2, <2>4, <2>5, <2>6, <2>7
<1>8. QED
  BY <1>5, <1>6, <1>7 DEF Services

\* A call that begins to use the client it has loaded keeps the type of the calls.
LEMMA AwaitTyped ==
    ASSUME TypeOK, NEW t \in Threads,
           call' = [call EXCEPT ![t].at = "awaiting", ![t].using = client]
    PROVE  call' \in [Threads ->
             [method : Methods \cup {"none"},
              at : {"idle", "begun", "inside", "linking", "closing", "awaiting"},
              asked : 0 .. MaxNodes, using : Clients \cup {NoClient}]]
<1> DEFINE Calls == [method : Methods \cup {"none"},
             at : {"idle", "begun", "inside", "linking", "closing", "awaiting"},
             asked : 0 .. MaxNodes, using : Clients \cup {NoClient}]
<1>1. call \in [Threads -> Calls] /\ client \in Clients \cup {NoClient}
  BY DEF TypeOK
<1>2. [[call[t] EXCEPT !.at = "awaiting"] EXCEPT !.using = client] \in Calls
  BY <1>1
<1>3. call' = [call EXCEPT ![t] = [[call[t] EXCEPT !.at = "awaiting"] EXCEPT !.using = client]]
  BY <1>1
<1> HIDE DEF Calls
<1>4. call' \in [Threads -> Calls]
  BY <1>1, <1>2, <1>3
<1>5. QED
  BY <1>4 DEF Calls

\* A call that goes to another place keeps the type of the calls.
LEMMA GoesTyped ==
    ASSUME TypeOK, NEW t \in Threads,
           NEW place \in {"idle", "begun", "inside", "linking", "closing", "awaiting"},
           Goes(t, place)
    PROVE  call' \in [Threads ->
             [method : Methods \cup {"none"},
              at : {"idle", "begun", "inside", "linking", "closing", "awaiting"},
              asked : 0 .. MaxNodes, using : Clients \cup {NoClient}]]
<1> DEFINE Calls == [method : Methods \cup {"none"},
             at : {"idle", "begun", "inside", "linking", "closing", "awaiting"},
             asked : 0 .. MaxNodes, using : Clients \cup {NoClient}]
<1>1. call \in [Threads -> Calls]
  BY DEF TypeOK
<1>2. [call[t] EXCEPT !.at = place] \in Calls
  BY <1>1
<1>3. call' = [call EXCEPT ![t] = [call[t] EXCEPT !.at = place]]
  BY <1>1 DEF Goes
<1> HIDE DEF Calls
<1>4. call' \in [Threads -> Calls]
  BY <1>1, <1>2, <1>3
<1>5. QED
  BY <1>4 DEF Calls

\* Returning from a method keeps the types and lets nobody in without the mutex.
LEMMA ReturnKeeps ==
    ASSUME TypeOK, LockedHold, UsesPointedTo, PlacesAgree, NEW t \in Threads, NEW out,
           ReturnsWith(t, out),
           out \in [status : Statuses, size : 0 .. MaxNodes, fresh : BOOLEAN]
    PROVE  /\ mutex' \in Threads \cup {NoThread}
           /\ call' = [call EXCEPT ![t] = Idle] /\ call'[t] = Idle
           /\ call' \in [Threads ->
                [method : Methods \cup {"none"},
                 at : {"idle", "begun", "inside", "linking", "closing", "awaiting"},
                 asked : 0 .. MaxNodes, using : Clients \cup {NoClient}]]
           /\ output' \in [Threads -> [status : Statuses, size : 0 .. MaxNodes, fresh : BOOLEAN]]
           /\ LockedHold'
           /\ client' = client => UsesPointedTo' /\ PlacesAgree'
           /\ (\A u \in Threads \ {t} : ~Locked(u)) => UsesPointedTo' /\ PlacesAgree'
<1>1. call' = [call EXCEPT ![t] = Idle] /\ output' = [output EXCEPT ![t] = out]
  BY DEF ReturnsWith
<1>2. mutex' = (IF mutex = t THEN NoThread ELSE mutex)
  BY DEF ReturnsWith
<1>3. Idle \in [method : Methods \cup {"none"},
                at : {"idle", "begun", "inside", "linking", "closing", "awaiting"},
                asked : 0 .. MaxNodes, using : Clients \cup {NoClient}]
  BY OutsideAssumption DEF Idle
<1>4. ~Locked(t)'
  BY <1>1 DEF TypeOK, Locked, Idle
<1>5. \A u \in Threads \ {t} : Locked(u)' => Locked(u) /\ mutex' = mutex
  BY <1>1, <1>2 DEF TypeOK, Locked, LockedHold
<1>6. LockedHold'
  BY <1>4, <1>5 DEF LockedHold
<1>7. call'[t] = Idle /\ \A u \in Threads \ {t} : call'[u] = call[u]
  BY <1>1 DEF TypeOK
<1>8. call'[t].at = "idle"
  BY <1>7 DEF Idle
<1>9. ASSUME client' = client PROVE UsesPointedTo' /\ PlacesAgree'
  <2>1. UsesPointedTo'
    BY <1>7, <1>8, <1>9 DEF UsesPointedTo
  <2>2. PlacesAgree'
    BY <1>7, <1>8, <1>9 DEF PlacesAgree
  <2>3. QED
    BY <2>1, <2>2
<1>10. ASSUME \A u \in Threads \ {t} : ~Locked(u) PROVE UsesPointedTo' /\ PlacesAgree'
  <2>1. UsesPointedTo'
    BY <1>7, <1>8, <1>10 DEF UsesPointedTo, Locked
  <2>2. PlacesAgree'
    BY <1>7, <1>8, <1>10 DEF PlacesAgree, Locked
  <2>3. QED
    BY <2>1, <2>2
<1>11. QED
  BY <1>1, <1>2, <1>3, <1>6, <1>7, <1>9, <1>10 DEF TypeOK

\* Every step of a thread preserves the invariant.
LEMMA SessionInvNext == SessionInv /\ [Next]_vars => SessionInv'
<1> SUFFICES ASSUME SessionInv, [Next]_vars PROVE SessionInv'
  OBVIOUS
<1> USE OutsideAssumption
<1> DEFINE Outs == [status : Statuses, size : 0 .. MaxNodes, fresh : BOOLEAN]
<1>0. /\ TypeOK /\ LockedHold /\ LiveIsPointedTo /\ UsesPointedTo
      /\ PlacesAgree /\ NoDeletedClient
  BY DEF SessionInv
<1>a. \A s \in Statuses, n \in 0 .. MaxNodes : Output(s, n) \in Outs
  BY DEF Output
<1>b. /\ {"Good", "Threw", "Bad", "Disconnected", "BadConnectionRejected",
          "BadConnectionClosed", "BadInvalidState"} \subseteq Statuses
      /\ 0 \in 0 .. MaxNodes
  BY DEF Statuses
<1>1. ASSUME NEW t \in Threads, Invoke(t) PROVE SessionInv'
  <2>1. PICK m \in Methods, k \in 1 .. MaxNodes :
          call' = [call EXCEPT ![t] =
                     [method |-> m, at |-> "begun", asked |-> k, using |-> NoClient]]
    BY <1>1 DEF Invoke
  <2>2. /\ output' = [output EXCEPT ![t].fresh = FALSE]
        /\ UNCHANGED <<mutex, client, live, misuse>>
    BY <1>1 DEF Invoke
  <2>3. call'[t] = [method |-> m, at |-> "begun", asked |-> k, using |-> NoClient]
    BY <1>0, <2>1 DEF TypeOK, Idle
  <2>4. \A u \in Threads \ {t} : call'[u] = call[u]
    BY <1>0, <2>1 DEF TypeOK
  <2>5. TypeOK'
    <3>1. call' \in [Threads ->
            [method : Methods \cup {"none"},
             at : {"idle", "begun", "inside", "linking", "closing", "awaiting"},
             asked : 0 .. MaxNodes, using : Clients \cup {NoClient}]]
      <4>1. k \in 0 .. MaxNodes
        OBVIOUS
      <4>2. QED
        BY <1>0, <2>1, <4>1 DEF TypeOK
    <3>2. output' \in [Threads -> Outs]
      BY <1>0, <2>2 DEF TypeOK
    <3>3. QED
      BY <1>0, <2>2, <3>1, <3>2 DEF TypeOK
  <2>6. LockedHold'
    BY <1>0, <2>2, <2>3, <2>4 DEF LockedHold, Locked
  <2>7. LiveIsPointedTo' /\ NoDeletedClient'
    BY <1>0, <2>2 DEF LiveIsPointedTo, NoDeletedClient
  <2>8. UsesPointedTo' /\ PlacesAgree'
    BY <1>0, <2>2, <2>3, <2>4 DEF UsesPointedTo, PlacesAgree
  <2>9. QED
    BY <2>5, <2>6, <2>7, <2>8 DEF SessionInv
<1>2. ASSUME NEW t \in Threads, Acquire(t) PROVE SessionInv'
  <2>1. TypeOK'
    <3>1. /\ Goes(t, "inside") /\ mutex' \in {mutex, t}
          /\ UNCHANGED <<client, live, output, misuse>>
      BY <1>2 DEF Acquire
    <3>2. TypeOK
      BY <1>0
    <3>3. QED
      BY <3>1, <3>2, GoesTyped DEF TypeOK
  <2>2. LockedHold'
    BY <1>0, <1>2 DEF Acquire, Goes, Guarded, LockedHold, Locked, TypeOK
  <2>3. LiveIsPointedTo' /\ NoDeletedClient'
    BY <1>0, <1>2 DEF Acquire, Goes, Guarded, LiveIsPointedTo, NoDeletedClient
  <2>4. UsesPointedTo' /\ PlacesAgree'
    BY <1>0, <1>2 DEF Acquire, Goes, Guarded, UsesPointedTo, PlacesAgree, Idle, TypeOK
  <2>5. QED
    BY <2>1, <2>2, <2>3, <2>4 DEF SessionInv
<1>3. ASSUME NEW t \in Threads, ConnectRefused(t) PROVE SessionInv'
  <2>1. PICK out \in Outs : ReturnsWith(t, out)
    BY <1>a, <1>b, <1>3 DEF ConnectRefused
  <2>2. UNCHANGED <<client, live>>
    BY <1>3 DEF ConnectRefused
  <2>3. misuse' = misuse
    BY <1>3 DEF ConnectRefused
  <2>4. TypeOK' /\ LockedHold'
    BY <1>0, <2>1, <2>2, <2>3, ReturnKeeps DEF TypeOK
  <2>5. LiveIsPointedTo' /\ NoDeletedClient'
    BY <1>0, <2>2, <2>3 DEF LiveIsPointedTo, NoDeletedClient
  <2>6. UsesPointedTo' /\ PlacesAgree'
    BY <1>0, <2>1, <2>2, ReturnKeeps
  <2>7. QED
    BY <2>4, <2>5, <2>6 DEF SessionInv
<1>4. ASSUME NEW t \in Threads, ConnectNew(t) PROVE SessionInv'
  <2>1. CASE \E c \in Clients \ live :
              /\ client' = c /\ live' = live \cup {c}
              /\ Goes(t, "linking") /\ UNCHANGED <<mutex, output>>
    <3>1. PICK c \in Clients \ live :
              /\ client' = c /\ live' = live \cup {c}
              /\ Goes(t, "linking") /\ UNCHANGED <<mutex, output>>
      BY <2>1
    <3>2. /\ client = NoClient /\ call[t].at = "inside" /\ mutex = t
          /\ call[t].method = "connect" /\ UNCHANGED misuse
      BY <1>0, <1>4 DEF ConnectNew, At, LockedHold, Locked
    <3>3. TypeOK'
      <4>1. TypeOK
        BY <1>0
      <4>2. QED
        BY <3>1, <3>2, <4>1, GoesTyped DEF TypeOK
    <3>4. LockedHold'
      BY <1>0, <3>1, <3>2 DEF LockedHold, Locked, TypeOK, Goes
    <3>5. LiveIsPointedTo' /\ NoDeletedClient'
      BY <1>0, <3>1, <3>2 DEF LiveIsPointedTo, NoDeletedClient
    <3>6. UsesPointedTo' /\ PlacesAgree'
      BY <1>0, <3>1, <3>2 DEF UsesPointedTo, PlacesAgree, Goes, TypeOK, Idle
    <3>7. QED
      BY <3>3, <3>4, <3>5, <3>6 DEF SessionInv
  <2>2. CASE ReturnsWith(t, Output("Threw", 0)) /\ UNCHANGED <<client, live>>
    <3>1. Output("Threw", 0) \in Outs /\ UNCHANGED misuse
      BY <1>a, <1>b, <1>4 DEF ConnectNew
    <3>2. TypeOK' /\ LockedHold'
      BY <1>0, <2>2, <3>1, ReturnKeeps DEF TypeOK
    <3>3. LiveIsPointedTo' /\ NoDeletedClient'
      BY <1>0, <2>2, <3>1 DEF LiveIsPointedTo, NoDeletedClient
    <3>4. UsesPointedTo' /\ PlacesAgree'
      BY <1>0, <2>2, <3>1, ReturnKeeps
    <3>5. QED
      BY <3>2, <3>3, <3>4 DEF SessionInv
  <2>3. QED
    BY <1>4, <2>1, <2>2 DEF ConnectNew
<1>5. ASSUME NEW t \in Threads, ConnectEnds(t) PROVE SessionInv'
  <2>1. CASE ReturnsWith(t, Output("Good", 0)) /\ UNCHANGED <<client, live>>
    <3>1. Output("Good", 0) \in Outs /\ UNCHANGED misuse
      BY <1>a, <1>b, <1>5 DEF ConnectEnds
    <3>2. TypeOK' /\ LockedHold'
      BY <1>0, <2>1, <3>1, ReturnKeeps DEF TypeOK
    <3>3. LiveIsPointedTo' /\ NoDeletedClient'
      BY <1>0, <2>1, <3>1 DEF LiveIsPointedTo, NoDeletedClient
    <3>4. UsesPointedTo' /\ PlacesAgree'
      BY <1>0, <2>1, <3>1, ReturnKeeps
    <3>5. QED
      BY <3>2, <3>3, <3>4 DEF SessionInv
  <2>2. ASSUME NEW out \in Outs, ReturnsWith(t, out), client' = NoClient, live' = live \ {client}
        PROVE  SessionInv'
    <3>1. /\ mutex = t /\ UNCHANGED misuse
      BY <1>0, <1>5 DEF ConnectEnds, At, LockedHold, Locked
    <3>2. \A u \in Threads \ {t} : ~Locked(u)
      BY <1>0, <3>1 DEF LockedHold
    <3>3. TypeOK' /\ LockedHold'
      BY <1>0, <2>2, <3>1, ReturnKeeps DEF TypeOK
    <3>4. LiveIsPointedTo' /\ NoDeletedClient'
      BY <1>0, <2>2, <3>1 DEF LiveIsPointedTo, NoDeletedClient
    <3>5. UsesPointedTo' /\ PlacesAgree'
      BY <1>0, <2>2, <3>2, ReturnKeeps
    <3>6. QED
      BY <3>3, <3>4, <3>5 DEF SessionInv
  <2>3. QED
    BY <1>a, <1>b, <1>5, <2>1, <2>2 DEF ConnectEnds, ConnectFailed
<1>6. ASSUME NEW t \in Threads, DisconnectRefused(t) PROVE SessionInv'
  <2>1. PICK out \in Outs : ReturnsWith(t, out)
    BY <1>a, <1>b, <1>6 DEF DisconnectRefused
  <2>2. UNCHANGED <<client, live>>
    BY <1>6 DEF DisconnectRefused
  <2>3. misuse' = misuse
    BY <1>6 DEF DisconnectRefused
  <2>4. TypeOK' /\ LockedHold'
    BY <1>0, <2>1, <2>2, <2>3, ReturnKeeps DEF TypeOK
  <2>5. LiveIsPointedTo' /\ NoDeletedClient'
    BY <1>0, <2>2, <2>3 DEF LiveIsPointedTo, NoDeletedClient
  <2>6. UsesPointedTo' /\ PlacesAgree'
    BY <1>0, <2>1, <2>2, ReturnKeeps
  <2>7. QED
    BY <2>4, <2>5, <2>6 DEF SessionInv
<1>7. ASSUME NEW t \in Threads, DisconnectCloses(t) PROVE SessionInv'
  <2>1. TypeOK'
    <3>1. /\ Goes(t, "closing") /\ mutex' = mutex
          /\ UNCHANGED <<client, live, output>> /\ misuse' = misuse
      BY <1>7 DEF DisconnectCloses
    <3>2. TypeOK
      BY <1>0
    <3>3. QED
      BY <3>1, <3>2, GoesTyped DEF TypeOK
  <2>2. LockedHold'
    BY <1>0, <1>7 DEF DisconnectCloses, Goes, At, LockedHold, Locked, TypeOK
  <2>3. LiveIsPointedTo' /\ NoDeletedClient'
    BY <1>0, <1>7 DEF DisconnectCloses, Goes, At, LiveIsPointedTo, NoDeletedClient
  <2>4. UsesPointedTo' /\ PlacesAgree'
    BY <1>0, <1>7 DEF DisconnectCloses, Goes, At, UsesPointedTo, PlacesAgree, Idle, TypeOK
  <2>5. QED
    BY <2>1, <2>2, <2>3, <2>4 DEF SessionInv
<1>8. ASSUME NEW t \in Threads, DisconnectDeletes(t) PROVE SessionInv'
  <2>1. ASSUME NEW out \in Outs, ReturnsWith(t, out), client' = NoClient, live' = live \ {client}
        PROVE  SessionInv'
    <3>1. /\ mutex = t /\ UNCHANGED misuse
      BY <1>0, <1>8 DEF DisconnectDeletes, At, LockedHold, Locked
    <3>2. \A u \in Threads \ {t} : ~Locked(u)
      BY <1>0, <3>1 DEF LockedHold
    <3>3. TypeOK' /\ LockedHold'
      BY <1>0, <2>1, <3>1, ReturnKeeps DEF TypeOK
    <3>4. LiveIsPointedTo' /\ NoDeletedClient'
      BY <1>0, <2>1, <3>1 DEF LiveIsPointedTo, NoDeletedClient
    <3>5. UsesPointedTo' /\ PlacesAgree'
      BY <1>0, <2>1, <3>2, ReturnKeeps
    <3>6. QED
      BY <3>3, <3>4, <3>5 DEF SessionInv
  <2>2. QED
    BY <1>a, <1>b, <1>8, <2>1 DEF DisconnectDeletes, Deletes
<1>9. ASSUME NEW t \in Threads, Send(t) PROVE SessionInv'
  <2>1. UNCHANGED <<mutex, client, live>> /\ call[t].method \in Services
    BY <1>9 DEF Send
  <2>2. CASE client = NoClient
    <3>1. UNCHANGED <<call, output>> /\ misuse' = [what |-> "null", by |-> call[t].method]
      BY <1>9, <2>2 DEF Send
    <3>2. TypeOK'
      BY <1>0, <2>1, <3>1 DEF TypeOK
    <3>3. QED
      BY <1>0, <2>1, <3>1, <3>2 DEF SessionInv, LockedHold, Locked, LiveIsPointedTo,
        UsesPointedTo, PlacesAgree, NoDeletedClient
  <2>3. CASE client # NoClient
    <3>1. /\ call' = [call EXCEPT ![t].at = "awaiting", ![t].using = client]
          /\ output' \in {output, [output EXCEPT ![t] = Nothing]}
          /\ UNCHANGED misuse
      BY <1>9, <2>3 DEF Send
    <3>2. call[t].method \in Synchronized => mutex = t
      BY <1>0, <1>9 DEF Send, Guarded, LockedHold, Locked
    <3>3. Nothing \in Outs
      BY DEF Nothing, Statuses
    <3>4. TypeOK'
      <4>1. output' \in [Threads -> Outs]
        BY <1>0, <3>1, <3>3 DEF TypeOK
      <4>2. TypeOK
        BY <1>0
      <4>3. /\ mutex' \in Threads \cup {NoThread} /\ client' \in Clients \cup {NoClient}
            /\ live' \subseteq Clients
        BY <2>1, <4>2 DEF TypeOK
      <4>4. QED
        BY <3>1, <4>1, <4>2, <4>3, AwaitTyped DEF TypeOK
    <3>5. LockedHold'
      BY <1>0, <2>1, <3>1, <3>2 DEF LockedHold, Locked, TypeOK
    <3>6. LiveIsPointedTo' /\ NoDeletedClient'
      BY <1>0, <2>1, <3>1 DEF LiveIsPointedTo, NoDeletedClient
    <3>7. UsesPointedTo' /\ PlacesAgree'
      BY <1>0, <2>1, <2>3, <3>1 DEF UsesPointedTo, PlacesAgree, TypeOK, Idle, Services
    <3>8. QED
      BY <3>4, <3>5, <3>6, <3>7 DEF SessionInv
  <2>4. QED
    BY <2>2, <2>3
<1>10. ASSUME NEW t \in Threads, CannotSend(t) PROVE SessionInv'
  <2>1. PICK out \in Outs : ReturnsWith(t, out)
    <3>1. [output[t] EXCEPT !.status = "Threw"] \in Outs
      BY <1>0, <1>b DEF TypeOK
    <3>2. QED
      BY <1>10, <3>1 DEF CannotSend
  <2>2. UNCHANGED <<client, live>>
    BY <1>10 DEF CannotSend
  <2>3. misuse' = misuse
    BY <1>10 DEF CannotSend
  <2>4. TypeOK' /\ LockedHold'
    BY <1>0, <2>1, <2>2, <2>3, ReturnKeeps DEF TypeOK
  <2>5. LiveIsPointedTo' /\ NoDeletedClient'
    BY <1>0, <2>2, <2>3 DEF LiveIsPointedTo, NoDeletedClient
  <2>6. UsesPointedTo' /\ PlacesAgree'
    BY <1>0, <2>1, <2>2, ReturnKeeps
  <2>7. QED
    BY <2>4, <2>5, <2>6 DEF SessionInv
<1>11. ASSUME NEW t \in Threads, Receive(t) PROVE SessionInv'
  <2>1. /\ call[t].method \in Services /\ call[t].at = "awaiting"
        /\ Uses(t) /\ UNCHANGED <<client, live>>
    BY <1>11 DEF Receive
  <2>2. PICK r \in Responses : \E out \in Outcomes(t, r) : ReturnsWith(t, out)
    BY <1>11 DEF Receive
  <2>3. PICK out \in Outcomes(t, r) : ReturnsWith(t, out)
    BY <2>2
  <2>4. out \in Outs
    BY <1>0, <2>1, OutcomesTyped
  <2>5. misuse' \in {misuse, [what |-> "deleted", by |-> call[t].method]}
    BY <2>1 DEF Uses
  <2>6. TypeOK' /\ LockedHold'
    BY <1>0, <2>1, <2>3, <2>4, <2>5, ReturnKeeps DEF TypeOK
  <2>7. call[t].method \in Synchronized => misuse' = misuse
    BY <1>0, <2>1 DEF Uses, UsesPointedTo, LiveIsPointedTo
  <2>8. LiveIsPointedTo' /\ NoDeletedClient'
    BY <1>0, <2>1, <2>5, <2>7 DEF LiveIsPointedTo, NoDeletedClient
  <2>9. UsesPointedTo' /\ PlacesAgree'
    BY <1>0, <2>1, <2>3, <2>4, ReturnKeeps
  <2>10. QED
    BY <2>6, <2>8, <2>9 DEF SessionInv
<1>12. ASSUME NEW t \in Threads, StatusLoads(t) PROVE SessionInv'
  <2>1. UNCHANGED <<client, live, misuse>> /\ call[t].method = "serverStatus"
    BY <1>12 DEF StatusLoads, At
  <2>2. CASE ReturnsWith(t, Output("Disconnected", 0))
    <3>1. Output("Disconnected", 0) \in Outs
      BY <1>a, <1>b
    <3>2. TypeOK' /\ LockedHold'
      BY <1>0, <2>1, <2>2, <3>1, ReturnKeeps DEF TypeOK
    <3>3. UsesPointedTo' /\ PlacesAgree'
      BY <1>0, <2>1, <2>2, <3>1, ReturnKeeps
    <3>4. QED
      BY <1>0, <2>1, <3>2, <3>3 DEF SessionInv, LiveIsPointedTo, NoDeletedClient
  <2>3. CASE /\ call' = [call EXCEPT ![t].at = "awaiting", ![t].using = client]
             /\ UNCHANGED <<mutex, output>>
    <3>1. TypeOK'
      <4>1. TypeOK
        BY <1>0
      <4>2. UNCHANGED <<mutex, client, live, output, misuse>>
        BY <2>1, <2>3
      <4>3. QED
        BY <2>3, <4>1, <4>2, AwaitTyped DEF TypeOK
    <3>2. LockedHold'
      BY <1>0, <2>1, <2>3 DEF LockedHold, Locked, TypeOK, Synchronized
    <3>3. UsesPointedTo' /\ PlacesAgree'
      BY <1>0, <2>1, <2>3 DEF UsesPointedTo, PlacesAgree, TypeOK, Synchronized, Idle
    <3>4. QED
      BY <1>0, <2>1, <3>1, <3>2, <3>3 DEF SessionInv, LiveIsPointedTo, NoDeletedClient
  <2>4. QED
    BY <1>12, <2>2, <2>3 DEF StatusLoads
<1>13. ASSUME NEW t \in Threads, StatusReads(t) PROVE SessionInv'
  <2>1. /\ call[t].method = "serverStatus" /\ Uses(t)
        /\ ReturnsWith(t, Output("Good", 0)) /\ UNCHANGED <<client, live>>
    BY <1>13 DEF StatusReads, At
  <2>2. misuse' \in {misuse, [what |-> "deleted", by |-> "serverStatus"]}
    BY <2>1 DEF Uses
  <2>3. Output("Good", 0) \in Outs
    BY <1>a, <1>b
  <2>4. TypeOK' /\ LockedHold'
    BY <1>0, <2>1, <2>2, <2>3, ReturnKeeps DEF TypeOK
  <2>5. UsesPointedTo' /\ PlacesAgree'
    BY <1>0, <2>1, <2>3, ReturnKeeps
  <2>6. LiveIsPointedTo' /\ NoDeletedClient'
    BY <1>0, <2>1, <2>2 DEF LiveIsPointedTo, NoDeletedClient, Synchronized
  <2>7. QED
    BY <2>4, <2>5, <2>6 DEF SessionInv
<1>14. CASE UNCHANGED vars
  BY <1>0, <1>14 DEF vars, SessionInv, TypeOK, LockedHold, Locked, LiveIsPointedTo,
    UsesPointedTo, PlacesAgree, NoDeletedClient
<1>15. QED
  BY <1>1, <1>2, <1>3, <1>4, <1>5, <1>6, <1>7, <1>8, <1>9, <1>10, <1>11, <1>12, <1>13, <1>14 DEF Next, Step

-----------------------------------------------------------------------------
(* Theorems.                                                               *)

\* The inductive invariant: only the holder of m_accessMutex is inside a method
\* that locks, and m_client points to the one client there is.
THEOREM SessionInvariant == Spec => []SessionInv
  BY SessionInvInit, SessionInvNext, PTL DEF Spec

\* connect() and disconnect() leak no client and leave no dangling pointer.
THEOREM OneClientAtATime == Spec => []OneClient
<1>1. SessionInv => OneClient
  BY DEF SessionInv, LiveIsPointedTo, OneClient
<1>2. QED
  BY <1>1, SessionInvariant, PTL

\* No method that locks uses a client that disconnect() has deleted, whatever
\* browse() and serverStatus() do without the lock.
THEOREM LockedMethodsUseLiveClients == Spec => []NoDeletedClient
<1>1. SessionInv => NoDeletedClient
  BY DEF SessionInv
<1>2. QED
  BY <1>1, SessionInvariant, PTL

\* Of the methods that lock, one at most is inside the client.
THEOREM LockedMethodsExclude == Spec => []OneLockedAtATime
<1>1. SessionInv => OneLockedAtATime
  <2> SUFFICES ASSUME SessionInv PROVE Cardinality(InClient(Synchronized)) <= 1
    BY DEF OneLockedAtATime
  <2>1. InClient(Synchronized) \subseteq {mutex}
    BY DEF SessionInv, LockedHold, Locked, InClient
  <2>2. IsFiniteSet({mutex}) /\ Cardinality({mutex}) = 1
    BY FS_Singleton
  <2>3. Cardinality(InClient(Synchronized)) <= Cardinality({mutex})
    BY <2>1, <2>2, FS_Subset
  <2>4. QED
    BY <2>2, <2>3
<1>2. QED
  BY <1>1, SessionInvariant, PTL

\* read() and write() return Good with one result per node they were asked for,
\* and otherwise with none, whatever number of results the server sends.
THEOREM ResultsAreAligned == Spec => ResultsAligned
<1>1. SessionInv /\ [Next]_vars =>
        [\A t \in Threads : Returned(t) =>
            /\ output'[t].fresh
            /\ output'[t].size = (IF output'[t].status = "Good" THEN call[t].asked ELSE 0)]_vars
  <2> SUFFICES ASSUME SessionInv, Next, NEW t \in Threads, Returned(t)
               PROVE  /\ output'[t].fresh
                      /\ output'[t].size = (IF output'[t].status = "Good"
                                            THEN call[t].asked ELSE 0)
    BY DEF vars, Returned
  <2>1. call[t].method \in {"read", "write"} /\ call'[t] = Idle /\ TypeOK /\ PlacesAgree
    BY DEF Returned, SessionInv
  <2>2. call[t] # Idle
    BY <2>1 DEF Idle
  <2>3. PICK u \in Threads : Invoke(u) \/ Step(u)
    BY DEF Next
  <2>4. u = t
    BY <2>1, <2>2, <2>3 DEF Invoke, Step, Acquire, ConnectRefused, ConnectNew, ConnectEnds,
      DisconnectRefused, DisconnectCloses, DisconnectDeletes, Send, CannotSend, Receive,
      StatusLoads, StatusReads, Goes, ReturnsWith, TypeOK
  <2>5. Receive(t)
    <3>1. call'[t].at = "idle" /\ call[t] \in [method : Methods \cup {"none"},
             at : {"idle", "begun", "inside", "linking", "closing", "awaiting"},
             asked : 0 .. MaxNodes, using : Clients \cup {NoClient}]
      BY <2>1 DEF Idle, TypeOK
    <3>2. ~Invoke(t)
      BY <2>2 DEF Invoke
    <3>3. ~Acquire(t)
      BY <2>1, <3>1 DEF Acquire, Goes, TypeOK
    <3>4. ~Send(t)
      BY <2>1, <2>2, <3>1 DEF Send, TypeOK
    <3>5. ~CannotSend(t)
      <4>1. ASSUME CannotSend(t) PROVE output'[t].status = "Threw"
        BY <2>1, <4>1 DEF CannotSend, ReturnsWith, TypeOK
      <4>2. QED
        BY <4>1 DEF Returned
    <3>6. QED
      BY <2>1, <2>3, <2>4, <3>2, <3>3, <3>4, <3>5 DEF Step, ConnectRefused, ConnectNew,
        ConnectEnds, DisconnectRefused, DisconnectCloses, DisconnectDeletes,
        StatusLoads, StatusReads, At
  <2>6. PICK r \in Responses : ReturnsWith(t, ReadOutcome(call[t].asked, r))
    BY <2>1, <2>5 DEF Receive, Outcomes
  <2>7. output'[t] = ReadOutcome(call[t].asked, r) /\ r.service \in {"Good", "BadTimeout"}
    BY <2>1, <2>6 DEF ReturnsWith, TypeOK, Responses
  <2>8. QED
    BY <2>7 DEF ReadOutcome, Output
<1>2. QED
  BY <1>1, SessionInvariant, PTL DEF Spec, ResultsAligned
=============================================================================
