--------------------------- MODULE ReadRequestProofs ---------------------------
(***************************************************************************)
(* ReadRequest: the counters, the stages and the slots agree for any number *)
(* of requests and operations, and the requests are a ReadService.          *)
(***************************************************************************)
EXTENDS ReadRequest, FiniteSetTheorems, TLAPS

-----------------------------------------------------------------------------
(* Operations and counts                                                   *)

LEMMA OpsTyped ==
    ASSUME NEW op \in Ops
    PROVE  /\ op[1] \in Requests /\ op[2] \in Nat
           /\ op[2] >= 1 /\ op[2] <= Len(NodesToRead[op[1]])
           /\ op = <<op[1], op[2]>>
           /\ Node(op) \in Nodes
  <1>1. PICK r \in Requests : op \in {r} \X DOMAIN NodesToRead[r]
    BY DEF Ops
  <1>2. NodesToRead[r] \in Seq(Nodes)
    BY ReadAssumption
  <1>3. /\ DOMAIN NodesToRead[r] = 1 .. Len(NodesToRead[r])
        /\ Len(NodesToRead[r]) \in Nat
        /\ \A i \in 1 .. Len(NodesToRead[r]) : NodesToRead[r][i] \in Nodes
    BY <1>2
  <1>4. op[1] = r /\ op[2] \in 1 .. Len(NodesToRead[r]) /\ op = <<op[1], op[2]>>
    BY <1>1, <1>3
  <1> QED BY <1>3, <1>4 DEF Node

\* The operations of one request, taken off a finite set.
LEMMA CountOff ==
    ASSUME NEW S, NEW T \in SUBSET S, IsFiniteSet(S)
    PROVE  /\ IsFiniteSet(S \ T) /\ Cardinality(S \ T) \in Nat
           /\ IsFiniteSet(T) /\ Cardinality(T) \in Nat
           /\ Cardinality(S) \in Nat
           /\ Cardinality(S \ T) = Cardinality(S) - Cardinality(T)
           /\ Cardinality(S) - Cardinality(T) = 0 <=> S \ T = {}
  <1>1. IsFiniteSet(T) /\ IsFiniteSet(S \ T)
    BY FS_Subset
  <1>2. /\ Cardinality(T) \in Nat /\ Cardinality(S) \in Nat
        /\ Cardinality(S \ T) \in Nat
    BY <1>1, FS_CardinalityType
  <1>3. S = (S \ T) \cup T /\ (S \ T) \cap T = {}
    OBVIOUS
  <1>4. Cardinality(S) = Cardinality(S \ T) + Cardinality(T) - Cardinality({})
    BY <1>1, <1>3, FS_Union
  <1>5. Cardinality(S \ T) = Cardinality(S) - Cardinality(T)
    BY <1>2, <1>4, FS_EmptySet
  <1> QED BY <1>1, <1>2, <1>5, FS_EmptySet

\* What processOperationResult() leaves, for operations of one response.
LEMMA ProcessedCounts ==
    ASSUME TypeOK, CountsAgree, NEW r \in Requests,
           NEW ops \in SUBSET WaitingFor(r), Processed(r, ops)
    PROVE  /\ waitingOps' = waitingOps \ ops
           /\ waitingOps' \subseteq Ops /\ IsFiniteSet(waitingOps')
           /\ opsCount' \in Nat /\ opsCount' <= opsCount
           /\ opsCount' = Cardinality(waitingOps')
           /\ opCountdown' \in [Requests -> Nat]
           /\ \A q \in Requests :
                 /\ WaitingFor(q)' = WaitingFor(q) \ ops
                 /\ q # r => WaitingFor(q)' = WaitingFor(q)
                 /\ opCountdown'[q] = Cardinality(WaitingFor(q)')
           /\ stage' = [stage EXCEPT ![r] =
                            IF WaitingFor(r)' = {} THEN "ready" ELSE @]
  <1>1. waitingOps' = waitingOps \ ops /\ ops \in SUBSET waitingOps
    BY DEF Processed, WaitingFor
  <1>2. /\ IsFiniteSet(waitingOps') /\ Cardinality(waitingOps') \in Nat
        /\ Cardinality(ops) \in Nat
        /\ Cardinality(waitingOps') = Cardinality(waitingOps) - Cardinality(ops)
    BY <1>1, CountOff DEF TypeOK
  <1>3. opsCount' = Cardinality(waitingOps') /\ opsCount' \in Nat /\ opsCount' <= opsCount
    BY <1>2 DEF Processed, CountsAgree, TypeOK
  <1>4. ASSUME NEW q \in Requests
        PROVE  /\ WaitingFor(q)' = WaitingFor(q) \ ops
               /\ q # r => WaitingFor(q)' = WaitingFor(q)
    BY <1>1 DEF WaitingFor, OpsOf
  <1>5. IsFiniteSet(WaitingFor(r))
    BY FS_Subset DEF WaitingFor, TypeOK
  <1>6. /\ Cardinality(WaitingFor(r) \ ops) = opCountdown[r] - Cardinality(ops)
        /\ Cardinality(WaitingFor(r) \ ops) \in Nat
        /\ opCountdown[r] - Cardinality(ops) = 0 <=> WaitingFor(r) \ ops = {}
    <2>1. opCountdown[r] = Cardinality(WaitingFor(r))
      BY DEF CountsAgree
    <2>2. /\ Cardinality(WaitingFor(r) \ ops) = Cardinality(WaitingFor(r)) - Cardinality(ops)
          /\ Cardinality(WaitingFor(r) \ ops) \in Nat
          /\ Cardinality(WaitingFor(r)) - Cardinality(ops) = 0 <=> WaitingFor(r) \ ops = {}
      BY ONLY <1>5, CountOff, ops \in SUBSET WaitingFor(r)
    <2> QED BY <2>1, <2>2
  <1>7. opCountdown' = [opCountdown EXCEPT ![r] = Cardinality(WaitingFor(r)')]
    BY <1>4, <1>6 DEF Processed, CountedDown
  <1>8. /\ opCountdown' \in [Requests -> Nat]
        /\ \A q \in Requests : opCountdown'[q] = Cardinality(WaitingFor(q)')
    <2>1. Cardinality(WaitingFor(r)') \in Nat
      BY <1>4, <1>6
    <2>2. \A q \in Requests :
             opCountdown'[q] = IF q = r THEN Cardinality(WaitingFor(r)') ELSE opCountdown[q]
      BY <1>7 DEF TypeOK
    <2>3. ASSUME NEW q \in Requests
          PROVE  opCountdown'[q] = Cardinality(WaitingFor(q)')
      <3>1. CASE q = r
        BY <2>2, <3>1
      <3>2. CASE q # r
        <4>1. WaitingFor(q)' = WaitingFor(q)
          BY <1>4, <3>2
        <4>2. opCountdown'[q] = opCountdown[q]
          BY <2>2, <3>2
        <4>3. opCountdown[q] = Cardinality(WaitingFor(q))
          BY DEF CountsAgree
        <4> QED BY <4>1, <4>2, <4>3
      <3> QED BY <3>1, <3>2
    <2> QED BY <1>7, <2>1, <2>3 DEF TypeOK
  <1>9. stage' = [stage EXCEPT ![r] = IF WaitingFor(r)' = {} THEN "ready" ELSE @]
    BY <1>4, <1>6 DEF Processed, CountedDown
  <1> QED BY <1>1, <1>2, <1>3, <1>4, <1>8, <1>9 DEF TypeOK

-----------------------------------------------------------------------------
(* One result                                                              *)

ProperResult(s, node, a) == Service!ProperResult(s, node, a)

LEMMA ZeroedFits ==
    ASSUME NEW node, NEW a
    PROVE  Zeroed \in Slots /\ ProperResult(Zeroed, node, a)
  BY DEF Zeroed, Slots, Statuses, ProperResult, Service!ProperResult

LEMMA StampedIs ==
    ASSUME NEW s \in Slots, NEW a
    PROVE  /\ Stamped(s, a) \in Slots
           /\ Stamped(s, a).value = s.value /\ Stamped(s, a).status = s.status
           /\ Stamped(s, a).source = AsksSource(a) /\ Stamped(s, a).server = AsksServer(a)
  <1>1. AsksSource(a) \in BOOLEAN /\ AsksServer(a) \in BOOLEAN
    BY DEF AsksSource, AsksServer
  <1> QED BY <1>1 DEF Stamped, Slots

\* What the stack makes of a value that was there at once.
LEMMA AtOnceFits ==
    ASSUME NEW node \in Nodes, NEW a, NEW d \in Results
    PROVE  /\ Stamped(Accepted(node, Copied(node, d)), a) \in Slots
           /\ ProperResult(Stamped(Accepted(node, Copied(node, d)), a), node, a)
  <1> DEFINE c == Copied(node, d)
             v == Accepted(node, c)
  <1>1. /\ c \in Slots /\ c.value \in {node, Nothing}
        /\ c.status \notin StackStatuses
    BY ReadAssumption DEF Copied, Slots, Statuses
  <1>2. /\ v \in Slots /\ v.value = c.value
        /\ v.value # Nothing => v.status = c.status
    <2>1. CASE c.value = Nothing /\ node \notin Nullable
      <3>1. v = [c EXCEPT !.hasValue = FALSE, !.status = "BadWaitingForInitialData"]
        BY <2>1 DEF Accepted
      <3>2. "BadWaitingForInitialData" \in Statuses
        BY DEF Statuses, StackStatuses
      <3> HIDE DEF c, v
      <3> QED BY <1>1, <2>1, <3>1, <3>2 DEF Slots
    <2>2. CASE ~(c.value = Nothing /\ node \notin Nullable)
      <3>1. v = [c EXCEPT !.hasValue = TRUE]
        BY <2>2 DEF Accepted
      <3> HIDE DEF c, v
      <3> QED BY <1>1, <3>1 DEF Slots
    <2> QED BY <2>1, <2>2
  <1> HIDE DEF c, v
  <1>3. /\ Stamped(v, a) \in Slots
        /\ Stamped(v, a).value = v.value /\ Stamped(v, a).status = v.status
        /\ Stamped(v, a).source = AsksSource(a) /\ Stamped(v, a).server = AsksServer(a)
    BY <1>2, StampedIs
  <1>4. ProperResult(Stamped(v, a), node, a)
    BY <1>1, <1>2, <1>3
    DEF ProperResult, Service!ProperResult, Service!AsksSource, Service!AsksServer,
        AsksSource, AsksServer
  <1> QED BY <1>3, <1>4 DEF v, c

\* The placeholder of a deferred read.
LEMMA PlaceholderFits ==
    ASSUME NEW node, NEW a
    PROVE  /\ Stamped(Zeroed, a) \in Slots /\ Stamped(Zeroed, a).value = Nothing
           /\ ProperResult(Stamped(Zeroed, a), node, a)
  <1>1. Zeroed \in Slots /\ Zeroed.value = Nothing
    BY DEF Zeroed, Slots, Statuses
  <1>2. /\ Stamped(Zeroed, a) \in Slots /\ Stamped(Zeroed, a).value = Nothing
        /\ Stamped(Zeroed, a).source = AsksSource(a)
        /\ Stamped(Zeroed, a).server = AsksServer(a)
    BY <1>1, StampedIs
  <1> QED BY <1>2 DEF ProperResult, Service!ProperResult, Service!AsksSource,
                      Service!AsksServer, AsksSource, AsksServer

\* What drain() makes of a completion.
LEMMA PolicedFits ==
    ASSUME NEW node \in Nodes, NEW a, NEW d \in Results
    PROVE  /\ Policed(Copied(node, d)) \in Slots
           /\ ProperResult(Policed(Copied(node, d)), node, a)
  <1>1. /\ Copied(node, d) \in Slots /\ Copied(node, d).value \in {node, Nothing}
        /\ Copied(node, d).status \notin StackStatuses
    BY ReadAssumption DEF Copied, Slots, Statuses
  <1>2. /\ Policed(Copied(node, d)) \in Slots
        /\ Policed(Copied(node, d)).value = Copied(node, d).value
        /\ Policed(Copied(node, d)).status = Copied(node, d).status
        /\ Policed(Copied(node, d)).source = FALSE
        /\ Policed(Copied(node, d)).server = FALSE
    BY <1>1 DEF Policed, Zeroed, Slots
  <1> QED BY <1>1, <1>2 DEF ProperResult, Service!ProperResult

\* A result without a value may take any status.
LEMMA CancelledFits ==
    ASSUME NEW s \in Slots, s.value = Nothing, NEW node, NEW a, ProperResult(s, node, a),
           NEW status \in Statuses
    PROVE  /\ Cancelled(s, status) \in Slots /\ Cancelled(s, status).value = Nothing
           /\ ProperResult(Cancelled(s, status), node, a)
  <1>1. /\ Cancelled(s, status) \in Slots
        /\ Cancelled(s, status).value = s.value
        /\ Cancelled(s, status).source = s.source /\ Cancelled(s, status).server = s.server
    BY DEF Cancelled, Slots
  <1> QED BY <1>1 DEF ProperResult, Service!ProperResult

AllFit == \A op \in Ops : ProperResult(slot[op], Node(op), asked[op[1]])

\* One slot is written with a result that fits.
LEMMA FillsFits ==
    ASSUME TypeOK, AllFit, NEW op \in Ops, NEW s \in Slots, Fills(op, s),
           ProperResult(s, Node(op), asked[op[1]]), UNCHANGED asked
    PROVE  /\ slot' \in [Ops -> Slots] /\ AllFit'
           /\ slot'[op] = s
           /\ \A other \in Ops : other # op => slot'[other] = slot[other]
  <1>1. /\ slot' \in [Ops -> Slots] /\ slot'[op] = s
        /\ \A other \in Ops : other # op => slot'[other] = slot[other]
    BY DEF Fills, TypeOK
  <1>2. ASSUME NEW other \in Ops
        PROVE  ProperResult(slot'[other], Node(other), asked'[other[1]])
    <2>1. CASE other = op
      BY <1>1, <2>1
    <2>2. CASE other # op
      <3>1. slot'[other] = slot[other] /\ asked'[other[1]] = asked[other[1]]
        BY <1>1, <2>2
      <3> QED BY <3>1 DEF AllFit
    <2> QED BY <2>1, <2>2
  <1>3. AllFit'
    BY <1>2 DEF AllFit, Node, ProperResult
  <1> QED BY <1>1, <1>3

\* The slots of operations that wait are marked, together.
LEMMA MarksFit ==
    ASSUME TypeOK, SlotsFit, NEW ops \in SUBSET waitingOps, NEW status \in Statuses,
           slot' = [op \in Ops |-> IF op \in ops THEN Cancelled(slot[op], status)
                                                 ELSE slot[op]],
           UNCHANGED asked
    PROVE  /\ slot' \in [Ops -> Slots] /\ AllFit'
           /\ \A op \in Ops : slot'[op].value = slot[op].value
           /\ \A op \in Ops : op \notin ops => slot'[op] = slot[op]
  <1>1. ASSUME NEW op \in Ops
        PROVE  /\ slot'[op] \in Slots /\ slot'[op].value = slot[op].value
               /\ op \notin ops => slot'[op] = slot[op]
               /\ ProperResult(slot'[op], Node(op), asked'[op[1]])
    <2>1. slot[op] \in Slots /\ ProperResult(slot[op], Node(op), asked[op[1]])
      BY DEF TypeOK, SlotsFit, ProperResult
    <2>2. CASE op \in ops
      <3>1. slot[op].value = Nothing /\ slot'[op] = Cancelled(slot[op], status)
        BY <2>2 DEF SlotsFit
      <3> QED BY <2>1, <2>2, <3>1, CancelledFits
    <2>3. CASE op \notin ops
      BY <2>1, <2>3
    <2> QED BY <2>2, <2>3
  <1>2. AllFit'
    BY <1>1 DEF AllFit, Node, ProperResult
  <1> QED BY <1>1, <1>2

-----------------------------------------------------------------------------
(* The invariant                                                           *)

LEMMA ReadInvInit == Init => ReadInv
  <1> SUFFICES ASSUME Init PROVE ReadInv
    OBVIOUS
  <1>1. TypeOK
    <2>1. Zeroed \in Slots
      BY ZeroedFits
    <2> QED BY <2>1, FS_EmptySet DEF Init, TypeOK
  <1>2. \A r \in Requests : WaitingFor(r) = {}
    BY DEF Init, WaitingFor
  <1>3. CountsAgree
    <2>1. Cardinality({}) = 0
      BY FS_EmptySet
    <2>2. QueueLimit # 0 => 0 <= QueueLimit
      BY ReadAssumption
    <2>3. \A r \in Requests : opCountdown[r] = Cardinality(WaitingFor(r))
      BY <1>2, <2>1 DEF Init
    <2> QED BY <2>1, <2>2, <2>3 DEF Init, CountsAgree
  <1>4. StagesAgree
    BY <1>2, ReadAssumption DEF Init, StagesAgree
  <1>5. LoopAgrees
    BY DEF Init, LoopAgrees
  <1>6. SlotsFit
    BY ZeroedFits DEF Init, SlotsFit, ProperResult
  <1> QED BY <1>1, <1>3, <1>4, <1>5, <1>6 DEF ReadInv

\* Steps that write no slot and end no operation.
LEMMA QuietKeeps ==
    ASSUME ReadInv, UNCHANGED <<slot, waitingOps, opCountdown, opsCount, pending>>
    PROVE  /\ CountsAgree'
           /\ \A r \in Requests : WaitingFor(r)' = WaitingFor(r)
           /\ UNCHANGED asked => SlotsFit'
  <1>1. \A r \in Requests : WaitingFor(r)' = WaitingFor(r)
    BY DEF WaitingFor, OpsOf
  <1>2. CountsAgree'
    BY <1>1 DEF ReadInv, CountsAgree
  <1>3. UNCHANGED asked => SlotsFit'
    BY DEF ReadInv, SlotsFit, Node
  <1> QED BY <1>1, <1>2, <1>3

LEMMA BeginKeeps ==
    ASSUME ReadInv, NEW r \in Requests, Begin(r)
    PROVE  ReadInv'
  <1>1. CountsAgree' /\ \A q \in Requests : WaitingFor(q)' = WaitingFor(q)
    BY QuietKeeps DEF Begin
  <1>2. PICK a \in Timestamps : asked' = [asked EXCEPT ![r] = a]
    BY DEF Begin
  <1>3. a # "none"
    BY ReadAssumption
  <1>4. TypeOK'
    BY <1>2 DEF Begin, ReadInv, TypeOK
  <1>5. StagesAgree'
    BY <1>1, <1>2, <1>3, ReadAssumption DEF Begin, ServerFree, ReadInv, TypeOK, StagesAgree
  <1>6. ASSUME NEW op \in Ops, op[1] = r
        PROVE  slot[op] = Zeroed /\ op \notin waitingOps
    <2>1. slot[op] = Zeroed
      BY <1>6 DEF Begin, ReadInv, LoopAgrees
    <2>2. WaitingFor(r) = {}
      BY DEF Begin, ReadInv, StagesAgree
    <2> QED BY <1>6, <2>1, <2>2 DEF WaitingFor, OpsOf
  <1>7. LoopAgrees'
    <2>1. ASSUME NEW op \in Ops, stage'[op[1]] = "new"
          PROVE  slot'[op] = Zeroed
      <3>1. stage[op[1]] = "new"
        BY <2>1, OpsTyped DEF Begin, ReadInv, TypeOK
      <3> QED BY <3>1 DEF Begin, ReadInv, LoopAgrees
    <2>2. ASSUME NEW op \in Ops, op[1] = serving'
          PROVE  slot'[op] = Zeroed /\ op \notin waitingOps'
      BY <1>6, <2>2 DEF Begin
    <2> QED BY <2>1, <2>2 DEF LoopAgrees
  <1>8. SlotsFit'
    <2>1. ASSUME NEW op \in Ops
          PROVE  /\ ProperResult(slot'[op], Node(op), asked'[op[1]])
                 /\ op \in waitingOps' => slot'[op].value = Nothing
      <3>1. CASE op[1] = r
        <4>1. slot'[op] = Zeroed /\ op \notin waitingOps'
          BY <1>6, <3>1 DEF Begin
        <4> QED BY <4>1, ZeroedFits
      <3>2. CASE op[1] # r
        <4>1. asked'[op[1]] = asked[op[1]]
          BY <1>2, <3>2, OpsTyped DEF ReadInv, TypeOK
        <4>2. slot'[op] = slot[op] /\ waitingOps' = waitingOps
          BY DEF Begin
        <4> QED BY <4>1, <4>2 DEF ReadInv, SlotsFit, ProperResult
      <3> QED BY <3>1, <3>2
    <2> QED BY <2>1 DEF SlotsFit, ProperResult, Node
  <1> QED BY <1>1, <1>4, <1>5, <1>7, <1>8 DEF ReadInv

LEMMA RefuseKeeps ==
    ASSUME ReadInv, NEW r \in Requests, Refuse(r)
    PROVE  ReadInv'
  <1>1. /\ CountsAgree' /\ SlotsFit'
        /\ \A q \in Requests : WaitingFor(q)' = WaitingFor(q)
    BY QuietKeeps DEF Refuse
  <1>2. TypeOK'
    BY DEF Refuse, ReadInv, TypeOK
  <1>3. StagesAgree'
    BY <1>1, ReadAssumption
    DEF Refuse, ServerFree, ReadInv, TypeOK, StagesAgree, ReadyResponses
  <1>4. LoopAgrees'
    BY OpsTyped DEF Refuse, ReadInv, TypeOK, LoopAgrees
  <1> QED BY <1>1, <1>2, <1>3, <1>4 DEF ReadInv

LEMMA FinishKeeps ==
    ASSUME ReadInv, NEW r \in Requests, Finish(r)
    PROVE  ReadInv'
  <1>1. /\ CountsAgree' /\ SlotsFit'
        /\ \A q \in Requests : WaitingFor(q)' = WaitingFor(q)
    BY QuietKeeps DEF Finish
  <1>2. TypeOK'
    BY DEF Finish, ReadInv, TypeOK
  <1>3. opCountdown[r] > 0 <=> WaitingFor(r) # {}
    <2>1. IsFiniteSet(WaitingFor(r)) /\ opCountdown[r] = Cardinality(WaitingFor(r))
      BY FS_Subset DEF ReadInv, CountsAgree, TypeOK, WaitingFor
    <2>2. opCountdown[r] \in Nat
      BY DEF ReadInv, TypeOK
    <2> QED BY <2>1, <2>2, FS_EmptySet
  <1>4. StagesAgree'
    BY <1>1, <1>3, ReadAssumption
    DEF Finish, ReadInv, TypeOK, StagesAgree, ReadyResponses
  <1>5. LoopAgrees'
    BY OpsTyped, ReadAssumption DEF Finish, ReadInv, TypeOK, LoopAgrees
  <1> QED BY <1>1, <1>2, <1>4, <1>5 DEF ReadInv

LEMMA CompleteKeeps ==
    ASSUME ReadInv, NEW op \in Ops, Complete(op)
    PROVE  ReadInv'
  <1>1. /\ CountsAgree' /\ SlotsFit'
        /\ \A q \in Requests : WaitingFor(q)' = WaitingFor(q)
    BY QuietKeeps DEF Complete
  <1>2. TypeOK'
    BY DEF Complete, ReadInv, TypeOK
  <1>3. StagesAgree' /\ LoopAgrees'
    BY <1>1 DEF Complete, ReadInv, StagesAgree, LoopAgrees, ReadyResponses
  <1> QED BY <1>1, <1>2, <1>3 DEF ReadInv

LEMMA ProcessReadyKeeps ==
    ASSUME ReadInv, ProcessReady
    PROVE  ReadInv'
  <1>1. /\ CountsAgree' /\ SlotsFit'
        /\ \A q \in Requests : WaitingFor(q)' = WaitingFor(q)
    BY QuietKeeps DEF ProcessReady
  <1>2. TypeOK'
    BY DEF ProcessReady, ReadInv, TypeOK
  <1>3. StagesAgree'
    BY <1>1 DEF ProcessReady, ServerFree, ReadInv, TypeOK, StagesAgree, ReadyResponses
  <1>4. LoopAgrees'
    BY OpsTyped DEF ProcessReady, ReadyResponses, ReadInv, TypeOK, LoopAgrees
  <1> QED BY <1>1, <1>2, <1>3, <1>4 DEF ReadInv

\* The loop moves on to the next operation, and no operation waits.
LEMMA ReadKeeps ==
    ASSUME ReadInv, NEW op \in Ops, ReadUnknown(op) \/ ReadAtOnce(op)
    PROVE  ReadInv'
  <1>1. /\ IsNext(op) /\ next' = next + 1
        /\ UNCHANGED <<running, stage, asked, serving, waitingOps, opCountdown,
                       opsCount, pending, held, queue>>
        /\ \E s \in Slots : Fills(op, s) /\ ProperResult(s, Node(op), asked[op[1]])
    <2>1. CASE ReadUnknown(op)
      <3>1. Cancelled(Zeroed, "BadNodeIdUnknown") \in Slots
        BY DEF Cancelled, Zeroed, Slots, Statuses, StackStatuses
      <3>2. ProperResult(Cancelled(Zeroed, "BadNodeIdUnknown"), Node(op), asked[op[1]])
        BY DEF Cancelled, Zeroed, ProperResult, Service!ProperResult
      <3> QED BY <2>1, <3>1, <3>2 DEF ReadUnknown
    <2>2. CASE ReadAtOnce(op)
      <3>1. PICK d \in Results :
               Fills(op, Stamped(Accepted(Node(op), Copied(Node(op), d)), asked[serving]))
        BY <2>2 DEF ReadAtOnce
      <3>2. serving = op[1] /\ Node(op) \in Nodes
        BY <2>2, OpsTyped DEF ReadAtOnce, IsNext
      <3> QED BY <2>2, <3>1, <3>2, AtOnceFits DEF ReadAtOnce
    <2> QED BY <2>1, <2>2
  <1>2. PICK s \in Slots : Fills(op, s) /\ ProperResult(s, Node(op), asked[op[1]])
    BY <1>1
  <1>3. /\ slot' \in [Ops -> Slots] /\ AllFit' /\ slot'[op] = s
        /\ \A other \in Ops : other # op => slot'[other] = slot[other]
    <2>1. TypeOK /\ AllFit
      BY DEF ReadInv, SlotsFit, AllFit, ProperResult
    <2> QED BY <1>1, <1>2, <2>1, FillsFits
  <1>4. op \notin waitingOps
    BY <1>1 DEF IsNext, ReadInv, TypeOK, LoopAgrees
  <1>5. TypeOK'
    BY <1>1, <1>3 DEF ReadInv, TypeOK
  <1>6. \A r \in Requests : WaitingFor(r)' = WaitingFor(r)
    BY <1>1 DEF WaitingFor, OpsOf
  <1>7. CountsAgree' /\ StagesAgree'
    BY <1>1, <1>6 DEF ReadInv, CountsAgree, StagesAgree, ReadyResponses
  <1>8. LoopAgrees'
    <2>1. ASSUME NEW other \in Ops, stage'[other[1]] = "new"
          PROVE  slot'[other] = Zeroed
      <3>1. stage[op[1]] = "serving"
        BY <1>1, OpsTyped DEF IsNext, ReadInv, StagesAgree
      <3>2. other # op
        BY <1>1, <2>1, <3>1
      <3> QED BY <1>1, <1>3, <2>1, <3>2 DEF ReadInv, LoopAgrees
    <2>2. ASSUME NEW other \in Ops, other[1] = serving', other[2] >= next'
          PROVE  slot'[other] = Zeroed /\ other \notin waitingOps'
      <3>1. next \in Nat /\ other[2] \in Nat /\ op[2] = next
        BY <1>1, OpsTyped DEF IsNext, ReadInv, TypeOK
      <3>2. other # op /\ other[2] >= next
        BY <1>1, <2>2, <3>1
      <3> QED BY <1>1, <1>3, <2>2, <3>2 DEF ReadInv, LoopAgrees
    <2> QED BY <2>1, <2>2 DEF LoopAgrees
  <1>9. SlotsFit'
    <2>1. ASSUME NEW other \in Ops, other \in waitingOps'
          PROVE  slot'[other].value = Nothing
      <3>1. other # op
        BY <1>1, <1>4, <2>1
      <3> QED BY <1>1, <1>3, <2>1, <3>1 DEF ReadInv, SlotsFit
    <2> QED BY <1>3, <2>1 DEF SlotsFit, AllFit, ProperResult, Node
  <1> QED BY <1>5, <1>7, <1>8, <1>9 DEF ReadInv

\* A read is deferred: the stack takes it and counts it, or cancels it at once.
LEMMA DeferKeeps ==
    ASSUME ReadInv, NEW op \in Ops, Defer(op)
    PROVE  ReadInv'
  <1> DEFINE placeholder == Stamped(Zeroed, asked[serving])
  <1>1. /\ serving = op[1] /\ serving \in Requests /\ op[2] = next /\ next \in Nat
        /\ UNCHANGED <<running, stage, asked, serving, queue>> /\ next' = next + 1
        /\ stage[serving] = "serving"
    BY OpsTyped DEF Defer, IsNext, ReadInv, TypeOK, StagesAgree
  <1>2. op \notin waitingOps
    BY <1>1 DEF ReadInv, LoopAgrees
  <1>3. /\ placeholder \in Slots /\ placeholder.value = Nothing
        /\ ProperResult(placeholder, Node(op), asked[serving])
    BY PlaceholderFits
  <1>4. /\ Cancelled(placeholder, "BadTooManyOperations") \in Slots
        /\ Cancelled(placeholder, "BadTooManyOperations").value = Nothing
        /\ ProperResult(Cancelled(placeholder, "BadTooManyOperations"), Node(op), asked[serving])
    <2>1. "BadTooManyOperations" \in Statuses
      BY DEF Statuses, StackStatuses
    <2> HIDE DEF placeholder
    <2> QED BY <1>3, <2>1, CancelledFits
  <1>5. PICK s \in Slots :
           /\ Fills(op, s) /\ s.value = Nothing /\ ProperResult(s, Node(op), asked[op[1]])
    <2> HIDE DEF placeholder
    <2>1. Fills(op, placeholder) \/ Fills(op, Cancelled(placeholder, "BadTooManyOperations"))
      BY DEF Defer, placeholder
    <2> QED BY <1>1, <1>3, <1>4, <2>1
  <1>6. /\ slot' \in [Ops -> Slots] /\ AllFit' /\ slot'[op] = s
        /\ \A other \in Ops : other # op => slot'[other] = slot[other]
    <2>1. TypeOK /\ AllFit
      BY DEF ReadInv, SlotsFit, AllFit, ProperResult
    <2> QED BY <1>1, <1>5, <2>1, FillsFits
  <1>7. /\ waitingOps' \subseteq waitingOps \cup {op} /\ IsFiniteSet(waitingOps')
        /\ pending' = waitingOps' /\ opsCount' = Cardinality(waitingOps')
        /\ opsCount' \in Nat /\ (QueueLimit # 0 => opsCount' <= QueueLimit)
        /\ opCountdown' \in [Requests -> Nat]
        /\ \A r \in Requests :
              /\ opCountdown'[r] = Cardinality(WaitingFor(r)')
              /\ r # serving => WaitingFor(r)' = WaitingFor(r)
    <2>1. CASE HasRoom /\ waitingOps' = waitingOps \cup {op}
      <3>1. /\ pending' = pending \cup {op} /\ opsCount' = opsCount + 1
            /\ opCountdown' = [opCountdown EXCEPT ![serving] = @ + 1]
        BY <1>2, <2>1 DEF Defer
      <3>2. /\ IsFiniteSet(waitingOps') /\ Cardinality(waitingOps') = Cardinality(waitingOps) + 1
        BY <1>2, <2>1, FS_AddElement DEF ReadInv, TypeOK
      <3>3. ASSUME NEW r \in Requests, r # serving
            PROVE  WaitingFor(r)' = WaitingFor(r)
        BY <1>1, <2>1, <3>3 DEF WaitingFor, OpsOf
      <3>4. WaitingFor(serving)' = WaitingFor(serving) \cup {op} /\ op \notin WaitingFor(serving)
        BY <1>1, <1>2, <2>1 DEF WaitingFor, OpsOf
      <3>5. IsFiniteSet(WaitingFor(serving))
        BY FS_Subset DEF WaitingFor, ReadInv, TypeOK
      <3>6. Cardinality(WaitingFor(serving)') = opCountdown[serving] + 1
        <4>1. opCountdown[serving] = Cardinality(WaitingFor(serving))
          BY <1>1 DEF ReadInv, CountsAgree
        <4>2. Cardinality(WaitingFor(serving) \cup {op}) = Cardinality(WaitingFor(serving)) + 1
          BY <3>4, <3>5, FS_AddElement
        <4> QED BY <3>4, <4>1, <4>2
      <3>7. \A r \in Requests : opCountdown'[r] = Cardinality(WaitingFor(r)')
        BY <1>1, <3>1, <3>3, <3>6 DEF ReadInv, TypeOK, CountsAgree
      <3>8. opCountdown' \in [Requests -> Nat]
        BY <1>1, <3>1 DEF ReadInv, TypeOK
      <3>9. opsCount' \in Nat /\ (QueueLimit # 0 => opsCount' <= QueueLimit)
        BY <2>1, <3>1, ReadAssumption DEF HasRoom, ReadInv, TypeOK
      <3> QED BY <2>1, <3>1, <3>2, <3>3, <3>7, <3>8, <3>9 DEF ReadInv, CountsAgree
    <2>2. CASE UNCHANGED <<pending, waitingOps, opCountdown, opsCount>>
      <3>1. \A r \in Requests : WaitingFor(r)' = WaitingFor(r)
        BY <2>2 DEF WaitingFor, OpsOf
      <3> QED BY <2>2, <3>1 DEF ReadInv, TypeOK, CountsAgree
    <2> QED BY <2>1, <2>2 DEF Defer
  <1>8. TypeOK'
    <2>1. held' \subseteq Ops
      BY DEF Defer, ReadInv, TypeOK
    <2> QED BY <1>1, <1>6, <1>7, <2>1 DEF ReadInv, TypeOK
  <1>9. CountsAgree'
    BY <1>7 DEF CountsAgree
  <1>10. StagesAgree'
    <2>1. \A r \in Requests : r # serving => WaitingFor(r)' = WaitingFor(r)
      BY <1>7
    <2>2. running
      BY <1>1, ReadAssumption DEF ReadInv, StagesAgree
    <2> QED BY <1>1, <2>1, <2>2 DEF ReadInv, StagesAgree
  <1>11. LoopAgrees'
    <2>1. ASSUME NEW other \in Ops, stage'[other[1]] = "new"
          PROVE  slot'[other] = Zeroed
      <3>1. other # op
        BY <1>1, <2>1
      <3> QED BY <1>1, <1>6, <2>1, <3>1 DEF ReadInv, LoopAgrees
    <2>2. ASSUME NEW other \in Ops, other[1] = serving', other[2] >= next'
          PROVE  slot'[other] = Zeroed /\ other \notin waitingOps'
      <3>1. other # op /\ other[2] >= next
        BY <1>1, <2>2, OpsTyped
      <3>2. slot[other] = Zeroed /\ other \notin waitingOps
        BY <1>1, <2>2, <3>1 DEF ReadInv, LoopAgrees
      <3> QED BY <1>6, <1>7, <3>1, <3>2
    <2> QED BY <2>1, <2>2 DEF LoopAgrees
  <1>12. SlotsFit'
    <2>1. ASSUME NEW other \in Ops, other \in waitingOps'
          PROVE  slot'[other].value = Nothing
      <3>1. CASE other = op
        BY <1>5, <1>6, <3>1
      <3>2. CASE other # op
        BY <1>6, <1>7, <2>1, <3>2 DEF ReadInv, SlotsFit
      <3> QED BY <3>1, <3>2
    <2> QED BY <1>6, <2>1 DEF SlotsFit, AllFit, ProperResult, Node
  <1> QED BY <1>8, <1>9, <1>10, <1>11, <1>12 DEF ReadInv

\* Operations of one response leave the stack, their slots fit to be sent.
LEMMA ProcessedKeeps ==
    ASSUME ReadInv, NEW r \in Requests, NEW ops \in SUBSET WaitingFor(r), ops # {},
           Processed(r, ops), pending' = pending \ ops,
           slot' \in [Ops -> Slots], AllFit',
           \A op \in Ops : op \notin ops => slot'[op] = slot[op],
           UNCHANGED <<running, asked, serving, next, held>>,
           running, serving = NoRequest, queue' \subseteq queue
    PROVE  ReadInv'
  <1>1. /\ waitingOps' = waitingOps \ ops
        /\ waitingOps' \subseteq Ops /\ IsFiniteSet(waitingOps')
        /\ opsCount' \in Nat /\ opsCount' <= opsCount
        /\ opsCount' = Cardinality(waitingOps')
        /\ opCountdown' \in [Requests -> Nat]
        /\ \A q \in Requests :
              /\ WaitingFor(q)' = WaitingFor(q) \ ops
              /\ q # r => WaitingFor(q)' = WaitingFor(q)
              /\ opCountdown'[q] = Cardinality(WaitingFor(q)')
        /\ stage' = [stage EXCEPT ![r] = IF WaitingFor(r)' = {} THEN "ready" ELSE @]
    BY ProcessedCounts DEF ReadInv
  <1>2. stage[r] = "waiting"
    <2>1. WaitingFor(r) # {}
      OBVIOUS
    <2>2. stage[r] # "serving"
      BY ReadAssumption DEF ReadInv, StagesAgree
    <2> QED BY <2>1, <2>2 DEF ReadInv, StagesAgree
  <1>3. TypeOK'
    BY <1>1 DEF ReadInv, TypeOK
  <1>4. CountsAgree'
    <2>1. pending' = waitingOps'
      BY <1>1 DEF ReadInv, CountsAgree
    <2>2. QueueLimit # 0 => opsCount' <= QueueLimit
      BY <1>1, ReadAssumption DEF ReadInv, CountsAgree, TypeOK
    <2> QED BY <1>1, <2>1, <2>2 DEF CountsAgree
  <1>5. StagesAgree'
    <2>1. ASSUME NEW q \in Requests
          PROVE  /\ stage'[q] = "serving" <=> q = serving'
                 /\ stage'[q] = "waiting" => WaitingFor(q)' # {}
                 /\ stage'[q] \notin {"serving", "waiting"} => WaitingFor(q)' = {}
                 /\ asked'[q] = "none" <=> stage'[q] \in {"new", "refused"}
      <3>1. CASE q = r
        <4>1. stage'[q] = IF WaitingFor(r)' = {} THEN "ready" ELSE "waiting"
          BY <1>1, <1>2, <3>1 DEF ReadInv, TypeOK
        <4> QED BY <1>2, <3>1, <4>1, ReadAssumption DEF ReadInv, StagesAgree
      <3>2. CASE q # r
        <4>1. stage'[q] = stage[q] /\ WaitingFor(q)' = WaitingFor(q)
          BY <1>1, <3>2 DEF ReadInv, TypeOK
        <4> QED BY <4>1 DEF ReadInv, StagesAgree
      <3> QED BY <3>1, <3>2
    <2> QED BY <2>1 DEF StagesAgree
  <1>6. LoopAgrees'
    <2>1. ASSUME NEW op \in Ops, stage'[op[1]] = "new"
          PROVE  slot'[op] = Zeroed
      <3>1. op[1] # r /\ stage[op[1]] = "new"
        BY <1>1, <1>2, <2>1, OpsTyped DEF ReadInv, TypeOK
      <3>2. op \notin ops
        BY <3>1 DEF WaitingFor, OpsOf
      <3> QED BY <3>1, <3>2 DEF ReadInv, LoopAgrees
    <2>2. ASSUME NEW op \in Ops
          PROVE  op[1] # serving'
      BY OpsTyped, ReadAssumption
    <2> QED BY <2>1, <2>2 DEF LoopAgrees
  <1>7. SlotsFit'
    <2>1. ASSUME NEW op \in Ops, op \in waitingOps'
          PROVE  slot'[op].value = Nothing
      BY <1>1, <2>1 DEF ReadInv, SlotsFit
    <2> QED BY <2>1 DEF SlotsFit, AllFit, ProperResult, Node
  <1> QED BY <1>3, <1>4, <1>5, <1>6, <1>7 DEF ReadInv

LEMMA DrainKeeps ==
    ASSUME ReadInv, NEW op \in Ops, NEW d \in Results, Drain(op, d)
    PROVE  ReadInv'
  <1>1. CASE StillPending(op)
    <2>1. /\ op \in pending /\ op \in waitingOps
          /\ pending' = pending \ {op}
          /\ Processed(op[1], {op})
          /\ Fills(op, Policed(Copied(Node(op), d)))
      BY <1>1 DEF Drain, StillPending, SetAsyncReadResult, ReadInv, CountsAgree
    <2>2. op[1] \in Requests /\ Node(op) \in Nodes /\ {op} \in SUBSET WaitingFor(op[1])
      BY <2>1, OpsTyped DEF WaitingFor, OpsOf
    <2>3. /\ Policed(Copied(Node(op), d)) \in Slots
          /\ ProperResult(Policed(Copied(Node(op), d)), Node(op), asked[op[1]])
      BY <2>2, PolicedFits
    <2>4. UNCHANGED <<running, asked, serving, next, held>> /\ queue' \subseteq queue
      BY DEF Drain
    <2>5. /\ slot' \in [Ops -> Slots] /\ AllFit'
          /\ \A other \in Ops : other # op => slot'[other] = slot[other]
      <3>1. TypeOK /\ AllFit
        BY DEF ReadInv, SlotsFit, AllFit, ProperResult
      <3> QED BY <2>1, <2>3, <2>4, <3>1, FillsFits
    <2>6. running /\ serving = NoRequest
      BY DEF Drain, ServerFree
    <2>7. \A other \in Ops : other \notin {op} => slot'[other] = slot[other]
      BY <2>5
    <2> QED BY <2>1, <2>2, <2>4, <2>5, <2>6, <2>7, ProcessedKeeps
  <1>2. CASE ~StillPending(op)
    <2>1. UNCHANGED <<running, stage, asked, serving, next, slot, waitingOps, opCountdown,
                      opsCount, pending, held>> /\ queue' \subseteq queue
      BY <1>2 DEF Drain
    <2>2. /\ CountsAgree' /\ SlotsFit'
          /\ \A q \in Requests : WaitingFor(q)' = WaitingFor(q)
      BY <2>1, QuietKeeps
    <2> QED BY <2>1, <2>2 DEF ReadInv, TypeOK, StagesAgree, LoopAgrees, ReadyResponses
  <1> QED BY <1>1, <1>2

LEMMA GiveUpKeeps ==
    ASSUME ReadInv, NEW r \in Requests, NEW status \in Statuses, GiveUp(r, status)
    PROVE  ReadInv'
  <1>1. /\ WaitingFor(r) # {} /\ WaitingFor(r) \in SUBSET WaitingFor(r)
        /\ WaitingFor(r) \in SUBSET waitingOps
    BY DEF GiveUp, ReadInv, StagesAgree, WaitingFor
  <1>2. /\ slot' \in [Ops -> Slots] /\ AllFit'
        /\ \A op \in Ops : op \notin WaitingFor(r) => slot'[op] = slot[op]
    <2>1. TypeOK /\ SlotsFit /\ UNCHANGED asked
      BY DEF ReadInv, GiveUp
    <2>2. slot' = [op \in Ops |-> IF op \in WaitingFor(r) THEN Cancelled(slot[op], status)
                                                          ELSE slot[op]]
      BY DEF GiveUp
    <2> QED BY <1>1, <2>1, <2>2, MarksFit
  <1>3. /\ Processed(r, WaitingFor(r)) /\ pending' = pending \ WaitingFor(r)
        /\ UNCHANGED <<running, asked, serving, next, held>> /\ queue' \subseteq queue
        /\ running /\ serving = NoRequest
    BY DEF GiveUp, Erased, ServerFree
  <1> QED BY <1>1, <1>2, <1>3, ProcessedKeeps

LEMMA DeleteServerKeeps ==
    ASSUME ReadInv, DeleteServer
    PROVE  ReadInv'
  <1>1. /\ slot' \in [Ops -> Slots] /\ AllFit'
        /\ \A op \in Ops : op \notin waitingOps => slot'[op] = slot[op]
    <2>1. TypeOK /\ SlotsFit /\ UNCHANGED asked /\ waitingOps \in SUBSET waitingOps
      BY DEF ReadInv, DeleteServer
    <2>2. "BadShutdown" \in Statuses
      BY DEF Statuses, StackStatuses
    <2>3. slot' = [op \in Ops |-> IF op \in waitingOps THEN Cancelled(slot[op], "BadShutdown")
                                                       ELSE slot[op]]
      BY DEF DeleteServer
    <2> QED BY <2>1, <2>2, <2>3, MarksFit
  <1>2. waitingOps' = {} /\ \A r \in Requests : WaitingFor(r)' = {}
    BY DEF DeleteServer, WaitingFor
  <1>3. TypeOK'
    BY <1>1, FS_EmptySet DEF DeleteServer, ReadInv, TypeOK
  <1>4. CountsAgree'
    <2>1. Cardinality({}) = 0 /\ (QueueLimit # 0 => 0 <= QueueLimit)
      BY FS_EmptySet, ReadAssumption
    <2>2. \A r \in Requests : opCountdown'[r] = Cardinality(WaitingFor(r)')
      BY <1>2, <2>1 DEF DeleteServer
    <2> QED BY <2>1, <2>2 DEF DeleteServer, CountsAgree
  <1>5. StagesAgree'
    <2>1. \A r \in Requests :
             stage'[r] = IF stage[r] \in {"waiting", "ready"} THEN "sent" ELSE stage[r]
      BY DEF DeleteServer
    <2>2. \A r \in Requests : stage'[r] # "serving" /\ stage'[r] # "waiting" /\ stage'[r] # "ready"
      BY <2>1, ReadAssumption DEF DeleteServer, ServerFree, ReadInv, StagesAgree
    <2>3. \A r \in Requests : asked'[r] = "none" <=> stage'[r] \in {"new", "refused"}
      BY <2>1 DEF DeleteServer, ReadInv, StagesAgree
    <2>4. serving' = NoRequest /\ ReadyResponses' = {}
      BY <2>2 DEF DeleteServer, ServerFree, ReadyResponses
    <2> QED BY <1>2, <2>2, <2>3, <2>4, ReadAssumption DEF StagesAgree
  <1>6. LoopAgrees'
    <2>1. ASSUME NEW op \in Ops, stage'[op[1]] = "new"
          PROVE  slot'[op] = Zeroed
      <3>1. stage[op[1]] = "new"
        BY <2>1, OpsTyped DEF DeleteServer
      <3>2. op \notin waitingOps
        <4>1. WaitingFor(op[1]) = {}
          BY <3>1, OpsTyped DEF ReadInv, StagesAgree
        <4> QED BY <4>1 DEF WaitingFor, OpsOf
      <3> QED BY <1>1, <3>1, <3>2 DEF ReadInv, LoopAgrees
    <2>2. ASSUME NEW op \in Ops
          PROVE  op[1] # serving'
      BY OpsTyped, ReadAssumption DEF DeleteServer, ServerFree
    <2> QED BY <2>1, <2>2 DEF LoopAgrees
  <1>7. SlotsFit'
    BY <1>1, <1>2 DEF SlotsFit, AllFit, ProperResult, Node
  <1> QED BY <1>3, <1>4, <1>5, <1>6, <1>7 DEF ReadInv

LEMMA ReadInvNext == ReadInv /\ [Next]_vars => ReadInv'
  <1> SUFFICES ASSUME ReadInv, [Next]_vars PROVE ReadInv'
    OBVIOUS
  <1>1. CASE \E r \in Requests : Begin(r) \/ Refuse(r) \/ Finish(r)
    BY <1>1, BeginKeeps, RefuseKeeps, FinishKeeps
  <1>2. CASE \E r \in Requests : CheckTimeouts(r) \/ ClientCancel(r)
    <2>1. "BadTimeout" \in Statuses /\ "BadOperationAbandoned" \in Statuses
      BY DEF Statuses, StackStatuses
    <2> QED BY <1>2, <2>1, GiveUpKeeps DEF CheckTimeouts, ClientCancel
  <1>3. CASE \E op \in Ops : ReadOperation(op)
    BY <1>3, ReadKeeps, DeferKeeps DEF ReadOperation
  <1>4. CASE \E op \in Ops : Complete(op)
    BY <1>4, CompleteKeeps
  <1>5. CASE \E op \in Ops : \E d \in Results : Drain(op, d)
    BY <1>5, DrainKeeps
  <1>6. CASE ProcessReady \/ DeleteServer
    BY <1>6, ProcessReadyKeeps, DeleteServerKeeps
  <1>7. CASE UNCHANGED vars
    <2>1. /\ CountsAgree' /\ SlotsFit'
          /\ \A q \in Requests : WaitingFor(q)' = WaitingFor(q)
      BY <1>7, QuietKeeps DEF vars
    <2> QED BY <1>7, <2>1 DEF vars, ReadInv, TypeOK, StagesAgree, LoopAgrees, ReadyResponses
  <1> QED BY <1>1, <1>2, <1>3, <1>4, <1>5, <1>6, <1>7 DEF Next

\* The invariant of the read requests: for any requests, nodes, results and queue
\* limit, counters, stages and slots agree in every state.
THEOREM ReadInvariant == Spec => []ReadInv
  <1>1. Init => ReadInv
    BY ReadInvInit
  <1>2. ReadInv /\ [Next]_vars => ReadInv'
    BY ReadInvNext
  <1> QED BY <1>1, <1>2, PTL DEF Spec

\* The stack's counters count what m_pending holds, never more than its limit: no
\* response is sent early and none waits for an operation that is not counted.
THEOREM CountersAgree == Spec => []CountsAgree
  <1>1. ReadInv => CountsAgree
    BY DEF ReadInv
  <1> QED BY <1>1, ReadInvariant, PTL

-----------------------------------------------------------------------------
(* The refinement                                                          *)

Answers == [r \in Requests |-> Answer(r)]

LEMMA AnswersInit == Init => Service!Init
  BY DEF Init, Service!Init, Answer

\* A request whose stage and slots stay has the answer it had.
LEMMA AnswerStays ==
    ASSUME NEW r \in Requests, stage'[r] = stage[r],
           stage[r] = "sent" => \A op \in OpsOf(r) : slot'[op] = slot[op]
    PROVE  Answer(r)' = Answer(r)
  BY DEF Answer, OpsOf

\* No step but Begin, Refuse and those that send does anything a client sees: it
\* changes slots and stages of requests that are under way only.
UnderWay == {"new", "serving", "waiting", "ready"}

LEMMA NothingSeen ==
    ASSUME UNCHANGED asked,
           \A r \in Requests :
              \/ stage[r] \in UnderWay /\ stage'[r] \in UnderWay
              \/ stage'[r] = stage[r] /\ \A op \in OpsOf(r) : slot'[op] = slot[op]
    PROVE  UNCHANGED <<asked, Answers>>
  <1>1. ASSUME NEW r \in Requests
        PROVE  Answer(r)' = Answer(r)
    <2>1. CASE stage[r] \in UnderWay /\ stage'[r] \in UnderWay
      BY <2>1 DEF Answer, UnderWay
    <2>2. CASE stage'[r] = stage[r] /\ \A op \in OpsOf(r) : slot'[op] = slot[op]
      BY <2>2, AnswerStays
    <2> QED BY <2>1, <2>2
  <1> QED BY <1>1 DEF Answers

\* What is sent is fit to be sent.
LEMMA SentIsAnswer ==
    ASSUME ReadInv, ReadInv', UNCHANGED asked, NEW sent \in SUBSET Requests,
           \A r \in sent : stage[r] \in {"serving", "waiting", "ready"} /\ stage'[r] = "sent",
           \A r \in Requests \ sent : Answer(r)' = Answer(r)
    PROVE  Service!Answer(sent)
  <1>1. ASSUME NEW r \in sent
        PROVE  /\ asked[r] # "none" /\ Answer(r) = Pending
               /\ Answer(r)' # Pending
               /\ Service!Proper(Answer(r)', r, asked[r])
    <2>1. asked[r] # "none" /\ Answer(r) = Pending
      BY DEF ReadInv, StagesAgree, Answer
    <2>2. Answer(r)' = [op \in OpsOf(r) |-> slot'[op]]
      BY DEF Answer, OpsOf
    <2>3. \A op \in OpsOf(r) : Service!ProperResult(slot'[op], Node(op), asked[r])
      BY DEF ReadInv, SlotsFit, OpsOf, Node
    <2>4. Answer(r)' # Pending
      <3>1. \A op \in OpsOf(r) : slot'[op] \in Slots
        BY DEF ReadInv, TypeOK, OpsOf
      <3>2. Answer(r)' \in [OpsOf(r) -> Slots]
        BY <2>2, <3>1
      <3> QED BY <3>2, ReadAssumption
    <2>5. Service!OpsOf(r) = OpsOf(r)
      BY DEF Service!OpsOf, OpsOf
    <2>6. \A op \in OpsOf(r) : op \in Ops
      BY DEF OpsOf
    <2> QED BY <2>1, <2>2, <2>3, <2>4, <2>5, <2>6 DEF Service!Proper
  <1>2. Answers' = [r \in Requests |-> IF r \in sent THEN Answers'[r] ELSE Answers[r]]
    BY DEF Answers
  <1>3. \A r \in Requests : Answers[r] = Answer(r) /\ Answers'[r] = Answer(r)'
    BY DEF Answers
  <1> QED BY <1>1, <1>2, <1>3 DEF Service!Answer, Answers

LEMMA BeginAccepts ==
    ASSUME ReadInv, NEW r \in Requests, Begin(r)
    PROVE  Service!Accept(r)
  <1>1. asked[r] = "none" /\ Answer(r) = Pending
    BY DEF Begin, ReadInv, StagesAgree, Answer
  <1>2. ASSUME NEW q \in Requests
        PROVE  Answer(q)' = Answer(q)
    <2>1. CASE q = r
      BY <2>1 DEF Begin, Answer, ReadInv, TypeOK
    <2>2. CASE q # r
      <3>1. stage'[q] = stage[q] /\ slot' = slot
        BY <2>2 DEF Begin, ReadInv, TypeOK
      <3> QED BY <3>1, AnswerStays
    <2> QED BY <2>1, <2>2
  <1> QED BY <1>1, <1>2 DEF Begin, Service!Accept

LEMMA RefuseRefuses ==
    ASSUME ReadInv, NEW r \in Requests, Refuse(r)
    PROVE  Service!Refuse(r)
  <1>1. asked[r] = "none" /\ Answer(r) = Pending /\ UNCHANGED asked
    BY DEF Refuse, ReadInv, StagesAgree, Answer
  <1>2. ASSUME NEW q \in Requests
        PROVE  Answer(q)' = IF q = r THEN Refused ELSE Answer(q)
    <2>1. CASE q = r
      BY <2>1 DEF Refuse, Answer, ReadInv, TypeOK
    <2>2. CASE q # r
      <3>1. stage'[q] = stage[q] /\ slot' = slot
        BY <2>2 DEF Refuse, ReadInv, TypeOK
      <3> QED BY <2>2, <3>1, AnswerStays
    <2> QED BY <2>1, <2>2
  <1>3. Answers' = [Answers EXCEPT ![r] = Refused]
    BY <1>2 DEF Answers
  <1> QED BY <1>1, <1>3 DEF Service!Refuse, Answers

\* The operations that a drain or the stack's cancellation ends are those of
\* requests that wait.
LEMMA EndsUnseen ==
    ASSUME ReadInv, NEW r \in Requests, NEW ops \in SUBSET WaitingFor(r), ops # {},
           serving = NoRequest, Processed(r, ops), UNCHANGED asked,
           \A op \in Ops : op \notin ops => slot'[op] = slot[op]
    PROVE  UNCHANGED <<asked, Answers>>
  <1>1. stage[r] = "waiting"
    <2>1. stage[r] # "serving" /\ WaitingFor(r) # {}
      BY ReadAssumption DEF ReadInv, StagesAgree
    <2> QED BY <2>1 DEF ReadInv, StagesAgree
  <1>2. stage'[r] \in UnderWay
    BY <1>1 DEF Processed, ReadInv, TypeOK, UnderWay
  <1>3. ASSUME NEW q \in Requests, q # r
        PROVE  stage'[q] = stage[q] /\ \A op \in OpsOf(q) : slot'[op] = slot[op]
    <2>1. stage'[q] = stage[q]
      BY <1>3 DEF Processed, ReadInv, TypeOK
    <2>2. \A op \in OpsOf(q) : op \in Ops /\ op \notin ops
      BY <1>3 DEF OpsOf, WaitingFor
    <2> QED BY <2>1, <2>2
  <1> QED BY <1>1, <1>2, <1>3, NothingSeen DEF UnderWay

LEMMA FinishAnswers ==
    ASSUME ReadInv, ReadInv', NEW r \in Requests, Finish(r)
    PROVE  Service!Next \/ UNCHANGED <<asked, Answers>>
  <1>1. stage[r] = "serving" /\ UNCHANGED <<asked, slot>>
    BY DEF Finish, ReadInv, StagesAgree
  <1>2. ASSUME NEW q \in Requests, q # r
        PROVE  stage'[q] = stage[q] /\ Answer(q)' = Answer(q)
    <2>1. stage'[q] = stage[q]
      BY <1>2 DEF Finish, ReadInv, TypeOK
    <2> QED BY <1>1, <2>1, AnswerStays
  <1>3. CASE stage'[r] = "sent"
    <2>1. \A q \in {r} : stage[q] \in {"serving", "waiting", "ready"} /\ stage'[q] = "sent"
      BY <1>1, <1>3
    <2>2. \A q \in Requests \ {r} : Answer(q)' = Answer(q)
      BY <1>2
    <2>3. {r} \in SUBSET Requests /\ UNCHANGED asked
      BY <1>1
    <2>4. Service!Answer({r})
      BY <2>1, <2>2, <2>3, SentIsAnswer
    <2> QED BY <2>3, <2>4 DEF Service!Next
  <1>4. CASE stage'[r] = "waiting"
    BY <1>1, <1>2, <1>4, NothingSeen DEF UnderWay
  <1> QED BY <1>3, <1>4 DEF Finish, ReadInv, TypeOK

LEMMA ProcessReadyAnswers ==
    ASSUME ReadInv, ReadInv', ProcessReady
    PROVE  Service!Answer(ReadyResponses)
  <1>1. /\ \A r \in ReadyResponses : stage[r] = "ready" /\ stage'[r] = "sent"
        /\ \A r \in Requests \ ReadyResponses : stage'[r] = stage[r]
        /\ UNCHANGED <<asked, slot>> /\ ReadyResponses \in SUBSET Requests
    BY DEF ProcessReady, ReadyResponses
  <1>2. \A r \in Requests \ ReadyResponses : Answer(r)' = Answer(r)
    BY <1>1, AnswerStays
  <1> QED BY <1>1, <1>2, SentIsAnswer

LEMMA DeleteServerAnswers ==
    ASSUME ReadInv, ReadInv', DeleteServer
    PROVE  \E sent \in SUBSET Requests : Service!Answer(sent)
  <1> DEFINE sent == {r \in Requests : stage[r] \in {"waiting", "ready"}}
  <1>1. /\ \A r \in sent : stage[r] \in {"serving", "waiting", "ready"} /\ stage'[r] = "sent"
        /\ \A r \in Requests \ sent : stage'[r] = stage[r]
        /\ UNCHANGED asked /\ sent \in SUBSET Requests
    BY DEF DeleteServer
  <1>2. ASSUME NEW r \in Requests \ sent
        PROVE  Answer(r)' = Answer(r)
    <2>1. stage'[r] = stage[r]
      BY <1>1
    <2>2. ASSUME NEW op \in OpsOf(r), stage[r] = "sent"
          PROVE  slot'[op] = slot[op]
      <3>1. WaitingFor(r) = {}
        BY <2>2 DEF ReadInv, StagesAgree
      <3>2. op \in Ops /\ op \notin waitingOps
        BY <3>1 DEF WaitingFor, OpsOf
      <3> QED BY <3>2 DEF DeleteServer
    <2> QED BY <2>1, <2>2, AnswerStays
  <1> HIDE DEF sent
  <1>3. Service!Answer(sent)
    BY <1>1, <1>2, SentIsAnswer
  <1> QED BY <1>1, <1>3

LEMMA StepRefines ==
    ASSUME ReadInv, ReadInv', [Next]_vars
    PROVE  Service!Next \/ UNCHANGED <<asked, Answers>>
  <1>1. ASSUME NEW r \in Requests, Begin(r) \/ Refuse(r)
        PROVE  Service!Next
    BY <1>1, BeginAccepts, RefuseRefuses DEF Service!Next
  <1>2. ASSUME NEW r \in Requests, Finish(r)
        PROVE  Service!Next \/ UNCHANGED <<asked, Answers>>
    BY <1>2, FinishAnswers
  <1>3. ASSUME NEW r \in Requests, CheckTimeouts(r) \/ ClientCancel(r)
        PROVE  UNCHANGED <<asked, Answers>>
    <2>1. PICK status : GiveUp(r, status)
      BY <1>3 DEF CheckTimeouts, ClientCancel
    <2>2. /\ serving = NoRequest /\ Processed(r, WaitingFor(r)) /\ UNCHANGED asked
          /\ \A op \in Ops : op \notin WaitingFor(r) => slot'[op] = slot[op]
      BY <2>1 DEF GiveUp, ServerFree
    <2>3. WaitingFor(r) # {} /\ WaitingFor(r) \in SUBSET WaitingFor(r)
      BY <2>1 DEF GiveUp, ReadInv, StagesAgree
    <2> QED BY <2>2, <2>3, EndsUnseen
  <1>4. ASSUME NEW op \in Ops, ReadOperation(op)
        PROVE  UNCHANGED <<asked, Answers>>
    <2>1. PICK s : Fills(op, s)
      BY <1>4 DEF ReadOperation, ReadUnknown, ReadAtOnce, Defer
    <2>2. op[1] = serving /\ UNCHANGED <<asked, stage>>
      BY <1>4 DEF ReadOperation, ReadUnknown, ReadAtOnce, Defer, IsNext
    <2>3. stage[op[1]] = "serving"
      BY <2>2, OpsTyped DEF ReadInv, StagesAgree
    <2>4. ASSUME NEW r \in Requests, r # op[1]
          PROVE  \A other \in OpsOf(r) : slot'[other] = slot[other]
      BY <2>1, <2>4 DEF Fills, OpsOf, ReadInv, TypeOK
    <2> QED BY <2>2, <2>3, <2>4, NothingSeen DEF UnderWay
  <1>5. ASSUME NEW op \in Ops, Complete(op)
        PROVE  UNCHANGED <<asked, Answers>>
    BY <1>5, NothingSeen DEF Complete
  <1>6. ASSUME NEW op \in Ops, NEW d \in Results, Drain(op, d)
        PROVE  UNCHANGED <<asked, Answers>>
    <2>1. CASE StillPending(op)
      <3>1. /\ op \in waitingOps /\ Processed(op[1], {op}) /\ serving = NoRequest
            /\ UNCHANGED asked
        BY <1>6, <2>1 DEF Drain, ServerFree, StillPending, SetAsyncReadResult, ReadInv, CountsAgree
      <3>2. \A other \in Ops : other \notin {op} => slot'[other] = slot[other]
        BY <1>6, <2>1 DEF Drain, Fills, ReadInv, TypeOK
      <3>3. op[1] \in Requests /\ {op} \in SUBSET WaitingFor(op[1])
        BY <3>1, OpsTyped DEF WaitingFor, OpsOf
      <3> QED BY <3>1, <3>2, <3>3, EndsUnseen
    <2>2. CASE ~StillPending(op)
      BY <1>6, <2>2, NothingSeen DEF Drain
    <2> QED BY <2>1, <2>2
  <1>7. CASE ProcessReady
    <2>1. ReadyResponses \in SUBSET Requests
      BY DEF ReadyResponses
    <2> QED BY <1>7, <2>1, ProcessReadyAnswers DEF Service!Next
  <1>8. CASE DeleteServer
    BY <1>8, DeleteServerAnswers DEF Service!Next
  <1>9. CASE UNCHANGED vars
    BY <1>9, NothingSeen DEF vars
  <1> QED BY <1>1, <1>2, <1>3, <1>4, <1>5, <1>6, <1>7, <1>8, <1>9 DEF Next

\* The stack, the deferral layer and the devices implement ReadService: each
\* request has one answer, as a whole, with its own values and only the timestamps
\* it asked for, and no time-out, cancel, queue limit or late completion changes it.
THEOREM ReadsAreAService == Spec => RefinesReadService
  <1>1. Init => Service!Init
    BY AnswersInit
  <1>2. ReadInv /\ ReadInv' /\ [Next]_vars =>
          [Service!Next]_<<asked, [r \in Requests |-> Answer(r)]>>
    BY StepRefines DEF Answers
  <1> QED BY <1>1, <1>2, ReadInvariant, PTL DEF Spec, RefinesReadService, Service!Spec
=============================================================================
