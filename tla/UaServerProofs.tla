---------------------------- MODULE UaServerProofs ----------------------------
(***************************************************************************)
(* Theorems about UaServer, for every set of nodes and managers, every     *)
(* assignment of kinds and ids, and any number of starts, checked by TLAPS.*)
(***************************************************************************)
EXTENDS UaServer, TLAPS

\* Before the first start nothing is allocated but managers and nodes.
LEMMA ServerInvInit == Init => ServerInv
<1> SUFFICES ASSUME Init PROVE ServerInv
  OBVIOUS
<1>1. TypeOK
  <2>1. alive \subseteq Objects
    BY DEF Init, Objects
  <2>2. server \in 0 .. starts /\ async \in 0 .. starts /\ starts \in 0 .. MaxStarts
    BY NodesAssumption DEF Init
  <2>3. listed \in [Nodes -> 0 .. 2]
    BY DEF Init
  <2>4. refs \in [Nodes \cup {Root} -> SUBSET Nodes]
    BY DEF Init
  <2>5. QED
    BY <2>1, <2>2, <2>3, <2>4 DEF TypeOK, Init
<1>2. StopIsAlone /\ PointersAgree /\ NoUseAfterDelete
  BY DEF Init, StopIsAlone, PointersAgree, NoUseAfterDelete
<1>3. PointersLive
  BY DEF Init, PointersLive, ServerObject, AsyncObject, ManagerObject, NodeObject
<1>4. ListIsExact /\ RefsAreListed
  BY DEF Init, ListIsExact, RefsAreListed
<1>5. QED
  BY <1>1, <1>2, <1>3, <1>4 DEF ServerInv

\* A step that leaves the objects, the pointers and the nodes alone.
LEMMA HeapKept ==
    ASSUME PointersLive, ListIsExact, RefsAreListed,
           UNCHANGED <<alive, manager, server, async, nodeVars>>,
           app' # "created"
    PROVE  PointersLive' /\ ListIsExact' /\ RefsAreListed'
<1>1. PointersLive'
  BY DEF PointersLive
<1>2. ListIsExact'
  BY DEF ListIsExact, nodeVars
<1>3. RefsAreListed'
  BY DEF RefsAreListed, nodeVars
<1>4. QED
  BY <1>1, <1>2, <1>3

\* While a manager is there or the stop has not come to it, what the code
\* reaches through its pointers is allocated.
LEMMA PointedToAreAlive ==
    ASSUME ServerInv
    PROVE  /\ server # 0 => ServerObject(server) \in alive
           /\ async # 0 => AsyncObject(async) \in alive
           /\ manager # NoManager => ManagerObject(manager) \in alive
  BY NodesAssumption DEF ServerInv, PointersLive, TypeOK

\* The same for the objects a callback of the stack reaches.
LEMMA CalledNodesAreAlive ==
    ASSUME ServerInv, thread # "none"
    PROVE  \A n \in space : HasContext(n) => NodeObject(n) \in alive
<1>1. server # 0 /\ manager # NoManager
  BY DEF ServerInv, TypeOK, StopIsAlone, PointersAgree
<1>2. \A n \in space : HasContext(n) => n \in Nodes /\ IsListed(n)
  BY DEF ServerInv, TypeOK, HasContext, IsListed
<1>3. QED
  BY <1>1, <1>2 DEF ServerInv, ListIsExact

\* Every action of the application, of start(), of stop() and of the thread
\* preserves the invariant.
LEMMA ServerInvNext == ServerInv /\ [Next]_vars => ServerInv'
<1> SUFFICES ASSUME ServerInv, [Next]_vars PROVE ServerInv'
  OBVIOUS
<1> USE NodesAssumption DEF serverVars, nodeVars
<1>0. /\ TypeOK /\ StopIsAlone /\ PointersAgree /\ PointersLive
      /\ ListIsExact /\ RefsAreListed /\ NoUseAfterDelete
  BY DEF ServerInv
<1>1. ASSUME LinkRunningFlag PROVE ServerInv'
  <2>1. NoUseAfterDelete'
    BY <1>0, <1>1 DEF LinkRunningFlag, NoUseAfterDelete
  <2>2. TypeOK'
    BY <1>0, <1>1, <2>1 DEF LinkRunningFlag, TypeOK, PointersAgree, NoUseAfterDelete
  <2>3. StopIsAlone' /\ PointersAgree'
    BY <1>0, <1>1 DEF LinkRunningFlag, StopIsAlone, PointersAgree, TypeOK
  <2>4. PointersLive' /\ ListIsExact' /\ RefsAreListed'
    BY <1>0, <1>1, HeapKept DEF LinkRunningFlag, PointersAgree
  <2>5. QED
    BY <2>1, <2>2, <2>3, <2>4 DEF ServerInv
<1>2. ASSUME RaiseFlag PROVE ServerInv'
  <2>1. NoUseAfterDelete'
    BY <1>0, <1>2 DEF RaiseFlag, NoUseAfterDelete
  <2>2. TypeOK'
    BY <1>0, <1>2, <2>1 DEF RaiseFlag, TypeOK, PointersAgree, NoUseAfterDelete
  <2>3. StopIsAlone' /\ PointersAgree'
    BY <1>0, <1>2 DEF RaiseFlag, StopIsAlone, PointersAgree, TypeOK
  <2>4. PointersLive' /\ ListIsExact' /\ RefsAreListed'
    BY <1>0, <1>2, HeapKept DEF RaiseFlag, PointersAgree
  <2>5. QED
    BY <2>1, <2>2, <2>3, <2>4 DEF ServerInv
<1>3. ASSUME LowerFlag PROVE ServerInv'
  <2>1. TypeOK'
    <3>1. /\ flag' \in BOOLEAN
          /\ UNCHANGED <<app, thread, linked, manager, server, starts, async, serving, closed>>
          /\ UNCHANGED <<alive, space, listed, refs, misuse, lost>>
      BY <1>3 DEF LowerFlag
    <3>2. QED
      BY <1>0, <3>1 DEF TypeOK
  <2>2. StopIsAlone' /\ PointersAgree' /\ NoUseAfterDelete'
    BY <1>0, <1>3 DEF LowerFlag, StopIsAlone, PointersAgree, NoUseAfterDelete
  <2>3. PointersLive' /\ ListIsExact' /\ RefsAreListed'
    BY <1>0, <1>3 DEF LowerFlag, PointersLive, ListIsExact, RefsAreListed
  <2>4. QED
    BY <2>1, <2>2, <2>3 DEF ServerInv
<1>4. ASSUME NEW m \in Managers, AddNodeManager(m) PROVE ServerInv'
  <2>1. TypeOK'
    BY <1>0, <1>4 DEF AddNodeManager, TypeOK
  <2>2. StopIsAlone' /\ PointersAgree' /\ NoUseAfterDelete'
    BY <1>0, <1>4 DEF AddNodeManager, StopIsAlone, PointersAgree, NoUseAfterDelete
  <2>3. PointersLive' /\ ListIsExact' /\ RefsAreListed'
    BY <1>0, <1>4 DEF AddNodeManager, PointersAgree, PointersLive, ListIsExact,
      RefsAreListed
  <2>4. QED
    BY <2>1, <2>2, <2>3 DEF ServerInv
<1>5. ASSUME StartCreates PROVE ServerInv'
  <2>1. NoUseAfterDelete'
    BY <1>0, <1>5 DEF StartCreates, NoUseAfterDelete, PointersAgree, TypeOK
  <2>2. TypeOK'
    <3>1. alive' \subseteq Objects
      BY <1>0, <1>5 DEF StartCreates, TypeOK, Objects
    <3>2. QED
      BY <1>0, <1>5, <3>1 DEF StartCreates, TypeOK
  <2>3. StopIsAlone' /\ PointersAgree'
    BY <1>0, <1>5 DEF StartCreates, StopIsAlone, PointersAgree, TypeOK
  <2>4. PointersLive'
    BY <1>0, <1>5 DEF StartCreates, PointersLive, PointersAgree, TypeOK, ServerObject,
      AsyncObject, ManagerObject, NodeObject
  <2>5. ListIsExact'
    BY <1>0, <1>5 DEF StartCreates, ListIsExact, PointersAgree, TypeOK, ServerObject,
      AsyncObject, ManagerObject, NodeObject
  <2>6. RefsAreListed'
    BY <1>0, <1>5 DEF StartCreates, RefsAreListed, TypeOK, ServerObject, AsyncObject,
      ManagerObject, NodeObject
  <2>7. QED
    BY <2>1, <2>2, <2>3, <2>4, <2>5, <2>6 DEF ServerInv
<1>6. ASSUME StartLinks PROVE ServerInv'
  <2>1. NoUseAfterDelete'
    BY <1>0, <1>6, PointedToAreAlive DEF StartLinks, Uses, ServingAtOnce,
      NoUseAfterDelete, PointersAgree, TypeOK
  <2>2. TypeOK'
    <3>1. alive' \subseteq Objects
      BY <1>0, <1>6 DEF StartLinks, TypeOK, Objects
    <3>2. QED
      BY <1>0, <1>6, <2>1, <3>1 DEF StartLinks, ServingAtOnce, TypeOK, PointersAgree,
        NoUseAfterDelete
  <2>3. StopIsAlone' /\ PointersAgree'
    BY <1>0, <1>6 DEF StartLinks, Uses, ServingAtOnce, StopIsAlone, PointersAgree,
      TypeOK
  <2>4. PointersLive'
    BY <1>0, <1>6 DEF StartLinks, Uses, ServingAtOnce, PointersLive, PointersAgree,
      TypeOK, ServerObject, AsyncObject, ManagerObject, NodeObject
  <2>5. ListIsExact'
    BY <1>0, <1>6 DEF StartLinks, Uses, ServingAtOnce, ListIsExact, PointersAgree,
      TypeOK, ServerObject, AsyncObject, ManagerObject, NodeObject
  <2>6. RefsAreListed'
    BY <1>0, <1>6 DEF StartLinks, Uses, ServingAtOnce, RefsAreListed, TypeOK,
      ServerObject, AsyncObject, ManagerObject, NodeObject
  <2>7. QED
    BY <2>1, <2>2, <2>3, <2>4, <2>5, <2>6 DEF ServerInv
<1>7. ASSUME StartServes PROVE ServerInv'
  <2>1. NoUseAfterDelete'
    BY <1>0, <1>7 DEF StartServes, NoUseAfterDelete
  <2>2. TypeOK'
    BY <1>0, <1>7, <2>1 DEF StartServes, TypeOK, PointersAgree, NoUseAfterDelete
  <2>3. StopIsAlone' /\ PointersAgree'
    BY <1>0, <1>7 DEF StartServes, StopIsAlone, PointersAgree, TypeOK
  <2>4. PointersLive' /\ ListIsExact' /\ RefsAreListed'
    BY <1>0, <1>7, HeapKept DEF StartServes, PointersAgree
  <2>5. QED
    BY <2>1, <2>2, <2>3, <2>4 DEF ServerInv
<1>8. ASSUME StartRuns PROVE ServerInv'
  <2>1. NoUseAfterDelete'
    BY <1>0, <1>8, PointedToAreAlive DEF StartRuns, Uses, NoUseAfterDelete,
      PointersAgree, TypeOK
  <2>2. TypeOK'
    BY <1>0, <1>8, <2>1 DEF StartRuns, Uses, TypeOK, PointersAgree, NoUseAfterDelete
  <2>3. StopIsAlone' /\ PointersAgree'
    BY <1>0, <1>8 DEF StartRuns, Uses, StopIsAlone, PointersAgree, TypeOK
  <2>4. PointersLive' /\ ListIsExact' /\ RefsAreListed'
    BY <1>0, <1>8, HeapKept DEF StartRuns, Uses, PointersAgree
  <2>5. QED
    BY <2>1, <2>2, <2>3, <2>4 DEF ServerInv
<1>9. ASSUME NEW p \in Nodes \cup {Root}, NEW n \in Nodes, AddNode(p, n) PROVE ServerInv'
  <2>1. /\ app \in {"building", "idle"} /\ app' \in {app, "idle"}
        /\ server # 0 /\ manager # NoManager
        /\ UNCHANGED <<thread, linked, flag, manager, serverVars, alive>>
    BY <1>0, <1>9 DEF AddNode, AddsToSpace, AddsProperty, AddsArgument, Threw,
      PointersAgree
  <2>2. NoUseAfterDelete'
    BY <1>0, <1>9, <2>1, PointedToAreAlive DEF AddNode, Uses, NoUseAfterDelete
  <2>3. StopIsAlone' /\ PointersAgree' /\ PointersLive'
    BY <1>0, <2>1 DEF StopIsAlone, PointersAgree, PointersLive, TypeOK
  <2>4. CASE AddsToSpace(p, n)
    <3>1. PICK added \in BOOLEAN :
            /\ added => StackMayAdd(p, n) /\ ~StackDefers(n)
            /\ space' = IF added THEN space \cup {n} ELSE space
            /\ OnGood(p, n, added)
      BY <2>4 DEF AddsToSpace
    <3>2. CASE added
      <4>1. n \notin space /\ IsListed(n) /\ listed[n] = 0
        BY <1>0, <2>1, <2>4, <3>1, <3>2 DEF StackMayAdd, AddsToSpace, ListIsExact
      <4>2. /\ space' = space \cup {n}
            /\ listed' = [listed EXCEPT ![n] = 1]
            /\ refs' = [refs EXCEPT ![p] = refs[p] \cup {n}]
        BY <1>0, <3>1, <3>2, <4>1 DEF OnGood, TypeOK
      <4>3. TypeOK'
        BY <1>0, <2>1, <2>2, <2>4, <4>2 DEF TypeOK, NoUseAfterDelete, AddsToSpace
      <4>4. ListIsExact'
        BY <1>0, <1>9, <2>1, <4>1, <4>2 DEF ListIsExact, TypeOK, AddNode
      <4>5. RefsAreListed'
        BY <1>0, <2>1, <4>2 DEF RefsAreListed, TypeOK
      <4>6. QED
        BY <2>2, <2>3, <4>3, <4>4, <4>5 DEF ServerInv
    <3>3. CASE ~added
      <4>1. UNCHANGED nodeVars
        BY <3>1, <3>3 DEF OnGood
      <4>2. TypeOK'
        BY <1>0, <2>1, <2>2, <2>4, <4>1 DEF TypeOK, NoUseAfterDelete, AddsToSpace
      <4>3. QED
        BY <1>0, <2>1, <2>2, <2>3, <4>1, <4>2, HeapKept DEF ServerInv
    <3>4. QED
      BY <3>2, <3>3
  <2>5. CASE AddsProperty(p, n)
    <3>1. /\ ~IsListed(n)
          /\ space' \in {space, space \cup {n}}
          /\ UNCHANGED <<listed, refs, lost>>
      BY <2>5 DEF AddsProperty, IsListed
    <3>2. TypeOK'
      BY <1>0, <2>1, <2>2, <3>1 DEF TypeOK, NoUseAfterDelete
    <3>3. ListIsExact' /\ RefsAreListed'
      BY <1>0, <2>1, <3>1 DEF ListIsExact, RefsAreListed
    <3>4. QED
      BY <2>2, <2>3, <3>2, <3>3 DEF ServerInv
  <2>6. CASE AddsArgument(p, n)
    <3>1. TypeOK'
      BY <1>0, <2>1, <2>2, <2>6 DEF TypeOK, NoUseAfterDelete, AddsArgument
    <3>2. ListIsExact'
      BY <1>0, <2>1, <2>6 DEF ListIsExact, AddsArgument
    <3>3. RefsAreListed'
      BY <1>0, <2>1, <2>6 DEF RefsAreListed, TypeOK, AddsArgument
    <3>4. QED
      BY <2>2, <2>3, <3>1, <3>2, <3>3 DEF ServerInv
  <2>7. QED
    BY <1>9, <2>4, <2>5, <2>6 DEF AddNode
<1>10. ASSUME ThreadTests PROVE ServerInv'
  <2>1. NoUseAfterDelete'
    BY <1>0, <1>10, PointedToAreAlive DEF ThreadTests, Uses, Tests, NoUseAfterDelete,
      PointersAgree, TypeOK
  <2>2. TypeOK'
    BY <1>0, <1>10, <2>1 DEF ThreadTests, Uses, Tests, TypeOK, PointersAgree,
      NoUseAfterDelete
  <2>3. StopIsAlone' /\ PointersAgree'
    BY <1>0, <1>10 DEF ThreadTests, Uses, Tests, StopIsAlone, PointersAgree, TypeOK
  <2>4. PointersLive' /\ ListIsExact' /\ RefsAreListed'
    BY <1>0, <1>10, HeapKept DEF ThreadTests, Uses, Tests, PointersAgree
  <2>5. QED
    BY <2>1, <2>2, <2>3, <2>4 DEF ServerInv
<1>11. ASSUME ThreadIterates PROVE ServerInv'
  <2>1. NoUseAfterDelete'
    BY <1>0, <1>11, PointedToAreAlive, CalledNodesAreAlive DEF ThreadIterates, Uses,
      NoUseAfterDelete, PointersAgree, TypeOK
  <2>2. TypeOK'
    BY <1>0, <1>11, <2>1 DEF ThreadIterates, Uses, TypeOK, PointersAgree,
      NoUseAfterDelete
  <2>3. StopIsAlone' /\ PointersAgree'
    BY <1>0, <1>11 DEF ThreadIterates, Uses, StopIsAlone, PointersAgree, TypeOK
  <2>4. PointersLive' /\ ListIsExact' /\ RefsAreListed'
    BY <1>0, <1>11, HeapKept DEF ThreadIterates, Uses, PointersAgree
  <2>5. QED
    BY <2>1, <2>2, <2>3, <2>4 DEF ServerInv
<1>12. ASSUME ThreadDrains PROVE ServerInv'
  <2>1. NoUseAfterDelete'
    BY <1>0, <1>12, PointedToAreAlive DEF ThreadDrains, Uses, NoUseAfterDelete,
      PointersAgree, TypeOK
  <2>2. TypeOK'
    BY <1>0, <1>12, <2>1 DEF ThreadDrains, Uses, TypeOK, PointersAgree, NoUseAfterDelete
  <2>3. StopIsAlone' /\ PointersAgree'
    BY <1>0, <1>12 DEF ThreadDrains, Uses, StopIsAlone, PointersAgree, TypeOK
  <2>4. PointersLive' /\ ListIsExact' /\ RefsAreListed'
    BY <1>0, <1>12, HeapKept DEF ThreadDrains, Uses, PointersAgree
  <2>5. QED
    BY <2>1, <2>2, <2>3, <2>4 DEF ServerInv
<1>13. ASSUME StopCalled PROVE ServerInv'
  <2>1. NoUseAfterDelete'
    BY <1>0, <1>13 DEF StopCalled, NoUseAfterDelete
  <2>2. TypeOK'
    BY <1>0, <1>13, <2>1 DEF StopCalled, TypeOK, PointersAgree, NoUseAfterDelete
  <2>3. StopIsAlone' /\ PointersAgree'
    BY <1>0, <1>13 DEF StopCalled, StopIsAlone, PointersAgree, TypeOK
  <2>4. PointersLive' /\ ListIsExact' /\ RefsAreListed'
    BY <1>0, <1>13, HeapKept DEF StopCalled, PointersAgree
  <2>5. QED
    BY <2>1, <2>2, <2>3, <2>4 DEF ServerInv
<1>14. ASSUME StopJoins PROVE ServerInv'
  <2>1. NoUseAfterDelete'
    BY <1>0, <1>14 DEF StopJoins, Joined, NoUseAfterDelete
  <2>2. TypeOK'
    BY <1>0, <1>14, <2>1 DEF StopJoins, Joined, TypeOK, PointersAgree, NoUseAfterDelete
  <2>3. StopIsAlone' /\ PointersAgree'
    BY <1>0, <1>14 DEF StopJoins, Joined, StopIsAlone, PointersAgree, TypeOK
  <2>4. PointersLive' /\ ListIsExact' /\ RefsAreListed'
    BY <1>0, <1>14, HeapKept DEF StopJoins, Joined, PointersAgree
  <2>5. QED
    BY <2>1, <2>2, <2>3, <2>4 DEF ServerInv
<1>15. ASSUME StopCloses PROVE ServerInv'
  <2>1. NoUseAfterDelete'
    BY <1>0, <1>15, PointedToAreAlive DEF StopCloses, Uses, NoUseAfterDelete,
      PointersAgree, TypeOK
  <2>2. TypeOK'
    BY <1>0, <1>15, <2>1 DEF StopCloses, Uses, TypeOK, PointersAgree, NoUseAfterDelete
  <2>3. StopIsAlone' /\ PointersAgree'
    BY <1>0, <1>15 DEF StopCloses, Uses, StopIsAlone, PointersAgree, TypeOK
  <2>4. PointersLive' /\ ListIsExact' /\ RefsAreListed'
    BY <1>0, <1>15, HeapKept DEF StopCloses, Uses, PointersAgree
  <2>5. QED
    BY <2>1, <2>2, <2>3, <2>4 DEF ServerInv
<1>16. ASSUME StopClears PROVE ServerInv'
  <2>1. NoUseAfterDelete'
    BY <1>0, <1>16, PointedToAreAlive DEF StopClears, Uses, NoUseAfterDelete,
      PointersAgree, TypeOK
  <2>2. TypeOK'
    BY <1>0, <1>16, <2>1 DEF StopClears, Uses, TypeOK, PointersAgree, NoUseAfterDelete
  <2>3. StopIsAlone' /\ PointersAgree'
    BY <1>0, <1>16 DEF StopClears, Uses, StopIsAlone, PointersAgree, TypeOK
  <2>4. PointersLive' /\ ListIsExact' /\ RefsAreListed'
    BY <1>0, <1>16, HeapKept DEF StopClears, Uses, PointersAgree
  <2>5. QED
    BY <2>1, <2>2, <2>3, <2>4 DEF ServerInv
<1>17. ASSUME StopDeletesManager PROVE ServerInv'
  <2>1. NoUseAfterDelete'
    BY <1>0, <1>17 DEF StopDeletesManager, NoUseAfterDelete, ListIsExact
  <2>2. TypeOK'
    <3>1. refs' \in [Nodes \cup {Root} -> SUBSET Nodes]
      BY <1>0, <1>17 DEF StopDeletesManager, TypeOK
    <3>2. listed' \in [Nodes -> 0 .. 2]
      BY <1>17 DEF StopDeletesManager
    <3>3. QED
      BY <1>0, <1>17, <2>1, <3>1, <3>2 DEF StopDeletesManager, TypeOK, NoUseAfterDelete
  <2>3. StopIsAlone' /\ PointersAgree'
    BY <1>0, <1>17 DEF StopDeletesManager, GoesWithManager, StopIsAlone,
      PointersAgree, TypeOK
  <2>4. PointersLive'
    BY <1>0, <1>17 DEF StopDeletesManager, GoesWithManager, PointersLive,
      PointersAgree, TypeOK, ServerObject, AsyncObject, ManagerObject, NodeObject
  <2>5. ListIsExact'
    BY <1>0, <1>17 DEF StopDeletesManager, GoesWithManager, ListIsExact,
      PointersAgree, TypeOK, ServerObject, AsyncObject, ManagerObject, NodeObject
  <2>6. RefsAreListed'
    <3>1. \A q \in Nodes \cup {Root} : \A n \in refs'[q] : n \in Nodes /\ n \in refs[q]
      BY <1>0, <1>17 DEF StopDeletesManager, TypeOK
    <3>2. \A n \in Nodes : listed[n] # 0 => NodeObject(n) \notin alive'
      BY <1>0, <1>17 DEF StopDeletesManager, TypeOK
    <3>3. \A n \in Nodes : NodeObject(n) \notin alive => NodeObject(n) \notin alive'
      BY <1>17 DEF StopDeletesManager
    <3>4. QED
      BY <1>0, <3>1, <3>2, <3>3 DEF RefsAreListed
  <2>7. QED
    BY <2>1, <2>2, <2>3, <2>4, <2>5, <2>6 DEF ServerInv
<1>18. ASSUME StopDeletesServer PROVE ServerInv'
  <2>1. NoUseAfterDelete'
    BY <1>0, <1>18, PointedToAreAlive DEF StopDeletesServer, Uses, NoUseAfterDelete,
      PointersAgree, TypeOK
  <2>2. TypeOK'
    <3>1. server' \in 0 .. starts' /\ async' \in 0 .. starts' /\ starts' \in 0 .. MaxStarts
      BY <1>0, <1>18 DEF StopDeletesServer, TypeOK
    <3>2. thread = "none"
      BY <1>0, <1>18 DEF StopDeletesServer, StopIsAlone
    <3>3. QED
      BY <1>0, <1>18, <2>1, <3>1, <3>2 DEF StopDeletesServer, TypeOK, NoUseAfterDelete
  <2>3. StopIsAlone' /\ PointersAgree'
    BY <1>0, <1>18 DEF StopDeletesServer, Uses, StopIsAlone, PointersAgree, TypeOK
  <2>4. PointersLive'
    BY <1>0, <1>18 DEF StopDeletesServer, Uses, PointersLive, PointersAgree, TypeOK,
      ServerObject, AsyncObject, ManagerObject, NodeObject
  <2>5. ListIsExact'
    BY <1>0, <1>18 DEF StopDeletesServer, Uses, ListIsExact, PointersAgree, TypeOK,
      ServerObject, AsyncObject, ManagerObject, NodeObject
  <2>6. RefsAreListed'
    BY <1>0, <1>18 DEF StopDeletesServer, Uses, RefsAreListed, TypeOK, ServerObject,
      AsyncObject, ManagerObject, NodeObject
  <2>7. QED
    BY <2>1, <2>2, <2>3, <2>4, <2>5, <2>6 DEF ServerInv
<1>19. ASSUME StopDeletesAsync PROVE ServerInv'
  <2>1. NoUseAfterDelete'
    BY <1>0, <1>19 DEF StopDeletesAsync, DeletedAsync, NoUseAfterDelete,
      PointersAgree, TypeOK
  <2>2. TypeOK'
    BY <1>0, <1>19, <2>1 DEF StopDeletesAsync, DeletedAsync, TypeOK, PointersAgree,
      NoUseAfterDelete
  <2>3. StopIsAlone' /\ PointersAgree'
    BY <1>0, <1>19 DEF StopDeletesAsync, DeletedAsync, StopIsAlone, PointersAgree,
      TypeOK
  <2>4. PointersLive'
    BY <1>0, <1>19 DEF StopDeletesAsync, DeletedAsync, PointersLive, PointersAgree,
      TypeOK, ServerObject, AsyncObject, ManagerObject, NodeObject
  <2>5. ListIsExact'
    BY <1>0, <1>19 DEF StopDeletesAsync, DeletedAsync, ListIsExact, PointersAgree,
      TypeOK, ServerObject, AsyncObject, ManagerObject, NodeObject
  <2>6. RefsAreListed'
    BY <1>0, <1>19 DEF StopDeletesAsync, DeletedAsync, RefsAreListed, TypeOK,
      ServerObject, AsyncObject, ManagerObject, NodeObject
  <2>7. QED
    BY <2>1, <2>2, <2>3, <2>4, <2>5, <2>6 DEF ServerInv
<1>20. CASE UNCHANGED vars
  BY <1>0, <1>20 DEF vars, ServerInv, TypeOK, StopIsAlone, PointersAgree, PointersLive,
    ListIsExact, RefsAreListed, NoUseAfterDelete
<1>21. QED
  BY <1>1, <1>2, <1>3, <1>4, <1>5, <1>6, <1>7, <1>8, <1>9, <1>10, <1>11, <1>12, <1>13,
    <1>14, <1>15, <1>16, <1>17, <1>18, <1>19, <1>20
  DEF Next, Starts, Thread, Stops

-----------------------------------------------------------------------------
(* Theorems.                                                               *)

\* The inductive invariant: pointers, allocated objects, node list and
\* references agree at every place of start() and stop().
THEOREM ServerInvariant == Spec => []ServerInv
  BY ServerInvInit, ServerInvNext, PTL DEF Spec

\* Neither the server's thread, through its callbacks, nor stop() uses or
\* deletes an object that has been deleted.
THEOREM NothingUsedAfterDelete == Spec => []NoUseAfterDelete
<1>1. ServerInv => NoUseAfterDelete
  BY DEF ServerInv
<1>2. QED
  BY <1>1, ServerInvariant, PTL

\* stop() is past its join only when the server's thread is no more.
THEOREM StopRunsAlone == Spec => []StopIsAlone
<1>1. ServerInv => StopIsAlone
  BY DEF ServerInv
<1>2. QED
  BY <1>1, ServerInvariant, PTL

\* m_listNodes is exactly what the stack took and calls back into.
THEOREM ListMatches == Spec => []ListMatchesSpace
<1>1. ServerInv => ListMatchesSpace
  BY DEF ServerInv, TypeOK, ListIsExact, RefsAreListed, ListMatchesSpace
<1>2. QED
  BY <1>1, ServerInvariant, PTL

\* After stop() no server and no AsyncOperations is left allocated.
THEOREM EverythingReleased == Spec => []StopReleases
<1>1. ServerInv => StopReleases
  <2> SUFFICES ASSUME ServerInv, app = "idle", server = 0
               PROVE  /\ async = 0 /\ thread = "none"
                      /\ \A n \in 0 .. MaxStarts :
                            {ServerObject(n), AsyncObject(n)} \cap alive = {}
    BY DEF StopReleases
  <2>1. async = 0 /\ thread = "none"
    BY DEF ServerInv, PointersAgree, TypeOK
  <2>2. QED
    BY <2>1 DEF ServerInv, PointersLive
<1>2. QED
  BY <1>1, ServerInvariant, PTL

\* Until afterStartUp() has returned, m_serving is down: what a build adds is read at
\* once.
QuietWhileBuilding == lost \in BOOLEAN /\ (app = "building" => ~serving)

LEMMA QuietInit == Init => QuietWhileBuilding
  BY DEF Init, QuietWhileBuilding

LEMMA QuietNext == QuietWhileBuilding /\ [Next]_vars => QuietWhileBuilding'
<1> SUFFICES ASSUME QuietWhileBuilding, [Next]_vars PROVE QuietWhileBuilding'
  OBVIOUS
<1> USE DEF QuietWhileBuilding, serverVars
<1>1. CASE LinkRunningFlag \/ RaiseFlag \/ LowerFlag \/ \E m \in Managers : AddNodeManager(m)
  BY <1>1 DEF LinkRunningFlag, RaiseFlag, LowerFlag, AddNodeManager
<1>2. CASE StartCreates
  BY <1>2 DEF StartCreates
<1>3. CASE Starts
  BY <1>3 DEF Starts, StartLinks, StartServes, StartRuns, ServingAtOnce
<1>4. ASSUME NEW p \in Nodes \cup {Root}, NEW n \in Nodes, AddNode(p, n)
      PROVE  QuietWhileBuilding'
  <2>1. serving' = serving
    BY <1>4 DEF AddNode
  <2>2. lost' \in BOOLEAN /\ app' \in {app, "idle"}
    <3>1. CASE AddsToSpace(p, n)
      BY <3>1 DEF AddsToSpace, Threw
    <3>2. CASE AddsProperty(p, n) \/ AddsArgument(p, n)
      BY <3>2 DEF AddsProperty, AddsArgument, Threw
    <3>3. QED
      BY <1>4, <3>1, <3>2 DEF AddNode
  <2>3. QED
    BY <2>1, <2>2
<1>5. CASE Thread
  BY <1>5 DEF Thread, ThreadTests, ThreadIterates, ThreadDrains
<1>6. CASE StopCalled \/ Stops
  BY <1>6 DEF StopCalled, Stops, StopJoins, StopCloses, StopClears, StopDeletesManager,
              StopDeletesServer, StopDeletesAsync
<1>7. CASE UNCHANGED vars
  BY <1>7 DEF vars
<1>8. QED
  BY <1>1, <1>2, <1>3, <1>4, <1>5, <1>6, <1>7 DEF Next

\* While afterStartUp() fills the address space no read of the stack's own is
\* deferred: start() calls setServing(true) only after it (uaserver.cpp).
THEOREM NoReadIsLostInStart == Spec => NoReadLostInStart
<1>1. ASSUME QuietWhileBuilding, [Next]_vars
      PROVE  [lost' # lost => app = "idle"]_vars
  <2> SUFFICES ASSUME lost' # lost PROVE app = "idle"
    OBVIOUS
  <2>1. PICK p \in Nodes \cup {Root}, n \in Nodes : AddNode(p, n)
    BY <1>1 DEF Next, vars, LinkRunningFlag, RaiseFlag, LowerFlag, AddNodeManager,
                StartCreates, Starts, StartLinks, StartServes, StartRuns,
                Thread, ThreadTests, ThreadIterates, ThreadDrains,
                StopCalled, Stops, StopJoins, StopCloses, StopClears,
                StopDeletesManager, StopDeletesServer, StopDeletesAsync
  <2>2. AddsToSpace(p, n)
    BY <2>1 DEF AddNode, AddsProperty, AddsArgument
  <2>3. StackDefers(n)
    BY <1>1, <2>2 DEF AddsToSpace, QuietWhileBuilding
  <2>4. QED
    BY <1>1, <2>1, <2>3 DEF AddNode, StackDefers, QuietWhileBuilding
<1>2. QED
  BY QuietInit, QuietNext, <1>1, PTL DEF Spec, NoReadLostInStart
=============================================================================
