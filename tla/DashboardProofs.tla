--------------------------- MODULE DashboardProofs ---------------------------
(***************************************************************************)
(* Proofs about Dashboard, for every finite set of alarms, every number of *)
(* groups and of lost connections.                                         *)
(***************************************************************************)
EXTENDS Dashboard, FiniteSetTheorems, TLAPS

IInv == TypeOK /\ OnlineMeansSession

(* A count of open alarms is a number that the types allow. *)
LEMMA CountTyped == Count \in 0 .. Cardinality(Alarms)
  <1>1. Open \subseteq Alarms
    BY DEF Open
  <1>2. /\ Cardinality(Open) \in Nat /\ Cardinality(Alarms) \in Nat
        /\ Cardinality(Open) <= Cardinality(Alarms)
    BY <1>1, AlarmsAreFinite, FS_Subset, FS_CardinalityType
  <1> QED
    BY <1>2 DEF Count

LEMMA ZeroTyped == 0 \in 0 .. Cardinality(Alarms) /\ 0 .. Cardinality(Alarms) \subseteq Int
  BY AlarmsAreFinite, FS_CardinalityType

-----------------------------------------------------------------------------
(***************************************************************************)
(* The state, its counts and the routes.                                   *)
(***************************************************************************)

Steps == {"idle", "counting", "assigning"}

(* The part of TypeOK about the state and its routes ... *)
StateTyped ==
  /\ rows \in [Alarms -> {"absent", "open", "acked"}]
  /\ open \in 0 .. Cardinality(Alarms) /\ groups \in 1 .. MaxGroups
  /\ pipe \in [step : Steps, count : 0 .. Cardinality(Alarms)]
  /\ route \in [Routes -> [step : Steps, count : 0 .. Cardinality(Alarms)]]

(* ... and the part about the publisher and the broker. *)
MqttTyped ==
  /\ up \in BOOLEAN /\ ended \in BOOLEAN /\ drops \in 0 .. MaxDrops
  /\ pub \in {"off", "waiting", "dead"} \cup Connected
  /\ topic \in [Topics -> Int]
  /\ inbox \in {"none", "empty", "some"}
  /\ session \in {"none", "alive", "lost"} /\ available \in {"online", "offline"}
  /\ pub \in {"idle", "event"} => inbox # "none"
  /\ pub \in Connected <=> session = "alive"
  /\ ~up <=> pub = "off"

LEMMA Halves == TypeOK <=> StateTyped /\ MqttTyped
  BY DEF TypeOK, StateTyped, MqttTyped, Steps

LEMMA IdleTyped == Idle \in [step : Steps, count : 0 .. Cardinality(Alarms)]
  BY ZeroTyped DEF Idle, Steps

LEMMA InitTyped == ASSUME Init PROVE TypeOK
  <1>1. StateTyped
    BY ZeroTyped, IdleTyped, BoundsArePositive DEF Init, StateTyped
  <1>2. topic \in [Topics -> Int]
    BY DEF Init, NoTopics
  <1>3. pub \notin Connected /\ drops \in 0 .. MaxDrops
    BY BoundsArePositive DEF Init, Connected, Topics
  <1>4. MqttTyped
    BY <1>2, <1>3 DEF Init, MqttTyped
  <1> QED
    BY <1>1, <1>4, Halves

(* The actions that change the state, in groups with the same proof. *)
PipeStep == (\E a \in Alarms : Stores(a)) \/ Pipe
RouteStep ==
  \/ \E a \in Alarms : Acknowledges(a) \/ PhoneAcknowledges(a)
  \/ AcknowledgesAll \/ Polls
  \/ \E r \in Routes : RouteCounts(r) \/ RouteAssigns(r)
BrokerStep == Publisher \/ Drops \/ WillFires

LEMMA StateStep ==
  ASSUME StateTyped, MqttTyped, [Next]_vars
  PROVE  StateTyped'
  <1>1. CASE PipeStep
    <2>1. ASSUME NEW a \in Alarms, Stores(a) PROVE StateTyped'
      BY <2>1, ZeroTyped DEF Stores, StateTyped, Steps
    <2>2. CASE Counts
      BY <2>2, CountTyped DEF Counts, StateTyped, Steps
    <2>3. CASE CountFails
      BY <2>3, IdleTyped DEF CountFails, StateTyped
    <2>4. CASE Publishes
      BY <2>4, IdleTyped DEF Publishes, StateTyped
    <2> QED
      BY <1>1, <2>1, <2>2, <2>3, <2>4 DEF PipeStep, Pipe
  <1>2. CASE RouteStep
    <2>1. ASSUME NEW a \in Alarms, Acknowledges(a) PROVE StateTyped'
      BY <2>1 DEF Acknowledges, StateTyped, Steps, Routes
    <2>2. ASSUME NEW a \in Alarms, PhoneAcknowledges(a) PROVE StateTyped'
      BY <2>2 DEF PhoneAcknowledges, StateTyped
    <2>3. CASE AcknowledgesAll
      BY <2>3, ZeroTyped DEF AcknowledgesAll, StateTyped, Steps
    <2>4. CASE Polls
      BY <2>4 DEF Polls, StateTyped, Steps
    <2>5. ASSUME NEW r \in Routes, RouteCounts(r) PROVE StateTyped'
      BY <2>5, CountTyped DEF RouteCounts, StateTyped, Steps
    <2>6. ASSUME NEW r \in Routes, RouteAssigns(r) PROVE StateTyped'
      BY <2>6, IdleTyped DEF RouteAssigns, StateTyped
    <2> QED
      BY <1>2, <2>1, <2>2, <2>3, <2>4, <2>5, <2>6 DEF RouteStep
  <1>3. CASE Beat
    BY <1>3 DEF Beat, stateVars, StateTyped
  <1>4. CASE GroupAppears
    <2>1. groups' \in 1 .. MaxGroups
      BY <1>4, BoundsArePositive DEF GroupAppears, StateTyped
    <2> QED
      BY <1>4, <2>1 DEF GroupAppears, StateTyped
  <1>5. CASE BrokerStep
    BY <1>5
    DEF BrokerStep, Publisher, Connects, SaysOnline, Announces, PublishesTopic, LoopEnds,
        Takes, PublishesEvent, Drops, WillFires, stateVars, StateTyped
  <1>6. CASE Start
    BY <1>6, CountTyped DEF Start, StateTyped
  <1>7. CASE Stop \/ Crash
    BY <1>7, IdleTyped DEF Stop, Crash, StateTyped
  <1>8. CASE UNCHANGED vars
    BY <1>8 DEF vars, stateVars, StateTyped
  <1> QED
    BY <1>1, <1>2, <1>3, <1>4, <1>5, <1>6, <1>7, <1>8
    DEF Next, PipeStep, RouteStep, BrokerStep

LEMMA MqttStep ==
  ASSUME StateTyped, MqttTyped, OnlineMeansSession, [Next]_vars
  PROVE  MqttTyped' /\ OnlineMeansSession'
  <1> DEFINE Good == MqttTyped /\ OnlineMeansSession
  <1> USE DEF MqttTyped, OnlineMeansSession, Connected, Topics
  <1>1. ASSUME UNCHANGED <<up, mqttVars, drops>> PROVE Good'
    BY <1>1 DEF mqttVars
  <1>2. CASE Counts
    BY <1>1, <1>2 DEF Counts
  <1>3. CASE CountFails \/ Publishes \/ Beat
    BY <1>3 DEF CountFails, Publishes, Beat, Notice
  <1>4. CASE RouteStep
    BY <1>1, <1>4
    DEF RouteStep, Acknowledges, PhoneAcknowledges, AcknowledgesAll, Polls, RouteCounts,
        RouteAssigns
  <1>5. CASE GroupAppears
    BY <1>5 DEF GroupAppears, Notice
  <1>6. CASE Connects \/ SaysOnline \/ Announces
    BY <1>6 DEF Connects, SaysOnline, Announces
  <1>7. CASE PublishesTopic
    <2>1. Shown(pub) \in Int /\ After[pub] \in {"attributes", "partition", "loop"}
      BY <1>7, ZeroTyped DEF PublishesTopic, Shown, After, StateTyped
    <2> QED
      BY <1>7, <2>1 DEF PublishesTopic
  <1>8. CASE LoopEnds \/ Takes \/ PublishesEvent
    BY <1>8 DEF LoopEnds, Takes, PublishesEvent
  <1>9. CASE Drops \/ WillFires
    BY <1>9, BoundsArePositive DEF Drops, WillFires
  <1>10. CASE Start
    BY <1>10 DEF Start
  <1>11. CASE Stop \/ Crash
    <2>1. drops' \in 0 .. MaxDrops /\ ended' \in BOOLEAN
      BY <1>11, BoundsArePositive DEF Stop, Crash
    <2>2. CASE session = "alive"
      BY <1>11, <2>1, <2>2 DEF Stop, Crash
    <2>3. CASE session # "alive"
      BY <1>11, <2>1, <2>3 DEF Stop, Crash
    <2> QED
      BY <2>2, <2>3
  <1>12. CASE UNCHANGED vars
    BY <1>1, <1>12 DEF vars
  <1>13. ASSUME NEW a \in Alarms, Stores(a) PROVE Good'
    BY <1>1, <1>13 DEF Stores
  <1> QED
    BY <1>2, <1>3, <1>4, <1>5, <1>6, <1>7, <1>8, <1>9, <1>10, <1>11, <1>12, <1>13
    DEF Next, Pipe, RouteStep, Publisher

-----------------------------------------------------------------------------
LEMMA InitIInv == ASSUME Init PROVE IInv
  BY InitTyped DEF Init, IInv, OnlineMeansSession

(* The inductive invariant of the counts and the publisher. *)
THEOREM Invariant == Spec => []IInv
  <1>1. Init => IInv
    BY InitIInv
  <1>2. IInv /\ [Next]_vars => IInv'
    <2> SUFFICES ASSUME IInv, [Next]_vars PROVE IInv'
      OBVIOUS
    <2>1. StateTyped /\ MqttTyped /\ OnlineMeansSession
      BY Halves DEF IInv
    <2>2. StateTyped' /\ MqttTyped' /\ OnlineMeansSession'
      BY <2>1, StateStep, MqttStep
    <2>3. (StateTyped /\ MqttTyped => TypeOK)'
      BY Halves, PTL
    <2> QED
      BY <2>2, <2>3 DEF IInv
  <1> QED
    BY <1>1, <1>2, PTL DEF Spec

(* Every count is one the table could have had, and the publisher knows *)
(* whether it is connected.                                             *)
THEOREM TypeCorrect == Spec => []TypeOK
  BY Invariant, PTL DEF IInv

(* "online" at the broker means a session with the publisher, or a clean *)
(* disconnect of the last one.                                           *)
THEOREM OnlineIsTrue == Spec => []OnlineMeansSession
  BY Invariant, PTL DEF IInv
=============================================================================
