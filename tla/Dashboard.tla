----------------------------- MODULE Dashboard -----------------------------
(***************************************************************************)
(* How many alarms are open, as the database knows it and as it is shown:  *)
(* SystemState.open_alarms, written by the pipeline and by three routes of *)
(* web/app.py, each after a query of its own; and the retained topics that *)
(* mqtt/publisher.py keeps at the broker, refreshed after every event.     *)
(***************************************************************************)
EXTENDS Integers, FiniteSets

CONSTANTS
  Alarms,     (* Alarms that may come in, each once.                          *)
  MaxGroups,  (* A bound: groups, the first of which is configured.           *)
  MaxDrops    (* A bound: connections lost and processes ended.               *)

ASSUME AlarmsAreFinite == IsFiniteSet(Alarms)
ASSUME BoundsArePositive == MaxGroups \in Nat \ {0} /\ MaxDrops \in Nat

Topics == {"alarm", "attributes", "partition"}
Routes == {"acknowledge", "all", "status"}  (* One request of each at a time. *)

VARIABLES
  up,        (* The process runs.                                             *)
  rows,      (* The table events: an alarm is absent, open or acknowledged.   *)
  open,      (* SystemState.open_alarms.                                      *)
  groups,    (* How many groups SystemState.partitions has.                   *)
  pipe,      (* _process of an alarm: its step, and the count it has read.    *)
  route,     (* The same of a request: acknowledge, acknowledge-all, status.  *)
  pub,       (* Where MqttPublisher is: the publish it is about to make.      *)
  inbox,     (* Events in its queue: none, some, or no queue at all.          *)
  session,   (* External: the broker's session with it, and its last will.    *)
  available, (* External: the retained availability topic.                    *)
  topic,     (* External: the retained topics with the state.                 *)
  drops,
  ended      (* History: the last session ended with a clean disconnect.      *)

stateVars == <<rows, open, groups, pipe, route>>
mqttVars  == <<pub, inbox, session, available, topic, ended>>
vars == <<up, stateVars, mqttVars, drops>>

Open == {a \in Alarms : rows[a] = "open"}
Count == Cardinality(Open)
Idle == [step |-> "idle", count |-> 0]
NoTopics == [t \in Topics |-> -1]

Connected == {"hello", "discovery", "loop", "idle", "event"} \cup Topics

TypeOK ==
  /\ up \in BOOLEAN /\ ended \in BOOLEAN /\ drops \in 0 .. MaxDrops
  /\ rows \in [Alarms -> {"absent", "open", "acked"}]
  /\ open \in 0 .. Cardinality(Alarms) /\ groups \in 1 .. MaxGroups
  /\ pipe \in [step : {"idle", "counting", "assigning"}, count : 0 .. Cardinality(Alarms)]
  /\ route \in [Routes -> [step : {"idle", "counting", "assigning"},
                           count : 0 .. Cardinality(Alarms)]]
  /\ pub \in {"off", "waiting", "dead"} \cup Connected
  /\ topic \in [Topics -> Int]
  /\ inbox \in {"none", "empty", "some"}
  /\ session \in {"none", "alive", "lost"} /\ available \in {"online", "offline"}
  /\ pub \in {"idle", "event"} => inbox # "none"
  /\ pub \in Connected <=> session = "alive"
  /\ ~up <=> pub = "off"

Init ==
  /\ up = FALSE /\ drops = 0 /\ ended = FALSE
  /\ rows = [a \in Alarms |-> "absent"] /\ open = 0 /\ groups = 1
  /\ pipe = Idle /\ route = [r \in Routes |-> Idle]
  /\ pub = "off" /\ inbox = "none" /\ session = "none"
  /\ available = "offline" /\ topic = NoTopics

-----------------------------------------------------------------------------
(* The pipeline. *)
Notice == inbox' = IF inbox = "none" THEN "none" ELSE "some"

Stores(a) ==
  /\ up /\ pipe.step = "idle"
  /\ rows[a] = "absent"
  /\ rows' = [rows EXCEPT ![a] = "open"]
  /\ pipe' = [step |-> "counting", count |-> 0]
  /\ UNCHANGED <<up, open, groups, route, mqttVars, drops>>

Counts ==
  /\ pipe.step = "counting"
  /\ pipe' = [step |-> "assigning", count |-> Count]
  /\ UNCHANGED <<up, rows, open, groups, route, mqttVars, drops>>

(* The query fails, or the alarm was not stored: nothing is assigned. *)
CountFails ==
  /\ pipe.step = "counting"
  /\ pipe' = Idle
  /\ Notice
  /\ UNCHANGED <<up, rows, open, groups, route, pub, session, available, topic, ended, drops>>

Publishes ==
  /\ pipe.step = "assigning"
  /\ open' = pipe.count
  /\ pipe' = Idle
  /\ Notice
  /\ UNCHANGED <<up, rows, groups, route, pub, session, available, topic, ended, drops>>

(* Any event that is not an alarm: the heartbeats of the hub keep coming. *)
Beat ==
  /\ up /\ pipe.step = "idle"
  /\ Notice
  /\ UNCHANGED <<up, stateVars, pub, session, available, topic, ended, drops>>

(* A message about a group nobody configured adds it to the dictionary that   *)
(* _publish_state may be in the middle of: it ends with a RuntimeError, which *)
(* nothing catches, and the client disconnects.                               *)
GroupAppears ==
  /\ up /\ pipe.step = "idle"
  /\ groups < MaxGroups
  /\ groups' = groups + 1
  /\ IF pub = "loop"
       THEN /\ pub' = "dead" /\ session' = "none" /\ inbox' = "none" /\ ended' = TRUE
       ELSE /\ Notice /\ UNCHANGED <<pub, session, ended>>
  /\ UNCHANGED <<up, rows, open, pipe, route, available, topic, drops>>

-----------------------------------------------------------------------------
(* The routes, and the confirmation on the phone, which changes only the row. *)
Acknowledges(a) ==
  /\ up /\ route["acknowledge"].step = "idle"
  /\ rows[a] = "open"
  /\ rows' = [rows EXCEPT ![a] = "acked"]
  /\ route' = [route EXCEPT !["acknowledge"].step = "counting"]
  /\ UNCHANGED <<up, open, groups, pipe, mqttVars, drops>>

PhoneAcknowledges(a) ==
  /\ up
  /\ rows[a] = "open"
  /\ rows' = [rows EXCEPT ![a] = "acked"]
  /\ UNCHANGED <<up, open, groups, pipe, route, mqttVars, drops>>

(* acknowledge_all assigns zero without looking again. *)
AcknowledgesAll ==
  /\ up /\ route["all"].step = "idle"
  /\ rows' = [a \in Alarms |-> IF rows[a] = "open" THEN "acked" ELSE rows[a]]
  /\ route' = [route EXCEPT !["all"] = [step |-> "assigning", count |-> 0]]
  /\ UNCHANGED <<up, open, groups, pipe, mqttVars, drops>>

(* The dashboard asks every thirty seconds. *)
Polls ==
  /\ up /\ route["status"].step = "idle"
  /\ route' = [route EXCEPT !["status"].step = "counting"]
  /\ UNCHANGED <<up, rows, open, groups, pipe, mqttVars, drops>>

RouteCounts(r) ==
  /\ route[r].step = "counting"
  /\ route' = [route EXCEPT ![r] = [step |-> "assigning", count |-> Count]]
  /\ UNCHANGED <<up, rows, open, groups, pipe, mqttVars, drops>>

(* Mutant: the status route only answers. *)
RouteAssignsUnlessStatus(r) ==
  /\ route[r].step = "assigning"
  /\ open' = IF r = "status" THEN open ELSE route[r].count
  /\ route' = [route EXCEPT ![r] = Idle]
  /\ UNCHANGED <<up, rows, groups, pipe, mqttVars, drops>>

RouteAssigns(r) ==
  /\ route[r].step = "assigning"
  /\ open' = route[r].count
  /\ route' = [route EXCEPT ![r] = Idle]
  /\ UNCHANGED <<up, rows, groups, pipe, mqttVars, drops>>

-----------------------------------------------------------------------------
(* MqttPublisher._run.  A new connection replaces a lost one, whose last will *)
(* the broker then publishes first.                                           *)
Connects ==
  /\ pub = "waiting"
  /\ pub' = "hello"
  /\ session' = "alive"
  /\ ended' = FALSE
  /\ available' = IF session = "lost" THEN "offline" ELSE available
  /\ UNCHANGED <<up, stateVars, inbox, topic, drops>>

SaysOnline ==
  /\ pub = "hello"
  /\ available' = "online"
  /\ pub' = "discovery"
  /\ UNCHANGED <<up, stateVars, inbox, session, topic, ended, drops>>

Announces ==
  /\ pub = "discovery"
  /\ pub' = "alarm"
  /\ UNCHANGED <<up, stateVars, inbox, session, available, topic, ended, drops>>

(* _publish_state, a topic at a time, each with what the state is then.       *)
Shown(t) ==
  CASE t = "alarm"      -> IF open > 0 THEN 1 ELSE 0
    [] t = "attributes" -> open
    [] t = "partition"  -> groups

After == [alarm |-> "attributes", attributes |-> "partition", partition |-> "loop"]

PublishesTopic ==
  /\ pub \in Topics
  /\ topic' = [topic EXCEPT ![pub] = Shown(pub)]
  /\ pub' = After[pub]
  /\ UNCHANGED <<up, stateVars, inbox, session, available, ended, drops>>

(* The loop over the groups ends; the first time, _consume subscribes now.    *)
LoopEnds ==
  /\ pub = "loop"
  /\ pub' = "idle"
  /\ inbox' = IF inbox = "none" THEN "empty" ELSE inbox
  /\ UNCHANGED <<up, stateVars, session, available, topic, ended, drops>>

Takes ==
  /\ pub = "idle" /\ inbox = "some"
  /\ pub' = "event"
  /\ inbox' \in {"empty", "some"}
  /\ UNCHANGED <<up, stateVars, session, available, topic, ended, drops>>

PublishesEvent ==
  /\ pub = "event"
  /\ pub' = "alarm"
  /\ UNCHANGED <<up, stateVars, inbox, session, available, topic, ended, drops>>

(* Mutant: the queue outlives the connection it was read for. *)
DropsKeepingQueue ==
  /\ session = "alive" /\ drops < MaxDrops
  /\ drops' = drops + 1
  /\ pub' = "idle" /\ inbox' = inbox /\ session' = "lost"
  /\ UNCHANGED <<up, stateVars, available, topic, ended>>

(* MqttError: the connection is gone, and another attempt follows. *)
Drops ==
  /\ session = "alive" /\ drops < MaxDrops
  /\ drops' = drops + 1
  /\ pub' = "waiting" /\ inbox' = "none" /\ session' = "lost"
  /\ UNCHANGED <<up, stateVars, available, topic, ended>>

(* Mutant: the connection has no last will. *)
WillForgotten ==
  /\ session = "lost"
  /\ session' = "none"
  /\ UNCHANGED <<up, stateVars, pub, inbox, available, topic, ended, drops>>

(* External: the broker gives up on a lost connection. *)
WillFires ==
  /\ session = "lost"
  /\ session' = "none"
  /\ available' = "offline"
  /\ UNCHANGED <<up, stateVars, pub, inbox, topic, ended, drops>>

-----------------------------------------------------------------------------
(* restore_from_db counts the open alarms. *)
Start ==
  /\ ~up
  /\ up' = TRUE
  /\ open' = Count
  /\ pub' = "waiting"
  /\ UNCHANGED <<rows, groups, pipe, route, inbox, session, available, topic, ended, drops>>

(* A planned stop: cancelling _run leaves the client's context first, with a  *)
(* clean disconnect that drops the will; _say_goodbye then has no connection. *)
Stop ==
  /\ up /\ drops < MaxDrops
  /\ drops' = drops + 1
  /\ up' = FALSE
  /\ pipe' = Idle /\ route' = [r \in Routes |-> Idle]
  /\ pub' = "off" /\ inbox' = "none"
  /\ session' = IF session = "alive" THEN "none" ELSE session
  /\ ended' = (ended \/ session = "alive")
  /\ UNCHANGED <<rows, open, groups, available, topic>>

Crash ==
  /\ up /\ drops < MaxDrops
  /\ drops' = drops + 1
  /\ up' = FALSE
  /\ pipe' = Idle /\ route' = [r \in Routes |-> Idle]
  /\ pub' = "off" /\ inbox' = "none"
  /\ session' = IF session = "alive" THEN "lost" ELSE session
  /\ UNCHANGED <<rows, open, groups, available, topic, ended>>

Pipe == Counts \/ CountFails \/ Publishes
Publisher == Connects \/ SaysOnline \/ Announces \/ PublishesTopic \/ LoopEnds
             \/ Takes \/ PublishesEvent

Next ==
  \/ \E a \in Alarms : Stores(a) \/ Acknowledges(a) \/ PhoneAcknowledges(a)
  \/ Pipe \/ Beat \/ GroupAppears
  \/ AcknowledgesAll \/ Polls
  \/ \E r \in Routes : RouteCounts(r) \/ RouteAssigns(r)
  \/ Publisher \/ Drops \/ WillFires
  \/ Start \/ Stop \/ Crash

(* The loop runs what can run; the hub goes on sending heartbeats, somebody   *)
(* has the dashboard open, the broker is there, and the process is restarted. *)
Fairness ==
  /\ WF_vars(Pipe) /\ WF_vars(Beat) /\ WF_vars(Publisher) /\ WF_vars(Start)
  /\ WF_vars(Polls) /\ \A r \in Routes : WF_vars(RouteCounts(r) \/ RouteAssigns(r))

Spec == Init /\ [][Next]_vars /\ Fairness

-----------------------------------------------------------------------------
(* The broker says "online" only while it has a session with the publisher,   *)
(* alive or not yet found lost: whoever is cut off or dies goes offline.  The *)
(* exception is a publisher that left with a clean disconnect.                *)
OnlineMeansSession == available = "online" => session # "none" \/ ended

(* However the counts of the pipeline, the routes and the phone cross each     *)
(* other, the number on the dashboard and the retained topics become and stay *)
(* what the database says, unless the publisher has died.                     *)
Agrees ==
  /\ open = Count
  /\ pub # "dead" =>
       topic = [t \in Topics |->
                  CASE t = "alarm" -> IF Count > 0 THEN 1 ELSE 0
                    [] t = "attributes" -> Count
                    [] t = "partition" -> groups]

DashboardSettles == <>[]Agrees
=============================================================================
