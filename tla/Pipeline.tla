------------------------------ MODULE Pipeline ------------------------------
(***************************************************************************)
(* pipeline.py, with receiver.py before it, the dispatcher behind it and   *)
(* main.py around it.  One task takes events from a bounded queue, stores  *)
(* each, applies it to the state and publishes it on the bus; an event     *)
(* that cannot be stored is published all the same, and the outage of the  *)
(* storage is itself reported by events that take the same way.            *)
(***************************************************************************)
EXTENDS EventBus, FiniteSets, SequencesExt

CONSTANTS
  HubEvents,   (* What the hub and the watchdog submit, each once.            *)
  Alarms,      (* Those with severity alarm.                                  *)
  Emergencies, (* Alarms in a category of pushover.categories.                *)
  Dispatcher,  (* The subscriber that sends notifications.                    *)
  QueueSize,   (* queue_size of the pipeline.                                 *)
  MaxFailures  (* How often a call to the database fails.  A bound.           *)

Notices == {"DBFAIL", "DBOK"}

ASSUME EventsAreTyped ==
  /\ Events = HubEvents \cup Notices
  /\ HubEvents \cap Notices = {}
  /\ Emergencies \subseteq Alarms /\ Alarms \subseteq HubEvents
ASSUME DispatcherSubscribes == Dispatcher \in Subscribers
ASSUME SizesAreNatural == QueueSize \in Nat \ {0} /\ MaxFailures \in Nat

VARIABLES
  mode,       (* The process is up, stopping (Application.stop) or down.      *)
  queue,      (* EventPipeline._queue.                                        *)
  cur,        (* The event in _process, if any.                               *)
  step,       (* Its await: storing, or stored when the commit is done.       *)
  broken,     (* _storage_broken.                                             *)
  trouble,    (* The storage trouble is in SystemState.troubles.              *)
  log,        (* The rows of the table events.                                *)
  acked,      (* Rows with acknowledged_at.                                   *)
  sending,    (* Alarms with a running _send.                                 *)
  failures,   (* Failed calls so far.                                         *)
  (* History, read by properties only. *)
  submitted,  (* Hub events handed to submit.                                 *)
  refused,    (* Those the full queue refused.                                *)
  lost,       (* Alarms in memory only when the process went down.            *)
  skipped,    (* Alarms a full queue of the dispatcher gave up.               *)
  handled,    (* Alarms whose send has ended: delivered, or logged as failed. *)
  steady      (* The process began without trouble and refused no notice.     *)

workVars == <<queue, cur, step, broken, trouble, failures, steady>>
history  == <<submitted, refused, lost, skipped, handled>>
vars == <<busVars, mode, workVars, log, acked, sending, history>>

TypeOK ==
  /\ BusTypeOK
  /\ mode \in {"up", "stopping", "down"}
  /\ queue \in Seq(Events) /\ Len(queue) <= QueueSize
  /\ cur \in Events \cup {NoEvent}
  /\ step \in {"idle", "storing", "stored"} /\ (step = "idle" <=> cur = NoEvent)
  /\ broken \in BOOLEAN /\ trouble \in BOOLEAN /\ steady \in BOOLEAN
  /\ log \in Seq(Events)
  /\ acked \subseteq Alarms /\ sending \subseteq Alarms
  /\ failures \in 0 .. MaxFailures
  /\ submitted \subseteq HubEvents /\ refused \subseteq HubEvents
  /\ lost \subseteq Alarms /\ skipped \subseteq Alarms /\ handled \subseteq Alarms

Rows == {log[i] : i \in DOMAIN log}

Init ==
  /\ BusInit
  /\ mode = "down"
  /\ queue = <<>> /\ cur = NoEvent /\ step = "idle"
  /\ broken = FALSE /\ trouble = FALSE /\ steady = TRUE
  /\ log = <<>> /\ acked = {} /\ sending = {} /\ failures = 0
  /\ submitted = {} /\ refused = {} /\ lost = {} /\ skipped = {} /\ handled = {}

-----------------------------------------------------------------------------
(* submit. *)
Room == Len(queue) < QueueSize

(* Mutant: the queue has no bound. *)
EnqueueAlways(e) == Append(queue, e)

Enqueue(e) == IF Room THEN Append(queue, e) ELSE queue

(* Receiver._handle: the library has already answered the hub. *)
HubSubmits(e) ==
  /\ mode = "up"
  /\ e \notin submitted
  /\ submitted' = submitted \cup {e}
  /\ queue' = Enqueue(e)
  /\ refused' = IF Room THEN refused ELSE refused \cup {e}
  /\ UNCHANGED <<busVars, mode, cur, step, broken, trouble, failures, steady,
                 log, acked, sending, lost, skipped, handled>>

(* The notices of _store go to the end of the same queue. *)
Notify(notice) ==
  /\ queue' = Enqueue(notice)
  /\ steady' = (steady /\ Room)

(* SystemState.apply, for the only trouble modelled here. *)
Apply(e) == trouble' = IF e \in Notices THEN e = "DBFAIL" ELSE trouble

(* What the dispatcher loses when its queue is full. *)
Overtaken ==
  IF Dispatcher \in subscribed /\ Len(inbox[Dispatcher]) = Capacity
  THEN {Head(inbox[Dispatcher])} \cap Alarms ELSE {}

(* The end of _process, from apply to publish. *)
Spread ==
  /\ Apply(cur)
  /\ Publish(cur)
  /\ skipped' = skipped \cup Overtaken
  /\ cur' = NoEvent
  /\ step' = "idle"

Get ==
  /\ mode # "down"
  /\ step = "idle"
  /\ queue # <<>>
  /\ cur' = Head(queue)
  /\ queue' = Tail(queue)
  /\ step' = "storing"
  /\ UNCHANGED <<busVars, mode, broken, trouble, failures, steady, log, acked,
                 sending, history>>

(* store_event commits. *)
Commit ==
  /\ step = "storing"
  /\ log' = Append(log, cur)
  /\ step' = "stored"
  /\ UNCHANGED <<busVars, mode, queue, cur, broken, trouble, failures, steady, acked,
                 sending, history>>

(* Mutant: the end of the outage is not reported. *)
StoredSilently ==
  /\ step = "stored"
  /\ broken' = FALSE
  /\ UNCHANGED <<queue, steady>>
  /\ Spread
  /\ UNCHANGED <<mode, failures, log, acked, sending, submitted, refused, lost, handled>>

(* store_event has returned. *)
Stored ==
  /\ step = "stored"
  /\ broken' = FALSE
  /\ IF broken THEN Notify("DBOK") ELSE UNCHANGED <<queue, steady>>
  /\ Spread
  /\ UNCHANGED <<mode, failures, log, acked, sending, submitted, refused, lost, handled>>

(* store_event raises. *)
StoreFailed ==
  /\ step = "storing"
  /\ failures < MaxFailures
  /\ failures' = failures + 1
  /\ broken' = TRUE
  /\ IF broken THEN UNCHANGED <<queue, steady>> ELSE Notify("DBFAIL")
  /\ Spread
  /\ UNCHANGED <<mode, log, acked, sending, submitted, refused, lost, handled>>

-----------------------------------------------------------------------------
(* The dispatcher: _run takes an event, _handle spawns a _send for an alarm *)
(* (NotificationRules never holds one back).                                *)
Dispatch ==
  /\ Take(Dispatcher)
  /\ sending' = sending \cup ({Head(inbox[Dispatcher])} \cap Alarms)
  /\ UNCHANGED <<mode, workVars, log, acked, history>>

(* _send returns; a failure has been logged. *)
SendEnds(e) ==
  /\ e \in sending
  /\ sending' = sending \ {e}
  /\ handled' = handled \cup {e}
  /\ UNCHANGED <<busVars, mode, workVars, log, acked, submitted, refused, lost, skipped>>

(* A web socket comes, reads, goes. *)
Watches(s) ==
  /\ mode = "up"
  /\ s # Dispatcher
  /\ Subscribe(s) \/ Take(s) \/ Unsubscribe({s} \cap subscribed)
  /\ UNCHANGED <<mode, workVars, log, acked, sending, history>>

(* An acknowledgement, on the dashboard or the phone. *)
Acknowledge(e) ==
  /\ mode = "up"
  /\ e \in (Rows \cap Alarms) \ acked
  /\ acked' = acked \cup {e}
  /\ UNCHANGED <<busVars, mode, workVars, log, sending, history>>

-----------------------------------------------------------------------------
(* Application.start, up to the resumption of open alarms: the state is     *)
(* replayed from the log, the dispatcher subscribes before the receiver     *)
(* lets events in, and alarms that are still open are sent again if their   *)
(* category is one of pushover.categories.                                  *)
RestoredTrouble ==
  LET notices == SelectSeq(log, LAMBDA e : e \in Notices)
  IN  notices # <<>> /\ Last(notices) = "DBFAIL"

(* Mutant: nothing is resumed. *)
StartWithoutResume ==
  /\ mode = "down"
  /\ mode' = "up"
  /\ Subscribe(Dispatcher)
  /\ trouble' = RestoredTrouble
  /\ steady' = ~RestoredTrouble
  /\ UNCHANGED <<queue, cur, step, broken, failures, log, acked, sending, history>>

Start ==
  /\ mode = "down"
  /\ mode' = "up"
  /\ Subscribe(Dispatcher)
  /\ trouble' = RestoredTrouble
  /\ steady' = ~RestoredTrouble
  /\ sending' = (Rows \cap Emergencies) \ acked
  /\ UNCHANGED <<queue, cur, step, broken, failures, log, acked, history>>

(* Application.stop, first half: the web server, the watchdog, the receiver *)
(* and the MQTT publisher are gone; the pipeline still works.               *)
BeginStop ==
  /\ mode = "up"
  /\ mode' = "stopping"
  /\ Unsubscribe(Subscribers \ {Dispatcher})
  /\ UNCHANGED <<workVars, log, acked, sending, history>>

(* What is in memory is gone: of the alarms the dispatcher had, those that no *)
(* restart sends again are lost, and so is whatever was not stored.           *)
Resumable == (Rows \cap Emergencies) \ acked
Held == sending \cup (IF Dispatcher \in subscribed THEN ToSet(inbox[Dispatcher]) ELSE {})
Pending == ToSet(queue) \cup ({cur} \ {NoEvent})

Down ==
  /\ mode' = "down"
  /\ Unsubscribe(Subscribers)
  /\ queue' = <<>> /\ cur' = NoEvent /\ step' = "idle"
  /\ broken' = FALSE /\ trouble' = FALSE /\ steady' = TRUE /\ sending' = {}
  /\ UNCHANGED <<failures, log, acked, submitted, refused, skipped, handled>>

(* Mutant: stop does not wait for the queue. *)
StopUndrained ==
  /\ mode = "stopping"
  /\ Down
  /\ lost' = lost \cup ((Held \cap Alarms) \ Resumable)

(* pipeline.stop: join returns, then the dispatcher and its sends are cancelled. *)
StopDrained ==
  /\ mode = "stopping"
  /\ queue = <<>> /\ step = "idle"
  /\ Down
  /\ lost' = lost \cup ((Held \cap Alarms) \ Resumable)

(* The process is killed, or join times out after five seconds. *)
Crash ==
  /\ mode # "down"
  /\ Down
  /\ lost' = lost \cup (((Held \cup Pending) \cap Alarms) \ Resumable)

Next ==
  \/ \E e \in HubEvents : HubSubmits(e) \/ SendEnds(e) \/ Acknowledge(e)
  \/ Get \/ Commit \/ Stored \/ StoreFailed
  \/ Dispatch
  \/ \E s \in Subscribers : Watches(s)
  \/ Start \/ BeginStop \/ StopDrained \/ Crash

(* The event loop runs every task that can run, the call to the database     *)
(* comes back, _send gives up after MAX_ATTEMPTS at the latest, and the       *)
(* supervisor of the process starts it again.                                 *)
Fairness ==
  /\ WF_vars(Get) /\ WF_vars(Commit \/ StoreFailed) /\ WF_vars(Stored)
  /\ WF_vars(Dispatch) /\ \A e \in HubEvents : WF_vars(SendEnds(e))
  /\ WF_vars(Start) /\ WF_vars(StopDrained)

(* The process is stopped and killed finitely often. *)
Settles == <>[][~Crash]_vars /\ <>[][~BeginStop]_vars

Spec == Init /\ [][Next]_vars /\ Fairness

-----------------------------------------------------------------------------
(* An alarm that submit accepted is in the hands of somebody: in the queue,   *)
(* in _process, with the dispatcher, handled, acknowledged, in the log for    *)
(* the next start to resume; or it is one of those the code knowingly gives   *)
(* up: overtaken in a full subscriber queue, or in memory only at the end of  *)
(* the process.  In particular, an alarm that could not be stored still       *)
(* reaches the dispatcher, and a planned stop loses nothing that was queued.  *)
NoAlarmLost ==
  \A e \in (Alarms \cap submitted) \ refused :
     \/ e \in Pending \cup Held \cup handled \cup skipped \cup lost \cup acked
     \/ mode = "down" /\ e \in Resumable

(* Once the notices of _store have been processed, the dashboard shows the    *)
(* storage trouble exactly while the last call to the database failed, in a   *)
(* process that began without trouble and whose queue took every notice.      *)
OutageShown ==
  mode # "down" /\ steady /\ Pending \cap Notices = {} => (trouble <=> broken)

(* The bus keeps the promise of Feed through every restart of the process.    *)
IsFeed == F!Spec

(* A stored alarm of an emergency category is handled in the end, unless it   *)
(* is acknowledged or overtaken: a process that dies with it in any queue     *)
(* takes it up again at the next start.                                       *)
AlarmHandled ==
  Settles => \A e \in Emergencies : e \in Rows ~> e \in handled \cup acked \cup skipped
=============================================================================
