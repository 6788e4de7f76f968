------------------------------- MODULE Status -------------------------------
(***************************************************************************)
(* What an event leads to: its row in the log (db.py), the status on the   *)
(* dashboard (state.py) and a notification or none (notify/rules.py).  The *)
(* status is in memory only and is replayed from the log at a restart.     *)
(* One event is processed at a time, as the pipeline does; the module      *)
(* Pipeline has the queues around this.                                    *)
(***************************************************************************)
EXTENDS Messages, FiniteSets, Functions

CONSTANTS
  HubMessages,    (* What the hub may send; a stamp is an age here.           *)
  InternalCodes,  (* What the program submits itself.                         *)
  MinSeverity, Window, QuietEnabled, QuietStart, QuietEnd, QuietAllows,
                  (* config.notifications; Window is dedupe_window_seconds.   *)
  RecentLimit, RecentAge,
                  (* The table of rules.py is swept above 512 entries of 1 h. *)
  Limit, Lookback,(* restore_from_db: 5000 rows of 7 days.                    *)
  Retention,      (* database.retention_days; 0 keeps everything.             *)
  MaxEvents, MaxTime  (* Bounds: events, and time.                            *)

ASSUME WindowIsNatural == Window \in Nat
ASSUME SettingsAreNumbers ==
  /\ {Limit, Lookback, MaxEvents, MaxTime} \subseteq Nat
  /\ Retention \in Int
ASSUME HubSendsMessages == HubMessages \subseteq Message
ASSUME OwnCodesAreInternal == \A c \in InternalCodes : In(c, INTERNAL_CODES)

VARIABLES
  now,         (* The clock, UTC.                                             *)
  log,         (* The table events: a row has the number of its event.        *)
  partitions,  (* SystemState.partitions, from id to [armed, changedAt].      *)
  troubles,    (* SystemState.troubles, from key to [code, since].            *)
  lastAlarm,   (* SystemState.last_alarm.                                     *)
  count,       (* Events so far; a bound.                                     *)
  recent,      (* NotificationRules._recent, from dedupe_key to time.         *)
  (* History, read by properties only. *)
  seen,        (* Events applied to this status, replayed ones included, by   *)
               (* their number.                                               *)
  complete,    (* Every event since the last restart was stored.              *)
  last,        (* The event processed last.                                   *)
  told         (* When a notification last went out, by dedupe key.           *)

vars == <<now, log, partitions, troubles, lastAlarm, count, recent, seen, complete, last, told>>

Empty == [x \in {} |-> None]
Put(f, k, v) == [x \in DOMAIN f \cup {k} |-> IF x = k THEN v ELSE f[x]]
Without(f, k) == [x \in DOMAIN f \ {k} |-> f[x]]

-----------------------------------------------------------------------------
(* SystemState.apply *)
StickyCategories ==
  {"power", "battery", "rf", "communication", "supervision", "burglary", "fire",
   "gas", "heat", "water", "tamper", "system"}

TroubleKey(e) == <<e.category, e.device>>
IsTrouble(e) == e.severity = "trouble" /\ e.category \in StickyCategories

One == [zeros |-> 0, number |-> 1]
Group(e) == Or(e.partition, One)
Arms(e) == e.code \in ARM_CODES
IsArming(e) == Arms(e) \/ e.code \in DISARM_CODES

(* Mutant: a message about the installation only touches its own group. *)
TargetsOwn(known, e) == {Group(e)}

Targets(known, e) ==
  IF e.code \in AREA_ARM_CODES THEN {Group(e)} ELSE known \cup {Group(e)}

ApplyArming(groups, e) ==
  LET targets == Targets(DOMAIN groups, e)
  IN  [p \in DOMAIN groups \cup targets |->
         IF p \in targets THEN [armed |-> Arms(e), changedAt |-> e.receivedAt] ELSE groups[p]]

ApplyTrouble(active, e) ==
  IF IsTrouble(e) THEN Put(active, TroubleKey(e), [code |-> e.code, since |-> e.receivedAt])
  ELSE IF e.severity = "restore" THEN Without(active, TroubleKey(e))
  ELSE active

Named(e) == [code |-> e.code, device |-> e.device, at |-> e.receivedAt]

Apply(status, e) ==
  [groups |-> IF IsArming(e) THEN ApplyArming(status.groups, e) ELSE status.groups,
   active |-> ApplyTrouble(status.active, e),
   alarm  |-> IF e.severity = "alarm" THEN Named(e) ELSE status.alarm]

Show(status) ==
  /\ partitions' = status.groups
  /\ troubles' = status.active
  /\ lastAlarm' = status.alarm

Fresh ==
  [groups |-> [p \in {Partitions[i].id : i \in DOMAIN Partitions} |->
                 [armed |-> FALSE, changedAt |-> None]],
   active |-> Empty,
   alarm  |-> None]

-----------------------------------------------------------------------------
(* NotificationRules.should_notify *)
SEVERITY_ORDER == [heartbeat |-> 0, info |-> 1, restore |-> 2, unknown |-> 3,
                   trouble |-> 4, alarm |-> 5]

(* The windows are in units of a day; quiet hours are compared with UTC. *)
Quiet(time) == QuietEnabled /\ InWindow(QuietStart, QuietEnd, time % Day)
Held(e, time) ==
  \/ SEVERITY_ORDER[e.severity] < SEVERITY_ORDER[MinSeverity]
  \/ (Quiet(time) /\ e.severity \notin QuietAllows \cup {"alarm"})

(* Mutant: two detectors share a key. *)
DedupeKeyCode(e) == <<e.code, None, e.partition>>

DedupeKey(e) == <<e.code, e.device, e.partition>>

IsDuplicate(e, time) ==
  /\ Window > 0
  /\ DedupeKey(e) \in DOMAIN recent
  /\ time - recent[DedupeKey(e)] < Window

ShouldNotify(e, time) ==
  e.severity = "alarm" \/ (~Held(e, time) /\ ~IsDuplicate(e, time))

Stamped(e, time) ==
  LET stamps == Put(recent, DedupeKey(e), time)
  IN  IF Cardinality(DOMAIN stamps) <= RecentLimit THEN stamps
      ELSE [k \in {k \in DOMAIN stamps : stamps[k] > time - RecentAge} |-> stamps[k]]

-----------------------------------------------------------------------------
Init ==
  /\ now = 0
  /\ log = Empty
  /\ partitions = Fresh.groups /\ troubles = Fresh.active /\ lastAlarm = Fresh.alarm
  /\ count = 0 /\ recent = Empty
  /\ seen = Empty /\ complete = TRUE /\ last = None /\ told = Empty

(* EventPipeline._process with the dispatcher behind it; an event that cannot *)
(* be stored counts all the same.                                             *)
Process(e, stored) ==
  /\ count < MaxEvents
  /\ count' = count + 1
  /\ log' = IF stored THEN Put(log, count', e) ELSE log
  /\ Show(Apply([groups |-> partitions, active |-> troubles, alarm |-> lastAlarm], e))
  /\ seen' = Put(seen, count', e)
  /\ complete' = (complete /\ stored)
  /\ last' = e
  /\ IF ShouldNotify(e, now)
       THEN /\ recent' = Stamped(e, now)
            /\ told' = Put(told, <<e.code, e.device, e.partition>>, now)
       ELSE UNCHANGED <<recent, told>>
  /\ UNCHANGED now

HubSends(m, stored) ==
  Process(Normalize([m EXCEPT !.stamp = IF @ = None THEN None ELSE now - @], now), stored)

ProgramSubmits(code, stored) == Process(InternalEvent(code, now), stored)

(* The route /api/selftest/alarm: the device is known, and of that kind or of *)
(* no kind.                                                                   *)
TestAlarm(kind, device, stored) ==
  /\ device # None =>
       /\ \E i \in DOMAIN Devices : Devices[i].id = device
       /\ Match(DeviceTypes, device) \in {None, kind}
  /\ Process(SimulatedAlarm(kind, device, now), stored)

Tick ==
  /\ now < MaxTime
  /\ now' = now + 1
  /\ UNCHANGED <<log, partitions, troubles, lastAlarm, count, recent, seen, complete, last, told>>

(* purge_old_events: alarms stay. *)
Purged ==
  IF Retention <= 0 THEN log
  ELSE Restrict(log, {i \in DOMAIN log :
                        log[i].receivedAt >= now - Retention \/ log[i].severity = "alarm"})

Young(rows) == {i \in DOMAIN rows : rows[i].receivedAt >= now - Lookback}

(* Mutant: the oldest rows instead of the newest. *)
ListedOldest(rows) ==
  Restrict(rows, {i \in Young(rows) : Cardinality({j \in Young(rows) : j < i}) < Limit})

(* list_events(limit, since): the newest rows. *)
Listed(rows) ==
  Restrict(rows, {i \in Young(rows) : Cardinality({j \in Young(rows) : j > i}) < Limit})

(* restore_from_db applies the rows in the order of time: the status after    *)
(* each of the events, for those that are listed.                             *)
Replayed(rows) ==
  LET upTo[n \in 0 .. count] ==
        IF n = 0 THEN Fresh
        ELSE IF n \in DOMAIN rows THEN Apply(upTo[n - 1], rows[n])
        ELSE upTo[n - 1]
  IN  upTo

Replay(rows) == Replayed(rows)[count]

(* The process ends, and starts again: purge_old_events, restore_from_db. *)
Restart ==
  /\ log' = Purged
  /\ seen' = Listed(log')
  /\ Show(Replay(seen'))
  /\ recent' = Empty
  /\ complete' = TRUE
  /\ UNCHANGED <<now, count, last, told>>

Next ==
  \/ \E stored \in BOOLEAN :
       \/ \E m \in HubMessages : HubSends(m, stored)
       \/ \E c \in InternalCodes : ProgramSubmits(c, stored)
       \/ \E kind \in DOMAIN TEST_ALARM_KINDS, i \in DOMAIN Devices :
             TestAlarm(kind, Devices[i].id, stored) \/ TestAlarm(kind, None, stored)
  \/ Tick
  \/ Restart

Spec == Init /\ [][Next]_vars

-----------------------------------------------------------------------------
TypeOK ==
  /\ now \in 0 .. MaxTime
  /\ \A p \in DOMAIN partitions :
       p \in Ids /\ partitions[p].armed \in BOOLEAN /\ p.number # 0
  /\ \A k \in DOMAIN troubles : k[1] \in StickyCategories /\ troubles[k].since \in 0 .. now
  /\ \A k \in DOMAIN recent : recent[k] \in 0 .. now
  /\ \A k \in DOMAIN told : told[k] \in 0 .. now
  /\ complete \in BOOLEAN

(* The last of the given events that satisfies a test, by index; 0 for none. *)
LastIndex(events, Test(_)) == Max({0} \cup {i \in DOMAIN events : Test(events[i])})

(* The status says what the last word on each subject was, whatever came     *)
(* between and however the process learnt of it: a group is armed when the    *)
(* last message about it, or about the whole house, armed it; a trouble is    *)
(* shown when no restoral came since of the same category and of the same     *)
(* id, as the hub wrote it: "2" and "02" are two subjects here, as they are   *)
(* for _trouble_key.  RestoralClears below is about the detector itself.      *)
Concerns(e, p) == IsArming(e) /\ (e.code \notin AREA_ARM_CODES \/ Group(e) = p)
Settles(e, k) == TroubleKey(e) = k /\ (IsTrouble(e) \/ e.severity = "restore")

StatusIsLastWord ==
  /\ \A p \in DOMAIN partitions :
       LET i == LastIndex(seen, LAMBDA e : Concerns(e, p))
       IN  partitions[p].armed = (i # 0 /\ Arms(seen[i]))
  /\ DOMAIN troubles =
       {k \in {TroubleKey(seen[i]) : i \in DOMAIN seen} :
          LET i == LastIndex(seen, LAMBDA e : Settles(e, k))
          IN  i # 0 /\ IsTrouble(seen[i])}

(* "Een herstel ruimt de storing en het alarm van dezelfde melder op"         *)
(* (state.py:131), and the hub writes one detector as "2" and as "02"         *)
(* (config.py:315-319): a trouble of a detector is shown only while that      *)
(* detector, however its number is written, has not reported a restoral of    *)
(* the same category since.                                                   *)
SameDetector(k, e) ==
  /\ e.category = k[1] /\ e.device # None /\ e.device.number = k[2].number
  /\ IsTrouble(e) \/ e.severity = "restore"

RestoralClears ==
  \A k \in DOMAIN troubles :
    k[2] # None =>
      LET i == LastIndex(seen, LAMBDA e : SameDetector(k, e))
      IN  i # 0 /\ IsTrouble(seen[i])

(* A restart changes nothing about what the replayed rows speak of, as long   *)
(* as every event had been stored; what only older rows spoke of is forgotten.*)
RestartAgrees ==
  [][Restart /\ complete =>
       \A i \in DOMAIN seen' :
          LET e == seen'[i]
          IN  /\ \A p \in DOMAIN partitions' : Concerns(e, p) => partitions'[p] = partitions[p]
              /\ LET k == TroubleKey(e)
                 IN  Settles(e, k) => /\ k \in DOMAIN troubles' <=> k \in DOMAIN troubles
                                      /\ k \in DOMAIN troubles => troubles'[k] = troubles[k]
              /\ e.severity = "alarm" => lastAlarm' = lastAlarm]_vars

(* Nothing that deserves a notification is held back because another detector *)
(* or another code was just reported: an alarm is notified at once, and an    *)
(* event above the threshold and outside the quiet hours has been notified,   *)
(* for the same code, detector and group, within the window.                  *)
EveryDetectorHeard ==
  last # None =>
    LET k == <<last.code, last.device, last.partition>>
    IN  /\ last.severity = "alarm" => k \in DOMAIN told /\ told[k] = last.receivedAt
        /\ ~Held(last, last.receivedAt) =>
             /\ k \in DOMAIN told
             /\ told[k] = last.receivedAt \/ told[k] > last.receivedAt - Window

(* A code that is not in the table, but whose description speaks of an alarm  *)
(* and not of a restoral, is an alarm, and so gets past every rule.           *)
UnknownAlarmRings ==
  \A i \in DOMAIN seen :
    LET c == seen[i].code
    IN  /\ ~In(c, Translated) /\ c \in DOMAIN Sia
        /\ "alarm" \in Sia[c].words
        /\ Sia[c].words \cap {"restore", "restoral", "restored"} = {}
        => seen[i].severity = "alarm"

(* A detector of the configuration has one name, with or without zeros.       *)
OneNamePerDetector ==
  \A i, j \in DOMAIN seen :
    LET d == seen[i].device  e == seen[j].device
    IN  /\ d # None /\ e # None /\ d.number = e.number
        /\ \E n \in DOMAIN Devices : Devices[n].id.number = d.number
        => seen[i].name = seen[j].name

(* A night arming is called so exactly when, by the local clock at the moment *)
(* the hub put in the message, less than the length of the night has passed   *)
(* since its beginning.                                                       *)
NightIsLocal ==
  \A i \in DOMAIN seen :
    seen[i].code \in NIGHT_ARM_CODES =>
      (seen[i].title = "night" <=>
         (seen[i].eventAt + Offset - NightStart) % Day < (NightEnd - NightStart) % Day)
=============================================================================
