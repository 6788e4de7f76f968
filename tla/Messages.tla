------------------------------ MODULE Messages ------------------------------
(***************************************************************************)
(* normalize.py with the tables and windows of config.py: from a message   *)
(* of the hub to an event.  A number in a message keeps its leading zeros, *)
(* since the hub is not consistent about them.                             *)
(***************************************************************************)
EXTENDS Codes

CONSTANTS
  None,
  Scrap,        (* Text that is not a number.                                 *)
  Devices,      (* config.devices, in order: a sequence of [id, name].        *)
  DeviceTypes,  (* config.device_types: a sequence of [id, name].             *)
  Partitions,   (* config.partitions.                                         *)
  Users,        (* config.users.                                              *)
  Day,          (* Units of time in a day.                                    *)
  Offset,       (* Local time minus UTC.                                      *)
  NightStart, NightEnd  (* config.arming.                                     *)

Ids == [zeros : Nat, number : Nat]

ASSUME DayIsLong == Day \in Nat \ {0} /\ Offset \in Int
ASSUME NightIsInDay == NightStart \in 0 .. Day - 1 /\ NightEnd \in 0 .. Day - 1
ASSUME MarksAreNoNumbers == None \notin Ids /\ Scrap \notin Ids /\ None # Scrap
ASSUME TablesAreFilledIn ==
  /\ \A i \in DOMAIN Devices : i \in Nat /\ Devices[i].id \in Ids /\ Devices[i].name # None
  /\ \A i \in DOMAIN Partitions : Partitions[i].id \in Ids /\ Partitions[i].id.number # 0

(* External: an event as pysiaalarm hands it over; only the message is free text. *)
Message ==
  [type : {"SIA-DCS", "ADM-CID"}, code : STRING, ri : Ids \cup {None},
   partition : Ids \cup {None}, id : Ids \cup {None}, message : Ids \cup {None, Scrap},
   stamp : Int \cup {None}]

IsNumber(v) == v \notin {None, Scrap}

(* Mutant: zeros are taken for a number. *)
CleanNothing(v) == v

(* _clean: zeros mean "not applicable". *)
Clean(v) == IF IsNumber(v) /\ v.number = 0 THEN None ELSE v

Or(v, w) == IF v = None THEN w ELSE v

(* _locate: <<number, group>>. *)
Locate(m) ==
  IF m.type = "ADM-CID" THEN <<Clean(m.ri), Clean(m.partition)>>
  ELSE LET candidate == Clean(m.message)
       IN  <<Or(Clean(m.id), IF candidate = Scrap THEN None ELSE candidate),
             Or(Clean(m.partition), Clean(m.ri))>>

(* Mutant: the table is taken literally. *)
MatchLiterally(table, key) ==
  LET hits == {i \in DOMAIN table : table[i].id = key}
  IN  IF hits = {} THEN None ELSE table[Min(hits)].name

(* _match: the key as it is, then without zeros, then by its number. *)
Match(table, key) ==
  LET entries(Test(_)) == {i \in DOMAIN table : Test(table[i].id)}
      literal == entries(LAMBDA id : id = key)
      bare    == entries(LAMBDA id : id = [zeros |-> 0, number |-> key.number])
      equal   == entries(LAMBDA id : id.number = key.number)
      hits    == IF literal # {} THEN literal ELSE IF bare # {} THEN bare ELSE equal
  IN  IF hits = {} THEN None ELSE table[Min(hits)].name

NameIn(table, id, absent) ==
  IF id = None THEN absent
  ELSE Or(Match(table, id), id)

(* _in_window: a window may cross midnight. *)
InWindow(start, end, time) ==
  IF start <= end THEN start <= time /\ time < end
  ELSE time >= start \/ time < end

(* Mutant: the clock of the message is taken as local time. *)
ArmingTitleUTC(code, moment) ==
  IF code \notin NIGHT_ARM_CODES THEN "plain"
  ELSE IF InWindow(NightStart, NightEnd, moment % Day) THEN "night" ELSE "partial"

ArmingTitle(code, moment) ==
  IF code \notin NIGHT_ARM_CODES THEN "plain"
  ELSE IF InWindow(NightStart, NightEnd, (moment + Offset) % Day) THEN "night" ELSE "partial"

(* normalize, with the time of reception; a message without a timestamp (or  *)
(* with one the library could not read) counts as sent when it came in.      *)
Normalize(m, now) ==
  LET info   == Describe(m.code)
      at     == IF m.stamp = None THEN now ELSE m.stamp
      number == Locate(m)[1]
      group  == Locate(m)[2]
      device == IF info.subject = "device" THEN number ELSE None
      area   == IF info.subject = "area" THEN Or(group, number) ELSE group
  IN  [code |-> m.code, category |-> info.category, severity |-> info.severity,
       source |-> "hub", title |-> ArmingTitle(m.code, at),
       device |-> device, name |-> NameIn(Devices, device, "systeem"),
       partition |-> IF m.code \in SYSTEM_ARM_CODES THEN None ELSE area,
       user |-> IF info.subject = "user"
                THEN NameIn(Users, number, "onbekende gebruiker") ELSE None,
       eventAt |-> at, receivedAt |-> now]

(* internal_event: the watchdog, the storage and the self-test. *)
InternalEvent(code, now) ==
  LET info == Describe(code)
  IN  [code |-> code, category |-> info.category, severity |-> info.severity,
       source |-> "internal", title |-> "plain", device |-> None,
       name |-> "alarmcentrale", partition |-> None, user |-> None,
       eventAt |-> now, receivedAt |-> now]

(* simulated_alarm: the code of a real alarm, marked as a test. *)
TEST_ALARM_KINDS == [fire |-> "FA", burglary |-> "BA"]

SimulatedAlarm(kind, device, now) ==
  LET info == Describe(TEST_ALARM_KINDS[kind])
  IN  [code |-> TEST_ALARM_KINDS[kind], category |-> info.category,
       severity |-> info.severity, source |-> "test", title |-> "(TEST)",
       device |-> device, name |-> NameIn(Devices, device, "testmelder"),
       partition |-> None, user |-> None, eventAt |-> now, receivedAt |-> now]
=============================================================================
