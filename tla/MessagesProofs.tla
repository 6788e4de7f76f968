---------------------------- MODULE MessagesProofs ----------------------------
(***************************************************************************)
(* Lemmas about the translation of a message: the codes, the names and the *)
(* windows of Codes and Messages, for every table and configuration.       *)
(***************************************************************************)
EXTENDS Messages, WellFoundedInduction, TLAPS

(* Every set of numbers that is not empty has a least one, and a largest one if *)
(* it is bounded.  The least counterexample serves for induction below.         *)
LEMMA HasLeast ==
  ASSUME NEW S \in SUBSET Nat, S # {}
  PROVE  \E n \in S : \A m \in S : n <= m
  <1> DEFINE less == OpToRel(<, Nat)
  <1>1. IsWellFoundedOn(less, Nat)
    BY NatLessThanWellFounded, Zenon
  <1>2. PICK n \in S : \A m \in S : ~ (<<m, n>> \in less)
    <2> HIDE DEF less
    <2> QED BY <1>1, WFMin
  <1>3. \A m \in S : ~(m < n)
    BY <1>2 DEF OpToRel
  <1> QED BY <1>3

LEMMA HasLargest ==
  ASSUME NEW S \in SUBSET Nat, S # {}, NEW b \in Nat, \A n \in S : n <= b
  PROVE  /\ Max(S) \in S /\ \A n \in S : n <= Max(S)
  <1> DEFINE U == {u \in Nat : \A n \in S : n <= u}
  <1>1. PICK u \in U : \A v \in U : u <= v
    <2>1. U \in SUBSET Nat /\ b \in U OBVIOUS
    <2> HIDE DEF U
    <2> QED BY <2>1, HasLeast
  <1>2. u \in S
    <2> SUFFICES ASSUME u \notin S PROVE FALSE OBVIOUS
    <2>1. PICK n \in S : TRUE OBVIOUS
    <2>2. n < u /\ u - 1 \in Nat BY <2>1
    <2>3. \A k \in S : k <= u - 1 OBVIOUS
    <2>4. u - 1 \in U BY <2>2, <2>3
    <2> QED BY <1>1, <2>4
  <1>3. \E x \in S : \A y \in S : x >= y
    BY <1>2
  <1>4. Max(S) \in S /\ \A y \in S : Max(S) >= y
    BY <1>3 DEF Max
  <1> QED BY <1>4

-----------------------------------------------------------------------------
(* What the translation of a message sees to, for every event by itself. *)
Rings(e) ==
  /\ ~In(e.code, Translated) /\ e.code \in DOMAIN Sia
  /\ "alarm" \in Sia[e.code].words
  /\ Sia[e.code].words \cap {"restore", "restoral", "restored"} = {}
  => e.severity = "alarm"

IsNamed(e) ==
  /\ e.device \in Ids \cup {None}
  /\ e.device # None => e.name = Or(Match(Devices, e.device), e.device)

IsTitled(e) ==
  e.code \in NIGHT_ARM_CODES =>
    (e.title = "night" <=>
       (e.eventAt + Offset - NightStart) % Day < (NightEnd - NightStart) % Day)

IsPlaced(e) == e.partition # None => e.partition \in Ids /\ e.partition.number # 0

Sound(e) == Rings(e) /\ IsNamed(e) /\ IsTitled(e) /\ IsPlaced(e)

(* Division with remainder has one result. *)
LEMMA RemainderIs ==
  ASSUME NEW d \in Nat \ {0}, NEW q \in Int, NEW r \in 0 .. d - 1
  PROVE  (q * d + r) % d = r
  <1> DEFINE a == q * d + r
             k == (a \div d) - q
  <1>1. /\ a \in Int /\ a \div d \in Int /\ a % d \in 0 .. d - 1
        /\ a = d * (a \div d) + (a % d)
    OBVIOUS
  <1>2. k \in Int /\ d * k = r - (a % d)
    BY <1>1
  <1>3. -d < d * k /\ d * k < d
    BY <1>1, <1>2
  <1>4. k = 0
    <2> HIDE DEF k
    <2>1. ASSUME k >= 1 PROVE d * k >= d
      BY <1>2, <2>1
    <2>2. ASSUME k <= -1 PROVE d * k <= -d
      BY <1>2, <2>2
    <2> QED
      BY <1>2, <1>3, <2>1, <2>2
  <1> QED
    BY <1>1, <1>2, <1>4

(* _in_window: a window of the local clock holds exactly the moments that are   *)
(* less than its length after its beginning, also when it crosses midnight.     *)
THEOREM NightWindow ==
  ASSUME NEW time \in Int
  PROVE  InWindow(NightStart, NightEnd, time % Day)
           <=> (time - NightStart) % Day < (NightEnd - NightStart) % Day
  <1> DEFINE x == time % Day
             q == time \div Day
             since(u) == IF u >= NightStart THEN u - NightStart ELSE u - NightStart + Day
  <1>1. /\ Day \in Nat \ {0} /\ NightStart \in 0 .. Day - 1 /\ NightEnd \in 0 .. Day - 1
        /\ x \in 0 .. Day - 1 /\ q \in Int /\ time = q * Day + x
    BY DayIsLong, NightIsInDay
  <1>2. ASSUME NEW u \in 0 .. Day - 1, NEW p \in Int
        PROVE  (p * Day + u - NightStart) % Day = since(u)
    <2>1. CASE u >= NightStart
      <3>1. u - NightStart \in 0 .. Day - 1 /\ p * Day \in Int
        BY <1>1, <2>1
      <3>2. (p * Day + (u - NightStart)) % Day = u - NightStart
        BY <1>1, <3>1, RemainderIs
      <3>3. p * Day + (u - NightStart) = p * Day + u - NightStart
        BY <1>1, <3>1
      <3> QED
        BY <2>1, <3>2, <3>3
    <2>2. CASE ~(u >= NightStart)
      <3>1. /\ u - NightStart + Day \in 0 .. Day - 1 /\ p - 1 \in Int /\ p * Day \in Int
            /\ (p - 1) * Day = p * Day - Day
        BY <1>1, <2>2
      <3>2. ((p - 1) * Day + (u - NightStart + Day)) % Day = u - NightStart + Day
        BY <1>1, <3>1, RemainderIs
      <3>3. (p - 1) * Day + (u - NightStart + Day) = p * Day + u - NightStart
        BY <1>1, <3>1
      <3> QED
        BY <2>2, <3>2, <3>3
    <2> QED
      BY <2>1, <2>2
  <1>3. (time - NightStart) % Day = since(x)
    <2>1. (q * Day + x - NightStart) % Day = since(x)
      <3> HIDE DEF x, q, since
      <3> QED
        BY <1>1, <1>2
    <2>2. q * Day + x - NightStart = time - NightStart
      <3>1. q * Day \in Int
        BY <1>1
      <3> DEFINE y == q * Day
      <3> HIDE DEF x, q, y
      <3>2. y \in Int /\ x \in Int /\ NightStart \in Int /\ time = y + x
        BY <1>1, <3>1 DEF y
      <3>3. y + x - NightStart = time - NightStart
        BY <3>2
      <3> QED
        BY <3>3 DEF y
    <2> QED
      BY <2>1, <2>2, Zenon
  <1>4. (NightEnd - NightStart) % Day = since(NightEnd)
    <2>1. (0 * Day + NightEnd - NightStart) % Day = since(NightEnd)
      <3>1. 0 \in Int /\ NightEnd \in 0 .. Day - 1
        BY <1>1
      <3> HIDE DEF since
      <3> QED
        BY <1>2, <3>1, Zenon
    <2>2. 0 * Day + NightEnd - NightStart = NightEnd - NightStart
      BY <1>1
    <2> QED
      BY <2>1, <2>2, Zenon
  <1>5. InWindow(NightStart, NightEnd, x) <=> since(x) < since(NightEnd)
    <2> HIDE DEF x
    <2> QED
      BY <1>1 DEF InWindow
  <1> QED
    BY <1>3, <1>4, <1>5

(* A night arming has the title that the local clock asks for. *)
LEMMA TitleIs ==
  ASSUME NEW code \in NIGHT_ARM_CODES, NEW moment \in Int
  PROVE  ArmingTitle(code, moment) = "night"
           <=> (moment + Offset - NightStart) % Day < (NightEnd - NightStart) % Day
  <1>1. moment + Offset \in Int
    BY DayIsLong
  <1>2. ArmingTitle(code, moment) = "night"
          <=> InWindow(NightStart, NightEnd, (moment + Offset) % Day)
    BY DEF ArmingTitle
  <1>3. \A time \in Int : InWindow(NightStart, NightEnd, time % Day)
                           <=> (time - NightStart) % Day < (NightEnd - NightStart) % Day
    BY NightWindow
  <1>4. (moment + Offset) - NightStart = moment + Offset - NightStart
    BY DayIsLong, NightIsInDay
  <1>5. InWindow(NightStart, NightEnd, (moment + Offset) % Day)
          <=> ((moment + Offset) - NightStart) % Day < (NightEnd - NightStart) % Day
    BY <1>1, <1>3, Zenon
  <1> QED
    BY <1>2, <1>4, <1>5, Zenon

(* The hints are read in order, and those of a restoral come first. *)
LEMMA GuessRings ==
  ASSUME NEW words, "alarm" \in words, words \cap {"restore", "restoral", "restored"} = {}
  PROVE  Guess(words).severity = "alarm"
  <1> DEFINE found == {i \in DOMAIN SeverityHints : SeverityHints[i][1] \in words}
  <1>1. DOMAIN SeverityHints = 1 .. 9
    BY DEF SeverityHints
  <1>2. /\ SeverityHints[1][1] = "restoral" /\ SeverityHints[2][1] = "restore"
        /\ SeverityHints[3][1] = "restored"
        /\ SeverityHints[4][1] = "alarm" /\ SeverityHints[4][2] = "alarm"
    BY DEF SeverityHints
  <1>3. 4 \in found /\ found \subseteq 4 .. 9
    <2> HIDE DEF SeverityHints
    <2>1. \A i \in 1 .. 9 : i \in {1, 2, 3} \/ i \in 4 .. 9
      OBVIOUS
    <2> QED
      BY <1>1, <1>2, <2>1
  <1> HIDE DEF found
  <1>4. Min(found) = 4
    <2>1. \A i \in found : i \in Int /\ 4 <= i
      BY <1>3
    <2>2. Min(found) \in found /\ Min(found) <= 4
      BY <1>3, <2>1 DEF Min
    <2> QED
      BY <2>1, <2>2
  <1>5. FirstHint(SeverityHints, words, "info") = "alarm"
    BY <1>2, <1>3, <1>4 DEF FirstHint, found
  <1> QED
    BY <1>5 DEF Guess

(* describe: a code of SIA is never one that the program made up. *)
LEMMA DescribeRings ==
  ASSUME NEW c \in DOMAIN Sia, ~In(c, Translated), "alarm" \in Sia[c].words,
         Sia[c].words \cap {"restore", "restoral", "restored"} = {}
  PROVE  Describe(c).severity = "alarm"
  <1>1. c # NoCode /\ ~In(c, INTERNAL_CODES)
    BY OwnCodesAreNoSia
  <1>2. Describe(c).severity = Guess(Sia[c].words).severity
    BY <1>1 DEF Describe
  <1> QED
    BY <1>2, GuessRings

(* What a message says about its detector and group is a number or nothing. *)
LEMMA LocateFinds ==
  ASSUME NEW m \in Message
  PROVE  /\ Locate(m)[1] # None => Locate(m)[1] \in Ids /\ Locate(m)[1].number # 0
         /\ Locate(m)[2] # None => Locate(m)[2] \in Ids /\ Locate(m)[2].number # 0
  <1> DEFINE Found(v) == v # None => v \in Ids /\ v.number # 0
  <1>1. \A v \in Ids \cup {None} : Found(Clean(v))
    BY MarksAreNoNumbers DEF Clean, IsNumber
  <1>2. \A v \in Ids \cup {None, Scrap} : Clean(v) # Scrap => Found(Clean(v))
    BY MarksAreNoNumbers DEF Clean, IsNumber
  <1>3. \A v, w : Found(v) /\ Found(w) => Found(Or(v, w))
    BY DEF Or
  <1>4. /\ m.ri \in Ids \cup {None} /\ m.partition \in Ids \cup {None}
        /\ m.id \in Ids \cup {None} /\ m.message \in Ids \cup {None, Scrap}
    BY DEF Message
  <1>5. Found(IF Clean(m.message) = Scrap THEN None ELSE Clean(m.message))
    BY <1>2, <1>4
  <1> DEFINE text == IF Clean(m.message) = Scrap THEN None ELSE Clean(m.message)
  <1>6. /\ Found(Clean(m.ri)) /\ Found(Clean(m.partition)) /\ Found(Clean(m.id))
    BY <1>1, <1>4
  <1>7. Found(Or(Clean(m.id), text)) /\ Found(Or(Clean(m.partition), Clean(m.ri)))
    <2> HIDE DEF Found, text
    <2> QED
      BY <1>3, <1>5, <1>6 DEF text
  <1>8. Locate(m) = IF m.type = "ADM-CID" THEN <<Clean(m.ri), Clean(m.partition)>>
                    ELSE <<Or(Clean(m.id), text), Or(Clean(m.partition), Clean(m.ri))>>
    BY DEF Locate
  <1>9. Found(Locate(m)[1]) /\ Found(Locate(m)[2])
    <2> HIDE DEF Found, text
    <2> QED
      BY <1>6, <1>7, <1>8
  <1> QED
    BY <1>9

(* normalize: whatever the hub sends, an alarm that is not in the table rings, a *)
(* detector gets its configured name, a night arming its local title, and a     *)
(* group that is named has a number that is not zero.                           *)
THEOREM NormalizeIsSound ==
  ASSUME NEW m \in Message, NEW time \in Int
  PROVE  Sound(Normalize(m, time))
  <1> DEFINE e == Normalize(m, time)
             at == IF m.stamp = None THEN time ELSE m.stamp
  <1>1. /\ Locate(m)[1] # None => Locate(m)[1] \in Ids /\ Locate(m)[1].number # 0
        /\ Locate(m)[2] # None => Locate(m)[2] \in Ids /\ Locate(m)[2].number # 0
    BY LocateFinds
  <1>2. Rings(e)
    <2>1. e.code = m.code /\ e.severity = Describe(m.code).severity
      BY DEF Normalize
    <2> QED
      BY <2>1, DescribeRings DEF Rings
  <1>3. IsNamed(e)
    <2>1. /\ e.device = IF Describe(m.code).subject = "device" THEN Locate(m)[1] ELSE None
          /\ e.name = NameIn(Devices, e.device, "systeem")
      BY DEF Normalize
    <2> QED
      BY <1>1, <2>1 DEF IsNamed, NameIn
  <1>4. IsTitled(e)
    <2>1. e.code = m.code /\ e.title = ArmingTitle(m.code, at) /\ e.eventAt = at
      BY DEF Normalize
    <2>2. at \in Int
      BY DEF Message
    <2> QED
      BY <2>1, <2>2, TitleIs DEF IsTitled
  <1>5. IsPlaced(e)
    <2>1. e.partition \in {None, Locate(m)[1], Locate(m)[2]}
      BY DEF Normalize, Or
    <2> QED
      BY <1>1, <2>1 DEF IsPlaced
  <1> QED
    BY <1>2, <1>3, <1>4, <1>5 DEF Sound

(* The events of the program itself have no detector, no group and no night. *)
LEMMA InternalIsSound ==
  ASSUME NEW c, In(c, INTERNAL_CODES), NEW time
  PROVE  Sound(InternalEvent(c, time))
  <1> DEFINE e == InternalEvent(c, time)
  <1>1. e.code = c /\ e.device = None /\ e.partition = None
    BY DEF InternalEvent
  <1>2. c \notin DOMAIN Sia
    BY OwnCodesAreNoSia
  <1>3. c \notin NIGHT_ARM_CODES
    BY DEF In, INTERNAL_CODES, Rows, NIGHT_ARM_CODES
  <1> HIDE DEF e
  <1> QED
    BY <1>1, <1>2, <1>3 DEF Sound, Rings, IsNamed, IsTitled, IsPlaced, e

(* A test alarm has the code of a real one, and the name of a known detector. *)
LEMMA TestIsSound ==
  ASSUME NEW kind \in DOMAIN TEST_ALARM_KINDS, NEW device \in Ids \cup {None}, NEW time
  PROVE  Sound(SimulatedAlarm(kind, device, time))
  <1> DEFINE e == SimulatedAlarm(kind, device, time)
  <1>1. /\ e.code = TEST_ALARM_KINDS[kind] /\ e.device = device /\ e.partition = None
        /\ e.name = NameIn(Devices, device, "testmelder")
    BY DEF SimulatedAlarm
  <1>2. e.code \in {"FA", "BA"}
    BY <1>1 DEF TEST_ALARM_KINDS
  <1>3. \A c \in {"FA", "BA"} : In(c, Translated) /\ c \notin NIGHT_ARM_CODES
    <2>1. <<"FA", "fire", "alarm">> \in Table /\ <<"BA", "burglary", "alarm">> \in Table
      BY DEF Table, Rows
    <2>2. \A c \in {"FA", "BA"} : c \notin NIGHT_ARM_CODES
      BY DEF NIGHT_ARM_CODES
    <2>3. <<"FA", "fire", "alarm">> \in Translated /\ <<"BA", "burglary", "alarm">> \in Translated
      BY <2>1 DEF Translated
    <2>4. In("FA", Translated) /\ In("BA", Translated)
      BY <2>3 DEF In
    <2> QED
      BY <2>2, <2>4
  <1> HIDE DEF e
  <1>4. IsNamed(e)
    BY <1>1 DEF IsNamed, NameIn
  <1>5. Sound(e)
    BY <1>1, <1>2, <1>3, <1>4 DEF Sound, Rings, IsTitled, IsPlaced
  <1> QED
    BY <1>5 DEF e

(* The configuration gives one name to a number, however it is written.  The   *)
(* program does not check that.                                                *)
OneNamePerNumber ==
  \A i, j \in DOMAIN Devices :
    Devices[i].id.number = Devices[j].id.number => Devices[i].name = Devices[j].name

(* _match finds that name by any of its three comparisons. *)
LEMMA MatchIs ==
  ASSUME OneNamePerNumber, NEW id \in Ids, NEW n \in DOMAIN Devices,
         Devices[n].id.number = id.number
  PROVE  Match(Devices, id) = Devices[n].name
  <1> DEFINE literal == {i \in DOMAIN Devices : Devices[i].id = id}
             bare    == {i \in DOMAIN Devices : Devices[i].id = [zeros |-> 0, number |-> id.number]}
             equal   == {i \in DOMAIN Devices : Devices[i].id.number = id.number}
             hits    == IF literal # {} THEN literal ELSE IF bare # {} THEN bare ELSE equal
  <1>1. hits \subseteq equal /\ hits # {}
    OBVIOUS
  <1>2. Match(Devices, id) = IF hits = {} THEN None ELSE Devices[Min(hits)].name
    BY DEF Match
  <1>3. equal \in SUBSET Nat
    BY TablesAreFilledIn
  <1>4. Min(hits) \in hits
    <2> HIDE DEF hits, equal
    <2>1. \E i \in hits : \A j \in hits : i <= j
      BY <1>1, <1>3, HasLeast
    <2> QED
      BY <2>1 DEF Min
  <1>5. \A i \in equal : Devices[i].name = Devices[n].name
    BY DEF OneNamePerNumber
  <1> HIDE DEF hits, equal
  <1> QED
    BY <1>1, <1>2, <1>4, <1>5
=============================================================================
