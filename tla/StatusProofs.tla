----------------------------- MODULE StatusProofs -----------------------------
(***************************************************************************)
(* Proofs about Status, for every configuration, hub and bound: what the    *)
(* rules may hold back; that the status is the last word of the events     *)
(* heard, and survives a restart; that every event is named and titled     *)
(* well.  The replay is a recursive function: it is reasoned about by its  *)
(* least counterexample.                                                   *)
(***************************************************************************)
EXTENDS Status, MessagesProofs, FiniteSetTheorems, TLAPS

(* The table of rules.py agrees with what was really sent, as far as it goes: *)
(* the sweep and a restart only forget.                                       *)
RecentIsTold ==
  /\ now \in Nat
  /\ \A k \in DOMAIN recent : k \in DOMAIN told /\ recent[k] = told[k]
  /\ \A k \in DOMAIN told : told[k] \in 0 .. now

IInv == RecentIsTold /\ EveryDetectorHeard

(* The sweep keeps the time of what it keeps. *)
LEMMA StampedIs ==
  ASSUME NEW e, NEW time
  PROVE  \A k \in DOMAIN Stamped(e, time) :
           /\ k \in DOMAIN Put(recent, DedupeKey(e), time)
           /\ Stamped(e, time)[k] = Put(recent, DedupeKey(e), time)[k]
  BY DEF Stamped

LEMMA ProcessHears ==
  ASSUME IInv, NEW e, e.receivedAt = now, NEW stored \in BOOLEAN, Process(e, stored)
  PROVE  IInv'
  <1> DEFINE key == DedupeKey(e)
  <1>0. /\ now \in Nat /\ now' = now /\ last' = e
        /\ key = <<e.code, e.device, e.partition>>
    BY DEF IInv, RecentIsTold, Process, DedupeKey
  <1>1. CASE ShouldNotify(e, now)
    <2>1. recent' = Stamped(e, now) /\ told' = Put(told, key, now)
      BY <1>0, <1>1 DEF Process
    <2> HIDE DEF key
    <2>2. DOMAIN told' = DOMAIN told \cup {key} /\ told'[key] = now
      BY <2>1 DEF Put
    <2>3. \A k \in DOMAIN told : k # key => told'[k] = told[k]
      BY <2>1 DEF Put
    <2>4. ASSUME NEW k \in DOMAIN recent' PROVE k \in DOMAIN told' /\ recent'[k] = told'[k]
      <3>1. /\ k \in DOMAIN Put(recent, key, now) /\ recent'[k] = Put(recent, key, now)[k]
        BY <2>1, StampedIs DEF key
      <3>2. CASE k = key
        BY <3>1, <3>2, <2>2 DEF Put
      <3>3. CASE k # key
        <4>1. k \in DOMAIN recent /\ recent'[k] = recent[k]
          BY <3>1, <3>3 DEF Put
        <4> QED
          BY <4>1, <3>3, <2>2, <2>3 DEF IInv, RecentIsTold
      <3> QED
        BY <3>2, <3>3
    <2>5. RecentIsTold'
      BY <1>0, <2>2, <2>3, <2>4 DEF IInv, RecentIsTold
    <2>6. EveryDetectorHeard'
      BY <1>0, <2>2 DEF EveryDetectorHeard
    <2> QED
      BY <2>5, <2>6 DEF IInv
  <1>2. CASE ~ShouldNotify(e, now)
    <2>1. recent' = recent /\ told' = told
      BY <1>2 DEF Process
    <2>2. RecentIsTold'
      BY <1>0, <2>1 DEF IInv, RecentIsTold
    <2>3. e.severity # "alarm" /\ (Held(e, now) \/ IsDuplicate(e, now))
      BY <1>2 DEF ShouldNotify
    <2>4. ASSUME ~Held(e, now) PROVE key \in DOMAIN told /\ told[key] > now - Window
      <3>1. key \in DOMAIN recent /\ now - recent[key] < Window
        BY <2>3, <2>4 DEF IsDuplicate
      <3> HIDE DEF key
      <3>2. key \in DOMAIN told /\ recent[key] = told[key] /\ told[key] \in Nat
        BY <3>1 DEF IInv, RecentIsTold
      <3> QED
        BY <1>0, <3>1, <3>2, WindowIsNatural
    <2>5. EveryDetectorHeard'
      BY <1>0, <2>1, <2>3, <2>4 DEF EveryDetectorHeard
    <2> QED
      BY <2>2, <2>5 DEF IInv
  <1> QED
    BY <1>1, <1>2

(* Every event carries the time at which it came in. *)
LEMMA ReceivedNow ==
  /\ \A m, time : Normalize(m, time).receivedAt = time
  /\ \A code, time : InternalEvent(code, time).receivedAt = time
  /\ \A kind, device, time : SimulatedAlarm(kind, device, time).receivedAt = time
  BY DEF Normalize, InternalEvent, SimulatedAlarm

LEMMA InitIInv == ASSUME Init PROVE IInv
  BY DEF Init, IInv, RecentIsTold, EveryDetectorHeard, Empty

LEMMA IInvStep ==
  ASSUME IInv, [Next]_vars
  PROVE  IInv'
  <1>1. ASSUME NEW m \in HubMessages, NEW stored \in BOOLEAN, HubSends(m, stored)
        PROVE  IInv'
    BY <1>1, ProcessHears, ReceivedNow DEF HubSends
  <1>2. ASSUME NEW c \in InternalCodes, NEW stored \in BOOLEAN, ProgramSubmits(c, stored)
        PROVE  IInv'
    BY <1>2, ProcessHears, ReceivedNow DEF ProgramSubmits
  <1>3. ASSUME NEW kind, NEW device, NEW stored \in BOOLEAN, TestAlarm(kind, device, stored)
        PROVE  IInv'
    BY <1>3, ProcessHears, ReceivedNow DEF TestAlarm
  <1>4. CASE Tick
    <2>1. now \in Nat /\ now' = now + 1 /\ UNCHANGED <<recent, last, told>>
      BY <1>4 DEF Tick, IInv, RecentIsTold
    <2>2. RecentIsTold'
      BY <2>1 DEF IInv, RecentIsTold
    <2>3. EveryDetectorHeard'
      BY <2>1 DEF IInv, EveryDetectorHeard
    <2> QED
      BY <2>2, <2>3 DEF IInv
  <1>5. CASE Restart
    <2>1. recent' = Empty /\ UNCHANGED <<now, last, told>>
      BY <1>5 DEF Restart
    <2> QED
      BY <2>1 DEF IInv, RecentIsTold, EveryDetectorHeard, Empty
  <1>6. CASE UNCHANGED vars
    BY <1>6 DEF vars, IInv, RecentIsTold, EveryDetectorHeard
  <1> QED
    BY <1>1, <1>2, <1>3, <1>4, <1>5, <1>6 DEF Next

(* No rule holds back an alarm, and none holds back an event for a longer time *)
(* than the window after one of the same detector was sent: neither the sweep  *)
(* of the table nor a restart makes the dispatcher believe otherwise.          *)
THEOREM EveryoneHeard == Spec => []EveryDetectorHeard
  <1>1. Init => IInv
    BY InitIInv
  <1>2. IInv /\ [Next]_vars => IInv'
    BY IInvStep
  <1>3. IInv => EveryDetectorHeard
    BY DEF IInv
  <1> QED
    BY <1>1, <1>2, <1>3, PTL DEF Spec

-----------------------------------------------------------------------------
(* The rows up to number n. *)
Heard(rows, n) == {i \in DOMAIN rows : i <= n}

(* The groups that are known, and what the last message about each said. *)
GroupsSay(groups, rows, n) ==
  /\ DOMAIN groups = DOMAIN Fresh.groups
       \cup {Group(rows[i]) : i \in {j \in Heard(rows, n) : IsArming(rows[j])}}
  /\ \A p \in DOMAIN groups :
       LET about == {i \in Heard(rows, n) : Concerns(rows[i], p)}
       IN  \/ about = {} /\ groups[p] = Fresh.groups[p]
           \/ \E i \in about :
                /\ \A j \in about : j <= i
                /\ groups[p] = [armed |-> Arms(rows[i]), changedAt |-> rows[i].receivedAt]

(* The last event that settles key k. *)
LastWord(rows, n, k, i) ==
  /\ i \in Heard(rows, n) /\ Settles(rows[i], k)
  /\ \A j \in Heard(rows, n) : Settles(rows[j], k) => j <= i

TroublesSay(active, rows, n) ==
  /\ \A k \in DOMAIN active :
       \E i \in Heard(rows, n) :
         /\ LastWord(rows, n, k, i) /\ IsTrouble(rows[i])
         /\ active[k] = [code |-> rows[i].code, since |-> rows[i].receivedAt]
  /\ \A i \in Heard(rows, n) :
       LastWord(rows, n, TroubleKey(rows[i]), i) /\ IsTrouble(rows[i])
         => TroubleKey(rows[i]) \in DOMAIN active

AlarmSays(alarm, rows, n) ==
  LET rung == {i \in Heard(rows, n) : rows[i].severity = "alarm"}
  IN  \/ rung = {} /\ alarm = None
      \/ \E i \in rung : (\A j \in rung : j <= i) /\ alarm = Named(rows[i])

(* The status is what the rows up to number n say. *)
Says(status, rows, n) ==
  /\ GroupsSay(status.groups, rows, n)
  /\ TroublesSay(status.active, rows, n)
  /\ AlarmSays(status.alarm, rows, n)

(* The log and the events of this status, by number. *)
RowsFit ==
  /\ count \in Nat /\ now \in 0 .. MaxTime
  /\ DOMAIN log \subseteq 1 .. count /\ DOMAIN seen \subseteq 1 .. count
  /\ \A i \in DOMAIN log : log[i].receivedAt \in 0 .. now /\ Sound(log[i])
  /\ \A i \in DOMAIN seen : seen[i].receivedAt \in 0 .. now /\ Sound(seen[i])
  /\ \A i, j \in DOMAIN log : i <= j => log[i].receivedAt <= log[j].receivedAt
  /\ \A i \in DOMAIN log \cap DOMAIN seen : log[i] = seen[i]

(* No event since the last restart is missing from the log, and whatever a    *)
(* restart would replay is known already.                                     *)
LogCovers ==
  /\ complete \in BOOLEAN
  /\ complete => DOMAIN seen \subseteq DOMAIN log
  /\ DOMAIN Listed(log) \subseteq DOMAIN seen

Shown == [groups |-> partitions, active |-> troubles, alarm |-> lastAlarm]

StatusInv == RowsFit /\ LogCovers /\ Says(Shown, seen, count)
-----------------------------------------------------------------------------
(* A row more, or none with the next number. *)
LEMMA HeardOneMore ==
  ASSUME NEW rows, DOMAIN rows \subseteq Nat, NEW n \in Nat \ {0}
  PROVE  /\ n \in DOMAIN rows => Heard(rows, n) = Heard(rows, n - 1) \cup {n}
         /\ n \notin DOMAIN rows => Heard(rows, n) = Heard(rows, n - 1)
         /\ \A i \in Heard(rows, n - 1) : i \in DOMAIN rows /\ i \in Nat /\ i < n
  BY DEF Heard

(* One row more: groups, troubles and the last alarm go on saying it. *)
LEMMA GroupsGoOn ==
  ASSUME NEW rows, DOMAIN rows \subseteq Nat, NEW n \in Nat \ {0}, n \in DOMAIN rows,
         NEW groups, GroupsSay(groups, rows, n - 1)
  PROVE  GroupsSay(IF IsArming(rows[n]) THEN ApplyArming(groups, rows[n]) ELSE groups, rows, n)
  <1> DEFINE e == rows[n]
             after == IF IsArming(e) THEN ApplyArming(groups, e) ELSE groups
             before(p) == {i \in Heard(rows, n - 1) : Concerns(rows[i], p)}
             about(p) == {i \in Heard(rows, n) : Concerns(rows[i], p)}
             named(m) == {Group(rows[i]) : i \in {j \in Heard(rows, m) : IsArming(rows[j])}}
  <1>1. /\ Heard(rows, n) = Heard(rows, n - 1) \cup {n}
        /\ \A i \in Heard(rows, n - 1) : i \in Nat /\ i < n
    BY HeardOneMore
  <1>2. /\ DOMAIN groups = DOMAIN Fresh.groups \cup named(n - 1)
        /\ \A p \in DOMAIN groups :
             \/ before(p) = {} /\ groups[p] = Fresh.groups[p]
             \/ \E i \in before(p) :
                  /\ \A j \in before(p) : j <= i
                  /\ groups[p] = [armed |-> Arms(rows[i]), changedAt |-> rows[i].receivedAt]
    BY DEF GroupsSay
  <1>3. \A p : ~Concerns(e, p) => about(p) = before(p)
    BY <1>1
  <1>4. CASE IsArming(e)
    <2>1. after = ApplyArming(groups, e)
      BY <1>4
    <2>2. /\ DOMAIN after = DOMAIN groups \cup {Group(e)}
          /\ \A p \in DOMAIN after :
               /\ Concerns(e, p) => after[p] = [armed |-> Arms(e), changedAt |-> e.receivedAt]
               /\ ~Concerns(e, p) => p \in DOMAIN groups /\ after[p] = groups[p]
      BY <1>4, <2>1 DEF ApplyArming, Targets, Concerns
    <2>3. named(n) = named(n - 1) \cup {Group(e)}
      BY <1>1, <1>4
    <2>4. ASSUME NEW p \in DOMAIN after
          PROVE  \/ about(p) = {} /\ after[p] = Fresh.groups[p]
                 \/ \E i \in about(p) :
                      /\ \A j \in about(p) : j <= i
                      /\ after[p] = [armed |-> Arms(rows[i]), changedAt |-> rows[i].receivedAt]
      <3>1. CASE Concerns(e, p)
        <4>1. n \in about(p) /\ \A j \in about(p) : j <= n
          BY <1>1, <3>1
        <4> QED
          BY <4>1, <2>2, <3>1
      <3>2. CASE ~Concerns(e, p)
        <4>1. about(p) = before(p) /\ p \in DOMAIN groups /\ after[p] = groups[p]
          BY <1>3, <2>2, <3>2
        <4> HIDE DEF about, before, after
        <4> QED
          BY <4>1, <1>2
      <3> QED
        BY <3>1, <3>2
    <2>5. DOMAIN after = DOMAIN Fresh.groups \cup named(n)
      <3> HIDE DEF after, named
      <3> QED
        BY <1>2, <2>2, <2>3
    <2> HIDE DEF after
    <2>6. GroupsSay(after, rows, n)
      BY <2>4, <2>5 DEF GroupsSay
    <2> QED
      BY <2>6 DEF after
  <1>5. CASE ~IsArming(e)
    <2>1. after = groups /\ named(n) = named(n - 1)
      BY <1>1, <1>5
    <2>2. \A p : about(p) = before(p)
      BY <1>3, <1>5 DEF Concerns
    <2>3. \A p \in DOMAIN groups :
             \/ about(p) = {} /\ groups[p] = Fresh.groups[p]
             \/ \E i \in about(p) :
                  /\ \A j \in about(p) : j <= i
                  /\ groups[p] = [armed |-> Arms(rows[i]), changedAt |-> rows[i].receivedAt]
      <3> HIDE DEF about, before
      <3> QED
        BY <1>2, <2>2
    <2>4. DOMAIN groups = DOMAIN Fresh.groups \cup named(n)
      BY <1>2, <2>1
    <2>5. GroupsSay(groups, rows, n)
      BY <2>3, <2>4 DEF GroupsSay
    <2> QED
      BY <2>1, <2>5
  <1> QED
    BY <1>4, <1>5

LEMMA TroublesGoOn ==
  ASSUME NEW rows, DOMAIN rows \subseteq Nat, NEW n \in Nat \ {0}, n \in DOMAIN rows,
         NEW active, TroublesSay(active, rows, n - 1)
  PROVE  TroublesSay(ApplyTrouble(active, rows[n]), rows, n)
  <1> DEFINE e == rows[n]
             after == ApplyTrouble(active, e)
             entry(i) == [code |-> rows[i].code, since |-> rows[i].receivedAt]
  <1>1. /\ Heard(rows, n) = Heard(rows, n - 1) \cup {n}
        /\ \A i \in Heard(rows, n - 1) : i \in Nat /\ i < n
    BY HeardOneMore
  <1>2. ASSUME NEW k, ~Settles(e, k)
        PROVE  \A i : LastWord(rows, n, k, i) <=> LastWord(rows, n - 1, k, i)
    BY <1>1, <1>2 DEF LastWord
  <1>3. ASSUME NEW k, Settles(e, k)
        PROVE  LastWord(rows, n, k, n) /\ \A i : LastWord(rows, n, k, i) => i = n
    BY <1>1, <1>3 DEF LastWord
  <1>4. /\ \A k : k \in DOMAIN after /\ ~Settles(e, k) => k \in DOMAIN active /\ after[k] = active[k]
        /\ \A k : k \in DOMAIN active /\ ~Settles(e, k) => k \in DOMAIN after
        /\ \A k : k \in DOMAIN after /\ Settles(e, k) => IsTrouble(e) /\ after[k] = entry(n)
        /\ IsTrouble(e) => TroubleKey(e) \in DOMAIN after
    BY DEF ApplyTrouble, Put, Without, Settles, IsTrouble
  <1>5. ASSUME NEW k \in DOMAIN after
        PROVE  \E i \in Heard(rows, n) :
                 LastWord(rows, n, k, i) /\ IsTrouble(rows[i]) /\ after[k] = entry(i)
    <2>1. CASE Settles(e, k)
      <3>1. LastWord(rows, n, k, n) /\ IsTrouble(rows[n]) /\ after[k] = entry(n)
        BY <1>3, <1>4, <2>1
      <3> QED
        BY <1>1, <3>1
    <2>2. CASE ~Settles(e, k)
      <3>1. k \in DOMAIN active /\ after[k] = active[k]
        BY <1>4, <2>2
      <3>2. PICK i \in Heard(rows, n - 1) :
              LastWord(rows, n - 1, k, i) /\ IsTrouble(rows[i]) /\ active[k] = entry(i)
        BY <3>1 DEF TroublesSay
      <3>3. LastWord(rows, n, k, i)
        BY <1>2, <2>2, <3>2
      <3> HIDE DEF after, entry
      <3> QED
        BY <1>1, <3>1, <3>2, <3>3
    <2> QED
      BY <2>1, <2>2
  <1>6. ASSUME NEW i \in Heard(rows, n), LastWord(rows, n, TroubleKey(rows[i]), i), IsTrouble(rows[i])
        PROVE  TroubleKey(rows[i]) \in DOMAIN after
    <2>1. CASE Settles(e, TroubleKey(rows[i]))
      <3>1. i = n
        BY <1>3, <1>6, <2>1
      <3> QED
        BY <1>4, <1>6, <3>1
    <2>2. CASE ~Settles(e, TroubleKey(rows[i]))
      <3>1. LastWord(rows, n - 1, TroubleKey(rows[i]), i)
        BY <1>2, <1>6, <2>2
      <3>2. TroubleKey(rows[i]) \in DOMAIN active
        BY <1>6, <3>1 DEF TroublesSay, LastWord
      <3> QED
        BY <1>4, <2>2, <3>2
    <2> QED
      BY <2>1, <2>2
  <1> HIDE DEF after
  <1>7. TroublesSay(after, rows, n)
    BY <1>5, <1>6 DEF TroublesSay
  <1> QED
    BY <1>7 DEF after

LEMMA AlarmGoesOn ==
  ASSUME NEW rows, DOMAIN rows \subseteq Nat, NEW n \in Nat \ {0}, n \in DOMAIN rows,
         NEW alarm, AlarmSays(alarm, rows, n - 1)
  PROVE  AlarmSays(IF rows[n].severity = "alarm" THEN Named(rows[n]) ELSE alarm, rows, n)
  <1> DEFINE rung(m) == {i \in Heard(rows, m) : rows[i].severity = "alarm"}
  <1>1. /\ Heard(rows, n) = Heard(rows, n - 1) \cup {n}
        /\ \A i \in Heard(rows, n - 1) : i \in Nat /\ i < n
    BY HeardOneMore
  <1>2. CASE rows[n].severity = "alarm"
    <2>1. n \in rung(n) /\ \A j \in rung(n) : j <= n
      BY <1>1, <1>2
    <2> QED
      BY <1>2, <2>1 DEF AlarmSays
  <1>3. CASE rows[n].severity # "alarm"
    <2>1. rung(n) = rung(n - 1)
      BY <1>1, <1>3
    <2> QED
      BY <1>3, <2>1 DEF AlarmSays
  <1> QED
    BY <1>2, <1>3

(* An event more: the status goes on saying what was heard. *)
LEMMA ApplySays ==
  ASSUME NEW rows, DOMAIN rows \subseteq Nat, NEW n \in Nat \ {0}, n \in DOMAIN rows,
         NEW status, Says(status, rows, n - 1)
  PROVE  Says(Apply(status, rows[n]), rows, n)
  <1>1. GroupsSay(Apply(status, rows[n]).groups, rows, n)
    BY GroupsGoOn DEF Apply, Says
  <1>2. TroublesSay(Apply(status, rows[n]).active, rows, n)
    BY TroublesGoOn DEF Apply, Says
  <1>3. AlarmSays(Apply(status, rows[n]).alarm, rows, n)
    BY AlarmGoesOn DEF Apply, Says
  <1> QED
    BY <1>1, <1>2, <1>3 DEF Says

(* What is said depends on the rows heard, and on nothing else. *)
LEMMA SameSays ==
  ASSUME NEW rows, NEW n, NEW others, NEW m, Heard(rows, n) = Heard(others, m),
         \A i \in Heard(rows, n) : rows[i] = others[i],
         NEW status, Says(status, rows, n)
  PROVE  Says(status, others, m)
  <1>1. GroupsSay(status.groups, others, m)
    <2>1. {Group(rows[i]) : i \in {j \in Heard(rows, n) : IsArming(rows[j])}}
            = {Group(others[i]) : i \in {j \in Heard(others, m) : IsArming(others[j])}}
      OBVIOUS
    <2>2. \A p : {i \in Heard(rows, n) : Concerns(rows[i], p)}
                   = {i \in Heard(others, m) : Concerns(others[i], p)}
      OBVIOUS
    <2> QED
      BY <2>1, <2>2 DEF GroupsSay, Says
  <1>2. \A k, i : LastWord(rows, n, k, i) <=> LastWord(others, m, k, i)
    BY DEF LastWord
  <1>3. TroublesSay(status.active, others, m)
    <2>1. TroublesSay(status.active, rows, n)
      BY DEF Says
    <2>2. ASSUME NEW k \in DOMAIN status.active
          PROVE  \E i \in Heard(others, m) :
                   /\ LastWord(others, m, k, i) /\ IsTrouble(others[i])
                   /\ status.active[k] = [code |-> others[i].code, since |-> others[i].receivedAt]
      <3>1. PICK i \in Heard(rows, n) :
              /\ LastWord(rows, n, k, i) /\ IsTrouble(rows[i])
              /\ status.active[k] = [code |-> rows[i].code, since |-> rows[i].receivedAt]
        BY <2>1 DEF TroublesSay
      <3>2. rows[i] = others[i] /\ LastWord(others, m, k, i)
        BY <1>2, <3>1
      <3> QED
        BY <3>1, <3>2
    <2>3. ASSUME NEW i \in Heard(others, m),
                 LastWord(others, m, TroubleKey(others[i]), i), IsTrouble(others[i])
          PROVE  TroubleKey(others[i]) \in DOMAIN status.active
      <3>1. rows[i] = others[i] /\ LastWord(rows, n, TroubleKey(rows[i]), i)
        BY <1>2, <2>3
      <3> QED
        BY <2>1, <2>3, <3>1 DEF TroublesSay
    <2> QED
      BY <2>2, <2>3 DEF TroublesSay
  <1>4. AlarmSays(status.alarm, others, m)
    <2>1. {i \in Heard(rows, n) : rows[i].severity = "alarm"}
            = {i \in Heard(others, m) : others[i].severity = "alarm"}
      OBVIOUS
    <2> QED
      BY <2>1 DEF AlarmSays, Says
  <1> QED
    BY <1>1, <1>3, <1>4 DEF Says

(* At the start nothing has been said. *)
LEMMA FreshSays ==
  ASSUME NEW rows, DOMAIN rows \subseteq Nat \ {0}
  PROVE  Says(Fresh, rows, 0)
  <1>1. Heard(rows, 0) = {}
    BY DEF Heard
  <1>2. GroupsSay(Fresh.groups, rows, 0)
    BY <1>1 DEF GroupsSay
  <1>3. TroublesSay(Fresh.active, rows, 0)
    BY <1>1 DEF TroublesSay, Fresh, Empty
  <1>4. AlarmSays(Fresh.alarm, rows, 0)
    BY <1>1 DEF AlarmSays, Fresh
  <1> QED
    BY <1>2, <1>3, <1>4 DEF Says

(* The replay is defined: there is a status after each of the events. *)
LEMMA ReplayedIs ==
  ASSUME NEW rows, count \in Nat
  PROVE  /\ Replayed(rows)[0] = Fresh
         /\ \A n \in 1 .. count :
              Replayed(rows)[n] = IF n \in DOMAIN rows THEN Apply(Replayed(rows)[n - 1], rows[n])
                                  ELSE Replayed(rows)[n - 1]
  <1> DEFINE After(f, n) == IF n = 0 THEN Fresh
                            ELSE IF n \in DOMAIN rows THEN Apply(f[n - 1], rows[n])
                            ELSE f[n - 1]
             Is(f, m) == f = [n \in 0 .. m |-> After(f, n)]
             None_(m) == ~\E f : Is(f, m)
             Missing == {m \in Nat : ~\E f : Is(f, m)}
  <1>1. \E f : Is(f, 0)
    <2> DEFINE g == [n \in 0 .. 0 |-> Fresh]
    <2>1. \A n \in 0 .. 0 : After(g, n) = Fresh
      OBVIOUS
    <2>2. Is(g, 0)
      <3> HIDE DEF After
      <3> QED
        BY <2>1
    <2> QED
      BY <2>2
  <1>2. ASSUME NEW m \in Nat, \E f : Is(f, m)
        PROVE  \E f : Is(f, m + 1)
    <2>1. PICK f : Is(f, m)
      BY <1>2
    <2> DEFINE g == [n \in 0 .. m + 1 |-> IF n = m + 1 THEN After(f, m + 1) ELSE f[n]]
    <2>2. \A n \in 0 .. m : g[n] = f[n]
      OBVIOUS
    <2>3. \A n \in 0 .. m + 1 : After(g, n) = After(f, n)
      BY <2>2
    <2>4. \A n \in 0 .. m : f[n] = After(f, n)
      BY <2>1
    <2>5. \A n \in 0 .. m + 1 : g[n] = After(g, n)
      <3> HIDE DEF After
      <3> QED
        BY <2>3, <2>4
    <2>6. Is(g, m + 1)
      <3> HIDE DEF After
      <3> QED
        BY <2>5
    <2> QED
      BY <2>6
  <1>3. Missing = {}
    <2> HIDE DEF Is
    <2> SUFFICES ASSUME Missing # {} PROVE FALSE
      OBVIOUS
    <2>1. PICK m \in Missing : \A k \in Missing : m <= k
      BY HasLeast
    <2>2. m # 0 /\ m - 1 \in Nat /\ m - 1 \notin Missing
      BY <1>1, <2>1
    <2>3. \E f : Is(f, m - 1 + 1)
      BY <1>2, <2>2
    <2> QED
      BY <2>1, <2>3
  <1>4. Replayed(rows) = CHOOSE f : Is(f, count)
    BY DEF Replayed
  <1>5. Is(Replayed(rows), count)
    BY <1>3, <1>4
  <1> QED
    <2> DEFINE f == Replayed(rows)
    <2> HIDE DEF f
    <2> SUFFICES /\ f[0] = Fresh
                 /\ \A n \in 1 .. count :
                      f[n] = IF n \in DOMAIN rows THEN Apply(f[n - 1], rows[n]) ELSE f[n - 1]
      BY DEF f
    <2>1. f = [n \in 0 .. count |-> After(f, n)]
      BY <1>5 DEF f
    <2>2. \A n \in 0 .. count : f[n] = After(f, n)
      BY <2>1
    <2> QED
      BY <2>2

(* The replay of rows says what those rows say. *)
LEMMA ReplaySays ==
  ASSUME NEW rows, count \in Nat, DOMAIN rows \subseteq 1 .. count
  PROVE  Says(Replay(rows), rows, count)
  <1> DEFINE upTo == Replayed(rows)
             Wrong == {n \in Nat : n <= count /\ ~Says(upTo[n], rows, n)}
  <1>1. DOMAIN rows \subseteq Nat /\ DOMAIN rows \subseteq Nat \ {0}
    OBVIOUS
  <1>2. Says(upTo[0], rows, 0)
    BY <1>1, ReplayedIs, FreshSays
  <1>3. ASSUME NEW n \in 1 .. count, Says(upTo[n - 1], rows, n - 1)
        PROVE  Says(upTo[n], rows, n)
    <2>1. CASE n \in DOMAIN rows
      <3>1. upTo[n] = Apply(upTo[n - 1], rows[n])
        BY <2>1, ReplayedIs
      <3> HIDE DEF upTo
      <3> QED
        BY <1>1, <1>3, <2>1, <3>1, ApplySays
    <2>2. CASE n \notin DOMAIN rows
      <3>1. upTo[n] = upTo[n - 1]
        BY <2>2, ReplayedIs
      <3>2. Heard(rows, n - 1) = Heard(rows, n)
        BY <1>1, <2>2, HeardOneMore
      <3> HIDE DEF upTo
      <3> QED
        BY <1>3, <3>1, <3>2, SameSays
    <2> QED
      BY <2>1, <2>2
  <1>4. Wrong = {}
    <2> HIDE DEF upTo
    <2> SUFFICES ASSUME Wrong # {} PROVE FALSE
      OBVIOUS
    <2>1. PICK n \in Wrong : \A m \in Wrong : n <= m
      BY HasLeast
    <2>2. n # 0
      BY <1>2, <2>1
    <2>3. n - 1 \in Nat /\ n - 1 <= count /\ n - 1 \notin Wrong /\ n \in 1 .. count
      BY <2>1, <2>2
    <2>4. Says(upTo[n - 1], rows, n - 1)
      BY <2>3
    <2> QED
      BY <1>3, <2>1, <2>3, <2>4
  <1> QED
    BY <1>4 DEF Replay

(* The newest rows of a set, as many as list_events returns. *)
Newest(S) == {i \in S : Cardinality({j \in S : j > i}) < Limit}

(* list_events returns rows as they are in the log. *)
LEMMA ListedIs ==
  ASSUME NEW rows
  PROVE  /\ DOMAIN Listed(rows) = Newest(Young(rows))
         /\ \A i \in DOMAIN Listed(rows) : i \in DOMAIN rows /\ Listed(rows)[i] = rows[i]
  BY DEF Listed, Restrict, Newest, Young

(* Fewer rows: those that were among the newest still are. *)
LEMMA NewestOfFewer ==
  ASSUME NEW S, NEW T, S \subseteq T, T \subseteq Nat, IsFiniteSet(T)
  PROVE  Newest(T) \cap S \subseteq Newest(S)
  <1> SUFFICES ASSUME NEW i \in Newest(T) \cap S
               PROVE  i \in Newest(S)
    OBVIOUS
  <1> DEFINE above(U) == {j \in U : j > i}
  <1>1. above(S) \subseteq above(T) /\ above(T) \subseteq T
    OBVIOUS
  <1>2. IsFiniteSet(above(T)) /\ IsFiniteSet(above(S))
    <2> HIDE DEF above
    <2> QED
      BY <1>1, FS_Subset
  <1>3. /\ Cardinality(above(S)) \in Nat /\ Cardinality(above(T)) \in Nat
        /\ Cardinality(above(S)) <= Cardinality(above(T))
    <2> HIDE DEF above
    <2> QED
      BY <1>1, <1>2, FS_Subset, FS_CardinalityType
  <1>4. Cardinality(above(T)) < Limit /\ Limit \in Nat
    BY SettingsAreNumbers DEF Newest
  <1>5. Cardinality(above(S)) < Limit
    <2> HIDE DEF above
    <2> QED
      BY <1>3, <1>4
  <1> QED
    BY <1>5 DEF Newest

(* The oldest rows leave: those that are among the newest then were before. *)
LEMMA NewestWithOlder ==
  ASSUME NEW S, NEW T, S \subseteq T, T \subseteq Nat, \A i \in S, j \in T : j > i => j \in S
  PROVE  Newest(S) \subseteq Newest(T)
  <1> SUFFICES ASSUME NEW i \in Newest(S)
               PROVE  i \in Newest(T)
    OBVIOUS
  <1>1. i \in S /\ {j \in S : j > i} = {j \in T : j > i}
    BY DEF Newest
  <1> QED
    BY <1>1 DEF Newest

(* Whatever is newer than one of the newest is one of them. *)
LEMMA NewestIsUpper ==
  ASSUME NEW S, S \subseteq Nat, IsFiniteSet(S), NEW i \in Newest(S), NEW j \in S, j > i
  PROVE  j \in Newest(S)
  <1> DEFINE above(k) == {l \in S : l > k}
  <1>0. i \in S /\ i \in Nat /\ j \in Nat
    BY DEF Newest
  <1>1. above(j) \subseteq above(i) /\ above(i) \subseteq S
    <2>1. \A l \in S : l > j => l > i
      BY <1>0
    <2> QED
      BY <2>1
  <1>2. IsFiniteSet(above(i)) /\ IsFiniteSet(above(j))
    <2> HIDE DEF above
    <2> QED
      BY <1>1, FS_Subset
  <1>3. /\ Cardinality(above(i)) \in Nat /\ Cardinality(above(j)) \in Nat
        /\ Cardinality(above(j)) <= Cardinality(above(i))
    <2> HIDE DEF above
    <2> QED
      BY <1>1, <1>2, FS_Subset, FS_CardinalityType
  <1>4. Cardinality(above(i)) < Limit /\ Limit \in Nat
    BY SettingsAreNumbers DEF Newest
  <1>5. Cardinality(above(j)) < Limit
    <2> HIDE DEF above
    <2> QED
      BY <1>3, <1>4
  <1> QED
    BY <1>5 DEF Newest

LEMMA YoungIsFinite ==
  ASSUME RowsFit
  PROVE  Young(log) \subseteq 1 .. count /\ IsFiniteSet(Young(log)) /\ Young(log) \subseteq Nat
  <1>1. count \in Nat /\ Young(log) \subseteq 1 .. count
    BY DEF RowsFit, Young
  <1>2. IsFiniteSet(1 .. count)
    BY <1>1, FS_Interval
  <1> QED
    BY <1>1, <1>2, FS_Subset

LEMMA InitStatusInv == ASSUME Init PROVE StatusInv
  <1>1. DOMAIN Empty = {}
    BY DEF Empty
  <1>2. RowsFit
    BY <1>1, SettingsAreNumbers DEF Init, RowsFit
  <1>3. LogCovers
    BY <1>1, ListedIs DEF Init, LogCovers
  <1>4. Says(Fresh, seen, 0)
    BY <1>1, FreshSays DEF Init
  <1>5. Says(Shown, seen, count)
    BY <1>4 DEF Init, Says, Shown
  <1> QED
    BY <1>2, <1>3, <1>5 DEF StatusInv

(* An event more, stored or not. *)
LEMMA ProcessFits ==
  ASSUME StatusInv, NEW e, e.receivedAt = now, Sound(e), NEW stored \in BOOLEAN,
         Process(e, stored)
  PROVE  StatusInv'
  <1>1. /\ count \in Nat /\ count' = count + 1 /\ now' = now
        /\ log' = IF stored THEN Put(log, count + 1, e) ELSE log
        /\ seen' = Put(seen, count + 1, e)
        /\ complete' = (complete /\ stored)
    BY DEF StatusInv, RowsFit, Process
  <1>2. /\ DOMAIN log \subseteq 1 .. count /\ DOMAIN seen \subseteq 1 .. count
        /\ count + 1 \notin DOMAIN log /\ count + 1 \notin DOMAIN seen
    BY <1>1 DEF StatusInv, RowsFit
  <1>3. /\ DOMAIN seen' = DOMAIN seen \cup {count + 1} /\ seen'[count + 1] = e
        /\ \A i \in DOMAIN seen : seen'[i] = seen[i]
    BY <1>1, <1>2 DEF Put
  <1>4. /\ DOMAIN log' = DOMAIN log \cup (IF stored THEN {count + 1} ELSE {})
        /\ stored => log'[count + 1] = e
        /\ \A i \in DOMAIN log : log'[i] = log[i]
    BY <1>1, <1>2 DEF Put
  <1>5. RowsFit'
    <2>1. /\ count' \in Nat /\ now' \in 0 .. MaxTime
          /\ DOMAIN log' \subseteq 1 .. count' /\ DOMAIN seen' \subseteq 1 .. count'
      BY <1>1, <1>2, <1>3, <1>4 DEF StatusInv, RowsFit
    <2>2. \A i \in DOMAIN log' : log'[i].receivedAt \in 0 .. now' /\ Sound(log'[i])
      BY <1>1, <1>4 DEF StatusInv, RowsFit
    <2>3. \A i \in DOMAIN seen' : seen'[i].receivedAt \in 0 .. now' /\ Sound(seen'[i])
      BY <1>1, <1>3 DEF StatusInv, RowsFit
    <2>4. ASSUME NEW i \in DOMAIN log', NEW j \in DOMAIN log', i <= j
          PROVE  log'[i].receivedAt <= log'[j].receivedAt
      <3>1. CASE j \in DOMAIN log
        <4>1. i \in DOMAIN log
          BY <1>1, <1>2, <1>4, <2>4, <3>1
        <4> QED
          BY <1>4, <2>4, <3>1, <4>1 DEF StatusInv, RowsFit
      <3>2. CASE j \notin DOMAIN log
        <4>1. log'[j].receivedAt = now
          BY <1>4, <3>2
        <4> QED
          BY <1>1, <2>2, <4>1 DEF StatusInv, RowsFit
      <3> QED
        BY <3>1, <3>2
    <2>5. \A i \in DOMAIN log' \cap DOMAIN seen' : log'[i] = seen'[i]
      BY <1>2, <1>3, <1>4 DEF StatusInv, RowsFit
    <2> QED
      BY <2>1, <2>2, <2>3, <2>4, <2>5 DEF RowsFit
  <1>6. LogCovers'
    <2>1. complete' \in BOOLEAN /\ (complete' => DOMAIN seen' \subseteq DOMAIN log')
      BY <1>1, <1>3, <1>4 DEF StatusInv, LogCovers
    <2>2. Young(log)' \subseteq Young(log) \cup {count + 1} /\ Young(log) \subseteq Young(log)'
      BY <1>1, <1>2, <1>4 DEF Young
    <2>3. IsFiniteSet(Young(log)') /\ Young(log)' \subseteq Nat
      <3>1. RowsFit => Young(log) \subseteq 1 .. count /\ IsFiniteSet(Young(log)) /\ Young(log) \subseteq Nat
        BY YoungIsFinite
      <3>2. IsFiniteSet(Young(log)) /\ Young(log) \subseteq Nat
        BY <3>1 DEF StatusInv
      <3>3. IsFiniteSet(Young(log) \cup {count + 1}) /\ Young(log) \cup {count + 1} \subseteq Nat
        BY <1>1, <3>2, FS_AddElement
      <3> QED
        BY <2>2, <3>3, FS_Subset
    <2>4. Newest(Young(log)') \cap Young(log) \subseteq Newest(Young(log))
      BY <2>2, <2>3, NewestOfFewer
    <2>5. Newest(Young(log)') \subseteq Newest(Young(log)) \cup {count + 1}
      BY <2>2, <2>4 DEF Newest
    <2>6. DOMAIN Listed(log)' = Newest(Young(log)')
      BY DEF Listed, Restrict, Newest, Young
    <2>7. Newest(Young(log)) \subseteq DOMAIN seen
      BY ListedIs DEF StatusInv, LogCovers
    <2>8. DOMAIN Listed(log)' \subseteq DOMAIN seen'
      BY <1>3, <2>5, <2>6, <2>7
    <2> QED
      BY <2>1, <2>8 DEF LogCovers
  <1>7. Says(Apply(Shown, e), seen', count + 1)
    <2>1. DOMAIN seen' \subseteq Nat /\ count + 1 \in Nat \ {0} /\ count + 1 \in DOMAIN seen'
      BY <1>1, <1>2, <1>3
    <2>2. Heard(seen, count) = Heard(seen', count)
      BY <1>1, <1>2, <1>3 DEF Heard
    <2>3. \A i \in Heard(seen, count) : seen[i] = seen'[i]
      BY <1>3 DEF Heard
    <2>4. Says(Shown, seen', count)
      BY <2>2, <2>3, SameSays DEF StatusInv
    <2>5. Says(Apply(Shown, seen'[count + 1]), seen', count + 1)
      <3> DEFINE rows == seen'  n == count + 1
      <3>1. /\ DOMAIN rows \subseteq Nat /\ n \in Nat \ {0} /\ n \in DOMAIN rows
            /\ n - 1 = count
        BY <1>1, <2>1
      <3> HIDE DEF rows, n
      <3>2. Says(Apply(Shown, rows[n]), rows, n)
        BY <2>4, <3>1, ApplySays DEF rows
      <3> QED
        BY <3>2 DEF rows, n
    <2> QED
      BY <1>3, <2>5
  <1>8. Says(Shown, seen, count)'
    <2>1. Show(Apply(Shown, e))
      BY DEF Process, Shown
    <2>2. /\ Shown'.groups = Apply(Shown, e).groups
          /\ Shown'.active = Apply(Shown, e).active
          /\ Shown'.alarm = Apply(Shown, e).alarm
      BY <2>1 DEF Show, Shown
    <2> QED
      BY <1>1, <1>7, <2>2 DEF Says
  <1> QED
    BY <1>5, <1>6, <1>8 DEF StatusInv

(* Time only makes rows too old to be replayed. *)
LEMMA TickFits ==
  ASSUME StatusInv, Tick
  PROVE  StatusInv'
  <1>1. /\ now \in Nat /\ now' = now + 1 /\ now' \in 0 .. MaxTime
        /\ UNCHANGED <<log, partitions, troubles, lastAlarm, count, seen, complete>>
    BY SettingsAreNumbers DEF StatusInv, RowsFit, Tick
  <1>2. RowsFit'
    BY <1>1 DEF StatusInv, RowsFit
  <1>3. LogCovers'
    <2>1. \A i \in DOMAIN log : log[i].receivedAt \in Int /\ Lookback \in Int
      BY SettingsAreNumbers DEF StatusInv, RowsFit
    <2>2. Young(log)' \subseteq Young(log)
      BY <1>1, <2>1 DEF Young
    <2>3. \A i \in Young(log)', j \in Young(log) : j > i => j \in Young(log)'
      BY <1>1, <2>1 DEF Young, StatusInv, RowsFit
    <2>4. Newest(Young(log)') \subseteq Newest(Young(log))
      <3>1. Young(log) \subseteq Nat
        BY YoungIsFinite DEF StatusInv
      <3> QED
        BY <2>2, <2>3, <3>1, NewestWithOlder
    <2>5. DOMAIN Listed(log)' = Newest(Young(log)')
      BY DEF Listed, Restrict, Newest, Young
    <2>6. Newest(Young(log)) \subseteq DOMAIN seen
      BY ListedIs DEF StatusInv, LogCovers
    <2> QED
      BY <1>1, <2>4, <2>5, <2>6 DEF StatusInv, LogCovers
  <1>4. Says(Shown, seen, count)'
    BY <1>1 DEF StatusInv, Shown
  <1> QED
    BY <1>2, <1>3, <1>4 DEF StatusInv

(* purge_old_events only takes rows away. *)
LEMMA PurgedIs ==
  /\ DOMAIN Purged \subseteq DOMAIN log
  /\ \A i \in DOMAIN Purged : Purged[i] = log[i]
  BY DEF Purged, Restrict

(* The replay brings the status back to what the listed rows say. *)
LEMMA RestartFits ==
  ASSUME StatusInv, Restart
  PROVE  StatusInv'
  <1>1. /\ log' = Purged /\ seen' = Listed(Purged) /\ complete' = TRUE
        /\ now' = now /\ count' = count
    BY DEF Restart
  <1>2. /\ DOMAIN log' \subseteq DOMAIN log /\ \A i \in DOMAIN log' : log'[i] = log[i]
        /\ DOMAIN seen' \subseteq DOMAIN log' /\ \A i \in DOMAIN seen' : seen'[i] = log'[i]
    BY <1>1, PurgedIs, ListedIs
  <1>3. RowsFit'
    BY <1>1, <1>2 DEF StatusInv, RowsFit
  <1>4. LogCovers'
    <2>1. DOMAIN Listed(log)' = DOMAIN seen'
      BY <1>1 DEF Listed, Restrict, Young
    <2> QED
      BY <1>1, <1>2, <2>1 DEF LogCovers
  <1>5. count \in Nat /\ DOMAIN seen' \subseteq 1 .. count
    BY <1>1, <1>3 DEF RowsFit
  <1>6. Says(Replay(seen'), seen', count)
    BY <1>5, ReplaySays
  <1>7. Says(Shown, seen, count)'
    BY <1>1, <1>6 DEF Restart, Show, Shown, Says
  <1> QED
    BY <1>3, <1>4, <1>7 DEF StatusInv

LEMMA StatusInvStep ==
  ASSUME StatusInv, [Next]_vars
  PROVE  StatusInv'
  <1>0. now \in Nat
    BY SettingsAreNumbers DEF StatusInv, RowsFit
  <1>1. ASSUME NEW m \in HubMessages, NEW stored \in BOOLEAN, HubSends(m, stored)
        PROVE  StatusInv'
    <2> DEFINE n == [m EXCEPT !.stamp = IF @ = None THEN None ELSE now - @]
    <2>1. n \in Message
      BY <1>0, HubSendsMessages DEF Message
    <2>2. Sound(Normalize(n, now)) /\ Normalize(n, now).receivedAt = now
      BY <1>0, <2>1, NormalizeIsSound, ReceivedNow
    <2> QED
      BY <1>1, <2>2, ProcessFits DEF HubSends
  <1>2. ASSUME NEW c \in InternalCodes, NEW stored \in BOOLEAN, ProgramSubmits(c, stored)
        PROVE  StatusInv'
    BY <1>2, ProcessFits, ReceivedNow, InternalIsSound, OwnCodesAreInternal DEF ProgramSubmits
  <1>3. ASSUME NEW kind \in DOMAIN TEST_ALARM_KINDS, NEW device \in Ids \cup {None},
               NEW stored \in BOOLEAN, TestAlarm(kind, device, stored)
        PROVE  StatusInv'
    BY <1>3, ProcessFits, ReceivedNow, TestIsSound DEF TestAlarm
  <1>4. CASE Tick
    BY <1>4, TickFits
  <1>5. CASE Restart
    BY <1>5, RestartFits
  <1>6. CASE UNCHANGED vars
    <2>1. RowsFit'
      BY <1>6 DEF vars, StatusInv, RowsFit
    <2>2. LogCovers'
      BY <1>6 DEF vars, StatusInv, LogCovers, Listed, Restrict, Young
    <2>3. Says(Shown, seen, count)'
      BY <1>6 DEF vars, StatusInv, Shown
    <2> QED
      BY <2>1, <2>2, <2>3 DEF StatusInv
  <1> QED
    BY <1>1, <1>2, <1>3, <1>4, <1>5, <1>6, TablesAreFilledIn DEF Next

(* The whole life of the module: the log and the events of this status fit    *)
(* each other, and the status is what the events said, after any number of    *)
(* events, purges and restarts.                                               *)
THEOREM StatusFits == Spec => []StatusInv
  <1>1. Init => StatusInv
    BY InitStatusInv
  <1>2. StatusInv /\ [Next]_vars => StatusInv'
    BY StatusInvStep
  <1> QED
    BY <1>1, <1>2, PTL DEF Spec

(* The last index of those that satisfy a test. *)
LEMMA LastIs ==
  ASSUME NEW S, NEW b \in Nat, S \subseteq 1 .. b
  PROVE  /\ S = {} => Max({0} \cup S) = 0
         /\ S # {} => Max({0} \cup S) \in S
         /\ \A i \in S : i <= Max({0} \cup S)
  <1> DEFINE T == {0} \cup S
  <1>1. T \in SUBSET Nat /\ T # {} /\ \A n \in T : n <= b
    OBVIOUS
  <1>2. Max(T) \in T /\ \A n \in T : n <= Max(T)
    <2> HIDE DEF T
    <2> QED
      BY <1>1, HasLargest
  <1>3. \A i \in S : i > 0
    OBVIOUS
  <1>4. ASSUME NEW i \in S PROVE Max(T) # 0
    <2>1. i \in T /\ i \in Nat /\ i > 0
      BY <1>1, <1>3
    <2> HIDE DEF T
    <2> QED
      BY <1>1, <1>2, <2>1
  <1> HIDE DEF T
  <1>5. /\ S = {} => T = {0}
        /\ \A i \in T : i = 0 \/ i \in S
        /\ S \subseteq T
    BY DEF T
  <1> QED
    BY <1>2, <1>4, <1>5 DEF T

(* What the rows say is what their last word was. *)
LEMMA LastWordIsSaid ==
  ASSUME StatusInv
  PROVE  StatusIsLastWord
  <1>0. count \in Nat /\ DOMAIN seen \subseteq 1 .. count
    BY DEF StatusInv, RowsFit
  <1>1. count \in Nat /\ DOMAIN seen \subseteq 1 .. count /\ Heard(seen, count) = DOMAIN seen
    BY <1>0 DEF Heard
  <1>2. ASSUME NEW p \in DOMAIN partitions
        PROVE  LET i == LastIndex(seen, LAMBDA e : Concerns(e, p))
               IN  partitions[p].armed = (i # 0 /\ Arms(seen[i]))
    <2> DEFINE about == {i \in DOMAIN seen : Concerns(seen[i], p)}
               i == Max({0} \cup about)
    <2>1. about \subseteq 1 .. count
      BY <1>1
    <2>2. /\ about = {} => i = 0
          /\ about # {} => i \in about
          /\ \A j \in about : j <= i /\ j \in Nat /\ j > 0
      <3>1. \A j \in about : j \in Nat /\ j > 0
        BY <1>1, <2>1
      <3> HIDE DEF about
      <3> QED
        BY <1>1, <2>1, <3>1, LastIs
    <2>3. \/ about = {} /\ partitions[p] = Fresh.groups[p]
          \/ \E k \in about :
               /\ \A j \in about : j <= k
               /\ partitions[p] = [armed |-> Arms(seen[k]), changedAt |-> seen[k].receivedAt]
      BY <1>1 DEF StatusInv, Says, Shown, GroupsSay
    <2>4. about = {} => p \in DOMAIN Fresh.groups
      BY <1>1 DEF StatusInv, Says, Shown, GroupsSay, Concerns
    <2>5. p \in DOMAIN Fresh.groups => Fresh.groups[p].armed = FALSE
      BY DEF Fresh
    <2>6. partitions[p].armed = (i # 0 /\ Arms(seen[i]))
      <3>1. CASE about = {}
        BY <2>2, <2>3, <2>4, <2>5, <3>1
      <3>2. CASE about # {}
        <4>1. PICK k \in about :
                /\ \A j \in about : j <= k
                /\ partitions[p] = [armed |-> Arms(seen[k]), changedAt |-> seen[k].receivedAt]
          BY <2>3, <3>2
        <4>2. k = i /\ i # 0
          <5> HIDE DEF about, i
          <5> QED
            BY <2>2, <3>2, <4>1
        <4>3. partitions[p].armed = Arms(seen[k])
          BY <4>1
        <4> HIDE DEF i
        <4> QED
          BY <4>2, <4>3 DEF Arms
      <3> QED
        BY <3>1, <3>2
    <2> QED
      BY <2>6 DEF LastIndex
  <1>3. ASSUME NEW k
        PROVE  LET i == Max({0} \cup {j \in DOMAIN seen : Settles(seen[j], k)})
               IN  /\ i # 0 => LastWord(seen, count, k, i)
                   /\ \A j : LastWord(seen, count, k, j) => j = i /\ i # 0
    <2> DEFINE settling == {i \in DOMAIN seen : Settles(seen[i], k)}
               i == Max({0} \cup settling)
    <2>1. settling \subseteq 1 .. count
      BY <1>1
    <2>2. /\ settling = {} => i = 0
          /\ settling # {} => i \in settling
          /\ \A j \in settling : j <= i /\ j \in Nat /\ j > 0
      <3>1. \A j \in settling : j \in Nat /\ j > 0
        BY <1>1, <2>1
      <3> HIDE DEF settling
      <3> QED
        BY <1>1, <2>1, <3>1, LastIs
    <2>3. \A j : LastWord(seen, count, k, j) <=> j \in settling /\ \A l \in settling : l <= j
      BY <1>1 DEF LastWord
    <2>4. /\ i # 0 => LastWord(seen, count, k, i)
          /\ \A j : LastWord(seen, count, k, j) => j = i /\ i # 0
      <3> HIDE DEF settling, i
      <3> QED
        BY <2>2, <2>3
    <2> QED
      BY <2>4
  <1>4. DOMAIN troubles =
          {k \in {TroubleKey(seen[i]) : i \in DOMAIN seen} :
             LET i == LastIndex(seen, LAMBDA e : Settles(e, k))
             IN  i # 0 /\ IsTrouble(seen[i])}
    <2> DEFINE at(k) == Max({0} \cup {j \in DOMAIN seen : Settles(seen[j], k)})
    <2>1. \A k : at(k) # 0 => LastWord(seen, count, k, at(k))
      BY <1>3
    <2>2. \A k, j : LastWord(seen, count, k, j) => j = at(k) /\ at(k) # 0
      BY <1>3
    <2> HIDE DEF at
    <2>3. ASSUME NEW k \in DOMAIN troubles
          PROVE  k \in {TroubleKey(seen[i]) : i \in DOMAIN seen} /\ at(k) # 0 /\ IsTrouble(seen[at(k)])
      <3>1. PICK i \in Heard(seen, count) : LastWord(seen, count, k, i) /\ IsTrouble(seen[i])
        BY DEF StatusInv, Says, Shown, TroublesSay
      <3>2. i \in DOMAIN seen /\ TroubleKey(seen[i]) = k
        BY <1>1, <3>1 DEF LastWord, Settles
      <3> QED
        BY <2>2, <3>1, <3>2
    <2>4. ASSUME NEW k, at(k) # 0, IsTrouble(seen[at(k)])
          PROVE  k \in DOMAIN troubles
      <3>1. LastWord(seen, count, k, at(k))
        BY <2>1, <2>4
      <3>2. at(k) \in Heard(seen, count) /\ TroubleKey(seen[at(k)]) = k
        BY <3>1 DEF LastWord, Settles
      <3> QED
        BY <2>4, <3>1, <3>2 DEF StatusInv, Says, Shown, TroublesSay
    <2>5. DOMAIN troubles =
            {k \in {TroubleKey(seen[i]) : i \in DOMAIN seen} : at(k) # 0 /\ IsTrouble(seen[at(k)])}
      BY <2>3, <2>4
    <2> QED
      BY <2>5 DEF at, LastIndex
  <1> QED
    BY <1>2, <1>4 DEF StatusIsLastWord

(* Whatever the order of messages, restorals and restarts, and however many:  *)
(* the dashboard shows each group and each trouble as the last event about it  *)
(* left it, for every configuration and every hub.                             *)
THEOREM LastWordCounts == Spec => []StatusIsLastWord
  <1>1. StatusInv => StatusIsLastWord
    BY LastWordIsSaid
  <1> QED
    BY <1>1, StatusFits, PTL

(* An unknown code whose description speaks of an alarm is an alarm: the hints *)
(* of a restoral are the only ones that come before it.                        *)
THEOREM UnknownAlarmsRing == Spec => []UnknownAlarmRings
  <1>1. StatusInv => UnknownAlarmRings
    BY DEF StatusInv, RowsFit, Sound, Rings, UnknownAlarmRings
  <1> QED
    BY <1>1, StatusFits, PTL

(* The title of a night arming follows the local clock, for every night window *)
(* and every difference with UTC.                                              *)
THEOREM NightsAreLocal == Spec => []NightIsLocal
  <1>1. StatusInv => NightIsLocal
    BY DEF StatusInv, RowsFit, Sound, IsTitled, NightIsLocal
  <1> QED
    BY <1>1, StatusFits, PTL

(* A detector has one name, with or without zeros and in real alarms and test  *)
(* alarms alike, when the configuration does not give two names to one number. *)
THEOREM OneName ==
  ASSUME OneNamePerNumber
  PROVE  Spec => []OneNamePerDetector
  <1>1. ASSUME StatusInv PROVE OneNamePerDetector
    <2> SUFFICES ASSUME NEW i \in DOMAIN seen, NEW j \in DOMAIN seen,
                        seen[i].device # None, seen[j].device # None,
                        seen[i].device.number = seen[j].device.number,
                        NEW n \in DOMAIN Devices, Devices[n].id.number = seen[i].device.number
                 PROVE  seen[i].name = seen[j].name
      BY DEF OneNamePerDetector
    <2>1. \A k \in {i, j} :
            /\ seen[k].device \in Ids
            /\ seen[k].name = Or(Match(Devices, seen[k].device), seen[k].device)
            /\ Match(Devices, seen[k].device) = Devices[n].name
      <3>1. \A k \in {i, j} :
              /\ seen[k].device \in Ids
              /\ seen[k].name = Or(Match(Devices, seen[k].device), seen[k].device)
        BY <1>1 DEF StatusInv, RowsFit, Sound, IsNamed
      <3> QED
        BY <3>1, MatchIs
    <2>2. Devices[n].name # None
      BY TablesAreFilledIn
    <2> QED
      BY <2>1, <2>2 DEF Or
  <1>2. StatusInv => OneNamePerDetector
    BY <1>1
  <1> QED
    BY <1>2, StatusFits, PTL

(* Two statuses of which one has heard only the newest of the other's events   *)
(* agree on everything those events speak of.                                  *)
LEMMA NewestAgree ==
  ASSUME NEW n \in Nat, NEW old, DOMAIN old \subseteq 1 .. n,
         NEW rows, DOMAIN rows \subseteq DOMAIN old,
         \A i \in DOMAIN rows : rows[i] = old[i],
         \A i \in DOMAIN rows, j \in DOMAIN old : j > i => j \in DOMAIN rows,
         NEW before, Says(before, old, n),
         NEW after, Says(after, rows, n),
         NEW i \in DOMAIN rows
  PROVE  /\ \A p \in DOMAIN after.groups :
              Concerns(rows[i], p) => after.groups[p] = before.groups[p]
         /\ LET k == TroubleKey(rows[i])
            IN  Settles(rows[i], k) =>
                  /\ k \in DOMAIN after.active <=> k \in DOMAIN before.active
                  /\ k \in DOMAIN before.active => after.active[k] = before.active[k]
         /\ rows[i].severity = "alarm" => after.alarm = before.alarm
  <1>1. Heard(old, n) = DOMAIN old /\ Heard(rows, n) = DOMAIN rows
    BY DEF Heard
  <1>2. DOMAIN rows \subseteq Nat /\ DOMAIN old \subseteq Nat
    OBVIOUS
  <1>3. ASSUME NEW p \in DOMAIN after.groups, Concerns(rows[i], p)
        PROVE  after.groups[p] = before.groups[p]
    <2>1. p \in DOMAIN before.groups
      <3>1. \A j \in DOMAIN rows : Group(rows[j]) = Group(old[j]) /\ (IsArming(rows[j]) <=> IsArming(old[j]))
        OBVIOUS
      <3> QED
        BY <1>1, <3>1 DEF Says, GroupsSay
    <2>2. PICK j \in DOMAIN rows :
            /\ Concerns(rows[j], p)
            /\ \A l \in DOMAIN rows : Concerns(rows[l], p) => l <= j
            /\ after.groups[p] = [armed |-> Arms(rows[j]), changedAt |-> rows[j].receivedAt]
      BY <1>1, <1>3 DEF Says, GroupsSay
    <2>3. Concerns(old[j], p) /\ j \in DOMAIN old
      BY <2>2
    <2>4. PICK m \in DOMAIN old :
            /\ Concerns(old[m], p)
            /\ \A l \in DOMAIN old : Concerns(old[l], p) => l <= m
            /\ before.groups[p] = [armed |-> Arms(old[m]), changedAt |-> old[m].receivedAt]
      BY <1>1, <2>1, <2>3 DEF Says, GroupsSay
    <2>5. m \in DOMAIN rows
      BY <1>2, <2>3, <2>4
    <2>6. m = j
      BY <1>2, <2>2, <2>3, <2>4, <2>5
    <2> QED
      BY <2>2, <2>4, <2>6
  <1>4. ASSUME NEW k, Settles(rows[i], k), k = TroubleKey(rows[i])
        PROVE  /\ k \in DOMAIN after.active <=> k \in DOMAIN before.active
               /\ k \in DOMAIN before.active => after.active[k] = before.active[k]
    <2>1. \A j : LastWord(rows, n, k, j) <=> LastWord(old, n, k, j)
      <3>1. ASSUME NEW j, LastWord(rows, n, k, j)
            PROVE  LastWord(old, n, k, j)
        <4>1. j \in DOMAIN rows /\ Settles(old[j], k)
          BY <1>1, <3>1 DEF LastWord
        <4>2. ASSUME NEW l \in DOMAIN old, Settles(old[l], k)
              PROVE  l <= j
          <5>1. l > j => l \in DOMAIN rows /\ Settles(rows[l], k)
            BY <4>1, <4>2
          <5> QED
            BY <1>1, <1>2, <3>1, <4>1, <5>1 DEF LastWord
        <4> QED
          BY <1>1, <4>1, <4>2 DEF LastWord
      <3>2. ASSUME NEW j, LastWord(old, n, k, j)
            PROVE  LastWord(rows, n, k, j)
        <4>1. i <= j /\ j \in DOMAIN old
          BY <1>1, <1>4, <3>2 DEF LastWord
        <4>2. j \in DOMAIN rows
          BY <1>2, <4>1
        <4> QED
          BY <1>1, <3>2, <4>2 DEF LastWord
      <3> QED
        BY <3>1, <3>2
    <2>2. CASE \E j : LastWord(rows, n, k, j)
      <3>1. PICK j : LastWord(rows, n, k, j)
        BY <2>2
      <3>2. LastWord(old, n, k, j) /\ j \in DOMAIN rows /\ rows[j] = old[j]
        BY <1>1, <2>1, <3>1 DEF LastWord
      <3>3. \A l : LastWord(rows, n, k, l) \/ LastWord(old, n, k, l) => l = j
        BY <1>1, <1>2, <2>1, <3>1 DEF LastWord
      <3>4. TroubleKey(rows[j]) = k /\ TroubleKey(old[j]) = k
        BY <3>2 DEF LastWord, Settles
      <3>5. /\ k \in DOMAIN after.active <=> IsTrouble(rows[j])
            /\ k \in DOMAIN after.active =>
                 after.active[k] = [code |-> rows[j].code, since |-> rows[j].receivedAt]
        BY <1>1, <3>1, <3>2, <3>3, <3>4 DEF Says, TroublesSay
      <3>6. /\ k \in DOMAIN before.active <=> IsTrouble(old[j])
            /\ k \in DOMAIN before.active =>
                 before.active[k] = [code |-> old[j].code, since |-> old[j].receivedAt]
        BY <1>1, <3>2, <3>3, <3>4 DEF Says, TroublesSay
      <3> QED
        BY <3>2, <3>5, <3>6
    <2>3. CASE ~\E j : LastWord(rows, n, k, j)
      <3>1. k \notin DOMAIN after.active
        BY <2>3 DEF Says, TroublesSay
      <3>2. k \notin DOMAIN before.active
        BY <2>1, <2>3 DEF Says, TroublesSay
      <3> QED
        BY <3>1, <3>2
    <2> QED
      BY <2>2, <2>3
  <1>5. ASSUME rows[i].severity = "alarm"
        PROVE  after.alarm = before.alarm
    <2>1. PICK j \in DOMAIN rows :
            /\ rows[j].severity = "alarm"
            /\ \A l \in DOMAIN rows : rows[l].severity = "alarm" => l <= j
            /\ after.alarm = Named(rows[j])
      BY <1>1, <1>5 DEF Says, AlarmSays
    <2>2. old[j].severity = "alarm" /\ j \in DOMAIN old
      BY <2>1
    <2>3. PICK m \in DOMAIN old :
            /\ old[m].severity = "alarm"
            /\ \A l \in DOMAIN old : old[l].severity = "alarm" => l <= m
            /\ before.alarm = Named(old[m])
      BY <1>1, <2>2 DEF Says, AlarmSays
    <2>4. m \in DOMAIN rows
      BY <1>2, <2>2, <2>3
    <2>5. m = j
      BY <1>2, <2>1, <2>2, <2>3, <2>4
    <2> QED
      BY <2>1, <2>3, <2>5
  <1> QED
    BY <1>3, <1>4, <1>5

(* What is thrown away is too old to be replayed.                              *)
KeepsLongEnough == Retention <= 0 \/ Retention >= Lookback

(* After a restart without losses the newest of the same events are known. *)
LEMMA RestartListsNewest ==
  ASSUME StatusInv, Restart, complete, KeepsLongEnough
  PROVE  /\ DOMAIN seen' \subseteq DOMAIN seen
         /\ \A i \in DOMAIN seen' : seen'[i] = seen[i]
         /\ \A i \in DOMAIN seen', j \in DOMAIN seen : j > i => j \in DOMAIN seen'
  <1>1. seen' = Listed(Purged)
    BY DEF Restart
  <1>2. Young(Purged) = Young(log)
    <2>1. \A i \in DOMAIN log : log[i].receivedAt \in Int
      BY DEF StatusInv, RowsFit
    <2>2. now \in Int /\ Lookback \in Int /\ Retention \in Int
      BY SettingsAreNumbers DEF StatusInv, RowsFit
    <2> QED
      BY <2>1, <2>2 DEF Purged, Restrict, Young, KeepsLongEnough
  <1>3. DOMAIN seen' = Newest(Young(log)) /\ DOMAIN seen' = DOMAIN Listed(log)
    BY <1>1, <1>2, ListedIs
  <1>4. DOMAIN seen' \subseteq DOMAIN seen
    BY <1>3 DEF StatusInv, LogCovers
  <1>5. \A i \in DOMAIN seen' : i \in DOMAIN log /\ seen'[i] = log[i]
    BY <1>1, ListedIs, PurgedIs
  <1>6. \A i \in DOMAIN seen' : seen'[i] = seen[i]
    BY <1>4, <1>5 DEF StatusInv, RowsFit
  <1>7. ASSUME NEW i \in DOMAIN seen', NEW j \in DOMAIN seen, j > i
        PROVE  j \in DOMAIN seen'
    <2>1. j \in DOMAIN log /\ i \in Young(log)
      BY <1>3 DEF StatusInv, LogCovers, Newest
    <2>2. /\ log[i].receivedAt <= log[j].receivedAt
          /\ log[i].receivedAt \in Int /\ log[j].receivedAt \in Int
          /\ now \in Int /\ Lookback \in Int
      <3>1. i \in DOMAIN log /\ i \in Nat /\ j \in Nat
        BY <2>1 DEF StatusInv, RowsFit, Young
      <3> QED
        BY <1>7, <2>1, <3>1, SettingsAreNumbers DEF StatusInv, RowsFit
    <2>3. j \in Young(log)
      BY <2>1, <2>2 DEF Young
    <2>4. Young(log) \subseteq Nat /\ IsFiniteSet(Young(log)) /\ i \in Newest(Young(log))
      BY <1>3, YoungIsFinite DEF StatusInv
    <2> QED
      BY <1>3, <1>7, <2>3, <2>4, NewestIsUpper
  <1> QED
    BY <1>4, <1>6, <1>7

(* The action of RestartAgrees. *)
Agrees ==
  Restart /\ complete =>
    \A i \in DOMAIN seen' :
       LET e == seen'[i]
       IN  /\ \A p \in DOMAIN partitions' : Concerns(e, p) => partitions'[p] = partitions[p]
           /\ LET k == TroubleKey(e)
              IN  Settles(e, k) => /\ k \in DOMAIN troubles' <=> k \in DOMAIN troubles
                                   /\ k \in DOMAIN troubles => troubles'[k] = troubles[k]
           /\ e.severity = "alarm" => lastAlarm' = lastAlarm

LEMMA StepAgrees ==
  ASSUME StatusInv, [Next]_vars, KeepsLongEnough
  PROVE  Agrees
  <1> SUFFICES ASSUME Restart, complete
               PROVE  Agrees
    BY DEF Agrees
  <1>1. StatusInv'
    BY RestartFits
  <1>2. /\ DOMAIN seen' \subseteq DOMAIN seen
        /\ \A i \in DOMAIN seen' : seen'[i] = seen[i]
        /\ \A i \in DOMAIN seen', j \in DOMAIN seen : j > i => j \in DOMAIN seen'
    BY RestartListsNewest
  <1>3. count \in Nat /\ DOMAIN seen \subseteq 1 .. count /\ count' = count
    BY DEF StatusInv, RowsFit, Restart
  <1>4. Says(Shown, seen, count) /\ Says(Shown', seen', count)
    BY <1>1, <1>3 DEF StatusInv
  <1> DEFINE rows == seen'
             before == Shown
             after == Shown'
  <1>5. ASSUME NEW i \in DOMAIN rows
        PROVE  /\ \A p \in DOMAIN after.groups :
                    Concerns(rows[i], p) => after.groups[p] = before.groups[p]
               /\ LET k == TroubleKey(rows[i])
                  IN  Settles(rows[i], k) =>
                        /\ k \in DOMAIN after.active <=> k \in DOMAIN before.active
                        /\ k \in DOMAIN before.active => after.active[k] = before.active[k]
               /\ rows[i].severity = "alarm" => after.alarm = before.alarm
    <2>1. /\ DOMAIN rows \subseteq DOMAIN seen
          /\ \A j \in DOMAIN rows : rows[j] = seen[j]
          /\ \A j \in DOMAIN rows, l \in DOMAIN seen : l > j => l \in DOMAIN rows
      BY <1>2
    <2>2. Says(before, seen, count) /\ Says(after, rows, count)
      BY <1>4
    <2> HIDE DEF rows, before, after
    <2> QED
      BY <1>3, <1>5, <2>1, <2>2, NewestAgree
  <1> QED
    BY <1>5 DEF Agrees, Shown

(* A restart shows the same as before about everything it replays, provided    *)
(* that what the purge throws away is older than what is replayed: otherwise   *)
(* an old alarm, which is kept, takes the place of a newer row that is not.     *)
THEOREM NothingChangesAtRestart ==
  ASSUME KeepsLongEnough
  PROVE  Spec => RestartAgrees
  <1>1. StatusInv /\ [Next]_vars => [Agrees]_vars
    BY StepAgrees
  <1>2. Spec => [][Agrees]_vars
    BY <1>1, StatusFits, PTL DEF Spec
  <1> QED
    BY <1>2, PTL DEF RestartAgrees, Agrees

LEMMA TypesFit ==
  ASSUME StatusInv, IInv
  PROVE  TypeOK
  <1>1. ASSUME NEW p \in DOMAIN partitions
        PROVE  p \in Ids /\ partitions[p].armed \in BOOLEAN /\ p.number # 0
    <2>1. DOMAIN partitions = DOMAIN Fresh.groups
            \cup {Group(seen[i]) : i \in {j \in Heard(seen, count) : IsArming(seen[j])}}
      BY DEF StatusInv, Says, Shown, GroupsSay
    <2>2. \A q \in DOMAIN Fresh.groups :
            q \in Ids /\ q.number # 0 /\ Fresh.groups[q].armed = FALSE
      BY TablesAreFilledIn DEF Fresh
    <2>3. \A i \in DOMAIN seen : Group(seen[i]) \in Ids /\ Group(seen[i]).number # 0
      <3>1. One \in Ids /\ One.number = 1
        BY DEF One, Ids
      <3> QED
        BY <3>1 DEF StatusInv, RowsFit, Sound, IsPlaced, Group, Or
    <2>4. p \in Ids /\ p.number # 0
      BY <2>1, <2>2, <2>3 DEF Heard
    <2>5. partitions[p].armed \in BOOLEAN
      <3>1. StatusIsLastWord
        BY LastWordIsSaid
      <3> QED
        BY <3>1 DEF StatusIsLastWord, Arms
    <2> QED
      BY <2>4, <2>5
  <1>2. ASSUME NEW k \in DOMAIN troubles
        PROVE  k[1] \in StickyCategories /\ troubles[k].since \in 0 .. now
    <2>1. PICK i \in DOMAIN seen :
            /\ Settles(seen[i], k) /\ IsTrouble(seen[i])
            /\ troubles[k] = [code |-> seen[i].code, since |-> seen[i].receivedAt]
      BY DEF StatusInv, Says, Shown, TroublesSay, LastWord, Heard
    <2>2. k = <<seen[i].category, seen[i].device>> /\ seen[i].category \in StickyCategories
      BY <2>1 DEF Settles, IsTrouble, TroubleKey
    <2>3. troubles[k].since = seen[i].receivedAt /\ seen[i].receivedAt \in 0 .. now
      BY <2>1 DEF StatusInv, RowsFit
    <2> HIDE DEF StickyCategories
    <2> QED
      BY <2>2, <2>3
  <1>3. /\ now \in 0 .. MaxTime /\ complete \in BOOLEAN
        /\ \A k \in DOMAIN recent : recent[k] \in 0 .. now
        /\ \A k \in DOMAIN told : told[k] \in 0 .. now
    BY DEF StatusInv, RowsFit, LogCovers, IInv, RecentIsTold
  <1> QED
    BY <1>1, <1>2, <1>3 DEF TypeOK

(* The clock, the groups, the troubles and the stamps of the rules have their   *)
(* types: a group has a number that is not zero, whatever the hub fills in, and *)
(* no trouble or stamp lies in the future.                                      *)
THEOREM Types == Spec => []TypeOK
  <1>1. StatusInv /\ IInv => TypeOK
    BY TypesFit
  <1>2. Spec => []IInv
    <2>1. Init => IInv
      BY InitIInv
    <2>2. IInv /\ [Next]_vars => IInv'
      BY IInvStep
    <2> QED
      BY <2>1, <2>2, PTL DEF Spec
  <1> QED
    BY <1>1, <1>2, StatusFits, PTL
=============================================================================
