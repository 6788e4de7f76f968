--------------------------- MODULE SelftestProofs ---------------------------
(***************************************************************************)
(* Proofs about Selftest, for every plan (length of a day, slot, weekday   *)
(* and deadline), every number of rows and every set of moments.           *)
(***************************************************************************)
EXTENDS Selftest, FiniteSetTheorems, TLAPS

(* The rows that exist are those whose run_once has begun. *)
Begun ==
  /\ \A r \in RunIds : task[r] = "none" <=> r > Len(runs)
  /\ \A r \in RunIds : task[r] \in {"logging", "saving", "reporting"} => phone[r] # "silent"

(* What _run waits for lies after every planned row whose turn has passed. *)
PlannedAhead ==
  /\ \A i \in DOMAIN runs : runs[i].started <= now
  /\ up /\ target # NoSlot =>
       \A i \in DOMAIN runs :
         runs[i].slot # NoSlot /\ task[i] = "over" => runs[i].started < target

IInv == TypeOK /\ Begun /\ PlannedAhead /\ OncePerSlot

-----------------------------------------------------------------------------
(***************************************************************************)
(* next_run_after gives a moment that is still to come.                    *)
(***************************************************************************)

LEMMA DayContains ==
  ASSUME NEW t \in Nat, NEW d \in Nat \ {0}
  PROVE  (t \div d) \in Nat /\ t < ((t \div d) + 1) * d
  OBVIOUS

LEMMA WeekLater ==
  ASSUME NEW q \in Nat, NEW d \in Nat \ {0}, NEW t \in Nat, t < (q + 1) * d,
         NEW a \in Nat, NEW s \in Nat
  PROVE  (q + a) * d + s \in Nat /\ (q + a) * d + s + 7 * d \in Nat
         /\ (q + a) * d + s + 7 * d > t
  OBVIOUS

LEMMA NextRunIsAhead ==
  ASSUME NEW time \in Nat
  PROVE  NextRun(time) \in Nat /\ time < NextRun(time)
  <1> DEFINE ahead == (Weekday - (DayOf(time) % 7)) % 7
             candidate == (DayOf(time) + ahead) * DayLength + Slot
  <1>1. DayOf(time) \in Nat /\ time < (DayOf(time) + 1) * DayLength
    BY DayContains, PlanIsValid DEF DayOf
  <1>2. ahead \in Nat
    <2>1. Weekday \in Int /\ DayOf(time) % 7 \in Int
      BY <1>1, PlanIsValid
    <2>2. \A n \in Int : n % 7 \in Nat
      OBVIOUS
    <2> HIDE DEF ahead
    <2> QED
      BY <2>1, <2>2 DEF ahead
  <1>3. /\ candidate \in Nat /\ candidate + 7 * DayLength \in Nat
        /\ candidate + 7 * DayLength > time
    <2> HIDE DEF ahead
    <2> QED
      BY <1>1, <1>2, WeekLater, PlanIsValid
  <1>4. NextRun(time) = IF candidate <= time THEN candidate + 7 * DayLength ELSE candidate
    BY DEF NextRun
  <1> HIDE DEF candidate
  <1> QED
    BY <1>3, <1>4

(* The bound on Moments only ever leaves a turn out. *)
LEMMA TurnIsNextRun == Turn \in {NextRun(now), NoSlot}
  BY DEF Turn

LEMMA NowIsNat == TypeOK => now \in Nat
  BY BoundsAreNatural DEF TypeOK

-----------------------------------------------------------------------------
(***************************************************************************)
(* How the table changes: a row is added at the end, or one row is         *)
(* confirmed, or one row gets its ring_status.                             *)
(***************************************************************************)

LEMMA AppendedRow ==
  ASSUME runs \in Seq(Run), NEW row \in Run, runs' = Append(runs, row)
  PROVE  /\ runs' \in Seq(Run) /\ Len(runs) \in Nat /\ Len(runs') = Len(runs) + 1
         /\ DOMAIN runs = 1 .. Len(runs) /\ DOMAIN runs' = 1 .. Len(runs) + 1
         /\ runs'[Len(runs) + 1] = row
         /\ \A i \in 1 .. Len(runs) : runs'[i] = runs[i]
  OBVIOUS

(* The rows keep what the plan is about when only acked or ring is written. *)
SameRows ==
  /\ runs' \in Seq(Run) /\ Len(runs') = Len(runs) /\ DOMAIN runs' = DOMAIN runs
  /\ \A i \in DOMAIN runs :
       runs'[i].slot = runs[i].slot /\ runs'[i].started = runs[i].started

LEMMA AckedKeepsRows ==
  ASSUME runs \in Seq(Run), NEW row \in 0 .. Len(runs), runs' = Acked(row)
  PROVE  /\ SameRows
         /\ \A i \in DOMAIN runs : /\ runs[i].acked => runs'[i].acked
                                   /\ runs'[i].ring = runs[i].ring
  <1>1. \A i \in DOMAIN runs : runs[i] \in Run
    OBVIOUS
  <1>2. CASE row = 0
    BY <1>2 DEF Acked, SameRows
  <1>3. CASE row # 0
    <2>1. row \in DOMAIN runs /\ runs' = [runs EXCEPT ![row].acked = TRUE]
      BY <1>3 DEF Acked
    <2>2. [runs[row] EXCEPT !.acked = TRUE] \in Run
      BY <1>1, <2>1 DEF Run
    <2>3. runs' = [runs EXCEPT ![row] = [runs[row] EXCEPT !.acked = TRUE]]
      BY <2>1
    <2>4. runs' \in Seq(Run) /\ Len(runs') = Len(runs) /\ DOMAIN runs' = DOMAIN runs
      BY <2>1, <2>2, <2>3
    <2>5. \A i \in DOMAIN runs :
            runs'[i] = IF i = row THEN [runs[i] EXCEPT !.acked = TRUE] ELSE runs[i]
      BY <2>3
    <2>6. ASSUME NEW i \in DOMAIN runs
          PROVE  /\ runs'[i].slot = runs[i].slot /\ runs'[i].started = runs[i].started
                 /\ runs'[i].ring = runs[i].ring
                 /\ runs[i].acked => runs'[i].acked
      BY <1>1, <2>5 DEF Run
    <2> QED
      BY <2>4, <2>6 DEF SameRows
  <1> QED
    BY <1>2, <1>3

LEMMA ReportKeepsRows ==
  ASSUME runs \in Seq(Run), NEW r \in DOMAIN runs, NEW new \in {"sent", "failed"},
         runs' = [runs EXCEPT ![r].ring = new]
  PROVE  /\ SameRows
         /\ \A i \in DOMAIN runs : /\ runs'[i].acked = runs[i].acked
                                   /\ i # r => runs'[i].ring = runs[i].ring
  <1>1. \A i \in DOMAIN runs : runs[i] \in Run
    OBVIOUS
  <1>2. [runs[r] EXCEPT !.ring = new] \in Run
    BY <1>1 DEF Run
  <1>3. runs' = [runs EXCEPT ![r] = [runs[r] EXCEPT !.ring = new]]
    OBVIOUS
  <1>4. runs' \in Seq(Run) /\ Len(runs') = Len(runs) /\ DOMAIN runs' = DOMAIN runs
    BY <1>2, <1>3
  <1>5. \A i \in DOMAIN runs :
          runs'[i] = IF i = r THEN [runs[i] EXCEPT !.ring = new] ELSE runs[i]
    BY <1>3
  <1>6. ASSUME NEW i \in DOMAIN runs
        PROVE  /\ runs'[i].slot = runs[i].slot /\ runs'[i].started = runs[i].started
               /\ runs'[i].acked = runs[i].acked
               /\ i # r => runs'[i].ring = runs[i].ring
    BY <1>1, <1>5 DEF Run
  <1> QED
    BY <1>4, <1>6 DEF SameRows

-----------------------------------------------------------------------------
(***************************************************************************)
(* Types, and rows that have begun.                                        *)
(***************************************************************************)

Typed == TypeOK /\ Begun

Row(slot) == [slot |-> slot, started |-> now, ring |-> "pending", acked |-> FALSE]

LEMMA InsertTyped ==
  ASSUME Typed, NEW slot \in Nat \cup {NoSlot}, Insert(slot), UNCHANGED target
  PROVE  Typed'
  <1>1. Row(slot) \in Run /\ runs' = Append(runs, Row(slot)) /\ runs \in Seq(Run)
    BY DEF Typed, TypeOK, Row, Run, Insert
  <1>2. /\ runs' \in Seq(Run) /\ Len(runs) \in Nat /\ Len(runs') = Len(runs) + 1
    BY <1>1, AppendedRow
  <1>3. Len(runs) + 1 \in RunIds /\ Len(runs') <= MaxRuns
    BY <1>2, BoundsAreNatural DEF Insert, RunIds
  <1>4. task' = [task EXCEPT ![Len(runs) + 1] = "posting"]
    BY DEF Insert, Goes
  <1>5. 0 .. Len(runs) \subseteq 0 .. Len(runs')
    BY <1>2
  <1>6. TypeOK'
    <2>1. watcher \in [ring : {0} \cup RunIds, row : 0 .. Len(runs'),
                       step : {"none", "polling", "forgetting", "expiring", "reading", "writing"}]
      BY <1>5 DEF Typed, TypeOK
    <2>2. click \in [ring : {0}, row : 0 .. Len(runs'), step : {"none", "writing"}]
      BY <1>5 DEF Typed, TypeOK
    <2> QED
      BY <1>2, <1>3, <1>4, <2>1, <2>2 DEF Typed, TypeOK, Insert, history
  <1>7. Begun'
    <2>1. ASSUME NEW r \in RunIds PROVE task'[r] = "none" <=> r > Len(runs')
      <3>1. CASE r = Len(runs) + 1
        BY <3>1, <1>2, <1>3, <1>4 DEF Typed, TypeOK
      <3>2. CASE r # Len(runs) + 1
        <4>1. task'[r] = task[r] /\ r \in Int
          BY <3>2, <1>4, BoundsAreNatural DEF Typed, TypeOK, RunIds
        <4>2. r > Len(runs) <=> r > Len(runs')
          BY <3>2, <4>1, <1>2
        <4> QED
          BY <4>1, <4>2 DEF Typed, Begun
      <3> QED
        BY <3>1, <3>2
    <2>2. phone' = phone
      BY DEF Insert
    <2> QED
      BY <2>1, <2>2, <1>4, <1>3 DEF Begun, Typed, TypeOK
  <1> QED
    BY <1>6, <1>7 DEF Typed

LEMMA RowsTyped ==
  ASSUME Typed
  PROVE  /\ now \in Nat /\ runs \in Seq(Run) /\ Len(runs) \in Nat
         /\ DOMAIN runs = 1 .. Len(runs) /\ DOMAIN runs \subseteq RunIds
         /\ \A i \in DOMAIN runs : runs[i] \in Run /\ runs[i].started \in Nat
  <1>1. /\ runs \in Seq(Run) /\ Len(runs) \in Nat /\ DOMAIN runs = 1 .. Len(runs)
        /\ Len(runs) <= MaxRuns
    BY DEF Typed, TypeOK
  <1>2. DOMAIN runs \subseteq RunIds
    BY <1>1, BoundsAreNatural DEF RunIds
  <1>3. \A i \in DOMAIN runs : runs[i] \in Run
    BY <1>1
  <1>4. \A row \in Run : row.started \in Nat
    BY BoundsAreNatural DEF Run
  <1> QED
    BY <1>1, <1>2, <1>3, <1>4, NowIsNat DEF Typed

(* The rows keep their number, a run_once goes on. *)
LEMMA GoesTyped ==
  ASSUME Typed, NEW r \in RunIds, task[r] \notin {"none", "over"},
         NEW place \in {"logging", "failing", "saving", "reporting", "over"}, Goes(r, place),
         UNCHANGED Len(runs), \A q \in RunIds : phone[q] # "silent" => phone'[q] # "silent",
         place \in {"logging", "saving", "reporting"} => phone'[r] # "silent"
  PROVE  /\ Begun'
         /\ task' \in [RunIds -> {"none", "posting", "logging", "failing", "saving",
                                  "reporting", "over"}]
  BY DEF Typed, TypeOK, Begun, Goes

LEMMA RunOnceTyped ==
  ASSUME Typed, NEW r \in RunIds, RunOnce(r)
  PROVE  Typed'
  <1> USE DEF Typed
  <1>1. CASE Posted(r)
    <2>1. \A q \in RunIds : phone[q] # "silent" => phone'[q] # "silent"
      BY <1>1 DEF Posted, TypeOK
    <2>2. phone'[r] # "silent"
      BY <1>1 DEF Posted, TypeOK
    <2>3. /\ Begun'
          /\ task' \in [RunIds -> {"none", "posting", "logging", "failing", "saving",
                                   "reporting", "over"}]
      BY <1>1, <2>1, <2>2, GoesTyped DEF Posted
    <2> QED
      BY <1>1, <2>1, <2>3 DEF Posted, TypeOK, history
  <1>2. CASE PostFailed(r) \/ RingBreaks(r)
    <2>1. /\ Begun'
          /\ task' \in [RunIds -> {"none", "posting", "logging", "failing", "saving",
                                   "reporting", "over"}]
      BY <1>2, GoesTyped DEF PostFailed, RingBreaks
    <2> QED
      BY <1>2, <2>1 DEF PostFailed, RingBreaks, TypeOK, history
  <1>3. CASE Remembers(r)
    <2>1. phone[r] # "silent"
      BY <1>3 DEF Remembers, Begun
    <2>2. /\ Begun'
          /\ task' \in [RunIds -> {"none", "posting", "logging", "failing", "saving",
                                   "reporting", "over"}]
      BY <1>3, <2>1, GoesTyped DEF Remembers
    <2> QED
      BY <1>3, <2>1, <2>2 DEF Remembers, TypeOK, history
  <1>4. CASE Watches(r)
    <2>1. phone[r] # "silent"
      BY <1>4 DEF Watches, Begun
    <2>2. /\ Begun'
          /\ task' \in [RunIds -> {"none", "posting", "logging", "failing", "saving",
                                   "reporting", "over"}]
      BY <1>4, <2>1, GoesTyped DEF Watches
    <2>3. Len(runs) \in Nat
      BY DEF TypeOK
    <2>4. /\ watcher' \in [ring : {0} \cup RunIds, row : 0 .. Len(runs),
                           step : {"none", "polling", "forgetting", "expiring", "reading",
                                   "writing"}]
          /\ watcher'.ring \in {r, watcher.ring}
      BY <1>4, <2>3 DEF Watches, TypeOK
    <2>5. crossed' \in BOOLEAN
      BY <1>4 DEF Watches, TypeOK
    <2> QED
      BY <1>4, <2>1, <2>2, <2>4, <2>5 DEF Watches, TypeOK
  <1>5. ASSUME task[r] \notin {"none", "over"}, Goes(r, "over"), PlanAfter(r),
               runs' = runs \/ \E new \in {"sent", "failed"} : runs' = [runs EXCEPT ![r].ring = new],
               UNCHANGED <<now, up, phone, receipt, saved, watcher, click, history>>
        PROVE  Typed'
    <2>1. r \in DOMAIN runs
      BY <1>5, BoundsAreNatural DEF TypeOK, Begun, RunIds
    <2>2. runs' \in Seq(Run) /\ Len(runs') = Len(runs)
      BY <1>5, <2>1, ReportKeepsRows DEF SameRows, TypeOK
    <2>3. /\ Begun'
          /\ task' \in [RunIds -> {"none", "posting", "logging", "failing", "saving",
                                   "reporting", "over"}]
      BY <1>5, <2>2, GoesTyped
    <2>4. target' \in Nat \cup {NoSlot}
      BY <1>5, NowIsNat, NextRunIsAhead, TurnIsNextRun DEF PlanAfter, PlanNext, TypeOK
    <2> QED
      BY <1>5, <2>2, <2>3, <2>4 DEF TypeOK, history
  <1>6. CASE Report(r)
    <2>1. \E new \in {"sent", "failed"} : runs' = [runs EXCEPT ![r].ring = new]
      BY <1>6 DEF Report
    <2> QED
      BY <1>5, <1>6, <2>1 DEF Report
  <1>7. CASE Breaks(r)
    BY <1>5, <1>7 DEF Breaks
  <1> QED
    BY <1>1, <1>2, <1>3, <1>4, <1>6, <1>7 DEF RunOnce

LEMMA PhoneTyped ==
  ASSUME Typed, NEW r \in RunIds, Confirms(r) \/ Expires(r)
  PROVE  Typed'
  <1>1. \A q \in RunIds : phone[q] # "silent" => phone'[q] # "silent"
    BY DEF Typed, TypeOK, Confirms, Expires
  <1>2. Begun'
    BY <1>1 DEF Typed, Begun, Confirms, Expires
  <1>3. confirmed' \in Nat
    BY DEF Typed, TypeOK, Confirms, Expires, history
  <1>4. phone' \in [RunIds -> {"silent", "ringing", "confirmed", "expired"}]
    BY DEF Typed, TypeOK, Confirms, Expires
  <1> QED
    BY <1>1, <1>2, <1>3, <1>4 DEF Typed, TypeOK, Confirms, Expires, history

LEMMA WatcherTyped ==
  ASSUME Typed, Watcher
  PROVE  Typed'
  <1> DEFINE Watching == [ring : {0} \cup RunIds, row : 0 .. Len(runs),
                          step : {"none", "polling", "forgetting", "expiring", "reading",
                                  "writing"}]
  <1>0. watcher \in Watching /\ Idle \in Watching /\ Idle.ring = 0 /\ Len(runs) \in Nat
    BY DEF Typed, TypeOK, Idle
  <1>1. ASSUME NEW outcome, NEW as, Learns(outcome, as) PROVE Typed'
    <2>1. watcher' \in Watching /\ watcher'.ring \in {0, watcher.ring}
      BY <1>0, <1>1 DEF Learns, Follow
    <2>2. Begun'
      BY <1>1 DEF Learns, Typed, Begun
    <2>3. {receipt', saved', watcher'.ring} \subseteq {0} \cup {r \in RunIds : phone[r] # "silent"}
      <3> DEFINE rung == {0} \cup {r \in RunIds : phone[r] # "silent"}
      <3>1. receipt' = 0 /\ saved' = saved /\ {saved, watcher.ring} \subseteq rung
        BY <1>1 DEF Learns, Typed, TypeOK
      <3> QED
        BY <2>1, <3>1
    <2> QED
      BY <1>1, <2>1, <2>2, <2>3 DEF Learns, Typed, TypeOK, history
  <1>2. CASE Forgets
    <2>1. watcher' \in Watching /\ watcher'.ring \in {0, watcher.ring}
      BY <1>0, <1>2 DEF Forgets, Follow
    <2>2. Begun'
      BY <1>2 DEF Forgets, Typed, Begun
    <2>3. {receipt', saved', watcher'.ring} \subseteq {0} \cup {r \in RunIds : phone[r] # "silent"}
      BY <1>2, <2>1 DEF Forgets, Typed, TypeOK
    <2> QED
      BY <1>2, <2>1, <2>2, <2>3 DEF Forgets, Typed, TypeOK, history
  <1>3. CASE ReadsNewest
    <2>0. Len(runs) \in 0 .. Len(runs)
      BY <1>0
    <2>1. watcher' \in Watching /\ watcher'.ring = watcher.ring
      BY <1>0, <1>3, <2>0 DEF ReadsNewest
    <2>2. Begun'
      BY <1>3 DEF ReadsNewest, Typed, Begun
    <2> QED
      BY <1>3, <2>1, <2>2 DEF ReadsNewest, Typed, TypeOK, history
  <1>4. CASE Credits
    <2>1. runs' \in Seq(Run) /\ Len(runs') = Len(runs)
      BY <1>0, <1>4, AckedKeepsRows DEF Credits, SameRows, Typed, TypeOK
    <2>2. Begun'
      BY <1>4, <2>1 DEF Credits, Typed, Begun
    <2> QED
      BY <1>0, <1>4, <2>1, <2>2 DEF Credits, Typed, TypeOK, history
  <1>5. CASE WatcherBreaks
    <2>0. 0 \in 0 .. Len(runs)
      BY <1>0
    <2>1. watcher' \in Watching /\ watcher'.ring = watcher.ring
      BY <1>0, <1>5, <2>0 DEF WatcherBreaks
    <2>2. Begun'
      BY <1>5 DEF WatcherBreaks, Typed, Begun
    <2> QED
      BY <1>5, <2>1, <2>2 DEF WatcherBreaks, Typed, TypeOK, history
  <1> QED
    BY <1>1, <1>2, <1>3, <1>4, <1>5 DEF Watcher, LearnsConfirmed, LearnsExpired

LEMMA TypedStep ==
  ASSUME Typed, [Next]_vars
  PROVE  Typed'
  <1>0. Len(runs) \in Nat /\ Idle.ring = 0
    BY DEF Typed, TypeOK, Idle
  <1>1. CASE Tick
    BY <1>1 DEF Tick, Typed, TypeOK, Begun, history
  <1>2. CASE Rings
    BY <1>2, InsertTyped DEF Rings
  <1>3. CASE TurnComes \/ TurnLost
    <2>1. CASE TurnComes
      BY <2>1, InsertTyped DEF TurnComes, Typed, TypeOK
    <2>2. CASE TurnLost
      <3>1. target' \in Nat \cup {NoSlot}
        BY <2>2, NowIsNat, NextRunIsAhead, TurnIsNextRun DEF TurnLost, PlanNext, Typed
      <3>2. Begun'
        BY <2>2 DEF TurnLost, Typed, Begun
      <3> QED
        BY <2>2, <3>1, <3>2 DEF TurnLost, Typed, TypeOK, history
    <2> QED
      BY <1>3, <2>1, <2>2
  <1>4. CASE Clicks
    <2>1. click' \in [ring : {0}, row : 0 .. Len(runs), step : {"none", "writing"}]
      BY <1>0, <1>4 DEF Clicks
    <2>2. Begun'
      BY <1>4 DEF Clicks, Typed, Begun
    <2> QED
      BY <1>4, <2>1, <2>2 DEF Clicks, Typed, TypeOK, history
  <1>5. CASE ClickDone
    <2>1. runs' \in Seq(Run) /\ Len(runs') = Len(runs)
      BY <1>5, AckedKeepsRows DEF ClickDone, SameRows, Typed, TypeOK
    <2>2. Begun'
      BY <1>5, <2>1 DEF ClickDone, Typed, Begun
    <2>3. click' \in [ring : {0}, row : 0 .. Len(runs), step : {"none", "writing"}]
      BY <1>0, <1>5 DEF ClickDone, Idle
    <2> QED
      BY <1>5, <2>1, <2>2, <2>3 DEF ClickDone, Typed, TypeOK
  <1>11. CASE ClickBreaks
    <2>1. click' \in [ring : {0}, row : 0 .. Len(runs), step : {"none", "writing"}]
      BY <1>0, <1>11 DEF ClickBreaks, Idle
    <2>2. Begun'
      BY <1>11 DEF ClickBreaks, Typed, Begun
    <2> QED
      BY <1>11, <2>1, <2>2 DEF ClickBreaks, Typed, TypeOK, history
  <1>6. CASE Start
    <2>1. target' \in Nat \cup {NoSlot}
      BY <1>6, NowIsNat, NextRunIsAhead, TurnIsNextRun DEF Start, Typed
    <2>2. watcher' \in [ring : {0} \cup RunIds, row : 0 .. Len(runs),
                        step : {"none", "polling", "forgetting", "expiring", "reading",
                                "writing"}]
          /\ watcher'.ring \in {0, saved}
      BY <1>0, <1>6 DEF Start, Idle, Typed, TypeOK
    <2>3. Begun'
      BY <1>6 DEF Start, Typed, Begun
    <2> QED
      BY <1>6, <2>1, <2>2, <2>3 DEF Start, Typed, TypeOK, history
  <1>7. CASE Crash
    <2>1. /\ watcher' = Idle /\ click' = Idle /\ receipt' = 0 /\ runs' = runs
          /\ target' = NoSlot /\ UNCHANGED <<now, phone, saved, history>>
      BY <1>7 DEF Crash
    <2>2. /\ task' \in [RunIds -> {"none", "posting", "logging", "failing", "saving",
                                   "reporting", "over"}]
          /\ \A r \in RunIds : task'[r] = IF task[r] = "none" THEN "none" ELSE "over"
      BY <1>7 DEF Crash
    <2>3. Begun'
      BY <2>1, <2>2 DEF Typed, Begun
    <2>4. up' \in BOOLEAN
      BY <1>7 DEF Crash
    <2> QED
      BY <1>0, <2>1, <2>2, <2>3, <2>4 DEF Typed, TypeOK, Idle, history
  <1>8. CASE Watcher
    BY <1>8, WatcherTyped
  <1>9. ASSUME NEW r \in RunIds, RunOnce(r) \/ Confirms(r) \/ Expires(r) PROVE Typed'
    BY <1>9, RunOnceTyped, PhoneTyped
  <1>10. CASE UNCHANGED vars
    BY <1>10 DEF vars, history, Typed, TypeOK, Begun
  <1> QED
    BY <1>1, <1>2, <1>3, <1>4, <1>5, <1>6, <1>7, <1>8, <1>9, <1>10, <1>11 DEF Next

-----------------------------------------------------------------------------
(***************************************************************************)
(* The plan.                                                               *)
(***************************************************************************)

Plan == PlannedAhead /\ OncePerSlot

(* A step that leaves the rows' slots alone, runs no run_once to its end and *)
(* does not plan anew.                                                       *)
LEMMA PlanUntouched ==
  ASSUME Typed, Plan, SameRows, UNCHANGED <<up, target>>, now' \in Nat, now' >= now,
         \A r \in DOMAIN runs : runs[r].slot # NoSlot /\ task'[r] = "over" => task[r] = "over"
  PROVE  Plan'
  <1>1. /\ \A i \in DOMAIN runs : runs[i].started \in Nat
        /\ now \in Nat /\ DOMAIN runs' = DOMAIN runs
    BY RowsTyped DEF SameRows
  <1>2. \A i \in DOMAIN runs : runs'[i].slot = runs[i].slot /\ runs'[i].started = runs[i].started
    BY DEF SameRows
  <1>3. PlannedAhead'
    BY <1>1, <1>2 DEF Plan, PlannedAhead
  <1>4. OncePerSlot'
    BY <1>1, <1>2 DEF Plan, OncePerSlot
  <1> QED
    BY <1>3, <1>4 DEF Plan

(* The next turn is planned after everything that has begun, if one is. *)
LEMMA PlannedAnew ==
  ASSUME Typed, Plan, SameRows, UNCHANGED now, target' \in {NextRun(now), NoSlot}
  PROVE  Plan'
  <1>1. /\ \A i \in DOMAIN runs : runs[i].started \in Nat /\ runs[i].started <= now
        /\ DOMAIN runs' = DOMAIN runs /\ now \in Nat
    BY RowsTyped DEF SameRows, Plan, PlannedAhead
  <1>2. \A i \in DOMAIN runs : runs'[i].slot = runs[i].slot /\ runs'[i].started = runs[i].started
    BY DEF SameRows
  <1>3. target' # NoSlot => target' \in Nat /\ now < target'
    BY <1>1, NextRunIsAhead
  <1>4. PlannedAhead'
    BY <1>1, <1>2, <1>3 DEF PlannedAhead
  <1>5. OncePerSlot'
    BY <1>1, <1>2 DEF Plan, OncePerSlot
  <1> QED
    BY <1>4, <1>5 DEF Plan

(* A new row begins now; if it is planned, every planned one before it is over. *)
LEMMA InsertPlanned ==
  ASSUME Typed, Plan, NEW slot \in Nat \cup {NoSlot}, Insert(slot), up, UNCHANGED target,
         slot # NoSlot => Scheduled = {} /\ slot = target
  PROVE  Plan'
  <1>1. Row(slot) \in Run /\ runs' = Append(runs, Row(slot)) /\ runs \in Seq(Run)
    BY DEF Typed, TypeOK, Row, Run, Insert
  <1>2. /\ Len(runs) \in Nat /\ DOMAIN runs = 1 .. Len(runs)
        /\ DOMAIN runs' = 1 .. Len(runs) + 1 /\ runs'[Len(runs) + 1] = Row(slot)
        /\ \A i \in 1 .. Len(runs) : runs'[i] = runs[i]
    BY <1>1, AppendedRow
  <1>3. now \in Nat /\ \A i \in DOMAIN runs : runs[i].started \in Nat
    BY RowsTyped
  <1>4. Len(runs) + 1 \in RunIds /\ 1 .. Len(runs) \subseteq RunIds
    BY <1>2, BoundsAreNatural DEF Insert, RunIds
  <1>5. /\ task'[Len(runs) + 1] = "posting"
        /\ \A i \in 1 .. Len(runs) : task'[i] = task[i]
        /\ UNCHANGED <<now, up>>
    BY <1>2, <1>4 DEF Insert, Goes, Typed, TypeOK
  <1>6. Row(slot).started = now /\ Row(slot).slot = slot
    BY DEF Row
  <1>7. ASSUME NEW i \in 1 .. Len(runs) + 1
        PROVE  /\ runs'[i].started <= now
               /\ target # NoSlot /\ runs'[i].slot # NoSlot /\ task'[i] = "over" =>
                    runs'[i].started < target
    <2>1. CASE i = Len(runs) + 1
      BY <2>1, <1>2, <1>3, <1>5, <1>6
    <2>2. CASE i # Len(runs) + 1
      <3>1. i \in 1 .. Len(runs)
        BY <2>2, <1>2
      <3> QED
        BY <3>1, <1>2, <1>5 DEF Plan, PlannedAhead
    <2> QED
      BY <2>1, <2>2
  <1>8. PlannedAhead'
    BY <1>2, <1>5, <1>7 DEF PlannedAhead
  <1>9. ASSUME NEW i \in 1 .. Len(runs) + 1, NEW j \in 1 .. Len(runs) + 1,
               i < j, runs'[i].slot # NoSlot, runs'[j].slot # NoSlot
        PROVE  runs'[i].started < runs'[j].slot
    <2>1. i \in 1 .. Len(runs)
      BY <1>2, <1>9
    <2>2. CASE j = Len(runs) + 1
      <3>1. slot # NoSlot /\ runs'[j].slot = target
        BY <2>2, <1>2, <1>6, <1>9
      <3>2. task[i] = "over"
        BY <2>1, <3>1, <1>2, <1>9 DEF Scheduled
      <3> QED
        BY <2>1, <3>1, <3>2, <1>2, <1>9 DEF Plan, PlannedAhead
    <2>3. CASE j # Len(runs) + 1
      <3>1. j \in 1 .. Len(runs)
        BY <2>3, <1>2
      <3> QED
        BY <2>1, <3>1, <1>2, <1>9 DEF Plan, OncePerSlot
    <2> QED
      BY <2>2, <2>3
  <1>10. OncePerSlot'
    BY <1>2, <1>9 DEF OncePerSlot
  <1> QED
    BY <1>8, <1>10 DEF Plan

LEMMA PlanStep ==
  ASSUME Typed, Plan, [Next]_vars
  PROVE  Plan'
  <1>0. /\ now \in Nat /\ runs \in Seq(Run) /\ Len(runs) \in Nat
        /\ watcher.row \in 0 .. Len(runs) /\ click.row \in 0 .. Len(runs)
    BY NowIsNat DEF Typed, TypeOK
  <1>1. UNCHANGED runs => SameRows
    BY <1>0 DEF SameRows
  <1>2. ASSUME SameRows, UNCHANGED <<now, up, target, task>> PROVE Plan'
    BY <1>0, <1>2, PlanUntouched
  <1>3. CASE Tick
    <2>1. now' \in Nat /\ now' >= now
      BY <1>0, <1>3, BoundsAreNatural DEF Tick
    <2> QED
      BY <1>1, <1>3, <2>1, PlanUntouched DEF Tick
  <1>4. CASE Rings
    BY <1>4, InsertPlanned DEF Rings
  <1>5. CASE TurnComes \/ TurnLost
    <2>1. CASE TurnComes
      <3>1. target \in Nat \cup {NoSlot}
        BY DEF Typed, TypeOK
      <3> QED
        BY <2>1, <3>1, InsertPlanned DEF TurnComes, ItsTurn
    <2>2. CASE TurnLost
      BY <1>1, <2>2, PlannedAnew, TurnIsNextRun DEF TurnLost, PlanNext
    <2> QED
      BY <1>5, <2>1, <2>2
  <1>6. CASE Clicks \/ ClickBreaks
    BY <1>1, <1>2, <1>6 DEF Clicks, ClickBreaks
  <1>7. CASE ClickDone
    <2>1. SameRows
      BY <1>0, <1>7, AckedKeepsRows DEF ClickDone
    <2> QED
      BY <1>2, <1>7, <2>1 DEF ClickDone
  <1>8. CASE Start
    BY <1>1, <1>8, PlannedAnew, TurnIsNextRun DEF Start
  <1>9. CASE Crash
    <2>1. ~up' /\ UNCHANGED <<now, runs>>
      BY <1>9 DEF Crash
    <2> QED
      BY <2>1 DEF Plan, PlannedAhead, OncePerSlot
  <1>10. CASE Watcher
    <2>1. CASE Credits
      <3>1. SameRows
        BY <1>0, <2>1, AckedKeepsRows DEF Credits
      <3> QED
        BY <1>2, <2>1, <3>1 DEF Credits
    <2>2. CASE LearnsConfirmed \/ LearnsExpired \/ Forgets \/ ReadsNewest \/ WatcherBreaks
      BY <1>1, <1>2, <2>2
      DEF LearnsConfirmed, LearnsExpired, Learns, Forgets, ReadsNewest, WatcherBreaks
    <2> QED
      BY <1>10, <2>1, <2>2 DEF Watcher
  <1>11. ASSUME NEW r \in RunIds, RunOnce(r) PROVE Plan'
    <2>1. CASE Report(r) \/ Breaks(r)
      <3>1. SameRows
        <4>1. r \in DOMAIN runs
          BY <2>1, <1>0, BoundsAreNatural DEF Report, Breaks, Typed, Begun, RunIds
        <4> QED
          BY <2>1, <4>1, <1>0, <1>1, ReportKeepsRows DEF Report, Breaks
      <3>2. UNCHANGED <<now, up>> /\ PlanAfter(r) /\ Goes(r, "over")
        BY <2>1 DEF Report, Breaks
      <3>3. CASE runs[r].slot # NoSlot
        BY <3>1, <3>2, <3>3, PlannedAnew, TurnIsNextRun DEF PlanAfter, PlanNext
      <3>4. CASE runs[r].slot = NoSlot
        <4>1. \A q \in DOMAIN runs : runs[q].slot # NoSlot => task'[q] = task[q]
          BY <3>2, <3>4 DEF Goes, Typed, TypeOK
        <4> QED
          BY <3>1, <3>2, <3>4, <4>1, <1>0, PlanUntouched DEF PlanAfter
      <3> QED
        BY <3>3, <3>4
    <2>2. CASE Posted(r) \/ PostFailed(r) \/ Remembers(r) \/ Watches(r) \/ RingBreaks(r)
      <3>1. UNCHANGED <<now, up, target, runs>>
        BY <2>2 DEF Posted, PostFailed, Remembers, Watches, RingBreaks
      <3>2. \A q \in DOMAIN runs : task'[q] = "over" => task[q] = "over"
        BY <2>2, RowsTyped
        DEF Posted, PostFailed, Remembers, Watches, RingBreaks, Goes, Typed, TypeOK
      <3> QED
        BY <3>1, <3>2, <1>0, <1>1, PlanUntouched
    <2> QED
      BY <1>11, <2>1, <2>2 DEF RunOnce
  <1>12. ASSUME NEW r \in RunIds, Confirms(r) \/ Expires(r) PROVE Plan'
    BY <1>1, <1>2, <1>12 DEF Confirms, Expires
  <1>13. CASE UNCHANGED vars
    BY <1>1, <1>2, <1>13 DEF vars
  <1> QED
    BY <1>3, <1>4, <1>5, <1>6, <1>7, <1>8, <1>9, <1>10, <1>11, <1>12, <1>13 DEF Next

-----------------------------------------------------------------------------
(***************************************************************************)
(* Confirmations.                                                          *)
(***************************************************************************)

Stands(i) ==
  /\ runs[i].acked => runs'[i].acked
  /\ task[i] = "over" => runs'[i].ring = runs[i].ring

LEMMA StandsStep ==
  ASSUME Typed, [Next]_vars, NEW i \in DOMAIN runs
  PROVE  Stands(i)
  <1>0. /\ runs \in Seq(Run) /\ Len(runs) \in Nat /\ DOMAIN runs = 1 .. Len(runs)
        /\ watcher.row \in 0 .. Len(runs) /\ click.row \in 0 .. Len(runs)
    BY RowsTyped DEF Typed, TypeOK
  <1>1. CASE UNCHANGED runs
    BY <1>1 DEF Stands
  <1>2. ASSUME NEW slot \in Nat \cup {NoSlot}, Insert(slot) PROVE Stands(i)
    <2>1. Row(slot) \in Run /\ runs' = Append(runs, Row(slot))
      BY <1>2 DEF Typed, TypeOK, Row, Run, Insert
    <2>2. runs'[i] = runs[i]
      BY <1>0, <2>1, AppendedRow
    <2> QED
      BY <2>2 DEF Stands
  <1>3. CASE Rings \/ TurnComes
    <2>1. NoSlot \in Nat \cup {NoSlot} /\ target \in Nat \cup {NoSlot}
      BY DEF Typed, TypeOK
    <2> QED
      BY <1>2, <1>3, <2>1 DEF Rings, TurnComes
  <1>4. CASE ClickDone \/ Credits
    BY <1>0, <1>4, AckedKeepsRows DEF ClickDone, Credits, Stands
  <1>5. ASSUME NEW r \in RunIds, Report(r) PROVE Stands(i)
    <2>1. r \in DOMAIN runs /\ task[r] # "over"
      BY <1>0, <1>5, BoundsAreNatural DEF Report, Typed, Begun, RunIds
    <2>2. /\ runs'[i].acked = runs[i].acked
          /\ i # r => runs'[i].ring = runs[i].ring
      BY <1>0, <1>5, <2>1, ReportKeepsRows DEF Report
    <2> QED
      BY <2>1, <2>2 DEF Stands
  <1>6. CASE Tick \/ TurnLost \/ Clicks \/ ClickBreaks \/ Start \/ Crash
    BY <1>1, <1>6 DEF Tick, TurnLost, Clicks, ClickBreaks, Start, Crash
  <1>7. CASE Watcher
    BY <1>1, <1>4, <1>7
    DEF Watcher, LearnsConfirmed, LearnsExpired, Learns, Forgets, ReadsNewest, WatcherBreaks
  <1>8. ASSUME NEW r \in RunIds, RunOnce(r) \/ Confirms(r) \/ Expires(r) PROVE Stands(i)
    BY <1>1, <1>5, <1>8
    DEF RunOnce, Posted, PostFailed, Remembers, Watches, RingBreaks, Breaks, Confirms, Expires
  <1>9. CASE UNCHANGED vars
    BY <1>1, <1>9 DEF vars
  <1> QED
    BY <1>3, <1>4, <1>6, <1>7, <1>8, <1>9 DEF Next

-----------------------------------------------------------------------------
(***************************************************************************)
(* No proof for free.  A confirmation pays for at most one row: the one a  *)
(* click has confirmed, or that of a confirmed ring which may still be     *)
(* credited, because its receipt is on its way to the watcher, with the    *)
(* watcher, or stored for the next start.                                  *)
(***************************************************************************)

AckedRows == {i \in DOMAIN runs : runs[i].acked}

MayCount(r) ==
  \/ task[r] \in {"logging", "saving"}
  \/ watcher.step # "none" /\ watcher.ring = r
  \/ saved = r

Owed == {r \in RunIds : phone[r] = "confirmed" /\ MayCount(r)}

Paid == Cardinality(AckedRows) + Cardinality(Owed) <= confirmed

(* A ring that is followed or stored has been remembered, and one that is   *)
(* to be credited was confirmed.                                            *)
FollowsDone ==
  /\ saved # 0 => task[saved] \in {"reporting", "over"}
  /\ watcher.step # "none" =>
       /\ watcher.ring \in RunIds
       /\ task[watcher.ring] \in {"reporting", "over"}
       /\ watcher.step \in {"forgetting", "reading", "writing"} => phone[watcher.ring] = "confirmed"

(* A process that is down follows nothing. *)
NothingRuns ==
  ~up => /\ receipt = 0 /\ watcher = Idle /\ click = Idle
         /\ \A r \in RunIds : task[r] \in {"none", "over"}

(* What is stored is known to the process, or about to be forgotten, or the *)
(* watcher that should have forgotten it is gone ...                        *)
StoredIsKnown ==
  up /\ saved # 0 => (receipt # 0 \/ watcher.step \in {"none", "forgetting", "expiring"})

(* ... so a ring that is being credited is not stored any more. *)
CreditedOnce == watcher.step \in {"reading", "writing"} => saved # watcher.ring

Owing ==
  /\ FollowsDone /\ NothingRuns
  /\ crossed \/ (Paid /\ StoredIsKnown /\ CreditedOnce)

LEMMA ReadsEffect ==
  ASSUME Typed, ReadsNewest
  PROVE  /\ watcher.step = "reading" /\ watcher'.step = "writing" /\ watcher'.ring = watcher.ring
         /\ UNCHANGED <<now, up, target, runs, task, phone, receipt, saved, click, history>>
  BY DEF ReadsNewest, Typed, TypeOK

LEMMA RingIsRow == 0 \notin RunIds
  BY BoundsAreNatural DEF RunIds

LEMMA FollowsDoneStep ==
  ASSUME Typed, Owing, [Next]_vars
  PROVE  FollowsDone'
  <1> USE DEF Typed, TypeOK, Owing, FollowsDone, Idle
  <1>1. CASE Tick \/ Rings \/ TurnComes \/ TurnLost \/ Clicks \/ ClickDone \/ ClickBreaks
    BY <1>1
    DEF Tick, Rings, TurnComes, TurnLost, Clicks, ClickDone, ClickBreaks, Insert, Goes, Begun
  <1>2. CASE Start
    BY <1>2 DEF Start
  <1>3. CASE Crash
    BY <1>3 DEF Crash
  <1>4. CASE Watcher
    <2>1. CASE LearnsConfirmed
      BY <2>1 DEF LearnsConfirmed, Learns, Follow
    <2>2. CASE LearnsExpired
      BY <2>2 DEF LearnsExpired, Learns, Follow
    <2>3. CASE Forgets
      BY <2>3, RingIsRow DEF Forgets, Follow
    <2>4. CASE ReadsNewest
      BY <2>4, ReadsEffect
    <2>5. CASE Credits
      BY <2>5 DEF Credits
    <2>6. CASE WatcherBreaks
      BY <2>6 DEF WatcherBreaks
    <2> QED
      BY <1>4, <2>1, <2>2, <2>3, <2>4, <2>5, <2>6 DEF Watcher
  <1>5. ASSUME NEW r \in RunIds, RunOnce(r) PROVE FollowsDone'
    BY <1>5 DEF RunOnce, Posted, PostFailed, Remembers, Watches, RingBreaks, Report, Breaks, Goes
  <1>6. ASSUME NEW r \in RunIds, Confirms(r) \/ Expires(r) PROVE FollowsDone'
    BY <1>6 DEF Confirms, Expires
  <1>7. CASE UNCHANGED vars
    BY <1>7 DEF vars
  <1> QED
    BY <1>1, <1>2, <1>3, <1>4, <1>5, <1>6, <1>7 DEF Next

LEMMA NothingRunsStep ==
  ASSUME Typed, Owing, [Next]_vars
  PROVE  NothingRuns'
  <1> USE DEF Typed, TypeOK, Owing, NothingRuns, Idle
  <1>1. CASE Tick \/ Rings \/ TurnComes \/ TurnLost \/ Clicks \/ ClickDone \/ ClickBreaks
    BY <1>1
    DEF Tick, Rings, TurnComes, TurnLost, ItsTurn, Clicks, ClickDone, ClickBreaks, Insert
  <1>2. CASE Start
    BY <1>2 DEF Start
  <1>3. CASE Crash
    BY <1>3 DEF Crash
  <1>4. CASE Watcher
    BY <1>4 DEF Watcher, LearnsConfirmed, LearnsExpired, Learns, Forgets, ReadsNewest, Credits,
                WatcherBreaks
  <1>5. ASSUME NEW r \in RunIds, RunOnce(r) PROVE NothingRuns'
    BY <1>5 DEF RunOnce, Posted, PostFailed, Remembers, Watches, RingBreaks, Report, Breaks, Goes
  <1>6. ASSUME NEW r \in RunIds, Confirms(r) \/ Expires(r) PROVE NothingRuns'
    BY <1>6 DEF Confirms, Expires
  <1>7. CASE UNCHANGED vars
    BY <1>7 DEF vars
  <1> QED
    BY <1>1, <1>2, <1>3, <1>4, <1>5, <1>6, <1>7 DEF Next

LEMMA KnownStep ==
  ASSUME Typed, Owing, [Next]_vars, ~crossed'
  PROVE  ~crossed /\ StoredIsKnown' /\ CreditedOnce'
  <1> USE DEF Typed, TypeOK, Owing, FollowsDone, NothingRuns, StoredIsKnown, CreditedOnce, Idle, history
  <1>1. CASE Tick \/ Rings \/ TurnComes \/ TurnLost \/ Clicks \/ ClickDone \/ ClickBreaks
    BY <1>1
    DEF Tick, Rings, TurnComes, TurnLost, Clicks, ClickDone, ClickBreaks, Insert
  <1>2. CASE Start
    BY <1>2 DEF Start
  <1>3. CASE Crash
    BY <1>3 DEF Crash
  <1>4. CASE Watcher
    <2>1. CASE LearnsConfirmed
      BY <2>1, RingIsRow DEF LearnsConfirmed, Learns, Follow
    <2>2. CASE LearnsExpired
      BY <2>2 DEF LearnsExpired, Learns, Follow
    <2>3. CASE Forgets
      BY <2>3, RingIsRow DEF Forgets, Follow
    <2>4. CASE ReadsNewest
      BY <2>4, ReadsEffect
    <2>5. CASE Credits
      BY <2>5 DEF Credits
    <2>6. CASE WatcherBreaks
      BY <2>6 DEF WatcherBreaks
    <2> QED
      BY <1>4, <2>1, <2>2, <2>3, <2>4, <2>5, <2>6 DEF Watcher
  <1>5. ASSUME NEW r \in RunIds, RunOnce(r)
        PROVE  ~crossed /\ StoredIsKnown' /\ CreditedOnce'
    BY <1>5 DEF RunOnce, Posted, PostFailed, Remembers, Watches, RingBreaks, Report, Breaks, Goes, RunIds
  <1>6. ASSUME NEW r \in RunIds, Confirms(r) \/ Expires(r)
        PROVE  ~crossed /\ StoredIsKnown' /\ CreditedOnce'
    BY <1>6 DEF Confirms, Expires
  <1>7. CASE UNCHANGED vars
    BY <1>7 DEF vars
  <1> QED
    BY <1>1, <1>2, <1>3, <1>4, <1>5, <1>6, <1>7 DEF Next

(***************************************************************************)
(* Counting.                                                               *)
(***************************************************************************)

Countable ==
  /\ IsFiniteSet(AckedRows) /\ Cardinality(AckedRows) \in Nat
  /\ IsFiniteSet(Owed) /\ Cardinality(Owed) \in Nat
  /\ confirmed \in Nat

LEMMA Counts == Typed => Countable
  <1> SUFFICES ASSUME Typed PROVE Countable
    OBVIOUS
  <1>1. IsFiniteSet(RunIds)
    BY FS_Interval, BoundsAreNatural DEF RunIds
  <1>2. AckedRows \in SUBSET RunIds /\ Owed \in SUBSET RunIds
    BY RowsTyped DEF AckedRows, Owed
  <1> QED
    BY <1>1, <1>2, FS_Subset, FS_CardinalityType DEF Countable, Typed, TypeOK

LEMMA NoMore ==
  ASSUME NEW S, IsFiniteSet(S), NEW T, T \subseteq S
  PROVE  Cardinality(T) <= Cardinality(S)
  BY FS_Subset

LEMMA OneMore ==
  ASSUME NEW S, IsFiniteSet(S), NEW x, NEW T, T \subseteq S \cup {x}
  PROVE  Cardinality(T) <= Cardinality(S) + 1
  <1>0. /\ IsFiniteSet(S \cup {x}) /\ Cardinality(S) \in Nat
        /\ Cardinality(S \cup {x}) = IF x \in S THEN Cardinality(S) ELSE Cardinality(S) + 1
    BY FS_AddElement, FS_CardinalityType
  <1>1. IsFiniteSet(S \cup {x}) /\ Cardinality(S \cup {x}) <= Cardinality(S) + 1
    BY <1>0
  <1>2. Cardinality(T) <= Cardinality(S \cup {x}) /\ IsFiniteSet(T)
    BY <1>1, FS_Subset
  <1>3. Cardinality(T) \in Nat /\ Cardinality(S \cup {x}) \in Nat
    BY <1>1, <1>2, FS_CardinalityType
  <1> QED
    BY <1>0, <1>1, <1>2, <1>3

LEMMA OneLess ==
  ASSUME NEW S, IsFiniteSet(S), NEW x \in S, NEW T, T \subseteq S \ {x}
  PROVE  Cardinality(T) + 1 <= Cardinality(S)
  <1>1. /\ IsFiniteSet(S \ {x}) /\ Cardinality(S) \in Nat
        /\ Cardinality(S \ {x}) = Cardinality(S) - 1
    BY FS_RemoveElement, FS_CardinalityType
  <1>2. Cardinality(T) <= Cardinality(S \ {x}) /\ IsFiniteSet(T)
    BY <1>1, FS_Subset
  <1>3. Cardinality(T) \in Nat
    BY <1>2, FS_CardinalityType
  <1> QED
    BY <1>1, <1>2, <1>3

LEMMA CountsNext == Typed' => Countable'
  BY Counts, PTL

(* Most steps pay for nothing new. *)
LEMMA NothingNew ==
  ASSUME Typed, Typed', Paid, AckedRows' \subseteq AckedRows, Owed' \subseteq Owed,
         UNCHANGED confirmed
  PROVE  Paid'
  <1>1. Countable /\ Countable'
    BY Counts, CountsNext
  <1>2. Cardinality(AckedRows') <= Cardinality(AckedRows) /\ Cardinality(Owed') <= Cardinality(Owed)
    BY <1>1, NoMore DEF Countable
  <1> QED
    BY <1>1, <1>2 DEF Countable, Paid

(* No row becomes confirmed when rows are added or reported on. *)
LEMMA InsertAcksNothing ==
  ASSUME Typed, NEW slot \in Nat \cup {NoSlot}, Insert(slot)
  PROVE  AckedRows' \subseteq AckedRows
  <1>1. Row(slot) \in Run /\ runs' = Append(runs, Row(slot)) /\ runs \in Seq(Run)
    BY DEF Typed, TypeOK, Row, Run, Insert
  <1>2. /\ DOMAIN runs = 1 .. Len(runs) /\ DOMAIN runs' = 1 .. Len(runs) + 1 /\ Len(runs) \in Nat
        /\ runs'[Len(runs) + 1] = Row(slot)
        /\ \A i \in 1 .. Len(runs) : runs'[i] = runs[i]
    BY <1>1, AppendedRow
  <1>3. Row(slot).acked = FALSE
    BY DEF Row
  <1>4. ASSUME NEW i \in DOMAIN runs', runs'[i].acked PROVE i \in DOMAIN runs /\ runs[i].acked
    <2>1. CASE i = Len(runs) + 1
      BY <1>2, <1>3, <1>4, <2>1
    <2>2. CASE i # Len(runs) + 1
      BY <1>2, <1>4, <2>2
    <2> QED
      BY <2>1, <2>2
  <1> QED
    BY <1>4 DEF AckedRows

LEMMA ReportAcksNothing ==
  ASSUME Typed, NEW r \in RunIds, Report(r)
  PROVE  AckedRows' \subseteq AckedRows
  <1>1. r \in DOMAIN runs /\ runs \in Seq(Run)
    BY RowsTyped, BoundsAreNatural DEF Report, Typed, TypeOK, Begun, RunIds
  <1> QED
    BY <1>1, ReportKeepsRows DEF Report, SameRows, AckedRows

LEMMA AckedIsOneMore ==
  ASSUME Typed, NEW row \in 0 .. Len(runs), runs' = Acked(row)
  PROVE  AckedRows' \subseteq AckedRows \cup {row}
  <1>1. runs \in Seq(Run) /\ \A i \in DOMAIN runs : runs[i] \in Run
    BY RowsTyped
  <1>2. CASE row = 0
    BY <1>2 DEF Acked, AckedRows
  <1>3. CASE row # 0
    <2>1. runs' = [runs EXCEPT ![row].acked = TRUE]
      BY <1>3 DEF Acked
    <2>2. DOMAIN runs' = DOMAIN runs /\ \A i \in DOMAIN runs : i # row => runs'[i] = runs[i]
      BY <2>1
    <2> QED
      BY <2>2 DEF AckedRows
  <1> QED
    BY <1>2, <1>3

(* A confirmation on the phone, on the dashboard, and what is credited for it. *)
LEMMA ConfirmsPays ==
  ASSUME Typed, Typed', Paid, NEW r \in RunIds, Confirms(r)
  PROVE  Paid'
  <1>1. Countable /\ Countable'
    BY Counts, CountsNext
  <1>2. AckedRows' = AckedRows /\ confirmed' = confirmed + 1
    BY DEF Confirms, AckedRows
  <1>3. Owed' \subseteq Owed \cup {r}
    BY DEF Confirms, Owed, MayCount, Typed, TypeOK
  <1>4. Cardinality(Owed') <= Cardinality(Owed) + 1
    BY <1>1, <1>3, OneMore DEF Countable
  <1> QED
    BY <1>1, <1>2, <1>4 DEF Countable, Paid

LEMMA ClickDonePays ==
  ASSUME Typed, Typed', Paid, ClickDone
  PROVE  Paid'
  <1>1. Countable /\ Countable'
    BY Counts, CountsNext
  <1>2. click.row \in 0 .. Len(runs) /\ runs' = Acked(click.row)
    BY DEF ClickDone, Typed, TypeOK
  <1>3. Cardinality(AckedRows') <= Cardinality(AckedRows) + 1
    BY <1>1, <1>2, AckedIsOneMore, OneMore DEF Countable
  <1>4. Owed' = Owed /\ confirmed' = confirmed + 1
    BY DEF ClickDone, Owed, MayCount
  <1> QED
    BY <1>1, <1>3, <1>4 DEF Countable, Paid

LEMMA CreditsTakes ==
  ASSUME Typed, Typed', Paid, FollowsDone, CreditedOnce, Credits
  PROVE  Paid'
  <1>1. Countable /\ Countable'
    BY Counts, CountsNext
  <1>2. watcher.row \in 0 .. Len(runs) /\ runs' = Acked(watcher.row)
    BY DEF Credits, Typed, TypeOK
  <1>3. Cardinality(AckedRows') <= Cardinality(AckedRows) + 1
    BY <1>1, <1>2, AckedIsOneMore, OneMore DEF Countable
  <1>4. watcher.ring \in Owed
    BY DEF Credits, FollowsDone, Owed, MayCount
  <1>5. Owed' \subseteq Owed \ {watcher.ring}
    BY DEF Credits, FollowsDone, CreditedOnce, Owed, MayCount, Idle
  <1>6. Cardinality(Owed') + 1 <= Cardinality(Owed)
    BY <1>1, <1>4, <1>5, OneLess DEF Countable
  <1>7. confirmed' = confirmed
    BY DEF Credits, history
  <1> QED
    BY <1>1, <1>3, <1>6, <1>7 DEF Countable, Paid

(* The other steps credit nothing, and nothing more may be credited after them. *)
LEMMA OthersAreFree ==
  ASSUME Typed, Owing, [Next]_vars,
         ~ClickDone, ~Credits, \A r \in RunIds : ~Confirms(r)
  PROVE  AckedRows' \subseteq AckedRows /\ Owed' \subseteq Owed /\ UNCHANGED confirmed
  <1> DEFINE Free == AckedRows' \subseteq AckedRows /\ Owed' \subseteq Owed /\ UNCHANGED confirmed
  <1>1. CASE Tick \/ TurnLost \/ Clicks \/ ClickBreaks
    BY <1>1 DEF Tick, TurnLost, Clicks, ClickBreaks, AckedRows, Owed, MayCount, history
  <1>2. CASE Rings \/ TurnComes
    <2>1. PICK slot \in Nat \cup {NoSlot} : Insert(slot)
      BY <1>2 DEF Rings, TurnComes, Typed, TypeOK
    <2>2. Owed' \subseteq Owed
      BY <2>1 DEF Insert, Goes, Owed, MayCount, Typed, TypeOK
    <2> QED
      BY <2>1, <2>2, InsertAcksNothing DEF Insert, history
  <1>3. CASE Start
    <2>1. AckedRows' = AckedRows /\ UNCHANGED confirmed
      BY <1>3 DEF Start, AckedRows, history
    <2>2. Owed' \subseteq Owed
      BY <1>3 DEF Start, Owed, MayCount, Idle
    <2> QED
      BY <2>1, <2>2
  <1>4. CASE Crash
    <2>1. AckedRows' = AckedRows /\ UNCHANGED confirmed
      BY <1>4 DEF Crash, AckedRows, history, Idle
    <2>2. Owed' \subseteq Owed
      BY <1>4 DEF Crash, Owed, MayCount, Idle
    <2> QED
      BY <2>1, <2>2
  <1>5. CASE LearnsConfirmed \/ LearnsExpired \/ Forgets \/ ReadsNewest \/ WatcherBreaks
    <2>1. AckedRows' = AckedRows /\ UNCHANGED <<confirmed, task, phone>>
      BY <1>5 DEF LearnsConfirmed, LearnsExpired, Learns, Forgets, ReadsNewest, WatcherBreaks,
                  AckedRows, history
    <2>2. watcher'.step = "none" \/ (watcher.step # "none" /\ watcher'.ring = watcher.ring)
      <3>1. CASE LearnsConfirmed
        BY <3>1 DEF LearnsConfirmed, Learns, Follow, Typed, TypeOK
      <3>2. CASE LearnsExpired
        BY <3>2 DEF LearnsExpired, Learns, Follow, Idle, Typed, TypeOK
      <3>3. CASE Forgets
        BY <3>3 DEF Forgets, Follow, Idle, Typed, TypeOK
      <3>4. CASE ReadsNewest
        BY <3>4, ReadsEffect
      <3>5. CASE WatcherBreaks
        BY <3>5 DEF WatcherBreaks, Typed, TypeOK
      <3> QED
        BY <1>5, <3>1, <3>2, <3>3, <3>4, <3>5
    <2>3. saved' \in {0, saved}
      BY <1>5 DEF LearnsConfirmed, LearnsExpired, Learns, Forgets, ReadsNewest, WatcherBreaks
    <2>4. Owed' \subseteq Owed
      BY <2>1, <2>2, <2>3, RingIsRow DEF Owed, MayCount
    <2> QED
      BY <2>1, <2>4
  <1>6. ASSUME NEW r \in RunIds, RunOnce(r) PROVE Free
    <2>1. AckedRows' \subseteq AckedRows
      <3>1. CASE Report(r)
        BY <3>1, ReportAcksNothing
      <3>2. CASE ~Report(r)
        BY <1>6, <3>2
        DEF RunOnce, Posted, PostFailed, Remembers, Watches, RingBreaks, Breaks, AckedRows
      <3> QED
        BY <3>1, <3>2
    <2>2. UNCHANGED confirmed
      BY <1>6 DEF RunOnce, Posted, PostFailed, Remembers, Watches, RingBreaks, Report, Breaks,
                  history
    <2>3. Owed' \subseteq Owed
      <3>1. CASE Watches(r)
        BY <3>1 DEF Watches, Goes, Owed, MayCount, Typed, TypeOK
      <3>2. CASE Posted(r)
        BY <3>2 DEF Posted, Goes, Owed, MayCount, Typed, TypeOK
      <3>3. CASE PostFailed(r) \/ Remembers(r) \/ RingBreaks(r) \/ Report(r) \/ Breaks(r)
        BY <3>3 DEF PostFailed, Remembers, RingBreaks, Report, Breaks, Goes, Owed, MayCount,
                    Typed, TypeOK
      <3> QED
        BY <1>6, <3>1, <3>2, <3>3 DEF RunOnce
    <2> QED
      BY <2>1, <2>2, <2>3
  <1>7. ASSUME NEW r \in RunIds, Expires(r) PROVE Free
    BY <1>7 DEF Expires, AckedRows, Owed, MayCount, history, Typed, TypeOK
  <1>8. CASE UNCHANGED vars
    BY <1>8 DEF vars, AckedRows, Owed, MayCount, history
  <1> QED
    BY <1>1, <1>2, <1>3, <1>4, <1>5, <1>6, <1>7, <1>8 DEF Next, Watcher

LEMMA OwingStep ==
  ASSUME Typed, Typed', Owing, [Next]_vars
  PROVE  Owing'
  <1>1. FollowsDone' /\ NothingRuns'
    BY FollowsDoneStep, NothingRunsStep
  <1>2. ASSUME ~crossed' PROVE Paid' /\ StoredIsKnown' /\ CreditedOnce'
    <2>1. ~crossed /\ StoredIsKnown' /\ CreditedOnce'
      BY <1>2, KnownStep
    <2>2. Paid /\ FollowsDone /\ CreditedOnce
      BY <2>1 DEF Owing
    <2>3. CASE ClickDone \/ Credits \/ \E r \in RunIds : Confirms(r)
      <3>1. ASSUME ClickDone PROVE Paid'
        BY <2>2, <3>1, ClickDonePays
      <3>2. ASSUME Credits PROVE Paid'
        BY <2>2, <3>2, CreditsTakes
      <3>3. ASSUME NEW r \in RunIds, Confirms(r) PROVE Paid'
        BY <2>2, <3>3, ConfirmsPays
      <3> QED
        BY <2>1, <2>3, <3>1, <3>2, <3>3
    <2>4. CASE ~(ClickDone \/ Credits \/ \E r \in RunIds : Confirms(r))
      <3>1. AckedRows' \subseteq AckedRows /\ Owed' \subseteq Owed /\ UNCHANGED confirmed
        BY <2>4, OthersAreFree
      <3> QED
        BY <2>1, <2>2, <3>1, NothingNew
    <2> QED
      BY <2>1, <2>3, <2>4
  <1> QED
    BY <1>1, <1>2 DEF Owing

-----------------------------------------------------------------------------
LEMMA InitIInv == ASSUME Init PROVE IInv
  <1>1. runs = <<>> /\ runs \in Seq(Run) /\ Len(runs) = 0 /\ DOMAIN runs = {}
    BY DEF Init
  <1>2. MaxRuns \in Nat /\ now \in Moments /\ 0 \in 0 .. 0
    BY BoundsAreNatural DEF Init
  <1>3. TypeOK
    <2>1. Len(runs) <= MaxRuns
      BY <1>1, <1>2, BoundsAreNatural
    <2>2. /\ task \in [RunIds -> {"none", "posting", "logging", "failing", "saving",
                                 "reporting", "over"}]
          /\ phone \in [RunIds -> {"silent", "ringing", "confirmed", "expired"}]
      BY DEF Init
    <2>3. /\ watcher \in [ring : {0} \cup RunIds, row : 0 .. Len(runs),
                          step : {"none", "polling", "forgetting", "expiring", "reading",
                                  "writing"}]
          /\ click \in [ring : {0}, row : 0 .. Len(runs), step : {"none", "writing"}]
          /\ watcher.ring = 0
      BY <1>1, <1>2 DEF Init, Idle
    <2> QED
      BY <1>1, <1>2, <2>1, <2>2, <2>3 DEF Init, TypeOK
  <1>4. \A r \in RunIds : r > 0
    BY BoundsAreNatural DEF RunIds
  <1>5. Begun
    BY <1>1, <1>4 DEF Init, Begun
  <1> QED
    BY <1>1, <1>3, <1>5 DEF Init, IInv, PlannedAhead, OncePerSlot

(* The inductive invariant of the test rings. *)
THEOREM Invariant == Spec => []IInv
  <1>1. Init => IInv
    BY InitIInv
  <1>2. IInv /\ [Next]_vars => IInv'
    <2> SUFFICES ASSUME IInv, [Next]_vars PROVE IInv'
      OBVIOUS
    <2>1. Typed /\ Plan
      BY DEF IInv, Typed, Plan
    <2>2. Typed' /\ Plan'
      BY <2>1, TypedStep, PlanStep
    <2> QED
      BY <2>2 DEF IInv, Typed, Plan
  <1> QED
    BY <1>1, <1>2, PTL DEF Spec

(* A receipt that is followed or stored is of a ring that was sent. *)
THEOREM TypeCorrect == Spec => []TypeOK
  BY Invariant, PTL DEF IInv

(* A planned moment rings once, through restarts and late turns. *)
THEOREM OneRingPerSlot == Spec => []OncePerSlot
  BY Invariant, PTL DEF IInv

(* run_once never undoes a confirmation, and is never reported on twice. *)
THEOREM ConfirmedStays == Spec => ConfirmationStands
  <1>1. IInv /\ [Next]_vars =>
          [\A i \in DOMAIN runs :
             /\ runs[i].acked => runs'[i].acked
             /\ task[i] = "over" => runs'[i].ring = runs[i].ring]_vars
    BY StandsStep DEF IInv, Typed, Stands
  <1> QED
    BY <1>1, Invariant, PTL DEF Spec, ConfirmationStands

LEMMA InitOwing == ASSUME Init PROVE Owing
  <1>2. AckedRows = {} /\ Owed = {} /\ confirmed = 0
    BY DEF Init, AckedRows, Owed
  <1>3. Paid
    BY <1>2, FS_EmptySet DEF Paid
  <1>4. FollowsDone /\ NothingRuns /\ StoredIsKnown /\ CreditedOnce
    BY DEF Init, FollowsDone, NothingRuns, StoredIsKnown, CreditedOnce, Idle
  <1> QED
    BY <1>3, <1>4 DEF Owing

(* The inductive invariant of the confirmations. *)
THEOREM Credit == Spec => [](IInv /\ Owing)
  <1>1. Init => Owing
    BY InitOwing
  <1>2. IInv /\ IInv' /\ Owing /\ [Next]_vars => Owing'
    BY OwingStep DEF IInv, Typed
  <1> QED
    BY <1>1, <1>2, Invariant, PTL DEF Spec

(* Each confirmed row has a confirmation of its own, on the phone or on the   *)
(* dashboard, as long as no receipt is stored after it was forgotten.         *)
THEOREM NothingForFree == Spec => []NoFreeProof
  <1>1. IInv /\ Owing => NoFreeProof
    <2> SUFFICES ASSUME Typed, ~crossed, Paid PROVE Cardinality(AckedRows) <= confirmed
      BY DEF IInv, Typed, Owing, NoFreeProof, AckedRows
    <2> QED
      BY Counts DEF Countable, Paid
  <1> QED
    BY <1>1, Credit, PTL
=============================================================================
