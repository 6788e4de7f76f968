--------------------------- MODULE WatchdogProofs ---------------------------
(***************************************************************************)
(* Proofs about Watchdog, for all its times and faults.                    *)
(*                                                                         *)
(* The properties bound ages by a threshold and a round.  The invariant    *)
(* replaces the round by what has passed of it, so that a Tick, which adds *)
(* one to both sides, keeps it; a Check then starts a new round with what  *)
(* it compared.                                                            *)
(***************************************************************************)
EXTENDS Watchdog, TLAPS

(* What has passed, at most, since the last Check. *)
Elapsed == IF pc = "sleep" THEN Round - timer
           ELSE IF pc = "read" THEN ReadTicks - timer ELSE ReadTicks

(* What has passed, at most, since the sleep began before which the last   *)
(* report was found too young to be repeated.                              *)
SinceYoung == IF pc = "sleep" THEN CheckEvery - timer
              ELSE IF pc = "read" THEN Round - timer ELSE Round

(* Only a reported silence is looked up, and an answer stays true. *)
LoopFits ==
  /\ pc = "sleep" => timer <= CheckEvery
  /\ pc # "sleep" => up /\ reported /\ timer <= ReadTicks
  /\ pc = "decide" /\ found => row = "acked"
  /\ ~up => timer = CheckEvery /\ ~reported

SilenceFits ==
  up /\ ~reported => Silence <= Threshold + Elapsed \/ startedAgo <= Elapsed

ReportFits ==
  up /\ RepeatAfter > 0 /\ reported /\ row # "acked" =>
    reportAge # Never /\ reportAge <= RepeatAfter + SinceYoung

(* A hub that is online again, with its silence reported, has spoken in     *)
(* this round; one that is online at all has spoken in this run.            *)
OnlineFits ==
  up => /\ hubOnline /\ reported => Silence <= Lag + Elapsed
        /\ hubOnline => lastContact # Never /\ lastContact <= startedAgo + Lag
        /\ ~hubOnline /\ lastContact # Never /\ lastContact < startedAgo => Stale

ClockFits ==
  /\ offset # "late" => lateFor = 0
  /\ up /\ WatchClock /\ offset = "late" =>
       lateFor <= Elapsed \/ clockAge \in 0 .. ClockRepeat + Elapsed

IInv == TypeOK /\ LoopFits /\ SilenceFits /\ ReportFits /\ OnlineFits /\ ClockFits

-----------------------------------------------------------------------------
(***************************************************************************)
(* Typing.                                                                 *)
(***************************************************************************)

USE DEF Never

(* The times and their caps are natural numbers. *)
LEMMA Times ==
  /\ Threshold \in Nat /\ RepeatAfter \in Nat /\ ClockRepeat \in Nat
  /\ ReadTicks \in Nat /\ Lag \in Nat /\ CheckEvery \in Nat /\ CheckEvery > 0
  /\ Round = CheckEvery + ReadTicks /\ Round \in Nat
  /\ SilenceCap \in Nat /\ ReportCap \in Nat /\ ClockCap \in Nat /\ LateCap \in Nat
  /\ Lag + Round <= Threshold /\ Lag < SilenceCap
  BY TimesAreNatural, ChecksSeeContact DEF Round, SilenceCap, ReportCap, ClockCap, LateCap

(* An age grows by at most one, and stays where it is at its cap. *)
LEMMA OlderEffect ==
  ASSUME NEW cap \in Nat, NEW age \in Age(cap)
  PROVE  /\ Older(age, cap) \in Age(cap)
         /\ Older(age, cap) = Never <=> age = Never
         /\ Older(age, cap) >= age /\ Older(age, cap) <= age + 1
         /\ age \notin {Never, cap} => Older(age, cap) = age + 1
         /\ age \in {Never, cap} => Older(age, cap) = age
  BY DEF Older, Age

(* The initial state is typed and fits. *)
LEMMA InitIInv == Init => IInv
  <1> SUFFICES ASSUME Init PROVE IInv
    OBVIOUS
  <1>1. TypeOK
    <2>1. timer \in 0 .. Round /\ startedAgo \in 0 .. SilenceCap /\ lateFor \in 0 .. LateCap
      BY Times DEF Init
    <2>2. lastContact \in Age(SilenceCap) /\ reportAge \in Age(ReportCap) /\ clockAge \in Age(ClockCap)
      BY DEF Init, Age
    <2> QED
      BY <2>1, <2>2, Zenon DEF Init, TypeOK, Levels
  <1>2. LoopFits
    BY Times DEF Init, LoopFits
  <1>3. SilenceFits /\ ReportFits /\ OnlineFits /\ ClockFits
    BY DEF Init, SilenceFits, ReportFits, OnlineFits, ClockFits
  <1> QED
    BY <1>1, <1>2, <1>3 DEF IInv

(* Every step keeps the types. *)
LEMMA TypeStep == IInv /\ [Next]_vars => TypeOK'
  <1> SUFFICES ASSUME IInv, [Next]_vars PROVE TypeOK'
    OBVIOUS
  <1> USE Times
  <1>0. TypeOK /\ LoopFits
    BY DEF IInv
  <1>1. CASE Tick
    <2>1. /\ startedAgo' \in 0 .. SilenceCap /\ lastContact' \in Age(SilenceCap)
          /\ reportAge' \in Age(ReportCap) /\ clockAge' \in Age(ClockCap)
      BY <1>0, <1>1, OlderEffect DEF Tick, TypeOK, Age
    <2>2. lateFor' \in 0 .. LateCap
      BY <1>0, <1>1, OlderEffect DEF Tick, TypeOK, Age
    <2>3. timer' \in 0 .. Round
      BY <1>0, <1>1 DEF Tick, TypeOK
    <2> QED
      BY <1>0, <1>1, <2>1, <2>2, <2>3 DEF Tick, TypeOK
  <1>2. ASSUME NEW age \in 0 .. Lag, NEW level \in Levels \ {"unknown"}, Contact(age, level)
        PROVE  TypeOK'
    BY <1>0, <1>2 DEF Contact, TypeOK, Age, loopVars, hubVars
  <1>3. CASE Check
    <2>1. clockAge' \in Age(ClockCap)
      BY <1>0, <1>3 DEF Check, CheckClock, TypeOK, Age
    <2>2. /\ pc' \in {"sleep", "read"} /\ timer' \in 0 .. Round
          /\ reportAge' \in Age(ReportCap)
      BY <1>0, <1>3 DEF Check, ReportOffline, ReportReturn, RepeatOrLookUp, NothingToReport,
                        Report, SleepAgain, TypeOK, Age, hubVars
    <2>3. /\ row' \in {"none", "queued", "unstored", "open", "acked"}
          /\ reported' \in BOOLEAN /\ hubOnline' \in BOOLEAN
          /\ told' \in {"on", "off"} /\ orphaned' \in BOOLEAN
      BY <1>0, <1>3, Zenon DEF Check, ReportOffline, ReportReturn, RepeatOrLookUp, NothingToReport,
                               Report, TypeOK, hubVars
    <2> QED
      BY <1>0, <1>3, <2>1, <2>2, <2>3 DEF Check, TypeOK
  <1>4. CASE LookUp
    BY <1>0, <1>4 DEF LookUp, TypeOK, stateVars, hubVars, history
  <1>5. CASE Decide
    BY <1>0, <1>5 DEF Decide, Report, SleepAgain, TypeOK, Age, stateVars, history
  <1>6. CASE ReportStored
    BY <1>0, <1>6 DEF ReportStored, TypeOK, stateVars, loopVars
  <1>7. CASE Acknowledge
    BY <1>0, <1>7 DEF Acknowledge, TypeOK, stateVars, loopVars, history
  <1>8. CASE Start
    <2>1. lastContact' \in Age(SilenceCap) /\ startedAgo' \in 0 .. SilenceCap /\ lateFor' \in 0 .. LateCap
      BY <1>0, <1>8 DEF Start, TypeOK, Age
    <2>2. offset' \in Levels
      BY <1>8, Zenon DEF Start, Levels
    <2> QED
      BY <1>0, <1>8, <2>1, <2>2, Zenon DEF Start, TypeOK, loopVars, hubVars
  <1>9. CASE Crash
    <2>1. /\ lastContact' \in Age(SilenceCap) /\ timer' \in 0 .. Round
          /\ reportAge' \in Age(ReportCap) /\ clockAge' \in Age(ClockCap)
      BY <1>0, <1>9 DEF Crash, SleepAgain, TypeOK, Age
    <2> QED
      BY <1>0, <1>9, <2>1, Zenon DEF Crash, SleepAgain, TypeOK
  <1>10. CASE UNCHANGED vars
    BY <1>0, <1>10 DEF TypeOK, vars, stateVars, loopVars, hubVars, history
  <1> QED
    BY <1>1, <1>2, <1>3, <1>4, <1>5, <1>6, <1>7, <1>8, <1>9, <1>10 DEF Next
-----------------------------------------------------------------------------
(***************************************************************************)
(* The parts of the invariant, action by action.                           *)
(***************************************************************************)

(* A Tick adds at most one to each age and one to what has passed. *)
LEMMA TickEffect ==
  ASSUME TypeOK, LoopFits, Tick
  PROVE  /\ lastContact' = Never <=> lastContact = Never
         /\ lastContact <= lastContact' /\ lastContact' <= lastContact + 1
         /\ startedAgo <= startedAgo' /\ startedAgo' <= startedAgo + 1
         /\ startedAgo' = startedAgo + 1 \/ startedAgo' = SilenceCap
         /\ startedAgo <= lastContact => startedAgo' <= lastContact'
         /\ Silence <= Silence' /\ Silence' <= Silence + 1
         /\ reportAge' = Never <=> reportAge = Never
         /\ reportAge' <= reportAge + 1
         /\ clockAge' = Never <=> clockAge = Never
         /\ clockAge' <= clockAge + 1
         /\ lateFor' <= lateFor + 1
         /\ offset # "late" => lateFor' = 0
         /\ up => Elapsed' = Elapsed + 1 /\ SinceYoung' = SinceYoung + 1
         /\ Silence \in Nat /\ Silence' \in Nat
         /\ Elapsed \in Int /\ SinceYoung \in Int
         /\ (up' <=> up) /\ (hubOnline' <=> hubOnline) /\ (reported' <=> reported)
         /\ row' = row /\ offset' = offset
  <1> USE Times
  <1>1. /\ lastContact' = Never <=> lastContact = Never
        /\ lastContact <= lastContact' /\ lastContact' <= lastContact + 1
        /\ startedAgo <= startedAgo' /\ startedAgo' <= startedAgo + 1
    BY OlderEffect DEF Tick, TypeOK, Age
  <1>2. startedAgo <= lastContact => startedAgo' <= lastContact'
    BY DEF Tick, TypeOK, Age, Older
  <1>3. Silence \in Nat /\ Silence' \in Nat /\ Silence <= Silence' /\ Silence' <= Silence + 1
    <2>1. lastContact \in Age(SilenceCap) /\ lastContact' \in Age(SilenceCap)
      BY OlderEffect DEF Tick, TypeOK
    <2>2. startedAgo \in Nat /\ startedAgo' \in Nat
      BY OlderEffect DEF Tick, TypeOK, Age
    <2> QED
      BY <1>1, <2>1, <2>2 DEF Silence, Age
  <1>4. /\ reportAge' = Never <=> reportAge = Never
        /\ reportAge' <= reportAge + 1
        /\ clockAge' = Never <=> clockAge = Never
        /\ clockAge' <= clockAge + 1
    BY OlderEffect DEF Tick, TypeOK, Age
  <1>5. lateFor' <= lateFor + 1 /\ (offset # "late" => lateFor' = 0)
    <2>1. lateFor \in Nat /\ lateFor \in Age(LateCap)
      BY DEF TypeOK, Age
    <2>2. Older(lateFor, LateCap) <= lateFor + 1
      BY <2>1, OlderEffect
    <2> QED
      BY <2>1, <2>2 DEF Tick
  <1>6. /\ Elapsed \in Int /\ SinceYoung \in Int
        /\ up => Elapsed' = Elapsed + 1 /\ SinceYoung' = SinceYoung + 1
    BY DEF Tick, TypeOK, Elapsed, SinceYoung
  <1>7. startedAgo' = startedAgo + 1 \/ startedAgo' = SilenceCap
    BY DEF Tick, Older, TypeOK
  <1> QED
    BY <1>1, <1>2, <1>3, <1>4, <1>5, <1>6, <1>7 DEF Tick

(* A Check ends in one of five ways. *)
LEMMA CheckEffect ==
  ASSUME TypeOK, LoopFits, Check
  PROVE  /\ pc = "sleep" /\ timer = 0 /\ up /\ up'
         /\ startedAgo' = startedAgo /\ lastContact' = lastContact
         /\ Silence' = Silence /\ (Stale' <=> Stale)
         /\ offset' = offset /\ lateFor' = lateFor
         /\ Elapsed = Round /\ Elapsed' \in Nat
         /\ Silence \in Nat
         /\ SinceYoung = CheckEvery /\ SinceYoung' \in Nat
         /\ pc' = "sleep" => SinceYoung' = 0
         /\ pc' = "read" => SinceYoung' = CheckEvery
         /\ \/ /\ Stale /\ ~reported /\ reported' /\ ~hubOnline'
               /\ reportAge' = 0
            \/ /\ ~Stale /\ reported /\ ~reported' /\ (hubOnline' <=> hubOnline)
            \/ /\ Stale /\ reported /\ reported' /\ reportAge' = 0
               /\ (hubOnline' <=> hubOnline)
            \/ /\ Stale /\ reported /\ reported' /\ pc' = "read" /\ timer' = ReadTicks
               /\ reportAge' = reportAge /\ row' = row /\ (hubOnline' <=> hubOnline)
            \/ /\ (Stale <=> reported) /\ ~(reported /\ RepeatIsDue)
               /\ (reported' <=> reported) /\ pc' = "sleep" /\ timer' = CheckEvery
               /\ reportAge' = reportAge /\ row' = row /\ (hubOnline' <=> hubOnline)
  <1> USE Times
  <1>1. /\ pc = "sleep" /\ timer = 0 /\ up /\ up'
        /\ startedAgo' = startedAgo /\ lastContact' = lastContact
        /\ offset' = offset /\ lateFor' = lateFor
    BY DEF Check
  <1>2. Silence' = Silence /\ (Stale' <=> Stale) /\ Silence \in Nat
    BY <1>1 DEF Silence, Stale, TypeOK, Age
  <1>3. Elapsed = Round /\ SinceYoung = CheckEvery
    BY <1>1 DEF Elapsed, SinceYoung
  <1>4. \/ pc' = "sleep" /\ timer' = CheckEvery
        \/ pc' = "read" /\ timer' = ReadTicks
    BY DEF Check, RepeatOrLookUp, NothingToReport, SleepAgain
  <1>5. /\ Elapsed' \in Nat /\ SinceYoung' \in Nat
        /\ pc' = "sleep" => SinceYoung' = 0
        /\ pc' = "read" => SinceYoung' = CheckEvery
    BY <1>4 DEF Elapsed, SinceYoung
  <1>6. CASE ReportOffline
    BY <1>1, <1>2, <1>3, <1>5, <1>6 DEF ReportOffline, Report
  <1>7. CASE ReportReturn
    BY <1>1, <1>2, <1>3, <1>5, <1>7 DEF ReportReturn
  <1>8. CASE RepeatOrLookUp
    BY <1>1, <1>2, <1>3, <1>5, <1>8 DEF RepeatOrLookUp, Report
  <1>9. CASE NothingToReport
    BY <1>1, <1>2, <1>3, <1>5, <1>9 DEF NothingToReport, SleepAgain, hubVars
  <1> QED
    BY <1>6, <1>7, <1>8, <1>9 DEF Check

(* The loop decides on a lookup only for a reported silence. *)
LEMMA LoopStep == IInv /\ [Next]_vars => LoopFits'
  <1> SUFFICES ASSUME IInv, [Next]_vars PROVE LoopFits'
    OBVIOUS
  <1> USE Times
  <1>0. TypeOK /\ LoopFits /\ TypeOK'
    BY TypeStep DEF IInv
  <1>1. CASE Tick
    BY <1>0, <1>1, OlderEffect DEF Tick, LoopFits, TypeOK
  <1>2. ASSUME NEW age \in 0 .. Lag, NEW level \in Levels \ {"unknown"}, Contact(age, level)
        PROVE  LoopFits'
    BY <1>0, <1>2 DEF Contact, loopVars, hubVars, LoopFits, TypeOK
  <1>3. CASE Check
    BY <1>0, <1>3 DEF Check, ReportOffline, ReportReturn, RepeatOrLookUp, NothingToReport, Report, SleepAgain, hubVars, LoopFits, TypeOK
  <1>4. CASE LookUp
    BY <1>0, <1>4 DEF LookUp, stateVars, hubVars, history, LoopFits, TypeOK
  <1>5. CASE Decide
    BY <1>0, <1>5 DEF Decide, Report, SleepAgain, stateVars, history, LoopFits, TypeOK
  <1>6. CASE ReportStored
    BY <1>0, <1>6 DEF ReportStored, stateVars, loopVars, LoopFits, TypeOK
  <1>7. CASE Acknowledge
    BY <1>0, <1>7 DEF Acknowledge, stateVars, loopVars, history, LoopFits, TypeOK
  <1>8. CASE Start
    BY <1>0, <1>8 DEF Start, loopVars, hubVars, LoopFits, TypeOK
  <1>9. CASE Crash
    BY <1>0, <1>9 DEF Crash, SleepAgain, LoopFits, TypeOK
  <1>10. CASE UNCHANGED vars
    BY <1>0, <1>10 DEF vars, stateVars, loopVars, hubVars, history, LoopFits, TypeOK
  <1> QED
    BY <1>1, <1>2, <1>3, <1>4, <1>5, <1>6, <1>7, <1>8, <1>9, <1>10 DEF Next

(* A silence not reported is younger than the threshold plus what has passed of the round. *)
LEMMA SilenceStep == IInv /\ [Next]_vars => SilenceFits'
  <1> SUFFICES ASSUME IInv, [Next]_vars PROVE SilenceFits'
    OBVIOUS
  <1> USE Times
  <1>0. TypeOK /\ LoopFits /\ SilenceFits /\ TypeOK'
    BY TypeStep DEF IInv
  <1>1. CASE Tick
    BY <1>0, <1>1, TickEffect DEF SilenceFits, TypeOK
  <1>2. ASSUME NEW age \in 0 .. Lag, NEW level \in Levels \ {"unknown"}, Contact(age, level)
        PROVE  SilenceFits'
    BY <1>0, <1>2 DEF Contact, loopVars, hubVars, LoopFits, SilenceFits, Elapsed, Silence, Stale, TypeOK, Age
  <1>3. CASE Check
    BY <1>0, <1>3, CheckEffect DEF SilenceFits, Stale, TypeOK
  <1>4. CASE LookUp
    BY <1>0, <1>4 DEF LookUp, stateVars, hubVars, history, LoopFits, SilenceFits, Elapsed, Silence, Stale, TypeOK, Age
  <1>5. CASE Decide
    BY <1>0, <1>5 DEF Decide, Report, SleepAgain, stateVars, history, LoopFits, SilenceFits, Elapsed, Silence, Stale, TypeOK, Age
  <1>6. CASE ReportStored
    BY <1>0, <1>6 DEF ReportStored, stateVars, loopVars, LoopFits, SilenceFits, Elapsed, Silence, Stale, TypeOK, Age
  <1>7. CASE Acknowledge
    BY <1>0, <1>7 DEF Acknowledge, stateVars, loopVars, history, LoopFits, SilenceFits, Elapsed, Silence, Stale, TypeOK, Age
  <1>8. CASE Start
    BY <1>0, <1>8 DEF Start, loopVars, hubVars, LoopFits, SilenceFits, Elapsed, Silence, Stale, TypeOK, Age
  <1>9. CASE Crash
    BY <1>0, <1>9 DEF Crash, SleepAgain, LoopFits, SilenceFits, Elapsed, Silence, Stale, TypeOK, Age
  <1>10. CASE UNCHANGED vars
    BY <1>0, <1>10 DEF vars, stateVars, loopVars, hubVars, history, LoopFits, SilenceFits, Elapsed, Silence, Stale, TypeOK, Age
  <1> QED
    BY <1>1, <1>2, <1>3, <1>4, <1>5, <1>6, <1>7, <1>8, <1>9, <1>10 DEF Next

(* A report that may still be repeated is younger than the interval plus what has passed since. *)
LEMMA ReportStep == IInv /\ [Next]_vars => ReportFits'
  <1> SUFFICES ASSUME IInv, [Next]_vars PROVE ReportFits'
    OBVIOUS
  <1> USE Times
  <1>0. TypeOK /\ LoopFits /\ ReportFits /\ TypeOK'
    BY TypeStep DEF IInv
  <1>1. CASE Tick
    BY <1>0, <1>1, TickEffect DEF ReportFits, TypeOK, Age
  <1>2. ASSUME NEW age \in 0 .. Lag, NEW level \in Levels \ {"unknown"}, Contact(age, level)
        PROVE  ReportFits'
    BY <1>0, <1>2 DEF Contact, loopVars, hubVars, LoopFits, ReportFits, SinceYoung, RepeatIsDue, TypeOK, Age
  <1>3. CASE Check
    BY <1>0, <1>3, CheckEffect DEF ReportFits, RepeatIsDue, TypeOK, Age
  <1>4. CASE LookUp
    BY <1>0, <1>4 DEF LookUp, stateVars, hubVars, history, LoopFits, ReportFits, SinceYoung, RepeatIsDue, TypeOK, Age
  <1>5. CASE Decide
    BY <1>0, <1>5 DEF Decide, Report, SleepAgain, stateVars, history, LoopFits, ReportFits, SinceYoung, RepeatIsDue, TypeOK, Age
  <1>6. CASE ReportStored
    BY <1>0, <1>6 DEF ReportStored, stateVars, loopVars, LoopFits, ReportFits, SinceYoung, RepeatIsDue, TypeOK, Age
  <1>7. CASE Acknowledge
    BY <1>0, <1>7 DEF Acknowledge, stateVars, loopVars, history, LoopFits, ReportFits, SinceYoung, RepeatIsDue, TypeOK, Age
  <1>8. CASE Start
    BY <1>0, <1>8 DEF Start, loopVars, hubVars, LoopFits, ReportFits, SinceYoung, RepeatIsDue, TypeOK, Age
  <1>9. CASE Crash
    BY <1>0, <1>9 DEF Crash, SleepAgain, LoopFits, ReportFits, SinceYoung, RepeatIsDue, TypeOK, Age
  <1>10. CASE UNCHANGED vars
    BY <1>0, <1>10 DEF vars, stateVars, loopVars, hubVars, history, LoopFits, ReportFits, SinceYoung, RepeatIsDue, TypeOK, Age
  <1> QED
    BY <1>1, <1>2, <1>3, <1>4, <1>5, <1>6, <1>7, <1>8, <1>9, <1>10 DEF Next

(* hub_online follows the contacts of this run. *)
LEMMA OnlineStep == IInv /\ [Next]_vars => OnlineFits'
  <1> SUFFICES ASSUME IInv, [Next]_vars PROVE OnlineFits'
    OBVIOUS
  <1> USE Times
  <1>0. TypeOK /\ LoopFits /\ SilenceFits /\ OnlineFits /\ TypeOK'
    BY TypeStep DEF IInv
  <1>1. CASE Tick
    <2>1. up' /\ hubOnline' /\ reported' => Silence' <= Lag + Elapsed'
      BY <1>0, <1>1, TickEffect DEF OnlineFits
    <2>2. /\ lastContact \in Int /\ lastContact' \in Int /\ lastContact' <= SilenceCap
          /\ startedAgo \in Int /\ startedAgo' \in Int
      BY <1>0 DEF TypeOK, Age
    <2>3. up' /\ hubOnline' => lastContact' # Never /\ lastContact' <= startedAgo' + Lag
      <3> SUFFICES ASSUME up', hubOnline'
                   PROVE  lastContact' # Never /\ lastContact' <= startedAgo' + Lag
        OBVIOUS
      <3>1. lastContact # Never /\ lastContact <= startedAgo + Lag
        BY <1>0, <1>1, TickEffect DEF OnlineFits
      <3>2. lastContact' # Never
        BY <1>0, <1>1, <3>1, TickEffect
      <3>3. /\ lastContact' <= lastContact + 1
            /\ startedAgo' = startedAgo + 1 \/ startedAgo' = SilenceCap
        BY <1>0, <1>1, TickEffect
      <3>4. CASE startedAgo' = startedAgo + 1
        BY <2>2, <3>1, <3>2, <3>3, <3>4
      <3>5. CASE startedAgo' = SilenceCap
        BY <2>2, <3>2, <3>5
      <3> QED
        BY <3>3, <3>4, <3>5
    <2>4. up' /\ ~hubOnline' /\ lastContact' # Never /\ lastContact' < startedAgo' => Stale'
      BY <1>0, <1>1, TickEffect DEF OnlineFits, Stale, TypeOK, Age
    <2> QED
      BY <2>1, <2>3, <2>4 DEF OnlineFits
  <1>2. ASSUME NEW age \in 0 .. Lag, NEW level \in Levels \ {"unknown"}, Contact(age, level)
        PROVE  OnlineFits'
    BY <1>0, <1>2 DEF Contact, loopVars, hubVars, LoopFits, SilenceFits, OnlineFits, Elapsed, Silence, Stale, TypeOK, Age
  <1>3. CASE Check
    <2>1. hubOnline' /\ reported' => Silence' <= Lag + Elapsed'
      BY <1>0, <1>3, CheckEffect DEF OnlineFits, Stale
    <2>2. hubOnline' => lastContact' # Never /\ lastContact' <= startedAgo' + Lag
      BY <1>0, <1>3, CheckEffect DEF OnlineFits
    <2>3. ~hubOnline' /\ lastContact' # Never /\ lastContact' < startedAgo' => Stale'
      BY <1>0, <1>3, CheckEffect DEF OnlineFits
    <2> QED
      BY <2>1, <2>2, <2>3 DEF OnlineFits
  <1>4. CASE LookUp
    BY <1>0, <1>4 DEF LookUp, stateVars, hubVars, history, LoopFits, SilenceFits, OnlineFits, Elapsed, Silence, Stale, TypeOK, Age
  <1>5. CASE Decide
    BY <1>0, <1>5 DEF Decide, Report, SleepAgain, stateVars, history, LoopFits, SilenceFits, OnlineFits, Elapsed, Silence, Stale, TypeOK, Age
  <1>6. CASE ReportStored
    BY <1>0, <1>6 DEF ReportStored, stateVars, loopVars, LoopFits, SilenceFits, OnlineFits, Elapsed, Silence, Stale, TypeOK, Age
  <1>7. CASE Acknowledge
    BY <1>0, <1>7 DEF Acknowledge, stateVars, loopVars, history, LoopFits, SilenceFits, OnlineFits, Elapsed, Silence, Stale, TypeOK, Age
  <1>8. CASE Start
    BY <1>0, <1>8 DEF Start, loopVars, hubVars, LoopFits, SilenceFits, OnlineFits, Elapsed, Silence, Stale, TypeOK, Age
  <1>9. CASE Crash
    BY <1>0, <1>9 DEF Crash, SleepAgain, LoopFits, SilenceFits, OnlineFits, Elapsed, Silence, Stale, TypeOK, Age
  <1>10. CASE UNCHANGED vars
    BY <1>0, <1>10 DEF vars, stateVars, loopVars, hubVars, history, LoopFits, SilenceFits, OnlineFits, Elapsed, Silence, Stale, TypeOK, Age
  <1> QED
    BY <1>1, <1>2, <1>3, <1>4, <1>5, <1>6, <1>7, <1>8, <1>9, <1>10 DEF Next

(* A late clock was warned of, or is late since this round. *)
LEMMA ClockStep == IInv /\ [Next]_vars => ClockFits'
  <1> SUFFICES ASSUME IInv, [Next]_vars PROVE ClockFits'
    OBVIOUS
  <1> USE Times
  <1>0. TypeOK /\ LoopFits /\ ClockFits /\ TypeOK'
    BY TypeStep DEF IInv
  <1>1. CASE Tick
    BY <1>0, <1>1, TickEffect DEF ClockFits, TypeOK, Age
  <1>2. ASSUME NEW age \in 0 .. Lag, NEW level \in Levels \ {"unknown"}, Contact(age, level)
        PROVE  ClockFits'
    BY <1>0, <1>2 DEF Contact, loopVars, hubVars, LoopFits, ClockFits, CheckClock, Elapsed, TypeOK, Age, Levels
  <1>3. CASE Check
    BY <1>0, <1>3, CheckEffect DEF Check, CheckClock, ClockFits, TypeOK, Age
  <1>4. CASE LookUp
    BY <1>0, <1>4 DEF LookUp, stateVars, hubVars, history, LoopFits, ClockFits, CheckClock, Elapsed, TypeOK, Age, Levels
  <1>5. CASE Decide
    BY <1>0, <1>5 DEF Decide, Report, SleepAgain, stateVars, history, LoopFits, ClockFits, CheckClock, Elapsed, TypeOK, Age, Levels
  <1>6. CASE ReportStored
    BY <1>0, <1>6 DEF ReportStored, stateVars, loopVars, LoopFits, ClockFits, CheckClock, Elapsed, TypeOK, Age, Levels
  <1>7. CASE Acknowledge
    BY <1>0, <1>7 DEF Acknowledge, stateVars, loopVars, history, LoopFits, ClockFits, CheckClock, Elapsed, TypeOK, Age, Levels
  <1>8. CASE Start
    BY <1>0, <1>8 DEF Start, loopVars, hubVars, LoopFits, ClockFits, CheckClock, Elapsed, TypeOK, Age, Levels
  <1>9. CASE Crash
    BY <1>0, <1>9 DEF Crash, SleepAgain, LoopFits, ClockFits, CheckClock, Elapsed, TypeOK, Age, Levels
  <1>10. CASE UNCHANGED vars
    BY <1>0, <1>10 DEF vars, stateVars, loopVars, hubVars, history, LoopFits, ClockFits, CheckClock, Elapsed, TypeOK, Age, Levels
  <1> QED
    BY <1>1, <1>2, <1>3, <1>4, <1>5, <1>6, <1>7, <1>8, <1>9, <1>10 DEF Next

-----------------------------------------------------------------------------
(* The parts together are an invariant: each is kept by every step that starts *)
(* with all of them.                                                           *)
THEOREM Invariant == Spec => []IInv
  <1>1. IInv /\ [Next]_vars => IInv'
    BY TypeStep, LoopStep, SilenceStep, ReportStep, OnlineStep, ClockStep DEF IInv
  <1> QED
    BY InitIInv, <1>1, PTL DEF Spec

(* Every variable of the watchdog, the hub and the database keeps its type, and *)
(* every age stays under its cap.                                               *)
THEOREM TypeCorrect == Spec => []TypeOK
  BY Invariant, PTL DEF IInv

(* No silence stays unreported for more than a round over the threshold, after *)
(* whatever crashes and failing database calls: check() of watchdog.py.        *)
THEOREM SilenceIsReported == Spec => []SilenceReported
  <1>1. IInv => SilenceReported
    <2>1. IInv => Elapsed <= Round
      BY Times DEF IInv, TypeOK, LoopFits, Elapsed
    <2> QED
      BY <2>1, Times DEF IInv, TypeOK, Age, SilenceFits, SilenceReported, Silence, Elapsed
  <1> QED
    BY Invariant, <1>1, PTL

(* An unacknowledged report of a hub that stays away is followed by the next    *)
(* within the interval and a round, stored or not: _should_repeat.              *)
THEOREM RepeatsUntilAcked == Spec => []RepeatedUntilAcked
  <1>1. IInv => RepeatedUntilAcked
    BY Times DEF IInv, TypeOK, Age, LoopFits, ReportFits, RepeatedUntilAcked, SinceYoung
  <1> QED
    BY Invariant, <1>1, PTL

(* hub_online is what the contacts say, but for one round: mark_offline and     *)
(* note_contact of state.py.                                                    *)
THEOREM OnlineIsHeard == Spec => []OnlineMeansHeard
  <1>1. IInv => OnlineMeansHeard
    BY Times DEF IInv, TypeOK, Age, LoopFits, SilenceFits, OnlineFits, OnlineMeansHeard,
                 Elapsed, Silence, Stale
  <1> QED
    BY Invariant, <1>1, PTL

(* A late hub clock is warned of within a round and then daily: _check_clock.   *)
THEOREM LateClockIsWarned == Spec => []LateClockWarned
  <1>1. IInv => LateClockWarned
    BY Times DEF IInv, TypeOK, Age, LoopFits, ClockFits, LateClockWarned, Elapsed
  <1> QED
    BY Invariant, <1>1, PTL
=============================================================================
