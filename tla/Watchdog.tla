------------------------------ MODULE Watchdog ------------------------------
(***************************************************************************)
(* watchdog.py: a hub that is silent for too long is itself an alarm.      *)
(* Every check_interval the watchdog compares the age of the last contact  *)
(* with a threshold; it reports HUBOFF, repeats it until someone           *)
(* acknowledges, and reports HUBON when the hub speaks again.  The same    *)
(* check warns of a hub clock that drifts away.                            *)
(*                                                                         *)
(* Time is kept as ages that grow with Tick, each up to a cap beyond which *)
(* nothing tells them apart.  A step of the program takes no time; what    *)
(* takes time is the sleep between two checks, the lookup in the database, *)
(* and the way of a message through the pipeline.                          *)
(***************************************************************************)
EXTENDS Integers

CONSTANTS
  Threshold,   (* offline_after_seconds, in ticks.                            *)
  CheckEvery,  (* check_interval.                                             *)
  RepeatAfter, (* offline_repeat_seconds; 0 is off.                           *)
  ClockRepeat, (* _CLOCK_REPEAT_SECONDS.                                      *)
  WatchClock,  (* clock_warn_seconds > 0.                                     *)
  ReadTicks,   (* The longest a lookup in the database takes.  A bound.       *)
  Lag,         (* The longest a message is in the pipeline.  A bound.         *)
  Faults       (* Which may happen: "crash", "db" (a database call fails),    *)
               (* "full" (the queue of the pipeline refuses HUBON).           *)

ASSUME TimesAreNatural ==
  /\ Threshold \in Nat /\ RepeatAfter \in Nat /\ ClockRepeat \in Nat
  /\ ReadTicks \in Nat /\ Lag \in Nat /\ CheckEvery \in Nat \ {0}
ASSUME SwitchesAreKnown == WatchClock \in BOOLEAN /\ Faults \subseteq {"crash", "db", "full"}

(* A contact is still fresh at the first check after it.  The code does not *)
(* enforce it; its defaults are 150 s and 10 s.                             *)
ASSUME ChecksSeeContact == Lag + CheckEvery + ReadTicks <= Threshold

VARIABLES
  up,          (* The process runs.                                           *)
  startedAgo,  (* Age of SystemState.started_at.                              *)
  lastContact, (* Age of SystemState.last_contact; while down, of the newest  *)
               (* hub event in the database, from which it is restored.       *)
  hubOnline,   (* SystemState.hub_online.                                     *)
  offset,      (* SystemState.clock_offset_seconds against its two limits.    *)
  pc,          (* The loop sleeps, is in get_event (read), has its answer.    *)
  timer,       (* Ticks left of the sleep or, at most, of the lookup.         *)
  found,       (* The answer: the last report was acknowledged.               *)
  reported,    (* _offline_reported.                                          *)
  reportAge,   (* Age of _last_report_at.                                     *)
  row,         (* The row of _last_report: its db_id and acknowledged_at.     *)
  clockAge,    (* Age of _clock_reported_at.                                  *)
  (* History, read by properties only. *)
  told,        (* What was published last: "on" (or nothing) or "off".        *)
  orphaned,    (* Nobody will take "off" back: the process that said it is    *)
               (* gone, or its HUBON was refused.                             *)
  lateFor      (* For how long the offset has been over the limit.            *)

stateVars == <<startedAgo, lastContact, hubOnline, offset>>
loopVars  == <<pc, timer, found>>
hubVars   == <<reported, reportAge, row>>
history   == <<told, orphaned, lateFor>>
vars      == <<up, stateVars, loopVars, hubVars, clockAge, history>>

Never == -1
Round == CheckEvery + ReadTicks   (* The longest time between two decisions. *)

SilenceCap == Threshold + Round + 1
ReportCap  == RepeatAfter + Round + 1
ClockCap   == ClockRepeat + Round + 1
LateCap    == Round + 1

Age(cap) == {Never} \cup 0 .. cap
Older(age, cap) == IF age \in {Never, cap} THEN age ELSE age + 1

Levels == {"unknown", "fine", "between", "late"}

(* SystemState.seconds_since_contact, from the start when there is none. *)
Silence == IF lastContact = Never THEN startedAgo ELSE lastContact

(* Mutant: a hub that never spoke is not missed. *)
StaleOnceHeard == lastContact # Never /\ lastContact > Threshold

(* SystemState.is_stale. *)
Stale == Silence > Threshold

Init ==
  /\ up = FALSE
  /\ startedAgo = 0 /\ lastContact = Never /\ hubOnline = FALSE /\ offset = "unknown"
  /\ pc = "sleep" /\ timer = CheckEvery /\ found = FALSE
  /\ reported = FALSE /\ reportAge = Never /\ row = "none"
  /\ clockAge = Never
  /\ told = "on" /\ orphaned = FALSE /\ lateFor = 0

-----------------------------------------------------------------------------
(* Mutant: the loop sleeps for longer than check_interval. *)
TickLate ==
  /\ up => pc # "decide" /\ timer >= 0
  /\ timer' = IF up THEN timer - 1 ELSE timer
  /\ startedAgo' = Older(startedAgo, SilenceCap)
  /\ lastContact' = Older(lastContact, SilenceCap)
  /\ reportAge' = Older(reportAge, ReportCap)
  /\ clockAge' = Older(clockAge, ClockCap)
  /\ lateFor' = IF offset = "late" THEN Older(lateFor, LateCap) ELSE 0
  /\ UNCHANGED <<up, hubOnline, offset, pc, found, reported, row, told, orphaned>>

(* Time passes, but not past a moment at which the loop has something to do. *)
Tick ==
  /\ up => pc # "decide" /\ timer > 0
  /\ timer' = IF up THEN timer - 1 ELSE timer
  /\ startedAgo' = Older(startedAgo, SilenceCap)
  /\ lastContact' = Older(lastContact, SilenceCap)
  /\ reportAge' = Older(reportAge, ReportCap)
  /\ clockAge' = Older(clockAge, ClockCap)
  /\ lateFor' = IF offset = "late" THEN Older(lateFor, LateCap) ELSE 0
  /\ UNCHANGED <<up, hubOnline, offset, pc, found, reported, row, told, orphaned>>

(* An event of the hub leaves the pipeline, some ticks after it arrived: the *)
(* contact is noted, and its time stamp smoothed into the offset.  Messages  *)
(* stay in order.                                                            *)
Contact(age, level) ==
  /\ up
  /\ lastContact # Never => age <= lastContact
  /\ lastContact' = age
  /\ hubOnline' = TRUE
  /\ offset' = level
  /\ lateFor' = IF level = "late" THEN lateFor ELSE 0
  /\ UNCHANGED <<up, startedAgo, loopVars, hubVars, clockAge, told, orphaned>>

-----------------------------------------------------------------------------
(* Mutant: the warning is given once. *)
CheckClockOnce ==
  \/ /\ WatchClock /\ offset = "late" /\ clockAge = Never
     /\ clockAge' = 0
  \/ /\ WatchClock /\ offset = "fine" /\ clockAge # Never
     /\ clockAge' = Never
  \/ /\ ~WatchClock \/ offset \in {"unknown", "between"} \/ (offset = "fine") = (clockAge = Never)
     /\ UNCHANGED clockAge

(* _check_clock: warn over the limit, daily; settle only well below it. *)
CheckClock ==
  \/ /\ WatchClock /\ offset = "late"
     /\ clockAge = Never \/ clockAge >= ClockRepeat
     /\ clockAge' = 0
  \/ /\ WatchClock /\ offset = "fine" /\ clockAge # Never
     /\ clockAge' = Never
  \/ /\ \/ ~WatchClock \/ offset \in {"unknown", "between"}
        \/ offset = "late" /\ clockAge # Never /\ clockAge < ClockRepeat
        \/ offset = "fine" /\ clockAge = Never
     /\ UNCHANGED clockAge

SleepAgain == pc' = "sleep" /\ timer' = CheckEvery

(* _report: remembered, and submitted to the pipeline. *)
Report == reportAge' = 0 /\ row' = "queued"

(* Mutant: mark_offline is forgotten. *)
ReportOfflineUnmarked ==
  /\ Stale /\ ~reported
  /\ reported' = TRUE
  /\ UNCHANGED hubOnline
  /\ Report
  /\ UNCHANGED <<told, orphaned>>

(* The branches of check that end the round with a report. *)
ReportOffline ==
  /\ Stale /\ ~reported
  /\ reported' = TRUE
  /\ hubOnline' = FALSE
  /\ Report
  /\ UNCHANGED <<told, orphaned>>

(* Mutant: only a hub that is still called offline is said to return. *)
ReportReturnByStatus ==
  /\ ~Stale /\ reported
  /\ reported' = FALSE
  /\ reportAge' = Never /\ row' = "none"
  /\ told' = IF hubOnline THEN told ELSE "on"
  /\ UNCHANGED <<orphaned, hubOnline>>

(* The outage is over for the watchdog also when pipeline.submit refuses its  *)
(* HUBON; a HUBOFF that still waits is published then.                        *)
ReportReturn ==
  /\ ~Stale /\ reported
  /\ reported' = FALSE
  /\ reportAge' = Never /\ row' = "none"
  /\ \/ told' = "on" /\ orphaned' = FALSE
     \/ "full" \in Faults /\ told' \in {told, "off"} /\ orphaned' = TRUE
  /\ UNCHANGED hubOnline

RepeatIsDue == RepeatAfter > 0 /\ reportAge # Never /\ reportAge >= RepeatAfter

(* A repeat is due: _acknowledged answers at once when the report has no row, *)
(* and otherwise awaits get_event.                                            *)
RepeatOrLookUp ==
  /\ Stale /\ reported /\ RepeatIsDue
  /\ IF row \in {"queued", "unstored"}
       THEN Report /\ SleepAgain
       ELSE pc' = "read" /\ timer' = ReadTicks /\ UNCHANGED <<reportAge, row>>
  /\ UNCHANGED <<reported, hubOnline, told, orphaned>>

NothingToReport ==
  /\ Stale = reported
  /\ ~(reported /\ RepeatIsDue)
  /\ SleepAgain
  /\ UNCHANGED <<hubVars, hubOnline, told, orphaned>>

Check ==
  /\ up /\ pc = "sleep" /\ timer = 0
  /\ CheckClock
  /\ \/ (ReportOffline \/ ReportReturn) /\ SleepAgain
     \/ RepeatOrLookUp
     \/ NothingToReport
  /\ UNCHANGED <<up, found, startedAgo, lastContact, offset, lateFor>>

(* get_event answers, or fails, which counts as not acknowledged. *)
LookUp ==
  /\ up /\ pc = "read"
  /\ found' \in {row = "acked"} \cup (IF "db" \in Faults THEN {FALSE} ELSE {})
  /\ pc' = "decide"
  /\ UNCHANGED <<up, stateVars, timer, hubVars, clockAge, history>>

(* Mutant: a repeat forgets when it was sent. *)
DecideUntimed ==
  /\ up /\ pc = "decide"
  /\ IF found THEN UNCHANGED <<reportAge, row>> ELSE reportAge' = Never /\ row' = "queued"
  /\ SleepAgain
  /\ UNCHANGED <<up, stateVars, found, reported, clockAge, history>>

(* The rest of the repeat branch, which looks at nothing again. *)
Decide ==
  /\ up /\ pc = "decide"
  /\ IF found THEN UNCHANGED <<reportAge, row>> ELSE Report
  /\ SleepAgain
  /\ UNCHANGED <<up, stateVars, found, reported, clockAge, history>>

-----------------------------------------------------------------------------
(* The pipeline stores the last report, or fails to, and publishes it. *)
ReportStored ==
  /\ up /\ row = "queued"
  /\ row' \in {"open"} \cup (IF "db" \in Faults THEN {"unstored"} ELSE {})
  /\ told' = "off" /\ orphaned' = FALSE
  /\ UNCHANGED <<up, stateVars, loopVars, reported, reportAge, clockAge, lateFor>>

(* Someone acknowledges it. *)
Acknowledge ==
  /\ up /\ row = "open"
  /\ row' = "acked"
  /\ UNCHANGED <<up, stateVars, loopVars, reported, reportAge, clockAge, history>>

(* Restart: restore_from_db replays the events of the last seven days (older *)
(* ones are at the cap), among them the contacts and their offsets.          *)
Start ==
  /\ ~up
  /\ up' = TRUE
  /\ startedAgo' = 0
  /\ lastContact' \in {lastContact} \cup (IF lastContact = SilenceCap THEN {Never} ELSE {})
  /\ hubOnline' = FALSE
  /\ offset' \in IF lastContact' = Never THEN {"unknown"} ELSE Levels \ {"unknown"}
  /\ lateFor' = 0
  /\ UNCHANGED <<loopVars, hubVars, clockAge, told, orphaned>>

(* Everything in memory goes.  The newest hub event may not have been stored. *)
Crash ==
  /\ "crash" \in Faults /\ up
  /\ up' = FALSE
  /\ lastContact' \in {lastContact} \cup (IF "db" \in Faults THEN {SilenceCap, Never} ELSE {})
  /\ SleepAgain /\ found' = FALSE
  /\ reported' = FALSE /\ reportAge' = Never /\ row' = "none" /\ clockAge' = Never
  /\ orphaned' = (told = "off")
  /\ UNCHANGED <<startedAgo, hubOnline, offset, told, lateFor>>

Next ==
  \/ Tick
  \/ \E age \in 0 .. Lag, level \in Levels \ {"unknown"} : Contact(age, level)
  \/ Check \/ LookUp \/ Decide
  \/ ReportStored \/ Acknowledge
  \/ Start \/ Crash

Spec == Init /\ [][Next]_vars

(* Time goes on, the loop runs, the process is restarted and not killed for ever. *)
Fairness ==
  /\ WF_vars(Tick) /\ WF_vars(Check \/ LookUp \/ Decide) /\ WF_vars(Start)
  /\ <>[][~Crash]_vars

FairSpec == Spec /\ Fairness

-----------------------------------------------------------------------------
(***************************************************************************)
(* Properties.                                                             *)
(***************************************************************************)

TypeOK ==
  /\ up \in BOOLEAN /\ hubOnline \in BOOLEAN /\ found \in BOOLEAN
  /\ reported \in BOOLEAN /\ orphaned \in BOOLEAN
  /\ startedAgo \in 0 .. SilenceCap /\ lastContact \in Age(SilenceCap)
  /\ offset \in Levels
  /\ pc \in {"sleep", "read", "decide"}
  /\ timer \in 0 .. Round
  /\ reportAge \in Age(ReportCap) /\ clockAge \in Age(ClockCap)
  /\ row \in {"none", "queued", "unstored", "open", "acked"}
  /\ told \in {"on", "off"}
  /\ lateFor \in 0 .. LateCap

(* No silence goes unreported for longer than one round over the threshold, *)
(* whatever crashes and failing lookups came before (the first round of a   *)
(* restart excepted).                                                       *)
SilenceReported ==
  up /\ startedAgo > Round /\ Silence > Threshold + Round => reported

(* While the hub is away and its last report is not acknowledged, the next  *)
(* report comes one interval and at most one round after it, also when the  *)
(* report could not be stored and nobody can acknowledge it.                *)
RepeatedUntilAcked ==
  up /\ RepeatAfter > 0 /\ reported /\ Stale /\ row # "acked" =>
    reportAge \in 0 .. RepeatAfter + Round

(* The dashboard and MQTT never call a hub online that has been silent for  *)
(* longer than one round over the threshold, nor offline one that was heard *)
(* within the threshold of this run.                                        *)
OnlineMeansHeard ==
  up => /\ hubOnline => Silence <= Threshold + Round
        /\ ~hubOnline /\ lastContact # Never /\ lastContact < startedAgo => Stale

(* A clock over the limit is warned of within a round, and again every day. *)
LateClockWarned ==
  up /\ WatchClock /\ lateFor > Round => clockAge \in 0 .. ClockRepeat + Round

(* When the hub keeps speaking, the last thing said about it is that it is  *)
(* back, unless the process that said otherwise is gone, or the full queue  *)
(* refused the word that takes it back, which is in the log.                *)
Speaking == up /\ ~Stale
ReturnReported == <>[]Speaking => <>[](told = "on" \/ orphaned)

(* docs/project-context.md:120: the return is always reported. *)
ReturnAlwaysReported == <>[]Speaking => <>[](told = "on")
=============================================================================
