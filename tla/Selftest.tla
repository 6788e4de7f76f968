------------------------------ MODULE Selftest ------------------------------
(***************************************************************************)
(* selftest.py, with the part of notify/pushover.py that rings for it.     *)
(* A test ring is planned every week or asked for on the dashboard; each   *)
(* is a row, filled in by run_once while its receipt is being followed     *)
(* under one key, "selftest", and confirmed on the phone or the dashboard. *)
(* A step ends where the code waits for the database or for Pushover.      *)
(***************************************************************************)
EXTENDS Integers, Sequences, FiniteSets

CONSTANTS
  DayLength,  (* Units of time in a day, of the local clock.                  *)
  Slot,       (* settings.hour and minute, in that unit.                      *)
  Weekday,    (* settings.weekday; day 0 is a Monday.                         *)
  Deadline,   (* ack_deadline_minutes, in that unit.                          *)
  MaxRuns,    (* A bound: rows.                                               *)
  MaxClicks,  (* A bound: confirmations on the dashboard.                     *)
  Moments     (* A bound: when the clock is looked at.                        *)

ASSUME PlanIsValid ==
  /\ DayLength \in Nat \ {0} /\ Slot \in 0 .. DayLength - 1
  /\ Weekday \in 0 .. 6 /\ Deadline \in Nat
ASSUME BoundsAreNatural == MaxRuns \in Nat \ {0} /\ Moments \subseteq Nat /\ MaxClicks \in Nat

VARIABLES
  now,      (* The local clock.                                               *)
  up,       (* The process runs.                                              *)
  target,   (* What _run waits for, or NoSlot when it has ended.              *)
  runs,     (* The table selftest_runs, by started_at.                        *)
  task,     (* Per row, where its run_once is.                                *)
  phone,    (* External: per row, its notification at Pushover.               *)
  receipt,  (* _receipts["selftest"], as the row it belongs to, or 0.         *)
  saved,    (* The same in the database.                                      *)
  watcher,  (* _watchers["selftest"]: its receipt (0: none), step and row.    *)
  click,    (* acknowledge_latest from the dashboard: its step and row.       *)
  confirmed,(* History: confirmations on the phone, and stored clicks.        *)
  crossed   (* History: a receipt was stored after it had been forgotten.     *)

history == <<confirmed, crossed>>
vars == <<now, up, target, runs, task, phone, receipt, saved, watcher, click, history>>

RunIds == 1 .. MaxRuns
NoSlot == -1
Idle == [ring |-> 0, step |-> "none", row |-> 0]

(* A row of selftest_runs: a manual one has no slot. *)
Run == [slot : Nat \cup {NoSlot}, started : Moments,
        ring : {"pending", "sent", "failed"}, acked : BOOLEAN]

TypeOK ==
  /\ now \in Moments /\ up \in BOOLEAN /\ target \in Nat \cup {NoSlot}
  /\ confirmed \in Nat /\ crossed \in BOOLEAN
  /\ runs \in Seq(Run) /\ Len(runs) <= MaxRuns
  /\ task \in [RunIds -> {"none", "posting", "logging", "failing", "saving",
                          "reporting", "over"}]
  /\ phone \in [RunIds -> {"silent", "ringing", "confirmed", "expired"}]
  /\ {receipt, saved, watcher.ring} \subseteq {0} \cup {r \in RunIds : phone[r] # "silent"}
  /\ watcher \in [ring : {0} \cup RunIds, row : 0 .. Len(runs),
                  step : {"none", "polling", "forgetting", "expiring", "reading", "writing"}]
  /\ click \in [ring : {0}, row : 0 .. Len(runs), step : {"none", "writing"}]

-----------------------------------------------------------------------------
(* next_run_after *)
DayOf(time) == time \div DayLength

(* Mutant: a moment that is now counts as still to come. *)
NextRunToday(time) ==
  LET ahead == (Weekday - (DayOf(time) % 7)) % 7
      candidate == (DayOf(time) + ahead) * DayLength + Slot
  IN  IF candidate < time THEN candidate + 7 * DayLength ELSE candidate

NextRun(time) ==
  LET ahead == (Weekday - (DayOf(time) % 7)) % 7
      candidate == (DayOf(time) + ahead) * DayLength + Slot
  IN  IF candidate <= time THEN candidate + 7 * DayLength ELSE candidate

(* A bound: a turn after the last of Moments is not planned. *)
Turn == IF \E t \in Moments : t >= NextRun(now) THEN NextRun(now) ELSE NoSlot

(* status: what the dashboard says of the newest row. *)
Newest == runs[Len(runs)]

(* Mutant: only a ring that was sent can be overdue. *)
OverdueIfSent == Newest.ring = "sent" /\ ~Newest.acked /\ now - Newest.started > Deadline

Overdue == ~Newest.acked /\ now - Newest.started > Deadline

Warning == runs = <<>> \/ Newest.ring = "failed" \/ Overdue

-----------------------------------------------------------------------------
Init ==
  /\ now \in Moments /\ (\A t \in Moments : t >= now) /\ up = FALSE /\ target = NoSlot /\ runs = <<>>
  /\ task = [r \in RunIds |-> "none"]
  /\ phone = [r \in RunIds |-> "silent"]
  /\ receipt = 0 /\ saved = 0 /\ watcher = Idle /\ click = Idle
  /\ confirmed = 0 /\ crossed = FALSE

Tick ==
  /\ now' \in Moments
  /\ now' > now /\ \A t \in Moments : t > now => t >= now'
  /\ UNCHANGED <<up, target, runs, task, phone, receipt, saved, watcher, click, history>>

Goes(r, place) == task' = [task EXCEPT ![r] = place]

(* run_once inserts its row. *)
Insert(slot) ==
  /\ Len(runs) < MaxRuns
  /\ runs' = Append(runs, [slot |-> slot, started |-> now, ring |-> "pending", acked |-> FALSE])
  /\ Goes(Len(runs) + 1, "posting")
  /\ UNCHANGED <<now, up, phone, receipt, saved, watcher, click, history>>

Rings == up /\ Insert(NoSlot) /\ UNCHANGED target

(* _run: its turn has come. *)
Scheduled == {r \in DOMAIN runs : runs[r].slot # NoSlot /\ task[r] # "over"}
ItsTurn == up /\ Scheduled = {} /\ target # NoSlot /\ now >= target

TurnComes == ItsTurn /\ Insert(target) /\ UNCHANGED target

(* The next turn is planned when run_once and _check_overdue are through; an  *)
(* error in the latter ends _run, and nothing is planned any more.            *)
PlanNext == target' \in {Turn, NoSlot}

(* The database refuses the row: the test of this week is left out. *)
TurnLost ==
  /\ ItsTurn
  /\ PlanNext
  /\ UNCHANGED <<now, up, runs, task, phone, receipt, saved, watcher, click, history>>

(* The rest of run_once happens at one moment of the coarse clock. *)
PlanAfter(r) == IF runs[r].slot # NoSlot THEN PlanNext ELSE UNCHANGED target

(* Mutant: a ring that was not sent is followed. *)
PostFailedFollowed(r) ==
  /\ task[r] = "posting"
  /\ Goes(r, "logging")
  /\ UNCHANGED <<now, up, target, runs, phone, receipt, saved, watcher, click, history>>

(* test_ring: both attempts of _post failed. *)
PostFailed(r) ==
  /\ task[r] = "posting"
  /\ Goes(r, "failing")
  /\ UNCHANGED <<now, up, target, runs, phone, receipt, saved, watcher, click, history>>

Posted(r) ==
  /\ task[r] = "posting"
  /\ phone' = [phone EXCEPT ![r] = "ringing"]
  /\ Goes(r, "logging")
  /\ UNCHANGED <<now, up, target, runs, receipt, saved, watcher, click, history>>

(* log_call has returned; _remember begins. *)
Remembers(r) ==
  /\ task[r] = "logging"
  /\ receipt' = r
  /\ Goes(r, "saving")
  /\ UNCHANGED <<now, up, target, runs, phone, saved, watcher, click, history>>

(* _remember has committed; _watch keeps a watcher that is there. *)
Watches(r) ==
  /\ task[r] = "saving"
  /\ saved' = r
  /\ watcher' = IF watcher.step = "none" THEN [ring |-> r, step |-> "polling", row |-> 0]
                ELSE watcher
  /\ crossed' = (crossed \/ receipt # r)
  /\ Goes(r, "reporting")
  /\ UNCHANGED <<now, up, target, runs, phone, receipt, click, confirmed>>

(* Mutant: the whole row is written back. *)
ReportWholeRow(r) ==
  /\ task[r] \in {"reporting", "failing"}
  /\ runs' = [runs EXCEPT ![r].ring = IF task[r] = "reporting" THEN "sent" ELSE "failed",
                          ![r].acked = FALSE]
  /\ Goes(r, "over")
  /\ PlanAfter(r)
  /\ UNCHANGED <<now, up, phone, receipt, saved, watcher, click, history>>

(* run_once writes ring_status, in a session of its own. *)
Report(r) ==
  /\ task[r] \in {"reporting", "failing"}
  /\ runs' = [runs EXCEPT ![r].ring = IF task[r] = "reporting" THEN "sent" ELSE "failed"]
  /\ Goes(r, "over")
  /\ PlanAfter(r)
  /\ UNCHANGED <<now, up, phone, receipt, saved, watcher, click, history>>

(* log_call or _remember raises inside test_ring: run_once takes the ring for *)
(* one that was not sent.                                                     *)
RingBreaks(r) ==
  /\ task[r] \in {"logging", "saving"}
  /\ Goes(r, "failing")
  /\ UNCHANGED <<now, up, target, runs, phone, receipt, saved, watcher, click, history>>

(* A call to the database of run_once raises: the row stays as it is. *)
Breaks(r) ==
  /\ task[r] \in {"reporting", "failing"}
  /\ Goes(r, "over")
  /\ PlanAfter(r)
  /\ UNCHANGED <<now, up, runs, phone, receipt, saved, watcher, click, history>>

-----------------------------------------------------------------------------
(* The phone. *)
Confirms(r) ==
  /\ phone[r] = "ringing"
  /\ phone' = [phone EXCEPT ![r] = "confirmed"]
  /\ confirmed' = confirmed + 1
  /\ UNCHANGED <<now, up, target, runs, task, receipt, saved, watcher, click, crossed>>

Expires(r) ==
  /\ phone[r] = "ringing"
  /\ phone' = [phone EXCEPT ![r] = "expired"]
  /\ UNCHANGED <<now, up, target, runs, task, receipt, saved, watcher, click, history>>

(* _watch_receipt learns how the ring ended; _forget drops whatever receipt   *)
(* is under the key, and stores nothing when there is none.                   *)
Follow(outcome) ==
  IF outcome = "confirmed" THEN [watcher EXCEPT !.step = "reading"] ELSE Idle

Learns(outcome, as) ==
  /\ watcher.step = "polling"
  /\ phone[watcher.ring] = outcome
  /\ receipt' = 0
  /\ watcher' = IF receipt = 0 THEN Follow(as)
                ELSE [watcher EXCEPT !.step = IF as = "confirmed" THEN "forgetting" ELSE "expiring"]
  /\ UNCHANGED <<now, up, target, runs, task, phone, saved, click, history>>

(* Mutant: an expired ring counts as confirmed. *)
LearnsExpiredAsProof == Learns("expired", "confirmed")

(* Mutant: the receipt is forgotten, and the run with it. *)
LearnsConfirmedAndStops == Learns("confirmed", "expired")

LearnsConfirmed == Learns("confirmed", "confirmed")

LearnsExpired == Learns("expired", "expired")

Forgets ==
  /\ watcher.step \in {"forgetting", "expiring"}
  /\ saved' = 0
  /\ watcher' = Follow(IF watcher.step = "forgetting" THEN "confirmed" ELSE "expired")
  /\ UNCHANGED <<now, up, target, runs, task, phone, receipt, click, history>>

(* acknowledge_latest: read the newest row, then commit. *)
Acked(row) == IF row = 0 THEN runs ELSE [runs EXCEPT ![row].acked = TRUE]

ReadsNewest ==
  /\ watcher.step = "reading"
  /\ watcher' = [watcher EXCEPT !.step = "writing", !.row = Len(runs)]
  /\ UNCHANGED <<now, up, target, runs, task, phone, receipt, saved, click, history>>

Credits ==
  /\ watcher.step = "writing"
  /\ runs' = Acked(watcher.row)
  /\ watcher' = Idle
  /\ UNCHANGED <<now, up, target, task, phone, receipt, saved, click, history>>

(* set_state of _forget, the query or the commit of acknowledge_latest raises: *)
(* _watch_receipt logs it and ends.  That its ring stays here is history.      *)
WatcherBreaks ==
  /\ watcher.step \in {"forgetting", "expiring", "reading", "writing"}
  /\ watcher' = [watcher EXCEPT !.step = "none", !.row = 0]
  /\ UNCHANGED <<now, up, target, runs, task, phone, receipt, saved, click, history>>

Clicks ==
  /\ up
  /\ confirmed - Cardinality({r \in RunIds : phone[r] = "confirmed"}) < MaxClicks
  /\ click.step = "none" /\ runs # <<>>
  /\ click' = [ring |-> 0, step |-> "writing", row |-> Len(runs)]
  /\ UNCHANGED <<now, up, target, runs, task, phone, receipt, saved, watcher, history>>

ClickDone ==
  /\ click.step = "writing"
  /\ runs' = Acked(click.row)
  /\ click' = Idle
  /\ confirmed' = confirmed + 1
  /\ UNCHANGED <<now, up, target, task, phone, receipt, saved, watcher, crossed>>

(* The commit raises, and so does the route: nothing is confirmed. *)
ClickBreaks ==
  /\ click.step = "writing"
  /\ click' = Idle
  /\ UNCHANGED <<now, up, target, runs, task, phone, receipt, saved, watcher, history>>

-----------------------------------------------------------------------------
(* Start of the process: pushover.start takes up the stored receipt,          *)
(* selftest.start plans anew.                                                 *)
Start ==
  /\ ~up
  /\ up' = TRUE
  /\ receipt' = saved
  /\ watcher' = IF saved = 0 THEN Idle ELSE [ring |-> saved, step |-> "polling", row |-> 0]
  /\ target' = Turn
  /\ UNCHANGED <<now, runs, task, phone, saved, click, history>>

Crash ==
  /\ up
  /\ up' = FALSE
  /\ target' = NoSlot /\ receipt' = 0 /\ watcher' = Idle /\ click' = Idle
  /\ task' = [r \in RunIds |-> IF task[r] = "none" THEN "none" ELSE "over"]
  /\ UNCHANGED <<now, runs, phone, saved, history>>

RunOnce(r) ==
  \/ Posted(r) \/ PostFailed(r) \/ Remembers(r) \/ Watches(r)
  \/ RingBreaks(r) \/ Report(r) \/ Breaks(r)
Watcher ==
  \/ LearnsConfirmed \/ LearnsExpired \/ Forgets \/ ReadsNewest \/ Credits
  \/ WatcherBreaks

Next ==
  \/ Tick \/ Rings \/ TurnComes \/ TurnLost \/ Start \/ Crash
  \/ Clicks \/ ClickDone \/ ClickBreaks
  \/ Watcher
  \/ \E r \in RunIds : RunOnce(r) \/ Confirms(r) \/ Expires(r)

(* Time passes, a call to the database returns or raises, and Pushover answers *)
(* in the end.                                                                *)
Fairness == WF_vars(Tick) /\ WF_vars(Watcher)

Spec == Init /\ [][Next]_vars /\ Fairness

-----------------------------------------------------------------------------
(* A planned moment rings once, however often the process is restarted and    *)
(* however late its turn comes.                                               *)
OncePerSlot ==
  \A i, j \in DOMAIN runs :
    i < j /\ runs[i].slot # NoSlot /\ runs[j].slot # NoSlot =>
      runs[i].started < runs[j].slot

(* The bell path is never declared working for nothing: each row that is      *)
(* confirmed has a confirmation of its own, on the phone or on the dashboard, *)
(* also when rings overlap and a late one is credited to a newer row.  The     *)
(* exception: a receipt that was stored after it had been forgotten is         *)
(* followed anew after a restart, and its confirmation is credited again.     *)
NoFreeProof ==
  crossed \/ Cardinality({i \in DOMAIN runs : runs[i].acked}) <= confirmed

(* run_once, still busy with its row, never undoes a confirmation that came    *)
(* meanwhile, and a row that is over is not reported on again.                *)
ConfirmationStands ==
  [][\A i \in DOMAIN runs :
       /\ runs[i].acked => runs'[i].acked
       /\ task[i] = "over" => runs'[i].ring = runs[i].ring]_vars

(* A confirmation on the phone of the ring that is being followed ends up on   *)
(* its own row or a newer one, unless the process goes down first or the      *)
(* watcher ends on an error of the database, which is in the log.             *)
Broken(r) == watcher.step = "none" /\ watcher.ring = r

ConfirmedRingCounts ==
  \A r \in RunIds :
    watcher.ring = r /\ phone[r] = "confirmed"
    ~> ~up \/ Broken(r) \/ \E i \in DOMAIN runs : i >= r /\ runs[i].acked

(* A test that was cut off, by a crash or by the database, does not stay       *)
(* "sent, waiting" on the dashboard: there is a warning when its time is up,  *)
(* unless it is confirmed or followed by another.                             *)
CutOff ==
  /\ runs # <<>>
  /\ task[Len(runs)] = "over" /\ Newest.ring = "pending" /\ ~Newest.acked
  /\ {t \in Moments : t > Newest.started + Deadline} # {}

CutOffRunReported == CutOff ~> Warning \/ ~CutOff
=============================================================================
