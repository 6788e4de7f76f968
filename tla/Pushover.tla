------------------------------ MODULE Pushover ------------------------------
(***************************************************************************)
(* The emergency chain of notify/pushover.py: an alarm is sent to Pushover *)
(* as an emergency, the receipt is remembered and polled by a watcher, an  *)
(* expired emergency is sent again, and an acknowledgement travels from    *)
(* the phone to the database or from the dashboard to the phone.           *)
(*                                                                         *)
(* The program is one asyncio process, so a step here is what one task     *)
(* does between two awaits: the value of pc names the await the task is    *)
(* in, and the action with that guard is its completion together with all  *)
(* the code up to the next await.  Everything else may run in between.     *)
(* An await that neither reads nor writes modelled state (a sleep, a log   *)
(* row) is merged with its neighbour unless a failure in it matters.       *)
(***************************************************************************)
EXTENDS Naturals

CONSTANTS
  Alarms,       (* Alarm events of an emergency category, by database id.  *)
  Receipts,     (* Receipts Pushover hands out (see Fresh for their reuse). *)
  None,         (* No alarm, no receipt.                                    *)
  Tasks,        (* Slots for concurrently running coroutines.  A bound.     *)
  PostAttempts, (* Attempts of one POST of an alarm; the code passes 3.     *)
  Faults        (* Which of FaultKinds may happen.                          *)

(***************************************************************************)
(* What the environment may do wrong: kill or stop the process; lose the   *)
(* answer to a POST that Pushover did accept; fail the POST that cancels a *)
(* receipt; fail any database call; report an alarm while start() is still *)
(* between receiver.start() and the query of resume_open_alarms().  A POST *)
(* that is refused or does not arrive, and a GET that fails, are always    *)
(* possible.                                                               *)
(***************************************************************************)
FaultKinds == {"crash", "answer", "cancel", "db", "early"}

ASSUME NoneIsFresh == None \notin Alarms \cup Receipts
ASSUME PostAttemptsPositive == PostAttempts \in Nat \ {0}
ASSUME FaultsAreKnown == Faults \subseteq FaultKinds

VARIABLES
  (* The database: survives a crash. *)
  raised,    (* Alarms stored.                                              *)
  acked,     (* Alarms whose acknowledged_at is set.                        *)
  saved,     (* The state row "pushover_receipts".                          *)
  (* The process. *)
  phase,     (* down; starting (receiver up); resuming; up (dashboard up).  *)
  receipts,  (* PushoverNotifier._receipts.                                 *)
  watcher,   (* PushoverNotifier._watchers, with the state of each task.    *)
  task,      (* Send tasks, resends and receipt cancellations.              *)
  todo,      (* Rows resume_open_alarms() still has to visit.               *)
  callbacks, (* Dashboard acknowledgements committed, callback still to run. *)
  listed,    (* The ids acknowledge_all() listed; None when it is not run.  *)
  gaveUp,    (* Alarms whose send ended in a "failed" log row.              *)
  broken,    (* Alarms of which a task died on a database error.            *)
  (* Pushover and the phone. *)
  phone,     (* What each receipt's emergency does.                         *)
  owner      (* The alarm each receipt was sent for.                        *)

dbVars    == <<raised, acked, saved>>
chainVars == <<receipts, watcher, task>>
startVars == <<phase, todo>>
webVars   == <<callbacks, listed>>
logVars   == <<gaveUp, broken>>
phoneVars == <<phone, owner>>
vars      == <<dbVars, chainVars, startVars, webVars, logVars, phoneVars>>

ReceiptMap == [Alarms -> Receipts \cup {None}]
NoReceipts == [a \in Alarms |-> None]

(***************************************************************************)
(* A watcher sleeps (then reads the event), polls, or is in one of the     *)
(* awaits of _cancel_receipt (unsave, cancel), of the acknowledged branch  *)
(* (ackSave, ackDb, ackLog) or of the expired branch (expSave, expLog).    *)
(***************************************************************************)
SavingPcs   == {"unsave", "ackSave", "expSave"}
WatcherPcs  == {"none", "sleep", "poll", "cancel", "ackDb", "ackLog", "expLog"} \cup SavingPcs
WatcherType == [pc : WatcherPcs, rcpt : Receipts \cup {None}, snap : ReceiptMap]

NoWatcher    == [pc |-> "none", rcpt |-> None, snap |-> NoReceipts]
NewWatcher(r) == [pc |-> "sleep", rcpt |-> r, snap |-> NoReceipts]
Watched(a)   == watcher[a].pc # "none"

(***************************************************************************)
(* A task posts an emergency ("first" from the dispatcher, "resume" from   *)
(* the start-up loop, "again" after an expiry) or cancels a receipt.       *)
(***************************************************************************)
SendKinds == {"first", "resume", "again"}
TaskPcs   == {"free", "check", "post", "log", "save", "fail", "forget", "unsave", "cancel"}
TaskType  == [kind : SendKinds \cup {"cancel"}, pc : TaskPcs, alarm : Alarms \cup {None},
              rcpt : Receipts \cup {None}, snap : ReceiptMap, tries : 0 .. PostAttempts]

NoTask == [kind |-> "first", pc |-> "free", alarm |-> None, rcpt |-> None,
           snap |-> NoReceipts, tries |-> 0]
NewTask(kind, pc, a, r) ==
  [kind |-> kind, pc |-> pc, alarm |-> a, rcpt |-> r,
   snap |-> NoReceipts, tries |-> IF pc = "post" THEN 1 ELSE 0]

Running(t)  == task[t].pc # "free"
SlotIsFree  == \E t \in Tasks : ~Running(t)
FreeSlot    == CHOOSE t \in Tasks : ~Running(t)
Spawned(new) == [task EXCEPT ![FreeSlot] = new]
Resuming    == \E t \in Tasks : Running(t) /\ task[t].kind = "resume"

(***************************************************************************)
(* Receipts.  Every receipt Pushover hands out is new.  So that a finite   *)
(* set lasts for ever, one that neither rings, nor was confirmed, nor is   *)
(* mentioned anywhere in the process or the database stands for a new one. *)
(***************************************************************************)
Mentions(map, r) == \E a \in Alarms : map[a] = r

Referenced(r) ==
  \/ Mentions(receipts, r)
  \/ Mentions(saved, r)
  \/ \E a \in Alarms : watcher[a].rcpt = r \/ Mentions(watcher[a].snap, r)
  \/ \E t \in Tasks : task[t].rcpt = r \/ Mentions(task[t].snap, r)

Fresh == {r \in Receipts : phone[r] \notin {"ringing", "acked"} /\ ~Referenced(r)}

RingNew(r, a) ==
  /\ phone' = [phone EXCEPT ![r] = "ringing"]
  /\ owner' = [owner EXCEPT ![r] = a]

Without(map, a) == [map EXCEPT ![a] = None]

Init ==
  /\ raised = {} /\ acked = {} /\ saved = NoReceipts
  /\ phase = "down"
  /\ receipts = NoReceipts
  /\ watcher = [a \in Alarms |-> NoWatcher]
  /\ task = [t \in Tasks |-> NoTask]
  /\ todo = {} /\ callbacks = {} /\ listed = None
  /\ gaveUp = {} /\ broken = {}
  /\ phone = [r \in Receipts |-> "unused"]
  /\ owner = [r \in Receipts |-> None]

-----------------------------------------------------------------------------
(***************************************************************************)
(* Sending an emergency: PushoverNotifier._send.                           *)
(***************************************************************************)

(* The pipeline stored an alarm and the dispatcher spawned its send.  Until *)
(* Pushover accepts the POST nothing tells the awaits in between apart.     *)
Raise(a) ==
  /\ phase \in {"resuming", "up"} \/ (phase = "starting" /\ "early" \in Faults)
  /\ a \notin raised
  /\ SlotIsFree
  /\ raised' = raised \cup {a}
  /\ task' = Spawned(NewTask("first", "post", a, None))
  /\ UNCHANGED <<acked, saved, receipts, watcher, startVars, webVars, logVars, phoneVars>>

(* Pushover accepts and answers with a receipt: the phone rings. *)
PostAccepted(t) ==
  /\ task[t].pc = "post"
  /\ \E r \in Fresh :
       /\ RingNew(r, task[t].alarm)
       /\ task' = [task EXCEPT ![t].pc = "log", ![t].rcpt = r]
  /\ UNCHANGED <<dbVars, receipts, watcher, startVars, webVars, logVars>>

(* Mutant: one attempt too many. *)
AttemptFailedOffByOne(t, final) ==
  \/ /\ ~final
     /\ task[t].tries <= PostAttempts
     /\ task' = [task EXCEPT ![t].tries = @ + 1]
  \/ final /\ task' = [task EXCEPT ![t].pc = "fail"]

(* A failed attempt is tried again until PostAttempts; an answer in the 400s *)
(* ends the loop at once.                                                    *)
AttemptFailed(t, final) ==
  \/ /\ ~final
     /\ task[t].tries < PostAttempts
     /\ task' = [task EXCEPT ![t].tries = @ + 1]
  \/ /\ final \/ task[t].tries >= PostAttempts
     /\ task' = [task EXCEPT ![t].pc = "fail"]

PostFailed(t) ==
  /\ task[t].pc = "post"
  /\ \E final \in BOOLEAN : AttemptFailed(t, final)
  /\ UNCHANGED <<dbVars, receipts, watcher, startVars, webVars, logVars, phoneVars>>

(* Pushover accepts, but the answer does not arrive: the phone rings for a *)
(* receipt nobody has, and the attempt counts as failed.                   *)
PostAnswerLost(t) ==
  /\ "answer" \in Faults
  /\ task[t].pc = "post"
  /\ \E r \in Fresh : RingNew(r, task[t].alarm)
  /\ AttemptFailed(t, FALSE)
  /\ UNCHANGED <<dbVars, receipts, watcher, startVars, webVars, logVars>>

(* log_notification and log_call are written; _remember changes _receipts *)
(* and serialises it for set_state before the next await.                 *)
SendLogged(t) ==
  /\ task[t].pc = "log"
  /\ receipts' = [receipts EXCEPT ![task[t].alarm] = task[t].rcpt]
  /\ task' = [task EXCEPT ![t].pc = "save", ![t].snap = receipts']
  /\ UNCHANGED <<dbVars, watcher, startVars, webVars, logVars, phoneVars>>

(* set_state commits the serialised map and _watch starts a watcher, unless *)
(* the key has one.                                                         *)
SendSaved(t) ==
  LET a == task[t].alarm IN
  /\ task[t].pc = "save"
  /\ saved' = task[t].snap
  /\ watcher' = IF Watched(a) THEN watcher
                ELSE [watcher EXCEPT ![a] = NewWatcher(task[t].rcpt)]
  /\ task' = [task EXCEPT ![t] = NoTask]
  /\ UNCHANGED <<raised, acked, receipts, startVars, webVars, logVars, phoneVars>>

(* Mutant: a failed resend is not tried again. *)
SendFailedForGood(t) ==
  /\ task[t].pc = "fail"
  /\ task' = [task EXCEPT ![t] = NoTask]
  /\ UNCHANGED <<dbVars, receipts, watcher, startVars, webVars, logVars, phoneVars>>

(* The failure is logged and raised as NotifyError.  _alarm_again waits and *)
(* starts over; the dispatcher and resume_open_alarms leave it at that.     *)
SendFailed(t) ==
  /\ task[t].pc = "fail"
  /\ IF task[t].kind = "again"
       THEN /\ task' = [task EXCEPT ![t].pc = "check", ![t].tries = 0]
            /\ UNCHANGED gaveUp
       ELSE /\ task' = [task EXCEPT ![t] = NoTask]
            /\ gaveUp' = gaveUp \cup {task[t].alarm}
  /\ UNCHANGED <<dbVars, receipts, watcher, startVars, webVars, broken, phoneVars>>

(* Mutant: the resend does not look whether the alarm was acknowledged. *)
AgainUnchecked(t) ==
  /\ task[t].pc = "check"
  /\ IF Watched(task[t].alarm)
       THEN task' = [task EXCEPT ![t] = NoTask]
       ELSE task' = [task EXCEPT ![t].pc = "post", ![t].tries = 1]
  /\ UNCHANGED <<dbVars, receipts, watcher, startVars, webVars, logVars, phoneVars>>

(* _alarm_again reads the event, after its spawn or after the retry delay. *)
AgainChecked(t) ==
  LET a == task[t].alarm IN
  /\ task[t].pc = "check"
  /\ IF a \in acked \/ Watched(a)
       THEN task' = [task EXCEPT ![t] = NoTask]
       ELSE task' = [task EXCEPT ![t].pc = "post", ![t].tries = 1]
  /\ UNCHANGED <<dbVars, receipts, watcher, startVars, webVars, logVars, phoneVars>>

-----------------------------------------------------------------------------
(***************************************************************************)
(* Cancelling a receipt: cancel_for and the task it spawns.                *)
(***************************************************************************)

(* _spawn(_cancel_receipt(a, receipts[a])), when there is a receipt. *)
SpawnCancel(a) ==
  IF receipts[a] = None
    THEN UNCHANGED task
    ELSE /\ SlotIsFree
         /\ task' = Spawned(NewTask("cancel", "forget", a, receipts[a]))

(* cancel_for(a): with a receipt, the watcher is popped and cancelled too.  *)
(* A set_state the cancelled watcher was in may or may not have committed.  *)
CancelFor(a) ==
  /\ SpawnCancel(a)
  /\ IF receipts[a] = None
       THEN UNCHANGED <<saved, watcher>>
       ELSE /\ watcher' = [watcher EXCEPT ![a] = NoWatcher]
            /\ \/ UNCHANGED saved
               \/ watcher[a].pc \in SavingPcs /\ saved' = watcher[a].snap

(* _cancel_receipt starts: _forget drops whatever receipt the key has now. *)
CancelForgot(t) ==
  LET a == task[t].alarm IN
  /\ task[t].pc = "forget"
  /\ IF receipts[a] = None
       THEN /\ task' = [task EXCEPT ![t].pc = "cancel"]
            /\ UNCHANGED receipts
       ELSE /\ receipts' = Without(receipts, a)
            /\ task' = [task EXCEPT ![t].pc = "unsave", ![t].snap = receipts']
  /\ UNCHANGED <<dbVars, watcher, startVars, webVars, logVars, phoneVars>>

CancelSaved(t) ==
  /\ task[t].pc = "unsave"
  /\ saved' = task[t].snap
  /\ task' = [task EXCEPT ![t].pc = "cancel", ![t].snap = NoReceipts]
  /\ UNCHANGED <<raised, acked, receipts, watcher, startVars, webVars, logVars, phoneVars>>

(* One POST to /receipts/<r>/cancel.json.  Its failure is only logged. *)
Revoked(r) ==
  \/ phone' = IF phone[r] = "ringing" THEN [phone EXCEPT ![r] = "cancelled"] ELSE phone
  \/ "cancel" \in Faults /\ UNCHANGED phone

CancelPosted(t) ==
  /\ task[t].pc = "cancel"
  /\ Revoked(task[t].rcpt)
  /\ task' = [task EXCEPT ![t] = NoTask]
  /\ UNCHANGED <<dbVars, receipts, watcher, startVars, webVars, logVars, owner>>

-----------------------------------------------------------------------------
(***************************************************************************)
(* Following a receipt: _watch_receipt, with pc the await it is in.        *)
(***************************************************************************)

(* self._forget(a) of a watcher, then on to pc: by way of pcSaving when the *)
(* key had a receipt and the map without it is to be stored.                *)
WatcherForgets(a, pcSaving, pc) ==
  IF receipts[a] = None
    THEN /\ watcher' = [watcher EXCEPT ![a].pc = pc]
         /\ UNCHANGED receipts
    ELSE /\ receipts' = Without(receipts, a)
         /\ watcher' = [watcher EXCEPT ![a].pc = pcSaving, ![a].snap = receipts']

(* Mutant: an event that exists counts as acknowledged. *)
WatcherAssumesAck(a) ==
  /\ watcher[a].pc = "sleep"
  /\ WatcherForgets(a, "unsave", "cancel")
  /\ UNCHANGED <<dbVars, task, startVars, webVars, logVars, phoneVars>>

(* Mutant: the watcher never looks in the database. *)
WatcherBlind(a) ==
  /\ watcher[a].pc = "sleep"
  /\ watcher' = [watcher EXCEPT ![a].pc = "poll"]
  /\ UNCHANGED <<dbVars, receipts, task, startVars, webVars, logVars, phoneVars>>

(* The poll interval is over and the event is read: acknowledged in the *)
(* database means _cancel_receipt, anything else a poll.                *)
WatcherChecked(a) ==
  /\ watcher[a].pc = "sleep"
  /\ IF a \in acked
       THEN WatcherForgets(a, "unsave", "cancel")
       ELSE /\ watcher' = [watcher EXCEPT ![a].pc = "poll"]
            /\ UNCHANGED receipts
  /\ UNCHANGED <<dbVars, task, startVars, webVars, logVars, phoneVars>>

(* Mutant: an unreachable receipt counts as expired. *)
WatcherPollGivesUp(a) ==
  /\ watcher[a].pc = "poll"
  /\ WatcherForgets(a, "expSave", "expLog")
  /\ UNCHANGED <<dbVars, task, startVars, webVars, logVars, phoneVars>>

(* The GET of the receipt fails: back to sleep. *)
WatcherPollFailed(a) ==
  /\ watcher[a].pc = "poll"
  /\ watcher' = [watcher EXCEPT ![a].pc = "sleep"]
  /\ UNCHANGED <<dbVars, receipts, task, startVars, webVars, logVars, phoneVars>>

(* Mutant: confirmed and expired are not told apart. *)
WatcherPolledDone(a) ==
  /\ watcher[a].pc = "poll"
  /\ IF phone[watcher[a].rcpt] \in {"acked", "expired"}
       THEN WatcherForgets(a, "ackSave", "ackDb")
       ELSE watcher' = [watcher EXCEPT ![a].pc = "sleep"] /\ UNCHANGED receipts
  /\ UNCHANGED <<dbVars, task, startVars, webVars, logVars, phoneVars>>

(* Mutant: only expiry is looked at. *)
WatcherPolledDeaf(a) ==
  /\ watcher[a].pc = "poll"
  /\ IF phone[watcher[a].rcpt] = "expired"
       THEN WatcherForgets(a, "expSave", "expLog")
       ELSE watcher' = [watcher EXCEPT ![a].pc = "sleep"] /\ UNCHANGED receipts
  /\ UNCHANGED <<dbVars, task, startVars, webVars, logVars, phoneVars>>

(* The GET answers: confirmed, expired, or neither. *)
WatcherPolled(a) ==
  /\ watcher[a].pc = "poll"
  /\ \/ phone[watcher[a].rcpt] = "acked" /\ WatcherForgets(a, "ackSave", "ackDb")
     \/ phone[watcher[a].rcpt] = "expired" /\ WatcherForgets(a, "expSave", "expLog")
     \/ /\ phone[watcher[a].rcpt] \notin {"acked", "expired"}
        /\ watcher' = [watcher EXCEPT ![a].pc = "sleep"]
        /\ UNCHANGED receipts
  /\ UNCHANGED <<dbVars, task, startVars, webVars, logVars, phoneVars>>

(* set_state of a _forget commits. *)
WatcherSaved(a) ==
  /\ watcher[a].pc \in SavingPcs
  /\ saved' = watcher[a].snap
  /\ watcher' = [watcher EXCEPT ![a].snap = NoReceipts,
                   ![a].pc = CASE @ = "unsave"  -> "cancel"
                               [] @ = "ackSave" -> "ackDb"
                               [] @ = "expSave" -> "expLog"]
  /\ UNCHANGED <<raised, acked, receipts, task, startVars, webVars, logVars, phoneVars>>

WatcherRevoked(a) ==
  /\ watcher[a].pc = "cancel"
  /\ Revoked(watcher[a].rcpt)
  /\ watcher' = [watcher EXCEPT ![a] = NoWatcher]
  /\ UNCHANGED <<dbVars, receipts, task, startVars, webVars, logVars, owner>>

(* _handle_acknowledged: the confirmation reaches the database ... *)
WatcherAcked(a) ==
  /\ watcher[a].pc = "ackDb"
  /\ acked' = acked \cup {a}
  /\ watcher' = [watcher EXCEPT ![a].pc = "ackLog"]
  /\ UNCHANGED <<raised, saved, receipts, task, startVars, webVars, logVars, phoneVars>>

(* ... is logged, and Application._on_acknowledged runs: cancel_for finds a *)
(* receipt only when another emergency for the alarm was remembered.        *)
WatcherAckLogged(a) ==
  /\ watcher[a].pc = "ackLog"
  /\ SpawnCancel(a)
  /\ watcher' = [watcher EXCEPT ![a] = NoWatcher]
  /\ UNCHANGED <<dbVars, receipts, startVars, webVars, logVars, phoneVars>>

(* _handle_expired: logged, and _alarm_again is spawned. *)
WatcherExpired(a) ==
  /\ watcher[a].pc = "expLog"
  /\ SlotIsFree
  /\ task' = Spawned(NewTask("again", "check", a, None))
  /\ watcher' = [watcher EXCEPT ![a] = NoWatcher]
  /\ UNCHANGED <<dbVars, receipts, startVars, webVars, logVars, phoneVars>>

-----------------------------------------------------------------------------
(***************************************************************************)
(* The dashboard (web/app.py) and the phone.                               *)
(***************************************************************************)

(* POST /api/events/{id}/acknowledge: commits; the callback runs when the *)
(* handler continues.                                                     *)
WebAck(a) ==
  /\ phase = "up"
  /\ a \in raised
  /\ acked' = acked \cup {a}
  /\ callbacks' = callbacks \cup {a}
  /\ UNCHANGED <<raised, saved, chainVars, startVars, listed, logVars, phoneVars>>

(* POST /api/alarms/acknowledge-all lists the open alarms ... *)
WebListOpen ==
  /\ phase = "up"
  /\ listed = None
  /\ listed' = raised \ acked
  /\ UNCHANGED <<dbVars, chainVars, startVars, callbacks, logVars, phoneVars>>

(* ... and acknowledges those open now; only the listed ones get a callback. *)
WebAckAll ==
  /\ listed # None
  /\ acked' = raised
  /\ callbacks' = callbacks \cup listed
  /\ listed' = None
  /\ UNCHANGED <<raised, saved, chainVars, startVars, logVars, phoneVars>>

WebCallback(a) ==
  /\ a \in callbacks
  /\ callbacks' = callbacks \ {a}
  /\ CancelFor(a)
  /\ UNCHANGED <<raised, acked, receipts, startVars, listed, logVars, phoneVars>>

(* Someone taps Confirm.  A bound: confirmed receipts are never reused, so *)
(* one receipt is kept unconfirmed.                                        *)
PhoneAcks(r) ==
  /\ phone[r] = "ringing"
  /\ \E s \in Receipts \ {r} : phone[s] # "acked"
  /\ phone' = [phone EXCEPT ![r] = "acked"]
  /\ UNCHANGED <<dbVars, chainVars, startVars, webVars, logVars, owner>>

(* The emergency reaches its expire time: minutes to hours, so not while *)
(* the send that got the receipt still writes its log rows.              *)
PhoneExpires(r) ==
  /\ phone[r] = "ringing"
  /\ \A t \in Tasks : task[t].pc \in {"log", "save"} => task[t].rcpt # r
  /\ phone' = [phone EXCEPT ![r] = "expired"]
  /\ UNCHANGED <<dbVars, chainVars, startVars, webVars, logVars, owner>>

-----------------------------------------------------------------------------
(***************************************************************************)
(* Start, crash, and a database that refuses.                              *)
(***************************************************************************)

(* PushoverNotifier.start: load the receipts and watch each; afterwards the *)
(* receiver is started.                                                     *)
Start ==
  /\ phase = "down"
  /\ phase' = "starting"
  /\ receipts' = saved
  /\ watcher' = [a \in Alarms |-> IF saved[a] = None THEN NoWatcher ELSE NewWatcher(saved[a])]
  /\ UNCHANGED <<dbVars, task, todo, webVars, logVars, phoneVars>>

(* Mutant: nothing is resumed. *)
ResumeNothing ==
  /\ phase = "starting"
  /\ phase' = "resuming"
  /\ UNCHANGED <<dbVars, chainVars, todo, webVars, logVars, phoneVars>>

(* resume_open_alarms reads the open alarms once ... *)
ResumeRead ==
  /\ phase = "starting"
  /\ phase' = "resuming"
  /\ todo' = raised \ acked
  /\ UNCHANGED <<dbVars, chainVars, webVars, logVars, phoneVars>>

(* ... and visits them one at a time, awaiting each send: the rows it still *)
(* has to visit grow old.                                                   *)
ResumeNext(a) ==
  /\ phase = "resuming" /\ ~Resuming
  /\ a \in todo
  /\ todo' = todo \ {a}
  /\ IF Watched(a)
       THEN UNCHANGED task
       ELSE SlotIsFree /\ task' = Spawned(NewTask("resume", "post", a, None))
  /\ UNCHANGED <<dbVars, receipts, watcher, phase, webVars, logVars, phoneVars>>

ResumeDone ==
  /\ phase = "resuming" /\ ~Resuming
  /\ todo = {}
  /\ phase' = "up"
  /\ UNCHANGED <<dbVars, chainVars, todo, webVars, logVars, phoneVars>>

(* Everything in memory goes; the logs are about one run of the process. *)
Halt ==
  /\ phase' = "down"
  /\ receipts' = NoReceipts
  /\ watcher' = [a \in Alarms |-> NoWatcher]
  /\ task' = [t \in Tasks |-> NoTask]
  /\ todo' = {} /\ callbacks' = {} /\ listed' = None
  /\ gaveUp' = {} /\ broken' = {}

(* A crash, or Application.stop, which cancels every task here. *)
Crash ==
  /\ "crash" \in Faults
  /\ phase # "down"
  /\ Halt
  /\ UNCHANGED <<dbVars, phoneVars>>

(* A database call raises: the dispatcher and the watcher log the exception *)
(* and end, _alarm_again and _cancel_receipt end, and in resume_open_alarms *)
(* it ends Application.start and with it the process.                       *)
TaskBreaks(t) ==
  /\ "db" \in Faults
  /\ task[t].pc \in {"check", "log", "save", "fail", "unsave"}
  /\ IF task[t].kind = "resume"
       THEN Halt
       ELSE /\ task' = [task EXCEPT ![t] = NoTask]
            /\ broken' = broken \cup {task[t].alarm}
            /\ UNCHANGED <<receipts, watcher, startVars, webVars, gaveUp>>
  /\ UNCHANGED <<dbVars, phoneVars>>

WatcherBreaks(a) ==
  /\ "db" \in Faults
  /\ watcher[a].pc \in {"sleep", "ackDb", "ackLog", "expLog"} \cup SavingPcs
  /\ watcher' = [watcher EXCEPT ![a] = NoWatcher]
  /\ broken' = broken \cup {a}
  /\ UNCHANGED <<dbVars, receipts, task, startVars, webVars, gaveUp, phoneVars>>

-----------------------------------------------------------------------------
TaskStep(t) ==
  \/ PostAccepted(t) \/ PostFailed(t) \/ PostAnswerLost(t)
  \/ SendLogged(t) \/ SendSaved(t) \/ SendFailed(t) \/ AgainChecked(t)
  \/ CancelForgot(t) \/ CancelSaved(t) \/ CancelPosted(t)
  \/ TaskBreaks(t)

WatcherStep(a) ==
  \/ WatcherChecked(a) \/ WatcherPollFailed(a) \/ WatcherPolled(a) \/ WatcherSaved(a)
  \/ WatcherRevoked(a) \/ WatcherAcked(a) \/ WatcherAckLogged(a) \/ WatcherExpired(a)
  \/ WatcherBreaks(a)

WebStep ==
  \/ \E a \in Alarms : WebAck(a) \/ WebCallback(a)
  \/ WebListOpen \/ WebAckAll

StartStep ==
  \/ Start \/ ResumeRead \/ ResumeDone
  \/ \E a \in Alarms : ResumeNext(a)

Next ==
  \/ \E a \in Alarms : Raise(a) \/ WatcherStep(a)
  \/ \E t \in Tasks : TaskStep(t)
  \/ \E r \in Receipts : PhoneAcks(r) \/ PhoneExpires(r)
  \/ WebStep
  \/ StartStep
  \/ Crash

Spec == Init /\ [][Next]_vars

(***************************************************************************)
(* Fairness.  A task that can run is run: the event loop serves its ready  *)
(* queue in order, and every await here is a sleep, a database call or an  *)
(* HTTP call with a timeout of 20 s.  Pushover accepts a POST that is      *)
(* tried for ever and answers a GET that is tried for ever (strong: each   *)
(* attempt may fail), and the process is not killed for ever.  Nobody has  *)
(* to acknowledge, and nothing has to expire.                              *)
(***************************************************************************)
TaskProgress(t) ==
  \/ SendLogged(t) \/ SendSaved(t) \/ SendFailed(t) \/ AgainChecked(t)
  \/ CancelForgot(t) \/ CancelSaved(t) \/ CancelPosted(t)

WatcherProgress(a) ==
  \/ WatcherChecked(a) \/ WatcherSaved(a) \/ WatcherRevoked(a)
  \/ WatcherAcked(a) \/ WatcherAckLogged(a) \/ WatcherExpired(a)

Fairness ==
  /\ \A t \in Tasks : WF_vars(TaskProgress(t)) /\ SF_vars(PostAccepted(t))
  /\ \A a \in Alarms : WF_vars(WatcherProgress(a)) /\ SF_vars(WatcherPolled(a))
  /\ \A a \in Alarms : WF_vars(WebCallback(a))
  /\ WF_vars(StartStep)
  /\ <>[][~Crash]_vars

FairSpec == Spec /\ Fairness

-----------------------------------------------------------------------------
(***************************************************************************)
(* Properties.                                                             *)
(***************************************************************************)

TypeOK ==
  /\ raised \subseteq Alarms /\ acked \subseteq Alarms
  /\ saved \in ReceiptMap /\ receipts \in ReceiptMap
  /\ phase \in {"down", "starting", "resuming", "up"}
  /\ watcher \in [Alarms -> WatcherType]
  /\ task \in [Tasks -> TaskType]
  /\ todo \subseteq Alarms /\ callbacks \subseteq Alarms
  /\ listed \in (SUBSET Alarms) \cup {None}
  /\ gaveUp \subseteq Alarms /\ broken \subseteq Alarms
  /\ phone \in [Receipts -> {"unused", "ringing", "acked", "expired", "cancelled"}]
  /\ owner \in [Receipts -> Alarms \cup {None}]

(* An open alarm is never dropped without a trace: at any moment after the  *)
(* start-up query something is still working on it (a watcher, a send, a    *)
(* row of the resume loop), or a send gave up and logged "failed", or a     *)
(* database error that ended a task was logged (pushover.py: _watch_receipt *)
(* and _alarm_again hand the alarm to each other).                          *)
Sending(a) == \E t \in Tasks : Running(t) /\ task[t].alarm = a /\ task[t].kind \in SendKinds

NoAlarmForgotten ==
  phase \in {"resuming", "up"} =>
    \A a \in raised \ acked : Watched(a) \/ Sending(a) \/ a \in todo \cup gaveUp \cup broken

(* An alarm becomes acknowledged only because someone did so in the        *)
(* dashboard, or confirmed on the phone an emergency of that very alarm.   *)
AckedByUser ==
  [][\A a \in acked' \ acked :
       \/ WebAckAll \/ WebAck(a)
       \/ \E r \in Receipts : owner[r] = a /\ phone[r] = "acked"]_vars

(* The program silences a ringing phone only for an acknowledged alarm. *)
SilencedWhenAcked ==
  [][\A r \in Receipts :
       phone[r] = "ringing" /\ phone'[r] = "cancelled" => owner[r] \in acked]_vars

(* One alarm rings the phone with at most one emergency at a time: while    *)
(* one rings, Pushover repeats it and the program sends no other.           *)
OneEmergency ==
  \A r, s \in Receipts :
    phone[r] = "ringing" /\ phone[s] = "ringing" /\ owner[r] = owner[s] => r = s

(* A receipt that is being followed survives a restart (the comment at      *)
(* _STATE_KEY).                                                             *)
FollowedSurvivesRestart ==
  \A a \in Alarms : watcher[a].pc \in {"sleep", "poll"} /\ receipts[a] = watcher[a].rcpt
                     => saved[a] = watcher[a].rcpt

(* Whatever silences the phone or stops the program, an alarm that is open  *)
(* rings again and again until someone acknowledges it, unless a send gave  *)
(* up and logged that, or a database error that ended a task was logged.    *)
(* Fresh = {} is the bound on Receipts: those confirmed without the program *)
(* knowing of them (its answer was lost) are used up, and nothing can ring. *)
Rings(a) == \E r \in Receipts : phone[r] = "ringing" /\ owner[r] = a

EscalationNeverStops ==
  \A a \in Alarms :
    []<>(a \in raised => Rings(a) \/ a \in acked \cup gaveUp \cup broken \/ Fresh = {})

(* README.md: the phone rings until someone acknowledges, without exception. *)
RingsUntilAcked ==
  \A a \in Alarms : []<>(a \in raised => Rings(a) \/ a \in acked)

(* One acknowledgement, wherever it comes from, silences the phone for good *)
(* (Application._on_acknowledged).                                          *)
AckSilences ==
  \A a \in Alarms : a \in acked ~> []~Rings(a)

(* A confirmation on the phone reaches the database. *)
ConfirmReachesDatabase ==
  \A r \in Receipts, a \in Alarms :
    phone[r] = "acked" /\ owner[r] = a ~> a \in acked

(* The chain as the pager it is meant to be. *)
Due == {a \in Alarms : \E t \in Tasks : task[t].pc = "post" /\ task[t].alarm = a}
Confirmed(a) == \E r \in Receipts : phone[r] = "acked" /\ owner[r] = a
Bell == [a \in Alarms |-> IF Rings(a) THEN "ringing"
                          ELSE IF Confirmed(a) THEN "confirmed" ELSE "quiet"]

Promise == INSTANCE Pager WITH due <- Due, bell <- Bell
IsPager == Promise!Spec
=============================================================================
