--------------------------- MODULE PushoverProofs ---------------------------
(***************************************************************************)
(* Proofs about Pushover, for every set of alarms, receipts and tasks and  *)
(* for every set of Faults.                                                *)
(***************************************************************************)
EXTENDS Pushover, TLAPS

(***************************************************************************)
(* The inductive invariant.  Every receipt the process or the database     *)
(* mentions was sent for the alarm it is filed under; whoever is about to  *)
(* cancel a receipt does so for an acknowledged alarm; and a watcher that  *)
(* is about to acknowledge saw its receipt confirmed.                      *)
(***************************************************************************)

(* A map of receipts is right about whose receipt it holds. *)
Belongs(map) == \A a \in Alarms : map[a] # None => a \in raised /\ owner[map[a]] = a

MapsBelong ==
  /\ Belongs(receipts) /\ Belongs(saved)
  /\ \A a \in Alarms : Belongs(watcher[a].snap)
  /\ \A t \in Tasks : Belongs(task[t].snap)

TasksFit ==
  \A t \in Tasks : Running(t) =>
    /\ task[t].alarm \in raised
    /\ task[t].pc \in {"forget", "unsave", "cancel"} <=> task[t].kind = "cancel"
    /\ task[t].kind = "cancel" => task[t].alarm \in acked
    /\ task[t].pc \in {"log", "save", "forget", "unsave", "cancel"} =>
         task[t].rcpt \in Receipts /\ owner[task[t].rcpt] = task[t].alarm

WatchersFit ==
  \A a \in Alarms : Watched(a) =>
    /\ a \in raised
    /\ watcher[a].rcpt \in Receipts /\ owner[watcher[a].rcpt] = a
    /\ watcher[a].pc \in {"unsave", "cancel", "ackLog"} => a \in acked
    /\ watcher[a].pc \in {"ackSave", "ackDb"} => phone[watcher[a].rcpt] = "acked"

UsersFit ==
  /\ acked \subseteq raised /\ callbacks \subseteq acked /\ todo \subseteq raised
  /\ listed # None => listed \subseteq raised

IInv == TypeOK /\ MapsBelong /\ TasksFit /\ WatchersFit /\ UsersFit /\ NoAlarmForgotten

-----------------------------------------------------------------------------
(***************************************************************************)
(* Types, field by field, and the two operators the tasks are built with.  *)
(***************************************************************************)

(* A free slot is a task in its type.                                      *)
LEMMA NoTaskTyped == NoTask \in TaskType
BY PostAttemptsPositive DEF NoTask, TaskType, TaskPcs, SendKinds, NoReceipts, ReceiptMap

(* What _spawn and the sends start with is a task in its type.             *)
LEMMA NewTaskTyped ==
  ASSUME NEW kind \in SendKinds \cup {"cancel"}, NEW pc \in TaskPcs,
         NEW a \in Alarms, NEW r \in Receipts \cup {None}
  PROVE  NewTask(kind, pc, a, r) \in TaskType
BY PostAttemptsPositive DEF NewTask, TaskType, TaskPcs, SendKinds, NoReceipts, ReceiptMap

(* An absent and a new watcher are in their type.                          *)
LEMMA WatcherValuesTyped ==
  NoWatcher \in WatcherType /\ \A r \in Receipts \cup {None} : NewWatcher(r) \in WatcherType
BY DEF NoWatcher, NewWatcher, WatcherType, WatcherPcs, NoReceipts, ReceiptMap

(* The fields of a running task, one by one.                               *)
LEMMA TaskTyped ==
  ASSUME TypeOK, NEW t \in Tasks
  PROVE  /\ task[t].kind \in SendKinds \cup {"cancel"} /\ task[t].pc \in TaskPcs
         /\ task[t].alarm \in Alarms \cup {None} /\ task[t].rcpt \in Receipts \cup {None}
         /\ task[t].snap \in ReceiptMap /\ task[t].tries \in 0 .. PostAttempts
BY DEF TypeOK, TaskType

(* The fields of a watcher, one by one.                                    *)
LEMMA WatcherTyped ==
  ASSUME TypeOK, NEW a \in Alarms
  PROVE  /\ watcher[a].pc \in WatcherPcs /\ watcher[a].rcpt \in Receipts \cup {None}
         /\ watcher[a].snap \in ReceiptMap
BY DEF TypeOK, WatcherType

(* A spawned task takes a slot that was free; no other task notices. *)
Adds(new) ==
  \E s \in Tasks : ~Running(s) /\ task'[s] = new /\ \A u \in Tasks \ {s} : task'[u] = task[u]

(* A spawn takes a free slot and leaves every other task alone.            *)
LEMMA SpawnEffect ==
  ASSUME TypeOK, NEW new \in TaskType, SlotIsFree, task' = Spawned(new)
  PROVE  task' \in [Tasks -> TaskType] /\ Adds(new)
<1>1. FreeSlot \in Tasks /\ ~Running(FreeSlot)
  BY DEF SlotIsFree, FreeSlot
<1>2. QED
  BY <1>1 DEF Spawned, TypeOK, Adds

(* SpawnCancel either leaves the tasks alone or adds the cancellation of the *)
(* receipt the alarm has.                                                    *)
LEMMA SpawnCancelEffect ==
  ASSUME TypeOK, NEW a \in Alarms, SpawnCancel(a)
  PROVE  /\ task' \in [Tasks -> TaskType]
         /\ \/ task' = task
            \/ receipts[a] # None /\ Adds(NewTask("cancel", "forget", a, receipts[a]))
<1>1. CASE receipts[a] = None
  BY <1>1 DEF SpawnCancel, TypeOK
<1>2. CASE receipts[a] # None
  <2>1. receipts[a] \in Receipts \cup {None}
    BY DEF TypeOK, ReceiptMap
  <2>2. NewTask("cancel", "forget", a, receipts[a]) \in TaskType
    BY <2>1, NewTaskTyped DEF TaskPcs
  <2>3. QED
    BY <1>2, <2>2, SpawnEffect DEF SpawnCancel
<1>3. QED
  BY <1>1, <1>2

(* A failed attempt touches only the pc and the count of its own task. *)
LEMMA AttemptFailedEffect ==
  ASSUME TypeOK, NEW t \in Tasks, task[t].pc = "post", NEW final, AttemptFailed(t, final)
  PROVE  /\ task' \in [Tasks -> TaskType]
         /\ \A s \in Tasks :
              /\ task'[s].kind = task[s].kind /\ task'[s].alarm = task[s].alarm
              /\ task'[s].rcpt = task[s].rcpt /\ task'[s].snap = task[s].snap
              /\ task'[s].pc = task[s].pc \/ (s = t /\ task'[s].pc = "fail")
<1> USE DEF TypeOK
<1>1. CASE task' = [task EXCEPT ![t].tries = @ + 1] /\ task[t].tries < PostAttempts
  <2>1. task[t].tries + 1 \in 0 .. PostAttempts
    BY <1>1, PostAttemptsPositive, TaskTyped
  <2>2. task' \in [Tasks -> TaskType]
    BY <1>1, <2>1, TaskTyped DEF TaskType
  <2>3. QED
    BY <1>1, <2>2 DEF TaskType
<1>2. CASE task' = [task EXCEPT ![t].pc = "fail"]
  <2>1. task' \in [Tasks -> TaskType]
    BY <1>2, TaskTyped DEF TaskType, TaskPcs
  <2>2. QED
    BY <1>2, <2>1 DEF TaskType
<1>3. QED
  BY <1>1, <1>2 DEF AttemptFailed

Bells == {"unused", "ringing", "acked", "expired", "cancelled"}

(* What is left after a crash is typed.                                    *)
LEMMA HaltTyped ==
  ASSUME Halt
  PROVE  /\ phase' = "down" /\ receipts' \in ReceiptMap
         /\ watcher' \in [Alarms -> WatcherType] /\ task' \in [Tasks -> TaskType]
         /\ todo' = {} /\ callbacks' = {} /\ listed' = None /\ gaveUp' = {} /\ broken' = {}
BY NoTaskTyped, WatcherValuesTyped DEF Halt, NoReceipts, ReceiptMap

-----------------------------------------------------------------------------
(***************************************************************************)
(* What the longer actions do, field by field.                             *)
(***************************************************************************)

(* A new alarm adds one first send and changes no other task.              *)
LEMMA RaiseEffect ==
  ASSUME TypeOK, NEW a \in Alarms, Raise(a)
  PROVE  /\ task' \in [Tasks -> TaskType]
         /\ Adds(NewTask("first", "post", a, None))
BY NewTaskTyped, SpawnEffect DEF Raise, TaskPcs, SendKinds

(* A row of resume_open_alarms is skipped for its watcher, or gets a send. *)
LEMMA ResumeNextEffect ==
  ASSUME TypeOK, NEW a \in Alarms, ResumeNext(a)
  PROVE  /\ task' \in [Tasks -> TaskType]
         /\ \/ Watched(a) /\ task' = task
            \/ Adds(NewTask("resume", "post", a, None))
<1>1. CASE Watched(a)
  BY <1>1 DEF ResumeNext, TypeOK
<1>2. CASE ~Watched(a)
  BY <1>2, NewTaskTyped, SpawnEffect DEF ResumeNext, TaskPcs, SendKinds
<1>3. QED
  BY <1>1, <1>2

(* An expiry adds one resend and ends its own watcher.                     *)
LEMMA WatcherExpiredEffect ==
  ASSUME TypeOK, NEW a \in Alarms, WatcherExpired(a)
  PROVE  /\ task' \in [Tasks -> TaskType]
         /\ Adds(NewTask("again", "check", a, None))
BY NewTaskTyped, SpawnEffect DEF WatcherExpired, TaskPcs, SendKinds

(* _remember files one receipt and serialises the map with it.             *)
LEMMA SendLoggedEffect ==
  ASSUME TypeOK, NEW t \in Tasks, SendLogged(t)
  PROVE  /\ receipts' \in ReceiptMap /\ task' \in [Tasks -> TaskType]
         /\ \A a \in Alarms : receipts'[a] = IF a = task[t].alarm THEN task[t].rcpt ELSE receipts[a]
         /\ \A s \in Tasks \ {t} : task'[s] = task[s]
         /\ task'[t].kind = task[t].kind /\ task'[t].alarm = task[t].alarm
         /\ task'[t].rcpt = task[t].rcpt /\ task'[t].snap = receipts'
         /\ task[t].pc = "log" /\ task'[t].pc = "save"
<1>1. /\ receipts' \in ReceiptMap
      /\ \A a \in Alarms : receipts'[a] = IF a = task[t].alarm THEN task[t].rcpt ELSE receipts[a]
  BY TaskTyped DEF SendLogged, TypeOK, ReceiptMap
<1>2. task[t].pc = "log" /\ task' = [task EXCEPT ![t].pc = "save", ![t].snap = receipts']
  BY Zenon DEF SendLogged
<1>3. \A m \in ReceiptMap : [task[t] EXCEPT !.pc = "save", !.snap = m] \in TaskType
  <2>1. task[t] \in TaskType /\ "save" \in TaskPcs
    BY DEF TypeOK, TaskPcs
  <2>2. \A x \in TaskType, m \in ReceiptMap : [x EXCEPT !.pc = "save", !.snap = m] \in TaskType
    BY <2>1 DEF TaskType
  <2>3. QED
    BY <2>1, <2>2
<1>4. task' = [task EXCEPT ![t] = [task[t] EXCEPT !.pc = "save", !.snap = receipts']]
  BY <1>2 DEF TypeOK
<1>5. task' \in [Tasks -> TaskType]
  BY <1>1, <1>3, <1>4 DEF TypeOK
<1>6. QED
  BY <1>1, <1>2, <1>5 DEF TypeOK, TaskType

(* A failed resend goes back to its check; any other send ends in gaveUp.  *)
LEMMA SendFailedEffect ==
  ASSUME TypeOK, NEW t \in Tasks, SendFailed(t)
  PROVE  /\ task' \in [Tasks -> TaskType]
         /\ \A s \in Tasks \ {t} : task'[s] = task[s]
         /\ \/ /\ task[t].kind = "again" /\ task'[t].kind = "again" /\ task'[t].pc = "check"
               /\ task'[t].alarm = task[t].alarm /\ task'[t].snap = task[t].snap
               /\ gaveUp' = gaveUp
            \/ task'[t] = NoTask /\ gaveUp' = gaveUp \cup {task[t].alarm}
<1>1. CASE task[t].kind = "again"
  BY <1>1, TaskTyped, PostAttemptsPositive DEF SendFailed, TypeOK, TaskType, TaskPcs
<1>2. CASE task[t].kind # "again"
  BY <1>2, NoTaskTyped DEF SendFailed, TypeOK
<1>3. QED
  BY <1>1, <1>2

(* _alarm_again ends, or posts for an alarm that was open and unwatched.   *)
LEMMA AgainCheckedEffect ==
  ASSUME TypeOK, NEW t \in Tasks, AgainChecked(t)
  PROVE  /\ task' \in [Tasks -> TaskType]
         /\ \A s \in Tasks \ {t} : task'[s] = task[s]
         /\ \/ task'[t] = NoTask /\ (task[t].alarm \in acked \/ Watched(task[t].alarm))
            \/ /\ task'[t].kind = task[t].kind /\ task'[t].pc = "post"
               /\ task'[t].alarm = task[t].alarm /\ task'[t].snap = task[t].snap
<1>1. CASE task[t].alarm \in acked \/ Watched(task[t].alarm)
  BY <1>1, NoTaskTyped DEF AgainChecked, TypeOK
<1>2. CASE ~(task[t].alarm \in acked \/ Watched(task[t].alarm))
  BY <1>2, TaskTyped, PostAttemptsPositive DEF AgainChecked, TypeOK, TaskType, TaskPcs
<1>3. QED
  BY <1>1, <1>2

(* _forget of a cancellation drops at most the receipt of its own alarm.   *)
LEMMA CancelForgotEffect ==
  ASSUME TypeOK, NEW t \in Tasks, CancelForgot(t)
  PROVE  /\ receipts' \in ReceiptMap /\ task' \in [Tasks -> TaskType]
         /\ \A a \in Alarms : receipts'[a] \in {None, receipts[a]}
         /\ \A s \in Tasks \ {t} : task'[s] = task[s]
         /\ task'[t].kind = task[t].kind /\ task'[t].alarm = task[t].alarm
         /\ task'[t].rcpt = task[t].rcpt /\ task'[t].pc \in {"unsave", "cancel"}
         /\ task'[t].snap \in {task[t].snap, receipts'}
<1>1. /\ receipts' \in ReceiptMap
      /\ \A a \in Alarms : receipts'[a] \in {None, receipts[a]}
  BY TaskTyped DEF CancelForgot, Without, TypeOK, ReceiptMap
<1>2. CASE receipts[task[t].alarm] = None
  BY <1>1, <1>2 DEF CancelForgot, TypeOK, TaskType, TaskPcs
<1>3. CASE receipts[task[t].alarm] # None
  <2>1. task' \in [Tasks -> TaskType]
    BY <1>1, <1>3 DEF CancelForgot, TypeOK, TaskType, TaskPcs
  <2>2. QED
    BY <1>1, <1>3, <2>1 DEF CancelForgot, TypeOK, TaskType
<1>4. QED
  BY <1>2, <1>3

(* _forget of a watcher drops at most the receipt of its own alarm.        *)
LEMMA WatcherForgetsEffect ==
  ASSUME TypeOK, NEW a \in Alarms, NEW pcSaving \in WatcherPcs, NEW pc \in WatcherPcs,
         WatcherForgets(a, pcSaving, pc)
  PROVE  /\ receipts' \in ReceiptMap /\ watcher' \in [Alarms -> WatcherType]
         /\ \A b \in Alarms : receipts'[b] \in {None, receipts[b]}
         /\ \A b \in Alarms \ {a} : watcher'[b] = watcher[b]
         /\ watcher'[a].rcpt = watcher[a].rcpt
         /\ watcher'[a].pc \in {pcSaving, pc} /\ watcher'[a].snap \in {watcher[a].snap, receipts'}
<1>1. /\ receipts' \in ReceiptMap
      /\ \A b \in Alarms : receipts'[b] \in {None, receipts[b]}
  BY DEF WatcherForgets, Without, TypeOK, ReceiptMap
<1>2. CASE receipts[a] = None
  BY <1>1, <1>2 DEF WatcherForgets, TypeOK, WatcherType
<1>3. CASE receipts[a] # None
  <2>1. watcher' \in [Alarms -> WatcherType]
    BY <1>1, <1>3 DEF WatcherForgets, TypeOK, WatcherType
  <2>2. QED
    BY <1>1, <1>3, <2>1 DEF WatcherForgets, TypeOK, WatcherType
<1>4. QED
  BY <1>2, <1>3

(* A watcher that looked polls on, or leaves for an acknowledged alarm.    *)
LEMMA WatcherCheckedEffect ==
  ASSUME TypeOK, NEW a \in Alarms, WatcherChecked(a)
  PROVE  /\ receipts' \in ReceiptMap /\ watcher' \in [Alarms -> WatcherType]
         /\ \A b \in Alarms : receipts'[b] \in {None, receipts[b]}
         /\ \A b \in Alarms \ {a} : watcher'[b] = watcher[b]
         /\ watcher'[a].rcpt = watcher[a].rcpt /\ watcher'[a].snap \in {watcher[a].snap, receipts'}
         /\ (watcher'[a].pc \in {"unsave", "cancel"} /\ a \in acked) \/ watcher'[a].pc = "poll"
<1>1. CASE a \in acked
  BY <1>1, WatcherForgetsEffect DEF WatcherChecked, WatcherPcs, SavingPcs
<1>2. CASE a \notin acked
  <2>1. watcher' \in [Alarms -> WatcherType]
    BY <1>2 DEF WatcherChecked, TypeOK, WatcherType, WatcherPcs
  <2>2. QED
    BY <1>2, <2>1 DEF WatcherChecked, TypeOK, WatcherType
<1>3. QED
  BY <1>1, <1>2

(* A poll ends in confirmed, in expired, or in another sleep.              *)
LEMMA WatcherPolledEffect ==
  ASSUME TypeOK, NEW a \in Alarms, WatcherPolled(a)
  PROVE  /\ receipts' \in ReceiptMap /\ watcher' \in [Alarms -> WatcherType]
         /\ \A b \in Alarms : receipts'[b] \in {None, receipts[b]}
         /\ \A b \in Alarms \ {a} : watcher'[b] = watcher[b]
         /\ watcher'[a].rcpt = watcher[a].rcpt /\ watcher'[a].snap \in {watcher[a].snap, receipts'}
         /\ \/ watcher'[a].pc \in {"ackSave", "ackDb"} /\ phone[watcher[a].rcpt] = "acked"
            \/ watcher'[a].pc \in {"expSave", "expLog", "sleep"}
<1>1. CASE WatcherForgets(a, "ackSave", "ackDb") /\ phone[watcher[a].rcpt] = "acked"
  BY <1>1, WatcherForgetsEffect DEF WatcherPcs, SavingPcs
<1>2. CASE WatcherForgets(a, "expSave", "expLog")
  BY <1>2, WatcherForgetsEffect DEF WatcherPcs, SavingPcs
<1>3. CASE watcher' = [watcher EXCEPT ![a].pc = "sleep"] /\ UNCHANGED receipts
  <2>1. watcher' \in [Alarms -> WatcherType]
    BY <1>3 DEF TypeOK, WatcherType, WatcherPcs
  <2>2. QED
    BY <1>3, <2>1 DEF TypeOK, WatcherType
<1>4. QED
  BY <1>1, <1>2, <1>3 DEF WatcherPolled

(* A lost answer rings a fresh receipt and counts as a failed attempt.     *)
LEMMA PostAnswerLostEffect ==
  ASSUME TypeOK, NEW t \in Tasks, PostAnswerLost(t)
  PROVE  /\ task' \in [Tasks -> TaskType] /\ task[t].pc = "post"
         /\ \A s \in Tasks :
              /\ task'[s].kind = task[s].kind /\ task'[s].alarm = task[s].alarm
              /\ task'[s].rcpt = task[s].rcpt /\ task'[s].snap = task[s].snap
              /\ task'[s].pc = task[s].pc \/ (s = t /\ task'[s].pc = "fail")
         /\ \E r \in Receipts :
              /\ phone[r] # "acked" /\ ~Referenced(r)
              /\ \A s \in Receipts \ {r} : owner'[s] = owner[s] /\ phone'[s] = phone[s]
<1>1. PICK r \in Fresh : RingNew(r, task[t].alarm)
  BY DEF PostAnswerLost
<1>2. r \in Receipts /\ phone[r] # "acked" /\ ~Referenced(r)
  BY <1>1 DEF Fresh
<1>3. \A s \in Receipts \ {r} : owner'[s] = owner[s] /\ phone'[s] = phone[s]
  BY <1>1, <1>2 DEF RingNew, TypeOK
<1>4. AttemptFailed(t, FALSE) /\ task[t].pc = "post"
  BY DEF PostAnswerLost
<1>5. QED
  BY <1>2, <1>3, <1>4, AttemptFailedEffect

-----------------------------------------------------------------------------
(***************************************************************************)
(* Every step keeps each part of the invariant.                            *)
(***************************************************************************)

(* Every step keeps the types. *)
LEMMA TypeStep ==
  ASSUME IInv, [Next]_vars PROVE TypeOK'
<1> USE DEF IInv, TypeOK, dbVars, chainVars, startVars, webVars, logVars, phoneVars
<1>1. ASSUME NEW a \in Alarms, Raise(a) PROVE TypeOK'
  BY <1>1, RaiseEffect DEF Raise
<1>2. ASSUME NEW t \in Tasks, PostAccepted(t) PROVE TypeOK'
  <2>1. PICK r \in Fresh : /\ RingNew(r, task[t].alarm)
                          /\ task' = [task EXCEPT ![t].pc = "log", ![t].rcpt = r]
    BY <1>2 DEF PostAccepted
  <2>2. r \in Receipts
    BY DEF Fresh
  <2>3. task' \in [Tasks -> TaskType]
    <3>1. [task[t] EXCEPT !.pc = "log", !.rcpt = r] \in TaskType
      BY <2>2 DEF TaskType, TaskPcs
    <3>2. QED
      BY <2>1, <3>1
  <2>4. phone' \in [Receipts -> Bells] /\ owner' \in [Receipts -> Alarms \cup {None}]
    BY <2>1, <2>2, TaskTyped DEF RingNew, Bells
  <2>5. QED
    BY <1>2, <2>3, <2>4 DEF PostAccepted, Bells
<1>3. ASSUME NEW t \in Tasks, PostFailed(t) PROVE TypeOK'
  BY <1>3, AttemptFailedEffect DEF PostFailed
<1>4. ASSUME NEW t \in Tasks, PostAnswerLost(t) PROVE TypeOK'
  <2>1. PICK r \in Fresh : RingNew(r, task[t].alarm)
    BY <1>4 DEF PostAnswerLost
  <2>2. r \in Receipts
    BY DEF Fresh
  <2>3. phone' \in [Receipts -> Bells] /\ owner' \in [Receipts -> Alarms \cup {None}]
    BY <2>1, <2>2, TaskTyped DEF RingNew, Bells
  <2>4. QED
    BY <1>4, <2>3, PostAnswerLostEffect DEF PostAnswerLost, Bells
<1>5. ASSUME NEW t \in Tasks, SendLogged(t) PROVE TypeOK'
  BY <1>5, SendLoggedEffect DEF SendLogged
<1>6. ASSUME NEW t \in Tasks, SendSaved(t) PROVE TypeOK'
  <2>1. task' \in [Tasks -> TaskType] /\ watcher' \in [Alarms -> WatcherType]
    BY <1>6, NoTaskTyped, WatcherValuesTyped, TaskTyped DEF SendSaved
  <2>2. QED
    BY <1>6, <2>1, TaskTyped DEF SendSaved
<1>7. ASSUME NEW t \in Tasks, SendFailed(t) PROVE TypeOK'
  BY <1>7, SendFailedEffect DEF SendFailed, TasksFit, Running
<1>8. ASSUME NEW t \in Tasks, AgainChecked(t) PROVE TypeOK'
  BY <1>8, AgainCheckedEffect DEF AgainChecked
<1>9. ASSUME NEW t \in Tasks, CancelForgot(t) PROVE TypeOK'
  BY <1>9, CancelForgotEffect DEF CancelForgot
<1>10. ASSUME NEW t \in Tasks, CancelSaved(t) PROVE TypeOK'
  <2>1. NoReceipts \in ReceiptMap
    BY DEF NoReceipts, ReceiptMap
  <2>2. task' \in [Tasks -> TaskType]
    <3>1. [task[t] EXCEPT !.pc = "cancel", !.snap = NoReceipts] \in TaskType
      BY <2>1 DEF TaskType, TaskPcs
    <3>2. QED
      BY <1>10, <3>1 DEF CancelSaved
  <2>3. QED
    BY <1>10, <2>2, TaskTyped DEF CancelSaved
<1>11. ASSUME NEW t \in Tasks, CancelPosted(t) PROVE TypeOK'
  BY <1>11, NoTaskTyped DEF CancelPosted, Revoked
<1>12. ASSUME NEW t \in Tasks, TaskBreaks(t) PROVE TypeOK'
  <2>1. CASE Halt
    BY <1>12, <2>1, HaltTyped DEF TaskBreaks
  <2>2. CASE ~Halt
    BY <1>12, <2>2, NoTaskTyped DEF TaskBreaks, TasksFit, Running
  <2>3. QED
    BY <2>1, <2>2
<1>13. ASSUME NEW a \in Alarms, WatcherChecked(a) PROVE TypeOK'
  BY <1>13, WatcherCheckedEffect DEF WatcherChecked
<1>14. ASSUME NEW a \in Alarms, WatcherPollFailed(a) PROVE TypeOK'
  <2>1. watcher' \in [Alarms -> WatcherType]
    BY <1>14 DEF WatcherPollFailed, WatcherType, WatcherPcs
  <2>2. QED
    BY <1>14, <2>1 DEF WatcherPollFailed
<1>15. ASSUME NEW a \in Alarms, WatcherPolled(a) PROVE TypeOK'
  BY <1>15, WatcherPolledEffect DEF WatcherPolled
<1>16. ASSUME NEW a \in Alarms, WatcherSaved(a) PROVE TypeOK'
  <2>1. NoReceipts \in ReceiptMap
    BY DEF NoReceipts, ReceiptMap
  <2>2. watcher' \in [Alarms -> WatcherType]
    BY <1>16, <2>1 DEF WatcherSaved, WatcherType, WatcherPcs, SavingPcs
  <2>3. QED
    BY <1>16, <2>2, WatcherTyped DEF WatcherSaved
<1>17. ASSUME NEW a \in Alarms, WatcherRevoked(a) PROVE TypeOK'
  BY <1>17, WatcherValuesTyped DEF WatcherRevoked, Revoked
<1>18. ASSUME NEW a \in Alarms, WatcherAcked(a) PROVE TypeOK'
  <2>1. watcher' \in [Alarms -> WatcherType]
    BY <1>18 DEF WatcherAcked, WatcherType, WatcherPcs
  <2>2. QED
    BY <1>18, <2>1 DEF WatcherAcked
<1>19. ASSUME NEW a \in Alarms, WatcherAckLogged(a) PROVE TypeOK'
  BY <1>19, WatcherValuesTyped, SpawnCancelEffect DEF WatcherAckLogged
<1>20. ASSUME NEW a \in Alarms, WatcherExpired(a) PROVE TypeOK'
  BY <1>20, WatcherValuesTyped, WatcherExpiredEffect DEF WatcherExpired
<1>21. ASSUME NEW a \in Alarms, WatcherBreaks(a) PROVE TypeOK'
  BY <1>21, WatcherValuesTyped DEF WatcherBreaks
<1>22. ASSUME NEW a \in Alarms, WebAck(a) PROVE TypeOK'
  BY <1>22 DEF WebAck
<1>23. ASSUME NEW a \in Alarms, WebCallback(a) PROVE TypeOK'
  BY <1>23, WatcherValuesTyped, WatcherTyped, SpawnCancelEffect DEF WebCallback, CancelFor
<1>24. ASSUME WebListOpen PROVE TypeOK'
  BY <1>24 DEF WebListOpen
<1>25. ASSUME WebAckAll PROVE TypeOK'
  BY <1>25 DEF WebAckAll
<1>26. ASSUME Start PROVE TypeOK'
  BY <1>26, WatcherValuesTyped DEF Start, ReceiptMap
<1>27. ASSUME ResumeRead PROVE TypeOK'
  BY <1>27 DEF ResumeRead
<1>28. ASSUME ResumeDone PROVE TypeOK'
  BY <1>28 DEF ResumeDone
<1>29. ASSUME NEW a \in Alarms, ResumeNext(a) PROVE TypeOK'
  BY <1>29, ResumeNextEffect DEF ResumeNext
<1>30. ASSUME NEW r \in Receipts, PhoneAcks(r) PROVE TypeOK'
  BY <1>30 DEF PhoneAcks
<1>31. ASSUME NEW r \in Receipts, PhoneExpires(r) PROVE TypeOK'
  BY <1>31 DEF PhoneExpires
<1>32. ASSUME Crash PROVE TypeOK'
  BY <1>32, HaltTyped DEF Crash
<1>33. CASE UNCHANGED vars
  BY <1>33 DEF vars
<1>34. QED
  BY <1>1, <1>2, <1>3, <1>4, <1>5, <1>6, <1>7, <1>8, <1>9, <1>10, <1>11, <1>12, <1>13, <1>14,
       <1>15, <1>16, <1>17, <1>18, <1>19, <1>20, <1>21, <1>22, <1>23, <1>24, <1>25, <1>26,
       <1>27, <1>28, <1>29, <1>30, <1>31, <1>32, <1>33 DEF Next, TaskStep, WatcherStep, WebStep,
       StartStep

(* Every step files receipts under their own alarm: a new receipt is one   *)
(* that nothing mentions, so no map changes its meaning when it is sent.   *)
LEMMA MapsStep ==
  ASSUME IInv, [Next]_vars PROVE MapsBelong'
<1> USE DEF IInv, MapsBelong, Belongs, TasksFit, WatchersFit, Running, Watched, dbVars,
     chainVars, startVars, webVars, logVars, phoneVars
<1>1. ASSUME NEW a \in Alarms, Raise(a) PROVE MapsBelong'
  <2>1. /\ UNCHANGED <<acked, saved, receipts, watcher, startVars, webVars, logVars, phoneVars>>
        /\ raised' = raised \cup {a}
    BY <1>1 DEF Raise
  <2>2. PICK s \in Tasks : /\ ~Running(s) /\ task'[s] = NewTask("first", "post", a, None)
                          /\ \A u \in Tasks \ {s} : task'[u] = task[u]
    BY <1>1, RaiseEffect DEF Adds
  <2>3. QED
    BY <2>1, <2>2 DEF NewTask, NoReceipts
<1>2. ASSUME NEW t \in Tasks, PostAccepted(t) PROVE MapsBelong'
  BY <1>2 DEF PostAccepted, RingNew, Fresh, Referenced, Mentions, TypeOK
<1>3. ASSUME NEW t \in Tasks, PostFailed(t) PROVE MapsBelong'
  BY <1>3, AttemptFailedEffect DEF PostFailed
<1>4. ASSUME NEW t \in Tasks, PostAnswerLost(t) PROVE MapsBelong'
  <2>1. UNCHANGED <<dbVars, receipts, watcher, startVars, webVars, logVars>>
    BY <1>4 DEF PostAnswerLost
  <2>2. PICK r \in Receipts :
          /\ phone[r] # "acked" /\ ~Referenced(r)
          /\ \A s \in Receipts \ {r} : owner'[s] = owner[s] /\ phone'[s] = phone[s]
    BY <1>4, PostAnswerLostEffect
  <2>3. /\ task[t].pc = "post"
        /\ \A s \in Tasks :
             /\ task'[s].kind = task[s].kind /\ task'[s].alarm = task[s].alarm
             /\ task'[s].rcpt = task[s].rcpt /\ task'[s].snap = task[s].snap
             /\ task'[s].pc = task[s].pc \/ (s = t /\ task'[s].pc = "fail")
    BY <1>4, PostAnswerLostEffect
  <2>4. QED
    BY <2>1, <2>2, <2>3 DEF Referenced, Mentions, TypeOK, ReceiptMap, WatcherType, TaskType
<1>5. ASSUME NEW t \in Tasks, SendLogged(t) PROVE MapsBelong'
  <2>1. UNCHANGED <<dbVars, watcher, startVars, webVars, logVars, phoneVars>>
    BY <1>5 DEF SendLogged
  <2>2. QED
    BY <1>5, <2>1, SendLoggedEffect
<1>6. ASSUME NEW t \in Tasks, SendSaved(t) PROVE MapsBelong'
  BY <1>6 DEF SendSaved, NoTask, NewWatcher, NoReceipts
<1>7. ASSUME NEW t \in Tasks, SendFailed(t) PROVE MapsBelong'
  <2>1. UNCHANGED <<dbVars, receipts, watcher, startVars, webVars, broken, phoneVars>>
    BY <1>7 DEF SendFailed
  <2>2. QED
    BY <1>7, <2>1, SendFailedEffect DEF NoTask, NoReceipts
<1>8. ASSUME NEW t \in Tasks, AgainChecked(t) PROVE MapsBelong'
  <2>1. /\ UNCHANGED <<dbVars, receipts, watcher, startVars, webVars, logVars, phoneVars>>
        /\ task[t].pc = "check"
    BY <1>8 DEF AgainChecked
  <2>2. QED
    BY <1>8, <2>1, AgainCheckedEffect DEF NoTask, NoReceipts
<1>9. ASSUME NEW t \in Tasks, CancelForgot(t) PROVE MapsBelong'
  BY <1>9, CancelForgotEffect DEF CancelForgot
<1>10. ASSUME NEW t \in Tasks, CancelSaved(t) PROVE MapsBelong'
  BY <1>10 DEF CancelSaved, TypeOK, NoReceipts
<1>11. ASSUME NEW t \in Tasks, CancelPosted(t) PROVE MapsBelong'
  BY <1>11 DEF CancelPosted, Revoked, NoTask, NoReceipts
<1>12. ASSUME NEW t \in Tasks, TaskBreaks(t) PROVE MapsBelong'
  <2>1. CASE Halt
    BY <1>12, <2>1 DEF TaskBreaks, Halt, NoTask, NoWatcher, NoReceipts
  <2>2. CASE ~Halt
    BY <1>12, <2>2 DEF TaskBreaks, NoTask, NoReceipts, TypeOK
  <2>3. QED
    BY <2>1, <2>2
<1>13. ASSUME NEW a \in Alarms, WatcherChecked(a) PROVE MapsBelong'
  <2>1. /\ UNCHANGED <<dbVars, task, startVars, webVars, logVars, phoneVars>>
        /\ watcher[a].pc = "sleep"
    BY <1>13 DEF WatcherChecked
  <2>2. QED
    BY <1>13, <2>1, WatcherCheckedEffect
<1>14. ASSUME NEW a \in Alarms, WatcherPollFailed(a) PROVE MapsBelong'
  BY <1>14 DEF WatcherPollFailed
<1>15. ASSUME NEW a \in Alarms, WatcherPolled(a) PROVE MapsBelong'
  <2>1. /\ UNCHANGED <<dbVars, task, startVars, webVars, logVars, phoneVars>>
        /\ watcher[a].pc = "poll"
    BY <1>15 DEF WatcherPolled
  <2>2. QED
    BY <1>15, <2>1, WatcherPolledEffect
<1>16. ASSUME NEW a \in Alarms, WatcherSaved(a) PROVE MapsBelong'
  BY <1>16 DEF WatcherSaved, SavingPcs, TypeOK, NoReceipts
<1>17. ASSUME NEW a \in Alarms, WatcherRevoked(a) PROVE MapsBelong'
  BY <1>17 DEF WatcherRevoked, Revoked, NoWatcher, NoReceipts
<1>18. ASSUME NEW a \in Alarms, WatcherAcked(a) PROVE MapsBelong'
  BY <1>18 DEF WatcherAcked
<1>19. ASSUME NEW a \in Alarms, WatcherAckLogged(a) PROVE MapsBelong'
  <2>1. /\ UNCHANGED <<dbVars, receipts, phoneVars>>
        /\ watcher' = [watcher EXCEPT ![a] = NoWatcher]
    BY <1>19 DEF WatcherAckLogged
  <2>2. \A b \in Alarms : watcher'[b].snap \in {watcher[b].snap, NoReceipts}
    BY <2>1 DEF TypeOK, NoWatcher
  <2>3. \A s \in Tasks : task'[s].snap \in {task[s].snap, NoReceipts}
    <3>1. task' = task \/ Adds(NewTask("cancel", "forget", a, receipts[a]))
      BY <1>19, SpawnCancelEffect DEF WatcherAckLogged
    <3>2. QED
      BY <3>1 DEF Adds, NewTask
  <2>4. QED
    BY <2>1, <2>2, <2>3 DEF NoReceipts
<1>20. ASSUME NEW a \in Alarms, WatcherExpired(a) PROVE MapsBelong'
  <2>1. /\ UNCHANGED <<dbVars, receipts, startVars, webVars, logVars, phoneVars>>
        /\ watcher' = [watcher EXCEPT ![a] = NoWatcher] /\ watcher[a].pc = "expLog"
    BY <1>20 DEF WatcherExpired
  <2>2. PICK s \in Tasks : /\ ~Running(s) /\ task'[s] = NewTask("again", "check", a, None)
                          /\ \A u \in Tasks \ {s} : task'[u] = task[u]
    BY <1>20, WatcherExpiredEffect DEF Adds
  <2>3. QED
    BY <2>1, <2>2 DEF NewTask, NoReceipts, NoWatcher, TypeOK
<1>21. ASSUME NEW a \in Alarms, WatcherBreaks(a) PROVE MapsBelong'
  BY <1>21 DEF WatcherBreaks, NoWatcher, NoReceipts
<1>22. ASSUME NEW a \in Alarms, WebAck(a) PROVE MapsBelong'
  BY <1>22 DEF WebAck
<1>23. ASSUME NEW a \in Alarms, WebCallback(a) PROVE MapsBelong'
  <2>1. /\ UNCHANGED <<raised, receipts, phoneVars>>
        /\ watcher' \in {watcher, [watcher EXCEPT ![a] = NoWatcher]}
        /\ saved' \in {saved, watcher[a].snap}
    BY <1>23 DEF WebCallback, CancelFor
  <2>2. \A b \in Alarms : watcher'[b].snap \in {watcher[b].snap, NoReceipts}
    BY <2>1 DEF TypeOK, NoWatcher
  <2>3. \A s \in Tasks : task'[s].snap \in {task[s].snap, NoReceipts}
    <3>1. task' = task \/ Adds(NewTask("cancel", "forget", a, receipts[a]))
      BY <1>23, SpawnCancelEffect DEF WebCallback, CancelFor
    <3>2. QED
      BY <3>1 DEF Adds, NewTask
  <2>4. QED
    BY <2>1, <2>2, <2>3 DEF NoReceipts
<1>24. ASSUME WebListOpen PROVE MapsBelong'
  BY <1>24 DEF WebListOpen
<1>25. ASSUME WebAckAll PROVE MapsBelong'
  BY <1>25 DEF WebAckAll
<1>26. ASSUME Start PROVE MapsBelong'
  BY <1>26 DEF Start, NewWatcher, NoWatcher, NoReceipts
<1>27. ASSUME ResumeRead PROVE MapsBelong'
  BY <1>27 DEF ResumeRead
<1>28. ASSUME ResumeDone PROVE MapsBelong'
  BY <1>28 DEF ResumeDone
<1>29. ASSUME NEW a \in Alarms, ResumeNext(a) PROVE MapsBelong'
  <2>1. /\ UNCHANGED <<dbVars, receipts, watcher, phase, webVars, logVars, phoneVars>>
        /\ todo' = todo \ {a} /\ a \in todo
    BY <1>29 DEF ResumeNext
  <2>2. CASE task' = task /\ Watched(a)
    BY <2>1, <2>2
  <2>3. CASE Adds(NewTask("resume", "post", a, None))
    <3>1. PICK s \in Tasks : /\ ~Running(s) /\ task'[s] = NewTask("resume", "post", a, None)
                            /\ \A u \in Tasks \ {s} : task'[u] = task[u]
      BY <2>3 DEF Adds
    <3>2. QED
      BY <2>1, <3>1 DEF NewTask, NoReceipts
  <2>4. QED
    BY <1>29, <2>2, <2>3, ResumeNextEffect
<1>30. ASSUME NEW r \in Receipts, PhoneAcks(r) PROVE MapsBelong'
  BY <1>30 DEF PhoneAcks
<1>31. ASSUME NEW r \in Receipts, PhoneExpires(r) PROVE MapsBelong'
  BY <1>31 DEF PhoneExpires
<1>32. ASSUME Crash PROVE MapsBelong'
  BY <1>32 DEF Crash, Halt, NoTask, NoWatcher, NoReceipts
<1>33. CASE UNCHANGED vars
  BY <1>33 DEF vars
<1>34. QED
  BY <1>1, <1>2, <1>3, <1>4, <1>5, <1>6, <1>7, <1>8, <1>9, <1>10, <1>11, <1>12, <1>13, <1>14,
       <1>15, <1>16, <1>17, <1>18, <1>19, <1>20, <1>21, <1>22, <1>23, <1>24, <1>25, <1>26,
       <1>27, <1>28, <1>29, <1>30, <1>31, <1>32, <1>33 DEF Next, TaskStep, WatcherStep, WebStep,
       StartStep

(* Every step keeps the tasks consistent: a cancellation is spawned for an *)
(* acknowledged alarm with the receipt filed under that alarm.             *)
LEMMA TasksStep ==
  ASSUME IInv, [Next]_vars PROVE TasksFit'
<1> USE DEF IInv, TasksFit, UsersFit, Belongs, MapsBelong, Running, Watched, WatchersFit,
     dbVars, chainVars, startVars, webVars, logVars, phoneVars
<1>1. ASSUME NEW a \in Alarms, Raise(a) PROVE TasksFit'
  <2>1. /\ UNCHANGED <<acked, saved, receipts, watcher, startVars, webVars, logVars, phoneVars>>
        /\ raised' = raised \cup {a}
    BY <1>1 DEF Raise
  <2>2. PICK s \in Tasks : /\ ~Running(s) /\ task'[s] = NewTask("first", "post", a, None)
                          /\ \A u \in Tasks \ {s} : task'[u] = task[u]
    BY <1>1, RaiseEffect DEF Adds
  <2>3. QED
    BY <2>1, <2>2 DEF NewTask, NoReceipts
<1>2. ASSUME NEW t \in Tasks, PostAccepted(t) PROVE TasksFit'
  BY <1>2 DEF PostAccepted, RingNew, Fresh, Referenced, Mentions, TypeOK
<1>3. ASSUME NEW t \in Tasks, PostFailed(t) PROVE TasksFit'
  BY <1>3, AttemptFailedEffect DEF PostFailed
<1>4. ASSUME NEW t \in Tasks, PostAnswerLost(t) PROVE TasksFit'
  <2>1. UNCHANGED <<dbVars, receipts, watcher, startVars, webVars, logVars>>
    BY <1>4 DEF PostAnswerLost
  <2>2. PICK r \in Receipts :
          /\ phone[r] # "acked" /\ ~Referenced(r)
          /\ \A s \in Receipts \ {r} : owner'[s] = owner[s] /\ phone'[s] = phone[s]
    BY <1>4, PostAnswerLostEffect
  <2>3. /\ task[t].pc = "post"
        /\ \A s \in Tasks :
             /\ task'[s].kind = task[s].kind /\ task'[s].alarm = task[s].alarm
             /\ task'[s].rcpt = task[s].rcpt /\ task'[s].snap = task[s].snap
             /\ task'[s].pc = task[s].pc \/ (s = t /\ task'[s].pc = "fail")
    BY <1>4, PostAnswerLostEffect
  <2>4. QED
    BY <2>1, <2>2, <2>3 DEF Referenced, Mentions
<1>5. ASSUME NEW t \in Tasks, SendLogged(t) PROVE TasksFit'
  <2>1. UNCHANGED <<dbVars, watcher, startVars, webVars, logVars, phoneVars>>
    BY <1>5 DEF SendLogged
  <2>2. QED
    BY <1>5, <2>1, SendLoggedEffect
<1>6. ASSUME NEW t \in Tasks, SendSaved(t) PROVE TasksFit'
  BY <1>6 DEF SendSaved, NoTask, NewWatcher
<1>7. ASSUME NEW t \in Tasks, SendFailed(t) PROVE TasksFit'
  <2>1. /\ UNCHANGED <<raised, acked, owner>>
        /\ task[t].pc = "fail"
    BY <1>7 DEF SendFailed
  <2>2. CASE task'[t] = NoTask
    BY <1>7, <2>1, <2>2, SendFailedEffect DEF NoTask
  <2>3. CASE /\ task[t].kind = "again" /\ task'[t].kind = "again" /\ task'[t].pc = "check"
             /\ task'[t].alarm = task[t].alarm
    BY <1>7, <2>1, <2>3, SendFailedEffect
  <2>4. QED
    BY <1>7, <2>2, <2>3, SendFailedEffect
<1>8. ASSUME NEW t \in Tasks, AgainChecked(t) PROVE TasksFit'
  <2>1. /\ UNCHANGED <<dbVars, receipts, watcher, startVars, webVars, logVars, phoneVars>>
        /\ task[t].pc = "check"
    BY <1>8 DEF AgainChecked
  <2>2. QED
    BY <1>8, <2>1, AgainCheckedEffect DEF NoTask, NoReceipts
<1>9. ASSUME NEW t \in Tasks, CancelForgot(t) PROVE TasksFit'
  BY <1>9, CancelForgotEffect DEF CancelForgot
<1>10. ASSUME NEW t \in Tasks, CancelSaved(t) PROVE TasksFit'
  BY <1>10 DEF CancelSaved, TypeOK
<1>11. ASSUME NEW t \in Tasks, CancelPosted(t) PROVE TasksFit'
  BY <1>11 DEF CancelPosted, Revoked, NoTask
<1>12. ASSUME NEW t \in Tasks, TaskBreaks(t) PROVE TasksFit'
  <2>1. CASE Halt
    BY <1>12, <2>1 DEF TaskBreaks, Halt, NoTask, NoWatcher, NoReceipts
  <2>2. CASE ~Halt
    BY <1>12, <2>2 DEF TaskBreaks, NoTask, NoReceipts, TypeOK
  <2>3. QED
    BY <2>1, <2>2
<1>13. ASSUME NEW a \in Alarms, WatcherChecked(a) PROVE TasksFit'
  <2>1. /\ UNCHANGED <<dbVars, task, startVars, webVars, logVars, phoneVars>>
        /\ watcher[a].pc = "sleep"
    BY <1>13 DEF WatcherChecked
  <2>2. QED
    BY <1>13, <2>1, WatcherCheckedEffect
<1>14. ASSUME NEW a \in Alarms, WatcherPollFailed(a) PROVE TasksFit'
  BY <1>14 DEF WatcherPollFailed
<1>15. ASSUME NEW a \in Alarms, WatcherPolled(a) PROVE TasksFit'
  <2>1. /\ UNCHANGED <<dbVars, task, startVars, webVars, logVars, phoneVars>>
        /\ watcher[a].pc = "poll"
    BY <1>15 DEF WatcherPolled
  <2>2. QED
    BY <1>15, <2>1, WatcherPolledEffect
<1>16. ASSUME NEW a \in Alarms, WatcherSaved(a) PROVE TasksFit'
  BY <1>16 DEF WatcherSaved, SavingPcs
<1>17. ASSUME NEW a \in Alarms, WatcherRevoked(a) PROVE TasksFit'
  BY <1>17 DEF WatcherRevoked, Revoked, NoWatcher
<1>18. ASSUME NEW a \in Alarms, WatcherAcked(a) PROVE TasksFit'
  BY <1>18 DEF WatcherAcked
<1>19. ASSUME NEW a \in Alarms, WatcherAckLogged(a) PROVE TasksFit'
  <2>1. /\ UNCHANGED <<dbVars, receipts, startVars, webVars, logVars, phoneVars>>
        /\ watcher' = [watcher EXCEPT ![a] = NoWatcher] /\ watcher[a].pc = "ackLog"
    BY <1>19 DEF WatcherAckLogged
  <2>2. CASE task' = task
    BY <2>1, <2>2 DEF NoWatcher, NoReceipts, TypeOK
  <2>3. CASE receipts[a] # None /\ Adds(NewTask("cancel", "forget", a, receipts[a]))
    <3>1. PICK s \in Tasks :
            /\ ~Running(s) /\ task'[s] = NewTask("cancel", "forget", a, receipts[a])
            /\ \A u \in Tasks \ {s} : task'[u] = task[u]
      BY <2>3 DEF Adds
    <3>2. QED
      BY <2>1, <2>3, <3>1 DEF NewTask, NoWatcher, NoReceipts, TypeOK, ReceiptMap
  <2>4. QED
    BY <1>19, <2>2, <2>3, SpawnCancelEffect DEF WatcherAckLogged
<1>20. ASSUME NEW a \in Alarms, WatcherExpired(a) PROVE TasksFit'
  <2>1. /\ UNCHANGED <<dbVars, receipts, startVars, webVars, logVars, phoneVars>>
        /\ watcher' = [watcher EXCEPT ![a] = NoWatcher] /\ watcher[a].pc = "expLog"
    BY <1>20 DEF WatcherExpired
  <2>2. PICK s \in Tasks : /\ ~Running(s) /\ task'[s] = NewTask("again", "check", a, None)
                          /\ \A u \in Tasks \ {s} : task'[u] = task[u]
    BY <1>20, WatcherExpiredEffect DEF Adds
  <2>3. QED
    BY <2>1, <2>2 DEF NewTask, NoReceipts
<1>21. ASSUME NEW a \in Alarms, WatcherBreaks(a) PROVE TasksFit'
  BY <1>21 DEF WatcherBreaks, NoWatcher
<1>22. ASSUME NEW a \in Alarms, WebAck(a) PROVE TasksFit'
  BY <1>22 DEF WebAck
<1>23. ASSUME NEW a \in Alarms, WebCallback(a) PROVE TasksFit'
  <2>1. /\ UNCHANGED <<raised, acked, receipts, startVars, listed, logVars, phoneVars>>
        /\ callbacks' = callbacks \ {a} /\ a \in callbacks
    BY <1>23 DEF WebCallback
  <2>2. CASE task' = task
    BY <1>23, <2>1, <2>2 DEF WebCallback, CancelFor, NoWatcher, NoReceipts, TypeOK, ReceiptMap
  <2>3. CASE receipts[a] # None /\ Adds(NewTask("cancel", "forget", a, receipts[a]))
    <3>1. PICK s \in Tasks :
            /\ ~Running(s) /\ task'[s] = NewTask("cancel", "forget", a, receipts[a])
            /\ \A u \in Tasks \ {s} : task'[u] = task[u]
      BY <2>3 DEF Adds
    <3>2. watcher' = [watcher EXCEPT ![a] = NoWatcher] /\ saved' \in {saved, watcher[a].snap}
      BY <1>23, <2>3 DEF WebCallback, CancelFor
    <3>3. QED
      BY <2>1, <2>3, <3>1, <3>2 DEF NewTask, NoWatcher, NoReceipts, TypeOK, ReceiptMap
  <2>4. QED
    BY <1>23, <2>2, <2>3, SpawnCancelEffect DEF WebCallback, CancelFor
<1>24. ASSUME WebListOpen PROVE TasksFit'
  BY <1>24 DEF WebListOpen
<1>25. ASSUME WebAckAll PROVE TasksFit'
  BY <1>25 DEF WebAckAll
<1>26. ASSUME Start PROVE TasksFit'
  BY <1>26 DEF Start, NewWatcher, NoWatcher
<1>27. ASSUME ResumeRead PROVE TasksFit'
  BY <1>27 DEF ResumeRead
<1>28. ASSUME ResumeDone PROVE TasksFit'
  BY <1>28 DEF ResumeDone
<1>29. ASSUME NEW a \in Alarms, ResumeNext(a) PROVE TasksFit'
  <2>1. /\ UNCHANGED <<dbVars, receipts, watcher, phase, webVars, logVars, phoneVars>>
        /\ todo' = todo \ {a} /\ a \in todo
    BY <1>29 DEF ResumeNext
  <2>2. CASE task' = task /\ Watched(a)
    BY <2>1, <2>2
  <2>3. CASE Adds(NewTask("resume", "post", a, None))
    <3>1. PICK s \in Tasks : /\ ~Running(s) /\ task'[s] = NewTask("resume", "post", a, None)
                            /\ \A u \in Tasks \ {s} : task'[u] = task[u]
      BY <2>3 DEF Adds
    <3>2. QED
      BY <2>1, <3>1 DEF NewTask, NoReceipts
  <2>4. QED
    BY <1>29, <2>2, <2>3, ResumeNextEffect
<1>30. ASSUME NEW r \in Receipts, PhoneAcks(r) PROVE TasksFit'
  BY <1>30 DEF PhoneAcks
<1>31. ASSUME NEW r \in Receipts, PhoneExpires(r) PROVE TasksFit'
  BY <1>31 DEF PhoneExpires
<1>32. ASSUME Crash PROVE TasksFit'
  BY <1>32 DEF Crash, Halt, NoTask, NoWatcher
<1>33. CASE UNCHANGED vars
  BY <1>33 DEF vars
<1>34. QED
  BY <1>1, <1>2, <1>3, <1>4, <1>5, <1>6, <1>7, <1>8, <1>9, <1>10, <1>11, <1>12, <1>13, <1>14,
       <1>15, <1>16, <1>17, <1>18, <1>19, <1>20, <1>21, <1>22, <1>23, <1>24, <1>25, <1>26,
       <1>27, <1>28, <1>29, <1>30, <1>31, <1>32, <1>33 DEF Next, TaskStep, WatcherStep, WebStep,
       StartStep

(* Every step keeps the watchers consistent: one cancels only after it     *)
(* read an acknowledged event, and acknowledges only what it saw confirmed.*)
LEMMA WatchersStep ==
  ASSUME IInv, [Next]_vars PROVE WatchersFit'
<1> USE DEF IInv, TasksFit, UsersFit, Belongs, MapsBelong, Running, Watched, WatchersFit,
     dbVars, chainVars, startVars, webVars, logVars, phoneVars
<1>1. ASSUME NEW a \in Alarms, Raise(a) PROVE WatchersFit'
  BY <1>1, RaiseEffect DEF Raise, NewTask, TypeOK, NoReceipts
<1>2. ASSUME NEW t \in Tasks, PostAccepted(t) PROVE WatchersFit'
  BY <1>2 DEF PostAccepted, RingNew, Fresh, Referenced, Mentions
<1>3. ASSUME NEW t \in Tasks, PostFailed(t) PROVE WatchersFit'
  BY <1>3, AttemptFailedEffect DEF PostFailed
<1>4. ASSUME NEW t \in Tasks, PostAnswerLost(t) PROVE WatchersFit'
  BY <1>4, AttemptFailedEffect DEF PostAnswerLost, RingNew, Fresh, Referenced, Mentions, TypeOK
<1>5. ASSUME NEW t \in Tasks, SendLogged(t) PROVE WatchersFit'
  BY <1>5, SendLoggedEffect DEF SendLogged
<1>6. ASSUME NEW t \in Tasks, SendSaved(t) PROVE WatchersFit'
  BY <1>6 DEF SendSaved, NoTask, NewWatcher
<1>7. ASSUME NEW t \in Tasks, SendFailed(t) PROVE WatchersFit'
  BY <1>7, SendFailedEffect DEF SendFailed, NoTask
<1>8. ASSUME NEW t \in Tasks, AgainChecked(t) PROVE WatchersFit'
  BY <1>8, AgainCheckedEffect DEF AgainChecked, NoTask
<1>9. ASSUME NEW t \in Tasks, CancelForgot(t) PROVE WatchersFit'
  BY <1>9, CancelForgotEffect DEF CancelForgot
<1>10. ASSUME NEW t \in Tasks, CancelSaved(t) PROVE WatchersFit'
  BY <1>10 DEF CancelSaved
<1>11. ASSUME NEW t \in Tasks, CancelPosted(t) PROVE WatchersFit'
  BY <1>11 DEF CancelPosted, Revoked, NoTask, TypeOK
<1>12. ASSUME NEW t \in Tasks, TaskBreaks(t) PROVE WatchersFit'
  BY <1>12 DEF TaskBreaks, Halt, NoTask, NoWatcher
<1>13. ASSUME NEW a \in Alarms, WatcherChecked(a) PROVE WatchersFit'
  BY <1>13, WatcherCheckedEffect DEF WatcherChecked
<1>14. ASSUME NEW a \in Alarms, WatcherPollFailed(a) PROVE WatchersFit'
  BY <1>14 DEF WatcherPollFailed
<1>15. ASSUME NEW a \in Alarms, WatcherPolled(a) PROVE WatchersFit'
  BY <1>15, WatcherPolledEffect DEF WatcherPolled
<1>16. ASSUME NEW a \in Alarms, WatcherSaved(a) PROVE WatchersFit'
  BY <1>16 DEF WatcherSaved, SavingPcs, TypeOK
<1>17. ASSUME NEW a \in Alarms, WatcherRevoked(a) PROVE WatchersFit'
  BY <1>17 DEF WatcherRevoked, Revoked, NoWatcher, TypeOK
<1>18. ASSUME NEW a \in Alarms, WatcherAcked(a) PROVE WatchersFit'
  BY <1>18 DEF WatcherAcked
<1>19. ASSUME NEW a \in Alarms, WatcherAckLogged(a) PROVE WatchersFit'
  BY <1>19, SpawnCancelEffect DEF WatcherAckLogged, NewTask, NoWatcher, TypeOK, NoReceipts
<1>20. ASSUME NEW a \in Alarms, WatcherExpired(a) PROVE WatchersFit'
  BY <1>20, WatcherExpiredEffect DEF WatcherExpired, NewTask, NoWatcher, TypeOK, NoReceipts
<1>21. ASSUME NEW a \in Alarms, WatcherBreaks(a) PROVE WatchersFit'
  BY <1>21 DEF WatcherBreaks, NoWatcher
<1>22. ASSUME NEW a \in Alarms, WebAck(a) PROVE WatchersFit'
  BY <1>22 DEF WebAck
<1>23. ASSUME NEW a \in Alarms, WebCallback(a) PROVE WatchersFit'
  BY <1>23, SpawnCancelEffect DEF WebCallback, CancelFor, NewTask, NoWatcher, TypeOK, NoReceipts
<1>24. ASSUME WebListOpen PROVE WatchersFit'
  BY <1>24 DEF WebListOpen
<1>25. ASSUME WebAckAll PROVE WatchersFit'
  BY <1>25 DEF WebAckAll
<1>26. ASSUME Start PROVE WatchersFit'
  BY <1>26 DEF Start, NewWatcher, NoWatcher, TypeOK, ReceiptMap, NoReceipts
<1>27. ASSUME ResumeRead PROVE WatchersFit'
  BY <1>27 DEF ResumeRead
<1>28. ASSUME ResumeDone PROVE WatchersFit'
  BY <1>28 DEF ResumeDone
<1>29. ASSUME NEW a \in Alarms, ResumeNext(a) PROVE WatchersFit'
  BY <1>29, ResumeNextEffect DEF ResumeNext, NewTask, TypeOK, NoReceipts
<1>30. ASSUME NEW r \in Receipts, PhoneAcks(r) PROVE WatchersFit'
  BY <1>30 DEF PhoneAcks
<1>31. ASSUME NEW r \in Receipts, PhoneExpires(r) PROVE WatchersFit'
  BY <1>31 DEF PhoneExpires
<1>32. ASSUME Crash PROVE WatchersFit'
  BY <1>32 DEF Crash, Halt, NoTask, NoWatcher
<1>33. CASE UNCHANGED vars
  BY <1>33 DEF vars
<1>34. QED
  BY <1>1, <1>2, <1>3, <1>4, <1>5, <1>6, <1>7, <1>8, <1>9, <1>10, <1>11, <1>12, <1>13, <1>14,
       <1>15, <1>16, <1>17, <1>18, <1>19, <1>20, <1>21, <1>22, <1>23, <1>24, <1>25, <1>26,
       <1>27, <1>28, <1>29, <1>30, <1>31, <1>32, <1>33 DEF Next, TaskStep, WatcherStep, WebStep,
       StartStep

(* Every step keeps the dashboard's and the start-up loop's lists honest.  *)
LEMMA UsersStep ==
  ASSUME IInv, [Next]_vars PROVE UsersFit'
<1> USE DEF IInv, TasksFit, UsersFit, Running, Watched, WatchersFit, dbVars, chainVars,
     startVars, webVars, logVars, phoneVars
<1>1. ASSUME NEW a \in Alarms, Raise(a) PROVE UsersFit'
  BY <1>1, RaiseEffect DEF Raise, NewTask, TypeOK, NoReceipts
<1>2. ASSUME NEW t \in Tasks, PostAccepted(t) PROVE UsersFit'
  BY <1>2 DEF PostAccepted, RingNew, Fresh, Referenced, Mentions
<1>3. ASSUME NEW t \in Tasks, PostFailed(t) PROVE UsersFit'
  BY <1>3, AttemptFailedEffect DEF PostFailed
<1>4. ASSUME NEW t \in Tasks, PostAnswerLost(t) PROVE UsersFit'
  BY <1>4, AttemptFailedEffect DEF PostAnswerLost, RingNew, Fresh, Referenced, Mentions, TypeOK
<1>5. ASSUME NEW t \in Tasks, SendLogged(t) PROVE UsersFit'
  BY <1>5, SendLoggedEffect DEF SendLogged
<1>6. ASSUME NEW t \in Tasks, SendSaved(t) PROVE UsersFit'
  BY <1>6 DEF SendSaved, NoTask, NewWatcher
<1>7. ASSUME NEW t \in Tasks, SendFailed(t) PROVE UsersFit'
  BY <1>7, SendFailedEffect DEF SendFailed, NoTask
<1>8. ASSUME NEW t \in Tasks, AgainChecked(t) PROVE UsersFit'
  BY <1>8, AgainCheckedEffect DEF AgainChecked, NoTask
<1>9. ASSUME NEW t \in Tasks, CancelForgot(t) PROVE UsersFit'
  BY <1>9, CancelForgotEffect DEF CancelForgot
<1>10. ASSUME NEW t \in Tasks, CancelSaved(t) PROVE UsersFit'
  BY <1>10 DEF CancelSaved
<1>11. ASSUME NEW t \in Tasks, CancelPosted(t) PROVE UsersFit'
  BY <1>11 DEF CancelPosted, Revoked, NoTask
<1>12. ASSUME NEW t \in Tasks, TaskBreaks(t) PROVE UsersFit'
  BY <1>12 DEF TaskBreaks, Halt, NoTask, NoWatcher
<1>13. ASSUME NEW a \in Alarms, WatcherChecked(a) PROVE UsersFit'
  BY <1>13, WatcherCheckedEffect DEF WatcherChecked
<1>14. ASSUME NEW a \in Alarms, WatcherPollFailed(a) PROVE UsersFit'
  BY <1>14 DEF WatcherPollFailed
<1>15. ASSUME NEW a \in Alarms, WatcherPolled(a) PROVE UsersFit'
  BY <1>15, WatcherPolledEffect DEF WatcherPolled
<1>16. ASSUME NEW a \in Alarms, WatcherSaved(a) PROVE UsersFit'
  BY <1>16 DEF WatcherSaved, SavingPcs
<1>17. ASSUME NEW a \in Alarms, WatcherRevoked(a) PROVE UsersFit'
  BY <1>17 DEF WatcherRevoked, Revoked, NoWatcher
<1>18. ASSUME NEW a \in Alarms, WatcherAcked(a) PROVE UsersFit'
  BY <1>18 DEF WatcherAcked
<1>19. ASSUME NEW a \in Alarms, WatcherAckLogged(a) PROVE UsersFit'
  BY <1>19, SpawnCancelEffect DEF WatcherAckLogged, NewTask, NoWatcher, TypeOK, NoReceipts
<1>20. ASSUME NEW a \in Alarms, WatcherExpired(a) PROVE UsersFit'
  BY <1>20, WatcherExpiredEffect DEF WatcherExpired, NewTask, NoWatcher, TypeOK, NoReceipts
<1>21. ASSUME NEW a \in Alarms, WatcherBreaks(a) PROVE UsersFit'
  BY <1>21 DEF WatcherBreaks, NoWatcher
<1>22. ASSUME NEW a \in Alarms, WebAck(a) PROVE UsersFit'
  BY <1>22 DEF WebAck
<1>23. ASSUME NEW a \in Alarms, WebCallback(a) PROVE UsersFit'
  BY <1>23, SpawnCancelEffect DEF WebCallback, CancelFor, NewTask, NoWatcher, TypeOK, NoReceipts
<1>24. ASSUME WebListOpen PROVE UsersFit'
  BY <1>24 DEF WebListOpen
<1>25. ASSUME WebAckAll PROVE UsersFit'
  BY <1>25 DEF WebAckAll
<1>26. ASSUME Start PROVE UsersFit'
  BY <1>26 DEF Start, NewWatcher, NoWatcher
<1>27. ASSUME ResumeRead PROVE UsersFit'
  BY <1>27 DEF ResumeRead
<1>28. ASSUME ResumeDone PROVE UsersFit'
  BY <1>28 DEF ResumeDone
<1>29. ASSUME NEW a \in Alarms, ResumeNext(a) PROVE UsersFit'
  BY <1>29, ResumeNextEffect DEF ResumeNext, NewTask, TypeOK, NoReceipts
<1>30. ASSUME NEW r \in Receipts, PhoneAcks(r) PROVE UsersFit'
  BY <1>30 DEF PhoneAcks
<1>31. ASSUME NEW r \in Receipts, PhoneExpires(r) PROVE UsersFit'
  BY <1>31 DEF PhoneExpires
<1>32. ASSUME Crash PROVE UsersFit'
  BY <1>32 DEF Crash, Halt, NoTask, NoWatcher
<1>33. CASE UNCHANGED vars
  BY <1>33 DEF vars
<1>34. QED
  BY <1>1, <1>2, <1>3, <1>4, <1>5, <1>6, <1>7, <1>8, <1>9, <1>10, <1>11, <1>12, <1>13, <1>14,
       <1>15, <1>16, <1>17, <1>18, <1>19, <1>20, <1>21, <1>22, <1>23, <1>24, <1>25, <1>26,
       <1>27, <1>28, <1>29, <1>30, <1>31, <1>32, <1>33 DEF Next, TaskStep, WatcherStep, WebStep,
       StartStep

(* Every step hands an open alarm on.                                      *)
LEMMA NoneForgottenStep ==
  ASSUME IInv, [Next]_vars PROVE NoAlarmForgotten'
<1> USE DEF IInv, TasksFit, UsersFit, Running, Watched, WatchersFit, NoAlarmForgotten, Sending,
     SendKinds, dbVars, chainVars, startVars, webVars, logVars, phoneVars
<1>1. ASSUME NEW a \in Alarms, Raise(a) PROVE NoAlarmForgotten'
  <2>1. /\ UNCHANGED <<acked, saved, receipts, watcher, startVars, webVars, logVars, phoneVars>>
        /\ raised' = raised \cup {a}
    BY <1>1 DEF Raise
  <2>2. PICK s \in Tasks : /\ ~Running(s) /\ task'[s] = NewTask("first", "post", a, None)
                          /\ \A u \in Tasks \ {s} : task'[u] = task[u]
    BY <1>1, RaiseEffect DEF Adds
  <2>3. QED
    BY <2>1, <2>2 DEF NewTask, NoReceipts
<1>2. ASSUME NEW t \in Tasks, PostAccepted(t) PROVE NoAlarmForgotten'
  BY <1>2 DEF PostAccepted, RingNew, Fresh, Referenced, Mentions, TypeOK
<1>3. ASSUME NEW t \in Tasks, PostFailed(t) PROVE NoAlarmForgotten'
  BY <1>3, AttemptFailedEffect DEF PostFailed
<1>4. ASSUME NEW t \in Tasks, PostAnswerLost(t) PROVE NoAlarmForgotten'
  <2>1. UNCHANGED <<dbVars, receipts, watcher, startVars, webVars, logVars>>
    BY <1>4 DEF PostAnswerLost
  <2>2. PICK r \in Receipts :
          /\ phone[r] # "acked" /\ ~Referenced(r)
          /\ \A s \in Receipts \ {r} : owner'[s] = owner[s] /\ phone'[s] = phone[s]
    BY <1>4, PostAnswerLostEffect
  <2>3. /\ task[t].pc = "post"
        /\ \A s \in Tasks :
             /\ task'[s].kind = task[s].kind /\ task'[s].alarm = task[s].alarm
             /\ task'[s].rcpt = task[s].rcpt /\ task'[s].snap = task[s].snap
             /\ task'[s].pc = task[s].pc \/ (s = t /\ task'[s].pc = "fail")
    BY <1>4, PostAnswerLostEffect
  <2>4. QED
    BY <2>1, <2>3
<1>5. ASSUME NEW t \in Tasks, SendLogged(t) PROVE NoAlarmForgotten'
  <2>1. UNCHANGED <<dbVars, watcher, startVars, webVars, logVars, phoneVars>>
    BY <1>5 DEF SendLogged
  <2>2. QED
    BY <1>5, <2>1, SendLoggedEffect
<1>6. ASSUME NEW t \in Tasks, SendSaved(t) PROVE NoAlarmForgotten'
  BY <1>6 DEF SendSaved, NoTask, NewWatcher, TypeOK
<1>7. ASSUME NEW t \in Tasks, SendFailed(t) PROVE NoAlarmForgotten'
  <2>1. UNCHANGED <<dbVars, receipts, watcher, startVars, webVars, broken, phoneVars>>
    BY <1>7 DEF SendFailed
  <2>2. QED
    BY <1>7, <2>1, SendFailedEffect DEF NoTask, NoReceipts
<1>8. ASSUME NEW t \in Tasks, AgainChecked(t) PROVE NoAlarmForgotten'
  <2>1. /\ UNCHANGED <<dbVars, receipts, watcher, startVars, webVars, logVars, phoneVars>>
        /\ task[t].pc = "check"
    BY <1>8 DEF AgainChecked
  <2>2. QED
    BY <1>8, <2>1, AgainCheckedEffect DEF NoTask, NoReceipts
<1>9. ASSUME NEW t \in Tasks, CancelForgot(t) PROVE NoAlarmForgotten'
  BY <1>9, CancelForgotEffect DEF CancelForgot
<1>10. ASSUME NEW t \in Tasks, CancelSaved(t) PROVE NoAlarmForgotten'
  BY <1>10 DEF CancelSaved, TypeOK
<1>11. ASSUME NEW t \in Tasks, CancelPosted(t) PROVE NoAlarmForgotten'
  BY <1>11 DEF CancelPosted, Revoked, NoTask
<1>12. ASSUME NEW t \in Tasks, TaskBreaks(t) PROVE NoAlarmForgotten'
  <2>1. CASE Halt
    BY <1>12, <2>1 DEF TaskBreaks, Halt, NoTask, NoWatcher, NoReceipts
  <2>2. CASE ~Halt
    BY <1>12, <2>2 DEF TaskBreaks, NoTask, NoReceipts, TypeOK
  <2>3. QED
    BY <2>1, <2>2
<1>13. ASSUME NEW a \in Alarms, WatcherChecked(a) PROVE NoAlarmForgotten'
  <2>1. /\ UNCHANGED <<dbVars, task, startVars, webVars, logVars, phoneVars>>
        /\ watcher[a].pc = "sleep"
    BY <1>13 DEF WatcherChecked
  <2>2. \A b \in Alarms : Watched(b) => watcher'[b].pc # "none"
    BY <1>13, <2>1, WatcherCheckedEffect
  <2>3. QED
    BY <2>1, <2>2 DEF TypeOK
<1>14. ASSUME NEW a \in Alarms, WatcherPollFailed(a) PROVE NoAlarmForgotten'
  BY <1>14 DEF WatcherPollFailed
<1>15. ASSUME NEW a \in Alarms, WatcherPolled(a) PROVE NoAlarmForgotten'
  <2>1. /\ UNCHANGED <<dbVars, task, startVars, webVars, logVars, phoneVars>>
        /\ watcher[a].pc = "poll"
    BY <1>15 DEF WatcherPolled
  <2>2. \A b \in Alarms : Watched(b) => watcher'[b].pc # "none"
    BY <1>15, <2>1, WatcherPolledEffect
  <2>3. QED
    BY <2>1, <2>2 DEF TypeOK
<1>16. ASSUME NEW a \in Alarms, WatcherSaved(a) PROVE NoAlarmForgotten'
  BY <1>16 DEF WatcherSaved, SavingPcs, TypeOK
<1>17. ASSUME NEW a \in Alarms, WatcherRevoked(a) PROVE NoAlarmForgotten'
  BY <1>17 DEF WatcherRevoked, Revoked, NoWatcher
<1>18. ASSUME NEW a \in Alarms, WatcherAcked(a) PROVE NoAlarmForgotten'
  BY <1>18 DEF WatcherAcked
<1>19. ASSUME NEW a \in Alarms, WatcherAckLogged(a) PROVE NoAlarmForgotten'
  <2>1. /\ UNCHANGED <<dbVars, receipts, startVars, webVars, logVars, phoneVars>>
        /\ watcher' = [watcher EXCEPT ![a] = NoWatcher] /\ watcher[a].pc = "ackLog"
    BY <1>19 DEF WatcherAckLogged
  <2>2. CASE task' = task
    BY <2>1, <2>2 DEF NoWatcher, NoReceipts, TypeOK
  <2>3. CASE receipts[a] # None /\ Adds(NewTask("cancel", "forget", a, receipts[a]))
    <3>1. PICK s \in Tasks :
            /\ ~Running(s) /\ task'[s] = NewTask("cancel", "forget", a, receipts[a])
            /\ \A u \in Tasks \ {s} : task'[u] = task[u]
      BY <2>3 DEF Adds
    <3>2. QED
      BY <2>1, <2>3, <3>1 DEF NewTask, NoWatcher, NoReceipts, TypeOK, ReceiptMap
  <2>4. QED
    BY <1>19, <2>2, <2>3, SpawnCancelEffect DEF WatcherAckLogged
<1>20. ASSUME NEW a \in Alarms, WatcherExpired(a) PROVE NoAlarmForgotten'
  <2>1. /\ UNCHANGED <<dbVars, receipts, startVars, webVars, logVars, phoneVars>>
        /\ watcher' = [watcher EXCEPT ![a] = NoWatcher] /\ watcher[a].pc = "expLog"
    BY <1>20 DEF WatcherExpired
  <2>2. PICK s \in Tasks : /\ ~Running(s) /\ task'[s] = NewTask("again", "check", a, None)
                          /\ \A u \in Tasks \ {s} : task'[u] = task[u]
    BY <1>20, WatcherExpiredEffect DEF Adds
  <2>3. QED
    BY <2>1, <2>2 DEF NewTask, NoReceipts, NoWatcher, TypeOK
<1>21. ASSUME NEW a \in Alarms, WatcherBreaks(a) PROVE NoAlarmForgotten'
  BY <1>21 DEF WatcherBreaks, NoWatcher
<1>22. ASSUME NEW a \in Alarms, WebAck(a) PROVE NoAlarmForgotten'
  BY <1>22 DEF WebAck
<1>23. ASSUME NEW a \in Alarms, WebCallback(a) PROVE NoAlarmForgotten'
  <2>1. /\ UNCHANGED <<raised, acked, receipts, startVars, listed, logVars, phoneVars>>
        /\ callbacks' = callbacks \ {a} /\ a \in callbacks
    BY <1>23 DEF WebCallback
  <2>2. CASE task' = task
    BY <1>23, <2>1, <2>2 DEF WebCallback, CancelFor, NoWatcher, NoReceipts, TypeOK, ReceiptMap
  <2>3. CASE receipts[a] # None /\ Adds(NewTask("cancel", "forget", a, receipts[a]))
    <3>1. PICK s \in Tasks :
            /\ ~Running(s) /\ task'[s] = NewTask("cancel", "forget", a, receipts[a])
            /\ \A u \in Tasks \ {s} : task'[u] = task[u]
      BY <2>3 DEF Adds
    <3>2. watcher' = [watcher EXCEPT ![a] = NoWatcher] /\ saved' \in {saved, watcher[a].snap}
      BY <1>23, <2>3 DEF WebCallback, CancelFor
    <3>3. QED
      BY <2>1, <2>3, <3>1, <3>2 DEF NewTask, NoWatcher, NoReceipts, TypeOK, ReceiptMap
  <2>4. QED
    BY <1>23, <2>2, <2>3, SpawnCancelEffect DEF WebCallback, CancelFor
<1>24. ASSUME WebListOpen PROVE NoAlarmForgotten'
  BY <1>24 DEF WebListOpen
<1>25. ASSUME WebAckAll PROVE NoAlarmForgotten'
  BY <1>25 DEF WebAckAll
<1>26. ASSUME Start PROVE NoAlarmForgotten'
  BY <1>26 DEF Start, NewWatcher, NoWatcher
<1>27. ASSUME ResumeRead PROVE NoAlarmForgotten'
  BY <1>27 DEF ResumeRead
<1>28. ASSUME ResumeDone PROVE NoAlarmForgotten'
  BY <1>28 DEF ResumeDone
<1>29. ASSUME NEW a \in Alarms, ResumeNext(a) PROVE NoAlarmForgotten'
  <2>1. /\ UNCHANGED <<dbVars, receipts, watcher, phase, webVars, logVars, phoneVars>>
        /\ todo' = todo \ {a} /\ a \in todo
    BY <1>29 DEF ResumeNext
  <2>2. CASE task' = task /\ Watched(a)
    BY <2>1, <2>2
  <2>3. CASE Adds(NewTask("resume", "post", a, None))
    <3>1. PICK s \in Tasks : /\ ~Running(s) /\ task'[s] = NewTask("resume", "post", a, None)
                            /\ \A u \in Tasks \ {s} : task'[u] = task[u]
      BY <2>3 DEF Adds
    <3>2. QED
      BY <2>1, <3>1 DEF NewTask, NoReceipts
  <2>4. QED
    BY <1>29, <2>2, <2>3, ResumeNextEffect
<1>30. ASSUME NEW r \in Receipts, PhoneAcks(r) PROVE NoAlarmForgotten'
  BY <1>30 DEF PhoneAcks
<1>31. ASSUME NEW r \in Receipts, PhoneExpires(r) PROVE NoAlarmForgotten'
  BY <1>31 DEF PhoneExpires
<1>32. ASSUME Crash PROVE NoAlarmForgotten'
  BY <1>32 DEF Crash, Halt, NoTask, NoWatcher
<1>33. CASE UNCHANGED vars
  BY <1>33 DEF vars
<1>34. QED
  BY <1>1, <1>2, <1>3, <1>4, <1>5, <1>6, <1>7, <1>8, <1>9, <1>10, <1>11, <1>12, <1>13, <1>14,
       <1>15, <1>16, <1>17, <1>18, <1>19, <1>20, <1>21, <1>22, <1>23, <1>24, <1>25, <1>26,
       <1>27, <1>28, <1>29, <1>30, <1>31, <1>32, <1>33 DEF Next, TaskStep, WatcherStep, WebStep,
       StartStep

-----------------------------------------------------------------------------
(***************************************************************************)
(* Which actions acknowledge, and which silence.                           *)
(***************************************************************************)

(* The only steps that acknowledge: the dashboard and a confirmed watcher. *)
LEMMA AckedChangedBy ==
  ASSUME Next, NEW a \in acked' \ acked, ~WebAckAll
  PROVE  \E b \in Alarms : WebAck(b) \/ WatcherAcked(b)
<1> USE DEF dbVars, Halt
<1>1. ASSUME NEW t \in Tasks, TaskStep(t) PROVE acked' = acked
  BY <1>1 DEF TaskStep, PostAccepted, PostFailed, PostAnswerLost, SendLogged, SendSaved,
              SendFailed, AgainChecked, CancelForgot, CancelSaved, CancelPosted, TaskBreaks
<1>2. ASSUME NEW b \in Alarms, WatcherStep(b) PROVE acked' = acked \/ WatcherAcked(b)
  BY <1>2 DEF WatcherStep, WatcherChecked, WatcherPollFailed, WatcherPolled, WatcherSaved,
              WatcherRevoked, WatcherAckLogged, WatcherExpired, WatcherBreaks
<1>3. ASSUME WebStep PROVE acked' = acked \/ \E b \in Alarms : WebAck(b)
  BY <1>3 DEF WebStep, WebCallback, WebListOpen
<1>4. ASSUME StartStep \/ Crash PROVE acked' = acked
  BY <1>4 DEF StartStep, Start, ResumeRead, ResumeNext, ResumeDone, Crash
<1>5. ASSUME NEW b \in Alarms, Raise(b) PROVE acked' = acked
  BY <1>5 DEF Raise
<1>6. ASSUME NEW r \in Receipts, PhoneAcks(r) \/ PhoneExpires(r) PROVE acked' = acked
  BY <1>6 DEF PhoneAcks, PhoneExpires
<1>7. QED
  BY <1>1, <1>2, <1>3, <1>4, <1>5, <1>6 DEF Next

(* The only steps that silence a ringing phone: the two cancel POSTs.      *)
LEMMA PhoneCancelledBy ==
  ASSUME TypeOK, Next, NEW r \in Receipts, phone[r] = "ringing", phone'[r] = "cancelled"
  PROVE  \/ \E t \in Tasks : task[t].pc = "cancel" /\ task[t].rcpt = r
         \/ \E a \in Alarms : watcher[a].pc = "cancel" /\ watcher[a].rcpt = r
<1> USE DEF phoneVars
<1>1. phone \in [Receipts -> Bells]
  BY DEF TypeOK, Bells
<1>2. ASSUME NEW t \in Tasks, TaskStep(t) PROVE task[t].pc = "cancel" /\ task[t].rcpt = r
  <2>1. CASE PostAccepted(t) \/ PostAnswerLost(t)
    BY <1>1, <2>1 DEF PostAccepted, PostAnswerLost, RingNew, Fresh
  <2>2. CASE CancelPosted(t)
    BY <1>1, <2>2 DEF CancelPosted, Revoked
  <2>3. QED
    BY <1>2, <2>1, <2>2 DEF TaskStep, PostFailed, SendLogged, SendSaved, SendFailed,
         AgainChecked, CancelForgot, CancelSaved, TaskBreaks
<1>3. ASSUME NEW a \in Alarms, WatcherStep(a)
      PROVE  watcher[a].pc = "cancel" /\ watcher[a].rcpt = r
  <2>1. CASE WatcherRevoked(a)
    BY <1>1, <2>1 DEF WatcherRevoked, Revoked
  <2>2. QED
    BY <1>3, <2>1 DEF WatcherStep, WatcherChecked, WatcherPollFailed, WatcherPolled,
         WatcherSaved, WatcherAcked, WatcherAckLogged, WatcherExpired, WatcherBreaks
<1>4. ~WebStep
  BY DEF WebStep, WebAck, WebCallback, WebListOpen, WebAckAll
<1>5. ~StartStep /\ ~Crash
  BY DEF StartStep, Start, ResumeRead, ResumeNext, ResumeDone, Crash
<1>6. \A a \in Alarms : ~Raise(a)
  BY DEF Raise
<1>7. \A s \in Receipts : ~PhoneAcks(s) /\ ~PhoneExpires(s)
  BY <1>1 DEF PhoneAcks, PhoneExpires
<1>8. QED
  BY <1>2, <1>3, <1>4, <1>5, <1>6, <1>7 DEF Next

-----------------------------------------------------------------------------
(***************************************************************************)
(* The theorems.                                                           *)
(***************************************************************************)

(* The invariant holds before the first start.                             *)
LEMMA InitIInv == Init => IInv
<1> SUFFICES ASSUME Init PROVE IInv
  OBVIOUS
<1> USE DEF Init
<1>1. NoReceipts \in ReceiptMap
  BY DEF NoReceipts, ReceiptMap
<1>2. TypeOK
  BY <1>1, NoTaskTyped, WatcherValuesTyped DEF TypeOK
<1>3. MapsBelong
  BY DEF MapsBelong, Belongs, NoReceipts, NoWatcher, NoTask
<1>4. TasksFit /\ WatchersFit /\ UsersFit
  BY DEF TasksFit, Running, NoTask, WatchersFit, Watched, NoWatcher, UsersFit
<1>5. NoAlarmForgotten
  BY DEF NoAlarmForgotten
<1>6. QED
  BY <1>2, <1>3, <1>4, <1>5 DEF IInv

(* The strengthened invariant, from the six step lemmas. *)
THEOREM Invariant == Spec => []IInv
<1>1. IInv /\ [Next]_vars => IInv'
  <2> SUFFICES ASSUME IInv, [Next]_vars PROVE IInv'
    OBVIOUS
  <2>1. TypeOK' /\ MapsBelong' /\ TasksFit'
    BY TypeStep, MapsStep, TasksStep
  <2>2. WatchersFit' /\ UsersFit' /\ NoAlarmForgotten'
    BY WatchersStep, UsersStep, NoneForgottenStep
  <2>3. QED
    BY <2>1, <2>2 DEF IInv
<1>2. QED
  BY InitIInv, <1>1, PTL DEF Spec

(* Every variable of the chain keeps its type, whatever fails: no send is  *)
(* tried more often than PostAttempts, and no pc leaves its set.           *)
THEOREM TypeCorrect == Spec => []TypeOK
<1>1. IInv => TypeOK
  BY DEF IInv
<1>2. QED
  BY Invariant, <1>1, PTL

(* An open alarm is never dropped without a trace: the hand-over between   *)
(* dispatcher, watcher, resend and start-up loop leaves no gap, whichever  *)
(* of the faults happen and however many alarms and tasks there are.       *)
THEOREM NoneForgotten == Spec => []NoAlarmForgotten
<1>1. IInv => NoAlarmForgotten
  BY DEF IInv
<1>2. QED
  BY Invariant, <1>1, PTL

(* An alarm is acknowledged in the database only by someone in the         *)
(* dashboard or by a confirmed emergency of that very alarm.               *)
THEOREM OnlyUsersAcknowledge == Spec => AckedByUser
<1> DEFINE A == \A a \in acked' \ acked :
                  \/ WebAckAll \/ WebAck(a)
                  \/ \E r \in Receipts : owner[r] = a /\ phone[r] = "acked"
<1>1. IInv /\ [Next]_vars => [A]_vars
  <2> SUFFICES ASSUME IInv, Next, NEW a \in acked' \ acked, ~WebAckAll, ~WebAck(a)
               PROVE  \E r \in Receipts : owner[r] = a /\ phone[r] = "acked"
    OBVIOUS
  <2>1. PICK b \in Alarms : WebAck(b) \/ WatcherAcked(b)
    BY AckedChangedBy
  <2>2. a = b
    BY <2>1 DEF WebAck, WatcherAcked
  <2>3. watcher[a].pc = "ackDb"
    BY <2>1, <2>2 DEF WatcherAcked
  <2>4. QED
    BY <2>1, <2>2, <2>3 DEF IInv, WatchersFit, Watched
<1>2. QED
  BY Invariant, <1>1, PTL DEF Spec, AckedByUser

(* The program silences a ringing phone only for an alarm that is          *)
(* acknowledged: a receipt is never cancelled under the wrong alarm, nor   *)
(* by a watcher or a task that looked too early.                           *)
THEOREM SilencedOnlyWhenAcked == Spec => SilencedWhenAcked
<1> DEFINE A == \A r \in Receipts : phone[r] = "ringing" /\ phone'[r] = "cancelled"
                                      => owner[r] \in acked
<1>1. IInv /\ [Next]_vars => [A]_vars
  <2> SUFFICES ASSUME IInv, Next, NEW r \in Receipts,
                      phone[r] = "ringing", phone'[r] = "cancelled"
               PROVE  owner[r] \in acked
    OBVIOUS
  <2>1. \/ \E t \in Tasks : task[t].pc = "cancel" /\ task[t].rcpt = r
        \/ \E a \in Alarms : watcher[a].pc = "cancel" /\ watcher[a].rcpt = r
    BY PhoneCancelledBy DEF IInv
  <2>2. CASE \E t \in Tasks : task[t].pc = "cancel" /\ task[t].rcpt = r
    BY <2>2 DEF IInv, TasksFit, Running
  <2>3. CASE \E a \in Alarms : watcher[a].pc = "cancel" /\ watcher[a].rcpt = r
    BY <2>3 DEF IInv, WatchersFit, Watched
  <2>4. QED
    BY <2>1, <2>2, <2>3
<1>2. QED
  BY Invariant, <1>1, PTL DEF Spec, SilencedWhenAcked
=============================================================================
