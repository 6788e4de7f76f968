----------------------------- MODULE PagerProofs -----------------------------
(***************************************************************************)
(* Proofs that Pushover is the pager of module Pager, for every set of     *)
(* alarms, receipts and tasks, as long as the process lives on and hears   *)
(* every answer: a second emergency beside one that rings takes a restart  *)
(* between the POST and the commit of its receipt, an answer that is lost, *)
(* or an alarm during the start-up query.  A database that refuses and a   *)
(* cancellation that fails do not bring one about.                         *)
(***************************************************************************)
EXTENDS PushoverProofs

OneLife == Faults \cap {"crash", "answer", "early"} = {}

(***************************************************************************)
(* The inductive invariant.  At each moment at most one coroutine is in    *)
(* charge of an alarm, a send or a watcher, and an emergency that rings or *)
(* was confirmed is the one it was last told the receipt of.  A send that  *)
(* is about to post, or to look whether it must, therefore finds the bell  *)
(* quiet.                                                                  *)
(***************************************************************************)

(* The process is in its first life. *)
NothingToResume ==
  /\ phase \in {"down", "starting"} => raised = {}
  /\ todo = {}
  /\ ~Resuming

Sends(t)    == Running(t) /\ task[t].kind \in SendKinds
Holds(t, r) == task[t].pc \in {"log", "save"} /\ task[t].rcpt = r
Ending(a)   == watcher[a].pc \in {"expSave", "expLog"}

OneInCharge ==
  \A t \in Tasks : Sends(t) =>
    /\ ~Watched(task[t].alarm)
    /\ \A s \in Tasks : Sends(s) /\ task[s].alarm = task[t].alarm => s = t

(* A receipt whose emergency rings, or was confirmed. *)
Live(r) == phone[r] \in {"ringing", "acked"}

OneLive == \A r, s \in Receipts : Live(r) /\ Live(s) /\ owner[r] = owner[s] => r = s

LiveIsHeld ==
  \A r \in Receipts : Live(r) =>
    /\ owner[r] \in raised
    /\ \A t \in Tasks : Sends(t) /\ task[t].alarm = owner[r] => Holds(t, r)
    /\ Watched(owner[r]) => watcher[owner[r]].rcpt = r /\ ~Ending(owner[r])

Pages == NothingToResume /\ OneInCharge /\ OneLive /\ LiveIsHeld

-----------------------------------------------------------------------------
(***************************************************************************)
(* Most steps put nobody new in charge and ring nothing.                   *)
(***************************************************************************)

SendersStay ==
  \A t \in Tasks : Sends(t)' =>
    /\ Sends(t)
    /\ task'[t].alarm = task[t].alarm /\ task'[t].kind = task[t].kind
    /\ \A r \in Receipts : Holds(t, r) => Holds(t, r)'

WatchersStay ==
  \A a \in Alarms : Watched(a)' =>
    /\ Watched(a) /\ watcher'[a].rcpt = watcher[a].rcpt
    /\ Ending(a)' => Ending(a) \/ phone[watcher[a].rcpt] = "expired"

NobodyNew == SendersStay /\ WatchersStay

NothingRings ==
  \A r \in Receipts : Live(r)' => Live(r) /\ owner'[r] = owner[r]

(* Nothing is resumed and the process is not down again. *)
LivesOn ==
  /\ raised' = raised /\ todo' = {}
  /\ phase' \in {"down", "starting"} => phase \in {"down", "starting"}

LEMMA CalmStep ==
  ASSUME IInv, Pages, NobodyNew, NothingRings, LivesOn
  PROVE  Pages'
<1> USE DEF Pages
<1>1. NothingToResume'
  BY DEF NothingToResume, Resuming, LivesOn, NobodyNew, SendersStay, Sends, SendKinds
<1>2. OneInCharge'
  <2> SUFFICES ASSUME NEW t \in Tasks, Sends(t)'
               PROVE  /\ ~Watched(task[t].alarm)'
                      /\ \A s \in Tasks : Sends(s)' /\ task'[s].alarm = task'[t].alarm => s = t
    BY DEF OneInCharge
  <2>1. Sends(t) /\ task'[t].alarm = task[t].alarm
    BY DEF NobodyNew, SendersStay
  <2>2. task[t].alarm \in Alarms
    BY <2>1 DEF IInv, TasksFit, UsersFit, TypeOK, Sends
  <2>3. QED
    BY <2>1, <2>2 DEF OneInCharge, NobodyNew, SendersStay, WatchersStay, Watched
<1>3. OneLive'
  BY DEF OneLive, NothingRings
<1>4. LiveIsHeld'
  <2> SUFFICES ASSUME NEW r \in Receipts, Live(r)'
               PROVE  /\ owner'[r] \in raised'
                      /\ \A t \in Tasks : Sends(t)' /\ task'[t].alarm = owner'[r] => Holds(t, r)'
                      /\ Watched(owner[r])' =>
                           watcher'[owner'[r]].rcpt = r /\ ~Ending(owner[r])'
    BY DEF LiveIsHeld
  <2>1. Live(r) /\ owner'[r] = owner[r] /\ owner[r] \in raised /\ raised \subseteq Alarms
    BY DEF NothingRings, LiveIsHeld, IInv, TypeOK
  <2>2. ASSUME NEW t \in Tasks, Sends(t)', task'[t].alarm = owner[r] PROVE Holds(t, r)'
    BY <2>1, <2>2 DEF NobodyNew, SendersStay, LiveIsHeld
  <2>3. ASSUME Watched(owner[r])'
        PROVE  watcher'[owner[r]].rcpt = r /\ ~Ending(owner[r])'
    <3>1. /\ Watched(owner[r]) /\ watcher'[owner[r]].rcpt = watcher[owner[r]].rcpt
          /\ Ending(owner[r])' => Ending(owner[r]) \/ phone[watcher[owner[r]].rcpt] = "expired"
      BY <2>1, <2>3 DEF NobodyNew, WatchersStay
    <3>2. watcher[owner[r]].rcpt = r /\ ~Ending(owner[r])
      BY <2>1, <3>1 DEF LiveIsHeld
    <3>3. QED
      BY <2>1, <3>1, <3>2 DEF Live
  <2>4. QED
    BY <2>1, <2>2, <2>3 DEF LivesOn
<1>5. QED
  BY <1>1, <1>2, <1>3, <1>4

(* Only a cancellation is new.  *)
LEMMA SpawnCancelStays ==
  ASSUME TypeOK, NEW a \in Alarms, SpawnCancel(a)
  PROVE  SendersStay
<1>1. task' = task \/ Adds(NewTask("cancel", "forget", a, receipts[a]))
  BY SpawnCancelEffect
<1>2. CASE task' = task
  BY <1>2 DEF SendersStay, Sends, Holds, Running
<1>3. CASE Adds(NewTask("cancel", "forget", a, receipts[a]))
  BY <1>3 DEF Adds, NewTask, SendersStay, Sends, Holds, Running, SendKinds
<1>4. QED
  BY <1>1, <1>2, <1>3

(* A cancellation that reaches Pushover rings nothing. *)
LEMMA RevokedIsQuiet ==
  ASSUME TypeOK, NEW r \in Receipts, Revoked(r), UNCHANGED owner
  PROVE  NothingRings
BY DEF Revoked, NothingRings, Live, TypeOK

(* The steps of a task, but for the POST that is accepted and the watcher *)
(* that is started.                                                       *)
LEMMA TaskIsCalm ==
  ASSUME IInv, Pages, OneLife, NEW t \in Tasks, TaskStep(t), ~PostAccepted(t), ~SendSaved(t)
  PROVE  Pages'
<1> USE DEF dbVars, chainVars, startVars, webVars, logVars, phoneVars
<1>1. TypeOK /\ TasksFit /\ todo = {} /\ ~Resuming
  BY DEF IInv, Pages, NothingToResume
<1>2. ASSUME UNCHANGED <<raised, startVars, watcher, phoneVars>>, SendersStay PROVE Pages'
  <2>1. NobodyNew
    BY <1>2 DEF NobodyNew, WatchersStay, Watched, Ending
  <2>2. NothingRings /\ LivesOn
    BY <1>1, <1>2 DEF NothingRings, Live, LivesOn
  <2>3. QED
    BY <2>1, <2>2, CalmStep
<1>3. CASE PostFailed(t)
  <2>1. /\ task[t].pc = "post"
        /\ \A s \in Tasks :
             /\ task'[s].kind = task[s].kind /\ task'[s].alarm = task[s].alarm
             /\ task'[s].rcpt = task[s].rcpt
             /\ task'[s].pc = task[s].pc \/ (s = t /\ task'[s].pc = "fail")
    BY <1>1, <1>3, AttemptFailedEffect DEF PostFailed
  <2>2. SendersStay
    BY <2>1 DEF SendersStay, Sends, Running, Holds
  <2>3. QED
    BY <1>2, <1>3, <2>2 DEF PostFailed
<1>4. CASE PostAnswerLost(t)
  BY <1>4 DEF PostAnswerLost, OneLife
<1>5. CASE SendLogged(t)
  <2>1. SendersStay
    BY <1>1, <1>5, SendLoggedEffect DEF SendersStay, Sends, Running, Holds
  <2>2. QED
    BY <1>2, <1>5, <2>1 DEF SendLogged
<1>6. CASE SendFailed(t)
  <2>1. SendersStay
    BY <1>1, <1>6, SendFailedEffect DEF SendFailed, SendersStay, Sends, Running, Holds, NoTask
  <2>2. QED
    BY <1>2, <1>6, <2>1 DEF SendFailed
<1>7. CASE AgainChecked(t)
  <2>1. SendersStay
    BY <1>1, <1>7, AgainCheckedEffect
    DEF AgainChecked, SendersStay, Sends, Running, Holds, NoTask
  <2>2. QED
    BY <1>2, <1>7, <2>1 DEF AgainChecked
<1>8. CASE CancelForgot(t)
  <2>1. SendersStay
    BY <1>1, <1>8, CancelForgotEffect DEF CancelForgot, SendersStay, Sends, Running, Holds
  <2>2. QED
    BY <1>2, <1>8, <2>1 DEF CancelForgot
<1>9. CASE CancelSaved(t)
  <2>1. SendersStay
    BY <1>1, <1>9 DEF CancelSaved, SendersStay, Sends, Running, Holds, TypeOK, TaskType
  <2>2. QED
    BY <1>2, <1>9, <2>1 DEF CancelSaved
<1>10. CASE CancelPosted(t)
  <2>1. SendersStay
    BY <1>1, <1>10 DEF CancelPosted, SendersStay, Sends, Running, Holds, NoTask, TypeOK
  <2>2. NobodyNew
    BY <1>10, <2>1 DEF CancelPosted, NobodyNew, WatchersStay, Watched, Ending
  <2>3. NothingRings
    <3>1. task[t].rcpt \in Receipts
      BY <1>1, <1>10 DEF CancelPosted, TasksFit, Running
    <3>2. QED
      BY <1>1, <1>10, <3>1, RevokedIsQuiet DEF CancelPosted
  <2>4. QED
    BY <1>1, <1>10, <2>2, <2>3, CalmStep DEF CancelPosted, LivesOn
<1>11. CASE TaskBreaks(t)
  <2>1. task[t].kind # "resume"
    BY <1>1, <1>11 DEF TaskBreaks, Resuming, Running
  <2>2. SendersStay
    BY <1>1, <1>11, <2>1 DEF TaskBreaks, SendersStay, Sends, Running, Holds, NoTask, TypeOK
  <2>3. QED
    BY <1>2, <1>11, <2>1, <2>2 DEF TaskBreaks
<1>12. QED
  BY <1>3, <1>4, <1>5, <1>6, <1>7, <1>8, <1>9, <1>10, <1>11 DEF TaskStep

(* The steps of a watcher, but for the one that hands over to a resend. *)
LEMMA WatcherIsCalm ==
  ASSUME IInv, Pages, NEW a \in Alarms, WatcherStep(a), ~WatcherExpired(a)
  PROVE  Pages'
<1> USE DEF dbVars, chainVars, startVars, webVars, logVars, phoneVars
<1>1. TypeOK /\ WatchersFit /\ todo = {}
  BY DEF IInv, Pages, NothingToResume
<1>2. ASSUME UNCHANGED <<raised, startVars, phoneVars>>, SendersStay, WatchersStay PROVE Pages'
  <2>1. NothingRings /\ LivesOn
    BY <1>1, <1>2 DEF NothingRings, Live, LivesOn
  <2>2. QED
    BY <1>2, <2>1, CalmStep DEF NobodyNew
<1>3. ASSUME UNCHANGED task PROVE SendersStay
  BY <1>3 DEF SendersStay, Sends, Running, Holds
<1>4. ASSUME watcher' = [watcher EXCEPT ![a] = NoWatcher] PROVE WatchersStay
  BY <1>1, <1>4 DEF WatchersStay, Watched, Ending, NoWatcher, TypeOK
<1>5. CASE WatcherChecked(a)
  <2>1. WatchersStay
    BY <1>1, <1>5, WatcherCheckedEffect DEF WatcherChecked, WatchersStay, Watched, Ending
  <2>2. QED
    BY <1>2, <1>3, <1>5, <2>1 DEF WatcherChecked
<1>6. CASE WatcherPollFailed(a)
  <2>1. WatchersStay
    BY <1>1, <1>6 DEF WatcherPollFailed, WatchersStay, Watched, Ending, TypeOK, WatcherType
  <2>2. QED
    BY <1>2, <1>3, <1>6, <2>1 DEF WatcherPollFailed
<1>7. CASE WatcherPolled(a)
  <2>1. \A b \in Alarms \ {a} : watcher'[b] = watcher[b]
    BY <1>1, <1>7, WatcherPolledEffect
  <2>2. watcher[a].pc = "poll" /\ watcher'[a].rcpt = watcher[a].rcpt
    BY <1>1, <1>7, WatcherPolledEffect DEF WatcherPolled
  <2>3. Ending(a)' => phone[watcher[a].rcpt] = "expired"
    BY <1>1, <1>7 DEF WatcherPolled, WatcherForgets, Ending, TypeOK, WatcherType
  <2>4. WatchersStay
    BY <2>1, <2>2, <2>3 DEF WatchersStay, Watched, Ending
  <2>5. QED
    BY <1>2, <1>3, <1>7, <2>4 DEF WatcherPolled
<1>8. CASE WatcherSaved(a)
  <2>1. WatchersStay
    BY <1>1, <1>8 DEF WatcherSaved, SavingPcs, WatchersStay, Watched, Ending, TypeOK, WatcherType
  <2>2. QED
    BY <1>2, <1>3, <1>8, <2>1 DEF WatcherSaved
<1>9. CASE WatcherRevoked(a)
  <2>1. NobodyNew
    BY <1>3, <1>4, <1>9 DEF WatcherRevoked, NobodyNew
  <2>2. watcher[a].rcpt \in Receipts
    BY <1>1, <1>9 DEF WatcherRevoked, WatchersFit, Watched
  <2>3. NothingRings
    BY <1>1, <1>9, <2>2, RevokedIsQuiet DEF WatcherRevoked
  <2>4. QED
    BY <1>1, <1>9, <2>1, <2>3, CalmStep DEF WatcherRevoked, LivesOn
<1>10. CASE WatcherAcked(a)
  <2>1. WatchersStay
    BY <1>1, <1>10 DEF WatcherAcked, WatchersStay, Watched, Ending, TypeOK, WatcherType
  <2>2. QED
    BY <1>2, <1>3, <1>10, <2>1 DEF WatcherAcked
<1>11. CASE WatcherAckLogged(a)
  <2>1. SendersStay /\ WatchersStay
    BY <1>1, <1>4, <1>11, SpawnCancelStays DEF WatcherAckLogged
  <2>2. QED
    BY <1>2, <1>11, <2>1 DEF WatcherAckLogged
<1>12. CASE WatcherBreaks(a)
  BY <1>2, <1>3, <1>4, <1>12 DEF WatcherBreaks
<1>13. QED
  BY <1>5, <1>6, <1>7, <1>8, <1>9, <1>10, <1>11, <1>12 DEF WatcherStep

(* The dashboard, the phone and the start of the process. *)
LEMMA OthersAreCalm ==
  ASSUME IInv, Pages, OneLife,
         \/ WebStep \/ StartStep \/ Crash
         \/ \E r \in Receipts : PhoneAcks(r) \/ PhoneExpires(r)
  PROVE  Pages'
<1> USE DEF dbVars, chainVars, startVars, webVars, logVars, phoneVars
<1>1. TypeOK /\ MapsBelong /\ NothingToResume /\ UsersFit
  BY DEF IInv, Pages
<1>2. ASSUME UNCHANGED task PROVE SendersStay
  BY <1>2 DEF SendersStay, Sends, Running, Holds
<1>3. ASSUME UNCHANGED watcher PROVE WatchersStay
  BY <1>3 DEF WatchersStay, Watched, Ending
<1>4. ASSUME UNCHANGED phoneVars PROVE NothingRings
  BY <1>4 DEF NothingRings, Live
<1>5. CASE \/ WebListOpen \/ WebAckAll \/ \E a \in Alarms : WebAck(a)
  <2>1. UNCHANGED <<raised, chainVars, startVars, phoneVars>>
    BY <1>5 DEF WebListOpen, WebAckAll, WebAck
  <2>2. QED
    BY <1>1, <1>2, <1>3, <1>4, <2>1, CalmStep DEF NobodyNew, LivesOn, NothingToResume
<1>6. ASSUME NEW a \in Alarms, WebCallback(a) PROVE Pages'
  <2>1. SendersStay
    BY <1>1, <1>6, SpawnCancelStays DEF WebCallback, CancelFor
  <2>2. WatchersStay
    BY <1>1, <1>3, <1>6 DEF WebCallback, CancelFor, WatchersStay, Watched, Ending, NoWatcher, TypeOK
  <2>3. QED
    BY <1>1, <1>4, <1>6, <2>1, <2>2, CalmStep
    DEF WebCallback, NobodyNew, LivesOn, NothingToResume
<1>7. CASE Start
  <2>1. \A a \in Alarms : saved[a] = None
    BY <1>1, <1>7 DEF Start, NothingToResume, MapsBelong, Belongs
  <2>2. WatchersStay
    BY <1>7, <2>1 DEF Start, WatchersStay, Watched, NoWatcher
  <2>3. QED
    BY <1>1, <1>2, <1>4, <1>7, <2>2, CalmStep DEF Start, NobodyNew, LivesOn, NothingToResume
<1>8. CASE ResumeRead
  <2>1. todo' = {}
    BY <1>1, <1>8 DEF ResumeRead, NothingToResume
  <2>2. QED
    BY <1>2, <1>3, <1>4, <1>8, <2>1, CalmStep DEF ResumeRead, NobodyNew, LivesOn
<1>9. CASE ResumeDone
  BY <1>1, <1>2, <1>3, <1>4, <1>9, CalmStep DEF ResumeDone, NobodyNew, LivesOn, NothingToResume
<1>10. \A a \in Alarms : ~ResumeNext(a)
  BY <1>1 DEF ResumeNext, NothingToResume
<1>11. ~Crash
  BY DEF Crash, OneLife
<1>12. ASSUME NEW r \in Receipts, PhoneAcks(r) \/ PhoneExpires(r) PROVE Pages'
  <2>1. NothingRings
    BY <1>1, <1>12 DEF PhoneAcks, PhoneExpires, NothingRings, Live, TypeOK
  <2>2. UNCHANGED <<raised, chainVars, startVars>>
    BY <1>12 DEF PhoneAcks, PhoneExpires
  <2>3. QED
    BY <1>1, <1>2, <1>3, <2>1, <2>2, CalmStep DEF NobodyNew, LivesOn, NothingToResume
<1>13. QED
  BY <1>5, <1>6, <1>7, <1>8, <1>9, <1>10, <1>11, <1>12 DEF WebStep, StartStep

-----------------------------------------------------------------------------
(***************************************************************************)
(* The four steps that put somebody in charge.                             *)
(***************************************************************************)

(* A send enters at a moment when nobody has the alarm and nothing of it is *)
(* live.                                                                    *)
LEMMA SendEnters ==
  ASSUME IInv, Pages, NEW a \in Alarms, NEW new \in TaskType,
         Adds(new), new.alarm = a, new.kind \in {"first", "again"},
         \A r \in Receipts : Live(r) => owner[r] # a,
         \A t \in Tasks : Sends(t) => task[t].alarm # a,
         \A b \in Alarms : watcher'[b] = watcher[b] \/ watcher'[b] = NoWatcher,
         ~Watched(a)',
         raised' = raised \cup {a}, UNCHANGED phoneVars, todo' = {},
         phase' \notin {"down", "starting"}
  PROVE  Pages'
<1> USE DEF phoneVars
<1>1. PICK s \in Tasks : /\ ~Running(s) /\ task'[s] = new
                         /\ \A u \in Tasks \ {s} : task'[u] = task[u]
  BY DEF Adds
<1>2. \A t \in Tasks \ {s} : Sends(t)' => Sends(t) /\ task'[t] = task[t]
  BY <1>1 DEF Sends, Running
<1>3. \A b \in Alarms : Watched(b)' => Watched(b) /\ watcher'[b] = watcher[b]
  BY DEF Watched, NoWatcher
<1>4. \A t \in Tasks : Sends(t) => task[t].alarm \in Alarms
  BY DEF IInv, TypeOK, TasksFit, Sends
<1>5. NothingToResume'
  BY <1>1, <1>2 DEF Pages, NothingToResume, Resuming, Sends, SendKinds
<1>6. OneInCharge'
  BY <1>1, <1>2, <1>3, <1>4 DEF Pages, OneInCharge, Watched
<1>7. OneLive'
  BY DEF Pages, OneLive, Live
<1>8. LiveIsHeld'
  BY <1>1, <1>2, <1>3 DEF Pages, LiveIsHeld, Live, Holds, Ending, Watched, IInv, TypeOK
<1>9. QED
  BY <1>5, <1>6, <1>7, <1>8 DEF Pages

LEMMA RaiseEnters ==
  ASSUME IInv, Pages, OneLife, NEW a \in Alarms, Raise(a)
  PROVE  Pages'
<1> USE DEF dbVars, startVars, phoneVars
<1> DEFINE new == NewTask("first", "post", a, None)
<1>1. TypeOK /\ TasksFit /\ WatchersFit /\ LiveIsHeld /\ NothingToResume
  BY DEF IInv, Pages
<1>2. new \in TaskType /\ new.alarm = a /\ new.kind = "first"
  BY NewTaskTyped DEF TaskPcs, SendKinds, NewTask
<1>3. Adds(new)
  BY <1>1, RaiseEffect
<1>4. a \notin raised /\ raised' = raised \cup {a} /\ UNCHANGED <<watcher, startVars, phoneVars>>
  BY DEF Raise
<1>5. /\ \A r \in Receipts : Live(r) => owner[r] # a
      /\ \A t \in Tasks : Sends(t) => task[t].alarm # a
      /\ ~Watched(a)
  BY <1>1, <1>4 DEF LiveIsHeld, TasksFit, WatchersFit, Sends
<1>6. phase' \notin {"down", "starting"} /\ todo' = {}
  BY <1>1, <1>4 DEF Raise, OneLife, NothingToResume
<1>7. ~Watched(a)'
  BY <1>4, <1>5 DEF Watched
<1> HIDE DEF new
<1>8. QED
  BY <1>2, <1>3, <1>4, <1>5, <1>6, <1>7, SendEnters

(* The watcher leaves and the resend enters: its emergency has expired. *)
LEMMA AgainEnters ==
  ASSUME IInv, Pages, NEW a \in Alarms, WatcherExpired(a)
  PROVE  Pages'
<1> USE DEF dbVars, startVars, phoneVars
<1> DEFINE new == NewTask("again", "check", a, None)
<1>1. TypeOK /\ WatchersFit /\ LiveIsHeld /\ NothingToResume /\ OneInCharge
  BY DEF IInv, Pages
<1>2. new \in TaskType /\ new.alarm = a /\ new.kind = "again"
  BY NewTaskTyped DEF TaskPcs, SendKinds, NewTask
<1>3. Adds(new)
  BY <1>1, WatcherExpiredEffect
<1>4. /\ watcher' = [watcher EXCEPT ![a] = NoWatcher] /\ watcher[a].pc = "expLog"
      /\ UNCHANGED <<raised, startVars, phoneVars>>
  BY DEF WatcherExpired
<1>5. Watched(a) /\ Ending(a) /\ a \in raised
  BY <1>1, <1>4 DEF Watched, Ending, WatchersFit
<1>6. /\ \A r \in Receipts : Live(r) => owner[r] # a
      /\ \A t \in Tasks : Sends(t) => task[t].alarm # a
  BY <1>1, <1>5 DEF LiveIsHeld, OneInCharge
<1>7. phase' \notin {"down", "starting"} /\ todo' = {} /\ raised' = raised \cup {a}
  BY <1>1, <1>4, <1>5 DEF NothingToResume
<1>8. /\ ~Watched(a)'
      /\ \A b \in Alarms : watcher'[b] = watcher[b] \/ watcher'[b] = NoWatcher
  BY <1>1, <1>4 DEF Watched, NoWatcher, TypeOK
<1> HIDE DEF new
<1>9. QED
  BY <1>2, <1>3, <1>4, <1>6, <1>7, <1>8, SendEnters

(* Pushover accepts: the bell was quiet, and the send holds the receipt. *)
LEMMA PostRings ==
  ASSUME IInv, Pages, NEW t \in Tasks, PostAccepted(t)
  PROVE  /\ Sends(t) /\ task[t].alarm \in raised
         /\ \A r \in Receipts : Live(r) => owner[r] # task[t].alarm
         /\ \E r \in Receipts :
              /\ ~Live(r) /\ ~Referenced(r)
              /\ phone' = [phone EXCEPT ![r] = "ringing"]
              /\ owner' = [owner EXCEPT ![r] = task[t].alarm]
              /\ task' = [task EXCEPT ![t].pc = "log", ![t].rcpt = r]
<1>1. task[t].pc = "post" /\ Sends(t) /\ task[t].alarm \in raised
  BY DEF PostAccepted, Sends, Running, IInv, TypeOK, TaskType, TasksFit
<1>2. \A r \in Receipts : Live(r) => owner[r] # task[t].alarm
  BY <1>1 DEF Pages, LiveIsHeld, Holds
<1>3. PICK r \in Fresh : /\ RingNew(r, task[t].alarm)
                         /\ task' = [task EXCEPT ![t].pc = "log", ![t].rcpt = r]
  BY DEF PostAccepted
<1>4. r \in Receipts /\ ~Live(r) /\ ~Referenced(r)
  BY DEF Fresh, Live
<1>5. QED
  BY <1>1, <1>2, <1>3, <1>4 DEF RingNew

LEMMA PostAcceptedPages ==
  ASSUME IInv, Pages, NEW t \in Tasks, PostAccepted(t)
  PROVE  Pages'
<1> USE DEF dbVars, startVars
<1>1. TypeOK /\ NothingToResume /\ OneInCharge /\ OneLive /\ LiveIsHeld
  BY DEF IInv, Pages
<1>2. /\ Sends(t) /\ task[t].alarm \in raised
      /\ \A q \in Receipts : Live(q) => owner[q] # task[t].alarm
  BY PostRings
<1>3. PICK r \in Receipts :
        /\ ~Live(r) /\ ~Referenced(r)
        /\ phone' = [phone EXCEPT ![r] = "ringing"]
        /\ owner' = [owner EXCEPT ![r] = task[t].alarm]
        /\ task' = [task EXCEPT ![t].pc = "log", ![t].rcpt = r]
  BY PostRings
<1>4. UNCHANGED <<raised, watcher, startVars>>
  BY DEF PostAccepted
<1>5. /\ \A s \in Tasks : task'[s].kind = task[s].kind /\ task'[s].alarm = task[s].alarm
      /\ \A s \in Tasks \ {t} : task'[s] = task[s]
      /\ task'[t].pc = "log" /\ task'[t].rcpt = r
  BY <1>1, <1>3 DEF TypeOK, TaskType
<1>6. \A s \in Tasks : Sends(s)' => Sends(s)
  BY <1>2, <1>5 DEF Sends, Running
<1>7. /\ Live(r)' /\ owner'[r] = task[t].alarm
      /\ \A q \in Receipts \ {r} : (Live(q)' <=> Live(q)) /\ owner'[q] = owner[q]
  BY <1>1, <1>3 DEF Live, TypeOK
<1>8. NothingToResume'
  BY <1>1, <1>4, <1>5, <1>6 DEF NothingToResume, Resuming, Sends, SendKinds
<1>9. OneInCharge'
  BY <1>1, <1>4, <1>5, <1>6 DEF OneInCharge, Watched
<1>10. OneLive'
  BY <1>1, <1>2, <1>7 DEF OneLive
<1>11. LiveIsHeld'
  <2>1. \A s \in Tasks : Sends(s)' /\ task'[s].alarm = task[t].alarm => s = t
    BY <1>1, <1>2, <1>5, <1>6 DEF OneInCharge
  <2>2. ~Watched(task[t].alarm)
    BY <1>1, <1>2 DEF OneInCharge
  <2>3. ASSUME NEW s \in Tasks, Sends(s)', task'[s].alarm = owner'[r] PROVE Holds(s, r)'
    BY <1>5, <1>7, <2>1, <2>3 DEF Holds
  <2>4. ASSUME NEW q \in Receipts \ {r}, Live(q)
        PROVE  \A s \in Tasks : Sends(s)' /\ task'[s].alarm = owner[q] => Holds(s, q)'
    <3>1. owner[q] # task[t].alarm
      BY <1>2, <2>4
    <3>2. QED
      BY <1>1, <1>5, <1>6, <2>4, <3>1 DEF LiveIsHeld, Holds
  <2>5. QED
    BY <1>1, <1>2, <1>4, <1>7, <2>2, <2>3, <2>4 DEF LiveIsHeld, Watched, Ending
<1>12. QED
  BY <1>8, <1>9, <1>10, <1>11 DEF Pages

(* The send ends, and a watcher of the receipt it held begins. *)
LEMMA SendSavedPages ==
  ASSUME IInv, Pages, NEW t \in Tasks, SendSaved(t)
  PROVE  Pages'
<1> USE DEF startVars, phoneVars
<1>1. TypeOK /\ NothingToResume /\ OneInCharge /\ OneLive /\ LiveIsHeld
  BY DEF IInv, Pages
<1>2. PICK a \in Alarms : Sends(t) /\ a = task[t].alarm /\ task[t].pc = "save"
  BY DEF SendSaved, Sends, Running, IInv, TypeOK, TaskType, TasksFit
<1>3. ~Watched(a) /\ \A s \in Tasks : Sends(s) /\ task[s].alarm = a => s = t
  BY <1>1, <1>2 DEF OneInCharge
<1>4. /\ UNCHANGED <<raised, startVars, phoneVars>>
      /\ task' = [task EXCEPT ![t] = NoTask]
      /\ watcher' = [watcher EXCEPT ![a] = NewWatcher(task[t].rcpt)]
  BY <1>2, <1>3 DEF SendSaved
<1>5. /\ ~Sends(t)' /\ \A s \in Tasks \ {t} : task'[s] = task[s] /\ (Sends(s)' => Sends(s))
  BY <1>1, <1>4 DEF Sends, Running, NoTask, TypeOK
<1>6. /\ \A b \in Alarms \ {a} : watcher'[b] = watcher[b]
      /\ watcher'[a].rcpt = task[t].rcpt /\ ~Ending(a)'
  BY <1>1, <1>2, <1>4 DEF TypeOK, NewWatcher, Ending
<1>7. NothingToResume'
  BY <1>1, <1>4, <1>5 DEF NothingToResume, Resuming, Sends, SendKinds
<1>8. OneInCharge'
  <2> SUFFICES ASSUME NEW s \in Tasks, Sends(s)'
               PROVE  /\ ~Watched(task[s].alarm)'
                      /\ \A u \in Tasks : Sends(u)' /\ task'[u].alarm = task'[s].alarm => u = s
    BY DEF OneInCharge
  <2>1. s # t /\ Sends(s) /\ task'[s] = task[s]
    BY <1>5
  <2>2. task[s].alarm \in Alarms \ {a}
    BY <1>3, <2>1 DEF IInv, TypeOK, TasksFit, Sends
  <2>3. QED
    BY <1>1, <1>5, <1>6, <2>1, <2>2 DEF OneInCharge, Watched
<1>9. OneLive'
  BY <1>1, <1>4 DEF OneLive, Live
<1>10. LiveIsHeld'
  <2> SUFFICES ASSUME NEW r \in Receipts, Live(r)
               PROVE  /\ owner[r] \in raised
                      /\ \A s \in Tasks : Sends(s)' /\ task'[s].alarm = owner[r] => Holds(s, r)'
                      /\ Watched(owner[r])' => watcher'[owner[r]].rcpt = r /\ ~Ending(owner[r])'
    BY <1>4 DEF LiveIsHeld, Live
  <2>1. owner[r] \in raised /\ raised \subseteq Alarms
    BY <1>1 DEF LiveIsHeld, TypeOK
  <2>2. \A s \in Tasks : Sends(s)' /\ task'[s].alarm = owner[r] => Holds(s, r)'
    BY <1>1, <1>5 DEF LiveIsHeld, Holds
  <2>3. CASE owner[r] = a
    <3>1. task[t].rcpt = r
      BY <1>1, <1>2, <2>3 DEF LiveIsHeld, Holds
    <3>2. QED
      BY <1>4, <1>6, <2>1, <2>2, <2>3, <3>1
  <2>4. CASE owner[r] # a
    <3>1. watcher'[owner[r]] = watcher[owner[r]] /\ owner' = owner
      BY <1>4, <1>6, <2>1, <2>4
    <3>2. QED
      BY <1>1, <2>1, <2>2, <3>1 DEF LiveIsHeld, Watched, Ending
  <2>5. QED
    BY <2>3, <2>4
<1>11. QED
  BY <1>7, <1>8, <1>9, <1>10 DEF Pages

LEMMA PagesStep ==
  ASSUME IInv, Pages, OneLife, [Next]_vars
  PROVE  Pages'
<1>1. ASSUME NEW a \in Alarms, Raise(a) \/ WatcherStep(a) PROVE Pages'
  BY <1>1, RaiseEnters, AgainEnters, WatcherIsCalm
<1>2. ASSUME NEW t \in Tasks, TaskStep(t) PROVE Pages'
  BY <1>2, PostAcceptedPages, SendSavedPages, TaskIsCalm
<1>3. CASE UNCHANGED vars
  <2>1. NobodyNew /\ NothingRings /\ LivesOn
    BY <1>3 DEF vars, dbVars, chainVars, startVars, phoneVars, NobodyNew, SendersStay, Sends,
       Running, Holds, WatchersStay, Watched, Ending, NothingRings, Live, LivesOn, Pages,
       NothingToResume
  <2>2. QED
    BY <2>1, CalmStep
<1>4. QED
  BY <1>1, <1>2, <1>3, OthersAreCalm DEF Next

LEMMA InitPages == Init => Pages
<1> SUFFICES ASSUME Init PROVE Pages
  OBVIOUS
<1>1. NothingToResume /\ OneInCharge
  BY DEF Init, NothingToResume, Resuming, Running, NoTask, OneInCharge, Sends
<1>2. OneLive /\ LiveIsHeld
  BY DEF Init, OneLive, LiveIsHeld, Live
<1>3. QED
  BY <1>1, <1>2 DEF Pages

(* The chain of one life: one in charge, one emergency. *)
THEOREM OneLifePages == ASSUME OneLife PROVE Spec => [](IInv /\ Pages)
<1>1. IInv /\ Pages /\ [Next]_vars => Pages'
  BY PagesStep
<1>2. QED
  BY InitPages, Invariant, <1>1, PTL DEF Spec

(* One alarm rings the phone with at most one emergency at a time: the     *)
(* resend waits for the expiry, and every hand-over between dispatcher,    *)
(* watcher and resend happens while the bell is quiet or goes with the     *)
(* receipt.                                                                *)
THEOREM OneEmergencyAtATime == ASSUME OneLife PROVE Spec => []OneEmergency
<1>1. Pages => OneEmergency
  BY DEF Pages, OneLive, Live, OneEmergency
<1>2. QED
  BY OneLifePages, <1>1, PTL

-----------------------------------------------------------------------------
(***************************************************************************)
(* The refinement: every step is a step of the pager or a stutter.         *)
(***************************************************************************)

Posts(t) == task[t].pc = "post"

(* Who is due is read off the tasks that post. *)
LEMMA DueStays ==
  ASSUME \A t \in Tasks : Posts(t)' <=> Posts(t),
         \A t \in Tasks : Posts(t) => task'[t].alarm = task[t].alarm
  PROVE  Due' = Due
BY DEF Due, Posts

(* A spawn of something that does not post makes nobody due. *)
LEMMA SpawnIsNotDue ==
  ASSUME NEW new, Adds(new), new.pc # "post"
  PROVE  Due' = Due
BY DueStays DEF Adds, Posts, Running

LEMMA CancelIsNotDue ==
  ASSUME TypeOK, NEW a \in Alarms, SpawnCancel(a)
  PROVE  Due' = Due
<1>1. CASE task' = task
  BY <1>1 DEF Due
<1>2. CASE Adds(NewTask("cancel", "forget", a, receipts[a]))
  BY <1>2, SpawnIsNotDue DEF NewTask
<1>3. QED
  BY <1>1, <1>2, SpawnCancelEffect

(* The bell is what the one live receipt of the alarm says. *)
LEMMA BellIs ==
  ASSUME IInv, Pages
  PROVE  /\ Bell \in [Alarms -> {"quiet", "ringing", "confirmed"}]
         /\ \A r \in Receipts :
              /\ phone[r] = "ringing" => owner[r] \in Alarms /\ Bell[owner[r]] = "ringing"
              /\ phone[r] = "acked" => owner[r] \in Alarms /\ Bell[owner[r]] = "confirmed"
         /\ \A a \in Alarms : (\A r \in Receipts : Live(r) => owner[r] # a) => Bell[a] = "quiet"
<1>1. \A r \in Receipts : Live(r) => owner[r] \in Alarms
  BY DEF Pages, LiveIsHeld, IInv, TypeOK
<1>2. \A r \in Receipts : phone[r] = "ringing" => Rings(owner[r])
  BY DEF Rings
<1>3. \A r \in Receipts : phone[r] = "acked" => Confirmed(owner[r]) /\ ~Rings(owner[r])
  BY DEF Confirmed, Rings, Pages, OneLive, Live
<1>4. \A a \in Alarms : (\A r \in Receipts : Live(r) => owner[r] # a) => ~Rings(a) /\ ~Confirmed(a)
  BY DEF Rings, Confirmed, Live
<1>5. QED
  BY <1>1, <1>2, <1>3, <1>4 DEF Bell, Live

(* One receipt changes, and with it the bell of its alarm. *)
LEMMA BellChanges ==
  ASSUME TypeOK, NEW r \in Receipts, NEW a \in Alarms, NEW b \in Bells,
         phone' = [phone EXCEPT ![r] = b], owner' \in {owner, [owner EXCEPT ![r] = a]},
         owner'[r] = a, owner[r] # a => ~Live(r),
         \A s \in Receipts \ {r} : Live(s) => owner[s] # a
  PROVE  Bell' = [Bell EXCEPT ![a] = IF b = "ringing" THEN "ringing"
                                     ELSE IF b = "acked" THEN "confirmed" ELSE "quiet"]
<1>1. /\ phone'[r] = b
      /\ \A s \in Receipts \ {r} : phone'[s] = phone[s] /\ owner'[s] = owner[s]
  BY DEF TypeOK
<1>2. Rings(a)' <=> b = "ringing"
  BY <1>1 DEF Rings, Live
<1>3. Confirmed(a)' <=> b = "acked"
  BY <1>1 DEF Confirmed, Live
<1>4. \A c \in Alarms \ {a} : (Rings(c)' <=> Rings(c)) /\ (Confirmed(c)' <=> Confirmed(c))
  BY <1>1 DEF Rings, Confirmed, Live
<1>5. \A c \in Alarms \ {a} : Bell'[c] = Bell[c]
  BY <1>4 DEF Bell
<1>6. Bell'[a] = IF b = "ringing" THEN "ringing" ELSE IF b = "acked" THEN "confirmed" ELSE "quiet"
  BY <1>2, <1>3 DEF Bell
<1>7. QED
  BY <1>5, <1>6 DEF Bell

LEMMA BellStays ==
  ASSUME UNCHANGED phoneVars
  PROVE  Bell' = Bell
BY DEF Bell, Rings, Confirmed, phoneVars

(* A cancellation silences the emergency, if it still rang. *)
LEMMA RevokedQuietens ==
  ASSUME IInv, Pages, NEW r \in Receipts, Revoked(r), UNCHANGED owner,
         UNCHANGED <<raised, acked>>, Due' = Due
  PROVE  Bell' = Bell \/ \E a \in Alarms : Promise!Quieten(a)
<1>1. CASE UNCHANGED phone
  BY <1>1, BellStays DEF phoneVars
<1>2. CASE phone[r] = "ringing" /\ phone' = [phone EXCEPT ![r] = "cancelled"]
  <2>1. PICK a \in Alarms : a = owner[r] /\ Bell[a] = "ringing"
    BY <1>2, BellIs
  <2>2. \A s \in Receipts \ {r} : Live(s) => owner[s] # a
    BY <1>2, <2>1 DEF Pages, OneLive, Live
  <2>3. Bell' = [Bell EXCEPT ![a] = "quiet"]
    BY <1>2, <2>1, <2>2, BellChanges DEF IInv, Bells
  <2>4. Promise!Quieten(a)
    BY <2>1, <2>3 DEF Promise!Quieten
  <2>5. QED
    BY <2>4
<1>3. QED
  BY <1>1, <1>2 DEF Revoked

PagerStep == Promise!Next \/ UNCHANGED <<raised, acked, Due, Bell>>

LEMMA TaskPages ==
  ASSUME IInv, Pages, OneLife, NEW t \in Tasks, TaskStep(t)
  PROVE  PagerStep
<1> USE DEF dbVars, chainVars, startVars, webVars, logVars, phoneVars
<1>1. TypeOK /\ TasksFit /\ NothingToResume
  BY DEF IInv, Pages
<1>2. ASSUME UNCHANGED <<raised, acked, phoneVars>>, Due' = Due PROVE PagerStep
  BY <1>2, BellStays DEF PagerStep
<1>3. CASE PostAccepted(t)
  <2>1. PICK a \in Alarms : Sends(t) /\ a = task[t].alarm /\ task[t].pc = "post"
                           /\ \A q \in Receipts : Live(q) => owner[q] # a
    BY <1>1, <1>3, PostRings DEF PostAccepted, TypeOK
  <2>2. PICK r \in Receipts :
          /\ ~Live(r)
          /\ phone' = [phone EXCEPT ![r] = "ringing"] /\ owner' = [owner EXCEPT ![r] = a]
          /\ task' = [task EXCEPT ![t].pc = "log", ![t].rcpt = r]
    BY <1>3, <2>1, PostRings
  <2>3. Bell' = [Bell EXCEPT ![a] = "ringing"]
    <3>1. owner'[r] = a
      BY <1>1, <2>2 DEF TypeOK
    <3>2. QED
      BY <1>1, <2>1, <2>2, <3>1, BellChanges DEF Bells
  <2>4. Bell[a] = "quiet" /\ a \in Due
    BY <2>1, BellIs DEF Due
  <2>5. Due' = Due \ {a}
    <3>1. \A s \in Tasks \ {t} : Posts(s) => task[s].alarm # a
      <4>1. \A s \in Tasks : Posts(s) => Sends(s)
        BY <1>1 DEF Posts, Sends, Running, TasksFit, TypeOK, TaskType
      <4>2. QED
        BY <2>1, <4>1 DEF Pages, OneInCharge
    <3>2. ~Posts(t)' /\ \A s \in Tasks \ {t} : task'[s] = task[s]
      BY <1>1, <2>2 DEF Posts, TypeOK, TaskType
    <3>3. QED
      BY <2>1, <3>1, <3>2 DEF Due, Posts
  <2>6. Promise!Ring(a)
    BY <1>3, <2>3, <2>4, <2>5 DEF Promise!Ring, PostAccepted
  <2>7. QED
    BY <2>6 DEF PagerStep, Promise!Next
<1>4. CASE PostFailed(t)
  <2>1. PICK a \in Alarms : a = task[t].alarm /\ task[t].pc = "post" /\ a \in Due
    BY <1>1, <1>4 DEF PostFailed, TasksFit, Running, Due, TypeOK
  <2>2. \A s \in Tasks :
          /\ task'[s].alarm = task[s].alarm
          /\ task'[s].pc = task[s].pc \/ (s = t /\ task'[s].pc = "fail")
    BY <1>1, <1>4, AttemptFailedEffect DEF PostFailed
  <2>3. Due' = Due \/ Due' = Due \ {a}
    <3>1. CASE \A s \in Tasks : task'[s].pc = task[s].pc
      BY <2>2, <3>1 DEF Due
    <3>2. CASE task'[t].pc = "fail"
      <4>1. \A s \in Tasks \ {t} : Posts(s) => task[s].alarm # a
        <5>1. \A s \in Tasks : Posts(s) => Sends(s)
          BY <1>1 DEF Posts, Sends, Running, TasksFit, TypeOK, TaskType
        <5>2. QED
          BY <2>1, <5>1 DEF Pages, OneInCharge, Posts
      <4>2. QED
        BY <2>1, <2>2, <3>2, <4>1 DEF Due, Posts
    <3>3. QED
      BY <2>2, <3>1, <3>2
  <2>4. UNCHANGED <<raised, acked, phoneVars>>
    BY <1>4 DEF PostFailed
  <2>5. CASE Due' = Due \ {a}
    BY <2>1, <2>4, <2>5, BellStays DEF PagerStep, Promise!Next, Promise!Drop
  <2>6. QED
    BY <1>2, <2>3, <2>4, <2>5
<1>5. CASE PostAnswerLost(t)
  BY <1>5 DEF PostAnswerLost, OneLife
<1>6. CASE SendLogged(t)
  <2>1. Due' = Due
    BY <1>1, <1>6, SendLoggedEffect, DueStays DEF Posts
  <2>2. QED
    BY <1>2, <1>6, <2>1 DEF SendLogged
<1>7. CASE SendFailed(t)
  <2>1. Due' = Due
    BY <1>1, <1>7, SendFailedEffect, DueStays DEF Posts, SendFailed, NoTask
  <2>2. QED
    BY <1>2, <1>7, <2>1 DEF SendFailed
<1>8. CASE AgainChecked(t)
  <2>1. /\ task[t].pc = "check" /\ Sends(t) /\ task[t].alarm \in raised
        /\ UNCHANGED <<raised, acked, phoneVars>>
    BY <1>1, <1>8 DEF AgainChecked, Sends, Running, TasksFit, TypeOK, TaskType
  <2>2. CASE task'[t] = NoTask
    <3>1. Due' = Due
      BY <1>1, <1>8, <2>1, <2>2, AgainCheckedEffect, DueStays DEF Posts, NoTask
    <3>2. QED
      BY <1>2, <2>1, <3>1
  <2>3. CASE task[t].alarm \notin acked /\ ~Watched(task[t].alarm)
    <3>1. PICK a \in Alarms : a = task[t].alarm /\ a \in raised \ acked
      BY <1>1, <2>1, <2>3 DEF TypeOK
    <3>2. \A r \in Receipts : Live(r) => owner[r] # a
      BY <2>1, <3>1 DEF Pages, LiveIsHeld, Holds
    <3>3. Bell[a] = "quiet"
      BY <3>2, BellIs
    <3>4. /\ task'[t].pc = "post" /\ task'[t].alarm = a
          /\ \A s \in Tasks \ {t} : task'[s] = task[s]
      BY <1>1, <1>8, <2>3, <3>1 DEF AgainChecked, TypeOK, TaskType
    <3>5. Due' = Due \cup {a}
      BY <2>1, <3>4 DEF Due
    <3>6. Promise!Decide(a)
      BY <2>1, <3>1, <3>3, <3>5, BellStays DEF Promise!Decide
    <3>7. QED
      BY <3>6 DEF PagerStep, Promise!Next
  <2>4. QED
    BY <1>1, <1>8, <2>2, <2>3 DEF AgainChecked, TypeOK
<1>9. CASE CancelForgot(t)
  <2>1. Due' = Due
    BY <1>1, <1>9, CancelForgotEffect, DueStays DEF Posts, CancelForgot
  <2>2. QED
    BY <1>2, <1>9, <2>1 DEF CancelForgot
<1>10. CASE CancelSaved(t)
  <2>1. Due' = Due
    BY <1>1, <1>10, DueStays DEF Posts, CancelSaved, TypeOK, TaskType
  <2>2. QED
    BY <1>2, <1>10, <2>1 DEF CancelSaved
<1>11. CASE CancelPosted(t)
  <2>1. Due' = Due
    BY <1>1, <1>11, DueStays DEF Posts, CancelPosted, TypeOK, NoTask
  <2>2. task[t].rcpt \in Receipts
    BY <1>1, <1>11 DEF CancelPosted, TasksFit, Running
  <2>3. Bell' = Bell \/ \E a \in Alarms : Promise!Quieten(a)
    BY <1>11, <2>1, <2>2, RevokedQuietens DEF CancelPosted
  <2>4. QED
    BY <1>11, <2>1, <2>3 DEF CancelPosted, PagerStep, Promise!Next
<1>12. CASE TaskBreaks(t)
  <2>1. task[t].kind # "resume"
    BY <1>1, <1>12 DEF TaskBreaks, NothingToResume, Resuming, Running
  <2>2. Due' = Due
    BY <1>1, <1>12, <2>1, DueStays DEF Posts, TaskBreaks, TypeOK, NoTask
  <2>3. QED
    BY <1>2, <1>12, <2>1, <2>2 DEF TaskBreaks
<1>13. CASE SendSaved(t)
  <2>1. Due' = Due
    BY <1>1, <1>13, DueStays DEF Posts, SendSaved, TypeOK, NoTask
  <2>2. QED
    BY <1>2, <1>13, <2>1 DEF SendSaved
<1>14. QED
  BY <1>3, <1>4, <1>5, <1>6, <1>7, <1>8, <1>9, <1>10, <1>11, <1>12, <1>13 DEF TaskStep

LEMMA WatcherPages ==
  ASSUME IInv, Pages, NEW a \in Alarms, WatcherStep(a)
  PROVE  PagerStep
<1> USE DEF dbVars, chainVars, startVars, webVars, logVars, phoneVars
<1>1. TypeOK /\ WatchersFit
  BY DEF IInv
<1>2. ASSUME UNCHANGED <<raised, acked, phoneVars>>, Due' = Due PROVE PagerStep
  BY <1>2, BellStays DEF PagerStep
<1>3. UNCHANGED task => Due' = Due
  BY DEF Due
<1>4. CASE WatcherRevoked(a)
  <2>1. watcher[a].rcpt \in Receipts
    BY <1>1, <1>4 DEF WatcherRevoked, WatchersFit, Watched
  <2>2. Bell' = Bell \/ \E b \in Alarms : Promise!Quieten(b)
    BY <1>3, <1>4, <2>1, RevokedQuietens DEF WatcherRevoked
  <2>3. QED
    BY <1>3, <1>4, <2>2 DEF WatcherRevoked, PagerStep, Promise!Next
<1>5. CASE WatcherAcked(a)
  <2>1. a \in raised
    BY <1>1, <1>5 DEF WatcherAcked, WatchersFit, Watched
  <2>2. Promise!Acknowledge
    BY <1>3, <1>5, <2>1, BellStays DEF WatcherAcked, Promise!Acknowledge
  <2>3. QED
    BY <2>2 DEF PagerStep, Promise!Next
<1>6. CASE WatcherAckLogged(a)
  BY <1>1, <1>2, <1>6, CancelIsNotDue DEF WatcherAckLogged
<1>7. CASE WatcherExpired(a)
  <2>1. Due' = Due
    BY <1>1, <1>7, WatcherExpiredEffect, SpawnIsNotDue DEF NewTask
  <2>2. QED
    BY <1>2, <1>7, <2>1 DEF WatcherExpired
<1>8. CASE WatcherChecked(a) \/ WatcherPollFailed(a) \/ WatcherPolled(a) \/ WatcherSaved(a)
           \/ WatcherBreaks(a)
  BY <1>2, <1>3, <1>8
  DEF WatcherChecked, WatcherPollFailed, WatcherPolled, WatcherSaved, WatcherBreaks
<1>9. QED
  BY <1>4, <1>5, <1>6, <1>7, <1>8 DEF WatcherStep

LEMMA OthersPage ==
  ASSUME IInv, Pages, OneLife,
         \/ WebStep \/ StartStep \/ Crash
         \/ \E a \in Alarms : Raise(a)
         \/ \E r \in Receipts : PhoneAcks(r) \/ PhoneExpires(r)
  PROVE  PagerStep
<1> USE DEF dbVars, chainVars, startVars, webVars, logVars, phoneVars
<1>1. TypeOK /\ NothingToResume /\ UsersFit
  BY DEF IInv, Pages
<1>2. UNCHANGED task => Due' = Due
  BY DEF Due
<1>3. ASSUME NEW a \in Alarms, Raise(a) PROVE PagerStep
  <2>1. PICK s \in Tasks : /\ ~Running(s) /\ task'[s] = NewTask("first", "post", a, None)
                           /\ \A u \in Tasks \ {s} : task'[u] = task[u]
    BY <1>1, <1>3, RaiseEffect DEF Adds
  <2>2. Due' = Due \cup {a}
    BY <2>1 DEF Due, Running, NewTask
  <2>3. Promise!Raise(a)
    BY <1>3, <2>2, BellStays DEF Raise, Promise!Raise
  <2>4. QED
    BY <2>3 DEF PagerStep, Promise!Next
<1>4. CASE WebAckAll \/ \E a \in Alarms : WebAck(a)
  <2>1. \E S \in SUBSET raised : acked' = acked \cup S
    BY <1>1, <1>4 DEF WebAckAll, WebAck, UsersFit
  <2>2. Promise!Acknowledge
    BY <1>2, <1>4, <2>1, BellStays DEF WebAckAll, WebAck, Promise!Acknowledge
  <2>3. QED
    BY <2>2 DEF PagerStep, Promise!Next
<1>5. ASSUME NEW a \in Alarms, WebCallback(a) PROVE PagerStep
  <2>1. Due' = Due
    BY <1>1, <1>5, CancelIsNotDue DEF WebCallback, CancelFor
  <2>2. QED
    BY <1>5, <2>1, BellStays DEF WebCallback, PagerStep
<1>6. CASE WebListOpen \/ Start \/ ResumeRead \/ ResumeDone
  BY <1>2, <1>6, BellStays DEF WebListOpen, Start, ResumeRead, ResumeDone, PagerStep
<1>7. \A a \in Alarms : ~ResumeNext(a)
  BY <1>1 DEF ResumeNext, NothingToResume
<1>8. ~Crash
  BY DEF Crash, OneLife
<1>9. ASSUME NEW r \in Receipts, NEW b \in {"acked", "expired"},
             phone[r] = "ringing", phone' = [phone EXCEPT ![r] = b],
             UNCHANGED <<dbVars, task, owner>>
      PROVE  PagerStep
  <2>1. PICK a \in Alarms : a = owner[r] /\ Bell[a] = "ringing"
    BY <1>9, BellIs
  <2>2. \A s \in Receipts \ {r} : Live(s) => owner[s] # a
    BY <1>9, <2>1 DEF Pages, OneLive, Live
  <2>3. Bell' = [Bell EXCEPT ![a] = IF b = "acked" THEN "confirmed" ELSE "quiet"]
    <3>1. b \in Bells /\ b # "ringing" /\ owner' = owner /\ owner'[r] = a
      BY <1>9, <2>1 DEF Bells
    <3>2. Bell' = [Bell EXCEPT ![a] = IF b = "ringing" THEN "ringing"
                                      ELSE IF b = "acked" THEN "confirmed" ELSE "quiet"]
      BY <1>1, <1>9, <2>1, <2>2, <3>1, BellChanges
    <3>3. QED
      BY <3>1, <3>2
  <2>4. Promise!Confirm(a) \/ Promise!Quieten(a)
    BY <1>2, <1>9, <2>1, <2>3 DEF Promise!Confirm, Promise!Quieten
  <2>5. QED
    BY <2>4 DEF PagerStep, Promise!Next
<1>10. ASSUME NEW r \in Receipts, PhoneAcks(r) \/ PhoneExpires(r) PROVE PagerStep
  BY <1>9, <1>10 DEF PhoneAcks, PhoneExpires
<1>11. QED
  BY <1>3, <1>4, <1>5, <1>6, <1>7, <1>8, <1>10 DEF WebStep, StartStep

LEMMA StepPages ==
  ASSUME IInv, Pages, OneLife, [Next]_vars
  PROVE  PagerStep
<1>1. CASE UNCHANGED vars
  BY <1>1, BellStays
  DEF vars, dbVars, chainVars, phoneVars, PagerStep, Due
<1>2. QED
  BY <1>1, TaskPages, WatcherPages, OthersPage DEF Next

LEMMA InitPager == Init => Promise!Init
<1> SUFFICES ASSUME Init PROVE Promise!Init
  OBVIOUS
<1>1. Due = {}
  BY DEF Init, Due, NoTask
<1>2. Bell = [a \in Alarms |-> "quiet"]
  BY DEF Init, Bell, Rings, Confirmed
<1>3. QED
  BY <1>1, <1>2 DEF Init, Promise!Init

(* The emergency chain is the pager it is meant to be: a new emergency is  *)
(* decided on only for an open alarm whose bell is quiet, an               *)
(* acknowledgement is followed by at most one that was already under way,  *)
(* and an alarm confirmed on the phone never rings again.                  *)
THEOREM ChainIsPager == ASSUME OneLife PROVE Spec => IsPager
<1>1. IInv /\ Pages /\ [Next]_vars => [Promise!Next]_(Promise!vars)
  BY StepPages DEF PagerStep, Promise!vars
<1>2. QED
  BY InitPager, OneLifePages, <1>1, PTL DEF Spec, IsPager, Promise!Spec
=============================================================================
