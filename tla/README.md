# AjaxAlarmCentral in TLA+

AjaxAlarmCentral is a home alarm-receiving centre. An Ajax hub sends SIA DC-09
messages; the program stores them, shows them on a dashboard, publishes them on
MQTT, and makes a phone ring through Pushover until someone acknowledges. This
directory holds its TLA+ specifications, the TLC configurations that check
them on small instances, and the theorems TLAPS proves for every instance.

    tlc -workers 2 -config PushoverSafety.cfg Pushover       # model-check
    tlapm PushoverProofs.tla                                 # check the proofs

The configurations belong to the modules Pushover (`Pushover*.cfg`), MCWatchdog
(`Watchdog*.cfg`), MCStatus (`Status*.cfg`), MCPipeline, MCDashboard and Selftest.

Paths below are under `src/src/ajaxcentral/` unless they name another directory.

## 1. Inventory

One asyncio process. Code between two awaits is atomic; everything else
interleaves at the awaits. The database (SQLite through SQLAlchemy) is the only
thing that survives a restart, apart from what Pushover keeps.

    hub --SIA--> receiver --> normalize --> pipeline --> database
                                              |  ^            |
                       watchdog, selftest ----|--+            |
                                              v               |
                                 state ---> event bus         |
                                           /    |    \        |
                                 dispatcher   MQTT   WebSocket
                                      |                   dashboard (acknowledge)
                                      v                        |
                                  Pushover <---- cancel_for ---+
                                      ^  v
                                      phone (rings, confirms)

| component | state | operations | correct when |
|---|---|---|---|
| Pushover chain, `notify/pushover.py` | receipts per alarm (also a database row), a watcher task per followed receipt, running sends | `send`, `_watch_receipt`, `_alarm_again`, `cancel_for`, `resume_open_alarms`, `start`, `stop` | an open alarm rings until acknowledged, one emergency at a time; an acknowledgement on either side reaches the other; nothing is acknowledged or silenced by itself |
| Dispatcher, `notify/dispatcher.py` | a bus subscription, running sends | take an event, apply the rules, spawn a send | every alarm the rules admit gets a send; an error is logged |
| Acknowledgement routes, `web/app.py` | handlers between their awaits | acknowledge one, acknowledge all | the callback runs for every alarm that was acknowledged |
| Life cycle, `main.py`, `tasks.py` | what has been started | ordered start and stop, crash | no event is handled twice or lost because a component is not up yet |
| Database, `db.py`, `models.py` | events, state rows, logs | insert, acknowledge, set_state | a row says what the last writer meant |
| Watchdog, `watchdog.py` | reported flag, last report, clock report | a check every ten seconds | a silent hub is reported, repeated until acknowledged, and its return reported |
| Pipeline and bus, `pipeline.py`, `bus.py` | a bounded queue, a bounded queue per subscriber | submit, store, publish, drain | events in order; none lost below the bound; an outage of the storage is shown |
| System state, `state.py` | armed partitions, troubles, contact, open-alarm count | apply, restore | the dashboard and MQTT say what the log implies |
| Rules, `notify/rules.py` | dedupe stamps | should_notify | an alarm always passes; a repeat within the window does not |
| Self-test, `selftest.py` | a run per week | run, ring, confirm | one ring per planned moment; a confirmation proves something and is kept |
| Normalisation, `normalize.py`, `ajax_codes.py` | none | code to category and severity | no alarm code ends as information |
| Configuration, `config.py` | none | validation, quiet hours, thresholds | quiet hours across midnight; a threshold above the ping interval |
| Receiver, `receiver.py` | none of its own | library callback to `submit` | every decoded event is submitted |
| MQTT, `mqtt/publisher.py` | a connection | publish per event, reconnect | the state published last is the state |
| Front end, `web/static/` | none of the alarm chain | rendering | - |
| Authentication and texts, `web/auth.py`, `notify/text.py` | none | hashing, wording | - |

What makes the program hard is the Pushover chain: an alarm is handed from the
dispatcher's task to a watcher, to a resend and back, with several awaits in
each, while a dashboard handler, the start-up loop and a phone act on the same
alarm, calls fail or lose their answer, and the process restarts with what the
database happened to hold. After it come the watchdog (a decision taken across
an await, with flags a restart forgets), the counter of open alarms (assigned
from queries that may be old), and the queues (bounded, dropping). The hazards
are listed with their lines and properties in `PROJECT.json`.

## 2. Modules

| module | models | abstract specification | proofs |
|---|---|---|---|
| Pushover | `notify/pushover.py` with its callers | Pager | PushoverProofs, PagerProofs |
| Watchdog | `watchdog.py` | - | WatchdogProofs |
| Pipeline, on EventBus | `receiver.py`, `pipeline.py`, `bus.py`, `notify/dispatcher.py`, the order in `main.py` | Feed | PipelineProofs |
| Status, on Messages, on Codes | `state.py`, `notify/rules.py`, the replay in `db.py`; `normalize.py`, `config.py`; `ajax_codes.py` | the "last word" operators at the end of Status | StatusProofs, on MessagesProofs |
| Selftest | `selftest.py` with `test_ring` and the receipt it leaves | - | SelftestProofs |
| Dashboard | `open_alarms` with the routes of `web/app.py`; `mqtt/publisher.py` | - | DashboardProofs |

Pipeline composes the receiver, the queue, the storage, the bus and the
dispatcher; what a send does after the dispatcher has started it is Pushover,
and Pipeline sees only that it ends. What Pipeline's `Apply` does to one trouble,
Status does to all of them; Status processes one event at a time, because the
pipeline does, and leaves the queues to Pipeline. Dashboard takes the
three awaits of `_process` around the count apart, which Pipeline need not.
Selftest has its own copy of the watcher, because the receipt under the key
"selftest" is overwritten and followed by other rules than those of alarms.

Left for later:

- a composition of the watchdog's HUBOFF reports with Pager (`watchdog.py:122` says the escalation stops after a fixed number of rings, while the chain rings until acknowledged, so that repeated reports add up).

Every invariant and every action property that a run checks is also a theorem,
and so are both refinements. The liveness properties are not: see section 10.

## 3. The emergency chain: module Pushover

A step is what one task does between two awaits. `pc` names the await a task or
watcher is in; the action guarded by it is the completion of that await with
all code up to the next. An await that neither reads nor writes modelled state
(a sleep, a log row) is merged with its neighbour unless its failure matters.

| model | code |
|---|---|
| `raised`, `acked` | rows of `events` with severity alarm in an emergency category, and their `acknowledged_at` |
| `saved` | the state row `pushover_receipts` |
| `receipts`, `watcher` | `_receipts`, `_watchers` with the point each task is at |
| `task` | coroutines: sends of the dispatcher (`first`), of `resume_open_alarms` (`resume`), of `_alarm_again` (`again`), and `_cancel_receipt` (`cancel`) |
| `phase`, `todo` | how far `Application.start` is; the rows the resume loop still holds |
| `callbacks`, `listed` | dashboard handlers between commit and callback; `acknowledge_all` between list and update |
| `gaveUp`, `broken` | sends that logged "failed"; tasks that ended on a database error |
| `phone`, `owner` | Pushover's side of each receipt |

Sending is `Raise`, `PostAccepted`, `PostFailed`, `PostAnswerLost`, `SendLogged`,
`SendSaved`, `SendFailed`, `AgainChecked`. `_remember` and `_forget` change the map
and serialise it at once (`snap`), and `set_state` commits that copy later. That
is why a snapshot is part of the state of a task.
Following is `WatcherChecked` (the database first, then Pushover), `WatcherPolled`,
`WatcherPollFailed`, `WatcherSaved`, `WatcherRevoked`, `WatcherAcked`,
`WatcherAckLogged`, `WatcherExpired`. Cancelling is `CancelFor` with `CancelForgot`,
`CancelSaved`, `CancelPosted`. The dashboard is `WebAck`, `WebListOpen`, `WebAckAll`,
`WebCallback`; starting is `Start`, `ResumeRead`, `ResumeNext`, `ResumeDone`.

What may go wrong is the constant `Faults`:

- *crash*: the process ends anywhere, or is stopped (`Application.stop` cancels all these tasks, so for this state the two are the same);
- *answer*: Pushover accepts a POST whose answer is lost;
- *cancel*: the POST that cancels a receipt fails;
- *db*: a database call raises;
- *early*: an alarm arrives while `start()` is between starting the receiver and the query of `resume_open_alarms`.

A POST refused, a POST that does not arrive and a GET that fails are not in the
list: they are always possible.

Choices a reader may want to question:

- A watcher cancelled inside `set_state` may or may not have committed: `CancelFor` allows both.
- A database error in the query of `resume_open_alarms` ends `start()`, and is a *crash* here.
- The `_done` callback that clears a finished watcher is one step with the end of the task.
- Receipts are unbounded in the code. Here a receipt that no longer rings, was not confirmed and is mentioned nowhere stands for a new one (`Fresh`). Confirmed receipts are never reused, so `PhoneAcks` keeps one receipt unconfirmed; that is a bound.
- An emergency does not expire while the send that created it writes its log rows: expiry takes at least minutes, those rows milliseconds.
- `Tasks` bounds the coroutines that run at once; an action that spawns waits for a slot.
- An alarm whose row could not be stored has no id and is not modelled here; nor are messages of other severities, which have no receipt, nor the test ring, which belongs to Selftest.

**Pager** is the promise per alarm: a bell that rings for one emergency at a
time, where a new emergency is decided on only while the alarm is open and the
bell is quiet, and a confirmed bell stays silent. `IsPager` maps `due` to the
alarms with a POST under way and `bell` to what the phone does.

### Runs

| run | shows |
|---|---|
| `safety` | with every fault: types; no open alarm is dropped without a trace (`NoAlarmForgotten`); only users acknowledge (`AckedByUser`); only acknowledged alarms are silenced (`SilencedWhenAcked`); an open alarm rings again and again until acknowledged, unless a send gave up or a task ended on a database error, both with a line in the log (`EscalationNeverStops`) |
| `live` | without the faults: the chain implements Pager, at most one emergency per alarm rings, one acknowledgement silences for good, a confirmation reaches the database |
| `first_send` | violated: `RingsUntilAcked`, see finding 1 |
| `early_alarm` | violated: `AckSilences` with *early*, see finding 2 |
| `stored_receipts` | violated: `FollowedSurvivesRestart`, see finding 3 |

Bounds. One alarm and two receipts make every conflict there is between a send, a
resend, a resumed send and a cancellation of one alarm; alarms share only the
stored map, and `stored_receipts` has two alarms for that. Two task slots let a
send or resend overlap with a cancellation. Two attempts per POST have a first, a
last, and a 4xx that ends early. The five properties of `safety` were checked with
three slots (805,000 states) and with three receipts as well, and hold. A larger
instance (two alarms, three slots, failing cancels, 2.1 million states) was checked
for the type invariant, `NoAlarmForgotten` and `OneEmergency` and holds. A lost
answer leaves a ring that nobody follows and uses up its receipt; when all have
gone (`Fresh = {}`) the model cannot send, and `EscalationNeverStops` says nothing.

Fairness. Weak fairness of each task and watcher: the event loop serves its
ready queue in order, and each await is a sleep, a database call or an HTTP call
with a time limit. Strong fairness of an accepted POST and an answered GET:
single attempts may fail, but not all for ever. A process that is killed is
killed finitely often (`<>[][~Crash]_vars`). No fairness for a person or for an
expiry. The cancel POST is tried once, so with *cancel* `AckSilences` is not claimed.

### Findings

1. A first send whose attempts all fail is never repeated while the process runs. `src/README.md:24` and `:147-149` promise that it rings until someone confirms.
2. An alarm stored while `start()` is before `resume_open_alarms` is sent twice; one of the two emergencies is followed by a watcher, the other is filed as the receipt, and an acknowledgement in the dashboard cancels only the latter.
3. Two overlapping `set_state` calls may commit in the opposite order, so that a followed receipt is missing from the row that should let it survive a restart.

### Proofs

`PushoverProofs` proves, for all sets of alarms, receipts and task slots, every
number of attempts and every set of faults:

- `TypeCorrect`: `Spec => []TypeOK`
- `NoneForgotten`: `Spec => []NoAlarmForgotten`
- `OnlyUsersAcknowledge`: `Spec => AckedByUser`
- `SilencedOnlyWhenAcked`: `Spec => SilencedWhenAcked`

Assumed are `NoneIsFresh` (None is neither an alarm nor a receipt),
`PostAttemptsPositive` and `FaultsAreKnown`. The sets need not be finite.

The last two are about steps: that a watcher acknowledges alarm *a* because a
receipt *of a* was confirmed needs to know that the receipt it polls was sent
for *a*, also after a restart, when the receipt comes from the database, and
also while it is only in a snapshot of a `set_state` under way. So the
invariant `IInv` adds to `TypeOK` and `NoAlarmForgotten`:

- `MapsBelong`: every receipt in `receipts`, `saved` or a snapshot belongs to the alarm it is filed under;
- `TasksFit`: a task has the receipt its pc implies, of its own alarm, and a cancelling task one of an acknowledged alarm;
- `WatchersFit`: a watcher follows a receipt of its own alarm, is about to cancel only when the alarm is acknowledged, and about to acknowledge only when the receipt was confirmed;
- `UsersFit`: a callback is under way only for an acknowledged alarm, and the lists of the dashboard and the start-up loop hold only raised alarms.

What keeps `MapsBelong` is that a new receipt is `Fresh`: mentioned nowhere, so
giving it an owner changes the meaning of no map. Each part has a step lemma
with one step per action; `IInv` was checked with TLC before it was proved.

`PagerProofs` proves the two properties of `live` that say what a ring is for, for
all sets, and for every set of faults without *crash*, *answer* and *early*
(`OneLife`), while the run leaves out all five:

- `OneEmergencyAtATime`: `Spec => []OneEmergency`
- `ChainIsPager`: `Spec => IsPager`

Each of the three faults makes them false. A restart between a POST and the
commit of its receipt resumes an alarm whose bell rings already; a lost answer
leaves a ring nobody knows of; an early alarm is sent twice (finding 2). Database
errors and failed cancellations do not. The invariant `Pages` adds to `IInv`

- `NothingToResume`: in its one life the process resumes no alarm;
- `OneInCharge`: of the tasks and watchers, at most one is in charge of an alarm, which is what the handing over from send to watcher to resend has to preserve;
- `OneLive`: at most one receipt of an alarm rings;
- `LiveIsHeld`: a receipt that rings or was confirmed is the one that whoever is in charge of its alarm holds.

So a POST finds the bell quiet: the task that posts is the one in charge, and
holds no receipt. For `IsPager` each action is then a step of Pager, most of them
stuttering; `PostAccepted` is the ring, `PhoneAcks` and the cancellations the rest.

Only model-checked: the liveness properties. `RingsUntilAcked` and
`FollowedSurvivesRestart` are false.

## 4. The watchdog: module Watchdog

Time is a set of ages that grow with `Tick`, each up to a cap beyond which no
comparison tells it apart, so the model is finite without a bound on time.
Steps of the program take no time. What takes time: the sleep between two checks
(`CheckEvery`), a lookup in the database (at most `ReadTicks`, a bound), the way of
a message through the pipeline (at most `Lag`, a bound). Tick is disabled when the
loop has something to do.

| model | code |
|---|---|
| `lastContact`, `startedAgo`, `hubOnline`, `offset` | `SystemState.last_contact`, `started_at`, `hub_online`, `clock_offset_seconds`; the smoothed offset is kept only as its place between the two limits, since a message may move it anywhere |
| `pc`, `timer`, `found` | where `_run` and `check` are: sleeping, in `get_event`, or with its answer |
| `reported`, `reportAge`, `row` | `_offline_reported`, `_last_report_at`, and what the pipeline and a user did with `_last_report` |
| `clockAge` | `_clock_reported_at` |
| `told`, `orphaned`, `lateFor` | history for the properties: what was published last, whether nobody will take an "off" back (the process that published it is gone, or a full queue refused its HUBON), how long the clock has been late |

`Check` is `CheckClock` followed by one of `ReportOffline`, `ReportReturn`,
`RepeatOrLookUp`, `NothingToReport`. With a stored report `_should_repeat` awaits
the database: `LookUp` reads, `Decide` goes on with that answer without looking at
the hub again, and contacts and acknowledgements may come in between. A report
without a row (still queued, or not stored) is answered at once.

While the process is down `lastContact` is the age of the newest hub event in
the database, from which `Start` restores it; when storing may fail, that is
older than the last contact, or there is none. `Start` takes no time: what the
program needs between creating its state and starting the watchdog counts as
time it was down. A row older than seven days is one at the cap.

Runs. `watchdog` (thresholds of three ticks, checks of one, lookups and messages
of at most one, crashes, database failures and a queue that may refuse HUBON) shows that

- a silence is reported within a round, a check interval plus a lookup, over the threshold (`SilenceReported`);
- the last report, unless acknowledged, is repeated within the interval plus a round, even if it was not stored (`RepeatedUntilAcked`);
- `hub_online` is true only for a hub heard within threshold plus a round, and false only for one not heard in this run within the threshold (`OnlineMeansHeard`);
- a late clock is warned of within a round and again daily (`LateClockWarned`);
- a hub that keeps speaking is said to be back, if the process that said otherwise still runs (`ReturnReported`). `pipeline.submit` drops an event for which the queue has no room (`pipeline.py:46-51`) while `_offline_reported` is cleared all the same: that return is not reported, and only logged.

The same properties were checked with a threshold of seven, checks and lookups
of two and an interval shorter than a check. Fairness: time passes, the loop
runs, a stopped process is started, crashes end. The hub's speaking is a
premise of the property and not a fairness condition.

`return_lost` is finding 4: violated `ReturnAlwaysReported`. After a restart during
an outage the hub may speak before the first check; then no HUBON follows, though
`src/docs/project-context.md:120` promises one. The model also shows, without a
promise that forbids it, that a restart after a long downtime reports HUBOFF at
its first check: the silence is counted from the last stored contact.

Proofs. `WatchdogProofs` proves the types and the four invariants for all times and faults,
under `TimesAreNatural`, `SwitchesAreKnown` and `ChecksSeeContact`: delay, check
interval and lookup together do not exceed the threshold. The code does not
enforce the last one; its defaults (150 s against 10 s) satisfy it. None of the
four is inductive, because each bounds an age by a whole round. `IInv` replaces the
round by the part of it that has passed (`Elapsed`, `SinceYoung`): a Tick adds one to
both sides, and a Check starts a new round with an age it has just compared.
`ReturnReported` is a liveness property and only model-checked.

## 5. From the hub to the dispatcher: Pipeline, EventBus, Feed

| model | code |
|---|---|
| `queue`, `cur`, `step` | `EventPipeline._queue`, the event in `_process`, and whether its `store_event` has committed |
| `broken`, `trouble` | `_storage_broken`; the storage trouble in `SystemState.troubles` |
| `log`, `acked` | the rows of `events` and their acknowledgement |
| `subscribed`, `inbox` | `EventBus._subscribers`, a queue for each |
| `sending` | the send tasks of the dispatcher |
| `mode` | up, between the first and the last step of `Application.stop`, or down |
| `published`, `heard`, `submitted`, `refused`, `lost`, `skipped`, `handled`, `steady` | history for the properties |

`HubSubmits` is the receiver's callback, which cannot wait: the hub has its
acknowledgement, and a full queue refuses the event. `Get`, `Commit`, `Stored` and
`StoreFailed` are `_process`; `Spread` is its end, from `apply` to `publish`, the same
whether the event was stored or not. `Put` gives up the oldest event of a full
subscriber. `Start` is `Application.start` up to the resumption of open alarms;
`BeginStop` and `StopDrained` are the two halves of `Application.stop`, and `Crash` is
also the time-out of five seconds in `pipeline.stop`.

**Feed** is the promise of the bus without queues: one log that only grows and a
cursor per reader. The refinement maps the cursor to the length of the log
minus that of the queue, so `IsFeed` says that a queue always holds exactly the
last events published.

Run `pipeline`: two alarms, of which one is resumed after a restart, a second
subscriber, a pipeline queue of one, subscriber queues of two, two failing calls. `NoAlarmLost` accounts for
every alarm that submit accepted, and names what the code gives up on purpose:
`refused`, `skipped`, and `lost`, which is what was only in memory, or not of an
emergency category, when the process ended. A planned stop can lose the second
kind too, because the dispatcher is cancelled with its queue right after the
pipeline has drained into it. `OutageShown` ties the trouble on the dashboard to
the last call to the database; it excepts a process that started with a trouble
in its log (a crash loses a DBOK that is queued, and the trouble stays for the
seven days of the replay) and one whose queue refused a notice, since notices
are not repeated. `AlarmHandled` is liveness: a stored emergency is handled, also
through restarts.

A pipeline queue of one is full after one event. Subscriber queues of two have an
order, which `IsFeed` is about, and still overflow, since the hub may raise two
alarms while a failing database adds notices of its own. Two failures make an outage
that begins while the notice of the last one is queued. A pipeline queue of two
was checked for all the properties as well, and so were subscriber queues of one.
Fairness: the loop runs every task that can run, a call to
the database returns or raises, a send gives up after its attempts, a process
that ended is started again, and is stopped or killed finitely often.

`PipelineProofs` proves all four safety properties, for all sets and sizes.
`IInv` adds to them

- `ModeFits`: a process that is down holds nothing, one that runs has its dispatcher subscribed (without it, `publish` would drop an alarm);
- `QueuesFit`: each queue is within its size and an end of the log (lemmas `EndsAppend` and `EndsTail` say that this survives a put and a get);
- `OutageOnItsWay`: the newest notice in the queue or in hand says how the last call to the database ended, and if there is none, the state says it.

The argument for `NoAlarmLost` is that a step of the running process moves alarms
only inside `Known`, the union of the places one may be (`StillKnown`), and that the
end of the process divides `Known` into what the log resumes and what is lost
(`DownKeepsLog`). `BusIsFeed` shows each operation of the bus to be one of Feed's.

## 6. What an event means: Codes, Messages, Status

Codes has the whole table of translated codes and, for other codes, `_guess`:
the table of the library is the constant `Sia`, which gives for a code the hint
words its description contains. `WordsAreSubstrings` is assumed because the code
searches substrings. Messages has `normalize`, `internal_event` and `simulated_alarm`
field by field; a number is a value with a count of leading zeros, which is
all the lookups tell apart. Times are integers and a day has `Day` units.

| model | code |
|---|---|
| `partitions`, `troubles`, `lastAlarm` | the fields of `SystemState` of those names |
| `log` | the rows of `events`, by the number of their event |
| `recent` | `NotificationRules._recent` |
| `Apply`, `Targets`, `ApplyTrouble` | `SystemState.apply` |
| `ShouldNotify`, `Held`, `IsDuplicate`, `Stamped` | `should_notify`, and the sweep of its table |
| `Purged`, `Young`, `Listed`, `Replayed`, `Restart` | `purge_old_events`, `list_events`, `restore_from_db` |

Run `status`: three events out of eight hub messages (the same detector with and
without zeros and in both formats, two groups and the whole house, a partial
arming with a late stamp, a code outside the table, scrap), two
internal codes and test alarms, any of them not stored; restarts; a replay of at
most two rows of two ticks; a dedupe window of two and a table that is swept at
its second entry, so that every limit is passed. The status is the last word on
each subject (`StatusIsLastWord`, against a definition that does not fold; a
trouble is a category and an id, "2" and "02" being two of them);
a restart agrees with it about all that the replayed rows speak of
(`RestartAgrees`); a rule holds back only a repetition (`EveryDetectorHeard`); an
unknown code that speaks of an alarm gets past every rule (`UnknownAlarmRings`); a
detector has one name (`OneNamePerDetector`); the night is local
(`NightIsLocal`).

`trouble_stays` is finding 5: violated `RestoralClears`, which takes the detector
itself as the subject. The trouble of detector "2", in Contact ID, is not cleared by the
restoral of "02", in SIA, though `state.py:131` says that a restoral clears the trouble
of the same detector and `config.py:315-319` that the hub writes one detector both ways.
Its name is found by number (`OneNamePerDetector`), its trouble is not.

Rows are numbered by their events, so that a row that was never stored or has been
purged leaves a gap. Numbers and times of reception grow together, which is why
`list_events`, ordered by time and then id, and the replay, in the opposite order, are
both by number.

Limits. The clock does not go back, and the dispatcher looks at an event when it
is published. `RestartAgrees` holds because `Retention` is not below `Lookback`
(by default 730 days against seven), which the configuration does not enforce: with a
shorter retention the purge takes a newer row and keeps an older alarm, which the
replay then revives. `Limit` and `Lookback` are real limits of the code (5000 rows,
seven days): what only older rows spoke of is forgotten.

### Proofs

`StatusProofs` proves all the properties of run `status`, for every table of the library,
configuration, set of messages and internal codes, and number of events:

- `EveryoneHeard`, `LastWordCounts`, `UnknownAlarmsRing`, `NightsAreLocal`, `Types`: `Spec => []EveryDetectorHeard`, `[]StatusIsLastWord`, `[]UnknownAlarmRings`, `[]NightIsLocal`, `[]TypeOK`;
- `OneName`: `Spec => []OneNamePerDetector`, if no two entries of `config.devices` give different names to one number (`OneNamePerNumber`). With "02" and "2" under two names the property is false, and the configuration allows that;
- `NothingChangesAtRestart`: `Spec => RestartAgrees`, if nothing is purged that would be replayed (`KeepsLongEnough`); false otherwise, see above.

Assumed are the types of the constants (`SettingsAreNumbers`, `HubSendsMessages`,
`TablesAreFilledIn`, `MarksAreNoNumbers`, `NightIsInDay`, `DayIsLong`, `WindowIsNatural`),
that the program submits only codes of its own (`OwnCodesAreInternal`), and that
the library has none of these in its table (`OwnCodesAreNoSia`).

`EveryDetectorHeard` rests on `RecentIsTold`: the table never holds a time at which
nothing was sent. The others rest on `StatusInv`:

- `RowsFit`: log and events heard agree where both have a number, and are in the order of time; each event is `Sound` by itself, that is, named, titled, placed and classified as the properties ask;
- `LogCovers`: unless an event was not stored, the log has all that was heard; and what a restart now would list has been heard, which a tick, a purge and another event keep (`NewestWithOlder`, `NewestOfFewer`);
- `Says`: each group, trouble and the last alarm is exactly what the last row about it left, times included.

`ApplySays` is the heart: one more event keeps `Says`. The running process uses it
once per event, and the replay once per listed row. The replay is a recursive
function: that it is defined (`ReplayedIs`) and says what its rows say (`ReplaySays`)
is an induction, carried out as the absence of a least counterexample
(`HasLeast`), since an induction rule with an operator as its parameter cannot
be used. After a restart the rows heard are the newest of those heard before
(`RestartListsNewest`), so the last word on anything they speak of is the same row
(`NewestAgree`).

`MessagesProofs` has what concerns one message. `NormalizeIsSound`: every message the
hub may send becomes a sound event. `NightWindow`: `_in_window`, with its two cases,
holds exactly the moments less than the length of the window after its start,
modulo a day. `GuessRings`: no hint that precedes "alarm" is anything but a
restoral. `MatchIs`: the three comparisons of `_match` give one name.

What the module shows of the code, without a promise that forbids it: a trouble
that returns within the window after its restoral is not notified
(`notify/rules.py:50`); troubles share a key per category and detector, so that
CLOCKOFF and DBFAIL overwrite each other (`state.py:191`); quiet hours are
compared with UTC (`notify/rules.py:44`) and the night with local time; and an
unknown code with "alarm" in its description may be of category arming, since
"arm" is a part of it (`ajax_codes.py:415`), which the emergency categories leave
out.

## 7. The test ring: module Selftest

A step ends where the code waits for the database or for Pushover.

| model | code |
|---|---|
| `runs`, `task` | the table `selftest_runs`; per row, where its `run_once` is |
| `target` | what `_run` sleeps for; `NoSlot` when it has ended, or when its next turn is after the last of `Moments`, which is a bound |
| `receipt`, `saved`, `watcher` | `_receipts["selftest"]`, the same in the stored row, `_watchers["selftest"]` with its step, and the ring it follows (or followed, when it has broken) |
| `phone` | Pushover's side of each ring |
| `click` | `acknowledge_latest` from the dashboard, between its read and its commit |
| `confirmed`, `crossed` | history: how often somebody confirmed on the phone, or on the dashboard with a click that was stored; whether a receipt was stored after `_forget` had dropped it |

Run `selftest`: two rows, planned or asked for, at three moments a week apart, one
click, crashes anywhere, and any call failing: the POST, the row of a new test, those
of `_forget` and of `acknowledge_latest` on the phone's side, which end the watcher
(`WatcherBreaks`), those of the click (`ClickBreaks`), and the one in `_check_overdue`,
which is outside the `try` (`selftest.py:102`), so that `_run` ends and no test is
planned until the next start (`PlanNext`). `OncePerSlot`: a planned moment rings
once. `NoFreeProof`: each confirmed row has a confirmation of its own, also when two
rings overlap and the late one is credited to the newest row. It excepts
`crossed`: a first ring confirmed while `_remember` of it is still
committing leaves a receipt that a restart follows again, and its
confirmation is then credited to a later row; TLC shows this when the exception
is dropped and there are three rows. `ConfirmationStands`: run_once never undoes a
confirmation. `ConfirmedRingCounts` and `CutOffRunReported` are liveness: the ring that
is followed is credited, unless the process goes down or a database error, which is
logged, ends its watcher; and a test cut off in the middle becomes a warning. The
second of two overlapping rings is not followed at all (`notify/pushover.py:231`), and
a restart exactly at the slot skips that week's test. Fairness is weak, of the
clock and of the watcher.

Two rows make every overlap of two rings and a credit to the wrong row; three
rows (without clicks) were checked for `NoFreeProof`. The moments straddle a
slot and a deadline. The bounds leave out changes of the local clock's offset.

`SelftestProofs` proves the types, `OncePerSlot` and `ConfirmationStands` for every
length of the day, slot, weekday, deadline and set of moments. `IInv` adds `Begun`
(a row exists exactly when its run_once has begun) and `PlannedAhead`: a planned
`target` lies after the start of every planned row that is over.
`NextRunIsAhead`, which is arithmetic on days and weeks, keeps it.

`NothingForFree` is `Spec => []NoFreeProof`, also for any number of runs. The argument
counts: each confirmation pays for at most one of the places where a proof may
be, a row that is credited, or a ring that was confirmed and will still be
credited. A click counts as a confirmation when it is stored. `Owing` says that
these places together are no more than the confirmations, unless `crossed`; a step
that credits a row empties another place or comes with a confirmation. It needs to know that only
a ring whose receipt has been remembered is followed or stored (`FollowsDone`), that
the process does not forget a stored receipt while a watcher has still to do so
(`StoredIsKnown`), and that a ring that is being credited is not stored any more
(`CreditedOnce`). The liveness properties are only model-checked.

## 8. The number of open alarms: module Dashboard

| model | code |
|---|---|
| `rows`, `open`, `groups` | the rows of alarms; `SystemState.open_alarms`; the number of groups in `SystemState.partitions` |
| `pipe`, `route` | `_process` and the three routes, between their query and their assignment, with the count they have read |
| `pub`, `inbox` | where `MqttPublisher._run` is, and its queue on the bus |
| `session`, `available`, `topic` | the broker: the session and last will, and the retained topics |
| `ended` | history: the last session ended with a clean disconnect |

Four writers assign `open_alarms` from queries that may be old when they do, and
the confirmation on the phone does not assign it at all. Run `dashboard`: two
alarms, one request of each route at a time, one lost connection, stop
or crash, one group that nobody configured. `DashboardSettles`: when people stop
acting, the number and the topics become and stay what the database says. The
fairness it needs is stated: heartbeats come (each makes the publisher write
every topic again), and somebody has the dashboard open, whose poll every thirty
seconds recounts. Without the poll it is false: after a confirmation on the
phone nothing recounts until the next alarm. `OnlineMeansSession`: the retained
"online" implies a session, or a clean disconnect.

Two alarms are the least for a count that is neither none nor all. The events of
the bus are one: each makes the publisher write everything. Topics of the hub
and of troubles are written the same way and left out.

`DashboardProofs` proves the types, for every finite set of alarms, and
`OnlineMeansSession`; the latter rests on the publisher being connected exactly
when the broker's session is alive, which is part of the types.
`DashboardSettles` is liveness and only model-checked.

Three things the model shows of `mqtt/publisher.py`:

- After a planned stop "online" remains. Cancelling `_run` leaves the client's context first, which disconnects cleanly, so that the broker drops the will; `_say_goodbye` then publishes on a client without a connection, and suppresses the error (`:88-100`). Its docstring (`:96`) promises a goodbye in place of the will.
- A message about an unknown group while `_publish_state` awaits inside its loop over the groups (`:143`) raises RuntimeError, which `_run` does not catch; nothing publishes until the next start. `Agrees` excepts this (`dead`).
- `_consume` subscribes after the first `_publish_state` (`:103`): an event in between is missed until the next one.

## 9. Not modelled

Listed with reasons in `PROJECT.json`. The front end, authentication, texts, the log
pages and their filters and the loading of YAML keep no state of the alarm chain
and hold no property. The SIA protocol is in the library pysiaalarm; it is
external here and gives decoded messages. Messages that ring no emergency are one
POST without a receipt. Changes of the wall clock are left out: every module
has a clock that only goes forward.

## 10. What the proofs leave to TLC

Liveness under fairness is out of the prover's reach: it would have to reason
about ENABLED. So these are shown only on the instances of the runs: `AckSilences`,
`ConfirmReachesDatabase`, `EscalationNeverStops`, `ReturnReported`, `AlarmHandled`,
`ConfirmedRingCounts`, `CutOffRunReported` and `DashboardSettles`. Most have a safety
part that is proved: nothing is silenced or acknowledged by itself, no alarm is
forgotten or lost, a silence is reported in time, a confirmation stands.

The theorems are about the models, with the bounds replaced by arbitrary
constants (`Tasks`, `MaxEvents` and the like), so no instance is too small for them;
what a model leaves out, its theorems leave out too.
