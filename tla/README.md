# Verification of the shennong device tree

This directory holds TLA+ models of the code in this repository that has behaviour
of its own, TLC configurations that check them, and TLAPS proofs. Nearly all of the
repository is data for other programs; the program in it is the fingerprint HAL in
`fingerprint/`, a service between the Android framework and the sensor vendor's
library.

## The system

| part | state it keeps | operations | talks to |
|---|---|---|---|
| `main.cpp` | the binder thread pool, of one thread | start, register the service | binder |
| `Fingerprint` | `mSession`, `sInstance`, the worker, the engine | `createSession`, `getSensorProps`, `notify` | framework, `Session`, engine |
| `Session` | `mIsClosed`, its callback, its death recipient | 13 operations that schedule a task, pointer events, `close`, `onClientDeath`, `notify` | worker, engine, framework |
| worker (external) | a queue of at most 5 tasks | `schedule`, run the oldest task | `Session`'s tasks |
| `FingerprintEngine` | the device handle, the two lockout timer flags, the illumination request | one `...Impl` per operation, `checkSensorLockout`, the timer, `setFingerStatus`, `onAcquired`, code conversion | vendor library, display driver, framework |
| `LockoutTracker` | failed attempts, mode, start of the timed lockout | `addFailedAttempt`, `getMode`, `getLockoutTimeLeft`, `reset` | – |
| `Legacy2Aidl.h` | none | translate an auth token | – |
| `FingerprintConfig` | a static table | read a property with a default | property library |
| vendor library (external) | what the sensor is doing, the active group | its function table, `notify` messages | `Fingerprint::notify` |
| `init/init_shennong.cpp` | none (system properties) | override product properties at boot | property service |
| `extract-files.py` | none | declare fixups of proprietary files | extraction tool |
| make files, overlays, `configs/`, `sepolicy/`, `rootdir/` | – | – | read by other programs |

Four kinds of threads meet in the HAL, and there is no lock in it:

* the **binder thread** runs `createSession`, the entry points of `Session`, `close`
  and `onClientDeath`. There is one (`main.cpp:27`), so these never overlap;
* the **worker** runs the tasks the entry points schedule, in order;
* the **vendor thread** calls `Fingerprint::notify`, which checks the current session
  and calls `Session::notify`, which calls the framework and the engine;
* a **timer thread** per timed lockout sleeps and then calls `lockoutTimerExpired`.

What is hard in this code, listed line by line under `hazards` in `PROJECT.json`:

* the lockout is spread over a counter, a mode, a start time, two flags, a sleeping
  thread and what the framework believes, and three kinds of threads change them;
* fields are read before they are written (`mIsClosed`, both timer flags, the mode and
  its start, `mDevice`): their first values are whatever the allocator left;
* tasks and messages outlive the session they belong to, and messages do not say which
  session or request they answer;
* the queue rejects tasks, the device refuses orders, `linkToDeath` fails, and most of
  these results are ignored;
* cancellation, closing, client death and late messages race with each other.

What makes each part correct: the **lockout** when failed attempts are counted and
forgiven only as specified, the framework always knows of it, and every timed lockout
ends; **sessions** when there is one at a time, each request ends once and is answered to
the right session, and nothing of a closed session is used; the **illumination** when
it is off after the last finger is lifted; the **conversions** when no value is changed
on the way.

## Modules

| module | models |
|---|---|
| `LockoutTracker` | fields and field accesses of `LockoutTracker.{h,cpp}` |
| `LockoutPolicy` | what the lockout promises, as an abstract specification |
| `EngineLockout` | the lockout logic of `FingerprintEngine` with its threads and timers; implements `LockoutPolicy` |
| `LockoutSessions` | `EngineLockout` with the sessions whose callbacks its threads hold |
| `HalSession` | `Fingerprint`, `Session`, the worker's queue, cancellation, closing and client death, answers |
| `Udfps` | what pointer operations and `setFingerStatus` tell sensor and display, as a specification of its own |
| `Messages` | `Session::notify` for the messages that meet the devices or the static list, and the tasks that lead to them; implements `Udfps` |
| `Callbacks` | the other messages, `Legacy2Aidl.h`, the conversion of codes, the widths of integers |
| `VendorInit` | `init/init_shennong.cpp` |
| `HalStart` | `main.cpp`, the constructors, opening the vendor library, `FingerprintConfig`, `getSensorProps`; composes with `VendorInit` |
| `MCEngineLockout`, `MCLockoutSessions`, `MCHalSession`, `MCMessages`, `MCCallbacks`, `MCHalStart` | small instances for TLC |
| `EngineLockoutProofs`, `LockoutPolicyProofs`, `LockoutSessionsProofs`, `HalSessionProofs`, `UdfpsProofs`, `MessagesProofs`, `CallbacksProofs`, `HalStartProofs` | proofs |

### LockoutTracker and EngineLockout

The unit of interleaving is one access to a shared field, one callback, or one thread
start. `pc[p]` is the place of thread `p` in the code; each action moves one thread by one
access. `LockoutTracker` gives what each access does to `mFailedCount`, `mCurrentMode`
and the start time; `EngineLockout` gives the order. So `addFailedAttempt()` is
`LoadCount`, `StoreCount`, `Raise`, `Stamp`; `getMode()` is `ReadMode`, `CheckElapsed`,
`Expire`, `Unstamp`; `reset()` is `ClearCount`, `ResetStart`, `ResetMode`; the rest of
`checkSensorLockout()` is `GetTimeLeft`, `TellTimed`, `NeedTimer`, `Spawn`, `MarkStarted`
or `TellPermanent`, `Abort`; `lockoutTimerExpired()` is `WakeUp`, `TellCleared`, the two
steps of `reset(true)`, `Unmark`, `Unabort`.

* `timedAge` stands for `now - mLockoutTimedStart`; past the duration all ages behave the
  same and are one value. `Unset` is a start of 0, and an age below zero a start in the future, which an
  unwritten field may hold: `MaxAhead` bounds how far ahead. A start so far off that the subtraction
  overflows is left out; what `Util::hasElapsed` makes of any start is taken to be the comparison its name
  says, as it is not in this repository.
* `getLockoutTimeLeft()` is not clamped: when the duration has passed since `getMode()`, the time left is
  negative, as ages past the duration are one value here -1, and goes to `onLockoutTimed` like that. Only the sleep
  (`SleepFor`, external) makes nothing of it.
* `getMode()` reads the mode twice; between the two reads (`ReadMode` at "getMode" and at "reread") another thread may
  write it.
* Threads enter with `Input`: a message AUTHENTICATED on the vendor thread (`AttemptFails`,
  `AttemptSucceeds`), an `onPointerDown` or a `resetLockout` task on the worker. A
  `resetLockout` whose token has no mac only reports an error and changes nothing here.
* The initial values of the four fields that no constructor writes are arbitrary if `GarbageAtStart` says so, as in
  the passing runs; `lockout_recognised` starts from zeros, to show that the policy fails without that.
* `reported` is the lockout the framework was told of last.
* `disturbed` is a history variable: it becomes true when two threads are in this code at
  once, and is true from the start when an unwritten field does not happen to be zero.
  The code has no lock, so hardly anything holds without that proviso, and the properties
  say so instead of leaving the interleavings out: all of them are in the model, and TLC
  checks the types in every one of them. What remains true without meetings is far from
  obvious, because messages, tasks and sleeping timers still come in any order.

### LockoutPolicy

The policy has no threads, no clock and no timers: attempts fail and are judged, a lockout
is consulted and told, lapses, is announced as cleared, is reset or lifted by a recognised
finger. `stage` says what has to happen next, so that a failure is always judged and told
before anything else. `EngineLockout` implements it under the mapping at its end: the count,
mode and report are the policy's, `stage` is read off the place of the thread that is in the code
(`PolicyStage`), and `kept`, which says whether the promise still holds, is `~disturbed`. When
two threads meet the promise is gone, and the policy then allows anything. The order in
which `addFailedAttempt`, `getMode` and the callbacks touch the fields is what the
refinement is about: a mode raised against a stale count, or a report that is not followed by
what was reported, is no step of the policy.

A recognised finger lifts every lockout in the code, even a permanent one, without telling the framework
(`Session.cpp:303`), and leaves the attempts counted. `fingerprint-xiaomi.h:331-333` names only `resetLockout` and time
as ways to clear a lockout. The constant `RecognitionLifts` chooses between the two policies: the one that
`lockout_safety` checks and the proofs are about allows the step and thereby shows what the code keeps even so, the one
of `lockout_recognised` does not, and is violated.

### LockoutSessions

The engine is shared by all sessions, while its threads speak through the callback they came
with. `cb[p]` is the session whose callback thread `p` holds: the vendor thread has that of the
current session, the worker that of the session whose task it took, a timer that of the thread
that started it. `knows[s]` is the lockout session `s` was told of last. Sessions are opened and
closed at any time, also between the test of `Fingerprint::notify` (`CheckSession`, after which `checked` is up) and the
second look at `mSession` that begins the handler (`VendorInput`), and the worker may still run tasks of those that
were closed. The engine's own
state and steps are those of `EngineLockout`, unchanged.

The instance stops where the threads have met (`CONSTRAINT UntilDisturbed`): all properties of the
run claim something only up to that point, the two liveness properties because being disturbed is one of
the ways out of their conclusion.

### HalSession

One action is one step of a thread between two points at which another can observe it:
an entry point of `Session` (one binder thread runs them one at a time), taking a task and
looking at its cancellation signal, running it, the check in `Fingerprint::notify`, the
dispatch that follows. `mSession` is read twice, as in the code. Requests pass through
`phase`; `queue` and `task` are the worker's; `answers` is the history, in order, of each request's terminal
callbacks with the session they went to. The last message of an operation brings one, and each message of
a removal does (`Session.cpp:288-294`); what such a message brings before the last is a `"part"`, of which
`MaxParts` bounds the number. `activeGroup` is the session whose user the device is set to: `SetActiveGroup` may be
refused, and then the new session goes on with the device as it was (`refused` remembers that). The operations differ in four ways that matter
here, which are sets: whether they can be cancelled, whether a refusal by the device
is reported, whether it is dropped, whether the device needs a finger.

External and modelled from their use: the framework, which opens a session when it has
none, and may close it, use it, cancel, or die; the worker, which rejects tasks when its
queue is full; the vendor library, which accepts or refuses an order, and then sends
messages about it, the last with the outcome. A death is heard on the binder thread
before the restarted framework comes in. When the CHECK of `createSession` fails the
process is gone and the model stops, hence no deadlock check (it also stops when the
bounds are used up).

### Udfps and Messages

A pointer event or a message of the sensor leads to up to six steps on its thread: two
coordinates, the status and the brightness mode of the sensor, a store into the request
that both threads share, and the `ioctl` that hands it to the display. `pc[p]` is the next of
them. Coordinates are zero or not, brightness is on or off. The display feature may not be open, or refuse the `ioctl`,
whose result nobody looks at: `panel` is then `"unreached"`, since the display goes on showing what it did, and
the properties hold the code only to a display that the last `ioctl` reached. That `goodixExtCmd`, whose
result is ignored as well, reaches the sensor is assumed. `doing[p]` keeps the last operation
and `overlap` remembers that the vendor thread lowered the status during the last press. That
each device command is carried out as a whole is assumed of sensor and display, which are
external. `UdfpsSpec` says which thread may begin what; it is the abstract specification
that `Messages` implements.

`Messages` adds what leads there: the bounded queue of the worker, whose tasks the lockout may
stop, the device's answers in `outbox`, the check of the session in `Fingerprint::notify`, and
the handlers. `message` is the message being handled and then the callback about to be made.
`enrollments` is the static list of the enumeration handler; `cut` remembers that a message of
an enumeration was lost or misdirected since the last report. What an acquired code leads to
depends on its byte (`AsByte`), as the enum it is cast to has one. The device answers an
enumeration with one message per fingerprint of the active group, or refuses it. The int that
holds the authenticator id has `2 * INT_HALF` values, 2^32 in the code. Sessions only open and
close here, since `HalSession` has the rest of their life.

### Callbacks

A session that stays open, with the worker's queue in front of the device and the device's
`outbox` behind it. The device (external) keeps what it was told: the challenges it issued, its
templates, the enrolment or authentication under way, its id, the last token. The framework (external) keeps
the last challenge, the operations it asked a finger for, the last new authenticator id and the list of
fingerprints, and uses them in its next requests, so that a value that is changed on the way comes back wrong. `told` and `presented` remember a converted value with what it
was made from. The widths are parameters, half of the number of values of each: `INT_HALF` for the
fingerprint ids, `LONG_HALF` for challenges, operations and the other ids, `ENUM_HALF` for the enums of the AIDL
interface. `translate` copies a mac of any length into the `hmac` (`Legacy2Aidl.h:25`): a mac that fits goes through
`enrollImpl`; one that is longer writes past the end (`enrollImplOverruns`), what follows is undefined, and the model stops
there. So the properties speak of every token, of any length, up to the first that does not fit. A 64-bit number goes as a challenge does, a field in network order as the timestamp does;
one field of each kind is modelled. The part of the `hmac` that a short mac does not reach is arbitrary, as it is
a local variable. The codes of the sensor are converted as the code does it, to a byte up to the vendor base and including it;
that a code of exactly 1000 is thus told as the plain code -24 is in the model, and no property is about it. That the enums are a byte wide and that `VENDOR` is 7 is external: the interface
definition is not in this repository.

### VendorInit and HalStart

`vendor_load_properties` runs to its end before services are started; each property is one action.
The image decides which of the properties exist, hence which are updated and which are added.

`HalStart` follows the main thread through the constructors, from one point at which something can
fail, or the vendor library can call in, to the next: the sensor type is read (an unrecognised one is fatal),
the engine looks at `mDevice`, which nobody has written, the module is found or not, opened or not, has
its version or not, takes the callback or not, the display feature is opened, the engine is stored in
the service object, the service is registered. Then the framework asks for the properties of the sensor and
opens and closes sessions. `notify` may come at any moment after the callback was handed over.
A process that dies (fatal type, failed registration, `setActiveGroup` on a null device) is started again by
init, with fresh memory. Properties persist and may be changed at any time, as a shell
may do; `MaxChanges` bounds how often.

## Runs

| run | question | bounds |
|---|---|---|
| `lockout_safety` | do type correctness, three invariants and two step properties hold in every interleaving, and does the code implement `LockoutPolicy`? | thresholds 2 and 4, duration 1, 4 failures, 2 timers (symmetric), garbage at the start, up to 1 ahead |
| `lockout_live` | does the timer flag come down, and is the end of a lockout told to the session that was told of it? | thresholds 2 and 4, duration 1, 4 failures, 1 timer, 3 sessions |
| `lockout_never_cleared` | does the framework hear of the end of every timed lockout? No | thresholds 1 and 2, duration 1, 2 failures, 1 timer |
| `lockout_recognised` | is a lockout lifted only by `resetLockout` and time? No | thresholds 2 and 4, duration 1, 4 failures, 1 timer |
| `sessions` | do requests end once, are late messages bounded, aborts justified, sessions closed once, orders given under the user they are due to, early cancellations honoured, accepted requests answered? | 2 sessions, 2 requests, a queue of 1, 4 operations, 1 part of a removal before the last |
| `session_refused` | does every request end with a callback? No | 1 session, 2 requests, a queue of 1 |
| `session_late_cancel` | is a cancellation always followed by an answer? No | 1 session, 1 request |
| `session_late` | does an order never reach the device under a later user? No | 2 sessions, 1 request |
| `messages` | is a lifted finger dark at once and in the end, do the devices agree, are undisturbed enumerations whole, do threads begin only what `Udfps` allows? | 2 sessions, 3 tasks of 4 kinds, a queue of 2, 2 codes |
| `messages_enumeration` | does an enumeration list only its user's fingerprints? No | 2 sessions, 2 enumerations |
| `callbacks` | are challenges, tokens, operations and ids the same on both sides, is the framework's list of fingerprints the device's, and is a recognised finger one it knows? | 4 tasks, a queue of 2, 2 fingerprints, 2 scans each, ints of 2 bits, longs of 3, macs up to one byte too long |
| `start` | do early messages, failed opens, deaths and changed properties do no harm, and is the device used in the end? | 3 images, 3 boot loaders, 2 changes among 7 settings |

Why the bounds are enough: with thresholds 2 and 4 the counter passes through no lockout,
the first failure of a timed one, a further failure during it, and the permanent one; a
duration of 1 gives a lockout that runs, one that is at its end and one that is over. Two
timers let them overlap, which is the worst the flag allows when threads race; as long as
they do not meet there is only one (proved), so one is enough in `lockout_live`. Three sessions let
the one a timer belongs to be closed and replaced twice while the timer sleeps. In
`HalSession` two sessions give a predecessor and a successor, two requests on a queue of
one a rejected one, and a removal of two fingerprints has a callback before its last; the invariants are
proved for all numbers. A start one step in the future is one that elapses later than the duration allows.

In `messages`, three tasks are a press, a lift and one more that can take the last place in the queue; the
messages about fingers are not bounded. A user with two fingerprints gives an enumeration
that can be cut in the middle. Of the codes one is a vendor code that ends the scan, and one is cut by a byte to `VENDOR`,
which does not.

In `callbacks`, four tasks are a challenge, an enrolment with it, an authentication and a removal, or two enrolments and a removal, or a challenge,
its revocation and a new one. One of the two fingerprints has an id that is negative as an int of 2 bits, one of the
two challenges is negative and the other does not fit into an int. One mac fills its buffer, one does not and one is too long. The
codes are a plain one, the vendor base, one above it and one that is neither a byte nor a vendor's. An enum keeps its width of a byte.

In `start`, the images are one with none of the properties, one with two partitions of nine and one with all.
One of the three types is not recognised, one of the two locations does not parse, and two flags can be set to what is not
their default. Two changes let the type be broken and repaired, or a flag change between two answers. Deaths
and restarts are not bounded.

`lockout_safety` explores 2.2 million states, `messages` 1.6 million, `sessions` 0.7 million, `callbacks` 0.4 million, the others less.

### Fairness

Threads that are inside the code are scheduled, timers wake up, and time goes on: weak
fairness of each thread's steps and of `Tick`. The worker and the vendor thread of
`HalSession` are scheduled, and deaths are heard. The device finishes what does not wait for
a finger (strong fairness of its last message, because messages are sent one at a time).
Worker and handlers of `Messages` are scheduled. In `HalStart` init goes on with its loop and starts the
service again, the constructors run, and a framework without a session asks for one again. Nothing
obliges a user or the sensor to do anything, so no fairness is put on inputs, on cancellation, on
closing, on changes of properties, or on operations that wait for a finger. That outside failures come to
an end is not a fairness condition but a premise of `ConnectedInTheEnd`.

### What the failing runs show

They are listed with the lines they contradict under `findings` in `PROJECT.json`:

1. `resetLockout` during a timed lockout leaves the aborted timer marked as started, so
   the next timed lockout gets no timer and is never announced as cleared
   (`FingerprintEngine.cpp:212`);
2. a recognised finger lifts a lockout, untold (`Session.cpp:303`);
3. refusals of five operations are ignored; a full queue has the same effect
   (`FingerprintEngine.cpp:128`, `Session.cpp:140`);
4. cancellation after the start is lost (`FingerprintEngine.cpp:156`);
5. tasks of a closed session run under the next user (`Session.cpp:50`);
6. an enumeration that is cut short leaves its fingerprints to the next user's
   (`Session.cpp:314`).

Further behaviour that a reader of the models should know of, for which there is no run:

* a timer that sleeps on when its lockout was lifted by a recognised finger ends a later timed lockout before its time
  (`FingerprintEngine.cpp:329`); the policy allows it;
* when the threads meet, a reset can be undone by a failure being counted (`LockoutTracker.cpp:37`), a lockout can lapse as it
  begins (`LockoutTracker.cpp:42`), and two timers can be started for one flag (`FingerprintEngine.cpp:309`): the properties
  of the lockout claim nothing then;
* a session whose `mIsClosed` starts as true is replaced without having been closed, when its client died before
  `linkToDeath` (`Session.h:117`); `AbortsOnlyForOrphans` and `ClosedAtMostOnce` hold for both first values;
* a session whose user the device refused works on the fingerprints of an earlier user (`FingerprintEngine.cpp:55`), which
  `OpenSessionsOrdersAreDue` allows;
* a removal of several fingerprints is told with as many terminal callbacks (`Session.cpp:293`), which `EndedAtMostOnce` allows;
* a session that is told of a timed lockout while a timer of an earlier session sleeps gets no timer, and
  never hears of the end (`FingerprintEngine.cpp:309`); `TimerTellsItsSession` speaks of the timer's session;
* the authenticator id is cut to an int when it is retrieved (`Session.cpp:332`, `Narrow` in `Messages`);
* a code of exactly 1000 is told as no vendor code, although `fingerprint-xiaomi.h:59` and `:79` say that these start there
  (`FingerprintEngine.cpp:276` and `:288`, `convert` in `Callbacks`);
* with `detect_interaction` on, that operation neither starts anything nor answers (`FingerprintEngine.cpp:171`);
* a device that could not be opened is tried again only because the next session kills the process
  (`ConnectedInTheEnd`).

## Proofs

`EngineLockoutProofs` proves, for every set of timers, every thresholds
`0 < LOCKOUT_TIMED_THRESHOLD < LOCKOUT_PERMANENT_THRESHOLD`, every duration above 0 and any
bound on the failures:

* `TypeCorrect`: the type invariant, in every interleaving;
* `LockoutIsAlwaysReported`, `OneTimerPerFlagHolds`, `TimerClearsOnlyTimedHolds`: the three
  invariants of `lockout_safety`;
* `FailuresForgivenOnlyByResetHolds`, `TimedLockoutNotProlongedHolds`: its two step properties.

The assumptions used are `DurationAssumption`, `AheadAssumption` and `TimersAssumption` (a timer is neither the
vendor thread nor the worker). `TypeCorrect` starts from every content of the unwritten fields, with any bound
`MaxAhead` on how far ahead a start may be.

None of them is inductive. Each speaks of moments at which the threads rest or a
timer is about to announce something, and the code gets there through several steps in
which flags, mode and report disagree. `IndInv` describes these: while nothing was
disturbed at most one thread is in the code (`Alone`) and one timer exists (`OneTimer`);
`isLockoutTimerStarted` is up exactly while a timer exists that will still take it down and
nobody is between starting it and raising the flag (`FlagIsExact`, `SpawnsUnmarked`); a mode
that the framework has not been told of belongs to a thread on the way to tell it
(`PermanentTold`, `TimedTold`); a sleeping timer that is not aborted belongs to a lockout the
framework believes in, or a thread is on the way to abort it (`SleeperIsDue`, from which
`TellsDue` follows when it wakes up); and a few facts about registers and fields at single
labels (`TrueAtLabel`, `CountIsFresh`, `StartIsFresh`). The proof that it is preserved has one
lemma per group of actions and one case per action; `DisturbedStays`, `RunsAlone`,
`EntersAlone` and `OthersRest` reduce each case to one moving thread. TLC found `IndInv` to
be an invariant of the instance of `lockout_safety` before it was proved.

`LockoutPolicyProofs` builds on `IndInv`: `EngineLockoutImplementsPolicy` says that every behaviour of
`EngineLockout`, in every interleaving, is one of `LockoutPolicy` under the refinement mapping. Once two
threads have met there is nothing to show. Before that only one thread is in the code, so the
policy's stage depends on that thread's place alone (`StageMoves`), and each of its steps is one step of the
policy or leaves all of the policy's variables alone. `PolicyInforms` adds what the policy is for.

`HalSessionProofs` proves, for any numbers of sessions and requests, any set of operations and any size of
the queue, type correctness and all five safety properties of `sessions`. The invariant `SessionInv`
ties together what they leave apart: the current session is the last one created, all before it
are closed, and the device has refused the user of each session since the one it is set to (`CurrentIsLast`); where `close` has run (`Closings`); a session that is open with nobody using it
has an obituary under way or is an orphan (`OpenIsWatched`, the reason why the CHECK fails only over
orphans); a message on its way is the first that can reach a session after `close` (`FirstStray`);
queue, task and phase of the requests agree (`Places`); and nothing but parts of a removal is told of a request before
its phase says that it has ended, or while its last message is on its way, whereas any other message belongs to a
request that the device still works on (`Silence`).
`BoundsAssumption` and `QueueAssumption` are used.

`UdfpsProofs` proves of `UdfpsSpec` that `LiftedIsDark` and `DevicesAgree` hold, in every
interleaving of the commands. `UdfpsInv` says what each thread has already done: the part of a
pointer up that is done stays dark because the vendor thread never brightens anything
(`UpLasts`), a press that is not overlapped is alone (`DownIsAlone`) and has lit what it got to
(`DownIsLit`), and what the vendor thread has lowered stays so unless the worker presses
(`VendorLasts`). `MessagesProofs` shows `Spec => UdfpsSpec` of `Messages`, step by step, and takes
both theorems over to it, for any number of sessions and tasks and any codes. Neither uses an
assumption on the constants.

`MessagesProofs` also proves what `Messages` promises of its own: type correctness, and `WholeUnlessCut`. That the
list is whole when it is reported is not inductive, because it says nothing of the way there. `MessagesInv`
follows the enumeration: the messages on their way are numbered down without a gap, and each is about the
fingerprint its number stands for (`InOrder`); and while nothing was cut the static list holds just the
fingerprints whose messages are gone, whatever handlers run in between (`ListIsExact`). `SizeAssumption`,
`TemplatesAssumption` and `CodesAssumption` are used.

`LockoutSessionsProofs` shows first that sessions add no behaviour to the lockout logic
(`SessionsImplementEngine`), so that everything proved of `EngineLockout` holds for one engine that all sessions share:
the lockout is reported, and the policy is kept. Then it follows the callbacks. `ClearedWhereTold` speaks of the moment
a timer announces the end of a lockout; `SessionsInv` adds where its callback came from: the thread about to
start a timer has told its own session of the timed lockout (`StarterTold`), a sleeping timer that nobody has
aborted, or is about to, holds the callback of a session that still believes in it (`SleeperIsAwaited`), and so does one
that has woken up (`TellsItsOwn`). The induction needs `IndInv` of the engine, from which
comes that no other thread tells the session something else meanwhile. `SessionsAssumption` is used.

`CallbacksProofs` is about data. Its lemmas state what the conversions do to every value: to unsigned and to
signed are inverse on the ranges of either (`SignedOfUnsigned`, `UnsignedOfSigned`), swapping bytes twice changes
nothing (`ReverseTwice`), and both kinds of token come back as they went (`TokenRoundTrip`, `HatRoundTrip`), the first for every
mac that fits. `CallbacksInv` carries them through the
queue and the outbox, in parts that do not depend on each other but for the types:

* `ChallengesMatch`: a challenge the framework holds, or is about to be told, is accepted by the device or has its
  revocation behind it in the outbox (`RevokedBehind`);
* `IdsMatch`: the last invalidation on its way, or else the last one told, has the id of the device;
* `FingersMatch`: the last message about a fingerprint says whether the device has it, and without such a message the
  framework knows already; and by the time a recognised finger is told, the messages before it have made the framework
  know that finger (`KnowsAfter`), although removals of it may be on their way behind;
* `OperationsMatch`: whatever waits in the queue, at the device or in the outbox was asked for;
* `ConversionsMatch`: `told` and `presented` hold what the conversions made of what they were made from.

Steps of the worker and of the device are alike in sending some messages and moving the device along with
them (`Follow`), those of `Session::notify` in taking the first message and letting the framework learn from it (`Learns`). The
invariant is proved once for each of the two, and then each action is shown to be of its kind. TLC found
all parts to be invariants of the instance of `callbacks` first. `SizeAssumption` and
`DataAssumption` are used; the latter says no more of a mac than that it is a sequence of bytes.

`HalStartProofs` proves the four invariants and the step property of `start`, for every image, all
settings of the properties and any number of changes, deaths and restarts. `LifeInv` says what a process
has done at each place of its constructors (there is no session before there is an engine; `mDevice` is
open only if the callback is registered; the type told is the one that was read), and `BootInv` which
properties the loop of `vendor_load_properties` has passed, and with what value. `SettingsAssumption` is used.

All safety and step properties of the passing runs are proved. Only model-checked is liveness, which needs fairness and
is beyond the prover: `TimerFlagComesDown`, `TimerTellsItsSession`, `EarlyCancelIsHonoured`, `AcceptedIsAnswered`,
`LiftedGoesDark` and `ConnectedInTheEnd`.

## Not modelled

* Messages of unknown types, FINGERPRINT_RESET_LOCKOUT among them: `Session::notify` only logs them.
* Whether a session or callback object is freed while a task or timer still refers to it: this depends on the
  references the binder library holds. The model follows which session is meant.
* The interface definition of AIDL: that callbacks are one-way, so that `close` does not wait for a
  framework that waits for it, is taken for granted.
* What happens to the display when a session is closed under a finger: nothing in the code does anything about it.
* The display commands of pointer operations on sensors that are not under the display: they run like any other
  in the code, and the models do not distinguish the types there.
* Calls that keep no state: `onUiReady`, `onContextChanged`, `onPointerDownWithContext` and the like, which
  answer or delegate at once; the setters of `FingerprintConfig`, which nothing calls.
* `extract-files.py`, device configuration, overlays, policies and tables: they have no behaviour here.

## Plan

1. An abstract specification of what `HalSession` promises a client (one session at a time, each request ended at most
   once, by the session that took it or by its successor), and a proof that `HalSession` implements it.
2. The safety half of `EarlyCancelIsHonoured`: that a request which was cancelled in the queue never reaches the device.
