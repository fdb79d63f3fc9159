# Verification of emergency-notifyd

This directory holds TLA+ models of the emergency notification system, the TLC
configurations that check them, and TLAPS proofs about them.  `PROJECT.json`
lists the components, runs, mutants, findings, hazards and theorems, and maps
every definition to the lines it models.

    tlc -workers 2 -config MCSiren.cfg MCSiren      # one run
    tlapm SirenServiceProofs.tla                    # the proofs of one module

## The system

Four processes on one board talk over ubus, each with a single uloop thread:

| component | state it keeps | operations | hard part |
|---|---|---|---|
| `emergency-notifyd` | statistics | `alarm.*` events; `status` | three synchronous calls with timeouts per event; services that hang, die, come back |
| `emergency-siren-service` | the pattern, its duration, two flags under `pattern_lock`; the PWM output | `alarm`, `cancel_alarm`, `status` | a worker thread per pattern, joined by the ubus thread; unlocked hardware writes |
| `emergency-led-service` | the same for three LED channels | the same | the same, and brightness taken from the device |
| `emergency-mqtt-service` | ring of 16 records, counters, the active alarm | `alarm`, `cancel_alarm`, `status` | a publisher thread, a condition variable, a broker that may be away |
| `libs/log` | chosen backend, category, zlog's own state | `init`, `deinit`, `log` | the statics are read from two threads without a lock; the services make one directory together |
| `emergency-notify-sim` | results of its tests | seventeen tests against the running system | fixed sleeps against what other processes still do |
| `libs/common` | none | two text helpers | |

notifyd validates an event's payload against its name, then calls the
registered actions siren, led, mqtt in this order.  Each looks the service's
object up, invokes `cancel_alarm` (whose result it ignores) and `alarm`, 3000 ms
each.  The siren and LED services stop the running pattern (clear the flag,
join the worker, clear the rest, switch the output off) and start another.  The
MQTT service queues a record and answers; the publisher sends it later.  systemd
restarts each service on failure; nothing is kept on disk.

What makes each component correct:

* siren, LED: one worker at a time; the output never stays driven with nobody to
  silence it; the status is that of the pattern that plays; stops, signals and
  finite patterns come to an end.
* MQTT: no record is lost without being counted, no wake-up is lost, a topic goes
  back to an older record only by libmosquitto sending that record again, shutdown
  is prompt.
* log: no message goes to a category that is not there or to a closed zlog, and a
  service falls back to standard output only for a reason.
* driver: a correct and undisturbed system passes if it had nothing left to publish,
  a service that dies is noticed, and the broker that was stopped runs again after
  its test unless `systemctl` failed.
* notifyd: every event is counted once and every accepted one has three counted
  results; an event with a nested name reaches nobody; what is counted as sent was
  handled; late requests never undo a newer alarm; a hanging service holds up nothing
  for ever.

## Modules

`Reaction` is the abstract specification of a reaction service: its output is
`down`, `quiet`, `active` or `ending`, a pattern begins in silence, the output
changes only under a pattern, and what was told to end does end.  The siren and the
LED service both implement it.

`SirenService` models `siren_service.c`, `siren_controller.c` and `siren_hw.c`.
A step is one critical section of `pattern_lock`, one sysfs write or one thread
operation.  `pc` is the place of the uloop thread (each handler is a sequence of
such steps, `siren_controller_stop` being `stop`, `join`, `stop_clear`,
`stop_off`), `worker_pc[t]` that of a worker.  The other variables have the names of
the code.  `hw` is the PWM output and `hw_fault` says that the last write to it
failed.  Every caller ignores the results of the writes, so an action with a
write has both outcomes.  Time is abstract: a sleep in slices of 50 ms may be
over in any state, and the deadline of a finite pattern passes at some moment
(`Elapse`).  `duration` and `siren_id` are words stored into ints (`ToInt`).

`LedService` models `led_service.c`, `led_controller.c` and `led_hw.c`.  Its threads
are the siren's; what differs is the output.  `led_hw_all_off` is three writes, of
which each may fail, so the places where the uloop thread or the worker calls it
are gone through three times (`off`, `worker[t].off` are the next channel).  A
worker's place and locals are one record.  The brightness is computed by
operators (`Full`, `Dim`, `Threshold`, `led_hw_ambient_brightness`, `Clamp`) from
what the device's files contain, which is any of the given readings at each start
of the process and of a pattern.  `limits.maxima` and `worker[t].screen` keep those
readings only so that properties can speak of them.  For `Reaction`, the service
sounds while any channel is lit.

`MqttService` models `mqtt_service.c`, `mqtt_publisher.c` and `mqtt_client.c`.
`WorkerWaits` is the test of the predicate together with `pthread_cond_wait`,
which the lock makes one step; a wake-up may be spurious.  A publication is
three steps (`ClientConnect`, `ClientPublish`, `ClientHandshake`) and the
accounting a fourth.  All records go through the one `mosq` of the process, which keeps
what it accepted until the PUBACK comes (`unacked`), also over later connections.  In a
handshake any of these messages arrive, in any order, and any of the arrived are
acknowledged: so the record at hand may be lost, received or acknowledged, and an older
one may come after it.  `retained` is what the broker keeps for each topic, `resent`
remembers that an older record did come.  A record's timestamp is its number, so
records differ.  `DropOldestQueue` is the
abstract bounded queue that the ring implements.

`EventValidation` has the pure part of notifyd: the payload check and the
tables of the three actions.  An event name is the sequence of its parts.
`Notifyd` is the handler of an event, one step per call over ubus.  ubusd keeps
the requests of each service in order; a service handles one at a time, when it
likes, and dies and returns under a new object id.  The wait for an answer ends at
any moment, with the answer (`replied`) or without.  Each service is reduced to
the event whose alarm it carries out.  notifyd itself may be killed at any moment;
its counters start again from zero, while the requests it left stay in the queues.

`NotifySim` models the driver of `sim_ubus.c` and composes it with the system it
tests, using the payload check and the tables of `EventValidation`.  A test is a
sequence of steps (`cancel`, `sleep`, `before` for a snapshot, `send`, `stop` and
`start` for the broker, `expect`, ...), which the driver plays as soon as it can.  A step
that fails ends its test.  Between the stop and the start of the broker each return has a
`systemctl start` of its own: a step there lists in `restarts` the ways to fail that start
the broker (`send_restarts`, `status_restarts`, `outage_restarts`), so that a forgotten
start is a missing member.  Each call of `systemctl` may fail, with or without effect, an
event may be refused, a service may die: `faults` counts this and `MaxFaults` bounds it,
but for the start after a failed test, which may fail at no cost.  A run may begin with an
alarm active or not, siren and LED playing or not, and up to two records not yet
published, which counts as a fault, since nothing in the driver waits for them.  Time
passes in ticks of 100 ms: a sleep lasts its ticks and up to `MaxLag` more, notifyd takes up to
`MaxServe` ticks for an event, the publisher up to `MaxRecord` for a record.  The
services appear as their status methods show them.

`EmergencyLog` models `log_core.c`, `log_backend_zlog.c` and the standard-output
backend as several processes use them.  A step is one `mkdir` or `stat` of a
component of the path, one call of zlog, or one read or write of a static;
`emergency_log` is three reads and a call, from the main thread or from a worker.
The path is shared, so that one service's `mkdir` is another's `EEXIST`.  `MCLog`
is its instance.

The operators called *Variant* in their comments are plausible mistakes; the
mutants of `PROJECT.json` put them in the place of the definition they vary to
show that each property depends on the code being as it is.

## Runs

| run | states | shows |
|---|---|---|
| `siren_service` | 140 k | two threads, ids {steady, stepped, unknown}, durations {0, 3, "-2"} and absent in words of 4 bits, failing writes and a kill: `NoOrphanThread`, `SoundsOnlyUnderWorker`, `StatusMatchesWorker`, `CutShortOnlyByStop`, what replies show (`AlarmReplyNotStale`, `ReplyTearsOneWay`), that handlers return and finite patterns end, and that the service implements `Reaction` |
| `siren_ok_reply` | finding | "ok" can leave before the worker has run |
| `led_service` | 580 k | two threads, a solid red, a blinking blue and an unknown id, writes to red that may fail, limits that are missing, useless or differ, a screen that is dark, bright or unreadable, a kill: `OnlyThePatternsColour`, `StatusMatchesWorker`, `BrightnessFits`, `DimmedOnlyAtNight`, and that the service implements `Reaction` with its liveness |
| `mqtt_service` | 200 k | ring of 2, 3 records, 2 topics, a kill, records sent again: counters, no lost wake-up, what queue and broker say of the alarm (`CaughtUpBrokerAgrees`), that only a record sent again takes a topic back (`OnlyResendsGoBack`), that the ring implements `DropOldestQueue`, that a queued record leaves the queue and that SIGTERM ends the process |
| `mqtt_acked`, `mqtt_ends` | findings | "published" without an acknowledgement; a lost "cleared" is never made good |
| `notifyd_actions` | 9.2 M | two events, three services of which one dies, a kill of notifyd: `StatsBalance`, `SentWasHandled`, `NoOlderAlarmAfterSent`, `AlarmBeginsOnce` |
| `notifyd_events` | 640 k | accepted, ignored and the two confusable rejected events while services never answer: `RejectionReasons`, `NestedNameAsksNobody`, every received event is classified, SIGTERM ends the process |
| `notifyd_failed` | finding | an alarm counted as failed is carried out late |
| `sim_suite` | 2.0 M | the seventeen tests: undisturbed they pass with the counters the thesis reports (`CalmSuitePasses`, `EvaluationTable`); with one fault (a service that dies at any moment, an event that is refused, a call of `systemctl` that fails, records left from before) no death is overlooked (`DeathIsNoticed`) and the broker test leaves the broker running unless `systemctl` failed (`BrokerLeftRunning`) |
| `sim_snapshot` | finding | the broker test can take its snapshot while a record of an earlier test is being published |
| `emergency_log` | 430 k | two services with a worker each, a path of three components, a kill: `EveryMessageComesOut`, `BackendHasReason` |

Bounds.  `Threads`: the second thread id is what an orphan would take, and a
third could only be created after a second; the proofs hold for any set.
`MaxCrashes = 1`: a kill returns every variable but `hw` (or the broker's state) to
its initial value, so a second one starts from a state already seen.  `Capacity` 2
with `MaxRecords` 3 overflows and wraps both indices around, and lets an active record
come again after the cleared one; the proofs hold for any
capacity.  `MaxEvents` 2 is
what it takes for an older request to meet a newer one.  `HwMayFail` allows every
write to fail; in the LED's run the first of the three channels may fail, after
which the other two must still be written.  A second process with other limits,
needed for `BrightnessFits`, comes from a restart.  `MaxRecord` 6 is a connect and the
five loops of 100 ms that the driver's own comment counts, and with `MaxServe` 1 the
largest for which the suite passes: with 7, or with `MaxServe` 2, a correct system fails
it, which is the margin of its sleeps; that it passes below is proved.  Two services and a path of three components
are what it takes for one service to meet a component that another has just made
above one that nobody has.  `CHECK_DEADLOCK` stays on in every run but those of
`NotifySim`, whose script ends; a stopped service can always be started again.

Fairness.  The uloop thread and every worker are weakly fair, being threads of a
preemptive scheduler whose critical sections are short; the clock advances
(`Elapse`); `ubus_invoke` has a timeout; calls of libmosquitto return.  Nothing is
assumed of callers, services, the broker, signals or systemd.  `SpuriousWakeup` is
not fair, so a missing signal would be found.  `NotifySim` and `EmergencyLog` state only
safety and need no fairness: the driver's script is finite and none of its waits is
without an end.

## Findings

1. `notify_stats.h` says that for siren and led the ubus call returns after the
   action has happened.  The siren's handler answers after `pthread_create`.
2. The same comment says that sent/failed reflect the real outcome.  A call that
   timed out is counted as failed, and carried out later.
3. `mqtt_client.c` says that its loop completes the QoS 1 handshake.  It makes five
   calls whose results it ignores, and counts the record as published.
4. The thesis says that a subscriber told of an alarm must learn of its end.  A
   cleared record that cannot be published is counted as failed and forgotten.  Even one
   that was published is not safe: an active record still without its PUBACK is sent again
   on the next connection and is then retained (`OnlyResendsGoBack` says that this is the
   only way back, `CaughtUpBrokerAgrees` what holds when it did not happen).
5. `sim_ubus.c` says that the wait in `cancel_mqtt` keeps the next snapshot clean.  It
   lasts 700 ms, and the tests before the broker's leave four records.  For the same reason
   a record of an alarm raised just before the driver starts can make its first test fail,
   which `Calm` excludes.

Without a run, because no state depends on it: `log.h` says that `emergency_log_init`
returns a value other than 0 after it fell back to standard output, and it returns 0.

## Proofs

`SirenServiceProofs` proves, for any set of threads, any word size of at least 12,
any requests and any number of kills, that `TypeOK`, `NoOrphanThread`,
`SoundsOnlyUnderWorker`, `StatusMatchesWorker` and `CutShortOnlyByStop` are invariants.
None of the last four is inductive.  The inductive invariant `IInv` adds where in a
handler the uloop thread is and for which request (`RequestInv`), at which of its
places no worker exists (`ThreadInv`: from the return of the join to the next
`pthread_create`), and that a worker that is not being stopped finds
`keep_running` set and its own pattern in the shared state (`AgreeInv`).  The parts
are proved in this order, each by one lemma with one step per action, from the
parts before it.  The reply has an invariant of its own on top of these:
`SharedInv` (outside the stop the flag and the status go together), `TearInv` (a field
once read as stopped was read from a state that stays stopped) and `RequestedInv` (while an
alarm that was begun is answered, the status is that alarm's or cleared), from which
`AlarmReplyNotStale` and `ReplyTearsOneWay` follow.

Its last section proves that the service implements `Reaction!Safety`.  It
adds `StageInv` (the flag is set only while there is a worker to obey it, or one
about to be created) and shows for every action which step of `Reaction` it is:
arming is `Begin`, clearing the flag of a live worker is `Stop`, the worker's writes
are `Drive`, its last mark or a rollback is `Settle`, a kill or the end of the process
is `Fail`, the initialisation is `Recover`, and all else stutters.

`LedServiceProofs` proves, for any limits the device's files yield, any threads and
requests and whichever writes fail, that `TypeOK`, `StatusMatchesWorker`,
`OnlyThePatternsColour`, `BrightnessFits` and `DimmedOnlyAtNight` are invariants.  Its types
include `LimitsOK` (the limits are positive, dim is within full, and full is within every
maximum that could be read; the lemma `FullIsSmallest`).  `RequestInv`, `ThreadInv` and
`AgreeInv` are the siren's; `OffInv` says how far `led_hw_all_off` has got and what the
initialisation has switched off; `BrightInv` what a worker knows of the screen and has
written.  The last section proves that the service implements `Reaction!Safety`, by the
siren's mapping: the writes of the initialisation are `Wipe` until the last of them, which
is `Recover`.

`MqttServiceProofs` proves, for any capacity of at least 1, any alarm types and any
bounds, that `TypeOK`, `RingShape`, `Conservation` and `SleepsOnlyWhenIdle` are
invariants and that `NoTakeAfterStop` holds.  The inductive invariant `MInv` adds that
an active alarm has a type to clear (`ActiveInv`, without which cancel_alarm could
queue a record without one) and that there is no publisher before
`mqtt_publisher_init` nor after the process ended (`NoPublisherInv`, without which a
new publisher could take the place of one that still holds a record).  The lemmas
`SlotIs`, `NextSlotIs`, `SlotMoves` and `SlotAppends` remove the modulus from the ring's
arithmetic once, so that the step proofs are linear.

`MqttQueueProofs` proves the claims about the records: that the ring implements
`DropOldestQueue` (`ImplementsQueue`), `QueueTellsAlarm`, `CaughtUpBrokerAgrees` and
`OnlyResendsGoBack`.  `EnqueuePuts` and `TakesOldest` say what the two critical sections
do to `Contents`, and `StepKinds` reduces the actions to seven kinds by what they do to the
records.  The invariant says that whatever was released to libmosquitto or is retained by the
broker is not newer than the record in the publisher's hands, and that one older than those
in the ring (`ReleasedInv`, `HandInv`, `QueueInv`), that the
newest of those still to be published tells the present alarm (`NewestInv`), and that, as
long as no record failed, is without an acknowledgement or was sent again, so does what the
broker retains (`AgreeInv`).  A handshake without a resend therefore only moves a topic
forward; the theorem leaves no other way back than a member of `unacked`.

`EmergencyLogProofs` proves, for any services, any of which may have a worker, and any
depth of the path, that `TypeOK`, `EveryMessageComesOut` and `BackendHasReason` are
invariants.  The first claim needs for each process where its threads are in
`emergency_log` (`ThreadInv`: no worker outside `serve` and `join`) and what the statics hold at each place of the main thread (`ZlogInv`);
the second that the path is made from the top, so that what lies above a component a
process has reached are directories (`PathInv`).  `Apart` says once that a step of one
process leaves the parts of all others alone.

`NotifydProofs` proves, for any events and payloads and any number of deaths and
kills, that `TypeOK`, `StatsBalance`, `SentWasHandled`, `NoOlderAlarmAfterSent` and
`RejectionReasons` are invariants and that `AlarmBeginsOnce` and `NestedNameAsksNobody` hold.  `BalanceInv` counts
what the handler in progress still owes.  `OrderInv` says that the numbers of the events
queued, handled and requested grow along the way they take (`Seen`), also across a kill.
`QueueInv` says that a service's queue is in the order of the events and that neither in
it nor playing is anything older than what was last counted as sent; for an answer that
has come and was not read yet it says the same of the event being handled.  `BeginInv`
says that every alarm in a queue stands behind a cancel, and that a service which died
since it was looked up has a newer object id, so that an alarm does not reach it without
its cancel.

`NotifySimProofs` proves, for any times and any number of deaths, that
`BrokerLeftRunning` and `DeathIsNoticed` are invariants.  The lemmas before them unfold the
seventeen tests once; after that the proofs are about positions.  `PlaceInv` says
that the driver is at a step of the script, before it or behind it; `BrokerInv` that outside
the steps 6 to 12 of its test the broker runs, or a call of `systemctl` failed (`Excused`).
`Ways` lists how a step can fail and `SoundStep`, checked once against the script, that each
of these ways is in the step's `restarts` between the stop and the start.  `DeathInv` says
that of all calls to a service known by an old id, each was made before the death or is still
to come.

`NotifySimTimingProofs` proves `CalmSuitePasses` and `EvaluationTable` under `Timely`: an event
is served in less than `TEST_OVERLAP_GAP`, a record accounted for in less than
`MQTT_ASYNC_SETTLE`, and `TEST_SETTLE` with the lateness of a sleep is less than what an
alarm lasts.  The times themselves are any that are below.  `Timely` is not too
strong: with any one of the three bounds reached TLC finds a run in
which a test of a correct system fails.  Both properties assume `Calm`: nothing died, was refused
or left from before when the driver started, and no call of `systemctl` failed.  Then the
driver never gives a test up, so `CalmSteps` first reduces its handlers to moves along the script.  The
invariant `CalmInv` then says of everything that is under way that the rest of a sleep
covers it: the event in service by the sleep after it (`ServeInv`), the pattern
to be checked by the alarm, which outlasts the sleep (`SoundInv`), its absence by the cancel
before (`QuietInv`), the cleared record and the one of an event by their sleeps in each test of
the table (`TableInv`), the record in hand when the broker goes and when it comes back by the
sleeps of the broker test (`OutageInv`, `RecoveryInv`, with the time already spent).
`StatsInv` counts what the script has sent so far in each class, less the event in service.

Assumed: the named assumptions on the constants, which TLC evaluates in every run
(`AbsentAssumption`: that a field is missing is told from every text and every payload the
driver sends); and `Timely`, as the hypothesis of its two theorems.

Only model-checked: liveness, which is out of the prover's reach (with it the
liveness half of `Reaction` for the LED).  Every safety property of a passing run
is also a theorem.

## Not modelled

Message texts: what a log line or a payload contains, its cut at 512 bytes, and the
length of a record's JSON against the 320 bytes it is given, which is a sum of constants
that no step changes.  The broker's address from the environment.  The mounted partition
and the start order of systemd.
`libs/common`, which nothing depends on.  Real time but for `NotifySim` (elsewhere only
the order of deadlines and events), the hardware set-up besides the first write of 0, what is still under way to
the broker when the service is killed.  A signal before `uloop_run` is lost in the code and therefore
not an action.

## Plan

Done: the four services with their abstract specifications, the driver, the log library;
the proofs of all safety properties of the four services, the log library and the driver
and of the three refinements.  Left: keeping the models in step with the code.
