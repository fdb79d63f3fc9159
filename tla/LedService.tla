----------------------------- MODULE LedService -----------------------------
(***************************************************************************)
(* emergency-led-service: one uloop thread that serves the ubus object     *)
(* emergency.led, and one pattern worker per started pattern that lights   *)
(* one of three channels through sysfs.  How bright is worked out from     *)
(* what the device tells: its limits when the process starts, the          *)
(* brightness of the screen when a pattern starts.                         *)
(*                                                                         *)
(* A step is one critical section of pattern_lock, one write to a channel, *)
(* one thread operation or one round of readings.  Time is abstract, as in *)
(* SirenService.                                                           *)
(***************************************************************************)
EXTENDS Integers, Sequences

CONSTANTS Threads,          \* identities of the workers pthread_create returns
          NoThread,         \* the zero-initialised pthread_t
          Absent,           \* an attribute the request does not carry
          Unreadable,       \* the reading of a file that cannot be read
          WordSize,         \* 2^w, the range of the u32 attributes
          LedIds, Durations,                    \* values a caller may send
          MaximaReadings,   \* contents of the channels' max_brightness
          AmbientReadings,  \* contents of the screen's max_brightness
          ScreenReadings,   \* contents of the screen's brightness
          FailingChannels,  \* channels to which a write may fail
          MaxCrashes        \* bound on the number of times the process is killed

Channels == {"red", "green", "blue"}

ASSUME ThreadsAssumption == NoThread \notin Threads
ASSUME WordAssumption == WordSize \in Nat /\ WordSize >= 10
ASSUME InputAssumption ==
  /\ LedIds \subseteq 0 .. WordSize - 1 /\ Durations \subseteq 0 .. WordSize - 1
  /\ Absent \notin Int
ASSUME ReadingsAssumption ==
  /\ Unreadable \notin Int
  /\ MaximaReadings \subseteq [Channels -> Int \cup {Unreadable}]
  /\ AmbientReadings \subseteq Int \cup {Unreadable}
  /\ ScreenReadings \subseteq Int \cup {Unreadable}
ASSUME BoundAssumption == FailingChannels \subseteq Channels /\ MaxCrashes \in Nat

(***************************************************************************)
(* Data of the code.                                                       *)
(***************************************************************************)
INVALID == 0        \* LED_PATTERN_INVALID
INFINITE == -1      \* LED_DURATION_INFINITE

\* pattern_table: the channel of each pattern and its number of on/off steps,
\* none for the solid one.
pattern_table ==
  << [channel |-> "red", step_count |-> 1], [channel |-> "red", step_count |-> 0],
     [channel |-> "blue", step_count |-> 1], [channel |-> "blue", step_count |-> 1] >>

is_valid_id(id) == id \in DOMAIN pattern_table

\* A u32 attribute stored into an int.
ToInt(u) == IF u < WordSize \div 2 THEN u ELSE u - WordSize

\* duration_sec as the controller keeps it: every value <= 0 means infinite.
ControllerDuration(d) ==
  IF d = Absent \/ ToInt(d) <= 0 THEN INFINITE ELSE ToInt(d)

Requests ==
  [method : {"status", "cancel_alarm"}, led_id : {Absent}, duration : {Absent}]
    \cup
  [method : {"alarm"}, led_id : LedIds \cup {Absent},
   duration : Durations \cup {Absent}]

\* What the uloop thread is doing when it serves no request.
NoRequest == [method |-> "none", led_id |-> Absent, duration |-> Absent]
Exit(status) == [NoRequest EXCEPT !.method = status]

NoReply == [result |-> "none", running |-> FALSE, led_id |-> INVALID,
            pattern |-> INVALID, duration |-> 0]

\* A thread that does not exist.
NoWorker == [pc |-> "none", pattern_id |-> INVALID, duration_sec |-> 0,
             deadline |-> "infinite", i |-> 0, off |-> 1, brightness |-> 0,
             screen |-> Unreadable]
-----------------------------------------------------------------------------
(***************************************************************************)
(* Brightness.                                                             *)
(***************************************************************************)
LED_BRIGHTNESS_FULL_FALLBACK == 255
LED_AMBIENT_MAX_FALLBACK == 100
LED_BRIGHTNESS_DIM_PREFERRED == 10

\* Variant: a maximum of zero is taken at its word.
UsableZero(v) == v # Unreadable

Usable(v) == v # Unreadable /\ v > 0

\* read_channel_max with the value led_full keeps when there is none.
Full(maxima) ==
  LET found == {maxima[c] : c \in {d \in Channels : Usable(maxima[d])}} IN
    IF found = {} THEN LED_BRIGHTNESS_FULL_FALLBACK
    ELSE CHOOSE v \in found : \A w \in found : v <= w

Dim(full) ==
  IF LED_BRIGHTNESS_DIM_PREFERRED < full THEN LED_BRIGHTNESS_DIM_PREFERRED ELSE full

Threshold(ambient_max) ==
  IF Usable(ambient_max) THEN ambient_max \div 2 ELSE LED_AMBIENT_MAX_FALLBACK \div 2

\* Variant: what cannot be read counts as night.
AmbientUnknownIsNight(limits, screen) ==
  IF screen # Unreadable /\ screen > limits.threshold THEN limits.full
  ELSE limits.dim

led_hw_ambient_brightness(limits, screen) ==
  IF screen = Unreadable \/ screen > limits.threshold THEN limits.full
  ELSE limits.dim

Clamp(limits, b) == IF b > limits.full THEN limits.full ELSE IF b < 0 THEN 0 ELSE b

\* The statics of led_hw.c after these readings, and the readings.
Limits(maxima, ambient_max) ==
  [full |-> Full(maxima), dim |-> Dim(Full(maxima)),
   threshold |-> Threshold(ambient_max), maxima |-> maxima]

\* Before led_hw_init: the initialisers of the statics.
NoLimits == Limits([c \in Channels |-> Unreadable], Unreadable)
-----------------------------------------------------------------------------
VARIABLES
  pc,                    \* where the uloop thread is
  request, reply,        \* the request it serves, the reply it is building
  off,                   \* the channel it switches off next, in all_off's order
  terminated,            \* uloop_end was called by the signal handler
  limits,                \* led_full, led_dim, ambient_threshold and the maxima
                         \* they were taken from (kept for the properties only)
  thread_active, keep_running, current_pattern, current_duration_sec,
  pattern_thread,        \* the statics of led_controller.c
  worker,                \* each worker: its pc and locals, and the reading its
                         \* brightness was taken from (for the properties only)
  hw,                    \* the brightness of each channel
  hw_fault,              \* the last write to the channel failed
  crashes

shared == <<thread_active, keep_running, current_pattern, current_duration_sec>>
output == <<hw, hw_fault>>
vars == <<pc, request, reply, off, terminated, limits, shared, pattern_thread,
          worker, output, crashes>>

\* What a step of a worker leaves alone.
mainVars == <<pc, request, reply, off, terminated, limits, pattern_thread, crashes>>

\* The places of the uloop thread in a call of led_hw_all_off.
OffPcs == {"init_off", "stop_off", "rollback_off", "deinit_off"}

MainPcs ==
  OffPcs \cup
  {"failed", "exited", "init", "connect", "add_object", "idle", "stop", "join",
   "stop_clear", "start", "create", "rollback", "reply_state", "reply_id",
   "reply_pattern", "reply_duration", "reply_send"}

WorkerPcs ==
  {"none", "begin", "solid_on", "solid_wait", "loop", "step", "on", "on_wait",
   "gap", "off_wait", "all_off", "mark", "done"}

\* A worker that may still touch the output.
Live(t) == worker[t].pc \notin {"none", "done"}

\* The process of this run has initialised the hardware.
Up == pc \notin {"failed", "exited", "init", "init_off"}

TypeOK ==
  /\ pc \in MainPcs /\ off \in 1 .. 3 /\ terminated \in BOOLEAN
  /\ request \in Requests \cup {NoRequest, Exit("return_0"), Exit("return_1")}
  /\ reply \in [result : {"none", "ok", "error"}, running : BOOLEAN,
                led_id : 0 .. 4, pattern : 0 .. 4, duration : Int]
  /\ limits \in [full : Nat, dim : Nat, threshold : Nat,
                 maxima : [Channels -> Int \cup {Unreadable}]]
  /\ thread_active \in BOOLEAN /\ keep_running \in BOOLEAN
  /\ current_pattern \in 0 .. 4 /\ current_duration_sec \in Int
  /\ pattern_thread \in Threads \cup {NoThread}
  /\ worker \in [Threads ->
       [pc : WorkerPcs, pattern_id : 0 .. 4, duration_sec : Int,
        deadline : {"infinite", "running", "expired"}, i : 0 .. 1, off : 1 .. 3,
        brightness : Nat, screen : Int \cup {Unreadable}]]
  /\ hw \in [Channels -> Nat] /\ hw_fault \in [Channels -> BOOLEAN]
  /\ crashes \in Nat
-----------------------------------------------------------------------------
(***************************************************************************)
(* The hardware layer.  A write that fails leaves the channel as it was    *)
(* and every caller ignores its result.                                    *)
(***************************************************************************)
led_hw_set_channel(c, b) ==
  \/ /\ hw' = [hw EXCEPT ![c] = Clamp(limits, b)]
     /\ hw_fault' = [hw_fault EXCEPT ![c] = FALSE]
  \/ /\ c \in FailingChannels
     /\ hw' = hw /\ hw_fault' = [hw_fault EXCEPT ![c] = TRUE]

\* The order in which led_hw_all_off writes.
OffOrder == <<"red", "green", "blue">>

\* Variant: led_hw_all_off returns at the first write that fails.
AllOffGivesUp(n, next) ==
  /\ led_hw_set_channel(OffOrder[n], 0)
  /\ next = IF n = 3 \/ hw_fault'[OffOrder[n]] THEN 1 ELSE n + 1

\* The n-th write of led_hw_all_off, and which one is next (1: it returns).
led_hw_all_off(n, next) ==
  /\ led_hw_set_channel(OffOrder[n], 0)
  /\ next = IF n = 3 THEN 1 ELSE n + 1
-----------------------------------------------------------------------------
(***************************************************************************)
(* Life cycle of the process.                                              *)
(***************************************************************************)
\* The statics of a process that has just been executed.
FreshProcess ==
  /\ request' = NoRequest /\ reply' = NoReply /\ off' = 1 /\ terminated' = FALSE
  /\ limits' = NoLimits
  /\ thread_active' = FALSE /\ keep_running' = FALSE
  /\ current_pattern' = INVALID /\ current_duration_sec' = 0
  /\ pattern_thread' = NoThread
  /\ worker' = [t \in Threads |-> NoWorker]

\* What an earlier user of the device left on the channels is unknown.
Init ==
  /\ pc = "exited" /\ request = NoRequest /\ reply = NoReply /\ off = 1
  /\ terminated = FALSE /\ limits = NoLimits
  /\ thread_active = FALSE /\ keep_running = FALSE
  /\ current_pattern = INVALID /\ current_duration_sec = 0
  /\ pattern_thread = NoThread
  /\ worker = [t \in Threads |-> NoWorker]
  /\ hw \in [Channels -> {0, 1}] /\ hw_fault = [c \in Channels |-> FALSE]
  /\ crashes = 0

\* systemd (Restart=on-failure) or an operator executes the binary.
Start ==
  /\ pc \in {"failed", "exited"} /\ pc' = "init"
  /\ UNCHANGED <<request, reply, off, terminated, limits, shared, pattern_thread,
                 worker, output, crashes>>

\* The process is killed; the channels keep the values last written.
Crash ==
  /\ pc \notin {"failed", "exited"}
  /\ crashes < MaxCrashes /\ crashes' = crashes + 1
  /\ pc' = "failed"
  /\ FreshProcess
  /\ UNCHANGED output

\* led_hw_init reads the limits, then switches all channels off.
led_hw_init ==
  /\ pc = "init" /\ pc' = "init_off"
  /\ \E maxima \in MaximaReadings, a \in AmbientReadings :
       limits' = Limits(maxima, a)
  /\ UNCHANGED <<request, reply, off, terminated, shared, pattern_thread, worker,
                 output, crashes>>

\* ubus_connect and ubus_add_object; a failure deinitialises the controller.
Connect ==
  /\ pc \in {"connect", "add_object"}
  /\ \/ /\ pc' = IF pc = "connect" THEN "add_object" ELSE "idle"
        /\ UNCHANGED request
     \/ pc' = "stop" /\ request' = Exit("return_1")
  /\ UNCHANGED <<reply, off, terminated, limits, shared, pattern_thread, worker,
                 output, crashes>>

\* SIGTERM or SIGINT while uloop_run runs; an earlier one is lost, since
\* uloop_run clears the flag when it starts.
handle_signal ==
  /\ pc = "idle" \/ request \in Requests
  /\ terminated' = TRUE
  /\ UNCHANGED <<pc, request, reply, off, limits, shared, pattern_thread, worker,
                 output, crashes>>

\* uloop_run returns between two requests and main deinitialises.
LeaveLoop ==
  /\ pc = "idle" /\ terminated
  /\ pc' = "stop" /\ request' = Exit("return_0")
  /\ UNCHANGED <<reply, off, terminated, limits, shared, pattern_thread, worker,
                 output, crashes>>
-----------------------------------------------------------------------------
(***************************************************************************)
(* Where the uloop thread goes on after led_hw_all_off: main after its     *)
(* initialisation, the handler that called led_controller_stop, the answer *)
(* to an alarm whose thread could not be created, the end of the process.  *)
(***************************************************************************)
AfterInit == pc = "init_off" /\ pc' = "connect" /\ UNCHANGED reply

AfterStop ==
  /\ pc = "stop_off"
  /\ \/ request.method = "alarm" /\ pc' = "start" /\ UNCHANGED reply
     \/ /\ request.method = "cancel_alarm"
        /\ pc' = "reply_state" /\ reply' = [reply EXCEPT !.result = "ok"]
     \/ /\ request.method \in {"return_0", "return_1"}
        /\ pc' = "deinit_off" /\ UNCHANGED reply

AfterRollback ==
  /\ pc = "rollback_off"
  /\ pc' = "reply_state" /\ reply' = [reply EXCEPT !.result = "error"]

SwitchOff ==
  /\ pc \in OffPcs
  /\ \E next \in 1 .. 3 :
       /\ led_hw_all_off(off, next)
       /\ \/ next # 1 /\ off' = next /\ UNCHANGED <<pc, reply>>
          \/ next = 1 /\ off' = 1 /\ (AfterInit \/ AfterStop \/ AfterRollback)
  /\ UNCHANGED <<request, terminated, limits, shared, pattern_thread, worker,
                 crashes>>

\* The last write of led_hw_deinit, then main returns.
led_controller_deinit ==
  /\ pc = "deinit_off"
  /\ led_hw_all_off(off, 1)
  /\ pc' = IF request.method = "return_0" THEN "exited" ELSE "failed"
  /\ FreshProcess
  /\ UNCHANGED crashes
-----------------------------------------------------------------------------
(***************************************************************************)
(* The request handlers.                                                   *)
(***************************************************************************)
\* Variant: the id is passed on without looking it up in pattern_table.
AcceptedUnchecked(r) == r.led_id # Absent

Accepted(r) == r.led_id # Absent /\ is_valid_id(ToInt(r.led_id))

\* The uloop dispatches a request to its handler, which validates it.
Receive(r) ==
  /\ pc = "idle" /\ ~terminated
  /\ request' = r
  /\ \/ /\ r.method = "status"
        /\ pc' = "reply_state" /\ reply' = [reply EXCEPT !.result = "ok"]
     \/ /\ r.method = "alarm" /\ ~Accepted(r)
        /\ pc' = "reply_state" /\ reply' = [reply EXCEPT !.result = "error"]
     \/ r.method = "alarm" /\ Accepted(r) /\ pc' = "stop" /\ UNCHANGED reply
     \/ r.method = "cancel_alarm" /\ pc' = "stop" /\ UNCHANGED reply
  /\ UNCHANGED <<off, terminated, limits, shared, pattern_thread, worker, output,
                 crashes>>

\* send_led_reply reads its four fields in four critical sections.
ReadReply ==
  /\ \/ /\ pc = "reply_state" /\ pc' = "reply_id"
        /\ reply' = [reply EXCEPT !.running = keep_running]
     \/ /\ pc = "reply_id" /\ pc' = "reply_pattern"
        /\ reply' = [reply EXCEPT !.led_id = current_pattern]
     \/ /\ pc = "reply_pattern" /\ pc' = "reply_duration"
        /\ reply' = [reply EXCEPT !.pattern = current_pattern]
     \/ /\ pc = "reply_duration" /\ pc' = "reply_send"
        /\ reply' = [reply EXCEPT !.duration = current_duration_sec]
  /\ UNCHANGED <<request, off, terminated, limits, shared, pattern_thread, worker,
                 output, crashes>>

SendReply ==
  /\ pc = "reply_send" /\ pc' = "idle"
  /\ request' = NoRequest /\ reply' = NoReply
  /\ UNCHANGED <<off, terminated, limits, shared, pattern_thread, worker, output,
                 crashes>>

(***************************************************************************)
(* led_controller_stop: clear the flag, join the worker, clear the rest,   *)
(* switch the channels off.                                                *)
(***************************************************************************)
StopRequest ==
  /\ pc = "stop"
  /\ \/ thread_active /\ keep_running' = FALSE /\ pc' = "join"
     \/ ~thread_active /\ pc' = "stop_clear" /\ UNCHANGED keep_running
  /\ UNCHANGED <<request, reply, off, terminated, limits, thread_active,
                 current_pattern, current_duration_sec, pattern_thread, worker,
                 output, crashes>>

\* pthread_join returns when the worker has returned, and the thread is gone.
StopJoin ==
  /\ pc = "join" /\ pc' = "stop_clear"
  /\ pattern_thread \in Threads /\ worker[pattern_thread].pc = "done"
  /\ worker' = [worker EXCEPT ![pattern_thread] = NoWorker]
  /\ UNCHANGED <<request, reply, off, terminated, limits, shared, pattern_thread,
                 output, crashes>>

ClearShared ==
  /\ thread_active' = FALSE /\ keep_running' = FALSE
  /\ current_pattern' = INVALID /\ current_duration_sec' = 0

StopClear ==
  /\ pc = "stop_clear" /\ pc' = "stop_off"
  /\ ClearShared
  /\ UNCHANGED <<request, reply, off, terminated, limits, pattern_thread, worker,
                 output, crashes>>

(***************************************************************************)
(* led_controller_start_by_id after its stop: allocate the argument, arm   *)
(* the shared state, create the worker, or roll back.                      *)
(***************************************************************************)
OutOfMemory ==
  /\ pc = "start"
  /\ pc' = "reply_state" /\ reply' = [reply EXCEPT !.result = "error"]
  /\ UNCHANGED <<request, off, terminated, limits, shared, pattern_thread, worker,
                 output, crashes>>

Arm ==
  /\ pc = "start" /\ pc' = "create"
  /\ keep_running' = TRUE /\ thread_active' = TRUE
  /\ current_pattern' = ToInt(request.led_id)
  /\ current_duration_sec' = ControllerDuration(request.duration)
  /\ UNCHANGED <<request, reply, off, terminated, limits, pattern_thread, worker,
                 output, crashes>>

CreateWorker(t) ==
  /\ pc = "create" /\ worker[t].pc = "none"
  /\ pattern_thread' = t
  /\ worker' = [worker EXCEPT ![t] =
       [NoWorker EXCEPT !.pc = "begin", !.pattern_id = ToInt(request.led_id),
                        !.duration_sec = ControllerDuration(request.duration)]]
  /\ pc' = "reply_state" /\ reply' = [reply EXCEPT !.result = "ok"]
  /\ UNCHANGED <<request, off, terminated, limits, shared, output, crashes>>

CreateFails ==
  /\ pc = "create" /\ pc' = "rollback"
  /\ UNCHANGED <<request, reply, off, terminated, limits, shared, pattern_thread,
                 worker, output, crashes>>

Rollback ==
  /\ pc = "rollback" /\ pc' = "rollback_off"
  /\ ClearShared
  /\ UNCHANGED <<request, reply, off, terminated, limits, pattern_thread, worker,
                 output, crashes>>
-----------------------------------------------------------------------------
(***************************************************************************)
(* pattern_worker.                                                         *)
(***************************************************************************)
\* The worker goes from one place to the next and touches nothing else.
Goto(t, from, to) ==
  /\ worker[t].pc = from
  /\ worker' = [worker EXCEPT ![t].pc = to]

PatternOf(t) == pattern_table[worker[t].pattern_id]

\* duration_expired of a finite pattern becomes true at some moment.
Elapse(t) ==
  /\ Live(t) /\ worker[t].deadline = "running"
  /\ worker' = [worker EXCEPT ![t].deadline = "expired"]
  /\ UNCHANGED <<mainVars, shared, output>>

should_continue(t) == keep_running /\ worker[t].deadline # "expired"

\* Look the pattern up, take start_ms, read the brightness of the screen.
WorkerBegin(t) ==
  /\ worker[t].pc = "begin"
  /\ \E s \in ScreenReadings :
       LET id == worker[t].pattern_id IN
         worker' = [worker EXCEPT
           ![t].pc = IF ~is_valid_id(id) THEN "all_off"
                     ELSE IF pattern_table[id].step_count = 0 THEN "solid_on"
                     ELSE "loop",
           ![t].deadline = IF @ = "infinite" /\ worker[t].duration_sec # INFINITE
                           THEN "running" ELSE @,
           ![t].brightness = led_hw_ambient_brightness(limits, s),
           ![t].screen = s]
  /\ UNCHANGED <<mainVars, shared, output>>

\* The write that lights the channel.
WorkerOn(t) ==
  /\ Goto(t, "solid_on", "solid_wait") \/ Goto(t, "on", "on_wait")
  /\ led_hw_set_channel(PatternOf(t).channel, worker[t].brightness)
  /\ UNCHANGED <<mainVars, shared>>

\* The solid light sleeps in slices until should_continue fails.
SolidEnds(t) ==
  /\ ~should_continue(t) /\ Goto(t, "solid_wait", "all_off")
  /\ UNCHANGED <<mainVars, shared, output>>

\* The outer while, which starts the steps again.
LoopTest(t) ==
  /\ worker[t].pc = "loop"
  /\ worker' = [worker EXCEPT
       ![t].pc = IF should_continue(t) THEN "step" ELSE "all_off", ![t].i = 0]
  /\ UNCHANGED <<mainVars, shared, output>>

\* The inner for.
StepTest(t) ==
  /\ worker[t].pc = "step"
  /\ LET more == worker[t].i < PatternOf(t).step_count /\ should_continue(t) IN
       Goto(t, "step", IF more THEN "on" ELSE "loop")
  /\ UNCHANGED <<mainVars, shared, output>>

\* interruptible_sleep_ms may be over in any state; after the dark half i++.
SleepEnds(t) ==
  /\ \/ Goto(t, "on_wait", "gap")
     \/ /\ worker[t].pc = "off_wait"
        /\ worker' = [worker EXCEPT ![t].pc = "step", ![t].i = @ + 1]
  /\ UNCHANGED <<mainVars, shared, output>>

\* The write that ends the lit half of a step.
WorkerDark(t) ==
  /\ Goto(t, "gap", "off_wait")
  /\ led_hw_set_channel(PatternOf(t).channel, 0)
  /\ UNCHANGED <<mainVars, shared>>

\* led_hw_all_off when the pattern is over.
WorkerAllOff(t) ==
  /\ worker[t].pc = "all_off"
  /\ \E next \in 1 .. 3 :
       /\ led_hw_all_off(worker[t].off, next)
       /\ worker' = [worker EXCEPT
            ![t].pc = IF next = 1 THEN "mark" ELSE "all_off", ![t].off = next]
  /\ UNCHANGED <<mainVars, shared>>

\* Variant: the worker clears the flag only, and the pattern it played stays.
MarkFlagOnly(t) ==
  /\ Goto(t, "mark", "done")
  /\ keep_running' = FALSE
  /\ UNCHANGED <<mainVars, thread_active, current_pattern, current_duration_sec,
                 output>>

mark_stopped_from_worker(t) ==
  /\ Goto(t, "mark", "done")
  /\ keep_running' = FALSE
  /\ current_pattern' = INVALID /\ current_duration_sec' = 0
  /\ UNCHANGED <<mainVars, thread_active, output>>
-----------------------------------------------------------------------------
MainStep ==
  \/ led_hw_init \/ Connect \/ LeaveLoop \/ SwitchOff \/ led_controller_deinit
  \/ ReadReply \/ SendReply
  \/ StopRequest \/ StopJoin \/ StopClear
  \/ OutOfMemory \/ Arm \/ (\E t \in Threads : CreateWorker(t)) \/ CreateFails
  \/ Rollback

WorkerStep(t) ==
  \/ WorkerBegin(t) \/ WorkerOn(t) \/ SolidEnds(t) \/ LoopTest(t)
  \/ StepTest(t) \/ SleepEnds(t) \/ WorkerDark(t) \/ WorkerAllOff(t)
  \/ mark_stopped_from_worker(t)

Next ==
  \/ Start \/ Crash \/ handle_signal
  \/ \E r \in Requests : Receive(r)
  \/ MainStep
  \/ \E t \in Threads : WorkerStep(t) \/ Elapse(t)

Safety == Init /\ [][Next]_vars

\* The scheduler runs every thread that can run, and the clock advances.
Fairness ==
  /\ WF_vars(MainStep)
  /\ \A t \in Threads : WF_vars(WorkerStep(t)) /\ WF_vars(Elapse(t))

Spec == Safety /\ Fairness
-----------------------------------------------------------------------------
(***************************************************************************)
(* Properties.                                                             *)
(***************************************************************************)
\* The channel gives light, and not because switching it off failed.
Lit(c) == hw[c] > 0 /\ ~hw_fault[c]

\* Between a worker's write that lights c and the one that switches c off.
Lights(t, c) ==
  /\ worker[t].pattern_id # INVALID /\ PatternOf(t).channel = c
  /\ \/ worker[t].pc \in {"solid_wait", "on_wait", "gap"}
     \/ worker[t].pc = "all_off" /\ worker[t].off <= (IF c = "red" THEN 1 ELSE 3)

\* Once this process has initialised the device, a channel gives light only
\* while a worker that will switch it off plays a pattern of that channel: no
\* colour of an earlier alarm, or of whoever used the device before, remains
\* next to the present one, although three channels are switched off by three
\* writes any of which may fail.
OnlyThePatternsColour ==
  Up => \A c \in Channels : Lit(c) => \E t \in Threads : Lights(t, c)

\* Whatever the device's files contain, the brightness fits: a channel lit for
\* an alarm is not written zero, and nothing written exceeds a maximum that the
\* device told, of that channel or of another.
BrightnessFits ==
  /\ \A t \in Threads :
       worker[t].pc \in {"solid_wait", "on_wait"} =>
         LET c == PatternOf(t).channel IN hw_fault[c] \/ hw[c] > 0
  /\ Up => \A c, d \in Channels :
             Lit(c) /\ Usable(limits.maxima[d]) => hw[c] <= limits.maxima[d]

\* Fail-safe: an alarm is dimmed only when the screen could be read and was
\* dim; a reading that fails never dims it.
DimmedOnlyAtNight ==
  \A t \in Threads :
    worker[t].pc \in {"solid_wait", "on_wait"} =>
      LET c == PatternOf(t).channel IN
        Lit(c) /\ hw[c] < limits.full =>
          worker[t].screen # Unreadable /\ worker[t].screen <= limits.threshold

\* The status of a pattern that was not stopped and is not over is its own, and
\* a worker that has returned leaves no pattern in the status: a late mark
\* wipes neither too much nor too little.
StatusMatchesWorker ==
  \A t \in Threads :
    /\ Live(t) /\ keep_running =>
         /\ current_pattern = worker[t].pattern_id
         /\ current_duration_sec = worker[t].duration_sec
    /\ worker[t].pc = "done" => current_pattern = INVALID /\ ~keep_running

(***************************************************************************)
(* The service implements Reaction, with what it says of patterns that     *)
(* were told to end: it sounds while any channel is lit.                   *)
(***************************************************************************)
Stage ==
  IF ~Up THEN "down"
  ELSE IF keep_running THEN "active"
  ELSE IF \E t \in Threads : Live(t) THEN "ending"
  ELSE "quiet"

PatternPlayed == IF Up /\ keep_running THEN current_pattern ELSE INVALID

Sounding == \E c \in Channels : Lit(c)

R == INSTANCE Reaction WITH
       Patterns <- 1 .. 4, NoPattern <- INVALID,
       stage <- Stage, pattern <- PatternPlayed, sounding <- Sounding

ImplementsReaction == R!Spec
=============================================================================
