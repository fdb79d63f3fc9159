---------------------------- MODULE SirenService ----------------------------
(***************************************************************************)
(* emergency-siren-service: one uloop thread that serves the ubus object   *)
(* emergency.siren, and one pattern worker thread per started pattern that *)
(* drives the PWM output through sysfs.  The two share keep_running,       *)
(* thread_active, current_pattern and current_duration_sec under           *)
(* pattern_lock, and the hardware without any lock.                        *)
(*                                                                         *)
(* A step is one critical section of pattern_lock, one hardware write or   *)
(* one thread operation.  Time is abstract: a sleep may end at any moment, *)
(* and the deadline of a finite pattern passes at some moment.             *)
(***************************************************************************)
EXTENDS Integers

CONSTANTS Threads,    \* identities of the pattern workers pthread_create returns
          NoThread,   \* the zero-initialised pthread_t
          Absent,     \* an attribute the request does not carry
          WordSize,   \* 2^w, the range of the u32 attributes of a request
          SirenIds,   \* values of siren_id a caller may send
          Durations,  \* values of duration a caller may send
          HwMayFail,  \* whether a sysfs write may fail
          MaxCrashes  \* bound on the number of times the process is killed

ASSUME ThreadsAssumption == NoThread \notin Threads
ASSUME WordAssumption == WordSize \in Nat /\ WordSize >= 12
ASSUME InputAssumption ==
  /\ SirenIds \subseteq 0 .. WordSize - 1
  /\ Durations \subseteq 0 .. WordSize - 1
  /\ Absent \notin Int
ASSUME BoundAssumption == HwMayFail \in BOOLEAN /\ MaxCrashes \in Nat

(***************************************************************************)
(* Data of the code.                                                       *)
(***************************************************************************)
INVALID == 0        \* SIREN_PATTERN_INVALID
STEADY == 1         \* SIREN_PATTERN_STEADY
INFINITE == -1      \* SIREN_DURATION_INFINITE

\* pattern_table: the id of each pattern and its number of on/off steps.
pattern_table == [id \in 1 .. 5 |->
                    CASE id = 1 -> 0 [] id = 2 -> 3 [] id = 3 -> 4 [] OTHER -> 1]

is_valid_id(id) == id \in DOMAIN pattern_table

\* A u32 attribute stored into an int.
ToInt(u) == IF u < WordSize \div 2 THEN u ELSE u - WordSize

\* duration_sec as the controller keeps it: every value <= 0 means infinite.
ControllerDuration(d) ==
  IF d = Absent \/ ToInt(d) <= 0 THEN INFINITE ELSE ToInt(d)

Requests ==
  [method : {"status", "cancel_alarm"}, siren_id : {Absent}, duration : {Absent}]
    \cup
  [method : {"alarm"}, siren_id : SirenIds \cup {Absent},
   duration : Durations \cup {Absent}]

\* What the uloop thread is doing when it serves no request: waiting, or
\* shutting the controller down on its way to the exit status 0 or 1.
NoRequest == [method |-> "none", siren_id |-> Absent, duration |-> Absent]
Exit(status) == [NoRequest EXCEPT !.method = status]

NoReply == [result |-> "none", running |-> FALSE, siren_id |-> INVALID,
            pattern |-> INVALID, duration |-> 0]

NoArg == [pattern_id |-> INVALID, duration_sec |-> 0]

VARIABLES
  pc,                    \* where the uloop thread is
  request,               \* the request it serves
  reply,                 \* the reply it is building
  terminated,            \* uloop_end was called by the signal handler
  thread_active, keep_running, current_pattern, current_duration_sec,
  pattern_thread,        \* the statics of siren_controller.c
  worker_pc,             \* where each worker is
  worker_arg,            \* its siren_worker_arg_t
  deadline,              \* whether duration_sec has passed since its start_ms
  i,                     \* its index into the steps of its pattern
  hw,                    \* the PWM output, "on" or "off"
  hw_fault,              \* the last write to it failed
  crashes

shared == <<thread_active, keep_running, current_pattern, current_duration_sec>>
workers == <<worker_pc, worker_arg, deadline, i>>
output == <<hw, hw_fault>>
vars == <<pc, request, reply, terminated, shared, pattern_thread, workers,
          output, crashes>>

MainPcs ==
  {"failed", "exited", "init", "connect", "add_object", "idle", "stop", "join",
   "stop_clear", "stop_off", "start", "create", "rollback", "rollback_off",
   "reply_state", "reply_id", "reply_pattern", "reply_duration", "reply_send",
   "deinit_off"}

WorkerPcs ==
  {"none", "begin", "steady_on", "steady_wait", "loop", "step", "on", "on_wait",
   "gap", "off_wait", "off", "mark", "done"}

\* A worker that may still touch the output.
Live(t) == worker_pc[t] \notin {"none", "done"}

\* The pcs between a hw_on and the hw_off that undoes it.
SoundingPcs == {"steady_wait", "on_wait", "gap", "off"}

\* The process of this run has initialised the hardware.
Up == pc \notin {"failed", "exited", "init"}

TypeOK ==
  /\ pc \in MainPcs
  /\ request \in Requests \cup {NoRequest, Exit("return_0"), Exit("return_1")}
  /\ reply \in [result : {"none", "ok", "error"}, running : BOOLEAN,
                siren_id : 0 .. 5, pattern : 0 .. 5, duration : Int]
  /\ terminated \in BOOLEAN
  /\ thread_active \in BOOLEAN /\ keep_running \in BOOLEAN
  /\ current_pattern \in 0 .. 5 /\ current_duration_sec \in Int
  /\ pattern_thread \in Threads \cup {NoThread}
  /\ worker_pc \in [Threads -> WorkerPcs]
  /\ worker_arg \in [Threads -> [pattern_id : 0 .. 5, duration_sec : Int]]
  /\ deadline \in [Threads -> {"infinite", "running", "expired"}]
  /\ i \in [Threads -> Nat]
  /\ hw \in {"on", "off"} /\ hw_fault \in BOOLEAN
  /\ crashes \in Nat

-----------------------------------------------------------------------------
(***************************************************************************)
(* The hardware layer: one write to PWM_ENABLE.  A write that fails leaves *)
(* the output as it was and every caller ignores its result.               *)
(***************************************************************************)
write_sysfs(value) ==
  \/ hw' = value /\ hw_fault' = FALSE
  \/ HwMayFail /\ hw' = hw /\ hw_fault' = TRUE

siren_hw_on == write_sysfs("on")
siren_hw_off == write_sysfs("off")

(***************************************************************************)
(* Life cycle of the process.                                              *)
(***************************************************************************)
\* The statics of a process that has just been executed.
FreshProcess ==
  /\ request' = NoRequest /\ reply' = NoReply /\ terminated' = FALSE
  /\ thread_active' = FALSE /\ keep_running' = FALSE
  /\ current_pattern' = INVALID /\ current_duration_sec' = 0
  /\ pattern_thread' = NoThread
  /\ worker_pc' = [t \in Threads |-> "none"]
  /\ worker_arg' = [t \in Threads |-> NoArg]
  /\ deadline' = [t \in Threads |-> "infinite"]
  /\ i' = [t \in Threads |-> 0]

Init ==
  /\ pc = "exited" /\ request = NoRequest /\ reply = NoReply
  /\ terminated = FALSE
  /\ thread_active = FALSE /\ keep_running = FALSE
  /\ current_pattern = INVALID /\ current_duration_sec = 0
  /\ pattern_thread = NoThread
  /\ worker_pc = [t \in Threads |-> "none"]
  /\ worker_arg = [t \in Threads |-> NoArg]
  /\ deadline = [t \in Threads |-> "infinite"]
  /\ i = [t \in Threads |-> 0]
  /\ hw \in {"on", "off"} /\ hw_fault = FALSE
  /\ crashes = 0

\* systemd (Restart=on-failure) or an operator executes the binary.
Start ==
  /\ pc \in {"failed", "exited"}
  /\ pc' = "init"
  /\ UNCHANGED <<request, reply, terminated, shared, pattern_thread, workers,
                 output, crashes>>

\* The process is killed; the output keeps the value last written.
Crash ==
  /\ pc \notin {"failed", "exited"}
  /\ crashes < MaxCrashes
  /\ crashes' = crashes + 1
  /\ pc' = "failed"
  /\ FreshProcess
  /\ UNCHANGED output

siren_controller_init ==
  /\ pc = "init"
  /\ siren_hw_off
  /\ pc' = "connect"
  /\ UNCHANGED <<request, reply, terminated, shared, pattern_thread, workers,
                 crashes>>

\* ubus_connect and ubus_add_object; a failure deinitialises the controller.
Connect ==
  /\ pc \in {"connect", "add_object"}
  /\ \/ /\ pc' = IF pc = "connect" THEN "add_object" ELSE "idle"
        /\ UNCHANGED request
     \/ /\ pc' = "stop"
        /\ request' = Exit("return_1")
  /\ UNCHANGED <<reply, terminated, shared, pattern_thread, workers, output,
                 crashes>>

\* SIGTERM or SIGINT while uloop_run runs.  One that comes earlier is lost,
\* since uloop_run clears the flag when it starts.
handle_signal ==
  /\ pc = "idle" \/ request \in Requests
  /\ terminated' = TRUE
  /\ UNCHANGED <<pc, request, reply, shared, pattern_thread, workers, output,
                 crashes>>

\* uloop_run returns between two requests and main deinitialises.
LeaveLoop ==
  /\ pc = "idle" /\ terminated
  /\ pc' = "stop"
  /\ request' = Exit("return_0")
  /\ UNCHANGED <<reply, terminated, shared, pattern_thread, workers, output,
                 crashes>>

\* siren_hw_deinit, then main returns.
siren_controller_deinit ==
  /\ pc = "deinit_off"
  /\ siren_hw_off
  /\ pc' = IF request.method = "return_0" THEN "exited" ELSE "failed"
  /\ FreshProcess
  /\ UNCHANGED crashes
-----------------------------------------------------------------------------
(***************************************************************************)
(* The request handlers.                                                   *)
(***************************************************************************)
\* Variant: the id is passed on without looking it up in pattern_table.
AcceptedUnchecked(r) == r.siren_id # Absent

Accepted(r) == r.siren_id # Absent /\ is_valid_id(ToInt(r.siren_id))

\* The uloop dispatches a request to its handler, which validates it.
Receive(r) ==
  /\ pc = "idle" /\ ~terminated
  /\ request' = r
  /\ \/ /\ r.method = "status"
        /\ pc' = "reply_state" /\ reply' = [reply EXCEPT !.result = "ok"]
     \/ /\ r.method = "alarm" /\ ~Accepted(r)
        /\ pc' = "reply_state" /\ reply' = [reply EXCEPT !.result = "error"]
     \/ /\ r.method = "alarm" /\ Accepted(r)
        /\ pc' = "stop" /\ UNCHANGED reply
     \/ /\ r.method = "cancel_alarm"
        /\ pc' = "stop" /\ UNCHANGED reply
  /\ UNCHANGED <<terminated, shared, pattern_thread, workers, output, crashes>>

\* send_siren_reply: four separate critical sections, then the reply leaves.
ReadState ==
  /\ pc = "reply_state" /\ pc' = "reply_id"
  /\ reply' = [reply EXCEPT !.running = keep_running]
  /\ UNCHANGED <<request, terminated, shared, pattern_thread, workers, output,
                 crashes>>

ReadId ==
  /\ pc = "reply_id" /\ pc' = "reply_pattern"
  /\ reply' = [reply EXCEPT !.siren_id = current_pattern]
  /\ UNCHANGED <<request, terminated, shared, pattern_thread, workers, output,
                 crashes>>

ReadPatternName ==
  /\ pc = "reply_pattern" /\ pc' = "reply_duration"
  /\ reply' = [reply EXCEPT !.pattern = current_pattern]
  /\ UNCHANGED <<request, terminated, shared, pattern_thread, workers, output,
                 crashes>>

ReadDuration ==
  /\ pc = "reply_duration" /\ pc' = "reply_send"
  /\ reply' = [reply EXCEPT !.duration = current_duration_sec]
  /\ UNCHANGED <<request, terminated, shared, pattern_thread, workers, output,
                 crashes>>

SendReply ==
  /\ pc = "reply_send" /\ pc' = "idle"
  /\ request' = NoRequest /\ reply' = NoReply
  /\ UNCHANGED <<terminated, shared, pattern_thread, workers, output, crashes>>

(***************************************************************************)
(* siren_controller_stop: clear the flag, join the worker, clear the rest, *)
(* silence the output; then whatever its caller does next.                 *)
(***************************************************************************)
\* Variant: the stop joins without telling the worker to end.
StopRequestKeepsRunning ==
  /\ pc = "stop"
  /\ pc' = IF thread_active THEN "join" ELSE "stop_clear"
  /\ UNCHANGED <<request, reply, terminated, shared, pattern_thread, workers,
                 output, crashes>>

StopRequest ==
  /\ pc = "stop"
  /\ IF thread_active
       THEN keep_running' = FALSE /\ pc' = "join"
       ELSE pc' = "stop_clear" /\ UNCHANGED keep_running
  /\ UNCHANGED <<request, reply, terminated, thread_active, current_pattern,
                 current_duration_sec, pattern_thread, workers, output, crashes>>

\* Variant: the worker is told to end but not waited for.
StopJoinNoWait ==
  /\ pc = "join" /\ pc' = "stop_clear"
  /\ UNCHANGED <<request, reply, terminated, shared, pattern_thread, workers,
                 output, crashes>>

\* pthread_join returns when the worker function has returned, and the thread
\* with its locals is gone.
StopJoin ==
  /\ pc = "join"
  /\ pattern_thread \in Threads
  /\ worker_pc[pattern_thread] = "done"
  /\ worker_pc' = [worker_pc EXCEPT ![pattern_thread] = "none"]
  /\ worker_arg' = [worker_arg EXCEPT ![pattern_thread] = NoArg]
  /\ deadline' = [deadline EXCEPT ![pattern_thread] = "infinite"]
  /\ i' = [i EXCEPT ![pattern_thread] = 0]
  /\ pc' = "stop_clear"
  /\ UNCHANGED <<request, reply, terminated, shared, pattern_thread, output,
                 crashes>>

StopClear ==
  /\ pc = "stop_clear" /\ pc' = "stop_off"
  /\ thread_active' = FALSE /\ keep_running' = FALSE
  /\ current_pattern' = INVALID /\ current_duration_sec' = 0
  /\ UNCHANGED <<request, reply, terminated, pattern_thread, workers, output,
                 crashes>>

StopOff ==
  /\ pc = "stop_off"
  /\ siren_hw_off
  /\ \/ /\ request.method = "alarm"
        /\ pc' = "start" /\ UNCHANGED reply
     \/ /\ request.method = "cancel_alarm"
        /\ pc' = "reply_state" /\ reply' = [reply EXCEPT !.result = "ok"]
     \/ /\ request.method \in {"return_0", "return_1"}
        /\ pc' = "deinit_off" /\ UNCHANGED reply
  /\ UNCHANGED <<request, terminated, shared, pattern_thread, workers, crashes>>

(***************************************************************************)
(* siren_controller_start_by_id after its stop: allocate the argument, arm *)
(* the shared state, create the worker, or roll back.                      *)
(***************************************************************************)
OutOfMemory ==
  /\ pc = "start"
  /\ pc' = "reply_state" /\ reply' = [reply EXCEPT !.result = "error"]
  /\ UNCHANGED <<request, terminated, shared, pattern_thread, workers, output,
                 crashes>>

\* Variant: the duration is stored as it was received.
ArmRawDuration ==
  /\ pc = "start" /\ pc' = "create"
  /\ keep_running' = TRUE /\ thread_active' = TRUE
  /\ current_pattern' = ToInt(request.siren_id)
  /\ current_duration_sec' =
       IF request.duration = Absent THEN INFINITE ELSE ToInt(request.duration)
  /\ UNCHANGED <<request, reply, terminated, pattern_thread, workers, output,
                 crashes>>

\* Variant: the shared state is armed without the new pattern.
ArmNoPattern ==
  /\ pc = "start" /\ pc' = "create"
  /\ keep_running' = TRUE /\ thread_active' = TRUE
  /\ current_duration_sec' = ControllerDuration(request.duration)
  /\ UNCHANGED <<request, reply, terminated, current_pattern, pattern_thread,
                 workers, output, crashes>>

Arm ==
  /\ pc = "start" /\ pc' = "create"
  /\ keep_running' = TRUE /\ thread_active' = TRUE
  /\ current_pattern' = ToInt(request.siren_id)
  /\ current_duration_sec' = ControllerDuration(request.duration)
  /\ UNCHANGED <<request, reply, terminated, pattern_thread, workers, output,
                 crashes>>

CreateWorker(t) ==
  /\ pc = "create" /\ worker_pc[t] = "none"
  /\ pattern_thread' = t
  /\ worker_pc' = [worker_pc EXCEPT ![t] = "begin"]
  /\ worker_arg' = [worker_arg EXCEPT ![t] =
                      [pattern_id |-> ToInt(request.siren_id),
                       duration_sec |-> ControllerDuration(request.duration)]]
  /\ pc' = "reply_state" /\ reply' = [reply EXCEPT !.result = "ok"]
  /\ UNCHANGED <<request, terminated, shared, deadline, i, output, crashes>>

CreateFails ==
  /\ pc = "create" /\ pc' = "rollback"
  /\ UNCHANGED <<request, reply, terminated, shared, pattern_thread, workers,
                 output, crashes>>

Rollback ==
  /\ pc = "rollback" /\ pc' = "rollback_off"
  /\ thread_active' = FALSE /\ keep_running' = FALSE
  /\ current_pattern' = INVALID /\ current_duration_sec' = 0
  /\ UNCHANGED <<request, reply, terminated, pattern_thread, workers, output,
                 crashes>>

RollbackOff ==
  /\ pc = "rollback_off"
  /\ siren_hw_off
  /\ pc' = "reply_state" /\ reply' = [reply EXCEPT !.result = "error"]
  /\ UNCHANGED <<request, terminated, shared, pattern_thread, workers, crashes>>
-----------------------------------------------------------------------------
(***************************************************************************)
(* pattern_worker.                                                         *)
(***************************************************************************)
mainVars == <<pc, request, reply, terminated, pattern_thread, crashes>>

Goto(t, label) == worker_pc' = [worker_pc EXCEPT ![t] = label]

\* duration_expired of a finite pattern becomes true at some moment.
Elapse(t) ==
  /\ Live(t) /\ deadline[t] = "running"
  /\ deadline' = [deadline EXCEPT ![t] = "expired"]
  /\ UNCHANGED <<mainVars, shared, worker_pc, worker_arg, i, output>>

\* Variant: the flag alone decides.
ContinueIgnoresDeadline(t) == keep_running

should_continue(t) == keep_running /\ deadline[t] # "expired"

\* Look the pattern up and take start_ms.
WorkerBegin(t) ==
  /\ worker_pc[t] = "begin"
  /\ LET arg == worker_arg[t] IN
       /\ Goto(t, IF ~is_valid_id(arg.pattern_id) THEN "off"
                  ELSE IF arg.pattern_id = STEADY THEN "steady_on" ELSE "loop")
       /\ deadline' = [deadline EXCEPT ![t] =
                         IF arg.duration_sec = INFINITE THEN "infinite"
                         ELSE "running"]
  /\ UNCHANGED <<mainVars, shared, worker_arg, i, output>>

\* The hw_on that begins the steady tone or the sounding half of a step.
WorkerOn(t) ==
  /\ \/ worker_pc[t] = "steady_on" /\ Goto(t, "steady_wait")
     \/ worker_pc[t] = "on" /\ Goto(t, "on_wait")
  /\ siren_hw_on
  /\ UNCHANGED <<mainVars, shared, worker_arg, deadline, i>>

\* Variant: the steady tone ends after its first slice of sleep.
SteadyOneSlice(t) ==
  /\ worker_pc[t] = "steady_wait"
  /\ Goto(t, "off")
  /\ UNCHANGED <<mainVars, shared, worker_arg, deadline, i, output>>

\* The steady tone sleeps in slices until should_continue fails.
SteadyEnds(t) ==
  /\ worker_pc[t] = "steady_wait" /\ ~should_continue(t)
  /\ Goto(t, "off")
  /\ UNCHANGED <<mainVars, shared, worker_arg, deadline, i, output>>

\* The outer while, which starts the steps again, and the inner for.
LoopTest(t) ==
  /\ worker_pc[t] = "loop"
  /\ Goto(t, IF should_continue(t) THEN "step" ELSE "off")
  /\ i' = [i EXCEPT ![t] = 0]
  /\ UNCHANGED <<mainVars, shared, worker_arg, deadline, output>>

StepTest(t) ==
  /\ worker_pc[t] = "step"
  /\ Goto(t, IF i[t] < pattern_table[worker_arg[t].pattern_id]
                  /\ should_continue(t) THEN "on" ELSE "loop")
  /\ UNCHANGED <<mainVars, shared, worker_arg, deadline, i, output>>

\* interruptible_sleep_ms: it returns when its time is up or should_continue
\* fails, so in any state it may be over.  After the silent half i++ follows.
SleepEnds(t) ==
  /\ \/ worker_pc[t] = "on_wait" /\ Goto(t, "gap") /\ UNCHANGED i
     \/ /\ worker_pc[t] = "off_wait" /\ Goto(t, "step")
        /\ i' = [i EXCEPT ![t] = @ + 1]
  /\ UNCHANGED <<mainVars, shared, worker_arg, deadline, output>>

\* Variant: the worker leaves its loop without a last hw_off.
WorkerOffBetweenStepsOnly(t) ==
  /\ \/ worker_pc[t] = "gap" /\ Goto(t, "off_wait") /\ siren_hw_off
     \/ worker_pc[t] = "off" /\ Goto(t, "mark") /\ UNCHANGED output
  /\ UNCHANGED <<mainVars, shared, worker_arg, deadline, i>>

\* The hw_off between two steps and the one that ends the pattern.
WorkerOff(t) ==
  /\ \/ worker_pc[t] = "gap" /\ Goto(t, "off_wait")
     \/ worker_pc[t] = "off" /\ Goto(t, "mark")
  /\ siren_hw_off
  /\ UNCHANGED <<mainVars, shared, worker_arg, deadline, i>>

\* Variant: the worker clears the flag but not the pattern it played.
MarkKeepsPattern(t) ==
  /\ worker_pc[t] = "mark" /\ Goto(t, "done")
  /\ keep_running' = FALSE /\ current_duration_sec' = 0
  /\ UNCHANGED <<mainVars, thread_active, current_pattern, worker_arg, deadline,
                 i, output>>

mark_stopped_from_worker(t) ==
  /\ worker_pc[t] = "mark" /\ Goto(t, "done")
  /\ keep_running' = FALSE
  /\ current_pattern' = INVALID /\ current_duration_sec' = 0
  /\ UNCHANGED <<mainVars, thread_active, worker_arg, deadline, i, output>>

-----------------------------------------------------------------------------
MainStep ==
  \/ siren_controller_init \/ Connect \/ LeaveLoop \/ siren_controller_deinit
  \/ ReadState \/ ReadId \/ ReadPatternName \/ ReadDuration \/ SendReply
  \/ StopRequest \/ StopJoin \/ StopClear \/ StopOff
  \/ OutOfMemory \/ Arm \/ (\E t \in Threads : CreateWorker(t)) \/ CreateFails
  \/ Rollback \/ RollbackOff

WorkerStep(t) ==
  \/ WorkerBegin(t) \/ WorkerOn(t) \/ SteadyEnds(t) \/ LoopTest(t)
  \/ StepTest(t) \/ SleepEnds(t) \/ WorkerOff(t) \/ mark_stopped_from_worker(t)

Next ==
  \/ Start \/ Crash \/ handle_signal
  \/ \E r \in Requests : Receive(r)
  \/ MainStep
  \/ \E t \in Threads : WorkerStep(t) \/ Elapse(t)

Safety == Init /\ [][Next]_vars

\* The scheduler runs every thread that can run, and the clock advances.
\* Nothing obliges a caller to send a request or an operator to stop or start
\* the service.
Fairness ==
  /\ WF_vars(MainStep)
  /\ \A t \in Threads : WF_vars(WorkerStep(t)) /\ WF_vars(Elapse(t))

Spec == Safety /\ Fairness
-----------------------------------------------------------------------------
(***************************************************************************)
(* Properties.                                                             *)
(***************************************************************************)
\* At most one worker exists, it is the one pattern_thread names, and
\* thread_active says so: the next stop joins it before another is created.
NoOrphanThread ==
  \A t \in Threads : worker_pc[t] # "none" => t = pattern_thread /\ thread_active

\* Once this process has initialised the hardware, the output is driven only
\* between a worker's hw_on and its hw_off, or because a hw_off failed: no
\* interleaving of requests, stops and expiring durations leaves the siren
\* sounding with nobody to silence it.
SoundsOnlyUnderWorker ==
  Up /\ hw = "on" /\ ~hw_fault =>
    \E t \in Threads : worker_pc[t] \in SoundingPcs

\* What the status object reports while a pattern plays (keep_running with the
\* worker at its steps) is the pattern and the duration that worker plays:
\* no late mark of an earlier worker wipes the state of a later one.
StatusMatchesWorker ==
  \A t \in Threads :
    Live(t) /\ keep_running =>
      /\ current_pattern = worker_arg[t].pattern_id
      /\ current_duration_sec = worker_arg[t].duration_sec

\* A pattern is cut short (its worker leaves its loop before its duration has
\* passed) only while the uloop thread waits in stop for it to end.
CutShortOnlyByStop ==
  \A t \in Threads :
    worker_pc[t] \in {"off", "mark", "done"} /\ deadline[t] # "expired"
      => pc = "join"

\* A reply to an accepted alarm shows, field by field, the values requested or
\* (the pattern is over already) the stopped values: never an earlier alarm's.
AlarmReplyNotStale ==
  pc = "reply_send" /\ request.method = "alarm" /\ reply.result = "ok" =>
    /\ reply.siren_id \in {ToInt(request.siren_id), INVALID}
    /\ reply.pattern \in {ToInt(request.siren_id), INVALID}
    /\ reply.duration \in {ControllerDuration(request.duration), 0}

\* The four fields of a reply are read in four critical sections, so a pattern
\* that ends meanwhile tears the reply; but a field once read as stopped is
\* followed by stopped fields only, whatever the worker does in between.
ReplyTearsOneWay ==
  pc = "reply_send" =>
    /\ ~reply.running => reply.siren_id = INVALID
    /\ reply.siren_id = INVALID => reply.pattern = INVALID
    /\ reply.pattern = INVALID => reply.duration = 0

\* The uloop thread never stays in a handler or in its way out: a stop that
\* joins the worker returns although the worker may be in the middle of a
\* sleep, and a process that was told to end ends.
RequestReturns ==
  request # NoRequest ~> pc \in {"idle", "exited", "failed"}

\* A pattern with a finite duration ends by itself.
FinitePatternEnds ==
  keep_running /\ current_duration_sec > 0 ~> ~keep_running

(***************************************************************************)
(* The service implements Reaction.                                        *)
(***************************************************************************)
Stage ==
  IF ~Up THEN "down"
  ELSE IF keep_running THEN "active"
  ELSE IF \E t \in Threads : Live(t) THEN "ending"
  ELSE "quiet"

PatternPlayed == IF Up /\ keep_running THEN current_pattern ELSE INVALID

\* The output as the program drives it: a failed write is not its doing.
Sounding == hw = "on" /\ ~hw_fault

R == INSTANCE Reaction WITH
       Patterns <- 1 .. 5, NoPattern <- INVALID,
       stage <- Stage, pattern <- PatternPlayed, sounding <- Sounding

ImplementsReaction == R!Safety

(***************************************************************************)
(* What notify_stats.h says of this service: "the ubus call only returns   *)
(* after the action has actually happened".                                *)
(***************************************************************************)
OkReplyMeansSounded ==
  pc = "reply_send" /\ request.method = "alarm" /\ reply.result = "ok" =>
    \A t \in Threads : worker_pc[t] \notin {"begin", "steady_on"}
=============================================================================
