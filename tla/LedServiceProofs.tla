-------------------------- MODULE LedServiceProofs --------------------------
(***************************************************************************)
(* Machine-checked proofs that the invariants of LedService hold for any   *)
(* set of threads, any word size, any requests, whatever the device's      *)
(* files contain and whichever writes fail.                                *)
(*                                                                         *)
(* The parts of the inductive invariant are proved one from the other: the *)
(* types; what the uloop thread is doing for which request; where a worker *)
(* can exist; how the shared state and the worker agree; the light.        *)
(* The last section proves that the service implements Reaction.           *)
(***************************************************************************)
EXTENDS LedService, TLAPS

\* A worker's place and locals.
Locals ==
  [pc : WorkerPcs, pattern_id : 0 .. 4, duration_sec : Int,
   deadline : {"infinite", "running", "expired"}, i : 0 .. 1, off : 1 .. 3,
   brightness : Nat, screen : Int \cup {Unreadable}]

Replies ==
  [result : {"none", "ok", "error"}, running : BOOLEAN,
   led_id : 0 .. 4, pattern : 0 .. 4, duration : Int]

\* The parts of the types.
ControlOK ==
  /\ pc \in MainPcs /\ off \in 1 .. 3 /\ terminated \in BOOLEAN
  /\ request \in Requests \cup {NoRequest, Exit("return_0"), Exit("return_1")}
  /\ pattern_thread \in Threads \cup {NoThread} /\ crashes \in Nat
SharedOK ==
  /\ thread_active \in BOOLEAN /\ keep_running \in BOOLEAN
  /\ current_pattern \in 0 .. 4 /\ current_duration_sec \in Int
LimitsOK ==
  /\ limits \in [full : Nat, dim : Nat, threshold : Nat,
                 maxima : [Channels -> Int \cup {Unreadable}]]
  /\ limits.full > 0 /\ limits.dim \in 1 .. limits.full
  /\ \A d \in Channels : Usable(limits.maxima[d]) => limits.full <= limits.maxima[d]
WorkersOK == worker \in [Threads -> Locals]
OutputOK == hw \in [Channels -> Nat] /\ hw_fault \in [Channels -> BOOLEAN]

TypesOK ==
  ControlOK /\ reply \in Replies /\ SharedOK /\ LimitsOK /\ WorkersOK /\ OutputOK

\* The stop is part of an alarm, a cancel or a shutdown; the rest of a start
\* belongs to an alarm with a known pattern.
RequestInv ==
  /\ pc \in {"stop", "join", "stop_clear", "stop_off"} =>
       request.method \in {"alarm", "cancel_alarm", "return_0", "return_1"}
  /\ pc \in {"start", "create", "rollback", "rollback_off"} =>
       request.method = "alarm"
  /\ pc \in {"stop", "join", "stop_clear", "stop_off", "start", "create"}
       /\ request.method = "alarm" =>
       /\ request.led_id \in LedIds
       /\ request.duration \in Durations \cup {Absent}
       /\ ToInt(request.led_id) \in 1 .. 4

\* The places of the uloop thread at which no worker exists: before the
\* controller is up, and between the join and the creation of the next worker.
NoWorkerPcs ==
  {"failed", "exited", "init", "init_off", "connect", "add_object", "stop_clear",
   "stop_off", "start", "create", "rollback", "rollback_off", "deinit_off"}

\* There is never a worker that the next stop would not join.
ThreadInv ==
  /\ \A t \in Threads : worker[t].pc # "none" => thread_active /\ pattern_thread = t
  /\ pc \in NoWorkerPcs => \A t \in Threads : worker[t].pc = "none"
  /\ pc = "create" => thread_active

\* The shared state describes the worker, and a worker that nobody stops may
\* go on.
AgreeInv ==
  /\ pc = "create" =>
       /\ keep_running
       /\ current_pattern = ToInt(request.led_id)
       /\ current_duration_sec = ControllerDuration(request.duration)
  /\ StatusMatchesWorker
  /\ \A t \in Threads : worker[t].pc # "none" => worker[t].pattern_id \in 1 .. 4
  /\ \A t \in Threads : Live(t) /\ pc # "join" => keep_running

\* Where the two counters of all_off are, and what it has switched off.
OffInv ==
  /\ pc \notin OffPcs => off = 1
  /\ \A t \in Threads : worker[t].pc # "all_off" => worker[t].off = 1
  /\ pc = "init_off" => \A n \in 1 .. off - 1 : ~Lit(OffOrder[n])
-----------------------------------------------------------------------------
\* What the controller stores of a duration is an integer.
LEMMA DurationType ==
  ASSUME NEW d \in Durations \cup {Absent}
  PROVE  ControllerDuration(d) \in Int
<1>1. CASE d = Absent
  BY <1>1 DEF ControllerDuration, INFINITE
<1>2. CASE d \in Durations
  BY <1>2, InputAssumption, WordAssumption DEF ControllerDuration, ToInt, INFINITE
<1> QED BY <1>1, <1>2

\* A request that passes the checks of the alarm handler names a pattern.
LEMMA AcceptedIsPattern ==
  ASSUME NEW r \in Requests, r.method = "alarm", Accepted(r)
  PROVE  /\ r.led_id \in LedIds
         /\ r.duration \in Durations \cup {Absent}
         /\ ToInt(r.led_id) \in 1 .. 4
BY DEF Requests, Accepted, is_valid_id, pattern_table

\* The smallest usable maximum, or the fall-back, whatever the files contain.
LEMMA FullIsSmallest ==
  ASSUME NEW maxima \in [Channels -> Int \cup {Unreadable}]
  PROVE  /\ Full(maxima) \in Nat /\ Full(maxima) > 0
         /\ \A d \in Channels : Usable(maxima[d]) => Full(maxima) <= maxima[d]
<1> DEFINE found == {maxima[c] : c \in {d \in Channels : Usable(maxima[d])}}
<1>1. \A v \in found : v \in Nat /\ v > 0
  BY DEF Usable
<1>2. CASE found = {}
  BY <1>2 DEF Full, LED_BRIGHTNESS_FULL_FALLBACK
<1>3. CASE found # {}
  <2>1. \E v \in found : \A w \in found : v <= w
    <3> DEFINE r == maxima["red"]
               g == maxima["green"]
               b == maxima["blue"]
    <3>1. found \subseteq {r, g, b}
      BY DEF Channels
    <3>2. PICK x \in found : TRUE
      BY <1>3
    <3> HIDE DEF found, r, g, b
    <3>3. CASE \A w \in found : x <= w
      BY <3>3
    <3>4. ASSUME NEW y \in found, y < x PROVE \E v \in found : \A w \in found : v <= w
      <4>1. CASE \A w \in found : y <= w
        BY <4>1
      <4>2. ASSUME NEW z \in found, z < y PROVE \E v \in found : \A w \in found : v <= w
        <5>1. \A w \in found : w = x \/ w = y \/ w = z
          BY <1>1, <3>1, <3>4, <4>2
        <5> QED BY <1>1, <3>4, <4>2, <5>1
      <4> QED BY <1>1, <4>1, <4>2
    <3> QED BY <1>1, <3>3, <3>4
  <2> DEFINE m == CHOOSE v \in found : \A w \in found : v <= w
  <2>2. m \in found /\ \A w \in found : m <= w
    BY <2>1
  <2>3. Full(maxima) = m
    BY <1>3 DEF Full
  <2>4. \A d \in Channels : Usable(maxima[d]) => maxima[d] \in found
    OBVIOUS
  <2> HIDE DEF found, m
  <2> QED BY <1>1, <2>2, <2>3, <2>4
<1> QED BY <1>2, <1>3

\* What led_hw_init makes of its readings.
LEMMA LimitsType ==
  ASSUME NEW maxima \in [Channels -> Int \cup {Unreadable}],
         NEW a \in Int \cup {Unreadable}, limits' = Limits(maxima, a)
  PROVE  LimitsOK'
<1>1. /\ Full(maxima) \in Nat /\ Full(maxima) > 0
      /\ \A d \in Channels : Usable(maxima[d]) => Full(maxima) <= maxima[d]
  BY FullIsSmallest
<1>2. Dim(Full(maxima)) \in 1 .. Full(maxima)
  BY <1>1 DEF Dim, LED_BRIGHTNESS_DIM_PREFERRED
<1>3. Threshold(a) \in Nat
  BY DEF Threshold, Usable, LED_AMBIENT_MAX_FALLBACK
<1> QED BY <1>1, <1>2, <1>3 DEF Limits, LimitsOK

\* Before led_hw_init the limits are those of no readings.
LEMMA NoLimitsType ==
  ASSUME limits' = NoLimits
  PROVE  LimitsOK'
BY LimitsType DEF NoLimits

\* A write leaves every channel with a brightness.
LEMMA WriteType ==
  ASSUME TypesOK, NEW c \in Channels, NEW b \in Nat, led_hw_set_channel(c, b)
  PROVE  OutputOK'
<1>1. Clamp(limits, b) \in Nat
  BY DEF TypesOK, LimitsOK, Clamp
<1> QED BY <1>1 DEF led_hw_set_channel, TypesOK, OutputOK

\* The same for a write of all_off, which then goes on to the next channel.
LEMMA AllOffType ==
  ASSUME TypesOK, NEW n \in 1 .. 3, NEW next, led_hw_all_off(n, next)
  PROVE  OutputOK' /\ next = (IF n = 3 THEN 1 ELSE n + 1)
<1>1. OffOrder[n] \in Channels
  BY DEF OffOrder, Channels
<1> QED BY <1>1, WriteType DEF led_hw_all_off
-----------------------------------------------------------------------------
\* A worker that exists plays one of the patterns.
LEMMA RunningPattern ==
  ASSUME AgreeInv, NEW t \in Threads, worker[t].pc # "none"
  PROVE  /\ worker[t].pattern_id \in 1 .. 4 /\ is_valid_id(worker[t].pattern_id)
         /\ PatternOf(t).channel \in {"red", "blue"} /\ PatternOf(t).channel \in Channels
<1>1. worker[t].pattern_id \in 1 .. 4
  BY DEF AgreeInv
<1> QED BY <1>1 DEF is_valid_id, PatternOf, pattern_table, Channels

\* A worker that does not exist has the locals it will be created with.
LEMMA NoWorkerType == NoWorker \in Locals
BY DEF NoWorker, Locals, WorkerPcs, INVALID

\* What the steps that set several locals make of them.
LEMMA LocalsChange ==
  ASSUME NEW w \in Locals, NEW p \in WorkerPcs
  PROVE  /\ \A n \in 0 .. 1 : [w EXCEPT !.pc = p, !.i = n] \in Locals
         /\ \A id \in 0 .. 4, n \in Int :
              [w EXCEPT !.pc = p, !.pattern_id = id, !.duration_sec = n] \in Locals
         /\ \A d \in {"infinite", "running", "expired"}, b \in Nat,
               s \in Int \cup {Unreadable} :
              [w EXCEPT !.pc = p, !.deadline = d, !.brightness = b, !.screen = s] \in Locals
<1>1. ASSUME NEW n \in 0 .. 1 PROVE [w EXCEPT !.pc = p, !.i = n] \in Locals
  BY DEF Locals
<1>2. ASSUME NEW id \in 0 .. 4, NEW n \in Int
      PROVE  [w EXCEPT !.pc = p, !.pattern_id = id, !.duration_sec = n] \in Locals
  BY DEF Locals
<1>3. ASSUME NEW d \in {"infinite", "running", "expired"}, NEW b \in Nat,
             NEW s \in Int \cup {Unreadable}
      PROVE  [w EXCEPT !.pc = p, !.deadline = d, !.brightness = b, !.screen = s] \in Locals
  BY DEF Locals
<1> QED BY <1>1, <1>2, <1>3

\* What a worker does first: it knows its pattern, takes the time and the
\* brightness of the screen.
LEMMA Begins ==
  ASSUME WorkersOK, AgreeInv, NEW t \in Threads, WorkerBegin(t)
  PROVE  \E s \in ScreenReadings, p \in {"solid_on", "loop"},
            d \in {"infinite", "running", "expired"} :
           worker' = [worker EXCEPT ![t] =
             [@ EXCEPT !.pc = p, !.deadline = d,
                       !.brightness = led_hw_ambient_brightness(limits, s), !.screen = s]]
<1> DEFINE id == worker[t].pattern_id
           p == IF pattern_table[id].step_count = 0 THEN "solid_on" ELSE "loop"
           d == IF worker[t].deadline = "infinite" /\ worker[t].duration_sec # INFINITE
                THEN "running" ELSE worker[t].deadline
<1>1. is_valid_id(id) /\ worker[t].deadline \in {"infinite", "running", "expired"}
  BY RunningPattern DEF WorkerBegin, WorkersOK, Locals
<1>2. PICK s \in ScreenReadings :
        worker' = [worker EXCEPT
          ![t].pc = IF ~is_valid_id(id) THEN "all_off"
                    ELSE IF pattern_table[id].step_count = 0 THEN "solid_on"
                    ELSE "loop",
          ![t].deadline = IF @ = "infinite" /\ worker[t].duration_sec # INFINITE
                          THEN "running" ELSE @,
          ![t].brightness = led_hw_ambient_brightness(limits, s),
          ![t].screen = s]
  BY DEF WorkerBegin
<1>3. p \in {"solid_on", "loop"} /\ d \in {"infinite", "running", "expired"}
  BY <1>1
<1>4. worker' = [worker EXCEPT ![t] =
        [@ EXCEPT !.pc = p, !.deadline = d,
                  !.brightness = led_hw_ambient_brightness(limits, s), !.screen = s]]
  BY <1>1, <1>2 DEF WorkersOK
<1> QED BY <1>3, <1>4

\* Every step keeps the types.
LEMMA TypeStep ==
  ASSUME TypesOK, RequestInv, AgreeInv, [Next]_vars
  PROVE  TypesOK'
<1> USE DEF TypesOK, ControlOK, SharedOK, LimitsOK, WorkersOK, OutputOK, Replies,
          shared, output, MainPcs
<1>1. CASE Start
  BY <1>1 DEF Start
<1>2. CASE Crash
  <2>1. ControlOK'
    <3>1. pc' \in MainPcs /\ off' \in 1 .. 3 /\ crashes' \in Nat
      BY <1>2 DEF Crash, FreshProcess, OffPcs
    <3>2. request' = NoRequest /\ terminated' = FALSE /\ pattern_thread' = NoThread
      BY <1>2 DEF Crash, FreshProcess
    <3> QED BY <3>1, <3>2
  <2>2. reply' \in Replies
    BY <1>2 DEF Crash, FreshProcess, NoReply, INVALID, Replies
  <2>3. SharedOK'
    <3>1. thread_active' \in BOOLEAN /\ keep_running' \in BOOLEAN
      BY <1>2 DEF Crash, FreshProcess
    <3>2. current_pattern' \in 0 .. 4 /\ current_duration_sec' \in Int
      BY <1>2 DEF Crash, FreshProcess, INVALID
    <3> QED BY <3>1, <3>2
  <2>4. LimitsOK'
    BY <1>2, NoLimitsType DEF Crash, FreshProcess
  <2>5. WorkersOK'
    BY <1>2, NoWorkerType DEF Crash, FreshProcess, WorkersOK
  <2>6. OutputOK'
    BY <1>2 DEF Crash, FreshProcess, output, OutputOK
  <2> QED BY <2>1, <2>2, <2>3, <2>4, <2>5, <2>6
<1>3. CASE handle_signal
  BY <1>3 DEF handle_signal
<1>4. ASSUME NEW r \in Requests, Receive(r)
       PROVE  TypesOK'
  BY <1>4 DEF Receive
<1>5. CASE led_hw_init
  <2>1. LimitsOK'
    BY <1>5, LimitsType, ReadingsAssumption DEF led_hw_init
  <2>2. UNCHANGED <<reply, shared, worker, output>>
    BY <1>5 DEF led_hw_init
  <2>3. ControlOK'
    BY <1>5 DEF led_hw_init, OffPcs
  <2> QED BY <2>1, <2>2, <2>3
<1>6. CASE Connect
  BY <1>6 DEF Connect
<1>7. CASE LeaveLoop
  BY <1>7 DEF LeaveLoop
<1>8. CASE SwitchOff
  <2>1. OutputOK'
    BY <1>8, AllOffType DEF SwitchOff
  <2>5. off' \in 1 .. 3
    BY <1>8 DEF SwitchOff, AfterInit, AfterStop, AfterRollback
  <2>6. pc' \in MainPcs
    BY <1>8 DEF SwitchOff, AfterInit, AfterStop, AfterRollback, OffPcs
  <2>7. UNCHANGED <<terminated, request, pattern_thread, crashes>>
    BY <1>8 DEF SwitchOff, AfterInit, AfterStop, AfterRollback
  <2>2. ControlOK'
    BY <2>5, <2>6, <2>7
  <2>3. reply' \in Replies
    BY <1>8 DEF SwitchOff, AfterInit, AfterStop, AfterRollback
  <2>4. UNCHANGED <<shared, limits, worker>>
    BY <1>8 DEF SwitchOff, AfterInit, AfterStop, AfterRollback
  <2> QED BY <2>1, <2>2, <2>3, <2>4
<1>9. CASE led_controller_deinit
  <2>1. ControlOK'
    <3>1. pc' \in MainPcs /\ off' \in 1 .. 3 /\ crashes' \in Nat
      BY <1>9 DEF led_controller_deinit, FreshProcess, OffPcs
    <3>2. request' = NoRequest /\ terminated' = FALSE /\ pattern_thread' = NoThread
      BY <1>9 DEF led_controller_deinit, FreshProcess
    <3> QED BY <3>1, <3>2
  <2>2. reply' \in Replies
    BY <1>9 DEF led_controller_deinit, FreshProcess, NoReply, INVALID, Replies
  <2>3. SharedOK'
    <3>1. thread_active' \in BOOLEAN /\ keep_running' \in BOOLEAN
      BY <1>9 DEF led_controller_deinit, FreshProcess
    <3>2. current_pattern' \in 0 .. 4 /\ current_duration_sec' \in Int
      BY <1>9 DEF led_controller_deinit, FreshProcess, INVALID
    <3> QED BY <3>1, <3>2
  <2>4. LimitsOK'
    BY <1>9, NoLimitsType DEF led_controller_deinit, FreshProcess
  <2>5. WorkersOK'
    BY <1>9, NoWorkerType DEF led_controller_deinit, FreshProcess, WorkersOK
  <2>6. OutputOK'
    BY <1>9, AllOffType DEF led_controller_deinit, FreshProcess, ControlOK
  <2> QED BY <2>1, <2>2, <2>3, <2>4, <2>5, <2>6
<1>10. CASE ReadReply
  BY <1>10 DEF ReadReply
<1>11. CASE SendReply
  BY <1>11 DEF SendReply, NoReply, INVALID
<1>12. CASE StopRequest
  BY <1>12 DEF StopRequest
<1>13. CASE StopJoin
  BY <1>13, NoWorkerType DEF StopJoin
<1>14. CASE StopClear
  <2>1. thread_active' \in BOOLEAN /\ keep_running' \in BOOLEAN
    BY <1>14 DEF StopClear, ClearShared
  <2>2. current_pattern' \in 0 .. 4 /\ current_duration_sec' \in Int
    BY <1>14 DEF StopClear, ClearShared, INVALID
  <2>3. ControlOK' /\ UNCHANGED <<reply, limits, worker, output>>
    BY <1>14 DEF StopClear, ClearShared, OffPcs
  <2> QED BY <2>1, <2>2, <2>3
<1>15. CASE OutOfMemory
  BY <1>15 DEF OutOfMemory
<1>16. CASE Arm
  BY <1>16, DurationType DEF Arm, RequestInv
<1>17. CASE CreateFails
  BY <1>17 DEF CreateFails
<1>18. CASE Rollback
  <2>1. thread_active' \in BOOLEAN /\ keep_running' \in BOOLEAN
    BY <1>18 DEF Rollback, ClearShared
  <2>2. current_pattern' \in 0 .. 4 /\ current_duration_sec' \in Int
    BY <1>18 DEF Rollback, ClearShared, INVALID
  <2>3. ControlOK' /\ UNCHANGED <<reply, limits, worker, output>>
    BY <1>18 DEF Rollback, ClearShared, OffPcs
  <2> QED BY <2>1, <2>2, <2>3
<1>19. ASSUME NEW t \in Threads, CreateWorker(t)
       PROVE  TypesOK'
  <2>a. /\ ToInt(request.led_id) \in 0 .. 4
        /\ ControllerDuration(request.duration) \in Int
    BY <1>19, DurationType DEF CreateWorker, RequestInv
  <2>b. worker'[t] = [NoWorker EXCEPT !.pc = "begin", !.pattern_id = ToInt(request.led_id),
                            !.duration_sec = ControllerDuration(request.duration)]
    BY <1>19 DEF CreateWorker
  <2>c. "begin" \in WorkerPcs
    BY DEF WorkerPcs
  <2>d. \A id \in 0 .. 4, n \in Int :
          [NoWorker EXCEPT !.pc = "begin", !.pattern_id = id, !.duration_sec = n] \in Locals
    BY <2>c, NoWorkerType, LocalsChange
  <2>e. [NoWorker EXCEPT !.pc = "begin", !.pattern_id = ToInt(request.led_id),
           !.duration_sec = ControllerDuration(request.duration)] \in Locals
    BY <2>a, <2>d
  <2>1. worker'[t] \in Locals
    BY <2>b, <2>e
  <2>2. WorkersOK'
    BY <1>19, <2>1 DEF CreateWorker
  <2>3. ControlOK' /\ reply' \in Replies /\ UNCHANGED <<shared, limits, output>>
    BY <1>19 DEF CreateWorker
  <2> QED BY <2>2, <2>3
<1>20. ASSUME NEW t \in Threads, WorkerBegin(t)
       PROVE  TypesOK'
  <2>a. PICK s \in ScreenReadings, p \in {"solid_on", "loop"},
             d \in {"infinite", "running", "expired"} :
          worker' = [worker EXCEPT ![t] =
            [@ EXCEPT !.pc = p, !.deadline = d,
                      !.brightness = led_hw_ambient_brightness(limits, s), !.screen = s]]
    BY <1>20, Begins
  <2>b. /\ led_hw_ambient_brightness(limits, s) \in Nat /\ s \in Int \cup {Unreadable}
        /\ p \in WorkerPcs /\ worker[t] \in Locals
    BY ReadingsAssumption DEF led_hw_ambient_brightness, WorkerPcs
  <2>1. [worker[t] EXCEPT !.pc = p, !.deadline = d,
           !.brightness = led_hw_ambient_brightness(limits, s), !.screen = s] \in Locals
    BY <2>b, LocalsChange
  <2>2. WorkersOK'
    BY <2>1, <2>a
  <2>3. UNCHANGED <<mainVars, reply, shared, output>>
    BY <1>20 DEF WorkerBegin, mainVars
  <2> QED BY <2>2, <2>3 DEF mainVars
<1>21. ASSUME NEW t \in Threads, WorkerOn(t)
       PROVE  TypesOK'
  <2>0. PatternOf(t).channel \in Channels /\ worker[t].brightness \in Nat
    BY <1>21, RunningPattern DEF WorkerOn, Goto, mainVars, Locals
  <2>1. worker'[t] \in Locals
    BY <1>21 DEF WorkerOn, Goto, mainVars, Locals, WorkerPcs
  <2>2. WorkersOK'
    BY <1>21, <2>1 DEF WorkerOn, Goto, mainVars
  <2>3. UNCHANGED <<mainVars, shared>>
    BY <1>21 DEF WorkerOn, Goto, mainVars
  <2>4. OutputOK'
    BY <1>21, <2>0, WriteType DEF WorkerOn, Goto, mainVars
  <2> QED BY <2>2, <2>3, <2>4 DEF mainVars
<1>22. ASSUME NEW t \in Threads, SolidEnds(t)
       PROVE  TypesOK'
  BY <1>22 DEF SolidEnds, Goto, mainVars, Locals, WorkerPcs
<1>23. ASSUME NEW t \in Threads, LoopTest(t)
       PROVE  TypesOK'
  <2>a. PICK p \in WorkerPcs : worker' = [worker EXCEPT ![t].pc = p, ![t].i = 0]
    BY <1>23 DEF LoopTest, WorkerPcs
  <2>b. worker[t] \in Locals /\ worker'[t] = [worker[t] EXCEPT !.pc = p, !.i = 0]
    BY <2>a
  <2>c. [worker[t] EXCEPT !.pc = p, !.i = 0] \in Locals
    <3>1. \A n \in 0 .. 1 : [worker[t] EXCEPT !.pc = p, !.i = n] \in Locals
      BY <2>b, LocalsChange
    <3>2. 0 \in 0 .. 1
      OBVIOUS
    <3> HIDE DEF Locals
    <3> QED BY <3>1, <3>2
  <2>1. worker'[t] \in Locals
    BY <2>b, <2>c
  <2>2. WorkersOK'
    BY <1>23, <2>1 DEF LoopTest, mainVars
  <2>3. UNCHANGED <<mainVars, reply, shared, output>>
    BY <1>23 DEF LoopTest, mainVars
  <2> QED BY <2>2, <2>3 DEF mainVars
<1>24. ASSUME NEW t \in Threads, StepTest(t)
       PROVE  TypesOK'
  BY <1>24 DEF StepTest, Goto, mainVars, Locals, WorkerPcs
<1>25. ASSUME NEW t \in Threads, SleepEnds(t)
       PROVE  TypesOK'
  BY <1>25 DEF SleepEnds, Goto, mainVars, Locals, WorkerPcs
<1>26. ASSUME NEW t \in Threads, WorkerDark(t)
       PROVE  TypesOK'
  <2>0. PatternOf(t).channel \in Channels /\ worker[t].brightness \in Nat
    BY <1>26, RunningPattern DEF WorkerDark, Goto, mainVars, Locals
  <2>1. worker'[t] \in Locals
    BY <1>26 DEF WorkerDark, Goto, mainVars, Locals, WorkerPcs
  <2>2. WorkersOK'
    BY <1>26, <2>1 DEF WorkerDark, Goto, mainVars
  <2>3. UNCHANGED <<mainVars, shared>>
    BY <1>26 DEF WorkerDark, Goto, mainVars
  <2>4. OutputOK'
    BY <1>26, <2>0, WriteType DEF WorkerDark, Goto, mainVars
  <2> QED BY <2>2, <2>3, <2>4 DEF mainVars
<1>27. ASSUME NEW t \in Threads, WorkerAllOff(t)
       PROVE  TypesOK'
  BY <1>27, AllOffType DEF WorkerAllOff, mainVars, Locals, WorkerPcs
<1>28. ASSUME NEW t \in Threads, mark_stopped_from_worker(t)
       PROVE  TypesOK'
  <2>1. worker'[t] \in Locals
    BY <1>28 DEF mark_stopped_from_worker, Goto, mainVars, Locals, WorkerPcs
  <2>2. WorkersOK'
    BY <1>28, <2>1 DEF mark_stopped_from_worker, Goto, mainVars
  <2>3. UNCHANGED <<mainVars, thread_active, output>>
    BY <1>28 DEF mark_stopped_from_worker, Goto, mainVars
  <2>4. keep_running' \in BOOLEAN
    BY <1>28 DEF mark_stopped_from_worker, Goto, mainVars
  <2>5. current_pattern' \in 0 .. 4 /\ current_duration_sec' \in Int
    BY <1>28 DEF mark_stopped_from_worker, Goto, mainVars, INVALID
  <2> QED BY <2>2, <2>3, <2>4, <2>5 DEF mainVars
<1>29. ASSUME NEW t \in Threads, Elapse(t)
       PROVE  TypesOK'
  BY <1>29 DEF Elapse, mainVars, Locals, WorkerPcs
<1>30. CASE UNCHANGED vars
  BY <1>30 DEF vars
<1> QED BY <1>1, <1>2, <1>3, <1>4, <1>5, <1>6, <1>7, <1>8, <1>9, <1>10, <1>11, <1>12,
       <1>13, <1>14, <1>15, <1>16, <1>17, <1>18, <1>19, <1>20, <1>21, <1>22, <1>23,
       <1>24, <1>25, <1>26, <1>27, <1>28, <1>29, <1>30 DEF Next, MainStep, WorkerStep

\* Every step keeps what the uloop thread knows of its request.
LEMMA RequestStep ==
  ASSUME TypesOK, RequestInv, [Next]_vars
  PROVE  RequestInv'
<1> USE DEF TypesOK, ControlOK, RequestInv, NoRequest, Exit, Requests, OffPcs
<1>1. CASE Start
  BY <1>1 DEF Start
<1>2. CASE Crash
  BY <1>2 DEF Crash, FreshProcess
<1>3. CASE handle_signal
  BY <1>3 DEF handle_signal
<1>4. ASSUME NEW r \in Requests, Receive(r)
       PROVE  RequestInv'
  BY <1>4, AcceptedIsPattern DEF Receive
<1>5. CASE led_hw_init
  BY <1>5 DEF led_hw_init
<1>6. CASE Connect
  BY <1>6 DEF Connect
<1>7. CASE LeaveLoop
  BY <1>7 DEF LeaveLoop
<1>8. CASE SwitchOff
  BY <1>8 DEF SwitchOff, AfterInit, AfterStop, AfterRollback
<1>9. CASE led_controller_deinit
  BY <1>9 DEF led_controller_deinit, FreshProcess
<1>10. CASE ReadReply
  BY <1>10 DEF ReadReply
<1>11. CASE SendReply
  BY <1>11 DEF SendReply
<1>12. CASE StopRequest
  BY <1>12 DEF StopRequest
<1>13. CASE StopJoin
  BY <1>13 DEF StopJoin
<1>14. CASE StopClear
  BY <1>14 DEF StopClear, ClearShared
<1>15. CASE OutOfMemory
  BY <1>15 DEF OutOfMemory
<1>16. CASE Arm
  BY <1>16 DEF Arm
<1>17. CASE CreateFails
  BY <1>17 DEF CreateFails
<1>18. CASE Rollback
  BY <1>18 DEF Rollback, ClearShared
<1>19. ASSUME NEW t \in Threads, CreateWorker(t)
       PROVE  RequestInv'
  BY <1>19 DEF CreateWorker
<1>20. ASSUME NEW t \in Threads, WorkerBegin(t)
       PROVE  RequestInv'
  BY <1>20 DEF WorkerBegin, mainVars
<1>21. ASSUME NEW t \in Threads, WorkerOn(t)
       PROVE  RequestInv'
  BY <1>21 DEF WorkerOn, Goto, mainVars
<1>22. ASSUME NEW t \in Threads, SolidEnds(t)
       PROVE  RequestInv'
  BY <1>22 DEF SolidEnds, Goto, mainVars
<1>23. ASSUME NEW t \in Threads, LoopTest(t)
       PROVE  RequestInv'
  BY <1>23 DEF LoopTest, mainVars
<1>24. ASSUME NEW t \in Threads, StepTest(t)
       PROVE  RequestInv'
  BY <1>24 DEF StepTest, Goto, mainVars
<1>25. ASSUME NEW t \in Threads, SleepEnds(t)
       PROVE  RequestInv'
  BY <1>25 DEF SleepEnds, Goto, mainVars
<1>26. ASSUME NEW t \in Threads, WorkerDark(t)
       PROVE  RequestInv'
  BY <1>26 DEF WorkerDark, Goto, mainVars
<1>27. ASSUME NEW t \in Threads, WorkerAllOff(t)
       PROVE  RequestInv'
  BY <1>27 DEF WorkerAllOff, mainVars
<1>28. ASSUME NEW t \in Threads, mark_stopped_from_worker(t)
       PROVE  RequestInv'
  BY <1>28 DEF mark_stopped_from_worker, Goto, mainVars
<1>29. ASSUME NEW t \in Threads, Elapse(t)
       PROVE  RequestInv'
  BY <1>29 DEF Elapse, mainVars
<1>30. CASE UNCHANGED vars
  BY <1>30 DEF vars
<1> QED BY <1>1, <1>2, <1>3, <1>4, <1>5, <1>6, <1>7, <1>8, <1>9, <1>10, <1>11, <1>12,
       <1>13, <1>14, <1>15, <1>16, <1>17, <1>18, <1>19, <1>20, <1>21, <1>22, <1>23,
       <1>24, <1>25, <1>26, <1>27, <1>28, <1>29, <1>30 DEF Next, MainStep, WorkerStep

\* Every step keeps the worker where pattern_thread says, and away from the
\* places where none may be: the join comes between any two workers.
LEMMA ThreadStep ==
  ASSUME TypesOK, RequestInv, ThreadInv, [Next]_vars
  PROVE  ThreadInv'
<1> USE DEF TypesOK, ControlOK, WorkersOK, ThreadInv, NoWorkerPcs, OffPcs, shared
<1>1. CASE Start
  BY <1>1 DEF Start
<1>2. CASE Crash
  BY <1>2 DEF Crash, FreshProcess, NoWorker
<1>3. CASE handle_signal
  BY <1>3 DEF handle_signal
<1>4. ASSUME NEW r \in Requests, Receive(r)
       PROVE  ThreadInv'
  BY <1>4 DEF Receive
<1>5. CASE led_hw_init
  BY <1>5 DEF led_hw_init
<1>6. CASE Connect
  BY <1>6 DEF Connect
<1>7. CASE LeaveLoop
  BY <1>7 DEF LeaveLoop
<1>8. CASE SwitchOff
  BY <1>8 DEF SwitchOff, AfterInit, AfterStop, AfterRollback
<1>9. CASE led_controller_deinit
  BY <1>9 DEF led_controller_deinit, FreshProcess, NoWorker
<1>10. CASE ReadReply
  BY <1>10 DEF ReadReply
<1>11. CASE SendReply
  BY <1>11 DEF SendReply
<1>12. CASE StopRequest
  BY <1>12 DEF StopRequest
<1>13. CASE StopJoin
  BY <1>13 DEF StopJoin, NoWorker
<1>14. CASE StopClear
  BY <1>14 DEF StopClear, ClearShared
<1>15. CASE OutOfMemory
  BY <1>15 DEF OutOfMemory
<1>16. CASE Arm
  BY <1>16 DEF Arm
<1>17. CASE CreateFails
  BY <1>17 DEF CreateFails
<1>18. CASE Rollback
  BY <1>18 DEF Rollback, ClearShared
<1>19. ASSUME NEW t \in Threads, CreateWorker(t)
       PROVE  ThreadInv'
  BY <1>19 DEF CreateWorker, NoWorker
<1>20. ASSUME NEW t \in Threads, WorkerBegin(t)
       PROVE  ThreadInv'
  BY <1>20 DEF WorkerBegin, mainVars
<1>21. ASSUME NEW t \in Threads, WorkerOn(t)
       PROVE  ThreadInv'
  BY <1>21 DEF WorkerOn, Goto, mainVars
<1>22. ASSUME NEW t \in Threads, SolidEnds(t)
       PROVE  ThreadInv'
  BY <1>22 DEF SolidEnds, Goto, mainVars
<1>23. ASSUME NEW t \in Threads, LoopTest(t)
       PROVE  ThreadInv'
  BY <1>23 DEF LoopTest, mainVars
<1>24. ASSUME NEW t \in Threads, StepTest(t)
       PROVE  ThreadInv'
  BY <1>24 DEF StepTest, Goto, mainVars
<1>25. ASSUME NEW t \in Threads, SleepEnds(t)
       PROVE  ThreadInv'
  BY <1>25 DEF SleepEnds, Goto, mainVars
<1>26. ASSUME NEW t \in Threads, WorkerDark(t)
       PROVE  ThreadInv'
  BY <1>26 DEF WorkerDark, Goto, mainVars
<1>27. ASSUME NEW t \in Threads, WorkerAllOff(t)
       PROVE  ThreadInv'
  BY <1>27 DEF WorkerAllOff, mainVars
<1>28. ASSUME NEW t \in Threads, mark_stopped_from_worker(t)
       PROVE  ThreadInv'
  BY <1>28 DEF mark_stopped_from_worker, Goto, mainVars
<1>29. ASSUME NEW t \in Threads, Elapse(t)
       PROVE  ThreadInv'
  BY <1>29 DEF Elapse, mainVars
<1>30. CASE UNCHANGED vars
  BY <1>30 DEF vars
<1> QED BY <1>1, <1>2, <1>3, <1>4, <1>5, <1>6, <1>7, <1>8, <1>9, <1>10, <1>11, <1>12,
       <1>13, <1>14, <1>15, <1>16, <1>17, <1>18, <1>19, <1>20, <1>21, <1>22, <1>23,
       <1>24, <1>25, <1>26, <1>27, <1>28, <1>29, <1>30 DEF Next, MainStep, WorkerStep

\* A worker that goes on with its pattern disturbs no agreement.
LEMMA GoesOn ==
  ASSUME WorkersOK, AgreeInv, NEW t \in Threads, UNCHANGED <<mainVars, shared>>, Live(t),
         Live(t)', \A u \in Threads \ {t} : worker'[u] = worker[u],
         worker'[t].pattern_id = worker[t].pattern_id,
         worker'[t].duration_sec = worker[t].duration_sec
  PROVE  AgreeInv'
BY DEF WorkersOK, AgreeInv, StatusMatchesWorker, Live, mainVars, shared


\* Every step keeps the shared state and the worker in agreement.
LEMMA AgreeStep ==
  ASSUME TypesOK, TypesOK', RequestInv, ThreadInv, AgreeInv, [Next]_vars
  PROVE  AgreeInv'
<1> USE DEF TypesOK, ControlOK, SharedOK, WorkersOK, RequestInv, ThreadInv, NoWorkerPcs,
          AgreeInv, StatusMatchesWorker, Live, OffPcs, shared
<1>1. CASE Start
  BY <1>1 DEF Start
<1>2. CASE Crash
  BY <1>2 DEF Crash, FreshProcess, NoWorker
<1>3. CASE handle_signal
  BY <1>3 DEF handle_signal
<1>4. ASSUME NEW r \in Requests, Receive(r)
       PROVE  AgreeInv'
  BY <1>4 DEF Receive
<1>5. CASE led_hw_init
  BY <1>5 DEF led_hw_init
<1>6. CASE Connect
  BY <1>6 DEF Connect
<1>7. CASE LeaveLoop
  BY <1>7 DEF LeaveLoop
<1>8. CASE SwitchOff
  BY <1>8 DEF SwitchOff, AfterInit, AfterStop, AfterRollback
<1>9. CASE led_controller_deinit
  BY <1>9 DEF led_controller_deinit, FreshProcess, NoWorker
<1>10. CASE ReadReply
  BY <1>10 DEF ReadReply
<1>11. CASE SendReply
  BY <1>11 DEF SendReply
<1>12. CASE StopRequest
  BY <1>12 DEF StopRequest
<1>13. CASE StopJoin
  BY <1>13 DEF StopJoin, NoWorker
<1>14. CASE StopClear
  BY <1>14 DEF StopClear, ClearShared
<1>15. CASE OutOfMemory
  BY <1>15 DEF OutOfMemory
<1>16. CASE Arm
  BY <1>16 DEF Arm
<1>17. CASE CreateFails
  BY <1>17 DEF CreateFails
<1>18. CASE Rollback
  BY <1>18 DEF Rollback, ClearShared
<1>19. ASSUME NEW t \in Threads, CreateWorker(t)
       PROVE  AgreeInv'
  BY <1>19 DEF CreateWorker, NoWorker
<1>20. ASSUME NEW t \in Threads, WorkerBegin(t)
       PROVE  AgreeInv'
  <2>a. PICK s \in ScreenReadings, p \in {"solid_on", "loop"},
             d \in {"infinite", "running", "expired"} :
          worker' = [worker EXCEPT ![t] =
            [@ EXCEPT !.pc = p, !.deadline = d,
                      !.brightness = led_hw_ambient_brightness(limits, s), !.screen = s]]
    BY <1>20, Begins
  <2>b. worker[t] \in Locals /\ worker[t].pc = "begin"
    BY <1>20 DEF WorkerBegin
  <2>1. /\ Live(t) /\ Live(t)' /\ \A u \in Threads \ {t} : worker'[u] = worker[u]
        /\ worker'[t].pattern_id = worker[t].pattern_id
        /\ worker'[t].duration_sec = worker[t].duration_sec
    BY <2>a, <2>b DEF Locals
  <2>2. UNCHANGED <<mainVars, shared>>
    BY <1>20 DEF WorkerBegin, mainVars
  <2> QED BY <2>1, <2>2, GoesOn
<1>21. ASSUME NEW t \in Threads, WorkerOn(t)
       PROVE  AgreeInv'
  <2>1. /\ Live(t) /\ Live(t)' /\ \A u \in Threads \ {t} : worker'[u] = worker[u]
        /\ worker'[t].pattern_id = worker[t].pattern_id
        /\ worker'[t].duration_sec = worker[t].duration_sec
    BY <1>21 DEF WorkerOn, Goto, mainVars, Locals
  <2>2. UNCHANGED <<mainVars, shared>>
    BY <1>21 DEF WorkerOn, Goto, mainVars
  <2> QED BY <2>1, <2>2, GoesOn
<1>22. ASSUME NEW t \in Threads, SolidEnds(t)
       PROVE  AgreeInv'
  BY <1>22 DEF SolidEnds, Goto, mainVars, should_continue
<1>23. ASSUME NEW t \in Threads, LoopTest(t)
       PROVE  AgreeInv'
  BY <1>23 DEF LoopTest, mainVars
<1>24. ASSUME NEW t \in Threads, StepTest(t)
       PROVE  AgreeInv'
  BY <1>24 DEF StepTest, Goto, mainVars
<1>25. ASSUME NEW t \in Threads, SleepEnds(t)
       PROVE  AgreeInv'
  <2>1. /\ Live(t) /\ Live(t)' /\ \A u \in Threads \ {t} : worker'[u] = worker[u]
        /\ worker'[t].pattern_id = worker[t].pattern_id
        /\ worker'[t].duration_sec = worker[t].duration_sec
    BY <1>25 DEF SleepEnds, Goto, mainVars, Locals
  <2>2. UNCHANGED <<mainVars, shared>>
    BY <1>25 DEF SleepEnds, Goto, mainVars
  <2> QED BY <2>1, <2>2, GoesOn
<1>26. ASSUME NEW t \in Threads, WorkerDark(t)
       PROVE  AgreeInv'
  BY <1>26 DEF WorkerDark, Goto, mainVars
<1>27. ASSUME NEW t \in Threads, WorkerAllOff(t)
       PROVE  AgreeInv'
  BY <1>27 DEF WorkerAllOff, mainVars
<1>28. ASSUME NEW t \in Threads, mark_stopped_from_worker(t)
       PROVE  AgreeInv'
  BY <1>28 DEF mark_stopped_from_worker, Goto, mainVars
<1>29. ASSUME NEW t \in Threads, Elapse(t)
       PROVE  AgreeInv'
  BY <1>29 DEF Elapse, mainVars
<1>30. CASE UNCHANGED vars
  BY <1>30 DEF vars
<1> QED BY <1>1, <1>2, <1>3, <1>4, <1>5, <1>6, <1>7, <1>8, <1>9, <1>10, <1>11, <1>12,
       <1>13, <1>14, <1>15, <1>16, <1>17, <1>18, <1>19, <1>20, <1>21, <1>22, <1>23,
       <1>24, <1>25, <1>26, <1>27, <1>28, <1>29, <1>30 DEF Next, MainStep, WorkerStep
-----------------------------------------------------------------------------
\* A write changes its channel only, and writing 0 leaves no light of it.
LEMMA WriteEffect ==
  ASSUME LimitsOK, OutputOK, NEW c \in Channels, NEW b \in Nat, led_hw_set_channel(c, b)
  PROVE  /\ \A d \in Channels \ {c} : hw'[d] = hw[d] /\ hw_fault'[d] = hw_fault[d]
         /\ hw_fault'[c] \/ hw'[c] = Clamp(limits, b)
         /\ b = 0 => ~Lit(c)'
         /\ hw'[c] > limits.full => hw_fault'[c]
<1>1. \A d \in Channels \ {c} : hw'[d] = hw[d] /\ hw_fault'[d] = hw_fault[d]
  BY DEF led_hw_set_channel, OutputOK
<1>2. hw_fault'[c] \/ hw'[c] = Clamp(limits, b)
  BY DEF led_hw_set_channel, OutputOK
<1>3. Clamp(limits, b) <= limits.full /\ (b = 0 => Clamp(limits, b) = 0)
  BY DEF Clamp, LimitsOK
<1>4. Clamp(limits, b) \in Nat /\ limits.full \in Nat
  BY DEF Clamp, LimitsOK
<1> QED BY <1>1, <1>2, <1>3, <1>4 DEF Lit

\* The n-th write of led_hw_all_off leaves no light of its channel.
LEMMA AllOffEffect ==
  ASSUME LimitsOK, OutputOK, NEW n \in 1 .. 3, NEW next, led_hw_all_off(n, next)
  PROVE  /\ OffOrder[n] \in Channels /\ ~Lit(OffOrder[n])'
         /\ \A d \in Channels : d # OffOrder[n] =>
              hw'[d] = hw[d] /\ hw_fault'[d] = hw_fault[d] /\ Lit(d)' = Lit(d)
         /\ next = (IF n = 3 THEN 1 ELSE n + 1)
<1>1. OffOrder[n] \in Channels
  BY DEF OffOrder, Channels
<1> QED BY <1>1, WriteEffect DEF led_hw_all_off, Lit

\* What all_off has switched off after its k-th write.
LEMMA OffCounts ==
  ASSUME LimitsOK, OutputOK, NEW k \in 1 .. 3, NEW next, led_hw_all_off(k, next),
         \A n \in 1 .. k - 1 : ~Lit(OffOrder[n])
  PROVE  /\ \A n \in 1 .. next - 1 : ~Lit(OffOrder[n])'
         /\ next = 1 => \A c \in Channels : ~Lit(c)'
<1> HIDE DEF Lit
<1>1. /\ OffOrder[k] \in Channels /\ ~Lit(OffOrder[k])'
      /\ \A d \in Channels : d # OffOrder[k] => Lit(d)' = Lit(d)
      /\ next = (IF k = 3 THEN 1 ELSE k + 1)
  BY AllOffEffect
<1>2. ASSUME NEW n \in 1 .. k PROVE ~Lit(OffOrder[n])'
  <2>1. CASE n = k
    BY <1>1, <2>1
  <2>2. CASE n # k
    <3>1. OffOrder[n] # OffOrder[k] /\ OffOrder[n] \in Channels
      BY <2>2 DEF OffOrder, Channels
    <3>2. ~Lit(OffOrder[n])
      BY <2>2
    <3> QED BY <1>1, <3>1, <3>2
  <2> QED BY <2>1, <2>2
<1>3. \A n \in 1 .. next - 1 : ~Lit(OffOrder[n])'
  BY <1>1, <1>2
<1>4. ASSUME next = 1, NEW c \in Channels PROVE ~Lit(c)'
  <2>1. k = 3
    BY <1>1, <1>4
  <2>2. \E n \in 1 .. k : c = OffOrder[n]
    BY <2>1 DEF OffOrder, Channels
  <2> QED BY <1>2, <2>2
<1> QED BY <1>3, <1>4

\* Every step keeps account of how far all_off has got.
LEMMA OffStep ==
  ASSUME TypesOK, ThreadInv, OffInv, [Next]_vars
  PROVE  OffInv'
<1> USE DEF TypesOK, ControlOK, WorkersOK, LimitsOK, OutputOK, ThreadInv, NoWorkerPcs, OffInv,
          OffPcs, Lit, shared, output
<1>1. CASE Start
  BY <1>1 DEF Start
<1>2. CASE Crash
  BY <1>2 DEF Crash, FreshProcess, NoWorker
<1>3. CASE handle_signal
  BY <1>3 DEF handle_signal
<1>4. ASSUME NEW r \in Requests, Receive(r)
       PROVE  OffInv'
  BY <1>4 DEF Receive
<1>5. CASE led_hw_init
  BY <1>5 DEF led_hw_init
<1>6. CASE Connect
  BY <1>6 DEF Connect
<1>7. CASE LeaveLoop
  BY <1>7 DEF LeaveLoop
<1>8. CASE SwitchOff
  <2>1. PICK k \in 1 .. 3, next \in 1 .. 3 :
          k = off /\ off' = next /\ led_hw_all_off(k, next)
    BY <1>8 DEF SwitchOff
  <2>2. pc' = "init_off" => pc = "init_off"
    BY <1>8 DEF SwitchOff, AfterInit, AfterStop, AfterRollback
  <2>3. pc' \notin OffPcs => off' = 1
    BY <1>8 DEF SwitchOff
  <2>4. LimitsOK /\ OutputOK
    OBVIOUS
  <2>5. pc' = "init_off" => \A n \in 1 .. off' - 1 : ~Lit(OffOrder[n])'
    <3> HIDE DEF Lit, LimitsOK, OutputOK
    <3>1. ASSUME pc' = "init_off" PROVE \A n \in 1 .. k - 1 : ~Lit(OffOrder[n])
      BY <2>1, <2>2, <3>1
    <3>2. ASSUME pc' = "init_off" PROVE \A n \in 1 .. next - 1 : ~Lit(OffOrder[n])'
      BY <2>1, <2>4, <3>1, <3>2, OffCounts
    <3> QED BY <2>1, <3>2
  <2>6. worker' = worker
    BY <1>8 DEF SwitchOff
  <2> QED BY <2>3, <2>5, <2>6
<1>9. CASE led_controller_deinit
  BY <1>9 DEF led_controller_deinit, FreshProcess, NoWorker
<1>10. CASE ReadReply
  BY <1>10 DEF ReadReply
<1>11. CASE SendReply
  BY <1>11 DEF SendReply
<1>12. CASE StopRequest
  BY <1>12 DEF StopRequest
<1>13. CASE StopJoin
  BY <1>13 DEF StopJoin, NoWorker
<1>14. CASE StopClear
  BY <1>14 DEF StopClear, ClearShared
<1>15. CASE OutOfMemory
  BY <1>15 DEF OutOfMemory
<1>16. CASE Arm
  BY <1>16 DEF Arm
<1>17. CASE CreateFails
  BY <1>17 DEF CreateFails
<1>18. CASE Rollback
  BY <1>18 DEF Rollback, ClearShared
<1>19. ASSUME NEW t \in Threads, CreateWorker(t)
       PROVE  OffInv'
  BY <1>19 DEF CreateWorker, NoWorker
<1>20. ASSUME NEW t \in Threads, WorkerBegin(t)
       PROVE  OffInv'
  BY <1>20 DEF WorkerBegin, mainVars
<1>21. ASSUME NEW t \in Threads, WorkerOn(t)
       PROVE  OffInv'
  <2>1. /\ \A u \in Threads \ {t} : worker'[u] = worker[u]
        /\ worker'[t].off = worker[t].off
        /\ worker[t].pc \notin {"none", "all_off"} /\ worker'[t].pc # "all_off"
    BY <1>21 DEF WorkerOn, Goto, mainVars, Locals
  <2>2. pc # "init_off" /\ UNCHANGED <<pc, off>>
    BY <1>21, <2>1 DEF WorkerOn, Goto, mainVars
  <2> QED BY <2>1, <2>2
<1>22. ASSUME NEW t \in Threads, SolidEnds(t)
       PROVE  OffInv'
  BY <1>22 DEF SolidEnds, Goto, mainVars
<1>23. ASSUME NEW t \in Threads, LoopTest(t)
       PROVE  OffInv'
  BY <1>23 DEF LoopTest, mainVars
<1>24. ASSUME NEW t \in Threads, StepTest(t)
       PROVE  OffInv'
  BY <1>24 DEF StepTest, Goto, mainVars
<1>25. ASSUME NEW t \in Threads, SleepEnds(t)
       PROVE  OffInv'
  <2>1. /\ \A u \in Threads \ {t} : worker'[u] = worker[u]
        /\ worker'[t].off = worker[t].off
        /\ worker[t].pc \notin {"none", "all_off"} /\ worker'[t].pc # "all_off"
    BY <1>25 DEF SleepEnds, Goto, mainVars, Locals
  <2>2. pc # "init_off" /\ UNCHANGED <<pc, off>>
    BY <1>25, <2>1 DEF SleepEnds, Goto, mainVars
  <2> QED BY <2>1, <2>2
<1>26. ASSUME NEW t \in Threads, WorkerDark(t)
       PROVE  OffInv'
  BY <1>26 DEF WorkerDark, Goto, mainVars
<1>27. ASSUME NEW t \in Threads, WorkerAllOff(t)
       PROVE  OffInv'
  BY <1>27 DEF WorkerAllOff, mainVars
<1>28. ASSUME NEW t \in Threads, mark_stopped_from_worker(t)
       PROVE  OffInv'
  BY <1>28 DEF mark_stopped_from_worker, Goto, mainVars
<1>29. ASSUME NEW t \in Threads, Elapse(t)
       PROVE  OffInv'
  BY <1>29 DEF Elapse, mainVars
<1>30. CASE UNCHANGED vars
  BY <1>30 DEF vars
<1> QED BY <1>1, <1>2, <1>3, <1>4, <1>5, <1>6, <1>7, <1>8, <1>9, <1>10, <1>11, <1>12,
       <1>13, <1>14, <1>15, <1>16, <1>17, <1>18, <1>19, <1>20, <1>21, <1>22, <1>23,
       <1>24, <1>25, <1>26, <1>27, <1>28, <1>29, <1>30 DEF Next, MainStep, WorkerStep

\* The light stays under control when no output moves and no worker leaves it.
LEMMA LightSame ==
  ASSUME OnlyThePatternsColour, UNCHANGED <<hw, hw_fault>>, Up' => Up,
         \A t \in Threads, c \in Channels : Lights(t, c) => Lights(t, c)'
  PROVE  OnlyThePatternsColour'
<1>1. \A c \in Channels : Lit(c)' = Lit(c)
  BY DEF Lit
<1> HIDE DEF Lit, Lights, Up
<1> QED BY <1>1 DEF OnlyThePatternsColour

\* A worker that is at no place of light lights nothing.
LEMMA NoLight ==
  ASSUME NEW t \in Threads, NEW c,
         worker[t].pc \notin {"solid_wait", "on_wait", "gap", "all_off"}
  PROVE  ~Lights(t, c)
BY DEF Lights

\* Every step keeps the light under the control of a worker of that colour.
LEMMA LightStep ==
  ASSUME TypesOK, ThreadInv, AgreeInv, OffInv, OnlyThePatternsColour, [Next]_vars
  PROVE  OnlyThePatternsColour'
<1>0. WorkersOK /\ \A t \in Threads : worker[t] \in Locals
  BY DEF TypesOK, WorkersOK
<1>1. CASE Start
  BY <1>1 DEF Start, Up, OnlyThePatternsColour
<1>2. CASE Crash
  BY <1>2 DEF Crash, FreshProcess, Up, OnlyThePatternsColour
<1>3. CASE handle_signal
  <2>1. UNCHANGED <<worker, hw, hw_fault>> /\ (Up' => Up)
    BY <1>3 DEF handle_signal, Up, shared, output
  <2>2. \A t \in Threads, c \in Channels : Lights(t, c)' = Lights(t, c)
    BY <2>1 DEF Lights, PatternOf
  <2> QED BY <2>1, <2>2, LightSame
<1>4. ASSUME NEW r \in Requests, Receive(r)
       PROVE  OnlyThePatternsColour'
  <2>1. UNCHANGED <<worker, hw, hw_fault>> /\ (Up' => Up)
    BY <1>4 DEF Receive, Up, shared, output
  <2>2. \A t \in Threads, c \in Channels : Lights(t, c)' = Lights(t, c)
    BY <2>1 DEF Lights, PatternOf
  <2> QED BY <2>1, <2>2, LightSame
<1>5. CASE led_hw_init
  <2>1. UNCHANGED <<worker, hw, hw_fault>> /\ (Up' => Up)
    BY <1>5 DEF led_hw_init, Up, shared, output
  <2>2. \A t \in Threads, c \in Channels : Lights(t, c)' = Lights(t, c)
    BY <2>1 DEF Lights, PatternOf
  <2> QED BY <2>1, <2>2, LightSame
<1>6. CASE Connect
  <2>1. UNCHANGED <<worker, hw, hw_fault>> /\ (Up' => Up)
    BY <1>6 DEF Connect, Up, shared, output
  <2>2. \A t \in Threads, c \in Channels : Lights(t, c)' = Lights(t, c)
    BY <2>1 DEF Lights, PatternOf
  <2> QED BY <2>1, <2>2, LightSame
<1>7. CASE LeaveLoop
  <2>1. UNCHANGED <<worker, hw, hw_fault>> /\ (Up' => Up)
    BY <1>7 DEF LeaveLoop, Up, shared, output
  <2>2. \A t \in Threads, c \in Channels : Lights(t, c)' = Lights(t, c)
    BY <2>1 DEF Lights, PatternOf
  <2> QED BY <2>1, <2>2, LightSame
<1>8. CASE SwitchOff
  <2>1. PICK k \in 1 .. 3, next \in 1 .. 3 :
          k = off /\ off' = next /\ led_hw_all_off(k, next)
    BY <1>8 DEF SwitchOff, TypesOK, ControlOK
  <2>2. \A u \in Threads, c \in Channels : ~Lights(u, c)
    BY <1>8, NoLight DEF SwitchOff, ThreadInv, NoWorkerPcs, OffPcs
  <2>3. LimitsOK /\ OutputOK
    BY DEF TypesOK
  <2>4. CASE Up
    <3>1. \A c \in Channels : ~Lit(c)
      BY <2>2, <2>4 DEF OnlyThePatternsColour
    <3>2. \A c \in Channels : ~Lit(c)'
      BY <2>1, <2>3, <3>1, AllOffEffect
    <3> QED BY <3>2 DEF OnlyThePatternsColour
  <2>5. CASE ~Up /\ Up'
    <3>1. pc = "init_off" /\ next = 1
      BY <1>8, <2>1, <2>5 DEF SwitchOff, AfterInit, AfterStop, AfterRollback, OffPcs, Up
    <3>2. \A n \in 1 .. k - 1 : ~Lit(OffOrder[n])
      BY <2>1, <3>1 DEF OffInv
    <3>3. \A c \in Channels : ~Lit(c)'
      BY <2>1, <2>3, <3>1, <3>2, OffCounts
    <3> QED BY <3>3 DEF OnlyThePatternsColour
  <2> QED BY <2>4, <2>5 DEF OnlyThePatternsColour
<1>9. CASE led_controller_deinit
  BY <1>9 DEF led_controller_deinit, FreshProcess, Up, OnlyThePatternsColour
<1>10. CASE ReadReply
  <2>1. UNCHANGED <<worker, hw, hw_fault>> /\ (Up' => Up)
    BY <1>10 DEF ReadReply, Up, shared, output
  <2>2. \A t \in Threads, c \in Channels : Lights(t, c)' = Lights(t, c)
    BY <2>1 DEF Lights, PatternOf
  <2> QED BY <2>1, <2>2, LightSame
<1>11. CASE SendReply
  <2>1. UNCHANGED <<worker, hw, hw_fault>> /\ (Up' => Up)
    BY <1>11 DEF SendReply, Up, shared, output
  <2>2. \A t \in Threads, c \in Channels : Lights(t, c)' = Lights(t, c)
    BY <2>1 DEF Lights, PatternOf
  <2> QED BY <2>1, <2>2, LightSame
<1>12. CASE StopRequest
  <2>1. UNCHANGED <<worker, hw, hw_fault>> /\ (Up' => Up)
    BY <1>12 DEF StopRequest, Up, shared, output
  <2>2. \A t \in Threads, c \in Channels : Lights(t, c)' = Lights(t, c)
    BY <2>1 DEF Lights, PatternOf
  <2> QED BY <2>1, <2>2, LightSame
<1>13. CASE StopJoin
  <2>1. \A c \in Channels : ~Lights(pattern_thread, c)
    BY <1>13, NoLight DEF StopJoin
  <2>2. UNCHANGED <<hw, hw_fault>> /\ (Up' => Up)
    BY <1>13 DEF StopJoin, output, Up
  <2>3. \A u \in Threads : u # pattern_thread => worker'[u] = worker[u]
    BY <1>13 DEF StopJoin, WorkersOK
  <2>4. \A u \in Threads, c \in Channels : Lights(u, c) => Lights(u, c)'
    BY <2>1, <2>3 DEF Lights, PatternOf
  <2> QED BY <2>2, <2>4, LightSame
<1>14. CASE StopClear
  <2>1. UNCHANGED <<worker, hw, hw_fault>> /\ (Up' => Up)
    BY <1>14 DEF StopClear, ClearShared, Up, shared, output
  <2>2. \A t \in Threads, c \in Channels : Lights(t, c)' = Lights(t, c)
    BY <2>1 DEF Lights, PatternOf
  <2> QED BY <2>1, <2>2, LightSame
<1>15. CASE OutOfMemory
  <2>1. UNCHANGED <<worker, hw, hw_fault>> /\ (Up' => Up)
    BY <1>15 DEF OutOfMemory, Up, shared, output
  <2>2. \A t \in Threads, c \in Channels : Lights(t, c)' = Lights(t, c)
    BY <2>1 DEF Lights, PatternOf
  <2> QED BY <2>1, <2>2, LightSame
<1>16. CASE Arm
  <2>1. UNCHANGED <<worker, hw, hw_fault>> /\ (Up' => Up)
    BY <1>16 DEF Arm, Up, shared, output
  <2>2. \A t \in Threads, c \in Channels : Lights(t, c)' = Lights(t, c)
    BY <2>1 DEF Lights, PatternOf
  <2> QED BY <2>1, <2>2, LightSame
<1>17. CASE CreateFails
  <2>1. UNCHANGED <<worker, hw, hw_fault>> /\ (Up' => Up)
    BY <1>17 DEF CreateFails, Up, shared, output
  <2>2. \A t \in Threads, c \in Channels : Lights(t, c)' = Lights(t, c)
    BY <2>1 DEF Lights, PatternOf
  <2> QED BY <2>1, <2>2, LightSame
<1>18. CASE Rollback
  <2>1. UNCHANGED <<worker, hw, hw_fault>> /\ (Up' => Up)
    BY <1>18 DEF Rollback, ClearShared, Up, shared, output
  <2>2. \A t \in Threads, c \in Channels : Lights(t, c)' = Lights(t, c)
    BY <2>1 DEF Lights, PatternOf
  <2> QED BY <2>1, <2>2, LightSame
<1>19. ASSUME NEW t \in Threads, CreateWorker(t)
       PROVE  OnlyThePatternsColour'
  <2>1. \A u \in Threads, c \in Channels : ~Lights(u, c)
    BY <1>19, NoLight DEF CreateWorker, ThreadInv, NoWorkerPcs
  <2>2. UNCHANGED <<hw, hw_fault>> /\ (Up' => Up)
    BY <1>19 DEF CreateWorker, output, Up
  <2> QED BY <2>1, <2>2, LightSame
<1>20. ASSUME NEW t \in Threads, WorkerBegin(t)
       PROVE  OnlyThePatternsColour'
  <2>1. UNCHANGED <<hw, hw_fault>> /\ (Up' => Up)
    BY <1>20 DEF WorkerBegin, mainVars, output, Up
  <2>2. \A u \in Threads \ {t} : worker'[u] = worker[u]
    BY <1>0, <1>20, Begins DEF WorkerBegin, mainVars, WorkersOK
  <2>3. \A c \in Channels : Lights(t, c) => Lights(t, c)'
    BY <1>20, NoLight DEF WorkerBegin, mainVars
  <2>4. \A u \in Threads, c \in Channels : Lights(u, c) => Lights(u, c)'
    BY <2>2, <2>3 DEF Lights, PatternOf
  <2> QED BY <2>1, <2>4, LightSame
<1>21. ASSUME NEW t \in Threads, WorkerOn(t)
       PROVE  OnlyThePatternsColour'
  <2>1. worker[t] \in Locals /\ worker[t].pc # "none"
    <3>1. worker[t].pc # "none"
      BY <1>21 DEF WorkerOn, Goto, mainVars
    <3> QED BY <1>0, <3>1
  <2>2. \A u \in Threads \ {t} : worker[u].pc = "none"
    BY <2>1 DEF ThreadInv
  <2>3. \A u \in Threads \ {t}, c \in Channels : ~Lights(u, c)
    BY <2>2, NoLight
  <2>4. Up
    BY <2>1 DEF ThreadInv, NoWorkerPcs, Up
  <2>5. \A c \in Channels : Lit(c) => Lights(t, c)
    BY <2>3, <2>4 DEF OnlyThePatternsColour
  <2>6. LimitsOK /\ OutputOK /\ PatternOf(t).channel \in Channels
    BY <2>1, RunningPattern DEF TypesOK
  <2>7. \A c \in Channels : c # PatternOf(t).channel => ~Lit(c)
    BY <2>5 DEF Lights
  <2>8. \A c \in Channels : c # PatternOf(t).channel => ~Lit(c)'
    BY <1>21, <2>1, <2>6, <2>7, WriteEffect DEF WorkerOn, Lit, Locals
  <2>9. /\ worker'[t].pc \in {"solid_wait", "on_wait"}
        /\ worker'[t].pattern_id = worker[t].pattern_id /\ worker[t].pattern_id \in 1 .. 4
    <3>1. worker[t].pattern_id \in 1 .. 4
      BY <2>1, RunningPattern
    <3>2. PICK p \in {"solid_wait", "on_wait"} : worker' = [worker EXCEPT ![t].pc = p]
      BY <1>21 DEF WorkerOn, Goto, mainVars
    <3>3. worker'[t] = [worker[t] EXCEPT !.pc = p]
      BY <1>0, <3>2 DEF WorkersOK
    <3> QED BY <2>1, <3>1, <3>3 DEF Locals
  <2>10. Lights(t, PatternOf(t).channel)'
    BY <2>9 DEF Lights, PatternOf, INVALID
  <2> QED BY <2>8, <2>9, <2>10 DEF OnlyThePatternsColour, PatternOf
<1>22. ASSUME NEW t \in Threads, SolidEnds(t)
       PROVE  OnlyThePatternsColour'
  <2>1. UNCHANGED <<hw, hw_fault>> /\ (Up' => Up)
    BY <1>22 DEF SolidEnds, Goto, mainVars, output, Up
  <2>2. \A u \in Threads \ {t} : worker'[u] = worker[u]
    BY <1>0, <1>22 DEF SolidEnds, Goto, mainVars, WorkersOK
  <2>3. \A c \in Channels : Lights(t, c) => Lights(t, c)'
    <3>1. worker[t].off = 1
      BY <1>22 DEF SolidEnds, Goto, mainVars, OffInv
    <3>2. /\ worker'[t].pc = "all_off" /\ worker'[t].off = 1
          /\ worker'[t].pattern_id = worker[t].pattern_id
      BY <1>0, <1>22, <3>1 DEF SolidEnds, Goto, mainVars, WorkersOK, Locals
    <3> QED BY <3>2 DEF Lights, PatternOf
  <2>4. \A u \in Threads, c \in Channels : Lights(u, c) => Lights(u, c)'
    BY <2>2, <2>3 DEF Lights, PatternOf
  <2> QED BY <2>1, <2>4, LightSame
<1>23. ASSUME NEW t \in Threads, LoopTest(t)
       PROVE  OnlyThePatternsColour'
  <2>1. UNCHANGED <<hw, hw_fault>> /\ (Up' => Up)
    BY <1>23 DEF LoopTest, mainVars, output, Up
  <2>2. \A u \in Threads \ {t} : worker'[u] = worker[u]
    BY <1>0, <1>23 DEF LoopTest, mainVars, WorkersOK
  <2>3. \A c \in Channels : Lights(t, c) => Lights(t, c)'
    BY <1>23, NoLight DEF LoopTest, mainVars
  <2>4. \A u \in Threads, c \in Channels : Lights(u, c) => Lights(u, c)'
    BY <2>2, <2>3 DEF Lights, PatternOf
  <2> QED BY <2>1, <2>4, LightSame
<1>24. ASSUME NEW t \in Threads, StepTest(t)
       PROVE  OnlyThePatternsColour'
  <2>1. UNCHANGED <<hw, hw_fault>> /\ (Up' => Up)
    BY <1>24 DEF StepTest, Goto, mainVars, output, Up
  <2>2. \A u \in Threads \ {t} : worker'[u] = worker[u]
    BY <1>0, <1>24 DEF StepTest, Goto, mainVars, WorkersOK
  <2>3. \A c \in Channels : Lights(t, c) => Lights(t, c)'
    BY <1>24, NoLight DEF StepTest, Goto, mainVars
  <2>4. \A u \in Threads, c \in Channels : Lights(u, c) => Lights(u, c)'
    BY <2>2, <2>3 DEF Lights, PatternOf
  <2> QED BY <2>1, <2>4, LightSame
<1>25. ASSUME NEW t \in Threads, SleepEnds(t)
       PROVE  OnlyThePatternsColour'
  <2>1. UNCHANGED <<hw, hw_fault>> /\ (Up' => Up)
    BY <1>25 DEF SleepEnds, Goto, mainVars, output, Up
  <2>2. \A u \in Threads \ {t} : worker'[u] = worker[u]
    BY <1>0, <1>25 DEF SleepEnds, Goto, mainVars, WorkersOK
  <2>3. \A c \in Channels : Lights(t, c) => Lights(t, c)'
    <3>1. CASE Goto(t, "on_wait", "gap")
      BY <3>1 DEF Goto, WorkersOK, Locals, Lights, PatternOf
    <3>2. CASE worker[t].pc = "off_wait"
      BY <3>2, NoLight
    <3> QED BY <1>25, <3>1, <3>2 DEF SleepEnds
  <2>4. \A u \in Threads, c \in Channels : Lights(u, c) => Lights(u, c)'
    BY <2>2, <2>3 DEF Lights, PatternOf
  <2> QED BY <2>1, <2>4, LightSame
<1>26. ASSUME NEW t \in Threads, WorkerDark(t)
       PROVE  OnlyThePatternsColour'
  <2>1. worker[t] \in Locals /\ worker[t].pc # "none"
    <3>1. worker[t].pc # "none"
      BY <1>26 DEF WorkerDark, Goto, mainVars
    <3> QED BY <1>0, <3>1
  <2>2. \A u \in Threads \ {t} : worker[u].pc = "none"
    BY <2>1 DEF ThreadInv
  <2>3. \A u \in Threads \ {t}, c \in Channels : ~Lights(u, c)
    BY <2>2, NoLight
  <2>4. Up
    BY <2>1 DEF ThreadInv, NoWorkerPcs, Up
  <2>5. \A c \in Channels : Lit(c) => Lights(t, c)
    BY <2>3, <2>4 DEF OnlyThePatternsColour
  <2>6. LimitsOK /\ OutputOK /\ PatternOf(t).channel \in Channels
    BY <2>1, RunningPattern DEF TypesOK
  <2>7. \A c \in Channels : c # PatternOf(t).channel => ~Lit(c)
    BY <2>5 DEF Lights
  <2>8. \A c \in Channels : ~Lit(c)'
    BY <1>26, <2>6, <2>7, WriteEffect DEF WorkerDark, Lit
  <2> QED BY <2>8 DEF OnlyThePatternsColour
<1>27. ASSUME NEW t \in Threads, WorkerAllOff(t)
       PROVE  OnlyThePatternsColour'
  <2>1. worker[t] \in Locals /\ worker[t].pc # "none"
    <3>1. worker[t].pc # "none"
      BY <1>27 DEF WorkerAllOff, mainVars
    <3> QED BY <1>0, <3>1
  <2>2. \A u \in Threads \ {t} : worker[u].pc = "none"
    BY <2>1 DEF ThreadInv
  <2>3. \A u \in Threads \ {t}, c \in Channels : ~Lights(u, c)
    BY <2>2, NoLight
  <2>4. Up
    BY <2>1 DEF ThreadInv, NoWorkerPcs, Up
  <2>5. \A c \in Channels : Lit(c) => Lights(t, c)
    BY <2>3, <2>4 DEF OnlyThePatternsColour
  <2>6. LimitsOK /\ OutputOK /\ PatternOf(t).channel \in Channels
    BY <2>1, RunningPattern DEF TypesOK
  <2>7. PICK k \in 1 .. 3, next \in 1 .. 3 :
          /\ k = worker[t].off /\ led_hw_all_off(k, next)
          /\ worker' = [worker EXCEPT
               ![t].pc = IF next = 1 THEN "mark" ELSE "all_off", ![t].off = next]
    BY <1>27, <2>1 DEF WorkerAllOff, Locals
  <2>8. PatternOf(t).channel \in {"red", "blue"} /\ worker[t].pattern_id # INVALID
    BY <2>1, RunningPattern DEF INVALID
  <2>9. ASSUME NEW c \in Channels, Lit(c)' PROVE Lights(t, c)'
    <3>1. c # OffOrder[k] /\ Lit(c) /\ next = (IF k = 3 THEN 1 ELSE k + 1)
      BY <2>6, <2>7, <2>9, AllOffEffect
    <3>2. Lights(t, c)
      BY <2>5, <3>1
    <3>3. c = PatternOf(t).channel /\ k <= (IF c = "red" THEN 1 ELSE 3)
      BY <1>27, <2>7, <3>2 DEF WorkerAllOff, Lights
    <3>4. c = "blue" /\ k # 3
      BY <2>8, <3>1, <3>3 DEF OffOrder
    <3>5. /\ worker'[t].pc = "all_off" /\ worker'[t].off = next /\ next <= 3
          /\ worker'[t].pattern_id = worker[t].pattern_id
      BY <2>1, <2>7, <3>1, <3>4 DEF WorkersOK, TypesOK, Locals
    <3> QED BY <2>8, <3>3, <3>4, <3>5 DEF Lights, PatternOf
  <2> QED BY <2>9 DEF OnlyThePatternsColour
<1>28. ASSUME NEW t \in Threads, mark_stopped_from_worker(t)
       PROVE  OnlyThePatternsColour'
  <2>1. UNCHANGED <<hw, hw_fault>> /\ (Up' => Up)
    BY <1>28 DEF mark_stopped_from_worker, Goto, mainVars, output, Up
  <2>2. \A u \in Threads \ {t} : worker'[u] = worker[u]
    BY <1>0, <1>28 DEF mark_stopped_from_worker, Goto, mainVars, WorkersOK
  <2>3. \A c \in Channels : Lights(t, c) => Lights(t, c)'
    BY <1>28, NoLight DEF mark_stopped_from_worker, Goto, mainVars
  <2>4. \A u \in Threads, c \in Channels : Lights(u, c) => Lights(u, c)'
    BY <2>2, <2>3 DEF Lights, PatternOf
  <2> QED BY <2>1, <2>4, LightSame
<1>29. ASSUME NEW t \in Threads, Elapse(t)
       PROVE  OnlyThePatternsColour'
  <2>1. UNCHANGED <<hw, hw_fault>> /\ (Up' => Up)
    BY <1>29 DEF Elapse, mainVars, output, Up
  <2>2. \A u \in Threads \ {t} : worker'[u] = worker[u]
    BY <1>0, <1>29 DEF Elapse, mainVars, WorkersOK
  <2>3. \A c \in Channels : Lights(t, c) => Lights(t, c)'
    <3>1. /\ worker'[t].pc = worker[t].pc /\ worker'[t].off = worker[t].off
          /\ worker'[t].pattern_id = worker[t].pattern_id
      BY <1>29 DEF Elapse, mainVars, WorkersOK, Locals
    <3> QED BY <3>1 DEF Lights, PatternOf
  <2>4. \A u \in Threads, c \in Channels : Lights(u, c) => Lights(u, c)'
    BY <2>2, <2>3 DEF Lights, PatternOf
  <2> QED BY <2>1, <2>4, LightSame
<1>30. CASE UNCHANGED vars
  <2>1. UNCHANGED <<worker, hw, hw_fault>> /\ (Up' => Up)
    BY <1>30 DEF vars, Up, shared, output
  <2>2. \A t \in Threads, c \in Channels : Lights(t, c)' = Lights(t, c)
    BY <2>1 DEF Lights, PatternOf
  <2> QED BY <2>1, <2>2, LightSame
<1> QED BY <1>1, <1>2, <1>3, <1>4, <1>5, <1>6, <1>7, <1>8, <1>9, <1>10, <1>11, <1>12,
       <1>13, <1>14, <1>15, <1>16, <1>17, <1>18, <1>19, <1>20, <1>21, <1>22, <1>23,
       <1>24, <1>25, <1>26, <1>27, <1>28, <1>29, <1>30 DEF Next, MainStep, WorkerStep

\* What a worker knows of the screen, and what it has written.
BrightAt(t) ==
  /\ worker[t].pc \notin {"none", "begin"} =>
       \/ worker[t].brightness = limits.full
       \/ /\ worker[t].brightness = limits.dim
          /\ worker[t].screen # Unreadable /\ worker[t].screen <= limits.threshold
  /\ worker[t].pc \in {"solid_wait", "on_wait"} =>
       LET c == PatternOf(t).channel IN hw_fault[c] \/ hw[c] = worker[t].brightness

BrightInv ==
  /\ \A t \in Threads : BrightAt(t)
  /\ Up => \A c \in Channels : Lit(c) => hw[c] <= limits.full

\* A worker keeps what it knows while it goes on and nobody writes.
LEMMA BrightSame ==
  ASSUME BrightInv, UNCHANGED <<limits, hw, hw_fault>>, Up' => Up,
         \A t \in Threads :
           \/ worker'[t] = worker[t] \/ worker'[t].pc \in {"none", "begin"}
           \/ /\ worker[t].pc \notin {"none", "begin"}
              /\ worker'[t].pc \notin {"solid_wait", "on_wait"} \/ worker'[t].pc = worker[t].pc
              /\ worker'[t].brightness = worker[t].brightness
              /\ worker'[t].screen = worker[t].screen
              /\ worker'[t].pattern_id = worker[t].pattern_id
  PROVE  BrightInv'
<1>1. ASSUME NEW t \in Threads PROVE BrightAt(t)'
  <2>1. BrightAt(t)
    BY DEF BrightInv
  <2> QED BY <2>1 DEF BrightAt, PatternOf
<1>2. ASSUME Up', NEW c \in Channels, Lit(c)' PROVE hw'[c] <= limits'.full
  BY <1>2 DEF BrightInv, Lit
<1> QED BY <1>1, <1>2 DEF BrightInv

\* Without a worker and before the hardware is initialised nothing is claimed.
LEMMA BrightDown ==
  ASSUME ~Up', \A t \in Threads : worker'[t].pc = "none"
  PROVE  BrightInv'
BY DEF BrightInv, BrightAt

\* Every step keeps what is written within what the device told, and dim only
\* when the screen was.
LEMMA BrightStep ==
  ASSUME TypesOK, ThreadInv, AgreeInv, OffInv, BrightInv, [Next]_vars
  PROVE  BrightInv'
<1>0. WorkersOK /\ \A t \in Threads : worker[t] \in Locals
  BY DEF TypesOK, WorkersOK
<1>1. CASE Start
  <2>1. UNCHANGED <<worker, limits, hw, hw_fault>> /\ (Up' => Up)
    BY <1>1 DEF Start, Up, shared, output
  <2> QED BY <2>1, BrightSame
<1>2. CASE Crash
  BY <1>2, BrightDown DEF Crash, FreshProcess, NoWorker, Up
<1>3. CASE handle_signal
  <2>1. UNCHANGED <<worker, limits, hw, hw_fault>> /\ (Up' => Up)
    BY <1>3 DEF handle_signal, Up, shared, output
  <2> QED BY <2>1, BrightSame
<1>4. ASSUME NEW r \in Requests, Receive(r)
       PROVE  BrightInv'
  <2>1. UNCHANGED <<worker, limits, hw, hw_fault>> /\ (Up' => Up)
    BY <1>4 DEF Receive, Up, shared, output
  <2> QED BY <2>1, BrightSame
<1>5. CASE led_hw_init
  BY <1>5, BrightDown DEF led_hw_init, ThreadInv, NoWorkerPcs, Up
<1>6. CASE Connect
  <2>1. UNCHANGED <<worker, limits, hw, hw_fault>> /\ (Up' => Up)
    BY <1>6 DEF Connect, Up, shared, output
  <2> QED BY <2>1, BrightSame
<1>7. CASE LeaveLoop
  <2>1. UNCHANGED <<worker, limits, hw, hw_fault>> /\ (Up' => Up)
    BY <1>7 DEF LeaveLoop, Up, shared, output
  <2> QED BY <2>1, BrightSame
<1>8. CASE SwitchOff
  <2>1. PICK k \in 1 .. 3, next \in 1 .. 3 :
          k = off /\ off' = next /\ led_hw_all_off(k, next)
    BY <1>8 DEF SwitchOff, TypesOK, ControlOK
  <2>2. UNCHANGED <<limits, worker>> /\ \A u \in Threads : worker[u].pc = "none"
    BY <1>8 DEF SwitchOff, ThreadInv, NoWorkerPcs, OffPcs
  <2>3. LimitsOK /\ OutputOK
    BY DEF TypesOK
  <2>4. ASSUME Up', NEW c \in Channels, Lit(c)' PROVE hw'[c] <= limits.full
    <3>1. Lit(c) /\ hw'[c] = hw[c]
      BY <2>1, <2>3, <2>4, AllOffEffect
    <3>2. CASE Up
      BY <3>1, <3>2 DEF BrightInv
    <3>3. CASE ~Up
      <4>1. pc = "init_off" /\ next = 1
        BY <1>8, <2>1, <2>4, <3>3 DEF SwitchOff, AfterInit, AfterStop, AfterRollback, OffPcs, Up
      <4>2. \A n \in 1 .. k - 1 : ~Lit(OffOrder[n])
        BY <2>1, <4>1 DEF OffInv
      <4> QED BY <2>1, <2>3, <2>4, <4>1, <4>2, OffCounts
    <3> QED BY <3>2, <3>3
  <2> QED BY <2>2, <2>4 DEF BrightInv, BrightAt
<1>9. CASE led_controller_deinit
  BY <1>9, BrightDown DEF led_controller_deinit, FreshProcess, NoWorker, Up
<1>10. CASE ReadReply
  <2>1. UNCHANGED <<worker, limits, hw, hw_fault>> /\ (Up' => Up)
    BY <1>10 DEF ReadReply, Up, shared, output
  <2> QED BY <2>1, BrightSame
<1>11. CASE SendReply
  <2>1. UNCHANGED <<worker, limits, hw, hw_fault>> /\ (Up' => Up)
    BY <1>11 DEF SendReply, Up, shared, output
  <2> QED BY <2>1, BrightSame
<1>12. CASE StopRequest
  <2>1. UNCHANGED <<worker, limits, hw, hw_fault>> /\ (Up' => Up)
    BY <1>12 DEF StopRequest, Up, shared, output
  <2> QED BY <2>1, BrightSame
<1>13. CASE StopJoin
  <2>1. UNCHANGED <<limits, hw, hw_fault>> /\ (Up' => Up)
    BY <1>13 DEF StopJoin, Up, output
  <2>2. \A u \in Threads : worker'[u] = worker[u] \/ worker'[u].pc = "none"
    BY <1>0, <1>13 DEF StopJoin, NoWorker, WorkersOK
  <2> QED BY <2>1, <2>2, BrightSame
<1>14. CASE StopClear
  <2>1. UNCHANGED <<worker, limits, hw, hw_fault>> /\ (Up' => Up)
    BY <1>14 DEF StopClear, ClearShared, Up, shared, output
  <2> QED BY <2>1, BrightSame
<1>15. CASE OutOfMemory
  <2>1. UNCHANGED <<worker, limits, hw, hw_fault>> /\ (Up' => Up)
    BY <1>15 DEF OutOfMemory, Up, shared, output
  <2> QED BY <2>1, BrightSame
<1>16. CASE Arm
  <2>1. UNCHANGED <<worker, limits, hw, hw_fault>> /\ (Up' => Up)
    BY <1>16 DEF Arm, Up, shared, output
  <2> QED BY <2>1, BrightSame
<1>17. CASE CreateFails
  <2>1. UNCHANGED <<worker, limits, hw, hw_fault>> /\ (Up' => Up)
    BY <1>17 DEF CreateFails, Up, shared, output
  <2> QED BY <2>1, BrightSame
<1>18. CASE Rollback
  <2>1. UNCHANGED <<worker, limits, hw, hw_fault>> /\ (Up' => Up)
    BY <1>18 DEF Rollback, ClearShared, Up, shared, output
  <2> QED BY <2>1, BrightSame
<1>19. ASSUME NEW t \in Threads, CreateWorker(t)
       PROVE  BrightInv'
  <2>1. UNCHANGED <<limits, hw, hw_fault>> /\ (Up' => Up)
    BY <1>19 DEF CreateWorker, Up, output
  <2>2. \A u \in Threads : worker'[u] = worker[u] \/ worker'[u].pc = "begin"
    BY <1>0, <1>19 DEF CreateWorker, NoWorker, WorkersOK
  <2> QED BY <2>1, <2>2, BrightSame
<1>20. ASSUME NEW t \in Threads, WorkerBegin(t)
       PROVE  BrightInv'
  <2>1. PICK s \in ScreenReadings, p \in {"solid_on", "loop"},
             d \in {"infinite", "running", "expired"} :
          worker' = [worker EXCEPT ![t] =
            [@ EXCEPT !.pc = p, !.deadline = d,
                      !.brightness = led_hw_ambient_brightness(limits, s), !.screen = s]]
    BY <1>0, <1>20, Begins
  <2>2. UNCHANGED <<limits, hw, hw_fault>> /\ (Up' => Up)
    BY <1>20 DEF WorkerBegin, mainVars, Up, output
  <2>3. /\ worker'[t].pc = p /\ worker'[t].screen = s
        /\ worker'[t].brightness = led_hw_ambient_brightness(limits, s)
        /\ \A u \in Threads \ {t} : worker'[u] = worker[u]
    BY <1>0, <2>1 DEF WorkersOK, Locals
  <2>4. \A u \in Threads : BrightAt(u)'
    <3>1. BrightAt(t)'
      <4>1. LET b == led_hw_ambient_brightness(limits, s) IN
              b = limits.full \/ (b = limits.dim /\ s # Unreadable /\ s <= limits.threshold)
        BY ReadingsAssumption DEF led_hw_ambient_brightness, TypesOK, LimitsOK
      <4> QED BY <2>2, <2>3, <4>1 DEF BrightAt
    <3>2. ASSUME NEW u \in Threads \ {t} PROVE BrightAt(u)'
      <4>1. BrightAt(u)
        BY DEF BrightInv
      <4> QED BY <2>2, <2>3, <4>1 DEF BrightAt, PatternOf
    <3> QED BY <3>1, <3>2
  <2>5. \A c \in Channels : Up' /\ Lit(c)' => hw'[c] <= limits'.full
    BY <2>2 DEF BrightInv, Lit
  <2> QED BY <2>4, <2>5 DEF BrightInv
<1>21. ASSUME NEW t \in Threads, WorkerOn(t)
       PROVE  BrightInv'
  <2>1. worker[t] \in Locals /\ worker[t].pc \notin {"none", "begin"}
    <3>1. worker[t].pc \notin {"none", "begin"}
      BY <1>21 DEF WorkerOn, Goto, mainVars
    <3> QED BY <1>0, <3>1
  <2>2. \A u \in Threads \ {t} : worker[u].pc = "none"
    BY <2>1 DEF ThreadInv
  <2>3. \A u \in Threads \ {t} : worker'[u] = worker[u]
    BY <1>0, <1>21 DEF WorkerOn, Goto, mainVars, WorkersOK
  <2>4. Up /\ UNCHANGED limits
    BY <1>21, <2>1 DEF WorkerOn, Goto, mainVars, ThreadInv, NoWorkerPcs, Up
  <2>5. LimitsOK /\ OutputOK /\ PatternOf(t).channel \in Channels /\ BrightAt(t)
    BY <2>1, RunningPattern DEF TypesOK, BrightInv
  <2>6. /\ worker[t].brightness \in Nat
        /\ led_hw_set_channel(PatternOf(t).channel, worker[t].brightness)
    BY <1>21, <2>1 DEF WorkerOn, Locals
  <2>7. ASSUME NEW c \in Channels, Lit(c)' PROVE hw'[c] <= limits.full
    <3>1. CASE c = PatternOf(t).channel
      <4>1. ~hw_fault'[c] /\ hw'[c] \in Nat /\ limits.full \in Nat
        BY <1>0, <2>5, <2>6, <2>7, WriteType DEF Lit, OutputOK, LimitsOK
      <4>2. ~(hw'[c] > limits.full)
        BY <2>5, <2>6, <3>1, <4>1, WriteEffect
      <4> QED BY <4>1, <4>2
    <3>2. CASE c # PatternOf(t).channel
      <4>1. hw'[c] = hw[c] /\ hw_fault'[c] = hw_fault[c]
        BY <2>5, <2>6, <3>2, WriteEffect
      <4> QED BY <2>4, <2>7, <4>1 DEF BrightInv, Lit
    <3> QED BY <3>1, <3>2
  <2>8. BrightAt(t)'
    <3> DEFINE b == worker[t].brightness
               c == PatternOf(t).channel
    <3>1. PICK p \in {"solid_wait", "on_wait"} : worker' = [worker EXCEPT ![t].pc = p]
      BY <1>21 DEF WorkerOn, Goto, mainVars
    <3>2. worker'[t] = [worker[t] EXCEPT !.pc = p]
      BY <1>0, <3>1 DEF WorkersOK
    <3>3. /\ worker'[t].brightness = b /\ worker'[t].screen = worker[t].screen
          /\ worker'[t].pattern_id = worker[t].pattern_id
      BY <2>1, <3>2 DEF Locals
    <3>4. /\ b = limits.full
             \/ (b = limits.dim /\ worker[t].screen # Unreadable
                   /\ worker[t].screen <= limits.threshold)
      BY <2>1, <2>5 DEF BrightAt
    <3>5. b \in Nat /\ b <= limits.full
      BY <2>1, <2>5, <3>4 DEF LimitsOK, Locals
    <3>6. Clamp(limits, b) = b
      BY <2>5, <3>5 DEF Clamp, LimitsOK
    <3>7. led_hw_set_channel(c, b)
      BY <1>21 DEF WorkerOn
    <3>8. hw_fault'[c] \/ hw'[c] = b
      BY <2>5, <3>5, <3>6, <3>7, WriteEffect
    <3> QED BY <2>4, <3>3, <3>4, <3>8 DEF BrightAt, PatternOf
  <2>9. \A u \in Threads \ {t} : BrightAt(u)'
    BY <2>2, <2>3 DEF BrightAt
  <2> QED BY <2>4, <2>8, <2>7, <2>9 DEF BrightInv
<1>22. ASSUME NEW t \in Threads, SolidEnds(t)
       PROVE  BrightInv'
  <2>1. UNCHANGED <<limits, hw, hw_fault>> /\ (Up' => Up)
    BY <1>22 DEF SolidEnds, Goto, mainVars, Up, output
  <2>2. \A u \in Threads \ {t} : worker'[u] = worker[u]
    BY <1>0, <1>22 DEF SolidEnds, Goto, mainVars, WorkersOK
  <2>3. /\ worker[t].pc \notin {"none", "begin"}
        /\ worker'[t].pc \notin {"solid_wait", "on_wait"}
        /\ worker'[t].brightness = worker[t].brightness
        /\ worker'[t].screen = worker[t].screen
        /\ worker'[t].pattern_id = worker[t].pattern_id
    BY <1>0, <1>22 DEF SolidEnds, Goto, mainVars, WorkersOK, Locals
  <2> QED BY <2>1, <2>2, <2>3, BrightSame
<1>23. ASSUME NEW t \in Threads, LoopTest(t)
       PROVE  BrightInv'
  <2>1. UNCHANGED <<limits, hw, hw_fault>> /\ (Up' => Up)
    BY <1>23 DEF LoopTest, mainVars, Up, output
  <2>2. \A u \in Threads \ {t} : worker'[u] = worker[u]
    BY <1>0, <1>23 DEF LoopTest, mainVars, WorkersOK
  <2>3. /\ worker[t].pc \notin {"none", "begin"}
        /\ worker'[t].pc \notin {"solid_wait", "on_wait"}
        /\ worker'[t].brightness = worker[t].brightness
        /\ worker'[t].screen = worker[t].screen
        /\ worker'[t].pattern_id = worker[t].pattern_id
    BY <1>0, <1>23 DEF LoopTest, mainVars, WorkersOK, Locals
  <2> QED BY <2>1, <2>2, <2>3, BrightSame
<1>24. ASSUME NEW t \in Threads, StepTest(t)
       PROVE  BrightInv'
  <2>1. UNCHANGED <<limits, hw, hw_fault>> /\ (Up' => Up)
    BY <1>24 DEF StepTest, Goto, mainVars, Up, output
  <2>2. \A u \in Threads \ {t} : worker'[u] = worker[u]
    BY <1>0, <1>24 DEF StepTest, Goto, mainVars, WorkersOK
  <2>3. /\ worker[t].pc \notin {"none", "begin"}
        /\ worker'[t].pc \notin {"solid_wait", "on_wait"}
        /\ worker'[t].brightness = worker[t].brightness
        /\ worker'[t].screen = worker[t].screen
        /\ worker'[t].pattern_id = worker[t].pattern_id
    BY <1>0, <1>24 DEF StepTest, Goto, mainVars, WorkersOK, Locals
  <2> QED BY <2>1, <2>2, <2>3, BrightSame
<1>25. ASSUME NEW t \in Threads, SleepEnds(t)
       PROVE  BrightInv'
  <2>1. UNCHANGED <<limits, hw, hw_fault>> /\ (Up' => Up)
    BY <1>25 DEF SleepEnds, Goto, mainVars, Up, output
  <2>2. \A u \in Threads \ {t} : worker'[u] = worker[u]
    BY <1>0, <1>25 DEF SleepEnds, Goto, mainVars, WorkersOK
  <2>3. /\ worker[t].pc \notin {"none", "begin"}
        /\ worker'[t].pc \notin {"solid_wait", "on_wait"}
        /\ worker'[t].brightness = worker[t].brightness
        /\ worker'[t].screen = worker[t].screen
        /\ worker'[t].pattern_id = worker[t].pattern_id
    <3>1. CASE Goto(t, "on_wait", "gap")
      BY <1>0, <3>1 DEF Goto, WorkersOK, Locals
    <3>2. CASE /\ worker[t].pc = "off_wait"
               /\ worker' = [worker EXCEPT ![t].pc = "step", ![t].i = @ + 1]
      BY <1>0, <3>2 DEF WorkersOK, Locals
    <3> QED BY <1>25, <3>1, <3>2 DEF SleepEnds
  <2> QED BY <2>1, <2>2, <2>3, BrightSame
<1>26. ASSUME NEW t \in Threads, WorkerDark(t)
       PROVE  BrightInv'
  <2>1. worker[t] \in Locals /\ worker[t].pc \notin {"none", "begin"}
    <3>1. worker[t].pc \notin {"none", "begin"}
      BY <1>26 DEF WorkerDark, Goto, mainVars
    <3> QED BY <1>0, <3>1
  <2>2. \A u \in Threads \ {t} : worker[u].pc = "none"
    BY <2>1 DEF ThreadInv
  <2>3. \A u \in Threads \ {t} : worker'[u] = worker[u]
    BY <1>0, <1>26 DEF WorkerDark, Goto, mainVars, WorkersOK
  <2>4. Up /\ UNCHANGED limits
    BY <1>26, <2>1 DEF WorkerDark, Goto, mainVars, ThreadInv, NoWorkerPcs, Up
  <2>5. LimitsOK /\ OutputOK /\ PatternOf(t).channel \in Channels /\ BrightAt(t)
    BY <2>1, RunningPattern DEF TypesOK, BrightInv
  <2>7. \A c \in Channels : Lit(c)' => hw'[c] <= limits.full
    BY <1>26, <2>1, <2>4, <2>5, WriteEffect
    DEF WorkerDark, Goto, mainVars, BrightInv, Lit, Locals
  <2>8. BrightAt(t)'
    <3>1. /\ worker'[t].pc \notin {"none", "begin", "solid_wait", "on_wait"}
          /\ worker'[t].brightness = worker[t].brightness
          /\ worker'[t].screen = worker[t].screen
      BY <1>0, <1>26 DEF WorkerDark, Goto, mainVars, WorkersOK, Locals
    <3> QED BY <2>1, <2>4, <2>5, <3>1 DEF BrightAt
  <2>9. \A u \in Threads \ {t} : BrightAt(u)'
    BY <2>2, <2>3 DEF BrightAt
  <2> QED BY <2>4, <2>8, <2>7, <2>9 DEF BrightInv
<1>27. ASSUME NEW t \in Threads, WorkerAllOff(t)
       PROVE  BrightInv'
  <2>1. worker[t] \in Locals /\ worker[t].pc \notin {"none", "begin"}
    <3>1. worker[t].pc \notin {"none", "begin"}
      BY <1>27 DEF WorkerAllOff, mainVars
    <3> QED BY <1>0, <3>1
  <2>2. \A u \in Threads \ {t} : worker[u].pc = "none"
    BY <2>1 DEF ThreadInv
  <2>3. \A u \in Threads \ {t} : worker'[u] = worker[u]
    BY <1>0, <1>27 DEF WorkerAllOff, mainVars, WorkersOK
  <2>4. Up /\ UNCHANGED limits
    BY <1>27, <2>1 DEF WorkerAllOff, mainVars, ThreadInv, NoWorkerPcs, Up
  <2>5. LimitsOK /\ OutputOK /\ PatternOf(t).channel \in Channels /\ BrightAt(t)
    BY <2>1, RunningPattern DEF TypesOK, BrightInv
  <2>6. PICK k \in 1 .. 3, next \in 1 .. 3 : led_hw_all_off(k, next)
    BY <1>27, <2>1 DEF WorkerAllOff, Locals
  <2>7. \A c \in Channels : Lit(c)' => hw'[c] <= limits.full
    BY <2>4, <2>5, <2>6, AllOffEffect DEF BrightInv
  <2>8. BrightAt(t)'
    <3>1. /\ worker'[t].pc \notin {"none", "begin", "solid_wait", "on_wait"}
          /\ worker'[t].brightness = worker[t].brightness
          /\ worker'[t].screen = worker[t].screen
      BY <1>0, <1>27 DEF WorkerAllOff, mainVars, WorkersOK, Locals
    <3> QED BY <2>1, <2>4, <2>5, <3>1 DEF BrightAt
  <2>9. \A u \in Threads \ {t} : BrightAt(u)'
    BY <2>2, <2>3 DEF BrightAt
  <2> QED BY <2>4, <2>8, <2>7, <2>9 DEF BrightInv
<1>28. ASSUME NEW t \in Threads, mark_stopped_from_worker(t)
       PROVE  BrightInv'
  <2>1. UNCHANGED <<limits, hw, hw_fault>> /\ (Up' => Up)
    BY <1>28 DEF mark_stopped_from_worker, Goto, mainVars, Up, output
  <2>2. \A u \in Threads \ {t} : worker'[u] = worker[u]
    BY <1>0, <1>28 DEF mark_stopped_from_worker, Goto, mainVars, WorkersOK
  <2>3. /\ worker[t].pc \notin {"none", "begin"}
        /\ worker'[t].pc \notin {"solid_wait", "on_wait"}
        /\ worker'[t].brightness = worker[t].brightness
        /\ worker'[t].screen = worker[t].screen
        /\ worker'[t].pattern_id = worker[t].pattern_id
    BY <1>0, <1>28 DEF mark_stopped_from_worker, Goto, mainVars, WorkersOK, Locals
  <2> QED BY <2>1, <2>2, <2>3, BrightSame
<1>29. ASSUME NEW t \in Threads, Elapse(t)
       PROVE  BrightInv'
  <2>1. UNCHANGED <<limits, hw, hw_fault>> /\ (Up' => Up)
    BY <1>29 DEF Elapse, mainVars, Up, output
  <2>2. \A u \in Threads \ {t} : worker'[u] = worker[u]
    BY <1>0, <1>29 DEF Elapse, mainVars, WorkersOK
  <2>3. /\ worker'[t].pc = worker[t].pc
        /\ worker'[t].brightness = worker[t].brightness
        /\ worker'[t].screen = worker[t].screen
        /\ worker'[t].pattern_id = worker[t].pattern_id
    BY <1>0, <1>29 DEF Elapse, mainVars, WorkersOK, Locals
  <2>4. worker'[t].pc \in {"none", "begin"} \/ worker[t].pc \notin {"none", "begin"}
    BY <2>3
  <2> QED BY <2>1, <2>2, <2>3, <2>4, BrightSame
<1>30. CASE UNCHANGED vars
  <2>1. UNCHANGED <<worker, limits, hw, hw_fault>> /\ (Up' => Up)
    BY <1>30 DEF vars, Up, shared, output
  <2> QED BY <2>1, BrightSame
<1> QED BY <1>1, <1>2, <1>3, <1>4, <1>5, <1>6, <1>7, <1>8, <1>9, <1>10, <1>11, <1>12,
       <1>13, <1>14, <1>15, <1>16, <1>17, <1>18, <1>19, <1>20, <1>21, <1>22, <1>23,
       <1>24, <1>25, <1>26, <1>27, <1>28, <1>29, <1>30 DEF Next, MainStep, WorkerStep
-----------------------------------------------------------------------------
IInv ==
  /\ TypesOK /\ RequestInv /\ ThreadInv /\ AgreeInv /\ OffInv
  /\ OnlyThePatternsColour /\ BrightInv

\* The process has not been started, whatever is on the channels.
LEMMA InitIInv == Init => IInv
<1> SUFFICES ASSUME Init PROVE IInv
  OBVIOUS
<1>1. pc = "exited" /\ worker = [t \in Threads |-> NoWorker]
  BY DEF Init
<1>2. TypesOK
  <2>1. /\ pc \in MainPcs /\ off \in 1 .. 3 /\ crashes \in Nat
        /\ request \in {NoRequest} /\ pattern_thread \in Threads \cup {NoThread}
    BY DEF Init, MainPcs
  <2>2. terminated \in BOOLEAN /\ thread_active \in BOOLEAN /\ keep_running \in BOOLEAN
    BY DEF Init
  <2>3. reply \in Replies
    BY DEF Init, NoReply, INVALID, Replies
  <2>4. current_pattern \in 0 .. 4 /\ current_duration_sec \in Int
    BY DEF Init, INVALID
  <2>5. LimitsOK
    <3>1. \A d \in Channels : [c \in Channels |-> Unreadable][d] = Unreadable
      OBVIOUS
    <3>2. limits = [full |-> 255, dim |-> 10, threshold |-> 50,
                    maxima |-> [c \in Channels |-> Unreadable]]
      <4>1. Full([c \in Channels |-> Unreadable]) = 255
        BY <3>1 DEF Full, Usable, LED_BRIGHTNESS_FULL_FALLBACK
      <4>2. Dim(255) = 10
        BY DEF Dim, LED_BRIGHTNESS_DIM_PREFERRED
      <4>3. Threshold(Unreadable) = 50
        BY DEF Threshold, Usable, LED_AMBIENT_MAX_FALLBACK
      <4> QED BY <4>1, <4>2, <4>3 DEF Init, NoLimits, Limits
    <3> QED BY <3>1, <3>2 DEF LimitsOK, Usable
  <2>6. WorkersOK
    BY <1>1, NoWorkerType DEF WorkersOK
  <2>7. OutputOK
    <3>1. hw \in [Channels -> {0, 1}] /\ hw_fault = [c \in Channels |-> FALSE]
      BY DEF Init
    <3>2. hw \in [Channels -> Nat]
      BY <3>1
    <3> QED BY <3>1, <3>2 DEF OutputOK
  <2>8. ControlOK
    BY <2>1, <2>2 DEF ControlOK
  <2>9. SharedOK
    BY <2>2, <2>4 DEF SharedOK
  <2> QED BY <2>3, <2>5, <2>6, <2>7, <2>8, <2>9 DEF TypesOK
<1>3. RequestInv
  BY <1>1 DEF RequestInv
<1>4. ThreadInv
  BY <1>1 DEF ThreadInv, NoWorker
<1>5. AgreeInv
  BY <1>1 DEF AgreeInv, StatusMatchesWorker, Live, NoWorker
<1>6. OffInv
  <2>1. off = 1
    BY DEF Init
  <2> QED BY <1>1, <2>1 DEF OffInv, NoWorker
<1>7. OnlyThePatternsColour
  BY <1>1 DEF OnlyThePatternsColour, Up
<1>8. BrightInv
  BY <1>1 DEF BrightInv, BrightAt, NoWorker, Up
<1> QED BY <1>2, <1>3, <1>4, <1>5, <1>6, <1>7, <1>8 DEF IInv

\* The invariant is inductive.
THEOREM Inductive == Safety => []IInv
<1>1. IInv /\ [Next]_vars => IInv'
  <2> SUFFICES ASSUME IInv, [Next]_vars PROVE IInv'
    OBVIOUS
  <2>1. TypesOK' /\ RequestInv' /\ ThreadInv' /\ OffInv'
    BY TypeStep, RequestStep, ThreadStep, OffStep DEF IInv
  <2>2. AgreeInv' /\ OnlyThePatternsColour' /\ BrightInv'
    BY <2>1, AgreeStep, LightStep, BrightStep DEF IInv
  <2> QED BY <2>1, <2>2 DEF IInv
<1> QED BY InitIInv, <1>1, PTL DEF Safety

\* Every variable keeps its type, the ids and durations that arrive as words
\* and are stored as ints included.
THEOREM TypeCorrect == Safety => []TypeOK
<1>1. IInv => TypeOK
  BY DEF IInv, TypesOK, ControlOK, SharedOK, LimitsOK, WorkersOK, OutputOK, Locals, Replies,
         TypeOK
<1> QED BY Inductive, <1>1, PTL

\* The status fields are those of the pattern that plays, however requests,
\* stops and expiring durations interleave.
THEOREM StatusIsTrue == Safety => []StatusMatchesWorker
<1>1. IInv => StatusMatchesWorker
  BY DEF IInv, AgreeInv
<1> QED BY Inductive, <1>1, PTL

\* No light of an earlier alarm remains, although a channel is lit and switched
\* off by writes that may fail, by two threads, without the lock.
THEOREM NoStrangeLight == Safety => []OnlyThePatternsColour
<1>1. IInv => OnlyThePatternsColour
  BY DEF IInv
<1> QED BY Inductive, <1>1, PTL

\* Whatever the device's files contain, a lit alarm is visible and within the
\* maxima that could be read.
THEOREM BrightnessIsRight == Safety => []BrightnessFits
<1>1. IInv => BrightnessFits
  <2> SUFFICES ASSUME IInv PROVE BrightnessFits
    OBVIOUS
  <2>1. LimitsOK /\ OutputOK
    BY DEF IInv, TypesOK
  <2>2. ASSUME NEW t \in Threads, worker[t].pc \in {"solid_wait", "on_wait"}
        PROVE  LET c == PatternOf(t).channel IN hw_fault[c] \/ hw[c] > 0
    <3>1. BrightAt(t)
      BY DEF IInv, BrightInv
    <3>2. worker[t].brightness > 0
      BY <2>1, <2>2, <3>1 DEF BrightAt, LimitsOK
    <3> QED BY <2>2, <3>1, <3>2 DEF BrightAt
  <2>3. ASSUME Up, NEW c \in Channels, NEW d \in Channels, Lit(c), Usable(limits.maxima[d])
        PROVE  hw[c] <= limits.maxima[d]
    <3>1. hw[c] <= limits.full /\ limits.full <= limits.maxima[d]
      BY <2>1, <2>3 DEF IInv, BrightInv, LimitsOK
    <3>2. hw[c] \in Int /\ limits.full \in Int /\ limits.maxima[d] \in Int
      BY <2>1, <2>3 DEF LimitsOK, OutputOK, Usable
    <3> QED BY <3>1, <3>2
  <2> QED BY <2>2, <2>3 DEF BrightnessFits
<1> QED BY Inductive, <1>1, PTL

\* An alarm is dimmed only when the screen could be read and was dim.
THEOREM FailsBright == Safety => []DimmedOnlyAtNight
<1>1. IInv => DimmedOnlyAtNight
  <2> SUFFICES ASSUME IInv, NEW t \in Threads, worker[t].pc \in {"solid_wait", "on_wait"},
                      Lit(PatternOf(t).channel), hw[PatternOf(t).channel] < limits.full
               PROVE  worker[t].screen # Unreadable /\ worker[t].screen <= limits.threshold
    BY DEF DimmedOnlyAtNight
  <2>1. BrightAt(t) /\ limits.full \in Nat
    BY DEF IInv, TypesOK, LimitsOK, BrightInv
  <2>2. hw[PatternOf(t).channel] = worker[t].brightness
    BY <2>1 DEF BrightAt, Lit
  <2>3. worker[t].brightness # limits.full
    BY <2>1, <2>2
  <2> QED BY <2>1, <2>3 DEF BrightAt
<1> QED BY Inductive, <1>1, PTL
-----------------------------------------------------------------------------
(***************************************************************************)
(* Machine-checked proof that every step of LedService is a step that      *)
(* Reaction allows, or changes nothing Reaction speaks of: the promise of  *)
(* the siren is kept by three channels as well, although silence takes     *)
(* three writes there.                                                     *)
(***************************************************************************)
\* What the mapping needs beyond IInv: keep_running is set only while there is
\* a worker to obey it (or one is about to be created), and then a pattern is
\* named.
StageInv ==
  /\ pc \in NoWorkerPcs \ {"create", "rollback"} => ~keep_running
  /\ keep_running => current_pattern \in 1 .. 4
  /\ keep_running /\ pc \notin {"create", "rollback"} =>
       \E t \in Threads : Live(t)

\* There is a record for every thread.
LEMMA WorkersHere ==
  ASSUME IInv
  PROVE  worker \in [Threads -> Locals]
BY DEF IInv, TypesOK, WorkersOK

\* A step of a live worker to a place where it lives leaves who lives alone.
LEMMA StaysLive ==
  ASSUME NEW t \in Threads, Live(t), Live(t)',
         \A u \in Threads \ {t} : worker'[u] = worker[u]
  PROVE  \A u \in Threads : Live(u)' <=> Live(u)
BY DEF Live

\* Every step keeps StageInv.
LEMMA StageStep ==
  ASSUME IInv, IInv', StageInv, [Next]_vars
  PROVE  StageInv'
<1> USE WorkersHere DEF IInv, TypesOK, ControlOK, RequestInv, ThreadInv, NoWorkerPcs,
          OffPcs, StageInv, Live, shared
<1>1. CASE Start
  BY <1>1 DEF Start
<1>2. CASE Crash
  BY <1>2 DEF Crash, FreshProcess, NoWorker
<1>3. CASE handle_signal
  BY <1>3 DEF handle_signal
<1>4. ASSUME NEW r \in Requests, Receive(r)
      PROVE  StageInv'
  BY <1>4 DEF Receive
<1>5. CASE led_hw_init
  BY <1>5 DEF led_hw_init
<1>6. CASE Connect
  BY <1>6 DEF Connect
<1>7. CASE LeaveLoop
  BY <1>7 DEF LeaveLoop
<1>8. CASE SwitchOff
  BY <1>8 DEF SwitchOff, AfterInit, AfterStop, AfterRollback
<1>9. CASE led_controller_deinit
  BY <1>9 DEF led_controller_deinit, FreshProcess
<1>10. CASE ReadReply
  BY <1>10 DEF ReadReply
<1>11. CASE SendReply
  BY <1>11 DEF SendReply
<1>12. CASE StopRequest
  BY <1>12 DEF StopRequest
<1>13. CASE StopJoin
  BY <1>13 DEF StopJoin, NoWorker
<1>14. CASE StopClear
  BY <1>14 DEF StopClear, ClearShared
<1>15. CASE OutOfMemory
  BY <1>15 DEF OutOfMemory
<1>16. CASE Arm
  BY <1>16 DEF Arm
<1>17. CASE CreateFails
  BY <1>17 DEF CreateFails
<1>18. CASE Rollback
  BY <1>18 DEF Rollback, ClearShared
<1>19. ASSUME NEW t \in Threads, CreateWorker(t)
      PROVE  StageInv'
  BY <1>19 DEF CreateWorker, NoWorker
<1>20. ASSUME NEW t \in Threads, WorkerBegin(t)
      PROVE  StageInv'
  BY <1>20 DEF WorkerBegin, mainVars
<1>21. ASSUME NEW t \in Threads, WorkerOn(t)
      PROVE  StageInv'
  <2>1. Live(t) /\ Live(t)' /\ \A u \in Threads \ {t} : worker'[u] = worker[u]
    BY <1>21 DEF WorkerOn, Goto, Locals
  <2>2. UNCHANGED <<pc, keep_running, current_pattern>>
    BY <1>21 DEF WorkerOn, mainVars
  <2>3. \A u \in Threads : Live(u)' <=> Live(u)
    BY <2>1, StaysLive
  <2> HIDE DEF Live
  <2> QED BY <2>2, <2>3
<1>22. ASSUME NEW t \in Threads, SolidEnds(t)
      PROVE  StageInv'
  BY <1>22 DEF SolidEnds, Goto, mainVars
<1>23. ASSUME NEW t \in Threads, LoopTest(t)
      PROVE  StageInv'
  BY <1>23 DEF LoopTest, mainVars
<1>24. ASSUME NEW t \in Threads, StepTest(t)
      PROVE  StageInv'
  BY <1>24 DEF StepTest, Goto, mainVars
<1>25. ASSUME NEW t \in Threads, SleepEnds(t)
      PROVE  StageInv'
  <2>1. Live(t) /\ Live(t)' /\ \A u \in Threads \ {t} : worker'[u] = worker[u]
    BY <1>25 DEF SleepEnds, Goto, Locals
  <2>2. UNCHANGED <<pc, keep_running, current_pattern>>
    BY <1>25 DEF SleepEnds, mainVars
  <2>3. \A u \in Threads : Live(u)' <=> Live(u)
    BY <2>1, StaysLive
  <2> HIDE DEF Live
  <2> QED BY <2>2, <2>3
<1>26. ASSUME NEW t \in Threads, WorkerDark(t)
      PROVE  StageInv'
  BY <1>26 DEF WorkerDark, Goto, mainVars
<1>27. ASSUME NEW t \in Threads, WorkerAllOff(t)
      PROVE  StageInv'
  BY <1>27 DEF WorkerAllOff, mainVars
<1>28. ASSUME NEW t \in Threads, mark_stopped_from_worker(t)
      PROVE  StageInv'
  BY <1>28 DEF mark_stopped_from_worker, Goto, mainVars
<1>29. ASSUME NEW t \in Threads, Elapse(t)
      PROVE  StageInv'
  BY <1>29 DEF Elapse, mainVars
<1>30. CASE UNCHANGED vars
  BY <1>30 DEF vars
<1> QED BY <1>1, <1>2, <1>3, <1>4, <1>5, <1>6, <1>7, <1>8, <1>9, <1>10, <1>11,
       <1>12, <1>13, <1>14, <1>15, <1>16, <1>17, <1>18, <1>19, <1>20, <1>21, <1>22,
       <1>23, <1>24, <1>25, <1>26, <1>27, <1>28, <1>29, <1>30
       DEF Next, MainStep, WorkerStep
-----------------------------------------------------------------------------
\* A step that touches neither the output, the flag nor the life of a worker
\* changes nothing Reaction speaks of.
LEMMA Stutters ==
  ASSUME Up' <=> Up, \A t \in Threads : Live(t)' <=> Live(t),
         UNCHANGED <<keep_running, hw, hw_fault>>,
         keep_running => UNCHANGED current_pattern
  PROVE  UNCHANGED R!vars
<1>1. UNCHANGED Stage
  BY DEF Stage
<1>2. UNCHANGED PatternPlayed
  BY DEF PatternPlayed
<1>3. UNCHANGED Sounding
  BY DEF Sounding, Lit
<1> QED BY <1>1, <1>2, <1>3 DEF R!vars

\* Where there is no worker, the service is quiet and dark.
LEMMA QuietWithoutWorker ==
  ASSUME IInv, Up, \A t \in Threads : worker[t].pc = "none", ~keep_running
  PROVE  Stage = "quiet" /\ PatternPlayed = INVALID /\ Sounding = FALSE
<1>1. Stage = "quiet"
  BY DEF Stage, Live
<1>2. PatternPlayed = INVALID
  BY DEF PatternPlayed
<1>3. \A t \in Threads, c \in Channels : ~Lights(t, c)
  BY NoLight
<1>4. Sounding = FALSE
  BY <1>3 DEF Sounding, IInv, OnlyThePatternsColour
<1> QED BY <1>1, <1>2, <1>4

\* A write of a live worker changes the output and nothing else.
LEMMA Drives ==
  ASSUME IInv, NEW t \in Threads, Live(t), Live(t)',
         \A u \in Threads : Live(u)' <=> Live(u),
         UNCHANGED <<pc, keep_running, current_pattern>>
  PROVE  R!Next
<1>1. Up
  BY DEF IInv, ThreadInv, NoWorkerPcs, Up, Live
<1>2. Stage \in {"active", "ending"}
  BY <1>1 DEF Stage
<1>3. UNCHANGED <<Stage, PatternPlayed>>
  BY <1>1 DEF Stage, PatternPlayed, Up
<1>4. Sounding' \in BOOLEAN
  BY DEF Sounding
<1>5. R!Drive
  BY <1>2, <1>3, <1>4 DEF R!Drive
<1> QED BY <1>5 DEF R!Next

\* Where the uloop thread goes on when led_hw_all_off has made its last write.
Returns ==
  /\ pc = "init_off" => pc' = "connect"
  /\ pc # "init_off" => pc' \in {"start", "reply_state", "deinit_off"}

\* A step of led_hw_all_off is one of three writes; after the last it returns.
LEMMA SwitchesOff ==
  ASSUME IInv, SwitchOff
  PROVE  \E k \in 1 .. 3, next \in 1 .. 3 :
           k = off /\ led_hw_all_off(k, next) /\ (pc' = pc \/ (next = 1 /\ Returns))
<1>1. PICK next \in 1 .. 3 :
        /\ led_hw_all_off(off, next)
        /\ \/ UNCHANGED <<pc, reply>>
           \/ next = 1 /\ (AfterInit \/ AfterStop \/ AfterRollback)
  BY Zenon DEF SwitchOff
<1>2. off \in 1 .. 3
  BY DEF IInv, TypesOK, ControlOK
<1>3. (UNCHANGED <<pc, reply>>) => pc' = pc
  OBVIOUS
<1>4. AfterInit \/ AfterStop \/ AfterRollback => Returns
  BY DEF AfterInit, AfterStop, AfterRollback, Returns
<1> HIDE DEF Returns
<1> QED BY <1>1, <1>2, <1>3, <1>4, Zenon

\* Every step of the service is a step of Reaction or a stutter.
LEMMA StepImplements ==
  ASSUME IInv, IInv', StageInv, StageInv', [Next]_vars
  PROVE  [R!Next]_(R!vars)
<1> USE DEF shared, output
<1>1. CASE Start
  BY <1>1, Stutters DEF Start, Up, Live
<1>2. CASE Crash
  <2>1. /\ Stage' = "down" /\ PatternPlayed' = INVALID
        /\ UNCHANGED Sounding
    BY <1>2 DEF Crash, FreshProcess, Stage, PatternPlayed, Up, Sounding, Lit
  <2>2. CASE Up
    <3>1. Stage # "down"
      BY <2>2 DEF Stage
    <3>2. R!Fail
      BY <2>1, <3>1 DEF R!Fail
    <3> QED BY <3>2 DEF R!Next
  <2>3. CASE ~Up
    <3>1. Stage = "down" /\ PatternPlayed = INVALID
      BY <2>3 DEF Stage, PatternPlayed
    <3> QED BY <2>1, <3>1 DEF R!vars
  <2> QED BY <2>2, <2>3
<1>3. CASE handle_signal
  BY <1>3, Stutters DEF handle_signal, Up, Live
<1>4. ASSUME NEW r \in Requests, Receive(r)
      PROVE  [R!Next]_(R!vars)
  BY <1>4, Stutters DEF Receive, Up, Live
<1>5. CASE led_hw_init
  BY <1>5, Stutters DEF led_hw_init, Up, Live
<1>6. CASE Connect
  BY <1>6, Stutters DEF Connect, Up, Live
<1>7. CASE LeaveLoop
  BY <1>7, Stutters DEF LeaveLoop, Up, Live
<1>8. CASE SwitchOff
  <2>1. PICK k \in 1 .. 3, next \in 1 .. 3 :
          k = off /\ led_hw_all_off(k, next) /\ (pc' = pc \/ (next = 1 /\ Returns))
    BY <1>8, SwitchesOff
  <2>2. pc \in OffPcs /\ UNCHANGED <<worker, keep_running, current_pattern>>
    BY <1>8 DEF SwitchOff
  <2>3. ~keep_running /\ \A t \in Threads : worker[t].pc = "none"
    BY <2>2 DEF StageInv, IInv, ThreadInv, NoWorkerPcs, OffPcs
  <2>4. \A t \in Threads : ~Live(t) /\ ~Live(t)'
    BY <2>2, <2>3 DEF Live
  <2>5. Sounding' => Sounding
    BY <2>1, AllOffEffect DEF Sounding, IInv, TypesOK
  <2>6. PatternPlayed = INVALID /\ PatternPlayed' = INVALID
    BY <2>2, <2>3 DEF PatternPlayed
  <2>7. CASE Up
    <3>1. Up'
      BY <2>1, <2>2, <2>7 DEF Returns, OffPcs, Up
    <3>2. Stage = "quiet" /\ Stage' = "quiet"
      BY <2>2, <2>3, <2>4, <2>7, <3>1 DEF Stage
    <3>3. Sounding = FALSE
      BY <2>3, <2>7, QuietWithoutWorker
    <3>4. Sounding' = FALSE
      BY <2>5, <3>3 DEF Sounding
    <3> QED BY <2>6, <3>2, <3>3, <3>4 DEF R!vars
  <2>8. CASE ~Up /\ ~Up'
    <3>1. Stage = "down" /\ Stage' = "down"
      BY <2>8 DEF Stage
    <3>2. CASE UNCHANGED Sounding
      BY <2>6, <3>1, <3>2 DEF R!vars
    <3>3. CASE ~UNCHANGED Sounding
      <4>1. Sounding' = FALSE
        BY <2>5, <3>3 DEF Sounding
      <4>2. R!Wipe
        BY <2>6, <3>1, <4>1 DEF R!Wipe
      <4> QED BY <4>2 DEF R!Next
    <3> QED BY <3>2, <3>3
  <2>9. CASE ~Up /\ Up'
    <3>1. pc = "init_off" /\ next = 1
      BY <2>1, <2>2, <2>9 DEF Returns, OffPcs, Up
    <3>2. \A n \in 1 .. k - 1 : ~Lit(OffOrder[n])
      BY <2>1, <3>1 DEF IInv, OffInv
    <3>3. \A c \in Channels : ~Lit(c)'
      BY <2>1, <3>1, <3>2, OffCounts DEF IInv, TypesOK
    <3>4. Sounding' = FALSE
      BY <3>3 DEF Sounding
    <3>5. Stage = "down" /\ Stage' = "quiet"
      BY <2>2, <2>3, <2>4, <2>9 DEF Stage
    <3>6. R!Recover
      BY <2>6, <3>4, <3>5 DEF R!Recover
    <3> QED BY <3>6 DEF R!Next
  <2> QED BY <2>7, <2>8, <2>9
<1>9. CASE led_controller_deinit
  <2>1. pc = "deinit_off" /\ pc' \in {"exited", "failed"} /\ led_hw_all_off(off, 1)
    BY <1>9 DEF led_controller_deinit
  <2>2. Up /\ ~Up'
    BY <2>1 DEF Up
  <2>3. ~keep_running /\ \A t \in Threads : worker[t].pc = "none"
    BY <2>1 DEF StageInv, IInv, ThreadInv, NoWorkerPcs
  <2>4. Stage = "quiet" /\ PatternPlayed = INVALID /\ Sounding = FALSE
    BY <2>2, <2>3, QuietWithoutWorker
  <2>5. off \in 1 .. 3
    BY DEF IInv, TypesOK, ControlOK
  <2>6. Sounding' => Sounding
    BY <2>1, <2>5, AllOffEffect DEF Sounding, IInv, TypesOK
  <2>7. Sounding' = FALSE
    BY <2>4, <2>6 DEF Sounding
  <2>8. Stage' = "down" /\ PatternPlayed' = INVALID
    BY <2>2 DEF Stage, PatternPlayed
  <2>9. R!Fail
    BY <2>4, <2>7, <2>8 DEF R!Fail
  <2> QED BY <2>9 DEF R!Next
<1>10. CASE ReadReply
  BY <1>10, Stutters DEF ReadReply, Up, Live
<1>11. CASE SendReply
  BY <1>11, Stutters DEF SendReply, Up, Live
<1>12. CASE StopRequest
  <2>1. pc = "stop" /\ pc' \in {"join", "stop_clear"}
        /\ UNCHANGED <<worker, current_pattern, hw, hw_fault>>
    BY <1>12 DEF StopRequest
  <2>2. Up /\ Up'
    BY <2>1 DEF Up
  <2>3. CASE UNCHANGED keep_running
    BY <2>1, <2>2, <2>3, Stutters DEF Live
  <2>4. CASE ~UNCHANGED keep_running
    <3>1. keep_running /\ ~keep_running'
      BY <1>12, <2>4 DEF StopRequest, IInv, TypesOK, SharedOK
    <3>2. \E t \in Threads : Live(t)
      BY <2>1, <3>1 DEF StageInv
    <3>3. Stage = "active" /\ Stage' = "ending"
      BY <2>1, <2>2, <3>1, <3>2 DEF Stage, Live
    <3>4. PatternPlayed' = INVALID /\ UNCHANGED Sounding
      BY <2>1, <3>1 DEF PatternPlayed, Sounding, Lit
    <3>5. R!Stop
      BY <3>3, <3>4 DEF R!Stop
    <3> QED BY <3>5 DEF R!Next
  <2> QED BY <2>3, <2>4
<1>13. CASE StopJoin
  <2>1. Up /\ Up' /\ UNCHANGED <<keep_running, current_pattern, hw, hw_fault>>
    BY <1>13 DEF StopJoin, Up
  <2>2. \A t \in Threads : Live(t)' <=> Live(t)
    BY <1>13, WorkersHere DEF StopJoin, Live, NoWorker
  <2> QED BY <2>1, <2>2, Stutters
<1>14. CASE StopClear
  <2>1. pc = "stop_clear" /\ pc' = "stop_off" /\ ~keep_running'
        /\ UNCHANGED <<worker, hw, hw_fault>>
    BY <1>14 DEF StopClear, ClearShared
  <2>2. keep_running = FALSE /\ keep_running' = FALSE
    BY <1>14, <2>1 DEF StopClear, ClearShared, StageInv, NoWorkerPcs, IInv, TypesOK,
         SharedOK
  <2> QED BY <2>1, <2>2, Stutters DEF Up, Live
<1>15. CASE OutOfMemory
  BY <1>15, Stutters DEF OutOfMemory, Up, Live
<1>16. CASE Arm
  <2>1. pc = "start" /\ pc' = "create" /\ keep_running'
        /\ UNCHANGED <<worker, hw, hw_fault>>
    BY <1>16 DEF Arm
  <2>2. Up /\ Up'
    BY <2>1 DEF Up
  <2>3. ~keep_running /\ \A t \in Threads : worker[t].pc = "none"
    BY <2>1 DEF StageInv, IInv, ThreadInv, NoWorkerPcs
  <2>4. Stage = "quiet" /\ Sounding = FALSE
    BY <2>2, <2>3, QuietWithoutWorker
  <2>5. Stage' = "active" /\ PatternPlayed' = current_pattern'
    BY <2>1, <2>2 DEF Stage, PatternPlayed
  <2>6. current_pattern' \in 1 .. 4
    BY <2>1 DEF StageInv
  <2>7. UNCHANGED Sounding
    BY <2>1 DEF Sounding, Lit
  <2>8. R!Begin(current_pattern')
    BY <2>4, <2>5, <2>7 DEF R!Begin
  <2> QED BY <2>6, <2>8 DEF R!Next
<1>17. CASE CreateFails
  BY <1>17, Stutters DEF CreateFails, Up, Live
<1>18. CASE Rollback
  <2>1. pc = "rollback" /\ pc' = "rollback_off" /\ ~keep_running'
        /\ UNCHANGED <<worker, hw, hw_fault>>
    BY <1>18 DEF Rollback, ClearShared
  <2>2. Up /\ Up'
    BY <2>1 DEF Up
  <2>3. \A t \in Threads : worker[t].pc = "none"
    BY <2>1 DEF IInv, ThreadInv, NoWorkerPcs
  <2>4. Stage' = "quiet" /\ PatternPlayed' = INVALID /\ UNCHANGED Sounding
    BY <2>1, <2>2, <2>3 DEF Stage, PatternPlayed, Sounding, Live, Lit
  <2>5. CASE keep_running
    <3>1. Stage = "active"
      BY <2>2, <2>5 DEF Stage
    <3>2. Sounding = FALSE
      BY <2>2, <2>3, NoLight DEF Sounding, IInv, OnlyThePatternsColour
    <3>3. R!Settle
      BY <2>4, <3>1, <3>2 DEF R!Settle
    <3> QED BY <3>3 DEF R!Next
  <2>6. CASE ~keep_running
    <3>1. Stage = "quiet" /\ PatternPlayed = INVALID
      BY <2>2, <2>3, <2>6, QuietWithoutWorker
    <3> QED BY <2>4, <3>1 DEF R!vars
  <2> QED BY <2>5, <2>6
<1>19. ASSUME NEW t \in Threads, CreateWorker(t)
      PROVE  [R!Next]_(R!vars)
  <2>1. Up /\ Up' /\ UNCHANGED <<keep_running, current_pattern, hw, hw_fault>>
    BY <1>19 DEF CreateWorker, Up
  <2>2. keep_running
    BY <1>19 DEF CreateWorker, IInv, AgreeInv
  <2>3. Stage = "active" /\ Stage' = "active"
    BY <2>1, <2>2 DEF Stage
  <2>4. UNCHANGED <<PatternPlayed, Sounding>>
    BY <2>1 DEF PatternPlayed, Sounding, Lit
  <2> QED BY <2>3, <2>4 DEF R!vars
<1>20. ASSUME NEW t \in Threads, WorkerBegin(t)
      PROVE  [R!Next]_(R!vars)
  <2>1. UNCHANGED <<pc, keep_running, current_pattern, hw, hw_fault>>
    BY <1>20 DEF WorkerBegin, mainVars
  <2>2. \A u \in Threads : Live(u)' <=> Live(u)
    <3>1. PICK s \in ScreenReadings, p \in {"solid_on", "loop"},
               d \in {"infinite", "running", "expired"} :
            worker' = [worker EXCEPT ![t] =
              [@ EXCEPT !.pc = p, !.deadline = d,
                 !.brightness = led_hw_ambient_brightness(limits, s), !.screen = s]]
      BY <1>20, Begins DEF IInv, TypesOK
    <3>2. worker[t] \in Locals /\ worker[t].pc = "begin"
      BY <1>20, WorkersHere DEF WorkerBegin
    <3>3. Live(t) /\ Live(t)' /\ \A u \in Threads \ {t} : worker'[u] = worker[u]
      BY <3>1, <3>2, WorkersHere DEF Live, Locals
    <3> QED BY <3>3, StaysLive
  <2> QED BY <2>1, <2>2, Stutters DEF Up
<1>21. ASSUME NEW t \in Threads, WorkerOn(t)
      PROVE  [R!Next]_(R!vars)
  <2>1. UNCHANGED <<pc, keep_running, current_pattern>>
    BY <1>21 DEF WorkerOn, mainVars
  <2>a. Live(t) /\ Live(t)' /\ \A u \in Threads \ {t} : worker'[u] = worker[u]
    BY <1>21, WorkersHere DEF WorkerOn, Goto, Live, Locals
  <2>2. Live(t) /\ Live(t)' /\ \A u \in Threads : Live(u)' <=> Live(u)
    BY <2>a, StaysLive
  <2> QED BY <2>1, <2>2, Drives
<1>22. ASSUME NEW t \in Threads, SolidEnds(t)
      PROVE  [R!Next]_(R!vars)
  <2>1. UNCHANGED <<pc, keep_running, current_pattern, hw, hw_fault>>
    BY <1>22 DEF SolidEnds, mainVars
  <2>2. \A u \in Threads : Live(u)' <=> Live(u)
    BY <1>22, WorkersHere DEF SolidEnds, Goto, Live
  <2> QED BY <2>1, <2>2, Stutters DEF Up
<1>23. ASSUME NEW t \in Threads, LoopTest(t)
      PROVE  [R!Next]_(R!vars)
  <2>1. UNCHANGED <<pc, keep_running, current_pattern, hw, hw_fault>>
    BY <1>23 DEF LoopTest, mainVars
  <2>2. \A u \in Threads : Live(u)' <=> Live(u)
    BY <1>23, WorkersHere DEF LoopTest, Live
  <2> QED BY <2>1, <2>2, Stutters DEF Up
<1>24. ASSUME NEW t \in Threads, StepTest(t)
      PROVE  [R!Next]_(R!vars)
  <2>1. UNCHANGED <<pc, keep_running, current_pattern, hw, hw_fault>>
    BY <1>24 DEF StepTest, mainVars
  <2>2. \A u \in Threads : Live(u)' <=> Live(u)
    BY <1>24, WorkersHere DEF StepTest, Goto, Live
  <2> QED BY <2>1, <2>2, Stutters DEF Up
<1>25. ASSUME NEW t \in Threads, SleepEnds(t)
      PROVE  [R!Next]_(R!vars)
  <2>1. UNCHANGED <<pc, keep_running, current_pattern, hw, hw_fault>>
    BY <1>25 DEF SleepEnds, mainVars
  <2>2. \A u \in Threads : Live(u)' <=> Live(u)
    <3>1. Live(t) /\ Live(t)' /\ \A u \in Threads \ {t} : worker'[u] = worker[u]
      BY <1>25, WorkersHere DEF SleepEnds, Goto, Live, Locals
    <3> QED BY <3>1, StaysLive
  <2> QED BY <2>1, <2>2, Stutters DEF Up
<1>26. ASSUME NEW t \in Threads, WorkerDark(t)
      PROVE  [R!Next]_(R!vars)
  <2>1. UNCHANGED <<pc, keep_running, current_pattern>>
    BY <1>26 DEF WorkerDark, mainVars
  <2>2. Live(t) /\ Live(t)' /\ \A u \in Threads : Live(u)' <=> Live(u)
    BY <1>26, WorkersHere DEF WorkerDark, Goto, Live
  <2> QED BY <2>1, <2>2, Drives
<1>27. ASSUME NEW t \in Threads, WorkerAllOff(t)
      PROVE  [R!Next]_(R!vars)
  <2>1. UNCHANGED <<pc, keep_running, current_pattern>>
    BY <1>27 DEF WorkerAllOff, mainVars
  <2>2. Live(t) /\ Live(t)' /\ \A u \in Threads : Live(u)' <=> Live(u)
    BY <1>27, WorkersHere DEF WorkerAllOff, Live
  <2> QED BY <2>1, <2>2, Drives
<1>28. ASSUME NEW t \in Threads, mark_stopped_from_worker(t)
      PROVE  [R!Next]_(R!vars)
  <2>1. worker[t].pc = "mark" /\ Live(t) /\ ~keep_running'
        /\ UNCHANGED <<pc, hw, hw_fault>>
    BY <1>28 DEF mark_stopped_from_worker, mainVars, Live, Goto
  <2>2. Up /\ Up'
    BY <2>1 DEF IInv, ThreadInv, NoWorkerPcs, Up
  <2>3. \A u \in Threads : u # t => worker[u].pc = "none"
    BY <2>1 DEF IInv, ThreadInv
  <2>4. \A u \in Threads : ~Live(u)'
    BY <1>28, <2>3, WorkersHere DEF mark_stopped_from_worker, Goto, Live
  <2>5. Stage \in {"active", "ending"} /\ Stage' = "quiet"
    BY <2>1, <2>2, <2>4 DEF Stage
  <2>6. \A u \in Threads, c \in Channels : ~Lights(u, c)
    BY <2>1, <2>3, NoLight
  <2>7. Sounding = FALSE
    BY <2>2, <2>6 DEF Sounding, IInv, OnlyThePatternsColour
  <2>8. PatternPlayed' = INVALID /\ UNCHANGED Sounding
    BY <2>1 DEF PatternPlayed, Sounding, Lit
  <2>9. R!Settle
    BY <2>5, <2>7, <2>8 DEF R!Settle
  <2> QED BY <2>9 DEF R!Next
<1>29. ASSUME NEW t \in Threads, Elapse(t)
      PROVE  [R!Next]_(R!vars)
  <2>1. UNCHANGED <<pc, keep_running, current_pattern, hw, hw_fault>>
    BY <1>29 DEF Elapse, mainVars
  <2>2. \A u \in Threads : Live(u)' <=> Live(u)
    BY <1>29, WorkersHere DEF Elapse, Live
  <2> QED BY <2>1, <2>2, Stutters DEF Up
<1>30. CASE UNCHANGED vars
  BY <1>30, Stutters DEF vars, Up, Live
<1> QED BY <1>1, <1>2, <1>3, <1>4, <1>5, <1>6, <1>7, <1>8, <1>9, <1>10, <1>11,
       <1>12, <1>13, <1>14, <1>15, <1>16, <1>17, <1>18, <1>19, <1>20, <1>21, <1>22,
       <1>23, <1>24, <1>25, <1>26, <1>27, <1>28, <1>29, <1>30
       DEF Next, MainStep, WorkerStep
-----------------------------------------------------------------------------
\* The service implements the abstract Reaction, but for what Reaction says of
\* liveness: one pattern at a time, begun in the dark, lit only while it is
\* played or wound down.
THEOREM Implements == Safety => R!Safety
<1>1. Init => StageInv
  BY DEF Init, StageInv
<1>2. Init => R!Init
  <2> SUFFICES ASSUME Init PROVE R!Init
    OBVIOUS
  <2>1. ~Up
    BY DEF Init, Up
  <2>2. Stage = "down" /\ PatternPlayed = INVALID
    BY <2>1 DEF Stage, PatternPlayed
  <2>3. Sounding \in BOOLEAN
    BY DEF Sounding
  <2> QED BY <2>2, <2>3 DEF R!Init
<1>3. IInv /\ IInv' /\ StageInv /\ [Next]_vars => StageInv'
  BY StageStep
<1>4. IInv /\ IInv' /\ StageInv /\ StageInv' /\ [Next]_vars => [R!Next]_(R!vars)
  BY StepImplements
<1> QED BY Inductive, <1>1, <1>2, <1>3, <1>4, PTL DEF Safety, R!Safety
=============================================================================
