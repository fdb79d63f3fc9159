------------------------ MODULE SirenServiceProofs ------------------------
(***************************************************************************)
(* Machine-checked proofs that the invariants of SirenService hold for any *)
(* set of threads, any word size and any requests.                         *)
(*                                                                         *)
(* The inductive invariant has five parts, each proved from the ones       *)
(* before it: the types; what the uloop thread is doing for which request; *)
(* where a worker can exist; the output; and how the shared state and the  *)
(* worker agree.  The last section proves that the service implements      *)
(* Reaction.                                                               *)
(***************************************************************************)
EXTENDS SirenService, TLAPS

\* The stop is part of an alarm, a cancel or a shutdown; the rest of a start
\* belongs to an alarm with a known pattern.
RequestInv ==
  /\ pc \in {"stop", "join", "stop_clear", "stop_off"} =>
       request.method \in {"alarm", "cancel_alarm", "return_0", "return_1"}
  /\ pc \in {"start", "create", "rollback", "rollback_off"} =>
       request.method = "alarm"
  /\ pc \in {"stop", "join", "stop_clear", "stop_off", "start", "create"}
       /\ request.method = "alarm" =>
       /\ request.siren_id \in SirenIds
       /\ request.duration \in Durations \cup {Absent}
       /\ ToInt(request.siren_id) \in 1 .. 5

\* The places of the uloop thread at which no worker exists: before the
\* controller is up, and between the join and the creation of the next worker.
NoWorkerPcs ==
  {"failed", "exited", "init", "connect", "add_object", "stop_clear", "stop_off",
   "start", "create", "rollback", "rollback_off", "deinit_off"}

ThreadInv ==
  /\ NoOrphanThread
  /\ pc \in NoWorkerPcs => \A t \in Threads : worker_pc[t] = "none"
  /\ pc = "create" => thread_active

\* The shared state describes the worker: while one is live and nobody stops
\* it, keep_running is set; a worker that is about to leave its loop has
\* expired, or is being stopped.
AgreeInv ==
  /\ pc = "create" =>
       /\ keep_running
       /\ current_pattern = ToInt(request.siren_id)
       /\ current_duration_sec = ControllerDuration(request.duration)
  /\ StatusMatchesWorker
  /\ \A t \in Threads : worker_pc[t] = "begin" => worker_arg[t].pattern_id \in 1 .. 5
  /\ \A t \in Threads : Live(t) /\ pc # "join" => keep_running
  /\ CutShortOnlyByStop

-----------------------------------------------------------------------------
\* What the controller stores of a duration is an integer.
LEMMA DurationType ==
  ASSUME NEW d \in Durations \cup {Absent}
  PROVE  ControllerDuration(d) \in Int
<1>1. CASE d = Absent
  BY <1>1 DEF ControllerDuration, INFINITE
<1>2. CASE d \in Durations
  BY <1>2, InputAssumption, WordAssumption DEF ControllerDuration, ToInt, INFINITE
<1> QED BY <1>1, <1>2

\* A request that passes the checks of the alarm handler names a pattern.
LEMMA AcceptedIsPattern ==
  ASSUME NEW r \in Requests, r.method = "alarm", Accepted(r)
  PROVE  /\ r.siren_id \in SirenIds
         /\ r.duration \in Durations \cup {Absent}
         /\ ToInt(r.siren_id) \in 1 .. 5
BY DEF Requests, Accepted, is_valid_id, pattern_table
-----------------------------------------------------------------------------
\* Every step keeps the types.
LEMMA TypeStep ==
  ASSUME TypeOK, RequestInv, [Next]_vars
  PROVE  TypeOK'
<1> USE DEF TypeOK, shared, workers, output, MainPcs, WorkerPcs
<1>1. CASE Start
  BY <1>1 DEF Start
<1>2. CASE Crash
  <2>1. request' = NoRequest
    BY <1>2 DEF Crash, FreshProcess
  <2>2. reply' \in [result : {"none", "ok", "error"}, running : BOOLEAN,
                     siren_id : 0 .. 5, pattern : 0 .. 5, duration : Int]
    BY <1>2 DEF Crash, FreshProcess, NoReply, INVALID
  <2>3. terminated' \in BOOLEAN
    BY <1>2 DEF Crash, FreshProcess
  <2>4. thread_active' \in BOOLEAN /\ keep_running' \in BOOLEAN
    BY <1>2 DEF Crash, FreshProcess
  <2>5. current_pattern' \in 0 .. 5 /\ current_duration_sec' \in Int
    BY <1>2 DEF Crash, FreshProcess, INVALID
  <2>6. pattern_thread' \in Threads \cup {NoThread}
    BY <1>2 DEF Crash, FreshProcess
  <2>7. worker_pc' \in [Threads -> WorkerPcs]
    BY <1>2 DEF Crash, FreshProcess
  <2>8. worker_arg' \in [Threads -> [pattern_id : 0 .. 5, duration_sec : Int]]
    BY <1>2 DEF Crash, FreshProcess, NoArg, INVALID
  <2>9. deadline' \in [Threads -> {"infinite", "running", "expired"}]
    BY <1>2 DEF Crash, FreshProcess
  <2>10. i' \in [Threads -> Nat]
    BY <1>2 DEF Crash, FreshProcess
  <2>11. pc' \in MainPcs
    BY <1>2 DEF Crash, FreshProcess
  <2>12. crashes' \in Nat
    BY <1>2 DEF Crash, FreshProcess
  <2>13. UNCHANGED <<hw, hw_fault>>
    BY <1>2 DEF Crash, FreshProcess
  <2> QED BY <2>1, <2>2, <2>3, <2>4, <2>5, <2>6, <2>7, <2>8, <2>9, <2>10, <2>11, <2>12, <2>13
<1>3. CASE handle_signal
  BY <1>3 DEF handle_signal
<1>4. ASSUME NEW r \in Requests, Receive(r)
       PROVE  TypeOK'
  BY <1>4 DEF Receive
<1>5. CASE siren_controller_init
  BY <1>5 DEF siren_controller_init, siren_hw_off, write_sysfs
<1>6. CASE Connect
  BY <1>6 DEF Connect
<1>7. CASE LeaveLoop
  BY <1>7 DEF LeaveLoop
<1>8. CASE siren_controller_deinit
  <2>1. request' = NoRequest
    BY <1>8 DEF siren_controller_deinit, siren_hw_off, write_sysfs, FreshProcess
  <2>2. reply' \in [result : {"none", "ok", "error"}, running : BOOLEAN,
                     siren_id : 0 .. 5, pattern : 0 .. 5, duration : Int]
    BY <1>8 DEF siren_controller_deinit, siren_hw_off, write_sysfs, FreshProcess, NoReply, INVALID
  <2>3. terminated' \in BOOLEAN
    BY <1>8 DEF siren_controller_deinit, siren_hw_off, write_sysfs, FreshProcess
  <2>4. thread_active' \in BOOLEAN /\ keep_running' \in BOOLEAN
    BY <1>8 DEF siren_controller_deinit, siren_hw_off, write_sysfs, FreshProcess
  <2>5. current_pattern' \in 0 .. 5 /\ current_duration_sec' \in Int
    BY <1>8 DEF siren_controller_deinit, siren_hw_off, write_sysfs, FreshProcess, INVALID
  <2>6. pattern_thread' \in Threads \cup {NoThread}
    BY <1>8 DEF siren_controller_deinit, siren_hw_off, write_sysfs, FreshProcess
  <2>7. worker_pc' \in [Threads -> WorkerPcs]
    BY <1>8 DEF siren_controller_deinit, siren_hw_off, write_sysfs, FreshProcess
  <2>8. worker_arg' \in [Threads -> [pattern_id : 0 .. 5, duration_sec : Int]]
    BY <1>8 DEF siren_controller_deinit, siren_hw_off, write_sysfs, FreshProcess, NoArg, INVALID
  <2>9. deadline' \in [Threads -> {"infinite", "running", "expired"}]
    BY <1>8 DEF siren_controller_deinit, siren_hw_off, write_sysfs, FreshProcess
  <2>10. i' \in [Threads -> Nat]
    BY <1>8 DEF siren_controller_deinit, siren_hw_off, write_sysfs, FreshProcess
  <2>11. pc' \in MainPcs
    BY <1>8 DEF siren_controller_deinit, siren_hw_off, write_sysfs, FreshProcess
  <2>12. hw' \in {"on", "off"} /\ hw_fault' \in BOOLEAN
    BY <1>8 DEF siren_controller_deinit, siren_hw_off, write_sysfs, FreshProcess
  <2>13. UNCHANGED <<crashes>>
    BY <1>8 DEF siren_controller_deinit, siren_hw_off, write_sysfs, FreshProcess
  <2> QED BY <2>1, <2>2, <2>3, <2>4, <2>5, <2>6, <2>7, <2>8, <2>9, <2>10, <2>11, <2>12, <2>13
<1>9. CASE ReadState
  BY <1>9 DEF ReadState
<1>10. CASE ReadId
  BY <1>10 DEF ReadId
<1>11. CASE ReadPatternName
  BY <1>11 DEF ReadPatternName
<1>12. CASE ReadDuration
  BY <1>12 DEF ReadDuration
<1>13. CASE SendReply
  BY <1>13 DEF SendReply, NoReply, INVALID
<1>14. CASE StopRequest
  BY <1>14 DEF StopRequest
<1>15. CASE StopJoin
  BY <1>15 DEF StopJoin, NoArg, INVALID
<1>16. CASE StopClear
  <2>1. pc' \in MainPcs
    BY <1>16 DEF StopClear
  <2>2. thread_active' \in BOOLEAN /\ keep_running' \in BOOLEAN
    BY <1>16 DEF StopClear
  <2>3. current_pattern' \in 0 .. 5 /\ current_duration_sec' \in Int
    BY <1>16 DEF StopClear, INVALID
  <2>4. UNCHANGED <<request, reply, terminated, pattern_thread, worker_pc,
                   worker_arg, deadline, i, hw, hw_fault, crashes>>
    BY <1>16 DEF StopClear
  <2> QED BY <2>1, <2>2, <2>3, <2>4
<1>17. CASE StopOff
  BY <1>17 DEF StopOff, siren_hw_off, write_sysfs
<1>18. CASE OutOfMemory
  BY <1>18 DEF OutOfMemory
<1>19. CASE Arm
  BY <1>19, DurationType DEF Arm, RequestInv
<1>20. CASE CreateFails
  BY <1>20 DEF CreateFails
<1>21. CASE Rollback
  <2>1. pc' \in MainPcs
    BY <1>21 DEF Rollback
  <2>2. thread_active' \in BOOLEAN /\ keep_running' \in BOOLEAN
    BY <1>21 DEF Rollback
  <2>3. current_pattern' \in 0 .. 5 /\ current_duration_sec' \in Int
    BY <1>21 DEF Rollback, INVALID
  <2>4. UNCHANGED <<request, reply, terminated, pattern_thread, worker_pc,
                   worker_arg, deadline, i, hw, hw_fault, crashes>>
    BY <1>21 DEF Rollback
  <2> QED BY <2>1, <2>2, <2>3, <2>4
<1>22. CASE RollbackOff
  BY <1>22 DEF RollbackOff, siren_hw_off, write_sysfs
<1>23. ASSUME NEW t \in Threads, CreateWorker(t)
       PROVE  TypeOK'
  BY <1>23, DurationType DEF CreateWorker, RequestInv
<1>24. ASSUME NEW t \in Threads, WorkerBegin(t)
       PROVE  TypeOK'
  BY <1>24 DEF WorkerBegin, Goto, mainVars
<1>25. ASSUME NEW t \in Threads, WorkerOn(t)
       PROVE  TypeOK'
  <2>1. worker_pc' \in [Threads -> WorkerPcs]
    BY <1>25 DEF WorkerOn, siren_hw_on, write_sysfs, Goto, mainVars
  <2>2. hw' \in {"on", "off"} /\ hw_fault' \in BOOLEAN
    BY <1>25 DEF WorkerOn, siren_hw_on, write_sysfs, Goto, mainVars
  <2>3. UNCHANGED <<pc, request, reply, terminated, thread_active,
                   keep_running, current_pattern, current_duration_sec,
                   pattern_thread, worker_arg, deadline, i, crashes>>
    BY <1>25 DEF WorkerOn, siren_hw_on, write_sysfs, Goto, mainVars
  <2> QED BY <2>1, <2>2, <2>3
<1>26. ASSUME NEW t \in Threads, SteadyEnds(t)
       PROVE  TypeOK'
  BY <1>26 DEF SteadyEnds, Goto, mainVars
<1>27. ASSUME NEW t \in Threads, LoopTest(t)
       PROVE  TypeOK'
  BY <1>27 DEF LoopTest, Goto, mainVars
<1>28. ASSUME NEW t \in Threads, StepTest(t)
       PROVE  TypeOK'
  BY <1>28 DEF StepTest, Goto, mainVars
<1>29. ASSUME NEW t \in Threads, SleepEnds(t)
       PROVE  TypeOK'
  BY <1>29 DEF SleepEnds, Goto, mainVars
<1>30. ASSUME NEW t \in Threads, WorkerOff(t)
       PROVE  TypeOK'
  <2>1. worker_pc' \in [Threads -> WorkerPcs]
    BY <1>30 DEF WorkerOff, siren_hw_off, write_sysfs, Goto, mainVars
  <2>2. hw' \in {"on", "off"} /\ hw_fault' \in BOOLEAN
    BY <1>30 DEF WorkerOff, siren_hw_off, write_sysfs, Goto, mainVars
  <2>3. UNCHANGED <<pc, request, reply, terminated, thread_active,
                   keep_running, current_pattern, current_duration_sec,
                   pattern_thread, worker_arg, deadline, i, crashes>>
    BY <1>30 DEF WorkerOff, siren_hw_off, write_sysfs, Goto, mainVars
  <2> QED BY <2>1, <2>2, <2>3
<1>31. ASSUME NEW t \in Threads, mark_stopped_from_worker(t)
       PROVE  TypeOK'
  <2>1. worker_pc' \in [Threads -> WorkerPcs]
    BY <1>31 DEF mark_stopped_from_worker, Goto, mainVars
  <2>2. keep_running' \in BOOLEAN
    BY <1>31 DEF mark_stopped_from_worker, Goto, mainVars
  <2>3. current_pattern' \in 0 .. 5 /\ current_duration_sec' \in Int
    BY <1>31 DEF mark_stopped_from_worker, Goto, mainVars, INVALID
  <2>4. UNCHANGED <<pc, request, reply, terminated, thread_active,
                   pattern_thread, worker_arg, deadline, i, hw, hw_fault,
                   crashes>>
    BY <1>31 DEF mark_stopped_from_worker, Goto, mainVars
  <2> QED BY <2>1, <2>2, <2>3, <2>4
<1>32. ASSUME NEW t \in Threads, Elapse(t)
       PROVE  TypeOK'
  BY <1>32 DEF Elapse, mainVars
<1>33. CASE UNCHANGED vars
  BY <1>33 DEF vars
<1> QED BY <1>1, <1>2, <1>3, <1>4, <1>5, <1>6, <1>7, <1>8, <1>9, <1>10, <1>11,
       <1>12, <1>13, <1>14, <1>15, <1>16, <1>17, <1>18, <1>19, <1>20, <1>21,
       <1>22, <1>23, <1>24, <1>25, <1>26, <1>27, <1>28, <1>29, <1>30, <1>31,
       <1>32, <1>33 DEF Next, MainStep, WorkerStep

\* Every step keeps what the uloop thread knows of its request.
LEMMA RequestStep ==
  ASSUME TypeOK, RequestInv, [Next]_vars
  PROVE  RequestInv'
<1> USE DEF TypeOK, RequestInv, NoRequest, Exit, Requests
<1>1. CASE Start
  BY <1>1 DEF Start
<1>2. CASE Crash
  BY <1>2 DEF Crash, FreshProcess
<1>3. CASE handle_signal
  BY <1>3 DEF handle_signal
<1>4. ASSUME NEW r \in Requests, Receive(r)
       PROVE  RequestInv'
  BY <1>4, AcceptedIsPattern DEF Receive
<1>5. CASE siren_controller_init
  BY <1>5 DEF siren_controller_init, siren_hw_off, write_sysfs
<1>6. CASE Connect
  BY <1>6 DEF Connect
<1>7. CASE LeaveLoop
  BY <1>7 DEF LeaveLoop
<1>8. CASE siren_controller_deinit
  BY <1>8 DEF siren_controller_deinit, siren_hw_off, write_sysfs, FreshProcess
<1>9. CASE ReadState
  BY <1>9 DEF ReadState
<1>10. CASE ReadId
  BY <1>10 DEF ReadId
<1>11. CASE ReadPatternName
  BY <1>11 DEF ReadPatternName
<1>12. CASE ReadDuration
  BY <1>12 DEF ReadDuration
<1>13. CASE SendReply
  BY <1>13 DEF SendReply
<1>14. CASE StopRequest
  BY <1>14 DEF StopRequest
<1>15. CASE StopJoin
  BY <1>15 DEF StopJoin
<1>16. CASE StopClear
  BY <1>16 DEF StopClear
<1>17. CASE StopOff
  BY <1>17 DEF StopOff, siren_hw_off, write_sysfs
<1>18. CASE OutOfMemory
  BY <1>18 DEF OutOfMemory
<1>19. CASE Arm
  BY <1>19 DEF Arm
<1>20. CASE CreateFails
  BY <1>20 DEF CreateFails
<1>21. CASE Rollback
  BY <1>21 DEF Rollback
<1>22. CASE RollbackOff
  BY <1>22 DEF RollbackOff, siren_hw_off, write_sysfs
<1>23. ASSUME NEW t \in Threads, CreateWorker(t)
       PROVE  RequestInv'
  BY <1>23 DEF CreateWorker
<1>24. ASSUME NEW t \in Threads, WorkerBegin(t)
       PROVE  RequestInv'
  BY <1>24 DEF WorkerBegin, Goto, mainVars
<1>25. ASSUME NEW t \in Threads, WorkerOn(t)
       PROVE  RequestInv'
  BY <1>25 DEF WorkerOn, siren_hw_on, write_sysfs, Goto, mainVars
<1>26. ASSUME NEW t \in Threads, SteadyEnds(t)
       PROVE  RequestInv'
  BY <1>26 DEF SteadyEnds, Goto, mainVars
<1>27. ASSUME NEW t \in Threads, LoopTest(t)
       PROVE  RequestInv'
  BY <1>27 DEF LoopTest, Goto, mainVars
<1>28. ASSUME NEW t \in Threads, StepTest(t)
       PROVE  RequestInv'
  BY <1>28 DEF StepTest, Goto, mainVars
<1>29. ASSUME NEW t \in Threads, SleepEnds(t)
       PROVE  RequestInv'
  BY <1>29 DEF SleepEnds, Goto, mainVars
<1>30. ASSUME NEW t \in Threads, WorkerOff(t)
       PROVE  RequestInv'
  BY <1>30 DEF WorkerOff, siren_hw_off, write_sysfs, Goto, mainVars
<1>31. ASSUME NEW t \in Threads, mark_stopped_from_worker(t)
       PROVE  RequestInv'
  BY <1>31 DEF mark_stopped_from_worker, Goto, mainVars
<1>32. ASSUME NEW t \in Threads, Elapse(t)
       PROVE  RequestInv'
  BY <1>32 DEF Elapse, mainVars
<1>33. CASE UNCHANGED vars
  BY <1>33 DEF vars
<1> QED BY <1>1, <1>2, <1>3, <1>4, <1>5, <1>6, <1>7, <1>8, <1>9, <1>10, <1>11,
       <1>12, <1>13, <1>14, <1>15, <1>16, <1>17, <1>18, <1>19, <1>20, <1>21,
       <1>22, <1>23, <1>24, <1>25, <1>26, <1>27, <1>28, <1>29, <1>30, <1>31,
       <1>32, <1>33 DEF Next, MainStep, WorkerStep

\* Every step keeps the worker where pattern_thread says, and away from the
\* places where none may be: the join comes between any two workers.
LEMMA ThreadStep ==
  ASSUME TypeOK, RequestInv, ThreadInv, [Next]_vars
  PROVE  ThreadInv'
<1> USE DEF TypeOK, ThreadInv, NoOrphanThread, NoWorkerPcs, shared, workers
<1>1. CASE Start
  BY <1>1 DEF Start
<1>2. CASE Crash
  BY <1>2 DEF Crash, FreshProcess
<1>3. CASE handle_signal
  BY <1>3 DEF handle_signal
<1>4. ASSUME NEW r \in Requests, Receive(r)
       PROVE  ThreadInv'
  BY <1>4 DEF Receive
<1>5. CASE siren_controller_init
  BY <1>5 DEF siren_controller_init, siren_hw_off, write_sysfs
<1>6. CASE Connect
  BY <1>6 DEF Connect
<1>7. CASE LeaveLoop
  BY <1>7 DEF LeaveLoop
<1>8. CASE siren_controller_deinit
  BY <1>8 DEF siren_controller_deinit, siren_hw_off, write_sysfs, FreshProcess
<1>9. CASE ReadState
  BY <1>9 DEF ReadState
<1>10. CASE ReadId
  BY <1>10 DEF ReadId
<1>11. CASE ReadPatternName
  BY <1>11 DEF ReadPatternName
<1>12. CASE ReadDuration
  BY <1>12 DEF ReadDuration
<1>13. CASE SendReply
  BY <1>13 DEF SendReply
<1>14. CASE StopRequest
  BY <1>14 DEF StopRequest
<1>15. CASE StopJoin
  BY <1>15 DEF StopJoin
<1>16. CASE StopClear
  BY <1>16 DEF StopClear
<1>17. CASE StopOff
  BY <1>17 DEF StopOff, siren_hw_off, write_sysfs
<1>18. CASE OutOfMemory
  BY <1>18 DEF OutOfMemory
<1>19. CASE Arm
  BY <1>19 DEF Arm
<1>20. CASE CreateFails
  BY <1>20 DEF CreateFails
<1>21. CASE Rollback
  BY <1>21 DEF Rollback
<1>22. CASE RollbackOff
  BY <1>22 DEF RollbackOff, siren_hw_off, write_sysfs
<1>23. ASSUME NEW t \in Threads, CreateWorker(t)
       PROVE  ThreadInv'
  BY <1>23 DEF CreateWorker
<1>24. ASSUME NEW t \in Threads, WorkerBegin(t)
       PROVE  ThreadInv'
  BY <1>24 DEF WorkerBegin, Goto, mainVars
<1>25. ASSUME NEW t \in Threads, WorkerOn(t)
       PROVE  ThreadInv'
  BY <1>25 DEF WorkerOn, siren_hw_on, write_sysfs, Goto, mainVars
<1>26. ASSUME NEW t \in Threads, SteadyEnds(t)
       PROVE  ThreadInv'
  BY <1>26 DEF SteadyEnds, Goto, mainVars
<1>27. ASSUME NEW t \in Threads, LoopTest(t)
       PROVE  ThreadInv'
  BY <1>27 DEF LoopTest, Goto, mainVars
<1>28. ASSUME NEW t \in Threads, StepTest(t)
       PROVE  ThreadInv'
  BY <1>28 DEF StepTest, Goto, mainVars
<1>29. ASSUME NEW t \in Threads, SleepEnds(t)
       PROVE  ThreadInv'
  BY <1>29 DEF SleepEnds, Goto, mainVars
<1>30. ASSUME NEW t \in Threads, WorkerOff(t)
       PROVE  ThreadInv'
  BY <1>30 DEF WorkerOff, siren_hw_off, write_sysfs, Goto, mainVars
<1>31. ASSUME NEW t \in Threads, mark_stopped_from_worker(t)
       PROVE  ThreadInv'
  BY <1>31 DEF mark_stopped_from_worker, Goto, mainVars
<1>32. ASSUME NEW t \in Threads, Elapse(t)
       PROVE  ThreadInv'
  BY <1>32 DEF Elapse, mainVars
<1>33. CASE UNCHANGED vars
  BY <1>33 DEF vars
<1> QED BY <1>1, <1>2, <1>3, <1>4, <1>5, <1>6, <1>7, <1>8, <1>9, <1>10, <1>11,
       <1>12, <1>13, <1>14, <1>15, <1>16, <1>17, <1>18, <1>19, <1>20, <1>21,
       <1>22, <1>23, <1>24, <1>25, <1>26, <1>27, <1>28, <1>29, <1>30, <1>31,
       <1>32, <1>33 DEF Next, MainStep, WorkerStep

\* Every step keeps the output under the control of a worker.
LEMMA OutputStep ==
  ASSUME TypeOK, SoundsOnlyUnderWorker, [Next]_vars
  PROVE  SoundsOnlyUnderWorker'
<1> USE DEF TypeOK, SoundsOnlyUnderWorker, Up, SoundingPcs, workers, output
<1>1. CASE Start
  BY <1>1 DEF Start
<1>2. CASE Crash
  BY <1>2 DEF Crash, FreshProcess
<1>3. CASE handle_signal
  BY <1>3 DEF handle_signal
<1>4. ASSUME NEW r \in Requests, Receive(r)
       PROVE  SoundsOnlyUnderWorker'
  BY <1>4 DEF Receive
<1>5. CASE siren_controller_init
  BY <1>5 DEF siren_controller_init, siren_hw_off, write_sysfs
<1>6. CASE Connect
  BY <1>6 DEF Connect
<1>7. CASE LeaveLoop
  BY <1>7 DEF LeaveLoop
<1>8. CASE siren_controller_deinit
  BY <1>8 DEF siren_controller_deinit, siren_hw_off, write_sysfs, FreshProcess
<1>9. CASE ReadState
  BY <1>9 DEF ReadState
<1>10. CASE ReadId
  BY <1>10 DEF ReadId
<1>11. CASE ReadPatternName
  BY <1>11 DEF ReadPatternName
<1>12. CASE ReadDuration
  BY <1>12 DEF ReadDuration
<1>13. CASE SendReply
  BY <1>13 DEF SendReply
<1>14. CASE StopRequest
  BY <1>14 DEF StopRequest
<1>15. CASE StopJoin
  BY <1>15 DEF StopJoin
<1>16. CASE StopClear
  BY <1>16 DEF StopClear
<1>17. CASE StopOff
  BY <1>17 DEF StopOff, siren_hw_off, write_sysfs
<1>18. CASE OutOfMemory
  BY <1>18 DEF OutOfMemory
<1>19. CASE Arm
  BY <1>19 DEF Arm
<1>20. CASE CreateFails
  BY <1>20 DEF CreateFails
<1>21. CASE Rollback
  BY <1>21 DEF Rollback
<1>22. CASE RollbackOff
  BY <1>22 DEF RollbackOff, siren_hw_off, write_sysfs
<1>23. ASSUME NEW t \in Threads, CreateWorker(t)
       PROVE  SoundsOnlyUnderWorker'
  BY <1>23 DEF CreateWorker
<1>24. ASSUME NEW t \in Threads, WorkerBegin(t)
       PROVE  SoundsOnlyUnderWorker'
  BY <1>24 DEF WorkerBegin, Goto, mainVars
<1>25. ASSUME NEW t \in Threads, WorkerOn(t)
       PROVE  SoundsOnlyUnderWorker'
  BY <1>25 DEF WorkerOn, siren_hw_on, write_sysfs, Goto, mainVars
<1>26. ASSUME NEW t \in Threads, SteadyEnds(t)
       PROVE  SoundsOnlyUnderWorker'
  BY <1>26 DEF SteadyEnds, Goto, mainVars
<1>27. ASSUME NEW t \in Threads, LoopTest(t)
       PROVE  SoundsOnlyUnderWorker'
  BY <1>27 DEF LoopTest, Goto, mainVars
<1>28. ASSUME NEW t \in Threads, StepTest(t)
       PROVE  SoundsOnlyUnderWorker'
  BY <1>28 DEF StepTest, Goto, mainVars
<1>29. ASSUME NEW t \in Threads, SleepEnds(t)
       PROVE  SoundsOnlyUnderWorker'
  BY <1>29 DEF SleepEnds, Goto, mainVars
<1>30. ASSUME NEW t \in Threads, WorkerOff(t)
       PROVE  SoundsOnlyUnderWorker'
  BY <1>30 DEF WorkerOff, siren_hw_off, write_sysfs, Goto, mainVars
<1>31. ASSUME NEW t \in Threads, mark_stopped_from_worker(t)
       PROVE  SoundsOnlyUnderWorker'
  BY <1>31 DEF mark_stopped_from_worker, Goto, mainVars
<1>32. ASSUME NEW t \in Threads, Elapse(t)
       PROVE  SoundsOnlyUnderWorker'
  BY <1>32 DEF Elapse, mainVars
<1>33. CASE UNCHANGED vars
  BY <1>33 DEF vars
<1> QED BY <1>1, <1>2, <1>3, <1>4, <1>5, <1>6, <1>7, <1>8, <1>9, <1>10, <1>11,
       <1>12, <1>13, <1>14, <1>15, <1>16, <1>17, <1>18, <1>19, <1>20, <1>21,
       <1>22, <1>23, <1>24, <1>25, <1>26, <1>27, <1>28, <1>29, <1>30, <1>31,
       <1>32, <1>33 DEF Next, MainStep, WorkerStep

\* Every step keeps the shared state and the worker in agreement.
LEMMA AgreeStep ==
  ASSUME TypeOK, TypeOK', RequestInv, ThreadInv, AgreeInv, [Next]_vars
  PROVE  AgreeInv'
<1> USE DEF TypeOK, RequestInv, ThreadInv, NoOrphanThread, NoWorkerPcs, AgreeInv, StatusMatchesWorker,
          CutShortOnlyByStop, Live, shared, workers
<1>1. CASE Start
  BY <1>1 DEF Start
<1>2. CASE Crash
  BY <1>2 DEF Crash, FreshProcess
<1>3. CASE handle_signal
  BY <1>3 DEF handle_signal
<1>4. ASSUME NEW r \in Requests, Receive(r)
       PROVE  AgreeInv'
  BY <1>4 DEF Receive
<1>5. CASE siren_controller_init
  BY <1>5 DEF siren_controller_init, siren_hw_off, write_sysfs
<1>6. CASE Connect
  BY <1>6 DEF Connect
<1>7. CASE LeaveLoop
  BY <1>7 DEF LeaveLoop
<1>8. CASE siren_controller_deinit
  BY <1>8 DEF siren_controller_deinit, siren_hw_off, write_sysfs, FreshProcess
<1>9. CASE ReadState
  BY <1>9 DEF ReadState
<1>10. CASE ReadId
  BY <1>10 DEF ReadId
<1>11. CASE ReadPatternName
  BY <1>11 DEF ReadPatternName
<1>12. CASE ReadDuration
  BY <1>12 DEF ReadDuration
<1>13. CASE SendReply
  BY <1>13 DEF SendReply
<1>14. CASE StopRequest
  BY <1>14 DEF StopRequest
<1>15. CASE StopJoin
  BY <1>15 DEF StopJoin
<1>16. CASE StopClear
  BY <1>16 DEF StopClear
<1>17. CASE StopOff
  BY <1>17 DEF StopOff, siren_hw_off, write_sysfs
<1>18. CASE OutOfMemory
  BY <1>18 DEF OutOfMemory
<1>19. CASE Arm
  BY <1>19 DEF Arm
<1>20. CASE CreateFails
  BY <1>20 DEF CreateFails
<1>21. CASE Rollback
  BY <1>21 DEF Rollback
<1>22. CASE RollbackOff
  BY <1>22 DEF RollbackOff, siren_hw_off, write_sysfs
<1>23. ASSUME NEW t \in Threads, CreateWorker(t)
       PROVE  AgreeInv'
  BY <1>23 DEF CreateWorker
<1>24. ASSUME NEW t \in Threads, WorkerBegin(t)
       PROVE  AgreeInv'
  BY <1>24 DEF WorkerBegin, Goto, mainVars, is_valid_id, pattern_table
<1>25. ASSUME NEW t \in Threads, WorkerOn(t)
       PROVE  AgreeInv'
  BY <1>25 DEF WorkerOn, siren_hw_on, write_sysfs, Goto, mainVars
<1>26. ASSUME NEW t \in Threads, SteadyEnds(t)
       PROVE  AgreeInv'
  BY <1>26 DEF SteadyEnds, Goto, mainVars, should_continue
<1>27. ASSUME NEW t \in Threads, LoopTest(t)
       PROVE  AgreeInv'
  BY <1>27 DEF LoopTest, Goto, mainVars, should_continue
<1>28. ASSUME NEW t \in Threads, StepTest(t)
       PROVE  AgreeInv'
  BY <1>28 DEF StepTest, Goto, mainVars
<1>29. ASSUME NEW t \in Threads, SleepEnds(t)
       PROVE  AgreeInv'
  BY <1>29 DEF SleepEnds, Goto, mainVars
<1>30. ASSUME NEW t \in Threads, WorkerOff(t)
       PROVE  AgreeInv'
  BY <1>30 DEF WorkerOff, siren_hw_off, write_sysfs, Goto, mainVars
<1>31. ASSUME NEW t \in Threads, mark_stopped_from_worker(t)
       PROVE  AgreeInv'
  BY <1>31 DEF mark_stopped_from_worker, Goto, mainVars
<1>32. ASSUME NEW t \in Threads, Elapse(t)
       PROVE  AgreeInv'
  BY <1>32 DEF Elapse, mainVars
<1>33. CASE UNCHANGED vars
  BY <1>33 DEF vars
<1> QED BY <1>1, <1>2, <1>3, <1>4, <1>5, <1>6, <1>7, <1>8, <1>9, <1>10, <1>11,
       <1>12, <1>13, <1>14, <1>15, <1>16, <1>17, <1>18, <1>19, <1>20, <1>21,
       <1>22, <1>23, <1>24, <1>25, <1>26, <1>27, <1>28, <1>29, <1>30, <1>31,
       <1>32, <1>33 DEF Next, MainStep, WorkerStep
-----------------------------------------------------------------------------
IInv ==
  TypeOK /\ RequestInv /\ ThreadInv /\ SoundsOnlyUnderWorker /\ AgreeInv

LEMMA InitIInv == Init => IInv
<1> SUFFICES ASSUME Init PROVE IInv
  OBVIOUS
<1> USE DEF Init, NoRequest
<1>1. TypeOK
  <2>1. pc \in MainPcs
    BY DEF MainPcs
  <2>2. reply \in [result : {"none", "ok", "error"}, running : BOOLEAN,
                   siren_id : 0 .. 5, pattern : 0 .. 5, duration : Int]
    BY DEF NoReply, INVALID
  <2>3. /\ terminated \in BOOLEAN /\ thread_active \in BOOLEAN
        /\ keep_running \in BOOLEAN /\ hw_fault \in BOOLEAN
    OBVIOUS
  <2>4. /\ current_pattern \in 0 .. 5 /\ current_duration_sec \in Int
        /\ pattern_thread \in Threads \cup {NoThread}
        /\ hw \in {"on", "off"} /\ crashes \in Nat
    BY DEF INVALID
  <2>5. /\ worker_pc \in [Threads -> WorkerPcs]
        /\ worker_arg \in [Threads -> [pattern_id : 0 .. 5, duration_sec : Int]]
        /\ deadline \in [Threads -> {"infinite", "running", "expired"}]
        /\ i \in [Threads -> Nat]
    BY DEF WorkerPcs, NoArg, INVALID
  <2> QED BY <2>1, <2>2, <2>3, <2>4, <2>5 DEF TypeOK
<1>2. RequestInv
  BY DEF RequestInv
<1>3. ThreadInv
  BY DEF ThreadInv, NoOrphanThread
<1>4. SoundsOnlyUnderWorker
  BY DEF SoundsOnlyUnderWorker, Up
<1>5. AgreeInv
  BY DEF AgreeInv, StatusMatchesWorker, CutShortOnlyByStop, Live
<1> QED BY <1>1, <1>2, <1>3, <1>4, <1>5 DEF IInv

\* The invariant is inductive.
THEOREM Inductive == Safety => []IInv
<1>1. IInv /\ [Next]_vars => IInv'
  BY TypeStep, RequestStep, ThreadStep, OutputStep, AgreeStep DEF IInv
<1> QED BY InitIInv, <1>1, PTL DEF Safety

\* Every variable keeps its type, the ids and durations that arrive as words
\* and are stored as ints included.
THEOREM TypeCorrect == Safety => []TypeOK
<1>1. IInv => TypeOK
  BY DEF IInv
<1> QED BY Inductive, <1>1, PTL

\* However requests, stops and expiring durations interleave, there is never a
\* worker that the next stop would not join.
THEOREM WorkerIsJoinable == Safety => []NoOrphanThread
<1>1. IInv => NoOrphanThread
  BY DEF IInv, ThreadInv
<1> QED BY Inductive, <1>1, PTL

\* The siren sounds only while a worker is there that will silence it.
THEOREM NoStuckSiren == Safety => []SoundsOnlyUnderWorker
<1>1. IInv => SoundsOnlyUnderWorker
  BY DEF IInv
<1> QED BY Inductive, <1>1, PTL

\* The status fields are those of the pattern that plays.
THEOREM StatusIsTrue == Safety => []StatusMatchesWorker
<1>1. IInv => StatusMatchesWorker
  BY DEF IInv, AgreeInv
<1> QED BY Inductive, <1>1, PTL

\* A pattern ends early only when somebody stops it.
THEOREM NotCutShort == Safety => []CutShortOnlyByStop
<1>1. IInv => CutShortOnlyByStop
  BY DEF IInv, AgreeInv
<1> QED BY Inductive, <1>1, PTL
-----------------------------------------------------------------------------
(***************************************************************************)
(* The reply, which is read from the shared state in four steps.           *)
(***************************************************************************)
\* The shared state of a service that plays nothing.
Cleared == ~keep_running /\ current_pattern = INVALID /\ current_duration_sec = 0

\* Outside the stop, the flag and the status go together.
SharedInv ==
  pc \notin {"join", "stop_clear"} =>
    Cleared \/ (keep_running /\ current_pattern \in 1 .. 5)

\* A field once read as stopped was read from a state that stays stopped.
TearInv ==
  /\ pc \in {"reply_id", "reply_pattern", "reply_duration", "reply_send"} =>
       (~reply.running => Cleared)
  /\ pc \in {"reply_pattern", "reply_duration", "reply_send"} =>
       /\ ~reply.running => reply.siren_id = INVALID
       /\ reply.siren_id = INVALID => Cleared
  /\ pc \in {"reply_duration", "reply_send"} =>
       /\ reply.siren_id = INVALID => reply.pattern = INVALID
       /\ reply.pattern = INVALID => Cleared
  /\ pc = "reply_send" => (reply.pattern = INVALID => reply.duration = 0)

\* While an alarm that was begun is answered, the shared state is that alarm's
\* or cleared, and so is what was read of it.
RequestedInv ==
  pc \in {"reply_state", "reply_id", "reply_pattern", "reply_duration", "reply_send"}
    /\ request.method = "alarm" /\ reply.result = "ok" =>
    /\ current_pattern \in {ToInt(request.siren_id), INVALID}
    /\ current_duration_sec \in {ControllerDuration(request.duration), 0}
    /\ pc \in {"reply_pattern", "reply_duration", "reply_send"} =>
         reply.siren_id \in {ToInt(request.siren_id), INVALID}
    /\ pc \in {"reply_duration", "reply_send"} =>
         reply.pattern \in {ToInt(request.siren_id), INVALID}
    /\ pc = "reply_send" =>
         reply.duration \in {ControllerDuration(request.duration), 0}

\* Every step keeps the reply in agreement with the request and the status.
LEMMA ReplyStep ==
  ASSUME IInv, IInv', SharedInv, TearInv, RequestedInv, [Next]_vars
  PROVE  (SharedInv /\ TearInv /\ RequestedInv)'
<1> USE DEF IInv, TypeOK, RequestInv, AgreeInv, Cleared, SharedInv, TearInv, RequestedInv,
          INVALID, shared, workers
<1>1. CASE Start
  BY <1>1 DEF Start
<1>2. CASE Crash
  BY <1>2 DEF Crash, FreshProcess
<1>3. CASE handle_signal
  BY <1>3 DEF handle_signal
<1>4. ASSUME NEW r \in Requests, Receive(r)
       PROVE  (SharedInv /\ TearInv /\ RequestedInv)'
  BY <1>4 DEF Receive
<1>5. CASE siren_controller_init
  BY <1>5 DEF siren_controller_init, siren_hw_off, write_sysfs
<1>6. CASE Connect
  BY <1>6 DEF Connect
<1>7. CASE LeaveLoop
  BY <1>7 DEF LeaveLoop
<1>8. CASE siren_controller_deinit
  BY <1>8 DEF siren_controller_deinit, siren_hw_off, write_sysfs, FreshProcess
<1>9. CASE ReadState
  BY <1>9 DEF ReadState
<1>10. CASE ReadId
  BY <1>10 DEF ReadId
<1>11. CASE ReadPatternName
  BY <1>11 DEF ReadPatternName
<1>12. CASE ReadDuration
  BY <1>12 DEF ReadDuration
<1>13. CASE SendReply
  BY <1>13 DEF SendReply
<1>14. CASE StopRequest
  BY <1>14 DEF StopRequest
<1>15. CASE StopJoin
  BY <1>15 DEF StopJoin
<1>16. CASE StopClear
  BY <1>16 DEF StopClear
<1>17. CASE StopOff
  BY <1>17 DEF StopOff, siren_hw_off, write_sysfs
<1>18. CASE OutOfMemory
  BY <1>18 DEF OutOfMemory
<1>19. CASE Arm
  BY <1>19 DEF Arm
<1>20. CASE CreateFails
  BY <1>20 DEF CreateFails
<1>21. CASE Rollback
  BY <1>21 DEF Rollback
<1>22. CASE RollbackOff
  BY <1>22 DEF RollbackOff, siren_hw_off, write_sysfs
<1>23. ASSUME NEW t \in Threads, CreateWorker(t)
       PROVE  (SharedInv /\ TearInv /\ RequestedInv)'
  BY <1>23 DEF CreateWorker
<1>24. ASSUME NEW t \in Threads, WorkerBegin(t)
       PROVE  (SharedInv /\ TearInv /\ RequestedInv)'
  BY <1>24 DEF WorkerBegin, Goto, mainVars
<1>25. ASSUME NEW t \in Threads, WorkerOn(t)
       PROVE  (SharedInv /\ TearInv /\ RequestedInv)'
  BY <1>25 DEF WorkerOn, siren_hw_on, write_sysfs, Goto, mainVars
<1>26. ASSUME NEW t \in Threads, SteadyEnds(t)
       PROVE  (SharedInv /\ TearInv /\ RequestedInv)'
  BY <1>26 DEF SteadyEnds, Goto, mainVars
<1>27. ASSUME NEW t \in Threads, LoopTest(t)
       PROVE  (SharedInv /\ TearInv /\ RequestedInv)'
  BY <1>27 DEF LoopTest, Goto, mainVars
<1>28. ASSUME NEW t \in Threads, StepTest(t)
       PROVE  (SharedInv /\ TearInv /\ RequestedInv)'
  BY <1>28 DEF StepTest, Goto, mainVars
<1>29. ASSUME NEW t \in Threads, SleepEnds(t)
       PROVE  (SharedInv /\ TearInv /\ RequestedInv)'
  BY <1>29 DEF SleepEnds, Goto, mainVars
<1>30. ASSUME NEW t \in Threads, WorkerOff(t)
       PROVE  (SharedInv /\ TearInv /\ RequestedInv)'
  BY <1>30 DEF WorkerOff, siren_hw_off, write_sysfs, Goto, mainVars
<1>31. ASSUME NEW t \in Threads, mark_stopped_from_worker(t)
       PROVE  (SharedInv /\ TearInv /\ RequestedInv)'
  BY <1>31 DEF mark_stopped_from_worker, Goto, mainVars
<1>32. ASSUME NEW t \in Threads, Elapse(t)
       PROVE  (SharedInv /\ TearInv /\ RequestedInv)'
  BY <1>32 DEF Elapse, mainVars
<1>33. CASE UNCHANGED vars
  BY <1>33 DEF vars
<1> QED BY <1>1, <1>2, <1>3, <1>4, <1>5, <1>6, <1>7, <1>8, <1>9, <1>10, <1>11,
       <1>12, <1>13, <1>14, <1>15, <1>16, <1>17, <1>18, <1>19, <1>20, <1>21,
       <1>22, <1>23, <1>24, <1>25, <1>26, <1>27, <1>28, <1>29, <1>30, <1>31,
       <1>32, <1>33 DEF Next, MainStep, WorkerStep

\* The reply's invariant is inductive, given the threads'.
THEOREM ReplyInductive == Safety => [](IInv /\ SharedInv /\ TearInv /\ RequestedInv)
<1>1. Init => SharedInv /\ TearInv /\ RequestedInv
  BY DEF Init, SharedInv, TearInv, RequestedInv, Cleared
<1>2. IInv /\ IInv' /\ SharedInv /\ TearInv /\ RequestedInv /\ [Next]_vars
        => (SharedInv /\ TearInv /\ RequestedInv)'
  BY ReplyStep
<1> QED BY Inductive, <1>1, <1>2, PTL DEF Safety

\* The answer to an accepted alarm shows, field by field, what was requested or
\* that it is over already, never an earlier alarm's values.
THEOREM ReplyIsFresh == Safety => []AlarmReplyNotStale
<1>1. RequestedInv => AlarmReplyNotStale
  BY DEF RequestedInv, AlarmReplyNotStale
<1> QED BY ReplyInductive, <1>1, PTL

\* A pattern that ends while the reply is read tears it one way only: a field
\* read as stopped is followed by stopped fields.
THEOREM TearsOneWay == Safety => []ReplyTearsOneWay
<1>1. TearInv => ReplyTearsOneWay
  BY DEF TearInv, ReplyTearsOneWay
<1> QED BY ReplyInductive, <1>1, PTL
-----------------------------------------------------------------------------
(***************************************************************************)
(* Machine-checked proof that every step of SirenService is a step that    *)
(* Reaction allows, or changes nothing Reaction speaks of.                 *)
(***************************************************************************)
\* What the mapping needs beyond IInv: keep_running is set only while there is
\* a worker to obey it (or one is about to be created), and then a pattern is
\* named.
StageInv ==
  /\ pc \in NoWorkerPcs \ {"create", "rollback"} => ~keep_running
  /\ keep_running => current_pattern \in 1 .. 5
  /\ keep_running /\ pc \notin {"create", "rollback"} =>
       \E t \in Threads : Live(t)

\* Every step keeps StageInv.
LEMMA StageStep ==
  ASSUME IInv, IInv', StageInv, [Next]_vars
  PROVE  StageInv'
<1> USE DEF IInv, TypeOK, RequestInv, ThreadInv, NoOrphanThread, NoWorkerPcs,
          StageInv, Live, shared, workers
<1>1. CASE Start
  BY <1>1 DEF Start
<1>2. CASE Crash
  BY <1>2 DEF Crash, FreshProcess
<1>3. CASE handle_signal
  BY <1>3 DEF handle_signal
<1>4. ASSUME NEW r \in Requests, Receive(r)
       PROVE  StageInv'
  BY <1>4 DEF Receive
<1>5. CASE siren_controller_init
  BY <1>5 DEF siren_controller_init, siren_hw_off, write_sysfs
<1>6. CASE Connect
  BY <1>6 DEF Connect
<1>7. CASE LeaveLoop
  BY <1>7 DEF LeaveLoop
<1>8. CASE siren_controller_deinit
  BY <1>8 DEF siren_controller_deinit, siren_hw_off, write_sysfs, FreshProcess
<1>9. CASE ReadState
  BY <1>9 DEF ReadState
<1>10. CASE ReadId
  BY <1>10 DEF ReadId
<1>11. CASE ReadPatternName
  BY <1>11 DEF ReadPatternName
<1>12. CASE ReadDuration
  BY <1>12 DEF ReadDuration
<1>13. CASE SendReply
  BY <1>13 DEF SendReply
<1>14. CASE StopRequest
  BY <1>14 DEF StopRequest
<1>15. CASE StopJoin
  BY <1>15 DEF StopJoin
<1>16. CASE StopClear
  BY <1>16 DEF StopClear
<1>17. CASE StopOff
  BY <1>17 DEF StopOff, siren_hw_off, write_sysfs
<1>18. CASE OutOfMemory
  BY <1>18 DEF OutOfMemory
<1>19. CASE Arm
  BY <1>19 DEF Arm
<1>20. CASE CreateFails
  BY <1>20 DEF CreateFails
<1>21. CASE Rollback
  BY <1>21 DEF Rollback
<1>22. CASE RollbackOff
  BY <1>22 DEF RollbackOff, siren_hw_off, write_sysfs
<1>23. ASSUME NEW t \in Threads, CreateWorker(t)
       PROVE  StageInv'
  BY <1>23 DEF CreateWorker
<1>24. ASSUME NEW t \in Threads, WorkerBegin(t)
       PROVE  StageInv'
  BY <1>24 DEF WorkerBegin, Goto, mainVars
<1>25. ASSUME NEW t \in Threads, WorkerOn(t)
       PROVE  StageInv'
  BY <1>25 DEF WorkerOn, siren_hw_on, write_sysfs, Goto, mainVars
<1>26. ASSUME NEW t \in Threads, SteadyEnds(t)
       PROVE  StageInv'
  BY <1>26 DEF SteadyEnds, Goto, mainVars
<1>27. ASSUME NEW t \in Threads, LoopTest(t)
       PROVE  StageInv'
  BY <1>27 DEF LoopTest, Goto, mainVars
<1>28. ASSUME NEW t \in Threads, StepTest(t)
       PROVE  StageInv'
  BY <1>28 DEF StepTest, Goto, mainVars
<1>29. ASSUME NEW t \in Threads, SleepEnds(t)
       PROVE  StageInv'
  BY <1>29 DEF SleepEnds, Goto, mainVars
<1>30. ASSUME NEW t \in Threads, WorkerOff(t)
       PROVE  StageInv'
  BY <1>30 DEF WorkerOff, siren_hw_off, write_sysfs, Goto, mainVars
<1>31. ASSUME NEW t \in Threads, mark_stopped_from_worker(t)
       PROVE  StageInv'
  BY <1>31 DEF mark_stopped_from_worker, Goto, mainVars
<1>32. ASSUME NEW t \in Threads, Elapse(t)
       PROVE  StageInv'
  BY <1>32 DEF Elapse, mainVars
<1>33. CASE UNCHANGED vars
  BY <1>33 DEF vars
<1> QED BY <1>1, <1>2, <1>3, <1>4, <1>5, <1>6, <1>7, <1>8, <1>9, <1>10, <1>11,
       <1>12, <1>13, <1>14, <1>15, <1>16, <1>17, <1>18, <1>19, <1>20, <1>21,
       <1>22, <1>23, <1>24, <1>25, <1>26, <1>27, <1>28, <1>29, <1>30, <1>31,
       <1>32, <1>33 DEF Next, MainStep, WorkerStep
-----------------------------------------------------------------------------
\* A step that touches neither the output, the flag nor the life of a worker
\* changes nothing Reaction speaks of.
LEMMA Stutters ==
  ASSUME Up' <=> Up, \A t \in Threads : Live(t)' <=> Live(t),
         UNCHANGED <<keep_running, hw, hw_fault>>,
         keep_running => UNCHANGED current_pattern
  PROVE  UNCHANGED R!vars
<1>1. UNCHANGED Stage
  BY DEF Stage
<1>2. UNCHANGED PatternPlayed
  BY DEF PatternPlayed
<1>3. UNCHANGED Sounding
  BY DEF Sounding
<1> QED BY <1>1, <1>2, <1>3 DEF R!vars

\* Where there is no worker, the service is quiet and silent.
LEMMA QuietWithoutWorker ==
  ASSUME IInv, Up, \A t \in Threads : worker_pc[t] = "none", ~keep_running
  PROVE  Stage = "quiet" /\ PatternPlayed = INVALID /\ Sounding = FALSE
<1>1. Stage = "quiet"
  BY DEF Stage, Live
<1>2. PatternPlayed = INVALID
  BY DEF PatternPlayed
<1>3. Sounding = FALSE
  BY DEF Sounding, IInv, SoundsOnlyUnderWorker, SoundingPcs
<1> QED BY <1>1, <1>2, <1>3

\* A write of a live worker changes the output and nothing else.
LEMMA Drives ==
  ASSUME IInv, NEW t \in Threads, Live(t), Live(t)',
         \A u \in Threads : Live(u)' <=> Live(u),
         UNCHANGED <<pc, keep_running, current_pattern>>
  PROVE  R!Next
<1>1. Up
  BY DEF IInv, ThreadInv, NoWorkerPcs, Up, Live, TypeOK
<1>2. Stage \in {"active", "ending"}
  BY <1>1 DEF Stage
<1>3. UNCHANGED <<Stage, PatternPlayed>>
  BY <1>1 DEF Stage, PatternPlayed, Up
<1>4. Sounding' \in BOOLEAN
  BY DEF Sounding
<1>5. R!Drive
  BY <1>2, <1>3, <1>4 DEF R!Drive
<1> QED BY <1>5 DEF R!Next

\* Every step of the service is a step of Reaction or a stutter.
LEMMA StepImplements ==
  ASSUME IInv, IInv', StageInv, StageInv', [Next]_vars
  PROVE  [R!Next]_(R!vars)
<1> USE DEF shared, workers, output
<1>1. CASE Start
  BY <1>1, Stutters DEF Start, Up, Live
<1>2. CASE Crash
  <2>1. /\ Stage' = "down" /\ PatternPlayed' = INVALID
        /\ UNCHANGED Sounding
    BY <1>2 DEF Crash, FreshProcess, Stage, PatternPlayed, Up, Sounding
  <2>2. CASE Up
    <3>1. Stage # "down"
      BY <2>2 DEF Stage
    <3>2. R!Fail
      BY <2>1, <3>1 DEF R!Fail
    <3> QED BY <3>2 DEF R!Next
  <2>3. CASE ~Up
    <3>1. Stage = "down" /\ PatternPlayed = INVALID
      BY <2>3 DEF Stage, PatternPlayed
    <3> QED BY <2>1, <3>1 DEF R!vars
  <2> QED BY <2>2, <2>3
<1>3. CASE handle_signal
  BY <1>3, Stutters DEF handle_signal, Up, Live
<1>4. ASSUME NEW r \in Requests, Receive(r)
      PROVE  [R!Next]_(R!vars)
  BY <1>4, Stutters DEF Receive, Up, Live
<1>5. CASE siren_controller_init
  <2>1. pc = "init" /\ pc' = "connect" /\ UNCHANGED <<worker_pc, keep_running>>
    BY <1>5 DEF siren_controller_init
  <2>2. Stage = "down" /\ PatternPlayed = INVALID
    BY <2>1 DEF Stage, PatternPlayed, Up
  <2>3. ~keep_running
    BY <2>1 DEF StageInv, NoWorkerPcs
  <2>4. \A t \in Threads : worker_pc'[t] = "none"
    BY <2>1 DEF IInv, ThreadInv, NoWorkerPcs
  <2>5. Stage' = "quiet" /\ PatternPlayed' = INVALID
    BY <2>1, <2>3, <2>4 DEF Stage, PatternPlayed, Up, Live
  <2>6. Sounding' = FALSE
    BY <1>5 DEF siren_controller_init, siren_hw_off, write_sysfs, Sounding
  <2>7. R!Recover
    BY <2>2, <2>5, <2>6 DEF R!Recover
  <2> QED BY <2>7 DEF R!Next
<1>6. CASE Connect
  BY <1>6, Stutters DEF Connect, Up, Live
<1>7. CASE LeaveLoop
  BY <1>7, Stutters DEF LeaveLoop, Up, Live
<1>8. CASE siren_controller_deinit
  <2>1. pc = "deinit_off" /\ pc' \in {"exited", "failed"}
    BY <1>8 DEF siren_controller_deinit
  <2>2. Up /\ ~Up'
    BY <2>1 DEF Up
  <2>3. ~keep_running /\ \A t \in Threads : worker_pc[t] = "none"
    BY <2>1 DEF StageInv, IInv, ThreadInv, NoWorkerPcs
  <2>4. Stage = "quiet" /\ PatternPlayed = INVALID /\ Sounding = FALSE
    BY <2>2, <2>3, QuietWithoutWorker
  <2>5. Sounding' = FALSE
    BY <1>8 DEF siren_controller_deinit, siren_hw_off, write_sysfs, Sounding
  <2>6. Stage' = "down" /\ PatternPlayed' = INVALID
    BY <2>2 DEF Stage, PatternPlayed
  <2>7. R!Fail
    BY <2>4, <2>5, <2>6 DEF R!Fail
  <2> QED BY <2>7 DEF R!Next
<1>9. CASE ReadState
  BY <1>9, Stutters DEF ReadState, Up, Live
<1>10. CASE ReadId
  BY <1>10, Stutters DEF ReadId, Up, Live
<1>11. CASE ReadPatternName
  BY <1>11, Stutters DEF ReadPatternName, Up, Live
<1>12. CASE ReadDuration
  BY <1>12, Stutters DEF ReadDuration, Up, Live
<1>13. CASE SendReply
  BY <1>13, Stutters DEF SendReply, Up, Live
<1>14. CASE StopRequest
  <2>1. pc = "stop" /\ pc' \in {"join", "stop_clear"}
        /\ UNCHANGED <<worker_pc, current_pattern, hw, hw_fault>>
    BY <1>14 DEF StopRequest
  <2>2. Up /\ Up'
    BY <2>1 DEF Up
  <2>3. CASE UNCHANGED keep_running
    BY <2>1, <2>2, <2>3, Stutters DEF Live
  <2>4. CASE ~UNCHANGED keep_running
    <3>1. keep_running /\ ~keep_running'
      BY <1>14, <2>4 DEF StopRequest, IInv, TypeOK
    <3>2. \E t \in Threads : Live(t)
      BY <2>1, <3>1 DEF StageInv
    <3>3. Stage = "active" /\ Stage' = "ending"
      BY <2>1, <2>2, <3>1, <3>2 DEF Stage, Live
    <3>4. PatternPlayed' = INVALID /\ UNCHANGED Sounding
      BY <2>1, <3>1 DEF PatternPlayed, Sounding
    <3>5. R!Stop
      BY <3>3, <3>4 DEF R!Stop
    <3> QED BY <3>5 DEF R!Next
  <2> QED BY <2>3, <2>4
<1>15. CASE StopJoin
  <2>1. Up /\ Up' /\ UNCHANGED <<keep_running, current_pattern, hw, hw_fault>>
    BY <1>15 DEF StopJoin, Up
  <2>2. \A t \in Threads : Live(t)' <=> Live(t)
    BY <1>15 DEF StopJoin, Live, IInv, TypeOK
  <2> QED BY <2>1, <2>2, Stutters
<1>16. CASE StopClear
  <2>1. pc = "stop_clear" /\ pc' = "stop_off" /\ ~keep_running'
        /\ UNCHANGED <<worker_pc, hw, hw_fault>>
    BY <1>16 DEF StopClear
  <2>2. keep_running = FALSE /\ keep_running' = FALSE
    BY <1>16, <2>1 DEF StopClear, StageInv, NoWorkerPcs, IInv, TypeOK
  <2> QED BY <2>1, <2>2, Stutters DEF Up, Live
<1>17. CASE StopOff
  <2>1. pc = "stop_off" /\ Up /\ Up' /\ UNCHANGED <<worker_pc, keep_running>>
    BY <1>17 DEF StopOff, Up
  <2>2. ~keep_running /\ \A t \in Threads : worker_pc[t] = "none"
    BY <2>1 DEF StageInv, IInv, ThreadInv, NoWorkerPcs
  <2>3. Stage = "quiet" /\ PatternPlayed = INVALID /\ Sounding = FALSE
    BY <2>1, <2>2, QuietWithoutWorker
  <2>4. Stage' = "quiet" /\ PatternPlayed' = INVALID
    BY <2>1, <2>2 DEF Stage, PatternPlayed, Live
  <2>5. Sounding' = FALSE
    BY <1>17 DEF StopOff, siren_hw_off, write_sysfs, Sounding
  <2> QED BY <2>3, <2>4, <2>5 DEF R!vars
<1>18. CASE OutOfMemory
  BY <1>18, Stutters DEF OutOfMemory, Up, Live
<1>19. CASE Arm
  <2>1. pc = "start" /\ pc' = "create" /\ keep_running'
        /\ UNCHANGED <<worker_pc, hw, hw_fault>>
    BY <1>19 DEF Arm
  <2>2. Up /\ Up'
    BY <2>1 DEF Up
  <2>3. ~keep_running /\ \A t \in Threads : worker_pc[t] = "none"
    BY <2>1 DEF StageInv, IInv, ThreadInv, NoWorkerPcs
  <2>4. Stage = "quiet" /\ Sounding = FALSE
    BY <2>2, <2>3, QuietWithoutWorker
  <2>5. Stage' = "active" /\ PatternPlayed' = current_pattern'
    BY <2>1, <2>2 DEF Stage, PatternPlayed
  <2>6. current_pattern' \in 1 .. 5
    BY <2>1 DEF StageInv
  <2>7. UNCHANGED Sounding
    BY <2>1 DEF Sounding
  <2>8. R!Begin(current_pattern')
    BY <2>4, <2>5, <2>7 DEF R!Begin
  <2> QED BY <2>6, <2>8 DEF R!Next
<1>20. CASE CreateFails
  BY <1>20, Stutters DEF CreateFails, Up, Live
<1>21. CASE Rollback
  <2>1. pc = "rollback" /\ pc' = "rollback_off" /\ ~keep_running'
        /\ UNCHANGED <<worker_pc, hw, hw_fault>>
    BY <1>21 DEF Rollback
  <2>2. Up /\ Up'
    BY <2>1 DEF Up
  <2>3. \A t \in Threads : worker_pc[t] = "none"
    BY <2>1 DEF IInv, ThreadInv, NoWorkerPcs
  <2>4. Stage' = "quiet" /\ PatternPlayed' = INVALID /\ UNCHANGED Sounding
    BY <2>1, <2>2, <2>3 DEF Stage, PatternPlayed, Sounding, Live
  <2>5. CASE keep_running
    <3>1. Stage = "active"
      BY <2>2, <2>5 DEF Stage
    <3>2. Sounding = FALSE
      BY <2>2, <2>3 DEF Sounding, IInv, SoundsOnlyUnderWorker, SoundingPcs
    <3>3. R!Settle
      BY <2>4, <3>1, <3>2 DEF R!Settle
    <3> QED BY <3>3 DEF R!Next
  <2>6. CASE ~keep_running
    <3>1. Stage = "quiet" /\ PatternPlayed = INVALID
      BY <2>2, <2>3, <2>6, QuietWithoutWorker
    <3> QED BY <2>4, <3>1 DEF R!vars
  <2> QED BY <2>5, <2>6
<1>22. CASE RollbackOff
  <2>1. pc = "rollback_off" /\ Up /\ Up' /\ UNCHANGED <<worker_pc, keep_running>>
    BY <1>22 DEF RollbackOff, Up
  <2>2. ~keep_running /\ \A t \in Threads : worker_pc[t] = "none"
    BY <2>1 DEF StageInv, IInv, ThreadInv, NoWorkerPcs
  <2>3. Stage = "quiet" /\ PatternPlayed = INVALID /\ Sounding = FALSE
    BY <2>1, <2>2, QuietWithoutWorker
  <2>4. Stage' = "quiet" /\ PatternPlayed' = INVALID
    BY <2>1, <2>2 DEF Stage, PatternPlayed, Live
  <2>5. Sounding' = FALSE
    BY <1>22 DEF RollbackOff, siren_hw_off, write_sysfs, Sounding
  <2> QED BY <2>3, <2>4, <2>5 DEF R!vars
<1>23. ASSUME NEW t \in Threads, CreateWorker(t)
       PROVE  [R!Next]_(R!vars)
  <2>1. Up /\ Up' /\ UNCHANGED <<keep_running, current_pattern, hw, hw_fault>>
    BY <1>23 DEF CreateWorker, Up
  <2>2. keep_running
    BY <1>23 DEF CreateWorker, IInv, AgreeInv
  <2>3. Stage = "active" /\ Stage' = "active"
    BY <2>1, <2>2 DEF Stage
  <2>4. UNCHANGED <<PatternPlayed, Sounding>>
    BY <2>1 DEF PatternPlayed, Sounding
  <2> QED BY <2>3, <2>4 DEF R!vars
<1>24. ASSUME NEW t \in Threads, WorkerBegin(t)
       PROVE  [R!Next]_(R!vars)
  <2>1. UNCHANGED <<pc, keep_running, current_pattern, hw, hw_fault>>
    BY <1>24 DEF WorkerBegin, mainVars
  <2>2. \A u \in Threads : Live(u)' <=> Live(u)
    BY <1>24 DEF WorkerBegin, Goto, Live, IInv, TypeOK
  <2> QED BY <2>1, <2>2, Stutters DEF Up
<1>25. ASSUME NEW t \in Threads, WorkerOn(t)
       PROVE  [R!Next]_(R!vars)
  <2>1. UNCHANGED <<pc, keep_running, current_pattern>>
    BY <1>25 DEF WorkerOn, mainVars
  <2>2. Live(t) /\ Live(t)' /\ \A u \in Threads : Live(u)' <=> Live(u)
    BY <1>25 DEF WorkerOn, Goto, Live, IInv, TypeOK
  <2> QED BY <2>1, <2>2, Drives
<1>26. ASSUME NEW t \in Threads, SteadyEnds(t)
       PROVE  [R!Next]_(R!vars)
  <2>1. UNCHANGED <<pc, keep_running, current_pattern, hw, hw_fault>>
    BY <1>26 DEF SteadyEnds, mainVars
  <2>2. \A u \in Threads : Live(u)' <=> Live(u)
    BY <1>26 DEF SteadyEnds, Goto, Live, IInv, TypeOK
  <2> QED BY <2>1, <2>2, Stutters DEF Up
<1>27. ASSUME NEW t \in Threads, LoopTest(t)
       PROVE  [R!Next]_(R!vars)
  <2>1. UNCHANGED <<pc, keep_running, current_pattern, hw, hw_fault>>
    BY <1>27 DEF LoopTest, mainVars
  <2>2. \A u \in Threads : Live(u)' <=> Live(u)
    BY <1>27 DEF LoopTest, Goto, Live, IInv, TypeOK
  <2> QED BY <2>1, <2>2, Stutters DEF Up
<1>28. ASSUME NEW t \in Threads, StepTest(t)
       PROVE  [R!Next]_(R!vars)
  <2>1. UNCHANGED <<pc, keep_running, current_pattern, hw, hw_fault>>
    BY <1>28 DEF StepTest, mainVars
  <2>2. \A u \in Threads : Live(u)' <=> Live(u)
    BY <1>28 DEF StepTest, Goto, Live, IInv, TypeOK
  <2> QED BY <2>1, <2>2, Stutters DEF Up
<1>29. ASSUME NEW t \in Threads, SleepEnds(t)
       PROVE  [R!Next]_(R!vars)
  <2>1. UNCHANGED <<pc, keep_running, current_pattern, hw, hw_fault>>
    BY <1>29 DEF SleepEnds, mainVars
  <2>2. \A u \in Threads : Live(u)' <=> Live(u)
    BY <1>29 DEF SleepEnds, Goto, Live, IInv, TypeOK
  <2> QED BY <2>1, <2>2, Stutters DEF Up
<1>30. ASSUME NEW t \in Threads, WorkerOff(t)
       PROVE  [R!Next]_(R!vars)
  <2>1. UNCHANGED <<pc, keep_running, current_pattern>>
    BY <1>30 DEF WorkerOff, mainVars
  <2>2. Live(t) /\ Live(t)' /\ \A u \in Threads : Live(u)' <=> Live(u)
    BY <1>30 DEF WorkerOff, Goto, Live, IInv, TypeOK
  <2> QED BY <2>1, <2>2, Drives
<1>31. ASSUME NEW t \in Threads, mark_stopped_from_worker(t)
       PROVE  [R!Next]_(R!vars)
  <2>1. worker_pc[t] = "mark" /\ Live(t) /\ ~keep_running'
        /\ UNCHANGED <<pc, hw, hw_fault>>
    BY <1>31 DEF mark_stopped_from_worker, mainVars, Live
  <2>2. Up /\ Up'
    BY <2>1 DEF IInv, ThreadInv, NoWorkerPcs, Up
  <2>3. \A u \in Threads : u # t => worker_pc[u] = "none"
    BY <2>1 DEF IInv, ThreadInv, NoOrphanThread
  <2>4. \A u \in Threads : ~Live(u)'
    BY <1>31, <2>3 DEF mark_stopped_from_worker, Goto, Live, IInv, TypeOK
  <2>5. Stage \in {"active", "ending"} /\ Stage' = "quiet"
    BY <2>1, <2>2, <2>4 DEF Stage
  <2>6. Sounding = FALSE
    BY <2>1, <2>2, <2>3 DEF Sounding, IInv, SoundsOnlyUnderWorker, SoundingPcs
  <2>7. PatternPlayed' = INVALID /\ UNCHANGED Sounding
    BY <2>1 DEF PatternPlayed, Sounding
  <2>8. R!Settle
    BY <2>5, <2>6, <2>7 DEF R!Settle
  <2> QED BY <2>8 DEF R!Next
<1>32. ASSUME NEW t \in Threads, Elapse(t)
       PROVE  [R!Next]_(R!vars)
  <2>1. UNCHANGED <<pc, keep_running, current_pattern, hw, hw_fault>>
    BY <1>32 DEF Elapse, mainVars
  <2>2. \A u \in Threads : Live(u)' <=> Live(u)
    BY <1>32 DEF Elapse, Goto, Live, IInv, TypeOK
  <2> QED BY <2>1, <2>2, Stutters DEF Up
<1>33. CASE UNCHANGED vars
  BY <1>33, Stutters DEF vars, Up, Live
<1> QED BY <1>1, <1>2, <1>3, <1>4, <1>5, <1>6, <1>7, <1>8, <1>9, <1>10, <1>11,
       <1>12, <1>13, <1>14, <1>15, <1>16, <1>17, <1>18, <1>19, <1>20, <1>21,
       <1>22, <1>23, <1>24, <1>25, <1>26, <1>27, <1>28, <1>29, <1>30, <1>31,
       <1>32, <1>33 DEF Next, MainStep, WorkerStep
-----------------------------------------------------------------------------
\* The service implements the abstract Reaction: one pattern at a time, begun
\* in silence, driven only while it is played or wound down.
THEOREM Implements == Safety => ImplementsReaction
<1>1. Init => StageInv
  BY DEF Init, StageInv
<1>2. Init => R!Init
  <2> SUFFICES ASSUME Init PROVE R!Init
    OBVIOUS
  <2>1. ~Up
    BY DEF Init, Up
  <2>2. Stage = "down" /\ PatternPlayed = INVALID
    BY <2>1 DEF Stage, PatternPlayed
  <2>3. Sounding \in BOOLEAN
    BY DEF Sounding
  <2> QED BY <2>2, <2>3 DEF R!Init
<1>3. IInv /\ IInv' /\ StageInv /\ [Next]_vars => StageInv'
  BY StageStep
<1>4. IInv /\ IInv' /\ StageInv /\ StageInv' /\ [Next]_vars => [R!Next]_(R!vars)
  BY StepImplements
<1> QED BY Inductive, <1>1, <1>2, <1>3, <1>4, PTL
          DEF Safety, ImplementsReaction, R!Safety
=============================================================================
