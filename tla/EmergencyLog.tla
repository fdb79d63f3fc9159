---------------------------- MODULE EmergencyLog ----------------------------
(***************************************************************************)
(* The log library as the services of one board use it.  Each process      *)
(* makes the log directory component by component, opens zlog or falls     *)
(* back to standard output, and keeps the result in statics that           *)
(* emergency_log reads without a lock: from the main thread, and from the  *)
(* worker thread that siren, LED and MQTT have.  The processes start when  *)
(* they like and share the file system.                                    *)
(*                                                                         *)
(* zlog is external: it opens or not, knows the category or not, and must  *)
(* not be called before it was opened or after zlog_fini.                  *)
(***************************************************************************)
EXTENDS Integers

CONSTANTS Services,   \* the processes that log
          Threaded,   \* those among them that have a worker thread
          Depth,      \* the number of components of EMERGENCY_ZLOG_LOG_DIR
          MaxKills    \* bound on the number of processes killed

ASSUME ServiceAssumption == Threaded \subseteq Services
ASSUME DepthAssumption == Depth \in Nat \ {0}
ASSUME KillAssumption == MaxKills \in Nat

Components == 1 .. Depth
Threads == {"main", "worker"}

VARIABLES
  entry,           \* what the file system has at each component of the path
  writable,        \* could the component be made where it belongs?
  pc, level,       \* each main thread, and the component it makes next
  backend_ready, using_zlog,       \* statics of log_core.c
  category,        \* is the static of log_backend_zlog.c set?
  zlog_open,       \* between zlog_init and zlog_fini
  worker,          \* is there a worker thread that was not joined?
  log,             \* where each thread is in emergency_log
  refused,         \* space ran out, or zlog did not come up, in this process
  outcome,         \* where the last message went
  kills

files == <<entry, writable>>
statics == <<backend_ready, using_zlog, category, zlog_open>>
vars == <<files, pc, level, statics, worker, log, refused, outcome, kills>>

TypeOK ==
  /\ entry \in [Components -> {"absent", "dir", "file"}]
  /\ writable \in [Components -> BOOLEAN]
  /\ pc \in [Services -> {"down", "mkdir", "stat", "zlog_init", "category", "ready",
                          "serve", "join", "deinit", "fini", "clear"}]
  /\ level \in [Services -> Components]
  /\ backend_ready \in [Services -> BOOLEAN] /\ using_zlog \in [Services -> BOOLEAN]
  /\ category \in [Services -> BOOLEAN] /\ zlog_open \in [Services -> BOOLEAN]
  /\ worker \in [Services -> BOOLEAN]
  /\ log \in [Services -> [Threads -> {"out", "ready", "which", "category", "call"}]]
  /\ refused \in [Services -> BOOLEAN]
  /\ outcome \in {"none", "stdout", "zlog", "dropped", "undefined"}
  /\ kills \in 0 .. MaxKills

\* Nothing lies below what is not a directory.
Init ==
  /\ entry \in [Components -> {"absent", "dir", "file"}]
  /\ \A k \in Components : entry[k] # "absent" =>
       \A j \in 1 .. k - 1 : entry[j] = "dir"
  /\ writable \in [Components -> BOOLEAN]
  /\ pc = [s \in Services |-> "down"] /\ level = [s \in Services |-> 1]
  /\ backend_ready = [s \in Services |-> FALSE]
  /\ using_zlog = [s \in Services |-> FALSE]
  /\ category = [s \in Services |-> FALSE] /\ zlog_open = [s \in Services |-> FALSE]
  /\ worker = [s \in Services |-> FALSE]
  /\ log = [s \in Services |-> [t \in Threads |-> "out"]]
  /\ refused = [s \in Services |-> FALSE]
  /\ outcome = "none" /\ kills = 0
-----------------------------------------------------------------------------
(***************************************************************************)
(* emergency_log_init.                                                     *)
(***************************************************************************)
GoTo(s, label) == pc' = [pc EXCEPT ![s] = label]

\* systemd or an operator executes the binary.
Start(s) ==
  /\ pc[s] = "down"
  /\ GoTo(s, "mkdir")
  /\ UNCHANGED <<files, level, statics, worker, log, refused, outcome, kills>>

\* log_backend_stdout_init, which cannot fail.
FallBack(s) ==
  /\ backend_ready' = [backend_ready EXCEPT ![s] = TRUE]
  /\ using_zlog' = [using_zlog EXCEPT ![s] = FALSE]
  /\ GoTo(s, "serve")

\* mkdir finds directories above the component.
ParentsAreDirs(k) == \A j \in 1 .. k - 1 : entry[j] = "dir"

\* On to the next component, and after the last one to stat.
NextComponent(s) ==
  IF level[s] < Depth
    THEN level' = [level EXCEPT ![s] = @ + 1] /\ UNCHANGED pc
    ELSE GoTo(s, "stat") /\ UNCHANGED level

\* Variant: a component that is there already is an error.
MkdirExistFails(s) ==
  /\ pc[s] = "mkdir"
  /\ LET k == level[s] IN
       \/ /\ ParentsAreDirs(k) /\ entry[k] = "absent" /\ writable[k]
          /\ entry' = [entry EXCEPT ![k] = "dir"]
          /\ NextComponent(s)
          /\ UNCHANGED <<backend_ready, using_zlog>>
       \/ /\ ~ParentsAreDirs(k) \/ entry[k] # "absent" \/ ~writable[k]
          /\ FallBack(s) /\ UNCHANGED <<entry, level>>
  /\ UNCHANGED <<writable, category, zlog_open, worker, log, refused, outcome, kills>>

\* One turn of ensure_log_dir_exists: mkdir makes the component, finds something
\* of that name, or fails.
Mkdir(s) ==
  /\ pc[s] = "mkdir"
  /\ LET k == level[s] IN
       \/ /\ ParentsAreDirs(k) /\ entry[k] = "absent" /\ writable[k]
          /\ entry' = [entry EXCEPT ![k] = "dir"]
          /\ NextComponent(s)
          /\ UNCHANGED <<backend_ready, using_zlog, refused>>
       \/ /\ ParentsAreDirs(k) /\ entry[k] # "absent"       \* EEXIST
          /\ NextComponent(s)
          /\ UNCHANGED <<entry, backend_ready, using_zlog, refused>>
       \/ /\ ~ParentsAreDirs(k) \/ (entry[k] = "absent" /\ ~writable[k])
          /\ FallBack(s) /\ UNCHANGED <<entry, level, refused>>
       \/ /\ ParentsAreDirs(k) /\ entry[k] = "absent"       \* ENOSPC
          /\ refused' = [refused EXCEPT ![s] = TRUE]
          /\ FallBack(s) /\ UNCHANGED <<entry, level>>
  /\ UNCHANGED <<writable, category, zlog_open, worker, log, outcome, kills>>

Stat(s) ==
  /\ pc[s] = "stat"
  /\ \/ /\ entry[Depth] = "dir"
        /\ GoTo(s, "zlog_init") /\ UNCHANGED <<backend_ready, using_zlog>>
     \/ entry[Depth] # "dir" /\ FallBack(s)
  /\ UNCHANGED <<files, level, category, zlog_open, worker, log, refused, outcome,
                 kills>>

ZlogInit(s) ==
  /\ pc[s] = "zlog_init"
  /\ \/ /\ zlog_open' = [zlog_open EXCEPT ![s] = TRUE]
        /\ GoTo(s, "category") /\ UNCHANGED <<backend_ready, using_zlog, refused>>
     \/ /\ refused' = [refused EXCEPT ![s] = TRUE]
        /\ FallBack(s) /\ UNCHANGED zlog_open
  /\ UNCHANGED <<files, level, category, worker, log, outcome, kills>>

\* Without its category the process closes zlog again.
GetCategory(s) ==
  /\ pc[s] = "category"
  /\ \/ /\ category' = [category EXCEPT ![s] = TRUE]
        /\ GoTo(s, "ready")
        /\ UNCHANGED <<backend_ready, using_zlog, zlog_open, refused>>
     \/ /\ zlog_open' = [zlog_open EXCEPT ![s] = FALSE]
        /\ refused' = [refused EXCEPT ![s] = TRUE]
        /\ FallBack(s) /\ UNCHANGED category
  /\ UNCHANGED <<files, level, worker, log, outcome, kills>>

Ready(s) ==
  /\ pc[s] = "ready"
  /\ using_zlog' = [using_zlog EXCEPT ![s] = TRUE]
  /\ backend_ready' = [backend_ready EXCEPT ![s] = TRUE]
  /\ GoTo(s, "serve")
  /\ UNCHANGED <<files, level, category, zlog_open, worker, log, refused, outcome,
                 kills>>
-----------------------------------------------------------------------------
(***************************************************************************)
(* emergency_log.                                                          *)
(***************************************************************************)
\* The thread runs and is not in emergency_log already.
MayLog(s, t) ==
  /\ log[s][t] = "out"
  /\ IF t = "main" THEN pc[s] = "serve" ELSE worker[s]

At(s, t, label) == log' = [log EXCEPT ![s][t] = label]

LogBegins(s, t) ==
  /\ MayLog(s, t)
  /\ At(s, t, "ready")
  /\ UNCHANGED <<files, pc, level, statics, worker, refused, outcome, kills>>

\* The message has been written there, or nowhere, and the call returns.
Written(s, t, where) == outcome' = where /\ At(s, t, "out")

ReadReady(s, t) ==
  /\ log[s][t] = "ready"
  /\ IF backend_ready[s] THEN At(s, t, "which") /\ UNCHANGED outcome
                         ELSE Written(s, t, "stdout")
  /\ UNCHANGED <<files, pc, level, statics, worker, refused, kills>>

ReadUsing(s, t) ==
  /\ log[s][t] = "which"
  /\ IF using_zlog[s] THEN At(s, t, "category") /\ UNCHANGED outcome
                      ELSE Written(s, t, "stdout")
  /\ UNCHANGED <<files, pc, level, statics, worker, refused, kills>>

\* log_backend_zlog_write returns at once when there is no category.
ReadCategory(s, t) ==
  /\ log[s][t] = "category"
  /\ IF category[s] THEN At(s, t, "call") /\ UNCHANGED outcome
                    ELSE Written(s, t, "dropped")
  /\ UNCHANGED <<files, pc, level, statics, worker, refused, kills>>

CallZlog(s, t) ==
  /\ log[s][t] = "call"
  /\ Written(s, t, IF zlog_open[s] THEN "zlog" ELSE "undefined")
  /\ UNCHANGED <<files, pc, level, statics, worker, refused, kills>>
-----------------------------------------------------------------------------
(***************************************************************************)
(* The life of a service, as far as its log is concerned.                  *)
(***************************************************************************)
\* The controller or the publisher creates its thread.
CreateWorker(s) ==
  /\ s \in Threaded /\ pc[s] = "serve" /\ log[s]["main"] = "out" /\ ~worker[s]
  /\ worker' = [worker EXCEPT ![s] = TRUE]
  /\ UNCHANGED <<files, pc, level, statics, log, refused, outcome, kills>>

WorkerEnds(s) ==
  /\ worker[s] /\ log[s]["worker"] = "out"
  /\ worker' = [worker EXCEPT ![s] = FALSE]
  /\ UNCHANGED <<files, pc, level, statics, log, refused, outcome, kills>>

\* uloop_run has returned, or a step of main before it has failed.
Leave(s) ==
  /\ pc[s] = "serve" /\ log[s]["main"] = "out"
  /\ GoTo(s, "join")
  /\ UNCHANGED <<files, level, statics, worker, log, refused, outcome, kills>>

\* Variant: the log is closed before the controller or publisher is.
JoinLater(s) ==
  /\ pc[s] = "join"
  /\ GoTo(s, "deinit")
  /\ UNCHANGED <<files, level, statics, worker, log, refused, outcome, kills>>

\* siren_controller_deinit, led_controller_deinit or mqtt_publisher_deinit.
Join(s) ==
  /\ pc[s] = "join" /\ ~worker[s]
  /\ GoTo(s, "deinit")
  /\ UNCHANGED <<files, level, statics, worker, log, refused, outcome, kills>>

\* emergency_log_deinit, then log_backend_zlog_deinit.
Deinit(s) ==
  /\ pc[s] = "deinit"
  /\ \/ /\ backend_ready[s] /\ using_zlog[s]
        /\ category' = [category EXCEPT ![s] = FALSE]
        /\ GoTo(s, "fini")
     \/ /\ ~(backend_ready[s] /\ using_zlog[s])
        /\ GoTo(s, "clear") /\ UNCHANGED category
  /\ UNCHANGED <<files, level, backend_ready, using_zlog, zlog_open, worker, log,
                 refused, outcome, kills>>

Fini(s) ==
  /\ pc[s] = "fini"
  /\ zlog_open' = [zlog_open EXCEPT ![s] = FALSE]
  /\ GoTo(s, "clear")
  /\ UNCHANGED <<files, level, backend_ready, using_zlog, category, worker, log,
                 refused, outcome, kills>>

\* A process that is no more keeps nothing; what it logged and made remains.
FreshProcess(s) ==
  /\ GoTo(s, "down") /\ level' = [level EXCEPT ![s] = 1]
  /\ backend_ready' = [backend_ready EXCEPT ![s] = FALSE]
  /\ using_zlog' = [using_zlog EXCEPT ![s] = FALSE]
  /\ category' = [category EXCEPT ![s] = FALSE]
  /\ zlog_open' = [zlog_open EXCEPT ![s] = FALSE]
  /\ worker' = [worker EXCEPT ![s] = FALSE]
  /\ log' = [log EXCEPT ![s] = [t \in Threads |-> "out"]]
  /\ refused' = [refused EXCEPT ![s] = FALSE]
  /\ UNCHANGED <<files, outcome>>

\* The two statics are cleared, and main returns.
Clear(s) ==
  /\ pc[s] = "clear"
  /\ FreshProcess(s)
  /\ UNCHANGED kills

Kill(s) ==
  /\ pc[s] # "down" /\ kills < MaxKills
  /\ kills' = kills + 1
  /\ FreshProcess(s)
-----------------------------------------------------------------------------
MainStep(s) ==
  \/ Mkdir(s) \/ Stat(s) \/ ZlogInit(s) \/ GetCategory(s) \/ Ready(s)
  \/ Join(s) \/ Deinit(s) \/ Fini(s) \/ Clear(s)

LogStep(s, t) ==
  \/ ReadReady(s, t) \/ ReadUsing(s, t) \/ ReadCategory(s, t) \/ CallZlog(s, t)

Next ==
  \E s \in Services :
    \/ Start(s) \/ MainStep(s) \/ CreateWorker(s) \/ WorkerEnds(s) \/ Leave(s)
    \/ Kill(s)
    \/ \E t \in Threads : LogBegins(s, t) \/ LogStep(s, t)

Safety == Init /\ [][Next]_vars
-----------------------------------------------------------------------------
(***************************************************************************)
(* Properties.                                                             *)
(***************************************************************************)
\* No message is lost in a category that is not there, and none is handed to a
\* zlog that was closed, although the worker logs without a lock while the main
\* thread takes the library down.
EveryMessageComesOut == outcome \notin {"dropped", "undefined"}

\* Something on the path makes the log directory impossible.
Obstructed ==
  \E k \in Components : entry[k] = "file" \/ (entry[k] = "absent" /\ ~writable[k])

\* Services that start together and make the same directories do not disturb
\* each other: one that has settled for standard output was refused something
\* or found the path obstructed, and one that uses zlog has its directory.
BackendHasReason ==
  \A s \in Services : pc[s] = "serve" =>
    IF using_zlog[s] THEN entry[Depth] = "dir" ELSE refused[s] \/ Obstructed
=============================================================================
