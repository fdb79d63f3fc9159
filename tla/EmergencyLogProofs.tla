------------------------- MODULE EmergencyLogProofs -------------------------
(***************************************************************************)
(* Machine-checked proofs about EmergencyLog, for any services, any depth  *)
(* of the path and any number of kills: no message is lost on the way up   *)
(* or down, and the processes that make the log directory together do not  *)
(* disturb each other.                                                     *)
(***************************************************************************)
EXTENDS EmergencyLog, TLAPS

\* A worker exists only while the service runs or waits for it, and a thread
\* that does not exist, or is elsewhere, is not in emergency_log.
ThreadAt(s) ==
  /\ pc[s] \notin {"serve", "join"} => ~worker[s]
  /\ ~worker[s] => log[s]["worker"] = "out"
  /\ pc[s] # "serve" => log[s]["main"] = "out"

\* Whoever is on the way to zlog finds it open and its category set.
ZlogAt(s) ==
  /\ pc[s] = "ready" => category[s]
  /\ pc[s] \in {"category", "ready"} => zlog_open[s]
  /\ pc[s] \in {"serve", "join", "deinit"} /\ using_zlog[s] =>
       category[s] /\ zlog_open[s]
  /\ \A t \in Threads : log[s][t] \in {"category", "call"} => using_zlog[s]

\* What the process has seen of the path, and why it stopped looking.
PathAt(s) ==
  /\ pc[s] = "down" => level[s] = 1
  /\ pc[s] = "mkdir" => \A j \in 1 .. level[s] - 1 : entry[j] # "absent"
  /\ pc[s] = "stat" => \A j \in Components : entry[j] # "absent"
  /\ pc[s] \in {"zlog_init", "category", "ready"} => entry[Depth] = "dir"
  /\ pc[s] = "serve" =>
       IF using_zlog[s] THEN entry[Depth] = "dir" ELSE refused[s] \/ Obstructed

ThreadInv == \A s \in Services : ThreadAt(s)
ZlogInv == \A s \in Services : ZlogAt(s)
PathInv == \A s \in Services : PathAt(s)

\* A step of one process.
ProcessStep(s) ==
  \/ Start(s) \/ MainStep(s) \/ CreateWorker(s) \/ WorkerEnds(s) \/ Leave(s)
  \/ Kill(s)
  \/ \E t \in Threads : LogBegins(s, t) \/ LogStep(s, t)

\* What a step of another process leaves to this one.
SameAt(u) ==
  /\ pc'[u] = pc[u] /\ level'[u] = level[u]
  /\ using_zlog'[u] = using_zlog[u] /\ category'[u] = category[u]
  /\ zlog_open'[u] = zlog_open[u] /\ worker'[u] = worker[u]
  /\ log'[u] = log[u] /\ refused'[u] = refused[u]

\* What a step may do to the path.
MakesOnly ==
  /\ \A k \in Components :
       entry'[k] = entry[k] \/ (entry[k] = "absent" /\ writable[k] /\ entry'[k] = "dir")
  /\ UNCHANGED writable
-----------------------------------------------------------------------------
\* A step of emergency_log leaves the thread at a place that there is.
LEMMA LogTyped ==
  ASSUME TypeOK, NEW s \in Services, NEW t \in Threads,
         NEW label \in {"out", "ready", "which", "category", "call"}, At(s, t, label)
  PROVE  /\ log' \in [Services -> [Threads -> {"out", "ready", "which", "category", "call"}]]
         /\ log'[s][t] = label
         /\ \A u \in Services, v \in Threads : u # s \/ v # t => log'[u][v] = log[u][v]
<1>1. log \in [Services -> [Threads -> {"out", "ready", "which", "category", "call"}]]
  BY DEF TypeOK
<1>2. log' = [log EXCEPT ![s] = [log[s] EXCEPT ![t] = label]]
  BY DEF At
<1> QED BY <1>1, <1>2

\* A process that ends leaves well-typed variables behind, and nothing else moves.
LEMMA FreshTyped ==
  ASSUME TypeOK, NEW s \in Services, FreshProcess(s), kills' \in 0 .. MaxKills
  PROVE  TypeOK'
<1>1. /\ entry' \in [Components -> {"absent", "dir", "file"}]
      /\ writable' \in [Components -> BOOLEAN]
      /\ pc' \in [Services -> {"down", "mkdir", "stat", "zlog_init", "category", "ready",
                               "serve", "join", "deinit", "fini", "clear"}]
      /\ outcome' \in {"none", "stdout", "zlog", "dropped", "undefined"}
  BY DEF TypeOK, FreshProcess, GoTo, files
<1>2. 1 \in Components
  BY DepthAssumption DEF Components
<1>3. level' \in [Services -> Components]
  BY <1>2 DEF TypeOK, FreshProcess
<1>4. /\ backend_ready' \in [Services -> BOOLEAN] /\ using_zlog' \in [Services -> BOOLEAN]
      /\ category' \in [Services -> BOOLEAN] /\ zlog_open' \in [Services -> BOOLEAN]
      /\ worker' \in [Services -> BOOLEAN] /\ refused' \in [Services -> BOOLEAN]
  BY DEF TypeOK, FreshProcess
<1>5. log' \in [Services -> [Threads -> {"out", "ready", "which", "category", "call"}]]
  BY DEF TypeOK, FreshProcess
<1> QED BY <1>1, <1>3, <1>4, <1>5 DEF TypeOK

\* Every step keeps the types.
LEMMA TypeStep ==
  ASSUME TypeOK, [Next]_vars
  PROVE  TypeOK'
<1> USE DEF TypeOK, files, statics
<1>1. ASSUME NEW s \in Services, Start(s) PROVE TypeOK'
  BY <1>1 DEF Start, GoTo
<1>2. ASSUME NEW s \in Services, Mkdir(s) PROVE TypeOK'
  <2>1. /\ entry' \in [Components -> {"absent", "dir", "file"}]
        /\ UNCHANGED <<writable, category, zlog_open, worker, log, outcome, kills>>
    BY <1>2 DEF Mkdir
  <2>2. level' \in [Services -> Components]
    BY <1>2, DepthAssumption DEF Mkdir, NextComponent, Components
  <2>3. /\ pc' \in [Services -> {"down", "mkdir", "stat", "zlog_init", "category", "ready",
                                 "serve", "join", "deinit", "fini", "clear"}]
        /\ backend_ready' \in [Services -> BOOLEAN] /\ using_zlog' \in [Services -> BOOLEAN]
        /\ refused' \in [Services -> BOOLEAN]
    BY <1>2 DEF Mkdir, NextComponent, FallBack, GoTo
  <2> QED BY <2>1, <2>2, <2>3
<1>3. ASSUME NEW s \in Services, Stat(s) PROVE TypeOK'
  BY <1>3 DEF Stat, FallBack, GoTo
<1>4. ASSUME NEW s \in Services, ZlogInit(s) PROVE TypeOK'
  BY <1>4 DEF ZlogInit, FallBack, GoTo
<1>5. ASSUME NEW s \in Services, GetCategory(s) PROVE TypeOK'
  BY <1>5 DEF GetCategory, FallBack, GoTo
<1>6. ASSUME NEW s \in Services, Ready(s) PROVE TypeOK'
  BY <1>6 DEF Ready, GoTo
<1>7. ASSUME NEW s \in Services, Join(s) PROVE TypeOK'
  BY <1>7 DEF Join, GoTo
<1>8. ASSUME NEW s \in Services, Deinit(s) PROVE TypeOK'
  BY <1>8 DEF Deinit, GoTo
<1>9. ASSUME NEW s \in Services, Fini(s) PROVE TypeOK'
  BY <1>9 DEF Fini, GoTo
<1>10. ASSUME NEW s \in Services, Clear(s) PROVE TypeOK'
  BY <1>10, FreshTyped DEF Clear, TypeOK
<1>11. ASSUME NEW s \in Services, CreateWorker(s) PROVE TypeOK'
  BY <1>11 DEF CreateWorker
<1>12. ASSUME NEW s \in Services, WorkerEnds(s) PROVE TypeOK'
  BY <1>12 DEF WorkerEnds
<1>13. ASSUME NEW s \in Services, Leave(s) PROVE TypeOK'
  BY <1>13 DEF Leave, GoTo
<1>14. ASSUME NEW s \in Services, Kill(s) PROVE TypeOK'
  <2>1. kills' \in 0 .. MaxKills
    BY <1>14, KillAssumption DEF Kill, TypeOK
  <2> QED BY <1>14, <2>1, FreshTyped DEF Kill
<1>15. ASSUME NEW s \in Services, NEW t \in Threads, LogBegins(s, t) PROVE TypeOK'
  <2>1. PICK label \in {"out", "ready", "which", "category", "call"} : At(s, t, label)
    BY <1>15 DEF LogBegins
  <2>2. log' \in [Services -> [Threads -> {"out", "ready", "which", "category", "call"}]]
    BY <2>1, LogTyped
  <2> QED BY <1>15, <2>2 DEF LogBegins
<1>16. ASSUME NEW s \in Services, NEW t \in Threads, ReadReady(s, t) PROVE TypeOK'
  <2>1. PICK label \in {"out", "ready", "which", "category", "call"} : At(s, t, label)
    BY <1>16 DEF ReadReady, Written
  <2>2. log' \in [Services -> [Threads -> {"out", "ready", "which", "category", "call"}]]
    BY <2>1, LogTyped
  <2> QED BY <1>16, <2>2 DEF ReadReady, Written
<1>17. ASSUME NEW s \in Services, NEW t \in Threads, ReadUsing(s, t) PROVE TypeOK'
  <2>1. PICK label \in {"out", "ready", "which", "category", "call"} : At(s, t, label)
    BY <1>17 DEF ReadUsing, Written
  <2>2. log' \in [Services -> [Threads -> {"out", "ready", "which", "category", "call"}]]
    BY <2>1, LogTyped
  <2> QED BY <1>17, <2>2 DEF ReadUsing, Written
<1>18. ASSUME NEW s \in Services, NEW t \in Threads, ReadCategory(s, t) PROVE TypeOK'
  <2>1. PICK label \in {"out", "ready", "which", "category", "call"} : At(s, t, label)
    BY <1>18 DEF ReadCategory, Written
  <2>2. log' \in [Services -> [Threads -> {"out", "ready", "which", "category", "call"}]]
    BY <2>1, LogTyped
  <2> QED BY <1>18, <2>2 DEF ReadCategory, Written
<1>19. ASSUME NEW s \in Services, NEW t \in Threads, CallZlog(s, t) PROVE TypeOK'
  <2>1. PICK label \in {"out", "ready", "which", "category", "call"} : At(s, t, label)
    BY <1>19 DEF CallZlog, Written
  <2>2. log' \in [Services -> [Threads -> {"out", "ready", "which", "category", "call"}]]
    BY <2>1, LogTyped
  <2> QED BY <1>19, <2>2 DEF CallZlog, Written
<1>20. CASE UNCHANGED vars
  BY <1>20 DEF vars
<1> QED BY <1>1, <1>2, <1>3, <1>4, <1>5, <1>6, <1>7, <1>8, <1>9, <1>10,
       <1>11, <1>12, <1>13, <1>14, <1>15, <1>16, <1>17, <1>18,
       <1>19, <1>20
       DEF Next, MainStep, LogStep

\* A step of one process does not touch another.
LEMMA Apart ==
  ASSUME TypeOK, NEW u \in Services, NEW s \in Services, ProcessStep(s)
  PROVE  u # s => SameAt(u)
<1> USE DEF TypeOK, SameAt, statics
<1>1. CASE Start(s)
  BY <1>1 DEF Start, GoTo
<1>2. CASE Mkdir(s)
  BY <1>2 DEF Mkdir, NextComponent, FallBack, GoTo, ParentsAreDirs
<1>3. CASE Stat(s)
  BY <1>3 DEF Stat, FallBack, GoTo
<1>4. CASE ZlogInit(s)
  BY <1>4 DEF ZlogInit, FallBack, GoTo
<1>5. CASE GetCategory(s)
  BY <1>5 DEF GetCategory, FallBack, GoTo
<1>6. CASE Ready(s)
  BY <1>6 DEF Ready, GoTo
<1>7. CASE Join(s)
  BY <1>7 DEF Join, GoTo
<1>8. CASE Deinit(s)
  BY <1>8 DEF Deinit, GoTo
<1>9. CASE Fini(s)
  BY <1>9 DEF Fini, GoTo
<1>10. CASE Clear(s)
  BY <1>10 DEF Clear, FreshProcess, GoTo
<1>11. CASE CreateWorker(s)
  BY <1>11 DEF CreateWorker
<1>12. CASE WorkerEnds(s)
  BY <1>12 DEF WorkerEnds
<1>13. CASE Leave(s)
  BY <1>13 DEF Leave, GoTo
<1>14. CASE Kill(s)
  BY <1>14 DEF Kill, FreshProcess, GoTo
<1>15. ASSUME NEW t \in Threads, LogBegins(s, t) PROVE u # s => SameAt(u)
  BY <1>15 DEF LogBegins, MayLog, At, statics
<1>16. ASSUME NEW t \in Threads, ReadReady(s, t) PROVE u # s => SameAt(u)
  BY <1>16 DEF ReadReady, Written, At, statics
<1>17. ASSUME NEW t \in Threads, ReadUsing(s, t) PROVE u # s => SameAt(u)
  BY <1>17 DEF ReadUsing, Written, At, statics
<1>18. ASSUME NEW t \in Threads, ReadCategory(s, t) PROVE u # s => SameAt(u)
  BY <1>18 DEF ReadCategory, Written, At, statics
<1>19. ASSUME NEW t \in Threads, CallZlog(s, t) PROVE u # s => SameAt(u)
  BY <1>19 DEF CallZlog, Written, At, statics
<1> QED BY <1>1, <1>2, <1>3, <1>4, <1>5, <1>6, <1>7, <1>8, <1>9, <1>10,
       <1>11, <1>12, <1>13, <1>14, <1>15, <1>16, <1>17, <1>18,
       <1>19
       DEF ProcessStep, MainStep, LogStep

\* A step keeps the threads of its own process in their places.
LEMMA ThreadOwn ==
  ASSUME TypeOK, NEW s \in Services, ThreadAt(s), ProcessStep(s)
  PROVE  ThreadAt(s)'
<1>1. CASE Start(s)
  <2>1. UNCHANGED log
    BY <1>1 DEF Start
  <2> QED BY <1>1, <2>1 DEF Start, GoTo, ThreadAt, TypeOK
<1>2. CASE Mkdir(s)
  <2>1. UNCHANGED log
    BY <1>2 DEF Mkdir
  <2> QED BY <1>2, <2>1 DEF Mkdir, NextComponent, FallBack, GoTo, ParentsAreDirs, ThreadAt, TypeOK
<1>3. CASE Stat(s)
  <2>1. UNCHANGED log
    BY <1>3 DEF Stat
  <2> QED BY <1>3, <2>1 DEF Stat, FallBack, GoTo, ThreadAt, TypeOK
<1>4. CASE ZlogInit(s)
  <2>1. UNCHANGED log
    BY <1>4 DEF ZlogInit
  <2> QED BY <1>4, <2>1 DEF ZlogInit, FallBack, GoTo, ThreadAt, TypeOK
<1>5. CASE GetCategory(s)
  <2>1. UNCHANGED log
    BY <1>5 DEF GetCategory
  <2> QED BY <1>5, <2>1 DEF GetCategory, FallBack, GoTo, ThreadAt, TypeOK
<1>6. CASE Ready(s)
  <2>1. UNCHANGED log
    BY <1>6 DEF Ready
  <2> QED BY <1>6, <2>1 DEF Ready, GoTo, ThreadAt, TypeOK
<1>7. CASE Join(s)
  <2>1. UNCHANGED log
    BY <1>7 DEF Join
  <2> QED BY <1>7, <2>1 DEF Join, GoTo, ThreadAt, TypeOK
<1>8. CASE Deinit(s)
  <2>1. UNCHANGED log
    BY <1>8 DEF Deinit
  <2> QED BY <1>8, <2>1 DEF Deinit, GoTo, ThreadAt, TypeOK
<1>9. CASE Fini(s)
  <2>1. UNCHANGED log
    BY <1>9 DEF Fini
  <2> QED BY <1>9, <2>1 DEF Fini, GoTo, ThreadAt, TypeOK
<1>10. CASE Clear(s)
  <2>1. ~worker'[s] /\ log'[s] = [t \in Threads |-> "out"]
    BY <1>10 DEF Clear, FreshProcess, TypeOK
  <2> QED BY <2>1 DEF ThreadAt, Threads
<1>11. CASE CreateWorker(s)
  <2>1. UNCHANGED log
    BY <1>11 DEF CreateWorker
  <2> QED BY <1>11, <2>1 DEF CreateWorker, ThreadAt, TypeOK
<1>12. CASE WorkerEnds(s)
  <2>1. UNCHANGED log
    BY <1>12 DEF WorkerEnds
  <2> QED BY <1>12, <2>1 DEF WorkerEnds, ThreadAt, TypeOK
<1>13. CASE Leave(s)
  <2>1. UNCHANGED log
    BY <1>13 DEF Leave
  <2> QED BY <1>13, <2>1 DEF Leave, GoTo, ThreadAt, TypeOK
<1>14. CASE Kill(s)
  <2>1. ~worker'[s] /\ log'[s] = [t \in Threads |-> "out"]
    BY <1>14 DEF Kill, FreshProcess, TypeOK
  <2> QED BY <2>1 DEF ThreadAt, Threads
<1>15. ASSUME NEW t \in Threads, LogBegins(s, t) PROVE ThreadAt(s)'
  <2>1. PICK label \in {"out", "ready", "which", "category", "call"} : At(s, t, label)
    BY <1>15 DEF LogBegins
  <2>2. \A v \in Threads : v # t => log'[s][v] = log[s][v]
    BY <2>1, LogTyped
  <2>3. UNCHANGED <<pc, worker>>
    BY <1>15 DEF LogBegins
  <2>4. IF t = "main" THEN pc[s] = "serve" ELSE worker[s]
    BY <1>15 DEF LogBegins, MayLog, ThreadAt, Threads
  <2> QED BY <2>2, <2>3, <2>4 DEF ThreadAt, Threads
<1>16. ASSUME NEW t \in Threads, ReadReady(s, t) PROVE ThreadAt(s)'
  <2>1. PICK label \in {"out", "ready", "which", "category", "call"} : At(s, t, label)
    BY <1>16 DEF ReadReady, Written
  <2>2. \A v \in Threads : v # t => log'[s][v] = log[s][v]
    BY <2>1, LogTyped
  <2>3. UNCHANGED <<pc, worker>>
    BY <1>16 DEF ReadReady
  <2>4. IF t = "main" THEN pc[s] = "serve" ELSE worker[s]
    BY <1>16 DEF ReadReady, MayLog, ThreadAt, Threads
  <2> QED BY <2>2, <2>3, <2>4 DEF ThreadAt, Threads
<1>17. ASSUME NEW t \in Threads, ReadUsing(s, t) PROVE ThreadAt(s)'
  <2>1. PICK label \in {"out", "ready", "which", "category", "call"} : At(s, t, label)
    BY <1>17 DEF ReadUsing, Written
  <2>2. \A v \in Threads : v # t => log'[s][v] = log[s][v]
    BY <2>1, LogTyped
  <2>3. UNCHANGED <<pc, worker>>
    BY <1>17 DEF ReadUsing
  <2>4. IF t = "main" THEN pc[s] = "serve" ELSE worker[s]
    BY <1>17 DEF ReadUsing, MayLog, ThreadAt, Threads
  <2> QED BY <2>2, <2>3, <2>4 DEF ThreadAt, Threads
<1>18. ASSUME NEW t \in Threads, ReadCategory(s, t) PROVE ThreadAt(s)'
  <2>1. PICK label \in {"out", "ready", "which", "category", "call"} : At(s, t, label)
    BY <1>18 DEF ReadCategory, Written
  <2>2. \A v \in Threads : v # t => log'[s][v] = log[s][v]
    BY <2>1, LogTyped
  <2>3. UNCHANGED <<pc, worker>>
    BY <1>18 DEF ReadCategory
  <2>4. IF t = "main" THEN pc[s] = "serve" ELSE worker[s]
    BY <1>18 DEF ReadCategory, MayLog, ThreadAt, Threads
  <2> QED BY <2>2, <2>3, <2>4 DEF ThreadAt, Threads
<1>19. ASSUME NEW t \in Threads, CallZlog(s, t) PROVE ThreadAt(s)'
  <2>1. PICK label \in {"out", "ready", "which", "category", "call"} : At(s, t, label)
    BY <1>19 DEF CallZlog, Written
  <2>2. \A v \in Threads : v # t => log'[s][v] = log[s][v]
    BY <2>1, LogTyped
  <2>3. UNCHANGED <<pc, worker>>
    BY <1>19 DEF CallZlog
  <2>4. IF t = "main" THEN pc[s] = "serve" ELSE worker[s]
    BY <1>19 DEF CallZlog, MayLog, ThreadAt, Threads
  <2> QED BY <2>2, <2>3, <2>4 DEF ThreadAt, Threads
<1> QED BY <1>1, <1>2, <1>3, <1>4, <1>5, <1>6, <1>7, <1>8, <1>9, <1>10,
       <1>11, <1>12, <1>13, <1>14, <1>15, <1>16, <1>17, <1>18,
       <1>19
       DEF ProcessStep, MainStep, LogStep

\* A step keeps zlog open for the threads of its process that use it.
LEMMA ZlogOwn ==
  ASSUME TypeOK, NEW s \in Services, ThreadAt(s), ZlogAt(s), ProcessStep(s)
  PROVE  ZlogAt(s)'
<1>1. CASE Start(s)
  <2>1. UNCHANGED <<log, using_zlog>>
    BY <1>1 DEF Start, statics
  <2> QED BY <1>1, <2>1 DEF Start, GoTo, statics, ZlogAt, TypeOK
<1>2. CASE Mkdir(s)
  <2>1. UNCHANGED log
    BY <1>2 DEF Mkdir
  <2>2. \A t \in Threads : log[s][t] = "out"
    BY <1>2 DEF Mkdir, ThreadAt, Threads
  <2> QED
    BY <1>2, <2>1, <2>2
    DEF Mkdir, NextComponent, FallBack, GoTo, ParentsAreDirs, ZlogAt, TypeOK
<1>3. CASE Stat(s)
  <2>1. UNCHANGED log
    BY <1>3 DEF Stat
  <2>2. \A t \in Threads : log[s][t] = "out"
    BY <1>3 DEF Stat, ThreadAt, Threads
  <2> QED BY <1>3, <2>1, <2>2 DEF Stat, FallBack, GoTo, ZlogAt, TypeOK
<1>4. CASE ZlogInit(s)
  <2>1. UNCHANGED log
    BY <1>4 DEF ZlogInit
  <2>2. \A t \in Threads : log[s][t] = "out"
    BY <1>4 DEF ZlogInit, ThreadAt, Threads
  <2> QED BY <1>4, <2>1, <2>2 DEF ZlogInit, FallBack, GoTo, ZlogAt, TypeOK
<1>5. CASE GetCategory(s)
  <2>1. UNCHANGED log
    BY <1>5 DEF GetCategory
  <2>2. \A t \in Threads : log[s][t] = "out"
    BY <1>5 DEF GetCategory, ThreadAt, Threads
  <2> QED BY <1>5, <2>1, <2>2 DEF GetCategory, FallBack, GoTo, ZlogAt, TypeOK
<1>6. CASE Ready(s)
  <2>1. UNCHANGED log
    BY <1>6 DEF Ready
  <2>2. \A t \in Threads : log[s][t] = "out"
    BY <1>6 DEF Ready, ThreadAt, Threads
  <2> QED BY <1>6, <2>1, <2>2 DEF Ready, GoTo, ZlogAt, TypeOK
<1>7. CASE Join(s)
  <2>1. UNCHANGED <<log, using_zlog>>
    BY <1>7 DEF Join, statics
  <2> QED BY <1>7, <2>1 DEF Join, GoTo, statics, ZlogAt, TypeOK
<1>8. CASE Deinit(s)
  <2>1. UNCHANGED <<log, using_zlog>>
    BY <1>8 DEF Deinit
  <2> QED BY <1>8, <2>1 DEF Deinit, GoTo, ZlogAt, TypeOK
<1>9. CASE Fini(s)
  <2>1. UNCHANGED <<log, using_zlog>>
    BY <1>9 DEF Fini
  <2> QED BY <1>9, <2>1 DEF Fini, GoTo, ZlogAt, TypeOK
<1>10. CASE Clear(s)
  <2>1. pc'[s] = "down" /\ log'[s] = [t \in Threads |-> "out"]
    BY <1>10 DEF Clear, FreshProcess, GoTo, TypeOK
  <2> QED BY <2>1 DEF ZlogAt
<1>11. CASE CreateWorker(s)
  <2>1. UNCHANGED <<log, using_zlog>>
    BY <1>11 DEF CreateWorker, statics
  <2> QED BY <1>11, <2>1 DEF CreateWorker, statics, ZlogAt, TypeOK
<1>12. CASE WorkerEnds(s)
  <2>1. UNCHANGED <<log, using_zlog>>
    BY <1>12 DEF WorkerEnds, statics
  <2> QED BY <1>12, <2>1 DEF WorkerEnds, statics, ZlogAt, TypeOK
<1>13. CASE Leave(s)
  <2>1. UNCHANGED <<log, using_zlog>>
    BY <1>13 DEF Leave, statics
  <2> QED BY <1>13, <2>1 DEF Leave, GoTo, statics, ZlogAt, TypeOK
<1>14. CASE Kill(s)
  <2>1. pc'[s] = "down" /\ log'[s] = [t \in Threads |-> "out"]
    BY <1>14 DEF Kill, FreshProcess, GoTo, TypeOK
  <2> QED BY <2>1 DEF ZlogAt
<1>15. ASSUME NEW t \in Threads, LogBegins(s, t) PROVE ZlogAt(s)'
  <2>1. PICK label \in {"out", "ready", "which", "category", "call"} : At(s, t, label)
    BY <1>15 DEF LogBegins
  <2>2. \A v \in Threads : v # t => log'[s][v] = log[s][v]
    BY <2>1, LogTyped
  <2>3. UNCHANGED <<pc, using_zlog, category, zlog_open>>
    BY <1>15 DEF LogBegins, statics
  <2>4. log'[s][t] \in {"category", "call"} => using_zlog[s]
    BY <1>15, <2>1, LogTyped DEF LogBegins, At, ZlogAt, TypeOK
  <2> QED BY <2>2, <2>3, <2>4 DEF ZlogAt
<1>16. ASSUME NEW t \in Threads, ReadReady(s, t) PROVE ZlogAt(s)'
  <2>1. PICK label \in {"out", "ready", "which", "category", "call"} : At(s, t, label)
    BY <1>16 DEF ReadReady, Written
  <2>2. \A v \in Threads : v # t => log'[s][v] = log[s][v]
    BY <2>1, LogTyped
  <2>3. UNCHANGED <<pc, using_zlog, category, zlog_open>>
    BY <1>16 DEF ReadReady, statics
  <2>4. log'[s][t] \in {"category", "call"} => using_zlog[s]
    BY <1>16, <2>1, LogTyped DEF ReadReady, Written, At, ZlogAt, TypeOK
  <2> QED BY <2>2, <2>3, <2>4 DEF ZlogAt
<1>17. ASSUME NEW t \in Threads, ReadUsing(s, t) PROVE ZlogAt(s)'
  <2>1. PICK label \in {"out", "ready", "which", "category", "call"} : At(s, t, label)
    BY <1>17 DEF ReadUsing, Written
  <2>2. \A v \in Threads : v # t => log'[s][v] = log[s][v]
    BY <2>1, LogTyped
  <2>3. UNCHANGED <<pc, using_zlog, category, zlog_open>>
    BY <1>17 DEF ReadUsing, statics
  <2>4. log'[s][t] \in {"category", "call"} => using_zlog[s]
    BY <1>17, <2>1, LogTyped DEF ReadUsing, Written, At, ZlogAt, TypeOK
  <2> QED BY <2>2, <2>3, <2>4 DEF ZlogAt
<1>18. ASSUME NEW t \in Threads, ReadCategory(s, t) PROVE ZlogAt(s)'
  <2>1. PICK label \in {"out", "ready", "which", "category", "call"} : At(s, t, label)
    BY <1>18 DEF ReadCategory, Written
  <2>2. \A v \in Threads : v # t => log'[s][v] = log[s][v]
    BY <2>1, LogTyped
  <2>3. UNCHANGED <<pc, using_zlog, category, zlog_open>>
    BY <1>18 DEF ReadCategory, statics
  <2>4. log'[s][t] \in {"category", "call"} => using_zlog[s]
    BY <1>18, <2>1, LogTyped DEF ReadCategory, Written, At, ZlogAt, TypeOK
  <2> QED BY <2>2, <2>3, <2>4 DEF ZlogAt
<1>19. ASSUME NEW t \in Threads, CallZlog(s, t) PROVE ZlogAt(s)'
  <2>1. PICK label \in {"out", "ready", "which", "category", "call"} : At(s, t, label)
    BY <1>19 DEF CallZlog, Written
  <2>2. \A v \in Threads : v # t => log'[s][v] = log[s][v]
    BY <2>1, LogTyped
  <2>3. UNCHANGED <<pc, using_zlog, category, zlog_open>>
    BY <1>19 DEF CallZlog, statics
  <2>4. log'[s][t] \in {"category", "call"} => using_zlog[s]
    BY <1>19, <2>1, LogTyped DEF CallZlog, Written, At, ZlogAt, TypeOK
  <2> QED BY <2>2, <2>3, <2>4 DEF ZlogAt
<1> QED BY <1>1, <1>2, <1>3, <1>4, <1>5, <1>6, <1>7, <1>8, <1>9, <1>10,
       <1>11, <1>12, <1>13, <1>14, <1>15, <1>16, <1>17, <1>18,
       <1>19
       DEF ProcessStep, MainStep, LogStep

\* The path only changes where a directory that could be made is made.
LEMMA OnlyMade ==
  ASSUME TypeOK, NEW s \in Services, ProcessStep(s)
  PROVE  MakesOnly
<1>1. CASE Start(s)
  BY <1>1 DEF Start, files, MakesOnly
<1>2. CASE Mkdir(s)
  BY <1>2 DEF Mkdir, TypeOK, MakesOnly
<1>3. CASE Stat(s)
  BY <1>3 DEF Stat, files, MakesOnly
<1>4. CASE ZlogInit(s)
  BY <1>4 DEF ZlogInit, files, MakesOnly
<1>5. CASE GetCategory(s)
  BY <1>5 DEF GetCategory, files, MakesOnly
<1>6. CASE Ready(s)
  BY <1>6 DEF Ready, files, MakesOnly
<1>7. CASE Join(s)
  BY <1>7 DEF Join, files, MakesOnly
<1>8. CASE Deinit(s)
  BY <1>8 DEF Deinit, files, MakesOnly
<1>9. CASE Fini(s)
  BY <1>9 DEF Fini, files, MakesOnly
<1>10. CASE Clear(s)
  BY <1>10 DEF Clear, FreshProcess, files, MakesOnly
<1>11. CASE CreateWorker(s)
  BY <1>11 DEF CreateWorker, files, MakesOnly
<1>12. CASE WorkerEnds(s)
  BY <1>12 DEF WorkerEnds, files, MakesOnly
<1>13. CASE Leave(s)
  BY <1>13 DEF Leave, files, MakesOnly
<1>14. CASE Kill(s)
  BY <1>14 DEF Kill, FreshProcess, files, MakesOnly
<1>15. ASSUME NEW t \in Threads, LogBegins(s, t) PROVE MakesOnly
  BY <1>15 DEF LogBegins, files, MakesOnly
<1>16. ASSUME NEW t \in Threads, ReadReady(s, t) PROVE MakesOnly
  BY <1>16 DEF ReadReady, files, MakesOnly
<1>17. ASSUME NEW t \in Threads, ReadUsing(s, t) PROVE MakesOnly
  BY <1>17 DEF ReadUsing, files, MakesOnly
<1>18. ASSUME NEW t \in Threads, ReadCategory(s, t) PROVE MakesOnly
  BY <1>18 DEF ReadCategory, files, MakesOnly
<1>19. ASSUME NEW t \in Threads, CallZlog(s, t) PROVE MakesOnly
  BY <1>19 DEF CallZlog, files, MakesOnly
<1> QED BY <1>1, <1>2, <1>3, <1>4, <1>5, <1>6, <1>7, <1>8, <1>9, <1>10,
       <1>11, <1>12, <1>13, <1>14, <1>15, <1>16, <1>17, <1>18,
       <1>19
       DEF ProcessStep, MainStep, LogStep

\* What is in the way stays there, and what was found stays found.
LEMMA PathKept ==
  ASSUME TypeOK, NEW s \in Services, ProcessStep(s)
  PROVE  /\ Obstructed => Obstructed'
         /\ \A k \in Components : entry[k] # "absent" => entry'[k] = entry[k]
<1>1. MakesOnly
  BY OnlyMade
<1> QED BY <1>1 DEF MakesOnly, Obstructed

\* A step keeps what its process knows of the path.
LEMMA PathOwn ==
  ASSUME TypeOK, NEW s \in Services, PathAt(s), ProcessStep(s)
  PROVE  PathAt(s)'
<1>1. CASE Start(s)
  <2>1. pc'[s] = "mkdir" /\ level'[s] = 1
    BY <1>1 DEF Start, GoTo, PathAt, TypeOK
  <2> QED BY <2>1 DEF PathAt
<1>2. CASE Mkdir(s)
  <2> DEFINE k == level[s]
  <2>1. k \in Components /\ Depth \in Nat
    BY DepthAssumption DEF TypeOK
  <2>2. \A j \in 1 .. k - 1 : j \in Components /\ entry[j] # "absent"
    BY <1>2, <2>1 DEF Mkdir, PathAt, Components
  <2>3. CASE pc'[s] = "serve"
    <3>1. ~using_zlog'[s]
      BY <1>2, <2>3 DEF Mkdir, NextComponent, FallBack, GoTo, TypeOK
    <3>2. refused'[s] \/ ~ParentsAreDirs(k) \/ (entry[k] = "absent" /\ ~writable[k])
      BY <1>2, <2>3 DEF Mkdir, NextComponent, GoTo, TypeOK
    <3>3. ~ParentsAreDirs(k) => Obstructed
      BY <2>2 DEF ParentsAreDirs, Obstructed, TypeOK
    <3>4. entry[k] = "absent" /\ ~writable[k] => Obstructed
      BY <2>1 DEF Obstructed
    <3> QED BY <2>3, <3>1, <3>2, <3>3, <3>4, PathKept DEF PathAt
  <2>4. CASE pc'[s] # "serve"
    <3>1. NextComponent(s) /\ entry'[k] # "absent"
      BY <1>2, <2>1, <2>4 DEF Mkdir, FallBack, GoTo, TypeOK
    <3>2. \A j \in 1 .. k : j \in Components /\ entry'[j] # "absent"
      BY <2>1, <2>2, <3>1, PathKept DEF Components
    <3>3. CASE k < Depth
      <4>1. pc'[s] = "mkdir" /\ level'[s] = k + 1
        BY <1>2, <3>1, <3>3 DEF Mkdir, NextComponent, TypeOK
      <4>2. \A j \in 1 .. level'[s] - 1 : entry'[j] # "absent"
        BY <2>1, <3>2, <4>1 DEF Components
      <4> QED BY <4>1, <4>2 DEF PathAt
    <3>4. CASE ~(k < Depth)
      <4>1. pc'[s] = "stat"
        BY <3>1, <3>4 DEF NextComponent, GoTo, TypeOK
      <4>2. k = Depth
        BY <2>1, <3>4 DEF Components
      <4> QED BY <3>2, <4>1, <4>2 DEF PathAt, Components
    <3> QED BY <3>3, <3>4
  <2> QED BY <2>3, <2>4
<1>3. CASE Stat(s)
  <2>1. Depth \in Components /\ UNCHANGED <<entry, writable>>
    BY <1>3, DepthAssumption DEF Stat, files, Components
  <2>2. entry[Depth] # "dir" => Obstructed'
    BY <1>3, <2>1 DEF Stat, PathAt, Obstructed, TypeOK
  <2> QED BY <1>3, <2>1, <2>2 DEF Stat, FallBack, GoTo, PathAt, TypeOK
<1>4. CASE ZlogInit(s)
  <2>1. UNCHANGED entry
    BY <1>4 DEF ZlogInit, files
  <2> QED BY <1>4, <2>1 DEF ZlogInit, FallBack, GoTo, PathAt, TypeOK
<1>5. CASE GetCategory(s)
  <2>1. UNCHANGED entry
    BY <1>5 DEF GetCategory, files
  <2> QED BY <1>5, <2>1 DEF GetCategory, FallBack, GoTo, PathAt, TypeOK
<1>6. CASE Ready(s)
  <2>1. UNCHANGED entry
    BY <1>6 DEF Ready, files
  <2> QED BY <1>6, <2>1 DEF Ready, GoTo, PathAt, TypeOK
<1>7. CASE Join(s)
  <2>1. pc'[s] \in {"join", "deinit", "fini", "clear"}
    BY <1>7 DEF Join, GoTo, TypeOK
  <2> QED BY <2>1 DEF PathAt
<1>8. CASE Deinit(s)
  <2>1. pc'[s] \in {"join", "deinit", "fini", "clear"}
    BY <1>8 DEF Deinit, GoTo, TypeOK
  <2> QED BY <2>1 DEF PathAt
<1>9. CASE Fini(s)
  <2>1. pc'[s] \in {"join", "deinit", "fini", "clear"}
    BY <1>9 DEF Fini, GoTo, TypeOK
  <2> QED BY <2>1 DEF PathAt
<1>10. CASE Clear(s)
  <2>1. pc'[s] = "down" /\ level'[s] = 1
    BY <1>10 DEF Clear, FreshProcess, GoTo, TypeOK
  <2> QED BY <2>1 DEF PathAt
<1>11. CASE CreateWorker(s)
  <2>1. UNCHANGED <<files, pc, level, statics, refused>>
    BY <1>11 DEF CreateWorker
  <2> QED BY <2>1 DEF PathAt, Obstructed, files, statics
<1>12. CASE WorkerEnds(s)
  <2>1. UNCHANGED <<files, pc, level, statics, refused>>
    BY <1>12 DEF WorkerEnds
  <2> QED BY <2>1 DEF PathAt, Obstructed, files, statics
<1>13. CASE Leave(s)
  <2>1. pc'[s] \in {"join", "deinit", "fini", "clear"}
    BY <1>13 DEF Leave, GoTo, TypeOK
  <2> QED BY <2>1 DEF PathAt
<1>14. CASE Kill(s)
  <2>1. pc'[s] = "down" /\ level'[s] = 1
    BY <1>14 DEF Kill, FreshProcess, GoTo, TypeOK
  <2> QED BY <2>1 DEF PathAt
<1>15. ASSUME NEW t \in Threads, LogBegins(s, t) PROVE PathAt(s)'
  <2>1. UNCHANGED <<files, pc, level, statics, refused>>
    BY <1>15 DEF LogBegins
  <2> QED BY <2>1 DEF PathAt, Obstructed, files, statics
<1>16. ASSUME NEW t \in Threads, ReadReady(s, t) PROVE PathAt(s)'
  <2>1. UNCHANGED <<files, pc, level, statics, refused>>
    BY <1>16 DEF ReadReady
  <2> QED BY <2>1 DEF PathAt, Obstructed, files, statics
<1>17. ASSUME NEW t \in Threads, ReadUsing(s, t) PROVE PathAt(s)'
  <2>1. UNCHANGED <<files, pc, level, statics, refused>>
    BY <1>17 DEF ReadUsing
  <2> QED BY <2>1 DEF PathAt, Obstructed, files, statics
<1>18. ASSUME NEW t \in Threads, ReadCategory(s, t) PROVE PathAt(s)'
  <2>1. UNCHANGED <<files, pc, level, statics, refused>>
    BY <1>18 DEF ReadCategory
  <2> QED BY <2>1 DEF PathAt, Obstructed, files, statics
<1>19. ASSUME NEW t \in Threads, CallZlog(s, t) PROVE PathAt(s)'
  <2>1. UNCHANGED <<files, pc, level, statics, refused>>
    BY <1>19 DEF CallZlog
  <2> QED BY <2>1 DEF PathAt, Obstructed, files, statics
<1> QED BY <1>1, <1>2, <1>3, <1>4, <1>5, <1>6, <1>7, <1>8, <1>9, <1>10,
       <1>11, <1>12, <1>13, <1>14, <1>15, <1>16, <1>17, <1>18,
       <1>19
       DEF ProcessStep, MainStep, LogStep

\* The invariant: who is where, what zlog is, what is known of the path.
LogInv == TypeOK /\ ThreadInv /\ ZlogInv /\ PathInv /\ EveryMessageComesOut

\* A step of one process keeps the invariant at every process.
LEMMA ProcessKeeps ==
  ASSUME TypeOK, ThreadInv, ZlogInv, PathInv, NEW s \in Services, ProcessStep(s)
  PROVE  ThreadInv' /\ ZlogInv' /\ PathInv'
<1> SUFFICES ASSUME NEW u \in Services
             PROVE  ThreadAt(u)' /\ ZlogAt(u)' /\ PathAt(u)'
  BY DEF ThreadInv, ZlogInv, PathInv
<1>1. ThreadAt(u) /\ ZlogAt(u) /\ PathAt(u)
  BY DEF ThreadInv, ZlogInv, PathInv
<1>2. CASE u = s
  BY <1>1, <1>2, ThreadOwn, ZlogOwn, PathOwn
<1>3. CASE u # s
  <2>1. SameAt(u)
    BY <1>3, Apart
  <2>2. ThreadAt(u)' /\ ZlogAt(u)'
    BY <1>1, <2>1 DEF SameAt, ThreadAt, ZlogAt
  <2>3. level[u] \in Components /\ Depth \in Components
    BY DepthAssumption DEF TypeOK, Components
  <2>4. \A j \in 1 .. level[u] - 1 : j \in Components
    BY <2>3, DepthAssumption DEF Components
  <2>5. PathAt(u)'
    BY <1>1, <2>1, <2>3, <2>4, PathKept DEF SameAt, PathAt
  <2> QED BY <2>2, <2>5
<1> QED BY <1>2, <1>3

\* A message is written to standard output, or to zlog while it is open.
LEMMA OutcomeStep ==
  ASSUME TypeOK, NEW s \in Services, ThreadAt(s), ZlogAt(s), EveryMessageComesOut,
         ProcessStep(s)
  PROVE  EveryMessageComesOut'
<1>1. ASSUME NEW t \in Threads, log[s][t] \in {"category", "call"}
      PROVE  category[s] /\ zlog_open[s]
  <2>1. using_zlog[s] /\ pc[s] \in {"serve", "join"}
    BY <1>1 DEF ThreadAt, ZlogAt, Threads
  <2> QED BY <2>1 DEF ZlogAt
<1>2. CASE Start(s)
  BY <1>2 DEF Start, EveryMessageComesOut
<1>3. CASE Mkdir(s)
  BY <1>3 DEF Mkdir, EveryMessageComesOut
<1>4. CASE Stat(s)
  BY <1>4 DEF Stat, EveryMessageComesOut
<1>5. CASE ZlogInit(s)
  BY <1>5 DEF ZlogInit, EveryMessageComesOut
<1>6. CASE GetCategory(s)
  BY <1>6 DEF GetCategory, EveryMessageComesOut
<1>7. CASE Ready(s)
  BY <1>7 DEF Ready, EveryMessageComesOut
<1>8. CASE Join(s)
  BY <1>8 DEF Join, EveryMessageComesOut
<1>9. CASE Deinit(s)
  BY <1>9 DEF Deinit, EveryMessageComesOut
<1>10. CASE Fini(s)
  BY <1>10 DEF Fini, EveryMessageComesOut
<1>11. CASE Clear(s)
  BY <1>11 DEF Clear, FreshProcess, EveryMessageComesOut
<1>12. CASE CreateWorker(s)
  BY <1>12 DEF CreateWorker, EveryMessageComesOut
<1>13. CASE WorkerEnds(s)
  BY <1>13 DEF WorkerEnds, EveryMessageComesOut
<1>14. CASE Leave(s)
  BY <1>14 DEF Leave, EveryMessageComesOut
<1>15. CASE Kill(s)
  BY <1>15 DEF Kill, FreshProcess, EveryMessageComesOut
<1>16. ASSUME NEW t \in Threads, LogBegins(s, t) PROVE EveryMessageComesOut'
  BY <1>16 DEF LogBegins, EveryMessageComesOut
<1>17. ASSUME NEW t \in Threads, ReadReady(s, t) PROVE EveryMessageComesOut'
  BY <1>17 DEF ReadReady, Written, EveryMessageComesOut
<1>18. ASSUME NEW t \in Threads, ReadUsing(s, t) PROVE EveryMessageComesOut'
  BY <1>18 DEF ReadUsing, Written, EveryMessageComesOut
<1>19. ASSUME NEW t \in Threads, ReadCategory(s, t) PROVE EveryMessageComesOut'
  BY <1>1, <1>19 DEF ReadCategory, Written, EveryMessageComesOut
<1>20. ASSUME NEW t \in Threads, CallZlog(s, t) PROVE EveryMessageComesOut'
  BY <1>1, <1>20 DEF CallZlog, Written, EveryMessageComesOut
<1> QED BY <1>2, <1>3, <1>4, <1>5, <1>6, <1>7, <1>8, <1>9, <1>10,
       <1>11, <1>12, <1>13, <1>14, <1>15, <1>16, <1>17, <1>18,
       <1>19, <1>20
       DEF ProcessStep, MainStep, LogStep

-----------------------------------------------------------------------------
\* The processes are down and the path is as the board comes up with it.
LEMMA InitInv == Init => LogInv
<1> SUFFICES ASSUME Init PROVE LogInv
  OBVIOUS
<1>1. 1 \in Components
  BY DepthAssumption DEF Components
<1>2. TypeOK
  BY <1>1, KillAssumption DEF Init, TypeOK
<1>3. \A s \in Services : ThreadAt(s) /\ ZlogAt(s) /\ PathAt(s)
  BY DEF Init, ThreadAt, ZlogAt, PathAt, Threads
<1> QED BY <1>2, <1>3 DEF Init, LogInv, ThreadInv, ZlogInv, PathInv, EveryMessageComesOut

\* The invariant is inductive.
LEMMA InvStep == LogInv /\ [Next]_vars => LogInv'
<1> SUFFICES ASSUME LogInv, [Next]_vars PROVE LogInv'
  OBVIOUS
<1>1. TypeOK'
  BY TypeStep DEF LogInv
<1>2. CASE Next
  <2>1. PICK s \in Services : ProcessStep(s)
    BY <1>2 DEF Next, ProcessStep
  <2>2. ThreadInv' /\ ZlogInv' /\ PathInv'
    BY <2>1, ProcessKeeps DEF LogInv
  <2>3. ThreadAt(s) /\ ZlogAt(s)
    BY DEF LogInv, ThreadInv, ZlogInv
  <2>4. EveryMessageComesOut'
    BY <2>1, <2>3, OutcomeStep DEF LogInv
  <2> QED BY <1>1, <2>2, <2>4 DEF LogInv
<1>3. CASE UNCHANGED vars
  <2>1. ThreadInv' /\ ZlogInv'
    BY <1>3 DEF LogInv, ThreadInv, ThreadAt, ZlogInv, ZlogAt, vars, statics
  <2>2. PathInv' /\ EveryMessageComesOut'
    BY <1>3 DEF LogInv, PathInv, PathAt, Obstructed, EveryMessageComesOut, vars, files, statics
  <2> QED BY <1>1, <2>1, <2>2 DEF LogInv
<1> QED BY <1>2, <1>3

\* The invariant holds in every state.
THEOREM LogInvariant == Safety => []LogInv
<1> QED BY InitInv, InvStep, PTL DEF Safety

\* Every variable keeps its type, for any services and any depth of the path.
THEOREM TypeCorrect == Safety => []TypeOK
<1>1. LogInv => TypeOK
  BY DEF LogInv
<1> QED BY <1>1, LogInvariant, PTL

\* emergency_log: no message goes to a category that is not there or to a zlog
\* that was closed, although it reads three statics without a lock.
THEOREM NoMessageLost == Safety => []EveryMessageComesOut
<1>1. LogInv => EveryMessageComesOut
  BY DEF LogInv
<1> QED BY <1>1, LogInvariant, PTL

\* emergency_log_init: services that start together and make the same
\* directories do not disturb each other.
THEOREM StartTogether == Safety => []BackendHasReason
<1>1. LogInv => BackendHasReason
  BY DEF LogInv, PathInv, PathAt, BackendHasReason
<1> QED BY <1>1, LogInvariant, PTL
=============================================================================
