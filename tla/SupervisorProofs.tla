-------------------------- MODULE SupervisorProofs --------------------------
(***************************************************************************)
(* Invariance proofs for Supervisor, for any number of projects, request   *)
(* threads, ports and process ids.  Each part of the inductive invariant   *)
(* has a lemma per group of actions; the theorems combine them.            *)
(***************************************************************************)
EXTENDS Supervisor, FiniteSetTheorems, TLAPS

(* A thread that waits for a child waits for one that was spawned.         *)
HandlesSpawned ==
    /\ \A c \in Clients : op[c].pc = "reap" => kid[op[c].tgt].st # "unborn"
    /\ shut.pc = "reap" => kid[shut.tgt].st # "unborn"

TypeInv == TypeOK /\ HandlesSpawned

LEMMA ReapedKeepsType ==
    ASSUME TypeOK, NEW k \in Kids, kid[k].st # "unborn", Reaped(k)
    PROVE  /\ kid' \in [Kids -> Kid]
           /\ \A j \in Kids : kid[j].st # "unborn" => kid'[j].st # "unborn"
  BY DEF TypeOK, Reaped, Kid, NotSpawned

LEMMA SpawnKeepsType ==
    ASSUME TypeOK, NEW p \in Projects, NEW k \in Kids, NEW q \in Ports,
           NEW preferred, SpawnLocked(p, preferred, k, q)
    PROVE  /\ status' \in [Projects -> Status]
           /\ proc' \in [Projects -> Kids \cup {NoKid}]
           /\ port' \in [Projects -> Ports \cup {NoPort}]
           /\ error' \in [Projects -> Error]
           /\ kid' \in [Kids -> Kid]
           /\ \A j \in Kids : kid[j].st # "unborn" => kid'[j].st # "unborn"
  BY DEF TypeOK, SpawnLocked, Kid, Status, Error

LEMMA RequestType ==
    ASSUME TypeInv, NEW c \in Clients, NEW p \in Projects, Request(c, p)
    PROVE  TypeInv'
  <1> USE DEF TypeInv, TypeOK, HandlesSpawned, inst, locks, monitor, life, Goto, Op
  <1>1. ASSUME NEW confirm \in BOOLEAN, Start(c, p, confirm)
        PROVE  TypeInv'
    BY <1>1 DEF Start
  <1>2. CASE Stop(c, p)
    BY <1>2 DEF Stop
  <1>3. CASE Replace(c, p)
    BY <1>3 DEF Replace
  <1>q. QED
    BY <1>1, <1>2, <1>3 DEF Request

LEMMA StartType ==
    ASSUME TypeInv, NEW c \in Clients, NEW p \in Projects,
           \/ StartRefused(c, p) \/ StartAlreadyUp(c, p) \/ StartSpawn(c, p)
           \/ StartSpawnFails(c, p) \/ StartHealthy(c, p) \/ StartUnhealthy(c, p)
           \/ StartMarkRunning(c, p) \/ StartUpsert(c, p)
           \/ StartTeardown(c, p) \/ StartReap(c, p)
    PROVE  TypeInv'
  <1> USE NullAssumption
      DEF TypeInv, TypeOK, HandlesSpawned, inst, locks, monitor, life, Goto, At, Op, Idle
  <1>1. CASE StartRefused(c, p)
    BY <1>1 DEF StartRefused
  <1>2. CASE StartAlreadyUp(c, p)
    BY <1>2 DEF StartAlreadyUp, Startable
  <1>3. CASE StartSpawn(c, p)
    <2>1. PICK k \in Kids, q \in Ports :
              /\ SpawnLocked(p, running[p], k, q)
              /\ Goto(c, [pc |-> "health", p |-> p, port |-> q])
      BY <1>3 DEF StartSpawn
    <2> HIDE DEF SpawnLocked
    <2>2. /\ status' \in [Projects -> Status]
          /\ proc' \in [Projects -> Kids \cup {NoKid}]
          /\ port' \in [Projects -> Ports \cup {NoPort}]
          /\ error' \in [Projects -> Error]
          /\ kid' \in [Kids -> Kid]
          /\ \A j \in Kids : kid[j].st # "unborn" => kid'[j].st # "unborn"
      BY <2>1, SpawnKeepsType
    <2>3. oplock' \in [Projects -> Clients \cup {Nobody}]
      BY <1>3 DEF StartSpawn, Acquire
    <2>4. op' \in [Clients -> Op]
      BY <2>1
    <2>5. HandlesSpawned'
      <3>1. \A d \in Clients : op'[d].pc = "reap" => op'[d] = op[d] /\ op[d].tgt \in Kids
        BY <2>1
      <3>2. shut' = shut /\ (shut.pc = "reap" => shut.tgt \in Kids)
        BY <1>3 DEF StartSpawn, Shut
      <3>q. QED
        BY <2>2, <3>1, <3>2
    <2>6. starts' \in [Projects -> Nat] /\ UNCHANGED <<autos, running, cond, monitor, life>>
          /\ stopping' \subseteq Projects
      BY <1>3 DEF StartSpawn
    <2>7. TypeOK'
      BY <2>2, <2>3, <2>4, <2>6
    <2>q. QED
      BY <2>5, <2>7
  <1>4. CASE StartSpawnFails(c, p)
    BY <1>4 DEF StartSpawnFails, Startable, SpawnFails, Status, Error
  <1>5. CASE StartHealthy(c, p)
    BY <1>5 DEF StartHealthy
  <1>6. CASE StartUnhealthy(c, p)
    BY <1>6 DEF StartUnhealthy, Error
  <1>7. CASE StartMarkRunning(c, p)
    BY <1>7 DEF StartMarkRunning, Status
  <1>8. CASE StartUpsert(c, p)
    <2>1. mon' \in Mon /\ monstop' \in BOOLEAN
      <3>1. EnsureMonitor
        BY <1>8 DEF StartUpsert
      <3>2. CASE mon.pc = "off"
        <4>1. mon' = [pc |-> "wait"] /\ monstop' = FALSE
          BY <3>1, <3>2 DEF EnsureMonitor
        <4>q. QED
          BY <4>1 DEF Mon
      <3>3. CASE mon.pc # "off"
        BY <3>1, <3>3 DEF EnsureMonitor
      <3>q. QED
        BY <3>2, <3>3
    <2>2. op' \in [Clients -> Op] /\ oplock' \in [Projects -> Clients \cup {Nobody}]
      BY <1>8 DEF StartUpsert, Release
    <2>3. running' \in [Projects -> Ports \cup {NoPort}]
      BY <1>8 DEF StartUpsert, Record
    <2>4. HandlesSpawned'
      BY <1>8 DEF StartUpsert
    <2>q. QED
      BY <1>8, <2>1, <2>2, <2>3, <2>4 DEF StartUpsert
  <1>9. CASE StartTeardown(c, p)
    <2>1. CASE Live(proc[p])
      BY <1>9, <2>1 DEF StartTeardown, Live
    <2>2. CASE ~Live(proc[p])
      BY <1>9, <2>2 DEF StartTeardown, Release, Status, Error
    <2>q. QED
      BY <2>1, <2>2
  <1>10. CASE StartReap(c, p)
    <2>1. op[c].tgt \in Kids /\ kid[op[c].tgt].st # "unborn" /\ Reaped(op[c].tgt)
      BY <1>10 DEF StartReap
    <2>2. /\ kid' \in [Kids -> Kid]
          /\ \A j \in Kids : kid[j].st # "unborn" => kid'[j].st # "unborn"
      BY <2>1, ReapedKeepsType
    <2>3. op' \in [Clients -> Op] /\ oplock' \in [Projects -> Clients \cup {Nobody}]
      BY <1>10 DEF StartReap, Release
    <2>4. HandlesSpawned'
      <3>1. \A d \in Clients : op'[d].pc = "reap" => op'[d] = op[d] /\ op[d].tgt \in Kids
        BY <1>10 DEF StartReap
      <3>2. shut' = shut /\ (shut.pc = "reap" => shut.tgt \in Kids)
        BY <1>10 DEF StartReap, Shut
      <3>q. QED
        BY <2>2, <3>1, <3>2
    <2>q. QED
      BY <1>10, <2>2, <2>3, <2>4 DEF StartReap, Status, Error
  <1>q. QED
    BY <1>1, <1>2, <1>3, <1>4, <1>5, <1>6, <1>7, <1>8, <1>9, <1>10

LEMMA StopType ==
    ASSUME TypeInv, NEW c \in Clients, NEW p \in Projects,
           \/ StopBegin(c, p) \/ StopReap(c, p) \/ StopEnd(c, p)
           \/ ReplaceBegin(c, p) \/ ReplaceEnd(c, p)
    PROVE  TypeInv'
  <1> USE NullAssumption
      DEF TypeInv, TypeOK, HandlesSpawned, inst, locks, monitor, life, Goto, At, Op, Idle
  <1>1. CASE StopBegin(c, p)
    <2>1. CASE Live(proc[p])
      BY <1>1, <2>1 DEF StopBegin, Live, Acquire
    <2>2. CASE ~Live(proc[p])
      BY <1>1, <2>2 DEF StopBegin, Acquire, Status
    <2>q. QED
      BY <2>1, <2>2
  <1>2. CASE StopReap(c, p)
    <2>1. op[c].tgt \in Kids /\ kid[op[c].tgt].st # "unborn" /\ Reaped(op[c].tgt)
      BY <1>2 DEF StopReap
    <2>2. /\ kid' \in [Kids -> Kid]
          /\ \A j \in Kids : kid[j].st # "unborn" => kid'[j].st # "unborn"
      BY <2>1, ReapedKeepsType
    <2>3. op' \in [Clients -> Op]
      BY <1>2 DEF StopReap
    <2>4. HandlesSpawned'
      <3>1. \A d \in Clients : op'[d].pc = "reap" => op'[d] = op[d] /\ op[d].tgt \in Kids
        BY <1>2 DEF StopReap
      <3>2. shut' = shut /\ (shut.pc = "reap" => shut.tgt \in Kids)
        BY <1>2 DEF StopReap, Shut
      <3>q. QED
        BY <2>2, <3>1, <3>2
    <2>q. QED
      BY <1>2, <2>2, <2>3, <2>4 DEF StopReap, Status
  <1>3. CASE StopEnd(c, p)
    BY <1>3 DEF StopEnd, Release
  <1>4. CASE ReplaceBegin(c, p)
    BY <1>4 DEF ReplaceBegin, Acquire
  <1>5. CASE ReplaceEnd(c, p)
    BY <1>5 DEF ReplaceEnd, Release
  <1>q. QED
    BY <1>1, <1>2, <1>3, <1>4, <1>5

LEMMA MonitorType ==
    ASSUME TypeInv, Monitor
    PROVE  TypeInv'
  <1> USE NullAssumption
      DEF TypeInv, TypeOK, HandlesSpawned, inst, locks, life, MonGoto, MonNext, MonAt
  <1>1. CASE MonScan
    BY <1>1 DEF MonScan, Candidates, Mon
  <1>2. CASE MonRoundDone
    BY <1>2 DEF MonRoundDone, Mon
  <1>3. CASE MonLeave
    BY <1>3 DEF MonLeave, Mon
  <1>4. ASSUME NEW p \in Projects, MonHandleCrash(p)
        PROVE  TypeInv'
    BY <1>4 DEF MonHandleCrash, Mon, Status, Error
  <1>5. ASSUME NEW p \in Projects, MonStopped(p)
        PROVE  TypeInv'
    BY <1>5 DEF MonStopped, Mon
  <1>6. ASSUME NEW p \in Projects, MonRefused(p)
        PROVE  TypeInv'
    BY <1>6 DEF MonRefused, Mon, Status, Error
  <1>7. ASSUME NEW p \in Projects, MonRespawn(p)
        PROVE  TypeInv'
    <2>1. PICK k \in Kids, q \in Ports :
              /\ SpawnLocked(p, port[p], k, q)
              /\ mon' = [pc |-> "health", todo |-> mon.todo, p |-> p, port |-> q]
      BY <1>7 DEF MonRespawn
    <2>2. /\ status' \in [Projects -> Status]
          /\ proc' \in [Projects -> Kids \cup {NoKid}]
          /\ port' \in [Projects -> Ports \cup {NoPort}]
          /\ error' \in [Projects -> Error]
          /\ kid' \in [Kids -> Kid]
          /\ \A j \in Kids : kid[j].st # "unborn" => kid'[j].st # "unborn"
      BY <2>1, SpawnKeepsType
    <2>3. mon' \in Mon
      <3>1. mon.todo \subseteq Projects
        BY <1>7 DEF MonRespawn, Mon
      <3>q. QED
        BY <2>1, <3>1 DEF Mon
    <2>4. HandlesSpawned'
      <3>1. op' = op /\ \A d \in Clients : op[d].pc = "reap" => op[d].tgt \in Kids
        BY <1>7 DEF MonRespawn, Op, Idle
      <3>2. shut' = shut /\ (shut.pc = "reap" => shut.tgt \in Kids)
        BY <1>7 DEF MonRespawn, Shut
      <3>q. QED
        BY <2>2, <3>1, <3>2
    <2>5. /\ autos' \in [Projects -> Nat]
          /\ UNCHANGED <<starts, locks, running, cond, op, monstop, life>>
      BY <1>7 DEF MonRespawn
    <2>q. QED
      BY <2>2, <2>3, <2>4, <2>5
  <1>8. ASSUME NEW p \in Projects, MonRespawnFails(p)
        PROVE  TypeInv'
    BY <1>8 DEF MonRespawnFails, SpawnFails, Mon, Status, Error
  <1>9. ASSUME NEW p \in Projects, MonHealthy(p)
        PROVE  TypeInv'
    BY <1>9 DEF MonHealthy, Mon
  <1>10. ASSUME NEW p \in Projects, MonUnhealthy(p)
         PROVE  TypeInv'
    BY <1>10 DEF MonUnhealthy, Mon, Error
  <1>11. ASSUME NEW p \in Projects, MonMarkRunning(p)
         PROVE  TypeInv'
    BY <1>11 DEF MonMarkRunning, Mon, Status
  <1>12. ASSUME NEW p \in Projects, MonUpsert(p)
         PROVE  TypeInv'
    BY <1>12 DEF MonUpsert, Mon, Record
  <1>q. QED
    BY <1>1, <1>2, <1>3, <1>4, <1>5, <1>6, <1>7, <1>8, <1>9, <1>10, <1>11, <1>12
       DEF Monitor

LEMMA LifecycleType ==
    ASSUME TypeInv, Lifecycle
    PROVE  TypeInv'
  <1> USE NullAssumption
      DEF TypeInv, TypeOK, HandlesSpawned, inst, locks, monitor, life
  <1>1. CASE ResumeDone
    BY <1>1 DEF ResumeDone
  <1>2. CASE ShutdownBegin
    BY <1>2 DEF ShutdownBegin, ToTerminate, Shut
  <1>3. CASE ManagerExit
    BY <1>3 DEF ManagerExit, Shut
  <1>4. CASE ManagerKilled
    BY <1>4 DEF ManagerKilled, Shut
  <1>5. CASE ManagerBoot
    <2>1. op' \in [Clients -> Op] /\ \A c \in Clients : op'[c].pc = "idle"
      BY <1>5 DEF ManagerBoot, Op, Idle
    <2>2. mon' \in Mon /\ monstop' \in BOOLEAN
      BY <1>5 DEF ManagerBoot, Mon
    <2>3. shut' \in Shut /\ shut'.pc = "no"
      BY <1>5 DEF ManagerBoot, Shut
    <2>q. QED
      BY <1>5, <2>1, <2>2, <2>3 DEF ManagerBoot, Status, Error
  <1>6. ASSUME NEW p \in Projects, ResumeRefused(p)
        PROVE  TypeInv'
    BY <1>6 DEF ResumeRefused
  <1>7. ASSUME NEW p \in Projects, ShutdownTerminate(p)
        PROVE  TypeInv'
    BY <1>7 DEF ShutdownTerminate, Live, Shut
  <1>8. ASSUME NEW p \in Projects, ShutdownReap(p)
        PROVE  TypeInv'
    <2>1. shut.tgt \in Kids /\ kid[shut.tgt].st # "unborn" /\ Reaped(shut.tgt)
      BY <1>8 DEF ShutdownReap, Shut
    <2>2. /\ kid' \in [Kids -> Kid]
          /\ \A j \in Kids : kid[j].st # "unborn" => kid'[j].st # "unborn"
      BY <2>1, ReapedKeepsType
    <2>3. op' = op /\ \A d \in Clients : op[d].pc = "reap" => op[d].tgt \in Kids
      BY <1>8 DEF ShutdownReap, Op, Idle
    <2>q. QED
      BY <1>8, <2>2, <2>3 DEF ShutdownReap, Shut
  <1>q. QED
    BY <1>1, <1>2, <1>3, <1>4, <1>5, <1>6, <1>7, <1>8 DEF Lifecycle

LEMMA EnvironmentType ==
    ASSUME TypeInv, Environment
    PROVE  TypeInv'
  <1> USE ParamAssumption DEF TypeInv, TypeOK, HandlesSpawned, inst, locks, monitor, life
  <1>1. \A d \in Clients : op[d].pc = "reap" => op[d].tgt \in Kids
    BY DEF Op, Idle
  <1>2. shut.pc = "reap" => shut.tgt \in Kids
    BY DEF Shut
  <1>3. ASSUME NEW k \in Kids, KidServes(k)
        PROVE  TypeInv'
    BY <1>1, <1>2, <1>3 DEF KidServes, Kid, NotSpawned
  <1>4. ASSUME NEW k \in Kids, KidExits(k)
        PROVE  TypeInv'
    BY <1>1, <1>2, <1>4 DEF KidExits, Live, Kid, NotSpawned
  <1>5. ASSUME NEW p \in Projects, WindowSlides(p)
        PROVE  TypeInv'
    BY <1>5 DEF WindowSlides
  <1>6. ASSUME NEW p \in Projects, CondChanges(p)
        PROVE  TypeInv'
    BY <1>6 DEF CondChanges, Cond
  <1>7. ASSUME NEW p \in Projects, Delete(p)
        PROVE  TypeInv'
    BY <1>7 DEF Delete, Cond
  <1>q. QED
    BY <1>3, <1>4, <1>5, <1>6, <1>7 DEF Environment

LEMMA InitType == Init => TypeInv
  <1> SUFFICES ASSUME Init PROVE TypeInv
    OBVIOUS
  <1>1. op \in [Clients -> Op] /\ \A c \in Clients : op[c].pc = "idle"
    BY DEF Init, Op, Idle
  <1>2. mon \in Mon /\ monstop \in BOOLEAN
    BY DEF Init, Mon
  <1>3. shut \in Shut /\ shut.pc = "no"
    BY DEF Init, Shut
  <1>4. cond \in [Projects -> Cond]
    BY ParamAssumption DEF Init, Cond
  <1>5. kid \in [Kids -> Kid]
    BY DEF Init, Kid
  <1>q. QED
    BY <1>1, <1>2, <1>3, <1>4, <1>5 DEF Init, TypeInv, TypeOK, HandlesSpawned, Status, Error

LEMMA StepType == TypeInv /\ [Next]_vars => TypeInv'
  <1> SUFFICES ASSUME TypeInv, [Next]_vars PROVE TypeInv'
    OBVIOUS
  <1>1. CASE UNCHANGED vars
    BY <1>1 DEF vars, TypeInv, TypeOK, HandlesSpawned
  <1>2. ASSUME NEW c \in Clients, NEW p \in Projects, Request(c, p)
        PROVE  TypeInv'
    BY <1>2, RequestType
  <1>3. ASSUME NEW c \in Clients, NEW p \in Projects, Thread(c, p)
        PROVE  TypeInv'
    BY <1>3, StartType, StopType DEF Thread
  <1>q. QED
    BY <1>1, <1>2, <1>3, MonitorType, LifecycleType, EnvironmentType DEF Next

(* The state of the supervisor, its threads, the manifest and the children *)
(* keeps its shape, and no thread ever waits for a process that was never  *)
(* spawned.                                                                *)
THEOREM TypeCorrect == Spec => []TypeOK
  <1>1. TypeInv => TypeOK
    BY DEF TypeInv
  <1>q. QED
    BY <1>1, InitType, StepType, PTL DEF Spec

-----------------------------------------------------------------------------
(* Only a request thread's own steps touch its position or the lock.       *)
LEMMA ThreadKeepsLock ==
    ASSUME TypeOK, OneOperationPerProject,
           NEW c \in Clients, NEW p \in Projects, Thread(c, p)
    PROVE  OneOperationPerProject'
  <1> USE NullAssumption DEF TypeOK, OneOperationPerProject, InSection, Goto, At, Idle, locks
  <1>1. CASE StartRefused(c, p)
    BY <1>1 DEF StartRefused
  <1>2. CASE StartAlreadyUp(c, p)
    BY <1>2 DEF StartAlreadyUp, Startable
  <1>3. CASE StartSpawn(c, p)
    BY <1>3 DEF StartSpawn, Startable, Acquire
  <1>4. CASE StartSpawnFails(c, p)
    BY <1>4 DEF StartSpawnFails, Startable
  <1>5. CASE StartHealthy(c, p)
    BY <1>5 DEF StartHealthy
  <1>6. CASE StartUnhealthy(c, p)
    BY <1>6 DEF StartUnhealthy
  <1>7. CASE StartMarkRunning(c, p)
    BY <1>7 DEF StartMarkRunning
  <1>8. CASE StartUpsert(c, p)
    BY <1>8 DEF StartUpsert, Release
  <1>9. CASE StartTeardown(c, p)
    BY <1>9 DEF StartTeardown, Release
  <1>10. CASE StartReap(c, p)
    BY <1>10 DEF StartReap, Release
  <1>11. CASE StopBegin(c, p)
    BY <1>11 DEF StopBegin, Acquire
  <1>12. CASE StopReap(c, p)
    BY <1>12 DEF StopReap
  <1>13. CASE StopEnd(c, p)
    BY <1>13 DEF StopEnd, Release
  <1>14. CASE ReplaceBegin(c, p)
    BY <1>14 DEF ReplaceBegin, Acquire
  <1>15. CASE ReplaceEnd(c, p)
    BY <1>15 DEF ReplaceEnd, Release
  <1>q. QED
    BY <1>1, <1>2, <1>3, <1>4, <1>5, <1>6, <1>7, <1>8, <1>9, <1>10, <1>11,
       <1>12, <1>13, <1>14, <1>15 DEF Thread

LEMMA RequestKeepsLock ==
    ASSUME TypeOK, OneOperationPerProject,
           NEW c \in Clients, NEW p \in Projects, Request(c, p)
    PROVE  OneOperationPerProject'
  BY NullAssumption
     DEF TypeOK, OneOperationPerProject, InSection, Goto, Idle, locks, Request, Start, Stop, Replace

LEMMA OthersKeepLock ==
    ASSUME TypeOK, OneOperationPerProject, Monitor \/ Lifecycle \/ Environment
    PROVE  OneOperationPerProject'
  <1>1. CASE Monitor
    <2>1. op' = op /\ oplock' = oplock
      BY <1>1 DEF Monitor, MonScan, MonRoundDone, MonLeave,
                  MonHandleCrash, MonStopped, MonRefused, MonRespawn, MonRespawnFails,
                  MonHealthy, MonUnhealthy, MonMarkRunning, MonUpsert, locks
    <2>q. QED
      BY <2>1 DEF OneOperationPerProject, InSection
  <1>2. CASE ManagerBoot
    BY <1>2, NullAssumption DEF OneOperationPerProject, InSection, ManagerBoot, Idle
  <1>3. CASE Lifecycle /\ ~ManagerBoot
    BY <1>3 DEF OneOperationPerProject, InSection, Lifecycle, ResumeDone, ShutdownBegin, ManagerExit,
                ManagerKilled, ResumeRefused, ShutdownTerminate, ShutdownReap, locks
  <1>4. CASE Environment
    BY <1>4 DEF OneOperationPerProject, InSection, Environment, KidServes, KidExits,
                WindowSlides, CondChanges, Delete, locks
  <1>q. QED
    BY <1>1, <1>2, <1>3, <1>4

LEMMA InitLock == Init => OneOperationPerProject
  BY NullAssumption DEF Init, OneOperationPerProject, InSection, Idle

LEMMA StepKeepsLock ==
    TypeOK /\ OneOperationPerProject /\ [Next]_vars => OneOperationPerProject'
  <1> SUFFICES ASSUME TypeOK, OneOperationPerProject, [Next]_vars
               PROVE  OneOperationPerProject'
    OBVIOUS
  <1>1. CASE UNCHANGED vars
    BY <1>1 DEF vars, OneOperationPerProject, InSection
  <1>2. ASSUME NEW c \in Clients, NEW p \in Projects, Request(c, p) \/ Thread(c, p)
        PROVE  OneOperationPerProject'
    BY <1>2, RequestKeepsLock, ThreadKeepsLock
  <1>q. QED
    BY <1>1, <1>2, OthersKeepLock DEF Next

(* start, stop and replacement of one project never overlap, for any       *)
(* number of request threads: the thread inside is the one that holds the  *)
(* project's operation lock.                                               *)
THEOREM OperationsSerialized == Spec => []OneOperationPerProject
  BY InitLock, StepKeepsLock, TypeCorrect, PTL DEF Spec

-----------------------------------------------------------------------------
(* While the monitor sleeps before a respawn, the budget has room for it:  *)
(* user starts in the meantime do not use it up.                           *)
BudgetInv ==
    /\ RespawnBudget
    /\ mon.pc = "backoff" => autos[mon.p] < MaxRestarts

LEMMA StepKeepsBudget == TypeOK /\ BudgetInv /\ [Next]_vars => BudgetInv'
  <1> SUFFICES ASSUME TypeOK, BudgetInv, [Next]_vars
               PROVE  BudgetInv'
    OBVIOUS
  <1> USE ParamAssumption DEF BudgetInv, RespawnBudget, TypeOK, inst, monitor
  <1>1. CASE UNCHANGED vars
    BY <1>1 DEF vars
  <1>2. ASSUME NEW c \in Clients, NEW p \in Projects, Request(c, p) \/ Thread(c, p)
        PROVE  BudgetInv'
    <2>1. autos' = autos
      BY <1>2 DEF Request, Start, Stop, Replace, Thread, StartRefused, StartAlreadyUp, StartSpawn,
                  StartSpawnFails, SpawnFails, StartHealthy, StartUnhealthy, StartMarkRunning,
                  StartUpsert, StartTeardown, StartReap, StopBegin, StopReap, StopEnd,
                  ReplaceBegin, ReplaceEnd
    <2>2. mon' = mon \/ mon'.pc = "wait"
      <3>1. CASE StartUpsert(c, p)
        BY <3>1 DEF StartUpsert, EnsureMonitor
      <3>2. CASE ~StartUpsert(c, p)
        BY <1>2, <3>2
           DEF Request, Start, Stop, Replace, Thread, StartRefused, StartAlreadyUp, StartSpawn,
               StartSpawnFails, StartHealthy, StartUnhealthy, StartMarkRunning,
               StartTeardown, StartReap, StopBegin, StopReap, StopEnd, ReplaceBegin, ReplaceEnd
      <3>q. QED
        BY <3>1, <3>2
    <2>q. QED
      BY <2>1, <2>2
  <1>3. ASSUME NEW p \in Projects, MonHandleCrash(p)
        PROVE  BudgetInv'
    <2>1. autos' = autos
      BY <1>3 DEF MonHandleCrash
    <2>2. mon'.pc = "backoff" => mon'.p = p /\ autos[p] < MaxRestarts
      BY <1>3 DEF MonHandleCrash, BreakerTrips, MonGoto
    <2>q. QED
      BY <2>1, <2>2
  <1>4. ASSUME NEW p \in Projects, MonRespawn(p)
        PROVE  BudgetInv'
    <2>1. autos[p] < MaxRestarts /\ mon'.pc = "health"
      BY <1>4 DEF MonRespawn, MonAt, MonGoto
    <2>2. autos' = [autos EXCEPT ![p] = @ + 1]
      BY <1>4 DEF MonRespawn
    <2>q. QED
      BY <2>1, <2>2
  <1>5. CASE Monitor /\ \A p \in Projects : ~MonHandleCrash(p) /\ ~MonRespawn(p)
    <2>1. autos' = autos /\ mon'.pc # "backoff"
      BY <1>5 DEF Monitor, MonScan, MonRoundDone, MonLeave, MonStopped, MonRefused,
                  MonRespawnFails, SpawnFails, MonHealthy, MonUnhealthy, MonMarkRunning,
                  MonUpsert, MonNext, MonGoto
    <2>q. QED
      BY <2>1
  <1>6. CASE Lifecycle
    <2>1. CASE ManagerBoot
      BY <2>1 DEF ManagerBoot
    <2>2. CASE ~ManagerBoot
      BY <1>6, <2>2 DEF Lifecycle, ResumeDone, ShutdownBegin, ManagerExit, ManagerKilled,
                        ResumeRefused, ShutdownTerminate, ShutdownReap
    <2>q. QED
      BY <2>1, <2>2
  <1>7. CASE Environment
    <2>1. /\ mon' = mon
          /\ \A p \in Projects : autos'[p] \in Nat /\ autos'[p] <= autos[p]
      BY <1>7 DEF Environment, KidServes, KidExits, WindowSlides, CondChanges, Delete
    <2>2. mon.pc = "backoff" => mon.p \in Projects
      BY DEF Mon
    <2>q. QED
      BY <2>1, <2>2
  <1>q. QED
    BY <1>1, <1>2, <1>3, <1>4, <1>5, <1>6, <1>7 DEF Next, Monitor

(* However users start and stop a project while it keeps crashing, the     *)
(* monitor respawns it at most MaxRestarts times in a restart window.      *)
THEOREM RespawnsBounded == Spec => []RespawnBudget
  <1>1. Init => BudgetInv
    BY ParamAssumption DEF Init, BudgetInv, RespawnBudget
  <1>2. BudgetInv => RespawnBudget
    BY DEF BudgetInv
  <1>q. QED
    BY <1>1, <1>2, StepKeepsBudget, TypeCorrect, PTL DEF Spec

-----------------------------------------------------------------------------
(* The supervisor's grip on its children: at most one live child per       *)
(* project, none for a project that is down, none left by a shutdown.      *)
(* These hold exactly in the instances Orderly describes; without it each  *)
(* of them fails, which TLC shows.  They rest on one inductive invariant   *)
(* that ties threads, monitor, shutdown, handles and the manifest.         *)

(* An instance in which nobody starts a project once resume_all is over,   *)
(* every child dies of SIGKILL, and no manager follows one that was        *)
(* killed, which would leave its children behind.                          *)
Orderly ==
    /\ {"start", "unkillable"} \cap Events = {}
    /\ "kill" \in Events => MaxBoots <= 1

Listed(p) == mon.pc \in {"crash", "backoff", "health", "mark", "upsert"} /\ p \in mon.todo
Handled(p) == mon.pc \in {"backoff", "health", "mark", "upsert"} /\ mon.p = p
InHand(p) == Listed(p) \/ Handled(p)
Awaits(p) == p \in resume \/ \E c \in Clients : At(c, "start", p)
Reaping(c, p, why) == At(c, "reap", p) /\ op[c].for = why
StartingUp(c, p) ==
    At(c, "health", p) \/ At(c, "mark", p) \/ At(c, "unhealthy", p) \/ Reaping(c, p, "start")

(* Starts belong to the resume, everything else to what comes after it.    *)
PhaseInv ==
    /\ phase = "resuming" =>
         /\ stopping = {} /\ shut.pc \in {"no", "exited"}
         /\ \A c \in Clients :
              /\ op[c].pc \in {"idle", "start", "health", "mark", "upsert", "unhealthy", "reap"}
              /\ op[c].pc = "reap" => op[c].for = "start"
    /\ phase = "serving" =>
         /\ resume = {}
         /\ \A c \in Clients :
              /\ op[c].pc \in {"idle", "stop", "reap", "unrecord", "replace", "replacing"}
              /\ op[c].pc = "reap" => op[c].for = "stop"

(* A project that the resume has still to start is recorded and untouched, *)
(* and one thread starts it.                                               *)
AwaitInv ==
    \A p \in Projects :
      /\ Awaits(p) => /\ status[p] = "stopped" /\ proc[p] = NoKid /\ port[p] = NoPort
                      /\ running[p] # NoPort
      /\ \A c \in Clients : At(c, "start", p) =>
            p \notin resume /\ \A d \in Clients : At(d, "start", p) => d = c

StartingInv ==
    \A p \in Projects, c \in Clients :
      StartingUp(c, p) => /\ status[p] = "starting" /\ ~InHand(p) /\ port[p] # NoPort
                          /\ (op[c].pc = "reap" => proc[p] = op[c].tgt)

(* The supervisor has the handle of every live child.                      *)
Owned == \A k \in Kids : Live(k) => proc[kid[k].proj] = k

PortInv ==
    \A p \in Projects :
      proc[p] # NoKid \/ InHand(p) \/ (\E c \in Clients : At(c, "upsert", p)) => port[p] # NoPort

(* Whose crash the monitor handles has no child until it is respawned, and *)
(* its status tells so, unless a stop came in.                             *)
HandInv ==
    /\ mon.pc \in {"backoff", "health", "mark", "upsert"} => mon.p \notin mon.todo
    /\ \A p \in Projects :
        /\ Listed(p) \/ (Handled(p) /\ mon.pc = "backoff") =>
              ~Live(proc[p]) /\ (status[p] = "running" \/ p \in stopping)
        /\ Handled(p) /\ mon.pc \in {"health", "mark"} => status[p] = "starting" \/ p \in stopping
        /\ Handled(p) /\ mon.pc = "upsert" => status[p] = "running" \/ p \in stopping

StopInv ==
    \A p \in Projects :
      /\ \A c \in Clients :
            /\ Reaping(c, p, "stop") => p \in stopping /\ proc[p] \in {op[c].tgt, NoKid}
            /\ At(c, "unrecord", p) => p \in stopping /\ ~Live(proc[p])
            /\ At(c, "replacing", p) =>
                 /\ ~Live(proc[p])
                 /\ p \in stopping \/ (status[p] \in {"stopped", "crashed"} /\ ~InHand(p))
      /\ p \in stopping /\ shut.pc = "no" /\ Live(proc[p]) =>
            \E c \in Clients : Reaping(c, p, "stop")

RecordInv ==
    \A p \in Projects :
      /\ port[p] # NoPort => running[p] # NoPort \/ p \in stopping
      /\ Live(proc[p]) => running[p] # NoPort

(* A shutdown spares nobody, and nobody is spawned while it runs.          *)
ShutInv ==
    /\ shut.pc \in {"next", "reap"} => \A p \in Projects :
          /\ port[p] # NoPort => p \in stopping
          /\ Live(proc[p]) => p \in shut.left \/ (shut.pc = "reap" /\ shut.p = p)
    /\ shut.pc = "reap" => proc[shut.p] \in {shut.tgt, NoKid}
    /\ boots >= 1
    /\ shut.pc = "exited" => boots >= MaxBoots \/ \A k \in Kids : ~Live(k)

Kept ==
    /\ PhaseInv /\ AwaitInv /\ StartingInv /\ Owned /\ PortInv /\ HandInv /\ StopInv
    /\ RecordInv /\ ShutInv

ChildInv == TypeInv /\ OneOperationPerProject /\ Kept

-----------------------------------------------------------------------------
(* Steps that leave the children, their handles and the threads alone.     *)
LEMMA SameKept ==
    ASSUME ChildInv,
           UNCHANGED <<status, proc, port, stopping, running, kid, op, mon, life>>
    PROVE  Kept'
  <1> USE DEF ChildInv, Kept, At, life, Live, Listed, Handled, InHand, Awaits, Reaping, StartingUp
  <1>1. PhaseInv' /\ AwaitInv' /\ StartingInv' /\ Owned' /\ PortInv'
    BY DEF PhaseInv, AwaitInv, StartingInv, Owned, PortInv
  <1>2. HandInv' /\ StopInv' /\ RecordInv' /\ ShutInv'
    BY DEF HandInv, StopInv, RecordInv, ShutInv
  <1>q. QED
    BY <1>1, <1>2

LEMMA RequestKept ==
    ASSUME ChildInv, Orderly, TypeInv', NEW c \in Clients, NEW p \in Projects, Request(c, p)
    PROVE  Kept'
  <1> USE NullAssumption, ParamAssumption
      DEF ChildInv, Kept, Orderly, TypeInv, TypeOK, At, Goto, inst, locks, monitor, life,
          MonGoto, MonNext, MonAt, Live, Up, Idle, Listed, Handled, InHand, Awaits, Reaping,
          StartingUp
  <1>1. CASE \E confirm \in BOOLEAN : Start(c, p, confirm)
    <2>1. PICK confirm \in BOOLEAN : Start(c, p, confirm)
      BY <1>1
    <2>2. /\ op[c] = Idle /\ p \in resume /\ resume' = resume \ {p} /\ phase = "resuming"
          /\ op' = [op EXCEPT ![c] = [pc |-> "start", p |-> p, confirm |-> confirm]]
          /\ UNCHANGED <<inst, locks, running, cond, kid, monitor, shut, phase, boots>>
      BY <2>1 DEF Start, PhaseInv
    <2>3. \A d \in Clients :
             op'[d] = IF d = c THEN [pc |-> "start", p |-> p, confirm |-> confirm] ELSE op[d]
      BY <2>2
    <2> HIDE DEF Idle
    <2>4. op[c].pc = "idle"
      BY <2>2 DEF Idle
    <2>5. PhaseInv'
      BY <2>2, <2>3 DEF PhaseInv
    <2>6. AwaitInv'
      BY <2>2, <2>3, <2>4 DEF AwaitInv
    <2>7. StartingInv' /\ StopInv'
      BY <2>2, <2>3, <2>4 DEF StartingInv, StopInv
    <2>8. Owned' /\ PortInv' /\ HandInv' /\ RecordInv' /\ ShutInv'
      BY <2>2 DEF Owned, PortInv, HandInv, RecordInv, ShutInv
    <2>q. QED
      BY <2>5, <2>6, <2>7, <2>8 DEF Kept
  <1>2. ASSUME NEW what \in {"stop", "replace"},
               op[c] = Idle, phase = "serving", op' = [op EXCEPT ![c] = [pc |-> what, p |-> p]],
               UNCHANGED <<inst, locks, running, cond, kid, monitor, life>>
        PROVE  Kept'
    <2>3. \A d \in Clients : op'[d] = IF d = c THEN [pc |-> what, p |-> p] ELSE op[d]
      BY <1>2
    <2> HIDE DEF Idle
    <2>4. op[c].pc = "idle"
      BY <1>2 DEF Idle
    <2>5. PhaseInv'
      BY <1>2, <2>3 DEF PhaseInv
    <2>6. AwaitInv'
      BY <1>2, <2>3, <2>4 DEF AwaitInv
    <2>7. StartingInv' /\ StopInv'
      BY <1>2, <2>3, <2>4 DEF StartingInv, StopInv
    <2>8. Owned' /\ PortInv' /\ HandInv' /\ RecordInv' /\ ShutInv'
      BY <1>2 DEF Owned, PortInv, HandInv, RecordInv, ShutInv
    <2>q. QED
      BY <2>5, <2>6, <2>7, <2>8 DEF Kept
  <1>3. CASE Stop(c, p)
    BY <1>2, <1>3 DEF Stop
  <1>4. CASE Replace(c, p)
    BY <1>2, <1>4 DEF Replace
  <1>q. QED
    BY <1>1, <1>3, <1>4 DEF Request

(* What a spawn does, whoever asks for it.                                 *)
LEMMA Spawned ==
    ASSUME TypeInv, Owned, NEW p \in Projects, ~Live(proc[p]), NEW k \in Kids, NEW q \in Ports,
           NEW preferred, SpawnLocked(p, preferred, k, q)
    PROVE  /\ port' = [port EXCEPT ![p] = q] /\ proc' = [proc EXCEPT ![p] = k]
           /\ status' = [status EXCEPT ![p] = "starting"] /\ port'[p] # NoPort
           /\ \A r \in Projects \ {p} : proc[r] # k /\ (Live(proc[r])' => Live(proc[r]))
           /\ \A c \in Clients : op[c].pc = "reap" => op[c].tgt # k
           /\ shut.pc = "reap" => shut.tgt # k
           /\ Owned'
  <1>1. /\ port' = [port EXCEPT ![p] = q] /\ proc' = [proc EXCEPT ![p] = k]
        /\ status' = [status EXCEPT ![p] = "starting"] /\ port'[p] = q
        /\ kid' = [kid EXCEPT ![k] = [proj |-> p, port |-> q, st |-> "boot"]]
    BY DEF SpawnLocked, TypeInv, TypeOK
  <1>2. k \in FreeIds
    BY DEF SpawnLocked
  <1>3. /\ \A r \in Projects : proc[r] # k
        /\ \A c \in Clients : op[c].pc = "reap" => op[c].tgt # k
        /\ shut.pc = "reap" => shut.tgt # k
    BY <1>2 DEF FreeIds, Referenced
  <1>4. \A r \in Projects \ {p} : Live(proc[r])' => Live(proc[r])
    BY <1>1, <1>3 DEF Live, TypeInv, TypeOK
  <1>5. Owned'
    BY <1>1, <1>2, <1>3, NullAssumption DEF Owned, Live, FreeIds, TypeInv, TypeOK
  <1>q. QED
    BY <1>1, <1>3, <1>4, <1>5, NullAssumption

LEMMA StartSpawnKept ==
    ASSUME ChildInv, Orderly, TypeInv', NEW c \in Clients, NEW p \in Projects, StartSpawn(c, p)
    PROVE  Kept'
  <1> USE NullAssumption, ParamAssumption
      DEF ChildInv, Kept, Orderly, TypeInv, TypeOK, At, Goto, inst, locks, monitor, life,
          MonGoto, MonNext, MonAt, Live, Up, Idle, Listed, Handled, InHand, Awaits, Reaping,
          StartingUp
  <1>1. PICK k \in Kids, q \in Ports :
           /\ SpawnLocked(p, running[p], k, q)
           /\ op' = [op EXCEPT ![c] = [pc |-> "health", p |-> p, port |-> q]]
    BY DEF StartSpawn
  <1>2. /\ At(c, "start", p) /\ Up /\ stopping' = stopping \ {p}
        /\ UNCHANGED <<autos, running, cond, monitor, life>>
    BY DEF StartSpawn, Startable
  <1>3. phase = "resuming" /\ stopping = {} /\ stopping' = {} /\ shut.pc = "no"
    BY <1>2 DEF PhaseInv
  <1>4. /\ status[p] = "stopped" /\ proc[p] = NoKid /\ running[p] # NoPort /\ ~InHand(p)
        /\ p \notin resume /\ \A d \in Clients : At(d, "start", p) => d = c
    BY <1>2 DEF AwaitInv, PortInv
  <1>5. /\ port' = [port EXCEPT ![p] = q] /\ proc' = [proc EXCEPT ![p] = k]
        /\ status' = [status EXCEPT ![p] = "starting"] /\ port'[p] # NoPort
        /\ \A r \in Projects \ {p} : proc[r] # k /\ (Live(proc[r])' => Live(proc[r]))
        /\ \A d \in Clients : op[d].pc = "reap" => op[d].tgt # k
        /\ Owned'
    <2> HIDE DEF Live
    <2>1. ~Live(proc[p])
      BY <1>4 DEF Live
    <2>2. QED
      BY <1>1, <2>1, Spawned
  <1>6. \A d \in Clients : op'[d] = IF d = c THEN [pc |-> "health", p |-> p, port |-> q] ELSE op[d]
    BY <1>1
  <1>7. \A r \in Projects \ {p} : port'[r] = port[r] /\ proc'[r] = proc[r] /\ status'[r] = status[r]
    BY <1>5
  <1>8. PhaseInv'
    BY <1>2, <1>3, <1>6 DEF PhaseInv
  <1>9. AwaitInv'
    BY <1>2, <1>4, <1>6, <1>7 DEF AwaitInv
  <1>10. StartingInv'
    <2>1. ASSUME NEW r \in Projects, NEW d \in Clients, StartingUp(d, r)'
          PROVE  /\ status'[r] = "starting" /\ ~InHand(r)' /\ port'[r] # NoPort
                 /\ (op'[d].pc = "reap" => proc'[r] = op'[d].tgt)
      <3>1. CASE d = c
        BY <1>2, <1>4, <1>5, <1>6, <2>1, <3>1
      <3>2. CASE d # c
        <4>1. StartingUp(d, r) /\ op'[d] = op[d]
          BY <1>6, <2>1, <3>2
        <4>2. r # p
          BY <1>4, <4>1 DEF StartingInv
        <4>3. QED
          BY <1>2, <1>7, <4>1, <4>2 DEF StartingInv
      <3>3. QED
        BY <3>1, <3>2
    <2>2. QED
      BY <2>1 DEF StartingInv
  <1>11. PortInv'
    BY <1>2, <1>5, <1>6, <1>7 DEF PortInv
  <1>12. HandInv'
    <2> HIDE DEF Live
    <2>1. /\ UNCHANGED mon
          /\ \A r \in Projects \ {p} : ~Live(proc[r]) => ~Live(proc[r])' /\ proc'[r] = proc[r]
      BY <1>2, <1>5, <1>7
    <2>2. \A r \in Projects : InHand(r)' => r # p /\ InHand(r)
      BY <1>4, <2>1
    <2>3. \A r \in Projects \ {p} : ~Live(proc[r]) => ~Live(proc[r])'
      BY <2>1 DEF Live
    <2>q. QED
      BY <1>3, <1>7, <2>1, <2>2, <2>3 DEF HandInv, Live
  <1>13. StopInv'
    <2>1. \A d \in Clients : /\ op'[d].pc \notin {"unrecord", "replacing"}
                             /\ op'[d].pc = "reap" => op'[d].for = "start"
      BY <1>3, <1>6 DEF PhaseInv
    <2>2. QED
      BY <1>3, <2>1 DEF StopInv
  <1>14. RecordInv'
    <2>1. \A r \in Projects \ {p} : Live(proc[r])' => Live(proc[r])
      BY <1>5, <1>7 DEF Live
    <2> HIDE DEF Live
    <2>2. QED
      BY <1>2, <1>3, <1>4, <1>7, <2>1 DEF RecordInv
  <1>15. ShutInv'
    BY <1>2, <1>3 DEF ShutInv
  <1>q. QED
    BY <1>5, <1>8, <1>9, <1>10, <1>11, <1>12, <1>13, <1>14, <1>15 DEF Kept

LEMMA StartRefusedKept ==
    ASSUME ChildInv, Orderly, TypeInv', NEW c \in Clients, NEW p \in Projects, StartRefused(c, p)
    PROVE  Kept'
  <1> USE NullAssumption, ParamAssumption
      DEF ChildInv, Kept, Orderly, TypeInv, TypeOK, At, Goto, inst, locks, monitor, life,
          MonGoto, MonNext, MonAt, Live, Up, Idle, Listed, Handled, InHand, Awaits, Reaping,
          StartingUp,
          StartRefused, Startable
  <1>1. PhaseInv' /\ AwaitInv' /\ StartingInv'
    BY DEF PhaseInv, AwaitInv, StartingInv
  <1>2. Owned' /\ PortInv' /\ HandInv'
    BY DEF Owned, PortInv, HandInv
  <1>3. StopInv' /\ ShutInv'
    BY DEF StopInv, ShutInv
  <1>4. RecordInv'
    BY DEF PhaseInv, AwaitInv, RecordInv
  <1>q. QED
    BY <1>1, <1>2, <1>3, <1>4 DEF Kept

LEMMA StartAlreadyUpKept ==
    ASSUME ChildInv, Orderly, TypeInv', NEW c \in Clients, NEW p \in Projects, StartAlreadyUp(c, p)
    PROVE  Kept'
  <1> USE NullAssumption, ParamAssumption
      DEF ChildInv, Kept, Orderly, TypeInv, TypeOK, At, Goto, inst, locks, monitor, life,
          MonGoto, MonNext, MonAt, Live, Up, Idle, Listed, Handled, InHand, Awaits, Reaping,
          StartingUp,
          StartAlreadyUp, Startable
  <1>1. PhaseInv' /\ AwaitInv' /\ StartingInv'
    BY DEF PhaseInv, AwaitInv, StartingInv
  <1>2. Owned' /\ PortInv' /\ HandInv'
    BY DEF Owned, PortInv, HandInv
  <1>3. StopInv' /\ RecordInv' /\ ShutInv'
    BY DEF StopInv, RecordInv, ShutInv
  <1>q. QED
    BY <1>1, <1>2, <1>3 DEF Kept

LEMMA StartSpawnFailsKept ==
    ASSUME ChildInv, Orderly, TypeInv', NEW c \in Clients, NEW p \in Projects, StartSpawnFails(c, p)
    PROVE  Kept'
  <1> USE NullAssumption, ParamAssumption
      DEF ChildInv, Kept, Orderly, TypeInv, TypeOK, At, Goto, inst, locks, monitor, life,
          MonGoto, MonNext, MonAt, Live, Up, Idle, Listed, Handled, InHand, Awaits, Reaping,
          StartingUp,
          StartSpawnFails, Startable, SpawnFails
  <1>1. PhaseInv' /\ AwaitInv' /\ StartingInv'
    BY DEF PhaseInv, AwaitInv, StartingInv
  <1>2. Owned' /\ PortInv'
    BY DEF Owned, PortInv
  <1>3. StopInv'
    BY DEF PhaseInv, StopInv
  <1>4. ShutInv'
    BY DEF PhaseInv, ShutInv
  <1>5. RecordInv'
    BY DEF PhaseInv, AwaitInv, RecordInv
  <1>6. HandInv'
    BY DEF PhaseInv, AwaitInv, StartingInv, PortInv, HandInv
  <1>q. QED
    BY <1>1, <1>2, <1>3, <1>4, <1>5, <1>6 DEF Kept

LEMMA StartHealthyKept ==
    ASSUME ChildInv, Orderly, TypeInv', NEW c \in Clients, NEW p \in Projects, StartHealthy(c, p)
    PROVE  Kept'
  <1> USE NullAssumption, ParamAssumption
      DEF ChildInv, Kept, Orderly, TypeInv, TypeOK, At, Goto, inst, locks, monitor, life,
          MonGoto, MonNext, MonAt, Live, Up, Idle, Listed, Handled, InHand, Awaits, Reaping,
          StartingUp,
          StartHealthy
  <1>1. PhaseInv' /\ AwaitInv' /\ StartingInv'
    BY DEF PhaseInv, AwaitInv, StartingInv
  <1>2. Owned' /\ PortInv' /\ HandInv'
    BY DEF Owned, PortInv, HandInv
  <1>3. StopInv' /\ RecordInv' /\ ShutInv'
    BY DEF StopInv, RecordInv, ShutInv
  <1>q. QED
    BY <1>1, <1>2, <1>3 DEF Kept

LEMMA StartUnhealthyKept ==
    ASSUME ChildInv, Orderly, TypeInv', NEW c \in Clients, NEW p \in Projects, StartUnhealthy(c, p)
    PROVE  Kept'
  <1> USE NullAssumption, ParamAssumption
      DEF ChildInv, Kept, Orderly, TypeInv, TypeOK, At, Goto, inst, locks, monitor, life,
          MonGoto, MonNext, MonAt, Live, Up, Idle, Listed, Handled, InHand, Awaits, Reaping,
          StartingUp,
          StartUnhealthy
  <1>1. PhaseInv' /\ AwaitInv' /\ StartingInv'
    BY DEF PhaseInv, AwaitInv, StartingInv
  <1>2. Owned' /\ PortInv' /\ HandInv'
    BY DEF Owned, PortInv, HandInv
  <1>3. StopInv' /\ RecordInv' /\ ShutInv'
    BY DEF StopInv, RecordInv, ShutInv
  <1>q. QED
    BY <1>1, <1>2, <1>3 DEF Kept

LEMMA StartMarkRunningKept ==
    ASSUME ChildInv, Orderly, TypeInv', NEW c \in Clients, NEW p \in Projects, StartMarkRunning(c, p)
    PROVE  Kept'
  <1> USE NullAssumption, ParamAssumption
      DEF ChildInv, Kept, Orderly, TypeInv, TypeOK, At, Goto, inst, locks, monitor, life,
          MonGoto, MonNext, MonAt, Live, Up, Idle, Listed, Handled, InHand, Awaits, Reaping,
          StartingUp,
          StartMarkRunning
  <1>1. PhaseInv' /\ Owned' /\ RecordInv'
    BY DEF PhaseInv, Owned, RecordInv
  <1>2. ShutInv'
    BY DEF ShutInv
  <1>3. AwaitInv'
    BY DEF PhaseInv, AwaitInv, StartingInv
  <1>4. PortInv'
    BY DEF PhaseInv, StartingInv, PortInv
  <1>5. HandInv'
    BY DEF PhaseInv, StartingInv, HandInv
  <1>6. StopInv'
    BY DEF PhaseInv, StartingInv, StopInv
  <1>7. StartingInv'
    BY DEF StartingInv, OneOperationPerProject, InSection
  <1>q. QED
    BY <1>1, <1>2, <1>3, <1>4, <1>5, <1>6, <1>7 DEF Kept

(* What becomes of a project whose child is forgotten, or killed first.    *)
LEMMA Down ==
    ASSUME TypeInv, Owned, NEW p \in Projects, proc' = [proc EXCEPT ![p] = NoKid],
           \/ ~Live(proc[p]) /\ kid' = kid
           \/ \E k \in Kids : proc[p] \in {k, NoKid} /\ kid' = [kid EXCEPT ![k].st = "dead"]
    PROVE  /\ Owned' /\ proc'[p] = NoKid /\ ~Live(proc[p])'
           /\ \A r \in Projects \ {p} : proc'[r] = proc[r]
           /\ \A r \in Projects : Live(proc[r])' => Live(proc[r])
           /\ \A j \in Kids : Live(j)' => Live(j)
  <1> USE NullAssumption DEF TypeInv, TypeOK, Live
  <1>1. /\ proc'[p] = NoKid /\ ~Live(proc[p])'
        /\ \A r \in Projects \ {p} : proc'[r] = proc[r]
    OBVIOUS
  <1>2. \A j \in Kids : Live(j)' => Live(j) /\ kid'[j].proj = kid[j].proj /\ j # proc[p]
    <2>1. CASE ~Live(proc[p]) /\ kid' = kid
      BY <2>1
    <2>2. ASSUME NEW k \in Kids, proc[p] \in {k, NoKid}, kid' = [kid EXCEPT ![k].st = "dead"]
          PROVE  \A j \in Kids : Live(j)' => Live(j) /\ kid'[j].proj = kid[j].proj /\ j # proc[p]
      <3>1. \A j \in Kids \ {k} : kid'[j] = kid[j]
        BY <2>2
      <3>2. kid'[k].st = "dead"
        BY <2>2 DEF Kid, NotSpawned
      <3>3. QED
        BY <2>2, <3>1, <3>2
    <2>3. QED
      BY <2>1, <2>2
  <1>3. Owned'
    <2>1. ASSUME NEW j \in Kids, Live(j)', proc[kid[j].proj] = j, kid[j].proj = p
          PROVE  FALSE
      BY <1>2, <2>1
    <2>2. ASSUME NEW j \in Kids, Live(j)'
          PROVE  proc'[kid'[j].proj] = j
      <3>1. Live(j) /\ kid'[j].proj = kid[j].proj /\ proc[kid[j].proj] = j
        BY <1>2, <2>2 DEF Owned
      <3>2. kid[j].proj # p
        BY <2>1, <2>2, <3>1
      <3>3. QED
        BY <3>1, <3>2
    <2>3. QED
      BY <2>2 DEF Owned
  <1>4. \A r \in Projects : Live(proc[r])' => Live(proc[r])
    BY <1>1, <1>2
  <1>q. QED
    BY <1>1, <1>2, <1>3, <1>4

LEMMA StartUpsertKept ==
    ASSUME ChildInv, Orderly, TypeInv', NEW c \in Clients, NEW p \in Projects, StartUpsert(c, p)
    PROVE  Kept'
  <1> USE NullAssumption, ParamAssumption
      DEF ChildInv, Kept, Orderly, TypeInv, TypeOK, At, Goto, inst, locks, monitor, life,
          MonGoto, MonNext, MonAt, Live, Up, Idle, Listed, Handled, InHand, Awaits, Reaping,
          StartingUp
  <1>1. /\ op[c].pc = "upsert" /\ op[c].p = p /\ op' = [op EXCEPT ![c] = Idle]
        /\ running' = [running EXCEPT ![p] = port[p]]
        /\ UNCHANGED <<inst, stopping, cond, kid, life>>
    BY DEF StartUpsert, Record
  <1>2. \A d \in Clients : op'[d] = IF d = c THEN Idle ELSE op[d]
    BY <1>1
  <1>3. mon' = mon \/ (mon.pc = "off" /\ mon' = [pc |-> "wait"])
    BY DEF StartUpsert, EnsureMonitor
  <1>4. \A r \in Projects : (Listed(r)' => Listed(r)) /\ (Handled(r)' => Handled(r) /\ mon' = mon)
    BY <1>3
  <1>5. phase = "resuming" /\ port[p] # NoPort
    BY <1>1 DEF PhaseInv, PortInv
  <1>6. PhaseInv'
    BY <1>1, <1>2 DEF PhaseInv
  <1>7. AwaitInv'
    <2>1. \A r \in Projects, d \in Clients : At(d, "start", r)' <=> At(d, "start", r)
      BY <1>1, <1>2
    <2>2. \A r \in Projects : Awaits(r)' => Awaits(r) /\ r # p
      BY <1>1, <1>5, <2>1 DEF AwaitInv
    <2> HIDE DEF At
    <2>3. QED
      BY <1>1, <2>1, <2>2 DEF AwaitInv
  <1>8. StartingInv' /\ PortInv' /\ StopInv'
    BY <1>1, <1>2, <1>4, <1>5 DEF StartingInv, PortInv, StopInv, PhaseInv
  <1>9. HandInv'
    BY <1>1, <1>3 DEF HandInv
  <1>10. Owned' /\ RecordInv' /\ ShutInv'
    BY <1>1, <1>5 DEF Owned, RecordInv, ShutInv
  <1>q. QED
    BY <1>6, <1>7, <1>8, <1>9, <1>10 DEF Kept

(* A start that fails ends with its child gone.                            *)
LEMMA StartFailed ==
    ASSUME ChildInv, Orderly, TypeInv', NEW c \in Clients, NEW p \in Projects,
           StartingUp(c, p), op' = [op EXCEPT ![c] = Idle],
           proc' = [proc EXCEPT ![p] = NoKid], status' = [status EXCEPT ![p] = "crashed"],
           \/ ~Live(proc[p]) /\ kid' = kid
           \/ \E k \in Kids : proc[p] \in {k, NoKid} /\ kid' = [kid EXCEPT ![k].st = "dead"],
           UNCHANGED <<port, stopping, running, monitor, life>>
    PROVE  Kept'
  <1> USE NullAssumption, ParamAssumption
      DEF ChildInv, Kept, Orderly, TypeInv, TypeOK, At, Goto, inst, locks, monitor, life,
          MonGoto, MonNext, MonAt, Live, Up, Idle, Listed, Handled, InHand, Awaits, Reaping,
          StartingUp
  <1>2. phase = "resuming" /\ shut.pc \in {"no", "exited"} /\ stopping = {}
    BY DEF PhaseInv
  <1>3. ~InHand(p) /\ ~Awaits(p)
    BY DEF StartingInv, AwaitInv
  <1>4. \A d \in Clients : op'[d] = IF d = c THEN Idle ELSE op[d]
    OBVIOUS
  <1>5. /\ Owned' /\ proc'[p] = NoKid /\ ~Live(proc[p])'
        /\ \A r \in Projects \ {p} : proc'[r] = proc[r]
        /\ \A r \in Projects : Live(proc[r])' => Live(proc[r])
        /\ \A j \in Kids : Live(j)' => Live(j)
    <2> HIDE DEF Live
    <2>1. QED
      BY Down
  <1>6. \A r \in Projects \ {p} : status'[r] = status[r]
    OBVIOUS
  <1> HIDE DEF Live
  <1>7. \A r \in Projects, d \in Clients : At(d, "start", r)' <=> At(d, "start", r)
    BY <1>4
  <1>8. PhaseInv' /\ AwaitInv'
    BY <1>2, <1>3, <1>4, <1>5, <1>6, <1>7 DEF PhaseInv, AwaitInv
  <1>9. StartingInv'
    <2>1. \A d \in Clients, r \in Projects : StartingUp(d, r)' => StartingUp(d, r) /\ d # c
      BY <1>4
    <2>2. \A d \in Clients : StartingUp(d, p) => d = c
      BY DEF OneOperationPerProject, InSection
    <2>3. QED
      BY <1>5, <1>6, <2>1, <2>2, <1>4 DEF StartingInv
  <1>10. StopInv'
    <2>1. \A d \in Clients : /\ op'[d].pc \notin {"unrecord", "replacing"}
                             /\ op'[d].pc = "reap" => op'[d].for = "start"
      BY <1>2, <1>8 DEF PhaseInv
    <2>2. stopping' = {}
      BY <1>2
    <2>3. \A d \in Clients, r \in Projects :
             ~Reaping(d, r, "stop")' /\ ~At(d, "unrecord", r)' /\ ~At(d, "replacing", r)'
      BY <2>1
    <2> HIDE DEF ChildInv, TypeInv, Reaping, At, InHand
    <2>q. QED
      BY <2>2, <2>3 DEF StopInv
  <1>11. HandInv' /\ PortInv'
    BY <1>2, <1>3, <1>4, <1>5, <1>6 DEF HandInv, PortInv
  <1>12. RecordInv' /\ ShutInv'
    BY <1>2, <1>5 DEF RecordInv, ShutInv
  <1>q. QED
    BY <1>5, <1>8, <1>9, <1>10, <1>11, <1>12 DEF Kept

LEMMA StartTeardownKept ==
    ASSUME ChildInv, Orderly, TypeInv', NEW c \in Clients, NEW p \in Projects, StartTeardown(c, p)
    PROVE  Kept'
  <1> USE NullAssumption, ParamAssumption
      DEF ChildInv, Kept, Orderly, TypeInv, TypeOK, At, Goto, inst, locks, monitor, life,
          MonGoto, MonNext, MonAt, Live, Up, Idle, Listed, Handled, InHand, Awaits, Reaping,
          StartingUp
  <1>1. /\ op[c].pc = "unhealthy" /\ op[c].p = p
        /\ UNCHANGED <<port, starts, autos, stopping, running, cond, kid, monitor, life>>
    BY DEF StartTeardown
  <1>2. phase = "resuming" /\ shut.pc \in {"no", "exited"} /\ stopping = {}
    BY <1>1 DEF PhaseInv
  <1>3. status[p] = "starting" /\ ~InHand(p) /\ port[p] # NoPort /\ ~Awaits(p)
    BY <1>1 DEF StartingInv, AwaitInv
  <1>4. CASE Live(proc[p])
    <2>1. /\ op' = [op EXCEPT ![c] = [pc |-> "reap", p |-> p, tgt |-> proc[p], for |-> "start"]]
          /\ UNCHANGED <<inst, oplock>>
      BY <1>1, <1>4 DEF StartTeardown
    <2>2. \A d \in Clients :
             op'[d] = IF d = c THEN [pc |-> "reap", p |-> p, tgt |-> proc[p], for |-> "start"] ELSE op[d]
      BY <2>1
    <2>3. \A r \in Projects, d \in Clients : At(d, "start", r)' <=> At(d, "start", r)
      BY <1>1, <2>2
    <2>4. PhaseInv' /\ AwaitInv'
      BY <1>1, <1>2, <2>1, <2>2, <2>3 DEF PhaseInv, AwaitInv
    <2>5. StartingInv' /\ StopInv' /\ PortInv'
      BY <1>1, <1>2, <1>3, <2>1, <2>2 DEF StartingInv, StopInv, PortInv
    <2>6. Owned' /\ HandInv' /\ RecordInv' /\ ShutInv'
      BY <1>1, <2>1 DEF Owned, HandInv, RecordInv, ShutInv
    <2>q. QED
      BY <2>4, <2>5, <2>6 DEF Kept
  <1>5. CASE ~Live(proc[p])
    <2>1. /\ proc' = [proc EXCEPT ![p] = NoKid] /\ status' = [status EXCEPT ![p] = "crashed"]
          /\ op' = [op EXCEPT ![c] = Idle]
      BY <1>1, <1>5 DEF StartTeardown
    <2>q. QED
      BY <1>1, <1>2, <1>3, <1>5, <2>1, StartFailed DEF Kept
  <1>q. QED
    BY <1>4, <1>5

LEMMA StartReapKept ==
    ASSUME ChildInv, Orderly, TypeInv', NEW c \in Clients, NEW p \in Projects, StartReap(c, p)
    PROVE  Kept'
  <1> USE NullAssumption, ParamAssumption
      DEF ChildInv, Kept, Orderly, TypeInv, TypeOK, At, Goto, inst, locks, monitor, life,
          MonGoto, MonNext, MonAt, Live, Up, Idle, Listed, Handled, InHand, Awaits, Reaping,
          StartingUp
  <1>1. /\ op[c].pc = "reap" /\ op[c].p = p /\ op[c].for = "start"
        /\ proc' = [proc EXCEPT ![p] = NoKid] /\ status' = [status EXCEPT ![p] = "crashed"]
        /\ op' = [op EXCEPT ![c] = Idle] /\ kid' = [kid EXCEPT ![op[c].tgt].st = "dead"]
        /\ UNCHANGED <<port, starts, autos, stopping, running, cond, monitor, life>>
    BY DEF StartReap, Reaped
  <1>2. proc[p] = op[c].tgt /\ op[c].tgt \in Kids
    BY <1>1 DEF StartingInv, Op, Idle
  <1>q. QED
    BY <1>1, <1>2, StartFailed DEF Kept

(* A stop, once its child is gone.                                         *)
LEMMA Stopped ==
    ASSUME ChildInv, Orderly, TypeInv', NEW c \in Clients, NEW p \in Projects,
           phase = "serving", op[c].p = p, op' = [op EXCEPT ![c] = [pc |-> "unrecord", p |-> p]],
           proc' = [proc EXCEPT ![p] = NoKid], status' = [status EXCEPT ![p] = "stopped"],
           \A r \in Projects : r \in stopping' <=> r \in stopping \/ r = p,
           \A d \in Clients : d # c => ~InSection(d, p),
           \/ ~Live(proc[p]) /\ kid' = kid
           \/ \E k \in Kids : proc[p] \in {k, NoKid} /\ kid' = [kid EXCEPT ![k].st = "dead"],
           UNCHANGED <<port, running, monitor, life>>
    PROVE  Kept'
  <1> USE NullAssumption, ParamAssumption
      DEF ChildInv, Kept, Orderly, TypeInv, TypeOK, At, Goto, inst, locks, monitor, life,
          MonGoto, MonNext, MonAt, Live, Up, Idle, Listed, Handled, InHand, Awaits, Reaping,
          StartingUp
  <1>2. phase = "serving" /\ resume = {} /\ ~Awaits(p)
    BY DEF PhaseInv
  <1>4. \A d \in Clients : op'[d] = IF d = c THEN [pc |-> "unrecord", p |-> p] ELSE op[d]
    OBVIOUS
  <1>5. /\ Owned' /\ proc'[p] = NoKid /\ ~Live(proc[p])'
        /\ \A r \in Projects \ {p} : proc'[r] = proc[r]
        /\ \A r \in Projects : Live(proc[r])' => Live(proc[r])
        /\ \A j \in Kids : Live(j)' => Live(j)
    <2> HIDE DEF Live
    <2>1. QED
      BY Down
  <1>6. \A r \in Projects \ {p} : status'[r] = status[r]
    OBVIOUS
  <1> HIDE DEF Live
  <1>7. PhaseInv'
    BY <1>2, <1>4 DEF PhaseInv
  <1>8. AwaitInv' /\ StartingInv'
    BY <1>2, <1>7 DEF PhaseInv, AwaitInv, StartingInv
  <1>9. \A d \in Clients, r \in Projects : Reaping(d, r, "stop") /\ r # p => Reaping(d, r, "stop")'
    BY <1>4
  <1>10. StopInv'
    <2>1. ASSUME NEW r \in Projects, NEW d \in Clients
          PROVE  /\ Reaping(d, r, "stop")' => r \in stopping' /\ proc'[r] \in {op'[d].tgt, NoKid}
                 /\ At(d, "unrecord", r)' => r \in stopping' /\ ~Live(proc[r])'
                 /\ At(d, "replacing", r)' =>
                       /\ ~Live(proc[r])'
                       /\ r \in stopping' \/ (status'[r] \in {"stopped", "crashed"} /\ ~InHand(r)')
      <3>1. CASE r = p
        BY <1>4, <1>5, <3>1 DEF InSection
      <3>2. CASE r # p
        BY <1>4, <1>5, <1>6, <3>2 DEF StopInv
      <3>3. QED
        BY <3>1, <3>2
    <2>2. ASSUME NEW r \in Projects, r \in stopping', shut'.pc = "no", Live(proc[r])'
          PROVE  \E d \in Clients : Reaping(d, r, "stop")'
      BY <1>5, <1>9, <2>2 DEF StopInv
    <2> HIDE DEF Reaping, At, InHand
    <2>3. QED
      BY <2>1, <2>2 DEF StopInv
  <1>11. HandInv' /\ PortInv'
    BY <1>2, <1>4, <1>5, <1>6 DEF HandInv, PortInv
  <1>12. RecordInv' /\ ShutInv'
    BY <1>2, <1>5 DEF RecordInv, ShutInv
  <1>q. QED
    BY <1>5, <1>8, <1>7, <1>10, <1>11, <1>12 DEF Kept

LEMMA StopBeginKept ==
    ASSUME ChildInv, Orderly, TypeInv', NEW c \in Clients, NEW p \in Projects, StopBegin(c, p)
    PROVE  Kept'
  <1> USE NullAssumption, ParamAssumption
      DEF ChildInv, Kept, Orderly, TypeInv, TypeOK, At, Goto, inst, locks, monitor, life,
          MonGoto, MonNext, MonAt, Live, Up, Idle, Listed, Handled, InHand, Awaits, Reaping,
          StartingUp
  <1>1. /\ op[c].pc = "stop" /\ op[c].p = p /\ oplock[p] = Nobody
        /\ stopping' = stopping \cup {p}
        /\ UNCHANGED <<port, error, starts, autos, running, cond, kid, monitor, life>>
    BY DEF StopBegin, Acquire
  <1>2. phase = "serving" /\ resume = {} /\ ~Awaits(p)
    BY <1>1 DEF PhaseInv
  <1>3. /\ \A d \in Clients : d # c => ~InSection(d, p)
        /\ \A r \in Projects : r \in stopping' <=> r \in stopping \/ r = p
    BY <1>1 DEF OneOperationPerProject, InSection
  <1>4. CASE Live(proc[p])
    <2>1. /\ op' = [op EXCEPT ![c] = [pc |-> "reap", p |-> p, tgt |-> proc[p], for |-> "stop"]]
          /\ UNCHANGED <<status, proc>>
      BY <1>1, <1>4 DEF StopBegin
    <2>2. \A d \in Clients :
             op'[d] = IF d = c THEN [pc |-> "reap", p |-> p, tgt |-> proc[p], for |-> "stop"] ELSE op[d]
      BY <2>1
    <2> HIDE DEF Live
    <2>3. \A r \in Projects : Live(proc[r])' <=> Live(proc[r])
      BY <1>1, <2>1 DEF Live
    <2>4. PhaseInv'
      BY <1>1, <1>2, <2>2 DEF PhaseInv
    <2>7. AwaitInv' /\ StartingInv'
      BY <1>1, <1>2, <2>4 DEF PhaseInv, AwaitInv, StartingInv
    <2>5. PortInv' /\ StopInv'
      BY <1>1, <1>3, <2>1, <2>2, <2>3 DEF StopInv, PortInv, InSection
    <2>6. Owned' /\ HandInv' /\ RecordInv' /\ ShutInv'
      BY <1>1, <2>1, <2>3 DEF Owned, HandInv, RecordInv, ShutInv, Live
    <2>q. QED
      BY <2>4, <2>5, <2>6, <2>7 DEF Kept
  <1>5. CASE ~Live(proc[p])
    <2>1. /\ proc' = [proc EXCEPT ![p] = NoKid] /\ status' = [status EXCEPT ![p] = "stopped"]
          /\ op' = [op EXCEPT ![c] = [pc |-> "unrecord", p |-> p]]
      BY <1>1, <1>5 DEF StopBegin
    <2>2. Kept'
      <3> HIDE DEF ChildInv, Orderly, Live
      <3>1. QED
        BY <1>1, <1>2, <1>3, <1>5, <2>1, Stopped
    <2>q. QED
      BY <2>2
  <1>q. QED
    BY <1>4, <1>5

LEMMA StopReapKept ==
    ASSUME ChildInv, Orderly, TypeInv', NEW c \in Clients, NEW p \in Projects, StopReap(c, p)
    PROVE  Kept'
  <1> USE NullAssumption, ParamAssumption
      DEF ChildInv, Kept, Orderly, TypeInv, TypeOK, At, Goto, inst, locks, monitor, life,
          MonGoto, MonNext, MonAt, Live, Up, Idle, Listed, Handled, InHand, Awaits, Reaping,
          StartingUp
  <1>1. /\ op[c].pc = "reap" /\ op[c].p = p /\ op[c].for = "stop"
        /\ proc' = [proc EXCEPT ![p] = NoKid] /\ status' = [status EXCEPT ![p] = "stopped"]
        /\ op' = [op EXCEPT ![c] = [pc |-> "unrecord", p |-> p]]
        /\ kid' = [kid EXCEPT ![op[c].tgt].st = "dead"]
        /\ UNCHANGED <<port, starts, autos, stopping, running, cond, monitor, life>>
    BY DEF StopReap, Reaped
  <1>2. proc[p] \in {op[c].tgt, NoKid} /\ op[c].tgt \in Kids /\ p \in stopping
    BY <1>1 DEF StopInv, Op, Idle
  <1>3. phase = "serving" /\ \A r \in Projects : r \in stopping' <=> r \in stopping \/ r = p
    BY <1>1, <1>2 DEF PhaseInv
  <1>4. \A d \in Clients : d # c => ~InSection(d, p)
    BY <1>1 DEF OneOperationPerProject, InSection
  <1>q. QED
    <2> HIDE DEF ChildInv, Orderly, Live
    <2>1. QED
      BY <1>1, <1>2, <1>3, <1>4, Stopped

LEMMA StopEndKept ==
    ASSUME ChildInv, Orderly, TypeInv', NEW c \in Clients, NEW p \in Projects, StopEnd(c, p)
    PROVE  Kept'
  <1> USE NullAssumption, ParamAssumption
      DEF ChildInv, Kept, Orderly, TypeInv, TypeOK, At, Goto, inst, locks, monitor, life,
          MonGoto, MonNext, MonAt, Live, Up, Idle, Listed, Handled, InHand, Awaits, Reaping,
          StartingUp,
          StopEnd, Release
  <1>1. PhaseInv' /\ StartingInv' /\ Owned'
    BY DEF PhaseInv, StartingInv, Owned
  <1>2. PortInv' /\ HandInv' /\ StopInv'
    BY DEF PortInv, HandInv, StopInv
  <1>3. ShutInv'
    BY DEF ShutInv
  <1>4. AwaitInv'
    <2>1. phase = "serving" /\ UNCHANGED <<phase, resume, status, proc, port>>
      BY DEF PhaseInv
    <2>q. QED
      BY <1>1, <2>1 DEF PhaseInv, AwaitInv
  <1>5. RecordInv'
    BY DEF StopInv, RecordInv
  <1>q. QED
    BY <1>1, <1>2, <1>3, <1>4, <1>5 DEF Kept

LEMMA ReplaceEndKept ==
    ASSUME ChildInv, Orderly, TypeInv', NEW c \in Clients, NEW p \in Projects, ReplaceEnd(c, p)
    PROVE  Kept'
  <1> USE NullAssumption, ParamAssumption
      DEF ChildInv, Kept, Orderly, TypeInv, TypeOK, At, Goto, inst, locks, monitor, life,
          MonGoto, MonNext, MonAt, Live, Up, Idle, Listed, Handled, InHand, Awaits, Reaping,
          StartingUp,
          ReplaceEnd, Release
  <1>1. PhaseInv' /\ AwaitInv' /\ StartingInv'
    BY DEF PhaseInv, AwaitInv, StartingInv
  <1>2. Owned' /\ PortInv' /\ HandInv'
    BY DEF Owned, PortInv, HandInv
  <1>3. StopInv' /\ RecordInv' /\ ShutInv'
    BY DEF StopInv, RecordInv, ShutInv
  <1>q. QED
    BY <1>1, <1>2, <1>3 DEF Kept

LEMMA KidHasProject ==
    ASSUME TypeInv, NEW k \in Kids, Live(k)
    PROVE  kid[k].proj \in Projects
  BY DEF TypeInv, TypeOK, Live, Kid, NotSpawned

LEMMA MonRespawnKept ==
    ASSUME ChildInv, Orderly, TypeInv', NEW p \in Projects, MonRespawn(p)
    PROVE  Kept'
  <1> USE NullAssumption, ParamAssumption
      DEF ChildInv, Kept, Orderly, TypeInv, TypeOK, At, Goto, inst, locks, monitor, life,
          MonGoto, MonNext, MonAt, Live, Up, Idle, Listed, Handled, InHand, Awaits, Reaping,
          StartingUp
  <1>1. PICK k \in Kids, q \in Ports :
           /\ SpawnLocked(p, port[p], k, q)
           /\ mon' = [pc |-> "health", todo |-> mon.todo, p |-> p, port |-> q]
    BY DEF MonRespawn
  <1>2. /\ mon.pc = "backoff" /\ mon.p = p /\ Up /\ p \notin stopping
        /\ UNCHANGED <<stopping, running, op, shut, resume, phase, boots>>
    BY DEF MonRespawn, StopRequested
  <1>3. ~Live(proc[p]) /\ status[p] = "running" /\ p \notin mon.todo /\ port[p] # NoPort
    BY <1>2 DEF HandInv, PortInv
  <1>4. running[p] # NoPort /\ shut.pc = "no"
    <2>1. shut.pc \notin {"next", "reap"}
      BY <1>2, <1>3 DEF ShutInv
    <2>q. QED
      BY <1>2, <1>3, <2>1 DEF RecordInv, Shut
  <1>5. /\ port' = [port EXCEPT ![p] = q] /\ proc' = [proc EXCEPT ![p] = k]
        /\ status' = [status EXCEPT ![p] = "starting"] /\ port'[p] # NoPort
        /\ \A r \in Projects \ {p} : proc[r] # k /\ (Live(proc[r])' => Live(proc[r]))
        /\ \A d \in Clients : op[d].pc = "reap" => op[d].tgt # k
        /\ Owned'
    <2> HIDE DEF Live
    <2>1. QED
      BY <1>1, <1>3, Spawned
  <1>6. \A r \in Projects \ {p} : port'[r] = port[r] /\ proc'[r] = proc[r] /\ status'[r] = status[r]
    BY <1>5
  <1> HIDE DEF Live
  <1>7. \A r \in Projects : /\ Listed(r)' <=> Listed(r)
                            /\ Handled(r)' <=> Handled(r)
    BY <1>1, <1>2
  <1>8. PhaseInv'
    BY <1>2 DEF PhaseInv
  <1>9. ~Awaits(p) /\ \A d \in Clients : ~StartingUp(d, p)
    BY <1>2, <1>3 DEF StartingInv, AwaitInv
  <1>10. AwaitInv'
    <2>1. \A r \in Projects : Awaits(r)' => Awaits(r) /\ r # p
      BY <1>2, <1>9
    <2>2. \A r \in Projects, d \in Clients : At(d, "start", r)' <=> At(d, "start", r)
      BY <1>2
    <2> HIDE DEF Awaits, At
    <2>q. QED
      BY <1>2, <1>6, <2>1, <2>2 DEF AwaitInv
  <1>16. StartingInv'
    <2>1. \A r \in Projects, d \in Clients : StartingUp(d, r)' => StartingUp(d, r) /\ r # p
      BY <1>2, <1>9
    <2> HIDE DEF StartingUp
    <2>q. QED
      BY <1>2, <1>6, <1>7, <2>1 DEF StartingInv
  <1>11. PortInv'
    BY <1>2, <1>5, <1>6, <1>7 DEF PortInv
  <1>12. HandInv'
    BY <1>1, <1>2, <1>3, <1>5, <1>6 DEF HandInv
  <1>13. StopInv'
    <2>1. \A d \in Clients : ~Reaping(d, p, "stop") /\ ~At(d, "unrecord", p) /\ ~At(d, "replacing", p)
      BY <1>2, <1>3 DEF StopInv
    <2>2. QED
      BY <1>2, <1>5, <1>6, <1>7, <2>1 DEF StopInv
  <1>14. RecordInv'
    BY <1>2, <1>4, <1>5, <1>6 DEF RecordInv
  <1>15. ShutInv'
    BY <1>2, <1>4 DEF ShutInv
  <1>q. QED
    BY <1>5, <1>8, <1>10, <1>11, <1>12, <1>13, <1>14, <1>15, <1>16 DEF Kept

LEMMA ReplaceBeginKept ==
    ASSUME ChildInv, Orderly, TypeInv', NEW c \in Clients, NEW p \in Projects, ReplaceBegin(c, p)
    PROVE  Kept'
  <1> USE NullAssumption, ParamAssumption
      DEF ChildInv, Kept, Orderly, TypeInv, TypeOK, At, Goto, inst, locks, monitor, life,
          MonGoto, MonNext, MonAt, Live, Up, Idle, Listed, Handled, InHand, Awaits, Reaping,
          StartingUp
  <1>1. /\ op[c].pc = "replace" /\ op[c].p = p
        /\ UNCHANGED <<inst, stopping, running, cond, kid, monitor, life>>
    BY DEF ReplaceBegin
  <1>2. PICK where \in {"idle", "replacing"} :
           /\ op' = [op EXCEPT ![c] = IF where = "idle" THEN Idle ELSE [pc |-> "replacing", p |-> p]]
           /\ where = "replacing" => ~Live(proc[p]) /\ status[p] \in {"stopped", "crashed"}
    BY DEF ReplaceBegin, IsFullyStopped
  <1>3. /\ \A d \in Clients : d # c => op'[d] = op[d]
        /\ op'[c].pc = where /\ (where = "replacing" => op'[c].p = p)
    BY <1>2
  <1>4. phase = "serving" /\ resume = {}
    BY <1>1 DEF PhaseInv
  <1> HIDE DEF Live
  <1>5. PhaseInv'
    BY <1>1, <1>3, <1>4 DEF PhaseInv
  <1>6. AwaitInv' /\ StartingInv'
    BY <1>1, <1>4, <1>5 DEF PhaseInv, AwaitInv, StartingInv
  <1>7. PortInv'
    BY <1>1, <1>3 DEF PortInv
  <1>8. UNCHANGED <<proc, status, mon, stopping, shut>> /\ \A r \in Projects : Live(proc[r])' <=> Live(proc[r])
    BY <1>1 DEF Live
  <1>9. InHand(p) /\ status[p] \in {"stopped", "crashed"} => p \in stopping
    BY DEF HandInv, Mon
  <1>10. StopInv'
    BY <1>1, <1>2, <1>3, <1>8, <1>9 DEF StopInv
  <1>11. Owned' /\ HandInv' /\ RecordInv' /\ ShutInv'
    BY <1>1 DEF Owned, HandInv, RecordInv, ShutInv, Live
  <1>q. QED
    BY <1>5, <1>6, <1>7, <1>10, <1>11 DEF Kept

LEMMA ManagerExitKept ==
    ASSUME ChildInv, Orderly, TypeInv', ManagerExit
    PROVE  Kept'
  <1> USE NullAssumption, ParamAssumption
      DEF ChildInv, Kept, Orderly, TypeInv, TypeOK, At, Goto, inst, locks, monitor, life,
          MonGoto, MonNext, MonAt, Live, Up, Idle, Listed, Handled, InHand, Awaits, Reaping,
          StartingUp
  <1>1. /\ shut.pc = "next" /\ shut.left = {} /\ shut' = [pc |-> "exited"]
        /\ UNCHANGED <<inst, locks, running, cond, kid, op, monitor, resume, phase, boots>>
    BY DEF ManagerExit
  <1>2. \A k \in Kids : ~Live(k)
    BY <1>1, KidHasProject DEF ShutInv, Owned
  <1>3. PhaseInv'
    BY <1>1 DEF PhaseInv
  <1>4. AwaitInv' /\ StartingInv' /\ Owned' /\ PortInv' /\ HandInv' /\ RecordInv'
    BY <1>1 DEF AwaitInv, StartingInv, Owned, PortInv, HandInv, RecordInv
  <1>5. StopInv'
    BY <1>1 DEF StopInv
  <1>6. ShutInv'
    BY <1>1, <1>2 DEF ShutInv
  <1>q. QED
    BY <1>3, <1>4, <1>5, <1>6 DEF Kept

(* What a shutdown has finished with.                                      *)
LEMMA ShutdownPasses ==
    ASSUME ChildInv, Orderly, TypeInv', NEW p \in Projects,
           shut.pc \in {"next", "reap"}, shut'.pc = "next", \A r \in Projects : r \in shut.left => r \in shut'.left \/ r = p,
           shut.pc = "reap" => shut.p = p,
           proc' = [proc EXCEPT ![p] = NoKid],
           \/ ~Live(proc[p]) /\ kid' = kid
           \/ \E k \in Kids : proc[p] \in {k, NoKid} /\ kid' = [kid EXCEPT ![k].st = "dead"],
           UNCHANGED <<status, port, locks, running, op, monitor, resume, phase, boots>>
    PROVE  Kept'
  <1> USE NullAssumption, ParamAssumption
      DEF ChildInv, Kept, Orderly, TypeInv, TypeOK, At, Goto, inst, locks, monitor, life,
          MonGoto, MonNext, MonAt, Live, Up, Idle, Listed, Handled, InHand, Awaits, Reaping,
          StartingUp
  <1>1. phase = "serving" /\ resume = {} /\ boots >= 1
    BY DEF PhaseInv, ShutInv
  <1>2. /\ Owned' /\ proc'[p] = NoKid /\ ~Live(proc[p])'
        /\ \A r \in Projects \ {p} : proc'[r] = proc[r]
        /\ \A r \in Projects : Live(proc[r])' => Live(proc[r])
    <2> HIDE DEF Live
    <2>1. QED
      BY Down
  <1> HIDE DEF Live
  <1>3. PhaseInv'
    BY <1>1 DEF PhaseInv
  <1>4. AwaitInv' /\ StartingInv'
    BY <1>1, <1>3 DEF PhaseInv, AwaitInv, StartingInv
  <1>5. PortInv' /\ RecordInv'
    BY <1>2 DEF PortInv, RecordInv
  <1>6. HandInv'
    BY <1>2 DEF HandInv
  <1>7. StopInv'
    BY <1>2 DEF StopInv
  <1>8. ShutInv'
    BY <1>1, <1>2 DEF ShutInv
  <1>q. QED
    BY <1>2, <1>3, <1>4, <1>5, <1>6, <1>7, <1>8 DEF Kept

LEMMA ShutdownTerminateKept ==
    ASSUME ChildInv, Orderly, TypeInv', NEW p \in Projects, ShutdownTerminate(p)
    PROVE  Kept'
  <1> USE NullAssumption, ParamAssumption
      DEF ChildInv, Kept, Orderly, TypeInv, TypeOK, At, Goto, inst, locks, monitor, life,
          MonGoto, MonNext, MonAt, Live, Up, Idle, Listed, Handled, InHand, Awaits, Reaping,
          StartingUp
  <1>1. /\ shut.pc = "next" /\ p \in shut.left
        /\ UNCHANGED <<status, port, error, starts, autos, locks, running, cond, kid, op, monitor,
                       resume, phase, boots>>
    BY DEF ShutdownTerminate
  <1>2. CASE Live(proc[p])
    <2>1. /\ shut' = [pc |-> "reap", left |-> shut.left \ {p}, p |-> p, tgt |-> proc[p]]
          /\ proc' = proc
      BY <1>2 DEF ShutdownTerminate
    <2>2. PhaseInv' /\ StopInv' /\ ShutInv'
      BY <1>1, <2>1 DEF PhaseInv, StopInv, ShutInv
    <2>3. AwaitInv' /\ StartingInv' /\ Owned' /\ PortInv' /\ HandInv' /\ RecordInv'
      BY <1>1, <2>1 DEF AwaitInv, StartingInv, Owned, PortInv, HandInv, RecordInv
    <2>q. QED
      BY <2>2, <2>3 DEF Kept
  <1>3. CASE ~Live(proc[p])
    <2>1. shut' = [pc |-> "next", left |-> shut.left \ {p}] /\ proc' = [proc EXCEPT ![p] = NoKid]
      BY <1>3 DEF ShutdownTerminate
    <2> HIDE DEF ChildInv, Orderly, Live
    <2>q. QED
      BY <1>1, <1>3, <2>1, ShutdownPasses
  <1>q. QED
    BY <1>2, <1>3

LEMMA ShutdownReapKept ==
    ASSUME ChildInv, Orderly, TypeInv', NEW p \in Projects, ShutdownReap(p)
    PROVE  Kept'
  <1> USE NullAssumption, ParamAssumption
      DEF ChildInv, Kept, Orderly, TypeInv, TypeOK, At, Goto, inst, locks, monitor, life,
          MonGoto, MonNext, MonAt, Live, Up, Idle, Listed, Handled, InHand, Awaits, Reaping,
          StartingUp
  <1>1. /\ shut.pc = "reap" /\ shut.p = p
        /\ proc' = [proc EXCEPT ![p] = NoKid] /\ shut' = [pc |-> "next", left |-> shut.left]
        /\ kid' = [kid EXCEPT ![shut.tgt].st = "dead"]
        /\ UNCHANGED <<status, port, error, starts, autos, locks, running, cond, op, monitor,
                       resume, phase, boots>>
    BY DEF ShutdownReap, Reaped
  <1>2. proc[p] \in {shut.tgt, NoKid} /\ shut.tgt \in Kids
    BY <1>1 DEF ShutInv, Shut
  <1>q. QED
    BY <1>1, <1>2, ShutdownPasses

LEMMA MonScanKept ==
    ASSUME ChildInv, Orderly, TypeInv', MonScan
    PROVE  Kept'
  <1> USE NullAssumption, ParamAssumption
      DEF ChildInv, Kept, Orderly, TypeInv, TypeOK, At, Goto, inst, locks, monitor, life,
          MonGoto, MonNext, MonAt, Live, Up, Idle, Listed, Handled, InHand, Awaits, Reaping,
          StartingUp,
          MonScan, Candidates, Exited
  <1>1. PhaseInv' /\ AwaitInv' /\ StartingInv'
    BY DEF PhaseInv, AwaitInv, StartingInv
  <1>2. Owned' /\ PortInv' /\ HandInv'
    BY DEF Owned, PortInv, HandInv
  <1>3. StopInv' /\ RecordInv' /\ ShutInv'
    BY DEF StopInv, RecordInv, ShutInv
  <1>q. QED
    BY <1>1, <1>2, <1>3 DEF Kept

LEMMA MonRoundDoneKept ==
    ASSUME ChildInv, Orderly, TypeInv', MonRoundDone
    PROVE  Kept'
  <1> USE NullAssumption, ParamAssumption
      DEF ChildInv, Kept, Orderly, TypeInv, TypeOK, At, Goto, inst, locks, monitor, life,
          MonGoto, MonNext, MonAt, Live, Up, Idle, Listed, Handled, InHand, Awaits, Reaping,
          StartingUp,
          MonRoundDone
  <1>1. PhaseInv' /\ AwaitInv' /\ StartingInv'
    BY DEF PhaseInv, AwaitInv, StartingInv
  <1>2. Owned' /\ PortInv' /\ HandInv'
    BY DEF Owned, PortInv, HandInv
  <1>3. StopInv' /\ RecordInv' /\ ShutInv'
    BY DEF StopInv, RecordInv, ShutInv
  <1>q. QED
    BY <1>1, <1>2, <1>3 DEF Kept

LEMMA MonLeaveKept ==
    ASSUME ChildInv, Orderly, TypeInv', MonLeave
    PROVE  Kept'
  <1> USE NullAssumption, ParamAssumption
      DEF ChildInv, Kept, Orderly, TypeInv, TypeOK, At, Goto, inst, locks, monitor, life,
          MonGoto, MonNext, MonAt, Live, Up, Idle, Listed, Handled, InHand, Awaits, Reaping,
          StartingUp,
          MonLeave
  <1>1. PhaseInv' /\ AwaitInv' /\ StartingInv'
    BY DEF PhaseInv, AwaitInv, StartingInv
  <1>2. Owned' /\ PortInv' /\ HandInv'
    BY DEF Owned, PortInv, HandInv
  <1>3. StopInv' /\ RecordInv' /\ ShutInv'
    BY DEF StopInv, RecordInv, ShutInv
  <1>q. QED
    BY <1>1, <1>2, <1>3 DEF Kept

LEMMA MonHandleCrashKept ==
    ASSUME ChildInv, Orderly, TypeInv', NEW p \in Projects, MonHandleCrash(p)
    PROVE  Kept'
  <1> USE NullAssumption, ParamAssumption
      DEF ChildInv, Kept, Orderly, TypeInv, TypeOK, At, Goto, inst, locks, monitor, life,
          MonGoto, MonNext, MonAt, Live, Up, Idle, Listed, Handled, InHand, Awaits, Reaping,
          StartingUp,
          MonHandleCrash
  <1>1. PhaseInv' /\ StartingInv' /\ PortInv'
    BY DEF PhaseInv, StartingInv, PortInv
  <1>2. HandInv' /\ StopInv' /\ RecordInv'
    BY DEF HandInv, StopInv, RecordInv
  <1>3. ShutInv'
    BY DEF ShutInv
  <1>4. AwaitInv'
    BY DEF PhaseInv, AwaitInv, HandInv
  <1>5. Owned'
    BY DEF PhaseInv, Owned, HandInv
  <1>q. QED
    BY <1>1, <1>2, <1>3, <1>4, <1>5 DEF Kept

LEMMA MonStoppedKept ==
    ASSUME ChildInv, Orderly, TypeInv', NEW p \in Projects, MonStopped(p)
    PROVE  Kept'
  <1> USE NullAssumption, ParamAssumption
      DEF ChildInv, Kept, Orderly, TypeInv, TypeOK, At, Goto, inst, locks, monitor, life,
          MonGoto, MonNext, MonAt, Live, Up, Idle, Listed, Handled, InHand, Awaits, Reaping,
          StartingUp,
          MonStopped, StopRequested
  <1>1. PhaseInv' /\ AwaitInv' /\ StartingInv'
    BY DEF PhaseInv, AwaitInv, StartingInv
  <1>2. Owned' /\ PortInv' /\ HandInv'
    BY DEF Owned, PortInv, HandInv
  <1>3. StopInv' /\ RecordInv' /\ ShutInv'
    BY DEF StopInv, RecordInv, ShutInv
  <1>q. QED
    BY <1>1, <1>2, <1>3 DEF Kept

LEMMA MonRefusedKept ==
    ASSUME ChildInv, Orderly, TypeInv', NEW p \in Projects, MonRefused(p)
    PROVE  Kept'
  <1> USE NullAssumption, ParamAssumption
      DEF ChildInv, Kept, Orderly, TypeInv, TypeOK, At, Goto, inst, locks, monitor, life,
          MonGoto, MonNext, MonAt, Live, Up, Idle, Listed, Handled, InHand, Awaits, Reaping,
          StartingUp,
          MonRefused, StopRequested
  <1>1. PhaseInv' /\ StartingInv' /\ Owned'
    BY DEF PhaseInv, StartingInv, Owned
  <1>2. PortInv' /\ HandInv' /\ StopInv'
    BY DEF PortInv, HandInv, StopInv
  <1>3. RecordInv' /\ ShutInv'
    BY DEF RecordInv, ShutInv
  <1>4. AwaitInv'
    BY DEF PhaseInv, AwaitInv, HandInv
  <1>q. QED
    BY <1>1, <1>2, <1>3, <1>4 DEF Kept

LEMMA MonRespawnFailsKept ==
    ASSUME ChildInv, Orderly, TypeInv', NEW p \in Projects, MonRespawnFails(p)
    PROVE  Kept'
  <1> USE NullAssumption, ParamAssumption
      DEF ChildInv, Kept, Orderly, TypeInv, TypeOK, At, Goto, inst, locks, monitor, life,
          MonGoto, MonNext, MonAt, Live, Up, Idle, Listed, Handled, InHand, Awaits, Reaping,
          StartingUp,
          MonRespawnFails, SpawnFails, StopRequested
  <1>1. PhaseInv' /\ StartingInv' /\ Owned'
    BY DEF PhaseInv, StartingInv, Owned
  <1>2. PortInv' /\ HandInv' /\ StopInv'
    BY DEF PortInv, HandInv, StopInv
  <1>3. AwaitInv'
    BY DEF PhaseInv, AwaitInv, HandInv
  <1>4. RecordInv'
    BY DEF PhaseInv, AwaitInv, StartingInv, PortInv, HandInv, RecordInv
  <1>5. ShutInv'
    BY DEF PhaseInv, AwaitInv, StartingInv, PortInv, HandInv, ShutInv
  <1>q. QED
    BY <1>1, <1>2, <1>3, <1>4, <1>5 DEF Kept

LEMMA MonHealthyKept ==
    ASSUME ChildInv, Orderly, TypeInv', NEW p \in Projects, MonHealthy(p)
    PROVE  Kept'
  <1> USE NullAssumption, ParamAssumption
      DEF ChildInv, Kept, Orderly, TypeInv, TypeOK, At, Goto, inst, locks, monitor, life,
          MonGoto, MonNext, MonAt, Live, Up, Idle, Listed, Handled, InHand, Awaits, Reaping,
          StartingUp,
          MonHealthy
  <1>1. PhaseInv' /\ AwaitInv' /\ StartingInv'
    BY DEF PhaseInv, AwaitInv, StartingInv
  <1>2. Owned' /\ PortInv' /\ HandInv'
    BY DEF Owned, PortInv, HandInv
  <1>3. StopInv' /\ RecordInv' /\ ShutInv'
    BY DEF StopInv, RecordInv, ShutInv
  <1>q. QED
    BY <1>1, <1>2, <1>3 DEF Kept

LEMMA MonUnhealthyKept ==
    ASSUME ChildInv, Orderly, TypeInv', NEW p \in Projects, MonUnhealthy(p)
    PROVE  Kept'
  <1> USE NullAssumption, ParamAssumption
      DEF ChildInv, Kept, Orderly, TypeInv, TypeOK, At, Goto, inst, locks, monitor, life,
          MonGoto, MonNext, MonAt, Live, Up, Idle, Listed, Handled, InHand, Awaits, Reaping,
          StartingUp,
          MonUnhealthy
  <1>1. PhaseInv' /\ AwaitInv' /\ StartingInv'
    BY DEF PhaseInv, AwaitInv, StartingInv
  <1>2. Owned' /\ PortInv' /\ HandInv'
    BY DEF Owned, PortInv, HandInv
  <1>3. StopInv' /\ RecordInv' /\ ShutInv'
    BY DEF StopInv, RecordInv, ShutInv
  <1>q. QED
    BY <1>1, <1>2, <1>3 DEF Kept

LEMMA MonMarkRunningKept ==
    ASSUME ChildInv, Orderly, TypeInv', NEW p \in Projects, MonMarkRunning(p)
    PROVE  Kept'
  <1> USE NullAssumption, ParamAssumption
      DEF ChildInv, Kept, Orderly, TypeInv, TypeOK, At, Goto, inst, locks, monitor, life,
          MonGoto, MonNext, MonAt, Live, Up, Idle, Listed, Handled, InHand, Awaits, Reaping,
          StartingUp,
          MonMarkRunning
  <1>1. PhaseInv' /\ StartingInv' /\ Owned'
    BY DEF PhaseInv, StartingInv, Owned
  <1>2. PortInv' /\ HandInv' /\ StopInv'
    BY DEF PortInv, HandInv, StopInv
  <1>3. RecordInv' /\ ShutInv'
    BY DEF RecordInv, ShutInv
  <1>4. AwaitInv'
    BY DEF PhaseInv, AwaitInv, HandInv
  <1>q. QED
    BY <1>1, <1>2, <1>3, <1>4 DEF Kept

LEMMA MonUpsertKept ==
    ASSUME ChildInv, Orderly, TypeInv', NEW p \in Projects, MonUpsert(p)
    PROVE  Kept'
  <1> USE NullAssumption, ParamAssumption
      DEF ChildInv, Kept, Orderly, TypeInv, TypeOK, At, Goto, inst, locks, monitor, life,
          MonGoto, MonNext, MonAt, Live, Up, Idle, Listed, Handled, InHand, Awaits, Reaping,
          StartingUp,
          MonUpsert, Record
  <1>1. PhaseInv' /\ StartingInv' /\ Owned'
    BY DEF PhaseInv, StartingInv, Owned
  <1>2. PortInv' /\ HandInv' /\ StopInv'
    BY DEF PortInv, HandInv, StopInv
  <1>3. ShutInv'
    BY DEF ShutInv
  <1>4. AwaitInv'
    <2>1. ~Awaits(p)
      BY DEF PhaseInv, AwaitInv, HandInv
    <2>2. \A r \in Projects \ {p} : running'[r] = running[r]
      OBVIOUS
    <2>3. UNCHANGED <<op, resume, status, proc, port>>
      OBVIOUS
    <2>q. QED
      BY <2>1, <2>2, <2>3 DEF AwaitInv
  <1>5. RecordInv'
    BY DEF PhaseInv, AwaitInv, StartingInv, PortInv, HandInv, RecordInv
  <1>q. QED
    BY <1>1, <1>2, <1>3, <1>4, <1>5 DEF Kept

LEMMA ResumeDoneKept ==
    ASSUME ChildInv, Orderly, TypeInv', ResumeDone
    PROVE  Kept'
  <1> USE NullAssumption, ParamAssumption
      DEF ChildInv, Kept, Orderly, TypeInv, TypeOK, At, Goto, inst, locks, monitor, life,
          MonGoto, MonNext, MonAt, Live, Up, Idle, Listed, Handled, InHand, Awaits, Reaping,
          StartingUp,
          ResumeDone
  <1>1. PhaseInv' /\ AwaitInv' /\ StartingInv'
    BY DEF PhaseInv, AwaitInv, StartingInv
  <1>2. Owned' /\ PortInv' /\ HandInv'
    BY DEF Owned, PortInv, HandInv
  <1>3. StopInv' /\ RecordInv' /\ ShutInv'
    BY DEF StopInv, RecordInv, ShutInv
  <1>q. QED
    BY <1>1, <1>2, <1>3 DEF Kept

LEMMA ResumeRefusedKept ==
    ASSUME ChildInv, Orderly, TypeInv', NEW p \in Projects, ResumeRefused(p)
    PROVE  Kept'
  <1> USE NullAssumption, ParamAssumption
      DEF ChildInv, Kept, Orderly, TypeInv, TypeOK, At, Goto, inst, locks, monitor, life,
          MonGoto, MonNext, MonAt, Live, Up, Idle, Listed, Handled, InHand, Awaits, Reaping,
          StartingUp,
          ResumeRefused
  <1>1. PhaseInv' /\ AwaitInv' /\ StartingInv'
    BY DEF PhaseInv, AwaitInv, StartingInv
  <1>2. Owned' /\ PortInv' /\ HandInv'
    BY DEF Owned, PortInv, HandInv
  <1>3. StopInv' /\ RecordInv' /\ ShutInv'
    BY DEF StopInv, RecordInv, ShutInv
  <1>q. QED
    BY <1>1, <1>2, <1>3 DEF Kept

LEMMA ShutdownBeginKept ==
    ASSUME ChildInv, Orderly, TypeInv', ShutdownBegin
    PROVE  Kept'
  <1> USE NullAssumption, ParamAssumption
      DEF ChildInv, Kept, Orderly, TypeInv, TypeOK, At, Goto, inst, locks, monitor, life,
          MonGoto, MonNext, MonAt, Live, Up, Idle, Listed, Handled, InHand, Awaits, Reaping,
          StartingUp,
          ShutdownBegin, ToTerminate
  <1>1. PhaseInv' /\ AwaitInv' /\ StartingInv'
    BY DEF PhaseInv, AwaitInv, StartingInv
  <1>2. Owned' /\ PortInv' /\ HandInv'
    BY DEF Owned, PortInv, HandInv
  <1>3. StopInv' /\ RecordInv'
    BY DEF StopInv, RecordInv
  <1>4. ShutInv'
    BY DEF PhaseInv, AwaitInv, StartingInv, PortInv, HandInv, ShutInv
  <1>q. QED
    BY <1>1, <1>2, <1>3, <1>4 DEF Kept

LEMMA ManagerKilledKept ==
    ASSUME ChildInv, Orderly, TypeInv', ManagerKilled
    PROVE  Kept'
  <1> USE NullAssumption, ParamAssumption
      DEF ChildInv, Kept, Orderly, TypeInv, TypeOK, At, Goto, inst, locks, monitor, life,
          MonGoto, MonNext, MonAt, Live, Up, Idle, Listed, Handled, InHand, Awaits, Reaping,
          StartingUp,
          ManagerKilled
  <1>1. PhaseInv' /\ AwaitInv' /\ StartingInv'
    BY DEF PhaseInv, AwaitInv, StartingInv
  <1>2. Owned' /\ PortInv' /\ HandInv'
    BY DEF Owned, PortInv, HandInv
  <1>3. StopInv' /\ RecordInv' /\ ShutInv'
    BY DEF StopInv, RecordInv, ShutInv
  <1>q. QED
    BY <1>1, <1>2, <1>3 DEF Kept

LEMMA ManagerBootKept ==
    ASSUME ChildInv, Orderly, TypeInv', ManagerBoot
    PROVE  Kept'
  <1> USE NullAssumption, ParamAssumption
      DEF ChildInv, Kept, Orderly, TypeInv, TypeOK, At, Goto, inst, locks, monitor, life,
          MonGoto, MonNext, MonAt, Live, Up, Idle, Listed, Handled, InHand, Awaits, Reaping,
          StartingUp,
          ManagerBoot
  <1>1. PhaseInv' /\ AwaitInv' /\ StartingInv'
    BY DEF PhaseInv, AwaitInv, StartingInv
  <1>2. PortInv' /\ HandInv' /\ StopInv'
    BY DEF PortInv, HandInv, StopInv
  <1>3. RecordInv' /\ ShutInv'
    BY DEF RecordInv, ShutInv
  <1>4. Owned'
    BY DEF Owned, ShutInv
  <1>q. QED
    BY <1>1, <1>2, <1>3, <1>4 DEF Kept

LEMMA KidServesKept ==
    ASSUME ChildInv, Orderly, TypeInv', NEW k \in Kids, KidServes(k)
    PROVE  Kept'
  <1> USE NullAssumption, ParamAssumption
      DEF ChildInv, Kept, Orderly, TypeInv, TypeOK, At, Goto, inst, locks, monitor, life,
          MonGoto, MonNext, MonAt, Live, Up, Idle, Listed, Handled, InHand, Awaits, Reaping,
          StartingUp,
          KidServes
  <1>1. PhaseInv' /\ AwaitInv' /\ StartingInv'
    BY DEF PhaseInv, AwaitInv, StartingInv
  <1>2. Owned' /\ PortInv' /\ HandInv'
    BY DEF Owned, PortInv, HandInv
  <1>3. StopInv' /\ RecordInv' /\ ShutInv'
    BY DEF StopInv, RecordInv, ShutInv
  <1>q. QED
    BY <1>1, <1>2, <1>3 DEF Kept

LEMMA KidExitsKept ==
    ASSUME ChildInv, Orderly, TypeInv', NEW k \in Kids, KidExits(k)
    PROVE  Kept'
  <1> USE NullAssumption, ParamAssumption
      DEF ChildInv, Kept, Orderly, TypeInv, TypeOK, At, Goto, inst, locks, monitor, life,
          MonGoto, MonNext, MonAt, Live, Up, Idle, Listed, Handled, InHand, Awaits, Reaping,
          StartingUp,
          KidExits
  <1>1. PhaseInv' /\ AwaitInv' /\ StartingInv'
    BY DEF PhaseInv, AwaitInv, StartingInv
  <1>2. Owned' /\ PortInv' /\ HandInv'
    BY DEF Owned, PortInv, HandInv
  <1>3. StopInv' /\ RecordInv' /\ ShutInv'
    BY DEF StopInv, RecordInv, ShutInv
  <1>q. QED
    BY <1>1, <1>2, <1>3 DEF Kept

-----------------------------------------------------------------------------
LEMMA InitChildren == Orderly /\ Init => ChildInv
  <1> SUFFICES ASSUME Orderly, Init PROVE ChildInv
    OBVIOUS
  <1> USE DEF Init, At, Live, Listed, Handled, InHand, Awaits, Reaping, StartingUp, Idle
  <1>1. TypeInv /\ OneOperationPerProject
    BY InitType, InitLock
  <1>2. PhaseInv /\ AwaitInv /\ StartingInv
    BY DEF PhaseInv, AwaitInv, StartingInv
  <1>3. \A k \in Kids : ~Live(k)
    BY DEF NotSpawned
  <1>4. Owned /\ PortInv /\ HandInv /\ StopInv /\ RecordInv /\ ShutInv
    BY <1>3 DEF Owned, PortInv, HandInv, StopInv, RecordInv, ShutInv
  <1>q. QED
    BY <1>1, <1>2, <1>4 DEF ChildInv, Kept

LEMMA StepChildren == Orderly /\ ChildInv /\ [Next]_vars => Orderly' /\ ChildInv'
  <1> SUFFICES ASSUME Orderly, ChildInv, [Next]_vars PROVE Orderly' /\ ChildInv'
    OBVIOUS
  <1>1. TypeInv' /\ OneOperationPerProject'
    BY StepType, StepKeepsLock DEF ChildInv, TypeInv
  <1>2. ASSUME UNCHANGED vars
        PROVE  Kept'
    BY <1>2, SameKept DEF vars, life
  <1>3. ASSUME NEW c \in Clients, NEW p \in Projects, Request(c, p) \/ Thread(c, p)
        PROVE  Kept'
    BY <1>1, <1>3, RequestKept, StartRefusedKept, StartAlreadyUpKept, StartSpawnKept,
       StartSpawnFailsKept, StartHealthyKept, StartUnhealthyKept, StartMarkRunningKept,
       StartUpsertKept, StartTeardownKept, StartReapKept, StopBeginKept, StopReapKept,
       StopEndKept, ReplaceBeginKept, ReplaceEndKept DEF Thread
  <1>4. ASSUME Monitor
        PROVE  Kept'
    BY <1>1, <1>4, MonScanKept, MonRoundDoneKept, MonLeaveKept, MonHandleCrashKept,
       MonStoppedKept, MonRefusedKept, MonRespawnKept, MonRespawnFailsKept, MonHealthyKept,
       MonUnhealthyKept, MonMarkRunningKept, MonUpsertKept DEF Monitor
  <1>5. ASSUME Lifecycle
        PROVE  Kept'
    BY <1>1, <1>5, ResumeDoneKept, ResumeRefusedKept, ShutdownBeginKept, ManagerExitKept,
       ManagerKilledKept, ManagerBootKept, ShutdownTerminateKept, ShutdownReapKept DEF Lifecycle
  <1>6. ASSUME Environment
        PROVE  Kept'
    <2>1. ASSUME NEW p \in Projects, WindowSlides(p) \/ CondChanges(p) \/ Delete(p)
          PROVE  Kept'
      BY <2>1, SameKept DEF WindowSlides, CondChanges, Delete, inst, locks, monitor, life
    <2>q. QED
      BY <1>1, <1>6, <2>1, KidServesKept, KidExitsKept DEF Environment
  <1>7. Orderly'
    BY DEF Orderly
  <1>q. QED
    BY <1>1, <1>2, <1>3, <1>4, <1>5, <1>6, <1>7 DEF Next, ChildInv

(* The supervisor holds the handle of every live child of a project.       *)
LEMMA OnlyTheHandle ==
    ASSUME ChildInv, NEW p \in Projects, NEW k \in LiveKids(p)
    PROVE  k = proc[p] /\ Live(proc[p])
  BY DEF LiveKids, ChildInv, Kept, Owned

LEMMA OneAtATime == ChildInv => OneChildPerProject
  <1> SUFFICES ASSUME ChildInv, NEW p \in Projects PROVE Cardinality(LiveKids(p)) <= 1
    BY DEF OneChildPerProject
  <1>1. CASE LiveKids(p) = {}
    BY <1>1, FS_EmptySet
  <1>2. CASE LiveKids(p) # {}
    <2>1. LiveKids(p) = {proc[p]}
      BY <1>2, OnlyTheHandle
    <2>2. Cardinality({proc[p]}) = 1
      BY FS_Singleton
    <2>q. QED
      BY <2>1, <2>2
  <1>q. QED
    BY <1>1, <1>2

LEMMA DownHasNoChild ==
    ASSUME ChildInv
    PROVE  /\ StoppedIsDown /\ ReplacedWhileDown
           /\ \A p \in Projects : Delete(p) => LiveKids(p) = {}
  <1>1. StoppedIsDown
    <2> SUFFICES ASSUME NEW p \in Projects, p \in stopping, oplock[p] = Nobody, shut.pc = "no"
                 PROVE  LiveKids(p) = {}
      BY DEF StoppedIsDown
    <2>1. \A c \in Clients : ~Reaping(c, p, "stop")
      BY NullAssumption DEF ChildInv, OneOperationPerProject, InSection, Reaping, At
    <2>2. ~Live(proc[p])
      BY <2>1 DEF ChildInv, Kept, StopInv
    <2>q. QED
      BY <2>2, OnlyTheHandle
  <1>2. ReplacedWhileDown
    <2> SUFFICES ASSUME NEW p \in Projects, NEW c \in Clients, At(c, "replacing", p)
                 PROVE  LiveKids(p) = {}
      BY DEF ReplacedWhileDown, At
    <2>1. ~Live(proc[p])
      BY DEF ChildInv, Kept, StopInv
    <2>q. QED
      BY <2>1, OnlyTheHandle
  <1>3. ASSUME NEW p \in Projects, Delete(p)
        PROVE  LiveKids(p) = {}
    <2>1. ~Live(proc[p])
      BY <1>3 DEF Delete, Recorded, ChildInv, Kept, RecordInv
    <2>q. QED
      BY <2>1, OnlyTheHandle
  <1>q. QED
    BY <1>1, <1>2, <1>3

LEMMA ExitLeavesNoChild ==
    ASSUME ChildInv, ManagerExit, NEW p \in Projects
    PROVE  LiveKids(p) = {}
  <1>1. ~Live(proc[p])
    BY DEF ManagerExit, ChildInv, Kept, ShutInv
  <1>q. QED
    BY <1>1, OnlyTheHandle

(* start, the monitor's restarts and resume_all never give one project two *)
(* live children, for any number of threads, projects and boots: whoever   *)
(* spawns finds no live child in instance.proc.                            *)
THEOREM OneChild == Orderly /\ Spec => []OneChildPerProject
  <1>1. Orderly /\ Init => Orderly /\ ChildInv
    BY InitChildren
  <1>q. QED
    BY <1>1, StepChildren, OneAtATime, PTL DEF Spec

(* Between the return of a stop and the next start, while a transfer       *)
(* replaces the folder, and when the project is deleted, no child of it is *)
(* alive, though the monitor restarts crashed children without the lock.   *)
THEOREM DownStaysDown == Orderly /\ Spec => DownIsDown
  <1>1. Orderly /\ Init => Orderly /\ ChildInv
    BY InitChildren
  <1>2. ChildInv => StoppedIsDown /\ ReplacedWhileDown
    BY DownHasNoChild
  <1>3. ChildInv /\ [Next]_vars => [\A p \in Projects : Delete(p) => LiveKids(p) = {}]_vars
    BY DownHasNoChild
  <1>q. QED
    BY <1>1, <1>2, <1>3, StepChildren, PTL DEF Spec, DownIsDown

(* terminate_all followed by the end of the process leaves no child        *)
(* behind: not one that was still starting, nor one the monitor was about  *)
(* to respawn.                                                             *)
THEOREM ShutdownIsComplete == Orderly /\ Spec => ShutdownTerminatesAll
  <1>1. Orderly /\ Init => Orderly /\ ChildInv
    BY InitChildren
  <1>2. ChildInv /\ [Next]_vars => [ManagerExit => \A p \in Projects : LiveKids(p) = {}]_vars
    BY ExitLeavesNoChild
  <1>q. QED
    BY <1>1, <1>2, StepChildren, PTL DEF Spec, ShutdownTerminatesAll

-----------------------------------------------------------------------------
(* What a manager that dies finds in the running set.  A stop that meets   *)
(* the monitor's restart can leave "running" behind without an entry, so   *)
(* this is about instances in which nobody stops a project; the manager    *)
(* may be killed and followed by others, and users may start projects.     *)
NoStops == "stop" \notin Events

StartsOnly ==
    \A c \in Clients :
      /\ op[c].pc \notin {"stop", "unrecord"}
      /\ op[c].pc = "reap" => op[c].for = "start"

(* resume_all starts each project once.                                    *)
OncePerResume ==
    phase = "resuming" => \A c \in Clients : op[c].pc # "idle" =>
        /\ op[c].p \notin resume
        /\ \A d \in Clients : op[d].pc # "idle" /\ op[d].p = op[c].p => c = d

(* Until then, nothing has touched the project.                            *)
Untouched ==
    phase = "resuming" => \A p \in Projects : Awaits(p) => status[p] = "stopped" /\ ~InHand(p)

(* What upsert_running is going to write is a port.                        *)
PortKnown ==
    \A p \in Projects :
      /\ status[p] # "stopped" \/ InHand(p) => port[p] # NoPort
      /\ \A c \in Clients :
            op[c].pc \in {"health", "mark", "upsert", "unhealthy", "reap"} /\ op[c].p = p
                => port[p] # NoPort

(* What the monitor has found dead and not handled yet has been started.   *)
ListedIsRecorded ==
    \A p \in Projects : Listed(p) => Recorded(p) \/ StartPending(p)

RecInv ==
    /\ TypeInv
    /\ StartsOnly /\ OncePerResume /\ Untouched /\ PortKnown
    /\ ListedIsRecorded /\ RunningIsRecorded

LEMMA RecRequest ==
    ASSUME RecInv, NoStops, TypeInv', NEW c \in Clients, NEW p \in Projects, Request(c, p)
    PROVE  RecInv'
  <1> USE NullAssumption, ParamAssumption
      DEF RecInv, NoStops, TypeInv, TypeOK, At, Goto, inst, locks, monitor, life, MonGoto,
          MonNext, MonAt, Up, Idle, Listed, Handled, InHand, Awaits,
          Recorded, StartPending, UnderRestart
  <1>1. CASE Request(c, p)
    <2>1. StartsOnly'
      BY <1>1 DEF Request, Start, Stop, Replace, StartsOnly
    <2>2. OncePerResume'
      BY <1>1 DEF Request, Start, Stop, Replace, OncePerResume
    <2>3. Untouched'
      BY <1>1 DEF Request, Start, Stop, Replace, Untouched
    <2>4. PortKnown'
      BY <1>1 DEF Request, Start, Stop, Replace, PortKnown
    <2>5. ListedIsRecorded' /\ RunningIsRecorded'
      BY <1>1 DEF Request, Start, Stop, Replace, ListedIsRecorded, RunningIsRecorded
    <2>q. QED
      BY <2>1, <2>2, <2>3, <2>4, <2>5
  <1>q. QED
    BY <1>1

LEMMA RecStart ==
    ASSUME RecInv, NoStops, TypeInv', NEW c \in Clients, NEW p \in Projects, Thread(c, p)
    PROVE  RecInv'
  <1> USE NullAssumption, ParamAssumption
      DEF RecInv, NoStops, TypeInv, TypeOK, At, Goto, inst, locks, monitor, life, MonGoto,
          MonNext, MonAt, Up, Idle, Listed, Handled, InHand, Awaits,
          Recorded, StartPending, UnderRestart
  <1>1. CASE StartRefused(c, p)
    BY <1>1 DEF StartRefused, Startable, StartsOnly, OncePerResume, Untouched, PortKnown,
           ListedIsRecorded, RunningIsRecorded
  <1>2. CASE StartAlreadyUp(c, p)
    BY <1>2 DEF StartAlreadyUp, Startable, StartsOnly, OncePerResume, Untouched, PortKnown,
           ListedIsRecorded, RunningIsRecorded
  <1>3. CASE StartSpawn(c, p)
    BY <1>3 DEF StartSpawn, Startable, Acquire, SpawnLocked, AlreadyUp, StartsOnly, OncePerResume,
           Untouched, PortKnown, ListedIsRecorded, RunningIsRecorded
  <1>4. CASE StartSpawnFails(c, p)
    BY <1>4 DEF StartSpawnFails, Startable, SpawnFails, StartsOnly, OncePerResume, Untouched,
           PortKnown, ListedIsRecorded, RunningIsRecorded
  <1>5. CASE StartHealthy(c, p)
    BY <1>5 DEF StartHealthy, StartsOnly, OncePerResume, Untouched, PortKnown,
           ListedIsRecorded, RunningIsRecorded
  <1>6. CASE StartUnhealthy(c, p)
    BY <1>6 DEF StartUnhealthy, StartsOnly, OncePerResume, Untouched, PortKnown,
           ListedIsRecorded, RunningIsRecorded
  <1>7. CASE StartMarkRunning(c, p)
    BY <1>7 DEF StartMarkRunning, StartsOnly, OncePerResume, Untouched, PortKnown,
           ListedIsRecorded, RunningIsRecorded
  <1>8. CASE StartUpsert(c, p)
    BY <1>8 DEF StartUpsert, Record, Release, EnsureMonitor, StartsOnly, OncePerResume, Untouched,
           PortKnown, ListedIsRecorded, RunningIsRecorded
  <1>9. CASE StartTeardown(c, p)
    <2>1. StartsOnly'
      BY <1>9 DEF StartTeardown, Release, StartsOnly
    <2>2. OncePerResume'
      BY <1>9 DEF StartTeardown, Release, OncePerResume
    <2>3. PortKnown'
      BY <1>9 DEF StartTeardown, Release, PortKnown
    <2>4. ListedIsRecorded' /\ RunningIsRecorded'
      BY <1>9 DEF StartTeardown, Release, ListedIsRecorded, RunningIsRecorded
    <2>5. Untouched'
      BY <1>9 DEF StartTeardown, Release, OncePerResume, Untouched
    <2>q. QED
      BY <2>1, <2>2, <2>3, <2>4, <2>5
  <1>10. CASE StartReap(c, p)
    BY <1>10 DEF StartReap, Release, Reaped, StartsOnly, OncePerResume, Untouched, PortKnown,
           ListedIsRecorded, RunningIsRecorded
  <1>11. CASE StopBegin(c, p)
    BY <1>11 DEF StopBegin, Acquire, StartsOnly, OncePerResume, Untouched, PortKnown,
           ListedIsRecorded, RunningIsRecorded
  <1>12. CASE StopReap(c, p)
    BY <1>12 DEF StopReap, Reaped, StartsOnly, OncePerResume, Untouched, PortKnown,
           ListedIsRecorded, RunningIsRecorded
  <1>13. CASE StopEnd(c, p)
    BY <1>13 DEF StopEnd, Release, StartsOnly, OncePerResume, Untouched, PortKnown,
           ListedIsRecorded, RunningIsRecorded
  <1>14. CASE ReplaceBegin(c, p)
    <2>1. StartsOnly'
      BY <1>14 DEF ReplaceBegin, Acquire, IsFullyStopped, StartsOnly
    <2>2. OncePerResume'
      BY <1>14 DEF ReplaceBegin, Acquire, IsFullyStopped, OncePerResume
    <2>3. Untouched'
      BY <1>14 DEF ReplaceBegin, Acquire, IsFullyStopped, Untouched
    <2>4. PortKnown'
      BY <1>14 DEF ReplaceBegin, Acquire, IsFullyStopped, PortKnown
    <2>5. ListedIsRecorded' /\ RunningIsRecorded'
      BY <1>14 DEF ReplaceBegin, Acquire, IsFullyStopped, ListedIsRecorded, RunningIsRecorded
    <2>q. QED
      BY <2>1, <2>2, <2>3, <2>4, <2>5
  <1>15. CASE ReplaceEnd(c, p)
    BY <1>15 DEF ReplaceEnd, Release, StartsOnly, OncePerResume, Untouched, PortKnown,
           ListedIsRecorded, RunningIsRecorded
  <1>q. QED
    BY <1>1, <1>2, <1>3, <1>4, <1>5, <1>6, <1>7, <1>8, <1>9, <1>10, <1>11, <1>12, <1>13, <1>14,
           <1>15 DEF Thread

LEMMA RecMonitor ==
    ASSUME RecInv, NoStops, TypeInv', Monitor
    PROVE  RecInv'
  <1> USE NullAssumption, ParamAssumption
      DEF RecInv, NoStops, TypeInv, TypeOK, At, Goto, inst, locks, monitor, life, MonGoto,
          MonNext, MonAt, Up, Idle, Listed, Handled, InHand, Awaits,
          Recorded, StartPending, UnderRestart
  <1>1. CASE MonScan
    BY <1>1 DEF MonScan, Candidates, Exited, StartsOnly, OncePerResume, Untouched, PortKnown,
           ListedIsRecorded, RunningIsRecorded
  <1>2. CASE MonRoundDone
    BY <1>2 DEF MonRoundDone, StartsOnly, OncePerResume, Untouched, PortKnown,
           ListedIsRecorded, RunningIsRecorded
  <1>3. CASE MonLeave
    BY <1>3 DEF MonLeave, StartsOnly, OncePerResume, Untouched, PortKnown,
           ListedIsRecorded, RunningIsRecorded
  <1>4. ASSUME NEW p \in Projects, MonHandleCrash(p)
        PROVE  RecInv'
    BY <1>4 DEF MonHandleCrash, StartsOnly, OncePerResume, Untouched, PortKnown,
           ListedIsRecorded, RunningIsRecorded
  <1>5. ASSUME NEW p \in Projects, MonStopped(p)
        PROVE  RecInv'
    BY <1>5 DEF MonStopped, StopRequested, StartsOnly, OncePerResume, Untouched, PortKnown,
           ListedIsRecorded, RunningIsRecorded
  <1>6. ASSUME NEW p \in Projects, MonRefused(p)
        PROVE  RecInv'
    BY <1>6 DEF MonRefused, StopRequested, StartsOnly, OncePerResume, Untouched, PortKnown,
           ListedIsRecorded, RunningIsRecorded
  <1>7. ASSUME NEW p \in Projects, MonRespawn(p)
        PROVE  RecInv'
    BY <1>7 DEF MonRespawn, SpawnLocked, StopRequested, StartsOnly, OncePerResume, Untouched,
           PortKnown, ListedIsRecorded, RunningIsRecorded
  <1>8. ASSUME NEW p \in Projects, MonRespawnFails(p)
        PROVE  RecInv'
    BY <1>8 DEF MonRespawnFails, SpawnFails, StopRequested, StartsOnly, OncePerResume, Untouched,
           PortKnown, ListedIsRecorded, RunningIsRecorded
  <1>9. ASSUME NEW p \in Projects, MonHealthy(p)
        PROVE  RecInv'
    BY <1>9 DEF MonHealthy, StartsOnly, OncePerResume, Untouched, PortKnown,
           ListedIsRecorded, RunningIsRecorded
  <1>10. ASSUME NEW p \in Projects, MonUnhealthy(p)
        PROVE  RecInv'
    BY <1>10 DEF MonUnhealthy, StartsOnly, OncePerResume, Untouched, PortKnown,
           ListedIsRecorded, RunningIsRecorded
  <1>11. ASSUME NEW p \in Projects, MonMarkRunning(p)
        PROVE  RecInv'
    BY <1>11 DEF MonMarkRunning, StartsOnly, OncePerResume, Untouched, PortKnown,
           ListedIsRecorded, RunningIsRecorded
  <1>12. ASSUME NEW p \in Projects, MonUpsert(p)
        PROVE  RecInv'
    BY <1>12 DEF MonUpsert, Record, StartsOnly, OncePerResume, Untouched, PortKnown,
           ListedIsRecorded, RunningIsRecorded
  <1>q. QED
    BY <1>1, <1>2, <1>3, <1>4, <1>5, <1>6, <1>7, <1>8, <1>9, <1>10, <1>11, <1>12 DEF Monitor

LEMMA RecLifecycle ==
    ASSUME RecInv, NoStops, TypeInv', Lifecycle
    PROVE  RecInv'
  <1> USE NullAssumption, ParamAssumption
      DEF RecInv, NoStops, TypeInv, TypeOK, At, Goto, inst, locks, monitor, life, MonGoto,
          MonNext, MonAt, Up, Idle, Listed, Handled, InHand, Awaits,
          Recorded, StartPending, UnderRestart
  <1>1. CASE ResumeDone
    BY <1>1 DEF ResumeDone, StartsOnly, OncePerResume, Untouched, PortKnown,
           ListedIsRecorded, RunningIsRecorded
  <1>2. CASE ShutdownBegin
    BY <1>2 DEF ShutdownBegin, ToTerminate, StartsOnly, OncePerResume, Untouched, PortKnown,
           ListedIsRecorded, RunningIsRecorded
  <1>3. CASE ManagerExit
    BY <1>3 DEF ManagerExit, StartsOnly, OncePerResume, Untouched, PortKnown,
           ListedIsRecorded, RunningIsRecorded
  <1>4. CASE ManagerKilled
    BY <1>4 DEF ManagerKilled, StartsOnly, OncePerResume, Untouched, PortKnown,
           ListedIsRecorded, RunningIsRecorded
  <1>5. CASE ManagerBoot
    BY <1>5 DEF ManagerBoot, StartsOnly, OncePerResume, Untouched, PortKnown,
           ListedIsRecorded, RunningIsRecorded
  <1>6. ASSUME NEW p \in Projects, ResumeRefused(p)
        PROVE  RecInv'
    BY <1>6 DEF ResumeRefused, StartsOnly, OncePerResume, Untouched, PortKnown,
           ListedIsRecorded, RunningIsRecorded
  <1>7. ASSUME NEW p \in Projects, ShutdownTerminate(p)
        PROVE  RecInv'
    BY <1>7 DEF ShutdownTerminate, StartsOnly, OncePerResume, Untouched, PortKnown,
           ListedIsRecorded, RunningIsRecorded
  <1>8. ASSUME NEW p \in Projects, ShutdownReap(p)
        PROVE  RecInv'
    BY <1>8 DEF ShutdownReap, Reaped, StartsOnly, OncePerResume, Untouched, PortKnown,
           ListedIsRecorded, RunningIsRecorded
  <1>q. QED
    BY <1>1, <1>2, <1>3, <1>4, <1>5, <1>6, <1>7, <1>8 DEF Lifecycle

LEMMA RecEnvironment ==
    ASSUME RecInv, NoStops, TypeInv', Environment
    PROVE  RecInv'
  <1> USE NullAssumption, ParamAssumption
      DEF RecInv, NoStops, TypeInv, TypeOK, At, Goto, inst, locks, monitor, life, MonGoto,
          MonNext, MonAt, Up, Idle, Listed, Handled, InHand, Awaits,
          Recorded, StartPending, UnderRestart
  <1>1. ASSUME NEW k \in Kids, KidServes(k)
        PROVE  RecInv'
    BY <1>1 DEF KidServes, StartsOnly, OncePerResume, Untouched, PortKnown,
           ListedIsRecorded, RunningIsRecorded
  <1>2. ASSUME NEW k \in Kids, KidExits(k)
        PROVE  RecInv'
    BY <1>2 DEF KidExits, StartsOnly, OncePerResume, Untouched, PortKnown,
           ListedIsRecorded, RunningIsRecorded
  <1>3. ASSUME NEW p \in Projects, WindowSlides(p)
        PROVE  RecInv'
    BY <1>3 DEF WindowSlides, StartsOnly, OncePerResume, Untouched, PortKnown,
           ListedIsRecorded, RunningIsRecorded
  <1>4. ASSUME NEW p \in Projects, CondChanges(p)
        PROVE  RecInv'
    BY <1>4 DEF CondChanges, StartsOnly, OncePerResume, Untouched, PortKnown,
           ListedIsRecorded, RunningIsRecorded
  <1>5. ASSUME NEW p \in Projects, Delete(p)
        PROVE  RecInv'
    BY <1>5 DEF Delete, StartsOnly, OncePerResume, Untouched, PortKnown,
           ListedIsRecorded, RunningIsRecorded
  <1>q. QED
    BY <1>1, <1>2, <1>3, <1>4, <1>5 DEF Environment

LEMMA InitRec == Init => RecInv
  <1> SUFFICES ASSUME Init PROVE RecInv
    OBVIOUS
  <1>1. TypeInv
    BY InitType
  <1>2. StartsOnly /\ OncePerResume /\ Untouched /\ PortKnown /\ ListedIsRecorded /\ RunningIsRecorded
    BY DEF Init, Idle, At, Listed, Handled, InHand, Awaits,
           Recorded, StartPending, UnderRestart,
           StartsOnly, OncePerResume, Untouched, PortKnown, ListedIsRecorded, RunningIsRecorded
  <1>q. QED
    BY <1>1, <1>2 DEF RecInv

LEMMA StepRec == NoStops /\ RecInv /\ [Next]_vars => NoStops' /\ RecInv'
  <1> SUFFICES ASSUME NoStops, RecInv, [Next]_vars PROVE RecInv'
    BY DEF NoStops
  <1>1. TypeInv'
    BY StepType DEF RecInv
  <1>2. CASE UNCHANGED vars
    BY <1>1, <1>2
       DEF vars, RecInv, At, MonAt, Listed, Handled, InHand, Awaits,
           Recorded, StartPending, UnderRestart,
           StartsOnly, OncePerResume, Untouched, PortKnown, ListedIsRecorded, RunningIsRecorded
  <1>q. QED
    BY <1>1, <1>2, RecRequest, RecStart, RecMonitor, RecLifecycle, RecEnvironment DEF Next

(* Once its start has returned, a project is in the manifest's running set *)
(* for as long as it runs and throughout the monitor's restarts of it,     *)
(* with resume_all's pruning, failing spawns and managers that are killed  *)
(* between any two steps.                                                  *)
THEOREM RunningSurvives == NoStops /\ Spec => []RunningIsRecorded
  <1>1. NoStops /\ Init => NoStops /\ RecInv
    BY InitRec
  <1>2. RecInv => RunningIsRecorded
    BY DEF RecInv
  <1>q. QED
    BY <1>1, <1>2, StepRec, PTL DEF Spec
=============================================================================
