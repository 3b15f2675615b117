----------------------------- MODULE Supervisor -----------------------------
(***************************************************************************)
(* The manager's project supervisor (backend/services/supervisor.py) and   *)
(* the callers that share its per-project operation lock: the start/stop   *)
(* REST calls, a peer transfer that replaces a stopped project, project    *)
(* deletion, the crash monitor thread, and manager shutdown and restart.   *)
(*                                                                         *)
(* A section under Supervisor._lock is one action.  What runs outside it   *)
(* (waiting for health, terminating a child, writing the manifest) is      *)
(* split where another thread can get in between.                          *)
(***************************************************************************)
EXTENDS Naturals, FiniteSets

CONSTANTS
    Projects,       \* project ids known to the manifest
    Clients,        \* request threads: REST calls, transfers, resume threads
    Ports,          \* loopback ports the OS can hand out
    Kids,           \* process ids: bounds the children alive at a time
    MaxRestarts,    \* _MAX_RESTARTS
    MaxStamps,      \* bound: spawns of one project inside one restart window
    MaxBoots,       \* bound: manager processes started one after the other
    Conds,          \* what start's checks may find, see Cond
    Events          \* which requests and failures this instance meets

ASSUME ParamAssumption ==
    /\ MaxRestarts \in Nat
    /\ MaxStamps \in Nat
    /\ MaxBoots \in Nat
    /\ Conds \subseteq {"ok", "refused", "unusable", "migrate"}
    /\ Events \subseteq {"start", "stop", "replace", "delete", "shutdown", "kill",
                         "spawnfail", "unkillable"}

CONSTANTS Nobody, NoPort, NoKid

ASSUME NullAssumption ==
    /\ Nobody \notin Clients
    /\ NoPort \notin Ports
    /\ NoKid \notin Kids

VARIABLES
    status,     \* ChildInstance.status
    proc,       \* ChildInstance.proc
    port,       \* ChildInstance.port
    error,      \* ChildInstance.last_error, by kind
    starts,     \* start stamps of _restart_times still inside the window
    autos,      \* respawn stamps of _restart_times still inside the window
    stopping,   \* Supervisor._stopping
    oplock,     \* Supervisor._operation_locks: the thread that holds each
    running,    \* manifest.running: the recorded port, NoPort when absent
    cond,       \* what start's checks find on disk and in the guards
    kid,        \* the child processes
    op,         \* per request thread: where it is, and its locals
    mon,        \* the monitor thread: where it is, and its locals
    monstop,    \* Supervisor._monitor_stop is set
    shut,       \* the shutdown thread: where it is, and its locals
    resume,     \* projects resume_all has still to start
    phase,      \* "resuming" inside resume_all, then "serving" requests
    boots       \* manager processes started so far

inst == <<status, proc, port, error, starts, autos>>
locks == <<stopping, oplock>>
monitor == <<mon, monstop>>
life == <<shut, resume, phase, boots>>
vars == <<status, proc, port, error, starts, autos, stopping, oplock, running,
          cond, kid, op, mon, monstop, shut, resume, phase, boots>>

Status == {"starting", "running", "stopped", "crashed"}
Error == {"none", "startup", "gaveup", "refused"}

(* "unusable": the entry or the folder is gone, or users.json is invalid.  *)
(* "migrate": the on-disk format is behind and needs confirm_upgrade.      *)
Cond == {"ok", "refused", "unusable", "migrate"}

(* A child boots, binds its port and serves, and exits.                    *)
NotSpawned == [st |-> "unborn"]
Kid == {NotSpawned} \cup [proj : Projects, port : Ports, st : {"boot", "serving", "dead"}]

Idle == [pc |-> "idle"]
(* "reap" waits for the child tgt it signalled; then the thread ends as a  *)
(* failed start ("start") or goes on as a stop ("stop").                   *)
Op == {Idle}
   \cup [pc : {"start"}, p : Projects, confirm : BOOLEAN]
   \cup [pc : {"health"}, p : Projects, port : Ports]
   \cup [pc : {"mark", "upsert", "unhealthy", "stop", "unrecord",
               "replace", "replacing"}, p : Projects]
   \cup [pc : {"reap"}, p : Projects, tgt : Kids, for : {"start", "stop"}]

Mon == [pc : {"off", "wait"}]
   \cup [pc : {"crash"}, todo : SUBSET Projects]
   \cup [pc : {"backoff", "mark", "upsert"}, todo : SUBSET Projects, p : Projects]
   \cup [pc : {"health"}, todo : SUBSET Projects, p : Projects, port : Ports]

Shut == [pc : {"no", "exited"}]
   \cup [pc : {"next"}, left : SUBSET Projects]
   \cup [pc : {"reap"}, left : SUBSET Projects, p : Projects, tgt : Kids]

Live(k) == k # NoKid /\ kid[k].st \in {"boot", "serving"}
Exited(k) == k # NoKid /\ kid[k].st = "dead"
ServingOn(q) == {k \in Kids : kid[k].st = "serving" /\ kid[k].port = q}
LiveKids(p) == {k \in Kids : Live(k) /\ kid[k].proj = p}

(* A process id is free when no process has it and no handle names it.     *)
Referenced(k) ==
    \/ \E p \in Projects : proc[p] = k
    \/ \E c \in Clients : op[c].pc = "reap" /\ op[c].tgt = k
    \/ shut.pc = "reap" /\ shut.tgt = k
FreeIds == {k \in Kids : ~Live(k) /\ ~Referenced(k)}

(* _port_free: nobody listens on q.  A child that is still booting has not *)
(* bound its port yet.                                                     *)
PortFree(q) == ServingOn(q) = {}

(* _pick_port: the preferred port when it is free, else any free one.      *)
PickPort(preferred) ==
    IF preferred # NoPort /\ PortFree(preferred)
    THEN {preferred}
    ELSE {q \in Ports : PortFree(q)}

TypeOK ==
    /\ status \in [Projects -> Status]
    /\ proc \in [Projects -> Kids \cup {NoKid}]
    /\ port \in [Projects -> Ports \cup {NoPort}]
    /\ error \in [Projects -> Error]
    /\ starts \in [Projects -> Nat]
    /\ autos \in [Projects -> Nat]
    /\ stopping \subseteq Projects
    /\ oplock \in [Projects -> Clients \cup {Nobody}]
    /\ running \in [Projects -> Ports \cup {NoPort}]
    /\ cond \in [Projects -> Cond]
    /\ kid \in [Kids -> Kid]
    /\ op \in [Clients -> Op]
    /\ mon \in Mon
    /\ monstop \in BOOLEAN
    /\ shut \in Shut
    /\ resume \subseteq Projects
    /\ phase \in {"resuming", "serving"}
    /\ boots \in Nat

(***************************************************************************)
(* The manager process starts with nothing in memory; children of an       *)
(* earlier manager may still be alive.  resume_all starts what the         *)
(* manifest's running set names before the first request is served.        *)
(***************************************************************************)
Init ==
    /\ running \in [Projects -> Ports \cup {NoPort}]
    /\ cond \in [Projects -> Conds]
    /\ kid = [k \in Kids |-> NotSpawned]
    /\ boots = 1
    /\ status = [p \in Projects |-> "stopped"]
    /\ proc = [p \in Projects |-> NoKid]
    /\ port = [p \in Projects |-> NoPort]
    /\ error = [p \in Projects |-> "none"]
    /\ starts = [p \in Projects |-> 0]
    /\ autos = [p \in Projects |-> 0]
    /\ stopping = {}
    /\ oplock = [p \in Projects |-> Nobody]
    /\ op = [c \in Clients |-> Idle]
    /\ mon = [pc |-> "off"]
    /\ monstop = FALSE
    /\ shut = [pc |-> "no"]
    /\ resume = {p \in Projects : running[p] # NoPort}
    /\ phase = "resuming"

(***************************************************************************)
(* _spawn_locked: a child on a picked port, and one more stamp of its kind *)
(* in the window.                                                          *)
(***************************************************************************)
SpawnLocked(p, preferred, k, q) ==
    /\ FreeIds # {} /\ starts[p] + autos[p] < MaxStamps
    /\ k = CHOOSE j \in FreeIds : TRUE
    /\ q \in PickPort(preferred)
    /\ port' = [port EXCEPT ![p] = q]
    /\ status' = [status EXCEPT ![p] = "starting"]
    /\ error' = [error EXCEPT ![p] = "none"]
    /\ proc' = [proc EXCEPT ![p] = k]
    /\ kid' = [kid EXCEPT ![k] = [proj |-> p, port |-> q, st |-> "boot"]]

(* _spawn_locked when the log file or Popen raises OSError: the instance   *)
(* already says "starting"; proc and the stamps stay as they were.         *)
SpawnFails(p, preferred, q) ==
    /\ "spawnfail" \in Events
    /\ q \in PickPort(preferred)
    /\ port' = [port EXCEPT ![p] = q]
    /\ status' = [status EXCEPT ![p] = "starting"]
    /\ error' = [error EXCEPT ![p] = "none"]
    /\ UNCHANGED <<proc, starts, autos, kid>>

Goto(c, where) == op' = [op EXCEPT ![c] = where]
At(c, pc, p) == op[c].pc = pc /\ op[c].p = p
AcquireMutant(c, p) == oplock' = [oplock EXCEPT ![p] = c]  \* does not wait for the holder
Acquire(c, p) == oplock[p] = Nobody /\ oplock' = [oplock EXCEPT ![p] = c]
ReleaseMutant(p) ==  \* a failed health check returns with the lock held
    oplock' = [oplock EXCEPT ![p] = IF status[p] = "starting" THEN @ ELSE Nobody]
Release(p) == oplock' = [oplock EXCEPT ![p] = Nobody]

(* upsert_running, and what delete and replace ask the running set.        *)
RecordMutant(p) ==  \* only refreshes an entry that exists
    running' = [running EXCEPT ![p] = IF @ = NoPort THEN NoPort ELSE port[p]]
Record(p) == running' = [running EXCEPT ![p] = port[p]]
Recorded(p) == running[p] # NoPort
Up == shut.pc # "exited"

(***************************************************************************)
(* start.  The guards are asked before the operation lock is taken.        *)
(* A request is accepted only once resume_all is over.                     *)
(***************************************************************************)
Start(c, p, confirm) ==
    /\ Up /\ op[c] = Idle /\ cond[p] # "refused"
    /\ \/ phase = "serving" /\ "start" \in Events /\ UNCHANGED resume
       \/ p \in resume /\ ~confirm /\ resume' = resume \ {p}
    /\ Goto(c, [pc |-> "start", p |-> p, confirm |-> confirm])
    /\ UNCHANGED <<inst, locks, running, cond, kid, monitor, shut, phase, boots>>

(* resume_all keeps a project that a guard refuses in the running set.     *)
ResumeRefused(p) ==
    /\ Up /\ p \in resume /\ cond[p] = "refused"
    /\ resume' = resume \ {p}
    /\ UNCHANGED <<inst, locks, running, cond, kid, op, monitor, shut, phase, boots>>

ResumeDone ==
    /\ Up /\ phase = "resuming" /\ resume = {}
    /\ \A c \in Clients : op[c] = Idle
    /\ phase' = "serving"
    /\ UNCHANGED <<inst, locks, running, cond, kid, op, monitor, shut, resume, boots>>

(* _start_serialized raises ValueError; resume_all then prunes the entry.  *)
StartRefused(c, p) ==
    /\ Up /\ At(c, "start", p) /\ oplock[p] = Nobody
    /\ cond[p] = "unusable" \/ (cond[p] = "migrate" /\ ~op[c].confirm)
    /\ running' = IF phase = "resuming" THEN [running EXCEPT ![p] = NoPort] ELSE running
    /\ Goto(c, Idle)
    /\ UNCHANGED <<inst, locks, cond, kid, monitor, life>>

Startable(c, p) ==
    /\ Up /\ At(c, "start", p) /\ oplock[p] = Nobody
    /\ cond[p] \in {"ok", "refused"} \/ (cond[p] = "migrate" /\ op[c].confirm)

AlreadyUp(p) == status[p] \in {"starting", "running"} /\ Live(proc[p])

StartAlreadyUp(c, p) ==
    /\ Startable(c, p) /\ AlreadyUp(p)
    /\ Goto(c, Idle)
    /\ UNCHANGED <<inst, locks, running, cond, kid, monitor, life>>

StartSpawn(c, p) ==
    /\ Startable(c, p) /\ ~AlreadyUp(p)
    /\ Acquire(c, p)
    /\ stopping' = stopping \ {p}
    /\ \E k \in Kids, q \in Ports :
        /\ SpawnLocked(p, running[p], k, q)
        /\ Goto(c, [pc |-> "health", p |-> p, port |-> q])
    /\ starts' = [starts EXCEPT ![p] = @ + 1]
    /\ UNCHANGED <<autos, running, cond, monitor, life>>

(* The spawn raises out of start.  While resuming, is_fully_stopped says   *)
(* no ("starting"), so the entry is kept.                                  *)
StartSpawnFails(c, p) ==
    /\ Startable(c, p) /\ ~AlreadyUp(p)
    /\ stopping' = stopping \ {p}
    /\ \E q \in Ports : SpawnFails(p, running[p], q)
    /\ Goto(c, Idle)
    /\ UNCHANGED <<oplock, running, cond, monitor, life>>

(***************************************************************************)
(* _await_health: one poll.  Any process that listens on the port answers. *)
(* A poll gives up when the child it finds in instance.proc has exited,    *)
(* and at any time because the deadline has passed.                        *)
(***************************************************************************)
Answers(p, q) == ~Exited(proc[p]) /\ ServingOn(q) # {}

StartHealthy(c, p) ==
    /\ Up /\ At(c, "health", p) /\ Answers(p, op[c].port)
    /\ Goto(c, [pc |-> "mark", p |-> p])
    /\ UNCHANGED <<inst, locks, running, cond, kid, monitor, life>>

StartUnhealthy(c, p) ==
    /\ Up /\ At(c, "health", p)
    /\ Goto(c, [pc |-> "unhealthy", p |-> p])
    /\ error' = IF Exited(proc[p]) THEN [error EXCEPT ![p] = "startup"] ELSE error
    /\ UNCHANGED <<status, proc, port, starts, autos, locks, running, cond, kid, monitor, life>>

StartMarkRunning(c, p) ==
    /\ Up /\ At(c, "mark", p)
    /\ status' = [status EXCEPT ![p] = "running"]
    /\ Goto(c, [pc |-> "upsert", p |-> p])
    /\ UNCHANGED <<proc, port, error, starts, autos, locks, running, cond, kid, monitor, life>>

EnsureMonitor ==
    IF mon.pc = "off"
    THEN mon' = [pc |-> "wait"] /\ monstop' = FALSE
    ELSE UNCHANGED monitor

StartUpsert(c, p) ==
    /\ Up /\ At(c, "upsert", p)
    /\ Record(p)
    /\ EnsureMonitor
    /\ Release(p) /\ Goto(c, Idle)
    /\ UNCHANGED <<inst, stopping, cond, kid, life>>

(***************************************************************************)
(* _terminate, first half: a child that is gone is forgotten, a live one   *)
(* is signalled and waited for.                                            *)
(***************************************************************************)
StartTeardownMutant(c, p) ==  \* takes it that there is a child to signal
    /\ Up /\ At(c, "unhealthy", p)
    /\ Goto(c, [pc |-> "reap", p |-> p, tgt |-> proc[p], for |-> "start"])
    /\ UNCHANGED <<inst, locks, running, cond, kid, monitor, life>>
StartTeardown(c, p) ==
    /\ Up /\ At(c, "unhealthy", p)
    /\ IF Live(proc[p])
       THEN /\ Goto(c, [pc |-> "reap", p |-> p, tgt |-> proc[p], for |-> "start"])
            /\ UNCHANGED <<status, proc, error, oplock>>
       ELSE /\ proc' = [proc EXCEPT ![p] = NoKid]
            /\ status' = [status EXCEPT ![p] = "crashed"]
            /\ error' = [error EXCEPT ![p] = IF @ = "none" THEN "startup" ELSE @]
            /\ Release(p) /\ Goto(c, Idle)
    /\ UNCHANGED <<port, starts, autos, stopping, running, cond, kid, monitor, life>>

(* The signalled child is dead, of SIGTERM or in the end of SIGKILL, or    *)
(* wait gave up on it.                                                     *)
Reaped(k) ==
    \/ kid' = [kid EXCEPT ![k].st = "dead"]
    \/ "unkillable" \in Events /\ UNCHANGED kid

StartReap(c, p) ==
    /\ Up /\ At(c, "reap", p) /\ op[c].for = "start"
    /\ Reaped(op[c].tgt)
    /\ proc' = [proc EXCEPT ![p] = NoKid]
    /\ status' = [status EXCEPT ![p] = "crashed"]
    /\ error' = [error EXCEPT ![p] = IF @ = "none" THEN "startup" ELSE @]
    /\ Release(p) /\ Goto(c, Idle)
    /\ UNCHANGED <<port, starts, autos, stopping, running, cond, monitor, life>>

(***************************************************************************)
(* stop                                                                    *)
(***************************************************************************)
Stop(c, p) ==
    /\ Up /\ op[c] = Idle /\ phase = "serving" /\ "stop" \in Events
    /\ Goto(c, [pc |-> "stop", p |-> p])
    /\ UNCHANGED <<inst, locks, running, cond, kid, monitor, life>>

StopBegin(c, p) ==
    /\ Up /\ At(c, "stop", p) /\ Acquire(c, p)
    /\ stopping' = stopping \cup {p}
    /\ IF Live(proc[p])
       THEN /\ Goto(c, [pc |-> "reap", p |-> p, tgt |-> proc[p], for |-> "stop"])
            /\ UNCHANGED <<status, proc>>
       ELSE /\ proc' = [proc EXCEPT ![p] = NoKid]
            /\ status' = [status EXCEPT ![p] = "stopped"]
            /\ Goto(c, [pc |-> "unrecord", p |-> p])
    /\ UNCHANGED <<port, error, starts, autos, running, cond, kid, monitor, life>>

StopReap(c, p) ==
    /\ Up /\ At(c, "reap", p) /\ op[c].for = "stop"
    /\ Reaped(op[c].tgt)
    /\ proc' = [proc EXCEPT ![p] = NoKid]
    /\ status' = [status EXCEPT ![p] = "stopped"]
    /\ Goto(c, [pc |-> "unrecord", p |-> p])
    /\ UNCHANGED <<port, error, starts, autos, locks, running, cond, monitor, life>>

StopEnd(c, p) ==
    /\ Up /\ At(c, "unrecord", p)
    /\ running' = [running EXCEPT ![p] = NoPort]
    /\ Release(p) /\ Goto(c, Idle)
    /\ UNCHANGED <<inst, stopping, cond, kid, monitor, life>>

(***************************************************************************)
(* A peer transfer replaces a project's folder under the operation lock,   *)
(* and a delete drops the project; both ask the running set.               *)
(***************************************************************************)
IsFullyStopped(p) == ~Live(proc[p]) /\ status[p] \in {"stopped", "crashed"}

Replace(c, p) ==
    /\ Up /\ op[c] = Idle /\ phase = "serving" /\ "replace" \in Events
    /\ Goto(c, [pc |-> "replace", p |-> p])
    /\ UNCHANGED <<inst, locks, running, cond, kid, monitor, life>>

ReplaceBegin(c, p) ==
    /\ Up /\ At(c, "replace", p) /\ oplock[p] = Nobody
    /\ IF IsFullyStopped(p) /\ ~Recorded(p) /\ cond[p] # "unusable"
       THEN Acquire(c, p) /\ Goto(c, [pc |-> "replacing", p |-> p])
       ELSE UNCHANGED oplock /\ Goto(c, Idle)
    /\ UNCHANGED <<inst, stopping, running, cond, kid, monitor, life>>

ReplaceEnd(c, p) ==
    /\ Up /\ At(c, "replacing", p)
    /\ Release(p) /\ Goto(c, Idle)
    /\ UNCHANGED <<inst, stopping, running, cond, kid, monitor, life>>

Delete(p) ==
    /\ Up /\ phase = "serving" /\ "delete" \in Events
    /\ cond[p] # "unusable" /\ ~Recorded(p)
    /\ cond' = [cond EXCEPT ![p] = "unusable"]
    /\ UNCHANGED <<inst, locks, running, kid, op, monitor, life>>

(***************************************************************************)
(* The monitor thread.  It takes no operation lock.                        *)
(***************************************************************************)
MonGoto(where) == mon' = where
MonAt(pc, p) == mon.pc = pc /\ mon.p = p
MonNext == MonGoto([pc |-> "crash", todo |-> mon.todo])

CandidatesMutant ==  \* does not poll the child
    {p \in Projects : status[p] = "running" /\ p \notin stopping /\ proc[p] # NoKid}
Candidates ==
    {p \in Projects : status[p] = "running" /\ p \notin stopping /\ Exited(proc[p])}

(* One round of _monitor_loop; it leaves the loop once shutdown has begun. *)
MonScan ==
    /\ Up /\ mon.pc = "wait" /\ ~monstop /\ Candidates # {}
    /\ MonGoto([pc |-> "crash", todo |-> Candidates])
    /\ UNCHANGED <<inst, locks, running, cond, kid, op, monstop, life>>

MonRoundDone ==
    /\ Up /\ mon.pc = "crash" /\ mon.todo = {}
    /\ MonGoto([pc |-> "wait"])
    /\ UNCHANGED <<inst, locks, running, cond, kid, op, monstop, life>>

MonLeave ==
    /\ Up /\ mon.pc = "wait" /\ monstop
    /\ MonGoto([pc |-> "off"])
    /\ UNCHANGED <<inst, locks, running, cond, kid, op, monstop, life>>

BreakerTripsMutant(p) == starts[p] >= MaxRestarts  \* does not count respawns
BreakerTrips(p) == starts[p] + autos[p] >= MaxRestarts

(* _handle_crash's second look at _stopping, after the backoff.            *)
StopRequestedMutant(p) == FALSE
StopRequested(p) == p \in stopping

(* _handle_crash up to the backoff: forget the child, trip the breaker or  *)
(* go to sleep.                                                            *)
MonHandleCrash(p) ==
    /\ Up /\ mon.pc = "crash" /\ p \in mon.todo
    /\ proc' = [proc EXCEPT ![p] = NoKid]
    /\ IF BreakerTrips(p)
       THEN /\ status' = [status EXCEPT ![p] = "crashed"]
            /\ error' = [error EXCEPT ![p] = "gaveup"]
            /\ MonGoto([pc |-> "crash", todo |-> mon.todo \ {p}])
       ELSE /\ MonGoto([pc |-> "backoff", todo |-> mon.todo \ {p}, p |-> p])
            /\ UNCHANGED <<status, error>>
    /\ UNCHANGED <<port, starts, autos, locks, running, cond, kid, op, monstop, life>>

MonStopped(p) ==
    /\ Up /\ MonAt("backoff", p) /\ StopRequested(p)
    /\ MonNext
    /\ UNCHANGED <<inst, locks, running, cond, kid, op, monstop, life>>

MonRefused(p) ==
    /\ Up /\ MonAt("backoff", p) /\ ~StopRequested(p)
    /\ cond[p] \in {"refused", "unusable"}
    /\ status' = [status EXCEPT ![p] = "crashed"]
    /\ error' = [error EXCEPT ![p] = "refused"]
    /\ MonNext
    /\ UNCHANGED <<proc, port, starts, autos, locks, running, cond, kid, op, monstop, life>>

MonRespawn(p) ==
    /\ Up /\ MonAt("backoff", p) /\ ~StopRequested(p)
    /\ cond[p] \notin {"refused", "unusable"}
    /\ \E k \in Kids, q \in Ports :
        /\ SpawnLocked(p, port[p], k, q)
        /\ MonGoto([pc |-> "health", todo |-> mon.todo, p |-> p, port |-> q])
    /\ autos' = [autos EXCEPT ![p] = @ + 1]
    /\ UNCHANGED <<starts, locks, running, cond, op, monstop, life>>

(* The spawn raises out of the thread's loop, which ends the thread.       *)
MonRespawnFails(p) ==
    /\ Up /\ MonAt("backoff", p) /\ ~StopRequested(p)
    /\ cond[p] \notin {"refused", "unusable"}
    /\ \E q \in Ports : SpawnFails(p, port[p], q)
    /\ MonGoto([pc |-> "off"])
    /\ UNCHANGED <<locks, running, cond, op, monstop, life>>

MonHealthy(p) ==
    /\ Up /\ MonAt("health", p) /\ Answers(p, mon.port)
    /\ MonGoto([pc |-> "mark", todo |-> mon.todo, p |-> p])
    /\ UNCHANGED <<inst, locks, running, cond, kid, op, monstop, life>>

MonUnhealthy(p) ==
    /\ Up /\ MonAt("health", p)
    /\ MonNext
    /\ error' = IF Exited(proc[p]) THEN [error EXCEPT ![p] = "startup"] ELSE error
    /\ UNCHANGED <<status, proc, port, starts, autos, locks, running, cond, kid, op, monstop, life>>

MonMarkRunning(p) ==
    /\ Up /\ MonAt("mark", p)
    /\ status' = [status EXCEPT ![p] = "running"]
    /\ MonGoto([pc |-> "upsert", todo |-> mon.todo, p |-> p])
    /\ UNCHANGED <<proc, port, error, starts, autos, locks, running, cond, kid, op, monstop, life>>

MonUpsert(p) ==
    /\ Up /\ MonAt("upsert", p)
    /\ Record(p)
    /\ MonNext
    /\ UNCHANGED <<inst, locks, cond, kid, op, monstop, life>>

(***************************************************************************)
(* Manager shutdown, the end of the process, and the next one.             *)
(***************************************************************************)
ToTerminateMutant == {p \in Projects : status[p] = "running"}  \* skips starting children
ToTerminate == {p \in Projects : port[p] # NoPort}

ShutdownBegin ==
    /\ shut.pc = "no" /\ phase = "serving" /\ "shutdown" \in Events
    /\ monstop' = TRUE
    /\ shut' = [pc |-> "next", left |-> ToTerminate]
    /\ stopping' = stopping \cup {p \in Projects : port[p] # NoPort}
    /\ UNCHANGED <<inst, oplock, running, cond, kid, op, mon, resume, phase, boots>>

ShutdownTerminate(p) ==
    /\ shut.pc = "next" /\ p \in shut.left
    /\ IF Live(proc[p])
       THEN /\ shut' = [pc |-> "reap", left |-> shut.left \ {p}, p |-> p, tgt |-> proc[p]]
            /\ UNCHANGED proc
       ELSE /\ shut' = [pc |-> "next", left |-> shut.left \ {p}]
            /\ proc' = [proc EXCEPT ![p] = NoKid]
    /\ UNCHANGED <<status, port, error, starts, autos, locks, running, cond, kid, op, monitor, resume, phase, boots>>

ShutdownReap(p) ==
    /\ shut.pc = "reap" /\ shut.p = p
    /\ Reaped(shut.tgt)
    /\ proc' = [proc EXCEPT ![p] = NoKid]
    /\ shut' = [pc |-> "next", left |-> shut.left]
    /\ UNCHANGED <<status, port, error, starts, autos, locks, running, cond, op, monitor, resume, phase, boots>>

(* The process ends when the request threads have; the monitor is a daemon.*)
ManagerExit ==
    /\ shut.pc = "next" /\ shut.left = {}
    /\ \A c \in Clients : op[c] = Idle
    /\ shut' = [pc |-> "exited"]
    /\ UNCHANGED <<inst, locks, running, cond, kid, op, monitor, resume, phase, boots>>

ManagerKilled ==
    /\ Up /\ "kill" \in Events
    /\ shut' = [pc |-> "exited"]
    /\ UNCHANGED <<inst, locks, running, cond, kid, op, monitor, resume, phase, boots>>

ManagerBoot ==
    /\ shut.pc = "exited" /\ boots < MaxBoots
    /\ boots' = boots + 1
    /\ UNCHANGED <<running, cond, kid>>
    /\ status' = [p \in Projects |-> "stopped"]
    /\ proc' = [p \in Projects |-> NoKid]
    /\ port' = [p \in Projects |-> NoPort]
    /\ error' = [p \in Projects |-> "none"]
    /\ starts' = [p \in Projects |-> 0]
    /\ autos' = [p \in Projects |-> 0]
    /\ stopping' = {}
    /\ oplock' = [p \in Projects |-> Nobody]
    /\ op' = [c \in Clients |-> Idle]
    /\ mon' = [pc |-> "off"]
    /\ monstop' = FALSE
    /\ shut' = [pc |-> "no"]
    /\ resume' = {p \in Projects : running[p] # NoPort}
    /\ phase' = "resuming"

(***************************************************************************)
(* The environment: children bind and exit, the restart window slides, and *)
(* folders, credentials, formats and guards change.                        *)
(***************************************************************************)
KidServes(k) ==
    /\ kid[k].st = "boot" /\ PortFree(kid[k].port)
    /\ kid' = [kid EXCEPT ![k].st = "serving"]
    /\ UNCHANGED <<inst, locks, running, cond, op, monitor, life>>

KidExits(k) ==
    /\ Live(k)
    /\ kid' = [kid EXCEPT ![k].st = "dead"]
    /\ UNCHANGED <<inst, locks, running, cond, op, monitor, life>>

WindowSlides(p) ==
    /\ \/ starts[p] > 0 /\ starts' = [starts EXCEPT ![p] = @ - 1] /\ UNCHANGED autos
       \/ autos[p] > 0 /\ autos' = [autos EXCEPT ![p] = @ - 1] /\ UNCHANGED starts
    /\ UNCHANGED <<status, proc, port, error, locks, running, cond, kid, op, monitor, life>>

CondChanges(p) ==
    /\ \E v \in Conds \ {cond[p]} : cond' = [cond EXCEPT ![p] = v]
    /\ UNCHANGED <<inst, locks, running, kid, op, monitor, life>>

Request(c, p) ==
    \/ \E confirm \in BOOLEAN : Start(c, p, confirm)
    \/ Stop(c, p)
    \/ Replace(c, p)

Thread(c, p) ==
    \/ StartRefused(c, p) \/ StartAlreadyUp(c, p) \/ StartSpawn(c, p) \/ StartSpawnFails(c, p)
    \/ StartHealthy(c, p) \/ StartUnhealthy(c, p) \/ StartMarkRunning(c, p) \/ StartUpsert(c, p)
    \/ StartTeardown(c, p) \/ StartReap(c, p)
    \/ StopBegin(c, p) \/ StopReap(c, p) \/ StopEnd(c, p)
    \/ ReplaceBegin(c, p) \/ ReplaceEnd(c, p)

Monitor ==
    \/ MonScan \/ MonRoundDone \/ MonLeave
    \/ \E p \in Projects :
        \/ MonHandleCrash(p) \/ MonStopped(p) \/ MonRefused(p)
        \/ MonRespawn(p) \/ MonRespawnFails(p)
        \/ MonHealthy(p) \/ MonUnhealthy(p) \/ MonMarkRunning(p) \/ MonUpsert(p)

Lifecycle ==
    \/ ResumeDone \/ ShutdownBegin \/ ManagerExit \/ ManagerKilled \/ ManagerBoot
    \/ \E p \in Projects : ResumeRefused(p) \/ ShutdownTerminate(p) \/ ShutdownReap(p)

Environment ==
    \/ \E k \in Kids : KidServes(k) \/ KidExits(k)
    \/ \E p \in Projects : WindowSlides(p) \/ CondChanges(p) \/ Delete(p)

Next ==
    \/ \E c \in Clients, p \in Projects : Request(c, p) \/ Thread(c, p)
    \/ Monitor
    \/ Lifecycle
    \/ Environment

Spec == Init /\ [][Next]_vars

(***************************************************************************)
(* Threads run until they return: the waits have deadlines, and a thread   *)
(* that waits for an operation lock gets it when it is free often enough.  *)
(* Time passes.  Nothing forces a request, a crash or a failed poll.       *)
(***************************************************************************)
Fairness ==
    /\ \A c \in Clients : SF_vars(\E p \in Projects : Thread(c, p))
    /\ WF_vars(Monitor)
    /\ WF_vars(ResumeDone)
    /\ \A p \in Projects : WF_vars(WindowSlides(p))

FairSpec == Spec /\ Fairness

-----------------------------------------------------------------------------
(***************************************************************************)
(* Properties                                                              *)
(***************************************************************************)
InSection(c, p) ==
    /\ op[c].pc \in {"health", "mark", "upsert", "unhealthy", "reap", "unrecord", "replacing"}
    /\ op[c].p = p

(* project_operation_lock serializes start, stop and replacement: two      *)
(* request threads are never inside those operations on one project, and   *)
(* the lock is free exactly when no thread is.                             *)
OneOperationPerProject ==
    \A p \in Projects, c \in Clients : InSection(c, p) <=> oplock[p] = c

(* The circuit breaker: inside one restart window the monitor gives a      *)
(* project at most MaxRestarts respawns, whatever users start and stop     *)
(* while it sleeps in its backoff.                                         *)
RespawnBudget == \A p \in Projects : autos[p] <= MaxRestarts

(* One child per running project: a project never has two live children.   *)
OneChildPerProject ==
    \A p \in Projects : Cardinality(LiveKids(p)) <= 1

(* Once the start of a project has returned, the project is in the running *)
(* set for as long as it runs and at every step of the monitor's restarts, *)
(* so that a manager that dies then is followed by one that resumes it.    *)
(* (A first start that has marked it as running and not recorded it yet    *)
(* has not returned: a manager that dies there loses the project.)         *)
StartPending(p) == \E c \in Clients : At(c, "upsert", p)
UnderRestart(p) == mon.pc \in {"backoff", "health", "mark", "upsert"} /\ mon.p = p
RunningIsRecorded ==
    \A p \in Projects :
        status[p] = "running" \/ UnderRestart(p) => Recorded(p) \/ StartPending(p)

(* A project that is down has no live child, even if the monitor was       *)
(* restarting it meanwhile: from the return of a stop to the next start,   *)
(* while a transfer replaces its folder, and when it is deleted.           *)
StoppedIsDown ==
    \A p \in Projects : p \in stopping /\ oplock[p] = Nobody /\ shut.pc = "no"
                            => LiveKids(p) = {}
ReplacedWhileDown ==
    \A p \in Projects, c \in Clients :
        op[c].pc = "replacing" /\ op[c].p = p => LiveKids(p) = {}
DownIsDown ==
    /\ [](StoppedIsDown /\ ReplacedWhileDown)
    /\ [][\A p \in Projects : Delete(p) => LiveKids(p) = {}]_vars

(* When the manager exits after a shutdown, every child is terminated.     *)
ShutdownTerminatesAll ==
    [][ManagerExit => \A p \in Projects : LiveKids(p) = {}]_vars

(* A running project is watched: the monitor thread is alive.              *)
RunningIsWatched ==
    \A p \in Projects :
        status[p] = "running" /\ ~monstop /\ mon.pc = "off"
            => \E c \in Clients : At(c, "upsert", p)

(* A running project stays watched, every request returns, and the monitor *)
(* never hangs in one project's crash: it gets back to its round, where    *)
(* the other projects' crashes are noticed, though both sides take the     *)
(* operation lock and wait for exits.                                      *)
NobodyHangs ==
    /\ []RunningIsWatched
    /\ \A c \in Clients : op[c] # Idle ~> op[c] = Idle
    /\ mon.pc \notin {"off", "wait"} ~> mon.pc \in {"off", "wait"} \/ ~Up
=============================================================================
