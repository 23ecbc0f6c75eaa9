---------------------------- MODULE Deployment ----------------------------
(***************************************************************************)
(* The local runtime of the middleware daemon: the persisted deployment    *)
(* status of every service (services/service.py, class Deployment), the    *)
(* in-memory DeploymentManager and the runner that owns the agent process  *)
(* (services/deployment_runner.py), and the callers that drive them from   *)
(* different threads (cli.py, services/manage.py, health_checker.py).      *)
(*                                                                         *)
(* A thread is a worker that runs one job at a time.  "agent" stands for   *)
(* the agent together with its Tendermint process: both are started,       *)
(* recorded in a PID file of the build directory and killed by the same    *)
(* calls.  A store() is two steps: the atomic replacement of the file, and *)
(* the rotation of its backups, which raises when another thread rotates   *)
(* the same backups.                                                       *)
(***************************************************************************)
EXTENDS Integers, FiniteSets

CONSTANTS
    Services,    \* service_config_ids found under .operate/services
    Threads,     \* threads that may work at the same time
    Pids,        \* operating-system process ids; reused once their process is dead
    NoService,   \* the owner of a process id that is free
    NoPid,       \* no process: an absent PID file, a port nobody listens on
    StartTries,  \* DEPLOYMENT_START_TRIES_NUM
    ReapsPorts,  \* whether psutil.net_connections is permitted (FALSE on macOS)
    HealthCheckerOff  \* the environment variable HEALTH_CHECKER_OFF

ASSUME StartTriesAssumption == StartTries \in Nat \ {0}
ASSUME SwitchesAssumption == ReapsPorts \in BOOLEAN /\ HealthCheckerOff \in BOOLEAN
ASSUME DistinctAssumption == NoService \notin Services /\ NoPid \notin Pids

VARIABLES
    status,      \* status[s]: the status field of deployment.json
    interrupted, \* history: services whose store() raised after it had put a
                 \* transient status in the file
    pidFile,     \* pidFile[s]: the pid recorded in the build directory of s
    proc,        \* proc[p]: the service whose agent runs as process p
    port,        \* the process that listens on the fixed agent port
    mgr,         \* mgr[s]: DeploymentManager._states of the build directory
    isStopping,  \* DeploymentManager._is_stopping
    phase,       \* of the daemon: "down", "booting", "serving", "exiting"
    health,      \* health[s]: the health-check job: "none", "watching",
                 \* "failed" (its last restart failed) or the thread of its restart
    op,          \* op[t]: the job of thread t
    pc,          \* pc[t]: where in the job it is
    svc,         \* svc[t]: the service it is working on
    target,      \* target[t]: the service a deploy request is for
    todo,        \* todo[t]: what pause_all_services has still to stop
    caller,      \* caller[t]: who called stop_deployment
    child,       \* child[t]: the process it has started and not yet recorded
    tries        \* tries[t]: attempts that runner.start has left

files == <<status, interrupted, pidFile>>
processes == <<proc, port>>
manager == <<mgr, isStopping>>
daemon == <<phase, health>>
locals == <<target, todo, child, tries>>
vars == <<files, processes, manager, daemon, op, pc, svc, caller, locals>>

Statuses == {"CREATED", "BUILT", "DEPLOYING", "DEPLOYED", "STOPPING", "DELETED"}
Transient == {"DEPLOYING", "STOPPING"}
States == {"NONE", "STARTING", "STARTED", "STOPPING", "STOPPED", "ERROR"}
InTransition == {"STARTING", "STOPPING"}
Jobs == {"idle", "boot", "pausing", "deploy", "stop", "restart", "giveUp",
         "shutdown", "exit"}

\* Jobs that run pause_all_services first.
Pausing == {"boot", "pausing", "shutdown", "exit"}

\* What follows a store() that has finished.
Stored == {"storedStopping", "storedStopped", "storedBack", "storedBuilt",
           "storedDeploying", "storedDeployed"}
AfterStore(l) ==
    CASE l = "storedStopping"  -> "stopCheck"
      [] l = "storedBuilt"     -> "startDeployment"
      [] l = "storedDeploying" -> "runCheck"
      [] l = "storedBack"      -> "failed"
      [] l \in {"storedStopped", "storedDeployed"} -> "returned"

\* Where stop_deployment goes back to when it returns, and when it raises.
Callers == {"stop", "build", "runFailed", "runStopped"}
AfterStopped(c) ==
    CASE c = "stop"       -> "stopDone"
      [] c = "build"      -> "generate"
      [] c = "runFailed"  -> "checkStopping"
      [] c = "runStopped" -> "runDone"
AfterStopRaised(c) == IF c = "build" THEN "failed" ELSE "backToBuilt"

StopSteps == {"stopCheck", "stopSet", "kill", "killed", "killFailed"}
Points ==
    {"idle", "recover", "pause", "onchain", "mayStop", "storeStopping", "build",
     "generate", "startDeployment", "runCheck", "ipfs", "free", "spawn", "record", "started",
     "startError", "checkStopping", "runDone", "stopDone", "backToBuilt",
     "returned", "failed"} \cup StopSteps \cup Stored

TypeOK ==
    /\ status \in [Services -> Statuses]
    /\ interrupted \in SUBSET (Services \cup {NoService})
    /\ pidFile \in [Services -> Pids \cup {NoPid}]
    /\ proc \in [Pids -> Services \cup {NoService}]
    /\ port \in Pids \cup {NoPid}
    /\ mgr \in [Services -> States]
    /\ isStopping \in BOOLEAN
    /\ phase \in {"down", "booting", "serving", "exiting"}
    /\ health \in [Services -> {"none", "watching", "failed"} \cup Threads]
    /\ op \in [Threads -> Jobs]
    /\ pc \in [Threads -> Points]
    /\ svc \in [Threads -> Services \cup {NoService}]
    /\ target \in [Threads -> Services \cup {NoService}]
    /\ todo \in [Threads -> SUBSET Services]
    /\ caller \in [Threads -> Callers]
    /\ child \in [Threads -> Pids \cup {NoPid}]
    /\ tries \in [Threads -> 0..StartTries]

\* Nothing was ever started; a service is new, or `quickstart stop` deleted
\* its deployment.
Init ==
    /\ status \in [Services -> {"CREATED", "DELETED"}]
    /\ interrupted = {}
    /\ pidFile = [s \in Services |-> NoPid]
    /\ proc = [p \in Pids |-> NoService]
    /\ port = NoPid
    /\ mgr = [s \in Services |-> "NONE"]
    /\ isStopping = FALSE
    /\ phase = "down"
    /\ health = [s \in Services |-> "none"]
    /\ op = [t \in Threads |-> "idle"]
    /\ pc = [t \in Threads |-> "idle"]
    /\ svc = [t \in Threads |-> NoService]
    /\ target = [t \in Threads |-> NoService]
    /\ todo = [t \in Threads |-> {}]
    /\ caller = [t \in Threads |-> "stop"]
    /\ child = [t \in Threads |-> NoPid]
    /\ tries = [t \in Threads |-> 0]

-----------------------------------------------------------------------------
Idle(t) == pc[t] = "idle"
AllIdle == \A t \in Threads : Idle(t)

Goto(t, l) == pc' = [pc EXCEPT ![t] = l]
SetStatus(t, v) == status' = [status EXCEPT ![svc[t]] = v]
SetState(t, v) == mgr' = [mgr EXCEPT ![svc[t]] = v]

\* Thread t takes up a job.
Begin(t, job, l) ==
    /\ op' = [op EXCEPT ![t] = job]
    /\ Goto(t, l)

\* The job is over, and its local variables with it.
End(t) ==
    /\ Begin(t, "idle", "idle")
    /\ svc' = [svc EXCEPT ![t] = NoService]
    /\ caller' = [caller EXCEPT ![t] = "stop"]

\* The event loop runs a handler only while no other one keeps it: a deploy
\* request calls pause_all_services on the loop itself, not in the executor.
LoopFree == phase = "serving" /\ \A t \in Threads : op[t] # "pausing"

\* The processes in K die; a dead process listens nowhere.
Kill(K) ==
    /\ proc' = [p \in Pids |-> IF p \in K THEN NoService ELSE proc[p]]
    /\ port' = IF port \in K THEN NoPid ELSE port

\* What kill_processes_on_port finds.
Listening == IF ReapsPorts THEN {port} \ {NoPid} ELSE {}

-----------------------------------------------------------------------------
(* Requests and the daemon's own events *)

\* pause_all_services_on_startup, first half: no other thread exists yet.
Launch(t) ==
    /\ phase = "down" /\ Idle(t)
    /\ phase' = "booting"
    /\ Begin(t, "boot", "recover")
    /\ UNCHANGED <<files, processes, manager, health, svc, caller, locals>>

\* Mutant: a deployment left in STOPPING is forgotten.
RecoverDeployingOnly(t) ==
    /\ pc[t] = "recover"
    /\ status' = [s \in Services |-> IF status[s] = "DEPLOYING" THEN "BUILT" ELSE status[s]]
    /\ interrupted' = {}
    /\ todo' = [todo EXCEPT ![t] = Services]
    /\ Goto(t, "pause")
    /\ UNCHANGED <<pidFile, processes, manager, daemon, op, svc, caller, target, child, tries>>

Recover(t) ==
    /\ pc[t] = "recover"
    /\ status' = [s \in Services |-> IF status[s] \in Transient THEN "BUILT" ELSE status[s]]
    /\ interrupted' = {}
    /\ todo' = [todo EXCEPT ![t] = Services]
    /\ Goto(t, "pause")
    /\ UNCHANGED <<pidFile, processes, manager, daemon, op, svc, caller, target, child, tries>>

RequestDeploy(t, s) ==
    /\ LoopFree /\ Idle(t)
    /\ Begin(t, "pausing", "pause")
    /\ target' = [target EXCEPT ![t] = s]
    /\ todo' = [todo EXCEPT ![t] = Services]
    /\ UNCHANGED <<files, processes, manager, daemon, svc, caller, child, tries>>

\* The handler loads the deployment and cancels the health-check job; the
\* executor then runs deployment.stop() on what was loaded.
RequestStop(t, s) ==
    /\ LoopFree /\ Idle(t)
    /\ health' = [health EXCEPT ![s] = "none"]
    /\ svc' = [svc EXCEPT ![t] = s]
    /\ \/ /\ status[s] = "DEPLOYED"
          /\ Begin(t, "stop", "storeStopping")
       \/ /\ status[s] # "DEPLOYED"
          /\ UNCHANGED <<op, pc>>
    /\ UNCHANGED <<files, processes, manager, phase, caller, locals>>

RequestShutdown(t) ==
    /\ LoopFree /\ Idle(t)
    /\ Begin(t, "shutdown", "pause")
    /\ todo' = [todo EXCEPT ![t] = Services]
    /\ UNCHANGED <<files, processes, manager, daemon, svc, caller, target, child, tries>>

\* The watchdog: the parent process died.
ParentExit(t) ==
    /\ LoopFree /\ Idle(t)
    /\ isStopping' = TRUE
    /\ Begin(t, "shutdown", "pause")
    /\ todo' = [todo EXCEPT ![t] = Services]
    /\ UNCHANGED <<files, processes, mgr, daemon, svc, caller, target, child, tries>>

\* A health-check job that has counted enough failures restarts the service
\* in a thread of its own, and does so again after a restart that raised.
HealthRestart(t, s) ==
    /\ LoopFree /\ Idle(t)
    /\ health[s] \in {"watching", "failed"}
    /\ health' = [health EXCEPT ![s] = t]
    /\ svc' = [svc EXCEPT ![t] = s]
    /\ Begin(t, "restart", "mayStop")
    /\ UNCHANGED <<files, processes, manager, phase, caller, locals>>

\* Too many failed restarts: stop the service and end the job.
HealthGiveUp(t, s) ==
    /\ LoopFree /\ Idle(t)
    /\ health[s] = "failed"
    /\ health' = [health EXCEPT ![s] = t]
    /\ svc' = [svc EXCEPT ![t] = s]
    /\ Begin(t, "giveUp", "mayStop")
    /\ UNCHANGED <<files, processes, manager, phase, caller, locals>>

\* atexit: the interpreter has joined the worker threads.
Exit(t) ==
    /\ phase = "exiting" /\ AllIdle
    /\ Begin(t, "exit", "pause")
    /\ todo' = [todo EXCEPT ![t] = Services]
    /\ UNCHANGED <<files, processes, manager, daemon, svc, caller, target, child, tries>>

\* The daemon is killed.  Files and agents survive, memory does not.
Crash ==
    /\ phase # "down"
    /\ phase' = "down"
    /\ mgr' = [s \in Services |-> "NONE"]
    /\ isStopping' = FALSE
    /\ health' = [s \in Services |-> "none"]
    /\ op' = [t \in Threads |-> "idle"]
    /\ pc' = [t \in Threads |-> "idle"]
    /\ svc' = [t \in Threads |-> NoService]
    /\ target' = [t \in Threads |-> NoService]
    /\ todo' = [t \in Threads |-> {}]
    /\ caller' = [t \in Threads |-> "stop"]
    /\ child' = [t \in Threads |-> NoPid]
    /\ tries' = [t \in Threads |-> 0]
    /\ UNCHANGED <<files, processes>>

-----------------------------------------------------------------------------
(* pause_all_services *)

\* Mutant: only a service that is DEPLOYED is stopped.
PauseSkipUnforced(t, s) ==
    /\ pc[t] = "pause" /\ s \in todo[t]
    /\ status[s] # "DEPLOYED"
    /\ todo' = [todo EXCEPT ![t] = @ \ {s}]
    /\ UNCHANGED <<files, processes, manager, daemon, op, pc, svc, caller, target, child, tries>>

PauseSkip(t, s) ==
    /\ pc[t] = "pause" /\ s \in todo[t]
    /\ status[s] = "DELETED"
    /\ todo' = [todo EXCEPT ![t] = @ \ {s}]
    /\ UNCHANGED <<files, processes, manager, daemon, op, pc, svc, caller, target, child, tries>>

\* deployment.stop(force=True)
PauseNext(t, s) ==
    /\ pc[t] = "pause" /\ s \in todo[t]
    /\ status[s] # "DELETED"
    /\ todo' = [todo EXCEPT ![t] = @ \ {s}]
    /\ svc' = [svc EXCEPT ![t] = s]
    /\ Goto(t, "storeStopping")
    /\ UNCHANGED <<files, processes, manager, daemon, op, caller, target, child, tries>>

\* A stop that raised is logged; the health-check job is cancelled only now.
PauseStopped(t) ==
    /\ op[t] \in Pausing /\ pc[t] \in {"returned", "failed"}
    /\ health' = [health EXCEPT ![svc[t]] = "none"]
    /\ Goto(t, "pause")
    /\ UNCHANGED <<files, processes, manager, phase, op, svc, caller, locals>>

PauseDone(t) == pc[t] = "pause" /\ todo[t] = {}

BootDone(t) ==
    /\ PauseDone(t) /\ op[t] = "boot"
    /\ phase' = "serving"
    /\ End(t)
    /\ UNCHANGED <<files, processes, manager, health, locals>>

ShutdownDone(t) ==
    /\ PauseDone(t) /\ op[t] = "shutdown"
    /\ phase' = "exiting"
    /\ End(t)
    /\ UNCHANGED <<files, processes, manager, health, locals>>

\* The process ends and its memory with it.
ExitDone(t) ==
    /\ PauseDone(t) /\ op[t] = "exit"
    /\ phase' = "down"
    /\ mgr' = [s \in Services |-> "NONE"]
    /\ isStopping' = FALSE
    /\ End(t)
    /\ UNCHANGED <<files, processes, health, locals>>

DeployPaused(t) ==
    /\ PauseDone(t) /\ op[t] = "pausing"
    /\ Begin(t, "deploy", "onchain")
    /\ svc' = [svc EXCEPT ![t] = target[t]]
    /\ target' = [target EXCEPT ![t] = NoService]
    /\ UNCHANGED <<files, processes, manager, daemon, caller, todo, child, tries>>

\* deploy_service_onchain_from_safe, which may raise.
Onchain(t) ==
    /\ pc[t] = "onchain"
    /\ \E l \in {"build", "failed"} : Goto(t, l)
    /\ UNCHANGED <<files, processes, manager, daemon, op, svc, caller, locals>>

-----------------------------------------------------------------------------
(* Deployment.stop *)

\* stop(force=False) looks at the status it has loaded.
MayStop(t) ==
    /\ pc[t] = "mayStop"
    /\ \/ status[svc[t]] = "DEPLOYED" /\ Goto(t, "storeStopping")
       \/ status[svc[t]] # "DEPLOYED" /\ op[t] = "restart" /\ Goto(t, "build")
       \/ status[svc[t]] # "DEPLOYED" /\ op[t] = "giveUp" /\ Goto(t, "returned")
    /\ UNCHANGED <<files, processes, manager, daemon, op, svc, caller, locals>>

StoreStopping(t) ==
    /\ pc[t] = "storeStopping"
    /\ SetStatus(t, "STOPPING")
    /\ caller' = [caller EXCEPT ![t] = "stop"]
    /\ Goto(t, "storedStopping")
    /\ UNCHANGED <<interrupted, pidFile, processes, manager, daemon, op, svc, locals>>

StopDone(t) ==
    /\ pc[t] = "stopDone"
    /\ SetStatus(t, "BUILT")
    /\ Goto(t, "storedStopped")
    /\ UNCHANGED <<interrupted, pidFile, processes, manager, daemon, op, svc, caller, locals>>

\* Mutant: the exception handlers do not store BUILT.
BackToBuiltUnstored(t) ==
    /\ pc[t] = "backToBuilt"
    /\ Goto(t, "storedBack")
    /\ UNCHANGED <<files, processes, manager, daemon, op, svc, caller, locals>>

\* The exception handlers of Deployment.start and Deployment.stop.
BackToBuilt(t) ==
    /\ pc[t] = "backToBuilt"
    /\ SetStatus(t, "BUILT")
    /\ Goto(t, "storedBack")
    /\ UNCHANGED <<interrupted, pidFile, processes, manager, daemon, op, svc, caller, locals>>

(* LocalResource.store, after the file has been replaced *)

StoreReturns(t) ==
    /\ pc[t] \in Stored
    /\ Goto(t, AfterStore(pc[t]))
    /\ UNCHANGED <<files, processes, manager, daemon, op, svc, caller, locals>>

\* Two threads rename the same backup: one finds it gone.  The stores of
\* STOPPING and DEPLOYING are outside the try that would restore BUILT.
StoreRaises(t) ==
    /\ pc[t] \in Stored
    /\ \E u \in Threads \ {t} : svc[u] = svc[t] /\ pc[u] \in Stored
    /\ interrupted' = IF pc[t] \in {"storedStopping", "storedDeploying"}
                      THEN interrupted \cup {svc[t]}
                      ELSE interrupted
    /\ Goto(t, "failed")
    /\ UNCHANGED <<status, pidFile, processes, manager, daemon, op, svc, caller, locals>>

-----------------------------------------------------------------------------
(* DeploymentManager.stop_deployment and BaseDeploymentRunner.stop *)

StopCheck(t) ==
    /\ pc[t] = "stopCheck"
    /\ \/ mgr[svc[t]] \in InTransition /\ Goto(t, AfterStopRaised(caller[t]))
       \/ mgr[svc[t]] \notin InTransition /\ Goto(t, "stopSet")
    /\ UNCHANGED <<files, processes, manager, daemon, op, svc, caller, locals>>

StopSet(t) ==
    /\ pc[t] = "stopSet"
    /\ SetState(t, "STOPPING")
    /\ Goto(t, "kill")
    /\ UNCHANGED <<files, processes, isStopping, daemon, op, svc, caller, locals>>

\* The recorded process is killed and its file removed, then the port reaped.
KillRecorded(t) ==
    /\ pc[t] = "kill"
    /\ Kill({pidFile[svc[t]]} \cup Listening)
    /\ pidFile' = [pidFile EXCEPT ![svc[t]] = NoPid]
    /\ Goto(t, "killed")
    /\ UNCHANGED <<status, interrupted, manager, daemon, op, svc, caller, locals>>

\* kill_process raises (a child vanishes under psutil): the file is removed
\* all the same, the agent may survive and the port is not reaped.
KillRaises(t) ==
    /\ pc[t] = "kill"
    /\ pidFile[svc[t]] # NoPid /\ proc[pidFile[svc[t]]] # NoService
    /\ pidFile' = [pidFile EXCEPT ![svc[t]] = NoPid]
    /\ Goto(t, "killFailed")
    /\ UNCHANGED <<status, interrupted, processes, manager, daemon, op, svc, caller, locals>>

Killed(t) ==
    /\ pc[t] = "killed"
    /\ SetState(t, "STOPPED")
    /\ Goto(t, AfterStopped(caller[t]))
    /\ UNCHANGED <<files, processes, isStopping, daemon, op, svc, caller, locals>>

\* Mutant: stop_deployment lets the exception through without setting ERROR.
KillFailedUnset(t) ==
    /\ pc[t] = "killFailed"
    /\ Goto(t, AfterStopRaised(caller[t]))
    /\ UNCHANGED <<files, processes, manager, daemon, op, svc, caller, locals>>

KillFailed(t) ==
    /\ pc[t] = "killFailed"
    /\ SetState(t, "ERROR")
    /\ Goto(t, AfterStopRaised(caller[t]))
    /\ UNCHANGED <<files, processes, isStopping, daemon, op, svc, caller, locals>>

-----------------------------------------------------------------------------
(* Deployment.build on the host *)

\* The build directory always exists by now (it holds the SSL files), so a
\* running agent is stopped first, without force.
Build(t) ==
    /\ pc[t] = "build"
    /\ caller' = [caller EXCEPT ![t] = "build"]
    /\ Goto(t, "stopCheck")
    /\ UNCHANGED <<files, processes, manager, daemon, op, svc, locals>>

\* The build directory is removed, PID files included, and generated anew.
Generate(t) ==
    /\ pc[t] = "generate"
    /\ pidFile' = [pidFile EXCEPT ![svc[t]] = NoPid]
    /\ \/ SetStatus(t, "BUILT") /\ Goto(t, "storedBuilt")
       \/ UNCHANGED status /\ Goto(t, "failed")
    /\ UNCHANGED <<interrupted, processes, manager, daemon, op, svc, caller, locals>>

(* Deployment.start: build() has left BUILT in the object, whatever the file says *)

StartDeployment(t) ==
    /\ pc[t] = "startDeployment"
    /\ SetStatus(t, "DEPLOYING")
    /\ Goto(t, "storedDeploying")
    /\ UNCHANGED <<interrupted, pidFile, processes, manager, daemon, op, svc, caller, locals>>

RunDone(t) ==
    /\ pc[t] = "runDone"
    /\ SetStatus(t, "DEPLOYED")
    /\ Goto(t, "storedDeployed")
    /\ UNCHANGED <<interrupted, pidFile, processes, manager, daemon, op, svc, caller, locals>>

-----------------------------------------------------------------------------
(* DeploymentManager.run_deployment and BaseDeploymentRunner.start *)

RunCheck(t) ==
    /\ pc[t] = "runCheck"
    /\ \/ (isStopping \/ mgr[svc[t]] \in InTransition) /\ Goto(t, "backToBuilt")
       \/ ~isStopping /\ mgr[svc[t]] \notin InTransition /\ Goto(t, "ipfs")
    /\ UNCHANGED <<files, processes, manager, daemon, op, svc, caller, locals>>

\* The network check runs between the check of the state and its change.
IpfsFails(t) ==
    /\ pc[t] = "ipfs"
    /\ Goto(t, "backToBuilt")
    /\ UNCHANGED <<files, processes, manager, daemon, op, svc, caller, locals>>

IpfsWorks(t) ==
    /\ pc[t] = "ipfs"
    /\ SetState(t, "STARTING")
    /\ tries' = [tries EXCEPT ![t] = StartTries]
    /\ Goto(t, "free")
    /\ UNCHANGED <<files, processes, isStopping, daemon, op, svc, caller, target, todo, child>>

FreePorts(t) ==
    /\ pc[t] = "free"
    /\ Kill(Listening)
    /\ Goto(t, "spawn")
    /\ UNCHANGED <<files, manager, daemon, op, svc, caller, locals>>

\* Mutant: runner.start has no limit.
RetryForever(t) ==
    /\ child' = [child EXCEPT ![t] = NoPid]
    /\ Goto(t, "free")
    /\ UNCHANGED tries

\* Mutant: the last attempt is followed by one more.
RetryOnceMore(t) ==
    /\ tries' = [tries EXCEPT ![t] = @ - 1]
    /\ child' = [child EXCEPT ![t] = NoPid]
    /\ Goto(t, IF tries[t] >= 0 THEN "free" ELSE "startError")

\* An attempt of runner.start failed.
Retry(t) ==
    /\ child' = [child EXCEPT ![t] = NoPid]
    /\ \/ tries[t] > 1 /\ tries' = [tries EXCEPT ![t] = @ - 1] /\ Goto(t, "free")
       \/ tries[t] <= 1 /\ tries' = [tries EXCEPT ![t] = 0] /\ Goto(t, "startError")

Spawn(t, p) ==
    /\ pc[t] = "spawn" /\ proc[p] = NoService
    /\ proc' = [proc EXCEPT ![p] = svc[t]]
    /\ child' = [child EXCEPT ![t] = p]
    /\ Goto(t, "record")
    /\ UNCHANGED <<files, port, manager, daemon, op, svc, caller, target, todo, tries>>

\* Every attempt of _setup_agent raised.
SetupFails(t) ==
    /\ pc[t] = "spawn"
    /\ Retry(t)
    /\ UNCHANGED <<files, processes, manager, daemon, op, svc, caller, target, todo>>

Record(t) ==
    /\ pc[t] = "record"
    /\ pidFile' = [pidFile EXCEPT ![svc[t]] = child[t]]
    /\ child' = [child EXCEPT ![t] = NoPid]
    /\ tries' = [tries EXCEPT ![t] = 0]
    /\ Goto(t, "started")
    /\ UNCHANGED <<status, interrupted, processes, manager, daemon, op, svc, caller, target, todo>>

\* write_pid_file raises: the new process is killed, on a best effort.
RecordFails(t) ==
    /\ pc[t] = "record"
    /\ \/ Kill({child[t]})
       \/ UNCHANGED processes
    /\ Retry(t)
    /\ UNCHANGED <<files, manager, daemon, op, svc, caller, target, todo>>

Started(t) ==
    /\ pc[t] = "started"
    /\ SetState(t, "STARTED")
    /\ Goto(t, "checkStopping")
    /\ UNCHANGED <<files, processes, isStopping, daemon, op, svc, caller, locals>>

\* stop_deployment(force=True) follows, and what it returns hides the failure.
StartError(t) ==
    /\ pc[t] = "startError"
    /\ SetState(t, "ERROR")
    /\ caller' = [caller EXCEPT ![t] = "runFailed"]
    /\ Goto(t, "stopSet")
    /\ UNCHANGED <<files, processes, isStopping, daemon, op, svc, locals>>

\* Mutant: run_deployment does not look at _is_stopping again.
CheckStoppingNot(t) ==
    /\ pc[t] = "checkStopping"
    /\ Goto(t, "runDone")
    /\ UNCHANGED <<files, processes, manager, daemon, op, svc, caller, locals>>

CheckStopping(t) ==
    /\ pc[t] = "checkStopping"
    /\ \/ /\ isStopping
          /\ caller' = [caller EXCEPT ![t] = "runStopped"]
          /\ Goto(t, "stopSet")
       \/ /\ ~isStopping
          /\ Goto(t, "runDone")
          /\ UNCHANGED caller
    /\ UNCHANGED <<files, processes, manager, daemon, op, svc, locals>>

-----------------------------------------------------------------------------
(* Ends of jobs *)

StopEnds(t) ==
    /\ op[t] = "stop" /\ pc[t] \in {"returned", "failed"}
    /\ End(t)
    /\ UNCHANGED <<files, processes, manager, daemon, locals>>

\* _deploy_and_run_service resumes on the event loop and schedules the
\* health-check job, which replaces an earlier one.
DeployReturns(t) ==
    /\ op[t] = "deploy" /\ pc[t] = "returned"
    /\ \A u \in Threads : op[u] # "pausing"
    /\ health' = IF HealthCheckerOff THEN health ELSE [health EXCEPT ![svc[t]] = "watching"]
    /\ End(t)
    /\ UNCHANGED <<files, processes, manager, phase, locals>>

DeployFails(t) ==
    /\ op[t] = "deploy" /\ pc[t] = "failed"
    /\ End(t)
    /\ UNCHANGED <<files, processes, manager, daemon, locals>>

RestartStopped(t) ==
    /\ op[t] = "restart" /\ pc[t] = "returned" /\ caller[t] = "stop"
    /\ Goto(t, "build")
    /\ UNCHANGED <<files, processes, manager, daemon, op, svc, caller, locals>>

\* A cancelled job no longer waits for its thread.
Resume(t, h) ==
    health' = [health EXCEPT ![svc[t]] = IF @ = t THEN h ELSE @]

RestartReturns(t) ==
    /\ op[t] = "restart" /\ pc[t] = "returned" /\ caller[t] # "stop"
    /\ Resume(t, "watching")
    /\ End(t)
    /\ UNCHANGED <<files, processes, manager, phase, locals>>

RestartFails(t) ==
    /\ op[t] = "restart" /\ pc[t] = "failed"
    /\ Resume(t, "failed")
    /\ End(t)
    /\ UNCHANGED <<files, processes, manager, phase, locals>>

GiveUpEnds(t) ==
    /\ op[t] = "giveUp" /\ pc[t] \in {"returned", "failed"}
    /\ Resume(t, "none")
    /\ End(t)
    /\ UNCHANGED <<files, processes, manager, phase, locals>>

-----------------------------------------------------------------------------
(* Agents *)

AgentListens(p) ==
    /\ proc[p] # NoService /\ port = NoPid
    /\ port' = p
    /\ UNCHANGED <<files, proc, manager, daemon, op, pc, svc, caller, locals>>

AgentDies(p) ==
    /\ proc[p] # NoService
    /\ Kill({p})
    /\ UNCHANGED <<files, manager, daemon, op, pc, svc, caller, locals>>

-----------------------------------------------------------------------------
\* What a working thread does by itself.
Step(t) ==
    \/ Recover(t)
    \/ \E s \in Services : PauseSkip(t, s) \/ PauseNext(t, s)
    \/ PauseStopped(t) \/ BootDone(t) \/ ShutdownDone(t) \/ ExitDone(t) \/ DeployPaused(t)
    \/ Onchain(t) \/ MayStop(t) \/ StoreStopping(t) \/ StopDone(t) \/ BackToBuilt(t)
    \/ StoreReturns(t) \/ StoreRaises(t)
    \/ StopCheck(t) \/ StopSet(t) \/ KillRecorded(t) \/ KillRaises(t)
    \/ Killed(t) \/ KillFailed(t)
    \/ Build(t) \/ Generate(t) \/ StartDeployment(t) \/ RunDone(t)
    \/ RunCheck(t) \/ IpfsFails(t) \/ IpfsWorks(t) \/ FreePorts(t)
    \/ \E p \in Pids : Spawn(t, p)
    \/ SetupFails(t) \/ Record(t) \/ RecordFails(t)
    \/ Started(t) \/ StartError(t) \/ CheckStopping(t)
    \/ StopEnds(t) \/ DeployReturns(t) \/ DeployFails(t)
    \/ RestartStopped(t) \/ RestartReturns(t) \/ RestartFails(t) \/ GiveUpEnds(t)

\* What sets a thread to work.
Request(t) ==
    \/ Launch(t) \/ RequestShutdown(t) \/ ParentExit(t) \/ Exit(t)
    \/ \E s \in Services :
         RequestDeploy(t, s) \/ RequestStop(t, s) \/ HealthRestart(t, s) \/ HealthGiveUp(t, s)

Run ==
    \/ \E t \in Threads : Step(t) \/ Request(t)
    \/ \E p \in Pids : AgentListens(p) \/ AgentDies(p)

Next == Run \/ Crash

Spec == Init /\ [][Next]_vars

\* Threads are scheduled, the event loop runs its ready callbacks in turn, and
\* the interpreter exits once it has been told to.
Fairness ==
    /\ \A t \in Threads : WF_vars(Step(t)) /\ SF_vars(DeployReturns(t))
    /\ WF_vars(\E t \in Threads : Exit(t))

\* An execution during which the daemon is not killed: a kill ends every job.
FairSpec == Init /\ [][Run]_vars /\ Fairness

-----------------------------------------------------------------------------
(* Properties *)

\* Steps of Deployment.start and Deployment.stop between the store of a
\* transient status and the store that ends it.
InOperation(t) ==
    \/ pc[t] \in {"storedDeploying", "runCheck", "ipfs", "free", "spawn", "record", "started",
                  "startError", "checkStopping", "runDone", "stopDone", "backToBuilt"}
    \/ pc[t] \in StopSteps \cup {"storedStopping"} /\ caller[t] # "build"

\* Steps of the manager between the store of an in-transition state and the
\* store that ends it.
InManager(t) ==
    pc[t] \in {"kill", "killed", "killFailed", "free", "spawn", "record", "started", "startError"}

Recovered == phase # "down" /\ \A t \in Threads : pc[t] # "recover"

\* Whatever the threads do to each other, and wherever the daemon was killed:
\* a persisted DEPLOYING or STOPPING belongs to an operation that will end it,
\* unless a store() raised (Deployment.start and stop, recover_stale_...).
TransientIsOwned ==
    Recovered =>
        \A s \in Services \ interrupted :
            status[s] \in Transient => \E t \in Threads : svc[t] = s /\ InOperation(t)

\* STARTING or STOPPING in the manager, which make it refuse every unforced
\* call, belong to a call that is still running.
StateIsOwned ==
    \A s \in Services :
        mgr[s] \in InTransition => \E t \in Threads : svc[t] = s /\ InManager(t)

\* When nobody works on a service the UI can start it and stop it again.
NoWedge ==
    Recovered =>
        \A s \in Services \ interrupted :
            (\A t \in Threads : svc[t] = s => Idle(t))
                => status[s] \notin Transient /\ mgr[s] \notin InTransition

\* Once the parent's exit has stopped the manager and every thread has
\* finished, no agent is left that a PID file records, even if it was being
\* started meanwhile (unless a store() raised and the stop was not attempted).
NoAgentAfterParentExit ==
    isStopping /\ AllIdle => \A s \in Services \ interrupted : pidFile[s] = NoPid

\* The API is served only after every service that exists was stopped.
ServesStopped ==
    [][ phase = "booting" /\ phase' = "serving"
          => \A s \in Services : /\ status'[s] \in {"BUILT", "DELETED"}
                                 /\ status'[s] = "BUILT" => pidFile'[s] = NoPid ]_vars

\* Every job ends: no retry, wait or lock keeps a thread for ever.
JobsEnd == \A t \in Threads : op[t] # "idle" ~> op[t] = "idle"
=============================================================================
