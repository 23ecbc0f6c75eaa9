--------------------------- MODULE HealthChecker ---------------------------
(***************************************************************************)
(* services/health_checker.py: one asyncio task per service probes the     *)
(* agent's HTTP port, restarts the service in a thread when the agent has  *)
(* been unhealthy too often in a row, and gives up on it after too many    *)
(* restarts that raised.  _jobs holds the task of each service; the deploy *)
(* handler replaces it, the stop handler and pause_all_services (which may *)
(* run in another thread, hence the lock) cancel it.                       *)
(*                                                                         *)
(* Time is counted in sleeps between two attempts to restart (30 s).  What *)
(* a restart does to the deployment is the subject of Deployment.tla: here *)
(* it is a thread that ends or raises.                                     *)
(***************************************************************************)
EXTENDS Integers

CONSTANTS
    Services,         \* service_config_ids
    Tasks,            \* asyncio tasks that may exist at the same time
    NoTask,           \* no task in _jobs
    NumberOfFails,    \* number_of_fails (HEALTH_CHECKER_TRIES)
    FailfastNum,      \* FAILFAST_NUM
    FailfastTimeout,  \* FAILFAST_TIMEOUT, in sleeps
    HungPortTimesOut  \* whether port_up_timeout is shorter than one request may take

ASSUME LimitsAssumption ==
    NumberOfFails \in Nat \ {0} /\ FailfastNum \in Nat \ {0} /\ FailfastTimeout \in Nat
ASSUME HungAssumption == HungPortTimesOut \in BOOLEAN
ASSUME NoTaskAssumption == NoTask \notin Tasks

VARIABLES
    jobs,      \* jobs[s]: the task that _jobs holds for s
    of,        \* of[k]: the service task k watches, or watched last
    at,        \* at[k]: the await of healthcheck_job that k is in
    fails,     \* fails[k]: of _check_health
    records,   \* records[k]: the length of failfast_records, up to FailfastNum
    age,       \* age[k]: the age of failfast_records[0], up to FailfastTimeout + 1
    thread,    \* thread[k]: what the thread that k has started runs
    agent,     \* agent[s]: what the agent's port answers
    unhealthy  \* history: probes since the last one that was healthy or a restart

counters == <<fails, records, age>>
vars == <<jobs, of, at, counters, thread, agent, unhealthy>>

Awaits == {"starting", "waiting", "checking", "restart", "backoff", "stop"}
Threads == {"none", "restart", "stop"}
Answers == {"healthy", "unhealthy", "hung", "closed"}

TypeOK ==
    /\ jobs \in [Services -> Tasks \cup {NoTask}]
    /\ of \in [Tasks -> Services]
    /\ at \in [Tasks -> Awaits \cup {"free", "ended"}]
    /\ fails \in [Tasks -> 0..(NumberOfFails - 1)]
    /\ records \in [Tasks -> 0..FailfastNum]
    /\ age \in [Tasks -> 0..(FailfastTimeout + 1)]
    /\ thread \in [Tasks -> Threads]
    /\ agent \in [Services -> Answers]
    /\ unhealthy \in [Tasks -> 0..NumberOfFails]

Init ==
    /\ jobs = [s \in Services |-> NoTask]
    /\ of \in [Tasks -> Services]
    /\ at = [k \in Tasks |-> "free"]
    /\ fails = [k \in Tasks |-> 0]
    /\ records = [k \in Tasks |-> 0]
    /\ age = [k \in Tasks |-> 0]
    /\ thread = [k \in Tasks |-> "none"]
    /\ agent = [s \in Services |-> "closed"]
    /\ unhealthy = [k \in Tasks |-> 0]

-----------------------------------------------------------------------------
AtMost(n, limit) == IF n < limit THEN n ELSE limit
Live(k) == at[k] \in Awaits

\* cancel() ends the coroutine at its await; a thread it waits for goes on.
Cancelled(s) == [at EXCEPT ![jobs[s]] = "free"]

\* Mutant: the job that is replaced is not cancelled.
StartUncancelled(s, k) ==
    /\ at[k] \in {"free", "ended"} /\ thread[k] = "none"
    /\ at' = [at EXCEPT ![k] = "starting"]
    /\ jobs' = [jobs EXCEPT ![s] = k]
    /\ of' = [of EXCEPT ![k] = s]
    /\ fails' = [fails EXCEPT ![k] = 0]
    /\ records' = [records EXCEPT ![k] = 0]
    /\ age' = [age EXCEPT ![k] = 0]
    /\ unhealthy' = [unhealthy EXCEPT ![k] = 0]
    /\ UNCHANGED <<thread, agent>>

\* start_for_service, after a deployment.
Start(s, k) ==
    /\ at[k] \in {"free", "ended"} /\ thread[k] = "none" /\ \A r \in Services : jobs[r] # k
    /\ at' = [(IF jobs[s] = NoTask THEN at ELSE Cancelled(s)) EXCEPT ![k] = "starting"]
    /\ jobs' = [jobs EXCEPT ![s] = k]
    /\ of' = [of EXCEPT ![k] = s]
    /\ fails' = [fails EXCEPT ![k] = 0]
    /\ records' = [records EXCEPT ![k] = 0]
    /\ age' = [age EXCEPT ![k] = 0]
    /\ unhealthy' = [unhealthy EXCEPT ![k] = 0]
    /\ UNCHANGED <<thread, agent>>

\* stop_for_service
Stop(s) ==
    /\ jobs[s] # NoTask
    /\ at' = Cancelled(s)
    /\ jobs' = [jobs EXCEPT ![s] = NoTask]
    /\ UNCHANGED <<of, counters, thread, agent, unhealthy>>

-----------------------------------------------------------------------------
(* healthcheck_job *)

Load(k) ==
    /\ at[k] = "starting"
    /\ \E l \in {"waiting", "ended"} : at' = [at EXCEPT ![k] = l]
    /\ UNCHANGED <<jobs, of, counters, thread, agent, unhealthy>>

\* One attempt of the restart loop: the record is appended before it.
Restart(k) ==
    /\ records' = [records EXCEPT ![k] = AtMost(@ + 1, FailfastNum)]
    /\ at' = [at EXCEPT ![k] = "restart"]
    /\ thread' = [thread EXCEPT ![k] = "restart"]

\* Mutant: the count of failures survives a restart.
PortCheckedKeepingFails(k) ==
    /\ at[k] = "waiting"
    /\ at' = [at EXCEPT ![k] = "checking"]
    /\ records' = [records EXCEPT ![k] = 0]
    /\ age' = [age EXCEPT ![k] = 0]
    /\ UNCHANGED <<jobs, of, fails, thread, agent, unhealthy>>

\* check_service_health answers False to every error, a refused connection
\* included, so its first answer ends the wait for the port.
PortChecked(k) ==
    /\ at[k] = "waiting"
    /\ at' = [at EXCEPT ![k] = "checking"]
    /\ fails' = [fails EXCEPT ![k] = 0]
    /\ records' = [records EXCEPT ![k] = 0]
    /\ age' = [age EXCEPT ![k] = 0]
    /\ UNCHANGED <<jobs, of, thread, agent, unhealthy>>

\* Only a request that outlasts port_up_timeout ends the wait without the port.
PortNotReady(k) ==
    /\ at[k] = "waiting" /\ agent[of[k]] = "hung" /\ HungPortTimesOut
    /\ Restart(k)
    /\ UNCHANGED <<jobs, of, fails, age, agent, unhealthy>>

Healthy(k) ==
    /\ at[k] = "checking" /\ agent[of[k]] = "healthy"
    /\ fails' = [fails EXCEPT ![k] = 0]
    /\ unhealthy' = [unhealthy EXCEPT ![k] = 0]
    /\ UNCHANGED <<jobs, of, at, records, age, thread, agent>>

\* Mutant: a failure is forgotten as soon as it is counted.
UnhealthyForgotten(k) ==
    /\ at[k] = "checking" /\ agent[of[k]] # "healthy" /\ NumberOfFails > 1
    /\ UNCHANGED <<jobs, of, at, counters, thread, agent, unhealthy>>

\* Mutant: one failure more than the limit is waited for.
UnhealthyOnceMore(k) ==
    /\ at[k] = "checking" /\ agent[of[k]] # "healthy"
    /\ unhealthy' = [unhealthy EXCEPT ![k] = AtMost(@ + 1, NumberOfFails)]
    /\ \/ /\ fails[k] < NumberOfFails
          /\ fails' = [fails EXCEPT ![k] = @ + 1]
          /\ UNCHANGED <<at, records, thread>>
       \/ /\ fails[k] >= NumberOfFails
          /\ Restart(k)
          /\ UNCHANGED fails
    /\ UNCHANGED <<jobs, of, age, agent>>

Unhealthy(k) ==
    /\ at[k] = "checking" /\ agent[of[k]] # "healthy"
    /\ unhealthy' = [unhealthy EXCEPT ![k] = AtMost(@ + 1, NumberOfFails)]
    /\ \/ /\ fails[k] + 1 < NumberOfFails
          /\ fails' = [fails EXCEPT ![k] = @ + 1]
          /\ UNCHANGED <<at, records, thread>>
       \/ /\ fails[k] + 1 >= NumberOfFails
          /\ Restart(k)
          /\ UNCHANGED fails
    /\ UNCHANGED <<jobs, of, age, agent>>

\* The thread ends; if it was not cancelled the job waits for the port again.
Restarted(k) ==
    /\ thread[k] = "restart"
    /\ thread' = [thread EXCEPT ![k] = "none"]
    /\ at' = [at EXCEPT ![k] = IF @ = "restart" THEN "waiting" ELSE @]
    /\ unhealthy' = [unhealthy EXCEPT ![k] = 0]
    /\ UNCHANGED <<jobs, of, counters, agent>>

\* Mutant: an attempt that raised is followed by another one, always.
RestartRaisedRetry(k, d) ==
    /\ thread[k] = "restart"
    /\ age' = [age EXCEPT ![k] = AtMost(@ + d, FailfastTimeout + 1)]
    /\ at' = [at EXCEPT ![k] = IF @ = "restart" THEN "backoff" ELSE @]
    /\ thread' = [thread EXCEPT ![k] = "none"]
    /\ UNCHANGED <<jobs, of, fails, records, agent, unhealthy>>

\* The restart took d and raised: stop the service once the budget is spent.
RestartRaised(k, d) ==
    /\ thread[k] = "restart"
    /\ age' = [age EXCEPT ![k] = AtMost(@ + d, FailfastTimeout + 1)]
    /\ \/ /\ at[k] = "restart"
          /\ records[k] >= FailfastNum \/ age'[k] > FailfastTimeout
          /\ at' = [at EXCEPT ![k] = "stop"]
          /\ thread' = [thread EXCEPT ![k] = "stop"]
       \/ /\ at[k] = "restart"
          /\ records[k] < FailfastNum /\ age'[k] <= FailfastTimeout
          /\ at' = [at EXCEPT ![k] = "backoff"]
          /\ thread' = [thread EXCEPT ![k] = "none"]
       \/ /\ at[k] # "restart"
          /\ thread' = [thread EXCEPT ![k] = "none"]
          /\ UNCHANGED at
    /\ UNCHANGED <<jobs, of, fails, records, agent, unhealthy>>

RetryRestart(k) ==
    /\ at[k] = "backoff"
    /\ age' = [age EXCEPT ![k] = AtMost(@ + 1, FailfastTimeout + 1)]
    /\ Restart(k)
    /\ UNCHANGED <<jobs, of, fails, agent, unhealthy>>

\* The job ends by the exception of the restart, or of the stop.
Stopped(k) ==
    /\ thread[k] = "stop"
    /\ thread' = [thread EXCEPT ![k] = "none"]
    /\ at' = [at EXCEPT ![k] = IF @ = "stop" THEN "ended" ELSE @]
    /\ UNCHANGED <<jobs, of, counters, agent, unhealthy>>

AgentChanges(s, a) ==
    /\ agent[s] # a
    /\ agent' = [agent EXCEPT ![s] = a]
    /\ UNCHANGED <<jobs, of, at, counters, thread, unhealthy>>

-----------------------------------------------------------------------------
Job(k) ==
    \/ Load(k) \/ PortChecked(k) \/ PortNotReady(k) \/ Healthy(k) \/ Unhealthy(k)
    \/ Restarted(k) \/ RetryRestart(k) \/ Stopped(k)
    \/ \E d \in 0..1 : RestartRaised(k, d)

Next ==
    \/ \E k \in Tasks : Job(k)
    \/ \E s \in Services, k \in Tasks : Start(s, k)
    \/ \E s \in Services : Stop(s)
    \/ \E s \in Services, a \in Answers : AgentChanges(s, a)

Spec == Init /\ [][Next]_vars

\* The event loop wakes a job whose sleep, request (which has a timeout) or
\* thread has ended, and the threads end.
FairSpec == Spec /\ \A k \in Tasks : WF_vars(Job(k))

-----------------------------------------------------------------------------
(* Properties *)

\* However deploys, stops and pauses interleave, the job that watches a service
\* is the one _jobs can cancel: none is lost, and no two watch one service.
OneJobPerService == \A k \in Tasks : Live(k) => jobs[of[k]] = k

\* A service is restarted out of _check_health only for NumberOfFails unhealthy
\* probes in a row, all of them made after its last restart.
GraceAfterRestart ==
    [][ \A k \in Tasks :
          at[k] = "checking" /\ at'[k] = "restart" => unhealthy'[k] = NumberOfFails ]_vars

\* A service whose agent is never healthy again is restarted again and again,
\* for as long as the same job watches it.
SickIsRestarted ==
    \A s \in Services, k \in Tasks :
        <>[](agent[s] # "healthy" /\ jobs[s] = k /\ Live(k)) => []<>(at[k] \in {"restart", "stop"})

\* Restarts that keep raising come to an end (FAILFAST_NUM, FAILFAST_TIMEOUT).
RetriesEnd == \A k \in Tasks : at[k] = "backoff" ~> at[k] \notin {"backoff", "restart", "stop"}
=============================================================================
