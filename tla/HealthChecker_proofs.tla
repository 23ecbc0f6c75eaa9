------------------------ MODULE HealthChecker_proofs ------------------------
(***************************************************************************)
(* Theorems about HealthChecker, for any number of services and tasks and  *)
(* any limits: its type invariant, that no job escapes _jobs, and that a   *)
(* restart is always preceded by the full number of unhealthy probes.      *)
(***************************************************************************)
EXTENDS HealthChecker, TLAPS

\* Type correctness: the counters keep their limits.
THEOREM TypeCorrect == Spec => []TypeOK
<1>1. Init => TypeOK
  BY LimitsAssumption DEF Init, TypeOK, Awaits, Threads, Answers
<1>2. TypeOK /\ [Next]_vars => TypeOK'
  <2> SUFFICES ASSUME TypeOK, [Next]_vars PROVE TypeOK'
    OBVIOUS
  <2> USE DEF TypeOK, Awaits, Threads, Answers, counters
  <2>1. ASSUME NEW k \in Tasks, Load(k) PROVE TypeOK'
    BY <2>1 DEF Load
  <2>2. ASSUME NEW k \in Tasks, PortChecked(k) PROVE TypeOK'
    BY <2>2, LimitsAssumption DEF PortChecked
  <2>3. ASSUME NEW k \in Tasks, PortNotReady(k) PROVE TypeOK'
    BY <2>3, LimitsAssumption DEF PortNotReady, Restart, AtMost
  <2>4. ASSUME NEW k \in Tasks, Healthy(k) PROVE TypeOK'
    BY <2>4, LimitsAssumption DEF Healthy
  <2>5. ASSUME NEW k \in Tasks, Unhealthy(k) PROVE TypeOK'
    BY <2>5, LimitsAssumption DEF Unhealthy, Restart, AtMost
  <2>6. ASSUME NEW k \in Tasks, Restarted(k) PROVE TypeOK'
    BY <2>6, LimitsAssumption DEF Restarted
  <2>7. ASSUME NEW k \in Tasks, RetryRestart(k) PROVE TypeOK'
    BY <2>7, LimitsAssumption DEF RetryRestart, Restart, AtMost
  <2>8. ASSUME NEW k \in Tasks, Stopped(k) PROVE TypeOK'
    BY <2>8 DEF Stopped
  <2>9. ASSUME NEW k \in Tasks, NEW d \in 0..1, RestartRaised(k, d) PROVE TypeOK'
    BY <2>9, LimitsAssumption DEF RestartRaised, AtMost
  <2>10. ASSUME NEW s \in Services, NEW k \in Tasks, Start(s, k) PROVE TypeOK'
    BY <2>10, LimitsAssumption DEF Start, Cancelled
  <2>11. ASSUME NEW s \in Services, Stop(s) PROVE TypeOK'
    BY <2>11 DEF Stop, Cancelled
  <2>12. ASSUME NEW s \in Services, NEW a \in Answers, AgentChanges(s, a) PROVE TypeOK'
    BY <2>12, LimitsAssumption DEF AgentChanges
  <2>13. CASE UNCHANGED vars
    BY <2>13 DEF vars
  <2>14. QED
    BY <2>1, <2>2, <2>3, <2>4, <2>5, <2>6, <2>7, <2>8, <2>9, <2>10, <2>11, <2>12, <2>13
         DEF Next, Job
<1>3. QED
  BY <1>1, <1>2, PTL DEF Spec

\* No job is lost: the task that watches a service is the one _jobs can cancel.
\* Inductive by itself, given the types: a slot of _jobs is overwritten only
\* after its task was cancelled, and no other service's slot holds the new task.
THEOREM OneJob == Spec => []OneJobPerService
<1>1. Init => OneJobPerService
  BY DEF Init, OneJobPerService, Live, Awaits
<1>2. TypeOK /\ OneJobPerService /\ [Next]_vars => OneJobPerService'
  <2> SUFFICES ASSUME TypeOK, OneJobPerService, [Next]_vars PROVE OneJobPerService'
    OBVIOUS
  <2> USE DEF TypeOK, OneJobPerService, Live, Awaits, counters
  <2>1. ASSUME NEW k \in Tasks, Load(k) PROVE OneJobPerService'
    BY <2>1 DEF Load
  <2>2. ASSUME NEW k \in Tasks, PortChecked(k) PROVE OneJobPerService'
    BY <2>2 DEF PortChecked
  <2>3. ASSUME NEW k \in Tasks, PortNotReady(k) PROVE OneJobPerService'
    BY <2>3 DEF PortNotReady, Restart, AtMost
  <2>4. ASSUME NEW k \in Tasks, Healthy(k) PROVE OneJobPerService'
    BY <2>4 DEF Healthy
  <2>5. ASSUME NEW k \in Tasks, Unhealthy(k) PROVE OneJobPerService'
    BY <2>5 DEF Unhealthy, Restart, AtMost
  <2>6. ASSUME NEW k \in Tasks, Restarted(k) PROVE OneJobPerService'
    BY <2>6 DEF Restarted
  <2>7. ASSUME NEW k \in Tasks, RetryRestart(k) PROVE OneJobPerService'
    BY <2>7 DEF RetryRestart, Restart, AtMost
  <2>8. ASSUME NEW k \in Tasks, Stopped(k) PROVE OneJobPerService'
    BY <2>8 DEF Stopped
  <2>9. ASSUME NEW k \in Tasks, NEW d \in 0..1, RestartRaised(k, d) PROVE OneJobPerService'
    BY <2>9 DEF RestartRaised, AtMost
  <2>10. ASSUME NEW s \in Services, NEW k \in Tasks, Start(s, k) PROVE OneJobPerService'
    BY <2>10, NoTaskAssumption DEF Start, Cancelled
  <2>11. ASSUME NEW s \in Services, Stop(s) PROVE OneJobPerService'
    BY <2>11, NoTaskAssumption DEF Stop, Cancelled
  <2>12. ASSUME NEW s \in Services, NEW a \in Answers, AgentChanges(s, a) PROVE OneJobPerService'
    BY <2>12 DEF AgentChanges
  <2>13. CASE UNCHANGED vars
    BY <2>13 DEF vars
  <2>14. QED
    BY <2>1, <2>2, <2>3, <2>4, <2>5, <2>6, <2>7, <2>8, <2>9, <2>10, <2>11, <2>12, <2>13
         DEF Next, Job
<1>3. QED
  BY <1>1, <1>2, TypeCorrect, PTL DEF Spec

\* What relates the counter of _check_health to the probes made since the last
\* restart: a thread outlives only a job that was cancelled, so it never ends
\* under a job that has gone on.
Probes ==
    \A k \in Tasks :
        /\ thread[k] # "none" => at[k] \in {"restart", "stop", "free"}
        /\ at[k] \in {"starting", "waiting"} => unhealthy[k] = 0
        /\ at[k] = "checking" => unhealthy[k] = fails[k]

\* Probes is inductive, given the types.
LEMMA ProbesCounted == Spec => []Probes
<1>1. Init => Probes
  BY DEF Init, Probes
<1>2. TypeOK /\ Probes /\ [Next]_vars => Probes'
  <2> SUFFICES ASSUME TypeOK, Probes, [Next]_vars PROVE Probes'
    OBVIOUS
  <2> USE DEF TypeOK, Awaits, Threads, Probes, counters
  <2>1. ASSUME NEW k \in Tasks, Load(k) PROVE Probes'
    BY <2>1 DEF Load
  <2>2. ASSUME NEW k \in Tasks, PortChecked(k) PROVE Probes'
    BY <2>2 DEF PortChecked
  <2>3. ASSUME NEW k \in Tasks, PortNotReady(k) PROVE Probes'
    BY <2>3 DEF PortNotReady, Restart, AtMost
  <2>4. ASSUME NEW k \in Tasks, Healthy(k) PROVE Probes'
    BY <2>4 DEF Healthy
  <2>5. ASSUME NEW k \in Tasks, Unhealthy(k) PROVE Probes'
    BY <2>5, LimitsAssumption DEF Unhealthy, Restart, AtMost
  <2>6. ASSUME NEW k \in Tasks, Restarted(k) PROVE Probes'
    BY <2>6 DEF Restarted
  <2>7. ASSUME NEW k \in Tasks, RetryRestart(k) PROVE Probes'
    BY <2>7 DEF RetryRestart, Restart, AtMost
  <2>8. ASSUME NEW k \in Tasks, Stopped(k) PROVE Probes'
    BY <2>8 DEF Stopped
  <2>9. ASSUME NEW k \in Tasks, NEW d \in 0..1, RestartRaised(k, d) PROVE Probes'
    BY <2>9 DEF RestartRaised, AtMost
  <2>10. ASSUME NEW s \in Services, NEW k \in Tasks, Start(s, k) PROVE Probes'
    BY <2>10, NoTaskAssumption DEF Start, Cancelled
  <2>11. ASSUME NEW s \in Services, Stop(s) PROVE Probes'
    BY <2>11 DEF Stop, Cancelled
  <2>12. ASSUME NEW s \in Services, NEW a \in Answers, AgentChanges(s, a) PROVE Probes'
    BY <2>12 DEF AgentChanges
  <2>13. CASE UNCHANGED vars
    BY <2>13 DEF vars
  <2>14. QED
    BY <2>1, <2>2, <2>3, <2>4, <2>5, <2>6, <2>7, <2>8, <2>9, <2>10, <2>11, <2>12, <2>13
         DEF Next, Job
<1>3. QED
  BY <1>1, <1>2, TypeCorrect, PTL DEF Spec

\* A restart out of _check_health follows NumberOfFails unhealthy probes in a row
\* made after the last restart.
THEOREM GraceGiven == Spec => GraceAfterRestart
<1> DEFINE Earned ==
       \A k \in Tasks :
         at[k] = "checking" /\ at'[k] = "restart" => unhealthy'[k] = NumberOfFails
<1>1. TypeOK /\ Probes /\ [Next]_vars => [Earned]_vars
  <2> SUFFICES ASSUME TypeOK, Probes, [Next]_vars PROVE [Earned]_vars
    OBVIOUS
  <2> USE DEF TypeOK, Probes, Earned, counters
  <2>1. ASSUME NEW k \in Tasks, Load(k) PROVE Earned
    BY <2>1 DEF Load
  <2>2. ASSUME NEW k \in Tasks, PortChecked(k) PROVE Earned
    BY <2>2 DEF PortChecked
  <2>3. ASSUME NEW k \in Tasks, PortNotReady(k) PROVE Earned
    BY <2>3 DEF PortNotReady, Restart, AtMost
  <2>4. ASSUME NEW k \in Tasks, Healthy(k) PROVE Earned
    BY <2>4 DEF Healthy
  <2>5. ASSUME NEW k \in Tasks, Unhealthy(k) PROVE Earned
    BY <2>5, LimitsAssumption DEF Unhealthy, Restart, AtMost
  <2>6. ASSUME NEW k \in Tasks, Restarted(k) PROVE Earned
    BY <2>6 DEF Restarted
  <2>7. ASSUME NEW k \in Tasks, RetryRestart(k) PROVE Earned
    BY <2>7 DEF RetryRestart, Restart, AtMost
  <2>8. ASSUME NEW k \in Tasks, Stopped(k) PROVE Earned
    BY <2>8 DEF Stopped
  <2>9. ASSUME NEW k \in Tasks, NEW d \in 0..1, RestartRaised(k, d) PROVE Earned
    BY <2>9 DEF RestartRaised, AtMost
  <2>10. ASSUME NEW s \in Services, NEW k \in Tasks, Start(s, k) PROVE Earned
    BY <2>10 DEF Start, Cancelled
  <2>11. ASSUME NEW s \in Services, Stop(s) PROVE Earned
    BY <2>11 DEF Stop, Cancelled
  <2>12. ASSUME NEW s \in Services, NEW a \in Answers, AgentChanges(s, a) PROVE Earned
    BY <2>12 DEF AgentChanges
  <2>13. CASE UNCHANGED vars
    BY <2>13
  <2>14. QED
    BY <2>1, <2>2, <2>3, <2>4, <2>5, <2>6, <2>7, <2>8, <2>9, <2>10, <2>11, <2>12, <2>13
         DEF Next, Job
<1>2. QED
  BY <1>1, TypeCorrect, ProbesCounted, PTL DEF Spec, GraceAfterRestart
=============================================================================
