------------------------ MODULE Deployment_proofs ------------------------
(***************************************************************************)
(* Theorems about Deployment, for any number of services, threads and      *)
(* process ids: its type invariant, that no interleaving of starts, stops,  *)
(* restarts and kills of the daemon wedges a service, that none leaves an   *)
(* agent after the parent's exit, and that the API is served only after     *)
(* every service was stopped.                                               *)
(***************************************************************************)
EXTENDS Deployment, TLAPS

\* The tables of return points lead from points to points.
LEMMA StepTables ==
    /\ \A l \in Stored : AfterStore(l) \in Points
    /\ \A c \in Callers : AfterStopped(c) \in Points /\ AfterStopRaised(c) \in Points
  BY DEF Stored, AfterStore, Callers, AfterStopped, AfterStopRaised, Points, StopSteps

\* The range of the attempts that are left, without arithmetic.
LEMMA TriesRange ==
    /\ {0, StartTries} \subseteq 0..StartTries
    /\ \A n \in 0..StartTries : n > 1 => n - 1 \in 0..StartTries
  BY StartTriesAssumption

\* Type correctness: every variable keeps the values its comment gives it.
THEOREM TypeCorrect == Spec => []TypeOK
<1>1. Init => TypeOK
  <2> SUFFICES ASSUME Init PROVE TypeOK
    OBVIOUS
  <2>1. status \in [Services -> Statuses]
    BY DEF Init, Statuses
  <2>2. tries \in [Threads -> 0..StartTries]
    BY TriesRange DEF Init
  <2>3. QED
    BY <2>1, <2>2 DEF Init, TypeOK, Points, Jobs, States, Callers
<1>2. TypeOK /\ [Next]_vars => TypeOK'
  <2> SUFFICES ASSUME TypeOK, [Next]_vars PROVE TypeOK'
    OBVIOUS
  <2> USE DEF TypeOK, Points, StopSteps, Jobs, Statuses, States, Callers, Stored, files, processes, manager,
              daemon, locals, Goto, Begin, End
  <2>1. ASSUME NEW t \in Threads, Recover(t) PROVE TypeOK'
    BY <2>1 DEF Recover
  <2>2. ASSUME NEW t \in Threads, PauseStopped(t) PROVE TypeOK'
    BY <2>2 DEF PauseStopped
  <2>3. ASSUME NEW t \in Threads, BootDone(t) PROVE TypeOK'
    BY <2>3 DEF BootDone, PauseDone
  <2>4. ASSUME NEW t \in Threads, ShutdownDone(t) PROVE TypeOK'
    BY <2>4 DEF ShutdownDone, PauseDone
  <2>5. ASSUME NEW t \in Threads, ExitDone(t) PROVE TypeOK'
    BY <2>5 DEF ExitDone, PauseDone
  <2>6. ASSUME NEW t \in Threads, DeployPaused(t) PROVE TypeOK'
    BY <2>6 DEF DeployPaused, PauseDone
  <2>7. ASSUME NEW t \in Threads, Onchain(t) PROVE TypeOK'
    BY <2>7 DEF Onchain
  <2>8. ASSUME NEW t \in Threads, MayStop(t) PROVE TypeOK'
    BY <2>8 DEF MayStop
  <2>9. ASSUME NEW t \in Threads, StoreStopping(t) PROVE TypeOK'
    BY <2>9 DEF StoreStopping, SetStatus
  <2>10. ASSUME NEW t \in Threads, StopDone(t) PROVE TypeOK'
    BY <2>10 DEF StopDone, SetStatus
  <2>11. ASSUME NEW t \in Threads, BackToBuilt(t) PROVE TypeOK'
    BY <2>11 DEF BackToBuilt, SetStatus
  <2>12. ASSUME NEW t \in Threads, StoreReturns(t) PROVE TypeOK'
    BY <2>12, StepTables DEF StoreReturns
  <2>13. ASSUME NEW t \in Threads, StoreRaises(t) PROVE TypeOK'
    <3>1. interrupted' \in SUBSET (Services \cup {NoService})
      BY <2>13 DEF StoreRaises
    <3>2. QED
      BY <2>13, <3>1 DEF StoreRaises
  <2>14. ASSUME NEW t \in Threads, StopCheck(t) PROVE TypeOK'
    BY <2>14, StepTables DEF StopCheck
  <2>15. ASSUME NEW t \in Threads, StopSet(t) PROVE TypeOK'
    BY <2>15 DEF StopSet, SetState
  <2>16. ASSUME NEW t \in Threads, KillRecorded(t) PROVE TypeOK'
    BY <2>16 DEF KillRecorded, Kill, Listening
  <2>17. ASSUME NEW t \in Threads, KillRaises(t) PROVE TypeOK'
    BY <2>17 DEF KillRaises
  <2>18. ASSUME NEW t \in Threads, Killed(t) PROVE TypeOK'
    BY <2>18, StepTables DEF Killed, SetState
  <2>19. ASSUME NEW t \in Threads, KillFailed(t) PROVE TypeOK'
    BY <2>19, StepTables DEF KillFailed, SetState
  <2>20. ASSUME NEW t \in Threads, Build(t) PROVE TypeOK'
    BY <2>20 DEF Build
  <2>21. ASSUME NEW t \in Threads, Generate(t) PROVE TypeOK'
    <3>1. status' \in [Services -> Statuses] /\ pc' \in [Threads -> Points]
      BY <2>21 DEF Generate, SetStatus
    <3>2. pidFile' \in [Services -> Pids \cup {NoPid}]
      BY <2>21 DEF Generate
    <3>3. QED
      BY <2>21, <3>1, <3>2 DEF Generate
  <2>22. ASSUME NEW t \in Threads, StartDeployment(t) PROVE TypeOK'
    BY <2>22 DEF StartDeployment, SetStatus
  <2>23. ASSUME NEW t \in Threads, RunDone(t) PROVE TypeOK'
    BY <2>23 DEF RunDone, SetStatus
  <2>24. ASSUME NEW t \in Threads, RunCheck(t) PROVE TypeOK'
    BY <2>24 DEF RunCheck
  <2>25. ASSUME NEW t \in Threads, IpfsFails(t) PROVE TypeOK'
    BY <2>25 DEF IpfsFails
  <2>26. ASSUME NEW t \in Threads, IpfsWorks(t) PROVE TypeOK'
    BY <2>26, TriesRange DEF IpfsWorks, SetState
  <2>27. ASSUME NEW t \in Threads, FreePorts(t) PROVE TypeOK'
    BY <2>27 DEF FreePorts, Kill, Listening
  <2>28. ASSUME NEW t \in Threads, SetupFails(t) PROVE TypeOK'
    BY <2>28, TriesRange DEF SetupFails, Retry
  <2>29. ASSUME NEW t \in Threads, Record(t) PROVE TypeOK'
    BY <2>29, TriesRange DEF Record
  <2>30. ASSUME NEW t \in Threads, RecordFails(t) PROVE TypeOK'
    BY <2>30, TriesRange DEF RecordFails, Kill, Retry
  <2>31. ASSUME NEW t \in Threads, Started(t) PROVE TypeOK'
    BY <2>31 DEF Started, SetState
  <2>32. ASSUME NEW t \in Threads, StartError(t) PROVE TypeOK'
    BY <2>32 DEF StartError, SetState
  <2>33. ASSUME NEW t \in Threads, CheckStopping(t) PROVE TypeOK'
    BY <2>33 DEF CheckStopping
  <2>34. ASSUME NEW t \in Threads, StopEnds(t) PROVE TypeOK'
    BY <2>34 DEF StopEnds
  <2>35. ASSUME NEW t \in Threads, DeployReturns(t) PROVE TypeOK'
    BY <2>35 DEF DeployReturns
  <2>36. ASSUME NEW t \in Threads, DeployFails(t) PROVE TypeOK'
    BY <2>36 DEF DeployFails
  <2>37. ASSUME NEW t \in Threads, RestartStopped(t) PROVE TypeOK'
    BY <2>37 DEF RestartStopped
  <2>38. ASSUME NEW t \in Threads, RestartReturns(t) PROVE TypeOK'
    BY <2>38 DEF RestartReturns, Resume
  <2>39. ASSUME NEW t \in Threads, RestartFails(t) PROVE TypeOK'
    BY <2>39 DEF RestartFails, Resume
  <2>40. ASSUME NEW t \in Threads, GiveUpEnds(t) PROVE TypeOK'
    BY <2>40 DEF GiveUpEnds, Resume
  <2>41. ASSUME NEW t \in Threads, Launch(t) PROVE TypeOK'
    BY <2>41 DEF Launch
  <2>42. ASSUME NEW t \in Threads, RequestShutdown(t) PROVE TypeOK'
    BY <2>42 DEF RequestShutdown
  <2>43. ASSUME NEW t \in Threads, ParentExit(t) PROVE TypeOK'
    BY <2>43 DEF ParentExit
  <2>44. ASSUME NEW t \in Threads, Exit(t) PROVE TypeOK'
    BY <2>44 DEF Exit
  <2>45. ASSUME NEW t \in Threads, NEW s \in Services, PauseSkip(t, s) PROVE TypeOK'
    BY <2>45 DEF PauseSkip
  <2>46. ASSUME NEW t \in Threads, NEW s \in Services, PauseNext(t, s) PROVE TypeOK'
    BY <2>46 DEF PauseNext
  <2>47. ASSUME NEW t \in Threads, NEW s \in Services, RequestDeploy(t, s) PROVE TypeOK'
    BY <2>47 DEF RequestDeploy
  <2>48. ASSUME NEW t \in Threads, NEW s \in Services, RequestStop(t, s) PROVE TypeOK'
    BY <2>48 DEF RequestStop
  <2>49. ASSUME NEW t \in Threads, NEW s \in Services, HealthRestart(t, s) PROVE TypeOK'
    BY <2>49 DEF HealthRestart
  <2>50. ASSUME NEW t \in Threads, NEW s \in Services, HealthGiveUp(t, s) PROVE TypeOK'
    BY <2>50 DEF HealthGiveUp
  <2>51. ASSUME NEW t \in Threads, NEW p \in Pids, Spawn(t, p) PROVE TypeOK'
    BY <2>51 DEF Spawn
  <2>52. ASSUME NEW p \in Pids, AgentListens(p) PROVE TypeOK'
    BY <2>52 DEF AgentListens
  <2>53. ASSUME NEW p \in Pids, AgentDies(p) PROVE TypeOK'
    BY <2>53 DEF AgentDies, Kill
  <2>54. CASE Crash
    BY <2>54, TriesRange DEF Crash
  <2>55. CASE UNCHANGED vars
    BY <2>55 DEF vars
  <2>56. QED
    BY <2>1, <2>2, <2>3, <2>4, <2>5, <2>6, <2>7, <2>8, <2>9, <2>10, <2>11, <2>12, <2>13,
         <2>14, <2>15, <2>16, <2>17, <2>18, <2>19, <2>20, <2>21, <2>22, <2>23, <2>24,
         <2>25, <2>26, <2>27, <2>28, <2>29, <2>30, <2>31, <2>32, <2>33, <2>34, <2>35,
         <2>36, <2>37, <2>38, <2>39, <2>40, <2>41, <2>42, <2>43, <2>44, <2>45, <2>46,
         <2>47, <2>48, <2>49, <2>50, <2>51, <2>52, <2>53, <2>54, <2>55 DEF Next, Run,
         Step, Request
<1>3. QED
  BY <1>1, <1>2, PTL DEF Spec

\* STARTING and STOPPING in DeploymentManager._states always belong to a call
\* that is still running.  Inductive by itself, given the types: every step that
\* leaves the manager writes a state that is not in transition.
THEOREM StateOwned == Spec => []StateIsOwned
<1>1. Init => StateIsOwned
  BY DEF Init, StateIsOwned, InTransition
<1>2. TypeOK /\ StateIsOwned /\ [Next]_vars => StateIsOwned'
  <2> SUFFICES ASSUME TypeOK, StateIsOwned, [Next]_vars PROVE StateIsOwned'
    OBVIOUS
  <2> USE DEF TypeOK, StateIsOwned, InManager, InTransition, files, processes, manager,
       daemon, locals, Goto, Begin, End
  <2>1. ASSUME NEW t \in Threads, Recover(t) PROVE StateIsOwned'
    BY <2>1 DEF Recover
  <2>2. ASSUME NEW t \in Threads, PauseStopped(t) PROVE StateIsOwned'
    BY <2>2 DEF PauseStopped
  <2>3. ASSUME NEW t \in Threads, BootDone(t) PROVE StateIsOwned'
    BY <2>3 DEF BootDone, PauseDone
  <2>4. ASSUME NEW t \in Threads, ShutdownDone(t) PROVE StateIsOwned'
    BY <2>4 DEF ShutdownDone, PauseDone
  <2>5. ASSUME NEW t \in Threads, ExitDone(t) PROVE StateIsOwned'
    BY <2>5 DEF ExitDone, PauseDone
  <2>6. ASSUME NEW t \in Threads, DeployPaused(t) PROVE StateIsOwned'
    BY <2>6 DEF DeployPaused, PauseDone
  <2>7. ASSUME NEW t \in Threads, Onchain(t) PROVE StateIsOwned'
    BY <2>7 DEF Onchain
  <2>8. ASSUME NEW t \in Threads, MayStop(t) PROVE StateIsOwned'
    BY <2>8 DEF MayStop
  <2>9. ASSUME NEW t \in Threads, StoreStopping(t) PROVE StateIsOwned'
    BY <2>9 DEF StoreStopping, SetStatus
  <2>10. ASSUME NEW t \in Threads, StopDone(t) PROVE StateIsOwned'
    BY <2>10 DEF StopDone, SetStatus
  <2>11. ASSUME NEW t \in Threads, BackToBuilt(t) PROVE StateIsOwned'
    BY <2>11 DEF BackToBuilt, SetStatus
  <2>12. ASSUME NEW t \in Threads, StoreReturns(t) PROVE StateIsOwned'
    BY <2>12 DEF StoreReturns, Stored, AfterStore
  <2>13. ASSUME NEW t \in Threads, StoreRaises(t) PROVE StateIsOwned'
    BY <2>13 DEF StoreRaises, Stored
  <2>14. ASSUME NEW t \in Threads, StopCheck(t) PROVE StateIsOwned'
    BY <2>14 DEF StopCheck, AfterStopRaised
  <2>15. ASSUME NEW t \in Threads, StopSet(t) PROVE StateIsOwned'
    BY <2>15 DEF StopSet, SetState
  <2>16. ASSUME NEW t \in Threads, KillRecorded(t) PROVE StateIsOwned'
    BY <2>16 DEF KillRecorded, Kill, Listening
  <2>17. ASSUME NEW t \in Threads, KillRaises(t) PROVE StateIsOwned'
    BY <2>17 DEF KillRaises
  <2>18. ASSUME NEW t \in Threads, Killed(t) PROVE StateIsOwned'
    BY <2>18 DEF Killed, SetState, AfterStopped
  <2>19. ASSUME NEW t \in Threads, KillFailed(t) PROVE StateIsOwned'
    BY <2>19 DEF KillFailed, SetState, AfterStopRaised
  <2>20. ASSUME NEW t \in Threads, Build(t) PROVE StateIsOwned'
    BY <2>20 DEF Build
  <2>21. ASSUME NEW t \in Threads, Generate(t) PROVE StateIsOwned'
    BY <2>21 DEF Generate, SetStatus
  <2>22. ASSUME NEW t \in Threads, StartDeployment(t) PROVE StateIsOwned'
    BY <2>22 DEF StartDeployment, SetStatus
  <2>23. ASSUME NEW t \in Threads, RunDone(t) PROVE StateIsOwned'
    BY <2>23 DEF RunDone, SetStatus
  <2>24. ASSUME NEW t \in Threads, RunCheck(t) PROVE StateIsOwned'
    BY <2>24 DEF RunCheck
  <2>25. ASSUME NEW t \in Threads, IpfsFails(t) PROVE StateIsOwned'
    BY <2>25 DEF IpfsFails
  <2>26. ASSUME NEW t \in Threads, IpfsWorks(t) PROVE StateIsOwned'
    BY <2>26 DEF IpfsWorks, SetState
  <2>27. ASSUME NEW t \in Threads, FreePorts(t) PROVE StateIsOwned'
    BY <2>27 DEF FreePorts, Kill, Listening
  <2>28. ASSUME NEW t \in Threads, SetupFails(t) PROVE StateIsOwned'
    BY <2>28 DEF SetupFails, Retry
  <2>29. ASSUME NEW t \in Threads, Record(t) PROVE StateIsOwned'
    BY <2>29 DEF Record
  <2>30. ASSUME NEW t \in Threads, RecordFails(t) PROVE StateIsOwned'
    BY <2>30 DEF RecordFails, Kill, Retry
  <2>31. ASSUME NEW t \in Threads, Started(t) PROVE StateIsOwned'
    BY <2>31 DEF Started, SetState
  <2>32. ASSUME NEW t \in Threads, StartError(t) PROVE StateIsOwned'
    BY <2>32 DEF StartError, SetState
  <2>33. ASSUME NEW t \in Threads, CheckStopping(t) PROVE StateIsOwned'
    BY <2>33 DEF CheckStopping
  <2>34. ASSUME NEW t \in Threads, StopEnds(t) PROVE StateIsOwned'
    BY <2>34 DEF StopEnds
  <2>35. ASSUME NEW t \in Threads, DeployReturns(t) PROVE StateIsOwned'
    BY <2>35 DEF DeployReturns
  <2>36. ASSUME NEW t \in Threads, DeployFails(t) PROVE StateIsOwned'
    BY <2>36 DEF DeployFails
  <2>37. ASSUME NEW t \in Threads, RestartStopped(t) PROVE StateIsOwned'
    BY <2>37 DEF RestartStopped
  <2>38. ASSUME NEW t \in Threads, RestartReturns(t) PROVE StateIsOwned'
    BY <2>38 DEF RestartReturns, Resume
  <2>39. ASSUME NEW t \in Threads, RestartFails(t) PROVE StateIsOwned'
    BY <2>39 DEF RestartFails, Resume
  <2>40. ASSUME NEW t \in Threads, GiveUpEnds(t) PROVE StateIsOwned'
    BY <2>40 DEF GiveUpEnds, Resume
  <2>41. ASSUME NEW t \in Threads, Launch(t) PROVE StateIsOwned'
    BY <2>41 DEF Launch, Idle
  <2>42. ASSUME NEW t \in Threads, RequestShutdown(t) PROVE StateIsOwned'
    BY <2>42 DEF RequestShutdown, LoopFree, Idle
  <2>43. ASSUME NEW t \in Threads, ParentExit(t) PROVE StateIsOwned'
    BY <2>43 DEF ParentExit, LoopFree, Idle
  <2>44. ASSUME NEW t \in Threads, Exit(t) PROVE StateIsOwned'
    BY <2>44 DEF Exit, AllIdle, Idle
  <2>45. ASSUME NEW t \in Threads, NEW s \in Services, PauseSkip(t, s) PROVE StateIsOwned'
    BY <2>45 DEF PauseSkip
  <2>46. ASSUME NEW t \in Threads, NEW s \in Services, PauseNext(t, s) PROVE StateIsOwned'
    BY <2>46 DEF PauseNext
  <2>47. ASSUME NEW t \in Threads, NEW s \in Services, RequestDeploy(t, s) PROVE StateIsOwned'
    BY <2>47 DEF RequestDeploy, LoopFree, Idle
  <2>48. ASSUME NEW t \in Threads, NEW s \in Services, RequestStop(t, s) PROVE StateIsOwned'
    BY <2>48 DEF RequestStop, LoopFree, Idle
  <2>49. ASSUME NEW t \in Threads, NEW s \in Services, HealthRestart(t, s) PROVE StateIsOwned'
    BY <2>49 DEF HealthRestart, LoopFree, Idle
  <2>50. ASSUME NEW t \in Threads, NEW s \in Services, HealthGiveUp(t, s) PROVE StateIsOwned'
    BY <2>50 DEF HealthGiveUp, LoopFree, Idle
  <2>51. ASSUME NEW t \in Threads, NEW p \in Pids, Spawn(t, p) PROVE StateIsOwned'
    BY <2>51 DEF Spawn
  <2>52. ASSUME NEW p \in Pids, AgentListens(p) PROVE StateIsOwned'
    BY <2>52 DEF AgentListens
  <2>53. ASSUME NEW p \in Pids, AgentDies(p) PROVE StateIsOwned'
    BY <2>53 DEF AgentDies, Kill
  <2>54. CASE Crash
    BY <2>54 DEF Crash
  <2>55. CASE UNCHANGED vars
    BY <2>55 DEF vars
  <2>56. QED
    BY <2>1, <2>2, <2>3, <2>4, <2>5, <2>6, <2>7, <2>8, <2>9, <2>10, <2>11, <2>12, <2>13,
         <2>14, <2>15, <2>16, <2>17, <2>18, <2>19, <2>20, <2>21, <2>22, <2>23, <2>24,
         <2>25, <2>26, <2>27, <2>28, <2>29, <2>30, <2>31, <2>32, <2>33, <2>34, <2>35,
         <2>36, <2>37, <2>38, <2>39, <2>40, <2>41, <2>42, <2>43, <2>44, <2>45, <2>46,
         <2>47, <2>48, <2>49, <2>50, <2>51, <2>52, <2>53, <2>54, <2>55 DEF Next, Run,
         Step, Request
<1>3. QED
  BY <1>1, <1>2, TypeCorrect, PTL DEF Spec

\* Only atexit's thread runs while the daemon exits, and none when it is down.
Phases ==
    /\ phase = "down" => AllIdle
    /\ \A t \in Threads :
         op[t] = "exit" => /\ phase = "exiting" /\ ~Idle(t)
                           /\ \A u \in Threads \ {t} : Idle(u)

\* A daemon that is down runs no thread, and one that exits only that of atexit.
LEMMA DownIsIdle == Spec => []Phases
<1>1. Init => Phases
  BY DEF Init, Phases, AllIdle, Idle
<1>2. TypeOK /\ Phases /\ [Next]_vars => Phases'
  <2> SUFFICES ASSUME TypeOK, Phases, [Next]_vars PROVE Phases'
    OBVIOUS
  <2> USE DEF TypeOK, Phases, AllIdle, Idle, files, processes, manager, daemon, locals,
       Goto, Begin, End
  <2>1. ASSUME NEW t \in Threads, Recover(t) PROVE Phases'
    BY <2>1 DEF Recover
  <2>2. ASSUME NEW t \in Threads, PauseStopped(t) PROVE Phases'
    BY <2>2 DEF PauseStopped
  <2>3. ASSUME NEW t \in Threads, BootDone(t) PROVE Phases'
    BY <2>3 DEF BootDone, PauseDone
  <2>4. ASSUME NEW t \in Threads, ShutdownDone(t) PROVE Phases'
    BY <2>4 DEF ShutdownDone, PauseDone
  <2>5. ASSUME NEW t \in Threads, ExitDone(t) PROVE Phases'
    BY <2>5 DEF ExitDone, PauseDone
  <2>6. ASSUME NEW t \in Threads, DeployPaused(t) PROVE Phases'
    BY <2>6 DEF DeployPaused, PauseDone
  <2>7. ASSUME NEW t \in Threads, Onchain(t) PROVE Phases'
    BY <2>7 DEF Onchain
  <2>8. ASSUME NEW t \in Threads, MayStop(t) PROVE Phases'
    BY <2>8 DEF MayStop
  <2>9. ASSUME NEW t \in Threads, StoreStopping(t) PROVE Phases'
    BY <2>9 DEF StoreStopping, SetStatus
  <2>10. ASSUME NEW t \in Threads, StopDone(t) PROVE Phases'
    BY <2>10 DEF StopDone, SetStatus
  <2>11. ASSUME NEW t \in Threads, BackToBuilt(t) PROVE Phases'
    BY <2>11 DEF BackToBuilt, SetStatus
  <2>12. ASSUME NEW t \in Threads, StoreReturns(t) PROVE Phases'
    BY <2>12 DEF StoreReturns, Stored, AfterStore
  <2>13. ASSUME NEW t \in Threads, StoreRaises(t) PROVE Phases'
    BY <2>13 DEF StoreRaises, Stored
  <2>14. ASSUME NEW t \in Threads, StopCheck(t) PROVE Phases'
    BY <2>14 DEF StopCheck, AfterStopRaised
  <2>15. ASSUME NEW t \in Threads, StopSet(t) PROVE Phases'
    BY <2>15 DEF StopSet, SetState
  <2>16. ASSUME NEW t \in Threads, KillRecorded(t) PROVE Phases'
    BY <2>16 DEF KillRecorded, Kill, Listening
  <2>17. ASSUME NEW t \in Threads, KillRaises(t) PROVE Phases'
    BY <2>17 DEF KillRaises
  <2>18. ASSUME NEW t \in Threads, Killed(t) PROVE Phases'
    BY <2>18 DEF Killed, SetState, AfterStopped, Callers
  <2>19. ASSUME NEW t \in Threads, KillFailed(t) PROVE Phases'
    BY <2>19 DEF KillFailed, SetState, AfterStopRaised
  <2>20. ASSUME NEW t \in Threads, Build(t) PROVE Phases'
    BY <2>20 DEF Build
  <2>21. ASSUME NEW t \in Threads, Generate(t) PROVE Phases'
    BY <2>21 DEF Generate, SetStatus
  <2>22. ASSUME NEW t \in Threads, StartDeployment(t) PROVE Phases'
    BY <2>22 DEF StartDeployment, SetStatus
  <2>23. ASSUME NEW t \in Threads, RunDone(t) PROVE Phases'
    BY <2>23 DEF RunDone, SetStatus
  <2>24. ASSUME NEW t \in Threads, RunCheck(t) PROVE Phases'
    BY <2>24 DEF RunCheck
  <2>25. ASSUME NEW t \in Threads, IpfsFails(t) PROVE Phases'
    BY <2>25 DEF IpfsFails
  <2>26. ASSUME NEW t \in Threads, IpfsWorks(t) PROVE Phases'
    BY <2>26 DEF IpfsWorks, SetState
  <2>27. ASSUME NEW t \in Threads, FreePorts(t) PROVE Phases'
    BY <2>27 DEF FreePorts, Kill, Listening
  <2>28. ASSUME NEW t \in Threads, SetupFails(t) PROVE Phases'
    BY <2>28 DEF SetupFails, Retry
  <2>29. ASSUME NEW t \in Threads, Record(t) PROVE Phases'
    BY <2>29 DEF Record
  <2>30. ASSUME NEW t \in Threads, RecordFails(t) PROVE Phases'
    BY <2>30 DEF RecordFails, Kill, Retry
  <2>31. ASSUME NEW t \in Threads, Started(t) PROVE Phases'
    BY <2>31 DEF Started, SetState
  <2>32. ASSUME NEW t \in Threads, StartError(t) PROVE Phases'
    BY <2>32 DEF StartError, SetState
  <2>33. ASSUME NEW t \in Threads, CheckStopping(t) PROVE Phases'
    BY <2>33 DEF CheckStopping
  <2>34. ASSUME NEW t \in Threads, StopEnds(t) PROVE Phases'
    BY <2>34 DEF StopEnds
  <2>35. ASSUME NEW t \in Threads, DeployReturns(t) PROVE Phases'
    BY <2>35 DEF DeployReturns
  <2>36. ASSUME NEW t \in Threads, DeployFails(t) PROVE Phases'
    BY <2>36 DEF DeployFails
  <2>37. ASSUME NEW t \in Threads, RestartStopped(t) PROVE Phases'
    BY <2>37 DEF RestartStopped
  <2>38. ASSUME NEW t \in Threads, RestartReturns(t) PROVE Phases'
    BY <2>38 DEF RestartReturns, Resume
  <2>39. ASSUME NEW t \in Threads, RestartFails(t) PROVE Phases'
    BY <2>39 DEF RestartFails, Resume
  <2>40. ASSUME NEW t \in Threads, GiveUpEnds(t) PROVE Phases'
    BY <2>40 DEF GiveUpEnds, Resume
  <2>41. ASSUME NEW t \in Threads, Launch(t) PROVE Phases'
    BY <2>41 DEF Launch
  <2>42. ASSUME NEW t \in Threads, RequestShutdown(t) PROVE Phases'
    BY <2>42 DEF RequestShutdown, LoopFree
  <2>43. ASSUME NEW t \in Threads, ParentExit(t) PROVE Phases'
    BY <2>43 DEF ParentExit, LoopFree
  <2>44. ASSUME NEW t \in Threads, Exit(t) PROVE Phases'
    BY <2>44 DEF Exit
  <2>45. ASSUME NEW t \in Threads, NEW s \in Services, PauseSkip(t, s) PROVE Phases'
    BY <2>45 DEF PauseSkip
  <2>46. ASSUME NEW t \in Threads, NEW s \in Services, PauseNext(t, s) PROVE Phases'
    BY <2>46 DEF PauseNext
  <2>47. ASSUME NEW t \in Threads, NEW s \in Services, RequestDeploy(t, s) PROVE Phases'
    BY <2>47 DEF RequestDeploy, LoopFree
  <2>48. ASSUME NEW t \in Threads, NEW s \in Services, RequestStop(t, s) PROVE Phases'
    BY <2>48 DEF RequestStop, LoopFree
  <2>49. ASSUME NEW t \in Threads, NEW s \in Services, HealthRestart(t, s) PROVE Phases'
    BY <2>49 DEF HealthRestart, LoopFree
  <2>50. ASSUME NEW t \in Threads, NEW s \in Services, HealthGiveUp(t, s) PROVE Phases'
    BY <2>50 DEF HealthGiveUp, LoopFree
  <2>51. ASSUME NEW t \in Threads, NEW p \in Pids, Spawn(t, p) PROVE Phases'
    BY <2>51 DEF Spawn
  <2>52. ASSUME NEW p \in Pids, AgentListens(p) PROVE Phases'
    BY <2>52 DEF AgentListens
  <2>53. ASSUME NEW p \in Pids, AgentDies(p) PROVE Phases'
    BY <2>53 DEF AgentDies, Kill
  <2>54. CASE Crash
    BY <2>54 DEF Crash
  <2>55. CASE UNCHANGED vars
    BY <2>55 DEF vars
  <2>56. QED
    BY <2>1, <2>2, <2>3, <2>4, <2>5, <2>6, <2>7, <2>8, <2>9, <2>10, <2>11, <2>12, <2>13,
         <2>14, <2>15, <2>16, <2>17, <2>18, <2>19, <2>20, <2>21, <2>22, <2>23, <2>24,
         <2>25, <2>26, <2>27, <2>28, <2>29, <2>30, <2>31, <2>32, <2>33, <2>34, <2>35,
         <2>36, <2>37, <2>38, <2>39, <2>40, <2>41, <2>42, <2>43, <2>44, <2>45, <2>46,
         <2>47, <2>48, <2>49, <2>50, <2>51, <2>52, <2>53, <2>54, <2>55 DEF Next, Run,
         Step, Request
<1>3. QED
  BY <1>1, <1>2, TypeCorrect, PTL DEF Spec

\* A persisted DEPLOYING or STOPPING always belongs to an operation that is
\* still running and will store another status, wherever the daemon was killed
\* before: Recover repairs what a kill left.
THEOREM TransientOwned == Spec => []TransientIsOwned
<1>1. Init => TransientIsOwned
  BY DEF Init, TransientIsOwned, Recovered
<1>2. TypeOK /\ Phases /\ TransientIsOwned /\ [Next]_vars => TransientIsOwned'
  <2> SUFFICES ASSUME TypeOK, Phases, TransientIsOwned, [Next]_vars PROVE TransientIsOwned'
    OBVIOUS
  <2> USE DEF TypeOK, Phases, AllIdle, Idle, TransientIsOwned, Recovered, InOperation,
       Transient, StopSteps, Callers, files, processes, manager, daemon, locals, Goto,
       Begin, End
  <2>1. ASSUME NEW t \in Threads, Recover(t) PROVE TransientIsOwned'
    BY <2>1 DEF Recover
  <2>2. ASSUME NEW t \in Threads, PauseStopped(t) PROVE TransientIsOwned'
    BY <2>2 DEF PauseStopped
  <2>3. ASSUME NEW t \in Threads, BootDone(t) PROVE TransientIsOwned'
    BY <2>3 DEF BootDone, PauseDone
  <2>4. ASSUME NEW t \in Threads, ShutdownDone(t) PROVE TransientIsOwned'
    BY <2>4 DEF ShutdownDone, PauseDone
  <2>5. ASSUME NEW t \in Threads, ExitDone(t) PROVE TransientIsOwned'
    BY <2>5 DEF ExitDone, PauseDone
  <2>6. ASSUME NEW t \in Threads, DeployPaused(t) PROVE TransientIsOwned'
    BY <2>6 DEF DeployPaused, PauseDone
  <2>7. ASSUME NEW t \in Threads, Onchain(t) PROVE TransientIsOwned'
    BY <2>7 DEF Onchain
  <2>8. ASSUME NEW t \in Threads, MayStop(t) PROVE TransientIsOwned'
    BY <2>8 DEF MayStop
  <2>9. ASSUME NEW t \in Threads, StoreStopping(t) PROVE TransientIsOwned'
    BY <2>9 DEF StoreStopping, SetStatus
  <2>10. ASSUME NEW t \in Threads, StopDone(t) PROVE TransientIsOwned'
    BY <2>10 DEF StopDone, SetStatus
  <2>11. ASSUME NEW t \in Threads, BackToBuilt(t) PROVE TransientIsOwned'
    BY <2>11 DEF BackToBuilt, SetStatus
  <2>12. ASSUME NEW t \in Threads, StoreReturns(t) PROVE TransientIsOwned'
    BY <2>12 DEF StoreReturns, Stored, AfterStore
  <2>13. ASSUME NEW t \in Threads, StoreRaises(t) PROVE TransientIsOwned'
    BY <2>13 DEF StoreRaises, Stored
  <2>14. ASSUME NEW t \in Threads, StopCheck(t) PROVE TransientIsOwned'
    BY <2>14 DEF StopCheck, AfterStopRaised
  <2>15. ASSUME NEW t \in Threads, StopSet(t) PROVE TransientIsOwned'
    BY <2>15 DEF StopSet, SetState
  <2>16. ASSUME NEW t \in Threads, KillRecorded(t) PROVE TransientIsOwned'
    BY <2>16 DEF KillRecorded, Kill, Listening
  <2>17. ASSUME NEW t \in Threads, KillRaises(t) PROVE TransientIsOwned'
    BY <2>17 DEF KillRaises
  <2>18. ASSUME NEW t \in Threads, Killed(t) PROVE TransientIsOwned'
    BY <2>18 DEF Killed, SetState, AfterStopped
  <2>19. ASSUME NEW t \in Threads, KillFailed(t) PROVE TransientIsOwned'
    BY <2>19 DEF KillFailed, SetState, AfterStopRaised
  <2>20. ASSUME NEW t \in Threads, Build(t) PROVE TransientIsOwned'
    BY <2>20 DEF Build
  <2>21. ASSUME NEW t \in Threads, Generate(t) PROVE TransientIsOwned'
    BY <2>21 DEF Generate, SetStatus
  <2>22. ASSUME NEW t \in Threads, StartDeployment(t) PROVE TransientIsOwned'
    BY <2>22 DEF StartDeployment, SetStatus
  <2>23. ASSUME NEW t \in Threads, RunDone(t) PROVE TransientIsOwned'
    BY <2>23 DEF RunDone, SetStatus
  <2>24. ASSUME NEW t \in Threads, RunCheck(t) PROVE TransientIsOwned'
    BY <2>24 DEF RunCheck
  <2>25. ASSUME NEW t \in Threads, IpfsFails(t) PROVE TransientIsOwned'
    BY <2>25 DEF IpfsFails
  <2>26. ASSUME NEW t \in Threads, IpfsWorks(t) PROVE TransientIsOwned'
    BY <2>26 DEF IpfsWorks, SetState
  <2>27. ASSUME NEW t \in Threads, FreePorts(t) PROVE TransientIsOwned'
    BY <2>27 DEF FreePorts, Kill, Listening
  <2>28. ASSUME NEW t \in Threads, SetupFails(t) PROVE TransientIsOwned'
    BY <2>28 DEF SetupFails, Retry
  <2>29. ASSUME NEW t \in Threads, Record(t) PROVE TransientIsOwned'
    BY <2>29 DEF Record
  <2>30. ASSUME NEW t \in Threads, RecordFails(t) PROVE TransientIsOwned'
    BY <2>30 DEF RecordFails, Kill, Retry
  <2>31. ASSUME NEW t \in Threads, Started(t) PROVE TransientIsOwned'
    BY <2>31 DEF Started, SetState
  <2>32. ASSUME NEW t \in Threads, StartError(t) PROVE TransientIsOwned'
    BY <2>32 DEF StartError, SetState
  <2>33. ASSUME NEW t \in Threads, CheckStopping(t) PROVE TransientIsOwned'
    BY <2>33 DEF CheckStopping
  <2>34. ASSUME NEW t \in Threads, StopEnds(t) PROVE TransientIsOwned'
    BY <2>34 DEF StopEnds
  <2>35. ASSUME NEW t \in Threads, DeployReturns(t) PROVE TransientIsOwned'
    BY <2>35 DEF DeployReturns
  <2>36. ASSUME NEW t \in Threads, DeployFails(t) PROVE TransientIsOwned'
    BY <2>36 DEF DeployFails
  <2>37. ASSUME NEW t \in Threads, RestartStopped(t) PROVE TransientIsOwned'
    BY <2>37 DEF RestartStopped
  <2>38. ASSUME NEW t \in Threads, RestartReturns(t) PROVE TransientIsOwned'
    BY <2>38 DEF RestartReturns, Resume
  <2>39. ASSUME NEW t \in Threads, RestartFails(t) PROVE TransientIsOwned'
    BY <2>39 DEF RestartFails, Resume
  <2>40. ASSUME NEW t \in Threads, GiveUpEnds(t) PROVE TransientIsOwned'
    BY <2>40 DEF GiveUpEnds, Resume
  <2>41. ASSUME NEW t \in Threads, Launch(t) PROVE TransientIsOwned'
    BY <2>41 DEF Launch, Idle
  <2>42. ASSUME NEW t \in Threads, RequestShutdown(t) PROVE TransientIsOwned'
    BY <2>42 DEF RequestShutdown, LoopFree, Idle
  <2>43. ASSUME NEW t \in Threads, ParentExit(t) PROVE TransientIsOwned'
    BY <2>43 DEF ParentExit, LoopFree, Idle
  <2>44. ASSUME NEW t \in Threads, Exit(t) PROVE TransientIsOwned'
    BY <2>44 DEF Exit, AllIdle, Idle
  <2>45. ASSUME NEW t \in Threads, NEW s \in Services, PauseSkip(t, s) PROVE TransientIsOwned'
    BY <2>45 DEF PauseSkip
  <2>46. ASSUME NEW t \in Threads, NEW s \in Services, PauseNext(t, s) PROVE TransientIsOwned'
    BY <2>46 DEF PauseNext
  <2>47. ASSUME NEW t \in Threads, NEW s \in Services, RequestDeploy(t, s) PROVE TransientIsOwned'
    BY <2>47 DEF RequestDeploy, LoopFree, Idle
  <2>48. ASSUME NEW t \in Threads, NEW s \in Services, RequestStop(t, s) PROVE TransientIsOwned'
    BY <2>48 DEF RequestStop, LoopFree, Idle
  <2>49. ASSUME NEW t \in Threads, NEW s \in Services, HealthRestart(t, s) PROVE TransientIsOwned'
    BY <2>49 DEF HealthRestart, LoopFree, Idle
  <2>50. ASSUME NEW t \in Threads, NEW s \in Services, HealthGiveUp(t, s) PROVE TransientIsOwned'
    BY <2>50 DEF HealthGiveUp, LoopFree, Idle
  <2>51. ASSUME NEW t \in Threads, NEW p \in Pids, Spawn(t, p) PROVE TransientIsOwned'
    BY <2>51 DEF Spawn
  <2>52. ASSUME NEW p \in Pids, AgentListens(p) PROVE TransientIsOwned'
    BY <2>52 DEF AgentListens
  <2>53. ASSUME NEW p \in Pids, AgentDies(p) PROVE TransientIsOwned'
    BY <2>53 DEF AgentDies, Kill
  <2>54. CASE Crash
    BY <2>54 DEF Crash
  <2>55. CASE UNCHANGED vars
    BY <2>55 DEF vars
  <2>56. QED
    BY <2>1, <2>2, <2>3, <2>4, <2>5, <2>6, <2>7, <2>8, <2>9, <2>10, <2>11, <2>12, <2>13,
         <2>14, <2>15, <2>16, <2>17, <2>18, <2>19, <2>20, <2>21, <2>22, <2>23, <2>24,
         <2>25, <2>26, <2>27, <2>28, <2>29, <2>30, <2>31, <2>32, <2>33, <2>34, <2>35,
         <2>36, <2>37, <2>38, <2>39, <2>40, <2>41, <2>42, <2>43, <2>44, <2>45, <2>46,
         <2>47, <2>48, <2>49, <2>50, <2>51, <2>52, <2>53, <2>54, <2>55 DEF Next, Run,
         Step, Request
<1>3. QED
  BY <1>1, <1>2, TypeCorrect, DownIsIdle, PTL DEF Spec

\* No wedge: a service nobody works on is neither in a transient status nor in
\* transition in the manager, so both its start and its stop are accepted.
THEOREM NeverWedged == Spec => []NoWedge
<1>1. TransientIsOwned /\ StateIsOwned => NoWedge
  BY DEF TransientIsOwned, StateIsOwned, NoWedge, InOperation, InManager, Idle, StopSteps
<1>2. QED
  BY <1>1, TransientOwned, StateOwned, PTL

\* Where the thread that boots the daemon may be.
BootPoints == {"recover", "pause", "storeStopping", "stopDone", "backToBuilt", "returned", "failed",
               "storedStopping", "storedStopped", "storedBack"} \cup StopSteps

\* Only the boot thread works while the daemon boots, and the parent's exit is
\* noticed later.
Booting ==
    /\ \A t \in Threads : pc[t] = "recover" => phase = "booting"
    /\ isStopping => phase \in {"serving", "exiting"}
    /\ phase = "booting" =>
         \A t \in Threads : ~Idle(t) =>
             /\ op[t] = "boot" /\ pc[t] \in BootPoints
             /\ pc[t] \in StopSteps \cup {"storedStopping"} => caller[t] = "stop"
             /\ pc[t] \in StopSteps \cup {"storeStopping", "storedStopping"} => svc[t] \in Services
             /\ \A u \in Threads \ {t} : Idle(u)

\* The boot thread works alone and stops services as the one caller of the manager;
\* nobody boots after the parent's exit.
LEMMA BootsAlone == Spec => []Booting
<1>1. Init => Booting
  BY DEF Init, Booting, BootPoints, Phases, AllIdle, Idle, StopSteps
<1>2. TypeOK /\ Phases /\ Booting /\ [Next]_vars => Booting'
  <2> SUFFICES ASSUME TypeOK, Phases, Booting, [Next]_vars PROVE Booting'
    OBVIOUS
  <2> USE DEF TypeOK, Booting, BootPoints, Phases, AllIdle, Idle, StopSteps, files, processes, manager,
       daemon, locals, Goto, Begin, End
  <2>1. ASSUME NEW t \in Threads, Recover(t) PROVE Booting'
    BY <2>1 DEF Recover
  <2>2. ASSUME NEW t \in Threads, PauseStopped(t) PROVE Booting'
    BY <2>2 DEF PauseStopped
  <2>3. ASSUME NEW t \in Threads, BootDone(t) PROVE Booting'
    BY <2>3 DEF BootDone, PauseDone
  <2>4. ASSUME NEW t \in Threads, ShutdownDone(t) PROVE Booting'
    BY <2>4 DEF ShutdownDone, PauseDone
  <2>5. ASSUME NEW t \in Threads, ExitDone(t) PROVE Booting'
    BY <2>5 DEF ExitDone, PauseDone
  <2>6. ASSUME NEW t \in Threads, DeployPaused(t) PROVE Booting'
    BY <2>6 DEF DeployPaused, PauseDone
  <2>7. ASSUME NEW t \in Threads, Onchain(t) PROVE Booting'
    BY <2>7 DEF Onchain
  <2>8. ASSUME NEW t \in Threads, MayStop(t) PROVE Booting'
    BY <2>8 DEF MayStop
  <2>9. ASSUME NEW t \in Threads, StoreStopping(t) PROVE Booting'
    BY <2>9 DEF StoreStopping, SetStatus
  <2>10. ASSUME NEW t \in Threads, StopDone(t) PROVE Booting'
    BY <2>10 DEF StopDone, SetStatus
  <2>11. ASSUME NEW t \in Threads, BackToBuilt(t) PROVE Booting'
    BY <2>11 DEF BackToBuilt, SetStatus
  <2>12. ASSUME NEW t \in Threads, StoreReturns(t) PROVE Booting'
    BY <2>12 DEF StoreReturns, Stored, AfterStore
  <2>13. ASSUME NEW t \in Threads, StoreRaises(t) PROVE Booting'
    BY <2>13 DEF StoreRaises, Stored
  <2>14. ASSUME NEW t \in Threads, StopCheck(t) PROVE Booting'
    BY <2>14 DEF StopCheck, AfterStopRaised
  <2>15. ASSUME NEW t \in Threads, StopSet(t) PROVE Booting'
    BY <2>15 DEF StopSet, SetState
  <2>16. ASSUME NEW t \in Threads, KillRecorded(t) PROVE Booting'
    BY <2>16 DEF KillRecorded, Kill, Listening
  <2>17. ASSUME NEW t \in Threads, KillRaises(t) PROVE Booting'
    BY <2>17 DEF KillRaises
  <2>18. ASSUME NEW t \in Threads, Killed(t) PROVE Booting'
    BY <2>18 DEF Killed, SetState, AfterStopped, Callers
  <2>19. ASSUME NEW t \in Threads, KillFailed(t) PROVE Booting'
    BY <2>19 DEF KillFailed, SetState, AfterStopRaised
  <2>20. ASSUME NEW t \in Threads, Build(t) PROVE Booting'
    BY <2>20 DEF Build
  <2>21. ASSUME NEW t \in Threads, Generate(t) PROVE Booting'
    BY <2>21 DEF Generate, SetStatus
  <2>22. ASSUME NEW t \in Threads, StartDeployment(t) PROVE Booting'
    BY <2>22 DEF StartDeployment, SetStatus
  <2>23. ASSUME NEW t \in Threads, RunDone(t) PROVE Booting'
    BY <2>23 DEF RunDone, SetStatus
  <2>24. ASSUME NEW t \in Threads, RunCheck(t) PROVE Booting'
    BY <2>24 DEF RunCheck
  <2>25. ASSUME NEW t \in Threads, IpfsFails(t) PROVE Booting'
    BY <2>25 DEF IpfsFails
  <2>26. ASSUME NEW t \in Threads, IpfsWorks(t) PROVE Booting'
    BY <2>26 DEF IpfsWorks, SetState
  <2>27. ASSUME NEW t \in Threads, FreePorts(t) PROVE Booting'
    BY <2>27 DEF FreePorts, Kill, Listening
  <2>28. ASSUME NEW t \in Threads, SetupFails(t) PROVE Booting'
    BY <2>28 DEF SetupFails, Retry
  <2>29. ASSUME NEW t \in Threads, Record(t) PROVE Booting'
    BY <2>29 DEF Record
  <2>30. ASSUME NEW t \in Threads, RecordFails(t) PROVE Booting'
    BY <2>30 DEF RecordFails, Kill, Retry
  <2>31. ASSUME NEW t \in Threads, Started(t) PROVE Booting'
    BY <2>31 DEF Started, SetState
  <2>32. ASSUME NEW t \in Threads, StartError(t) PROVE Booting'
    BY <2>32 DEF StartError, SetState
  <2>33. ASSUME NEW t \in Threads, CheckStopping(t) PROVE Booting'
    BY <2>33 DEF CheckStopping
  <2>34. ASSUME NEW t \in Threads, StopEnds(t) PROVE Booting'
    BY <2>34 DEF StopEnds
  <2>35. ASSUME NEW t \in Threads, DeployReturns(t) PROVE Booting'
    BY <2>35 DEF DeployReturns
  <2>36. ASSUME NEW t \in Threads, DeployFails(t) PROVE Booting'
    BY <2>36 DEF DeployFails
  <2>37. ASSUME NEW t \in Threads, RestartStopped(t) PROVE Booting'
    BY <2>37 DEF RestartStopped
  <2>38. ASSUME NEW t \in Threads, RestartReturns(t) PROVE Booting'
    BY <2>38 DEF RestartReturns, Resume
  <2>39. ASSUME NEW t \in Threads, RestartFails(t) PROVE Booting'
    BY <2>39 DEF RestartFails, Resume
  <2>40. ASSUME NEW t \in Threads, GiveUpEnds(t) PROVE Booting'
    BY <2>40 DEF GiveUpEnds, Resume
  <2>41. ASSUME NEW t \in Threads, Launch(t) PROVE Booting'
    BY <2>41 DEF Launch, Idle
  <2>42. ASSUME NEW t \in Threads, RequestShutdown(t) PROVE Booting'
    BY <2>42 DEF RequestShutdown, LoopFree, Idle
  <2>43. ASSUME NEW t \in Threads, ParentExit(t) PROVE Booting'
    BY <2>43 DEF ParentExit, LoopFree, Idle
  <2>44. ASSUME NEW t \in Threads, Exit(t) PROVE Booting'
    BY <2>44 DEF Exit, AllIdle, Idle
  <2>45. ASSUME NEW t \in Threads, NEW s \in Services, PauseSkip(t, s) PROVE Booting'
    BY <2>45 DEF PauseSkip
  <2>46. ASSUME NEW t \in Threads, NEW s \in Services, PauseNext(t, s) PROVE Booting'
    BY <2>46 DEF PauseNext
  <2>47. ASSUME NEW t \in Threads, NEW s \in Services, RequestDeploy(t, s) PROVE Booting'
    BY <2>47 DEF RequestDeploy, LoopFree, Idle
  <2>48. ASSUME NEW t \in Threads, NEW s \in Services, RequestStop(t, s) PROVE Booting'
    BY <2>48 DEF RequestStop, LoopFree, Idle
  <2>49. ASSUME NEW t \in Threads, NEW s \in Services, HealthRestart(t, s) PROVE Booting'
    BY <2>49 DEF HealthRestart, LoopFree, Idle
  <2>50. ASSUME NEW t \in Threads, NEW s \in Services, HealthGiveUp(t, s) PROVE Booting'
    BY <2>50 DEF HealthGiveUp, LoopFree, Idle
  <2>51. ASSUME NEW t \in Threads, NEW p \in Pids, Spawn(t, p) PROVE Booting'
    BY <2>51 DEF Spawn
  <2>52. ASSUME NEW p \in Pids, AgentListens(p) PROVE Booting'
    BY <2>52 DEF AgentListens
  <2>53. ASSUME NEW p \in Pids, AgentDies(p) PROVE Booting'
    BY <2>53 DEF AgentDies, Kill
  <2>54. CASE Crash
    BY <2>54 DEF Crash
  <2>55. CASE UNCHANGED vars
    BY <2>55 DEF vars
  <2>56. QED
    BY <2>1, <2>2, <2>3, <2>4, <2>5, <2>6, <2>7, <2>8, <2>9, <2>10, <2>11, <2>12, <2>13,
         <2>14, <2>15, <2>16, <2>17, <2>18, <2>19, <2>20, <2>21, <2>22, <2>23, <2>24,
         <2>25, <2>26, <2>27, <2>28, <2>29, <2>30, <2>31, <2>32, <2>33, <2>34, <2>35,
         <2>36, <2>37, <2>38, <2>39, <2>40, <2>41, <2>42, <2>43, <2>44, <2>45, <2>46,
         <2>47, <2>48, <2>49, <2>50, <2>51, <2>52, <2>53, <2>54, <2>55 DEF Next, Run,
         Step, Request
<1>3. QED
  BY <1>1, <1>2, TypeCorrect, DownIsIdle, PTL DEF Spec

\* What the boot makes of a service that exists.
Stopped(s) == status[s] \in {"BUILT", "DELETED"} /\ (status[s] = "BUILT" => pidFile[s] = NoPid)

\* Thread t has begun to stop s and not killed its agent; or has, and not stored it.
Stopping(t, s) == svc[t] = s /\ pc[t] \in {"storeStopping", "storedStopping", "stopCheck", "stopSet", "kill"}
KilledBy(t, s) == svc[t] = s /\ pc[t] \in {"killed", "killFailed", "stopDone", "backToBuilt"}

\* What the boot thread has taken off its list is stopped, or about to be.
BootStops ==
    phase = "booting" =>
        \A t \in Threads : ~Idle(t) /\ pc[t] # "recover" =>
            \A s \in Services \ todo[t] :
                \/ Stopping(t, s)
                \/ KilledBy(t, s) /\ pidFile[s] = NoPid
                \/ ~KilledBy(t, s) /\ Stopped(s)

\* The boot goes through every service. Its stops are not refused, because nobody
\* else is in the manager, and no store of theirs meets another thread's.
LEMMA BootStopsAll == Spec => []BootStops
<1>1. Init => BootStops
  BY DEF Init, Booting, BootPoints, BootStops, Stopped, Stopping, KilledBy, StopSteps, Phases, AllIdle, Idle
<1>2. TypeOK /\ Phases /\ Booting /\ StateIsOwned /\ BootStops /\ [Next]_vars => BootStops'
  <2> SUFFICES ASSUME TypeOK, Phases, Booting, StateIsOwned, BootStops, [Next]_vars PROVE BootStops'
    OBVIOUS
  <2> USE DEF TypeOK, Booting, BootPoints, BootStops, Stopped, Stopping, KilledBy, StopSteps, Phases, AllIdle, Idle, files, processes, manager,
       daemon, locals, Goto, Begin, End
  <2>1. ASSUME NEW t \in Threads, Recover(t) PROVE BootStops'
    BY <2>1 DEF Recover
  <2>2. ASSUME NEW t \in Threads, PauseStopped(t) PROVE BootStops'
    BY <2>2 DEF PauseStopped
  <2>3. ASSUME NEW t \in Threads, BootDone(t) PROVE BootStops'
    BY <2>3 DEF BootDone, PauseDone
  <2>4. ASSUME NEW t \in Threads, ShutdownDone(t) PROVE BootStops'
    BY <2>4 DEF ShutdownDone, PauseDone
  <2>5. ASSUME NEW t \in Threads, ExitDone(t) PROVE BootStops'
    BY <2>5 DEF ExitDone, PauseDone
  <2>6. ASSUME NEW t \in Threads, DeployPaused(t) PROVE BootStops'
    BY <2>6 DEF DeployPaused, PauseDone
  <2>7. ASSUME NEW t \in Threads, Onchain(t) PROVE BootStops'
    BY <2>7 DEF Onchain
  <2>8. ASSUME NEW t \in Threads, MayStop(t) PROVE BootStops'
    BY <2>8 DEF MayStop
  <2>9. ASSUME NEW t \in Threads, StoreStopping(t) PROVE BootStops'
    BY <2>9 DEF StoreStopping, SetStatus
  <2>10. ASSUME NEW t \in Threads, StopDone(t) PROVE BootStops'
    BY <2>10 DEF StopDone, SetStatus
  <2>11. ASSUME NEW t \in Threads, BackToBuilt(t) PROVE BootStops'
    BY <2>11 DEF BackToBuilt, SetStatus
  <2>12. ASSUME NEW t \in Threads, StoreReturns(t) PROVE BootStops'
    BY <2>12 DEF StoreReturns, Stored, AfterStore
  <2>13. ASSUME NEW t \in Threads, StoreRaises(t) PROVE BootStops'
    BY <2>13 DEF StoreRaises, Stored
  <2>14. ASSUME NEW t \in Threads, StopCheck(t) PROVE BootStops'
    <3> SUFFICES ASSUME phase = "booting" PROVE BootStops'
      BY <2>14 DEF StopCheck
    <3>1. \A u \in Threads \ {t} : Idle(u)
      BY <2>14 DEF StopCheck
    <3>2. mgr[svc[t]] \notin InTransition
      <4> SUFFICES ASSUME mgr[svc[t]] \in InTransition PROVE FALSE
        OBVIOUS
      <4>1. svc[t] \in Services
        BY <2>14, <3>1 DEF StopCheck
      <4>2. PICK u \in Threads : InManager(u)
        BY <4>1 DEF StateIsOwned
      <4>3. QED
        BY <2>14, <3>1, <4>2 DEF InManager, StopCheck
    <3>3. pc' = [pc EXCEPT ![t] = "stopSet"]
      BY <2>14, <3>2 DEF StopCheck
    <3>4. QED
      BY <2>14, <3>1, <3>3 DEF StopCheck
  <2>15. ASSUME NEW t \in Threads, StopSet(t) PROVE BootStops'
    BY <2>15 DEF StopSet, SetState
  <2>16. ASSUME NEW t \in Threads, KillRecorded(t) PROVE BootStops'
    BY <2>16 DEF KillRecorded, Kill, Listening
  <2>17. ASSUME NEW t \in Threads, KillRaises(t) PROVE BootStops'
    BY <2>17 DEF KillRaises
  <2>18. ASSUME NEW t \in Threads, Killed(t) PROVE BootStops'
    BY <2>18 DEF Killed, SetState, AfterStopped, Callers
  <2>19. ASSUME NEW t \in Threads, KillFailed(t) PROVE BootStops'
    BY <2>19 DEF KillFailed, SetState, AfterStopRaised
  <2>20. ASSUME NEW t \in Threads, Build(t) PROVE BootStops'
    BY <2>20 DEF Build
  <2>21. ASSUME NEW t \in Threads, Generate(t) PROVE BootStops'
    BY <2>21 DEF Generate, SetStatus
  <2>22. ASSUME NEW t \in Threads, StartDeployment(t) PROVE BootStops'
    BY <2>22 DEF StartDeployment, SetStatus
  <2>23. ASSUME NEW t \in Threads, RunDone(t) PROVE BootStops'
    BY <2>23 DEF RunDone, SetStatus
  <2>24. ASSUME NEW t \in Threads, RunCheck(t) PROVE BootStops'
    BY <2>24 DEF RunCheck
  <2>25. ASSUME NEW t \in Threads, IpfsFails(t) PROVE BootStops'
    BY <2>25 DEF IpfsFails
  <2>26. ASSUME NEW t \in Threads, IpfsWorks(t) PROVE BootStops'
    BY <2>26 DEF IpfsWorks, SetState
  <2>27. ASSUME NEW t \in Threads, FreePorts(t) PROVE BootStops'
    BY <2>27 DEF FreePorts, Kill, Listening
  <2>28. ASSUME NEW t \in Threads, SetupFails(t) PROVE BootStops'
    BY <2>28 DEF SetupFails, Retry
  <2>29. ASSUME NEW t \in Threads, Record(t) PROVE BootStops'
    BY <2>29 DEF Record
  <2>30. ASSUME NEW t \in Threads, RecordFails(t) PROVE BootStops'
    BY <2>30 DEF RecordFails, Kill, Retry
  <2>31. ASSUME NEW t \in Threads, Started(t) PROVE BootStops'
    BY <2>31 DEF Started, SetState
  <2>32. ASSUME NEW t \in Threads, StartError(t) PROVE BootStops'
    BY <2>32 DEF StartError, SetState
  <2>33. ASSUME NEW t \in Threads, CheckStopping(t) PROVE BootStops'
    BY <2>33 DEF CheckStopping
  <2>34. ASSUME NEW t \in Threads, StopEnds(t) PROVE BootStops'
    BY <2>34 DEF StopEnds
  <2>35. ASSUME NEW t \in Threads, DeployReturns(t) PROVE BootStops'
    BY <2>35 DEF DeployReturns
  <2>36. ASSUME NEW t \in Threads, DeployFails(t) PROVE BootStops'
    BY <2>36 DEF DeployFails
  <2>37. ASSUME NEW t \in Threads, RestartStopped(t) PROVE BootStops'
    BY <2>37 DEF RestartStopped
  <2>38. ASSUME NEW t \in Threads, RestartReturns(t) PROVE BootStops'
    BY <2>38 DEF RestartReturns, Resume
  <2>39. ASSUME NEW t \in Threads, RestartFails(t) PROVE BootStops'
    BY <2>39 DEF RestartFails, Resume
  <2>40. ASSUME NEW t \in Threads, GiveUpEnds(t) PROVE BootStops'
    BY <2>40 DEF GiveUpEnds, Resume
  <2>41. ASSUME NEW t \in Threads, Launch(t) PROVE BootStops'
    BY <2>41 DEF Launch, Idle
  <2>42. ASSUME NEW t \in Threads, RequestShutdown(t) PROVE BootStops'
    BY <2>42 DEF RequestShutdown, LoopFree, Idle
  <2>43. ASSUME NEW t \in Threads, ParentExit(t) PROVE BootStops'
    BY <2>43 DEF ParentExit, LoopFree, Idle
  <2>44. ASSUME NEW t \in Threads, Exit(t) PROVE BootStops'
    BY <2>44 DEF Exit, AllIdle, Idle
  <2>45. ASSUME NEW t \in Threads, NEW s \in Services, PauseSkip(t, s) PROVE BootStops'
    BY <2>45 DEF PauseSkip
  <2>46. ASSUME NEW t \in Threads, NEW s \in Services, PauseNext(t, s) PROVE BootStops'
    BY <2>46 DEF PauseNext
  <2>47. ASSUME NEW t \in Threads, NEW s \in Services, RequestDeploy(t, s) PROVE BootStops'
    BY <2>47 DEF RequestDeploy, LoopFree, Idle
  <2>48. ASSUME NEW t \in Threads, NEW s \in Services, RequestStop(t, s) PROVE BootStops'
    BY <2>48 DEF RequestStop, LoopFree, Idle
  <2>49. ASSUME NEW t \in Threads, NEW s \in Services, HealthRestart(t, s) PROVE BootStops'
    BY <2>49 DEF HealthRestart, LoopFree, Idle
  <2>50. ASSUME NEW t \in Threads, NEW s \in Services, HealthGiveUp(t, s) PROVE BootStops'
    BY <2>50 DEF HealthGiveUp, LoopFree, Idle
  <2>51. ASSUME NEW t \in Threads, NEW p \in Pids, Spawn(t, p) PROVE BootStops'
    BY <2>51 DEF Spawn
  <2>52. ASSUME NEW p \in Pids, AgentListens(p) PROVE BootStops'
    BY <2>52 DEF AgentListens
  <2>53. ASSUME NEW p \in Pids, AgentDies(p) PROVE BootStops'
    BY <2>53 DEF AgentDies, Kill
  <2>54. CASE Crash
    BY <2>54 DEF Crash
  <2>55. CASE UNCHANGED vars
    BY <2>55 DEF vars
  <2>56. QED
    BY <2>1, <2>2, <2>3, <2>4, <2>5, <2>6, <2>7, <2>8, <2>9, <2>10, <2>11, <2>12, <2>13,
         <2>14, <2>15, <2>16, <2>17, <2>18, <2>19, <2>20, <2>21, <2>22, <2>23, <2>24,
         <2>25, <2>26, <2>27, <2>28, <2>29, <2>30, <2>31, <2>32, <2>33, <2>34, <2>35,
         <2>36, <2>37, <2>38, <2>39, <2>40, <2>41, <2>42, <2>43, <2>44, <2>45, <2>46,
         <2>47, <2>48, <2>49, <2>50, <2>51, <2>52, <2>53, <2>54, <2>55 DEF Next, Run,
         Step, Request
<1>3. QED
  BY <1>1, <1>2, TypeCorrect, DownIsIdle, BootsAlone, StateOwned, PTL DEF Spec

\* While the manager has a service in transition and a PID file records its
\* agent, somebody will kill the agent or is starting it.
RecordedInTransit ==
    \A s \in Services :
        mgr[s] \in InTransition /\ pidFile[s] # NoPid =>
            \E t \in Threads : /\ svc[t] = s
                               /\ pc[t] \in {"kill", "free", "spawn", "record", "started", "startError"}

\* Inductive by itself: a step that sets a state in transition, or writes a PID
\* file, is followed by those that kill the agent or set another state.
LEMMA TransitsRecorded == Spec => []RecordedInTransit
<1>1. Init => RecordedInTransit
  BY DEF Init, RecordedInTransit, InTransition, Idle, AllIdle
<1>2. TypeOK /\ RecordedInTransit /\ [Next]_vars => RecordedInTransit'
  <2> SUFFICES ASSUME TypeOK, RecordedInTransit, [Next]_vars PROVE RecordedInTransit'
    OBVIOUS
  <2> USE DEF TypeOK, RecordedInTransit, InTransition, Idle, AllIdle, files, processes, manager,
       daemon, locals, Goto, Begin, End
  <2>1. ASSUME NEW t \in Threads, Recover(t) PROVE RecordedInTransit'
    BY <2>1 DEF Recover
  <2>2. ASSUME NEW t \in Threads, PauseStopped(t) PROVE RecordedInTransit'
    BY <2>2 DEF PauseStopped
  <2>3. ASSUME NEW t \in Threads, BootDone(t) PROVE RecordedInTransit'
    BY <2>3 DEF BootDone, PauseDone
  <2>4. ASSUME NEW t \in Threads, ShutdownDone(t) PROVE RecordedInTransit'
    BY <2>4 DEF ShutdownDone, PauseDone
  <2>5. ASSUME NEW t \in Threads, ExitDone(t) PROVE RecordedInTransit'
    BY <2>5 DEF ExitDone, PauseDone
  <2>6. ASSUME NEW t \in Threads, DeployPaused(t) PROVE RecordedInTransit'
    BY <2>6 DEF DeployPaused, PauseDone
  <2>7. ASSUME NEW t \in Threads, Onchain(t) PROVE RecordedInTransit'
    BY <2>7 DEF Onchain
  <2>8. ASSUME NEW t \in Threads, MayStop(t) PROVE RecordedInTransit'
    BY <2>8 DEF MayStop
  <2>9. ASSUME NEW t \in Threads, StoreStopping(t) PROVE RecordedInTransit'
    BY <2>9 DEF StoreStopping, SetStatus
  <2>10. ASSUME NEW t \in Threads, StopDone(t) PROVE RecordedInTransit'
    BY <2>10 DEF StopDone, SetStatus
  <2>11. ASSUME NEW t \in Threads, BackToBuilt(t) PROVE RecordedInTransit'
    BY <2>11 DEF BackToBuilt, SetStatus
  <2>12. ASSUME NEW t \in Threads, StoreReturns(t) PROVE RecordedInTransit'
    BY <2>12 DEF StoreReturns, Stored, AfterStore
  <2>13. ASSUME NEW t \in Threads, StoreRaises(t) PROVE RecordedInTransit'
    BY <2>13 DEF StoreRaises, Stored
  <2>14. ASSUME NEW t \in Threads, StopCheck(t) PROVE RecordedInTransit'
    BY <2>14 DEF StopCheck, AfterStopRaised
  <2>15. ASSUME NEW t \in Threads, StopSet(t) PROVE RecordedInTransit'
    BY <2>15 DEF StopSet, SetState
  <2>16. ASSUME NEW t \in Threads, KillRecorded(t) PROVE RecordedInTransit'
    BY <2>16 DEF KillRecorded, Kill, Listening
  <2>17. ASSUME NEW t \in Threads, KillRaises(t) PROVE RecordedInTransit'
    BY <2>17 DEF KillRaises
  <2>18. ASSUME NEW t \in Threads, Killed(t) PROVE RecordedInTransit'
    BY <2>18 DEF Killed, SetState, AfterStopped, Callers
  <2>19. ASSUME NEW t \in Threads, KillFailed(t) PROVE RecordedInTransit'
    BY <2>19 DEF KillFailed, SetState, AfterStopRaised
  <2>20. ASSUME NEW t \in Threads, Build(t) PROVE RecordedInTransit'
    BY <2>20 DEF Build
  <2>21. ASSUME NEW t \in Threads, Generate(t) PROVE RecordedInTransit'
    BY <2>21 DEF Generate, SetStatus
  <2>22. ASSUME NEW t \in Threads, StartDeployment(t) PROVE RecordedInTransit'
    BY <2>22 DEF StartDeployment, SetStatus
  <2>23. ASSUME NEW t \in Threads, RunDone(t) PROVE RecordedInTransit'
    BY <2>23 DEF RunDone, SetStatus
  <2>24. ASSUME NEW t \in Threads, RunCheck(t) PROVE RecordedInTransit'
    BY <2>24 DEF RunCheck
  <2>25. ASSUME NEW t \in Threads, IpfsFails(t) PROVE RecordedInTransit'
    BY <2>25 DEF IpfsFails
  <2>26. ASSUME NEW t \in Threads, IpfsWorks(t) PROVE RecordedInTransit'
    BY <2>26 DEF IpfsWorks, SetState
  <2>27. ASSUME NEW t \in Threads, FreePorts(t) PROVE RecordedInTransit'
    BY <2>27 DEF FreePorts, Kill, Listening
  <2>28. ASSUME NEW t \in Threads, SetupFails(t) PROVE RecordedInTransit'
    BY <2>28 DEF SetupFails, Retry
  <2>29. ASSUME NEW t \in Threads, Record(t) PROVE RecordedInTransit'
    BY <2>29 DEF Record
  <2>30. ASSUME NEW t \in Threads, RecordFails(t) PROVE RecordedInTransit'
    BY <2>30 DEF RecordFails, Kill, Retry
  <2>31. ASSUME NEW t \in Threads, Started(t) PROVE RecordedInTransit'
    BY <2>31 DEF Started, SetState
  <2>32. ASSUME NEW t \in Threads, StartError(t) PROVE RecordedInTransit'
    BY <2>32 DEF StartError, SetState
  <2>33. ASSUME NEW t \in Threads, CheckStopping(t) PROVE RecordedInTransit'
    BY <2>33 DEF CheckStopping
  <2>34. ASSUME NEW t \in Threads, StopEnds(t) PROVE RecordedInTransit'
    BY <2>34 DEF StopEnds
  <2>35. ASSUME NEW t \in Threads, DeployReturns(t) PROVE RecordedInTransit'
    BY <2>35 DEF DeployReturns
  <2>36. ASSUME NEW t \in Threads, DeployFails(t) PROVE RecordedInTransit'
    BY <2>36 DEF DeployFails
  <2>37. ASSUME NEW t \in Threads, RestartStopped(t) PROVE RecordedInTransit'
    BY <2>37 DEF RestartStopped
  <2>38. ASSUME NEW t \in Threads, RestartReturns(t) PROVE RecordedInTransit'
    BY <2>38 DEF RestartReturns, Resume
  <2>39. ASSUME NEW t \in Threads, RestartFails(t) PROVE RecordedInTransit'
    BY <2>39 DEF RestartFails, Resume
  <2>40. ASSUME NEW t \in Threads, GiveUpEnds(t) PROVE RecordedInTransit'
    BY <2>40 DEF GiveUpEnds, Resume
  <2>41. ASSUME NEW t \in Threads, Launch(t) PROVE RecordedInTransit'
    BY <2>41 DEF Launch, Idle
  <2>42. ASSUME NEW t \in Threads, RequestShutdown(t) PROVE RecordedInTransit'
    BY <2>42 DEF RequestShutdown, LoopFree, Idle
  <2>43. ASSUME NEW t \in Threads, ParentExit(t) PROVE RecordedInTransit'
    BY <2>43 DEF ParentExit, LoopFree, Idle
  <2>44. ASSUME NEW t \in Threads, Exit(t) PROVE RecordedInTransit'
    BY <2>44 DEF Exit, AllIdle, Idle
  <2>45. ASSUME NEW t \in Threads, NEW s \in Services, PauseSkip(t, s) PROVE RecordedInTransit'
    BY <2>45 DEF PauseSkip
  <2>46. ASSUME NEW t \in Threads, NEW s \in Services, PauseNext(t, s) PROVE RecordedInTransit'
    BY <2>46 DEF PauseNext
  <2>47. ASSUME NEW t \in Threads, NEW s \in Services, RequestDeploy(t, s) PROVE RecordedInTransit'
    BY <2>47 DEF RequestDeploy, LoopFree, Idle
  <2>48. ASSUME NEW t \in Threads, NEW s \in Services, RequestStop(t, s) PROVE RecordedInTransit'
    BY <2>48 DEF RequestStop, LoopFree, Idle
  <2>49. ASSUME NEW t \in Threads, NEW s \in Services, HealthRestart(t, s) PROVE RecordedInTransit'
    BY <2>49 DEF HealthRestart, LoopFree, Idle
  <2>50. ASSUME NEW t \in Threads, NEW s \in Services, HealthGiveUp(t, s) PROVE RecordedInTransit'
    BY <2>50 DEF HealthGiveUp, LoopFree, Idle
  <2>51. ASSUME NEW t \in Threads, NEW p \in Pids, Spawn(t, p) PROVE RecordedInTransit'
    BY <2>51 DEF Spawn
  <2>52. ASSUME NEW p \in Pids, AgentListens(p) PROVE RecordedInTransit'
    BY <2>52 DEF AgentListens
  <2>53. ASSUME NEW p \in Pids, AgentDies(p) PROVE RecordedInTransit'
    BY <2>53 DEF AgentDies, Kill
  <2>54. CASE Crash
    BY <2>54 DEF Crash
  <2>55. CASE UNCHANGED vars
    BY <2>55 DEF vars
  <2>56. QED
    BY <2>1, <2>2, <2>3, <2>4, <2>5, <2>6, <2>7, <2>8, <2>9, <2>10, <2>11, <2>12, <2>13,
         <2>14, <2>15, <2>16, <2>17, <2>18, <2>19, <2>20, <2>21, <2>22, <2>23, <2>24,
         <2>25, <2>26, <2>27, <2>28, <2>29, <2>30, <2>31, <2>32, <2>33, <2>34, <2>35,
         <2>36, <2>37, <2>38, <2>39, <2>40, <2>41, <2>42, <2>43, <2>44, <2>45, <2>46,
         <2>47, <2>48, <2>49, <2>50, <2>51, <2>52, <2>53, <2>54, <2>55 DEF Next, Run,
         Step, Request
<1>3. QED
  BY <1>1, <1>2, TypeCorrect, PTL DEF Spec

\* A service that is DELETED has no agent, and nobody is starting one.
DeletedIsEmpty ==
    \A s \in Services :
        status[s] = "DELETED" =>
            /\ pidFile[s] = NoPid
            /\ \A t \in Threads : svc[t] = s =>
                 pc[t] \notin {"storedBuilt", "startDeployment", "storedDeploying", "runCheck", "ipfs",
                               "free", "spawn", "record"}

\* DELETED is never stored again, and a start stores another status before it writes
\* the PID file.
LEMMA DeletedStaysEmpty == Spec => []DeletedIsEmpty
<1>1. Init => DeletedIsEmpty
  BY DEF Init, DeletedIsEmpty, Idle, AllIdle
<1>2. TypeOK /\ DeletedIsEmpty /\ [Next]_vars => DeletedIsEmpty'
  <2> SUFFICES ASSUME TypeOK, DeletedIsEmpty, [Next]_vars PROVE DeletedIsEmpty'
    OBVIOUS
  <2> USE DEF TypeOK, DeletedIsEmpty, Idle, AllIdle, files, processes, manager,
       daemon, locals, Goto, Begin, End
  <2>1. ASSUME NEW t \in Threads, Recover(t) PROVE DeletedIsEmpty'
    BY <2>1 DEF Recover
  <2>2. ASSUME NEW t \in Threads, PauseStopped(t) PROVE DeletedIsEmpty'
    BY <2>2 DEF PauseStopped
  <2>3. ASSUME NEW t \in Threads, BootDone(t) PROVE DeletedIsEmpty'
    BY <2>3 DEF BootDone, PauseDone
  <2>4. ASSUME NEW t \in Threads, ShutdownDone(t) PROVE DeletedIsEmpty'
    BY <2>4 DEF ShutdownDone, PauseDone
  <2>5. ASSUME NEW t \in Threads, ExitDone(t) PROVE DeletedIsEmpty'
    BY <2>5 DEF ExitDone, PauseDone
  <2>6. ASSUME NEW t \in Threads, DeployPaused(t) PROVE DeletedIsEmpty'
    BY <2>6 DEF DeployPaused, PauseDone
  <2>7. ASSUME NEW t \in Threads, Onchain(t) PROVE DeletedIsEmpty'
    BY <2>7 DEF Onchain
  <2>8. ASSUME NEW t \in Threads, MayStop(t) PROVE DeletedIsEmpty'
    BY <2>8 DEF MayStop
  <2>9. ASSUME NEW t \in Threads, StoreStopping(t) PROVE DeletedIsEmpty'
    BY <2>9 DEF StoreStopping, SetStatus
  <2>10. ASSUME NEW t \in Threads, StopDone(t) PROVE DeletedIsEmpty'
    BY <2>10 DEF StopDone, SetStatus
  <2>11. ASSUME NEW t \in Threads, BackToBuilt(t) PROVE DeletedIsEmpty'
    BY <2>11 DEF BackToBuilt, SetStatus
  <2>12. ASSUME NEW t \in Threads, StoreReturns(t) PROVE DeletedIsEmpty'
    BY <2>12 DEF StoreReturns, Stored, AfterStore
  <2>13. ASSUME NEW t \in Threads, StoreRaises(t) PROVE DeletedIsEmpty'
    BY <2>13 DEF StoreRaises, Stored
  <2>14. ASSUME NEW t \in Threads, StopCheck(t) PROVE DeletedIsEmpty'
    BY <2>14 DEF StopCheck, AfterStopRaised
  <2>15. ASSUME NEW t \in Threads, StopSet(t) PROVE DeletedIsEmpty'
    BY <2>15 DEF StopSet, SetState
  <2>16. ASSUME NEW t \in Threads, KillRecorded(t) PROVE DeletedIsEmpty'
    BY <2>16 DEF KillRecorded, Kill, Listening
  <2>17. ASSUME NEW t \in Threads, KillRaises(t) PROVE DeletedIsEmpty'
    BY <2>17 DEF KillRaises
  <2>18. ASSUME NEW t \in Threads, Killed(t) PROVE DeletedIsEmpty'
    BY <2>18 DEF Killed, SetState, AfterStopped, Callers
  <2>19. ASSUME NEW t \in Threads, KillFailed(t) PROVE DeletedIsEmpty'
    BY <2>19 DEF KillFailed, SetState, AfterStopRaised
  <2>20. ASSUME NEW t \in Threads, Build(t) PROVE DeletedIsEmpty'
    BY <2>20 DEF Build
  <2>21. ASSUME NEW t \in Threads, Generate(t) PROVE DeletedIsEmpty'
    BY <2>21 DEF Generate, SetStatus
  <2>22. ASSUME NEW t \in Threads, StartDeployment(t) PROVE DeletedIsEmpty'
    BY <2>22 DEF StartDeployment, SetStatus
  <2>23. ASSUME NEW t \in Threads, RunDone(t) PROVE DeletedIsEmpty'
    BY <2>23 DEF RunDone, SetStatus
  <2>24. ASSUME NEW t \in Threads, RunCheck(t) PROVE DeletedIsEmpty'
    BY <2>24 DEF RunCheck
  <2>25. ASSUME NEW t \in Threads, IpfsFails(t) PROVE DeletedIsEmpty'
    BY <2>25 DEF IpfsFails
  <2>26. ASSUME NEW t \in Threads, IpfsWorks(t) PROVE DeletedIsEmpty'
    BY <2>26 DEF IpfsWorks, SetState
  <2>27. ASSUME NEW t \in Threads, FreePorts(t) PROVE DeletedIsEmpty'
    BY <2>27 DEF FreePorts, Kill, Listening
  <2>28. ASSUME NEW t \in Threads, SetupFails(t) PROVE DeletedIsEmpty'
    BY <2>28 DEF SetupFails, Retry
  <2>29. ASSUME NEW t \in Threads, Record(t) PROVE DeletedIsEmpty'
    BY <2>29 DEF Record
  <2>30. ASSUME NEW t \in Threads, RecordFails(t) PROVE DeletedIsEmpty'
    BY <2>30 DEF RecordFails, Kill, Retry
  <2>31. ASSUME NEW t \in Threads, Started(t) PROVE DeletedIsEmpty'
    BY <2>31 DEF Started, SetState
  <2>32. ASSUME NEW t \in Threads, StartError(t) PROVE DeletedIsEmpty'
    BY <2>32 DEF StartError, SetState
  <2>33. ASSUME NEW t \in Threads, CheckStopping(t) PROVE DeletedIsEmpty'
    BY <2>33 DEF CheckStopping
  <2>34. ASSUME NEW t \in Threads, StopEnds(t) PROVE DeletedIsEmpty'
    BY <2>34 DEF StopEnds
  <2>35. ASSUME NEW t \in Threads, DeployReturns(t) PROVE DeletedIsEmpty'
    BY <2>35 DEF DeployReturns
  <2>36. ASSUME NEW t \in Threads, DeployFails(t) PROVE DeletedIsEmpty'
    BY <2>36 DEF DeployFails
  <2>37. ASSUME NEW t \in Threads, RestartStopped(t) PROVE DeletedIsEmpty'
    BY <2>37 DEF RestartStopped
  <2>38. ASSUME NEW t \in Threads, RestartReturns(t) PROVE DeletedIsEmpty'
    BY <2>38 DEF RestartReturns, Resume
  <2>39. ASSUME NEW t \in Threads, RestartFails(t) PROVE DeletedIsEmpty'
    BY <2>39 DEF RestartFails, Resume
  <2>40. ASSUME NEW t \in Threads, GiveUpEnds(t) PROVE DeletedIsEmpty'
    BY <2>40 DEF GiveUpEnds, Resume
  <2>41. ASSUME NEW t \in Threads, Launch(t) PROVE DeletedIsEmpty'
    BY <2>41 DEF Launch, Idle
  <2>42. ASSUME NEW t \in Threads, RequestShutdown(t) PROVE DeletedIsEmpty'
    BY <2>42 DEF RequestShutdown, LoopFree, Idle
  <2>43. ASSUME NEW t \in Threads, ParentExit(t) PROVE DeletedIsEmpty'
    BY <2>43 DEF ParentExit, LoopFree, Idle
  <2>44. ASSUME NEW t \in Threads, Exit(t) PROVE DeletedIsEmpty'
    BY <2>44 DEF Exit, AllIdle, Idle
  <2>45. ASSUME NEW t \in Threads, NEW s \in Services, PauseSkip(t, s) PROVE DeletedIsEmpty'
    BY <2>45 DEF PauseSkip
  <2>46. ASSUME NEW t \in Threads, NEW s \in Services, PauseNext(t, s) PROVE DeletedIsEmpty'
    BY <2>46 DEF PauseNext
  <2>47. ASSUME NEW t \in Threads, NEW s \in Services, RequestDeploy(t, s) PROVE DeletedIsEmpty'
    BY <2>47 DEF RequestDeploy, LoopFree, Idle
  <2>48. ASSUME NEW t \in Threads, NEW s \in Services, RequestStop(t, s) PROVE DeletedIsEmpty'
    BY <2>48 DEF RequestStop, LoopFree, Idle
  <2>49. ASSUME NEW t \in Threads, NEW s \in Services, HealthRestart(t, s) PROVE DeletedIsEmpty'
    BY <2>49 DEF HealthRestart, LoopFree, Idle
  <2>50. ASSUME NEW t \in Threads, NEW s \in Services, HealthGiveUp(t, s) PROVE DeletedIsEmpty'
    BY <2>50 DEF HealthGiveUp, LoopFree, Idle
  <2>51. ASSUME NEW t \in Threads, NEW p \in Pids, Spawn(t, p) PROVE DeletedIsEmpty'
    BY <2>51 DEF Spawn
  <2>52. ASSUME NEW p \in Pids, AgentListens(p) PROVE DeletedIsEmpty'
    BY <2>52 DEF AgentListens
  <2>53. ASSUME NEW p \in Pids, AgentDies(p) PROVE DeletedIsEmpty'
    BY <2>53 DEF AgentDies, Kill
  <2>54. CASE Crash
    BY <2>54 DEF Crash
  <2>55. CASE UNCHANGED vars
    BY <2>55 DEF vars
  <2>56. QED
    BY <2>1, <2>2, <2>3, <2>4, <2>5, <2>6, <2>7, <2>8, <2>9, <2>10, <2>11, <2>12, <2>13,
         <2>14, <2>15, <2>16, <2>17, <2>18, <2>19, <2>20, <2>21, <2>22, <2>23, <2>24,
         <2>25, <2>26, <2>27, <2>28, <2>29, <2>30, <2>31, <2>32, <2>33, <2>34, <2>35,
         <2>36, <2>37, <2>38, <2>39, <2>40, <2>41, <2>42, <2>43, <2>44, <2>45, <2>46,
         <2>47, <2>48, <2>49, <2>50, <2>51, <2>52, <2>53, <2>54, <2>55 DEF Next, Run,
         Step, Request
<1>3. QED
  BY <1>1, <1>2, TypeCorrect, PTL DEF Spec

\* After the parent's exit thread t will stop the agent of s: the shutdown has it
\* on its list or is about to stop it, or t is starting the agent and will look at
\* _is_stopping.
WillStop(t, s) ==
    \/ op[t] = "shutdown" /\ ~Idle(t) /\ s \in todo[t]
    \/ op[t] = "shutdown" /\ Stopping(t, s)
    \/ svc[t] = s /\ pc[t] \in {"stopSet", "kill", "free", "spawn", "record", "started",
                                "startError", "checkStopping"}

ExitStops ==
    isStopping =>
        \A s \in Services \ interrupted :
            pidFile[s] = NoPid \/ \E t \in Threads : WillStop(t, s)

\* A stop that the manager refuses to the shutdown is refused because of somebody who
\* will kill the agent himself (RecordedInTransit); one that is skipped has no agent
\* (DeletedIsEmpty).
LEMMA ExitStopsAll == Spec => []ExitStops
<1>1. Init => ExitStops
  BY DEF Init, ExitStops, WillStop, Stopping, Idle, AllIdle
<1>2. TypeOK /\ Phases /\ Booting /\ RecordedInTransit /\ DeletedIsEmpty /\ ExitStops /\ [Next]_vars => ExitStops'
  <2> SUFFICES ASSUME TypeOK, Phases, Booting, RecordedInTransit, DeletedIsEmpty, ExitStops, [Next]_vars PROVE ExitStops'
    OBVIOUS
  <2> USE DEF TypeOK, ExitStops, WillStop, Stopping, Idle, AllIdle, files, processes, manager,
       daemon, locals, Goto, Begin, End
  <2>1. ASSUME NEW t \in Threads, Recover(t) PROVE ExitStops'
    BY <2>1 DEF Recover, Booting
  <2>2. ASSUME NEW t \in Threads, PauseStopped(t) PROVE ExitStops'
    BY <2>2 DEF PauseStopped
  <2>3. ASSUME NEW t \in Threads, BootDone(t) PROVE ExitStops'
    BY <2>3 DEF BootDone, PauseDone
  <2>4. ASSUME NEW t \in Threads, ShutdownDone(t) PROVE ExitStops'
    BY <2>4 DEF ShutdownDone, PauseDone
  <2>5. ASSUME NEW t \in Threads, ExitDone(t) PROVE ExitStops'
    BY <2>5 DEF ExitDone, PauseDone
  <2>6. ASSUME NEW t \in Threads, DeployPaused(t) PROVE ExitStops'
    BY <2>6 DEF DeployPaused, PauseDone
  <2>7. ASSUME NEW t \in Threads, Onchain(t) PROVE ExitStops'
    BY <2>7 DEF Onchain
  <2>8. ASSUME NEW t \in Threads, MayStop(t) PROVE ExitStops'
    BY <2>8 DEF MayStop
  <2>9. ASSUME NEW t \in Threads, StoreStopping(t) PROVE ExitStops'
    BY <2>9 DEF StoreStopping, SetStatus
  <2>10. ASSUME NEW t \in Threads, StopDone(t) PROVE ExitStops'
    BY <2>10 DEF StopDone, SetStatus
  <2>11. ASSUME NEW t \in Threads, BackToBuilt(t) PROVE ExitStops'
    BY <2>11 DEF BackToBuilt, SetStatus
  <2>12. ASSUME NEW t \in Threads, StoreReturns(t) PROVE ExitStops'
    BY <2>12 DEF StoreReturns, Stored, AfterStore
  <2>13. ASSUME NEW t \in Threads, StoreRaises(t) PROVE ExitStops'
    BY <2>13 DEF StoreRaises, Stored
  <2>14. ASSUME NEW t \in Threads, StopCheck(t) PROVE ExitStops'
    <3>1. CASE mgr[svc[t]] \in InTransition
      <4> SUFFICES ASSUME isStopping, NEW s \in Services \ interrupted, pidFile[s] # NoPid
                   PROVE \E u \in Threads : WillStop(u, s)'
        BY <2>14 DEF StopCheck
      <4>1. CASE s = svc[t]
        <5>1. PICK u \in Threads : /\ svc[u] = s
                                   /\ pc[u] \in {"kill", "free", "spawn", "record", "started", "startError"}
          BY <3>1, <4>1 DEF RecordedInTransit
        <5>2. u # t
          BY <2>14, <5>1 DEF StopCheck
        <5>3. WillStop(u, s)'
          BY <2>14, <5>1, <5>2 DEF StopCheck
        <5>4. QED
          BY <5>3
      <4>2. CASE s # svc[t]
        <5>1. PICK u \in Threads : WillStop(u, s)
          OBVIOUS
        <5>2. WillStop(u, s)'
          BY <2>14, <4>2, <5>1, <3>1 DEF StopCheck, AfterStopRaised
        <5>3. QED
          BY <5>2
      <4>3. QED
        BY <4>1, <4>2
    <3>2. CASE mgr[svc[t]] \notin InTransition
      BY <2>14, <3>2 DEF StopCheck
    <3>3. QED
      BY <3>1, <3>2
  <2>15. ASSUME NEW t \in Threads, StopSet(t) PROVE ExitStops'
    BY <2>15 DEF StopSet, SetState
  <2>16. ASSUME NEW t \in Threads, KillRecorded(t) PROVE ExitStops'
    BY <2>16 DEF KillRecorded, Kill, Listening
  <2>17. ASSUME NEW t \in Threads, KillRaises(t) PROVE ExitStops'
    BY <2>17 DEF KillRaises
  <2>18. ASSUME NEW t \in Threads, Killed(t) PROVE ExitStops'
    BY <2>18 DEF Killed, SetState, AfterStopped, Callers
  <2>19. ASSUME NEW t \in Threads, KillFailed(t) PROVE ExitStops'
    BY <2>19 DEF KillFailed, SetState, AfterStopRaised
  <2>20. ASSUME NEW t \in Threads, Build(t) PROVE ExitStops'
    BY <2>20 DEF Build
  <2>21. ASSUME NEW t \in Threads, Generate(t) PROVE ExitStops'
    BY <2>21 DEF Generate, SetStatus
  <2>22. ASSUME NEW t \in Threads, StartDeployment(t) PROVE ExitStops'
    BY <2>22 DEF StartDeployment, SetStatus
  <2>23. ASSUME NEW t \in Threads, RunDone(t) PROVE ExitStops'
    BY <2>23 DEF RunDone, SetStatus
  <2>24. ASSUME NEW t \in Threads, RunCheck(t) PROVE ExitStops'
    BY <2>24 DEF RunCheck
  <2>25. ASSUME NEW t \in Threads, IpfsFails(t) PROVE ExitStops'
    BY <2>25 DEF IpfsFails
  <2>26. ASSUME NEW t \in Threads, IpfsWorks(t) PROVE ExitStops'
    BY <2>26 DEF IpfsWorks, SetState
  <2>27. ASSUME NEW t \in Threads, FreePorts(t) PROVE ExitStops'
    BY <2>27 DEF FreePorts, Kill, Listening
  <2>28. ASSUME NEW t \in Threads, SetupFails(t) PROVE ExitStops'
    BY <2>28 DEF SetupFails, Retry
  <2>29. ASSUME NEW t \in Threads, Record(t) PROVE ExitStops'
    BY <2>29 DEF Record
  <2>30. ASSUME NEW t \in Threads, RecordFails(t) PROVE ExitStops'
    BY <2>30 DEF RecordFails, Kill, Retry
  <2>31. ASSUME NEW t \in Threads, Started(t) PROVE ExitStops'
    BY <2>31 DEF Started, SetState
  <2>32. ASSUME NEW t \in Threads, StartError(t) PROVE ExitStops'
    BY <2>32 DEF StartError, SetState
  <2>33. ASSUME NEW t \in Threads, CheckStopping(t) PROVE ExitStops'
    BY <2>33 DEF CheckStopping
  <2>34. ASSUME NEW t \in Threads, StopEnds(t) PROVE ExitStops'
    BY <2>34 DEF StopEnds
  <2>35. ASSUME NEW t \in Threads, DeployReturns(t) PROVE ExitStops'
    BY <2>35 DEF DeployReturns
  <2>36. ASSUME NEW t \in Threads, DeployFails(t) PROVE ExitStops'
    BY <2>36 DEF DeployFails
  <2>37. ASSUME NEW t \in Threads, RestartStopped(t) PROVE ExitStops'
    BY <2>37 DEF RestartStopped
  <2>38. ASSUME NEW t \in Threads, RestartReturns(t) PROVE ExitStops'
    BY <2>38 DEF RestartReturns, Resume
  <2>39. ASSUME NEW t \in Threads, RestartFails(t) PROVE ExitStops'
    BY <2>39 DEF RestartFails, Resume
  <2>40. ASSUME NEW t \in Threads, GiveUpEnds(t) PROVE ExitStops'
    BY <2>40 DEF GiveUpEnds, Resume
  <2>41. ASSUME NEW t \in Threads, Launch(t) PROVE ExitStops'
    BY <2>41 DEF Launch, Idle
  <2>42. ASSUME NEW t \in Threads, RequestShutdown(t) PROVE ExitStops'
    BY <2>42 DEF RequestShutdown, LoopFree, Idle
  <2>43. ASSUME NEW t \in Threads, ParentExit(t) PROVE ExitStops'
    BY <2>43 DEF ParentExit, LoopFree, Idle
  <2>44. ASSUME NEW t \in Threads, Exit(t) PROVE ExitStops'
    BY <2>44 DEF Exit, AllIdle, Idle
  <2>45. ASSUME NEW t \in Threads, NEW s \in Services, PauseSkip(t, s) PROVE ExitStops'
    BY <2>45 DEF PauseSkip, DeletedIsEmpty
  <2>46. ASSUME NEW t \in Threads, NEW s \in Services, PauseNext(t, s) PROVE ExitStops'
    BY <2>46 DEF PauseNext
  <2>47. ASSUME NEW t \in Threads, NEW s \in Services, RequestDeploy(t, s) PROVE ExitStops'
    BY <2>47 DEF RequestDeploy, LoopFree, Idle
  <2>48. ASSUME NEW t \in Threads, NEW s \in Services, RequestStop(t, s) PROVE ExitStops'
    BY <2>48 DEF RequestStop, LoopFree, Idle
  <2>49. ASSUME NEW t \in Threads, NEW s \in Services, HealthRestart(t, s) PROVE ExitStops'
    BY <2>49 DEF HealthRestart, LoopFree, Idle
  <2>50. ASSUME NEW t \in Threads, NEW s \in Services, HealthGiveUp(t, s) PROVE ExitStops'
    BY <2>50 DEF HealthGiveUp, LoopFree, Idle
  <2>51. ASSUME NEW t \in Threads, NEW p \in Pids, Spawn(t, p) PROVE ExitStops'
    BY <2>51 DEF Spawn
  <2>52. ASSUME NEW p \in Pids, AgentListens(p) PROVE ExitStops'
    BY <2>52 DEF AgentListens
  <2>53. ASSUME NEW p \in Pids, AgentDies(p) PROVE ExitStops'
    BY <2>53 DEF AgentDies, Kill
  <2>54. CASE Crash
    BY <2>54 DEF Crash
  <2>55. CASE UNCHANGED vars
    BY <2>55 DEF vars
  <2>56. QED
    BY <2>1, <2>2, <2>3, <2>4, <2>5, <2>6, <2>7, <2>8, <2>9, <2>10, <2>11, <2>12, <2>13,
         <2>14, <2>15, <2>16, <2>17, <2>18, <2>19, <2>20, <2>21, <2>22, <2>23, <2>24,
         <2>25, <2>26, <2>27, <2>28, <2>29, <2>30, <2>31, <2>32, <2>33, <2>34, <2>35,
         <2>36, <2>37, <2>38, <2>39, <2>40, <2>41, <2>42, <2>43, <2>44, <2>45, <2>46,
         <2>47, <2>48, <2>49, <2>50, <2>51, <2>52, <2>53, <2>54, <2>55 DEF Next, Run,
         Step, Request
<1>3. QED
  BY <1>1, <1>2, TypeCorrect, DownIsIdle, BootsAlone, TransitsRecorded, DeletedStaysEmpty, PTL DEF Spec

\* After the parent's exit, once the threads have finished, no PID file names an
\* agent: also not that of a start which was past its check when _is_stopping was
\* set, in whatever order the shutdown and the start went on.
THEOREM NoAgentLeft == Spec => []NoAgentAfterParentExit
<1>1. ExitStops => NoAgentAfterParentExit
  BY DEF ExitStops, WillStop, Stopping, NoAgentAfterParentExit, AllIdle, Idle
<1>2. QED
  BY <1>1, ExitStopsAll, PTL

\* When the daemon begins to serve, each service that exists has been stopped: the
\* boot's recovery and its stops are done for all of them, none is refused or skipped.
THEOREM ServedWhenStopped == Spec => ServesStopped
<1> DEFINE Serves == phase = "booting" /\ phase' = "serving"
                       => \A s \in Services : /\ status'[s] \in {"BUILT", "DELETED"}
                                              /\ status'[s] = "BUILT" => pidFile'[s] = NoPid
<1>1. TypeOK /\ Booting /\ BootStops /\ [Next]_vars => [Serves]_vars
  <2> SUFFICES ASSUME TypeOK, Booting, BootStops, Next, phase = "booting", phase' = "serving"
               PROVE Serves
    OBVIOUS
  <2>1. PICK t \in Threads : BootDone(t)
    <3>1. PICK t \in Threads : Step(t) \/ Request(t)
      BY DEF Next, Run, Crash, AgentListens, AgentDies, daemon
    <3>2. ~Request(t)
      BY DEF Request, Launch, RequestShutdown, ParentExit, Exit, RequestDeploy, RequestStop, HealthRestart,
             HealthGiveUp, daemon
    <3>3. BootDone(t)
      BY <3>1, <3>2 DEF Step, Recover, PauseSkip, PauseNext, PauseStopped, ShutdownDone, ExitDone,
         DeployPaused, Onchain, MayStop, StoreStopping, StopDone, BackToBuilt, StoreReturns, StoreRaises,
         StopCheck, StopSet, KillRecorded, KillRaises, Killed, KillFailed, Build, Generate,
         StartDeployment, RunDone, RunCheck, IpfsFails, IpfsWorks, FreePorts, Spawn, SetupFails, Record,
         RecordFails, Started, StartError, CheckStopping, StopEnds, DeployReturns, DeployFails,
         RestartStopped, RestartReturns, RestartFails, GiveUpEnds, daemon
    <3>4. QED
      BY <3>3
  <2>2. \A s \in Services : Stopped(s)
    BY <2>1 DEF BootDone, PauseDone, BootStops, Stopping, KilledBy, Idle
  <2>3. UNCHANGED <<status, pidFile>>
    BY <2>1 DEF BootDone, files
  <2>4. QED
    BY <2>2, <2>3 DEF Stopped
<1>2. QED
  BY <1>1, TypeCorrect, BootsAlone, BootStopsAll, PTL DEF Spec, ServesStopped
=============================================================================
