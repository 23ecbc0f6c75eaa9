------------------------- MODULE DeploymentClaims -------------------------
(***************************************************************************)
(* What a test of the repository says of the local runtime, and the code   *)
(* of Deployment.tla does not keep.                                        *)
(***************************************************************************)
EXTENDS MCDeployment

\* Deployment.start "resets status to BUILT and re-raises when run fails", so
\* DEPLOYED is stored only for an agent the manager has started.
DeployedWasStarted ==
    [][ \A t \in Threads : RunDone(t) => mgr[svc[t]] = "STARTED" ]_vars
=============================================================================
