-------------------------- MODULE OnChainService --------------------------
(***************************************************************************)
(* The life cycle of one service on one chain (services/manage.py): its    *)
(* token in the service registry, its service Safe and its staking, and    *)
(* the deploy and terminate jobs that move it, run by the handlers of      *)
(* cli.py, one job at a time.                                              *)
(*                                                                         *)
(* A job reads the chain, collects a batch of calls and settles it as one  *)
(* MultiSend of the Master Safe: all of its calls or none.  Every batch    *)
(* the code builds lists its calls in the order of MultiSend below, so a   *)
(* batch is a set.  A job may raise at any point (an RPC error, missing    *)
(* funds or staking slots) or the process be killed there; the next job    *)
(* starts from what is on the chain and in config.json.                    *)
(***************************************************************************)
EXTENDS FiniteSets

CONSTANTS
    Programs,     \* staking programs, each with a min_staking_deposit of its own
    NoProgram,    \* NO_STAKING_PROGRAM_ID; not staked
    Descriptions, \* what the on-chain metadata may say of the service
    Reverted      \* the outcome of a batch one of whose calls reverts

ASSUME ProgramsAssumption == NoProgram \notin Programs
ASSUME DescriptionsAssumption == Descriptions # {}

VARIABLES
    chain,   \* the token as the registry, its Safe and the staking contracts see it
    file,    \* config.json: whether it holds the token and the Safe, and what is wanted
    job,     \* "deploy", "terminate", or "idle" between jobs
    pc,      \* where in the job
    obj,     \* the Service object the job has loaded
    batch,   \* the calls it has collected
    cont,    \* where it goes on when they have settled
    update,  \* is_update
    mega,    \* mega_batch_done
    cut      \* history: a mint that landed was not followed by its store()

flags == <<update, mega>>
locals == <<obj, batch, cont, flags>>
vars == <<chain, file, job, pc, locals, cut>>

Goals == Programs \cup {NoProgram}

OnChainState == {"NON_EXISTENT", "PRE_REGISTRATION", "ACTIVE_REGISTRATION",
                 "FINISHED_REGISTRATION", "DEPLOYED", "TERMINATED_BONDED"}
RequiringTerminate == {"ACTIVE_REGISTRATION", "FINISHED_REGISTRATION", "DEPLOYED"}
RequiringUnbond == {"FINISHED_REGISTRATION", "DEPLOYED", "TERMINATED_BONDED"}

\* The registry state; the owner of the Safe, and whether its recovery module is
\* enabled; the bond and the description last minted; the staking program,
\* whether it has evicted the service, and whether it cannot be left yet.
Services ==
    {c \in [reg : OnChainState, owner : {"none", "agent", "master"}, module : BOOLEAN,
            deposit : Goals, descr : Descriptions,
            staked : Goals, evicted : BOOLEAN, locked : BOOLEAN] :
        /\ c.staked = NoProgram => ~c.evicted /\ ~c.locked
        /\ c.staked # NoProgram => c.reg = "DEPLOYED"}

\* A reverted batch leaves no service.
ASSUME RevertedAssumption == Reverted \notin Services

Objects == [token : BOOLEAN, known : BOOLEAN, program : Goals, descr : Descriptions]

Calls == {"unstake", "terminate", "unbond", "recover", "update", "activate", "register",
          "deployNew", "deployRecovery", "deploySame", "stake", "swap"}
Deploying == {"enable", "sync", "plan", "prefix", "recoverAccess", "mint", "minted",
              "build", "stepwise", "record", "final", "stake", "restake"}
Terminating == {"term", "owners", "enableSwap", "swap", "drain"}
Places == Deploying \cup Terminating \cup {"idle", "done"}

\* Between jobs nothing is collected that the next one would settle.
TypeOK ==
    /\ chain \in Services
    /\ file \in Objects /\ obj \in Objects
    /\ job \in {"idle", "deploy", "terminate"}
    /\ pc \in Places \cup {"settle"} /\ cont \in Places
    /\ batch \in SUBSET Calls
    /\ update \in BOOLEAN /\ mega \in BOOLEAN /\ cut \in BOOLEAN
    /\ pc = "idle" <=> job = "idle"
    /\ pc = "idle" => batch = {}

-----------------------------------------------------------------------------
(* The contracts, as far as the code relies on them *)

\* The agent's address is a registered instance.
Registered(c) == c.reg \in {"FINISHED_REGISTRATION", "DEPLOYED"}

Minted(o) ==
    [reg |-> "PRE_REGISTRATION", owner |-> "none", module |-> FALSE,
     deposit |-> o.program, descr |-> o.descr,
     staked |-> NoProgram, evicted |-> FALSE, locked |-> FALSE]

\* Whether a call is accepted.  A staked token belongs to the staking contract.
Accepted(l, o, c) ==
    CASE l = "unstake"        -> c.staked # NoProgram /\ ~c.locked
      [] l = "terminate"      -> c.staked = NoProgram /\ c.reg \in RequiringTerminate
      [] l = "unbond"         -> c.reg = "TERMINATED_BONDED"
      [] l = "recover"        -> c.reg = "PRE_REGISTRATION" /\ c.owner = "agent" /\ c.module
      [] l = "update"         -> c.reg = "PRE_REGISTRATION"
      [] l = "activate"       -> c.reg = "PRE_REGISTRATION" /\ c.deposit = o.program
      [] l = "register"       -> c.reg = "ACTIVE_REGISTRATION" /\ c.deposit = o.program
      [] l = "deployNew"      -> c.reg = "FINISHED_REGISTRATION" /\ c.owner = "none"
      [] l = "deployRecovery" -> c.reg = "FINISHED_REGISTRATION" /\ c.owner = "master" /\ c.module
      [] l = "deploySame"     -> c.reg = "FINISHED_REGISTRATION" /\ c.owner = "master"
      [] l = "stake"          -> c.reg = "DEPLOYED" /\ c.staked = NoProgram /\ c.deposit = o.program
      [] l = "swap"           -> c.owner = "agent"

Effect(l, o, c) ==
    CASE l = "unstake"    -> [c EXCEPT !.staked = NoProgram, !.evicted = FALSE]
      [] l = "terminate"  -> [c EXCEPT !.reg = IF @ = "ACTIVE_REGISTRATION"
                                               THEN "PRE_REGISTRATION" ELSE "TERMINATED_BONDED"]
      [] l = "unbond"     -> [c EXCEPT !.reg = "PRE_REGISTRATION"]
      [] l \in {"recover", "swap"} -> [c EXCEPT !.owner = "master"]
      [] l = "update"     -> [c EXCEPT !.deposit = o.program, !.descr = o.descr]
      [] l = "activate"   -> [c EXCEPT !.reg = "ACTIVE_REGISTRATION"]
      [] l = "register"   -> [c EXCEPT !.reg = "FINISHED_REGISTRATION"]
      [] l = "deployNew"  -> [c EXCEPT !.reg = "DEPLOYED", !.owner = "agent", !.module = TRUE]
      [] l \in {"deployRecovery", "deploySame"} ->
                             [c EXCEPT !.reg = "DEPLOYED", !.owner = "agent"]
      [] l = "stake"      -> [c EXCEPT !.staked = o.program, !.locked = TRUE]

Call(l, B, o, c) ==
    IF l \notin B THEN c
    ELSE IF c # Reverted /\ Accepted(l, o, c) THEN Effect(l, o, c) ELSE Reverted

TearDown(B, o, c) ==
    Call("recover", B, o, Call("unbond", B, o, Call("terminate", B, o, Call("unstake", B, o, c))))
SetUp(B, o, c) ==
    Call("register", B, o, Call("activate", B, o, Call("update", B, o, c)))
DeploySafe(B, o, c) ==
    Call("deploySame", B, o, Call("deployRecovery", B, o, Call("deployNew", B, o, c)))
MultiSend(B, o, c) ==
    Call("swap", B, o, Call("stake", B, o, DeploySafe(B, o, SetUp(B, o, TearDown(B, o, c)))))

-----------------------------------------------------------------------------
\* What this or an older version may have left: a Safe exists once the service
\* was deployed, and is the agent's while it is deployed.
Left(c) ==
    /\ c.reg # "NON_EXISTENT"
    /\ c.reg = "DEPLOYED" => c.owner = "agent"
    /\ c.reg = "TERMINATED_BONDED" => c.owner # "none"
    /\ c.owner = "none" => ~c.module
    /\ c.staked # NoProgram => c.deposit = c.staked

Init ==
    /\ file \in Objects
    /\ chain \in IF file.token THEN {c \in Services : Left(c)}
                 ELSE {[Minted(file) EXCEPT !.reg = "NON_EXISTENT"]}
    /\ file.known = (chain.owner # "none")
    /\ job = "idle" /\ pc = "idle" /\ cont = "idle"
    /\ obj = file
    /\ batch = {}
    /\ update = FALSE /\ mega = FALSE
    /\ cut = FALSE

Go(p) ==
    /\ pc' = p
    /\ UNCHANGED <<chain, file, job, locals, cut>>

\* Settle a batch of calls, then go on at p.
Send(B, p) ==
    /\ batch' = B /\ cont' = p /\ pc' = "settle"
    /\ UNCHANGED <<chain, file, job, obj, flags, cut>>

\* Mutant: the batch of a job that raised stays.
EndedKeepsBatch ==
    /\ job' = "idle" /\ pc' = "idle" /\ cont' = "idle"
    /\ obj' = file
    /\ batch' = batch
    /\ update' = FALSE /\ mega' = FALSE

\* The job's frame is gone.
Ended ==
    /\ job' = "idle" /\ pc' = "idle" /\ cont' = "idle"
    /\ obj' = file
    /\ batch' = {}
    /\ update' = FALSE /\ mega' = FALSE

\* An exception ends the job, or a kill of the process: an RPC that fails, a
\* lack of funds or of slots, metadata that cannot be fetched, a batch that is
\* refused or never mined.  A token not yet stored is then lost.
Raise ==
    /\ pc \notin {"idle", "done"}
    /\ Ended
    /\ cut' = (cut \/ pc = "minted")
    /\ UNCHANGED <<chain, file>>

Done ==
    /\ pc = "done"
    /\ Ended
    /\ UNCHANGED <<chain, file, cut>>

\* The receipt came, or it did not and the transaction was mined later.
Settle ==
    LET after == MultiSend(batch, obj, chain) IN
    /\ pc = "settle"
    /\ after # Reverted
    /\ chain' = after
    /\ \/ /\ pc' = cont /\ batch' = {} /\ cont' = "idle"
          /\ UNCHANGED <<job, obj, flags>>
       \/ Ended
    /\ UNCHANGED <<file, cut>>

-----------------------------------------------------------------------------
(* _deploy_service_onchain_from_safe *)

RequestDeploy ==
    /\ job = "idle"
    /\ job' = "deploy" /\ pc' = "enable"
    /\ obj' = file
    /\ UNCHANGED <<chain, file, batch, cont, flags, cut>>

\* _enable_recovery_module: the agent, when it owns the Safe, enables the
\* module; a failure is logged only.
EnableModule(p) ==
    /\ pc' = p
    /\ \/ /\ file.token /\ chain.owner = "agent" /\ ~chain.module
          /\ chain' = [chain EXCEPT !.module = TRUE]
       \/ UNCHANGED chain
    /\ UNCHANGED <<file, job, locals, cut>>

Enable == pc = "enable" /\ EnableModule("sync")

\* The Safe the registry knows is stored.
SyncFrom(here, there) ==
    /\ pc = here /\ pc' = there
    /\ obj' = [obj EXCEPT !.known = obj.token /\ chain.owner # "none"]
    /\ file' = obj'
    /\ UNCHANGED <<chain, job, batch, cont, flags, cut>>

Sync == SyncFrom("sync", "plan")

\* is_update: the instances registered, the staking token, the bond or the
\* description are not those wanted.
Differs ==
    \/ ~Registered(chain)
    \/ (chain.staked = NoProgram) # (obj.program = NoProgram)
    \/ obj.program # NoProgram /\ chain.deposit # obj.program
    \/ chain.descr # obj.descr

Plan ==
    /\ pc = "plan"
    /\ update' = (obj.token /\ Differs)
    /\ pc' = IF update' THEN "prefix" ELSE "mint"
    /\ UNCHANGED <<chain, file, job, obj, batch, cont, mega, cut>>

\* _build_update_teardown_prefix returns None.
NoPrefix ==
    \/ ~obj.known
    \/ chain.staked # NoProgram /\ chain.locked
    \/ chain.owner # "master" /\ ~(chain.owner = "agent" /\ chain.module)

\* Mutant: whatever is terminated is unbonded.
TeardownUnbondsTerminated ==
    {l \in {"unstake", "terminate", "unbond", "recover"} :
        \/ l = "unstake" /\ chain.staked # NoProgram
        \/ l \in {"terminate", "unbond"} /\ chain.reg \in RequiringTerminate
        \/ l = "unbond" /\ chain.reg \in RequiringUnbond
        \/ l = "recover" /\ chain.owner # "master"}

\* The prefix otherwise.
Teardown ==
    {l \in {"unstake", "terminate", "unbond", "recover"} :
        \/ l = "unstake" /\ chain.staked # NoProgram
        \/ l = "terminate" /\ chain.reg \in RequiringTerminate
        \/ l = "unbond" /\ chain.reg \in RequiringUnbond
        \/ l = "recover" /\ chain.owner # "master"}

Prefix ==
    /\ pc = "prefix"
    /\ IF NoPrefix THEN pc' = "term" /\ UNCHANGED batch
                   ELSE pc' = "mint" /\ batch' = Teardown
    /\ UNCHANGED <<chain, file, job, obj, cont, flags, cut>>

\* _execute_recovery_module_flow_from_safe, called in PRE_REGISTRATION only.
RecoverAccess ==
    /\ pc = "recoverAccess"
    /\ IF chain.reg = "PRE_REGISTRATION" /\ chain.owner = "agent" /\ chain.module
       THEN Send({"recover"}, "mint")
       ELSE Go("mint")

HasToken == pc = "mint" /\ obj.token /\ Go("build")

Mint ==
    /\ pc = "mint" /\ ~obj.token
    /\ chain' = Minted(obj)
    /\ \/ /\ pc' = "minted"
          /\ obj' = [obj EXCEPT !.token = TRUE]
          /\ UNCHANGED <<job, batch, cont, flags, cut>>
       \/ Ended /\ cut' = TRUE
    /\ UNCHANGED file

\* Mutant: the token is not stored.
StoreTokenNot ==
    /\ pc = "minted" /\ pc' = "build"
    /\ UNCHANGED <<chain, file, job, locals, cut>>

StoreToken ==
    /\ pc = "minted" /\ pc' = "build"
    /\ file' = obj
    /\ UNCHANGED <<chain, job, locals, cut>>

\* The deployment payload chosen, from what the chain says before the batch.
Payload ==
    IF chain.owner = "none" THEN "deployNew"
    ELSE IF chain.module THEN "deployRecovery" ELSE "deploySame"

\* Building it raises when the Safe is not the Master's, unless it will be, and
\* deploySame raises also when no instance is registered (new_owners[0]).
Builds ==
    \/ Payload = "deployNew"
    \/ Payload = "deployRecovery" /\ (chain.owner = "master" \/ "recover" \in batch)
    \/ Payload = "deploySame" /\ chain.owner = "master" /\ Registered(chain)

\* Mutant: a teardown alone does not choose the batch.
MegaPathLive == chain.reg = "PRE_REGISTRATION"

MegaPath == chain.reg = "PRE_REGISTRATION" \/ batch # {}

\* Staking is left out of the batch when the program has no rewards.
Mega ==
    /\ pc = "build" /\ MegaPath
    /\ Builds
    /\ \E staking \in SUBSET {"stake"} :
         /\ obj.program = NoProgram => staking = {}
         /\ batch' = batch \cup (IF update THEN {"update"} ELSE {})
                           \cup {"activate", "register", Payload} \cup staking
    /\ mega' = TRUE
    /\ pc' = "settle" /\ cont' = "record"
    /\ UNCHANGED <<chain, file, job, obj, update, cut>>

NoMega == pc = "build" /\ ~MegaPath /\ Go("stepwise")

\* Mutant: only a first Safe is deployed.
StepwiseNewSafe ==
    /\ pc = "stepwise"
    /\ IF chain.reg = "FINISHED_REGISTRATION" /\ chain.owner = "none"
       THEN Builds /\ Send({Payload}, "record")
       ELSE Go("record")

\* The stepwise repair path; its activate and register branches are never
\* taken (StepwiseDeploysOnly).
Stepwise ==
    /\ pc = "stepwise"
    /\ IF chain.reg = "FINISHED_REGISTRATION"
       THEN Builds /\ Send({Payload}, "record")
       ELSE Go("record")

Record == SyncFrom("record", "final")

\* The initial funding, the environment variables and their store().
Final ==
    /\ pc = "final"
    /\ Go(IF obj.program # NoProgram /\ ~mega THEN "stake" ELSE "done")

\* stake_service_on_chain_from_safe; use_staking holds here.
Stake ==
    /\ pc = "stake"
    /\ IF chain.reg # "DEPLOYED" THEN Go("done")
       ELSE IF /\ chain.staked # NoProgram /\ ~chain.locked
               /\ chain.evicted \/ chain.staked # obj.program
       THEN Send({"unstake"}, "restake")
       ELSE Go("restake")

\* Not without rewards and slots.
Restake ==
    /\ pc = "restake"
    /\ \/ chain.staked = NoProgram /\ Send({"stake"}, "done")
       \/ Go("done")

-----------------------------------------------------------------------------
(* terminate_service_on_chain_from_safe, on its own or within a deploy *)

RequestTerminate ==
    /\ job = "idle"
    /\ job' = "terminate" /\ pc' = "term"
    /\ obj' = file
    /\ UNCHANGED <<chain, file, batch, cont, flags, cut>>

AfterTerm == IF job = "deploy" THEN "recoverAccess" ELSE "drain"

\* _terminate_and_unbond
Exits ==
    IF chain.reg = "ACTIVE_REGISTRATION" THEN {"terminate"}
    ELSE IF chain.reg \in {"FINISHED_REGISTRATION", "DEPLOYED"} THEN {"terminate", "unbond"}
    ELSE IF chain.reg = "TERMINATED_BONDED" THEN {"unbond"} ELSE {}

\* Mutant: a service that cannot be unstaked does not end the terminate.
TermGoesOn ==
    /\ pc = "term" /\ obj.token
    /\ IF chain.staked = NoProgram
       THEN IF Exits = {} THEN Go("owners") ELSE Send(Exits, "owners")
       ELSE IF chain.locked THEN Go("owners")
       ELSE Send({"unstake", "terminate", "unbond"}, "owners")

Term ==
    /\ pc = "term" /\ obj.token
    /\ IF chain.staked = NoProgram
       THEN IF Exits = {} THEN Go("owners") ELSE Send(Exits, "owners")
       ELSE IF chain.locked THEN Go(AfterTerm)
       ELSE Send({"unstake", "terminate", "unbond"}, "owners")

\* A Safe of the agent is handed to the Master Safe; not when the agent cannot
\* be given the gas for it and the module can recover the Safe later.
Owners ==
    /\ pc = "owners"
    /\ IF chain.owner # "agent" THEN Go(AfterTerm)
       ELSE Go("enableSwap") \/ (chain.module /\ Go(AfterTerm))

EnableSwap == pc = "enableSwap" /\ EnableModule("swap")

\* The address of the Safe is read from the stored service.
Swap == pc = "swap" /\ obj.known /\ Send({"swap"}, AfterTerm)

Drain == pc = "drain" /\ Go("done")

-----------------------------------------------------------------------------
(* What happens meanwhile *)

\* The minimum staking time is over, or the rewards are used up.  (That they
\* are refilled under a job is left out.)
Unlock ==
    /\ chain.locked
    /\ chain' = [chain EXCEPT !.locked = FALSE]
    /\ UNCHANGED <<file, job, pc, locals, cut>>

Evict ==
    /\ chain.staked # NoProgram /\ ~chain.evicted
    /\ chain' = [chain EXCEPT !.evicted = TRUE]
    /\ UNCHANGED <<file, job, pc, locals, cut>>

\* PUT or PATCH of the service, between jobs.
Update ==
    /\ job = "idle"
    /\ \E p \in Goals, d \in Descriptions :
         file' = [file EXCEPT !.program = p, !.descr = d]
    /\ UNCHANGED <<chain, job, pc, locals, cut>>

Next ==
    \/ RequestDeploy \/ RequestTerminate \/ Raise \/ Done \/ Settle
    \/ Enable \/ Sync \/ Plan \/ Prefix \/ RecoverAccess
    \/ HasToken \/ Mint \/ StoreToken
    \/ Mega \/ NoMega \/ Stepwise \/ Record \/ Final \/ Stake \/ Restake
    \/ Term \/ Owners \/ EnableSwap \/ Swap \/ Drain
    \/ Unlock \/ Evict \/ Update

Spec == Init /\ [][Next]_vars

-----------------------------------------------------------------------------
\* Every batch fits the state it is settled in: built from what the chain said
\* before its own calls, from any state an interrupted job or an older version
\* left, it is not reverted.  The exception is a stake on its own
\* (manage.py 1902-1926), whose service may have become unstakeable between the
\* teardown that was not built and the stake.
BatchesFit ==
    pc = "settle" /\ batch # {"stake"} => MultiSend(batch, obj, chain) # Reverted

\* The repair path never finds a service in PRE_REGISTRATION or
\* ACTIVE_REGISTRATION, so lines 999 to 1108 of manage.py are never run.
StepwiseDeploysOnly ==
    pc = "stepwise" => chain.reg \notin {"PRE_REGISTRATION", "ACTIVE_REGISTRATION"}

\* A deployed service's Safe is the agent's: no terminate hands the Safe to the
\* Master while the agent is registered and may run.
DeployedByAgent == chain.reg = "DEPLOYED" => chain.owner = "agent"

\* A deploy that goes on to the local deployment leaves the service deployed on
\* chain, whatever path it took and whatever state it found.
StartedDeployed == pc = "done" /\ job = "deploy" => chain.reg = "DEPLOYED"

\* A second token is minted only after a mint whose id was never stored.
NoSecondMint ==
    [][pc = "mint" /\ pc' = "minted" => chain.reg = "NON_EXISTENT" \/ cut]_vars
=============================================================================
