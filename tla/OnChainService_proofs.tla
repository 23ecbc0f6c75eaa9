---------------------- MODULE OnChainService_proofs ----------------------
(***************************************************************************)
(* Theorems about OnChainService, for any programs and descriptions: its   *)
(* type invariant, what no interrupted or repeated job can do, that every  *)
(* batch a job builds is settled, and that a deploy that ends deploys.    *)
(***************************************************************************)
EXTENDS OnChainService, TLAPS

\* A stake is only ever collected for a wanted program.
StakesWanted ==
    \/ "stake" \in batch
    \/ pc \in {"stake", "restake"}
    \/ pc = "settle" /\ cont = "restake"
    => obj.program # NoProgram

\* Where a job goes on after a batch.
Continues == pc = "settle" => cont \in {"mint", "record", "restake", "done", "owners",
                                       "recoverAccess", "drain"}

Typed == TypeOK /\ StakesWanted /\ Continues

\* The changes the calls make lead from services to services.
LEMMA ServiceChanges ==
    ASSUME NEW c \in Services
    PROVE  /\ [c EXCEPT !.module = TRUE] \in Services
           /\ [c EXCEPT !.locked = FALSE] \in Services
           /\ [c EXCEPT !.reg = "DEPLOYED", !.owner = "agent", !.module = TRUE] \in Services
           /\ [c EXCEPT !.reg = "DEPLOYED", !.owner = "agent"] \in Services
           /\ [c EXCEPT !.owner = "master"] \in Services
           /\ \A o \in Objects : [c EXCEPT !.deposit = o.program, !.descr = o.descr] \in Services
  BY DEF Services, OnChainState, Objects
LEMMA StakingChanges ==
    ASSUME NEW c \in Services
    PROVE  /\ c.staked = NoProgram => \A r \in OnChainState : [c EXCEPT !.reg = r] \in Services
           /\ c.staked # NoProgram => [c EXCEPT !.evicted = TRUE] \in Services
           /\ c.staked # NoProgram /\ ~c.locked =>
                [c EXCEPT !.staked = NoProgram, !.evicted = FALSE] \in Services
           /\ \A p \in Programs : c.reg = "DEPLOYED" =>
                [c EXCEPT !.staked = p, !.locked = TRUE] \in Services
<1>1. c.staked = NoProgram => \A r \in OnChainState : [c EXCEPT !.reg = r] \in Services
  BY DEF Services
<1>2. c.staked # NoProgram => [c EXCEPT !.evicted = TRUE] \in Services
  BY DEF Services
<1>3. c.staked # NoProgram /\ ~c.locked =>
        [c EXCEPT !.staked = NoProgram, !.evicted = FALSE] \in Services
  BY DEF Services, Goals
<1>4. ASSUME NEW p \in Programs, c.reg = "DEPLOYED"
      PROVE  [c EXCEPT !.staked = p, !.locked = TRUE] \in Services
  <2>1. p # NoProgram
    BY ProgramsAssumption
  <2>2. QED
    BY <1>4, <2>1 DEF Services, Goals
<1>5. QED
  BY <1>1, <1>2, <1>3, <1>4

\* The fields of the stored service that the jobs and the user change.
LEMMA ObjectChanges ==
    ASSUME NEW o \in Objects, NEW b \in BOOLEAN
    PROVE  /\ [o EXCEPT !.known = b] \in Objects
           /\ [o EXCEPT !.token = b] \in Objects
           /\ [o EXCEPT !.known = b].program = o.program
           /\ [o EXCEPT !.token = b].program = o.program
           /\ \A p \in Goals, d \in Descriptions :
                [o EXCEPT !.program = p, !.descr = d] \in Objects
  BY Zenon DEF Objects
LEMMA TeardownCalls == Teardown \in SUBSET Calls
  BY DEF Teardown, Calls
LEMMA MintedIsService == \A o \in Objects : Minted(o) \in Services
  BY DEF Minted, Services, Objects, OnChainState, Goals

\* What a call makes of a service is a service again, or reverted.
LEMMA CallTyped ==
    ASSUME NEW l \in Calls, NEW B, NEW o \in Objects, NEW c \in Services \cup {Reverted},
           l = "stake" /\ l \in B => o.program # NoProgram
    PROVE  Call(l, B, o, c) \in Services \cup {Reverted}
<1>1. CASE l \in B /\ c # Reverted /\ Accepted(l, o, c)
  <2> USE <1>1
  <2>1. CASE l = "unstake"
    <3>1. c \in Services /\ c.staked # NoProgram /\ ~c.locked
      BY <2>1 DEF Accepted
    <3>2. Call(l, B, o, c) = [c EXCEPT !.staked = NoProgram, !.evicted = FALSE]
      BY <2>1 DEF Effect, Call
    <3>3. QED
      BY <3>1, <3>2, StakingChanges, Zenon
  <2>2. CASE l = "terminate"
    <3>1. c.staked = NoProgram
      BY <2>2 DEF Accepted
    <3>2. QED
      BY <2>2, <3>1, StakingChanges DEF Effect, Call, OnChainState
  <2>3. CASE l \in {"unbond", "activate", "register"}
    <3>1. c \in Services /\ c.reg # "DEPLOYED"
      BY <2>3 DEF Accepted
    <3>2. c.staked = NoProgram
      BY <3>1 DEF Services
    <3>3. QED
      BY <2>3, <3>1, <3>2, StakingChanges DEF Effect, Call, OnChainState
  <2>4. CASE l \in {"recover", "swap", "update", "deployNew", "deployRecovery", "deploySame"}
    BY <2>4, ServiceChanges DEF Effect, Call
  <2>5. CASE l = "stake"
    <3>1. o.program \in Programs /\ c \in Services /\ c.reg = "DEPLOYED"
      BY <2>5 DEF Accepted, Objects, Goals
    <3>2. QED
      BY <2>5, <3>1, StakingChanges DEF Effect, Call
  <2>6. QED
    BY <2>1, <2>2, <2>3, <2>4, <2>5 DEF Calls
<1>2. CASE ~(l \in B /\ c # Reverted /\ Accepted(l, o, c))
  BY <1>2 DEF Call
<1>3. QED
  BY <1>1, <1>2

\* So is what a batch makes of it.
LEMMA MultiSendTyped ==
    ASSUME NEW B, NEW o \in Objects, NEW c \in Services,
           "stake" \in B => o.program # NoProgram
    PROVE  MultiSend(B, o, c) \in Services \cup {Reverted}
<1>1. TearDown(B, o, c) \in Services \cup {Reverted}
  BY CallTyped DEF TearDown, Calls
<1>2. \A d \in Services \cup {Reverted} : SetUp(B, o, d) \in Services \cup {Reverted}
  BY CallTyped DEF SetUp, Calls
<1>3. \A d \in Services \cup {Reverted} : DeploySafe(B, o, d) \in Services \cup {Reverted}
  BY CallTyped DEF DeploySafe, Calls
<1>4. DeploySafe(B, o, SetUp(B, o, TearDown(B, o, c))) \in Services \cup {Reverted}
  BY <1>1, <1>2, <1>3
<1>5. QED
  BY <1>4, CallTyped DEF MultiSend, Calls

LEMMA AlwaysTyped == Spec => []Typed
<1>1. Init => Typed
  <2> SUFFICES ASSUME Init PROVE Typed
    OBVIOUS
  <2>1. chain \in Services
    BY DEF Init, Minted, Services, Objects, OnChainState, Goals
  <2>2. QED
    BY <2>1 DEF Init, Typed, TypeOK, StakesWanted, Continues, Places, Deploying, Terminating
<1>2. Typed /\ [Next]_vars => Typed'
  <2> SUFFICES ASSUME Typed, [Next]_vars PROVE Typed'
    OBVIOUS
  <2> USE DEF Typed, TypeOK, StakesWanted, Continues, Places, Deploying, Terminating,
              locals, flags
  <2>1. CASE RequestDeploy
    BY <2>1 DEF RequestDeploy
  <2>2. CASE RequestTerminate
    BY <2>2 DEF RequestTerminate
  <2>3. CASE Raise
    BY <2>3 DEF Raise, Ended
  <2>4. CASE Done
    BY <2>4 DEF Done, Ended
  <2>5. CASE Settle
    <3>1. chain' \in Services /\ UNCHANGED <<file, cut>>
      BY <2>5, MultiSendTyped DEF Settle
    <3>2. CASE /\ pc' = cont /\ batch' = {} /\ cont' = "idle"
               /\ UNCHANGED <<job, obj, flags>>
      BY <2>5, <3>1, <3>2 DEF Settle
    <3>3. CASE Ended
      BY <2>5, <3>1, <3>3 DEF Ended
    <3>4. QED
      BY <2>5, <3>2, <3>3 DEF Settle
  <2>6. CASE Enable
    BY <2>6, ServiceChanges DEF Enable, EnableModule
  <2>7. CASE Sync
    <3>1. obj' \in Objects /\ obj'.program = obj.program
      BY <2>7, ObjectChanges, Zenon DEF Sync, SyncFrom
    <3>2. QED
      BY <2>7, <3>1 DEF Sync, SyncFrom
  <2>8. CASE Plan
    BY <2>8 DEF Plan
  <2>9. CASE Prefix
    <3>1. pc' \in {"term", "mint"} /\ batch' \in {batch, Teardown} /\ pc = "prefix"
      BY <2>9 DEF Prefix
    <3>2. "stake" \notin Teardown
      BY DEF Teardown
    <3>3. QED
      BY <2>9, <3>1, <3>2, TeardownCalls DEF Prefix
  <2>10. CASE RecoverAccess
    <3>1. Send({"recover"}, "mint") \/ Go("mint")
      BY <2>10, Zenon DEF RecoverAccess
    <3>2. pc = "recoverAccess"
      BY <2>10 DEF RecoverAccess
    <3>3. CASE Go("mint")
      BY <3>2, <3>3 DEF Go
    <3>4. CASE Send({"recover"}, "mint")
      <4>1. {"recover"} \in SUBSET Calls
        BY DEF Calls
      <4>2. QED
        BY <3>2, <3>4, <4>1 DEF Send
    <3>5. QED
      BY <3>1, <3>3, <3>4
  <2>11. CASE HasToken
    BY <2>11 DEF HasToken, Go
  <2>12. CASE Mint
    <3>1. chain' \in Services /\ UNCHANGED file
      BY <2>12, MintedIsService DEF Mint
    <3>2. CASE /\ pc' = "minted"
               /\ obj' = [obj EXCEPT !.token = TRUE]
               /\ UNCHANGED <<job, batch, cont, flags, cut>>
      <4>1. obj' \in Objects /\ obj'.program = obj.program
        BY <3>2, ObjectChanges, Zenon
      <4>2. QED
        BY <2>12, <3>1, <3>2, <4>1 DEF Mint
    <3>3. CASE Ended /\ cut' = TRUE
      BY <2>12, <3>1, <3>3 DEF Ended
    <3>4. QED
      BY <2>12, <3>2, <3>3 DEF Mint
  <2>13. CASE StoreToken
    BY <2>13 DEF StoreToken
  <2>14. CASE Mega
    BY <2>14 DEF Mega, Payload, Calls
  <2>15. CASE NoMega
    BY <2>15 DEF NoMega, Go
  <2>16. CASE Stepwise
    BY <2>16 DEF Stepwise, Send, Go, Payload, Calls
  <2>17. CASE Record
    <3>1. obj' \in Objects /\ obj'.program = obj.program
      BY <2>17, ObjectChanges, Zenon DEF Record, SyncFrom
    <3>2. QED
      BY <2>17, <3>1 DEF Record, SyncFrom
  <2>18. CASE Final
    BY <2>18 DEF Final, Go
  <2>19. CASE Stake
    BY <2>19 DEF Stake, Send, Go, Calls
  <2>20. CASE Restake
    BY <2>20 DEF Restake, Send, Go, Calls
  <2>21. CASE Term
    <3>1. \/ \E p \in {"owners", AfterTerm} : Go(p)
          \/ \E B \in {Exits, {"unstake", "terminate", "unbond"}} : Send(B, "owners")
      BY <2>21, Zenon DEF Term
    <3>2. pc = "term" /\ Exits \in SUBSET Calls /\ "stake" \notin Exits
      BY <2>21 DEF Term, Exits, Calls
    <3>3. AfterTerm \in {"recoverAccess", "drain"}
      BY DEF AfterTerm
    <3>4. ASSUME NEW p \in {"owners", AfterTerm}, Go(p) PROVE Typed'
      BY <3>2, <3>3, <3>4 DEF Go
    <3>5. ASSUME NEW B \in {Exits, {"unstake", "terminate", "unbond"}}, Send(B, "owners")
          PROVE Typed'
      <4>1. B \in SUBSET Calls /\ "stake" \notin B
        BY <3>2 DEF Calls
      <4>2. QED
        BY <3>2, <3>5, <4>1 DEF Send
    <3>6. QED
      BY <3>1, <3>4, <3>5
  <2>22. CASE Owners
    BY <2>22 DEF Owners, AfterTerm, Go
  <2>23. CASE EnableSwap
    BY <2>23, ServiceChanges DEF EnableSwap, EnableModule
  <2>24. CASE Swap
    BY <2>24 DEF Swap, AfterTerm, Send, Calls
  <2>25. CASE Drain
    BY <2>25 DEF Drain, Go
  <2>26. CASE Unlock
    <3>1. chain' \in Services
      BY <2>26, ServiceChanges, Zenon DEF Unlock
    <3>2. QED
      BY <2>26, <3>1 DEF Unlock
  <2>27. CASE Evict
    <3>1. chain' \in Services
      BY <2>27, StakingChanges, Zenon DEF Evict
    <3>2. QED
      BY <2>27, <3>1 DEF Evict
  <2>28. CASE Update
    <3>1. PICK p \in Goals, d \in Descriptions :
                 file' = [file EXCEPT !.program = p, !.descr = d]
      BY <2>28 DEF Update
    <3>2. file' \in Objects
      BY <3>1, ObjectChanges
    <3>3. QED
      BY <2>28, <3>2 DEF Update
  <2>29. CASE UNCHANGED vars
    BY <2>29 DEF vars
  <2>30. QED
    BY <2>1, <2>2, <2>3, <2>4, <2>5, <2>6, <2>7, <2>8, <2>9, <2>10, <2>11, <2>12,
      <2>13, <2>14, <2>15, <2>16, <2>17, <2>18, <2>19, <2>20, <2>21, <2>22, <2>23,
      <2>24, <2>25, <2>26, <2>27, <2>28, <2>29 DEF Next
<1>3. QED
  BY <1>1, <1>2, PTL DEF Spec

\* Type correctness: the jobs keep every variable in its range, and nothing is
\* collected between jobs.
THEOREM TypeCorrect == Spec => []TypeOK
  BY AlwaysTyped, PTL DEF Typed

-----------------------------------------------------------------------------
\* A job's object knows of a token exactly when the file does, but for the token
\* just minted; past the mint there is one, and a token that was minted and is
\* not in the file was lost by a cut.
Tokens ==
    /\ pc # "minted" => obj.token = file.token
    /\ pc = "minted" => obj.token
    /\ pc \notin {"idle", "done", "enable", "sync", "plan", "term", "mint", "minted"} => file.token
    /\ ~file.token /\ pc # "minted" => chain.reg = "NON_EXISTENT" \/ cut

LEMMA TokensKept == Spec => []Tokens
<1>1. Init => Tokens
  <2> SUFFICES ASSUME Init PROVE Tokens
    OBVIOUS
  <2>1. ~file.token => chain.reg = "NON_EXISTENT"
    BY DEF Init, Minted, Objects
  <2>2. QED
    BY <2>1 DEF Init, Tokens
<1>2. Typed /\ Tokens /\ [Next]_vars => Tokens'
  <2> SUFFICES ASSUME Typed, Tokens, [Next]_vars PROVE Tokens'
    OBVIOUS
  <2> USE DEF Typed, TypeOK, Continues, Tokens, locals, flags
  <2>1. CASE RequestDeploy
    BY <2>1 DEF RequestDeploy
  <2>2. CASE RequestTerminate
    BY <2>2 DEF RequestTerminate
  <2>3. CASE Raise
    BY <2>3 DEF Raise, Ended
  <2>4. CASE Done
    BY <2>4 DEF Done, Ended
  <2>5. CASE Settle
    BY <2>5 DEF Settle, Ended
  <2>6. CASE Enable
    BY <2>6 DEF Enable, EnableModule
  <2>7. CASE Sync
    BY <2>7 DEF Sync, SyncFrom
  <2>8. CASE Plan
    BY <2>8 DEF Plan
  <2>9. CASE Prefix
    BY <2>9 DEF Prefix
  <2>10. CASE RecoverAccess
    BY <2>10 DEF RecoverAccess, Send, Go
  <2>11. CASE HasToken
    BY <2>11 DEF HasToken, Go
  <2>12. CASE Mint
    <3>1. CASE pc' = "minted" /\ obj' = [obj EXCEPT !.token = TRUE]
      <4>1. obj'.token
        BY <3>1, Zenon DEF Objects
      <4>2. QED
        BY <3>1, <4>1
    <3>2. CASE Ended /\ cut' = TRUE
      BY <2>12, <3>2 DEF Mint, Ended
    <3>3. QED
      BY <2>12, <3>1, <3>2 DEF Mint
  <2>13. CASE StoreToken
    BY <2>13 DEF StoreToken
  <2>14. CASE Mega
    BY <2>14 DEF Mega, Payload
  <2>15. CASE NoMega
    BY <2>15 DEF NoMega, Go
  <2>16. CASE Stepwise
    BY <2>16 DEF Stepwise, Send, Go, Payload
  <2>17. CASE Record
    BY <2>17 DEF Record, SyncFrom
  <2>18. CASE Final
    BY <2>18 DEF Final, Go
  <2>19. CASE Stake
    BY <2>19 DEF Stake, Send, Go
  <2>20. CASE Restake
    BY <2>20 DEF Restake, Send, Go
  <2>21. CASE Term
    BY <2>21 DEF Term, Exits, AfterTerm, Send, Go
  <2>22. CASE Owners
    BY <2>22 DEF Owners, AfterTerm, Go
  <2>23. CASE EnableSwap
    BY <2>23 DEF EnableSwap, EnableModule
  <2>24. CASE Swap
    BY <2>24 DEF Swap, AfterTerm, Send
  <2>25. CASE Drain
    BY <2>25 DEF Drain, Go
  <2>26. CASE Unlock
    BY <2>26 DEF Unlock
  <2>27. CASE Evict
    BY <2>27 DEF Evict
  <2>28. CASE Update
    BY <2>28 DEF Update
  <2>29. CASE UNCHANGED vars
    BY <2>29 DEF vars
  <2>30. QED
    BY <2>1, <2>2, <2>3, <2>4, <2>5, <2>6, <2>7, <2>8, <2>9, <2>10, <2>11, <2>12,
      <2>13, <2>14, <2>15, <2>16, <2>17, <2>18, <2>19, <2>20, <2>21, <2>22, <2>23,
      <2>24, <2>25, <2>26, <2>27, <2>28, <2>29 DEF Next
<1>3. QED
  BY <1>1, <1>2, AlwaysTyped, PTL DEF Spec

\* However often a deploy is interrupted and repeated, a second token is minted
\* only after a mint whose id was never stored.
THEOREM MintedOnce == Spec => NoSecondMint
<1> DEFINE Mints == pc = "mint" /\ pc' = "minted" => chain.reg = "NON_EXISTENT" \/ cut
<1>1. Typed /\ Tokens /\ [Next]_vars => [Mints]_vars
  <2> SUFFICES ASSUME Typed, Tokens, Next, pc = "mint", pc' = "minted"
               PROVE  chain.reg = "NON_EXISTENT" \/ cut
    OBVIOUS
  <2>1. Mint
    BY DEF Next, RequestDeploy, RequestTerminate, Raise, Done, Settle, Enable, EnableModule, Sync,
           SyncFrom, Plan, Prefix, RecoverAccess, HasToken, Go, StoreToken, Mega, NoMega, Stepwise,
           Record, Final, Stake, Restake, Term, Owners, EnableSwap, Swap, Drain, Unlock, Evict,
           Update, Ended, locals, flags
  <2>2. QED
    BY <2>1 DEF Mint, Tokens
<1>2. QED
  BY <1>1, AlwaysTyped, TokensKept, PTL DEF Spec, NoSecondMint

-----------------------------------------------------------------------------
\* The registry states in which the Safe may be handed over, and the calls a job
\* takes a service down with.
Down == {"PRE_REGISTRATION", "NON_EXISTENT"}
Taking == {"unstake", "terminate", "unbond", "recover"}

\* Batches of a terminate, with the state each of them is for.
ExitFits(B, c) ==
    \/ B = {"terminate"} /\ c.reg = "ACTIVE_REGISTRATION"
    \/ B = {"unbond"} /\ c.reg = "TERMINATED_BONDED"
    \/ B = {"terminate", "unbond"} /\ c.reg \in {"FINISHED_REGISTRATION", "DEPLOYED"}
    \/ B = {"unstake", "terminate", "unbond"} /\ c.reg = "DEPLOYED"

\* What the jobs collect, and where they find the service in which state.
OnCourse ==
    /\ pc # "settle" => batch \subseteq Taking
    /\ pc = "settle" /\ cont = "owners" => ExitFits(batch, chain)
    /\ pc = "settle" /\ cont = "mint" => batch = {"recover"} /\ chain.reg = "PRE_REGISTRATION"
    /\ pc = "settle" /\ "swap" \in batch => batch = {"swap"} /\ chain.reg \in Down
    /\ pc = "settle" /\ cont = "recoverAccess" => "swap" \in batch
    /\ pc \in {"owners", "enableSwap", "swap"} => chain.reg \in Down
    /\ pc = "recoverAccess" => chain.reg \in Down \cup {"DEPLOYED"}
    /\ pc = "minted" => chain.reg = "PRE_REGISTRATION"
    /\ pc = "mint" /\ obj.token /\ batch = {} => chain.reg # "ACTIVE_REGISTRATION"
    /\ pc = "build" /\ batch = {} => chain.reg # "ACTIVE_REGISTRATION"

LEMMA NotCalled ==
    ASSUME NEW l, NEW B, NEW o, NEW c, l \notin B
    PROVE  Call(l, B, o, c) = c
  BY DEF Call

\* The registry states a single call leads to.
LEMMA CallState ==
    ASSUME NEW l \in Calls, NEW B, NEW o \in Objects, NEW c \in Services \cup {Reverted},
           Call(l, B, o, c) # Reverted
    PROVE  /\ c \in Services
           /\ l \in B => Accepted(l, o, c)
           /\ l \in B /\ l = "terminate" => Call(l, B, o, c).reg =
                IF c.reg = "ACTIVE_REGISTRATION" THEN "PRE_REGISTRATION" ELSE "TERMINATED_BONDED"
           /\ l \in B /\ l = "unbond" => Call(l, B, o, c).reg = "PRE_REGISTRATION"
           /\ l \in {"unstake", "recover", "swap"} => Call(l, B, o, c).reg = c.reg
<1>1. c \in Services /\ (l \in B => Accepted(l, o, c) /\ Call(l, B, o, c) = Effect(l, o, c))
  BY DEF Call
<1>2. l \in B /\ l = "terminate" => Effect(l, o, c).reg =
        IF c.reg = "ACTIVE_REGISTRATION" THEN "PRE_REGISTRATION" ELSE "TERMINATED_BONDED"
  BY <1>1 DEF Effect, Services
<1>3. l \in B /\ l = "unbond" => Effect(l, o, c).reg = "PRE_REGISTRATION"
  BY <1>1 DEF Effect, Services
<1>4. l \in {"unstake", "recover", "swap"} => Effect(l, o, c).reg = c.reg
  BY <1>1 DEF Effect, Services
<1>5. QED
  BY <1>1, <1>2, <1>3, <1>4, NotCalled

\* A terminate's batch leaves the service registered for nothing.
LEMMA ExitsEnd ==
    ASSUME NEW B, NEW o \in Objects, NEW c \in Services, ExitFits(B, c),
           MultiSend(B, o, c) # Reverted
    PROVE  MultiSend(B, o, c).reg = "PRE_REGISTRATION"
<1> DEFINE unstaked == Call("unstake", B, o, c)
           terminated == Call("terminate", B, o, unstaked)
           unbonded == Call("unbond", B, o, terminated)
<1>1. \A l \in Calls \ {"unstake", "terminate", "unbond"} : l \notin B
  BY DEF ExitFits, Calls
<1>2. MultiSend(B, o, c) = unbonded
  BY <1>1, NotCalled DEF MultiSend, DeploySafe, SetUp, TearDown, Calls
<1>3. /\ "stake" \notin B
      /\ unstaked \in Services \cup {Reverted} /\ terminated \in Services \cup {Reverted}
  BY <1>1, CallTyped DEF Calls
<1>4. unbonded # Reverted /\ terminated # Reverted /\ unstaked # Reverted
  BY <1>2, <1>3, CallState DEF Calls, Call
<1>5. unstaked.reg = c.reg
  BY <1>4, CallState DEF Calls
<1>6. "unbond" \in B => unbonded.reg = "PRE_REGISTRATION"
  BY <1>3, <1>4, CallState DEF Calls
<1>7. CASE "unbond" \in B
  BY <1>2, <1>6, <1>7
<1>8. CASE "unbond" \notin B
  <2>1. "terminate" \in B /\ c.reg = "ACTIVE_REGISTRATION"
    BY <1>8 DEF ExitFits
  <2>2. terminated.reg = "PRE_REGISTRATION"
    BY <2>1, <1>3, <1>4, <1>5, CallState DEF Calls
  <2>3. QED
    BY <1>2, <1>8, <2>2, NotCalled
<1>9. QED
  BY <1>7, <1>8

\* Handing the Safe over does not move the registry.
LEMMA HandOver ==
    ASSUME NEW l \in {"swap", "recover"}, NEW o \in Objects, NEW c \in Services,
           MultiSend({l}, o, c) # Reverted
    PROVE  MultiSend({l}, o, c).reg = c.reg
<1>1. MultiSend({l}, o, c) = Call(l, {l}, o, c)
  BY NotCalled DEF MultiSend, DeploySafe, SetUp, TearDown
<1>2. QED
  BY <1>1, CallState DEF Calls

\* Every call but the swap keeps a deployed service's Safe with the agent.
AgentOwns(c) == c.reg = "DEPLOYED" => c.owner = "agent"
LEMMA CallKeepsAgent ==
    ASSUME NEW l \in Calls \ {"swap"}, NEW B, NEW o \in Objects,
           NEW c \in Services \cup {Reverted}, c = Reverted \/ AgentOwns(c)
    PROVE  Call(l, B, o, c) = Reverted \/ AgentOwns(Call(l, B, o, c))
<1> SUFFICES ASSUME l \in B, c \in Services, AgentOwns(c), Accepted(l, o, c)
             PROVE  AgentOwns(Effect(l, o, c))
  BY DEF Call
<1>1. CASE l \in {"unstake", "update", "stake"}
  BY <1>1 DEF Effect, AgentOwns, Services
<1>2. CASE l \in {"terminate", "unbond", "activate", "register"}
  BY <1>2 DEF Effect, AgentOwns, Services
<1>3. CASE l \in {"deployNew", "deployRecovery", "deploySame"}
  BY <1>3 DEF Effect, AgentOwns, Services
<1>4. CASE l = "recover"
  BY <1>4 DEF Effect, Accepted, AgentOwns, Services
<1>5. QED
  BY <1>1, <1>2, <1>3, <1>4 DEF Calls

LEMMA MultiSendKeepsAgent ==
    ASSUME NEW B, NEW o \in Objects, NEW c \in Services, AgentOwns(c),
           "stake" \in B => o.program # NoProgram, "swap" \notin B,
           MultiSend(B, o, c) # Reverted
    PROVE  AgentOwns(MultiSend(B, o, c))
<1> DEFINE Kept(d) == d \in Services \cup {Reverted} /\ (d = Reverted \/ AgentOwns(d))
<1>1. ASSUME NEW l \in Calls \ {"swap"}, NEW d, Kept(d) PROVE Kept(Call(l, B, o, d))
  BY <1>1, CallTyped, CallKeepsAgent
<1> HIDE DEF Kept
<1>2. Kept(c)
  BY DEF Kept
<1>3. Kept(TearDown(B, o, c))
  BY <1>1, <1>2 DEF TearDown, Calls
<1>4. Kept(SetUp(B, o, TearDown(B, o, c)))
  BY <1>1, <1>3 DEF SetUp, Calls
<1>5. Kept(DeploySafe(B, o, SetUp(B, o, TearDown(B, o, c))))
  BY <1>1, <1>4 DEF DeploySafe, Calls
<1>6. Kept(MultiSend(B, o, c))
  BY <1>1, <1>5, NotCalled DEF MultiSend, Calls
<1>7. QED
  BY <1>6 DEF Kept

\* What the staking contract, a mint and the enabling of the module leave of the
\* registry state and the owner.
LEMMA ChainFields ==
    ASSUME NEW c \in Services, NEW o \in Objects
    PROVE  /\ [c EXCEPT !.locked = FALSE].reg = c.reg
           /\ [c EXCEPT !.evicted = TRUE].reg = c.reg
           /\ Minted(o).reg = "PRE_REGISTRATION"
  BY DEF Services, Minted

LEMMA EnablesOnly ==
    ASSUME NEW p, chain \in Services, EnableModule(p)
    PROVE  chain'.reg = chain.reg /\ chain'.owner = chain.owner
<1>1. CASE chain' = [chain EXCEPT !.module = TRUE]
  BY <1>1 DEF Services
<1>2. QED
  BY <1>1 DEF EnableModule

LEMMA StaysOnCourse == Spec => []OnCourse
<1>1. Init => OnCourse
  BY DEF Init, OnCourse
<1>2. Typed /\ OnCourse /\ [Next]_vars => OnCourse'
  <2> SUFFICES ASSUME Typed, OnCourse, [Next]_vars PROVE OnCourse'
    OBVIOUS
  <2> USE DEF Typed, TypeOK, Continues, OnCourse, Down, Taking, locals, flags
  <2>1. CASE RequestDeploy
    BY <2>1 DEF RequestDeploy
  <2>2. CASE RequestTerminate
    BY <2>2 DEF RequestTerminate
  <2>3. CASE Raise
    BY <2>3 DEF Raise, Ended
  <2>4. CASE Done
    BY <2>4 DEF Done, Ended
  <2>5. CASE Settle
    <3>1. chain' = MultiSend(batch, obj, chain) /\ chain' # Reverted /\ pc = "settle"
      BY <2>5 DEF Settle
    <3>2. CASE pc' = cont /\ batch' = {} /\ UNCHANGED obj
      <4>1. CASE cont = "owners"
        <5>1. chain'.reg = "PRE_REGISTRATION"
          BY <3>1, <4>1, ExitsEnd
        <5>2. QED
          BY <3>2, <4>1, <5>1
      <4>2. CASE cont \in {"mint", "recoverAccess"}
        <5>1. chain'.reg = chain.reg
          BY <3>1, <4>2, HandOver
        <5>2. QED
          BY <3>1, <3>2, <4>2, <5>1
      <4>3. CASE cont \in {"record", "restake", "done", "drain"}
        BY <3>2, <4>3
      <4>4. QED
        BY <3>1, <4>1, <4>2, <4>3
    <3>3. CASE Ended
      BY <3>3 DEF Ended
    <3>4. QED
      BY <2>5, <3>2, <3>3 DEF Settle
  <2>6. CASE Enable
    BY <2>6 DEF Enable, EnableModule
  <2>7. CASE Sync
    BY <2>7 DEF Sync, SyncFrom
  <2>8. CASE Plan
    <3>1. pc = "plan" /\ UNCHANGED <<chain, obj, batch>> /\ pc' \in {"prefix", "mint"}
      BY <2>8 DEF Plan
    <3>2. pc' = "mint" /\ obj.token => Registered(chain)
      BY <2>8, Zenon DEF Plan, Differs
    <3>3. QED
      BY <3>1, <3>2 DEF Registered
  <2>9. CASE Prefix
    <3>1. UNCHANGED <<chain, obj>>
      BY <2>9 DEF Prefix
    <3>2. CASE pc' = "term" /\ UNCHANGED batch
      BY <2>9, <3>2 DEF Prefix
    <3>3. CASE pc' = "mint" /\ batch' = Teardown
      <4>1. Teardown \subseteq Taking
        BY DEF Teardown
      <4>2. Teardown = {} => chain.reg \notin RequiringTerminate
        BY DEF Teardown
      <4>3. QED
        BY <3>1, <3>3, <4>1, <4>2 DEF RequiringTerminate
    <3>4. QED
      BY <2>9, <3>2, <3>3 DEF Prefix
  <2>10. CASE RecoverAccess
    BY <2>10 DEF RecoverAccess, Send, Go
  <2>11. CASE HasToken
    BY <2>11 DEF HasToken, Go
  <2>12. CASE Mint
    <3>1. CASE pc' = "minted" /\ UNCHANGED batch
      BY <2>12, <3>1, ChainFields DEF Mint
    <3>2. CASE Ended
      BY <3>2 DEF Ended
    <3>3. QED
      BY <2>12, <3>1, <3>2 DEF Mint
  <2>13. CASE StoreToken
    BY <2>13 DEF StoreToken
  <2>14. CASE Mega
    BY <2>14 DEF Mega, Payload
  <2>15. CASE NoMega
    BY <2>15 DEF NoMega, Go
  <2>16. CASE Stepwise
    BY <2>16 DEF Stepwise, Send, Go, Payload
  <2>17. CASE Record
    BY <2>17 DEF Record, SyncFrom
  <2>18. CASE Final
    BY <2>18 DEF Final, Go
  <2>19. CASE Stake
    BY <2>19 DEF Stake, Send, Go
  <2>20. CASE Restake
    BY <2>20 DEF Restake, Send, Go
  <2>21. CASE Term
    <3> USE <2>21
    <3>1. chain.reg \in OnChainState /\ (chain.staked # NoProgram => chain.reg = "DEPLOYED")
      BY DEF Services
    <3>2. CASE chain.staked = NoProgram /\ Exits = {}
      <4>1. chain.reg \in Down
        BY <3>1, <3>2 DEF Exits, OnChainState
      <4>2. pc = "term" /\ Go("owners")
        BY <3>2 DEF Term
      <4>3. QED
        BY <4>1, <4>2 DEF Go
    <3>3. CASE chain.staked = NoProgram /\ Exits # {}
      <4>1. ExitFits(Exits, chain) /\ "swap" \notin Exits
        BY <3>3 DEF Exits, ExitFits
      <4>2. Send(Exits, "owners")
        BY <3>3 DEF Term
      <4>3. QED
        BY <4>1, <4>2 DEF Send
    <3>4. CASE chain.staked # NoProgram
      <4>1. ExitFits({"unstake", "terminate", "unbond"}, chain)
        BY <3>1, <3>4 DEF ExitFits
      <4>2. Go(AfterTerm) \/ Send({"unstake", "terminate", "unbond"}, "owners")
        BY <3>4, Zenon DEF Term
      <4>3. CASE Go(AfterTerm)
        BY <3>1, <3>4, <4>3 DEF Go, AfterTerm, Term
      <4>4. CASE Send({"unstake", "terminate", "unbond"}, "owners")
        BY <4>1, <4>4 DEF Send
      <4>5. QED
        BY <4>2, <4>3, <4>4
    <3>5. QED
      BY <3>2, <3>3, <3>4
  <2>22. CASE Owners
    BY <2>22 DEF Owners, AfterTerm, Go
  <2>23. CASE EnableSwap
    <3>1. pc' = "swap" /\ UNCHANGED batch /\ pc = "enableSwap"
      BY <2>23 DEF EnableSwap, EnableModule
    <3>2. chain'.reg = chain.reg
      BY <2>23, EnablesOnly DEF EnableSwap
    <3>3. QED
      BY <3>1, <3>2
  <2>24. CASE Swap
    BY <2>24 DEF Swap, AfterTerm, Send
  <2>25. CASE Drain
    BY <2>25 DEF Drain, Go
  <2>26. CASE Unlock
    <3>1. chain'.reg = chain.reg /\ UNCHANGED <<pc, batch, cont, obj>>
      BY <2>26, ChainFields DEF Unlock
    <3>2. QED
      BY <3>1 DEF ExitFits
  <2>27. CASE Evict
    <3>1. chain'.reg = chain.reg /\ UNCHANGED <<pc, batch, cont, obj>>
      BY <2>27, ChainFields DEF Evict
    <3>2. QED
      BY <3>1 DEF ExitFits
  <2>28. CASE Update
    BY <2>28 DEF Update
  <2>29. CASE UNCHANGED vars
    BY <2>29 DEF vars
  <2>30. QED
    BY <2>1, <2>2, <2>3, <2>4, <2>5, <2>6, <2>7, <2>8, <2>9, <2>10, <2>11, <2>12,
      <2>13, <2>14, <2>15, <2>16, <2>17, <2>18, <2>19, <2>20, <2>21, <2>22, <2>23,
      <2>24, <2>25, <2>26, <2>27, <2>28, <2>29 DEF Next
<1>3. QED
  BY <1>1, <1>2, AlwaysTyped, PTL DEF Spec

\* The repair path of a deploy never meets a service in PRE_REGISTRATION or
\* ACTIVE_REGISTRATION: its activate and register steps are never taken.
THEOREM RepairDeploysOnly == Spec => []StepwiseDeploysOnly
<1>1. Init => StepwiseDeploysOnly
  BY DEF Init, StepwiseDeploysOnly
<1>2. Typed /\ OnCourse /\ StepwiseDeploysOnly /\ [Next]_vars => StepwiseDeploysOnly'
  <2> SUFFICES ASSUME Typed, OnCourse, StepwiseDeploysOnly, [Next]_vars PROVE StepwiseDeploysOnly'
    OBVIOUS
  <2> USE DEF Typed, TypeOK, Continues, StepwiseDeploysOnly, locals, flags
  <2>1. CASE RequestDeploy
    BY <2>1 DEF RequestDeploy
  <2>2. CASE RequestTerminate
    BY <2>2 DEF RequestTerminate
  <2>3. CASE Raise
    BY <2>3 DEF Raise, Ended
  <2>4. CASE Done
    BY <2>4 DEF Done, Ended
  <2>5. CASE Settle
    BY <2>5 DEF Settle, Ended
  <2>6. CASE Enable
    BY <2>6 DEF Enable, EnableModule
  <2>7. CASE Sync
    BY <2>7 DEF Sync, SyncFrom
  <2>8. CASE Plan
    BY <2>8 DEF Plan
  <2>9. CASE Prefix
    BY <2>9 DEF Prefix
  <2>10. CASE RecoverAccess
    BY <2>10 DEF RecoverAccess, Send, Go
  <2>11. CASE HasToken
    BY <2>11 DEF HasToken, Go
  <2>12. CASE Mint
    BY <2>12 DEF Mint, Ended
  <2>13. CASE StoreToken
    BY <2>13 DEF StoreToken
  <2>14. CASE Mega
    BY <2>14 DEF Mega, Payload
  <2>15. CASE NoMega
    BY <2>15 DEF NoMega, Go, MegaPath, OnCourse
  <2>16. CASE Stepwise
    BY <2>16 DEF Stepwise, Send, Go, Payload
  <2>17. CASE Record
    BY <2>17 DEF Record, SyncFrom
  <2>18. CASE Final
    BY <2>18 DEF Final, Go
  <2>19. CASE Stake
    BY <2>19 DEF Stake, Send, Go
  <2>20. CASE Restake
    BY <2>20 DEF Restake, Send, Go
  <2>21. CASE Term
    BY <2>21 DEF Term, Exits, AfterTerm, Send, Go
  <2>22. CASE Owners
    BY <2>22 DEF Owners, AfterTerm, Go
  <2>23. CASE EnableSwap
    BY <2>23 DEF EnableSwap, EnableModule
  <2>24. CASE Swap
    BY <2>24 DEF Swap, AfterTerm, Send
  <2>25. CASE Drain
    BY <2>25 DEF Drain, Go
  <2>26. CASE Unlock
    BY <2>26 DEF Unlock
  <2>27. CASE Evict
    BY <2>27 DEF Evict
  <2>28. CASE Update
    BY <2>28 DEF Update
  <2>29. CASE UNCHANGED vars
    BY <2>29 DEF vars
  <2>30. QED
    BY <2>1, <2>2, <2>3, <2>4, <2>5, <2>6, <2>7, <2>8, <2>9, <2>10, <2>11, <2>12,
      <2>13, <2>14, <2>15, <2>16, <2>17, <2>18, <2>19, <2>20, <2>21, <2>22, <2>23,
      <2>24, <2>25, <2>26, <2>27, <2>28, <2>29 DEF Next
<1>3. QED
  BY <1>1, <1>2, AlwaysTyped, StaysOnCourse, PTL DEF Spec

\* No interrupted or repeated job takes the Safe of a service that is still
\* deployed away from its agent.
THEOREM AgentKept == Spec => []DeployedByAgent
<1>1. Init => DeployedByAgent
  <2> SUFFICES ASSUME Init PROVE DeployedByAgent
    OBVIOUS
  <2>1. CASE file.token
    BY <2>1 DEF Init, Left, DeployedByAgent
  <2>2. CASE ~file.token
    BY <2>2 DEF Init, Minted, Objects, DeployedByAgent
  <2>3. QED
    BY <2>1, <2>2
<1>2. Typed /\ OnCourse /\ DeployedByAgent /\ [Next]_vars => DeployedByAgent'
  <2> SUFFICES ASSUME Typed, OnCourse, DeployedByAgent, [Next]_vars PROVE DeployedByAgent'
    OBVIOUS
  <2> USE DEF Typed, TypeOK, Continues, DeployedByAgent, locals, flags
  <2>1. CASE RequestDeploy
    BY <2>1 DEF RequestDeploy
  <2>2. CASE RequestTerminate
    BY <2>2 DEF RequestTerminate
  <2>3. CASE Raise
    BY <2>3 DEF Raise, Ended
  <2>4. CASE Done
    BY <2>4 DEF Done, Ended
  <2>5. CASE Settle
    <3>1. chain' = MultiSend(batch, obj, chain) /\ chain' # Reverted /\ pc = "settle"
      BY <2>5 DEF Settle
    <3>2. CASE "swap" \in batch
      <4>1. chain'.reg = chain.reg /\ chain.reg \in Down
        BY <3>1, <3>2, HandOver DEF OnCourse
      <4>2. QED
        BY <4>1 DEF Down
    <3>3. CASE "swap" \notin batch
      BY <3>1, <3>3, MultiSendKeepsAgent DEF AgentOwns, StakesWanted
    <3>4. QED
      BY <3>2, <3>3
  <2>6. CASE Enable
    <3>1. chain'.reg = chain.reg /\ chain'.owner = chain.owner
      BY <2>6, EnablesOnly DEF Enable
    <3>2. QED
      BY <3>1
  <2>7. CASE Sync
    BY <2>7 DEF Sync, SyncFrom
  <2>8. CASE Plan
    BY <2>8 DEF Plan
  <2>9. CASE Prefix
    BY <2>9 DEF Prefix
  <2>10. CASE RecoverAccess
    BY <2>10 DEF RecoverAccess, Send, Go
  <2>11. CASE HasToken
    BY <2>11 DEF HasToken, Go
  <2>12. CASE Mint
    <3>1. chain'.reg = "PRE_REGISTRATION"
      BY <2>12, ChainFields DEF Mint
    <3>2. QED
      BY <3>1
  <2>13. CASE StoreToken
    BY <2>13 DEF StoreToken
  <2>14. CASE Mega
    BY <2>14 DEF Mega, Payload
  <2>15. CASE NoMega
    BY <2>15 DEF NoMega, Go
  <2>16. CASE Stepwise
    BY <2>16 DEF Stepwise, Send, Go, Payload
  <2>17. CASE Record
    BY <2>17 DEF Record, SyncFrom
  <2>18. CASE Final
    BY <2>18 DEF Final, Go
  <2>19. CASE Stake
    BY <2>19 DEF Stake, Send, Go
  <2>20. CASE Restake
    BY <2>20 DEF Restake, Send, Go
  <2>21. CASE Term
    BY <2>21 DEF Term, Exits, AfterTerm, Send, Go
  <2>22. CASE Owners
    BY <2>22 DEF Owners, AfterTerm, Go
  <2>23. CASE EnableSwap
    <3>1. chain'.reg = chain.reg /\ chain'.owner = chain.owner
      BY <2>23, EnablesOnly DEF EnableSwap
    <3>2. QED
      BY <3>1
  <2>24. CASE Swap
    BY <2>24 DEF Swap, AfterTerm, Send
  <2>25. CASE Drain
    BY <2>25 DEF Drain, Go
  <2>26. CASE Unlock
    BY <2>26 DEF Unlock
  <2>27. CASE Evict
    BY <2>27 DEF Evict
  <2>28. CASE Update
    BY <2>28 DEF Update
  <2>29. CASE UNCHANGED vars
    BY <2>29 DEF vars
  <2>30. QED
    BY <2>1, <2>2, <2>3, <2>4, <2>5, <2>6, <2>7, <2>8, <2>9, <2>10, <2>11, <2>12,
      <2>13, <2>14, <2>15, <2>16, <2>17, <2>18, <2>19, <2>20, <2>21, <2>22, <2>23,
      <2>24, <2>25, <2>26, <2>27, <2>28, <2>29 DEF Next
<1>3. QED
  BY <1>1, <1>2, AlwaysTyped, StaysOnCourse, PTL DEF Spec
-----------------------------------------------------------------------------
Payloads == {"deployNew", "deployRecovery", "deploySame"}

\* How far a deploy has come: a token exists once it is stored, the repair path is
\* for a registered agent, a batch that is recorded deploys the Safe, and after it
\* only the staking changes.  A terminate ends with the drain.
Deployable ==
    /\ file.token => chain.reg # "NON_EXISTENT"
    /\ pc \in {"mint", "build"} /\ file.token /\ batch = {} => chain.reg # "TERMINATED_BONDED"
    /\ pc = "stepwise" => chain.reg \in {"FINISHED_REGISTRATION", "DEPLOYED"}
    /\ pc \in {"record", "final", "stake", "restake"} => chain.reg = "DEPLOYED"
    /\ pc = "done" /\ job = "deploy" => chain.reg = "DEPLOYED"
    /\ pc = "drain" \/ (pc = "settle" /\ cont = "drain") => job = "terminate"
    /\ pc = "settle" /\ cont = "record" => "swap" \notin batch /\ batch \cap Payloads # {}
    /\ pc = "settle" /\ cont \in {"restake", "done"} =>
         chain.reg = "DEPLOYED" /\ batch \in {{"unstake"}, {"stake"}}

\* No call takes a token away, and after its payload a batch without a swap has left the
\* service deployed.
LEMMA CallRegistry ==
    ASSUME NEW l \in Calls, NEW B, NEW o \in Objects, NEW c \in Services \cup {Reverted},
           Call(l, B, o, c) # Reverted
    PROVE  /\ c # Reverted
           /\ c.reg # "NON_EXISTENT" => Call(l, B, o, c).reg # "NON_EXISTENT"
           /\ l \in B /\ l \in Payloads => Call(l, B, o, c).reg = "DEPLOYED"
           /\ l \in Payloads \cup {"stake"} /\ c.reg = "DEPLOYED" => Call(l, B, o, c).reg = "DEPLOYED"
<1>1. CASE l \notin B
  BY <1>1, NotCalled
<1>2. CASE l \in B
  <2>1. c \in Services /\ c # Reverted /\ Accepted(l, o, c) /\ Call(l, B, o, c) = Effect(l, o, c)
    BY <1>2 DEF Call
  <2>2. CASE l \in {"unstake", "recover", "swap", "update", "stake"}
    BY <2>1, <2>2 DEF Effect, Services, Payloads
  <2>3. CASE l \in {"terminate", "unbond", "activate", "register"}
    BY <2>1, <2>3 DEF Effect, Services, Payloads
  <2>4. CASE l \in Payloads
    BY <2>1, <2>4 DEF Effect, Services, Payloads
  <2>5. QED
    BY <2>1, <2>2, <2>3, <2>4 DEF Calls, Payloads
<1>3. QED
  BY <1>1, <1>2

LEMMA StaysMinted ==
    ASSUME NEW B, NEW o \in Objects, NEW c \in Services, c.reg # "NON_EXISTENT",
           "stake" \in B => o.program # NoProgram, MultiSend(B, o, c) # Reverted
    PROVE  MultiSend(B, o, c).reg # "NON_EXISTENT"
<1> DEFINE Kept(d) == d \in Services \cup {Reverted} /\ (d = Reverted \/ d.reg # "NON_EXISTENT")
<1>1. ASSUME NEW l \in Calls, NEW d, Kept(d) PROVE Kept(Call(l, B, o, d))
  BY <1>1, CallTyped, CallRegistry
<1> HIDE DEF Kept
<1>2. Kept(c)
  BY DEF Kept
<1>3. Kept(TearDown(B, o, c))
  BY <1>1, <1>2 DEF TearDown, Calls
<1>4. Kept(SetUp(B, o, TearDown(B, o, c)))
  BY <1>1, <1>3 DEF SetUp, Calls
<1>5. Kept(DeploySafe(B, o, SetUp(B, o, TearDown(B, o, c))))
  BY <1>1, <1>4 DEF DeploySafe, Calls
<1>6. Kept(MultiSend(B, o, c))
  BY <1>1, <1>5 DEF MultiSend, Calls
<1>7. QED
  BY <1>6 DEF Kept

LEMMA PayloadDeploys ==
    ASSUME NEW B, NEW o \in Objects, NEW c \in Services, B \cap Payloads # {}, "swap" \notin B,
           "stake" \in B => o.program # NoProgram, MultiSend(B, o, c) # Reverted
    PROVE  MultiSend(B, o, c).reg = "DEPLOYED"
<1> DEFINE before == SetUp(B, o, TearDown(B, o, c))
           fresh == Call("deployNew", B, o, before)
           recovered == Call("deployRecovery", B, o, fresh)
           deployed == Call("deploySame", B, o, recovered)
           staked == Call("stake", B, o, deployed)
<1>1. before \in Services \cup {Reverted}
  <2>1. TearDown(B, o, c) \in Services \cup {Reverted}
    BY CallTyped DEF TearDown, Calls
  <2>2. QED
    BY <2>1, CallTyped DEF SetUp, Calls
<1> HIDE DEF before
<1>2. fresh \in Services \cup {Reverted}
  BY <1>1, CallTyped DEF Calls
<1>3. recovered \in Services \cup {Reverted}
  BY <1>2, CallTyped DEF Calls
<1>4. deployed \in Services \cup {Reverted}
  BY <1>3, CallTyped DEF Calls
<1>5. MultiSend(B, o, c) = staked
  BY NotCalled DEF MultiSend, DeploySafe, before, Calls
<1>6. staked # Reverted /\ deployed # Reverted /\ recovered # Reverted /\ fresh # Reverted
  BY <1>5 DEF Call
<1> HIDE DEF fresh, recovered, deployed, staked
<1>7. /\ "deployNew" \in B => fresh.reg = "DEPLOYED"
      /\ "deployRecovery" \in B \/ fresh.reg = "DEPLOYED" => recovered.reg = "DEPLOYED"
      /\ "deploySame" \in B \/ recovered.reg = "DEPLOYED" => deployed.reg = "DEPLOYED"
      /\ deployed.reg = "DEPLOYED" => staked.reg = "DEPLOYED"
  <2> USE DEF Calls, Payloads
  <2>1. "deployNew" \in B => fresh.reg = "DEPLOYED"
    BY <1>1, <1>6, CallRegistry DEF fresh
  <2>2. "deployRecovery" \in B \/ fresh.reg = "DEPLOYED" => recovered.reg = "DEPLOYED"
    BY <1>2, <1>6, CallRegistry DEF recovered
  <2>3. "deploySame" \in B \/ recovered.reg = "DEPLOYED" => deployed.reg = "DEPLOYED"
    BY <1>3, <1>6, CallRegistry DEF deployed
  <2>4. deployed.reg = "DEPLOYED" => staked.reg = "DEPLOYED"
    BY <1>4, <1>6, CallRegistry DEF staked
  <2>5. QED
    BY <2>1, <2>2, <2>3, <2>4
<1>8. QED
  BY <1>5, <1>7 DEF Payloads

\* The batch of a staking step keeps a deployed service deployed.
LEMMA StakingStays ==
    ASSUME NEW l \in {"unstake", "stake"}, NEW o \in Objects, NEW c \in Services,
           l = "stake" => o.program # NoProgram,
           c.reg = "DEPLOYED", MultiSend({l}, o, c) # Reverted
    PROVE  MultiSend({l}, o, c).reg = "DEPLOYED"
<1>1. MultiSend({l}, o, c) = Call(l, {l}, o, c)
  BY NotCalled DEF MultiSend, DeploySafe, SetUp, TearDown
<1>2. QED
  BY <1>1, CallState, CallRegistry DEF Calls

\* Deployable is inductive: the repair path is only reached from a state without an
\* update, or after a teardown that was not built and a terminate that was.
LEMMA StaysDeployable == Spec => []Deployable
<1>1. Init => Deployable
  <2> SUFFICES ASSUME Init PROVE Deployable
    OBVIOUS
  <2>1. file.token => chain.reg # "NON_EXISTENT"
    BY DEF Init, Left
  <2>2. QED
    BY <2>1 DEF Init, Deployable
<1>2. Typed /\ Tokens /\ OnCourse /\ Deployable /\ [Next]_vars => Deployable'
  <2> SUFFICES ASSUME Typed, Tokens, OnCourse, Deployable, [Next]_vars PROVE Deployable'
    OBVIOUS
  <2> USE DEF Typed, TypeOK, Continues, Deployable, locals, flags
  <2>1. CASE RequestDeploy
    BY <2>1 DEF RequestDeploy
  <2>2. CASE RequestTerminate
    BY <2>2 DEF RequestTerminate
  <2>3. CASE Raise
    BY <2>3 DEF Raise, Ended
  <2>4. CASE Done
    BY <2>4 DEF Done, Ended
  <2>5. CASE Settle
    <3>1. chain' = MultiSend(batch, obj, chain) /\ chain' # Reverted /\ pc = "settle" /\ UNCHANGED file
      BY <2>5 DEF Settle
    <3>2. file.token => chain'.reg # "NON_EXISTENT"
      BY <3>1, StaysMinted DEF StakesWanted
    <3>3. CASE pc' = cont /\ batch' = {} /\ cont' = "idle" /\ UNCHANGED <<job, obj>>
      <4>1. CASE cont = "record"
        <5>1. chain'.reg = "DEPLOYED"
          BY <3>1, <4>1, PayloadDeploys DEF StakesWanted
        <5>2. QED
          BY <3>1, <3>2, <3>3, <4>1, <5>1
      <4>2. CASE cont \in {"restake", "done"}
        <5>1. chain'.reg = "DEPLOYED"
          BY <3>1, <4>2, StakingStays DEF StakesWanted
        <5>2. QED
          BY <3>1, <3>2, <3>3, <4>2, <5>1
      <4>3. CASE cont = "mint"
        <5>1. chain'.reg = "PRE_REGISTRATION"
          BY <3>1, <4>3, HandOver DEF OnCourse
        <5>2. QED
          BY <3>1, <3>2, <3>3, <4>3, <5>1
      <4>4. CASE cont \in {"owners", "recoverAccess", "drain"}
        BY <3>1, <3>2, <3>3, <4>4
      <4>5. QED
        BY <3>1, <4>1, <4>2, <4>3, <4>4
    <3>4. CASE Ended
      BY <3>1, <3>2, <3>4 DEF Ended
    <3>5. QED
      BY <2>5, <3>3, <3>4 DEF Settle
  <2>6. CASE Enable
    <3>1. chain'.reg = chain.reg /\ UNCHANGED <<file, job, batch, cont>>
      BY <2>6, EnablesOnly DEF Enable, EnableModule
    <3>2. QED
      BY <2>6, <3>1 DEF Enable, EnableModule
  <2>7. CASE Sync
    <3>1. obj'.token = obj.token
      BY <2>7 DEF Sync, SyncFrom, Objects
    <3>2. UNCHANGED <<chain, job, batch, cont>> /\ pc = "sync" /\ pc' = "plan" /\ file' = obj'
      BY <2>7 DEF Sync, SyncFrom
    <3>3. QED
      BY <3>1, <3>2 DEF Tokens
  <2>8. CASE Plan
    <3>1. pc = "plan" /\ UNCHANGED <<chain, file, job, obj, batch, cont>> /\ pc' \in {"prefix", "mint"}
      BY <2>8 DEF Plan
    <3>2. pc' = "mint" /\ obj.token => Registered(chain)
      BY <2>8, Zenon DEF Plan, Differs
    <3>3. QED
      BY <3>1, <3>2 DEF Registered, Tokens
  <2>9. CASE Prefix
    <3>1. UNCHANGED <<chain, file, job, cont>>
      BY <2>9 DEF Prefix
    <3>2. CASE pc' = "term" /\ UNCHANGED batch
      BY <3>1, <3>2
    <3>3. CASE pc' = "mint" /\ batch' = Teardown
      <4>1. Teardown = {} => chain.reg \notin RequiringUnbond
        BY DEF Teardown
      <4>2. QED
        BY <3>1, <3>3, <4>1 DEF RequiringUnbond
    <3>4. QED
      BY <2>9, <3>2, <3>3 DEF Prefix
  <2>10. CASE RecoverAccess
    BY <2>10 DEF RecoverAccess, Send, Go, OnCourse, Down
  <2>11. CASE HasToken
    BY <2>11 DEF HasToken, Go, Tokens
  <2>12. CASE Mint
    <3>1. chain'.reg = "PRE_REGISTRATION" /\ UNCHANGED file
      BY <2>12, ChainFields DEF Mint
    <3>2. CASE pc' = "minted" /\ UNCHANGED <<job, batch, cont>>
      BY <3>1, <3>2
    <3>3. CASE Ended
      BY <3>1, <3>3 DEF Ended
    <3>4. QED
      BY <2>12, <3>2, <3>3 DEF Mint
  <2>13. CASE StoreToken
    BY <2>13 DEF StoreToken, OnCourse
  <2>14. CASE Mega
    <3>1. Payload \in Payloads
      BY DEF Payload, Payloads
    <3>2. PICK staking \in SUBSET {"stake"} :
            batch' = batch \cup (IF update THEN {"update"} ELSE {})
                           \cup {"activate", "register", Payload} \cup staking
      BY <2>14 DEF Mega
    <3>3. "swap" \notin batch' /\ batch' \cap Payloads # {}
      BY <2>14, <3>1, <3>2 DEF Mega, OnCourse, Taking, Payload
    <3>4. pc' = "settle" /\ cont' = "record" /\ UNCHANGED <<chain, file, job>>
      BY <2>14 DEF Mega
    <3>5. QED
      BY <3>3, <3>4
  <2>15. CASE NoMega
    <3>1. pc = "build" /\ pc' = "stepwise" /\ batch = {} /\ UNCHANGED <<chain, file, job, batch, cont>>
      BY <2>15 DEF NoMega, Go, MegaPath
    <3>2. file.token /\ chain.reg \notin {"PRE_REGISTRATION", "ACTIVE_REGISTRATION"}
      BY <2>15, <3>1 DEF NoMega, MegaPath, OnCourse, Tokens
    <3>3. chain.reg \in OnChainState
      BY DEF Services
    <3>4. QED
      BY <3>1, <3>2, <3>3 DEF OnChainState
  <2>16. CASE Stepwise
    <3>1. Payload \in Payloads /\ Payload # "swap"
      BY DEF Payload, Payloads
    <3>2. CASE Send({Payload}, "record")
      BY <2>16, <3>1, <3>2 DEF Stepwise, Send
    <3>3. CASE Go("record") /\ chain.reg # "FINISHED_REGISTRATION"
      BY <2>16, <3>3 DEF Stepwise, Go
    <3>4. QED
      BY <2>16, <3>2, <3>3, Zenon DEF Stepwise
  <2>17. CASE Record
    <3>1. obj'.token = obj.token
      BY <2>17 DEF Record, SyncFrom, Objects
    <3>2. UNCHANGED <<chain, job, batch, cont>> /\ pc = "record" /\ pc' = "final" /\ file' = obj'
      BY <2>17 DEF Record, SyncFrom
    <3>3. QED
      BY <3>1, <3>2 DEF Tokens
  <2>18. CASE Final
    BY <2>18 DEF Final, Go
  <2>19. CASE Stake
    BY <2>19 DEF Stake, Send, Go
  <2>20. CASE Restake
    BY <2>20 DEF Restake, Send, Go
  <2>21. CASE Term
    <3>1. \/ Go("owners") \/ Go(AfterTerm)
          \/ \E B \in {Exits, {"unstake", "terminate", "unbond"}} : Send(B, "owners")
      BY <2>21, Zenon DEF Term
    <3>2. pc = "term"
      BY <2>21 DEF Term
    <3>3. CASE Go("owners")
      BY <3>2, <3>3 DEF Go
    <3>4. CASE Go(AfterTerm)
      BY <3>2, <3>4 DEF Go, AfterTerm
    <3>5. CASE \E B \in {Exits, {"unstake", "terminate", "unbond"}} : Send(B, "owners")
      BY <3>2, <3>5 DEF Send
    <3>6. QED
      BY <3>1, <3>3, <3>4, <3>5
  <2>22. CASE Owners
    BY <2>22 DEF Owners, AfterTerm, Go
  <2>23. CASE EnableSwap
    <3>1. chain'.reg = chain.reg /\ UNCHANGED <<file, job, batch, cont>>
      BY <2>23, EnablesOnly DEF EnableSwap, EnableModule
    <3>2. QED
      BY <2>23, <3>1 DEF EnableSwap, EnableModule
  <2>24. CASE Swap
    BY <2>24 DEF Swap, AfterTerm, Send
  <2>25. CASE Drain
    BY <2>25 DEF Drain, Go
  <2>26. CASE Unlock
    <3>1. chain'.reg = chain.reg /\ UNCHANGED <<file, job, pc, batch, cont>>
      BY <2>26, ChainFields DEF Unlock
    <3>2. QED
      BY <3>1
  <2>27. CASE Evict
    <3>1. chain'.reg = chain.reg /\ UNCHANGED <<file, job, pc, batch, cont>>
      BY <2>27, ChainFields DEF Evict
    <3>2. QED
      BY <3>1
  <2>28. CASE Update
    <3>1. PICK p \in Goals, d \in Descriptions :
                 file' = [file EXCEPT !.program = p, !.descr = d]
      BY <2>28, Zenon DEF Update
    <3>2. file'.token = file.token
      BY <3>1 DEF Objects
    <3>3. QED
      BY <2>28, <3>2 DEF Update
  <2>29. CASE UNCHANGED vars
    BY <2>29 DEF vars
  <2>30. QED
    BY <2>1, <2>2, <2>3, <2>4, <2>5, <2>6, <2>7, <2>8, <2>9, <2>10, <2>11, <2>12,
      <2>13, <2>14, <2>15, <2>16, <2>17, <2>18, <2>19, <2>20, <2>21, <2>22, <2>23,
      <2>24, <2>25, <2>26, <2>27, <2>28, <2>29 DEF Next
<1>3. QED
  BY <1>1, <1>2, AlwaysTyped, TokensKept, StaysOnCourse, PTL DEF Spec

\* A deploy that ends without an error has left the service deployed on chain,
\* whatever it found and whichever path it took.
THEOREM DeployDeploys == Spec => []StartedDeployed
<1>1. Deployable => StartedDeployed
  BY DEF Deployable, StartedDeployed
<1>2. QED
  BY <1>1, StaysDeployable, PTL

\* What a batch that takes a service down, or the first part of one that deploys it
\* anew, needs of the state it is settled in.
TearFits(B, c) ==
    /\ c.reg # "NON_EXISTENT"
    /\ "unstake" \in B <=> c.staked # NoProgram
    /\ "unstake" \in B => ~c.locked
    /\ "terminate" \in B <=> c.reg \in RequiringTerminate
    /\ "unbond" \in B <=> c.reg \in RequiringUnbond
    /\ "recover" \in B => c.owner = "agent" /\ c.module

\* The payload in B deploys a Safe as the registry finds it: none, or one that is the
\* Master's, if need be after the recovery.
PayloadFits(B, c) ==
    \/ B \cap Payloads = {"deployNew"} /\ c.owner = "none" /\ "recover" \notin B
    \/ B \cap Payloads = {"deployRecovery"} /\ c.module /\ (c.owner = "master" \/ "recover" \in B)
    \/ B \cap Payloads = {"deploySame"} /\ c.owner = "master"

MegaFits(B, o, c) ==
    /\ TearFits(B, c) /\ PayloadFits(B, c)
    /\ {"activate", "register"} \subseteq B /\ "swap" \notin B
    /\ "update" \in B \/ c.deposit = o.program

StepFits(B, c) == /\ B \subseteq Payloads /\ PayloadFits(B, c)
                  /\ c.reg = "FINISHED_REGISTRATION"

\* What is collected fits the state of the chain, at each place where it is settled or
\* carried to one.  Between an update's teardown that is not built and the mint, the
\* plan stays an update; without one there is nothing to tear down, and the bond is the
\* wanted one or the agent is registered already.
Fits ==
    /\ pc \notin {"settle", "mint", "build"} => batch = {}
    /\ pc \in {"prefix", "recoverAccess"} => update
    /\ job = "deploy" /\ (pc \in {"term", "owners", "enableSwap", "swap"}
                          \/ (pc = "settle" /\ cont = "owners")) => update
    /\ pc = "settle" /\ cont \in {"mint", "recoverAccess"} => update
    /\ pc \in {"mint", "build"} /\ batch # {} =>
         obj.token /\ update /\ batch = Teardown /\ TearFits(batch, chain) /\ chain.owner # "none"
    /\ pc \in {"mint", "minted", "build"} /\ ~update =>
         batch = {} /\ (~obj.token \/ Registered(chain) \/ chain.deposit = obj.program)
    /\ pc \in {"enableSwap", "swap"} => chain.owner = "agent"
    /\ pc = "settle" /\ cont \in {"mint", "owners"} => batch \subseteq Taking /\ TearFits(batch, chain)
    /\ pc = "settle" /\ cont = "record" => MegaFits(batch, obj, chain) \/ StepFits(batch, chain)
    /\ pc = "settle" /\ cont = "restake" =>
         batch = {"unstake"} /\ chain.staked # NoProgram /\ ~chain.locked
    /\ pc = "settle" /\ cont = "done" => batch = {"stake"}
    /\ pc = "settle" /\ cont \in {"recoverAccess", "drain"} =>
         batch = {"swap"} /\ chain.owner = "agent"

\* A service that differs in the staking contract's marks only, and is not locked if the
\* other is not, fits the same batches.
Alike(c, d) ==
    /\ d.reg = c.reg /\ d.owner = c.owner /\ d.module = c.module
    /\ d.deposit = c.deposit /\ d.staked = c.staked
    /\ d.locked => c.locked

LEMMA AlikeFits ==
    ASSUME NEW c, NEW d, Alike(c, d), NEW B, NEW o
    PROVE  /\ TearFits(B, c) => TearFits(B, d)
           /\ MegaFits(B, o, c) => MegaFits(B, o, d)
           /\ StepFits(B, c) => StepFits(B, d)
  BY DEF Alike, TearFits, MegaFits, StepFits, PayloadFits

\* A call that is accepted has its effect.
LEMMA CallRuns ==
    ASSUME NEW l, NEW B, NEW o, NEW c \in Services, l \in B, Accepted(l, o, c)
    PROVE  Call(l, B, o, c) = Effect(l, o, c)
  BY RevertedAssumption DEF Call

\* A teardown that fits is not reverted and leaves a token in PRE_REGISTRATION.
LEMMA TearsDown ==
    ASSUME NEW B, NEW o \in Objects, NEW c \in Services, TearFits(B, c)
    PROVE  /\ TearDown(B, o, c) \in Services
           /\ TearDown(B, o, c).reg = "PRE_REGISTRATION"
           /\ TearDown(B, o, c).owner = IF "recover" \in B THEN "master" ELSE c.owner
           /\ TearDown(B, o, c).module = c.module
           /\ TearDown(B, o, c).deposit = c.deposit
<1> DEFINE unstaked == Call("unstake", B, o, c)
           terminated == Call("terminate", B, o, unstaked)
           unbonded == Call("unbond", B, o, terminated)
           recovered == Call("recover", B, o, unbonded)
           Like(d) == /\ d \in Services /\ d.staked = NoProgram /\ d.owner = c.owner
                      /\ d.module = c.module /\ d.deposit = c.deposit
<1>1. Like(unstaked) /\ unstaked.reg = c.reg
  <2>1. CASE "unstake" \in B
    <3>1. unstaked = [c EXCEPT !.staked = NoProgram, !.evicted = FALSE]
      <4>1. unstaked = Effect("unstake", o, c)
        BY <2>1, CallRuns DEF TearFits, Accepted
      <4>2. QED
        BY <4>1 DEF Effect
    <3>2. unstaked \in Services
      BY <3>1, <2>1, StakingChanges, Zenon DEF TearFits
    <3>3. /\ unstaked.staked = NoProgram /\ unstaked.reg = c.reg /\ unstaked.owner = c.owner
          /\ unstaked.module = c.module /\ unstaked.deposit = c.deposit
      <4>1. c \in Services
        OBVIOUS
      <4> HIDE DEF unstaked
      <4>2. QED
        BY <3>1, <4>1 DEF Services
    <3>4. QED
      BY <3>2, <3>3
  <2>2. CASE "unstake" \notin B
    BY <2>2, NotCalled DEF TearFits
  <2>3. QED
    BY <2>1, <2>2
<1> HIDE DEF unstaked
<1>2. /\ Like(terminated)
      /\ "terminate" \in B => terminated.reg = IF c.reg = "ACTIVE_REGISTRATION"
                                              THEN "PRE_REGISTRATION" ELSE "TERMINATED_BONDED"
      /\ "terminate" \notin B => terminated.reg = c.reg
  <2>1. CASE "terminate" \in B
    <3>1. terminated = Effect("terminate", o, unstaked)
      BY <1>1, <2>1, CallRuns DEF TearFits, Accepted
    <3>2. PICK r \in {"PRE_REGISTRATION", "TERMINATED_BONDED"} :
            /\ terminated = [unstaked EXCEPT !.reg = r]
            /\ r = IF c.reg = "ACTIVE_REGISTRATION" THEN "PRE_REGISTRATION" ELSE "TERMINATED_BONDED"
      BY <1>1, <3>1 DEF Effect, Services
    <3>3. terminated \in Services
      <4>1. \A p \in OnChainState : [unstaked EXCEPT !.reg = p] \in Services
        BY <1>1, StakingChanges, Zenon
      <4>2. QED
        BY <3>2, <4>1, Zenon DEF OnChainState
    <3>4. QED
      BY <1>1, <2>1, <3>2, <3>3 DEF Services
  <2>2. CASE "terminate" \notin B
    BY <1>1, <2>2, NotCalled
  <2>3. QED
    BY <2>1, <2>2
<1> HIDE DEF terminated
<1>3. Like(unbonded) /\ unbonded.reg = "PRE_REGISTRATION"
  <2>1. CASE "unbond" \in B
    <3>1. terminated.reg = "TERMINATED_BONDED"
      BY <1>2, <2>1 DEF TearFits, RequiringTerminate, RequiringUnbond
    <3>2. unbonded = [terminated EXCEPT !.reg = "PRE_REGISTRATION"]
      <4>1. unbonded = Effect("unbond", o, terminated)
        BY <1>2, <2>1, <3>1, CallRuns DEF Accepted
      <4>2. QED
        BY <4>1 DEF Effect
    <3>3. unbonded \in Services
      BY <1>2, <3>2, StakingChanges, Zenon DEF OnChainState
    <3>4. QED
      BY <1>2, <3>2, <3>3 DEF Services
  <2>2. CASE "unbond" \notin B
    <3>1. terminated.reg = "PRE_REGISTRATION"
      BY <1>2, <2>2 DEF TearFits, RequiringTerminate, RequiringUnbond, Services, OnChainState
    <3>2. QED
      BY <1>2, <2>2, <3>1, NotCalled
  <2>3. QED
    BY <2>1, <2>2
<1> HIDE DEF unbonded
<1>4. /\ recovered \in Services /\ recovered.reg = "PRE_REGISTRATION"
      /\ recovered.owner = IF "recover" \in B THEN "master" ELSE c.owner
      /\ recovered.module = c.module /\ recovered.deposit = c.deposit
  <2>1. CASE "recover" \in B
    <3>1. recovered = [unbonded EXCEPT !.owner = "master"]
      <4>1. recovered = Effect("recover", o, unbonded)
        BY <1>3, <2>1, CallRuns DEF TearFits, Accepted
      <4>2. QED
        BY <4>1 DEF Effect
    <3>2. recovered \in Services
      BY <1>3, <3>1, ServiceChanges, Zenon
    <3>3. QED
      BY <1>3, <2>1, <3>1, <3>2 DEF Services
  <2>2. CASE "recover" \notin B
    BY <1>3, <2>2, NotCalled
  <2>3. QED
    BY <2>1, <2>2
<1>5. TearDown(B, o, c) = recovered
  BY DEF TearDown, unbonded, terminated, unstaked
<1>6. QED
  BY <1>4, <1>5

\* The registration that follows is not reverted: the bond is the wanted one, or updated.
LEMMA SetsUp ==
    ASSUME NEW B, NEW o \in Objects, NEW c \in Services, c.reg = "PRE_REGISTRATION",
           {"activate", "register"} \subseteq B, "update" \in B \/ c.deposit = o.program
    PROVE  /\ SetUp(B, o, c) \in Services
           /\ SetUp(B, o, c).reg = "FINISHED_REGISTRATION"
           /\ SetUp(B, o, c).owner = c.owner /\ SetUp(B, o, c).module = c.module
           /\ SetUp(B, o, c).deposit = o.program
<1> DEFINE updated == Call("update", B, o, c)
           active == Call("activate", B, o, updated)
           registered == Call("register", B, o, active)
           Like(d) == /\ d \in Services /\ d.staked = NoProgram /\ d.owner = c.owner
                      /\ d.module = c.module /\ d.deposit = o.program
<1>1. Like(updated) /\ updated.reg = "PRE_REGISTRATION"
  <2>1. c.staked = NoProgram
    BY DEF Services
  <2>2. CASE "update" \in B
    <3>1. updated = [c EXCEPT !.deposit = o.program, !.descr = o.descr]
      <4>1. updated = Effect("update", o, c)
        BY <2>2, CallRuns DEF Accepted
      <4>2. QED
        BY <4>1 DEF Effect
    <3>2. updated \in Services
      BY <3>1, ServiceChanges, Zenon
    <3>3. QED
      BY <2>1, <3>1, <3>2 DEF Services
  <2>3. CASE "update" \notin B
    BY <2>1, <2>3, NotCalled
  <2>4. QED
    BY <2>2, <2>3
<1> HIDE DEF updated
<1>2. Like(active) /\ active.reg = "ACTIVE_REGISTRATION"
  <2>1. active = [updated EXCEPT !.reg = "ACTIVE_REGISTRATION"]
    <3>1. active = Effect("activate", o, updated)
      BY <1>1, CallRuns DEF Accepted
    <3>2. QED
      BY <3>1 DEF Effect
  <2>2. active \in Services
    BY <1>1, <2>1, StakingChanges, Zenon DEF OnChainState
  <2>3. QED
    BY <1>1, <2>1, <2>2 DEF Services
<1> HIDE DEF active
<1>3. Like(registered) /\ registered.reg = "FINISHED_REGISTRATION"
  <2>1. registered = [active EXCEPT !.reg = "FINISHED_REGISTRATION"]
    <3>1. registered = Effect("register", o, active)
      BY <1>2, CallRuns DEF Accepted
    <3>2. QED
      BY <3>1 DEF Effect
  <2>2. registered \in Services
    BY <1>2, <2>1, StakingChanges, Zenon DEF OnChainState
  <2>3. QED
    BY <1>2, <2>1, <2>2 DEF Services
<1>4. SetUp(B, o, c) = registered
  BY DEF SetUp, active, updated
<1>5. QED
  BY <1>3, <1>4

\* The payload that fits deploys the Safe.
LEMMA PayloadRuns ==
    ASSUME NEW B, NEW o \in Objects, NEW c \in Services, c.reg = "FINISHED_REGISTRATION",
           PayloadFits(B, c), "recover" \in B => c.owner = "master"
    PROVE  /\ DeploySafe(B, o, c) \in Services
           /\ DeploySafe(B, o, c).reg = "DEPLOYED"
           /\ DeploySafe(B, o, c).staked = NoProgram
           /\ DeploySafe(B, o, c).deposit = c.deposit
<1>1. PICK l \in Payloads : B \cap Payloads = {l} /\ Accepted(l, o, c)
  BY DEF PayloadFits, Payloads, Accepted
<1>2. /\ Call(l, B, o, c) = Effect(l, o, c)
      /\ \A k \in Payloads \ {l}, d \in {c, Effect(l, o, c)} : Call(k, B, o, d) = d
  BY <1>1, CallRuns, NotCalled
<1>3. DeploySafe(B, o, c) = Effect(l, o, c)
  BY <1>1, <1>2 DEF DeploySafe, Payloads
<1>4. Effect(l, o, c) \in {[c EXCEPT !.reg = "DEPLOYED", !.owner = "agent", !.module = TRUE],
                           [c EXCEPT !.reg = "DEPLOYED", !.owner = "agent"]}
  BY <1>1 DEF Payloads, Effect
<1>5. DeploySafe(B, o, c) \in Services
  BY <1>3, <1>4, ServiceChanges, Zenon
<1>6. QED
  BY <1>3, <1>4, <1>5 DEF Services

\* A batch that fits is settled.
LEMMA TearSettles ==
    ASSUME NEW B, NEW o \in Objects, NEW c \in Services, B \subseteq Taking, TearFits(B, c)
    PROVE  MultiSend(B, o, c) # Reverted
<1>1. MultiSend(B, o, c) = TearDown(B, o, c)
  BY NotCalled DEF MultiSend, DeploySafe, SetUp, Taking
<1>2. QED
  BY <1>1, TearsDown, RevertedAssumption

LEMMA StepSettles ==
    ASSUME NEW B, NEW o \in Objects, NEW c \in Services, StepFits(B, c)
    PROVE  MultiSend(B, o, c) # Reverted
<1>1. MultiSend(B, o, c) = DeploySafe(B, o, c)
  BY NotCalled DEF MultiSend, SetUp, TearDown, StepFits, Payloads
<1>2. "recover" \notin B
  BY DEF StepFits, Payloads
<1>3. QED
  BY <1>1, <1>2, PayloadRuns, RevertedAssumption DEF StepFits

LEMMA MegaSettles ==
    ASSUME NEW B, NEW o \in Objects, NEW c \in Services, MegaFits(B, o, c),
           "stake" \in B => o.program # NoProgram
    PROVE  MultiSend(B, o, c) # Reverted
<1> DEFINE torn == TearDown(B, o, c)
           set == SetUp(B, o, torn)
           deployed == DeploySafe(B, o, set)
<1>1. /\ torn \in Services /\ torn.reg = "PRE_REGISTRATION"
      /\ torn.owner = IF "recover" \in B THEN "master" ELSE c.owner
      /\ torn.module = c.module /\ torn.deposit = c.deposit
  BY TearsDown DEF MegaFits
<1> HIDE DEF torn
<1>2. /\ set \in Services /\ set.reg = "FINISHED_REGISTRATION"
      /\ set.owner = torn.owner /\ set.module = torn.module /\ set.deposit = o.program
  BY <1>1, SetsUp DEF MegaFits
<1> HIDE DEF set
<1>3. PayloadFits(B, set) /\ ("recover" \in B => set.owner = "master")
  BY <1>1, <1>2 DEF MegaFits, PayloadFits
<1>4. /\ deployed \in Services /\ deployed.reg = "DEPLOYED"
      /\ deployed.staked = NoProgram /\ deployed.deposit = o.program
  BY <1>2, <1>3, PayloadRuns
<1> HIDE DEF deployed
<1>5. MultiSend(B, o, c) = Call("stake", B, o, deployed)
  BY NotCalled DEF MultiSend, MegaFits, deployed, set, torn
<1>6. CASE "stake" \in B
  <2>1. Call("stake", B, o, deployed) = [deployed EXCEPT !.staked = o.program, !.locked = TRUE]
    <3>1. Call("stake", B, o, deployed) = Effect("stake", o, deployed)
      BY <1>4, <1>6, CallRuns DEF Accepted
    <3>2. QED
      BY <3>1 DEF Effect
  <2>2. o.program \in Programs
    BY <1>6 DEF Objects, Goals
  <2>3. [deployed EXCEPT !.staked = o.program, !.locked = TRUE] \in Services
    BY <1>4, <2>2, StakingChanges, Zenon
  <2>4. QED
    BY <1>5, <2>1, <2>3, RevertedAssumption
<1>7. CASE "stake" \notin B
  BY <1>4, <1>5, <1>7, NotCalled, RevertedAssumption
<1>8. QED
  BY <1>6, <1>7

\* Fits is inductive: while a batch is carried, and until it is settled, the chain
\* changes by an eviction or the end of the staking period only.
LEMMA StaysFitting == Spec => []Fits
<1>1. Init => Fits
  BY DEF Init, Fits
<1>2. Typed /\ Tokens /\ OnCourse /\ Deployable /\ Fits /\ [Next]_vars => Fits'
  <2> SUFFICES ASSUME Typed, Tokens, OnCourse, Deployable, Fits, [Next]_vars PROVE Fits'
    OBVIOUS
  <2> USE DEF Typed, TypeOK, Continues, Fits, locals, flags
  <2>1. CASE RequestDeploy
    BY <2>1 DEF RequestDeploy
  <2>2. CASE RequestTerminate
    BY <2>2 DEF RequestTerminate
  <2>3. CASE Raise
    BY <2>3 DEF Raise, Ended
  <2>4. CASE Done
    BY <2>4 DEF Done, Ended
  <2>5. CASE Settle
    <3>1. pc = "settle" /\ (Ended \/ (pc' = cont /\ batch' = {} /\ UNCHANGED <<job, obj, update>>))
      BY <2>5 DEF Settle
    <3>2. CASE Ended
      BY <3>2 DEF Ended
    <3>3. CASE pc' = cont /\ batch' = {} /\ UNCHANGED <<job, obj, update>>
      BY <3>1, <3>3
    <3>4. QED
      BY <3>1, <3>2, <3>3
  <2>6. CASE Enable
    BY <2>6 DEF Enable, EnableModule
  <2>7. CASE Sync
    BY <2>7 DEF Sync, SyncFrom
  <2>8. CASE Plan
    <3>1. pc = "plan" /\ UNCHANGED <<chain, job, obj, batch, cont>>
      BY <2>8 DEF Plan
    <3>2. \/ pc' = "prefix" /\ update'
          \/ pc' = "mint" /\ (obj.token => Registered(chain))
      BY <2>8, Zenon DEF Plan, Differs
    <3>3. QED
      BY <3>1, <3>2
  <2>9. CASE Prefix
    <3>1. pc = "prefix" /\ UNCHANGED <<chain, job, obj, cont, update>>
      BY <2>9 DEF Prefix
    <3>2. CASE pc' = "term" /\ UNCHANGED batch
      BY <3>1, <3>2
    <3>3. CASE ~NoPrefix /\ pc' = "mint" /\ batch' = Teardown
      <4>1. /\ chain.staked = NoProgram \/ ~chain.locked
            /\ chain.owner = "master" \/ (chain.owner = "agent" /\ chain.module)
        BY <3>3 DEF NoPrefix
      <4>2. obj.token /\ chain.reg # "NON_EXISTENT"
        BY <3>1 DEF Tokens, Deployable
      <4>3. TearFits(Teardown, chain)
        BY <4>1, <4>2 DEF TearFits, Teardown
      <4>4. Teardown' = Teardown
        BY <3>1 DEF Teardown
      <4>5. QED
        BY <3>1, <3>3, <4>1, <4>2, <4>3, <4>4
    <3>4. QED
      BY <2>9, <3>2, <3>3 DEF Prefix
  <2>10. CASE RecoverAccess
    <3>1. CASE Send({"recover"}, "mint") /\ chain.reg = "PRE_REGISTRATION" /\ chain.owner = "agent" /\ chain.module
      <4>1. TearFits({"recover"}, chain)
        BY <3>1 DEF TearFits, RequiringTerminate, RequiringUnbond, Services
      <4>2. QED
        BY <2>10, <3>1, <4>1 DEF RecoverAccess, Send, Taking
    <3>2. CASE Go("mint")
      BY <2>10, <3>2 DEF RecoverAccess, Go
    <3>3. QED
      BY <2>10, <3>1, <3>2, Zenon DEF RecoverAccess
  <2>11. CASE HasToken
    <3>1. pc = "mint" /\ pc' = "build" /\ UNCHANGED <<chain, job, obj, batch, cont, update>>
      BY <2>11 DEF HasToken, Go
    <3>2. Teardown' = Teardown
      BY <3>1 DEF Teardown
    <3>3. QED
      BY <3>1, <3>2
  <2>12. CASE Mint
    <3>1. CASE Ended
      BY <3>1 DEF Ended
    <3>2. CASE pc' = "minted" /\ obj' = [obj EXCEPT !.token = TRUE] /\ UNCHANGED <<job, batch, cont, update>>
      <4>1. pc = "mint" /\ ~obj.token /\ chain' = Minted(obj)
        BY <2>12 DEF Mint
      <4>2. chain'.deposit = obj'.program
        BY <3>2, <4>1 DEF Minted, Objects
      <4>3. QED
        BY <3>2, <4>1, <4>2
    <3>3. QED
      BY <2>12, <3>1, <3>2 DEF Mint
  <2>13. CASE StoreToken
    BY <2>13 DEF StoreToken, Registered
  <2>14. CASE Mega
    <3>1. PICK staking \in SUBSET {"stake"} :
            batch' = batch \cup (IF update THEN {"update"} ELSE {})
                           \cup {"activate", "register", Payload} \cup staking
      BY <2>14 DEF Mega
    <3>2. /\ pc = "build" /\ MegaPath /\ Builds
          /\ pc' = "settle" /\ cont' = "record" /\ UNCHANGED <<chain, job, obj, update>>
      BY <2>14 DEF Mega
    <3>3. batch \subseteq Taking /\ obj.token
      BY <3>2 DEF OnCourse, Tokens
    <3>4. Payload \in Payloads
      BY DEF Payload, Payloads
    <3>5. \A l \in Taking : l \in batch' <=> l \in batch
      BY <3>1, <3>4 DEF Taking, Payloads
    <3>6. /\ batch' \cap Payloads = {Payload} /\ "swap" \notin batch'
          /\ {"activate", "register"} \subseteq batch' /\ (update => "update" \in batch')
      BY <3>1, <3>3, <3>4 DEF Taking, Payloads
    <3>7. TearFits(batch, chain)
      <4>1. CASE batch # {}
        BY <3>2, <4>1
      <4>2. CASE batch = {}
        BY <3>2, <4>2 DEF MegaPath, TearFits, RequiringTerminate, RequiringUnbond, Services
      <4>3. QED
        BY <4>1, <4>2
    <3>8. TearFits(batch', chain)
      BY <3>5, <3>7 DEF TearFits, Taking
    <3>9. PayloadFits(batch', chain)
      <4>1. batch = {} => ~Registered(chain) /\ "recover" \notin batch'
        BY <3>2, <3>5 DEF MegaPath, Registered, Taking
      <4>2. batch # {} => chain.owner # "none" /\ batch = Teardown
        BY <3>2
      <4>3. "recover" \in batch' <=> "recover" \in batch
        BY <3>5 DEF Taking
      <4>4. CASE Payload = "deployNew"
        BY <3>6, <4>1, <4>2, <4>4 DEF Payload, PayloadFits
      <4>5. CASE Payload = "deployRecovery"
        BY <3>2, <3>6, <4>3, <4>5 DEF Payload, Builds, PayloadFits
      <4>6. CASE Payload = "deploySame"
        BY <3>2, <3>6, <4>6 DEF Payload, Builds, PayloadFits
      <4>7. QED
        BY <3>4, <4>4, <4>5, <4>6 DEF Payloads
    <3>10. "update" \in batch' \/ chain.deposit = obj.program
      BY <3>2, <3>3, <3>6 DEF MegaPath, Registered
    <3>11. MegaFits(batch', obj, chain)
      BY <3>6, <3>8, <3>9, <3>10 DEF MegaFits
    <3>12. QED
      BY <3>2, <3>11
  <2>15. CASE NoMega
    <3>1. batch = {}
      BY <2>15 DEF NoMega, MegaPath
    <3>2. QED
      BY <2>15, <3>1 DEF NoMega, Go
  <2>16. CASE Stepwise
    <3>1. CASE Send({Payload}, "record") /\ Builds /\ chain.reg = "FINISHED_REGISTRATION"
      <4>1. batch = {} /\ pc = "stepwise"
        BY <2>16 DEF Stepwise
      <4>2. StepFits({Payload}, chain)
        BY <3>1, <4>1 DEF Builds, Payload, Payloads, StepFits, PayloadFits
      <4>3. QED
        BY <3>1, <4>1, <4>2 DEF Send
    <3>2. CASE Go("record")
      BY <2>16, <3>2 DEF Stepwise, Go
    <3>3. QED
      BY <2>16, <3>1, <3>2, Zenon DEF Stepwise
  <2>17. CASE Record
    BY <2>17 DEF Record, SyncFrom
  <2>18. CASE Final
    BY <2>18 DEF Final, Go
  <2>19. CASE Stake
    BY <2>19 DEF Stake, Send, Go
  <2>20. CASE Restake
    BY <2>20 DEF Restake, Send, Go
  <2>21. CASE Term
    <3>1. pc = "term"
      BY <2>21 DEF Term
    <3>2. CASE Go("owners") \/ Go(AfterTerm)
      BY <3>1, <3>2 DEF Go, AfterTerm
    <3>3. CASE Send(Exits, "owners") /\ chain.staked = NoProgram /\ Exits # {}
      <4>1. Exits \subseteq Taking /\ TearFits(Exits, chain)
        BY <3>3 DEF Exits, Taking, TearFits, RequiringTerminate, RequiringUnbond
      <4>2. QED
        BY <3>1, <3>3, <4>1 DEF Send
    <3>4. CASE /\ Send({"unstake", "terminate", "unbond"}, "owners")
               /\ chain.staked # NoProgram /\ ~chain.locked
      <4>1. TearFits({"unstake", "terminate", "unbond"}, chain)
        BY <3>4 DEF TearFits, RequiringTerminate, RequiringUnbond, Services
      <4>2. QED
        BY <3>1, <3>4, <4>1 DEF Send, Taking
    <3>5. QED
      BY <2>21, <3>2, <3>3, <3>4, Zenon DEF Term
  <2>22. CASE Owners
    <3>1. pc = "owners" /\ (Go(AfterTerm) \/ (Go("enableSwap") /\ chain.owner = "agent"))
      BY <2>22, Zenon DEF Owners
    <3>2. QED
      BY <3>1 DEF AfterTerm, Go
  <2>23. CASE EnableSwap
    <3>1. pc = "enableSwap" /\ pc' = "swap" /\ UNCHANGED <<job, obj, batch, cont, update>>
      BY <2>23 DEF EnableSwap, EnableModule
    <3>2. chain'.owner = chain.owner
      BY <2>23, EnablesOnly DEF EnableSwap
    <3>3. QED
      BY <3>1, <3>2
  <2>24. CASE Swap
    BY <2>24 DEF Swap, AfterTerm, Send
  <2>25. CASE Drain
    BY <2>25 DEF Drain, Go
  <2>26. CASE Unlock
    <3>1. Alike(chain, chain') /\ UNCHANGED <<job, pc, batch, cont, obj, update>>
      BY <2>26 DEF Unlock, Alike, Services
    <3>2. Teardown' = Teardown /\ Registered(chain') = Registered(chain)
      BY <3>1 DEF Alike, Teardown, Registered
    <3>3. QED
      BY <3>1, <3>2, AlikeFits DEF Alike
  <2>27. CASE Evict
    <3>1. Alike(chain, chain') /\ UNCHANGED <<job, pc, batch, cont, obj, update>>
      BY <2>27 DEF Evict, Alike, Services
    <3>2. Teardown' = Teardown /\ Registered(chain') = Registered(chain)
      BY <3>1 DEF Alike, Teardown, Registered
    <3>3. QED
      BY <3>1, <3>2, AlikeFits DEF Alike
  <2>28. CASE Update
    BY <2>28 DEF Update
  <2>29. CASE UNCHANGED vars
    BY <2>29 DEF vars, Teardown, Registered
  <2>30. QED
    BY <2>1, <2>2, <2>3, <2>4, <2>5, <2>6, <2>7, <2>8, <2>9, <2>10, <2>11, <2>12,
      <2>13, <2>14, <2>15, <2>16, <2>17, <2>18, <2>19, <2>20, <2>21, <2>22, <2>23,
      <2>24, <2>25, <2>26, <2>27, <2>28, <2>29 DEF Next
<1>3. QED
  BY <1>1, <1>2, AlwaysTyped, TokensKept, StaysOnCourse, StaysDeployable, PTL DEF Spec

\* No batch is built that the contracts would refuse: each call's precondition holds
\* when its turn comes, from whatever state the job found, except for a stake alone.
THEOREM BatchesSettle == Spec => []BatchesFit
<1>1. Typed /\ Deployable /\ Fits => BatchesFit
  <2> SUFFICES ASSUME Typed, Deployable, Fits, pc = "settle", batch # {"stake"}
               PROVE  MultiSend(batch, obj, chain) # Reverted
    BY DEF BatchesFit
  <2> USE DEF Typed, TypeOK, Continues, Fits
  <2>1. CASE cont \in {"mint", "owners"}
    BY <2>1, TearSettles
  <2>2. CASE cont = "record"
    BY <2>2, MegaSettles, StepSettles DEF StakesWanted
  <2>3. CASE cont = "restake"
    <3>1. MultiSend(batch, obj, chain) = Call("unstake", batch, obj, chain)
      BY <2>3, NotCalled DEF MultiSend, DeploySafe, SetUp, TearDown
    <3>2. Call("unstake", batch, obj, chain) = [chain EXCEPT !.staked = NoProgram, !.evicted = FALSE]
      <4>1. "unstake" \in batch /\ Accepted("unstake", obj, chain)
        BY <2>3 DEF Accepted
      <4>2. Call("unstake", batch, obj, chain) = Effect("unstake", obj, chain)
        BY <4>1, CallRuns
      <4>3. QED
        BY <4>2 DEF Effect
    <3>3. [chain EXCEPT !.staked = NoProgram, !.evicted = FALSE] \in Services
      BY <2>3, StakingChanges, Zenon
    <3>4. QED
      BY <3>1, <3>2, <3>3, RevertedAssumption
  <2>4. CASE cont \in {"recoverAccess", "drain"}
    <3>1. MultiSend(batch, obj, chain) = Call("swap", batch, obj, chain)
      BY <2>4, NotCalled DEF MultiSend, DeploySafe, SetUp, TearDown
    <3>2. Call("swap", batch, obj, chain) = [chain EXCEPT !.owner = "master"]
      <4>1. "swap" \in batch /\ Accepted("swap", obj, chain)
        BY <2>4 DEF Accepted
      <4>2. Call("swap", batch, obj, chain) = Effect("swap", obj, chain)
        BY <4>1, CallRuns
      <4>3. QED
        BY <4>2 DEF Effect
    <3>3. [chain EXCEPT !.owner = "master"] \in Services
      BY ServiceChanges, Zenon
    <3>4. QED
      BY <3>1, <3>2, <3>3, RevertedAssumption
  <2>5. QED
    BY <2>1, <2>2, <2>3, <2>4
<1>2. QED
  BY <1>1, AlwaysTyped, StaysDeployable, StaysFitting, PTL
=============================================================================
