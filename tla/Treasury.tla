------------------------------ MODULE Treasury ------------------------------
(***************************************************************************)
(* The money of one service on one chain and every job that moves it: the   *)
(* user's withdrawal from the Master wallet, the funding of the service,    *)
(* the hourly funding job (claim the rewards, top up the Master EOA), the   *)
(* withdrawal from and the drain of the service Safe, and maintenance.      *)
(*                                                                          *)
(* The handlers that are not offloaded occupy the event loop one at a time  *)
(* ("loop"); `withdraw_safe` runs in a worker of the executor ("worker"),   *)
(* the funding job in its own ("job") and maintenance in another ("maint"). *)
(* A job reads balances, plans transfers, filters them and settles them in  *)
(* separate steps: everybody else may move the money in between.            *)
(*                                                                          *)
(* Modules: funding_manager.py, manage.py (claim, drain, maintenance),      *)
(* wallet/master.py and utils/gnosis.py (transfers), cli.py (handlers).     *)
(***************************************************************************)
EXTENDS Integers

CONSTANTS
    Gas,        \* what one transaction costs its signer, in native units
    Dust,       \* DUST[chain]
    TopUp,      \* DEFAULT_EOA_TOPUPS[chain], native
    Threshold,  \* TopUp * DEFAULT_EOA_THRESHOLD
    Asks,       \* bound: the amounts requests ask for
    MaxReward,  \* bound: the reward to claim
    MaxJobs,    \* bound: how many jobs are started
    Start       \* the balances to start from

ASSUME AmountsAssumption ==
    {Gas, Dust, TopUp, Threshold, MaxReward, MaxJobs} \subseteq Nat /\ Threshold <= TopUp

Assets   == {"token", "native"}
Accounts == {"safe", "eoa", "pot", "agent", "user"}
Threads  == {"loop", "worker", "job", "maint"}
Amounts  == [Assets -> Nat]
None     == [a \in Assets |-> 0]

ASSUME StartAssumption == Start \subseteq [Accounts -> Amounts] /\ Asks \subseteq Amounts \ {None}

VARIABLES
    bal,        \* balances on chain; the "pot" is the service Safe
    reward,     \* the reward the staking contract would pay out
    owner,      \* who owns the service Safe: "agent" or "master"
    registered, \* the service is past ACTIVE_REGISTRATION on chain
    running,    \* the local deployment is up, or on its way up or down
    lock,       \* holder of the (service, chain) withdrawal lock, or "free"
    funding,    \* _funding_in_progress
    job,        \* what each thread is doing
    pc,         \* and where it is
    leg,        \* the transfers it is about to send, and how
    wd,         \* wallet withdrawal: what is asked, what is to come from the EOA
    entitled,   \* history: all that the user has asked for so far
    disturbed,  \* history: threads whose plan others than withdrawals overtook
    jobs        \* bound: the number of jobs started

chain == <<bal, reward, owner, registered>>
vars  == <<bal, reward, owner, registered, running, lock, funding, job, pc, leg,
           wd, entitled, disturbed, jobs>>

---------------------------------------------------------------------------
(* Transfers *)

\* The amounts of one transfer.
Only(asset, amount) == [a \in Assets |-> IF a = asset THEN amount ELSE 0]

\* The pre-filter of a batch: the entries over the balance and those whose
\* simulation fails are dropped.
Kept(amounts, have, refused) ==
    [a \in Assets |-> IF a \in refused \/ amounts[a] > have[a] THEN 0 ELSE amounts[a]]

Covered(amounts, have) == \A a \in Assets : amounts[a] <= have[a]

\* What a mined transfer or batch does.
Moved(b, src, to, amounts) ==
    [x \in Accounts |-> [a \in Assets |-> b[x][a] + (IF x = to THEN amounts[a] ELSE 0)
                                                  - (IF x = src THEN amounts[a] ELSE 0)]]

Paid(b, signer) == [b EXCEPT ![signer].native = @ - Gas]

HasGas(signer) == bal[signer].native >= Gas

\* A batch has one entry for each asset to move and one destination. How it is
\* sent: "batch" is transfer_batch_from_safe, which takes the way of a single
\* transfer when one entry is left; "call" is one Safe call; "nested" goes through
\* a transaction of the Master Safe.
Leg(how, src, to, amounts) ==
    [how |-> how, src |-> src, to |-> to, amounts |-> amounts, short |-> FALSE,
     signer |-> IF src = "pot" /\ how # "nested" THEN "agent" ELSE "eoa"]

NoLeg == Leg("none", "safe", "safe", None)

\* The signer may still move the source.
Authorized(l) == l.src = "pot" => owner = IF l.how = "nested" THEN "master" ELSE "agent"

Executable(l) == Covered(l.amounts, bal[l.src]) /\ Authorized(l)

\* A reverted transaction is only noticed by the senders that look at the status.
Noticed(l) == l.how = "nested" \/ (l.how = "batch" /\ \A a \in Assets : l.amounts[a] > 0)

---------------------------------------------------------------------------
(* Jobs *)

\* Jobs that move the service Safe under the withdrawal lock: /withdraw_safe,
\* /terminate_and_withdraw, /onchain/withdraw and maintenance.
Locked == {"withdraw", "drain", "empty", "maintain"}

\* Jobs for which a transfer dropped by the pre-filter is an error.
RequireAll == {"pay", "fund", "withdraw"}

\* Where a drain goes.
To(t) == IF job[t] = "empty" THEN "user" ELSE "safe"

Go(t, p) == pc' = [pc EXCEPT ![t] = p]

\* A job ends: `with` and `finally` are left on every way out.
Finish(t) ==
    /\ Go(t, "idle")
    /\ job' = [job EXCEPT ![t] = "none"]
    /\ leg' = [leg EXCEPT ![t] = NoLeg]
    /\ lock' = IF lock = t THEN "free" ELSE lock
    /\ funding' = IF job[t] = "fund" THEN FALSE ELSE funding

Continue(t, j, p) ==
    /\ Go(t, p)
    /\ job' = [job EXCEPT ![t] = j]
    /\ leg' = [leg EXCEPT ![t] = NoLeg]
    /\ lock' = IF lock = t THEN "free" ELSE lock
    /\ UNCHANGED funding

\* An exception of job t: answered or logged, except that the funding job goes on
\* to the top-up and a drain of the Master Safe to that of the Master EOA.
Raised(t) ==
    \/ /\ job[t] = "claim"
       /\ Continue(t, "topup", "plan")
    \/ /\ job[t] = "sweep"
       /\ \/ pc[t] \in {"filter", "settle"} /\ Continue(t, "sweep", "eoa")
          \/ pc[t] = "token" /\ Continue(t, "sweep", "native")
    \/ /\ job[t] # "claim" /\ ~(job[t] = "sweep" /\ pc[t] = "token")
       /\ Finish(t)

\* Where a job goes on after its transfers, or without any.
After(t) == CASE job[t] = "pay" -> "token"
              [] job[t] = "sweep" -> "eoa"
              [] job[t] \in Locked \ {"withdraw"} -> "agent"
              [] OTHER -> "end"

StartJob(t, j, p) ==
    /\ pc[t] = "idle"
    /\ jobs < MaxJobs
    /\ jobs' = jobs + 1
    /\ job' = [job EXCEPT ![t] = j]
    /\ Go(t, p)

\* What the Master Safe can contribute; the rest is for the Master EOA.
FromSafe(amounts) ==
    [a \in Assets |-> IF amounts[a] < bal.safe[a] THEN amounts[a] ELSE bal.safe[a]]

\* Mutant: the Master EOA is asked for all of it.
SplitTwice(amounts) ==
    [had |-> bal.user, ask |-> amounts, safe |-> FromSafe(amounts), rest |-> amounts]

Split(amounts) ==
    [had |-> bal.user, ask |-> amounts, safe |-> FromSafe(amounts),
     rest |-> [a \in Assets |-> amounts[a] - FromSafe(amounts)[a]]]

\* POST /api/wallet/withdraw: one check over both balances, then the Safe pays
\* what it has and the EOA the rest.
Pay(amounts) ==
    LET all(a) == bal.safe[a] + bal.eoa[a] + IF a = "native" THEN Dust ELSE 0
        fromSafe == FromSafe(amounts)
    IN  /\ \A a \in Assets : amounts[a] <= all(a)
        /\ StartJob("loop", "pay", IF fromSafe = None THEN "token" ELSE "filter")
        /\ leg' = [leg EXCEPT !["loop"] = Leg("batch", "safe", "user", fromSafe)]
        /\ wd' = Split(amounts)
        /\ entitled' = [a \in Assets |-> entitled[a] + amounts[a]]
        /\ disturbed' = disturbed \ {"loop"}
        /\ UNCHANGED <<chain, running, lock, funding>>

\* POST /fund, of the agent or of the service Safe.
Fund(amounts, to) ==
    /\ ~funding
    /\ StartJob("loop", "fund", "filter")
    /\ funding' = TRUE
    /\ leg' = [leg EXCEPT !["loop"] = Leg("batch", "safe", to, amounts)]
    /\ UNCHANGED <<chain, running, lock, wd, entitled, disturbed>>

\* All there is of an asset, the reward still to be paid out included.
Total(a) == bal.user[a] + bal.safe[a] + bal.eoa[a] + bal.pot[a] + bal.agent[a]
            + IF a = "token" THEN reward ELSE 0

\* POST /terminate_and_withdraw and /onchain/withdraw: everything is paused and
\* the service terminated, which hands its Safe over or not, and then drained.
Terminate(j, who) ==
    /\ who = "agent" => owner = "agent"
    /\ StartJob("loop", j, "lock")
    /\ running' = FALSE
    /\ registered' = FALSE
    /\ owner' = who
    /\ disturbed' = IF owner = who THEN disturbed ELSE Threads
    /\ entitled' = IF j = "drain" THEN entitled
                   ELSE [a \in Assets |-> Total(a)]
    /\ UNCHANGED <<bal, reward, lock, funding, leg, wd>>

\* POST /withdraw_safe
Withdraw(amounts) ==
    /\ StartJob("worker", "withdraw", "lock")
    /\ leg' = [leg EXCEPT !["worker"] = Leg("none", "pot", "safe", amounts)]
    /\ UNCHANGED <<chain, running, lock, funding, wd, entitled, disturbed>>

\* The funding job wakes up: rewards first, then the Master EOA.
Hour == /\ StartJob("job", "claim", "plan")
        /\ UNCHANGED <<chain, running, lock, funding, leg, wd, entitled, disturbed>>

\* Maintenance after a login, of what does not run now.
Maintain ==
    /\ ~running
    /\ StartJob("maint", "maintain", "try")
    /\ UNCHANGED <<chain, running, lock, funding, leg, wd, entitled, disturbed>>

\* Mutant: maintenance holds the lock and its drain takes it once more.
TryLockTwice(t) ==
    /\ pc[t] = "try"
    /\ Go(t, IF lock # "free" \/ registered THEN "end" ELSE "lock")
    /\ lock' = IF lock = "free" THEN t ELSE lock
    /\ UNCHANGED <<chain, running, funding, job, leg, wd, entitled, disturbed, jobs>>

\* It does not wait for the lock, and looks at the chain under it.
TryLock(t) ==
    /\ pc[t] = "try"
    /\ Go(t, IF lock # "free" \/ registered THEN "end" ELSE "plan")
    /\ lock' = IF lock = "free" THEN t ELSE lock
    /\ UNCHANGED <<chain, running, funding, job, leg, wd, entitled, disturbed, jobs>>

\* Mutant: withdrawals do not exclude each other.
LockNot(t) ==
    /\ pc[t] = "lock"
    /\ Go(t, "plan")
    /\ UNCHANGED <<chain, running, lock, funding, job, leg, wd, entitled, disturbed, jobs>>

Lock(t) ==
    /\ pc[t] = "lock"
    /\ lock = "free"
    /\ lock' = t
    /\ Go(t, "plan")
    /\ UNCHANGED <<chain, running, funding, job, leg, wd, entitled, disturbed, jobs>>

\* A drain takes what is there, a withdrawal what is asked.
FromPot(t) == IF job[t] = "withdraw" THEN leg[t].amounts ELSE bal.pot

\* drain_service_safe, partial_withdraw_service_safe: read the balances, then send
\* in the way the owner of the Safe allows.
PlanPot(t) ==
    LET plan == FromPot(t)
        how  == IF owner = "agent" THEN "batch" ELSE "nested"
    IN  /\ pc[t] = "plan"
        /\ job[t] \in Locked
        /\ Covered(plan, bal.pot)
        /\ leg' = [leg EXCEPT ![t] = Leg(how, "pot", To(t), plan)]
        /\ Go(t, IF plan = None THEN "agent" ELSE IF how = "batch" THEN "filter" ELSE "settle")
        /\ disturbed' = disturbed \ {t}
        /\ UNCHANGED <<chain, running, lock, funding, job, wd, entitled, jobs>>

\* More is asked of the service Safe than it holds.
TooMuch(t) ==
    /\ pc[t] = "plan"
    /\ job[t] = "withdraw"
    /\ ~Covered(leg[t].amounts, bal.pot)
    /\ Finish(t)
    /\ UNCHANGED <<chain, running, wd, entitled, disturbed, jobs>>

\* claim_on_chain_from_safe: the reward goes to the service Safe ...
Claim(t) ==
    /\ pc[t] = "plan"
    /\ job[t] = "claim"
    /\ \/ /\ reward = 0 \/ ~registered
          /\ Continue(t, "topup", "plan")
          /\ UNCHANGED <<bal, reward>>
       \/ /\ reward > 0 /\ registered /\ HasGas("eoa")
          /\ bal' = [Paid(bal, "eoa") EXCEPT !.pot.token = @ + reward]
          /\ reward' = 0
          /\ Go(t, "collect")
          /\ UNCHANGED <<job, leg, lock, funding>>
    /\ UNCHANGED <<owner, registered, running, wd, entitled, disturbed, jobs>>

\* ... and whatever the Safe has of its token to the Master Safe.
Collect(t) ==
    /\ pc[t] = "collect"
    /\ leg' = [leg EXCEPT ![t] = Leg("call", "pot", "safe", Only("token", bal.pot.token))]
    /\ Go(t, "settle")
    /\ UNCHANGED <<chain, running, lock, funding, job, wd, entitled, disturbed, jobs>>

\* fund_master_eoa
PlanTopUp(t) ==
    LET missing == IF bal.eoa.native < Threshold THEN TopUp - bal.eoa.native ELSE 0
        amount  == IF missing < bal.safe.native THEN missing ELSE bal.safe.native
    IN  /\ pc[t] = "plan"
        /\ job[t] = "topup"
        /\ leg' = [leg EXCEPT ![t] = Leg("batch", "safe", "eoa", Only("native", amount))]
        /\ Go(t, IF amount > 0 THEN "filter" ELSE "end")
        /\ UNCHANGED <<chain, running, lock, funding, job, wd, entitled, disturbed, jobs>>

\* master_wallet.drain of the Safe, after the service was drained to the user
PlanSweep(t) ==
    /\ pc[t] = "plan"
    /\ job[t] = "sweep"
    /\ leg' = [leg EXCEPT ![t] = Leg("batch", "safe", "user", bal.safe)]
    /\ Go(t, IF bal.safe = None THEN "eoa" ELSE "filter")
    /\ UNCHANGED <<chain, running, lock, funding, job, wd, entitled, disturbed, jobs>>

---------------------------------------------------------------------------
(* Sending *)

\* transfer_batch_from_safe before it sends.
Filter(t) ==
    /\ pc[t] = "filter"
    /\ \E refused \in SUBSET Assets :
         LET kept == Kept(leg[t].amounts, bal[leg[t].src], refused)
         IN  \/ /\ kept # None
                /\ leg' = [leg EXCEPT ![t].amounts = kept, ![t].short = kept # leg[t].amounts]
                /\ Go(t, "settle")
                /\ UNCHANGED <<lock, funding, job>>
             \/ /\ kept = None /\ job[t] \notin RequireAll
                /\ Go(t, After(t))
                /\ UNCHANGED <<lock, funding, job, leg>>
             \/ /\ kept = None /\ job[t] \in RequireAll
                /\ Raised(t)
    /\ UNCHANGED <<chain, running, wd, entitled, disturbed, jobs>>

\* Mutant: nobody looks at what the pre-filter has dropped.
SentShort(t) ==
    IF job[t] = "claim" THEN Continue(t, "topup", "plan")
    ELSE Go(t, After(t)) /\ UNCHANGED <<lock, funding, job, leg>>

\* The sender takes its transaction for executed.
Sent(t) ==
    IF leg[t].short /\ job[t] \in RequireAll
    THEN Raised(t)
    ELSE IF job[t] = "claim" THEN Continue(t, "topup", "plan")
    ELSE Go(t, After(t)) /\ UNCHANGED <<lock, funding, job, leg>>

\* The wallet withdrawal takes the gas of the batch off what the EOA has to add.
LessGas(t) ==
    wd' = IF job[t] = "pay" /\ wd.rest.native > 0 THEN [wd EXCEPT !.rest.native = @ - Gas] ELSE wd

\* Whose plans an executed leg of t may have overtaken.
Overtaken(t) == IF job[t] = "claim" THEN Threads ELSE IF job[t] = "topup" THEN {"loop"} ELSE {}

\* A transaction is mined: executed, and its receipt may be lost; or reverted,
\* which not every sender looks at.
Settle(t) ==
    /\ pc[t] = "settle"
    /\ HasGas(leg[t].signer)
    /\ \/ /\ Executable(leg[t])
          /\ bal' = Paid(Moved(bal, leg[t].src, leg[t].to, leg[t].amounts), leg[t].signer)
          /\ disturbed' = disturbed \cup Overtaken(t)
          /\ (Sent(t) /\ LessGas(t)) \/ (Raised(t) /\ UNCHANGED wd)
       \/ /\ ~Executable(leg[t])
          /\ bal' = Paid(bal, leg[t].signer)
          /\ UNCHANGED disturbed
          /\ IF Noticed(leg[t]) THEN Raised(t) /\ UNCHANGED wd ELSE Sent(t) /\ LessGas(t)
    /\ UNCHANGED <<reward, owner, registered, running, entitled, jobs>>

\* The pre-flight check of the gas, an RPC error, a rejected transaction.
Fails(t) ==
    /\ pc[t] \in {"plan", "collect", "filter", "settle", "agent", "token", "native"}
    /\ Raised(t)
    /\ UNCHANGED <<chain, running, wd, entitled, disturbed, jobs>>

TokensOut(b, to) ==
    IF b.agent.token = 0 THEN b
    ELSE Paid(Moved(b, "agent", to, Only("token", b.agent.token)), "agent")

\* drain_eoa: an agent that has no more than the fee is left alone.
NativeOut(b, to) ==
    IF b.agent.native <= Gas THEN b
    ELSE Paid(Moved(b, "agent", to, Only("native", b.agent.native - Gas)), "agent")

\* drain_agents_eoas: with tokens to move and too little gas it raises.
DrainAgent(t) ==
    LET fees == Gas + IF bal.agent.token > 0 THEN 3 * Gas ELSE 0
        rich == bal.agent.native >= fees
        done == IF job[t] = "empty" THEN Continue(t, "sweep", "plan")
                ELSE Go(t, "end") /\ UNCHANGED <<lock, funding, job, leg>>
    IN  /\ pc[t] = "agent"
        /\ \/ rich /\ bal' = NativeOut(TokensOut(bal, To(t)), To(t)) /\ done
           \/ rich /\ bal' = TokensOut(bal, To(t)) /\ (done \/ Raised(t))
           \/ ~rich /\ bal.agent.token = 0 /\ UNCHANGED bal /\ done
        /\ UNCHANGED <<reward, owner, registered, running, wd, entitled, disturbed, jobs>>

\* The drain of the Master EOA takes its balances as they are now; the fees of its
\* own transfers come off them later.
PlanEoa(t) ==
    /\ pc[t] = "eoa"
    /\ wd' = [wd EXCEPT !.rest = bal.eoa]
    /\ Go(t, "token")
    /\ UNCHANGED <<chain, running, lock, funding, job, leg, entitled, disturbed, jobs>>

EoaToken(t) ==
    LET amount == wd.rest.token
    IN  /\ pc[t] = "token"
        /\ \/ /\ amount > 0 /\ amount <= bal.eoa.token /\ HasGas("eoa")
              /\ bal' = Paid(Moved(bal, "eoa", "user", Only("token", amount)), "eoa")
           \/ /\ amount = 0
              /\ UNCHANGED bal
        /\ Go(t, "native")
        /\ UNCHANGED <<reward, owner, registered, running, lock, funding, job, leg, wd,
                       entitled, disturbed, jobs>>

\* Mutant: the fee is not kept back when the EOA is drained.
EoaNativeWithoutFee(t) ==
    LET asked == IF wd.rest.native > bal.eoa.native THEN bal.eoa.native ELSE wd.rest.native
    IN  /\ pc[t] = "native"
        /\ bal' = IF asked > 0
                  THEN Paid(Moved(bal, "eoa", "user", Only("native", asked)), "eoa")
                  ELSE bal
        /\ Go(t, "end")
        /\ UNCHANGED <<reward, owner, registered, running, lock, funding, job, leg, wd,
                       entitled, disturbed, jobs>>

\* A wallet withdrawal asks for no more than there is; within a fee of the balance
\* the EOA is drained.
EoaNative(t) ==
    LET has    == bal.eoa.native
        asked  == IF job[t] = "pay" /\ wd.rest.native > has THEN has ELSE wd.rest.native
        amount == IF asked < has - Gas THEN asked ELSE has - Gas
    IN  /\ pc[t] = "native"
        /\ \/ /\ asked > 0 /\ asked <= has /\ amount > 0
              /\ bal' = Paid(Moved(bal, "eoa", "user", Only("native", amount)), "eoa")
           \/ /\ asked <= 0
              /\ UNCHANGED bal
        /\ Go(t, "end")
        /\ UNCHANGED <<reward, owner, registered, running, lock, funding, job, leg, wd,
                       entitled, disturbed, jobs>>

End(t) ==
    /\ pc[t] = "end"
    /\ Finish(t)
    /\ UNCHANGED <<chain, running, wd, entitled, disturbed, jobs>>

---------------------------------------------------------------------------
(* The service *)

\* A deploy has brought the service up, on chain and locally.
Deploy ==
    /\ ~running
    /\ jobs < MaxJobs
    /\ running' = TRUE
    /\ registered' = TRUE
    /\ owner' = "agent"
    /\ disturbed' = IF owner = "agent" THEN disturbed ELSE Threads
    /\ UNCHANGED <<bal, reward, lock, funding, job, pc, leg, wd, entitled, jobs>>

\* The agent uses the service Safe for its trade.
AgentSpends(a) ==
    /\ running
    /\ bal.pot[a] > 0
    /\ bal' = [bal EXCEPT !.pot[a] = @ - 1]
    /\ disturbed' = Threads
    /\ UNCHANGED <<reward, owner, registered, running, lock, funding, job, pc, leg, wd, entitled, jobs>>

---------------------------------------------------------------------------
Init ==
    /\ bal \in Start
    /\ reward \in 0 .. MaxReward
    /\ owner = "agent"
    /\ registered = TRUE
    /\ running = TRUE
    /\ lock = "free"
    /\ funding = FALSE
    /\ job = [t \in Threads |-> "none"]
    /\ pc = [t \in Threads |-> "idle"]
    /\ leg = [t \in Threads |-> NoLeg]
    /\ wd = [had |-> None, ask |-> None, safe |-> None, rest |-> None]
    /\ entitled = bal.user
    /\ disturbed = {}
    /\ jobs = 0

Request ==
    \/ \E amounts \in Asks : Pay(amounts) \/ Withdraw(amounts)
    \/ \E amounts \in Asks, to \in {"pot", "agent"} : Fund(amounts, to)
    \/ \E j \in {"drain", "empty"}, who \in {"agent", "master"} : Terminate(j, who)
    \/ Hour
    \/ Maintain

Step(t) ==
    \/ TryLock(t) \/ Lock(t) \/ PlanPot(t) \/ TooMuch(t) \/ Claim(t) \/ Collect(t)
    \/ PlanTopUp(t) \/ PlanSweep(t) \/ Filter(t) \/ Settle(t) \/ Fails(t)
    \/ DrainAgent(t) \/ PlanEoa(t) \/ EoaToken(t) \/ EoaNative(t) \/ End(t)

Next ==
    \/ Request
    \/ \E t \in Threads : Step(t)
    \/ Deploy
    \/ \E a \in Assets : AgentSpends(a)

Spec == Init /\ [][Next]_vars

FairSpec == Spec /\ \A t \in Threads : WF_vars(Step(t))

---------------------------------------------------------------------------
(* Properties *)

\* Balances, jobs and plans are what they should be.
TypeOK ==
    /\ bal \in [Accounts -> Amounts]
    /\ reward \in Nat
    /\ owner \in {"agent", "master"}
    /\ registered \in BOOLEAN /\ running \in BOOLEAN /\ funding \in BOOLEAN
    /\ lock \in Threads \cup {"free"}
    /\ job \in [Threads -> Locked \cup RequireAll \cup {"none", "claim", "topup", "sweep"}]
    /\ pc \in [Threads -> {"idle", "try", "lock", "plan", "collect", "filter", "settle",
                           "agent", "eoa", "token", "native", "end"}]
    /\ \A t \in Threads :
         /\ leg[t].src \in {"safe", "pot"}
         /\ leg[t].signer \in {"agent", "eoa"}
         /\ leg[t].to \in Accounts
         /\ leg[t].amounts \in Amounts
    /\ entitled \in Amounts
    /\ disturbed \subseteq Threads
    /\ jobs \in 0 .. MaxJobs

\* What a withdrawal from the service Safe has planned under the withdrawal lock
\* stays payable, by the Safe's balance and by its owner, as long as only other
\* withdrawals, drains and maintenance go on; only the running agent, a claim,
\* which takes no lock, a termination or a deploy can spoil it.
WithdrawalsAlone ==
    \A t \in Threads \ disturbed :
        job[t] \in Locked /\ pc[t] \in {"filter", "settle"} => Executable(leg[t])

\* The user never gets more than all that was asked for, whatever legs a withdrawal
\* is made of and wherever it fails.
NeverOverpaid == \A a \in Assets : bal.user[a] <= entitled[a]

\* A wallet withdrawal that is answered as done has paid the tokens asked for and
\* the native amount as far as it was to come from the Safe, unless the hourly
\* top-up of the Master EOA took that from the Safe in the meantime.
PaidWhenAnswered ==
    job["loop"] = "pay" /\ pc["loop"] = "end" =>
        /\ bal.user.token = wd.had.token + wd.ask.token
        /\ "loop" \in disturbed \/ bal.user.native >= wd.had.native + wd.safe.native

\* Every request, the round of the funding job and maintenance come to an end, also
\* when they meet at the withdrawal lock, and give back the lock and the flag.
Quiet == lock = "free" /\ ~funding /\ \A t \in Threads : pc[t] = "idle"

JobsEnd == []<>Quiet
=============================================================================
