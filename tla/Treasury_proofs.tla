--------------------------- MODULE Treasury_proofs ---------------------------
(***************************************************************************)
(* Proofs about the money of a service: every balance stays a natural       *)
(* number, a withdrawal planned under the lock stays payable, the user is    *)
(* never overpaid and is paid when the withdrawal is answered, for all       *)
(* balances, amounts and fees and any number of jobs.                       *)
(***************************************************************************)
EXTENDS Treasury, TLAPS

Plus(n) == IF n > 0 THEN n ELSE 0

LegRecords == [how : {"none", "batch", "call", "nested"}, src : {"safe", "pot"}, to : Accounts,
               amounts : Amounts, short : BOOLEAN, signer : {"agent", "eoa"}]

Jobs == Locked \cup RequireAll \cup {"none", "claim", "topup", "sweep"}
Pcs  == {"idle", "try", "lock", "plan", "collect", "filter", "settle", "agent", "eoa", "token",
         "native", "end"}

\* The records behind the plans of the threads.
Shapes ==
    /\ TypeOK
    /\ leg \in [Threads -> LegRecords]
    /\ wd \in [had : Amounts, ask : Amounts, safe : Amounts, rest : [Assets -> Int]]

\* Which jobs may be at a place, and which belong to the event loop.
PlacesOf(t) ==
    /\ pc[t] = "try" => job[t] = "maintain"
    /\ pc[t] = "lock" => job[t] \in Locked
    /\ pc[t] = "plan" => job[t] \in Locked \cup {"claim", "topup", "sweep"}
    /\ pc[t] = "collect" => job[t] = "claim"
    /\ pc[t] = "filter" => job[t] \notin {"none", "claim"}
    /\ pc[t] = "settle" => job[t] # "none"
    /\ pc[t] = "agent" => job[t] \in Locked
    /\ pc[t] = "eoa" => job[t] = "sweep"
    /\ pc[t] \in {"token", "native"} => job[t] \in {"pay", "sweep"}
    /\ job[t] \in {"pay", "fund", "empty", "sweep"} => t = "loop"
    /\ job[t] = "claim" => t # "loop"

\* Who works on the service Safe under the withdrawal lock holds it.
HeldBy(t) ==
    job[t] \in Locked /\ pc[t] \in {"plan", "filter", "settle", "agent"} => lock = t

\* Which Safe a planned leg takes from and where it may go.
LegOf(t) ==
    pc[t] \in {"filter", "settle"} =>
        /\ job[t] \in Locked \cup {"claim"} => leg[t].src = "pot"
        /\ job[t] \in {"pay", "fund", "topup", "sweep"} => leg[t].src = "safe"
        /\ leg[t].to = "user" => job[t] \in {"pay", "empty", "sweep"}
        /\ job[t] = "topup" => leg[t].amounts.token = 0

\* WithdrawalsAlone, of one thread
SafeOf(t) ==
    t \notin disturbed /\ job[t] \in Locked /\ pc[t] \in {"filter", "settle"} => Executable(leg[t])

Places == \A t \in Threads : PlacesOf(t) /\ HeldBy(t) /\ LegOf(t) /\ SafeOf(t)

\* What the loop's wallet withdrawal may still pay.
Pending(a) ==
    IF job["loop"] # "pay" THEN 0
    ELSE IF pc["loop"] \in {"filter", "settle"} THEN leg["loop"].amounts[a] + Plus(wd.rest[a])
    ELSE IF pc["loop"] = "token" \/ (pc["loop"] = "native" /\ a = "native") THEN Plus(wd.rest[a])
    ELSE 0

\* Everything was asked for, or no sweep is on and what is still to be paid was
\* asked for.
Asked ==
    \/ \A a \in Assets : Total(a) <= entitled[a]
    \/ /\ job["loop"] \notin {"empty", "sweep"}
       /\ \A a \in Assets : bal.user[a] + Pending(a) <= entitled[a]

\* The native part that the Master Safe was to pay has arrived, or was overtaken.
NativePaid == "loop" \in disturbed \/ bal.user.native >= wd.had.native + wd.safe.native

\* How far a wallet withdrawal has come, at each of its places.
Track ==
    job["loop"] = "pay" =>
        /\ pc["loop"] \in {"filter", "settle"} =>
             /\ leg["loop"].how = "batch" /\ leg["loop"].to = "user"
             /\ leg["loop"].amounts.token <= bal.safe.token
             /\ "loop" \in disturbed \/ leg["loop"].amounts.native <= bal.safe.native
             /\ pc["loop"] = "filter" => ~leg["loop"].short
             /\ \A a \in Assets :
                  /\ bal.user[a] = wd.had[a]
                  /\ ~leg["loop"].short => leg["loop"].amounts[a] = wd.safe[a]
                  /\ wd.safe[a] + wd.rest[a] = wd.ask[a]
        /\ pc["loop"] = "token" =>
             /\ bal.user.token = wd.had.token + wd.safe.token
             /\ wd.safe.token + wd.rest.token = wd.ask.token
             /\ NativePaid
        /\ pc["loop"] \in {"native", "end"} =>
             /\ bal.user.token = wd.had.token + wd.ask.token
             /\ NativePaid

IInv == Shapes /\ Places /\ Asked /\ Track
---------------------------------------------------------------------------
(* Balances after a transaction *)

\* All there is on the accounts, without the reward.
Sum(b, a) == b.user[a] + b.safe[a] + b.eoa[a] + b.pot[a] + b.agent[a]

Fee(x, signer, a) == IF x = signer /\ a = "native" THEN Gas ELSE 0

\* A transfer and its fee keep every balance a natural number when the source
\* covers them, change each account as they say and never add to the whole.
LEMMA Mined ==
    ASSUME NEW b \in [Accounts -> Amounts], NEW src \in Accounts, NEW to \in Accounts,
           NEW signer \in {"agent", "eoa"}, NEW m \in Amounts,
           \A a \in Assets : m[a] + Fee(src, signer, a) <= b[src][a],
           Gas <= b[signer].native
    PROVE  /\ Paid(Moved(b, src, to, m), signer) \in [Accounts -> Amounts]
           /\ \A x \in Accounts, a \in Assets :
                Paid(Moved(b, src, to, m), signer)[x][a]
                  = b[x][a] + (IF x = to THEN m[a] ELSE 0) - (IF x = src THEN m[a] ELSE 0)
                            - Fee(x, signer, a)
           /\ \A a \in Assets : Sum(Paid(Moved(b, src, to, m), signer), a) <= Sum(b, a)
<1> DEFINE c == Moved(b, src, to, m)
           d == Paid(c, signer)
<1>0. Gas \in Nat /\ Assets = {"token", "native"} /\ signer \in Accounts
  BY AmountsAssumption DEF Assets, Accounts
<1>1. /\ c \in [Accounts -> [Assets -> Int]]
      /\ \A x \in Accounts, a \in Assets :
           c[x][a] = b[x][a] + (IF x = to THEN m[a] ELSE 0) - (IF x = src THEN m[a] ELSE 0)
  BY <1>0 DEF Moved, Amounts
<1>. HIDE DEF c
<1>2. d = [x \in Accounts |-> [a \in Assets |-> c[x][a] - Fee(x, signer, a)]]
  <2>1. d = [c EXCEPT ![signer] = [c[signer] EXCEPT !["native"] = c[signer]["native"] - Gas]]
    BY DEF Paid
  <2>2. ASSUME NEW x \in Accounts
        PROVE  d[x] = [a \in Assets |-> c[x][a] - Fee(x, signer, a)]
    <3>1. c[x] \in [Assets -> Int]
      BY <1>1
    <3>2. CASE x = signer
      <4>1. d[x] = [c[x] EXCEPT !["native"] = c[x]["native"] - Gas]
        BY <1>0, <1>1, <2>1, <3>2
      <4>2. \A a \in Assets : d[x][a] = c[x][a] - Fee(x, signer, a)
        BY <1>0, <3>1, <3>2, <4>1 DEF Fee
      <4>3. d[x] = [a \in Assets |-> d[x][a]]
        BY <3>1, <4>1
      <4>. QED
        BY <4>2, <4>3
    <3>3. CASE x # signer
      <4>1. \A a \in Assets : Fee(x, signer, a) = 0
        BY <3>3 DEF Fee
      <4>2. d[x] = c[x]
        BY <1>1, <2>1, <3>3
      <4>. QED
        BY <3>1, <4>1, <4>2
    <3>. QED
      BY <3>2, <3>3
  <2>3. d = [x \in Accounts |-> d[x]]
    BY <1>0, <1>1, <2>1
  <2>. QED
    BY <2>2, <2>3
<1>3. \A x \in Accounts, a \in Assets : d[x][a] = c[x][a] - Fee(x, signer, a)
  BY <1>2
<1>. HIDE DEF d
<1>4. ASSUME NEW x \in Accounts, NEW a \in Assets
      PROVE  d[x][a] = b[x][a] + (IF x = to THEN m[a] ELSE 0) - (IF x = src THEN m[a] ELSE 0)
                               - Fee(x, signer, a)
  <2>1. d[x][a] = c[x][a] - Fee(x, signer, a)
    BY <1>3
  <2>2. c[x][a] = b[x][a] + (IF x = to THEN m[a] ELSE 0) - (IF x = src THEN m[a] ELSE 0)
    BY <1>1
  <2>3. b[x][a] \in Int /\ m[a] \in Int /\ Fee(x, signer, a) \in Int
    BY <1>0 DEF Amounts, Fee
  <2>. QED
    BY <2>1, <2>2, <2>3
<1>5. ASSUME NEW x \in Accounts, NEW a \in Assets
      PROVE  d[x][a] \in Nat
  <2>1. b[x][a] \in Nat /\ m[a] \in Nat
    BY DEF Amounts
  <2>2. b[signer].native \in Nat /\ b[signer]["native"] = b[signer].native
    BY <1>0 DEF Amounts
  <2>. QED
    BY <1>0, <1>4, <2>1, <2>2 DEF Fee
<1>6. d \in [Accounts -> Amounts]
  <2>1. ASSUME NEW x \in Accounts
        PROVE  d[x] \in Amounts
    BY <1>2, <1>5 DEF Amounts
  <2>. QED
    BY <1>2, <2>1
<1>7. ASSUME NEW a \in Assets
      PROVE  Sum(d, a) <= Sum(b, a)
  <2>1. \A x \in Accounts : b[x][a] \in Nat
    BY DEF Amounts
  <2>2. m[a] \in Nat
    BY DEF Amounts
  <2>3. \A x \in Accounts : Fee(x, signer, a) \in Nat
    BY <1>0 DEF Fee
  <2>. QED
    BY <1>4, <2>1, <2>2, <2>3 DEF Sum, Accounts
<1>. QED
  BY <1>4, <1>6, <1>7 DEF c, d

---------------------------------------------------------------------------
(* Steps of one thread *)

Others(t) ==
    \A u \in Threads \ {t} : pc'[u] = pc[u] /\ job'[u] = job[u] /\ leg'[u] = leg[u]

\* The lock changes hands only between t and nobody.
OwnLock(t) ==
    \/ lock' = lock
    \/ lock = t /\ lock' = "free"
    \/ lock = "free" /\ lock' = t

\* The plans of the other withdrawals stay payable, or are given up as overtaken.
PlansKept(t) ==
    /\ disturbed \subseteq disturbed' \cup {t}
    /\ \/ owner' = owner /\ \A a \in Assets : bal.pot[a] <= bal'.pot[a]
       \/ disturbed' = Threads
       \/ lock = t

\* What thread t leaves alone keeps the other threads where the invariant has them.
LEMMA Frame ==
    ASSUME IInv, NEW t \in Threads, Shapes', Others(t), OwnLock(t), PlansKept(t),
           PlacesOf(t)', HeldBy(t)', LegOf(t)', SafeOf(t)'
    PROVE  Places'
<1> SUFFICES ASSUME NEW u \in Threads, u # t
             PROVE  PlacesOf(u)' /\ HeldBy(u)' /\ LegOf(u)' /\ SafeOf(u)'
  BY DEF Places
<1>1. pc'[u] = pc[u] /\ job'[u] = job[u] /\ leg'[u] = leg[u]
  BY DEF Others
<1>2. PlacesOf(u) /\ HeldBy(u) /\ LegOf(u) /\ SafeOf(u)
  BY DEF IInv, Places
<1>3. PlacesOf(u)' /\ LegOf(u)'
  BY <1>1, <1>2 DEF PlacesOf, LegOf
<1>4. HeldBy(u)'
  <2>1. "free" \notin Threads
    BY DEF Threads
  <2>. QED
    BY <1>1, <1>2, <2>1 DEF HeldBy, OwnLock
<1>5. SafeOf(u)'
  <2> SUFFICES ASSUME u \notin disturbed', job[u] \in Locked, pc[u] \in {"filter", "settle"}
               PROVE  Executable(leg[u])'
    BY <1>1 DEF SafeOf
  <2>1. u \notin disturbed /\ lock = u /\ disturbed' # Threads
    BY <1>2 DEF HeldBy, PlansKept
  <2>2. Executable(leg[u]) /\ leg[u].src = "pot"
    BY <1>2, <2>1 DEF SafeOf, LegOf
  <2>3. owner' = owner /\ \A a \in Assets : bal.pot[a] <= bal'.pot[a]
    BY <2>1 DEF PlansKept
  <2>4. \A a \in Assets : bal.pot[a] \in Nat /\ bal'.pot[a] \in Nat /\ leg[u].amounts[a] \in Nat
    BY DEF IInv, Shapes, TypeOK, LegRecords, Amounts, Accounts
  <2>5. \A a \in Assets : leg[u].amounts[a] <= bal'.pot[a]
    BY <2>2, <2>3, <2>4 DEF Executable, Covered
  <2>6. leg'[u].src = "pot" /\ leg'[u] = leg[u] /\ bal'[leg'[u].src] = bal'.pot
    BY <1>1, <2>2
  <2>. QED
    BY <2>2, <2>3, <2>5, <2>6 DEF Executable, Covered, Authorized
<1>. QED
  BY <1>3, <1>4, <1>5

\* What all the accounts and the contract have of an asset never grows, so what
\* was asked for stays enough as long as the user gets no more than was pending.
LEMMA AskedStep ==
    ASSUME IInv, Shapes', entitled' = entitled,
           \A a \in Assets : Total(a)' <= Total(a),
           job'["loop"] \in {"empty", "sweep"} => job["loop"] \in {"empty", "sweep"},
           job["loop"] \notin {"empty", "sweep"} =>
               \A a \in Assets : bal'.user[a] + Pending(a)' <= bal.user[a] + Pending(a)
    PROVE  Asked'
<1>1. \A a \in Assets : Total(a) \in Nat /\ Total(a)' \in Nat /\ entitled[a] \in Nat
  BY DEF IInv, Shapes, TypeOK, Amounts, Accounts, Total
<1>2. \A a \in Assets : /\ bal.user[a] + Pending(a) \in Int
                        /\ (bal.user[a] + Pending(a))' \in Int
  <2>1. \A a \in Assets : bal.user[a] \in Int /\ leg["loop"].amounts[a] \in Int /\ wd.rest[a] \in Int
    BY DEF IInv, Shapes, TypeOK, Amounts, Accounts, LegRecords, Threads
  <2>2. \A a \in Assets : /\ bal'.user[a] \in Int /\ leg'["loop"].amounts[a] \in Int
                          /\ wd'.rest[a] \in Int
    BY DEF Shapes, TypeOK, Amounts, Accounts, LegRecords, Threads
  <2>. QED
    BY <2>1, <2>2 DEF Pending, Plus
<1>3. Asked
  BY DEF IInv
<1>4. CASE \A a \in Assets : Total(a) <= entitled[a]
  BY <1>1, <1>4 DEF Asked
<1>5. CASE /\ job["loop"] \notin {"empty", "sweep"}
           /\ \A a \in Assets : bal["user"][a] + Pending(a) <= entitled[a]
  <2>1. \A a \in Assets : (bal["user"][a] + Pending(a))' <= entitled[a]
    BY <1>1, <1>2, <1>5
  <2>. QED
    BY <1>5, <2>1 DEF Asked
<1>. QED
  BY <1>3, <1>4, <1>5 DEF Asked

\* A step of another thread that pays nothing to the user and takes nothing off the
\* Master Safe but as an overtaking of the loop's plan.
LEMMA Outside ==
    ASSUME IInv, Shapes', NEW t \in Threads, t # "loop", Others(t), wd' = wd, entitled' = entitled,
           disturbed \subseteq disturbed' \cup {t},
           \A a \in Assets : Total(a)' <= Total(a),
           \A a \in Assets : bal'.user[a] = bal.user[a],
           bal.safe.token <= bal'.safe.token,
           "loop" \in disturbed' \/ bal.safe.native <= bal'.safe.native
    PROVE  Asked' /\ Track'
<1>1. /\ pc'["loop"] = pc["loop"] /\ job'["loop"] = job["loop"] /\ leg'["loop"] = leg["loop"]
      /\ "loop" \in disturbed => "loop" \in disturbed'
  BY DEF Others, Threads
<1>2. Asked'
  <2>1. \A a \in Assets : Pending(a)' = Pending(a)
    BY <1>1 DEF Pending
  <2>2. \A a \in Assets : bal.user[a] \in Int /\ leg["loop"].amounts[a] \in Int /\ wd.rest[a] \in Int
    BY DEF IInv, Shapes, TypeOK, Amounts, Accounts, LegRecords, Threads
  <2>3. \A a \in Assets : Pending(a) \in Int
    BY <2>2 DEF Pending, Plus
  <2>4. \A a \in Assets : bal'.user[a] + Pending(a)' <= bal.user[a] + Pending(a)
    BY <2>1, <2>2, <2>3
  <2>. QED
    BY <1>1, <2>4, AskedStep
<1>3. Track'
  <2> SUFFICES ASSUME job["loop"] = "pay"
               PROVE  Track'
    BY <1>1 DEF Track
  <2>1. Assets = {"token", "native"}
    BY DEF Assets
  <2>2. /\ bal.safe.token \in Nat /\ bal.safe.native \in Nat
        /\ bal'.safe.token \in Nat /\ bal'.safe.native \in Nat
        /\ leg["loop"].amounts.token \in Nat /\ leg["loop"].amounts.native \in Nat
    BY <2>1 DEF IInv, Shapes, TypeOK, Amounts, Accounts, LegRecords, Threads
  <2>3. Track
    BY DEF IInv
  <2>4. NativePaid => NativePaid'
    BY <1>1, <2>1 DEF NativePaid
  <2>. QED
    BY <1>1, <2>1, <2>2, <2>3, <2>4 DEF Track
<1>. QED
  BY <1>2, <1>3

\* What a step does to its own thread.
LEMMA Control ==
    ASSUME Shapes, NEW t \in Threads, NEW j \in Jobs, NEW p \in Pcs, NEW l \in LegRecords,
           pc' = [pc EXCEPT ![t] = p],
           job' = [job EXCEPT ![t] = j] \/ (job' = job /\ j = job[t]),
           leg' = [leg EXCEPT ![t] = l] \/ (leg' = leg /\ l = leg[t])
    PROVE  /\ pc' \in [Threads -> Pcs] /\ job' \in [Threads -> Jobs]
           /\ leg' \in [Threads -> LegRecords]
           /\ pc'[t] = p /\ job'[t] = j /\ leg'[t] = l
           /\ Others(t)
BY DEF Shapes, TypeOK, Jobs, Pcs, Others

LEMMA Typed ==
    ASSUME Shapes, NEW t \in Threads
    PROVE  /\ pc[t] \in Pcs /\ job[t] \in Jobs /\ leg[t] \in LegRecords
           /\ leg[t].amounts \in Amounts
           /\ lock \in Threads \cup {"free"} /\ bal \in [Accounts -> Amounts]
BY DEF Shapes, TypeOK, Jobs, Pcs, LegRecords

LEMMA NoLegShape == NoLeg \in LegRecords
<1>1. None \in Amounts
  BY DEF None, Amounts
<1>. QED
  BY <1>1 DEF NoLeg, Leg, LegRecords, Accounts

\* The shapes after a step, from those of the parts that it touches.
LEMMA ShapesStep ==
    ASSUME Shapes,
           pc' \in [Threads -> Pcs], job' \in [Threads -> Jobs], leg' \in [Threads -> LegRecords],
           lock' \in Threads \cup {"free"}, funding' \in BOOLEAN, running' \in BOOLEAN,
           registered' \in BOOLEAN, owner' \in {"agent", "master"}, reward' \in Nat,
           bal' \in [Accounts -> Amounts], entitled' \in Amounts, disturbed' \subseteq Threads,
           jobs' \in 0 .. MaxJobs,
           wd' \in [had : Amounts, ask : Amounts, safe : Amounts, rest : [Assets -> Int]]
    PROVE  Shapes'
BY DEF Shapes, TypeOK, Jobs, Pcs, LegRecords

\* The ways out of a job.
Out(t) ==
    \/ job[t] = "claim" /\ job'[t] = "topup" /\ pc'[t] = "plan"
    \/ job[t] = "sweep" /\ job'[t] = "sweep" /\ pc'[t] \in {"eoa", "native"}
    \/ job'[t] = "none" /\ pc'[t] = "idle"

LEMMA FinishShape ==
    ASSUME Shapes, NEW t \in Threads, Finish(t)
    PROVE  /\ pc' \in [Threads -> Pcs] /\ job' \in [Threads -> Jobs]
           /\ leg' \in [Threads -> LegRecords]
           /\ lock' \in Threads \cup {"free"} /\ funding' \in BOOLEAN
           /\ pc'[t] = "idle" /\ job'[t] = "none" /\ Others(t) /\ OwnLock(t)
<1>1. "none" \in Jobs /\ "idle" \in Pcs /\ NoLeg \in LegRecords
  BY NoLegShape DEF Jobs, Pcs
<1>2. /\ pc' = [pc EXCEPT ![t] = "idle"] /\ job' = [job EXCEPT ![t] = "none"]
      /\ leg' = [leg EXCEPT ![t] = NoLeg]
  BY DEF Finish, Go
<1>3. /\ lock' \in Threads \cup {"free"} /\ OwnLock(t)
      /\ funding' \in BOOLEAN
  BY Typed DEF Finish, OwnLock, Shapes, TypeOK
<1>. QED
  BY <1>1, <1>2, <1>3, Control

LEMMA ContinueShape ==
    ASSUME Shapes, NEW t \in Threads, NEW j \in Jobs, NEW p \in Pcs, Continue(t, j, p)
    PROVE  /\ pc' \in [Threads -> Pcs] /\ job' \in [Threads -> Jobs]
           /\ leg' \in [Threads -> LegRecords]
           /\ lock' \in Threads \cup {"free"} /\ funding' \in BOOLEAN
           /\ pc'[t] = p /\ job'[t] = j /\ Others(t) /\ OwnLock(t)
<1>1. NoLeg \in LegRecords
  BY NoLegShape
<1>2. /\ pc' = [pc EXCEPT ![t] = p] /\ job' = [job EXCEPT ![t] = j]
      /\ leg' = [leg EXCEPT ![t] = NoLeg]
  BY DEF Continue, Go
<1>3. /\ lock' \in Threads \cup {"free"} /\ OwnLock(t)
      /\ funding' \in BOOLEAN
  BY Typed DEF Continue, OwnLock, Shapes, TypeOK
<1>. QED
  BY <1>1, <1>2, <1>3, Control

LEMMA RaisedShape ==
    ASSUME Shapes, NEW t \in Threads, Raised(t)
    PROVE  /\ pc' \in [Threads -> Pcs] /\ job' \in [Threads -> Jobs]
           /\ leg' \in [Threads -> LegRecords]
           /\ lock' \in Threads \cup {"free"} /\ funding' \in BOOLEAN
           /\ Out(t) /\ Others(t) /\ OwnLock(t)
<1>1. {"topup", "sweep"} \subseteq Jobs /\ {"plan", "eoa", "native"} \subseteq Pcs
  BY DEF Jobs, Pcs
<1>2. CASE job[t] = "claim" /\ Continue(t, "topup", "plan")
  BY <1>1, <1>2, ContinueShape DEF Out
<1>3. CASE job[t] = "sweep" /\ Continue(t, "sweep", "eoa")
  BY <1>1, <1>3, ContinueShape DEF Out
<1>4. CASE job[t] = "sweep" /\ Continue(t, "sweep", "native")
  BY <1>1, <1>4, ContinueShape DEF Out
<1>5. CASE Finish(t)
  BY <1>5, FinishShape DEF Out
<1>. QED
  BY <1>2, <1>3, <1>4, <1>5 DEF Raised

\* Out of its job or at a place where it plans nothing, a thread has nothing to keep.
LEMMA OutOwn ==
    ASSUME Shapes, NEW t \in Threads, PlacesOf(t), Out(t)
    PROVE  PlacesOf(t)' /\ HeldBy(t)' /\ LegOf(t)' /\ SafeOf(t)'
BY DEF Out, PlacesOf, HeldBy, LegOf, SafeOf, Locked

---------------------------------------------------------------------------
(* Steps that move no money *)

Unmoved == UNCHANGED <<bal, reward, entitled>>

\* A step of another thread that moves nothing.
LEMMA StillOutside ==
    ASSUME IInv, Shapes', NEW t \in Threads, t # "loop", Others(t), OwnLock(t), Unmoved,
           owner' = owner \/ disturbed' = Threads, wd' = wd, disturbed \subseteq disturbed' \cup {t},
           PlacesOf(t)', HeldBy(t)', LegOf(t)', SafeOf(t)'
    PROVE  IInv'
<1>1. /\ bal \in [Accounts -> Amounts] /\ Assets = {"token", "native"}
      /\ {"user", "pot", "safe"} \subseteq Accounts
  BY DEF IInv, Shapes, TypeOK, Assets, Accounts
<1>2. \A a \in Assets : bal.pot[a] \in Nat /\ bal.safe[a] \in Nat
  BY <1>1 DEF Amounts
<1>3. PlansKept(t)
  BY <1>2 DEF PlansKept, Unmoved
<1>4. \A a \in Assets : Total(a)' <= Total(a)
  <2>1. \A a \in Assets : Total(a)' = Total(a) /\ Total(a) \in Int
    BY <1>1 DEF Unmoved, Total, IInv, Shapes, TypeOK, Amounts, Accounts
  <2>. QED
    BY <2>1
<1>5. Asked' /\ Track'
  BY <1>1, <1>2, <1>4, Outside DEF Unmoved
<1>. QED
  BY <1>3, <1>5, Frame DEF IInv

\* A step of the event loop that moves nothing and leaves no more pending.
LEMMA StillInside ==
    ASSUME IInv, Shapes', Others("loop"), OwnLock("loop"), Unmoved,
           owner' = owner \/ disturbed' = Threads, disturbed \subseteq disturbed' \cup {"loop"},
           PlacesOf("loop")', HeldBy("loop")', LegOf("loop")', SafeOf("loop")', Track',
           job'["loop"] \in {"empty", "sweep"} => job["loop"] \in {"empty", "sweep"},
           job["loop"] \notin {"empty", "sweep"} =>
               \A a \in Assets : Pending(a)' <= Pending(a)
    PROVE  IInv'
<1>1. /\ bal \in [Accounts -> Amounts] /\ Assets = {"token", "native"}
      /\ {"user", "pot", "safe"} \subseteq Accounts /\ "loop" \in Threads
  BY DEF IInv, Shapes, TypeOK, Assets, Accounts, Threads
<1>2. \A a \in Assets : bal.pot[a] \in Nat /\ bal.user[a] \in Nat
  BY <1>1 DEF Amounts
<1>3. PlansKept("loop")
  BY <1>2 DEF PlansKept, Unmoved
<1>4. \A a \in Assets : Total(a)' <= Total(a)
  <2>1. \A a \in Assets : Total(a)' = Total(a) /\ Total(a) \in Int
    BY <1>1 DEF Unmoved, Total, IInv, Shapes, TypeOK, Amounts, Accounts
  <2>. QED
    BY <2>1
<1>5. Asked'
  <2>1. \A a \in Assets : Pending(a) \in Int /\ Pending(a)' \in Int
    <3>1. \A a \in Assets : leg["loop"].amounts[a] \in Int /\ wd.rest[a] \in Int
      BY DEF IInv, Shapes, TypeOK, Amounts, LegRecords, Threads
    <3>2. \A a \in Assets : leg'["loop"].amounts[a] \in Int /\ wd'.rest[a] \in Int
      BY DEF Shapes, TypeOK, Amounts, LegRecords, Threads
    <3>. QED
      BY <3>1, <3>2 DEF Pending, Plus
  <2>2. bal' = bal /\ entitled' = entitled
    BY DEF Unmoved
  <2>. QED
    BY <1>2, <1>4, <2>1, <2>2, AskedStep
<1>. QED
  BY <1>1, <1>3, <1>5, Frame DEF IInv

\* ... in particular out of a job, or inside one that is no wallet withdrawal.
LEMMA Still ==
    ASSUME IInv, Shapes', NEW t \in Threads, Others(t), OwnLock(t), Unmoved,
           owner' = owner \/ disturbed' = Threads, wd' = wd \/ t = "loop",
           disturbed \subseteq disturbed' \cup {t},
           PlacesOf(t)', HeldBy(t)', LegOf(t)', SafeOf(t)',
           job'[t] # "pay",
           job'[t] \in {"empty", "sweep"} => job[t] \in {"empty", "sweep"}
    PROVE  IInv'
<1>1. CASE t # "loop"
  BY <1>1, StillOutside
<1>2. CASE t = "loop"
  <2>1. Track'
    BY <1>2 DEF Track
  <2>2. \A a \in Assets : Pending(a)' = 0 /\ Pending(a) >= 0
    <3>1. \A a \in Assets : leg["loop"].amounts[a] \in Nat /\ wd.rest[a] \in Int
      BY DEF IInv, Shapes, TypeOK, Amounts, LegRecords, Threads
    <3>. QED
      BY <1>2, <3>1 DEF Pending, Plus
  <2>3. \A a \in Assets : Pending(a)' <= Pending(a)
    BY <2>2
  <2>. QED
    BY <1>2, <2>1, <2>3, StillInside
<1>. QED
  BY <1>1, <1>2

\* A job is over, or interrupted, with nothing moved.
LEMMA Leaves ==
    ASSUME IInv, NEW t \in Threads, Finish(t) \/ Raised(t),
           UNCHANGED <<chain, running, wd, entitled, disturbed, jobs>>
    PROVE  IInv'
<1>1. Shapes /\ PlacesOf(t)
  BY DEF IInv, Places
<1>2. /\ pc' \in [Threads -> Pcs] /\ job' \in [Threads -> Jobs]
      /\ leg' \in [Threads -> LegRecords]
      /\ lock' \in Threads \cup {"free"} /\ funding' \in BOOLEAN
      /\ Out(t) /\ Others(t) /\ OwnLock(t)
  BY <1>1, FinishShape, RaisedShape DEF Out
<1>3. Shapes'
  BY <1>1, <1>2, ShapesStep DEF chain, Shapes, TypeOK
<1>4. PlacesOf(t)' /\ HeldBy(t)' /\ LegOf(t)' /\ SafeOf(t)'
  BY <1>1, <1>2, OutOwn
<1>5. job'[t] # "pay" /\ (job'[t] \in {"empty", "sweep"} => job[t] \in {"empty", "sweep"})
  BY <1>2 DEF Out
<1>. QED
  BY <1>2, <1>3, <1>4, <1>5, Still DEF chain, Unmoved

---------------------------------------------------------------------------
(* One lemma per action *)

LEMMA StartShape ==
    ASSUME Shapes, NEW t \in Threads, NEW j \in Jobs, NEW p \in Pcs, NEW l \in LegRecords,
           StartJob(t, j, p), leg' = [leg EXCEPT ![t] = l] \/ (leg' = leg /\ l = leg[t])
    PROVE  /\ pc' \in [Threads -> Pcs] /\ job' \in [Threads -> Jobs]
           /\ leg' \in [Threads -> LegRecords] /\ jobs' \in 0 .. MaxJobs
           /\ pc'[t] = p /\ job'[t] = j /\ leg'[t] = l /\ Others(t)
<1>1. jobs' \in 0 .. MaxJobs
  BY AmountsAssumption DEF StartJob, Shapes, TypeOK
<1>2. pc' = [pc EXCEPT ![t] = p] /\ job' = [job EXCEPT ![t] = j]
  BY DEF StartJob, Go
<1>. QED
  BY <1>1, <1>2, Control

LEMMA WithdrawStep ==
    ASSUME IInv, NEW amounts \in Asks, Withdraw(amounts)
    PROVE  IInv'
<1> DEFINE t == "worker"
           l == Leg("none", "pot", "safe", amounts)
<1>1. Shapes /\ t \in Threads /\ t # "loop"
  BY DEF IInv, Threads
<1>2. l \in LegRecords
  <2>1. amounts \in Amounts
    BY StartAssumption
  <2>. QED
    BY <2>1 DEF Leg, LegRecords, Accounts
<1>3. StartJob(t, "withdraw", "lock") /\ leg' = [leg EXCEPT ![t] = l]
  BY DEF Withdraw
<1>. HIDE DEF t, l
<1>4. "withdraw" \in Jobs /\ "lock" \in Pcs
  BY DEF Jobs, Pcs, Locked
<1>5. /\ pc' \in [Threads -> Pcs] /\ job' \in [Threads -> Jobs]
      /\ leg' \in [Threads -> LegRecords] /\ jobs' \in 0 .. MaxJobs
      /\ pc'[t] = "lock" /\ job'[t] = "withdraw" /\ Others(t)
  BY <1>1, <1>2, <1>3, <1>4, StartShape
<1>6. UNCHANGED <<bal, reward, owner, registered, running, lock, funding, wd, entitled, disturbed>>
  BY DEF Withdraw, chain
<1>7. Shapes'
  BY <1>1, <1>5, <1>6, ShapesStep DEF Shapes, TypeOK
<1>8. PlacesOf(t)' /\ HeldBy(t)' /\ LegOf(t)' /\ SafeOf(t)'
  BY <1>5 DEF PlacesOf, HeldBy, LegOf, SafeOf, Locked
<1>. QED
  BY <1>1, <1>5, <1>6, <1>7, <1>8, StillOutside DEF Unmoved, OwnLock

LEMMA HourStep ==
    ASSUME IInv, Hour
    PROVE  IInv'
<1> DEFINE t == "job"
<1>1. Shapes /\ t \in Threads /\ t # "loop" /\ leg[t] \in LegRecords
  BY DEF IInv, Shapes, Threads
<1>3. StartJob(t, "claim", "plan") /\ leg' = leg
  BY DEF Hour
<1>. HIDE DEF t
<1>4. "claim" \in Jobs /\ "plan" \in Pcs
  BY DEF Jobs, Pcs
<1>5. /\ pc' \in [Threads -> Pcs] /\ job' \in [Threads -> Jobs]
      /\ leg' \in [Threads -> LegRecords] /\ jobs' \in 0 .. MaxJobs
      /\ pc'[t] = "plan" /\ job'[t] = "claim" /\ Others(t)
  BY <1>1, <1>3, <1>4, StartShape
<1>6. UNCHANGED <<bal, reward, owner, registered, running, lock, funding, wd, entitled, disturbed>>
  BY DEF Hour, chain
<1>7. Shapes'
  BY <1>1, <1>5, <1>6, ShapesStep DEF Shapes, TypeOK
<1>8. PlacesOf(t)' /\ HeldBy(t)' /\ LegOf(t)' /\ SafeOf(t)'
  BY <1>1, <1>5 DEF PlacesOf, HeldBy, LegOf, SafeOf, Locked
<1>. QED
  BY <1>1, <1>5, <1>6, <1>7, <1>8, StillOutside DEF Unmoved, OwnLock

LEMMA MaintainStep ==
    ASSUME IInv, Maintain
    PROVE  IInv'
<1> DEFINE t == "maint"
<1>1. Shapes /\ t \in Threads /\ t # "loop" /\ leg[t] \in LegRecords
  BY DEF IInv, Shapes, Threads
<1>3. StartJob(t, "maintain", "try") /\ leg' = leg
  BY DEF Maintain
<1>. HIDE DEF t
<1>4. "maintain" \in Jobs /\ "try" \in Pcs
  BY DEF Jobs, Pcs, Locked
<1>5. /\ pc' \in [Threads -> Pcs] /\ job' \in [Threads -> Jobs]
      /\ leg' \in [Threads -> LegRecords] /\ jobs' \in 0 .. MaxJobs
      /\ pc'[t] = "try" /\ job'[t] = "maintain" /\ Others(t)
  BY <1>1, <1>3, <1>4, StartShape
<1>6. UNCHANGED <<bal, reward, owner, registered, running, lock, funding, wd, entitled, disturbed>>
  BY DEF Maintain, chain
<1>7. Shapes'
  BY <1>1, <1>5, <1>6, ShapesStep DEF Shapes, TypeOK
<1>8. PlacesOf(t)' /\ HeldBy(t)' /\ LegOf(t)' /\ SafeOf(t)'
  BY <1>5 DEF PlacesOf, HeldBy, LegOf, SafeOf
<1>. QED
  BY <1>1, <1>5, <1>6, <1>7, <1>8, StillOutside DEF Unmoved, OwnLock

LEMMA FundStep ==
    ASSUME IInv, NEW amounts \in Asks, NEW to \in {"pot", "agent"}, Fund(amounts, to)
    PROVE  IInv'
<1> DEFINE t == "loop"
           l == Leg("batch", "safe", to, amounts)
<1>1. Shapes /\ t \in Threads
  BY DEF IInv, Threads
<1>2. l \in LegRecords /\ l.src = "safe" /\ l.to # "user"
  <2>1. amounts \in Amounts /\ to \in Accounts
    BY StartAssumption DEF Accounts
  <2>. QED
    BY <2>1 DEF Leg, LegRecords
<1>3. StartJob(t, "fund", "filter") /\ leg' = [leg EXCEPT ![t] = l]
  BY DEF Fund
<1>. HIDE DEF l
<1>4. "fund" \in Jobs /\ "filter" \in Pcs
  BY DEF Jobs, Pcs, RequireAll
<1>5. /\ pc' \in [Threads -> Pcs] /\ job' \in [Threads -> Jobs]
      /\ leg' \in [Threads -> LegRecords] /\ jobs' \in 0 .. MaxJobs
      /\ pc'[t] = "filter" /\ job'[t] = "fund" /\ leg'[t] = l /\ Others(t)
  BY <1>1, <1>2, <1>3, <1>4, StartShape
<1>6. /\ UNCHANGED <<bal, reward, owner, registered, running, lock, wd, entitled, disturbed>>
      /\ funding' = TRUE
  BY DEF Fund, chain
<1>7. Shapes'
  BY <1>1, <1>5, <1>6, ShapesStep DEF Shapes, TypeOK
<1>8. PlacesOf(t)' /\ HeldBy(t)' /\ LegOf(t)' /\ SafeOf(t)'
  BY <1>2, <1>5 DEF PlacesOf, HeldBy, LegOf, SafeOf, Locked
<1>. QED
  BY <1>1, <1>5, <1>6, <1>7, <1>8, Still DEF Unmoved, OwnLock

LEMMA FromSafeShape ==
    ASSUME Shapes, NEW amounts \in Amounts
    PROVE  /\ FromSafe(amounts) \in Amounts
           /\ \A a \in Assets : /\ FromSafe(amounts)[a] <= amounts[a]
                                /\ FromSafe(amounts)[a] <= bal.safe[a]
<1>1. \A a \in Assets : bal.safe[a] \in Nat /\ amounts[a] \in Nat
  BY DEF Shapes, TypeOK, Amounts, Accounts
<1>. QED
  BY <1>1 DEF FromSafe, Amounts

LEMMA PayStep ==
    ASSUME IInv, NEW amounts \in Asks, Pay(amounts)
    PROVE  IInv'
<1> DEFINE t == "loop"
           m == FromSafe(amounts)
           l == Leg("batch", "safe", "user", m)
           p == IF m = None THEN "token" ELSE "filter"
<1>1. /\ Shapes /\ t \in Threads /\ amounts \in Amounts /\ Assets = {"token", "native"}
      /\ {"user", "pot", "safe"} \subseteq Accounts
  BY StartAssumption DEF IInv, Threads, Assets, Accounts
<1>2. m \in Amounts /\ \A a \in Assets : m[a] <= amounts[a] /\ m[a] <= bal.safe[a]
  BY <1>1, FromSafeShape
<1>3. /\ StartJob(t, "pay", p) /\ leg' = [leg EXCEPT ![t] = l]
      /\ wd' = [had |-> bal.user, ask |-> amounts, safe |-> m,
                rest |-> [a \in Assets |-> amounts[a] - m[a]]]
      /\ entitled' = [a \in Assets |-> entitled[a] + amounts[a]]
      /\ disturbed' = disturbed \ {t}
      /\ UNCHANGED <<bal, reward, owner, registered, running, lock, funding>>
  BY DEF Pay, Split, chain
<1>. HIDE DEF m
<1>4. /\ l \in LegRecords /\ l.how = "batch" /\ l.src = "safe" /\ l.to = "user" /\ l.amounts = m
      /\ l.short = FALSE
  BY <1>1, <1>2 DEF Leg, LegRecords
<1>. HIDE DEF l
<1>5. "pay" \in Jobs /\ p \in Pcs
  BY DEF Jobs, Pcs, RequireAll
<1>6. /\ pc' \in [Threads -> Pcs] /\ job' \in [Threads -> Jobs]
      /\ leg' \in [Threads -> LegRecords] /\ jobs' \in 0 .. MaxJobs
      /\ pc'[t] = p /\ job'[t] = "pay" /\ leg'[t] = l /\ Others(t)
  BY <1>1, <1>3, <1>4, <1>5, StartShape
<1>7. Shapes'
  <2>1. \A a \in Assets : entitled[a] \in Nat /\ amounts[a] \in Nat /\ m[a] \in Nat
    BY <1>1, <1>2 DEF Shapes, TypeOK, Amounts
  <2>2. entitled' \in Amounts
    BY <1>3, <2>1 DEF Amounts
  <2>3. bal.user \in Amounts
    BY <1>1 DEF Shapes, TypeOK
  <2>4. [a \in Assets |-> amounts[a] - m[a]] \in [Assets -> Int]
    BY <2>1
  <2>5. wd' \in [had : Amounts, ask : Amounts, safe : Amounts, rest : [Assets -> Int]]
    BY <1>1, <1>2, <1>3, <2>3, <2>4
  <2>. QED
    BY <1>1, <1>3, <1>6, <2>2, <2>5, ShapesStep DEF Shapes, TypeOK
<1>8. p \in {"token", "filter"}
  OBVIOUS
<1>9. PlacesOf(t)' /\ HeldBy(t)' /\ LegOf(t)' /\ SafeOf(t)'
  BY <1>4, <1>6, <1>8 DEF PlacesOf, HeldBy, LegOf, SafeOf, Locked
<1>10. \A a \in Assets : /\ bal.user[a] \in Nat /\ bal.safe[a] \in Nat /\ m[a] \in Nat
                         /\ amounts[a] \in Nat /\ entitled[a] \in Nat
                         /\ wd'.rest[a] = amounts[a] - m[a]
  BY <1>1, <1>2, <1>3 DEF Shapes, TypeOK, Amounts
<1>11. m = None => \A a \in Assets : m[a] = 0
  BY DEF None
<1>12. Asked'
  <2>1. CASE \A a \in Assets : Total(a) <= entitled[a]
    <3>1. \A a \in Assets : Total(a) \in Int /\ Total(a)' = Total(a)
      BY <1>1, <1>3 DEF Total, Shapes, TypeOK, Amounts, Accounts
    <3>2. \A a \in Assets : Total(a)' <= entitled'[a]
      BY <1>3, <1>10, <2>1, <3>1
    <3>. QED
      BY <3>2 DEF Asked
  <2>2. CASE /\ job["loop"] \notin {"empty", "sweep"}
             /\ \A a \in Assets : bal["user"][a] + Pending(a) <= entitled[a]
    <3>1. \A a \in Assets : Pending(a) \in Nat
      <4>1. \A a \in Assets : leg["loop"].amounts[a] \in Nat /\ wd.rest[a] \in Int
        BY DEF IInv, Shapes, TypeOK, Amounts, LegRecords, Threads
      <4>. QED
        BY <4>1 DEF Pending, Plus
    <3>2. ASSUME NEW a \in Assets
          PROVE  Pending(a)' = amounts[a]
      <4>1. Plus(wd'.rest[a]) = amounts[a] - m[a]
        BY <1>2, <1>10 DEF Plus
      <4>2. CASE p = "filter"
        <5>1. Pending(a)' = m[a] + Plus(wd'.rest[a])
          BY <1>4, <1>6, <4>2 DEF Pending
        <5>. QED
          BY <1>10, <4>1, <5>1
      <4>3. CASE p = "token"
        <5>1. Pending(a)' = Plus(wd'.rest[a]) /\ m[a] = 0
          BY <1>6, <1>11, <4>3 DEF Pending
        <5>. QED
          BY <1>10, <4>1, <5>1
      <4>. QED
        BY <1>8, <4>2, <4>3
    <3>3. \A a \in Assets : bal.user[a] + Pending(a)' <= entitled'[a]
      BY <1>3, <1>10, <2>2, <3>1, <3>2
    <3>4. \A a \in Assets : (bal["user"][a] + Pending(a) <= entitled[a])'
      BY <1>3, <3>3
    <3>. QED
      BY <1>6, <3>4 DEF Asked
  <2>. QED
    BY <2>1, <2>2 DEF IInv, Asked
<1>13. Track'
  <2>1. /\ wd'.had = bal.user /\ wd'.ask = amounts /\ wd'.safe = m /\ bal' = bal
    BY <1>3
  <2>2. CASE p = "filter"
    BY <1>1, <1>2, <1>4, <1>6, <1>10, <2>1, <2>2 DEF Track
  <2>3. CASE p = "token"
    <3>1. NativePaid'
      BY <1>1, <1>10, <1>11, <2>1, <2>3 DEF NativePaid
    <3>. QED
      BY <1>1, <1>6, <1>10, <1>11, <2>1, <2>3, <3>1 DEF Track
  <2>. QED
    BY <1>8, <2>2, <2>3
<1>14. PlansKept(t)
  BY <1>1, <1>3 DEF PlansKept, Shapes, TypeOK, Amounts
<1>. QED
  BY <1>1, <1>3, <1>6, <1>7, <1>9, <1>12, <1>13, <1>14, Frame DEF IInv, OwnLock

LEMMA TerminateStep ==
    ASSUME IInv, NEW j \in {"drain", "empty"}, NEW who \in {"agent", "master"}, Terminate(j, who)
    PROVE  IInv'
<1> DEFINE t == "loop"
<1>1. Shapes /\ t \in Threads /\ leg[t] \in LegRecords
  BY DEF IInv, Shapes, Threads
<1>2. /\ StartJob(t, j, "lock") /\ leg' = leg /\ wd' = wd /\ owner' = who
      /\ running' = FALSE /\ registered' = FALSE
      /\ disturbed' = IF owner = who THEN disturbed ELSE Threads
      /\ entitled' = IF j = "drain" THEN entitled ELSE [a \in Assets |-> Total(a)]
      /\ UNCHANGED <<bal, reward, lock, funding>>
  BY DEF Terminate
<1>3. j \in Jobs /\ "lock" \in Pcs
  BY DEF Jobs, Pcs, Locked
<1>4. /\ pc' \in [Threads -> Pcs] /\ job' \in [Threads -> Jobs]
      /\ leg' \in [Threads -> LegRecords] /\ jobs' \in 0 .. MaxJobs
      /\ pc'[t] = "lock" /\ job'[t] = j /\ Others(t)
  BY <1>1, <1>2, <1>3, StartShape
<1>5. \A a \in Assets : Total(a) \in Nat /\ Total(a)' = Total(a)
  BY <1>1, <1>2 DEF Total, Shapes, TypeOK, Amounts, Accounts
<1>6. disturbed' \subseteq Threads /\ disturbed \subseteq disturbed'
  BY <1>1, <1>2 DEF Shapes, TypeOK
<1>7. Shapes'
  <2>1. entitled' \in Amounts
    <3>1. [a \in Assets |-> Total(a)] \in Amounts
      BY <1>5 DEF Amounts
    <3>. QED
      BY <1>1, <1>2, <3>1 DEF Shapes, TypeOK
  <2>. QED
    BY <1>1, <1>2, <1>4, <1>6, <2>1, ShapesStep DEF Shapes, TypeOK
<1>8. PlacesOf(t)' /\ HeldBy(t)' /\ LegOf(t)' /\ SafeOf(t)'
  BY <1>4 DEF PlacesOf, HeldBy, LegOf, SafeOf, Locked
<1>9. PlansKept(t)
  BY <1>1, <1>2, <1>6 DEF PlansKept, Shapes, TypeOK, Amounts, Accounts
<1>10. CASE j = "drain"
  <2>1. entitled' = entitled /\ (owner' = owner \/ disturbed' = Threads)
    BY <1>2, <1>10
  <2>. QED
    BY <1>1, <1>2, <1>4, <1>6, <1>7, <1>8, <1>10, <2>1, Still DEF Unmoved, OwnLock
<1>11. CASE j = "empty"
  <2>1. \A a \in Assets : Total(a)' <= entitled'[a]
    BY <1>2, <1>5, <1>11
  <2>2. Asked'
    BY <2>1 DEF Asked
  <2>3. Track'
    BY <1>4, <1>11 DEF Track
  <2>. QED
    BY <1>1, <1>2, <1>4, <1>7, <1>8, <1>9, <2>2, <2>3, Frame DEF IInv, OwnLock
<1>. QED
  BY <1>10, <1>11

LEMMA TryLockStep ==
    ASSUME IInv, NEW t \in Threads, TryLock(t)
    PROVE  IInv'
<1> DEFINE p == IF lock # "free" \/ registered THEN "end" ELSE "plan"
<1>1. Shapes /\ PlacesOf(t) /\ job[t] \in Jobs /\ leg[t] \in LegRecords
  BY Typed DEF IInv, Places
<1>2. /\ pc' = [pc EXCEPT ![t] = p] /\ job' = job /\ leg' = leg
      /\ lock' = IF lock = "free" THEN t ELSE lock
      /\ UNCHANGED <<bal, reward, owner, registered, running, funding, wd, entitled, disturbed, jobs>>
  BY DEF TryLock, Go, chain
<1>3. job[t] = "maintain"
  BY <1>1 DEF TryLock, PlacesOf
<1>4. p \in Pcs
  BY DEF Pcs
<1>5. /\ pc' \in [Threads -> Pcs] /\ job' \in [Threads -> Jobs] /\ leg' \in [Threads -> LegRecords]
      /\ pc'[t] = p /\ job'[t] = "maintain" /\ Others(t)
  BY <1>1, <1>2, <1>3, <1>4, Control
<1>6. OwnLock(t) /\ lock' \in Threads \cup {"free"}
  BY <1>1, <1>2, Typed DEF OwnLock
<1>7. Shapes'
  BY <1>1, <1>2, <1>5, <1>6, ShapesStep DEF Shapes, TypeOK
<1>8. PlacesOf(t)' /\ HeldBy(t)' /\ LegOf(t)' /\ SafeOf(t)'
  BY <1>2, <1>5 DEF PlacesOf, HeldBy, LegOf, SafeOf, Locked
<1>. QED
  BY <1>2, <1>5, <1>6, <1>7, <1>8, Still DEF Unmoved

LEMMA LockStep ==
    ASSUME IInv, NEW t \in Threads, Lock(t)
    PROVE  IInv'
<1>1. Shapes /\ PlacesOf(t) /\ job[t] \in Jobs /\ leg[t] \in LegRecords
  BY Typed DEF IInv, Places
<1>2. /\ pc' = [pc EXCEPT ![t] = "plan"] /\ job' = job /\ leg' = leg
      /\ lock = "free" /\ lock' = t
      /\ UNCHANGED <<bal, reward, owner, registered, running, funding, wd, entitled, disturbed, jobs>>
  BY DEF Lock, Go, chain
<1>3. job[t] \in Locked
  BY <1>1 DEF Lock, PlacesOf
<1>4. "plan" \in Pcs
  BY DEF Pcs
<1>5. /\ pc' \in [Threads -> Pcs] /\ job' \in [Threads -> Jobs] /\ leg' \in [Threads -> LegRecords]
      /\ pc'[t] = "plan" /\ job'[t] = job[t] /\ Others(t)
  BY <1>1, <1>2, <1>3, <1>4, Control
<1>6. OwnLock(t)
  BY <1>2 DEF OwnLock
<1>7. Shapes'
  BY <1>1, <1>2, <1>5, <1>6, ShapesStep DEF Shapes, TypeOK
<1>8. PlacesOf(t)' /\ HeldBy(t)' /\ LegOf(t)' /\ SafeOf(t)'
  BY <1>1, <1>2, <1>3, <1>5 DEF PlacesOf, HeldBy, LegOf, SafeOf, Locked
<1>9. job'[t] # "pay"
  BY <1>3, <1>5 DEF Locked
<1>. QED
  BY <1>2, <1>5, <1>6, <1>7, <1>8, <1>9, Still DEF Unmoved

LEMMA PlanPotStep ==
    ASSUME IInv, NEW t \in Threads, PlanPot(t)
    PROVE  IInv'
<1> DEFINE plan == FromPot(t)
           how == IF owner = "agent" THEN "batch" ELSE "nested"
           l == Leg(how, "pot", To(t), plan)
           p == IF plan = None THEN "agent" ELSE IF how = "batch" THEN "filter" ELSE "settle"
<1>1. Shapes /\ PlacesOf(t) /\ HeldBy(t) /\ job[t] \in Jobs /\ leg[t].amounts \in Amounts
  BY Typed DEF IInv, Places
<1>2. /\ pc[t] = "plan" /\ job[t] \in Locked /\ Covered(plan, bal.pot)
      /\ pc' = [pc EXCEPT ![t] = p] /\ job' = job /\ leg' = [leg EXCEPT ![t] = l]
      /\ disturbed' = disturbed \ {t}
      /\ UNCHANGED <<bal, reward, owner, registered, running, lock, funding, wd, entitled, jobs>>
  BY DEF PlanPot, Go, chain
<1>3. plan \in Amounts /\ To(t) \in {"user", "safe"} /\ (To(t) = "user" => job[t] = "empty")
  BY <1>1 DEF FromPot, To, Shapes, TypeOK, Accounts
<1>4. how \in {"batch", "nested"} /\ p \in {"agent", "filter", "settle"}
  OBVIOUS
<1>5. owner = IF how = "nested" THEN "master" ELSE "agent"
  BY <1>1 DEF Shapes, TypeOK
<1>. HIDE DEF plan, how
<1>6. l \in LegRecords /\ l.how = how /\ l.src = "pot" /\ l.to = To(t) /\ l.amounts = plan
  BY <1>3, <1>4 DEF Leg, LegRecords, Accounts
<1>. HIDE DEF l, p
<1>7. p \in Pcs
  BY <1>4 DEF Pcs
<1>8. /\ pc' \in [Threads -> Pcs] /\ job' \in [Threads -> Jobs] /\ leg' \in [Threads -> LegRecords]
      /\ pc'[t] = p /\ job'[t] = job[t] /\ leg'[t] = l /\ Others(t)
  BY <1>1, <1>2, <1>6, <1>7, Control
<1>9. lock = t
  BY <1>1, <1>2 DEF HeldBy
<1>10. Shapes'
  BY <1>1, <1>2, <1>8, ShapesStep DEF Shapes, TypeOK
<1>11. Executable(leg[t])'
  <2>1. Covered(leg'[t].amounts, bal'[leg'[t].src])
    BY <1>2, <1>6, <1>8
  <2>2. Authorized(leg[t])'
    BY <1>2, <1>5, <1>6, <1>8 DEF Authorized
  <2>. QED
    BY <2>1, <2>2 DEF Executable
<1>12. PlacesOf(t)' /\ HeldBy(t)' /\ LegOf(t)' /\ SafeOf(t)'
  <2>1. PlacesOf(t)'
    BY <1>1, <1>2, <1>4, <1>8 DEF PlacesOf, Locked
  <2>2. HeldBy(t)' /\ SafeOf(t)'
    BY <1>2, <1>9, <1>11 DEF HeldBy, SafeOf
  <2>3. LegOf(t)'
    BY <1>2, <1>3, <1>6, <1>8 DEF LegOf, Locked
  <2>. QED
    BY <2>1, <2>2, <2>3
<1>13. job'[t] # "pay"
  BY <1>2, <1>8 DEF Locked
<1>14. disturbed \subseteq disturbed' \cup {t}
  BY <1>2
<1>. QED
  BY <1>2, <1>8, <1>10, <1>12, <1>13, <1>14, Still DEF Unmoved, OwnLock

LEMMA CollectStep ==
    ASSUME IInv, NEW t \in Threads, Collect(t)
    PROVE  IInv'
<1> DEFINE m == Only("token", bal.pot.token)
           l == Leg("call", "pot", "safe", m)
<1>1. Shapes /\ PlacesOf(t) /\ job[t] \in Jobs
  BY Typed DEF IInv, Places
<1>2. /\ pc' = [pc EXCEPT ![t] = "settle"] /\ job' = job /\ leg' = [leg EXCEPT ![t] = l]
      /\ UNCHANGED <<bal, reward, owner, registered, running, lock, funding, wd, entitled,
                     disturbed, jobs>>
  BY DEF Collect, Go, chain
<1>3. job[t] = "claim"
  BY <1>1 DEF Collect, PlacesOf
<1>4. m \in Amounts
  BY <1>1 DEF Only, Shapes, TypeOK, Amounts, Accounts, Assets
<1>. HIDE DEF m
<1>5. l \in LegRecords /\ l.to = "safe" /\ l.src = "pot"
  BY <1>4 DEF Leg, LegRecords, Accounts
<1>. HIDE DEF l
<1>6. "settle" \in Pcs
  BY DEF Pcs
<1>7. /\ pc' \in [Threads -> Pcs] /\ job' \in [Threads -> Jobs] /\ leg' \in [Threads -> LegRecords]
      /\ pc'[t] = "settle" /\ job'[t] = "claim" /\ leg'[t] = l /\ Others(t)
  BY <1>1, <1>2, <1>3, <1>5, <1>6, Control
<1>8. Shapes'
  BY <1>1, <1>2, <1>7, ShapesStep DEF Shapes, TypeOK
<1>9. PlacesOf(t)' /\ HeldBy(t)' /\ LegOf(t)' /\ SafeOf(t)'
  BY <1>1, <1>3, <1>5, <1>7 DEF PlacesOf, HeldBy, LegOf, SafeOf, Locked
<1>. QED
  BY <1>2, <1>7, <1>8, <1>9, Still DEF Unmoved, OwnLock

LEMMA PlanTopUpStep ==
    ASSUME IInv, NEW t \in Threads, PlanTopUp(t)
    PROVE  IInv'
<1> DEFINE missing == IF bal.eoa.native < Threshold THEN TopUp - bal.eoa.native ELSE 0
           amount == IF missing < bal.safe.native THEN missing ELSE bal.safe.native
           m == Only("native", amount)
           l == Leg("batch", "safe", "eoa", m)
           p == IF amount > 0 THEN "filter" ELSE "end"
<1>1. Shapes /\ PlacesOf(t) /\ job[t] \in Jobs
  BY Typed DEF IInv, Places
<1>2. /\ job[t] = "topup"
      /\ pc' = [pc EXCEPT ![t] = p] /\ job' = job /\ leg' = [leg EXCEPT ![t] = l]
      /\ UNCHANGED <<bal, reward, owner, registered, running, lock, funding, wd, entitled,
                     disturbed, jobs>>
  BY DEF PlanTopUp, Go, chain
<1>3. amount \in Nat
  <2>1. bal.eoa.native \in Nat /\ bal.safe.native \in Nat
    BY <1>1 DEF Shapes, TypeOK, Amounts, Accounts, Assets
  <2>2. Threshold \in Nat /\ TopUp \in Nat /\ Threshold <= TopUp
    BY AmountsAssumption
  <2>. QED
    BY <2>1, <2>2
<1>4. p \in {"filter", "end"}
  OBVIOUS
<1>. HIDE DEF amount
<1>5. m \in Amounts /\ m.token = 0
  BY <1>3 DEF Only, Amounts, Assets
<1>. HIDE DEF m, p
<1>6. l \in LegRecords /\ l.to = "eoa" /\ l.src = "safe" /\ l.amounts = m
  BY <1>5 DEF Leg, LegRecords, Accounts
<1>. HIDE DEF l
<1>7. p \in Pcs
  BY <1>4 DEF Pcs
<1>8. /\ pc' \in [Threads -> Pcs] /\ job' \in [Threads -> Jobs] /\ leg' \in [Threads -> LegRecords]
      /\ pc'[t] = p /\ job'[t] = "topup" /\ leg'[t] = l /\ Others(t)
  BY <1>1, <1>2, <1>6, <1>7, Control
<1>9. Shapes'
  BY <1>1, <1>2, <1>8, ShapesStep DEF Shapes, TypeOK
<1>10. PlacesOf(t)' /\ HeldBy(t)' /\ LegOf(t)' /\ SafeOf(t)'
  BY <1>4, <1>5, <1>6, <1>8 DEF PlacesOf, HeldBy, LegOf, SafeOf, Locked
<1>. QED
  BY <1>2, <1>8, <1>9, <1>10, Still DEF Unmoved, OwnLock

LEMMA PlanSweepStep ==
    ASSUME IInv, NEW t \in Threads, PlanSweep(t)
    PROVE  IInv'
<1> DEFINE l == Leg("batch", "safe", "user", bal.safe)
           p == IF bal.safe = None THEN "eoa" ELSE "filter"
<1>1. Shapes /\ PlacesOf(t) /\ job[t] \in Jobs
  BY Typed DEF IInv, Places
<1>2. /\ job[t] = "sweep"
      /\ pc' = [pc EXCEPT ![t] = p] /\ job' = job /\ leg' = [leg EXCEPT ![t] = l]
      /\ UNCHANGED <<bal, reward, owner, registered, running, lock, funding, wd, entitled,
                     disturbed, jobs>>
  BY DEF PlanSweep, Go, chain
<1>3. bal.safe \in Amounts /\ p \in {"eoa", "filter"}
  BY <1>1 DEF Shapes, TypeOK, Accounts
<1>. HIDE DEF p
<1>4. l \in LegRecords /\ l.src = "safe"
  BY <1>3 DEF Leg, LegRecords, Accounts
<1>. HIDE DEF l
<1>5. p \in Pcs
  BY <1>3 DEF Pcs
<1>6. /\ pc' \in [Threads -> Pcs] /\ job' \in [Threads -> Jobs] /\ leg' \in [Threads -> LegRecords]
      /\ pc'[t] = p /\ job'[t] = "sweep" /\ leg'[t] = l /\ Others(t)
  BY <1>1, <1>2, <1>4, <1>5, Control
<1>7. Shapes'
  BY <1>1, <1>2, <1>6, ShapesStep DEF Shapes, TypeOK
<1>8. PlacesOf(t)' /\ HeldBy(t)' /\ LegOf(t)' /\ SafeOf(t)'
  BY <1>1, <1>2, <1>3, <1>4, <1>6 DEF PlacesOf, HeldBy, LegOf, SafeOf, Locked
<1>. QED
  BY <1>2, <1>6, <1>7, <1>8, Still DEF Unmoved, OwnLock

LEMMA PlanEoaStep ==
    ASSUME IInv, NEW t \in Threads, PlanEoa(t)
    PROVE  IInv'
<1>1. Shapes /\ PlacesOf(t) /\ job[t] \in Jobs /\ leg[t] \in LegRecords
  BY Typed DEF IInv, Places
<1>2. /\ pc' = [pc EXCEPT ![t] = "token"] /\ job' = job /\ leg' = leg
      /\ wd' = [wd EXCEPT !.rest = bal.eoa]
      /\ UNCHANGED <<bal, reward, owner, registered, running, lock, funding, entitled,
                     disturbed, jobs>>
  BY DEF PlanEoa, Go, chain
<1>3. job[t] = "sweep" /\ t = "loop" /\ "token" \in Pcs
  BY <1>1 DEF PlanEoa, PlacesOf, Pcs
<1>4. /\ pc' \in [Threads -> Pcs] /\ job' \in [Threads -> Jobs] /\ leg' \in [Threads -> LegRecords]
      /\ pc'[t] = "token" /\ job'[t] = "sweep" /\ Others(t)
  BY <1>1, <1>2, <1>3, Control
<1>5. wd' \in [had : Amounts, ask : Amounts, safe : Amounts, rest : [Assets -> Int]]
  <2>1. bal.eoa \in [Assets -> Int]
    BY <1>1 DEF Shapes, TypeOK, Amounts, Accounts
  <2>. QED
    BY <1>1, <1>2, <2>1 DEF Shapes
<1>6. Shapes'
  BY <1>1, <1>2, <1>4, <1>5, ShapesStep DEF Shapes, TypeOK
<1>7. PlacesOf(t)' /\ HeldBy(t)' /\ LegOf(t)' /\ SafeOf(t)'
  BY <1>3, <1>4 DEF PlacesOf, HeldBy, LegOf, SafeOf, Locked
<1>. QED
  BY <1>2, <1>3, <1>4, <1>6, <1>7, Still DEF Unmoved, OwnLock

LEMMA AfterShape ==
    ASSUME NEW t \in Threads
    PROVE  /\ After(t) \in {"token", "eoa", "agent", "end"}
           /\ After(t) = "token" <=> job[t] = "pay"
           /\ After(t) = "eoa" <=> job[t] = "sweep"
           /\ After(t) = "agent" => job[t] \in Locked
<1>1. CASE job[t] = "pay"
  BY <1>1 DEF After, Locked
<1>2. CASE job[t] = "sweep"
  BY <1>2 DEF After, Locked
<1>3. CASE job[t] \in Locked \ {"withdraw"}
  BY <1>3 DEF After, Locked
<1>4. CASE job[t] \notin {"pay", "sweep"} \cup (Locked \ {"withdraw"})
  BY <1>4 DEF After
<1>. QED
  BY <1>1, <1>2, <1>3, <1>4

\* The pre-filter passes on a part of the leg.
LEMMA FilterPart ==
    ASSUME IInv, NEW t \in Threads, NEW kept \in Amounts,
           \A a \in Assets : kept[a] <= leg[t].amounts[a],
           pc[t] = "filter", Go(t, "settle"), job' = job,
           leg' = [leg EXCEPT ![t].amounts = kept, ![t].short = kept # leg[t].amounts],
           UNCHANGED <<bal, reward, owner, registered, running, lock, funding, wd, entitled,
                       disturbed, jobs>>
    PROVE  IInv'
<1> DEFINE l == [leg[t] EXCEPT !.amounts = kept, !.short = kept # leg[t].amounts]
<1>1. /\ Shapes /\ PlacesOf(t) /\ HeldBy(t) /\ LegOf(t) /\ SafeOf(t)
      /\ job[t] \in Jobs /\ leg[t] \in LegRecords /\ leg[t].amounts \in Amounts
      /\ bal \in [Accounts -> Amounts]
  BY Typed DEF IInv, Places
<1>2. /\ l \in LegRecords /\ l.amounts = kept /\ l.src = leg[t].src /\ l.to = leg[t].to
      /\ l.how = leg[t].how
      /\ l.short = (kept # leg[t].amounts)
  BY <1>1 DEF LegRecords
<1>3. leg' = [leg EXCEPT ![t] = l]
  BY <1>1 DEF Shapes
<1>. HIDE DEF l
<1>4. "settle" \in Pcs /\ pc' = [pc EXCEPT ![t] = "settle"]
  BY DEF Pcs, Go
<1>5. /\ pc' \in [Threads -> Pcs] /\ job' \in [Threads -> Jobs] /\ leg' \in [Threads -> LegRecords]
      /\ pc'[t] = "settle" /\ job'[t] = job[t] /\ leg'[t] = l /\ Others(t)
  BY <1>1, <1>2, <1>3, <1>4, Control
<1>6. Shapes'
  BY <1>1, <1>5, ShapesStep DEF Shapes, TypeOK
<1>7. \A a \in Assets : leg[t].amounts[a] \in Nat /\ kept[a] \in Nat
  BY <1>1 DEF Amounts
<1>8. Executable(leg[t]) => Executable(leg[t])'
  <2> SUFFICES ASSUME Executable(leg[t])
               PROVE  Executable(leg[t])'
    OBVIOUS
  <2>1. Authorized(leg[t])'
    BY <1>2, <1>5 DEF Executable, Authorized
  <2>2. \A a \in Assets : bal[leg[t].src][a] \in Nat
    BY <1>1 DEF Amounts, LegRecords, Accounts
  <2>3. Covered(kept, bal[leg[t].src])
    BY <1>7, <2>2 DEF Executable, Covered
  <2>. QED
    BY <1>2, <1>5, <2>1, <2>3 DEF Executable
<1>9. PlacesOf(t)' /\ HeldBy(t)' /\ LegOf(t)' /\ SafeOf(t)'
  <2>1. PlacesOf(t)' /\ HeldBy(t)'
    BY <1>1, <1>5 DEF PlacesOf, HeldBy
  <2>2. SafeOf(t)'
    BY <1>1, <1>5, <1>8 DEF SafeOf
  <2>3. job[t] = "topup" => kept.token = 0
    BY <1>1, <1>7 DEF LegOf, Assets
  <2>4. LegOf(t)'
    BY <1>1, <1>2, <1>5, <2>3 DEF LegOf
  <2>. QED
    BY <2>1, <2>2, <2>4
<1>10. CASE job[t] # "pay"
  BY <1>5, <1>6, <1>9, <1>10, Still DEF Unmoved, OwnLock
<1>11. CASE job[t] = "pay"
  <2>1. t = "loop"
    BY <1>1, <1>11 DEF PlacesOf
  <2>2. \A a \in Assets : Pending(a)' <= Pending(a)
    <3>1. \A a \in Assets : Plus(wd.rest[a]) \in Nat
      BY <1>1 DEF Plus, Shapes
    <3>2. \A a \in Assets : Pending(a) = leg[t].amounts[a] + Plus(wd.rest[a])
      BY <1>11, <2>1 DEF Pending
    <3>3. \A a \in Assets : Pending(a)' = kept[a] + Plus(wd.rest[a])
      BY <1>2, <1>5, <1>11, <2>1 DEF Pending
    <3>. QED
      BY <1>7, <3>1, <3>2, <3>3
  <2>3. Track'
    <3>1. bal.safe.token \in Nat /\ bal.safe.native \in Nat /\ Assets = {"token", "native"}
      BY <1>1 DEF Amounts, Accounts, Assets
    <3>2. Track
      BY DEF IInv
    <3>3. /\ l.how = "batch" /\ l.to = "user"
          /\ l.amounts.token <= bal.safe.token
          /\ "loop" \in disturbed \/ l.amounts.native <= bal.safe.native
      BY <1>2, <1>7, <1>11, <2>1, <3>1, <3>2 DEF Track
    <3>4. \A a \in Assets : /\ bal.user[a] = wd.had[a]
                            /\ ~l.short => l.amounts[a] = wd.safe[a]
                            /\ wd.safe[a] + wd.rest[a] = wd.ask[a]
      BY <1>2, <1>11, <2>1, <3>2 DEF Track
    <3>5. /\ job'["loop"] = "pay" /\ pc'["loop"] = "settle" /\ leg'["loop"] = l
          /\ bal' = bal /\ wd' = wd /\ disturbed' = disturbed
      BY <1>5, <1>11, <2>1
    <3>6. (\A a \in Assets :
             /\ bal["user"][a] = wd.had[a]
             /\ ~leg["loop"].short => leg["loop"].amounts[a] = wd.safe[a]
             /\ wd.safe[a] + wd.rest[a] = wd.ask[a])'
      BY <3>4, <3>5
    <3>. QED
      BY <3>3, <3>5, <3>6 DEF Track
  <2>4. PlacesOf("loop")' /\ HeldBy("loop")' /\ LegOf("loop")' /\ SafeOf("loop")' /\ Others("loop")
    BY <1>5, <1>9, <2>1
  <2>5. job'["loop"] \notin {"empty", "sweep"}
    BY <1>5, <1>11, <2>1
  <2>. QED
    BY <1>6, <2>2, <2>3, <2>4, <2>5, StillInside DEF Unmoved, OwnLock
<1>. QED
  BY <1>10, <1>11

LEMMA FilterStep ==
    ASSUME IInv, NEW t \in Threads, Filter(t)
    PROVE  IInv'
<1>1. /\ Shapes /\ PlacesOf(t) /\ HeldBy(t) /\ job[t] \in Jobs /\ leg[t] \in LegRecords
      /\ leg[t].amounts \in Amounts /\ bal \in [Accounts -> Amounts]
  BY Typed DEF IInv, Places
<1>2. /\ pc[t] = "filter"
      /\ UNCHANGED <<bal, reward, owner, registered, running, wd, entitled, disturbed, jobs>>
  BY DEF Filter, chain
<1>3. PICK refused \in SUBSET Assets :
        LET kept == Kept(leg[t].amounts, bal[leg[t].src], refused)
        IN  \/ /\ kept # None
               /\ leg' = [leg EXCEPT ![t].amounts = kept, ![t].short = kept # leg[t].amounts]
               /\ Go(t, "settle")
               /\ UNCHANGED <<lock, funding, job>>
            \/ /\ kept = None /\ job[t] \notin RequireAll
               /\ Go(t, After(t))
               /\ UNCHANGED <<lock, funding, job, leg>>
            \/ /\ kept = None /\ job[t] \in RequireAll
               /\ Raised(t)
  BY DEF Filter
<1> DEFINE kept == Kept(leg[t].amounts, bal[leg[t].src], refused)
<1>4. kept \in Amounts /\ \A a \in Assets : kept[a] <= leg[t].amounts[a]
  <2>1. \A a \in Assets : leg[t].amounts[a] \in Nat
    BY <1>1 DEF Amounts
  <2>. QED
    BY <2>1 DEF Kept, Amounts
<1>5. CASE /\ leg' = [leg EXCEPT ![t].amounts = kept, ![t].short = kept # leg[t].amounts]
           /\ Go(t, "settle")
           /\ UNCHANGED <<lock, funding, job>>
  <2>. HIDE DEF kept
  <2>. QED
    BY <1>2, <1>4, <1>5, FilterPart
<1>6. CASE job[t] \notin RequireAll /\ Go(t, After(t)) /\ UNCHANGED <<lock, funding, job, leg>>
  <2>1. After(t) \in {"eoa", "agent", "end"} /\ job[t] # "pay"
    BY <1>6, AfterShape DEF RequireAll
  <2>2. pc' = [pc EXCEPT ![t] = After(t)] /\ After(t) \in Pcs
    BY <1>6, <2>1 DEF Go, Pcs
  <2>3. /\ pc' \in [Threads -> Pcs] /\ job' \in [Threads -> Jobs]
        /\ leg' \in [Threads -> LegRecords]
        /\ pc'[t] = After(t) /\ job'[t] = job[t] /\ Others(t)
    BY <1>1, <1>6, <2>2, Control
  <2>4. Shapes'
    BY <1>1, <1>2, <1>6, <2>3, ShapesStep DEF Shapes, TypeOK
  <2>5. PlacesOf(t)' /\ HeldBy(t)' /\ LegOf(t)' /\ SafeOf(t)'
    <3>1. pc'[t] = "eoa" => job[t] = "sweep"
      BY <2>3, AfterShape
    <3>2. pc'[t] = "agent" => job[t] \in Locked
      BY <2>3, AfterShape
    <3>3. PlacesOf(t)'
      BY <1>1, <2>1, <2>3, <3>1, <3>2 DEF PlacesOf
    <3>. QED
      BY <1>1, <1>2, <1>6, <2>1, <2>3, <3>3 DEF HeldBy, LegOf, SafeOf
  <2>. QED
    BY <1>2, <1>6, <2>1, <2>3, <2>4, <2>5, Still DEF Unmoved, OwnLock
<1>7. CASE Raised(t)
  BY <1>2, <1>7, Leaves DEF chain
<1>. QED
  BY <1>3, <1>5, <1>6, <1>7

---------------------------------------------------------------------------
(* Steps that move money *)

LEMMA TotalFalls ==
    ASSUME Shapes, Shapes', reward' = reward,
           \A a \in Assets : Sum(bal', a) <= Sum(bal, a)
    PROVE  \A a \in Assets : Total(a)' <= Total(a)
<1> SUFFICES ASSUME NEW a \in Assets
             PROVE  Total(a)' <= Total(a)
  OBVIOUS
<1>1. /\ bal.user[a] \in Nat /\ bal.safe[a] \in Nat /\ bal.eoa[a] \in Nat
      /\ bal.pot[a] \in Nat /\ bal.agent[a] \in Nat /\ reward \in Nat
  BY DEF Shapes, TypeOK, Amounts, Accounts
<1>2. /\ bal'.user[a] \in Nat /\ bal'.safe[a] \in Nat /\ bal'.eoa[a] \in Nat
      /\ bal'.pot[a] \in Nat /\ bal'.agent[a] \in Nat
  BY DEF Shapes, TypeOK, Amounts, Accounts
<1>3. Sum(bal', a) <= Sum(bal, a)
  OBVIOUS
<1>. QED
  BY <1>1, <1>2, <1>3 DEF Total, Sum

\* The shares that a settled leg moves; none when it was reverted.
LEMMA SettleBal ==
    ASSUME IInv, NEW t \in Threads, HasGas(leg[t].signer), NEW m \in Amounts,
           \A a \in Assets : m[a] <= bal[leg[t].src][a],
           bal' = Paid(Moved(bal, leg[t].src, leg[t].to, m), leg[t].signer)
    PROVE  /\ bal' \in [Accounts -> Amounts]
           /\ \A a \in Assets :
                /\ Sum(bal', a) <= Sum(bal, a)
                /\ bal'.user[a] = bal.user[a] + IF leg[t].to = "user" THEN m[a] ELSE 0
                /\ leg[t].src = "safe" \/ bal.safe[a] <= bal'.safe[a]
                /\ leg[t].src = "pot" \/ bal.pot[a] <= bal'.pot[a]
                /\ m[a] = 0 => bal.safe[a] <= bal'.safe[a] /\ bal.pot[a] <= bal'.pot[a]
<1>1. /\ bal \in [Accounts -> Amounts] /\ leg[t] \in LegRecords
      /\ leg[t].src \in {"safe", "pot"} /\ leg[t].to \in Accounts
      /\ leg[t].signer \in {"agent", "eoa"}
  BY Typed DEF IInv, LegRecords
<1>2. leg[t].src \in Accounts /\ {"user", "safe", "pot"} \subseteq Accounts
  BY <1>1 DEF Accounts
<1>3. \A a \in Assets : m[a] + Fee(leg[t].src, leg[t].signer, a) <= bal[leg[t].src][a]
  <2>1. \A a \in Assets : Fee(leg[t].src, leg[t].signer, a) = 0
    BY <1>1 DEF Fee
  <2>2. \A a \in Assets : m[a] \in Nat
    BY DEF Amounts
  <2>. QED
    BY <2>1, <2>2
<1>4. Gas <= bal[leg[t].signer].native
  <2>1. bal[leg[t].signer].native \in Nat /\ Gas \in Nat
    BY <1>1, AmountsAssumption DEF Amounts, Accounts, Assets
  <2>. QED
    BY <2>1 DEF HasGas
<1> DEFINE src == leg[t].src
           to == leg[t].to
           signer == leg[t].signer
<1>5. /\ bal' \in [Accounts -> Amounts]
      /\ \A x \in Accounts, a \in Assets :
           bal'[x][a] = bal[x][a] + (IF x = to THEN m[a] ELSE 0) - (IF x = src THEN m[a] ELSE 0)
                                  - Fee(x, signer, a)
      /\ \A a \in Assets : Sum(bal', a) <= Sum(bal, a)
  <2>1. /\ src \in Accounts /\ to \in Accounts /\ signer \in {"agent", "eoa"}
        /\ \A a \in Assets : m[a] + Fee(src, signer, a) <= bal[src][a]
        /\ Gas <= bal[signer].native
        /\ bal' = Paid(Moved(bal, src, to, m), signer)
    BY <1>1, <1>2, <1>3, <1>4
  <2>. HIDE DEF src, to, signer
  <2>2. bal \in [Accounts -> Amounts]
    BY <1>1
  <2>. QED
    BY <2>1, <2>2, Mined
<1>6. ASSUME NEW a \in Assets
      PROVE  /\ bal'.user[a] = bal.user[a] + IF leg[t].to = "user" THEN m[a] ELSE 0
             /\ leg[t].src = "safe" \/ bal.safe[a] <= bal'.safe[a]
             /\ leg[t].src = "pot" \/ bal.pot[a] <= bal'.pot[a]
             /\ m[a] = 0 => bal.safe[a] <= bal'.safe[a] /\ bal.pot[a] <= bal'.pot[a]
  <2>1. m[a] \in Nat /\ bal.user[a] \in Nat /\ bal.safe[a] \in Nat /\ bal.pot[a] \in Nat
    BY <1>1, <1>2 DEF Amounts
  <2>2. \A x \in {"user", "safe", "pot"} :
          bal'[x][a] = bal[x][a] + (IF x = leg[t].to THEN m[a] ELSE 0)
                                 - (IF x = leg[t].src THEN m[a] ELSE 0) - 0
    <3>1. \A x \in {"user", "safe", "pot"} : Fee(x, leg[t].signer, a) = 0
      BY <1>1 DEF Fee
    <3>. QED
      BY <1>2, <1>5, <3>1
  <2>. QED
    BY <1>1, <2>1, <2>2
<1>. QED
  BY <1>5, <1>6

\* A transaction that does nothing but cost its fee
LEMMA NothingMoved ==
    ASSUME NEW b \in [Accounts -> Amounts], NEW src \in Accounts, NEW to \in Accounts
    PROVE  None \in Amounts /\ Moved(b, src, to, None) = b
<1>1. None \in Amounts /\ \A a \in Assets : None[a] = 0
  BY DEF None, Amounts
<1>2. ASSUME NEW x \in Accounts
      PROVE  Moved(b, src, to, None)[x] = b[x]
  <2>1. \A a \in Assets : b[x][a] \in Int
    BY DEF Amounts
  <2>2. \A a \in Assets : Moved(b, src, to, None)[x][a] = b[x][a]
    BY <1>1, <2>1 DEF Moved
  <2>3. Moved(b, src, to, None)[x] = [a \in Assets |-> Moved(b, src, to, None)[x][a]]
    BY DEF Moved
  <2>4. b[x] = [a \in Assets |-> b[x][a]]
    BY DEF Amounts
  <2>. QED
    BY <2>2, <2>3, <2>4
<1>3. Moved(b, src, to, None) = [x \in Accounts |-> Moved(b, src, to, None)[x]]
  BY DEF Moved
<1>. QED
  BY <1>1, <1>2, <1>3

\* The job of t goes on after its leg.
Ongoing(t) ==
    /\ pc'[t] = After(t) /\ job'[t] = job[t] /\ leg'[t] = leg[t] /\ lock' = lock
    /\ job[t] # "claim"
    /\ leg[t].short => job[t] \notin RequireAll

LEMMA SentShape ==
    ASSUME Shapes, NEW t \in Threads, Sent(t)
    PROVE  /\ pc' \in [Threads -> Pcs] /\ job' \in [Threads -> Jobs]
           /\ leg' \in [Threads -> LegRecords]
           /\ lock' \in Threads \cup {"free"} /\ funding' \in BOOLEAN
           /\ Out(t) \/ Ongoing(t)
           /\ Others(t) /\ OwnLock(t)
<1>1. CASE leg[t].short /\ job[t] \in RequireAll
  BY <1>1, RaisedShape DEF Sent
<1>2. CASE ~(leg[t].short /\ job[t] \in RequireAll) /\ job[t] = "claim"
  <2>1. Continue(t, "topup", "plan") /\ "topup" \in Jobs /\ "plan" \in Pcs
    BY <1>2 DEF Sent, Jobs, Pcs
  <2>. QED
    BY <1>2, <2>1, ContinueShape DEF Out
<1>3. CASE ~(leg[t].short /\ job[t] \in RequireAll) /\ job[t] # "claim"
  <2>1. Go(t, After(t)) /\ UNCHANGED <<lock, funding, job, leg>>
    BY <1>3 DEF Sent
  <2>2. pc' = [pc EXCEPT ![t] = After(t)] /\ After(t) \in Pcs /\ job[t] \in Jobs /\ leg[t] \in LegRecords
    BY <2>1, AfterShape, Typed DEF Go, Pcs
  <2>3. /\ pc' \in [Threads -> Pcs] /\ job' \in [Threads -> Jobs]
        /\ leg' \in [Threads -> LegRecords]
        /\ pc'[t] = After(t) /\ Others(t)
    BY <2>1, <2>2, Control
  <2>4. lock' \in Threads \cup {"free"} /\ funding' \in BOOLEAN
    BY <2>1 DEF Shapes, TypeOK
  <2>. QED
    BY <1>3, <2>1, <2>3, <2>4 DEF Ongoing, OwnLock
<1>. QED
  BY <1>1, <1>2, <1>3

LEMMA LessGasShape ==
    ASSUME Shapes, NEW t \in Threads, LessGas(t) \/ UNCHANGED wd
    PROVE  /\ wd' \in [had : Amounts, ask : Amounts, safe : Amounts, rest : [Assets -> Int]]
           /\ wd'.had = wd.had /\ wd'.ask = wd.ask /\ wd'.safe = wd.safe
           /\ wd'.rest.token = wd.rest.token
           /\ \A a \in Assets : Plus(wd'.rest[a]) <= Plus(wd.rest[a])
           /\ job[t] # "pay" => wd' = wd
<1>1. /\ wd \in [had : Amounts, ask : Amounts, safe : Amounts, rest : [Assets -> Int]]
      /\ wd.rest \in [Assets -> Int] /\ \A a \in Assets : wd.rest[a] \in Int
      /\ wd.rest.native \in Int /\ Gas \in Nat /\ Assets = {"token", "native"}
  BY AmountsAssumption DEF Shapes, Assets
<1>2. CASE wd' = wd
  BY <1>1, <1>2 DEF Plus
<1>3. CASE job[t] = "pay" /\ wd' = [wd EXCEPT !.rest.native = wd.rest.native - Gas]
  <2> DEFINE r == [wd.rest EXCEPT !.native = wd.rest.native - Gas]
  <2>1. r \in [Assets -> Int] /\ r.token = wd.rest.token /\ r.native = wd.rest.native - Gas
    BY <1>1
  <2>2. wd' = [wd EXCEPT !.rest = r]
    BY <1>3
  <2>. HIDE DEF r
  <2>3. /\ wd'.rest = r /\ wd'.had = wd.had /\ wd'.ask = wd.ask /\ wd'.safe = wd.safe
        /\ wd' \in [had : Amounts, ask : Amounts, safe : Amounts, rest : [Assets -> Int]]
    BY <1>1, <2>1, <2>2
  <2>4. \A a \in Assets : r[a] \in Int /\ r[a] <= wd.rest[a]
    BY <1>1, <2>1
  <2>. QED
    BY <1>1, <1>3, <2>1, <2>3, <2>4 DEF Plus
<1>. QED
  BY <1>2, <1>3 DEF LessGas

LEMMA OngoingOwn ==
    ASSUME NEW t \in Threads, pc[t] = "settle", PlacesOf(t), HeldBy(t), Ongoing(t)
    PROVE  PlacesOf(t)' /\ HeldBy(t)' /\ LegOf(t)' /\ SafeOf(t)'
<1>1. /\ pc'[t] \in {"token", "eoa", "agent", "end"}
      /\ pc'[t] = "token" => job[t] = "pay"
      /\ pc'[t] = "eoa" => job[t] = "sweep"
      /\ pc'[t] = "agent" => job[t] \in Locked
  BY AfterShape DEF Ongoing
<1>2. PlacesOf(t)'
  BY <1>1 DEF PlacesOf, Ongoing
<1>. QED
  BY <1>1, <1>2 DEF HeldBy, LegOf, SafeOf, Ongoing

\* A leg that is mined moves the amounts m: its own, or none when it is reverted.
LEMMA SettleCommon ==
    ASSUME IInv, NEW t \in Threads, pc[t] = "settle", HasGas(leg[t].signer), NEW m \in Amounts,
           \A a \in Assets : m[a] <= bal[leg[t].src][a],
           \A a \in Assets : m[a] <= leg[t].amounts[a],
           bal' = Paid(Moved(bal, leg[t].src, leg[t].to, m), leg[t].signer),
           pc' \in [Threads -> Pcs], job' \in [Threads -> Jobs], leg' \in [Threads -> LegRecords],
           lock' \in Threads \cup {"free"}, funding' \in BOOLEAN,
           Out(t) \/ Ongoing(t), Others(t), OwnLock(t),
           LessGas(t) \/ UNCHANGED wd,
           disturbed' \subseteq Threads, disturbed \subseteq disturbed',
           job[t] = "claim" => disturbed' = Threads \/ m = None,
           job[t] = "topup" => "loop" \in disturbed' \/ m = None,
           job[t] = "pay" /\ Ongoing(t) =>
               \/ m = leg[t].amounts
               \/ m = None /\ leg[t].amounts.token = 0 /\ "loop" \in disturbed,
           UNCHANGED <<reward, owner, registered, running, entitled, jobs>>
    PROVE  IInv'
<1>1. /\ Shapes /\ PlacesOf(t) /\ HeldBy(t) /\ LegOf(t) /\ leg[t] \in LegRecords
      /\ job[t] \in Jobs /\ leg[t].amounts \in Amounts /\ bal \in [Accounts -> Amounts]
  BY Typed DEF IInv, Places
<1>2. /\ bal' \in [Accounts -> Amounts]
      /\ \A a \in Assets :
           /\ Sum(bal', a) <= Sum(bal, a)
           /\ bal'.user[a] = bal.user[a] + IF leg[t].to = "user" THEN m[a] ELSE 0
           /\ leg[t].src = "safe" \/ bal.safe[a] <= bal'.safe[a]
           /\ leg[t].src = "pot" \/ bal.pot[a] <= bal'.pot[a]
           /\ m[a] = 0 => bal.safe[a] <= bal'.safe[a] /\ bal.pot[a] <= bal'.pot[a]
  BY SettleBal
<1>3. /\ wd' \in [had : Amounts, ask : Amounts, safe : Amounts, rest : [Assets -> Int]]
      /\ wd'.had = wd.had /\ wd'.ask = wd.ask /\ wd'.safe = wd.safe
      /\ wd'.rest.token = wd.rest.token
      /\ \A a \in Assets : Plus(wd'.rest[a]) <= Plus(wd.rest[a])
      /\ job[t] # "pay" => wd' = wd
  BY <1>1, LessGasShape
<1>4. Shapes'
  BY <1>1, <1>2, <1>3, ShapesStep DEF Shapes, TypeOK
<1>5. PlacesOf(t)' /\ HeldBy(t)' /\ LegOf(t)' /\ SafeOf(t)'
  BY <1>1, OutOwn, OngoingOwn
<1>6. Assets = {"token", "native"} /\ (m = None => \A a \in Assets : m[a] = 0)
  BY DEF Assets, None
<1>7. PlansKept(t)
  <2>1. CASE leg[t].src = "safe"
    BY <1>2, <2>1 DEF PlansKept
  <2>2. CASE job[t] \in Locked
    <3>1. lock = t
      BY <1>1, <2>2 DEF HeldBy
    <3>. QED
      BY <3>1 DEF PlansKept
  <2>3. CASE job[t] = "claim"
    BY <1>2, <1>6, <2>3 DEF PlansKept
  <2>4. leg[t].src = "safe" \/ job[t] \in Locked \/ job[t] = "claim"
    BY <1>1 DEF Jobs, RequireAll, LegOf, PlacesOf, Locked
  <2>. QED
    BY <2>1, <2>2, <2>3, <2>4
<1>8. \A a \in Assets : Total(a)' <= Total(a)
  BY <1>1, <1>2, <1>4, TotalFalls
<1>9. Places'
  BY <1>4, <1>5, <1>7, Frame
<1>10. CASE t # "loop"
  <2>1. leg[t].to # "user" /\ job[t] # "pay"
    BY <1>1, <1>10 DEF LegOf, PlacesOf
  <2>2. \A a \in Assets : bal'.user[a] = bal.user[a]
    <3>1. \A a \in Assets : bal.user[a] \in Int
      BY <1>1 DEF Amounts, Accounts
    <3>. QED
      BY <1>2, <2>1, <3>1
  <2>3. bal.safe.token <= bal'.safe.token
    <3>1. CASE leg[t].src # "safe"
      BY <1>2, <1>6, <3>1
    <3>2. CASE leg[t].src = "safe"
      <4>1. job[t] = "topup"
        BY <1>1, <1>10, <3>2 DEF LegOf, PlacesOf, Jobs, Locked, RequireAll
      <4>2. leg[t].amounts.token = 0 /\ m.token \in Nat
        BY <1>1, <1>6, <4>1 DEF LegOf, Amounts
      <4>3. m.token = 0
        BY <1>6, <4>2
      <4>. QED
        BY <1>2, <1>6, <4>3
    <3>. QED
      BY <3>1, <3>2
  <2>4. "loop" \in disturbed' \/ bal.safe.native <= bal'.safe.native
    <3>1. CASE leg[t].src # "safe"
      BY <1>2, <1>6, <3>1
    <3>2. CASE leg[t].src = "safe"
      <4>1. job[t] = "topup"
        BY <1>1, <1>10, <3>2 DEF LegOf, PlacesOf, Jobs, Locked, RequireAll
      <4>. QED
        BY <1>2, <1>6, <4>1
    <3>. QED
      BY <3>1, <3>2
  <2>5. Asked' /\ Track'
    BY <1>3, <1>4, <1>8, <1>10, <2>1, <2>2, <2>3, <2>4, Outside
  <2>. QED
    BY <1>4, <1>9, <2>5 DEF IInv
<1>11. CASE t = "loop" /\ job[t] # "pay"
  <2>1. job'[t] # "pay" /\ (job'[t] \in {"empty", "sweep"} => job[t] \in {"empty", "sweep"})
    BY <1>11 DEF Out, Ongoing
  <2>2. Track'
    BY <1>11, <2>1 DEF Track
  <2>3. job[t] \notin {"empty", "sweep"} => leg[t].to # "user"
    BY <1>1, <1>11 DEF LegOf
  <2>4. \A a \in Assets : Pending(a) = 0 /\ Pending(a)' = 0
    BY <1>11, <2>1 DEF Pending
  <2>5. \A a \in Assets : bal.user[a] \in Int
    BY <1>1 DEF Amounts, Accounts
  <2>6. job[t] \notin {"empty", "sweep"} =>
          \A a \in Assets : bal'.user[a] + Pending(a)' <= bal.user[a] + Pending(a)
    BY <1>2, <2>3, <2>4, <2>5
  <2>7. Asked'
    BY <1>4, <1>8, <1>11, <2>1, <2>6, AskedStep
  <2>. QED
    BY <1>4, <1>9, <2>2, <2>7 DEF IInv
<1>12. CASE t = "loop" /\ job[t] = "pay"
  <2>1. /\ leg[t].how = "batch" /\ leg[t].to = "user"
        /\ leg[t].amounts.token <= bal.safe.token
        /\ "loop" \in disturbed \/ leg[t].amounts.native <= bal.safe.native
        /\ \A a \in Assets :
             /\ bal.user[a] = wd.had[a]
             /\ ~leg[t].short => leg[t].amounts[a] = wd.safe[a]
             /\ wd.safe[a] + wd.rest[a] = wd.ask[a]
    BY <1>12 DEF IInv, Track
  <2>2. \A a \in Assets : /\ m[a] \in Nat /\ bal.user[a] \in Nat /\ leg[t].amounts[a] \in Nat
                          /\ wd.rest[a] \in Int /\ wd'.rest[a] \in Int /\ wd.safe[a] \in Nat
                          /\ wd.ask[a] \in Nat /\ wd.had[a] \in Nat
                          /\ bal'.user[a] = bal.user[a] + m[a]
    BY <1>1, <1>2, <1>3, <2>1 DEF Amounts, Accounts, Shapes
  <2>3. Plus(0) = 0 /\ \A a \in Assets : Plus(wd.rest[a]) \in Nat /\ Plus(wd'.rest[a]) \in Nat
    BY <2>2 DEF Plus
  <2>4. \A a \in Assets : Pending(a) = leg[t].amounts[a] + Plus(wd.rest[a])
    BY <1>12 DEF Pending
  <2>5. CASE Ongoing(t)
    <3>1. pc'[t] = "token" /\ job'[t] = "pay" /\ ~leg[t].short
      BY <1>12, <2>5, AfterShape DEF Ongoing, RequireAll
    <3>2. \A a \in Assets : Pending(a)' = Plus(wd'.rest[a])
      BY <1>12, <3>1 DEF Pending
    <3>3. \A a \in Assets : bal'.user[a] + Pending(a)' <= bal.user[a] + Pending(a)
      BY <1>3, <2>2, <2>3, <2>4, <3>2
    <3>4. Asked'
      BY <1>4, <1>8, <1>12, <3>1, <3>3, AskedStep
    <3>5. Track'
      <4>1. CASE m = leg[t].amounts
        <5>1. \A a \in Assets : bal'.user[a] = wd.had[a] + wd.safe[a]
          BY <2>1, <2>2, <3>1, <4>1
        <5>2. NativePaid'
          <6>1. bal'.user.native >= wd.had.native + wd.safe.native
            BY <1>6, <2>2, <5>1
          <6>. QED
            BY <1>3, <6>1 DEF NativePaid
        <5>3. wd.safe.token + wd'.rest.token = wd.ask.token
          BY <1>3, <1>6, <2>1
        <5>4. bal'.user.token = wd.had.token + wd.safe.token
          BY <1>6, <5>1
        <5>. QED
          BY <1>3, <1>12, <3>1, <5>2, <5>3, <5>4 DEF Track
      <4>2. CASE m = None /\ leg[t].amounts.token = 0 /\ "loop" \in disturbed
        <5>1. NativePaid'
          BY <4>2 DEF NativePaid
        <5>2. bal'.user.token = wd.had.token + wd.safe.token
          BY <1>6, <2>1, <2>2, <3>1, <4>2
        <5>3. wd.safe.token + wd'.rest.token = wd.ask.token
          BY <1>3, <1>6, <2>1
        <5>. QED
          BY <1>3, <1>12, <3>1, <5>1, <5>2, <5>3 DEF Track
      <4>. QED
        BY <1>12, <2>5, <4>1, <4>2
    <3>. QED
      BY <1>4, <1>9, <3>4, <3>5 DEF IInv
  <2>6. CASE Out(t)
    <3>1. job'[t] = "none" /\ pc'[t] = "idle"
      BY <1>12, <2>6 DEF Out
    <3>2. Track'
      BY <1>12, <3>1 DEF Track
    <3>3. \A a \in Assets : Pending(a)' = 0
      BY <1>12, <3>1 DEF Pending
    <3>4. \A a \in Assets : bal'.user[a] + Pending(a)' <= bal.user[a] + Pending(a)
      BY <2>2, <2>3, <2>4, <3>3
    <3>5. Asked'
      BY <1>4, <1>8, <1>12, <3>1, <3>4, AskedStep
    <3>. QED
      BY <1>4, <1>9, <3>2, <3>5 DEF IInv
  <2>. QED
    BY <2>5, <2>6
<1>. QED
  BY <1>10, <1>11, <1>12

LEMMA SettleStep ==
    ASSUME IInv, NEW t \in Threads, Settle(t)
    PROVE  IInv'
<1>1. /\ Shapes /\ leg[t] \in LegRecords /\ job[t] \in Jobs /\ leg[t].amounts \in Amounts
      /\ bal \in [Accounts -> Amounts] /\ disturbed \subseteq Threads
      /\ PlacesOf(t) /\ LegOf(t)
  BY Typed DEF IInv, Places, Shapes, TypeOK
<1>2. /\ pc[t] = "settle" /\ HasGas(leg[t].signer)
      /\ UNCHANGED <<reward, owner, registered, running, entitled, jobs>>
  BY DEF Settle
<1>3. ASSUME Sent(t) \/ Raised(t)
      PROVE  /\ pc' \in [Threads -> Pcs] /\ job' \in [Threads -> Jobs]
             /\ leg' \in [Threads -> LegRecords]
             /\ lock' \in Threads \cup {"free"} /\ funding' \in BOOLEAN
             /\ Out(t) \/ Ongoing(t)
             /\ Others(t) /\ OwnLock(t)
  BY <1>1, <1>3, SentShape, RaisedShape
<1>4. ASSUME Raised(t), job[t] = "pay"
      PROVE  ~Ongoing(t)
  <2>1. job'[t] = "none"
    BY <1>1, <1>4, RaisedShape DEF Out
  <2>. QED
    BY <1>4, <2>1 DEF Ongoing
<1>5. CASE /\ Executable(leg[t])
           /\ bal' = Paid(Moved(bal, leg[t].src, leg[t].to, leg[t].amounts), leg[t].signer)
           /\ disturbed' = disturbed \cup Overtaken(t)
           /\ (Sent(t) /\ LessGas(t)) \/ (Raised(t) /\ UNCHANGED wd)
  <2>1. \A a \in Assets : /\ leg[t].amounts[a] <= bal[leg[t].src][a]
                          /\ leg[t].amounts[a] <= leg[t].amounts[a]
    <3>1. \A a \in Assets : leg[t].amounts[a] \in Nat
      BY <1>1 DEF Amounts
    <3>. QED
      BY <1>5, <3>1 DEF Executable, Covered
  <2>2. /\ disturbed' \subseteq Threads /\ disturbed \subseteq disturbed'
        /\ job[t] = "claim" => disturbed' = Threads
        /\ job[t] = "topup" => "loop" \in disturbed'
    BY <1>1, <1>5 DEF Overtaken, Threads
  <2>. QED
    BY <1>1, <1>2, <1>3, <1>5, <2>1, <2>2, SettleCommon
<1>6. CASE /\ ~Executable(leg[t])
           /\ bal' = Paid(bal, leg[t].signer)
           /\ UNCHANGED disturbed
           /\ IF Noticed(leg[t]) THEN Raised(t) /\ UNCHANGED wd ELSE Sent(t) /\ LessGas(t)
  <2>1. /\ leg[t].src \in Accounts /\ leg[t].to \in Accounts
    BY <1>1 DEF LegRecords, Accounts
  <2>2. None \in Amounts /\ Moved(bal, leg[t].src, leg[t].to, None) = bal
    BY <1>1, <2>1, NothingMoved
  <2>3. bal' = Paid(Moved(bal, leg[t].src, leg[t].to, None), leg[t].signer)
    BY <1>6, <2>2
  <2>4. \A a \in Assets : None[a] <= bal[leg[t].src][a] /\ None[a] <= leg[t].amounts[a]
    BY <1>1, <2>1 DEF None, Amounts
  <2>5. Sent(t) \/ Raised(t)
    BY <1>6
  <2>6. LessGas(t) \/ UNCHANGED wd
    BY <1>6
  <2>7. ASSUME job[t] = "pay", Ongoing(t)
        PROVE  leg[t].amounts.token = 0 /\ "loop" \in disturbed
    <3>1. ~Noticed(leg[t]) /\ t = "loop" /\ leg[t].src = "safe"
      BY <1>1, <1>2, <1>4, <1>6, <2>7 DEF PlacesOf, LegOf
    <3>2. /\ leg[t].how = "batch"
          /\ leg[t].amounts.token <= bal.safe.token
          /\ "loop" \in disturbed \/ leg[t].amounts.native <= bal.safe.native
      BY <1>2, <2>7, <3>1 DEF IInv, Track
    <3>3. /\ Assets = {"token", "native"} /\ bal.safe.token \in Nat /\ bal.safe.native \in Nat
          /\ leg[t].amounts.token \in Nat /\ leg[t].amounts.native \in Nat
      BY <1>1 DEF Assets, Amounts, Accounts
    <3>4. ~Covered(leg[t].amounts, bal.safe)
      BY <1>6, <3>1 DEF Executable, Authorized
    <3>5. ~(leg[t].amounts.native <= bal.safe.native)
      BY <3>2, <3>3, <3>4 DEF Covered
    <3>6. ~(leg[t].amounts.token > 0 /\ leg[t].amounts.native > 0)
      BY <3>1, <3>2, <3>3 DEF Noticed
    <3>. QED
      BY <3>2, <3>3, <3>5, <3>6
  <2>8. disturbed' \subseteq Threads /\ disturbed \subseteq disturbed'
    BY <1>1, <1>6
  <2>9. /\ pc' \in [Threads -> Pcs] /\ job' \in [Threads -> Jobs]
        /\ leg' \in [Threads -> LegRecords]
        /\ lock' \in Threads \cup {"free"} /\ funding' \in BOOLEAN
        /\ Out(t) \/ Ongoing(t)
        /\ Others(t) /\ OwnLock(t)
    BY <1>3, <2>5
  <2>. QED
    BY <1>1, <1>2, <2>2, <2>3, <2>4, <2>6, <2>7, <2>8, <2>9, SettleCommon
<1>. QED
  BY <1>5, <1>6 DEF Settle

LEMMA ClaimStep ==
    ASSUME IInv, NEW t \in Threads, Claim(t)
    PROVE  IInv'
<1>1. /\ Shapes /\ PlacesOf(t) /\ leg[t] \in LegRecords /\ bal \in [Accounts -> Amounts]
      /\ job[t] = "claim" /\ t # "loop" /\ reward \in Nat /\ Assets = {"token", "native"}
  BY Typed DEF IInv, Places, PlacesOf, Claim, Shapes, TypeOK, Assets
<1>2. UNCHANGED <<owner, registered, running, wd, entitled, disturbed, jobs>>
  BY DEF Claim
<1>3. CASE Continue(t, "topup", "plan") /\ UNCHANGED <<bal, reward>>
  <2>1. Raised(t)
    BY <1>1, <1>3 DEF Raised
  <2>. QED
    BY <1>2, <1>3, <2>1, Leaves DEF chain
<1>4. CASE /\ HasGas("eoa")
           /\ bal' = [Paid(bal, "eoa") EXCEPT !.pot.token = @ + reward]
           /\ reward' = 0
           /\ Go(t, "collect")
           /\ UNCHANGED <<job, leg, lock, funding>>
  <2>1. pc' = [pc EXCEPT ![t] = "collect"] /\ "collect" \in Pcs /\ "claim" \in Jobs
    BY <1>4 DEF Go, Pcs, Jobs
  <2>2. /\ pc' \in [Threads -> Pcs] /\ job' \in [Threads -> Jobs]
        /\ leg' \in [Threads -> LegRecords]
        /\ pc'[t] = "collect" /\ job'[t] = "claim" /\ Others(t)
    BY <1>1, <1>4, <2>1, Control
  <2> DEFINE b == Paid(bal, "eoa")
  <2>3. /\ b \in [Accounts -> Amounts]
        /\ \A x \in Accounts, a \in Assets : b[x][a] = bal[x][a] - Fee(x, "eoa", a)
    <3>1. None \in Amounts /\ Moved(bal, "safe", "safe", None) = bal /\ \A a \in Assets : None[a] = 0
      BY <1>1, NothingMoved DEF Accounts, None
    <3>2. \A a \in Assets : None[a] + Fee("safe", "eoa", a) <= bal["safe"][a]
      BY <1>1, <3>1 DEF Fee, Amounts, Accounts
    <3>3. Gas <= bal["eoa"].native
      BY <1>1, <1>4, AmountsAssumption DEF HasGas, Amounts, Accounts
    <3>4. /\ b \in [Accounts -> Amounts]
          /\ \A x \in Accounts, a \in Assets :
               b[x][a] = bal[x][a] + (IF x = "safe" THEN None[a] ELSE 0)
                                   - (IF x = "safe" THEN None[a] ELSE 0) - Fee(x, "eoa", a)
      <4>1. "safe" \in Accounts /\ "eoa" \in {"agent", "eoa"}
        BY DEF Accounts
      <4>2. /\ Paid(Moved(bal, "safe", "safe", None), "eoa") \in [Accounts -> Amounts]
            /\ \A x \in Accounts, a \in Assets :
                 Paid(Moved(bal, "safe", "safe", None), "eoa")[x][a]
                   = bal[x][a] + (IF x = "safe" THEN None[a] ELSE 0)
                               - (IF x = "safe" THEN None[a] ELSE 0) - Fee(x, "eoa", a)
        BY <1>1, <3>1, <3>2, <3>3, <4>1, Mined
      <4>. QED
        BY <3>1, <4>2
    <3>5. \A x \in Accounts, a \in Assets : bal[x][a] \in Int /\ Fee(x, "eoa", a) \in Int
      BY <1>1, AmountsAssumption DEF Amounts, Fee
    <3>. HIDE DEF b
    <3>6. ASSUME NEW x \in Accounts, NEW a \in Assets
          PROVE  b[x][a] = bal[x][a] - Fee(x, "eoa", a)
      BY <3>1, <3>4, <3>5
    <3>. QED
      BY <3>4, <3>6
  <2>4. bal' = [b EXCEPT !["pot"] = [b["pot"] EXCEPT !["token"] = b["pot"]["token"] + reward]]
    BY <1>4
  <2>. HIDE DEF b
  <2>5. /\ {"user", "safe", "eoa", "pot", "agent"} = Accounts
        /\ b["pot"] \in Amounts /\ b["pot"]["token"] \in Nat
    BY <1>1, <2>3 DEF Accounts, Amounts
  <2> DEFINE q == [b["pot"] EXCEPT !["token"] = b["pot"]["token"] + reward]
  <2>6. q \in Amounts /\ q.token = b.pot.token + reward /\ q.native = b.pot.native
    BY <1>1, <2>5 DEF Amounts
  <2>7. bal' = [b EXCEPT !["pot"] = q]
    BY <2>4
  <2>. HIDE DEF q
  <2>8. /\ bal' \in [Accounts -> Amounts] /\ bal'.pot = q
        /\ bal'.user = b.user /\ bal'.safe = b.safe /\ bal'.eoa = b.eoa /\ bal'.agent = b.agent
    BY <2>3, <2>5, <2>6, <2>7
  <2>9. lock' \in Threads \cup {"free"} /\ funding' \in BOOLEAN
    BY <1>1, <1>4 DEF Shapes, TypeOK
  <2>10. Shapes'
    BY <1>1, <1>2, <1>4, <2>2, <2>8, <2>9, ShapesStep DEF Shapes, TypeOK
  <2>11. PlacesOf(t)' /\ HeldBy(t)' /\ LegOf(t)' /\ SafeOf(t)'
    BY <1>1, <2>2 DEF PlacesOf, HeldBy, LegOf, SafeOf, Locked
  <2>12. ASSUME NEW a \in Assets
         PROVE  /\ bal.user[a] \in Nat /\ bal.safe[a] \in Nat /\ bal.pot[a] \in Nat
                /\ bal.eoa[a] \in Nat /\ bal.agent[a] \in Nat /\ Gas \in Nat
                /\ b.user[a] = bal.user[a] /\ b.safe[a] = bal.safe[a]
                /\ b.pot[a] = bal.pot[a] /\ b.agent[a] = bal.agent[a]
                /\ b.eoa[a] \in Nat /\ b.eoa[a] <= bal.eoa[a]
    <3>1. \A x \in Accounts : bal[x][a] \in Nat /\ b[x][a] \in Nat
      BY <1>1, <2>3 DEF Amounts
    <3>2. Fee("eoa", "eoa", a) \in Nat /\ \A x \in Accounts \ {"eoa"} : Fee(x, "eoa", a) = 0
      BY AmountsAssumption DEF Fee
    <3>3. b["eoa"][a] = bal["eoa"][a] - Fee("eoa", "eoa", a)
      BY <2>3, <2>5
    <3>4. \A x \in Accounts \ {"eoa"} : b[x][a] = bal[x][a]
      BY <2>3, <3>1, <3>2
    <3>5. {"user", "safe", "pot", "agent"} \subseteq Accounts \ {"eoa"}
      BY <2>5
    <3>. QED
      BY <2>5, <3>1, <3>2, <3>3, <3>4, <3>5, AmountsAssumption
  <2>13. \A a \in Assets : Total(a)' <= Total(a)
    <3>1. bal'.pot.token = bal.pot.token + reward /\ bal'.pot.native = bal.pot.native
      BY <1>1, <2>6, <2>8, <2>12
    <3>2. Total("token")' <= Total("token")
      BY <1>1, <1>4, <2>8, <2>12, <3>1 DEF Total
    <3>3. Total("native")' <= Total("native")
      BY <1>1, <1>4, <2>8, <2>12, <3>1 DEF Total
    <3>. QED
      BY <1>1, <3>2, <3>3
  <2>14. \A a \in Assets : bal'.user[a] = bal.user[a] /\ bal'.safe[a] = bal.safe[a]
    BY <2>8, <2>12
  <2>15. bal.safe.token <= bal'.safe.token /\ bal.safe.native <= bal'.safe.native
    BY <1>1, <2>12, <2>14
  <2>16. Asked' /\ Track'
    BY <1>1, <1>2, <2>2, <2>10, <2>13, <2>14, <2>15, Outside
  <2>17. PlansKept(t)
    <3>1. \A a \in Assets : bal.pot[a] <= bal'.pot[a]
      <4>1. bal'.pot.token = bal.pot.token + reward /\ bal'.pot.native = bal.pot.native
        BY <1>1, <2>6, <2>8, <2>12
      <4>. QED
        BY <1>1, <2>12, <4>1
    <3>. QED
      BY <1>2, <3>1 DEF PlansKept
  <2>. QED
    BY <1>4, <2>2, <2>10, <2>11, <2>16, <2>17, Frame DEF IInv, OwnLock
<1>. QED
  BY <1>3, <1>4 DEF Claim

\* The two transfers out of an agent's account
LEMMA AgentOut ==
    ASSUME NEW b \in [Accounts -> Amounts], NEW to \in {"user", "safe"}, NEW c,
           \/ c = TokensOut(b, to) /\ Gas <= b.agent.native
           \/ c = NativeOut(b, to)
    PROVE  /\ c \in [Accounts -> Amounts]
           /\ \A a \in Assets :
                /\ Sum(c, a) <= Sum(b, a)
                /\ to # "user" => c.user[a] = b.user[a]
                /\ b.safe[a] <= c.safe[a] /\ b.pot[a] = c.pot[a]
<1>1. /\ {"user", "safe", "pot", "agent"} \subseteq Accounts /\ Assets = {"token", "native"}
      /\ \A x \in Accounts, a \in Assets : b[x][a] \in Nat
      /\ Gas \in Nat
  BY AmountsAssumption DEF Accounts, Assets, Amounts
<1>2. CASE c = b
  <2>1. \A a \in Assets : Sum(b, a) \in Int
    BY <1>1 DEF Sum, Accounts
  <2>. QED
    BY <1>1, <1>2, <2>1
<1>3. ASSUME NEW m \in Amounts,
             c = Paid(Moved(b, "agent", to, m), "agent"),
             m.token <= b.agent.token, m.native + Gas <= b.agent.native
      PROVE  /\ c \in [Accounts -> Amounts]
             /\ \A a \in Assets :
                  /\ Sum(c, a) <= Sum(b, a)
                  /\ to # "user" => c.user[a] = b.user[a]
                  /\ b.safe[a] <= c.safe[a] /\ b.pot[a] = c.pot[a]
  <2>1. \A a \in Assets : m[a] \in Nat
    BY DEF Amounts
  <2>2. \A a \in Assets : m[a] + Fee("agent", "agent", a) <= b["agent"][a]
    BY <1>1, <1>3, <2>1 DEF Fee
  <2>3. Gas <= b["agent"].native
    BY <1>1, <1>3, <2>1
  <2>4. "agent" \in Accounts /\ to \in Accounts /\ "agent" \in {"agent", "eoa"}
    BY <1>1
  <2>5. /\ c \in [Accounts -> Amounts]
        /\ \A x \in Accounts, a \in Assets :
             c[x][a] = b[x][a] + (IF x = to THEN m[a] ELSE 0) - (IF x = "agent" THEN m[a] ELSE 0)
                               - Fee(x, "agent", a)
        /\ \A a \in Assets : Sum(c, a) <= Sum(b, a)
    BY <1>3, <2>2, <2>3, <2>4, Mined
  <2>6. ASSUME NEW a \in Assets
        PROVE  /\ to # "user" => c.user[a] = b.user[a]
               /\ b.safe[a] <= c.safe[a] /\ b.pot[a] = c.pot[a]
    <3>1. \A x \in {"user", "safe", "pot"} :
            c[x][a] = b[x][a] + (IF x = to THEN m[a] ELSE 0) - 0 - 0
      <4>1. \A x \in {"user", "safe", "pot"} : Fee(x, "agent", a) = 0 /\ x # "agent"
        BY DEF Fee
      <4>. QED
        BY <1>1, <2>5, <4>1
    <3>2. b.user[a] \in Nat /\ b.safe[a] \in Nat /\ b.pot[a] \in Nat /\ m[a] \in Nat
      BY <1>1, <2>1
    <3>3. \A x \in {"user", "safe", "pot"} : x # to => c[x][a] = b[x][a]
      BY <1>1, <2>1, <3>1
    <3>4. b.safe[a] <= c.safe[a]
      BY <3>1, <3>2
    <3>. QED
      BY <3>3, <3>4
  <2>. QED
    BY <2>5, <2>6
<1>4. CASE /\ c = Paid(Moved(b, "agent", to, Only("token", b.agent.token)), "agent")
           /\ Gas <= b.agent.native
  <2>1. b.agent.token \in Nat /\ b.agent.native \in Nat
    BY <1>1
  <2> DEFINE m == Only("token", b.agent.token)
  <2>2. m \in Amounts /\ m.token = b.agent.token /\ m.native = 0
    BY <2>1 DEF Only, Amounts, Assets
  <2>3. m.token <= b.agent.token /\ m.native + Gas <= b.agent.native
    BY <1>1, <1>4, <2>1, <2>2
  <2>. QED
    BY <1>3, <1>4, <2>2, <2>3
<1>5. CASE /\ c = Paid(Moved(b, "agent", to, Only("native", b.agent.native - Gas)), "agent")
           /\ ~(b.agent.native <= Gas)
  <2>1. b.agent.token \in Nat /\ b.agent.native \in Nat /\ b.agent.native - Gas \in Nat
    BY <1>1, <1>5
  <2> DEFINE m == Only("native", b.agent.native - Gas)
  <2>2. m \in Amounts /\ m.token = 0 /\ m.native = b.agent.native - Gas
    BY <2>1 DEF Only, Amounts, Assets
  <2>3. m.token <= b.agent.token /\ m.native + Gas <= b.agent.native
    BY <1>1, <2>1, <2>2
  <2>. QED
    BY <1>3, <1>5, <2>2, <2>3
<1>. QED
  BY <1>2, <1>4, <1>5 DEF TokensOut, NativeOut

LEMMA DrainAgentStep ==
    ASSUME IInv, NEW t \in Threads, DrainAgent(t)
    PROVE  IInv'
<1> DEFINE rich == bal.agent.native >= Gas + IF bal.agent.token > 0 THEN 3 * Gas ELSE 0
<1>1. /\ Shapes /\ PlacesOf(t) /\ HeldBy(t) /\ job[t] \in Jobs /\ leg[t] \in LegRecords
      /\ bal \in [Accounts -> Amounts] /\ Assets = {"token", "native"}
  BY Typed DEF IInv, Places, Assets
<1>2. /\ pc[t] = "agent" /\ job[t] \in Locked
      /\ UNCHANGED <<reward, owner, registered, running, wd, entitled, disturbed, jobs>>
  BY <1>1 DEF DrainAgent, PlacesOf
<1>3. To(t) \in {"user", "safe"} /\ (To(t) = "user" => job[t] = "empty" /\ t = "loop")
  BY <1>1 DEF To, PlacesOf
<1>4. /\ bal' \in [Accounts -> Amounts]
      /\ \A a \in Assets :
           /\ Sum(bal', a) <= Sum(bal, a)
           /\ To(t) # "user" => bal'.user[a] = bal.user[a]
           /\ bal.safe[a] <= bal'.safe[a] /\ bal.pot[a] = bal'.pot[a]
  <2>1. \A x \in Accounts, a \in Assets : bal[x][a] \in Nat
    BY <1>1 DEF Amounts
  <2>2. bal.agent.native \in Nat /\ bal.agent.token \in Nat /\ Gas \in Nat
    BY <1>1, <2>1, AmountsAssumption DEF Accounts
  <2>3. rich => Gas <= bal.agent.native
    BY <2>2
  <2>4. CASE bal' = bal
    <3>1. \A a \in Assets : Sum(bal, a) \in Int /\ bal.safe[a] \in Int
      BY <2>1 DEF Sum, Accounts
    <3>. QED
      BY <1>1, <2>4, <3>1
  <2>5. CASE rich /\ bal' = TokensOut(bal, To(t))
    BY <1>1, <1>3, <2>3, <2>5, AgentOut
  <2>6. CASE rich /\ bal' = NativeOut(TokensOut(bal, To(t)), To(t))
    <3> DEFINE c == TokensOut(bal, To(t))
    <3>1. /\ c \in [Accounts -> Amounts]
          /\ \A a \in Assets :
               /\ Sum(c, a) <= Sum(bal, a)
               /\ To(t) # "user" => c.user[a] = bal.user[a]
               /\ bal.safe[a] <= c.safe[a] /\ bal.pot[a] = c.pot[a]
      BY <1>1, <1>3, <2>3, <2>6, AgentOut
    <3>2. bal' = NativeOut(c, To(t))
      BY <2>6
    <3>. HIDE DEF c
    <3>3. /\ bal' \in [Accounts -> Amounts]
          /\ \A a \in Assets :
               /\ Sum(bal', a) <= Sum(c, a)
               /\ To(t) # "user" => bal'.user[a] = c.user[a]
               /\ c.safe[a] <= bal'.safe[a] /\ c.pot[a] = bal'.pot[a]
      BY <1>3, <3>1, <3>2, AgentOut
    <3>4. \A a \in Assets : /\ Sum(bal, a) \in Int /\ Sum(c, a) \in Int /\ Sum(bal', a) \in Int
                            /\ bal.safe[a] \in Int /\ c.safe[a] \in Int /\ bal'.safe[a] \in Int
      <4>1. \A x \in Accounts, a \in Assets : c[x][a] \in Nat /\ bal'[x][a] \in Nat
        BY <3>1, <3>3 DEF Amounts
      <4>. QED
        BY <2>1, <4>1 DEF Sum, Accounts
    <3>. QED
      BY <3>1, <3>3, <3>4
  <2>. QED
    BY <2>4, <2>5, <2>6 DEF DrainAgent
<1>5. \/ Continue(t, "sweep", "plan") /\ job[t] = "empty"
      \/ Go(t, "end") /\ UNCHANGED <<lock, funding, job, leg>>
      \/ Raised(t)
  BY DEF DrainAgent
<1>6. /\ pc' \in [Threads -> Pcs] /\ job' \in [Threads -> Jobs] /\ leg' \in [Threads -> LegRecords]
      /\ lock' \in Threads \cup {"free"} /\ funding' \in BOOLEAN
      /\ Others(t) /\ OwnLock(t)
      /\ \/ pc'[t] = "plan" /\ job'[t] = "sweep" /\ job[t] = "empty"
         \/ pc'[t] = "end" /\ job'[t] = job[t]
         \/ pc'[t] = "idle" /\ job'[t] = "none"
  <2>1. CASE Continue(t, "sweep", "plan") /\ job[t] = "empty"
    BY <1>1, <2>1, ContinueShape DEF Jobs, Pcs
  <2>2. CASE Go(t, "end") /\ UNCHANGED <<lock, funding, job, leg>>
    <3>1. pc' = [pc EXCEPT ![t] = "end"] /\ "end" \in Pcs
      BY <2>2 DEF Go, Pcs
    <3>2. /\ pc' \in [Threads -> Pcs] /\ job' \in [Threads -> Jobs]
          /\ leg' \in [Threads -> LegRecords]
          /\ pc'[t] = "end" /\ job'[t] = job[t] /\ Others(t)
      BY <1>1, <2>2, <3>1, Control
    <3>. QED
      BY <1>1, <2>2, <3>2 DEF OwnLock, Shapes, TypeOK
  <2>3. CASE Raised(t)
    BY <1>1, <1>2, <2>3, RaisedShape DEF Out, Locked
  <2>. QED
    BY <1>5, <2>1, <2>2, <2>3
<1>7. Shapes'
  BY <1>1, <1>2, <1>4, <1>6, ShapesStep DEF Shapes, TypeOK
<1>8. PlacesOf(t)' /\ HeldBy(t)' /\ LegOf(t)' /\ SafeOf(t)'
  BY <1>1, <1>6 DEF PlacesOf, HeldBy, LegOf, SafeOf, Locked
<1>9. PlansKept(t)
  <2>1. lock = t
    BY <1>1, <1>2 DEF HeldBy
  <2>. QED
    BY <1>2, <2>1 DEF PlansKept
<1>10. Places'
  BY <1>6, <1>7, <1>8, <1>9, Frame
<1>11. \A a \in Assets : Total(a)' <= Total(a)
  BY <1>1, <1>2, <1>4, <1>7, TotalFalls
<1>12. Asked' /\ Track'
  <2>1. CASE t # "loop"
    <3>1. \A a \in Assets : bal'.user[a] = bal.user[a]
      BY <1>3, <1>4, <2>1
    <3>2. bal.safe.token <= bal'.safe.token /\ bal.safe.native <= bal'.safe.native
      BY <1>1, <1>4
    <3>. QED
      BY <1>2, <1>6, <1>7, <1>11, <2>1, <3>1, <3>2, Outside
  <2>2. CASE t = "loop"
    <3>1. job[t] # "pay" /\ job'[t] # "pay"
      BY <1>2, <1>6 DEF Locked
    <3>2. Track'
      BY <2>2, <3>1 DEF Track
    <3>3. \A a \in Assets : Pending(a) = 0 /\ Pending(a)' = 0
      BY <2>2, <3>1 DEF Pending
    <3>4. \A a \in Assets : bal.user[a] \in Int
      BY <1>1 DEF Amounts, Accounts
    <3>5. job[t] # "empty" =>
            \A a \in Assets : bal'.user[a] + Pending(a)' <= bal.user[a] + Pending(a)
      BY <1>3, <1>4, <3>3, <3>4
    <3>6. job'[t] \in {"empty", "sweep"} => job[t] \in {"empty", "sweep"}
      BY <1>6
    <3>7. Asked'
      BY <1>2, <1>7, <1>11, <2>2, <3>5, <3>6, AskedStep
    <3>. QED
      BY <3>2, <3>7
  <2>. QED
    BY <2>1, <2>2
<1>. QED
  BY <1>7, <1>10, <1>12 DEF IInv

\* A payment of m from the Master EOA to the user, or none
LEMMA EoaBal ==
    ASSUME IInv, NEW m \in Amounts,
           m.token <= bal.eoa.token, m.native + Gas <= bal.eoa.native,
           bal' = Paid(Moved(bal, "eoa", "user", m), "eoa")
    PROVE  /\ bal' \in [Accounts -> Amounts]
           /\ \A a \in Assets :
                /\ Sum(bal', a) <= Sum(bal, a)
                /\ bal'.user[a] = bal.user[a] + m[a]
                /\ bal'.safe[a] = bal.safe[a] /\ bal'.pot[a] = bal.pot[a]
<1>1. /\ {"user", "safe", "pot", "eoa"} \subseteq Accounts /\ Assets = {"token", "native"}
      /\ bal \in [Accounts -> Amounts]
      /\ \A x \in Accounts, a \in Assets : bal[x][a] \in Nat
      /\ Gas \in Nat /\ "eoa" \in {"agent", "eoa"}
      /\ \A a \in Assets : m[a] \in Nat
  BY AmountsAssumption DEF IInv, Shapes, TypeOK, Accounts, Assets, Amounts
<1>2. \A a \in Assets : m[a] + Fee("eoa", "eoa", a) <= bal["eoa"][a]
  BY <1>1 DEF Fee
<1>3. Gas <= bal["eoa"].native
  BY <1>1
<1>4. /\ bal' \in [Accounts -> Amounts]
      /\ \A x \in Accounts, a \in Assets :
           bal'[x][a] = bal[x][a] + (IF x = "user" THEN m[a] ELSE 0)
                                  - (IF x = "eoa" THEN m[a] ELSE 0) - Fee(x, "eoa", a)
      /\ \A a \in Assets : Sum(bal', a) <= Sum(bal, a)
  BY <1>1, <1>2, <1>3, Mined
<1>5. ASSUME NEW a \in Assets
      PROVE  /\ bal'.user[a] = bal.user[a] + m[a]
             /\ bal'.safe[a] = bal.safe[a] /\ bal'.pot[a] = bal.pot[a]
  <2>1. \A x \in {"user", "safe", "pot"} : Fee(x, "eoa", a) = 0
    BY DEF Fee
  <2>2. /\ bal'["user"][a] = bal["user"][a] + m[a] - 0 - 0
        /\ bal'["safe"][a] = bal["safe"][a] + 0 - 0 - 0
        /\ bal'["pot"][a] = bal["pot"][a] + 0 - 0 - 0
    BY <1>1, <1>4, <2>1
  <2>3. /\ bal["user"][a] \in Nat /\ bal["safe"][a] \in Nat /\ bal["pot"][a] \in Nat
        /\ m[a] \in Nat
    BY <1>1
  <2>. QED
    BY <2>2, <2>3
<1>. QED
  BY <1>4, <1>5

\* A leg of the Master EOA: m is paid, and the native part comes after the tokens.
LEMMA EoaStep ==
    ASSUME IInv, NEW t \in Threads, NEW m \in Amounts, NEW p \in {"native", "end"},
           pc[t] = IF p = "native" THEN "token" ELSE "native",
           p = "native" => m.native = 0 /\ m.token = wd.rest.token,
           p = "end" => m.token = 0 /\ (job[t] = "pay" => m.native <= Plus(wd.rest.native)),
           \/ bal' = bal /\ m = None
           \/ /\ m.token <= bal.eoa.token /\ m.native + Gas <= bal.eoa.native
              /\ bal' = Paid(Moved(bal, "eoa", "user", m), "eoa"),
           Go(t, p),
           UNCHANGED <<reward, owner, registered, running, lock, funding, job, leg, wd, entitled,
                       disturbed, jobs>>
    PROVE  IInv'
<1>1. /\ Shapes /\ PlacesOf(t) /\ job[t] \in Jobs /\ leg[t] \in LegRecords
      /\ bal \in [Accounts -> Amounts] /\ Assets = {"token", "native"}
  BY Typed DEF IInv, Places, Assets
<1>2. job[t] \in {"pay", "sweep"} /\ t = "loop"
  BY <1>1 DEF PlacesOf
<1>3. /\ bal' \in [Accounts -> Amounts]
      /\ \A a \in Assets :
           /\ Sum(bal', a) <= Sum(bal, a)
           /\ bal'.user[a] = bal.user[a] + m[a]
           /\ bal'.safe[a] = bal.safe[a] /\ bal'.pot[a] = bal.pot[a]
  <2>1. CASE bal' = bal /\ m = None
    <3>1. \A a \in Assets : Sum(bal, a) \in Int /\ bal.user[a] \in Int /\ m[a] = 0
      BY <1>1, <2>1 DEF Sum, Accounts, Amounts, None
    <3>. QED
      BY <1>1, <2>1, <3>1
  <2>2. CASE bal' # bal \/ m # None
    BY <2>2, EoaBal
  <2>. QED
    BY <2>1, <2>2
<1>4. pc' = [pc EXCEPT ![t] = p] /\ p \in Pcs
  BY DEF Go, Pcs
<1>5. /\ pc' \in [Threads -> Pcs] /\ job' \in [Threads -> Jobs]
      /\ leg' \in [Threads -> LegRecords]
      /\ pc'[t] = p /\ job'[t] = job[t] /\ Others(t)
  BY <1>1, <1>4, Control
<1>6. Shapes'
  BY <1>1, <1>3, <1>5, ShapesStep DEF Shapes, TypeOK
<1>7. PlacesOf(t)' /\ HeldBy(t)' /\ LegOf(t)' /\ SafeOf(t)'
  BY <1>2, <1>5 DEF PlacesOf, HeldBy, LegOf, SafeOf, Locked
<1>8. PlansKept(t)
  <2>1. \A a \in Assets : bal.pot[a] \in Nat
    BY <1>1 DEF Amounts, Accounts
  <2>. QED
    BY <1>3, <2>1 DEF PlansKept
<1>9. Places'
  BY <1>5, <1>6, <1>7, <1>8, Frame DEF OwnLock
<1>10. \A a \in Assets : Total(a)' <= Total(a)
  BY <1>1, <1>3, <1>6, TotalFalls
<1>11. \A a \in Assets : /\ bal.user[a] \in Nat /\ m[a] \in Nat /\ wd.rest[a] \in Int
                         /\ wd.safe[a] \in Nat /\ wd.had[a] \in Nat /\ wd.ask[a] \in Nat
  BY <1>1 DEF Amounts, Accounts, Shapes
<1>12. CASE job[t] = "sweep"
  <2>1. Track'
    BY <1>2, <1>12 DEF Track
  <2>2. Asked'
    BY <1>2, <1>6, <1>10, <1>12, AskedStep
  <2>. QED
    BY <1>6, <1>9, <2>1, <2>2 DEF IInv
<1>13. CASE job[t] = "pay" /\ p = "native"
  <2>1. /\ bal.user.token = wd.had.token + wd.safe.token
        /\ wd.safe.token + wd.rest.token = wd.ask.token
        /\ NativePaid
    BY <1>2, <1>13 DEF IInv, Track
  <2>2. \A a \in Assets : Pending(a) = Plus(wd.rest[a])
    BY <1>2, <1>13 DEF Pending
  <2>3. Pending("native")' = Plus(wd.rest["native"]) /\ Pending("token")' = 0
    BY <1>2, <1>5, <1>13 DEF Pending
  <2>4. \A a \in Assets : bal'.user[a] + Pending(a)' <= bal.user[a] + Pending(a)
    <3>1. m["native"] = 0 /\ m["token"] = wd.rest["token"]
      BY <1>13
    <3>2. Plus(wd.rest["token"]) = m["token"] /\ Plus(wd.rest["native"]) \in Nat
      BY <1>1, <1>11, <3>1 DEF Plus
    <3>3. bal'.user["token"] + Pending("token")' <= bal.user["token"] + Pending("token")
      BY <1>1, <1>3, <1>11, <2>2, <2>3, <3>2
    <3>4. bal'.user["native"] + Pending("native")' <= bal.user["native"] + Pending("native")
      BY <1>1, <1>3, <1>11, <2>2, <2>3, <3>1, <3>2
    <3>. QED
      BY <1>1, <3>3, <3>4
  <2>5. Asked'
    BY <1>2, <1>5, <1>6, <1>10, <1>13, <2>4, AskedStep
  <2>6. bal'.user.token = wd.had.token + wd.ask.token
    BY <1>1, <1>3, <1>11, <1>13, <2>1
  <2>7. NativePaid'
    <3>1. bal'.user.native = bal.user.native
      BY <1>1, <1>3, <1>11, <1>13
    <3>. QED
      BY <2>1, <3>1 DEF NativePaid
  <2>8. Track'
    BY <1>2, <1>5, <1>13, <2>6, <2>7 DEF Track
  <2>. QED
    BY <1>6, <1>9, <2>5, <2>8 DEF IInv
<1>14. CASE job[t] = "pay" /\ p = "end"
  <2>1. bal.user.token = wd.had.token + wd.ask.token /\ NativePaid
    BY <1>2, <1>14 DEF IInv, Track
  <2>2. Pending("native") = Plus(wd.rest["native"]) /\ Pending("token") = 0
    BY <1>2, <1>14 DEF Pending
  <2>3. \A a \in Assets : Pending(a)' = 0
    BY <1>2, <1>5, <1>14 DEF Pending
  <2>4. \A a \in Assets : bal'.user[a] + Pending(a)' <= bal.user[a] + Pending(a)
    <3>1. m["token"] = 0 /\ m["native"] <= Plus(wd.rest["native"])
      BY <1>14
    <3>2. Plus(wd.rest["native"]) \in Nat
      BY <1>1, <1>11 DEF Plus
    <3>3. bal'.user["token"] + Pending("token")' <= bal.user["token"] + Pending("token")
      BY <1>1, <1>3, <1>11, <2>2, <2>3, <3>1
    <3>4. bal'.user["native"] + Pending("native")' <= bal.user["native"] + Pending("native")
      BY <1>1, <1>3, <1>11, <2>2, <2>3, <3>1, <3>2
    <3>. QED
      BY <1>1, <3>3, <3>4
  <2>5. Asked'
    BY <1>2, <1>5, <1>6, <1>10, <1>14, <2>4, AskedStep
  <2>6. bal'.user.token = wd.had.token + wd.ask.token
    BY <1>1, <1>3, <1>11, <1>14, <2>1
  <2>7. NativePaid'
    <3>1. bal'.user.native >= bal.user.native /\ bal'.user.native \in Nat
      BY <1>1, <1>3, <1>11
    <3>. QED
      BY <1>1, <1>11, <2>1, <3>1 DEF NativePaid
  <2>8. Track'
    BY <1>2, <1>5, <1>14, <2>6, <2>7 DEF Track
  <2>. QED
    BY <1>6, <1>9, <2>5, <2>8 DEF IInv
<1>. QED
  BY <1>2, <1>12, <1>13, <1>14

LEMMA EoaTokenStep ==
    ASSUME IInv, NEW t \in Threads, EoaToken(t)
    PROVE  IInv'
<1> DEFINE m == Only("token", wd.rest.token)
<1>1. /\ pc[t] = "token" /\ Go(t, "native") /\ wd.rest.token \in Int
      /\ UNCHANGED <<reward, owner, registered, running, lock, funding, job, leg, wd, entitled,
                     disturbed, jobs>>
  BY DEF EoaToken, IInv, Shapes, Assets
<1>2. bal.eoa.native \in Nat /\ Gas \in Nat
  BY AmountsAssumption DEF IInv, Shapes, TypeOK, Amounts, Accounts, Assets
<1>3. CASE /\ wd.rest.token > 0 /\ wd.rest.token <= bal.eoa.token /\ HasGas("eoa")
           /\ bal' = Paid(Moved(bal, "eoa", "user", Only("token", wd.rest.token)), "eoa")
  <2>1. m \in Amounts /\ m.token = wd.rest.token /\ m.native = 0
    BY <1>1, <1>3 DEF Only, Amounts, Assets
  <2>2. m.token <= bal.eoa.token /\ m.native + Gas <= bal.eoa.native
    BY <1>2, <1>3, <2>1 DEF HasGas
  <2>3. bal' = Paid(Moved(bal, "eoa", "user", m), "eoa")
    BY <1>3
  <2>. HIDE DEF m
  <2>. QED
    BY <1>1, <2>1, <2>2, <2>3, EoaStep
<1>4. CASE wd.rest.token = 0 /\ bal' = bal
  <2>1. None \in Amounts /\ None.token = 0 /\ None.native = 0
    BY DEF None, Amounts, Assets
  <2>. QED
    BY <1>1, <1>4, <2>1, EoaStep
<1>. QED
  BY <1>3, <1>4 DEF EoaToken

LEMMA EoaNativeStep ==
    ASSUME IInv, NEW t \in Threads, EoaNative(t)
    PROVE  IInv'
<1> DEFINE has == bal.eoa.native
           asked == IF job[t] = "pay" /\ wd.rest.native > has THEN has ELSE wd.rest.native
           amount == IF asked < has - Gas THEN asked ELSE has - Gas
           m == Only("native", amount)
<1>1. /\ pc[t] = "native" /\ Go(t, "end") /\ wd.rest.native \in Int
      /\ UNCHANGED <<reward, owner, registered, running, lock, funding, job, leg, wd, entitled,
                     disturbed, jobs>>
  BY DEF EoaNative, IInv, Shapes, Assets
<1>2. has \in Nat /\ bal.eoa.token \in Nat /\ Gas \in Nat /\ asked \in Int /\ amount \in Int
  <2>1. has \in Nat /\ bal.eoa.token \in Nat /\ Gas \in Nat
    BY AmountsAssumption DEF IInv, Shapes, TypeOK, Amounts, Accounts, Assets
  <2>. QED
    BY <1>1, <2>1
<1>3. CASE /\ amount > 0
           /\ bal' = Paid(Moved(bal, "eoa", "user", m), "eoa")
  <2>1. amount <= has - Gas /\ amount <= asked /\ asked <= wd.rest.native /\ amount \in Nat
    BY <1>1, <1>2, <1>3
  <2>2. amount <= Plus(wd.rest.native)
    BY <1>1, <1>2, <1>3, <2>1 DEF Plus
  <2>3. bal' = Paid(Moved(bal, "eoa", "user", Only("native", amount)), "eoa")
    BY <1>3
  <2>4. amount + Gas <= bal.eoa.native
    BY <1>2, <2>1
  <2>. HIDE DEF amount
  <2>5. m \in Amounts /\ m.token = 0 /\ m.native = amount
    BY <2>1 DEF Only, Amounts, Assets
  <2>6. /\ m.token <= bal.eoa.token /\ m.native + Gas <= bal.eoa.native
        /\ m.native <= Plus(wd.rest.native)
        /\ bal' = Paid(Moved(bal, "eoa", "user", m), "eoa")
    BY <1>2, <2>2, <2>3, <2>4, <2>5
  <2>. HIDE DEF m
  <2>. QED
    BY <1>1, <2>5, <2>6, EoaStep
<1>4. CASE bal' = bal
  <2>1. None \in Amounts /\ None.token = 0 /\ None.native = 0
    BY DEF None, Amounts, Assets
  <2>2. 0 <= Plus(wd.rest.native)
    BY <1>1 DEF Plus
  <2>. QED
    BY <1>1, <1>4, <2>1, <2>2, EoaStep
<1>. QED
  BY <1>3, <1>4 DEF EoaNative

---------------------------------------------------------------------------
(* The service *)

\* A step of none of the threads, with the plans kept or all overtaken
LEMMA Elsewhere ==
    ASSUME IInv, Shapes', UNCHANGED <<pc, job, leg, lock>>,
           \/ owner' = owner /\ disturbed' = disturbed /\ bal' = bal
           \/ disturbed' = Threads
    PROVE  Places'
<1>1. /\ "loop" \in Threads /\ Shapes /\ PlacesOf("loop") /\ HeldBy("loop") /\ LegOf("loop")
      /\ SafeOf("loop") /\ disturbed \subseteq Threads
  BY DEF IInv, Places, Threads, Shapes, TypeOK
<1>2. PlacesOf("loop")' /\ HeldBy("loop")' /\ LegOf("loop")'
  BY <1>1 DEF PlacesOf, HeldBy, LegOf
<1>3. SafeOf("loop")'
  <2>1. CASE disturbed' = Threads
    BY <1>1, <2>1 DEF SafeOf
  <2>2. CASE owner' = owner /\ disturbed' = disturbed /\ bal' = bal
    BY <1>1, <2>2 DEF SafeOf, Executable, Covered, Authorized
  <2>. QED
    BY <2>1, <2>2
<1>4. PlansKept("loop")
  <2>1. \A a \in Assets : bal.pot[a] \in Nat
    BY <1>1 DEF Shapes, TypeOK, Amounts, Accounts
  <2>. QED
    BY <1>1, <2>1 DEF PlansKept
<1>. QED
  BY <1>1, <1>2, <1>3, <1>4, Frame DEF Others, OwnLock

LEMMA DeployStep ==
    ASSUME IInv, Deploy
    PROVE  IInv'
<1>1. /\ Shapes /\ running' = TRUE /\ registered' = TRUE /\ owner' = "agent"
      /\ disturbed' = IF owner = "agent" THEN disturbed ELSE Threads
      /\ UNCHANGED <<bal, reward, lock, funding, job, pc, leg, wd, entitled, jobs>>
  BY DEF Deploy, IInv
<1>2. Shapes'
  BY <1>1, ShapesStep DEF Shapes, TypeOK, Jobs, Pcs
<1>3. Places'
  BY <1>1, <1>2, Elsewhere
<1>4. "job" \in Threads /\ "job" # "loop" /\ Others("job") /\ disturbed \subseteq disturbed' \cup {"job"}
  BY <1>1 DEF Threads, Others, Shapes, TypeOK
<1>5. /\ \A a \in Assets : bal.safe[a] \in Nat /\ bal.user[a] \in Nat /\ Total(a) \in Nat
      /\ Assets = {"token", "native"}
  BY <1>1 DEF Shapes, TypeOK, Amounts, Accounts, Assets, Total
<1>6. \A a \in Assets : Total(a)' <= Total(a)
  <2>1. \A a \in Assets : Total(a)' = Total(a)
    BY <1>1 DEF Total
  <2>. QED
    BY <1>5, <2>1
<1>7. Asked' /\ Track'
  BY <1>1, <1>2, <1>4, <1>5, <1>6, Outside
<1>. QED
  BY <1>2, <1>3, <1>7 DEF IInv

LEMMA SpendsStep ==
    ASSUME IInv, NEW x \in Assets, AgentSpends(x)
    PROVE  IInv'
<1> DEFINE p == [bal.pot EXCEPT ![x] = bal.pot[x] - 1]
<1>1. /\ Shapes /\ bal \in [Accounts -> Amounts] /\ bal.pot[x] > 0 /\ disturbed' = Threads
      /\ bal' = [bal EXCEPT !.pot = p]
      /\ UNCHANGED <<reward, owner, registered, running, lock, funding, job, pc, leg, wd, entitled,
                     jobs>>
  BY DEF AgentSpends, IInv, Shapes, TypeOK
<1>2. /\ Accounts = {"user", "safe", "eoa", "pot", "agent"} /\ bal.pot \in Amounts
      /\ bal.pot[x] \in Nat
  BY <1>1 DEF Accounts, Amounts
<1>3. p \in Amounts /\ \A a \in Assets : p[a] \in Nat /\ p[a] <= bal.pot[a]
  <2>1. p \in Amounts
    BY <1>1, <1>2 DEF Amounts
  <2>2. \A a \in Assets : p[a] <= bal.pot[a]
    <3>1. \A a \in Assets : bal.pot[a] \in Nat
      BY <1>2 DEF Amounts
    <3>. QED
      BY <1>2, <3>1 DEF Amounts
  <2>. QED
    BY <2>1, <2>2 DEF Amounts
<1>. HIDE DEF p
<1>4. /\ bal' \in [Accounts -> Amounts] /\ bal'.pot = p
      /\ bal'.user = bal.user /\ bal'.safe = bal.safe /\ bal'.eoa = bal.eoa
      /\ bal'.agent = bal.agent
  BY <1>1, <1>2, <1>3
<1>5. Shapes'
  BY <1>1, <1>4, ShapesStep DEF Shapes, TypeOK, Jobs, Pcs
<1>6. Places'
  BY <1>1, <1>5, Elsewhere
<1>7. /\ "job" \in Threads /\ "job" # "loop" /\ Others("job")
      /\ disturbed \subseteq disturbed' \cup {"job"}
  BY <1>1 DEF Threads, Others, Shapes, TypeOK
<1>8. /\ \A a \in Assets, y \in Accounts : bal[y][a] \in Nat
      /\ Assets = {"token", "native"} /\ reward \in Nat
  BY <1>1 DEF Shapes, TypeOK, Amounts, Accounts, Assets
<1>9. \A a \in Assets : Total(a)' <= Total(a)
  <2>1. \A a \in Assets : Sum(bal', a) <= Sum(bal, a)
    BY <1>2, <1>3, <1>4, <1>8 DEF Sum
  <2>. QED
    BY <1>1, <1>5, <2>1, TotalFalls
<1>10. bal.safe.token <= bal'.safe.token /\ bal.safe.native <= bal'.safe.native
  BY <1>2, <1>4, <1>8
<1>11. Asked' /\ Track'
  BY <1>1, <1>4, <1>5, <1>7, <1>9, <1>10, Outside
<1>. QED
  BY <1>5, <1>6, <1>11 DEF IInv

---------------------------------------------------------------------------
(* The theorems *)

LEMMA Initially ==
    ASSUME Init
    PROVE  IInv
<1>1. /\ bal \in [Accounts -> Amounts] /\ NoLeg \in LegRecords /\ None \in Amounts
      /\ None \in [Assets -> Int] /\ MaxReward \in Nat /\ MaxJobs \in Nat
  BY StartAssumption, AmountsAssumption, NoLegShape DEF Init, None, Amounts
<1>2. Shapes
  <2>1. bal.user \in Amounts
    BY <1>1 DEF Accounts
  <2>2. leg \in [Threads -> LegRecords] /\ reward \in Nat /\ jobs \in 0 .. MaxJobs
    BY <1>1 DEF Init
  <2>3. /\ job \in [Threads -> Locked \cup RequireAll \cup {"none", "claim", "topup", "sweep"}]
        /\ pc \in [Threads -> {"idle", "try", "lock", "plan", "collect", "filter", "settle",
                               "agent", "eoa", "token", "native", "end"}]
    BY DEF Init
  <2>4. wd \in [had : Amounts, ask : Amounts, safe : Amounts, rest : [Assets -> Int]]
    BY <1>1 DEF Init
  <2>5. \A t \in Threads : /\ leg[t].src \in {"safe", "pot"} /\ leg[t].signer \in {"agent", "eoa"}
                           /\ leg[t].to \in Accounts /\ leg[t].amounts \in Amounts
    BY <2>2 DEF LegRecords
  <2>6. TypeOK
    BY <1>1, <2>1, <2>2, <2>3, <2>5 DEF TypeOK, Init
  <2>. QED
    BY <2>2, <2>4, <2>6 DEF Shapes
<1>3. "loop" \in Threads /\ \A t \in Threads : pc[t] = "idle" /\ job[t] = "none"
  BY DEF Init, Threads
<1>4. Places
  BY <1>3 DEF Places, PlacesOf, HeldBy, LegOf, SafeOf, Locked
<1>5. Asked
  <2>1. \A a \in Assets : bal.user[a] \in Nat
    BY <1>1 DEF Amounts, Accounts
  <2>2. \A a \in Assets : Pending(a) = 0
    BY <1>3 DEF Pending
  <2>3. entitled = bal.user
    BY DEF Init
  <2>. QED
    BY <1>3, <2>1, <2>2, <2>3 DEF Asked
<1>6. Track
  BY <1>3 DEF Track
<1>. QED
  BY <1>2, <1>4, <1>5, <1>6 DEF IInv

LEMMA Preserved ==
    ASSUME IInv, [Next]_vars
    PROVE  IInv'
<1>1. CASE Request
  BY <1>1, PayStep, WithdrawStep, FundStep, TerminateStep, HourStep, MaintainStep DEF Request
<1>2. CASE \E t \in Threads : Step(t)
  <2>1. PICK t \in Threads : Step(t)
    BY <1>2
  <2>2. CASE TooMuch(t) \/ Fails(t) \/ End(t)
    BY <2>2, Leaves DEF TooMuch, Fails, End
  <2>. QED
    BY <2>1, <2>2, TryLockStep, LockStep, PlanPotStep, ClaimStep, CollectStep, PlanTopUpStep,
       PlanSweepStep, FilterStep, SettleStep, DrainAgentStep, PlanEoaStep, EoaTokenStep,
       EoaNativeStep DEF Step
<1>3. CASE Deploy
  BY <1>3, DeployStep
<1>4. CASE \E a \in Assets : AgentSpends(a)
  BY <1>4, SpendsStep
<1>5. CASE UNCHANGED vars
  <2>1. UNCHANGED <<bal, reward, owner, registered, running, lock, funding, job, pc, leg,
                    wd, entitled, disturbed, jobs>>
    BY <1>5 DEF vars
  <2>2. Shapes' /\ Places'
    <3>1. Shapes'
      BY <2>1 DEF IInv, Shapes, TypeOK
    <3>. QED
      BY <2>1, <3>1, Elsewhere
  <2>3. Asked'
    BY <2>1 DEF IInv, Asked, Total, Pending
  <2>4. Track'
    BY <2>1 DEF IInv, Track, NativePaid
  <2>. QED
    BY <2>2, <2>3, <2>4 DEF IInv
<1>. QED
  BY <1>1, <1>2, <1>3, <1>4, <1>5 DEF Next

THEOREM Invariance == Spec => []IInv
<1>1. Init => IInv
  BY Initially
<1>2. IInv /\ [Next]_vars => IInv'
  BY Preserved
<1>. QED
  BY <1>1, <1>2, PTL DEF Spec

\* Every balance is a natural number in every state, whoever moves money between
\* the plan of a transfer and its settlement: no transaction that executes takes
\* more, with its fee, than the account has.
THEOREM BalancesStay == Spec => []TypeOK
<1>1. IInv => TypeOK
  BY DEF IInv, Shapes
<1>. QED
  BY <1>1, Invariance, PTL

\* A withdrawal from the service Safe that has made its plan under the withdrawal
\* lock of get_withdrawal_lock can pay it, unless the agent, a claim, a termination
\* or a deploy overtook it.
THEOREM PlanStaysPayable == Spec => []WithdrawalsAlone
<1>1. IInv => WithdrawalsAlone
  BY DEF IInv, Places, SafeOf, WithdrawalsAlone
<1>. QED
  BY <1>1, Invariance, PTL

\* Whatever legs a withdrawal is made of, and wherever it fails, the user never
\* gets more than all that was asked for.
THEOREM UserNeverOverpaid == Spec => []NeverOverpaid
<1>1. IInv => NeverOverpaid
  <2> SUFFICES ASSUME IInv, NEW a \in Assets
               PROVE  bal.user[a] <= entitled[a]
    BY DEF NeverOverpaid
  <2>1. /\ bal.user[a] \in Nat /\ bal.safe[a] \in Nat /\ bal.eoa[a] \in Nat
        /\ bal.pot[a] \in Nat /\ bal.agent[a] \in Nat /\ reward \in Nat /\ entitled[a] \in Nat
    BY DEF IInv, Shapes, TypeOK, Amounts, Accounts
  <2>2. CASE Total(a) <= entitled[a]
    BY <2>1, <2>2 DEF Total
  <2>3. CASE bal.user[a] + Pending(a) <= entitled[a]
    <3>1. leg["loop"].amounts[a] \in Nat /\ wd.rest[a] \in Int
      BY DEF IInv, Shapes, TypeOK, Amounts, LegRecords, Threads
    <3>2. Pending(a) \in Nat
      BY <3>1 DEF Pending, Plus
    <3>. QED
      BY <2>1, <2>3, <3>2
  <2>. QED
    BY <2>2, <2>3 DEF IInv, Asked
<1>. QED
  BY <1>1, Invariance, PTL

\* A wallet withdrawal answered as done has paid all the tokens and the native part
\* due from the Safe, unless the top-up of the Master EOA overtook that.
THEOREM AnsweredIsPaid == Spec => []PaidWhenAnswered
<1>1. IInv => PaidWhenAnswered
  BY DEF IInv, Track, NativePaid, PaidWhenAnswered
<1>. QED
  BY <1>1, Invariance, PTL
==============================================================================
