------------------------------- MODULE Bridge -------------------------------
(***************************************************************************)
(* Bundles of bridge requests: quoted, executed once and then polled.       *)
(*                                                                          *)
(* `OperateApp.bridge_manager` makes a new BridgeManager for every request, *)
(* so between two requests the only state is on disk: bridge.json holds the *)
(* last requested bundle and the id of the last executed one, and every     *)
(* executed bundle has a file of its own.  The handlers do not await, so    *)
(* they run one at a time; but the daemon may be killed inside an           *)
(* execution, which also takes long enough for time to pass.                *)
(*                                                                          *)
(* Modules: bridge_manager.py, providers/*.py, cli.py (/api/bridge/...).    *)
(***************************************************************************)
EXTENDS Integers, Sequences, FiniteSetsExt

CONSTANTS
    Asks,       \* bound: the lists of requests the user asks bundles for, in order
    Validity,   \* bundle_validity_period
    Soft, Hard, \* soft_timeout and HARD_TIMEOUT of _bridge_tx_likely_failed
    TwoEta      \* twice the ETA of a native bridge

Params == [preferred : BOOLEAN, native : BOOLEAN, excluded : BOOLEAN, zero : BOOLEAN]

ASSUME BridgeAssumption ==
    /\ {Validity, Soft, Hard, TwoEta} \subseteq Nat
    /\ Asks \in Seq(Seq(Params) \ {<<>>}) \ {<<>>}

Submitted == {"EXECUTION_PENDING", "EXECUTION_UNKNOWN"}
Final     == {"EXECUTION_DONE", "EXECUTION_FAILED"}
Status    == {"CREATED", "QUOTE_DONE", "QUOTE_FAILED"} \cup Submitted \cup Final
Providers == {"native", "relay", "mayan", "removed"}
Ids       == DOMAIN Asks
NoBundle  == [id |-> 0, ask |-> <<>>, reqs |-> <<>>, age |-> 0]

VARIABLES
    requested,  \* bridge.json: last_requested_bundle, with its age
    last,       \* bridge.json: last_executed_bundle_id, or 0
    files,      \* executed/<id>.json: the requests of the bundle, <<>> if none
    pc,         \* where the running execution is
    mem,        \* the bundle it executes
    k,          \* the request it executes next
    fate,       \* external: where the transfer of a request is
    sent,       \* history: how often the transfer of a request was broadcast
    outcome,    \* history: how the execution of a bundle ended
    made,       \* history: the number of bundles made
    polled      \* flips with every poll: one that learns nothing is a step, too

vars == <<requested, last, files, pc, mem, k, fate, sent, outcome, made, polled>>

---------------------------------------------------------------------------
(* Quotes *)

\* Native bridge if there is one, then Relay, then Mayan; a preferred route has
\* no alternative.
ProviderChain(p) ==
    IF p.preferred THEN <<"relay">>
    ELSE (IF p.native THEN <<"native">> ELSE <<>>) \o <<"relay">>
         \o (IF p.excluded THEN <<>> ELSE <<"mayan">>)

Created(p) ==
    [provider |-> Head(ProviderChain(p)), fallbacks |-> Tail(ProviderChain(p)),
     zero |-> p.zero, status |-> "CREATED", age |-> 0]

\* Nothing is asked of a provider to move nothing, or of a native bridge.
Answers(r, provider, down) == r.zero \/ provider = "native" \/ provider \notin down

\* The provider of the request, or the first of its fallbacks that quotes; the
\* ones tried before it are forgotten.
Quoted(r, down) ==
    LET tried == <<r.provider>> \o r.fallbacks
        ok    == {i \in DOMAIN tried : Answers(r, tried[i], down)}
        i     == IF ok = {} THEN Len(tried) ELSE Min(ok)
    IN  [r EXCEPT !.provider = tried[i],
                  !.fallbacks = SubSeq(tried, i + 1, Len(tried)),
                  !.status = IF ok = {} THEN "QUOTE_FAILED" ELSE "QUOTE_DONE"]

\* quote_bundle: the bundle is as young as its last quote.
Requoted(b, down) ==
    LET reqs == [i \in DOMAIN b.reqs |-> Quoted(b.reqs[i], down[i])]
    IN  [b EXCEPT !.reqs = reqs,
                  !.age = IF \E i \in DOMAIN reqs : reqs[i].status # "QUOTE_FAILED" THEN 0 ELSE @]

Downs(b) == [DOMAIN b.reqs -> SUBSET {"relay", "mayan"}]

NewBundle(ask) ==
    [id |-> made + 1, ask |-> ask, reqs |-> [i \in DOMAIN ask |-> Created(ask[i])], age |-> 0]

\* What a new BridgeManager finds: a bundle of a provider this version does not
\* have is dropped.
Opened ==
    IF \E i \in DOMAIN requested.reqs : requested.reqs[i].provider = "removed"
    THEN NoBundle ELSE requested

\* POST /api/bridge/bridge_refill_requirements: the bundle as it is, quoted again,
\* or a new one.  What is found wrong with it afterwards is not stored.
Requirements(ask, force) ==
    /\ pc = "idle"
    /\ \/ /\ Opened.ask = ask
          /\ ~force /\ Opened.age <= Validity
          /\ requested' = Opened
          /\ UNCHANGED made
       \/ /\ Opened.ask = ask
          /\ force \/ Opened.age > Validity
          /\ \E down \in Downs(Opened) : requested' = Requoted(Opened, down)
          /\ UNCHANGED made
       \/ /\ Opened.ask # ask
          /\ made < Len(Asks) /\ ask = Asks[made + 1]
          /\ made' = made + 1
          /\ \E down \in Downs(NewBundle(ask)) : requested' = Requoted(NewBundle(ask), down)
    /\ UNCHANGED <<last, files, pc, mem, k, fate, sent, outcome, polled>>

---------------------------------------------------------------------------
(* Execution *)

\* POST /api/bridge/execute.  Of a bundle that is not the last requested one it is
\* refused; an expired one is quoted again first.
Execute(id) ==
    /\ pc = "idle"
    /\ id # 0 /\ Opened.id = id
    /\ \/ Opened.age <= Validity /\ requested' = Opened
       \/ Opened.age > Validity /\ \E down \in Downs(Opened) : requested' = Requoted(Opened, down)
    /\ mem' = requested'
    /\ pc' = "begin"
    /\ UNCHANGED <<last, files, k, fate, sent, outcome, made, polled>>

\* What cannot be built any more is taken for a failed quote.
Spoilt(r) == [r EXCEPT !.status = "QUOTE_FAILED"]
MaySpoil(r) == r.status = "QUOTE_DONE" /\ ~r.zero /\ r.provider # "native"

\* Mutant: the bundle stays the last requested one.
BeginAgain ==
    /\ pc = "begin"
    /\ last' = mem.id
    /\ pc' = "store"
    /\ k' = 1
    /\ UNCHANGED <<requested, mem, files, fate, sent, outcome, made, polled>>

\* The bundle is taken off bridge.json ...
Begin ==
    /\ pc = "begin"
    /\ \E spoilt \in SUBSET {i \in DOMAIN mem.reqs : MaySpoil(mem.reqs[i])} :
         mem' = [mem EXCEPT !.reqs = [i \in DOMAIN @ |-> IF i \in spoilt THEN Spoilt(@[i]) ELSE @[i]]]
    /\ requested' = NoBundle
    /\ last' = mem.id
    /\ pc' = "store"
    /\ k' = 1
    /\ UNCHANGED <<files, fate, sent, outcome, made, polled>>

\* ... and gets a file of its own.
Store ==
    /\ pc = "store"
    /\ files' = [files EXCEPT ![mem.id] = mem.reqs]
    /\ pc' = "send"
    /\ UNCHANGED <<requested, last, mem, k, fate, sent, outcome, made, polled>>

Sending == pc = "send" /\ k <= Len(mem.reqs)

Becomes(status) ==
    /\ mem' = [mem EXCEPT !.reqs[k].status = status, !.reqs[k].age = 0]
    /\ k' = k + 1

Broadcast ==
    /\ sent' = [sent EXCEPT ![mem.id][k] = @ + 1]
    /\ fate' = [fate EXCEPT ![mem.id][k] = "flying"]

\* Nothing to send: the quote failed or the amount is zero.
Skip ==
    /\ Sending
    /\ \/ mem.reqs[k].status = "QUOTE_FAILED" /\ Becomes("EXECUTION_FAILED")
       \/ mem.reqs[k].status = "QUOTE_DONE" /\ mem.reqs[k].zero /\ Becomes("EXECUTION_DONE")
    /\ UNCHANGED <<requested, last, files, pc, fate, sent, outcome, made, polled>>

ToSend == Sending /\ mem.reqs[k].status = "QUOTE_DONE" /\ ~mem.reqs[k].zero

\* Settled, or given up waiting for; or an exception, before or after the
\* transfer left.
Send ==
    /\ ToSend
    /\ \/ Broadcast /\ Becomes("EXECUTION_PENDING")
       \/ Broadcast /\ Becomes("EXECUTION_FAILED")
       \/ Becomes("EXECUTION_FAILED") /\ UNCHANGED <<sent, fate>>
    /\ UNCHANGED <<requested, last, files, pc, outcome, made, polled>>

Ends(how) ==
    /\ pc' = "idle"
    /\ mem' = NoBundle
    /\ k' = 1
    /\ outcome' = IF mem.id = 0 THEN outcome ELSE [outcome EXCEPT ![mem.id] = how]

\* Mutant: nothing is stored on the way out.
NoFundsForgets ==
    /\ ToSend
    /\ Ends("short")
    /\ UNCHANGED <<requested, last, files, fate, sent, made, polled>>

\* InsufficientFundsException: the only exception after which the file is stored.
NoFunds ==
    /\ ToSend
    /\ files' = [files EXCEPT ![mem.id] = [mem.reqs EXCEPT ![k].status = "EXECUTION_FAILED"]]
    /\ Ends("short")
    /\ UNCHANGED <<requested, last, fate, sent, made, polled>>

\* Balances, prices or the transactions of the next request cannot be had.
Raises ==
    /\ pc = "begin" \/ ToSend
    /\ Ends("aborted")
    /\ UNCHANGED <<requested, last, files, fate, sent, made, polled>>

Close ==
    /\ pc = "send" /\ k > Len(mem.reqs)
    /\ files' = [files EXCEPT ![mem.id] = mem.reqs]
    /\ pc' = "answer"
    /\ UNCHANGED <<requested, last, mem, k, fate, sent, outcome, made, polled>>

Killed ==
    /\ pc # "idle"
    /\ Ends("killed")
    /\ UNCHANGED <<requested, last, files, fate, sent, made, polled>>

---------------------------------------------------------------------------
(* Status *)

\* _bridge_tx_likely_failed, once the provider has no answer: by age, and between
\* the two timeouts by whether a successful receipt can be read.
NoAnswer(r) ==
    IF r.age > Hard THEN {"EXECUTION_FAILED"}
    ELSE IF r.age <= Soft THEN {"EXECUTION_UNKNOWN"}
    ELSE {"EXECUTION_UNKNOWN", "EXECUTION_FAILED"}

\* The receipt says reverted, the other chain has the event, it has not yet, or
\* has not for too long.
NativeAnswer(r, f) ==
    CASE f = "lost" -> {"EXECUTION_FAILED"}
      [] f = "arrived" /\ r.age > TwoEta -> Final
      [] f = "arrived" /\ r.age <= TwoEta -> {"EXECUTION_DONE"}
      [] OTHER -> IF r.age > TwoEta THEN {"EXECUTION_FAILED"} ELSE {r.status}

\* Relay says success, failure or refund, or keeps one waiting; a status nobody
\* knows is UNKNOWN, without a look at the age.
RelayAnswer(f) ==
    CASE f = "arrived" -> {"EXECUTION_DONE"}
      [] f = "lost" -> {"EXECUTION_FAILED"}
      [] OTHER -> {"EXECUTION_PENDING", "EXECUTION_UNKNOWN"}

\* So does Mayan; a status nobody knows is taken for no answer.
MayanAnswer(f) ==
    CASE f = "arrived" -> {"EXECUTION_DONE"}
      [] f = "lost" -> {"EXECUTION_FAILED"}
      [] OTHER -> {"EXECUTION_PENDING"}

Answer(r, f) ==
    CASE r.provider = "native" -> NativeAnswer(r, f)
      [] r.provider = "relay" -> RelayAnswer(f)
      [] OTHER -> MayanAnswer(f)

\* Mutant: what is final is asked for again.
PolledAlways(r, f) ==
    IF r.status \in Submitted \cup Final
    THEN NoAnswer(r) \cup Answer(r, f)
    ELSE {r.status}

\* Mutant: an error of the provider's is never looked into.
PolledPatiently(r, f) ==
    IF r.status \in Submitted
    THEN {"EXECUTION_UNKNOWN"} \cup Answer(r, f)
    ELSE {r.status}

\* _update_execution_status; any call may also fail or find nothing.
Polled(r, f) ==
    IF r.status \in Submitted
    THEN NoAnswer(r) \cup Answer(r, f)
    ELSE {r.status}

\* The age of what is final does not matter any more.
Aged(r, status) == [r EXCEPT !.status = status, !.age = IF status \in Final THEN 0 ELSE @]

\* GET /api/bridge/status/{id}, and the answer of an execution.
Poll(id) ==
    /\ files[id] # <<>>
    /\ \/ pc = "idle" /\ requested' = Opened /\ UNCHANGED <<pc, mem, k, outcome>>
       \/ pc = "answer" /\ mem.id = id /\ Ends("answered") /\ UNCHANGED requested
    /\ \E status \in [DOMAIN files[id] -> Status] :
         /\ \A i \in DOMAIN status : status[i] \in Polled(files[id][i], fate[id][i])
         /\ files' = [files EXCEPT ![id] = [i \in DOMAIN @ |-> Aged(@[i], status[i])]]
    /\ polled' = ~polled
    /\ UNCHANGED <<last, fate, sent, made>>

---------------------------------------------------------------------------
(* The world *)

Older(r) == IF r.status \in Submitted /\ r.age <= Max({Hard, TwoEta}) THEN [r EXCEPT !.age = @ + 1] ELSE r

Tick ==
    /\ requested' = IF requested.id = 0 \/ requested.age > Validity THEN requested
                    ELSE [requested EXCEPT !.age = @ + 1]
    /\ files' = [id \in Ids |-> [i \in DOMAIN files[id] |-> Older(files[id][i])]]
    /\ mem' = [mem EXCEPT !.reqs = [i \in DOMAIN @ |-> Older(@[i])]]
    /\ UNCHANGED <<last, pc, k, fate, sent, outcome, made, polled>>

\* A transfer arrives, or is reverted, dropped or refunded.
Resolve(id, i) ==
    /\ fate[id][i] = "flying"
    /\ \E f \in {"arrived", "lost"} : fate' = [fate EXCEPT ![id][i] = f]
    /\ UNCHANGED <<requested, last, files, pc, mem, k, sent, outcome, made, polled>>

---------------------------------------------------------------------------
Width == 1 .. Max({Len(Asks[id]) : id \in Ids})

\* An older version may have left a bundle with a provider that is gone.
Init ==
    /\ requested \in
         { NoBundle,
           [id |-> 1, ask |-> Asks[1], age |-> 0,
            reqs |-> [i \in DOMAIN Asks[1] |->
                        [Quoted(Created(Asks[1][i]), {}) EXCEPT !.provider = "removed"]]] }
    /\ made = requested.id
    /\ last = 0
    /\ files = [id \in Ids |-> <<>>]
    /\ pc = "idle"
    /\ mem = NoBundle
    /\ k = 1
    /\ fate = [id \in Ids |-> [i \in Width |-> "none"]]
    /\ sent = [id \in Ids |-> [i \in Width |-> 0]]
    /\ outcome = [id \in Ids |-> "none"]
    /\ polled = FALSE

Running ==
    \/ Begin \/ Store \/ Skip \/ Send \/ NoFunds \/ Raises \/ Close
    \/ pc = "answer" /\ Poll(mem.id)

Next ==
    \/ \E id \in Ids, force \in BOOLEAN : Requirements(Asks[id], force)
    \/ \E id \in Ids : Execute(id)
    \/ Running
    \/ \E id \in Ids : pc = "idle" /\ Poll(id)
    \/ Killed \/ Tick
    \/ \E id \in Ids, i \in Width : Resolve(id, i)

Spec == Init /\ [][Next]_vars

\* Executions go on, the user keeps asking, time passes.
FairSpec ==
    /\ Spec
    /\ WF_vars(Running)
    /\ \A id \in Ids : SF_vars(pc = "idle" /\ Poll(id))
    /\ WF_vars(Tick)
    /\ WF_vars(\E id \in Ids, i \in Width : Resolve(id, i))

---------------------------------------------------------------------------
(* Properties *)

\* No transfer is sent twice, however often executions are asked for and killed.
SentOnce == \A id \in Ids, i \in Width : sent[id][i] <= 1

Has(id, i, status) == i \in DOMAIN files[id] /\ files[id][i].status \in status

\* After an execution that was answered, or refused for lack of funds, the file on
\* disk knows of every transfer sent: none still shows as a mere quote.
Remembered ==
    \A id \in Ids, i \in Width :
        sent[id][i] > 0 /\ outcome[id] \in {"answered", "short"} =>
            Has(id, i, Submitted \cup Final)

\* docs/api.md: a bridge request status will not change after DONE or FAILED, also
\* in the bundle's file over polls, restarts and late arrivals.
FinalIsFinal ==
    [][\A id \in Ids : \A i \in DOMAIN files[id] :
          files[id][i].status \in Final =>
              files'[id] # <<>> /\ files'[id][i].status = files[id][i].status]_vars

\* Whatever the providers answer, as long as transfers arrive or fail and the user
\* keeps polling, no request stays PENDING or UNKNOWN.
PollSettles == []<>(\A id \in Ids, i \in Width : ~Has(id, i, Submitted))
=============================================================================
