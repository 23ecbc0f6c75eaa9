--------------------------- MODULE Bridge_proofs ---------------------------
(***************************************************************************)
(* Theorems about Bridge, for any bundles, any periods and timeouts and     *)
(* any number of polls and kills.                                           *)
(***************************************************************************)
EXTENDS Bridge, SequenceTheorems, TLAPS

BF == {"id", "ask", "reqs", "age"}
RF == {"provider", "fallbacks", "zero", "status", "age"}
Quotes == {"QUOTE_DONE", "QUOTE_FAILED"}
Known == Submitted \cup Final

\* A list of requests, and a bundle of them.
IsReqs(q) ==
    /\ q = [i \in 1 .. Len(q) |-> q[i]]
    /\ Len(q) \in Nat
    /\ \A i \in 1 .. Len(q) : DOMAIN q[i] = RF

IsBundle(b) == DOMAIN b = BF /\ IsReqs(b.reqs)

IsQuoted(q) == \A i \in 1 .. Len(q) : q[i].status \in Quotes
-----------------------------------------------------------------------------
(* Lists of requests.                                                      *)

\* A function on 1 .. n is a sequence of that length.
LEMMA FcnLen ==
    ASSUME NEW n \in Nat, NEW f, f = [i \in 1 .. n |-> f[i]]
    PROVE  Len(f) = n /\ DOMAIN f = 1 .. n
<1> DEFINE S == {f[i] : i \in 1 .. n}
<1>1. f \in [1 .. n -> S]
  OBVIOUS
<1>2. f \in Seq(S)
  BY <1>1, SeqDef
<1>3. DOMAIN f = 1 .. Len(f) /\ Len(f) \in Nat
  <2> HIDE DEF S
  <2> QED
    BY <1>2, LenProperties
<1>4. DOMAIN f = 1 .. n
  BY <1>1
<1> QED
  BY <1>3, <1>4

\* A list whose requests are changed one by one is a list of requests.
LEMMA MapReqs ==
    ASSUME NEW q, IsReqs(q), NEW f, DOMAIN f = DOMAIN q, f = [i \in DOMAIN f |-> f[i]],
           \A i \in DOMAIN q : DOMAIN f[i] = RF
    PROVE  IsReqs(f) /\ Len(f) = Len(q) /\ DOMAIN f = 1 .. Len(q)
<1>1. DOMAIN q = 1 .. Len(q) /\ Len(q) \in Nat
  BY DEF IsReqs
<1>2. f = [i \in 1 .. Len(q) |-> f[i]]
  BY <1>1
<1>3. Len(f) = Len(q) /\ DOMAIN f = 1 .. Len(q)
  BY <1>1, <1>2, FcnLen
<1> QED
  BY <1>1, <1>2, <1>3 DEF IsReqs

\* The empty list.
LEMMA NoReqs == IsBundle(NoBundle) /\ IsQuoted(NoBundle.reqs) /\ NoBundle.id = 0
  BY DEF NoBundle, IsBundle, IsReqs, IsQuoted, BF

\* quote_bundle answers every request.
LEMMA QuotedShape ==
    ASSUME NEW r, NEW down, DOMAIN r = RF
    PROVE  DOMAIN Quoted(r, down) = RF /\ Quoted(r, down).status \in Quotes
  BY DEF Quoted, RF, Quotes

\* Quoting a bundle again gives a quoted bundle of the same id.
LEMMA RequotedShape ==
    ASSUME NEW b, IsBundle(b), NEW down
    PROVE  IsBundle(Requoted(b, down)) /\ IsQuoted(Requoted(b, down).reqs) /\ Requoted(b, down).id = b.id
<1> DEFINE reqs == [i \in DOMAIN b.reqs |-> Quoted(b.reqs[i], down[i])]
           age == IF \E i \in DOMAIN reqs : reqs[i].status # "QUOTE_FAILED" THEN 0 ELSE b.age
<1>1. Requoted(b, down) = [b EXCEPT !.reqs = reqs, !.age = age]
  BY DEF Requoted
<1>2. DOMAIN b.reqs = 1 .. Len(b.reqs)
  BY DEF IsBundle, IsReqs
<1>3. \A i \in DOMAIN b.reqs : DOMAIN reqs[i] = RF /\ reqs[i].status \in Quotes
  BY <1>2, QuotedShape DEF IsBundle, IsReqs
<1>4. DOMAIN reqs = DOMAIN b.reqs /\ reqs = [i \in DOMAIN reqs |-> reqs[i]]
  OBVIOUS
<1> HIDE DEF reqs, age
<1>5. IsReqs(reqs) /\ Len(reqs) = Len(b.reqs)
  BY <1>3, <1>4, MapReqs DEF IsBundle
<1>6. IsQuoted(reqs)
  BY <1>2, <1>3, <1>5 DEF IsQuoted
<1>7. /\ DOMAIN Requoted(b, down) = BF
      /\ Requoted(b, down).reqs = reqs
      /\ Requoted(b, down).id = b.id
  BY <1>1 DEF IsBundle, BF
<1> QED
  BY <1>5, <1>6, <1>7 DEF IsBundle

\* A new bundle has the next id.
LEMMA NewBundleShape ==
    ASSUME NEW id \in Ids
    PROVE  IsBundle(NewBundle(Asks[id])) /\ NewBundle(Asks[id]).id = made + 1
<1> DEFINE ask == Asks[id]
           reqs == [i \in DOMAIN ask |-> Created(ask[i])]
<1>1. ask \in Seq(Params)
  BY BridgeAssumption DEF Ids
<1>2. DOMAIN ask = 1 .. Len(ask) /\ Len(ask) \in Nat
  BY <1>1, LenProperties
<1>3. reqs = [i \in 1 .. Len(ask) |-> reqs[i]] /\ \A i \in 1 .. Len(ask) : DOMAIN reqs[i] = RF
  BY <1>2 DEF Created, RF
<1>4. NewBundle(Asks[id]) = [id |-> made + 1, ask |-> ask, reqs |-> reqs, age |-> 0]
  BY DEF NewBundle
<1> HIDE DEF ask, reqs
<1>5. IsReqs(reqs)
  BY <1>2, <1>3, FcnLen DEF IsReqs
<1> QED
  BY <1>4, <1>5 DEF IsBundle, BF

\* What is final stays, and what is known stays known.
LEMMA PolledKnown ==
    ASSUME NEW r, NEW f
    PROVE  /\ r.status \in Final => Polled(r, f) = {r.status}
           /\ r.status \in Known => Polled(r, f) \subseteq Known
<1>1. r.status \in Final => r.status \notin Submitted
  BY DEF Final, Submitted
<1>2. NoAnswer(r) \subseteq Known
  BY DEF NoAnswer, Known, Submitted, Final
<1>3. r.status \in Submitted => Answer(r, f) \subseteq Known
  BY DEF Answer, NativeAnswer, RelayAnswer, MayanAnswer, Known, Submitted, Final
<1> QED
  BY <1>1, <1>2, <1>3 DEF Polled, Known
-----------------------------------------------------------------------------
(* The invariant.                                                          *)

Typed ==
    /\ made \in Nat /\ requested.id \in Nat
    /\ IsBundle(requested) /\ IsQuoted(requested.reqs)
    /\ IsBundle(mem)
    /\ files = [id \in Ids |-> files[id]]
    /\ \A id \in Ids : IsReqs(files[id])
    /\ sent \in [Ids -> [Width -> Nat]]
    /\ outcome = [id \in Ids |-> outcome[id]]
    /\ k \in Nat \ {0}
    /\ requested.id <= made
    /\ pc \in {"idle", "begin", "store", "send", "answer"}
    /\ pc # "idle" => mem.id \in Ids /\ mem.id <= made

\* Nothing of the bundle has been done yet.
Untouched(id) ==
    /\ Len(files[id]) = 0
    /\ \A i \in Width : sent[id][i] = 0
    /\ outcome[id] \notin {"answered", "short"}

\* A bundle that can still be executed is untouched.
Fresh == \A id \in Ids : id = requested.id \/ id > made => Untouched(id)

\* Before anything is sent ...
Opening ==
    /\ pc = "begin" => requested.id = mem.id /\ IsQuoted(mem.reqs)
    /\ pc = "store" => Untouched(mem.id) /\ k = 1 /\ IsQuoted(mem.reqs)
    /\ pc \in {"store", "send", "answer"} => requested.id = 0

\* ... while requests are sent one after the other ...
Sends ==
    pc = "send" =>
        /\ outcome[mem.id] \notin {"answered", "short"}
        /\ \A i \in 1 .. Len(files[mem.id]) : files[mem.id][i].status \notin Final
        /\ \A i \in Width : sent[mem.id][i] > 0 =>
              i < k /\ i \in 1 .. Len(mem.reqs) /\ mem.reqs[i].status \in Known

\* ... and when all are.
Answering ==
    pc = "answer" =>
        \A i \in Width : sent[mem.id][i] > 0 => Has(mem.id, i, Known)

IInv == Typed /\ Fresh /\ Opening /\ Sends /\ Answering /\ SentOnce /\ Remembered
-----------------------------------------------------------------------------
(* The steps.                                                              *)

\* Bundle ids are positive.
LEMMA IdsPositive == \A id \in Ids : id \in Nat /\ id > 0
<1>1. Asks \in Seq(Seq(Params))
  BY BridgeAssumption
<1> QED
  BY <1>1, LenProperties DEF Ids

\* A new BridgeManager finds the last requested bundle or none.
LEMMA OpenedShape ==
    ASSUME Typed
    PROVE  IsBundle(Opened) /\ IsQuoted(Opened.reqs) /\ Opened.id \in {0, requested.id}
  BY NoReqs DEF Opened, Typed

\* Quotes move nothing but bridge.json.
LEMMA RequirementsStep ==
    ASSUME IInv, NEW id \in Ids, NEW force \in BOOLEAN, Requirements(Asks[id], force)
    PROVE  IInv'
<1>1. /\ pc = "idle" /\ pc' = pc
      /\ UNCHANGED <<files, mem, k, sent, outcome>>
  BY DEF Requirements
<1>2. Typed
  BY DEF IInv
<1>3. /\ made' \in Nat /\ made <= made'
      /\ IsBundle(requested') /\ IsQuoted(requested'.reqs)
      /\ requested'.id \in {0, requested.id} \/ (requested'.id = made + 1 /\ made' = made + 1)
  <2>1. CASE Opened.ask = Asks[id]
    <3>1. made' = made
      BY <2>1 DEF Requirements
    <3>2. requested' = Opened \/ \E down : requested' = Requoted(Opened, down)
      BY <2>1 DEF Requirements
    <3> QED
      BY <1>2, <3>1, <3>2, OpenedShape, RequotedShape DEF Typed
  <2>2. CASE Opened.ask # Asks[id]
    <3>1. made' = made + 1
      BY <2>2 DEF Requirements
    <3>2. \E down : requested' = Requoted(NewBundle(Asks[id]), down)
      BY <2>2 DEF Requirements
    <3>3. IsBundle(requested') /\ IsQuoted(requested'.reqs) /\ requested'.id = made + 1
      BY <3>2, NewBundleShape, RequotedShape
    <3> QED
      BY <1>2, <3>1, <3>3 DEF Typed
  <2> QED
    BY <2>1, <2>2
<1>4. Typed'
  BY <1>1, <1>2, <1>3 DEF Typed
<1>5. Fresh'
  BY <1>1, <1>2, <1>3, IdsPositive DEF IInv, Typed, Fresh, Untouched
<1> QED
  BY <1>1, <1>4, <1>5 DEF IInv, Opening, Sends, Answering, SentOnce, Remembered, Has

\* The bundle to execute is the last requested one, quoted.
LEMMA ExecuteStep ==
    ASSUME IInv, NEW id \in Ids, Execute(id)
    PROVE  IInv'
<1>1. /\ pc = "idle" /\ pc' = "begin" /\ mem' = requested'
      /\ UNCHANGED <<files, k, sent, outcome, made>>
      /\ Opened.id = id
  BY DEF Execute
<1>2. Typed
  BY DEF IInv
<1>3. requested' = Opened \/ \E down : requested' = Requoted(Opened, down)
  BY DEF Execute
<1>4. IsBundle(requested') /\ IsQuoted(requested'.reqs) /\ requested'.id = id
  BY <1>1, <1>2, <1>3, OpenedShape, RequotedShape
<1>5. id = requested.id
  BY <1>1, <1>2, OpenedShape, IdsPositive
<1>6. Typed'
  BY <1>1, <1>2, <1>4, <1>5 DEF Typed
<1>7. Fresh'
  BY <1>1, <1>4, <1>5 DEF IInv, Fresh, Untouched
<1> QED
  BY <1>1, <1>4, <1>6, <1>7 DEF IInv, Opening, Sends, Answering, SentOnce, Remembered, Has

\* The bundle leaves bridge.json before anything of it is sent.
LEMMA BeginStep ==
    ASSUME IInv, Begin
    PROVE  IInv'
<1>1. /\ pc = "begin" /\ pc' = "store" /\ k' = 1 /\ requested' = NoBundle
      /\ UNCHANGED <<files, sent, outcome, made>>
  BY DEF Begin
<1>2. Typed /\ IsQuoted(mem.reqs) /\ IsReqs(mem.reqs) /\ requested.id = mem.id
  BY <1>1 DEF IInv, Opening, Typed, IsBundle
<1>3. PICK spoilt : mem' = [mem EXCEPT !.reqs = [i \in DOMAIN @ |-> IF i \in spoilt THEN Spoilt(@[i]) ELSE @[i]]]
  BY DEF Begin
<1> DEFINE reqs == [i \in DOMAIN mem.reqs |-> IF i \in spoilt THEN Spoilt(mem.reqs[i]) ELSE mem.reqs[i]]
<1>4. mem'.reqs = reqs /\ mem'.id = mem.id /\ DOMAIN mem' = BF
  BY <1>2, <1>3 DEF Typed, IsBundle, BF
<1>5. DOMAIN mem.reqs = 1 .. Len(mem.reqs)
  BY <1>2 DEF IsReqs
<1>6. \A i \in DOMAIN mem.reqs : DOMAIN reqs[i] = RF /\ reqs[i].status \in Quotes
  BY <1>2, <1>5 DEF IsReqs, IsQuoted, Spoilt, RF, Quotes
<1>7. DOMAIN reqs = DOMAIN mem.reqs /\ reqs = [i \in DOMAIN reqs |-> reqs[i]]
  OBVIOUS
<1> HIDE DEF reqs
<1>8. IsReqs(reqs) /\ Len(reqs) = Len(mem.reqs)
  BY <1>2, <1>6, <1>7, MapReqs
<1>9. IsBundle(mem') /\ IsQuoted(mem'.reqs)
  BY <1>4, <1>5, <1>6, <1>8 DEF IsBundle, IsQuoted
<1>10. Typed'
  BY <1>1, <1>2, <1>4, <1>9, NoReqs DEF Typed
<1>a. mem.id \in Ids
  BY <1>1, <1>2 DEF Typed
<1>b. Untouched(mem.id)
  BY <1>2, <1>a DEF IInv, Fresh
<1>11. Untouched(mem.id)'
  BY <1>1, <1>4, <1>b DEF Untouched
<1>12. Fresh'
  BY <1>1, NoReqs, IdsPositive DEF IInv, Fresh, Untouched
<1> QED
  BY <1>1, <1>9, <1>10, <1>11, <1>12, NoReqs DEF IInv, Opening, Sends, Answering, SentOnce, Remembered, Has

\* The file of the bundle, and of no other, is written.
LEMMA FileWritten ==
    ASSUME Typed, mem.id \in Ids, NEW reqs, IsReqs(reqs), files' = [files EXCEPT ![mem.id] = reqs]
    PROVE  /\ files' = [id \in Ids |-> files'[id]]
           /\ files'[mem.id] = reqs
           /\ \A id \in Ids : id # mem.id => files'[id] = files[id]
           /\ \A id \in Ids : IsReqs(files'[id])
  BY DEF Typed

\* The file is made before anything is sent.
LEMMA StoreStep ==
    ASSUME IInv, Store
    PROVE  IInv'
<1>1. /\ pc = "store" /\ pc' = "send" /\ files' = [files EXCEPT ![mem.id] = mem.reqs]
      /\ UNCHANGED <<requested, mem, k, sent, outcome, made>>
  BY DEF Store
<1>2. Typed /\ IsReqs(mem.reqs) /\ mem.id \in Ids /\ requested.id = 0 /\ mem.id <= made
  BY <1>1 DEF IInv, Opening, Typed, IsBundle
<1>3. /\ files' = [id \in Ids |-> files'[id]]
      /\ files'[mem.id] = mem.reqs
      /\ \A id \in Ids : id # mem.id => files'[id] = files[id]
      /\ \A id \in Ids : IsReqs(files'[id])
  BY <1>1, <1>2, FileWritten
<1>4. Untouched(mem.id) /\ IsQuoted(mem.reqs)
  BY <1>1 DEF IInv, Opening
<1>5. Typed'
  BY <1>1, <1>2, <1>3 DEF Typed
<1>6. Fresh'
  BY <1>1, <1>2, <1>3, IdsPositive DEF IInv, Typed, Fresh, Untouched
<1>7. Sends'
  <2>1. \A i \in 1 .. Len(mem.reqs) : mem.reqs[i].status \notin Final
    BY <1>4 DEF IsQuoted, Quotes, Final
  <2>2. \A i \in Width : sent'[mem.id][i] = 0
    BY <1>1, <1>4 DEF Untouched
  <2>3. outcome'[mem.id] \notin {"answered", "short"}
    BY <1>1, <1>4 DEF Untouched
  <2> QED
    BY <1>1, <1>3, <2>1, <2>2, <2>3 DEF Sends
<1>8. Remembered'
  BY <1>1, <1>2, <1>3, <1>4 DEF IInv, Remembered, Has, Untouched, Typed
<1> QED
  BY <1>1, <1>2, <1>5, <1>6, <1>7, <1>8 DEF IInv, Opening, Answering, SentOnce

\* One request of the running bundle gets a status that is known.
LEMMA BecomesShape ==
    ASSUME Typed, k \in 1 .. Len(mem.reqs), NEW status \in Known, Becomes(status)
    PROVE  /\ mem'.id = mem.id /\ IsBundle(mem') /\ k' = k + 1 /\ Len(mem'.reqs) = Len(mem.reqs)
           /\ mem'.reqs[k].status = status
           /\ \A i \in 1 .. Len(mem.reqs) : i # k => mem'.reqs[i] = mem.reqs[i]
<1> DEFINE reqs == [mem.reqs EXCEPT ![k].status = status, ![k].age = 0]
<1>1. IsReqs(mem.reqs) /\ DOMAIN mem = BF
  BY DEF Typed, IsBundle
<1>2. DOMAIN mem.reqs = 1 .. Len(mem.reqs) /\ DOMAIN mem.reqs[k] = RF
  BY <1>1 DEF IsReqs
<1>3. mem' = [mem EXCEPT !.reqs = reqs]
  BY <1>1 DEF Becomes, BF
<1>4. DOMAIN mem' = BF /\ mem'.id = mem.id /\ mem'.reqs = reqs
  <2> HIDE DEF reqs
  <2> QED
    BY <1>1, <1>3 DEF BF
<1>5. DOMAIN reqs = DOMAIN mem.reqs /\ reqs = [i \in DOMAIN reqs |-> reqs[i]]
  BY <1>1, <1>2
<1>6. /\ reqs[k].status = status /\ DOMAIN reqs[k] = RF
      /\ \A i \in 1 .. Len(mem.reqs) : i # k => reqs[i] = mem.reqs[i]
  BY <1>1, <1>2 DEF RF
<1>7. \A i \in DOMAIN mem.reqs : DOMAIN reqs[i] = RF
  <2> HIDE DEF reqs
  <2> QED
    BY <1>1, <1>2, <1>6 DEF IsReqs
<1> HIDE DEF reqs
<1>8. IsReqs(reqs) /\ Len(reqs) = Len(mem.reqs)
  BY <1>1, <1>5, <1>7, MapReqs
<1> QED
  BY <1>4, <1>6, <1>8 DEF Becomes, IsBundle

\* A transfer is sent at most when its turn has come.
LEMMA SendingStep ==
    ASSUME IInv, Skip \/ Send
    PROVE  IInv'
<1>1. /\ pc = "send" /\ pc' = pc /\ k <= Len(mem.reqs)
      /\ UNCHANGED <<requested, files, outcome, made>>
  BY DEF Skip, Send, ToSend, Sending
<1>2. Typed /\ mem.id \in Ids /\ k \in 1 .. Len(mem.reqs)
  BY <1>1 DEF IInv, Typed, IsBundle, IsReqs
<1>3. PICK status \in Known : Becomes(status)
  BY DEF Skip, Send, Known, Submitted, Final
<1>4. /\ mem'.id = mem.id /\ IsBundle(mem') /\ k' = k + 1 /\ Len(mem'.reqs) = Len(mem.reqs)
      /\ mem'.reqs[k].status = status
      /\ \A i \in 1 .. Len(mem.reqs) : i # k => mem'.reqs[i] = mem.reqs[i]
  BY <1>2, <1>3, BecomesShape
<1>5. sent' = sent \/ sent' = [sent EXCEPT ![mem.id][k] = @ + 1]
  BY DEF Skip, Send, Broadcast
<1>6. /\ sent' \in [Ids -> [Width -> Nat]]
      /\ \A id \in Ids : \A i \in Width : id # mem.id \/ i # k => sent'[id][i] = sent[id][i]
      /\ k \in Width => sent'[mem.id][k] <= sent[mem.id][k] + 1
  <2>1. CASE sent' = sent
    BY <1>2, <2>1 DEF Typed
  <2>2. CASE sent' = [sent EXCEPT ![mem.id][k] = @ + 1]
    <3>1. sent[mem.id] \in [Width -> Nat]
      BY <1>2 DEF Typed
    <3>2. \A i \in Width : sent[mem.id][i] \in Nat
      BY <3>1
    <3>3. sent' = [sent EXCEPT ![mem.id] = [sent[mem.id] EXCEPT ![k] = sent[mem.id][k] + 1]]
      BY <2>2
    <3>4. [sent[mem.id] EXCEPT ![k] = sent[mem.id][k] + 1] \in [Width -> Nat]
      <4>1. CASE k \in Width
        <5>1. sent[mem.id][k] + 1 \in Nat
          BY <3>2, <4>1
        <5> QED
          BY <3>1, <5>1
      <4>2. CASE k \notin Width
        BY <3>1, <4>2
      <4> QED
        BY <4>1, <4>2
    <3>5. sent' \in [Ids -> [Width -> Nat]]
      BY <1>2, <3>3, <3>4 DEF Typed
    <3>6. \A id \in Ids : id # mem.id => sent'[id] = sent[id]
      BY <1>2, <3>3 DEF Typed
    <3>7. sent'[mem.id] = [sent[mem.id] EXCEPT ![k] = sent[mem.id][k] + 1]
      BY <1>2, <3>3 DEF Typed
    <3>8. \A i \in Width : i # k => sent'[mem.id][i] = sent[mem.id][i]
      BY <3>1, <3>7
    <3>9. k \in Width => sent'[mem.id][k] = sent[mem.id][k] + 1
      BY <3>1, <3>7
    <3> QED
      BY <3>2, <3>5, <3>6, <3>8, <3>9
  <2> QED
    BY <1>5, <2>1, <2>2
<1>7. Sends
  BY DEF IInv
<1>8. k \in Width => sent[mem.id][k] = 0
  BY <1>1, <1>2, <1>7 DEF Sends, Typed
<1>9. Typed'
  BY <1>1, <1>2, <1>4, <1>6 DEF Typed
<1>10. Fresh'
  <2>1. requested.id = 0 /\ mem.id <= made
    BY <1>1 DEF IInv, Opening, Typed
  <2>2. ASSUME NEW id \in Ids, id = requested.id \/ id > made
        PROVE  Untouched(id) /\ id # mem.id
    BY <1>2, <2>1, <2>2, IdsPositive DEF IInv, Fresh, Typed
  <2>3. ASSUME NEW id \in Ids, id = requested.id \/ id > made
        PROVE  Untouched(id)'
    BY <1>1, <1>6, <2>2, <2>3 DEF Untouched
  <2> QED
    BY <1>1, <2>3 DEF Fresh
<1>11. Opening'
  BY <1>1 DEF IInv, Opening
<1>12. Sends'
  <2>1. ASSUME NEW i \in Width, sent'[mem.id][i] > 0
        PROVE  i < k' /\ i \in 1 .. Len(mem'.reqs) /\ mem'.reqs[i].status \in Known
    <3>1. CASE i = k
      BY <1>2, <1>4, <3>1
    <3>2. CASE i # k
      <4>1. i < k /\ i \in 1 .. Len(mem.reqs) /\ mem.reqs[i].status \in Known
        BY <1>1, <1>2, <1>6, <1>7, <2>1, <3>2 DEF Sends
      <4> QED
        BY <1>2, <1>4, <3>2, <4>1
    <3> QED
      BY <3>1, <3>2
  <2> QED
    BY <1>1, <1>4, <1>7, <2>1 DEF Sends
<1>13. SentOnce'
  <2>1. ASSUME NEW id \in Ids, NEW i \in Width PROVE sent'[id][i] <= 1
    <3>1. CASE id = mem.id /\ i = k
      BY <1>6, <1>8, <3>1
    <3>2. CASE ~(id = mem.id /\ i = k)
      BY <1>6, <3>2 DEF IInv, SentOnce
    <3> QED
      BY <3>1, <3>2
  <2> QED
    BY <2>1 DEF SentOnce
<1>14. Remembered'
  <2>1. outcome[mem.id] \notin {"answered", "short"}
    BY <1>1, <1>7 DEF Sends
  <2> QED
    BY <1>1, <1>2, <1>6, <2>1 DEF IInv, Remembered, Has, Typed
<1> QED
  BY <1>1, <1>9, <1>10, <1>11, <1>12, <1>13, <1>14 DEF IInv, Answering

\* However an execution ends, it leaves the rest to the disk.
LEMMA EndsShape ==
    ASSUME Typed, NEW how, Ends(how)
    PROVE  /\ pc' = "idle" /\ IsBundle(mem') /\ k' = 1
           /\ outcome' = [id \in Ids |-> outcome'[id]]
           /\ \A id \in Ids : outcome'[id] = outcome[id] \/ (id = mem.id /\ outcome'[id] = how)
  BY NoReqs DEF Ends, Typed

\* An exception or a kill stores nothing.
LEMMA AbortStep ==
    ASSUME IInv, Raises \/ Killed
    PROVE  IInv'
<1>1. UNCHANGED <<requested, files, sent, made>>
  BY DEF Raises, Killed
<1>2. Typed
  BY DEF IInv
<1>3. PICK how \in {"aborted", "killed"} : Ends(how)
  BY DEF Raises, Killed
<1>4. /\ pc' = "idle" /\ IsBundle(mem') /\ k' = 1
      /\ outcome' = [id \in Ids |-> outcome'[id]]
      /\ \A id \in Ids : outcome'[id] = outcome[id] \/ (id = mem.id /\ outcome'[id] = how)
  BY <1>2, <1>3, EndsShape
<1>5. Typed'
  BY <1>1, <1>2, <1>4 DEF Typed
<1>6. \A id \in Ids : outcome'[id] \in {"answered", "short"} => outcome[id] \in {"answered", "short"}
  BY <1>4
<1>7. Fresh' /\ Remembered'
  BY <1>1, <1>6 DEF IInv, Fresh, Untouched, Remembered, Has
<1> QED
  BY <1>1, <1>4, <1>5, <1>7 DEF IInv, Opening, Sends, Answering, SentOnce

\* The two ways out of the sending that store the file.
LEMMA NoFundsStep ==
    ASSUME IInv, NoFunds
    PROVE  IInv'
<1> DEFINE reqs == [mem.reqs EXCEPT ![k].status = "EXECUTION_FAILED"]
<1>1. /\ pc = "send" /\ k <= Len(mem.reqs) /\ mem.reqs[k].status = "QUOTE_DONE"
      /\ files' = [files EXCEPT ![mem.id] = reqs]
      /\ Ends("short")
      /\ UNCHANGED <<requested, sent, made>>
  BY DEF NoFunds, ToSend, Sending
<1>2. Typed /\ mem.id \in Ids /\ IsReqs(mem.reqs) /\ k \in 1 .. Len(mem.reqs)
  BY <1>1 DEF IInv, Typed, IsBundle, IsReqs
<1>3. DOMAIN mem.reqs = 1 .. Len(mem.reqs) /\ DOMAIN mem.reqs[k] = RF
  BY <1>2 DEF IsReqs
<1>4. DOMAIN reqs = DOMAIN mem.reqs /\ reqs = [i \in DOMAIN reqs |-> reqs[i]]
  BY <1>3
<1>5. /\ DOMAIN reqs[k] = RF
      /\ \A i \in 1 .. Len(mem.reqs) : i # k => reqs[i] = mem.reqs[i]
  BY <1>2, <1>3 DEF RF
<1> HIDE DEF reqs
<1>6. \A i \in DOMAIN mem.reqs : DOMAIN reqs[i] = RF
  BY <1>2, <1>3, <1>5 DEF IsReqs
<1>7. IsReqs(reqs) /\ Len(reqs) = Len(mem.reqs)
  BY <1>2, <1>4, <1>6, MapReqs
<1>8. /\ files' = [id \in Ids |-> files'[id]]
      /\ files'[mem.id] = reqs
      /\ \A id \in Ids : id # mem.id => files'[id] = files[id]
      /\ \A id \in Ids : IsReqs(files'[id])
  BY <1>1, <1>2, <1>7, FileWritten
<1>9. /\ pc' = "idle" /\ IsBundle(mem') /\ k' = 1
      /\ outcome' = [id \in Ids |-> outcome'[id]]
      /\ \A id \in Ids : outcome'[id] = outcome[id] \/ (id = mem.id /\ outcome'[id] = "short")
  BY <1>1, <1>2, EndsShape
<1>10. Typed'
  BY <1>1, <1>2, <1>8, <1>9 DEF Typed
<1>11. Fresh'
  <2>1. requested.id = 0 /\ mem.id <= made
    BY <1>1 DEF IInv, Opening, Typed
  <2>2. ASSUME NEW id \in Ids, id = requested.id \/ id > made
        PROVE  Untouched(id) /\ id # mem.id
    BY <1>2, <2>1, <2>2, IdsPositive DEF IInv, Fresh, Typed
  <2>3. ASSUME NEW id \in Ids, id = requested.id \/ id > made
        PROVE  Untouched(id)'
    BY <1>1, <1>8, <1>9, <2>2, <2>3 DEF Untouched
  <2> QED
    BY <1>1, <2>3 DEF Fresh
<1>12. Remembered'
  <2>1. ASSUME NEW i \in Width, sent[mem.id][i] > 0
        PROVE  i \in 1 .. Len(mem.reqs) /\ reqs[i].status \in Known
    <3>1. i < k /\ i \in 1 .. Len(mem.reqs) /\ mem.reqs[i].status \in Known
      BY <1>1, <2>1 DEF IInv, Sends
    <3> QED
      BY <1>2, <1>5, <3>1
  <2>2. DOMAIN reqs = 1 .. Len(mem.reqs)
    BY <1>3, <1>4
  <2> QED
    BY <1>1, <1>8, <1>9, <2>1, <2>2 DEF IInv, Remembered, Has, Known
<1> QED
  BY <1>1, <1>9, <1>10, <1>11, <1>12 DEF IInv, Opening, Sends, Answering, SentOnce

\* All requests have been tried.
LEMMA CloseStep ==
    ASSUME IInv, Close
    PROVE  IInv'
<1>1. /\ pc = "send" /\ pc' = "answer" /\ files' = [files EXCEPT ![mem.id] = mem.reqs]
      /\ UNCHANGED <<requested, mem, k, sent, outcome, made>>
  BY DEF Close
<1>2. Typed /\ IsReqs(mem.reqs) /\ mem.id \in Ids /\ requested.id = 0 /\ mem.id <= made
  BY <1>1 DEF IInv, Opening, Typed, IsBundle
<1>3. /\ files' = [id \in Ids |-> files'[id]]
      /\ files'[mem.id] = mem.reqs
      /\ \A id \in Ids : id # mem.id => files'[id] = files[id]
      /\ \A id \in Ids : IsReqs(files'[id])
  BY <1>1, <1>2, FileWritten
<1>4. Sends
  BY DEF IInv
<1>5. DOMAIN mem.reqs = 1 .. Len(mem.reqs)
  BY <1>2 DEF IsReqs
<1>6. Typed'
  BY <1>1, <1>2, <1>3 DEF Typed
<1>7. Fresh'
  BY <1>1, <1>2, <1>3, IdsPositive DEF IInv, Typed, Fresh, Untouched
<1>8. Answering'
  BY <1>1, <1>3, <1>4, <1>5 DEF Sends, Answering, Has
<1>9. Remembered'
  BY <1>1, <1>2, <1>3, <1>4 DEF IInv, Sends, Remembered, Has
<1> QED
  BY <1>1, <1>2, <1>6, <1>7, <1>8, <1>9 DEF IInv, Opening, Sends, SentOnce

\* A poll changes one file: what is final in it stays, what is known stays known.
LEMMA PollFiles ==
    ASSUME Typed, NEW id \in Ids, Poll(id)
    PROVE  /\ files' = [j \in Ids |-> files'[j]]
           /\ \A j \in Ids : j # id => files'[j] = files[j]
           /\ IsReqs(files'[id]) /\ Len(files'[id]) = Len(files[id])
           /\ \A i \in 1 .. Len(files[id]) :
                /\ files[id][i].status \in Final => files'[id][i].status = files[id][i].status
                /\ files[id][i].status \in Known => files'[id][i].status \in Known
<1>1. PICK status \in [DOMAIN files[id] -> Status] :
         /\ \A i \in DOMAIN status : status[i] \in Polled(files[id][i], fate[id][i])
         /\ files' = [files EXCEPT ![id] = [i \in DOMAIN @ |-> Aged(@[i], status[i])]]
  BY DEF Poll
<1> DEFINE reqs == [i \in DOMAIN files[id] |-> Aged(files[id][i], status[i])]
<1>2. IsReqs(files[id]) /\ files = [j \in Ids |-> files[j]]
  BY DEF Typed
<1>3. /\ files' = [j \in Ids |-> files'[j]]
      /\ \A j \in Ids : j # id => files'[j] = files[j]
      /\ files'[id] = reqs
  <2>1. files' = [files EXCEPT ![id] = reqs]
    BY <1>1
  <2> HIDE DEF reqs
  <2> QED
    BY <1>2, <2>1
<1>4. DOMAIN files[id] = 1 .. Len(files[id]) /\ DOMAIN status = DOMAIN files[id]
  BY <1>1, <1>2 DEF IsReqs
<1>5. \A i \in DOMAIN files[id] : DOMAIN reqs[i] = RF /\ reqs[i].status = status[i]
  BY <1>2, <1>4 DEF IsReqs, Aged, RF
<1>6. DOMAIN reqs = DOMAIN files[id] /\ reqs = [i \in DOMAIN reqs |-> reqs[i]]
  OBVIOUS
<1> HIDE DEF reqs
<1>7. IsReqs(reqs) /\ Len(reqs) = Len(files[id])
  BY <1>2, <1>5, <1>6, MapReqs
<1>8. \A i \in DOMAIN files[id] :
         /\ files[id][i].status \in Final => reqs[i].status = files[id][i].status
         /\ files[id][i].status \in Known => reqs[i].status \in Known
  BY <1>1, <1>4, <1>5, PolledKnown
<1> QED
  BY <1>3, <1>4, <1>7, <1>8

\* A poll forgets nothing, and ends an execution.
LEMMA PollStep ==
    ASSUME IInv, NEW id \in Ids, Poll(id)
    PROVE  IInv'
<1>1. UNCHANGED <<sent, made>> /\ Typed
  BY DEF Poll, IInv
<1>2. /\ files' = [j \in Ids |-> files'[j]]
      /\ \A j \in Ids : j # id => files'[j] = files[j]
      /\ IsReqs(files'[id]) /\ Len(files'[id]) = Len(files[id])
      /\ \A i \in 1 .. Len(files[id]) :
           /\ files[id][i].status \in Final => files'[id][i].status = files[id][i].status
           /\ files[id][i].status \in Known => files'[id][i].status \in Known
  BY <1>1, PollFiles
<1>3. \A j \in Ids : Len(files'[j]) = Len(files[j]) /\ IsReqs(files'[j])
  BY <1>1, <1>2 DEF Typed
<1>4. \A j \in Ids : \A i \in Width : Has(j, i, Known) => Has(j, i, Known)'
  <2>1. \A j \in Ids : DOMAIN files[j] = 1 .. Len(files[j]) /\ DOMAIN files'[j] = 1 .. Len(files'[j])
    BY <1>1, <1>3 DEF Typed, IsReqs
  <2> QED
    BY <1>2, <1>3, <2>1 DEF Has, Known, Submitted, Final
<1>5. CASE pc = "idle" /\ requested' = Opened /\ UNCHANGED <<pc, mem, k, outcome>>
  <2>1. IsBundle(requested') /\ IsQuoted(requested'.reqs) /\ requested'.id \in {0, requested.id}
    BY <1>1, <1>5, OpenedShape
  <2>2. Typed'
    BY <1>1, <1>2, <1>3, <1>5, <2>1 DEF Typed
  <2>3. Fresh'
    BY <1>1, <1>3, <1>5, <2>1, IdsPositive DEF IInv, Fresh, Untouched
  <2>4. Remembered'
    BY <1>1, <1>4, <1>5 DEF IInv, Remembered, Known
  <2> QED
    BY <1>1, <1>5, <2>2, <2>3, <2>4 DEF IInv, Opening, Sends, Answering, SentOnce
<1>6. CASE pc = "answer" /\ mem.id = id /\ Ends("answered") /\ UNCHANGED requested
  <2>1. /\ pc' = "idle" /\ IsBundle(mem') /\ k' = 1
        /\ outcome' = [j \in Ids |-> outcome'[j]]
        /\ \A j \in Ids : outcome'[j] = outcome[j] \/ (j = mem.id /\ outcome'[j] = "answered")
    BY <1>1, <1>6, EndsShape
  <2>2. Typed'
    BY <1>1, <1>2, <1>3, <1>6, <2>1 DEF Typed
  <2>3. Fresh'
    <3>1. requested.id = 0 /\ mem.id <= made
      BY <1>1, <1>6 DEF IInv, Opening, Typed
    <3>2. ASSUME NEW j \in Ids, j = requested.id \/ j > made
          PROVE  Untouched(j) /\ j # mem.id
      BY <1>1, <3>1, <3>2, IdsPositive DEF IInv, Fresh, Typed
    <3>3. ASSUME NEW j \in Ids, j = requested.id \/ j > made
          PROVE  Untouched(j)'
      BY <1>1, <1>3, <2>1, <3>2, <3>3 DEF Untouched
    <3> QED
      BY <1>1, <1>6, <3>3 DEF Fresh
  <2>4. Remembered'
    BY <1>1, <1>4, <1>6, <2>1 DEF IInv, Remembered, Answering, Known
  <2> QED
    BY <1>1, <1>6, <2>1, <2>2, <2>3, <2>4 DEF IInv, Opening, Sends, Answering, SentOnce
<1> QED
  BY <1>5, <1>6 DEF Poll

\* Time changes nothing but ages.
LEMMA OlderReqs ==
    ASSUME NEW q, IsReqs(q), NEW f, f = [i \in DOMAIN q |-> Older(q[i])]
    PROVE  /\ IsReqs(f) /\ Len(f) = Len(q)
           /\ \A i \in 1 .. Len(q) : f[i].status = q[i].status
<1>1. DOMAIN q = 1 .. Len(q)
  BY DEF IsReqs
<1>2. \A i \in DOMAIN q : DOMAIN f[i] = RF /\ f[i].status = q[i].status
  BY <1>1 DEF IsReqs, Older, RF
<1>3. DOMAIN f = DOMAIN q /\ f = [i \in DOMAIN f |-> f[i]]
  OBVIOUS
<1> QED
  BY <1>1, <1>2, <1>3, MapReqs

\* Nor in the files.
LEMMA TickFiles ==
    ASSUME Typed, Tick
    PROVE  /\ files' = [id \in Ids |-> files'[id]]
           /\ \A id \in Ids :
                /\ IsReqs(files'[id]) /\ Len(files'[id]) = Len(files[id])
                /\ \A i \in 1 .. Len(files[id]) : files'[id][i].status = files[id][i].status
<1>1. files' = [id \in Ids |-> [i \in DOMAIN files[id] |-> Older(files[id][i])]]
  BY DEF Tick
<1>2. ASSUME NEW id \in Ids
      PROVE  /\ IsReqs(files'[id]) /\ Len(files'[id]) = Len(files[id])
             /\ \A i \in 1 .. Len(files[id]) : files'[id][i].status = files[id][i].status
  <2>1. files'[id] = [i \in DOMAIN files[id] |-> Older(files[id][i])] /\ IsReqs(files[id])
    BY <1>1 DEF Typed
  <2> QED
    BY <2>1, OlderReqs
<1> QED
  BY <1>1, <1>2

\* Nor anywhere.
LEMMA TickStep ==
    ASSUME IInv, Tick
    PROVE  IInv'
<1>1. UNCHANGED <<pc, k, sent, outcome, made>> /\ Typed
  BY DEF Tick, IInv
<1>2. /\ files' = [id \in Ids |-> files'[id]]
      /\ \A id \in Ids :
           /\ IsReqs(files'[id]) /\ Len(files'[id]) = Len(files[id])
           /\ \A i \in 1 .. Len(files[id]) : files'[id][i].status = files[id][i].status
  BY <1>1, TickFiles
<1>3. requested'.id = requested.id /\ requested'.reqs = requested.reqs /\ DOMAIN requested' = BF
  BY <1>1 DEF Tick, Typed, IsBundle, BF
<1>4. /\ mem'.id = mem.id /\ IsBundle(mem') /\ Len(mem'.reqs) = Len(mem.reqs)
      /\ \A i \in 1 .. Len(mem.reqs) : mem'.reqs[i].status = mem.reqs[i].status
  <2> DEFINE reqs == [i \in DOMAIN mem.reqs |-> Older(mem.reqs[i])]
  <2>1. mem' = [mem EXCEPT !.reqs = reqs] /\ DOMAIN mem = BF /\ IsReqs(mem.reqs)
    BY <1>1 DEF Tick, Typed, IsBundle
  <2>2. IsReqs(reqs) /\ Len(reqs) = Len(mem.reqs)
        /\ \A i \in 1 .. Len(mem.reqs) : reqs[i].status = mem.reqs[i].status
    BY <2>1, OlderReqs
  <2> HIDE DEF reqs
  <2>3. mem'.id = mem.id /\ mem'.reqs = reqs /\ DOMAIN mem' = BF
    BY <2>1 DEF BF
  <2> QED
    BY <2>2, <2>3 DEF IsBundle
<1>5. Typed'
  BY <1>1, <1>2, <1>3, <1>4 DEF Typed, IsBundle
<1>6. Fresh'
  BY <1>1, <1>2, <1>3 DEF IInv, Fresh, Untouched
<1>7. Opening'
  <2>1. pc = "store" => Untouched(mem.id)'
    <3>1. SUFFICES ASSUME pc = "store" PROVE Untouched(mem.id)'
      OBVIOUS
    <3>2. mem.id \in Ids /\ Untouched(mem.id)
      BY <1>1, <3>1 DEF IInv, Opening, Typed
    <3> QED
      BY <1>1, <1>2, <1>4, <3>2 DEF Untouched
  <2>2. IsQuoted(mem.reqs) => IsQuoted(mem'.reqs)
    BY <1>4 DEF IsQuoted
  <2>3. requested'.id = mem'.id <=> requested.id = mem.id
    BY <1>3, <1>4
  <2> QED
    BY <1>1, <1>3, <1>4, <2>1, <2>2, <2>3 DEF IInv, Opening, Untouched
<1>8. Sends'
  <2>1. SUFFICES ASSUME pc = "send" PROVE Sends'
    BY <1>1 DEF Sends
  <2>2. mem.id \in Ids /\ Sends
    BY <1>1, <2>1 DEF IInv, Typed
  <2>3. \A i \in 1 .. Len(files'[mem.id]) : files'[mem.id][i].status \notin Final
    BY <1>2, <2>1, <2>2 DEF Sends
  <2> QED
    BY <1>1, <1>4, <2>1, <2>2, <2>3 DEF Sends
<1>9. \A id \in Ids : \A i \in Width : Has(id, i, Known) => Has(id, i, Known)'
  <2>1. \A id \in Ids : DOMAIN files[id] = 1 .. Len(files[id]) /\ DOMAIN files'[id] = 1 .. Len(files[id])
    BY <1>1, <1>2 DEF Typed, IsReqs
  <2> QED
    BY <1>2, <2>1 DEF Has
<1>10. Answering' /\ Remembered'
  <2>1. Answering'
    <3>1. pc = "answer" => mem.id \in Ids
      BY <1>1 DEF Typed
    <3>2. ASSUME pc = "answer", NEW i \in Width, sent[mem.id][i] > 0 PROVE Has(mem.id, i, Known)'
      BY <1>4, <1>9, <3>1, <3>2 DEF IInv, Answering, Has
    <3> QED
      BY <1>1, <1>4, <3>2 DEF Answering, Has
  <2>2. Remembered'
    BY <1>1, <1>9 DEF IInv, Remembered, Known, Has
  <2> QED
    BY <2>1, <2>2
<1> QED
  BY <1>1, <1>5, <1>6, <1>7, <1>8, <1>10 DEF IInv, SentOnce
-----------------------------------------------------------------------------
\* A new installation, or one with the bundle of an older version.
LEMMA Initially == Init => IInv
<1> SUFFICES ASSUME Init PROVE IInv
  OBVIOUS
<1>1. /\ made = requested.id /\ files = [id \in Ids |-> <<>>] /\ pc = "idle" /\ mem = NoBundle /\ k = 1
      /\ sent = [id \in Ids |-> [i \in Width |-> 0]]
      /\ outcome = [id \in Ids |-> "none"]
  BY DEF Init
<1>2. IsBundle(requested) /\ IsQuoted(requested.reqs) /\ requested.id \in Nat
  <2> DEFINE reqs == [i \in DOMAIN Asks[1] |-> [Quoted(Created(Asks[1][i]), {}) EXCEPT !.provider = "removed"]]
  <2>1. CASE requested = NoBundle
    BY <2>1, NoReqs
  <2>2. CASE requested = [id |-> 1, ask |-> Asks[1], age |-> 0, reqs |-> reqs]
    <3>1. Asks \in Seq(Seq(Params)) /\ Asks # <<>>
      BY BridgeAssumption
    <3>2. Asks[1] \in Seq(Params)
      BY <3>1
    <3>3. DOMAIN Asks[1] = 1 .. Len(Asks[1]) /\ Len(Asks[1]) \in Nat
      BY <3>2, LenProperties
    <3>4. \A i \in DOMAIN Asks[1] : DOMAIN Created(Asks[1][i]) = RF
      BY DEF Created, RF
    <3>5. \A i \in DOMAIN Asks[1] : DOMAIN reqs[i] = RF /\ reqs[i].status \in Quotes
      <4> TAKE i \in DOMAIN Asks[1]
      <4>1. DOMAIN Quoted(Created(Asks[1][i]), {}) = RF /\ Quoted(Created(Asks[1][i]), {}).status \in Quotes
        BY <3>4, QuotedShape
      <4> QED
        BY <4>1 DEF RF
    <3>6. reqs = [i \in 1 .. Len(Asks[1]) |-> reqs[i]]
      BY <3>3
    <3> HIDE DEF reqs
    <3>7. Len(reqs) = Len(Asks[1])
      BY <3>3, <3>6, FcnLen
    <3>8. IsReqs(reqs) /\ IsQuoted(reqs)
      BY <3>3, <3>5, <3>6, <3>7 DEF IsReqs, IsQuoted
    <3> QED
      BY <2>2, <3>8 DEF IsBundle, BF
  <2> QED
    BY <2>1, <2>2 DEF Init
<1>3. Typed
  BY <1>1, <1>2, NoReqs DEF Typed, IsReqs
<1>4. Fresh
  BY <1>1 DEF Fresh, Untouched
<1> QED
  BY <1>1, <1>3, <1>4 DEF IInv, Opening, Sends, Answering, SentOnce, Remembered

\* What the invariant is about is left alone.
LEMMA FrameStep ==
    ASSUME IInv, UNCHANGED <<requested, files, pc, mem, k, sent, outcome, made>>
    PROVE  IInv'
<1>1. Typed'
  BY DEF IInv, Typed
<1>2. Fresh' /\ Opening'
  BY DEF IInv, Fresh, Opening, Untouched
<1>3. Sends' /\ SentOnce'
  BY DEF IInv, Sends, SentOnce
<1>4. Answering' /\ Remembered'
  BY DEF IInv, Answering, Remembered, Has
<1> QED
  BY <1>1, <1>2, <1>3, <1>4 DEF IInv

\* All steps.
LEMMA Steps == IInv /\ [Next]_vars => IInv'
<1> SUFFICES ASSUME IInv, [Next]_vars PROVE IInv'
  OBVIOUS
<1>1. CASE Skip \/ Send
  BY <1>1, SendingStep
<1>2. CASE Raises \/ Killed
  BY <1>2, AbortStep
<1>3. ASSUME pc = "answer", Poll(mem.id) PROVE IInv'
  <2>1. mem.id \in Ids
    BY <1>3 DEF IInv, Typed
  <2> QED
    BY <1>3, <2>1, PollStep
<1>4. ASSUME NEW id \in Ids, NEW i \in Width, Resolve(id, i) PROVE IInv'
  BY <1>4, FrameStep DEF Resolve
<1>5. CASE UNCHANGED vars
  BY <1>5, FrameStep DEF vars
<1> QED
  BY <1>1, <1>2, <1>3, <1>4, <1>5, RequirementsStep, ExecuteStep, BeginStep, StoreStep, NoFundsStep,
     CloseStep, PollStep, TickStep DEF Next, Running

\* The invariant, for any bundles, periods and timeouts.
THEOREM Invariance == Spec => []IInv
<1> QED
  BY Initially, Steps, PTL DEF Spec

\* However executions are asked for, refused, killed and asked for again: each
\* transfer of each bundle is broadcast at most once.
THEOREM NeverSentTwice == Spec => []SentOnce
<1>1. IInv => SentOnce
  BY DEF IInv
<1> QED
  BY <1>1, Invariance, PTL

\* The file of a bundle whose execution was answered, or refused for lack of
\* funds, knows of every transfer that was sent.
THEOREM SentIsRemembered == Spec => []Remembered
<1>1. IInv => Remembered
  BY DEF IInv
<1> QED
  BY <1>1, Invariance, PTL

\* What a file calls done or failed it calls so for ever.
THEOREM FinalStays == Spec => FinalIsFinal
<1> DEFINE Stays ==
      \A id \in Ids : \A i \in DOMAIN files[id] :
          files[id][i].status \in Final =>
              files'[id] # <<>> /\ files'[id][i].status = files[id][i].status
<1>1. ASSUME IInv, [Next]_vars PROVE Stays
  <2>1. Typed /\ \A id \in Ids : DOMAIN files[id] = 1 .. Len(files[id]) /\ Len(files[id]) \in Nat
    BY <1>1 DEF IInv, Typed, IsReqs
  <2>2. ASSUME files' = files PROVE Stays
    BY <2>1, <2>2
  <2>3. ASSUME NEW id \in Ids, Poll(id) PROVE Stays
    <3>1. /\ \A j \in Ids : j # id => files'[j] = files[j]
          /\ Len(files'[id]) = Len(files[id])
          /\ \A i \in 1 .. Len(files[id]) :
                files[id][i].status \in Final => files'[id][i].status = files[id][i].status
      BY <2>1, <2>3, PollFiles
    <3>2. files'[id] = <<>> => Len(files'[id]) = 0
      OBVIOUS
    <3> QED
      BY <2>1, <3>1, <3>2
  <2>4. ASSUME Tick PROVE Stays
    <3>1. \A id \in Ids :
            /\ Len(files'[id]) = Len(files[id])
            /\ \A i \in 1 .. Len(files[id]) : files'[id][i].status = files[id][i].status
      BY <2>1, <2>4, TickFiles
    <3>2. \A id \in Ids : files'[id] = <<>> => Len(files'[id]) = 0
      OBVIOUS
    <3> QED
      BY <2>1, <3>1, <3>2
  <2>5. ASSUME Store \/ NoFunds \/ Close PROVE Stays
    <3>1. \E reqs : files' = [files EXCEPT ![mem.id] = reqs]
      BY <2>5 DEF Store, NoFunds, Close
    <3>2. mem.id \in Ids /\ \A id \in Ids : id # mem.id => files'[id] = files[id]
      BY <1>1, <2>1, <2>5, <3>1 DEF Store, NoFunds, Close, ToSend, Sending, Typed
    <3>3. \A i \in 1 .. Len(files[mem.id]) : files[mem.id][i].status \notin Final
      BY <1>1, <2>5 DEF Store, NoFunds, Close, ToSend, Sending, IInv, Opening, Untouched, Sends
    <3> QED
      BY <2>1, <3>2, <3>3
  <2>6. ASSUME pc = "answer", Poll(mem.id) PROVE Stays
    <3>1. mem.id \in Ids
      BY <2>1, <2>6 DEF Typed
    <3> QED
      BY <2>3, <2>6, <3>1
  <2>7. Next \/ files' = files
    BY <1>1 DEF vars
  <2> QED
    BY <2>2, <2>3, <2>4, <2>5, <2>6, <2>7 DEF Next, Running, Requirements, Execute, Begin, Skip, Send,
       Raises, Killed, Resolve
<1> HIDE DEF Stays
<1>2. IInv /\ [Next]_vars => [Stays]_vars
  BY <1>1
<1>3. Spec => [][Stays]_vars
  BY <1>2, Invariance, PTL DEF Spec
<1> QED
  BY <1>3 DEF FinalIsFinal, Stays
=============================================================================
