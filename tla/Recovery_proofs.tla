-------------------------- MODULE Recovery_proofs --------------------------
(***************************************************************************)
(* Theorems about Account and Recovery, for any passwords, services and    *)
(* chains and any number of keys, kills, requests and bundles: the wallet  *)
(* is never locked; what is answered with success is done; a change that   *)
(* was cut short converges when asked for again; a recovery that is        *)
(* completed has all Safes.                                                *)
(***************************************************************************)
EXTENDS Recovery, SequenceTheorems, FiniteSetTheorems, TLAPS

WF == {"id", "key", "phrase", "config", "safes"}
JF == {"do", "at", "old", "new", "left", "broken"}
BF == {"password", "wallet", "keys", "safes", "old"}
DF == {"last", "newKeys"}

\* No job is a record of the same fields.
LEMMA NoJobFields == DOMAIN NoJob = JF /\ NoJob.do = "none"
  BY DEF NoJob, JF

-----------------------------------------------------------------------------
(* The invariant.                                                          *)

Shapes == DOMAIN wallet = WF /\ DOMAIN job = JF /\ DOMAIN data = DF

\* The bundles are a sequence, each under a password the user chose.
Shelf ==
    /\ \E S : bundles \in Seq(S)
    /\ data.last \in 0 .. Len(bundles)
    /\ \A i \in 1 .. Len(bundles) : DOMAIN bundles[i] = BF /\ bundles[i].password \in Passwords

\* Who is known: the account, the session and the wallet manager.
People ==
    /\ known \subseteq Passwords
    /\ user \in known \cup {None}
    /\ walletPw \in known \cup {None}
    /\ session # None => walletPw # None

\* The keystore or, while it is torn, its backup.
Custody ==
    /\ wallet.config => wallet.key # None
    /\ wallet.config => wallet.key \in known \cup {Torn}
    /\ wallet.config => wallet.key \in known \/ backup \in known

\* The keystore has the password the running request gives it.
Rewritten == wallet.config => wallet.key = job.new

Creating == job.do = "wallet" =>
    /\ job.new \in known /\ ~wallet.config
    /\ job.at = "config" => wallet.key = job.new

Updating == job.do = "update" =>
    /\ job.new \in known /\ job.old \in known
    /\ job.at = "keystore" /\ wallet.config => wallet.key \in {job.old, job.new}
    /\ job.at \in {"phrase", "keys", "key"} => Rewritten
    /\ job.at \in {"keys", "key"} => walletPw = job.new

Resetting == job.do = "reset" =>
    /\ job.new \in known
    /\ job.at = "keystore" => wallet.config /\ wallet.key # Torn
    /\ job.at \in {"phrase", "user", "discard", "mint", "made", "store"} => Rewritten
    /\ job.at \in {"user", "discard", "mint", "made", "store"} => walletPw = job.new
    /\ job.at \in {"discard", "mint", "made", "store"} => user = job.new

Completing == job.do = "complete" =>
    /\ job.new \in known /\ session = None /\ walletPw = None /\ data.last # 0
    /\ job.at \in {"user", "copy"} => ~wallet.config
    /\ job.at \in {"account", "keys", "services"} => Rewritten
    /\ job.at \in {"keys", "services"} => user = job.new

\* What makes NeverLocked inductive: where each request that rewrites the files
\* stands, and what it has written until then.
IInv == Shapes /\ Shelf /\ People /\ Custody /\ Creating /\ Updating /\ Resetting /\ Completing

-----------------------------------------------------------------------------
(* The steps of Account.                                                   *)

\* Creation, login, password change, reset, kills: step by step.
LEMMA AccountSteps == IInv /\ AccountNext /\ UNCHANGED recoveryVars => IInv'
<1> SUFFICES ASSUME IInv, AccountNext, UNCHANGED recoveryVars PROVE IInv'
  OBVIOUS
<1> USE DEF disk, memory, history, recoveryVars, Go, Answer
<1>0. DOMAIN job = JF /\ DOMAIN wallet = WF
  BY DEF IInv, Shapes
<1>s. Shelf' /\ DOMAIN data' = DF
  BY DEF IInv, Shapes, Shelf
<1>1. ASSUME NEW p \in Passwords, CreateAccount(p) PROVE IInv'
  <2>1. job.do = "none" /\ job' = job
    BY <1>1  DEF NoJob, JF, At, CreateAccount, Idle
  <2> QED
    BY <1>1, <1>0, <1>s, <2>1 DEF CreateAccount, SetPassword, IInv, Shapes, People, Custody, Rewritten, Creating, Updating, Resetting, Completing
<1>2. ASSUME NEW p \in Passwords, Login(p) PROVE IInv'
  <2>1. job.do = "none" /\ job' = job
    BY <1>2 DEF NoJob, JF, At, Login, Idle
  <2> QED
    BY <1>2, <1>0, <1>s, <2>1 DEF Login, SetPassword, IInv, Shapes, People, Custody, Rewritten, Creating, Updating, Resetting, Completing
<1>3. ASSUME CreateWallet PROVE IInv'
  <2>1. DOMAIN job' = JF /\ job'.do = "wallet" /\ job'.at = "phrase" /\ job'.new = walletPw
    BY <1>3 DEF CreateWallet, NoJob, JF
  <2>2. wallet' = wallet /\ ~wallet.config
    BY <1>3 DEF CreateWallet, IInv, Custody
  <2>3. walletPw \in known
    BY <1>3 DEF CreateWallet, IInv, People
  <2>4. backup' = backup /\ user' = user /\ known' = known /\ session' = session /\ walletPw' = walletPw
    BY <1>3 DEF CreateWallet
  <2> QED
    BY <1>0, <1>s, <2>1, <2>2, <2>3, <2>4 DEF IInv, Shapes, People, Custody, Rewritten, Creating, Updating, Resetting, Completing
<1>4. ASSUME WriteWallet PROVE IInv'
  <2>0. job.do = "wallet" /\ job.new \in known /\ ~wallet.config
    BY <1>4 DEF WriteWallet, IInv, Creating
  <2> USE DEF At
  <2>1. CASE At("wallet", "phrase") /\ wallet' = [wallet EXCEPT !.phrase = job.new] /\ Go("keystore")
    <3>1. DOMAIN wallet' = WF /\ ~wallet'.config
      BY <2>0, <2>1, <1>0 DEF WF
    <3>2. DOMAIN job' = JF /\ job'.do = "wallet" /\ job'.at = "keystore" /\ job'.new = job.new
      BY <2>0, <2>1, <1>0 DEF JF
    <3> QED
      BY <1>4, <1>s, <2>0, <3>1, <3>2 DEF WriteWallet, IInv, Shapes, People, Custody, Rewritten, Creating, Updating, Resetting, Completing
  <2>2. CASE At("wallet", "keystore") /\ wallet' = [wallet EXCEPT !.key = Torn] /\ Go("written")
    <3>1. DOMAIN wallet' = WF /\ ~wallet'.config
      BY <2>0, <2>2, <1>0 DEF WF
    <3>2. DOMAIN job' = JF /\ job'.do = "wallet" /\ job'.at = "written" /\ job'.new = job.new
      BY <2>0, <2>2, <1>0 DEF JF
    <3> QED
      BY <1>4, <1>s, <2>0, <3>1, <3>2 DEF WriteWallet, IInv, Shapes, People, Custody, Rewritten, Creating, Updating, Resetting, Completing
  <2>3. CASE At("wallet", "written") /\ wallet' = [wallet EXCEPT !.key = job.new] /\ Go("config")
    <3>1. DOMAIN wallet' = WF /\ ~wallet'.config /\ wallet'.key = job.new
      BY <2>0, <2>3, <1>0 DEF WF
    <3>2. DOMAIN job' = JF /\ job'.do = "wallet" /\ job'.new = job.new
      BY <2>0, <2>3, <1>0 DEF JF
    <3> QED
      BY <1>4, <1>s, <2>0, <3>1, <3>2 DEF WriteWallet, IInv, Shapes, People, Custody, Rewritten, Creating, Updating, Resetting, Completing
  <2>4. CASE At("wallet", "config") /\ wallet' = [wallet EXCEPT !.config = TRUE] /\ job' = NoJob
    <3>1. DOMAIN wallet' = WF /\ wallet'.key = job.new
      BY <2>0, <2>4, <1>0 DEF WF, At, IInv, Creating
    <3>2. DOMAIN job' = JF /\ job'.do = "none"
      BY <2>4 DEF NoJob, JF
    <3>3. job.new # None
      BY <2>0, PasswordsAssumption DEF IInv, People
    <3> QED
      BY <1>4, <1>s, <2>0, <3>1, <3>2, <3>3 DEF WriteWallet, IInv, Shapes, People, Custody, Rewritten, Creating, Updating, Resetting, Completing
  <2> QED
    BY <1>4, <2>1, <2>2, <2>3, <2>4 DEF WriteWallet
<1>5. ASSUME NEW s \in Services, CreateService(s) PROVE IInv'
  <2>1. DOMAIN job' = JF /\ job'.do = "service"
    BY <1>5 DEF CreateService, NoJob, JF
  <2> QED
    BY <1>5, <1>0, <1>s, <2>1 DEF CreateService, IInv, Shapes, People, Custody, Rewritten, Creating, Updating, Resetting, Completing
<1>6. ASSUME FillService PROVE IInv'
  <2>1. job.do = "service" /\ (job' = NoJob \/ job' = [job EXCEPT !.at = "written"] \/ job' = [job EXCEPT !.at = "store"])
    BY <1>6 DEF FillService
  <2>2. job' = NoJob => DOMAIN job' = JF /\ job'.do = "none"
    BY NoJobFields
  <2>3. job' = [job EXCEPT !.at = "written"] => DOMAIN job' = JF /\ job'.do = "service"
    BY <1>0, <2>1 DEF JF
  <2>4. job' = [job EXCEPT !.at = "store"] => DOMAIN job' = JF /\ job'.do = "service"
    BY <1>0, <2>1 DEF JF
  <2>5. DOMAIN job' = JF /\ job'.do \in {"none", "service"}
    BY <2>1, <2>2, <2>3, <2>4
  <2> QED
    BY <1>6, <1>0, <1>s, <2>1, <2>2, <2>3, <2>4, <2>5 DEF FillService, Mint, IInv, Shapes, People, Custody, Rewritten, Creating, Updating, Resetting, Completing
<1>7. ASSUME NEW p \in Passwords, NEW q \in Passwords, Update(p, q) PROVE IInv'
  <2>1. DOMAIN job' = JF /\ job'.do = "update" /\ job'.at = "keystore" /\ job'.old = p /\ job'.new = q
    BY <1>7 DEF Update, NoJob, JF
  <2>2. wallet' = wallet /\ known' = known \cup {q} /\ user = p /\ p # None
    BY <1>7, PasswordsAssumption DEF Update, Accepts
  <2>3. wallet.config => wallet.key \in {p, q}
    BY <1>7 DEF Update, Accepts, Opens, Exists, IInv, Custody
  <2> QED
    BY <1>7, <1>0, <1>s, <2>1, <2>2, <2>3 DEF Update, Begun, IInv, Shapes, People, Custody, Rewritten, Creating, Updating, Resetting, Completing
<1>8. ASSUME UpdateWallet PROVE IInv'
  <2>0. job.do = "update" /\ job.new \in known /\ job.old \in known
    BY <1>8 DEF UpdateWallet, Keystore, Reencrypt, At, IInv, Updating
  <2>1. job.new # None /\ Torn # None
    BY <2>0, PasswordsAssumption DEF IInv, People
  <2>a. user' = user /\ known' = known /\ session' = session
    BY <1>8 DEF UpdateWallet
  <2>b. walletPw' = IF job'.at = "keys" THEN job.new ELSE walletPw
    BY <1>8 DEF UpdateWallet
  <2>c. session # None => job.new # None /\ walletPw # None
    BY <2>1 DEF IInv, People
  <2> USE DEF At
  <2>2. CASE Keystore
    <3>1. CASE ~Exists
      <4>1. DOMAIN job' = JF /\ job'.do = "update" /\ job'.at = "keys" /\ job'.new = job.new /\ job'.old = job.old
        BY <2>0, <2>2, <3>1, <1>0 DEF NoJob, JF, At, Keystore
      <4>2. wallet' = wallet /\ backup' = backup /\ ~wallet.config
        BY <2>2, <3>1 DEF Keystore, Exists, IInv, Custody
      <4> QED
        BY <1>0, <1>s, <2>a, <2>b, <2>c, <2>0, <4>1, <4>2 DEF IInv, Shapes, People, Custody, Rewritten, Creating, Updating, Resetting, Completing
    <3>2. CASE Exists /\ wallet.key = job.new
      <4>1. DOMAIN job' = JF /\ job'.do = "update" /\ job'.at = "phrase" /\ job'.new = job.new /\ job'.old = job.old
        BY <2>0, <2>2, <3>2, <1>0 DEF NoJob, JF, At, Keystore
      <4>2. wallet' = wallet /\ backup' = backup
        BY <2>2, <3>2 DEF Keystore
      <4> QED
        BY <1>8, <1>0, <1>s, <2>0, <3>2, <4>1, <4>2 DEF UpdateWallet, IInv, Shapes, People, Custody, Rewritten, Creating, Updating, Resetting, Completing
    <3>3. CASE Exists /\ wallet.key # job.new
      <4>1. DOMAIN job' = JF /\ job'.do = "update" /\ job'.at = "written" /\ job'.new = job.new /\ job'.old = job.old
        BY <2>0, <2>2, <3>3, <1>0 DEF NoJob, JF, At, Keystore
      <4>2. DOMAIN wallet' = WF /\ wallet'.key = Torn /\ wallet'.config = wallet.config /\ backup' = wallet.key
        BY <2>2, <3>3, <1>0 DEF WF, At, Keystore
      <4>3. wallet.key = job.old
        BY <2>2, <2>0, <3>3 DEF Keystore, Exists, IInv, Updating
      <4> QED
        BY <1>8, <1>s, <2>0, <2>1, <3>3, <4>1, <4>2, <4>3 DEF UpdateWallet, IInv, Shapes, People, Custody, Rewritten, Creating, Updating, Resetting, Completing
    <3> QED
      BY <3>1, <3>2, <3>3
  <2>3. CASE Reencrypt
    <3>1. DOMAIN job' = JF /\ job'.do = "update" /\ job'.at = "keys" /\ job'.new = job.new /\ job'.old = job.old
      BY <2>0, <2>3, <1>0 DEF NoJob, JF, At, Reencrypt
    <3>2. DOMAIN wallet' = WF /\ wallet'.key = wallet.key /\ wallet'.config = wallet.config /\ backup' = backup
      BY <2>3, <1>0 DEF WF, At, Reencrypt
    <3>3. Rewritten
      BY <2>3, <2>0 DEF Reencrypt, IInv, Updating
    <3> QED
      BY <1>0, <1>s, <2>a, <2>b, <2>c, <2>0, <3>1, <3>2, <3>3 DEF IInv, Shapes, People, Custody, Rewritten, Creating, Updating, Resetting, Completing
  <2>4. CASE At("update", "written") /\ Go("phrase") /\ wallet' = [wallet EXCEPT !.key = job.new] /\ UNCHANGED backup
    <3>1. DOMAIN job' = JF /\ job'.do = "update" /\ job'.at = "phrase" /\ job'.new = job.new /\ job'.old = job.old
      BY <2>0, <2>4, <1>0 DEF JF
    <3>2. DOMAIN wallet' = WF /\ wallet'.key = job.new /\ wallet'.config = wallet.config
      BY <2>4, <1>0 DEF WF
    <3> QED
      BY <1>8, <1>s, <2>0, <2>1, <3>1, <3>2 DEF UpdateWallet, IInv, Shapes, People, Custody, Rewritten, Creating, Updating, Resetting, Completing
  <2> QED
    BY <1>8, <2>2, <2>3, <2>4 DEF UpdateWallet
<1>9. ASSUME ListKeys PROVE IInv'
  <2>1. DOMAIN job' = JF /\ job.do = "update" /\ job.at = "keys" /\ job'.do = "update" /\ job'.at = "key" /\ job'.new = job.new /\ job'.old = job.old
    BY <1>9, <1>0 DEF NoJob, JF, At, ListKeys, At
  <2>2. wallet' = wallet
    BY <1>9 DEF ListKeys
  <2> QED
    BY <1>9, <1>0, <1>s, <2>1, <2>2 DEF ListKeys, IInv, Shapes, People, Custody, Rewritten, Creating, Updating, Resetting, Completing
<1>10. ASSUME UpdateKey PROVE IInv'
  <2>1. job.do = "update" /\ job.at = "key"
    BY <1>10 DEF UpdateKey, At
  <2>2. wallet' = wallet /\ user' = user /\ backup' = backup /\ known' = known /\ session' = session /\ walletPw' = walletPw
    BY <1>10 DEF UpdateKey
  <2>3. PICK a \in job.left :
           IF keys[a] = Torn THEN Answer("broken")
           ELSE /\ job' = [job EXCEPT !.left = @ \ {a},
                                      !.broken = @ \/ keys[a] \notin {job.old, job.new}]
                /\ UNCHANGED answer
    BY <1>10 DEF UpdateKey
  <2>4. CASE keys[a] = Torn
    <3>0. job' = NoJob
      BY <2>3, <2>4
    <3>1. DOMAIN job' = JF /\ job'.do = "none"
      BY <3>0 DEF NoJob, JF
    <3> QED
      BY <1>0, <1>s, <2>1, <2>2, <3>1 DEF IInv, Shapes, People, Custody, Rewritten, Creating, Updating, Resetting, Completing
  <2>5. CASE keys[a] # Torn
    <3>1. DOMAIN job' = JF /\ job'.do = "update" /\ job'.at = "key" /\ job'.new = job.new /\ job'.old = job.old
      BY <1>0, <2>1, <2>3, <2>5 DEF JF
    <3> QED
      BY <1>0, <1>s, <2>1, <2>2, <3>1 DEF IInv, Shapes, People, Custody, Rewritten, Creating, Updating, Resetting, Completing
  <2> QED
    BY <2>4, <2>5
<1>11. ASSUME UpdateUser PROVE IInv'
  <2>1. job.do = "update" /\ job.at = "key" /\ job.new \in known /\ walletPw = job.new
    BY <1>11 DEF UpdateUser, At, IInv, Updating
  <2>2. wallet.config => wallet.key = job.new
    BY <2>1 DEF IInv, Updating, Rewritten
  <2>3. wallet' = wallet /\ backup' = backup /\ walletPw' = walletPw /\ session' = session
    BY <1>11 DEF UpdateUser
  <2>4. CASE job.broken
    <3>1. job' = NoJob /\ user' = user /\ known' = known
      BY <1>11, <2>4 DEF UpdateUser
    <3>2. DOMAIN job' = JF /\ job'.do = "none"
      BY <3>1 DEF NoJob, JF
    <3> QED
      BY <1>0, <1>s, <2>3, <3>1, <3>2 DEF IInv, Shapes, People, Custody, Rewritten, Creating, Updating, Resetting, Completing
  <2>5. CASE ~job.broken
    <3>1. job' = NoJob /\ user' = job.new /\ known' = {job.new}
      BY <1>11, <2>5 DEF UpdateUser
    <3>2. DOMAIN job' = JF /\ job'.do = "none"
      BY <3>1 DEF NoJob, JF
    <3> QED
      BY <1>0, <1>s, <2>1, <2>2, <2>3, <3>1, <3>2 DEF IInv, Shapes, People, Custody, Rewritten, Creating, Updating, Resetting, Completing
  <2> QED
    BY <2>4, <2>5
<1>12. ASSUME NEW p \in Passwords, Reset(p) PROVE IInv'
  <2>1. DOMAIN job' = JF /\ job'.do = "reset" /\ job'.new = p
    BY <1>12 DEF Reset, NoJob, JF
  <2>2. wallet' = wallet /\ backup' = backup /\ known' = known \cup {p} /\ user' = user /\ session' = session
    BY <1>12 DEF Reset
  <2>3. Exists <=> wallet.config
    BY DEF Exists, IInv, Custody
  <2>4. p # None
    BY PasswordsAssumption
  <2>5. CASE Exists
    <3>1. job'.at = "keystore" /\ walletPw' = walletPw /\ wallet.key # Torn
      BY <1>12, <2>5 DEF Reset, NoJob, PhraseFits
    <3> QED
      BY <1>0, <1>s, <2>1, <2>2, <2>3, <2>4, <2>5, <3>1 DEF IInv, Shapes, People, Custody, Rewritten, Creating, Updating, Resetting, Completing
  <2>6. CASE ~Exists
    <3>1. job'.at = "user" /\ walletPw' = p
      BY <1>12, <2>6 DEF Reset, NoJob
    <3> QED
      BY <1>0, <1>s, <2>1, <2>2, <2>3, <2>4, <2>6, <3>1 DEF IInv, Shapes, People, Custody, Rewritten, Creating, Updating, Resetting, Completing
  <2> QED
    BY <2>5, <2>6
<1>13. ASSUME ResetWallet PROVE IInv'
  <2>0. job.do = "reset" /\ job.new \in known
    BY <1>13 DEF ResetWallet, IInv, Resetting
  <2>1. job.new # None /\ Torn # None
    BY <2>0, PasswordsAssumption DEF IInv, People
  <2> USE DEF At
  <2>2. CASE job.at = "keystore"
    <3>1. DOMAIN job' = JF /\ job'.do = "reset" /\ job'.at = "written" /\ job'.new = job.new
      BY <1>13, <2>0, <2>2, <1>0 DEF NoJob, JF, At, ResetWallet
    <3>2. DOMAIN wallet' = WF /\ wallet'.key = Torn /\ wallet'.config = wallet.config
      BY <1>13, <2>2, <1>0 DEF WF, At, ResetWallet
    <3>3. backup' = wallet.key /\ wallet.key \in known
      BY <1>13, <2>0, <2>2 DEF ResetWallet, IInv, Resetting, Custody
    <3>4. user' = user /\ walletPw' = walletPw
      BY <1>13, <2>2 DEF ResetWallet
    <3> QED
      BY <1>13, <1>s, <2>0, <2>1, <3>1, <3>2, <3>3, <3>4 DEF ResetWallet, IInv, Shapes, People, Custody, Rewritten, Creating, Updating, Resetting, Completing
  <2>3. CASE job.at = "written"
    <3>1. DOMAIN job' = JF /\ job'.do = "reset" /\ job'.at = "phrase" /\ job'.new = job.new
      BY <1>13, <2>0, <2>3, <1>0 DEF NoJob, JF, At, ResetWallet
    <3>2. DOMAIN wallet' = WF /\ wallet'.key = job.new /\ wallet'.config = wallet.config
      BY <1>13, <2>3, <1>0 DEF WF, At, ResetWallet
    <3>3. user' = user /\ walletPw' = walletPw /\ backup' = backup
      BY <1>13, <2>3 DEF ResetWallet
    <3> QED
      BY <1>13, <1>s, <2>0, <2>1, <3>1, <3>2, <3>3 DEF ResetWallet, IInv, Shapes, People, Custody, Rewritten, Creating, Updating, Resetting, Completing
  <2>4. CASE job.at = "phrase"
    <3>1. DOMAIN job' = JF /\ job'.do = "reset" /\ job'.at = "user" /\ job'.new = job.new
      BY <1>13, <2>0, <2>4, <1>0 DEF NoJob, JF, At, ResetWallet
    <3>2. DOMAIN wallet' = WF /\ wallet'.key = wallet.key /\ wallet'.config = wallet.config
      BY <1>13, <2>4, <1>0 DEF WF, At, ResetWallet
    <3>3. user' = user /\ walletPw' = job.new /\ backup' = backup
      BY <1>13, <2>4 DEF ResetWallet
    <3> QED
      BY <1>13, <1>s, <2>0, <2>1, <2>4, <3>1, <3>2, <3>3 DEF ResetWallet, IInv, Shapes, People, Custody, Rewritten, Creating, Updating, Resetting, Completing
  <2>5. CASE job.at = "user"
    <3>1. DOMAIN job' = JF /\ job'.do = "reset" /\ job'.at = "discard" /\ job'.new = job.new
      BY <1>13, <2>0, <2>5, <1>0 DEF NoJob, JF, At, ResetWallet
    <3>2. wallet' = wallet /\ user' = job.new /\ walletPw' = walletPw /\ backup' = backup
      BY <1>13, <2>5 DEF ResetWallet
    <3> QED
      BY <1>13, <1>0, <1>s, <2>0, <2>5, <3>1, <3>2 DEF ResetWallet, IInv, Shapes, People, Custody, Rewritten, Creating, Updating, Resetting, Completing
  <2> QED
    BY <1>13, <2>2, <2>3, <2>4, <2>5 DEF ResetWallet
<1>14. ASSUME Discard PROVE IInv'
  <2>1. job.do = "reset" /\ job.at \in {"discard", "mint", "made", "store"}
    BY <1>14 DEF Discard, At
  <2>2. wallet' = wallet /\ backup' = backup /\ user' = user /\ walletPw' = walletPw /\ session' = session
    BY <1>14 DEF Discard
  <2>3. DOMAIN job' = JF /\ (job'.do = "none" \/ (job'.do = "reset" /\ job'.at \in {"discard", "mint", "made", "store"} /\ job'.new = job.new))
    BY <1>14, <1>0, <2>1 DEF NoJob, JF, At, Discard
  <2> QED
    BY <1>14, <1>0, <1>s, <2>1, <2>2, <2>3 DEF Discard, IInv, Shapes, People, Custody, Rewritten, Creating, Updating, Resetting, Completing
<1>15. ASSUME Rotate PROVE IInv'
  <2>1. job.do = "reset" /\ job.at = "discard"
    BY <1>15 DEF Rotate, At
  <2>2. wallet' = wallet /\ backup' = backup /\ user' = user /\ known' = known /\ walletPw' = walletPw /\ session' = session
    BY <1>15 DEF Rotate
  <2>3. CASE job.broken
    <3>0. job' = NoJob
      BY <1>15, <2>3 DEF Rotate
    <3>1. DOMAIN job' = JF /\ job'.do = "none"
      BY <3>0 DEF NoJob, JF
    <3> QED
      BY <1>0, <1>s, <2>2, <3>1 DEF IInv, Shapes, People, Custody, Rewritten, Creating, Updating, Resetting, Completing
  <2>4. CASE ~job.broken
    <3>1. job' = [job EXCEPT !.at = "mint", !.left = {s \in DOMAIN services : services[s] # {}}]
      BY <1>15, <2>4 DEF Rotate
    <3>2. DOMAIN job' = JF /\ job'.do = "reset" /\ job'.at = "mint" /\ job'.new = job.new
      BY <1>0, <2>1, <3>1 DEF JF
    <3> QED
      BY <1>0, <1>s, <2>1, <2>2, <3>2 DEF IInv, Shapes, People, Custody, Rewritten, Creating, Updating, Resetting, Completing
  <2> QED
    BY <2>3, <2>4
<1>16. ASSUME Replace PROVE IInv'
  <2>1. job.do = "reset" /\ job.at \in {"discard", "mint", "made", "store"}
    BY <1>16 DEF Replace, At
  <2>2. wallet' = wallet /\ backup' = backup /\ user' = user /\ walletPw' = walletPw /\ session' = session
    BY <1>16 DEF Replace
  <2>3. DOMAIN job' = JF /\ (job'.do = "none" \/ (job'.do = "reset" /\ job'.at \in {"discard", "mint", "made", "store"} /\ job'.new = job.new))
    BY <1>16, <1>0, <2>1 DEF NoJob, JF, At, Replace
  <2> QED
    BY <1>16, <1>0, <1>s, <2>1, <2>2, <2>3 DEF Replace, IInv, Shapes, People, Custody, Rewritten, Creating, Updating, Resetting, Completing
<1>17. ASSUME ResetDone PROVE IInv'
  <2>1. job.do = "reset" /\ job.at = "mint"
    BY <1>17 DEF ResetDone, At
  <2>2. wallet' = wallet /\ backup' = backup /\ user' = user /\ known' = {job.new} /\ walletPw' = walletPw /\ session' = session
    BY <1>17 DEF ResetDone
  <2>3. DOMAIN job' = JF /\ job'.do = "none"
    BY <1>17 DEF ResetDone, NoJob, JF
  <2> QED
    BY <1>0, <1>s, <2>1, <2>2, <2>3 DEF IInv, Shapes, People, Custody, Rewritten, Creating, Updating, Resetting, Completing
<1>18. ASSUME Restart PROVE IInv'
  <2>1. DOMAIN job' = JF /\ job'.do = "none"
    BY <1>18 DEF NoJob, JF, At, Restart
  <2>2. wallet' = wallet /\ backup' = backup /\ user' = user /\ known' = known /\ session' = None /\ walletPw' = None
    BY <1>18 DEF Restart, SetPassword
  <2> QED
    BY <1>18, <1>0, <1>s, <2>1, <2>2 DEF Restart, IInv, Shapes, People, Custody, Rewritten, Creating, Updating, Resetting, Completing
<1> QED
  BY <1>1, <1>2, <1>3, <1>4, <1>5, <1>6, <1>7, <1>8, <1>9, <1>10, <1>11, <1>12, <1>13, <1>14, <1>15, <1>16, <1>17, <1>18 DEF AccountNext, Running

-----------------------------------------------------------------------------
(* The steps of the Safes and of the recovery.                             *)

\* The shelf does not move by itself.
LEMMA ShelfSame ==
    Shelf /\ DOMAIN data = DF /\ UNCHANGED <<bundles, data>> => Shelf' /\ DOMAIN data' = DF
  BY DEF Shelf

\* A job of the Safes, or none, disturbs nothing of the account.
LEMMA QuietStep ==
    ASSUME IInv, Shelf', DOMAIN data' = DF,
           DOMAIN job' = JF, job'.do \in {"none", "safe", "all"},
           DOMAIN wallet' = WF, wallet'.key = wallet.key, wallet'.config = wallet.config,
           UNCHANGED <<backup, user, known, session, walletPw>>
    PROVE  IInv'
  BY DEF IInv, Shapes, People, Custody, Creating, Updating, Resetting, Completing

\* prepare_recovery puts a bundle with a password of the user on the shelf.
LEMMA NewBundleShelf ==
    ASSUME IInv, NEW p \in Passwords, NewBundle(p)
    PROVE  Shelf' /\ DOMAIN data' = DF
<1>1. PICK S : bundles \in Seq(S)
  BY DEF IInv, Shelf
<1> DEFINE agents == UNION {services[s] : s \in DOMAIN services}
           fresh == CHOOSE f \in [agents -> minted + 1 .. minted + Cardinality(agents)] :
                       \A a, b \in agents : a # b => f[a] # f[b]
           b == [password |-> p, wallet |-> Exists, keys |-> {fresh[a] : a \in agents},
                 safes |-> {}, old |-> FALSE]
<1>2. bundles' = Append(bundles, b) /\ DOMAIN b = BF /\ b.password = p
  <2>1. bundles' = Append(bundles, b)
    BY Zenon DEF NewBundle
  <2>2. DOMAIN b = BF /\ b.password = p
    <3> HIDE DEF fresh
    <3> QED
      BY DEF BF
  <2> QED
    BY <2>1, <2>2
<1>3. DOMAIN data' = DF /\ data'.last = Len(bundles) + 1
  BY DEF NewBundle, DF
<1> DEFINE T == S \cup {b}
<1> HIDE DEF b
<1>4. bundles \in Seq(T) /\ b \in T
  BY <1>1, SeqDef
<1>5. /\ bundles' \in Seq(T) /\ Len(bundles') = Len(bundles) + 1
      /\ \A i \in 1 .. Len(bundles) : bundles'[i] = bundles[i]
      /\ bundles'[Len(bundles) + 1] = b
  <2> HIDE DEF T, b
  <2> QED
    BY <1>2, <1>4, AppendProperties
<1>6. Len(bundles) \in Nat
  BY <1>1
<1>7. ASSUME NEW i \in 1 .. Len(bundles') PROVE DOMAIN bundles'[i] = BF /\ bundles'[i].password \in Passwords
  <2>1. CASE i = Len(bundles) + 1
    BY <1>2, <1>5, <2>1
  <2>2. CASE i # Len(bundles) + 1
    <3>1. i \in 1 .. Len(bundles)
      BY <1>5, <1>6, <2>2
    <3> QED
      BY <1>5, <3>1 DEF IInv, Shelf
  <2> QED
    BY <2>1, <2>2
<1> QED
  BY <1>3, <1>5, <1>6, <1>7 DEF Shelf

\* complete_recovery finds such a bundle and moves the old wallet into it.
LEMMA CompleteLast ==
    ASSUME IInv, NEW strict \in BOOLEAN, Complete(strict)
    PROVE  /\ data' = data /\ data.last \in 1 .. Len(bundles)
           /\ Len(bundles') = Len(bundles) /\ \E S : bundles' \in Seq(S)
           /\ \A i \in 1 .. Len(bundles) : i # data.last => bundles'[i] = bundles[i]
           /\ DOMAIN Last = BF /\ Last.password \in Passwords
           /\ Last' = [Last EXCEPT !.old = TRUE, !.safes = Safes]
<1>1. PICK S : bundles \in Seq(S)
  BY DEF IInv, Shelf
<1>2. Len(bundles) \in Nat /\ DOMAIN bundles = 1 .. Len(bundles)
  BY <1>1
<1>3. data' = data /\ data.last # 0 /\ data.last \in 0 .. Len(bundles)
  BY DEF Complete, IInv, Shelf
<1>4. data.last \in 1 .. Len(bundles)
  BY <1>2, <1>3
<1> DEFINE d == data.last
           b == [bundles[d] EXCEPT !.old = TRUE, !.safes = Safes]
           T == S \cup {b}
<1>5. bundles' = [bundles EXCEPT ![d] = b]
  BY <1>2, <1>4 DEF Complete
<1>6. DOMAIN bundles[d] = BF /\ bundles[d].password \in Passwords
  BY <1>4 DEF IInv, Shelf
<1>7. bundles \in Seq(T) /\ b \in T
  BY <1>1, SeqDef
<1>8. /\ bundles' \in Seq(T) /\ Len(bundles') = Len(bundles)
      /\ \A i \in 1 .. Len(bundles) : bundles'[i] = IF i = d THEN b ELSE bundles[i]
  <2> HIDE DEF T, b
  <2> QED
    BY <1>4, <1>5, <1>7, ExceptSeq
<1> QED
  BY <1>3, <1>4, <1>6, <1>8 DEF Last

LEMMA CompleteShelf ==
    ASSUME IInv, NEW strict \in BOOLEAN, Complete(strict)
    PROVE  Shelf' /\ DOMAIN data' = DF /\ Last.password \in Passwords
<1>1. /\ data' = data /\ data.last \in 1 .. Len(bundles)
      /\ Len(bundles') = Len(bundles) /\ \E S : bundles' \in Seq(S)
      /\ \A i \in 1 .. Len(bundles) : i # data.last => bundles'[i] = bundles[i]
      /\ DOMAIN Last = BF /\ Last.password \in Passwords
      /\ Last' = [Last EXCEPT !.old = TRUE, !.safes = Safes]
  BY CompleteLast
<1>2. DOMAIN Last' = BF /\ Last'.password = Last.password
  BY <1>1 DEF BF
<1>3. Last = bundles[data.last] /\ Last' = bundles'[data.last]
  BY <1>1 DEF Last
<1>4. \A i \in 1 .. Len(bundles) : DOMAIN bundles'[i] = BF /\ bundles'[i].password \in Passwords
  BY <1>1, <1>2, <1>3 DEF IInv, Shelf
<1> QED
  BY <1>1, <1>4 DEF Shelf, IInv, Shapes

\* All steps.
LEMMA RecoverySteps == IInv /\ [Next]_allVars => IInv'
<1> SUFFICES ASSUME IInv, [Next]_allVars PROVE IInv'
  OBVIOUS
<1> USE DEF disk, memory, history, recoveryVars, Go, Answer
<1>0. DOMAIN job = JF /\ DOMAIN wallet = WF /\ DOMAIN data = DF /\ Shelf
  BY DEF IInv, Shapes
<1>1. CASE AccountNext /\ UNCHANGED recoveryVars
  BY <1>1, AccountSteps
<1>2. ASSUME NEW p \in Passwords, Prepare(p) PROVE IInv'
  <2>1. Shelf' /\ DOMAIN data' = DF
    BY <1>2, NewBundleShelf DEF Prepare
  <2>2. job' = job /\ job.do = "none"
    BY <1>2 DEF Prepare, Idle, NoJob
  <2>3. UNCHANGED <<wallet, backup, user, known, session, walletPw>>
    BY <1>2 DEF Prepare
  <2> QED
    BY <1>0, <2>1, <2>2, <2>3, QuietStep
<1>3. ASSUME NEW c \in Chains, NEW backup_owner \in BOOLEAN, CreateSafe(c, backup_owner) PROVE IInv'
  <2>1. DOMAIN job' = JF /\ job'.do = "safe"
    BY <1>3 DEF CreateSafe, NoJob, JF
  <2>2. UNCHANGED <<wallet, backup, user, known, session, walletPw, bundles, data>>
    BY <1>3 DEF CreateSafe
  <2> QED
    BY <1>0, <2>1, <2>2, ShelfSame, QuietStep
<1>4. ASSUME NEW c \in Chains, NEW backup_owner \in BOOLEAN, UpdateSafe(c, backup_owner) PROVE IInv'
  <2>1. job' = job /\ job.do = "none"
    BY <1>4 DEF UpdateSafe, CanSign, Idle, NoJob
  <2>2. UNCHANGED <<wallet, backup, user, known, session, walletPw, bundles, data>>
    BY <1>4 DEF UpdateSafe
  <2> QED
    BY <1>0, <2>1, <2>2, ShelfSame, QuietStep
<1>5. ASSUME NEW sync \in BOOLEAN, UpdateAll(sync) PROVE IInv'
  <2>1. DOMAIN job' = JF /\ job'.do = "all"
    BY <1>5 DEF UpdateAll, NoJob, JF
  <2>2. UNCHANGED <<wallet, backup, user, known, session, walletPw, bundles, data>>
    BY <1>5 DEF UpdateAll
  <2> QED
    BY <1>0, <2>1, <2>2, ShelfSame, QuietStep
<1>6. CASE MakeSafe
  <2>1. UNCHANGED <<backup, user, known, session, walletPw, bundles, data>> /\ job.do = "safe"
    BY <1>6 DEF MakeSafe
  <2>2. PICK c \in job.left :
           \/ /\ job' = [job EXCEPT !.at = "owner"]
              /\ wallet' = [wallet EXCEPT !.safes = @ \cup {c}]
           \/ job' = NoJob /\ wallet' = wallet
    BY <1>6 DEF MakeSafe
  <2>3. CASE job' = NoJob /\ wallet' = wallet
    BY <1>0, <2>1, <2>3, NoJobFields, ShelfSame, QuietStep
  <2>4. CASE job' = [job EXCEPT !.at = "owner"] /\ wallet' = [wallet EXCEPT !.safes = @ \cup {c}]
    <3>1. DOMAIN job' = JF /\ job'.do = "safe"
      BY <1>0, <2>1, <2>4 DEF JF
    <3>2. DOMAIN wallet' = WF /\ wallet'.key = wallet.key /\ wallet'.config = wallet.config
      BY <1>0, <2>4 DEF WF
    <3> QED
      BY <1>0, <2>1, <3>1, <3>2, ShelfSame, QuietStep
  <2> QED
    BY <2>2, <2>3, <2>4
<1>7. CASE UpdateEach
  <2>1. UNCHANGED <<wallet, backup, user, known, session, walletPw, bundles, data>> /\ job.do = "all"
    BY <1>7 DEF UpdateEach
  <2>2. (\E c \in job.left : job' = [job EXCEPT !.left = @ \ {c}]) \/ job' = NoJob
    BY <1>7 DEF UpdateEach
  <2>3. DOMAIN job' = JF /\ job'.do \in {"all", "none"}
    <3>1. CASE job' = NoJob
      BY <3>1, NoJobFields
    <3>2. ASSUME NEW c \in job.left, job' = [job EXCEPT !.left = @ \ {c}]
          PROVE  DOMAIN job' = JF /\ job'.do = "all"
      BY <1>0, <2>1, <3>2 DEF JF
    <3> QED
      BY <2>2, <3>1, <3>2
  <2> QED
    BY <1>0, <2>1, <2>3, ShelfSame, QuietStep
<1>8. ASSUME NEW c \in Chains, Sign(c) \/ Mine(c) PROVE IInv'
  <2>1. UNCHANGED <<vars, bundles, data>>
    BY <1>8 DEF Sign, Mine
  <2> QED
    BY <1>0, <2>1, ShelfSame DEF vars, IInv, Shapes, People, Custody, Rewritten, Creating, Updating, Resetting, Completing
<1>9. ASSUME NEW strict \in BOOLEAN, Complete(strict) PROVE IInv'
  <2>1. Shelf' /\ DOMAIN data' = DF /\ Last.password \in Passwords
    BY <1>9, CompleteShelf
  <2>2. DOMAIN job' = JF /\ job'.do = "complete" /\ job'.at = "wallets" /\ job'.new = Last.password
    BY <1>9 DEF Complete, NoJob, JF
  <2>3. /\ UNCHANGED <<wallet, backup, user, session, walletPw>>
        /\ known' = known \cup {Last.password}
        /\ session = None /\ walletPw = None
        /\ data' = data /\ data.last # 0
    BY <1>9 DEF Complete, LoggedOut
  <2> QED
    BY <1>0, <2>1, <2>2, <2>3 DEF IInv, Shapes, People, Custody, Rewritten, Creating, Updating, Resetting, Completing
<1>10. CASE MoveOld
  <2>1. UNCHANGED <<known, session, walletPw, bundles, data>> /\ job.do = "complete"
    BY <1>10 DEF MoveOld, At
  <2>2. CASE job.at = "wallets"
    <3>1. DOMAIN job' = JF /\ job'.do = "complete" /\ job'.at = "user" /\ job'.new = job.new
      BY <1>0, <1>10, <2>1, <2>2 DEF MoveOld, At, JF
    <3>2. DOMAIN wallet' = WF /\ ~wallet'.config /\ user' = user
      BY <1>10, <2>2 DEF MoveOld, At, NoWallet, WF
    <3> QED
      BY <1>0, <2>1, <3>1, <3>2, ShelfSame DEF IInv, Shapes, People, Custody, Rewritten, Creating, Updating, Resetting, Completing
  <2>3. CASE job.at = "user"
    <3>1. DOMAIN job' = JF /\ job'.do = "complete" /\ job'.at = "copy" /\ job'.new = job.new
      BY <1>0, <1>10, <2>1, <2>3 DEF MoveOld, At, JF
    <3>2. UNCHANGED <<wallet, backup>> /\ user' = None
      BY <1>10, <2>3 DEF MoveOld, At
    <3> QED
      BY <1>0, <2>1, <2>3, <3>1, <3>2, ShelfSame DEF IInv, Shapes, People, Custody, Rewritten, Creating, Updating, Resetting, Completing
  <2> QED
    BY <1>10, <2>2, <2>3 DEF MoveOld, At
<1>11. CASE CopyNew
  <2>1. UNCHANGED <<backup, known, session, walletPw, bundles, data>> /\ job.do = "complete"
    BY <1>11 DEF CopyNew, At
  <2>2. CASE job.at = "copy"
    <3>1. DOMAIN job' = JF /\ job'.do = "complete" /\ job'.at = "account" /\ job'.new = job.new
      BY <1>0, <1>11, <2>1, <2>2 DEF CopyNew, At, JF
    <3>2. user' = user /\ ~wallet.config
      BY <1>11, <2>1, <2>2 DEF CopyNew, At, IInv, Completing
    <3>3. DOMAIN wallet' = WF /\ (wallet'.config => wallet'.key = job.new)
      <4>1. CASE Last.wallet
        BY <1>11, <2>2, <4>1 DEF CopyNew, At, WF
      <4>2. CASE ~Last.wallet
        BY <1>0, <1>11, <2>2, <3>2, <4>2 DEF CopyNew, At
      <4> QED
        BY <4>1, <4>2
    <3>4. job.new # None /\ job.new \in known
      BY <2>1, PasswordsAssumption DEF IInv, People, Completing
    <3> QED
      BY <1>0, <2>1, <3>1, <3>2, <3>3, <3>4, ShelfSame DEF IInv, Shapes, People, Custody, Rewritten, Creating, Updating, Resetting, Completing
  <2>3. CASE job.at = "account"
    <3>1. DOMAIN job' = JF /\ job'.do = "complete" /\ job'.at = "keys" /\ job'.new = job.new
      BY <1>0, <1>11, <2>1, <2>3 DEF CopyNew, At, JF
    <3>2. wallet' = wallet /\ user' = job.new
      BY <1>11, <2>3 DEF CopyNew, At
    <3> QED
      BY <1>0, <2>1, <2>3, <3>1, <3>2, ShelfSame DEF IInv, Shapes, People, Custody, Rewritten, Creating, Updating, Resetting, Completing
  <2>4. CASE job.at = "keys"
    <3>1. DOMAIN job' = JF /\ job'.do = "complete" /\ job'.at = "services" /\ job'.new = job.new
      BY <1>0, <1>11, <2>1, <2>4 DEF CopyNew, At, JF
    <3>2. wallet' = wallet /\ user' = user
      BY <1>11, <2>4 DEF CopyNew, At
    <3> QED
      BY <1>0, <2>1, <2>4, <3>1, <3>2, ShelfSame DEF IInv, Shapes, People, Custody, Rewritten, Creating, Updating, Resetting, Completing
  <2> QED
    BY <1>11, <2>2, <2>3, <2>4 DEF CopyNew, At
<1>12. CASE Move
  <2>1. UNCHANGED <<wallet, backup, user, known, session, walletPw, bundles, data>>
    BY <1>12 DEF Move
  <2>2. job.do = "complete" /\ job.at = "services"
    BY <1>12 DEF Move, At
  <2>3. (\E s \in job.left : job' = [job EXCEPT !.left = @ \ {s}]) \/ job' = NoJob
    BY <1>12 DEF Move
  <2>4. CASE job' = NoJob
    BY <1>0, <2>1, <2>4, NoJobFields, ShelfSame, QuietStep
  <2>5. ASSUME NEW s \in job.left, job' = [job EXCEPT !.left = @ \ {s}]
        PROVE  IInv'
    <3>1. DOMAIN job' = JF /\ job'.do = "complete" /\ job'.at = "services" /\ job'.new = job.new
      BY <1>0, <2>2, <2>5 DEF JF
    <3> QED
      BY <1>0, <2>1, <2>2, <3>1, ShelfSame DEF IInv, Shapes, People, Custody, Rewritten, Creating, Updating, Resetting, Completing
  <2> QED
    BY <2>3, <2>4, <2>5
<1>13. CASE Close
  <2>1. UNCHANGED <<wallet, backup, user, session, walletPw, bundles>> /\ known' = {job.new} /\ job' = NoJob
    BY <1>13 DEF Close
  <2>2. /\ job.do = "complete" /\ job.new \in known /\ user = job.new
        /\ session = None /\ walletPw = None
        /\ wallet.config => wallet.key = job.new
    BY <1>13 DEF Close, At, IInv, Completing, Rewritten
  <2>3. Shelf' /\ DOMAIN data' = DF
    <3>1. DOMAIN data' = DF /\ data'.last = 0
      BY <1>0, <1>13 DEF Close, DF
    <3>2. PICK S : bundles \in Seq(S)
      BY <1>0 DEF Shelf
    <3>3. Len(bundles) \in Nat
      BY <3>2
    <3> QED
      BY <1>0, <2>1, <3>1, <3>3 DEF Shelf
  <2> QED
    BY <1>0, <2>1, <2>2, <2>3, NoJobFields DEF IInv, Shapes, People, Custody, Rewritten, Creating, Updating, Resetting, Completing
<1>14. CASE UNCHANGED allVars
  BY <1>0, <1>14, ShelfSame DEF allVars, vars, IInv, Shapes, People, Custody, Rewritten, Creating, Updating, Resetting, Completing
<1> QED
  BY <1>1, <1>2, <1>3, <1>4, <1>5, <1>6, <1>7, <1>8, <1>9, <1>10, <1>11, <1>12, <1>13, <1>14 DEF Next
-----------------------------------------------------------------------------
\* A new installation.
LEMMA Initially == RecoveryInit => IInv
<1> SUFFICES ASSUME RecoveryInit PROVE IInv
  OBVIOUS
<1>1. Shapes /\ job.do = "none"
  BY DEF RecoveryInit, Init, NoWallet, NoJob, Shapes, WF, JF, DF
<1>2. Shelf
  BY DEF RecoveryInit, Shelf
<1>3. People /\ Custody
  BY DEF RecoveryInit, Init, NoWallet, People, Custody
<1> QED
  BY <1>1, <1>2, <1>3 DEF IInv, Creating, Updating, Resetting, Completing

\* The invariant, for any constants.
THEOREM Invariance == Spec => []IInv
<1> QED
  BY Initially, RecoverySteps, PTL DEF Spec

\* Whatever is cut short or goes wrong, in changes of the password, resets by
\* seed phrase and recoveries, in any order and any number: the keystore in use,
\* or the newest backup of it, opens with a password the user knows of.
THEOREM NeverLockedOut == Spec => []NeverLocked
<1>1. IInv => NeverLocked
  BY DEF IInv, Custody, NeverLocked, Exists
<1> QED
  BY <1>1, Invariance, PTL

-----------------------------------------------------------------------------
(* Agents: the keys they have and the keys made for them.                  *)

\* Addresses are numbered as they are drawn.
Numbered ==
    /\ minted \in Nat
    /\ DOMAIN keys \subseteq 1 .. minted
    /\ DOMAIN data.newKeys \subseteq 1 .. minted

\* A service has some of them.
Employed ==
    /\ IsFiniteSet(DOMAIN services)
    /\ \A s \in DOMAIN services : IsFiniteSet(services[s]) /\ services[s] \subseteq 1 .. minted

\* The request has drawn an address that no service has yet.
Holding ==
    \/ job.do = "service" /\ job.at \in {"written", "store"}
    \/ job.do = "reset" /\ job.at \in {"made", "store"}

Held ==
    /\ Holding => minted \in DOMAIN keys /\ minted \notin DOMAIN data.newKeys
    /\ job.do = "service" => job.left \subseteq DOMAIN services

\* The last bundle's keys are those made for the agents there were.
Paired == data.last # 0 =>
    /\ Last.keys \subseteq 1 .. minted
    /\ Last.keys \cap DOMAIN data.newKeys = {}
    /\ \A s \in DOMAIN services : \A a \in services[s] \cap DOMAIN data.newKeys :
          data.newKeys[a] \in Last.keys

Agents == Numbered /\ Employed /\ Held /\ Paired

\* What a step leaves alone that has nothing to do with agents.
LEMMA AgentsQuiet ==
    ASSUME Agents, UNCHANGED <<minted, services, data>>, DOMAIN keys' = DOMAIN keys,
           data.last # 0 => Last'.keys = Last.keys,
           Holding' => Holding,
           (job.do = "service")' => job.do = "service" /\ job'.left = job.left
    PROVE  Agents'
<1>1. Numbered' /\ Employed' /\ Held'
  BY DEF Agents, Numbered, Employed, Held
<1>2. Paired'
  BY DEF Agents, Paired
<1> QED
  BY <1>1, <1>2 DEF Agents

LEMMA LastSame == UNCHANGED <<bundles, data>> => Last' = Last
  BY DEF Last

LEMMA OverFacts ==
    ASSUME NEW f, NEW g
    PROVE  /\ DOMAIN Over(f, g) = DOMAIN f \cup DOMAIN g
           /\ \A x \in DOMAIN f : Over(f, g)[x] = f[x]
           /\ \A x \in DOMAIN g \ DOMAIN f : Over(f, g)[x] = g[x]
  BY DEF Over

\* A set of as many numbers has room for a finite set of agents.
LEMMA Room ==
    ASSUME NEW S, IsFiniteSet(S), NEW n \in Nat
    PROVE  \E f \in [S -> n + 1 .. n + Cardinality(S)] : \A a, b \in S : a # b => f[a] # f[b]
<1> DEFINE m == Cardinality(S)
<1>1. m \in Nat /\ ExistsBijection(1 .. m, S)
  BY FS_CardinalityType
<1> HIDE DEF m
<1>2. PICK g \in [1 .. m -> S] : \A s \in S : \E i \in 1 .. m : g[i] = s
  BY <1>1 DEF ExistsBijection, Bijection, Surjection
<1> DEFINE at(s) == CHOOSE i \in 1 .. m : g[i] = s
           f == [s \in S |-> n + at(s)]
<1>3. \A s \in S : at(s) \in 1 .. m /\ g[at(s)] = s
  BY <1>2
<1> HIDE DEF at
<1>4. \A s \in S : n + at(s) \in n + 1 .. n + m
  BY <1>1, <1>3
<1>5. f \in [S -> n + 1 .. n + m]
  BY <1>4
<1>6. \A a, b \in S : a # b => f[a] # f[b]
  BY <1>1, <1>3
<1> QED
  BY <1>5, <1>6 DEF m

\* Finitely many have finitely many images.
LEMMA ImageFinite ==
    ASSUME NEW S, IsFiniteSet(S), NEW f
    PROVE  IsFiniteSet({f[x] : x \in S})
<1> DEFINE T == {f[x] : x \in S}
           g == [x \in S |-> f[x]]
<1>1. g \in Surjection(S, T)
  BY DEF Surjection
<1> QED
  BY <1>1, FS_Surjection

\* prepare_recovery's agents are finitely many, each with a fresh address.
LEMMA NewBundleAgents ==
    ASSUME Agents, DOMAIN data = DF, NEW p \in Passwords, NewBundle(p), UNCHANGED services,
           \E S : bundles \in Seq(S)
    PROVE  \E fresh :
             LET agents == UNION {services[s] : s \in DOMAIN services} IN
             /\ IsFiniteSet(agents) /\ minted' = minted + Cardinality(agents) /\ Cardinality(agents) \in Nat
             /\ DOMAIN fresh = agents /\ \A a \in agents : fresh[a] \in minted + 1 .. minted'
             /\ data' = [last |-> Len(bundles) + 1, newKeys |-> Over(fresh, data.newKeys)]
             /\ Last'.keys = {fresh[a] : a \in agents}
             /\ Len(bundles) \in Nat /\ Len(bundles') = Len(bundles) + 1
<1> DEFINE agents == UNION {services[s] : s \in DOMAIN services}
           F == [agents -> minted + 1 .. minted + Cardinality(agents)]
           fresh == CHOOSE f \in F : \A a, b \in agents : a # b => f[a] # f[b]
           b == [password |-> p, wallet |-> Exists, keys |-> {fresh[a] : a \in agents},
                 safes |-> {}, old |-> FALSE]
<1>1. minted \in Nat
  BY DEF Agents, Numbered
<1>2. IsFiniteSet(agents)
  <2>1. IsFiniteSet({services[s] : s \in DOMAIN services})
    BY ImageFinite DEF Agents, Employed
  <2>2. \A T \in {services[s] : s \in DOMAIN services} : IsFiniteSet(T)
    BY DEF Agents, Employed
  <2> QED
    BY <2>1, <2>2, FS_UNION
<1>3. Cardinality(agents) \in Nat
  BY <1>2, FS_CardinalityType
<1>4. fresh \in F
  <2>1. \E f \in F : \A x, y \in agents : x # y => f[x] # f[y]
    <3> HIDE DEF agents
    <3> QED
      BY <1>1, <1>2, Room
  <2> QED
    BY <2>1
<1>5. /\ minted' = minted + Cardinality(agents) /\ bundles' = Append(bundles, b)
      /\ data' = [last |-> Len(bundles) + 1, newKeys |-> Over(fresh, data.newKeys)]
  BY Zenon DEF NewBundle
<1>6. b.keys = {fresh[a] : a \in agents}
  <2> HIDE DEF fresh, agents
  <2> QED
    OBVIOUS
<1> HIDE DEF b, fresh
<1>7. Last' = b /\ Len(bundles) \in Nat /\ Len(bundles') = Len(bundles) + 1
  <2>1. PICK S : bundles \in Seq(S)
    OBVIOUS
  <2>2. Append(bundles, b)[Len(bundles) + 1] = b
    BY <2>1
  <2>3. Len(bundles) \in Nat /\ Len(Append(bundles, b)) = Len(bundles) + 1
    BY <2>1
  <2> QED
    BY <1>5, <2>2, <2>3 DEF Last
<1>8. \A a \in agents : fresh[a] \in minted + 1 .. minted'
  BY <1>4, <1>5
<1> HIDE DEF agents
<1>9. DOMAIN fresh = agents
  BY <1>4
<1> QED
  BY <1>2, <1>3, <1>5, <1>6, <1>7, <1>8, <1>9 DEF agents

\* The address drawn is given to a service, or to more.
LEMMA AgentsGiven ==
    ASSUME Agents, UNCHANGED <<minted, keys, data>>, Last' = Last,
           minted \in DOMAIN keys, minted \notin DOMAIN data.newKeys,
           DOMAIN services' = DOMAIN services,
           \A s \in DOMAIN services : services'[s] = services[s] \/ services'[s] = {minted},
           ~Holding', (job.do # "service")'
    PROVE  Agents'
<1>1. Numbered' /\ Held' /\ minted \in 1 .. minted
  BY DEF Agents, Numbered, Held
<1>2. ASSUME NEW s \in DOMAIN services
      PROVE  /\ IsFiniteSet(services'[s]) /\ services'[s] \subseteq 1 .. minted
             /\ services'[s] \cap DOMAIN data.newKeys \subseteq services[s] \cap DOMAIN data.newKeys
  <2>1. CASE services'[s] = services[s]
    BY <2>1 DEF Agents, Employed
  <2>2. CASE services'[s] = {minted}
    <3>1. IsFiniteSet({minted})
      BY FS_Singleton
    <3> QED
      BY <1>1, <2>2, <3>1
  <2> QED
    BY <2>1, <2>2
<1>3. Employed'
  BY <1>2 DEF Agents, Employed
<1>4. Paired'
  BY <1>2 DEF Agents, Paired
<1> QED
  BY <1>1, <1>3, <1>4 DEF Agents

\* The steps of an account's requests.
LEMMA AccountAgents == IInv /\ Agents /\ AccountNext /\ UNCHANGED recoveryVars => Agents'
<1> SUFFICES ASSUME IInv, Agents, AccountNext, UNCHANGED recoveryVars PROVE Agents'
  OBVIOUS
<1> USE DEF disk, memory, history, recoveryVars, Go, Answer
<1>0. DOMAIN job = JF /\ Last' = Last
  BY LastSame DEF IInv, Shapes
<1>f. IsFiniteSet({}) /\ \A x : IsFiniteSet({x})
  BY FS_EmptySet, FS_Singleton
<1>1. ASSUME NEW p \in Passwords, CreateAccount(p) \/ Login(p) PROVE Agents'
  BY <1>1, <1>0, AgentsQuiet DEF CreateAccount, Login, Holding
<1>2. CASE CreateWallet
  BY <1>2, <1>0, AgentsQuiet DEF CreateWallet, Holding, NoJob
<1>3. CASE WriteWallet
  <2>1. UNCHANGED <<minted, services, keys>> /\ job'.do \in {"none", "wallet"}
    BY <1>3, <1>0, NoJobFields DEF WriteWallet, At, JF
  <2> QED
    BY <1>0, <2>1, AgentsQuiet DEF Holding
<1>4. ASSUME NEW s \in Services, CreateService(s) PROVE Agents'
  <2>1. /\ job'.do = "service" /\ job'.at = "mint" /\ job'.left = {s}
        /\ UNCHANGED <<minted, keys, data, bundles>> /\ s \notin DOMAIN services
    BY <1>4 DEF CreateService, NoJob
  <2>2. /\ DOMAIN services' = DOMAIN services \cup {s} /\ services'[s] = {}
        /\ \A t \in DOMAIN services : services'[t] = services[t]
    <3>1. services' = Over(services, [t \in {s} |-> {}])
      BY <1>4 DEF CreateService
    <3> QED
      BY <2>1, <3>1 DEF Over
  <2>3. IsFiniteSet(DOMAIN services')
    BY <2>2, FS_AddElement DEF Agents, Employed
  <2>4. Employed'
    BY <1>f, <2>1, <2>2, <2>3 DEF Agents, Employed
  <2>5. Numbered' /\ Held'
    BY <2>1, <2>2 DEF Agents, Numbered, Held, Holding
  <2>6. Paired'
    BY <1>0, <2>1, <2>2 DEF Agents, Paired
  <2> QED
    BY <2>4, <2>5, <2>6 DEF Agents
<1>5. CASE FillService
  <2>1. CASE At("service", "mint") /\ Mint(Torn) /\ Go("written") /\ UNCHANGED services
    <3>1. /\ job'.do = "service" /\ job'.left = job.left /\ UNCHANGED <<data, bundles, services>>
          /\ minted' = minted + 1 /\ DOMAIN keys' = DOMAIN keys \cup {minted + 1} /\ job.do = "service"
      BY <1>5, <1>0, <2>1 DEF FillService, At, Mint, Over, JF
    <3> QED
      BY <1>0, <3>1 DEF Agents, Numbered, Employed, Held, Holding, Paired
  <2>2. CASE At("service", "written") /\ Go("store") /\ keys' = [keys EXCEPT ![minted] = keysPw] /\ UNCHANGED <<services, minted>>
    <3>1. /\ job'.do = "service" /\ job'.left = job.left /\ UNCHANGED <<data, bundles, services>>
          /\ job.do = "service" /\ job.at = "written" /\ DOMAIN keys' = DOMAIN keys
      BY <1>5, <1>0, <2>2 DEF FillService, At, JF
    <3> QED
      BY <1>0, <2>2, <3>1, AgentsQuiet DEF Holding
  <2>3. CASE At("service", "store") /\ job' = NoJob /\ services' = Over([s \in job.left |-> {minted}], services) /\ UNCHANGED <<keys, minted>>
    <3>1. /\ job'.do = "none" /\ job.left \subseteq DOMAIN services /\ UNCHANGED <<data, bundles>>
          /\ minted \in DOMAIN keys /\ minted \notin DOMAIN data.newKeys
      BY <2>3, NoJobFields DEF At, Agents, Held, Holding
    <3>2. /\ DOMAIN services' = DOMAIN services
          /\ \A s \in DOMAIN services : services'[s] = services[s] \/ services'[s] = {minted}
      BY <2>3, <3>1 DEF Over
    <3> QED
      BY <1>0, <2>3, <3>1, <3>2, AgentsGiven DEF Holding
  <2> QED
    BY <1>5, <2>1, <2>2, <2>3 DEF FillService
<1>6. ASSUME NEW p \in Passwords, NEW q \in Passwords, Update(p, q) PROVE Agents'
  BY <1>6, <1>0, AgentsQuiet DEF Update, Holding, NoJob
<1>7. CASE UpdateWallet
  BY <1>7, <1>0, AgentsQuiet DEF UpdateWallet, Keystore, Reencrypt, Holding, At, JF
<1>8. CASE ListKeys
  BY <1>8, <1>0, AgentsQuiet DEF ListKeys, Holding, At, JF
<1>9. CASE UpdateKey
  <2>1. /\ UNCHANGED <<minted, services>> /\ DOMAIN keys' = DOMAIN keys
        /\ job' = NoJob \/ job'.do = "update"
    BY <1>9, <1>0 DEF UpdateKey, At, JF
  <2> QED
    BY <1>0, <2>1, NoJobFields, AgentsQuiet DEF Holding
<1>10. CASE UpdateUser
  BY <1>10, <1>0, AgentsQuiet, NoJobFields DEF UpdateUser, Holding
<1>11. ASSUME NEW p \in Passwords, Reset(p) PROVE Agents'
  BY <1>11, <1>0, AgentsQuiet DEF Reset, Holding, NoJob
<1>12. CASE ResetWallet
  BY <1>12, <1>0, AgentsQuiet DEF ResetWallet, Holding, At, JF
<1>13. CASE Discard
  BY <1>13, <1>0, AgentsQuiet DEF Discard, Holding, At, JF
<1>14. CASE Rotate
  BY <1>14, <1>0, AgentsQuiet, NoJobFields DEF Rotate, Holding, At, JF
<1>15. CASE Replace
  <2>0. PICK s \in job.left :
         \/ /\ At("reset", "mint") /\ Mint(Torn) /\ Go("made") /\ UNCHANGED services
         \/ /\ At("reset", "made") /\ Go("store")
            /\ keys' = [keys EXCEPT ![minted] = keysPw]
            /\ UNCHANGED <<services, minted>>
         \/ /\ At("reset", "store")
            /\ services' = [services EXCEPT ![s] = {minted}]
            /\ job' = [job EXCEPT !.at = "mint", !.left = @ \ {s}]
            /\ UNCHANGED <<keys, minted>>
    BY <1>15 DEF Replace
  <2>1. CASE At("reset", "mint") /\ Mint(Torn) /\ Go("made") /\ UNCHANGED services
    <3>1. /\ job'.do = "reset" /\ UNCHANGED <<data, bundles, services>>
          /\ minted' = minted + 1 /\ DOMAIN keys' = DOMAIN keys \cup {minted + 1}
      BY <1>0, <2>1 DEF At, Mint, Over, JF
    <3> QED
      BY <1>0, <3>1 DEF Agents, Numbered, Employed, Held, Holding, Paired
  <2>2. CASE At("reset", "made") /\ Go("store") /\ keys' = [keys EXCEPT ![minted] = keysPw] /\ UNCHANGED <<services, minted>>
    <3>1. /\ job'.do = "reset" /\ UNCHANGED <<data, bundles, services>>
          /\ job.do = "reset" /\ job.at = "made" /\ DOMAIN keys' = DOMAIN keys
      BY <1>0, <2>2 DEF At, JF
    <3> QED
      BY <1>0, <2>2, <3>1, AgentsQuiet DEF Holding
  <2>3. CASE /\ At("reset", "store") /\ services' = [services EXCEPT ![s] = {minted}]
             /\ job' = [job EXCEPT !.at = "mint", !.left = @ \ {s}] /\ UNCHANGED <<keys, minted>>
    <3>1. /\ job'.do = "reset" /\ job'.at = "mint" /\ UNCHANGED <<data, bundles>>
          /\ minted \in DOMAIN keys /\ minted \notin DOMAIN data.newKeys
      BY <1>0, <2>3 DEF At, Agents, Held, Holding, JF
    <3>2. /\ DOMAIN services' = DOMAIN services
          /\ \A t \in DOMAIN services : services'[t] = services[t] \/ services'[t] = {minted}
      BY <2>3
    <3> QED
      BY <1>0, <2>3, <3>1, <3>2, AgentsGiven DEF Holding
  <2> QED
    BY <2>0, <2>1, <2>2, <2>3
<1>16. CASE ResetDone
  BY <1>16, <1>0, AgentsQuiet, NoJobFields DEF ResetDone, Holding
<1>17. CASE Restart
  BY <1>17, <1>0, AgentsQuiet, NoJobFields DEF Restart, Holding
<1> QED
  BY <1>1, <1>2, <1>3, <1>4, <1>5, <1>6, <1>7, <1>8, <1>9, <1>10, <1>11, <1>12, <1>13, <1>14, <1>15, <1>16, <1>17
  DEF AccountNext, Running

\* prepare_recovery makes a key for each agent there is.
LEMMA PrepareAgents ==
    ASSUME IInv, Agents, NEW p \in Passwords, Prepare(p)
    PROVE  Agents'
<1> DEFINE agents == UNION {services[s] : s \in DOMAIN services}
<1>1. /\ UNCHANGED <<keys, services, job>> /\ job.do = "none"
      /\ NewBundle(p) /\ \E S : bundles \in Seq(S)
  BY DEF Prepare, disk, Idle, NoJob, IInv, Shelf
<1>2. PICK fresh :
        /\ IsFiniteSet(agents) /\ minted' = minted + Cardinality(agents) /\ Cardinality(agents) \in Nat
        /\ DOMAIN fresh = agents /\ \A a \in agents : fresh[a] \in minted + 1 .. minted'
        /\ data' = [last |-> Len(bundles) + 1, newKeys |-> Over(fresh, data.newKeys)]
        /\ Last'.keys = {fresh[a] : a \in agents}
  BY <1>1, NewBundleAgents DEF IInv, Shapes
<1>3. minted \in Nat /\ minted' \in Nat /\ minted <= minted'
  BY <1>2 DEF Agents, Numbered
<1>i. 1 .. minted \subseteq 1 .. minted'
  BY <1>3
<1>4. DOMAIN data'.newKeys = agents \cup DOMAIN data.newKeys
  BY <1>2 DEF Over
<1>5. agents \subseteq 1 .. minted
  BY DEF Agents, Employed
<1>6. \A a \in agents : data'.newKeys[a] = fresh[a]
  BY <1>2 DEF Over
<1> HIDE DEF agents
<1>7. Numbered'
  BY <1>1, <1>3, <1>i, <1>4, <1>5 DEF Agents, Numbered
<1>8. Employed'
  BY <1>1, <1>3 DEF Agents, Numbered, Employed
<1>9. Held'
  BY <1>1 DEF Held, Holding
<1>10. Last'.keys \subseteq minted + 1 .. minted'
  BY <1>2
<1>11. Paired'
  <2>1. Last'.keys \subseteq 1 .. minted' /\ Last'.keys \cap DOMAIN data'.newKeys = {}
    BY <1>3, <1>4, <1>5, <1>10 DEF Agents, Numbered
  <2>2. \A s \in DOMAIN services' : services'[s] \subseteq agents
    BY <1>1 DEF agents
  <2>3. \A s \in DOMAIN services' : \A a \in services'[s] : data'.newKeys[a] \in Last'.keys
    BY <1>2, <1>6, <2>2
  <2> QED
    BY <2>1, <2>3 DEF Paired
<1> QED
  BY <1>7, <1>8, <1>9, <1>11 DEF Agents

\* The steps of the recovery.
LEMMA RecoveryAgents == IInv /\ Agents /\ [Next]_allVars => Agents'
<1> SUFFICES ASSUME IInv, Agents, [Next]_allVars PROVE Agents'
  OBVIOUS
<1> USE DEF disk, memory, history, recoveryVars, Go, Answer
<1>0. DOMAIN job = JF /\ (UNCHANGED <<bundles, data>> => Last' = Last)
  BY LastSame DEF IInv, Shapes
<1>1. CASE AccountNext /\ UNCHANGED recoveryVars
  BY <1>1, AccountAgents
<1>2. ASSUME NEW p \in Passwords, Prepare(p) PROVE Agents'
  BY <1>2, PrepareAgents
<1>3. ASSUME NEW c \in Chains, NEW backup_owner \in BOOLEAN, CreateSafe(c, backup_owner) \/ UpdateSafe(c, backup_owner) PROVE Agents'
  BY <1>3, <1>0, AgentsQuiet DEF CreateSafe, UpdateSafe, CanSign, Idle, Holding, NoJob
<1>4. ASSUME NEW sync \in BOOLEAN, UpdateAll(sync) PROVE Agents'
  BY <1>4, <1>0, AgentsQuiet DEF UpdateAll, Holding, NoJob
<1>5. CASE MakeSafe \/ UpdateEach
  <2>1. UNCHANGED <<minted, services, keys, data, bundles>>
    BY <1>5 DEF MakeSafe, UpdateEach
  <2>2. job'.do \in {"none", "safe", "all"}
    BY <1>5, <1>0, NoJobFields DEF MakeSafe, UpdateEach, At, JF
  <2> QED
    BY <1>0, <2>1, <2>2, AgentsQuiet DEF Holding
<1>6. ASSUME NEW c \in Chains, Sign(c) \/ Mine(c) PROVE Agents'
  <2>1. UNCHANGED <<minted, services, keys, data, bundles, job>>
    BY <1>6 DEF Sign, Mine, vars
  <2> QED
    BY <1>0, <2>1, AgentsQuiet DEF Holding
<1>7. ASSUME NEW strict \in BOOLEAN, Complete(strict) PROVE Agents'
  <2>1. UNCHANGED <<minted, services, keys, data>> /\ job'.do = "complete"
    BY <1>7 DEF Complete, NoJob
  <2>2. data.last # 0 => Last'.keys = Last.keys
    <3>1. DOMAIN Last = BF /\ Last' = [Last EXCEPT !.old = TRUE, !.safes = Safes]
      BY <1>7, CompleteLast
    <3> QED
      BY <3>1 DEF BF
  <2> QED
    BY <2>1, <2>2, AgentsQuiet DEF Holding
<1>8. CASE MoveOld
  <2>1. UNCHANGED <<minted, services, keys, data, bundles>> /\ job'.do = "complete"
    BY <1>8, <1>0 DEF MoveOld, At, JF
  <2> QED
    BY <1>0, <2>1, AgentsQuiet DEF Holding
<1>9. CASE CopyNew
  <2>1. UNCHANGED <<minted, services, data, bundles>> /\ job'.do = "complete"
    BY <1>9, <1>0 DEF CopyNew, At, JF
  <2>2. CASE keys' = keys
    BY <1>0, <2>1, <2>2, AgentsQuiet DEF Holding
  <2>3. CASE At("complete", "keys") /\ keys' = Over([a \in Last.keys |-> job.new], keys)
    <3>1. data.last # 0
      BY <2>3 DEF At, IInv, Completing
    <3>2. DOMAIN keys' = Last.keys \cup DOMAIN keys
      BY <2>3 DEF Over
    <3> QED
      BY <1>0, <2>1, <3>1, <3>2 DEF Agents, Numbered, Employed, Held, Holding, Paired
  <2> QED
    BY <1>9, <2>2, <2>3 DEF CopyNew
<1>10. CASE Move
  <2>1. UNCHANGED <<minted, keys, data, bundles>> /\ job'.do \in {"none", "complete"}
    BY <1>10, <1>0, NoJobFields DEF Move, At, JF
  <2>2. CASE UNCHANGED services
    BY <1>0, <2>1, <2>2, AgentsQuiet DEF Holding
  <2>3. ASSUME NEW s \in job.left, services[s] \subseteq DOMAIN data.newKeys,
               services' = [services EXCEPT ![s] = {data.newKeys[a] : a \in @}]
        PROVE  Agents'
    <3>1. data.last # 0
      BY <1>10 DEF Move, At, IInv, Completing
    <3> DEFINE new == {data.newKeys[a] : a \in services[s]}
    <3>2. s \in DOMAIN services => new \subseteq Last.keys /\ IsFiniteSet(new)
      BY <2>3, <3>1, ImageFinite DEF Agents, Paired, Employed
    <3>3. /\ DOMAIN services' = DOMAIN services
          /\ \A t \in DOMAIN services : services'[t] = IF t = s THEN new ELSE services[t]
      BY <2>3
    <3> HIDE DEF new
    <3>4. Last.keys \subseteq 1 .. minted /\ Last.keys \cap DOMAIN data.newKeys = {}
      BY <3>1 DEF Agents, Paired
    <3>5. Employed'
      BY <2>1, <3>2, <3>3, <3>4 DEF Agents, Employed
    <3>6. Numbered' /\ Held'
      BY <2>1 DEF Agents, Numbered, Held, Holding
    <3>7. Paired'
      BY <1>0, <2>1, <3>2, <3>3, <3>4 DEF Agents, Paired
    <3> QED
      BY <3>5, <3>6, <3>7 DEF Agents
  <2> QED
    BY <1>10, <2>2, <2>3 DEF Move
<1>11. CASE Close
  <2>1. UNCHANGED <<minted, keys, services>> /\ job'.do = "none" /\ data'.last = 0 /\ data'.newKeys = data.newKeys
    BY <1>11, NoJobFields DEF Close, IInv, Shapes, DF
  <2> QED
    BY <2>1 DEF Agents, Numbered, Employed, Held, Holding, Paired
<1>12. CASE UNCHANGED allVars
  <2>1. UNCHANGED <<minted, services, keys, data, bundles, job>>
    BY <1>12 DEF allVars, vars
  <2> QED
    BY <1>0, <2>1, AgentsQuiet DEF Holding
<1> QED
  BY <1>1, <1>2, <1>3, <1>4, <1>5, <1>6, <1>7, <1>8, <1>9, <1>10, <1>11, <1>12 DEF Next
-----------------------------------------------------------------------------
(* Keys: how far the running request has come with them.                   *)

\* The service's agents have keys in use under the new password.
Rekeyed(s) == \A a \in services[s] : a \in Live /\ keys[a] = job.new

\* A change has yet to visit the keys left, or has found a broken one.
Converting == job.do = "update" /\ job.at = "key" =>
    /\ job.left \subseteq Live
    /\ job.broken \/ \A a \in Live : a \in job.left \/ keys[a] = job.new

\* A reset renames the keys left.
Discarding == job.do = "reset" /\ job.at = "discard" => job.broken \/ Live \subseteq job.left

\* It has yet to make new ones for the services left.
Rotating == job.do = "reset" /\ job.at \in {"mint", "made", "store"} =>
    /\ keysPw = job.new
    /\ \A a \in Live : keys[a] = job.new \/ (job.at = "made" /\ a = minted)
    /\ job.at = "store" => minted \in Live
    /\ \A s \in DOMAIN services : s \in job.left \/ Rekeyed(s)

\* A recovery has the new keys in place and has yet to give them to those left.
Replacing == job.do = "complete" /\ job.at = "services" =>
    /\ \A a \in Last.keys : a \in Live /\ keys[a] = job.new
    /\ \A s \in DOMAIN services : s \in job.left \/ Rekeyed(s)

KeyWork == Converting /\ Discarding /\ Rotating /\ Replacing

\* The requests, from where their keys are at stake.
AtKeys ==
    \/ job.do = "update" /\ job.at = "key"
    \/ job.do = "reset" /\ job.at \in {"discard", "mint", "made", "store"}
    \/ job.do = "complete" /\ job.at = "services"

LEMMA NotAtKeys == ~AtKeys' => KeyWork'
  BY DEF AtKeys, KeyWork, Converting, Discarding, Rotating, Replacing

LEMMA KeyWorkSame ==
    KeyWork /\ UNCHANGED <<job, keys, services, keysPw, minted>> /\ Last' = Last => KeyWork'
  BY DEF KeyWork, Converting, Discarding, Rotating, Replacing, Rekeyed, Live

\* The password change visits a key.
LEMMA UpdateKeyWork == IInv /\ KeyWork /\ UpdateKey => KeyWork'
<1> SUFFICES ASSUME IInv, KeyWork, UpdateKey PROVE KeyWork'
  OBVIOUS
<1> USE DEF Answer
<1>0. DOMAIN job = JF
  BY DEF IInv, Shapes
<1>1. job.do = "update" /\ job.at = "key" /\ job.left \subseteq Live
  BY DEF UpdateKey, At, KeyWork, Converting
<1>2. PICK a \in job.left :
         /\ keys' = IF keys[a] = job.old THEN [keys EXCEPT ![a] = job.new] ELSE keys
         /\ IF keys[a] = Torn THEN Answer("broken")
            ELSE /\ job' = [job EXCEPT !.left = @ \ {a},
                                       !.broken = @ \/ keys[a] \notin {job.old, job.new}]
                 /\ UNCHANGED answer
  BY DEF UpdateKey
<1>3. CASE keys[a] = Torn
  BY <1>2, <1>3, NoJobFields, NotAtKeys DEF AtKeys
<1>4. CASE keys[a] # Torn
  <2>1. /\ job'.do = "update" /\ job'.at = "key" /\ job'.new = job.new /\ job'.left = job.left \ {a}
        /\ job'.broken <=> job.broken \/ keys[a] \notin {job.old, job.new}
    BY <1>0, <1>1, <1>2, <1>4 DEF JF
  <2>2. job.new # Lost
    BY <1>1, PasswordsAssumption DEF IInv, Updating, People
  <2>3. /\ Live' = Live
        /\ \A b \in Live : b # a => keys'[b] = keys[b]
        /\ keys'[a] = job.new \/ keys[a] \notin {job.old, job.new}
    <3>1. CASE keys[a] = job.old
      BY <1>1, <1>2, <2>2, <3>1 DEF Live
    <3>2. CASE keys[a] # job.old
      BY <1>2, <3>2 DEF Live
    <3> QED
      BY <3>1, <3>2
  <2>4. Converting'
    BY <1>1, <2>1, <2>3 DEF KeyWork, Converting
  <2> QED
    BY <2>1, <2>4 DEF KeyWork, Discarding, Rotating, Replacing
<1> QED
  BY <1>3, <1>4

\* The reset discards the old keys and makes new ones.
LEMMA DiscardWork == IInv /\ KeyWork /\ Discard => KeyWork'
<1> SUFFICES ASSUME IInv, KeyWork, Discard PROVE KeyWork'
  OBVIOUS
<1>0. DOMAIN job = JF
  BY DEF IInv, Shapes
<1>1. job.do = "reset" /\ job.at = "discard"
  BY DEF Discard, At
<1>2. PICK a \in job.left :
         \/ keys' = [keys EXCEPT ![a] = Lost] /\ job' = [job EXCEPT !.left = @ \ {a}]
         \/ job' = [job EXCEPT !.left = @ \ {a}, !.broken = TRUE] /\ UNCHANGED keys
  BY DEF Discard
<1>3. job'.do = "reset" /\ job'.at = "discard" /\ job'.left = job.left \ {a}
  BY <1>0, <1>1, <1>2 DEF JF
<1>4. Discarding'
  <2>1. CASE keys' = [keys EXCEPT ![a] = Lost] /\ job' = [job EXCEPT !.left = @ \ {a}]
    <3>1. job'.broken = job.broken
      BY <1>0, <2>1 DEF JF
    <3>2. Live' = Live \ {a}
      BY <2>1 DEF Live
    <3> QED
      BY <1>1, <1>3, <3>1, <3>2 DEF KeyWork, Discarding
  <2>2. CASE job' = [job EXCEPT !.left = @ \ {a}, !.broken = TRUE]
    BY <1>0, <2>2 DEF Discarding, JF
  <2> QED
    BY <1>2, <2>1, <2>2
<1> QED
  BY <1>3, <1>4 DEF KeyWork, Converting, Rotating, Replacing

LEMMA RotateWork == IInv /\ KeyWork /\ Rotate => KeyWork'
<1> SUFFICES ASSUME IInv, KeyWork, Rotate PROVE KeyWork'
  OBVIOUS
<1>0. DOMAIN job = JF
  BY DEF IInv, Shapes
<1>1. job.do = "reset" /\ job.at = "discard" /\ job.left = {} /\ UNCHANGED <<keys, services>>
  BY DEF Rotate, At, disk
<1>2. CASE job.broken
  BY <1>2, NoJobFields, NotAtKeys DEF Rotate, Answer, AtKeys
<1>3. CASE ~job.broken
  <2>1. /\ keysPw' = job.new
        /\ job' = [job EXCEPT !.at = "mint", !.left = {s \in DOMAIN services : services[s] # {}}]
    BY <1>3 DEF Rotate
  <2>2. /\ job'.do = "reset" /\ job'.at = "mint" /\ job'.new = job.new
        /\ job'.left = {s \in DOMAIN services : services[s] # {}}
    BY <1>0, <1>1, <2>1 DEF JF
  <2>3. Live' = {}
    BY <1>1, <1>3 DEF KeyWork, Discarding, Live
  <2>4. Rotating'
    BY <1>1, <2>1, <2>2, <2>3 DEF Rotating, Rekeyed
  <2> QED
    BY <2>2, <2>4 DEF KeyWork, Converting, Discarding, Replacing
<1> QED
  BY <1>2, <1>3

LEMMA ReplaceWork == IInv /\ Agents /\ KeyWork /\ Replace => KeyWork'
<1> SUFFICES ASSUME IInv, Agents, KeyWork, Replace PROVE KeyWork'
  OBVIOUS
<1> USE DEF Go
<1>0. DOMAIN job = JF /\ job.do = "reset"
  BY DEF IInv, Shapes, Replace
<1>n. job.new # Lost /\ UNCHANGED keysPw
  BY <1>0, PasswordsAssumption DEF IInv, Resetting, People, Replace, memory
<1>1. PICK s \in job.left :
         \/ /\ At("reset", "mint") /\ Mint(Torn) /\ Go("made") /\ UNCHANGED services
         \/ /\ At("reset", "made") /\ Go("store")
            /\ keys' = [keys EXCEPT ![minted] = keysPw]
            /\ UNCHANGED <<services, minted>>
         \/ /\ At("reset", "store")
            /\ services' = [services EXCEPT ![s] = {minted}]
            /\ job' = [job EXCEPT !.at = "mint", !.left = @ \ {s}]
            /\ UNCHANGED <<keys, minted>>
  BY DEF Replace
<1>2. CASE At("reset", "mint") /\ Mint(Torn) /\ Go("made") /\ UNCHANGED services
  <2>1. job'.do = "reset" /\ job'.at = "made" /\ job'.new = job.new /\ job'.left = job.left
    BY <1>0, <1>2 DEF JF
  <2>2. /\ minted' = minted + 1
        /\ \A a \in Live : a \in Live' /\ keys'[a] = keys[a]
        /\ \A a \in Live' : a \in Live \/ a = minted'
    BY <1>2 DEF Mint, Over, Live
  <2>3. Rotating'
    BY <1>n, <1>2, <2>1, <2>2 DEF KeyWork, Rotating, Rekeyed, At
  <2> QED
    BY <2>1, <2>3 DEF KeyWork, Converting, Discarding, Replacing
<1>3. CASE At("reset", "made") /\ Go("store") /\ keys' = [keys EXCEPT ![minted] = keysPw] /\ UNCHANGED <<services, minted>>
  <2>1. job'.do = "reset" /\ job'.at = "store" /\ job'.new = job.new /\ job'.left = job.left
    BY <1>0, <1>3 DEF JF
  <2>2. keysPw = job.new /\ minted \in DOMAIN keys
    BY <1>3 DEF At, KeyWork, Rotating, Agents, Held, Holding
  <2>3. Live' = Live \cup {minted} /\ keys'[minted] = job.new /\ \A a \in Live : a # minted => keys'[a] = keys[a]
    BY <1>n, <1>3, <2>2 DEF Live
  <2>4. Rotating'
    BY <1>n, <1>3, <2>1, <2>2, <2>3 DEF KeyWork, Rotating, Rekeyed, At
  <2> QED
    BY <2>1, <2>4 DEF KeyWork, Converting, Discarding, Replacing
<1>4. CASE /\ At("reset", "store") /\ services' = [services EXCEPT ![s] = {minted}]
           /\ job' = [job EXCEPT !.at = "mint", !.left = @ \ {s}] /\ UNCHANGED <<keys, minted>>
  <2>1. job'.do = "reset" /\ job'.at = "mint" /\ job'.new = job.new /\ job'.left = job.left \ {s}
    BY <1>0, <1>4 DEF JF
  <2>2. minted \in Live /\ keys[minted] = job.new /\ Live' = Live
    BY <1>4 DEF At, KeyWork, Rotating, Live
  <2>3. /\ DOMAIN services' = DOMAIN services
        /\ \A t \in DOMAIN services : services'[t] = IF t = s THEN {minted} ELSE services[t]
    BY <1>4
  <2>4. Rotating'
    BY <1>n, <1>4, <2>1, <2>2, <2>3 DEF KeyWork, Rotating, Rekeyed, At
  <2> QED
    BY <2>1, <2>4 DEF KeyWork, Converting, Discarding, Replacing
<1> QED
  BY <1>1, <1>2, <1>3, <1>4

\* The recovery copies the new keys in and gives them to the services.
LEMMA CopyWork == IInv /\ KeyWork /\ CopyNew => KeyWork'
<1> SUFFICES ASSUME IInv, KeyWork, CopyNew PROVE KeyWork'
  OBVIOUS
<1> USE DEF Go
<1>0. DOMAIN job = JF
  BY DEF IInv, Shapes
<1>1. CASE job'.at # "services"
  <2>1. job'.do = "complete" /\ ~AtKeys'
    BY <1>0, <1>1 DEF CopyNew, At, JF, AtKeys
  <2> QED
    BY <2>1, NotAtKeys
<1>2. CASE /\ At("complete", "keys")
           /\ keys' = Over([a \in Last.keys |-> job.new], keys)
           /\ job' = [job EXCEPT !.at = "services", !.left = DOMAIN services]
  <2>1. job'.do = "complete" /\ job'.at = "services" /\ job'.new = job.new /\ job'.left = DOMAIN services
    BY <1>0, <1>2 DEF JF, At
  <2>2. job.new # Lost
    BY <1>2, PasswordsAssumption DEF IInv, Completing, People, At
  <2>3. Last' = Last /\ services' = services
    BY LastSame DEF CopyNew, recoveryVars
  <2>4. \A a \in Last.keys : a \in Live' /\ keys'[a] = job.new
    BY <1>2, <2>2 DEF Over, Live
  <2>5. Replacing'
    BY <2>1, <2>3, <2>4 DEF Replacing
  <2> QED
    BY <2>1, <2>5 DEF KeyWork, Converting, Discarding, Rotating
<1> QED
  <2>1. \/ At("complete", "copy") /\ Go("account")
        \/ At("complete", "account") /\ Go("keys")
        => job'.at # "services"
    BY <1>0 DEF JF
  <2> QED
    BY <1>1, <1>2, <2>1 DEF CopyNew

LEMMA MoveWork == IInv /\ Agents /\ KeyWork /\ Move => KeyWork'
<1> SUFFICES ASSUME IInv, Agents, KeyWork, Move PROVE KeyWork'
  OBVIOUS
<1>0. DOMAIN job = JF /\ job.do = "complete" /\ job.at = "services" /\ data.last # 0
  BY DEF IInv, Shapes, Move, At, Completing
<1>1. keys' = keys /\ Last' = Last /\ Live' = Live
  BY LastSame DEF Move, recoveryVars, Live
<1>2. PICK s \in job.left :
         IF services[s] \subseteq DOMAIN data.newKeys
         THEN /\ services' = [services EXCEPT ![s] = {data.newKeys[a] : a \in @}]
              /\ job' = [job EXCEPT !.left = @ \ {s}]
              /\ UNCHANGED answer
         ELSE Answer("failed") /\ UNCHANGED services
  BY DEF Move
<1>3. CASE ~(services[s] \subseteq DOMAIN data.newKeys)
  BY <1>2, <1>3, NoJobFields, NotAtKeys DEF Answer, AtKeys
<1>4. CASE services[s] \subseteq DOMAIN data.newKeys
  <2>1. job'.do = "complete" /\ job'.at = "services" /\ job'.new = job.new /\ job'.left = job.left \ {s}
    BY <1>0, <1>2, <1>4 DEF JF
  <2>2. /\ DOMAIN services' = DOMAIN services
        /\ \A t \in DOMAIN services : services'[t] = IF t = s THEN {data.newKeys[a] : a \in services[s]} ELSE services[t]
    BY <1>2, <1>4
  <2>3. s \in DOMAIN services => {data.newKeys[a] : a \in services[s]} \subseteq Last.keys
    BY <1>0, <1>4 DEF Agents, Paired
  <2>4. /\ \A a \in Last.keys : a \in Live /\ keys[a] = job.new
        /\ \A t \in DOMAIN services : t \in job.left \/ Rekeyed(t)
    BY <1>0 DEF KeyWork, Replacing
  <2>5. ASSUME NEW t \in DOMAIN services' PROVE t \in job'.left \/ Rekeyed(t)'
    <3>1. CASE t = s
      BY <1>1, <2>1, <2>2, <2>3, <2>4, <3>1 DEF Rekeyed
    <3>2. CASE t # s
      BY <1>1, <2>1, <2>2, <2>4, <3>2 DEF Rekeyed
    <3> QED
      BY <3>1, <3>2
  <2>6. Replacing'
    BY <1>1, <2>1, <2>4, <2>5 DEF Replacing
  <2> QED
    BY <2>1, <2>6 DEF KeyWork, Converting, Discarding, Rotating
<1> QED
  BY <1>3, <1>4

\* All other steps are before, after or beside these.
LEMMA KeyWorkSteps == IInv /\ Agents /\ KeyWork /\ [Next]_allVars => KeyWork'
<1> SUFFICES ASSUME IInv, Agents, KeyWork, [Next]_allVars PROVE KeyWork'
  OBVIOUS
<1> USE DEF disk, memory, history, recoveryVars, Go, Answer
<1>0. DOMAIN job = JF
  BY DEF IInv, Shapes
<1>i. Idle => job.do = "none"
  BY NoJobFields DEF Idle
<1>1. ASSUME NEW p \in Passwords, CreateAccount(p) \/ Login(p) \/ Reset(p) \/ Prepare(p) PROVE KeyWork'
  <2>1. ~AtKeys'
    BY <1>1, <1>i DEF CreateAccount, Login, Reset, Prepare, NoJob, AtKeys
  <2> QED
    BY <2>1, NotAtKeys
<1>2. ASSUME CreateWallet \/ \E s \in Services : CreateService(s) PROVE KeyWork'
  <2>1. ~AtKeys'
    BY <1>2 DEF CreateWallet, CreateService, NoJob, AtKeys
  <2> QED
    BY <2>1, NotAtKeys
<1>3. ASSUME NEW p \in Passwords, NEW q \in Passwords, Update(p, q) PROVE KeyWork'
  <2>1. ~AtKeys'
    BY <1>3 DEF Update, NoJob, AtKeys
  <2> QED
    BY <2>1, NotAtKeys
<1>4. CASE WriteWallet
  <2>1. job'.do \in {"none", "wallet"}
    BY <1>0, <1>4, NoJobFields DEF WriteWallet, JF, At
  <2> QED
    BY <2>1, NotAtKeys DEF AtKeys
<1>5. CASE FillService
  <2>1. job'.do \in {"none", "service"}
    BY <1>0, <1>5, NoJobFields DEF FillService, JF, At
  <2> QED
    BY <2>1, NotAtKeys DEF AtKeys
<1>6. CASE UpdateWallet
  <2>1. job'.do = "update" /\ job'.at # "key"
    BY <1>0, <1>6 DEF UpdateWallet, Keystore, Reencrypt, At, JF
  <2> QED
    BY <2>1, NotAtKeys DEF AtKeys
<1>7. CASE ListKeys
  <2>1. job'.do = "update" /\ job'.at = "key" /\ job'.left = Live /\ UNCHANGED keys
    BY <1>0, <1>7 DEF ListKeys, At, JF
  <2> QED
    BY <2>1 DEF KeyWork, Converting, Discarding, Rotating, Replacing, Live
<1>8. CASE UpdateUser \/ ResetDone \/ Restart
  <2>1. job'.do = "none"
    BY <1>8, NoJobFields DEF UpdateUser, ResetDone, Restart
  <2> QED
    BY <2>1, NotAtKeys DEF AtKeys
<1>9. CASE ResetWallet
  <2>1. CASE At("reset", "user")
    <3>1. job'.do = "reset" /\ job'.at = "discard" /\ job'.left = Live /\ UNCHANGED keys
      BY <1>0, <1>9, <2>1 DEF ResetWallet, At, JF
    <3> QED
      BY <3>1 DEF KeyWork, Converting, Discarding, Rotating, Replacing, Live
  <2>2. CASE ~At("reset", "user")
    <3>1. job'.do = "reset" /\ job'.at \in {"written", "phrase", "user"}
      BY <1>0, <1>9, <2>2 DEF ResetWallet, At, JF
    <3> QED
      BY <3>1, NotAtKeys DEF AtKeys
  <2> QED
    BY <2>1, <2>2
<1>10. ASSUME NEW c \in Chains, NEW backup_owner \in BOOLEAN, CreateSafe(c, backup_owner) \/ UpdateSafe(c, backup_owner) PROVE KeyWork'
  <2>1. job'.do \in {"none", "safe"}
    BY <1>10, <1>i DEF CreateSafe, UpdateSafe, CanSign, NoJob
  <2> QED
    BY <2>1, NotAtKeys DEF AtKeys
<1>11. ASSUME NEW sync \in BOOLEAN, UpdateAll(sync) PROVE KeyWork'
  <2>1. job'.do = "all"
    BY <1>11 DEF UpdateAll, NoJob
  <2> QED
    BY <2>1, NotAtKeys DEF AtKeys
<1>12. CASE MakeSafe \/ UpdateEach
  <2>1. job'.do \in {"none", "safe", "all"}
    BY <1>0, <1>12, NoJobFields DEF MakeSafe, UpdateEach, At, JF
  <2> QED
    BY <2>1, NotAtKeys DEF AtKeys
<1>13. ASSUME NEW c \in Chains, Sign(c) \/ Mine(c) PROVE KeyWork'
  <2>1. UNCHANGED <<job, keys, services, keysPw, minted, bundles, data>>
    BY <1>13 DEF Sign, Mine, vars
  <2> QED
    BY <2>1, LastSame, KeyWorkSame
<1>14. ASSUME NEW strict \in BOOLEAN, Complete(strict) PROVE KeyWork'
  <2>1. job'.do = "complete" /\ job'.at = "wallets"
    BY <1>14 DEF Complete, NoJob
  <2> QED
    BY <2>1, NotAtKeys DEF AtKeys
<1>15. CASE MoveOld
  <2>1. job'.do = "complete" /\ job'.at # "services"
    BY <1>0, <1>15 DEF MoveOld, At, JF
  <2> QED
    BY <2>1, NotAtKeys DEF AtKeys
<1>16. CASE Close
  BY <1>16, NoJobFields, NotAtKeys DEF Close, AtKeys
<1>17. CASE UNCHANGED allVars
  <2>1. UNCHANGED <<job, keys, services, keysPw, minted, bundles, data>>
    BY <1>17 DEF allVars, vars
  <2> QED
    BY <2>1, LastSame, KeyWorkSame
<1>18. CASE UpdateKey \/ Discard \/ Rotate \/ Replace
  BY <1>18, UpdateKeyWork, DiscardWork, RotateWork, ReplaceWork
<1>19. CASE CopyNew \/ Move
  BY <1>19, CopyWork, MoveWork
<1> QED
  BY <1>1, <1>2, <1>3, <1>4, <1>5, <1>6, <1>7, <1>8, <1>9, <1>10, <1>11, <1>12, <1>13, <1>14, <1>15, <1>16, <1>17, <1>18, <1>19
  DEF Next, AccountNext, Running
-----------------------------------------------------------------------------
\* Nothing is begun at first.
LEMMA InitiallyKeys == RecoveryInit => Agents /\ KeyWork
<1> SUFFICES ASSUME RecoveryInit PROVE Agents /\ KeyWork
  OBVIOUS
<1>1. job.do = "none" /\ data.last = 0 /\ DOMAIN data.newKeys = {} /\ minted = 0 /\ DOMAIN keys = {} /\ DOMAIN services = {}
  <2>1. DOMAIN <<>> = {}
    OBVIOUS
  <2>2. job = NoJob /\ keys = <<>> /\ services = <<>> /\ minted = 0 /\ data = [last |-> 0, newKeys |-> <<>>]
    BY DEF RecoveryInit, Init
  <2> QED
    BY <2>1, <2>2, NoJobFields
<1>2. IsFiniteSet({})
  BY FS_EmptySet
<1> QED
  BY <1>1, <1>2 DEF Agents, Numbered, Employed, Held, Holding, Paired, KeyWork, Converting, Discarding, Rotating, Replacing

\* A request that answers with success has the user's file, the keystore and
\* the keys where it said.
LEMMA AnswerStep ==
    ASSUME IInv, KeyWork, [Next]_allVars, answer # "ok", answer' = "ok"
    PROVE  LET new == job.new IN
           /\ user' = new /\ wallet' = wallet /\ Opens(new)
           /\ job.do # "complete" => \A a \in Live : keys[a] = new
           /\ job.do # "update" =>
                \A s \in DOMAIN services : \A a \in services[s] : a \in Live /\ keys[a] = new
<1> USE DEF disk, memory, history, recoveryVars, Go, Answer
<1>1. UpdateUser \/ ResetDone \/ Close
  <2>1. ASSUME AccountNext PROVE UpdateUser \/ ResetDone
    BY <2>1 DEF AccountNext, Running, CreateAccount, Login, CreateWallet, WriteWallet, CreateService, FillService, Update,
                UpdateWallet, ListKeys, UpdateKey, Reset, ResetWallet, Discard, Rotate, Replace, Restart
  <2>2. ASSUME Next, ~AccountNext PROVE Close
    BY <2>2 DEF Next, Prepare, CreateSafe, UpdateSafe, UpdateAll, MakeSafe, UpdateEach, Sign, Mine, Complete, MoveOld, CopyNew, Move, vars
  <2> QED
    BY <2>1, <2>2 DEF allVars, vars
<1>2. CASE UpdateUser
  <2>1. /\ job.do = "update" /\ job.at = "key" /\ job.left = {} /\ ~job.broken
        /\ user' = job.new /\ wallet' = wallet
    BY <1>2 DEF UpdateUser, At
  <2>2. Opens(job.new)
    BY <2>1 DEF IInv, Updating, Rewritten, Opens, Exists
  <2> QED
    BY <2>1, <2>2 DEF KeyWork, Converting
<1>3. CASE ResetDone
  <2>1. /\ job.do = "reset" /\ job.at = "mint" /\ job.left = {}
        /\ user' = user /\ wallet' = wallet
    BY <1>3 DEF ResetDone, At
  <2>2. Opens(job.new) /\ user = job.new
    BY <2>1 DEF IInv, Resetting, Rewritten, Opens, Exists
  <2> QED
    BY <2>1, <2>2 DEF KeyWork, Rotating, Rekeyed
<1>4. CASE Close
  <2>1. /\ job.do = "complete" /\ job.at = "services" /\ job.left = {}
        /\ user' = user /\ wallet' = wallet
    BY <1>4 DEF Close, At
  <2>2. Opens(job.new) /\ user = job.new
    BY <2>1 DEF IInv, Completing, Rewritten, Opens, Exists
  <2> QED
    BY <2>1, <2>2 DEF KeyWork, Replacing, Rekeyed
<1> QED
  BY <1>1, <1>2, <1>3, <1>4
-----------------------------------------------------------------------------
(* A change of password that was cut short.                                *)

OF == {"old", "new", "whole", "tried"}

\* Nobody is answered while a request runs; the managers have a password when
\* the session has one.
Serving ==
    /\ job.do # "none" => answer = ""
    /\ job.do \in {"service", "wallet"} => session # None
    /\ session # None => keysPw # None

\* The passwords of the change begun last.
Pair == {origin.old, origin.new}

\* Whatever the old password opened then, one of the two opens now.
InPair ==
    /\ Exists => wallet.key \in Pair \cup {Torn}
    /\ walletPw \in Pair \cup {None}
    /\ keysPw \in Pair \cup {None}
    /\ \A a \in Live : keys[a] \in Pair \cup {Torn}

\* The requests that may run beside it.
Bystanding ==
    /\ job.do \notin {"reset", "complete"}
    /\ job.do = "update" => job.old = origin.old /\ job.new = origin.new /\ ~job.broken
    /\ job.do = "wallet" => job.new \in Pair

Unfinished ==
    /\ DOMAIN origin = OF
    /\ origin.whole =>
        /\ user = origin.old /\ user # None
        /\ InPair /\ Bystanding
        /\ answer = "broken" => \E a \in Live : keys[a] = Torn

Retrying == Serving /\ Unfinished

\* Steps that have nothing to do with it.
LEMMA UnfinishedSame ==
    ASSUME Unfinished, UNCHANGED <<origin, user, walletPw, keysPw, keys>>,
           wallet'.key = wallet.key, wallet'.config = wallet.config,
           answer' \in {answer, "", "ok", "failed"},
           job' = job \/ (job.do \notin {"update", "reset", "complete", "wallet"})'
    PROVE  Unfinished'
<1>1. Exists' = Exists /\ Live' = Live /\ Pair' = Pair
  BY DEF Exists, Live, Pair
<1>2. InPair => InPair'
  BY <1>1 DEF InPair
<1>3. Bystanding => Bystanding'
  BY <1>1 DEF Bystanding
<1> QED
  BY <1>1, <1>2, <1>3 DEF Unfinished

LEMMA RetryingSame ==
    Retrying /\ UNCHANGED <<origin, user, wallet, walletPw, keysPw, keys, session, job, answer>> => Retrying'
  BY DEF Retrying, Serving, Unfinished, InPair, Bystanding, Exists, Live, Pair

\* No change is begun, or it is over.
LEMMA UnfinishedNot == DOMAIN origin' = OF /\ ~origin'.whole => Unfinished'
  BY DEF Unfinished

LEMMA NoOriginFields == DOMAIN NoOrigin = OF /\ ~NoOrigin.whole
  BY DEF NoOrigin, OF

\* The steps of an account's requests.
LEMMA AccountServing == IInv /\ Serving /\ AccountNext => Serving'
<1> SUFFICES ASSUME IInv, Serving, AccountNext PROVE Serving'
  OBVIOUS
<1> USE DEF disk, memory, history, Go, Answer, Serving
<1>0. DOMAIN job = JF /\ (session # None => walletPw # None) /\ (Idle => job.do = "none")
  BY NoJobFields DEF IInv, Shapes, People, Idle
<1>1. ASSUME NEW p \in Passwords, CreateAccount(p) PROVE Serving'
  BY <1>1, <1>0, PasswordsAssumption DEF CreateAccount, SetPassword
<1>2. ASSUME NEW p \in Passwords, Login(p) PROVE Serving'
  BY <1>2, <1>0, PasswordsAssumption DEF Login, SetPassword
<1>3. CASE CreateWallet
  BY <1>3, <1>0 DEF CreateWallet, NoJob
<1>4. CASE WriteWallet
  BY <1>4, <1>0, NoJobFields DEF WriteWallet, At, JF
<1>5. ASSUME NEW s \in Services, CreateService(s) PROVE Serving'
  BY <1>5, <1>0 DEF CreateService, NoJob
<1>6. CASE FillService
  BY <1>6, <1>0, NoJobFields DEF FillService, At, JF
<1>7. ASSUME NEW p \in Passwords, NEW q \in Passwords, Update(p, q) PROVE Serving'
  BY <1>7, <1>0, PasswordsAssumption DEF Update, NoJob
<1>8. CASE UpdateWallet
  <2>1. UNCHANGED <<answer, keysPw, session>> /\ job.do = "update" /\ job'.do = "update"
    BY <1>8, <1>0 DEF UpdateWallet, Keystore, Reencrypt, At, JF
  <2> QED
    BY <2>1
<1>9. CASE ListKeys
  BY <1>9, <1>0 DEF ListKeys, At, JF
<1>10. CASE UpdateKey
  <2>1. UNCHANGED <<keysPw, session>> /\ (job'.do = "none" \/ (job'.do = "update" /\ job.do = "update" /\ answer' = answer))
    BY <1>10, <1>0, NoJobFields DEF UpdateKey, At, JF
  <2> QED
    BY <2>1
<1>11. CASE UpdateUser
  <2>1. keysPw' = job.new /\ job.new # None /\ job'.do = "none"
    BY <1>11, NoJobFields, PasswordsAssumption DEF UpdateUser, At, IInv, Updating, People
  <2> QED
    BY <2>1
<1>12. ASSUME NEW p \in Passwords, Reset(p) PROVE Serving'
  BY <1>12, <1>0 DEF Reset, NoJob
<1>13. CASE ResetWallet
  BY <1>13, <1>0 DEF ResetWallet, At, JF
<1>14. CASE Discard
  BY <1>14, <1>0 DEF Discard, At, JF
<1>15. CASE Rotate
  <2>1. job.do = "reset" /\ job.new # None
    BY <1>15, PasswordsAssumption DEF Rotate, At, IInv, Resetting, People
  <2>2. job'.do = "none" \/ (job'.do = "reset" /\ answer' = answer)
    BY <1>15, <1>0, <2>1, NoJobFields DEF Rotate, JF
  <2>3. session' = session /\ keysPw' \in {keysPw, job.new}
    BY <1>15 DEF Rotate
  <2> QED
    BY <2>1, <2>2, <2>3
<1>16. CASE Replace
  BY <1>16, <1>0 DEF Replace, At, JF
<1>17. CASE ResetDone
  BY <1>17, <1>0, NoJobFields DEF ResetDone
<1>18. CASE Restart
  BY <1>18, <1>0, NoJobFields DEF Restart, SetPassword
<1> QED
  BY <1>1, <1>2, <1>3, <1>4, <1>5, <1>6, <1>7, <1>8, <1>9, <1>10, <1>11, <1>12, <1>13, <1>14, <1>15, <1>16, <1>17, <1>18
  DEF AccountNext, Running

LEMMA AccountUnfinished == IInv /\ Agents /\ KeyWork /\ Retrying /\ AccountNext => Unfinished'
<1> SUFFICES ASSUME IInv, Agents, KeyWork, Serving, Unfinished, AccountNext PROVE Unfinished'
  BY DEF Retrying
<1> USE DEF disk, memory, history, Go, Answer
<1>0. /\ DOMAIN job = JF /\ DOMAIN wallet = WF /\ DOMAIN origin = OF
      /\ (session # None => walletPw # None) /\ (Idle => job.do = "none")
  BY NoJobFields DEF IInv, Shapes, People, Idle, Unfinished
\* what is left to show where the change stays the one begun last
<1> DEFINE Kept == origin.whole => /\ user' = origin.old /\ user' # None
                                   /\ InPair' /\ Bystanding'
                                   /\ answer' = "broken" => \E a \in Live' : keys'[a] = Torn
<1>k. UNCHANGED origin /\ Kept => Unfinished'
  BY <1>0 DEF Unfinished
<1>1. ASSUME NEW p \in Passwords, CreateAccount(p) PROVE Unfinished'
  <2>1. ~origin'.whole /\ origin' = origin
    BY <1>1 DEF CreateAccount, Unfinished
  <2> QED
    BY <1>0, <2>1, UnfinishedNot
<1>2. ASSUME NEW p \in Passwords, Login(p) PROVE Unfinished'
  <2>1. /\ UNCHANGED <<origin, user, wallet, keys, job>> /\ user = p
        /\ walletPw' = p /\ keysPw' = p /\ answer' = ""
    BY <1>2 DEF Login, SetPassword
  <2> QED
    BY <1>k, <2>1 DEF Unfinished, InPair, Bystanding, Exists, Live, Pair
<1>3. CASE CreateWallet
  <2>1. /\ UNCHANGED <<origin, user, wallet, keys, walletPw, keysPw>>
        /\ job'.do = "wallet" /\ job'.new = walletPw /\ answer' = "" /\ walletPw # None
    BY <1>3, <1>0 DEF CreateWallet, NoJob
  <2> QED
    BY <1>k, <2>1 DEF Unfinished, InPair, Bystanding, Exists, Live, Pair
<1>4. CASE WriteWallet
  <2>1. /\ UNCHANGED <<origin, user, keys, walletPw, keysPw, answer>> /\ job.do = "wallet"
        /\ job' = NoJob \/ (job'.do = "wallet" /\ job'.new = job.new)
    BY <1>4, <1>0 DEF WriteWallet, At, JF
  <2>2. ~wallet'.config \/ wallet'.key = job.new
    BY <1>4, <1>0 DEF WriteWallet, At, WF, IInv, Creating
  <2> QED
    BY <1>k, <2>1, <2>2, NoJobFields DEF Unfinished, InPair, Bystanding, Exists, Live, Pair
<1>5. ASSUME NEW s \in Services, CreateService(s) PROVE Unfinished'
  <2>1. UNCHANGED <<origin, user, wallet, keys, walletPw, keysPw>> /\ job'.do = "service" /\ answer' = ""
    BY <1>5 DEF CreateService, NoJob
  <2> QED
    BY <2>1, UnfinishedSame
<1>6. CASE FillService
  <2>1. /\ UNCHANGED <<origin, user, wallet, walletPw, keysPw, answer>> /\ job.do = "service"
        /\ job'.do \in {"service", "none"} /\ answer = "" /\ keysPw # None
    BY <1>6, <1>0, NoJobFields DEF FillService, Serving, JF
  <2>2. \A a \in Live' : (a \in Live /\ keys'[a] = keys[a]) \/ keys'[a] \in {Torn, keysPw}
    BY <1>6 DEF FillService, Mint, Over, Live
  <2> QED
    BY <1>k, <2>1, <2>2 DEF Unfinished, InPair, Bystanding, Exists, Pair
<1>7. ASSUME NEW p \in Passwords, NEW q \in Passwords, Update(p, q) PROVE Unfinished'
  <2>1. /\ job'.do = "update" /\ job'.old = p /\ job'.new = q /\ ~job'.broken
        /\ UNCHANGED <<user, wallet, keys>> /\ user = p /\ user # None
        /\ walletPw' = p /\ keysPw' = p /\ answer' = ""
    BY <1>7 DEF Update, NoJob, Accepts
  <2>2. CASE origin.old = p /\ origin.new = q
    <3>1. origin' = [origin EXCEPT !.tried = 2]
      BY <1>7, <2>2 DEF Update, Begun
    <3>2. DOMAIN origin' = OF /\ origin'.old = p /\ origin'.new = q /\ origin'.whole = origin.whole
      BY <1>0, <2>2, <3>1 DEF OF
    <3> QED
      BY <2>1, <2>2, <3>2 DEF Unfinished, InPair, Bystanding, Exists, Live, Pair
  <2>3. CASE ~(origin.old = p /\ origin.new = q)
    <3>1. origin' = [old |-> p, new |-> q, whole |-> Whole(p), tried |-> 1]
      BY <1>7, <2>3 DEF Update, Begun
    <3>2. DOMAIN origin' = OF /\ origin'.old = p /\ origin'.new = q /\ (origin'.whole <=> Whole(p))
      BY <3>1 DEF OF
    <3> QED
      BY <2>1, <3>2 DEF Whole, Opens, Unfinished, InPair, Bystanding, Exists, Live, Pair
  <2> QED
    BY <2>2, <2>3
<1>8. CASE UpdateWallet
  <2>1. /\ UNCHANGED <<origin, user, keys, keysPw, answer>> /\ job.do = "update"
        /\ job'.do = "update" /\ job'.old = job.old /\ job'.new = job.new /\ job'.broken = job.broken
        /\ walletPw' \in {walletPw, job.new}
    BY <1>8, <1>0 DEF UpdateWallet, Keystore, Reencrypt, At, JF
  <2>2. wallet'.key \in {wallet.key, Torn, job.new} /\ wallet'.config = wallet.config
    BY <1>8, <1>0 DEF UpdateWallet, Keystore, Reencrypt, At, WF
  <2>3. Exists' => Exists \/ wallet'.key \in {Torn, job.new}
    BY <2>2 DEF Exists
  <2> QED
    BY <1>k, <2>1, <2>2, <2>3 DEF Unfinished, InPair, Bystanding, Live, Pair
<1>9. CASE ListKeys
  <2>1. /\ UNCHANGED <<origin, user, wallet, keys, walletPw, keysPw, answer>> /\ job.do = "update"
        /\ job'.do = "update" /\ job'.old = job.old /\ job'.new = job.new /\ job'.broken = job.broken
    BY <1>9, <1>0 DEF ListKeys, At, JF
  <2> QED
    BY <1>k, <2>1 DEF Unfinished, InPair, Bystanding, Exists, Live, Pair
<1>10. CASE UpdateKey
  <2>0. /\ UNCHANGED <<origin, user, wallet, walletPw, keysPw>>
        /\ job.do = "update" /\ job.left \subseteq Live
        /\ job.old # Torn /\ job.new # Lost /\ answer = ""
    BY <1>10, PasswordsAssumption DEF UpdateKey, At, KeyWork, Converting, IInv, Updating, People, Serving
  <2>1. PICK a \in job.left :
         /\ keys' = IF keys[a] = job.old THEN [keys EXCEPT ![a] = job.new] ELSE keys
         /\ IF keys[a] = Torn THEN Answer("broken")
            ELSE /\ job' = [job EXCEPT !.left = @ \ {a},
                                       !.broken = @ \/ keys[a] \notin {job.old, job.new}]
                 /\ UNCHANGED answer
    BY <1>10 DEF UpdateKey
  <2>2. CASE keys[a] = Torn
    <3>1. keys' = keys /\ job'.do = "none" /\ a \in Live
      BY <2>0, <2>1, <2>2, NoJobFields
    <3> QED
      BY <1>k, <2>0, <2>2, <3>1 DEF Unfinished, InPair, Bystanding, Exists, Live, Pair
  <2>3. CASE keys[a] # Torn
    <3>1. /\ answer' = answer
          /\ job'.do = "update" /\ job'.old = job.old /\ job'.new = job.new
          /\ job'.broken <=> job.broken \/ keys[a] \notin {job.old, job.new}
      BY <1>0, <2>0, <2>1, <2>3 DEF JF
    <3>2. Live' = Live /\ \A b \in Live : keys'[b] \in {keys[b], job.new}
      BY <2>0, <2>1 DEF Live
    <3>3. origin.whole => keys[a] \in {job.old, job.new}
      BY <2>0, <2>3 DEF Unfinished, InPair, Bystanding, Pair
    <3> QED
      BY <1>k, <2>0, <3>1, <3>2, <3>3 DEF Unfinished, InPair, Bystanding, Exists, Pair
  <2> QED
    BY <2>2, <2>3
<1>11. CASE UpdateUser
  <2>1. CASE job.broken
    <3>1. ~origin'.whole /\ origin' = origin
      BY <1>11, <2>1 DEF UpdateUser, At, Unfinished, Bystanding
    <3> QED
      BY <1>0, <3>1, UnfinishedNot
  <2>2. CASE ~job.broken
    BY <1>11, <2>2, NoOriginFields, UnfinishedNot DEF UpdateUser
  <2> QED
    BY <2>1, <2>2
<1>12. ASSUME NEW p \in Passwords, Reset(p) PROVE Unfinished'
  BY <1>12, NoOriginFields, UnfinishedNot DEF Reset
<1>13. CASE ResetWallet \/ Discard \/ Rotate \/ Replace \/ ResetDone
  <2>1. job.do = "reset" /\ origin' = origin
    BY <1>13 DEF ResetWallet, Discard, Rotate, Replace, ResetDone, At
  <2> QED
    BY <1>0, <2>1, UnfinishedNot DEF Unfinished, Bystanding
<1>14. CASE Restart
  <2>1. /\ UNCHANGED <<origin, user, wallet, keys>> /\ job'.do = "none"
        /\ walletPw' = None /\ keysPw' = None /\ answer' = ""
    BY <1>14, NoJobFields DEF Restart, SetPassword
  <2> QED
    BY <1>k, <2>1 DEF Unfinished, InPair, Bystanding, Exists, Live, Pair
<1> QED
  BY <1>1, <1>2, <1>3, <1>4, <1>5, <1>6, <1>7, <1>8, <1>9, <1>10, <1>11, <1>12, <1>13, <1>14 DEF AccountNext, Running

\* The steps of the recovery.
LEMMA RetryingSteps == IInv /\ Agents /\ KeyWork /\ Retrying /\ [Next]_allVars => Retrying'
<1> SUFFICES ASSUME IInv, Agents, KeyWork, Retrying, [Next]_allVars PROVE Retrying'
  OBVIOUS
<1> USE DEF disk, memory, history, recoveryVars, Go, Answer
<1>0. DOMAIN job = JF /\ DOMAIN wallet = WF /\ DOMAIN origin = OF /\ (Idle => job.do = "none")
  BY NoJobFields DEF IInv, Shapes, Idle, Retrying, Unfinished
<1>a. Serving /\ Unfinished
  BY DEF Retrying
<1>1. CASE AccountNext /\ UNCHANGED recoveryVars
  BY <1>1, <1>a, AccountServing, AccountUnfinished DEF Retrying
<1>2. ASSUME NEW p \in Passwords, Prepare(p) PROVE Retrying'
  <2>1. UNCHANGED <<origin, user, wallet, walletPw, keysPw, keys, job, session>> /\ job.do = "none" /\ answer' = ""
    BY <1>2, <1>0 DEF Prepare
  <2> QED
    BY <1>a, <2>1, UnfinishedSame DEF Serving, Retrying
<1>3. ASSUME NEW c \in Chains, NEW backup_owner \in BOOLEAN, CreateSafe(c, backup_owner) PROVE Retrying'
  <2>1. UNCHANGED <<origin, user, wallet, walletPw, keysPw, keys, session>> /\ job'.do = "safe" /\ answer' = ""
    BY <1>3 DEF CreateSafe, NoJob
  <2> QED
    BY <1>a, <2>1, UnfinishedSame DEF Serving, Retrying
<1>4. ASSUME NEW c \in Chains, NEW backup_owner \in BOOLEAN, UpdateSafe(c, backup_owner) PROVE Retrying'
  <2>1. UNCHANGED <<origin, user, wallet, walletPw, keysPw, keys, session, job, answer>>
    BY <1>4 DEF UpdateSafe
  <2> QED
    BY <2>1, RetryingSame
<1>5. ASSUME NEW sync \in BOOLEAN, UpdateAll(sync) PROVE Retrying'
  <2>1. UNCHANGED <<origin, user, wallet, walletPw, keysPw, keys, session>> /\ job'.do = "all" /\ answer' = ""
    BY <1>5 DEF UpdateAll, NoJob
  <2> QED
    BY <1>a, <2>1, UnfinishedSame DEF Serving, Retrying
<1>6. CASE MakeSafe \/ UpdateEach
  <2>1. UNCHANGED <<origin, user, walletPw, keysPw, keys, session, answer>> /\ job.do # "none"
    BY <1>6 DEF MakeSafe, UpdateEach
  <2>2. job'.do \in {"none", "safe", "all"}
    BY <1>0, <1>6, NoJobFields DEF MakeSafe, UpdateEach, At, JF
  <2>3. wallet'.key = wallet.key /\ wallet'.config = wallet.config
    BY <1>0, <1>6 DEF MakeSafe, UpdateEach, WF
  <2> QED
    BY <1>a, <2>1, <2>2, <2>3, UnfinishedSame DEF Serving, Retrying
<1>7. ASSUME NEW c \in Chains, Sign(c) \/ Mine(c) PROVE Retrying'
  <2>1. UNCHANGED <<origin, user, wallet, walletPw, keysPw, keys, session, job, answer>>
    BY <1>7 DEF Sign, Mine, vars
  <2> QED
    BY <2>1, RetryingSame
<1>8. ASSUME NEW strict \in BOOLEAN, Complete(strict) PROVE Retrying'
  <2>1. job'.do = "complete" /\ answer' = "" /\ UNCHANGED <<session, keysPw>> /\ origin' = NoOrigin
    BY <1>8 DEF Complete, NoJob
  <2> QED
    BY <1>a, <2>1, UnfinishedNot, NoOriginFields DEF Serving, Retrying
<1>9. CASE MoveOld \/ CopyNew \/ Move
  <2>1. /\ job.do = "complete" /\ UNCHANGED <<origin, session, keysPw>>
        /\ job'.do = "none" \/ (job'.do = "complete" /\ answer' = answer)
    BY <1>9, <1>0, NoJobFields DEF MoveOld, CopyNew, Move, At, JF
  <2>2. ~origin.whole
    BY <1>a, <2>1 DEF Unfinished, Bystanding
  <2> QED
    BY <1>0, <1>a, <2>1, <2>2, UnfinishedNot DEF Serving, Retrying
<1>10. CASE Close
  <2>1. job'.do = "none" /\ UNCHANGED <<session, keysPw>> /\ origin' = NoOrigin
    BY <1>10, NoJobFields DEF Close
  <2> QED
    BY <1>a, <2>1, UnfinishedNot, NoOriginFields DEF Serving, Retrying
<1>11. CASE UNCHANGED allVars
  <2>1. UNCHANGED <<origin, user, wallet, walletPw, keysPw, keys, session, job, answer>>
    BY <1>11 DEF allVars, vars
  <2> QED
    BY <2>1, RetryingSame
<1> QED
  BY <1>1, <1>2, <1>3, <1>4, <1>5, <1>6, <1>7, <1>8, <1>9, <1>10, <1>11 DEF Next

LEMMA InitiallyRetrying == RecoveryInit => Retrying
  BY NoJobFields, NoOriginFields DEF RecoveryInit, Init, Retrying, Serving, Unfinished
-----------------------------------------------------------------------------
(* The owners of the Safes.                                                *)

\* The wallets there have been: of a bundle, or made after one was completed.
Ids == 0 .. Len(bundles) \cup {n \in Nat : n > MaxBundles}

\* What is known of each Safe, and of a swap that was signed for it.
Registered ==
    /\ DOMAIN owners = Chains /\ DOMAIN sent = Chains /\ wallet.safes \subseteq Chains
    /\ Len(bundles) <= MaxBundles /\ wallet.id \in Ids
    /\ \A c \in Chains : /\ owners[c] \subseteq Ids \cup {Backup}
                         /\ sent[c].drop # Backup /\ sent[c].add \in 0 .. Len(bundles)
    /\ job.do = "safe" => job.left \subseteq Chains /\ job.new \in {Backup, None}

\* A Safe that has the last bundle's wallet before the recovery is completed got
\* it by a swap the backup owner signed, who is still there, and no other swap
\* is on its way.
Granted == data.last # 0 /\ ~Last.old =>
    /\ wallet.id # data.last
    /\ \A c \in Chains : data.last \in owners[c] => Backup \in owners[c] /\ sent[c] = NoSwap

\* That is so of all Safes while it is completed.
Handing == job.do = "complete" =>
    /\ Last.old /\ Last.safes \subseteq Chains
    /\ \A c \in Last.safes : data.last \in owners[c] /\ Backup \in owners[c] /\ sent[c] = NoSwap
    /\ job.at \in {"account", "keys", "services"} /\ Last.wallet =>
         Exists /\ wallet.id = data.last /\ wallet.safes = Last.safes

Ownership == Registered /\ Granted /\ Handing

\* Requests that touch neither the Safes nor the recovery.
LEMMA OwnershipQuiet ==
    ASSUME Ownership, UNCHANGED <<owners, sent, bundles, data>>,
           wallet'.id = wallet.id, wallet'.safes = wallet.safes,
           (job.do \notin {"safe", "complete"})'
    PROVE  Ownership'
  BY LastSame DEF Ownership, Registered, Granted, Handing, Ids

\* Requests that give some Safes the wallet and perhaps the backup owner.
LEMMA OwnershipSet ==
    ASSUME IInv, Ownership, UNCHANGED <<sent, bundles, data, wallet>>, DOMAIN owners' = DOMAIN owners,
           \A c \in Chains : owners'[c] = owners[c] \/ owners'[c] \subseteq {wallet.id, Backup},
           (job.do \notin {"safe", "complete"})'
    PROVE  Ownership'
<1>1. Last' = Last /\ Ids' = Ids
  BY LastSame DEF Ids
<1>2. Registered'
  BY <1>1 DEF Ownership, Registered
<1>3. Granted'
  <2>1. SUFFICES ASSUME data.last # 0, ~Last.old, NEW c \in Chains, data.last \in owners'[c]
                 PROVE  Backup \in owners'[c] /\ sent[c] = NoSwap
    BY <1>1 DEF Ownership, Granted
  <2>2. wallet.id # data.last /\ Backup # data.last
    BY <2>1, BackupAssumption DEF Ownership, Granted, IInv, Shelf
  <2> QED
    BY <2>1, <2>2, BackupAssumption DEF Ownership, Granted
<1> QED
  BY <1>2, <1>3 DEF Ownership, Handing

LEMMA SetBackupOwners ==
    ASSUME Ownership, NEW c, NEW backup_owner, SetBackup(c, backup_owner)
    PROVE  /\ DOMAIN owners' = DOMAIN owners
           /\ \A d \in Chains : owners'[d] = owners[d] \/ owners'[d] \subseteq {wallet.id, Backup}
<1>1. CASE owners' = owners
  BY <1>1
<1>2. CASE owners' = [owners EXCEPT ![c] = {wallet.id} \cup IF backup_owner THEN {Backup} ELSE {}]
  BY <1>2 DEF Ownership, Registered
<1> QED
  BY <1>1, <1>2 DEF SetBackup

\* The account's requests.
LEMMA AccountOwnership == IInv /\ Ownership /\ AccountNext /\ UNCHANGED recoveryVars => Ownership'
<1> SUFFICES ASSUME IInv, Ownership, AccountNext, UNCHANGED recoveryVars PROVE Ownership'
  OBVIOUS
<1> USE DEF disk, memory, history, recoveryVars, Go, Answer
<1>0. DOMAIN job = JF /\ DOMAIN wallet = WF /\ (Idle => job.do = "none")
  BY NoJobFields DEF IInv, Shapes, Idle
<1>1. wallet'.id = wallet.id /\ wallet'.safes = wallet.safes
  <2>1. ASSUME WriteWallet \/ UpdateWallet \/ ResetWallet
        PROVE  wallet'.id = wallet.id /\ wallet'.safes = wallet.safes
    BY <2>1, <1>0 DEF WriteWallet, UpdateWallet, Keystore, Reencrypt, ResetWallet, WF
  <2>2. ASSUME ~(WriteWallet \/ UpdateWallet \/ ResetWallet)
        PROVE  wallet' = wallet
    BY <2>2 DEF AccountNext, Running, CreateAccount, Login, CreateWallet, CreateService, FillService, Update,
                ListKeys, UpdateKey, UpdateUser, Reset, Discard, Rotate, Replace, ResetDone, Restart
  <2> QED
    BY <2>1, <2>2
<1>2. job'.do \notin {"safe", "complete"}
  <2>1. ASSUME Running PROVE job'.do \in {"none", job.do} /\ job.do \in {"wallet", "service", "update", "reset"}
    <3>1. ASSUME WriteWallet \/ FillService PROVE job'.do \in {"none", job.do} /\ job.do \in {"wallet", "service"}
      BY <3>1, <1>0, NoJobFields DEF WriteWallet, FillService, JF
    <3>2. ASSUME UpdateWallet \/ ListKeys PROVE job'.do \in {"none", job.do} /\ job.do = "update"
      BY <3>2, <1>0, NoJobFields DEF UpdateWallet, Keystore, Reencrypt, ListKeys, At, JF
    <3>3. ASSUME UpdateKey \/ UpdateUser PROVE job'.do \in {"none", job.do} /\ job.do = "update"
      BY <3>3, <1>0, NoJobFields DEF UpdateKey, UpdateUser, At, JF
    <3>4. ASSUME ResetWallet \/ Discard \/ Replace PROVE job'.do \in {"none", job.do} /\ job.do = "reset"
      BY <3>4, <1>0, NoJobFields DEF ResetWallet, Discard, Replace, At, JF
    <3>5. ASSUME Rotate \/ ResetDone PROVE job'.do \in {"none", job.do} /\ job.do = "reset"
      BY <3>5, <1>0, NoJobFields DEF Rotate, ResetDone, At, JF
    <3> QED
      BY <2>1, <3>1, <3>2, <3>3, <3>4, <3>5 DEF Running
  <2>2. ASSUME ~Running PROVE job'.do \in {"none", "wallet", "service", "update", "reset"}
    BY <2>2, <1>0, NoJobFields
    DEF AccountNext, CreateAccount, Login, CreateWallet, CreateService, Update, Reset, Restart, NoJob
  <2> QED
    BY <2>1, <2>2
<1> QED
  BY <1>1, <1>2, OwnershipQuiet

\* A new bundle's wallet owns no Safe, and no swap is about it.
LEMMA PrepareOwnership ==
    ASSUME IInv, Agents, Ownership, NEW p \in Passwords, Prepare(p)
    PROVE  Ownership'
<1>1. /\ NewBundle(p) /\ \E S : bundles \in Seq(S)
      /\ Len(bundles) < MaxBundles /\ UNCHANGED <<services, wallet, owners, sent, job>>
      /\ job.do = "none"
  BY DEF Prepare, disk, Idle, NoJob, IInv, Shelf
<1>2. /\ data'.last = Len(bundles) + 1
      /\ Len(bundles) \in Nat /\ Len(bundles') = Len(bundles) + 1
  <2>1. \E fresh :
          /\ data' = [last |-> Len(bundles) + 1, newKeys |-> Over(fresh, data.newKeys)]
          /\ Len(bundles) \in Nat /\ Len(bundles') = Len(bundles) + 1
    <3>1. DOMAIN data = DF /\ services' = services
      BY <1>1 DEF IInv, Shapes
    <3> QED
      BY <1>1, <3>1, NewBundleAgents
  <2> QED
    BY <2>1
<1>3. Ids \subseteq Ids' /\ 0 .. Len(bundles) \subseteq 0 .. Len(bundles')
  BY <1>2 DEF Ids
<1>4. Len(bundles) + 1 \notin Ids \cup {Backup}
  BY <1>1, <1>2, BackupAssumption DEF Ids
<1>5. Registered'
  <2>1. Len(bundles') <= MaxBundles
    BY <1>1, <1>2, BackupAssumption
  <2> QED
    BY <1>1, <1>3, <2>1 DEF Ownership, Registered
<1>6. Granted'
  BY <1>1, <1>2, <1>4 DEF Ownership, Registered, Granted
<1> QED
  BY <1>1, <1>5, <1>6 DEF Ownership, Handing

\* create_safe's transactions.
LEMMA MakeSafeOwnership == IInv /\ Ownership /\ MakeSafe => Ownership'
<1> SUFFICES ASSUME IInv, Ownership, MakeSafe PROVE Ownership'
  OBVIOUS
<1> USE DEF Go
<1>0. /\ DOMAIN job = JF /\ DOMAIN wallet = WF /\ job.do = "safe"
      /\ UNCHANGED <<sent, bundles, data>> /\ Last' = Last /\ Ids' = Ids
  BY LastSame DEF IInv, Shapes, MakeSafe, Ids
<1>1. PICK c \in job.left :
         \/ /\ At("safe", "store") /\ Go("owner")
            /\ wallet' = [wallet EXCEPT !.safes = @ \cup {c}]
            /\ owners' = [owners EXCEPT ![c] = {wallet.id}]
         \/ /\ At("safe", "owner") /\ job' = NoJob
            /\ owners' = [owners EXCEPT ![c] = @ \cup ({job.new} \ {None})]
            /\ UNCHANGED wallet
         \/ job' = NoJob /\ UNCHANGED <<wallet, owners>>
  BY DEF MakeSafe
<1>2. c \in Chains /\ job.left \subseteq Chains /\ job.new \in {Backup, None} /\ DOMAIN owners = Chains
  BY <1>0 DEF Ownership, Registered
<1>3. CASE /\ At("safe", "store") /\ Go("owner") /\ wallet' = [wallet EXCEPT !.safes = @ \cup {c}]
           /\ owners' = [owners EXCEPT ![c] = {wallet.id}]
  <2>1. /\ job'.do = "safe" /\ job'.left = job.left /\ job'.new = job.new
        /\ wallet'.id = wallet.id /\ wallet'.safes = wallet.safes \cup {c}
    BY <1>0, <1>3 DEF JF, WF
  <2>2. Registered'
    BY <1>0, <1>2, <1>3, <2>1 DEF Ownership, Registered
  <2>3. Granted'
    BY <1>0, <1>2, <1>3, <2>1 DEF Ownership, Registered, Granted
  <2> QED
    BY <2>1, <2>2, <2>3 DEF Ownership, Handing
<1>4. CASE /\ job' = NoJob /\ owners' = [owners EXCEPT ![c] = @ \cup ({job.new} \ {None})] /\ UNCHANGED wallet
  <2>1. job'.do = "none"
    BY <1>4, NoJobFields
  <2>2. /\ DOMAIN owners' = Chains
        /\ \A d \in Chains : owners[d] \subseteq owners'[d] /\ owners'[d] \subseteq owners[d] \cup {Backup}
    BY <1>2, <1>4
  <2>3. Registered'
    BY <1>0, <1>4, <2>1, <2>2 DEF Ownership, Registered
  <2>4. Granted'
    <3>1. data.last # Backup
      BY BackupAssumption DEF IInv, Shelf
    <3> QED
      BY <1>0, <1>4, <2>2, <3>1 DEF Ownership, Granted
  <2> QED
    BY <2>1, <2>3, <2>4 DEF Ownership, Handing
<1>5. CASE job' = NoJob /\ UNCHANGED <<wallet, owners>>
  BY <1>0, <1>5, NoJobFields, OwnershipQuiet
<1> QED
  BY <1>1, <1>3, <1>4, <1>5

\* The backup owner signs for the last bundle, and what was signed is mined.
LEMMA SignOwnership ==
    ASSUME IInv, Ownership, NEW c \in Chains, Sign(c)
    PROVE  Ownership'
<1>1. /\ UNCHANGED <<wallet, job, owners, bundles, data>> /\ data.last # 0
      /\ job.do = "none" /\ data.last \notin owners[c] /\ Last' = Last /\ Ids' = Ids
  BY LastSame, NoJobFields DEF Sign, vars, disk, Idle, Ids
<1>2. PICK drop \in {None, wallet.id} : sent' = [sent EXCEPT ![c] = [add |-> data.last, drop |-> drop]]
  BY DEF Sign
<1>3. drop # Backup /\ data.last \in 0 .. Len(bundles)
  BY BackupAssumption DEF Ownership, Registered, Ids, IInv, Shelf
<1>4. Registered'
  BY <1>1, <1>2, <1>3 DEF Ownership, Registered
<1>5. Granted'
  BY <1>1, <1>2 DEF Ownership, Registered, Granted
<1> QED
  BY <1>1, <1>4, <1>5 DEF Ownership, Handing

LEMMA MineOwnership ==
    ASSUME IInv, Ownership, NEW c \in Chains, Mine(c)
    PROVE  Ownership'
<1>1. /\ UNCHANGED <<wallet, job, bundles, data>> /\ sent[c] # NoSwap
      /\ sent' = [sent EXCEPT ![c] = NoSwap] /\ Last' = Last /\ Ids' = Ids
  BY LastSame DEF Mine, vars, disk, Ids
<1>2. DOMAIN owners' = Chains /\ \A d \in Chains : d # c => owners'[d] = owners[d]
  BY DEF Mine, Ownership, Registered
<1>3. \/ owners' = owners
      \/ /\ Backup \in owners[c] /\ sent[c].add \notin owners[c]
         /\ owners'[c] = (owners[c] \ {sent[c].drop}) \cup {sent[c].add}
  BY DEF Mine, Ownership, Registered
<1>4. Len(bundles) \in Nat /\ sent[c].add \in Ids /\ sent[c].drop # Backup
  <2>1. PICK S : bundles \in Seq(S)
    BY DEF IInv, Shelf
  <2> QED
    BY <2>1 DEF Ownership, Registered, Ids
<1>5. NoSwap.drop # Backup /\ NoSwap.add \in 0 .. Len(bundles)
  BY <1>4, BackupAssumption DEF NoSwap
<1>6. Registered'
  BY <1>1, <1>2, <1>3, <1>4, <1>5 DEF Ownership, Registered
<1>7. Granted'
  <2>1. SUFFICES ASSUME data.last # 0, ~Last.old, NEW d \in Chains, data.last \in owners'[d]
                 PROVE  Backup \in owners'[d] /\ sent'[d] = NoSwap
    BY <1>1 DEF Ownership, Granted
  <2>2. CASE d # c
    BY <1>1, <1>2, <2>1, <2>2 DEF Ownership, Registered, Granted
  <2>3. CASE d = c
    <3>1. sent'[d] = NoSwap
      BY <1>1, <2>3 DEF Ownership, Registered
    <3>2. Backup \in owners'[d]
      BY <1>1, <1>3, <1>4, <2>1, <2>3 DEF Ownership, Granted
    <3> QED
      BY <3>1, <3>2
  <2> QED
    BY <2>2, <2>3
<1>8. Handing'
  <2>1. SUFFICES ASSUME job.do = "complete" PROVE Handing'
    BY <1>1 DEF Handing
  <2>2. c \notin Last.safes
    BY <1>1, <2>1 DEF Ownership, Handing
  <2>3. /\ Last.old /\ Last.safes \subseteq Chains
        /\ \A d \in Last.safes : d # c /\ data.last \in owners[d] /\ Backup \in owners[d] /\ sent[d] = NoSwap
    BY <2>1, <2>2 DEF Ownership, Handing
  <2>4. \A d \in Last.safes : data.last \in owners'[d] /\ Backup \in owners'[d] /\ sent'[d] = NoSwap
    BY <1>1, <1>2, <2>3 DEF Ownership, Registered
  <2>5. job.at \in {"account", "keys", "services"} /\ Last.wallet =>
          Exists' /\ wallet.id = data.last /\ wallet.safes = Last.safes
    BY <1>1, <2>1 DEF Ownership, Handing, Exists
  <2> QED
    BY <1>1, <2>3, <2>4, <2>5 DEF Handing
<1> QED
  BY <1>6, <1>7, <1>8 DEF Ownership

\* complete_recovery begins when all Safes have the new wallet.
LEMMA CompleteOwnership ==
    ASSUME IInv, Ownership, NEW strict \in BOOLEAN, Complete(strict)
    PROVE  Ownership'
<1>1. /\ UNCHANGED <<wallet, owners, sent, data>>
      /\ job'.do = "complete" /\ job'.at = "wallets"
      /\ data.last # 0 /\ ~Last.old /\ Fits(strict)
  BY DEF Complete, disk, NoJob
<1>2. DOMAIN Last = BF /\ Last' = [Last EXCEPT !.old = TRUE, !.safes = Safes] /\ Len(bundles') = Len(bundles)
  BY CompleteLast
<1>3. Last'.old = TRUE /\ Last'.safes = Safes /\ Safes \subseteq Chains /\ Ids' = Ids
  BY <1>2 DEF BF, Safes, Ids, Ownership, Registered
<1>4. \A c \in Safes : data.last \in owners[c]
  BY <1>1 DEF Fits
<1>5. Registered'
  BY <1>1, <1>2, <1>3 DEF Ownership, Registered
<1>6. Granted'
  BY <1>3 DEF Granted
<1>7. Handing'
  BY <1>1, <1>3, <1>4 DEF Ownership, Granted, Handing
<1> QED
  BY <1>5, <1>6, <1>7 DEF Ownership

\* The wallets are moved away, and the new one takes over what the old one had.
LEMMA MoveOldOwnership == IInv /\ Ownership /\ MoveOld => Ownership'
<1> SUFFICES ASSUME IInv, Ownership, MoveOld PROVE Ownership'
  OBVIOUS
<1>1. /\ UNCHANGED <<owners, sent, bundles, data>> /\ job.do = "complete"
      /\ Last' = Last /\ Ids' = Ids /\ data.last # 0
  BY LastSame DEF MoveOld, At, Ids, IInv, Completing
<1>2. job'.do = "complete" /\ job'.at \in {"user", "copy"}
  BY DEF MoveOld, At, Go, IInv, Shapes, JF
<1>3. Last.old
  BY <1>1 DEF Ownership, Handing
<1>4. wallet'.id \in Ids /\ wallet'.safes \subseteq Chains
  <2>1. CASE wallet' = wallet
    BY <2>1 DEF Ownership, Registered
  <2>2. CASE wallet' = [NoWallet EXCEPT !.id = MaxBundles + data.last]
    <3>1. wallet'.id = MaxBundles + data.last /\ wallet'.safes = {}
      BY <2>2 DEF NoWallet
    <3>2. data.last \in 0 .. Len(bundles) /\ Len(bundles) <= MaxBundles
      BY DEF IInv, Shelf, Ownership, Registered
    <3>3. MaxBundles + data.last \in Nat /\ MaxBundles + data.last > MaxBundles
      BY <1>1, <3>2, BackupAssumption
    <3> QED
      BY <3>1, <3>3 DEF Ids
  <2> QED
    BY <2>1, <2>2 DEF MoveOld
<1>5. Registered'
  BY <1>1, <1>2, <1>4 DEF Ownership, Registered
<1> QED
  BY <1>1, <1>2, <1>3, <1>5 DEF Ownership, Granted, Handing

LEMMA CopyNewOwnership == IInv /\ Ownership /\ CopyNew => Ownership'
<1> SUFFICES ASSUME IInv, Ownership, CopyNew PROVE Ownership'
  OBVIOUS
<1> USE DEF Go
<1>1. /\ UNCHANGED <<owners, sent, bundles, data>> /\ job.do = "complete" /\ DOMAIN job = JF
      /\ Last' = Last /\ Ids' = Ids /\ data.last # 0
  BY LastSame DEF CopyNew, recoveryVars, At, Ids, IInv, Completing, Shapes
<1>2. Last.old /\ Last.safes \subseteq Chains
  BY <1>1 DEF Ownership, Handing
<1>3. CASE At("complete", "copy") /\ Go("account")
  <2>1. job'.do = "complete" /\ job'.at = "account"
    BY <1>1, <1>3 DEF JF
  <2>2. wallet' = IF Last.wallet
                  THEN [id |-> data.last, key |-> job.new, phrase |-> job.new, config |-> TRUE, safes |-> Last.safes]
                  ELSE wallet
    BY <1>3 DEF CopyNew, At
  <2>3. CASE Last.wallet
    <3>1. wallet'.id = data.last /\ wallet'.safes = Last.safes /\ wallet'.config = TRUE /\ wallet'.key = job.new
      BY <2>2, <2>3
    <3>2. job.new # None /\ data.last \in Ids
      BY <1>1, PasswordsAssumption DEF IInv, Completing, People, Shelf, Ids
    <3>3. Exists'
      BY <3>1, <3>2 DEF Exists
    <3>4. Registered'
      BY <1>1, <1>2, <2>1, <3>1, <3>2 DEF Ownership, Registered
    <3> QED
      BY <1>1, <1>2, <2>1, <3>1, <3>3, <3>4 DEF Ownership, Granted, Handing
  <2>4. CASE ~Last.wallet
    <3>1. Registered'
      BY <1>1, <2>1, <2>2, <2>4 DEF Ownership, Registered
    <3> QED
      BY <1>1, <1>2, <2>1, <2>4, <3>1 DEF Ownership, Granted, Handing
  <2> QED
    BY <2>3, <2>4
<1>4. CASE ~(At("complete", "copy") /\ Go("account"))
  <2>1. wallet' = wallet /\ job'.do = "complete" /\ job.at \in {"account", "keys"}
    BY <1>1, <1>4 DEF CopyNew, At, JF
  <2>2. Registered' /\ Exists' = Exists
    BY <1>1, <2>1 DEF Ownership, Registered, Exists
  <2> QED
    BY <1>1, <1>2, <2>1, <2>2 DEF Ownership, Granted, Handing
<1> QED
  BY <1>3, <1>4

LEMMA OwnershipSteps == IInv /\ Agents /\ Ownership /\ [Next]_allVars => Ownership'
<1> SUFFICES ASSUME IInv, Agents, Ownership, [Next]_allVars PROVE Ownership'
  OBVIOUS
<1> USE DEF disk, memory, history, recoveryVars, Go, Answer
<1>0. DOMAIN job = JF /\ (Idle => job.do = "none")
  BY NoJobFields DEF IInv, Shapes, Idle
<1>1. CASE AccountNext /\ UNCHANGED recoveryVars
  BY <1>1, AccountOwnership
<1>2. ASSUME NEW p \in Passwords, Prepare(p) PROVE Ownership'
  BY <1>2, PrepareOwnership
<1>3. ASSUME NEW c \in Chains, NEW backup_owner \in BOOLEAN, CreateSafe(c, backup_owner) PROVE Ownership'
  <2>1. /\ UNCHANGED <<owners, sent, bundles, data, wallet>>
        /\ job'.do = "safe" /\ job'.left = {c} /\ job'.new \in {Backup, None}
    BY <1>3 DEF CreateSafe, NoJob
  <2> QED
    BY <2>1, LastSame DEF Ownership, Registered, Granted, Handing, Ids
<1>4. ASSUME NEW c \in Chains, NEW backup_owner \in BOOLEAN, UpdateSafe(c, backup_owner) PROVE Ownership'
  <2>1. UNCHANGED <<sent, bundles, data, wallet>> /\ job'.do = "none" /\ SetBackup(c, backup_owner)
    BY <1>0, <1>4 DEF UpdateSafe, CanSign
  <2> QED
    BY <2>1, SetBackupOwners, OwnershipSet
<1>5. ASSUME NEW sync \in BOOLEAN, UpdateAll(sync) PROVE Ownership'
  <2>1. UNCHANGED <<owners, sent, bundles, data, wallet>> /\ job'.do = "all"
    BY <1>5 DEF UpdateAll, NoJob
  <2> QED
    BY <2>1, OwnershipQuiet
<1>6. CASE MakeSafe
  BY <1>6, MakeSafeOwnership
<1>7. CASE UpdateEach
  <2>1. UNCHANGED <<sent, bundles, data, wallet>> /\ job.do = "all"
    BY <1>7 DEF UpdateEach
  <2>2. job'.do \in {"none", "all"}
    BY <1>0, <1>7, NoJobFields DEF UpdateEach, JF
  <2>3. owners' = owners \/ \E c \in job.left : SetBackup(c, TRUE)
    BY <1>7 DEF UpdateEach
  <2> QED
    BY <2>1, <2>2, <2>3, SetBackupOwners, OwnershipSet
<1>8. ASSUME NEW c \in Chains, Sign(c) \/ Mine(c) PROVE Ownership'
  BY <1>8, SignOwnership, MineOwnership
<1>9. ASSUME NEW strict \in BOOLEAN, Complete(strict) PROVE Ownership'
  BY <1>9, CompleteOwnership
<1>10. CASE MoveOld \/ CopyNew
  BY <1>10, MoveOldOwnership, CopyNewOwnership
<1>11. CASE Move
  <2>1. UNCHANGED <<owners, sent, bundles, data, wallet>> /\ job.do = "complete" /\ job.at = "services"
    BY <1>11 DEF Move, At
  <2>2. job'.do = "none" \/ (job'.do = "complete" /\ job'.at = "services")
    BY <1>0, <1>11, <2>1, NoJobFields DEF Move, JF
  <2>3. CASE job'.do = "none"
    BY <2>1, <2>3, OwnershipQuiet
  <2>4. CASE job'.do = "complete" /\ job'.at = "services"
    BY <2>1, <2>4, LastSame DEF Ownership, Registered, Granted, Handing, Ids, Exists
  <2> QED
    BY <2>2, <2>3, <2>4
<1>12. CASE Close
  <2>1. UNCHANGED <<owners, sent, bundles, wallet>> /\ job'.do = "none" /\ data'.last = 0
    BY <1>12, NoJobFields DEF Close, IInv, Shapes, DF
  <2> QED
    BY <2>1 DEF Ownership, Registered, Granted, Handing, Ids
<1>13. CASE UNCHANGED allVars
  <2>1. UNCHANGED <<owners, sent, bundles, data, wallet, job>>
    BY <1>13 DEF allVars, vars
  <2> QED
    BY <2>1, LastSame DEF Ownership, Registered, Granted, Handing, Ids, Exists
<1> QED
  BY <1>1, <1>2, <1>3, <1>4, <1>5, <1>6, <1>7, <1>8, <1>9, <1>10, <1>11, <1>12, <1>13 DEF Next

LEMMA InitiallyOwnership == RecoveryInit => Ownership
<1> SUFFICES ASSUME RecoveryInit PROVE Ownership
  OBVIOUS
<1>1. /\ job.do = "none" /\ data.last = 0 /\ wallet.safes = {} /\ wallet.id = 0 /\ Len(bundles) = 0
      /\ owners = [c \in Chains |-> {}] /\ sent = [c \in Chains |-> NoSwap]
  BY DEF RecoveryInit, Init, NoJob, NoWallet
<1>2. NoSwap.drop # Backup /\ NoSwap.add = 0 /\ 0 <= MaxBundles
  BY BackupAssumption DEF NoSwap
<1> QED
  BY <1>1, <1>2 DEF Ownership, Registered, Granted, Handing, Ids
-----------------------------------------------------------------------------
\* The invariant with all that was added to it.
Sound == IInv /\ Agents /\ KeyWork /\ Retrying /\ Ownership

\* It holds for any constants.
THEOREM Soundness == Spec => []Sound
<1>1. RecoveryInit => Sound
  BY Initially, InitiallyKeys, InitiallyRetrying, InitiallyOwnership DEF Sound
<1>2. Sound /\ [Next]_allVars => Sound'
  BY RecoverySteps, RecoveryAgents, KeyWorkSteps, RetryingSteps, OwnershipSteps DEF Sound
<1> QED
  BY <1>1, <1>2, PTL DEF Spec

\* Whatever request is answered with success, after any history of requests,
\* kills and failures, has changed everything it was to change.
THEOREM SuccessIsWhole == Spec => AnswerHolds
<1>1. Sound /\ [Next]_allVars =>
        [answer # "ok" /\ answer' = "ok"
          => LET new == job.new IN
             /\ user' = new /\ wallet' = wallet /\ Opens(new)
             /\ job.do # "complete" => \A a \in Live : keys[a] = new
             /\ job.do # "update" =>
                  \A s \in DOMAIN services : \A a \in services[s] : a \in Live /\ keys[a] = new]_allVars
  BY AnswerStep DEF Sound
<1> QED
  BY Soundness, <1>1, PTL DEF Spec, AnswerHolds

\* A change of password that found everything under the old password, and was
\* cut short any number of times at any write, is accepted again and converges.
THEOREM RetriesConverge == Spec => []RetryConverges
<1>1. Sound => RetryConverges
  <2> SUFFICES ASSUME Unfinished, Idle, origin.whole,
                      Torn \notin {wallet.key} \cup {keys[a] : a \in Live}
               PROVE  Accepts(origin.old, origin.new) /\ answer # "broken"
    BY DEF Sound, Retrying, RetryConverges
  <2> QED
    BY DEF Unfinished, InPair, Pair, Accepts, Opens
<1> QED
  BY Soundness, <1>1, PTL DEF Spec

\* A recovery that is completed leaves no Safe behind and none without somebody
\* who can recover it again, whatever was signed, mined late or changed between.
THEOREM RecoveriesHold == Spec => Recovered
<1>1. Sound => (At("complete", "services") /\ Last.wallet
              => /\ Exists /\ wallet.safes = Last.safes
                 /\ \A c \in wallet.safes : wallet.id \in owners[c] /\ owners[c] # {wallet.id})
  <2> SUFFICES ASSUME IInv, Ownership, At("complete", "services"), Last.wallet
               PROVE  /\ Exists /\ wallet.safes = Last.safes
                      /\ \A c \in wallet.safes : wallet.id \in owners[c] /\ owners[c] # {wallet.id}
    BY DEF Sound
  <2>1. /\ Exists /\ wallet.id = data.last /\ wallet.safes = Last.safes
        /\ \A c \in Last.safes : data.last \in owners[c] /\ Backup \in owners[c]
    BY DEF At, Ownership, Handing
  <2>2. data.last # Backup
    BY BackupAssumption DEF IInv, Shelf
  <2> QED
    BY <2>1, <2>2
<1>2. Sound /\ [Next]_allVars =>
        [At("complete", "services") /\ answer' = "ok" /\ Last.wallet
          => /\ Exists /\ wallet.safes = Last.safes
             /\ \A c \in wallet.safes : wallet.id \in owners[c] /\ owners[c] # {wallet.id}]_allVars
  BY <1>1
<1> QED
  BY Soundness, <1>2, PTL DEF Spec, Recovered
=============================================================================
