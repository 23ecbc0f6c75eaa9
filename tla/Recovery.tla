------------------------------ MODULE Recovery ------------------------------
(***************************************************************************)
(* Wallet recovery (wallet_recovery_manager.py) beside the account's own    *)
(* requests: a logged-out user prepares a bundle with a new wallet and new  *)
(* agent keys, swaps the owner of each Master Safe with the backup owner's  *)
(* own wallet, and completes, which moves the old files away and copies the *)
(* new ones in.                                                             *)
(***************************************************************************)
EXTENDS Account, Sequences

CONSTANTS
    Chains,    \* chains with a Master Safe
    Backup,    \* the user's own wallet, the backup owner of the Safes
    MaxBundles \* bound on the bundles prepared

\* Wallets have numbers; the backup owner's own wallet is none of them.
ASSUME BackupAssumption == MaxBundles \in Nat /\ Backup \notin Nat \cup {None}

VARIABLES
    bundles, \* the bundle directories: new objects, and whether the old ones are there
    data,    \* wallet_recovery.json: last_prepared_bundle_id and new_agent_keys
    owners,  \* the owners of the Safe on each chain: wallets and Backup
    sent,    \* the owner swap signed and not mined yet, on each chain
    canonical \* the wallet's canonical_backup_owner is set

recoveryVars == <<bundles, data, owners, sent, canonical>>
allVars == <<vars, recoveryVars>>

NoSwap == [add |-> 0, drop |-> None]

RecoveryInit ==
    /\ Init
    /\ bundles = <<>>
    /\ data = [last |-> 0, newKeys |-> <<>>]
    /\ owners = [c \in Chains |-> {}]
    /\ sent = [c \in Chains |-> NoSwap]
    /\ canonical = FALSE

\* Neither the session nor the wallet manager may hold a password.
LoggedOut == session = None /\ walletPw = None

\* The Safes listed by the wallets the root holds.
Safes == IF Exists THEN wallet.safes ELSE {}
Last == bundles[data.last]
Swapped == {c \in Safes : data.last \in owners[c]}

-----------------------------------------------------------------------------
\* The session's password opens the wallet, which signs transactions.
CanSign == Idle /\ session # None /\ Exists /\ wallet.key = walletPw

\* POST /api/wallet/safe, with a backup owner or without.  A Safe the wallet
\* lists already is left as it is.
CreateSafe(c, backup_owner) ==
    /\ CanSign /\ c \notin wallet.safes /\ sent[c] = NoSwap
    /\ job' = [NoJob EXCEPT !.do = "safe", !.at = "store", !.left = {c},
                            !.new = IF backup_owner \/ canonical THEN Backup ELSE None]
    /\ answer' = ""
    /\ UNCHANGED <<disk, memory, minted, history, kills, recoveryVars>>

\* create_safe: the Safe is made, then stored, then given its backup owner;
\* each of the transactions may fail and end the request.
MakeSafe ==
    /\ job.do = "safe"
    /\ \E c \in job.left :
         \/ /\ At("safe", "store") /\ Go("owner")
            /\ wallet' = [wallet EXCEPT !.safes = @ \cup {c}]
            /\ owners' = [owners EXCEPT ![c] = {wallet.id}]
         \/ /\ At("safe", "owner") /\ job' = NoJob
            /\ owners' = [owners EXCEPT ![c] = @ \cup ({job.new} \ {None})]
            /\ UNCHANGED wallet
         \/ job' = NoJob /\ UNCHANGED <<wallet, owners>>
    /\ UNCHANGED <<user, backup, keys, services, memory, minted, answer, history, kills, bundles, data, sent, canonical>>

\* update_backup_owner: whatever stands beside the wallet is added to, swapped
\* with, or removed.
SetBackup(c, backup_owner) ==
    owners' = IF wallet.id \in owners[c] /\ Cardinality(owners[c]) <= 2
              THEN [owners EXCEPT ![c] = {wallet.id} \cup IF backup_owner THEN {Backup} ELSE {}]
              ELSE owners

\* PUT /api/wallet/safe for one chain.
UpdateSafe(c, backup_owner) ==
    /\ CanSign /\ c \in wallet.safes
    /\ requests < MaxRequests /\ requests' = requests + 1
    /\ SetBackup(c, backup_owner)
    /\ UNCHANGED <<disk, memory, minted, job, answer, known, origin, kills, bundles, data, sent, canonical>>

\* PUT /api/wallet/safe for all chains, which needs another backup owner than
\* the canonical one, and POST /api/wallet/safe/backup_owner/sync, which needs
\* one.
UpdateAll(sync) ==
    /\ CanSign /\ sync <=> canonical
    /\ requests < MaxRequests /\ requests' = requests + 1
    /\ job' = [NoJob EXCEPT !.do = "all", !.left = wallet.safes]
    /\ answer' = ""
    /\ UNCHANGED <<disk, memory, minted, known, origin, kills, recoveryVars>>

\* Chain after chain, a failure on one does not stop the rest; then the
\* canonical backup owner is stored.
UpdateEach ==
    /\ job.do = "all"
    /\ \/ \E c \in job.left :
            /\ job' = [job EXCEPT !.left = @ \ {c}]
            /\ SetBackup(c, TRUE) \/ UNCHANGED owners
            /\ UNCHANGED canonical
       \/ /\ job.left = {} /\ job' = NoJob
          /\ canonical' = TRUE
          /\ UNCHANGED owners
    /\ UNCHANGED <<disk, memory, minted, answer, history, kills, bundles, data, sent>>
-----------------------------------------------------------------------------
\* prepare_recovery: the last bundle again once some Safe has its wallet and
\* the password opens it; else a new one.  It raises when the last bundle was
\* prepared before there was a wallet, and when a Safe has no owner beside its
\* wallet.  Nothing refers to a bundle before
\* wallet_recovery.json is stored, so that a kill before it changes nothing.
NewBundle(p) ==
    LET agents == UNION {services[s] : s \in DOMAIN services}
        fresh == CHOOSE f \in [agents -> minted + 1 .. minted + Cardinality(agents)] :
                    \A a, b \in agents : a # b => f[a] # f[b]
    IN  /\ minted + Cardinality(agents) <= MaxKeys
        /\ minted' = minted + Cardinality(agents)
        /\ bundles' = Append(bundles,
                        [password |-> p, wallet |-> Exists, keys |-> {fresh[a] : a \in agents},
                         safes |-> {}, old |-> FALSE])
        /\ data' = [last |-> Len(bundles) + 1, newKeys |-> Over(fresh, data.newKeys)]

Prepare(p) ==
    /\ Idle /\ user # None /\ LoggedOut
    /\ \A c \in Safes : owners[c] \ {wallet.id} # {}
    /\ data.last # 0 => Swapped = {} /\ (Exists => Last.wallet)
    /\ Len(bundles) < MaxBundles /\ requests < MaxRequests /\ requests' = requests + 1
    /\ NewBundle(p)
    /\ answer' = ""
    /\ UNCHANGED <<disk, memory, job, known, origin, kills, owners, sent, canonical>>

\* The user, shown the last bundle, signs with the backup owner a swap of a
\* Safe's owner, or the mere addition of the new one; it is mined later.
Sign(c) ==
    /\ Idle /\ data.last # 0 /\ sent[c] = NoSwap /\ c \in Safes /\ Last.wallet
    /\ data.last \notin owners[c] /\ Backup \in owners[c]
    /\ \E drop \in {None, wallet.id} :
         /\ drop \in owners[c] \cup {None}
         /\ sent' = [sent EXCEPT ![c] = [add |-> data.last, drop |-> drop]]
    /\ UNCHANGED <<vars, bundles, data, owners, canonical>>

\* It reverts when the owners have changed too much.
Mine(c) ==
    /\ sent[c] # NoSwap
    /\ owners' = IF /\ Backup \in owners[c]
                    /\ sent[c].drop \in owners[c] \cup {None}
                    /\ sent[c].add \notin owners[c]
                 THEN [owners EXCEPT ![c] = (@ \ {sent[c].drop}) \cup {sent[c].add}]
                 ELSE owners
    /\ sent' = [sent EXCEPT ![c] = NoSwap]
    /\ UNCHANGED <<vars, bundles, data, canonical>>

\* Mutant: no owner is asked for.
FitsNone(strict) == Last.wallet = Exists

\* complete_recovery's checks: every Safe has the new wallet and, unless the
\* request waives it, just one other owner, the same everywhere and not the old
\* wallet; an account without a Safe has none.
Fits(strict) ==
    LET others == UNION {owners[c] \ {data.last} : c \in Safes} IN
    /\ Last.wallet = Exists
    /\ \A c \in Safes : data.last \in owners[c]
    /\ strict /\ Exists => /\ Cardinality(others) = 1 /\ wallet.id \notin others
                           /\ \A c \in Safes : Cardinality(owners[c]) = 2

Complete(strict) ==
    /\ Idle /\ user # None /\ LoggedOut
    /\ data.last # 0 /\ ~Last.old /\ Fits(strict)
    /\ job' = [NoJob EXCEPT !.do = "complete", !.at = "wallets", !.new = Last.password]
    /\ bundles' = [bundles EXCEPT ![data.last].old = TRUE, ![data.last].safes = Safes]
    /\ answer' = "" /\ origin' = NoOrigin /\ known' = known \cup {Last.password}
    /\ UNCHANGED <<disk, memory, minted, requests, kills, data, owners, sent, canonical>>

\* The wallets and user.json are moved away.
MoveOld ==
    /\ \/ /\ At("complete", "wallets") /\ Go("user")
          /\ wallet' = [NoWallet EXCEPT !.id = MaxBundles + data.last] \* the next one made here
          /\ backup' = None /\ canonical' = FALSE /\ UNCHANGED user
       \/ /\ At("complete", "user") /\ Go("copy")
          /\ user' = None /\ UNCHANGED <<wallet, backup, canonical>>
    /\ UNCHANGED <<keys, services, memory, minted, answer, history, kills, bundles, data, owners, sent>>

\* The new wallets, user.json and keys are copied in.  The old keys stay.
CopyNew ==
    /\ \/ /\ At("complete", "copy") /\ Go("account")
          /\ wallet' = IF Last.wallet
                       THEN [id |-> data.last, key |-> job.new, phrase |-> job.new, config |-> TRUE, safes |-> Last.safes]
                       ELSE wallet
          /\ UNCHANGED <<user, keys>>
       \/ /\ At("complete", "account") /\ Go("keys")
          /\ user' = job.new /\ UNCHANGED <<wallet, keys>>
       \/ /\ At("complete", "keys")
          /\ keys' = Over([a \in Last.keys |-> job.new], keys)
          /\ job' = [job EXCEPT !.at = "services", !.left = DOMAIN services]
          /\ UNCHANGED <<user, wallet>>
    /\ UNCHANGED <<backup, services, memory, minted, answer, history, kills, recoveryVars>>

\* Mutant: the services keep their agents.
MoveNot ==
    /\ At("complete", "services")
    /\ \E s \in job.left : job' = [job EXCEPT !.left = @ \ {s}]
    /\ UNCHANGED <<disk, memory, minted, answer, history, kills, recoveryVars>>

\* A service's agents are replaced by those made for them; one that has none,
\* made after the bundle was prepared, ends the recovery half way.
Move ==
    /\ At("complete", "services")
    /\ \E s \in job.left :
         IF services[s] \subseteq DOMAIN data.newKeys
         THEN /\ services' = [services EXCEPT ![s] = {data.newKeys[a] : a \in @}]
              /\ job' = [job EXCEPT !.left = @ \ {s}]
              /\ UNCHANGED answer
         ELSE Answer("failed") /\ UNCHANGED services
    /\ UNCHANGED <<user, wallet, backup, keys, memory, minted, history, kills, recoveryVars>>

\* The bundle is done with.
Close ==
    /\ At("complete", "services") /\ job.left = {}
    /\ data' = [data EXCEPT !.last = 0]
    /\ known' = {job.new} /\ origin' = NoOrigin
    /\ Answer("ok")
    /\ UNCHANGED <<disk, memory, minted, requests, kills, bundles, owners, sent, canonical>>

Next ==
    \/ AccountNext /\ UNCHANGED recoveryVars
    \/ \E p \in Passwords : Prepare(p)
    \/ \E c \in Chains, backup_owner \in BOOLEAN : CreateSafe(c, backup_owner) \/ UpdateSafe(c, backup_owner)
    \/ \E sync \in BOOLEAN : UpdateAll(sync)
    \/ MakeSafe \/ UpdateEach
    \/ \E c \in Chains : Sign(c) \/ Mine(c)
    \/ \E strict \in BOOLEAN : Complete(strict)
    \/ MoveOld \/ CopyNew \/ Move \/ Close

Spec == RecoveryInit /\ [][Next]_allVars
-----------------------------------------------------------------------------
\* The wallet in use is never locked out: its keystore, or the newest backup of
\* it, opens with the password of the last change that succeeded or with one
\* asked for since, whatever was cut short or went wrong in between.
NeverLocked == Exists => {wallet.key, backup} \cap known # {}

\* A change that began with everything under the old password and was
\* interrupted succeeds when it is asked for again with the same passwords: it
\* is not refused, and no key is reported unreadable.  Torn files are left out.
RetryConverges ==
    Idle /\ origin.whole /\ Torn \notin {wallet.key} \cup {keys[a] : a \in Live}
        => Accepts(origin.old, origin.new) /\ answer # "broken"

\* A change answered with success has changed everything: user.json, the
\* keystore and every key in use have the new password; after the seed-phrase
\* reset and after a recovery the keys the services name are among those.
AnswerHolds ==
    [][answer # "ok" /\ answer' = "ok"
        => LET new == job.new IN
           /\ user' = new /\ wallet' = wallet /\ Opens(new)
           /\ job.do # "complete" => \A a \in Live : keys[a] = new
           /\ job.do # "update" =>
                \A s \in DOMAIN services : \A a \in services[s] : a \in Live /\ keys[a] = new]_allVars

\* A recovery of an account with a wallet that is answered with success leaves
\* a wallet that owns every Safe it lists, these are all the Safes of the wallet
\* it replaced, and each has another owner, who can recover it again.
Recovered ==
    [][At("complete", "services") /\ answer' = "ok" /\ Last.wallet
        => /\ Exists /\ wallet.safes = Last.safes
           /\ \A c \in wallet.safes : wallet.id \in owners[c] /\ owners[c] # {wallet.id}]_allVars

\* What the docstring of update_password says: half committed, a change
\* converges when it is asked for again.  (cli.py:319.  Here with the wallet of
\* a recovery that was completed, and whose old keys were left where they are.)
HalfCommitConverges ==
    /\ Idle /\ kills = 0 /\ data.last = 0 /\ Exists /\ wallet.id \in 1 .. MaxBundles
    /\ origin.tried = 2 /\ origin.old # origin.new
    => answer # "broken"
=============================================================================
