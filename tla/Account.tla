------------------------------ MODULE Account ------------------------------
(***************************************************************************)
(* The user's account: user.json, the master wallet's files and the agent  *)
(* keys, all encrypted with the user's password, and the requests that     *)
(* rewrite them one file after the other (cli.py, keys.py,                 *)
(* account/user.py, wallet/master.py).  The handlers run in the event      *)
(* loop, one request at a time; the daemon may be killed between any two   *)
(* writes, and inside those that truncate the file first.                  *)
(*                                                                         *)
(* A file is the password that opens it: None where there is no file, Torn *)
(* where a write was cut short.                                            *)
(***************************************************************************)
EXTENDS Naturals, FiniteSets

CONSTANTS
    Passwords, \* the passwords the user may choose
    Services,  \* configuration ids of services
    MaxKeys,   \* bound on the agent keys ever minted
    MaxKills,  \* bound on the kills while a request runs
    MaxRequests, \* bound on the changes of passwords and owners and the recoveries asked for
    None, Torn, Lost

\* What stands for an absent, a torn or a renamed file is no password.
ASSUME PasswordsAssumption == Torn # None /\ {None, Torn, Lost} \cap Passwords = {}

VARIABLES
    user,     \* user.json: the password it accepts
    wallet,   \* the wallets directory: keystore, mnemonic blob, ethereum.json
    backup,   \* the newest timestamped copy of the keystore
    keys,     \* the keys directory: address -> password, Torn or Lost
    services, \* agent_addresses of each service's config.json
    session,  \* OperateApp._password
    walletPw, \* MasterWalletManager._password
    keysPw,   \* KeysManager.password
    minted,   \* addresses drawn so far
    job,      \* the request being served
    answer,   \* what the last change answered
    known,    \* history: passwords the user knows may be in force
    origin,   \* history: the change begun last and not answered with success
    kills, requests

disk == <<user, wallet, backup, keys, services>>
memory == <<session, walletPw, keysPw>>
history == <<known, origin, requests>>
vars == <<disk, memory, minted, job, answer, history, kills>>

\* The functions f and g in one; f counts where both are defined.  (The @@ of
\* TLC, written out for the proofs.)
Over(f, g) == [x \in DOMAIN f \cup DOMAIN g |-> IF x \in DOMAIN f THEN f[x] ELSE g[x]]

NoWallet == [id |-> 0, key |-> None, phrase |-> None, config |-> FALSE, safes |-> {}]
NoJob == [do |-> "none", at |-> "", old |-> None, new |-> None, left |-> {}, broken |-> FALSE]
NoOrigin == [old |-> None, new |-> None, whole |-> FALSE, tried |-> 0]

Idle == job = NoJob
At(do, at) == job.do = do /\ job.at = at
Go(at) == job' = [job EXCEPT !.at = at]
Answer(a) == answer' = a /\ job' = NoJob

\* MasterWalletManager.exists, and the wallets it iterates over
Exists == wallet.config /\ wallet.key # None
Opens(p) == Exists => wallet.key = p
\* the address-named files of the keys directory
Live == {a \in DOMAIN keys : keys[a] # Lost}

Init ==
    /\ user = None /\ wallet = NoWallet /\ backup = None
    /\ keys = <<>> /\ services = <<>>
    /\ session = None /\ walletPw = None /\ keysPw = None
    /\ minted = 0 /\ job = NoJob /\ answer = ""
    /\ known = {} /\ origin = NoOrigin
    /\ kills = 0 /\ requests = 0
-----------------------------------------------------------------------------
\* The password setter of OperateApp.
SetPassword(p) == session' = p /\ walletPw' = p /\ keysPw' = p

\* POST /api/account.  The password setter runs migrate_keys, which raises on a
\* torn key file; a login has set the passwords by then.
CreateAccount(p) ==
    /\ Idle /\ user = None
    /\ SetPassword(p)
    /\ user' = IF \E a \in Live : keys[a] = Torn THEN None ELSE p
    /\ known' = known \cup {p} /\ answer' = ""
    /\ UNCHANGED <<wallet, backup, keys, services, minted, job, origin, requests, kills>>

\* POST /api/account/login.
Login(p) ==
    /\ Idle /\ user = p /\ <<session, walletPw, keysPw>> # <<p, p, p>>
    /\ SetPassword(p)
    /\ answer' = ""
    /\ UNCHANGED <<disk, minted, job, history, kills>>

\* POST /api/wallet.  EthereumMasterWallet.new, or import_from_mnemonic, raises
\* when one of its files is there already, as after a kill in the midst of it.
CreateWallet ==
    /\ Idle /\ user # None /\ session # None /\ ~Exists
    /\ wallet.key = None /\ wallet.phrase = None
    /\ job' = [NoJob EXCEPT !.do = "wallet", !.at = "phrase", !.new = walletPw]
    /\ answer' = ""
    /\ UNCHANGED <<disk, memory, minted, history, kills>>

WriteWallet ==
    /\ job.do = "wallet"
    /\ \/ At("wallet", "phrase") /\ wallet' = [wallet EXCEPT !.phrase = job.new] /\ Go("keystore")
       \/ At("wallet", "keystore") /\ wallet' = [wallet EXCEPT !.key = Torn] /\ Go("written")
       \/ At("wallet", "written") /\ wallet' = [wallet EXCEPT !.key = job.new] /\ Go("config")
       \/ At("wallet", "config") /\ wallet' = [wallet EXCEPT !.config = TRUE] /\ job' = NoJob
    /\ UNCHANGED <<user, backup, keys, services, memory, minted, answer, history, kills>>

\* KeysManager.create: a new address; its file is truncated, then written.
Mint(opens) ==
    /\ minted < MaxKeys
    /\ minted' = minted + 1
    /\ keys' = Over(keys, [a \in {minted + 1} |-> opens])

\* ServiceManager.create: the service is stored without agents, a key is made
\* and the service stored again.
CreateService(s) ==
    /\ Idle /\ session # None /\ s \notin DOMAIN services /\ minted < MaxKeys
    /\ services' = Over(services, [t \in {s} |-> {}])
    /\ job' = [NoJob EXCEPT !.do = "service", !.at = "mint", !.left = {s}]
    /\ answer' = ""
    /\ UNCHANGED <<user, wallet, backup, keys, memory, minted, history, kills>>

FillService ==
    /\ job.do = "service"
    /\ \/ /\ At("service", "mint") /\ Mint(Torn) /\ Go("written") /\ UNCHANGED services
       \/ /\ At("service", "written") /\ Go("store")
          /\ keys' = [keys EXCEPT ![minted] = keysPw]
          /\ UNCHANGED <<services, minted>>
       \/ /\ At("service", "store") /\ job' = NoJob
          /\ services' = Over([s \in job.left |-> {minted}], services)
          /\ UNCHANGED <<keys, minted>>
    /\ UNCHANGED <<user, wallet, backup, memory, answer, history, kills>>
-----------------------------------------------------------------------------
(* PUT /api/account with the old password.                                 *)

\* Everything the user has opens with p.
Whole(p) ==
    /\ user = p /\ Opens(p)
    /\ \A a \in Live : keys[a] = p

\* Mutant: the wallet check takes the old password alone.
AcceptsOld(old, new) == user = old /\ Opens(old)

\* A change that is refused writes nothing.
Accepts(old, new) == user = old /\ (Opens(old) \/ Opens(new))

\* A request with the passwords of the change begun last is a retry of it.
Begun(old, new) ==
    origin' = IF origin.old = old /\ origin.new = new
              THEN [origin EXCEPT !.tried = 2]
              ELSE [old |-> old, new |-> new, whole |-> Whole(old), tried |-> 1]

Update(old, new) ==
    /\ Idle /\ user # None /\ Accepts(old, new)
    /\ requests < MaxRequests /\ requests' = requests + 1
    /\ job' = [NoJob EXCEPT !.do = "update", !.at = "keystore", !.old = old, !.new = new]
    /\ walletPw' = old /\ keysPw' = old
    /\ Begun(old, new) /\ known' = known \cup {new} /\ answer' = ""
    /\ UNCHANGED <<disk, session, minted, kills>>

\* Mutant: the keystore is rewritten without a backup.
KeystoreNoBackup ==
    /\ At("update", "keystore")
    /\ IF ~Exists THEN Go("keys") /\ UNCHANGED <<wallet, backup>>
       ELSE IF wallet.key = job.new THEN Go("phrase") /\ UNCHANGED <<wallet, backup>>
       ELSE wallet' = [wallet EXCEPT !.key = Torn] /\ Go("written") /\ UNCHANGED backup

\* EthereumMasterWallet.update_password: a backup, then the keystore is
\* truncated and written; nothing of it when it opens with the new password.
Keystore ==
    /\ At("update", "keystore")
    /\ IF ~Exists THEN Go("keys") /\ UNCHANGED <<wallet, backup>>
       ELSE IF wallet.key = job.new THEN Go("phrase") /\ UNCHANGED <<wallet, backup>>
       ELSE /\ backup' = wallet.key
            /\ wallet' = [wallet EXCEPT !.key = Torn]
            /\ Go("written")

\* _reencrypt_mnemonic: a blob the old password does not open stays.
Reencrypt ==
    /\ At("update", "phrase") /\ Go("keys")
    /\ wallet' = IF wallet.phrase = job.old THEN [wallet EXCEPT !.phrase = job.new] ELSE wallet
    /\ UNCHANGED backup

UpdateWallet ==
    /\ \/ Keystore
       \/ Reencrypt
       \/ /\ At("update", "written") /\ Go("phrase")
          /\ wallet' = [wallet EXCEPT !.key = job.new]
          /\ UNCHANGED backup
    /\ walletPw' = IF job'.at = "keys" THEN job.new ELSE walletPw
    /\ UNCHANGED <<user, keys, services, session, keysPw, minted, answer, history, kills>>

\* KeysManager.update_password begins to list the directory.
ListKeys ==
    /\ At("update", "keys")
    /\ job' = [job EXCEPT !.at = "key", !.left = Live]
    /\ UNCHANGED <<disk, memory, minted, answer, history, kills>>

\* One key: rewritten atomically if the old password opens it, skipped if the
\* new one does, reported at the end if neither; an unreadable file raises.
UpdateKey ==
    /\ At("update", "key")
    /\ \E a \in job.left :
         /\ keys' = IF keys[a] = job.old THEN [keys EXCEPT ![a] = job.new] ELSE keys
         /\ IF keys[a] = Torn THEN Answer("broken")
            ELSE /\ job' = [job EXCEPT !.left = @ \ {a},
                                       !.broken = @ \/ keys[a] \notin {job.old, job.new}]
                 /\ UNCHANGED answer
    /\ UNCHANGED <<user, wallet, backup, services, memory, minted, history, kills>>

\* user.json follows, last, unless some key was broken.
UpdateUser ==
    /\ At("update", "key") /\ job.left = {}
    /\ keysPw' = job.new
    /\ IF job.broken
       THEN Answer("broken") /\ UNCHANGED <<user, known, origin>>
       ELSE /\ user' = job.new /\ known' = {job.new} /\ origin' = NoOrigin
            /\ Answer("ok")
    /\ UNCHANGED <<wallet, backup, keys, services, session, walletPw, minted, requests, kills>>
-----------------------------------------------------------------------------
(* PUT /api/account with the seed phrase, which the user has.              *)

\* is_mnemonic_valid reads the address in the keystore.
PhraseFits == Exists => wallet.key # Torn

Reset(new) ==
    /\ Idle /\ user # None /\ PhraseFits
    /\ minted + Cardinality(DOMAIN services) <= MaxKeys
    /\ requests < MaxRequests /\ requests' = requests + 1
    /\ job' = [NoJob EXCEPT !.do = "reset", !.new = new, !.at = IF Exists THEN "keystore" ELSE "user"]
    /\ walletPw' = IF Exists THEN walletPw ELSE new
    /\ known' = known \cup {new} /\ origin' = NoOrigin /\ answer' = ""
    /\ UNCHANGED <<disk, session, keysPw, minted, kills>>

\* The wallet is rewritten with the phrase in hand, then user.json.
ResetWallet ==
    /\ job.do = "reset"
    /\ \/ /\ At("reset", "keystore") /\ Go("written")
          /\ backup' = wallet.key
          /\ wallet' = [wallet EXCEPT !.key = Torn]
          /\ UNCHANGED <<user, walletPw>>
       \/ /\ At("reset", "written") /\ Go("phrase")
          /\ wallet' = [wallet EXCEPT !.key = job.new]
          /\ UNCHANGED <<user, backup, walletPw>>
       \/ /\ At("reset", "phrase") /\ Go("user")
          /\ wallet' = [wallet EXCEPT !.phrase = job.new]
          /\ walletPw' = job.new
          /\ UNCHANGED <<user, backup>>
       \/ /\ At("reset", "user") /\ user' = job.new
          /\ job' = [job EXCEPT !.at = "discard", !.left = Live]
          /\ UNCHANGED <<wallet, backup, walletPw>>
    /\ UNCHANGED <<keys, services, session, keysPw, minted, answer, history, kills>>

\* discard_all: each file is renamed, or its renaming fails.
Discard ==
    /\ At("reset", "discard")
    /\ \E a \in job.left :
         \/ keys' = [keys EXCEPT ![a] = Lost] /\ job' = [job EXCEPT !.left = @ \ {a}]
         \/ job' = [job EXCEPT !.left = @ \ {a}, !.broken = TRUE] /\ UNCHANGED keys
    /\ UNCHANGED <<user, wallet, backup, services, memory, minted, answer, history, kills>>

\* Mutant: the new keys are made with the password of the session.
RotateUnpinned ==
    /\ At("reset", "discard") /\ job.left = {}
    /\ IF job.broken THEN Answer("failed")
       ELSE /\ UNCHANGED answer
            /\ job' = [job EXCEPT !.at = "mint", !.left = {s \in DOMAIN services : services[s] # {}}]
    /\ UNCHANGED <<disk, memory, minted, history, kills>>

\* The services that load and have agents get new ones under the new password.
Rotate ==
    /\ At("reset", "discard") /\ job.left = {}
    /\ IF job.broken THEN Answer("failed") /\ UNCHANGED keysPw
       ELSE /\ keysPw' = job.new /\ UNCHANGED answer
            /\ job' = [job EXCEPT !.at = "mint", !.left = {s \in DOMAIN services : services[s] # {}}]
    /\ UNCHANGED <<disk, session, walletPw, minted, history, kills>>

Replace ==
    /\ job.do = "reset"
    /\ \E s \in job.left :
         \/ /\ At("reset", "mint") /\ Mint(Torn) /\ Go("made") /\ UNCHANGED services
         \/ /\ At("reset", "made") /\ Go("store")
            /\ keys' = [keys EXCEPT ![minted] = keysPw]
            /\ UNCHANGED <<services, minted>>
         \/ /\ At("reset", "store")
            /\ services' = [services EXCEPT ![s] = {minted}]
            /\ job' = [job EXCEPT !.at = "mint", !.left = @ \ {s}]
            /\ UNCHANGED <<keys, minted>>
    /\ UNCHANGED <<user, wallet, backup, memory, answer, history, kills>>

ResetDone ==
    /\ At("reset", "mint") /\ job.left = {}
    /\ Answer("ok")
    /\ known' = {job.new}
    /\ UNCHANGED <<disk, memory, minted, origin, requests, kills>>
-----------------------------------------------------------------------------
\* The daemon is stopped, or killed in the middle of a request, and starts anew.
Restart ==
    /\ IF Idle THEN walletPw # None /\ UNCHANGED kills ELSE kills < MaxKills /\ kills' = kills + 1
    /\ SetPassword(None)
    /\ job' = NoJob /\ answer' = ""
    /\ UNCHANGED <<disk, minted, history>>

Running ==
    \/ WriteWallet \/ FillService
    \/ UpdateWallet \/ ListKeys \/ UpdateKey \/ UpdateUser
    \/ ResetWallet \/ Discard \/ Rotate \/ Replace \/ ResetDone

AccountNext ==
    \/ \E p \in Passwords : CreateAccount(p) \/ Login(p)
    \/ CreateWallet
    \/ \E s \in Services : CreateService(s)
    \/ \E p, q \in Passwords : Update(p, q)
    \/ \E p \in Passwords : Reset(p)
    \/ Running \/ Restart
=============================================================================
