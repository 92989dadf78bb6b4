------------------------------- MODULE Vault --------------------------------
(***************************************************************************)
(* The encrypted vault (backend/storage): how AccountVaultService.unlock   *)
(* opens the database, and what an open vault is written with.  Nothing    *)
(* keeps the application from being started twice, so several processes    *)
(* may work on one file; within a process everything that touches the      *)
(* vault runs under the service's RLock, and every step here is one SQLite *)
(* transaction or one read.  A key is a password with a salt; a ciphertext *)
(* is represented by the key it was made with and can be read with no      *)
(* other (AES-GCM).                                                        *)
(***************************************************************************)
EXTENDS Naturals, Sequences

CONSTANTS
    Process,      \* backends at work on the file
    Password,     \* what a user may type
    Salt,
    Account,      \* uuids
    LastVersion,  \* the last of MIGRATIONS
    PendingSince, \* the one that creates pending_accounts
    MaxTrouble    \* processes that end and transactions that fail, altogether

None == "none"

ASSUME VaultAssumption ==
    /\ LastVersion \in Nat \ {0} /\ PendingSince \in 1 .. LastVersion
    /\ MaxTrouble \in Nat
    /\ None \notin Password \cup Salt
    /\ Password # {} /\ Salt # {}

Key == [password : Password, salt : Salt]
NoKey == [password |-> None, salt |-> None]

Version == 1 .. LastVersion

VARIABLES
    log,        \* schema_migrations: the versions, in the order they were applied
    salt,       \* settings.encryption_salt
    verifier,   \* settings.encryption_verifier: the key it was made with, or NoKey
    accounts,   \* of every uuid the keys its row in accounts was written with
    pending,    \* the same for pending_accounts; {}: there is no row
    bundle,     \* an exported file: which accounts, and the password it takes
    pc,         \* where a process is in unlock or initialize
    typed,      \* the password it was given; None: it only needs the schema
    todo,       \* the versions it found missing
    repo,       \* its repository's key; NoKey: locked
    trouble

file == <<log, salt, verifier>>
tables == <<accounts, pending>>
vars == <<file, tables, bundle, pc, typed, todo, repo, trouble>>

Kinds == [Account -> {None, "pending", "complete"}]
Label == {"idle", "open", "migrate", "salt", "verifier", "verify", "validate", "create"}

TypeOK ==
    /\ log \in Seq(Version)
    /\ salt \in Salt \cup {None} /\ verifier \in Key \cup {NoKey}
    /\ accounts \in [Account -> SUBSET Key] /\ pending \in [Account -> SUBSET Key]
    /\ bundle \in [of : Kinds, password : Password]
    /\ pc \in [Process -> Label]
    /\ typed \in [Process -> Password \cup {None}]
    /\ todo \in [Process -> SUBSET Version]
    /\ repo \in [Process -> Key \cup {NoKey}]
    /\ trouble \in 0 .. MaxTrouble

Applied == {log[i] : i \in DOMAIN log}
Stored(a) == accounts[a] \cup pending[a]

(***************************************************************************)
(* A new file, or one from an older version of the program: with some of   *)
(* the migrations, possibly with accounts but without a verifier.          *)
(***************************************************************************)
Prefix(n) == [i \in 1 .. n |-> i]

RowsIn(table, kinds, k) == [a \in Account |-> IF kinds[a] = table THEN {k} ELSE {}]

Init ==
    /\ \E n \in 0 .. LastVersion, k \in Key, kinds \in Kinds :
          /\ (\E a \in Account : kinds[a] # None) => n >= 1
          /\ (\E a \in Account : kinds[a] = "pending") => n >= PendingSince
          /\ log = Prefix(n)
          /\ salt \in IF \E a \in Account : kinds[a] # None THEN {k.salt}
                      ELSE IF n = 0 THEN {None} ELSE {None, k.salt}
          /\ verifier \in IF salt = None THEN {NoKey} ELSE {NoKey, k}
          /\ accounts = RowsIn("complete", kinds, k)
          /\ pending = RowsIn("pending", kinds, k)
    /\ bundle \in [of : Kinds, password : Password]
    /\ pc = [p \in Process |-> "idle"]
    /\ typed = [p \in Process |-> None]
    /\ todo = [p \in Process |-> {}]
    /\ repo = [p \in Process |-> NoKey]
    /\ trouble = 0

Go(p, l) == pc' = [pc EXCEPT ![p] = l]
At(p, l) == pc[p] = l

\* unlock or initialize is over: repository set, or exception raised.
Leave(p) == Go(p, "idle") /\ typed' = [typed EXCEPT ![p] = None]

(***************************************************************************)
(* unlock                                                                  *)
(***************************************************************************)
\* is_initialized: a pending account does not make it so.
IsInitialized == 1 \in Applied /\ (verifier # NoKey \/ \E a \in Account : accounts[a] # {})

\* A vault that is new to the program wants its password twice.
Try(p, password, confirmation) ==
    /\ At(p, "idle")
    /\ IsInitialized \/ confirmation = password
    /\ Go(p, "open") /\ typed' = [typed EXCEPT ![p] = password]
    /\ UNCHANGED <<file, tables, bundle, todo, repo, trouble>>

\* The settings are read and written in a locked vault as well.
ReadSettings(p) ==
    /\ At(p, "idle") /\ Go(p, "open")
    /\ UNCHANGED <<file, tables, bundle, typed, todo, repo, trouble>>

\* Mutant: what has been applied is not asked.
MissingAll == Version

Missing == Version \ Applied

ListMissing(p) ==
    /\ At(p, "open") /\ Go(p, "migrate")
    /\ todo' = [todo EXCEPT ![p] = Missing]
    /\ UNCHANGED <<file, tables, bundle, typed, repo, trouble>>

First(v, versions) == v \in versions /\ \A u \in versions : v <= u

\* Mutant: a migration can be applied twice.
MigrateAgain(p) ==
    /\ At(p, "migrate")
    /\ \E v \in Version :
       /\ First(v, todo[p])
       /\ log' = Append(log, v)
       /\ todo' = [todo EXCEPT ![p] = @ \ {v}]
    /\ UNCHANGED <<salt, verifier, tables, bundle, pc, typed, repo, trouble>>

\* Every version in a transaction of its own.  One that another process has applied
\* in between fails on its first statement.
Migrate(p) ==
    /\ At(p, "migrate")
    /\ \E v \in Version :
       /\ First(v, todo[p])
       /\ IF v \in Applied
          THEN Leave(p) /\ todo' = [todo EXCEPT ![p] = {}] /\ UNCHANGED log
          ELSE /\ log' = Append(log, v)
               /\ todo' = [todo EXCEPT ![p] = @ \ {v}]
               /\ UNCHANGED <<pc, typed>>
    /\ UNCHANGED <<salt, verifier, tables, bundle, repo, trouble>>

Migrated(p) ==
    /\ At(p, "migrate") /\ todo[p] = {}
    /\ IF typed[p] = None THEN Leave(p) ELSE Go(p, "salt") /\ UNCHANGED typed
    /\ UNCHANGED <<file, tables, bundle, todo, repo, trouble>>

\* Mutant: the salt that was made up is not stored.
ForgetSalt(p) ==
    /\ At(p, "salt") /\ Go(p, "verifier")
    /\ UNCHANGED <<file, tables, bundle, typed, todo, repo, trouble>>

\* get_or_create_encryption_salt
GetSalt(p) ==
    /\ At(p, "salt") /\ Go(p, "verifier")
    /\ salt' \in IF salt = None THEN Salt ELSE {salt}
    /\ UNCHANGED <<log, verifier, tables, bundle, typed, todo, repo, trouble>>

Cipher(p) == [password |-> typed[p], salt |-> salt]

GetVerifier(p) ==
    /\ At(p, "verifier")
    /\ Go(p, IF verifier = NoKey THEN "validate" ELSE "verify")
    /\ UNCHANGED <<file, tables, bundle, typed, todo, repo, trouble>>

\* self._repository = repository
Open(p) == Leave(p) /\ repo' = [repo EXCEPT ![p] = Cipher(p)]
Refuse(p) == Leave(p) /\ UNCHANGED repo

Verify(p) ==
    /\ At(p, "verify")
    /\ IF Cipher(p) = verifier THEN Open(p) ELSE Refuse(p)
    /\ UNCHANGED <<file, tables, bundle, todo, trouble>>

\* validate_cipher: one row is tried, of accounts if there is one.
Samples == IF \E a \in Account : accounts[a] # {}
           THEN {accounts[a] : a \in Account} \ {{}}
           ELSE {pending[a] : a \in Account} \ {{}}

\* Mutant: an older vault takes any password.
ValidateNothing(p) ==
    /\ At(p, "validate") /\ Go(p, "create")
    /\ UNCHANGED <<file, tables, bundle, typed, todo, repo, trouble>>

ValidateCipher(p) ==
    /\ At(p, "validate")
    /\ \/ Samples = {} /\ Go(p, "create") /\ UNCHANGED <<typed, repo>>
       \/ \E row \in Samples :
             IF row = {Cipher(p)} THEN Go(p, "create") /\ UNCHANGED <<typed, repo>> ELSE Refuse(p)
    /\ UNCHANGED <<file, tables, bundle, todo, trouble>>

\* Mutant: the last one wins.
CreateOver(p) ==
    /\ At(p, "create") /\ verifier' = Cipher(p) /\ Open(p)
    /\ UNCHANGED <<log, salt, tables, bundle, todo, trouble>>

\* create_encryption_verifier: a plain INSERT, refused if another process was first.
CreateVerifier(p) ==
    /\ At(p, "create")
    /\ IF verifier = NoKey THEN verifier' = Cipher(p) /\ Open(p)
                          ELSE Refuse(p) /\ UNCHANGED verifier
    /\ UNCHANGED <<log, salt, tables, bundle, todo, trouble>>

(***************************************************************************)
(* An open vault.  unlock may run again in it; its operations wait for it. *)
(***************************************************************************)
Ready(p) == At(p, "idle") /\ repo[p] # NoKey
Written(row, p) == row \cup {repo[p]}

rest == <<file, bundle, pc, typed, todo, repo, trouble>>

\* add_pending: the account of a flow is new.
AddPending(p, a) ==
    /\ Ready(p) /\ Stored(a) = {}
    /\ pending' = [pending EXCEPT ![a] = Written({}, p)]
    /\ UNCHANGED <<accounts, rest>>

\* complete_pending; refused with IntegrityError if accounts has the uuid.
CompletePending(p, a) ==
    /\ Ready(p) /\ pending[a] # {} /\ accounts[a] = {}
    /\ accounts' = [accounts EXCEPT ![a] = Written({}, p)]
    /\ pending' = [pending EXCEPT ![a] = {}]
    /\ UNCHANGED rest

\* The updates that write a ciphertext anew, and leave the other ones of the row.
Rewrite(p, a) ==
    /\ Ready(p)
    /\ \/ /\ accounts[a] # {} /\ UNCHANGED pending
          /\ accounts' = [accounts EXCEPT ![a] = Written(@, p)]
       \/ /\ pending[a] # {} /\ UNCHANGED accounts
          /\ pending' = [pending EXCEPT ![a] = Written(@, p)]
    /\ UNCHANGED rest

Delete(p, a) ==
    /\ Ready(p) /\ Stored(a) # {}
    /\ accounts' = [accounts EXCEPT ![a] = {}]
    /\ pending' = [pending EXCEPT ![a] = {}]
    /\ UNCHANGED rest

\* Every row is decrypted; the file is sealed with a password of its own.
Export(p, password) ==
    /\ Ready(p)
    /\ \A a \in Account : Stored(a) \subseteq {repo[p]}
    /\ bundle' = [of |-> [a \in Account |-> IF accounts[a] # {} THEN "complete"
                                            ELSE IF pending[a] # {} THEN "pending" ELSE None],
                  password |-> password]
    /\ UNCHANGED <<file, tables, pc, typed, todo, repo, trouble>>

Of(kind) == {a \in Account : bundle.of[a] = kind}

\* Mutant: each table is only asked for the accounts that go into it.
ConflictsByTable == (\E a \in Of("complete") : accounts[a] # {}) \/ (\E a \in Of("pending") : pending[a] # {})

\* One account that either table has refuses all of them.
Conflicts == \E a \in Of("complete") \cup Of("pending") : Stored(a) # {}

Import(p, password) ==
    /\ Ready(p) /\ bundle.password = password /\ ~Conflicts
    /\ accounts' = [a \in Account |-> IF a \in Of("complete") THEN Written({}, p) ELSE accounts[a]]
    /\ pending' = [a \in Account |-> IF a \in Of("pending") THEN Written({}, p) ELSE pending[a]]
    /\ UNCHANGED rest

(***************************************************************************)
(* A transaction fails (a busy or full disk), or the process ends.         *)
(***************************************************************************)
Fails(p) ==
    /\ trouble < MaxTrouble /\ trouble' = trouble + 1
    /\ ~At(p, "idle") /\ Leave(p) /\ todo' = [todo EXCEPT ![p] = {}]
    /\ UNCHANGED <<file, tables, bundle, repo>>

Restart(p) ==
    /\ trouble < MaxTrouble /\ trouble' = trouble + 1
    /\ Leave(p) /\ todo' = [todo EXCEPT ![p] = {}]
    /\ repo' = [repo EXCEPT ![p] = NoKey]
    /\ UNCHANGED <<file, tables, bundle>>

UnlockStep(p) ==
    \/ ListMissing(p) \/ Migrate(p) \/ Migrated(p) \/ GetSalt(p) \/ GetVerifier(p)
    \/ Verify(p) \/ ValidateCipher(p) \/ CreateVerifier(p)

Next == \E p \in Process :
    \/ \E password, confirmation \in Password : Try(p, password, confirmation)
    \/ ReadSettings(p) \/ UnlockStep(p)
    \/ \E a \in Account : AddPending(p, a) \/ CompletePending(p, a) \/ Rewrite(p, a) \/ Delete(p, a)
    \/ \E password \in Password : Export(p, password) \/ Import(p, password)
    \/ Fails(p) \/ Restart(p)

Spec == Init /\ [][Next]_vars

\* A call that has been made is carried out; the user tries every password, typing
\* it twice.
FairSpec ==
    /\ Spec
    /\ \A p \in Process :
          /\ WF_vars(UnlockStep(p))
          /\ \A password \in Password : SF_vars(repo[p] = NoKey /\ Try(p, password, password))
=============================================================================
