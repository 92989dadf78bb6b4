---------------------------- MODULE VaultProofs -----------------------------
(***************************************************************************)
(* Proofs, for any number of processes, passwords, salts, accounts and     *)
(* migrations and however many of them end or fail, that one key encrypts  *)
(* all of the vault, that whoever is in has that key, and that nobody is   *)
(* in before the schema is the last one.                                   *)
(*                                                                         *)
(* What a process has found on its way through unlock is known to others   *)
(* only by what they cannot undo: the salt stays, the verifier stays, and  *)
(* no migration is taken back.  UnlockKnows is what each place of the way  *)
(* may rely on because of that.                                            *)
(***************************************************************************)
EXTENDS VaultGuarantees, SequenceTheorems, TLAPS

Keyed == {"verifier", "verify", "validate", "create"}

Knows(p) ==
    /\ pc[p] \in Keyed \cup {"salt"} => typed[p] # None
    /\ pc[p] \in Keyed => salt # None
    /\ pc[p] = "verify" => verifier # NoKey
    /\ pc[p] = "create" => verifier # NoKey \/ \A a \in Account : Stored(a) \subseteq {Cipher(p)}
    /\ pc[p] = "migrate" => Version \ Applied \subseteq todo[p]

UnlockKnows == \A p \in Process : Knows(p)

IInv == TypeOK /\ OneKey /\ OpenMeansKey /\ SchemaSound /\ OneTable /\ UnlockKnows

DataStep(p) ==
    \/ \E a \in Account : AddPending(p, a) \/ CompletePending(p, a) \/ Rewrite(p, a) \/ Delete(p, a)
    \/ \E password \in Password : Export(p, password) \/ Import(p, password)

(***************************************************************************)
(* Keys and migrations                                                     *)
(***************************************************************************)
\* No key is the missing one.
LEMMA KeysAreNone ==
    /\ NoKey \notin Key
    /\ \A k \in Key : k.salt \in Salt /\ k.salt # None /\ k.password \in Password
BY VaultAssumption DEF Key, NoKey

\* A password that was typed makes a key with the salt of the file.
LEMMA CipherIsKey ==
    ASSUME TypeOK, NEW p \in Process, typed[p] # None, salt # None
    PROVE  Cipher(p) \in Key /\ Cipher(p) # NoKey /\ Cipher(p).salt = salt
BY VaultAssumption DEF TypeOK, Cipher, Key, NoKey

\* The versions of a log that is in order are those up to its length.
LEMMA AppliedPrefix ==
    ASSUME TypeOK, InOrder
    PROVE  Len(log) \in Nat /\ Applied = 1 .. Len(log) /\ Applied \subseteq Version
<1>1. Len(log) \in Nat /\ DOMAIN log = 1 .. Len(log)
  BY DEF TypeOK
<1>2. \A i \in 1 .. Len(log) : log[i] = i
  BY <1>1 DEF InOrder, Prefix
<1>3. LastVersion \in Nat
  BY VaultAssumption
<1> QED
  BY <1>1, <1>2, <1>3 DEF Applied, InOrder, Version

\* A file without a salt has nothing that is encrypted.
LEMMA NoSaltNoKeys ==
    ASSUME TypeOK, OneKey, salt = None
    PROVE  verifier = NoKey /\ \A a \in Account : Stored(a) = {}
BY KeysAreNone DEF TypeOK, OneKey, Stored

\* With a verifier, everything is encrypted with the verifier's key.
LEMMA AllByVerifier ==
    ASSUME OneKey, verifier # NoKey
    PROVE  \A a \in Account : Stored(a) \subseteq {verifier}
BY DEF OneKey

(***************************************************************************)
(* The initial states                                                      *)
(***************************************************************************)
LEMMA InitIInv == Init => IInv
<1> SUFFICES ASSUME Init PROVE IInv
  OBVIOUS
<1> PICK n \in 0 .. LastVersion, k \in Key, kinds \in Kinds :
        /\ (\E a \in Account : kinds[a] # None) => n >= 1
        /\ (\E a \in Account : kinds[a] = "pending") => n >= PendingSince
        /\ log = Prefix(n)
        /\ salt \in IF \E a \in Account : kinds[a] # None THEN {k.salt}
                    ELSE IF n = 0 THEN {None} ELSE {None, k.salt}
        /\ verifier \in IF salt = None THEN {NoKey} ELSE {NoKey, k}
        /\ accounts = RowsIn("complete", kinds, k)
        /\ pending = RowsIn("pending", kinds, k)
  BY DEF Init
<1>1. LastVersion \in Nat /\ n \in Nat /\ n <= LastVersion
  BY VaultAssumption
<1>2. Prefix(n) \in Seq(Version) /\ Len(Prefix(n)) = n
  BY <1>1 DEF Prefix, Version
<1>3. k.salt \in Salt /\ k.salt # None
  BY KeysAreNone
<1>4. /\ accounts = [a \in Account |-> IF kinds[a] = "complete" THEN {k} ELSE {}]
      /\ pending = [a \in Account |-> IF kinds[a] = "pending" THEN {k} ELSE {}]
  BY DEF RowsIn
<1>5. salt \in {None, k.salt} /\ verifier \in {NoKey, k} /\ (salt = None => verifier = NoKey)
  OBVIOUS
<1>6. TypeOK
  <2>1. salt \in Salt \cup {None} /\ verifier \in Key \cup {NoKey} /\ log \in Seq(Version)
    BY <1>2, <1>3, <1>5
  <2>2. accounts \in [Account -> SUBSET Key] /\ pending \in [Account -> SUBSET Key]
    BY <1>4
  <2>3. /\ bundle \in [of : Kinds, password : Password] /\ trouble \in 0 .. MaxTrouble
        /\ pc \in [Process -> Label] /\ typed \in [Process -> Password \cup {None}]
        /\ todo \in [Process -> SUBSET Version] /\ repo \in [Process -> Key \cup {NoKey}]
    BY VaultAssumption DEF Init, Label
  <2> QED
    BY <2>1, <2>2, <2>3 DEF TypeOK
<1>7. OneKey
  <2>1. \A a \in Account : Stored(a) \subseteq {k}
    BY <1>4 DEF Stored
  <2>2. (\E a \in Account : Stored(a) # {}) => salt = k.salt
    BY <1>4 DEF Stored, Kinds, None
  <2>3. verifier # NoKey => verifier = k /\ salt = k.salt
    BY <1>5
  <2> QED
    BY <1>5, <2>1, <2>2, <2>3 DEF OneKey
<1>8. OneTable
  BY <1>4 DEF OneTable
<1>9. SchemaSound
  BY <1>1, <1>2 DEF Init, SchemaSound, InOrder, LastSchema
<1> QED
  BY <1>6, <1>7, <1>8, <1>9 DEF Init, IInv, OpenMeansKey, UnlockKnows, Knows, Keyed

(***************************************************************************)
(* What a step does to the file                                            *)
(***************************************************************************)
\* Which parts of the file a step writes: the schema only by a migration, the salt only
\* if there is none, the verifier only if there is none, the tables only by an open vault.
WritesOnce ==
    /\ log' = log \/ \E p \in Process, v \in Version :
                        pc[p] = "migrate" /\ First(v, todo[p]) /\ v \notin Applied /\ log' = Append(log, v)
    /\ salt # None => salt' = salt
    /\ salt' = salt \/ salt' \in Salt
    /\ verifier # NoKey => verifier' = verifier
    /\ verifier' = verifier
         \/ \E p \in Process : pc[p] = "create" /\ verifier' = Cipher(p) /\ UNCHANGED <<tables, salt>>
    /\ tables' = tables \/ \E p \in Process : Ready(p) /\ UNCHANGED <<log, salt, verifier, repo>>

LEMMA StepWritesOnce ==
    ASSUME [Next]_vars
    PROVE  WritesOnce
<1>1. CASE UNCHANGED vars
  BY <1>1 DEF WritesOnce, vars, file, tables
<1>2. ASSUME NEW p \in Process, NEW password \in Password, NEW confirmation \in Password,
             Try(p, password, confirmation)
      PROVE  WritesOnce
  BY <1>2 DEF WritesOnce, Try, file, tables
<1>3. ASSUME NEW p \in Process, ReadSettings(p) PROVE WritesOnce
  BY <1>3 DEF WritesOnce, ReadSettings, file, tables
<1>4. ASSUME NEW p \in Process, UnlockStep(p) PROVE WritesOnce
  <2>1. CASE ListMissing(p) \/ Migrated(p) \/ GetVerifier(p) \/ Verify(p) \/ ValidateCipher(p)
    BY <2>1 DEF WritesOnce, ListMissing, Migrated, GetVerifier, Verify, ValidateCipher, file, tables
  <2>2. CASE Migrate(p)
    BY <2>2 DEF WritesOnce, Migrate, At, tables
  <2>3. CASE GetSalt(p)
    BY <2>3 DEF WritesOnce, GetSalt, tables
  <2>4. CASE CreateVerifier(p)
    BY <2>4 DEF WritesOnce, CreateVerifier, At, tables
  <2> QED
    BY <1>4, <2>1, <2>2, <2>3, <2>4 DEF UnlockStep
<1>5. ASSUME NEW p \in Process, DataStep(p) PROVE WritesOnce
  BY <1>5 DEF WritesOnce, DataStep, AddPending, CompletePending, Rewrite, Delete, Export, Import,
              Ready, rest, file, tables
<1>6. ASSUME NEW p \in Process, Fails(p) \/ Restart(p) PROVE WritesOnce
  BY <1>6 DEF WritesOnce, Fails, Restart, file, tables
<1> QED
  BY <1>1, <1>2, <1>3, <1>4, <1>5, <1>6 DEF Next, DataStep

(***************************************************************************)
(* Types                                                                   *)
(***************************************************************************)
\* Processes go to places of the way, and to no other.
LEMMA Places ==
    ASSUME TypeOK, NEW p \in Process
    PROVE  /\ \A l \in Label : Go(p, l) => pc' \in [Process -> Label]
           /\ Leave(p) => /\ pc' \in [Process -> Label]
                          /\ typed' \in [Process -> Password \cup {None}]
BY DEF TypeOK, Go, Leave, Label

LEMMA TypeStep ==
    ASSUME IInv, [Next]_vars
    PROVE  TypeOK'
<1> USE DEF IInv
<1>1. CASE UNCHANGED vars
  BY <1>1 DEF TypeOK, vars, file, tables
<1>2. ASSUME NEW p \in Process, NEW password \in Password, NEW confirmation \in Password,
             Try(p, password, confirmation)
      PROVE  TypeOK'
  BY <1>2, Places DEF TypeOK, Try, file, tables, Label
<1>3. ASSUME NEW p \in Process, ReadSettings(p) PROVE TypeOK'
  BY <1>3, Places DEF TypeOK, ReadSettings, file, tables, Label
<1>4. ASSUME NEW p \in Process, UnlockStep(p) PROVE TypeOK'
  <2>1. CASE ListMissing(p)
    BY <2>1, Places DEF TypeOK, ListMissing, Missing, file, tables, Label
  <2>2. CASE Migrate(p)
    <3> PICK v \in Version :
            \/ log' = log /\ todo' = [todo EXCEPT ![p] = {}]
            \/ log' = Append(log, v) /\ todo' = [todo EXCEPT ![p] = @ \ {v}]
      BY <2>2 DEF Migrate
    <3>0. log' = log \/ log' = Append(log, v)
      OBVIOUS
    <3>1. log' \in Seq(Version) /\ todo' \in [Process -> SUBSET Version]
      <4>1. log' \in Seq(Version)
        BY <3>0, AppendProperties DEF TypeOK
      <4>2. todo' \in [Process -> SUBSET Version]
        BY DEF TypeOK
      <4> QED
        BY <4>1, <4>2
    <3>2. pc' \in [Process -> Label] /\ typed' \in [Process -> Password \cup {None}]
      BY <2>2, Places DEF TypeOK, Migrate
    <3> QED
      BY <2>2, <3>1, <3>2 DEF TypeOK, Migrate, tables
  <2>3. CASE Migrated(p)
    BY <2>3, Places DEF TypeOK, Migrated, file, tables, Label
  <2>4. CASE GetSalt(p)
    BY <2>4, Places DEF TypeOK, GetSalt, tables, Label
  <2>5. CASE GetVerifier(p)
    BY <2>5, Places DEF TypeOK, GetVerifier, file, tables, Label
  <2>6. CASE Verify(p)
    <3>1. Cipher(p) \in Key
      BY <2>6, CipherIsKey DEF UnlockKnows, Knows, Verify, At, Keyed
    <3> QED
      BY <2>6, <3>1, Places DEF TypeOK, Verify, Open, Refuse, file, tables
  <2>7. CASE ValidateCipher(p)
    BY <2>7, Places DEF TypeOK, ValidateCipher, Refuse, file, tables, Label
  <2>8. CASE CreateVerifier(p)
    <3>1. Cipher(p) \in Key
      BY <2>8, CipherIsKey DEF UnlockKnows, Knows, CreateVerifier, At, Keyed
    <3> QED
      BY <2>8, <3>1, Places DEF TypeOK, CreateVerifier, Open, Refuse, tables
  <2> QED
    BY <1>4, <2>1, <2>2, <2>3, <2>4, <2>5, <2>6, <2>7, <2>8 DEF UnlockStep
<1>5. ASSUME NEW p \in Process, DataStep(p) PROVE TypeOK'
  <2>1. accounts' \in [Account -> SUBSET Key] /\ pending' \in [Account -> SUBSET Key]
    BY <1>5 DEF TypeOK, DataStep, AddPending, CompletePending, Rewrite, Delete, Export, Import,
                Ready, Written, rest, tables
  <2>2. bundle' \in [of : Kinds, password : Password]
    BY <1>5 DEF TypeOK, DataStep, AddPending, CompletePending, Rewrite, Delete, Export, Import,
                rest, Kinds
  <2> QED
    BY <1>5, <2>1, <2>2 DEF TypeOK, DataStep, AddPending, CompletePending, Rewrite, Delete,
                            Export, Import, rest, file
<1>6. ASSUME NEW p \in Process, Fails(p) \/ Restart(p) PROVE TypeOK'
  BY <1>6, Places, VaultAssumption DEF TypeOK, Fails, Restart, file, tables
<1> QED
  BY <1>1, <1>2, <1>3, <1>4, <1>5, <1>6 DEF Next, DataStep

(***************************************************************************)
(* The schema                                                              *)
(***************************************************************************)
\* The first of the missing migrations is the next one.
LEMMA FirstIsNext ==
    ASSUME IInv, NEW p \in Process, pc[p] = "migrate",
           NEW v \in Version, First(v, todo[p]), v \notin Applied
    PROVE  v = Len(log) + 1
<1>1. Len(log) \in Nat /\ Applied = 1 .. Len(log)
  BY AppliedPrefix DEF IInv, SchemaSound
<1>2. v \in Nat /\ LastVersion \in Nat /\ v > Len(log) /\ v <= LastVersion
  BY <1>1, VaultAssumption DEF Version
<1>3. Len(log) + 1 \in Version \ Applied
  BY <1>1, <1>2 DEF Version
<1>4. Len(log) + 1 \in todo[p]
  BY <1>3 DEF IInv, UnlockKnows, Knows
<1>5. v <= Len(log) + 1
  BY <1>4 DEF First
<1> QED
  BY <1>1, <1>2, <1>5

LEMMA InOrderStep ==
    ASSUME IInv, [Next]_vars
    PROVE  InOrder' /\ Applied \subseteq Applied'
<1>1. WritesOnce
  BY StepWritesOnce
<1>2. Len(log) \in Nat /\ log = Prefix(Len(log)) /\ Len(log) <= LastVersion
  BY AppliedPrefix DEF IInv, SchemaSound, InOrder
<1>3. CASE log' = log
  BY <1>2, <1>3 DEF InOrder, Applied
<1>4. ASSUME NEW p \in Process, NEW v \in Version,
             pc[p] = "migrate", First(v, todo[p]), v \notin Applied, log' = Append(log, v)
      PROVE  InOrder' /\ Applied \subseteq Applied'
  <2>1. v = Len(log) + 1 /\ v <= LastVersion
    BY <1>4, FirstIsNext, VaultAssumption DEF Version
  <2>2. log \in Seq(Version)
    BY DEF IInv, TypeOK
  <2>3. /\ Len(log') = Len(log) + 1 /\ DOMAIN log' = 1 .. Len(log) + 1
        /\ \A i \in 1 .. Len(log) : log'[i] = log[i]
        /\ log'[Len(log) + 1] = v
        /\ log' \in Seq(Version)
    BY <1>2, <1>4, <2>2, AppendProperties
  <2>4. \A i \in 1 .. Len(log) + 1 : log'[i] = i
    BY <1>2, <2>1, <2>3 DEF Prefix
  <2>5. log' = Prefix(Len(log) + 1)
    <3>1. log' = [i \in DOMAIN log' |-> log'[i]]
      BY <2>3
    <3> QED
      BY <2>3, <2>4, <3>1 DEF Prefix
  <2>6. Applied \subseteq Applied'
    <3>1. DOMAIN log = 1 .. Len(log)
      BY <2>2
    <3> QED
      BY <1>2, <2>3, <3>1 DEF Applied
  <2> QED
    BY <2>1, <2>3, <2>5, <2>6 DEF InOrder
<1> QED
  BY <1>1, <1>3, <1>4 DEF WritesOnce

\* A process that gets past the migrations has found none missing.
LEMMA LastSchemaStep ==
    ASSUME IInv, [Next]_vars
    PROVE  LastSchema'
<1> DEFINE Past(p) == repo[p] # NoKey \/ pc[p] \in {"salt", "verifier", "verify", "validate", "create"}
<1>1. SUFFICES ASSUME NEW p \in Process, Past(p)' PROVE Applied' = Version
  BY DEF LastSchema
<1>2. Applied \subseteq Applied' /\ Applied' \subseteq Version
  <2>1. InOrder' /\ TypeOK' /\ Applied \subseteq Applied'
    BY InOrderStep, TypeStep
  <2>2. Len(log') \in Nat /\ Len(log') <= LastVersion /\ DOMAIN log' = 1 .. Len(log')
    BY <2>1 DEF TypeOK, InOrder
  <2>3. \A i \in DOMAIN log' : log'[i] \in Version
    BY <2>1 DEF TypeOK
  <2> QED
    BY <2>1, <2>3 DEF Applied
<1>3. CASE Past(p)
  BY <1>2, <1>3 DEF IInv, SchemaSound, LastSchema
<1>4. CASE ~Past(p)
  <2>1. Migrated(p)
    <3>1. CASE UNCHANGED vars
      BY <1>1, <1>4, <3>1 DEF vars
    <3>2. ASSUME NEW q \in Process, NEW password \in Password, NEW confirmation \in Password,
                 Try(q, password, confirmation)
          PROVE  FALSE
      BY <1>1, <1>4, <3>2 DEF Try, At, Go, IInv, TypeOK
    <3>3. ASSUME NEW q \in Process, ReadSettings(q) PROVE FALSE
      BY <1>1, <1>4, <3>3 DEF ReadSettings, At, Go, IInv, TypeOK
    <3>4. ASSUME NEW q \in Process, UnlockStep(q) PROVE Migrated(p)
      <4>1. CASE ListMissing(q)
        BY <1>1, <1>4, <4>1 DEF ListMissing, At, Go, IInv, TypeOK
      <4>2. CASE Migrate(q)
        BY <1>1, <1>4, <4>2 DEF Migrate, At, Go, Leave, IInv, TypeOK
      <4>3. CASE Migrated(q)
        <5>1. q = p
          BY <1>1, <1>4, <4>3 DEF Migrated, At, Go, Leave, IInv, TypeOK
        <5> QED
          BY <4>3, <5>1
      <4>4. CASE GetSalt(q) \/ GetVerifier(q) \/ Verify(q) \/ ValidateCipher(q) \/ CreateVerifier(q)
        BY <1>1, <1>4, <4>4 DEF GetSalt, GetVerifier, Verify, ValidateCipher, CreateVerifier,
           At, Go, Leave, Open, Refuse, IInv, TypeOK
      <4> QED
        BY <3>4, <4>1, <4>2, <4>3, <4>4 DEF UnlockStep
    <3>5. ASSUME NEW q \in Process, DataStep(q) PROVE FALSE
      BY <1>1, <1>4, <3>5 DEF DataStep, AddPending, CompletePending, Rewrite, Delete, Export,
         Import, rest
    <3>6. ASSUME NEW q \in Process, Fails(q) \/ Restart(q) PROVE FALSE
      BY <1>1, <1>4, <3>6 DEF Fails, Restart, Leave, Go, IInv, TypeOK
    <3> QED
      BY <3>1, <3>2, <3>3, <3>4, <3>5, <3>6 DEF Next, DataStep
  <2>2. Version \ Applied \subseteq todo[p] /\ todo[p] = {}
    BY <2>1 DEF Migrated, At, IInv, UnlockKnows, Knows
  <2> QED
    BY <1>2, <2>2
<1> QED
  BY <1>3, <1>4

(***************************************************************************)
(* The keys                                                                *)
(***************************************************************************)
\* The row an open vault writes is written with the key of the verifier.
LEMMA WrittenByVerifier ==
    ASSUME IInv, NEW p \in Process, Ready(p), NEW a \in Account
    PROVE  /\ verifier # NoKey /\ repo[p] = verifier
           /\ Written({}, p) = {verifier}
           /\ Written(accounts[a], p) = {verifier}
           /\ Written(pending[a], p) = {verifier}
BY DEF IInv, Ready, Written, OneKey, OpenMeansKey, Stored

\* All the keys of a file that has a verifier are equal to it.
LEMMA VerifierIsTheKey ==
    ASSUME verifier # NoKey, verifier.salt = salt, \A a \in Account : Stored(a) \subseteq {verifier}
    PROVE  OneKey
BY DEF OneKey

\* What an operation on an open vault leaves in the tables.
LEMMA DataKeys ==
    ASSUME IInv, NEW p \in Process, DataStep(p)
    PROVE  /\ UNCHANGED file
           /\ tables' = tables \/ (verifier # NoKey /\ \A a \in Account : Stored(a)' \subseteq {verifier})
           /\ OneTable'
<1>1. UNCHANGED file
  BY DEF DataStep, AddPending, CompletePending, Rewrite, Delete, Export, Import, rest, file
<1>2. verifier # NoKey /\ repo[p] = verifier /\ Ready(p)
  BY DEF DataStep, AddPending, CompletePending, Rewrite, Delete, Export, Import, Ready, IInv, OpenMeansKey
<1>3. \A a \in Account : accounts[a] \subseteq {verifier} /\ pending[a] \subseteq {verifier}
  BY <1>2, AllByVerifier DEF IInv, Stored
<1>4. accounts \in [Account -> SUBSET Key] /\ pending \in [Account -> SUBSET Key]
  BY DEF IInv, TypeOK
<1>5. \A a \in Account : accounts[a] = {} \/ pending[a] = {}
  BY DEF IInv, OneTable
<1>6. ASSUME NEW a \in Account, AddPending(p, a) PROVE (\A b \in Account : Stored(b)' \subseteq {verifier}) /\ OneTable'
  BY <1>2, <1>3, <1>4, <1>5, <1>6 DEF AddPending, Written, Stored, OneTable
<1>7. ASSUME NEW a \in Account, CompletePending(p, a) PROVE (\A b \in Account : Stored(b)' \subseteq {verifier}) /\ OneTable'
  BY <1>2, <1>3, <1>4, <1>5, <1>7 DEF CompletePending, Written, Stored, OneTable
<1>8. ASSUME NEW a \in Account, Rewrite(p, a) PROVE (\A b \in Account : Stored(b)' \subseteq {verifier}) /\ OneTable'
  BY <1>2, <1>3, <1>4, <1>5, <1>8 DEF Rewrite, Written, Stored, OneTable
<1>9. ASSUME NEW a \in Account, Delete(p, a) PROVE (\A b \in Account : Stored(b)' \subseteq {verifier}) /\ OneTable'
  BY <1>3, <1>4, <1>5, <1>9 DEF Delete, Stored, OneTable
<1>10. ASSUME NEW password \in Password, Export(p, password) PROVE tables' = tables /\ OneTable'
  BY <1>5, <1>10 DEF Export, tables, OneTable
<1>11. ASSUME NEW password \in Password, Import(p, password) PROVE (\A b \in Account : Stored(b)' \subseteq {verifier}) /\ OneTable'
  <2>1. \A a \in Account :
          /\ accounts'[a] = IF a \in Of("complete") THEN {verifier} ELSE accounts[a]
          /\ pending'[a] = IF a \in Of("pending") THEN {verifier} ELSE pending[a]
          /\ a \in Of("complete") \cup Of("pending") => accounts[a] = {} /\ pending[a] = {}
          /\ ~(a \in Of("complete") /\ a \in Of("pending"))
    BY <1>2, <1>11 DEF Import, Written, Conflicts, Stored, Of
  <2> QED
    BY <1>3, <1>5, <2>1 DEF Stored, OneTable
<1> QED
  BY <1>1, <1>2, <1>6, <1>7, <1>8, <1>9, <1>10, <1>11 DEF DataStep

\* Only operations on an open vault write to its tables.
LEMMA TablesKept ==
    ASSUME [Next]_vars
    PROVE  tables' = tables \/ \E p \in Process : DataStep(p)
<1>1. ASSUME NEW p \in Process, UnlockStep(p) PROVE tables' = tables
  BY <1>1 DEF UnlockStep, ListMissing, Migrate, Migrated, GetSalt, GetVerifier, Verify,
              ValidateCipher, CreateVerifier, tables
<1>2. ASSUME NEW p \in Process, NEW password \in Password, NEW confirmation \in Password,
             Try(p, password, confirmation) \/ ReadSettings(p) \/ Fails(p) \/ Restart(p)
      PROVE  tables' = tables
  BY <1>2 DEF Try, ReadSettings, Fails, Restart, tables
<1> QED
  BY <1>1, <1>2, VaultAssumption DEF Next, DataStep, vars

LEMMA OneKeyStep ==
    ASSUME IInv, [Next]_vars
    PROVE  OneKey'
<1> USE DEF IInv
<1>1. WritesOnce
  BY StepWritesOnce
<1>2. ASSUME NEW p \in Process, DataStep(p) PROVE OneKey'
  <2>1. UNCHANGED <<log, salt, verifier>>
    BY <1>2, DataKeys DEF file
  <2>2. CASE tables' = tables
    BY <2>1, <2>2 DEF OneKey, Stored, tables
  <2>3. CASE verifier # NoKey /\ \A a \in Account : Stored(a)' \subseteq {verifier}
    BY <2>1, <2>3 DEF OneKey
  <2> QED
    BY <1>2, <2>2, <2>3, DataKeys
<1>3. CASE tables' = tables
  <2>1. \A a \in Account : Stored(a)' = Stored(a)
    BY <1>3 DEF Stored, tables
  <2>2. CASE verifier' = verifier /\ salt' = salt
    BY <2>1, <2>2 DEF OneKey
  <2>3. CASE verifier' = verifier /\ salt' # salt
    BY <1>1, <2>1, <2>3, NoSaltNoKeys DEF OneKey, WritesOnce
  <2>4. CASE verifier' # verifier
    <3>1. PICK p \in Process : pc[p] = "create" /\ verifier' = Cipher(p) /\ UNCHANGED salt
      BY <1>1, <2>4 DEF WritesOnce
    <3>2. verifier = NoKey
      BY <1>1, <2>4 DEF WritesOnce
    <3>3. \A a \in Account : Stored(a) \subseteq {Cipher(p)}
      BY <3>1, <3>2 DEF UnlockKnows, Knows
    <3>4. Cipher(p).salt = salt
      BY <3>1, CipherIsKey DEF UnlockKnows, Knows, Keyed
    <3> QED
      BY <2>1, <3>1, <3>3, <3>4 DEF OneKey
  <2> QED
    BY <2>2, <2>3, <2>4
<1> QED
  BY <1>2, <1>3, TablesKept

LEMMA OneTableStep ==
    ASSUME IInv, [Next]_vars
    PROVE  OneTable'
BY TablesKept, DataKeys DEF IInv, OneTable, tables

LEMMA OpenMeansKeyStep ==
    ASSUME IInv, [Next]_vars
    PROVE  OpenMeansKey'
<1> USE DEF IInv
<1>1. CASE repo' = repo
  BY <1>1, StepWritesOnce DEF OpenMeansKey, WritesOnce
<1>2. ASSUME NEW p \in Process, Verify(p) PROVE OpenMeansKey'
  BY <1>2 DEF OpenMeansKey, TypeOK, Verify, Open, Refuse, file
<1>3. ASSUME NEW p \in Process, ValidateCipher(p) PROVE OpenMeansKey'
  BY <1>3, <1>1 DEF ValidateCipher, Refuse
<1>4. ASSUME NEW p \in Process, CreateVerifier(p) PROVE OpenMeansKey'
  BY <1>4 DEF OpenMeansKey, TypeOK, CreateVerifier, Open, Refuse
<1>5. ASSUME NEW p \in Process, Restart(p) PROVE OpenMeansKey'
  BY <1>5 DEF OpenMeansKey, TypeOK, Restart, file
<1>6. ASSUME NEW p \in Process, NEW password \in Password, NEW confirmation \in Password,
             Try(p, password, confirmation) \/ ReadSettings(p) \/ ListMissing(p) \/ Migrate(p)
             \/ Migrated(p) \/ GetSalt(p) \/ GetVerifier(p) \/ DataStep(p) \/ Fails(p)
      PROVE  repo' = repo
  BY <1>6 DEF Try, ReadSettings, ListMissing, Migrate, Migrated, GetSalt, GetVerifier, Fails,
     DataStep, AddPending, CompletePending, Rewrite, Delete, Export, Import, rest
<1>7. CASE UNCHANGED vars
  BY <1>1, <1>7 DEF vars
<1> QED
  BY <1>1, <1>2, <1>3, <1>4, <1>5, <1>6, <1>7, VaultAssumption DEF Next, UnlockStep, DataStep

(***************************************************************************)
(* The way through unlock                                                  *)
(***************************************************************************)
\* What a process knows outlives the steps of the others.
LEMMA KnowsKept ==
    ASSUME IInv, [Next]_vars, NEW p \in Process,
           pc'[p] = pc[p], typed'[p] = typed[p], todo'[p] = todo[p]
    PROVE  Knows(p)'
<1> USE DEF IInv
<1>1. WritesOnce /\ Applied \subseteq Applied' /\ Knows(p)
  BY StepWritesOnce, InOrderStep DEF UnlockKnows
<1>2. pc[p] \in Keyed => salt # None /\ salt' = salt
  BY <1>1 DEF WritesOnce, Knows
<1>3. ASSUME pc[p] = "create", verifier' = NoKey
      PROVE  \A a \in Account : Stored(a)' \subseteq {Cipher(p)'}
  <2>1. verifier = NoKey /\ Cipher(p)' = Cipher(p)
    BY <1>1, <1>2, <1>3 DEF WritesOnce, Cipher, Keyed
  <2>2. \A a \in Account : Stored(a) \subseteq {Cipher(p)}
    BY <1>1, <1>3, <2>1 DEF Knows
  <2>3. tables' = tables
    BY <2>1, TablesKept, DataKeys
  <2> QED
    BY <2>1, <2>2, <2>3 DEF Stored, tables
<1> QED
  BY <1>1, <1>2, <1>3 DEF Knows, WritesOnce

\* If every sampled row is made with one key, so is every other.
LEMMA SampleTellsAll ==
    ASSUME IInv, NEW k, Samples = {} \/ {k} \in Samples
    PROVE  \A a \in Account : Stored(a) \subseteq {k}
BY DEF IInv, OneKey, Samples, Stored

LEMMA UnlockKnowsStep ==
    ASSUME IInv, [Next]_vars
    PROVE  UnlockKnows'
<1> USE DEF IInv
<1>1. SUFFICES ASSUME NEW p \in Process PROVE Knows(p)'
  BY DEF UnlockKnows
<1>2. WritesOnce /\ Knows(p) /\ Applied \subseteq Applied'
  BY StepWritesOnce, InOrderStep DEF UnlockKnows
<1> DEFINE Same(q) == pc'[q] = pc[q] /\ typed'[q] = typed[q] /\ todo'[q] = todo[q]
<1>3. CASE Same(p)
  BY <1>3, KnowsKept
<1>4. CASE pc'[p] \in {"idle", "open"}
  BY <1>4 DEF Knows, Keyed
<1>5. CASE UNCHANGED vars
  BY <1>3, <1>5 DEF vars
<1>6. ASSUME NEW q \in Process, NEW password \in Password, NEW confirmation \in Password,
             Try(q, password, confirmation)
      PROVE  Knows(p)'
  BY <1>3, <1>4, <1>6 DEF Try, Go, TypeOK
<1>7. ASSUME NEW q \in Process, ReadSettings(q) PROVE Knows(p)'
  BY <1>3, <1>4, <1>7 DEF ReadSettings, Go, TypeOK
<1>8. ASSUME NEW q \in Process, UnlockStep(q) PROVE Knows(p)'
  <2>1. CASE q # p
    <3>1. Same(p)
      BY <1>8, <2>1 DEF UnlockStep, ListMissing, Migrate, Migrated, GetSalt, GetVerifier, Verify,
         ValidateCipher, CreateVerifier, Open, Refuse, Leave, Go, TypeOK
    <3> QED
      BY <1>3, <3>1
  <2>2. CASE q = p
    <3>1. CASE ListMissing(p)
      <4>1. pc'[p] = "migrate" /\ todo'[p] = Version \ Applied /\ Applied' = Applied
        BY <3>1 DEF ListMissing, Missing, Go, TypeOK, file, Applied
      <4> QED
        BY <4>1 DEF Knows, Keyed
    <3>2. CASE Migrate(p)
      <4>1. CASE Leave(p)
        BY <1>4, <4>1 DEF Leave, Go, TypeOK
      <4>2. ASSUME NEW v \in Version, log' = Append(log, v), todo' = [todo EXCEPT ![p] = @ \ {v}],
                   UNCHANGED pc
            PROVE  Knows(p)'
        <5>1. v \in Applied'
          <6>1. log \in Seq(Version) /\ Len(log) \in Nat
            BY DEF TypeOK
          <6>2. DOMAIN log' = 1 .. Len(log) + 1 /\ log'[Len(log) + 1] = v
            BY <4>2, <6>1, AppendProperties
          <6> QED
            BY <6>1, <6>2 DEF Applied
        <5>2. Version \ Applied' \subseteq todo'[p] /\ pc'[p] = "migrate"
          BY <1>2, <3>2, <4>2, <5>1 DEF Knows, Migrate, At, TypeOK
        <5> QED
          BY <5>2 DEF Knows, Keyed
      <4> QED
        BY <3>2, <4>1, <4>2 DEF Migrate
    <3>3. CASE Migrated(p)
      <4>1. CASE typed[p] = None
        BY <1>4, <3>3, <4>1 DEF Migrated, Leave, Go, TypeOK
      <4>2. CASE typed[p] # None
        <5>1. pc'[p] = "salt" /\ typed' = typed
          BY <3>3, <4>2 DEF Migrated, Go, TypeOK
        <5> QED
          BY <4>2, <5>1 DEF Knows, Keyed
      <4> QED
        BY <4>1, <4>2
    <3>4. CASE GetSalt(p)
      <4>1. pc[p] = "salt" /\ pc'[p] = "verifier" /\ typed' = typed /\ salt' # None
        BY <3>4, VaultAssumption DEF GetSalt, At, Go, TypeOK
      <4> QED
        BY <1>2, <4>1 DEF Knows
    <3>5. CASE GetVerifier(p)
      <4>1. /\ pc[p] = "verifier" /\ typed' = typed /\ salt' = salt /\ verifier' = verifier
            /\ pc'[p] = IF verifier = NoKey THEN "validate" ELSE "verify"
        BY <3>5 DEF GetVerifier, At, Go, TypeOK, file
      <4> QED
        BY <1>2, <4>1 DEF Knows, Keyed
    <3>6. CASE Verify(p)
      BY <1>4, <3>6 DEF Verify, Open, Refuse, Leave, Go, TypeOK
    <3>7. CASE ValidateCipher(p)
      <4>1. CASE Leave(p)
        BY <1>4, <4>1 DEF Leave, Go, TypeOK
      <4>2. CASE Go(p, "create") /\ UNCHANGED typed
        <5>1. /\ pc[p] = "validate" /\ pc'[p] = "create" /\ typed' = typed
              /\ UNCHANGED <<salt, verifier, accounts, pending>>
          BY <3>7, <4>2 DEF ValidateCipher, At, Go, TypeOK, file, tables
        <5>2. Samples = {} \/ {Cipher(p)} \in Samples
          BY <3>7, <5>1 DEF ValidateCipher, Refuse, Leave, Go, TypeOK
        <5>3. \A a \in Account : Stored(a)' \subseteq {Cipher(p)'}
          BY <5>1, <5>2, SampleTellsAll DEF Stored, Cipher
        <5> QED
          BY <1>2, <5>1, <5>3 DEF Knows, Keyed
      <4> QED
        BY <3>7, <4>1, <4>2 DEF ValidateCipher, Refuse
    <3>8. CASE CreateVerifier(p)
      BY <1>4, <3>8 DEF CreateVerifier, Open, Refuse, Leave, Go, TypeOK
    <3> QED
      BY <1>8, <2>2, <3>1, <3>2, <3>3, <3>4, <3>5, <3>6, <3>7, <3>8 DEF UnlockStep
  <2> QED
    BY <2>1, <2>2
<1>9. ASSUME NEW q \in Process, DataStep(q) PROVE Knows(p)'
  BY <1>3, <1>9 DEF DataStep, AddPending, CompletePending, Rewrite, Delete, Export, Import, rest
<1>10. ASSUME NEW q \in Process, Fails(q) \/ Restart(q) PROVE Knows(p)'
  BY <1>3, <1>4, <1>10 DEF Fails, Restart, Leave, Go, TypeOK
<1> QED
  BY <1>5, <1>6, <1>7, <1>8, <1>9, <1>10 DEF Next, DataStep

(***************************************************************************)
(* The theorems                                                            *)
(***************************************************************************)
\* The inductive invariant: the properties and what the places of unlock rely on.
THEOREM Invariant == Spec => []IInv
<1>1. Init => IInv
  BY InitIInv
<1>2. IInv /\ [Next]_vars => IInv'
  BY TypeStep, OneKeyStep, OpenMeansKeyStep, InOrderStep, LastSchemaStep, OneTableStep,
     UnlockKnowsStep DEF IInv, SchemaSound
<1> QED
  BY <1>1, <1>2, PTL DEF Spec

\* Type correctness.
THEOREM TypeCorrect == Spec => []TypeOK
BY Invariant, PTL DEF IInv

\* All that is encrypted is encrypted with one key, however first unlocks race.
THEOREM OneKeyForAll == Spec => []OneKey
BY Invariant, PTL DEF IInv

\* Nobody is in with another key than the vault's.
THEOREM OpenersHaveTheKey == Spec => []OpenMeansKey
BY Invariant, PTL DEF IInv

\* The migrations are applied in their order, each once, and before anything else.
THEOREM SchemaIsSound == Spec => []SchemaSound
BY Invariant, PTL DEF IInv

\* No account has a row in both tables.
THEOREM TablesAreDisjoint == Spec => []OneTable
BY Invariant, PTL DEF IInv

\* Neither salt nor verifier ever changes once it is there.
THEOREM KeyIsFixed == Spec => KeyStays
<1>1. [Next]_vars => [/\ salt # None => salt' = salt
                      /\ verifier # NoKey => verifier' = verifier]_vars
  BY StepWritesOnce DEF WritesOnce
<1> QED
  BY <1>1, PTL DEF Spec, KeyStays
=============================================================================
