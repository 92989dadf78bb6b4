----------------------------- MODULE PoolProofs -----------------------------
(***************************************************************************)
(* Proofs, for any accounts, calls and providers of the user's own, of     *)
(* what the account pool guarantees.                                       *)
(*                                                                         *)
(* RowInv and PlaceInv say what a call has at hand at its await, Held that *)
(* the completion lock is held by the one completion, import or apply at   *)
(* work, Apart that removals and repairs have the pool to themselves where *)
(* the conduct of the user gives it to them.  Each action is a sound step  *)
(* of one call (Sound): it keeps the invariant, leaves the other calls     *)
(* where they are, changes files only when the call is at a write or rolls *)
(* back, and what it loads to add a key to is current.  From that follows  *)
(* that nobody comes between a load and its write (NobodyInBetween), and   *)
(* from that that additions overwrite nothing (AddersKeepKeys).            *)
(*                                                                         *)
(* A pool without overlaps has the ledger of PoolBalance besides: what the *)
(* call at work has added or taken away, and what its rollback restores.   *)
(* Each action settles it (Settled: the call goes on with the ledger or    *)
(* ends in balance) or closes it (Closed: it ends with the vault changed). *)
(* From the balance follow InStep, WaitingAbove and KeysKept.              *)
(***************************************************************************)
EXTENDS PoolBalance, FiniteNumbers
LOCAL INSTANCE FiniteSetsExt
LOCAL INSTANCE SequencesExt

(***************************************************************************)
(* Numbers and documents                                                   *)
(***************************************************************************)
\* The greatest of finitely many numbers is one of them.
LEMMA MaxGreatest ==
    ASSUME NEW S \in SUBSET Nat, IsFiniteSet(S), S # {}
    PROVE  Max(S) \in S /\ \A y \in S : y <= Max(S)
<1>1. PICK x \in S : \A y \in S : x >= y
  BY GreatestExists
<1> QED
  BY <1>1 DEF Max

\* The least of finitely many numbers is one of them.
LEMMA MinLeast ==
    ASSUME NEW S \in SUBSET Nat, IsFiniteSet(S), S # {}
    PROVE  Min(S) \in S
<1>1. PICK x \in S : \A y \in S : x =< y
  BY LeastExists
<1> QED
  BY <1>1 DEF Min

\* The next number is higher than all that are legible.
LEMMA Fresh ==
    ASSUME NEW N \in SUBSET Nat, IsFiniteSet(N)
    PROVE  /\ NextNumber(N) \in Nat /\ NextNumber(N) > Primary
           /\ \A n \in N : Legible(n) => n < NextNumber(N)
<1> DEFINE Seen == {n \in N : Legible(n)}
           S == Seen \cup {Primary}
<1>1. Seen \in SUBSET N /\ \A n \in N : Legible(n) => n \in Seen
  OBVIOUS
<1>2. NextNumber(N) = 1 + Max(S)
  BY DEF NextNumber
<1> HIDE DEF Seen
<1>3. S \in SUBSET Nat /\ S # {}
  BY <1>1 DEF Primary
<1>4. IsFiniteSet(S)
  BY <1>1, FS_Subset, FS_AddElement
<1>5. Max(S) \in S /\ \A y \in S : y <= Max(S)
  BY <1>3, <1>4, MaxGreatest
<1>6. Primary \in S /\ Seen \subseteq S
  OBVIOUS
<1> HIDE DEF S
<1>7. Max(S) \in Nat /\ Max(S) >= Primary
  BY <1>3, <1>5, <1>6
<1>8. \A n \in N : Legible(n) => n <= Max(S) /\ n \in Nat
  BY <1>1, <1>5, <1>6
<1> QED
  BY <1>2, <1>7, <1>8 DEF Primary

\* Provider is a finite set of numbers with the primary's.
LEMMA ProviderNumbers ==
    Provider \in SUBSET Nat /\ IsFiniteSet(Provider) /\ Primary \in Provider
<1> DEFINE S == Own \cup {Primary}
<1>1. Own \subseteq Nat /\ IsFiniteSet(Own) /\ IsFiniteSet(Account)
  BY PoolAssumption
<1>2. S \in SUBSET Nat /\ S # {} /\ IsFiniteSet(S)
  BY <1>1, FS_AddElement DEF Primary
<1>3. Max(S) \in Nat /\ Max(S) >= Primary
  BY <1>2, MaxGreatest DEF Primary
<1>4. Cardinality(Account) \in Nat
  BY <1>1, FS_CardinalityType
<1>5. Provider = 1 .. Max(S) + 2 * Cardinality(Account)
  BY DEF Provider
<1> HIDE DEF S
<1>6. /\ Max(S) + 2 * Cardinality(Account) \in Nat
      /\ Max(S) + 2 * Cardinality(Account) >= 1
  BY <1>3, <1>4 DEF Primary
<1> QED
  BY <1>5, <1>6, FS_Interval DEF Primary

\* Where all names are legible, the next number is free.
LEMMA FreshProvider ==
    ASSUME NEW N \in SUBSET Provider, \A n \in N : n = Primary \/ Legible(n)
    PROVE  NextNumber(N) \notin N
<1>1. N \in SUBSET Nat /\ IsFiniteSet(N)
  BY ProviderNumbers, FS_Subset
<1>2. NextNumber(N) \in Nat /\ NextNumber(N) > Primary
        /\ \A n \in N : Legible(n) => n < NextNumber(N)
  BY <1>1, Fresh
<1> QED
  BY <1>2 DEF Primary

(***************************************************************************)
(* The inductive invariant                                                 *)
(***************************************************************************)
\* What a call has at hand at its await.
RowInv(g) ==
    /\ g.op = "complete" => g.row.account \in Account
    /\ g.op = "remove" => g.row \in Row
    /\ g.op = "import" => \A i \in DOMAIN g.todo : g.todo[i].account \in Account
    /\ g.op = "apply" => g.todo \in Seq(Row)
    /\ g.pc = "name" => g.row.account \in Account
    /\ g.op # "repair" /\ g.pc \in {"models", "oc_load"} =>
          /\ g.row.account \in Account /\ (g.row.omo => g.row.oc)
          /\ g.row.provider # Unassigned \/ "opencode" \in g.adds
    /\ g.pc \in {"auth_load", "auth_write", "oc_write"} => g.row \in Row
    /\ g.pc \in {"omo_load", "omo_write"} =>
          IF g.op = "repair" THEN g.reserved \in SUBSET Provider /\ g.reserved # {}
                             ELSE g.row \in Row
    /\ g.op = "complete" /\ g.pc = "store" => g.made # <<>>

\* Which call is where, and what its sequences and sets have in them.
PlaceInv(g) ==
    /\ g.op = "none" <=> g.pc = "idle"
    /\ g.pc \in {"lock", "inspect", "primary", "list", "name", "oc_load", "auth_load",
                 "auth_write", "oc_write"} => g.op \in Locking
    /\ g.pc = "next" => g.op \in {"import", "apply"}
    /\ g.pc \in {"models", "omo_load", "omo_write"} => g.op \in Locking \cup {"repair"}
    /\ g.pc = "decode" => g.op = "import"
    /\ g.pc = "names" => g.op = "repair"
    /\ g.pc \in {"remote", "remaining", "edit_load", "edit_write", "delete"} => g.op = "remove"
    /\ g.pc \in {"edit_load", "edit_write"} => g.plan # <<>>
    /\ g.pc = "undo" => g.writes # <<>>
    /\ IsFiniteSet(g.reserved)

\* What is true of a call on its own.
CallInv(g) == g \in Call /\ RowInv(g) /\ PlaceInv(g)

\* The lock is held by the one completion, import or apply at work, and by nobody else.
Held(j) == lock = j <=> job[j].op \in Locking /\ Busy(job[j])

\* Where removals and repairs have the pool to themselves, they have.
Apart(i, j) ==
    job[i].pc \notin {"idle", "remote"} /\ job[j].pc \notin {"idle", "remote"} =>
        ~Alone(job[i].op) /\ ~Alone(job[j].op)

\* What is true of the calls among each other.
CallsInv ==
    /\ job \in [Job -> Call]
    /\ \A j \in Job : CallInv(job[j]) /\ Held(j)
    /\ Overlap # "any" => \A i, j \in Job : i # j => Apart(i, j)
    /\ lock \in Job \cup {Nothing}

\* The types of what the calls work on.
WorldInv ==
    /\ files \in [File -> Document]
    /\ vault \in Seq(Row)
    /\ pending \subseteq Account /\ flows \subseteq Account /\ outside \subseteq Account
    /\ settings \in Settings

(***************************************************************************)
(* How the steps of a call leave the other calls                           *)
(***************************************************************************)
USE DEF Nothing, User, Primary, Unassigned, File

\* Nobody else moves.
Rest(j) ==
    \A i \in Job \ {j} : /\ job'[i].op = job[i].op /\ job'[i].pc = job[i].pc
                         /\ job'[i].loaded = job[i].loaded /\ job'[i].row = job[i].row

\* A call goes on at work.
Onward(g, h) == CallInv(h) /\ h.op = g.op /\ Busy(g) /\ Busy(h)

\* A call that is asked for, gets the lock or stays at work.
LEMMA BecomeOK ==
    ASSUME CallsInv, NEW j \in Job, NEW h, Onward(job[j], h), Become(j, h), UNCHANGED lock
    PROVE  CallsInv' /\ Rest(j)
<1>1. /\ job' \in [Job -> Call] /\ job'[j] = h
      /\ \A i \in Job \ {j} : job'[i] = job[i]
  BY DEF CallsInv, Become, Onward, CallInv
<1>2. \A i \in Job : CallInv(job'[i])
  BY <1>1 DEF CallsInv, Onward
<1>3. \A i \in Job : Held(i)'
  BY <1>1 DEF CallsInv, Onward, Held, Busy
<1>4. Overlap # "any" => \A i, k \in Job : i # k => Apart(i, k)'
  BY <1>1 DEF CallsInv, Onward, Apart, Busy
<1> QED
  BY <1>1, <1>2, <1>3, <1>4 DEF CallsInv, CallInv, Rest

\* An idle call has nothing at hand.
LEMMA IdleOK == CallInv(Idle) /\ Idle.op = "none" /\ Idle.pc = "idle" /\ ~Busy(Idle)
<1>1. NoFile \in Document
  BY DEF NoFile, Document
<1>2. Idle \in Call
  BY <1>1 DEF Idle, Call, Location, Settings, NoRow, AnyRow
<1>3. IsFiniteSet({})
  BY FS_EmptySet
<1> QED
  BY <1>2, <1>3 DEF Idle, CallInv, RowInv, PlaceInv, Busy, NoRow

\* A call that ends gives the lock back and leaves the others where they are.
LEMMA FinishOK ==
    ASSUME CallsInv, NEW j \in Job, Finish(j)
    PROVE  CallsInv' /\ Rest(j) /\ job'[j] = Idle
<1>1. /\ job' \in [Job -> Call] /\ job'[j] = Idle
      /\ \A i \in Job \ {j} : job'[i] = job[i]
  BY IdleOK DEF CallsInv, Become, Finish, CallInv
<1>2. \A i \in Job : CallInv(job'[i])
  BY <1>1, IdleOK DEF CallsInv
<1>3. \A i \in Job : Held(i)'
  <2>1. Nothing \notin Job
    BY PoolAssumption
  <2> QED
    BY <1>1, <2>1, IdleOK DEF CallsInv, Held, Finish, Busy, Locking
<1>4. Overlap # "any" => \A i, k \in Job : i # k => Apart(i, k)'
  BY <1>1, IdleOK DEF CallsInv, Apart
<1> QED
  BY <1>1, <1>2, <1>3, <1>4 DEF CallsInv, CallInv, Rest, Finish

\* A call that fails ends or rolls back.
LEMMA FailOK ==
    ASSUME CallsInv, NEW j \in Job, Busy(job[j]), Fail(j, job[j])
    PROVE  CallsInv' /\ Rest(j) /\ job'[j].pc \in {"idle", "undo"}
<1>1. CASE Finish(j)
  BY <1>1, FinishOK, IdleOK
<1>2. CASE ~Finish(j)
  <2> DEFINE h == [job[j] EXCEPT !.pc = "undo"]
  <2>1. Become(j, h) /\ UNCHANGED lock /\ job[j].writes # <<>>
    BY <1>2 DEF Fail
  <2>2. Onward(job[j], h) /\ h.pc = "undo"
    <3>1. job[j] \in Call /\ CallInv(job[j])
      BY DEF CallsInv
    <3>2. h \in Call
      BY <3>1 DEF Call, Location
    <3> QED
      BY <2>1, <3>1, <3>2 DEF Onward, CallInv, RowInv, PlaceInv, Busy, Call, Locking
  <2> HIDE DEF h
  <2>3. CallsInv' /\ Rest(j) /\ job'[j] = h
    BY <2>1, <2>2, BecomeOK DEF CallsInv, Become
  <2> QED
    BY <2>2, <2>3
<1> QED
  BY <1>1, <1>2

\* h is g, but for what it has of the documents and for the fields in F.
Like(g, h, F) ==
    \A f \in {"op", "conf", "free", "reserved", "todo", "row", "adds", "writes", "made", "plan",
              "promoted"} \ F : h[f] = g[f]

\* A call goes on elsewhere with all it has.
LEMMA MovedOK ==
    ASSUME NEW g \in Call, NEW l \in Location
    PROVE  /\ [g EXCEPT !.pc = l] \in Call /\ [g EXCEPT !.pc = l].pc = l
           /\ Like(g, [g EXCEPT !.pc = l], {})
  BY DEF Call, Like

(***************************************************************************)
(* What a call makes of what it has at hand                                *)
(***************************************************************************)
\* A call that has its provider goes on to the commit or to the next row.
LEMMA ConfiguredOK ==
    ASSUME NEW g \in Call, g.op \in Locking, g.row \in Row, Busy(g), PlaceInv(g), RowInv(g)
    PROVE  Onward(g, Configured(g)) /\ Configured(g).pc \in {"store", "next"}
<1> DEFINE h == Configured(g)
<1>1. NoFile \in Document
  BY DEF NoFile, Document
<1>2. Append(g.made, g.row) \in Seq(Row) /\ Append(g.made, g.row) # <<>>
  BY DEF Call
<1>3. h = [g EXCEPT !.made = Append(g.made, g.row), !.loaded = NoFile,
                    !.pc = IF g.op = "complete" THEN "store" ELSE "next"]
  BY DEF Configured
<1>4. h \in Call
  BY <1>1, <1>2, <1>3 DEF Call, Location
<1>5. /\ h.op = g.op /\ h.pc = (IF g.op = "complete" THEN "store" ELSE "next")
      /\ h.row = g.row /\ h.todo = g.todo /\ h.reserved = g.reserved
      /\ h.made = Append(g.made, g.row)
  BY <1>3 DEF Call
<1> HIDE DEF h
<1>6. RowInv(h)
  BY <1>2, <1>5 DEF RowInv, Locking, Row
<1>7. PlaceInv(h)
  BY <1>5 DEF PlaceInv, Locking
<1>8. Busy(h)
  BY <1>5 DEF Busy
<1> QED
  BY <1>4, <1>5, <1>6, <1>7, <1>8 DEF Onward, CallInv, h

\* A row that has a number, or is to get one from opencode.json, goes to the files.
LEMMA ConfigureOK ==
    ASSUME NEW g \in Call, g.op \in Locking, g.pc \in {"primary", "name", "next"},
           PlaceInv(g), RowInv(g),
           NEW r \in AnyRow, r.account \in Account, r.omo => r.oc,
           NEW adds \in SUBSET {"opencode", "omo"},
           r.provider # Unassigned \/ "opencode" \in adds
    PROVE  /\ Onward(g, Configure(g, r, adds))
           /\ Configure(g, r, adds).pc \in {"store", "next", "models", "auth_load"}
<1> DEFINE h == [g EXCEPT !.row = r, !.adds = adds]
<1>1. h \in Call /\ h.op = g.op /\ h.pc = g.pc /\ h.row = r /\ h.adds = adds
      /\ h.todo = g.todo /\ h.reserved = g.reserved /\ h.made = g.made /\ h.plan = g.plan
      /\ h.writes = g.writes
  BY DEF Call
<1> HIDE DEF h
<1>2. r.provider # Unassigned => r \in Row
  BY DEF Row, AnyRow
<1>3. h.pc \in {"primary", "name", "next"} /\ Busy(h) /\ h.op \in Locking
  BY <1>1 DEF Busy
<1>4. RowInv(h) /\ PlaceInv(h)
  BY <1>1 DEF RowInv, PlaceInv, Locking
<1>5. CASE r.provider # Primary /\ adds = {}
  <2>1. Onward(h, Configured(h)) /\ Configured(h).pc \in {"store", "next"}
    BY <1>1, <1>2, <1>3, <1>4, <1>5, ConfiguredOK
  <2> QED
    BY <2>1, <1>1, <1>5 DEF Configure, h, Onward, Busy
<1>6. CASE r.provider = Primary /\ "opencode" \notin adds
  <2>1. Onward(h, Configured(h)) /\ Configured(h).pc \in {"store", "next"}
    BY <1>1, <1>2, <1>3, <1>4, <1>6, ConfiguredOK
  <2> QED
    BY <2>1, <1>1, <1>6 DEF Configure, h, Onward, Busy
<1>7. CASE r.provider # Primary /\ adds # {}
  <2> DEFINE k == [h EXCEPT !.pc = "models"]
  <2>1. k \in Call /\ k.pc = "models" /\ Like(h, k, {})
    BY <1>1, MovedOK DEF Location, Loading
  <2>3. k.op = g.op /\ k.row = r /\ k.adds = adds /\ k.todo = h.todo /\ k.reserved = h.reserved
    BY <1>1, <2>1 DEF Like
  <2>2. Configure(g, r, adds) = k
    BY <1>7 DEF Configure, h
  <2> HIDE DEF k
  <2>4. RowInv(k)
    BY <1>1, <1>3, <1>4, <2>1, <2>3 DEF RowInv, Locking
  <2>5. PlaceInv(k)
    BY <1>1, <1>3, <1>4, <2>1, <2>3 DEF PlaceInv, Locking
  <2> QED
    BY <1>3, <2>1, <2>2, <2>3, <2>4, <2>5 DEF Onward, CallInv, Busy
<1>8. CASE r.provider = Primary /\ "opencode" \in adds
  <2> DEFINE k == [h EXCEPT !.pc = "auth_load"]
  <2>1. k \in Call /\ k.pc = "auth_load" /\ Like(h, k, {})
    BY <1>1, MovedOK DEF Location, Loading
  <2>3. k.op = g.op /\ k.row = r /\ k.adds = adds /\ k.todo = h.todo /\ k.reserved = h.reserved
    BY <1>1, <2>1 DEF Like
  <2>2. Configure(g, r, adds) = k
    BY <1>8 DEF Configure, h
  <2> HIDE DEF k
  <2>4. RowInv(k)
    BY <1>1, <1>2, <1>3, <1>4, <1>8, <2>1, <2>3 DEF RowInv, Locking
  <2>5. PlaceInv(k)
    BY <1>1, <1>3, <1>4, <2>1, <2>3 DEF PlaceInv, Locking
  <2> QED
    BY <1>3, <2>1, <2>2, <2>3, <2>4, <2>5 DEF Onward, CallInv, Busy
<1> QED
  BY <1>5, <1>6, <1>7, <1>8

\* The flags of a row that is to be configured as the settings say.
LEMMA FlaggedOK ==
    ASSUME NEW g \in Call, g.row.account \in Account, NEW n \in Nat
    PROVE  /\ Flagged(g, n) \in AnyRow /\ Flagged(g, n).account \in Account
           /\ Flagged(g, n).omo => Flagged(g, n).oc
           /\ Flagged(g, n).provider = n
           /\ Flagged(g, n).oc => "opencode" \in FilesOf(g.conf)
           /\ FilesOf(g.conf) \in SUBSET {"opencode", "omo"}
           /\ g.conf.opencode => "opencode" \in FilesOf(g.conf)
  BY DEF Call, Flagged, AnyRow, FilesOf, Settings

(***************************************************************************)
(* What is promised of a step                                              *)
(***************************************************************************)
\* The invariant of all calls and of what they share.
Inv == CallsInv /\ WorldInv

\* What a call has loaded to add a key to is the file as it is, and the key's place
\* is free.
Current(g) ==
    /\ g.pc = "auth_write" => g.loaded = files["auth"] /\ Primary \notin Names(files["auth"])
    /\ g.pc = "oc_write" => /\ g.loaded = files["opencode"]
                            /\ Readable => g.row.provider \notin Names(files["opencode"])

\* A step keeps the invariant and the other calls; only writers change files; what is
\* loaded is current.
Sound(j) ==
    /\ Inv' /\ Rest(j)
    /\ files' # files => job[j].pc \in Writing \cup {"undo"}
    /\ job'[j].pc \in {"auth_write", "oc_write"} => files' = files /\ Current(job'[j])

\* What is known of one call.
LEMMA CallOf ==
    ASSUME CallsInv, NEW j \in Job
    PROVE  /\ job[j] \in Call /\ RowInv(job[j]) /\ PlaceInv(job[j]) /\ CallInv(job[j])
           /\ DOMAIN job = Job
  BY DEF CallsInv, CallInv

\* A call that goes on at work makes a sound step.
LEMMA BecomeSound ==
    ASSUME Inv, NEW j \in Job, NEW h, Onward(job[j], h), Become(j, h), UNCHANGED lock,
           WorldInv', UNCHANGED files, Current(h)
    PROVE  Sound(j)
<1>1. job'[j] = h
  BY CallOf DEF Become, Inv
<1> QED
  BY <1>1, BecomeOK DEF Sound, Inv

\* A call that ends makes a sound step.
LEMMA FinishSound ==
    ASSUME Inv, NEW j \in Job, Finish(j), WorldInv',
           files' # files => job[j].pc \in Writing \cup {"undo"}
    PROVE  Sound(j)
  BY FinishOK, IdleOK DEF Sound, Inv

\* A call that fails makes a sound step.
LEMMA FailSound ==
    ASSUME Inv, NEW j \in Job, Busy(job[j]), Fail(j, job[j]), WorldInv', UNCHANGED files
    PROVE  Sound(j)
  BY FailOK DEF Sound, Inv

\* What is left alone stays well-typed.
LEMMA SameWorld ==
    ASSUME Inv, UNCHANGED <<files, book, settings>>
    PROVE  WorldInv' /\ UNCHANGED files
  BY DEF Inv, WorldInv, book

\* A call that is asked for waits for its turn.
LEMMA AskedOK ==
    ASSUME CallsInv, NEW j \in Job, NEW h, At(j, "idle"), CallInv(h), h.op # "none",
           Become(j, h), UNCHANGED lock, Busy(h) => h.op \notin Locking,
           Overlap # "any" /\ h.pc # "remote" =>
               \A i \in Job \ {j} : job[i].pc \in {"idle", "remote"}
                                    \/ (~Alone(job[i].op) /\ ~Alone(h.op))
    PROVE  CallsInv' /\ Rest(j) /\ job'[j] = h
<1>1. /\ job' \in [Job -> Call] /\ job'[j] = h
      /\ \A i \in Job \ {j} : job'[i] = job[i]
  BY DEF CallsInv, Become, CallInv
<1>2. \A i \in Job : CallInv(job'[i])
  BY <1>1 DEF CallsInv
<1>3. job[j].op = "none" /\ ~Busy(job[j])
  BY CallOf DEF At, PlaceInv, Busy
<1>4. \A i \in Job : Held(i)'
  BY <1>1, <1>3 DEF CallsInv, Held
<1>5. Overlap # "any" => \A i, k \in Job : i # k => Apart(i, k)'
  BY <1>1 DEF CallsInv, Apart
<1> QED
  BY <1>1, <1>2, <1>4, <1>5 DEF CallsInv, CallInv, Rest

\* What MayWork grants: nobody is at work with whom op must not share the pool.
LEMMA TurnOf ==
    ASSUME NEW j \in Job, NEW op, MayWork(j, op), Overlap # "any", NEW i \in Job \ {j}
    PROVE  job[i].pc \in {"idle", "remote"} \/ (~Alone(job[i].op) /\ ~Alone(op))
  BY DEF MayWork, At

(***************************************************************************)
(* Rows                                                                    *)
(***************************************************************************)
\* The rows of a sequence of rows, and their accounts and numbers.
LEMMA RowsOf ==
    ASSUME NEW rows \in Seq(Row)
    PROVE  /\ rows \in Seq(AnyRow) /\ Accounts(rows) \subseteq Account
           /\ Providers(rows) \subseteq Nat /\ IsFiniteSet(Providers(rows))
           /\ \A a \in Accounts(rows) : RowOf(rows, a) \in Row /\ RowOf(rows, a).account = a
<1>1. \A i \in DOMAIN rows : rows[i] \in Row
  OBVIOUS
<1>2. IsFiniteSet(Providers(rows))
  <2> DEFINE D == DOMAIN rows
             f == [i \in D |-> rows[i].provider]
  <2>1. IsFiniteSet(D)
    BY FS_Interval
  <2>2. f \in [D -> Providers(rows)] /\ \A n \in Providers(rows) : \E i \in D : f[i] = n
    BY DEF Providers
  <2> HIDE DEF f, D
  <2> QED
    BY <2>1, <2>2, FiniteRange
<1>3. rows \in Seq(AnyRow)
  <2>1. Row \subseteq AnyRow
    BY DEF Row, AnyRow
  <2> QED
    BY <2>1
<1>4. \A a \in Accounts(rows) : RowOf(rows, a) \in Row /\ RowOf(rows, a).account = a
  BY <1>1 DEF Accounts, RowOf
<1> QED
  BY <1>1, <1>2, <1>3, <1>4 DEF Accounts, Providers, Row

(***************************************************************************)
(* Calls are made                                                          *)
(***************************************************************************)
\* Where operations begin, and with which row.
Begins(op, l, r) ==
    \/ op \in Locking /\ l = "lock"
    \/ op = "repair" /\ l = "models"
    \/ op = "remove" /\ l = "remote" /\ r \in Row

\* A call as it is asked for.
New(op, l, r) == [Idle EXCEPT !.row = r, !.op = op, !.pc = l]

\* A new call has a row at most.
LEMMA NewCall ==
    ASSUME NEW op \in Op, NEW l \in {"lock", "models", "remote"}, NEW r \in AnyRow,
           Begins(op, l, r),
           op = "complete" => r.account \in Account
    PROVE  LET h == New(op, l, r)
           IN  /\ CallInv(h) /\ h.op = op /\ h.pc = l
               /\ Busy(h) => h.op \notin Locking
<1> DEFINE h == New(op, l, r)
<1>1. h \in Call
  BY IdleOK DEF New, CallInv, Call, Location
<1>2. h.op = op /\ h.pc = l /\ h.row = r /\ h.todo = <<>> /\ h.reserved = {}
  BY DEF Idle, New
<1> HIDE DEF h
<1>3. RowInv(h)
  BY <1>2 DEF RowInv, Locking, Begins
<1>4. IsFiniteSet({}) /\ op # "none"
  BY FS_EmptySet, PoolAssumption
<1>5. PlaceInv(h)
  BY <1>2, <1>4 DEF PlaceInv, Locking, Begins
<1>6. Busy(h) => h.op \notin Locking
  BY <1>2 DEF Busy, Locking, Begins
<1> QED
  BY <1>1, <1>2, <1>3, <1>5, <1>6 DEF CallInv, h

\* Asking for a call, by a user or by a flow.
LEMMA AskSound ==
    ASSUME Inv, NEW j \in Job, Ask(j)
    PROVE  Sound(j)
<1>1. CallsInv /\ WorldInv /\ NoRow \in AnyRow
  BY DEF Inv, NoRow, AnyRow
<1> SUFFICES ASSUME NEW op \in Op, NEW l \in {"lock", "models", "remote"}, NEW r \in AnyRow,
                    Begins(op, l, r),
                    op = "complete" => r.account \in Account,
                    MayAsk(j, op), Become(j, New(op, l, r)),
                    UNCHANGED lock, WorldInv', UNCHANGED files
             PROVE  Sound(j)
  <2>1. CASE AskComplete(j)
    <3>1. PICK a \in flows :
            /\ flows' = flows \ {a}
            /\ Called(j, "complete", "lock", [Idle EXCEPT !.row.account = a])
      BY <2>1 DEF AskComplete
    <3> DEFINE r == [NoRow EXCEPT !.account = a]
    <3>2. r \in AnyRow /\ r.account \in Account
      BY <1>1, <3>1 DEF WorldInv, AnyRow
    <3>3. [[Idle EXCEPT !.row.account = a] EXCEPT !.op = "complete", !.pc = "lock"]
            = New("complete", "lock", r)
      BY DEF Idle, New
    <3>4. Become(j, New("complete", "lock", r))
      BY <3>1, <3>3 DEF Called
    <3>5. WorldInv' /\ UNCHANGED <<files, lock>> /\ MayAsk(j, "complete")
      BY <1>1, <2>1, <3>1 DEF AskComplete, WorldInv
    <3> HIDE DEF r
    <3> QED
      BY <3>2, <3>4, <3>5 DEF MayAsk, Locking, Begins
  <2>2. CASE AskRemove(j)
    <3>1. PICK a \in Accounts(vault) :
            Called(j, "remove", "remote", [Idle EXCEPT !.row = RowOf(vault, a)])
      BY <2>2 DEF AskRemove
    <3> DEFINE r == RowOf(vault, a)
    <3>2. r \in Row /\ r \in AnyRow
      BY <1>1, <3>1, RowsOf DEF WorldInv, AnyRow, Row
    <3>3. Become(j, New("remove", "remote", r))
      BY <3>1 DEF Called, Idle, New
    <3>4. WorldInv' /\ UNCHANGED <<files, lock>> /\ MayAsk(j, "remove")
      BY <2>2, SameWorld DEF AskRemove
    <3> HIDE DEF r
    <3> QED
      BY <3>2, <3>3, <3>4 DEF MayAsk, Locking, Begins
  <2>3. ASSUME NEW op \in {"import", "apply", "repair"}, NEW l \in {"lock", "models"},
               op = "repair" <=> l = "models",
               MayAsk(j, op), Called(j, op, l, Idle), UNCHANGED <<files, book, settings, lock>>
        PROVE  Sound(j)
    <3>1. Become(j, New(op, l, NoRow))
      <4>1. [Idle EXCEPT !.row = NoRow] = Idle
        <5>1. Idle \in Call /\ Idle.row = NoRow
          BY IdleOK DEF CallInv, Idle
        <5> QED
          BY <5>1 DEF Call
      <4>2. [[Idle EXCEPT !.row = NoRow] EXCEPT !.op = op, !.pc = l]
              = [Idle EXCEPT !.op = op, !.pc = l]
        BY <4>1
      <4> QED
        BY <2>3, <4>2 DEF Called, New
    <3>2. WorldInv' /\ UNCHANGED files
      BY <2>3, SameWorld
    <3> QED
      BY <1>1, <2>3, <3>1, <3>2 DEF MayAsk, Locking, Begins
  <2> QED
    BY <2>1, <2>2, <2>3 DEF Ask, AskImport, AskApply, AskRepair
<1> DEFINE h == New(op, l, r)
<1>2. CallInv(h) /\ h.op = op /\ h.pc = l /\ (Busy(h) => h.op \notin Locking)
  BY NewCall
<1>3. At(j, "idle") /\ (l # "remote" => MayWork(j, op)) /\ op # "none"
  BY PoolAssumption DEF MayAsk, Locking, Begins
<1> HIDE DEF h
<1>4. Become(j, h)
  BY DEF h
<1>5. CallsInv' /\ Rest(j) /\ job'[j] = h
  BY <1>1, <1>2, <1>3, <1>4, AskedOK, TurnOf
<1> QED
  BY <1>2, <1>5 DEF Sound, Inv

(***************************************************************************)
(* Reading                                                                 *)
(***************************************************************************)
\* The cleanup of a pending account touches no call and no file.
LEMMA DiscardSound == ASSUME Inv, Discard PROVE Inv' /\ UNCHANGED <<files, job>>
<1>1. WorldInv' /\ UNCHANGED <<files, lock, job>>
  BY DEF Discard, Inv, WorldInv
<1> QED
  BY <1>1 DEF Inv, CallsInv, Held, Apart

\* The switches may change at any time.
LEMMA SettingsSound == ASSUME Inv, ChangeSettings PROVE Inv' /\ UNCHANGED <<files, job>>
<1>1. WorldInv' /\ UNCHANGED <<files, lock, job>>
  BY DEF ChangeSettings, Inv, WorldInv, book
<1> QED
  BY <1>1 DEF Inv, CallsInv, Held, Apart

\* The lock is free when it is taken, and whoever takes it is a completion, an import
\* or an application.
LEMMA AcquireSound ==
    ASSUME Inv, NEW j \in Job, Acquire(j)
    PROVE  Sound(j)
<1> DEFINE g == job[j]
           l == IF g.op = "import" THEN "decode" ELSE "inspect"
           h == [g EXCEPT !.pc = l]
<1>1. g \in Call /\ RowInv(g) /\ PlaceInv(g) /\ g.pc = "lock" /\ CallsInv
  BY CallOf DEF Inv, Acquire, At
<1>2. h \in Call /\ h.pc = l /\ Like(g, h, {})
  BY <1>1, MovedOK DEF Location
<1>3. h.op = g.op /\ h.row = g.row /\ h.todo = g.todo /\ h.reserved = g.reserved
  BY <1>2 DEF Like
<1>4. lock = Nothing /\ lock' = j /\ Become(j, h)
  BY DEF Acquire
<1> HIDE DEF h
<1>5. CallInv(h)
  BY <1>1, <1>2, <1>3 DEF CallInv, RowInv, PlaceInv, Locking
<1>6. h.op \in Locking /\ Busy(h) /\ h.pc \notin {"idle", "remote"}
  BY <1>1, <1>2, <1>3 DEF PlaceInv, Busy
<1>7. /\ job' \in [Job -> Call] /\ job'[j] = h
      /\ \A i \in Job \ {j} : job'[i] = job[i]
  BY <1>1, <1>2, <1>4 DEF CallsInv, Become
<1>8. \A i \in Job : CallInv(job'[i])
  BY <1>1, <1>5, <1>7 DEF CallsInv
<1>9. \A i \in Job : Held(i)'
  <2>1. Nothing \notin Job
    BY PoolAssumption
  <2> QED
    BY <1>1, <1>4, <1>6, <1>7, <2>1 DEF CallsInv, Held
<1>10. Overlap # "any" => \A i, k \in Job : i # k => Apart(i, k)'
  BY <1>1, <1>3, <1>6, <1>7 DEF CallsInv, Apart
<1>11. CallsInv' /\ Rest(j)
  BY <1>4, <1>7, <1>8, <1>9, <1>10 DEF CallsInv, Rest
<1>12. WorldInv' /\ UNCHANGED files
  BY SameWorld DEF Acquire
<1> QED
  BY <1>2, <1>7, <1>11, <1>12 DEF Sound, Inv, Acquire

\* Reading a bundle.
LEMMA DecodeSound ==
    ASSUME Inv, NEW j \in Job, Decode(j)
    PROVE  Sound(j)
<1>1. WorldInv' /\ UNCHANGED files /\ CallsInv
  BY SameWorld DEF Decode, Inv
<1>2. ASSUME NEW S \in SUBSET (outside \cup pending \cup Accounts(vault)) \ {{}},
             NEW s \in SetToSeqs(S), UNCHANGED lock,
             Become(j, [job[j] EXCEPT
                         !.todo = [i \in DOMAIN s |-> [NoRow EXCEPT !.account = s[i]]],
                         !.pc = "inspect"])
      PROVE  Sound(j)
  <2> DEFINE g == job[j]
             todo == [i \in DOMAIN s |-> [NoRow EXCEPT !.account = s[i]]]
             h == [g EXCEPT !.todo = todo, !.pc = "inspect"]
  <2>1. g \in Call /\ RowInv(g) /\ PlaceInv(g) /\ g.pc = "decode" /\ Busy(g)
    BY <1>1, CallOf DEF Decode, At, Busy
  <2>2. S \subseteq Account
    BY RowsOf DEF Inv, WorldInv
  <2>3. Cardinality(S) \in Nat
    BY <2>2, PoolAssumption, FS_Subset, FS_CardinalityType
  <2>4. s \in [1 .. Cardinality(S) -> Account]
    BY <2>2, <1>2 DEF SetToSeqs
  <2>5. /\ todo \in [1 .. Cardinality(S) -> AnyRow]
        /\ \A i \in DOMAIN todo : todo[i].account \in Account
    BY <2>4 DEF NoRow, AnyRow
  <2> HIDE DEF todo
  <2>6. todo \in Seq(AnyRow)
    BY <2>3, <2>5
  <2>7. h \in Call /\ h.pc = "inspect" /\ h.todo = todo /\ h.op = g.op /\ h.row = g.row
          /\ h.reserved = g.reserved
    BY <2>1, <2>6 DEF Call, Location
  <2>8. Become(j, h)
    BY <1>2 DEF todo
  <2> HIDE DEF h
  <2>9. Onward(g, h)
    BY <2>1, <2>5, <2>7 DEF Onward, CallInv, RowInv, PlaceInv, Busy, Locking
  <2> QED
    BY <1>1, <1>2, <2>7, <2>8, <2>9, BecomeSound DEF Current
<1>3. CASE Finish(j)
  BY <1>1, <1>3, FinishSound
<1> QED
  BY <1>2, <1>3 DEF Decode

\* A step that goes on at work with the files unread.
LEMMA OnwardSound ==
    ASSUME Inv, NEW j \in Job, NEW h, Onward(job[j], h), Become(j, h),
           UNCHANGED <<files, book, settings, lock>>, h.pc \notin {"auth_write", "oc_write"}
    PROVE  Sound(j)
  BY SameWorld, BecomeSound DEF Current

\* Reading count and switches.
LEMMA InspectSound ==
    ASSUME Inv, NEW j \in Job, Inspect(j)
    PROVE  Sound(j)
<1> DEFINE g == job[j]
           l == IF g.op = "apply" THEN "list" ELSE "primary"
           h == [g EXCEPT !.conf = settings, !.free = (vault = <<>>), !.pc = l]
<1>1. g \in Call /\ RowInv(g) /\ PlaceInv(g) /\ g.pc = "inspect" /\ Busy(g)
  BY CallOf DEF Inv, Inspect, At, Busy
<1>2. h \in Call /\ h.pc = l /\ h.op = g.op /\ h.row = g.row /\ h.todo = g.todo
        /\ h.reserved = g.reserved
  BY <1>1 DEF Call, Location, Loading, Inv, WorldInv
<1>3. Become(j, h)
  BY DEF Inspect
<1> HIDE DEF h
<1>4. Onward(g, h)
  BY <1>1, <1>2 DEF Onward, CallInv, RowInv, PlaceInv, Busy, Locking
<1> QED
  BY <1>2, <1>3, <1>4, OnwardSound DEF Inspect

\* Looking for the primary account, and the choice of a number it leads to.
LEMMA FindPrimarySound ==
    ASSUME Inv, NEW j \in Job, FindPrimary(j)
    PROVE  Sound(j)
<1> DEFINE g == [job[j] EXCEPT !.free = @ /\ Primary \notin Names(files["auth"])]
           k == [g EXCEPT !.pc = "list"]
<1>1. job[j] \in Call /\ RowInv(job[j]) /\ PlaceInv(job[j]) /\ job[j].pc = "primary"
        /\ Busy(job[j])
  BY CallOf DEF Inv, FindPrimary, At, Busy
<1>2. g \in Call /\ Like(job[j], g, {"free"}) /\ g.pc = "primary"
  BY <1>1 DEF Call, Like
<1>3. g.op = job[j].op /\ g.row = job[j].row /\ g.todo = job[j].todo
        /\ g.reserved = job[j].reserved
  BY <1>2 DEF Like
<1> HIDE DEF g
<1>4. RowInv(g) /\ PlaceInv(g) /\ Busy(g) /\ g.op \in Locking
  BY <1>1, <1>2, <1>3 DEF RowInv, PlaceInv, Busy, Locking
<1>5. ASSUME g.op = "complete", NEW n \in {Primary, Unassigned},
             n = Unassigned => g.conf.opencode
      PROVE  LET h == Configure(g, Flagged(g, n), FilesOf(g.conf))
             IN  Onward(job[j], h) /\ h.pc \notin {"auth_write", "oc_write"}
  <2>1. g.row.account \in Account
    BY <1>4, <1>5 DEF RowInv
  <2>2. /\ Flagged(g, n) \in AnyRow /\ Flagged(g, n).account \in Account
        /\ Flagged(g, n).omo => Flagged(g, n).oc
        /\ FilesOf(g.conf) \in SUBSET {"opencode", "omo"}
        /\ Flagged(g, n).provider # Unassigned \/ "opencode" \in FilesOf(g.conf)
    BY <1>2, <1>5, <2>1, FlaggedOK
  <2>3. /\ Onward(g, Configure(g, Flagged(g, n), FilesOf(g.conf)))
        /\ Configure(g, Flagged(g, n), FilesOf(g.conf)).pc
             \in {"store", "next", "models", "auth_load"}
    BY <1>2, <1>4, <2>2, ConfigureOK
  <2> QED
    BY <1>1, <1>3, <2>3 DEF Onward
<1>6. Onward(job[j], k) /\ k.pc = "list"
  <2>1. k \in Call /\ k.pc = "list" /\ Like(g, k, {})
    BY <1>2, MovedOK DEF Location
  <2>2. k.op = g.op /\ k.row = g.row /\ k.todo = g.todo /\ k.reserved = g.reserved
    BY <2>1 DEF Like
  <2> HIDE DEF k
  <2> QED
    BY <1>1, <1>2, <1>3, <1>4, <2>1, <2>2
    DEF Onward, CallInv, RowInv, PlaceInv, Busy, Locking
<1>7. UNCHANGED <<files, book, settings, lock>>
  BY DEF FindPrimary
<1>8. \/ \E n \in {Primary, Unassigned} :
            /\ g.op = "complete" /\ (n = Unassigned => g.conf.opencode)
            /\ Become(j, Configure(g, Flagged(g, n), FilesOf(g.conf)))
      \/ Become(j, k)
  <2>1. CASE g.op = "complete" /\ g.free
    BY <2>1 DEF FindPrimary, g
  <2>2. CASE g.op = "complete" /\ ~g.free /\ g.conf.opencode
    BY <2>2 DEF FindPrimary, g
  <2>3. CASE ~(g.op = "complete" /\ g.free) /\ ~(g.op = "complete" /\ g.conf.opencode)
    BY <2>3 DEF FindPrimary, g
  <2> QED
    BY <2>1, <2>2, <2>3
<1> HIDE DEF k
<1> QED
  BY <1>5, <1>6, <1>7, <1>8, OnwardSound

\* Reading the rows of the vault.
LEMMA ListRowsSound ==
    ASSUME Inv, NEW j \in Job, ListRows(j)
    PROVE  Sound(j)
<1> DEFINE g == job[j]
           reserved == IF g.op = "apply" THEN {} ELSE Providers(vault)
           todo == IF g.op = "apply" THEN vault ELSE g.todo
           l == IF g.op = "complete" THEN "name" ELSE "next"
           h == [g EXCEPT !.reserved = reserved, !.todo = todo, !.pc = l]
<1>1. g \in Call /\ RowInv(g) /\ PlaceInv(g) /\ g.pc = "list" /\ Busy(g)
  BY CallOf DEF Inv, ListRows, At, Busy
<1>2. vault \in Seq(Row) /\ vault \in Seq(AnyRow)
  BY RowsOf DEF Inv, WorldInv
<1>3. reserved \in SUBSET Nat /\ IsFiniteSet(reserved)
  BY <1>2, RowsOf, FS_EmptySet
<1>4. todo \in Seq(AnyRow) /\ (g.op = "apply" => todo \in Seq(Row))
        /\ (g.op # "apply" => todo = g.todo)
  BY <1>1, <1>2 DEF Call
<1>5. Become(j, h)
  BY DEF ListRows
<1> HIDE DEF reserved, todo
<1>6. h \in Call /\ h.pc = l /\ h.op = g.op /\ h.row = g.row /\ h.todo = todo
        /\ h.reserved = reserved
  BY <1>1, <1>3, <1>4 DEF Call, Location, Loading
<1> HIDE DEF h
<1>7. Onward(g, h)
  BY <1>1, <1>3, <1>4, <1>6 DEF Onward, CallInv, RowInv, PlaceInv, Busy, Locking
<1> QED
  BY <1>5, <1>6, <1>7, OnwardSound DEF ListRows

\* An imported row gets the primary number or looks for one.
LEMMA NextImportedOK ==
    ASSUME NEW g \in Call, g.op = "import", g.pc = "next", RowInv(g), PlaceInv(g), g.todo # <<>>
    PROVE  Onward(g, NextImported(g)) /\ NextImported(g).pc \notin {"auth_write", "oc_write"}
<1> DEFINE h == [g EXCEPT !.todo = Tail(@), !.row = Head(g.todo), !.free = FALSE]
           k == [h EXCEPT !.pc = "name"]
<1>1. /\ g.todo \in Seq(AnyRow) /\ Head(g.todo) \in AnyRow /\ Head(g.todo).account \in Account
      /\ Tail(g.todo) \in Seq(AnyRow)
      /\ \A i \in DOMAIN Tail(g.todo) : Tail(g.todo)[i].account \in Account
  BY DEF Call, RowInv
<1>2. h \in Call /\ h.pc = "next" /\ h.op = "import" /\ h.row = Head(g.todo)
        /\ h.todo = Tail(g.todo) /\ h.reserved = g.reserved /\ h.conf = g.conf
  BY <1>1 DEF Call
<1> HIDE DEF h
<1>3. RowInv(h) /\ PlaceInv(h)
  BY <1>1, <1>2 DEF RowInv, PlaceInv, Locking
<1>4. ASSUME g.free
      PROVE  /\ Onward(h, NextImported(g))
             /\ NextImported(g).pc \in {"store", "next", "models", "auth_load"}
  <2>1. /\ Flagged(h, Primary) \in AnyRow /\ Flagged(h, Primary).account \in Account
        /\ Flagged(h, Primary).omo => Flagged(h, Primary).oc
        /\ Flagged(h, Primary).provider # Unassigned
        /\ FilesOf(g.conf) \in SUBSET {"opencode", "omo"}
    <3>1. h.row.account \in Account /\ Primary \in Nat /\ Primary # Unassigned
      BY <1>1, <1>2
    <3> HIDE DEF Primary
    <3> QED
      BY <1>2, <3>1, FlaggedOK
  <2>2. NextImported(g) = Configure(h, Flagged(h, Primary), FilesOf(g.conf))
    BY <1>4 DEF NextImported, h
  <2> QED
    BY <1>2, <1>3, <2>1, <2>2, ConfigureOK DEF Locking
<1>5. ASSUME ~g.free
      PROVE  Onward(h, NextImported(g)) /\ NextImported(g).pc = "name"
  <2>1. k \in Call /\ k.pc = "name" /\ Like(h, k, {})
    BY <1>2, MovedOK DEF Location, Loading
  <2>2. k.op = h.op /\ k.row = h.row /\ k.todo = h.todo /\ k.reserved = h.reserved
    BY <2>1 DEF Like
  <2>3. NextImported(g) = k
    BY <1>5 DEF NextImported, h
  <2> HIDE DEF k
  <2> QED
    BY <1>1, <1>2, <1>3, <2>1, <2>2, <2>3
    DEF Onward, CallInv, RowInv, PlaceInv, Busy, Locking
<1> QED
  BY <1>2, <1>4, <1>5 DEF Onward, Busy

\* A row that an application takes up has its number and gets flags that fit.
LEMMA NextAppliedOK ==
    ASSUME NEW g \in Call, g.op = "apply", g.pc = "next", RowInv(g), PlaceInv(g), g.todo # <<>>
    PROVE  Onward(g, NextApplied(g)) /\ NextApplied(g).pc \notin {"auth_write", "oc_write"}
<1> DEFINE h == [g EXCEPT !.todo = Tail(@)]
           r == Head(g.todo)
           missing == {f \in FilesOf(g.conf) : IF f = "omo" THEN ~r.omo ELSE ~r.oc}
           q == [r EXCEPT !.oc = @ \/ "opencode" \in missing, !.omo = @ \/ "omo" \in missing]
<1>1. /\ g.todo \in Seq(Row) /\ r \in Row /\ Tail(g.todo) \in Seq(Row)
      /\ Tail(g.todo) \in Seq(AnyRow)
  BY RowsOf DEF RowInv
<1>2. h \in Call /\ h.pc = "next" /\ h.op = "apply" /\ h.row = g.row
        /\ h.todo = Tail(g.todo) /\ h.reserved = g.reserved
  BY <1>1 DEF Call
<1>3. /\ q \in AnyRow /\ q.account \in Account /\ q.provider # Unassigned
      /\ q.oc = (r.oc \/ "opencode" \in missing) /\ q.omo = (r.omo \/ "omo" \in missing)
  BY <1>1 DEF Row, AnyRow
<1>4. q.omo => q.oc
  BY <1>1, <1>3 DEF Row, FilesOf
<1>5. missing \in SUBSET {"opencode", "omo"}
  BY DEF FilesOf
<1>6. NextApplied(g) = IF missing = {} THEN h ELSE Configure(h, q, missing)
  BY DEF NextApplied
<1> HIDE DEF h, q, missing
<1>7. RowInv(h) /\ PlaceInv(h)
  BY <1>1, <1>2 DEF RowInv, PlaceInv, Locking
<1>8. /\ Onward(h, Configure(h, q, missing))
      /\ Configure(h, q, missing).pc \in {"store", "next", "models", "auth_load"}
  BY <1>2, <1>3, <1>4, <1>5, <1>7, ConfigureOK DEF Locking
<1> QED
  BY <1>2, <1>6, <1>7, <1>8 DEF Onward, CallInv, Busy

\* The head of the loops of import and apply.
LEMMA NextRowSound ==
    ASSUME Inv, NEW j \in Job, NextRow(j)
    PROVE  Sound(j)
<1> DEFINE g == job[j]
           k == [g EXCEPT !.pc = "store"]
<1>1. g \in Call /\ RowInv(g) /\ PlaceInv(g) /\ g.pc = "next" /\ g.op \in {"import", "apply"}
        /\ UNCHANGED <<files, book, settings, lock>>
  BY CallOf DEF Inv, NextRow, At, PlaceInv
<1>2. CASE g.todo = <<>>
  <2>1. k \in Call /\ k.pc = "store" /\ Like(g, k, {})
    BY <1>1, MovedOK DEF Location
  <2>2. k.op = g.op /\ k.row = g.row /\ k.todo = g.todo /\ k.reserved = g.reserved
    BY <2>1 DEF Like
  <2>3. Become(j, k)
    BY <1>2 DEF NextRow
  <2> HIDE DEF k
  <2>4. Onward(g, k)
    BY <1>1, <2>1, <2>2 DEF Onward, CallInv, RowInv, PlaceInv, Busy, Locking
  <2> QED
    BY <1>1, <2>1, <2>3, <2>4, OnwardSound
<1>3. CASE g.todo # <<>> /\ g.op = "import"
  <2>1. Become(j, NextImported(g))
    BY <1>3 DEF NextRow
  <2> QED
    BY <1>1, <1>3, <2>1, NextImportedOK, OnwardSound
<1>4. CASE g.todo # <<>> /\ g.op = "apply"
  <2>1. Become(j, NextApplied(g))
    BY <1>4 DEF NextRow
  <2> QED
    BY <1>1, <1>4, <2>1, NextAppliedOK, OnwardSound
<1> QED
  BY <1>1, <1>2, <1>3, <1>4

\* The names in a document are finitely many numbers.
LEMMA NamesFinite ==
    ASSUME NEW doc
    PROVE  Names(doc) \in SUBSET Provider /\ Names(doc) \in SUBSET Nat /\ IsFiniteSet(Names(doc))
<1>1. Names(doc) \in SUBSET Provider
  BY DEF Names
<1> QED
  BY <1>1, ProviderNumbers, FS_Subset

\* Choosing a number that is neither in the file nor in the vault.
LEMMA NameRowSound ==
    ASSUME Inv, NEW j \in Job, NameRow(j)
    PROVE  Sound(j)
<1> DEFINE g == job[j]
           n == NameFor(g, Names(files["opencode"]))
           N == Names(files["opencode"]) \cup g.reserved
           k == [g EXCEPT !.reserved = @ \cup {n}]
           h == Configure(k, Flagged(g, n), FilesOf(g.conf))
<1>1. g \in Call /\ RowInv(g) /\ PlaceInv(g) /\ g.pc = "name" /\ Busy(g)
        /\ UNCHANGED <<files, book, settings>>
  BY CallOf DEF Inv, NameRow, At, Busy
<1>2. n \in Nat /\ n # Unassigned
  <2>1. N \in SUBSET Nat /\ IsFiniteSet(N)
    BY <1>1, NamesFinite, FS_Union DEF Call, PlaceInv
  <2>2. n = NextNumber(N)
    BY DEF NameFor
  <2> HIDE DEF N
  <2> QED
    BY <2>1, <2>2, Fresh
<1> HIDE DEF n
<1>3. k \in Call /\ k.pc = "name" /\ k.op = g.op /\ k.row = g.row /\ k.todo = g.todo
        /\ k.reserved = g.reserved \cup {n}
  BY <1>1, <1>2 DEF Call
<1>4. IsFiniteSet(g.reserved \cup {n})
  BY <1>1, FS_AddElement DEF PlaceInv
<1> HIDE DEF k
<1>5. RowInv(k) /\ PlaceInv(k) /\ k.op \in Locking
  BY <1>1, <1>3, <1>4 DEF RowInv, PlaceInv, Locking
<1>6. /\ Flagged(g, n) \in AnyRow /\ Flagged(g, n).account \in Account
      /\ Flagged(g, n).omo => Flagged(g, n).oc
      /\ Flagged(g, n).provider # Unassigned
      /\ FilesOf(g.conf) \in SUBSET {"opencode", "omo"}
  BY <1>1, <1>2, FlaggedOK DEF RowInv
<1>7. Onward(k, h) /\ h.pc \in {"store", "next", "models", "auth_load"}
  BY <1>3, <1>5, <1>6, ConfigureOK
<1>8. Onward(g, h)
  BY <1>1, <1>3, <1>7 DEF Onward
<1>9. (Become(j, h) /\ UNCHANGED lock) \/ Fail(j, g)
  BY DEF NameRow, n, k
<1> HIDE DEF h
<1> QED
  BY <1>1, <1>7, <1>8, <1>9, OnwardSound, FailSound, SameWorld

(***************************************************************************)
(* Loading                                                                 *)
(***************************************************************************)
\* auth.json is loaded to add the primary key.
LEMMA LoadAuthSound ==
    ASSUME Inv, NEW j \in Job, LoadAuth(j)
    PROVE  Sound(j)
<1> DEFINE g == job[j]
           h == [g EXCEPT !.loaded = files["auth"], !.pc = "auth_write"]
<1>1. g \in Call /\ RowInv(g) /\ PlaceInv(g) /\ g.pc = "auth_load" /\ Busy(g)
        /\ UNCHANGED <<files, book, settings>> /\ files["auth"] \in Document
  BY CallOf DEF Inv, WorldInv, LoadAuth, At, Busy
<1>2. h \in Call /\ h.pc = "auth_write" /\ h.op = g.op /\ h.row = g.row /\ h.todo = g.todo
        /\ h.reserved = g.reserved /\ h.loaded = files["auth"]
  BY <1>1 DEF Call, Location, Writing
<1>3. \/ Fail(j, g)
      \/ Become(j, h) /\ UNCHANGED lock /\ Primary \notin Names(files["auth"])
  BY DEF LoadAuth
<1> HIDE DEF h
<1>4. Onward(g, h)
  BY <1>1, <1>2 DEF Onward, CallInv, RowInv, PlaceInv, Busy, Locking
<1>5. Primary \notin Names(files["auth"]) => Current(h)
  BY <1>2 DEF Current
<1> QED
  BY <1>1, <1>3, <1>4, <1>5, BecomeSound, FailSound, SameWorld

\* Fetching the catalogue.
LEMMA FetchModelsSound ==
    ASSUME Inv, NEW j \in Job, FetchModels(j)
    PROVE  Sound(j)
<1> DEFINE g == job[j]
           l == IF g.op = "repair" THEN "names"
                ELSE IF "opencode" \in g.adds THEN "oc_load" ELSE "omo_load"
           h == [g EXCEPT !.pc = l]
<1>1. g \in Call /\ RowInv(g) /\ PlaceInv(g) /\ g.pc = "models" /\ Busy(g)
  BY CallOf DEF Inv, FetchModels, At, Busy
<1>2. h \in Call /\ h.pc = l /\ Like(g, h, {})
  BY <1>1, MovedOK DEF Location, Loading
<1>3. h.op = g.op /\ h.row = g.row /\ h.todo = g.todo /\ h.reserved = g.reserved
        /\ h.adds = g.adds
  BY <1>2 DEF Like
<1>4. Become(j, h)
  BY DEF FetchModels
<1> HIDE DEF h
<1>5. RowInv(h)
  <2>1. g.op # "repair" /\ "opencode" \notin g.adds => g.row \in Row
    BY <1>1 DEF RowInv, Call, AnyRow, Row
  <2> QED
    BY <1>1, <1>2, <1>3, <2>1 DEF RowInv, PlaceInv, Locking
<1>6. Onward(g, h)
  BY <1>1, <1>2, <1>3, <1>5 DEF Onward, CallInv, PlaceInv, Busy, Locking
<1> QED
  BY <1>2, <1>4, <1>6, OnwardSound DEF FetchModels

\* A number given by opencode.json is free there.
LEMMA LoadOpencodeSound ==
    ASSUME Inv, NEW j \in Job, LoadOpencode(j)
    PROVE  Sound(j)
<1> DEFINE g == job[j]
           N == Names(files["opencode"])
           n == NextNumber(N)
           r == [g.row EXCEPT !.provider = n]
           h == [Allocated(g, n) EXCEPT !.loaded = files["opencode"], !.pc = "oc_write"]
<1>1. g \in Call /\ RowInv(g) /\ PlaceInv(g) /\ g.pc = "oc_load" /\ Busy(g)
        /\ UNCHANGED <<files, book, settings>> /\ files["opencode"] \in Document
  BY CallOf DEF Inv, WorldInv, LoadOpencode, At, Busy
<1>2. g.op \in Locking
  BY <1>1 DEF PlaceInv
<1>3. N \in SUBSET Provider /\ N \in SUBSET Nat /\ IsFiniteSet(N)
  BY NamesFinite
<1>4. n \in Nat /\ n # Unassigned
  BY <1>3, Fresh
<1>5. Readable => n \notin N
  BY <1>3, FreshProvider DEF Readable
<1> HIDE DEF n, N
<1>6. r \in Row /\ r.provider = n /\ r.account = g.row.account
  BY <1>1, <1>2, <1>4 DEF RowInv, Call, AnyRow, Row, Locking
<1>7. h \in Call /\ h.pc = "oc_write" /\ h.op = g.op /\ h.row = r /\ h.todo = g.todo
        /\ h.reserved = g.reserved /\ h.loaded = files["opencode"]
  BY <1>1, <1>4, <1>6 DEF Allocated, Call, Location, Writing, Row, AnyRow
<1>8. Fail(j, g) \/ (Become(j, h) /\ UNCHANGED lock)
  BY DEF LoadOpencode, n, N
<1> HIDE DEF h, r
<1>9. Onward(g, h)
  BY <1>1, <1>2, <1>6, <1>7 DEF Onward, CallInv, RowInv, PlaceInv, Busy, Locking
<1>10. Current(h)
  BY <1>5, <1>6, <1>7 DEF Current, N
<1> QED
  BY <1>1, <1>8, <1>9, <1>10, BecomeSound, FailSound, SameWorld

\* Reading the names a repair is to spread.
LEMMA ReadNamesSound ==
    ASSUME Inv, NEW j \in Job, ReadNames(j)
    PROVE  Sound(j)
<1> DEFINE g == job[j]
           names == Names(files["auth"]) \cup {n \in Names(files["opencode"]) : Legible(n)}
           h == [g EXCEPT !.reserved = names, !.pc = "omo_load"]
<1>1. g \in Call /\ RowInv(g) /\ PlaceInv(g) /\ g.pc = "names" /\ Busy(g) /\ g.op = "repair"
        /\ UNCHANGED <<files, book, settings>>
  BY CallOf DEF Inv, ReadNames, At, Busy, PlaceInv
<1>2. names \in SUBSET Provider /\ names \in SUBSET Nat /\ IsFiniteSet(names)
  <2>1. names \subseteq Provider
    BY NamesFinite
  <2> QED
    BY <2>1, ProviderNumbers, FS_Subset
<1>3. Finish(j) \/ (names # {} /\ Become(j, h) /\ UNCHANGED lock)
  BY DEF ReadNames
<1> HIDE DEF names
<1>4. h \in Call /\ h.pc = "omo_load" /\ h.op = "repair" /\ h.row = g.row /\ h.todo = g.todo
        /\ h.reserved = names
  BY <1>1, <1>2 DEF Call, Location, Loading
<1> HIDE DEF h
<1>5. names # {} => Onward(g, h)
  BY <1>1, <1>2, <1>4 DEF Onward, CallInv, RowInv, PlaceInv, Busy, Locking
<1> QED
  BY <1>1, <1>3, <1>4, <1>5, OnwardSound, FinishSound, SameWorld

\* Finding nothing to change in oh-my-openagent.json.
LEMMA OmoUnchangedOK ==
    ASSUME NEW g \in Call, RowInv(g), PlaceInv(g), g.pc = "omo_load", g.op # "repair"
    PROVE  Onward(g, OmoUnchanged(g)) /\ OmoUnchanged(g).pc \in {"store", "next"}
<1> DEFINE w == [file |-> "omo", before |-> NoFile, newer |-> 0]
           h == [g EXCEPT !.writes = Append(@, w)]
<1>1. w \in Result
  BY PoolAssumption DEF Result, NoFile, Document
<1>2. Append(g.writes, w) \in Seq(Result)
  BY <1>1 DEF Call
<1> HIDE DEF w
<1>3. h \in Call /\ h.pc = "omo_load" /\ Like(g, h, {"writes"})
  BY <1>2 DEF Call, Like
<1>4. h.op = g.op /\ h.row = g.row /\ h.todo = g.todo /\ h.reserved = g.reserved
  BY <1>3 DEF Like
<1>5. OmoUnchanged(g) = Configured(h)
  BY DEF OmoUnchanged, w
<1> HIDE DEF h
<1>6. RowInv(h) /\ PlaceInv(h) /\ Busy(h) /\ h.op \in Locking /\ h.row \in Row
  BY <1>3, <1>4 DEF RowInv, PlaceInv, Busy, Locking
<1>7. Onward(h, Configured(h)) /\ Configured(h).pc \in {"store", "next"}
  BY <1>3, <1>6, ConfiguredOK
<1> QED
  BY <1>4, <1>5, <1>7 DEF Onward, Busy

\* Loading oh-my-openagent.json.
LEMMA LoadOmoSound ==
    ASSUME Inv, NEW j \in Job, LoadOmo(j)
    PROVE  Sound(j)
<1> DEFINE g == job[j]
           h == [g EXCEPT !.loaded = files["omo"], !.pc = "omo_write"]
<1>1. g \in Call /\ RowInv(g) /\ PlaceInv(g) /\ g.pc = "omo_load" /\ Busy(g)
        /\ UNCHANGED <<files, book, settings>> /\ files["omo"] \in Document
  BY CallOf DEF Inv, WorldInv, LoadOmo, At, Busy
<1>2. h \in Call /\ h.pc = "omo_write" /\ h.op = g.op /\ h.row = g.row /\ h.todo = g.todo
        /\ h.reserved = g.reserved
  BY <1>1 DEF Call, Location, Writing
<1>3. \/ Fail(j, g) \/ Finish(j)
      \/ Become(j, h) /\ UNCHANGED lock
      \/ g.op # "repair" /\ Become(j, OmoUnchanged(g)) /\ UNCHANGED lock
  BY DEF LoadOmo
<1> HIDE DEF h
<1>4. Onward(g, h)
  BY <1>1, <1>2 DEF Onward, CallInv, RowInv, PlaceInv, Busy, Locking
<1> QED
  BY <1>1, <1>2, <1>3, <1>4, OmoUnchangedOK, OnwardSound, FailSound, FinishSound, SameWorld

\* A file that cannot be read or written.
LEMMA StepFailsSound ==
    ASSUME Inv, NEW j \in Job, StepFails(j)
    PROVE  Sound(j)
<1>1. Busy(job[j])
  BY DEF StepFails, Busy, Loading, Writing
<1> QED
  BY <1>1, FailSound, SameWorld DEF StepFails

(***************************************************************************)
(* Committing and rolling back                                             *)
(***************************************************************************)
\* A commit changes the vault and ends the call, or begins its rollback.
LEMMA CommitSound ==
    ASSUME Inv, NEW j \in Job, Commit(j)
    PROVE  Sound(j)
<1> DEFINE g == job[j]
<1>1. g \in Call /\ RowInv(g) /\ PlaceInv(g) /\ g.pc = "store" /\ Busy(g) /\ g.made \in Seq(Row)
        /\ UNCHANGED <<files, flows, settings>>
  BY CallOf DEF Inv, Commit, At, Busy, Call
<1>2. /\ vault \in Seq(Row) /\ pending \subseteq Account /\ outside \subseteq Account
      /\ flows \subseteq Account /\ settings \in Settings /\ files \in [File -> Document]
  BY DEF Inv, WorldInv
<1>3. Finish(j) \/ Fail(j, g)
  BY DEF Commit, CommitComplete, CommitImport, CommitApply
<1>4. vault' \in Seq(Row) /\ pending' \subseteq Account /\ outside' \subseteq Account
  <2>1. CASE g.op = "complete" /\ CommitComplete(j)
    <3>1. g.made[1] \in Row
      BY <1>1, <2>1 DEF RowInv
    <3>2. Append(vault, g.made[1]) \in Seq(Row)
      BY <1>2, <3>1
    <3> QED
      BY <1>2, <2>1, <3>2 DEF CommitComplete
  <2>2. CASE CommitImport(j)
    <3>1. vault \o g.made \in Seq(Row)
      BY <1>1, <1>2
    <3> QED
      BY <1>2, <2>2, <3>1 DEF CommitImport
  <2>3. CASE CommitApply(j)
    <3>1. \A i \in DOMAIN vault : Updated(vault[i], g.made) \in Row
      <4>1. \A i \in DOMAIN vault : vault[i] \in Row
        BY <1>2
      <4>2. \A a \in Accounts(g.made) : RowOf(g.made, a) \in Row
        BY <1>1, RowsOf
      <4> QED
        BY <4>1, <4>2 DEF Updated, Row
    <3>2. [i \in DOMAIN vault |-> Updated(vault[i], g.made)] \in Seq(Row)
      BY <1>2, <3>1
    <3> QED
      BY <1>2, <2>3, <3>2 DEF CommitApply
  <2> QED
    BY <2>1, <2>2, <2>3 DEF Commit
<1>5. WorldInv'
  BY <1>1, <1>2, <1>4 DEF WorldInv
<1> QED
  BY <1>1, <1>3, <1>5, FinishSound, FailSound

\* Undoing one write.
LEMMA UndoSound ==
    ASSUME Inv, NEW j \in Job, Undo(j)
    PROVE  Sound(j)
<1> DEFINE g == job[j]
           w == Last(g.writes)
           pruned == w.before.exists /\ w.newer = Retention
           left == IF pruned /\ g.op = "remove" THEN <<>> ELSE Front(g.writes)
           h == [g EXCEPT !.writes = left]
<1>1. g \in Call /\ RowInv(g) /\ PlaceInv(g) /\ g.pc = "undo" /\ g.writes # <<>>
        /\ g.writes \in Seq(Result)
  BY CallOf DEF Inv, Undo, At, PlaceInv, Call
<1>2. w \in Result /\ left \in Seq(Result)
  BY <1>1 DEF Last, Front
<1>3. /\ files' = IF pruned THEN files ELSE [files EXCEPT ![w.file] = w.before]
      /\ UNCHANGED <<book, settings>>
      /\ Finish(j) \/ (left # <<>> /\ Become(j, h) /\ UNCHANGED lock)
  BY DEF Undo
<1> HIDE DEF left, pruned, w
<1>4. WorldInv'
  <2>1. files' \in [File -> Document]
    BY <1>2, <1>3 DEF Inv, WorldInv, Result
  <2> QED
    BY <1>3, <2>1 DEF Inv, WorldInv, book
<1>5. h \in Call /\ h.pc = "undo" /\ h.writes = left /\ Like(g, h, {"writes"})
  BY <1>1, <1>2 DEF Call, Like
<1>6. h.op = g.op /\ h.row = g.row /\ h.todo = g.todo /\ h.reserved = g.reserved
  BY <1>5 DEF Like
<1> HIDE DEF h
<1>7. left # <<>> => Onward(g, h)
  BY <1>1, <1>5, <1>6 DEF Onward, CallInv, RowInv, PlaceInv, Busy, Locking
<1>8. ASSUME left # <<>>, Become(j, h), UNCHANGED lock
      PROVE  Sound(j)
  <2>1. CallsInv' /\ Rest(j) /\ job'[j] = h
    BY <1>7, <1>8, BecomeOK, CallOf DEF Inv, Become
  <2> QED
    BY <1>1, <1>4, <1>5, <2>1 DEF Sound, Inv
<1> QED
  BY <1>1, <1>3, <1>4, <1>8, FinishSound

(***************************************************************************)
(* Writing                                                                 *)
(***************************************************************************)
\* A backup of f ages the earlier ones of every call.
LEMMA AgedOK ==
    ASSUME CallsInv, NEW i \in Job, NEW f \in File
    PROVE  /\ Aged(f, i) \in Seq(Result) /\ (Aged(f, i) = <<>> <=> job[i].writes = <<>>)
           /\ CallInv([job[i] EXCEPT !.writes = Aged(f, i)])
           /\ [job[i] EXCEPT !.writes = Aged(f, i)].pc = job[i].pc
           /\ [job[i] EXCEPT !.writes = Aged(f, i)].loaded = job[i].loaded
           /\ Like(job[i], [job[i] EXCEPT !.writes = Aged(f, i)], {"writes"})
<1> DEFINE g == job[i]
           h == [g EXCEPT !.writes = Aged(f, i)]
<1>1. g \in Call /\ RowInv(g) /\ PlaceInv(g) /\ g.writes \in Seq(Result)
  BY CallOf DEF Call
<1>2. ASSUME NEW w \in Result, w.newer < Retention
      PROVE  [w EXCEPT !.newer = @ + 1] \in Result
  BY <1>2, PoolAssumption DEF Result
<1>3. \A k \in DOMAIN g.writes : g.writes[k] \in Result
  BY <1>1
<1>4. \A k \in DOMAIN g.writes : Aged(f, i)[k] \in Result
  <2> TAKE k \in DOMAIN g.writes
  <2> DEFINE w == g.writes[k]
  <2>1. Aged(f, i)[k] = IF w.file = f /\ files[f].exists /\ w.newer < Retention
                          THEN [w EXCEPT !.newer = @ + 1] ELSE w
    BY DEF Aged
  <2>2. w \in Result
    BY <1>3
  <2> HIDE DEF w
  <2> QED
    BY <1>2, <2>1, <2>2
<1>5. Aged(f, i) \in Seq(Result) /\ (Aged(f, i) = <<>> <=> g.writes = <<>>)
  <2>1. DOMAIN Aged(f, i) = 1 .. Len(g.writes) /\ Len(g.writes) \in Nat
    BY <1>1 DEF Aged
  <2>2. Aged(f, i) \in [1 .. Len(g.writes) -> Result]
    BY <1>1, <1>4, <2>1 DEF Aged
  <2> QED
    BY <1>1, <2>1, <2>2
<1>6. h \in Call /\ h.writes = Aged(f, i) /\ h.pc = g.pc /\ h.loaded = g.loaded
        /\ Like(g, h, {"writes"})
  BY <1>1, <1>5 DEF Call, Like
<1>7. h.op = g.op /\ h.row = g.row /\ h.todo = g.todo /\ h.reserved = g.reserved
        /\ h.adds = g.adds /\ h.made = g.made /\ h.plan = g.plan
  BY <1>6 DEF Like
<1> HIDE DEF h
<1>8. RowInv(h) /\ PlaceInv(h)
  BY <1>1, <1>5, <1>6, <1>7 DEF RowInv, PlaceInv
<1> QED
  BY <1>5, <1>6, <1>8 DEF CallInv, h

\* A call that has put a file in place, with what it remembers of that.
Wrote(j, f) == [[job[j] EXCEPT !.writes = Aged(f, j)] EXCEPT !.writes = Append(@, ResultOf(f))]

\* A write changes nothing of a call but what it remembers of its writes.
LEMMA WroteOK ==
    ASSUME Inv, NEW j \in Job, NEW f \in File
    PROVE  /\ Wrote(j, f) \in Call /\ RowInv(Wrote(j, f)) /\ PlaceInv(Wrote(j, f))
           /\ Wrote(j, f).pc = job[j].pc /\ Wrote(j, f).writes # <<>>
           /\ Like(job[j], Wrote(j, f), {"writes"})
<1> DEFINE k == [job[j] EXCEPT !.writes = Aged(f, j)]
           h == [k EXCEPT !.writes = Append(@, ResultOf(f))]
<1>1. /\ k \in Call /\ RowInv(k) /\ PlaceInv(k) /\ k.pc = job[j].pc
      /\ Like(job[j], k, {"writes"})
  BY AgedOK DEF Inv, CallInv
<1>2. ResultOf(f) \in Result
  BY PoolAssumption DEF ResultOf, Result, Inv, WorldInv
<1> HIDE DEF k
<1>3. Append(k.writes, ResultOf(f)) \in Seq(Result) /\ Append(k.writes, ResultOf(f)) # <<>>
  <2>1. k.writes \in Seq(Result)
    BY <1>1 DEF Call
  <2> QED
    BY <1>2, <2>1
<1>4. h \in Call /\ h.pc = k.pc /\ h.writes = Append(k.writes, ResultOf(f))
        /\ Like(k, h, {"writes"})
  BY <1>1, <1>3 DEF Call, Like
<1>5. h.op = k.op /\ h.row = k.row /\ h.todo = k.todo /\ h.reserved = k.reserved
        /\ h.adds = k.adds /\ h.made = k.made /\ h.plan = k.plan
  BY <1>4 DEF Like
<1>6. Wrote(j, f) = h
  BY DEF Wrote, k
<1> HIDE DEF h
<1>7. RowInv(h) /\ PlaceInv(h)
  BY <1>1, <1>3, <1>4, <1>5 DEF RowInv, PlaceInv
<1>8. Like(job[j], h, {"writes"})
  BY <1>1, <1>4 DEF Like
<1> QED
  BY <1>1, <1>3, <1>4, <1>6, <1>7, <1>8

\* The call at work has put doc in place of f and goes on as h.
Put(j, f, doc, h) ==
    /\ files' = [files EXCEPT ![f] = doc] /\ UNCHANGED <<book, settings, lock>>
    /\ job' = [i \in Job |-> IF i = j THEN h ELSE [job[i] EXCEPT !.writes = Aged(f, i)]]

\* A call that replaces a file leaves to the others all but the age of backups.
LEMMA ReplaceSound ==
    ASSUME Inv, NEW j \in Job, NEW f \in File, NEW doc \in Document, NEW h,
           job[j].pc \in Writing, h.pc \notin Writing,
           Onward(job[j], h) \/ (h = Idle /\ job[j].op = "repair"),
           Put(j, f, doc, h)
    PROVE  Sound(j)
<1> USE DEF Put
<1>1. CallInv(h)
  BY IdleOK DEF Onward
<1>2. WorldInv'
  BY DEF Inv, WorldInv, book
<1>3. /\ job'[j] = h
      /\ \A i \in Job \ {j} : /\ CallInv(job'[i]) /\ job'[i].pc = job[i].pc
                              /\ job'[i].loaded = job[i].loaded /\ job'[i].op = job[i].op
                              /\ job'[i].row = job[i].row
  <2>1. ASSUME NEW i \in Job \ {j}
        PROVE  /\ CallInv(job'[i]) /\ job'[i].pc = job[i].pc
               /\ job'[i].loaded = job[i].loaded /\ job'[i].op = job[i].op
               /\ job'[i].row = job[i].row
    <3> DEFINE k == [job[i] EXCEPT !.writes = Aged(f, i)]
    <3>1. job'[i] = k
      OBVIOUS
    <3>2. CallInv(k) /\ k.pc = job[i].pc /\ k.loaded = job[i].loaded /\ Like(job[i], k, {"writes"})
      BY AgedOK DEF Inv
    <3> HIDE DEF k
    <3>3. k.op = job[i].op /\ k.row = job[i].row
      BY <3>2 DEF Like
    <3> QED
      BY <3>1, <3>2, <3>3
  <2>2. job'[j] = h
    OBVIOUS
  <2> QED
    BY <2>1, <2>2
<1>4. job' \in [Job -> Call] /\ \A i \in Job : CallInv(job'[i])
  BY <1>1, <1>3 DEF CallInv
<1>5. \A i \in Job : Held(i)'
  <2>1. ASSUME NEW i \in Job, i # j PROVE Held(i)'
    BY <1>3, <2>1 DEF Inv, CallsInv, Held, Busy
  <2>2. Held(j)'
    BY <1>3, IdleOK DEF Inv, CallsInv, Held, Busy, Onward, Locking
  <2> QED
    BY <2>1, <2>2
<1>6. Overlap # "any" => \A i, k \in Job : i # k => Apart(i, k)'
  BY <1>3, IdleOK DEF Inv, CallsInv, Apart, Onward, Busy
<1>7. CallsInv' /\ Rest(j)
  BY <1>3, <1>4, <1>5, <1>6 DEF Inv, CallsInv, Rest
<1> QED
  BY <1>2, <1>3, <1>7 DEF Sound, Inv, Writing

\* Entries come and go in a well-typed document.
LEMMA DocumentOK ==
    ASSUME NEW doc \in Document, NEW n \in Nat, NEW who \in Account \cup {User, Nothing}
    PROVE  With(doc, n, who) \in Document /\ Without(doc, n) \in Document
  BY DEF With, Without, Document

\* The fallback lists stay well-typed, too.
LEMMA OmoOK ==
    ASSUME NEW doc \in Document
    PROVE  /\ \A n \in Nat : OmoAppended(doc, n) \in Document
           /\ \A N \in SUBSET Provider : N # {} => OmoRepaired(doc, N) \in Document
<1>1. NoFile \in Document
  BY DEF NoFile, Document
<1>2. ASSUME NEW n \in Nat
      PROVE  OmoAppended(doc, n) \in Document
  <2> DEFINE new == [With(NoFile, Primary, User) EXCEPT !.main = Primary]
             base == IF doc.exists THEN doc ELSE new
  <2>1. With(NoFile, Primary, User) \in Document
    BY <1>1, DocumentOK
  <2>2. new \in Document
    BY <2>1, ProviderNumbers DEF Document
  <2> HIDE DEF new
  <2>3. base \in Document
    BY <2>2
  <2>4. With(base, n, User) \in Document
    BY <2>3, DocumentOK
  <2>5. OmoAppended(doc, n) = [With(base, n, User) EXCEPT !.runtime = TRUE]
    BY DEF OmoAppended, new
  <2> QED
    BY <2>4, <2>5 DEF Document
<1>3. ASSUME NEW N \in SUBSET Provider, N # {}
      PROVE  OmoRepaired(doc, N) \in Document
  <2>1. Min(N) \in N
    <3>1. N \in SUBSET Nat /\ IsFiniteSet(N)
      BY ProviderNumbers, FS_Subset
    <3> QED
      BY <1>3, <3>1, MinLeast
  <2>2. (IF doc.exists THEN doc.main ELSE Min(N)) \in Provider \cup {Unassigned}
    BY <2>1 DEF Document
  <2> QED
    BY <2>2 DEF OmoRepaired, Document
<1> QED
  BY <1>2, <1>3

\* Each writer puts its document in place.
LEMMA AuthPut ==
    ASSUME NEW j \in Job, WriteAuth(j)
    PROVE  Put(j, "auth", With(job[j].loaded, Primary, job[j].row.account),
               Configured(Wrote(j, "auth")))
<1> DEFINE doc == With(job[j].loaded, Primary, job[j].row.account)
           then(i) == Configured(Wrote(i, "auth"))
<1>1. /\ files' = [files EXCEPT !["auth"] = doc] /\ UNCHANGED <<book, settings, lock>>
      /\ job' = [i \in Job |-> IF i = j THEN then(i)
                               ELSE [job[i] EXCEPT !.writes = Aged("auth", i)]]
  BY DEF WriteAuth, Replace, Wrote
<1>2. then(j) = Configured(Wrote(j, "auth"))
  OBVIOUS
<1> HIDE DEF then, doc
<1> QED
  BY <1>1, <1>2 DEF Put, doc

\* What a write of opencode.json does.
LEMMA OpencodePut ==
    ASSUME NEW j \in Job, WriteOpencode(j)
    PROVE  LET k == Wrote(j, "opencode")
           IN  Put(j, "opencode", With(job[j].loaded, job[j].row.provider, job[j].row.account),
                   IF "omo" \in k.adds THEN [k EXCEPT !.loaded = NoFile, !.pc = "omo_load"]
                                       ELSE Configured(k))
<1> DEFINE doc == With(job[j].loaded, job[j].row.provider, job[j].row.account)
           Of(k) == IF "omo" \in k.adds THEN [k EXCEPT !.loaded = NoFile, !.pc = "omo_load"]
                                        ELSE Configured(k)
           then(i) == Of(Wrote(i, "opencode"))
<1>1. /\ files' = [files EXCEPT !["opencode"] = doc] /\ UNCHANGED <<book, settings, lock>>
      /\ job' = [i \in Job |-> IF i = j THEN then(i)
                               ELSE [job[i] EXCEPT !.writes = Aged("opencode", i)]]
  BY DEF WriteOpencode, Replace, Wrote
<1>2. then(j) = Of(Wrote(j, "opencode"))
  OBVIOUS
<1> HIDE DEF then, doc
<1> QED
  BY <1>1, <1>2 DEF Put, doc

\* What a write of the agents' file does.
LEMMA OmoPut ==
    ASSUME NEW j \in Job, WriteOmo(j)
    PROVE  LET k == Wrote(j, "omo")
           IN  Put(j, "omo", OmoTarget(job[j], job[j].loaded),
                   IF k.op = "repair" THEN Idle ELSE Configured(k))
<1> DEFINE doc == OmoTarget(job[j], job[j].loaded)
           then(i) == IF Wrote(i, "omo").op = "repair" THEN Idle ELSE Configured(Wrote(i, "omo"))
<1>1. /\ files' = [files EXCEPT !["omo"] = doc] /\ UNCHANGED <<book, settings, lock>>
      /\ job' = [i \in Job |-> IF i = j THEN then(i)
                               ELSE [job[i] EXCEPT !.writes = Aged("omo", i)]]
  BY DEF WriteOmo, Replace, Wrote
<1>2. then(j) = IF Wrote(j, "omo").op = "repair" THEN Idle ELSE Configured(Wrote(j, "omo"))
  OBVIOUS
<1> HIDE DEF then, doc
<1> QED
  BY <1>1, <1>2 DEF Put, doc

\* Writing auth.json.
LEMMA WriteAuthSound ==
    ASSUME Inv, NEW j \in Job, WriteAuth(j)
    PROVE  Sound(j)
<1> DEFINE g == job[j]
           k == Wrote(j, "auth")
           doc == With(g.loaded, Primary, g.row.account)
<1>1. g \in Call /\ RowInv(g) /\ PlaceInv(g) /\ g.pc = "auth_write" /\ Busy(g)
        /\ g.op \in Locking /\ g.row \in Row
  BY CallOf DEF Inv, WriteAuth, At, Busy, PlaceInv, RowInv
<1>2. k \in Call /\ RowInv(k) /\ PlaceInv(k) /\ k.pc = "auth_write" /\ k.op = g.op
        /\ k.row = g.row
  BY <1>1, WroteOK DEF Like
<1>3. doc \in Document
  BY <1>1, DocumentOK DEF Call, Row
<1>4. Put(j, "auth", doc, Configured(k))
  BY AuthPut
<1> HIDE DEF k, doc
<1>5. Onward(k, Configured(k)) /\ Configured(k).pc \in {"store", "next"}
  BY <1>1, <1>2, ConfiguredOK DEF Busy
<1>6. Onward(g, Configured(k))
  BY <1>1, <1>2, <1>5 DEF Onward
<1> QED
  BY <1>1, <1>3, <1>4, <1>5, <1>6, ReplaceSound DEF Writing

\* Writing opencode.json.
LEMMA WriteOpencodeSound ==
    ASSUME Inv, NEW j \in Job, WriteOpencode(j)
    PROVE  Sound(j)
<1> DEFINE g == job[j]
           k == Wrote(j, "opencode")
           m == [k EXCEPT !.loaded = NoFile, !.pc = "omo_load"]
           h == IF "omo" \in k.adds THEN m ELSE Configured(k)
           doc == With(g.loaded, g.row.provider, g.row.account)
<1>1. g \in Call /\ RowInv(g) /\ PlaceInv(g) /\ g.pc = "oc_write" /\ Busy(g)
        /\ g.op \in Locking /\ g.row \in Row
  BY CallOf DEF Inv, WriteOpencode, At, Busy, PlaceInv, RowInv
<1>2. k \in Call /\ RowInv(k) /\ PlaceInv(k) /\ k.pc = "oc_write" /\ k.op = g.op
        /\ k.row = g.row
  BY <1>1, WroteOK DEF Like
<1>3. doc \in Document
  BY <1>1, DocumentOK DEF Call, Row
<1>4. Put(j, "opencode", doc, h)
  BY OpencodePut
<1> HIDE DEF k, doc
<1>5. Onward(k, Configured(k)) /\ Configured(k).pc \in {"store", "next"}
  BY <1>1, <1>2, ConfiguredOK DEF Busy
<1>6. Onward(k, m) /\ m.pc = "omo_load"
  <2>1. NoFile \in Document
    BY DEF NoFile, Document
  <2>2. m \in Call /\ m.pc = "omo_load" /\ Like(k, m, {})
    BY <1>2, <2>1 DEF Call, Location, Loading, Like
  <2>3. m.op = k.op /\ m.row = k.row /\ m.todo = k.todo /\ m.reserved = k.reserved
    BY <2>2 DEF Like
  <2> HIDE DEF m
  <2> QED
    BY <1>1, <1>2, <2>2, <2>3 DEF Onward, CallInv, RowInv, PlaceInv, Busy, Locking
<1> HIDE DEF m
<1>7. Onward(g, h) /\ h.pc \notin Writing
  BY <1>1, <1>2, <1>5, <1>6 DEF Onward, Writing
<1> HIDE DEF h
<1> QED
  BY <1>1, <1>3, <1>4, <1>7, ReplaceSound DEF Writing

\* Writing oh-my-openagent.json.
LEMMA WriteOmoSound ==
    ASSUME Inv, NEW j \in Job, WriteOmo(j)
    PROVE  Sound(j)
<1> DEFINE g == job[j]
           k == Wrote(j, "omo")
           h == IF k.op = "repair" THEN Idle ELSE Configured(k)
           doc == OmoTarget(g, g.loaded)
<1>1. g \in Call /\ RowInv(g) /\ PlaceInv(g) /\ g.pc = "omo_write" /\ Busy(g)
        /\ g.op \in Locking \cup {"repair"} /\ (g.op # "repair" => g.row \in Row)
  BY CallOf DEF Inv, WriteOmo, At, Busy, PlaceInv, RowInv
<1>2. k \in Call /\ RowInv(k) /\ PlaceInv(k) /\ k.pc = "omo_write" /\ k.op = g.op
        /\ k.row = g.row
  BY <1>1, WroteOK DEF Like
<1>3. doc \in Document
  BY <1>1, OmoOK DEF OmoTarget, Call, Row, RowInv
<1>4. Put(j, "omo", doc, h)
  BY OmoPut
<1> HIDE DEF k, doc
<1>5. g.op # "repair" => Onward(k, Configured(k)) /\ Configured(k).pc \in {"store", "next"}
  BY <1>1, <1>2, ConfiguredOK DEF Busy
<1>6. (Onward(g, h) \/ (h = Idle /\ g.op = "repair")) /\ h.pc \notin Writing
  BY <1>1, <1>2, <1>5, IdleOK DEF Onward, Writing
<1> HIDE DEF h
<1> QED
  BY <1>1, <1>3, <1>4, <1>6, ReplaceSound DEF Writing

(***************************************************************************)
(* Removing                                                                *)
(***************************************************************************)
\* The rows of the other accounts are rows.
LEMMA OthersOK ==
    ASSUME NEW rows \in Seq(Row), NEW a
    PROVE  Others(rows, a) \in Seq(Row)
<1>1. CASE a \in Accounts(rows)
  <2> DEFINE i == CHOOSE i \in DOMAIN rows : rows[i].account = a
  <2>1. i \in DOMAIN rows
    BY <1>1 DEF Accounts
  <2>2. Others(rows, a) = RemoveAt(rows, i)
    BY <1>1 DEF Others
  <2> HIDE DEF i
  <2>3. i \in 1 .. Len(rows)
    BY <2>1
  <2>4. SubSeq(rows, 1, i - 1) \in Seq(Row) /\ SubSeq(rows, i + 1, Len(rows)) \in Seq(Row)
    BY <2>3
  <2>5. RemoveAt(rows, i) \in Seq(Row)
    BY <2>4 DEF RemoveAt
  <2> QED
    BY <2>2, <2>5
<1>2. CASE a \notin Accounts(rows)
  BY <1>2 DEF Others
<1> QED
  BY <1>1, <1>2

\* GitHub's answer to a removal.
LEMMA RemoteSound ==
    ASSUME Inv, NEW j \in Job, RemoteDeleted(j) \/ RemoteFailed(j)
    PROVE  Sound(j)
<1> DEFINE g == job[j]
           h == [g EXCEPT !.pc = "remaining"]
<1>1. g \in Call /\ RowInv(g) /\ PlaceInv(g) /\ g.pc = "remote" /\ g.op = "remove" /\ CallsInv
        /\ UNCHANGED <<files, book, settings>>
  BY CallOf DEF Inv, RemoteDeleted, RemoteFailed, At, PlaceInv
<1>2. CASE RemoteFailed(j)
  BY <1>1, <1>2, FinishSound, SameWorld DEF RemoteFailed
<1>3. CASE RemoteDeleted(j)
  <2>1. h \in Call /\ h.pc = "remaining" /\ Like(g, h, {})
    BY <1>1, MovedOK DEF Location
  <2>2. h.op = g.op /\ h.row = g.row /\ h.todo = g.todo /\ h.reserved = g.reserved
    BY <2>1 DEF Like
  <2>3. Become(j, h) /\ UNCHANGED lock /\ MayWork(j, "remove")
    BY <1>3 DEF RemoteDeleted
  <2> HIDE DEF h
  <2>4. CallInv(h)
    BY <1>1, <2>1, <2>2 DEF CallInv, RowInv, PlaceInv, Locking
  <2>5. /\ job' \in [Job -> Call] /\ job'[j] = h
        /\ \A i \in Job \ {j} : job'[i] = job[i]
    BY <1>1, <2>1, <2>3 DEF CallsInv, Become
  <2>6. \A i \in Job : CallInv(job'[i])
    BY <1>1, <2>4, <2>5 DEF CallsInv
  <2>7. \A i \in Job : Held(i)'
    BY <1>1, <2>2, <2>3, <2>5 DEF CallsInv, Held, Locking
  <2>8. Overlap # "any" => \A i, k \in Job : i # k => Apart(i, k)'
    <3>1. Overlap # "any" => \A i \in Job \ {j} : job[i].pc \in {"idle", "remote"}
      BY <2>3, TurnOf DEF Alone
    <3> QED
      BY <1>1, <2>5, <3>1 DEF CallsInv, Apart
  <2>9. CallsInv' /\ Rest(j)
    BY <1>1, <2>3, <2>5, <2>6, <2>7, <2>8 DEF CallsInv, Rest
  <2> QED
    BY <1>1, <2>1, <2>5, <2>9, SameWorld DEF Sound, Inv
<1> QED
  BY <1>2, <1>3

\* An edit that has a number is one.
LEMMA EditIfOK ==
    ASSUME NEW cond \in BOOLEAN, NEW f \in File, NEW n, NEW key \in Account \cup {Nothing},
           cond => n \in Nat \ {Unassigned}
    PROVE  EditIf(cond, f, n, key) \in Seq(Edit)
<1> DEFINE e == [file |-> f, provider |-> n, key |-> key]
<1>1. cond => e \in Edit
  BY DEF Edit
<1>2. EditIf(cond, f, n, key) = IF cond THEN <<e>> ELSE <<>>
  BY DEF EditIf
<1> HIDE DEF e
<1> QED
  BY <1>1, <1>2

\* What a removal has to change has a number.
LEMMA PlanOK ==
    ASSUME NEW removed \in Row, NEW promoted \in Row \cup {NoRow}
    PROVE  PlanPrimary(removed, promoted) \in Seq(Edit) /\ PlanSecondary(removed) \in Seq(Edit)
<1> DEFINE takeover == removed.oc /\ promoted # NoRow /\ promoted.oc
<1>1. /\ removed.oc \in BOOLEAN /\ removed.omo \in BOOLEAN
      /\ removed.provider \in Nat \ {Unassigned}
      /\ promoted.oc \in BOOLEAN /\ promoted.omo \in BOOLEAN
      /\ promoted.account \in Account \cup {Nothing}
      /\ takeover => promoted.provider \in Nat \ {Unassigned}
  <2>1. CASE promoted \in Row
    BY <2>1 DEF Row
  <2>2. CASE promoted = NoRow
    BY <2>2 DEF Row, NoRow
  <2> QED
    BY <2>1, <2>2
<1>2. takeover \in BOOLEAN /\ (promoted = NoRow) \in BOOLEAN
  OBVIOUS
<1> HIDE DEF takeover
<1>3. EditIf(removed.oc, "auth", Primary, IF takeover THEN promoted.account ELSE Nothing)
        \in Seq(Edit)
  BY <1>1, EditIfOK
<1>4. EditIf(promoted = NoRow /\ removed.omo, "omo", Primary, Nothing) \in Seq(Edit)
  <2>1. (promoted = NoRow /\ removed.omo) \in BOOLEAN
    BY <1>1
  <2>2. Primary \in Nat \ {Unassigned} /\ "omo" \in File /\ Nothing \in Account \cup {Nothing}
    OBVIOUS
  <2> HIDE DEF Primary, Nothing, Unassigned, File
  <2> QED
    BY <2>1, <2>2, EditIfOK
<1>5. EditIf(takeover, "opencode", promoted.provider, Nothing) \in Seq(Edit)
  BY <1>1, <1>2, EditIfOK
<1>6. EditIf(takeover /\ promoted.omo, "omo", promoted.provider, Nothing) \in Seq(Edit)
  <2>1. (takeover /\ promoted.omo) \in BOOLEAN
    BY <1>1
  <2> QED
    BY <1>1, <2>1, EditIfOK
<1>7. EditIf(removed.oc, "opencode", removed.provider, Nothing) \in Seq(Edit)
  BY <1>1, EditIfOK
<1>8. EditIf(removed.omo, "omo", removed.provider, Nothing) \in Seq(Edit)
  BY <1>1, EditIfOK
<1>9. PlanPrimary(removed, promoted) \in Seq(Edit)
  BY <1>3, <1>4, <1>5, <1>6 DEF PlanPrimary, takeover
<1> QED
  BY <1>7, <1>8, <1>9 DEF PlanSecondary

\* Planning the edits of a removal.
LEMMA PlanRemovalSound ==
    ASSUME Inv, NEW j \in Job, PlanRemoval(j)
    PROVE  Sound(j)
<1> DEFINE g == job[j]
           removed == g.row
           rest == Others(vault, removed.account)
           promoted == IF removed.provider = Primary /\ PromotionCandidate(rest) # {}
                         THEN CHOOSE r \in PromotionCandidate(rest) : TRUE ELSE NoRow
           plan == IF removed.provider = Primary THEN PlanPrimary(removed, promoted)
                                                 ELSE PlanSecondary(removed)
           l == IF plan = <<>> THEN "delete" ELSE "edit_load"
           h == [g EXCEPT !.plan = plan, !.promoted = promoted.account, !.pc = l]
<1>1. g \in Call /\ RowInv(g) /\ PlaceInv(g) /\ g.pc = "remaining" /\ Busy(g)
        /\ g.op = "remove" /\ removed \in Row
  BY CallOf DEF Inv, PlanRemoval, At, Busy, PlaceInv, RowInv
<1>2. rest \in Seq(Row)
  BY OthersOK DEF Inv, WorldInv
<1>3. promoted \in Row \cup {NoRow}
  <2>1. PromotionCandidate(rest) \subseteq Row
    BY <1>2 DEF PromotionCandidate
  <2> QED
    BY <2>1
<1>4. Become(j, h)
  BY DEF PlanRemoval
<1> HIDE DEF promoted, rest
<1>5. plan \in Seq(Edit)
  BY <1>1, <1>3, PlanOK
<1>6. promoted.account \in Account \cup {Nothing}
  BY <1>3 DEF Row, NoRow
<1> HIDE DEF plan
<1>7. h \in Call /\ h.pc = l /\ h.op = g.op /\ h.row = g.row /\ h.todo = g.todo
        /\ h.reserved = g.reserved /\ h.plan = plan
  BY <1>1, <1>5, <1>6 DEF Call, Location, Loading
<1> HIDE DEF h
<1>8. Onward(g, h)
  BY <1>1, <1>7 DEF Onward, CallInv, RowInv, PlaceInv, Busy, Locking
<1> QED
  BY <1>4, <1>7, <1>8, OnwardSound DEF PlanRemoval

\* Going on to the next edit, or to the row.
LEMMA NextEditOK ==
    ASSUME NEW g \in Call, RowInv(g), PlaceInv(g), g.op = "remove",
           g.pc \in {"edit_load", "edit_write"}
    PROVE  Onward(g, NextEdit(g)) /\ NextEdit(g).pc \notin Writing
<1> DEFINE l == IF Len(g.plan) = 1 THEN "delete" ELSE "edit_load"
           h == [g EXCEPT !.plan = Tail(@), !.loaded = NoFile, !.pc = l]
<1>1. g.plan \in Seq(Edit) /\ g.plan # <<>>
  BY DEF Call, PlaceInv
<1>2. Tail(g.plan) \in Seq(Edit) /\ (Len(g.plan) # 1 => Tail(g.plan) # <<>>)
  <2>1. Len(g.plan) \in Nat \ {0} /\ Len(Tail(g.plan)) = Len(g.plan) - 1
          /\ Tail(g.plan) \in Seq(Edit)
    BY <1>1
  <2>2. Len(<<>>) = 0
    OBVIOUS
  <2> DEFINE t == Tail(g.plan)
  <2>3. t \in Seq(Edit) /\ Len(t) = Len(g.plan) - 1
    BY <2>1
  <2> HIDE DEF t
  <2>4. ASSUME Len(g.plan) # 1 PROVE t # <<>>
    <3>1. Len(t) # 0
      BY <2>1, <2>3, <2>4
    <3> QED
      BY <2>2, <3>1
  <2>5. t \in Seq(Edit) /\ (Len(g.plan) # 1 => t # <<>>)
    BY <2>3, <2>4
  <2> QED
    BY <2>5 DEF t
<1>3. NoFile \in Document
  BY DEF NoFile, Document
<1>4. h \in Call /\ h.pc = l /\ h.plan = Tail(g.plan) /\ Like(g, h, {"plan"})
  BY <1>2, <1>3 DEF Call, Location, Loading, Like
<1>5. h.op = g.op /\ h.row = g.row /\ h.todo = g.todo /\ h.reserved = g.reserved
  BY <1>4 DEF Like
<1>6. NextEdit(g) = h
  BY DEF NextEdit
<1> HIDE DEF h
<1> QED
  BY <1>2, <1>4, <1>5, <1>6
  DEF Onward, CallInv, RowInv, PlaceInv, Busy, Locking, Writing

\* Loading a file to be edited.
LEMMA LoadEditSound ==
    ASSUME Inv, NEW j \in Job, LoadEdit(j)
    PROVE  Sound(j)
<1> DEFINE g == job[j]
           e == Head(g.plan)
           h == [g EXCEPT !.loaded = files[e.file], !.pc = "edit_write"]
<1>1. g \in Call /\ RowInv(g) /\ PlaceInv(g) /\ g.pc = "edit_load" /\ Busy(g)
        /\ g.op = "remove" /\ g.plan \in Seq(Edit) /\ g.plan # <<>>
        /\ UNCHANGED <<files, book, settings>>
  BY CallOf DEF Inv, LoadEdit, At, Busy, PlaceInv, Call
<1>2. e \in Edit
  BY <1>1
<1>3. files[e.file] \in Document
  BY <1>2 DEF Edit, Inv, WorldInv
<1>4. \/ Fail(j, g)
      \/ Become(j, h) /\ UNCHANGED lock
      \/ Become(j, NextEdit(g)) /\ UNCHANGED lock
  BY DEF LoadEdit
<1> HIDE DEF e
<1>5. h \in Call /\ h.pc = "edit_write" /\ Like(g, h, {})
  BY <1>1, <1>3 DEF Call, Location, Writing, Like
<1>6. h.op = g.op /\ h.row = g.row /\ h.todo = g.todo /\ h.reserved = g.reserved
        /\ h.plan = g.plan
  BY <1>5 DEF Like
<1> HIDE DEF h
<1>7. Onward(g, h)
  BY <1>1, <1>5, <1>6 DEF Onward, CallInv, RowInv, PlaceInv, Busy, Locking
<1>8. Onward(g, NextEdit(g)) /\ NextEdit(g).pc \notin Writing
  BY <1>1, NextEditOK
<1> QED
  BY <1>1, <1>4, <1>5, <1>7, <1>8, OnwardSound, FailSound, SameWorld DEF Writing

\* An edit is put in place.
LEMMA EditPut ==
    ASSUME NEW j \in Job, WriteEdit(j)
    PROVE  LET e == Head(job[j].plan)
           IN  Put(j, e.file, Edited(job[j].loaded, e), NextEdit(Wrote(j, e.file)))
<1> DEFINE e == Head(job[j].plan)
           f == e.file
           doc == Edited(job[j].loaded, e)
           then(i) == NextEdit(Wrote(i, f))
<1>1. /\ files' = [files EXCEPT ![f] = doc] /\ UNCHANGED <<book, settings, lock>>
      /\ job' = [i \in Job |-> IF i = j THEN then(i)
                               ELSE [job[i] EXCEPT !.writes = Aged(f, i)]]
  BY DEF WriteEdit, Replace, Wrote
<1>2. then(j) = NextEdit(Wrote(j, f))
  OBVIOUS
<1> HIDE DEF then, doc, f
<1> QED
  BY <1>1, <1>2 DEF Put, doc, f

\* Writing an edited file.
LEMMA WriteEditSound ==
    ASSUME Inv, NEW j \in Job, WriteEdit(j)
    PROVE  Sound(j)
<1> DEFINE g == job[j]
           e == Head(g.plan)
           f == e.file
           k == Wrote(j, f)
           h == NextEdit(k)
           doc == Edited(g.loaded, e)
<1>1. g \in Call /\ RowInv(g) /\ PlaceInv(g) /\ g.pc = "edit_write" /\ Busy(g)
        /\ g.op = "remove" /\ g.plan \in Seq(Edit) /\ g.plan # <<>>
  BY CallOf DEF Inv, WriteEdit, At, Busy, PlaceInv, Call
<1>2. e \in Edit /\ f \in File
  <2>1. e \in Edit
    BY <1>1
  <2> QED
    BY <2>1 DEF Edit
<1>3. doc \in Document
  BY <1>1, <1>2, DocumentOK DEF Edited, Call, Edit
<1>4. Put(j, f, doc, h)
  BY EditPut
<1> HIDE DEF e, f, doc
<1>5. k \in Call /\ RowInv(k) /\ PlaceInv(k) /\ k.pc = "edit_write" /\ Like(g, k, {"writes"})
  BY <1>1, <1>2, WroteOK
<1>6. k.op = "remove"
  BY <1>1, <1>5 DEF Like
<1> HIDE DEF k
<1>7. Onward(k, h) /\ h.pc \notin Writing
  BY <1>5, <1>6, NextEditOK
<1>8. Onward(g, h)
  BY <1>1, <1>5, <1>6, <1>7 DEF Onward
<1> HIDE DEF h
<1> QED
  BY <1>1, <1>2, <1>3, <1>4, <1>7, <1>8, ReplaceSound DEF Writing

\* Deleting the row and promoting another.
LEMMA DeleteRowSound ==
    ASSUME Inv, NEW j \in Job, DeleteRow(j)
    PROVE  Sound(j)
<1> DEFINE g == job[j]
           rest == Others(vault, g.row.account)
<1>1. Busy(g) /\ UNCHANGED <<files, pending, flows, outside, settings>>
  BY DEF DeleteRow, At, Busy
<1>2. rest \in Seq(Row)
  BY OthersOK DEF Inv, WorldInv
<1> HIDE DEF rest
<1>3. Promoted(rest, g.promoted) \in Seq(Row)
  <2>1. \A i \in DOMAIN rest : rest[i] \in Row
    BY <1>2
  <2>2. \A i \in DOMAIN rest :
          (IF rest[i].account = g.promoted THEN [rest[i] EXCEPT !.provider = Primary]
                                           ELSE rest[i]) \in Row
    BY <2>1 DEF Row
  <2> QED
    BY <1>2, <2>2 DEF Promoted
<1>4. WorldInv'
  BY <1>1, <1>3 DEF Inv, WorldInv, DeleteRow, rest
<1>5. Finish(j) \/ Fail(j, g)
  BY DEF DeleteRow
<1> QED
  BY <1>1, <1>4, <1>5, FinishSound, FailSound

(***************************************************************************)
(* The invariant                                                           *)
(***************************************************************************)
\* Every step of a call at work is sound.
LEMMA WorkSound ==
    ASSUME Inv, NEW j \in Job, Work(j)
    PROVE  Sound(j)
  BY AcquireSound, DecodeSound, InspectSound, FindPrimarySound, ListRowsSound, NextRowSound,
     NameRowSound, LoadAuthSound, WriteAuthSound, FetchModelsSound, LoadOpencodeSound,
     WriteOpencodeSound, ReadNamesSound, LoadOmoSound, WriteOmoSound, StepFailsSound,
     CommitSound, UndoSound, RemoteSound, PlanRemovalSound, LoadEditSound, WriteEditSound,
     DeleteRowSound
  DEF Work

\* The pool begins in the invariant.
LEMMA PoolInit == Init => Inv
<1> SUFFICES ASSUME Init PROVE Inv
  OBVIOUS
<1>1. NoFile \in Document
  BY DEF NoFile, Document
<1>2. PrimaryFile \in Document /\ [PrimaryFile EXCEPT !.main = Primary] \in Document
  <2>1. PrimaryFile \in Document
    BY <1>1, DocumentOK DEF PrimaryFile
  <2> QED
    BY <2>1, ProviderNumbers DEF Document
<1>3. OwnFile \in Document
  BY <1>1 DEF OwnFile, Document
<1>4. files \in [File -> Document]
  BY <1>1, <1>2, <1>3 DEF Init
<1>5. <<>> \in Seq(Row) /\ pending \subseteq Account /\ flows \subseteq Account
        /\ outside \subseteq Account /\ settings \in Settings
  BY DEF Init
<1>6. WorldInv
  BY <1>4, <1>5 DEF WorldInv, Init
<1>7. Nothing \notin Job
  BY PoolAssumption
<1>8. job \in [Job -> Call] /\ \A j \in Job : job[j] = Idle
  BY IdleOK DEF Init, CallInv
<1>9. CallsInv
  BY <1>7, <1>8, IdleOK DEF CallsInv, Held, Apart, Init, Locking
<1> QED
  BY <1>6, <1>9 DEF Inv

\* Every step of the pool is a sound step of one call, or leaves files and calls alone.
LEMMA PoolNext ==
    ASSUME Inv, [Next]_vars
    PROVE  (\E j \in Job : Sound(j)) \/ (Inv' /\ UNCHANGED <<files, job>>)
<1>1. CASE UNCHANGED vars
  BY <1>1 DEF vars, Inv, CallsInv, WorldInv, Held, Apart
<1> QED
  BY <1>1, AskSound, WorkSound, DiscardSound, SettingsSound DEF Next

\* The invariant holds of every behaviour, whoever overlaps with whom.
THEOREM PoolInvariant == Spec => []Inv
<1>1. ASSUME Inv, [Next]_vars PROVE Inv'
  BY <1>1, PoolNext DEF Sound
<1> QED
  BY <1>1, PoolInit, PTL DEF Spec

\* Type correctness of files, vault, settings, lock and calls.
THEOREM TypeCorrect == Spec => []TypeOK
<1>1. Inv => TypeOK
  BY DEF Inv, CallsInv, WorldInv, TypeOK
<1> QED
  BY <1>1, PoolInvariant, PTL

\* AccountCompletionService._lock is held by the one completion, import or apply that is
\* at work, from its entry to its end, rollbacks included; removals and repairs never
\* have it.
LockHeld == \A j \in Job : lock = j <=> job[j].op \in Locking /\ Busy(job[j])

\* No way out of a call, by success, failure or rollback, leaks the lock or drops it early.
THEOREM LockIsHeld == Spec => []LockHeld
<1>1. Inv => LockHeld
  BY DEF Inv, CallsInv, Held, LockHeld
<1> QED
  BY <1>1, PoolInvariant, PTL

\* At most one call is at work on files and vault.
OneAtWork == \A i, j \in Job : Busy(job[i]) /\ Busy(job[j]) => i = j

\* Two at work would both hold the lock, or one would be a removal or repair by itself.
LEMMA OneBusy == ASSUME Inv, Overlap # "any" PROVE OneAtWork
<1> SUFFICES ASSUME NEW i \in Job, NEW j \in Job, Busy(job[i]), Busy(job[j]), i # j
             PROVE  FALSE
  BY DEF OneAtWork
<1>1. job[i].op \in Op \cup {"none"} /\ job[j].op \in Op \cup {"none"}
  BY CallOf DEF Inv, Call
<1>2. ~Alone(job[i].op) /\ ~Alone(job[j].op)
  BY DEF Inv, CallsInv, Apart, Busy
<1>3. job[i].op # "none" /\ job[j].op # "none"
  BY CallOf DEF Inv, PlaceInv, Busy
<1>4. job[i].op \in Locking /\ job[j].op \in Locking
  BY <1>1, <1>2, <1>3, PoolAssumption DEF Alone, Locking
<1> QED
  BY <1>4 DEF Inv, CallsInv, Held

\* Where removals and repairs get their turn alone, lock and turns together let nobody in
\* between a load and its write, or between a write and the commit or rollback.
THEOREM NobodyInBetween == ASSUME Overlap # "any" PROVE Spec => []OneAtWork
<1>1. Inv => OneAtWork
  BY OneBusy
<1> QED
  BY <1>1, PoolInvariant, PTL

(***************************************************************************)
(* Keys stay                                                               *)
(***************************************************************************)
\* What the calls have loaded to add a key to is what the file holds now.
FreshInv == Overlap # "any" => \A j \in Job : Current(job[j])

\* Nobody but the call at work writes, and what it loads is current.
LEMMA FreshStep ==
    ASSUME Inv, FreshInv, [Next]_vars
    PROVE  FreshInv'
<1>1. CASE Inv' /\ UNCHANGED <<files, job>>
  BY <1>1 DEF FreshInv, Current, Readable
<1>2. ASSUME NEW j \in Job, Sound(j), Overlap # "any", NEW i \in Job
      PROVE  Current(job[i])'
  <2>1. CASE i = j
    BY <1>2, <2>1 DEF Sound, Current, Readable
  <2>2. CASE i # j /\ job[i].pc \in {"auth_write", "oc_write"}
    <3>1. Busy(job[i]) /\ ~Busy(job[j])
      BY <1>2, <2>2, OneBusy DEF OneAtWork, Busy
    <3>2. UNCHANGED files
      BY <1>2, <3>1 DEF Sound, Busy, Writing
    <3>3. /\ job'[i].pc = job[i].pc /\ job'[i].loaded = job[i].loaded
          /\ job'[i].row = job[i].row /\ Current(job[i])
      BY <1>2, <2>2 DEF Sound, Rest, FreshInv
    <3> QED
      BY <3>2, <3>3 DEF Current, Readable
  <2>3. CASE i # j /\ job[i].pc \notin {"auth_write", "oc_write"}
    <3>1. job'[i].pc = job[i].pc
      BY <1>2, <2>3 DEF Sound, Rest
    <3> QED
      BY <2>3, <3>1 DEF Current
  <2> QED
    BY <2>1, <2>2, <2>3
<1> QED
  BY <1>1, <1>2, PoolNext DEF FreshInv

\* At the beginning nobody has loaded anything.
LEMMA FreshInit == Init => FreshInv
<1>1. Init => \A j \in Job : job[j].pc = "idle"
  BY IdleOK DEF Init
<1> QED
  BY <1>1 DEF FreshInv, Current

\* A key is put where none was.
LEMMA AddedKept ==
    ASSUME NEW doc \in Document, NEW m \in Nat, m \notin Names(doc), NEW who,
           NEW n \in Names(doc)
    PROVE  With(doc, m, who).entries[n] = doc.entries[n]
<1>1. n # m /\ n \in Provider
  BY DEF Names
<1> QED
  BY <1>1 DEF With, Document

\* Where removals and repairs wait for their turn, only a removal and a rollback change a
\* key in auth.json or opencode.json: additions put theirs where none was.
AddersKeep ==
    [][\A f \in {"auth", "opencode"} : \A n \in Names(files[f]) :
          \/ files'[f].entries[n] = files[f].entries[n]
          \/ \E j \in Job : Busy(job[j]) /\ (job[j].op = "remove" \/ job[j].pc = "undo")]_files

\* Every key stays where it is, but for an edit or a rollback.
LEMMA KeyStep ==
    ASSUME Inv, FreshInv, Overlap # "any", Readable, [Next]_vars,
           NEW f \in {"auth", "opencode"}, NEW n \in Names(files[f])
    PROVE  \/ files'[f].entries[n] = files[f].entries[n]
           \/ \E j \in Job : WriteEdit(j) \/ Undo(j)
<1>1. files \in [File -> Document]
  BY DEF Inv, WorldInv
<1>2. ASSUME NEW j \in Job, WriteAuth(j)
      PROVE  files'[f].entries[n] = files[f].entries[n]
  <2>1. /\ job[j].pc = "auth_write"
        /\ files' = [files EXCEPT !["auth"] = With(job[j].loaded, Primary, job[j].row.account)]
    BY <1>2 DEF WriteAuth, Replace, At
  <2>2. job[j].loaded = files["auth"] /\ Primary \notin Names(files["auth"])
    BY <2>1 DEF FreshInv, Current
  <2> QED
    BY <1>1, <2>1, <2>2, AddedKept
<1>3. ASSUME NEW j \in Job, WriteOpencode(j)
      PROVE  files'[f].entries[n] = files[f].entries[n]
  <2>1. /\ job[j].pc = "oc_write"
        /\ files' = [files EXCEPT !["opencode"] =
                        With(job[j].loaded, job[j].row.provider, job[j].row.account)]
    BY <1>3 DEF WriteOpencode, Replace, At
  <2>2. /\ job[j].loaded = files["opencode"]
        /\ job[j].row.provider \notin Names(files["opencode"])
    BY <2>1 DEF FreshInv, Current
  <2>3. job[j].row.provider \in Nat
    BY <2>1, CallOf DEF Inv, RowInv, Row
  <2> QED
    BY <1>1, <2>1, <2>2, <2>3, AddedKept
<1>4. ASSUME NEW j \in Job, WriteOmo(j)
      PROVE  files'[f].entries[n] = files[f].entries[n]
  <2>1. files' = [files EXCEPT !["omo"] = OmoTarget(job[j], job[j].loaded)]
    BY <1>4 DEF WriteOmo, Replace
  <2> QED
    BY <1>1, <2>1
<1>5. ASSUME NEW j \in Job, Ask(j) \/ Discard \/ ChangeSettings \/ UNCHANGED vars
      PROVE  UNCHANGED files
  BY <1>5 DEF Ask, AskComplete, AskImport, AskApply, AskRepair, AskRemove, Discard,
              ChangeSettings, vars
<1>6. ASSUME NEW j \in Job, Work(j), ~WriteAuth(j), ~WriteOpencode(j), ~WriteOmo(j),
             ~WriteEdit(j), ~Undo(j)
      PROVE  UNCHANGED files
  BY <1>6 DEF Work, Acquire, Decode, Inspect, FindPrimary, ListRows, NextRow, NameRow,
              LoadAuth, FetchModels, LoadOpencode, ReadNames, LoadOmo, StepFails, Commit,
              RemoteDeleted, RemoteFailed, PlanRemoval, LoadEdit, DeleteRow
<1>7. UNCHANGED vars \/ Discard \/ ChangeSettings => UNCHANGED files
  BY DEF Discard, ChangeSettings, vars
<1> QED
  BY <1>2, <1>3, <1>4, <1>5, <1>6, <1>7 DEF Next

\* Edits are made by removals, rollbacks by calls that undo.
LEMMA Takers ==
    ASSUME Inv, NEW j \in Job, WriteEdit(j) \/ Undo(j)
    PROVE  Busy(job[j]) /\ (job[j].op = "remove" \/ job[j].pc = "undo")
  BY CallOf DEF Inv, WriteEdit, Undo, At, Busy, PlaceInv

\* While all names in opencode.json are legible (the run pool_tenth shows what else
\* happens), completions, imports, applies and repairs overwrite no key in auth.json or
\* opencode.json, neither another account's nor the user's own.
THEOREM AddersKeepKeys ==
    ASSUME Overlap # "any"
    PROVE  Spec /\ []Readable => AddersKeep
<1> DEFINE Kept ==
             \A f \in {"auth", "opencode"} : \A n \in Names(files[f]) :
                \/ files'[f].entries[n] = files[f].entries[n]
                \/ \E j \in Job : Busy(job[j]) /\ (job[j].op = "remove" \/ job[j].pc = "undo")
<1>1. Init => Inv /\ FreshInv
  BY PoolInit, FreshInit
<1>2. (Inv /\ FreshInv) /\ [Next]_vars => (Inv /\ FreshInv)'
  BY PoolNext, FreshStep DEF Sound
<1>3. (Inv /\ FreshInv) /\ Readable /\ [Next]_vars => [Kept]_files
  BY KeyStep, Takers
<1>4. Spec /\ []Readable => [][Kept]_files
  BY <1>1, <1>2, <1>3, PTL DEF Spec
<1> QED
  BY <1>4 DEF AddersKeep

\* In a pool from which nothing is removed, keys disappear by rollbacks only: KeysKept.
THEOREM KeysStay ==
    ASSUME Overlap # "any", "remove" \notin Op
    PROVE  Spec /\ []Readable => KeysKept
<1> DEFINE Kept ==
             \A f \in {"auth", "opencode"} : \A n \in Names(files[f]) :
                \/ files'[f].entries[n] = files[f].entries[n]
                \/ \E j \in Job : Entitled(j, files[f].entries[n])
<1>1. Init => Inv /\ FreshInv
  BY PoolInit, FreshInit
<1>2. (Inv /\ FreshInv) /\ [Next]_vars => (Inv /\ FreshInv)'
  BY PoolNext, FreshStep DEF Sound
<1>3. (Inv /\ FreshInv) /\ Readable /\ [Next]_vars => [Kept]_files
  <2> SUFFICES ASSUME Inv, FreshInv, Readable, [Next]_vars PROVE Kept
    OBVIOUS
  <2>1. \A j \in Job : job[j].op # "remove"
    BY CallOf DEF Inv, Call
  <2> QED
    BY <2>1, KeyStep, Takers DEF Entitled
<1>4. Spec /\ []Readable => [][Kept]_files
  BY <1>1, <1>2, <1>3, PTL DEF Spec
<1> QED
  BY <1>4 DEF KeysKept

(***************************************************************************)
(* What a rollback restores                                                *)
(***************************************************************************)
\* Number k is the first write of f.
First(ws, f, k) ==
    k \in DOMAIN ws /\ ws[k].file = f /\ \A i \in DOMAIN ws : ws[i].file = f => k =< i

\* The first write of a file is one of them.
LEMMA FirstWrite ==
    ASSUME NEW ws \in Seq(Result), NEW f, NEW doc, NEW k, First(ws, f, k)
    PROVE  Original(ws, f, doc) = ws[k].before
<1> DEFINE W == {i \in DOMAIN ws : ws[i].file = f}
<1>1. k \in W /\ W \subseteq Nat /\ \A i \in W : k =< i
  BY DEF First
<1>2. Original(ws, f, doc) =
        IF W = {} THEN doc ELSE ws[CHOOSE m \in W : \A i \in W : m =< i].before
  BY DEF Original
<1> HIDE DEF W
<1>3. (CHOOSE m \in W : \A i \in W : m =< i) = k
  <2>1. \A m \in W : (\A i \in W : m =< i) => m = k
    BY <1>1
  <2> QED
    BY <1>1, <2>1
<1> QED
  BY <1>1, <1>2, <1>3

\* A file is as it is, or has a first write.
LEMMA HasFirst ==
    ASSUME NEW ws \in Seq(Result), NEW f, NEW doc
    PROVE  \/ Original(ws, f, doc) = doc /\ \A k \in DOMAIN ws : ws[k].file # f
           \/ \E k \in DOMAIN ws : First(ws, f, k)
<1> DEFINE W == {k \in DOMAIN ws : ws[k].file = f}
<1>1. CASE W = {}
  BY <1>1 DEF Original
<1>2. CASE W # {}
  <2>1. W \in SUBSET Nat /\ IsFiniteSet(W)
    <3>1. DOMAIN ws = 1 .. Len(ws) /\ Len(ws) \in Nat
      OBVIOUS
    <3>2. IsFiniteSet(DOMAIN ws)
      BY <3>1, FS_Interval
    <3> QED
      BY <3>1, <3>2, FS_Subset
  <2>2. PICK k \in W : \A i \in W : k =< i
    BY <1>2, <2>1, LeastExists
  <2> QED
    BY <2>2 DEF First
<1> QED
  BY <1>1, <1>2

\* One more write: what the file was before it is what it was.
LEMMA OriginalAppend ==
    ASSUME NEW ws \in Seq(Result), NEW w \in Result, NEW f, NEW doc
    PROVE  Original(Append(ws, w), f, doc)
             = Original(ws, f, IF w.file = f THEN w.before ELSE doc)
<1> DEFINE vs == Append(ws, w)
           now == IF w.file = f THEN w.before ELSE doc
<1>1. /\ vs \in Seq(Result) /\ DOMAIN vs = DOMAIN ws \cup {Len(ws) + 1}
      /\ DOMAIN ws = 1 .. Len(ws) /\ Len(ws) \in Nat
      /\ vs[Len(ws) + 1] = w /\ \A k \in DOMAIN ws : vs[k] = ws[k]
  OBVIOUS
<1> HIDE DEF vs
<1>2. ASSUME NEW k \in DOMAIN ws, First(ws, f, k)
      PROVE  Original(vs, f, doc) = Original(ws, f, now)
  <2>1. Original(ws, f, now) = ws[k].before
    BY <1>2, FirstWrite
  <2>2. First(vs, f, k)
    BY <1>1, <1>2 DEF First
  <2>3. vs[k] = ws[k]
    BY <1>1
  <2>4. Original(vs, f, doc) = vs[k].before
    BY <1>1, <2>2, FirstWrite
  <2> QED
    BY <2>1, <2>3, <2>4
<1>3. ASSUME Original(ws, f, now) = now, \A k \in DOMAIN ws : ws[k].file # f
      PROVE  Original(vs, f, doc) = now
  <2>1. CASE w.file = f
    <3>1. First(vs, f, Len(ws) + 1)
      BY <1>1, <1>3, <2>1 DEF First
    <3>2. Original(vs, f, doc) = vs[Len(ws) + 1].before
      BY <1>1, <3>1, FirstWrite
    <3> QED
      BY <1>1, <2>1, <3>2
  <2>2. CASE w.file # f
    <3>1. \A k \in DOMAIN vs : vs[k].file # f
      BY <1>1, <1>3, <2>2
    <3>2. Original(vs, f, doc) = doc
      BY <1>1, <3>1, HasFirst DEF First
    <3> QED
      BY <2>2, <3>2
  <2> QED
    BY <2>1, <2>2
<1> HIDE DEF now
<1>4. Original(vs, f, doc) = Original(ws, f, now)
  BY <1>2, <1>3, HasFirst
<1> QED
  BY <1>4 DEF vs, now

\* Without writes a file is as it was.
LEMMA OriginalNone == ASSUME NEW f, NEW doc PROVE Original(<<>>, f, doc) = doc
  BY DEF Original

\* Backups that grow old are of the same documents.
LEMMA OriginalAged ==
    ASSUME Inv, NEW i \in Job, NEW h \in File, NEW f, NEW doc
    PROVE  Original(Aged(h, i), f, doc) = Original(job[i].writes, f, doc)
<1> DEFINE ws == job[i].writes
           vs == Aged(h, i)
<1>1. ws \in Seq(Result) /\ vs \in Seq(Result)
  BY AgedOK, CallOf DEF Inv, Call
<1>2. DOMAIN vs = DOMAIN ws
  BY <1>1 DEF Aged
<1>3. \A k \in DOMAIN ws : vs[k].file = ws[k].file /\ vs[k].before = ws[k].before
  <2> TAKE k \in DOMAIN ws
  <2> DEFINE w == ws[k]
  <2>1. vs[k] = IF w.file = h /\ files[h].exists /\ w.newer < Retention
                  THEN [w EXCEPT !.newer = @ + 1] ELSE w
    BY DEF Aged
  <2>2. w \in Result
    BY <1>1
  <2> HIDE DEF w, vs
  <2>3. vs[k].file = w.file /\ vs[k].before = w.before
    BY <2>1, <2>2 DEF Result
  <2> QED
    BY <2>3 DEF w
<1> HIDE DEF vs, ws
<1>4. ASSUME NEW k \in DOMAIN ws, First(ws, f, k)
      PROVE  Original(vs, f, doc) = Original(ws, f, doc)
  <2>1. First(vs, f, k)
    BY <1>2, <1>3, <1>4 DEF First
  <2>2. Original(ws, f, doc) = ws[k].before
    BY <1>1, <1>4, FirstWrite
  <2>3. Original(vs, f, doc) = vs[k].before
    BY <1>1, <2>1, FirstWrite
  <2> QED
    BY <1>3, <2>2, <2>3
<1>5. ASSUME Original(ws, f, doc) = doc, \A k \in DOMAIN ws : ws[k].file # f
      PROVE  Original(vs, f, doc) = Original(ws, f, doc)
  <2>1. \A k \in DOMAIN vs : vs[k].file # f
    BY <1>2, <1>3, <1>5
  <2>2. Original(vs, f, doc) = doc
    BY <2>1 DEF Original
  <2> QED
    BY <1>5, <2>2
<1>6. Original(vs, f, doc) = Original(ws, f, doc)
  BY <1>1, <1>4, <1>5, HasFirst
<1> QED
  BY <1>6 DEF vs, ws

\* A write leaves what a rollback would restore.
LEMMA WroteOriginal ==
    ASSUME Inv, NEW j \in Job, NEW h \in File, NEW f, NEW doc, f # h => doc = files[f]
    PROVE  Original(Wrote(j, h).writes, f, doc) = Original(job[j].writes, f, files[f])
<1>1. Wrote(j, h).writes = Append(Aged(h, j), ResultOf(h))
  <2> DEFINE k == [job[j] EXCEPT !.writes = Aged(h, j)]
  <2>1. k \in Call /\ k.writes = Aged(h, j)
    BY AgedOK, CallOf DEF Inv, CallInv, Call
  <2>2. Wrote(j, h) = [k EXCEPT !.writes = Append(@, ResultOf(h))]
    BY DEF Wrote
  <2> HIDE DEF k
  <2> QED
    BY <2>1, <2>2 DEF Call
<1>2. Aged(h, j) \in Seq(Result) /\ ResultOf(h) \in Result
  <2>1. Aged(h, j) \in Seq(Result)
    BY AgedOK DEF Inv
  <2>2. ResultOf(h) \in Result
    BY PoolAssumption DEF Inv, WorldInv, ResultOf, Result
  <2> QED
    BY <2>1, <2>2
<1>3. ResultOf(h).file = h /\ ResultOf(h).before = files[h]
  BY DEF ResultOf
<1>4. Original(Append(Aged(h, j), ResultOf(h)), f, doc) = Original(Aged(h, j), f, files[f])
  BY <1>2, <1>3, OriginalAppend
<1> QED
  BY <1>1, <1>4, OriginalAged

\* Undoing the last write leaves what a rollback would restore.
LEMMA UndoneOriginal ==
    ASSUME NEW ws \in Seq(Result), ws # <<>>, NEW f, NEW doc
    PROVE  /\ Front(ws) \in Seq(Result) /\ Last(ws) \in Result
           /\ Original(ws, f, doc)
                = Original(Front(ws), f, IF Last(ws).file = f THEN Last(ws).before ELSE doc)
<1> DEFINE vs == Front(ws)
           w == Last(ws)
<1>1. vs \in Seq(Result) /\ w \in Result
  BY DEF Front, Last
<1>2. ws = Append(vs, w)
  BY DEF Front, Last
<1> HIDE DEF vs, w
<1>3. Original(Append(vs, w), f, doc) = Original(vs, f, IF w.file = f THEN w.before ELSE doc)
  BY <1>1, OriginalAppend
<1> QED
  BY <1>1, <1>2, <1>3 DEF vs, w

(***************************************************************************)
(* Adding keys                                                             *)
(***************************************************************************)
\* One more row.
LEMMA MarksAppend ==
    ASSUME NEW rows \in Seq(Row), NEW r \in Row, NEW a, NEW n
    PROVE  Marks(Append(rows, r), a, n)
             <=> Marks(rows, a, n) \/ (r.account = a /\ r.provider = n /\ r.oc)
<1> DEFINE more == Append(rows, r)
<1>1. /\ DOMAIN more = DOMAIN rows \cup {Len(rows) + 1} /\ more[Len(rows) + 1] = r
      /\ \A k \in DOMAIN rows : more[k] = rows[k]
  OBVIOUS
<1> HIDE DEF more
<1>2. Marks(more, a, n) <=> Marks(rows, a, n) \/ (r.account = a /\ r.provider = n /\ r.oc)
  BY <1>1 DEF Marks
<1> QED
  BY <1>2 DEF more

\* A row that is in the files, if it is marked, goes to those to be committed.
LEMMA ConfiguredLedger ==
    ASSUME NEW g \in Call, g.op \in Locking, g.row \in Row, InHand(g),
           NEW au, NEW oc, NEW rows, Ledger(g, au, oc, rows)
    PROVE  Ledger(Configured(g), au, oc, rows)
<1> DEFINE h == Configured(g)
           more == Append(g.made, g.row)
<1>1. /\ h.op = g.op /\ h.pc = (IF g.op = "complete" THEN "store" ELSE "next")
      /\ h.row = g.row /\ h.todo = g.todo /\ h.reserved = g.reserved /\ h.conf = g.conf
      /\ h.free = g.free /\ h.adds = g.adds /\ h.writes = g.writes /\ h.made = more
  BY DEF Configured, Call
<1>2. g.made \in Seq(Row)
  BY DEF Call
<1>3. /\ DOMAIN more = DOMAIN g.made \cup {Len(g.made) + 1} /\ more[Len(g.made) + 1] = g.row
      /\ \A k \in DOMAIN g.made : more[k] = g.made[k]
      /\ Len(more) = Len(g.made) + 1 /\ Len(g.made) \in Nat /\ DOMAIN g.made = 1 .. Len(g.made)
  BY <1>2
<1>4. g.pc \in {"omo_load", "omo_write"} /\ Forward(g, au, oc, rows)
  BY DEF Ledger, InHand
<1>5. /\ Gained(g, au, oc, rows) /\ Handy(g, au, oc, rows) /\ g.row.oc /\ Configures(g)
  BY <1>4 DEF Forward, Handy, AtFiles
<1>6. \A a, n : Added(h, a, n) <=> Added(g, a, n)
  <2>1. \A a, n : Marks(more, a, n) <=> Marks(g.made, a, n) \/ (g.row.account = a /\ g.row.provider = n)
    BY <1>2, <1>5, MarksAppend
  <2> HIDE DEF h, more
  <2> QED
    BY <1>1, <1>4, <2>1 DEF Added, InHand
<1> HIDE DEF h, more
<1>7. Gained(h, au, oc, rows)
  <2>1. \A k \in DOMAIN h.made :
          /\ h.made[k].oc <=> Configures(h)
          /\ Placed(h.made[k], au)
          /\ h.made[k].provider = Primary /\ ~h.made[k].oc => Primary \notin Names(au)
          /\ Waits(h.made[k]) => Above(h.made[k].provider, oc)
    BY <1>1, <1>3, <1>4, <1>5 DEF Gained, InHand, Configures, Waits
  <2>2. ~InHand(h) /\ h.pc \in {"store", "next"}
    BY <1>1 DEF InHand
  <2>3. \A i \in DOMAIN rows :
          /\ Placed(rows[i], au)
          /\ rows[i].provider = Primary /\ ~rows[i].oc /\ Primary \in Names(au) =>
                h.op = "apply" /\ Added(h, rows[i].account, Primary)
          /\ Waits(rows[i]) => \/ Above(rows[i].provider, oc)
                               \/ \E a \in Account : Added(h, a, rows[i].provider)
    BY <1>1, <1>5, <1>6 DEF Gained
  <2>4. \A a \in Account, n \in Provider :
          Carries(au, oc, a, n) <=> Marks(rows, a, n) \/ Added(h, a, n)
    BY <1>5, <1>6 DEF Gained
  <2>5. Tidy(au, oc)
    BY <1>5 DEF Gained
  <2> QED
    BY <2>1, <2>2, <2>3, <2>4, <2>5 DEF Gained
<1>8. Handy(h, au, oc, rows)
  BY <1>1 DEF Handy, AtFiles
<1>9. h.op = "apply" => Updates(h, rows)
  BY <1>1, <1>3, <1>4 DEF Forward, Updates, AtFiles
<1>10. h.op \in {"complete", "import"} => Enters(h, au, rows)
  BY <1>1, <1>4 DEF Forward, Enters, Several, AtFiles
<1>11. h.op = "complete" => Single(h)
  <2> SUFFICES ASSUME h.op = "complete" PROVE Single(h)
    OBVIOUS
  <2>1. g.made = <<>>
    BY <1>1, <1>4 DEF Forward, Single
  <2>2. Len(more) = 1
    BY <2>1 DEF more
  <2> QED
    BY <1>1, <2>2 DEF Single
<1>12. h.op = "import" => Several(h)
  <2> SUFFICES ASSUME h.op = "import" PROVE Several(h)
    OBVIOUS
  <2>1. Several(g)
    BY <1>1, <1>4 DEF Forward
  <2> QED
    BY <1>1, <1>3, <1>4, <2>1 DEF Several, AtFiles
<1>13. h.pc # "undo" /\ h.op \in Locking
  BY <1>1
<1> QED
  BY <1>1, <1>7, <1>8, <1>9, <1>10, <1>11, <1>12, <1>13 DEF Ledger, Forward, Locking, h

\* The row r may be configured next, in the files in adds.
Fits(g, r, adds, au, oc, rows) ==
    /\ g.op = "apply" => /\ r.oc /\ Has(rows, r)
                         /\ "opencode" \notin adds => Marks(rows, r.account, r.provider)
    /\ g.op # "apply" =>
          /\ r.oc <=> g.conf.opencode
          /\ r.oc <=> "opencode" \in adds
          /\ r.oc <=> adds # {}
          /\ r.provider = Primary => rows = <<>> /\ Primary \notin Names(au)
          /\ Waits(r) => Above(r.provider, oc)
    /\ g.op = "import" =>
          /\ ~g.free /\ r.provider \in (g.reserved \cup {Primary}) \ {Unassigned}
          /\ \A i \in DOMAIN g.todo : r.account # g.todo[i].account
          /\ \A k \in DOMAIN g.made : r.account # g.made[k].account /\ r.provider # g.made[k].provider

\* A call that has a row to configure goes on in balance.
LEMMA ConfigureLedger ==
    ASSUME NEW g \in Call, g.op \in Locking, g.pc \in {"primary", "name", "next"},
           NEW r \in AnyRow, r.account \in Account, r.omo => r.oc,
           NEW adds \in SUBSET {"opencode", "omo"},
           r.provider # Unassigned \/ "opencode" \in adds,
           NEW au, NEW oc, NEW rows,
           Balanced(Original(g.writes, "auth", au), Original(g.writes, "opencode", oc), rows),
           Gained(g, au, oc, rows),
           g.op = "apply" => Updates(g, rows),
           g.op = "complete" => Single(g),
           g.op = "import" => Several(g),
           Fits(g, r, adds, au, oc, rows)
    PROVE  Ledger(Configure(g, r, adds), au, oc, rows)
<1> DEFINE h == [g EXCEPT !.row = r, !.adds = adds]
<1>1. h \in Call /\ h.op = g.op /\ h.pc = g.pc /\ h.row = r /\ h.adds = adds
      /\ h.todo = g.todo /\ h.reserved = g.reserved /\ h.made = g.made /\ h.plan = g.plan
      /\ h.writes = g.writes /\ h.conf = g.conf /\ h.free = g.free
  BY DEF Call
<1>2. g.made \in Seq(Row) /\ ~InHand(g)
  BY DEF Call, InHand
<1> HIDE DEF h
<1>3. r.provider # Unassigned => r \in Row
  BY DEF Row, AnyRow
\* At any of these places h is in balance.
<1>4. ASSUME NEW l \in {"models", "auth_load", "omo_load"}, NEW k \in Call,
             Like(h, k, {}), k.pc = l, r.oc,
             l = "auth_load" <=> r.provider = Primary /\ "opencode" \in adds,
             l = "models" <=> r.provider # Primary /\ adds # {},
             l = "omo_load" => g.op = "apply" /\ "opencode" \notin adds
      PROVE  Ledger(k, au, oc, rows)
  <2>1. /\ k.op = g.op /\ k.row = r /\ k.adds = adds /\ k.todo = g.todo /\ k.reserved = g.reserved
        /\ k.made = g.made /\ k.writes = g.writes /\ k.conf = g.conf /\ k.free = g.free
    BY <1>1, <1>4 DEF Like
  <2>2. Configures(k) /\ Configures(g) /\ k.pc \in AtFiles
    BY <1>4, <2>1 DEF Configures, Fits, AtFiles
  <2>3. InHand(k) => Marks(rows, r.account, r.provider)
    BY <1>4 DEF Fits, InHand
  <2>4. \A a, n : Marks(rows, a, n) \/ Added(k, a, n) <=> Marks(rows, a, n) \/ Added(g, a, n)
    BY <1>2, <2>1, <2>3 DEF Added
  <2>5. \A a, n : Added(g, a, n) => Added(k, a, n)
    BY <1>2, <2>1 DEF Added
  <2>6. InHand(k) => Placed(r, au)
    BY <2>3 DEF Marks, Gained, Placed
  <2>7. Gained(k, au, oc, rows)
    BY <1>4, <2>1, <2>2, <2>4, <2>5, <2>6 DEF Gained, Configures
  <2>8. Handy(k, au, oc, rows)
    <3>1. k.pc \notin {"auth_write", "oc_write", "oc_load"}
      BY <1>4
    <3>2. k.pc = "auth_load" => k.row.provider = Primary
      BY <1>4, <2>1
    <3>3. k.pc = "models" => k.row.provider # Primary
      BY <1>4, <2>1
    <3>4. "opencode" \notin k.adds => Marks(rows, k.row.account, k.row.provider)
      BY <1>4, <2>1 DEF Fits
    <3> QED
      BY <1>4, <2>1, <2>2, <3>1, <3>2, <3>3, <3>4 DEF Handy
  <2>9. k.op = "apply" => Updates(k, rows)
    BY <1>4, <2>1 DEF Updates, Fits
  <2>10. k.op \in {"complete", "import"} => Enters(k, au, rows)
    BY <1>4, <2>1 DEF Enters, Fits
  <2>11. k.op = "complete" => Single(k)
    BY <1>4, <2>1 DEF Single
  <2>12. k.op = "import" => Several(k)
    BY <2>1 DEF Several, Fits
  <2> QED
    BY <1>4, <2>1, <2>7, <2>8, <2>9, <2>10, <2>11, <2>12 DEF Ledger, Forward, Locking
<1>5. CASE r.provider # Primary /\ adds # {}
  <2> DEFINE k == [h EXCEPT !.pc = "models"]
  <2>1. k \in Call /\ k.pc = "models" /\ Like(h, k, {})
    BY <1>1, MovedOK DEF Location, Loading
  <2>2. Configure(g, r, adds) = k
    BY <1>5 DEF Configure, h
  <2>3. r.oc
    BY <1>5 DEF Fits, Locking
  <2> HIDE DEF k
  <2> QED
    BY <1>4, <1>5, <2>1, <2>2, <2>3
<1>6. CASE r.provider = Primary /\ "opencode" \in adds
  <2> DEFINE k == [h EXCEPT !.pc = "auth_load"]
  <2>1. k \in Call /\ k.pc = "auth_load" /\ Like(h, k, {})
    BY <1>1, MovedOK DEF Location, Loading
  <2>2. Configure(g, r, adds) = k
    BY <1>6 DEF Configure, h
  <2>3. r.oc
    BY <1>6 DEF Fits, Locking
  <2> HIDE DEF k
  <2> QED
    BY <1>4, <1>6, <2>1, <2>2, <2>3
<1>7. CASE g.op = "apply" /\ (IF r.provider = Primary THEN "opencode" \notin adds ELSE adds = {})
  <2> DEFINE k == [h EXCEPT !.pc = "omo_load"]
  <2>1. k \in Call /\ k.pc = "omo_load" /\ Like(h, k, {})
    BY <1>1, MovedOK DEF Location, Loading
  <2>2. Configure(g, r, adds) = Configured(h)
    BY <1>7 DEF Configure, h
  <2>3. Configured(h) = Configured(k)
    BY <1>1 DEF Configured, Call
  <2>4. r.oc /\ r.provider # Unassigned
    BY <1>7 DEF Fits
  <2>5. k.op = g.op /\ k.row = r
    BY <1>1, <2>1 DEF Like
  <2> HIDE DEF k
  <2>6. Ledger(k, au, oc, rows)
    BY <1>4, <1>7, <2>1, <2>4
  <2> QED
    BY <1>3, <2>1, <2>2, <2>3, <2>4, <2>5, <2>6, ConfiguredLedger DEF InHand
<1>8. CASE g.op # "apply" /\ (IF r.provider = Primary THEN "opencode" \notin adds ELSE adds = {})
  <2> DEFINE k == Configured(h)
             more == Append(g.made, r)
  <2>1. ~r.oc /\ r.provider # Unassigned /\ adds = {} /\ ~Configures(g)
    BY <1>8 DEF Fits, Configures
  <2>2. /\ k.op = g.op /\ k.pc = (IF g.op = "complete" THEN "store" ELSE "next")
        /\ k.row = r /\ k.todo = g.todo /\ k.reserved = g.reserved /\ k.conf = g.conf
        /\ k.free = g.free /\ k.adds = adds /\ k.writes = g.writes /\ k.made = more
    BY <1>1 DEF Configured, Call
  <2>3. Configure(g, r, adds) = k
    BY <1>8 DEF Configure, h
  <2>4. /\ DOMAIN more = DOMAIN g.made \cup {Len(g.made) + 1} /\ more[Len(g.made) + 1] = r
        /\ \A i \in DOMAIN g.made : more[i] = g.made[i]
        /\ Len(more) = Len(g.made) + 1 /\ Len(g.made) \in Nat /\ DOMAIN g.made = 1 .. Len(g.made)
    BY <1>2, <1>3, <2>1
  <2>5. \A a, n : Marks(more, a, n) <=> Marks(g.made, a, n)
    BY <1>2, <1>3, <2>1, MarksAppend
  <2> HIDE DEF k, more
  <2>6. \A a, n : Added(k, a, n) <=> Added(g, a, n)
    BY <1>2, <2>2, <2>5 DEF Added, InHand
  <2>7. Gained(k, au, oc, rows)
    <3>1. \A i \in DOMAIN k.made :
            /\ k.made[i].oc <=> Configures(k)
            /\ Placed(k.made[i], au)
            /\ k.made[i].provider = Primary /\ ~k.made[i].oc => Primary \notin Names(au)
            /\ Waits(k.made[i]) => Above(k.made[i].provider, oc)
      BY <1>8, <2>1, <2>2, <2>4 DEF Gained, Configures, Fits, Placed
    <3>2. ~InHand(k) /\ k.pc \in {"store", "next"}
      BY <2>2 DEF InHand
    <3> QED
      BY <2>2, <2>6, <3>1, <3>2 DEF Gained
  <2>8. Handy(k, au, oc, rows)
    BY <2>2 DEF Handy, AtFiles
  <2>9. k.op \in {"complete", "import"} => Enters(k, au, rows)
    BY <2>2 DEF Enters, Fits
  <2>10. k.op = "complete" => Single(k)
    <3> SUFFICES ASSUME k.op = "complete" PROVE Single(k)
      OBVIOUS
    <3>1. g.made = <<>>
      BY <2>2 DEF Single
    <3>2. Len(more) = 1
      BY <3>1 DEF more
    <3> QED
      BY <2>2, <3>2 DEF Single
  <2>11. k.op = "import" => Several(k)
    BY <2>2, <2>4 DEF Several, Fits, AtFiles
  <2>12. k.op # "apply" /\ k.pc # "undo" /\ k.op \in Locking
    BY <1>8, <2>2
  <2> QED
    BY <2>2, <2>3, <2>7, <2>8, <2>9, <2>10, <2>11, <2>12 DEF Ledger, Forward, Locking
<1> QED
  BY <1>5, <1>6, <1>7, <1>8

(***************************************************************************)
(* Reading, in balance                                                     *)
(***************************************************************************)
\* A call at work goes on in balance, or ends and leaves the files in balance; the
\* others stay.
Settled(j) ==
    /\ \A i \in Job \ {j} : job'[i] = job[i]
    /\ \/ Busy(job'[j]) /\ Ledger(job'[j], files'["auth"], files'["opencode"], vault')
       \/ job'[j] = Idle /\ Balanced(files'["auth"], files'["opencode"], vault')

\* The call at work is in balance.
InBalance(j) == Busy(job[j]) /\ Ledger(job[j], files["auth"], files["opencode"], vault)

\* A call goes on, with the files as they are.
LEMMA BecomeSettled ==
    ASSUME Inv, NEW j \in Job, NEW h, Become(j, h), UNCHANGED <<files, vault>>, Busy(h),
           Ledger(h, files["auth"], files["opencode"], vault)
    PROVE  Settled(j)
  BY CallOf DEF Inv, Become, Settled

\* A call ends without having written.
LEMMA FinishSettled ==
    ASSUME Inv, NEW j \in Job, InBalance(j), job[j].writes = <<>>, Finish(j),
           UNCHANGED <<files, vault>>
    PROVE  Settled(j)
<1>1. Balanced(files["auth"], files["opencode"], vault)
  BY OriginalNone DEF InBalance, Ledger
<1> QED
  BY <1>1, CallOf DEF Inv, Finish, Become, Settled

\* A call fails: what it has written is yet to be undone.
LEMMA FailSettled ==
    ASSUME Inv, NEW j \in Job, InBalance(j), Fail(j, job[j]), UNCHANGED <<files, vault>>
    PROVE  Settled(j)
<1>1. CASE job[j].writes = <<>>
  BY <1>1, FinishSettled DEF Fail
<1>2. CASE job[j].writes # <<>>
  <2> DEFINE h == [job[j] EXCEPT !.pc = "undo"]
  <2>1. h.pc = "undo" /\ h.writes = job[j].writes
    BY CallOf DEF Inv, Call
  <2>2. Become(j, h)
    BY <1>2 DEF Fail
  <2> HIDE DEF h
  <2>3. Ledger(h, files["auth"], files["opencode"], vault) /\ Busy(h)
    BY <2>1 DEF Ledger, InBalance, Busy
  <2> QED
    BY <2>2, <2>3, BecomeSettled
<1> QED
  BY <1>1, <1>2

\* What a completion, import or application relies on.
LEMMA LockingLedger ==
    ASSUME NEW g, NEW au, NEW oc, NEW rows, Ledger(g, au, oc, rows), g.op \in Locking,
           g.pc # "undo"
    PROVE  /\ Balanced(Original(g.writes, "auth", au), Original(g.writes, "opencode", oc), rows)
           /\ Gained(g, au, oc, rows) /\ Handy(g, au, oc, rows)
           /\ g.op = "apply" => Updates(g, rows)
           /\ g.op # "apply" => Enters(g, au, rows)
           /\ g.op = "complete" => Single(g)
           /\ g.op = "import" => Several(g)
  BY DEF Ledger, Forward, Locking

\* Away from the files, a call with the same rows to commit is in balance like before.
LEMMA StillGained ==
    ASSUME NEW g, NEW h, NEW au, NEW oc, NEW rows, Gained(g, au, oc, rows),
           ~InHand(g), ~InHand(h), h.made = g.made, h.op = g.op, h.conf = g.conf \/ g.made = <<>>,
           h.pc \in {"decode", "inspect", "primary", "list"} => h.made = <<>> /\ h.writes = <<>>
    PROVE  Gained(h, au, oc, rows)
<1>1. \A a, n : Added(h, a, n) <=> Added(g, a, n)
  BY DEF Added
<1>2. \A k \in DOMAIN h.made : g.made # <<>>
  OBVIOUS
<1>3. \A k \in DOMAIN h.made : Configures(h) <=> Configures(g)
  BY <1>2 DEF Configures
<1> QED
  BY <1>1, <1>3 DEF Gained

\* The rows of a bundle, before any of them is looked at.
LEMMA DecodeSettled ==
    ASSUME Inv, NEW j \in Job, InBalance(j), Decode(j)
    PROVE  Settled(j)
<1> DEFINE g == job[j]
           au == files["auth"]
           oc == files["opencode"]
<1>1. g \in Call /\ g.pc = "decode" /\ g.op = "import" /\ UNCHANGED <<files, vault>>
        /\ Ledger(g, au, oc, vault)
  BY CallOf DEF Inv, Decode, At, PlaceInv, InBalance, book
<1>2. /\ Balanced(Original(g.writes, "auth", au), Original(g.writes, "opencode", oc), vault)
      /\ Gained(g, au, oc, vault) /\ Several(g)
  BY <1>1, LockingLedger DEF Locking
<1>3. g.made = <<>> /\ g.writes = <<>>
  BY <1>1, <1>2 DEF Gained
<1>4. CASE Finish(j)
  BY <1>1, <1>3, <1>4, FinishSettled
<1>5. ASSUME NEW S \in SUBSET (outside \cup pending \cup Accounts(vault)) \ {{}},
             NEW s \in SetToSeqs(S),
             Become(j, [job[j] EXCEPT
                         !.todo = [i \in DOMAIN s |-> [NoRow EXCEPT !.account = s[i]]],
                         !.pc = "inspect"])
      PROVE  Settled(j)
  <2> DEFINE todo == [i \in DOMAIN s |-> [NoRow EXCEPT !.account = s[i]]]
             h == [g EXCEPT !.todo = todo, !.pc = "inspect"]
  <2>1. /\ h.op = "import" /\ h.pc = "inspect" /\ h.todo = todo /\ h.made = <<>>
        /\ h.writes = g.writes /\ h.conf = g.conf
    BY <1>1, <1>3 DEF Call
  <2>2. \A i, k \in DOMAIN todo : i # k => todo[i].account # todo[k].account
    <3>1. DOMAIN todo = DOMAIN s /\ \A i \in DOMAIN s : todo[i].account = s[i]
      BY DEF NoRow
    <3>2. \A i, k \in DOMAIN s : i # k => s[i] # s[k]
      BY <1>5 DEF SetToSeqs
    <3> QED
      BY <3>1, <3>2
  <2> HIDE DEF todo
  <2>3. Become(j, h)
    BY <1>5 DEF todo
  <2> HIDE DEF h
  <2>4. Gained(h, au, oc, vault)
    BY <1>1, <1>2, <1>3, <2>1, StillGained DEF InHand
  <2>5. Several(h) /\ Handy(h, au, oc, vault) /\ Enters(h, au, vault)
    BY <2>1, <2>2 DEF Several, Handy, Enters, AtFiles
  <2>6. Ledger(h, au, oc, vault) /\ Busy(h)
    BY <1>2, <2>1, <2>4, <2>5 DEF Ledger, Forward, Locking, Busy
  <2> QED
    BY <1>1, <2>3, <2>6, BecomeSettled
<1> QED
  BY <1>4, <1>5 DEF Decode

\* What is read of the settings and of the vault.
LEMMA InspectSettled ==
    ASSUME Inv, NEW j \in Job, InBalance(j), Inspect(j)
    PROVE  Settled(j)
<1> DEFINE g == job[j]
           au == files["auth"]
           oc == files["opencode"]
           l == IF g.op = "apply" THEN "list" ELSE "primary"
           h == [g EXCEPT !.conf = settings, !.free = (vault = <<>>), !.pc = l]
<1>1. g \in Call /\ g.pc = "inspect" /\ g.op \in Locking /\ UNCHANGED <<files, vault>>
        /\ Ledger(g, au, oc, vault)
  BY CallOf DEF Inv, Inspect, At, PlaceInv, InBalance, book
<1>2. /\ Balanced(Original(g.writes, "auth", au), Original(g.writes, "opencode", oc), vault)
      /\ Gained(g, au, oc, vault)
      /\ g.op = "apply" => Updates(g, vault)
      /\ g.op = "complete" => Single(g)
      /\ g.op = "import" => Several(g)
  BY <1>1, LockingLedger
<1>3. g.made = <<>> /\ g.writes = <<>>
  BY <1>1, <1>2 DEF Gained
<1>4. /\ h.op = g.op /\ h.pc = l /\ h.free = (vault = <<>>) /\ h.todo = g.todo /\ h.made = <<>>
      /\ h.writes = g.writes /\ h.reserved = g.reserved /\ h.row = g.row
  BY <1>1, <1>3 DEF Call
<1>5. Become(j, h)
  BY DEF Inspect
<1> HIDE DEF h
<1>6. Gained(h, au, oc, vault)
  BY <1>1, <1>2, <1>3, <1>4, StillGained DEF InHand
<1>7. /\ Handy(h, au, oc, vault)
      /\ h.op = "apply" => Updates(h, vault)
      /\ h.op # "apply" => Enters(h, au, vault)
      /\ h.op = "complete" => Single(h)
      /\ h.op = "import" => Several(h)
  <2>1. Handy(h, au, oc, vault)
    BY <1>4 DEF Handy, AtFiles
  <2>2. h.op = "apply" => Updates(h, vault)
    BY <1>1, <1>2, <1>3, <1>4 DEF Updates, AtFiles
  <2>3. h.op # "apply" => Enters(h, au, vault)
    BY <1>4 DEF Enters
  <2> QED
    BY <1>1, <1>2, <1>3, <1>4, <2>1, <2>2, <2>3 DEF Single, Several, AtFiles
<1>8. Ledger(h, au, oc, vault) /\ Busy(h)
  BY <1>1, <1>2, <1>4, <1>6, <1>7 DEF Ledger, Forward, Locking, Busy
<1> QED
  BY <1>1, <1>5, <1>8, BecomeSettled

\* The files a row goes to are those that the switches name.
LEMMA FlaggedFits ==
    ASSUME NEW g \in Call, g.op \in {"complete", "import"}, NEW n \in Nat,
           NEW au, NEW oc, NEW rows,
           n = Primary => rows = <<>> /\ Primary \notin Names(au),
           n # Primary /\ ~g.conf.opencode => Above(n, oc),
           g.op = "import" =>
              /\ ~g.free /\ n \in (g.reserved \cup {Primary}) \ {Unassigned}
              /\ \A i \in DOMAIN g.todo : g.row.account # g.todo[i].account
              /\ \A k \in DOMAIN g.made : g.row.account # g.made[k].account
                                          /\ n # g.made[k].provider
    PROVE  Fits(g, Flagged(g, n), FilesOf(g.conf), au, oc, rows)
<1> DEFINE r == Flagged(g, n)
           adds == FilesOf(g.conf)
<1>1. r.provider = n /\ r.oc = g.conf.opencode /\ r.account = g.row.account
  BY DEF Flagged, Call, AnyRow
<1>2. g.conf.opencode \in BOOLEAN /\ (g.conf.opencode <=> "opencode" \in adds)
        /\ (g.conf.opencode <=> adds # {})
  BY DEF Call, Settings, FilesOf
<1> HIDE DEF r, adds
<1>3. Fits(g, r, adds, au, oc, rows)
  BY <1>1, <1>2 DEF Fits, Waits
<1> QED
  BY <1>3 DEF r, adds

\* Who is the primary account, and where a completion goes from there.
LEMMA FindPrimarySettled ==
    ASSUME Inv, NEW j \in Job, InBalance(j), FindPrimary(j)
    PROVE  Settled(j)
<1> DEFINE au == files["auth"]
           oc == files["opencode"]
           g == [job[j] EXCEPT !.free = @ /\ Primary \notin Names(files["auth"])]
           k == [g EXCEPT !.pc = "list"]
<1>1. job[j] \in Call /\ RowInv(job[j]) /\ job[j].pc = "primary" /\ job[j].op \in Locking
        /\ UNCHANGED <<files, vault>> /\ Ledger(job[j], au, oc, vault)
  BY CallOf DEF Inv, FindPrimary, At, PlaceInv, InBalance, book
<1>2. /\ Balanced(Original(job[j].writes, "auth", au), Original(job[j].writes, "opencode", oc), vault)
      /\ Gained(job[j], au, oc, vault)
      /\ job[j].op = "apply" => Updates(job[j], vault)
      /\ job[j].op # "apply" => Enters(job[j], au, vault)
      /\ job[j].op = "complete" => Single(job[j])
      /\ job[j].op = "import" => Several(job[j])
  BY <1>1, LockingLedger
<1>3. job[j].made = <<>> /\ job[j].writes = <<>>
  BY <1>1, <1>2 DEF Gained
<1>4. /\ g \in Call /\ g.op = job[j].op /\ g.pc = "primary" /\ g.row = job[j].row
      /\ g.todo = job[j].todo /\ g.made = <<>> /\ g.writes = <<>> /\ g.conf = job[j].conf
      /\ g.reserved = job[j].reserved
      /\ g.free <=> job[j].free /\ Primary \notin Names(au)
  BY <1>1, <1>3 DEF Call
<1> HIDE DEF g
<1>5. /\ Gained(g, au, oc, vault)
      /\ g.op = "apply" => Updates(g, vault)
      /\ g.op # "apply" /\ g.free => vault = <<>> /\ Primary \notin Names(au)
      /\ g.op = "complete" => Single(g)
      /\ g.op = "import" => Several(g)
  <2>1. Gained(g, au, oc, vault)
    BY <1>1, <1>2, <1>3, <1>4, StillGained DEF InHand
  <2> QED
    BY <1>1, <1>2, <1>3, <1>4, <2>1 DEF Updates, Enters, Single, Several, AtFiles
<1>6. Balanced(Original(g.writes, "auth", au), Original(g.writes, "opencode", oc), vault)
  BY <1>2, <1>3, <1>4
<1>7. ASSUME g.op = "complete", NEW n \in {Primary, Unassigned},
             n = Primary => g.free, n = Unassigned => g.conf.opencode,
             Become(j, Configure(g, Flagged(g, n), FilesOf(g.conf)))
      PROVE  Settled(j)
  <2> DEFINE r == Flagged(g, n)
             adds == FilesOf(g.conf)
  <2>1. g.row.account \in Account /\ n \in Nat
    BY <1>1, <1>4, <1>7 DEF RowInv
  <2>2. /\ r \in AnyRow /\ r.account \in Account /\ (r.omo => r.oc)
        /\ adds \in SUBSET {"opencode", "omo"}
        /\ r.provider # Unassigned \/ "opencode" \in adds
    BY <1>4, <1>7, <2>1, FlaggedOK
  <2>3. Fits(g, r, adds, au, oc, vault)
    BY <1>4, <1>5, <1>7, <2>1, FlaggedFits
  <2> HIDE DEF r, adds
  <2>4. Ledger(Configure(g, r, adds), au, oc, vault)
    BY <1>1, <1>4, <1>5, <1>6, <2>2, <2>3, ConfigureLedger
  <2>5. Configure(g, r, adds).pc \in {"store", "next", "models", "auth_load"}
    BY <1>1, <1>4, <2>2 DEF Configure, Configured, Call
  <2>6. Busy(Configure(g, r, adds))
    BY <2>5 DEF Busy
  <2> QED
    BY <1>1, <1>7, <2>4, <2>6, BecomeSettled DEF r, adds
<1>8. CASE Become(j, k)
  <2>1. /\ k.op = g.op /\ k.pc = "list" /\ k.free = g.free /\ k.todo = g.todo /\ k.made = <<>>
        /\ k.writes = <<>> /\ k.reserved = g.reserved /\ k.row = g.row /\ k.conf = g.conf
    BY <1>4 DEF Call
  <2> HIDE DEF k
  <2>2. Gained(k, au, oc, vault)
    BY <1>4, <1>5, <2>1, StillGained DEF InHand
  <2>3. /\ Handy(k, au, oc, vault)
        /\ k.op = "apply" => Updates(k, vault)
        /\ k.op # "apply" => Enters(k, au, vault)
        /\ k.op = "complete" => Single(k)
        /\ k.op = "import" => Several(k)
    BY <1>4, <1>5, <2>1 DEF Handy, Updates, Enters, Single, Several, AtFiles
  <2>4. Ledger(k, au, oc, vault) /\ Busy(k)
    BY <1>1, <1>4, <1>6, <2>1, <2>2, <2>3 DEF Ledger, Forward, Locking, Busy
  <2> QED
    BY <1>1, <1>8, <2>4, BecomeSettled
<1>9. \/ g.op = "complete" /\ g.free
         /\ Become(j, Configure(g, Flagged(g, Primary), FilesOf(g.conf)))
      \/ g.op = "complete" /\ g.conf.opencode
         /\ Become(j, Configure(g, Flagged(g, Unassigned), FilesOf(g.conf)))
      \/ Become(j, k)
  BY DEF FindPrimary, g
<1> QED
  BY <1>7, <1>8, <1>9

\* The rows of the vault, read once.
LEMMA ListRowsSettled ==
    ASSUME Inv, NEW j \in Job, InBalance(j), ListRows(j)
    PROVE  Settled(j)
<1> DEFINE g == job[j]
           au == files["auth"]
           oc == files["opencode"]
           reserved == IF g.op = "apply" THEN {} ELSE Providers(vault)
           todo == IF g.op = "apply" THEN vault ELSE g.todo
           l == IF g.op = "complete" THEN "name" ELSE "next"
           h == [g EXCEPT !.reserved = reserved, !.todo = todo, !.pc = l]
<1>1. g \in Call /\ g.pc = "list" /\ g.op \in Locking /\ UNCHANGED <<files, vault>>
        /\ Ledger(g, au, oc, vault)
  BY CallOf DEF Inv, ListRows, At, PlaceInv, InBalance, book
<1>2. /\ Balanced(Original(g.writes, "auth", au), Original(g.writes, "opencode", oc), vault)
      /\ Gained(g, au, oc, vault)
      /\ g.op = "apply" => Updates(g, vault)
      /\ g.op # "apply" => Enters(g, au, vault)
      /\ g.op = "complete" => Single(g)
      /\ g.op = "import" => Several(g)
  BY <1>1, LockingLedger
<1>3. g.made = <<>>
  BY <1>1, <1>2 DEF Gained
<1>4. /\ h.op = g.op /\ h.pc = l /\ h.free = g.free /\ h.todo = todo /\ h.made = <<>>
      /\ h.writes = g.writes /\ h.reserved = reserved /\ h.row = g.row /\ h.conf = g.conf
  BY <1>1, <1>3 DEF Call
<1>5. Become(j, h)
  BY DEF ListRows
<1> HIDE DEF h
<1>6. Gained(h, au, oc, vault)
  BY <1>1, <1>2, <1>3, <1>4, StillGained DEF InHand
<1>7. /\ Handy(h, au, oc, vault)
      /\ h.op = "apply" => Updates(h, vault)
      /\ h.op # "apply" => Enters(h, au, vault)
      /\ h.op = "complete" => Single(h)
      /\ h.op = "import" => Several(h)
  BY <1>1, <1>2, <1>3, <1>4 DEF Handy, Updates, Enters, Single, Several, AtFiles
<1>8. Ledger(h, au, oc, vault) /\ Busy(h)
  BY <1>1, <1>2, <1>4, <1>6, <1>7 DEF Ledger, Forward, Locking, Busy
<1> QED
  BY <1>1, <1>5, <1>8, BecomeSettled

\* The head of the loop of an import.
LEMMA NextImportedLedger ==
    ASSUME NEW g \in Call, g.op = "import", g.pc = "next", RowInv(g), g.todo # <<>>,
           NEW au, NEW oc, NEW rows, Ledger(g, au, oc, rows)
    PROVE  Ledger(NextImported(g), au, oc, rows) /\ Busy(NextImported(g))
<1> DEFINE h == [g EXCEPT !.todo = Tail(@), !.row = Head(g.todo), !.free = FALSE]
           k == [h EXCEPT !.pc = "name"]
<1>1. /\ g.todo \in Seq(AnyRow) /\ Head(g.todo) \in AnyRow /\ Head(g.todo).account \in Account
      /\ Tail(g.todo) \in Seq(AnyRow)
  BY DEF Call, RowInv
<1>2. /\ h \in Call /\ h.pc = "next" /\ h.op = "import" /\ h.row = Head(g.todo) /\ ~h.free
      /\ h.todo = Tail(g.todo) /\ h.reserved = g.reserved /\ h.conf = g.conf
      /\ h.made = g.made /\ h.writes = g.writes
  BY <1>1 DEF Call
<1>3. /\ Balanced(Original(g.writes, "auth", au), Original(g.writes, "opencode", oc), rows)
      /\ Gained(g, au, oc, rows) /\ Enters(g, au, rows) /\ Several(g)
  BY LockingLedger DEF Locking
<1>4. /\ Head(g.todo) = g.todo[1] /\ 1 \in DOMAIN g.todo
      /\ \A i \in DOMAIN Tail(g.todo) : /\ Tail(g.todo)[i] = g.todo[i + 1]
                                        /\ i + 1 \in DOMAIN g.todo /\ i + 1 # 1
      /\ \A i, m \in DOMAIN Tail(g.todo) : i # m => i + 1 # m + 1
  BY <1>1
<1> HIDE DEF h
<1>5. Gained(h, au, oc, rows)
  BY <1>2, <1>3, StillGained DEF InHand
<1>6. /\ \A i \in DOMAIN h.todo : h.row.account # h.todo[i].account
      /\ \A m \in DOMAIN h.made : h.row.account # h.made[m].account
      /\ Several(h)
  <2>1. \A i \in DOMAIN h.todo : h.row.account # h.todo[i].account
    BY <1>2, <1>3, <1>4 DEF Several
  <2>2. \A m \in DOMAIN h.made : h.row.account # h.made[m].account
    BY <1>2, <1>3, <1>4 DEF Several
  <2>3. \A i, m \in DOMAIN h.todo : i # m => h.todo[i].account # h.todo[m].account
    BY <1>2, <1>3, <1>4 DEF Several
  <2>4. \A m \in DOMAIN h.made : \A i \in DOMAIN h.todo : h.made[m].account # h.todo[i].account
    BY <1>2, <1>3, <1>4 DEF Several
  <2>5. Several(h)
    BY <1>2, <1>3, <2>3, <2>4 DEF Several, AtFiles
  <2> QED
    BY <2>1, <2>2, <2>5
<1>7. CASE g.free
  <2> DEFINE r == Flagged(h, Primary)
             adds == FilesOf(g.conf)
  <2>1. rows = <<>> /\ h.made = <<>> /\ Primary \notin Names(au)
    BY <1>2, <1>3, <1>7 DEF Enters
  <2>2. h.row.account \in Account /\ Primary \in Nat /\ Primary # Unassigned
    BY <1>1, <1>2
  <2>3. /\ r \in AnyRow /\ r.account \in Account /\ (r.omo => r.oc)
        /\ adds \in SUBSET {"opencode", "omo"} /\ r.provider # Unassigned
    <3> HIDE DEF Primary
    <3> QED
      BY <1>2, <2>2, FlaggedOK
  <2>4. Fits(h, r, FilesOf(h.conf), au, oc, rows)
    <3>1. \A m \in DOMAIN h.made : Primary # h.made[m].provider
      BY <2>1
    <3>2. Primary \in (h.reserved \cup {Primary}) \ {Unassigned}
      BY <2>2
    <3> HIDE DEF Primary
    <3> QED
      BY <1>2, <1>6, <2>1, <2>2, <3>1, <3>2, FlaggedFits
  <2>5. NextImported(g) = Configure(h, r, adds)
    BY <1>7 DEF NextImported, h
  <2> HIDE DEF r, adds
  <2>6. Ledger(Configure(h, r, adds), au, oc, rows)
    BY <1>2, <1>3, <1>5, <1>6, <2>3, <2>4, ConfigureLedger DEF Locking, adds
  <2>7. Configure(h, r, adds).pc \in {"store", "next", "models", "auth_load"}
    BY <1>2, <2>3 DEF Configure, Configured, Call
  <2> QED
    BY <2>5, <2>6, <2>7 DEF Busy
<1>8. CASE ~g.free
  <2>1. /\ k.op = "import" /\ k.pc = "name" /\ ~k.free /\ k.todo = h.todo /\ k.made = h.made
        /\ k.writes = g.writes /\ k.reserved = h.reserved /\ k.row = h.row /\ k.conf = h.conf
    BY <1>2 DEF Call
  <2>2. NextImported(g) = k
    BY <1>8 DEF NextImported, h
  <2> HIDE DEF k
  <2>3. Gained(k, au, oc, rows)
    BY <1>2, <1>5, <2>1, StillGained DEF InHand
  <2>4. Handy(k, au, oc, rows) /\ Enters(k, au, rows) /\ Several(k)
    BY <1>6, <2>1 DEF Handy, Enters, Several, AtFiles
  <2> QED
    BY <1>3, <2>1, <2>2, <2>3, <2>4 DEF Ledger, Forward, Locking, Busy
<1> QED
  BY <1>7, <1>8

\* The head of the loop of an application.
LEMMA NextAppliedLedger ==
    ASSUME NEW g \in Call, g.op = "apply", g.pc = "next", RowInv(g), g.todo # <<>>,
           NEW au, NEW oc, NEW rows, Ledger(g, au, oc, rows)
    PROVE  Ledger(NextApplied(g), au, oc, rows) /\ Busy(NextApplied(g))
<1> DEFINE h == [g EXCEPT !.todo = Tail(@)]
           r == Head(g.todo)
           missing == {f \in FilesOf(g.conf) : IF f = "omo" THEN ~r.omo ELSE ~r.oc}
           q == [r EXCEPT !.oc = @ \/ "opencode" \in missing, !.omo = @ \/ "omo" \in missing]
<1>1. /\ g.todo \in Seq(Row) /\ r \in Row /\ Tail(g.todo) \in Seq(Row)
      /\ Tail(g.todo) \in Seq(AnyRow)
  BY RowsOf DEF RowInv
<1>2. /\ h \in Call /\ h.pc = "next" /\ h.op = "apply" /\ h.row = g.row
      /\ h.todo = Tail(g.todo) /\ h.reserved = g.reserved /\ h.conf = g.conf
      /\ h.made = g.made /\ h.writes = g.writes
  BY <1>1 DEF Call
<1>3. /\ q \in AnyRow /\ q.account = r.account /\ q.provider = r.provider
      /\ q.account \in Account /\ q.provider # Unassigned
      /\ q.oc = (r.oc \/ "opencode" \in missing) /\ q.omo = (r.omo \/ "omo" \in missing)
  BY <1>1 DEF Row, AnyRow
<1>4. q.omo => q.oc
  BY <1>1, <1>3 DEF Row, FilesOf
<1>5. /\ missing \in SUBSET {"opencode", "omo"}
      /\ "opencode" \notin missing /\ missing # {} => r.oc
  BY DEF FilesOf
<1>6. NextApplied(g) = IF missing = {} THEN h ELSE Configure(h, q, missing)
  BY DEF NextApplied
<1>7. /\ Balanced(Original(g.writes, "auth", au), Original(g.writes, "opencode", oc), rows)
      /\ Gained(g, au, oc, rows) /\ Updates(g, rows)
  BY LockingLedger DEF Locking
<1>8. /\ r = g.todo[1] /\ 1 \in DOMAIN g.todo
      /\ \A i \in DOMAIN Tail(g.todo) : Tail(g.todo)[i] = g.todo[i + 1] /\ i + 1 \in DOMAIN g.todo
  BY <1>1
<1> HIDE DEF h, q, missing, r
<1>9. Gained(h, au, oc, rows)
  BY <1>2, <1>7, StillGained DEF InHand
<1>10. Updates(h, rows)
  BY <1>2, <1>7, <1>8 DEF Updates, AtFiles
<1>11. CASE missing = {}
  <2>1. Handy(h, au, oc, rows)
    BY <1>2 DEF Handy, AtFiles
  <2> QED
    BY <1>2, <1>6, <1>7, <1>9, <1>10, <1>11, <2>1 DEF Ledger, Forward, Locking, Busy
<1>12. CASE missing # {}
  <2>1. PICK i \in DOMAIN rows : rows[i] = r
    BY <1>7, <1>8 DEF Updates
  <2>2. q.oc /\ Has(rows, q) /\ ("opencode" \notin missing => Marks(rows, q.account, q.provider))
    BY <1>3, <1>5, <1>12, <2>1 DEF Has, Marks
  <2>3. Fits(h, q, missing, au, oc, rows)
    BY <1>2, <2>2 DEF Fits
  <2>4. Ledger(Configure(h, q, missing), au, oc, rows)
    BY <1>2, <1>3, <1>4, <1>5, <1>7, <1>9, <1>10, <2>3, ConfigureLedger DEF Locking
  <2>5. Configure(h, q, missing).pc \in {"store", "next", "models", "auth_load"}
    BY <1>2, <1>3, <1>5 DEF Configure, Configured, Call
  <2> QED
    BY <1>6, <1>12, <2>4, <2>5 DEF Busy
<1> QED
  BY <1>11, <1>12

\* The head of the loops of import and apply.
LEMMA NextRowSettled ==
    ASSUME Inv, NEW j \in Job, InBalance(j), NextRow(j)
    PROVE  Settled(j)
<1> DEFINE g == job[j]
           au == files["auth"]
           oc == files["opencode"]
           k == [g EXCEPT !.pc = "store"]
<1>1. g \in Call /\ RowInv(g) /\ g.pc = "next" /\ g.op \in {"import", "apply"}
        /\ UNCHANGED <<files, vault>> /\ Ledger(g, au, oc, vault)
  BY CallOf DEF Inv, NextRow, At, PlaceInv, InBalance, book
<1>2. CASE g.todo = <<>>
  <2>1. /\ k.op = g.op /\ k.pc = "store" /\ k.free = g.free /\ k.todo = g.todo
        /\ k.made = g.made /\ k.writes = g.writes /\ k.reserved = g.reserved /\ k.row = g.row
        /\ k.conf = g.conf
    BY <1>1 DEF Call
  <2>2. Become(j, k)
    BY <1>2 DEF NextRow
  <2> HIDE DEF k
  <2>3. /\ Balanced(Original(g.writes, "auth", au), Original(g.writes, "opencode", oc), vault)
        /\ Gained(g, au, oc, vault)
        /\ g.op = "apply" => Updates(g, vault)
        /\ g.op # "apply" => Enters(g, au, vault)
        /\ g.op = "import" => Several(g)
    BY <1>1, LockingLedger DEF Locking
  <2>4. Gained(k, au, oc, vault)
    BY <1>1, <2>1, <2>3, StillGained DEF InHand
  <2>5. /\ Handy(k, au, oc, vault)
        /\ k.op = "apply" => Updates(k, vault)
        /\ k.op # "apply" => Enters(k, au, vault)
        /\ k.op = "import" => Several(k)
    BY <1>1, <2>1, <2>3 DEF Handy, Updates, Enters, Several, AtFiles
  <2>6. Ledger(k, au, oc, vault) /\ Busy(k)
    BY <1>1, <2>1, <2>3, <2>4, <2>5 DEF Ledger, Forward, Locking, Busy
  <2> QED
    BY <1>1, <2>2, <2>6, BecomeSettled
<1>3. CASE g.todo # <<>> /\ g.op = "import"
  <2>1. Become(j, NextImported(g))
    BY <1>3 DEF NextRow
  <2> QED
    BY <1>1, <1>3, <2>1, NextImportedLedger, BecomeSettled
<1>4. CASE g.todo # <<>> /\ g.op = "apply"
  <2>1. Become(j, NextApplied(g))
    BY <1>4 DEF NextRow
  <2> QED
    BY <1>1, <1>4, <2>1, NextAppliedLedger, BecomeSettled
<1> QED
  BY <1>1, <1>2, <1>3, <1>4

\* The number chosen is above all that the file and the vault have.
LEMMA NameRowSettled ==
    ASSUME Inv, NEW j \in Job, InBalance(j), NameRow(j)
    PROVE  Settled(j)
<1> DEFINE g == job[j]
           au == files["auth"]
           oc == files["opencode"]
           n == NameFor(g, Names(files["opencode"]))
           N == Names(files["opencode"]) \cup g.reserved
           k == [g EXCEPT !.reserved = @ \cup {n}]
           r == Flagged(g, n)
           adds == FilesOf(g.conf)
           h == Configure(k, r, adds)
<1>1. g \in Call /\ RowInv(g) /\ PlaceInv(g) /\ g.pc = "name" /\ g.op \in Locking
        /\ UNCHANGED <<files, vault>> /\ Ledger(g, au, oc, vault)
  BY CallOf DEF Inv, NameRow, At, PlaceInv, InBalance, book
<1>2. /\ n \in Nat /\ n > Primary
      /\ \A m \in N : Legible(m) => m < n
  <2>1. N \in SUBSET Nat /\ IsFiniteSet(N)
    BY <1>1, NamesFinite, FS_Union DEF Call, PlaceInv
  <2>2. n = NextNumber(N)
    BY DEF NameFor
  <2> HIDE DEF N
  <2> QED
    BY <2>1, <2>2, Fresh
<1> HIDE DEF n
<1>3. /\ Balanced(Original(g.writes, "auth", au), Original(g.writes, "opencode", oc), vault)
      /\ Gained(g, au, oc, vault)
      /\ g.op = "apply" => Updates(g, vault)
      /\ g.op = "complete" => Single(g)
      /\ g.op = "import" => Several(g)
  BY <1>1, LockingLedger
<1>4. /\ k \in Call /\ k.pc = "name" /\ k.op = g.op /\ k.row = g.row /\ k.todo = g.todo
      /\ k.reserved = g.reserved \cup {n} /\ k.conf = g.conf /\ k.made = g.made
      /\ k.writes = g.writes /\ k.free = g.free
  BY <1>1, <1>2 DEF Call
<1> HIDE DEF k
<1>5. /\ Gained(k, au, oc, vault)
      /\ k.op = "apply" => Updates(k, vault)
      /\ k.op = "complete" => Single(k)
      /\ k.op = "import" => Several(k)
  <2>1. Gained(k, au, oc, vault)
    BY <1>1, <1>3, <1>4, StillGained DEF InHand
  <2> QED
    BY <1>1, <1>3, <1>4, <2>1 DEF Updates, Single, Several, AtFiles
<1>6. /\ r \in AnyRow /\ r.account \in Account /\ (r.omo => r.oc) /\ r.provider # Unassigned
      /\ adds \in SUBSET {"opencode", "omo"}
  <2>1. g.row.account \in Account
    BY <1>1 DEF RowInv
  <2>2. n # Unassigned
    BY <1>2
  <2> QED
    BY <1>1, <1>2, <2>1, <2>2, FlaggedOK
<1>7. CASE Fail(j, g)
  BY <1>1, <1>7, FailSettled
<1>8. ASSUME \A m \in g.reserved \ {Primary} : Legible(m), Become(j, h), g.op # "apply"
      PROVE  Settled(j)
  <2>1. r = Flagged(k, n) /\ adds = FilesOf(k.conf)
    BY <1>4 DEF Flagged
  <2>2. Above(n, oc)
    BY <1>2 DEF Above
  <2>3. ASSUME g.op = "import", NEW i \in DOMAIN k.made
        PROVE  n # k.made[i].provider
    <3> DEFINE m == g.made[i].provider
    <3>1. m \in g.reserved \cup {Primary}
      BY <1>3, <1>4, <2>3 DEF Several
    <3>2. m \in g.reserved \ {Primary} => m \in N /\ Legible(m)
      BY <1>8
    <3>3. m = Primary \/ m < n
      BY <1>2, <3>1, <3>2
    <3>4. n # m
      BY <1>2, <3>3
    <3> QED
      BY <1>4, <3>4
  <2>4. Fits(k, r, adds, au, oc, vault)
    <3>1. g.op = "import" =>
              /\ ~k.free /\ n \in (k.reserved \cup {Primary}) \ {Unassigned}
              /\ \A i \in DOMAIN k.todo : k.row.account # k.todo[i].account
              /\ \A i \in DOMAIN k.made : k.row.account # k.made[i].account
      BY <1>1, <1>2, <1>3, <1>4 DEF Several
    <3>2. n # Primary /\ k.op \in {"complete", "import"}
      BY <1>1, <1>2, <1>4, <1>8 DEF Locking
    <3> QED
      BY <1>2, <1>4, <2>1, <2>2, <2>3, <3>1, <3>2, FlaggedFits
  <2> HIDE DEF r, adds
  <2>5. Ledger(h, au, oc, vault)
    BY <1>1, <1>3, <1>4, <1>5, <1>6, <2>4, ConfigureLedger
  <2>6. h.pc \in {"store", "next", "models", "auth_load"}
    BY <1>1, <1>4, <1>6 DEF Configure, Configured, Call
  <2>7. Busy(h)
    BY <2>6 DEF Busy
  <2> QED
    BY <1>1, <1>8, <2>5, <2>7, BecomeSettled
<1>9. \/ Fail(j, g)
      \/ Become(j, h) /\ \A m \in g.reserved \ {Primary} : Legible(m)
  BY DEF NameRow, n, k
<1>10. g.op # "apply"
  BY <1>1, <1>3 DEF Updates
<1> QED
  BY <1>7, <1>8, <1>9, <1>10

(***************************************************************************)
(* Loading, in balance                                                     *)
(***************************************************************************)
\* A call that goes on with its row, between the files, stays in balance.
LEMMA FilesLedger ==
    ASSUME NEW g \in Call, NEW h \in Call, g.op \in Locking, g.pc \in AtFiles, h.pc \in AtFiles,
           Like(g, h, {"row"}), h.row = g.row \/ (g.op = "complete" /\ ~InHand(h)),
           NEW au, NEW oc, NEW rows, Ledger(g, au, oc, rows),
           InHand(g) => InHand(h),
           InHand(h) /\ ~InHand(g) => Marks(rows, g.row.account, g.row.provider),
           h.pc \in {"auth_load", "auth_write"} => g.pc \in {"auth_load", "auth_write"},
           Handy(h, au, oc, rows)
    PROVE  Ledger(h, au, oc, rows) /\ Busy(h)
<1>1. /\ h.op = g.op /\ h.conf = g.conf /\ h.free = g.free /\ h.reserved = g.reserved
      /\ h.todo = g.todo /\ h.adds = g.adds /\ h.writes = g.writes /\ h.made = g.made
  BY DEF Like
<1>2. g.pc # "undo" /\ h.pc # "undo" /\ Busy(h)
      /\ h.pc \notin {"decode", "inspect", "primary", "list", "next", "store", "name"}
      /\ g.pc \notin {"decode", "inspect", "primary", "list", "next", "store", "name"}
  BY DEF AtFiles, Busy
<1>3. /\ Balanced(Original(g.writes, "auth", au), Original(g.writes, "opencode", oc), rows)
      /\ Gained(g, au, oc, rows) /\ Handy(g, au, oc, rows)
      /\ g.op = "apply" => Updates(g, rows)
      /\ g.op # "apply" => Enters(g, au, rows)
      /\ g.op = "complete" => Single(g)
      /\ g.op = "import" => Several(g)
  BY <1>2, LockingLedger
<1>4. InHand(h) => h.row = g.row
  OBVIOUS
<1>5. /\ \A a, n : Marks(rows, a, n) \/ Added(h, a, n) <=> Marks(rows, a, n) \/ Added(g, a, n)
      /\ \A a, n : Added(g, a, n) => Added(h, a, n)
  BY <1>1, <1>4 DEF Added
<1>6. InHand(h) => Placed(h.row, au)
  BY <1>3, <1>4 DEF Marks, Gained, Placed
<1>7. Gained(h, au, oc, rows)
  BY <1>1, <1>2, <1>3, <1>5, <1>6 DEF Gained, Configures
<1>8. h.op = "apply" => Updates(h, rows)
  BY <1>1, <1>2, <1>3 DEF Updates
<1>9. h.op # "apply" => Enters(h, au, rows)
  BY <1>1, <1>2, <1>3 DEF Enters
<1>10. h.op = "complete" => Single(h)
  BY <1>1, <1>2, <1>3 DEF Single
<1>11. h.op = "import" => Several(h)
  BY <1>1, <1>3 DEF Several
<1> QED
  BY <1>1, <1>2, <1>3, <1>7, <1>8, <1>9, <1>10, <1>11 DEF Ledger, Forward, Locking

\* A repair has nothing to restore.
LEMMA RepairLedger ==
    ASSUME NEW g, NEW h, g.op = "repair", h.op = "repair", h.writes = g.writes, g.pc # "undo",
           NEW au, NEW oc, NEW rows, Ledger(g, au, oc, rows)
    PROVE  Ledger(h, au, oc, rows) /\ g.writes = <<>>
  BY DEF Ledger, Forward, Locking

\* add_primary_account, before the write
LEMMA LoadAuthSettled ==
    ASSUME Inv, NEW j \in Job, InBalance(j), LoadAuth(j)
    PROVE  Settled(j)
<1> DEFINE g == job[j]
           h == [g EXCEPT !.loaded = files["auth"], !.pc = "auth_write"]
<1>1. g \in Call /\ g.pc = "auth_load" /\ g.op \in Locking /\ UNCHANGED <<files, vault>>
        /\ Ledger(g, files["auth"], files["opencode"], vault)
  BY CallOf DEF Inv, LoadAuth, At, PlaceInv, InBalance, book
<1>2. CASE Primary \in Names(files["auth"])
  BY <1>1, <1>2, FailSettled DEF LoadAuth
<1>3. CASE Primary \notin Names(files["auth"])
  <2>1. files["auth"] \in Document
    BY DEF Inv, WorldInv
  <2>2. h \in Call /\ h.pc = "auth_write" /\ h.loaded = files["auth"] /\ Like(g, h, {})
    BY <1>1, <2>1 DEF Call, Like, Location, Writing
  <2>3. Become(j, h)
    BY <1>3 DEF LoadAuth
  <2> HIDE DEF h
  <2>4. h.row = g.row /\ Like(g, h, {"row"}) /\ h.op = g.op /\ h.conf = g.conf
    BY <2>2 DEF Like
  <2>5. Handy(g, files["auth"], files["opencode"], vault)
    BY <1>1, LockingLedger
  <2>6. Handy(h, files["auth"], files["opencode"], vault)
    BY <1>1, <1>3, <2>2, <2>4, <2>5 DEF Handy, AtFiles, Configures
  <2>7. Ledger(h, files["auth"], files["opencode"], vault) /\ Busy(h)
    BY <1>1, <2>2, <2>4, <2>6, FilesLedger DEF AtFiles, InHand
  <2> QED
    BY <1>1, <2>3, <2>7, BecomeSettled
<1> QED
  BY <1>2, <1>3

\* fetch_models
LEMMA FetchModelsSettled ==
    ASSUME Inv, NEW j \in Job, InBalance(j), FetchModels(j)
    PROVE  Settled(j)
<1> DEFINE g == job[j]
           l == IF g.op = "repair" THEN "names"
                ELSE IF "opencode" \in g.adds THEN "oc_load" ELSE "omo_load"
           h == [g EXCEPT !.pc = l]
<1>1. g \in Call /\ g.pc = "models" /\ g.op \in Locking \cup {"repair"}
        /\ UNCHANGED <<files, vault>> /\ Ledger(g, files["auth"], files["opencode"], vault)
  BY CallOf DEF Inv, FetchModels, At, PlaceInv, InBalance, book
<1>2. h \in Call /\ h.pc = l /\ Like(g, h, {})
  BY <1>1 DEF Call, Like, Location, Loading
<1>3. Become(j, h)
  BY DEF FetchModels
<1> HIDE DEF h
<1>4. h.row = g.row /\ Like(g, h, {"row"}) /\ h.op = g.op /\ h.conf = g.conf
        /\ h.writes = g.writes
  BY <1>2 DEF Like
<1>5. CASE g.op = "repair"
  <2>1. Ledger(h, files["auth"], files["opencode"], vault) /\ Busy(h)
    BY <1>1, <1>2, <1>4, <1>5, RepairLedger DEF Busy
  <2> QED
    BY <1>1, <1>3, <2>1, BecomeSettled
<1>6. CASE g.op \in Locking
  <2>1. Handy(g, files["auth"], files["opencode"], vault)
    BY <1>1, <1>6, LockingLedger
  <2>2. h.pc = IF "opencode" \in g.adds THEN "oc_load" ELSE "omo_load"
    BY <1>2, <1>6 DEF Locking
  <2>3. Handy(h, files["auth"], files["opencode"], vault)
    BY <1>1, <1>4, <2>1, <2>2 DEF Handy, AtFiles, Configures
  <2>4. InHand(h) => Marks(vault, g.row.account, g.row.provider)
    BY <1>1, <2>1, <2>2 DEF InHand, Handy
  <2>5. Ledger(h, files["auth"], files["opencode"], vault) /\ Busy(h)
    BY <1>1, <1>2, <1>4, <1>6, <2>2, <2>3, <2>4, FilesLedger DEF AtFiles, InHand
  <2> QED
    BY <1>1, <1>3, <2>5, BecomeSettled
<1> QED
  BY <1>1, <1>5, <1>6

\* add_secondary_account, before the write: a row with a number keeps it.
LEMMA LoadOpencodeSettled ==
    ASSUME Inv, NEW j \in Job, InBalance(j), LoadOpencode(j)
    PROVE  Settled(j)
<1> DEFINE g == job[j]
           n == NextNumber(Names(files["opencode"]))
           h == [Allocated(g, n) EXCEPT !.loaded = files["opencode"], !.pc = "oc_write"]
<1>1. g \in Call /\ g.pc = "oc_load" /\ g.op \in Locking /\ UNCHANGED <<files, vault>>
        /\ Ledger(g, files["auth"], files["opencode"], vault)
  BY CallOf DEF Inv, LoadOpencode, At, PlaceInv, InBalance, book
<1>2. CASE Fail(j, g)
  BY <1>1, <1>2, FailSettled
<1>3. CASE Primary \in Names(files["auth"]) /\ MayAllocate(g, n) /\ Become(j, h)
  <2>1. files["opencode"] \in Document /\ vault \in Seq(Row)
    BY DEF Inv, WorldInv
  <2>2. n \in Nat /\ n > Primary
    BY NamesFinite, Fresh
  <2> HIDE DEF n
  <2>3. /\ h \in Call /\ h.pc = "oc_write" /\ h.loaded = files["opencode"]
        /\ Like(g, h, {"row"}) /\ h.row.account = g.row.account /\ h.row.provider = n
        /\ h.row.oc = g.row.oc
        /\ g.row.provider = n => h.row = g.row
    BY <1>1, <2>1, <2>2 DEF Call, Like, Location, Writing, Allocated, AnyRow
  <2> HIDE DEF h
  <2>4. h.op = g.op /\ h.conf = g.conf
    BY <2>3 DEF Like
  <2>5. /\ Handy(g, files["auth"], files["opencode"], vault)
        /\ g.op = "apply" => Updates(g, vault)
        /\ g.op = "import" => Several(g)
    BY <1>1, LockingLedger
  <2>6. g.op # "complete" => g.row.provider # Unassigned
    <3>1. g.op = "apply" => g.row.provider # Unassigned
      BY <1>1, <2>1, <2>5 DEF Updates, Has, AtFiles, Row
    <3> QED
      BY <1>1, <2>5, <3>1 DEF Several, AtFiles, Locking
  <2>7. g.op # "complete" => h.row = g.row
    BY <1>3, <2>3, <2>6 DEF MayAllocate
  <2>8. Handy(h, files["auth"], files["opencode"], vault)
    BY <1>1, <1>3, <2>2, <2>3, <2>4, <2>5 DEF Handy, AtFiles, Configures, n
  <2>9. Ledger(h, files["auth"], files["opencode"], vault) /\ Busy(h)
    BY <1>1, <2>3, <2>7, <2>8, FilesLedger DEF AtFiles, InHand
  <2> QED
    BY <1>1, <1>3, <2>9, BecomeSettled
<1> QED
  BY <1>2, <1>3 DEF LoadOpencode

\* configured_provider_names
LEMMA ReadNamesSettled ==
    ASSUME Inv, NEW j \in Job, InBalance(j), ReadNames(j)
    PROVE  Settled(j)
<1> DEFINE g == job[j]
           names == Names(files["auth"]) \cup {n \in Names(files["opencode"]) : Legible(n)}
           h == [g EXCEPT !.reserved = names, !.pc = "omo_load"]
<1>1. g \in Call /\ g.pc = "names" /\ g.op = "repair" /\ UNCHANGED <<files, vault>>
        /\ Ledger(g, files["auth"], files["opencode"], vault)
  BY CallOf DEF Inv, ReadNames, At, PlaceInv, InBalance, book
<1>2. g.writes = <<>>
  BY <1>1, RepairLedger
<1>3. CASE Finish(j)
  BY <1>1, <1>2, <1>3, FinishSettled
<1>4. CASE Become(j, h)
  <2>1. h.op = "repair" /\ h.writes = g.writes /\ h.pc = "omo_load"
    BY <1>1 DEF Call
  <2> HIDE DEF h
  <2>2. Ledger(h, files["auth"], files["opencode"], vault) /\ Busy(h)
    BY <1>1, <2>1, RepairLedger DEF Busy
  <2> QED
    BY <1>1, <1>4, <2>2, BecomeSettled
<1> QED
  BY <1>3, <1>4 DEF ReadNames

\* What the writer of oh-my-openagent.json returns without a write leaves the balance.
LEMMA UnchangedLedger ==
    ASSUME NEW g \in Call, g.op \in Locking, g.pc = "omo_load", g.row \in Row,
           NEW au, NEW oc, NEW rows, Ledger(g, au, oc, rows)
    PROVE  Ledger(OmoUnchanged(g), au, oc, rows)
<1> DEFINE w == [file |-> "omo", before |-> NoFile, newer |-> 0]
           m == [g EXCEPT !.writes = Append(@, w)]
<1>1. w \in Result /\ g.writes \in Seq(Result)
  <2>1. NoFile \in Document
    BY DEF NoFile, Document
  <2> QED
    BY <2>1, PoolAssumption DEF Result, Call
<1>2. w.file = "omo"
  OBVIOUS
<1> HIDE DEF w
<1>3. /\ m \in Call /\ m.pc = "omo_load" /\ Like(g, m, {"writes"})
      /\ m.writes = Append(g.writes, w)
  <2>1. Append(g.writes, w) \in Seq(Result)
    BY <1>1
  <2> QED
    BY <2>1 DEF Call, Like
<1> HIDE DEF m
<1>4. /\ Original(m.writes, "auth", au) = Original(g.writes, "auth", au)
      /\ Original(m.writes, "opencode", oc) = Original(g.writes, "opencode", oc)
  BY <1>1, <1>2, <1>3, OriginalAppend
<1>5. /\ m.op = g.op /\ m.row = g.row /\ m.conf = g.conf /\ m.free = g.free /\ m.adds = g.adds
      /\ m.reserved = g.reserved /\ m.todo = g.todo /\ m.made = g.made
  BY <1>3 DEF Like
<1>6. /\ Balanced(Original(g.writes, "auth", au), Original(g.writes, "opencode", oc), rows)
      /\ Gained(g, au, oc, rows) /\ Handy(g, au, oc, rows)
      /\ g.op = "apply" => Updates(g, rows)
      /\ g.op # "apply" => Enters(g, au, rows)
      /\ g.op = "complete" => Single(g)
      /\ g.op = "import" => Several(g)
  BY LockingLedger
<1>7. /\ Gained(m, au, oc, rows) /\ Handy(m, au, oc, rows)
      /\ m.op = "apply" => Updates(m, rows)
      /\ m.op # "apply" => Enters(m, au, rows)
      /\ m.op = "complete" => Single(m)
      /\ m.op = "import" => Several(m)
  <2>1. Gained(m, au, oc, rows)
    BY <1>3, <1>5, <1>6 DEF Gained, Added, InHand, Configures
  <2>2. Handy(m, au, oc, rows)
    BY <1>3, <1>5, <1>6 DEF Handy, AtFiles, Configures
  <2>3. m.op = "apply" => Updates(m, rows)
    BY <1>3, <1>5, <1>6 DEF Updates
  <2>4. m.op # "apply" => Enters(m, au, rows)
    BY <1>3, <1>5, <1>6 DEF Enters
  <2>5. m.op = "complete" => Single(m)
    BY <1>3, <1>5, <1>6 DEF Single
  <2>6. m.op = "import" => Several(m)
    BY <1>3, <1>5, <1>6 DEF Several
  <2> QED
    BY <2>1, <2>2, <2>3, <2>4, <2>5, <2>6
<1>8. Ledger(m, au, oc, rows)
  BY <1>3, <1>4, <1>5, <1>6, <1>7 DEF Ledger, Forward, Locking
<1>9. OmoUnchanged(g) = Configured(m)
  BY DEF OmoUnchanged, m, w
<1> QED
  BY <1>3, <1>5, <1>8, <1>9, ConfiguredLedger DEF InHand

\* oh-my-openagent.json, before the write
LEMMA LoadOmoSettled ==
    ASSUME Inv, NEW j \in Job, InBalance(j), LoadOmo(j)
    PROVE  Settled(j)
<1> DEFINE g == job[j]
           h == [g EXCEPT !.loaded = files["omo"], !.pc = "omo_write"]
<1>1. g \in Call /\ RowInv(g) /\ g.pc = "omo_load" /\ g.op \in Locking \cup {"repair"}
        /\ UNCHANGED <<files, vault>> /\ Ledger(g, files["auth"], files["opencode"], vault)
  BY CallOf DEF Inv, LoadOmo, At, PlaceInv, InBalance, book
<1>2. CASE Fail(j, g)
  BY <1>1, <1>2, FailSettled
<1>3. CASE Become(j, h)
  <2>1. files["omo"] \in Document
    BY DEF Inv, WorldInv
  <2>2. h \in Call /\ h.pc = "omo_write" /\ Like(g, h, {})
    BY <1>1, <2>1 DEF Call, Like, Location, Writing
  <2> HIDE DEF h
  <2>3. h.row = g.row /\ Like(g, h, {"row"}) /\ h.op = g.op /\ h.conf = g.conf
          /\ h.writes = g.writes
    BY <2>2 DEF Like
  <2>4. CASE g.op = "repair"
    <3>1. Ledger(h, files["auth"], files["opencode"], vault) /\ Busy(h)
      BY <1>1, <2>2, <2>3, <2>4, RepairLedger DEF Busy
    <3> QED
      BY <1>1, <1>3, <3>1, BecomeSettled
  <2>5. CASE g.op \in Locking
    <3>1. Handy(g, files["auth"], files["opencode"], vault)
      BY <1>1, <2>5, LockingLedger
    <3>2. Handy(h, files["auth"], files["opencode"], vault)
      BY <1>1, <2>2, <2>3, <3>1 DEF Handy, AtFiles, Configures
    <3>3. Ledger(h, files["auth"], files["opencode"], vault) /\ Busy(h)
      BY <1>1, <2>2, <2>3, <2>5, <3>2, FilesLedger DEF AtFiles, InHand
    <3> QED
      BY <1>1, <1>3, <3>3, BecomeSettled
  <2> QED
    BY <1>1, <2>4, <2>5
<1>4. CASE g.op = "repair" /\ Finish(j)
  <2>1. g.writes = <<>>
    BY <1>1, <1>4, RepairLedger
  <2> QED
    BY <1>1, <1>4, <2>1, FinishSettled
<1>5. CASE g.op # "repair" /\ Become(j, OmoUnchanged(g))
  <2>1. g.op \in Locking /\ g.row \in Row
    BY <1>1, <1>5 DEF RowInv
  <2>2. Ledger(OmoUnchanged(g), files["auth"], files["opencode"], vault)
    BY <1>1, <2>1, UnchangedLedger
  <2>3. OmoUnchanged(g).pc \in {"store", "next"}
    BY <1>1 DEF OmoUnchanged, Configured, Call
  <2> QED
    BY <1>1, <1>5, <2>2, <2>3, BecomeSettled DEF Busy
<1> QED
  BY <1>2, <1>3, <1>4, <1>5 DEF LoadOmo

\* A step that fails has changed nothing.
LEMMA StepFailsSettled ==
    ASSUME Inv, NEW j \in Job, InBalance(j), StepFails(j)
    PROVE  Settled(j)
  BY FailSettled DEF StepFails, book

(***************************************************************************)
(* Writing, in balance                                                     *)
(***************************************************************************)
\* Nobody else has written.
Quiet(j) == \A i \in Job \ {j} : job[i].writes = <<>>

\* A file is put in place, and the call that did it goes on in balance or ends in balance.
LEMMA PutSettled ==
    ASSUME Inv, NEW j \in Job, Quiet(j), NEW f \in File, NEW doc, NEW h, Put(j, f, doc, h),
           NEW au, au = (IF f = "auth" THEN doc ELSE files["auth"]),
           NEW oc, oc = (IF f = "opencode" THEN doc ELSE files["opencode"]),
           \/ Busy(h) /\ Ledger(h, au, oc, vault)
           \/ h = Idle /\ Balanced(au, oc, vault)
    PROVE  Settled(j)
<1>1. files'["auth"] = au /\ files'["opencode"] = oc /\ vault' = vault
  BY DEF Put, Inv, WorldInv, book
<1>2. job'[j] = h
  BY DEF Put
<1>3. ASSUME NEW i \in Job \ {j}
      PROVE  job'[i] = job[i]
  <2>1. job[i] \in Call /\ job[i].writes = <<>> /\ Aged(f, i) = <<>>
    BY AgedOK, CallOf DEF Inv, Quiet
  <2>2. job'[i] = [job[i] EXCEPT !.writes = Aged(f, i)]
    BY DEF Put
  <2> QED
    BY <2>1, <2>2 DEF Call
<1> QED
  BY <1>1, <1>2, <1>3 DEF Settled

\* The next number is the lowest above all that are seen.
LEMMA NextLowest ==
    ASSUME NEW N \in SUBSET Nat, IsFiniteSet(N), NEW p \in Nat, p > Primary,
           \A m \in N : Legible(m) => m < p
    PROVE  NextNumber(N) =< p
<1> DEFINE Seen == {n \in N : Legible(n)}
           S == Seen \cup {Primary}
<1>1. Seen \in SUBSET N /\ \A m \in Seen : m < p
  OBVIOUS
<1>2. NextNumber(N) = 1 + Max(S)
  BY DEF NextNumber
<1> HIDE DEF Seen
<1>3. S \in SUBSET Nat /\ S # {} /\ \A m \in S : m < p
  BY <1>1
<1>4. IsFiniteSet(S)
  BY <1>1, FS_Subset, FS_AddElement
<1> HIDE DEF S
<1> HIDE DEF S
<1>5. Max(S) \in Nat /\ Max(S) < p
  BY <1>3, <1>4, MaxGreatest
<1> QED
  BY <1>2, <1>5

\* Names and keys with one more entry.
LEMMA OneMore ==
    ASSUME NEW doc \in Document, NEW n \in Provider, n \notin Names(doc), NEW a \in Account
    PROVE  LET more == With(doc, n, a)
           IN  /\ Names(more) = Names(doc) \cup {n}
               /\ \A b \in Account, m \in Provider :
                     more.entries[m] = b <=> doc.entries[m] = b \/ (m = n /\ b = a)
<1>1. Nothing \notin Account
  BY PoolAssumption
<1>2. \A m \in Provider : With(doc, n, a).entries[m] = IF m = n THEN a ELSE doc.entries[m]
  BY DEF With, Document
<1>3. doc.entries[n] = Nothing
  BY DEF Names
<1> QED
  BY <1>1, <1>2, <1>3 DEF Names

\* A row that has got its key is at hand.
LEMMA AddedLedger ==
    ASSUME NEW g \in Call, NEW h \in Call, g.op \in Locking, g.pc \in {"auth_write", "oc_write"},
           h.pc = "omo_load", Like(g, h, {"writes"}),
           NEW au, NEW oc, NEW rows, Ledger(g, au, oc, rows), NEW au2, NEW oc2,
           Original(h.writes, "auth", au2) = Original(g.writes, "auth", au),
           Original(h.writes, "opencode", oc2) = Original(g.writes, "opencode", oc),
           Gained(h, au2, oc2, rows)
    PROVE  Ledger(h, au2, oc2, rows) /\ Busy(h) /\ InHand(h)
<1>1. /\ h.op = g.op /\ h.conf = g.conf /\ h.free = g.free /\ h.reserved = g.reserved
      /\ h.todo = g.todo /\ h.adds = g.adds /\ h.made = g.made /\ h.row = g.row
  BY DEF Like
<1>2. /\ Balanced(Original(g.writes, "auth", au), Original(g.writes, "opencode", oc), rows)
      /\ Gained(g, au, oc, rows) /\ Handy(g, au, oc, rows)
      /\ g.op = "apply" => Updates(g, rows)
      /\ g.op # "apply" => Enters(g, au, rows)
      /\ g.op = "complete" => Single(g)
      /\ g.op = "import" => Several(g)
  BY LockingLedger
<1>3. Handy(h, au2, oc2, rows)
  BY <1>1, <1>2 DEF Handy, AtFiles, Configures
<1>4. h.op = "apply" => Updates(h, rows)
  BY <1>1, <1>2 DEF Updates, AtFiles
<1>5. h.op # "apply" => Enters(h, au2, rows)
  BY DEF Enters
<1>6. h.op = "complete" => Single(h)
  BY <1>1, <1>2 DEF Single
<1>7. h.op = "import" => Several(h)
  BY <1>1, <1>2 DEF Several, AtFiles
<1> QED
  BY <1>1, <1>2, <1>3, <1>4, <1>5, <1>6, <1>7 DEF Ledger, Forward, Locking, Busy, InHand

\* The key of the primary account is in auth.json.
LEMMA AuthGained ==
    ASSUME NEW g \in Call, NEW h \in Call, g.op \in Locking, g.pc = "auth_write", g.row \in Row,
           h.pc = "omo_load", Like(g, h, {"writes"}),
           NEW au \in Document, NEW oc \in Document, NEW rows \in Seq(Row), Unique(rows),
           Ledger(g, au, oc, rows)
    PROVE  Gained(h, With(au, Primary, g.row.account), oc, rows)
<1> DEFINE au2 == With(au, Primary, g.row.account)
<1>1. /\ h.op = g.op /\ h.conf = g.conf /\ h.made = g.made /\ h.row = g.row
  BY DEF Like
<1>2. /\ Gained(g, au, oc, rows) /\ Handy(g, au, oc, rows)
      /\ g.op = "apply" => Updates(g, rows)
      /\ g.op # "apply" => Enters(g, au, rows)
  BY LockingLedger
<1>3. /\ g.row.provider = Primary /\ g.row.oc /\ Configures(g) /\ Primary \notin Names(au)
      /\ g.row.account \in Account /\ Primary \in Provider
  BY <1>2, ProviderNumbers DEF Handy, AtFiles, Row
<1>4. /\ Names(au2) = Names(au) \cup {Primary}
      /\ \A b \in Account, m \in Provider :
            au2.entries[m] = b <=> au.entries[m] = b \/ (m = Primary /\ b = g.row.account)
  <2> HIDE DEF Primary
  <2> QED
    BY <1>3, OneMore
<1> HIDE DEF au2
<1>5. \A a, n : Added(h, a, n) <=> Added(g, a, n) \/ (a = g.row.account /\ n = Primary)
  BY <1>1, <1>3 DEF Added, InHand
<1>6. Tidy(au2, oc)
  BY <1>2, <1>4 DEF Gained, Tidy
<1>7. \A a \in Account, n \in Provider :
         Carries(au2, oc, a, n) <=> Marks(rows, a, n) \/ Added(h, a, n)
  BY <1>2, <1>4, <1>5 DEF Gained, Carries
<1>8. Placed(h.row, au2)
  BY <1>1, <1>3, <1>4 DEF Placed
<1>9. ASSUME NEW i \in DOMAIN rows
      PROVE  /\ Placed(rows[i], au2)
             /\ rows[i].provider = Primary /\ ~rows[i].oc /\ Primary \in Names(au2) =>
                   h.op = "apply" /\ Added(h, rows[i].account, Primary)
             /\ Waits(rows[i]) => \/ Above(rows[i].provider, oc)
                                  \/ \E a \in Account : Added(h, a, rows[i].provider)
  <2>1. Placed(rows[i], au2)
    BY <1>2, <1>4 DEF Gained, Placed
  <2>2. Waits(rows[i]) => \/ Above(rows[i].provider, oc)
                          \/ \E a \in Account : Added(h, a, rows[i].provider)
    BY <1>2, <1>5 DEF Gained
  <2>3. ASSUME rows[i].provider = Primary
        PROVE  h.op = "apply" /\ Added(h, rows[i].account, Primary)
    <3>1. g.op = "apply"
      BY <1>2 DEF Enters
    <3>2. PICK k \in DOMAIN rows : rows[k].account = g.row.account /\ rows[k].provider = Primary
      BY <1>2, <1>3, <3>1 DEF Updates, Has, AtFiles
    <3>3. i = k
      BY <2>3, <3>2 DEF Unique
    <3> QED
      BY <1>1, <1>5, <3>1, <3>2, <3>3
  <2> QED
    BY <2>1, <2>2, <2>3
<1>10. \A k \in DOMAIN h.made : h.made[k].oc /\ Configures(h) /\ Placed(h.made[k], au2)
  BY <1>1, <1>2, <1>3, <1>4 DEF Gained, Placed, Configures
<1>11. Gained(h, au2, oc, rows)
  BY <1>6, <1>7, <1>8, <1>9, <1>10 DEF Gained, Waits
<1> QED
  BY <1>11 DEF au2

\* The key of a secondary account is in opencode.json.
LEMMA OpencodeGained ==
    ASSUME NEW g \in Call, NEW h \in Call, g.op \in Locking, g.pc = "oc_write", g.row \in Row,
           g.row.provider \in Provider, h.pc = "omo_load", Like(g, h, {"writes"}),
           NEW au \in Document, NEW oc \in Document, NEW rows \in Seq(Row),
           g.row.provider \notin Names(oc), Ledger(g, au, oc, rows)
    PROVE  Gained(h, au, With(oc, g.row.provider, g.row.account), rows)
<1> DEFINE n0 == g.row.provider
           oc2 == With(oc, n0, g.row.account)
<1>1. /\ h.op = g.op /\ h.conf = g.conf /\ h.made = g.made /\ h.row = g.row
  BY DEF Like
<1>2. Gained(g, au, oc, rows) /\ Handy(g, au, oc, rows)
  BY LockingLedger
<1>3. /\ n0 # Primary /\ n0 = NextNumber(Names(oc)) /\ g.row.oc /\ Configures(g)
      /\ Primary \in Names(au) /\ g.row.account \in Account
  BY <1>2 DEF Handy, AtFiles, Row
<1>4. /\ Names(oc2) = Names(oc) \cup {n0}
      /\ \A b \in Account, m \in Provider :
            oc2.entries[m] = b <=> oc.entries[m] = b \/ (m = n0 /\ b = g.row.account)
  BY <1>3, OneMore
<1>5. \A p \in Nat : p > Primary /\ Above(p, oc) => n0 =< p
  <2>1. Names(oc) \in SUBSET Nat /\ IsFiniteSet(Names(oc))
    BY ProviderNumbers, FS_Subset DEF Names
  <2> HIDE DEF n0, oc2
  <2> QED
    BY <1>3, <2>1, NextLowest DEF Above
<1>6. n0 \in Nat
  BY DEF Row
<1> HIDE DEF oc2
<1>7. \A a, n : Added(h, a, n) <=> Added(g, a, n) \/ (a = g.row.account /\ n = n0)
  BY <1>1 DEF Added, InHand
<1> HIDE DEF n0
<1>8. Tidy(au, oc2)
  BY <1>2, <1>3, <1>4 DEF Gained, Tidy
<1>9. \A a \in Account, n \in Provider :
         Carries(au, oc2, a, n) <=> Marks(rows, a, n) \/ Added(h, a, n)
  BY <1>2, <1>4, <1>7 DEF Gained, Carries
<1>10. Placed(h.row, au)
  BY <1>1, <1>3 DEF Placed
<1>11. ASSUME NEW i \in DOMAIN rows
       PROVE  /\ Placed(rows[i], au)
              /\ rows[i].provider = Primary /\ ~rows[i].oc /\ Primary \in Names(au) =>
                    h.op = "apply" /\ Added(h, rows[i].account, Primary)
              /\ Waits(rows[i]) => \/ Above(rows[i].provider, oc2)
                                   \/ \E a \in Account : Added(h, a, rows[i].provider)
  <2>1. Placed(rows[i], au)
    BY <1>2 DEF Gained
  <2>2. rows[i].provider = Primary /\ ~rows[i].oc /\ Primary \in Names(au) =>
           h.op = "apply" /\ Added(h, rows[i].account, Primary)
    BY <1>1, <1>2, <1>7 DEF Gained
  <2>3. ASSUME Waits(rows[i])
        PROVE  \/ Above(rows[i].provider, oc2)
               \/ \E a \in Account : Added(h, a, rows[i].provider)
    <3>1. CASE \E a \in Account : Added(g, a, rows[i].provider)
      BY <1>7, <3>1
    <3>2. CASE Above(rows[i].provider, oc)
      <4>1. rows[i].provider \in Nat /\ rows[i].provider > Primary
        BY <2>3 DEF Waits, Row
      <4>2. n0 =< rows[i].provider
        BY <1>5, <3>2, <4>1
      <4>3. CASE n0 = rows[i].provider
        BY <1>3, <1>7, <4>3
      <4>4. CASE n0 # rows[i].provider
        BY <1>4, <1>6, <3>2, <4>1, <4>2, <4>4 DEF Above
      <4> QED
        BY <4>3, <4>4
    <3> QED
      BY <1>2, <2>3, <3>1, <3>2 DEF Gained
  <2> QED
    BY <2>1, <2>2, <2>3
<1>12. \A k \in DOMAIN h.made : h.made[k].oc /\ Configures(h) /\ Placed(h.made[k], au)
  BY <1>1, <1>2, <1>3 DEF Gained, Configures
<1>13. Gained(h, au, oc2, rows)
  BY <1>8, <1>9, <1>10, <1>11, <1>12 DEF Gained, Waits
<1> QED
  BY <1>13 DEF oc2, n0

\* A call keeps its documents apart from what it has.
LEMMA MadeElsewhere ==
    ASSUME NEW k \in Call, k.op \in Locking, NEW m \in Call, m.pc = "omo_load", Like(k, m, {})
    PROVE  Configured(k) = Configured(m)
<1>1. \A f \in {"op", "conf", "free", "reserved", "todo", "row", "adds", "writes", "made", "plan",
                "promoted"} : m[f] = k[f]
  BY DEF Like
<1> QED
  BY <1>1 DEF Configured, Call

\* add_primary_account
LEMMA WriteAuthSettled ==
    ASSUME Inv, NEW j \in Job, InBalance(j), Quiet(j), Unique(vault), WriteAuth(j)
    PROVE  Settled(j)
<1> DEFINE g == job[j]
           k == Wrote(j, "auth")
           m == [k EXCEPT !.pc = "omo_load"]
           au == files["auth"]
           oc == files["opencode"]
           au2 == With(au, Primary, g.row.account)
<1>1. /\ g \in Call /\ RowInv(g) /\ g.pc = "auth_write" /\ g.op \in Locking /\ g.row \in Row
      /\ Ledger(g, au, oc, vault)
  BY CallOf DEF Inv, WriteAuth, At, PlaceInv, RowInv, InBalance
<1>2. au \in Document /\ oc \in Document /\ vault \in Seq(Row)
  BY DEF Inv, WorldInv
<1>3. k \in Call /\ k.pc = "auth_write" /\ Like(g, k, {"writes"})
  BY <1>1, WroteOK
<1>4. m \in Call /\ m.pc = "omo_load" /\ Like(k, m, {})
  BY <1>3, MovedOK DEF Location, Loading
<1>5. /\ Original(k.writes, "auth", au2) = Original(g.writes, "auth", au)
      /\ Original(k.writes, "opencode", oc) = Original(g.writes, "opencode", oc)
  BY WroteOriginal
<1>6. Put(j, "auth", With(g.loaded, Primary, g.row.account), Configured(k))
  BY AuthPut
<1> HIDE DEF k, m
<1>7. Like(g, m, {"writes"}) /\ m.writes = k.writes /\ m.op = g.op /\ m.row = g.row
        /\ k.op = g.op
  BY <1>3, <1>4 DEF Like
<1>8. Gained(m, au2, oc, vault)
  BY <1>1, <1>2, <1>4, <1>7, AuthGained
<1>9. g.loaded = au
  <2>1. Handy(g, au, oc, vault)
    BY <1>1, LockingLedger
  <2> QED
    BY <1>1, <2>1 DEF Handy
<1> HIDE DEF au2
<1>10. Ledger(m, au2, oc, vault) /\ InHand(m)
  BY <1>1, <1>4, <1>5, <1>7, <1>8, AddedLedger
<1>11. Ledger(Configured(m), au2, oc, vault)
  BY <1>1, <1>4, <1>7, <1>10, ConfiguredLedger
<1>12. Configured(k) = Configured(m)
  BY <1>1, <1>3, <1>4, <1>7, MadeElsewhere
<1>13. Busy(Configured(k))
  BY <1>3 DEF Configured, Call, Busy
<1> QED
  BY <1>6, <1>9, <1>11, <1>12, <1>13, PutSettled DEF au2

\* add_secondary_account
LEMMA WriteOpencodeSettled ==
    ASSUME Inv, NEW j \in Job, InBalance(j), Quiet(j), Readable, WriteOpencode(j),
           job[j].row.provider \in Provider
    PROVE  Settled(j)
<1> DEFINE g == job[j]
           k == Wrote(j, "opencode")
           m == [k EXCEPT !.loaded = NoFile, !.pc = "omo_load"]
           h == IF "omo" \in k.adds THEN m ELSE Configured(k)
           au == files["auth"]
           oc == files["opencode"]
           oc2 == With(oc, g.row.provider, g.row.account)
<1>1. /\ g \in Call /\ RowInv(g) /\ g.pc = "oc_write" /\ g.op \in Locking /\ g.row \in Row
      /\ Ledger(g, au, oc, vault)
  BY CallOf DEF Inv, WriteOpencode, At, PlaceInv, RowInv, InBalance
<1>2. au \in Document /\ oc \in Document /\ vault \in Seq(Row) /\ NoFile \in Document
  BY DEF Inv, WorldInv, NoFile, Document
<1>3. k \in Call /\ k.pc = "oc_write" /\ Like(g, k, {"writes"})
  BY <1>1, WroteOK
<1>4. m \in Call /\ m.pc = "omo_load" /\ Like(k, m, {})
  BY <1>2, <1>3 DEF Call, Location, Loading, Like
<1>5. /\ Original(k.writes, "auth", au) = Original(g.writes, "auth", au)
      /\ Original(k.writes, "opencode", oc2) = Original(g.writes, "opencode", oc)
  BY WroteOriginal
<1>6. Put(j, "opencode", With(g.loaded, g.row.provider, g.row.account), h)
  BY OpencodePut
<1> HIDE DEF k, m
<1>7. Like(g, m, {"writes"}) /\ m.writes = k.writes /\ m.op = g.op /\ m.row = g.row
        /\ k.op = g.op
  BY <1>3, <1>4 DEF Like
<1>8. g.loaded = oc /\ g.row.provider = NextNumber(Names(oc))
  <2>1. Handy(g, au, oc, vault)
    BY <1>1, LockingLedger
  <2> QED
    BY <1>1, <2>1 DEF Handy
<1>9. g.row.provider \notin Names(oc)
  <2>1. Names(oc) \in SUBSET Provider
    BY DEF Names
  <2> QED
    BY <1>8, <2>1, FreshProvider DEF Readable
<1>10. Gained(m, au, oc2, vault)
  BY <1>1, <1>2, <1>4, <1>7, <1>9, OpencodeGained
<1> HIDE DEF oc2
<1>11. Ledger(m, au, oc2, vault) /\ InHand(m) /\ Busy(m)
  BY <1>1, <1>4, <1>5, <1>7, <1>10, AddedLedger
<1>12. Ledger(Configured(m), au, oc2, vault)
  BY <1>1, <1>4, <1>7, <1>11, ConfiguredLedger
<1>13. Configured(k) = Configured(m)
  BY <1>1, <1>3, <1>4, <1>7, MadeElsewhere
<1>14. Busy(Configured(k))
  BY <1>3 DEF Configured, Call, Busy
<1>15. Ledger(h, au, oc2, vault) /\ Busy(h)
  BY <1>11, <1>12, <1>13, <1>14
<1> HIDE DEF h
<1> QED
  BY <1>6, <1>8, <1>15, PutSettled DEF oc2

\* oh-my-openagent.json has no keys.
LEMMA WriteOmoSettled ==
    ASSUME Inv, NEW j \in Job, InBalance(j), Quiet(j), WriteOmo(j)
    PROVE  Settled(j)
<1> DEFINE g == job[j]
           k == Wrote(j, "omo")
           m == [k EXCEPT !.pc = "omo_load"]
           h == IF k.op = "repair" THEN Idle ELSE Configured(k)
           au == files["auth"]
           oc == files["opencode"]
<1>1. /\ g \in Call /\ RowInv(g) /\ g.pc = "omo_write" /\ g.op \in Locking \cup {"repair"}
      /\ g.op # "repair" => g.row \in Row
      /\ Ledger(g, au, oc, vault)
  BY CallOf DEF Inv, WriteOmo, At, PlaceInv, RowInv, InBalance
<1>2. k \in Call /\ k.pc = "omo_write" /\ Like(g, k, {"writes"})
  BY <1>1, WroteOK
<1>3. /\ Original(k.writes, "auth", au) = Original(g.writes, "auth", au)
      /\ Original(k.writes, "opencode", oc) = Original(g.writes, "opencode", oc)
  BY WroteOriginal
<1>4. Put(j, "omo", OmoTarget(g, g.loaded), h)
  BY OmoPut
<1> HIDE DEF k
<1>5. /\ k.op = g.op /\ k.conf = g.conf /\ k.free = g.free /\ k.reserved = g.reserved
      /\ k.todo = g.todo /\ k.adds = g.adds /\ k.made = g.made /\ k.row = g.row
  BY <1>2 DEF Like
<1>6. CASE g.op = "repair"
  <2>1. g.writes = <<>>
    BY <1>1, <1>6, RepairLedger
  <2>2. Balanced(au, oc, vault)
    BY <1>1, <2>1, OriginalNone DEF Ledger
  <2>3. h = Idle
    BY <1>5, <1>6
  <2> HIDE DEF h
  <2> QED
    BY <1>4, <2>2, <2>3, PutSettled
<1>7. CASE g.op \in Locking
  <2>1. /\ Balanced(Original(g.writes, "auth", au), Original(g.writes, "opencode", oc), vault)
        /\ Gained(g, au, oc, vault) /\ Handy(g, au, oc, vault)
        /\ g.op = "apply" => Updates(g, vault)
        /\ g.op # "apply" => Enters(g, au, vault)
        /\ g.op = "complete" => Single(g)
        /\ g.op = "import" => Several(g)
    BY <1>1, <1>7, LockingLedger
  <2>2. /\ Gained(k, au, oc, vault) /\ Handy(k, au, oc, vault)
        /\ k.op = "apply" => Updates(k, vault)
        /\ k.op # "apply" => Enters(k, au, vault)
        /\ k.op = "complete" => Single(k)
        /\ k.op = "import" => Several(k)
    <3>1. Gained(k, au, oc, vault)
      BY <1>1, <1>2, <1>5, <2>1 DEF Gained, Added, InHand, Configures
    <3>2. Handy(k, au, oc, vault)
      BY <1>1, <1>2, <1>5, <2>1 DEF Handy, AtFiles, Configures
    <3>3. k.op = "apply" => Updates(k, vault)
      BY <1>1, <1>2, <1>5, <2>1 DEF Updates
    <3>4. k.op # "apply" => Enters(k, au, vault)
      BY <1>1, <1>2, <1>5, <2>1 DEF Enters
    <3>5. k.op = "complete" => Single(k)
      BY <1>1, <1>2, <1>5, <2>1 DEF Single
    <3>6. k.op = "import" => Several(k)
      BY <1>1, <1>2, <1>5, <2>1 DEF Several
    <3> QED
      BY <3>1, <3>2, <3>3, <3>4, <3>5, <3>6
  <2>3. Ledger(k, au, oc, vault)
    BY <1>2, <1>3, <1>5, <1>7, <2>1, <2>2 DEF Ledger, Forward, Locking
  <2>4. Ledger(Configured(k), au, oc, vault)
    BY <1>1, <1>2, <1>5, <1>7, <2>3, ConfiguredLedger DEF InHand, Locking
  <2>5. Busy(Configured(k)) /\ h = Configured(k)
    BY <1>2, <1>5, <1>7 DEF Configured, Call, Busy, Locking
  <2> HIDE DEF h
  <2> QED
    BY <1>4, <2>4, <2>5, PutSettled
<1> QED
  BY <1>1, <1>6, <1>7

(***************************************************************************)
(* Committing and undoing, in balance                                      *)
(***************************************************************************)
\* A call has ended with the vault and the files in balance.
Closed(j) ==
    /\ \A i \in Job \ {j} : job'[i] = job[i]
    /\ job'[j] = Idle
    /\ Balanced(files'["auth"], files'["opencode"], vault')
    /\ Unique(vault') /\ pending' \cap Accounts(vault') = {}

\* A call ends, and what it has done is closed.
LEMMA FinishClosed ==
    ASSUME Inv, NEW j \in Job, Finish(j), UNCHANGED files,
           Balanced(files["auth"], files["opencode"], vault'), Unique(vault'),
           pending' \cap Accounts(vault') = {}
    PROVE  Closed(j)
  BY CallOf DEF Inv, Finish, Become, Closed

\* New rows with accounts and numbers of their own keep the balance.
LEMMA JoinedBalance ==
    ASSUME NEW g \in Call, g.op \in {"complete", "import"}, g.pc = "store",
           NEW au, NEW oc, NEW rows \in Seq(Row), Ledger(g, au, oc, rows), Unique(rows),
           Unique(g.made), Accounts(g.made) \cap Accounts(rows) = {},
           Providers(g.made) \cap Providers(rows) = {}
    PROVE  /\ Balanced(au, oc, rows \o g.made) /\ Unique(rows \o g.made)
           /\ Accounts(rows \o g.made) = Accounts(rows) \cup Accounts(g.made)
<1> DEFINE all == rows \o g.made
           d == Len(rows)
<1>1. Gained(g, au, oc, rows) /\ ~InHand(g) /\ g.made \in Seq(Row)
  BY LockingLedger DEF Locking, InHand, Call
<1>2. /\ all \in Seq(Row) /\ d \in Nat /\ DOMAIN rows = 1 .. d
      /\ \A i \in DOMAIN rows : i \in DOMAIN all /\ all[i] = rows[i]
      /\ \A k \in DOMAIN g.made : d + k \in DOMAIN all /\ all[d + k] = g.made[k]
      /\ \A i \in DOMAIN all : i \in DOMAIN rows \/ \E k \in DOMAIN g.made : i = d + k
  <2>1. Len(g.made) \in Nat /\ DOMAIN g.made = 1 .. Len(g.made) /\ d \in Nat
          /\ DOMAIN rows = 1 .. d /\ all \in Seq(Row) /\ DOMAIN all = 1 .. d + Len(g.made)
    BY <1>1
  <2>2. \A i \in DOMAIN rows : i \in DOMAIN all /\ all[i] = rows[i]
    BY <1>1, <2>1
  <2>3. \A k \in DOMAIN g.made : d + k \in DOMAIN all /\ all[d + k] = g.made[k]
    BY <1>1, <2>1
  <2>4. ASSUME NEW i \in DOMAIN all
        PROVE  i \in DOMAIN rows \/ \E k \in DOMAIN g.made : i = d + k
    <3>1. CASE i =< d
      BY <2>1, <3>1
    <3>2. CASE i > d
      <4>1. i - d \in DOMAIN g.made /\ i = d + (i - d)
        BY <2>1, <3>2
      <4> QED
        BY <4>1
    <3> QED
      BY <2>1, <3>1, <3>2
  <2> QED
    BY <2>1, <2>2, <2>3, <2>4
<1> HIDE DEF all, d
<1>3. \A i \in DOMAIN all : (\E k \in DOMAIN rows : all[i] = rows[k])
                            \/ \E k \in DOMAIN g.made : all[i] = g.made[k]
  BY <1>2
<1>4. \A a, n : Added(g, a, n) <=> Marks(g.made, a, n)
  BY <1>1 DEF Added
<1>5. \A a, n : Marks(all, a, n) <=> Marks(rows, a, n) \/ Marks(g.made, a, n)
  BY <1>2 DEF Marks
<1>6. \A i \in DOMAIN rows, k \in DOMAIN g.made :
         rows[i].account # g.made[k].account /\ rows[i].provider # g.made[k].provider
  BY DEF Accounts, Providers
<1>7. ASSUME NEW i \in DOMAIN all
      PROVE  /\ Placed(all[i], au)
             /\ all[i].provider = Primary /\ ~all[i].oc => Primary \notin Names(au)
             /\ Waits(all[i]) => Above(all[i].provider, oc)
  <2>1. CASE \E k \in DOMAIN g.made : all[i] = g.made[k]
    BY <1>1, <2>1 DEF Gained
  <2>2. ASSUME NEW k \in DOMAIN rows, all[i] = rows[k]
        PROVE  /\ Placed(rows[k], au)
               /\ rows[k].provider = Primary /\ ~rows[k].oc => Primary \notin Names(au)
               /\ Waits(rows[k]) => Above(rows[k].provider, oc)
    <3>1. \A a \in Account : ~Added(g, a, rows[k].provider)
      BY <1>4, <1>6 DEF Marks
    <3> QED
      BY <1>1, <3>1 DEF Gained
  <2> QED
    BY <1>3, <2>1, <2>2
<1>8. Balanced(au, oc, all)
  BY <1>1, <1>4, <1>5, <1>7 DEF Balanced, Gained
<1>9. Unique(all)
  <2> SUFFICES ASSUME NEW i \in DOMAIN all, NEW k \in DOMAIN all, i # k
               PROVE  all[i].account # all[k].account /\ all[i].provider # all[k].provider
    BY DEF Unique
  <2>1. CASE i \in DOMAIN rows /\ k \in DOMAIN rows
    BY <1>2, <2>1 DEF Unique
  <2>2. CASE i \in DOMAIN rows /\ k \notin DOMAIN rows
    BY <1>2, <1>6, <2>2
  <2>3. CASE i \notin DOMAIN rows /\ k \in DOMAIN rows
    BY <1>2, <1>6, <2>3
  <2>4. CASE i \notin DOMAIN rows /\ k \notin DOMAIN rows
    <3>1. PICK p \in DOMAIN g.made, q \in DOMAIN g.made : i = d + p /\ k = d + q
      BY <1>2, <2>4
    <3>2. p # q /\ all[i] = g.made[p] /\ all[k] = g.made[q]
      BY <1>2, <3>1
    <3> QED
      BY <3>2 DEF Unique
  <2> QED
    BY <2>1, <2>2, <2>3, <2>4
<1>10. Accounts(all) = Accounts(rows) \cup Accounts(g.made)
  <2>1. Accounts(all) \subseteq Accounts(rows) \cup Accounts(g.made)
    BY <1>3 DEF Accounts
  <2>2. Accounts(rows) \subseteq Accounts(all)
    BY <1>2 DEF Accounts
  <2>3. Accounts(g.made) \subseteq Accounts(all)
    BY <1>2 DEF Accounts
  <2> QED
    BY <2>1, <2>2, <2>3
<1> QED
  BY <1>8, <1>9, <1>10 DEF all

\* A flow's account goes from the pending ones to the complete ones.
LEMMA CompleteClosed ==
    ASSUME Inv, NEW j \in Job, InBalance(j), Unique(vault), pending \cap Accounts(vault) = {},
           job[j].op = "complete", At(j, "store"), CommitComplete(j), UNCHANGED files
    PROVE  Closed(j) \/ (Settled(j) /\ UNCHANGED <<vault, pending>>)
<1> DEFINE g == job[j]
           r == g.made[1]
           au == files["auth"]
           oc == files["opencode"]
<1>1. g \in Call /\ Ledger(g, au, oc, vault) /\ vault \in Seq(Row) /\ pending \subseteq Account
        /\ g.pc = "store"
  BY CallOf DEF Inv, WorldInv, InBalance, At
<1>2. g.made \in Seq(Row) /\ Len(g.made) = 1
  BY <1>1, LockingLedger DEF Locking, Single, Call
<1>3. DOMAIN g.made = {1} /\ r \in Row
  BY <1>2
<1>4. CASE r.account \in pending /\ r.provider \notin Providers(vault)
  <2>1. vault' = Append(vault, r) /\ pending' = pending \ {r.account} /\ Finish(j)
    BY <1>4 DEF CommitComplete
  <2>2. Append(vault, r) = vault \o g.made
    <3>1. g.made = <<r>>
      BY <1>2
    <3> HIDE DEF r
    <3> QED
      BY <1>1, <1>2, <3>1
  <2>3. Unique(g.made) /\ Accounts(g.made) = {r.account} /\ Providers(g.made) = {r.provider}
    BY <1>3 DEF Unique, Accounts, Providers
  <2> HIDE DEF r
  <2>4. /\ Accounts(g.made) \cap Accounts(vault) = {}
        /\ Providers(g.made) \cap Providers(vault) = {}
    BY <1>4, <2>3
  <2>5. /\ Balanced(au, oc, vault \o g.made) /\ Unique(vault \o g.made)
        /\ Accounts(vault \o g.made) = Accounts(vault) \cup Accounts(g.made)
    BY <1>1, <2>3, <2>4, JoinedBalance
  <2>6. pending' \cap Accounts(vault') = {} /\ Balanced(au, oc, vault') /\ Unique(vault')
    BY <2>1, <2>2, <2>3, <2>5
  <2>7. Closed(j)
    BY <2>1, <2>6, FinishClosed
  <2> QED
    BY <2>7
<1>5. CASE ~(r.account \in pending /\ r.provider \notin Providers(vault))
  BY <1>5, FailSettled DEF CommitComplete
<1> QED
  BY <1>4, <1>5

\* The accounts of a bundle come in.
LEMMA ImportClosed ==
    ASSUME Inv, NEW j \in Job, InBalance(j), Unique(vault), pending \cap Accounts(vault) = {},
           job[j].op = "import", At(j, "store"), CommitImport(j), UNCHANGED files
    PROVE  Closed(j) \/ (Settled(j) /\ UNCHANGED <<vault, pending>>)
<1> DEFINE g == job[j]
           au == files["auth"]
           oc == files["opencode"]
           fresh == /\ Accounts(g.made) \cap (pending \cup Accounts(vault)) = {}
                    /\ Providers(g.made) \cap Providers(vault) = {}
<1>1. g \in Call /\ Ledger(g, au, oc, vault) /\ vault \in Seq(Row) /\ pending \subseteq Account
        /\ g.pc = "store"
  BY CallOf DEF Inv, WorldInv, InBalance, At
<1>2. Unique(g.made)
  BY <1>1, LockingLedger DEF Locking, Several, Unique
<1>3. CASE fresh
  <2>1. vault' = vault \o g.made /\ pending' = pending /\ Finish(j)
    BY <1>3 DEF CommitImport
  <2>2. /\ Balanced(au, oc, vault \o g.made) /\ Unique(vault \o g.made)
        /\ Accounts(vault \o g.made) = Accounts(vault) \cup Accounts(g.made)
    BY <1>1, <1>2, <1>3, JoinedBalance
  <2>3. pending' \cap Accounts(vault') = {} /\ Balanced(au, oc, vault') /\ Unique(vault')
    BY <1>3, <2>1, <2>2
  <2>4. Closed(j)
    BY <2>1, <2>3, FinishClosed
  <2> QED
    BY <2>4
<1>4. CASE ~fresh
  BY <1>4, FailSettled DEF CommitImport
<1> QED
  BY <1>3, <1>4

\* The rows that an application has configured are marked.
LEMMA UpdatedBalance ==
    ASSUME NEW g \in Call, g.op = "apply", g.pc = "store",
           NEW au, NEW oc, NEW rows \in Seq(Row), Ledger(g, au, oc, rows), Unique(rows),
           NEW more, more = [i \in DOMAIN rows |-> Updated(rows[i], g.made)]
    PROVE  Balanced(au, oc, more) /\ Unique(more) /\ Accounts(more) = Accounts(rows)
<1>1. /\ Gained(g, au, oc, rows) /\ Updates(g, rows) /\ ~InHand(g) /\ g.made \in Seq(Row)
  BY LockingLedger DEF Locking, InHand, Call
<1>2. \A a, n : Added(g, a, n) <=> Marks(g.made, a, n)
  BY <1>1 DEF Added
<1>3. \A k \in DOMAIN g.made : g.made[k].oc /\ g.made[k] \in Row
  BY <1>1 DEF Gained, Configures
<1>4. DOMAIN more = DOMAIN rows
  OBVIOUS
<1>5. ASSUME NEW i \in DOMAIN rows
      PROVE  /\ more[i].account = rows[i].account /\ more[i].provider = rows[i].provider
             /\ more[i].oc <=> rows[i].oc \/ rows[i].account \in Accounts(g.made)
  <2>1. rows[i] \in Row /\ more[i] = Updated(rows[i], g.made)
    OBVIOUS
  <2>2. CASE rows[i].account \notin Accounts(g.made)
    BY <2>1, <2>2 DEF Updated
  <2>3. CASE rows[i].account \in Accounts(g.made)
    <3>1. RowOf(g.made, rows[i].account).oc = TRUE
      <4>1. \E k \in DOMAIN g.made : g.made[k].account = rows[i].account
        BY <2>3 DEF Accounts
      <4>2. (CHOOSE k \in DOMAIN g.made : g.made[k].account = rows[i].account) \in DOMAIN g.made
        BY <4>1
      <4> QED
        BY <1>3, <4>2 DEF RowOf, Row
    <3>2. more[i].account = rows[i].account /\ more[i].provider = rows[i].provider
            /\ more[i].oc = RowOf(g.made, rows[i].account).oc
      BY <2>1, <2>3 DEF Updated, Row
    <3> QED
      BY <2>3, <3>1, <3>2
  <2> QED
    BY <2>2, <2>3
\* A row is among those configured exactly if it has been added.
<1>6. ASSUME NEW i \in DOMAIN rows
      PROVE  rows[i].account \in Accounts(g.made)
               <=> Marks(g.made, rows[i].account, rows[i].provider)
  <2>1. ASSUME NEW k \in DOMAIN g.made, g.made[k].account = rows[i].account
        PROVE  g.made[k].provider = rows[i].provider
    <3>1. PICK p \in DOMAIN rows : rows[p].account = g.made[k].account
                                   /\ rows[p].provider = g.made[k].provider
      BY <1>1 DEF Updates, Has
    <3>2. p = i
      BY <2>1, <3>1 DEF Unique
    <3> QED
      BY <3>1, <3>2
  <2> QED
    BY <1>3, <2>1 DEF Accounts, Marks
\* What has been added is a row.
<1>7. ASSUME NEW a, NEW n, Marks(g.made, a, n)
      PROVE  \E i \in DOMAIN rows : rows[i].account = a /\ rows[i].provider = n
  <2>1. PICK k \in DOMAIN g.made : g.made[k].account = a /\ g.made[k].provider = n
    BY <1>7 DEF Marks
  <2>2. Has(rows, g.made[k])
    BY <1>1 DEF Updates
  <2> QED
    BY <2>1, <2>2 DEF Has
<1>8. \A a, n : Marks(more, a, n) <=> Marks(rows, a, n) \/ Marks(g.made, a, n)
  <2> TAKE a, n
  <2>1. ASSUME Marks(more, a, n) PROVE Marks(rows, a, n) \/ Marks(g.made, a, n)
    BY <1>4, <1>5, <1>6, <2>1 DEF Marks
  <2>2. ASSUME Marks(rows, a, n) PROVE Marks(more, a, n)
    BY <1>4, <1>5, <2>2 DEF Marks
  <2>3. ASSUME Marks(g.made, a, n) PROVE Marks(more, a, n)
    <3>1. PICK i \in DOMAIN rows : rows[i].account = a /\ rows[i].provider = n
      BY <1>7, <2>3
    <3>2. more[i].oc
      BY <1>5, <1>6, <2>3, <3>1
    <3> QED
      BY <1>4, <1>5, <3>1, <3>2 DEF Marks
  <2> QED
    BY <2>1, <2>2, <2>3
<1>9. ASSUME NEW i \in DOMAIN more
      PROVE  /\ Placed(more[i], au)
             /\ more[i].provider = Primary /\ ~more[i].oc => Primary \notin Names(au)
             /\ Waits(more[i]) => Above(more[i].provider, oc)
  <2>1. Placed(more[i], au)
    <3>1. CASE rows[i].oc
      BY <1>1, <1>4, <1>5, <3>1 DEF Gained, Placed
    <3>2. CASE rows[i].account \in Accounts(g.made)
      <4>1. PICK k \in DOMAIN g.made : g.made[k].provider = rows[i].provider /\ g.made[k].oc
        BY <1>4, <1>6, <3>2 DEF Marks
      <4> QED
        BY <1>1, <1>4, <1>5, <4>1 DEF Gained, Placed
    <3> QED
      BY <1>4, <1>5, <3>1, <3>2 DEF Placed
  <2>2. more[i].provider = Primary /\ ~more[i].oc => Primary \notin Names(au)
    BY <1>1, <1>2, <1>4, <1>5, <1>6 DEF Gained
  <2>3. ASSUME Waits(more[i]) PROVE Above(more[i].provider, oc)
    <3>1. Waits(rows[i]) /\ rows[i].account \notin Accounts(g.made)
      BY <1>4, <1>5, <2>3 DEF Waits
    <3>2. \A a : ~Marks(g.made, a, rows[i].provider)
      <4> SUFFICES ASSUME NEW a, Marks(g.made, a, rows[i].provider) PROVE FALSE
        OBVIOUS
      <4>1. PICK p \in DOMAIN rows : rows[p].account = a /\ rows[p].provider = rows[i].provider
        BY <1>7
      <4>2. p = i
        BY <1>4, <4>1 DEF Unique
      <4> QED
        BY <1>4, <1>6, <3>1, <4>1, <4>2
    <3> QED
      BY <1>1, <1>2, <1>4, <1>5, <3>1, <3>2 DEF Gained
  <2> QED
    BY <2>1, <2>2, <2>3
<1>10. Balanced(au, oc, more)
  BY <1>1, <1>2, <1>8, <1>9 DEF Balanced, Gained
<1>11. Unique(more) /\ Accounts(more) = Accounts(rows)
  BY <1>4, <1>5 DEF Unique, Accounts
<1> QED
  BY <1>10, <1>11

\* The flags of the accounts in the vault are updated.
LEMMA ApplyClosed ==
    ASSUME Inv, NEW j \in Job, InBalance(j), Unique(vault), pending \cap Accounts(vault) = {},
           job[j].op = "apply", At(j, "store"), CommitApply(j), UNCHANGED files
    PROVE  Closed(j) \/ (Settled(j) /\ UNCHANGED <<vault, pending>>)
<1> DEFINE g == job[j]
           au == files["auth"]
           oc == files["opencode"]
<1>1. g \in Call /\ Ledger(g, au, oc, vault) /\ vault \in Seq(Row) /\ g.pc = "store"
  BY CallOf DEF Inv, WorldInv, InBalance, At
<1>2. CASE Accounts(g.made) \subseteq Accounts(vault)
  <2>1. vault' = [i \in DOMAIN vault |-> Updated(vault[i], g.made)] /\ pending' = pending
          /\ Finish(j)
    BY <1>2 DEF CommitApply
  <2>2. Balanced(au, oc, vault') /\ Unique(vault') /\ Accounts(vault') = Accounts(vault)
    BY <1>1, <2>1, UpdatedBalance
  <2>3. pending' \cap Accounts(vault') = {}
    BY <2>1, <2>2
  <2>4. Closed(j)
    BY <2>1, <2>2, <2>3, FinishClosed
  <2> QED
    BY <2>4
<1>3. CASE ~(Accounts(g.made) \subseteq Accounts(vault))
  BY <1>3, FailSettled DEF CommitApply
<1> QED
  BY <1>2, <1>3

\* The transaction that ends a completion, an import or an application.
LEMMA CommitClosed ==
    ASSUME Inv, NEW j \in Job, InBalance(j), Unique(vault), pending \cap Accounts(vault) = {},
           Commit(j)
    PROVE  Closed(j) \/ (Settled(j) /\ UNCHANGED <<vault, pending>>)
  BY CompleteClosed, ImportClosed, ApplyClosed DEF Commit

\* No backup that call g may need has been pruned.
Restorable(g) == \A k \in DOMAIN g.writes :
              ~(g.writes[k].before.exists /\ g.writes[k].newer = Retention)

\* A rollback restores what was there, one write after the other.
LEMMA UndoSettled ==
    ASSUME Inv, NEW j \in Job, InBalance(j), Restorable(job[j]), Undo(j)
    PROVE  Settled(j)
<1> DEFINE g == job[j]
           w == Last(g.writes)
           left == Front(g.writes)
           h == [g EXCEPT !.writes = left]
           au == files["auth"]
           oc == files["opencode"]
<1>1. /\ g \in Call /\ g.pc = "undo" /\ g.writes \in Seq(Result) /\ g.writes # <<>>
      /\ Ledger(g, au, oc, vault) /\ vault' = vault
  BY CallOf DEF Inv, Undo, At, PlaceInv, InBalance, Call, book
<1>2. left \in Seq(Result) /\ w \in Result /\ ~(w.before.exists /\ w.newer = Retention)
  <2>1. Len(g.writes) \in DOMAIN g.writes /\ w = g.writes[Len(g.writes)]
    BY <1>1 DEF Last
  <2> QED
    BY <1>1, <2>1, UndoneOriginal DEF Restorable
<1>3. /\ files' = [files EXCEPT ![w.file] = w.before]
      /\ IF left = <<>> THEN Finish(j) ELSE Become(j, h) /\ UNCHANGED lock
  BY <1>2 DEF Undo
<1>4. ASSUME NEW f \in File
      PROVE  Original(g.writes, f, files[f]) = Original(left, f, files'[f])
  <2>1. Original(g.writes, f, files[f])
          = Original(left, f, IF w.file = f THEN w.before ELSE files[f])
    BY <1>1, UndoneOriginal
  <2>2. files'[f] = IF w.file = f THEN w.before ELSE files[f]
    BY <1>3 DEF Inv, WorldInv
  <2> QED
    BY <2>1, <2>2
<1> HIDE DEF w, left
<1>5. Balanced(Original(left, "auth", files'["auth"]),
               Original(left, "opencode", files'["opencode"]), vault')
  BY <1>1, <1>4 DEF Ledger
<1>6. CASE left = <<>>
  <2>1. Balanced(files'["auth"], files'["opencode"], vault')
    BY <1>5, <1>6, OriginalNone
  <2> QED
    BY <1>1, <1>3, <1>6, <2>1, CallOf DEF Settled, Finish, Become, Inv
<1>7. CASE left # <<>>
  <2>1. h.pc = "undo" /\ h.writes = left /\ Become(j, h)
    BY <1>1, <1>3, <1>7 DEF Call
  <2> HIDE DEF h
  <2>2. Ledger(h, files'["auth"], files'["opencode"], vault') /\ Busy(h)
    BY <1>5, <2>1 DEF Ledger, Busy
  <2>3. job'[j] = h /\ \A i \in Job \ {j} : job'[i] = job[i]
    BY <2>1, CallOf DEF Become, Inv
  <2> QED
    BY <1>1, <2>2, <2>3 DEF Settled
<1> QED
  BY <1>6, <1>7

(***************************************************************************)
(* Removing, in balance                                                    *)
(***************************************************************************)
\* The rows from number b on.
LEMMA FromOn ==
    ASSUME NEW rows \in Seq(Row), NEW b \in 1 .. Len(rows) + 1
    PROVE  /\ SubSeq(rows, b, Len(rows)) \in Seq(Row)
           /\ Len(SubSeq(rows, b, Len(rows))) = Len(rows) - b + 1
           /\ \A i \in 1 .. Len(rows) - b + 1 : SubSeq(rows, b, Len(rows))[i] = rows[b + i - 1]
<1> DEFINE l == Len(rows)
<1>1. l \in Nat /\ b \in Nat /\ b >= 1 /\ DOMAIN rows = 1 .. l /\ b - 1 =< l
  OBVIOUS
<1> HIDE DEF l
<1>2. SubSeq(rows, b, l) \in Seq(Row)
  BY <1>1
<1>3. Len(SubSeq(rows, b, l)) = l - b + 1
  BY <1>1
<1>4. \A i \in 1 .. l - b + 1 : SubSeq(rows, b, l)[i] = rows[b + i - 1]
  BY <1>1
<1> QED
  BY <1>2, <1>3, <1>4 DEF l

\* One sequence after the other.
LEMMA Joined ==
    ASSUME NEW s \in Seq(Row), NEW t \in Seq(Row)
    PROVE  /\ s \o t \in Seq(Row) /\ Len(s \o t) = Len(s) + Len(t)
           /\ \A i \in 1 .. Len(s) + Len(t) :
                 (s \o t)[i] = IF i =< Len(s) THEN s[i] ELSE t[i - Len(s)]
  OBVIOUS

\* The rows of the other accounts, when accounts and numbers are unique.
LEMMA OthersRows ==
    ASSUME NEW rows \in Seq(Row), Unique(rows), NEW a, a \in Accounts(rows),
           NEW rest, rest = Others(rows, a)
    PROVE  /\ rest \in Seq(Row) /\ Unique(rest)
           /\ \A i \in DOMAIN rest : \E k \in DOMAIN rows : rest[i] = rows[k] /\ rows[k].account # a
           /\ \A k \in DOMAIN rows : rows[k].account # a => \E i \in DOMAIN rest : rest[i] = rows[k]
<1> DEFINE d == CHOOSE i \in DOMAIN rows : rows[i].account = a
<1>1. d \in DOMAIN rows /\ rows[d].account = a
  BY DEF Accounts
<1>2. rest = RemoveAt(rows, d)
  BY DEF Others
<1> HIDE DEF d
<1>3. /\ Len(rows) \in Nat /\ DOMAIN rows = 1 .. Len(rows) /\ d \in 1 .. Len(rows)
  BY <1>1
<1>4. /\ rest \in Seq(Row) /\ DOMAIN rest = 1 .. Len(rows) - 1
      /\ \A i \in 1 .. Len(rows) - 1 : rest[i] = rows[IF i < d THEN i ELSE i + 1]
  <2>1. rest = SubSeq(rows, 1, d - 1) \o SubSeq(rows, d + 1, Len(rows))
    BY <1>2 DEF RemoveAt
  <2>2. /\ SubSeq(rows, 1, d - 1) \in Seq(Row) /\ Len(SubSeq(rows, 1, d - 1)) = d - 1
        /\ \A i \in 1 .. d - 1 : SubSeq(rows, 1, d - 1)[i] = rows[i]
    BY <1>3
  <2>3. /\ SubSeq(rows, d + 1, Len(rows)) \in Seq(Row)
        /\ Len(SubSeq(rows, d + 1, Len(rows))) = Len(rows) - d
        /\ \A i \in 1 .. Len(rows) - d : SubSeq(rows, d + 1, Len(rows))[i] = rows[d + i]
    <3>1. d + 1 \in 1 .. Len(rows) + 1 /\ Len(rows) - (d + 1) + 1 = Len(rows) - d
      BY <1>3
    <3>2. \A i \in 1 .. Len(rows) - d : (d + 1) + i - 1 = d + i
      BY <1>3
    <3> QED
      BY <3>1, <3>2, FromOn
  <2> DEFINE s == SubSeq(rows, 1, d - 1)
             t == SubSeq(rows, d + 1, Len(rows))
  <2> HIDE DEF s, t
  <2>4. /\ s \in Seq(Row) /\ Len(s) = d - 1 /\ \A i \in 1 .. d - 1 : s[i] = rows[i]
        /\ t \in Seq(Row) /\ Len(t) = Len(rows) - d /\ \A i \in 1 .. Len(rows) - d : t[i] = rows[d + i]
        /\ rest = s \o t
    BY <2>1, <2>2, <2>3 DEF s, t
  <2>5. /\ rest \in Seq(Row) /\ Len(rest) = Len(rows) - 1
        /\ \A i \in 1 .. Len(rest) : rest[i] = IF i =< Len(s) THEN s[i] ELSE t[i - Len(s)]
    <3>1. s \in Seq(Row) /\ t \in Seq(Row) /\ rest = s \o t
      BY <2>4
    <3>2. /\ rest \in Seq(Row) /\ Len(rest) = Len(s) + Len(t)
          /\ \A i \in 1 .. Len(s) + Len(t) : rest[i] = IF i =< Len(s) THEN s[i] ELSE t[i - Len(s)]
      BY <3>1, Joined
    <3>3. Len(s) + Len(t) = Len(rows) - 1
      BY <1>3, <2>4
    <3> QED
      BY <3>2, <3>3
  <2>6. ASSUME NEW i \in 1 .. Len(rows) - 1
        PROVE  rest[i] = rows[IF i < d THEN i ELSE i + 1]
    <3>1. CASE i < d
      <4>1. i =< Len(s) /\ i \in 1 .. d - 1
        BY <1>3, <2>4, <3>1
      <4> QED
        BY <2>4, <2>5, <3>1, <4>1
    <3>2. CASE ~(i < d)
      <4>1. ~(i =< Len(s)) /\ i - Len(s) \in 1 .. Len(rows) - d /\ d + (i - Len(s)) = i + 1
        BY <1>3, <2>4, <3>2
      <4> QED
        BY <2>4, <2>5, <3>2, <4>1
    <3> QED
      BY <3>1, <3>2
  <2> QED
    BY <2>5, <2>6
<1>5. \A i \in DOMAIN rest : \E k \in DOMAIN rows : rest[i] = rows[k] /\ rows[k].account # a
  <2> TAKE i \in DOMAIN rest
  <2> DEFINE k == IF i < d THEN i ELSE i + 1
  <2>1. k \in DOMAIN rows /\ k # d /\ rest[i] = rows[k]
    BY <1>3, <1>4
  <2> QED
    BY <1>1, <2>1 DEF Unique
<1>6. \A k \in DOMAIN rows : rows[k].account # a => \E i \in DOMAIN rest : rest[i] = rows[k]
  <2> TAKE k \in DOMAIN rows
  <2> HAVE rows[k].account # a
  <2>1. k # d
    BY <1>1
  <2>2. CASE k < d
    <3>1. k \in DOMAIN rest /\ rest[k] = rows[k]
      BY <1>3, <1>4, <2>2
    <3> QED
      BY <3>1
  <2>3. CASE k > d
    <3>1. k - 1 \in DOMAIN rest /\ ~(k - 1 < d) /\ (k - 1) + 1 = k
      BY <1>3, <1>4, <2>3
    <3>2. rest[k - 1] = rows[k]
      BY <1>4, <3>1
    <3> QED
      BY <3>1, <3>2
  <2> QED
    BY <1>3, <2>1, <2>2, <2>3
<1>7. Unique(rest)
  <2> SUFFICES ASSUME NEW i \in DOMAIN rest, NEW k \in DOMAIN rest, i # k
               PROVE  rest[i].account # rest[k].account /\ rest[i].provider # rest[k].provider
    BY DEF Unique
  <2> DEFINE p == IF i < d THEN i ELSE i + 1
             q == IF k < d THEN k ELSE k + 1
  <2>1. p \in DOMAIN rows /\ q \in DOMAIN rows /\ p # q /\ rest[i] = rows[p] /\ rest[k] = rows[q]
    BY <1>3, <1>4
  <2> QED
    BY <2>1 DEF Unique
<1> QED
  BY <1>4, <1>5, <1>6, <1>7

\* Each file is edited once.
Distinct(s) == \A i, k \in DOMAIN s : i # k => s[i].file # s[k].file

\* Plan s has an edit of file f.
Edits(s, f) == \E i \in DOMAIN s : s[i].file = f

\* Plan t is s and, if cond, an edit of another file.
Extends(t, s, cond, f, n, key) ==
    /\ t \in Seq(Edit) /\ Distinct(t)
    /\ \A i \in DOMAIN t :
          \/ \E k \in DOMAIN s : t[i] = s[k]
          \/ cond /\ t[i].file = f /\ t[i].provider = n /\ t[i].key = key
    /\ \A h : Edits(t, h) <=> Edits(s, h) \/ (cond /\ h = f)

\* One more edit, perhaps, of another file.
LEMMA PlanMore ==
    ASSUME NEW s \in Seq(Edit), Distinct(s), NEW cond \in BOOLEAN, NEW f, NEW n, NEW key,
           cond => /\ f \in File /\ n \in Nat \ {Unassigned} /\ key \in Account \cup {Nothing}
                   /\ ~Edits(s, f),
           NEW t, t = s \o EditIf(cond, f, n, key)
    PROVE  Extends(t, s, cond, f, n, key)
<1> DEFINE e == [file |-> f, provider |-> n, key |-> key]
<1>1. e.file = f /\ e.provider = n /\ e.key = key /\ (cond => e \in Edit)
  BY DEF Edit
<1>2. EditIf(cond, f, n, key) = IF cond THEN <<e>> ELSE <<>>
  BY DEF EditIf
<1> HIDE DEF e
<1>3. CASE ~cond
  <2>1. t = s
    BY <1>2, <1>3
  <2> QED
    BY <1>3, <2>1 DEF Extends
<1>4. CASE cond
  <2>1. t = s \o <<e>>
    BY <1>2, <1>4
  <2>2. /\ DOMAIN t = DOMAIN s \cup {Len(s) + 1} /\ t[Len(s) + 1] = e
        /\ \A i \in DOMAIN s : t[i] = s[i]
        /\ DOMAIN s = 1 .. Len(s) /\ Len(s) \in Nat /\ t \in Seq(Edit)
    <3>1. e \in Edit
      BY <1>1, <1>4
    <3>2. t = Append(s, e)
      BY <2>1, <3>1
    <3> QED
      BY <3>1, <3>2
  <2>3. Distinct(t)
    <3> SUFFICES ASSUME NEW i \in DOMAIN t, NEW k \in DOMAIN t, i # k
                 PROVE  t[i].file # t[k].file
      BY DEF Distinct
    <3>1. CASE i \in DOMAIN s /\ k \in DOMAIN s
      BY <2>2, <3>1 DEF Distinct
    <3>2. CASE i \notin DOMAIN s
      <4>1. t[i] = e /\ k \in DOMAIN s /\ t[k] = s[k]
        BY <2>2, <3>2
      <4> QED
        BY <1>1, <1>4, <4>1 DEF Edits
    <3>3. CASE k \notin DOMAIN s
      <4>1. t[k] = e /\ i \in DOMAIN s /\ t[i] = s[i]
        BY <2>2, <3>3
      <4> QED
        BY <1>1, <1>4, <4>1 DEF Edits
    <3> QED
      BY <3>1, <3>2, <3>3
  <2>4. \A i \in DOMAIN t :
           \/ \E k \in DOMAIN s : t[i] = s[k]
           \/ cond /\ t[i].file = f /\ t[i].provider = n /\ t[i].key = key
    BY <1>1, <1>4, <2>2
  <2>5. ASSUME NEW h PROVE Edits(t, h) <=> Edits(s, h) \/ (cond /\ h = f)
    <3>1. Edits(t, h) => Edits(s, h) \/ h = f
      BY <1>1, <2>4 DEF Edits
    <3>2. Edits(s, h) => Edits(t, h)
      BY <2>2 DEF Edits
    <3>3. Edits(t, f)
      BY <1>1, <2>2 DEF Edits
    <3> QED
      BY <1>4, <3>1, <3>2, <3>3
  <2> QED
    BY <2>2, <2>3, <2>4, <2>5 DEF Extends
<1> QED
  BY <1>3, <1>4

\* A removal promotes the account with the lowest of the numbers that are seen.
LEMMA Candidates ==
    ASSUME NEW rows \in Seq(Row)
    PROVE  /\ \A r \in PromotionCandidate(rows) :
                 /\ \E i \in DOMAIN rows : rows[i] = r
                 /\ Legible(r.provider)
                 /\ \A i \in DOMAIN rows :
                       Legible(rows[i].provider) => r.provider =< rows[i].provider
           /\ (\E i \in DOMAIN rows : Legible(rows[i].provider)) => PromotionCandidate(rows) # {}
<1>1. ASSUME NEW r \in PromotionCandidate(rows)
      PROVE  /\ \E i \in DOMAIN rows : rows[i] = r
             /\ Legible(r.provider)
             /\ \A i \in DOMAIN rows :
                   Legible(rows[i].provider) => r.provider =< rows[i].provider
  BY DEF PromotionCandidate
<1>2. ASSUME NEW k \in DOMAIN rows, Legible(rows[k].provider)
      PROVE  PromotionCandidate(rows) # {}
  <2> DEFINE N == {n \in Providers(rows) : Legible(n)}
  <2>1. rows[k].provider \in N /\ N \in SUBSET Nat /\ IsFiniteSet(N)
    <3>1. Providers(rows) \in SUBSET Nat /\ IsFiniteSet(Providers(rows))
      BY RowsOf
    <3>2. rows[k].provider \in N
      BY <1>2 DEF Providers
    <3> QED
      BY <3>1, <3>2, FS_Subset
  <2>2. PICK n \in N : \A m \in N : n =< m
    <3> HIDE DEF N
    <3> QED
      BY <2>1, LeastExists
  <2>3. PICK i \in DOMAIN rows : rows[i].provider = n
    BY DEF Providers
  <2>4. \A m \in DOMAIN rows : Legible(rows[m].provider) => rows[m].provider \in N
    BY DEF Providers
  <2>5. rows[i] \in PromotionCandidate(rows)
    BY <2>2, <2>3, <2>4 DEF PromotionCandidate
  <2> QED
    BY <2>5
<1> QED
  BY <1>1, <1>2

\* The account that a removal of row r promotes.
Promoting(rows, r) ==
    LET rest == Others(rows, r.account)
    IN  IF r.provider = Primary /\ PromotionCandidate(rest) # {}
          THEN CHOOSE c \in PromotionCandidate(rest) : TRUE ELSE NoRow

\* It is one of the others, and the first of those that are seen.
LEMMA PromotingOK ==
    ASSUME NEW rows \in Seq(Row), Unique(rows), NEW d \in DOMAIN rows,
           NEW c, c = Promoting(rows, rows[d])
    PROVE  /\ c # NoRow =>
                /\ rows[d].provider = Primary /\ c \in Row
                /\ \E i \in DOMAIN rows \ {d} : rows[i] = c
                /\ \A i \in DOMAIN rows \ {d} :
                      Legible(rows[i].provider) => c.provider =< rows[i].provider
           /\ c = NoRow /\ rows[d].provider = Primary =>
                \A i \in DOMAIN rows \ {d} : ~Legible(rows[i].provider)
<1> DEFINE a == rows[d].account
           rest == Others(rows, a)
<1>1. a \in Accounts(rows)
  BY DEF Accounts
<1>2. /\ rest \in Seq(Row)
      /\ \A i \in DOMAIN rest : \E k \in DOMAIN rows : rest[i] = rows[k] /\ rows[k].account # a
      /\ \A k \in DOMAIN rows : rows[k].account # a => \E i \in DOMAIN rest : rest[i] = rows[k]
  BY <1>1, OthersRows
<1>3. \A k \in DOMAIN rows : rows[k].account # a <=> k # d
  BY DEF Unique
<1>4. c = IF rows[d].provider = Primary /\ PromotionCandidate(rest) # {}
            THEN CHOOSE r \in PromotionCandidate(rest) : TRUE ELSE NoRow
  BY DEF Promoting
<1> HIDE DEF rest, a
<1>5. CASE rows[d].provider = Primary /\ PromotionCandidate(rest) # {}
  <2>1. c \in PromotionCandidate(rest)
    BY <1>4, <1>5
  <2>2. PICK i \in DOMAIN rest : rest[i] = c
    BY <1>2, <2>1, Candidates
  <2>3. c \in Row /\ \E k \in DOMAIN rows \ {d} : rows[k] = c
    BY <1>2, <1>3, <2>2
  <2>4. ASSUME NEW k \in DOMAIN rows \ {d}, Legible(rows[k].provider)
        PROVE  c.provider =< rows[k].provider
    <3>1. PICK m \in DOMAIN rest : rest[m] = rows[k]
      BY <1>2, <1>3
    <3>2. \A p \in DOMAIN rest : Legible(rest[p].provider) => c.provider =< rest[p].provider
      BY <1>2, <2>1, Candidates
    <3> QED
      BY <2>4, <3>1, <3>2
  <2>5. c # NoRow
    BY <2>3, PoolAssumption DEF Row, NoRow
  <2> QED
    BY <1>5, <2>3, <2>4, <2>5
<1>6. CASE ~(rows[d].provider = Primary /\ PromotionCandidate(rest) # {})
  <2>1. c = NoRow
    BY <1>4, <1>6
  <2>2. rows[d].provider = Primary => \A k \in DOMAIN rows \ {d} : ~Legible(rows[k].provider)
    BY <1>2, <1>3, <1>6, Candidates
  <2> QED
    BY <2>1, <2>2
<1> QED
  BY <1>5, <1>6

\* One edit, perhaps.
LEMMA PlanFirst ==
    ASSUME NEW cond \in BOOLEAN, NEW f \in File, NEW n \in Nat \ {Unassigned},
           NEW key \in Account \cup {Nothing}, NEW t, t = EditIf(cond, f, n, key)
    PROVE  Extends(t, <<>>, cond, f, n, key)
<1> DEFINE e == [file |-> f, provider |-> n, key |-> key]
<1>1. e.file = f /\ e.provider = n /\ e.key = key /\ e \in Edit
  BY DEF Edit
<1>2. t = IF cond THEN <<e>> ELSE <<>>
  BY DEF EditIf
<1> HIDE DEF e
<1>3. DOMAIN <<>> = {}
  OBVIOUS
<1>4. CASE ~cond
  BY <1>2, <1>3, <1>4 DEF Extends, Distinct, Edits
<1>5. CASE cond
  <2>1. t \in Seq(Edit) /\ DOMAIN t = {1} /\ t[1] = e
    BY <1>1, <1>2, <1>5
  <2> QED
    BY <1>1, <1>3, <1>5, <2>1 DEF Extends, Distinct, Edits
<1> QED
  BY <1>4, <1>5

\* A plan that gives the primary's entry of auth.json another key, or none, and takes
\* the number of that key out of opencode.json.
Replaces(plan, first, takes, n, key) ==
    /\ plan \in Seq(Edit) /\ Distinct(plan)
    /\ \A i \in DOMAIN plan :
          /\ plan[i].file = "auth" =>
                first /\ plan[i].provider = Primary /\ plan[i].key = key
          /\ plan[i].file = "opencode" =>
                takes /\ plan[i].provider = n /\ plan[i].key = Nothing
    /\ first => Edits(plan, "auth")
    /\ takes => Edits(plan, "opencode")

\* The edits of a primary account's removal, by file.
LEMMA PrimaryPlan ==
    ASSUME NEW first \in BOOLEAN, NEW gone \in BOOLEAN, NEW takes \in BOOLEAN,
           NEW more \in BOOLEAN, NEW key \in Account \cup {Nothing}, NEW n,
           takes => ~gone /\ n \in Nat \ {Unassigned}, more => takes,
           NEW plan,
           plan = EditIf(first, "auth", Primary, key) \o EditIf(gone, "omo", Primary, Nothing)
                    \o EditIf(takes, "opencode", n, Nothing) \o EditIf(more, "omo", n, Nothing)
    PROVE  Replaces(plan, first, takes, n, key)
<1>1. PICK p1 : p1 = EditIf(first, "auth", Primary, key)
  OBVIOUS
<1>2. PICK p2 : p2 = p1 \o EditIf(gone, "omo", Primary, Nothing)
  OBVIOUS
<1>3. PICK p3 : p3 = p2 \o EditIf(takes, "opencode", n, Nothing)
  OBVIOUS
<1>4. plan = p3 \o EditIf(more, "omo", n, Nothing)
  BY <1>1, <1>2, <1>3
<1>5. Extends(p1, <<>>, first, "auth", Primary, key)
  <2>1. "auth" \in File /\ Primary \in Nat \ {Unassigned}
    OBVIOUS
  <2> HIDE DEF Primary, Unassigned, Nothing, File
  <2> QED
    BY <1>1, <2>1, PlanFirst
<1>6. /\ p1 \in Seq(Edit) /\ Distinct(p1)
      /\ \A i \in DOMAIN p1 : /\ first /\ p1[i].file = "auth" /\ p1[i].provider = Primary
                              /\ p1[i].key = key
      /\ \A h : Edits(p1, h) <=> first /\ h = "auth"
  <2>1. DOMAIN <<>> = {}
    OBVIOUS
  <2> QED
    BY <1>5, <2>1 DEF Extends, Edits
<1>7. Extends(p2, p1, gone, "omo", Primary, Nothing)
  <2>1. gone => /\ "omo" \in File /\ Primary \in Nat \ {Unassigned}
                /\ Nothing \in Account \cup {Nothing} /\ ~Edits(p1, "omo")
    BY <1>6
  <2> HIDE DEF Primary, Unassigned, Nothing, File
  <2> QED
    BY <1>2, <1>6, <2>1, PlanMore
<1>8. Extends(p3, p2, takes, "opencode", n, Nothing)
  <2>1. takes => /\ "opencode" \in File /\ n \in Nat \ {Unassigned}
                 /\ Nothing \in Account \cup {Nothing}
                 /\ ~Edits(p2, "opencode")
    BY <1>6, <1>7 DEF Extends
  <2> HIDE DEF Primary, Unassigned, Nothing, File
  <2>2. p2 \in Seq(Edit) /\ Distinct(p2)
    BY <1>7 DEF Extends
  <2> QED
    BY <1>3, <2>1, <2>2, PlanMore
<1>9. Extends(plan, p3, more, "omo", n, Nothing)
  <2>1. more => /\ "omo" \in File /\ n \in Nat \ {Unassigned}
                /\ Nothing \in Account \cup {Nothing}
                /\ ~Edits(p3, "omo")
    BY <1>6, <1>7, <1>8 DEF Extends
  <2> HIDE DEF Primary, Unassigned, Nothing, File
  <2>2. p3 \in Seq(Edit) /\ Distinct(p3)
    BY <1>8 DEF Extends
  <2> QED
    BY <1>4, <2>1, <2>2, PlanMore
<1>10. \A i \in DOMAIN plan :
          /\ plan[i].file = "auth" => first /\ plan[i].provider = Primary /\ plan[i].key = key
          /\ plan[i].file = "opencode" => takes /\ plan[i].provider = n /\ plan[i].key = Nothing
  <2>1. \A i \in DOMAIN plan : plan[i].file = "omo" \/ \E k \in DOMAIN p3 : plan[i] = p3[k]
    BY <1>9 DEF Extends
  <2>2. \A i \in DOMAIN p3 : \/ \E k \in DOMAIN p2 : p3[i] = p2[k]
                             \/ /\ takes /\ p3[i].file = "opencode" /\ p3[i].provider = n
                                /\ p3[i].key = Nothing
    BY <1>8 DEF Extends
  <2>3. \A i \in DOMAIN p2 : p2[i].file = "omo" \/ \E k \in DOMAIN p1 : p2[i] = p1[k]
    BY <1>7 DEF Extends
  <2> QED
    BY <1>6, <2>1, <2>2, <2>3
<1>11. /\ first => Edits(plan, "auth")
       /\ takes => Edits(plan, "opencode")
  BY <1>6, <1>7, <1>8, <1>9 DEF Extends
<1>12. plan \in Seq(Edit) /\ Distinct(plan)
  BY <1>9 DEF Extends
<1> QED
  BY <1>10, <1>11, <1>12 DEF Replaces

\* A plan that takes number n out of opencode.json.
Drops(plan, first, n) ==
    /\ plan \in Seq(Edit) /\ Distinct(plan)
    /\ \A i \in DOMAIN plan :
          /\ plan[i].file # "auth"
          /\ plan[i].file = "opencode" =>
                first /\ plan[i].provider = n /\ plan[i].key = Nothing
    /\ first => Edits(plan, "opencode")

\* The edits of another account's removal, by file.
LEMMA SecondaryPlan ==
    ASSUME NEW first \in BOOLEAN, NEW more \in BOOLEAN, NEW n \in Nat \ {Unassigned},
           NEW plan,
           plan = EditIf(first, "opencode", n, Nothing) \o EditIf(more, "omo", n, Nothing)
    PROVE  Drops(plan, first, n)
<1>1. PICK p : p = EditIf(first, "opencode", n, Nothing)
  OBVIOUS
<1>2. Extends(p, <<>>, first, "opencode", n, Nothing)
  <2>1. "opencode" \in File /\ Nothing \in Account \cup {Nothing}
    OBVIOUS
  <2> HIDE DEF Unassigned, Nothing, File
  <2> QED
    BY <1>1, <2>1, PlanFirst
<1>3. /\ p \in Seq(Edit) /\ Distinct(p)
      /\ \A i \in DOMAIN p : /\ first /\ p[i].file = "opencode" /\ p[i].provider = n
                             /\ p[i].key = Nothing
      /\ \A h : Edits(p, h) <=> first /\ h = "opencode"
  <2>1. DOMAIN <<>> = {}
    OBVIOUS
  <2> QED
    BY <1>2, <2>1 DEF Extends, Edits
<1>4. Extends(plan, p, more, "omo", n, Nothing)
  <2>1. more => /\ "omo" \in File /\ n \in Nat \ {Unassigned}
                /\ Nothing \in Account \cup {Nothing} /\ ~Edits(p, "omo")
    BY <1>3
  <2>2. plan = p \o EditIf(more, "omo", n, Nothing)
    BY <1>1
  <2> HIDE DEF Unassigned, Nothing, File
  <2> QED
    BY <1>3, <2>1, <2>2, PlanMore
<1>5. \A i \in DOMAIN plan : plan[i].file = "omo" \/ \E k \in DOMAIN p : plan[i] = p[k]
  BY <1>4 DEF Extends
<1>6. \A i \in DOMAIN plan : /\ plan[i].file # "auth"
                             /\ plan[i].file = "opencode" =>
                                   first /\ plan[i].provider = n /\ plan[i].key = Nothing
  BY <1>3, <1>5
<1>7. plan \in Seq(Edit) /\ Distinct(plan) /\ (first => Edits(plan, "opencode"))
  BY <1>3, <1>4 DEF Extends
<1> QED
  BY <1>6, <1>7 DEF Drops

\* The edits of a removal, by file; c is promoted, and takes over the key or does not.
Intended(plan, removed, c, takes) ==
    /\ plan \in Seq(Edit) /\ Distinct(plan)
    /\ \A i \in DOMAIN plan :
          /\ plan[i].file = "auth" =>
                /\ plan[i].provider = Primary /\ removed.provider = Primary /\ removed.oc
                /\ plan[i].key = IF takes THEN c.account ELSE Nothing
          /\ plan[i].file = "opencode" =>
                /\ plan[i].key = Nothing
                /\ IF removed.provider = Primary
                     THEN takes /\ plan[i].provider = c.provider
                     ELSE removed.oc /\ plan[i].provider = removed.provider
    /\ removed.provider = Primary /\ removed.oc => Edits(plan, "auth")
    /\ (IF removed.provider = Primary THEN takes ELSE removed.oc) =>
          Edits(plan, "opencode")

\* They are what is planned.
LEMMA PlansOf ==
    ASSUME NEW removed \in Row, NEW c \in Row \cup {NoRow},
           NEW plan, plan = (IF removed.provider = Primary THEN PlanPrimary(removed, c)
                                                           ELSE PlanSecondary(removed)),
           NEW takes \in BOOLEAN, takes <=> removed.oc /\ c # NoRow /\ c.oc
    PROVE  Intended(plan, removed, c, takes)
<1>1. /\ removed.oc \in BOOLEAN /\ removed.omo \in BOOLEAN
      /\ removed.provider \in Nat \ {Unassigned}
      /\ c.oc \in BOOLEAN /\ c.omo \in BOOLEAN
      /\ c.account \in Account \cup {Nothing}
      /\ c # NoRow => c.account \in Account /\ c.provider \in Nat \ {Unassigned}
  <2>1. CASE c \in Row
    BY <2>1 DEF Row
  <2>2. CASE c = NoRow
    BY <2>2 DEF Row, NoRow
  <2> QED
    BY <2>1, <2>2
<1>2. CASE removed.provider = Primary
  <2>1. PICK gone \in BOOLEAN : gone <=> c = NoRow /\ removed.omo
    <3>1. (c = NoRow /\ removed.omo) \in BOOLEAN
      OBVIOUS
    <3> QED
      BY <3>1
  <2>2. PICK more \in BOOLEAN : more <=> takes /\ c.omo
    <3>1. (takes /\ c.omo) \in BOOLEAN
      OBVIOUS
    <3> QED
      BY <3>1
  <2>3. PICK key : key = IF takes THEN c.account ELSE Nothing
    OBVIOUS
  <2>4. plan = EditIf(removed.oc, "auth", Primary, key) \o EditIf(gone, "omo", Primary, Nothing)
                 \o EditIf(takes, "opencode", c.provider, Nothing)
                 \o EditIf(more, "omo", c.provider, Nothing)
    <3>1. plan = PlanPrimary(removed, c)
      BY <1>2
    <3>2. /\ EditIf(c = NoRow /\ removed.omo, "omo", Primary, Nothing)
               = EditIf(gone, "omo", Primary, Nothing)
          /\ EditIf(removed.oc /\ c # NoRow /\ c.oc, "opencode", c.provider, Nothing)
               = EditIf(takes, "opencode", c.provider, Nothing)
          /\ EditIf((removed.oc /\ c # NoRow /\ c.oc) /\ c.omo, "omo", c.provider, Nothing)
               = EditIf(more, "omo", c.provider, Nothing)
          /\ EditIf(removed.oc, "auth", Primary,
                    IF removed.oc /\ c # NoRow /\ c.oc THEN c.account ELSE Nothing)
               = EditIf(removed.oc, "auth", Primary, key)
      BY <2>1, <2>2, <2>3 DEF EditIf
    <3> QED
      BY <3>1, <3>2, Zenon DEF PlanPrimary
  <2>5. /\ key \in Account \cup {Nothing} /\ (takes => ~gone /\ c.provider \in Nat \ {Unassigned})
        /\ (more => takes)
    BY <1>1, <2>1, <2>2, <2>3
  <2>6. Replaces(plan, removed.oc, takes, c.provider, key)
    <3> HIDE DEF Primary, Unassigned, Nothing
    <3> QED
      BY <1>1, <2>1, <2>2, <2>4, <2>5, PrimaryPlan
  <2> QED
    BY <1>2, <2>3, <2>6 DEF Replaces, Intended
<1>3. CASE removed.provider # Primary
  <2>1. plan = EditIf(removed.oc, "opencode", removed.provider, Nothing)
                 \o EditIf(removed.omo, "omo", removed.provider, Nothing)
    BY <1>3 DEF PlanSecondary
  <2>2. Drops(plan, removed.oc, removed.provider)
    <3> HIDE DEF Primary, Unassigned, Nothing
    <3> QED
      BY <1>1, <2>1, SecondaryPlan
  <2> QED
    BY <1>3, <2>2 DEF Drops, Intended
<1> QED
  BY <1>2, <1>3

\* What a removal plans, with the files and the vault in balance.
LEMMA PlannedOK ==
    ASSUME NEW g, NEW rows \in Seq(Row), Unique(rows), NEW d \in DOMAIN rows, g.row = rows[d],
           NEW c, c = Promoting(rows, g.row), g.promoted = c.account,
           g.plan = (IF g.row.provider = Primary THEN PlanPrimary(g.row, c)
                                                 ELSE PlanSecondary(g.row)),
           NEW au, NEW oc, Balanced(au, oc, rows),
           \A n \in Names(oc) : n = Primary \/ Legible(n)
    PROVE  Planned(g, rows) /\ Reduced(g, au, oc, au, oc, rows)
<1> DEFINE r == g.row
<1>1. /\ r \in Row /\ c \in Row \cup {NoRow}
      /\ c # NoRow =>
            /\ r.provider = Primary
            /\ \E i \in DOMAIN rows \ {d} : rows[i] = c
            /\ \A i \in DOMAIN rows \ {d} :
                  Legible(rows[i].provider) => c.provider =< rows[i].provider
      /\ c = NoRow /\ r.provider = Primary =>
            \A i \in DOMAIN rows \ {d} : ~Legible(rows[i].provider)
  BY PromotingOK
<1>2. PICK takes \in BOOLEAN : takes <=> r.oc /\ c # NoRow /\ c.oc
  <2>1. (r.oc /\ c # NoRow /\ c.oc) \in BOOLEAN
    OBVIOUS
  <2> QED
    BY <2>1
<1>3. /\ \A i \in DOMAIN rows : rows[i] \in Row /\ rows[i].account \in Account /\ rows[i].account # Nothing
      /\ NoRow.account = Nothing
  BY PoolAssumption DEF Row, NoRow
<1>4. c # NoRow => \A i \in DOMAIN rows : rows[i].account = g.promoted => rows[i] = c
  BY <1>1 DEF Unique
<1>5. c = NoRow => \A i \in DOMAIN rows : rows[i].account # g.promoted
  BY <1>3
<1>6. r.provider = Primary => (TakesOver(g, rows) <=> takes)
  BY <1>1, <1>2, <1>4, <1>5 DEF TakesOver
<1>7. \A n : Clears(g, rows, n) <=> IF r.provider = Primary THEN takes /\ c.provider = n
                                                           ELSE r.oc /\ r.provider = n
  BY <1>1, <1>2, <1>4, <1>6 DEF Clears
<1> HIDE DEF r
<1>8. Intended(g.plan, r, c, takes)
  <2>1. g.plan = IF r.provider = Primary THEN PlanPrimary(r, c) ELSE PlanSecondary(r)
    BY DEF r
  <2> HIDE DEF Primary
  <2> QED
    BY <1>1, <1>2, <2>1, PlansOf
<1>9. g.promoted # Nothing =>
         /\ r.provider = Primary /\ g.promoted # r.account
         /\ \E i \in DOMAIN rows : rows[i].account = g.promoted
  BY <1>1, <1>3 DEF Unique, r
\* Without a key to take over, no other account has one: its number would be seen, and
\* the account that is promoted, waiting, would have a higher one.
<1>10. ASSUME r.provider = Primary, r.oc, ~takes, NEW i \in DOMAIN rows, rows[i].oc, i # d
       PROVE  FALSE
  <2> DEFINE p == rows[i].provider
             a == rows[i].account
  <2>1. p \in Provider /\ p # Primary
    BY <1>10 DEF Balanced, Placed, Unique, r
  <2>2. Carries(au, oc, a, p)
    BY <1>3, <1>10, <2>1 DEF Balanced, Marks
  <2>3. au.entries[p] = Nothing
    BY <2>1 DEF Balanced, Tidy, Names
  <2>4. p \in Names(oc) /\ Legible(p)
    BY <1>3, <2>1, <2>2, <2>3 DEF Carries, Names
  <2>5. c # NoRow /\ c.provider =< p
    BY <1>1, <1>10, <2>4
  <2>6. PICK k \in DOMAIN rows \ {d} : rows[k] = c
    BY <1>1, <2>5
  <2>7. Waits(c)
    BY <1>2, <1>10, <2>5, <2>6 DEF Waits, Unique, r
  <2>8. p < c.provider
    BY <2>4, <2>6, <2>7 DEF Balanced, Above
  <2>9. p \in Nat /\ c.provider \in Nat
    BY <1>3, <2>6 DEF Row
  <2> QED
    BY <2>5, <2>8, <2>9
<1>11. Planned(g, rows)
  <2>1. Successor(g, rows) = IF r.provider = Primary /\ takes THEN c.account ELSE Nothing
    BY <1>6 DEF Successor, TakesOver, r
  <2>2. g.row.provider = Primary /\ g.row.oc /\ ~TakesOver(g, rows) =>
          \A i \in DOMAIN rows : rows[i].oc => rows[i] = g.row
    BY <1>6, <1>10 DEF r
  <2>3. \A i \in DOMAIN g.plan :
           /\ g.plan[i].file = "auth" =>
                 /\ g.plan[i].provider = Primary /\ g.row.provider = Primary /\ g.row.oc
                 /\ g.plan[i].key = Successor(g, rows)
           /\ g.plan[i].file = "opencode" =>
                 Clears(g, rows, g.plan[i].provider) /\ g.plan[i].key = Nothing
    BY <1>7, <1>8, <2>1 DEF r, Intended
  <2> QED
    BY <1>8, <1>9, <2>2, <2>3 DEF Planned, Distinct, Intended, r
<1>12. Reduced(g, au, oc, au, oc, rows)
  BY <1>7, <1>8 DEF Reduced, Pends, Edits, Intended, r
<1> QED
  BY <1>11, <1>12

\* The plan of a removal, in balance.
LEMMA PlanRemovalSettled ==
    ASSUME Inv, NEW j \in Job, InBalance(j), Unique(vault), Readable, PlanRemoval(j)
    PROVE  Settled(j)
<1> DEFINE g == job[j]
           c == Promoting(vault, g.row)
           plan == IF g.row.provider = Primary THEN PlanPrimary(g.row, c)
                                               ELSE PlanSecondary(g.row)
           l == IF plan = <<>> THEN "delete" ELSE "edit_load"
           h == [g EXCEPT !.plan = plan, !.promoted = c.account, !.pc = l]
           au == files["auth"]
           oc == files["opencode"]
<1>1. /\ g \in Call /\ g.pc = "remaining" /\ g.op = "remove" /\ vault \in Seq(Row)
      /\ Become(j, h) /\ UNCHANGED <<files, vault>> /\ Ledger(g, au, oc, vault)
  BY CallOf DEF Inv, WorldInv, PlanRemoval, At, PlaceInv, InBalance, book, Promoting
<1>2. /\ h.op = "remove" /\ h.pc = l /\ h.plan = plan /\ h.promoted = c.account
      /\ h.row = g.row /\ h.writes = g.writes
  BY <1>1 DEF Call
<1> HIDE DEF h, plan, c
<1>3. /\ Balanced(au, oc, vault) /\ g.writes = <<>>
      /\ \E i \in DOMAIN vault : vault[i] = g.row
  BY <1>1, OriginalNone DEF Ledger, Forward, Shrunk
<1>4. PICK d \in DOMAIN vault : vault[d] = g.row
  BY <1>3
<1>5. Planned(h, vault) /\ Reduced(h, au, oc, au, oc, vault)
  BY <1>1, <1>2, <1>3, <1>4, PlannedOK DEF Readable, plan, c
<1>6. Shrunk(h, au, oc, vault)
  BY <1>2, <1>3, <1>5, OriginalNone DEF Shrunk
<1>7. Ledger(h, au, oc, vault) /\ Busy(h)
  BY <1>2, <1>3, <1>6, OriginalNone DEF Ledger, Forward, Locking, Busy
<1> QED
  BY <1>1, <1>7, BecomeSettled

\* What is left of a plan.
LEMMA RestOfPlan ==
    ASSUME NEW plan \in Seq(Edit), plan # <<>>, Distinct(plan), NEW t, t = Tail(plan)
    PROVE  /\ Distinct(t) /\ Head(plan) \in Edit /\ (Len(plan) = 1 => t = <<>>)
           /\ \E i \in DOMAIN plan : plan[i] = Head(plan)
           /\ \A i \in DOMAIN t : \E k \in DOMAIN plan : t[i] = plan[k]
           /\ \A f : /\ Edits(plan, f) <=> Head(plan).file = f \/ Edits(t, f)
                     /\ Head(plan).file = f => ~Edits(t, f)
<1>1. /\ Len(plan) \in Nat /\ Len(plan) > 0 /\ DOMAIN plan = 1 .. Len(plan)
      /\ t \in Seq(Edit) /\ Len(t) = Len(plan) - 1 /\ DOMAIN t = 1 .. Len(plan) - 1
      /\ \A i \in DOMAIN t : t[i] = plan[i + 1]
      /\ Head(plan) = plan[1]
  OBVIOUS
<1>2. \A i \in DOMAIN t : i + 1 \in DOMAIN plan /\ i + 1 # 1
  BY <1>1
<1>3. 1 \in DOMAIN plan /\ plan[1] \in Edit
  BY <1>1
<1>4. \A k \in DOMAIN plan : k = 1 \/ (k - 1 \in DOMAIN t /\ t[k - 1] = plan[k])
  <2> TAKE k \in DOMAIN plan
  <2>1. CASE k # 1
    <3>1. k - 1 \in DOMAIN t /\ (k - 1) + 1 = k
      BY <1>1, <2>1
    <3> QED
      BY <1>1, <3>1
  <2> QED
    BY <2>1
<1>5. \A i, k \in DOMAIN t : i # k => i + 1 # k + 1
  BY <1>1
<1>6. Distinct(t)
  BY <1>1, <1>2, <1>5 DEF Distinct
<1>7. ASSUME NEW f
      PROVE  /\ Edits(plan, f) <=> Head(plan).file = f \/ Edits(t, f)
             /\ Head(plan).file = f => ~Edits(t, f)
  <2>1. ASSUME Edits(plan, f) PROVE Head(plan).file = f \/ Edits(t, f)
    BY <1>1, <1>4, <2>1 DEF Edits
  <2>2. ASSUME Edits(t, f) PROVE Edits(plan, f) /\ Head(plan).file # f
    BY <1>1, <1>2, <1>3, <2>2 DEF Edits, Distinct
  <2>3. ASSUME Head(plan).file = f PROVE Edits(plan, f)
    BY <1>1, <1>3, <2>3 DEF Edits
  <2> QED
    BY <2>1, <2>2, <2>3
<1>8. Len(plan) = 1 => t = <<>>
  BY <1>1
<1>9. \A i \in DOMAIN t : \E k \in DOMAIN plan : t[i] = plan[k]
  BY <1>1, <1>2
<1> QED
  BY <1>1, <1>3, <1>6, <1>7, <1>8, <1>9

\* doc2 is doc with edit e, if it is of file f.
Amended(e, f, doc, doc2) ==
    \A n \in Provider :
       doc2.entries[n] = IF e.file = f /\ n = e.provider THEN e.key ELSE doc.entries[n]

\* The plan with one edit less, and its edit made.
LEMMA EditedPlan ==
    ASSUME NEW g, NEW h, g.plan \in Seq(Edit), g.plan # <<>>,
           h.row = g.row, h.promoted = g.promoted, h.plan = Tail(g.plan),
           NEW rows, Unique(rows), Planned(g, rows),
           NEW au0, NEW oc0, NEW au, NEW oc, NEW au2, NEW oc2,
           Reduced(g, au0, oc0, au, oc, rows),
           Amended(Head(g.plan), "auth", au, au2), Amended(Head(g.plan), "opencode", oc, oc2)
    PROVE  Planned(h, rows) /\ Reduced(h, au0, oc0, au2, oc2, rows)
<1> DEFINE e == Head(g.plan)
<1>1. Distinct(g.plan)
  BY DEF Planned, Distinct
<1>2. /\ Distinct(h.plan) /\ e \in Edit
      /\ \E i \in DOMAIN g.plan : g.plan[i] = e
      /\ \A i \in DOMAIN h.plan : \E k \in DOMAIN g.plan : h.plan[i] = g.plan[k]
      /\ \A f : /\ Edits(g.plan, f) <=> e.file = f \/ Edits(h.plan, f)
                /\ e.file = f => ~Edits(h.plan, f)
  BY <1>1, RestOfPlan
<1>3. \A f : (Pends(g, f) <=> Edits(g.plan, f)) /\ (Pends(h, f) <=> Edits(h.plan, f))
  BY DEF Pends, Edits
<1> HIDE DEF e
<1>4. TakesOver(h, rows) <=> TakesOver(g, rows)
  BY DEF TakesOver
<1>5. Successor(h, rows) = Successor(g, rows)
  BY <1>4 DEF Successor
<1>6. \A n : Clears(h, rows, n) <=> Clears(g, rows, n)
  BY <1>4 DEF Clears
<1>7. /\ e.file = "auth" =>
            /\ e.provider = Primary /\ g.row.provider = Primary /\ g.row.oc
            /\ e.key = Successor(g, rows)
      /\ e.file = "opencode" => Clears(g, rows, e.provider) /\ e.key = Nothing
  BY <1>2 DEF Planned
<1>8. Planned(h, rows)
  <2>1. \A i \in DOMAIN h.plan :
           /\ h.plan[i].file = "auth" =>
                 /\ h.plan[i].provider = Primary /\ h.row.provider = Primary /\ h.row.oc
                 /\ h.plan[i].key = Successor(h, rows)
           /\ h.plan[i].file = "opencode" =>
                 Clears(h, rows, h.plan[i].provider) /\ h.plan[i].key = Nothing
    BY <1>2, <1>5, <1>6 DEF Planned
  <2>2. \A i, k \in DOMAIN h.plan : i # k => h.plan[i].file # h.plan[k].file
    BY <1>2 DEF Distinct
  <2> QED
    BY <1>4, <2>1, <2>2 DEF Planned
\* Only one number is taken out.
<1>9. \A n, m : Clears(g, rows, n) /\ Clears(g, rows, m) => n = m
  BY DEF Clears, Unique
<1>10. ASSUME NEW n \in Provider
       PROVE  au2.entries[n] = IF /\ n = Primary /\ g.row.provider = Primary /\ g.row.oc
                                  /\ ~Pends(h, "auth")
                                 THEN Successor(g, rows) ELSE au0.entries[n]
  <2>1. /\ au.entries[n] = IF /\ n = Primary /\ g.row.provider = Primary /\ g.row.oc
                              /\ ~Pends(g, "auth")
                             THEN Successor(g, rows) ELSE au0.entries[n]
        /\ au2.entries[n] = IF e.file = "auth" /\ n = e.provider THEN e.key ELSE au.entries[n]
    BY DEF Reduced, Amended, e
  <2>2. CASE e.file = "auth"
    <3>1. Pends(g, "auth") /\ ~Pends(h, "auth")
      BY <1>2, <1>3, <2>2
    <3> QED
      BY <1>7, <2>1, <2>2, <3>1
  <2>3. CASE e.file # "auth"
    <3>1. Pends(g, "auth") <=> Pends(h, "auth")
      BY <1>2, <1>3, <2>3
    <3> QED
      BY <2>1, <2>3, <3>1
  <2> QED
    BY <2>2, <2>3
<1>11. ASSUME NEW n \in Provider
       PROVE  oc2.entries[n] = IF Clears(g, rows, n) /\ ~Pends(h, "opencode")
                                 THEN Nothing ELSE oc0.entries[n]
  <2>1. /\ oc.entries[n] = IF Clears(g, rows, n) /\ ~Pends(g, "opencode")
                             THEN Nothing ELSE oc0.entries[n]
        /\ oc2.entries[n]
             = IF e.file = "opencode" /\ n = e.provider THEN e.key ELSE oc.entries[n]
    BY DEF Reduced, Amended, e
  <2>2. CASE e.file = "opencode"
    <3>1. Pends(g, "opencode") /\ ~Pends(h, "opencode")
      BY <1>2, <1>3, <2>2
    <3> QED
      BY <1>7, <1>9, <2>1, <2>2, <3>1
  <2>3. CASE e.file # "opencode"
    <3>1. Pends(g, "opencode") <=> Pends(h, "opencode")
      BY <1>2, <1>3, <2>3
    <3> QED
      BY <2>1, <2>3, <3>1
  <2> QED
    BY <2>2, <2>3
<1>12. Reduced(h, au0, oc0, au2, oc2, rows)
  BY <1>5, <1>6, <1>10, <1>11 DEF Reduced
<1> QED
  BY <1>8, <1>12

\* Going on to the next edit, in balance.
LEMMA EditedLedger ==
    ASSUME NEW g \in Call, g.op = "remove", g.pc \in {"edit_load", "edit_write"}, g.plan # <<>>,
           NEW rows, Unique(rows), NEW au, NEW oc, Ledger(g, au, oc, rows),
           NEW k \in Call, Like(g, k, {"writes"}), NEW au2, NEW oc2,
           Original(k.writes, "auth", au2) = Original(g.writes, "auth", au),
           Original(k.writes, "opencode", oc2) = Original(g.writes, "opencode", oc),
           Amended(Head(g.plan), "auth", au, au2), Amended(Head(g.plan), "opencode", oc, oc2)
    PROVE  Ledger(NextEdit(k), au2, oc2, rows) /\ Busy(NextEdit(k))
<1> DEFINE h == NextEdit(k)
           l == IF Len(k.plan) = 1 THEN "delete" ELSE "edit_load"
           au0 == Original(g.writes, "auth", au)
           oc0 == Original(g.writes, "opencode", oc)
<1>1. /\ h.op = k.op /\ h.row = k.row /\ h.promoted = k.promoted /\ h.writes = k.writes
      /\ h.plan = Tail(k.plan) /\ h.pc = l
  BY DEF NextEdit, Call
<1>2. k.op = g.op /\ k.row = g.row /\ k.promoted = g.promoted /\ k.plan = g.plan
  BY DEF Like
<1>3. /\ Balanced(au0, oc0, rows) /\ Planned(g, rows) /\ Reduced(g, au0, oc0, au, oc, rows)
      /\ \E i \in DOMAIN rows : rows[i] = g.row
  BY DEF Ledger, Forward, Shrunk
<1>4. g.plan \in Seq(Edit)
  BY DEF Call
<1> HIDE DEF h, au0, oc0
<1>5. Planned(h, rows) /\ Reduced(h, au0, oc0, au2, oc2, rows)
  BY <1>1, <1>2, <1>3, <1>4, EditedPlan
<1>6. h.pc = "delete" => h.plan = <<>>
  BY <1>1, <1>2, <1>3, <1>4, RestOfPlan DEF Planned, Distinct
<1>7. Original(h.writes, "auth", au2) = au0 /\ Original(h.writes, "opencode", oc2) = oc0
  BY <1>1 DEF au0, oc0
<1>8. Shrunk(h, au2, oc2, rows)
  BY <1>1, <1>2, <1>3, <1>5, <1>6, <1>7 DEF Shrunk
<1>9. Ledger(h, au2, oc2, rows) /\ Busy(h)
  BY <1>1, <1>2, <1>3, <1>7, <1>8 DEF Ledger, Forward, Locking, Busy
<1> QED
  BY <1>9 DEF h

\* A file to be edited, before the write
LEMMA LoadEditSettled ==
    ASSUME Inv, NEW j \in Job, InBalance(j), Unique(vault), LoadEdit(j)
    PROVE  Settled(j)
<1> DEFINE g == job[j]
           e == Head(g.plan)
           h == [g EXCEPT !.loaded = files[e.file], !.pc = "edit_write"]
           absent == e.key = Nothing /\ e.provider \notin Names(files[e.file])
           au == files["auth"]
           oc == files["opencode"]
<1>1. /\ g \in Call /\ g.pc = "edit_load" /\ g.op = "remove" /\ g.plan \in Seq(Edit)
      /\ g.plan # <<>> /\ UNCHANGED <<files, vault>> /\ Ledger(g, au, oc, vault)
  BY CallOf DEF Inv, LoadEdit, At, PlaceInv, InBalance, Call, book
<1>2. e \in Edit
  BY <1>1
<1>3. CASE Fail(j, g)
  BY <1>1, <1>3, FailSettled
<1>4. CASE absent /\ Become(j, NextEdit(g))
  <2>1. Amended(e, "auth", au, au) /\ Amended(e, "opencode", oc, oc)
    BY <1>4 DEF Amended, Names
  <2>2. Like(g, g, {"writes"})
    BY DEF Like
  <2>3. Ledger(NextEdit(g), au, oc, vault) /\ Busy(NextEdit(g))
    BY <1>1, <2>1, <2>2, EditedLedger
  <2> QED
    BY <1>1, <1>4, <2>3, BecomeSettled
<1>5. CASE Become(j, h)
  <2>1. /\ h.pc = "edit_write" /\ h.loaded = files[e.file] /\ h.op = g.op /\ h.row = g.row
        /\ h.plan = g.plan /\ h.promoted = g.promoted /\ h.writes = g.writes
    BY <1>1 DEF Call
  <2> HIDE DEF h
  <2>2. Planned(h, vault) <=> Planned(g, vault)
    BY <2>1 DEF Planned, TakesOver, Successor, Clears
  <2>3. \A au0, oc0 : Reduced(h, au0, oc0, au, oc, vault) <=> Reduced(g, au0, oc0, au, oc, vault)
    BY <2>1 DEF Reduced, TakesOver, Successor, Clears, Pends
  <2>4. Shrunk(h, au, oc, vault)
    BY <1>1, <2>1, <2>2, <2>3 DEF Ledger, Forward, Shrunk
  <2>5. Ledger(h, au, oc, vault) /\ Busy(h)
    BY <1>1, <2>1, <2>4 DEF Ledger, Forward, Locking, Busy
  <2> QED
    BY <1>1, <1>5, <2>5, BecomeSettled
<1>6. \/ Fail(j, g) \/ (absent /\ Become(j, NextEdit(g))) \/ Become(j, h)
  BY DEF LoadEdit
<1> QED
  BY <1>3, <1>4, <1>5, <1>6

\* An edited file, in balance.
LEMMA WriteEditSettled ==
    ASSUME Inv, NEW j \in Job, InBalance(j), Quiet(j), Unique(vault), WriteEdit(j)
    PROVE  Settled(j)
<1> DEFINE g == job[j]
           e == Head(g.plan)
           f == e.file
           k == Wrote(j, f)
           h == NextEdit(k)
           doc == Edited(g.loaded, e)
           au == files["auth"]
           oc == files["opencode"]
           au2 == IF f = "auth" THEN doc ELSE au
           oc2 == IF f = "opencode" THEN doc ELSE oc
<1>1. /\ g \in Call /\ g.pc = "edit_write" /\ g.op = "remove" /\ g.plan \in Seq(Edit)
      /\ g.plan # <<>> /\ Ledger(g, au, oc, vault)
  BY CallOf DEF Inv, WriteEdit, At, PlaceInv, InBalance, Call
<1>2. e \in Edit /\ f \in File
  <2>1. e \in Edit
    BY <1>1
  <2> QED
    BY <2>1 DEF Edit
<1>3. Put(j, f, doc, h)
  BY EditPut
<1>4. k \in Call /\ Like(g, k, {"writes"})
  BY <1>1, <1>2, WroteOK
<1>5. /\ f = "auth" => g.loaded = au
      /\ f = "opencode" => g.loaded = oc
  BY <1>1 DEF Ledger, Forward, Shrunk
<1>6. /\ Original(k.writes, "auth", au2) = Original(g.writes, "auth", au)
      /\ Original(k.writes, "opencode", oc2) = Original(g.writes, "opencode", oc)
  <2>1. ("auth" # f => au2 = files["auth"]) /\ ("opencode" # f => oc2 = files["opencode"])
    OBVIOUS
  <2> HIDE DEF au2, oc2, f
  <2> QED
    BY <1>2, <2>1, WroteOriginal
<1>7. \A n \in Provider : doc.entries[n] = IF n = e.provider THEN e.key ELSE g.loaded.entries[n]
  <2>1. g.loaded \in Document
    BY <1>1 DEF Call
  <2> HIDE DEF e
  <2> QED
    BY <2>1 DEF Edited, With, Without, Document
<1> HIDE DEF doc, k
<1>8. Amended(e, "auth", au, au2) /\ Amended(e, "opencode", oc, oc2)
  BY <1>5, <1>7 DEF Amended
<1> HIDE DEF au2, oc2, e, f
<1>9. Ledger(h, au2, oc2, vault) /\ Busy(h)
  BY <1>1, <1>4, <1>6, <1>8, EditedLedger DEF e
<1> HIDE DEF h
<1> QED
  BY <1>2, <1>3, <1>9, PutSettled DEF au2, oc2

\* Row r is s, once account p is promoted.
Moved(r, s, p) ==
    /\ r.account = s.account /\ r.oc = s.oc
    /\ r.provider = IF s.account = p THEN Primary ELSE s.provider

\* The rows that a removal leaves.
LEMMA DeletedRows ==
    ASSUME NEW g, NEW rows \in Seq(Row), Unique(rows), NEW d \in DOMAIN rows, rows[d] = g.row,
           Planned(g, rows),
           NEW more, more = Promoted(Others(rows, g.row.account), g.promoted)
    PROVE  /\ more \in Seq(Row) /\ Unique(more)
           /\ \A i \in DOMAIN more : \E k \in DOMAIN rows \ {d} :
                 Moved(more[i], rows[k], g.promoted)
           /\ \A k \in DOMAIN rows \ {d} : \E i \in DOMAIN more :
                 Moved(more[i], rows[k], g.promoted)
<1> DEFINE a == g.row.account
           rest == Others(rows, a)
<1>1. a \in Accounts(rows)
  BY DEF Accounts
<1>2. /\ rest \in Seq(Row) /\ Unique(rest)
      /\ \A i \in DOMAIN rest : \E k \in DOMAIN rows : rest[i] = rows[k] /\ rows[k].account # a
      /\ \A k \in DOMAIN rows : rows[k].account # a => \E i \in DOMAIN rest : rest[i] = rows[k]
  BY <1>1, OthersRows
<1>3. \A k \in DOMAIN rows : rows[k].account # a <=> k # d
  BY DEF Unique
<1>4. more = [i \in DOMAIN rest |->
                 IF rest[i].account = g.promoted THEN [rest[i] EXCEPT !.provider = Primary]
                                                 ELSE rest[i]]
  BY DEF Promoted
<1> HIDE DEF rest, a
<1>5. \A i \in DOMAIN rest : rest[i] \in Row
  BY <1>2
<1>6. /\ DOMAIN more = DOMAIN rest
      /\ \A i \in DOMAIN more : Moved(more[i], rest[i], g.promoted) /\ more[i] \in Row
  <2>1. DOMAIN more = DOMAIN rest
    BY <1>4
  <2>2. ASSUME NEW i \in DOMAIN rest
        PROVE  Moved(more[i], rest[i], g.promoted) /\ more[i] \in Row
    <3>1. PICK r \in Row : r = rest[i]
      BY <1>5
    <3>2. PICK t : t = more[i]
      OBVIOUS
    <3>3. t = IF r.account = g.promoted THEN [r EXCEPT !.provider = Primary] ELSE r
      BY <1>4, <3>1, <3>2
    <3>4. t \in Row /\ Moved(t, r, g.promoted)
      BY <3>3 DEF Row, Moved
    <3> QED
      BY <3>1, <3>2, <3>4
  <2> QED
    BY <2>1, <2>2
<1>7. more \in Seq(Row)
  <2>1. Len(rest) \in Nat /\ DOMAIN rest = 1 .. Len(rest)
    BY <1>2
  <2>2. more \in [1 .. Len(rest) -> Row]
    BY <1>4, <1>6, <2>1
  <2> QED
    BY <2>1, <2>2
\* Nobody else is the primary account, if one is promoted.
<1>8. Unique(more)
  <2> SUFFICES ASSUME NEW i \in DOMAIN more, NEW k \in DOMAIN more, i # k
               PROVE  more[i].account # more[k].account /\ more[i].provider # more[k].provider
    BY DEF Unique
  <2>1. rest[i].account # rest[k].account /\ rest[i].provider # rest[k].provider
    BY <1>2, <1>6 DEF Unique
  <2>2. ASSUME NEW n \in DOMAIN rest, rest[n].account = g.promoted, NEW m \in DOMAIN rest
        PROVE  rest[m].provider # Primary
    <3>1. g.promoted # Nothing
      BY <1>5, <2>2, PoolAssumption DEF Row
    <3>2. g.row.provider = Primary
      BY <3>1 DEF Planned
    <3>3. PICK p \in DOMAIN rows : rest[m] = rows[p] /\ p # d
      BY <1>2, <1>3
    <3> QED
      BY <3>2, <3>3 DEF Unique
  <2> QED
    BY <1>6, <2>1, <2>2 DEF Moved
<1>9. ASSUME NEW i \in DOMAIN more
      PROVE  \E k \in DOMAIN rows \ {d} :
                Moved(more[i], rows[k], g.promoted)
  <2>1. PICK k \in DOMAIN rows : rest[i] = rows[k] /\ k # d
    BY <1>2, <1>3, <1>6
  <2> QED
    BY <1>6, <2>1
<1>10. ASSUME NEW k \in DOMAIN rows \ {d}
       PROVE  \E i \in DOMAIN more :
                 Moved(more[i], rows[k], g.promoted)
  <2>1. PICK i \in DOMAIN rest : rest[i] = rows[k]
    BY <1>2, <1>3
  <2> QED
    BY <1>6, <2>1
<1> QED
  BY <1>7, <1>8, <1>9, <1>10

\* The balance once the row is gone.
LEMMA DeletedBalance ==
    ASSUME NEW g, NEW rows \in Seq(Row), Unique(rows), NEW d \in DOMAIN rows, rows[d] = g.row,
           Planned(g, rows), g.plan = <<>>,
           NEW au0, NEW oc0, NEW au, NEW oc, Balanced(au0, oc0, rows),
           Reduced(g, au0, oc0, au, oc, rows),
           NEW more, more = Promoted(Others(rows, g.row.account), g.promoted)
    PROVE  Balanced(au, oc, more)
<1> DEFINE From(i, k) == Moved(more[i], rows[k], g.promoted)
<1>1. /\ \A i \in DOMAIN more : \E k \in DOMAIN rows \ {d} : From(i, k)
      /\ \A k \in DOMAIN rows \ {d} : \E i \in DOMAIN more : From(i, k)
  BY DeletedRows
<1> HIDE DEF From
<1>2. Primary \in Provider
  BY ProviderNumbers
<1>3. \A a \in Account : a # Nothing
  BY PoolAssumption
<1>4. \A i \in DOMAIN rows : rows[i].account \in Account
  BY DEF Row
<1>5. \A f : ~Pends(g, f)
  BY DEF Pends
<1>6. /\ Names(au0) \subseteq {Primary} /\ Primary \notin Names(oc0)
      /\ \A a \in Account, n \in Provider : Carries(au0, oc0, a, n) <=> Marks(rows, a, n)
      /\ \A i \in DOMAIN rows :
            /\ Placed(rows[i], au0)
            /\ rows[i].provider = Primary /\ ~rows[i].oc => Primary \notin Names(au0)
            /\ Waits(rows[i]) => Above(rows[i].provider, oc0)
  BY DEF Balanced, Tidy
<1>7. \A n \in Provider : n # Primary => au0.entries[n] = Nothing
  BY <1>6 DEF Names
<1>8. oc0.entries[Primary] = Nothing
  BY <1>2, <1>6 DEF Names
\* An account that waits has a number above all in the file, which are less now.
<1>9. \A n \in Provider : oc.entries[n] = Nothing \/ oc.entries[n] = oc0.entries[n]
  BY DEF Reduced
<1>10. ASSUME NEW i \in DOMAIN more, Waits(more[i]) PROVE Above(more[i].provider, oc)
  <2>1. PICK k \in DOMAIN rows \ {d} : From(i, k)
    BY <1>1
  <2>2. Waits(rows[k]) /\ more[i].provider = rows[k].provider
    BY <1>10, <2>1 DEF From, Moved, Waits
  <2>3. Names(oc) \subseteq Names(oc0)
    BY <1>9 DEF Names
  <2> QED
    BY <1>6, <2>2, <2>3 DEF Above
<1>11. Tidy(au, oc)
  <2>1. \A n \in Provider : n # Primary => au.entries[n] = Nothing
    BY <1>7 DEF Reduced
  <2>2. oc.entries[Primary] = Nothing
    BY <1>2, <1>8, <1>9
  <2> QED
    BY <2>1, <2>2 DEF Tidy, Names
\* What is left to show of the files and the rows.
<1> DEFINE Even == /\ \A a \in Account, n \in Provider : Carries(au, oc, a, n) <=> Marks(more, a, n)
                   /\ \A i \in DOMAIN more :
                         /\ Placed(more[i], au)
                         /\ more[i].provider = Primary /\ ~more[i].oc => Primary \notin Names(au)
\* Of the others no one is marked, and no key is left.
<1>12. ASSUME \A n \in Provider : au.entries[n] = Nothing,
              \A n \in Provider : oc.entries[n] = oc0.entries[n],
              \A k \in DOMAIN rows \ {d} : ~rows[k].oc,
              g.row.provider = Primary
       PROVE  Even
  <2>1. \A i \in DOMAIN more : ~more[i].oc
    BY <1>1, <1>12 DEF From, Moved
  <2>2. \A a \in Account, n \in Provider : ~Marks(more, a, n)
    BY <2>1 DEF Marks
  <2>3. ASSUME NEW a \in Account, NEW n \in Provider, Carries(au, oc, a, n) PROVE FALSE
    <3>1. oc0.entries[n] = a
      BY <1>3, <1>12, <2>3 DEF Carries
    <3>2. Marks(rows, a, n)
      BY <1>6, <3>1 DEF Carries
    <3>3. n = Primary
      BY <1>12, <3>2 DEF Marks
    <3> QED
      BY <1>3, <1>8, <3>1, <3>3
  <2>4. Primary \notin Names(au)
    BY <1>12 DEF Names
  <2> QED
    BY <2>1, <2>2, <2>3, <2>4 DEF Placed
<1>13. CASE g.row.provider # Primary
  <2>1. g.promoted = Nothing /\ ~TakesOver(g, rows)
    BY <1>13 DEF Planned, TakesOver
  <2>2. /\ \A n \in Provider : au.entries[n] = au0.entries[n]
        /\ \A n \in Provider : oc.entries[n] = IF g.row.oc /\ g.row.provider = n
                                                 THEN Nothing ELSE oc0.entries[n]
    BY <1>5, <1>13 DEF Reduced, Clears
  <2>3. \A i, k : k \in DOMAIN rows /\ From(i, k) => more[i].provider = rows[k].provider
    BY <1>3, <1>4, <2>1 DEF From, Moved
  <2>4. \A a, n : Marks(more, a, n)
                    <=> \E k \in DOMAIN rows \ {d} : /\ rows[k].account = a /\ rows[k].oc
                                                     /\ rows[k].provider = n
    BY <1>1, <2>3 DEF Marks, From, Moved
  <2>5. ASSUME NEW a \in Account, NEW n \in Provider, Carries(au, oc, a, n)
        PROVE  Marks(more, a, n)
    <3>1. Carries(au0, oc0, a, n)
      BY <1>3, <2>2, <2>5 DEF Carries
    <3>2. PICK k \in DOMAIN rows : rows[k].account = a /\ rows[k].oc /\ rows[k].provider = n
      BY <1>6, <3>1 DEF Marks
    <3>3. k # d
      <4> SUFFICES ASSUME k = d PROVE FALSE
        OBVIOUS
      <4>1. oc.entries[n] = Nothing /\ n # Primary
        BY <1>13, <2>2, <3>2
      <4> QED
        BY <1>3, <1>7, <2>2, <2>5, <4>1 DEF Carries
    <3> QED
      BY <2>4, <3>2, <3>3
  <2>6. ASSUME NEW a \in Account, NEW n \in Provider, Marks(more, a, n)
        PROVE  Carries(au, oc, a, n)
    <3>1. PICK k \in DOMAIN rows \ {d} : rows[k].account = a /\ rows[k].oc /\ rows[k].provider = n
      BY <2>4, <2>6
    <3>2. Carries(au0, oc0, a, n)
      BY <1>6, <3>1 DEF Marks
    <3>3. g.row.provider # n
      BY <3>1 DEF Unique
    <3> QED
      BY <2>2, <3>2, <3>3 DEF Carries
  <2>7. Names(au) = Names(au0)
    BY <2>2 DEF Names
  <2>8. ASSUME NEW i \in DOMAIN more
        PROVE  /\ Placed(more[i], au)
               /\ more[i].provider = Primary /\ ~more[i].oc => Primary \notin Names(au)
    <3>1. PICK k \in DOMAIN rows \ {d} : From(i, k)
      BY <1>1
    <3>2. more[i].provider = rows[k].provider /\ more[i].oc = rows[k].oc
      BY <2>3, <3>1 DEF From, Moved
    <3> QED
      BY <1>6, <2>7, <3>2 DEF Placed
  <2> QED
    BY <1>10, <1>11, <2>5, <2>6, <2>8 DEF Balanced
<1>14. CASE g.row.provider = Primary /\ ~g.row.oc
  <2>1. /\ \A n \in Provider : au.entries[n] = au0.entries[n]
        /\ \A n \in Provider : oc.entries[n] = oc0.entries[n]
    BY <1>14 DEF Reduced, Clears, TakesOver
  <2>2. Primary \notin Names(au0)
    BY <1>6, <1>14
  <2>3. \A k \in DOMAIN rows : ~rows[k].oc
    BY <1>6, <2>2 DEF Placed
  <2>4. \A n \in Provider : au.entries[n] = Nothing
    BY <1>7, <2>1, <2>2 DEF Names
  <2>5. Even
    BY <1>12, <1>14, <2>1, <2>3, <2>4
  <2> QED
    BY <1>10, <1>11, <2>5 DEF Balanced
<1>15. CASE g.row.provider = Primary /\ g.row.oc /\ ~TakesOver(g, rows)
  <2>1. /\ \A n \in Provider : au.entries[n] = IF n = Primary THEN Nothing ELSE au0.entries[n]
        /\ \A n \in Provider : oc.entries[n] = oc0.entries[n]
    BY <1>5, <1>15 DEF Reduced, Clears, Successor
  <2>2. \A n \in Provider : au.entries[n] = Nothing
    BY <1>7, <2>1
  <2>3. \A k \in DOMAIN rows \ {d} : ~rows[k].oc
    BY <1>15 DEF Planned, Unique
  <2>4. Even
    BY <1>12, <1>15, <2>1, <2>2, <2>3
  <2> QED
    BY <1>10, <1>11, <2>4 DEF Balanced
<1>16. CASE TakesOver(g, rows)
  <2>1. PICK q \in DOMAIN rows : rows[q].account = g.promoted /\ rows[q].oc
    BY <1>16 DEF TakesOver
  <2>2. g.promoted \in Account /\ g.promoted # Nothing /\ g.row.provider = Primary /\ g.row.oc
    BY <1>3, <1>4, <1>16, <2>1 DEF TakesOver
  <2>3. q # d /\ \A k \in DOMAIN rows : rows[k].account = g.promoted <=> k = q
    BY <2>1, <2>2 DEF Planned, Unique
  <2>4. rows[q].provider # Primary /\ \A k \in DOMAIN rows \ {d} : rows[k].provider # Primary
    BY <2>2, <2>3 DEF Unique
  <2>5. /\ \A n \in Provider : au.entries[n] = IF n = Primary THEN g.promoted ELSE au0.entries[n]
        /\ \A n \in Provider : oc.entries[n] = IF rows[q].provider = n
                                                 THEN Nothing ELSE oc0.entries[n]
    BY <1>5, <1>16, <2>2, <2>3 DEF Reduced, Clears, Successor
  <2>6. \A i, k : k \in DOMAIN rows /\ From(i, k) =>
           more[i].provider = IF k = q THEN Primary ELSE rows[k].provider
    BY <2>3 DEF From, Moved
  <2>7. \A a, n : Marks(more, a, n)
                    <=> \E k \in DOMAIN rows \ {d} :
                           /\ rows[k].account = a /\ rows[k].oc
                           /\ n = IF k = q THEN Primary ELSE rows[k].provider
    BY <1>1, <2>6 DEF Marks, From, Moved
  <2>8. ASSUME NEW a \in Account, NEW n \in Provider, Carries(au, oc, a, n)
        PROVE  Marks(more, a, n)
    <3>1. CASE au.entries[n] = a
      <4>1. n = Primary /\ a = g.promoted
        BY <1>3, <1>7, <2>5, <3>1
      <4> QED
        BY <2>1, <2>3, <2>7, <4>1
    <3>2. CASE oc.entries[n] = a
      <4>1. oc0.entries[n] = a /\ rows[q].provider # n /\ n # Primary
        BY <1>3, <1>8, <2>5, <3>2
      <4>2. PICK k \in DOMAIN rows : rows[k].account = a /\ rows[k].oc /\ rows[k].provider = n
        BY <1>6, <4>1 DEF Carries, Marks
      <4>3. k # d /\ k # q
        BY <2>2, <4>1, <4>2
      <4> QED
        BY <2>7, <4>2, <4>3
    <3> QED
      BY <2>8, <3>1, <3>2 DEF Carries
  <2>9. ASSUME NEW a \in Account, NEW n \in Provider, Marks(more, a, n)
        PROVE  Carries(au, oc, a, n)
    <3>1. PICK k \in DOMAIN rows \ {d} : /\ rows[k].account = a /\ rows[k].oc
                                         /\ n = IF k = q THEN Primary ELSE rows[k].provider
      BY <2>7, <2>9
    <3>2. CASE k = q
      BY <2>1, <2>5, <3>1, <3>2 DEF Carries
    <3>3. CASE k # q
      <4>1. Carries(au0, oc0, a, n) /\ n # Primary /\ n # rows[q].provider
        BY <1>6, <2>4, <3>1, <3>3 DEF Marks, Unique
      <4>2. oc0.entries[n] = a
        BY <1>3, <1>7, <4>1 DEF Carries
      <4> QED
        BY <2>5, <4>1, <4>2 DEF Carries
    <3> QED
      BY <3>2, <3>3
  <2>10. Primary \in Names(au)
    BY <1>2, <2>2, <2>5 DEF Names
  <2>11. ASSUME NEW i \in DOMAIN more
         PROVE  /\ Placed(more[i], au)
                /\ more[i].provider = Primary /\ ~more[i].oc => Primary \notin Names(au)
    <3>1. PICK k \in DOMAIN rows \ {d} : From(i, k)
      BY <1>1
    <3>2. more[i].oc = rows[k].oc /\ more[i].provider = IF k = q THEN Primary ELSE rows[k].provider
      BY <2>6, <3>1 DEF From, Moved
    <3> QED
      BY <1>2, <1>6, <2>1, <2>4, <2>10, <3>2 DEF Placed
  <2> QED
    BY <1>10, <1>11, <2>8, <2>9, <2>11 DEF Balanced
<1> QED
  BY <1>13, <1>14, <1>15, <1>16

\* The row of a removed account goes, and the promoted one gets the primary's number.
LEMMA DeleteRowClosed ==
    ASSUME Inv, NEW j \in Job, InBalance(j), Unique(vault), pending \cap Accounts(vault) = {},
           DeleteRow(j)
    PROVE  Closed(j) \/ (Settled(j) /\ UNCHANGED <<vault, pending>>)
<1> DEFINE g == job[j]
           rest == Others(vault, g.row.account)
           more == Promoted(rest, g.promoted)
           au == files["auth"]
           oc == files["opencode"]
<1>1. /\ g \in Call /\ g.pc = "delete" /\ g.op = "remove" /\ vault \in Seq(Row)
      /\ UNCHANGED <<files, pending>> /\ Ledger(g, au, oc, vault)
  BY CallOf DEF Inv, WorldInv, DeleteRow, At, PlaceInv, InBalance
<1>2. CASE vault' = more /\ Finish(j)
  <2>1. Shrunk(g, au, oc, vault)
        /\ Balanced(Original(g.writes, "auth", au), Original(g.writes, "opencode", oc), vault)
    BY <1>1 DEF Ledger, Forward
  <2>2. PICK d \in DOMAIN vault : vault[d] = g.row
    BY <2>1 DEF Shrunk
  <2>3. /\ Planned(g, vault) /\ g.plan = <<>>
        /\ Reduced(g, Original(g.writes, "auth", au), Original(g.writes, "opencode", oc),
                   au, oc, vault)
    BY <1>1, <2>1 DEF Shrunk
  <2>4. /\ Unique(more)
        /\ \A i \in DOMAIN more : \E k \in DOMAIN vault \ {d} :
              Moved(more[i], vault[k], g.promoted)
    BY <1>1, <2>2, <2>3, DeletedRows
  <2>5. Accounts(more) \subseteq Accounts(vault)
    BY <2>4 DEF Accounts, Moved
  <2>6. Balanced(au, oc, more)
    BY <1>1, <2>1, <2>2, <2>3, DeletedBalance
  <2> HIDE DEF more
  <2>7. Closed(j)
    BY <1>1, <1>2, <2>4, <2>5, <2>6, FinishClosed
  <2> QED
    BY <2>7
<1>3. CASE Fail(j, g) /\ UNCHANGED vault
  BY <1>1, <1>3, FailSettled
<1>4. (vault' = more /\ Finish(j)) \/ (Fail(j, g) /\ UNCHANGED vault)
  BY DEF DeleteRow
<1> QED
  BY <1>1, <1>2, <1>3, <1>4

(***************************************************************************)
(* The balance of the pool                                                 *)
(***************************************************************************)
\* What the call at work does settles it or closes it.
LEMMA WorkSettled ==
    ASSUME Inv, NEW j \in Job, InBalance(j), Quiet(j), Unique(vault),
           pending \cap Accounts(vault) = {}, Readable, Restorable(job[j]),
           job[j].pc = "oc_write" => job[j].row.provider \in Provider, Work(j)
    PROVE  Closed(j) \/ (Settled(j) /\ UNCHANGED <<vault, pending>>)
<1>1. job[j].pc \notin {"lock", "remote"}
  BY DEF InBalance, Busy
<1>2. CASE Decode(j) \/ Inspect(j) \/ FindPrimary(j) \/ ListRows(j) \/ NextRow(j) \/ NameRow(j)
  <2>1. UNCHANGED <<vault, pending>>
    BY <1>2 DEF Decode, Inspect, FindPrimary, ListRows, NextRow, NameRow, book
  <2> QED
    BY <1>2, <2>1, DecodeSettled, InspectSettled, FindPrimarySettled, ListRowsSettled,
       NextRowSettled, NameRowSettled
<1>3. CASE LoadAuth(j) \/ FetchModels(j) \/ LoadOpencode(j) \/ ReadNames(j) \/ LoadOmo(j)
           \/ StepFails(j)
  <2>1. UNCHANGED <<vault, pending>>
    BY <1>3 DEF LoadAuth, FetchModels, LoadOpencode, ReadNames, LoadOmo, StepFails, book
  <2> QED
    BY <1>3, <2>1, LoadAuthSettled, FetchModelsSettled, LoadOpencodeSettled, ReadNamesSettled,
       LoadOmoSettled, StepFailsSettled
<1>4. CASE WriteAuth(j) \/ WriteOpencode(j) \/ WriteOmo(j) \/ WriteEdit(j)
  <2>1. UNCHANGED <<vault, pending>>
    BY <1>4 DEF WriteAuth, WriteOpencode, WriteOmo, WriteEdit, Replace, book
  <2>2. WriteOpencode(j) => job[j].row.provider \in Provider
    BY DEF WriteOpencode, At
  <2> QED
    BY <1>4, <2>1, <2>2, WriteAuthSettled, WriteOpencodeSettled, WriteOmoSettled,
       WriteEditSettled
<1>5. CASE Undo(j) \/ PlanRemoval(j) \/ LoadEdit(j)
  <2>1. UNCHANGED <<vault, pending>>
    BY <1>5 DEF Undo, PlanRemoval, LoadEdit, book
  <2> QED
    BY <1>5, <2>1, UndoSettled, PlanRemovalSettled, LoadEditSettled
<1>6. CASE Commit(j) \/ DeleteRow(j)
  BY <1>6, CommitClosed, DeleteRowClosed
<1>7. ~Acquire(j) /\ ~RemoteDeleted(j) /\ ~RemoteFailed(j)
  BY <1>1 DEF Acquire, RemoteDeleted, RemoteFailed, At
<1> QED
  BY <1>2, <1>3, <1>4, <1>5, <1>6, <1>7 DEF Work

\* A call at work is in balance, and the others wait.
LEMMA AloneAtWork ==
    ASSUME Inv, Overlap = "none", LedgerInv, NEW j \in Job, Busy(job[j])
    PROVE  /\ InBalance(j) /\ Quiet(j)
           /\ \A i \in Job \ {j} : ~Busy(job[i]) /\ job[i].pc # "remote" /\ Unbegun(job[i], vault)
<1>1. OneAtWork
  BY OneBusy
<1>2. \A i \in Job \ {j} : ~Busy(job[i]) /\ Unbegun(job[i], vault)
  BY <1>1 DEF OneAtWork, LedgerInv
<1>3. \A i \in Job \ {j} : job[i].pc # "remote"
  BY DEF LedgerInv, Solo, Busy
<1> QED
  BY <1>2, <1>3 DEF LedgerInv, InBalance, Quiet, Unbegun

\* A call that has ended has nothing.
LEMMA IdleUnbegun == ASSUME NEW rows PROVE Unbegun(Idle, rows) /\ ~Busy(Idle) /\ Idle.pc = "idle"
  BY IdleOK DEF Idle, Unbegun

\* A step of the call at work keeps the pool in balance.
LEMMA WorkLedger ==
    ASSUME Inv, Overlap = "none", LedgerInv, Readable, Roomy, Backed,
           NEW j \in Job, Busy(job[j]), Work(j)
    PROVE  LedgerInv'
<1>1. /\ InBalance(j) /\ Quiet(j)
      /\ \A i \in Job \ {j} : ~Busy(job[i]) /\ job[i].pc # "remote" /\ Unbegun(job[i], vault)
  BY AloneAtWork
<1>2. Restorable(job[j]) /\ (job[j].pc = "oc_write" => job[j].row.provider \in Provider)
  BY DEF Backed, Restorable, Roomy
<1>3. Closed(j) \/ (Settled(j) /\ UNCHANGED <<vault, pending>>)
  BY <1>1, <1>2, WorkSettled DEF LedgerInv
<1>4. CASE Closed(j)
  <2>1. \A i \in Job : Unbegun(job[i], vault)' /\ ~Busy(job[i])' /\ job'[i].pc # "remote"
    <3>1. \A i \in Job \ {j} : Unbegun(job'[i], vault') /\ ~Busy(job'[i]) /\ job'[i].pc # "remote"
      BY <1>1, <1>4 DEF Closed, Unbegun, Busy
    <3>2. Unbegun(job'[j], vault') /\ ~Busy(job'[j]) /\ job'[j].pc # "remote"
      BY <1>4, IdleUnbegun DEF Closed
    <3> QED
      BY <3>1, <3>2
  <2> QED
    BY <1>4, <2>1 DEF Closed, LedgerInv, Solo
<1>5. CASE Settled(j) /\ UNCHANGED <<vault, pending>>
  <2>1. \A i \in Job \ {j} : ~Busy(job'[i]) /\ job'[i].pc # "remote" /\ Unbegun(job'[i], vault')
    BY <1>1, <1>5 DEF Settled
  <2>2. job'[j].pc # "remote"
    BY <1>5, IdleUnbegun DEF Settled, Busy
  <2>3. IF Busy(job'[j]) THEN Ledger(job'[j], files'["auth"], files'["opencode"], vault')
        ELSE Unbegun(job'[j], vault') /\ Balanced(files'["auth"], files'["opencode"], vault')
    BY <1>5, IdleUnbegun DEF Settled
  <2>4. (Unique(vault) /\ pending \cap Accounts(vault) = {})'
    BY <1>5 DEF LedgerInv
  <2>5. Solo'
    BY <2>1, <2>2 DEF Solo
  <2>6. (\A i \in Job : ~Busy(job'[i])) => Balanced(files'["auth"], files'["opencode"], vault')
    BY <2>3
  <2>7. \A i \in Job : IF Busy(job'[i])
                         THEN Ledger(job'[i], files'["auth"], files'["opencode"], vault')
                         ELSE Unbegun(job'[i], vault')
    BY <2>1, <2>3
  <2> QED
    BY <2>4, <2>5, <2>6, <2>7 DEF LedgerInv
<1> QED
  BY <1>3, <1>4, <1>5

\* A call begins to work, with the pool to itself.
LEMMA BegunLedger ==
    ASSUME Inv, LedgerInv, NEW j \in Job, NEW h, \A i \in Job : ~Busy(job[i]),
           \A i \in Job \ {j} : job'[i] = job[i] /\ job[i].pc # "remote", job'[j] = h,
           UNCHANGED <<files, vault, pending>>, Busy(h),
           Balanced(files["auth"], files["opencode"], vault) =>
              Ledger(h, files["auth"], files["opencode"], vault)
    PROVE  LedgerInv'
<1>1. Ledger(job'[j], files'["auth"], files'["opencode"], vault') /\ Busy(job'[j])
  BY DEF LedgerInv
<1>2. \A i \in Job \ {j} : ~Busy(job'[i]) /\ job'[i].pc # "remote" /\ Unbegun(job'[i], vault')
  BY DEF LedgerInv
<1>3. job'[j].pc # "remote"
  BY <1>1 DEF Busy
<1>4. (Unique(vault) /\ pending \cap Accounts(vault) = {})'
  BY DEF LedgerInv
<1>5. Solo'
  BY <1>2, <1>3 DEF Solo
<1>6. ~(\A i \in Job : ~Busy(job'[i]))
  BY <1>1
<1>7. \A i \in Job : IF Busy(job'[i])
                       THEN Ledger(job'[i], files'["auth"], files'["opencode"], vault')
                       ELSE Unbegun(job'[i], vault')
  BY <1>1, <1>2
<1> QED
  BY <1>4, <1>5, <1>6, <1>7 DEF LedgerInv

\* A call that is not at work comes or goes.
LEMMA WaitingLedger ==
    ASSUME Inv, LedgerInv, NEW j \in Job, NEW h, ~Busy(job[j]), ~Busy(h), Unbegun(h, vault),
           \A i \in Job \ {j} : job'[i] = job[i], job'[j] = h,
           UNCHANGED <<files, vault, pending>>,
           h.pc = "remote" => \A i \in Job \ {j} : job[i].pc = "idle",
           h.pc # "idle" => \A i \in Job \ {j} : job[i].pc # "remote"
    PROVE  LedgerInv'
<1>1. \A i \in Job : Busy(job'[i]) <=> Busy(job[i])
  OBVIOUS
<1>2. Solo'
  BY DEF LedgerInv, Solo
<1>3. \A i \in Job : IF Busy(job'[i])
                       THEN Ledger(job'[i], files'["auth"], files'["opencode"], vault')
                       ELSE Unbegun(job'[i], vault')
  BY DEF LedgerInv
<1>4. (\A i \in Job : ~Busy(job'[i])) => Balanced(files'["auth"], files'["opencode"], vault')
  BY <1>1 DEF LedgerInv
<1> QED
  BY <1>2, <1>3, <1>4 DEF LedgerInv

\* The lock is taken: nobody is at work.
LEMMA AcquireLedger ==
    ASSUME Inv, Overlap = "none", LedgerInv, NEW j \in Job, Acquire(j)
    PROVE  LedgerInv'
<1> DEFINE g == job[j]
           l == IF g.op = "import" THEN "decode" ELSE "inspect"
           h == [g EXCEPT !.pc = l]
           au == files["auth"]
           oc == files["opencode"]
<1>1. /\ g \in Call /\ g.pc = "lock" /\ g.op \in Locking /\ ~Busy(g) /\ lock = Nothing
      /\ Become(j, h) /\ UNCHANGED <<files, vault, pending>>
  BY CallOf DEF Inv, Acquire, At, PlaceInv, Busy, book
<1>2. h.op = g.op /\ h.pc = l /\ h.writes = g.writes /\ h.made = g.made /\ h.todo = g.todo
        /\ h.free = g.free
  BY <1>1 DEF Call
<1>3. job'[j] = h /\ \A i \in Job \ {j} : job'[i] = job[i]
  BY <1>1, CallOf DEF Inv, Become
<1> HIDE DEF h
<1>4. ASSUME NEW i \in Job, Busy(job[i]) PROVE FALSE
  <2>1. i # j /\ ~Alone(job[i].op)
    BY <1>1, <1>4 DEF Inv, CallsInv, Apart, Busy
  <2>2. job[i].op \in Locking
    BY <1>4, <2>1, CallOf, PoolAssumption DEF Inv, Call, PlaceInv, Busy, Alone, Locking
  <2> QED
    BY <1>1, <1>4, <2>2, PoolAssumption DEF Inv, CallsInv, Held
<1>5. \A i \in Job \ {j} : job[i].pc # "remote"
  BY <1>1 DEF LedgerInv, Solo
<1>6. h.writes = <<>> /\ h.made = <<>> /\ h.todo = <<>> /\ ~h.free
  BY <1>1, <1>2 DEF LedgerInv, Unbegun
<1>7. h.pc \in {"decode", "inspect"} /\ h.op \in Locking
  BY <1>1, <1>2
<1>8. ASSUME Balanced(au, oc, vault) PROVE Ledger(h, au, oc, vault)
  <2>1. \A a, n : ~Added(h, a, n)
    BY <1>6, <1>7 DEF Added, Marks, InHand
  <2>2. Gained(h, au, oc, vault)
    BY <1>6, <1>7, <1>8, <2>1 DEF Gained, Balanced, InHand
  <2>3. Handy(h, au, oc, vault)
    BY <1>7 DEF Handy, AtFiles
  <2>4. Updates(h, vault) /\ Enters(h, au, vault) /\ Single(h) /\ Several(h)
    BY <1>6, <1>7 DEF Updates, Enters, Single, Several, AtFiles
  <2> QED
    BY <1>6, <1>7, <1>8, <2>2, <2>3, <2>4, OriginalNone DEF Ledger, Forward, Locking
<1>9. Busy(h)
  BY <1>7 DEF Busy
<1> QED
  BY <1>1, <1>3, <1>4, <1>5, <1>8, <1>9, BegunLedger

\* GitHub has answered to a removal: everybody else is idle.
LEMMA RemoteLedger ==
    ASSUME Inv, LedgerInv, NEW j \in Job, RemoteDeleted(j) \/ RemoteFailed(j)
    PROVE  LedgerInv'
<1> DEFINE g == job[j]
           h == [g EXCEPT !.pc = "remaining"]
<1>1. /\ g \in Call /\ g.pc = "remote" /\ g.op = "remove" /\ ~Busy(g)
      /\ UNCHANGED <<files, vault, pending>>
  BY CallOf DEF Inv, RemoteDeleted, RemoteFailed, At, PlaceInv, Busy, book
<1>2. /\ \A i \in Job \ {j} : job[i].pc = "idle"
      /\ g.writes = <<>> /\ \E i \in DOMAIN vault : vault[i] = g.row
  BY <1>1 DEF LedgerInv, Solo, Unbegun
<1>3. \A i \in Job : ~Busy(job[i])
  BY <1>1, <1>2 DEF Busy
<1>4. CASE RemoteFailed(j)
  <2>1. job'[j] = Idle /\ \A i \in Job \ {j} : job'[i] = job[i]
    BY <1>4, CallOf DEF Inv, RemoteFailed, Finish, Become
  <2> QED
    BY <1>1, <2>1, IdleUnbegun, WaitingLedger
<1>5. CASE RemoteDeleted(j)
  <2>1. job'[j] = h /\ \A i \in Job \ {j} : job'[i] = job[i]
    BY <1>5, CallOf DEF Inv, RemoteDeleted, Become
  <2>2. h.pc = "remaining" /\ h.op = "remove" /\ h.writes = g.writes /\ h.row = g.row
    BY <1>1 DEF Call
  <2> HIDE DEF h
  <2>3. Shrunk(h, files["auth"], files["opencode"], vault)
    BY <1>2, <2>2 DEF Shrunk
  <2>4. ASSUME Balanced(files["auth"], files["opencode"], vault)
        PROVE  Ledger(h, files["auth"], files["opencode"], vault)
    BY <1>2, <2>2, <2>3, <2>4, OriginalNone DEF Ledger, Forward, Locking
  <2>5. Busy(h)
    BY <2>2 DEF Busy
  <2> QED
    BY <1>1, <1>2, <1>3, <2>1, <2>4, <2>5, BegunLedger
<1> QED
  BY <1>4, <1>5

\* Calls are made while nobody removes or repairs; these, while nobody is there at all.
LEMMA AskLedger ==
    ASSUME Inv, Overlap = "none", LedgerInv, NEW j \in Job, Ask(j)
    PROVE  LedgerInv'
<1>1. job[j].pc = "idle" /\ ~Busy(job[j]) /\ UNCHANGED <<files, vault, pending>>
  BY DEF Ask, AskComplete, AskImport, AskApply, AskRepair, AskRemove, MayAsk, At, Busy, book
<1>2. ASSUME NEW r, NEW op, op # "remove", NEW l \in {"lock", "models"},
             Alone(op) <=> l = "models", op = "repair" <=> l = "models", MayWork(j, op),
             Become(j, New(op, l, r))
      PROVE  LedgerInv'
  <2> DEFINE h == New(op, l, r)
  <2>1. /\ h.op = op /\ h.pc = l /\ h.writes = <<>> /\ h.made = <<>> /\ h.todo = <<>> /\ ~h.free
    BY DEF New, Idle
  <2>2. job'[j] = h /\ \A i \in Job \ {j} : job'[i] = job[i]
    BY <1>2, CallOf DEF Inv, Become
  <2> HIDE DEF h
  <2>3. \A i \in Job \ {j} : job[i].pc # "remote"
    BY <1>2 DEF MayWork, At
  <2>4. CASE l = "lock"
    <3>1. ~Busy(h) /\ Unbegun(h, vault) /\ h.pc # "remote"
      BY <2>1, <2>4 DEF Busy, Unbegun
    <3> QED
      BY <1>1, <2>2, <2>3, <3>1, WaitingLedger
  <2>5. CASE l = "models"
    <3>1. \A i \in Job : ~Busy(job[i])
      BY <1>1, <1>2, <2>5 DEF MayWork, At, Busy
    <3>2. h.op = "repair" /\ Busy(h) /\ h.pc # "undo"
      BY <1>2, <2>1, <2>5 DEF Busy
    <3>3. ASSUME Balanced(files["auth"], files["opencode"], vault)
          PROVE  Ledger(h, files["auth"], files["opencode"], vault)
      BY <2>1, <3>2, <3>3, OriginalNone DEF Ledger, Forward, Locking
    <3> QED
      BY <1>1, <2>2, <2>3, <3>1, <3>2, <3>3, BegunLedger
  <2> QED
    BY <2>4, <2>5
<1>3. CASE AskRemove(j)
  <2>1. PICK a \in Accounts(vault) :
          Called(j, "remove", "remote", [Idle EXCEPT !.row = RowOf(vault, a)])
    BY <1>3 DEF AskRemove
  <2> DEFINE r == RowOf(vault, a)
             h == New("remove", "remote", r)
  <2>2. job'[j] = h /\ \A i \in Job \ {j} : job'[i] = job[i]
    <3>1. Become(j, h)
      BY <2>1 DEF Called, Idle, New
    <3> QED
      BY <3>1, CallOf DEF Inv, Become
  <2>3. /\ h.pc = "remote" /\ h.writes = <<>> /\ h.made = <<>> /\ h.todo = <<>> /\ ~h.free
        /\ h.row = r
    BY DEF New, Idle
  <2>4. \E i \in DOMAIN vault : vault[i] = r
    BY <2>1 DEF Accounts, RowOf
  <2>5. \A i \in Job \ {j} : job[i].pc = "idle"
    BY <1>3 DEF AskRemove, MayAsk, At
  <2> HIDE DEF h, r
  <2>6. ~Busy(h) /\ Unbegun(h, vault)
    BY <2>3, <2>4 DEF Busy, Unbegun
  <2> QED
    BY <1>1, <2>2, <2>5, <2>6, WaitingLedger
<1>4. CASE AskComplete(j)
  <2>1. PICK a \in flows : Called(j, "complete", "lock", [Idle EXCEPT !.row.account = a])
    BY <1>4 DEF AskComplete
  <2> DEFINE r == [NoRow EXCEPT !.account = a]
  <2>2. [[Idle EXCEPT !.row.account = a] EXCEPT !.op = "complete", !.pc = "lock"]
          = New("complete", "lock", r)
    BY DEF Idle, New
  <2>3. Become(j, New("complete", "lock", r)) /\ MayWork(j, "complete")
    BY <1>4, <2>1, <2>2 DEF Called, AskComplete, MayAsk
  <2> HIDE DEF r
  <2> QED
    BY <1>2, <2>3 DEF Alone
<1>5. ASSUME NEW op \in {"import", "apply", "repair"}, NEW l \in {"lock", "models"},
             op = "repair" <=> l = "models", MayAsk(j, op), Called(j, op, l, Idle)
      PROVE  LedgerInv'
  <2>1. Become(j, New(op, l, NoRow))
    <3>1. [Idle EXCEPT !.row = NoRow] = Idle
      <4>1. Idle \in Call /\ Idle.row = NoRow
        BY IdleOK DEF CallInv, Idle
      <4> QED
        BY <4>1 DEF Call
    <3>2. [[Idle EXCEPT !.row = NoRow] EXCEPT !.op = op, !.pc = l]
            = [Idle EXCEPT !.op = op, !.pc = l]
      BY <3>1
    <3> QED
      BY <1>5, <3>2 DEF Called, New
  <2>2. MayWork(j, op)
    BY <1>5 DEF MayAsk
  <2> QED
    BY <1>2, <1>5, <2>1, <2>2 DEF Alone
<1> QED
  BY <1>3, <1>4, <1>5 DEF Ask, AskImport, AskApply, AskRepair

\* What a call that is not at work can do.
LEMMA WaitingSteps ==
    ASSUME NEW j \in Job, Work(j), ~Busy(job[j])
    PROVE  Acquire(j) \/ RemoteDeleted(j) \/ RemoteFailed(j)
  BY DEF Work, Busy, At, Decode, Inspect, FindPrimary, ListRows, NextRow, NameRow, LoadAuth,
         WriteAuth, FetchModels, LoadOpencode, WriteOpencode, ReadNames, LoadOmo, WriteOmo,
         StepFails, Loading, Writing, Commit, Undo, PlanRemoval, LoadEdit, WriteEdit, DeleteRow

\* Every step keeps the pool in balance.
LEMMA LedgerNext ==
    ASSUME Inv, Overlap = "none", LedgerInv, Readable, Roomy, Backed, [Next]_vars
    PROVE  LedgerInv'
<1>1. ASSUME UNCHANGED <<files, vault, job>>, pending' \subseteq pending
      PROVE  LedgerInv'
  BY <1>1 DEF LedgerInv, Solo
<1>2. UNCHANGED vars \/ Discard \/ ChangeSettings =>
        UNCHANGED <<files, vault, job>> /\ pending' \subseteq pending
  BY DEF vars, Discard, ChangeSettings, book
<1>3. ASSUME NEW j \in Job, Work(j) PROVE LedgerInv'
  <2>1. CASE Busy(job[j])
    BY <1>3, <2>1, WorkLedger
  <2>2. CASE ~Busy(job[j])
    BY <1>3, <2>2, WaitingSteps, AcquireLedger, RemoteLedger
  <2> QED
    BY <2>1, <2>2
<1> QED
  BY <1>1, <1>2, <1>3, AskLedger DEF Next

\* The files that the application finds have the user's keys only, and the vault is empty.
LEMMA LedgerInit == Init => LedgerInv
<1> SUFFICES ASSUME Init PROVE LedgerInv
  OBVIOUS
<1>1. vault = <<>> /\ DOMAIN vault = {} /\ \A j \in Job : job[j] = Idle
  BY DEF Init
<1>2. /\ files["auth"] \in {NoFile, PrimaryFile}
      /\ files["opencode"] \in {NoFile, OwnFile}
  BY DEF Init
<1>3. ~Legible(Primary) /\ Primary \in Provider
  BY ProviderNumbers DEF Legible
<1>4. \A n \in Provider : NoFile.entries[n] = Nothing
  BY DEF NoFile
<1>5. \A n \in Provider : PrimaryFile.entries[n] = IF n = Primary THEN User ELSE Nothing
  BY DEF PrimaryFile, With, NoFile
<1>6. \A n \in Provider : OwnFile.entries[n] = IF n \in Own THEN User ELSE Nothing
  BY DEF OwnFile, NoFile
<1>7. \A a \in Account : a # Nothing /\ a # User
  BY PoolAssumption
<1>8. \A n \in Own : Legible(n)
  BY PoolAssumption
<1>9. Tidy(files["auth"], files["opencode"])
  BY <1>2, <1>3, <1>4, <1>5, <1>6, <1>8 DEF Tidy, Names
<1>10. \A a \in Account, n \in Provider : ~Carries(files["auth"], files["opencode"], a, n)
  BY <1>2, <1>4, <1>5, <1>6, <1>7 DEF Carries
<1>11. Balanced(files["auth"], files["opencode"], vault)
  BY <1>1, <1>9, <1>10 DEF Balanced, Marks
<1>12. Unique(vault) /\ Accounts(vault) = {}
  BY <1>1 DEF Unique, Accounts
<1>13. \A j \in Job : ~Busy(job[j]) /\ Unbegun(job[j], vault) /\ job[j].pc # "remote"
  BY <1>1, IdleUnbegun
<1> QED
  BY <1>11, <1>12, <1>13 DEF LedgerInv, Solo

(***************************************************************************)
(* What the balance comes to                                               *)
(***************************************************************************)
\* Still is when nobody is at work.
LEMMA StillBalanced == ASSUME LedgerInv, Still PROVE Balanced(files["auth"], files["opencode"], vault)
  BY DEF LedgerInv, Still, Busy

\* In balance, the files carry what is due.
LEMMA BalancedInStep == Inv /\ LedgerInv => InStep
<1> SUFFICES ASSUME Inv, LedgerInv, Still, NEW a \in Account PROVE Carried(a) = Due(a)
  BY DEF InStep
<1> DEFINE au == files["auth"]
           oc == files["opencode"]
<1>1. Balanced(au, oc, vault)
  BY StillBalanced
<1> HIDE DEF au, oc
<1>2. \A n \in Provider : Carries(au, oc, a, n) <=> Marks(vault, a, n)
  BY <1>1 DEF Balanced
<1>3. \A i \in DOMAIN vault : vault[i].oc => vault[i].provider \in Provider
  BY <1>1 DEF Balanced, Placed
<1>4. \A n : n \in Carried(a) <=> n \in Provider /\ Carries(au, oc, a, n)
  BY DEF Carried, Carries, au, oc
<1>5. \A n : n \in Due(a) <=> Marks(vault, a, n)
  BY DEF Due, Marks
<1>6. \A n : Marks(vault, a, n) => n \in Provider
  BY <1>3 DEF Marks
<1> QED
  BY <1>2, <1>4, <1>5, <1>6

\* In balance, and with legible names, the numbers of those that wait are above.
LEMMA BalancedAbove == Inv /\ LedgerInv /\ Readable => WaitingAbove
<1> SUFFICES ASSUME Inv, LedgerInv, Readable, Still, NEW i \in DOMAIN vault,
                    NEW k \in DOMAIN vault, ~vault[i].oc, vault[k].oc,
                    vault[i].provider # Primary
             PROVE  vault[k].provider < vault[i].provider
  BY DEF WaitingAbove
<1> DEFINE au == files["auth"]
           oc == files["opencode"]
           n == vault[k].provider
           m == vault[i].provider
           a == vault[k].account
<1>1. Balanced(au, oc, vault)
  BY StillBalanced
<1>2. vault[i] \in Row /\ vault[k] \in Row
  BY DEF Inv, WorldInv
<1>3. m \in Nat \ {Unassigned} /\ n \in Provider /\ a \in Account
  <2>1. Placed(vault[k], au)
    BY <1>1 DEF Balanced
  <2> QED
    BY <1>2, <2>1 DEF Placed, Row
<1>4. CASE n = Primary
  BY <1>3, <1>4 DEF Primary, Unassigned
<1>5. CASE n # Primary
  <2>1. Marks(vault, a, n)
    BY DEF Marks
  <2>2. Carries(au, oc, a, n)
    BY <1>1, <1>3, <2>1 DEF Balanced
  <2>3. a # Nothing
    BY <1>3, PoolAssumption
  <2>4. n \in Names(oc)
    BY <1>1, <1>3, <1>5, <2>2, <2>3 DEF Balanced, Carries, Tidy, Names
  <2>5. Legible(n)
    BY <1>5, <2>4 DEF Readable
  <2>6. Above(m, oc)
    BY <1>1 DEF Balanced, Waits
  <2> QED
    BY <2>4, <2>5, <2>6 DEF Above
<1> QED
  BY <1>4, <1>5

\* An edit of a removal takes away the key of the account it removes or promotes.
LEMMA EditedKey ==
    ASSUME Inv, Overlap = "none", LedgerInv, NEW j \in Job, WriteEdit(j),
           NEW f \in {"auth", "opencode"}, NEW n \in Names(files[f])
    PROVE  files'[f].entries[n] = files[f].entries[n] \/ Entitled(j, files[f].entries[n])
<1> DEFINE g == job[j]
           e == Head(g.plan)
           au == files["auth"]
           oc == files["opencode"]
           au0 == Original(g.writes, "auth", au)
           oc0 == Original(g.writes, "opencode", oc)
<1>1. /\ g \in Call /\ g.pc = "edit_write" /\ g.op = "remove" /\ g.plan \in Seq(Edit)
      /\ g.plan # <<>> /\ files' = [files EXCEPT ![e.file] = Edited(g.loaded, e)]
  BY CallOf DEF Inv, WriteEdit, At, PlaceInv, Call, Replace
<1>2. e = g.plan[1] /\ 1 \in DOMAIN g.plan /\ n \in Provider /\ files \in [File -> Document]
  BY <1>1 DEF Names, Inv, WorldInv
<1>3. InBalance(j)
  BY <1>1, AloneAtWork DEF Busy
<1>4. /\ Balanced(au0, oc0, vault) /\ Planned(g, vault) /\ Reduced(g, au0, oc0, au, oc, vault)
      /\ \E i \in DOMAIN vault : vault[i] = g.row
      /\ e.file = "auth" => g.loaded = au
      /\ e.file = "opencode" => g.loaded = oc
  BY <1>1, <1>3 DEF InBalance, Ledger, Forward, Shrunk
<1>5. /\ e.file = "auth" => e.provider = Primary /\ g.row.provider = Primary /\ g.row.oc
      /\ e.file = "opencode" => Clears(g, vault, e.provider)
  BY <1>2, <1>4 DEF Planned
<1>6. Pends(g, e.file)
  BY <1>2 DEF Pends
<1>7. CASE f # e.file \/ n # e.provider
  <2>1. CASE f # e.file
    BY <1>1, <1>2, <2>1
  <2>2. CASE f = e.file /\ n # e.provider
    <3>1. g.loaded = files[f] /\ files[f] \in Document /\ files'[f] = Edited(files[f], e)
      BY <1>1, <1>2, <1>4, <2>2 DEF File
    <3> HIDE DEF e
    <3> QED
      BY <1>2, <2>2, <3>1 DEF Edited, With, Without, Document
  <2> QED
    BY <1>7, <2>1, <2>2
<1> HIDE DEF au0, oc0
<1>8. CASE f = "auth" /\ f = e.file /\ n = e.provider
  <2>1. au.entries[n] = au0.entries[n] /\ n = Primary
    BY <1>2, <1>4, <1>5, <1>6, <1>8 DEF Reduced
  <2>2. Marks(vault, g.row.account, Primary) /\ g.row.account \in Account
    <3>1. PICK i \in DOMAIN vault : vault[i] = g.row
      BY <1>4
    <3>2. g.row \in Row
      BY <3>1 DEF Inv, WorldInv
    <3> QED
      BY <1>5, <1>8, <3>1, <3>2 DEF Marks, Row
  <2>3. Carries(au0, oc0, g.row.account, Primary) /\ Primary \notin Names(oc0)
    BY <1>2, <1>4, <2>1, <2>2 DEF Balanced, Tidy
  <2>4. au0.entries[Primary] = g.row.account
    BY <1>2, <2>1, <2>2, <2>3, PoolAssumption DEF Carries, Names
  <2> QED
    BY <1>1, <1>8, <2>1, <2>4 DEF Entitled
<1>9. CASE f = "opencode" /\ f = e.file /\ n = e.provider
  <2> DEFINE who == IF g.row.provider = Primary THEN g.promoted ELSE g.row.account
  <2>1. oc.entries[n] = oc0.entries[n] /\ Clears(g, vault, n)
    BY <1>2, <1>4, <1>5, <1>6, <1>9 DEF Reduced
  <2>2. n \notin Names(au0)
    <3>1. n \in Names(oc0)
      BY <1>2, <1>9, <2>1 DEF Names
    <3> QED
      BY <1>4, <3>1 DEF Balanced, Tidy
  <2>3. Marks(vault, who, n) /\ who \in Account
    <3>1. PICK i \in DOMAIN vault : vault[i].account = who /\ vault[i].provider = n /\ vault[i].oc
      <4>1. CASE g.row.provider = Primary
        <5>1. PICK i \in DOMAIN vault : vault[i].account = g.promoted /\ vault[i].provider = n
          BY <2>1, <4>1 DEF Clears
        <5>2. PICK k \in DOMAIN vault : vault[k].account = g.promoted /\ vault[k].oc
          BY <2>1, <4>1 DEF Clears, TakesOver
        <5>3. i = k
          BY <5>1, <5>2 DEF LedgerInv, Unique
        <5> QED
          BY <4>1, <5>1, <5>2, <5>3
      <4>2. CASE g.row.provider # Primary
        BY <1>4, <2>1, <4>2 DEF Clears
      <4> QED
        BY <4>1, <4>2
    <3>2. vault[i] \in Row
      BY <3>1 DEF Inv, WorldInv
    <3> QED
      BY <3>1, <3>2 DEF Marks, Row
  <2>4. Carries(au0, oc0, who, n)
    BY <1>2, <1>4, <2>3 DEF Balanced
  <2>5. oc0.entries[n] = who
    BY <1>2, <2>2, <2>3, <2>4, PoolAssumption DEF Carries, Names
  <2> QED
    BY <1>1, <1>9, <2>1, <2>5 DEF Entitled
<1> QED
  BY <1>7, <1>8, <1>9

(***************************************************************************)
(* Counting                                                                *)
(***************************************************************************)
\* Rows with different accounts are as many as their accounts.
LEMMA AsMany ==
    ASSUME NEW T, NEW rows \in Seq(T), \A i, k \in DOMAIN rows : i # k => rows[i].account # rows[k].account
    PROVE  IsFiniteSet(Accounts(rows)) /\ Cardinality(Accounts(rows)) = Len(rows)
<1> DEFINE f == [i \in 1 .. Len(rows) |-> rows[i].account]
<1>1. DOMAIN rows = 1 .. Len(rows) /\ Len(rows) \in Nat
  OBVIOUS
<1>2. f \in [1 .. Len(rows) -> Accounts(rows)]
  BY <1>1 DEF Accounts
<1>3. \A i, k \in 1 .. Len(rows) : i # k => f[i] # f[k]
  BY <1>1
<1>4. \A a \in Accounts(rows) : \E i \in 1 .. Len(rows) : f[i] = a
  BY <1>1 DEF Accounts
<1> HIDE DEF f
<1> QED
  BY <1>1, <1>2, <1>3, <1>4, NumberedRange

\* The numbers that are no account's and the number of accounts.
LEMMA TopNumber ==
    /\ Top \in Nat /\ Top >= Primary /\ \A n \in Own : n =< Top
    /\ IsFiniteSet(Account) /\ Cardinality(Account) \in Nat
    /\ Provider = 1 .. Top + 2 * Cardinality(Account)
<1> DEFINE S == Own \cup {Primary}
<1>1. Own \subseteq Nat /\ IsFiniteSet(Own) /\ IsFiniteSet(Account)
  BY PoolAssumption
<1>2. S \in SUBSET Nat /\ S # {} /\ IsFiniteSet(S) /\ Primary \in S /\ Own \subseteq S
  BY <1>1, FS_AddElement
<1>3. Top = Max(S) /\ Provider = 1 .. Max(S) + 2 * Cardinality(Account)
  BY DEF Top, Provider
<1> HIDE DEF S
<1>4. Max(S) \in Nat /\ \A n \in S : n =< Max(S)
  BY <1>2, MaxGreatest
<1> QED
  BY <1>1, <1>2, <1>3, <1>4, FS_CardinalityType

\* Accounts that leave S raise the highest number by as many as they are.
LEMMA Raised ==
    ASSUME NEW S \in SUBSET Account, NEW T \in SUBSET S, NEW U \in SUBSET (S \ T)
    PROVE  /\ Cardinality(Account \ S) \in Nat /\ Cardinality(Account \ T) \in Nat
           /\ Cardinality(U) \in Nat
           /\ Cardinality(Account \ S) + Cardinality(U) =< Cardinality(Account \ T)
           /\ Cardinality(Account \ T) =< Cardinality(Account)
<1>1. IsFiniteSet(Account) /\ Cardinality(Account) \in Nat
  BY TopNumber
<1>2. IsFiniteSet(Account \ S) /\ IsFiniteSet(Account \ T) /\ IsFiniteSet(U)
        /\ Cardinality(Account \ T) =< Cardinality(Account)
  BY <1>1, FS_Subset
<1>3. (Account \ S) \cap U = {} /\ (Account \ S) \cup U \subseteq Account \ T
  OBVIOUS
<1>4. Cardinality((Account \ S) \cup U) = Cardinality(Account \ S) + Cardinality(U)
  <2>1. Cardinality((Account \ S) \cap U) = 0
    BY <1>3, FS_EmptySet
  <2>2. Cardinality((Account \ S) \cup U)
          = Cardinality(Account \ S) + Cardinality(U) - Cardinality((Account \ S) \cap U)
    BY ONLY <1>2, FS_Union
  <2>3. Cardinality(Account \ S) \in Nat /\ Cardinality(U) \in Nat
    BY <1>2, FS_CardinalityType
  <2> QED
    BY <2>1, <2>2, <2>3
<1>5. Cardinality((Account \ S) \cup U) =< Cardinality(Account \ T)
  BY <1>2, <1>3, FS_Subset
<1> QED
  BY <1>2, <1>4, <1>5, FS_CardinalityType

\* The highest number is a number, and there is room above it.
LEMMA RoomAbove ==
    /\ Highest \in Nat /\ Primary =< Highest /\ Top =< Highest
    /\ Highest =< Top + Cardinality(Account)
<1> DEFINE c == Cardinality(Account \ Open)
<1>1. c \in Nat /\ c =< Cardinality(Account)
  <2>1. Open \in SUBSET Account
    BY DEF Open
  <2> QED
    BY <2>1, Raised
<1>2. Highest = Top + c
  BY DEF Highest
<1> HIDE DEF c
<1> QED
  BY <1>1, <1>2, TopNumber

\* The next number is at most one above all in N.
LEMMA NextBounded ==
    ASSUME NEW N \in SUBSET Nat, IsFiniteSet(N), NEW high \in Nat, Primary =< high,
           \A n \in N : n =< high
    PROVE  NextNumber(N) \in Nat /\ NextNumber(N) =< high + 1
<1> DEFINE Seen == {n \in N : Legible(n)}
           S == Seen \cup {Primary}
<1>1. Seen \in SUBSET N
  OBVIOUS
<1>2. NextNumber(N) = 1 + Max(S)
  BY DEF NextNumber
<1> HIDE DEF Seen
<1>3. S \in SUBSET Nat /\ S # {} /\ \A n \in S : n =< high
  BY <1>1
<1>4. IsFiniteSet(S)
  BY <1>1, FS_Subset, FS_AddElement
<1> HIDE DEF S
<1>5. Max(S) \in S
  BY <1>3, <1>4, MaxGreatest
<1>6. Max(S) \in Nat /\ Max(S) =< high
  BY <1>3, <1>5
<1> QED
  BY <1>2, <1>6

(***************************************************************************)
(* Calls that waste nothing                                                *)
(***************************************************************************)
\* What the call at work relies on.
Spare(j, high) ==
    /\ InBalance(j) /\ Thrifty(job[j], high) /\ Owned(files["opencode"]) /\ Unique(vault)
    /\ high \in Nat /\ Primary =< high /\ Top =< high
    /\ \A i \in DOMAIN vault : vault[i].provider =< high

\* Call h imports no account that g does not import, or that is not known otherwise.
Brings(g, h) ==
    \A a \in Account : Imports(h, a) => Imports(g, a) \/ a \in outside \cup pending \cup Accounts(vault)

\* A step of call j wastes nothing.
Modest(j, high) == Thrifty(job'[j], high) /\ Owned(files'["opencode"]) /\ Brings(job[j], job'[j])

\* A call that is over has nothing to waste.
LEMMA IdleThrifty == ASSUME NEW high PROVE Thrifty(Idle, high) /\ \A a \in Account : ~Imports(Idle, a)
<1>1. Idle.op = "none" /\ Idle.writes = <<>>
  BY DEF Idle
<1> QED
  BY <1>1 DEF Thrifty, Counted, Numbered, Imports, Locking

\* A call goes on.
LEMMA BecomeModest ==
    ASSUME Inv, NEW j \in Job, NEW h, NEW high, Become(j, h), UNCHANGED files,
           Owned(files["opencode"]), Thrifty(h, high), Brings(job[j], h)
    PROVE  Modest(j, high)
  BY CallOf DEF Inv, Become, Modest

\* A call ends.
LEMMA FinishModest ==
    ASSUME Inv, NEW j \in Job, NEW high, Finish(j), UNCHANGED files, Owned(files["opencode"])
    PROVE  Modest(j, high)
<1>1. Brings(job[j], Idle)
  BY IdleThrifty DEF Brings
<1> QED
  BY <1>1, IdleThrifty, BecomeModest DEF Finish

\* What the sequences and numbers of a call are.
LEMMA Parts ==
    ASSUME NEW g \in Call
    PROVE  /\ g.made \in Seq(Row) /\ g.todo \in Seq(AnyRow) /\ g.writes \in Seq(Result)
           /\ g.plan \in Seq(Edit) /\ g.reserved \in SUBSET Nat /\ g.row.provider \in Nat
           /\ Len(g.made) \in Nat /\ Len(g.todo) \in Nat
           /\ \A k \in DOMAIN g.writes : g.writes[k].newer \in Nat
           /\ \A k \in DOMAIN g.made : g.made[k].provider \in Nat
<1>1. /\ g.made \in Seq(Row) /\ g.todo \in Seq(AnyRow) /\ g.writes \in Seq(Result)
      /\ g.plan \in Seq(Edit) /\ g.reserved \in SUBSET Nat /\ g.row.provider \in Nat
  BY DEF Call, AnyRow
<1>2. \A k \in DOMAIN g.writes : g.writes[k].newer \in Nat
  <2>1. \A w \in Result : w.newer \in Nat
    BY PoolAssumption DEF Result
  <2>2. \A k \in DOMAIN g.writes : g.writes[k] \in Result
    BY <1>1
  <2> QED
    BY <2>1, <2>2
<1>3. \A k \in DOMAIN g.made : g.made[k].provider \in Nat
  BY <1>1 DEF Row
<1> QED
  BY <1>1, <1>2, <1>3

\* A call fails.
LEMMA FailModest ==
    ASSUME Inv, NEW j \in Job, NEW high, Spare(j, high), Fail(j, job[j]), UNCHANGED files
    PROVE  Modest(j, high)
<1> DEFINE g == job[j]
           h == [g EXCEPT !.pc = "undo"]
<1>1. CASE Finish(j)
  BY <1>1, FinishModest DEF Spare
<1>2. CASE ~Finish(j)
  <2>1. Become(j, h) /\ g \in Call
    BY <1>2, CallOf DEF Fail, Inv
  <2>2. h.pc = "undo" /\ h.op = g.op /\ h.writes = g.writes
    BY <2>1 DEF Call
  <2> HIDE DEF h
  <2>3. Brings(g, h)
    BY <2>2 DEF Brings, Imports
  <2>4. Counted(g) /\ \A k \in DOMAIN g.writes : g.writes[k].file = "opencode" => Owned(g.writes[k].before)
    BY DEF Spare, Thrifty
  <2>5. ASSUME g.op \in Locking, NEW k \in DOMAIN g.writes PROVE g.writes[k].newer < Cardinality(Account)
    <3>1. CASE g.pc = "undo"
      BY <2>4, <2>5, <3>1 DEF Counted
    <3>2. CASE g.pc # "undo"
      <4> DEFINE m == Len(g.made)
                 t == Len(g.todo)
                 w == g.writes[k].newer
                 one == IF AtRow(g) THEN 1 ELSE 0
                 two == IF InHand(g) /\ g.writes[k].file = "opencode" THEN 1 ELSE 0
      <4>1. m + t + one =< Cardinality(Account) /\ w < m + two
        BY <2>4, <2>5, <3>2 DEF Counted, Rows
      <4>2. one \in Nat /\ two \in Nat /\ two =< one
        BY DEF InHand, AtRow, AtFiles
      <4>3. w \in Nat /\ m \in Nat /\ t \in Nat
        BY <2>1, <2>5, Parts
      <4> HIDE DEF m, t, w, one, two
      <4>4. w < Cardinality(Account)
        BY <4>1, <4>2, <4>3, TopNumber
      <4> QED
        BY <4>4 DEF w
    <3> QED
      BY <3>1, <3>2
  <2>6. Counted(h)
    BY <2>2, <2>4, <2>5 DEF Counted, Locking
  <2>7. Thrifty(h, high)
    BY <2>2, <2>4, <2>6 DEF Thrifty, Numbered
  <2> QED
    BY <2>1, <2>3, <2>7, BecomeModest DEF Spare
<1> QED
  BY <1>1, <1>2

\* A row of call g with number p is to be configured.
Ready(g, p, high) ==
    /\ g.op \in Locking
    /\ Len(g.made) + Len(g.todo) + 1 =< Cardinality(Account)
    /\ p =< high + Len(g.made) + 1
    /\ g.op = "complete" => g.todo = <<>>
    /\ g.op = "import" => \A n \in g.reserved : n =< high + Len(g.made) + 1
    /\ \A k \in DOMAIN g.made : g.made[k].provider =< high + Len(g.made)
    /\ \A k \in DOMAIN g.writes : /\ g.writes[k].newer =< Len(g.made)
                                  /\ g.writes[k].file = "opencode" => Owned(g.writes[k].before)

\* A call at the files is ready.
LEMMA AtFilesReady ==
    ASSUME NEW g \in Call, NEW high \in Nat, Thrifty(g, high), g.op \in Locking, g.pc \in AtFiles
    PROVE  Ready(g, g.row.provider, high)
<1>1. Counted(g) /\ Numbered(g, high) /\ g.pc # "undo" /\ AtRow(g)
  BY DEF Thrifty, AtFiles, AtRow
<1>2. Len(g.made) \in Nat /\ Len(g.todo) \in Nat /\ \A k \in DOMAIN g.writes : g.writes[k].newer \in Nat
  BY Parts
<1>3. Rows(g) =< Cardinality(Account) /\ Rows(g) = Len(g.made) + Len(g.todo) + 1
  BY <1>1 DEF Counted, Rows
<1>4. \A k \in DOMAIN g.writes : g.writes[k].newer =< Len(g.made)
  <2> TAKE k \in DOMAIN g.writes
  <2> DEFINE two == IF InHand(g) /\ g.writes[k].file = "opencode" THEN 1 ELSE 0
  <2>1. g.writes[k].newer < Len(g.made) + two
    BY <1>1 DEF Counted
  <2>2. two \in {0, 1} /\ g.writes[k].newer \in Nat
    BY <1>2
  <2> HIDE DEF two
  <2> QED
    BY <1>2, <2>1, <2>2
<1> QED
  BY <1>1, <1>3, <1>4 DEF Ready, Thrifty, Counted, Numbered

\* A row that is configured counts among those to commit.
LEMMA ConfiguredThrifty ==
    ASSUME NEW g \in Call, g.row \in Row, NEW high \in Nat, Ready(g, g.row.provider, high)
    PROVE  /\ Thrifty(Configured(g), high)
           /\ \A a : Imports(Configured(g), a) =>
                 a \in Accounts(g.todo) \cup Accounts(g.made) \cup {g.row.account}
<1> DEFINE h == Configured(g)
           m == Len(g.made)
           t == Len(g.todo)
<1>1. /\ h.op = g.op /\ h.pc = (IF g.op = "complete" THEN "store" ELSE "next")
      /\ h.todo = g.todo /\ h.reserved = g.reserved /\ h.writes = g.writes
      /\ h.made = Append(g.made, g.row)
  BY DEF Call, Configured
<1>2. /\ g.made \in Seq(Row) /\ m \in Nat /\ t \in Nat /\ g.row.provider \in Nat
      /\ g.reserved \in SUBSET Nat
      /\ \A k \in DOMAIN g.writes : g.writes[k].newer \in Nat
      /\ \A k \in DOMAIN g.made : g.made[k].provider \in Nat
  BY Parts
<1> HIDE DEF h
<1>3. /\ Len(h.made) = m + 1 /\ DOMAIN h.made = DOMAIN g.made \cup {m + 1}
      /\ h.made[m + 1] = g.row /\ \A k \in DOMAIN g.made : h.made[k] = g.made[k]
  BY <1>1, <1>2
<1>4. ~AtRow(h) /\ ~InHand(h) /\ h.pc # "undo" /\ h.pc # "name" /\ h.pc \notin AtFiles
  BY <1>1 DEF AtRow, InHand, AtFiles
<1>5. Rows(h) = m + 1 + t
  BY <1>1, <1>2, <1>3, <1>4 DEF Rows
<1> HIDE DEF m, t
<1>6. \A k \in DOMAIN g.writes : g.writes[k].newer < m + 1
  BY <1>2 DEF Ready, m
<1>7. Counted(h)
  <2>1. Rows(h) =< Cardinality(Account)
    <3>1. m + t + 1 =< Cardinality(Account)
      BY DEF Ready, m, t
    <3> QED
      BY <1>2, <1>5, <3>1
  <2>2. \A k \in DOMAIN h.writes :
           h.writes[k].newer < Len(h.made) + (IF InHand(h) /\ h.writes[k].file = "opencode" THEN 1 ELSE 0)
    BY <1>1, <1>2, <1>3, <1>4, <1>6
  <2> QED
    BY <1>1, <1>4, <2>1, <2>2 DEF Counted, Ready, Locking
<1>8. Numbered(h, high)
  <2>1. \A k \in DOMAIN h.made : h.made[k].provider =< high + Len(h.made)
    BY <1>2, <1>3 DEF Ready, m
  <2>2. g.op = "import" => \A n \in h.reserved : n =< high + Len(h.made) + 0
    BY <1>1, <1>2, <1>3 DEF Ready, m
  <2> QED
    BY <1>1, <1>4, <2>1, <2>2 DEF Numbered
<1>9. \A k \in DOMAIN h.writes : h.writes[k].file = "opencode" => Owned(h.writes[k].before)
  BY <1>1 DEF Ready
<1>10. \A a : Imports(h, a) => a \in Accounts(g.todo) \cup Accounts(g.made) \cup {g.row.account}
  BY <1>1, <1>3, <1>4 DEF Imports, Accounts
<1> QED
  BY <1>7, <1>8, <1>9, <1>10 DEF Thrifty, h

\* A row that goes to the files, or needs none of them.
LEMMA ConfigureThrifty ==
    ASSUME NEW g \in Call, NEW r \in AnyRow, r.account \in Account, r.omo => r.oc,
           NEW adds \in SUBSET {"opencode", "omo"}, r.provider # Unassigned \/ "opencode" \in adds,
           NEW high \in Nat, Ready(g, r.provider, high),
           \A k \in DOMAIN g.writes : g.writes[k].newer < Len(g.made)
    PROVE  /\ Thrifty(Configure(g, r, adds), high)
           /\ \A a : Imports(Configure(g, r, adds), a) =>
                 a \in Accounts(g.todo) \cup Accounts(g.made) \cup {r.account}
<1> DEFINE h == [g EXCEPT !.row = r, !.adds = adds]
<1>1. h \in Call /\ h.op = g.op /\ h.row = r /\ h.adds = adds
      /\ h.todo = g.todo /\ h.reserved = g.reserved /\ h.made = g.made /\ h.writes = g.writes
  BY DEF Call
<1>2. r.provider # Unassigned => r \in Row
  BY DEF Row, AnyRow
<1>3. Ready(h, r.provider, high)
  BY <1>1 DEF Ready
<1> HIDE DEF h
<1>4. CASE Configure(g, r, adds) = Configured(h) /\ r.provider # Unassigned
  BY <1>1, <1>2, <1>3, <1>4, ConfiguredThrifty
<1>5. ASSUME NEW l \in {"models", "auth_load"}, Configure(g, r, adds) = [h EXCEPT !.pc = l]
      PROVE  /\ Thrifty(Configure(g, r, adds), high)
             /\ \A a : Imports(Configure(g, r, adds), a) =>
                   a \in Accounts(g.todo) \cup Accounts(g.made) \cup {r.account}
  <2> DEFINE k == [h EXCEPT !.pc = l]
  <2>1. k.op = h.op /\ k.row = h.row /\ k.todo = h.todo /\ k.reserved = h.reserved
          /\ k.made = h.made /\ k.writes = h.writes /\ k.pc = l
    BY <1>1 DEF Call
  <2> HIDE DEF k
  <2>2. k.pc \in AtFiles /\ AtRow(k) /\ ~InHand(k) /\ k.pc # "undo" /\ k.pc # "name"
    BY <2>1 DEF AtFiles, AtRow, InHand
  <2>3. Len(g.made) \in Nat /\ Len(g.todo) \in Nat /\ \A i \in DOMAIN g.writes : g.writes[i].newer \in Nat
    BY Parts
  <2>4. Rows(k) = Len(g.made) + Len(g.todo) + 1
    BY <1>1, <2>1, <2>2 DEF Rows
  <2>5. Rows(k) =< Cardinality(Account)
    BY <2>4 DEF Ready
  <2>6. \A i \in DOMAIN k.writes :
           k.writes[i].newer < Len(k.made) + (IF InHand(k) /\ k.writes[i].file = "opencode" THEN 1 ELSE 0)
    BY <1>1, <2>1, <2>2, <2>3
  <2>7. Counted(k)
    BY <1>1, <1>3, <2>1, <2>2, <2>5, <2>6 DEF Counted, Ready, Locking
  <2>8. Numbered(k, high)
    BY <1>1, <1>3, <2>1, <2>2 DEF Numbered, Ready
  <2>9. Thrifty(k, high)
    BY <1>3, <2>1, <2>7, <2>8 DEF Thrifty, Ready
  <2>10. \A a : Imports(k, a) => a \in Accounts(g.todo) \cup Accounts(g.made) \cup {r.account}
    BY <1>1, <2>1 DEF Imports
  <2> QED
    BY <1>5, <2>9, <2>10 DEF k
<1>6. \/ Configure(g, r, adds) = Configured(h) /\ r.provider # Unassigned
      \/ \E l \in {"models", "auth_load"} : Configure(g, r, adds) = [h EXCEPT !.pc = l]
  BY DEF Configure, h
<1> QED
  BY <1>4, <1>5, <1>6

\* A call goes on elsewhere with the same rows.
LEMMA MovedThrifty ==
    ASSUME NEW g \in Call, NEW h \in Call, NEW high, Thrifty(g, high),
           g.op \in Locking, g.pc # "undo", h.pc # "undo", h.op = g.op, h.made = g.made,
           h.todo = g.todo, h.writes = g.writes, AtRow(h) <=> AtRow(g), InHand(g) => InHand(h),
           AtRow(g) => h.row.account = g.row.account, Numbered(h, high)
    PROVE  Thrifty(h, high) /\ Brings(g, h)
<1>1. Counted(g) /\ Len(g.made) \in Nat /\ \A k \in DOMAIN g.writes : g.writes[k].newer \in Nat
  BY Parts DEF Thrifty
<1>2. Rows(h) = Rows(g)
  BY DEF Rows
<1>3. ASSUME NEW k \in DOMAIN h.writes
      PROVE  h.writes[k].newer < Len(h.made) + (IF InHand(h) /\ h.writes[k].file = "opencode" THEN 1 ELSE 0)
  <2> DEFINE one == IF InHand(g) /\ g.writes[k].file = "opencode" THEN 1 ELSE 0
             two == IF InHand(h) /\ h.writes[k].file = "opencode" THEN 1 ELSE 0
             m == Len(g.made)
             w == g.writes[k].newer
  <2>1. w < m + one /\ w \in Nat /\ m \in Nat
    BY <1>1 DEF Counted
  <2>2. one \in Nat /\ two \in Nat /\ one =< two
    OBVIOUS
  <2> HIDE DEF one, two, m, w
  <2>3. w < m + two
    BY <2>1, <2>2
  <2> QED
    BY <2>3 DEF w, m, two
<1>4. Counted(h)
  BY <1>1, <1>2, <1>3 DEF Counted, Locking
<1>5. Brings(g, h)
  BY DEF Brings, Imports
<1> QED
  BY <1>4, <1>5 DEF Thrifty

\* What a completion, import or application has at first.
LEMMA BeginsEmpty ==
    ASSUME Inv, NEW j \in Job, InBalance(j), job[j].op \in Locking,
           job[j].pc \in {"decode", "inspect", "primary", "list"}
    PROVE  job[j].made = <<>> /\ job[j].writes = <<>>
<1>1. Gained(job[j], files["auth"], files["opencode"], vault)
  BY LockingLedger DEF InBalance
<1> QED
  BY <1>1 DEF Gained

\* A call with nothing configured and nothing written.
LEMMA EmptyThrifty ==
    ASSUME NEW h, NEW high, h.op \in Locking, h.made = <<>>, h.writes = <<>>, h.pc # "undo",
           Rows(h) =< Cardinality(Account), h.op = "complete" => h.todo = <<>>, Numbered(h, high)
    PROVE  Thrifty(h, high)
  BY DEF Thrifty, Counted, Locking

\* A bundle has no more accounts than there are.
LEMMA DecodeModest ==
    ASSUME Inv, NEW j \in Job, NEW high, Spare(j, high), Decode(j)
    PROVE  Modest(j, high)
<1> DEFINE g == job[j]
<1>1. g \in Call /\ g.pc = "decode" /\ g.op = "import" /\ UNCHANGED files
  BY CallOf DEF Inv, Decode, At, PlaceInv
<1>2. g.made = <<>> /\ g.writes = <<>>
  BY <1>1, BeginsEmpty DEF Locking, Spare
<1>3. CASE Finish(j)
  BY <1>1, <1>3, FinishModest DEF Spare
<1>4. ASSUME NEW S \in SUBSET (outside \cup pending \cup Accounts(vault)) \ {{}},
             NEW s \in SetToSeqs(S),
             Become(j, [job[j] EXCEPT
                         !.todo = [i \in DOMAIN s |-> [NoRow EXCEPT !.account = s[i]]],
                         !.pc = "inspect"])
      PROVE  Modest(j, high)
  <2> DEFINE todo == [i \in DOMAIN s |-> [NoRow EXCEPT !.account = s[i]]]
             h == [g EXCEPT !.todo = todo, !.pc = "inspect"]
  <2>1. h.op = "import" /\ h.pc = "inspect" /\ h.todo = todo /\ h.made = <<>> /\ h.writes = <<>>
    BY <1>1, <1>2 DEF Call
  <2>2. S \subseteq Account
    BY <1>4 DEF Inv, WorldInv, Accounts, Row
  <2>3. IsFiniteSet(S) /\ Cardinality(S) =< Cardinality(Account) /\ Cardinality(S) \in Nat
    BY <2>2, TopNumber, FS_Subset, FS_CardinalityType
  <2>4. s \in [1 .. Cardinality(S) -> S]
    BY <1>4 DEF SetToSeqs
  <2>5. Len(todo) = Cardinality(S) /\ DOMAIN todo = 1 .. Cardinality(S)
        /\ \A i \in DOMAIN todo : todo[i].account \in S
    BY <2>3, <2>4 DEF NoRow
  <2> HIDE DEF todo
  <2>6. Rows(h) =< Cardinality(Account)
    <3>1. ~AtRow(h) /\ Len(h.made) = 0
      BY <2>1 DEF AtRow, AtFiles
    <3>2. Rows(h) = Cardinality(S)
      BY <2>1, <2>3, <2>5, <3>1 DEF Rows
    <3> QED
      BY <2>3, <3>2
  <2>7. Become(j, h)
    BY <1>4 DEF todo
  <2> HIDE DEF h
  <2>8. Numbered(h, high)
    BY <2>1 DEF Numbered, AtFiles
  <2>9. Thrifty(h, high)
    BY <2>1, <2>6, <2>8, EmptyThrifty DEF Locking
  <2>10. Brings(g, h)
    BY <1>4, <2>1, <2>5 DEF Brings, Imports, Accounts, AtRow, AtFiles
  <2> QED
    BY <1>1, <2>7, <2>9, <2>10, BecomeModest DEF Spare
<1> QED
  BY <1>3, <1>4 DEF Decode

\* What is read of the settings.
LEMMA InspectModest ==
    ASSUME Inv, NEW j \in Job, NEW high, Spare(j, high), Inspect(j)
    PROVE  Modest(j, high)
<1> DEFINE g == job[j]
           h == [g EXCEPT !.conf = settings, !.free = (vault = <<>>),
                          !.pc = IF g.op = "apply" THEN "list" ELSE "primary"]
<1>1. g \in Call /\ g.pc = "inspect" /\ g.op \in Locking /\ UNCHANGED files /\ Become(j, h)
  BY CallOf DEF Inv, Inspect, At, PlaceInv
<1>2. g.made = <<>> /\ g.writes = <<>>
  BY <1>1, BeginsEmpty DEF Spare
<1>3. /\ h \in Call /\ h.op = g.op /\ h.pc \in {"list", "primary"} /\ h.made = g.made /\ h.todo = g.todo
      /\ h.writes = g.writes
  <2>1. settings \in Settings /\ (vault = <<>>) \in BOOLEAN
    BY DEF Inv, WorldInv
  <2> QED
    BY <1>1, <2>1 DEF Call, Location, Loading
<1> HIDE DEF h
<1>4. ~AtRow(h) /\ ~AtRow(g) /\ ~InHand(g)
  BY <1>1, <1>3 DEF AtRow, AtFiles, InHand
<1>5. Numbered(h, high)
  BY <1>2, <1>3 DEF Numbered, AtFiles
<1>6. Thrifty(h, high) /\ Brings(g, h)
  BY <1>1, <1>3, <1>4, <1>5, MovedThrifty DEF Spare
<1> QED
  BY <1>1, <1>6, BecomeModest DEF Spare

\* has_primary_account: a completion without one begins with its row.
LEMMA FindPrimaryModest ==
    ASSUME Inv, NEW j \in Job, NEW high, Spare(j, high), FindPrimary(j)
    PROVE  Modest(j, high)
<1> DEFINE g == [job[j] EXCEPT !.free = @ /\ Primary \notin Names(files["auth"])]
<1>1. job[j] \in Call /\ RowInv(job[j]) /\ job[j].pc = "primary" /\ job[j].op \in Locking /\ UNCHANGED files
  BY CallOf DEF Inv, FindPrimary, At, PlaceInv
<1>2. job[j].made = <<>> /\ job[j].writes = <<>>
  BY <1>1, BeginsEmpty DEF Spare
<1>3. /\ g \in Call /\ g.op = job[j].op /\ g.pc = "primary" /\ g.made = <<>> /\ g.writes = <<>>
      /\ g.todo = job[j].todo /\ g.row = job[j].row
  BY <1>1, <1>2 DEF Call
<1>4. \/ \E n \in {Primary, Unassigned} :
            /\ g.op = "complete" /\ (n = Unassigned => g.conf.opencode)
            /\ Become(j, Configure(g, Flagged(g, n), FilesOf(g.conf)))
      \/ Become(j, [g EXCEPT !.pc = "list"])
  BY DEF FindPrimary
<1> HIDE DEF g
<1>5. Counted(job[j])
  BY DEF Spare, Thrifty
<1>6. ASSUME NEW n \in {Primary, Unassigned}, g.op = "complete", n = Unassigned => g.conf.opencode,
             Become(j, Configure(g, Flagged(g, n), FilesOf(g.conf)))
      PROVE  Modest(j, high)
  <2> DEFINE r == Flagged(g, n)
             h == Configure(g, r, FilesOf(g.conf))
  <2>1. g.row.account \in Account
    BY <1>1, <1>3, <1>6 DEF RowInv
  <2>2. /\ r \in AnyRow /\ r.account \in Account /\ (r.omo => r.oc) /\ r.provider = n
        /\ FilesOf(g.conf) \in SUBSET {"opencode", "omo"}
        /\ r.provider # Unassigned \/ "opencode" \in FilesOf(g.conf)
    BY <1>3, <1>6, <2>1, FlaggedOK
  <2>3. Cardinality(Account) \in Nat /\ Cardinality(Account) >= 1
    <3>1. Account # {}
      BY <2>1
    <3> QED
      BY <3>1, TopNumber, FS_EmptySet
  <2>4. g.todo = <<>> /\ Len(g.todo) = 0 /\ Len(g.made) = 0
    BY <1>1, <1>3, <1>5, <1>6 DEF Counted
  <2> HIDE DEF r
  <2>5. high \in Nat
    BY DEF Spare
  <2>6. Ready(g, r.provider, high)
    BY <1>3, <1>6, <2>2, <2>3, <2>4, <2>5 DEF Ready, Locking
  <2>7. Thrifty(h, high)
    BY <1>3, <2>2, <2>5, <2>6, ConfigureThrifty
  <2>8. h.op = "complete"
    BY <1>3, <1>6, <2>2 DEF Configure, Configured, Call
  <2> HIDE DEF h
  <2>9. Brings(job[j], h)
    BY <2>8 DEF Brings, Imports
  <2> QED
    BY <1>1, <1>6, <2>7, <2>9, BecomeModest DEF Spare, h, r
<1>7. CASE Become(j, [g EXCEPT !.pc = "list"])
  <2> DEFINE h == [g EXCEPT !.pc = "list"]
  <2>1. h \in Call /\ h.op = g.op /\ h.pc = "list" /\ h.made = g.made /\ h.todo = g.todo /\ h.writes = g.writes
    BY <1>3 DEF Call, Location
  <2>2. Become(j, h)
    BY <1>7
  <2> HIDE DEF h
  <2>3. ~AtRow(h) /\ ~AtRow(job[j]) /\ ~InHand(job[j]) /\ Numbered(h, high)
    BY <1>1, <1>3, <2>1 DEF AtRow, AtFiles, InHand, Numbered
  <2>4. Thrifty(h, high) /\ Brings(job[j], h)
    BY <1>1, <1>2, <1>3, <2>1, <2>3, MovedThrifty DEF Spare
  <2> QED
    BY <1>1, <2>2, <2>4, BecomeModest DEF Spare
<1> QED
  BY <1>4, <1>6, <1>7

\* A row is taken from the front.
LEMMA TailRows ==
    ASSUME NEW T, NEW rows \in Seq(T), rows # <<>>
    PROVE  /\ Len(Tail(rows)) \in Nat /\ Len(rows) = Len(Tail(rows)) + 1
           /\ Accounts(Tail(rows)) \subseteq Accounts(rows) /\ Head(rows).account \in Accounts(rows)
<1>1. /\ Len(rows) \in Nat /\ 1 \in DOMAIN rows /\ Head(rows) = rows[1]
      /\ Len(Tail(rows)) = Len(rows) - 1
      /\ \A i \in DOMAIN Tail(rows) : i + 1 \in DOMAIN rows /\ Tail(rows)[i] = rows[i + 1]
  OBVIOUS
<1> QED
  BY <1>1 DEF Accounts

\* list_complete_accounts
LEMMA ListRowsModest ==
    ASSUME Inv, NEW j \in Job, NEW high, Spare(j, high), ListRows(j)
    PROVE  Modest(j, high)
<1> DEFINE g == job[j]
           h == [g EXCEPT
                    !.reserved = IF g.op = "apply" THEN {} ELSE Providers(vault),
                    !.todo = IF g.op = "apply" THEN vault ELSE @,
                    !.pc = IF g.op = "complete" THEN "name" ELSE "next"]
<1>1. g \in Call /\ RowInv(g) /\ g.pc = "list" /\ g.op \in Locking /\ UNCHANGED files /\ Become(j, h)
  BY CallOf DEF Inv, ListRows, At, PlaceInv
<1>2. g.made = <<>> /\ g.writes = <<>>
  BY <1>1, BeginsEmpty DEF Spare
<1>3. /\ h.op = g.op /\ h.pc = (IF g.op = "complete" THEN "name" ELSE "next")
      /\ h.made = <<>> /\ h.writes = <<>>
      /\ h.reserved = (IF g.op = "apply" THEN {} ELSE Providers(vault))
      /\ h.todo = (IF g.op = "apply" THEN vault ELSE g.todo)
  BY <1>1, <1>2 DEF Call
<1> HIDE DEF h
<1>4. high \in Nat /\ Counted(g) /\ \A n \in Providers(vault) : n =< high
  BY DEF Spare, Thrifty, Providers
<1>5. AtRow(h) <=> g.op = "complete"
  BY <1>1, <1>3 DEF AtRow, AtFiles
<1>6. Rows(h) =< Cardinality(Account)
  <2>1. Len(h.made) = 0 /\ ~AtRow(g) /\ Len(g.todo) \in Nat
    BY <1>1, <1>3, Parts DEF AtRow, AtFiles
  <2>2. Rows(h) = IF g.op = "complete" THEN Len(h.todo) + 1 ELSE Len(h.todo)
    <3>1. Len(h.todo) \in Nat
      BY <1>1, <1>3, <2>1 DEF Inv, WorldInv
    <3> DEFINE t == Len(h.todo)
    <3>2. Rows(h) = 0 + t + (IF g.op = "complete" THEN 1 ELSE 0)
      BY <1>5, <2>1 DEF Rows
    <3> HIDE DEF t
    <3>3. CASE g.op = "complete"
      BY <3>1, <3>2, <3>3 DEF t
    <3>4. CASE g.op # "complete"
      BY <3>1, <3>2, <3>4 DEF t
    <3> QED
      BY <3>3, <3>4
  <2>3. CASE g.op = "complete"
    <3>1. Account # {} /\ h.todo = <<>>
      BY <1>1, <1>3, <1>4, <2>3 DEF RowInv, Counted
    <3>2. Cardinality(Account) >= 1
      BY <3>1, TopNumber, FS_EmptySet
    <3> QED
      BY <2>2, <2>3, <3>1, <3>2
  <2>4. CASE g.op = "import"
    <3> DEFINE t == Len(g.todo)
    <3>1. Rows(g) = 0 + t + 0 /\ Rows(h) = t
      BY <1>2, <1>3, <2>1, <2>2, <2>4 DEF Rows
    <3>2. Rows(g) =< Cardinality(Account)
      BY <1>1, <1>4 DEF Counted
    <3> HIDE DEF t
    <3>3. t \in Nat
      BY <2>1 DEF t
    <3> QED
      BY <3>1, <3>2, <3>3
  <2>5. CASE g.op = "apply"
    <3>1. Cardinality(Accounts(vault)) = Len(vault)
      BY AsMany DEF Inv, WorldInv, Spare, Unique
    <3>2. Accounts(vault) \subseteq Account
      BY DEF Inv, WorldInv, Accounts, Row
    <3>3. Cardinality(Accounts(vault)) =< Cardinality(Account)
      BY <3>2, TopNumber, FS_Subset
    <3> QED
      BY <1>3, <2>2, <2>5, <3>1, <3>3
  <2> QED
    BY <1>1, <2>3, <2>4, <2>5 DEF Locking
<1>7. Numbered(h, high)
  <2>1. \A n \in h.reserved : n \in Nat /\ n =< high + Len(h.made) + 0
    <3>1. Len(h.made) = 0 /\ \A n \in Providers(vault) : n \in Nat
      BY <1>3 DEF Inv, WorldInv, Providers, Row
    <3> QED
      BY <1>3, <1>4, <3>1
  <2> QED
    BY <1>3, <2>1 DEF Numbered, AtFiles
<1>8. Thrifty(h, high)
  <2>1. h.op = "complete" => h.todo = <<>>
    BY <1>1, <1>3, <1>4 DEF Counted
  <2>2. h.op \in Locking /\ h.pc # "undo"
    BY <1>1, <1>3
  <2> QED
    BY <1>3, <1>6, <1>7, <2>1, <2>2, EmptyThrifty
<1>9. Brings(g, h)
  BY <1>1, <1>2, <1>3, <1>5 DEF Brings, Imports, Locking
<1> QED
  BY <1>1, <1>8, <1>9, BecomeModest DEF Spare

\* Between rows, a call has made at most one backup of a file for each row before.
LEMMA BetweenRows ==
    ASSUME NEW g \in Call, NEW high \in Nat, Thrifty(g, high), g.op \in {"import", "apply"},
           g.pc = "next", g.todo # <<>>
    PROVE  /\ Len(g.made) + Len(Tail(g.todo)) + 1 =< Cardinality(Account)
           /\ \A k \in DOMAIN g.writes : g.writes[k].newer < Len(g.made)
           /\ \A k \in DOMAIN g.writes : g.writes[k].newer =< Len(g.made)
           /\ g.op = "import" => /\ \A n \in g.reserved : n =< high + Len(g.made)
                                 /\ \A n \in g.reserved : n =< high + Len(g.made) + 1
           /\ \A k \in DOMAIN g.made : g.made[k].provider =< high + Len(g.made)
           /\ Primary =< high + Len(g.made) + 1
<1> DEFINE m == Len(g.made)
           t == Len(Tail(g.todo))
<1>1. Counted(g) /\ Numbered(g, high) /\ ~AtRow(g) /\ ~InHand(g)
  BY DEF Thrifty, AtRow, AtFiles, InHand
<1>2. m \in Nat /\ g.reserved \in SUBSET Nat /\ \A k \in DOMAIN g.writes : g.writes[k].newer \in Nat
  BY Parts
<1>3. t \in Nat /\ Len(g.todo) = t + 1
  BY TailRows, Parts
<1>4. Rows(g) =< Cardinality(Account) /\ Rows(g) = m + (t + 1) + 0
  BY <1>1, <1>3 DEF Counted, Rows, Locking
<1>5. \A k \in DOMAIN g.writes : g.writes[k].newer < m + 0
  BY <1>1 DEF Counted, Locking
<1>6. g.op = "import" => \A n \in g.reserved : n =< high + m + 0
  BY <1>1 DEF Numbered, Locking, AtFiles
<1>7. \A k \in DOMAIN g.made : g.made[k].provider =< high + m
  BY <1>1 DEF Numbered, Locking
<1> HIDE DEF m, t
<1>8. m + t + 1 =< Cardinality(Account)
  BY <1>2, <1>3, <1>4
<1>9. /\ \A k \in DOMAIN g.writes : g.writes[k].newer < m
      /\ \A k \in DOMAIN g.writes : g.writes[k].newer =< m
  BY <1>2, <1>5
<1>10. g.op = "import" => /\ \A n \in g.reserved : n =< high + m
                          /\ \A n \in g.reserved : n =< high + m + 1
  BY <1>2, <1>6
<1>11. 1 =< high + m + 1
  BY <1>2
<1> QED
  BY <1>7, <1>8, <1>9, <1>10, <1>11 DEF m, t

\* A row of a bundle.
LEMMA NextImportedThrifty ==
    ASSUME NEW g \in Call, g.op = "import", g.pc = "next", g.todo # <<>>, RowInv(g),
           NEW high \in Nat, Thrifty(g, high)
    PROVE  Thrifty(NextImported(g), high) /\ Brings(g, NextImported(g))
<1> DEFINE h == [g EXCEPT !.todo = Tail(@), !.row = Head(g.todo), !.free = FALSE]
           k == [h EXCEPT !.pc = "name"]
<1>1. /\ g.todo \in Seq(AnyRow) /\ Head(g.todo) \in AnyRow /\ Head(g.todo).account \in Account
      /\ Tail(g.todo) \in Seq(AnyRow)
  BY DEF Call, RowInv
<1>2. h \in Call /\ h.op = "import" /\ h.row = Head(g.todo) /\ h.made = g.made /\ h.writes = g.writes
        /\ h.todo = Tail(g.todo) /\ h.reserved = g.reserved /\ h.conf = g.conf
  BY <1>1 DEF Call
<1>3. /\ Accounts(Tail(g.todo)) \subseteq Accounts(g.todo) /\ Head(g.todo).account \in Accounts(g.todo)
  BY <1>1, TailRows
<1>4. /\ Len(g.made) + Len(Tail(g.todo)) + 1 =< Cardinality(Account)
      /\ \A i \in DOMAIN g.writes : g.writes[i].newer < Len(g.made) /\ g.writes[i].newer =< Len(g.made)
      /\ \A n \in g.reserved : n =< high + Len(g.made) /\ n =< high + Len(g.made) + 1
      /\ \A i \in DOMAIN g.made : g.made[i].provider =< high + Len(g.made)
      /\ Primary =< high + Len(g.made) + 1
  BY BetweenRows
<1>5. \A i \in DOMAIN g.writes : g.writes[i].file = "opencode" => Owned(g.writes[i].before)
  BY DEF Thrifty
<1> HIDE DEF h
<1>6. CASE g.free
  <2> DEFINE r == Flagged(h, Primary)
  <2>1. /\ r \in AnyRow /\ r.account = Head(g.todo).account /\ r.account \in Account /\ (r.omo => r.oc)
        /\ r.provider = Primary /\ FilesOf(g.conf) \in SUBSET {"opencode", "omo"}
    <3>1. h.row.account \in Account /\ Primary \in Nat
      BY <1>1, <1>2
    <3>2. r.account = h.row.account
      BY <1>1, <1>2 DEF Flagged, AnyRow
    <3> QED
      BY <1>2, <3>1, <3>2, FlaggedOK
  <2>2. NextImported(g) = Configure(h, r, FilesOf(g.conf))
    BY <1>6 DEF NextImported, h
  <2> HIDE DEF r
  <2>3. Ready(h, r.provider, high)
    BY <1>2, <1>4, <1>5, <2>1 DEF Ready, Locking
  <2>4. /\ Thrifty(Configure(h, r, FilesOf(g.conf)), high)
        /\ \A a : Imports(Configure(h, r, FilesOf(g.conf)), a) =>
              a \in Accounts(h.todo) \cup Accounts(h.made) \cup {r.account}
    BY <1>2, <1>4, <2>1, <2>3, ConfigureThrifty
  <2>5. \A a : a \in Accounts(g.todo) \cup Accounts(g.made) => Imports(g, a)
    BY DEF Imports
  <2> QED
    BY <1>2, <1>3, <2>1, <2>2, <2>4, <2>5 DEF Brings
<1>7. CASE ~g.free
  <2>1. NextImported(g) = k
    BY <1>7 DEF NextImported, h
  <2>2. k.op = "import" /\ k.pc = "name" /\ k.row = h.row /\ k.made = h.made /\ k.writes = h.writes
          /\ k.todo = h.todo /\ k.reserved = h.reserved
    BY <1>2 DEF Call
  <2> HIDE DEF k
  <2>3. AtRow(k) /\ ~InHand(k) /\ k.pc \notin AtFiles /\ Rows(k) = Len(g.made) + Len(Tail(g.todo)) + 1
    BY <1>2, <2>2 DEF AtRow, AtFiles, InHand, Rows
  <2>4. Len(g.made) \in Nat /\ Len(g.made) + 0 = Len(g.made) /\ high + Len(g.made) + 0 = high + Len(g.made)
    <3> DEFINE m == Len(g.made)
    <3>1. m \in Nat
      BY Parts
    <3> HIDE DEF m
    <3>2. m + 0 = m /\ high + m + 0 = high + m
      BY <3>1
    <3> QED
      BY <3>1, <3>2 DEF m
  <2>5. Counted(k)
    BY <1>2, <1>4, <2>2, <2>3, <2>4 DEF Counted, Locking
  <2>6. Numbered(k, high)
    BY <1>2, <1>4, <2>2, <2>3, <2>4 DEF Numbered
  <2>7. Thrifty(k, high)
    BY <1>2, <1>5, <2>2, <2>5, <2>6 DEF Thrifty
  <2>8. Brings(g, k)
    BY <1>2, <1>3, <2>2 DEF Brings, Imports
  <2> QED
    BY <2>1, <2>7, <2>8
<1> QED
  BY <1>6, <1>7

\* A row of the vault that is to be configured.
LEMMA NextAppliedThrifty ==
    ASSUME NEW g \in Call, g.op = "apply", g.pc = "next", g.todo # <<>>, RowInv(g),
           NEW high \in Nat, Thrifty(g, high),
           \A i \in DOMAIN g.todo : g.todo[i].provider =< high
    PROVE  Thrifty(NextApplied(g), high) /\ Brings(g, NextApplied(g))
<1> DEFINE h == [g EXCEPT !.todo = Tail(@)]
           r == Head(g.todo)
           missing == {f \in FilesOf(g.conf) : IF f = "omo" THEN ~r.omo ELSE ~r.oc}
           q == [r EXCEPT !.oc = @ \/ "opencode" \in missing, !.omo = @ \/ "omo" \in missing]
           m == Len(g.made)
           t == Len(Tail(g.todo))
<1>1. /\ g.todo \in Seq(Row) /\ r \in Row /\ Tail(g.todo) \in Seq(AnyRow) /\ 1 \in DOMAIN g.todo
      /\ r = g.todo[1]
  BY RowsOf DEF RowInv
<1>2. h \in Call /\ h.op = "apply" /\ h.pc = "next" /\ h.made = g.made /\ h.writes = g.writes
        /\ h.todo = Tail(g.todo) /\ h.reserved = g.reserved
  BY <1>1 DEF Call
<1>3. /\ q \in AnyRow /\ q.account \in Account /\ q.provider = r.provider /\ q.provider # Unassigned
      /\ q.oc = (r.oc \/ "opencode" \in missing) /\ q.omo = (r.omo \/ "omo" \in missing)
  BY <1>1 DEF Row, AnyRow
<1>4. q.omo => q.oc
  BY <1>1, <1>3 DEF Row, FilesOf
<1>5. missing \in SUBSET {"opencode", "omo"}
  BY DEF FilesOf
<1>6. NextApplied(g) = IF missing = {} THEN h ELSE Configure(h, q, missing)
  BY DEF NextApplied
<1>7. /\ m + t + 1 =< Cardinality(Account)
      /\ \A k \in DOMAIN g.writes : g.writes[k].newer < m /\ g.writes[k].newer =< m
      /\ \A k \in DOMAIN g.made : g.made[k].provider =< high + m
  BY BetweenRows
<1>8. \A k \in DOMAIN g.writes : g.writes[k].file = "opencode" => Owned(g.writes[k].before)
  BY DEF Thrifty
<1>9. m \in Nat /\ t \in Nat /\ q.provider \in Nat /\ q.provider =< high
  BY <1>1, <1>3, Parts, TailRows DEF AnyRow
<1> HIDE DEF h, q, missing, r
<1>10. q.provider =< high + m + 1 /\ m + t =< Cardinality(Account)
  <2> HIDE DEF m, t
  <2> QED
    BY <1>7, <1>9, TopNumber
<1>11. CASE missing # {}
  <2>1. Ready(h, q.provider, high)
    BY <1>2, <1>7, <1>8, <1>10 DEF Ready, Locking
  <2>2. Thrifty(Configure(h, q, missing), high)
    BY <1>2, <1>3, <1>4, <1>5, <1>7, <2>1, ConfigureThrifty
  <2>3. Configure(h, q, missing).op = "apply"
    BY <1>2 DEF Configure, Configured, Call
  <2> QED
    BY <1>6, <1>11, <2>2, <2>3 DEF Brings, Imports
<1>12. CASE missing = {}
  <2>1. ~AtRow(h) /\ ~InHand(h) /\ h.pc \notin AtFiles /\ h.pc # "name"
    BY <1>2 DEF AtRow, AtFiles, InHand
  <2>2. Rows(h) = m + t + 0 /\ m + t + 0 = m + t /\ m + 0 = m
    <3>1. Rows(h) = m + t + 0
      BY <1>2, <2>1 DEF Rows
    <3> HIDE DEF m, t
    <3> QED
      BY <1>9, <3>1
  <2>3. Counted(h)
    BY <1>2, <1>7, <1>10, <2>1, <2>2 DEF Counted, Locking
  <2>4. Numbered(h, high)
    BY <1>2, <1>7, <2>1 DEF Numbered
  <2> QED
    BY <1>2, <1>6, <1>8, <1>12, <2>3, <2>4 DEF Thrifty, Brings, Imports
<1> QED
  BY <1>11, <1>12

\* The head of the loops of import and apply.
LEMMA NextRowModest ==
    ASSUME Inv, NEW j \in Job, NEW high, Spare(j, high), NextRow(j)
    PROVE  Modest(j, high)
<1> DEFINE g == job[j]
           k == [g EXCEPT !.pc = "store"]
<1>1. g \in Call /\ RowInv(g) /\ g.pc = "next" /\ g.op \in {"import", "apply"} /\ UNCHANGED files
  BY CallOf DEF Inv, NextRow, At, PlaceInv
<1>2. high \in Nat /\ Thrifty(g, high)
  BY DEF Spare
<1>3. CASE g.todo = <<>>
  <2>1. /\ k \in Call /\ k.pc = "store" /\ k.op = g.op /\ k.made = g.made /\ k.todo = g.todo
        /\ k.writes = g.writes
    BY <1>1 DEF Call, Location
  <2>2. Become(j, k)
    BY <1>3 DEF NextRow
  <2> HIDE DEF k
  <2>3. ~AtRow(k) /\ ~AtRow(g) /\ ~InHand(g) /\ k.pc # "name" /\ k.pc \notin AtFiles
    BY <1>1, <2>1 DEF AtRow, AtFiles, InHand
  <2>4. Numbered(k, high)
    BY <1>1, <1>2, <2>1, <2>3 DEF Thrifty, Numbered
  <2>5. Thrifty(k, high) /\ Brings(g, k)
    BY <1>1, <1>2, <2>1, <2>3, <2>4, MovedThrifty DEF Locking
  <2> QED
    BY <1>1, <2>2, <2>5, BecomeModest DEF Spare
<1>4. CASE g.todo # <<>> /\ g.op = "import"
  <2>1. Become(j, NextImported(g))
    BY <1>4 DEF NextRow
  <2> QED
    BY <1>1, <1>2, <1>4, <2>1, NextImportedThrifty, BecomeModest DEF Spare
<1>5. CASE g.todo # <<>> /\ g.op = "apply"
  <2>1. Become(j, NextApplied(g))
    BY <1>5 DEF NextRow
  <2>2. \A i \in DOMAIN g.todo : g.todo[i].provider =< high
    <3>1. Updates(g, vault)
      BY <1>1, <1>5, LockingLedger DEF Spare, InBalance, Locking
    <3> QED
      BY <3>1 DEF Updates, Spare
  <2> QED
    BY <1>1, <1>2, <1>5, <2>1, <2>2, NextAppliedThrifty, BecomeModest DEF Spare
<1> QED
  BY <1>1, <1>3, <1>4, <1>5

\* No name in opencode.json is above the numbers of the vault and of the call's rows.
LEMMA NamesBounded ==
    ASSUME Inv, NEW j \in Job, NEW high, Spare(j, high), job[j].op \in Locking,
           job[j].pc # "undo", ~InHand(job[j])
    PROVE  \A n \in Names(files["opencode"]) : n =< high + Len(job[j].made)
<1> DEFINE g == job[j]
           oc == files["opencode"]
           m == Len(g.made)
<1> SUFFICES ASSUME NEW n \in Names(oc) PROVE n =< high + m
  OBVIOUS
<1>1. Gained(g, files["auth"], oc, vault) /\ g \in Call
  BY LockingLedger, CallOf DEF Spare, InBalance, Inv
<1>2. n \in Provider /\ n \in Nat /\ oc.entries[n] \in Account \cup {User} /\ m \in Nat /\ high \in Nat
  BY <1>1, Parts, NamesFinite DEF Names, Inv, WorldInv, Document, Spare
<1>3. CASE oc.entries[n] = User
  <2>1. n \in Own
    BY <1>2, <1>3 DEF Spare, Owned
  <2>2. n =< Top /\ Top =< high /\ Top \in Nat
    BY <2>1, TopNumber DEF Spare
  <2> HIDE DEF m
  <2> QED
    BY <1>2, <2>2
<1>4. CASE oc.entries[n] \in Account
  <2> DEFINE a == oc.entries[n]
  <2>1. Carries(files["auth"], oc, a, n)
    BY DEF Carries
  <2>2. Marks(vault, a, n) \/ Added(g, a, n)
    BY <1>1, <1>2, <1>4, <2>1 DEF Gained
  <2>3. CASE Marks(vault, a, n)
    <3>1. n =< high
      BY <2>3 DEF Marks, Spare
    <3> HIDE DEF m
    <3> QED
      BY <1>2, <3>1
  <2>4. CASE Added(g, a, n)
    <3>1. Marks(g.made, a, n)
      BY <2>4 DEF Added
    <3>2. \A k \in DOMAIN g.made : g.made[k].provider =< high + m
      BY DEF Spare, Thrifty, Numbered
    <3> QED
      BY <3>1, <3>2 DEF Marks
  <2> QED
    BY <2>2, <2>3, <2>4
<1> QED
  BY <1>2, <1>3, <1>4

\* next_secondary_provider_name
LEMMA NameRowModest ==
    ASSUME Inv, NEW j \in Job, NEW high, Spare(j, high), NameRow(j)
    PROVE  Modest(j, high)
<1> DEFINE g == job[j]
           N == Names(files["opencode"]) \cup g.reserved
           n == NameFor(g, Names(files["opencode"]))
           k == [g EXCEPT !.reserved = @ \cup {n}]
           r == Flagged(g, n)
           h == Configure(k, r, FilesOf(g.conf))
           m == Len(g.made)
<1>1. g \in Call /\ RowInv(g) /\ PlaceInv(g) /\ g.pc = "name" /\ g.op \in Locking /\ UNCHANGED files
  BY CallOf DEF Inv, NameRow, At, PlaceInv
<1>2. high \in Nat /\ Counted(g) /\ Numbered(g, high) /\ Primary =< high
  BY DEF Spare, Thrifty
<1>3. m \in Nat /\ g.reserved \in SUBSET Nat /\ Len(g.todo) \in Nat
        /\ \A i \in DOMAIN g.writes : g.writes[i].newer \in Nat
  BY <1>1, Parts
<1>4. AtRow(g) /\ ~InHand(g) /\ g.pc \notin AtFiles
  BY <1>1 DEF AtRow, AtFiles, InHand
<1>5. \A i \in N : i =< high + m
  <2>1. \A i \in Names(files["opencode"]) : i =< high + m
    BY <1>1, <1>4, NamesBounded
  <2>2. \A i \in g.reserved : i =< high + m + 0
    BY <1>1, <1>2, <1>4 DEF Numbered
  <2>3. \A i \in g.reserved : i =< high + m
    <3> HIDE DEF m
    <3> QED
      BY <1>2, <1>3, <2>2
  <2> QED
    BY <2>1, <2>3
<1>6. n \in Nat /\ n =< high + m + 1 /\ n # Unassigned
  <2>1. N \in SUBSET Nat /\ IsFiniteSet(N)
    BY <1>1, <1>3, NamesFinite, FS_Union DEF PlaceInv
  <2>2. n = NextNumber(N)
    BY DEF NameFor
  <2> HIDE DEF N, n, m
  <2>3. high + m \in Nat /\ Primary =< high + m
    BY <1>2, <1>3
  <2>4. NextNumber(N) \in Nat /\ NextNumber(N) =< (high + m) + 1
    BY <1>5, <2>1, <2>3, NextBounded
  <2>5. NextNumber(N) > Primary
    BY <2>1, Fresh
  <2> QED
    BY <2>2, <2>4, <2>5
<1> HIDE DEF n
<1>7. k \in Call /\ k.op = g.op /\ k.row = g.row /\ k.todo = g.todo /\ k.made = g.made
        /\ k.writes = g.writes /\ k.reserved = g.reserved \cup {n}
  BY <1>1, <1>6 DEF Call
<1> HIDE DEF k
<1>8. /\ r \in AnyRow /\ r.account = g.row.account /\ r.account \in Account /\ (r.omo => r.oc)
      /\ r.provider = n /\ FilesOf(g.conf) \in SUBSET {"opencode", "omo"}
  <2>1. r.account = g.row.account
    BY <1>1, <1>6 DEF Flagged, Call, AnyRow
  <2> QED
    BY <1>1, <1>6, <2>1, FlaggedOK DEF RowInv
<1> HIDE DEF r
<1>9. \A i \in DOMAIN g.writes : g.writes[i].newer < m /\ g.writes[i].newer =< m
  <2>1. \A i \in DOMAIN g.writes : g.writes[i].newer < m + 0
    BY <1>1, <1>2, <1>4 DEF Counted
  <2> HIDE DEF m
  <2> QED
    BY <1>3, <2>1
<1>10. Ready(k, r.provider, high)
  <2>1. Rows(g) =< Cardinality(Account) /\ Rows(g) = m + Len(g.todo) + 1
    BY <1>1, <1>2, <1>4 DEF Counted, Rows
  <2>2. \A i \in N : i =< high + m + 1
    <3>1. \A i \in N : i \in Nat
      BY <1>3, NamesFinite
    <3> HIDE DEF m, N
    <3> QED
      BY <1>2, <1>3, <1>5, <3>1
  <2>3. g.op = "complete" => g.todo = <<>>
    BY <1>1, <1>2 DEF Counted
  <2>4. \A i \in DOMAIN g.made : g.made[i].provider =< high + m
    BY <1>1, <1>2 DEF Numbered
  <2>5. \A i \in DOMAIN g.writes : g.writes[i].file = "opencode" => Owned(g.writes[i].before)
    BY DEF Spare, Thrifty
  <2> QED
    BY <1>1, <1>6, <1>7, <1>8, <1>9, <2>1, <2>2, <2>3, <2>4, <2>5 DEF Ready
<1>11. /\ Thrifty(h, high)
       /\ \A a : Imports(h, a) => a \in Accounts(k.todo) \cup Accounts(k.made) \cup {r.account}
  BY <1>2, <1>6, <1>7, <1>8, <1>9, <1>10, ConfigureThrifty
<1>12. h.op = g.op
  BY <1>7 DEF Configure, Configured, Call
<1>13. (Become(j, h) /\ UNCHANGED lock) \/ Fail(j, g)
  BY DEF NameRow, n, k, r
<1> HIDE DEF h
<1>14. Brings(g, h)
  BY <1>1, <1>4, <1>7, <1>8, <1>11, <1>12 DEF Brings, Imports
<1> QED
  BY <1>1, <1>11, <1>13, <1>14, BecomeModest, FailModest DEF Spare

\* At the files, a call goes on with its row, which may just have got its number.
LEMMA FilesThrifty ==
    ASSUME NEW g \in Call, NEW h \in Call, NEW high \in Nat, Thrifty(g, high), g.op \in Locking,
           g.pc \in AtFiles, h.pc \in AtFiles, Like(g, h, {"row"}), h.row.account = g.row.account,
           h.row.provider =< high + Len(g.made) + 1, InHand(g) => InHand(h)
    PROVE  Thrifty(h, high) /\ Brings(g, h)
<1>1. h.op = g.op /\ h.reserved = g.reserved /\ h.todo = g.todo /\ h.writes = g.writes
        /\ h.made = g.made
  BY DEF Like
<1>2. AtRow(g) /\ AtRow(h) /\ g.pc # "undo" /\ h.pc # "undo" /\ g.pc # "name" /\ h.pc # "name"
  BY DEF AtRow, AtFiles
<1>3. Numbered(h, high)
  BY <1>1, <1>2 DEF Thrifty, Numbered
<1> QED
  BY <1>1, <1>2, <1>3, MovedThrifty

\* A repair wastes nothing.
LEMMA RepairThrifty ==
    ASSUME NEW g, NEW h, h.op = "repair", h.writes = <<>>, NEW high
    PROVE  Thrifty(h, high) /\ Brings(g, h)
<1>1. h.op \notin Locking /\ h.op # "remove" /\ h.op # "import"
  BY DEF Locking
<1> QED
  BY <1>1 DEF Thrifty, Counted, Numbered, Brings, Imports

\* add_primary_account, before the write
LEMMA LoadAuthModest ==
    ASSUME Inv, NEW j \in Job, NEW high, Spare(j, high), LoadAuth(j)
    PROVE  Modest(j, high)
<1> DEFINE g == job[j]
           h == [g EXCEPT !.loaded = files["auth"], !.pc = "auth_write"]
<1>1. g \in Call /\ g.pc = "auth_load" /\ g.op \in Locking /\ UNCHANGED files
  BY CallOf DEF Inv, LoadAuth, At, PlaceInv
<1>2. CASE Fail(j, g)
  BY <1>1, <1>2, FailModest
<1>3. CASE Become(j, h)
  <2>1. files["auth"] \in Document
    BY DEF Inv, WorldInv
  <2>2. h \in Call /\ h.pc = "auth_write" /\ Like(g, h, {})
    BY <1>1, <2>1 DEF Call, Like, Location, Writing
  <2> HIDE DEF h
  <2>3. Like(g, h, {"row"}) /\ h.row = g.row
    BY <2>2 DEF Like
  <2>4. g.row.provider =< high + Len(g.made) + 1
    BY <1>1, AtFilesReady DEF Ready, AtFiles, Spare
  <2>5. Thrifty(h, high) /\ Brings(g, h)
    BY <1>1, <2>2, <2>3, <2>4, FilesThrifty DEF AtFiles, InHand, Spare
  <2> QED
    BY <1>1, <1>3, <2>5, BecomeModest DEF Spare
<1> QED
  BY <1>2, <1>3 DEF LoadAuth

\* fetch_models
LEMMA FetchModelsModest ==
    ASSUME Inv, NEW j \in Job, NEW high, Spare(j, high), FetchModels(j)
    PROVE  Modest(j, high)
<1> DEFINE g == job[j]
           l == IF g.op = "repair" THEN "names"
                ELSE IF "opencode" \in g.adds THEN "oc_load" ELSE "omo_load"
           h == [g EXCEPT !.pc = l]
<1>1. g \in Call /\ g.pc = "models" /\ g.op \in Locking \cup {"repair"} /\ UNCHANGED files
  BY CallOf DEF Inv, FetchModels, At, PlaceInv
<1>2. h \in Call /\ h.pc = l /\ Like(g, h, {})
  BY <1>1 DEF Call, Like, Location, Loading
<1>3. Become(j, h)
  BY DEF FetchModels
<1> HIDE DEF h
<1>4. h.row = g.row /\ Like(g, h, {"row"}) /\ h.op = g.op /\ h.writes = g.writes
  BY <1>2 DEF Like
<1>5. CASE g.op = "repair"
  <2>1. h.writes = <<>>
    BY <1>4, <1>5 DEF Spare, Thrifty, Counted
  <2> QED
    BY <1>1, <1>3, <1>4, <1>5, <2>1, RepairThrifty, BecomeModest DEF Spare
<1>6. CASE g.op \in Locking
  <2>1. h.pc \in AtFiles
    BY <1>2, <1>6 DEF AtFiles, Locking
  <2>2. g.row.provider =< high + Len(g.made) + 1
    BY <1>1, <1>6, AtFilesReady DEF Ready, AtFiles, Spare
  <2>3. Thrifty(h, high) /\ Brings(g, h)
    BY <1>1, <1>2, <1>4, <1>6, <2>1, <2>2, FilesThrifty DEF AtFiles, InHand, Spare
  <2> QED
    BY <1>1, <1>3, <2>3, BecomeModest DEF Spare
<1> QED
  BY <1>1, <1>5, <1>6

\* add_secondary_account, before the write: the number is one above all at most.
LEMMA LoadOpencodeModest ==
    ASSUME Inv, NEW j \in Job, NEW high, Spare(j, high), LoadOpencode(j)
    PROVE  Modest(j, high)
<1> DEFINE g == job[j]
           n == NextNumber(Names(files["opencode"]))
           m == Len(g.made)
           h == [Allocated(g, n) EXCEPT !.loaded = files["opencode"], !.pc = "oc_write"]
<1>1. g \in Call /\ g.pc = "oc_load" /\ g.op \in Locking /\ UNCHANGED files
  BY CallOf DEF Inv, LoadOpencode, At, PlaceInv
<1>2. CASE Fail(j, g)
  BY <1>1, <1>2, FailModest
<1>3. CASE Become(j, h)
  <2>1. files["opencode"] \in Document
    BY DEF Inv, WorldInv
  <2>2. n \in Nat /\ n =< high + m + 1
    <3>1. \A i \in Names(files["opencode"]) : i =< high + m
      BY <1>1, NamesBounded DEF InHand
    <3>2. m \in Nat /\ high \in Nat /\ Primary =< high
      BY <1>1, Parts DEF Spare
    <3> HIDE DEF m
    <3>3. high + m \in Nat /\ Primary =< high + m
      BY <3>2
    <3> QED
      BY <3>1, <3>3, NamesFinite, NextBounded
  <2> HIDE DEF n
  <2>3. h \in Call /\ h.pc = "oc_write" /\ Like(g, h, {"row"}) /\ h.row.account = g.row.account
          /\ h.row.provider = n
    BY <1>1, <2>1, <2>2 DEF Call, Like, Location, Writing, Allocated, AnyRow
  <2> HIDE DEF h
  <2>4. Thrifty(h, high) /\ Brings(g, h)
    BY <1>1, <2>2, <2>3, FilesThrifty DEF AtFiles, InHand, Spare
  <2> QED
    BY <1>1, <1>3, <2>4, BecomeModest DEF Spare
<1> QED
  BY <1>2, <1>3 DEF LoadOpencode

\* configured_provider_names
LEMMA ReadNamesModest ==
    ASSUME Inv, NEW j \in Job, NEW high, Spare(j, high), ReadNames(j)
    PROVE  Modest(j, high)
<1> DEFINE g == job[j]
           names == Names(files["auth"]) \cup {n \in Names(files["opencode"]) : Legible(n)}
           h == [g EXCEPT !.reserved = names, !.pc = "omo_load"]
<1>1. g \in Call /\ g.pc = "names" /\ g.op = "repair" /\ UNCHANGED files
  BY CallOf DEF Inv, ReadNames, At, PlaceInv
<1>2. CASE Finish(j)
  BY <1>1, <1>2, FinishModest DEF Spare
<1>3. CASE Become(j, h)
  <2>1. h.op = "repair" /\ h.writes = <<>>
    BY <1>1 DEF Call, Spare, Thrifty, Counted
  <2> HIDE DEF h
  <2> QED
    BY <1>1, <1>3, <2>1, RepairThrifty, BecomeModest DEF Spare
<1> QED
  BY <1>2, <1>3 DEF ReadNames

\* What the writer of oh-my-openagent.json returns without a write counts, too.
LEMMA UnchangedThrifty ==
    ASSUME NEW g \in Call, NEW high \in Nat, Thrifty(g, high), g.op \in Locking,
           g.pc = "omo_load", g.row \in Row
    PROVE  Thrifty(OmoUnchanged(g), high) /\ Brings(g, OmoUnchanged(g))
<1> DEFINE w == [file |-> "omo", before |-> NoFile, newer |-> 0]
           m == [g EXCEPT !.writes = Append(@, w)]
<1>1. w \in Result /\ g.writes \in Seq(Result)
  <2>1. NoFile \in Document
    BY DEF NoFile, Document
  <2> QED
    BY <2>1, PoolAssumption DEF Result, Call
<1>2. w.file = "omo" /\ w.newer = 0
  OBVIOUS
<1> HIDE DEF w
<1>3. m \in Call /\ m.writes = Append(g.writes, w) /\ Like(g, m, {"writes"})
  <2>1. Append(g.writes, w) \in Seq(Result)
    BY <1>1
  <2> QED
    BY <2>1 DEF Call, Like
<1> HIDE DEF m
<1>4. m.op = g.op /\ m.row = g.row /\ m.reserved = g.reserved /\ m.todo = g.todo /\ m.made = g.made
  BY <1>3 DEF Like
<1>5. Ready(g, g.row.provider, high) /\ Len(g.made) \in Nat
  BY AtFilesReady, Parts DEF AtFiles
<1>6. \A k \in DOMAIN m.writes : /\ m.writes[k].newer =< Len(g.made)
                                 /\ m.writes[k].file = "opencode" => Owned(m.writes[k].before)
  <2> TAKE k \in DOMAIN m.writes
  <2>1. (k \in DOMAIN g.writes /\ m.writes[k] = g.writes[k]) \/ m.writes[k] = w
    BY <1>1, <1>3
  <2>2. 0 =< Len(g.made)
    BY <1>5
  <2> QED
    BY <1>2, <1>5, <2>1, <2>2 DEF Ready
<1>7. Ready(m, m.row.provider, high)
  BY <1>4, <1>5, <1>6 DEF Ready
<1>8. /\ Thrifty(Configured(m), high)
      /\ \A a : Imports(Configured(m), a) => a \in Accounts(g.todo) \cup Accounts(g.made) \cup {g.row.account}
  BY <1>3, <1>4, <1>7, ConfiguredThrifty
<1>9. Configured(m).op = g.op
  BY <1>3, <1>4 DEF Configured, Call
<1>10. OmoUnchanged(g) = Configured(m)
  BY DEF OmoUnchanged, m, w
<1>11. Brings(g, Configured(m))
  BY <1>8, <1>9 DEF Brings, Imports, AtRow, AtFiles
<1> QED
  BY <1>8, <1>10, <1>11

\* oh-my-openagent.json, before the write
LEMMA LoadOmoModest ==
    ASSUME Inv, NEW j \in Job, NEW high, Spare(j, high), LoadOmo(j)
    PROVE  Modest(j, high)
<1> DEFINE g == job[j]
           h == [g EXCEPT !.loaded = files["omo"], !.pc = "omo_write"]
<1>1. g \in Call /\ RowInv(g) /\ g.pc = "omo_load" /\ g.op \in Locking \cup {"repair"}
        /\ UNCHANGED files
  BY CallOf DEF Inv, LoadOmo, At, PlaceInv
<1>2. CASE Fail(j, g)
  BY <1>1, <1>2, FailModest
<1>3. CASE Finish(j)
  BY <1>1, <1>3, FinishModest DEF Spare
<1>4. CASE Become(j, h)
  <2>1. files["omo"] \in Document
    BY DEF Inv, WorldInv
  <2>2. h \in Call /\ h.pc = "omo_write" /\ Like(g, h, {})
    BY <1>1, <2>1 DEF Call, Like, Location, Writing
  <2> HIDE DEF h
  <2>3. h.row = g.row /\ Like(g, h, {"row"}) /\ h.op = g.op /\ h.writes = g.writes
    BY <2>2 DEF Like
  <2>4. CASE g.op = "repair"
    <3>1. h.writes = <<>>
      BY <2>3, <2>4 DEF Spare, Thrifty, Counted
    <3> QED
      BY <1>1, <1>4, <2>3, <2>4, <3>1, RepairThrifty, BecomeModest DEF Spare
  <2>5. CASE g.op \in Locking
    <3>1. g.row.provider =< high + Len(g.made) + 1
      BY <1>1, <2>5, AtFilesReady DEF Ready, AtFiles, Spare
    <3>2. Thrifty(h, high) /\ Brings(g, h)
      BY <1>1, <2>2, <2>3, <2>5, <3>1, FilesThrifty DEF AtFiles, InHand, Spare
    <3> QED
      BY <1>1, <1>4, <3>2, BecomeModest DEF Spare
  <2> QED
    BY <1>1, <2>4, <2>5
<1>5. CASE g.op # "repair" /\ Become(j, OmoUnchanged(g))
  <2>1. g.op \in Locking /\ g.row \in Row
    BY <1>1, <1>5 DEF RowInv
  <2> QED
    BY <1>1, <1>5, <2>1, UnchangedThrifty, BecomeModest DEF Spare
<1> QED
  BY <1>2, <1>3, <1>4, <1>5 DEF LoadOmo

\* A step that fails has changed nothing.
LEMMA StepFailsModest ==
    ASSUME Inv, NEW j \in Job, NEW high, Spare(j, high), StepFails(j)
    PROVE  Modest(j, high)
  BY FailModest DEF StepFails

\* What a call remembers of its writes after another one.
LEMMA WroteWrites ==
    ASSUME Inv, NEW j \in Job, NEW f \in File
    PROVE  \A i \in DOMAIN Wrote(j, f).writes :
              LET w == Wrote(j, f).writes[i]
              IN  \/ w = ResultOf(f)
                  \/ /\ i \in DOMAIN job[j].writes
                     /\ w.file = job[j].writes[i].file /\ w.before = job[j].writes[i].before
                     /\ w.newer \in Nat /\ w.newer =< job[j].writes[i].newer + 1
                     /\ w.file # f => w.newer = job[j].writes[i].newer
<1> DEFINE ws == job[j].writes
           vs == Aged(f, j)
<1>1. Wrote(j, f).writes = Append(vs, ResultOf(f))
  <2> DEFINE k == [job[j] EXCEPT !.writes = Aged(f, j)]
  <2>1. k \in Call /\ k.writes = Aged(f, j)
    BY AgedOK, CallOf DEF Inv, CallInv, Call
  <2>2. Wrote(j, f) = [k EXCEPT !.writes = Append(@, ResultOf(f))]
    BY DEF Wrote
  <2> HIDE DEF k
  <2> QED
    BY <2>1, <2>2 DEF Call
<1>2. ws \in Seq(Result) /\ vs \in Seq(Result)
  BY AgedOK, CallOf DEF Inv, Call
<1>3. DOMAIN vs = DOMAIN ws
  BY <1>2 DEF Aged
<1>4. \A i \in DOMAIN ws :
         /\ vs[i].file = ws[i].file /\ vs[i].before = ws[i].before
         /\ vs[i].newer \in Nat /\ vs[i].newer =< ws[i].newer + 1
         /\ vs[i].file # f => vs[i].newer = ws[i].newer
  <2> TAKE i \in DOMAIN ws
  <2> DEFINE w == ws[i]
  <2>1. vs[i] = IF w.file = f /\ files[f].exists /\ w.newer < Retention
                  THEN [w EXCEPT !.newer = @ + 1] ELSE w
    BY DEF Aged
  <2>2. w \in Result /\ w.newer \in Nat
    BY <1>2, CallOf, Parts DEF Inv
  <2> HIDE DEF w, vs
  <2>3. /\ vs[i].file = w.file /\ vs[i].before = w.before
        /\ vs[i].newer \in {w.newer, w.newer + 1}
        /\ vs[i].file # f => vs[i].newer = w.newer
    BY <2>1, <2>2 DEF Result
  <2>4. vs[i].newer \in Nat /\ vs[i].newer =< w.newer + 1
    BY <2>2, <2>3
  <2> QED
    BY <2>3, <2>4 DEF w
<1> HIDE DEF vs, ws
<1>5. \A i \in DOMAIN Append(vs, ResultOf(f)) :
         \/ Append(vs, ResultOf(f))[i] = ResultOf(f)
         \/ i \in DOMAIN vs /\ Append(vs, ResultOf(f))[i] = vs[i]
  BY <1>2
<1> QED
  BY <1>1, <1>3, <1>4, <1>5 DEF ws

\* A write of a file that has not been written for the row leaves the row ready.
LEMMA WroteReady ==
    ASSUME Inv, NEW j \in Job, NEW high, Spare(j, high), job[j].op \in Locking,
           job[j].pc \in AtFiles, NEW f \in File, InHand(job[j]) => f # "opencode"
    PROVE  /\ Ready(Wrote(j, f), Wrote(j, f).row.provider, high)
           /\ f = "opencode" => \A i \in DOMAIN Wrote(j, f).writes :
                 Wrote(j, f).writes[i].file # f => Wrote(j, f).writes[i].newer < Len(job[j].made)
<1> DEFINE g == job[j]
           k == Wrote(j, f)
           m == Len(g.made)
<1>1. g \in Call /\ m \in Nat /\ \A i \in DOMAIN g.writes : g.writes[i].newer \in Nat
  BY CallOf, Parts DEF Inv
<1>2. Ready(g, g.row.provider, high) /\ Counted(g)
  BY <1>1, AtFilesReady DEF Spare, Thrifty
<1>3. k.op = g.op /\ k.row = g.row /\ k.todo = g.todo /\ k.made = g.made /\ k.reserved = g.reserved
  BY WroteOK DEF Like
<1>4. \A i \in DOMAIN k.writes :
              LET w == k.writes[i]
              IN  \/ w = ResultOf(f)
                  \/ /\ i \in DOMAIN g.writes
                     /\ w.file = g.writes[i].file /\ w.before = g.writes[i].before
                     /\ w.newer \in Nat /\ w.newer =< g.writes[i].newer + 1
                     /\ w.file # f => w.newer = g.writes[i].newer
  BY WroteWrites
<1>5. ResultOf(f).file = f /\ ResultOf(f).newer = 0 /\ ResultOf(f).before = files[f]
  BY DEF ResultOf
<1>6. Owned(files["opencode"])
  BY DEF Spare
<1>7. ASSUME NEW i \in DOMAIN g.writes
      PROVE  /\ g.writes[i].newer =< m
             /\ ~InHand(g) \/ g.writes[i].file # "opencode" => g.writes[i].newer < m
             /\ g.writes[i].file = "opencode" => Owned(g.writes[i].before)
  <2>1. g.writes[i].newer < m + (IF InHand(g) /\ g.writes[i].file = "opencode" THEN 1 ELSE 0)
    BY <1>2 DEF Counted, AtFiles
  <2>2. ~(InHand(g) /\ g.writes[i].file = "opencode") => g.writes[i].newer < m + 0
    BY <2>1
  <2>3. g.writes[i].newer =< m /\ (g.writes[i].file = "opencode" => Owned(g.writes[i].before))
    BY <1>2 DEF Ready
  <2> HIDE DEF m
  <2> QED
    BY <1>1, <2>2, <2>3
<1> HIDE DEF k, m
<1>8. ASSUME NEW i \in DOMAIN k.writes
      PROVE  /\ k.writes[i].newer =< m
             /\ f = "opencode" /\ k.writes[i].file # f => k.writes[i].newer < m
             /\ k.writes[i].file = "opencode" => Owned(k.writes[i].before)
  <2>1. CASE k.writes[i] = ResultOf(f)
    BY <1>1, <1>5, <1>6, <2>1
  <2>2. CASE i \in DOMAIN g.writes /\ k.writes[i] # ResultOf(f)
    <3> DEFINE w == k.writes[i]
               v == g.writes[i]
    <3>1. /\ w.file = v.file /\ w.before = v.before /\ w.newer \in Nat /\ v.newer \in Nat
          /\ w.newer =< v.newer + 1 /\ (w.file # f => w.newer = v.newer)
      BY <1>1, <1>4, <2>2
    <3>2. /\ v.newer =< m /\ (~InHand(g) \/ v.file # "opencode" => v.newer < m)
          /\ v.file = "opencode" => Owned(v.before)
      BY <1>7, <2>2
    <3> HIDE DEF w, v
    <3>3. CASE w.file = f
      <4>1. v.newer < m
        BY <3>1, <3>2, <3>3
      <4>2. w.newer =< m
        BY <1>1, <3>1, <4>1
      <4> QED
        BY <3>1, <3>2, <3>3, <4>2 DEF w
    <3>4. CASE w.file # f
      BY <3>1, <3>2, <3>4 DEF w
    <3> QED
      BY <3>3, <3>4
  <2> QED
    BY <1>4, <2>1, <2>2
<1>9. Ready(k, k.row.provider, high)
  BY <1>2, <1>3, <1>8 DEF Ready, m
<1> QED
  BY <1>8, <1>9 DEF k, m

\* A call that puts a file in place and has its row configured wastes nothing.
LEMMA WroteModest ==
    ASSUME Inv, NEW j \in Job, NEW high, Spare(j, high), job[j].op \in Locking,
           job[j].pc \in AtFiles, job[j].row \in Row, NEW f \in File,
           InHand(job[j]) => f # "opencode"
    PROVE  Thrifty(Configured(Wrote(j, f)), high) /\ Brings(job[j], Configured(Wrote(j, f)))
<1> DEFINE g == job[j]
           k == Wrote(j, f)
<1>1. k \in Call /\ k.op = g.op /\ k.row = g.row /\ k.todo = g.todo /\ k.made = g.made
  BY WroteOK DEF Like
<1>2. Ready(k, k.row.provider, high)
  BY WroteReady
<1> HIDE DEF k
<1>3. /\ Thrifty(Configured(k), high)
      /\ \A a : Imports(Configured(k), a) => a \in Accounts(k.todo) \cup Accounts(k.made) \cup {k.row.account}
  BY <1>1, <1>2, ConfiguredThrifty DEF Spare
<1>4. Configured(k).op = g.op
  BY <1>1 DEF Configured, Call
<1>5. Brings(g, Configured(k))
  BY <1>1, <1>3, <1>4 DEF Brings, Imports, AtRow, AtFiles
<1> QED
  BY <1>3, <1>5 DEF k

\* add_primary_account
LEMMA WriteAuthModest ==
    ASSUME Inv, NEW j \in Job, NEW high, Spare(j, high), WriteAuth(j)
    PROVE  Modest(j, high)
<1> DEFINE h == Configured(Wrote(j, "auth"))
<1>1. job[j].pc = "auth_write" /\ job[j].op \in Locking /\ job[j].row \in Row
  BY CallOf DEF Inv, WriteAuth, At, PlaceInv, RowInv
<1>2. Thrifty(h, high) /\ Brings(job[j], h)
  BY <1>1, WroteModest DEF AtFiles
<1>3. Put(j, "auth", With(job[j].loaded, Primary, job[j].row.account), h)
  BY AuthPut
<1> HIDE DEF h
<1>4. job'[j] = h /\ files'["opencode"] = files["opencode"]
  BY <1>3 DEF Put, Inv, WorldInv
<1> QED
  BY <1>2, <1>4 DEF Modest, Spare

\* An account's key is not the user's.
LEMMA OwnedWith ==
    ASSUME NEW doc \in Document, NEW n \in Nat, NEW who \in Account \cup {Nothing}, Owned(doc)
    PROVE  Owned(With(doc, n, who)) /\ Owned(Without(doc, n))
<1>1. who # User
  BY PoolAssumption
<1>2. doc.entries \in [Provider -> Account \cup {User, Nothing}]
  BY DEF Document
<1>3. /\ With(doc, n, who).entries = [doc.entries EXCEPT ![n] = who]
      /\ Without(doc, n).entries = [doc.entries EXCEPT ![n] = Nothing]
  BY DEF With, Without, Document
<1> QED
  BY <1>1, <1>2, <1>3 DEF Owned

\* add_secondary_account
LEMMA WriteOpencodeModest ==
    ASSUME Inv, NEW j \in Job, NEW high, Spare(j, high), WriteOpencode(j)
    PROVE  Modest(j, high)
<1> DEFINE g == job[j]
           k == Wrote(j, "opencode")
           n == [k EXCEPT !.loaded = NoFile, !.pc = "omo_load"]
           h == IF "omo" \in k.adds THEN n ELSE Configured(k)
           doc == With(g.loaded, g.row.provider, g.row.account)
<1>1. g.pc = "oc_write" /\ g.op \in Locking /\ g.row \in Row /\ g \in Call
  BY CallOf DEF Inv, WriteOpencode, At, PlaceInv, RowInv
<1>2. Thrifty(Configured(k), high) /\ Brings(g, Configured(k))
  BY <1>1, WroteModest DEF AtFiles, InHand
<1>3. k \in Call /\ k.op = g.op /\ k.row = g.row /\ k.todo = g.todo /\ k.made = g.made
        /\ k.reserved = g.reserved
  BY WroteOK DEF Like
<1>4. /\ Ready(k, k.row.provider, high)
      /\ \A i \in DOMAIN k.writes : k.writes[i].file # "opencode" => k.writes[i].newer < Len(g.made)
  BY <1>1, WroteReady DEF AtFiles, InHand
<1>5. Put(j, "opencode", doc, h)
  BY OpencodePut
<1>6. Owned(doc)
  <2>1. g.loaded = files["opencode"] /\ files["opencode"] \in Document
    BY <1>1, LockingLedger DEF Spare, InBalance, Handy, Inv, WorldInv
  <2> QED
    BY <1>1, <2>1, OwnedWith DEF Spare, Row
<1> HIDE DEF k, doc
<1>7. /\ n.pc = "omo_load" /\ n.op = g.op /\ n.row = g.row /\ n.todo = g.todo /\ n.made = g.made
      /\ n.reserved = g.reserved /\ n.writes = k.writes
  BY <1>3 DEF Call
<1> HIDE DEF n
<1>8. InHand(n) /\ AtRow(n) /\ n.pc \in AtFiles
  BY <1>7 DEF InHand, AtRow, AtFiles
<1>9. Thrifty(n, high)
  <2> DEFINE m == Len(g.made)
             t == Len(g.todo)
  <2>1. m \in Nat /\ t \in Nat /\ \A i \in DOMAIN k.writes : k.writes[i].newer \in Nat
    BY <1>1, <1>3, Parts
  <2>2. Rows(n) = m + t + 1
    BY <1>7, <1>8 DEF Rows
  <2>3. m + t + 1 =< Cardinality(Account)
    BY <1>3, <1>4 DEF Ready
  <2>4. ASSUME NEW i \in DOMAIN n.writes
        PROVE  n.writes[i].newer < Len(n.made) +
                  (IF InHand(n) /\ n.writes[i].file = "opencode" THEN 1 ELSE 0)
    <3>1. n.writes[i].newer =< m
      BY <1>3, <1>4, <1>7 DEF Ready
    <3>2. n.writes[i].newer \in Nat /\ Len(n.made) = m
      BY <1>7, <2>1
    <3>3. n.writes[i].file # "opencode" => n.writes[i].newer < m
      BY <1>4, <1>7
    <3> HIDE DEF m
    <3>4. n.writes[i].newer < m + 1
      BY <2>1, <3>1, <3>2
    <3>5. n.writes[i].file # "opencode" => n.writes[i].newer < m + 0
      BY <2>1, <3>2, <3>3
    <3> QED
      BY <1>8, <3>2, <3>4, <3>5
  <2>5. Counted(n)
    BY <1>1, <1>3, <1>4, <1>7, <2>2, <2>3, <2>4 DEF Counted, Ready, Locking
  <2>6. Numbered(n, high)
    BY <1>1, <1>3, <1>4, <1>7, <1>8 DEF Numbered, Ready
  <2>7. \A i \in DOMAIN n.writes : n.writes[i].file = "opencode" => Owned(n.writes[i].before)
    BY <1>4, <1>7 DEF Ready
  <2> QED
    BY <2>5, <2>6, <2>7 DEF Thrifty
<1>10. Brings(g, n)
  BY <1>1, <1>7, <1>8 DEF Brings, Imports, AtRow, AtFiles
<1>11. Thrifty(h, high) /\ Brings(g, h)
  BY <1>2, <1>9, <1>10
<1> HIDE DEF h
<1>12. job'[j] = h /\ files'["opencode"] = doc
  BY <1>5 DEF Put, Inv, WorldInv
<1> QED
  BY <1>6, <1>11, <1>12 DEF Modest

\* append_account_fallback and repair_account_fallbacks
LEMMA WriteOmoModest ==
    ASSUME Inv, NEW j \in Job, NEW high, Spare(j, high), WriteOmo(j)
    PROVE  Modest(j, high)
<1> DEFINE g == job[j]
           k == Wrote(j, "omo")
           h == IF k.op = "repair" THEN Idle ELSE Configured(k)
<1>1. g.pc = "omo_write" /\ g.op \in Locking \cup {"repair"} /\ (g.op # "repair" => g.row \in Row)
  BY CallOf DEF Inv, WriteOmo, At, PlaceInv, RowInv
<1>2. k.op = g.op
  BY WroteOK DEF Like
<1>3. g.op # "repair" => Thrifty(Configured(k), high) /\ Brings(g, Configured(k))
  BY <1>1, WroteModest DEF AtFiles
<1>4. Thrifty(Idle, high) /\ Brings(g, Idle)
  BY IdleThrifty DEF Brings
<1>5. Put(j, "omo", OmoTarget(g, g.loaded), h)
  BY OmoPut
<1>6. Thrifty(h, high) /\ Brings(g, h)
  BY <1>2, <1>3, <1>4
<1> HIDE DEF h
<1>7. job'[j] = h /\ files'["opencode"] = files["opencode"]
  BY <1>5 DEF Put, Inv, WorldInv
<1> QED
  BY <1>6, <1>7 DEF Modest, Spare

(***************************************************************************)
(* Undoing and removing waste nothing                                      *)
(***************************************************************************)
\* A rollback leaves less to be undone.
LEMMA UndoModest ==
    ASSUME Inv, NEW j \in Job, NEW high, Spare(j, high), Undo(j)
    PROVE  Modest(j, high)
<1> DEFINE g == job[j]
           w == Last(g.writes)
           pruned == w.before.exists /\ w.newer = Retention
           left == IF pruned /\ g.op = "remove" THEN <<>> ELSE Front(g.writes)
           h == [g EXCEPT !.writes = left]
<1>1. g \in Call /\ g.pc = "undo" /\ g.writes \in Seq(Result) /\ g.writes # <<>> /\ g.op \in Op
  BY CallOf DEF Inv, Undo, At, PlaceInv, Call
<1>2. Counted(g) /\ \A k \in DOMAIN g.writes : g.writes[k].file = "opencode" => Owned(g.writes[k].before)
  BY DEF Spare, Thrifty
<1>3. \A k \in DOMAIN left : k \in DOMAIN g.writes /\ left[k] = g.writes[k]
  <2>1. \A k \in DOMAIN Front(g.writes) : k \in DOMAIN g.writes /\ Front(g.writes)[k] = g.writes[k]
    BY <1>1 DEF Front
  <2>2. left \in {<<>>, Front(g.writes)}
    OBVIOUS
  <2> HIDE DEF left
  <2> QED
    BY <2>1, <2>2
<1>4. Len(g.writes) \in DOMAIN g.writes /\ w = g.writes[Len(g.writes)]
  BY <1>1 DEF Last
<1>5. Owned(files'["opencode"])
  <2>1. files' = IF pruned THEN files ELSE [files EXCEPT ![w.file] = w.before]
    BY DEF Undo
  <2>2. w.file = "opencode" => Owned(w.before)
    BY <1>2, <1>4
  <2> HIDE DEF w, pruned
  <2> QED
    BY <2>1, <2>2 DEF Spare, Inv, WorldInv
<1>6. CASE Finish(j)
  <2>1. job'[j] = Idle
    BY <1>6, CallOf DEF Inv, Finish, Become
  <2> QED
    BY <1>5, <2>1, IdleThrifty DEF Modest, Brings
<1>7. CASE Become(j, h)
  <2>1. job'[j] = h
    BY <1>7, CallOf DEF Inv, Become
  <2>2. h.pc = "undo" /\ h.op = g.op /\ h.writes = left
    BY <1>1 DEF Call
  <2> HIDE DEF h, left, w
  <2>3. Counted(h)
    BY <1>1, <1>2, <1>3, <2>2 DEF Counted
  <2>4. Thrifty(h, high)
    BY <1>2, <1>3, <2>2, <2>3 DEF Thrifty, Numbered
  <2>5. Brings(g, h)
    BY <2>2 DEF Brings, Imports
  <2> QED
    BY <1>5, <2>1, <2>4, <2>5 DEF Modest
<1> QED
  BY <1>6, <1>7 DEF Undo

\* A removal that writes each file once wastes nothing.
LEMMA RemovalThrifty ==
    ASSUME NEW g, NEW h, h.op = "remove", NEW high,
           \A k \in DOMAIN h.writes : /\ h.writes[k].newer = 0 /\ ~Pends(h, h.writes[k].file)
                                      /\ h.writes[k].file = "opencode" => Owned(h.writes[k].before)
    PROVE  Thrifty(h, high) /\ Brings(g, h)
<1>1. h.op \notin Locking /\ h.op # "import" /\ h.op # "repair"
  BY DEF Locking
<1> QED
  BY <1>1 DEF Thrifty, Counted, Numbered, Brings, Imports

\* What a removal has written, and has yet to write.
LEMMA RemovalHas ==
    ASSUME NEW g, NEW high, Thrifty(g, high), g.op = "remove", g.pc # "undo"
    PROVE  \A k \in DOMAIN g.writes : /\ g.writes[k].newer = 0 /\ ~Pends(g, g.writes[k].file)
                                      /\ g.writes[k].file = "opencode" => Owned(g.writes[k].before)
  BY DEF Thrifty, Counted

\* The edits of a removal
LEMMA PlanRemovalModest ==
    ASSUME Inv, NEW j \in Job, NEW high, Spare(j, high), PlanRemoval(j)
    PROVE  Modest(j, high)
<1> DEFINE g == job[j]
           c == Promoting(vault, g.row)
           plan == IF g.row.provider = Primary THEN PlanPrimary(g.row, c)
                                               ELSE PlanSecondary(g.row)
           l == IF plan = <<>> THEN "delete" ELSE "edit_load"
           h == [g EXCEPT !.plan = plan, !.promoted = c.account, !.pc = l]
<1>1. g \in Call /\ g.pc = "remaining" /\ g.op = "remove" /\ Become(j, h) /\ UNCHANGED files
  BY CallOf DEF Inv, PlanRemoval, At, PlaceInv, Promoting
<1>2. h.op = "remove" /\ h.writes = g.writes
  BY <1>1 DEF Call
<1> HIDE DEF h
<1>3. g.writes = <<>>
  BY <1>1 DEF Spare, InBalance, Ledger, Forward, Shrunk
<1>4. Thrifty(h, high) /\ Brings(g, h)
  BY <1>2, <1>3, RemovalThrifty
<1> QED
  BY <1>1, <1>4, BecomeModest DEF Spare

\* The rest of a plan has an edit less.
LEMMA NextEditPends ==
    ASSUME NEW g \in Call, g.plan # <<>>
    PROVE  /\ NextEdit(g).op = g.op /\ NextEdit(g).writes = g.writes /\ Head(g.plan) \in Edit
           /\ \A f : Pends(NextEdit(g), f) => Pends(g, f)
           /\ Pends(g, Head(g.plan).file)
           /\ Distinct(g.plan) => ~Pends(NextEdit(g), Head(g.plan).file)
<1> DEFINE h == NextEdit(g)
<1>1. g.plan \in Seq(Edit) /\ h.op = g.op /\ h.writes = g.writes /\ h.plan = Tail(g.plan)
  BY DEF NextEdit, Call
<1> HIDE DEF h
<1>2. /\ Len(g.plan) \in Nat /\ 1 \in DOMAIN g.plan /\ Head(g.plan) = g.plan[1]
      /\ \A i \in DOMAIN h.plan : i + 1 \in DOMAIN g.plan /\ i + 1 # 1 /\ h.plan[i] = g.plan[i + 1]
  BY <1>1
<1>3. Head(g.plan) \in Edit
  BY <1>1, <1>2
<1>4. \A f : Pends(h, f) => Pends(g, f)
  BY <1>2 DEF Pends
<1>5. Pends(g, Head(g.plan).file)
  BY <1>2 DEF Pends
<1>6. Distinct(g.plan) => ~Pends(h, Head(g.plan).file)
  BY <1>2 DEF Pends, Distinct
<1> QED
  BY <1>1, <1>3, <1>4, <1>5, <1>6 DEF h

\* A file to be edited, before the write
LEMMA LoadEditModest ==
    ASSUME Inv, NEW j \in Job, NEW high, Spare(j, high), LoadEdit(j)
    PROVE  Modest(j, high)
<1> DEFINE g == job[j]
           h == [g EXCEPT !.loaded = files[Head(g.plan).file], !.pc = "edit_write"]
<1>1. g \in Call /\ g.pc = "edit_load" /\ g.op = "remove" /\ g.plan # <<>> /\ UNCHANGED files
  BY CallOf DEF Inv, LoadEdit, At, PlaceInv
<1>2. \A k \in DOMAIN g.writes : /\ g.writes[k].newer = 0 /\ ~Pends(g, g.writes[k].file)
                                 /\ g.writes[k].file = "opencode" => Owned(g.writes[k].before)
  BY <1>1, RemovalHas DEF Spare
<1>3. CASE Fail(j, g)
  BY <1>1, <1>3, FailModest
<1>4. CASE Become(j, NextEdit(g))
  <2> DEFINE n == NextEdit(g)
  <2>1. n.op = "remove" /\ n.writes = g.writes /\ \A f : Pends(n, f) => Pends(g, f)
    BY <1>1, NextEditPends
  <2>2. Become(j, n)
    BY <1>4
  <2> HIDE DEF n
  <2>3. \A k \in DOMAIN n.writes : /\ n.writes[k].newer = 0 /\ ~Pends(n, n.writes[k].file)
                                   /\ n.writes[k].file = "opencode" => Owned(n.writes[k].before)
    BY <1>2, <2>1
  <2>4. Thrifty(n, high) /\ Brings(g, n)
    BY <2>1, <2>3, RemovalThrifty
  <2> QED
    BY <1>1, <2>2, <2>4, BecomeModest DEF Spare
<1>5. CASE Become(j, h)
  <2>1. h.op = "remove" /\ h.writes = g.writes /\ h.plan = g.plan
    BY <1>1 DEF Call
  <2> HIDE DEF h
  <2>2. Thrifty(h, high) /\ Brings(g, h)
    BY <1>2, <2>1, RemovalThrifty DEF Pends
  <2> QED
    BY <1>1, <1>5, <2>2, BecomeModest DEF Spare
<1> QED
  BY <1>3, <1>4, <1>5 DEF LoadEdit

\* An edited file: the removal has not written it before and will not write it again.
LEMMA WriteEditModest ==
    ASSUME Inv, NEW j \in Job, NEW high, Spare(j, high), WriteEdit(j)
    PROVE  Modest(j, high)
<1> DEFINE g == job[j]
           e == Head(g.plan)
           f == e.file
           k == Wrote(j, f)
           h == NextEdit(k)
           doc == Edited(g.loaded, e)
<1>1. g \in Call /\ g.pc = "edit_write" /\ g.op = "remove" /\ g.plan # <<>>
  BY CallOf DEF Inv, WriteEdit, At, PlaceInv
<1>2. e \in Edit /\ f \in File
  <2>1. e \in Edit
    BY <1>1, NextEditPends
  <2> QED
    BY <2>1 DEF Edit
<1>3. Put(j, f, doc, h)
  BY EditPut
<1>4. k \in Call /\ k.op = g.op /\ k.plan = g.plan
  BY <1>2, WroteOK DEF Like
<1>5. \A i \in DOMAIN g.writes : /\ g.writes[i].newer = 0 /\ ~Pends(g, g.writes[i].file)
                                 /\ g.writes[i].file = "opencode" => Owned(g.writes[i].before)
  BY <1>1, RemovalHas DEF Spare
<1>6. Shrunk(g, files["auth"], files["opencode"], vault)
  BY <1>1 DEF Spare, InBalance, Ledger, Forward
<1>7. Distinct(k.plan)
  BY <1>1, <1>4, <1>6 DEF Shrunk, Planned, Distinct
<1>8. /\ h.op = "remove" /\ h.writes = k.writes
      /\ \A x : Pends(h, x) => Pends(k, x)
      /\ Pends(k, f) /\ ~Pends(h, f)
  BY <1>1, <1>4, <1>7, NextEditPends
<1>9. \A x : Pends(k, x) <=> Pends(g, x)
  BY <1>4 DEF Pends
<1>10. \A i \in DOMAIN k.writes :
          \/ k.writes[i] = ResultOf(f)
          \/ /\ i \in DOMAIN g.writes
             /\ k.writes[i].file = g.writes[i].file /\ k.writes[i].before = g.writes[i].before
             /\ k.writes[i].file # f => k.writes[i].newer = g.writes[i].newer
  BY <1>2, WroteWrites
<1>11. ResultOf(f).file = f /\ ResultOf(f).newer = 0 /\ ResultOf(f).before = files[f]
  BY DEF ResultOf
<1>12. Owned(files["opencode"])
  BY DEF Spare
<1>13. f = "opencode" => Owned(doc)
  <2>1. f = "opencode" => g.loaded = files["opencode"] /\ files["opencode"] \in Document
    BY <1>1, <1>6 DEF Shrunk, Inv, WorldInv
  <2>2. e.provider \in Nat /\ e.key \in Account \cup {Nothing}
    BY <1>2 DEF Edit
  <2> HIDE DEF e, f
  <2> QED
    BY <1>12, <2>1, <2>2, OwnedWith DEF Edited
<1> HIDE DEF h, k, doc, f
<1>14. \A i \in DOMAIN h.writes : /\ h.writes[i].newer = 0 /\ ~Pends(h, h.writes[i].file)
                                  /\ h.writes[i].file = "opencode" => Owned(h.writes[i].before)
  BY <1>5, <1>8, <1>9, <1>10, <1>11, <1>12
<1>15. Thrifty(h, high) /\ Brings(g, h)
  BY <1>8, <1>14, RemovalThrifty
<1>16. job'[j] = h /\ files'["opencode"] = IF f = "opencode" THEN doc ELSE files["opencode"]
  BY <1>3 DEF Put, Inv, WorldInv
<1> QED
  BY <1>12, <1>13, <1>15, <1>16 DEF Modest

(***************************************************************************)
(* Nothing is wasted                                                       *)
(***************************************************************************)
\* What is enough below a number is enough below a higher one.
LEMMA ThriftMore ==
    ASSUME NEW g \in Call, NEW high \in Nat, NEW more \in Nat, high =< more, Thrifty(g, high)
    PROVE  Thrifty(g, more)
<1>1. /\ Len(g.made) \in Nat /\ g.row.provider \in Nat /\ g.reserved \in SUBSET Nat
      /\ \A k \in DOMAIN g.made : g.made[k].provider \in Nat
  BY Parts
<1>2. Numbered(g, high)
  BY DEF Thrifty
<1> DEFINE m == Len(g.made)
           one == IF g.pc \in AtFiles THEN 1 ELSE 0
<1>3. /\ m \in Nat /\ one \in Nat
      /\ g.op \in Locking /\ g.pc # "undo" =>
            /\ \A k \in DOMAIN g.made : g.made[k].provider =< high + m
            /\ g.pc \in AtFiles => g.row.provider =< high + m + 1
            /\ g.pc = "name" \/ (g.op = "import" /\ g.pc \in AtFiles \cup {"next"}) =>
                  \A n \in g.reserved : n =< high + m + one
  BY <1>1, <1>2 DEF Numbered
<1> HIDE DEF m, one
<1>4. \A n \in Nat : /\ n =< high + m => n =< more + m
                     /\ n =< high + m + 1 => n =< more + m + 1
                     /\ n =< high + m + one => n =< more + m + one
  BY <1>3
<1>5. g.op \in Locking /\ g.pc # "undo" =>
            /\ \A k \in DOMAIN g.made : g.made[k].provider =< more + m
            /\ g.pc \in AtFiles => g.row.provider =< more + m + 1
            /\ g.pc = "name" \/ (g.op = "import" /\ g.pc \in AtFiles \cup {"next"}) =>
                  \A n \in g.reserved : n =< more + m + one
  BY <1>1, <1>3, <1>4
<1>6. Numbered(g, more)
  BY <1>5 DEF Numbered, m, one
<1> QED
  BY <1>6 DEF Thrifty

\* No account becomes open again, and a step that raises the highest number closes as many.
LEMMA ThriftStep ==
    ASSUME Inv, Inv', ThriftInv,
           \A i \in Job : Thrifty(job'[i], Highest) /\ Brings(job[i], job'[i]),
           Owned(files'["opencode"]), pending' \subseteq pending, outside' \subseteq outside,
           \/ Accounts(vault) \subseteq Accounts(vault')
           \/ \A i \in Job, a \in Account : ~Imports(job'[i], a),
           NEW U \in SUBSET Open, U \cap (pending' \cup outside') = {},
           U \subseteq Accounts(vault'),
           \A i \in DOMAIN vault' : vault'[i].provider =< Highest + Cardinality(U)
    PROVE  ThriftInv'
<1>1. Open' \subseteq Open
  <2> SUFFICES ASSUME NEW a \in Open' PROVE a \in Open
    OBVIOUS
  <2>1. a \in Account
    BY DEF Open
  <2>2. CASE a \in outside' \cup pending'
    BY <2>1, <2>2 DEF Open
  <2>3. CASE a \notin Accounts(vault') /\ \E i \in Job : Imports(job'[i], a)
    <3>1. PICK i \in Job : Imports(job'[i], a)
      BY <2>3
    <3>2. a \notin Accounts(vault)
      BY <2>1, <2>3
    <3>3. Imports(job[i], a) \/ a \in outside \cup pending
      BY <2>1, <3>1, <3>2 DEF Brings
    <3> QED
      BY <2>1, <3>2, <3>3 DEF Open
  <2> QED
    BY <2>2, <2>3 DEF Open
<1>2. U \cap Open' = {}
  BY DEF Open
<1>3. /\ Open \in SUBSET Account /\ Open' \in SUBSET Open /\ U \in SUBSET (Open \ Open')
      /\ {} \in SUBSET (Open \ Open')
  BY <1>1, <1>2 DEF Open
<1> DEFINE c == Cardinality(Account \ Open)
           d == Cardinality(Account \ Open')
           u == Cardinality(U)
<1>4. c \in Nat /\ d \in Nat /\ u \in Nat /\ c + u =< d
  BY <1>3, Raised
<1>5. Highest = Top + c /\ Highest' = Top + d /\ Top \in Nat
  BY TopNumber DEF Highest, Top
<1> HIDE DEF c, d
<1>6. Highest \in Nat /\ Highest' \in Nat /\ Highest + u =< Highest' /\ Highest =< Highest'
  <2> HIDE DEF u
  <2> QED
    BY <1>4, <1>5
<1>7. \A i \in DOMAIN vault' : vault'[i].provider =< Highest'
  <2>1. \A i \in DOMAIN vault' : vault'[i].provider \in Nat /\ vault'[i].provider =< Highest + u
    BY DEF Inv, WorldInv, Row
  <2> HIDE DEF u
  <2> QED
    BY <1>4, <1>6, <2>1
<1>8. \A i \in Job : Thrifty(job'[i], Highest')
  BY <1>6, ThriftMore DEF Inv, CallsInv
<1>9. pending' \cap outside' = {}
  BY DEF ThriftInv
<1> QED
  BY <1>7, <1>8, <1>9 DEF ThriftInv

\* A step that leaves the vault alone.
LEMMA ThriftStays ==
    ASSUME Inv, Inv', ThriftInv,
           \A i \in Job : Thrifty(job'[i], Highest) /\ Brings(job[i], job'[i]),
           Owned(files'["opencode"]), pending' \subseteq pending, outside' = outside, vault' = vault
    PROVE  ThriftInv'
<1>1. Highest \in Nat
  BY RoomAbove
<1>2. \A i \in DOMAIN vault : vault[i].provider =< Highest + Cardinality({})
  <2>1. \A i \in DOMAIN vault : vault[i].provider =< Highest /\ vault[i].provider \in Nat
    BY DEF ThriftInv, Inv, WorldInv, Row
  <2>2. Cardinality({}) = 0
    BY FS_EmptySet
  <2> QED
    BY <1>1, <2>1, <2>2
<1>3. {} \in SUBSET Open /\ {} \cap (pending' \cup outside') = {} /\ {} \subseteq Accounts(vault')
  OBVIOUS
<1> QED
  BY <1>2, <1>3, ThriftStep

\* The call at work wastes nothing, and the others stay.
LEMMA ModestAlone ==
    ASSUME ThriftInv, NEW j \in Job, Modest(j, Highest), \A i \in Job \ {j} : job'[i] = job[i]
    PROVE  /\ \A i \in Job : Thrifty(job'[i], Highest) /\ Brings(job[i], job'[i])
           /\ Owned(files'["opencode"])
<1>1. \A i \in Job \ {j} : Thrifty(job'[i], Highest) /\ Brings(job[i], job'[i])
  BY DEF ThriftInv, Brings
<1> QED
  BY <1>1 DEF Modest

\* What the call at work relies on.
LEMMA SpareAtWork ==
    ASSUME LedgerInv, ThriftInv, NEW j \in Job, InBalance(j)
    PROVE  Spare(j, Highest)
  BY RoomAbove DEF Spare, LedgerInv, ThriftInv

\* A completion raises the highest number by one and closes its account.
LEMMA CompleteThrift ==
    ASSUME Inv, Inv', LedgerInv, ThriftInv, NEW j \in Job, InBalance(j),
           \A i \in Job \ {j} : job'[i] = job[i],
           job[j].op = "complete", At(j, "store"), CommitComplete(j), UNCHANGED files
    PROVE  ThriftInv'
<1> DEFINE g == job[j]
           r == g.made[1]
<1>1. g \in Call /\ g.pc = "store" /\ vault \in Seq(Row) /\ Spare(j, Highest)
  BY CallOf, SpareAtWork DEF Inv, WorldInv, At
<1>2. g.made \in Seq(Row) /\ Len(g.made) = 1
  BY <1>1, LockingLedger DEF Locking, Single, Call, InBalance
<1>3. 1 \in DOMAIN g.made /\ r \in Row
  BY <1>2
<1>4. CASE r.account \in pending /\ r.provider \notin Providers(vault)
  <2>1. vault' = Append(vault, r) /\ pending' = pending \ {r.account} /\ Finish(j)
          /\ outside' = outside
    BY <1>4 DEF CommitComplete
  <2>2. r.provider =< Highest + Len(g.made)
    BY <1>1, <1>3 DEF ThriftInv, Thrifty, Numbered, Locking
  <2>3. \A i \in DOMAIN vault : vault[i].provider =< Highest /\ vault[i].provider \in Nat
    BY <1>1 DEF ThriftInv, Row
  <2> HIDE DEF r
  <2>4. DOMAIN vault' = DOMAIN vault \cup {Len(vault) + 1} /\ vault'[Len(vault) + 1] = r
          /\ \A i \in DOMAIN vault : vault'[i] = vault[i]
    BY <1>1, <1>3, <2>1
  <2>5. Highest \in Nat /\ r.provider \in Nat /\ Cardinality({r.account}) = 1
    BY <1>3, RoomAbove, FS_Singleton DEF Row
  <2>6. \A i \in DOMAIN vault' : vault'[i].provider =< Highest + Cardinality({r.account})
    BY <1>2, <2>2, <2>3, <2>4, <2>5
  <2>7. Accounts(vault) \subseteq Accounts(vault') /\ r.account \in Accounts(vault')
    BY <2>4 DEF Accounts
  <2>8. {r.account} \in SUBSET Open /\ {r.account} \cap (pending' \cup outside') = {}
    BY <1>3, <1>4, <2>1 DEF Open, ThriftInv, Row
  <2>9. Modest(j, Highest)
    BY <2>1, FinishModest DEF ThriftInv
  <2>10. /\ \A i \in Job : Thrifty(job'[i], Highest) /\ Brings(job[i], job'[i])
         /\ Owned(files'["opencode"])
    BY <2>9, ModestAlone
  <2>11. pending' \subseteq pending /\ outside' \subseteq outside
    BY <2>1
  <2> QED
    BY <2>6, <2>7, <2>8, <2>10, <2>11, ThriftStep
<1>5. CASE ~(r.account \in pending /\ r.provider \notin Providers(vault))
  <2>1. Fail(j, g) /\ UNCHANGED <<vault, pending, outside>>
    BY <1>5 DEF CommitComplete
  <2>2. Modest(j, Highest)
    BY <1>1, <2>1, FailModest
  <2> QED
    BY <2>1, <2>2, ModestAlone, ThriftStays
<1> QED
  BY <1>4, <1>5

\* An import raises it by as many accounts as it brings.
LEMMA ImportThrift ==
    ASSUME Inv, Inv', LedgerInv, ThriftInv, NEW j \in Job, InBalance(j),
           \A i \in Job \ {j} : job'[i] = job[i],
           job[j].op = "import", At(j, "store"), CommitImport(j), UNCHANGED files
    PROVE  ThriftInv'
<1> DEFINE g == job[j]
           U == Accounts(g.made)
           fresh == /\ U \cap (pending \cup Accounts(vault)) = {}
                    /\ Providers(g.made) \cap Providers(vault) = {}
<1>1. g \in Call /\ g.pc = "store" /\ vault \in Seq(Row) /\ g.made \in Seq(Row)
        /\ Spare(j, Highest)
  BY CallOf, SpareAtWork DEF Inv, WorldInv, At, Call
<1>2. \A i, k \in DOMAIN g.made : i # k => g.made[i].account # g.made[k].account
  BY <1>1, LockingLedger DEF Locking, Several, InBalance
<1>3. Cardinality(U) = Len(g.made)
  BY <1>1, <1>2, AsMany
<1>4. CASE fresh
  <2>1. vault' = vault \o g.made /\ outside' = outside \ U /\ pending' = pending /\ Finish(j)
    BY <1>4 DEF CommitImport
  <2>2. \A k \in DOMAIN g.made : g.made[k].provider =< Highest + Len(g.made)
    BY <1>1 DEF ThriftInv, Thrifty, Numbered, Locking
  <2>3. \A i \in DOMAIN vault : vault[i].provider =< Highest /\ vault[i].provider \in Nat
    BY <1>1 DEF ThriftInv, Row
  <2>4. /\ \A i \in DOMAIN vault' : \/ i \in DOMAIN vault /\ vault'[i] = vault[i]
                                    \/ \E k \in DOMAIN g.made : vault'[i] = g.made[k]
        /\ \A i \in DOMAIN vault : i \in DOMAIN vault' /\ vault'[i] = vault[i]
        /\ \A k \in DOMAIN g.made : \E i \in DOMAIN vault' : vault'[i] = g.made[k]
    <3> DEFINE s == vault
               t == g.made
    <3>1. s \in Seq(Row) /\ t \in Seq(Row) /\ vault' = s \o t
      BY <1>1, <2>1
    <3> HIDE DEF s, t
    <3>2. /\ Len(s) \in Nat /\ Len(t) \in Nat /\ DOMAIN s = 1 .. Len(s) /\ DOMAIN t = 1 .. Len(t)
          /\ DOMAIN vault' = 1 .. Len(s) + Len(t)
          /\ \A i \in 1 .. Len(s) + Len(t) :
                vault'[i] = IF i =< Len(s) THEN s[i] ELSE t[i - Len(s)]
      BY <3>1, Joined
    <3>3. /\ \A i \in 1 .. Len(s) + Len(t) : i =< Len(s) \/ i - Len(s) \in 1 .. Len(t)
          /\ \A k \in 1 .. Len(t) : /\ Len(s) + k \in 1 .. Len(s) + Len(t)
                                    /\ ~(Len(s) + k =< Len(s)) /\ (Len(s) + k) - Len(s) = k
      BY <3>2
    <3>4. \A i \in DOMAIN vault' : \/ i \in DOMAIN s /\ vault'[i] = s[i]
                                   \/ \E k \in DOMAIN t : vault'[i] = t[k]
      BY <3>2, <3>3
    <3>5. \A i \in DOMAIN s : i \in DOMAIN vault' /\ vault'[i] = s[i]
      BY <3>2
    <3>6. \A k \in DOMAIN t : \E i \in DOMAIN vault' : vault'[i] = t[k]
      BY <3>2, <3>3
    <3> QED
      BY <3>4, <3>5, <3>6 DEF s, t
  <2>5. Highest \in Nat /\ Len(g.made) \in Nat /\ \A k \in DOMAIN g.made : g.made[k].provider \in Nat
    BY <1>1, RoomAbove, Parts
  <2>6. \A i \in DOMAIN vault' : vault'[i].provider =< Highest + Cardinality(U)
    <3> DEFINE m == Len(g.made)
    <3>1. \A n \in Nat : n =< Highest => n =< Highest + m
      <4>1. m \in Nat
        BY <2>5
      <4> HIDE DEF m
      <4> QED
        BY <2>5, <4>1
    <3> QED
      BY <1>3, <2>2, <2>3, <2>4, <3>1
  <2>7. Accounts(vault) \subseteq Accounts(vault') /\ U \subseteq Accounts(vault')
    BY <2>4 DEF Accounts
  <2>8. U \in SUBSET Open /\ U \cap (pending' \cup outside') = {}
    <3>1. \A a \in U : a \in Account /\ Imports(g, a)
      BY <1>1 DEF Imports, Accounts, Row
    <3> QED
      BY <1>4, <2>1, <3>1 DEF Open
  <2>9. Modest(j, Highest)
    BY <2>1, FinishModest DEF ThriftInv
  <2>10. /\ \A i \in Job : Thrifty(job'[i], Highest) /\ Brings(job[i], job'[i])
         /\ Owned(files'["opencode"])
    BY <2>9, ModestAlone
  <2>11. pending' \subseteq pending /\ outside' \subseteq outside
    BY <2>1
  <2> HIDE DEF U
  <2> QED
    BY <2>6, <2>7, <2>8, <2>10, <2>11, ThriftStep
<1>5. CASE ~fresh
  <2>1. Fail(j, g) /\ UNCHANGED <<vault, pending, outside>>
    BY <1>5 DEF CommitImport
  <2>2. Modest(j, Highest)
    BY <1>1, <2>1, FailModest
  <2> QED
    BY <2>1, <2>2, ModestAlone, ThriftStays
<1> QED
  BY <1>4, <1>5

\* An application changes no number.
LEMMA ApplyThrift ==
    ASSUME Inv, Inv', LedgerInv, ThriftInv, NEW j \in Job, InBalance(j),
           \A i \in Job \ {j} : job'[i] = job[i],
           At(j, "store"), CommitApply(j), UNCHANGED files
    PROVE  ThriftInv'
<1> DEFINE g == job[j]
<1>1. vault \in Seq(Row) /\ Spare(j, Highest) /\ UNCHANGED <<pending, outside>>
  BY SpareAtWork DEF Inv, WorldInv, CommitApply
<1>2. CASE Accounts(g.made) \subseteq Accounts(vault)
  <2>1. vault' = [i \in DOMAIN vault |-> Updated(vault[i], g.made)] /\ Finish(j)
    BY <1>2 DEF CommitApply
  <2>2. ASSUME NEW i \in DOMAIN vault
        PROVE  vault'[i].account = vault[i].account /\ vault'[i].provider = vault[i].provider
    <3>1. vault[i] \in Row /\ vault'[i] = Updated(vault[i], g.made)
      BY <1>1, <2>1
    <3> QED
      BY <3>1 DEF Updated, Row
  <2>3. DOMAIN vault' = DOMAIN vault
    BY <2>1
  <2>4. Accounts(vault) \subseteq Accounts(vault')
    BY <2>2, <2>3 DEF Accounts
  <2>5. \A i \in DOMAIN vault' : vault'[i].provider =< Highest + Cardinality({})
    <3>1. Cardinality({}) = 0 /\ Highest \in Nat
      BY FS_EmptySet, RoomAbove
    <3>2. \A i \in DOMAIN vault' : vault'[i].provider =< Highest
      BY <2>2, <2>3 DEF ThriftInv
    <3> QED
      BY <3>1, <3>2
  <2>6. /\ \A i \in Job : Thrifty(job'[i], Highest) /\ Brings(job[i], job'[i])
        /\ Owned(files'["opencode"])
    BY <2>1, FinishModest, ModestAlone DEF ThriftInv
  <2>7. {} \in SUBSET Open /\ {} \cap (pending' \cup outside') = {} /\ {} \subseteq Accounts(vault')
    OBVIOUS
  <2> QED
    BY <1>1, <2>4, <2>5, <2>6, <2>7, ThriftStep
<1>3. CASE ~(Accounts(g.made) \subseteq Accounts(vault))
  <2>1. Fail(j, g) /\ UNCHANGED vault
    BY <1>3 DEF CommitApply
  <2> QED
    BY <1>1, <2>1, FailModest, ModestAlone, ThriftStays
<1> QED
  BY <1>2, <1>3

\* A removal leaves the others their numbers, or the primary's.
LEMMA DeleteThrift ==
    ASSUME Inv, Inv', LedgerInv, ThriftInv, NEW j \in Job, InBalance(j),
           \A i \in Job \ {j} : /\ job'[i] = job[i] /\ ~Busy(job[i])
                                /\ Unbegun(job[i], vault),
           DeleteRow(j)
    PROVE  ThriftInv'
<1> DEFINE g == job[j]
           more == Promoted(Others(vault, g.row.account), g.promoted)
<1>1. /\ g \in Call /\ g.pc = "delete" /\ g.op = "remove" /\ vault \in Seq(Row)
      /\ UNCHANGED <<files, pending, outside>> /\ Spare(j, Highest)
      /\ Ledger(g, files["auth"], files["opencode"], vault)
  BY CallOf, SpareAtWork DEF Inv, WorldInv, DeleteRow, At, PlaceInv, InBalance
<1>2. CASE vault' = more /\ Finish(j)
  <2>1. Shrunk(g, files["auth"], files["opencode"], vault)
    BY <1>1 DEF Ledger, Forward
  <2>2. PICK d \in DOMAIN vault : vault[d] = g.row
    BY <2>1 DEF Shrunk
  <2>3. Planned(g, vault)
    BY <1>1, <2>1 DEF Shrunk
  <2>4. \A i \in DOMAIN more : \E k \in DOMAIN vault \ {d} : Moved(more[i], vault[k], g.promoted)
    BY <1>1, <2>2, <2>3, DeletedRows DEF LedgerInv
  <2> HIDE DEF more
  <2>5. \A i \in DOMAIN vault' : vault'[i].provider =< Highest + Cardinality({})
    <3>1. Cardinality({}) = 0 /\ Highest \in Nat /\ Primary =< Highest
      BY FS_EmptySet, RoomAbove
    <3>2. \A i \in DOMAIN vault' : vault'[i].provider =< Highest
      BY <1>2, <2>4, <3>1 DEF ThriftInv, Moved
    <3> QED
      BY <3>1, <3>2
  <2>6. \A i \in Job, a \in Account : ~Imports(job'[i], a)
    <3>1. job'[j] = Idle
      BY <1>2, CallOf DEF Inv, Finish, Become
    <3>2. ASSUME NEW i \in Job \ {j}, NEW a \in Account PROVE ~Imports(job[i], a)
      <4>1. job[i].made = <<>> /\ job[i].todo = <<>> /\ ~AtRow(job[i])
        BY DEF Unbegun, Busy, AtRow, AtFiles
      <4> QED
        BY <4>1 DEF Imports, Accounts
    <3> QED
      BY <3>1, <3>2, IdleThrifty
  <2>7. /\ \A i \in Job : Thrifty(job'[i], Highest) /\ Brings(job[i], job'[i])
        /\ Owned(files'["opencode"])
    BY <1>1, <1>2, FinishModest, ModestAlone DEF ThriftInv
  <2>8. {} \in SUBSET Open /\ {} \cap (pending' \cup outside') = {} /\ {} \subseteq Accounts(vault')
    OBVIOUS
  <2> QED
    BY <1>1, <2>5, <2>6, <2>7, <2>8, ThriftStep
<1>3. CASE Fail(j, g) /\ UNCHANGED vault
  BY <1>1, <1>3, FailModest, ModestAlone, ThriftStays
<1> QED
  BY <1>2, <1>3 DEF DeleteRow

\* A step of the call at work that leaves the vault alone.
LEMMA WorkModest ==
    ASSUME Inv, NEW j \in Job, NEW high, Spare(j, high), Work(j), ~Commit(j), ~DeleteRow(j)
    PROVE  Modest(j, high) /\ UNCHANGED <<vault, pending, outside>>
<1>1. job[j].pc \notin {"lock", "remote"}
  BY DEF Spare, InBalance, Busy
<1>2. CASE Decode(j) \/ Inspect(j) \/ FindPrimary(j) \/ ListRows(j) \/ NextRow(j) \/ NameRow(j)
  <2>1. UNCHANGED <<vault, pending, outside>>
    BY <1>2 DEF Decode, Inspect, FindPrimary, ListRows, NextRow, NameRow, book
  <2> QED
    BY <1>2, <2>1, DecodeModest, InspectModest, FindPrimaryModest, ListRowsModest,
       NextRowModest, NameRowModest
<1>3. CASE LoadAuth(j) \/ FetchModels(j) \/ LoadOpencode(j) \/ ReadNames(j) \/ LoadOmo(j)
           \/ StepFails(j)
  <2>1. UNCHANGED <<vault, pending, outside>>
    BY <1>3 DEF LoadAuth, FetchModels, LoadOpencode, ReadNames, LoadOmo, StepFails, book
  <2> QED
    BY <1>3, <2>1, LoadAuthModest, FetchModelsModest, LoadOpencodeModest, ReadNamesModest,
       LoadOmoModest, StepFailsModest
<1>4. CASE WriteAuth(j) \/ WriteOpencode(j) \/ WriteOmo(j) \/ WriteEdit(j)
  <2>1. UNCHANGED <<vault, pending, outside>>
    BY <1>4 DEF WriteAuth, WriteOpencode, WriteOmo, WriteEdit, Replace, book
  <2> QED
    BY <1>4, <2>1, WriteAuthModest, WriteOpencodeModest, WriteOmoModest, WriteEditModest
<1>5. CASE Undo(j) \/ PlanRemoval(j) \/ LoadEdit(j)
  <2>1. UNCHANGED <<vault, pending, outside>>
    BY <1>5 DEF Undo, PlanRemoval, LoadEdit, book
  <2> QED
    BY <1>5, <2>1, UndoModest, PlanRemovalModest, LoadEditModest
<1>6. ~Acquire(j) /\ ~RemoteDeleted(j) /\ ~RemoteFailed(j)
  BY <1>1 DEF Acquire, RemoteDeleted, RemoteFailed, At
<1> QED
  BY <1>2, <1>3, <1>4, <1>5, <1>6 DEF Work

\* Every number that is written is one of the model's.
LEMMA NumbersSuffice == Inv /\ ThriftInv => Roomy
<1> SUFFICES ASSUME Inv, ThriftInv, NEW j \in Job, job[j].pc = "oc_write"
             PROVE  job[j].row.provider \in Provider
  BY DEF Roomy
<1> DEFINE g == job[j]
           m == Len(g.made)
           t == Len(g.todo)
           n == g.row.provider
<1>1. g \in Call /\ g.op \in Locking /\ g.row \in Row
  BY CallOf DEF Inv, PlaceInv, RowInv
<1>2. Thrifty(g, Highest) /\ Highest \in Nat /\ Highest =< Top + Cardinality(Account)
  BY RoomAbove DEF ThriftInv
<1>3. Ready(g, n, Highest)
  BY <1>1, <1>2, AtFilesReady DEF AtFiles
<1>4. n \in Nat /\ n # 0 /\ m \in Nat /\ t \in Nat
  BY <1>1, Parts DEF Row
<1>5. n =< Highest + m + 1 /\ m + t + 1 =< Cardinality(Account)
  BY <1>3 DEF Ready
<1> HIDE DEF m, t, n
<1>6. n \in 1 .. Top + 2 * Cardinality(Account)
  BY <1>2, <1>4, <1>5, TopNumber
<1> QED
  BY <1>6, TopNumber DEF n

\* No more writes of a file follow in a call than there are accounts.
LEMMA BackupsLast ==
    ASSUME Inv, LedgerInv, ThriftInv, Cardinality(Account) =< Retention
    PROVE  Backed
<1>0. Retention \in Nat \ {0} /\ Cardinality(Account) \in Nat
  BY PoolAssumption, TopNumber
<1> SUFFICES ASSUME NEW j \in Job, NEW k \in DOMAIN job[j].writes
             PROVE  job[j].writes[k].newer < Retention
  <2>1. \A j \in Job : \A k \in DOMAIN job[j].writes : job[j].writes[k].newer \in Nat
    BY CallOf, Parts DEF Inv
  <2>2. \A n \in Nat : n < Retention => n # Retention
    BY <1>0
  <2> QED
    BY <2>1, <2>2 DEF Backed
<1> DEFINE g == job[j]
           w == g.writes[k].newer
<1>1. g \in Call /\ Counted(g) /\ w \in Nat /\ (g.op = "none" <=> g.pc = "idle")
  BY CallOf, Parts DEF Inv, PlaceInv, ThriftInv, Thrifty
<1>2. CASE g.op \in Locking /\ g.pc = "undo"
  <2>1. w < Cardinality(Account)
    BY <1>1, <1>2 DEF Counted
  <2> HIDE DEF w
  <2> QED
    BY <1>0, <1>1, <2>1 DEF w
<1>3. CASE g.op \in Locking /\ g.pc # "undo"
  <2> DEFINE m == Len(g.made)
             t == Len(g.todo)
             one == IF AtRow(g) THEN 1 ELSE 0
             two == IF InHand(g) /\ g.writes[k].file = "opencode" THEN 1 ELSE 0
  <2>1. m + t + one =< Cardinality(Account) /\ w < m + two
    BY <1>1, <1>3 DEF Counted, Rows
  <2>2. one \in Nat /\ two \in Nat /\ two =< one
    BY DEF InHand, AtRow, AtFiles
  <2>3. m \in Nat /\ t \in Nat
    BY <1>1, Parts
  <2> HIDE DEF m, t, w, one, two
  <2>4. w < Retention
    BY <1>0, <1>1, <2>1, <2>2, <2>3
  <2> QED
    BY <2>4 DEF w
<1>4. CASE g.op = "remove"
  BY <1>0, <1>1, <1>4 DEF Counted
<1>5. CASE g.op = "repair"
  BY <1>1, <1>5 DEF Counted
<1>6. CASE g.op = "none"
  <2>1. ~Busy(g)
    BY <1>1, <1>6 DEF Busy
  <2> QED
    BY <2>1 DEF LedgerInv, Unbegun
<1>7. g.op \in Locking \cup {"remove", "repair", "none"}
  BY <1>1, PoolAssumption DEF Call, Locking
<1> QED
  BY <1>2, <1>3, <1>4, <1>5, <1>6, <1>7

\* A step of the call at work wastes nothing.
LEMMA WorkThrift ==
    ASSUME Inv, Inv', Overlap = "none", LedgerInv, ThriftInv, Readable,
           Backed, NEW j \in Job, Busy(job[j]), Work(j)
    PROVE  ThriftInv'
<1>1. /\ InBalance(j) /\ Quiet(j)
      /\ \A i \in Job \ {j} : ~Busy(job[i]) /\ Unbegun(job[i], vault)
  BY AloneAtWork
<1>2. Restorable(job[j]) /\ (job[j].pc = "oc_write" => job[j].row.provider \in Provider)
  BY NumbersSuffice DEF Backed, Restorable, Roomy
<1>3. \A i \in Job \ {j} : job'[i] = job[i]
  BY <1>1, <1>2, WorkSettled DEF LedgerInv, Closed, Settled
<1>4. CASE Commit(j)
  BY <1>1, <1>3, <1>4, CompleteThrift, ImportThrift, ApplyThrift DEF Commit
<1>5. CASE DeleteRow(j)
  BY <1>1, <1>3, <1>5, DeleteThrift
<1>6. CASE ~Commit(j) /\ ~DeleteRow(j)
  <2>1. Modest(j, Highest) /\ UNCHANGED <<vault, pending, outside>>
    BY <1>1, <1>6, SpareAtWork, WorkModest
  <2> QED
    BY <1>3, <2>1, ModestAlone, ThriftStays
<1> QED
  BY <1>4, <1>5, <1>6

\* A call that has done nothing has wasted nothing.
LEMMA BlankThrifty ==
    ASSUME NEW h, NEW high, h.writes = <<>>, h.made = <<>>, h.todo = <<>>,
           h.op \in Locking => h.pc \in {"lock", "decode", "inspect"}
    PROVE  Thrifty(h, high) /\ \A a \in Account : ~Imports(h, a)
<1>1. CASE h.op \in Locking
  <2>1. ~AtRow(h) /\ h.pc \notin AtFiles \cup {"name", "next", "undo"}
    BY <1>1 DEF AtRow, AtFiles
  <2>2. Rows(h) =< Cardinality(Account)
    BY <2>1, TopNumber DEF Rows
  <2>3. Numbered(h, high)
    BY <2>1 DEF Numbered
  <2>4. Thrifty(h, high)
    BY <1>1, <2>1, <2>2, <2>3, EmptyThrifty
  <2> QED
    BY <2>1, <2>4 DEF Imports, Accounts
<1>2. CASE h.op \notin Locking
  BY <1>2 DEF Thrifty, Counted, Numbered, Imports, Locking
<1> QED
  BY <1>1, <1>2

\* A call comes, goes or begins to work.
LEMMA BlankStep ==
    ASSUME Inv, Inv', ThriftInv, NEW j \in Job, NEW h, Become(j, h),
           UNCHANGED <<files, vault, pending, outside>>,
           Thrifty(h, Highest), \A a \in Account : ~Imports(h, a)
    PROVE  ThriftInv'
<1>1. Brings(job[j], h)
  BY DEF Brings
<1>2. Modest(j, Highest) /\ \A i \in Job \ {j} : job'[i] = job[i]
  BY <1>1, CallOf, BecomeModest DEF Inv, Become, ThriftInv
<1> QED
  BY <1>2, ModestAlone, ThriftStays

\* The steps of the calls that are not at work.
LEMMA WaitingThrift ==
    ASSUME Inv, Inv', LedgerInv, ThriftInv, NEW j \in Job,
           Acquire(j) \/ RemoteDeleted(j) \/ RemoteFailed(j)
    PROVE  ThriftInv'
<1> DEFINE g == job[j]
<1>1. g \in Call /\ g.pc \in {"lock", "remote"} /\ UNCHANGED <<files, vault, pending, outside>>
        /\ (g.pc = "remote" => g.op = "remove") /\ (g.pc = "lock" => g.op \in Locking)
  BY CallOf DEF Inv, Acquire, RemoteDeleted, RemoteFailed, At, book, PlaceInv
<1>2. g.writes = <<>> /\ g.made = <<>> /\ g.todo = <<>>
  BY <1>1 DEF LedgerInv, Busy, Unbegun
<1>3. ASSUME NEW l \in {"decode", "inspect", "remaining"}, Become(j, [g EXCEPT !.pc = l]),
             g.op = "remove" \/ l # "remaining"
      PROVE  ThriftInv'
  <2> DEFINE h == [g EXCEPT !.pc = l]
  <2>1. h.writes = <<>> /\ h.made = <<>> /\ h.todo = <<>> /\ h.pc = l /\ h.op = g.op
    BY <1>1, <1>2 DEF Call
  <2>2. Become(j, h)
    BY <1>3
  <2> HIDE DEF h
  <2>3. Thrifty(h, Highest) /\ \A a \in Account : ~Imports(h, a)
    BY <1>3, <2>1, BlankThrifty DEF Locking
  <2> QED
    BY <1>1, <2>2, <2>3, BlankStep
<1>4. CASE Acquire(j)
  BY <1>3, <1>4 DEF Acquire
<1>5. CASE RemoteDeleted(j)
  BY <1>1, <1>3, <1>5 DEF RemoteDeleted, At
<1>6. CASE RemoteFailed(j)
  BY <1>1, <1>6, IdleThrifty, BlankStep DEF RemoteFailed, Finish
<1> QED
  BY <1>4, <1>5, <1>6

\* A new call has wasted nothing.
LEMMA AskThrift ==
    ASSUME Inv, Inv', ThriftInv, NEW j \in Job, Ask(j)
    PROVE  ThriftInv'
<1>1. UNCHANGED <<files, vault, pending, outside>>
  BY DEF Ask, AskComplete, AskImport, AskApply, AskRepair, AskRemove, book
<1>2. ASSUME NEW g, g \in Call, g.writes = <<>>, g.made = <<>>, g.todo = <<>>,
             NEW op, NEW l, Called(j, op, l, g), op \in Locking => l = "lock"
      PROVE  ThriftInv'
  <2> DEFINE h == [g EXCEPT !.op = op, !.pc = l]
  <2>1. h.writes = <<>> /\ h.made = <<>> /\ h.todo = <<>> /\ h.op = op /\ h.pc = l
    BY <1>2 DEF Call
  <2>2. Become(j, h)
    BY <1>2 DEF Called
  <2> HIDE DEF h
  <2>3. Thrifty(h, Highest) /\ \A a \in Account : ~Imports(h, a)
    BY <1>2, <2>1, BlankThrifty
  <2> QED
    BY <1>1, <2>2, <2>3, BlankStep
<1>3. Idle \in Call /\ Idle.writes = <<>> /\ Idle.made = <<>> /\ Idle.todo = <<>>
  BY IdleOK DEF CallInv, Idle
<1>4. CASE AskComplete(j)
  <2>1. PICK a \in flows : Called(j, "complete", "lock", [Idle EXCEPT !.row.account = a])
    BY <1>4 DEF AskComplete
  <2> DEFINE g == [Idle EXCEPT !.row.account = a]
  <2>2. g.writes = <<>> /\ g.made = <<>> /\ g.todo = <<>>
    BY DEF Idle
  <2>3. g \in Call
    <3>1. a \in Account
      BY DEF Inv, WorldInv
    <3> QED
      BY <1>3, <3>1 DEF Call, AnyRow
  <2> HIDE DEF g
  <2> QED
    BY <1>2, <2>1, <2>2, <2>3 DEF g
<1>5. CASE AskImport(j) \/ AskApply(j)
  BY <1>2, <1>3, <1>5 DEF AskImport, AskApply
<1>6. CASE AskRepair(j)
  BY <1>2, <1>3, <1>6 DEF AskRepair, Locking
<1>7. CASE AskRemove(j)
  <2>1. PICK a \in Accounts(vault) :
          Called(j, "remove", "remote", [Idle EXCEPT !.row = RowOf(vault, a)])
    BY <1>7 DEF AskRemove
  <2> DEFINE g == [Idle EXCEPT !.row = RowOf(vault, a)]
  <2>2. g.writes = <<>> /\ g.made = <<>> /\ g.todo = <<>>
    BY DEF Idle
  <2>3. g \in Call
    <3>1. RowOf(vault, a) \in Row
      BY DEF Accounts, RowOf, Inv, WorldInv
    <3> QED
      BY <1>3, <3>1 DEF Call, AnyRow, Row
  <2> HIDE DEF g
  <2> QED
    BY <1>2, <2>1, <2>2, <2>3 DEF g, Locking
<1> QED
  BY <1>4, <1>5, <1>6, <1>7 DEF Ask

\* No step wastes numbers or backups.
LEMMA ThriftNext ==
    ASSUME Inv, Inv', Overlap = "none", LedgerInv, ThriftInv, Readable, Backed,
           [Next]_vars
    PROVE  ThriftInv'
<1>1. ASSUME UNCHANGED <<files, vault, outside, job>>, pending' \subseteq pending PROVE ThriftInv'
  <2>1. \A i \in Job : Thrifty(job'[i], Highest) /\ Brings(job[i], job'[i])
    BY <1>1 DEF ThriftInv, Brings
  <2>2. Owned(files'["opencode"])
    BY <1>1 DEF ThriftInv
  <2> QED
    BY <1>1, <2>1, <2>2, ThriftStays
<1>2. UNCHANGED vars \/ Discard \/ ChangeSettings =>
        UNCHANGED <<files, vault, outside, job>> /\ pending' \subseteq pending
  BY DEF vars, Discard, ChangeSettings, book
<1>3. ASSUME NEW j \in Job, Work(j) PROVE ThriftInv'
  <2>1. CASE Busy(job[j])
    BY <1>3, <2>1, WorkThrift
  <2>2. CASE ~Busy(job[j])
    BY <1>3, <2>2, WaitingSteps, WaitingThrift
  <2> QED
    BY <2>1, <2>2
<1> QED
  BY <1>1, <1>2, <1>3, AskThrift DEF Next

\* In the beginning only the user's names are in the files.
LEMMA ThriftInit == Init => ThriftInv
<1> SUFFICES ASSUME Init PROVE ThriftInv
  OBVIOUS
<1>1. pending \cap outside = {} /\ DOMAIN vault = {} /\ \A j \in Job : job[j] = Idle
  BY DEF Init
<1>2. Owned(files["opencode"])
  <2>1. files["opencode"] \in {NoFile, OwnFile}
    BY DEF Init
  <2>2. Owned(NoFile) /\ Owned(OwnFile)
    BY DEF Owned, NoFile, OwnFile
  <2> QED
    BY <2>1, <2>2
<1> QED
  BY <1>1, <1>2, IdleThrifty DEF ThriftInv

\* What the invariants say of a step.
LEMMA LedgerAll ==
    ASSUME Overlap = "none"
    PROVE  /\ Init => Inv /\ FreshInv /\ LedgerInv /\ ThriftInv
           /\ (Inv /\ FreshInv /\ LedgerInv /\ ThriftInv) /\ (Readable /\ Backed) /\ [Next]_vars =>
                 (Inv /\ FreshInv /\ LedgerInv /\ ThriftInv)'
<1>1. Init => Inv /\ FreshInv /\ LedgerInv /\ ThriftInv
  BY PoolInit, FreshInit, LedgerInit, ThriftInit
<1>2. Inv /\ FreshInv /\ [Next]_vars => (Inv /\ FreshInv)'
  BY PoolNext, FreshStep DEF Sound
<1>3. Inv /\ ThriftInv => Roomy
  BY NumbersSuffice
<1> QED
  BY <1>1, <1>2, <1>3, LedgerNext, ThriftNext

\* In a small pool every name can be read.
LEMMA SmallReadable ==
    ASSUME Top + 2 * Cardinality(Account) =< 9
    PROVE  Readable
<1>1. Provider \subseteq 1 .. 9
  BY TopNumber
<1>2. \A n \in 2 .. 9 : Legible(n)
  <2>1. 0 \in 0 .. 3 /\ 10 ^ 0 = 1 /\ \A n \in 2 .. 9 : n \div 1 = n
    OBVIOUS
  <2> QED
    BY <2>1 DEF Legible
<1>3. \A n \in 1 .. 9 : n = Primary \/ n \in 2 .. 9
  OBVIOUS
<1>4. Names(files["opencode"]) \subseteq 1 .. 9
  BY <1>1 DEF Names
<1> QED
  BY <1>2, <1>3, <1>4 DEF Readable

\* Between calls, the configuration files carry exactly the keys that the vault has marked,
\* under their numbers: whatever completions, imports, applications, removals and repairs
\* follow on each other, and wherever they fail and roll back, as long as the writers can
\* read the names in opencode.json and no backup is pruned that a rollback needs.
THEOREM PoolInStep ==
    ASSUME Overlap = "none"
    PROVE  Spec /\ []Readable /\ []Backed => []InStep
<1>1. Init => Inv /\ FreshInv /\ LedgerInv /\ ThriftInv
  BY LedgerAll
<1>2. (Inv /\ FreshInv /\ LedgerInv /\ ThriftInv) /\ (Readable /\ Backed) /\ [Next]_vars =>
         (Inv /\ FreshInv /\ LedgerInv /\ ThriftInv)'
  BY LedgerAll
<1>3. Inv /\ LedgerInv => InStep
  BY BalancedInStep
<1> QED
  BY <1>1, <1>2, <1>3, PTL DEF Spec

\* Under the same conditions the numbers of accounts that wait for their configuration lie
\* above all numbers in use, so that applying the configuration later can give them theirs.
THEOREM PoolWaitingAbove ==
    ASSUME Overlap = "none"
    PROVE  Spec /\ []Readable /\ []Backed => []WaitingAbove
<1>1. Init => Inv /\ FreshInv /\ LedgerInv /\ ThriftInv
  BY LedgerAll
<1>2. (Inv /\ FreshInv /\ LedgerInv /\ ThriftInv) /\ (Readable /\ Backed) /\ [Next]_vars =>
         (Inv /\ FreshInv /\ LedgerInv /\ ThriftInv)'
  BY LedgerAll
<1>3. Inv /\ LedgerInv /\ Readable => WaitingAbove
  BY BalancedAbove
<1> QED
  BY <1>1, <1>2, <1>3, PTL DEF Spec

\* Under the same conditions a key in auth.json or opencode.json is changed by the removal
\* of its account or by a promotion, or else by a rollback: removals take away nobody
\* else's key, neither another account's nor the user's own.
THEOREM RemovalsKeepKeys ==
    ASSUME Overlap = "none"
    PROVE  Spec /\ []Readable /\ []Backed => KeysKept
<1> DEFINE Stay ==
             \A f \in {"auth", "opencode"} : \A n \in Names(files[f]) :
                \/ files'[f].entries[n] = files[f].entries[n]
                \/ \E j \in Job : Entitled(j, files[f].entries[n])
<1>1. Init => Inv /\ FreshInv /\ LedgerInv /\ ThriftInv
  BY LedgerAll
<1>2. (Inv /\ FreshInv /\ LedgerInv /\ ThriftInv) /\ (Readable /\ Backed) /\ [Next]_vars =>
         (Inv /\ FreshInv /\ LedgerInv /\ ThriftInv)'
  BY LedgerAll
<1>3. (Inv /\ FreshInv /\ LedgerInv) /\ Readable /\ [Next]_vars => [Stay]_files
  <2> SUFFICES ASSUME Inv, FreshInv, LedgerInv, Readable, [Next]_vars,
                      NEW f \in {"auth", "opencode"}, NEW n \in Names(files[f])
               PROVE  \/ files'[f].entries[n] = files[f].entries[n]
                      \/ \E j \in Job : Entitled(j, files[f].entries[n])
    OBVIOUS
  <2>1. CASE \E j \in Job : WriteEdit(j)
    BY <2>1, EditedKey
  <2>2. CASE \E j \in Job : Undo(j)
    BY <2>2 DEF Undo, At, Entitled
  <2> QED
    BY <2>1, <2>2, KeyStep
<1>4. Spec /\ []Readable /\ []Backed => [][Stay]_files
  BY <1>1, <1>2, <1>3, PTL DEF Spec
<1> QED
  BY <1>4 DEF KeysKept

\* No backup that a rollback needs is pruned as long as there are no more accounts than
\* backups are kept, and no call writes a number that is out of range.
THEOREM BackupsAreThere ==
    ASSUME Overlap = "none", Cardinality(Account) =< Retention
    PROVE  Spec /\ []Readable => [](Roomy /\ Backed)
<1> DEFINE All == Inv /\ FreshInv /\ LedgerInv /\ ThriftInv
<1>1. Init => All
  BY LedgerAll
<1>2. All => Roomy /\ Backed
  BY NumbersSuffice, BackupsLast
<1>3. All /\ Readable /\ [Next]_vars => All'
  <2>1. All /\ (Readable /\ Backed) /\ [Next]_vars => All'
    BY LedgerAll
  <2> QED
    BY <1>2, <2>1
<1> HIDE DEF All
<1> QED
  BY <1>1, <1>2, <1>3, PTL DEF Spec

\* A pool that is small in the accounts and in the user's own names needs no condition on its
\* behaviours: all numbers have one digit and are legible, and backups last.
THEOREM SmallPools ==
    ASSUME Overlap = "none", Cardinality(Account) =< Retention,
           Top + 2 * Cardinality(Account) =< 9
    PROVE  Spec => [](InStep /\ WaitingAbove) /\ KeysKept
<1>1. Spec /\ []Readable /\ []Backed => []InStep
  BY PoolInStep
<1>2. Spec /\ []Readable /\ []Backed => []WaitingAbove
  BY PoolWaitingAbove
<1>3. Spec /\ []Readable /\ []Backed => KeysKept
  BY RemovalsKeepKeys
<1>4. Spec /\ []Readable => [](Roomy /\ Backed)
  BY BackupsAreThere
<1>5. Readable
  BY SmallReadable
<1> QED
  BY <1>1, <1>2, <1>3, <1>4, <1>5, PTL

=============================================================================
