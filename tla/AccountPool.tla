----------------------------- MODULE AccountPool -----------------------------
(***************************************************************************)
(* The account pool: what AccountCompletionService (complete, import,      *)
(* apply), AccountCleanupFlow (the local part of a removal) and            *)
(* OpenCodePoolConfigService (repair) do to the vault and to the three     *)
(* configuration files.  Each call is a job; each await hands one call to  *)
(* a thread or to the network, and jobs interleave between awaits, and     *)
(* between the load and the write of a file in a thread.  The completion   *)
(* lock orders complete, import and apply; removals and repairs ignore it. *)
(***************************************************************************)
EXTENDS PoolFiles
LOCAL INSTANCE SequencesExt

CONSTANTS
    Job,        \* calls in flight
    Op,         \* operations the user makes use of
    Retention,  \* _BACKUP_RETENTION
    Overlap     \* "none": removals and repairs have the pool to themselves;
                \* "waiting": other operations run while a removal waits for
                \* GitHub; "any": no restriction

ASSUME PoolAssumption ==
    /\ Op \subseteq {"complete", "import", "apply", "remove", "repair"}
    /\ Retention \in Nat \ {0}
    /\ Own \subseteq {n \in Nat : Legible(n)} /\ IsFiniteSet(Own) /\ IsFiniteSet(Account)
    /\ Overlap \in {"none", "waiting", "any"}
    /\ {Nothing, User} \cap (Account \cup Job) = {}

VARIABLES
    files,     \* the configuration files
    vault,     \* rows of the complete accounts, ordered by id
    pending,   \* accounts with a row in pending_accounts
    flows,     \* accounts whose creation flow still runs
    outside,   \* accounts known from bundles only
    settings,  \* the automatic configuration switches
    lock,      \* holder of AccountCompletionService._lock
    job        \* the calls in flight

vars == <<files, vault, pending, flows, outside, settings, lock, job>>
book == <<vault, pending, flows, outside>>

Settings == { s \in [opencode : BOOLEAN, omo : BOOLEAN] : s.omo => s.opencode }

NoRow == [account |-> Nothing, provider |-> Unassigned, oc |-> FALSE, omo |-> FALSE]

\* A write's result: `before` is NoFile where it has no backup path, `newer` counts
\* the backups of the same file made since.
Result == [file : File, before : Document, newer : 0 .. Retention]

Idle == [ op |-> "none", pc |-> "idle",
          conf |-> [opencode |-> FALSE, omo |-> FALSE],  \* settings as read
          free |-> FALSE,          \* no account and no primary was found
          reserved |-> {},         \* provider numbers read from vault or files
          todo |-> <<>>,           \* rows not yet looked at
          row |-> NoRow,           \* the row at hand
          adds |-> {},             \* files that must still get its provider
          loaded |-> NoFile,       \* the document a writer has loaded
          writes |-> <<>>,         \* results that a failure rolls back
          made |-> <<>>,           \* rows to commit
          plan |-> <<>>,           \* edits a removal has still to make
          promoted |-> Nothing ]

Loading == {"primary", "name", "auth_load", "oc_load", "omo_load", "names", "edit_load"}
Writing == {"auth_write", "oc_write", "omo_write", "edit_write"}
Location == {"idle", "lock", "decode", "inspect", "list", "next", "models", "store", "undo",
             "remote", "remaining", "delete"} \cup Loading \cup Writing

Edit == [file : File, provider : Nat \ {Unassigned}, key : Account \cup {Nothing}]

AnyRow == [account : Account \cup {Nothing}, provider : Nat, oc : BOOLEAN, omo : BOOLEAN]

Call == [ op : Op \cup {"none"}, pc : Location, conf : Settings, free : BOOLEAN,
          reserved : SUBSET Nat, todo : Seq(AnyRow), row : AnyRow,
          adds : SUBSET {"opencode", "omo"}, loaded : Document, writes : Seq(Result),
          made : Seq(Row), plan : Seq(Edit), promoted : Account \cup {Nothing} ]

TypeOK ==
    /\ files \in [File -> Document]
    /\ vault \in Seq(Row)
    /\ pending \subseteq Account /\ flows \subseteq Account /\ outside \subseteq Account
    /\ settings \in Settings
    /\ lock \in Job \cup {Nothing}
    /\ job \in [Job -> Call]

\* A user may have logged in to OpenCode, have providers of his own in opencode.json,
\* or use Oh My OpenAgent with a model of the primary provider.
OwnFile == [NoFile EXCEPT !.exists = TRUE,
                          !.entries = [n \in Provider |-> IF n \in Own THEN User ELSE Nothing]]
PrimaryFile == With(NoFile, Primary, User)

Init ==
    /\ files \in [ auth : {NoFile, PrimaryFile},
                   opencode : {NoFile, OwnFile},
                   omo : {NoFile, [PrimaryFile EXCEPT !.main = Primary]} ]
    /\ vault = <<>>
    /\ pending \in SUBSET Account
    /\ flows = pending
    /\ outside = Account \ pending
    /\ settings \in Settings
    /\ lock = Nothing
    /\ job = [j \in Job |-> Idle]

At(j, l) == job[j].pc = l
Become(j, g) == job' = [job EXCEPT ![j] = g]

Finish(j) ==
    /\ Become(j, Idle)
    /\ lock' = IF lock = j THEN Nothing ELSE lock

\* Mutant: what was written stays.
FailKeepingWrites(j, g) == Finish(j)

\* A call fails: its writes are undone first.
Fail(j, g) ==
    IF g.writes = <<>> THEN Finish(j)
                       ELSE Become(j, [g EXCEPT !.pc = "undo"]) /\ UNCHANGED lock

(***************************************************************************)
(* Calls made by users and flows.                                          *)
(***************************************************************************)
Alone(op) == op \in {"remove", "repair"}

\* Whether job j may enter the part of op that works on the files.
MayWork(j, op) ==
    \/ Overlap = "any"
    \/ \A i \in Job \ {j} :
          \/ At(i, "idle")
          \/ At(i, "remote") /\ Overlap = "waiting"
          \/ ~At(i, "remote") /\ ~Alone(op) /\ ~Alone(job[i].op)

MayAsk(j, op) ==
    /\ op \in Op
    /\ At(j, "idle")
    /\ IF op = "remove" THEN Overlap # "none" \/ \A i \in Job : At(i, "idle")
                        ELSE MayWork(j, op)

Called(j, op, l, g) == Become(j, [g EXCEPT !.op = op, !.pc = l])

\* A flow completes its account once.
AskComplete(j) ==
    /\ MayAsk(j, "complete")
    /\ \E a \in flows :
          /\ flows' = flows \ {a}
          /\ Called(j, "complete", "lock", [Idle EXCEPT !.row.account = a])
    /\ UNCHANGED <<files, vault, pending, outside, settings, lock>>

AskImport(j) ==
    /\ MayAsk(j, "import")
    /\ Called(j, "import", "lock", Idle)
    /\ UNCHANGED <<files, book, settings, lock>>

AskApply(j) ==
    /\ MayAsk(j, "apply")
    /\ Called(j, "apply", "lock", Idle)
    /\ UNCHANGED <<files, book, settings, lock>>

AskRepair(j) ==
    /\ MayAsk(j, "repair")
    /\ Called(j, "repair", "models", Idle)
    /\ UNCHANGED <<files, book, settings, lock>>

\* AccountCleanupService reads the account once and serialises per account.
AskRemove(j) ==
    /\ MayAsk(j, "remove")
    /\ \E a \in Accounts(vault) :
          /\ \A i \in Job : job[i].op = "remove" => job[i].row.account # a
          /\ Called(j, "remove", "remote", [Idle EXCEPT !.row = RowOf(vault, a)])
    /\ UNCHANGED <<files, book, settings, lock>>

\* The cleanup of an account that was never completed (delete_pending), whether its
\* flow has ended or not.
Discard ==
    /\ "remove" \in Op
    /\ \E a \in pending : pending' = pending \ {a}
    /\ UNCHANGED <<files, vault, flows, outside, settings, lock, job>>

ChangeSettings ==
    /\ settings' \in Settings \ {settings}
    /\ UNCHANGED <<files, book, lock, job>>

(***************************************************************************)
(* What the calls under the lock read first.                               *)
(***************************************************************************)
Acquire(j) ==
    /\ At(j, "lock")
    /\ lock = Nothing
    /\ lock' = j
    /\ Become(j, [job[j] EXCEPT !.pc = IF job[j].op = "import" THEN "decode" ELSE "inspect"])
    /\ UNCHANGED <<files, book, settings>>

\* decode_accounts: the complete accounts of the bundle in its order, or an error.  (The
\* others do not concern the pool.)  Bound: an account that was removed is not imported
\* again.
Decode(j) ==
    /\ At(j, "decode")
    /\ \/ \E S \in SUBSET (outside \cup pending \cup Accounts(vault)) \ {{}} :
          \E s \in SetToSeqs(S) :
             /\ Become(j, [job[j] EXCEPT
                            !.todo = [i \in DOMAIN s |-> [NoRow EXCEPT !.account = s[i]]],
                            !.pc = "inspect"])
             /\ UNCHANGED lock
       \/ Finish(j)
    /\ UNCHANGED <<files, book, settings>>

\* account_count and get_automatic_configuration
Inspect(j) ==
    /\ At(j, "inspect")
    /\ Become(j, [job[j] EXCEPT !.conf = settings, !.free = (vault = <<>>),
                                !.pc = IF job[j].op = "apply" THEN "list" ELSE "primary"])
    /\ UNCHANGED <<files, book, settings, lock>>

Configured(g) ==
    [g EXCEPT !.made = Append(@, g.row), !.loaded = NoFile,
              !.pc = IF g.op = "complete" THEN "store" ELSE "next"]

\* The row at hand is to be written to the files in `adds`; of these, a primary
\* account has auth.json only.
Configure(g, row, adds) ==
    LET h == [g EXCEPT !.row = row, !.adds = adds]
    IN  IF row.provider # Primary
          THEN IF adds = {} THEN Configured(h) ELSE [h EXCEPT !.pc = "models"]
          ELSE IF "opencode" \in adds THEN [h EXCEPT !.pc = "auth_load"]
                                      ELSE Configured(h)

FilesOf(conf) ==
    {f \in {"opencode", "omo"} : IF f = "omo" THEN conf.opencode /\ conf.omo ELSE conf.opencode}

Flagged(g, n) ==
    [g.row EXCEPT !.provider = n, !.oc = g.conf.opencode, !.omo = g.conf.opencode /\ g.conf.omo]

\* has_primary_account
FindPrimary(j) ==
    LET g == [job[j] EXCEPT !.free = @ /\ Primary \notin Names(files["auth"])]
    IN  /\ At(j, "primary")
        /\ Become(j, IF g.op = "complete" /\ g.free
                       THEN Configure(g, Flagged(g, Primary), FilesOf(g.conf))
                     ELSE IF g.op = "complete" /\ g.conf.opencode
                       THEN Configure(g, Flagged(g, Unassigned), FilesOf(g.conf))
                     ELSE [g EXCEPT !.pc = "list"])
        /\ UNCHANGED <<files, book, settings, lock>>

\* list_complete_accounts
ListRows(j) ==
    /\ At(j, "list")
    /\ Become(j, [job[j] EXCEPT
                    !.reserved = IF job[j].op = "apply" THEN {} ELSE Providers(vault),
                    !.todo = IF job[j].op = "apply" THEN vault ELSE @,
                    !.pc = IF job[j].op = "complete" THEN "name" ELSE "next"])
    /\ UNCHANGED <<files, book, settings, lock>>

(***************************************************************************)
(* The loops of import and apply.  Their head is a step of its own: it     *)
(* touches nothing that is shared.                                         *)
(***************************************************************************)
NextImported(g) ==
    LET h == [g EXCEPT !.todo = Tail(@), !.row = Head(g.todo), !.free = FALSE]
    IN  IF g.free THEN Configure(h, Flagged(h, Primary), FilesOf(g.conf))
                  ELSE [h EXCEPT !.pc = "name"]

\* _apply_account_configuration
NextApplied(g) ==
    LET h == [g EXCEPT !.todo = Tail(@)]
        r == Head(g.todo)
        missing == {f \in FilesOf(g.conf) : IF f = "omo" THEN ~r.omo ELSE ~r.oc}
    IN  IF missing = {} THEN h
        ELSE Configure(h, [r EXCEPT !.oc = @ \/ "opencode" \in missing,
                                    !.omo = @ \/ "omo" \in missing], missing)

NextRow(j) ==
    LET g == job[j]
    IN  /\ At(j, "next")
        /\ Become(j, IF g.todo = <<>>     THEN [g EXCEPT !.pc = "store"]
                     ELSE IF g.op = "import" THEN NextImported(g)
                     ELSE NextApplied(g))
        /\ UNCHANGED <<files, book, settings, lock>>

\* Mutant: the names in the file are not considered.
NameUnread(g, N) == NextNumber(g.reserved)

\* next_secondary_provider_name: neither in the file nor reserved by the vault, all
\* of whose names it must be able to read
NameFor(g, N) == NextNumber(N \cup g.reserved)

NameRow(j) ==
    LET g == job[j]
        n == NameFor(g, Names(files["opencode"]))
    IN  /\ At(j, "name")
        /\ IF \A m \in g.reserved \ {Primary} : Legible(m)
             THEN /\ Become(j, Configure([g EXCEPT !.reserved = @ \cup {n}],
                                        Flagged(g, n), FilesOf(g.conf)))
                  /\ UNCHANGED lock
             ELSE Fail(j, g)
        /\ UNCHANGED <<files, book, settings>>

(***************************************************************************)
(* Writers.  A thread loads a document and later replaces the file by its  *)
(* changed copy; the backup it makes is of the file as it is then.         *)
(***************************************************************************)
\* A new backup of f brings the older ones closer to being pruned.
Aged(f, i) ==
    [k \in DOMAIN job[i].writes |->
        LET w == job[i].writes[k]
        IN  IF w.file = f /\ files[f].exists /\ w.newer < Retention
              THEN [w EXCEPT !.newer = @ + 1] ELSE w]

ResultOf(f) == [file |-> f, before |-> files[f], newer |-> 0]

\* write_document puts doc in place of f; the call goes on as Then(g), where g
\* remembers the write.
Replace(j, f, doc, Then(_)) ==
    /\ files' = [files EXCEPT ![f] = doc]
    /\ job' = [i \in Job |->
                  LET aged == [job[i] EXCEPT !.writes = Aged(f, i)]
                  IN  IF i = j THEN Then([aged EXCEPT !.writes = Append(@, ResultOf(f))])
                               ELSE aged]
    /\ UNCHANGED <<book, settings, lock>>

\* add_primary_account
LoadAuth(j) ==
    /\ At(j, "auth_load")
    /\ IF Primary \in Names(files["auth"])
         THEN Fail(j, job[j])
         ELSE /\ Become(j, [job[j] EXCEPT !.loaded = files["auth"], !.pc = "auth_write"])
              /\ UNCHANGED lock
    /\ UNCHANGED <<files, book, settings>>

WriteAuth(j) ==
    /\ At(j, "auth_write")
    /\ Replace(j, "auth", With(job[j].loaded, Primary, job[j].row.account), Configured)

\* fetch_models
FetchModels(j) ==
    LET g == job[j]
    IN  /\ At(j, "models")
        /\ Become(j, [g EXCEPT !.pc = IF g.op = "repair" THEN "names"
                                      ELSE IF "opencode" \in g.adds THEN "oc_load"
                                      ELSE "omo_load"])
        /\ UNCHANGED <<files, book, settings, lock>>

\* A row that has a provider already must get the one the file would give it.
MayAllocate(g, n) == g.row.provider \in {Unassigned, n}

\* Mutant: the number is used for the file only.
AllocatedUnnamed(g, n) == g

Allocated(g, n) == [g EXCEPT !.row.provider = n]

\* add_secondary_account
LoadOpencode(j) ==
    LET g == job[j]
        n == NextNumber(Names(files["opencode"]))
    IN  /\ At(j, "oc_load")
        /\ IF Primary \in Names(files["auth"]) /\ MayAllocate(g, n)
             THEN /\ Become(j, [Allocated(g, n) EXCEPT !.loaded = files["opencode"],
                                                       !.pc = "oc_write"])
                  /\ UNCHANGED lock
             ELSE Fail(j, g)
        /\ UNCHANGED <<files, book, settings>>

WriteOpencode(j) ==
    LET AndOmo(g) == IF "omo" \in g.adds THEN [g EXCEPT !.loaded = NoFile, !.pc = "omo_load"]
                                         ELSE Configured(g)
    IN  /\ At(j, "oc_write")
        /\ Replace(j, "opencode", With(job[j].loaded, job[j].row.provider, job[j].row.account),
                   AndOmo)

\* configured_provider_names
ReadNames(j) ==
    LET g == job[j]
        names == Names(files["auth"]) \cup {n \in Names(files["opencode"]) : Legible(n)}
    IN  /\ At(j, "names")
        /\ IF names = {} THEN Finish(j)
           ELSE Become(j, [g EXCEPT !.reserved = names, !.pc = "omo_load"]) /\ UNCHANGED lock
        /\ UNCHANGED <<files, book, settings>>

OmoTarget(g, doc) ==
    IF g.op = "repair" THEN OmoRepaired(doc, g.reserved) ELSE OmoAppended(doc, g.row.provider)

\* append_account_fallback finds nothing to change: its result has no backup path,
\* like that of a file it has created, and counts as a change.
OmoUnchanged(g) ==
    Configured([g EXCEPT !.writes = Append(@, [file |-> "omo", before |-> NoFile, newer |-> 0])])

LoadOmo(j) ==
    LET g == job[j]
    IN  /\ At(j, "omo_load")
        /\ IF g.op # "repair" /\ ~Legible(g.row.provider)
             THEN Fail(j, g)
           ELSE IF OmoTarget(g, files["omo"]) # files["omo"]
             THEN /\ Become(j, [g EXCEPT !.loaded = files["omo"], !.pc = "omo_write"])
                  /\ UNCHANGED lock
           ELSE IF g.op = "repair" THEN Finish(j)
           ELSE Become(j, OmoUnchanged(g)) /\ UNCHANGED lock
        /\ UNCHANGED <<files, book, settings>>

WriteOmo(j) ==
    LET Done(g) == IF g.op = "repair" THEN Idle ELSE Configured(g)
    IN  /\ At(j, "omo_write")
        /\ Replace(j, "omo", OmoTarget(job[j], job[j].loaded), Done)

\* A file cannot be read, parsed or written, or the catalogue is not available.
StepFails(j) ==
    /\ job[j].pc \in Loading \cup Writing \cup {"models"}
    /\ Fail(j, job[j])
    /\ UNCHANGED <<files, book, settings>>

(***************************************************************************)
(* The commit of complete, import and apply: one transaction.              *)
(***************************************************************************)
CommitComplete(j) ==
    LET r == job[j].made[1]
    IN  IF r.account \in pending /\ r.provider \notin Providers(vault)
          THEN /\ vault' = Append(vault, r)
               /\ pending' = pending \ {r.account}
               /\ Finish(j)
               /\ UNCHANGED outside
          ELSE Fail(j, job[j]) /\ UNCHANGED <<vault, pending, outside>>

CommitImport(j) ==
    LET rows == job[j].made
    IN  IF /\ Accounts(rows) \cap (pending \cup Accounts(vault)) = {}
           /\ Providers(rows) \cap Providers(vault) = {}
          THEN /\ vault' = vault \o rows
               /\ outside' = outside \ Accounts(rows)
               /\ Finish(j)
               /\ UNCHANGED pending
          ELSE Fail(j, job[j]) /\ UNCHANGED <<vault, pending, outside>>

\* update_configuration: the flags, nothing else
Updated(r, rows) ==
    IF r.account \notin Accounts(rows) THEN r
    ELSE [r EXCEPT !.oc = RowOf(rows, r.account).oc, !.omo = RowOf(rows, r.account).omo]

CommitApply(j) ==
    LET rows == job[j].made
    IN  IF Accounts(rows) \subseteq Accounts(vault)
          THEN /\ vault' = [i \in DOMAIN vault |-> Updated(vault[i], rows)]
               /\ Finish(j)
               /\ UNCHANGED <<pending, outside>>
          ELSE Fail(j, job[j]) /\ UNCHANGED <<vault, pending, outside>>

Commit(j) ==
    /\ At(j, "store")
    /\ \/ job[j].op = "complete" /\ CommitComplete(j)
       \/ job[j].op = "import" /\ CommitImport(j)
       \/ job[j].op = "apply" /\ CommitApply(j)
    /\ UNCHANGED <<files, flows, settings>>

(***************************************************************************)
(* Rolling back, one write after the other.  A backup that was pruned ends *)
(* a removal's rollback, but not that of the others.                       *)
(***************************************************************************)
Undo(j) ==
    LET g == job[j]
        w == Last(g.writes)
        pruned == w.before.exists /\ w.newer = Retention
        left == IF pruned /\ g.op = "remove" THEN <<>> ELSE Front(g.writes)
    IN  /\ At(j, "undo")
        /\ files' = IF pruned THEN files ELSE [files EXCEPT ![w.file] = w.before]
        /\ IF left = <<>> THEN Finish(j)
           ELSE Become(j, [g EXCEPT !.writes = left]) /\ UNCHANGED lock
        /\ UNCHANGED <<book, settings>>

(***************************************************************************)
(* The local part of a removal.                                            *)
(***************************************************************************)
RemoteDeleted(j) ==
    /\ At(j, "remote")
    /\ MayWork(j, "remove")
    /\ Become(j, [job[j] EXCEPT !.pc = "remaining"])
    /\ UNCHANGED <<files, book, settings, lock>>

RemoteFailed(j) ==
    /\ At(j, "remote")
    /\ Finish(j)
    /\ UNCHANGED <<files, book, settings>>

EditIf(cond, f, n, key) == IF cond THEN <<[file |-> f, provider |-> n, key |-> key]>> ELSE <<>>

\* _remove_primary_account: the promoted account takes its place in auth.json
PlanPrimary(removed, promoted) ==
    LET takeover == removed.oc /\ promoted # NoRow /\ promoted.oc
    IN  EditIf(removed.oc, "auth", Primary, IF takeover THEN promoted.account ELSE Nothing)
        \o EditIf(promoted = NoRow /\ removed.omo, "omo", Primary, Nothing)
        \o EditIf(takeover, "opencode", promoted.provider, Nothing)
        \o EditIf(takeover /\ promoted.omo, "omo", promoted.provider, Nothing)

\* remove_account
PlanSecondary(removed) ==
    EditIf(removed.oc, "opencode", removed.provider, Nothing)
    \o EditIf(removed.omo, "omo", removed.provider, Nothing)

PlanRemoval(j) ==
    LET removed == job[j].row
        rest == Others(vault, removed.account)
        promoted == IF removed.provider = Primary /\ PromotionCandidate(rest) # {}
                      THEN CHOOSE r \in PromotionCandidate(rest) : TRUE ELSE NoRow
        plan == IF removed.provider = Primary THEN PlanPrimary(removed, promoted)
                                              ELSE PlanSecondary(removed)
    IN  /\ At(j, "remaining")
        /\ Become(j, [job[j] EXCEPT !.plan = plan, !.promoted = promoted.account,
                                    !.pc = IF plan = <<>> THEN "delete" ELSE "edit_load"])
        /\ UNCHANGED <<files, book, settings, lock>>

Edited(doc, e) == IF e.key = Nothing THEN Without(doc, e.provider) ELSE With(doc, e.provider, e.key)

NextEdit(g) ==
    [g EXCEPT !.plan = Tail(@), !.loaded = NoFile,
              !.pc = IF Len(g.plan) = 1 THEN "delete" ELSE "edit_load"]

\* A provider that is not there needs no write; a promotion always writes.  A name
\* that the writers cannot read is refused.
LoadEdit(j) ==
    LET g == job[j]
        e == Head(g.plan)
        absent == e.key = Nothing /\ e.provider \notin Names(files[e.file])
    IN  /\ At(j, "edit_load")
        /\ IF e.provider = Primary \/ Legible(e.provider)
             THEN /\ Become(j, IF absent THEN NextEdit(g)
                               ELSE [g EXCEPT !.loaded = files[e.file], !.pc = "edit_write"])
                  /\ UNCHANGED lock
             ELSE Fail(j, g)
        /\ UNCHANGED <<files, book, settings>>

WriteEdit(j) ==
    LET e == Head(job[j].plan)
    IN  /\ At(j, "edit_write")
        /\ Replace(j, e.file, Edited(job[j].loaded, e), NextEdit)

Promoted(rows, a) ==
    [i \in DOMAIN rows |->
        IF rows[i].account = a THEN [rows[i] EXCEPT !.provider = Primary] ELSE rows[i]]

\* delete_and_promote; provider names are unique in the vault
DeleteRow(j) ==
    LET g == job[j]
        rest == Others(vault, g.row.account)
    IN  /\ At(j, "delete")
        /\ IF /\ g.row.account \in Accounts(vault)
              /\ g.promoted # Nothing => /\ g.promoted \in Accounts(rest)
                                         /\ Primary \notin Providers(Others(rest, g.promoted))
             THEN vault' = Promoted(rest, g.promoted) /\ Finish(j)
             ELSE Fail(j, g) /\ UNCHANGED vault
        /\ UNCHANGED <<files, pending, flows, outside, settings>>

(***************************************************************************)
(* The specification                                                       *)
(***************************************************************************)
Ask(j) == AskComplete(j) \/ AskImport(j) \/ AskApply(j) \/ AskRepair(j) \/ AskRemove(j)

Work(j) ==
    \/ Acquire(j) \/ Decode(j) \/ Inspect(j) \/ FindPrimary(j) \/ ListRows(j)
    \/ NextRow(j) \/ NameRow(j)
    \/ LoadAuth(j) \/ WriteAuth(j) \/ FetchModels(j)
    \/ LoadOpencode(j) \/ WriteOpencode(j)
    \/ ReadNames(j) \/ LoadOmo(j) \/ WriteOmo(j)
    \/ StepFails(j) \/ Commit(j) \/ Undo(j)
    \/ RemoteDeleted(j) \/ RemoteFailed(j)
    \/ PlanRemoval(j) \/ LoadEdit(j) \/ WriteEdit(j) \/ DeleteRow(j)

Next == (\E j \in Job : Ask(j) \/ Work(j)) \/ Discard \/ ChangeSettings

Spec == Init /\ [][Next]_vars
=============================================================================
