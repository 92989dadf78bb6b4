--------------------------- MODULE AccountCleanup ---------------------------
(***************************************************************************)
(* Removing accounts: AccountCleanupService (engine/cleanup_service.py),   *)
(* AccountCleanupFlow (engine/cleanup.py) and the page adapter behind them *)
(* (browser/github_cleanup.py), await by await.  A call is a request to    *)
(* the cleanup API; pc is the await it is parked at.  The removal of the   *)
(* account from the configuration files is one step here; AccountPool      *)
(* takes it apart.                                                         *)
(***************************************************************************)
EXTENDS AccountRows, Naturals

CONSTANTS
    Account,
    Call,          \* requests to the cleanup API that may be under way together
    MaxTrouble,    \* crashes and failures of storage, files and browser altogether
    Concurrent,    \* an account may be removed while its creation flow still runs
    ReadsMayFail   \* reading the vault may fail like writing it

ASSUME CleanupAssumption ==
    /\ Account \cap Call = {} /\ None \notin Account \cup Call
    /\ MaxTrouble \in Nat
    /\ Concurrent \in BOOLEAN /\ ReadsMayFail \in BOOLEAN

VARIABLES
    rows,        \* the vault: durable
    config,      \* accounts whose keys are in the configuration files: durable
    remote,      \* accounts that GitHub has
    submitted,   \* accounts whose deletion was submitted to GitHub
    building,    \* accounts whose creation flow is still running
    unlocked,    \* the vault is unlocked in this process
    trouble,
    flow,        \* _flows
    lock,        \* _account_locks: who holds it
    check,       \* the quota service's lock of the account: who holds it
    pc,          \* of every call
    on,          \* the account a call is for
    asks,        \* what a call asks for
    seen         \* the row a call has read, until its flow is made of it

durable == <<rows, config>>
world == <<remote, submitted, building>>
process == <<unlocked, flow, lock>>
calls == <<pc, on, asks, seen>>
cleanupVars == <<durable, world, process, calls, trouble, check>>

Ended == {"done", "error", "cancelled"}

\* known: the table the account was read from when the flow was made.
\* page: its browser context is open.  NoFlow: the service has none.
Flow == [ status : Ended \cup {None, "starting", "manual_required", "local_cleanup"},
          known : {None, "pending", "complete"}, page : BOOLEAN ]
NoFlow == [status |-> None, known |-> None, page |-> FALSE]

Label == {"idle", "lock", "read", "boundary", "begin", "page", "inspect", "verify",
          "mark", "invalidate", "drop", "list", "unconfigure", "delete", "rollback",
          "close", "fail", "cancel", "cancel_close"}

CleanupTypeOK ==
    /\ rows \in [Account -> ValidRow]
    /\ config \subseteq Account
    /\ remote \subseteq Account /\ submitted \subseteq Account /\ building \subseteq Account
    /\ unlocked \in BOOLEAN /\ trouble \in 0 .. MaxTrouble
    /\ flow \in [Account -> Flow]
    /\ lock \in [Account -> Call \cup {None}]
    /\ pc \in [Call -> Label] /\ on \in [Call -> Account]
    /\ asks \in [Call -> {"start", "resume", "cancel"}]
    /\ seen \in [Call -> Row]

\* Accounts created earlier, complete or waiting for payment, some of them before
\* authentication states were stored (migration 6).
CleanupInit ==
    /\ rows \in [Account -> {PendingRow(TRUE), CompleteRow(TRUE), CompleteRow(FALSE)}]
    /\ config = {a \in Account : rows[a].table = "complete"}
    /\ remote = Account /\ submitted = {}
    /\ building \in SUBSET {a \in Account : rows[a].table = "pending"}
    /\ unlocked = FALSE /\ trouble = 0
    /\ flow = [a \in Account |-> NoFlow]
    /\ lock = [a \in Account |-> None]
    /\ pc = [c \in Call |-> "idle"]
    /\ on \in [Call -> Account]
    /\ asks = [c \in Call |-> "start"]
    /\ seen = [c \in Call |-> NoRow]

At(c, l) == pc[c] = l
Goto(c, l) == pc' = [pc EXCEPT ![c] = l] /\ UNCHANGED <<on, asks>>
Answer(c) == /\ pc' = [pc EXCEPT ![c] = "idle"] /\ UNCHANGED on
             /\ asks' = [asks EXCEPT ![c] = "start"]
             /\ seen' = [seen EXCEPT ![c] = NoRow]
Go(c, l) == Goto(c, l) /\ UNCHANGED seen
Release(a) == lock' = [lock EXCEPT ![a] = None]
Set(a, field) == flow' = [flow EXCEPT ![a] = field]
Fails == trouble < MaxTrouble /\ trouble' = trouble + 1

\* The call ends, with an answer or an exception that leaves the flow as it is.
End(c) == Answer(c) /\ Release(on[c])

(***************************************************************************)
(* The service: start, resume, cancel                                      *)
(***************************************************************************)
\* With ~Concurrent the user does not remove an account that is still being made.
Request(c, a, op) ==
    /\ At(c, "idle") /\ unlocked
    /\ Concurrent \/ a \notin building
    /\ pc' = [pc EXCEPT ![c] = "lock"]
    /\ on' = [on EXCEPT ![c] = a]
    /\ asks' = [asks EXCEPT ![c] = op]
    /\ UNCHANGED seen
    /\ UNCHANGED <<durable, world, process, trouble, check>>

Cancellable(a) == flow[a].status \in {"starting", "manual_required"}

Acquire(c) ==
    LET a == on[c] IN
    /\ At(c, "lock") /\ lock[a] = None
    /\ \/ /\ asks[c] = "start" /\ Go(c, "read")
          /\ lock' = [lock EXCEPT ![a] = c]
       \/ /\ asks[c] = "resume" /\ Go(c, "boundary")
          /\ lock' = [lock EXCEPT ![a] = c]
       \/ /\ asks[c] = "cancel" /\ Cancellable(a) /\ Go(c, "cancel")
          /\ lock' = [lock EXCEPT ![a] = c]
       \/ /\ asks[c] = "cancel" /\ ~Cancellable(a) /\ Answer(c)   \* 404 or 409
          /\ UNCHANGED lock
    /\ UNCHANGED <<durable, world, unlocked, flow, trouble, check>>

\* get_account; the record is what the flow will work with.
ReadAccount(c) ==
    /\ At(c, "read")
    /\ IF Present(rows[on[c]])
       THEN /\ Goto(c, "boundary") /\ UNCHANGED lock
            /\ seen' = [seen EXCEPT ![c] = rows[on[c]]]
       ELSE End(c)
    /\ UNCHANGED <<durable, world, unlocked, flow, trouble, check>>

\* Mutant: a removal that failed cannot be tried again.
MayStartOnce(a) == flow[a].status \in {None, "done", "cancelled"}

MayStart(a) == flow[a].status \in Ended \cup {None}

\* _close_other_account_session waits until the quota check of the account is over;
\* what follows runs without an await.
CrossBoundary(c) ==
    LET a == on[c] IN
    /\ At(c, "boundary") /\ check[a] = None
    /\ \/ /\ asks[c] = "start" /\ MayStart(a) /\ Go(c, "begin") /\ UNCHANGED lock
       \/ /\ asks[c] = "start" /\ ~MayStart(a) /\ End(c)              \* busy
       \/ /\ asks[c] = "resume" /\ flow[a].status = "manual_required"
          /\ Go(c, "inspect") /\ UNCHANGED lock
       \/ /\ asks[c] = "resume" /\ flow[a].status # "manual_required" /\ End(c)
    /\ UNCHANGED <<durable, world, unlocked, flow, trouble, check>>

\* Mutant: the vault before the files.
RecordFirst(known) == IF known = "pending" THEN "drop" ELSE "delete"

\* Where a removal goes on once the deletion on GitHub is certain.
LocalCleanup(known) == IF known = "pending" THEN "drop" ELSE "list"

\* begin_cleanup, then the start() of a new flow up to its first await.  The flow
\* works with the record that was read, whatever has become of it since.
Begin(c) ==
    LET a == on[c]
        made(s) == [status |-> s, known |-> seen[c].table, page |-> FALSE] IN
    /\ At(c, "begin")
    /\ \/ /\ ~Present(rows[a]) /\ End(c) /\ UNCHANGED <<rows, flow>>
       \/ /\ Present(rows[a])
          /\ rows' = [rows EXCEPT ![a] = Begun(@)]
          /\ UNCHANGED lock
          /\ seen' = [seen EXCEPT ![c] = NoRow]
          /\ IF rows'[a].op = "remote_deleted"
             THEN Set(a, made("local_cleanup")) /\ Goto(c, LocalCleanup(seen[c].table))
             ELSE /\ Set(a, made("starting"))
                  /\ Goto(c, IF seen[c].auth THEN "page" ELSE "fail")
    /\ UNCHANGED <<config, world, unlocked, trouble, check>>

(***************************************************************************)
(* The page.  What it shows is GitHub's and the user's choice; whether the *)
(* profile is gone is not.                                                 *)
(***************************************************************************)
\* The browser cannot be started: the exception passes through the flow.
BrowserMissing(c) ==
    /\ At(c, "page") /\ Fails /\ End(c)
    /\ UNCHANGED <<durable, world, unlocked, flow, check>>

\* The settings page accepted name and phrase: only the account itself can do it.
Submit(c) ==
    LET a == on[c] IN
    /\ pc[c] \in {"page", "inspect"} /\ a \in remote
    /\ Go(c, "verify")
    /\ submitted' = submitted \cup {a}
    /\ Set(a, [flow[a] EXCEPT !.page = TRUE])
    /\ UNCHANGED <<durable, remote, building, unlocked, lock, trouble, check>>

\* _profile_deleted: the public profile answers 404.  A fresh page does not look.
Deleted(c) ==
    LET a == on[c] IN
    /\ pc[c] \in {"inspect", "verify"} /\ a \notin remote
    /\ Go(c, "mark")
    /\ UNCHANGED <<durable, world, process, trouble, check>>

\* A challenge, an unknown page or a deadline.
NeedsHuman(c) ==
    LET a == on[c] IN
    /\ pc[c] \in {"page", "inspect", "verify"}
    /\ Set(a, [flow[a] EXCEPT !.status = "manual_required", !.page = TRUE])
    /\ End(c)
    /\ UNCHANGED <<durable, world, unlocked, trouble, check>>

\* A stranger's session, a lost one, or a page that does not work.
PageFails(c) ==
    LET a == on[c] IN
    /\ pc[c] \in {"page", "inspect", "verify"}
    /\ Set(a, [flow[a] EXCEPT !.page = TRUE])
    /\ Go(c, "fail")
    /\ UNCHANGED <<durable, world, unlocked, lock, trouble, check>>

\* GitHub refuses the password.
PasswordRefused(c) ==
    /\ pc[c] \in {"inspect", "verify"}
    /\ Go(c, "invalidate")
    /\ UNCHANGED <<durable, world, process, trouble, check>>

\* update_status or update_pending_status, by the table the account was read from;
\* an account that has left it makes the call fail.
Invalidate(c) ==
    LET a == on[c] IN
    /\ At(c, "invalidate")
    /\ IF rows[a].table = flow[a].known
       THEN /\ rows' = [rows EXCEPT ![a] = WithStatus(@, "invalid")]
            /\ Go(c, "fail") /\ UNCHANGED lock
       ELSE End(c) /\ UNCHANGED rows
    /\ UNCHANGED <<config, world, unlocked, flow, trouble, check>>

\* A deletion that was submitted takes effect when GitHub likes.
GithubDeletes(a) ==
    /\ a \in submitted \cap remote
    /\ remote' = remote \ {a}
    /\ UNCHANGED <<durable, submitted, building, process, calls, trouble, check>>

(***************************************************************************)
(* After GitHub                                                            *)
(***************************************************************************)
\* Mutant: the deletion is not put on record first.
MarkLater(c) ==
    /\ At(c, "mark") /\ Go(c, LocalCleanup(flow[on[c]].known))
    /\ UNCHANGED <<durable, world, process, trouble, check>>

\* mark_remote_deleted, then _finish_local_cleanup up to its first await.
Mark(c) ==
    LET a == on[c] IN
    /\ At(c, "mark")
    /\ IF rows[a].op # None
       THEN /\ rows' = [rows EXCEPT ![a] = MarkedDeleted(@)]
            /\ Set(a, [flow[a] EXCEPT !.status = "local_cleanup"])
            /\ Go(c, LocalCleanup(flow[a].known)) /\ UNCHANGED lock
       ELSE End(c) /\ UNCHANGED <<rows, flow>>
    /\ UNCHANGED <<config, world, unlocked, trouble, check>>

MarkFails(c) ==
    /\ At(c, "mark") /\ Fails /\ End(c)
    /\ UNCHANGED <<durable, world, unlocked, flow, check>>

\* delete_pending_account
DropPending(c) ==
    LET a == on[c] IN
    /\ At(c, "drop")
    /\ \/ /\ rows[a].table = "pending"
          /\ rows' = [rows EXCEPT ![a] = NoRow] /\ Go(c, "close") /\ UNCHANGED trouble
       \/ /\ rows[a].table # "pending"
          /\ Go(c, "fail") /\ UNCHANGED <<rows, trouble>>
       \/ Fails /\ Go(c, "fail") /\ UNCHANGED rows
    /\ UNCHANGED <<config, world, process, check>>

\* list_complete_accounts stands outside every try.
ListAccounts(c) ==
    /\ At(c, "list")
    /\ \/ Go(c, "unconfigure") /\ UNCHANGED <<lock, trouble>>
       \/ ReadsMayFail /\ Fails /\ End(c)
    /\ UNCHANGED <<durable, world, unlocked, flow, check>>

\* OpenCodePoolConfigService.remove_account undoes what it did if it fails.
Unconfigure(c) ==
    LET a == on[c] IN
    /\ At(c, "unconfigure")
    /\ \/ config' = config \ {a} /\ Go(c, "delete") /\ UNCHANGED trouble
       \/ Fails /\ Go(c, "fail") /\ UNCHANGED config
    /\ UNCHANGED <<rows, world, process, check>>

\* delete_and_promote
Delete(c) ==
    LET a == on[c] IN
    /\ At(c, "delete")
    /\ \/ /\ rows[a].table = "complete"
          /\ rows' = [rows EXCEPT ![a] = NoRow] /\ Go(c, "close") /\ UNCHANGED trouble
       \/ /\ rows[a].table # "complete"
          /\ Go(c, "rollback") /\ UNCHANGED <<rows, trouble>>
       \/ Fails /\ Go(c, "rollback") /\ UNCHANGED rows
    /\ UNCHANGED <<config, world, process, check>>

\* rollback_account_removal
Rollback(c) ==
    LET a == on[c] IN
    /\ At(c, "rollback") /\ Go(c, "fail")
    /\ \/ config' = config \cup {a} /\ UNCHANGED trouble
       \/ Fails /\ UNCHANGED config
    /\ UNCHANGED <<rows, world, process, check>>

\* The browser is closed, then the flow is over: done, error or cancelled.
Over(c, l, status) ==
    /\ At(c, l)
    /\ Set(on[c], [status |-> status, known |-> None, page |-> FALSE])
    /\ End(c)
    /\ UNCHANGED <<durable, world, unlocked, trouble, check>>

Close(c) == Over(c, "close", "done")
Fail(c) == Over(c, "fail", "error")

\* Mutant: the intent stays in the vault.
CancelFlowOnly(c) ==
    At(c, "cancel") /\ Go(c, "cancel_close")
    /\ UNCHANGED <<durable, world, process, trouble, check>>

CancelIntent(c) ==
    /\ At(c, "cancel")
    /\ rows' = [rows EXCEPT ![on[c]] = Cancelled(@)]
    /\ Go(c, "cancel_close")
    /\ UNCHANGED <<config, world, process, trouble, check>>

CancelClose(c) == Over(c, "cancel_close", "cancelled")

CleanupStep(c) ==
    \/ Acquire(c) \/ ReadAccount(c) \/ CrossBoundary(c) \/ Begin(c)
    \/ BrowserMissing(c) \/ Submit(c) \/ Deleted(c) \/ NeedsHuman(c) \/ PageFails(c)
    \/ PasswordRefused(c) \/ Invalidate(c) \/ Mark(c) \/ MarkFails(c)
    \/ DropPending(c) \/ ListAccounts(c) \/ Unconfigure(c) \/ Delete(c) \/ Rollback(c)
    \/ Close(c) \/ Fail(c) \/ CancelIntent(c) \/ CancelClose(c)
=============================================================================
