----------------------------- MODULE QuotaCheck -----------------------------
(***************************************************************************)
(* Quota checks: QuotaCheckService (engine/quota_service.py), the page     *)
(* adapter behind it (browser/opencode_quota.py) and the QuotaScheduler    *)
(* (scheduler/quota_scheduler.py), await by await, on the vault of         *)
(* AccountCleanup.  A checker is a request to the quota API or the task of *)
(* the scheduler.                                                          *)
(***************************************************************************)
EXTENDS AccountCleanup

CONSTANTS
    Checker,         \* requests to the quota API that may be under way together
    Scheduler,       \* the scheduler's task
    InstallMayFail   \* the browser may be missing because its installation failed

ASSUME CheckerAssumption ==
    /\ Scheduler \notin Checker /\ None \notin Checker \cup {Scheduler}
    /\ (Checker \cup {Scheduler}) \cap (Account \cup Call) = {}
    /\ InstallMayFail \in BOOLEAN

VARIABLES
    qpc,      \* the await a checker is parked at; "dead": the task has ended
    target,   \* the account it checks
    job,      \* "one" (refresh_account), "all" (refresh_all), "mark" (mark_exhausted)
    left,     \* the accounts refresh_all has still to check
    found     \* what the dashboard showed, until it is stored

quotaVars == <<qpc, target, job, left, found>>

Everyone == Checker \cup {Scheduler}
Found == {None, "active", "exhausted", "unsubscribed", "unreadable"}

QuotaTypeOK ==
    /\ qpc \in [Everyone -> {"idle", "list", "next", "lock", "read", "page", "states", "store",
                             "mark", "sleep", "dead"}]
    /\ target \in [Everyone -> Account]
    /\ job \in [Everyone -> {"one", "all", "mark"}]
    /\ left \in [Everyone -> SUBSET Account]
    /\ found \in [Everyone -> Found]
    /\ check \in [Account -> Everyone \cup {None}]

\* quota_scheduler.start() runs before the first request is served.
QuotaReset ==
    /\ qpc = [k \in Everyone |-> IF k = Scheduler THEN "list" ELSE "idle"]
    /\ target \in [Everyone -> Account]
    /\ job = [k \in Everyone |-> IF k = Scheduler THEN "all" ELSE "one"]
    /\ left = [k \in Everyone |-> {}]
    /\ found = [k \in Everyone |-> None]

QuotaInit == QuotaReset /\ check = [a \in Account |-> None]

Waits(k, l) == qpc[k] = l
Turn(k, l) == qpc' = [qpc EXCEPT ![k] = l] /\ UNCHANGED <<target, job, left>>
Stop(k) == /\ qpc' = [qpc EXCEPT ![k] = IF k = Scheduler THEN "sleep" ELSE "idle"]
           /\ job' = [job EXCEPT ![k] = IF k = Scheduler THEN "all" ELSE "one"]
           /\ UNCHANGED <<target, left>>
Vault(a, row) == rows' = [rows EXCEPT ![a] = row]
elsewhere == <<config, world, process, calls>>

\* refresh_account of k is over, and with it the lock of the account; what was
\* raised, if anything, ends a refresh_all unless it says that the account is gone.
\* An exception ends the scheduler's task: nothing catches it there.
Goes(k) == IF job[k] = "all" THEN "next" ELSE "idle"
Raises(k) == IF k = Scheduler THEN "dead" ELSE "idle"

Leave(k, l) ==
    /\ IF l = "idle" THEN Stop(k) ELSE Turn(k, l)
    /\ check' = [check EXCEPT ![target[k]] = None]
    /\ found' = [found EXCEPT ![k] = None]

(***************************************************************************)
(* Requests and the scheduler's loop                                       *)
(***************************************************************************)
Ask(k, a, what) ==
    /\ Waits(k, "idle") /\ k # Scheduler /\ unlocked
    /\ qpc' = [qpc EXCEPT ![k] = IF what = "all" THEN "list" ELSE "lock"]
    /\ target' = [target EXCEPT ![k] = a]
    /\ job' = [job EXCEPT ![k] = what]
    /\ UNCHANGED <<left, found, rows, check, trouble, elsewhere>>

\* Mutant: a locked vault is not expected either.
ListOrDie(k) ==
    /\ Waits(k, "list")
    /\ Turn(k, IF unlocked THEN "next" ELSE "dead")
    /\ UNCHANGED <<found, rows, check, trouble, elsewhere>>

\* refresh_all begins.  A locked vault is the one failure the scheduler expects.
ListAll(k) ==
    /\ Waits(k, "list")
    /\ IF unlocked
       THEN /\ left' = [left EXCEPT ![k] = {a \in Account : rows[a].table = "complete"}]
            /\ qpc' = [qpc EXCEPT ![k] = "next"]
       ELSE /\ qpc' = [qpc EXCEPT ![k] = "sleep"] /\ UNCHANGED left
    /\ UNCHANGED <<target, job, found, rows, check, trouble, elsewhere>>

CheckNext(k) ==
    /\ Waits(k, "next")
    /\ \/ \E a \in left[k] :
             /\ left' = [left EXCEPT ![k] = @ \ {a}]
             /\ target' = [target EXCEPT ![k] = a]
             /\ qpc' = [qpc EXCEPT ![k] = "lock"]
             /\ UNCHANGED job
       \/ left[k] = {} /\ Stop(k)
    /\ UNCHANGED <<found, rows, check, trouble, elsewhere>>

Wake ==
    /\ Waits(Scheduler, "sleep")
    /\ Turn(Scheduler, "list")
    /\ UNCHANGED <<found, rows, check, trouble, elsewhere>>

(***************************************************************************)
(* One check                                                               *)
(***************************************************************************)
\* Mutant: no lock.
LockAnyway(k) ==
    /\ Waits(k, "lock") /\ Turn(k, "read")
    /\ UNCHANGED <<check, found, rows, trouble, elsewhere>>

LockAccount(k) ==
    /\ Waits(k, "lock") /\ check[target[k]] = None
    /\ check' = [check EXCEPT ![target[k]] = k]
    /\ Turn(k, "read")
    /\ UNCHANGED <<found, rows, trouble, elsewhere>>

\* get_account, then: a missing or unfinished account ends it, one without
\* authentication states cannot be checked.
ReadForCheck(k) ==
    LET row == rows[target[k]] IN
    /\ Waits(k, "read")
    /\ \/ row.table # "complete" /\ Leave(k, Goes(k))
       \/ /\ row.table = "complete" /\ job[k] = "mark"
          /\ Turn(k, "mark") /\ UNCHANGED <<check, found>>
       \/ row.table = "complete" /\ job[k] # "mark" /\ ~row.auth /\ Leave(k, Goes(k))
       \/ /\ row.table = "complete" /\ job[k] # "mark" /\ row.auth
          /\ Turn(k, "page") /\ UNCHANGED <<check, found>>
    /\ UNCHANGED <<rows, trouble, elsewhere>>

\* start_check, and the close that follows it.  A session that has been lost, a
\* challenge or a page that does not load leave nothing to store; a dashboard that
\* could be opened leaves new authentication states.
ReadDashboard(k) ==
    /\ Waits(k, "page")
    /\ \/ Leave(k, Goes(k))
       \/ \E f \in {"active", "exhausted"} :
             found' = [found EXCEPT ![k] = f] /\ Turn(k, "store") /\ UNCHANGED check
       \/ \E f \in {"unsubscribed", "unreadable"} :
             found' = [found EXCEPT ![k] = f] /\ Turn(k, "states") /\ UNCHANGED check
    /\ UNCHANGED <<rows, trouble, elsewhere>>

\* BrowserInitializationError passes through start_check, which expects the errors
\* of Playwright.
DashboardMissing(k) ==
    /\ Waits(k, "page") /\ InstallMayFail /\ Fails
    /\ Leave(k, Raises(k))
    /\ UNCHANGED <<rows, elsewhere>>

\* update_auth_states
StoreStates(k) ==
    LET a == target[k] IN
    /\ Waits(k, "states")
    /\ IF rows[a].table = "complete"
       THEN /\ Vault(a, [rows[a] EXCEPT !.auth = TRUE])
            /\ IF found[k] = "unsubscribed"
               THEN Turn(k, "store") /\ UNCHANGED <<check, found>>
               ELSE Leave(k, Goes(k))
       ELSE Leave(k, Goes(k)) /\ UNCHANGED rows
    /\ UNCHANGED <<trouble, elsewhere>>

\* update_quota or clear_quota
Store(k) ==
    LET a == target[k] IN
    /\ Waits(k, "store") /\ Leave(k, Goes(k))
    /\ IF rows[a].table = "complete" THEN Vault(a, WithQuota(rows[a], found[k]))
                                     ELSE UNCHANGED rows
    /\ UNCHANGED <<trouble, elsewhere>>

\* update_status, for the user who marks an account exhausted
MarkExhausted(k) ==
    LET a == target[k] IN
    /\ Waits(k, "mark") /\ Leave(k, "idle")
    /\ IF rows[a].table = "complete" THEN Vault(a, WithStatus(rows[a], "exhausted"))
                                     ELSE UNCHANGED rows
    /\ UNCHANGED <<trouble, elsewhere>>

CheckStep(k) ==
    \/ ListAll(k) \/ CheckNext(k) \/ LockAccount(k) \/ ReadForCheck(k) \/ ReadDashboard(k)
    \/ DashboardMissing(k) \/ StoreStates(k) \/ Store(k) \/ MarkExhausted(k)
=============================================================================
