--------------------------- MODULE BrowserRuntime ---------------------------
(***************************************************************************)
(* The browsers of the backend: the download of the binary                 *)
(* (browser/initializer.py), the clients that launch one browser each and  *)
(* share it among sessions (browser/cloakbrowser_client.py), and the order *)
(* in which main.py closes their owners.  A session stands for the         *)
(* sessions of one owner, one after the other; pc is the await it is at.   *)
(***************************************************************************)
EXTENDS Naturals

CONSTANTS
    Flow, Mailbox, Removal, Check,  \* sessions, by what they are opened for
    Scheduler,                      \* the session of the scheduler's checks
    None,
    MaxTrouble,                     \* failed downloads and launches, dead browsers
    MaxSweep                        \* accounts that a sweep of the scheduler checks

Session == Flow \cup Mailbox \cup Removal \cup Check \cup {Scheduler}

ASSUME BrowserAssumption ==
    /\ Flow \cap Mailbox = {} /\ (Flow \cup Mailbox) \cap Removal = {}
    /\ (Flow \cup Mailbox \cup Removal) \cap (Check \cup {Scheduler}) = {}
    /\ Scheduler \notin Check /\ None \notin Session
    /\ None \notin Nat \cup {"running", "over", "up", "dead"}
    /\ MaxTrouble \in Nat /\ MaxSweep \in Nat

VARIABLES
    status,    \* BrowserInitializer._status
    task,      \* BrowserInitializer._task: None, "running" or "over"
    downloads, \* threads that download the binary
    late,      \* waiters whose download is not the one in task any more
    browser,   \* _browser of each client: None, "up" or "dead"
    lock,      \* _start_lock of each client: who holds it
    launched,  \* browser processes that run, of each client
    pc,
    stray,     \* contexts that are open and that no session knows
    sweep,     \* accounts the scheduler has still to check; None: its task is dead
    stage,     \* how far the shutdown of the application is
    trouble

installer == <<status, task, downloads, late>>
clients == <<browser, lock, launched>>
vars == <<installer, clients, pc, stray, sweep, stage, trouble>>

Client == {"account", "email", "quota"}
ClientOf(s) == IF s \in Mailbox THEN "email" ELSE IF s \in Check \cup {Scheduler} THEN "quota"
               ELSE "account"

\* Waiting for the lock, for the download, for the launch, for the context, for its
\* permissions and first page; then it is open until it is closed.
Opening == {"lock", "ready", "launch", "context", "prepare"}
Label == Opening \cup {"closed", "open", "closing"}

\* lifespan closes the scheduler (its sweep ends first), the browser of the quota
\* service, the removals, the flows with their mailbox browser, the browser they
\* share with the removals, the download.
Stage == {"serving", "sweep", "quota", "removals", "flows", "reaping", "account",
          "installer", "down"}

\* Mutant: the shared browser is closed before the flows that use it.
BrowserFirst(st) ==
    [serving |-> "sweep", sweep |-> "quota", quota |-> "removals", removals |-> "account",
     account |-> "flows", flows |-> "reaping", reaping |-> "installer",
     installer |-> "down"][st]

After(st) ==
    [serving |-> "sweep", sweep |-> "quota", quota |-> "removals", removals |-> "flows",
     flows |-> "reaping", reaping |-> "account", account |-> "installer",
     installer |-> "down"][st]

TypeOK ==
    /\ status \in {"initializing", "ready", "error"}
    /\ task \in {None, "running", "over"}
    /\ downloads \in Nat
    /\ late \subseteq {s \in Session : pc[s] = "ready"}
    /\ browser \in [Client -> {None, "up", "dead"}]
    /\ lock \in [Client -> Session \cup {None}]
    /\ launched \in [Client -> Nat]
    /\ pc \in [Session -> Label]
    /\ stray \subseteq Session
    /\ sweep \in (0 .. MaxSweep) \cup {None} /\ stage \in Stage
    /\ trouble \in 0 .. MaxTrouble

\* lifespan has started the scheduler and the download.
Init ==
    /\ status = "initializing" /\ task = "running" /\ downloads = 1 /\ late = {}
    /\ browser = [c \in Client |-> None]
    /\ lock = [c \in Client |-> None]
    /\ launched = [c \in Client |-> 0]
    /\ pc = [s \in Session |-> "closed"]
    /\ stray = {} /\ sweep = MaxSweep /\ stage = "serving" /\ trouble = 0

At(s, l) == pc[s] = l
Goto(s, l) == pc' = [pc EXCEPT ![s] = l]
Fails == trouble < MaxTrouble /\ trouble' = trouble + 1

(***************************************************************************)
(* BrowserInitializer                                                      *)
(***************************************************************************)
MustDownload(retry) ==
    /\ status # "ready" /\ task # "running"
    /\ status # "error" \/ retry

\* start(): those who wait for the download before keep waiting for that one.
Start(retry) ==
    IF MustDownload(retry)
    THEN /\ status' = "initializing" /\ task' = "running"
         /\ downloads' = downloads + 1
         /\ late' = {s \in Session : At(s, "ready")}
    ELSE UNCHANGED installer

\* _initialize() ends with its thread.
DownloadEnds ==
    /\ task = "running" /\ task' = "over"
    /\ downloads' = downloads - 1
    /\ \/ status' = "ready" /\ UNCHANGED trouble
       \/ status' = "error" /\ Fails
    /\ UNCHANGED <<late, clients, pc, stray, sweep, stage>>

\* POST /api/browser/initialize
Retry ==
    /\ stage = "serving" /\ Start(TRUE)
    /\ UNCHANGED <<clients, pc, stray, sweep, stage, trouble>>

(***************************************************************************)
(* CloakBrowserSession.page(), called when there is none                   *)
(***************************************************************************)
\* Flows are tasks and go on until service.close() cancels them; removals are
\* requests, which uvicorn has drained when the shutdown begins; checks are requests
\* or part of a sweep.
MayOpen(s) ==
    \/ s \in Flow \cup Mailbox /\ stage \in {"serving", "sweep", "quota", "removals"}
    \/ s \in Removal \cup Check /\ stage = "serving"

Page(s) ==
    /\ At(s, "closed") /\ MayOpen(s) /\ Goto(s, "lock")
    /\ UNCHANGED <<installer, clients, stray, sweep, stage, trouble>>

\* The scheduler goes on to the next account, in a sweep that the shutdown waits for.
CheckNext ==
    /\ At(Scheduler, "closed") /\ stage \in {"serving", "sweep"}
    /\ sweep \notin {0, None} /\ sweep' = sweep - 1
    /\ Goto(Scheduler, "lock")
    /\ UNCHANGED <<installer, clients, stray, stage, trouble>>

NewSweep ==
    /\ sweep = 0 /\ stage = "serving" /\ sweep' = MaxSweep
    /\ UNCHANGED <<installer, clients, pc, stray, stage, trouble>>

\* Mutant: no lock.
EnterAnyway(s) ==
    LET c == ClientOf(s) IN
    /\ At(s, "lock")
    /\ IF browser[c] # None
       THEN Goto(s, "context") /\ UNCHANGED installer
       ELSE Goto(s, "ready") /\ Start(FALSE)
    /\ UNCHANGED <<clients, stray, sweep, stage, trouble>>

\* _ensure_browser takes the lock; without a browser it starts the download, if there
\* is none, and waits for it behind a shield.
Enter(s) ==
    LET c == ClientOf(s) IN
    /\ At(s, "lock") /\ lock[c] = None
    /\ IF browser[c] # None
       THEN Goto(s, "context") /\ UNCHANGED <<installer, lock>>
       ELSE Goto(s, "ready") /\ lock' = [lock EXCEPT ![c] = s] /\ Start(FALSE)
    /\ UNCHANGED <<browser, launched, stray, sweep, stage, trouble>>

\* Mutant: an exception under the lock keeps it.
KeepLock(s) == UNCHANGED lock

Unlock(s) == lock' = [lock EXCEPT ![ClientOf(s)] = None]

\* The download that s waited for is over: whatever the status says by then counts.
\* Nothing expects BrowserInitializationError in a check: it ends the scheduler.
Ready(s) ==
    /\ At(s, "ready") /\ (task # "running" \/ s \in late)
    /\ late' = late \ {s}
    /\ IF status = "ready"
       THEN Goto(s, "launch") /\ UNCHANGED <<lock, sweep>>
       ELSE /\ Goto(s, "closed") /\ Unlock(s)
            /\ sweep' = IF s = Scheduler THEN None ELSE sweep
    /\ UNCHANGED <<status, task, downloads, browser, launched, stray, stage, trouble>>

Launch(s) ==
    LET c == ClientOf(s) IN
    /\ At(s, "launch") /\ Unlock(s)
    /\ \/ /\ browser' = [browser EXCEPT ![c] = "up"]
          /\ launched' = [launched EXCEPT ![c] = @ + 1]
          /\ Goto(s, "context") /\ UNCHANGED trouble
       \/ Fails /\ Goto(s, "closed") /\ UNCHANGED <<browser, launched>>
    /\ UNCHANGED <<installer, stray, sweep, stage>>

\* new_context; a browser that died is still the one in _browser.
NewContext(s) ==
    /\ At(s, "context")
    /\ \/ browser[ClientOf(s)] = "up" /\ Goto(s, "prepare")
       \/ browser[ClientOf(s)] # "up" /\ Goto(s, "closed")
    /\ UNCHANGED <<installer, clients, stray, sweep, stage, trouble>>

\* Permissions and page; what fails there closes the context again.
Prepare(s) ==
    /\ At(s, "prepare")
    /\ \/ browser[ClientOf(s)] = "up" /\ Goto(s, "open") /\ UNCHANGED trouble
       \/ browser[ClientOf(s)] # "up" /\ Goto(s, "closed") /\ UNCHANGED trouble
       \/ Fails /\ Goto(s, "closed")
    /\ UNCHANGED <<installer, clients, stray, sweep, stage>>

\* The owner closes it: in the end, and the removals also in the shutdown.
Close(s) ==
    /\ At(s, "open") /\ Goto(s, "closing")
    /\ UNCHANGED <<installer, clients, stray, sweep, stage, trouble>>

Closed(s) ==
    /\ At(s, "closing") /\ Goto(s, "closed")
    /\ UNCHANGED <<installer, clients, stray, sweep, stage, trouble>>

\* The browser process crashes or the user closes its window.
Die(c) ==
    /\ browser[c] = "up" /\ Fails
    /\ browser' = [browser EXCEPT ![c] = "dead"]
    /\ launched' = [launched EXCEPT ![c] = @ - 1]
    /\ stray' = {s \in stray : ClientOf(s) # c}
    /\ UNCHANGED <<installer, lock, pc, sweep, stage>>

(***************************************************************************)
(* Cancellation: flows are tasks, and so is what they do with a mailbox    *)
(***************************************************************************)
\* _create_page closes its context on Exception, which CancelledError is not; a
\* context that was asked for may be there or not.  launch_async, cancelled, is taken
\* to leave no browser.  A close that is interrupted keeps its context.
Interrupted(S) ==
    /\ pc' = [s \in Session |-> IF s \notin S THEN pc[s]
                                ELSE IF At(s, "closing") THEN "open"
                                ELSE IF pc[s] \in Opening THEN "closed" ELSE pc[s]]
    /\ lock' = [c \in Client |-> IF lock[c] \in S THEN None ELSE lock[c]]
    /\ late' = late \ S
    /\ \E lost \in SUBSET {s \in S : At(s, "context")} :
          stray' = stray \cup {s \in lost \cup {q \in S : At(q, "prepare")} :
                                  browser[ClientOf(s)] = "up"}

Cancel(s) ==
    /\ s \in Flow \cup Mailbox /\ pc[s] \in Opening \cup {"closing"}
    /\ stage \in {"serving", "sweep", "quota", "removals"}
    /\ Interrupted({s})
    /\ UNCHANGED <<status, task, downloads, browser, launched, sweep, stage, trouble>>

(***************************************************************************)
(* The shutdown                                                            *)
(***************************************************************************)
Passes == stage' = After(stage)

\* Mutant: a browser that is not connected is closed once more.
CloseUnseen(c) ==
    /\ browser' = [browser EXCEPT ![c] = None]
    /\ launched' = [launched EXCEPT ![c] = @ - 1]
    /\ stray' = {s \in stray : ClientOf(s) # c}
    /\ UNCHANGED lock

CloseBrowser(c) ==
    /\ browser' = [browser EXCEPT ![c] = None]
    /\ launched' = [launched EXCEPT ![c] = IF browser[c] = "up" THEN @ - 1 ELSE @]
    /\ stray' = {s \in stray : ClientOf(s) # c}
    /\ UNCHANGED lock

\* Uvicorn has answered the requests that were under way; a removal that waits for
\* the user keeps its page.
Stop ==
    /\ stage = "serving" /\ Passes
    /\ \A s \in Removal : pc[s] \in {"closed", "open"}
    /\ \A s \in Check : At(s, "closed")
    /\ UNCHANGED <<installer, clients, pc, stray, sweep, trouble>>

SweepOver ==
    /\ stage = "sweep" /\ Passes
    /\ sweep \in {0, None} /\ At(Scheduler, "closed")
    /\ UNCHANGED <<installer, clients, pc, stray, sweep, trouble>>

CloseQuota ==
    /\ stage = "quota" /\ Passes /\ CloseBrowser("quota")
    /\ UNCHANGED <<installer, pc, sweep, trouble>>

RemovalsClosed ==
    /\ stage = "removals" /\ Passes
    /\ \A s \in Removal : At(s, "closed")
    /\ UNCHANGED <<installer, clients, pc, stray, sweep, trouble>>

CancelFlows ==
    /\ stage = "flows" /\ Passes
    /\ Interrupted(Flow \cup Mailbox)
    /\ UNCHANGED <<status, task, downloads, browser, launched, sweep, trouble>>

\* A flow that was already over when its task was cancelled leaves its page open.
CloseFlows ==
    /\ stage = "reaping" /\ Passes
    /\ \A s \in Flow \cup Mailbox : pc[s] \in {"closed", "open"}
    /\ CloseBrowser("email")
    /\ UNCHANGED <<installer, pc, sweep, trouble>>

CloseAccount ==
    /\ stage = "account" /\ Passes /\ CloseBrowser("account")
    /\ UNCHANGED <<installer, pc, sweep, trouble>>

\* The download is cancelled; its thread is not.
CloseInstaller ==
    /\ stage = "installer" /\ Passes
    /\ task' = None
    /\ UNCHANGED <<status, downloads, late, clients, pc, stray, sweep, trouble>>

Down == stage = "down" /\ UNCHANGED vars

Shutdown ==
    \/ SweepOver \/ CloseQuota \/ RemovalsClosed \/ CancelFlows \/ CloseFlows
    \/ CloseAccount \/ CloseInstaller

Work(s) ==
    \/ Enter(s) \/ Ready(s) \/ Launch(s) \/ NewContext(s) \/ Prepare(s) \/ Closed(s)

Next ==
    \/ DownloadEnds \/ Retry \/ CheckNext \/ NewSweep
    \/ \E s \in Session : Page(s) \/ Work(s) \/ Close(s) \/ Cancel(s)
    \/ \E c \in Client : Die(c)
    \/ Stop \/ Shutdown \/ Down

Spec == Init /\ [][Next]_vars

(***************************************************************************)
(* Fairness: a download ends, somehow; the event loop runs what can go on, *)
(* and an asyncio.Lock serves its waiters in turn; a check closes its page *)
(* (its waits have deadlines), and the shutdown that of a removal.         *)
(***************************************************************************)
FairSpec ==
    /\ Spec
    /\ WF_vars(DownloadEnds) /\ WF_vars(CheckNext) /\ WF_vars(Shutdown)
    /\ \A s \in Session : WF_vars(Work(s)) /\ SF_vars(Enter(s))
    /\ \A s \in Check \cup {Scheduler} : WF_vars(Close(s))
    /\ \A s \in Removal : WF_vars(stage = "removals" /\ Close(s))
=============================================================================
