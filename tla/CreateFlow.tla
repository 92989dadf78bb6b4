----------------------------- MODULE CreateFlow -----------------------------
(***************************************************************************)
(* The coroutines of one account-creation flow (backend/engine/flow.py) as *)
(* asyncio runs them: start(), resume(), fail() and the cleanup tail they  *)
(* share with cancel().  A step of a process runs from the await it is     *)
(* parked at (pc) to its next await; nothing else runs in between.  What   *)
(* an await yields (a browser page, the mailbox, a database thread) is     *)
(* chosen freely among the outcomes that code can produce.                 *)
(***************************************************************************)
EXTENDS FlowSession, Naturals

CONSTANTS
    Requests,             \* API calls a client makes on the flow
    Create,               \* the operation started by create()
    MaxUsernameAttempts,  \* MAX_GITHUB_USERNAME_ATTEMPTS
    ScreenshotsEnabled,   \* the user turned masked screenshots on
    CleanupMayFail        \* closing the browser or deleting screenshots may fail

ASSUME FlowAssumption ==
    /\ Create \notin Requests
    /\ Nothing \notin Requests \cup {Create}
    /\ MaxUsernameAttempts \in Nat \ {0}
    /\ ScreenshotsEnabled \in BOOLEAN
    /\ CleanupMayFail \in BOOLEAN

\* An operation is an asyncio task running start() or resume(); it is named by
\* the request that asked for it, and so is the timeout task it leaves behind.
Tasks == Requests \cup {Create}
Op(t) == <<"op", t>>
Timer(t) == <<"timer", t>>
Request(r) == <<"request", r>>
Closer == <<"closer", Create>>
Processes == ({"op", "timer"} \X Tasks) \cup ({"request"} \X Requests) \cup {Closer}

VARIABLES
    flow,        \* the CreateAccountFlow object, a record of FlowSession
    pc,          \* the await each process is parked at
    onExit,      \* what a process does once its cleanup tail ends
    slot,        \* the flow's entry in _manual_timeout_tasks
    attempt,     \* user names tried by the registration loop of an operation
    contexts,    \* live browser contexts: of the mailbox, of the account, orphans
    shots,       \* a screenshot of the flow is on disk
    row,         \* the flow's account in the vault
    completion,  \* the shielded account-completion task of an operation
    stray        \* thread jobs whose awaiting coroutine was cancelled

control == <<flow, pc, onExit, slot>>
world == <<attempt, contexts, shots, row, completion, stray>>
flowVars == <<flow, pc, onExit, slot, world>>

Ended == {"absent", "done", "crashed"}
GithubAwait == {"register", "submit_code", "inspect_github"}
OpenCodeAwait == {"login", "fetch", "submit_key"}
Browsing == GithubAwait \cup OpenCodeAwait \cup {"capture"}
ThreadJob == {"resume_clear", "save_shot", "persist", "save_auth", "mark_payment",
              "fail_mark", "clear"}
Tail == {"fail_mark", "dispose", "close", "clear"}
OpAwait == {"begin", "email", "email_cancelled", "email_dispose", "code",
            "complete", "complete_cancelled"} \cup Browsing \cup ThreadJob \cup Tail
TimerAwait == {"sleep"} \cup Tail
OwnerAwait == {"idle", "reap_timer", "reap_task", "reap_pause", "cancel_mark"}
                \cup (Tail \ {"fail_mark"})
Answer == {"accepted", "refused", "busy", "failed"}
Context == {"mailbox", "account", "orphan"}
Completion == {"none", "running", "committed", "failed"}

Location == Ended \cup OpAwait \cup TimerAwait \cup OwnerAwait \cup Answer \cup {"browsers"}
Exit == {"return", "cancelled", "handler", "answer", "shutdown"}

ControlOK ==
    /\ flow \in Flow
    /\ pc \in [Processes -> Location]
    /\ onExit \in [Processes -> Exit]
    /\ slot \in Tasks \cup {Nothing}

WorldOK ==
    /\ attempt \in [Tasks -> 0 .. MaxUsernameAttempts]
    /\ contexts \subseteq Context
    /\ shots \in BOOLEAN
    /\ row \in Row
    /\ completion \in [Tasks -> Completion]
    /\ stray \subseteq ThreadJob

FlowTypeOK == ControlOK /\ WorldOK

\* create(): the task of start() is scheduled and has not run yet.
FlowInit ==
    /\ flow = FreshFlow
    /\ pc = [p \in Processes |->
                IF p = Op(Create) THEN "begin"
                ELSE IF p = Closer \/ p[1] = "request" THEN "idle" ELSE "absent"]
    /\ onExit = [p \in Processes |->
                    CASE p[1] = "op"      -> "return"
                      [] p[1] = "timer"   -> "handler"
                      [] p[1] = "request" -> "answer"
                      [] p[1] = "closer"  -> "shutdown"]
    /\ slot = Nothing
    /\ attempt = [t \in Tasks |-> 0]
    /\ contexts = {}
    /\ shots = FALSE
    /\ row = "absent"
    /\ completion = [t \in Tasks |-> "none"]
    /\ stray = {}

Running(p) == pc[p] \notin Ended
At(p, l) == pc[p] = l

(***************************************************************************)
(* Where a step of a process leads.                                        *)
(***************************************************************************)
Goto(p, l, f) ==
    /\ flow' = f
    /\ pc' = [pc EXCEPT ![p] = l]
    /\ UNCHANGED <<onExit, slot>>

\* Mutant: only a blocked page is timed, not a payment.
ReturnUntimed(t, f) ==
    LET timed == f.status = "manual_verify"
    IN  /\ flow' = f
        /\ pc' = IF timed THEN [pc EXCEPT ![Op(t)] = "done", ![Timer(t)] = "sleep"]
                          ELSE [pc EXCEPT ![Op(t)] = "done"]
        /\ slot' = IF timed THEN t ELSE slot
        /\ UNCHANGED onExit

\* _run after a normal return, with _schedule_manual_timeout: a flow left with a
\* manual intervention gets a timeout task unless one is still running.
Return(t, f) ==
    LET timed == f.manual # Nothing
                   /\ (slot = Nothing \/ ~Running(Timer(slot)))
    IN  /\ flow' = f
        /\ pc' = IF timed THEN [pc EXCEPT ![Op(t)] = "done", ![Timer(t)] = "sleep"]
                          ELSE [pc EXCEPT ![Op(t)] = "done"]
        /\ slot' = IF timed THEN t ELSE slot
        /\ UNCHANGED onExit

\* An exception leaves the cleanup of a flow that has already ended: _run drops
\* it, unless it leaves _run's own handler or the timeout task.
ThrownTo(exit) ==
    CASE exit \in {"return", "cancelled"}  -> "done"
      [] exit \in {"handler", "shutdown"}  -> "crashed"
      [] exit = "answer"                   -> "failed"

\* Mutant: the mailbox is forgotten.
ReleaseBrowserOnly(f) == "close"

\* The first await of the releases: a flow without an address has no mailbox.
FirstRelease(f) == IF f.email THEN "dispose" ELSE "close"

FailNow(p, f, exit) ==
    /\ IF CanGo(f.status, "error")
         THEN /\ flow' = Go(Wiped(f), "error")
              /\ pc' = [pc EXCEPT ![p] = FirstRelease(f)]
         ELSE /\ flow' = Wiped(f)
              /\ pc' = [pc EXCEPT ![p] = ThrownTo(exit)]
    /\ onExit' = [onExit EXCEPT ![p] = exit]
    /\ UNCHANGED slot

\* _fail_and_cleanup up to its first await
Fail(p, f, exit) ==
    LET g == [f EXCEPT !.pauseRequested = FALSE]
    IN  IF g.account
          THEN /\ flow' = g
               /\ pc' = [pc EXCEPT ![p] = "fail_mark"]
               /\ onExit' = [onExit EXCEPT ![p] = exit]
               /\ UNCHANGED slot
          ELSE FailNow(p, g, exit)

\* An exception leaves an operation: _run fails the flow unless it has ended.
Raise(t, f) ==
    IF f.status \in Terminal THEN Goto(Op(t), "done", f)
                             ELSE Fail(Op(t), f, "handler")

\* _transition, then the next await l or the operation's return.
Move(t, f, s, l) ==
    IF CanGo(f.status, s) THEN Goto(Op(t), l, Go(f, s)) ELSE Raise(t, f)

ReturnAt(t, f, s) ==
    IF CanGo(f.status, s) THEN Return(t, Go(f, s)) ELSE Raise(t, f)

Pause(t, f, resumeStatus) == ReturnAt(t, PausedAt(f, resumeStatus), "manual_verify")

NeedHuman(t, f) ==
    IF f.status = "manual_verify" THEN Return(t, f)
                                  ELSE ReturnAt(t, f, "manual_verify")

AwaitCode(t, f) ==
    LET waiting == [f EXCEPT !.waitingForCode = TRUE]
    IN  IF f.status = "github_email_verify"
          THEN Goto(Op(t), "code", waiting)
          ELSE IF CanGo(f.status, "github_email_verify")
                 THEN Goto(Op(t), "code", Go(waiting, "github_email_verify"))
                 ELSE Raise(t, f)

(***************************************************************************)
(* start()                                                                 *)
(***************************************************************************)
Start(t) ==
    /\ At(Op(t), "begin")
    /\ IF t = Create THEN Move(t, flow, "creating_email", "email")
                     ELSE Goto(Op(t), "resume_clear", flow)
    /\ UNCHANGED world

\* A pause requested meanwhile stops the flow before the registration.
EmailCreated(t) ==
    LET f == [flow EXCEPT !.email = TRUE]
    IN  /\ At(Op(t), "email")
        /\ IF f.pauseRequested THEN Pause(t, f, "github_register")
                               ELSE Move(t, f, "github_register", "register")
        /\ contexts' = contexts \cup {"mailbox"}
        /\ attempt' = [attempt EXCEPT ![t] = 1]
        /\ UNCHANGED <<shots, row, completion, stray>>

\* CreateEmailStep reports a provider's failure; a cancelled step, or a browser
\* that does not start, raises.
EmailFailed(t) ==
    /\ \/ At(Op(t), "email") /\ \E exit \in {"return", "handler"} : Fail(Op(t), flow, exit)
       \/ At(Op(t), "email_cancelled") /\ Raise(t, flow)
    /\ UNCHANGED world

\* The creation was shielded from the cancellation: its mailbox is given back.
EmailCreatedInVain(t) ==
    /\ At(Op(t), "email_cancelled")
    /\ Goto(Op(t), "email_dispose", flow)
    /\ contexts' = contexts \cup {"mailbox"}
    /\ UNCHANGED <<attempt, shots, row, completion, stray>>

EmailDisposedInVain(t) ==
    /\ At(Op(t), "email_dispose")
    /\ Goto(Op(t), "done", flow)
    /\ contexts' = contexts \ {"mailbox"}
    /\ UNCHANGED <<attempt, shots, row, completion, stray>>

(***************************************************************************)
(* The GitHub pages.  page() opens the account's browser context if there  *)
(* is none; only a page that fails may leave it unopened.                  *)
(***************************************************************************)
Opened == contexts' = contexts \cup {"account"}
MaybeOpened == contexts' \in {contexts, contexts \cup {"account"}}

\* Mutants: one try too many; no bound on the tries.
UsernameTakenOnceMore(t) ==
    /\ At(Op(t), "register")
    /\ IF attempt[t] <= MaxUsernameAttempts
         THEN attempt' = [attempt EXCEPT ![t] = @ + 1] /\ UNCHANGED control
         ELSE Fail(Op(t), flow, "return") /\ UNCHANGED attempt
    /\ Opened
    /\ UNCHANGED <<shots, row, completion, stray>>

UsernameRetriedForever(t) ==
    /\ At(Op(t), "register")
    /\ attempt' = [attempt EXCEPT ![t] = (@ % MaxUsernameAttempts) + 1]
    /\ Opened
    /\ UNCHANGED <<control, shots, row, completion, stray>>

\* GITHUB_USERNAME_UNAVAILABLE: try another name, five times in all.
UsernameTaken(t) ==
    /\ At(Op(t), "register")
    /\ IF attempt[t] < MaxUsernameAttempts
         THEN /\ attempt' = [attempt EXCEPT ![t] = @ + 1]
              /\ UNCHANGED control
         ELSE /\ Fail(Op(t), flow, "return")
              /\ UNCHANGED attempt
    /\ Opened
    /\ UNCHANGED <<shots, row, completion, stray>>

\* _handle_github_result: MANUAL_REQUIRED
GithubBlocked(t) ==
    LET f == Blocked([flow EXCEPT !.pauseRequested = FALSE], "blocked")
    IN  /\ \E l \in GithubAwait : At(Op(t), l)
        /\ IF ScreenshotsEnabled THEN Goto(Op(t), "capture", f) ELSE NeedHuman(t, f)
        /\ Opened
        /\ UNCHANGED <<attempt, shots, row, completion, stray>>

\* EMAIL_CODE_REQUIRED: the pause point before the wait for the code
GithubAsksCode(t) ==
    LET f == Unblocked(flow)
    IN  /\ \E l \in GithubAwait : At(Op(t), l)
        /\ IF f.pauseRequested THEN Pause(t, f, "github_email_verify")
                               ELSE AwaitCode(t, f)
        /\ Opened
        /\ UNCHANGED <<attempt, shots, row, completion, stray>>

\* COMPLETED: the credentials are persisted before anything else, which takes
\* the generated password.
GithubCompleted(t) ==
    LET f == [Remember(Unblocked(flow), {"auth"}) EXCEPT !.pauseRequested = FALSE]
    IN  /\ \E l \in GithubAwait : At(Op(t), l)
        /\ IF f.account                       THEN Move(t, f, "opencode_login", "login")
           ELSE IF "password" \in f.secrets   THEN Goto(Op(t), "persist", f)
           ELSE Fail(Op(t), f, "return")
        /\ Opened
        /\ UNCHANGED <<attempt, shots, row, completion, stray>>

\* ERROR, or an exception out of the browser
GithubFailed(t) ==
    /\ \E l \in GithubAwait : At(Op(t), l)
    /\ Fail(Op(t), Unblocked(flow), "return") \/ Raise(t, flow)
    /\ MaybeOpened
    /\ UNCHANGED <<attempt, shots, row, completion, stray>>

\* _capture_manual_screenshot: the picture, then the file
ScreenshotTaken(t) ==
    /\ At(Op(t), "capture")
    /\ Goto(Op(t), "save_shot", flow) \/ NeedHuman(t, flow)
    /\ UNCHANGED world

ScreenshotSaved(t) ==
    /\ At(Op(t), "save_shot")
    /\ NeedHuman(t, flow)
    /\ shots' \in {shots, TRUE}
    /\ UNCHANGED <<attempt, contexts, row, completion, stray>>

\* _verify_email: the only wait a pause may interrupt
CodeArrived(t) ==
    /\ At(Op(t), "code")
    /\ Goto(Op(t), "submit_code", [flow EXCEPT !.waitingForCode = FALSE])
    /\ UNCHANGED world

CodeMissing(t) ==
    LET f == [flow EXCEPT !.waitingForCode = FALSE]
    IN  /\ At(Op(t), "code")
        /\ Fail(Op(t), f, "return") \/ Raise(t, f)
        /\ UNCHANGED world

\* persist_pending adds the account's pending row, unless the vault refuses.
CredentialsPersisted(t) ==
    /\ At(Op(t), "persist")
    /\ row = "absent"
    /\ row' = "pending_setup"
    /\ Move(t, [flow EXCEPT !.account = TRUE], "opencode_login", "login")
    /\ UNCHANGED <<attempt, contexts, shots, completion, stray>>

CredentialsRefused(t) ==
    /\ At(Op(t), "persist")
    /\ Fail(Op(t), flow, "return")
    /\ UNCHANGED world

(***************************************************************************)
(* The OpenCode pages                                                      *)
(***************************************************************************)
\* PAYMENT_REQUIRED after a login: save the authentication states first.
PaymentRequired(t) ==
    /\ At(Op(t), "login")
    /\ Goto(Op(t), "save_auth", Remember(flow, {"auth"}))
    /\ Opened
    /\ UNCHANGED <<attempt, shots, row, completion, stray>>

AuthSaved(t) ==
    /\ At(Op(t), "save_auth")
    /\ Goto(Op(t), "mark_payment", flow) \/ Fail(Op(t), flow, "return")
    /\ UNCHANGED world

\* Mutant: the row is written whatever has become of it.
MarkedAlways(status) == IF row = "absent" THEN row ELSE status

\* _mark_pending_status: an update of the pending row, if there still is one.
\* The vault's refusals are swallowed.
Marked(status) == IF row \in PendingRow THEN status ELSE row

PaymentMarked(t) ==
    /\ At(Op(t), "mark_payment")
    /\ ReturnAt(t, [flow EXCEPT !.manual = "payment"], "pending_payment")
    /\ row' \in {row, Marked("pending_payment")}
    /\ UNCHANGED <<attempt, contexts, shots, completion, stray>>

\* MANUAL_REQUIRED at any page, API_KEY_INPUT_REQUIRED when the key is fetched
OpenCodeBlocked(t) ==
    /\ \/ At(Op(t), "login") /\ NeedHuman(t, Blocked(flow, "blocked"))
       \/ At(Op(t), "fetch") /\ \E reason \in {"blocked", "api_key_input"} :
                                    NeedHuman(t, Blocked(flow, reason))
    /\ Opened
    /\ UNCHANGED <<attempt, shots, row, completion, stray>>

\* COMPLETED: the completion task starts, shielded; it needs the password too.
ApiKeyObtained(t) ==
    LET f == Restored(Remember(flow, {"auth", "api_key"}), "fetch_api_key")
    IN  /\ \E l \in {"fetch", "submit_key"} : At(Op(t), l)
        /\ IF "password" \in f.secrets
             THEN /\ Goto(Op(t), "complete", f)
                  /\ completion' = [completion EXCEPT ![t] = "running"]
             ELSE /\ Fail(Op(t), f, "return")
                  /\ UNCHANGED completion
        /\ Opened
        /\ UNCHANGED <<attempt, shots, row, stray>>

\* ERROR, or an exception out of the browser.  A key that reached the flow has
\* passed the API's check of the same pattern: submit_api_key can only raise.
OpenCodeFailed(t) ==
    /\ \/ \E l \in {"login", "fetch"} : At(Op(t), l) /\ Fail(Op(t), flow, "return")
       \/ \E l \in OpenCodeAwait : At(Op(t), l) /\ Raise(t, flow)
    /\ MaybeOpened
    /\ UNCHANGED <<attempt, shots, row, completion, stray>>

(***************************************************************************)
(* Completion: its own task, which no cancellation of the flow reaches     *)
(* while it is shielded, and whose commit no cancellation undoes.          *)
(***************************************************************************)
CompletionCommits(t) ==
    /\ completion[t] = "running"
    /\ row \in PendingRow
    /\ row' = "complete"
    /\ completion' = [completion EXCEPT ![t] = "committed"]
    /\ UNCHANGED <<control, attempt, contexts, shots, stray>>

CompletionFails(t) ==
    /\ completion[t] = "running"
    /\ completion' = [completion EXCEPT ![t] = "failed"]
    /\ UNCHANGED <<control, attempt, contexts, shots, row, stray>>

\* _finish_completed_account up to its first await
Finish(t, exit) ==
    IF CanGo(flow.status, "done")
      THEN /\ flow' = Go(Wiped(flow), "done")
           /\ pc' = [pc EXCEPT ![Op(t)] = FirstRelease(flow)]
           /\ onExit' = [onExit EXCEPT ![Op(t)] = exit]
           /\ UNCHANGED slot
      ELSE Raise(t, Wiped(flow))

\* Mutant: a failed completion is taken for a committed one.
CompletionTrusted(t) ==
    /\ \E exit \in {"return", "cancelled"} :
        /\ At(Op(t), IF exit = "return" THEN "complete" ELSE "complete_cancelled")
        /\ completion[t] \in {"committed", "failed"}
        /\ Finish(t, exit)
    /\ UNCHANGED world

CompletionAwaited(t) ==
    /\ \E exit \in {"return", "cancelled"} :
        /\ At(Op(t), IF exit = "return" THEN "complete" ELSE "complete_cancelled")
        /\ \/ completion[t] = "committed" /\ Finish(t, exit)
           \/ completion[t] = "failed" /\ Fail(Op(t), flow, exit)
    /\ UNCHANGED world

(***************************************************************************)
(* The cleanup tail of _fail_and_cleanup, _finish_completed_account and    *)
(* cancel(), in whatever process runs it                                   *)
(***************************************************************************)
FailMarked(p) ==
    /\ At(p, "fail_mark")
    /\ FailNow(p, flow, onExit[p])
    /\ row' \in {row, Marked("pending_setup")}
    /\ UNCHANGED <<attempt, contexts, shots, completion, stray>>

MailboxDisposed(p) ==
    /\ At(p, "dispose")
    /\ Goto(p, "close", flow)
    /\ contexts' = contexts \ {"mailbox"}
    /\ UNCHANGED <<attempt, shots, row, completion, stray>>

BrowserClosed(p) ==
    /\ At(p, "close")
    /\ Goto(p, "clear", flow)
    /\ contexts' = contexts \ {"account"}
    /\ UNCHANGED <<attempt, shots, row, completion, stray>>

BrowserCloseFails(p) ==
    /\ At(p, "close")
    /\ CleanupMayFail
    /\ Goto(p, ThrownTo(onExit[p]), flow)
    /\ UNCHANGED world

ReturnedTo(exit) ==
    CASE exit \in {"cancelled", "handler"} -> "done"
      [] exit = "answer"                   -> "accepted"
      [] exit = "shutdown"                 -> "browsers"

Cleared(p) ==
    /\ At(p, "clear")
    /\ IF onExit[p] = "return" THEN Return(p[2], flow)
                               ELSE Goto(p, ReturnedTo(onExit[p]), flow)
    /\ shots' \in {FALSE, shots /\ CleanupMayFail}
    /\ UNCHANGED <<attempt, contexts, row, completion, stray>>

TailStep(p) ==
    \/ MailboxDisposed(p)
    \/ BrowserClosed(p)
    \/ BrowserCloseFails(p)
    \/ Cleared(p)

(***************************************************************************)
(* resume(), once the old screenshots are deleted.  A request that does    *)
(* not fit the flow's state raises inside the operation.                   *)
(***************************************************************************)
ResumePoint(s) ==
    CASE s = "github_register"     -> "register"
      [] s = "github_email_verify" -> "code"
      [] s = "opencode_login"      -> "login"

ResumePause(t) ==
    LET s == flow.pausedFrom
    IN  IF s \in {"github_register", "github_email_verify", "opencode_login"}
          THEN Move(t, [Unblocked(flow) EXCEPT
                           !.waitingForCode = (s = "github_email_verify")],
                    s, ResumePoint(s))
          ELSE Fail(Op(t), flow, "return")

ResumeBlocked(t) ==
    IF flow.pausedFrom = "opencode_login"
      THEN Goto(Op(t), "login", Restored(flow, "opencode_login"))
      ELSE IF flow.pausedFrom = "fetch_api_key"
             THEN Goto(Op(t), "fetch", Restored(flow, "fetch_api_key"))
             ELSE Goto(Op(t), "inspect_github", flow)

Resume(t, withKey) ==
    /\ At(Op(t), "resume_clear")
    /\ \/ /\ flow.status = "pending_payment" /\ ~withKey
          /\ Move(t, [flow EXCEPT !.manual = Nothing], "fetch_api_key", "fetch")
       \/ /\ flow.status = "manual_verify" /\ flow.manual = "user_paused"
          /\ ResumePause(t)
       \/ /\ flow.status = "manual_verify" /\ flow.manual = "api_key_input" /\ withKey
          /\ Goto(Op(t), "submit_key", flow)
       \/ /\ flow.status = "manual_verify"
          /\ flow.manual \notin {"user_paused", "api_key_input"} /\ ~withKey
          /\ ResumeBlocked(t)
       \/ /\ \/ flow.status \notin Resumable
             \/ flow.status = "pending_payment" /\ withKey
             \/ /\ flow.status = "manual_verify" /\ flow.manual # "user_paused"
                /\ withKey # (flow.manual = "api_key_input")
          /\ Raise(t, flow)
    /\ attempt' = [attempt EXCEPT ![t] = 1]
    /\ shots' \in {FALSE, shots /\ CleanupMayFail}
    /\ UNCHANGED <<contexts, row, completion, stray>>

(***************************************************************************)
(* _expire_manual: fail() from the timeout task                            *)
(***************************************************************************)
\* Mutant: a payment is not waited for, but does not time out either.
ExpireManualOnly(t) ==
    /\ At(Timer(t), "sleep")
    /\ IF flow.status = "manual_verify" THEN Fail(Timer(t), flow, "handler")
                                        ELSE Goto(Timer(t), "done", flow)
    /\ UNCHANGED world

Expire(t) ==
    /\ At(Timer(t), "sleep")
    /\ IF flow.manual # Nothing THEN Fail(Timer(t), flow, "handler")
                                ELSE Goto(Timer(t), "done", flow)
    /\ UNCHANGED world

(***************************************************************************)
(* Task.cancel() on the processes P: CancelledError at their await.  A     *)
(* thread's job goes on without its awaiter.  A browser call may be cut    *)
(* anywhere: one that was opening a context may leave it open, or leave it *)
(* to nobody (_create_page closes it on Exception only); a mailbox         *)
(* forgets its address before its context is closed.                       *)
(***************************************************************************)
\* Mutants: the completion is not shielded; the wait for the code swallows the
\* cancellation.
InterruptedUnshielded(p) ==
    IF At(p, "email") THEN "email_cancelled" ELSE IF Running(p) THEN "done" ELSE pc[p]

InterruptedInVain(p) ==
    CASE At(p, "email")    -> "email_cancelled"
      [] At(p, "complete") -> "complete_cancelled"
      [] At(p, "code")     -> "code"
      [] OTHER             -> IF Running(p) THEN "done" ELSE pc[p]

Interrupted(p) ==
    CASE At(p, "email")    -> "email_cancelled"
      [] At(p, "complete") -> "complete_cancelled"
      [] OTHER             -> IF Running(p) THEN "done" ELSE pc[p]

InterruptedAt(P, L) == \E p \in P : pc[p] \in L

Torn(P) ==
    LET disposing == InterruptedAt(P, {"dispose", "email_dispose"})
        opening == InterruptedAt(P, Browsing) /\ "account" \notin contexts
    IN  { c \in SUBSET Context :
            /\ ("mailbox" \in c) = ("mailbox" \in contexts /\ ~disposing)
            /\ "account" \in c \ contexts => opening
            /\ "account" \in contexts \ c => InterruptedAt(P, {"close"})
            /\ "orphan" \in contexts => "orphan" \in c
            /\ "orphan" \in c \ contexts =>
                  \/ opening /\ "account" \notin c
                  \/ InterruptedAt(P, {"email_cancelled"})
                  \/ disposing /\ "mailbox" \in contexts }

Interrupt(P, f) ==
    /\ flow' = [f EXCEPT !.waitingForCode = @ /\ ~InterruptedAt(P, {"code"})]
    /\ stray' = stray \cup ({pc[p] : p \in P} \cap ThreadJob)
    /\ contexts' \in Torn(P)
    /\ UNCHANGED <<onExit, attempt, shots, row, completion>>

\* A stray job ends, with or without its effect.
Land(job) ==
    /\ job \in stray
    /\ stray' = stray \ {job}
    /\ row' \in {row, CASE job = "persist"      -> IF row = "absent" THEN "pending_setup"
                                                  ELSE row
                       [] job = "mark_payment" -> Marked("pending_payment")
                       [] job = "fail_mark"    -> Marked("pending_setup")
                       [] OTHER                -> row}
    /\ shots' \in {shots, CASE job = "save_shot"                -> TRUE
                           [] job \in {"resume_clear", "clear"} -> FALSE
                           [] OTHER                             -> shots}
    /\ UNCHANGED <<control, attempt, contexts, completion>>

OpStep(t) ==
    \/ Start(t)
    \/ EmailCreated(t) \/ EmailFailed(t)
    \/ EmailCreatedInVain(t) \/ EmailDisposedInVain(t)
    \/ UsernameTaken(t) \/ GithubBlocked(t) \/ GithubAsksCode(t)
    \/ GithubCompleted(t) \/ GithubFailed(t)
    \/ ScreenshotTaken(t) \/ ScreenshotSaved(t)
    \/ CodeArrived(t) \/ CodeMissing(t)
    \/ CredentialsPersisted(t) \/ CredentialsRefused(t)
    \/ PaymentRequired(t) \/ AuthSaved(t) \/ PaymentMarked(t)
    \/ OpenCodeBlocked(t) \/ ApiKeyObtained(t) \/ OpenCodeFailed(t)
    \/ CompletionAwaited(t)
    \/ FailMarked(Op(t)) \/ TailStep(Op(t))

TimerStep(t) == Expire(t) \/ FailMarked(Timer(t)) \/ TailStep(Timer(t))

CompletionStep(t) == CompletionCommits(t) \/ CompletionFails(t)
=============================================================================
