-------------------------- MODULE SerialFlowProofs --------------------------
(***************************************************************************)
(* Proofs, for any number of requests sent one after the other, that an    *)
(* account-creation flow has one operation at a time, that it forgets its  *)
(* secrets when it ends, that a stored account is reported, that a timeout *)
(* spares a flow at work, and that the flow implements FlowLifecycle; then *)
(* what the flow leaves when nobody is at work on it: a timeout while it   *)
(* waits for a human, and no browser context once it is over and its       *)
(* releases do not fail.                                                   *)
(*                                                                         *)
(* The argument: SerialInv says what each process may rely on at its       *)
(* await.  An operation excludes timeouts and other operations, so its     *)
(* steps are shown to leave everything else alone and to arrive at an      *)
(* await that fits the flow (Led, Accounted); a step of anybody else is    *)
(* made while no operation runs (Quiet), or leaves the flow's status and   *)
(* secrets as they are (Aside, CutInv).                                    *)
(*                                                                         *)
(* HumanInv says who attends to a waiting flow while an operation has left *)
(* it and no timeout runs yet, or one is being reaped.  CleanInv says who  *)
(* is still to release the contexts of a flow that is over, or which       *)
(* cancel broke the releases off.  Both rest on SerialInv: an operation is *)
(* followed to an await that fits the flow (Tended, Cleaned), everybody    *)
(* else moves alone or interrupts (AloneBox, ReapBox).                     *)
(***************************************************************************)
EXTENDS FlowProofs

(***************************************************************************)
(* The inductive invariant                                                 *)
(***************************************************************************)
\* No operation drives the flow.
NoOp == \A t \in Tasks : ~Running(Op(t))

Release == {"dispose", "close", "clear"}
Completing == {"complete", "complete_cancelled"}

\* Only the operation in _tasks runs.
OneInv == \A t \in Tasks : Running(Op(t)) => t = current

\* One request at a time, and none once the service shuts down.
AskInv ==
    /\ \A q, r \in Requests : Unanswered(q) /\ Unanswered(r) => q = r
    /\ ~At(Closer, "idle") => \A r \in Requests : ~Unanswered(r)
    /\ pc[Closer] \notin {"idle", "reap_task"} => NoOp

\* A timeout that runs is the one in _manual_timeout_tasks, or is being reaped; no
\* operation runs beside it.
TimerInv ==
    \A u \in Tasks : Running(Timer(u)) =>
        /\ NoOp
        /\ \/ slot = u
           \/ \E r \in Requests : At(Request(r), "reap_timer") /\ target[r] = Timer(u)

\* What a request relies on at its await.
RequestInv ==
    \A r \in Requests :
        /\ pc[Request(r)] \in {"reap_timer", "cancel_mark"} \cup Release => NoOp
        /\ At(Request(r), "reap_timer") => slot = Nothing
        /\ pc[Request(r)] \in {"reap_task", "reap_pause"} => target[r] = Op(current)

ExitInv ==
    /\ \A t \in Tasks : /\ onExit[Op(t)] \in {"return", "cancelled", "handler"}
                        /\ onExit[Timer(t)] = "handler"
    /\ \A r \in Requests : onExit[Request(r)] = "answer"
    /\ onExit[Closer] = "shutdown"

\* What the operation relies on at its await.
WorkInv ==
    \A t \in Tasks :
        /\ Running(Op(t)) /\ pc[Op(t)] \notin Release => ~Over
        /\ pc[Op(t)] \in Completing \cup {"fetch"} => flow.status = "fetch_api_key"
        /\ At(Op(t), "submit_key") => flow.status = "manual_verify"
        /\ At(Op(t), "complete_cancelled") =>
              At(Closer, "reap_task") \/ \E r \in Requests : At(Request(r), "reap_task")
        /\ completion[t] = "running" => pc[Op(t)] \in Completing

\* A stored account that is not reported yet has the operation that will report it.
StoreInv ==
    row = "complete" =>
        \/ flow.status = "done"
        \/ \E t \in Tasks : pc[Op(t)] \in Completing /\ completion[t] = "committed"

SerialInv ==
    OneInv /\ AskInv /\ TimerInv /\ RequestInv /\ ExitInv /\ WorkInv /\ StoreInv /\ SecretsWiped
(***************************************************************************)
(* The steps of an operation                                               *)
(***************************************************************************)
OpExit == {"return", "cancelled", "handler"}

\* Processes are told apart by their names.
LEMMA Apart ==
    /\ \A t, u \in Tasks : /\ Op(t) # Timer(u)
                           /\ Op(t) = Op(u) => t = u
                           /\ Timer(t) = Timer(u) => t = u
    /\ \A t \in Tasks : Op(t)[2] = t /\ Op(t) # Closer /\ Timer(t) # Closer
    /\ \A t \in Tasks, r \in Requests : Request(r) # Op(t) /\ Request(r) # Timer(t)
    /\ \A q, r \in Requests : Request(q) = Request(r) => q = r
    /\ \A r \in Requests : Request(r) # Closer
  BY DEF Op, Timer, Request, Closer

\* f may be the flow that an operation goes on with.
Alive(f) == f \in Flow /\ f.status \notin Terminal

\* The updates that methods make keep the flow alive, but for transitions to an end.
LEMMA AliveUpdates ==
    ASSUME NEW f, Alive(f)
    PROVE  /\ Alive(Unblocked(f)) /\ Unblocked(f).status = f.status
           /\ \A N \in SUBSET Secret : Alive(Remember(f, N)) /\ Remember(f, N).status = f.status
           /\ \A r \in Reason : Alive(Blocked(f, r)) /\ Blocked(f, r).status = f.status
           /\ \A s \in Status : Alive(PausedAt(f, s)) /\ PausedAt(f, s).status = f.status
           /\ \A s \in Status \ Terminal : Alive(Go(f, s)) /\ Go(f, s).status = s
  BY FlowUpdates DEF Alive

\* So do the assignments to single fields.
LEMMA AliveFields ==
    ASSUME NEW f, Alive(f)
    PROVE  /\ \A b \in BOOLEAN : /\ Alive([f EXCEPT !.pauseRequested = b])
                                 /\ Alive([f EXCEPT !.waitingForCode = b])
                                 /\ Alive([f EXCEPT !.email = b])
                                 /\ Alive([f EXCEPT !.account = b])
                                 /\ [f EXCEPT !.waitingForCode = b].status = f.status
                                 /\ [f EXCEPT !.pauseRequested = b].status = f.status
           /\ \A r \in Reason \cup {Nothing} : Alive([f EXCEPT !.manual = r])
  BY FieldUpdates DEF Alive

\* Where operation t may arrive with flow f.
Fits(l, f) ==
    /\ l \in Location \ {"complete_cancelled"}
    /\ l \in {"complete", "fetch"} => f.status = "fetch_api_key"
    /\ l = "submit_key" => f.status = "manual_verify"

\* A step of operation t leaves the other processes alone, but for a timeout that starts
\* where it returns, and arrives at an await whose conditions hold.
Led(t) ==
    /\ \A p \in Processes \ {Op(t), Timer(t)} : pc'[p] = pc[p] /\ onExit'[p] = onExit[p]
    /\ onExit'[Timer(t)] = onExit[Timer(t)] /\ onExit'[Op(t)] \in OpExit
    /\ \/ pc'[Timer(t)] = pc[Timer(t)] /\ slot' = slot
       \/ slot' = t /\ ~Running(Op(t))'
    /\ Fits(pc'[Op(t)], flow')
    /\ Running(Op(t))' /\ pc'[Op(t)] \notin Release => ~Over'
    /\ Over' => flow'.secrets = {}

\* A step to a further await.
LEMMA GotoLed ==
    ASSUME ControlOK, NEW t \in Tasks, onExit[Op(t)] \in OpExit, NEW f, Alive(f),
           NEW l, Fits(l, f), Goto(Op(t), l, f)
    PROVE  Led(t)
  BY Apart, ProcessNames DEF Goto, Led, ControlOK, Alive, Over

\* The return of an operation, with or without a timeout task.
LEMMA ReturnLed ==
    ASSUME ControlOK, NEW t \in Tasks, onExit[Op(t)] \in OpExit, NEW f \in Flow,
           f.status \in Terminal => f.secrets = {}, Return(t, f)
    PROVE  Led(t)
<1>1. flow' = f /\ onExit' = onExit
  BY DEF Return
<1>2. pc'[Op(t)] = "done" /\ \A p \in Processes \ {Op(t), Timer(t)} : pc'[p] = pc[p]
  BY Apart, ProcessNames DEF Return, ControlOK
<1>3. (pc'[Timer(t)] = pc[Timer(t)] /\ slot' = slot) \/ slot' = t
  BY Apart, ProcessNames DEF Return, ControlOK
<1>4. "done" \in Location
  BY Locations
<1> QED
  BY <1>1, <1>2, <1>3, <1>4, Apart, ProcessNames DEF Led, Fits, Running, Ended, Over, ControlOK

\* The part of _fail_and_cleanup after the pending row is marked: it wipes the secrets.
LEMMA FailNowLed ==
    ASSUME ControlOK, NEW t \in Tasks, NEW f, Alive(f), NEW exit \in OpExit,
           FailNow(Op(t), f, exit)
    PROVE  Led(t)
<1>1. Wiped(f).secrets = {} /\ Wiped(f).status = f.status /\ Wiped(f) \in Flow
  BY FlowUpdates DEF Alive, Wiped, Flow
<1>2. /\ \A p \in Processes \ {Op(t)} : pc'[p] = pc[p] /\ onExit'[p] = onExit[p]
      /\ onExit'[Op(t)] = exit /\ slot' = slot
  BY Apart, ProcessNames DEF FailNow, ControlOK
<1>3. CASE CanGo(f.status, "error")
  <2>1. flow'.secrets = {}
    BY <1>1, <1>3 DEF FailNow, Go, Flow
  <2>2. pc'[Op(t)] \in {"dispose", "close"}
    BY <1>3, ProcessNames DEF FailNow, FirstRelease, ControlOK
  <2> QED
    BY <1>2, <2>1, <2>2, Apart, ProcessNames, Locations DEF Led, Fits, Release
<1>4. CASE ~CanGo(f.status, "error")
  <2>1. flow' = Wiped(f) /\ pc'[Op(t)] \in {"done", "crashed"}
    BY <1>4, ProcessNames DEF FailNow, ThrownTo, ControlOK, OpExit
  <2> QED
    BY <1>1, <1>2, <2>1, Apart, ProcessNames, Locations DEF Led, Fits, Running, Ended
<1> QED
  BY <1>3, <1>4

\* _fail_and_cleanup up to its first await.
LEMMA FailLed ==
    ASSUME ControlOK, NEW t \in Tasks, NEW f, Alive(f), NEW exit \in OpExit,
           Fail(Op(t), f, exit)
    PROVE  Led(t)
<1> DEFINE g == [f EXCEPT !.pauseRequested = FALSE]
<1>1. Alive(g)
  BY AliveFields
<1>2. CASE g.account
  BY <1>1, <1>2, Apart, ProcessNames, Locations DEF Fail, Led, Fits, ControlOK, Alive, Over
<1>3. CASE ~g.account
  BY <1>1, <1>3, FailNowLed DEF Fail
<1> QED
  BY <1>2, <1>3

\* An exception that leaves an operation.
LEMMA RaiseLed ==
    ASSUME ControlOK, NEW t \in Tasks, NEW f, Alive(f), Raise(t, f)
    PROVE  Led(t)
  BY FailLed DEF Raise, Alive, OpExit

\* _transition, then a further await.
LEMMA MoveLed ==
    ASSUME ControlOK, NEW t \in Tasks, onExit[Op(t)] \in OpExit, NEW f, Alive(f),
           NEW s \in Status \ Terminal, NEW l, Fits(l, [status |-> s]), Move(t, f, s, l)
    PROVE  Led(t)
<1>1. Alive(Go(f, s)) /\ Fits(l, Go(f, s))
  BY AliveUpdates DEF Fits
<1> QED
  BY <1>1, GotoLed, RaiseLed DEF Move

\* _transition, then the return of the operation.
LEMMA ReturnAtLed ==
    ASSUME ControlOK, NEW t \in Tasks, onExit[Op(t)] \in OpExit, NEW f, Alive(f),
           NEW s \in Status \ Terminal, ReturnAt(t, f, s)
    PROVE  Led(t)
<1>1. Go(f, s) \in Flow /\ Go(f, s).status \notin Terminal
  BY AliveUpdates DEF Alive
<1> QED
  BY <1>1, ReturnLed, RaiseLed DEF ReturnAt

\* _pause_at.
LEMMA PauseLed ==
    ASSUME ControlOK, NEW t \in Tasks, onExit[Op(t)] \in OpExit, NEW f, Alive(f),
           NEW s \in Status, Pause(t, f, s)
    PROVE  Led(t)
  BY AliveUpdates, ReturnAtLed DEF Pause, Status, Resumable, Terminal

\* The end of _handle_github_result and _handle_opencode_result at a blocked page.
LEMMA NeedHumanLed ==
    ASSUME ControlOK, NEW t \in Tasks, onExit[Op(t)] \in OpExit, NEW f, Alive(f),
           NeedHuman(t, f)
    PROVE  Led(t)
<1>1. "manual_verify" \in Status \ Terminal
  BY DEF Status, Resumable, Terminal
<1> QED
  BY <1>1, ReturnLed, ReturnAtLed DEF NeedHuman, Alive

\* The way into the wait for the email code.
LEMMA AwaitCodeLed ==
    ASSUME ControlOK, NEW t \in Tasks, onExit[Op(t)] \in OpExit, NEW f, Alive(f),
           AwaitCode(t, f)
    PROVE  Led(t)
<1> DEFINE w == [f EXCEPT !.waitingForCode = TRUE]
<1>1. Alive(w) /\ Alive(Go(w, "github_email_verify"))
  BY AliveFields, AliveUpdates DEF Status, Pausable, Terminal
<1>2. Fits("code", w) /\ Fits("code", Go(w, "github_email_verify"))
  BY Locations DEF Fits
<1> QED
  BY <1>1, <1>2, GotoLed, RaiseLed DEF AwaitCode

\* _finish_completed_account of a flow that may be done.
LEMMA FinishLed ==
    ASSUME ControlOK, NEW t \in Tasks, Alive(flow), NEW exit \in OpExit,
           CanGo(flow.status, "done"), Finish(t, exit)
    PROVE  Led(t) /\ flow'.status = "done"
<1>1. Wiped(flow).secrets = {} /\ Wiped(flow) \in Flow
  BY FlowUpdates DEF Alive, Wiped, Flow
<1>2. flow'.secrets = {} /\ flow'.status = "done"
  BY <1>1 DEF Finish, Go, Flow
<1>3. pc'[Op(t)] \in {"dispose", "close"} /\ onExit'[Op(t)] = exit /\ slot' = slot
  BY ProcessNames DEF Finish, FirstRelease, ControlOK
<1>4. \A p \in Processes \ {Op(t)} : pc'[p] = pc[p] /\ onExit'[p] = onExit[p]
  BY ProcessNames DEF Finish, ControlOK
<1> QED
  BY <1>2, <1>3, <1>4, Apart, ProcessNames, Locations DEF Led, Fits, Release

\* What a step of an operation does to the account: it reports a completion that has
\* committed, and may start one.
Accounted(t) ==
    /\ Running(Op(t))
    /\ pc[Op(t)] \in Completing /\ completion[t] = "committed" => flow'.status = "done"
    /\ row' = "complete" => row = "complete"
    /\ \A u \in Tasks \ {t} : completion'[u] = completion[u]
    /\ completion'[t] = "running" => pc'[Op(t)] \in Completing

\* What an operation may rely on outside of the releases.
LEMMA AtWork ==
    ASSUME TypeOK, SerialInv, NEW t \in Tasks, Running(Op(t)), pc[Op(t)] \notin Release
    PROVE  /\ Alive(flow) /\ ControlOK /\ WorldOK /\ onExit[Op(t)] \in OpExit
           /\ completion[t] = "running" => pc[Op(t)] \in Completing
  BY DEF TypeOK, FlowTypeOK, ControlOK, SerialInv, WorkInv, ExitInv, OpExit, Alive, Over

\* start() up to the registration.
LEMMA RegistrationLed ==
    ASSUME TypeOK, SerialInv, NEW t \in Tasks,
           Start(t) \/ EmailCreated(t) \/ EmailFailed(t) \/ EmailCreatedInVain(t)
           \/ EmailDisposedInVain(t) \/ UsernameTaken(t)
    PROVE  Led(t) /\ Accounted(t)
<1>1. pc[Op(t)] \in {"begin", "email", "email_cancelled", "email_dispose", "register"}
  BY DEF Start, EmailCreated, EmailFailed, EmailCreatedInVain, EmailDisposedInVain,
         UsernameTaken, At
<1>2. /\ Alive(flow) /\ ControlOK /\ onExit[Op(t)] \in OpExit
      /\ Running(Op(t)) /\ pc[Op(t)] \notin Completing /\ completion[t] # "running"
  BY <1>1, AtWork DEF Running, Ended, Release, Completing
<1>3. Accounted(t)
  BY <1>2 DEF Start, EmailCreated, EmailFailed, EmailCreatedInVain, EmailDisposedInVain,
              UsernameTaken, world, Accounted
<1> SUFFICES Led(t)
  BY <1>3
<1>s. {"creating_email", "github_register"} \subseteq Status \ Terminal
  BY DEF Status, Pausable, Terminal
<1>f. \A f : \A l \in {"email", "register", "resume_clear", "email_dispose", "done"} :
         Fits(l, f)
  BY Locations DEF Fits
<1>4. CASE Start(t)
  BY <1>2, <1>4, <1>s, <1>f, MoveLed, GotoLed DEF Start
<1>5. CASE EmailCreated(t)
  <2>1. Alive([flow EXCEPT !.email = TRUE])
    BY <1>2, AliveFields
  <2> QED
    BY <1>2, <1>5, <1>s, <1>f, <2>1, PauseLed, MoveLed DEF EmailCreated
<1>6. CASE EmailFailed(t)
  BY <1>2, <1>6, FailLed, RaiseLed DEF EmailFailed, OpExit
<1>7. CASE EmailCreatedInVain(t) \/ EmailDisposedInVain(t)
  BY <1>2, <1>7, <1>f, GotoLed DEF EmailCreatedInVain, EmailDisposedInVain
<1>8. CASE UsernameTaken(t)
  <2>1. CASE UNCHANGED control
    BY <1>1, <1>2, <1>8, <2>1, Locations
       DEF control, UsernameTaken, At, Led, Fits, Over, Alive
  <2>2. CASE Fail(Op(t), flow, "return")
    BY <1>2, <2>2, FailLed DEF OpExit
  <2> QED
    BY <1>8, <2>1, <2>2 DEF UsernameTaken
<1> QED
  BY <1>4, <1>5, <1>6, <1>7, <1>8

\* _handle_github_result.
LEMMA GithubLed ==
    ASSUME TypeOK, SerialInv, NEW t \in Tasks,
           GithubBlocked(t) \/ GithubAsksCode(t) \/ GithubCompleted(t) \/ GithubFailed(t)
    PROVE  Led(t) /\ Accounted(t)
<1>1. pc[Op(t)] \in {"register", "submit_code", "inspect_github"}
  BY DEF GithubBlocked, GithubAsksCode, GithubCompleted, GithubFailed, GithubAwait, At
<1>2. /\ Alive(flow) /\ ControlOK /\ onExit[Op(t)] \in OpExit
      /\ Running(Op(t)) /\ pc[Op(t)] \notin Completing /\ completion[t] # "running"
  BY <1>1, AtWork DEF Running, Ended, Release, Completing
<1>3. Accounted(t)
  BY <1>2 DEF GithubBlocked, GithubAsksCode, GithubCompleted, GithubFailed, Accounted
<1> SUFFICES Led(t)
  BY <1>3
<1>f. \A f : \A l \in {"capture", "login", "persist"} : Fits(l, f)
  BY Locations DEF Fits
<1>4. CASE GithubBlocked(t)
  <2>1. Alive(Blocked([flow EXCEPT !.pauseRequested = FALSE], "blocked"))
    BY <1>2, AliveFields, AliveUpdates DEF Reason
  <2> QED
    BY <1>2, <1>4, <1>f, <2>1, GotoLed, NeedHumanLed DEF GithubBlocked
<1>5. CASE GithubAsksCode(t)
  <2>1. Alive(Unblocked(flow)) /\ "github_email_verify" \in Status
    BY <1>2, AliveUpdates DEF Status, Pausable
  <2> QED
    BY <1>2, <1>5, <2>1, PauseLed, AwaitCodeLed DEF GithubAsksCode
<1>6. CASE GithubCompleted(t)
  <2> DEFINE f == [Remember(Unblocked(flow), {"auth"}) EXCEPT !.pauseRequested = FALSE]
  <2>1. Alive(Remember(Unblocked(flow), {"auth"}))
    BY <1>2, AliveUpdates DEF Secret
  <2>2. Alive(f) /\ "opencode_login" \in Status \ Terminal
    BY <2>1, AliveFields DEF Status, Terminal
  <2> QED
    BY <1>2, <1>6, <1>f, <2>2, MoveLed, GotoLed, FailLed DEF GithubCompleted, OpExit
<1>7. CASE GithubFailed(t)
  BY <1>2, <1>7, AliveUpdates, FailLed, RaiseLed DEF GithubFailed, OpExit
<1> QED
  BY <1>4, <1>5, <1>6, <1>7

\* The screenshot, the email code and the credentials.
LEMMA HumanLed ==
    ASSUME TypeOK, SerialInv, NEW t \in Tasks,
           ScreenshotTaken(t) \/ ScreenshotSaved(t) \/ CodeArrived(t) \/ CodeMissing(t)
           \/ CredentialsPersisted(t) \/ CredentialsRefused(t)
    PROVE  Led(t) /\ Accounted(t)
<1>1. pc[Op(t)] \in {"capture", "save_shot", "code", "persist"}
  BY DEF ScreenshotTaken, ScreenshotSaved, CodeArrived, CodeMissing, CredentialsPersisted,
         CredentialsRefused, At
<1>2. /\ Alive(flow) /\ ControlOK /\ onExit[Op(t)] \in OpExit
      /\ Running(Op(t)) /\ pc[Op(t)] \notin Completing /\ completion[t] # "running"
  BY <1>1, AtWork DEF Running, Ended, Release, Completing
<1>3. Accounted(t)
  BY <1>2 DEF ScreenshotTaken, ScreenshotSaved, CodeArrived, CodeMissing,
              CredentialsPersisted, CredentialsRefused, world, Accounted
<1> SUFFICES Led(t)
  BY <1>3
<1>f. \A f : \A l \in {"save_shot", "submit_code", "login"} : Fits(l, f)
  BY Locations DEF Fits
<1>4. CASE ScreenshotTaken(t) \/ ScreenshotSaved(t)
  BY <1>2, <1>4, <1>f, GotoLed, NeedHumanLed DEF ScreenshotTaken, ScreenshotSaved
<1>5. CASE CodeArrived(t) \/ CodeMissing(t)
  <2>1. Alive([flow EXCEPT !.waitingForCode = FALSE])
    BY <1>2, AliveFields
  <2> QED
    BY <1>2, <1>5, <1>f, <2>1, GotoLed, FailLed, RaiseLed DEF CodeArrived, CodeMissing, OpExit
<1>6. CASE CredentialsPersisted(t)
  <2>1. Alive([flow EXCEPT !.account = TRUE]) /\ "opencode_login" \in Status \ Terminal
    BY <1>2, AliveFields DEF Status, Terminal
  <2> QED
    BY <1>2, <1>6, <1>f, <2>1, MoveLed DEF CredentialsPersisted
<1>7. CASE CredentialsRefused(t)
  BY <1>2, <1>7, FailLed DEF CredentialsRefused, OpExit
<1> QED
  BY <1>4, <1>5, <1>6, <1>7

\* _handle_opencode_result without a key.
LEMMA OpenCodeLed ==
    ASSUME TypeOK, SerialInv, NEW t \in Tasks,
           PaymentRequired(t) \/ AuthSaved(t) \/ PaymentMarked(t) \/ OpenCodeBlocked(t)
           \/ OpenCodeFailed(t)
    PROVE  Led(t) /\ Accounted(t)
<1>1. pc[Op(t)] \in {"login", "save_auth", "mark_payment", "fetch", "submit_key"}
  BY DEF PaymentRequired, AuthSaved, PaymentMarked, OpenCodeBlocked, OpenCodeFailed,
         OpenCodeAwait, At
<1>2. /\ Alive(flow) /\ ControlOK /\ WorldOK /\ onExit[Op(t)] \in OpExit
      /\ Running(Op(t)) /\ pc[Op(t)] \notin Completing /\ completion[t] # "running"
  BY <1>1, AtWork DEF Running, Ended, Release, Completing
<1>3. Accounted(t)
  BY <1>2 DEF PaymentRequired, AuthSaved, PaymentMarked, OpenCodeBlocked, OpenCodeFailed,
              world, Accounted, Marked, PendingRow
<1> SUFFICES Led(t)
  BY <1>3
<1>f. \A f : \A l \in {"save_auth", "mark_payment"} : Fits(l, f)
  BY Locations DEF Fits
<1>4. CASE PaymentRequired(t) \/ AuthSaved(t)
  BY <1>2, <1>4, <1>f, AliveUpdates, GotoLed, FailLed
     DEF PaymentRequired, AuthSaved, OpExit, Secret
<1>5. CASE PaymentMarked(t)
  <2>1. Alive([flow EXCEPT !.manual = "payment"]) /\ "pending_payment" \in Status \ Terminal
    BY <1>2, AliveFields DEF Status, Resumable, Terminal, Reason
  <2> QED
    BY <1>2, <1>5, <2>1, ReturnAtLed DEF PaymentMarked
<1>6. CASE OpenCodeBlocked(t)
  <2>1. \A reason \in {"blocked", "api_key_input"} : Alive(Blocked(flow, reason))
    BY <1>2, AliveUpdates DEF Reason
  <2> QED
    BY <1>2, <1>6, <2>1, NeedHumanLed DEF OpenCodeBlocked
<1>7. CASE OpenCodeFailed(t)
  BY <1>2, <1>7, FailLed, RaiseLed DEF OpenCodeFailed, OpExit
<1> QED
  BY <1>4, <1>5, <1>6, <1>7

\* The key starts a completion, in a flow that is at fetch_api_key.
LEMMA ApiKeyLed ==
    ASSUME TypeOK, SerialInv, NEW t \in Tasks, ApiKeyObtained(t)
    PROVE  Led(t) /\ Accounted(t)
<1> DEFINE g == Remember(flow, {"auth", "api_key"})
           f == Restored(g, "fetch_api_key")
<1>1. pc[Op(t)] \in {"fetch", "submit_key"}
  BY DEF ApiKeyObtained, At
<1>2. /\ Alive(flow) /\ ControlOK /\ WorldOK /\ onExit[Op(t)] \in OpExit
      /\ Running(Op(t)) /\ pc[Op(t)] \notin Completing /\ completion[t] # "running"
  BY <1>1, AtWork DEF Running, Ended, Release, Completing
<1>3. Alive(g) /\ g.status \in {"fetch_api_key", "manual_verify"}
  <2>1. flow.status \in {"fetch_api_key", "manual_verify"}
    BY <1>1 DEF SerialInv, WorkInv, At
  <2> QED
    BY <1>2, <2>1, AliveUpdates DEF Secret
<1>4. Alive(f) /\ f.status = "fetch_api_key"
  BY <1>3, AliveUpdates DEF Restored, Status, Terminal
<1>5. Fits("complete", f)
  BY <1>4, Locations DEF Fits
<1>6. CASE "password" \in f.secrets
  <2>1. Goto(Op(t), "complete", f) /\ completion' = [completion EXCEPT ![t] = "running"]
    BY <1>6 DEF ApiKeyObtained
  <2>2. Led(t)
    BY <1>2, <1>4, <1>5, <2>1, GotoLed
  <2>3. pc'[Op(t)] = "complete"
    BY <1>2, <2>1, ProcessNames DEF Goto, ControlOK
  <2> QED
    BY <1>2, <2>1, <2>2, <2>3 DEF Accounted, Completing, ApiKeyObtained, WorldOK
<1>7. CASE "password" \notin f.secrets
  <2>1. Fail(Op(t), f, "return") /\ UNCHANGED <<row, completion>>
    BY <1>7 DEF ApiKeyObtained
  <2> QED
    BY <1>2, <1>4, <2>1, FailLed DEF Accounted, OpExit
<1> QED
  BY <1>6, <1>7

\* A completion that has committed is reported, whatever interrupted the wait for it.
LEMMA CompletionLed ==
    ASSUME TypeOK, SerialInv, NEW t \in Tasks, CompletionAwaited(t)
    PROVE  Led(t) /\ Accounted(t)
<1>1. pc[Op(t)] \in Completing
  BY DEF CompletionAwaited, At, Completing
<1>2. /\ Alive(flow) /\ ControlOK /\ WorldOK /\ onExit[Op(t)] \in OpExit
      /\ flow.status = "fetch_api_key" /\ Running(Op(t))
  <2>1. Running(Op(t)) /\ pc[Op(t)] \notin Release
    BY <1>1 DEF Running, Ended, Release, Completing
  <2> QED
    BY <1>1, <2>1, AtWork DEF SerialInv, WorkInv
<1>3. PICK exit \in {"return", "cancelled"} :
         \/ completion[t] = "committed" /\ Finish(t, exit)
         \/ completion[t] = "failed" /\ Fail(Op(t), flow, exit)
  BY DEF CompletionAwaited
<1>4. CanGo(flow.status, "done") /\ exit \in OpExit
  BY <1>2 DEF CanGo, OpExit
<1>5. UNCHANGED <<row, completion>>
  BY DEF CompletionAwaited, world
<1> QED
  BY <1>2, <1>3, <1>4, <1>5, FinishLed, FailLed DEF Accounted

\* resume(): fetch is reached at fetch_api_key, submit_key at manual_verify.
LEMMA ResumeLed ==
    ASSUME TypeOK, SerialInv, NEW t \in Tasks, NEW withKey, Resume(t, withKey)
    PROVE  Led(t) /\ Accounted(t)
<1>1. /\ Alive(flow) /\ ControlOK /\ onExit[Op(t)] \in OpExit
      /\ Running(Op(t)) /\ pc[Op(t)] \notin Completing /\ completion[t] # "running"
  BY AtWork DEF Resume, At, Running, Ended, Release, Completing
<1>2. Accounted(t)
  BY <1>1 DEF Resume, Accounted
<1> SUFFICES Led(t)
  BY <1>2
<1>s. {"fetch_api_key", "opencode_login", "github_register", "github_email_verify"}
         \subseteq Status \ Terminal
  BY DEF Status, Pausable, Terminal
<1>f. \A f : \A l \in {"login", "inspect_github", "register", "code"} : Fits(l, f)
  BY Locations DEF Fits
<1>3. CASE Move(t, [flow EXCEPT !.manual = Nothing], "fetch_api_key", "fetch")
  <2>1. Alive([flow EXCEPT !.manual = Nothing]) /\ Fits("fetch", [status |-> "fetch_api_key"])
    BY <1>1, AliveFields, Locations DEF Fits
  <2> QED
    BY <1>1, <1>3, <1>s, <2>1, MoveLed
<1>4. CASE ResumePause(t)
  <2> DEFINE s == flow.pausedFrom
             f == [Unblocked(flow) EXCEPT !.waitingForCode = (s = "github_email_verify")]
  <2>1. Alive(f)
    BY <1>1, AliveUpdates, AliveFields
  <2>2. CASE s \in {"github_register", "github_email_verify", "opencode_login"}
    <3>1. ResumePoint(s) \in {"register", "code", "login"}
      BY <2>2 DEF ResumePoint
    <3>2. Move(t, f, s, ResumePoint(s))
      BY <1>4, <2>2 DEF ResumePause
    <3>3. s \in Status \ Terminal /\ Fits(ResumePoint(s), [status |-> s])
      BY <1>s, <1>f, <2>2, <3>1
    <3> QED
      BY <1>1, <2>1, <3>2, <3>3, MoveLed
  <2>3. CASE s \notin {"github_register", "github_email_verify", "opencode_login"}
    BY <1>1, <1>4, <2>3, FailLed DEF ResumePause, OpExit
  <2> QED
    BY <2>2, <2>3
<1>5. CASE flow.status = "manual_verify" /\ Goto(Op(t), "submit_key", flow)
  BY <1>1, <1>5, GotoLed, Locations DEF Fits
<1>6. CASE flow.status = "manual_verify" /\ ResumeBlocked(t)
  <2>1. \A s \in {"opencode_login", "fetch_api_key"} :
           Alive(Restored(flow, s)) /\ Restored(flow, s).status = s
    <3>1. Alive(Unblocked(flow)) /\ \A s \in {"opencode_login", "fetch_api_key"} :
             s \in Status \ Terminal /\ Restored(flow, s) = Go(Unblocked(flow), s)
      BY <1>1, <1>6, <1>s, AliveUpdates DEF Restored
    <3> QED
      BY <3>1, AliveUpdates
  <2>2. Fits("fetch", Restored(flow, "fetch_api_key"))
    BY <2>1, Locations DEF Fits
  <2> QED
    BY <1>1, <1>6, <1>f, <2>1, <2>2, GotoLed DEF ResumeBlocked
<1>7. CASE Raise(t, flow)
  BY <1>1, <1>7, RaiseLed
<1> QED
  BY <1>3, <1>4, <1>5, <1>6, <1>7 DEF Resume

\* The cleanup at the end of an operation.
LEMMA TailLed ==
    ASSUME TypeOK, SerialInv, NEW t \in Tasks, FailMarked(Op(t)) \/ TailStep(Op(t))
    PROVE  Led(t) /\ Accounted(t)
<1>1. /\ pc[Op(t)] \in {"fail_mark"} \cup Release /\ pc[Op(t)] \notin Completing
      /\ Running(Op(t)) /\ ControlOK /\ WorldOK /\ onExit[Op(t)] \in OpExit
      /\ completion[t] # "running" /\ flow \in Flow
  BY DEF FailMarked, TailStep, MailboxDisposed, BrowserClosed, BrowserCloseFails, Cleared, At,
         Release, Completing, Running, Ended, SerialInv, WorkInv, ExitInv, OpExit, TypeOK,
         FlowTypeOK, ControlOK
<1>2. Accounted(t)
  BY <1>1 DEF FailMarked, TailStep, MailboxDisposed, BrowserClosed, BrowserCloseFails, Cleared,
              Accounted, world, Marked, PendingRow
<1> SUFFICES Led(t)
  BY <1>2
<1>3. CASE FailMarked(Op(t))
  <2>1. Alive(flow)
    BY <1>1, <1>3, AtWork DEF FailMarked, At, Release
  <2> QED
    BY <1>1, <1>3, <2>1, FailNowLed DEF FailMarked
<1>w. Over => flow.secrets = {}
  BY DEF SerialInv, SecretsWiped
<1>4. ASSUME NEW l \in Release \cup {"done", "crashed"}, Goto(Op(t), l, flow)
      PROVE  Led(t)
  BY <1>1, <1>4, <1>w, Apart, ProcessNames, Locations
     DEF Goto, Led, Fits, ControlOK, Over, Release, Running, Ended
<1>5. CASE MailboxDisposed(Op(t)) \/ BrowserClosed(Op(t))
  BY <1>4, <1>5 DEF MailboxDisposed, BrowserClosed, Release
<1>6. CASE BrowserCloseFails(Op(t))
  BY <1>1, <1>4, <1>6 DEF BrowserCloseFails, ThrownTo, OpExit
<1>7. CASE Cleared(Op(t))
  BY <1>1, <1>4, <1>7, <1>w, ReturnLed, Apart
     DEF Cleared, ReturnedTo, OpExit, Over
<1> QED
  BY <1>3, <1>5, <1>6, <1>7 DEF TailStep

\* Every step of an operation.
LEMMA OperationLed ==
    ASSUME TypeOK, SerialInv, NEW t \in Tasks, OperationStep(t)
    PROVE  Led(t) /\ Accounted(t)
  BY RegistrationLed, GithubLed, HumanLed, OpenCodeLed, ApiKeyLed, CompletionLed, ResumeLed,
     TailLed DEF OperationStep, OpStep

(***************************************************************************)
(* Every step keeps the invariant                                          *)
(***************************************************************************)
\* The steps of an operation: no timeout runs beside it, nor another operation.
LEMMA OperationInv ==
    ASSUME TypeOK, SerialInv, Sound, NEW t \in Tasks, OperationStep(t)
    PROVE  SerialInv'
<1>1. Led(t) /\ Accounted(t) /\ UNCHANGED service /\ StatusStep
  BY OperationLed DEF OperationStep, Sound, ControlStep
<1>2. t = current /\ (\A u \in Tasks \ {t} : ~Running(Op(u))) /\ ~NoOp
  BY <1>1 DEF SerialInv, OneInv, Accounted, NoOp
<1>3. /\ \A u \in Tasks \ {t} : pc'[Op(u)] = pc[Op(u)] /\ onExit'[Op(u)] = onExit[Op(u)]
      /\ \A u \in Tasks \ {t} : pc'[Timer(u)] = pc[Timer(u)]
      /\ \A u \in Tasks : onExit'[Timer(u)] = onExit[Timer(u)]
      /\ \A r \in Requests : /\ pc'[Request(r)] = pc[Request(r)]
                             /\ onExit'[Request(r)] = onExit[Request(r)]
      /\ pc'[Closer] = pc[Closer] /\ onExit'[Closer] = onExit[Closer]
  BY <1>1, Apart, ProcessNames DEF Led
<1>4. \A u \in Tasks : ~Running(Timer(u))
  BY <1>2 DEF SerialInv, TimerInv
<1>5. OneInv'
  BY <1>1, <1>2, <1>3 DEF OneInv, service, Running
<1>6. AskInv'
  BY <1>2, <1>3 DEF SerialInv, AskInv, Unanswered, At
<1>7. TimerInv'
  BY <1>1, <1>2, <1>3, <1>4 DEF TimerInv, NoOp, Led, Running
<1>8. RequestInv'
  BY <1>1, <1>2, <1>3 DEF SerialInv, RequestInv, At, service
<1>9. ExitInv'
  BY <1>1, <1>3 DEF SerialInv, ExitInv, Led, OpExit
<1>10. WorkInv'
  <2>1. ASSUME NEW u \in Tasks \ {t}
        PROVE  /\ ~Running(Op(u))' /\ pc'[Op(u)] \notin Completing \cup {"fetch", "submit_key"}
               /\ completion'[u] # "running"
    BY <1>1, <1>2, <1>3 DEF Running, Ended, Completing, Accounted, SerialInv, WorkInv
  <2> QED
    BY <1>1, <2>1 DEF WorkInv, Led, Fits, Accounted, Completing, At
<1>11. StoreInv'
  <2>1. \A u \in Tasks \ {t} : pc[Op(u)] \notin Completing
    BY <1>2 DEF Running, Ended, Completing
  <2> QED
    BY <1>1, <2>1 DEF StoreInv, Accounted, SerialInv, StatusStep, Over, Terminal
<1>12. SecretsWiped'
  BY <1>1 DEF Led, SecretsWiped
<1> QED
  BY <1>5, <1>6, <1>7, <1>8, <1>9, <1>10, <1>11, <1>12 DEF SerialInv

\* A step while no operation drives the flow, other than the start of one.
Quiet ==
    /\ NoOp
    /\ \A t \in Tasks : pc'[Op(t)] = pc[Op(t)]
    /\ \A p \in Processes : onExit'[p] = onExit[p]
    /\ completion' = completion
    /\ row' = "complete" => row = "complete"
    /\ Over' => flow'.secrets = {}

\* Such a step keeps what the invariant says of operations and the flow.
LEMMA QuietInv ==
    ASSUME SerialInv, StatusStep, Quiet
    PROVE  NoOp' /\ OneInv' /\ ExitInv' /\ WorkInv' /\ StoreInv' /\ SecretsWiped'
<1>1. \A t \in Tasks : /\ pc'[Op(t)] \in Ended /\ pc[Op(t)] \in Ended
                       /\ completion[t] # "running"
  BY DEF Quiet, NoOp, SerialInv, WorkInv, Completing, Ended, Running
<1>2. NoOp' /\ OneInv'
  BY <1>1 DEF NoOp, OneInv, Running
<1>3. ExitInv'
  BY ProcessNames DEF Quiet, SerialInv, ExitInv
<1>4. WorkInv'
  BY <1>1 DEF WorkInv, Quiet, Running, Completing, Ended, At
<1>5. StoreInv'
  BY <1>1 DEF Quiet, SerialInv, StoreInv, StatusStep, Over, Terminal, Completing, Ended
<1> QED
  BY <1>2, <1>3, <1>4, <1>5 DEF Quiet, SecretsWiped

\* A step that changes neither the operations nor the flow's status and secrets.
Aside ==
    /\ \A t \in Tasks : pc'[Op(t)] = pc[Op(t)]
    /\ onExit' = onExit /\ UNCHANGED <<row, completion, current>>
    /\ flow'.status = flow.status /\ flow'.secrets = flow.secrets
    /\ \A t \in Tasks : At(Op(t), "complete_cancelled") =>
          (At(Closer, "reap_task") \/ \E r \in Requests : At(Request(r), "reap_task"))'

\* So does a step aside.
LEMMA AsideInv ==
    ASSUME SerialInv, Aside
    PROVE  OneInv' /\ ExitInv' /\ WorkInv' /\ StoreInv' /\ SecretsWiped'
<1>1. OneInv' /\ ExitInv' /\ SecretsWiped'
  BY DEF Aside, SerialInv, OneInv, ExitInv, SecretsWiped, Over, Running
<1>2. WorkInv'
  BY DEF Aside, SerialInv, WorkInv, At, Over, Running
<1>3. StoreInv'
  BY DEF Aside, SerialInv, StoreInv
<1> QED
  BY <1>1, <1>2, <1>3

\* A process that is no operation moves by itself, and changes neither what others do
\* when their cleanup ends nor a completion.
Alone(p) ==
    /\ \A q \in Processes \ {p} : pc'[q] = pc[q]
    /\ \A q \in Processes : onExit'[q] = onExit[q]
    /\ completion' = completion
    /\ row' = "complete" => row = "complete"
    /\ Over' => flow'.secrets = {}

\* A process that moves alone while no operation runs makes a quiet step.
LEMMA AloneQuiet ==
    ASSUME NoOp, NEW p, \A t \in Tasks : p # Op(t), Alone(p)
    PROVE  Quiet
  BY ProcessNames DEF Alone, Quiet

\* _fail_and_cleanup in the timeout.
LEMMA FailAlone ==
    ASSUME ControlOK, NEW p \in Processes, onExit[p] = "handler",
           NEW f \in Flow, f.status \in Terminal => f.secrets = {},
           FailNow(p, f, "handler") \/ Fail(p, f, "handler"),
           completion' = completion, row' = "complete" => row = "complete"
    PROVE  Alone(p) /\ slot' = slot
<1>1. slot' = slot /\ (\A q \in Processes \ {p} : pc'[q] = pc[q])
      /\ \A q \in Processes : onExit'[q] = onExit[q]
  BY DEF FailNow, Fail, ControlOK
<1>2. ASSUME NEW g \in Flow, FailNow(p, g, "handler")
      PROVE  flow'.secrets = {}
  BY <1>2 DEF FailNow, Go, Wiped, Flow
<1>3. Over' => flow'.secrets = {}
  <2> DEFINE g == [f EXCEPT !.pauseRequested = FALSE]
  <2>1. g \in Flow /\ g.status = f.status /\ g.secrets = f.secrets
    BY DEF Flow
  <2> QED
    BY <1>2, <2>1 DEF Fail, Over
<1> QED
  BY <1>1, <1>3 DEF Alone

\* The rest of the cleanup, where it does not return from an operation.
LEMMA TailAlone ==
    ASSUME TypeOK, SerialInv, NEW p \in Processes, onExit[p] # "return", TailStep(p)
    PROVE  Alone(p) /\ slot' = slot /\ flow' = flow
  BY DEF TailStep, MailboxDisposed, BrowserClosed, BrowserCloseFails, Cleared, Goto, world,
         Alone, TypeOK, FlowTypeOK, ControlOK, SerialInv, SecretsWiped, Over

\* A timeout that runs moves alone, for no operation does.
LEMMA TimeoutAlone ==
    ASSUME TypeOK, SerialInv, NEW t \in Tasks, TimeoutStep(t)
    PROVE  Alone(Timer(t)) /\ slot' = slot /\ Running(Timer(t)) /\ NoOp
<1>1. Running(Timer(t)) /\ UNCHANGED service
  BY DEF TimeoutStep, TimerStep, Expire, FailMarked, TailStep, MailboxDisposed, BrowserClosed,
         BrowserCloseFails, Cleared, At, Running, Ended
<1>2. /\ NoOp /\ onExit[Timer(t)] = "handler" /\ ControlOK /\ flow \in Flow
      /\ Over => flow.secrets = {}
  BY <1>1 DEF SerialInv, TimerInv, ExitInv, SecretsWiped, TypeOK, FlowTypeOK, ControlOK
<1>3. CASE Expire(t)
  <2>1. CASE Fail(Timer(t), flow, "handler")
    BY <1>1, <1>2, <1>3, <2>1, FailAlone, ProcessNames DEF Expire, world, Over
  <2>2. CASE Goto(Timer(t), "done", flow)
    BY <1>1, <1>2, <1>3, <2>2 DEF Goto, Expire, world, Alone, Over, ControlOK
  <2> QED
    BY <1>3, <2>1, <2>2 DEF Expire
<1>4. CASE FailMarked(Timer(t))
  <2>1. row' = "complete" => row = "complete"
    BY <1>4 DEF FailMarked, Marked
  <2> QED
    BY <1>1, <1>2, <1>4, <2>1, FailAlone, ProcessNames DEF FailMarked, Over
<1>5. CASE TailStep(Timer(t))
  BY <1>1, <1>2, <1>5, TailAlone, ProcessNames
<1> QED
  BY <1>3, <1>4, <1>5 DEF TimeoutStep, TimerStep

\* A timeout runs only while no operation does.
LEMMA TimeoutInv ==
    ASSUME TypeOK, SerialInv, Sound, NEW t \in Tasks, TimeoutStep(t)
    PROVE  SerialInv'
<1>1. Running(Timer(t)) /\ UNCHANGED service
  BY TimeoutAlone DEF TimeoutStep
<1>2. NoOp /\ Alone(Timer(t)) /\ slot' = slot
  BY TimeoutAlone
<1>3. NoOp' /\ OneInv' /\ ExitInv' /\ WorkInv' /\ StoreInv' /\ SecretsWiped'
  BY <1>2, Apart, AloneQuiet, QuietInv DEF Sound, ControlStep
<1>4. /\ \A r \in Requests : pc'[Request(r)] = pc[Request(r)]
      /\ pc'[Closer] = pc[Closer] /\ \A u \in Tasks \ {t} : pc'[Timer(u)] = pc[Timer(u)]
  BY <1>2, Apart, ProcessNames DEF Alone
<1>5. AskInv'
  BY <1>3, <1>4 DEF SerialInv, AskInv, Unanswered, At
<1>6. TimerInv'
  BY <1>1, <1>2, <1>3, <1>4 DEF SerialInv, TimerInv, Running, At, service
<1>7. RequestInv'
  BY <1>1, <1>2, <1>3, <1>4 DEF SerialInv, RequestInv, At, service
<1> QED
  BY <1>3, <1>5, <1>6, <1>7 DEF SerialInv

(***************************************************************************)
(* Requests                                                                *)
(***************************************************************************)
\* No other request is under way, and the service does not shut down.
Turn(r) == At(Closer, "idle") /\ \A q \in Requests \ {r} : ~Unanswered(q)

\* A request that is under way, or that may be sent, has its turn.
LEMMA TurnOf ==
    ASSUME SerialInv, ~Overlap, NEW r \in Requests, Unanswered(r) \/ MayAsk(r)
    PROVE  Turn(r)
  BY DEF SerialInv, AskInv, MayAsk, Turn

\* What holds at the awaits of the other requests, in their absence.
LEMMA OthersAnswered ==
    ASSUME NEW r \in Requests, Turn(r)
    PROVE  \A q \in Requests \ {r} :
              pc[Request(q)] \notin {"reap_timer", "reap_task", "reap_pause", "cancel_mark"}
                                      \cup Release
  BY DEF Turn, Unanswered, Answer, Release

\* In its turn, a request that is not reaping a timeout leaves one in its slot.
LEMMA TimerInSlot ==
    ASSUME SerialInv, NEW r \in Requests, Turn(r), NEW u \in Tasks, Running(Timer(u))
    PROVE  slot = u \/ (At(Request(r), "reap_timer") /\ target[r] = Timer(u))
  BY OthersAnswered DEF SerialInv, TimerInv, At

\* The part of the invariant that is about the requests, after a step of r in its turn.
LEMMA TurnInv ==
    ASSUME NEW r \in Requests, Turn(r), pc'[Closer] = pc[Closer],
           \A q \in Requests \ {r} : pc'[Request(q)] = pc[Request(q)],
           pc'[Request(r)] \in {"reap_timer", "cancel_mark"} \cup Release => NoOp',
           At(Request(r), "reap_timer")' => slot' = Nothing,
           pc'[Request(r)] \in {"reap_task", "reap_pause"} => target'[r] = Op(current')
    PROVE  AskInv' /\ RequestInv'
<1>1. AskInv'
  BY DEF Turn, AskInv, Unanswered, At
<1>2. RequestInv'
  BY OthersAnswered DEF RequestInv, At
<1> QED
  BY <1>1, <1>2

\* A request that moves alone while no operation runs.
LEMMA RequestAloneInv ==
    ASSUME SerialInv, StatusStep, NEW r \in Requests, Turn(r), NoOp, Alone(Request(r)),
           \A u \in Tasks : Running(Timer(u)) => slot' = u,
           pc'[Request(r)] \notin {"reap_timer", "reap_task", "reap_pause"}
    PROVE  SerialInv'
<1>1. NoOp' /\ OneInv' /\ ExitInv' /\ WorkInv' /\ StoreInv' /\ SecretsWiped'
  BY Apart, AloneQuiet, QuietInv
<1>2. AskInv' /\ RequestInv'
  BY <1>1, TurnInv, Apart, ProcessNames DEF Alone, At
<1>3. TimerInv'
  BY <1>1, Apart, ProcessNames DEF Alone, TimerInv, Running
<1> QED
  BY <1>1, <1>2, <1>3 DEF SerialInv

\* A request that is answered at once, without an effect but a pause to come.
LEMMA AnsweredInv ==
    ASSUME TypeOK, SerialInv, NEW r \in Requests, Turn(r), At(Request(r), "idle"),
           NEW a \in Answer, pc' = [pc EXCEPT ![Request(r)] = a], UNCHANGED <<onExit, world>>,
           flow'.status = flow.status, flow'.secrets = flow.secrets,
           UNCHANGED <<slot, current, target>>
    PROVE  SerialInv'
<1>1. /\ \A p \in Processes \ {Request(r)} : pc'[p] = pc[p]
      /\ pc'[Request(r)] = a
  BY ProcessNames DEF TypeOK, FlowTypeOK, ControlOK
<1>2. \A q \in Requests : pc[Request(q)] \notin {"reap_timer", "reap_task"}
  BY OthersAnswered DEF At
<1>3. Aside
  BY <1>1, <1>2, Apart, ProcessNames DEF Aside, world, At, SerialInv, WorkInv
<1>4. OneInv' /\ ExitInv' /\ WorkInv' /\ StoreInv' /\ SecretsWiped'
  BY <1>3, AsideInv
<1>5. AskInv' /\ RequestInv'
  BY <1>1, TurnInv, Apart, ProcessNames DEF Answer, Release, At
<1>6. TimerInv'
  BY <1>1, <1>2, Apart, ProcessNames DEF SerialInv, TimerInv, NoOp, Running, At
<1> QED
  BY <1>4, <1>5, <1>6 DEF SerialInv

\* _start_task: a new operation, where none runs and no timeout either.
LEMMA StartInv ==
    ASSUME TypeOK, SerialInv, NEW r \in Requests, Turn(r), NoOp, flow.status \in Resumable,
           \A u \in Tasks : ~Running(Timer(u)), StartTask(r)
    PROVE  SerialInv'
<1>1. r \in Tasks /\ current' = r /\ flow' = flow /\ onExit' = onExit
  BY DEF StartTask, Tasks
<1>2. /\ pc'[Op(r)] = "begin" /\ pc'[Request(r)] = "accepted"
      /\ \A p \in Processes \ {Op(r), Request(r)} : pc'[p] = pc[p]
  BY <1>1, Apart, ProcessNames DEF StartTask, TypeOK, FlowTypeOK, ControlOK
<1>3. /\ \A t \in Tasks \ {r} : pc'[Op(t)] = pc[Op(t)]
      /\ \A t \in Tasks : pc'[Timer(t)] = pc[Timer(t)]
      /\ \A q \in Requests \ {r} : pc'[Request(q)] = pc[Request(q)]
      /\ pc'[Closer] = pc[Closer]
  BY <1>1, <1>2, Apart, ProcessNames
<1>4. \A t \in Tasks : pc[Op(t)] \in Ended /\ completion[t] # "running"
  BY DEF NoOp, SerialInv, WorkInv, Completing, Ended, Running
<1>5. OneInv' /\ ExitInv' /\ SecretsWiped' /\ TimerInv'
  BY <1>1, <1>3 DEF SerialInv, OneInv, ExitInv, SecretsWiped, TimerInv, NoOp, Over, Running
<1>6. WorkInv'
  BY <1>1, <1>2, <1>3, <1>4
     DEF WorkInv, Running, Completing, Ended, At, Over, Resumable, Terminal, StartTask, world
<1>7. StoreInv'
  BY <1>1, <1>4 DEF SerialInv, StoreInv, StartTask, world, Ended, Completing
<1>8. AskInv' /\ RequestInv'
  BY <1>2, <1>3, TurnInv DEF Release, At
<1> QED
  BY <1>5, <1>6, <1>7, <1>8 DEF SerialInv

\* After a reaped timeout none runs.
LEMMA TimerGone ==
    ASSUME SerialInv, NEW r \in Requests, Turn(r), Reaped(r, "reap_timer")
    PROVE  NoOp /\ slot = Nothing /\ \A u \in Tasks : ~Running(Timer(u))
<1>1. NoOp /\ slot = Nothing /\ Nothing \notin Tasks
  BY FlowAssumption DEF SerialInv, RequestInv, Reaped, At, FlowAssumption, Tasks
<1> QED
  BY <1>1, TimerInSlot DEF Reaped

\* Nor while the slot has none and nobody reaps one.
LEMMA TimerNone ==
    ASSUME SerialInv, NEW r \in Requests, Turn(r), ~At(Request(r), "reap_timer"),
           ~TimerRunning
    PROVE  \A u \in Tasks : ~Running(Timer(u))
<1>1. Nothing \notin Tasks
  BY FlowAssumption DEF FlowAssumption, Tasks
<1> QED
  BY <1>1, TimerInSlot DEF TimerRunning

\* flow.cancel() while no operation runs.
LEMMA CancelAlone ==
    ASSUME TypeOK, SerialInv, NEW p \in Processes, CancelFlow(p) \/ CancelMarked(p)
    PROVE  Alone(p) /\ pc'[p] \in {"cancel_mark", "dispose", "close", "browsers", "refused"}
<1>1. flow \in Flow /\ ControlOK /\ (Over => flow.secrets = {})
  BY DEF TypeOK, FlowTypeOK, ControlOK, SerialInv, SecretsWiped
<1>2. ASSUME NEW f \in Flow, CancelNow(p, f)
      PROVE  /\ \A q \in Processes \ {p} : pc'[q] = pc[q]
             /\ pc'[p] \in {"dispose", "close", "browsers", "refused"}
             /\ flow'.secrets = {}
  BY <1>1, <1>2 DEF CancelNow, Go, Wiped, Flow, FirstRelease, Cannot, ControlOK
<1>3. CASE CancelFlow(p)
  <2> DEFINE f == [flow EXCEPT !.pauseRequested = FALSE]
  <2>1. f \in Flow /\ f.status = flow.status /\ f.secrets = flow.secrets
    BY <1>1 DEF Flow
  <2>2. onExit' = onExit /\ UNCHANGED world
    BY <1>3 DEF CancelFlow
  <2>3. CASE f.account
    BY <1>1, <1>3, <2>1, <2>2, <2>3 DEF CancelFlow, Alone, Over, ControlOK, world
  <2>4. CASE ~f.account
    <3>1. CancelNow(p, f)
      BY <1>3, <2>4 DEF CancelFlow
    <3> QED
      BY <1>2, <2>1, <2>2, <3>1 DEF Alone, world
  <2> QED
    BY <2>3, <2>4
<1>4. CASE CancelMarked(p)
  <2>1. row' = "complete" => row = "complete"
    BY <1>4 DEF CancelMarked, Marked
  <2> QED
    BY <1>1, <1>2, <1>4, <2>1 DEF CancelMarked, Alone
<1> QED
  BY <1>3, <1>4

(***************************************************************************)
(* Interruptions                                                           *)
(***************************************************************************)
\* CancelledError in the processes P, awaited by p at l.
LEMMA Interruption ==
    ASSUME TypeOK, NEW f \in Flow, f.status = flow.status, f.secrets = flow.secrets,
           NEW P, NEW p \in Processes, NEW l, Reap(p, l, P, f)
    PROVE  /\ flow'.status = flow.status /\ flow'.secrets = flow.secrets
           /\ UNCHANGED <<onExit, row, completion>>
           /\ pc'[p] = l
           /\ \A q \in Processes \ {p} :
                 pc'[q] = IF q \in P THEN Interrupted(q) ELSE pc[q]
           /\ \A q \in Processes \ {p} : Running(q)' => Running(q)
<1>1. flow'.status = flow.status /\ flow'.secrets = flow.secrets
  BY DEF Reap, Interrupt, Flow
<1>2. UNCHANGED <<onExit, row, completion>>
  BY DEF Reap, Interrupt
<1>3. /\ pc'[p] = l
      /\ \A q \in Processes \ {p} : pc'[q] = IF q \in P THEN Interrupted(q) ELSE pc[q]
  BY DEF Reap
<1>4. \A q \in Processes \ {p} : Running(q)' => Running(q)
  BY <1>3 DEF Interrupted, Running, Ended, At
<1> QED
  BY <1>1, <1>2, <1>3, <1>4

\* The operation is interrupted by somebody who reaps it then.
LEMMA CutInv ==
    ASSUME SerialInv, NEW P, \A t \in Tasks : Op(t) \in P => t = current,
           \A t \in Tasks : pc'[Op(t)] = IF Op(t) \in P THEN Interrupted(Op(t)) ELSE pc[Op(t)],
           flow'.status = flow.status, flow'.secrets = flow.secrets,
           UNCHANGED <<onExit, row, completion, current>>,
           ~At(Closer, "reap_task"), \A r \in Requests : ~At(Request(r), "reap_task"),
           \/ flow.status # "fetch_api_key"
           \/ (At(Closer, "reap_task") \/ \E r \in Requests : At(Request(r), "reap_task"))'
    PROVE  /\ OneInv' /\ ExitInv' /\ WorkInv' /\ StoreInv' /\ SecretsWiped'
           /\ NoOp => NoOp'
<1>1. \A t \in Tasks : /\ pc'[Op(t)] \in {pc[Op(t)], "email_cancelled", "complete_cancelled",
                                          "done"}
                       /\ Running(Op(t))' => Running(Op(t))
  BY DEF Interrupted, Running, Ended, At
<1>2. \A t \in Tasks : pc[Op(t)] # "complete_cancelled"
  BY DEF SerialInv, WorkInv, At
<1>3. \A t \in Tasks : /\ pc[Op(t)] \in Completing => pc'[Op(t)] \in Completing
                       /\ pc'[Op(t)] = "complete_cancelled" => pc[Op(t)] \in Completing
                       /\ pc'[Op(t)] = "email_cancelled" =>
                             Running(Op(t)) /\ pc[Op(t)] \notin Release
  BY <1>2 DEF Interrupted, Completing, At, Running, Ended, Release
<1>4. OneInv' /\ ExitInv' /\ SecretsWiped' /\ (NoOp => NoOp')
  BY <1>1 DEF SerialInv, OneInv, ExitInv, SecretsWiped, NoOp, Over
<1>5. WorkInv'
  <2> SUFFICES ASSUME NEW t \in Tasks
               PROVE  /\ Running(Op(t))' /\ pc'[Op(t)] \notin Release => ~Over'
                      /\ pc'[Op(t)] \in Completing \cup {"fetch"} =>
                            flow'.status = "fetch_api_key"
                      /\ At(Op(t), "submit_key")' => flow'.status = "manual_verify"
                      /\ At(Op(t), "complete_cancelled")' =>
                            (At(Closer, "reap_task")
                             \/ \E r \in Requests : At(Request(r), "reap_task"))'
                      /\ completion'[t] = "running" => pc'[Op(t)] \in Completing
    BY DEF WorkInv
  <2>1. CASE pc'[Op(t)] = pc[Op(t)]
    BY <1>2, <2>1 DEF SerialInv, WorkInv, At, Over, Running
  <2>2. CASE pc'[Op(t)] = "email_cancelled"
    BY <1>3, <2>2 DEF SerialInv, WorkInv, At, Over, Running, Completing
  <2>3. CASE pc'[Op(t)] = "complete_cancelled"
    BY <1>3, <2>3 DEF SerialInv, WorkInv, At, Over, Terminal, Completing
  <2>4. CASE pc'[Op(t)] = "done"
    BY <1>3, <2>4 DEF SerialInv, WorkInv, At, Running, Ended, Completing
  <2> QED
    BY <1>1, <2>1, <2>2, <2>3, <2>4
<1>6. StoreInv'
  BY <1>3 DEF SerialInv, StoreInv
<1> QED
  BY <1>4, <1>5, <1>6

\* A request reaps the timeout; no operation runs beside it.
LEMMA ReapTimerInv ==
    ASSUME TypeOK, SerialInv, NEW r \in Requests, Turn(r), At(Request(r), "idle"), ReapTimer(r)
    PROVE  SerialInv'
<1> DEFINE P == IF flow.manual # Nothing THEN {Timer(slot)} ELSE {}
<1>1. /\ slot \in Tasks /\ Running(Timer(slot)) /\ flow \in Flow
      /\ Reap(Request(r), "reap_timer", P, flow) /\ slot' = Nothing /\ current' = current
      /\ target' = [target EXCEPT ![r] = Timer(slot)] /\ target \in [Requests -> Processes]
  BY DEF ReapTimer, ReapFor, TimerRunning, TypeOK, FlowTypeOK, ControlOK
<1> HIDE DEF P
<1>2. /\ flow'.status = flow.status /\ flow'.secrets = flow.secrets
      /\ UNCHANGED <<onExit, row, completion>> /\ pc'[Request(r)] = "reap_timer"
      /\ \A q \in Processes \ {Request(r)} :
            pc'[q] = (IF q \in P THEN Interrupted(q) ELSE pc[q]) /\ (Running(q)' => Running(q))
  <2>1. Request(r) \in Processes
    BY ProcessNames
  <2> QED
    BY <1>1, <2>1, Interruption
<1>3. /\ \A t \in Tasks : pc'[Op(t)] = pc[Op(t)] /\ (Running(Timer(t))' => Running(Timer(t)))
      /\ \A q \in Requests \ {r} : pc'[Request(q)] = pc[Request(q)]
      /\ pc'[Closer] = pc[Closer]
  BY <1>1, <1>2, Apart, ProcessNames DEF P
<1>4. NoOp /\ \A u \in Tasks : Running(Timer(u)) => u = slot
  BY <1>1, TimerInSlot DEF SerialInv, TimerInv, At
<1>5. \A t \in Tasks : pc[Op(t)] # "complete_cancelled"
  BY <1>4 DEF NoOp, Running, Ended
<1>6. Aside
  BY <1>1, <1>2, <1>3, <1>5 DEF Aside, At
<1>7. OneInv' /\ ExitInv' /\ WorkInv' /\ StoreInv' /\ SecretsWiped'
  BY <1>6, AsideInv
<1>8. NoOp'
  BY <1>3, <1>4 DEF NoOp, Running
<1>9. AskInv' /\ RequestInv'
  BY <1>1, <1>2, <1>3, <1>8, TurnInv DEF At
<1>10. TimerInv'
  BY <1>1, <1>2, <1>3, <1>4, <1>8 DEF TimerInv, At
<1> QED
  BY <1>7, <1>9, <1>10 DEF SerialInv

\* A request reaps the operation: cancel() at any await, pause() at the wait for a code.
LEMMA ReapTaskInv ==
    ASSUME TypeOK, SerialInv, NEW r \in Requests, Turn(r), At(Request(r), "idle"),
           Running(Op(current)), current' = current,
           NEW f \in Flow, f.status = flow.status, f.secrets = flow.secrets,
           NEW l \in {"reap_task", "reap_pause"},
           l = "reap_task" \/ flow.status = "github_email_verify",
           ReapFor(r, l, Op(current), {Op(current)}, f)
    PROVE  SerialInv'
<1>1. /\ current \in Tasks /\ Reap(Request(r), l, {Op(current)}, f)
      /\ target' = [target EXCEPT ![r] = Op(current)] /\ target \in [Requests -> Processes]
  BY DEF ReapFor, TypeOK
<1>2. /\ flow'.status = flow.status /\ flow'.secrets = flow.secrets
      /\ UNCHANGED <<onExit, row, completion>> /\ pc'[Request(r)] = l
      /\ \A q \in Processes \ {Request(r)} :
            pc'[q] = IF q \in {Op(current)} THEN Interrupted(q) ELSE pc[q]
  <2>1. Request(r) \in Processes
    BY ProcessNames
  <2> QED
    BY <1>1, <2>1, Interruption
<1>3. /\ \A t \in Tasks :
            /\ pc'[Op(t)] = IF Op(t) \in {Op(current)} THEN Interrupted(Op(t)) ELSE pc[Op(t)]
            /\ pc'[Timer(t)] = pc[Timer(t)]
      /\ \A q \in Requests \ {r} : pc'[Request(q)] = pc[Request(q)]
      /\ pc'[Closer] = pc[Closer]
  BY <1>1, <1>2, Apart, ProcessNames
<1>4. /\ ~At(Closer, "reap_task") /\ \A q \in Requests : ~At(Request(q), "reap_task")
      /\ flow.status = "fetch_api_key" => At(Request(r), "reap_task")'
  BY <1>2, OthersAnswered DEF Turn, At
<1>5. OneInv' /\ ExitInv' /\ WorkInv' /\ StoreInv' /\ SecretsWiped'
  BY <1>1, <1>2, <1>3, <1>4, Apart, CutInv
<1>6. AskInv' /\ RequestInv'
  BY <1>1, <1>2, <1>3, TurnInv DEF Release, At
<1>7. \A u \in Tasks : ~Running(Timer(u))
  BY <1>1 DEF SerialInv, TimerInv, NoOp
<1>8. TimerInv'
  BY <1>3, <1>7 DEF TimerInv, Running
<1> QED
  BY <1>5, <1>6, <1>8 DEF SerialInv

(***************************************************************************)
(* The requests, one at a time                                             *)
(***************************************************************************)
\* resume() in the service.
LEMMA ResumeRequestInv ==
    ASSUME TypeOK, SerialInv, ~Overlap, NEW r \in Requests, AskResume(r) \/ ResumeReaped(r),
           StatusStep
    PROVE  SerialInv'
<1>1. CASE AskResume(r)
  <2>1. Turn(r) /\ At(Request(r), "idle")
    BY <1>1, TurnOf DEF AskResume, Ask, MayAsk
  <2>2. CASE \E a \in {"refused", "busy"} :
                Reply(r, a) /\ UNCHANGED <<slot, current, target>>
    BY <2>1, <2>2, AnsweredInv DEF Reply, Answer
  <2>3. CASE ReapTimer(r)
    BY <2>1, <2>3, ReapTimerInv
  <2>4. CASE flow.status \in Resumable /\ ~Busy /\ ~TimerRunning /\ StartTask(r)
    <3>1. NoOp /\ \A u \in Tasks : ~Running(Timer(u))
      BY <2>1, <2>4, TimerNone DEF SerialInv, OneInv, NoOp, Busy, At
    <3> QED
      BY <2>1, <2>4, <3>1, StartInv
  <2> QED
    BY <1>1, <2>2, <2>3, <2>4 DEF AskResume
<1>2. CASE ResumeReaped(r)
  <2>1. Turn(r) /\ At(Request(r), "reap_timer") /\ Reaped(r, "reap_timer")
    BY <1>2, TurnOf DEF ResumeReaped, Reaped, At, Unanswered, Answer
  <2>2. NoOp /\ slot = Nothing /\ \A u \in Tasks : ~Running(Timer(u))
    BY <2>1, TimerGone
  <2>3. CASE \E a \in {"refused", "failed"} : Reply(r, a)
    <3>1. Alone(Request(r)) /\ pc'[Request(r)] \in {"refused", "failed"}
      BY <2>3, ProcessNames
         DEF Reply, Alone, world, TypeOK, FlowTypeOK, ControlOK, SerialInv, SecretsWiped, Over
    <3> QED
      BY <2>1, <2>2, <3>1, RequestAloneInv
  <2>4. CASE flow.status \in Resumable /\ StartTask(r)
    BY <2>1, <2>2, <2>4, StartInv
  <2> QED
    BY <1>2, <2>3, <2>4 DEF ResumeReaped
<1> QED
  BY <1>1, <1>2

\* flow.cancel() in a request.
LEMMA CancelFlowInv ==
    ASSUME TypeOK, SerialInv, StatusStep, NEW r \in Requests, Turn(r), NoOp,
           \A u \in Tasks : Running(Timer(u)) => slot' = u,
           CancelFlow(Request(r)) \/ CancelMarked(Request(r))
    PROVE  SerialInv'
<1>1. /\ Alone(Request(r))
      /\ pc'[Request(r)] \in {"cancel_mark", "dispose", "close", "browsers", "refused"}
  BY ProcessNames, CancelAlone
<1> QED
  BY <1>1, RequestAloneInv

\* cancel() in the service.
LEMMA CancelRequestInv ==
    ASSUME TypeOK, SerialInv, ~Overlap, NEW r \in Requests, StatusStep,
           AskCancel(r) \/ CancelReapedTimer(r) \/ CancelReapedTask(r)
    PROVE  SerialInv'
<1>1. ASSUME Turn(r), \E a \in Answer : Reply(r, a), NoOp,
             \A u \in Tasks : Running(Timer(u)) => slot' = u
      PROVE  SerialInv'
  <2>1. Alone(Request(r)) /\ pc'[Request(r)] \in Answer
    BY <1>1, ProcessNames
       DEF Reply, Alone, world, TypeOK, FlowTypeOK, ControlOK, SerialInv, SecretsWiped, Over
  <2> QED
    BY <1>1, <2>1, RequestAloneInv DEF Answer
<1>2. CASE AskCancel(r)
  <2>1. Turn(r) /\ At(Request(r), "idle")
    BY <1>2, TurnOf DEF AskCancel, Ask, MayAsk
  <2>2. CASE ReapTimer(r)
    BY <2>1, <2>2, ReapTimerInv
  <2>3. CASE ~TimerRunning /\ CancelTask(r)
    <3>1. \A u \in Tasks : ~Running(Timer(u))
      BY <2>1, <2>3, TimerNone DEF At
    <3>2. CASE Running(Op(current))
      BY <2>1, <2>3, <3>2, ReapTaskInv DEF CancelTask, TypeOK, FlowTypeOK, ControlOK
    <3>3. CASE ~Running(Op(current))
      <4>1. NoOp /\ CancelFlow(Request(r))
        BY <2>3, <3>3 DEF CancelTask, SerialInv, OneInv, NoOp
      <4> QED
        BY <2>1, <3>1, <4>1, CancelFlowInv
    <3> QED
      BY <3>2, <3>3
  <2> QED
    BY <1>2, <2>2, <2>3 DEF AskCancel
<1>3. CASE CancelReapedTimer(r)
  <2>1. Turn(r) /\ Reaped(r, "reap_timer")
    BY <1>3, TurnOf DEF CancelReapedTimer, Reaped, At, Unanswered, Answer
  <2>2. NoOp /\ \A u \in Tasks : ~Running(Timer(u))
    BY <2>1, TimerGone
  <2>3. current \in Tasks
    BY DEF TypeOK
  <2>4. CancelFlow(Request(r)) \/ Reply(r, "failed")
    BY <1>3, <2>2, <2>3 DEF CancelReapedTimer, CancelTask, NoOp
  <2> QED
    BY <1>1, <2>1, <2>2, <2>4, CancelFlowInv DEF Answer
<1>4. CASE CancelReapedTask(r)
  <2>1. /\ Turn(r) /\ At(Request(r), "reap_task") /\ ~Running(target[r])
        /\ (CancelFlow(Request(r)) \/ Reply(r, "failed")) /\ slot' = slot
    BY <1>4, TurnOf DEF CancelReapedTask, Reaped, At, Unanswered, Answer
  <2>2. NoOp
    BY <2>1 DEF SerialInv, RequestInv, OneInv, NoOp, At
  <2>3. \A u \in Tasks : Running(Timer(u)) => slot' = u
    BY <2>1, TimerInSlot DEF At
  <2> QED
    BY <1>1, <2>1, <2>2, <2>3, CancelFlowInv DEF Answer
<1> QED
  BY <1>2, <1>3, <1>4

\* pause() in the service.
LEMMA PauseRequestInv ==
    ASSUME TypeOK, SerialInv, ~Overlap, NEW r \in Requests, StatusStep,
           AskPause(r) \/ PauseReaped(r)
    PROVE  SerialInv'
<1> DEFINE f == [flow EXCEPT !.pauseRequested = TRUE]
<1>1. f \in Flow /\ f.status = flow.status /\ f.secrets = flow.secrets /\ flow \in Flow
  BY DEF TypeOK, FlowTypeOK, ControlOK, Flow
<1>2. ASSUME NEW g \in Flow, g.status = "github_email_verify", PauseAfterInterruption(r, g),
             slot' = slot, Turn(r), NoOp, ~At(Request(r), "reap_timer")
      PROVE  SerialInv'
  <2>1. flow'.status = "manual_verify"
    <3>1. {"manual_verify", "github_email_verify"} \subseteq Status
      BY DEF Status, Pausable, Resumable
    <3>2. PausedAt(g, "github_email_verify") \in Flow
      BY <1>2, <3>1, FlowUpdates
    <3> QED
      BY <1>2, <3>1, <3>2, FlowUpdates DEF PauseAfterInterruption
  <2>2. pc' = [pc EXCEPT ![Request(r)] = "accepted"] /\ UNCHANGED <<onExit, world>>
    BY <1>2 DEF PauseAfterInterruption
  <2>3. Alone(Request(r)) /\ pc'[Request(r)] = "accepted"
    BY <2>1, <2>2, ProcessNames
       DEF Alone, world, TypeOK, FlowTypeOK, ControlOK, Over, Terminal
  <2>4. \A u \in Tasks : Running(Timer(u)) => slot' = u
    BY <1>2, TimerInSlot
  <2> QED
    BY <1>2, <2>3, <2>4, RequestAloneInv
<1>3. CASE AskPause(r)
  <2>1. Turn(r) /\ At(Request(r), "idle") /\ UNCHANGED <<slot, current>>
    BY <1>3, TurnOf DEF AskPause, Ask, MayAsk
  <2>2. CASE Reply(r, "refused") /\ UNCHANGED target
    BY <2>1, <2>2, AnsweredInv DEF Reply, Answer
  <2>3. CASE flow' = f /\ pc' = [pc EXCEPT ![Request(r)] = "accepted"]
             /\ UNCHANGED <<onExit, world, target>>
    BY <1>1, <2>1, <2>3, AnsweredInv DEF Answer
  <2>4. CASE CanInterruptForPause /\ Running(Op(current))
             /\ ReapFor(r, "reap_pause", Op(current), {Op(current)}, f)
    BY <1>1, <2>1, <2>4, ReapTaskInv DEF CanInterruptForPause
  <2>5. CASE CanInterruptForPause /\ ~Running(Op(current)) /\ PauseAfterInterruption(r, f)
    <3>1. NoOp /\ f.status = "github_email_verify"
      BY <1>1, <2>5 DEF SerialInv, OneInv, NoOp, CanInterruptForPause
    <3> QED
      BY <1>1, <1>2, <2>1, <2>5, <3>1 DEF At
  <2> QED
    BY <1>3, <2>2, <2>3, <2>4, <2>5 DEF AskPause
<1>4. CASE PauseReaped(r)
  <2>1. Turn(r) /\ At(Request(r), "reap_pause") /\ ~Running(target[r]) /\ slot' = slot
    BY <1>4, TurnOf DEF PauseReaped, Reaped, At, Unanswered, Answer
  <2>2. NoOp
    BY <2>1 DEF SerialInv, RequestInv, OneInv, NoOp, At
  <2>3. CASE \E a \in {"failed", "accepted"} : Reply(r, a)
    <3>1. Alone(Request(r)) /\ pc'[Request(r)] \in {"failed", "accepted"}
      BY <2>3, ProcessNames
         DEF Reply, Alone, world, TypeOK, FlowTypeOK, ControlOK, SerialInv, SecretsWiped, Over
    <3>2. \A u \in Tasks : Running(Timer(u)) => slot' = u
      BY <2>1, TimerInSlot DEF At
    <3> QED
      BY <2>1, <2>2, <3>1, <3>2, RequestAloneInv
  <2>4. CASE flow.status = "github_email_verify" /\ PauseAfterInterruption(r, flow)
    BY <1>1, <1>2, <2>1, <2>2, <2>4 DEF At
  <2> QED
    BY <1>4, <2>3, <2>4 DEF PauseReaped
<1> QED
  BY <1>3, <1>4

\* The rest of a request.
LEMMA RequestTailInv ==
    ASSUME TypeOK, SerialInv, ~Overlap, NEW r \in Requests, StatusStep,
           CancelMarked(Request(r)) \/ TailStep(Request(r)), UNCHANGED service
    PROVE  SerialInv'
<1>1. pc[Request(r)] \in {"cancel_mark"} \cup Release /\ slot' = slot
  BY ProcessNames, TailAlone
     DEF CancelMarked, TailStep, MailboxDisposed, BrowserClosed, BrowserCloseFails, Cleared,
         At, Release, SerialInv, ExitInv
<1>2. Turn(r) /\ NoOp
  BY <1>1, TurnOf DEF Unanswered, Answer, Release, SerialInv, RequestInv
<1>3. \A u \in Tasks : Running(Timer(u)) => slot' = u
  BY <1>1, <1>2, TimerInSlot DEF At, Release
<1>4. CASE CancelMarked(Request(r))
  BY <1>2, <1>3, <1>4, CancelFlowInv
<1>5. CASE TailStep(Request(r))
  <2>1. Request(r) \in Processes /\ onExit[Request(r)] = "answer"
    BY ProcessNames DEF SerialInv, ExitInv
  <2>2. Alone(Request(r))
    BY <1>5, <2>1, TailAlone
  <2>3. pc'[Request(r)] \in {"close", "clear", "failed", "accepted"}
    BY <1>5, <2>1
       DEF TailStep, MailboxDisposed, BrowserClosed, BrowserCloseFails, Cleared, Goto,
           ThrownTo, ReturnedTo, TypeOK, FlowTypeOK, ControlOK
  <2> QED
    BY <1>2, <1>3, <2>2, <2>3, RequestAloneInv
<1> QED
  BY <1>4, <1>5

(***************************************************************************)
(* The shutdown and the background                                         *)
(***************************************************************************)
\* close() interrupts the operation and the timeout.
LEMMA ShutDownInv ==
    ASSUME TypeOK, SerialInv, ShutDown
    PROVE  SerialInv'
<1> DEFINE P == {Op(current)} \cup {Timer(t) : t \in {slot} \cap Tasks}
<1>1. /\ At(Closer, "idle") /\ \A r \in Requests : ~Unanswered(r)
      /\ Reap(Closer, "reap_task", P, flow) /\ UNCHANGED <<slot, service>>
      /\ current \in Tasks /\ flow \in Flow /\ Closer \in Processes
  BY ProcessNames DEF ShutDown, TypeOK, FlowTypeOK, ControlOK
<1>2. \A t \in Tasks : Op(t) \in P => t = current
  BY <1>1, Apart
<1>3. \A r \in Requests : Request(r) \notin P
  BY <1>1, Apart
<1> HIDE DEF P
<1>4. /\ flow'.status = flow.status /\ flow'.secrets = flow.secrets
      /\ UNCHANGED <<onExit, row, completion>> /\ pc'[Closer] = "reap_task"
      /\ \A q \in Processes \ {Closer} :
            pc'[q] = (IF q \in P THEN Interrupted(q) ELSE pc[q]) /\ (Running(q)' => Running(q))
  <2>1. Reap(Closer, "reap_task", P, flow) /\ flow \in Flow /\ Closer \in Processes
    BY <1>1
  <2> QED
    BY <2>1, Interruption
<1>5. /\ \A t \in Tasks :
            /\ pc'[Op(t)] = IF Op(t) \in P THEN Interrupted(Op(t)) ELSE pc[Op(t)]
            /\ Running(Timer(t))' => Running(Timer(t))
      /\ \A r \in Requests : pc'[Request(r)] = pc[Request(r)]
  BY <1>3, <1>4, Apart, ProcessNames
<1>6. \A r \in Requests : pc[Request(r)] \notin
         {"reap_timer", "reap_task", "reap_pause", "cancel_mark"} \cup Release
  BY <1>1 DEF Unanswered, Answer, Release
<1>7. /\ OneInv' /\ ExitInv' /\ WorkInv' /\ StoreInv' /\ SecretsWiped'
      /\ NoOp => NoOp'
  BY <1>1, <1>2, <1>4, <1>5, <1>6, CutInv DEF At, service
<1>8. AskInv'
  BY <1>1, <1>4, <1>5 DEF AskInv, At, Unanswered
<1>9. TimerInv'
  BY <1>1, <1>5, <1>6, <1>7 DEF SerialInv, TimerInv, At
<1>10. RequestInv'
  BY <1>5, <1>6 DEF RequestInv, At
<1> QED
  BY <1>7, <1>8, <1>9, <1>10 DEF SerialInv

\* The rest of close(): the operation has ended, and no request is served.
LEMMA CloserInv ==
    ASSUME TypeOK, SerialInv, StatusStep, CloserStep
    PROVE  SerialInv'
<1>1. ~At(Closer, "idle") /\ slot' = slot /\ UNCHANGED service /\ Closer \in Processes
      /\ onExit[Closer] = "shutdown"
  BY ProcessNames, TailAlone
     DEF CloserStep, CloserReapedTask, CloserReapedTimer, CloseBrowsers, CancelMarked, TailStep,
         MailboxDisposed, BrowserClosed, BrowserCloseFails, Cleared, Goto, At, SerialInv,
         ExitInv
<1>2. NoOp
  <2>1. CASE CloserReapedTask
    BY <2>1 DEF CloserReapedTask, SerialInv, OneInv, NoOp
  <2>2. CASE pc[Closer] \notin {"idle", "reap_task"}
    BY <2>2 DEF SerialInv, AskInv
  <2> QED
    BY <2>1, <2>2
       DEF CloserStep, CloserReapedTimer, CloseBrowsers, CancelMarked, TailStep,
           MailboxDisposed, BrowserClosed, BrowserCloseFails, Cleared, At
<1>3. Alone(Closer) /\ ~At(Closer, "idle")'
  <2>1. CASE \E l \in {"crashed", "reap_timer", "browsers"} : CloserGoto(l)
    BY <1>1, <2>1
       DEF CloserGoto, Alone, world, At, TypeOK, FlowTypeOK, ControlOK, SerialInv, SecretsWiped,
           Over
  <2>2. CASE CloseBrowsers
    BY <1>1, <2>2
       DEF CloseBrowsers, Goto, Alone, At, TypeOK, FlowTypeOK, ControlOK, SerialInv,
           SecretsWiped, Over
  <2>3. CASE CancelFlow(Closer) \/ CancelMarked(Closer)
    BY <1>1, <2>3, CancelAlone DEF At
  <2>4. CASE TailStep(Closer)
    <3>1. Alone(Closer)
      BY <1>1, <2>4, TailAlone
    <3>2. pc'[Closer] \in {"close", "clear", "crashed", "browsers"}
      BY <1>1, <2>4 DEF TailStep, MailboxDisposed, BrowserClosed, BrowserCloseFails, Cleared,
           Goto, ThrownTo, ReturnedTo, TypeOK, FlowTypeOK, ControlOK
    <3> QED
      BY <3>1, <3>2 DEF At
  <2> QED
    BY <2>1, <2>2, <2>3, <2>4 DEF CloserStep, CloserReapedTask, CloserReapedTimer
<1>4. NoOp' /\ OneInv' /\ ExitInv' /\ WorkInv' /\ StoreInv' /\ SecretsWiped'
  BY <1>2, <1>3, Apart, AloneQuiet, QuietInv
<1>5. /\ \A r \in Requests : pc'[Request(r)] = pc[Request(r)]
      /\ \A t \in Tasks : pc'[Timer(t)] = pc[Timer(t)]
  BY <1>3, Apart, ProcessNames DEF Alone
<1>6. AskInv'
  BY <1>1, <1>4, <1>5 DEF SerialInv, AskInv, Unanswered, At
<1>7. TimerInv'
  BY <1>1, <1>4, <1>5 DEF SerialInv, TimerInv, Running, At, service
<1>8. RequestInv'
  BY <1>1, <1>4, <1>5 DEF SerialInv, RequestInv, At, service
<1> QED
  BY <1>4, <1>6, <1>7, <1>8 DEF SerialInv

\* The completion task and stray jobs.
LEMMA BackgroundInv ==
    ASSUME TypeOK, SerialInv, BackgroundStep
    PROVE  SerialInv'
<1>1. UNCHANGED <<flow, pc, onExit, slot, service>>
  BY DEF BackgroundStep, CompletionStep, CompletionCommits, CompletionFails, Land, control
<1>2. OneInv' /\ AskInv' /\ TimerInv' /\ RequestInv' /\ ExitInv' /\ SecretsWiped'
  BY <1>1 DEF SerialInv, OneInv, AskInv, TimerInv, RequestInv, ExitInv, SecretsWiped, NoOp,
              Over, Running, At, Unanswered, service
<1>3. WorldOK
  BY DEF TypeOK, FlowTypeOK
<1>4. WorkInv' /\ StoreInv'
  <2>1. CASE \E t \in Tasks : CompletionStep(t)
    <3>1. PICK t \in Tasks : CompletionStep(t)
      BY <2>1
    <3>2. /\ completion[t] = "running" /\ completion'[t] \in {"committed", "failed"}
          /\ \A u \in Tasks \ {t} : completion'[u] = completion[u]
          /\ row' = "complete" => row = "complete" \/ completion'[t] = "committed"
      BY <1>3, <3>1 DEF CompletionStep, CompletionCommits, CompletionFails, WorldOK
    <3>3. WorkInv'
      BY <1>1, <3>2 DEF SerialInv, WorkInv, At, Over, Running
    <3>4. StoreInv'
      BY <1>1, <3>2 DEF SerialInv, StoreInv, WorkInv
    <3> QED
      BY <3>3, <3>4
  <2>2. CASE \E job \in stray : Land(job)
    <3>1. completion' = completion /\ (row' = "complete" => row = "complete")
      BY <2>2 DEF Land, Marked
    <3> QED
      BY <1>1, <3>1 DEF SerialInv, WorkInv, StoreInv, At, Over, Running
  <2> QED
    BY <2>1, <2>2 DEF BackgroundStep
<1> QED
  BY <1>2, <1>4 DEF SerialInv

(***************************************************************************)
(* The theorems                                                            *)
(***************************************************************************)
\* The invariant holds when create() has returned.
LEMMA SerialInit == Init => SerialInv
<1> SUFFICES ASSUME Init PROVE SerialInv
  OBVIOUS
<1>1. /\ \A t \in Tasks : /\ pc[Op(t)] = IF t = Create THEN "begin" ELSE "absent"
                          /\ pc[Timer(t)] = "absent" /\ completion[t] = "none"
                          /\ onExit[Op(t)] = "return" /\ onExit[Timer(t)] = "handler"
      /\ \A r \in Requests : pc[Request(r)] = "idle" /\ onExit[Request(r)] = "answer"
      /\ pc[Closer] = "idle" /\ onExit[Closer] = "shutdown"
      /\ row = "absent" /\ flow = FreshFlow /\ current = Create
  BY ProcessNames DEF Init, FlowInit, Op, Timer, Request, Closer
<1>2. OneInv /\ AskInv /\ TimerInv /\ RequestInv /\ ExitInv /\ StoreInv
  BY <1>1 DEF OneInv, AskInv, TimerInv, RequestInv, ExitInv, StoreInv, Running, Ended, At,
              Unanswered, Release
<1>3. WorkInv /\ SecretsWiped
  BY <1>1 DEF WorkInv, SecretsWiped, Over, FreshFlow, Terminal, Completing, At, Running, Ended
<1> QED
  BY <1>2, <1>3 DEF SerialInv

\* Every step keeps it.
LEMMA SerialStep ==
    ASSUME ~Overlap, IInv, SerialInv, [Next]_vars
    PROVE  SerialInv'
<1>1. TypeOK
  BY DEF IInv
<1>2. CASE UNCHANGED vars
  BY <1>2 DEF vars, flowVars, world, service, SerialInv, OneInv, AskInv, TimerInv, RequestInv,
              ExitInv, WorkInv, StoreInv, SecretsWiped, NoOp, Over, Running, At, Unanswered
<1>3. CASE Next
  <2>1. Sound /\ StatusStep
    BY <1>1, <1>3, NextSound DEF Sound, ControlStep
  <2>2. CASE \E t \in Tasks : OperationStep(t) \/ TimeoutStep(t)
    BY <1>1, <2>1, <2>2, OperationInv, TimeoutInv
  <2>3. CASE \E r \in Requests : AskResume(r) \/ AskCancel(r) \/ AskPause(r) \/ RequestStep(r)
    BY <1>1, <2>1, <2>3, ResumeRequestInv, CancelRequestInv, PauseRequestInv, RequestTailInv
       DEF RequestStep
  <2>4. CASE ShutDown \/ CloserStep \/ BackgroundStep
    BY <1>1, <2>1, <2>4, ShutDownInv, CloserInv, BackgroundInv
  <2> QED
    BY <1>3, <2>2, <2>3, <2>4 DEF Next
<1> QED
  BY <1>2, <1>3

\* The inductive invariant of a flow whose requests are sent one after the other.
THEOREM SerialInvariant == ASSUME ~Overlap PROVE Spec => []SerialInv
<1>1. SerialInv /\ IInv /\ [Next]_vars => SerialInv'
  BY SerialStep
<1> QED
  BY <1>1, SerialInit, Invariant, PTL DEF Spec

\* At most one operation drives the flow and its browser.
THEOREM OneOperation == ASSUME ~Overlap PROVE Spec => []SingleOperation
<1>1. SerialInv => SingleOperation
  BY DEF SerialInv, OneInv, SingleOperation
<1> QED
  BY <1>1, SerialInvariant, PTL

\* A flow that has ended holds no secret.
THEOREM Wipes == ASSUME ~Overlap PROVE Spec => []SecretsWiped
<1>1. SerialInv => SecretsWiped
  BY DEF SerialInv
<1> QED
  BY <1>1, SerialInvariant, PTL

\* A stored account is reported, or about to be by a running operation.
LEMMA SerialReports == SerialInv => StoredIsReported
<1> SUFFICES ASSUME SerialInv, row = "complete", flow.status # "done"
             PROVE  flow.status = "fetch_api_key" /\ \E t \in Tasks : Running(Op(t))
  BY DEF StoredIsReported
<1>1. PICK t \in Tasks : pc[Op(t)] \in Completing
  BY DEF SerialInv, StoreInv
<1> QED
  BY <1>1 DEF SerialInv, WorkInv, Running, Ended, Completing

\* A stored account is never lost sight of: the flow is done, or will be.
THEOREM StoredReported == ASSUME ~Overlap PROVE Spec => []StoredIsReported
  BY SerialReports, SerialInvariant, PTL

\* The timeout of a manual intervention fails no flow that an operation drives.
THEOREM TimeoutSpares == ASSUME ~Overlap PROVE Spec => TimeoutSparesWork
<1>1. SerialInv /\ [Next]_vars =>
         [\A t, u \in Tasks :
             At(Timer(t), "sleep") /\ pc'[Timer(t)] \in Tail => ~Running(Op(u))]_vars
  BY DEF SerialInv, TimerInv, NoOp, At, Running, Ended
<1> QED
  BY <1>1, SerialInvariant, PTL DEF Spec, TimeoutSparesWork

(***************************************************************************)
(* The refinement of FlowLifecycle                                         *)
(***************************************************************************)
\* Where a row may come from: the credentials reach an absent row, a completion a pending
\* one, and every other step leaves the row pending or alone.
Kept == row' = row \/ (row \in PendingRow /\ row' \in PendingRow)

\* _mark_pending_status only moves a row among the pending statuses.
LEMMA MarkKept == \A s \in PendingRow : row' \in {row, Marked(s)} => Kept
  BY DEF Marked, Kept

\* Of the steps of an operation only persist_pending adds a row.
LEMMA OperationRow ==
    ASSUME NEW t \in Tasks, OperationStep(t)
    PROVE  Kept \/ CredentialsPersisted(t)
<1>1. CASE PaymentMarked(t) \/ FailMarked(Op(t))
  BY <1>1, MarkKept DEF PaymentMarked, FailMarked, PendingRow
<1>2. CASE \/ Start(t) \/ EmailCreated(t) \/ EmailFailed(t)
           \/ EmailCreatedInVain(t) \/ EmailDisposedInVain(t)
           \/ UsernameTaken(t) \/ GithubBlocked(t) \/ GithubAsksCode(t)
           \/ GithubCompleted(t) \/ GithubFailed(t)
  BY <1>2 DEF Start, EmailCreated, EmailFailed, EmailCreatedInVain, EmailDisposedInVain,
              UsernameTaken, GithubBlocked, GithubAsksCode, GithubCompleted, GithubFailed,
              world, Kept
<1>3. CASE \/ ScreenshotTaken(t) \/ ScreenshotSaved(t) \/ CodeArrived(t) \/ CodeMissing(t)
           \/ CredentialsRefused(t) \/ PaymentRequired(t) \/ AuthSaved(t)
           \/ OpenCodeBlocked(t) \/ ApiKeyObtained(t) \/ OpenCodeFailed(t)
           \/ CompletionAwaited(t)
  BY <1>3 DEF ScreenshotTaken, ScreenshotSaved, CodeArrived, CodeMissing, CredentialsRefused,
              PaymentRequired, AuthSaved, OpenCodeBlocked, ApiKeyObtained, OpenCodeFailed,
              CompletionAwaited, world, Kept
<1>4. CASE TailStep(Op(t))
  BY <1>4 DEF TailStep, MailboxDisposed, BrowserClosed, BrowserCloseFails, Cleared, world, Kept
<1>5. CASE Resume(t, t \in Requests /\ kind[t] = "resume_key")
  BY <1>5 DEF Resume, Kept
<1> QED
  BY <1>1, <1>2, <1>3, <1>4, <1>5 DEF OperationStep, OpStep

\* Requests, timeouts and the shutdown do no more than mark one.
LEMMA ServiceRow ==
    ASSUME \/ \E t \in Tasks : TimeoutStep(t)
           \/ \E r \in Requests : AskResume(r) \/ AskCancel(r) \/ AskPause(r) \/ RequestStep(r)
           \/ ShutDown \/ CloserStep
    PROVE  Kept
<1>1. ASSUME NEW p, TailStep(p) \/ FailMarked(p) \/ CancelMarked(p) PROVE Kept
  BY <1>1, MarkKept
     DEF TailStep, MailboxDisposed, BrowserClosed, BrowserCloseFails, Cleared, FailMarked,
         CancelMarked, world, PendingRow, Kept
<1>2. ASSUME NEW t \in Tasks, TimeoutStep(t) PROVE Kept
  BY <1>1, <1>2 DEF TimeoutStep, TimerStep, Expire, world, Kept
<1>3. ASSUME NEW r \in Requests, AskResume(r) \/ AskCancel(r) \/ AskPause(r) PROVE Kept
  BY <1>3 DEF AskResume, AskCancel, AskPause, Reply, ReapTimer, ReapFor, Reap, Interrupt,
              StartTask, CancelTask, CancelFlow, PauseAfterInterruption, world, Kept
<1>4. ASSUME NEW r \in Requests, RequestStep(r) PROVE Kept
  BY <1>1, <1>4
     DEF RequestStep, ResumeReaped, CancelReapedTimer, CancelReapedTask, PauseReaped, Reply,
         ReapFor, Reap, Interrupt, StartTask, CancelTask, CancelFlow, PauseAfterInterruption,
         world, Kept
<1>5. CASE ShutDown \/ CloserStep
  BY <1>1, <1>5
     DEF ShutDown, CloserStep, CloserReapedTask, CloserReapedTimer, CloserGoto, CloseBrowsers,
         CancelFlow, Reap, Interrupt, world, Kept
<1> QED
  BY <1>2, <1>3, <1>4, <1>5

\* A step of the background keeps the flow.
LEMMA BackgroundRow ==
    ASSUME BackgroundStep
    PROVE  /\ flow' = flow
           /\ \/ Kept
              \/ row = "absent" /\ row' = "pending_setup"
              \/ \E t \in Tasks : CompletionCommits(t)
<1>1. ASSUME NEW job \in stray, Land(job)
      PROVE  Kept \/ (row = "absent" /\ row' = "pending_setup")
  <2>1. CASE job = "persist"
    BY <1>1, <2>1 DEF Land, Kept
  <2>2. CASE job \in {"mark_payment", "fail_mark"}
    BY <1>1, <2>2, MarkKept DEF Land, PendingRow
  <2>3. CASE job \notin {"persist", "mark_payment", "fail_mark"}
    BY <1>1, <2>3 DEF Land, Kept
  <2> QED
    BY <2>1, <2>2, <2>3
<1>2. ASSUME NEW t \in Tasks, CompletionFails(t) PROVE Kept
  BY <1>2 DEF CompletionFails, Kept
<1>3. flow' = flow
  BY DEF BackgroundStep, CompletionStep, CompletionCommits, CompletionFails, Land, control
<1> QED
  BY <1>1, <1>2, <1>3 DEF BackgroundStep, CompletionStep

\* The credentials reach the vault in a flow that goes on to OpenCode or fails later.
LEMMA CredentialsReach ==
    ASSUME TypeOK, SerialInv, NEW t \in Tasks, CredentialsPersisted(t)
    PROVE  /\ row = "absent" /\ row' = "pending_setup" /\ flow.status \notin Terminal
           /\ flow'.status \in {flow.status, "opencode_login"}
<1> DEFINE f == [flow EXCEPT !.account = TRUE]
<1>1. pc[Op(t)] = "persist" /\ Running(Op(t)) /\ pc[Op(t)] \notin Release
  BY DEF CredentialsPersisted, At, Running, Ended, Release
<1>2. Alive(flow)
  BY <1>1, AtWork
<1>3. Alive(f) /\ f.status = flow.status /\ f.account
  BY <1>2, FieldUpdates DEF Alive, Flow
<1>4. CASE CanGo(f.status, "opencode_login")
  <2>1. flow' = Go(f, "opencode_login") /\ "opencode_login" \in Status
    BY <1>4 DEF CredentialsPersisted, Move, Goto, Status
  <2> QED
    BY <1>2, <1>3, <2>1, FlowUpdates DEF CredentialsPersisted, Alive
<1>5. CASE ~CanGo(f.status, "opencode_login")
  <2>1. Fail(Op(t), f, "handler")
    BY <1>3, <1>5 DEF CredentialsPersisted, Move, Raise, Alive
  <2>2. flow' = [f EXCEPT !.pauseRequested = FALSE]
    BY <1>3, <2>1 DEF Fail, Alive, Flow
  <2>3. flow'.status = f.status
    BY <1>3, <2>2 DEF Alive, Flow
  <2> QED
    BY <1>2, <1>3, <2>3 DEF CredentialsPersisted, Alive
<1> QED
  BY <1>4, <1>5

\* The refinement mapping.
Phase(s) == IF s \in Terminal THEN s ELSE IF s \in Resumable THEN "waiting" ELSE "working"
Account(v) == IF v = "absent" THEN "none" ELSE IF v = "complete" THEN "stored" ELSE "pending"

\* A row that stays in its class: the flow moves between its phases, ends as done once the
\* account is stored, and otherwise only while it is not.
LEMMA KeptPromise ==
    ASSUME IInv, IInv', SerialInv, SerialInv', StatusStep, Kept
    PROVE  [Lifecycle!Next]_<<Phase(flow.status), Account(row)>>
<1>1. Account(row') = Account(row)
  BY DEF Kept, Account, PendingRow
<1>2. CASE Over
  BY <1>1, <1>2 DEF StatusStep
<1>3. CASE ~Over /\ flow'.status \notin Terminal
  BY <1>1, <1>3 DEF Over, Phase, Account, Lifecycle!Next, Lifecycle!Wait, Lifecycle!Continue
<1>4. CASE ~Over /\ flow'.status = "done"
  <2>1. row = "complete"
    BY <1>4 DEF IInv, DoneIsStored, Kept, PendingRow
  <2>2. flow.status = "fetch_api_key"
    BY <1>4, <2>1, SerialReports DEF StoredIsReported, Over, Terminal
  <2>3. Phase(flow.status) = "working" /\ Phase(flow'.status) = "done"
        /\ Account(row) = "stored"
    BY <1>4, <2>1, <2>2 DEF Phase, Account, Terminal, Resumable
  <2> QED
    BY <1>1, <2>3 DEF Phase, Account, Lifecycle!Next, Lifecycle!Finish
<1>5. CASE ~Over /\ flow'.status \in {"error", "cancelled"}
  <2>1. row' # "complete"
    BY <1>5 DEF SerialInv, StoreInv, WorkInv
  <2>2. Account(row) # "stored"
    BY <1>1, <2>1 DEF Account
  <2>3. /\ Phase(flow.status) \in {"working", "waiting"}
        /\ Phase(flow'.status) \in {"error", "cancelled"}
    BY <1>5 DEF Phase, Over, Terminal
  <2> QED
    BY <1>1, <2>2, <2>3
       DEF Phase, Account, Lifecycle!Next, Lifecycle!Abandon, Lifecycle!Ongoing
<1> QED
  BY <1>2, <1>3, <1>4, <1>5 DEF Terminal

\* A row that is added, with the flow as it was or at OpenCode's login.
LEMMA AddedPromise ==
    ASSUME row = "absent", row' = "pending_setup",
           \/ flow' = flow
           \/ flow.status \notin Terminal /\ flow'.status \in {flow.status, "opencode_login"}
    PROVE  [Lifecycle!Next]_<<Phase(flow.status), Account(row)>>
<1>1. Account(row) = "none" /\ Account(row') = "pending"
  BY DEF Account
<1>2. \/ Phase(flow'.status) = Phase(flow.status)
      \/ Phase(flow.status) = "waiting" /\ Phase(flow'.status) = "working"
  BY DEF Phase, Terminal, Resumable
<1> QED
  BY <1>1, <1>2 DEF Phase, Account, Lifecycle!Next, Lifecycle!Register

\* A completion that commits, in a flow at work.
LEMMA CommitPromise ==
    ASSUME SerialInv, NEW t \in Tasks, CompletionCommits(t)
    PROVE  [Lifecycle!Next]_<<Phase(flow.status), Account(row)>>
<1>1. flow.status = "fetch_api_key" /\ flow' = flow
  BY DEF CompletionCommits, control, SerialInv, WorkInv
<1>2. Account(row) = "pending" /\ Account(row') = "stored"
  BY DEF CompletionCommits, Account, PendingRow
<1>3. Phase(flow.status) = "working" /\ Phase(flow'.status) = "working"
  BY <1>1 DEF Phase, Terminal, Resumable
<1> QED
  BY <1>2, <1>3 DEF Phase, Account, Lifecycle!Next, Lifecycle!Store

\* Every step is one of the lifecycle, or a stutter.
LEMMA NextPromise ==
    ASSUME IInv, IInv', SerialInv, SerialInv', [Next]_vars
    PROVE  [Lifecycle!Next]_<<Phase(flow.status), Account(row)>>
<1>1. CASE UNCHANGED vars
  BY <1>1 DEF vars, flowVars, world
<1>2. CASE Next
  <2>1. StatusStep /\ TypeOK
    BY <1>2, NextSound DEF IInv, Sound, ControlStep
  <2>2. CASE \E t \in Tasks : OperationStep(t)
    BY <2>1, <2>2, OperationRow, KeptPromise, CredentialsReach, AddedPromise
  <2>3. CASE BackgroundStep
    BY <2>1, <2>3, BackgroundRow, KeptPromise, AddedPromise, CommitPromise
  <2>4. CASE \/ \E t \in Tasks : TimeoutStep(t)
             \/ \E r \in Requests :
                   AskResume(r) \/ AskCancel(r) \/ AskPause(r) \/ RequestStep(r)
             \/ ShutDown \/ CloserStep
    BY <2>1, <2>4, ServiceRow, KeptPromise
  <2> QED
    BY <1>2, <2>2, <2>3, <2>4 DEF Next
<1> QED
  BY <1>1, <1>2

\* With one request at a time the flow implements the lifecycle its user is promised.
THEOREM Refinement == ASSUME ~Overlap PROVE Spec => LifecycleSpec
<1>1. Init => Lifecycle!Init
  BY DEF Init, FlowInit, FreshFlow, Terminal, Resumable, Lifecycle!Init
<1>2. IInv /\ IInv' /\ SerialInv /\ SerialInv' /\ [Next]_vars =>
         [Lifecycle!Next]_<<Phase(flow.status), Account(row)>>
  BY NextPromise
<1> QED
  BY <1>1, <1>2, Invariant, SerialInvariant, PTL
     DEF Spec, LifecycleSpec, Lifecycle!Spec, Phase, Account

(***************************************************************************)
(* A flow that waits for a human is timed                                  *)
(***************************************************************************)
Ending == Release \cup {"crashed"}
Shooting == {"capture", "save_shot"}
Mailing == {"email", "email_cancelled", "email_dispose"}

\* Where the processes of a flow may be, given its status and its manual intervention.
PlaceInv ==
    /\ \A p \in Processes : pc[p] \in Ending => Over
    /\ \A t \in Tasks :
          /\ pc[Op(t)] \in Shooting => flow.manual # Nothing
          /\ pc[Op(t)] \in Mailing => flow.status = "creating_email"
          /\ At(Timer(t), "sleep") => Over \/ flow.manual # Nothing
          /\ flow.status = "idle" =>
                /\ ~Running(Timer(t))
                /\ Running(Op(t)) => At(Op(t), "begin") /\ t = Create

\* Somebody attends to the flow, or its wait for a code was paused.
Attended ==
    \/ TimerRunning
    \/ flow.manual = "user_paused" /\ flow.pausedFrom = "github_email_verify"
    \/ \E t \in Tasks : Running(Op(t))
    \/ \E r \in Requests : pc[Request(r)] \in {"reap_timer", "reap_task", "cancel_mark"}

HumanInv == PlaceInv /\ (At(Closer, "idle") /\ flow.status \in Resumable => Attended)

NoTimer == \A u \in Tasks : ~Running(Timer(u))

\* f may be the flow that an operation goes on with, once start() has begun.
Going(f) == Alive(f) /\ f.status # "idle"

\* A step of operation t arrives at an await that fits the flow, and leaves a flow that
\* waits for a human to a timeout.
Tended(t) ==
    /\ flow'.status # "idle"
    /\ pc'[Op(t)] \in Ending => Over'
    /\ pc'[Op(t)] \in Shooting => flow'.manual # Nothing
    /\ pc'[Op(t)] \in Mailing => flow'.status = "creating_email"
    /\ At(Timer(t), "sleep")' => flow'.manual # Nothing
    /\ pc'[Timer(t)] \in {pc[Timer(t)], "sleep"}
    /\ ~Running(Op(t))' /\ flow'.status \in Resumable => TimerRunning'

\* The updates of a flow that goes on, and what they do to its manual intervention.
LEMMA GoingUpdates ==
    ASSUME NEW f, Going(f)
    PROVE  /\ Going(Unblocked(f)) /\ Unblocked(f).status = f.status
           /\ \A N \in SUBSET Secret :
                 Going(Remember(f, N)) /\ Remember(f, N).status = f.status
           /\ \A r \in Reason : /\ Going(Blocked(f, r)) /\ Blocked(f, r).status = f.status
                                /\ Blocked(f, r).manual # Nothing
           /\ \A s \in Status : /\ Going(PausedAt(f, s)) /\ PausedAt(f, s).status = f.status
                                /\ PausedAt(f, s).manual # Nothing
           /\ \A s \in Status \ (Terminal \cup {"idle"}) :
                 Going(Go(f, s)) /\ Go(f, s).status = s /\ Go(f, s).manual = f.manual
<1>1. /\ \A r \in Reason : Blocked(f, r).manual = r
      /\ \A s \in Status : PausedAt(f, s).manual = "user_paused"
      /\ \A s \in Status : Go(f, s).manual = f.manual
  BY DEF Going, Alive, Flow, Blocked, PausedAt, Go
<1> QED
  BY <1>1, AliveUpdates DEF Going, Reason, Nothing

\* So do the assignments to single fields.
LEMMA GoingFields ==
    ASSUME NEW f, Going(f)
    PROVE  /\ \A b \in BOOLEAN : /\ Going([f EXCEPT !.pauseRequested = b])
                                 /\ Going([f EXCEPT !.waitingForCode = b])
                                 /\ Going([f EXCEPT !.email = b])
                                 /\ Going([f EXCEPT !.account = b])
           /\ \A r \in Reason \cup {Nothing} :
                 Going([f EXCEPT !.manual = r]) /\ [f EXCEPT !.manual = r].manual = r
<1>1. \A r \in Reason \cup {Nothing} : [f EXCEPT !.manual = r].manual = r
  BY DEF Going, Alive, Flow
<1>2. f \in Flow
  BY DEF Going, Alive
<1> QED
  BY <1>1, <1>2, FieldUpdates DEF Going, Alive

\* A step to a further await.
LEMMA GotoTended ==
    ASSUME ControlOK, NoTimer, NEW t \in Tasks, NEW f, Going(f),
           NEW l \in Location \ (Ended \cup Ending), l \in Shooting => f.manual # Nothing,
           l \in Mailing => f.status = "creating_email", Goto(Op(t), l, f)
    PROVE  Tended(t)
  BY Apart, ProcessNames DEF Goto, Tended, ControlOK, Going, NoTimer, Running, Ended, At

\* The return of an operation times a flow that waits for a human.
LEMMA ReturnTended ==
    ASSUME ControlOK, NoTimer, NEW t \in Tasks, NEW f \in Flow, f.status # "idle",
           f.status \in Resumable => f.manual # Nothing, Return(t, f)
    PROVE  Tended(t)
<1>1. flow' = f /\ pc'[Op(t)] = "done"
  BY Apart, ProcessNames DEF Return, ControlOK
<1>2. Nothing \notin Tasks
  BY FlowAssumption DEF FlowAssumption, Tasks
<1>3. CASE f.manual # Nothing
  <2>1. slot' = t /\ pc'[Timer(t)] = "sleep"
    BY <1>3, Apart, ProcessNames DEF Return, ControlOK, NoTimer
  <2> QED
    BY <1>1, <1>2, <1>3, <2>1
       DEF Tended, TimerRunning, Running, Ended, Ending, Release, Shooting, Mailing
<1>4. CASE f.manual = Nothing
  <2>1. pc'[Timer(t)] = pc[Timer(t)]
    BY <1>4, Apart, ProcessNames DEF Return, ControlOK
  <2> QED
    BY <1>1, <1>4, <2>1
       DEF Tended, Running, Ended, Ending, Release, Shooting, Mailing, NoTimer, At
<1> QED
  BY <1>3, <1>4

\* Every flow that goes on may fail.
LEMMA MayFail == \A f \in Flow : f.status \notin Terminal \cup {"idle"} => CanGo(f.status, "error")
  BY DEF Flow, Status, Terminal, Resumable, Pausable, CanGo

\* _fail_and_cleanup after the pending row is marked.
LEMMA FailNowTended ==
    ASSUME ControlOK, NoTimer, NEW t \in Tasks, NEW f, Going(f), NEW exit,
           FailNow(Op(t), f, exit)
    PROVE  Tended(t) /\ flow'.status = "error"
<1>1. CanGo(f.status, "error") /\ Wiped(f) \in Flow /\ "error" \in Status
  BY MayFail, FlowUpdates DEF Going, Alive, Status, Terminal
<1>2. flow'.status = "error"
  BY <1>1, FlowUpdates DEF FailNow
<1>3. pc'[Op(t)] \in {"dispose", "close"} /\ pc'[Timer(t)] = pc[Timer(t)]
  BY <1>1, Apart, ProcessNames DEF FailNow, FirstRelease, ControlOK
<1> QED
  BY <1>2, <1>3 DEF Tended, Over, Terminal, Resumable, Shooting, Mailing, NoTimer, Running,
     Ended, At

\* _fail_and_cleanup.
LEMMA FailTended ==
    ASSUME ControlOK, NoTimer, NEW t \in Tasks, NEW f, Going(f), NEW exit,
           Fail(Op(t), f, exit)
    PROVE  Tended(t)
<1> DEFINE g == [f EXCEPT !.pauseRequested = FALSE]
<1>1. Going(g)
  BY GoingFields
<1>2. CASE g.account
  <2>1. flow' = g /\ pc'[Op(t)] = "fail_mark" /\ pc'[Timer(t)] = pc[Timer(t)]
    BY <1>2, Apart, ProcessNames DEF Fail, ControlOK
  <2> QED
    BY <1>1, <2>1 DEF Tended, Going, Running, Ended, Ending, Release, Shooting, Mailing,
       NoTimer, At
<1>3. CASE ~g.account
  BY <1>1, <1>3, FailNowTended DEF Fail
<1> QED
  BY <1>2, <1>3

\* An exception that leaves an operation.
LEMMA RaiseTended ==
    ASSUME ControlOK, NoTimer, NEW t \in Tasks, NEW f, Going(f), Raise(t, f)
    PROVE  Tended(t)
  BY FailTended DEF Raise, Going, Alive

\* _transition, then a further await.
LEMMA MoveTended ==
    ASSUME ControlOK, NoTimer, NEW t \in Tasks, NEW f, Going(f),
           NEW s \in Status \ (Terminal \cup {"idle"}),
           NEW l \in Location \ (Ended \cup Ending \cup Shooting \cup Mailing), Move(t, f, s, l)
    PROVE  Tended(t)
  BY GoingUpdates, GotoTended, RaiseTended DEF Move

\* _transition, then the return of the operation.
LEMMA ReturnAtTended ==
    ASSUME ControlOK, NoTimer, NEW t \in Tasks, NEW f, Going(f), f.manual # Nothing,
           NEW s \in Status \ (Terminal \cup {"idle"}), ReturnAt(t, f, s)
    PROVE  Tended(t)
<1>1. Going(Go(f, s)) /\ Go(f, s).manual # Nothing
  BY GoingUpdates
<1> QED
  BY <1>1, ReturnTended, RaiseTended DEF ReturnAt, Going, Alive

\* _pause_at.
LEMMA PauseTended ==
    ASSUME ControlOK, NoTimer, NEW t \in Tasks, NEW f, Going(f), NEW s \in Status,
           Pause(t, f, s)
    PROVE  Tended(t)
<1>1. "manual_verify" \in Status \ (Terminal \cup {"idle"})
  BY DEF Status, Resumable, Terminal
<1> QED
  BY <1>1, GoingUpdates, ReturnAtTended DEF Pause

\* The end of _handle_github_result and _handle_opencode_result at a blocked page.
LEMMA NeedHumanTended ==
    ASSUME ControlOK, NoTimer, NEW t \in Tasks, NEW f, Going(f), f.manual # Nothing,
           NeedHuman(t, f)
    PROVE  Tended(t)
<1>1. "manual_verify" \in Status \ (Terminal \cup {"idle"})
  BY DEF Status, Resumable, Terminal
<1> QED
  BY <1>1, ReturnTended, ReturnAtTended DEF NeedHuman, Going, Alive

\* The way into the wait for the email code.
LEMMA AwaitCodeTended ==
    ASSUME ControlOK, NoTimer, NEW t \in Tasks, NEW f, Going(f), AwaitCode(t, f)
    PROVE  Tended(t)
<1> DEFINE w == [f EXCEPT !.waitingForCode = TRUE]
<1>1. Going(w) /\ Going(Go(w, "github_email_verify"))
  <2>1. "github_email_verify" \in Status \ (Terminal \cup {"idle"})
    BY DEF Status, Pausable, Terminal
  <2>2. Going(w)
    BY GoingFields
  <2> QED
    BY <2>1, <2>2, GoingUpdates
<1>2. "code" \in Location \ (Ended \cup Ending \cup Shooting \cup Mailing)
  BY Locations DEF Ended, Ending, Release, Shooting, Mailing
<1> QED
  BY <1>1, <1>2, GotoTended, RaiseTended DEF AwaitCode

\* What an operation may rely on once start() has begun.
LEMMA AtWorkGoing ==
    ASSUME TypeOK, SerialInv, PlaceInv, NEW t \in Tasks, Running(Op(t)),
           pc[Op(t)] \notin Release \cup {"begin"}
    PROVE  Going(flow) /\ ControlOK /\ NoTimer
<1>1. Alive(flow) /\ ControlOK
  BY AtWork
<1>2. flow.status # "idle"
  BY DEF PlaceInv, At
<1>3. NoTimer
  BY DEF SerialInv, TimerInv, NoOp, NoTimer
<1> QED
  BY <1>1, <1>2, <1>3 DEF Going

\* Where an operation may go without more ado.
Onward == Location \ (Ended \cup Ending \cup Shooting \cup Mailing)

\* These awaits are such places.
LEMMA OnwardPlaces ==
    {"register", "resume_clear", "login", "persist", "code", "submit_code", "save_auth",
     "mark_payment", "complete", "fetch", "submit_key", "inspect_github"} \subseteq Onward
BY Locations DEF Onward, Ended, Ending, Release, Shooting, Mailing

\* The statuses an operation moves to.
LEMMA OnwardStatus ==
    {"creating_email", "github_register", "github_email_verify", "opencode_login",
     "fetch_api_key", "manual_verify", "pending_payment"} \subseteq
         Status \ (Terminal \cup {"idle"})
BY DEF Status, Pausable, Resumable, Terminal

\* start() up to the registration.
LEMMA RegistrationTended ==
    ASSUME TypeOK, SerialInv, PlaceInv, NEW t \in Tasks,
           Start(t) \/ EmailCreated(t) \/ EmailFailed(t) \/ EmailCreatedInVain(t)
           \/ EmailDisposedInVain(t) \/ UsernameTaken(t)
    PROVE  Tended(t)
<1>1. /\ Running(Op(t)) /\ pc[Op(t)] \notin Release
      /\ pc[Op(t)] = "begin" \/ (Going(flow) /\ ControlOK /\ NoTimer)
  <2>1. pc[Op(t)] \in {"begin", "email", "email_cancelled", "email_dispose", "register"}
    BY DEF Start, EmailCreated, EmailFailed, EmailCreatedInVain, EmailDisposedInVain,
           UsernameTaken, At
  <2> QED
    BY <2>1, AtWorkGoing DEF Running, Ended, Release
<1>2. CASE Start(t)
  <2>1. Alive(flow) /\ ControlOK /\ NoTimer
    BY <1>1, AtWork DEF SerialInv, TimerInv, NoOp, NoTimer
  <2>2. CASE t = Create
    <3> DEFINE f == Go(flow, "creating_email")
    <3>1. CASE CanGo(flow.status, "creating_email")
      <4>1. Goto(Op(t), "email", f)
        BY <1>2, <2>2, <3>1 DEF Start, Move
      <4>2. Alive(f) /\ f.status = "creating_email"
        BY <2>1, OnwardStatus, AliveUpdates
      <4>3. "email" \in Location \ (Ended \cup Ending)
        BY Locations DEF Ended, Ending, Release
      <4> QED
        BY <2>1, <4>1, <4>2, <4>3, GotoTended DEF Going, Shooting
    <3>2. CASE ~CanGo(flow.status, "creating_email")
      <4>1. flow.status # "idle"
        BY <3>2 DEF CanGo
      <4> QED
        BY <1>2, <2>1, <2>2, <3>2, <4>1, RaiseTended DEF Start, Move, Going
    <3> QED
      BY <3>1, <3>2
  <2>3. CASE t # Create
    <3>1. flow.status # "idle"
      BY <1>1, <2>3 DEF PlaceInv
    <3> QED
      BY <1>2, <2>1, <2>3, <3>1, OnwardPlaces, GotoTended
         DEF Start, Going, Onward
  <2> QED
    BY <2>2, <2>3
<1>3. CASE EmailCreated(t)
  <2>1. Going([flow EXCEPT !.email = TRUE]) /\ ControlOK /\ NoTimer
    BY <1>1, <1>3, GoingFields DEF EmailCreated, At
  <2> QED
    BY <1>3, <2>1, OnwardPlaces, OnwardStatus, PauseTended, MoveTended
       DEF EmailCreated, Onward
<1>4. CASE EmailFailed(t)
  BY <1>1, <1>4, FailTended, RaiseTended DEF EmailFailed, At
<1>5. CASE EmailCreatedInVain(t)
  <2>1. "email_dispose" \in Location \ (Ended \cup Ending)
    BY Locations DEF Ended, Ending, Release
  <2>2. flow.status = "creating_email"
    BY <1>5 DEF EmailCreatedInVain, PlaceInv, At, Mailing
  <2> QED
    BY <1>1, <1>5, <2>1, <2>2, GotoTended DEF EmailCreatedInVain, At, Shooting
<1>6. CASE EmailDisposedInVain(t)
  <2>1. flow.status = "creating_email"
    BY <1>6 DEF EmailDisposedInVain, PlaceInv, At, Mailing
  <2>2. flow' = flow /\ pc'[Op(t)] = "done" /\ pc'[Timer(t)] = pc[Timer(t)]
    BY <1>1, <1>6, Apart, ProcessNames DEF EmailDisposedInVain, Goto, ControlOK, At
  <2> QED
    BY <1>1, <1>6, <2>1, <2>2
       DEF Tended, EmailDisposedInVain, At, Ending, Release, Shooting, Mailing, Resumable,
           NoTimer, Running, Ended
<1>7. CASE UsernameTaken(t)
  <2>1. CASE UNCHANGED control
    BY <1>1, <1>7, <2>1
       DEF control, UsernameTaken, At, Tended, Going, NoTimer, Running, Ended, Ending,
           Release, Shooting, Mailing
  <2>2. CASE Fail(Op(t), flow, "return")
    BY <1>1, <1>7, <2>2, FailTended DEF UsernameTaken, At
  <2> QED
    BY <1>7, <2>1, <2>2 DEF UsernameTaken
<1> QED
  BY <1>2, <1>3, <1>4, <1>5, <1>6, <1>7

\* _handle_github_result, the screenshot, the email code and the credentials.
LEMMA GithubTended ==
    ASSUME TypeOK, SerialInv, PlaceInv, NEW t \in Tasks,
           \/ GithubBlocked(t) \/ GithubAsksCode(t) \/ GithubCompleted(t) \/ GithubFailed(t)
           \/ ScreenshotTaken(t) \/ ScreenshotSaved(t) \/ CodeArrived(t) \/ CodeMissing(t)
           \/ CredentialsPersisted(t) \/ CredentialsRefused(t)
    PROVE  Tended(t)
<1>1. Going(flow) /\ ControlOK /\ NoTimer
  <2>1. pc[Op(t)] \in {"register", "submit_code", "inspect_github", "capture", "save_shot",
                       "code", "persist"}
    BY DEF GithubBlocked, GithubAsksCode, GithubCompleted, GithubFailed, GithubAwait,
           ScreenshotTaken, ScreenshotSaved, CodeArrived, CodeMissing, CredentialsPersisted,
           CredentialsRefused, At
  <2> QED
    BY <2>1, AtWorkGoing DEF Running, Ended, Release
<1>2. CASE GithubBlocked(t)
  <2> DEFINE f == Blocked([flow EXCEPT !.pauseRequested = FALSE], "blocked")
  <2>1. Going(f) /\ f.manual # Nothing
    BY <1>1, GoingFields, GoingUpdates DEF Reason
  <2>2. "capture" \in (Location \ (Ended \cup Ending)) \ Mailing
    BY Locations DEF Ended, Ending, Release, Mailing
  <2> QED
    BY <1>1, <1>2, <2>1, <2>2, GotoTended, NeedHumanTended DEF GithubBlocked
<1>3. CASE GithubAsksCode(t)
  <2>1. Going(Unblocked(flow))
    BY <1>1, GoingUpdates
  <2> QED
    BY <1>1, <1>3, <2>1, OnwardStatus, PauseTended, AwaitCodeTended DEF GithubAsksCode
<1>4. CASE GithubCompleted(t)
  <2> DEFINE f == [Remember(Unblocked(flow), {"auth"}) EXCEPT !.pauseRequested = FALSE]
  <2>1. Going(f)
    <3>1. Going(Remember(Unblocked(flow), {"auth"}))
      BY <1>1, GoingUpdates DEF Secret
    <3> QED
      BY <3>1, GoingFields
  <2> QED
    BY <1>1, <1>4, <2>1, OnwardStatus, OnwardPlaces, MoveTended, GotoTended, FailTended
       DEF GithubCompleted, Onward
<1>5. CASE GithubFailed(t)
  BY <1>1, <1>5, GoingUpdates, FailTended, RaiseTended DEF GithubFailed
<1>6. CASE ScreenshotTaken(t) \/ ScreenshotSaved(t)
  <2>1. flow.manual # Nothing
    BY <1>6 DEF ScreenshotTaken, ScreenshotSaved, At, PlaceInv, Shooting
  <2>2. "save_shot" \in (Location \ (Ended \cup Ending)) \ Mailing
    BY Locations DEF Ended, Ending, Release, Mailing
  <2> QED
    BY <1>1, <1>6, <2>1, <2>2, GotoTended, NeedHumanTended DEF ScreenshotTaken, ScreenshotSaved
<1>7. CASE CodeArrived(t) \/ CodeMissing(t)
  <2>1. Going([flow EXCEPT !.waitingForCode = FALSE])
    BY <1>1, GoingFields
  <2> QED
    BY <1>1, <1>7, <2>1, OnwardPlaces, GotoTended, FailTended, RaiseTended
       DEF CodeArrived, CodeMissing, Onward
<1>8. CASE CredentialsPersisted(t)
  <2>1. Going([flow EXCEPT !.account = TRUE])
    BY <1>1, GoingFields
  <2> QED
    BY <1>1, <1>8, <2>1, OnwardStatus, OnwardPlaces, MoveTended
       DEF CredentialsPersisted, Onward
<1>9. CASE CredentialsRefused(t)
  BY <1>1, <1>9, FailTended DEF CredentialsRefused
<1> QED
  BY <1>2, <1>3, <1>4, <1>5, <1>6, <1>7, <1>8, <1>9

\* _handle_opencode_result and the completion.
LEMMA OpenCodeTended ==
    ASSUME TypeOK, SerialInv, PlaceInv, NEW t \in Tasks,
           PaymentRequired(t) \/ AuthSaved(t) \/ PaymentMarked(t) \/ OpenCodeBlocked(t)
           \/ OpenCodeFailed(t) \/ ApiKeyObtained(t) \/ CompletionAwaited(t)
    PROVE  Tended(t)
<1>1. Going(flow) /\ ControlOK /\ NoTimer /\ Running(Op(t)) /\ pc[Op(t)] \notin Release
  <2>1. pc[Op(t)] \in {"login", "save_auth", "mark_payment", "fetch", "submit_key",
                       "complete", "complete_cancelled"}
    BY DEF PaymentRequired, AuthSaved, PaymentMarked, OpenCodeBlocked, OpenCodeFailed,
           OpenCodeAwait, ApiKeyObtained, CompletionAwaited, At
  <2> QED
    BY <2>1, AtWorkGoing DEF Running, Ended, Release
<1>2. CASE PaymentRequired(t) \/ AuthSaved(t)
  BY <1>1, <1>2, OnwardPlaces, GoingUpdates, GotoTended, FailTended
     DEF PaymentRequired, AuthSaved, Secret, Onward
<1>3. CASE PaymentMarked(t)
  <2> DEFINE f == [flow EXCEPT !.manual = "payment"]
  <2>0. "payment" \in Reason \cup {Nothing} /\ "payment" # Nothing
    BY DEF Reason, Nothing
  <2>1. Going(f) /\ f.manual = "payment"
    BY <1>1, <2>0, GoingFields
  <2> QED
    BY <1>1, <1>3, <2>0, <2>1, OnwardStatus, ReturnAtTended DEF PaymentMarked
<1>4. CASE OpenCodeBlocked(t)
  <2>1. \A reason \in {"blocked", "api_key_input"} :
           Going(Blocked(flow, reason)) /\ Blocked(flow, reason).manual # Nothing
    BY <1>1, GoingUpdates DEF Reason
  <2> QED
    BY <1>1, <1>4, <2>1, NeedHumanTended DEF OpenCodeBlocked
<1>5. CASE OpenCodeFailed(t)
  BY <1>1, <1>5, FailTended, RaiseTended DEF OpenCodeFailed
<1>6. CASE ApiKeyObtained(t)
  <2> DEFINE g == Remember(flow, {"auth", "api_key"})
             f == Restored(g, "fetch_api_key")
  <2>1. Going(g)
    BY <1>1, GoingUpdates DEF Secret
  <2>2. Going(f)
    <3>1. Going(Unblocked(g))
      BY <2>1, GoingUpdates
    <3>2. Going(Go(Unblocked(g), "fetch_api_key"))
      BY <3>1, GoingUpdates, OnwardStatus
    <3> QED
      BY <2>1, <3>2 DEF Restored
  <2> QED
    BY <1>1, <1>6, <2>2, OnwardPlaces, GotoTended, FailTended DEF ApiKeyObtained, Onward
<1>7. CASE CompletionAwaited(t)
  <2>1. PICK exit \in {"return", "cancelled"} : Finish(t, exit) \/ Fail(Op(t), flow, exit)
    BY <1>7 DEF CompletionAwaited
  <2>2. CASE Fail(Op(t), flow, exit)
    BY <1>1, <2>2, FailTended
  <2>3. CASE Finish(t, exit)
    <3>1. CanGo(flow.status, "done")
      BY <1>7 DEF CompletionAwaited, SerialInv, WorkInv, At, Completing, CanGo
    <3>2. flow'.status = "done"
      <4>1. Wiped(flow) \in Flow /\ "done" \in Status
        BY <1>1, FlowUpdates DEF Going, Alive, Status, Terminal
      <4> QED
        BY <2>3, <3>1, <4>1, FlowUpdates DEF Finish
    <3>3. pc'[Op(t)] \in {"dispose", "close"} /\ pc'[Timer(t)] = pc[Timer(t)]
      BY <1>1, <2>3, <3>1, Apart, ProcessNames DEF Finish, FirstRelease, ControlOK
    <3> QED
      BY <1>1, <3>2, <3>3 DEF Tended, Over, Terminal, Resumable, Shooting, Mailing, NoTimer,
         Running, Ended, At
  <2> QED
    BY <2>1, <2>2, <2>3
<1> QED
  BY <1>2, <1>3, <1>4, <1>5, <1>6, <1>7

\* resume(), once the old screenshots are deleted.
LEMMA ResumeTended ==
    ASSUME TypeOK, SerialInv, PlaceInv, NEW t \in Tasks, NEW withKey, Resume(t, withKey)
    PROVE  Tended(t)
<1>1. Going(flow) /\ ControlOK /\ NoTimer
  BY AtWorkGoing DEF Resume, At, Running, Ended, Release
<1>2. CASE Move(t, [flow EXCEPT !.manual = Nothing], "fetch_api_key", "fetch")
  <2>1. Going([flow EXCEPT !.manual = Nothing])
    BY <1>1, GoingFields
  <2> QED
    BY <1>1, <1>2, <2>1, OnwardStatus, OnwardPlaces, MoveTended DEF Onward
<1>3. CASE ResumePause(t)
  <2> DEFINE s == flow.pausedFrom
             f == [Unblocked(flow) EXCEPT !.waitingForCode = (s = "github_email_verify")]
  <2>1. Going(f)
    BY <1>1, GoingUpdates, GoingFields
  <2>2. CASE s \in {"github_register", "github_email_verify", "opencode_login"}
    <3>1. ResumePoint(s) \in Onward /\ s \in Status \ (Terminal \cup {"idle"})
      BY <2>2, OnwardPlaces, OnwardStatus DEF ResumePoint
    <3>2. Move(t, f, s, ResumePoint(s))
      BY <1>3, <2>2 DEF ResumePause
    <3> QED
      BY <1>1, <2>1, <3>1, <3>2, MoveTended DEF Onward
  <2>3. CASE s \notin {"github_register", "github_email_verify", "opencode_login"}
    BY <1>1, <1>3, <2>3, FailTended DEF ResumePause
  <2> QED
    BY <2>2, <2>3
<1>4. CASE Goto(Op(t), "submit_key", flow)
  BY <1>1, <1>4, OnwardPlaces, GotoTended DEF Onward
<1>5. CASE flow.status = "manual_verify" /\ ResumeBlocked(t)
  <2>1. \A s \in {"opencode_login", "fetch_api_key"} : Going(Restored(flow, s))
    <3>1. Going(Unblocked(flow))
      BY <1>1, GoingUpdates
    <3> QED
      BY <1>5, <3>1, OnwardStatus, GoingUpdates DEF Restored
  <2> QED
    BY <1>1, <1>5, <2>1, OnwardPlaces, GotoTended DEF ResumeBlocked, Onward
<1>6. CASE Raise(t, flow)
  BY <1>1, <1>6, RaiseTended
<1> QED
  BY <1>2, <1>3, <1>4, <1>5, <1>6 DEF Resume

\* The cleanup at the end of an operation.
LEMMA TailTended ==
    ASSUME TypeOK, SerialInv, PlaceInv, NEW t \in Tasks, FailMarked(Op(t)) \/ TailStep(Op(t))
    PROVE  Tended(t)
<1>1. ControlOK /\ NoTimer /\ flow \in Flow /\ onExit[Op(t)] \in OpExit
  <2>1. Running(Op(t))
    BY DEF FailMarked, TailStep, MailboxDisposed, BrowserClosed, BrowserCloseFails, Cleared,
           At, Running, Ended
  <2> QED
    BY <2>1 DEF TypeOK, FlowTypeOK, ControlOK, SerialInv, TimerInv, ExitInv, NoOp, NoTimer,
                OpExit
<1>2. CASE FailMarked(Op(t))
  <2>1. Going(flow)
    BY <1>2, AtWorkGoing DEF FailMarked, At, Running, Ended, Release
  <2> QED
    BY <1>1, <1>2, <2>1, FailNowTended DEF FailMarked
<1>3. CASE TailStep(Op(t))
  <2>1. Over
    <3>1. pc[Op(t)] \in Ending
      BY <1>3 DEF TailStep, MailboxDisposed, BrowserClosed, BrowserCloseFails, Cleared, At,
                  Ending, Release
    <3> QED
      BY <3>1, ProcessNames DEF PlaceInv
  <2>2. ASSUME NEW l \in {"close", "clear", "done", "crashed"}, Goto(Op(t), l, flow)
        PROVE  Tended(t)
    BY <1>1, <2>1, <2>2, Apart, ProcessNames
       DEF Goto, Tended, ControlOK, Over, Terminal, Resumable, Ending, Release, Shooting,
           Mailing, NoTimer, Running, Ended, At
  <2>3. CASE Cleared(Op(t)) /\ onExit[Op(t)] = "return"
    BY <1>1, <2>1, <2>3, Apart, ReturnTended DEF Cleared, Over, Terminal, Resumable
  <2>4. CASE ~(Cleared(Op(t)) /\ onExit[Op(t)] = "return")
    BY <1>1, <1>3, <2>2, <2>4
       DEF TailStep, MailboxDisposed, BrowserClosed, BrowserCloseFails, Cleared, ThrownTo,
           ReturnedTo, OpExit
  <2> QED
    BY <2>3, <2>4
<1> QED
  BY <1>2, <1>3

\* Every step of an operation.
LEMMA OperationTended ==
    ASSUME TypeOK, SerialInv, PlaceInv, NEW t \in Tasks, OperationStep(t)
    PROVE  Tended(t)
  BY RegistrationTended, GithubTended, OpenCodeTended, ResumeTended, TailTended
     DEF OperationStep, OpStep

\* The steps of an operation keep the invariant.
LEMMA OperationHuman ==
    ASSUME TypeOK, SerialInv, HumanInv, StatusStep, NEW t \in Tasks, OperationStep(t)
    PROVE  HumanInv'
<1>1. Tended(t) /\ Led(t) /\ Accounted(t)
  BY OperationTended, OperationLed DEF HumanInv
<1>2. (\A u \in Tasks \ {t} : ~Running(Op(u))) /\ ~NoOp /\ NoTimer
  BY <1>1 DEF SerialInv, OneInv, TimerInv, Accounted, NoOp, NoTimer
<1>3. /\ \A p \in Processes \ {Op(t), Timer(t)} : pc'[p] = pc[p]
      /\ \A u \in Tasks \ {t} : pc'[Op(u)] = pc[Op(u)] /\ pc'[Timer(u)] = pc[Timer(u)]
      /\ pc'[Closer] = pc[Closer]
  BY <1>1, Apart, ProcessNames DEF Led
<1>4. PlaceInv'
  <2>1. ASSUME NEW p \in Processes, pc'[p] \in Ending PROVE Over'
    <3>1. CASE p \notin {Op(t), Timer(t)}
      BY <1>3, <2>1, <3>1 DEF HumanInv, PlaceInv, StatusStep, Over
    <3>2. CASE p = Timer(t)
      <4>1. pc'[Timer(t)] = pc[Timer(t)] \/ pc'[Timer(t)] = "sleep"
        BY <1>1 DEF Tended, Led
      <4> QED
        BY <2>1, <3>2, <4>1 DEF HumanInv, PlaceInv, StatusStep, Over, Ending, Release
    <3> QED
      BY <1>1, <2>1, <3>1, <3>2 DEF Tended
  <2>2. ASSUME NEW u \in Tasks
        PROVE  /\ pc'[Op(u)] \in Shooting => flow'.manual # Nothing
               /\ pc'[Op(u)] \in Mailing => flow'.status = "creating_email"
               /\ At(Timer(u), "sleep")' => Over' \/ flow'.manual # Nothing
    BY <1>1, <1>2, <1>3
       DEF Tended, Running, Ended, Shooting, Mailing, NoTimer, At
  <2> QED
    BY <1>1, <2>1, <2>2 DEF PlaceInv, Tended
<1>5. flow'.status \in Resumable => Attended'
  BY <1>1 DEF Tended, Attended
<1> QED
  BY <1>4, <1>5 DEF HumanInv

(***************************************************************************)
(* Whoever is no operation                                                 *)
(***************************************************************************)
\* Processes other than p stay where they are, or are interrupted.
Calm(p) ==
    \A q \in Processes \ {p} :
        \/ pc'[q] \in {pc[q], "done"}
        \/ pc[q] = "email" /\ pc'[q] = "email_cancelled"
        \/ pc[q] = "complete" /\ pc'[q] = "complete_cancelled"

\* A step of a process that is no operation keeps what is said of the places.
LEMMA PlaceKept ==
    ASSUME PlaceInv, StatusStep, NEW p \in Processes, Calm(p),
           \A t \in Tasks : p # Op(t),
           \A t \in Tasks : p = Timer(t) => Running(p) /\ pc'[p] # "sleep",
           pc'[p] \in Ending => Over',
           flow'.manual = flow.manual \/ flow'.manual # Nothing,
           flow'.status = flow.status \/ (NoOp /\ flow'.status # "idle")
    PROVE  PlaceInv'
<1>1. ASSUME NEW q \in Processes, pc'[q] \in Ending PROVE Over'
  <2>1. CASE q # p
    <3>1. pc'[q] = pc[q]
      BY <1>1, <2>1 DEF Calm, Ending, Release
    <3> QED
      BY <1>1, <3>1 DEF PlaceInv, StatusStep, Over
  <2> QED
    BY <1>1, <2>1
<1>2. ASSUME NEW t \in Tasks
      PROVE  /\ pc'[Op(t)] \in Shooting => flow'.manual # Nothing
             /\ pc'[Op(t)] \in Mailing => flow'.status = "creating_email"
  <2>1. /\ pc'[Op(t)] \in Shooting => pc[Op(t)] \in Shooting
        /\ pc'[Op(t)] \in Mailing => pc[Op(t)] \in Mailing
    BY ProcessNames DEF Calm, Shooting, Mailing
  <2> QED
    BY <2>1 DEF PlaceInv, NoOp, Running, Ended, Shooting, Mailing
<1>3. ASSUME NEW t \in Tasks, At(Timer(t), "sleep")'
      PROVE  Over' \/ flow'.manual # Nothing
  <2>1. At(Timer(t), "sleep")
    BY <1>3, ProcessNames DEF Calm, At
  <2> QED
    BY <2>1 DEF PlaceInv, StatusStep, Over
<1>4. ASSUME NEW t \in Tasks, flow'.status = "idle"
      PROVE  /\ ~Running(Timer(t))'
             /\ Running(Op(t))' => At(Op(t), "begin")' /\ t = Create
  <2>1. flow.status = "idle"
    BY <1>4
  <2>2. ~Running(Timer(t)) /\ (Running(Op(t)) => At(Op(t), "begin") /\ t = Create)
    BY <2>1 DEF PlaceInv
  <2> QED
    BY <2>2, ProcessNames DEF Calm, Running, Ended, At
<1> QED
  BY <1>1, <1>2, <1>3, <1>4 DEF PlaceInv

\* A process that moves alone leaves the others as they are.
LEMMA AloneCalm == ASSUME NEW p, Alone(p) PROVE Calm(p)
  BY DEF Alone, Calm

\* An interruption, too, and it keeps what the flow says of its human.
LEMMA ReapCalm ==
    ASSUME TypeOK, NEW f \in Flow, NEW p, NEW l, NEW P, Reap(p, l, P, f)
    PROVE  /\ Calm(p) /\ flow'.status = f.status /\ flow'.manual = f.manual
           /\ flow'.pausedFrom = f.pausedFrom
           /\ p \in Processes => pc'[p] = l
<1>1. /\ flow'.status = f.status /\ flow'.manual = f.manual
      /\ flow'.pausedFrom = f.pausedFrom
  BY DEF Reap, Interrupt, Flow
<1>2. \A q \in Processes \ {p} : pc'[q] = IF q \in P THEN Interrupted(q) ELSE pc[q]
  BY DEF Reap
<1> QED
  BY <1>1, <1>2 DEF Calm, Interrupted, At, Reap

\* _fail_and_cleanup ends every flow that start() has begun, and so does cancel().
LEMMA FailNowEnds ==
    ASSUME ControlOK, NEW p, NEW f \in Flow, f.status # "idle", NEW exit,
           FailNow(p, f, exit)
    PROVE  Over' /\ flow'.manual = f.manual
<1>1. Wiped(f) \in Flow /\ Wiped(f).status = f.status /\ Wiped(f).manual = f.manual
      /\ "error" \in Status
  BY FlowUpdates DEF Wiped, Flow, Status, Terminal
<1>2. Go(Wiped(f), "error").status = "error" /\ Go(Wiped(f), "error").manual = f.manual
  BY <1>1 DEF Go, Flow
<1> QED
  BY <1>1, <1>2, MayFail DEF FailNow, Over, Terminal

\* Every flow that is not over may be cancelled.
LEMMA MayCancel == \A f \in Flow : f.status \notin Terminal => CanGo(f.status, "cancelled")
  BY DEF Flow, Status, Terminal, Resumable, Pausable, CanGo

\* flow.cancel() ends the flow, at once or after its row is marked.
LEMMA CancelEnds ==
    ASSUME TypeOK, NEW p \in Processes, CancelFlow(p) \/ CancelMarked(p)
    PROVE  /\ flow'.manual = flow.manual
           /\ Over' \/ (flow'.status = flow.status /\ pc'[p] = "cancel_mark")
<1>1. flow \in Flow /\ ControlOK
  BY DEF TypeOK, FlowTypeOK, ControlOK
<1>2. ASSUME NEW f \in Flow, CancelNow(p, f)
      PROVE  Over' /\ flow'.manual = f.manual
  <2>1. Wiped(f) \in Flow /\ Wiped(f).status = f.status /\ Wiped(f).manual = f.manual
    BY FlowUpdates DEF Wiped, Flow
  <2>2. /\ Go(Wiped(f), "cancelled").status = "cancelled"
        /\ Go(Wiped(f), "cancelled").manual = f.manual
    BY <2>1 DEF Go, Flow
  <2> QED
    BY <1>2, <2>1, <2>2, MayCancel DEF CancelNow, Over, Terminal
<1>3. CASE CancelFlow(p)
  <2> DEFINE f == [flow EXCEPT !.pauseRequested = FALSE]
  <2>1. f \in Flow /\ f.status = flow.status /\ f.manual = flow.manual
    BY <1>1 DEF Flow
  <2>2. CASE f.account
    BY <1>1, <1>3, <2>1, <2>2 DEF CancelFlow, ControlOK
  <2>3. CASE ~f.account
    BY <1>2, <1>3, <2>1, <2>3 DEF CancelFlow
  <2> QED
    BY <2>2, <2>3
<1>4. CASE CancelMarked(p)
  BY <1>1, <1>2, <1>4 DEF CancelMarked
<1> QED
  BY <1>3, <1>4

\* The rest of the cleanup happens in a flow that is over.
LEMMA TailOver ==
    ASSUME PlaceInv, NEW p \in Processes, TailStep(p)
    PROVE  Over
<1>1. pc[p] \in Ending
  BY DEF TailStep, MailboxDisposed, BrowserClosed, BrowserCloseFails, Cleared, At, Ending,
         Release
<1> QED
  BY <1>1 DEF PlaceInv

\* The timeout: it fails a flow that waits for a human, and only ends itself otherwise.
LEMMA TimeoutHuman ==
    ASSUME TypeOK, SerialInv, HumanInv, StatusStep, NEW t \in Tasks, TimeoutStep(t)
    PROVE  HumanInv'
<1>1. Alone(Timer(t)) /\ slot' = slot /\ Running(Timer(t)) /\ NoOp
  BY TimeoutAlone
<1>2. flow \in Flow /\ ControlOK /\ flow.status # "idle" /\ Timer(t) \in Processes
  BY <1>1, ProcessNames DEF TypeOK, FlowTypeOK, ControlOK, HumanInv, PlaceInv
<1>3. /\ flow'.manual = flow.manual /\ pc'[Timer(t)] # "sleep"
      /\ \/ Over'
         \/ /\ flow'.status = flow.status
            /\ pc'[Timer(t)] \notin Ending \cup Ended
  <2>1. CASE Expire(t)
    <3> DEFINE g == [flow EXCEPT !.pauseRequested = FALSE]
    <3>1. g \in Flow /\ g.status = flow.status /\ g.manual = flow.manual
      BY <1>2 DEF Flow
    <3>2. CASE flow.manual # Nothing /\ g.account
      BY <1>2, <2>1, <3>1, <3>2
         DEF Expire, Fail, ControlOK, Ending, Release, Ended
    <3>3. CASE flow.manual # Nothing /\ ~g.account
      <4>1. FailNow(Timer(t), g, "handler")
        BY <2>1, <3>3 DEF Expire, Fail
      <4>2. pc'[Timer(t)] \in {"dispose", "close", "crashed"}
        BY <1>2, <4>1 DEF FailNow, FirstRelease, ThrownTo, ControlOK
      <4> QED
        BY <1>2, <3>1, <4>1, <4>2, FailNowEnds
    <3>4. CASE flow.manual = Nothing
      <4>1. Over
        BY <2>1, <3>4 DEF Expire, HumanInv, PlaceInv
      <4> QED
        BY <1>2, <2>1, <3>4, <4>1 DEF Expire, Goto, ControlOK, Over
    <3> QED
      BY <3>2, <3>3, <3>4
  <2>2. CASE FailMarked(Timer(t))
    <3>1. FailNow(Timer(t), flow, onExit[Timer(t)]) /\ onExit[Timer(t)] = "handler"
      BY <2>2 DEF FailMarked, SerialInv, ExitInv
    <3>2. pc'[Timer(t)] \in {"dispose", "close", "crashed"}
      BY <1>2, <3>1 DEF FailNow, FirstRelease, ThrownTo, ControlOK
    <3> QED
      BY <1>2, <3>1, <3>2, FailNowEnds
  <2>3. CASE TailStep(Timer(t))
    <3>1. Over /\ flow' = flow
      <4>1. onExit[Timer(t)] # "return"
        BY DEF SerialInv, ExitInv
      <4> QED
        BY <1>2, <2>3, <4>1, TailOver, TailAlone DEF HumanInv
    <3>2. pc'[Timer(t)] # "sleep"
      BY <1>2, <2>3 DEF TailStep, MailboxDisposed, BrowserClosed, BrowserCloseFails, Cleared,
         Goto, ThrownTo, ReturnedTo, ControlOK, SerialInv, ExitInv
    <3> QED
      BY <3>1, <3>2 DEF Over
  <2> QED
    BY <2>1, <2>2, <2>3 DEF TimeoutStep, TimerStep
<1>4. PlaceInv'
  <2>1. flow'.status = flow.status \/ flow'.status # "idle"
    BY <1>2, <1>3 DEF Over, Terminal
  <2> QED
    BY <1>1, <1>2, <1>3, <2>1, Apart, AloneCalm, PlaceKept DEF HumanInv
<1>5. flow'.status \in Resumable => Attended'
  <2> SUFFICES ASSUME flow'.status \in Resumable PROVE Attended'
    OBVIOUS
  <2>1. Running(Timer(t))'
    BY <1>3 DEF Over, Terminal, Resumable, Running, Ended
  <2>2. CASE slot = t
    <3>1. Nothing \notin Tasks
      BY FlowAssumption DEF FlowAssumption, Tasks
    <3> QED
      BY <1>1, <2>1, <2>2, <3>1 DEF Attended, TimerRunning
  <2>3. CASE \E r \in Requests : At(Request(r), "reap_timer")
    BY <1>1, <2>3, Apart, ProcessNames DEF Alone, Attended, At
  <2> QED
    BY <1>1, <2>2, <2>3 DEF SerialInv, TimerInv
<1> QED
  BY <1>4, <1>5 DEF HumanInv

\* A request that is answered at once, in a flow that waits for no human or is attended to
\* by somebody else.
LEMMA AnsweredHuman ==
    ASSUME TypeOK, HumanInv, StatusStep, NEW r \in Requests, NEW a \in Answer,
           pc' = [pc EXCEPT ![Request(r)] = a], slot' = slot,
           flow'.status = flow.status, flow'.manual = flow.manual,
           flow'.pausedFrom = flow.pausedFrom,
           flow.status \notin Resumable \/ pc[Request(r)] \in {"idle", "reap_pause"}
    PROVE  HumanInv'
<1>1. /\ \A p \in Processes \ {Request(r)} : pc'[p] = pc[p]
      /\ pc'[Request(r)] = a /\ Request(r) \in Processes
  BY ProcessNames DEF TypeOK, FlowTypeOK, ControlOK
<1>2. PlaceInv'
  BY <1>1, Apart, PlaceKept DEF HumanInv, Calm, Answer, Ending, Release
<1>3. /\ \A t \in Tasks : pc'[Op(t)] = pc[Op(t)] /\ pc'[Timer(t)] = pc[Timer(t)]
      /\ \A q \in Requests \ {r} : pc'[Request(q)] = pc[Request(q)]
      /\ pc'[Closer] = pc[Closer]
  BY <1>1, Apart, ProcessNames
<1>4. Nothing \notin Tasks /\ slot \in Tasks \cup {Nothing}
  BY FlowAssumption DEF FlowAssumption, Tasks, TypeOK, FlowTypeOK, ControlOK
<1>5. At(Closer, "idle")' /\ flow'.status \in Resumable => Attended'
  <2> SUFFICES ASSUME At(Closer, "idle")', flow'.status \in Resumable PROVE Attended'
    OBVIOUS
  <2>1. Attended /\ pc[Request(r)] \in {"idle", "reap_pause"}
    BY <1>3 DEF HumanInv, At
  <2> QED
    BY <1>3, <1>4, <2>1 DEF Attended, TimerRunning, Running
<1> QED
  BY <1>2, <1>5 DEF HumanInv

\* A request that interrupts a process attends to the flow; a pause only interrupts a
\* flow that is at work.
LEMMA ReapHuman ==
    ASSUME TypeOK, HumanInv, StatusStep, NEW r \in Requests, NEW P,
           NEW l \in {"reap_timer", "reap_task", "reap_pause"},
           l = "reap_pause" => flow.status \notin Resumable,
           NEW f \in Flow, f.status = flow.status, f.manual = flow.manual,
           Reap(Request(r), l, P, f)
    PROVE  HumanInv'
<1>1. /\ Calm(Request(r)) /\ flow'.status = flow.status /\ flow'.manual = flow.manual
      /\ Request(r) \in Processes /\ pc'[Request(r)] = l
  BY ProcessNames, ReapCalm
<1>2. PlaceInv'
  BY <1>1, Apart, PlaceKept DEF HumanInv, Ending, Release
<1>3. flow'.status \in Resumable => Attended'
  BY <1>1 DEF Attended
<1> QED
  BY <1>2, <1>3 DEF HumanInv

\* A new operation attends to the flow.
LEMMA StartHuman ==
    ASSUME TypeOK, HumanInv, NEW r \in Requests, flow.status \in Resumable, StartTask(r)
    PROVE  HumanInv'
<1>1. r \in Tasks /\ flow' = flow
  BY DEF StartTask, Tasks
<1>2. /\ pc'[Op(r)] = "begin" /\ pc'[Request(r)] = "accepted"
      /\ \A p \in Processes \ {Op(r), Request(r)} : pc'[p] = pc[p]
  BY <1>1, Apart, ProcessNames DEF StartTask, TypeOK, FlowTypeOK, ControlOK
<1>3. /\ \A t \in Tasks \ {r} : pc'[Op(t)] = pc[Op(t)]
      /\ \A t \in Tasks : pc'[Timer(t)] = pc[Timer(t)]
  BY <1>1, <1>2, Apart, ProcessNames
<1>4. PlaceInv'
  <2>1. \A p \in Processes : pc'[p] \in Ending => Over'
    BY <1>1, <1>2 DEF HumanInv, PlaceInv, Over, Ending, Release
  <2> QED
    BY <1>1, <1>2, <1>3, <2>1
       DEF HumanInv, PlaceInv, Over, Resumable, Shooting, Mailing, At, Running
<1>5. Attended'
  BY <1>1, <1>2 DEF Attended, Running, Ended
<1> QED
  BY <1>4, <1>5 DEF HumanInv

\* flow.cancel() in a request ends the flow, or is about to.
LEMMA CancelHuman ==
    ASSUME TypeOK, SerialInv, HumanInv, StatusStep, NEW r \in Requests, NoOp,
           CancelFlow(Request(r)) \/ CancelMarked(Request(r))
    PROVE  HumanInv'
<1>1. /\ Request(r) \in Processes /\ Alone(Request(r)) /\ flow'.manual = flow.manual
      /\ pc'[Request(r)] \in {"cancel_mark", "dispose", "close", "browsers", "refused"}
      /\ Over' \/ (flow'.status = flow.status /\ pc'[Request(r)] = "cancel_mark")
  BY ProcessNames, CancelAlone, CancelEnds
<1>2. PlaceInv'
  <2>1. flow'.status = flow.status \/ flow'.status # "idle"
    BY <1>1 DEF Over, Terminal
  <2> QED
    BY <1>1, <2>1, Apart, AloneCalm, PlaceKept DEF HumanInv, Ending, Release
<1>3. flow'.status \in Resumable => Attended'
  BY <1>1 DEF Over, Terminal, Resumable, Attended
<1> QED
  BY <1>2, <1>3 DEF HumanInv

\* resume() in the service.
LEMMA ResumeRequestHuman ==
    ASSUME TypeOK, SerialInv, HumanInv, StatusStep, ~Overlap, NEW r \in Requests,
           AskResume(r) \/ ResumeReaped(r)
    PROVE  HumanInv'
<1>1. flow \in Flow
  BY DEF TypeOK, FlowTypeOK, ControlOK
<1>2. CASE AskResume(r)
  <2>1. CASE \E a \in {"refused", "busy"} : Reply(r, a) /\ UNCHANGED slot
    BY <1>2, <2>1, AnsweredHuman DEF AskResume, Ask, MayAsk, At, Reply, Answer
  <2>2. CASE ReapTimer(r)
    BY <1>1, <2>2, ReapHuman DEF ReapTimer, ReapFor
  <2>3. CASE flow.status \in Resumable /\ StartTask(r)
    BY <2>3, StartHuman
  <2> QED
    BY <1>2, <2>1, <2>2, <2>3 DEF AskResume
<1>3. CASE ResumeReaped(r)
  <2>1. CASE flow.status \in Resumable /\ StartTask(r)
    BY <2>1, StartHuman
  <2>2. CASE /\ Crashed(r) \/ flow.status \notin Resumable
             /\ \E a \in {"refused", "failed"} : Reply(r, a)
    <3>1. flow.status \notin Resumable
      BY <2>2 DEF Crashed, At, TypeOK, HumanInv, PlaceInv, Ending, Over, Terminal, Resumable
    <3> QED
      BY <1>3, <2>2, <3>1, AnsweredHuman DEF ResumeReaped, Reply, Answer
  <2> QED
    BY <1>3, <2>1, <2>2 DEF ResumeReaped
<1> QED
  BY <1>2, <1>3

\* cancel() in the service.
LEMMA CancelRequestHuman ==
    ASSUME TypeOK, SerialInv, HumanInv, StatusStep, ~Overlap, NEW r \in Requests,
           AskCancel(r) \/ CancelReapedTimer(r) \/ CancelReapedTask(r)
    PROVE  HumanInv'
<1>1. flow \in Flow /\ current \in Tasks
  BY DEF TypeOK, FlowTypeOK, ControlOK
<1>2. ASSUME CancelTask(r) PROVE HumanInv'
  <2>1. CASE Running(Op(current))
    BY <1>1, <1>2, <2>1, ReapHuman DEF CancelTask, ReapFor
  <2>2. CASE ~Running(Op(current))
    <3>1. NoOp
      BY <2>2 DEF SerialInv, OneInv, NoOp
    <3> QED
      BY <1>2, <2>2, <3>1, CancelHuman DEF CancelTask
  <2> QED
    BY <2>1, <2>2
<1>3. ASSUME Crashed(r), Reply(r, "failed"), slot' = slot PROVE HumanInv'
  <2>1. flow.status \notin Resumable
    BY <1>3 DEF Crashed, At, TypeOK, HumanInv, PlaceInv, Ending, Over, Terminal, Resumable
  <2> QED
    BY <1>3, <2>1, AnsweredHuman DEF Reply, Answer
<1>4. CASE AskCancel(r)
  BY <1>1, <1>2, <1>4, ReapHuman DEF AskCancel, ReapTimer, ReapFor
<1>5. CASE CancelReapedTimer(r)
  BY <1>2, <1>3, <1>5 DEF CancelReapedTimer
<1>6. CASE CancelReapedTask(r)
  <2>1. CASE CancelFlow(Request(r))
    <3>1. ~Running(Op(current))
      BY <1>6 DEF CancelReapedTask, Reaped, SerialInv, RequestInv, At
    <3>2. NoOp
      BY <3>1 DEF SerialInv, OneInv, NoOp
    <3> QED
      BY <2>1, <3>2, CancelHuman
  <2> QED
    BY <1>3, <1>6, <2>1 DEF CancelReapedTask
<1> QED
  BY <1>4, <1>5, <1>6

\* pause() in the service.
LEMMA PauseRequestHuman ==
    ASSUME TypeOK, SerialInv, HumanInv, StatusStep, ~Overlap, NEW r \in Requests,
           AskPause(r) \/ PauseReaped(r)
    PROVE  HumanInv'
<1> DEFINE f == [flow EXCEPT !.pauseRequested = TRUE]
<1>1. /\ f \in Flow /\ f.status = flow.status /\ f.manual = flow.manual /\ flow \in Flow
      /\ f.pausedFrom = flow.pausedFrom
  BY DEF TypeOK, FlowTypeOK, ControlOK, Flow
<1>2. ASSUME NEW g \in Flow, PauseAfterInterruption(r, g), NoOp PROVE HumanInv'
  <2>1. /\ flow'.status = "manual_verify" /\ flow'.manual = "user_paused"
        /\ flow'.pausedFrom = "github_email_verify"
    BY <1>2 DEF PauseAfterInterruption, Go, PausedAt, Flow
  <2>2. /\ pc'[Request(r)] = "accepted" /\ Request(r) \in Processes
        /\ \A p \in Processes \ {Request(r)} : pc'[p] = pc[p]
    BY <1>2, ProcessNames DEF PauseAfterInterruption, TypeOK, FlowTypeOK, ControlOK
  <2>3. flow'.manual # Nothing
    BY <2>1 DEF Nothing
  <2>4. PlaceInv'
    BY <1>2, <2>1, <2>2, <2>3, Apart, PlaceKept DEF HumanInv, Calm, Ending, Release
  <2> QED
    BY <2>1, <2>4 DEF HumanInv, Attended
<1>3. CASE AskPause(r)
  <2>1. At(Request(r), "idle") /\ slot' = slot
    BY <1>3 DEF AskPause, Ask, MayAsk
  <2>2. CASE \E a \in {"refused", "accepted"} :
                flow' \in {flow, f} /\ pc' = [pc EXCEPT ![Request(r)] = a]
    BY <1>1, <2>1, <2>2, AnsweredHuman DEF At, Answer
  <2>3. CASE CanInterruptForPause /\ ReapFor(r, "reap_pause", Op(current), {Op(current)}, f)
    BY <1>1, <2>3, ReapHuman DEF CanInterruptForPause, ReapFor, Resumable
  <2>4. CASE ~Running(Op(current)) /\ PauseAfterInterruption(r, f)
    BY <1>1, <1>2, <2>4 DEF SerialInv, OneInv, NoOp
  <2> QED
    BY <1>3, <2>2, <2>3, <2>4 DEF AskPause, Reply
<1>4. CASE PauseReaped(r)
  <2>1. At(Request(r), "reap_pause") /\ slot' = slot /\ NoOp
    BY <1>4 DEF PauseReaped, Reaped, At, SerialInv, RequestInv, OneInv, NoOp
  <2>2. CASE \E a \in {"failed", "accepted"} : Reply(r, a)
    BY <2>1, <2>2, AnsweredHuman DEF At, Reply, Answer
  <2>3. CASE PauseAfterInterruption(r, flow)
    BY <1>1, <1>2, <2>1, <2>3
  <2> QED
    BY <1>4, <2>2, <2>3 DEF PauseReaped
<1> QED
  BY <1>3, <1>4

\* The rest of a request.
LEMMA RequestTailHuman ==
    ASSUME TypeOK, SerialInv, HumanInv, StatusStep, NEW r \in Requests,
           CancelMarked(Request(r)) \/ TailStep(Request(r))
    PROVE  HumanInv'
<1>1. CASE CancelMarked(Request(r))
  <2>1. NoOp
    BY <1>1 DEF CancelMarked, At, SerialInv, RequestInv
  <2> QED
    BY <1>1, <2>1, CancelHuman
<1>2. CASE TailStep(Request(r))
  <2>1. Request(r) \in Processes /\ onExit[Request(r)] # "return"
    BY ProcessNames DEF SerialInv, ExitInv
  <2>2. Alone(Request(r)) /\ flow' = flow /\ Over
    BY <1>2, <2>1, TailAlone, TailOver DEF HumanInv
  <2>3. PlaceInv'
    BY <2>1, <2>2, Apart, AloneCalm, PlaceKept DEF HumanInv, Over
  <2> QED
    BY <2>2, <2>3 DEF HumanInv, Over, Terminal, Resumable
<1> QED
  BY <1>1, <1>2

\* The shutdown: it interrupts what runs, and ends the flow itself.
LEMMA CloserHuman ==
    ASSUME TypeOK, SerialInv, HumanInv, StatusStep, ShutDown \/ CloserStep
    PROVE  HumanInv'
<1>1. flow \in Flow /\ ControlOK /\ Closer \in Processes
  BY ProcessNames DEF TypeOK, FlowTypeOK, ControlOK
<1>2. CASE ShutDown
  <2>1. /\ Calm(Closer) /\ flow'.status = flow.status /\ flow'.manual = flow.manual
        /\ pc'[Closer] = "reap_task"
    BY <1>1, <1>2, ReapCalm DEF ShutDown
  <2>2. PlaceInv'
    BY <1>1, <2>1, Apart, PlaceKept DEF HumanInv, Ending, Release
  <2> QED
    BY <2>1, <2>2 DEF HumanInv, At
<1>3. CASE CloserStep
  <2>1. ~At(Closer, "idle")' /\ Alone(Closer)
    <3>1. CASE \E l \in {"crashed", "reap_timer", "browsers"} : CloserGoto(l)
      BY <1>1, <3>1
         DEF CloserGoto, Alone, world, At, ControlOK, SerialInv, SecretsWiped, Over
    <3>2. CASE CloseBrowsers
      BY <1>1, <3>2
         DEF CloseBrowsers, Goto, Alone, At, ControlOK, SerialInv, SecretsWiped, Over
    <3>3. CASE CancelFlow(Closer) \/ CancelMarked(Closer)
      BY <1>1, <3>3, CancelAlone DEF At
    <3>4. CASE TailStep(Closer)
      <4>1. onExit[Closer] = "shutdown"
        BY DEF SerialInv, ExitInv
      <4>2. Alone(Closer)
        BY <1>1, <3>4, <4>1, TailAlone
      <4>3. pc'[Closer] \in {"close", "clear", "crashed", "browsers"}
        BY <1>1, <3>4, <4>1
           DEF TailStep, MailboxDisposed, BrowserClosed, BrowserCloseFails, Cleared, Goto,
               ThrownTo, ReturnedTo, ControlOK
      <4> QED
        BY <4>2, <4>3 DEF At
    <3> QED
      BY <1>3, <3>1, <3>2, <3>3, <3>4 DEF CloserStep, CloserReapedTask, CloserReapedTimer
  <2>2. PlaceInv'
    <3>1. CASE CloserReapedTask
      <4>1. pc'[Closer] \in {"crashed", "reap_timer"} /\ flow' = flow
            /\ (pc'[Closer] = "crashed" => At(Op(current), "crashed"))
        BY <1>1, <3>1 DEF CloserReapedTask, CloserGoto, ControlOK
      <4>2. Op(current) \in Processes
        BY ProcessNames DEF TypeOK
      <4> QED
        BY <1>1, <2>1, <4>1, <4>2, Apart, AloneCalm, PlaceKept
           DEF HumanInv, PlaceInv, At, Ending, Release, Over
    <3>2. CASE CloserReapedTimer /\ \E l \in {"crashed", "browsers"} : CloserGoto(l)
      <4>1. /\ pc'[Closer] \in {"crashed", "browsers"} /\ flow' = flow
            /\ pc'[Closer] = "crashed" => slot # Nothing /\ At(Timer(slot), "crashed")
        BY <1>1, <3>2 DEF CloserReapedTimer, CloserGoto, CancelFlow, CancelNow, ControlOK,
                          FirstRelease, Cannot
      <4>2. slot # Nothing => Timer(slot) \in Processes
        BY <1>1, ProcessNames DEF ControlOK
      <4> QED
        BY <1>1, <2>1, <4>1, <4>2, Apart, AloneCalm, PlaceKept
           DEF HumanInv, PlaceInv, At, Ending, Release, Over
    <3>3. CASE (CloserReapedTimer /\ CancelFlow(Closer)) \/ CancelMarked(Closer)
      <4>1. NoOp
        BY <3>3 DEF SerialInv, AskInv, CloserReapedTimer, CancelMarked, At
      <4>2. /\ flow'.manual = flow.manual
            /\ Over' \/ (flow'.status = flow.status /\ pc'[Closer] = "cancel_mark")
        BY <1>1, <3>3, CancelEnds
      <4>3. pc'[Closer] \in Ending => Over'
        BY <4>2 DEF Ending, Release
      <4>4. flow'.status = flow.status \/ flow'.status # "idle"
        BY <4>2 DEF Over, Terminal
      <4> QED
        BY <1>1, <2>1, <4>1, <4>2, <4>3, <4>4, Apart, AloneCalm, PlaceKept DEF HumanInv
    <3>4. CASE CloseBrowsers
      <4>1. flow' = flow /\ pc'[Closer] = "done"
        BY <1>1, <3>4 DEF CloseBrowsers, Goto, ControlOK
      <4> QED
        BY <1>1, <2>1, <4>1, Apart, AloneCalm, PlaceKept DEF HumanInv, Ending, Release
    <3>5. CASE TailStep(Closer)
      <4>1. onExit[Closer] # "return"
        BY DEF SerialInv, ExitInv
      <4>2. flow' = flow /\ Over
        BY <1>1, <3>5, <4>1, TailAlone, TailOver DEF HumanInv
      <4> QED
        BY <1>1, <2>1, <4>2, Apart, AloneCalm, PlaceKept DEF HumanInv, Over
    <3> QED
      BY <1>3, <3>1, <3>2, <3>3, <3>4, <3>5 DEF CloserStep, CloserReapedTimer
  <2> QED
    BY <2>1, <2>2 DEF HumanInv
<1> QED
  BY <1>2, <1>3

\* Background steps and stutters leave what the invariant speaks of.
LEMMA HumanStutter ==
    ASSUME HumanInv, UNCHANGED <<flow, pc, slot>>
    PROVE  HumanInv'
  BY DEF HumanInv, PlaceInv, Attended, TimerRunning, Running, At, Over

\* The invariant holds when create() has returned.
LEMMA HumanInit == Init => HumanInv
<1> SUFFICES ASSUME Init PROVE HumanInv
  OBVIOUS
<1>1. /\ \A t \in Tasks : /\ pc[Op(t)] = IF t = Create THEN "begin" ELSE "absent"
                          /\ pc[Timer(t)] = "absent"
      /\ flow.status = "idle" /\ \A p \in Processes : pc[p] \in {"begin", "absent", "idle"}
  BY ProcessNames DEF Init, FlowInit, Op, Timer, Request, Closer, FreshFlow
<1> QED
  BY <1>1 DEF HumanInv, PlaceInv, Ending, Release, Shooting, Mailing, Running, Ended, At,
              Resumable

\* Every step keeps it.
LEMMA HumanStep ==
    ASSUME ~Overlap, IInv, SerialInv, HumanInv, [Next]_vars
    PROVE  HumanInv'
<1>1. TypeOK
  BY DEF IInv
<1>2. CASE UNCHANGED vars
  BY <1>2, HumanStutter DEF vars, flowVars
<1>3. CASE Next
  <2>1. StatusStep
    BY <1>1, <1>3, NextSound DEF Sound, ControlStep
  <2>2. CASE \E t \in Tasks : OperationStep(t) \/ TimeoutStep(t)
    BY <1>1, <2>1, <2>2, OperationHuman, TimeoutHuman
  <2>3. CASE \E r \in Requests : AskResume(r) \/ AskCancel(r) \/ AskPause(r) \/ RequestStep(r)
    BY <1>1, <2>1, <2>3, ResumeRequestHuman, CancelRequestHuman, PauseRequestHuman,
       RequestTailHuman DEF RequestStep
  <2>4. CASE ShutDown \/ CloserStep
    BY <1>1, <2>1, <2>4, CloserHuman
  <2>5. CASE BackgroundStep
    <3>1. UNCHANGED <<flow, pc, slot>>
      BY <2>5 DEF BackgroundStep, CompletionStep, CompletionCommits, CompletionFails, Land,
                  control
    <3> QED
      BY <3>1, HumanStutter
  <2> QED
    BY <1>3, <2>2, <2>3, <2>4, <2>5 DEF Next
<1> QED
  BY <1>2, <1>3

\* The inductive invariant of the waits for a human.
THEOREM HumanInvariant == ASSUME ~Overlap PROVE Spec => []HumanInv
<1>1. IInv /\ SerialInv /\ HumanInv /\ [Next]_vars => HumanInv'
  BY HumanStep
<1> QED
  BY <1>1, HumanInit, Invariant, SerialInvariant, PTL DEF Spec

\* A flow that waits for a human is timed.
THEOREM HumanTimed == ASSUME ~Overlap PROVE Spec => []HumanIsTimed
<1>1. HumanInv => HumanIsTimed
  <2> SUFFICES ASSUME Attended, Quiescent
               PROVE  \/ TimerRunning
                      \/ flow.manual = "user_paused" /\ flow.pausedFrom = "github_email_verify"
    BY DEF HumanInv, HumanIsTimed
  <2>1. \A r \in Requests : pc[Request(r)] \notin {"reap_timer", "reap_task", "cancel_mark"}
    BY DEF Quiescent, Unanswered, Answer
  <2> QED
    BY <2>1 DEF Attended, Quiescent
<1> QED
  BY <1>1, HumanInvariant, PTL

(***************************************************************************)
(* What a flow leaves of its browser contexts                              *)
(***************************************************************************)
\* No context is left that the flow's sessions know of.
Released == contexts \subseteq {"orphan"}

\* Somebody is about to release them.
Releasing == \E p \in Processes : pc[p] \in {"dispose", "close"}

\* A cancel that came too late broke the cleanup off, and is refused or will be.
Late(r) ==
    /\ kind[r] = "cancel"
    /\ \/ pc[Request(r)] \in {"reap_timer", "reap_task"} /\ At(target[r], "done")
       \/ pc[Request(r)] \in {"cancel_mark", "refused"}

Broken == \E r \in Requests : Late(r)

\* The mailbox's context has its address or an operation that gives it back, and who
\* releases the contexts has released what he says.
BoxInv ==
    /\ \A u \in Tasks : pc[Timer(u)] \in Ended \cup TimerAwait
    /\ "mailbox" \in contexts => flow.email \/ \E t \in Tasks : At(Op(t), "email_dispose")
    /\ \A p \in Processes : /\ At(p, "close") => "mailbox" \notin contexts
                            /\ At(p, "clear") => Released

\* What a request asks for, at its awaits, and what an accepted cancel has done.
AskedInv ==
    \A r \in Requests :
        /\ At(Request(r), "reap_pause") => kind[r] = "pause"
        /\ pc[Request(r)] \in {"reap_task", "cancel_mark"} => kind[r] = "cancel"
        /\ kind[r] = "cancel" /\ At(Request(r), "accepted") => Over /\ Released

CleanInv ==
    /\ BoxInv
    /\ AskedInv
    /\ Over => Released \/ Releasing \/ Broken \/ pc[Closer] \notin {"idle", "done"}
    /\ At(Closer, "done") => contexts = {}

(***************************************************************************)
(* The steps of an operation                                               *)
(***************************************************************************)
\* Operation t goes on with the mailbox of f, and releases it first if the flow ends.
Mailed(t, f) ==
    /\ flow'.email = f.email
    /\ pc'[Op(t)] # "clear"
    /\ pc'[Op(t)] = "close" => ~f.email
    /\ Over' => pc'[Op(t)] \in {"dispose", "close"}

\* No update of the flow takes its address away.
LEMMA EmailUpdates ==
    ASSUME NEW f \in Flow
    PROVE  /\ Unblocked(f).email = f.email /\ Wiped(f).email = f.email
           /\ \A N \in SUBSET Secret : Remember(f, N).email = f.email
           /\ \A r \in Reason : Blocked(f, r).email = f.email
           /\ \A s \in Status : PausedAt(f, s).email = f.email /\ Go(f, s).email = f.email
           /\ \A b \in BOOLEAN : /\ [f EXCEPT !.pauseRequested = b].email = f.email
                                 /\ [f EXCEPT !.waitingForCode = b].email = f.email
                                 /\ [f EXCEPT !.account = b].email = f.email
           /\ \A r \in Reason \cup {Nothing} : [f EXCEPT !.manual = r].email = f.email
BY DEF Flow, Unblocked, Wiped, Remember, Blocked, PausedAt, Go

\* A step to a further await.
LEMMA GotoMailed ==
    ASSUME ControlOK, NEW t \in Tasks, NEW f, Going(f), NEW l, l \notin {"close", "clear"},
           Goto(Op(t), l, f)
    PROVE  Mailed(t, f)
  BY ProcessNames DEF Goto, Mailed, ControlOK, Going, Alive, Over

\* The return of an operation.
LEMMA ReturnMailed ==
    ASSUME ControlOK, NEW t \in Tasks, NEW f, Going(f), Return(t, f)
    PROVE  Mailed(t, f)
<1>1. flow' = f /\ pc'[Op(t)] = "done"
  BY Apart, ProcessNames DEF Return, ControlOK
<1> QED
  BY <1>1 DEF Mailed, Going, Alive, Over

\* _fail_and_cleanup after the pending row is marked.
LEMMA FailNowMailed ==
    ASSUME ControlOK, NEW t \in Tasks, NEW f, Going(f), NEW exit, FailNow(Op(t), f, exit)
    PROVE  Mailed(t, f)
<1>1. CanGo(f.status, "error") /\ Wiped(f) \in Flow /\ Wiped(f).email = f.email
      /\ "error" \in Status
  BY MayFail, FlowUpdates, EmailUpdates DEF Going, Alive, Status, Terminal
<1>2. flow'.email = f.email
  BY <1>1, EmailUpdates DEF FailNow
<1>3. pc'[Op(t)] = FirstRelease(f)
  BY <1>1, ProcessNames DEF FailNow, ControlOK
<1> QED
  BY <1>2, <1>3 DEF Mailed, FirstRelease

\* _fail_and_cleanup.
LEMMA FailMailed ==
    ASSUME ControlOK, NEW t \in Tasks, NEW f, Going(f), NEW exit, Fail(Op(t), f, exit)
    PROVE  Mailed(t, f)
<1> DEFINE g == [f EXCEPT !.pauseRequested = FALSE]
<1>1. Going(g) /\ g.email = f.email
  BY GoingFields, EmailUpdates DEF Going, Alive
<1>2. CASE g.account
  <2>1. flow' = g /\ pc'[Op(t)] = "fail_mark"
    BY <1>2, ProcessNames DEF Fail, ControlOK
  <2> QED
    BY <1>1, <2>1 DEF Mailed, Going, Alive, Over
<1>3. CASE ~g.account
  <2>1. Mailed(t, g)
    BY <1>1, <1>3, FailNowMailed DEF Fail
  <2> QED
    BY <1>1, <2>1 DEF Mailed
<1> QED
  BY <1>2, <1>3

\* An exception that leaves an operation.
LEMMA RaiseMailed ==
    ASSUME ControlOK, NEW t \in Tasks, NEW f, Going(f), Raise(t, f)
    PROVE  Mailed(t, f)
  BY FailMailed DEF Raise, Going, Alive

\* _transition, then a further await or the return of the operation.
LEMMA MoveMailed ==
    ASSUME ControlOK, NEW t \in Tasks, NEW f, Going(f),
           NEW s \in Status \ (Terminal \cup {"idle"}),
           \/ ReturnAt(t, f, s)
           \/ \E l \in Location \ {"close", "clear"} : Move(t, f, s, l)
    PROVE  Mailed(t, f)
<1>1. Going(Go(f, s)) /\ Go(f, s).email = f.email
  BY GoingUpdates, EmailUpdates DEF Going, Alive
<1>2. CASE Mailed(t, Go(f, s))
  BY <1>1, <1>2 DEF Mailed
<1>3. CASE ~Mailed(t, Go(f, s))
  BY <1>1, <1>3, GotoMailed, ReturnMailed, RaiseMailed DEF Move, ReturnAt
<1> QED
  BY <1>2, <1>3

\* The ways of an operation to wait for a human.
LEMMA WaitMailed ==
    ASSUME ControlOK, NEW t \in Tasks, NEW f, Going(f),
           (\E s \in Status : Pause(t, f, s)) \/ NeedHuman(t, f) \/ AwaitCode(t, f)
    PROVE  Mailed(t, f)
<1>1. CASE \E s \in Status : Pause(t, f, s)
  <2>1. PICK s \in Status : Pause(t, f, s)
    BY <1>1
  <2>2. Going(PausedAt(f, s)) /\ PausedAt(f, s).email = f.email
    BY GoingUpdates, EmailUpdates DEF Going, Alive
  <2>3. Mailed(t, PausedAt(f, s))
    BY <2>1, <2>2, MoveMailed, OnwardStatus DEF Pause
  <2> QED
    BY <2>2, <2>3 DEF Mailed
<1>2. CASE NeedHuman(t, f)
  BY <1>2, ReturnMailed, MoveMailed, OnwardStatus DEF NeedHuman
<1>3. CASE AwaitCode(t, f)
  <2> DEFINE w == [f EXCEPT !.waitingForCode = TRUE]
             v == Go(w, "github_email_verify")
  <2>1. Going(w) /\ w.email = f.email
    BY GoingFields, EmailUpdates DEF Going, Alive
  <2> HIDE DEF w
  <2>2. Going(v) /\ v.email = f.email
    <3>1. "github_email_verify" \in Status \ (Terminal \cup {"idle"})
      BY OnwardStatus
    <3> QED
      BY <2>1, <3>1, GoingUpdates, EmailUpdates DEF Going, Alive
  <2>3. Goto(Op(t), "code", w) \/ Goto(Op(t), "code", v) \/ Raise(t, f)
    BY <1>3 DEF AwaitCode, w
  <2>4. Mailed(t, w) \/ Mailed(t, v) \/ Mailed(t, f)
    BY <2>1, <2>2, <2>3, GotoMailed, RaiseMailed
  <2> QED
    BY <2>1, <2>2, <2>4 DEF Mailed
<1> QED
  BY <1>1, <1>2, <1>3

\* What a step of operation t does to the contexts: a mailbox keeps its address, and a flow
\* that ends is left to the releases, which come to an end.
Cleaned(t) ==
    /\ flow.email => flow'.email
    /\ "mailbox" \in contexts' => flow'.email \/ At(Op(t), "email_dispose")'
    /\ pc'[Op(t)] = "close" => "mailbox" \notin contexts'
    /\ Over' => Released' \/ pc'[Op(t)] \in {"dispose", "close"}
    /\ Over => contexts' \subseteq contexts

\* An operation that goes on with an address, or without a new mailbox.
LEMMA MailedCleaned ==
    ASSUME SerialInv, CleanInv, NEW t \in Tasks, Running(Op(t)),
           pc[Op(t)] \notin Release \cup {"email_dispose"}, NEW f, flow.email => f.email,
           Mailed(t, f), "mailbox" \in contexts' => "mailbox" \in contexts \/ f.email
    PROVE  Cleaned(t)
<1>1. ~Over
  BY DEF SerialInv, WorkInv
<1>2. \A u \in Tasks : ~At(Op(u), "email_dispose")
  BY DEF SerialInv, OneInv, At, Running, Ended
<1>3. "mailbox" \in contexts' => f.email
  BY <1>2 DEF CleanInv, BoxInv
<1> QED
  BY <1>1, <1>3 DEF Mailed, Cleaned

\* start() up to the registration.
LEMMA RegistrationClean ==
    ASSUME TypeOK, SerialInv, PlaceInv, CleanInv, NEW t \in Tasks,
           Start(t) \/ EmailCreated(t) \/ EmailFailed(t) \/ EmailCreatedInVain(t)
           \/ EmailDisposedInVain(t) \/ UsernameTaken(t)
    PROVE  Cleaned(t)
<1>1. /\ Running(Op(t)) /\ pc[Op(t)] \notin Release /\ flow \in Flow /\ ControlOK
      /\ pc[Op(t)] = "begin" \/ Going(flow)
  <2>1. pc[Op(t)] \in {"begin", "email", "email_cancelled", "email_dispose", "register"}
    BY DEF Start, EmailCreated, EmailFailed, EmailCreatedInVain, EmailDisposedInVain,
           UsernameTaken, At
  <2> QED
    BY <2>1, AtWorkGoing DEF Running, Ended, Release, TypeOK, FlowTypeOK, ControlOK
<1>2. CASE Start(t)
  <2> DEFINE f == Go(flow, "creating_email")
  <2>1. Alive(flow) /\ contexts' = contexts /\ pc[Op(t)] = "begin"
    BY <1>1, <1>2, AtWork DEF Start, world, At
  <2>2. CASE t = Create /\ CanGo(flow.status, "creating_email")
    <3>1. Going(f) /\ f.email = flow.email
      BY <1>1, <2>1, OnwardStatus, AliveUpdates, EmailUpdates DEF Going
    <3>2. Goto(Op(t), "email", f)
      BY <1>2, <2>2 DEF Start, Move
    <3>3. Mailed(t, f)
      BY <1>1, <3>1, <3>2, GotoMailed
    <3> QED
      BY <1>1, <2>1, <3>1, <3>3, MailedCleaned
  <2>3. CASE ~(t = Create /\ CanGo(flow.status, "creating_email"))
    <3>1. flow.status # "idle"
      BY <1>1, <2>3 DEF PlaceInv, CanGo
    <3>2. Goto(Op(t), "resume_clear", flow) \/ Raise(t, flow)
      BY <1>2, <2>3 DEF Start, Move
    <3>3. Mailed(t, flow)
      BY <1>1, <2>1, <3>1, <3>2, GotoMailed, RaiseMailed DEF Going
    <3> QED
      BY <1>1, <2>1, <3>3, MailedCleaned
  <2> QED
    BY <2>2, <2>3
<1>3. CASE EmailCreated(t)
  <2> DEFINE f == [flow EXCEPT !.email = TRUE]
  <2>1. Going(f) /\ f.email /\ pc[Op(t)] = "email"
    BY <1>1, <1>3, GoingFields DEF EmailCreated, At, Flow
  <2> HIDE DEF f
  <2>2. Pause(t, f, "github_register") \/ Move(t, f, "github_register", "register")
    BY <1>3 DEF EmailCreated, f
  <2>3. Mailed(t, f)
    <3>1. "github_register" \in Status \ (Terminal \cup {"idle"})
          /\ "register" \in Location \ {"close", "clear"}
      BY OnwardStatus, Locations
    <3>2. CASE Pause(t, f, "github_register")
      BY <1>1, <2>1, <3>1, <3>2, WaitMailed
    <3>3. CASE Move(t, f, "github_register", "register")
      BY <1>1, <2>1, <3>1, <3>3, MoveMailed
    <3> QED
      BY <2>2, <3>2, <3>3
  <2> QED
    BY <1>1, <2>1, <2>3, MailedCleaned
<1>4. CASE EmailFailed(t)
  <2>1. Mailed(t, flow) /\ contexts' = contexts /\ pc[Op(t)] \in {"email", "email_cancelled"}
    BY <1>1, <1>4, FailMailed, RaiseMailed DEF EmailFailed, At, world
  <2> QED
    BY <1>1, <2>1, MailedCleaned
<1>5. CASE EmailCreatedInVain(t)
  <2>1. /\ pc'[Op(t)] = "email_dispose" /\ flow' = flow /\ ~Over
    BY <1>1, <1>5, ProcessNames DEF EmailCreatedInVain, Goto, ControlOK, SerialInv, WorkInv
  <2> QED
    BY <2>1 DEF Cleaned, At, Over
<1>6. CASE EmailDisposedInVain(t)
  <2>1. pc'[Op(t)] = "done" /\ flow' = flow /\ ~Over /\ "mailbox" \notin contexts'
    BY <1>1, <1>6, ProcessNames DEF EmailDisposedInVain, Goto, ControlOK, SerialInv, WorkInv
  <2> QED
    BY <2>1 DEF Cleaned, Over
<1>7. CASE UsernameTaken(t)
  <2>1. pc[Op(t)] = "register" /\ contexts' = contexts \cup {"account"} /\ Going(flow)
    BY <1>1, <1>7 DEF UsernameTaken, At, Opened
  <2>2. Mailed(t, flow)
    <3>1. CASE UNCHANGED control
      BY <2>1, <3>1 DEF control, Mailed, Going, Alive, Over
    <3>2. CASE Fail(Op(t), flow, "return")
      BY <1>1, <2>1, <3>2, FailMailed
    <3> QED
      BY <1>7, <3>1, <3>2 DEF UsernameTaken
  <2> QED
    BY <1>1, <2>1, <2>2, MailedCleaned
<1> QED
  BY <1>2, <1>3, <1>4, <1>5, <1>6, <1>7

\* _handle_github_result, the screenshot, the email code and the credentials.
LEMMA GithubClean ==
    ASSUME TypeOK, SerialInv, PlaceInv, CleanInv, NEW t \in Tasks,
           \/ GithubBlocked(t) \/ GithubAsksCode(t) \/ GithubCompleted(t) \/ GithubFailed(t)
           \/ ScreenshotTaken(t) \/ ScreenshotSaved(t) \/ CodeArrived(t) \/ CodeMissing(t)
           \/ CredentialsPersisted(t) \/ CredentialsRefused(t)
    PROVE  Cleaned(t)
<1>1. /\ Going(flow) /\ ControlOK /\ flow \in Flow /\ Running(Op(t))
      /\ pc[Op(t)] \notin Release \cup {"email_dispose"}
  <2>1. pc[Op(t)] \in {"register", "submit_code", "inspect_github", "capture", "save_shot",
                       "code", "persist"}
    BY DEF GithubBlocked, GithubAsksCode, GithubCompleted, GithubFailed, GithubAwait,
           ScreenshotTaken, ScreenshotSaved, CodeArrived, CodeMissing, CredentialsPersisted,
           CredentialsRefused, At
  <2> QED
    BY <2>1, AtWorkGoing DEF Running, Ended, Release, Going, Alive
<1>2. contexts' \subseteq contexts \cup {"account"}
  BY DEF GithubBlocked, GithubAsksCode, GithubCompleted, GithubFailed, Opened, MaybeOpened,
         ScreenshotTaken, ScreenshotSaved, CodeArrived, CodeMissing, CredentialsPersisted,
         CredentialsRefused, world
<1>l. {"capture", "save_shot", "persist", "login", "submit_code"} \subseteq
         Location \ {"close", "clear"}
  BY Locations
<1> SUFFICES \E f : Mailed(t, f) /\ f.email = flow.email
  BY <1>1, <1>2, MailedCleaned
<1>3. CASE GithubBlocked(t)
  <2> DEFINE g == [flow EXCEPT !.pauseRequested = FALSE]
             f == Blocked(g, "blocked")
  <2>1. Going(g) /\ g.email = flow.email
    BY <1>1, GoingFields, EmailUpdates
  <2> HIDE DEF g
  <2>2. Going(f) /\ f.email = flow.email
    BY <2>1, GoingUpdates, EmailUpdates DEF Reason, Going, Alive
  <2>3. Goto(Op(t), "capture", f) \/ NeedHuman(t, f)
    BY <1>3 DEF GithubBlocked, g
  <2> QED
    BY <1>1, <2>2, <2>3, GotoMailed, WaitMailed
<1>4. CASE GithubAsksCode(t)
  <2> DEFINE f == Unblocked(flow)
  <2>1. Going(f) /\ f.email = flow.email
    BY <1>1, GoingUpdates, EmailUpdates
  <2>2. Pause(t, f, "github_email_verify") \/ AwaitCode(t, f)
    BY <1>4 DEF GithubAsksCode
  <2> QED
    BY <1>1, <2>1, <2>2, OnwardStatus, WaitMailed
<1>5. CASE GithubCompleted(t)
  <2> DEFINE h == Unblocked(flow)
             g == Remember(h, {"auth"})
             f == [g EXCEPT !.pauseRequested = FALSE]
  <2>1. Going(h) /\ h.email = flow.email
    BY <1>1, GoingUpdates, EmailUpdates
  <2> HIDE DEF h
  <2>2. Going(g) /\ g.email = flow.email
    BY <2>1, GoingUpdates, EmailUpdates DEF Secret, Going, Alive
  <2> HIDE DEF g
  <2>3. Going(f) /\ f.email = flow.email
    BY <2>2, GoingFields, EmailUpdates DEF Going, Alive
  <2>4. \/ Move(t, f, "opencode_login", "login") \/ Goto(Op(t), "persist", f)
        \/ Fail(Op(t), f, "return")
    BY <1>5 DEF GithubCompleted, g, h
  <2> HIDE DEF f
  <2>5. Mailed(t, f)
    BY <1>1, <1>l, <2>3, <2>4, OnwardStatus, MoveMailed, GotoMailed, FailMailed
  <2> QED
    BY <2>3, <2>5
<1>6. CASE GithubFailed(t)
  <2>1. Going(Unblocked(flow)) /\ Unblocked(flow).email = flow.email
    BY <1>1, GoingUpdates, EmailUpdates
  <2> QED
    BY <1>1, <1>6, <2>1, FailMailed, RaiseMailed DEF GithubFailed
<1>7. CASE ScreenshotTaken(t) \/ ScreenshotSaved(t)
  BY <1>1, <1>7, GotoMailed, WaitMailed DEF ScreenshotTaken, ScreenshotSaved
<1>8. CASE CodeArrived(t) \/ CodeMissing(t)
  <2> DEFINE f == [flow EXCEPT !.waitingForCode = FALSE]
  <2>1. Going(f) /\ f.email = flow.email
    BY <1>1, GoingFields, EmailUpdates
  <2>2. Goto(Op(t), "submit_code", f) \/ Fail(Op(t), f, "return") \/ Raise(t, f)
    BY <1>8 DEF CodeArrived, CodeMissing
  <2> HIDE DEF f
  <2> QED
    BY <1>1, <2>1, <2>2, GotoMailed, FailMailed, RaiseMailed
<1>9. CASE CredentialsPersisted(t)
  <2> DEFINE f == [flow EXCEPT !.account = TRUE]
  <2>1. Going(f) /\ f.email = flow.email
    BY <1>1, GoingFields, EmailUpdates
  <2>2. Move(t, f, "opencode_login", "login")
    BY <1>9 DEF CredentialsPersisted
  <2> HIDE DEF f
  <2> QED
    BY <1>1, <1>l, <2>1, <2>2, OnwardStatus, MoveMailed
<1>10. CASE CredentialsRefused(t)
  BY <1>1, <1>10, FailMailed DEF CredentialsRefused
<1> QED
  BY <1>3, <1>4, <1>5, <1>6, <1>7, <1>8, <1>9, <1>10

\* _handle_opencode_result and the completion.
LEMMA OpenCodeClean ==
    ASSUME TypeOK, SerialInv, PlaceInv, CleanInv, NEW t \in Tasks,
           PaymentRequired(t) \/ AuthSaved(t) \/ PaymentMarked(t) \/ OpenCodeBlocked(t)
           \/ OpenCodeFailed(t) \/ ApiKeyObtained(t) \/ CompletionAwaited(t)
    PROVE  Cleaned(t)
<1>1. /\ Going(flow) /\ ControlOK /\ flow \in Flow /\ Running(Op(t))
      /\ pc[Op(t)] \notin Release \cup {"email_dispose"}
  <2>1. pc[Op(t)] \in {"login", "save_auth", "mark_payment", "fetch", "submit_key",
                       "complete", "complete_cancelled"}
    BY DEF PaymentRequired, AuthSaved, PaymentMarked, OpenCodeBlocked, OpenCodeFailed,
           OpenCodeAwait, ApiKeyObtained, CompletionAwaited, At
  <2> QED
    BY <2>1, AtWorkGoing DEF Running, Ended, Release, Going, Alive
<1>2. contexts' \subseteq contexts \cup {"account"}
  BY DEF PaymentRequired, AuthSaved, PaymentMarked, OpenCodeBlocked, OpenCodeFailed, Opened,
         MaybeOpened, ApiKeyObtained, CompletionAwaited, world
<1> SUFFICES \E f : Mailed(t, f) /\ f.email = flow.email
  BY <1>1, <1>2, MailedCleaned
<1>3. CASE PaymentRequired(t)
  <2>1. Going(Remember(flow, {"auth"})) /\ Remember(flow, {"auth"}).email = flow.email
    BY <1>1, GoingUpdates, EmailUpdates DEF Secret
  <2> QED
    BY <1>1, <1>3, <2>1, GotoMailed DEF PaymentRequired
<1>4. CASE AuthSaved(t) \/ OpenCodeFailed(t)
  BY <1>1, <1>4, GotoMailed, FailMailed, RaiseMailed DEF AuthSaved, OpenCodeFailed
<1>5. CASE PaymentMarked(t)
  <2> DEFINE f == [flow EXCEPT !.manual = "payment"]
  <2>0. "payment" \in Reason \cup {Nothing}
    BY DEF Reason
  <2>1. Going(f) /\ f.email = flow.email
    BY <1>1, <2>0, GoingFields, EmailUpdates
  <2>2. ReturnAt(t, f, "pending_payment")
    BY <1>5 DEF PaymentMarked
  <2> HIDE DEF f
  <2> QED
    BY <1>1, <2>1, <2>2, OnwardStatus, MoveMailed
<1>6. CASE OpenCodeBlocked(t)
  <2>1. PICK reason \in {"blocked", "api_key_input"} : NeedHuman(t, Blocked(flow, reason))
    BY <1>6 DEF OpenCodeBlocked
  <2>2. Going(Blocked(flow, reason)) /\ Blocked(flow, reason).email = flow.email
    BY <1>1, GoingUpdates, EmailUpdates DEF Reason
  <2> QED
    BY <1>1, <2>1, <2>2, WaitMailed
<1>7. CASE ApiKeyObtained(t)
  <2> DEFINE g == Remember(flow, {"auth", "api_key"})
             h == Unblocked(g)
             f == Restored(g, "fetch_api_key")
  <2>1. Going(g) /\ g.email = flow.email
    BY <1>1, GoingUpdates, EmailUpdates DEF Secret
  <2>2. Goto(Op(t), "complete", f) \/ Fail(Op(t), f, "return")
    BY <1>7 DEF ApiKeyObtained
  <2> HIDE DEF g
  <2>3. Going(h) /\ h.email = flow.email
    BY <2>1, GoingUpdates, EmailUpdates DEF Going, Alive
  <2>4. f = Go(h, "fetch_api_key") \/ f = g
    BY DEF Restored
  <2> HIDE DEF h
  <2>5. /\ Going(Go(h, "fetch_api_key")) /\ Go(h, "fetch_api_key").email = flow.email
    BY <2>3, OnwardStatus, GoingUpdates, EmailUpdates DEF Going, Alive
  <2> HIDE DEF f
  <2>6. Going(f) /\ f.email = flow.email
    BY <2>1, <2>4, <2>5
  <2> QED
    BY <1>1, <2>2, <2>6, GotoMailed, FailMailed
<1>8. CASE CompletionAwaited(t)
  <2>1. PICK exit \in {"return", "cancelled"} : Finish(t, exit) \/ Fail(Op(t), flow, exit)
    BY <1>8 DEF CompletionAwaited
  <2>2. CASE Fail(Op(t), flow, exit)
    BY <1>1, <2>2, FailMailed
  <2>3. CASE Finish(t, exit)
    <3>1. CanGo(flow.status, "done")
      BY <1>8 DEF CompletionAwaited, SerialInv, WorkInv, At, Completing, CanGo
    <3>2. flow'.email = flow.email
      <4>1. Wiped(flow) \in Flow /\ Wiped(flow).email = flow.email /\ "done" \in Status
        BY <1>1, FlowUpdates, EmailUpdates DEF Status, Terminal
      <4> QED
        BY <2>3, <3>1, <4>1, EmailUpdates DEF Finish
    <3>3. pc'[Op(t)] = FirstRelease(flow)
      BY <1>1, <2>3, <3>1, ProcessNames DEF Finish, ControlOK
    <3> QED
      BY <3>2, <3>3 DEF Mailed, FirstRelease
  <2> QED
    BY <2>1, <2>2, <2>3
<1> QED
  BY <1>3, <1>4, <1>5, <1>6, <1>7, <1>8

\* resume(), once the old screenshots are deleted.
LEMMA ResumeClean ==
    ASSUME TypeOK, SerialInv, PlaceInv, CleanInv, NEW t \in Tasks, NEW withKey,
           Resume(t, withKey)
    PROVE  Cleaned(t)
<1>1. /\ Going(flow) /\ ControlOK /\ flow \in Flow /\ Running(Op(t)) /\ contexts' = contexts
      /\ pc[Op(t)] \notin Release \cup {"email_dispose"}
  <2>1. pc[Op(t)] = "resume_clear" /\ contexts' = contexts
    BY DEF Resume, At
  <2> QED
    BY <2>1, AtWorkGoing DEF Running, Ended, Release, Going, Alive
<1>l. {"fetch", "register", "code", "login"} \subseteq Location \ {"close", "clear"}
  BY Locations
<1> SUFFICES \E f : Mailed(t, f) /\ f.email = flow.email
  BY <1>1, MailedCleaned
<1>2. CASE Move(t, [flow EXCEPT !.manual = Nothing], "fetch_api_key", "fetch")
  <2> DEFINE f == [flow EXCEPT !.manual = Nothing]
  <2>1. Going(f) /\ f.email = flow.email
    BY <1>1, GoingFields, EmailUpdates
  <2>2. Move(t, f, "fetch_api_key", "fetch")
    BY <1>2
  <2> HIDE DEF f
  <2> QED
    BY <1>1, <1>l, <2>1, <2>2, OnwardStatus, MoveMailed
<1>3. CASE ResumePause(t)
  <2> DEFINE s == flow.pausedFrom
             g == Unblocked(flow)
             f == [g EXCEPT !.waitingForCode = (s = "github_email_verify")]
  <2>1. Going(g) /\ g.email = flow.email
    BY <1>1, GoingUpdates, EmailUpdates
  <2>2. \/ Fail(Op(t), flow, "return")
        \/ /\ s \in {"github_register", "github_email_verify", "opencode_login"}
           /\ Move(t, f, s, ResumePoint(s))
    BY <1>3 DEF ResumePause
  <2> HIDE DEF g
  <2>3. Going(f) /\ f.email = flow.email
    BY <2>1, GoingFields, EmailUpdates DEF Going, Alive
  <2> HIDE DEF f
  <2>4. CASE s \in {"github_register", "github_email_verify", "opencode_login"}
             /\ Move(t, f, s, ResumePoint(s))
    <3>1. /\ ResumePoint(s) \in Location \ {"close", "clear"}
          /\ s \in Status \ (Terminal \cup {"idle"})
      BY <1>l, <2>4, OnwardStatus DEF ResumePoint
    <3> QED
      BY <1>1, <2>3, <2>4, <3>1, MoveMailed
  <2> QED
    BY <1>1, <2>2, <2>4, FailMailed
<1>4. CASE Goto(Op(t), "submit_key", flow)
  BY <1>1, <1>4, GotoMailed
<1>5. CASE flow.status = "manual_verify" /\ ResumeBlocked(t)
  <2> DEFINE g == Unblocked(flow)
  <2>1. Going(g) /\ g.email = flow.email
    BY <1>1, GoingUpdates, EmailUpdates
  <2>2. \/ \E s \in {"opencode_login", "fetch_api_key"} :
              \E l \in {"login", "fetch"} : Goto(Op(t), l, Go(g, s))
        \/ Goto(Op(t), "inspect_github", flow)
    BY <1>5 DEF ResumeBlocked, Restored
  <2> HIDE DEF g
  <2>3. ASSUME NEW s \in {"opencode_login", "fetch_api_key"}
        PROVE  Going(Go(g, s)) /\ Go(g, s).email = flow.email
    <3>1. s \in Status \ (Terminal \cup {"idle"})
      BY OnwardStatus
    <3>2. Going(Go(g, s))
      BY <2>1, <3>1, GoingUpdates
    <3>3. Go(g, s).email = g.email
      BY <2>1, <3>1, EmailUpdates DEF Going, Alive
    <3> QED
      BY <2>1, <3>2, <3>3
  <2> QED
    BY <1>1, <2>2, <2>3, GotoMailed
<1>6. CASE Raise(t, flow)
  BY <1>1, <1>6, RaiseMailed
<1> QED
  BY <1>2, <1>3, <1>4, <1>5, <1>6 DEF Resume

\* The releases at the end of an operation.
LEMMA TailClean ==
    ASSUME TypeOK, SerialInv, PlaceInv, CleanInv, ~CleanupMayFail, NEW t \in Tasks,
           FailMarked(Op(t)) \/ TailStep(Op(t))
    PROVE  Cleaned(t)
<1>1. ControlOK /\ flow \in Flow /\ Op(t) \in Processes
  BY ProcessNames DEF TypeOK, FlowTypeOK, ControlOK
<1>2. CASE FailMarked(Op(t))
  <2>1. /\ Going(flow) /\ Running(Op(t)) /\ pc[Op(t)] \notin Release \cup {"email_dispose"}
    BY <1>2, AtWorkGoing DEF FailMarked, At, Running, Ended, Release
  <2>2. Mailed(t, flow) /\ contexts' = contexts
    BY <1>1, <1>2, <2>1, FailNowMailed DEF FailMarked
  <2> QED
    BY <2>1, <2>2, MailedCleaned
<1>3. CASE TailStep(Op(t))
  <2>1. /\ Running(Op(t)) /\ flow' = flow /\ Over
        /\ pc[Op(t)] \in Release
    <3>1. pc[Op(t)] \in Release
      BY <1>3 DEF TailStep, MailboxDisposed, BrowserClosed, BrowserCloseFails, Cleared, At,
                  Release
    <3>2. flow' = flow
      BY <1>3 DEF TailStep, MailboxDisposed, BrowserClosed, BrowserCloseFails, Cleared, Goto,
                  Return
    <3> QED
      BY <1>1, <1>3, <3>1, <3>2, TailOver DEF Running, Ended, Release
  <2>2. "mailbox" \in contexts => flow.email
    BY <2>1 DEF SerialInv, OneInv, At, Running, Ended, Release, CleanInv, BoxInv
  <2>3. CASE MailboxDisposed(Op(t))
    <3>1. pc'[Op(t)] = "close" /\ contexts' = contexts \ {"mailbox"}
      BY <1>1, <2>3 DEF MailboxDisposed, Goto, ControlOK
    <3> QED
      BY <2>1, <3>1 DEF Cleaned
  <2>4. CASE BrowserClosed(Op(t))
    <3>1. /\ pc'[Op(t)] = "clear" /\ contexts' = contexts \ {"account"}
          /\ contexts \subseteq Context /\ "mailbox" \notin contexts
      BY <1>1, <2>4 DEF BrowserClosed, Goto, ControlOK, TypeOK, FlowTypeOK, WorldOK,
             CleanInv, BoxInv
    <3> QED
      BY <2>1, <3>1 DEF Cleaned, Released, Context
  <2>5. CASE Cleared(Op(t))
    <3>1. contexts' = contexts /\ Released /\ pc'[Op(t)] \in {"done", "accepted", "browsers"}
      <4>1. pc'[Op(t)] \in {"done", "accepted", "browsers"}
        BY <1>1, <2>5, Apart, ProcessNames
           DEF Cleared, Goto, Return, ReturnedTo, ControlOK, Exit
      <4> QED
        BY <1>1, <2>5, <4>1 DEF Cleared, CleanInv, BoxInv
    <3> QED
      BY <2>1, <3>1 DEF Cleaned, Released
  <2> QED
    BY <1>3, <2>3, <2>4, <2>5 DEF TailStep, BrowserCloseFails
<1> QED
  BY <1>2, <1>3

\* The steps of an operation keep the invariant.
LEMMA OperationClean ==
    ASSUME TypeOK, SerialInv, HumanInv, CleanInv, ~CleanupMayFail, StatusStep,
           NEW t \in Tasks, OperationStep(t)
    PROVE  CleanInv'
<1>1. Cleaned(t) /\ Tended(t) /\ Led(t) /\ Accounted(t) /\ UNCHANGED service
  BY RegistrationClean, GithubClean, OpenCodeClean, ResumeClean, TailClean, OperationTended,
     OperationLed DEF OperationStep, OpStep, HumanInv
<1>2. /\ t = current /\ \A u \in Tasks \ {t} : ~Running(Op(u))
      /\ ~NoOp /\ Running(Op(t))
  BY <1>1 DEF SerialInv, OneInv, Accounted, NoOp
<1>3. /\ \A p \in Processes \ {Op(t), Timer(t)} : pc'[p] = pc[p]
      /\ \A u \in Tasks \ {t} : pc'[Op(u)] = pc[Op(u)] /\ pc'[Timer(u)] = pc[Timer(u)]
      /\ \A r \in Requests : pc'[Request(r)] = pc[Request(r)]
      /\ pc'[Closer] = pc[Closer]
  BY <1>1, Apart, ProcessNames DEF Led
<1>4. \A u \in Tasks : pc'[Timer(u)] \in Ended \cup TimerAwait
  BY <1>1, <1>3 DEF Tended, CleanInv, BoxInv, TimerAwait
<1>5. \A p \in Processes : ~Running(p) \/ p = Op(t) \/ pc[p] \notin Release
  <2>1. \A u \in Tasks : ~Running(Timer(u))
    BY <1>2 DEF SerialInv, TimerInv
  <2>2. \A r \in Requests : pc[Request(r)] \notin Release
    BY <1>2 DEF SerialInv, RequestInv
  <2>3. pc[Closer] \notin Release
    BY <1>2 DEF SerialInv, AskInv, Release
  <2> QED
    BY <1>2, <2>1, <2>2, <2>3 DEF Processes, Op, Timer, Request
<1>6. \A p \in Processes \ {Op(t)} : pc'[p] \notin Release
  BY <1>1, <1>3, <1>5 DEF Tended, Running, Ended, Release
<1>7. Over' => Released' \/ pc'[Op(t)] \in {"dispose", "close"}
  BY <1>1 DEF Cleaned
<1>8. BoxInv'
  <2>1. pc'[Op(t)] = "clear" => Released'
    BY <1>1, <1>7 DEF Tended, Ending, Release
  <2>2. \A p \in Processes : /\ At(p, "close")' => "mailbox" \notin contexts'
                             /\ At(p, "clear")' => Released'
    BY <1>1, <1>6, <2>1 DEF Cleaned, At, Release
  <2> QED
    BY <1>1, <1>4, <2>2 DEF BoxInv, Cleaned
<1>9. AskedInv'
  BY <1>1, <1>3 DEF CleanInv, AskedInv, Cleaned, At, service, StatusStep, Over, Released
<1>10. Over' => Released' \/ Releasing'
  BY <1>7, ProcessNames DEF Releasing
<1>11. ~At(Closer, "done")'
  BY <1>2, <1>3 DEF SerialInv, AskInv, At
<1> QED
  BY <1>8, <1>9, <1>10, <1>11 DEF CleanInv

(***************************************************************************)
(* Whoever is no operation                                                 *)
(***************************************************************************)
\* A process that is no operation and moves alone, without a new context.
LEMMA AloneBox ==
    ASSUME BoxInv, NEW p \in Processes, Alone(p), \A t \in Tasks : p # Op(t),
           flow'.email = flow.email, contexts' \subseteq contexts,
           pc'[p] = "close" => "mailbox" \notin contexts', pc'[p] = "clear" => Released',
           \A t \in Tasks : p = Timer(t) => pc'[p] \in Ended \cup TimerAwait
    PROVE  BoxInv'
<1>1. \A t \in Tasks : /\ pc'[Op(t)] = pc[Op(t)]
                       /\ Timer(t) = p \/ pc'[Timer(t)] = pc[Timer(t)]
  BY ProcessNames DEF Alone
<1>2. \A u \in Tasks : pc'[Timer(u)] \in Ended \cup TimerAwait
  BY <1>1 DEF BoxInv
<1>3. "mailbox" \in contexts' => flow'.email \/ \E t \in Tasks : At(Op(t), "email_dispose")'
  BY <1>1 DEF BoxInv, At
<1>4. \A q \in Processes : /\ At(q, "close")' => "mailbox" \notin contexts'
                           /\ At(q, "clear")' => Released'
  BY DEF BoxInv, Alone, At, Released
<1> QED
  BY <1>2, <1>3, <1>4 DEF BoxInv

\* An interruption by a request or the shutdown opens no context but an orphan once the
\* flow is over.
LEMMA ReapBox ==
    ASSUME TypeOK, SerialInv, PlaceInv, BoxInv, NEW f \in Flow, f.email = flow.email,
           NEW P \in SUBSET Processes,
           \A q \in P : \E t \in Tasks : q = Op(t) \/ q = Timer(t),
           NEW p \in Processes, \A t \in Tasks : p # Op(t) /\ p # Timer(t),
           NEW l \in {"reap_timer", "reap_task", "reap_pause"}, Reap(p, l, P, f)
    PROVE  /\ BoxInv'
           /\ Over => contexts' \subseteq contexts \cup {"orphan"}
<1>1. /\ flow'.email = flow.email /\ contexts' \in Torn(P) /\ pc'[p] = l
      /\ \A q \in Processes \ {p} : pc'[q] = IF q \in P THEN Interrupted(q) ELSE pc[q]
  BY DEF Reap, Interrupt, Flow
<1>2. \A u \in Tasks : pc'[Timer(u)] \in Ended \cup TimerAwait
  <2>1. \A u \in Tasks : pc'[Timer(u)] \in {pc[Timer(u)], "done"}
    <3>1. \A u \in Tasks : pc[Timer(u)] \notin {"email", "complete"}
      BY DEF BoxInv, Ended, TimerAwait, Tail
    <3> QED
      BY <1>1, <3>1, ProcessNames DEF Interrupted, At
  <2> QED
    BY <2>1 DEF BoxInv, Ended
<1>3. Over => contexts' \subseteq contexts \cup {"orphan"}
  <2> SUFFICES ASSUME Over PROVE contexts' \subseteq contexts \cup {"orphan"}
    OBVIOUS
  <2>1. ~InterruptedAt(P, Browsing)
    <3>1. \A t \in Tasks : pc[Op(t)] \notin Browsing
      BY DEF SerialInv, WorkInv, Running, Ended, Release, Browsing, GithubAwait, OpenCodeAwait
    <3>2. \A t \in Tasks : pc[Timer(t)] \notin Browsing
      BY DEF BoxInv, Ended, TimerAwait, Tail, Browsing, GithubAwait, OpenCodeAwait
    <3> QED
      BY <3>1, <3>2 DEF InterruptedAt
  <2> QED
    BY <1>1, <2>1 DEF Torn, Context
<1>4. "mailbox" \in contexts' => flow'.email \/ \E t \in Tasks : At(Op(t), "email_dispose")'
  <2> SUFFICES ASSUME "mailbox" \in contexts', ~flow.email
               PROVE  \E t \in Tasks : At(Op(t), "email_dispose")'
    BY <1>1
  <2>1. "mailbox" \in contexts /\ ~InterruptedAt(P, {"dispose", "email_dispose"})
    BY <1>1 DEF Torn
  <2>2. PICK t \in Tasks : At(Op(t), "email_dispose")
    BY <2>1 DEF BoxInv
  <2>3. Op(t) \notin P /\ Op(t) \in Processes \ {p}
    BY <2>1, <2>2, ProcessNames DEF InterruptedAt, At
  <2> QED
    BY <1>1, <2>2, <2>3 DEF At
<1>5. \A q \in Processes : /\ At(q, "close")' => "mailbox" \notin contexts'
                           /\ At(q, "clear")' => Released'
  <2> SUFFICES ASSUME NEW q \in Processes, pc'[q] \in {"close", "clear"}
               PROVE  /\ pc'[q] = "close" => "mailbox" \notin contexts'
                      /\ pc'[q] = "clear" => Released'
    BY DEF At
  <2>1. pc'[q] = pc[q]
    BY <1>1 DEF Interrupted
  <2>2. Over
    BY <2>1 DEF PlaceInv, Ending, Release
  <2> QED
    BY <1>3, <2>1, <2>2 DEF BoxInv, At, Released
<1> QED
  BY <1>1, <1>2, <1>3, <1>4, <1>5 DEF BoxInv

\* A cleanup that a cancel broke off stays so, when another process moves.
LEMMA BrokenKept ==
    ASSUME TypeOK, Broken, UNCHANGED <<kind, target>>, NEW p \in Processes, Running(p),
           \A q \in Processes \ {p} : pc'[q] = pc[q], \A r \in Requests : p # Request(r)
    PROVE  Broken'
<1>1. PICK r \in Requests : Late(r)
  BY DEF Broken
<1>2. pc'[Request(r)] = pc[Request(r)]
  BY ProcessNames
<1>3. At(target[r], "done") => At(target[r], "done")'
  BY DEF TypeOK, At, Running, Ended
<1> QED
  BY <1>1, <1>2, <1>3 DEF Broken, Late

\* The releases, in a process that is no operation.
LEMMA TailFrees ==
    ASSUME TypeOK, SerialInv, PlaceInv, BoxInv, ~CleanupMayFail, NEW p \in Processes,
           onExit[p] # "return", TailStep(p)
    PROVE  /\ Alone(p) /\ slot' = slot /\ flow' = flow /\ Over
           /\ contexts' \subseteq contexts
           /\ pc'[p] \in {"close", "clear", ReturnedTo(onExit[p])}
           /\ pc'[p] = "close" => "mailbox" \notin contexts'
           /\ pc'[p] # "close" => Released'
<1>1. Alone(p) /\ slot' = slot /\ flow' = flow /\ Over
  BY TailAlone, TailOver
<1>2. ControlOK /\ contexts \subseteq Context
  BY DEF TypeOK, FlowTypeOK, WorldOK
<1>3. CASE MailboxDisposed(p)
  BY <1>1, <1>2, <1>3 DEF MailboxDisposed, Goto, ControlOK
<1>4. CASE BrowserClosed(p)
  BY <1>1, <1>2, <1>4 DEF BrowserClosed, Goto, ControlOK, BoxInv, Released, Context
<1>5. CASE Cleared(p)
  <2>1. Released /\ contexts' = contexts /\ pc'[p] = ReturnedTo(onExit[p])
    BY <1>2, <1>5 DEF Cleared, Goto, ControlOK, BoxInv
  <2>2. ReturnedTo(onExit[p]) # "close"
    BY <1>2 DEF ReturnedTo, ControlOK, Exit
  <2> QED
    BY <1>1, <2>1, <2>2 DEF Released
<1> QED
  BY <1>3, <1>4, <1>5 DEF TailStep, BrowserCloseFails

\* What was being released still is, when a process that releases nothing moves.
LEMMA ReleasingKept ==
    ASSUME Releasing, NEW p \in Processes, pc[p] \notin {"dispose", "close"},
           \A q \in Processes \ {p} : pc'[q] = pc[q]
    PROVE  Releasing'
BY DEF Releasing

\* The timeout.
LEMMA TimeoutClean ==
    ASSUME TypeOK, SerialInv, HumanInv, CleanInv, ~CleanupMayFail, StatusStep,
           NEW t \in Tasks, TimeoutStep(t)
    PROVE  CleanInv'
<1>1. /\ Alone(Timer(t)) /\ Running(Timer(t)) /\ NoOp /\ Timer(t) \in Processes
      /\ UNCHANGED <<kind, target>> /\ onExit[Timer(t)] = "handler"
      /\ flow \in Flow /\ ControlOK /\ flow.status # "idle"
  BY TimeoutAlone, ProcessNames
     DEF TimeoutStep, service, SerialInv, ExitInv, TypeOK, FlowTypeOK, ControlOK, HumanInv,
         PlaceInv
<1>2. /\ \A r \in Requests : pc'[Request(r)] = pc[Request(r)]
      /\ pc'[Closer] = pc[Closer]
      /\ \A q \in Processes \ {Timer(t)} : pc'[q] = pc[q]
  BY <1>1, Apart, ProcessNames DEF Alone
<1>3. /\ contexts' \subseteq contexts /\ flow'.email = flow.email
      /\ pc'[Timer(t)] \in Ended \cup TimerAwait
      /\ pc'[Timer(t)] = "close" => "mailbox" \notin contexts'
      /\ pc'[Timer(t)] = "clear" => Released'
      /\ Over' => \/ Released' \/ pc'[Timer(t)] \in {"dispose", "close"}
                  \/ Over /\ pc[Timer(t)] \notin {"dispose", "close"}
  <2>1. CASE TailStep(Timer(t))
    <3>1. /\ contexts' \subseteq contexts /\ flow' = flow
          /\ pc'[Timer(t)] \in {"close", "clear", "done"}
          /\ pc'[Timer(t)] = "close" => "mailbox" \notin contexts'
          /\ pc'[Timer(t)] # "close" => Released'
      BY <1>1, <2>1, TailFrees DEF HumanInv, CleanInv, ReturnedTo
    <3> QED
      BY <3>1 DEF Ended, TimerAwait, Tail
  <2> DEFINE g == [flow EXCEPT !.pauseRequested = FALSE]
  <2>2. g \in Flow /\ g.status = flow.status /\ g.email = flow.email
    BY <1>1 DEF Flow
  <2>3. "mailbox" \in contexts => flow.email
    BY <1>1 DEF CleanInv, BoxInv, NoOp, At, Running, Ended
  <2>4. ASSUME NEW f \in Flow, f.status = flow.status, f.email = flow.email,
               FailNow(Timer(t), f, "handler")
        PROVE  /\ flow'.email = flow.email
               /\ pc'[Timer(t)] \in {"dispose", "close", "crashed"}
               /\ pc'[Timer(t)] = "close" => ~flow.email
               /\ ~Over => pc'[Timer(t)] \in {"dispose", "close"}
    <3>1. Wiped(f) \in Flow /\ Wiped(f).email = f.email /\ "error" \in Status
      BY <2>4, FlowUpdates, EmailUpdates DEF Status, Terminal
    <3>2. flow'.email = flow.email
      BY <2>4, <3>1, EmailUpdates DEF FailNow
    <3>3. pc'[Timer(t)] = IF CanGo(f.status, "error") THEN FirstRelease(f) ELSE "crashed"
      BY <1>1, <2>4 DEF FailNow, ThrownTo, ControlOK
    <3>4. ~Over => CanGo(f.status, "error")
      BY <1>1, <2>4, MayFail DEF Over
    <3> QED
      BY <2>4, <3>2, <3>3, <3>4 DEF FirstRelease
  <2>5. CASE Expire(t)
    <3>1. pc[Timer(t)] = "sleep" /\ contexts' = contexts
      BY <2>5 DEF Expire, At, world
    <3>2. CASE flow.manual # Nothing /\ ~g.account
      <4>1. FailNow(Timer(t), g, "handler")
        BY <2>5, <3>2 DEF Expire, Fail
      <4> QED
        BY <2>2, <2>3, <2>4, <3>1, <4>1 DEF Ended, TimerAwait, Tail
    <3>3. CASE flow.manual # Nothing /\ g.account
      <4>1. flow' = g /\ pc'[Timer(t)] = "fail_mark"
        BY <1>1, <2>5, <3>3 DEF Expire, Fail, ControlOK
      <4> QED
        BY <2>2, <3>1, <4>1 DEF Ended, TimerAwait, Tail, Over
    <3>4. CASE flow.manual = Nothing
      <4>1. flow' = flow /\ pc'[Timer(t)] = "done"
        BY <1>1, <2>5, <3>4 DEF Expire, Goto, ControlOK
      <4> QED
        BY <3>1, <4>1 DEF Ended, Over
    <3> QED
      BY <3>2, <3>3, <3>4
  <2>6. CASE FailMarked(Timer(t))
    <3>1. /\ pc[Timer(t)] = "fail_mark" /\ contexts' = contexts
          /\ FailNow(Timer(t), flow, "handler")
      BY <1>1, <2>6 DEF FailMarked, At
    <3> QED
      BY <1>1, <2>3, <2>4, <3>1 DEF Ended, TimerAwait, Tail
  <2> QED
    BY <2>1, <2>5, <2>6 DEF TimeoutStep, TimerStep
<1>4. BoxInv'
  BY <1>1, <1>3, Apart, AloneBox DEF CleanInv
<1>5. AskedInv'
  BY <1>1, <1>2, <1>3 DEF CleanInv, AskedInv, At, StatusStep, Over, Released
<1>6. Over' => Released' \/ Releasing' \/ Broken' \/ pc'[Closer] \notin {"idle", "done"}
  <2>1. CASE Over /\ pc[Timer(t)] \notin {"dispose", "close"}
    <3>1. CASE Released
      BY <1>3, <3>1 DEF Released
    <3>2. CASE Releasing
      BY <1>1, <1>2, <2>1, <3>2, ReleasingKept
    <3>3. CASE Broken
      BY <1>1, <1>2, <3>3, Apart, BrokenKept
    <3> QED
      BY <1>2, <2>1, <3>1, <3>2, <3>3 DEF CleanInv
  <2> QED
    BY <1>1, <1>3, <2>1 DEF Releasing
<1>7. At(Closer, "done")' => contexts' = {}
  BY <1>2, <1>3 DEF CleanInv, At
<1> QED
  BY <1>4, <1>5, <1>6, <1>7 DEF CleanInv

\* A step of request r in its turn keeps the invariant, if it does its own part.
LEMMA TurnClean ==
    ASSUME CleanInv, StatusStep, NEW r \in Requests, Turn(r),
           \A q \in Requests \ {r} : /\ pc'[Request(q)] = pc[Request(q)]
                                     /\ kind'[q] = kind[q],
           pc'[Closer] = pc[Closer], BoxInv',
           Over => contexts' \subseteq contexts \cup {"orphan"},
           At(Request(r), "reap_pause")' => kind'[r] = "pause",
           pc'[Request(r)] \in {"reap_task", "cancel_mark"} => kind'[r] = "cancel",
           kind'[r] = "cancel" /\ At(Request(r), "accepted")' => Over' /\ Released',
           Over' => \/ Released' \/ Releasing' \/ Broken'
                    \/ Over /\ ~Late(r) /\ (Releasing => Releasing' \/ Broken')
    PROVE  CleanInv'
<1>1. AskedInv'
  BY DEF CleanInv, AskedInv, At, StatusStep, Over, Released
<1>2. ASSUME Over, ~Late(r), Releasing => Releasing' \/ Broken'
      PROVE  Released' \/ Releasing' \/ Broken'
  <2>1. CASE Released
    BY <1>2, <2>1 DEF Released
  <2>2. CASE Broken
    <3>1. PICK q \in Requests \ {r} : Late(q)
      BY <1>2, <2>2 DEF Broken
    <3>2. pc[Request(q)] = "refused"
      BY <3>1, OthersAnswered DEF Late
    <3> QED
      BY <3>1, <3>2 DEF Broken, Late
  <2> QED
    BY <1>2, <2>1, <2>2 DEF CleanInv, Turn, At
<1> QED
  BY <1>1, <1>2 DEF CleanInv, Turn, At

\* A request that is answered at once.
LEMMA AnsweredClean ==
    ASSUME TypeOK, SerialInv, CleanInv, StatusStep, NEW r \in Requests, Turn(r),
           NEW a \in Answer, pc' = [pc EXCEPT ![Request(r)] = a], contexts' = contexts,
           flow'.status = flow.status, flow'.email = flow.email,
           \A q \in Requests \ {r} : kind'[q] = kind[q],
           a = "accepted" => kind'[r] # "cancel",
           pc[Request(r)] \in {"idle", "reap_timer", "reap_task", "reap_pause"}, ~Late(r)
    PROVE  CleanInv'
<1>1. /\ \A p \in Processes \ {Request(r)} : pc'[p] = pc[p]
      /\ pc'[Request(r)] = a /\ Request(r) \in Processes
  BY ProcessNames DEF TypeOK, FlowTypeOK, ControlOK
<1>2. /\ \A t \in Tasks : pc'[Op(t)] = pc[Op(t)] /\ pc'[Timer(t)] = pc[Timer(t)]
      /\ \A q \in Requests \ {r} : pc'[Request(q)] = pc[Request(q)]
      /\ pc'[Closer] = pc[Closer]
  BY <1>1, Apart, ProcessNames
<1>3. BoxInv'
  <2>1. \A p \in Processes : /\ At(p, "close")' => "mailbox" \notin contexts'
                             /\ At(p, "clear")' => Released'
    BY <1>1 DEF CleanInv, BoxInv, At, Released, Answer
  <2> QED
    BY <1>2, <2>1 DEF CleanInv, BoxInv, At
<1>4. Releasing => Releasing'
  BY <1>1, ReleasingKept
<1> QED
  BY <1>1, <1>2, <1>3, <1>4, TurnClean DEF Answer, At, Over

\* A request that interrupts a process: a flow that is over is only interrupted by a cancel,
\* which comes too late.
LEMMA ReapClean ==
    ASSUME TypeOK, SerialInv, HumanInv, CleanInv, StatusStep, NEW r \in Requests, Turn(r),
           At(Request(r), "idle"), \A q \in Requests \ {r} : kind'[q] = kind[q],
           NEW P, NEW awaited, P \subseteq {awaited},
           \E t \in Tasks : awaited = Op(t) \/ awaited = Timer(t),
           NEW l \in {"reap_timer", "reap_task", "reap_pause"},
           l = "reap_pause" => kind'[r] = "pause", l = "reap_task" => kind'[r] = "cancel",
           Over => kind'[r] = "cancel",
           NEW f \in Flow, f.status = flow.status, f.email = flow.email,
           ReapFor(r, l, awaited, P, f)
    PROVE  CleanInv'
<1>1. /\ Reap(Request(r), l, P, f) /\ target'[r] = awaited /\ awaited \in Processes
      /\ Request(r) \in Processes
  BY ProcessNames DEF ReapFor, TypeOK
<1>2. /\ flow'.status = flow.status /\ pc'[Request(r)] = l
      /\ \A q \in Processes \ {Request(r)} :
            pc'[q] = IF q \in P THEN Interrupted(q) ELSE pc[q]
  <2>1. flow'.status = flow.status
    BY <1>1 DEF Reap, Interrupt, Flow
  <2> QED
    BY <1>1, <2>1 DEF Reap
<1>3. /\ \A q \in Requests \ {r} : pc'[Request(q)] = pc[Request(q)]
      /\ pc'[Closer] = pc[Closer]
  BY <1>2, Apart, ProcessNames
<1>4. BoxInv' /\ (Over => contexts' \subseteq contexts \cup {"orphan"})
  <2>1. P \in SUBSET Processes /\ \A q \in P : \E t \in Tasks : q = Op(t) \/ q = Timer(t)
    BY <1>1
  <2>2. \A t \in Tasks : Request(r) # Op(t) /\ Request(r) # Timer(t)
    BY Apart
  <2> QED
    BY <1>1, <2>1, <2>2, ReapBox DEF HumanInv, CleanInv
<1>5. ASSUME Over, Releasing PROVE Releasing' \/ Broken'
  <2>1. PICK p \in Processes : pc[p] \in {"dispose", "close"}
    BY <1>5 DEF Releasing
  <2>2. p # Request(r)
    BY <2>1 DEF At
  <2>3. CASE p \notin P
    BY <1>2, <2>1, <2>2, <2>3 DEF Releasing
  <2>4. CASE p \in P
    <3>1. target'[r] = p /\ pc'[p] = "done"
      BY <1>1, <1>2, <2>1, <2>2, <2>4 DEF Interrupted, At, Running, Ended
    <3>2. l # "reap_pause" /\ kind'[r] = "cancel"
      BY <1>5
    <3> QED
      BY <1>2, <3>1, <3>2 DEF Broken, Late, At
  <2> QED
    BY <2>3, <2>4
<1>6. ~Late(r)
  BY DEF Late, At
<1>7. Over' => Over
  BY <1>2 DEF Over
<1> QED
  BY <1>2, <1>3, <1>4, <1>5, <1>6, <1>7, TurnClean DEF At

\* A new operation, in a flow that is not over.
LEMMA StartClean ==
    ASSUME TypeOK, SerialInv, CleanInv, StatusStep, NEW r \in Requests, Turn(r), NoOp,
           flow.status \in Resumable, StartTask(r),
           kind'[r] \in ResumeKind, \A q \in Requests \ {r} : kind'[q] = kind[q]
    PROVE  CleanInv'
<1>1. r \in Tasks /\ flow' = flow /\ contexts' = contexts
  BY DEF StartTask, Tasks, world
<1>2. /\ pc'[Op(r)] = "begin" /\ pc'[Request(r)] = "accepted"
      /\ \A p \in Processes \ {Op(r), Request(r)} : pc'[p] = pc[p]
  BY <1>1, Apart, ProcessNames DEF StartTask, TypeOK, FlowTypeOK, ControlOK
<1>3. /\ \A t \in Tasks \ {r} : pc'[Op(t)] = pc[Op(t)]
      /\ \A t \in Tasks : pc'[Timer(t)] = pc[Timer(t)]
      /\ \A q \in Requests \ {r} : pc'[Request(q)] = pc[Request(q)]
      /\ pc'[Closer] = pc[Closer]
  BY <1>1, <1>2, Apart, ProcessNames
<1>4. BoxInv'
  <2>1. "mailbox" \in contexts => flow.email
    BY DEF CleanInv, BoxInv, NoOp, At, Running, Ended
  <2>2. \A p \in Processes : /\ At(p, "close")' => "mailbox" \notin contexts'
                             /\ At(p, "clear")' => Released'
    BY <1>1, <1>2 DEF CleanInv, BoxInv, At, Released
  <2> QED
    BY <1>1, <1>3, <2>1, <2>2 DEF CleanInv, BoxInv
<1>5. ~Over'
  BY <1>1 DEF Over, Resumable, Terminal
<1> QED
  BY <1>1, <1>2, <1>3, <1>4, <1>5, TurnClean DEF At, ResumeKind, Over

\* flow.cancel() while no operation runs: it goes on to the releases, or comes too late.
LEMMA CancelFrees ==
    ASSUME TypeOK, SerialInv, CleanInv, NoOp, NEW p \in Processes,
           CancelFlow(p) \/ CancelMarked(p)
    PROVE  /\ contexts' = contexts /\ flow'.email = flow.email
           /\ pc'[p] # "clear" /\ (pc'[p] = "close" => "mailbox" \notin contexts)
           /\ Over => pc'[p] \in {"cancel_mark", Cannot(p)}
           /\ Over' /\ ~Over => pc'[p] \in {"dispose", "close"}
<1>1. /\ flow \in Flow /\ ControlOK /\ ("mailbox" \in contexts => flow.email)
      /\ contexts' = contexts
  BY DEF TypeOK, FlowTypeOK, ControlOK, CleanInv, BoxInv, NoOp, At, Running, Ended,
         CancelFlow, CancelMarked, world
<1>2. ASSUME NEW f \in Flow, f.status = flow.status, f.email = flow.email, CancelNow(p, f)
      PROVE  /\ flow'.email = flow.email
             /\ pc'[p] # "clear" /\ (pc'[p] = "close" => ~flow.email)
             /\ Over => pc'[p] = Cannot(p)
             /\ ~Over => pc'[p] \in {"dispose", "close"}
  <2>1. flow'.email = flow.email
    <3>1. Wiped(f) \in Flow /\ "cancelled" \in Status
      BY FlowUpdates DEF Status, Terminal
    <3> QED
      BY <1>2, <3>1, EmailUpdates DEF CancelNow
  <2>2. pc'[p] = IF CanGo(f.status, "cancelled") THEN FirstRelease(f) ELSE Cannot(p)
    BY <1>1, <1>2 DEF CancelNow, ControlOK
  <2>3. CanGo(f.status, "cancelled") <=> ~Over
    BY <1>2, MayCancel DEF CanGo, Over, Terminal
  <2> QED
    BY <1>2, <2>1, <2>2, <2>3 DEF FirstRelease, Cannot
<1>3. CASE CancelFlow(p)
  <2> DEFINE f == [flow EXCEPT !.pauseRequested = FALSE]
  <2>1. f \in Flow /\ f.status = flow.status /\ f.email = flow.email
    BY <1>1 DEF Flow
  <2>2. CASE f.account
    BY <1>1, <1>3, <2>1, <2>2 DEF CancelFlow, ControlOK, Over
  <2>3. CASE ~f.account
    BY <1>1, <1>2, <1>3, <2>1, <2>3 DEF CancelFlow
  <2> QED
    BY <2>2, <2>3
<1>4. CASE CancelMarked(p)
  BY <1>1, <1>2, <1>4 DEF CancelMarked
<1> QED
  BY <1>3, <1>4

\* It does so in a request.
LEMMA CancelClean ==
    ASSUME TypeOK, SerialInv, CleanInv, StatusStep, NEW r \in Requests, Turn(r), NoOp,
           CancelFlow(Request(r)) \/ CancelMarked(Request(r)), kind'[r] = "cancel",
           \A q \in Requests \ {r} : kind'[q] = kind[q]
    PROVE  CleanInv'
<1>1. /\ Request(r) \in Processes /\ Alone(Request(r)) /\ Request(r) # Closer
      /\ pc'[Request(r)] \in {"cancel_mark", "dispose", "close", "browsers", "refused"}
  BY ProcessNames, Apart, CancelAlone
<1>2. /\ contexts' = contexts /\ flow'.email = flow.email
      /\ pc'[Request(r)] # "clear" /\ (pc'[Request(r)] = "close" => "mailbox" \notin contexts)
      /\ Over => pc'[Request(r)] \in {"cancel_mark", "refused"}
      /\ Over' /\ ~Over => pc'[Request(r)] \in {"dispose", "close"}
  BY <1>1, CancelFrees DEF Cannot
<1>3. /\ \A q \in Requests \ {r} : pc'[Request(q)] = pc[Request(q)]
      /\ pc'[Closer] = pc[Closer]
  BY <1>1, Apart, ProcessNames DEF Alone
<1>4. BoxInv'
  BY <1>1, <1>2, Apart, AloneBox DEF CleanInv
<1>5. Over' => Releasing' \/ Broken'
  BY <1>1, <1>2 DEF Releasing, Broken, Late
<1> QED
  BY <1>1, <1>2, <1>3, <1>4, <1>5, TurnClean DEF At

\* resume() in the service.
LEMMA ResumeRequestClean ==
    ASSUME TypeOK, SerialInv, HumanInv, CleanInv, StatusStep, ~Overlap, NEW r \in Requests,
           AskResume(r) \/ ResumeReaped(r)
    PROVE  CleanInv'
<1>1. flow \in Flow /\ kind \in [Requests -> Kind]
  BY DEF TypeOK, FlowTypeOK, ControlOK
<1>2. CASE AskResume(r)
  <2>1. /\ Turn(r) /\ At(Request(r), "idle") /\ kind'[r] \in ResumeKind /\ ~Late(r)
        /\ \A q \in Requests \ {r} : kind'[q] = kind[q]
    BY <1>1, <1>2, TurnOf DEF AskResume, Ask, MayAsk, Late, At
  <2>2. CASE \E a \in {"refused", "busy"} : Reply(r, a)
    BY <2>1, <2>2, AnsweredClean DEF Reply, world, Answer, At
  <2>3. CASE flow.status \in Resumable /\ ReapTimer(r)
    <3> DEFINE P == IF flow.manual # Nothing THEN {Timer(slot)} ELSE {}
    <3>1. /\ ReapFor(r, "reap_timer", Timer(slot), P, flow) /\ P \subseteq {Timer(slot)}
          /\ slot \in Tasks
      BY <2>3 DEF ReapTimer, TimerRunning, TypeOK, FlowTypeOK, ControlOK
    <3>2. ~Over
      BY <2>3 DEF Over, Resumable, Terminal
    <3> HIDE DEF P
    <3> QED
      BY <1>1, <2>1, <3>1, <3>2, ReapClean
  <2>4. CASE flow.status \in Resumable /\ ~Busy /\ StartTask(r)
    BY <2>1, <2>4, StartClean DEF SerialInv, OneInv, NoOp, Busy
  <2> QED
    BY <1>2, <2>2, <2>3, <2>4 DEF AskResume
<1>3. CASE ResumeReaped(r)
  <2>1. /\ Turn(r) /\ At(Request(r), "reap_timer") /\ NoOp /\ kind[r] \in ResumeKind
        /\ kind' = kind /\ ~Late(r)
    BY <1>3, TurnOf, TimerGone
       DEF ResumeReaped, Reaped, At, Unanswered, Answer, Late, ResumeKind
  <2>2. CASE \E a \in {"refused", "failed"} : Reply(r, a)
    BY <2>1, <2>2, AnsweredClean DEF Reply, world, Answer, At
  <2>3. CASE flow.status \in Resumable /\ StartTask(r)
    BY <2>1, <2>3, StartClean
  <2> QED
    BY <1>3, <2>2, <2>3 DEF ResumeReaped
<1> QED
  BY <1>2, <1>3

\* cancel() in the service.
LEMMA CancelRequestClean ==
    ASSUME TypeOK, SerialInv, HumanInv, CleanInv, StatusStep, ~Overlap, NEW r \in Requests,
           AskCancel(r) \/ CancelReapedTimer(r) \/ CancelReapedTask(r)
    PROVE  CleanInv'
<1>1. flow \in Flow /\ current \in Tasks /\ kind \in [Requests -> Kind]
  BY DEF TypeOK, FlowTypeOK, ControlOK
<1>2. CASE AskCancel(r)
  <2>1. /\ Turn(r) /\ At(Request(r), "idle") /\ kind'[r] = "cancel"
        /\ \A q \in Requests \ {r} : kind'[q] = kind[q]
    BY <1>1, <1>2, TurnOf DEF AskCancel, Ask, MayAsk
  <2>2. CASE ReapTimer(r)
    <3> DEFINE P == IF flow.manual # Nothing THEN {Timer(slot)} ELSE {}
    <3>1. /\ ReapFor(r, "reap_timer", Timer(slot), P, flow) /\ P \subseteq {Timer(slot)}
          /\ slot \in Tasks
      BY <2>2 DEF ReapTimer, TimerRunning, TypeOK, FlowTypeOK, ControlOK
    <3> HIDE DEF P
    <3> QED
      BY <1>1, <2>1, <3>1, ReapClean
  <2>3. CASE Running(Op(current)) /\ CancelTask(r)
    <3>1. ReapFor(r, "reap_task", Op(current), {Op(current)}, flow)
      BY <2>3 DEF CancelTask
    <3> QED
      BY <1>1, <2>1, <3>1, ReapClean
  <2>4. CASE ~Running(Op(current)) /\ CancelTask(r)
    <3>1. NoOp /\ CancelFlow(Request(r))
      BY <2>4 DEF CancelTask, SerialInv, OneInv, NoOp
    <3> QED
      BY <2>1, <3>1, CancelClean
  <2> QED
    BY <1>2, <2>2, <2>3, <2>4 DEF AskCancel
<1>3. CASE CancelReapedTimer(r) \/ CancelReapedTask(r)
  <2>1. /\ Turn(r) /\ pc[Request(r)] \in {"reap_timer", "reap_task"} /\ NoOp
        /\ kind[r] = "cancel" /\ kind' = kind
    <3>1. Turn(r) /\ pc[Request(r)] \in {"reap_timer", "reap_task"} /\ kind' = kind
      BY <1>3, TurnOf
         DEF CancelReapedTimer, CancelReapedTask, Reaped, At, Unanswered, Answer, service
    <3>2. NoOp
      BY <1>3, <3>1, TimerGone
         DEF CancelReapedTimer, CancelReapedTask, Reaped, SerialInv, RequestInv, OneInv, NoOp, At
    <3> QED
      BY <1>3, <3>1, <3>2
         DEF CancelReapedTimer, CancelReapedTask, Reaped, CleanInv, AskedInv, At
  <2>2. CancelFlow(Request(r)) \/ (Crashed(r) /\ Reply(r, "failed"))
    BY <1>1, <1>3, <2>1 DEF CancelReapedTimer, CancelReapedTask, CancelTask, NoOp
  <2>3. CASE Crashed(r) /\ Reply(r, "failed")
    <3>1. ~Late(r)
      BY <2>1, <2>3 DEF Late, Crashed, At
    <3> QED
      BY <2>1, <2>3, <3>1, AnsweredClean DEF Reply, world, Answer
  <2> QED
    BY <2>1, <2>2, <2>3, CancelClean
<1> QED
  BY <1>2, <1>3

\* pause() in the service.
LEMMA PauseRequestClean ==
    ASSUME TypeOK, SerialInv, HumanInv, CleanInv, StatusStep, ~Overlap, NEW r \in Requests,
           AskPause(r) \/ PauseReaped(r)
    PROVE  CleanInv'
<1> DEFINE f == [flow EXCEPT !.pauseRequested = TRUE]
<1>1. /\ f \in Flow /\ f.status = flow.status /\ f.email = flow.email /\ flow \in Flow
      /\ current \in Tasks /\ kind \in [Requests -> Kind]
  BY DEF TypeOK, FlowTypeOK, ControlOK, Flow
<1>2. ASSUME NEW g \in Flow, g.email = flow.email, PauseAfterInterruption(r, g), Turn(r),
             kind'[r] = "pause", \A q \in Requests \ {r} : kind'[q] = kind[q]
      PROVE  CleanInv'
  <2> DEFINE v == PausedAt(g, "github_email_verify")
  <2>1. v \in Flow /\ v.email = flow.email /\ {"manual_verify"} \subseteq Status
    <3>1. "github_email_verify" \in Status /\ "manual_verify" \in Status
      BY DEF Status, Pausable, Resumable
    <3> QED
      BY <1>2, <3>1, FlowUpdates, EmailUpdates
  <2>2. flow'.status = "manual_verify" /\ flow'.email = flow.email /\ contexts' = contexts
    <3>1. flow' = Go(v, "manual_verify") /\ UNCHANGED world
      BY <1>2 DEF PauseAfterInterruption
    <3> HIDE DEF v
    <3>2. flow'.status = "manual_verify" /\ flow'.email = flow.email
      BY <2>1, <3>1, FlowUpdates, EmailUpdates
    <3> QED
      BY <3>1, <3>2 DEF world
  <2>3. /\ pc'[Request(r)] = "accepted" /\ Request(r) \in Processes
        /\ \A p \in Processes \ {Request(r)} : pc'[p] = pc[p]
    BY <1>2, ProcessNames DEF PauseAfterInterruption, TypeOK, FlowTypeOK, ControlOK
  <2>4. /\ \A t \in Tasks : pc'[Op(t)] = pc[Op(t)] /\ pc'[Timer(t)] = pc[Timer(t)]
        /\ \A q \in Requests \ {r} : pc'[Request(q)] = pc[Request(q)]
        /\ pc'[Closer] = pc[Closer]
    BY <2>3, Apart, ProcessNames
  <2>5. BoxInv'
    <3>1. \A p \in Processes : /\ At(p, "close")' => "mailbox" \notin contexts'
                               /\ At(p, "clear")' => Released'
      BY <2>2, <2>3 DEF CleanInv, BoxInv, At, Released
    <3> QED
      BY <2>2, <2>4, <3>1 DEF CleanInv, BoxInv, At
  <2>6. ~Over'
    BY <2>2 DEF Over, Terminal
  <2> QED
    BY <1>2, <2>2, <2>3, <2>4, <2>5, <2>6, TurnClean DEF At
<1>3. CASE AskPause(r)
  <2>1. /\ Turn(r) /\ At(Request(r), "idle") /\ kind'[r] = "pause" /\ ~Late(r)
        /\ \A q \in Requests \ {r} : kind'[q] = kind[q]
    BY <1>1, <1>3, TurnOf DEF AskPause, Ask, MayAsk, Late, At
  <2>2. CASE \E a \in {"refused", "accepted"} :
                flow' \in {flow, f} /\ pc' = [pc EXCEPT ![Request(r)] = a] /\ UNCHANGED world
    BY <1>1, <2>1, <2>2, AnsweredClean DEF world, Answer, At
  <2>3. CASE CanInterruptForPause /\ ReapFor(r, "reap_pause", Op(current), {Op(current)}, f)
    <3>1. ~Over
      BY <2>3 DEF CanInterruptForPause, Over, Terminal
    <3> QED
      BY <1>1, <2>1, <2>3, <3>1, ReapClean
  <2>4. CASE PauseAfterInterruption(r, f)
    BY <1>1, <1>2, <2>1, <2>4
  <2> QED
    BY <1>3, <2>2, <2>3, <2>4 DEF AskPause, Reply
<1>4. CASE PauseReaped(r)
  <2>1. /\ Turn(r) /\ At(Request(r), "reap_pause") /\ kind[r] = "pause" /\ kind' = kind
        /\ ~Late(r)
    BY <1>4, TurnOf DEF PauseReaped, Reaped, At, Unanswered, Answer, Late, CleanInv, AskedInv,
                        service
  <2>2. CASE \E a \in {"failed", "accepted"} : Reply(r, a)
    BY <2>1, <2>2, AnsweredClean DEF Reply, world, Answer, At
  <2>3. CASE PauseAfterInterruption(r, flow)
    BY <1>1, <1>2, <2>1, <2>3
  <2> QED
    BY <1>4, <2>2, <2>3 DEF PauseReaped
<1> QED
  BY <1>3, <1>4

\* The rest of a request.
LEMMA RequestTailClean ==
    ASSUME TypeOK, SerialInv, HumanInv, CleanInv, StatusStep, ~Overlap, ~CleanupMayFail,
           NEW r \in Requests, CancelMarked(Request(r)) \/ TailStep(Request(r)),
           UNCHANGED service
    PROVE  CleanInv'
<1>1. pc[Request(r)] \in {"cancel_mark"} \cup Release /\ kind' = kind
  BY DEF CancelMarked, TailStep, MailboxDisposed, BrowserClosed, BrowserCloseFails, Cleared,
         At, Release, service
<1>2. Turn(r) /\ NoOp
  BY <1>1, TurnOf DEF Unanswered, Answer, Release, SerialInv, RequestInv
<1>3. CASE CancelMarked(Request(r))
  <2>1. kind[r] = "cancel"
    BY <1>3 DEF CancelMarked, At, CleanInv, AskedInv
  <2> QED
    BY <1>1, <1>2, <1>3, <2>1, CancelClean
<1>4. CASE TailStep(Request(r))
  <2>1. Request(r) \in Processes /\ onExit[Request(r)] = "answer"
    BY ProcessNames DEF SerialInv, ExitInv
  <2>2. /\ Alone(Request(r)) /\ flow' = flow /\ Over /\ contexts' \subseteq contexts
        /\ pc'[Request(r)] \in {"close", "clear", "accepted"}
        /\ pc'[Request(r)] = "close" => "mailbox" \notin contexts'
        /\ pc'[Request(r)] # "close" => Released'
    BY <1>4, <2>1, TailFrees DEF HumanInv, CleanInv, ReturnedTo
  <2>3. /\ \A q \in Requests \ {r} : pc'[Request(q)] = pc[Request(q)]
        /\ pc'[Closer] = pc[Closer]
    BY <2>1, <2>2, Apart, ProcessNames DEF Alone
  <2>4. BoxInv'
    BY <2>1, <2>2, Apart, AloneBox DEF CleanInv
  <2>5. Over' /\ (Released' \/ Releasing')
    BY <2>1, <2>2 DEF Over, Releasing
  <2> QED
    BY <1>1, <1>2, <2>2, <2>3, <2>4, <2>5, TurnClean DEF At
<1> QED
  BY <1>1, <1>3, <1>4 DEF CancelMarked, TailStep

\* A step of the shutdown, while it is under way: no request is, and what was over is.
LEMMA CloserKept ==
    ASSUME CleanInv, StatusStep, BoxInv', UNCHANGED <<kind, target>>,
           \A r \in Requests : ~Unanswered(r) /\ pc'[Request(r)] = pc[Request(r)],
           Over => contexts' \subseteq contexts \cup {"orphan"},
           pc'[Closer] \notin {"idle", "done"} \/ contexts' = {}
    PROVE  CleanInv'
<1>1. AskedInv'
  BY DEF CleanInv, AskedInv, At, StatusStep, Over, Released
<1> QED
  BY <1>1 DEF CleanInv, Released, At

\* close() of the service.
LEMMA CloserClean ==
    ASSUME TypeOK, SerialInv, HumanInv, CleanInv, StatusStep, ~CleanupMayFail,
           ShutDown \/ CloserStep
    PROVE  CleanInv'
<1>1. /\ flow \in Flow /\ ControlOK /\ Closer \in Processes /\ current \in Tasks
      /\ UNCHANGED <<kind, target>>
  BY ProcessNames
     DEF TypeOK, FlowTypeOK, ControlOK, ShutDown, CloserStep, CloserReapedTask,
         CloserReapedTimer, CloseBrowsers, service
<1>2. CASE ShutDown
  <2> DEFINE P == {Op(current)} \cup {Timer(t) : t \in {slot} \cap Tasks}
  <2>1. /\ Reap(Closer, "reap_task", P, flow) /\ P \subseteq Processes
        /\ \A q \in P : \E t \in Tasks : q = Op(t) \/ q = Timer(t)
        /\ \A r \in Requests : ~Unanswered(r) /\ Request(r) \notin P
    BY <1>1, <1>2, Apart, ProcessNames DEF ShutDown
  <2> HIDE DEF P
  <2>2. /\ pc'[Closer] = "reap_task"
        /\ \A r \in Requests : pc'[Request(r)] = pc[Request(r)]
    BY <1>1, <2>1, Apart, ProcessNames DEF Reap
  <2>3. BoxInv' /\ (Over => contexts' \subseteq contexts \cup {"orphan"})
    <3>1. \A t \in Tasks : Closer # Op(t) /\ Closer # Timer(t)
      BY Apart
    <3> QED
      BY <1>1, <2>1, <3>1, ReapBox DEF HumanInv, CleanInv
  <2> QED
    BY <1>1, <2>1, <2>2, <2>3, CloserKept
<1>3. CASE CloserStep
  <2>1. ~At(Closer, "idle") /\ \A r \in Requests : ~Unanswered(r)
    <3>1. ~At(Closer, "idle")
      BY <1>3 DEF CloserStep, CloserReapedTask, CloserReapedTimer, CloseBrowsers, CancelMarked,
           TailStep, MailboxDisposed, BrowserClosed, BrowserCloseFails, Cleared, At
    <3> QED
      BY <3>1 DEF SerialInv, AskInv
  <2>2. /\ Alone(Closer) /\ contexts' \subseteq contexts /\ flow'.email = flow.email
        /\ pc'[Closer] = "close" => "mailbox" \notin contexts'
        /\ pc'[Closer] = "clear" => Released'
        /\ pc'[Closer] \notin {"idle", "done"} \/ contexts' = {}
    <3>1. CASE \E l \in {"crashed", "reap_timer", "browsers"} : CloserGoto(l)
      BY <1>1, <3>1
         DEF CloserGoto, Alone, world, ControlOK, SerialInv, SecretsWiped, Over
    <3>2. CASE CloseBrowsers
      BY <1>1, <3>2
         DEF CloseBrowsers, Goto, Alone, ControlOK, SerialInv, SecretsWiped, Over
    <3>3. CASE NoOp /\ (CancelFlow(Closer) \/ CancelMarked(Closer))
      BY <1>1, <3>3, CancelAlone, CancelFrees
    <3>4. CASE TailStep(Closer)
      <4>1. onExit[Closer] = "shutdown"
        BY DEF SerialInv, ExitInv
      <4> QED
        BY <1>1, <3>4, <4>1, TailFrees DEF HumanInv, CleanInv, ReturnedTo
    <3>5. CloserReapedTimer \/ CancelMarked(Closer) => NoOp
      BY DEF CloserReapedTimer, CancelMarked, At, SerialInv, AskInv
    <3> QED
      BY <1>3, <3>1, <3>2, <3>3, <3>4, <3>5 DEF CloserStep, CloserReapedTask, CloserReapedTimer
  <2>3. /\ BoxInv' /\ \A r \in Requests : pc'[Request(r)] = pc[Request(r)]
    <3>1. BoxInv'
      BY <1>1, <2>2, Apart, AloneBox DEF CleanInv
    <3> QED
      BY <2>2, <3>1, Apart, ProcessNames DEF Alone
  <2> QED
    BY <1>1, <2>1, <2>2, <2>3, CloserKept
<1> QED
  BY <1>2, <1>3

\* Background steps and stutters leave what the invariant speaks of.
LEMMA CleanStutter ==
    ASSUME CleanInv, UNCHANGED <<flow, pc, contexts, kind, target>>
    PROVE  CleanInv'
  BY DEF CleanInv, BoxInv, AskedInv, Released, Releasing, Broken, Late, At, Over

\* The invariant holds when create() has returned.
LEMMA CleanInit == Init => CleanInv
<1> SUFFICES ASSUME Init PROVE CleanInv
  OBVIOUS
<1>1. /\ \A t \in Tasks : pc[Timer(t)] = "absent"
      /\ \A r \in Requests : pc[Request(r)] = "idle"
      /\ pc[Closer] = "idle" /\ \A p \in Processes : pc[p] \in {"begin", "absent", "idle"}
      /\ contexts = {}
  BY ProcessNames DEF Init, FlowInit, Op, Timer, Request, Closer
<1> QED
  BY <1>1 DEF CleanInv, BoxInv, AskedInv, Released, Ended, At

\* Every step keeps it.
LEMMA CleanStep ==
    ASSUME ~Overlap, ~CleanupMayFail, IInv, SerialInv, HumanInv, CleanInv, [Next]_vars
    PROVE  CleanInv'
<1>1. TypeOK
  BY DEF IInv
<1>2. CASE UNCHANGED vars
  BY <1>2, CleanStutter DEF vars, flowVars, world, service
<1>3. CASE Next
  <2>1. StatusStep
    BY <1>1, <1>3, NextSound DEF Sound, ControlStep
  <2>2. CASE \E t \in Tasks : OperationStep(t) \/ TimeoutStep(t)
    BY <1>1, <2>1, <2>2, OperationClean, TimeoutClean
  <2>3. CASE \E r \in Requests : AskResume(r) \/ AskCancel(r) \/ AskPause(r) \/ RequestStep(r)
    BY <1>1, <2>1, <2>3, ResumeRequestClean, CancelRequestClean, PauseRequestClean,
       RequestTailClean DEF RequestStep
  <2>4. CASE ShutDown \/ CloserStep
    BY <1>1, <2>1, <2>4, CloserClean
  <2>5. CASE BackgroundStep
    <3>1. UNCHANGED <<flow, pc, contexts, kind, target>>
      BY <2>5 DEF BackgroundStep, CompletionStep, CompletionCommits, CompletionFails, Land,
                  control, service
    <3> QED
      BY <3>1, CleanStutter
  <2> QED
    BY <1>3, <2>2, <2>3, <2>4, <2>5 DEF Next
<1> QED
  BY <1>2, <1>3

\* The inductive invariant of the cleanup.
THEOREM CleanInvariant == ASSUME ~Overlap, ~CleanupMayFail PROVE Spec => []CleanInv
<1>1. IInv /\ SerialInv /\ HumanInv /\ CleanInv /\ [Next]_vars => CleanInv'
  BY CleanStep
<1> QED
  BY <1>1, CleanInit, Invariant, SerialInvariant, HumanInvariant, PTL DEF Spec

\* The contexts of a flow that is over are closed once all is quiet, and when a cancel is
\* accepted.
THEOREM Releases == ASSUME ~Overlap, ~CleanupMayFail PROVE Spec => []ResourcesReleased
<1>1. TypeOK /\ CleanInv => ResourcesReleased
  <2> SUFFICES ASSUME TypeOK, CleanInv, Over, Quiescent,
                      \A r \in Requests : ~(kind[r] = "cancel" /\ At(Request(r), "refused"))
               PROVE  Released
    BY DEF CleanInv, AskedInv, ResourcesReleased, Released
  <2>1. \A r \in Requests : pc[Request(r)] \in Answer \cup {"idle"}
    BY DEF Quiescent, Unanswered
  <2>2. ~Broken
    BY <2>1 DEF Broken, Late, Answer, At
  <2>3. ~Releasing
    <3>1. \A t \in Tasks : /\ pc[Op(t)] \notin {"dispose", "close"}
                           /\ pc[Timer(t)] \notin {"dispose", "close"}
      BY DEF Quiescent, Running, Ended, At
    <3>2. pc[Closer] \notin {"dispose", "close"}
      BY DEF Quiescent
    <3>3. \A r \in Requests : pc[Request(r)] \notin {"dispose", "close"}
      BY <2>1 DEF Answer
    <3>4. \A p \in Processes : \/ p = Closer \/ \E r \in Requests : p = Request(r)
                              \/ \E t \in Tasks : p = Op(t) \/ p = Timer(t)
      BY DEF Processes, Op, Timer, Request
    <3> QED
      BY <3>1, <3>2, <3>3, <3>4 DEF Releasing
  <2> QED
    BY <2>2, <2>3 DEF CleanInv, Quiescent
<1> QED
  BY <1>1, CleanInvariant, TypeCorrect, PTL
=============================================================================
