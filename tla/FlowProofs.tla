----------------------------- MODULE FlowProofs -----------------------------
(***************************************************************************)
(* Proofs, for every set of requests and whatever the clients do, that     *)
(* CreateAccountService is type correct, that a flow's end is final, that  *)
(* the vault keeps what it has been given and that a flow is reported as   *)
(* done only if its account is stored.                                     *)
(*                                                                         *)
(* The argument: DoneIsStored needs that a committed completion stays      *)
(* visible in the vault (CommitsKept); each kind of step is then shown to  *)
(* change the control (flow, pc, onExit, slot) and the world soundly, from *)
(* one lemma per place a step can lead to.                                 *)
(***************************************************************************)
EXTENDS FlowGuarantees, TLAPS

CommitsKept == \A t \in Tasks : completion[t] = "committed" => row = "complete"

IInv == TypeOK /\ CommitsKept /\ DoneIsStored

\* f may become the flow by an assignment that is not a transition: it is no
\* further than the flow, and a flow that is over stays as it is.
Follows(f) ==
    /\ f \in Flow
    /\ Over => f.status = flow.status
    /\ f.status = "done" => flow.status = "done"

Committed == \E t \in Tasks : completion[t] = "committed"

StatusStep ==
    /\ Over => flow'.status = flow.status
    /\ flow'.status = "done" => flow.status = "done" \/ Committed

ControlStep == ControlOK' /\ StatusStep

RowStep ==
    /\ row # "absent" => row' # "absent"
    /\ row = "complete" => row' = "complete"

CommitStep ==
    \A t \in Tasks : completion'[t] = "committed" =>
        completion[t] = "committed" \/ row' = "complete"

WorldStep == WorldOK' /\ RowStep /\ CommitStep

ServiceOK ==
    /\ current \in Tasks
    /\ kind \in [Requests -> Kind]
    /\ target \in [Requests -> Processes]

(***************************************************************************)
(* The data                                                                *)
(***************************************************************************)
\* Every await a step can lead to is a location.
LEMMA Locations ==
    {"absent", "done", "crashed", "begin", "email", "email_cancelled", "email_dispose",
     "code", "complete", "complete_cancelled", "register", "submit_code",
     "inspect_github", "login", "fetch", "submit_key", "capture", "resume_clear",
     "save_shot", "persist", "save_auth", "mark_payment", "fail_mark", "dispose",
     "close", "clear", "sleep", "idle", "reap_timer", "reap_task", "reap_pause",
     "cancel_mark", "accepted", "refused", "busy", "failed", "browsers"}
        \subseteq Location
BY DEF Location, Ended, OpAwait, TimerAwait, OwnerAwait, Answer, Tail, Browsing,
       GithubAwait, OpenCodeAwait, ThreadJob

\* Operations, timeouts, requests and the shutdown are processes.
LEMMA ProcessNames ==
    /\ \A t \in Tasks : Op(t) \in Processes /\ Timer(t) \in Processes /\ Op(t) # Timer(t)
    /\ \A r \in Requests : Request(r) \in Processes
    /\ Closer \in Processes
    /\ \A p \in Processes : p[2] \in Tasks
BY DEF Op, Timer, Request, Closer, Processes, Tasks

\* _ALLOWED_TRANSITIONS leads nowhere from done, error and cancelled.
LEMMA NoWayBack ==
    ASSUME NEW s, NEW next, CanGo(s, next)
    PROVE  s \notin Terminal
BY DEF CanGo, Terminal

\* The updates of the flow that methods make keep its type and, but for a
\* transition, its status.
LEMMA FlowUpdates ==
    ASSUME NEW f \in Flow
    PROVE  /\ \A s \in Status : Go(f, s) \in Flow /\ Go(f, s).status = s
           /\ Wiped(f) \in Flow /\ Wiped(f).status = f.status
           /\ Unblocked(f) \in Flow /\ Unblocked(f).status = f.status
           /\ \A N \in SUBSET Secret :
                 Remember(f, N) \in Flow /\ Remember(f, N).status = f.status
           /\ \A r \in Reason : Blocked(f, r) \in Flow /\ Blocked(f, r).status = f.status
           /\ \A s \in Status : PausedAt(f, s) \in Flow /\ PausedAt(f, s).status = f.status
BY DEF Flow, Go, Wiped, Remember, Blocked, Unblocked, PausedAt, Reason, Nothing

\* So do the assignments to single fields.
LEMMA FieldUpdates ==
    ASSUME NEW f \in Flow
    PROVE  /\ \A b \in BOOLEAN :
                 /\ [f EXCEPT !.pauseRequested = b] \in Flow
                 /\ [f EXCEPT !.pauseRequested = b].status = f.status
                 /\ [f EXCEPT !.waitingForCode = b] \in Flow
                 /\ [f EXCEPT !.waitingForCode = b].status = f.status
                 /\ [f EXCEPT !.email = b] \in Flow
                 /\ [f EXCEPT !.email = b].status = f.status
                 /\ [f EXCEPT !.account = b] \in Flow
                 /\ [f EXCEPT !.account = b].status = f.status
           /\ \A r \in Reason \cup {Nothing} :
                 /\ [f EXCEPT !.manual = r] \in Flow
                 /\ [f EXCEPT !.manual = r].status = f.status
BY DEF Flow

(***************************************************************************)
(* Where a step of a process leads                                         *)
(***************************************************************************)
\* A step is sound when the flow it leaves follows the one it found.
LEMMA FollowsStep ==
    ASSUME NEW f, Follows(f), ControlOK, ControlOK', flow' = f
    PROVE  ControlStep
BY DEF Follows, ControlStep, StatusStep, Over, ControlOK

\* None of the updates ends or revives a flow.
LEMMA FollowsUpdates ==
    ASSUME NEW f, Follows(f)
    PROVE  /\ Follows(Wiped(f)) /\ Follows(Unblocked(f))
           /\ \A N \in SUBSET Secret : Follows(Remember(f, N))
           /\ \A r \in Reason : Follows(Blocked(f, r))
           /\ \A s \in Status : Follows(PausedAt(f, s))
BY FlowUpdates DEF Follows

\* Nor does an assignment to a field.
LEMMA FollowsFields ==
    ASSUME NEW f, Follows(f)
    PROVE  /\ \A b \in BOOLEAN : /\ Follows([f EXCEPT !.pauseRequested = b])
                                 /\ Follows([f EXCEPT !.waitingForCode = b])
                                 /\ Follows([f EXCEPT !.email = b])
                                 /\ Follows([f EXCEPT !.account = b])
           /\ \A r \in Reason \cup {Nothing} : Follows([f EXCEPT !.manual = r])
BY FieldUpdates DEF Follows

\* The flow itself may stay as it is.
LEMMA FollowsSelf == ControlOK => Follows(flow)
BY DEF ControlOK, Follows

\* A legal transition to another status than done.
LEMMA FollowsGo ==
    ASSUME NEW f, Follows(f), NEW s \in Status \ {"done"}, CanGo(f.status, s)
    PROVE  Follows(Go(f, s)) /\ ~Over
<1>1. f \in Flow /\ f.status \notin Terminal
  BY NoWayBack DEF Follows
<1>2. ~Over
  BY <1>1 DEF Follows, Over
<1>3. QED
  BY <1>1, <1>2, FlowUpdates DEF Follows

\* A step to a further await.
LEMMA GotoStep ==
    ASSUME ControlOK, NEW p \in Processes, NEW l \in Location, NEW f, Follows(f),
           Goto(p, l, f)
    PROVE  ControlStep
<1>1. ControlOK'
  BY DEF ControlOK, Goto, Follows
<1>2. QED
  BY <1>1, FollowsStep DEF Goto

\* The return of an operation, with or without a timeout task.
LEMMA ReturnStep ==
    ASSUME ControlOK, NEW t \in Tasks, NEW f, Follows(f), Return(t, f)
    PROVE  ControlStep
<1>1. flow' = f /\ f \in Flow
  BY DEF Return, Follows
<1>2. pc' \in [Processes -> Location]
  BY ProcessNames, Locations DEF Return, ControlOK
<1>3. slot' \in Tasks \cup {Nothing} /\ onExit' = onExit
  BY DEF Return, ControlOK
<1>4. QED
  BY <1>1, <1>2, <1>3, FollowsStep DEF ControlOK

\* Where an exception leads is a location.
LEMMA Thrown == \A exit \in Exit : ThrownTo(exit) \in Location
BY Locations DEF ThrownTo, Exit

\* The part of _fail_and_cleanup after the pending row is marked.
LEMMA FailNowStep ==
    ASSUME ControlOK, NEW p \in Processes, NEW f, Follows(f), NEW exit \in Exit,
           FailNow(p, f, exit)
    PROVE  ControlStep
<1>1. Follows(flow')
  <2>1. Follows(Wiped(f)) /\ Wiped(f).status = f.status
    BY FollowsUpdates, FlowUpdates DEF Follows
  <2>2. "error" \in Status \ {"done"}
    BY DEF Status, Terminal
  <2>3. CASE CanGo(f.status, "error")
    BY <2>1, <2>2, <2>3, FollowsGo DEF FailNow
  <2>4. CASE ~CanGo(f.status, "error")
    BY <2>1, <2>4 DEF FailNow
  <2>5. QED
    BY <2>3, <2>4
<1>2. pc' \in [Processes -> Location]
  BY Thrown, Locations DEF FailNow, ControlOK, FirstRelease
<1>3. onExit' \in [Processes -> Exit] /\ slot' = slot
  BY DEF FailNow, ControlOK
<1>4. ControlOK'
  BY <1>1, <1>2, <1>3 DEF ControlOK, Follows
<1>5. QED
  BY <1>1, <1>4, FollowsStep

\* _fail_and_cleanup up to its first await.
LEMMA FailStep ==
    ASSUME ControlOK, NEW p \in Processes, NEW f, Follows(f), NEW exit \in Exit,
           Fail(p, f, exit)
    PROVE  ControlStep
<1> DEFINE g == [f EXCEPT !.pauseRequested = FALSE]
<1>1. Follows(g)
  BY FollowsFields
<1>2. CASE g.account
  <2>1. flow' = g /\ slot' = slot
    BY <1>2 DEF Fail
  <2>2. pc' \in [Processes -> Location] /\ onExit' \in [Processes -> Exit]
    BY <1>2, Locations DEF Fail, ControlOK
  <2>3. QED
    BY <1>1, <2>1, <2>2, FollowsStep DEF ControlOK, Follows
<1>3. CASE ~g.account
  <2>1. FailNow(p, g, exit)
    BY <1>3 DEF Fail
  <2>2. QED
    BY <1>1, <2>1, FailNowStep
<1>4. QED
  BY <1>2, <1>3

\* An exception that leaves an operation.
LEMMA RaiseStep ==
    ASSUME ControlOK, NEW t \in Tasks, NEW f, Follows(f), Raise(t, f)
    PROVE  ControlStep
<1>1. Op(t) \in Processes /\ "done" \in Location /\ "handler" \in Exit
  BY ProcessNames, Locations DEF Exit
<1>2. QED
  BY <1>1, GotoStep, FailStep DEF Raise

\* _transition, then a further await.
LEMMA MoveStep ==
    ASSUME ControlOK, NEW t \in Tasks, NEW f, Follows(f), NEW s \in Status \ {"done"},
           NEW l \in Location, Move(t, f, s, l)
    PROVE  ControlStep
<1>1. CASE CanGo(f.status, s)
  BY <1>1, FollowsGo, GotoStep, ProcessNames DEF Move
<1>2. CASE ~CanGo(f.status, s)
  BY <1>2, RaiseStep DEF Move
<1>3. QED
  BY <1>1, <1>2

\* _transition, then the return of the operation.
LEMMA ReturnAtStep ==
    ASSUME ControlOK, NEW t \in Tasks, NEW f, Follows(f), NEW s \in Status \ {"done"},
           ReturnAt(t, f, s)
    PROVE  ControlStep
<1>1. CASE CanGo(f.status, s)
  BY <1>1, FollowsGo, ReturnStep DEF ReturnAt
<1>2. CASE ~CanGo(f.status, s)
  BY <1>2, RaiseStep DEF ReturnAt
<1>3. QED
  BY <1>1, <1>2

\* _pause_at.
LEMMA PauseStep ==
    ASSUME ControlOK, NEW t \in Tasks, NEW f, Follows(f), NEW s \in Status, Pause(t, f, s)
    PROVE  ControlStep
<1>1. Follows(PausedAt(f, s))
  BY FollowsUpdates
<1>2. "manual_verify" \in Status \ {"done"}
  BY DEF Status, Resumable
<1>3. QED
  BY <1>1, <1>2, ReturnAtStep DEF Pause

\* The end of _handle_github_result and _handle_opencode_result at a blocked page.
LEMMA NeedHumanStep ==
    ASSUME ControlOK, NEW t \in Tasks, NEW f, Follows(f), NeedHuman(t, f)
    PROVE  ControlStep
<1>1. "manual_verify" \in Status \ {"done"}
  BY DEF Status, Resumable
<1>2. QED
  BY <1>1, ReturnStep, ReturnAtStep DEF NeedHuman

\* The way into the wait for the email code.
LEMMA AwaitCodeStep ==
    ASSUME ControlOK, NEW t \in Tasks, NEW f, Follows(f), AwaitCode(t, f)
    PROVE  ControlStep
<1> DEFINE w == [f EXCEPT !.waitingForCode = TRUE]
<1>1. Follows(w) /\ w.status = f.status
  BY FollowsFields, FieldUpdates DEF Follows
<1>2. "github_email_verify" \in Status \ {"done"} /\ "code" \in Location
  BY Locations DEF Status, Pausable
<1>3. CASE f.status = "github_email_verify"
  BY <1>1, <1>2, <1>3, GotoStep, ProcessNames DEF AwaitCode
<1>4. CASE f.status # "github_email_verify" /\ CanGo(f.status, "github_email_verify")
  BY <1>1, <1>2, <1>4, FollowsGo, GotoStep, ProcessNames DEF AwaitCode
<1>5. CASE f.status # "github_email_verify" /\ ~CanGo(f.status, "github_email_verify")
  BY <1>5, RaiseStep DEF AwaitCode
<1>6. QED
  BY <1>3, <1>4, <1>5

\* The only transition to done: of an operation whose completion has committed.
LEMMA FinishStep ==
    ASSUME ControlOK, NEW t \in Tasks, completion[t] = "committed", NEW exit \in Exit,
           Finish(t, exit)
    PROVE  ControlStep
<1>1. flow \in Flow /\ Follows(Wiped(flow)) /\ Wiped(flow) \in Flow
  BY FollowsSelf, FollowsUpdates, FlowUpdates DEF ControlOK
<1>2. CASE CanGo(flow.status, "done")
  <2>1. ~Over /\ Committed
    BY <1>2, NoWayBack DEF Over, Committed
  <2>2. flow' \in Flow
    BY <1>1, <1>2, FlowUpdates DEF Finish, Status, Terminal
  <2>3. pc' \in [Processes -> Location] /\ onExit' \in [Processes -> Exit] /\ slot' = slot
    BY <1>2, Locations, ProcessNames DEF Finish, ControlOK, FirstRelease
  <2>4. QED
    BY <2>1, <2>2, <2>3 DEF ControlStep, StatusStep, ControlOK
<1>3. CASE ~CanGo(flow.status, "done")
  BY <1>1, <1>3, RaiseStep DEF Finish
<1>4. QED
  BY <1>2, <1>3

(***************************************************************************)
(* What a step does to the world                                           *)
(***************************************************************************)
\* A step that leaves the world alone.
LEMMA WorldStays == ASSUME WorldOK, UNCHANGED world PROVE WorldStep
BY DEF WorldOK, world, WorldStep, RowStep, CommitStep

\* _mark_pending_status never touches a completed row and never removes one.
LEMMA MarkStep ==
    ASSUME NEW s \in PendingRow, row \in Row, row' \in {row, Marked(s)}
    PROVE  row' \in Row /\ RowStep
BY DEF Marked, RowStep, Row, PendingRow

\* Steps that leave the account alone.
LEMMA RowStays ==
    ASSUME WorldOK, UNCHANGED <<row, completion>>,
           attempt' \in [Tasks -> 0 .. MaxUsernameAttempts], contexts' \subseteq Context,
           shots' \in BOOLEAN, stray' \subseteq ThreadJob
    PROVE  WorldStep
BY DEF WorldOK, WorldStep, RowStep, CommitStep

\* Browser steps open contexts of the known kinds only.
LEMMA ContextStep ==
    ASSUME WorldOK, Opened \/ MaybeOpened
    PROVE  contexts' \subseteq Context
BY DEF WorldOK, Opened, MaybeOpened, Context

(***************************************************************************)
(* The steps of an operation                                               *)
(***************************************************************************)
\* start() and resume() up to their first await.
LEMMA StartSound ==
    ASSUME FlowTypeOK, NEW t \in Tasks, Start(t)
    PROVE  ControlStep /\ WorldStep
<1>1. Follows(flow) /\ Op(t) \in Processes
  BY FollowsSelf, ProcessNames DEF FlowTypeOK
<1>2. "creating_email" \in Status \ {"done"}
  BY DEF Status, Pausable
<1>3. ControlStep
  BY <1>1, <1>2, MoveStep, GotoStep, Locations DEF Start, FlowTypeOK
<1>4. QED
  BY <1>3, WorldStays DEF Start, FlowTypeOK

\* A mailbox, then the pause point or the registration.
LEMMA EmailCreatedSound ==
    ASSUME FlowTypeOK, FlowAssumption, NEW t \in Tasks, EmailCreated(t)
    PROVE  ControlStep /\ WorldStep
<1> DEFINE f == [flow EXCEPT !.email = TRUE]
<1>1. Follows(f)
  BY FollowsSelf, FollowsFields DEF FlowTypeOK
<1>2. "github_register" \in Status \ {"done"} /\ "register" \in Location
  BY Locations DEF Status, Pausable
<1>3. ControlStep
  BY <1>1, <1>2, PauseStep, MoveStep DEF EmailCreated, FlowTypeOK
<1>4. WorldStep
  <2>1. attempt' \in [Tasks -> 0 .. MaxUsernameAttempts]
    BY DEF EmailCreated, FlowTypeOK, WorldOK, FlowAssumption
  <2>2. contexts' \subseteq Context
    BY DEF EmailCreated, FlowTypeOK, WorldOK, Context
  <2>3. QED
    BY <2>1, <2>2, RowStays DEF EmailCreated, FlowTypeOK, WorldOK
<1>5. QED
  BY <1>3, <1>4

\* A mailbox that is not created, or created for a cancelled operation.
LEMMA EmailEndsSound ==
    ASSUME FlowTypeOK, NEW t \in Tasks,
           EmailFailed(t) \/ EmailCreatedInVain(t) \/ EmailDisposedInVain(t)
    PROVE  ControlStep /\ WorldStep
<1>1. Follows(flow) /\ Op(t) \in Processes /\ ControlOK /\ WorldOK
  BY FollowsSelf, ProcessNames DEF FlowTypeOK
<1>2. CASE EmailFailed(t)
  <2>1. ControlStep
    BY <1>1, <1>2, FailStep, RaiseStep DEF EmailFailed, Exit
  <2>2. QED
    BY <1>1, <1>2, <2>1, WorldStays DEF EmailFailed
<1>3. CASE EmailCreatedInVain(t)
  <2>1. ControlStep
    BY <1>1, <1>3, GotoStep, Locations DEF EmailCreatedInVain
  <2>2. contexts' \subseteq Context
    BY <1>1, <1>3 DEF EmailCreatedInVain, WorldOK, Context
  <2>3. QED
    BY <1>1, <1>3, <2>1, <2>2, RowStays DEF EmailCreatedInVain, WorldOK
<1>4. CASE EmailDisposedInVain(t)
  <2>1. ControlStep
    BY <1>1, <1>4, GotoStep, Locations DEF EmailDisposedInVain
  <2>2. contexts' \subseteq Context
    BY <1>1, <1>4 DEF EmailDisposedInVain, WorldOK
  <2>3. QED
    BY <1>1, <1>4, <2>1, <2>2, RowStays DEF EmailDisposedInVain, WorldOK
<1>5. QED
  BY <1>2, <1>3, <1>4

\* The registration loop stays within its bound.
LEMMA UsernameTakenSound ==
    ASSUME FlowTypeOK, FlowAssumption, NEW t \in Tasks, UsernameTaken(t)
    PROVE  ControlStep /\ WorldStep
<1>1. Follows(flow) /\ Op(t) \in Processes /\ ControlOK /\ WorldOK
  BY FollowsSelf, ProcessNames DEF FlowTypeOK
<1>2. ControlStep
  <2>1. CASE UNCHANGED control
    BY <1>1, <2>1 DEF control, ControlStep, StatusStep, ControlOK, Over
  <2>2. CASE Fail(Op(t), flow, "return")
    BY <1>1, <2>2, FailStep DEF Exit
  <2>3. QED
    BY <2>1, <2>2 DEF UsernameTaken
<1>3. attempt' \in [Tasks -> 0 .. MaxUsernameAttempts]
  BY <1>1 DEF UsernameTaken, WorldOK, FlowAssumption
<1>4. QED
  BY <1>1, <1>2, <1>3, ContextStep, RowStays DEF UsernameTaken, WorldOK

\* What the page said about GitHub, once the flow it leads to is understood.
LEMMA GithubWorld ==
    ASSUME WorldOK, Opened \/ MaybeOpened,
           UNCHANGED <<attempt, shots, row, completion, stray>>
    PROVE  WorldStep
BY ContextStep, RowStays DEF WorldOK

\* _handle_github_result, whatever the page says.
LEMMA GithubSound ==
    ASSUME FlowTypeOK, NEW t \in Tasks,
           GithubBlocked(t) \/ GithubAsksCode(t) \/ GithubCompleted(t) \/ GithubFailed(t)
    PROVE  ControlStep /\ WorldStep
<1>1. Follows(flow) /\ Op(t) \in Processes /\ ControlOK /\ WorldOK
  BY FollowsSelf, ProcessNames DEF FlowTypeOK
<1>2. CASE GithubBlocked(t)
  <2> DEFINE f == Blocked([flow EXCEPT !.pauseRequested = FALSE], "blocked")
  <2>1. Follows([flow EXCEPT !.pauseRequested = FALSE])
    BY <1>1, FollowsFields
  <2>2. Follows(f)
    BY <2>1, FollowsUpdates DEF Reason
  <2>3. ControlStep
    BY <1>1, <1>2, <2>2, GotoStep, NeedHumanStep, Locations DEF GithubBlocked
  <2>4. QED
    BY <1>1, <1>2, <2>3, GithubWorld DEF GithubBlocked
<1>3. CASE GithubAsksCode(t)
  <2>1. Follows(Unblocked(flow)) /\ "github_email_verify" \in Status
    BY <1>1, FollowsUpdates DEF Status, Pausable
  <2>2. ControlStep
    BY <1>1, <1>3, <2>1, PauseStep, AwaitCodeStep DEF GithubAsksCode
  <2>3. QED
    BY <1>1, <1>3, <2>2, GithubWorld DEF GithubAsksCode
<1>4. CASE GithubCompleted(t)
  <2> DEFINE g == Remember(Unblocked(flow), {"auth"})
             f == [g EXCEPT !.pauseRequested = FALSE]
  <2>1. Follows(g)
    BY <1>1, FollowsUpdates DEF Secret
  <2>2. Follows(f) /\ "opencode_login" \in Status \ {"done"}
    BY <2>1, FollowsFields DEF Status
  <2>3. ControlStep
    BY <1>1, <1>4, <2>2, MoveStep, GotoStep, FailStep, Locations DEF GithubCompleted, Exit
  <2>4. QED
    BY <1>1, <1>4, <2>3, GithubWorld DEF GithubCompleted
<1>5. CASE GithubFailed(t)
  <2>1. Follows(Unblocked(flow))
    BY <1>1, FollowsUpdates
  <2>2. ControlStep
    BY <1>1, <1>5, <2>1, FailStep, RaiseStep DEF GithubFailed, Exit
  <2>3. QED
    BY <1>1, <1>5, <2>2, GithubWorld DEF GithubFailed
<1>6. QED
  BY <1>2, <1>3, <1>4, <1>5

\* _capture_manual_screenshot.
LEMMA ScreenshotSound ==
    ASSUME FlowTypeOK, NEW t \in Tasks, ScreenshotTaken(t) \/ ScreenshotSaved(t)
    PROVE  ControlStep /\ WorldStep
<1>1. Follows(flow) /\ Op(t) \in Processes /\ ControlOK /\ WorldOK
  BY FollowsSelf, ProcessNames DEF FlowTypeOK
<1>2. ControlStep
  BY <1>1, GotoStep, NeedHumanStep, Locations DEF ScreenshotTaken, ScreenshotSaved
<1>3. CASE ScreenshotTaken(t)
  BY <1>1, <1>2, <1>3, WorldStays DEF ScreenshotTaken
<1>4. CASE ScreenshotSaved(t)
  <2>1. shots' \in BOOLEAN
    BY <1>1, <1>4 DEF ScreenshotSaved, WorldOK
  <2>2. QED
    BY <1>1, <1>2, <1>4, <2>1, RowStays DEF ScreenshotSaved, WorldOK
<1>5. QED
  BY <1>3, <1>4

\* _verify_email, with or without a code.
LEMMA CodeSound ==
    ASSUME FlowTypeOK, NEW t \in Tasks, CodeArrived(t) \/ CodeMissing(t)
    PROVE  ControlStep /\ WorldStep
<1> DEFINE f == [flow EXCEPT !.waitingForCode = FALSE]
<1>1. Follows(f) /\ Op(t) \in Processes /\ ControlOK /\ WorldOK
  BY FollowsSelf, FollowsFields, ProcessNames DEF FlowTypeOK
<1>2. ControlStep
  BY <1>1, GotoStep, FailStep, RaiseStep, Locations DEF CodeArrived, CodeMissing, Exit
<1>3. QED
  BY <1>1, <1>2, WorldStays DEF CodeArrived, CodeMissing

\* persist_pending adds a row where there was none, or fails the flow.
LEMMA CredentialsSound ==
    ASSUME FlowTypeOK, NEW t \in Tasks, CredentialsPersisted(t) \/ CredentialsRefused(t)
    PROVE  ControlStep /\ WorldStep
<1>1. Follows(flow) /\ Op(t) \in Processes /\ ControlOK /\ WorldOK
  BY FollowsSelf, ProcessNames DEF FlowTypeOK
<1>2. CASE CredentialsPersisted(t)
  <2>1. Follows([flow EXCEPT !.account = TRUE]) /\ "opencode_login" \in Status \ {"done"}
    BY <1>1, FollowsFields DEF Status
  <2>2. ControlStep
    BY <1>1, <1>2, <2>1, MoveStep, Locations DEF CredentialsPersisted
  <2>3. WorldStep
    BY <1>1, <1>2 DEF CredentialsPersisted, WorldStep, WorldOK, RowStep, CommitStep,
                      Row, PendingRow
  <2>4. QED
    BY <2>2, <2>3
<1>3. CASE CredentialsRefused(t)
  BY <1>1, <1>3, FailStep, WorldStays DEF CredentialsRefused, Exit
<1>4. QED
  BY <1>2, <1>3

\* _handle_opencode_result without an API key.
LEMMA OpenCodeSound ==
    ASSUME FlowTypeOK, NEW t \in Tasks,
           PaymentRequired(t) \/ OpenCodeBlocked(t) \/ OpenCodeFailed(t)
    PROVE  ControlStep /\ WorldStep
<1>1. Follows(flow) /\ Op(t) \in Processes /\ ControlOK /\ WorldOK
  BY FollowsSelf, ProcessNames DEF FlowTypeOK
<1>2. /\ Follows(Remember(flow, {"auth"}))
      /\ Follows(Blocked(flow, "blocked")) /\ Follows(Blocked(flow, "api_key_input"))
  BY <1>1, FollowsUpdates DEF Secret, Reason
<1>3. ControlStep
  <2>1. CASE PaymentRequired(t)
    BY <1>1, <1>2, <2>1, GotoStep, Locations DEF PaymentRequired
  <2>2. CASE OpenCodeBlocked(t)
    BY <1>1, <1>2, <2>2, NeedHumanStep DEF OpenCodeBlocked
  <2>3. CASE OpenCodeFailed(t)
    BY <1>1, <2>3, FailStep, RaiseStep DEF OpenCodeFailed, Exit
  <2>4. QED
    BY <2>1, <2>2, <2>3
<1>4. WorldStep
  BY <1>1, GithubWorld DEF PaymentRequired, OpenCodeBlocked, OpenCodeFailed
<1>5. QED
  BY <1>3, <1>4

\* _handle_payment_required.
LEMMA PaymentSound ==
    ASSUME FlowTypeOK, NEW t \in Tasks, AuthSaved(t) \/ PaymentMarked(t)
    PROVE  ControlStep /\ WorldStep
<1>1. Follows(flow) /\ Op(t) \in Processes /\ ControlOK /\ WorldOK
  BY FollowsSelf, ProcessNames DEF FlowTypeOK
<1>2. CASE AuthSaved(t)
  BY <1>1, <1>2, GotoStep, FailStep, Locations, WorldStays DEF AuthSaved, Exit
<1>3. CASE PaymentMarked(t)
  <2>1. Follows([flow EXCEPT !.manual = "payment"])
        /\ "pending_payment" \in Status \ {"done"}
    BY <1>1, FollowsFields DEF Status, Resumable, Reason
  <2>2. ControlStep
    BY <1>1, <1>3, <2>1, ReturnAtStep DEF PaymentMarked
  <2>3. row' \in Row /\ RowStep
    BY <1>1, <1>3, MarkStep DEF PaymentMarked, WorldOK, PendingRow
  <2>4. QED
    BY <1>1, <1>3, <2>2, <2>3 DEF PaymentMarked, WorldOK, WorldStep, CommitStep
<1>4. QED
  BY <1>2, <1>3

\* _handle_opencode_result with an API key starts a completion that has not
\* committed.
LEMMA ApiKeyObtainedSound ==
    ASSUME FlowTypeOK, NEW t \in Tasks, ApiKeyObtained(t)
    PROVE  ControlStep /\ WorldStep
<1> DEFINE g == Remember(flow, {"auth", "api_key"})
           f == Restored(g, "fetch_api_key")
<1>1. Follows(flow) /\ Op(t) \in Processes /\ ControlOK /\ WorldOK
  BY FollowsSelf, ProcessNames DEF FlowTypeOK
<1>2. Follows(f)
  <2>1. Follows(g) /\ "fetch_api_key" \in Status \ {"done"}
    BY <1>1, FollowsUpdates DEF Secret, Status
  <2>2. Follows(Unblocked(g)) /\ Unblocked(g).status = g.status
    BY <2>1, FollowsUpdates, FlowUpdates DEF Follows
  <2>3. CASE g.status = "manual_verify"
    <3>1. CanGo(Unblocked(g).status, "fetch_api_key")
      BY <2>2, <2>3 DEF CanGo
    <3>2. QED
      BY <2>1, <2>2, <2>3, <3>1, FollowsGo DEF Restored
  <2>4. CASE g.status # "manual_verify"
    BY <2>1, <2>4 DEF Restored
  <2>5. QED
    BY <2>3, <2>4
<1>3. ControlStep
  BY <1>1, <1>2, GotoStep, FailStep, Locations DEF ApiKeyObtained, Exit
<1>4. completion' \in [Tasks -> Completion] /\ CommitStep
  BY <1>1 DEF ApiKeyObtained, WorldOK, Completion, CommitStep
<1>5. contexts' \subseteq Context
  BY <1>1, ContextStep DEF ApiKeyObtained
<1>6. WorldStep
  BY <1>1, <1>4, <1>5 DEF ApiKeyObtained, WorldStep, WorldOK, RowStep
<1>7. QED
  BY <1>3, <1>6

\* The result of the completion: done if it has committed, failed otherwise.
LEMMA CompletionAwaitedSound ==
    ASSUME FlowTypeOK, NEW t \in Tasks, CompletionAwaited(t)
    PROVE  ControlStep /\ WorldStep
<1>1. Follows(flow) /\ Op(t) \in Processes /\ ControlOK /\ WorldOK
  BY FollowsSelf, ProcessNames DEF FlowTypeOK
<1>2. PICK exit \in {"return", "cancelled"} :
        \/ completion[t] = "committed" /\ Finish(t, exit)
        \/ Fail(Op(t), flow, exit)
  BY DEF CompletionAwaited
<1>3. ControlStep
  BY <1>1, <1>2, FinishStep, FailStep DEF Exit
<1>4. QED
  BY <1>1, <1>3, WorldStays DEF CompletionAwaited

\* The completion task moves alone: only it makes a row complete.
LEMMA CompletionSound ==
    ASSUME FlowTypeOK, NEW t \in Tasks, CompletionStep(t)
    PROVE  ControlStep /\ WorldStep
<1>1. ControlStep
  BY DEF CompletionStep, CompletionCommits, CompletionFails, control, ControlStep,
         StatusStep, ControlOK, Over, FlowTypeOK
<1>2. WorldOK'
  BY DEF CompletionStep, CompletionCommits, CompletionFails, FlowTypeOK, WorldOK,
         Completion, Row
<1>3. RowStep /\ CommitStep
  BY DEF CompletionStep, CompletionCommits, CompletionFails, FlowTypeOK, WorldOK,
         RowStep, CommitStep
<1>4. QED
  BY <1>1, <1>2, <1>3 DEF WorldStep

(***************************************************************************)
(* The cleanup tail and the timeout                                        *)
(***************************************************************************)
\* The cleanup of a failure, from the pending row on.
LEMMA FailMarkedSound ==
    ASSUME FlowTypeOK, NEW p \in Processes, FailMarked(p)
    PROVE  ControlStep /\ WorldStep
<1>1. Follows(flow) /\ ControlOK /\ WorldOK /\ onExit[p] \in Exit
  BY FollowsSelf DEF FlowTypeOK, ControlOK
<1>2. ControlStep
  BY <1>1, FailNowStep DEF FailMarked
<1>3. row' \in Row /\ RowStep
  BY <1>1, MarkStep DEF FailMarked, WorldOK, PendingRow
<1>4. QED
  BY <1>1, <1>2, <1>3 DEF FailMarked, WorldOK, WorldStep, CommitStep

\* The rest of the cleanup changes neither the status nor the row.
LEMMA TailSound ==
    ASSUME FlowTypeOK, NEW p \in Processes, TailStep(p)
    PROVE  ControlStep /\ WorldStep
<1>1. Follows(flow) /\ ControlOK /\ WorldOK /\ onExit[p] \in Exit /\ p[2] \in Tasks
  BY FollowsSelf, ProcessNames DEF FlowTypeOK, ControlOK
<1>2. CASE MailboxDisposed(p) \/ BrowserClosed(p)
  <2>1. ControlStep
    BY <1>1, <1>2, GotoStep, Locations DEF MailboxDisposed, BrowserClosed
  <2>2. contexts' \subseteq Context
    BY <1>1, <1>2 DEF MailboxDisposed, BrowserClosed, WorldOK
  <2>3. QED
    BY <1>1, <1>2, <2>1, <2>2, RowStays DEF MailboxDisposed, BrowserClosed, WorldOK
<1>3. CASE BrowserCloseFails(p)
  <2>1. ControlStep
    BY <1>1, <1>3, GotoStep, Thrown DEF BrowserCloseFails
  <2>2. QED
    BY <1>1, <1>3, <2>1, WorldStays DEF BrowserCloseFails
<1>4. CASE Cleared(p)
  <2>1. onExit[p] # "return" => ReturnedTo(onExit[p]) \in Location
    BY <1>1, Locations DEF ReturnedTo, Exit
  <2>2. ControlStep
    BY <1>1, <1>4, <2>1, GotoStep, ReturnStep DEF Cleared
  <2>3. shots' \in BOOLEAN
    BY <1>1, <1>4, FlowAssumption DEF Cleared, WorldOK, FlowAssumption
  <2>4. QED
    BY <1>1, <1>4, <2>2, <2>3, RowStays DEF Cleared, WorldOK
<1>5. QED
  BY <1>2, <1>3, <1>4 DEF TailStep

\* _expire_manual.
LEMMA ExpireSound ==
    ASSUME FlowTypeOK, NEW t \in Tasks, Expire(t)
    PROVE  ControlStep /\ WorldStep
<1>1. Follows(flow) /\ Timer(t) \in Processes /\ ControlOK /\ WorldOK
  BY FollowsSelf, ProcessNames DEF FlowTypeOK
<1>2. ControlStep
  BY <1>1, GotoStep, FailStep, Locations DEF Expire, Exit
<1>3. QED
  BY <1>1, <1>2, WorldStays DEF Expire

(***************************************************************************)
(* resume()                                                                *)
(***************************************************************************)
\* _restore_manual_state is a legal transition or none.
LEMMA RestoredFollows ==
    ASSUME NEW f, Follows(f), NEW s \in {"opencode_login", "fetch_api_key"}
    PROVE  Follows(Restored(f, s))
<1>1. Follows(Unblocked(f)) /\ Unblocked(f).status = f.status
  BY FollowsUpdates, FlowUpdates DEF Follows
<1>2. s \in Status \ {"done"}
  BY DEF Status
<1>3. CASE f.status = "manual_verify"
  <2>1. CanGo(Unblocked(f).status, s)
    BY <1>1, <1>3 DEF CanGo
  <2>2. QED
    BY <1>1, <1>2, <1>3, <2>1, FollowsGo DEF Restored
<1>4. QED
  BY <1>3 DEF Restored

\* _resume_user_pause.
LEMMA ResumePauseStep ==
    ASSUME ControlOK, NEW t \in Tasks, ResumePause(t)
    PROVE  ControlStep
<1>1. Follows(flow) /\ Op(t) \in Processes
  BY FollowsSelf, ProcessNames
<1> DEFINE s == flow.pausedFrom
           f == [Unblocked(flow) EXCEPT !.waitingForCode = (s = "github_email_verify")]
<1>2. Follows(f)
  BY <1>1, FollowsUpdates, FollowsFields
<1>3. CASE s \in {"github_register", "github_email_verify", "opencode_login"}
  <2>1. s \in Status \ {"done"} /\ ResumePoint(s) \in Location
    BY <1>3, Locations DEF Status, Pausable, ResumePoint
  <2>2. Move(t, f, s, ResumePoint(s))
    BY <1>3 DEF ResumePause
  <2>3. QED
    BY <1>2, <2>1, <2>2, MoveStep
<1>4. CASE s \notin {"github_register", "github_email_verify", "opencode_login"}
  BY <1>1, <1>4, FailStep DEF ResumePause, Exit
<1>5. QED
  BY <1>3, <1>4

\* resume(), whatever the state it finds the flow in.
LEMMA ResumeSound ==
    ASSUME FlowTypeOK, NEW t \in Tasks, NEW withKey, Resume(t, withKey)
    PROVE  ControlStep /\ WorldStep
<1>1. Follows(flow) /\ Op(t) \in Processes /\ ControlOK /\ WorldOK
  BY FollowsSelf, ProcessNames DEF FlowTypeOK
<1>2. ControlStep
  <2>1. CASE Move(t, [flow EXCEPT !.manual = Nothing], "fetch_api_key", "fetch")
    <3>1. Follows([flow EXCEPT !.manual = Nothing]) /\ "fetch_api_key" \in Status \ {"done"}
      BY <1>1, FollowsFields DEF Status
    <3>2. QED
      BY <1>1, <2>1, <3>1, MoveStep, Locations
  <2>2. CASE ResumePause(t)
    BY <1>1, <2>2, ResumePauseStep
  <2>3. CASE Goto(Op(t), "submit_key", flow)
    BY <1>1, <2>3, GotoStep, Locations
  <2>4. CASE ResumeBlocked(t)
    BY <1>1, <2>4, RestoredFollows, GotoStep, Locations DEF ResumeBlocked
  <2>5. CASE Raise(t, flow)
    BY <1>1, <2>5, RaiseStep
  <2>6. QED
    BY <2>1, <2>2, <2>3, <2>4, <2>5 DEF Resume
<1>3. WorldStep
  <2>1. attempt' \in [Tasks -> 0 .. MaxUsernameAttempts]
    BY <1>1, FlowAssumption DEF Resume, WorldOK, FlowAssumption
  <2>2. shots' \in BOOLEAN
    BY <1>1, FlowAssumption DEF Resume, WorldOK, FlowAssumption
  <2>3. QED
    BY <1>1, <2>1, <2>2, RowStays DEF Resume, WorldOK
<1>4. QED
  BY <1>2, <1>3

(***************************************************************************)
(* Task.cancel()                                                           *)
(***************************************************************************)
\* CancelledError changes no status and no row, wherever it strikes.
LEMMA InterruptSound ==
    ASSUME FlowTypeOK, NEW f, Follows(f), NEW P, Interrupt(P, f)
    PROVE  WorldStep /\ Follows(flow') /\ onExit' = onExit
<1>1. Follows(flow')
  <2> DEFINE b == f.waitingForCode /\ ~InterruptedAt(P, {"code"})
  <2>1. b \in BOOLEAN
    OBVIOUS
  <2>2. flow' = [f EXCEPT !.waitingForCode = b]
    BY DEF Interrupt
  <2> HIDE DEF b
  <2>3. QED
    BY <2>1, <2>2, FollowsFields
<1>2. contexts' \subseteq Context
  BY DEF Interrupt, Torn
<1>3. stray' \subseteq ThreadJob
  BY DEF Interrupt, FlowTypeOK, WorldOK
<1>4. QED
  BY <1>1, <1>2, <1>3, RowStays DEF Interrupt, FlowTypeOK, WorldOK

\* Cancelling tasks and awaiting one of them.
LEMMA ReapSound ==
    ASSUME FlowTypeOK, NEW f, Follows(f), NEW P, NEW p \in Processes,
           NEW l \in Location, Reap(p, l, P, f), slot' \in Tasks \cup {Nothing}
    PROVE  ControlStep /\ WorldStep
<1>1. WorldStep /\ Follows(flow') /\ onExit' = onExit
  BY InterruptSound DEF Reap
<1>2. pc' \in [Processes -> Location]
  <2>1. \A q \in Processes : Interrupted(q) \in Location
    BY Locations DEF Interrupted, FlowTypeOK, ControlOK
  <2>2. QED
    BY <2>1 DEF Reap, FlowTypeOK, ControlOK
<1>3. ControlOK'
  BY <1>1, <1>2 DEF FlowTypeOK, ControlOK, Follows
<1>4. QED
  BY <1>1, <1>3, FollowsStep DEF FlowTypeOK

\* A stray job writes to the vault only what a pending row may take.
LEMMA LandSound ==
    ASSUME FlowTypeOK, NEW job, Land(job)
    PROVE  ControlStep /\ WorldStep
<1>1. ControlStep
  BY DEF Land, control, ControlStep, StatusStep, ControlOK, Over, FlowTypeOK
<1>2. row' \in Row /\ RowStep
  <2>1. CASE job = "persist"
    BY <2>1 DEF Land, FlowTypeOK, WorldOK, RowStep, Row, PendingRow
  <2>2. CASE job = "mark_payment"
    BY <2>2, MarkStep DEF Land, FlowTypeOK, WorldOK, PendingRow
  <2>3. CASE job = "fail_mark"
    BY <2>3, MarkStep DEF Land, FlowTypeOK, WorldOK, PendingRow
  <2>4. CASE job \notin {"persist", "mark_payment", "fail_mark"}
    BY <2>4 DEF Land, FlowTypeOK, WorldOK, RowStep
  <2>5. QED
    BY <2>1, <2>2, <2>3, <2>4
<1>3. shots' \in BOOLEAN
  BY DEF Land, FlowTypeOK, WorldOK
<1>4. QED
  BY <1>1, <1>2, <1>3 DEF Land, FlowTypeOK, WorldOK, WorldStep, CommitStep

(***************************************************************************)
(* The service                                                             *)
(***************************************************************************)
\* A step of the service that leaves the cleanup exits alone.
LEMMA PcStep ==
    ASSUME FlowTypeOK, flow' \in Flow, pc' \in [Processes -> Location],
           slot' \in Tasks \cup {Nothing}, UNCHANGED onExit,
           Over => flow'.status = flow.status,
           flow'.status = "done" => flow.status = "done"
    PROVE  ControlStep
BY DEF ControlStep, StatusStep, ControlOK, FlowTypeOK

\* An answer to a request.
LEMMA ReplySound ==
    ASSUME FlowTypeOK, NEW r \in Requests, NEW a \in Location, Reply(r, a),
           slot' \in Tasks \cup {Nothing}
    PROVE  ControlStep /\ WorldStep
<1>1. flow' = flow /\ pc' \in [Processes -> Location] /\ UNCHANGED onExit
  BY DEF Reply, FlowTypeOK, ControlOK
<1>2. ControlStep
  BY <1>1, PcStep DEF FlowTypeOK, ControlOK
<1>3. QED
  BY <1>2, WorldStays DEF Reply, FlowTypeOK

\* _start_task.
LEMMA StartTaskSound ==
    ASSUME FlowTypeOK, NEW r \in Requests, StartTask(r), slot' \in Tasks \cup {Nothing}
    PROVE  ControlStep /\ WorldStep
<1>1. flow' = flow /\ pc' \in [Processes -> Location] /\ UNCHANGED onExit
  BY Locations DEF StartTask, FlowTypeOK, ControlOK
<1>2. ControlStep
  BY <1>1, PcStep DEF FlowTypeOK, ControlOK
<1>3. QED
  BY <1>2, WorldStays DEF StartTask, FlowTypeOK

\* The part of flow.cancel() after the pending row is marked.
LEMMA CancelNowStep ==
    ASSUME FlowTypeOK, NEW p \in Processes, NEW f, Follows(f), CancelNow(p, f),
           slot' \in Tasks \cup {Nothing}, UNCHANGED onExit
    PROVE  ControlStep
<1>1. pc' \in [Processes -> Location]
  BY Locations DEF CancelNow, FirstRelease, Cannot, FlowTypeOK, ControlOK
<1>2. Follows(Wiped(f)) /\ Wiped(f).status = f.status
  BY FollowsUpdates, FlowUpdates DEF Follows
<1>3. Follows(flow')
  <2>1. CASE CanGo(f.status, "cancelled")
    <3>1. "cancelled" \in Status \ {"done"}
      BY DEF Status, Terminal
    <3>2. QED
      BY <1>2, <2>1, <3>1, FollowsGo DEF CancelNow
  <2>2. CASE ~CanGo(f.status, "cancelled")
    BY <1>2, <2>2 DEF CancelNow
  <2>3. QED
    BY <2>1, <2>2
<1>4. ControlOK'
  BY <1>1, <1>3 DEF FlowTypeOK, ControlOK, Follows
<1>5. QED
  BY <1>3, <1>4, FollowsStep DEF FlowTypeOK

\* flow.cancel() up to its first await.
LEMMA CancelFlowSound ==
    ASSUME FlowTypeOK, NEW p \in Processes, CancelFlow(p), slot' \in Tasks \cup {Nothing}
    PROVE  ControlStep /\ WorldStep
<1> DEFINE f == [flow EXCEPT !.pauseRequested = FALSE]
<1>1. Follows(f)
  BY FollowsSelf, FollowsFields DEF FlowTypeOK
<1>2. ControlStep
  <2>1. CASE f.account
    <3>1. flow' = f /\ pc' \in [Processes -> Location] /\ UNCHANGED onExit
      BY <2>1, Locations DEF CancelFlow, FlowTypeOK, ControlOK
    <3>2. ControlOK'
      BY <1>1, <3>1 DEF FlowTypeOK, ControlOK, Follows
    <3>3. QED
      BY <1>1, <3>1, <3>2, FollowsStep DEF FlowTypeOK
  <2>2. CASE ~f.account
    BY <1>1, <2>2, CancelNowStep DEF CancelFlow
  <2>3. QED
    BY <2>1, <2>2
<1>3. QED
  BY <1>2, WorldStays DEF CancelFlow, FlowTypeOK

\* flow.cancel() from the pending row on.
LEMMA CancelMarkedSound ==
    ASSUME FlowTypeOK, NEW p \in Processes, CancelMarked(p)
    PROVE  ControlStep /\ WorldStep
<1>1. Follows(flow) /\ WorldOK /\ slot' \in Tasks \cup {Nothing}
  BY FollowsSelf DEF FlowTypeOK, CancelMarked, ControlOK
<1>2. ControlStep
  BY <1>1, CancelNowStep DEF CancelMarked
<1>3. row' \in Row /\ RowStep
  BY <1>1, MarkStep DEF CancelMarked, WorldOK, PendingRow
<1>4. QED
  BY <1>1, <1>2, <1>3 DEF CancelMarked, WorldOK, WorldStep, CommitStep

\* A pause takes effect in a flow that waits for a code, so one that is not over.
LEMMA PauseAfterSound ==
    ASSUME FlowTypeOK, NEW r \in Requests, NEW f, Follows(f),
           f.status = "github_email_verify", PauseAfterInterruption(r, f), UNCHANGED slot
    PROVE  ControlStep /\ WorldStep
<1> DEFINE g == PausedAt(f, "github_email_verify")
<1>1. Follows(g) /\ CanGo(g.status, "manual_verify")
  BY FollowsUpdates, FlowUpdates DEF Follows, CanGo, Status, Pausable
<1>2. "manual_verify" \in Status \ {"done"}
  BY DEF Status, Resumable
<1>3. Follows(flow')
  BY <1>1, <1>2, FollowsGo DEF PauseAfterInterruption
<1>4. pc' \in [Processes -> Location] /\ UNCHANGED onExit
  BY Locations DEF PauseAfterInterruption, FlowTypeOK, ControlOK
<1>5. ControlOK'
  BY <1>3, <1>4 DEF FlowTypeOK, ControlOK, Follows
<1>6. QED
  BY <1>3, <1>5, FollowsStep, WorldStays DEF PauseAfterInterruption, FlowTypeOK

\* What every action of the service is shown to be.
Sound == ControlStep /\ WorldStep /\ ServiceOK'

\* _cancel_manual_timeout, when there is a timeout to interrupt.
LEMMA ReapTimerSound ==
    ASSUME TypeOK, NEW r \in Requests, ReapTimer(r), kind' \in [Requests -> Kind]
    PROVE  Sound
<1>1. /\ FlowTypeOK /\ Follows(flow) /\ Request(r) \in Processes
      /\ slot \in Tasks /\ slot' \in Tasks \cup {Nothing}
  BY FollowsSelf, ProcessNames DEF TypeOK, FlowTypeOK, ReapTimer, TimerRunning, ControlOK
<1>2. ControlStep /\ WorldStep
  BY <1>1, ReapSound, Locations DEF ReapTimer, ReapFor
<1>3. ServiceOK'
  BY <1>1, ProcessNames DEF ReapTimer, ReapFor, TypeOK, ServiceOK
<1>4. QED
  BY <1>2, <1>3 DEF Sound

\* A resume request.
LEMMA ResumeRequestSound ==
    ASSUME TypeOK, NEW r \in Requests, AskResume(r) \/ ResumeReaped(r)
    PROVE  Sound
<1>1. FlowTypeOK /\ {"refused", "busy", "failed"} \subseteq Location /\ r \in Tasks
  BY Locations DEF TypeOK, Tasks
<1>2. CASE AskResume(r)
  <2>1. kind' \in [Requests -> Kind]
    BY <1>2 DEF AskResume, Ask, TypeOK, Kind
  <2>2. CASE ReapTimer(r)
    BY <2>1, <2>2, ReapTimerSound
  <2>3. CASE \E a \in {"refused", "busy"} :
                Reply(r, a) /\ UNCHANGED <<slot, current, target>>
    <3>1. ControlStep /\ WorldStep
      BY <1>1, <2>3, ReplySound DEF FlowTypeOK, ControlOK
    <3>2. QED
      BY <2>1, <2>3, <3>1 DEF Sound, ServiceOK, TypeOK
  <2>4. CASE StartTask(r) /\ slot' = Nothing /\ UNCHANGED target
    <3>1. ControlStep /\ WorldStep
      BY <1>1, <2>4, StartTaskSound
    <3>2. QED
      BY <1>1, <2>1, <2>4, <3>1 DEF Sound, ServiceOK, TypeOK, StartTask
  <2>5. QED
    BY <1>2, <2>2, <2>3, <2>4 DEF AskResume
<1>3. CASE ResumeReaped(r)
  <2>1. CASE \E a \in {"refused", "failed"} : Reply(r, a) /\ UNCHANGED current
    <3>1. ControlStep /\ WorldStep
      BY <1>1, <1>3, <2>1, ReplySound DEF FlowTypeOK, ControlOK, ResumeReaped
    <3>2. QED
      BY <1>3, <2>1, <3>1 DEF Sound, ServiceOK, TypeOK, ResumeReaped
  <2>2. CASE StartTask(r)
    <3>1. ControlStep /\ WorldStep
      BY <1>1, <1>3, <2>2, StartTaskSound DEF FlowTypeOK, ControlOK, ResumeReaped
    <3>2. QED
      BY <1>1, <1>3, <2>2, <3>1 DEF Sound, ServiceOK, TypeOK, ResumeReaped, StartTask
  <2>3. QED
    BY <1>3, <2>1, <2>2 DEF ResumeReaped
<1>4. QED
  BY <1>2, <1>3

\* cancel() once the timeout is out of the way.
LEMMA CancelTaskSound ==
    ASSUME TypeOK, NEW r \in Requests, CancelTask(r), slot' \in Tasks \cup {Nothing},
           kind' \in [Requests -> Kind]
    PROVE  Sound
<1>1. /\ FlowTypeOK /\ Follows(flow) /\ Request(r) \in Processes
      /\ Op(current) \in Processes
  BY FollowsSelf, ProcessNames DEF TypeOK, FlowTypeOK
<1>2. CASE Running(Op(current))
  <2>1. ReapFor(r, "reap_task", Op(current), {Op(current)}, flow) /\ UNCHANGED current
    BY <1>2 DEF CancelTask
  <2>2. ControlStep /\ WorldStep
    BY <1>1, <2>1, ReapSound, Locations DEF ReapFor
  <2>3. QED
    BY <1>1, <2>1, <2>2 DEF Sound, ServiceOK, TypeOK, ReapFor
<1>3. CASE ~Running(Op(current))
  <2>1. CancelFlow(Request(r)) /\ UNCHANGED <<target, current>>
    BY <1>3 DEF CancelTask
  <2>2. ControlStep /\ WorldStep
    BY <1>1, <2>1, CancelFlowSound
  <2>3. QED
    BY <2>1, <2>2 DEF Sound, ServiceOK, TypeOK
<1>4. QED
  BY <1>2, <1>3

\* A cancel request.
LEMMA CancelRequestSound ==
    ASSUME TypeOK, NEW r \in Requests,
           AskCancel(r) \/ CancelReapedTimer(r) \/ CancelReapedTask(r)
    PROVE  Sound
<1>1. /\ FlowTypeOK /\ "failed" \in Location /\ Request(r) \in Processes
      /\ slot \in Tasks \cup {Nothing}
  BY Locations, ProcessNames DEF TypeOK, FlowTypeOK, ControlOK
<1>2. CASE AskCancel(r)
  <2>1. kind' \in [Requests -> Kind]
    BY <1>2 DEF AskCancel, Ask, TypeOK, Kind
  <2>2. QED
    BY <1>2, <2>1, ReapTimerSound, CancelTaskSound DEF AskCancel
<1>3. CASE CancelReapedTimer(r)
  <2>1. UNCHANGED <<slot, kind>> /\ kind' \in [Requests -> Kind]
    BY <1>3 DEF CancelReapedTimer, TypeOK
  <2>2. CASE CancelTask(r)
    BY <1>1, <2>1, <2>2, CancelTaskSound
  <2>3. CASE Reply(r, "failed") /\ UNCHANGED <<current, target>>
    <3>1. ControlStep /\ WorldStep
      BY <1>1, <2>1, <2>3, ReplySound
    <3>2. QED
      BY <2>1, <2>3, <3>1 DEF Sound, ServiceOK, TypeOK
  <2>4. QED
    BY <1>3, <2>2, <2>3 DEF CancelReapedTimer
<1>4. CASE CancelReapedTask(r)
  <2>1. ControlStep /\ WorldStep
    BY <1>1, <1>4, ReplySound, CancelFlowSound DEF CancelReapedTask
  <2>2. QED
    BY <1>4, <2>1 DEF Sound, ServiceOK, TypeOK, CancelReapedTask, service
<1>5. QED
  BY <1>2, <1>3, <1>4

\* A pause request.
LEMMA PauseRequestSound ==
    ASSUME TypeOK, NEW r \in Requests, AskPause(r) \/ PauseReaped(r)
    PROVE  Sound
<1> DEFINE f == [flow EXCEPT !.pauseRequested = TRUE]
<1>1. /\ FlowTypeOK /\ {"accepted", "refused", "failed"} \subseteq Location
      /\ Request(r) \in Processes /\ Op(current) \in Processes
      /\ slot \in Tasks \cup {Nothing}
  BY Locations, ProcessNames DEF TypeOK, FlowTypeOK, ControlOK
<1>2. Follows(flow) /\ Follows(f) /\ f.status = flow.status
  BY FollowsSelf, FollowsFields, FieldUpdates DEF TypeOK, FlowTypeOK, Follows
<1>3. CASE AskPause(r)
  <2>1. kind' \in [Requests -> Kind] /\ UNCHANGED <<slot, current>>
    BY <1>3 DEF AskPause, Ask, TypeOK, Kind
  <2>2. CASE Reply(r, "refused") /\ UNCHANGED target
    <3>1. ControlStep /\ WorldStep
      BY <1>1, <2>1, <2>2, ReplySound
    <3>2. QED
      BY <2>1, <2>2, <3>1 DEF Sound, ServiceOK, TypeOK
  <2>3. CASE /\ flow' = f
             /\ pc' = [pc EXCEPT ![Request(r)] = "accepted"]
             /\ UNCHANGED <<onExit, world, target>>
    <3>1. ControlOK'
      BY <1>1, <1>2, <2>1, <2>3 DEF FlowTypeOK, ControlOK, Follows
    <3>2. ControlStep /\ WorldStep
      BY <1>1, <1>2, <2>3, <3>1, FollowsStep, WorldStays DEF FlowTypeOK
    <3>3. QED
      BY <2>1, <2>3, <3>2 DEF Sound, ServiceOK, TypeOK
  <2>4. CASE ReapFor(r, "reap_pause", Op(current), {Op(current)}, f)
    <3>1. ControlStep /\ WorldStep
      BY <1>1, <1>2, <2>1, <2>4, ReapSound, Locations DEF ReapFor
    <3>2. QED
      BY <1>1, <2>1, <2>4, <3>1 DEF Sound, ServiceOK, TypeOK, ReapFor
  <2>5. CASE CanInterruptForPause /\ PauseAfterInterruption(r, f) /\ UNCHANGED target
    <3>1. ControlStep /\ WorldStep
      BY <1>1, <1>2, <2>1, <2>5, PauseAfterSound DEF CanInterruptForPause
    <3>2. QED
      BY <2>1, <2>5, <3>1 DEF Sound, ServiceOK, TypeOK
  <2>6. QED
    BY <1>3, <2>2, <2>3, <2>4, <2>5 DEF AskPause
<1>4. CASE PauseReaped(r)
  <2>1. ControlStep /\ WorldStep
    BY <1>1, <1>2, <1>4, ReplySound, PauseAfterSound DEF PauseReaped
  <2>2. QED
    BY <1>4, <2>1 DEF Sound, ServiceOK, TypeOK, PauseReaped, service
<1>5. QED
  BY <1>3, <1>4

\* close().
LEMMA CloserSound ==
    ASSUME TypeOK, ShutDown \/ CloserStep
    PROVE  Sound
<1>1. /\ FlowTypeOK /\ Follows(flow) /\ Closer \in Processes
      /\ {"crashed", "reap_timer", "browsers", "reap_task", "done"} \subseteq Location
      /\ slot \in Tasks \cup {Nothing}
  BY Locations, ProcessNames, FollowsSelf DEF TypeOK, FlowTypeOK, ControlOK
<1>2. ServiceOK'
  BY DEF ShutDown, CloserStep, CloserReapedTask, CloserReapedTimer, CloseBrowsers,
         TypeOK, ServiceOK, service
<1>3. ASSUME NEW l \in Location, CloserGoto(l), UNCHANGED slot
      PROVE  ControlStep /\ WorldStep
  <2>1. flow' = flow /\ pc' \in [Processes -> Location] /\ UNCHANGED onExit
    BY <1>3 DEF CloserGoto, FlowTypeOK, TypeOK, ControlOK
  <2>2. ControlStep
    BY <1>1, <1>3, <2>1, PcStep DEF FlowTypeOK, ControlOK
  <2>3. QED
    BY <1>1, <1>3, <2>2, WorldStays DEF CloserGoto, FlowTypeOK
<1>4. CASE ShutDown
  <2>1. UNCHANGED slot
    BY <1>4 DEF ShutDown
  <2>2. QED
    BY <1>1, <1>2, <1>4, <2>1, ReapSound DEF ShutDown, Sound
<1>5. CASE CloserReapedTask
  BY <1>1, <1>2, <1>3, <1>5 DEF CloserReapedTask, Sound
<1>6. CASE CloserReapedTimer
  BY <1>1, <1>2, <1>3, <1>6, CancelFlowSound DEF CloserReapedTimer, Sound
<1>7. CASE CloseBrowsers
  <2>1. ControlStep
    BY <1>1, <1>7, GotoStep DEF CloseBrowsers, FlowTypeOK
  <2>2. WorldStep
    BY <1>1, <1>7, RowStays DEF CloseBrowsers, FlowTypeOK, WorldOK
  <2>3. QED
    BY <1>2, <2>1, <2>2 DEF Sound
<1>8. CASE CancelMarked(Closer)
  BY <1>1, <1>2, <1>8, CancelMarkedSound DEF Sound
<1>9. CASE TailStep(Closer)
  BY <1>1, <1>2, <1>9, TailSound DEF Sound
<1>10. QED
  BY <1>4, <1>5, <1>6, <1>7, <1>8, <1>9 DEF CloserStep

\* Every step of an operation or of a timeout.
LEMMA OperationSound ==
    ASSUME TypeOK, NEW t \in Tasks, OperationStep(t) \/ TimeoutStep(t)
    PROVE  Sound
<1>1. FlowTypeOK /\ Op(t) \in Processes /\ Timer(t) \in Processes
  BY ProcessNames DEF TypeOK
<1>2. ServiceOK'
  BY DEF OperationStep, TimeoutStep, TypeOK, ServiceOK, service
<1>3. CASE OpStep(t)
  <2>1. ControlStep /\ WorldStep
    BY <1>1, <1>3, FlowAssumption, StartSound, EmailCreatedSound, EmailEndsSound,
       UsernameTakenSound, GithubSound, ScreenshotSound, CodeSound, CredentialsSound,
       OpenCodeSound, PaymentSound, ApiKeyObtainedSound, CompletionAwaitedSound,
       FailMarkedSound, TailSound DEF OpStep
  <2>2. QED
    BY <1>2, <2>1 DEF Sound
<1>4. CASE OperationStep(t) /\ ~OpStep(t)
  BY <1>1, <1>2, <1>4, ResumeSound DEF OperationStep, Sound
<1>5. CASE TimeoutStep(t)
  BY <1>1, <1>2, <1>5, ExpireSound, FailMarkedSound, TailSound
     DEF TimeoutStep, TimerStep, Sound
<1>6. QED
  BY <1>3, <1>4, <1>5 DEF OperationStep

(***************************************************************************)
(* The theorems                                                            *)
(***************************************************************************)
\* Every action of the specification is sound.
LEMMA NextSound ==
    ASSUME TypeOK, Next
    PROVE  Sound
<1>1. CASE \E t \in Tasks : OperationStep(t) \/ TimeoutStep(t)
  BY <1>1, OperationSound
<1>2. CASE \E r \in Requests : AskResume(r) \/ AskCancel(r) \/ AskPause(r) \/ RequestStep(r)
  <2>1. PICK r \in Requests :
          AskResume(r) \/ AskCancel(r) \/ AskPause(r) \/ RequestStep(r)
    BY <1>2
  <2>2. CASE (CancelMarked(Request(r)) \/ TailStep(Request(r))) /\ UNCHANGED service
    BY <2>2, ProcessNames, CancelMarkedSound, TailSound
       DEF TypeOK, Sound, ServiceOK, service
  <2>3. QED
    BY <2>1, <2>2, ResumeRequestSound, CancelRequestSound, PauseRequestSound
       DEF RequestStep
<1>3. CASE ShutDown \/ CloserStep
  BY <1>3, CloserSound
<1>4. CASE BackgroundStep
  BY <1>4, CompletionSound, LandSound DEF BackgroundStep, TypeOK, Sound, ServiceOK, service
<1>5. QED
  BY <1>1, <1>2, <1>3, <1>4 DEF Next

\* The invariant holds when create() has returned.
LEMMA InitInv == Init => IInv
<1> SUFFICES ASSUME Init PROVE IInv
  OBVIOUS
<1>1. ControlOK
  <2>1. FreshFlow \in Flow
    BY DEF FreshFlow, Flow, Status, Pausable, Secret
  <2>2. pc \in [Processes -> Location]
    BY Locations DEF Init, FlowInit
  <2>3. onExit \in [Processes -> Exit]
    BY DEF Init, FlowInit, Exit, Processes, Closer
  <2>4. QED
    BY <2>1, <2>2, <2>3 DEF Init, FlowInit, ControlOK
<1>2. WorldOK
  <2>1. 0 \in 0 .. MaxUsernameAttempts
    BY FlowAssumption DEF FlowAssumption
  <2>2. attempt \in [Tasks -> 0 .. MaxUsernameAttempts]
    BY <2>1 DEF Init, FlowInit
  <2>3. completion \in [Tasks -> Completion]
    BY DEF Init, FlowInit, Completion
  <2>4. QED
    BY <2>2, <2>3 DEF Init, FlowInit, WorldOK, Row
<1>3. ServiceOK
  BY ProcessNames DEF Init, ServiceOK, Kind, Tasks
<1>4. CommitsKept /\ DoneIsStored
  BY DEF Init, FlowInit, CommitsKept, DoneIsStored, FreshFlow
<1>5. QED
  BY <1>1, <1>2, <1>3, <1>4 DEF IInv, TypeOK, FlowTypeOK, ServiceOK

\* A sound step keeps the invariant: a row once complete stays complete, and
\* only a committed completion leads to done.
LEMMA SoundInv == IInv /\ Sound => IInv'
<1> SUFFICES ASSUME IInv, Sound PROVE IInv'
  OBVIOUS
<1>1. TypeOK'
  BY DEF Sound, ControlStep, WorldStep, ServiceOK, TypeOK, FlowTypeOK
<1>2. CommitsKept'
  BY DEF IInv, CommitsKept, Sound, WorldStep, CommitStep, RowStep
<1>3. DoneIsStored'
  BY DEF IInv, CommitsKept, DoneIsStored, Committed, Sound, ControlStep, StatusStep,
         WorldStep, RowStep
<1>4. QED
  BY <1>1, <1>2, <1>3 DEF IInv

\* A stuttering step keeps it.
LEMMA StutterInv == IInv /\ UNCHANGED vars => IInv'
BY DEF IInv, TypeOK, FlowTypeOK, ControlOK, WorldOK, CommitsKept, DoneIsStored, vars,
       flowVars, world, service

\* So does every step.
LEMMA StepInv == IInv /\ [Next]_vars => IInv'
BY NextSound, SoundInv, StutterInv DEF IInv

\* The inductive invariant, whatever the clients do.
THEOREM Invariant == Spec => []IInv
BY InitInv, StepInv, PTL DEF Spec

\* Every flow, process, request and row keeps its type.
THEOREM TypeCorrect == Spec => []TypeOK
<1>1. IInv => TypeOK
  BY DEF IInv
<1>2. QED
  BY <1>1, Invariant, PTL

\* A flow reported as done has its account in the vault.
THEOREM DoneStored == Spec => []DoneIsStored
<1>1. IInv => DoneIsStored
  BY DEF IInv
<1>2. QED
  BY <1>1, Invariant, PTL

\* done, error and cancelled are final.
THEOREM Final == Spec => TerminalIsFinal
<1>1. IInv /\ [Next]_vars => [Over => flow'.status = flow.status]_vars
  BY NextSound DEF IInv, Sound, ControlStep, StatusStep
<1>2. QED
  BY <1>1, Invariant, PTL DEF Spec, TerminalIsFinal

\* The vault never loses a registered account, nor demotes a completed one.
THEOREM AccountKept == Spec => AccountIsKept
<1>1. IInv /\ [Next]_vars => [ /\ row # "absent" => row' # "absent"
                               /\ row = "complete" => row' = "complete" ]_vars
  BY NextSound DEF IInv, Sound, WorldStep, RowStep
<1>2. QED
  BY <1>1, Invariant, PTL DEF Spec, AccountIsKept
=============================================================================
