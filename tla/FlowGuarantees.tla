--------------------------- MODULE FlowGuarantees ---------------------------
(***************************************************************************)
(* What CreateAccountService guarantees about a flow, and under which      *)
(* conduct of its clients.                                                 *)
(***************************************************************************)
EXTENDS CreateAccountService

Quiescent ==
    /\ \A t \in Tasks : ~Running(Op(t)) /\ (~Running(Timer(t)) \/ At(Timer(t), "sleep"))
    /\ \A r \in Requests : ~Unanswered(r)
    /\ pc[Closer] \in {"idle", "done"}

Over == flow.status \in Terminal

(***************************************************************************)
(* Safety                                                                  *)
(***************************************************************************)
\* _ensure_idle: at most one operation drives the flow and its browser.
SingleOperation ==
    \A t, u \in Tasks : Running(Op(t)) /\ Running(Op(u)) => t = u

\* A flow that has ended, in whatever way, holds no password, authentication
\* state or API key (architecture.md, section 6).
SecretsWiped == Over => flow.secrets = {}

\* A flow reported as done has its account in the vault.
DoneIsStored == flow.status = "done" => row = "complete"

\* A stored account is never lost sight of: cancellations, failures and the
\* shutdown cannot end the flow as anything but done once the completion has
\* committed, and no operation ends in between.
StoredIsReported ==
    row = "complete" =>
        /\ flow.status \in {"fetch_api_key", "done"}
        /\ flow.status = "done" \/ \E t \in Tasks : Running(Op(t))

\* A flow that waits for a human is timed, unless a pause interrupted its wait
\* for the email code: pause() then sets manual_verify itself and starts no timeout.
\* For clients that wait for their answers: of two operations that a double resume
\* started, one may take the other's intervention away and leave without a timeout.
HumanIsTimed ==
    Quiescent /\ At(Closer, "idle") /\ flow.status \in Resumable =>
        TimerRunning \/ (flow.manual = "user_paused" /\ flow.pausedFrom = "github_email_verify")

\* The contexts the flow's sessions know of are closed once it is over and all
\* is quiet: always after an accepted cancel, and otherwise unless a cancel that
\* came too late broke the cleanup off and was then refused.
ResourcesReleased ==
    /\ Over /\ Quiescent /\ (\A r \in Requests : ~(kind[r] = "cancel" /\ At(Request(r), "refused")))
         => contexts \subseteq {"orphan"}
    /\ \A r \in Requests : kind[r] = "cancel" /\ At(Request(r), "accepted")
         => contexts \subseteq {"orphan"}

(***************************************************************************)
(* What a step may never do                                                *)
(***************************************************************************)
\* done, error and cancelled are final, whoever races for the last word.
TerminalIsFinal == [][Over => flow'.status = flow.status]_vars

\* The vault never loses a registered account, nor demotes a completed one.
AccountIsKept ==
    [][/\ row # "absent" => row' # "absent"
       /\ row = "complete" => row' = "complete"]_vars

\* The timeout of a manual intervention never fails a flow while an operation
\* drives it: a resumed flow is out of its reach.
TimeoutSparesWork ==
    [][\A t, u \in Tasks :
          At(Timer(t), "sleep") /\ pc'[Timer(t)] \in Tail => ~Running(Op(u))]_vars

\* The flow implements the lifecycle its user is promised.
Lifecycle ==
    INSTANCE FlowLifecycle WITH
        phase <- IF flow.status \in Terminal THEN flow.status
                 ELSE IF flow.status \in Resumable THEN "waiting" ELSE "working",
        account <- IF row = "absent" THEN "none"
                   ELSE IF row = "complete" THEN "stored" ELSE "pending"

LifecycleSpec == Lifecycle!Spec

(***************************************************************************)
(* Liveness.  Everything a coroutine awaits ends: browser calls and the    *)
(* wait for a code have timeouts, threads run to their end, sleeps expire. *)
(* No client has to send a request and nobody has to shut the service down.*)
(***************************************************************************)
Fairness ==
    /\ \A t \in Tasks : WF_vars(OperationStep(t)) /\ WF_vars(TimeoutStep(t))
    /\ \A t \in Tasks : WF_vars(CompletionStep(t) /\ UNCHANGED service)
    /\ \A r \in Requests : WF_vars(RequestStep(r))
    /\ WF_vars(CloserStep)

FairSpec == Spec /\ Fairness

\* Every request is answered: the tasks it interrupts and reaps do end.
RequestsAnswered == \A r \in Requests : Unanswered(r) ~> ~Unanswered(r)

\* An operation always comes to its end, or to the wait that a pause or a cancel
\* may interrupt: GitHub may ask for codes forever, nothing else holds it.
OperationYields ==
    \A t \in Tasks : Running(Op(t)) ~> ~Running(Op(t)) \/ At(Op(t), "code")

\* A timed flow nobody attends to does not wait for its human forever.
AbandonedFlowEnds ==
    flow.status \in Resumable /\ TimerRunning ~>
        \/ Over
        \/ \E t \in Tasks : Running(Op(t))
        \/ \E r \in Requests : Unanswered(r)
        \/ ~At(Closer, "idle")

\* close() comes to its end, with every context closed and the flow over.
ShutdownCompletes ==
    ~At(Closer, "idle") ~> At(Closer, "done") /\ contexts = {} /\ Over
=============================================================================
