------------------------ MODULE CreateAccountService ------------------------
(***************************************************************************)
(* CreateAccountService (backend/engine/service.py) around one flow: the   *)
(* API requests that resume, pause and cancel it, the timeout of a manual  *)
(* intervention, the shutdown of the application, and the operations of    *)
(* CreateFlow they start and interrupt.  Flows share no state in this      *)
(* service, so one flow shows every behaviour of each.                     *)
(***************************************************************************)
EXTENDS CreateFlow

\* TRUE: a client may send a request while an earlier one is unanswered.  FALSE:
\* it waits for the answer, as the CreateFlow page does (isSubmitting).
CONSTANT Overlap

ASSUME ServiceAssumption == Overlap \in BOOLEAN

VARIABLES
    current,  \* the flow's entry in _tasks
    kind,     \* what each request asks for
    target    \* the task a request awaits in _reap

service == <<current, kind, target>>
vars == <<flowVars, service>>

ResumeKind == {"resume", "resume_key"}   \* without and with an API key
Kind == ResumeKind \cup {"none", "cancel", "pause"}

TypeOK ==
    /\ FlowTypeOK
    /\ current \in Tasks
    /\ kind \in [Requests -> Kind]
    /\ target \in [Requests -> Processes]

Init ==
    /\ FlowInit
    /\ current = Create
    /\ kind = [r \in Requests |-> "none"]
    /\ target = [r \in Requests |-> Op(Create)]

Unanswered(r) == pc[Request(r)] \notin Answer \cup {"idle"}

\* Uvicorn serves no new request once it shuts down.
MayAsk(r) ==
    /\ At(Request(r), "idle")
    /\ At(Closer, "idle")
    /\ Overlap \/ \A q \in Requests : ~Unanswered(q)

Ask(r, k) == MayAsk(r) /\ kind' = [kind EXCEPT ![r] = k]

Reply(r, answer) ==
    /\ pc' = [pc EXCEPT ![Request(r)] = answer]
    /\ UNCHANGED <<flow, onExit, world>>

\* Cancel the tasks P and await one of them at l.
Reap(p, l, P, f) ==
    /\ Interrupt(P, f)
    /\ pc' = [q \in Processes |-> IF q = p     THEN l
                                  ELSE IF q \in P THEN Interrupted(q) ELSE pc[q]]

ReapFor(r, l, awaited, P, f) ==
    /\ Reap(Request(r), l, P, f)
    /\ target' = [target EXCEPT ![r] = awaited]

Reaped(r, l) == At(Request(r), l) /\ ~Running(target[r])
Crashed(r) == At(target[r], "crashed")

(***************************************************************************)
(* _cancel_manual_timeout: the entry is popped at once; a running timeout  *)
(* is interrupted if the flow still needs a human, and awaited.            *)
(***************************************************************************)
\* Mutant: the entry is popped, the task left running.
TimerIgnored == FALSE

TimerRunning == slot # Nothing /\ Running(Timer(slot))

ReapTimer(r) ==
    /\ TimerRunning
    /\ ReapFor(r, "reap_timer", Timer(slot),
               IF flow.manual # Nothing THEN {Timer(slot)} ELSE {}, flow)
    /\ slot' = Nothing
    /\ UNCHANGED current

(***************************************************************************)
(* resume()                                                                *)
(***************************************************************************)
\* Mutant: _ensure_idle lets everything pass.
NeverBusy == FALSE

\* _ensure_idle
Busy == Running(Op(current))

StartTask(r) ==
    /\ current' = r
    /\ pc' = [pc EXCEPT ![Op(r)] = "begin", ![Request(r)] = "accepted"]
    /\ UNCHANGED <<flow, onExit, world>>

AskResume(r) ==
    /\ \E k \in ResumeKind : Ask(r, k)
    /\ \/ /\ flow.status \notin Resumable
          /\ Reply(r, "refused")
          /\ UNCHANGED <<slot, current, target>>
       \/ /\ flow.status \in Resumable /\ Busy
          /\ Reply(r, "busy")
          /\ UNCHANGED <<slot, current, target>>
       \/ /\ flow.status \in Resumable /\ ~Busy
          /\ \/ ReapTimer(r)
             \/ /\ ~TimerRunning
                /\ StartTask(r)
                /\ slot' = Nothing
                /\ UNCHANGED target

ResumeReaped(r) ==
    /\ kind[r] \in ResumeKind
    /\ Reaped(r, "reap_timer")
    /\ IF Crashed(r) \/ flow.status \notin Resumable
         THEN /\ Reply(r, IF Crashed(r) THEN "failed" ELSE "refused")
              /\ UNCHANGED current
         ELSE StartTask(r)
    /\ UNCHANGED <<slot, kind, target>>

(***************************************************************************)
(* flow.cancel(), run by a cancel request or by the shutdown               *)
(***************************************************************************)
Cannot(p) == IF p = Closer THEN "browsers" ELSE "refused"

\* Mutant: the transition is not checked.
CancelAnyway(p, f) ==
    /\ flow' = Go(Wiped(f), "cancelled")
    /\ pc' = [pc EXCEPT ![p] = FirstRelease(f)]

CancelNow(p, f) ==
    /\ flow' = IF CanGo(f.status, "cancelled") THEN Go(Wiped(f), "cancelled") ELSE Wiped(f)
    /\ pc' = [pc EXCEPT ![p] =
                 IF CanGo(f.status, "cancelled") THEN FirstRelease(f) ELSE Cannot(p)]

CancelFlow(p) ==
    LET f == [flow EXCEPT !.pauseRequested = FALSE]
    IN  /\ IF f.account THEN flow' = f /\ pc' = [pc EXCEPT ![p] = "cancel_mark"]
                        ELSE CancelNow(p, f)
        /\ UNCHANGED <<onExit, world>>

CancelMarked(p) ==
    /\ At(p, "cancel_mark")
    /\ CancelNow(p, flow)
    /\ row' \in {row, Marked("cancelled")}
    /\ UNCHANGED <<onExit, slot, attempt, contexts, shots, completion, stray>>

(***************************************************************************)
(* cancel()                                                                *)
(***************************************************************************)
CancelTask(r) ==
    /\ IF Running(Op(current))
         THEN ReapFor(r, "reap_task", Op(current), {Op(current)}, flow)
         ELSE CancelFlow(Request(r)) /\ UNCHANGED target
    /\ UNCHANGED current

AskCancel(r) ==
    /\ Ask(r, "cancel")
    /\ \/ ReapTimer(r)
       \/ ~TimerRunning /\ CancelTask(r) /\ slot' = Nothing

CancelReapedTimer(r) ==
    /\ kind[r] = "cancel"
    /\ Reaped(r, "reap_timer")
    /\ IF Crashed(r) THEN Reply(r, "failed") /\ UNCHANGED <<current, target>>
                     ELSE CancelTask(r)
    /\ UNCHANGED <<slot, kind>>

CancelReapedTask(r) ==
    /\ Reaped(r, "reap_task")
    /\ IF Crashed(r) THEN Reply(r, "failed") ELSE CancelFlow(Request(r))
    /\ UNCHANGED <<slot, service>>

(***************************************************************************)
(* pause(): only the wait for the email code is interrupted; any other     *)
(* step sees the request at its next pause point.                          *)
(***************************************************************************)
CanInterruptForPause == flow.status = "github_email_verify" /\ flow.waitingForCode

PauseAfterInterruption(r, f) ==
    /\ flow' = Go(PausedAt(f, "github_email_verify"), "manual_verify")
    /\ pc' = [pc EXCEPT ![Request(r)] = "accepted"]
    /\ UNCHANGED <<onExit, world>>

AskPause(r) ==
    LET f == [flow EXCEPT !.pauseRequested = TRUE]
    IN  /\ Ask(r, "pause")
        /\ \/ /\ flow.status \notin Pausable
              /\ Reply(r, "refused")
              /\ UNCHANGED target
           \/ /\ flow.status \in Pausable /\ ~CanInterruptForPause
              /\ flow' = f
              /\ pc' = [pc EXCEPT ![Request(r)] = "accepted"]
              /\ UNCHANGED <<onExit, world, target>>
           \/ /\ CanInterruptForPause
              /\ IF Running(Op(current))
                   THEN ReapFor(r, "reap_pause", Op(current), {Op(current)}, f)
                   ELSE PauseAfterInterruption(r, f) /\ UNCHANGED target
        /\ UNCHANGED <<slot, current>>

PauseReaped(r) ==
    /\ Reaped(r, "reap_pause")
    /\ IF Crashed(r) THEN Reply(r, "failed")
       ELSE IF flow.status = "github_email_verify" THEN PauseAfterInterruption(r, flow)
       ELSE Reply(r, "accepted")
    /\ UNCHANGED <<slot, service>>

(***************************************************************************)
(* close(): interrupt everything at once, await it in turn, cancel the     *)
(* flow if it has not ended, then close the shared browsers.               *)
(***************************************************************************)
ShutDown ==
    /\ At(Closer, "idle")
    /\ \A r \in Requests : ~Unanswered(r)
    /\ Reap(Closer, "reap_task",
            {Op(current)} \cup {Timer(t) : t \in {slot} \cap Tasks}, flow)
    /\ UNCHANGED <<slot, service>>

CloserGoto(l) ==
    /\ pc' = [pc EXCEPT ![Closer] = l]
    /\ UNCHANGED <<flow, onExit, world>>

CloserReapedTask ==
    /\ At(Closer, "reap_task")
    /\ ~Running(Op(current))
    /\ CloserGoto(IF At(Op(current), "crashed") THEN "crashed" ELSE "reap_timer")
    /\ UNCHANGED <<slot, service>>

\* Mutant: the flow is left as the interruption found it.
CloserForgetsFlow ==
    /\ At(Closer, "reap_timer")
    /\ ~TimerRunning
    /\ CloserGoto(IF slot # Nothing /\ At(Timer(slot), "crashed") THEN "crashed"
                                                               ELSE "browsers")
    /\ UNCHANGED <<slot, service>>

CloserReapedTimer ==
    /\ At(Closer, "reap_timer")
    /\ ~TimerRunning
    /\ IF slot # Nothing /\ At(Timer(slot), "crashed") THEN CloserGoto("crashed")
       ELSE IF flow.status \in Terminal THEN CloserGoto("browsers")
       ELSE CancelFlow(Closer)
    /\ UNCHANGED <<slot, service>>

CloseBrowsers ==
    /\ At(Closer, "browsers")
    /\ Goto(Closer, "done", flow)
    /\ contexts' = {}
    /\ UNCHANGED <<attempt, shots, row, completion, stray, service>>

(***************************************************************************)
(* The specification                                                       *)
(***************************************************************************)
OperationStep(t) ==
    /\ OpStep(t) \/ Resume(t, t \in Requests /\ kind[t] = "resume_key")
    /\ UNCHANGED service

TimeoutStep(t) == TimerStep(t) /\ UNCHANGED service

RequestStep(r) ==
    \/ ResumeReaped(r) \/ CancelReapedTimer(r) \/ CancelReapedTask(r) \/ PauseReaped(r)
    \/ (CancelMarked(Request(r)) \/ TailStep(Request(r))) /\ UNCHANGED service

CloserStep ==
    \/ CloserReapedTask \/ CloserReapedTimer \/ CloseBrowsers
    \/ (CancelMarked(Closer) \/ TailStep(Closer)) /\ UNCHANGED service

BackgroundStep ==
    /\ (\E t \in Tasks : CompletionStep(t)) \/ (\E job \in stray : Land(job))
    /\ UNCHANGED service

Next ==
    \/ \E t \in Tasks : OperationStep(t) \/ TimeoutStep(t)
    \/ \E r \in Requests : AskResume(r) \/ AskCancel(r) \/ AskPause(r) \/ RequestStep(r)
    \/ ShutDown
    \/ CloserStep
    \/ BackgroundStep

Spec == Init /\ [][Next]_vars
=============================================================================
