----------------------------- MODULE AccountCare -----------------------------
(***************************************************************************)
(* What happens to accounts once they are stored: removals and quota       *)
(* checks in one process (main.py gives the cleanup service the quota      *)
(* service's close_account_session), creation flows that may still promote *)
(* an account, GitHub, and the process itself, which may end at any point  *)
(* and is started and unlocked again.                                      *)
(***************************************************************************)
EXTENDS QuotaCheck

vars == <<cleanupVars, quotaVars>>

Init == CleanupInit /\ QuotaInit

\* Its master password opens the vault.
Unlock ==
    /\ ~unlocked /\ unlocked' = TRUE
    /\ UNCHANGED <<durable, world, flow, lock, calls, trouble, check, quotaVars>>

\* The creation flow of a stored account comes to its end: complete_pending after the
\* files (AccountPool takes these apart), or nothing.
FlowEnds(a) ==
    /\ a \in building /\ unlocked
    /\ building' = building \ {a}
    /\ \/ /\ rows[a].table = "pending"
          /\ Vault(a, Promoted(rows[a])) /\ config' = config \cup {a}
       \/ UNCHANGED <<rows, config>>
    /\ UNCHANGED <<remote, submitted, process, calls, trouble, check, quotaVars>>

\* The process ends and is started again: flows, locks, requests and the scheduler
\* are gone, the vault and the files are as they were.
Restart ==
    /\ Fails
    /\ building' = {} /\ unlocked' = FALSE
    /\ flow' = [a \in Account |-> NoFlow]
    /\ lock' = [a \in Account |-> None]
    /\ check' = [a \in Account |-> None]
    /\ pc' = [c \in Call |-> "idle"] /\ asks' = [c \in Call |-> "start"]
    /\ seen' = [c \in Call |-> NoRow]
    /\ qpc' = [k \in Everyone |-> IF k = Scheduler THEN "list" ELSE "idle"]
    /\ job' = [k \in Everyone |-> IF k = Scheduler THEN "all" ELSE "one"]
    /\ left' = [k \in Everyone |-> {}]
    /\ found' = [k \in Everyone |-> None]
    /\ UNCHANGED <<durable, remote, submitted, on, target>>

\* Requests are served, the scheduler works, GitHub acts.
Removing ==
    \/ \E c \in Call, a \in Account, op \in {"start", "resume", "cancel"} : Request(c, a, op)
    \/ \E c \in Call : CleanupStep(c)
    \/ \E a \in Account : GithubDeletes(a)

Checking ==
    \/ \E k \in Checker, a \in Account, what \in {"one", "all", "mark"} : Ask(k, a, what)
    \/ \E k \in Everyone : CheckStep(k)
    \/ Wake

Next ==
    \/ Removing /\ UNCHANGED quotaVars
    \/ Checking
    \/ Unlock \/ Restart
    \/ \E a \in Account : FlowEnds(a)

Spec == Init /\ [][Next]_vars

(***************************************************************************)
(* Fairness: the event loop runs every task that can go on; an asyncio.Lock*)
(* serves its waiters in turn, so a task that waits for one gets it; the   *)
(* user unlocks the vault and goes on asking for a removal that failed.    *)
(***************************************************************************)
Persistent(a) == SF_vars((\E c \in Call : Request(c, a, "start")) /\ UNCHANGED quotaVars)

FairSpec ==
    /\ Spec
    /\ WF_vars(Unlock)
    /\ \A c \in Call :
          /\ WF_vars(CleanupStep(c) /\ UNCHANGED quotaVars)
          /\ SF_vars(Acquire(c) /\ UNCHANGED quotaVars)
          /\ SF_vars(CrossBoundary(c) /\ UNCHANGED quotaVars)
    /\ \A k \in Everyone : WF_vars(CheckStep(k)) /\ SF_vars(LockAccount(k))
    /\ WF_vars(Wake)
    /\ \A a \in Account : Persistent(a)
=============================================================================
