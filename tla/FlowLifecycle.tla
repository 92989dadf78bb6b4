---------------------------- MODULE FlowLifecycle ----------------------------
(***************************************************************************)
(* What an account-creation flow promises its user, whatever its browsers, *)
(* timers and requests do: it works or waits for a human, it ends at most  *)
(* once, an account it has stored is never reported as failed or cancelled *)
(* and only a stored account is reported as done.                          *)
(***************************************************************************)
VARIABLES
    phase,    \* what the user is shown
    account   \* what the vault holds: nothing, credentials, or the account

Ongoing == {"working", "waiting"}

Init == phase = "working" /\ account = "none"

Wait == phase = "working" /\ phase' = "waiting" /\ UNCHANGED account

Continue == phase = "waiting" /\ phase' = "working" /\ UNCHANGED account

\* The credentials of a registered GitHub account are kept whatever becomes of
\* the flow, even if they reach the vault after its end.
Register ==
    /\ account = "none"
    /\ account' = "pending"
    /\ phase' = phase \/ (phase = "waiting" /\ phase' = "working")

Store ==
    /\ phase = "working" /\ account = "pending"
    /\ account' = "stored"
    /\ UNCHANGED phase

Finish ==
    /\ phase = "working" /\ account = "stored"
    /\ phase' = "done"
    /\ UNCHANGED account

Abandon ==
    /\ phase \in Ongoing /\ account # "stored"
    /\ phase' \in {"error", "cancelled"}
    /\ UNCHANGED account

Next == Wait \/ Continue \/ Register \/ Store \/ Finish \/ Abandon

Spec == Init /\ [][Next]_<<phase, account>>
=============================================================================
