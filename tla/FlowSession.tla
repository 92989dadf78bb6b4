---------------------------- MODULE FlowSession ----------------------------
(***************************************************************************)
(* The data of one account-creation flow: the status machine and the       *)
(* fields of CreateAccountFlow (backend/engine/flow.py), and the pure      *)
(* updates its methods make to them between two awaits.  No variables:     *)
(* CreateFlow holds one such record and runs the coroutines that use it.   *)
(***************************************************************************)

Nothing == "none"   \* Python's None, wherever a field of the flow is optional

Terminal == {"done", "error", "cancelled"}
Resumable == {"manual_verify", "pending_payment"}
Pausable == {"idle", "creating_email", "github_register", "github_email_verify"}
Status == Resumable \cup Pausable \cup Terminal
            \cup {"opencode_login", "fetch_api_key"}

\* CAPTCHA, phone, timeout and unknown blocks are handled alike: "blocked".
Reason == {"blocked", "user_paused", "payment", "api_key_input"}

\* What must not outlive the flow: the generated password, the two captured
\* browser authentication states (captured together) and the API key.
Secret == {"password", "auth", "api_key"}

\* The statuses a pending row may carry in the vault, and the whole life of the
\* flow's account there: no row, a pending row, or promoted to an account.
PendingRow == {"pending_setup", "pending_payment", "cancelled"}
Row == PendingRow \cup {"absent", "complete"}

Flow == [ status : Status,
          manual : Reason \cup {Nothing},       \* manual_intervention.reason
          pausedFrom : Status \cup {Nothing},
          pauseRequested : BOOLEAN,
          waitingForCode : BOOLEAN,
          email : BOOLEAN,                      \* temp_email is set
          account : BOOLEAN,                    \* account_id is set
          secrets : SUBSET Secret ]

FreshFlow == [ status |-> "idle", manual |-> Nothing, pausedFrom |-> Nothing,
               pauseRequested |-> FALSE, waitingForCode |-> FALSE,
               email |-> FALSE, account |-> FALSE, secrets |-> {"password"} ]

\* _ALLOWED_TRANSITIONS
CanGo(from, to) ==
    \/ from = "idle"                /\ to \in {"creating_email", "cancelled"}
    \/ from = "creating_email"      /\ to \in {"github_register", "manual_verify",
                                               "error", "cancelled"}
    \/ from = "github_register"     /\ to \in {"manual_verify", "github_email_verify",
                                               "opencode_login", "error", "cancelled"}
    \/ from = "manual_verify"       /\ to \in {"github_register", "github_email_verify",
                                               "opencode_login", "fetch_api_key",
                                               "error", "cancelled"}
    \/ from = "github_email_verify" /\ to \in {"manual_verify", "opencode_login",
                                               "error", "cancelled"}
    \/ from = "opencode_login"      /\ to \in {"manual_verify", "pending_payment",
                                               "error", "cancelled"}
    \/ from = "pending_payment"     /\ to \in {"fetch_api_key", "error", "cancelled"}
    \/ from = "fetch_api_key"       /\ to \in {"manual_verify", "done",
                                               "error", "cancelled"}

Go(f, s) == [f EXCEPT !.status = s]

\* _pause_at up to its transition to manual_verify
PausedAt(f, resumeStatus) ==
    [f EXCEPT !.pausedFrom = resumeStatus, !.pauseRequested = FALSE,
              !.manual = "user_paused"]

\* a page asks for a human: remember where the flow stood and why it stopped
Blocked(f, reason) == [f EXCEPT !.pausedFrom = f.status, !.manual = reason]

Unblocked(f) == [f EXCEPT !.pausedFrom = Nothing, !.manual = Nothing]

\* _restore_manual_state
Restored(f, target) ==
    IF f.status = "manual_verify" THEN Go(Unblocked(f), target) ELSE f

\* Mutant: the API key is forgotten.
WipedButKey(f) == [f EXCEPT !.secrets = @ \cap {"api_key"}]

Wiped(f) == [f EXCEPT !.secrets = {}]

Remember(f, new) == [f EXCEPT !.secrets = f.secrets \cup new]
=============================================================================
