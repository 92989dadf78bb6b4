------------------------------- MODULE Removal -------------------------------
(***************************************************************************)
(* What the removal of an account promises, whatever the order of requests *)
(* and crashes: the intent is on record before GitHub is asked, the local  *)
(* record outlives the account on GitHub, and a deletion that has been     *)
(* verified is finished and never started over or taken back.              *)
(***************************************************************************)
CONSTANT Account

VARIABLES
    stage,    \* "kept", "intended", "verified", "removed"
    asked,    \* accounts whose deletion GitHub has been asked for
    gone      \* accounts that GitHub has deleted

TypeOK ==
    /\ stage \in [Account -> {"kept", "intended", "verified", "removed"}]
    /\ asked \subseteq Account /\ gone \subseteq Account

Init == stage = [a \in Account |-> "kept"] /\ asked = {} /\ gone = {}

Turns(a, from, to) == stage[a] = from /\ stage' = [stage EXCEPT ![a] = to]

Intend(a) == Turns(a, "kept", "intended") /\ UNCHANGED <<asked, gone>>
Withdraw(a) == Turns(a, "intended", "kept") /\ UNCHANGED <<asked, gone>>
Verify(a) == a \in gone /\ Turns(a, "intended", "verified") /\ UNCHANGED <<asked, gone>>
Finish(a) == Turns(a, "verified", "removed") /\ UNCHANGED <<asked, gone>>

Submit(a) ==
    /\ stage[a] = "intended"
    /\ asked' = asked \cup {a}
    /\ UNCHANGED <<stage, gone>>

Delete(a) ==
    /\ a \in asked
    /\ gone' = gone \cup {a}
    /\ UNCHANGED <<stage, asked>>

Next == \E a \in Account : \/ Intend(a) \/ Withdraw(a) \/ Submit(a) \/ Delete(a)
                           \/ Verify(a) \/ Finish(a)

Spec == Init /\ [][Next]_<<stage, asked, gone>>
=============================================================================
