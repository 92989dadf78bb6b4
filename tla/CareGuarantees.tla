--------------------------- MODULE CareGuarantees ---------------------------
(***************************************************************************)
(* What removals and quota checks guarantee together.                      *)
(***************************************************************************)
EXTENDS AccountCare

TypeOK == CleanupTypeOK /\ QuotaTypeOK

(***************************************************************************)
(* Safety                                                                  *)
(***************************************************************************)
\* No entry of the configuration files belongs to an account that the vault does not
\* have, whatever fails or crashes between the files and the vault: cleanup.py takes the
\* files first and rolls them back only while the row is there.
NoOrphanEntry == \A a \in config : rows[a].table = "complete"

\* A removal that reports its end has kept it: nothing is left of a removed account
\* anywhere, nothing of the intent of a cancelled one, and no browser.
EndIsTrue ==
    \A a \in Account :
        /\ flow[a].status = "done" => ~Present(rows[a]) /\ a \notin config \cup remote
        /\ flow[a].status = "cancelled" => rows[a].op = None
        /\ flow[a].status \in Ended => ~flow[a].page

\* A quota check and a mark by the user never work on one account at the same time, so
\* no check overwrites a mark it did not see.
OneCheck ==
    \A k, j \in Everyone :
        (k # j /\ target[k] = target[j]) =>
            ~ {qpc[k], qpc[j]} \subseteq {"read", "page", "states", "store", "mark"}

\* The files lose an account only after its deletion on GitHub is on record.
FilesLast ==
    [][\A a \in config \ config' : a \notin remote /\ rows[a].op = "remote_deleted"]_vars

\* Removal is what the whole system does with one account.
Stage(row) ==
    IF ~Present(row) THEN "removed"
    ELSE [none |-> "kept", requested |-> "intended", remote_deleted |-> "verified"][row.op]

Promise == INSTANCE Removal WITH stage <- [a \in Account |-> Stage(rows[a])],
                                 asked <- submitted, gone <- Account \ remote

RemovalPromise == Promise!Spec

\* The part of it that a creation flow still under way can break: GitHub is asked
\* only with the intent on record.
IntentFirst ==
    [][\A a \in submitted' \ submitted : rows[a].op = "requested"]_vars

(***************************************************************************)
(* Liveness                                                                *)
(***************************************************************************)
\* A verified deletion is finished in the vault, through failures and restarts, as
\* long as the user asks again.
VerifiedIsFinished ==
    \A a \in Account : rows[a].op = "remote_deleted" ~> ~Present(rows[a])

\* The scheduler goes on checking: it keeps coming to the end of a sweep.
ChecksGoOn == []<>(qpc[Scheduler] = "sleep")
=============================================================================
