-------------------------- MODULE VaultGuarantees ---------------------------
(***************************************************************************)
(* What the vault guarantees, however many processes open it with whatever *)
(* passwords and wherever they end.                                        *)
(***************************************************************************)
EXTENDS Vault

\* All that is encrypted, the verifier and every field of every row, is encrypted with
\* one and the same key: no race of two first unlocks, no end of a process between salt
\* and verifier, no vault from before the verifier leaves a row nobody can read.
OneKey ==
    /\ verifier # NoKey => verifier.salt = salt
    /\ \A a, b \in Account : \A j \in Stored(a), k \in Stored(b) : j = k
    /\ \A a \in Account : \A k \in Stored(a) : k.salt = salt /\ verifier \in {NoKey, k}

\* Whoever has got in has the key: a process that took the vault for empty, or for its
\* own, does not get in with another password.
OpenMeansKey == \A p \in Process : repo[p] # NoKey => repo[p] = verifier

\* The schema grows by the migrations in their order, none skipped and none twice,
\* although two processes may find the same ones missing.
InOrder == log = Prefix(Len(log)) /\ Len(log) <= LastVersion

\* And nobody reads or writes an account in a schema that is not the last.
LastSchema ==
    \A p \in Process :
        repo[p] # NoKey \/ pc[p] \in {"salt", "verifier", "verify", "validate", "create"}
            => Applied = Version

SchemaSound == InOrder /\ LastSchema

\* An account is in one table: a bundle never brings the unfinished record of an account
\* that is complete here, or the other way round.
OneTable == \A a \in Account : accounts[a] = {} \/ pending[a] = {}

\* What makes the key is fixed by the first unlock that gets through, or even by the
\* salt alone: no later attempt, right or wrong, changes it.
KeyStays == [][/\ salt # None => salt' = salt
               /\ verifier # NoKey => verifier' = verifier]_vars

\* Nobody is locked out: in whatever state a process died or a migration collided, the
\* user who keeps typing the password gets in.
NoLockout == \A p \in Process : []<>(repo[p] # NoKey)
=============================================================================
