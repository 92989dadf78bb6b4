--------------------------- MODULE PoolGuarantees ---------------------------
(***************************************************************************)
(* What the account pool guarantees, and to which conduct of its users.    *)
(***************************************************************************)
EXTENDS AccountPool

\* No call is at work on the pool.
Still == \A j \in Job : job[j].pc \in {"idle", "lock", "remote"}

\* The providers under which the files carry the key of account a.
Carried(a) ==
    { n \in Provider : files["auth"].entries[n] = a \/ files["opencode"].entries[n] = a }

\* The providers that the vault has marked as configured for it.
Due(a) == { vault[i].provider : i \in {k \in DOMAIN vault : vault[k].account = a /\ vault[k].oc} }

\* Between calls, the files carry the key of every account the vault has marked as
\* configured, under its provider, and no other account's: a failed call has left
\* nothing behind and a removal has taken everything along.
InStep == Still => \A a \in Account : Carried(a) = Due(a)

\* The numbers of accounts that wait for their configuration lie above all numbers
\* in use: what the vault has reserved is never given to another account.
WaitingAbove ==
    Still => \A i, k \in DOMAIN vault :
                ~vault[i].oc /\ vault[k].oc => vault[i].provider = Primary
                                               \/ vault[k].provider < vault[i].provider

\* Who may change or take away the key of `who`: a removal, if it is the key of the
\* account it removes or promotes, and a call that undoes what it has written.
Entitled(j, who) ==
    \/ job[j].op = "remove" /\ who \in {job[j].row.account, job[j].promoted}
    \/ job[j].pc = "undo"

\* No other call changes a key that is in the files: neither accounts nor the user's own
\* configuration are overwritten, be it for a moment.
KeysKept ==
    [][\A f \in {"auth", "opencode"} : \A n \in Names(files[f]) :
          \/ files'[f].entries[n] = files[f].entries[n]
          \/ \E j \in Job : Entitled(j, files[f].entries[n])]_files
=============================================================================
