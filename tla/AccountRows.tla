---------------------------- MODULE AccountRows ----------------------------
(***************************************************************************)
(* One account's rows in the vault (backend/storage/repositories.py): its  *)
(* row in accounts or pending_accounts and its row in the table of cleanup *)
(* operations that belongs to it, and what each transaction makes of them. *)
(* No variables.  Provider names are PoolFiles' business, the figures of a *)
(* quota nobody's.                                                         *)
(***************************************************************************)

None == "none"

\* A pending row's own statuses are told apart by FlowSession.
Status == {"active", "exhausted", "invalid", "pending"}

Row == [ table : {None, "pending", "complete"},
         status : Status,
         auth : BOOLEAN,                       \* both authentication states are set
         op : {None, "requested", "remote_deleted"} ]

NoRow == [table |-> None, status |-> "pending", auth |-> FALSE, op |-> None]

\* A complete account has one of the statuses of its own table.
ValidRow == {row \in Row : row.table = "complete" => row.status # "pending"}

PendingRow(auth) == [NoRow EXCEPT !.table = "pending", !.auth = auth]
CompleteRow(auth) == [NoRow EXCEPT !.table = "complete", !.status = "active", !.auth = auth]

Present(row) == row.table # None

(***************************************************************************)
(* Transactions.  Each returns the rows it leaves; what refuses it is a    *)
(* guard where it is used.                                                 *)
(***************************************************************************)
\* Mutant: a retry starts over.
BegunAgain(row) == [row EXCEPT !.op = "requested"]

\* begin_cleanup: an operation that exists keeps its state.
Begun(row) == IF row.op = None THEN [row EXCEPT !.op = "requested"] ELSE row

MarkedDeleted(row) == [row EXCEPT !.op = "remote_deleted"]

\* cancel_cleanup: a verified deletion cannot be cancelled.
Cancelled(row) == IF row.op = "requested" THEN [row EXCEPT !.op = None] ELSE row

\* Mutant: the row is moved as it is.
PromotedAsIs(row) == [row EXCEPT !.table = "complete"]

\* complete_pending: the cleanup operation of a pending row goes with that row
\* (ON DELETE CASCADE).
Promoted(row) == CompleteRow(row.auth)

WithStatus(row, status) == [row EXCEPT !.status = status]

\* update_quota or clear_quota: the status a check has found; the snapshot of the
\* usage goes with it.
WithQuota(row, found) ==
    WithStatus(row, IF found = "unsubscribed" THEN "invalid" ELSE found)
=============================================================================
