----------------------------- MODULE CareProofs -----------------------------
(***************************************************************************)
(* Proofs, for any accounts, calls and checkers and any number of failures *)
(* and restarts, of what AccountCleanup and QuotaCheck guarantee together. *)
(*                                                                         *)
(* CallOK says what a request may rely on at the await it is parked at,    *)
(* AccountOK what is true of an account between requests.  Both survive    *)
(* the steps of other requests because whoever has got past the lock holds *)
(* it, so a step changes one account only (Elsewhere).  Quota checks share *)
(* the vault but not that lock: they leave alone what the two speak about  *)
(* (ChecksApart).                                                          *)
(***************************************************************************)
EXTENDS CareGuarantees, TLAPS

USE DEF None

(***************************************************************************)
(* The inductive invariant                                                 *)
(***************************************************************************)
\* The call works on its account: it has the lock.
Holding(c) == pc[c] \notin {"idle", "lock"}

CallOK(c) ==
    LET a == on[c] IN
    /\ Holding(c) => lock[a] = c
    /\ seen[c].table = "complete" => /\ pc[c] \in {"boundary", "begin"} /\ asks[c] = "start"
                                     /\ rows[a].table = "complete"
    /\ pc[c] \in {"list", "unconfigure", "delete", "rollback"} =>
          rows[a].table = "complete" /\ rows[a].op = "remote_deleted"
    /\ pc[c] \in {"mark", "drop", "close"} => a \notin remote
    /\ At(c, "begin") \/ (At(c, "boundary") /\ asks[c] = "start") => seen[c].table # None
    /\ At(c, "read") => asks[c] = "start"
    /\ At(c, "delete") => a \notin config
    /\ At(c, "close") => ~Present(rows[a])
    /\ pc[c] \in {"page", "inspect", "verify", "mark", "invalidate", "cancel"} => Cancellable(a)
    /\ At(c, "cancel_close") => rows[a].op = None
    /\ ~Concurrent => /\ ~At(c, "idle") => a \notin building
                      /\ At(c, "drop") => rows[a].op = "remote_deleted"

HeldAt(a, l) == lock[a] \in Call /\ pc[lock[a]] = l /\ on[lock[a]] = a

AccountOK(a) ==
    /\ flow[a].known = "complete" => rows[a].table = "complete" \/ HeldAt(a, "close")
    /\ rows[a].op # None => Present(rows[a])
    /\ rows[a].op = "remote_deleted" => a \notin remote
    /\ Cancellable(a) => rows[a].op # "remote_deleted" /\ flow[a].known # None
    /\ a \in config => rows[a].table = "complete"
    /\ flow[a].status = "done" => ~Present(rows[a]) /\ a \notin config \cup remote
    /\ flow[a].status = "cancelled" => rows[a].op = None
    /\ flow[a].status \in Ended => ~flow[a].page
    /\ ~Concurrent => /\ a \in building => rows[a].op = None
                      /\ Cancellable(a) => rows[a].op = "requested" \/ HeldAt(a, "cancel_close")

RemovalInv == (\A c \in Call : CallOK(c)) /\ (\A a \in Account : AccountOK(a))

\* Checks: what they store, and the lock they store it under.
FoundOut ==
    \A k \in Everyone : Waits(k, "store") => found[k] \in {"active", "exhausted", "unsubscribed"}
UnderCheck(k) == qpc[k] \in {"read", "page", "states", "store", "mark"}
CheckInv == FoundOut /\ \A k \in Everyone : UnderCheck(k) => check[target[k]] = k

IInv == TypeOK /\ RemovalInv /\ CheckInv

(***************************************************************************)
(* Types                                                                   *)
(***************************************************************************)
LEMMA NoRowType == NoRow \in ValidRow /\ NoRow \in Row
  BY DEF NoRow, ValidRow, Row, Status

\* Every transaction leaves a valid row.
LEMMA RowTypes ==
    ASSUME NEW row \in ValidRow
    PROVE  /\ Begun(row) \in ValidRow /\ MarkedDeleted(row) \in ValidRow
           /\ Cancelled(row) \in ValidRow /\ Promoted(row) \in ValidRow
           /\ WithStatus(row, "invalid") \in ValidRow /\ WithStatus(row, "exhausted") \in ValidRow
           /\ [row EXCEPT !.auth = TRUE] \in ValidRow
           /\ \A f \in {"active", "exhausted", "unsubscribed"} : WithQuota(row, f) \in ValidRow
  BY DEF ValidRow, Row, Status, Begun, MarkedDeleted, Cancelled, Promoted, CompleteRow, NoRow,
         WithStatus, WithQuota

\* A request that comes in keeps the types.
LEMMA RequestType ==
    ASSUME TypeOK, NEW c \in Call, NEW a \in Account, NEW op \in {"start", "resume", "cancel"},
           Request(c, a, op)
    PROVE  CleanupTypeOK'
  BY DEF TypeOK, CleanupTypeOK, Request, At, Label, durable, world, process

\* So does every step of a request; none takes the lock of the quota service.
LEMMA CleanupStepType ==
    ASSUME TypeOK, NEW c \in Call, CleanupStep(c)
    PROVE  CleanupTypeOK' /\ check' = check
<1> USE NoRowType, CleanupAssumption
    DEF TypeOK, CleanupTypeOK, At, Label, durable, world, process, calls, Go, Goto, End, Answer,
        Release, Set, Fails
<1>0. rows[on[c]] \in ValidRow
  OBVIOUS
<1>1. CASE Acquire(c)
  BY <1>1 DEF Acquire
<1>2. CASE ReadAccount(c)
  BY <1>2 DEF ReadAccount, ValidRow
<1>3. CASE CrossBoundary(c)
  BY <1>3 DEF CrossBoundary
<1>4. CASE Begin(c)
  <2>1. Begun(rows[on[c]]) \in ValidRow
    BY <1>0, RowTypes
  <2>2. rows' \in [Account -> ValidRow]
    BY <1>4, <2>1 DEF Begin
  <2>3. LocalCleanup(seen[c].table) \in {"drop", "list"}
    BY DEF LocalCleanup
  <2>6. \A s \in {"starting", "local_cleanup"} :
           [status |-> s, known |-> seen[c].table, page |-> FALSE] \in Flow
    BY DEF Flow, Row
  <2>4. flow' \in [Account -> Flow]
    <3>1. CASE ~Present(rows[on[c]])
      BY <1>4, <3>1 DEF Begin
    <3>2. CASE Present(rows[on[c]])
      <4>1. PICK s \in {"starting", "local_cleanup"} :
               flow' = [flow EXCEPT ![on[c]] =
                           [status |-> s, known |-> seen[c].table, page |-> FALSE]]
        BY <1>4, <3>2 DEF Begin
      <4> QED
        BY <4>1, <2>6
    <3> QED
      BY <3>1, <3>2
  <2>5. /\ pc' \in [Call -> Label] /\ lock' \in [Account -> Call \cup {None}]
        /\ seen' \in [Call -> Row]
    BY <1>4, <2>3 DEF Begin
  <2> QED
    BY <1>4, <2>2, <2>4, <2>5 DEF Begin
<1>5. CASE BrowserMissing(c)
  BY <1>5 DEF BrowserMissing
<1>6. CASE Submit(c)
  BY <1>6 DEF Submit, Flow
<1>7. CASE Deleted(c)
  BY <1>7 DEF Deleted
<1>8. CASE NeedsHuman(c)
  BY <1>8 DEF NeedsHuman, Flow
<1>9. CASE PageFails(c)
  BY <1>9 DEF PageFails, Flow
<1>10. CASE PasswordRefused(c)
  BY <1>10 DEF PasswordRefused
<1>11. CASE Invalidate(c)
  <2>1. WithStatus(rows[on[c]], "invalid") \in ValidRow
    BY <1>0, RowTypes
  <2>2. rows' \in [Account -> ValidRow]
    BY <1>11, <2>1 DEF Invalidate
  <2> QED
    BY <1>11, <2>2 DEF Invalidate
<1>12. CASE Mark(c)
  <2>1. MarkedDeleted(rows[on[c]]) \in ValidRow
    BY <1>0, RowTypes
  <2>2. rows' \in [Account -> ValidRow]
    BY <1>12, <2>1 DEF Mark
  <2>3. LocalCleanup(flow[on[c]].known) \in {"drop", "list"}
    BY DEF LocalCleanup
  <2>4. flow' \in [Account -> Flow]
    BY <1>12 DEF Mark, Flow
  <2>5. /\ pc' \in [Call -> Label] /\ lock' \in [Account -> Call \cup {None}]
        /\ seen' \in [Call -> Row]
    BY <1>12, <2>3 DEF Mark
  <2> QED
    BY <1>12, <2>2, <2>4, <2>5 DEF Mark
<1>13. CASE MarkFails(c)
  BY <1>13 DEF MarkFails
<1>14. CASE DropPending(c)
  <2>2. rows' \in [Account -> ValidRow]
    BY <1>14 DEF DropPending
  <2> QED
    BY <1>14, <2>2 DEF DropPending
<1>15. CASE ListAccounts(c)
  BY <1>15 DEF ListAccounts
<1>16. CASE Unconfigure(c)
  BY <1>16 DEF Unconfigure
<1>17. CASE Delete(c)
  <2>2. rows' \in [Account -> ValidRow]
    BY <1>17 DEF Delete
  <2> QED
    BY <1>17, <2>2 DEF Delete
<1>18. CASE Rollback(c)
  BY <1>18 DEF Rollback
<1>19. CASE Close(c)
  BY <1>19 DEF Close, Over, Flow, Ended
<1>20. CASE Fail(c)
  BY <1>20 DEF Fail, Over, Flow, Ended
<1>21. CASE CancelIntent(c)
  <2>1. Cancelled(rows[on[c]]) \in ValidRow
    BY <1>0, RowTypes
  <2>2. rows' \in [Account -> ValidRow]
    BY <1>21, <2>1 DEF CancelIntent
  <2> QED
    BY <1>21, <2>2 DEF CancelIntent
<1>22. CASE CancelClose(c)
  BY <1>22 DEF CancelClose, Over, Flow, Ended
<1> QED
  BY <1>1, <1>2, <1>3, <1>4, <1>5, <1>6, <1>7, <1>8, <1>9, <1>10, <1>11, <1>12, <1>13, <1>14,
     <1>15, <1>16, <1>17, <1>18, <1>19, <1>20, <1>21, <1>22 DEF CleanupStep

\* What a check does to the vault leaves the rows typed, and everything else alone.
LEMMA CheckStepType ==
    ASSUME TypeOK, FoundOut, NEW k \in Everyone, CheckStep(k)
    PROVE  TypeOK'
<1> USE NoRowType, CheckerAssumption
    DEF TypeOK, QuotaTypeOK, Waits, Turn, Stop, Leave, Goes, Raises, Found, elsewhere, durable,
        world, process, calls, Fails
<1>0. rows[target[k]] \in ValidRow /\ target[k] \in Account
  BY DEF CleanupTypeOK
<1>a. /\ UNCHANGED <<config, world, process, calls>>
      /\ rows' \in [Account -> ValidRow] /\ trouble' \in 0 .. MaxTrouble
      /\ check' \in [Account -> Everyone \cup {None}]
      => CleanupTypeOK'
  BY DEF CleanupTypeOK
<1>b. /\ check \in [Account -> Everyone \cup {None}] /\ rows \in [Account -> ValidRow]
      /\ trouble \in 0 .. MaxTrouble
  BY DEF CleanupTypeOK
<1>1. CASE ListAll(k)
  BY <1>1, <1>a, <1>b, CleanupAssumption DEF ListAll
<1>2. CASE CheckNext(k)
  BY <1>2, <1>a, <1>b, CleanupAssumption DEF CheckNext
<1>3. CASE LockAccount(k)
  BY <1>3, <1>a, <1>b, CleanupAssumption DEF LockAccount
<1>4. CASE ReadForCheck(k)
  BY <1>4, <1>a, <1>b, CleanupAssumption DEF ReadForCheck
<1>5. CASE ReadDashboard(k)
  BY <1>5, <1>a, <1>b, CleanupAssumption DEF ReadDashboard
<1>6. CASE DashboardMissing(k)
  BY <1>6, <1>a, <1>b, CleanupAssumption DEF DashboardMissing
<1>7. CASE StoreStates(k)
  <2>0. [rows[target[k]] EXCEPT !.auth = TRUE] \in ValidRow
    BY <1>0, RowTypes
  <2>1. rows' \in [Account -> ValidRow]
    BY <1>7, <2>0, <1>b DEF StoreStates, Vault
  <2> QED
    BY <1>7, <1>a, <1>b, <2>1 DEF StoreStates
<1>8. CASE Store(k)
  <2>1. rows' \in [Account -> ValidRow]
    <3>1. found[k] \in {"active", "exhausted", "unsubscribed"}
      BY <1>8 DEF Store, FoundOut
    <3>2. WithQuota(rows[target[k]], found[k]) \in ValidRow
      BY <1>0, <3>1, RowTypes
    <3> QED
      BY <1>8, <3>2, <1>b DEF Store, Vault
  <2> QED
    BY <1>8, <1>a, <1>b, <2>1 DEF Store
<1>9. CASE MarkExhausted(k)
  <2>0. WithStatus(rows[target[k]], "exhausted") \in ValidRow
    BY <1>0, RowTypes
  <2>1. rows' \in [Account -> ValidRow]
    BY <1>9, <2>0, <1>b DEF MarkExhausted, Vault
  <2> QED
    BY <1>9, <1>a, <1>b, <2>1 DEF MarkExhausted
<1> QED
  BY <1>1, <1>2, <1>3, <1>4, <1>5, <1>6, <1>7, <1>8, <1>9 DEF CheckStep

(***************************************************************************)
(* Removals                                                                *)
(***************************************************************************)
\* A step of c concerns c and its account only.
Local(c) ==
    LET a == on[c] IN
    /\ on' = on /\ remote' = remote /\ building' = building
    /\ \A d \in Call \ {c} : pc'[d] = pc[d] /\ asks'[d] = asks[d] /\ seen'[d] = seen[d]
    /\ \A b \in Account \ {a} : /\ rows'[b] = rows[b] /\ flow'[b] = flow[b] /\ lock'[b] = lock[b]
                                /\ b \in config' <=> b \in config

\* A step of one request that keeps to its account, and leaves that account in order,
\* leaves every other request and account in order too.
LEMMA Elsewhere ==
    ASSUME TypeOK, RemovalInv, NEW c \in Call, lock[on[c]] \in {None, c}, Local(c),
           CallOK(c)', AccountOK(on[c])'
    PROVE  RemovalInv'
<1> USE CleanupAssumption DEF TypeOK, CleanupTypeOK
<1>1. ASSUME NEW d \in Call \ {c} PROVE CallOK(d)'
  <2>1. CASE on[d] = on[c]
    <3>1. ~Holding(d)
      BY <2>1 DEF RemovalInv, CallOK
    <3> QED
      BY <2>1, <3>1 DEF RemovalInv, CallOK, Holding, Local, At
  <2>2. CASE on[d] # on[c]
    BY <2>2 DEF RemovalInv, CallOK, Holding, Local, At, Cancellable, Present
  <2> QED
    BY <2>1, <2>2
<1>2. ASSUME NEW b \in Account \ {on[c]} PROVE AccountOK(b)'
  <2>1. HeldAt(b, "close") => HeldAt(b, "close")'
    BY DEF Local, HeldAt
  <2>2. HeldAt(b, "cancel_close") => HeldAt(b, "cancel_close")'
    BY DEF Local, HeldAt
  <2> QED
    BY <2>1, <2>2 DEF RemovalInv, AccountOK, Local, Cancellable, Present
<1> QED
  BY <1>1, <1>2 DEF RemovalInv, Local

\* Every step of a request is such a step.
LEMMA CallStep ==
    ASSUME TypeOK, RemovalInv, NEW c \in Call, CleanupStep(c)
    PROVE  RemovalInv'
<1> DEFINE a == on[c]
<1> USE NoRowType, CleanupAssumption DEF TypeOK, CleanupTypeOK
<1>0. a \in Account /\ CallOK(c) /\ AccountOK(a)
  BY DEF RemovalInv
<1>z. SUFFICES lock[a] \in {None, c} /\ Local(c) /\ CallOK(c)' /\ AccountOK(a)'
  BY Elsewhere
<1> USE DEF At, durable, world, process, calls, Go, Goto, End, Answer, Release, Set, Fails
<1>1. CASE Acquire(c)
  <2>1. lock[a] \in {None, c} /\ Local(c)
    BY <1>0, <1>1 DEF Acquire, Local
  <2>2. CallOK(c)'
    BY <1>0, <1>1 DEF Acquire, CallOK, Holding, Cancellable, NoRow
  <2>3. AccountOK(a)'
    BY <1>0, <1>1 DEF Acquire, AccountOK, HeldAt, Cancellable
  <2> QED
    BY <2>1, <2>2, <2>3
<1>2. CASE ReadAccount(c)
  <2>1. lock[a] \in {None, c} /\ Local(c)
    BY <1>0, <1>2 DEF ReadAccount, Local, CallOK, Holding
  <2>2. CallOK(c)'
    BY <1>0, <1>2 DEF ReadAccount, Present, CallOK, Holding, NoRow
  <2>3. AccountOK(a)'
    BY <1>0, <1>2 DEF ReadAccount, CallOK, AccountOK, HeldAt, Holding, Cancellable
  <2> QED
    BY <2>1, <2>2, <2>3
<1>3. CASE CrossBoundary(c)
  <2>1. lock[a] \in {None, c} /\ Local(c)
    BY <1>0, <1>3 DEF CrossBoundary, Local, CallOK, Holding
  <2>2. CallOK(c)'
    BY <1>0, <1>3 DEF CrossBoundary, CallOK, Holding, Cancellable, NoRow
  <2>3. AccountOK(a)'
    BY <1>0, <1>3 DEF CrossBoundary, CallOK, AccountOK, HeldAt, Holding, Cancellable
  <2> QED
    BY <2>1, <2>2, <2>3
<1>4. CASE Begin(c)
  <2>1. lock[a] \in {None, c} /\ Local(c)
    BY <1>0, <1>4 DEF Begin, Begun, Local, CallOK, Holding
  <2>2. CallOK(c)'
    BY <1>0, <1>4 DEF Begin, Begun, LocalCleanup, Row, NoRow, CallOK, AccountOK, Holding,
       Cancellable, ValidRow
  <2>3. AccountOK(a)'
    BY <1>0, <1>4
       DEF Begin, Present, Begun, Row, CallOK, AccountOK, HeldAt, Holding, Cancellable, ValidRow
  <2> QED
    BY <2>1, <2>2, <2>3
<1>5. CASE BrowserMissing(c)
  <2>1. lock[a] \in {None, c} /\ Local(c)
    BY <1>0, <1>5 DEF BrowserMissing, Local, CallOK, Holding
  <2>2. CallOK(c)'
    BY <1>0, <1>5 DEF BrowserMissing, CallOK, Holding, NoRow
  <2>3. AccountOK(a)'
    BY <1>0, <1>5 DEF BrowserMissing, CallOK, AccountOK, HeldAt, Holding
  <2> QED
    BY <2>1, <2>2, <2>3
<1>6. CASE Submit(c)
  <2>1. lock[a] \in {None, c} /\ Local(c)
    BY <1>0, <1>6 DEF Submit, Local, CallOK, Holding
  <2>2. CallOK(c)'
    BY <1>0, <1>6 DEF Submit, CallOK, Holding, Cancellable
  <2>3. AccountOK(a)'
    BY <1>0, <1>6 DEF Submit, CallOK, AccountOK, HeldAt, Cancellable, Ended
  <2> QED
    BY <2>1, <2>2, <2>3
<1>7. CASE Deleted(c)
  <2>1. lock[a] \in {None, c} /\ Local(c)
    BY <1>0, <1>7 DEF Deleted, Local, CallOK, Holding
  <2>2. CallOK(c)'
    BY <1>0, <1>7 DEF Deleted, CallOK, Holding, Cancellable
  <2>3. AccountOK(a)'
    BY <1>0, <1>7 DEF Deleted, CallOK, AccountOK, HeldAt
  <2> QED
    BY <2>1, <2>2, <2>3
<1>8. CASE NeedsHuman(c)
  <2>1. lock[a] \in {None, c} /\ Local(c)
    BY <1>0, <1>8 DEF NeedsHuman, Local, CallOK, Holding
  <2>2. CallOK(c)'
    BY <1>0, <1>8 DEF NeedsHuman, CallOK, Holding, NoRow
  <2>3. AccountOK(a)'
    BY <1>0, <1>8 DEF NeedsHuman, CallOK, AccountOK, HeldAt, Holding, Ended
  <2> QED
    BY <2>1, <2>2, <2>3
<1>9. CASE PageFails(c)
  <2>1. lock[a] \in {None, c} /\ Local(c)
    BY <1>0, <1>9 DEF PageFails, Local, CallOK, Holding
  <2>2. CallOK(c)'
    BY <1>0, <1>9 DEF PageFails, CallOK, Holding
  <2>3. AccountOK(a)'
    BY <1>0, <1>9 DEF PageFails, CallOK, AccountOK, HeldAt, Cancellable, Ended
  <2> QED
    BY <2>1, <2>2, <2>3
<1>10. CASE PasswordRefused(c)
  <2>1. lock[a] \in {None, c} /\ Local(c)
    BY <1>0, <1>10 DEF PasswordRefused, Local, CallOK, Holding
  <2>2. CallOK(c)'
    BY <1>0, <1>10 DEF PasswordRefused, CallOK, Holding, Cancellable
  <2>3. AccountOK(a)'
    BY <1>0, <1>10 DEF PasswordRefused, CallOK, AccountOK, HeldAt
  <2> QED
    BY <2>1, <2>2, <2>3
<1>11. CASE Invalidate(c)
  <2>1. lock[a] \in {None, c} /\ Local(c)
    BY <1>0, <1>11 DEF Invalidate, WithStatus, Local, CallOK, Holding
  <2>2. CallOK(c)'
    BY <1>0, <1>11 DEF Invalidate, WithStatus, CallOK, Holding, NoRow
  <2>3. AccountOK(a)'
    BY <1>0, <1>11
       DEF Invalidate, WithStatus, Present, CallOK, AccountOK, HeldAt, Holding, ValidRow, Row
  <2> QED
    BY <2>1, <2>2, <2>3
<1>12. CASE Mark(c)
  <2>1. lock[a] \in {None, c} /\ Local(c)
    BY <1>0, <1>12 DEF Mark, MarkedDeleted, Local, CallOK, Holding
  <2>2. CallOK(c)'
    <3>1. CASE rows[a].op = None
      BY <1>0, <1>12, <3>1 DEF Mark, CallOK, Holding, NoRow, Cancellable, Row
    <3>2. CASE rows[a].op # None
      <4>1. flow[a].known \in {"pending", "complete"}
        BY <1>0, <1>12 DEF Mark, CallOK, AccountOK, Flow
      <4>2. rows'[a].table = rows[a].table /\ rows'[a].op = "remote_deleted"
        BY <1>0, <1>12, <3>2 DEF Mark, MarkedDeleted, ValidRow, Row
      <4>3. flow[a].known = "complete" => rows[a].table = "complete"
        BY <1>0, <1>12 DEF Mark, CallOK, AccountOK, HeldAt, Holding
      <4> QED
        BY <1>0, <1>12, <3>2, <4>1, <4>2, <4>3 DEF Mark, LocalCleanup, CallOK, Holding
    <3> QED
      BY <3>1, <3>2
  <2>3. AccountOK(a)'
    BY <1>0, <1>12 DEF Mark, MarkedDeleted, CallOK, AccountOK, HeldAt, Holding, Cancellable,
       Present, Ended, ValidRow, Row, Flow
  <2> QED
    BY <2>1, <2>2, <2>3
<1>13. CASE MarkFails(c)
  <2>1. lock[a] \in {None, c} /\ Local(c)
    BY <1>0, <1>13 DEF MarkFails, Local, CallOK, Holding
  <2>2. CallOK(c)'
    BY <1>0, <1>13 DEF MarkFails, CallOK, Holding, NoRow
  <2>3. AccountOK(a)'
    BY <1>0, <1>13 DEF MarkFails, CallOK, AccountOK, HeldAt, Holding
  <2> QED
    BY <2>1, <2>2, <2>3
<1>14. CASE DropPending(c)
  <2>1. lock[a] \in {None, c} /\ Local(c)
    BY <1>0, <1>14 DEF DropPending, Local, CallOK, Holding
  <2>2. CallOK(c)'
    BY <1>0, <1>14 DEF DropPending, CallOK, Holding, Present, NoRow
  <2>3. AccountOK(a)'
    BY <1>0, <1>14 DEF DropPending, CallOK, AccountOK, HeldAt, Cancellable, Present, NoRow
  <2> QED
    BY <2>1, <2>2, <2>3
<1>15. CASE ListAccounts(c)
  <2>1. lock[a] \in {None, c} /\ Local(c)
    BY <1>0, <1>15 DEF ListAccounts, Local, CallOK, Holding
  <2>2. CallOK(c)'
    BY <1>0, <1>15 DEF ListAccounts, CallOK, Holding, NoRow
  <2>3. AccountOK(a)'
    BY <1>0, <1>15 DEF ListAccounts, CallOK, AccountOK, Cancellable
  <2> QED
    BY <2>1, <2>2, <2>3
<1>16. CASE Unconfigure(c)
  <2>1. lock[a] \in {None, c} /\ Local(c)
    BY <1>0, <1>16 DEF Unconfigure, Local, CallOK, Holding
  <2>2. CallOK(c)'
    BY <1>0, <1>16 DEF Unconfigure, CallOK, Holding
  <2>3. AccountOK(a)'
    BY <1>0, <1>16 DEF Unconfigure, CallOK, AccountOK, Cancellable
  <2> QED
    BY <2>1, <2>2, <2>3
<1>17. CASE Delete(c)
  <2>1. lock[a] \in {None, c} /\ Local(c)
    BY <1>0, <1>17 DEF Delete, Local, CallOK, Holding
  <2>2. CallOK(c)'
    BY <1>0, <1>17 DEF Delete, CallOK, AccountOK, Holding, Present, NoRow
  <2>3. AccountOK(a)'
    BY <1>0, <1>17 DEF Delete, CallOK, AccountOK, HeldAt, Holding, Cancellable, NoRow
  <2> QED
    BY <2>1, <2>2, <2>3
<1>18. CASE Rollback(c)
  <2>1. lock[a] \in {None, c} /\ Local(c)
    BY <1>0, <1>18 DEF Rollback, Local, CallOK, Holding
  <2>2. CallOK(c)'
    BY <1>0, <1>18 DEF Rollback, CallOK, Holding
  <2>3. AccountOK(a)'
    BY <1>0, <1>18 DEF Rollback, CallOK, AccountOK, Cancellable
  <2> QED
    BY <2>1, <2>2, <2>3
<1>19. CASE Close(c)
  <2>1. lock[a] \in {None, c} /\ Local(c)
    BY <1>0, <1>19 DEF Close, Over, Local, CallOK, Holding
  <2>2. CallOK(c)'
    BY <1>0, <1>19 DEF Close, Over, CallOK, Holding, NoRow
  <2>3. AccountOK(a)'
    BY <1>0, <1>19 DEF Close, Over, CallOK, AccountOK, Cancellable, Present
  <2> QED
    BY <2>1, <2>2, <2>3
<1>20. CASE Fail(c)
  <2>1. lock[a] \in {None, c} /\ Local(c)
    BY <1>0, <1>20 DEF Fail, Over, Local, CallOK, Holding
  <2>2. CallOK(c)'
    BY <1>0, <1>20 DEF Fail, Over, CallOK, Holding, NoRow
  <2>3. AccountOK(a)'
    BY <1>0, <1>20 DEF Fail, Over, AccountOK, Cancellable
  <2> QED
    BY <2>1, <2>2, <2>3
<1>21. CASE CancelIntent(c)
  <2>1. lock[a] \in {None, c} /\ Local(c)
    BY <1>0, <1>21 DEF CancelIntent, Cancelled, Local, CallOK, Holding
  <2>2. CallOK(c)'
    BY <1>0, <1>21 DEF CancelIntent, Cancelled, CallOK, AccountOK, Holding, ValidRow, Row
  <2>3. AccountOK(a)'
    BY <1>0, <1>21 DEF CancelIntent, Cancelled, CallOK, AccountOK, HeldAt, Holding
  <2> QED
    BY <2>1, <2>2, <2>3
<1>22. CASE CancelClose(c)
  <2>1. lock[a] \in {None, c} /\ Local(c)
    BY <1>0, <1>22 DEF CancelClose, Over, Local, CallOK, Holding
  <2>2. CallOK(c)'
    BY <1>0, <1>22 DEF CancelClose, Over, CallOK, Holding, NoRow
  <2>3. AccountOK(a)'
    BY <1>0, <1>22 DEF CancelClose, Over, CallOK, AccountOK, Cancellable
  <2> QED
    BY <2>1, <2>2, <2>3
<1> QED
  BY <1>1, <1>2, <1>3, <1>4, <1>5, <1>6, <1>7, <1>8, <1>9, <1>10, <1>11, <1>12, <1>13, <1>14,
     <1>15, <1>16, <1>17, <1>18, <1>19, <1>20, <1>21, <1>22 DEF CleanupStep

\* A request that is not yet at the lock relies on nothing.
LEMMA RequestStep ==
    ASSUME IInv, NEW c \in Call, NEW a \in Account, NEW op \in {"start", "resume", "cancel"},
           Request(c, a, op)
    PROVE  RemovalInv'
<1> USE CleanupAssumption
    DEF IInv, TypeOK, CleanupTypeOK, RemovalInv, Request, At, durable, world, process
<1>1. ASSUME NEW d \in Call PROVE CallOK(d)'
  BY <1>1 DEF CallOK, Holding, Cancellable, Present
<1>2. ASSUME NEW b \in Account PROVE AccountOK(b)'
  <2>1. \A l \in {"close", "cancel_close"} : HeldAt(b, l) => HeldAt(b, l)'
    BY DEF HeldAt
  <2> QED
    BY <2>1 DEF AccountOK, Cancellable, Present
<1> QED
  BY <1>1, <1>2

\* The invariant asks of the vault only where a row is and how far its removal has got.
LEMMA RowsApart ==
    ASSUME IInv, TypeOK', UNCHANGED <<config, world, process, calls>>,
           \A a \in Account : rows'[a].table = rows[a].table /\ rows'[a].op = rows[a].op
    PROVE  RemovalInv'
<1> USE DEF IInv, TypeOK, CleanupTypeOK, RemovalInv, At, world, process, calls
<1>1. ASSUME NEW c \in Call PROVE CallOK(c)'
  BY <1>1 DEF CallOK, Holding, Cancellable, Present
<1>2. ASSUME NEW a \in Account PROVE AccountOK(a)'
  BY <1>2 DEF AccountOK, HeldAt, Cancellable, Present
<1> QED
  BY <1>1, <1>2

\* What a check stores is neither.
LEMMA ChecksApart ==
    ASSUME IInv, NEW k \in Everyone, CheckStep(k)
    PROVE  /\ UNCHANGED <<config, world, process, calls>>
           /\ \A a \in Account : rows'[a].table = rows[a].table /\ rows'[a].op = rows[a].op
<1> USE DEF IInv, TypeOK, CleanupTypeOK, elsewhere
<1>0. rows[target[k]] \in ValidRow /\ target[k] \in Account
  BY DEF QuotaTypeOK
<1>1. CASE ListAll(k)
  BY <1>1 DEF ListAll
<1>2. CASE CheckNext(k)
  BY <1>2 DEF CheckNext
<1>3. CASE LockAccount(k)
  BY <1>3 DEF LockAccount
<1>4. CASE ReadForCheck(k)
  BY <1>4 DEF ReadForCheck
<1>5. CASE ReadDashboard(k)
  BY <1>5 DEF ReadDashboard
<1>6. CASE DashboardMissing(k)
  BY <1>6 DEF DashboardMissing
<1>7. CASE StoreStates(k)
  <2>1. rows' = rows \/ rows' = [rows EXCEPT ![target[k]] = [rows[target[k]] EXCEPT !.auth = TRUE]]
    BY <1>7 DEF StoreStates, Vault
  <2> QED
    BY <1>7, <1>0, <2>1 DEF StoreStates, ValidRow, Row
<1>8. CASE Store(k)
  BY <1>8, <1>0 DEF Store, Vault, WithQuota, WithStatus, ValidRow, Row
<1>9. CASE MarkExhausted(k)
  BY <1>9, <1>0 DEF MarkExhausted, Vault, WithStatus, ValidRow, Row
<1> QED
  BY <1>1, <1>2, <1>3, <1>4, <1>5, <1>6, <1>7, <1>8, <1>9 DEF CheckStep

\* Whoever is under the lock of the quota service has it, and what is about to be stored
\* is a state of a subscription.
LEMMA CheckStepLock ==
    ASSUME IInv, NEW k \in Everyone, CheckStep(k)
    PROVE  CheckInv'
<1> USE CheckerAssumption
    DEF IInv, TypeOK, QuotaTypeOK, CheckInv, FoundOut, UnderCheck, Everyone, Waits, Turn, Stop,
        Leave, Goes, Raises
<1>1. CASE ListAll(k)
  BY <1>1 DEF ListAll
<1>2. CASE CheckNext(k)
  BY <1>2 DEF CheckNext
<1>3. CASE LockAccount(k)
  BY <1>3 DEF LockAccount
<1>4. CASE ReadForCheck(k)
  BY <1>4 DEF ReadForCheck
<1>5. CASE ReadDashboard(k)
  BY <1>5 DEF ReadDashboard
<1>6. CASE DashboardMissing(k)
  BY <1>6 DEF DashboardMissing
<1>7. CASE StoreStates(k)
  BY <1>7 DEF StoreStates
<1>8. CASE Store(k)
  BY <1>8 DEF Store
<1>9. CASE MarkExhausted(k)
  BY <1>9 DEF MarkExhausted
<1> QED
  BY <1>1, <1>2, <1>3, <1>4, <1>5, <1>6, <1>7, <1>8, <1>9 DEF CheckStep

\* The end of a creation flow promotes a pending row and configures its account: under
\* ~Concurrent no removal has got anywhere with that account.
LEMMA FlowEndsStep ==
    ASSUME IInv, NEW a \in Account, FlowEnds(a)
    PROVE  TypeOK' /\ RemovalInv'
<1> USE DEF IInv, TypeOK, CleanupTypeOK, FlowEnds, Vault, process, calls, quotaVars
<1>0. rows[a] \in ValidRow
  OBVIOUS
<1>1. TypeOK'
  <2>1. Promoted(rows[a]) \in ValidRow
    BY <1>0, RowTypes
  <2> QED
    BY <2>1 DEF QuotaTypeOK
<1>2. CASE UNCHANGED <<rows, config>>
  <2>1. ASSUME NEW c \in Call PROVE CallOK(c)'
    BY <1>2, <2>1 DEF RemovalInv, CallOK, Holding, At, Cancellable, Present
  <2>2. ASSUME NEW b \in Account PROVE AccountOK(b)'
    BY <1>2, <2>2 DEF RemovalInv, AccountOK, HeldAt, Cancellable, Present
  <2> QED
    BY <1>1, <2>1, <2>2 DEF RemovalInv
<1>3. CASE rows[a].table = "pending" /\ rows' = [rows EXCEPT ![a] = Promoted(rows[a])]
           /\ config' = config \cup {a}
  <2>1. rows'[a].table = "complete" /\ rows'[a].op = None
    BY <1>0, <1>3 DEF Promoted, CompleteRow, NoRow
  <2>2. ASSUME NEW c \in Call PROVE CallOK(c)'
    BY <1>3, <2>1, <2>2 DEF RemovalInv, CallOK, Holding, At, Cancellable, Present
  <2>3. ASSUME NEW b \in Account PROVE AccountOK(b)'
    <3>1. CASE b = a
      \* Nobody removes a while its flow runs, if that is excluded.
      <4>1. ~Concurrent => ~Cancellable(a)
        BY DEF RemovalInv, AccountOK, CallOK, HeldAt, At
      <4> QED
        BY <1>3, <2>1, <3>1, <4>1 DEF RemovalInv, AccountOK, Cancellable, Present
    <3>2. CASE b # a
      BY <1>3, <3>2 DEF RemovalInv, AccountOK, HeldAt, Cancellable, Present
    <3> QED
      BY <3>1, <3>2
  <2> QED
    BY <1>1, <2>2, <2>3 DEF RemovalInv
<1> QED
  BY <1>1, <1>2, <1>3

\* After a restart nobody holds a lock or relies on what it has read; the rows and the
\* files say what they said.
LEMMA RestartStep == IInv /\ Restart => IInv'
<1> SUFFICES ASSUME IInv, Restart PROVE IInv'
  OBVIOUS
<1> USE NoRowType, CleanupAssumption, CheckerAssumption
    DEF IInv, TypeOK, CleanupTypeOK, QuotaTypeOK, Restart, Fails, durable
<1>1. TypeOK'
  <2>1. NoFlow \in Flow
    BY DEF NoFlow, Flow
  <2>2. CleanupTypeOK'
    <3>1. /\ pc' \in [Call -> Label] /\ seen' \in [Call -> Row]
          /\ asks' \in [Call -> {"start", "resume", "cancel"}]
      BY DEF Label
    <3>2. trouble' \in 0 .. MaxTrouble /\ building' \subseteq Account
      OBVIOUS
    <3>3. unlocked' \in BOOLEAN
      OBVIOUS
    <3>4. /\ flow' \in [Account -> Flow] /\ lock' \in [Account -> Call \cup {None}]
      BY <2>1
    <3> QED
      BY <3>1, <3>2, <3>3, <3>4
  <2>3. QuotaTypeOK'
    BY DEF Found
  <2> QED
    BY <2>2, <2>3
<1>2. ASSUME NEW c \in Call PROVE CallOK(c)'
  BY <1>2 DEF CallOK, Holding, At, NoRow
<1>3. ASSUME NEW a \in Account PROVE AccountOK(a)'
  BY <1>3 DEF RemovalInv, AccountOK, NoFlow, Cancellable, Ended
<1>4. CheckInv'
  BY DEF CheckInv, FoundOut, UnderCheck, Waits
<1> QED
  BY <1>1, <1>2, <1>3, <1>4 DEF RemovalInv

\* The invariant holds of every vault the program can start with.
LEMMA InitInv == Init => IInv
<1> SUFFICES ASSUME Init PROVE IInv
  OBVIOUS
<1> USE NoRowType, CleanupAssumption, CheckerAssumption
    DEF Init, CleanupInit, QuotaInit, QuotaReset, IInv
<1>0. /\ \A row \in {PendingRow(TRUE), CompleteRow(TRUE), CompleteRow(FALSE)} : row \in ValidRow
      /\ NoFlow \in Flow
  BY DEF PendingRow, CompleteRow, NoRow, ValidRow, Row, Status, NoFlow, Flow
<1>1. TypeOK
  <2>1. rows \in [Account -> ValidRow] /\ flow \in [Account -> Flow]
    BY <1>0
  <2>2. CleanupTypeOK
    <3>1. pc \in [Call -> Label] /\ on \in [Call -> Account] /\ seen \in [Call -> Row]
      BY DEF Label
    <3>2. trouble \in 0 .. MaxTrouble
      OBVIOUS
    <3>5. unlocked \in BOOLEAN
      OBVIOUS
    <3>3. lock \in [Account -> Call \cup {None}] /\ asks \in [Call -> {"start", "resume", "cancel"}]
      OBVIOUS
    <3>4. /\ config \subseteq Account /\ remote \subseteq Account
          /\ submitted \subseteq Account /\ building \subseteq Account
      OBVIOUS
    <3> QED
      BY <2>1, <3>1, <3>2, <3>3, <3>4, <3>5 DEF CleanupTypeOK
  <2>3. QuotaTypeOK
    BY DEF QuotaTypeOK, Found
  <2> QED
    BY <2>2, <2>3 DEF TypeOK
<1>2. \A a \in Account : rows[a].op = None
  <2>1. \A row \in {PendingRow(TRUE), CompleteRow(TRUE), CompleteRow(FALSE)} : row.op = None
    BY DEF PendingRow, CompleteRow, NoRow
  <2> QED
    BY <2>1
<1>3. ASSUME NEW c \in Call PROVE CallOK(c)
  BY <1>3 DEF CallOK, Holding, At, NoRow
<1>4. ASSUME NEW a \in Account PROVE AccountOK(a)
  BY <1>2, <1>4 DEF AccountOK, NoFlow, Cancellable, Ended
<1>5. CheckInv
  BY DEF CheckInv, FoundOut, UnderCheck, Waits
<1> QED
  BY <1>1, <1>3, <1>4, <1>5 DEF RemovalInv

\* Every step keeps the invariant.
LEMMA NextInv == IInv /\ [Next]_vars => IInv'
<1> SUFFICES ASSUME IInv, [Next]_vars PROVE IInv'
  OBVIOUS
<1>1. CASE Removing /\ UNCHANGED quotaVars
  <2>0. check' = check => QuotaTypeOK' /\ CheckInv'
    BY <1>1 DEF IInv, TypeOK, QuotaTypeOK, CheckInv, FoundOut, UnderCheck, Waits, quotaVars
  <2>1. CASE \E c \in Call, a \in Account, op \in {"start", "resume", "cancel"} : Request(c, a, op)
    <3>1. check' = check
      BY <2>1 DEF Request
    <3> QED
      BY <2>0, <2>1, <3>1, RequestType, RequestStep DEF IInv, TypeOK
  <2>2. CASE \E c \in Call : CleanupStep(c)
    BY <2>0, <2>2, CleanupStepType, CallStep DEF IInv, TypeOK
  <2>3. CASE \E a \in Account : GithubDeletes(a)
    <3>1. PICK a \in Account : GithubDeletes(a)
      BY <2>3
    <3> USE <3>1 DEF GithubDeletes, durable, process, calls
    <3>2. CleanupTypeOK'
      BY DEF IInv, TypeOK, CleanupTypeOK
    <3>3. ASSUME NEW c \in Call PROVE CallOK(c)'
      BY <3>3 DEF IInv, RemovalInv, CallOK, Holding, At, Cancellable, Present
    <3>4. ASSUME NEW b \in Account PROVE AccountOK(b)'
      BY <3>4 DEF IInv, RemovalInv, AccountOK, HeldAt, Cancellable, Present
    <3> QED
      BY <2>0, <3>2, <3>3, <3>4 DEF IInv, TypeOK, RemovalInv
  <2> QED
    BY <1>1, <2>1, <2>2, <2>3 DEF Removing
<1>2. CASE \E k \in Checker, a \in Account, what \in {"one", "all", "mark"} : Ask(k, a, what)
  <2>1. UNCHANGED <<rows, check, trouble, config, world, process, calls>>
    BY <1>2 DEF Ask, elsewhere
  <2>2. TypeOK'
    BY <1>2, <2>1
       DEF Ask, IInv, TypeOK, CleanupTypeOK, QuotaTypeOK, Everyone, world, process, calls
  <2>3. CheckInv'
    BY <1>2 DEF Ask, Waits, IInv, TypeOK, QuotaTypeOK, CheckInv, FoundOut, UnderCheck, Everyone
  <2> QED
    BY <2>1, <2>2, <2>3, RowsApart DEF IInv
<1>3. CASE \E k \in Everyone : CheckStep(k)
  <2>1. PICK k \in Everyone : CheckStep(k)
    BY <1>3
  <2>2. TypeOK' /\ CheckInv'
    BY <2>1, CheckStepType, CheckStepLock DEF IInv, CheckInv
  <2>3. RemovalInv'
    BY <2>1, <2>2, ChecksApart, RowsApart
  <2> QED
    BY <2>2, <2>3 DEF IInv
<1>4. CASE Wake
  <2>1. UNCHANGED <<rows, check, trouble, config, world, process, calls>>
    BY <1>4 DEF Wake, elsewhere
  <2>2. TypeOK'
    BY <1>4, <2>1
       DEF Wake, Turn, IInv, TypeOK, CleanupTypeOK, QuotaTypeOK, world, process, calls
  <2>3. CheckInv'
    BY <1>4 DEF Wake, Waits, Turn, IInv, TypeOK, QuotaTypeOK, CheckInv, FoundOut, UnderCheck
  <2> QED
    BY <2>1, <2>2, <2>3, RowsApart DEF IInv
<1>5. CASE Unlock \/ UNCHANGED vars
  <2>1. /\ UNCHANGED <<durable, world, flow, lock, calls, trouble, check, quotaVars>>
        /\ unlocked' \in {unlocked, TRUE}
    BY <1>5 DEF Unlock, vars, cleanupVars, process
  <2>2. TypeOK' /\ CheckInv'
    BY <2>1 DEF IInv, TypeOK, CleanupTypeOK, QuotaTypeOK, CheckInv, FoundOut, UnderCheck, Waits,
                durable, world, calls, quotaVars
  <2>3. ASSUME NEW c \in Call PROVE CallOK(c)'
    BY <2>1, <2>3
       DEF IInv, RemovalInv, CallOK, Holding, At, Cancellable, Present, durable, world, calls
  <2>4. ASSUME NEW a \in Account PROVE AccountOK(a)'
    BY <2>1, <2>4
       DEF IInv, RemovalInv, AccountOK, HeldAt, Cancellable, Present, durable, world, calls
  <2> QED
    BY <2>2, <2>3, <2>4 DEF IInv, RemovalInv
<1>6. CASE Restart
  BY <1>6, RestartStep
<1>7. CASE \E a \in Account : FlowEnds(a)
  <2>1. CheckInv'
    BY <1>7
       DEF FlowEnds, IInv, TypeOK, QuotaTypeOK, CheckInv, FoundOut, UnderCheck, Waits, quotaVars
  <2> QED
    BY <1>7, <2>1, FlowEndsStep DEF IInv
<1> QED
  BY <1>1, <1>2, <1>3, <1>4, <1>5, <1>6, <1>7 DEF Next, Checking

\* The inductive invariant of removals and checks.
THEOREM Invariant == Spec => []IInv
  BY InitInv, NextInv, PTL DEF Spec

\* Every variable keeps its type: trouble stays within its bound, no complete row has
\* the status of a pending one.
THEOREM TypeCorrect == Spec => []TypeOK
  BY Invariant, PTL DEF IInv

\* No entry of the configuration files outlives the account's row in the vault, for any
\* number of calls, failures and restarts, removals during the creation flow included.
THEOREM NoOrphans == Spec => []NoOrphanEntry
<1>1. IInv => NoOrphanEntry
  BY DEF IInv, TypeOK, CleanupTypeOK, RemovalInv, AccountOK, NoOrphanEntry
<1> QED
  BY <1>1, Invariant, PTL

\* A removal that says done, cancelled or error has kept what that says.
THEOREM EndTrue == Spec => []EndIsTrue
<1>1. IInv => EndIsTrue
  BY DEF IInv, RemovalInv, AccountOK, EndIsTrue
<1> QED
  BY <1>1, Invariant, PTL

\* The lock of the quota service keeps checks and marks of one account apart.
THEOREM OneCheckAtATime == Spec => []OneCheck
<1>1. IInv => OneCheck
  BY DEF IInv, CheckInv, UnderCheck, OneCheck
<1> QED
  BY <1>1, Invariant, PTL

\* remove_account is reached only with the deletion on record.
THEOREM FilesGoLast == Spec => FilesLast
<1> DEFINE Last == \A a \in config \ config' : a \notin remote /\ rows[a].op = "remote_deleted"
<1>1. IInv /\ [Next]_vars => [Last]_vars
  <2> SUFFICES ASSUME IInv, Next, NEW a \in config \ config'
               PROVE  a \notin remote /\ rows[a].op = "remote_deleted"
    BY DEF vars
  <2>1. PICK c \in Call : Unconfigure(c)
    BY DEF Next, Removing, Checking, CleanupStep, CheckStep, Request, Acquire, ReadAccount,
           CrossBoundary, Begin, BrowserMissing, Submit, Deleted, NeedsHuman, PageFails,
           PasswordRefused, Invalidate, Mark, MarkFails, DropPending, ListAccounts, Delete,
           Rollback, Close, Fail, Over, CancelIntent, CancelClose, GithubDeletes, Ask, ListAll,
           CheckNext, LockAccount, ReadForCheck, ReadDashboard, DashboardMissing, StoreStates,
           Store, MarkExhausted, Wake, Unlock, Restart, FlowEnds, elsewhere, durable
  <2>2. a = on[c] /\ a \in Account
    BY <2>1 DEF Unconfigure, IInv, TypeOK, CleanupTypeOK
  <2> QED
    BY <2>1, <2>2 DEF Unconfigure, At, IInv, RemovalInv, CallOK, AccountOK
<1> QED
  BY <1>1, Invariant, PTL DEF Spec, FilesLast

(***************************************************************************)
(* The refinement of Removal                                               *)
(***************************************************************************)
Stages == [a \in Account |-> Stage(rows[a])]

\* The four stages, by what the row says.
LEMMA StageIs ==
    ASSUME NEW row \in ValidRow
    PROVE  /\ row.table = None => Stage(row) = "removed"
           /\ row.table # None /\ row.op = None => Stage(row) = "kept"
           /\ row.table # None /\ row.op = "requested" => Stage(row) = "intended"
           /\ row.table # None /\ row.op = "remote_deleted" => Stage(row) = "verified"
  BY DEF Stage, Present

\* A step that moves one account to another stage is a step of that account.
LEMMA OneTurn ==
    ASSUME NEW a \in Account, NEW to, Stage(rows'[a]) = to,
           \A b \in Account \ {a} : rows'[b] = rows[b]
    PROVE  Stages' = [Stages EXCEPT ![a] = to]
  BY DEF Stages

\* A step that changes neither where a row is nor how far its removal has got stutters.
LEMMA SameStages ==
    ASSUME \A a \in Account : rows'[a].table = rows[a].table /\ rows'[a].op = rows[a].op
    PROVE  Stages' = Stages
  BY DEF Stages, Stage, Present

\* Every step of a request that reaches the vault or GitHub is one of the promise's.
LEMMA CallPromise ==
    ASSUME IInv, IInv', ~Concurrent, NEW c \in Call, CleanupStep(c)
    PROVE  [Promise!Next]_<<Stages, submitted, Account \ remote>>
<1> DEFINE a == on[c]
<1> USE DEF durable, world, process
<1>0. /\ a \in Account /\ CallOK(c) /\ AccountOK(a)
      /\ rows \in [Account -> ValidRow] /\ rows[a] \in ValidRow
      /\ rows' \in [Account -> ValidRow] /\ rows'[a] \in ValidRow
  BY DEF IInv, TypeOK, CleanupTypeOK, RemovalInv
<1>i. Stages[a] = Stage(rows[a])
  BY <1>0 DEF Stages
<1>r. Cancellable(a) /\ pc[c] # "cancel_close" /\ Holding(c) =>
         rows[a].op = "requested" /\ rows[a].table # None
  BY <1>0 DEF CallOK, AccountOK, HeldAt, Present
<1>1. CASE UNCHANGED <<rows, submitted, remote>>
  BY <1>1, SameStages
<1>2. CASE Submit(c)
  <2>1. Stages[a] = "intended"
    BY <1>0, <1>2, <1>i, <1>r, StageIs DEF Submit, CallOK, Holding
  <2>2. Stages' = Stages
    BY <1>2, SameStages DEF Submit
  <2>3. Promise!Submit(a)
    BY <1>2, <2>1, <2>2 DEF Submit, Promise!Submit, Stages
  <2> QED
    BY <1>0, <2>3 DEF Promise!Next
<1>3. CASE Begin(c) /\ rows' # rows
  <2>1. Present(rows[a]) /\ rows' = [rows EXCEPT ![a] = Begun(rows[a])]
    BY <1>3 DEF Begin
  <2>2. rows[a].op = None /\ rows'[a].op = "requested" /\ rows'[a].table = rows[a].table
    BY <1>0, <1>3, <2>1 DEF Begun, ValidRow, Row
  <2>3. Stages[a] = "kept" /\ Stages' = [Stages EXCEPT ![a] = "intended"]
    BY <1>0, <1>i, <2>1, <2>2, StageIs, OneTurn DEF Present
  <2>4. Promise!Intend(a)
    BY <1>3, <2>3 DEF Begin, Promise!Intend, Promise!Turns, Stages
  <2> QED
    BY <1>0, <2>4 DEF Promise!Next
<1>4. CASE Invalidate(c)
  <2>1. \A b \in Account : rows'[b].table = rows[b].table /\ rows'[b].op = rows[b].op
    BY <1>0, <1>4 DEF Invalidate, WithStatus, ValidRow, Row
  <2> QED
    BY <1>4, <2>1, SameStages DEF Invalidate
<1>5. CASE Mark(c) /\ rows' # rows
  <2>1. rows' = [rows EXCEPT ![a] = MarkedDeleted(rows[a])]
    BY <1>5 DEF Mark
  <2>2. rows'[a].op = "remote_deleted" /\ rows'[a].table = rows[a].table
    BY <1>0, <2>1 DEF MarkedDeleted, ValidRow, Row
  <2>3. rows[a].op = "requested" /\ rows[a].table # None /\ a \notin remote
    BY <1>0, <1>5, <1>r DEF Mark, At, CallOK, Holding
  <2>4. Stages[a] = "intended" /\ Stages' = [Stages EXCEPT ![a] = "verified"]
    BY <1>0, <1>i, <2>1, <2>2, <2>3, StageIs, OneTurn
  <2>5. Promise!Verify(a)
    BY <1>0, <1>5, <2>3, <2>4 DEF Mark, Promise!Verify, Promise!Turns, Stages
  <2> QED
    BY <1>0, <2>5 DEF Promise!Next
<1>6. CASE (DropPending(c) \/ Delete(c)) /\ rows' # rows
  <2>1. /\ rows' = [rows EXCEPT ![a] = NoRow] /\ rows[a].table # None
        /\ UNCHANGED <<submitted, remote>>
    BY <1>6 DEF DropPending, Delete
  <2>2. rows[a].op = "remote_deleted"
    BY <1>0, <1>6 DEF DropPending, Delete, At, CallOK
  <2>3. Stages[a] = "verified" /\ Stages' = [Stages EXCEPT ![a] = "removed"]
    BY <1>0, <1>i, <2>1, <2>2, StageIs, OneTurn DEF NoRow
  <2>4. Promise!Finish(a)
    BY <2>1, <2>3 DEF Promise!Finish, Promise!Turns, Stages
  <2> QED
    BY <1>0, <2>4 DEF Promise!Next
<1>7. CASE CancelIntent(c)
  <2>1. rows' = [rows EXCEPT ![a] = Cancelled(rows[a])]
    BY <1>7 DEF CancelIntent
  <2>2. rows[a].op = "requested" /\ rows[a].table # None
    BY <1>0, <1>7, <1>r DEF CancelIntent, At, CallOK, Holding
  <2>3. rows'[a].op = None /\ rows'[a].table = rows[a].table
    BY <1>0, <2>1, <2>2 DEF Cancelled, ValidRow, Row
  <2>4. Stages[a] = "intended" /\ Stages' = [Stages EXCEPT ![a] = "kept"]
    BY <1>0, <1>i, <2>1, <2>2, <2>3, StageIs, OneTurn
  <2>5. Promise!Withdraw(a)
    BY <1>7, <2>4 DEF CancelIntent, Promise!Withdraw, Promise!Turns, Stages
  <2> QED
    BY <1>0, <2>5 DEF Promise!Next
<1> QED
  BY <1>1, <1>2, <1>3, <1>4, <1>5, <1>6, <1>7
     DEF CleanupStep, Acquire, ReadAccount, CrossBoundary, Begin, BrowserMissing, Deleted,
         NeedsHuman, PageFails, PasswordRefused, Mark, MarkFails, DropPending, ListAccounts,
         Unconfigure, Delete, Rollback, Close, Fail, Over, CancelClose

\* Every step of the system is a step of the promise, or none.
LEMMA NextPromise ==
    ASSUME IInv, IInv', ~Concurrent, [Next]_vars
    PROVE  [Promise!Next]_<<Stages, submitted, Account \ remote>>
<1>1. CASE Removing
  <2>1. CASE \E c \in Call, a \in Account, op \in {"start", "resume", "cancel"} : Request(c, a, op)
    BY <2>1, SameStages DEF Request, durable, world
  <2>2. CASE \E c \in Call : CleanupStep(c)
    BY <2>2, CallPromise
  <2>3. CASE \E a \in Account : GithubDeletes(a)
    <3>1. PICK a \in Account : GithubDeletes(a)
      BY <2>3
    <3>2. Stages' = Stages /\ submitted' = submitted
      BY <3>1, SameStages DEF GithubDeletes, durable
    <3>3. a \in submitted /\ Account \ remote' = (Account \ remote) \cup {a}
      BY <3>1 DEF GithubDeletes
    <3>4. Promise!Delete(a)
      BY <3>2, <3>3 DEF Promise!Delete, Stages
    <3> QED
      BY <3>4 DEF Promise!Next
  <2> QED
    BY <1>1, <2>1, <2>2, <2>3 DEF Removing
<1>2. CASE Checking
  <2>1. CASE \E k \in Everyone : CheckStep(k)
    BY <2>1, ChecksApart, SameStages DEF world
  <2>2. CASE UNCHANGED <<rows, elsewhere>>
    BY <2>2, SameStages DEF elsewhere, world
  <2> QED
    BY <1>2, <2>1, <2>2 DEF Checking, Ask, Wake
<1>3. CASE Unlock \/ Restart \/ UNCHANGED vars
  <2>1. UNCHANGED <<rows, submitted, remote>>
    BY <1>3 DEF Unlock, Restart, vars, cleanupVars, durable, world
  <2> QED
    BY <2>1, SameStages
<1>4. CASE \E a \in Account : FlowEnds(a)
  \* Nobody has begun to remove an account that is still being made.
  <2>1. PICK a \in Account : FlowEnds(a)
    BY <1>4
  <2>2. rows[a].op = None /\ rows[a] \in ValidRow
    BY <2>1 DEF FlowEnds, IInv, TypeOK, CleanupTypeOK, RemovalInv, AccountOK
  <2>3. CASE UNCHANGED rows
    BY <2>1, <2>3, SameStages DEF FlowEnds
  <2>4. CASE rows[a].table = "pending" /\ rows' = [rows EXCEPT ![a] = Promoted(rows[a])]
    <3>1. /\ rows'[a] = Promoted(rows[a]) /\ rows'[a] \in ValidRow
          /\ \A b \in Account \ {a} : rows'[b] = rows[b]
      BY <2>2, <2>4, RowTypes DEF IInv, TypeOK, CleanupTypeOK
    <3>2. rows'[a].table = "complete" /\ rows'[a].op = None
      BY <3>1 DEF Promoted, CompleteRow, NoRow
    <3>3. Stage(rows[a]) = "kept" /\ Stage(rows'[a]) = "kept"
      BY <2>2, <2>4, <3>1, <3>2, StageIs
    <3>4. Stages' = [Stages EXCEPT ![a] = "kept"] /\ Stages[a] = "kept"
      BY <3>1, <3>3, OneTurn DEF Stages
    <3>5. Stages' = Stages
      BY <3>4 DEF Stages
    <3> QED
      BY <2>1, <3>5 DEF FlowEnds
  <2> QED
    BY <2>1, <2>3, <2>4 DEF FlowEnds, Vault
<1> QED
  BY <1>1, <1>2, <1>3, <1>4 DEF Next

\* At the start every account is kept, and GitHub has been asked nothing.
LEMMA InitPromise == Init => Promise!Init
<1> SUFFICES ASSUME Init PROVE Promise!Init
  OBVIOUS
<1>1. submitted = {} /\ Account \ remote = {}
  BY DEF Init, CleanupInit
<1>2. ASSUME NEW a \in Account PROVE Stage(rows[a]) = "kept"
  <2>1. rows[a] \in {PendingRow(TRUE), CompleteRow(TRUE), CompleteRow(FALSE)}
    BY DEF Init, CleanupInit
  <2>2. rows[a].table # None /\ rows[a].op = None
    BY <2>1 DEF PendingRow, CompleteRow, NoRow
  <2> QED
    BY <2>2 DEF Stage, Present
<1> QED
  BY <1>1, <1>2 DEF Promise!Init

\* With an account removed only after its creation flow, removals implement the promise of
\* Removal: the intent before GitHub is asked, the record until GitHub has deleted, and a
\* verified deletion that is never started over or taken back.
THEOREM Refinement == ASSUME ~Concurrent PROVE Spec => RemovalPromise
<1>1. Init => Promise!Init
  BY InitPromise
<1>2. IInv /\ IInv' /\ [Next]_vars => [Promise!Next]_<<Stages, submitted, Account \ remote>>
  BY NextPromise
<1> QED
  BY <1>1, <1>2, Invariant, PTL DEF Spec, RemovalPromise, Promise!Spec, Stages
=============================================================================
