----------------------------- MODULE PoolBalance -----------------------------
(***************************************************************************)
(* Files and vault in step: what keeps a pool without overlaps in balance, *)
(* between calls and within each of them.  LedgerInv is an invariant of    *)
(* such a pool and inductive while the conditions below hold, ThriftInv    *)
(* while names can be read.                                                *)
(***************************************************************************)
EXTENDS PoolGuarantees
LOCAL INSTANCE FiniteSetsExt

\* The operations that take the completion lock.
Locking == {"complete", "import", "apply"}

\* A call is at work on the pool.
Busy(g) == g.pc \notin {"idle", "lock", "remote"}

\* The files whose entries are keys.
Keyed == {"auth", "opencode"}

\* What f was before the first of the writes ws that changed it, where it is doc now.
Original(ws, f, doc) ==
    LET W == {k \in DOMAIN ws : ws[k].file = f}
    IN  IF W = {} THEN doc ELSE ws[CHOOSE k \in W : \A i \in W : k =< i].before

\* auth.json (au) and opencode.json (oc) carry the key of account a under number n.
Carries(au, oc, a, n) == au.entries[n] = a \/ oc.entries[n] = a

\* The rows mark account a as configured under number n.
Marks(rows, a, n) ==
    \E i \in DOMAIN rows : rows[i].account = a /\ rows[i].provider = n /\ rows[i].oc

\* auth.json has no name but the primary's, opencode.json never has it.
Tidy(au, oc) == Names(au) \subseteq {Primary} /\ Primary \notin Names(oc)

\* A row that is marked has a number, and there is a primary key.
Placed(r, au) == r.oc => r.provider \in Provider /\ Primary \in Names(au)

\* A secondary account that waits for its configuration.
Waits(r) == ~r.oc /\ r.provider # Primary

\* n is above all numbers seen in doc.
Above(n, doc) == \A m \in Names(doc) : Legible(m) => m < n

\* The files carry what the rows mark; a primary account that waits leaves auth.json
\* free; secondary ones that wait have numbers above all in opencode.json.
Balanced(au, oc, rows) ==
    /\ Tidy(au, oc)
    /\ \A a \in Account, n \in Provider : Carries(au, oc, a, n) <=> Marks(rows, a, n)
    /\ \A i \in DOMAIN rows :
          /\ Placed(rows[i], au)
          /\ rows[i].provider = Primary /\ ~rows[i].oc => Primary \notin Names(au)
          /\ Waits(rows[i]) => Above(rows[i].provider, oc)

\* The row at hand is in opencode.json or auth.json already.
InHand(g) == g.pc \in {"omo_load", "omo_write"}

\* Call g has put the key of account a into the files, under number n.
Added(g, a, n) == Marks(g.made, a, n) \/ (InHand(g) /\ g.row.account = a /\ g.row.provider = n)

\* The rows of call g are to be configured.
Configures(g) == g.op = "apply" \/ g.conf.opencode

\* Where a row is being configured.
AtFiles == {"models", "auth_load", "auth_write", "oc_load", "oc_write", "omo_load", "omo_write"}

\* A completion, import or application has added the keys of its rows, and nothing else
\* has changed; the rows it will commit will keep the balance.
Gained(g, au, oc, rows) ==
    /\ g.pc \in {"decode", "inspect", "primary", "list"} => g.made = <<>> /\ g.writes = <<>>
    /\ Tidy(au, oc)
    /\ \A a \in Account, n \in Provider :
          Carries(au, oc, a, n) <=> Marks(rows, a, n) \/ Added(g, a, n)
    /\ InHand(g) => Placed(g.row, au)
    /\ \A i \in DOMAIN rows :
          /\ Placed(rows[i], au)
          /\ rows[i].provider = Primary /\ ~rows[i].oc /\ Primary \in Names(au) =>
                g.op = "apply" /\ Added(g, rows[i].account, Primary)
          /\ Waits(rows[i]) => \/ Above(rows[i].provider, oc)
                               \/ \E a \in Account : Added(g, a, rows[i].provider)
    /\ \A k \in DOMAIN g.made :
          /\ g.made[k].oc <=> Configures(g)
          /\ Placed(g.made[k], au)
          /\ g.made[k].provider = Primary /\ ~g.made[k].oc => Primary \notin Names(au)
          /\ Waits(g.made[k]) => Above(g.made[k].provider, oc)

\* What it has at hand: a row that is to be marked, and a file as it is.
Handy(g, au, oc, rows) ==
    /\ g.pc \in AtFiles => g.row.oc /\ Configures(g)
    /\ g.pc \in {"auth_load", "auth_write"} => g.row.provider = Primary
    /\ g.pc \in {"models", "oc_load", "oc_write"} => g.row.provider # Primary
    /\ g.pc = "models" /\ "opencode" \notin g.adds => Marks(rows, g.row.account, g.row.provider)
    /\ g.pc = "auth_write" => g.loaded = au /\ Primary \notin Names(au)
    /\ g.pc = "oc_write" => /\ g.loaded = oc /\ g.row.provider = NextNumber(Names(oc))
                            /\ Primary \in Names(au)

\* The rows have r, marked or not, or r is marked since.
Has(rows, r) ==
    \E i \in DOMAIN rows : /\ rows[i].account = r.account /\ rows[i].provider = r.provider
                           /\ rows[i].oc => r.oc

\* The rows of an application are those of the vault, with their numbers.
Updates(g, rows) ==
    /\ g.pc # "name"
    /\ \A i \in DOMAIN g.todo : \E k \in DOMAIN rows : rows[k] = g.todo[i]
    /\ \A k \in DOMAIN g.made : Has(rows, g.made[k])
    /\ g.pc \in AtFiles => Has(rows, g.row)

\* A completion or an import has found no primary account.
Enters(g, au, rows) ==
    /\ g.free /\ g.pc \in {"primary", "list", "next"} => rows = <<>> /\ g.made = <<>>
    /\ g.free /\ g.pc \in {"list", "next"} => Primary \notin Names(au)
    /\ g.pc \in {"auth_load", "auth_write"} => rows = <<>>

\* A completion has one row.
Single(g) ==
    /\ g.pc = "store" => Len(g.made) = 1
    /\ g.pc # "store" => g.made = <<>>

\* An import has several, with different accounts and numbers.
Several(g) ==
    /\ \A i, k \in DOMAIN g.todo : i # k => g.todo[i].account # g.todo[k].account
    /\ \A i, k \in DOMAIN g.made : i # k => /\ g.made[i].account # g.made[k].account
                                            /\ g.made[i].provider # g.made[k].provider
    /\ \A k \in DOMAIN g.made : /\ \A i \in DOMAIN g.todo : g.made[k].account # g.todo[i].account
                                /\ g.made[k].provider \in g.reserved \cup {Primary}
    /\ g.pc \in AtFiles \cup {"name"} =>
          /\ ~g.free
          /\ \A i \in DOMAIN g.todo : g.row.account # g.todo[i].account
          /\ \A k \in DOMAIN g.made : g.row.account # g.made[k].account
    /\ g.pc \in AtFiles =>
          /\ \A k \in DOMAIN g.made : g.row.provider # g.made[k].provider
          /\ g.row.provider \in (g.reserved \cup {Primary}) \ {Unassigned}

\* The account that a removal promotes takes over the key in auth.json.
TakesOver(g, rows) ==
    /\ g.row.provider = Primary /\ g.row.oc
    /\ \E i \in DOMAIN rows : rows[i].account = g.promoted /\ rows[i].oc

\* What a removal leaves under the primary number.
Successor(g, rows) == IF TakesOver(g, rows) THEN g.promoted ELSE Nothing

\* A removal takes number n out of opencode.json.
Clears(g, rows, n) ==
    IF g.row.provider = Primary
      THEN /\ TakesOver(g, rows)
           /\ \E i \in DOMAIN rows : rows[i].account = g.promoted /\ rows[i].provider = n
      ELSE g.row.oc /\ g.row.provider = n

\* An edit of f is still to be made.
Pends(g, f) == \E i \in DOMAIN g.plan : g.plan[i].file = f

\* What a removal has planned: at most one edit of a file, and who is promoted; without
\* a key to take over, no other account has one.
Planned(g, rows) ==
    /\ g.promoted # Nothing =>
          /\ g.row.provider = Primary /\ g.promoted # g.row.account
          /\ \E i \in DOMAIN rows : rows[i].account = g.promoted
    /\ g.row.provider = Primary /\ g.row.oc /\ ~TakesOver(g, rows) =>
          \A i \in DOMAIN rows : rows[i].oc => rows[i] = g.row
    /\ \A i, k \in DOMAIN g.plan : i # k => g.plan[i].file # g.plan[k].file
    /\ \A i \in DOMAIN g.plan :
          /\ g.plan[i].file = "auth" =>
                /\ g.plan[i].provider = Primary /\ g.row.provider = Primary /\ g.row.oc
                /\ g.plan[i].key = Successor(g, rows)
          /\ g.plan[i].file = "opencode" =>
                Clears(g, rows, g.plan[i].provider) /\ g.plan[i].key = Nothing

\* The files are those before the removal (au0, oc0), but for the edits it has made.
Reduced(g, au0, oc0, au, oc, rows) ==
    \A n \in Provider :
       /\ au.entries[n] = IF /\ n = Primary /\ g.row.provider = Primary /\ g.row.oc
                             /\ ~Pends(g, "auth")
                            THEN Successor(g, rows) ELSE au0.entries[n]
       /\ oc.entries[n] = IF Clears(g, rows, n) /\ ~Pends(g, "opencode")
                            THEN Nothing ELSE oc0.entries[n]

\* A removal has the row it began with, and what it has loaded is the file as it is.
Shrunk(g, au, oc, rows) ==
    /\ \E i \in DOMAIN rows : rows[i] = g.row
    /\ g.pc = "remaining" => g.writes = <<>>
    /\ g.pc # "remaining" =>
          /\ Planned(g, rows)
          /\ Reduced(g, Original(g.writes, "auth", au), Original(g.writes, "opencode", oc),
                     au, oc, rows)
    /\ g.pc = "edit_write" =>
          /\ Head(g.plan).file = "auth" => g.loaded = au
          /\ Head(g.plan).file = "opencode" => g.loaded = oc
    /\ g.pc = "delete" => g.plan = <<>>

\* What a call at work is about, until it rolls back.
Forward(g, au, oc, rows) ==
    /\ g.op \in Locking => Gained(g, au, oc, rows) /\ Handy(g, au, oc, rows)
    /\ g.op = "apply" => Updates(g, rows)
    /\ g.op \in {"complete", "import"} => Enters(g, au, rows)
    /\ g.op = "complete" => Single(g)
    /\ g.op = "import" => Several(g)
    /\ g.op = "remove" => Shrunk(g, au, oc, rows)
    /\ g.op = "repair" => g.writes = <<>>

\* A call at work can restore the balance, and so does what it has yet to do.
Ledger(g, au, oc, rows) ==
    /\ Balanced(Original(g.writes, "auth", au), Original(g.writes, "opencode", oc), rows)
    /\ g.pc # "undo" => Forward(g, au, oc, rows)

\* A call that has not begun has nothing, but for a removal's row.
Unbegun(g, rows) ==
    /\ g.writes = <<>> /\ g.made = <<>> /\ g.todo = <<>> /\ ~g.free
    /\ g.pc = "remote" => \E i \in DOMAIN rows : rows[i] = g.row

\* An account is in the vault once, under a number of its own.
Unique(rows) ==
    \A i, k \in DOMAIN rows : i # k => /\ rows[i].account # rows[k].account
                                       /\ rows[i].provider # rows[k].provider

\* While a removal waits, nobody else has a call.
Solo == \A i, j \in Job : i # j /\ job[i].pc = "remote" => job[j].pc = "idle"

\* The inductive invariant of a pool without overlaps.
LedgerInv ==
    /\ Unique(vault) /\ pending \cap Accounts(vault) = {}
    /\ Solo
    /\ \A j \in Job : IF Busy(job[j]) THEN Ledger(job[j], files["auth"], files["opencode"], vault)
                                      ELSE Unbegun(job[j], vault)
    /\ (\A j \in Job : ~Busy(job[j])) => Balanced(files["auth"], files["opencode"], vault)

(***************************************************************************)
(* The conditions                                                          *)
(***************************************************************************)
\* The application can read the numbers of all names in opencode.json.
Readable == \A n \in Names(files["opencode"]) : n = Primary \/ Legible(n)

\* Every number that is written is one of the model's.
Roomy == \A j \in Job : job[j].pc = "oc_write" => job[j].row.provider \in Provider

\* No backup that a call may need has been pruned.
Backed == \A j \in Job : \A k \in DOMAIN job[j].writes :
             ~(job[j].writes[k].before.exists /\ job[j].writes[k].newer = Retention)

(***************************************************************************)
(* Why numbers do not run out and backups are not pruned                   *)
(***************************************************************************)
\* Call g is at a row.
AtRow(g) == g.pc \in AtFiles \cup {"name"}

\* The rows of g: configured, at hand, still to be looked at.
Rows(g) == Len(g.made) + Len(g.todo) + (IF AtRow(g) THEN 1 ELSE 0)

\* No more backups of a file are made than the call has rows; a removal writes a file
\* once, a repair keeps nothing to be undone.
Counted(g) ==
    /\ g.op \in Locking /\ g.pc # "undo" =>
          /\ Rows(g) =< Cardinality(Account)
          /\ g.op = "complete" => g.todo = <<>>
          /\ \A k \in DOMAIN g.writes :
                g.writes[k].newer < Len(g.made) +
                   (IF InHand(g) /\ g.writes[k].file = "opencode" THEN 1 ELSE 0)
    /\ g.op \in Locking /\ g.pc = "undo" =>
          \A k \in DOMAIN g.writes : g.writes[k].newer < Cardinality(Account)
    /\ g.op = "remove" =>
          \A k \in DOMAIN g.writes :
             g.writes[k].newer = 0 /\ (g.pc # "undo" => ~Pends(g, g.writes[k].file))
    /\ g.op = "repair" => g.writes = <<>>

\* Where no number in the vault is above high, every row of g goes one above at most.
Numbered(g, high) ==
    g.op \in Locking /\ g.pc # "undo" =>
       /\ \A k \in DOMAIN g.made : g.made[k].provider =< high + Len(g.made)
       /\ g.pc \in AtFiles => g.row.provider =< high + Len(g.made) + 1
       /\ g.pc = "name" \/ (g.op = "import" /\ g.pc \in AtFiles \cup {"next"}) =>
             \A n \in g.reserved :
                n =< high + Len(g.made) + (IF g.pc \in AtFiles THEN 1 ELSE 0)

\* The user's own providers are in opencode.json where they were.
Owned(doc) == \A n \in Provider : doc.entries[n] = User => n \in Own

\* Call g wastes neither numbers nor backups.
Thrifty(g, high) ==
    /\ Counted(g) /\ Numbered(g, high)
    /\ \A k \in DOMAIN g.writes : g.writes[k].file = "opencode" => Owned(g.writes[k].before)

\* The highest number that is not the application's.
Top == Max(Own \cup {Primary})

\* Call g imports account a.
Imports(g, a) ==
    /\ g.op = "import" /\ g.pc # "undo"
    /\ \/ a \in Accounts(g.todo) \cup Accounts(g.made)
       \/ AtRow(g) /\ g.row.account = a

\* The accounts that may still get into the vault: never again, once they have been there.
Open == { a \in Account : \/ a \in outside \cup pending
                          \/ a \notin Accounts(vault) /\ \E j \in Job : Imports(job[j], a) }

\* No row has a higher number: each of the other accounts has raised it by one at most.
Highest == Top + Cardinality(Account \ Open)

\* The invariant from which Roomy and Backed follow.
ThriftInv ==
    /\ pending \cap outside = {}
    /\ \A i \in DOMAIN vault : vault[i].provider =< Highest
    /\ Owned(files["opencode"])
    /\ \A j \in Job : Thrifty(job[j], Highest)
=============================================================================
