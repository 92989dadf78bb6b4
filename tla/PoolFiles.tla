------------------------------ MODULE PoolFiles ------------------------------
(***************************************************************************)
(* The three configuration files of the account pool, auth.json,           *)
(* opencode.json and oh-my-openagent.json, as far as their providers go,   *)
(* and the pure updates that OpenCodeConfigWriter and OmoConfigWriter make *)
(* to a loaded document.  No variables.                                    *)
(***************************************************************************)
EXTENDS Naturals, Sequences, FiniteSets
LOCAL INSTANCE FiniteSetsExt
LOCAL INSTANCE SequencesExt

CONSTANTS
    Account,  \* accounts; each stands for its own API key, too
    Own       \* numbers of the providers that opencode.json may have beforehand

Nothing == "none"

\* A key that is not the application's.
User == "user"

\* Provider 1 is "opencode-go", provider n > 1 is "opencode-go<n>".  Each account
\* enters the pool once and may be given one more number in vain.
Primary == 1
Unassigned == 0
Provider == 1 .. Max(Own \cup {Primary}) + 2 * Cardinality(Account)

\* _PROVIDER_PATTERN is ^opencode-go([2-9][0-9]*)$: a number is seen by its first
\* digit, and 10 to 19 (and 100 to 199, ...) are not.
Legible(n) == \E k \in 0 .. 3 : n \div (10 ^ k) \in 2 .. 9

File == {"auth", "opencode", "omo"}

\* entries: whose key a provider has (auth, opencode), or which providers an agent
\* names (omo).  main: the provider of the agent's main model (omo).  runtime: the
\* fallback settings are filled in (omo).
Document == [ exists : BOOLEAN, runtime : BOOLEAN, main : Provider \cup {Unassigned},
              entries : [Provider -> Account \cup {User, Nothing}] ]

NoFile == [ exists |-> FALSE, runtime |-> FALSE, main |-> Unassigned,
            entries |-> [n \in Provider |-> Nothing] ]

Names(doc) == {n \in Provider : doc.entries[n] # Nothing}

With(doc, n, who) == [doc EXCEPT !.exists = TRUE, !.entries[n] = who]

Without(doc, n) ==
    [doc EXCEPT !.entries[n] = Nothing, !.main = IF @ = n THEN Unassigned ELSE @]

\* Mutant: the highest number itself.
HighestNumber(N) == Max({n \in N : Legible(n)} \cup {Primary})

\* _next_secondary_account_number
NextNumber(N) == 1 + Max({n \in N : Legible(n)} \cup {Primary})

\* append_account_fallback: a file the writer creates has one agent, whose main
\* model is the primary's.
OmoAppended(doc, n) ==
    LET base == IF doc.exists THEN doc ELSE [With(NoFile, Primary, User) EXCEPT !.main = Primary]
    IN  [With(base, n, User) EXCEPT !.runtime = TRUE]

\* repair_account_fallbacks: the names in N are added, other managed ones go; a
\* main model stays as it is.
OmoRepaired(doc, N) ==
    LET main == IF doc.exists THEN doc.main ELSE Min(N)
        kept == N \cup {main} \cup {n \in Names(doc) : n # Primary /\ ~Legible(n)}
    IN  [ exists |-> TRUE, runtime |-> TRUE, main |-> main,
          entries |-> [n \in Provider |-> IF n \in kept THEN User ELSE Nothing] ]

(***************************************************************************)
(* Rows of the vault's table of complete accounts, ordered by id.          *)
(***************************************************************************)
Row == { r \in [account : Account, provider : Nat \ {Unassigned}, oc : BOOLEAN, omo : BOOLEAN] :
            r.omo => r.oc }

Accounts(rows) == { rows[i].account : i \in DOMAIN rows }
Providers(rows) == { rows[i].provider : i \in DOMAIN rows }

RowOf(rows, a) == rows[CHOOSE i \in DOMAIN rows : rows[i].account = a]

\* An account has one row.
Others(rows, a) ==
    IF a \in Accounts(rows) THEN RemoveAt(rows, CHOOSE i \in DOMAIN rows : rows[i].account = a)
                            ELSE rows

\* _promotion_candidate: the account with the lowest number that is seen, if any
PromotionCandidate(rows) ==
    { r \in { rows[i] : i \in DOMAIN rows } :
        /\ Legible(r.provider)
        /\ \A i \in DOMAIN rows :
              Legible(rows[i].provider) => r.provider <= rows[i].provider }
=============================================================================
