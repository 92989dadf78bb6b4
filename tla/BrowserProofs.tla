--------------------------- MODULE BrowserProofs ---------------------------
(***************************************************************************)
(* Proofs, for any sessions and any number of failures, that one download  *)
(* and one browser of each client run and that the shutdown leaves none.   *)
(*                                                                         *)
(* LockInv ties the lock of a client to the session that downloads or      *)
(* launches for it; StageInv says who may still open a page at each stage  *)
(* of the shutdown, which is what closes a browser for good.               *)
(***************************************************************************)
EXTENDS BrowserGuarantees, TLAPS

(***************************************************************************)
(* The inductive invariant                                                 *)
(***************************************************************************)
\* Whoever waits for the download or launches holds the lock of a client without browser.
LockInv ==
    \A s \in Session :
        pc[s] \in {"ready", "launch"} => lock[ClientOf(s)] = s /\ browser[ClientOf(s)] = None

\* Only a download that runs has a thread, until the installer is closed.
DownloadInv ==
    /\ task = "running" => downloads = 1
    /\ stage # "down" /\ task # "running" => downloads = 0
    /\ downloads <= 1

LaunchInv == \A c \in Client : launched[c] = IF browser[c] = "up" THEN 1 ELSE 0

\* What the stages that are over have settled.
StageInv ==
    /\ stage # "serving" => \A s \in Removal \cup Check : pc[s] \notin Opening
    /\ stage \notin {"serving", "sweep"} => pc[Scheduler] \notin Opening
    /\ stage \in {"reaping", "account", "installer", "down"} =>
          \A s \in Flow \cup Mailbox : pc[s] \notin Opening
    /\ stage \notin {"serving", "sweep", "quota"} => browser["quota"] = None
    /\ stage \in {"account", "installer", "down"} => browser["email"] = None
    /\ stage \in {"installer", "down"} => browser["account"] = None

\* A context that nobody knows is in a browser that runs.
StrayInv == \A s \in stray : s \in Session /\ browser[ClientOf(s)] = "up"

SafeInv == LockInv /\ DownloadInv /\ LaunchInv /\ StageInv /\ StrayInv
IInv == TypeOK /\ SafeInv

\* Every session works with one of the clients.
LEMMA Clients == \A s \in Session : ClientOf(s) \in Client
  BY DEF ClientOf, Client

\* The stages of the shutdown, in their order.
LEMMA AfterIs ==
    /\ After("serving") = "sweep" /\ After("sweep") = "quota" /\ After("quota") = "removals"
    /\ After("removals") = "flows" /\ After("flows") = "reaping" /\ After("reaping") = "account"
    /\ After("account") = "installer" /\ After("installer") = "down"
  BY DEF After

\* Sessions of one kind share a client.
LEMMA Kinds ==
    /\ \A s \in Mailbox : ClientOf(s) = "email"
    /\ \A s \in Check \cup {Scheduler} : ClientOf(s) = "quota"
    /\ \A s \in Flow \cup Removal : ClientOf(s) = "account"
    /\ \A s \in Session : /\ ClientOf(s) = "email" <=> s \in Mailbox
                          /\ ClientOf(s) = "quota" <=> s \in Check \cup {Scheduler}
<1>1. \A s \in Flow \cup Removal : s \notin Mailbox /\ s \notin Check \cup {Scheduler}
  BY BrowserAssumption
<1>2. \A s \in Check \cup {Scheduler} : s \notin Mailbox
  BY BrowserAssumption
<1>3. \A s \in Mailbox : ClientOf(s) = "email"
  BY DEF ClientOf
<1>4. \A s \in Check \cup {Scheduler} : ClientOf(s) = "quota"
  BY <1>2 DEF ClientOf
<1>5. \A s \in Flow \cup Removal : ClientOf(s) = "account"
  BY <1>1 DEF ClientOf
<1>6. ASSUME NEW s \in Session
      PROVE  /\ ClientOf(s) = "email" <=> s \in Mailbox
             /\ ClientOf(s) = "quota" <=> s \in Check \cup {Scheduler}
  <2>1. CASE s \in Flow \cup Removal
    BY <1>1, <1>5, <2>1
  <2>2. CASE s \in Mailbox
    BY <1>2, <1>3, <2>2
  <2>3. CASE s \in Check \cup {Scheduler}
    BY <1>2, <1>4, <2>3
  <2> QED
    BY <2>1, <2>2, <2>3 DEF Session
<1> QED
  BY <1>3, <1>4, <1>5, <1>6

\* Every step keeps the types.
LEMMA TypeStep == ASSUME IInv, Next PROVE TypeOK'
<1> USE Clients, AfterIs, BrowserAssumption
    DEF IInv, TypeOK, At, Goto, Fails, Opening, Label, Stage, Client, installer, clients
<1>1. CASE DownloadEnds
  BY <1>1 DEF DownloadEnds, SafeInv, DownloadInv
<1>2. CASE Retry
  BY <1>2 DEF Retry, Start, MustDownload
<1>3. CASE CheckNext
  <2>1. sweep' \in (0 .. MaxSweep) \cup {None}
    BY <1>3 DEF CheckNext
  <2>2. pc' \in [Session -> Label] /\ late' \subseteq {s \in Session : pc'[s] = "ready"}
    BY <1>3 DEF CheckNext
  <2> QED
    BY <1>3, <2>1, <2>2 DEF CheckNext
<1>4. CASE NewSweep
  BY <1>4 DEF NewSweep
<1>5. CASE \E s \in Session : Page(s)
  BY <1>5 DEF Page, MayOpen
<1>6. CASE \E s \in Session : Enter(s)
  BY <1>6 DEF Enter, Start, MustDownload
<1>7. CASE \E s \in Session : Ready(s)
  BY <1>7 DEF Ready, Unlock
<1>8. CASE \E s \in Session : Launch(s)
  BY <1>8 DEF Launch, Unlock
<1>9. CASE \E s \in Session : NewContext(s)
  BY <1>9 DEF NewContext
<1>10. CASE \E s \in Session : Prepare(s)
  BY <1>10 DEF Prepare
<1>11. CASE \E s \in Session : Closed(s)
  BY <1>11 DEF Closed
<1>12. CASE \E s \in Session : Close(s)
  BY <1>12 DEF Close
<1>13. CASE \E s \in Session : Cancel(s)
  BY <1>13 DEF Cancel, Interrupted
<1>14. CASE \E c \in Client : Die(c)
  BY <1>14 DEF Die, SafeInv, LaunchInv
<1>15. CASE Stop
  BY <1>15 DEF Stop, Passes
<1>16. CASE SweepOver
  BY <1>16 DEF SweepOver, Passes
<1>17. CASE CloseQuota
  BY <1>17 DEF CloseQuota, Passes, CloseBrowser, SafeInv, LaunchInv
<1>18. CASE RemovalsClosed
  BY <1>18 DEF RemovalsClosed, Passes
<1>19. CASE CancelFlows
  <2>1. pc' \in [Session -> Label] /\ late' \subseteq {s \in Session : pc'[s] = "ready"}
    BY <1>19 DEF CancelFlows, Interrupted
  <2>2. lock' \in [Client -> Session \cup {None}]
    BY <1>19 DEF CancelFlows, Interrupted
  <2>3. stray' \subseteq Session
    BY <1>19 DEF CancelFlows, Interrupted, Session
  <2> QED
    BY <1>19, <2>1, <2>2, <2>3 DEF CancelFlows, Passes
<1>20. CASE CloseFlows
  BY <1>20 DEF CloseFlows, Passes, CloseBrowser, SafeInv, LaunchInv
<1>21. CASE CloseAccount
  BY <1>21 DEF CloseAccount, Passes, CloseBrowser, SafeInv, LaunchInv
<1>22. CASE CloseInstaller
  BY <1>22 DEF CloseInstaller, Passes
<1>23. CASE Down
  BY <1>23 DEF Down, vars
<1> QED
  BY <1>1, <1>2, <1>3, <1>4, <1>5, <1>6, <1>7, <1>8, <1>9, <1>10, <1>11, <1>12, <1>13, <1>14,
     <1>15, <1>16, <1>17, <1>18, <1>19, <1>20, <1>21, <1>22, <1>23 DEF Next, Work, Shutdown

\* Every step keeps the locks, the download, the launches and what the stages have settled.
LEMMA SafeStep == ASSUME IInv, Next PROVE SafeInv'
<1> USE Clients, Kinds, AfterIs, BrowserAssumption
    DEF IInv, TypeOK, At, Goto, Fails, Opening, Label, Stage, Client, installer, clients
<1>1. CASE DownloadEnds
  <2>1. LockInv'
    BY <1>1 DEF DownloadEnds, SafeInv, LockInv
  <2>2. DownloadInv'
    BY <1>1 DEF DownloadEnds, SafeInv, DownloadInv
  <2>3. LaunchInv'
    BY <1>1 DEF DownloadEnds, SafeInv, LaunchInv
  <2>4. StageInv'
    BY <1>1 DEF DownloadEnds, SafeInv, StageInv, Session
  <2>5. StrayInv'
    BY <1>1 DEF DownloadEnds, SafeInv, StrayInv, Session
  <2> QED
    BY <2>1, <2>2, <2>3, <2>4, <2>5 DEF SafeInv
<1>2. CASE Retry
  <2>1. LockInv'
    BY <1>2 DEF Retry, Start, MustDownload, SafeInv, LockInv
  <2>2. DownloadInv'
    BY <1>2 DEF Retry, Start, MustDownload, SafeInv, DownloadInv
  <2>3. LaunchInv'
    BY <1>2 DEF Retry, Start, MustDownload, SafeInv, LaunchInv
  <2>4. StageInv'
    BY <1>2 DEF Retry, Start, MustDownload, SafeInv, StageInv, Session
  <2>5. StrayInv'
    BY <1>2 DEF Retry, Start, MustDownload, SafeInv, StrayInv, Session
  <2> QED
    BY <2>1, <2>2, <2>3, <2>4, <2>5 DEF SafeInv
<1>3. CASE CheckNext
  <2>1. LockInv'
    BY <1>3 DEF CheckNext, SafeInv, LockInv
  <2>2. DownloadInv'
    BY <1>3 DEF CheckNext, SafeInv, DownloadInv
  <2>3. LaunchInv'
    BY <1>3 DEF CheckNext, SafeInv, LaunchInv
  <2>4. StageInv'
    BY <1>3 DEF CheckNext, SafeInv, StageInv, Session
  <2>5. StrayInv'
    BY <1>3 DEF CheckNext, SafeInv, StrayInv, Session
  <2> QED
    BY <2>1, <2>2, <2>3, <2>4, <2>5 DEF SafeInv
<1>4. CASE NewSweep
  <2>1. LockInv'
    BY <1>4 DEF NewSweep, SafeInv, LockInv
  <2>2. DownloadInv'
    BY <1>4 DEF NewSweep, SafeInv, DownloadInv
  <2>3. LaunchInv'
    BY <1>4 DEF NewSweep, SafeInv, LaunchInv
  <2>4. StageInv'
    BY <1>4 DEF NewSweep, SafeInv, StageInv, Session
  <2>5. StrayInv'
    BY <1>4 DEF NewSweep, SafeInv, StrayInv, Session
  <2> QED
    BY <2>1, <2>2, <2>3, <2>4, <2>5 DEF SafeInv
<1>5. CASE \E s \in Session : Page(s)
  <2>1. LockInv'
    BY <1>5 DEF Page, MayOpen, SafeInv, LockInv
  <2>2. DownloadInv'
    BY <1>5 DEF Page, MayOpen, SafeInv, DownloadInv
  <2>3. LaunchInv'
    BY <1>5 DEF Page, MayOpen, SafeInv, LaunchInv
  <2>4. StageInv'
    BY <1>5 DEF Page, MayOpen, SafeInv, StageInv, Session
  <2>5. StrayInv'
    BY <1>5 DEF Page, MayOpen, SafeInv, StrayInv, Session
  <2> QED
    BY <2>1, <2>2, <2>3, <2>4, <2>5 DEF SafeInv
<1>6. CASE \E s \in Session : Enter(s)
  <2>1. LockInv'
    BY <1>6 DEF Enter, Start, MustDownload, SafeInv, LockInv
  <2>2. DownloadInv'
    BY <1>6 DEF Enter, Start, MustDownload, SafeInv, DownloadInv, StageInv, Session
  <2>3. LaunchInv'
    BY <1>6 DEF Enter, Start, MustDownload, SafeInv, LaunchInv
  <2>4. StageInv'
    BY <1>6 DEF Enter, Start, MustDownload, SafeInv, StageInv, Session
  <2>5. StrayInv'
    BY <1>6 DEF Enter, Start, MustDownload, SafeInv, StrayInv, Session
  <2> QED
    BY <2>1, <2>2, <2>3, <2>4, <2>5 DEF SafeInv
<1>7. CASE \E s \in Session : Ready(s)
  <2>1. LockInv'
    BY <1>7 DEF Ready, Unlock, SafeInv, LockInv
  <2>2. DownloadInv'
    BY <1>7 DEF Ready, Unlock, SafeInv, DownloadInv
  <2>3. LaunchInv'
    BY <1>7 DEF Ready, Unlock, SafeInv, LaunchInv
  <2>4. StageInv'
    BY <1>7 DEF Ready, Unlock, SafeInv, StageInv, Session
  <2>5. StrayInv'
    BY <1>7 DEF Ready, Unlock, SafeInv, StrayInv, Session
  <2> QED
    BY <2>1, <2>2, <2>3, <2>4, <2>5 DEF SafeInv
<1>8. CASE \E s \in Session : Launch(s)
  <2>1. LockInv'
    BY <1>8 DEF Launch, Unlock, SafeInv, LockInv
  <2>2. DownloadInv'
    BY <1>8 DEF Launch, Unlock, SafeInv, DownloadInv
  <2>3. LaunchInv'
    BY <1>8 DEF Launch, Unlock, SafeInv, LaunchInv, LockInv
  <2>4. StageInv'
    BY <1>8 DEF Launch, Unlock, SafeInv, StageInv, Session
  <2>5. StrayInv'
    BY <1>8 DEF Launch, Unlock, SafeInv, StrayInv, Session
  <2> QED
    BY <2>1, <2>2, <2>3, <2>4, <2>5 DEF SafeInv
<1>9. CASE \E s \in Session : NewContext(s)
  <2>1. LockInv'
    BY <1>9 DEF NewContext, SafeInv, LockInv
  <2>2. DownloadInv'
    BY <1>9 DEF NewContext, SafeInv, DownloadInv
  <2>3. LaunchInv'
    BY <1>9 DEF NewContext, SafeInv, LaunchInv
  <2>4. StageInv'
    BY <1>9 DEF NewContext, SafeInv, StageInv, Session
  <2>5. StrayInv'
    BY <1>9 DEF NewContext, SafeInv, StrayInv, Session
  <2> QED
    BY <2>1, <2>2, <2>3, <2>4, <2>5 DEF SafeInv
<1>10. CASE \E s \in Session : Prepare(s)
  <2>1. LockInv'
    BY <1>10 DEF Prepare, SafeInv, LockInv
  <2>2. DownloadInv'
    BY <1>10 DEF Prepare, SafeInv, DownloadInv
  <2>3. LaunchInv'
    BY <1>10 DEF Prepare, SafeInv, LaunchInv
  <2>4. StageInv'
    BY <1>10 DEF Prepare, SafeInv, StageInv, Session
  <2>5. StrayInv'
    BY <1>10 DEF Prepare, SafeInv, StrayInv, Session
  <2> QED
    BY <2>1, <2>2, <2>3, <2>4, <2>5 DEF SafeInv
<1>11. CASE \E s \in Session : Closed(s)
  <2>1. LockInv'
    BY <1>11 DEF Closed, SafeInv, LockInv
  <2>2. DownloadInv'
    BY <1>11 DEF Closed, SafeInv, DownloadInv
  <2>3. LaunchInv'
    BY <1>11 DEF Closed, SafeInv, LaunchInv
  <2>4. StageInv'
    BY <1>11 DEF Closed, SafeInv, StageInv, Session
  <2>5. StrayInv'
    BY <1>11 DEF Closed, SafeInv, StrayInv, Session
  <2> QED
    BY <2>1, <2>2, <2>3, <2>4, <2>5 DEF SafeInv
<1>12. CASE \E s \in Session : Close(s)
  <2>1. LockInv'
    BY <1>12 DEF Close, SafeInv, LockInv
  <2>2. DownloadInv'
    BY <1>12 DEF Close, SafeInv, DownloadInv
  <2>3. LaunchInv'
    BY <1>12 DEF Close, SafeInv, LaunchInv
  <2>4. StageInv'
    BY <1>12 DEF Close, SafeInv, StageInv, Session
  <2>5. StrayInv'
    BY <1>12 DEF Close, SafeInv, StrayInv, Session
  <2> QED
    BY <2>1, <2>2, <2>3, <2>4, <2>5 DEF SafeInv
<1>13. CASE \E s \in Session : Cancel(s)
  <2>1. LockInv'
    BY <1>13 DEF Cancel, Interrupted, SafeInv, LockInv
  <2>2. DownloadInv'
    BY <1>13 DEF Cancel, Interrupted, SafeInv, DownloadInv
  <2>3. LaunchInv'
    BY <1>13 DEF Cancel, Interrupted, SafeInv, LaunchInv
  <2>4. StageInv'
    BY <1>13 DEF Cancel, Interrupted, SafeInv, StageInv, Session
  <2>5. StrayInv'
    BY <1>13 DEF Cancel, Interrupted, SafeInv, StrayInv, Session
  <2> QED
    BY <2>1, <2>2, <2>3, <2>4, <2>5 DEF SafeInv
<1>14. CASE \E c \in Client : Die(c)
  <2>1. LockInv'
    BY <1>14 DEF Die, SafeInv, LockInv
  <2>2. DownloadInv'
    BY <1>14 DEF Die, SafeInv, DownloadInv
  <2>3. LaunchInv'
    BY <1>14 DEF Die, SafeInv, LaunchInv
  <2>4. StageInv'
    BY <1>14 DEF Die, SafeInv, StageInv, Session
  <2>5. StrayInv'
    BY <1>14 DEF Die, SafeInv, StrayInv, Session
  <2> QED
    BY <2>1, <2>2, <2>3, <2>4, <2>5 DEF SafeInv
<1>15. CASE Stop
  <2>1. LockInv'
    BY <1>15 DEF Stop, Passes, SafeInv, LockInv
  <2>2. DownloadInv'
    BY <1>15 DEF Stop, Passes, SafeInv, DownloadInv
  <2>3. LaunchInv'
    BY <1>15 DEF Stop, Passes, SafeInv, LaunchInv
  <2>4. StageInv'
    BY <1>15 DEF Stop, Passes, SafeInv, StageInv, Session
  <2>5. StrayInv'
    BY <1>15 DEF Stop, Passes, SafeInv, StrayInv, Session
  <2> QED
    BY <2>1, <2>2, <2>3, <2>4, <2>5 DEF SafeInv
<1>16. CASE SweepOver
  <2>1. LockInv'
    BY <1>16 DEF SweepOver, Passes, SafeInv, LockInv
  <2>2. DownloadInv'
    BY <1>16 DEF SweepOver, Passes, SafeInv, DownloadInv
  <2>3. LaunchInv'
    BY <1>16 DEF SweepOver, Passes, SafeInv, LaunchInv
  <2>4. StageInv'
    BY <1>16 DEF SweepOver, Passes, SafeInv, StageInv, Session
  <2>5. StrayInv'
    BY <1>16 DEF SweepOver, Passes, SafeInv, StrayInv, Session
  <2> QED
    BY <2>1, <2>2, <2>3, <2>4, <2>5 DEF SafeInv
<1>17. CASE CloseQuota
  <2>1. LockInv'
    BY <1>17 DEF CloseQuota, Passes, CloseBrowser, SafeInv, LockInv
  <2>2. DownloadInv'
    BY <1>17 DEF CloseQuota, Passes, CloseBrowser, SafeInv, DownloadInv
  <2>3. LaunchInv'
    BY <1>17 DEF CloseQuota, Passes, CloseBrowser, SafeInv, LaunchInv
  <2>4. StageInv'
    BY <1>17 DEF CloseQuota, Passes, CloseBrowser, SafeInv, StageInv, Session
  <2>5. StrayInv'
    BY <1>17 DEF CloseQuota, Passes, CloseBrowser, SafeInv, StrayInv, Session
  <2> QED
    BY <2>1, <2>2, <2>3, <2>4, <2>5 DEF SafeInv
<1>18. CASE RemovalsClosed
  <2>1. LockInv'
    BY <1>18 DEF RemovalsClosed, Passes, SafeInv, LockInv
  <2>2. DownloadInv'
    BY <1>18 DEF RemovalsClosed, Passes, SafeInv, DownloadInv
  <2>3. LaunchInv'
    BY <1>18 DEF RemovalsClosed, Passes, SafeInv, LaunchInv
  <2>4. StageInv'
    BY <1>18 DEF RemovalsClosed, Passes, SafeInv, StageInv, Session
  <2>5. StrayInv'
    BY <1>18 DEF RemovalsClosed, Passes, SafeInv, StrayInv, Session
  <2> QED
    BY <2>1, <2>2, <2>3, <2>4, <2>5 DEF SafeInv
<1>19. CASE CancelFlows
  <2>1. LockInv'
    BY <1>19 DEF CancelFlows, Passes, Interrupted, SafeInv, LockInv
  <2>2. DownloadInv'
    BY <1>19 DEF CancelFlows, Passes, Interrupted, SafeInv, DownloadInv
  <2>3. LaunchInv'
    BY <1>19 DEF CancelFlows, Passes, Interrupted, SafeInv, LaunchInv
  <2>4. StageInv'
    BY <1>19 DEF CancelFlows, Passes, Interrupted, SafeInv, StageInv, Session
  <2>5. StrayInv'
    BY <1>19 DEF CancelFlows, Passes, Interrupted, SafeInv, StrayInv, Session
  <2> QED
    BY <2>1, <2>2, <2>3, <2>4, <2>5 DEF SafeInv
<1>20. CASE CloseFlows
  <2>1. LockInv'
    BY <1>20 DEF CloseFlows, Passes, CloseBrowser, SafeInv, LockInv
  <2>2. DownloadInv'
    BY <1>20 DEF CloseFlows, Passes, CloseBrowser, SafeInv, DownloadInv
  <2>3. LaunchInv'
    BY <1>20 DEF CloseFlows, Passes, CloseBrowser, SafeInv, LaunchInv
  <2>4. StageInv'
    BY <1>20 DEF CloseFlows, Passes, CloseBrowser, SafeInv, StageInv, Session
  <2>5. StrayInv'
    BY <1>20 DEF CloseFlows, Passes, CloseBrowser, SafeInv, StrayInv, Session
  <2> QED
    BY <2>1, <2>2, <2>3, <2>4, <2>5 DEF SafeInv
<1>21. CASE CloseAccount
  <2>1. LockInv'
    BY <1>21 DEF CloseAccount, Passes, CloseBrowser, SafeInv, LockInv
  <2>2. DownloadInv'
    BY <1>21 DEF CloseAccount, Passes, CloseBrowser, SafeInv, DownloadInv
  <2>3. LaunchInv'
    BY <1>21 DEF CloseAccount, Passes, CloseBrowser, SafeInv, LaunchInv
  <2>4. StageInv'
    BY <1>21 DEF CloseAccount, Passes, CloseBrowser, SafeInv, StageInv, Session
  <2>5. StrayInv'
    BY <1>21 DEF CloseAccount, Passes, CloseBrowser, SafeInv, StrayInv, Session
  <2> QED
    BY <2>1, <2>2, <2>3, <2>4, <2>5 DEF SafeInv
<1>22. CASE CloseInstaller
  <2>1. LockInv'
    BY <1>22 DEF CloseInstaller, Passes, SafeInv, LockInv
  <2>2. DownloadInv'
    BY <1>22 DEF CloseInstaller, Passes, SafeInv, DownloadInv
  <2>3. LaunchInv'
    BY <1>22 DEF CloseInstaller, Passes, SafeInv, LaunchInv
  <2>4. StageInv'
    BY <1>22 DEF CloseInstaller, Passes, SafeInv, StageInv, Session
  <2>5. StrayInv'
    BY <1>22 DEF CloseInstaller, Passes, SafeInv, StrayInv, Session
  <2> QED
    BY <2>1, <2>2, <2>3, <2>4, <2>5 DEF SafeInv
<1>23. CASE Down
  BY <1>23 DEF Down, vars, SafeInv, LockInv, DownloadInv, LaunchInv, StageInv, StrayInv
<1> QED
  BY <1>1, <1>2, <1>3, <1>4, <1>5, <1>6, <1>7, <1>8, <1>9, <1>10, <1>11, <1>12, <1>13, <1>14,
     <1>15, <1>16, <1>17, <1>18, <1>19, <1>20, <1>21, <1>22, <1>23 DEF Next, Work, Shutdown

\* The invariant holds before anything is asked.
LEMMA InitInv == Init => IInv
<1> SUFFICES ASSUME Init PROVE IInv
  OBVIOUS
<1> USE BrowserAssumption DEF Init
<1>1. TypeOK
  BY DEF TypeOK, Label, Opening, Stage
<1>2. SafeInv
  BY DEF SafeInv, LockInv, DownloadInv, LaunchInv, StageInv, StrayInv, Opening, Session
<1> QED
  BY <1>1, <1>2 DEF IInv

\* Every step keeps the invariant.
LEMMA NextInv == IInv /\ [Next]_vars => IInv'
<1>1. CASE UNCHANGED vars
  BY <1>1 DEF vars, installer, clients, IInv, TypeOK, SafeInv, LockInv, DownloadInv, LaunchInv,
     StageInv,
              StrayInv
<1> QED
  BY <1>1, TypeStep, SafeStep DEF IInv

\* The inductive invariant of downloads, launches and the shutdown.
THEOREM Invariant == Spec => []IInv
  BY InitInv, NextInv, PTL DEF Spec

\* Every variable keeps its type.
THEOREM TypeCorrect == Spec => []TypeOK
  BY Invariant, PTL DEF IInv

\* One download at a time and one browser of each client, which the client knows, for any
\* number of sessions, however they fail and whoever of them is cancelled.
THEOREM OneOfEachAlways == Spec => []OneOfEach
<1>1. IInv => OneOfEach
  BY DEF IInv, SafeInv, DownloadInv, LaunchInv, OneOfEach
<1> QED
  BY <1>1, Invariant, PTL

\* The order of lifespan closes every browser for good and every context with it, and the
\* download under nobody's feet.
THEOREM OrderedShutdown == Spec => []ShutdownIsOrdered
<1>1. IInv => ShutdownIsOrdered
  <2> SUFFICES ASSUME IInv PROVE ShutdownIsOrdered
    OBVIOUS
  <2> USE Clients, BrowserAssumption DEF IInv, SafeInv
  <2>1. stage = "down" => \A c \in Client : browser[c] = None
    BY DEF StageInv, Client
  <2>2. NothingIsLeft
    BY <2>1 DEF NothingIsLeft, LaunchInv, StrayInv
  <2>3. NobodyIsCutOff
    BY DEF NobodyIsCutOff, StageInv, Session
  <2> QED
    BY <2>2, <2>3 DEF ShutdownIsOrdered
<1> QED
  BY <1>1, Invariant, PTL
=============================================================================
