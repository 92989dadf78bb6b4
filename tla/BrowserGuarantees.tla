------------------------- MODULE BrowserGuarantees -------------------------
(***************************************************************************)
(* What the browsers guarantee to their sessions and to the shutdown.      *)
(***************************************************************************)
EXTENDS BrowserRuntime

\* However many sessions ask at once, and however the user retries, one download runs,
\* and one browser of each client, which the client knows and will close: start() sees
\* the download under way, and the session that comes second to the lock the browser.
OneOfEach ==
    /\ downloads <= 1
    /\ \A c \in Client : launched[c] = IF browser[c] = "up" THEN 1 ELSE 0

\* After the shutdown no browser runs, and with it no context: the owners of sessions are
\* closed before the clients, so that none of them launches a browser again.
NothingIsLeft ==
    stage = "down" => stray = {} /\ \A c \in Client : launched[c] = 0 /\ browser[c] = None

\* Closing the download cancels it under nobody's feet: no session waits for it, nor
\* will open a page any more.
NobodyIsCutOff ==
    stage \in {"installer", "down"} => \A s \in Session : pc[s] \notin Opening

ShutdownIsOrdered == NothingIsLeft /\ NobodyIsCutOff

\* Whoever asks for a page gets it or an error, whatever becomes of the others that
\* wait with him, of the download and of the browser.
Answered == \A s \in Session : At(s, "lock") ~> pc[s] \notin Opening
=============================================================================
