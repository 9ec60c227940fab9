----------------------------- MODULE ProjectSync -----------------------------
(***************************************************************************)
(* Write-through saving of one project: lib/projectSync.ts in the browser   *)
(* tab of an operator, its requests, and routers/projects.py behind them.   *)
(* A session is one life of the sync instance, from initServerProjects to   *)
(* stopServerProjects.  What the project holds is a version; two contents   *)
(* that serialise alike are one version, so an edit may lead back to an     *)
(* earlier one.  The toasts and the device-local meta are left out.         *)
(***************************************************************************)
EXTENDS Naturals

CONSTANTS
    Versions,       \* what the project can hold
    None,
    MaxEdits,
    MaxDenials,     \* answers 401 and 403
    MaxReverts,     \* edits that lead back to the acknowledged version
    MaxFailures, MaxSessions, MaxForeign    \* bounds

ASSUME SyncAssumption ==
    /\ None \notin Versions
    /\ {MaxEdits, MaxDenials, MaxReverts, MaxFailures, MaxSessions, MaxForeign} \subseteq Nat

Contents == Versions \cup {None}

\* The module state of projectSync.ts, of the one project; expired: api.ts
\* cleared the auth store on a 401, and the workspace is about to unmount.
Tabs == [lastSynced : Contents, known : BOOLEAN, timer : BOOLEAN, inFlight : BOOLEAN,
         changed : BOOLEAN, pending : BOOLEAN, retry : BOOLEAN,
         forbidden : BOOLEAN, expired : BOOLEAN]

Answers == {"ok", "missing", "duplicate", "denied", "unauthorized"}
\* A request: live while a caller of the current session awaits it; "found" is
\* update_project between its find_one and its replace_one.
Requests == [op : {"put", "post", "delete"}, version : Contents, live : BOOLEAN,
             at : {"sent", "found"} \cup Answers]

VARIABLES
    server,         \* the document of the project
    status,         \* of the session
    content,        \* the project in the store
    tab,
    requests,
    removed,        \* history: whether the operator deleted the project, and
                    \* whether the tab knew of its document then
    edits, denials, reverts, failures, sessions, foreign

counts == <<edits, denials, reverts, failures, sessions, foreign>>
vars == <<server, status, content, tab, requests, removed, counts>>

TypeOK ==
    /\ server \in Contents /\ content \in Contents
    /\ status \in {"idle", "loading", "listed", "ready", "error"}
    /\ tab \in Tabs
    /\ requests \subseteq Requests
    /\ removed \in {"no", "known", "unknown"}
    /\ edits \in 0..MaxEdits /\ denials \in 0..MaxDenials /\ reverts \in 0..MaxReverts
    /\ failures \in 0..MaxFailures
    /\ sessions \in 0..MaxSessions /\ foreign \in 0..MaxForeign

NewTab == [lastSynced |-> None, known |-> FALSE, timer |-> FALSE, inFlight |-> FALSE,
           changed |-> FALSE, pending |-> FALSE, retry |-> FALSE,
           forbidden |-> FALSE, expired |-> FALSE]

Init ==
    /\ server \in Contents
    /\ status = "idle"
    /\ content = None
    /\ tab = NewTab
    /\ requests = {}
    /\ removed = "no"
    /\ edits = 0 /\ denials = 0 /\ reverts = 0 /\ failures = 0 /\ sessions = 0 /\ foreign = 0

-----------------------------------------------------------------------------
\* flushProject, up to its request.

Marked == [tab EXCEPT !.pending = TRUE]
Scheduled == [Marked EXCEPT !.timer = TRUE]

\* Mutant: the in-flight set is not consulted.
NeverBusy(t) == FALSE
Busy(t) == t.inFlight

Writes(t, c) == ~t.forbidden /\ ~Busy(t) /\ c \notin {None, t.lastSynced}

Flushed(t, c) ==
    CASE t.forbidden -> t
      [] ~t.forbidden /\ Busy(t) -> [t EXCEPT !.timer = FALSE, !.changed = TRUE]
      [] ~t.forbidden /\ ~Busy(t) /\ c = None -> [t EXCEPT !.timer = FALSE]
      [] ~t.forbidden /\ ~Busy(t) /\ c # None /\ c = t.lastSynced ->
            [t EXCEPT !.timer = FALSE, !.pending = FALSE]
      [] Writes(t, c) -> [t EXCEPT !.timer = FALSE, !.inFlight = TRUE]

Request(op, v) == [op |-> op, version |-> v, live |-> TRUE, at |-> "sent"]

Flush(t, c) ==
    /\ tab' = Flushed(t, c)
    /\ requests' = IF Writes(t, c)
                     THEN requests \cup {Request(IF t.known THEN "put" ELSE "post", c)}
                     ELSE requests

-----------------------------------------------------------------------------
\* Sessions: initServerProjects and stopServerProjects.

\* The generation moved on: their callers drop the answers.
Orphaned == {[r EXCEPT !.live = FALSE] : r \in requests}

SignIn ==
    /\ status \in {"idle", "error"}
    /\ sessions < MaxSessions
    /\ sessions' = sessions + 1
    /\ status' = "loading"
    /\ tab' = NewTab /\ requests' = Orphaned
    /\ UNCHANGED <<server, content, removed, edits, denials, reverts, failures, foreign>>

\* The session ends, or another account takes over the tab.
SignOut ==
    /\ status # "idle"
    /\ status' = "idle"
    /\ content' = None
    /\ tab' = NewTab /\ requests' = Orphaned
    /\ UNCHANGED <<server, removed, counts>>

\* listProjects: an empty list lands on the landing page, or imports what this
\* browser holds and pushes it.
Listed ==
    /\ status = "loading"
    /\ IF server # None
         THEN status' = "listed" /\ UNCHANGED <<content, tab, requests>>
         ELSE /\ status' = "ready"
              /\ content' \in IF removed = "no" THEN Contents ELSE {None}
              /\ IF content' = None THEN UNCHANGED <<tab, requests>> ELSE Flush(Marked, content')
    /\ UNCHANGED <<server, removed, counts>>

\* getProject; the baselines are set before the store is hydrated.
Loaded ==
    /\ status = "listed"
    /\ IF server = None THEN status' = "error" /\ UNCHANGED <<content, tab>>
       ELSE /\ status' = "ready"
            /\ content' = server
            /\ tab' = [tab EXCEPT !.lastSynced = server, !.known = TRUE]
    /\ UNCHANGED <<server, requests, removed, counts>>

LoadFails ==
    /\ status \in {"loading", "listed"}
    /\ failures < MaxFailures
    /\ failures' = failures + 1
    /\ status' = "error"
    /\ UNCHANGED <<server, content, tab, requests, removed, edits, denials, reverts, sessions, foreign>>

-----------------------------------------------------------------------------
\* The operator, through the subscription on the store.

\* A new project is scheduled, and flushed because it becomes the active one.
Create ==
    /\ status = "ready" /\ content = None
    /\ server = None /\ removed = "no"
    /\ edits < MaxEdits
    /\ edits' = edits + 1
    /\ content' \in Versions
    /\ Flush(Scheduled, content')
    /\ UNCHANGED <<server, status, removed, denials, reverts, failures, sessions, foreign>>

\* An explicit save is flushed, any other change debounced; one that equals the
\* acknowledged copy is passed over.
Edit(v, saves) ==
    /\ status = "ready" /\ content \notin {None, v}
    /\ reverts' = IF v = tab.lastSynced THEN reverts + 1 ELSE reverts
    /\ reverts' <= MaxReverts
    /\ edits < MaxEdits
    /\ edits' = edits + 1
    /\ content' = v
    /\ \/ v = tab.lastSynced /\ UNCHANGED <<tab, requests>>
       \/ v # tab.lastSynced /\ saves /\ Flush(Marked, v)
       \/ v # tab.lastSynced /\ ~saves /\ tab' = Scheduled /\ UNCHANGED requests
    /\ UNCHANGED <<server, status, removed, denials, failures, sessions, foreign>>

\* flushAllPending on a switch, on coming back online, or before unload.
Switch ==
    /\ status = "ready" /\ tab.pending
    /\ Flush(tab, content)
    /\ UNCHANGED <<server, status, content, removed, counts>>

\* removeProject
Remove ==
    /\ status = "ready" /\ content # None
    /\ content' = None
    /\ removed' = IF tab.known THEN "known" ELSE "unknown"
    /\ tab' = [tab EXCEPT !.timer = FALSE, !.pending = FALSE, !.lastSynced = None]
    /\ requests' = IF tab.known THEN requests \cup {Request("delete", None)} ELSE requests
    /\ UNCHANGED <<server, status, counts>>

-----------------------------------------------------------------------------
\* Timers.

Debounced ==
    /\ tab.timer
    /\ Flush([tab EXCEPT !.timer = FALSE], content)
    /\ UNCHANGED <<server, status, content, removed, counts>>

Retry ==
    /\ tab.retry
    /\ IF tab.pending THEN Flush([tab EXCEPT !.retry = FALSE], content)
       ELSE tab' = [tab EXCEPT !.retry = FALSE] /\ UNCHANGED requests
    /\ UNCHANGED <<server, status, content, removed, counts>>

-----------------------------------------------------------------------------
\* routers/projects.py

To(r, at) == requests' = (requests \ {r}) \cup {[r EXCEPT !.at = at]}

Insert(r) ==
    /\ r.op = "post" /\ r.at = "sent"
    /\ IF server = None THEN server' = r.version /\ To(r, "ok")
       ELSE To(r, "duplicate") /\ UNCHANGED server

Find(r) ==
    /\ r.op = "put" /\ r.at = "sent"
    /\ To(r, IF server = None THEN "missing" ELSE "found")
    /\ UNCHANGED server

\* replace_one without upsert.
Replaced(r) == IF server = None THEN None ELSE r.version

Replace(r) ==
    /\ r.at = "found"
    /\ server' = Replaced(r)
    /\ To(r, "ok")

Delete(r) ==
    /\ r.op = "delete" /\ r.at = "sent"
    /\ server' = None
    /\ To(r, IF server = None THEN "missing" ELSE "ok")

Deny(r) ==
    /\ r.at = "sent"
    /\ denials < MaxDenials /\ denials' = denials + 1
    /\ \E at \in {"denied", "unauthorized"} : To(r, at)
    /\ UNCHANGED <<server, edits, reverts, failures, sessions, foreign>>

Serve(r) ==
    /\ \/ (Insert(r) \/ Find(r) \/ Replace(r) \/ Delete(r)) /\ UNCHANGED counts
       \/ Deny(r)
    /\ UNCHANGED <<status, content, tab, removed>>

\* Another operator deletes the document.
ForeignDelete ==
    /\ server # None
    /\ foreign < MaxForeign
    /\ foreign' = foreign + 1
    /\ server' = None
    /\ UNCHANGED <<status, content, tab, requests, removed, edits, denials, reverts, failures, sessions>>

-----------------------------------------------------------------------------
\* Answers.

\* Mutant: a change during the request is not flushed afterwards.
ForgetsChange(t) == [t EXCEPT !.inFlight = FALSE, !.changed = FALSE]
\* The finally block.
Settled(t) ==
    [t EXCEPT !.inFlight = FALSE, !.changed = FALSE,
              !.timer = @ \/ (t.changed /\ ~t.forbidden)]

Acked(v) == [tab EXCEPT !.known = TRUE, !.lastSynced = v, !.pending = FALSE]

\* Mutant: a failure of a known project does not arm the retry.
RetriesNew(at) == [tab EXCEPT !.retry = @ \/ ~tab.known]
\* The catch block, of a failure that retries.
Failed(at) ==
    [tab EXCEPT !.known = CASE at = "missing" -> FALSE [] at = "duplicate" -> TRUE
                            [] OTHER -> tab.known,
                !.retry = TRUE]

Answered(r) ==
    CASE r.at = "ok" -> Acked(r.version)
      [] r.at = "unauthorized" -> [tab EXCEPT !.expired = TRUE]
      [] r.at = "denied" -> [tab EXCEPT !.forbidden = TRUE, !.retry = FALSE]
      [] OTHER -> Failed(r.at)

\* The answer to flushProject reaches its caller, or nobody awaits it.
Answer(r) ==
    /\ r.op # "delete" /\ r.at \in Answers
    /\ requests' = requests \ {r}
    /\ tab' = IF r.live THEN Settled(Answered(r)) ELSE tab
    /\ UNCHANGED <<server, status, content, removed, counts>>

\* The answer to removeProject.
AnswerDelete(r) ==
    /\ r.op = "delete" /\ r.at \in Answers
    /\ requests' = requests \ {r}
    /\ tab' = IF ~r.live THEN tab
              ELSE IF r.at = "unauthorized" THEN [tab EXCEPT !.expired = TRUE]
              ELSE IF r.at = "denied" THEN tab
              ELSE [tab EXCEPT !.known = FALSE]
    /\ UNCHANGED <<server, status, content, removed, counts>>

\* The network fails the request, before or after the server sees it.
Fail(r) ==
    /\ r.live
    /\ failures < MaxFailures
    /\ failures' = failures + 1
    /\ \/ r.at # "found" /\ requests' = requests \ {r}
       \/ requests' = (requests \ {r}) \cup {[r EXCEPT !.live = FALSE]}
    /\ tab' = IF r.op = "delete" THEN tab ELSE Settled(Failed("none"))
    /\ UNCHANGED <<server, status, content, removed, edits, denials, reverts, sessions, foreign>>

-----------------------------------------------------------------------------
Timers == Debounced \/ Retry
Answering == \E r \in requests : Answer(r) \/ AnswerDelete(r)
Serving == \E r \in requests : Serve(r)

Next ==
    \/ SignIn \/ SignOut \/ Listed \/ Loaded \/ LoadFails
    \/ Create \/ Switch \/ Remove \/ ForeignDelete
    \/ \E v \in Versions, saves \in BOOLEAN : Edit(v, saves)
    \/ Timers \/ Answering \/ Serving
    \/ \E r \in requests : Fail(r)

Spec == Init /\ [][Next]_vars

\* Timers fire, the server serves and the browser delivers what is answered; a
\* request that fails does so as one of the bounded failures.
FairSpec ==
    /\ Spec
    /\ WF_vars(Debounced) /\ WF_vars(Retry) /\ WF_vars(Answering) /\ WF_vars(Serving)

-----------------------------------------------------------------------------
Unsaved ==
    /\ status = "ready" /\ content # None
    /\ content # tab.lastSynced
    /\ ~tab.forbidden /\ ~tab.expired

\* Nothing failed or was denied, nobody else wrote, no edit led back to the acknowledged version: what the
\* code does then is README.md's, What does not hold.
Calm == denials = 0 /\ failures = 0 /\ reverts = 0 /\ foreign = 0 /\ sessions <= 1

\* A project that differs from what the server acknowledged has a debounce, a
\* request or a retry under way that will flush it (flushProject, "nothing is
\* lost while the tab lives").
NothingForgotten ==
    Unsaved /\ Calm => tab.timer \/ tab.inFlight \/ (tab.pending /\ tab.retry)

\* A failed write that is still pending is never left without a trigger,
\* whatever fails (reportSaveFailure).
PendingIsDriven ==
    Unsaved /\ tab.pending => tab.timer \/ tab.inFlight \/ tab.retry

\* With nothing under way, a project that counts as saved is what the server holds
\* (lastSynced, the last acked copy), and one that was deleted after its document was
\* acknowledged has no document, also where a write raced the deletion (update_project:
\* "No upsert").
SavedIsServed ==
    Calm /\ requests = {} =>
        /\ status = "ready" /\ content # None /\ content = tab.lastSynced => server = content
        /\ removed = "known" => server = None

\* While nothing fails, the last edit of a session reaches the server (debounces and
\* answers happening).
SavedInCalm ==
    <>[](Calm /\ status = "ready" /\ content # None /\ ~tab.forbidden /\ ~tab.expired
            => server = content)

-----------------------------------------------------------------------------
\* Statements of the repository that the code does not keep (README.md): TLC
\* refutes them, and no run checks them.

\* The last edit of a session reaches the server, whatever fails (projectSync.ts: "retries
\* until it lands").
EventuallySaved ==
    <>[](status = "ready" /\ content # None /\ ~tab.forbidden /\ ~tab.expired
            => server = content)

\* A project with unflushed or in-flight writes arms the unload warning
\* (ProjectSyncState.pendingIds).
UnsavedIsPending == Unsaved => tab.pending

\* A deleted project has no document once its requests are answered
\* (startSubscriptions: "Removed ids").
DeletedIsGone == removed # "no" /\ requests = {} => server = None
=============================================================================
