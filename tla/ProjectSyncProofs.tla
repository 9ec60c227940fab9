-------------------------- MODULE ProjectSyncProofs --------------------------
(***************************************************************************)
(* Proofs about ProjectSync, for every number of edits, sessions, failures,  *)
(* denials and documents that somebody else removes.                         *)
(***************************************************************************)
EXTENDS ProjectSync, TLAPS

\* What a flush makes of the tab and of the requests.
LEMMA FlushTypes ==
    ASSUME NEW t \in Tabs, NEW c \in Contents, requests \subseteq Requests, Flush(t, c)
    PROVE  tab' \in Tabs /\ requests' \subseteq Requests
<1>1. Flushed(t, c) \in Tabs
  BY DEF Flushed, Writes, Busy, Tabs
<1>2. {Request("put", c), Request("post", c)} \subseteq Requests
  BY DEF Request, Requests
<1>. QED
  BY <1>1, <1>2 DEF Flush

\* A request that is moved on is a request.
LEMMA ToTypes ==
    ASSUME requests \subseteq Requests, NEW r \in requests,
           NEW at \in {"sent", "found"} \cup Answers, To(r, at)
    PROVE  requests' \subseteq Requests
<1>1. [r EXCEPT !.at = at] \in Requests
  BY DEF Requests
<1>. QED
  BY <1>1 DEF To

\* A request whose caller is gone is a request.
LEMMA OrphanTypes ==
    ASSUME requests \subseteq Requests
    PROVE  /\ Orphaned \subseteq Requests
           /\ \A r \in requests : (requests \ {r}) \cup {[r EXCEPT !.live = FALSE]} \subseteq Requests
<1>1. \A r \in requests : [r EXCEPT !.live = FALSE] \in Requests
  BY DEF Requests
<1>. QED
  BY <1>1 DEF Orphaned

\* What an answer makes of the tab.
LEMMA AnswerTypes ==
    ASSUME tab \in Tabs, NEW r \in Requests
    PROVE  Settled(Answered(r)) \in Tabs /\ Settled(Failed("none")) \in Tabs
<1>1. \A at : Failed(at) \in Tabs
  BY DEF Failed, Tabs
<1>2. Acked(r.version) \in Tabs
  BY DEF Acked, Requests, Tabs
<1>3. [tab EXCEPT !.expired = TRUE] \in Tabs /\ [tab EXCEPT !.forbidden = TRUE, !.retry = FALSE] \in Tabs
  BY DEF Tabs
<1>4. Answered(r) \in Tabs
  BY <1>1, <1>2, <1>3 DEF Answered
<1>5. \A t \in Tabs : Settled(t) \in Tabs
  BY DEF Settled, Tabs
<1>. QED
  BY <1>1, <1>4, <1>5

\* What the driving argument needs of the types.
SyncTypes ==
    /\ server \in Contents /\ content \in Contents
    /\ tab \in Tabs /\ requests \subseteq Requests
    /\ {denials, reverts, failures, sessions, foreign} \subseteq Nat

\* A flush that is asked for on a pending tab leaves it driven, or it has nothing to save.
LEMMA FlushDrives ==
    ASSUME NEW t \in Tabs, NEW c, Flush(t, c), content' = c
    PROVE  PendingIsDriven'
<1>. USE DEF Flush, Flushed, Writes, Busy, Tabs, PendingIsDriven, Unsaved
<1>1. CASE t.forbidden
  BY <1>1
<1>2. CASE ~t.forbidden /\ t.inFlight
  BY <1>2
<1>3. CASE ~t.forbidden /\ ~t.inFlight /\ c = None
  BY <1>3
<1>4. CASE ~t.forbidden /\ ~t.inFlight /\ c # None /\ c = t.lastSynced
  BY <1>4
<1>5. CASE ~t.forbidden /\ ~t.inFlight /\ c # None /\ c # t.lastSynced
  BY <1>5
<1>. QED
  BY <1>1, <1>2, <1>3, <1>4, <1>5

-----------------------------------------------------------------------------
\* How a request of a session without trouble stands with the document.
Fits(r) ==
    \/ r.op = "post" /\ r.at = "sent" /\ server = None
    \/ r.op = "put" /\ r.at \in {"sent", "found"} /\ server # None
    \/ r.at = "ok" /\ server = r.version
\* The one write of a project that is open, and the last acknowledged copy;
WritesFit ==
    /\ \A r \in requests :
          /\ r.op # "delete" /\ r.live /\ r.version # None /\ Fits(r)
          /\ tab.inFlight /\ tab.known = (r.op = "put")
    /\ \A r, s \in requests : r = s
    /\ requests = {} => server = tab.lastSynced /\ tab.known = (server # None)
\* and what is not in it yet will be flushed.
Flowing ==
    /\ \A r \in requests : content = r.version \/ tab.timer \/ tab.changed
    /\ content = tab.lastSynced \/ tab.timer \/ tab.inFlight
Untouched == requests = {} /\ tab = NewTab /\ removed = "no"
\* A deletion takes the document along, and no write brings it back.
Deleting ==
    /\ \A r \in requests : ~(r.op = "post" /\ r.at = "sent")
    /\ server = None \/ \E r \in requests : r.op = "delete" /\ r.at = "sent"
\* A session without trouble: nothing is touched before it has loaded, an open project has
\* one write at most, and a deleted one is deleted.
CalmInv ==
    Calm =>
        /\ ~tab.forbidden /\ \A r \in requests : r.at \notin {"denied", "unauthorized"}
        /\ sessions = 0 => status = "idle" /\ content = None /\ Untouched
        /\ status \in {"loading", "listed"} => Untouched
        /\ status # "ready" => content = None
        /\ status = "ready" /\ content = None /\ removed = "no" => Untouched
        /\ content # None => removed = "no" /\ WritesFit /\ Flowing
        /\ removed = "known" => Deleting

\* A flush of an open project leaves one write, and what is not in it is flushed later.
LEMMA FlushKeeps ==
    ASSUME SyncTypes, WritesFit, NEW t \in Tabs, NEW c \in Versions, Flush(t, c),
           content' = c, server' = server, ~t.forbidden, t.inFlight = tab.inFlight,
           t.known = tab.known, t.lastSynced = tab.lastSynced
    PROVE  /\ WritesFit' /\ Flowing' /\ ~tab'.forbidden
           /\ \A r \in requests' : r \in requests \/ r.at = "sent"
<1>. USE DEF SyncTypes
<1>0. c # None
  BY SyncAssumption
<1>1. CASE t.inFlight
  <2>1. tab' = [t EXCEPT !.timer = FALSE, !.changed = TRUE] /\ requests' = requests
    BY <1>1 DEF Flush, Flushed, Writes, Busy
  <2>. QED
    BY <1>1, <2>1 DEF WritesFit, Flowing, Fits, Tabs
<1>2. CASE ~t.inFlight /\ c = t.lastSynced
  <2>1. tab' = [t EXCEPT !.timer = FALSE, !.pending = FALSE] /\ requests' = requests
    BY <1>0, <1>2 DEF Flush, Flushed, Writes, Busy
  <2>2. requests = {}
    BY <1>2 DEF WritesFit
  <2>. QED
    BY <1>2, <2>1, <2>2 DEF WritesFit, Flowing, Tabs
<1>3. CASE ~t.inFlight /\ c # t.lastSynced
  <2>1. requests = {} /\ t.known = (server # None)
    BY <1>3 DEF WritesFit
  <2>2. /\ tab' = [t EXCEPT !.timer = FALSE, !.inFlight = TRUE]
        /\ requests' = {Request(IF t.known THEN "put" ELSE "post", c)}
    BY <1>0, <1>3, <2>1 DEF Flush, Flushed, Writes, Busy
  <2>. QED
    BY <1>0, <1>3, <2>1, <2>2 DEF WritesFit, Flowing, Fits, Request, Tabs
<1>. QED
  BY <1>1, <1>2, <1>3

\* A flush of no project changes flags of the tab only.
LEMMA FlushNothing ==
    ASSUME NEW t \in Tabs, Flush(t, None)
    PROVE  requests' = requests /\ tab'.forbidden = t.forbidden
BY DEF Flush, Flushed, Writes, Busy, Tabs

\* A flush of what is open, asked for by the operator or a timer.
LEMMA FlushCalm ==
    ASSUME SyncTypes, Calm, CalmInv, NEW t \in Tabs, Flush(t, content), tab # NewTab,
           t.forbidden = tab.forbidden, t.inFlight = tab.inFlight, t.known = tab.known,
           t.lastSynced = tab.lastSynced, UNCHANGED <<server, status, content, removed, counts>>
    PROVE  CalmInv'
<1>. USE DEF SyncTypes
<1>1. CASE content = None
  <2>1. requests' = requests /\ tab'.forbidden = tab.forbidden
    BY <1>1, FlushNothing
  <2>. QED
    BY <1>1, <2>1 DEF CalmInv, Calm, Untouched, Deleting, counts
<1>2. CASE content # None
  <2>1. WritesFit /\ ~t.forbidden /\ content \in Versions /\ removed = "no"
    BY <1>2 DEF CalmInv, Contents
  <2>2. /\ WritesFit' /\ Flowing' /\ ~tab'.forbidden
        /\ \A r \in requests' : r \in requests \/ r.at = "sent"
    BY <2>1, FlushKeeps
  <2>. QED
    BY <1>2, <2>1, <2>2 DEF CalmInv, Calm, counts
<1>. QED
  BY <1>1, <1>2

\* A step of the server or of an answer leaves the rest of CalmInv alone.
LEMMA RequestCalm ==
    ASSUME Calm, CalmInv, requests # {}, UNCHANGED <<status, content, removed, counts>>,
           ~tab'.forbidden, \A r \in requests' : r.at \notin {"denied", "unauthorized"},
           content # None => WritesFit' /\ Flowing', removed = "known" => Deleting'
    PROVE  CalmInv'
BY DEF CalmInv, Untouched, Calm, counts

\* A request that is moved on keeps everything but where it is.
LEMMA ToMoves ==
    ASSUME requests \subseteq Requests, NEW r \in requests, NEW at, To(r, at)
    PROVE  \E q : /\ requests' = (requests \ {r}) \cup {q} /\ q.op = r.op /\ q.live = r.live
                  /\ q.version = r.version /\ q.at = at
<1>1. /\ [r EXCEPT !.at = at].op = r.op /\ [r EXCEPT !.at = at].live = r.live
      /\ [r EXCEPT !.at = at].version = r.version /\ [r EXCEPT !.at = at].at = at
  BY DEF Requests
<1>. QED
  BY <1>1 DEF To

\* A session without trouble keeps CalmInv.
LEMMA CalmKept == SyncTypes /\ SyncTypes' /\ CalmInv /\ [Next]_vars => CalmInv'
<1>. SUFFICES ASSUME SyncTypes, SyncTypes', CalmInv, [Next]_vars, Calm' PROVE CalmInv'
  BY DEF CalmInv
<1>. USE DEF SyncTypes
<1>1. Marked \in Tabs /\ Scheduled \in Tabs /\ None \notin Versions
  BY SyncAssumption DEF Marked, Scheduled, Tabs
<1>2. CASE SignIn
  <2>1. Calm /\ sessions = 0 /\ sessions' = 1
    BY <1>2 DEF SignIn, Calm
  <2>2. requests' = {} /\ tab' = NewTab /\ removed' = "no" /\ content' = None /\ status' = "loading"
    BY <1>2, <2>1 DEF SignIn, CalmInv, Untouched, Orphaned
  <2>. QED
    BY <2>1, <2>2 DEF CalmInv, Untouched, NewTab
<1>3. CASE SignOut
  <2>1. Calm /\ sessions' = sessions
    BY <1>3 DEF SignOut, Calm, counts
  <2>2. status' = "idle" /\ content' = None /\ tab' = NewTab /\ removed' = removed /\ server' = server
    BY <1>3 DEF SignOut
  <2>3. \A q \in requests' : \E r \in requests : q.op = r.op /\ q.at = r.at
    BY <1>3 DEF SignOut, Orphaned, Requests
  <2>4. \A r \in requests : \E q \in requests' : q.op = r.op /\ q.at = r.at
    <3>1. \A r \in requests : [r EXCEPT !.live = FALSE] \in requests'
      BY <1>3 DEF SignOut, Orphaned
    <3>. QED
      BY <3>1 DEF Requests
  <2>5. sessions' = 0 => Untouched'
    <3>1. requests = {} => requests' = {}
      BY <2>3
    <3>. QED
      BY <2>1, <2>2, <3>1 DEF CalmInv, Untouched, NewTab
  <2>6. removed = "known" => Deleting'
    <3>1. removed = "known" => Deleting
      BY <2>1 DEF CalmInv
    <3>. QED
      BY <2>2, <2>3, <2>4, <3>1 DEF Deleting
  <2>7. \A q \in requests' : q.at \notin {"denied", "unauthorized"}
    BY <2>1, <2>3 DEF CalmInv
  <2>. QED
    BY <2>2, <2>5, <2>6, <2>7 DEF CalmInv, NewTab
<1>4. CASE Listed
  <2>1. /\ Calm /\ Untouched /\ content = None /\ sessions # 0
        /\ UNCHANGED <<server, removed, counts>>
    <3>1. Calm /\ status = "loading" /\ UNCHANGED <<server, removed, counts>>
      BY <1>4 DEF Listed, Calm, counts
    <3>. QED
      BY <3>1 DEF CalmInv
  <2>2. CASE content' = None
    <3>1. UNCHANGED <<tab, requests>>
      BY <1>4, <2>1, <2>2 DEF Listed
    <3>. QED
      BY <2>1, <2>2, <3>1 DEF CalmInv, Untouched, counts
  <2>3. CASE content' # None
    <3>1. status' = "ready" /\ server = None /\ Flush(Marked, content') /\ content' \in Versions
      BY <1>4, <2>1, <2>3 DEF Listed, Untouched, Contents
    <3>2. WritesFit /\ ~Marked.forbidden
      BY <2>1, <3>1 DEF WritesFit, Untouched, NewTab, Marked
    <3>3. /\ Marked.inFlight = tab.inFlight /\ Marked.known = tab.known
          /\ Marked.lastSynced = tab.lastSynced
      BY DEF Marked, Tabs
    <3>4. /\ WritesFit' /\ Flowing' /\ ~tab'.forbidden
          /\ \A r \in requests' : r \in requests \/ r.at = "sent"
      BY <1>1, <2>1, <3>1, <3>2, <3>3, FlushKeeps
    <3>. QED
      BY <2>1, <2>3, <3>1, <3>4 DEF CalmInv, Untouched, counts
  <2>. QED
    BY <2>2, <2>3
<1>5. CASE Loaded
  <2>1. /\ Calm /\ Untouched /\ content = None /\ sessions # 0
        /\ UNCHANGED <<server, requests, removed, counts>>
    <3>1. Calm /\ status = "listed" /\ UNCHANGED <<server, requests, removed, counts>>
      BY <1>5 DEF Loaded, Calm, counts
    <3>. QED
      BY <3>1 DEF CalmInv
  <2>2. CASE server = None
    BY <1>5, <2>1, <2>2 DEF Loaded, CalmInv, Untouched, counts
  <2>3. CASE server # None
    <3>1. /\ status' = "ready" /\ content' = server
          /\ tab' = [tab EXCEPT !.lastSynced = server, !.known = TRUE]
      BY <1>5, <2>3 DEF Loaded
    <3>2. requests' = {} /\ ~tab'.forbidden
      BY <2>1, <3>1 DEF Untouched, NewTab
    <3>3. WritesFit' /\ Flowing'
      BY <2>1, <2>3, <3>1, <3>2 DEF WritesFit, Flowing, Tabs
    <3>. QED
      BY <2>1, <2>3, <3>1, <3>2, <3>3 DEF CalmInv, Untouched, counts
  <2>. QED
    BY <2>2, <2>3
<1>6. CASE LoadFails
  BY <1>6 DEF LoadFails, Calm
<1>7. CASE Create
  <2>1. /\ Calm /\ Untouched /\ status = "ready" /\ server = None /\ content' \in Versions
        /\ Flush(Scheduled, content') /\ sessions # 0
        /\ UNCHANGED <<server, status, removed, sessions>>
    <3>1. Calm /\ status = "ready" /\ content = None /\ removed = "no"
      BY <1>7 DEF Create, Calm
    <3>. QED
      BY <1>7, <3>1 DEF Create, CalmInv
  <2>2. WritesFit /\ ~Scheduled.forbidden
    BY <2>1 DEF WritesFit, Untouched, NewTab, Marked, Scheduled
  <2>3. /\ Scheduled.inFlight = tab.inFlight /\ Scheduled.known = tab.known
        /\ Scheduled.lastSynced = tab.lastSynced
    BY DEF Marked, Scheduled, Tabs
  <2>4. /\ WritesFit' /\ Flowing' /\ ~tab'.forbidden
        /\ \A r \in requests' : r \in requests \/ r.at = "sent"
    BY <1>1, <2>1, <2>2, <2>3, FlushKeeps
  <2>. QED
    BY <1>1, <2>1, <2>4 DEF CalmInv, Untouched
<1>8. CASE Switch
  <2>1. Calm /\ tab # NewTab /\ Flush(tab, content)
        /\ UNCHANGED <<server, status, content, removed, counts>>
    BY <1>8 DEF Switch, Calm, counts, NewTab
  <2>. QED
    BY <2>1, FlushCalm
<1>9. CASE Remove
  <2>1. /\ Calm /\ content # None /\ WritesFit /\ sessions # 0 /\ status = "ready"
        /\ ~tab.forbidden /\ \A r \in requests : r.at \notin {"denied", "unauthorized"}
        /\ UNCHANGED <<server, status, counts>>
    <3>1. Calm /\ content # None /\ status = "ready" /\ UNCHANGED <<server, status, counts>>
      BY <1>9 DEF Remove, Calm, counts
    <3>. QED
      BY <3>1 DEF CalmInv
  <2>2. content' = None /\ ~tab'.forbidden
    BY <1>9, <2>1 DEF Remove, Tabs
  <2>3. CASE tab.known
    <3>1. removed' = "known" /\ requests' = requests \cup {Request("delete", None)}
      BY <1>9, <2>3 DEF Remove
    <3>2. \A r \in requests : r.op = "put"
      BY <2>1, <2>3 DEF WritesFit
    <3>3. Deleting'
      <4>1. /\ Request("delete", None) \in requests'
            /\ Request("delete", None).op = "delete" /\ Request("delete", None).at = "sent"
        BY <3>1 DEF Request
      <4>. QED
        BY <3>1, <3>2, <4>1 DEF Deleting
    <3>4. \A r \in requests' : r.at \notin {"denied", "unauthorized"}
      BY <2>1, <3>1 DEF Request
    <3>. QED
      BY <2>1, <2>2, <3>1, <3>3, <3>4 DEF CalmInv, counts
  <2>4. CASE ~tab.known
    BY <1>9, <2>1, <2>2, <2>4 DEF Remove, CalmInv, counts
  <2>. QED
    BY <2>3, <2>4
<1>10. CASE ForeignDelete
  BY <1>10 DEF ForeignDelete, Calm
<1>11. ASSUME NEW v \in Versions, NEW saves \in BOOLEAN, Edit(v, saves) PROVE CalmInv'
  <2>1. Calm /\ v # tab.lastSynced
    BY <1>11 DEF Edit, Calm
  <2>2. /\ content # None /\ WritesFit /\ sessions # 0 /\ status = "ready" /\ removed = "no"
        /\ ~tab.forbidden /\ \A r \in requests : r.at \notin {"denied", "unauthorized"}
    <3>1. content # None /\ status = "ready"
      BY <1>11 DEF Edit
    <3>. QED
      BY <2>1, <3>1 DEF CalmInv
  <2>3. content' = v /\ UNCHANGED <<server, status, removed, sessions>>
    BY <1>11 DEF Edit
  <2>4. CASE saves
    <3>1. Flush(Marked, v)
      BY <1>11, <2>1, <2>4 DEF Edit
    <3>2. /\ Marked.inFlight = tab.inFlight /\ Marked.known = tab.known
          /\ Marked.lastSynced = tab.lastSynced /\ Marked.forbidden = tab.forbidden
      BY DEF Marked, Tabs
    <3>3. /\ WritesFit' /\ Flowing' /\ ~tab'.forbidden
          /\ \A r \in requests' : r \in requests \/ r.at = "sent"
      BY <1>1, <2>2, <2>3, <3>1, <3>2, FlushKeeps
    <3>. QED
      BY <1>1, <2>2, <2>3, <3>3 DEF CalmInv
  <2>5. CASE ~saves
    <3>1. tab' = [tab EXCEPT !.pending = TRUE, !.timer = TRUE] /\ requests' = requests
      BY <1>11, <2>1, <2>5 DEF Edit, Scheduled, Marked
    <3>2. WritesFit' /\ Flowing' /\ ~tab'.forbidden
      BY <2>2, <2>3, <3>1 DEF WritesFit, Flowing, Fits, Tabs
    <3>. QED
      BY <1>1, <2>2, <2>3, <3>1, <3>2 DEF CalmInv
  <2>. QED
    BY <2>4, <2>5
<1>12. CASE Debounced
  <2>1. Calm /\ tab # NewTab /\ Flush([tab EXCEPT !.timer = FALSE], content)
        /\ UNCHANGED <<server, status, content, removed, counts>>
    BY <1>12 DEF Debounced, Calm, counts, NewTab
  <2>. DEFINE t == [tab EXCEPT !.timer = FALSE]
  <2>2. /\ t \in Tabs /\ t.forbidden = tab.forbidden /\ t.inFlight = tab.inFlight
        /\ t.known = tab.known /\ t.lastSynced = tab.lastSynced
    BY DEF Tabs
  <2>. HIDE DEF t
  <2>3. Flush(t, content)
    BY <2>1 DEF t
  <2>. QED
    BY <2>1, <2>2, <2>3, FlushCalm
<1>13. CASE Retry
  <2>. DEFINE t == [tab EXCEPT !.retry = FALSE]
  <2>1. Calm /\ tab # NewTab /\ UNCHANGED <<server, status, content, removed, counts>>
    BY <1>13 DEF Retry, Calm, counts, NewTab
  <2>2. /\ t \in Tabs /\ t.forbidden = tab.forbidden /\ t.inFlight = tab.inFlight
        /\ t.known = tab.known /\ t.lastSynced = tab.lastSynced
        /\ t.timer = tab.timer /\ t.changed = tab.changed
    BY DEF Tabs
  <2>3. Flush(t, content) \/ (tab' = t /\ requests' = requests)
    BY <1>13 DEF Retry
  <2>. HIDE DEF t
  <2>4. CASE Flush(t, content)
    BY <2>1, <2>2, <2>4, FlushCalm
  <2>5. CASE tab' = t /\ requests' = requests
    <3>1. content # None => WritesFit' /\ Flowing'
      BY <2>1, <2>2, <2>5 DEF CalmInv, WritesFit, Flowing, Fits
    <3>2. removed = "known" => Deleting'
      BY <2>1, <2>5 DEF CalmInv, Deleting
    <3>. QED
      BY <2>1, <2>2, <2>5, <3>1, <3>2 DEF CalmInv, Untouched, counts
  <2>. QED
    BY <2>3, <2>4, <2>5
<1>14. ASSUME NEW r \in requests, Answer(r) PROVE CalmInv'
  <2>1. /\ Calm /\ r.at \in Answers /\ r.op # "delete" /\ requests' = requests \ {r}
        /\ UNCHANGED <<server, status, content, removed, counts>>
        /\ tab' = IF r.live THEN Settled(Answered(r)) ELSE tab
    BY <1>14 DEF Answer, Calm, counts
  <2>2. /\ ~tab.forbidden /\ \A q \in requests : q.at \notin {"denied", "unauthorized"}
    BY <2>1 DEF CalmInv
  <2>3. Answered(r) = IF r.at = "ok" THEN Acked(r.version) ELSE Failed(r.at)
    BY <2>2 DEF Answered
  <2>4. ~Acked(r.version).forbidden /\ ~Failed(r.at).forbidden
    BY <2>2 DEF Acked, Failed, Tabs
  <2>5. ~tab'.forbidden
    <3>1. ~Answered(r).forbidden /\ Answered(r) \in Tabs
      <4>1. Acked(r.version) \in Tabs /\ Failed(r.at) \in Tabs
        BY DEF Acked, Failed, Tabs, Requests
      <4>. QED
        BY <2>3, <2>4, <4>1
    <3>2. ~Settled(Answered(r)).forbidden
      BY <3>1 DEF Settled, Tabs
    <3>. QED
      BY <2>1, <2>2, <3>2
  <2>6. ASSUME content # None PROVE WritesFit' /\ Flowing'
    <3>1. /\ WritesFit /\ Flowing /\ r.live /\ r.at = "ok" /\ server = r.version
          /\ r.version # None /\ requests' = {}
      BY <2>1, <2>6 DEF CalmInv, WritesFit, Fits, Answers
    <3>2. tab' = Settled(Acked(r.version))
      BY <2>1, <2>3, <3>1
    <3>3. /\ tab'.known /\ tab'.lastSynced = r.version
          /\ tab'.timer = (tab.timer \/ tab.changed)
      BY <2>2, <3>2 DEF Settled, Acked, Tabs
    <3>. QED
      BY <2>1, <3>1, <3>3 DEF WritesFit, Flowing
  <2>7. removed = "known" => Deleting'
    BY <2>1 DEF CalmInv, Deleting
  <2>. QED
    BY <2>1, <2>2, <2>5, <2>6, <2>7, RequestCalm
<1>15. ASSUME NEW r \in requests, AnswerDelete(r) PROVE CalmInv'
  <2>1. /\ Calm /\ r.at \in Answers /\ r.op = "delete" /\ requests' = requests \ {r}
        /\ UNCHANGED <<server, status, content, removed, counts>>
    BY <1>15 DEF AnswerDelete, Calm, counts
  <2>2. /\ ~tab.forbidden /\ \A q \in requests : q.at \notin {"denied", "unauthorized"}
        /\ content = None
    BY <2>1 DEF CalmInv, WritesFit
  <2>3. ~tab'.forbidden
    BY <1>15, <2>2 DEF AnswerDelete, Tabs
  <2>4. removed = "known" => Deleting'
    BY <2>1 DEF CalmInv, Deleting, Answers
  <2>. QED
    BY <2>1, <2>2, <2>3, <2>4, RequestCalm
<1>16. ASSUME NEW r \in requests, Serve(r) PROVE CalmInv'
  <2>1. ~Deny(r) /\ UNCHANGED counts
    BY <1>16 DEF Serve, Deny, Calm
  <2>2. UNCHANGED <<status, content, tab, removed, counts>>
    BY <1>16, <2>1 DEF Serve
  <2>3. Calm /\ ~tab.forbidden /\ \A q \in requests : q.at \notin {"denied", "unauthorized"}
    BY <2>2 DEF Calm, CalmInv, counts
  <2>4. content # None => WritesFit /\ Flowing /\ requests = {r}
    BY <2>3 DEF CalmInv, WritesFit
  <2>5. removed = "known" => Deleting
    BY <2>3 DEF CalmInv
  <2>6. \A at : /\ [r EXCEPT !.at = at].op = r.op /\ [r EXCEPT !.at = at].live = r.live
                /\ [r EXCEPT !.at = at].version = r.version /\ [r EXCEPT !.at = at].at = at
    BY DEF Requests
  <2>7. CASE Insert(r)
    <3>1. ASSUME content # None PROVE WritesFit' /\ Flowing'
      <4>. USE <3>1
      <4>1. r.op = "post" /\ server = None /\ server' = r.version /\ To(r, "ok")
        BY <2>4, <2>7 DEF Insert, WritesFit, Fits
      <4>2. PICK q : /\ requests' = {q} /\ q.op = r.op /\ q.live = r.live
                     /\ q.version = r.version /\ q.at = "ok"
        BY <2>4, <4>1, ToMoves
      <4>3. WritesFit'
        BY <2>2, <2>4, <4>1, <4>2 DEF WritesFit, Fits
      <4>4. Flowing'
        BY <2>2, <2>4, <4>2 DEF Flowing
      <4>. QED
        BY <4>3, <4>4
    <3>2. removed = "known" => Deleting'
      BY <2>5, <2>7 DEF Insert, Deleting
    <3>3. \A q \in requests' : q.at \notin {"denied", "unauthorized"}
      <4>1. To(r, "ok") \/ To(r, "duplicate")
        BY <2>7 DEF Insert
      <4>2. PICK at \in {"ok", "duplicate"} : To(r, at)
        BY <4>1
      <4>3. PICK q : requests' = (requests \ {r}) \cup {q} /\ q.at = at
        BY <4>2, ToMoves
      <4>. QED
        BY <2>3, <4>3
    <3>. QED
      BY <2>2, <2>3, <3>1, <3>2, <3>3, RequestCalm
  <2>8. CASE Find(r)
    <3>1. ASSUME content # None PROVE WritesFit' /\ Flowing'
      <4>. USE <3>1
      <4>1. r.op = "put" /\ server # None /\ server' = server /\ To(r, "found")
        BY <2>4, <2>8 DEF Find, WritesFit, Fits
      <4>2. PICK q : /\ requests' = {q} /\ q.op = r.op /\ q.live = r.live
                     /\ q.version = r.version /\ q.at = "found"
        BY <2>4, <4>1, ToMoves
      <4>3. WritesFit'
        BY <2>2, <2>4, <4>1, <4>2 DEF WritesFit, Fits
      <4>4. Flowing'
        BY <2>2, <2>4, <4>2 DEF Flowing
      <4>. QED
        BY <4>3, <4>4
    <3>2. removed = "known" => Deleting'
      BY <2>5, <2>6, <2>8 DEF Find, To, Deleting
    <3>3. \A q \in requests' : q.at \notin {"denied", "unauthorized"}
      BY <2>3, <2>6, <2>8 DEF Find, To
    <3>. QED
      BY <2>2, <2>3, <3>1, <3>2, <3>3, RequestCalm
  <2>9. CASE Replace(r)
    <3>1. ASSUME content # None PROVE WritesFit' /\ Flowing'
      <4>. USE <3>1
      <4>1. server # None /\ server' = r.version /\ To(r, "ok")
        BY <2>4, <2>9 DEF Replace, Replaced, WritesFit, Fits
      <4>2. PICK q : /\ requests' = {q} /\ q.op = r.op /\ q.live = r.live
                     /\ q.version = r.version /\ q.at = "ok"
        BY <2>4, <4>1, ToMoves
      <4>3. WritesFit'
        BY <2>2, <2>4, <4>1, <4>2 DEF WritesFit, Fits
      <4>4. Flowing'
        BY <2>2, <2>4, <4>2 DEF Flowing
      <4>. QED
        BY <4>3, <4>4
    <3>2. removed = "known" => Deleting'
      BY <2>5, <2>6, <2>9 DEF Replace, Replaced, To, Deleting
    <3>3. \A q \in requests' : q.at \notin {"denied", "unauthorized"}
      BY <2>3, <2>6, <2>9 DEF Replace, To
    <3>. QED
      BY <2>2, <2>3, <3>1, <3>2, <3>3, RequestCalm
  <2>10. CASE Delete(r)
    <3>1. content = None
      BY <2>4, <2>10 DEF Delete, WritesFit
    <3>2. removed = "known" => Deleting'
      BY <2>5, <2>6, <2>10 DEF Delete, To, Deleting
    <3>3. \A q \in requests' : q.at \notin {"denied", "unauthorized"}
      BY <2>3, <2>6, <2>10 DEF Delete, To
    <3>. QED
      BY <2>2, <2>3, <3>1, <3>2, <3>3, RequestCalm
  <2>. QED
    BY <1>16, <2>1, <2>7, <2>8, <2>9, <2>10 DEF Serve
<1>17. ASSUME NEW r \in requests, Fail(r) PROVE CalmInv'
  BY <1>17 DEF Fail, Calm
<1>18. CASE UNCHANGED vars
  BY <1>18 DEF vars, counts, Calm, CalmInv, Untouched, WritesFit, Flowing, Fits, Deleting
<1>. QED
  BY <1>2, <1>3, <1>4, <1>5, <1>6, <1>7, <1>8, <1>9, <1>10, <1>11, <1>12, <1>13, <1>14, <1>15,
     <1>16, <1>17, <1>18 DEF Next, Timers, Answering, Serving

-----------------------------------------------------------------------------
\* The types of the tab, the document, the project and the requests (projectSync.ts,
\* routers/projects.py).
THEOREM TypeCorrect == Spec => []SyncTypes
<1>1. Init => SyncTypes
  BY DEF Init, SyncTypes, NewTab, Tabs, Contents, Requests
<1>2. SyncTypes /\ [Next]_vars => SyncTypes'
  <2>. SUFFICES ASSUME SyncTypes, [Next]_vars PROVE SyncTypes'
    OBVIOUS
  <2>. USE DEF SyncTypes, counts
  <2>1. NewTab \in Tabs /\ Marked \in Tabs /\ Scheduled \in Tabs /\ None \in Contents
    BY DEF NewTab, Marked, Scheduled, Tabs, Contents
  <2>2. CASE SignIn
    BY <2>2, <2>1, OrphanTypes DEF SignIn
  <2>3. CASE SignOut
    BY <2>3, <2>1, OrphanTypes DEF SignOut
  <2>4. CASE Listed
    <3>1. content' \in Contents
      BY <2>4, <2>1 DEF Listed
    <3>. QED
      BY <2>4, <2>1, <3>1, FlushTypes DEF Listed
  <2>5. CASE Loaded
    BY <2>5 DEF Loaded, Tabs
  <2>6. CASE LoadFails
    BY <2>6 DEF LoadFails
  <2>7. CASE Create
    BY <2>7, <2>1, FlushTypes DEF Create, Contents
  <2>8. CASE Switch
    BY <2>8, FlushTypes DEF Switch
  <2>9. CASE Remove
    <3>1. Request("delete", None) \in Requests
      BY DEF Request, Requests, Contents
    <3>. QED
      BY <2>9, <2>1, <3>1 DEF Remove, Tabs
  <2>10. CASE ForeignDelete
    BY <2>10, <2>1 DEF ForeignDelete
  <2>11. ASSUME NEW v \in Versions, NEW saves \in BOOLEAN, Edit(v, saves) PROVE SyncTypes'
    BY <2>11, <2>1, FlushTypes DEF Edit, Contents
  <2>12. CASE Debounced
    <3>1. [tab EXCEPT !.timer = FALSE] \in Tabs
      BY DEF Tabs
    <3>. QED
      BY <2>12, <3>1, FlushTypes DEF Debounced
  <2>13. CASE Retry
    <3>1. [tab EXCEPT !.retry = FALSE] \in Tabs
      BY DEF Tabs
    <3>. QED
      BY <2>13, <3>1, FlushTypes DEF Retry
  <2>14. ASSUME NEW r \in requests, Answer(r) PROVE SyncTypes'
    BY <2>14, AnswerTypes DEF Answer
  <2>15. ASSUME NEW r \in requests, AnswerDelete(r) PROVE SyncTypes'
    BY <2>15 DEF AnswerDelete, Tabs
  <2>16. ASSUME NEW r \in requests, Serve(r) PROVE SyncTypes'
    <3>. r.version \in Contents
      BY DEF Requests
    <3>. HIDE DEF counts
    <3>1. CASE (Insert(r) \/ Find(r) \/ Replace(r) \/ Delete(r)) /\ UNCHANGED counts
      <4>1. server' \in Contents
        BY <2>1, <3>1 DEF Insert, Find, Replace, Replaced, Delete
      <4>2. \E at \in {"sent", "found"} \cup Answers : To(r, at)
        BY <3>1 DEF Insert, Find, Replace, Delete, Answers
      <4>3. requests' \subseteq Requests
        BY <4>2, ToTypes
      <4>. QED
        BY <2>16, <3>1, <4>1, <4>3 DEF Serve, counts
    <3>2. CASE Deny(r)
      BY <2>16, <3>2, ToTypes DEF Serve, Deny, Answers
    <3>. QED
      BY <2>16, <3>1, <3>2 DEF Serve
  <2>17. ASSUME NEW r \in requests, Fail(r) PROVE SyncTypes'
    BY <2>17, AnswerTypes, OrphanTypes DEF Fail
  <2>18. CASE UNCHANGED vars
    BY <2>18 DEF vars
  <2>. QED
    BY <2>2, <2>3, <2>4, <2>5, <2>6, <2>7, <2>8, <2>9, <2>10, <2>11, <2>12, <2>13, <2>14,
       <2>15, <2>16, <2>17, <2>18 DEF Next, Timers, Answering, Serving
<1>. QED
  BY <1>1, <1>2, PTL DEF Spec

\* A failed write that is still pending has a debounce, a request or a retry under way,
\* whatever fails, is denied or is done by others (reportSaveFailure, flushProject).
THEOREM PendingDriven == Spec => []PendingIsDriven
<1>1. Init => PendingIsDriven
  BY DEF Init, PendingIsDriven, Unsaved
<1>2. SyncTypes /\ PendingIsDriven /\ [Next]_vars => PendingIsDriven'
  <2>. SUFFICES ASSUME SyncTypes, PendingIsDriven, [Next]_vars PROVE PendingIsDriven'
    OBVIOUS
  <2>. USE DEF SyncTypes
  <2>1. Marked \in Tabs /\ Scheduled \in Tabs /\ Scheduled.timer
    BY DEF Marked, Scheduled, Tabs
  <2>2. CASE SignIn
    BY <2>2 DEF SignIn, PendingIsDriven, Unsaved
  <2>3. CASE SignOut
    BY <2>3 DEF SignOut, PendingIsDriven, Unsaved
  <2>4. CASE Listed
    <3>1. CASE server # None
      BY <2>4, <3>1 DEF Listed, PendingIsDriven, Unsaved
    <3>2. CASE server = None /\ content' = None
      BY <2>4, <3>2 DEF Listed, PendingIsDriven, Unsaved
    <3>3. CASE server = None /\ content' # None
      BY <2>4, <3>3, <2>1, FlushDrives DEF Listed
    <3>. QED
      BY <3>1, <3>2, <3>3
  <2>5. CASE Loaded
    BY <2>5 DEF Loaded, PendingIsDriven, Unsaved, Tabs
  <2>6. CASE LoadFails
    BY <2>6 DEF LoadFails, PendingIsDriven, Unsaved
  <2>7. CASE Create
    BY <2>7, <2>1, FlushDrives DEF Create
  <2>8. CASE Switch
    BY <2>8, FlushDrives DEF Switch
  <2>9. CASE Remove
    BY <2>9 DEF Remove, PendingIsDriven, Unsaved
  <2>10. CASE ForeignDelete
    BY <2>10 DEF ForeignDelete, PendingIsDriven, Unsaved
  <2>11. ASSUME NEW v \in Versions, NEW saves \in BOOLEAN, Edit(v, saves) PROVE PendingIsDriven'
    <3>1. CASE v = tab.lastSynced
      BY <2>11, <3>1 DEF Edit, PendingIsDriven, Unsaved
    <3>2. CASE v # tab.lastSynced /\ saves
      BY <2>11, <3>2, <2>1, FlushDrives DEF Edit
    <3>3. CASE v # tab.lastSynced /\ ~saves
      BY <2>11, <3>3, <2>1 DEF Edit, PendingIsDriven
    <3>. QED
      BY <3>1, <3>2, <3>3
  <2>12. CASE Debounced
    <3>1. [tab EXCEPT !.timer = FALSE] \in Tabs
      BY DEF Tabs
    <3>. QED
      BY <2>12, <3>1, FlushDrives DEF Debounced
  <2>13. CASE Retry
    <3>1. [tab EXCEPT !.retry = FALSE] \in Tabs
      BY DEF Tabs
    <3>2. CASE tab.pending
      BY <2>13, <3>1, <3>2, FlushDrives DEF Retry
    <3>3. CASE ~tab.pending
      BY <2>13, <3>3 DEF Retry, PendingIsDriven, Tabs
    <3>. QED
      BY <3>2, <3>3
  <2>14. ASSUME NEW r \in requests, Answer(r) PROVE PendingIsDriven'
    <3>1. CASE ~r.live
      BY <2>14, <3>1 DEF Answer, PendingIsDriven, Unsaved
    <3>2. CASE r.live /\ r.at = "ok"
      BY <2>14, <3>2 DEF Answer, Answered, Acked, Settled, PendingIsDriven, Tabs
    <3>3. CASE r.live /\ r.at = "unauthorized"
      BY <2>14, <3>3 DEF Answer, Answered, Settled, PendingIsDriven, Unsaved, Tabs
    <3>4. CASE r.live /\ r.at = "denied"
      BY <2>14, <3>4 DEF Answer, Answered, Settled, PendingIsDriven, Unsaved, Tabs
    <3>5. CASE r.live /\ r.at \notin {"ok", "unauthorized", "denied"}
      <4>1. Answered(r) = Failed(r.at)
        BY <3>5 DEF Answered
      <4>. QED
        BY <2>14, <3>5, <4>1 DEF Answer, Failed, Settled, PendingIsDriven, Tabs
    <3>. QED
      BY <3>1, <3>2, <3>3, <3>4, <3>5
  <2>15. ASSUME NEW r \in requests, AnswerDelete(r) PROVE PendingIsDriven'
    BY <2>15 DEF AnswerDelete, PendingIsDriven, Unsaved, Tabs
  <2>16. ASSUME NEW r \in requests, Serve(r) PROVE PendingIsDriven'
    BY <2>16 DEF Serve, PendingIsDriven, Unsaved
  <2>17. ASSUME NEW r \in requests, Fail(r) PROVE PendingIsDriven'
    <3>1. CASE r.op = "delete"
      BY <2>17, <3>1 DEF Fail, PendingIsDriven, Unsaved
    <3>2. CASE r.op # "delete"
      BY <2>17, <3>2 DEF Fail, Failed, Settled, PendingIsDriven, Tabs
    <3>. QED
      BY <3>1, <3>2
  <2>18. CASE UNCHANGED vars
    BY <2>18 DEF vars, PendingIsDriven, Unsaved
  <2>. QED
    BY <2>2, <2>3, <2>4, <2>5, <2>6, <2>7, <2>8, <2>9, <2>10, <2>11, <2>12, <2>13, <2>14,
       <2>15, <2>16, <2>17, <2>18 DEF Next, Timers, Answering, Serving
<1>. QED
  BY <1>1, <1>2, TypeCorrect, PTL DEF Spec

\* While nothing fails, no change is forgotten, and what counts as saved or deleted is saved
\* or deleted on the server, whatever the order of edits, saves, answers and the deletion
\* (flushProject, removeProject, update_project).
THEOREM NothingIsLost == Spec => [](NothingForgotten /\ SavedIsServed)
<1>1. Init => CalmInv
  BY DEF Init, CalmInv, Untouched, NewTab
<1>2. SyncTypes /\ CalmInv => NothingForgotten
  BY DEF SyncTypes, CalmInv, WritesFit, Flowing, NothingForgotten, Unsaved
<1>3. CalmInv => SavedIsServed
  BY DEF CalmInv, WritesFit, Deleting, SavedIsServed
<1>. QED
  BY <1>1, <1>2, <1>3, CalmKept, TypeCorrect, PTL DEF Spec

\* The server's side of it: with nothing failed and no request under way, what the tab
\* counts as saved, the server holds, and what it counts as deleted is gone there
\* (flushProject's lastSynced, removeProject).
THEOREM SavedReachesServer == Spec => []SavedIsServed
<1>. QED
  BY NothingIsLost, PTL
=============================================================================
