----------------------------- MODULE LabEvidence -----------------------------
(***************************************************************************)
(* What a project shows of a verified lab and keeps of it: the report of the  *)
(* health gate that a deploy ends with (frontend lib/labEvidence.ts), folded   *)
(* onto nodes and edges with the states of the plan (store/staging.ts), the    *)
(* lenses that show it (Canvas.tsx, EvidenceMode.tsx, certificateJourney.ts),   *)
(* the autosave that decides which change is a checkpoint                       *)
(* (lib/projectAutosave.ts), and the tabs between which documents move          *)
(* (store/projects.ts).                                                        *)
(*                                                                         *)
(* A report is the set of the checks that failed.  A plan runs in any order    *)
(* that its dependencies allow; "running", the sockets and the answer to the    *)
(* POST are DeployClient's subject, the editing is CanvasEditing's.             *)
(***************************************************************************)
EXTENDS CanvasRules, StagedOps, SequencesExt

CONSTANTS
    Scenes,         \* the tabs and their documents, and the bounds of a behaviour
    Tabs, NoTab, NoReport, NoJob, NoPlan, NoCanvas,
    CA01, CA02, DC01, SRV1      \* the nodes of the template

VARIABLES
    tabs,           \* projects, in order
    docs,           \* what is stored of each: its canvas, and whether it is dirty
    active,         \* activeProjectId
    canvas,         \* the working stores: nodes, edges, list of operations, job
    deploying,
    plans,          \* the plan of each tab on the server
    lens, frozen,   \* what the canvas shows instead of itself, and evidenceSnapshot
    left            \* the bounds: deploys, errors, losses, reloads, edits, switches, and
                    \* what a health gate may find, sets of failed checks

vars == <<tabs, docs, active, canvas, deploying, plans, lens, frozen, left>>

\* A canvas as the rules know it.
View(c) ==
    [nodes |-> ToSet(c.order), type |-> c.type, config |-> c.config, life |-> c.life,
     edges |-> ToSet(c.edges)]

-----------------------------------------------------------------------------
\* The report of the health gate, by what its checks are about.

CertificateChecks == {"chain", "aia", "cdp", "ocsp", "mlDsa", "validity", "freshness"}
EnterpriseChecks == {"containers", "templates", "httpArtifacts"}
Checks ==
    CertificateChecks \cup EnterpriseChecks
      \cup {"ca.root", "ca.issuing", "responder", "dns.web", "dns.issuing",
            "id.dc", "id.root", "id.issuing", "id.web"}

RuntimeRole(c, n) ==
    CASE c.type[n] = DC -> "dc"
      [] c.type[n] = "webServer" -> "web"
      [] c.type[n] = CA -> IF c.config[n] = "Root" THEN "root" ELSE "issuing"
      [] OTHER -> "none"

JoinChecks(role) ==
    CASE role = "issuing" -> {"id.issuing", "dns.issuing", "containers"}
      [] role = "web" -> {"id.web", "dns.web"}
      [] role = "dc" -> {"id.dc"}
      [] role = "root" -> {"id.root"}
      [] OTHER -> {}

\* The services that an edge carries, and the checks each rests on.
PortChecks(c, e) ==
    CASE e.type = "caHierarchy" -> "caParent" :> {"ca.root", "ca.issuing", "mlDsa", "chain"}
      [] e.type = "domainJoin" -> "domainBoundary" :> JoinChecks(RuntimeRole(c, e.source))
      [] e.socket = "ocsp" ->
            "probeCertificate" :> (CertificateChecks \ {"aia", "cdp"}) \cup {"templates", "responder"}
      [] OTHER -> ("caPublication" :> {"aia", "cdp", "httpArtifacts", "dns.web", "dns.issuing"})
                    @@ ("webHost" :> {"httpArtifacts", "id.web"})

\* serviceHealthForEdge.
Services(c, e, failed) ==
    LET checks == PortChecks(c, e) IN
    [port \in DOMAIN checks |-> IF checks[port] \cap failed = {} THEN "verified" ELSE "broken"]
NoServices == [port \in {} |-> "planned"]

\* Mutant: the services alone say how an edge is.
OnlyServices(services, previous) == LeastHealthy(Range(services))
\* aggregateServiceHealth.
Summary(services, previous) == LeastHealthy(Range(services) \cup {previous})

\* applyLabEvidence: every edge, whichever host was probed.
Probed(c, web, failed) ==
    [i \in DOMAIN c.edges |->
        LET services == Services(c, c.edges[i], failed)
        IN  [c.edges[i] EXCEPT !.services = services, !.health = Summary(services, @)]]

\* Mutant: nothing is looked for on the root's identity.
NoRootIdentity(role) ==
    CASE role = "dc" -> <<"id.dc", "containers">>
      [] role = "root" -> <<"ca.root", "mlDsa">>
      [] role = "issuing" -> <<"id.issuing", "ca.issuing", "dns.issuing">>
      [] role = "web" -> <<"id.web", "dns.web", "responder", "ocsp">>
      [] OTHER -> <<>>
\* NODE_CHECKS, in the order in which one is looked for.
NodeChecks(role) ==
    CASE role = "dc" -> <<"id.dc", "containers">>
      [] role = "root" -> <<"id.root", "ca.root", "mlDsa">>
      [] role = "issuing" -> <<"id.issuing", "ca.issuing", "dns.issuing">>
      [] role = "web" -> <<"id.web", "dns.web", "responder", "ocsp">>
      [] OTHER -> <<>>

\* findLabEvidence: the report of the first node that has one.
Reported(c) == SelectSeq(c.order, LAMBDA n : c.report[n] # NoReport)
CurrentEvidence(c) == IF Reported(c) = <<>> THEN NoReport ELSE c.report[Head(Reported(c))]

\* The warning of a card: the first failed check of its role, or the failed deploy.
CardWarning(c, n) ==
    LET report == CurrentEvidence(c)
        failed == IF report = NoReport THEN <<>>
                  ELSE SelectSeq(NodeChecks(RuntimeRole(c, n)), LAMBDA k : k \in report.failed)
    IN  IF failed # <<>> THEN Head(failed)
        ELSE IF c.life[n] = "failed" THEN "deployment" ELSE "none"

\* CapabilityEdge: live probes are drawn instead of the health; a membership is not drawn as
\* an edge.
Drawn(e) == CASE e.type = "domainJoin" -> {}
              [] e.type # "domainJoin" /\ e.services = NoServices -> {e.health}
              [] OTHER -> Range(e.services)

\* buildAuditSnapshot, of what Evidence mode has frozen.
AuditSnapshot(c, report) ==
    [nodes |-> {[node |-> n, role |-> RuntimeRole(c, n), life |-> c.life[n]] : n \in ToSet(c.order)},
     relationships |-> {[edge |-> e, health |-> e.health, services |-> e.services] : e \in ToSet(c.edges)},
     verification |-> report]

\* projectCertificateJourney: along the first publication of the canvas.
JourneyOf(c) ==
    LET drawn == SelectSeq(c.edges, LAMBDA e : e.socket = "publication")
        issuing == Head(drawn).source
        web == Head(drawn).target
    IN  IF drawn = <<>> \/ ~({issuing, web} \subseteq ToSet(c.order)) THEN NoReport
        ELSE [nodes |-> {web, issuing} \cup IssuedBy(View(c), issuing),
              live |-> c.report[web] # NoReport]

-----------------------------------------------------------------------------
\* The autosave.  A store is the working canvas with what is stored of it.

Store(c, doc) == [canvas |-> c, doc |-> doc]
Stored(c) == [canvas |-> c, dirty |-> FALSE]

HealthById(c) == {<<IdOf(e), e.health, e.services>> : e \in ToSet(c.edges)}
JoinIds(c) == {IdOf(e) : e \in EdgesOf(View(c), "domainJoin")}

\* Mutant: a change of health is an edit like another.
IgnoresHealth(old, new) ==
    \/ Len(old.order) # Len(new.order)
    \/ \E n \in ToSet(new.order) : old.life[n] # new.life[n] \/ old.report[n] # new.report[n]
    \/ JoinIds(old) # JoinIds(new)
    \/ old.rows # new.rows \/ old.job # new.job
\* A change worth a checkpoint: of the cards, of their states, of memberships, of the
\* health of edges, of the list.
Notable(old, new) ==
    \/ Len(old.order) # Len(new.order)
    \/ \E n \in ToSet(new.order) : old.life[n] # new.life[n] \/ old.report[n] # new.report[n]
    \/ JoinIds(old) # JoinIds(new)
    \/ ~(HealthById(new) \subseteq HealthById(old))
    \/ old.rows # new.rows \/ old.job # new.job

Checkpoint(s, c) == Store(c, Stored(c))
Write(s, c) ==
    IF Notable(s.canvas, c) THEN Checkpoint(s, c)
    ELSE Store(c, [s.doc EXCEPT !.dirty = TRUE])

Current == Store(canvas, docs[active])
Becomes(s) == canvas' = s.canvas /\ docs' = [docs EXCEPT ![active] = s.doc]

-----------------------------------------------------------------------------
\* applyPlanState: the states of a plan, row after row, the provision rows last.

EdgesOfRow(c, r) == {IdOf(e) : e \in OperationEdges(r, ToSet(c.edges))}
WithEdges(c, ids, New(_)) ==
    [c EXCEPT !.edges = [i \in DOMAIN @ |-> IF IdOf(@[i]) \in ids THEN New(@[i]) ELSE @[i]]]

SetEdgeHealth(c, ids, health) == WithEdges(c, ids, LAMBDA e : [e EXCEPT !.health = health])
CommitEdges(c, ids) ==
    WithEdges(c, ids, LAMBDA e : [e EXCEPT !.staged = FALSE, !.health = "verified"])

\* The edges of a row: their health, then the end of the ghost.
WithEdgesOf(s, r) ==
    LET ids == EdgesOfRow(s.canvas, r)
        shown == Write(s, SetEdgeHealth(s.canvas, ids, OperationHealth(r.status)))
    IN  IF ids = {} THEN s
        ELSE IF r.status = "done" THEN Write(shown, CommitEdges(shown.canvas, ids)) ELSE shown

\* Mutant: a host keeps its first report.
FirstReport(c, web, report) ==
    IF c.report[web] # NoReport THEN c ELSE [c EXCEPT !.report[web] = report]
\* A host that is gone takes no report.
Reporting(c, web, report) ==
    IF web \notin ToSet(c.order) THEN c ELSE [c EXCEPT !.report[web] = report]

WithReport(s, plan, r) ==
    IF plan.reports[r.op] = NoReport THEN s
    ELSE LET failed == plan.reports[r.op].failed
             web == r.op.secondary
             patched == Checkpoint(s, Reporting(s.canvas, web, plan.reports[r.op]))
         IN  Write(patched, [patched.canvas EXCEPT !.edges = Probed(patched.canvas, web, failed)])

WithRow(s, plan, r) ==
    LET status == {IF q.op = r.op THEN [q EXCEPT !.status = r.status] ELSE q : q \in s.canvas.rows}
        listed == Checkpoint(s, [s.canvas EXCEPT !.rows = status])
        n == r.op.target
    IN  IF r.op \notin OpsOf(s.canvas.rows) THEN s
        ELSE IF r.op.kind \in {"createVm", "provision"}
        THEN Write(listed, [listed.canvas EXCEPT !.life[n] = LifeShown(plan.rows, n, @)])
        ELSE WithReport(WithEdgesOf(listed, r), plan, r)

LastRow(rs) ==
    LET provisions == {r \in rs : Synthesized(r)} IN
    CHOOSE r \in rs :
        /\ provisions # {} => r \in provisions
        /\ \A q \in (IF provisions = {} THEN rs ELSE provisions) : q.id <= r.id

Applied(plan) ==
    LET rows == canvas.rows \cup {m \in Mirrors(canvas.rows) :
                                    m.op \in OpsOf(plan.rows) \ OpsOf(canvas.rows)}
        start == Write(Current, [canvas EXCEPT !.rows = rows])
    IN  MapThenFoldSet(LAMBDA r, s : WithRow(s, plan, r), start, LAMBDA r : r, LastRow, plan.rows)

-----------------------------------------------------------------------------
\* buildPkiTemplateIntoStores: a two-tier PKI, one deploy away.

TemplateOps ==
    <<Create(CA01), Create(CA02), Create(DC01), Create(SRV1),
      Op("domainJoin", CA02, DC01), Op("domainJoin", SRV1, DC01),
      Op("caConnect", CA02, CA01), Op("webServerCert", CA02, SRV1)>>
TemplateEdges ==
    <<JoinEdge(CA02, DC01, TRUE), JoinEdge(SRV1, DC01, TRUE),
      Ghost("caHierarchy", CA01, "issuance", CA02), Ghost("webServerCert", CA01, "publication", SRV1),
      Ghost("webServerCert", CA02, "publication", SRV1), Ghost("webServerCert", CA02, "ocsp", SRV1)>>

Listing(ops) == FoldLeft(LAMBDA rs, op : Staging(rs, op, NoNode), {}, ops)
Unprobed(es) == [i \in DOMAIN es |-> es[i] @@ [services |-> NoServices]]
Drafted(order, type, config, life, es, ops) ==
    [order |-> order, type |-> type, config |-> config, life |-> life, edges |-> Unprobed(es),
     report |-> [n \in ToSet(order) |-> NoReport], rows |-> Listing(ops), job |-> NoJob, moves |-> 0]

Template ==
    Drafted(<<CA01, CA02, DC01, SRV1>>,
            (CA01 :> CA) @@ (CA02 :> CA) @@ (DC01 :> DC) @@ (SRV1 :> "webServer"),
            (CA01 :> "Root") @@ (CA02 :> "Issuing") @@ (DC01 :> "set") @@ (SRV1 :> "set"),
            [n \in {CA01, CA02, DC01, SRV1} |-> "staged"], TemplateEdges, TemplateOps)

-----------------------------------------------------------------------------
Init ==
    \E scene \in Scenes :
        /\ tabs = scene.tabs /\ docs = [t \in Tabs |-> Stored(scene.docs[t])]
        /\ active = IF scene.tabs = <<>> THEN NoTab ELSE Head(scene.tabs)
        /\ canvas = IF scene.tabs = <<>> THEN NoCanvas ELSE scene.docs[Head(scene.tabs)]
        /\ deploying = FALSE /\ plans = [t \in Tabs |-> NoPlan]
        /\ lens = "none" /\ frozen = NoReport /\ left = scene.left

Spends(what) == left[what] > 0 /\ left' = [left EXCEPT ![what] = @ - 1]
IsOpen == active # NoTab

TypeOK ==
    /\ ToSet(tabs) \subseteq Tabs /\ IsInjective(tabs)
    /\ IF tabs = <<>> THEN active = NoTab /\ canvas = NoCanvas ELSE active \in ToSet(tabs)
    /\ deploying \in BOOLEAN /\ lens \in {"none", "evidence", "journey"}
    /\ \A t \in Tabs : docs[t].dirty \in BOOLEAN
    /\ IsOpen => \A e \in ToSet(canvas.edges) : /\ e.health \in Healths
                                              /\ Range(e.services) \subseteq {"verified", "broken"}
    /\ \A what \in DOMAIN left \ {"verdicts"} : left[what] \in Nat

\* deploy(): the edges of what is sent are planned again before the POST goes out.
Request == Sent(Prepared(canvas.rows, "pending"))
Deploy ==
    LET rows == Prepared(canvas.rows, "pending")
        ids == UNION {EdgesOfRow(canvas, r) : r \in rows}
        planned == SetEdgeHealth(canvas, ids, "planned")
        topology == DeployTopology(View(canvas))
        job == left["deploys"]
    IN  /\ IsOpen /\ ~deploying /\ canvas.rows # {} /\ Spends("deploys")
        /\ IF Compiles(topology, Request)
           THEN /\ deploying' = TRUE
                /\ Becomes(Checkpoint(Current, [planned EXCEPT !.rows = rows, !.job = job]))
                /\ plans' = [plans EXCEPT ![active] =
                     [job |-> job, topology |-> topology, rows |-> Request \cup Mirrors(Request),
                      reports |-> [op \in OpsOf(Request \cup Mirrors(Request)) |-> NoReport]]]
           ELSE /\ Becomes(Checkpoint(Current, [planned EXCEPT !.rows = Prepared(canvas.rows, "staged")]))
                /\ UNCHANGED <<deploying, plans>>
        /\ UNCHANGED <<tabs, active, lens, frozen>>

\* The server: a row whose dependencies are done ends, and a failed one takes along
\* what waits for it.
Ends(t, r, status, report) ==
    LET plan == plans[t]
        skipped == IF status = "error" THEN Cascaded(plan.topology, plan.rows, r) ELSE {}
    IN  plans' = [plans EXCEPT
            ![t].rows = {IF q = r THEN [q EXCEPT !.status = status]
                         ELSE IF q \in skipped THEN [q EXCEPT !.status = "cancelled"] ELSE q : q \in @},
            ![t].reports[r.op] = report]
IsReady(t, r) ==
    /\ r.status = "pending"
    /\ \A q \in NeededBy(plans[t].topology, plans[t].rows, r) : q.status = "done"

Works(t, r) ==
    /\ IsReady(t, r)
    /\ \/ r.op.kind # "webServerCert" /\ Ends(t, r, "done", NoReport) /\ UNCHANGED left
       \/ Spends("errors") /\ Ends(t, r, "error", NoReport)
    /\ UNCHANGED <<tabs, docs, active, canvas, deploying, lens, frozen>>

\* A certificate is realized when the health gate behind it finds nothing.
Gate(t, r, failed) ==
    /\ IsReady(t, r) /\ r.op.kind = "webServerCert"
    /\ Ends(t, r, IF failed = {} THEN "done" ELSE "error", [job |-> plans[t].job, failed |-> failed])
    /\ UNCHANGED <<tabs, docs, active, canvas, deploying, lens, frozen, left>>

Server ==
    \E t \in {u \in Tabs : plans[u] # NoPlan} : \E r \in plans[t].rows :
        \/ Works(t, r)
        \/ \E failed \in left["verdicts"] : Gate(t, r, failed)

IsFollowed == deploying /\ plans[active] # NoPlan

\* A frame with the state of the plan, whether the client knows it already or not.
Frame ==
    /\ IsFollowed
    /\ Becomes(Applied(plans[active]))
    /\ UNCHANGED <<tabs, active, deploying, plans, lens, frozen, left>>

\* finishDeploy.
PlanEnds ==
    /\ IsFollowed /\ \A r \in plans[active].rows : r.status \in Finals
    /\ LET s == Applied(plans[active])
       IN  Becomes(Checkpoint(s, [s.canvas EXCEPT !.rows = Finished(@), !.job = NoJob]))
    /\ deploying' = FALSE /\ plans' = [plans EXCEPT ![active] = NoPlan]
    /\ UNCHANGED <<tabs, active, lens, frozen, left>>

\* revertNonTerminalToStaged: the plan broke off, or its stream is out of reach.
Lost ==
    LET open == Resettable(canvas.rows)
        ids == UNION {EdgesOfRow(canvas, r) : r \in Sent(open)}
        life == [n \in DOMAIN canvas.life |->
                   IF {Create(n), Provision(n)} \cap OpsOf(open) # {} THEN "staged" ELSE canvas.life[n]]
    IN  /\ deploying /\ Spends("losses")
        /\ Becomes(Checkpoint(Current, [SetEdgeHealth(canvas, ids, "planned") EXCEPT
                      !.life = life, !.rows = Reverted(@), !.job = NoJob]))
        /\ deploying' = FALSE /\ plans' = [plans EXCEPT ![active] = NoPlan]
        /\ UNCHANGED <<tabs, active, lens, frozen>>

-----------------------------------------------------------------------------
\* Edits.

Cascade(first) == UNION {{r} \cup Dependents(canvas.rows, r) : r \in first}
Undone(c, gone) ==
    LET ids == UNION {EdgesOfRow(c, r) : r \in gone} IN
    [c EXCEPT !.rows = @ \ gone,
              !.edges = SelectSeq(@, LAMBDA e : IdOf(e) \notin ids),
              !.life = [n \in DOMAIN @ |-> IF Create(n) \in OpsOf(gone) THEN "draft" ELSE @[n]]]

\* removeOpCascade.
RemoveRow(r) ==
    /\ IsOpen /\ ~deploying /\ ~Synthesized(r) /\ Spends("edits")
    /\ Becomes(Checkpoint(Current, Undone(canvas, Cascade({r}))))
    /\ UNCHANGED <<tabs, active, deploying, plans, lens, frozen>>

\* removeNode, from the Inspector: no lens is in its way.
DeleteNode(n) ==
    LET gone == Cascade({r \in canvas.rows : n \in {r.op.target, r.op.secondary}})
        undone == Undone(canvas, gone)
    IN  /\ IsOpen /\ ~deploying /\ Spends("edits")
        /\ Becomes(Checkpoint(Current, [undone EXCEPT
                      !.order = SelectSeq(@, LAMBDA m : m # n),
                      !.edges = SelectSeq(@, LAMBDA e : n \notin {e.source, e.target}),
                      !.report[n] = NoReport]))
        /\ UNCHANGED <<tabs, active, deploying, plans, lens, frozen>>

\* A card is dragged within its domain: no more than dirty.
Drag ==
    /\ IsOpen /\ ~deploying /\ lens # "evidence" /\ Spends("edits")
    /\ Becomes(Write(Current, [canvas EXCEPT !.moves = @ + 1]))
    /\ UNCHANGED <<tabs, active, deploying, plans, lens, frozen>>

Save ==
    /\ IsOpen /\ docs[active].dirty
    /\ Becomes(Checkpoint(Current, canvas))
    /\ UNCHANGED <<tabs, active, deploying, plans, lens, frozen, left>>

-----------------------------------------------------------------------------
\* The lenses.

ToggleEvidence ==
    /\ IsOpen /\ CurrentEvidence(canvas) # NoReport
    /\ IF lens = "evidence" THEN lens' = "none" /\ frozen' = NoReport
       ELSE /\ lens' = "evidence"
            /\ frozen' = [canvas |-> canvas, report |-> CurrentEvidence(canvas)]
    /\ UNCHANGED <<tabs, docs, active, canvas, deploying, plans, left>>

ToggleJourney ==
    /\ IsOpen /\ JourneyOf(canvas) # NoReport
    /\ lens' = IF lens = "journey" THEN "none" ELSE "journey"
    /\ UNCHANGED <<tabs, docs, active, canvas, deploying, plans, frozen, left>>

-----------------------------------------------------------------------------
\* Tabs.

\* sanitizeOps: no row stays without the rows that it depends on.
SanitizedRows(rs) ==
    LET lacking == {r \in rs : ~(r.deps \subseteq {q.id : q \in rs})} IN
    rs \ UNION {{r} \cup Dependents(rs, r) : r \in lacking}

\* persistActiveDraft.
WithDraft == IF IsOpen THEN [docs EXCEPT ![active].canvas = canvas] ELSE docs

\* activate: the job of the document is followed again; the canvas mounts anew.
Activate(t, c) ==
    /\ active' = t /\ canvas' = IF t = NoTab THEN NoCanvas ELSE [c EXCEPT !.rows = SanitizedRows(@)]
    /\ deploying' = (t # NoTab /\ c.job # NoJob)
    /\ lens' = "none" /\ frozen' = NoReport

Switch(t) ==
    /\ t # active /\ Spends("switches")
    /\ docs' = WithDraft /\ Activate(t, docs[t].canvas)
    /\ UNCHANGED <<tabs, plans>>

AddFromTemplate(t) ==
    /\ t \notin ToSet(tabs) /\ Spends("switches")
    /\ tabs' = Append(tabs, t)
    /\ docs' = [WithDraft EXCEPT ![t] = Stored(Template)] /\ Activate(t, Template)
    /\ UNCHANGED plans

\* deleteProject: beside the active tab, or the active one, whose neighbour opens.
DeleteProject(i) ==
    LET rest == RemoveAt(tabs, i)
        next == IF rest = <<>> THEN NoTab ELSE rest[IF i <= Len(rest) THEN i ELSE i - 1]
    IN  /\ Spends("switches") /\ tabs' = rest
        /\ plans' = [plans EXCEPT ![tabs[i]] = NoPlan]
        /\ IF tabs[i] # active THEN UNCHANGED <<active, canvas, deploying, lens, frozen>>
           ELSE Activate(next, IF next = NoTab THEN NoCanvas ELSE docs[next].canvas)
        /\ UNCHANGED docs

Reload ==
    /\ IsOpen /\ Spends("reloads") /\ Activate(active, docs[active].canvas)
    /\ UNCHANGED <<tabs, docs, plans>>

Next ==
    \/ Deploy \/ Server \/ Frame \/ PlanEnds \/ Lost
    \/ \E r \in (IF IsOpen THEN canvas.rows ELSE {}) : RemoveRow(r)
    \/ \E n \in (IF IsOpen THEN ToSet(canvas.order) ELSE {}) : DeleteNode(n)
    \/ Drag \/ Save \/ ToggleEvidence \/ ToggleJourney
    \/ \E t \in ToSet(tabs) : Switch(t)
    \/ \E t \in Tabs : AddFromTemplate(t)
    \/ \E i \in DOMAIN tabs : DeleteProject(i)
    \/ Reload

Spec == Init /\ [][Next]_vars

-----------------------------------------------------------------------------
OneHost(c) == Cardinality({n \in DOMAIN c.type : c.type[n] = "webServer"}) = 1
Agrees(c, snapshot) ==
    \A r \in snapshot.relationships :
        r.services # NoServices => r.services = Services(c, r.edge, snapshot.verification.failed)

\* What Evidence mode has frozen is of one verification: the services on its edges are
\* those of the report beside them, after retries, reloads and a deploy that goes on
\* behind it (buildAuditSnapshot, applyLabEvidence).  With several web hosts it is not.
SnapshotAgrees ==
    lens = "evidence" /\ OneHost(frozen.canvas) =>
        Agrees(frozen.canvas, AuditSnapshot(frozen.canvas, frozen.report))

\* A check that failed does not pass unseen on a PKI that the compiler takes: it is the
\* warning of a card, or behind a service that is drawn broken (NODE_CHECKS,
\* serviceHealthForEdge, MachineNode, CapabilityEdge).
EveryFailureIsShown ==
    IsOpen /\ OneHost(canvas) /\ CurrentEvidence(canvas) # NoReport
        /\ Valid(DeployTopology(View(canvas))) =>
      \A check \in CurrentEvidence(canvas).failed :
        \/ \E n \in ToSet(canvas.order) : CardWarning(canvas, n) = check
        \/ \E e \in ToSet(canvas.edges) :
              "broken" \in Drawn(e) /\ \E port \in DOMAIN e.services :
                e.services[port] = "broken" /\ check \in PortChecks(canvas, e)[port]

\* At rest, an operation that is still listed is not shown as realized: one of its edges
\* is not verified, whatever another host's report says of them (applyLabEvidence,
\* aggregateServiceHealth, finishDeploy, revertNonTerminalToStaged).
ListedIsOpen ==
    IsOpen /\ ~deploying =>
      \A r \in canvas.rows :
        LET es == OperationEdges(r, ToSet(canvas.edges)) IN
        es # {} => \E e \in es : e.health # "verified"

Content(t) == IF t = active THEN canvas ELSE docs[t].canvas
Shown(c) == <<c.order, c.life, c.report, HealthById(c)>>
Whole(c) == <<Shown(c), c.moves, c.edges, c.job>>

\* Leaving a tab takes nothing from what any tab shows, and neither does a reload, which
\* may lose no more than what was marked as unsaved (initProjectAutosave,
\* persistActiveDraft, activate).
LeavingKeeps ==
    [][/\ left'["switches"] < left["switches"] =>
            \A t \in ToSet(tabs) \cap ToSet(tabs') : Whole(Content(t)') = Whole(Content(t))
       /\ left'["reloads"] < left["reloads"] =>
            /\ Shown(canvas') = Shown(canvas)
            /\ docs[active].dirty \/ Whole(canvas') = Whole(canvas)]_vars
=============================================================================
