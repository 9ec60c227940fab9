---------------------------- MODULE CanvasEditing ----------------------------
(***************************************************************************)
(* The canvas as its operator edits it (frontend Canvas.tsx, Inspector.tsx,  *)
(* StagedPanel.tsx, Workspace.tsx and store/topology.ts): cards are dropped,  *)
(* configured, dragged, joined to domains, connected by their sockets and     *)
(* deleted, operations are undone and removed, and what is listed is          *)
(* reviewed and deployed.                                                     *)
(*                                                                            *)
(* A gesture of the mouse is one step, and finds no dialog open.  The dialogs  *)
(* are a stack: the upper one is answered first.  The shortcuts (Ctrl+Z,       *)
(* Delete) are listeners of the window and act whatever is open, and a review  *)
(* opens when the compiler answers.  A plan runs in one step, as LabDeploys    *)
(* shows in detail; no owner stops it here.                                    *)
(***************************************************************************)
EXTENDS CanvasRules, StagedOps, SequencesExt

CONSTANTS
    Scenes,     \* saved canvases to start from: canvas, ops (the list), fresh (cards that
                \* may be dropped), and gestures, a bound
    Places,     \* where a card may be dropped
    Beside,     \* where a join without a drag places a card, from its domain controller
    MaxShortcuts

\* A saved canvas: cards may be saved that are not on it, and a join may lead to one of
\* them; the one socket of an old publication is "legacy" (loadSnapshot).
ASSUME ScenesAssumption ==
    \A scene \in Scenes :
        LET c == scene.canvas
            cards == DOMAIN c.type
        IN  /\ NoNode \notin cards
            /\ c \in [nodes : SUBSET cards, type : [cards -> Types], config : [cards -> Settings],
                      life : [cards -> Lives \cup {"deploying", "drifted", "destroying"}],
                      at : [cards -> Int], edges : {c.edges}]
            /\ c.edges \subseteq [type : EdgeTypes, source : cards, target : cards,
                                   socket : Sockets \cup {"legacy"}, staged : BOOLEAN,
                                   health : Healths]
            /\ \A e \in EdgesOf(c, "webServerCert") :
                  {e.source, e.target} \subseteq c.nodes /\ c.type[e.source] = CA

ASSUME PlacesAssumption == Places \cup {Beside} \subseteq Int

\* A saved project as it is opened.
Listed(scene) ==
    {Row(i, scene.ops[i], "staged",
         Inferred(scene.ops[i], {Row(j, scene.ops[j], "staged", {}, NoNode) : j \in 1..(i - 1)}),
         NoNode) : i \in DOMAIN scene.ops}
Opened(scene) ==
    Hydrated(scene.canvas, {op.target : op \in {o \in Range(scene.ops) : o.kind = "createVm"}})

\* The edges that an operation of the list is of.
CarriesOp(c, e) ==
    e.staged /\ (e.type = "webServerCert" =>
                    c.config[e.source] # "Root" /\ IsComplete(c, e.source, e.target))
OpOfEdge(e) ==
    CASE e.type = "domainJoin" -> Op("domainJoin", e.source, e.target)
      [] e.type = "caHierarchy" -> Op("caConnect", e.target, e.source)
      [] e.type = "webServerCert" -> Op("webServerCert", e.source, e.target)

\* An operation is of cards that are there and has its edge, an edge that is a ghost has
\* its operation, the publication of a root and half a publication apart, and a card whose
\* departure is listed is not shown as a realized member.
ListFits(c, rs) ==
    /\ \A r \in rs : {r.op.target, r.op.secondary} \subseteq c.nodes \cup {NoNode}
    /\ \A r \in rs : r.op.kind \in {"domainJoin", "caConnect", "webServerCert"} =>
          \E e \in c.edges : OpOfEdge(e) = r.op
    /\ \A e \in c.edges : CarriesOp(c, e) => OpOfEdge(e) \in OpsOf(rs)
    /\ \A r \in rs : r.op.kind = "domainLeave" => \A e \in Joins(c, r.op.target) : e.staged

\* The list of a saved project is the one that was listed beside its canvas: no operation
\* twice, and a publication once both of its sockets are connected.
ASSUME SavedAssumption ==
    \A scene \in Scenes :
        LET c == Opened(scene)
            cards == DOMAIN c.type
        IN  /\ IsFiniteSet(cards) /\ scene.fresh \subseteq cards
            /\ scene.ops \in Seq([kind : OpKinds \ {"provision"}, target : cards,
                                   secondary : cards \cup {NoNode}])
            /\ \A i, j \in DOMAIN scene.ops : scene.ops[i] = scene.ops[j] => i = j
            /\ \A i \in DOMAIN scene.ops :
                  LET op == scene.ops[i] IN
                  /\ op.kind \in {"createVm", "domainLeave"} => op.secondary = NoNode
                  /\ op.kind = "webServerCert" => IsComplete(c, op.target, op.secondary)
            /\ \A e \in c.edges :
                  e.type = "webServerCert" <=> e.socket \in {"publication", "ocsp"}
            /\ ListFits(c, Listed(scene))

\* What is listed is still to be done: a card that is staged has its clone listed, a clone is of a
\* card that is not there yet, a relationship is listed as long as it is a ghost, and so is
\* a certificate of a CA that issues.  Roots issue, and a CA that was configured is one of either.
ListIsOpen(c, rs) ==
    /\ \A n \in c.nodes : c.life[n] = "staged" => Create(n) \in OpsOf(rs)
    /\ \A r \in rs : r.op.kind = "createVm" => c.life[r.op.target] \in {"staged", "failed"}
    /\ \A r \in rs : r.op.kind \in {"domainJoin", "caConnect", "webServerCert"} =>
          \E e \in c.edges : e.staged /\ OpOfEdge(e) = r.op
    /\ \A r \in rs : r.op.kind = "webServerCert" =>
          c.config[r.op.target] = "Issuing" /\ IsComplete(c, r.op.target, r.op.secondary)
    /\ \A e \in EdgesOf(c, "caHierarchy") : c.type[e.source] = CA /\ c.config[e.source] = "Root"
    /\ \A n \in c.nodes : c.type[n] = CA /\ c.life[n] # "draft" => c.config[n] \in {"Root", "Issuing"}

\* A saved list was not carried out yet, and a card that may be dropped is not on the canvas.
ASSUME OpenAssumption ==
    \A scene \in Scenes :
        /\ ListIsOpen(Opened(scene), Listed(scene))
        /\ scene.fresh \cap Opened(scene).nodes = {}

VARIABLES
    canvas, fresh,
    rows,           \* the list of operations
    dialogs,        \* the open dialogs, the upper one last
    compiling,      \* the review that is awaited: "none", "accepted" or "refused"
    deploying,
    plan,           \* the rows that were sent, as they will end; none if they are refused
    gestures,       \* bound: gestures left
    shortcuts,      \* bound: shortcuts used
    strayed         \* history: a shortcut or a review went past an open dialog, the change of a
                    \* realized membership was taken back in part or changed again, a failed
                    \* card was configured while its clone is still listed, or the type of a
                    \* CA was changed below its connections

vars == <<canvas, fresh, rows, dialogs, compiling, deploying, plan, gestures, shortcuts,
          strayed>>

Nodes == canvas.nodes

\* Types; operations are known by their ids, and a dialog of a kind is open once.
TypeOK ==
    /\ Nodes \subseteq DOMAIN canvas.type
    /\ \A n \in Nodes : canvas.life[n] \in Lives \cup {"drifted"} /\ canvas.at[n] \in Int
    /\ canvas.edges \subseteq CanvasEdges(DOMAIN canvas.type)
    /\ \A r \in rows : r.id \in Nat \ {0} /\ r.op.kind \in OpKinds /\ r.status \in Statuses
    /\ \A r, s \in rows : r.id = s.id /\ Synthesized(r) = Synthesized(s) => r = s
    /\ \A i, j \in DOMAIN dialogs : dialogs[i].kind = dialogs[j].kind => i = j
    /\ compiling \in {"none", "accepted", "refused"} /\ {deploying, strayed} \subseteq BOOLEAN
    /\ plan \subseteq {r \in plan : r.status \in Finals} /\ gestures \in Nat /\ shortcuts \in Nat

-----------------------------------------------------------------------------
\* revertOp: which edges undone operations take along, and which they bring back.

Without(es, gone) == es \ UNION {OperationEdges(r, es) : r \in gone}
Restored(gone) == {JoinEdge(r.op.target, r.prev, FALSE) : r \in {s \in gone : s.prev # NoNode}}

\* Mutant: an undone operation leaves its edges.
KeepsEdges(gone, es) == es \cup Restored(gone)
EdgesWithout(gone, es) ==
    LET left == Without(es, gone) IN
    left \cup {e \in Restored(gone) : IdOf(e) \notin {IdOf(f) : f \in left}}

Unconfigured(gone, life) ==
    [n \in DOMAIN life |-> IF Create(n) \in OpsOf(gone) THEN "draft" ELSE life[n]]

\* history: a domain that replaces a realized one is left and joined by two rows.
Halves(gone) ==
    \E r \in gone, s \in rows \ gone :
        r.prev # NoNode /\ s.prev # NoNode /\ r.op.target = s.op.target
Strays(past, gone) == strayed' = (strayed \/ past \/ Halves(gone))

\* removeOpCascade of the rows in first; past, if it goes past an open dialog.
Cascade(first) == UNION {{r} \cup Dependents(rows, r) : r \in first}
Removes(gone, past) ==
    /\ Strays(past, gone)
    /\ rows' = rows \ gone
    /\ canvas' = [canvas EXCEPT !.edges = EdgesWithout(gone, @), !.life = Unconfigured(gone, @)]

\* opsReferencingNode.
Referencing(n) == {r \in rows : n \in {r.op.target, r.op.secondary}}

NodeCascade(n) == Cascade(Referencing(n))

\* removeNodeCore.
RemoveNode(n, past) ==
    LET gone == NodeCascade(n) IN
    /\ Strays(past, gone)
    /\ rows' = rows \ gone
    /\ canvas' = [canvas EXCEPT
                    !.nodes = @ \ {n},
                    !.edges = {e \in EdgesWithout(gone, @) : n \notin {e.source, e.target}},
                    !.life = Unconfigured(gone, @)]

-----------------------------------------------------------------------------
\* applyDomainChanges, for the changes of a dialog.

Change(n, dc) == [node |-> n, dc |-> dc]

\* The join that is staged for the node of a change is undone.
StagedJoins(n) == {r \in rows : r.op.kind = "domainJoin" /\ r.op.target = n}
ChangedEdges(changes) ==
    LET moved == {ch.node : ch \in changes} IN
    {e \in canvas.edges : ~(e.type = "domainJoin" /\ e.source \in moved)}
      \cup Restored(UNION {StagedJoins(n) : n \in moved})
      \cup {JoinEdge(ch.node, ch.dc, TRUE) : ch \in {d \in changes : d.dc # NoNode}}

\* A membership of the lab is left by an operation; one that is only staged is undone.
Left(ch) == IF StagedJoins(ch.node) = {} THEN DomainOf(canvas, ch.node) ELSE NoNode
RowsOf(ch, id) ==
    LET join == Op("domainJoin", ch.node, ch.dc) IN
    (IF Left(ch) = NoNode THEN {} ELSE {Row(id, Leave(ch.node), "staged", {}, Left(ch))})
      \cup (IF ch.dc = NoNode THEN {}
            ELSE {Row(id + 1, join, "staged", Inferred(join, rows), Left(ch))})
\* One change after the other, in the order of the cards.
ChangedRows(changes, place) ==
    (rows \ UNION {StagedJoins(ch.node) : ch \in changes})
      \cup UNION {RowsOf(ch, NextId(rows) + 2 * place[ch]) : ch \in changes}

Retargeted(n) == \E r \in StagedJoins(n) : r.prev # NoNode
AppliesChanges(changes) ==
    /\ canvas' = [canvas EXCEPT !.edges = ChangedEdges(changes)]
    /\ \E place \in Injection(changes, 1..Cardinality(changes)) : rows' = ChangedRows(changes, place)
    /\ Strays(\E ch \in changes : Retargeted(ch.node), {})

-----------------------------------------------------------------------------
\* Dialogs.

Upper == dialogs[Len(dialogs)]
Open(d) ==
    LET same == {i \in DOMAIN dialogs : dialogs[i].kind = d.kind} IN
    dialogs' = Append(IF same = {} THEN dialogs ELSE RemoveAt(dialogs, Min(same)), d)
Closes == dialogs' = SubSeq(dialogs, 1, Len(dialogs) - 1)
Asks(kind) == dialogs # <<>> /\ Upper.kind = kind

\* A card is in the circle of its domain, or in no circle and in no domain.
Belongs(c, n) ==
    IF Joins(c, n) = {} THEN FindDomain(c, n) = NoNode ELSE IsWithin(c, n, DomainOf(c, n))

\* rested: history, the cards that are where they belong when it is asked.
Dialog(kind, n, changes, row, back) ==
    [kind |-> kind, node |-> n, changes |-> changes, row |-> row, back |-> back,
     rested |-> {m \in Nodes : kind = "domain" /\ MayJoinDomains(canvas, m) /\ Belongs(canvas, m)}]
NoBack == [n \in {} |-> 0]

Init ==
    \E scene \in Scenes :
        /\ rows = Listed(scene) /\ canvas = Opened(scene)
        /\ fresh = scene.fresh /\ gestures = scene.gestures
        /\ dialogs = <<>> /\ compiling = "none" /\ deploying = FALSE /\ plan = {} /\ shortcuts = 0
        /\ strayed = FALSE

\* A gesture of the mouse.
Mouse ==
    /\ dialogs = <<>> /\ ~deploying
    /\ gestures > 0 /\ gestures' = gestures - 1
    /\ UNCHANGED <<compiling, deploying, plan, shortcuts>>

-----------------------------------------------------------------------------
\* Gestures.

\* onDrop, addNode: a card does not start in a circle.
Drop(n, x) ==
    LET dropped == [canvas EXCEPT !.nodes = @ \cup {n}, !.at[n] = x, !.life[n] = "draft"] IN
    /\ Mouse
    /\ n \in fresh /\ FindOverlapping(dropped, n) = NoNode
    /\ canvas' = dropped /\ fresh' = fresh \ {n}
    /\ UNCHANGED <<rows, dialogs, strayed>>

SettingsOf(type) ==
    CASE type = CA -> {"Root", "Issuing"}
      [] type = "webServer" -> {"set", "OcspOff"}
      [] OTHER -> {"set"}

\* The form of the Inspector is there for a draft, and for a node that failed.
HasForm(n) == canvas.life[n] \in {"draft", "failed"}

\* history: the type of a CA is changed below its connections.
Retyped(n, setting) ==
    /\ canvas.type[n] = CA /\ setting # canvas.config[n]
    /\ \E e \in canvas.edges : e.source = n /\ e.type # "domainJoin"

\* setNodeConfig, as the form is filled in.
EditForm(n, setting) ==
    /\ Mouse
    /\ HasForm(n) /\ setting \in SettingsOf(canvas.type[n]) \ {canvas.config[n]}
    /\ canvas' = [canvas EXCEPT !.config[n] = setting]
    /\ Strays(Retyped(n, setting), {})
    /\ UNCHANGED <<fresh, rows, dialogs>>

\* configureNode.
Configure(n, setting) ==
    /\ Mouse
    /\ HasForm(n) /\ setting \in SettingsOf(canvas.type[n])
    /\ canvas' = [canvas EXCEPT !.config[n] = setting, !.life[n] = "staged"]
    /\ rows' = Staging(rows, Create(n), NoNode)
    /\ Strays(Create(n) \in OpsOf(rows) \/ Retyped(n, setting), {})
    /\ UNCHANGED <<fresh, dialogs>>

\* Mutant: a publication is staged by its first socket.
StagesEach(s, t, edges) ==
    IF canvas.config[s] = "Root" THEN rows ELSE Staging(rows, Op("webServerCert", s, t), NoNode)
\* An issuing CA's two sockets are one operation; a root's publication is part of
\* the connection to its child.
StagesPublication(s, t, edges) ==
    IF \/ canvas.config[s] = "Root" \/ ~IsComplete([canvas EXCEPT !.edges = edges], s, t)
       \/ Op("webServerCert", s, t) \in OpsOf(rows)
    THEN rows ELSE Staging(rows, Op("webServerCert", s, t), NoNode)

\* onConnect, connect: from a socket of s to the same socket of t.
Connect(s, socket, t) ==
    LET type == SocketEdgeType(canvas, s, socket, t)
        edges == canvas.edges \cup {Ghost(type, s, socket, t)}
    IN  /\ Mouse
        /\ Handle(socket, "source") \in Handles(canvas, s)
        /\ t \in CompatibleTargets(canvas, s, socket)
        /\ canvas' = [canvas EXCEPT !.edges = edges]
        /\ rows' = IF type = "caHierarchy" THEN Staging(rows, Op("caConnect", t, s), NoNode)
                   ELSE StagesPublication(s, t, edges)
        /\ UNCHANGED <<fresh, dialogs, strayed>>

\* A domain controller carries its members; a card that would lie on others gives way.
Carried(n) == IF canvas.type[n] = DC THEN Members(canvas, n) ELSE {}
\* onNodeDrag: the cluster moves as one.
CarriedTo(n, x) ==
    [canvas EXCEPT !.at = [m \in DOMAIN @ |-> IF m \in {n} \cup Carried(n) THEN @[m] + x - @[n] ELSE @[m]]]
IsClear(n, x) == Clear(x, PlacesOf(canvas, Nodes \ ({n} \cup Carried(n))))
MovedBy(n, x) == CarriedTo(n, NearestFree(x, PlacesOf(canvas, Nodes \ ({n} \cup Carried(n)))))

\* The circle that a dropped card is asked about: the one it is in, else one that
\* it touches and may not enter.
DropDomain(c, n) ==
    LET centered == FindDomain(c, n)
        touched == FindOverlapping(c, n)
    IN  IF centered # NoNode THEN centered
        ELSE IF touched # NoNode /\ JoinBlocked(c, n, touched) THEN touched ELSE NoNode

IsRefused(c, n) ==
    LET target == DropDomain(c, n) IN
    \/ c.type[n] = DC /\ RegionBlockers(c, n) # {}
    \/ target \notin {NoNode, DomainOf(c, n)} /\ JoinBlocked(c, n, target)

\* onNodeDrag, setDomainDragPreview: the region that accepts or rejects the card.
NoPreview == [dc |-> NoNode, allowed |-> FALSE]
Preview(c, n) ==
    LET target == DropDomain(c, n) IN
    IF c.type[n] = DC
    THEN IF RegionBlockers(c, n) = {} THEN NoPreview ELSE [dc |-> n, allowed |-> FALSE]
    ELSE IF target \in {NoNode, DomainOf(c, n)} THEN NoPreview
         ELSE [dc |-> target, allowed |-> ~JoinBlocked(c, n, target)]

\* Mutant: only the dragged card is looked at.
OwnChange(c, n) ==
    IF MayJoinDomains(c, n) /\ FindDomain(c, n) # DomainOf(c, n)
    THEN {Change(n, FindDomain(c, n))} ELSE {}
\* Mutant: a card changes to the domain that it touches.
TouchChanges(c, n) ==
    {Change(m, FindOverlapping(c, m)) : m \in
        {o \in IF c.type[n] = DC THEN c.nodes \ {n} ELSE {n} :
            MayJoinDomains(c, o) /\ FindOverlapping(c, o) # DomainOf(c, o)}}
\* computeDomainChanges.
DomainChanges(c, n) ==
    {Change(m, FindDomain(c, m)) : m \in
        {o \in IF c.type[n] = DC THEN c.nodes \ {n} ELSE {n} :
            MayJoinDomains(c, o) /\ FindDomain(c, o) # DomainOf(c, o)}}

PlacesBack(ns) == [m \in ns |-> canvas.at[m]]

\* onNodeDragStop: refused, the cards snap back; the rest is asked about.
Drag(n, x) ==
    LET moved == MovedBy(n, x)
        changes == DomainChanges(moved, n)
    IN  /\ Mouse
        /\ ~IsRefused(moved, n) /\ moved # canvas
        /\ canvas' = moved
        /\ IF changes = {} THEN UNCHANGED dialogs
           ELSE Open(Dialog("domain", n, changes, NoNode, PlacesBack({n} \cup Carried(n))))
        /\ UNCHANGED <<fresh, rows, strayed>>

\* DomainJoinAction, requestAccessibleDomainJoin: a join without a drag.
AvailableDomains(n) ==
    {dc \in Nodes : canvas.type[dc] = DC /\ IsConnectable(canvas, dc)} \ {DomainOf(canvas, n)}
JoinAction(n, dc) ==
    LET place == NearestFree(canvas.at[dc] + Beside, PlacesOf(canvas, Nodes \ {n})) IN
    /\ Mouse
    /\ dc \in AvailableDomains(n) /\ ~JoinBlocked(canvas, n, dc)
    /\ canvas' = [canvas EXCEPT !.at[n] = place]
    /\ Open(Dialog("domain", n, {Change(n, dc)}, NoNode, PlacesBack({n})))
    /\ UNCHANGED <<fresh, rows, strayed>>

-----------------------------------------------------------------------------
\* The answers to the dialogs.

Answered == Closes /\ UNCHANGED <<fresh, compiling, gestures, shortcuts>>

\* confirmDomainChanges; it tells of success also when applyDomainChanges returns.
ConfirmDomain ==
    /\ Asks("domain") /\ Answered
    /\ IF deploying THEN UNCHANGED <<canvas, rows, strayed>> ELSE AppliesChanges(Upper.changes)
    /\ UNCHANGED <<deploying, plan>>

SnapsBack(d) ==
    [canvas EXCEPT !.at = [m \in DOMAIN @ |-> IF m \in DOMAIN d.back THEN d.back[m] ELSE @[m]]]
\* cancelDomainChanges.
CancelDomain ==
    /\ Asks("domain") /\ Answered
    /\ canvas' = SnapsBack(Upper)
    /\ UNCHANGED <<rows, deploying, plan, strayed>>

\* confirmNodeDelete, confirmRemove: the row list has no lock.
ConfirmDelete ==
    /\ Asks("delete") /\ Answered
    /\ IF deploying \/ Upper.node \notin Nodes THEN UNCHANGED <<canvas, rows, strayed>>
       ELSE RemoveNode(Upper.node, FALSE)
    /\ UNCHANGED <<deploying, plan>>
ConfirmCut ==
    /\ Asks("cut") /\ Answered
    /\ LET row == {r \in rows : r.id = Upper.row /\ ~Synthesized(r)} IN
       Removes(Cascade(row), FALSE)
    /\ UNCHANGED <<deploying, plan>>
Dismiss ==
    /\ dialogs # <<>> /\ Upper.kind # "domain" /\ Answered
    /\ UNCHANGED <<canvas, rows, deploying, plan, strayed>>

-----------------------------------------------------------------------------
\* Shortcuts, whatever is open.

Shortcut ==
    /\ ~deploying
    /\ shortcuts < MaxShortcuts /\ shortcuts' = shortcuts + 1
    /\ UNCHANGED <<fresh, compiling, deploying, plan, gestures>>

\* Ctrl+Z, undo: the last row, with the provision row it carries.
Undo ==
    LET last == Max({r.id : r \in Sent(rows)}) IN
    /\ Shortcut
    /\ Sent(rows) # {}
    /\ Removes({r \in rows : r.id = last}, dialogs # <<>>)
    /\ UNCHANGED dialogs

\* Delete, requestNodeDelete: of the selected card.
DeleteKey(n) ==
    /\ Shortcut
    /\ n \in Nodes
    /\ \A d \in Range(dialogs) : d.kind = "domain" => n = d.node
    /\ IF NodeCascade(n) = {} /\ ~IsDeployed(canvas, n) /\ canvas.life[n] # "provisioning"
       THEN RemoveNode(n, dialogs # <<>>) /\ UNCHANGED dialogs
       ELSE /\ Open(Dialog("delete", n, {}, NoNode, NoBack)) /\ Strays(dialogs # <<>>, {})
            /\ UNCHANGED <<canvas, rows>>

-----------------------------------------------------------------------------
\* The list of operations.

\* requestRemove.
RequestRemove(row) ==
    /\ Mouse
    /\ ~Synthesized(row)
    /\ IF Dependents(rows, row) = {} THEN Removes({row}, FALSE) /\ UNCHANGED dialogs
       ELSE /\ Open(Dialog("cut", NoNode, {}, row.id, NoBack))
            /\ UNCHANGED <<canvas, rows, strayed>>
    /\ UNCHANGED <<fresh>>

Accepts(rs) == Compiles(DeployTopology(canvas), Sent(Prepared(rs, "pending")))

\* handleDeploy: the canvas can be edited until the compiler answers.
Compile ==
    /\ dialogs = <<>> /\ ~deploying /\ compiling = "none" /\ rows # {} /\ gestures > 0
    /\ compiling' = IF Accepts(rows) THEN "accepted" ELSE "refused"
    /\ gestures' = gestures - 1
    /\ UNCHANGED <<canvas, fresh, rows, dialogs, deploying, plan, shortcuts, strayed>>
Compiled ==
    /\ compiling # "none" /\ compiling' = "none"
    /\ IF compiling = "accepted"
       THEN Open(Dialog("review", NoNode, {}, NoNode, NoBack)) /\ Strays(dialogs # <<>>, {})
       ELSE UNCHANGED <<dialogs, strayed>>
    /\ UNCHANGED <<canvas, fresh, rows, deploying, plan, gestures, shortcuts>>

\* What may come of a plan: every operation succeeds, or one fails.
Outcomes(rs) ==
    LET all == rs \cup Mirrors(rs)
        ends(r, row) == IF r = row THEN "error"
                        ELSE IF r \in Cascaded(DeployTopology(canvas), all, row) THEN "cancelled"
                        ELSE "done"
    IN  {{[r EXCEPT !.status = "done"] : r \in all}}
          \cup {{[r EXCEPT !.status = ends(r, row)] : r \in all} : row \in all}

\* Several rows may refer to one edge.
EdgesShown(rs) ==
    {LET of == {r \in rs : e \in OperationEdges(r, canvas.edges)} IN
     IF of = {} THEN e
     ELSE LET last == CHOOSE r \in of : \A s \in of : s.id <= r.id
          IN  [e EXCEPT !.health = OperationHealth(last.status),
                        !.staged = @ /\ \A r \in of : r.status # "done"]
       : e \in canvas.edges}

\* confirmDeploy, deploy: what is listed now is sent, not what was reviewed.
ConfirmReview ==
    LET sent == Prepared(rows, "pending") IN
    /\ Asks("review") /\ Answered
    /\ IF deploying \/ rows = {} THEN UNCHANGED <<canvas, rows, deploying, plan>>
       ELSE /\ deploying' = TRUE /\ rows' = sent
            /\ canvas' = [canvas EXCEPT !.edges = EdgesShown(sent)]
            /\ plan' \in IF Accepts(rows) THEN Outcomes(sent) ELSE {{}}
    /\ UNCHANGED strayed

\* The frames of a plan touch the rows that are listed still.
Ended(rs) ==
    LET of(r) == {p \in plan : p.id = r.id /\ p.op = r.op} IN
    {IF of(r) = {} THEN r ELSE [r EXCEPT !.status = (CHOOSE p \in of(r) : TRUE).status] : r \in rs}

\* applyPlanState and finishDeploy; a POST that is refused puts the list back.
DeployEnds ==
    LET ended == Ended(rows \cup Mirrors(rows)) IN
    /\ deploying /\ deploying' = FALSE /\ plan' = {}
    /\ IF plan = {}
       THEN rows' = {[r EXCEPT !.status = "staged"] : r \in rows} /\ UNCHANGED canvas
       ELSE /\ rows' = Finished(ended)
            /\ canvas' = [canvas EXCEPT
                  !.edges = EdgesShown(ended),
                  !.life = [n \in DOMAIN @ |->
                              IF n \in Nodes THEN LifeShown(ended, n, @[n]) ELSE @[n]]]
    /\ UNCHANGED <<fresh, dialogs, compiling, gestures, shortcuts, strayed>>

\* promoteProvisioned.
Promote(n) ==
    /\ canvas.life[n] = "provisioning" /\ ~Awaiting(rows, n)
    /\ canvas' = [canvas EXCEPT !.life[n] = "deployed"]
    /\ UNCHANGED <<fresh, rows, dialogs, compiling, deploying, plan, gestures, shortcuts, strayed>>

Next ==
    \/ \E n \in fresh, x \in Places : Drop(n, x)
    \/ \E n \in Nodes :
          \/ \E setting \in Settings : EditForm(n, setting) \/ Configure(n, setting)
          \/ \E x \in Places : Drag(n, x)
          \/ \E m \in Nodes, socket \in Sockets : Connect(n, socket, m)
          \/ \E dc \in Nodes : JoinAction(n, dc)
          \/ DeleteKey(n) \/ Promote(n)
    \/ \E row \in rows : RequestRemove(row)
    \/ ConfirmDomain \/ CancelDomain \/ ConfirmDelete \/ ConfirmCut \/ Dismiss
    \/ Undo \/ Compile \/ Compiled \/ ConfirmReview \/ DeployEnds

Spec == Init /\ [][Next]_vars

-----------------------------------------------------------------------------
\* The list of operations and the canvas tell the same.  (removeNodeCore: "so the Staged
\* panel never lists a dangling op".)
ListMatchesCanvas == ~strayed => ListFits(canvas, rows)

\* A canvas of configured cards whose topology is valid can be deployed as it is listed:
\* what was dragged, connected, undone, removed and deleted before does not matter.
ConfiguredCanvasCompiles ==
    /\ ~strayed /\ ~deploying /\ rows # {}
    /\ \A n \in Nodes : IsConnectable(canvas, n)
    /\ Valid(DeployTopology(canvas))
    => Accepts(rows)

\* A topology that the compiler would take has nothing that the guidance panel or the
\* preview of a connection asks for: two sets of rules, of the canvas and of the backend
\* (lintTopologyRelationships, connectionMissingRequirements; validate_topology).
AcceptedIsGuided ==
    /\ \A n \in Nodes : IsConnectable(canvas, n)
    /\ ~HalfPublished(canvas) /\ Valid(DeployTopology(canvas))
    => IsQuiet(canvas)

\* A card that has settled, by a drag that asks nothing or by a confirmed question, is in
\* the circle of its domain, or in no circle and in no domain; a drag of a domain controller
\* that asks nothing settles every card.  A question that is declined puts every card back
\* where it belongs, if it was there (onNodeDragStop, computeDomainChanges, confirm- and
\* cancelDomainChanges).
Dragged == {n \in Nodes : canvas'.at[n] # canvas.at[n]}
Settled ==
    IF CancelDomain THEN Upper.rested
    ELSE {n \in IF dialogs' # <<>> THEN {}
                ELSE IF Asks("domain") THEN {ch.node : ch \in Upper.changes}
                ELSE IF \E n \in Dragged : canvas.type[n] = DC THEN Nodes ELSE Dragged :
            MayJoinDomains(canvas, n)}
DroppedWhereItBelongs ==
    [][~strayed' => \A n \in Settled : Belongs(canvas', n)]_vars

\* What cancelDomainChanges says of it ("so nothing sits in a region it didn't join"): TLC
\* refutes it with a card that was in a region before the gesture, without having joined
\* it: it is put back there (README.md).
NothingSitsUnjoined ==
    [][CancelDomain /\ ~strayed' =>
          \A ch \in Upper.changes : FindDomain(canvas', ch.node) \in {NoNode, DomainOf(canvas', ch.node)}]_vars

\* What a drag showed is what its drop does: where the card does not give way, the
\* question is of a join exactly if a region was about to accept it, and of that
\* region (onNodeDrag; onNodeDragStop, computeDomainChanges).
AskedAsPreviewed ==
    [][canvas'.at # canvas.at => \A n \in Nodes, x \in Places :
          Drag(n, x) /\ IsClear(n, x) /\ canvas.type[n] # DC =>
            LET shown == Preview(CarriedTo(n, x), n)
                asked == IF dialogs' = <<>> THEN {} ELSE {ch.dc : ch \in dialogs'[1].changes} \ {NoNode}
            IN  asked = IF shown.allowed THEN {shown.dc} ELSE {}]_vars

\* A connection whose preview says "Ready to stage" costs an issuing CA nothing that the
\* compiler asks of it: a CA that is complete stays so (connectionMissingRequirements;
\* validate_topology).  It takes that cards are of one domain at most, and that no host
\* keeps the OCSP connection of a responder that was turned off: the preview asks for the
\* responder at that socket only, and the second socket makes the publication.
RespondersAreOn(c) == \A e \in SocketEdges(c, "ocsp") : IsOcspOn(c, e.target)
ReadyKeepsComplete ==
    [][canvas'.edges # canvas.edges => \A s, t \in Nodes, socket \in Sockets :
          Connect(s, socket, t) /\ ReadyToStage(canvas, s, socket, t)
            /\ OneDomain(DeployTopology(canvas)) /\ RespondersAreOn(canvas)
            /\ CaIsComplete(DeployTopology(canvas), s) => CaIsComplete(DeployTopology(canvas)', s)]_vars
=============================================================================
