------------------------------ MODULE Inspector ------------------------------
(***************************************************************************)
(* The panel of the selected card (frontend Inspector.tsx) and the ISO that   *)
(* an operator authors for it (IsoAuthoringPanel.tsx, ScriptEditorDialog.tsx,  *)
(* GenerateScriptDialog.tsx, setIsoAuthoring, buildOpPayload; backend           *)
(* routers/iso.py).  A card is renamed, configured, cloned by a plan and         *)
(* deleted; scripts and uploads are answered later, when the card, the            *)
(* selection or the list may have changed.                                        *)
(*                                                                                 *)
(* The panels under the Inspector have no key: one that is shown for two cards in  *)
(* a row stays mounted, with what it holds; else it starts afresh, and what its    *)
(* calls set of its own state is lost, but not what they write to the card.        *)
(* The list holds clones only; CanvasEditing has the rest of it.                   *)
(***************************************************************************)
EXTENDS Naturals, FiniteSets, Sequences, SequencesExt

CONSTANTS
    Cards, None,
    Names,
    Values, Default,    \* what a configuration form holds: a domain or CA name and a password
    Weak,               \* pairs of a name and a value: the password has the name in it
    Scripts,            \* file names
    RoleScripts,        \* of the template
    Generated,          \* the file of GenerateScriptDialog
    ISO_MAX_FILES,
    Starts,             \* canvases to start from
    MaxUploads, MaxGestures, MaxShortcuts

VARIABLES
    canvas,             \* nodes, and by card: life, name, config, vm (the name it was
                        \* cloned by), iso
    list,               \* the cards whose clones are listed
    selected,
    panel,              \* rename, form (what was typed since it is shown), asked (pendingDelete),
                        \* key (Canvas's pendingNodeDelete), busy, uploading, generating
    calls,              \* answers that are awaited; mine, while the panel that asked is mounted
    deploying,
    plan,               \* the clones in flight
    stored, swept,      \* uploads
    leaked,             \* history: uploads that were not deleted though it was asked for, or
                        \* that were stored without an answer
    uploads, gestures, shortcuts,   \* bounds
    raced,              \* history: an upload was answered to a plan in flight or a card that is
                        \* gone, or a card had two uploads in flight
    stale,              \* history: a list of scripts changed while a script for it was awaited
    strayed             \* history: a shortcut went past an open dialog

vars == <<canvas, list, selected, panel, calls, deploying, plan, stored, swept, leaked, uploads,
          gestures, shortcuts, raced, stale, strayed>>

Lives == {"draft", "staged", "deploying", "provisioning", "deployed", "drifted", "failed"}
Modes == {"pack", "uploadIso"}
Isos == 1..MaxUploads
Iso(c, n) == c.iso[n]

\* The cards of a list that are in S.
Kept(s, S) ==
    LET kept[i \in 0..Len(s)] ==
            IF i = 0 THEN <<>>
            ELSE IF s[i] \in S THEN Append(kept[i - 1], s[i]) ELSE kept[i - 1]
    IN  kept[Len(s)]

EmptyIso == [enabled |-> FALSE, mode |-> "pack", files |-> {}, isoId |-> None, seeded |-> FALSE]
IsoRecords == [enabled : BOOLEAN, mode : Modes, files : SUBSET Scripts,
               isoId : Isos \cup {None}, seeded : BOOLEAN]

Canvases == [nodes : SUBSET Cards, life : [Cards -> Lives], name : [Cards -> Names],
             config : [Cards -> Values \cup {None}], vm : [Cards -> Names \cup {None}],
             iso : [Cards -> IsoRecords]]
UploadsOf(c) == {Iso(c, n).isoId : n \in c.nodes} \ {None}

\* On a canvas to start from a machine has the name of its card, and no two cards have the
\* same upload; the first uploads are those of the cards.
IsStart(c) ==
    /\ c \in Canvases
    /\ \A n \in c.nodes : c.vm[n] \in {None, c.name[n]}
    /\ \A n, m \in c.nodes : n # m /\ Iso(c, n).isoId # None => Iso(c, n).isoId # Iso(c, m).isoId
    /\ UploadsOf(c) \subseteq 1..Cardinality(UploadsOf(c))

ASSUME InspectorAssumption ==
    /\ IsFiniteSet(Cards) /\ None \notin Cards \cup Names \cup Nat
    /\ Default \in Values /\ Generated \in Scripts /\ RoleScripts \subseteq Scripts
    /\ {MaxUploads, MaxGestures, MaxShortcuts} \subseteq Nat
    /\ \A c \in Starts : IsStart(c)

-----------------------------------------------------------------------------
\* What is shown.

HasForm(c, n) == n \in c.nodes /\ c.life[n] \in {"draft", "failed"}
HasIsoPanel(c, n) == n \in c.nodes /\ c.life[n] \in {"draft", "failed", "staged"}
HasCommands(c, n) == n \in c.nodes /\ c.life[n] \in {"provisioning", "deployed", "drifted"}
IsDeployed(c, n) == c.life[n] \in {"deployed", "drifted"}
CanDelete(c, n) ==
    n \in c.nodes /\ c.vm[n] = None /\ ~IsDeployed(c, n) /\ c.life[n] # "deploying"

\* The dialog of the Inspector lists the operations of the card it asks of; it is gone from
\* the screen while no card is selected.
AskShown == panel.asked # None /\ selected \in canvas.nodes
Modal == AskShown \/ panel.key # None \/ panel.generating

\* A step that leaves canvas c and selection s, and sets the panel to p and the calls to cs.
Shows(c, s, p, cs) ==
    LET iso == HasIsoPanel(c, s)
        commands == HasCommands(c, s)
    IN  /\ canvas' = c /\ selected' = s
        /\ panel' = [p EXCEPT !.uploading = @ /\ iso, !.generating = @ /\ iso,
                              !.busy = @ /\ commands,
                              !.form = IF s = selected /\ HasForm(c, s) THEN @ ELSE None]
        /\ calls' = {[call EXCEPT !.mine = @ /\ IF call.kind = "command" THEN commands ELSE iso]
                        : call \in cs}

Gesture == ~Modal /\ gestures > 0 /\ gestures' = gestures - 1 /\ UNCHANGED shortcuts
Pressed == shortcuts < MaxShortcuts /\ shortcuts' = shortcuts + 1 /\ UNCHANGED gestures
NoGesture == UNCHANGED <<gestures, shortcuts>>

Panels == [rename : BOOLEAN, form : Values \cup {None}, asked : Cards \cup {None},
           key : Cards \cup {None}, busy : BOOLEAN, uploading : BOOLEAN, generating : BOOLEAN]

\* What is awaited: the end of a command, or an answer to a call from the panel of a disc.
Asked(kinds, files) == [kind : kinds, node : Cards, mine : BOOLEAN, seen : IsoRecords, file : files]
Calls == [kind : {"command"}, node : Cards, mine : BOOLEAN]
         \cup Asked({"seed"}, {None}) \cup Asked({"import", "generate"}, Scripts)
         \cup Asked({"upload"}, Isos)

Discs == [kind : {"upload", "pack", "rendered"}, isoId : Isos \cup {None}, files : SUBSET Scripts]
Clones == [node : Cards, name : Names, disc : Discs, status : {"sent", "running", "done", "error"}]

TypeOK ==
    /\ canvas \in Canvases /\ list \in Seq(Cards) /\ selected \in canvas.nodes \cup {None}
    /\ panel \in Panels /\ calls \subseteq Calls /\ plan \subseteq Clones
    /\ {stored, swept, leaked} \subseteq SUBSET Isos /\ uploads \in 0..MaxUploads
    /\ gestures \in Nat /\ shortcuts \in Nat
    /\ {deploying, raced, stale, strayed} \subseteq BOOLEAN

Init ==
    /\ canvas \in Starts
    /\ list = SetToSeq({n \in canvas.nodes : canvas.life[n] = "staged"})
    /\ selected = None
    /\ panel = [rename |-> FALSE, form |-> None, asked |-> None, key |-> None, busy |-> FALSE,
                uploading |-> FALSE, generating |-> FALSE]
    /\ calls = {} /\ deploying = FALSE /\ plan = {}
    /\ stored = UploadsOf(canvas) /\ swept = {} /\ leaked = {}
    /\ uploads = Cardinality(stored) /\ gestures = MaxGestures /\ shortcuts = 0
    /\ raced = FALSE /\ stale = FALSE /\ strayed = FALSE

UnchangedPlan == UNCHANGED <<deploying, plan>>
UnchangedUploads == UNCHANGED <<stored, swept, leaked, uploads, raced>>

\* The DELETEs of the client and of the worker are best-effort: each may fail unnoticed.
Deletes(kept, ids) ==
    \E failed \in SUBSET (ids \cap kept) :
        stored' = kept \ (ids \ failed) /\ leaked' = leaked \cup failed
UnchangedHistory == UNCHANGED <<stale, strayed>>

-----------------------------------------------------------------------------
\* Selection, names, configuration.

Select(n) ==
    /\ Gesture
    /\ n \in canvas.nodes \cup {None} /\ n # selected
    /\ Shows(canvas, n, panel, calls)
    /\ UNCHANGED list /\ UnchangedPlan /\ UnchangedUploads /\ UnchangedHistory

StartRename ==
    /\ Gesture
    /\ selected \in canvas.nodes /\ canvas.vm[selected] = None /\ ~panel.rename
    /\ Shows(canvas, selected, [panel EXCEPT !.rename = TRUE], calls)
    /\ UNCHANGED list /\ UnchangedPlan /\ UnchangedUploads /\ UnchangedHistory

\* renameNode returns while a plan is in flight.
Renamed(x) == IF deploying THEN canvas ELSE [canvas EXCEPT !.name[selected] = x]
CommitRename(x) ==
    /\ Gesture
    /\ selected \in canvas.nodes /\ canvas.vm[selected] = None /\ panel.rename
    /\ Shows(Renamed(x), selected, [panel EXCEPT !.rename = FALSE], calls)
    /\ UNCHANGED <<list, stale, strayed>> /\ UnchangedPlan /\ UnchangedUploads

\* What the form shows: what was typed, or the configuration of the card.
Shown == CASE panel.form # None -> panel.form
           [] panel.form = None /\ canvas.config[selected] # None -> canvas.config[selected]
           [] OTHER -> Default

\* setNodeConfig: at every key, but not while a plan is in flight.
SetNodeConfig(n, v) ==
    IF deploying \/ ~HasForm(canvas, n) THEN canvas ELSE [canvas EXCEPT !.config[n] = v]
Type(v) ==
    /\ Gesture
    /\ HasForm(canvas, selected) /\ v # Shown
    /\ Shows(SetNodeConfig(selected, v), selected, [panel EXCEPT !.form = v], calls)
    /\ UNCHANGED list /\ UnchangedPlan /\ UnchangedUploads /\ UnchangedHistory

\* configurationNameCollision
Collides(n, v) == \E m \in canvas.nodes \ {n} : canvas.config[m] = v

\* configureNode, of a card whose clone is not listed still.
Configure ==
    /\ Gesture /\ ~deploying
    /\ HasForm(canvas, selected) /\ selected \notin Range(list)
    /\ ~Collides(selected, Shown) /\ <<canvas.name[selected], Shown>> \notin Weak
    /\ list' = Append(list, selected)
    /\ Shows([canvas EXCEPT !.life[selected] = "staged", !.config[selected] = Shown],
             selected, panel, calls)
    /\ UnchangedPlan /\ UnchangedUploads /\ UnchangedHistory

-----------------------------------------------------------------------------
\* Deletion, by the button and by the key, and the shortcut that undoes.

\* removeNodeCore, with its upload.
Removes(n, p) ==
    /\ list' = Kept(list, Cards \ {n})
    /\ Deletes(stored, {Iso(canvas, n).isoId})
    /\ Shows([canvas EXCEPT !.nodes = @ \ {n}], IF selected = n THEN None ELSE selected, p, calls)
    /\ UNCHANGED <<swept, uploads, raced, stale>> /\ UnchangedPlan

Asks(p) ==
    Shows(canvas, selected, p, calls) /\ UNCHANGED <<list, stale>>
    /\ UnchangedPlan /\ UnchangedUploads

\* handleDelete.
DeleteButton ==
    /\ Gesture /\ ~deploying /\ CanDelete(canvas, selected)
    /\ IF selected \in Range(list) THEN Asks([panel EXCEPT !.asked = selected])
       ELSE Removes(selected, panel)
    /\ UNCHANGED strayed

\* Mutant: the question is not forgotten.
KeepsAsking(p) == p
Answered(p) == [p EXCEPT !.asked = None]
\* confirmDelete: of the card that is selected now.
ConfirmDelete ==
    /\ AskShown /\ panel.key = None /\ NoGesture
    /\ IF deploying THEN Asks(Answered(panel)) ELSE Removes(selected, Answered(panel))
    /\ UNCHANGED strayed
CancelDelete ==
    /\ AskShown /\ panel.key = None /\ NoGesture
    /\ Asks([panel EXCEPT !.asked = None]) /\ UNCHANGED strayed

\* requestNodeDelete.
DeleteKey ==
    /\ Pressed /\ ~deploying /\ selected \in canvas.nodes
    /\ IF selected \in Range(list) \/ canvas.vm[selected] # None \/ IsDeployed(canvas, selected)
       THEN Asks([panel EXCEPT !.key = selected])
       ELSE Removes(selected, panel)
    /\ strayed' = (strayed \/ Modal)
ConfirmKey ==
    /\ panel.key # None /\ NoGesture
    /\ IF deploying \/ panel.key \notin canvas.nodes THEN Asks([panel EXCEPT !.key = None])
       ELSE Removes(panel.key, [panel EXCEPT !.key = None])
    /\ UNCHANGED strayed
CancelKey ==
    /\ panel.key # None /\ NoGesture
    /\ Asks([panel EXCEPT !.key = None]) /\ UNCHANGED strayed

Undo ==
    /\ Pressed /\ ~deploying /\ list # <<>>
    /\ list' = Front(list)
    /\ Shows([canvas EXCEPT !.life[Last(list)] = "draft"], selected, panel, calls)
    /\ strayed' = (strayed \/ Modal)
    /\ UNCHANGED <<stale>> /\ UnchangedPlan /\ UnchangedUploads

-----------------------------------------------------------------------------
\* Commands to the agent of a deployed card.

Run ==
    /\ Gesture
    /\ HasCommands(canvas, selected) /\ ~panel.busy
    /\ Shows(canvas, selected, [panel EXCEPT !.busy = TRUE],
             calls \cup {[kind |-> "command", node |-> selected, mine |-> TRUE]})
    /\ UNCHANGED list /\ UnchangedPlan /\ UnchangedUploads /\ UnchangedHistory

\* A result, an error, or a socket that closed without either; an answer of the agent that
\* is lost brings none of them.
Finished(call) == IF call.mine THEN [panel EXCEPT !.busy = FALSE] ELSE panel
CommandEnds(call) ==
    /\ call.kind = "command"
    /\ Shows(canvas, selected, Finished(call), calls \ {call})
    /\ UNCHANGED list /\ NoGesture /\ UnchangedPlan /\ UnchangedUploads /\ UnchangedHistory

-----------------------------------------------------------------------------
\* The plan of clones.

\* What is burnt for a card: scripts, an upload, or what the server renders.
Disc(iso) ==
    CASE iso.enabled /\ iso.mode = "uploadIso" /\ iso.isoId # None ->
            [kind |-> "upload", isoId |-> iso.isoId, files |-> {}]
      [] iso.enabled /\ iso.mode = "pack" /\ iso.files # {} ->
            [kind |-> "pack", isoId |-> None, files |-> iso.files]
      [] OTHER -> [kind |-> "rendered", isoId |-> None, files |-> {}]

\* emptyIsoNodes.
EmptyIsoNodes(c, cards) ==
    {n \in cards : Iso(c, n).enabled /\ IF Iso(c, n).mode = "pack" THEN Iso(c, n).files = {}
                                        ELSE Iso(c, n).isoId = None}

Deploy ==
    /\ Gesture /\ ~deploying /\ list # <<>> /\ EmptyIsoNodes(canvas, Range(list)) = {}
    /\ deploying' = TRUE
    /\ plan' = {[node |-> n, name |-> canvas.name[n], disc |-> Disc(Iso(canvas, n)),
                 status |-> "sent"] : n \in Range(list)}
    /\ Shows(canvas, selected, panel, calls)
    /\ UNCHANGED list /\ UnchangedUploads /\ UnchangedHistory

\* The compiler checks the names of all cards, drafts too, and the passwords of the clones;
\* the request refers to uploads that are there.
IsAccepted ==
    /\ \A n, m \in canvas.nodes :
            n # m /\ canvas.config[n] # None => canvas.config[n] # canvas.config[m]
    /\ \A p \in plan : /\ <<p.name, canvas.config[p.node]>> \notin Weak
                       /\ p.disc.isoId \in stored \cup {None}
Sent == deploying /\ \A p \in plan : p.status = "sent"

PlanRefused ==
    /\ Sent /\ ~IsAccepted
    /\ plan' = {} /\ deploying' = FALSE
    /\ Shows(canvas, selected, panel, calls)
    /\ UNCHANGED list /\ NoGesture /\ UnchangedUploads /\ UnchangedHistory

\* The worker first sweeps old uploads (gc_orphan_isos), those of this plan too.
PlanStarts(old) ==
    /\ Sent /\ IsAccepted
    /\ old \subseteq stored /\ stored' = stored \ old /\ swept' = swept \cup old
    /\ plan' = {[p EXCEPT !.status = "running"] : p \in plan}
    /\ Shows([canvas EXCEPT !.life = [n \in Cards |->
                IF n \in {p.node : p \in plan} THEN "deploying" ELSE @[n]]],
             selected, panel, calls)
    /\ UNCHANGED <<list, deploying, leaked, uploads, raced>> /\ NoGesture /\ UnchangedHistory

\* An upload is deleted when the clone that consumed it succeeds.
CloneEnds(p, ok) ==
    /\ p.status = "running" /\ (ok => p.disc.isoId \in stored \cup {None})
    /\ plan' = (plan \ {p}) \cup {[p EXCEPT !.status = IF ok THEN "done" ELSE "error"]}
    /\ Shows(IF ok THEN [canvas EXCEPT !.life[p.node] = "provisioning", !.vm[p.node] = p.name]
             ELSE [canvas EXCEPT !.life[p.node] = "failed"],
             selected, panel, calls)
    /\ Deletes(stored, IF ok THEN {p.disc.isoId} ELSE {})
    /\ UNCHANGED <<list, deploying, swept, uploads, raced>> /\ NoGesture /\ UnchangedHistory

PlanEnds ==
    /\ deploying /\ \A p \in plan : p.status \in {"done", "error"}
    /\ deploying' = FALSE /\ plan' = {}
    /\ list' = Kept(list, Cards \ {p.node : p \in {q \in plan : q.status = "done"}})
    /\ Shows(canvas, selected, panel, calls)
    /\ NoGesture /\ UnchangedUploads /\ UnchangedHistory

\* promoteProvisioned.
Promote(n) ==
    /\ n \in canvas.nodes /\ canvas.life[n] = "provisioning"
    /\ Shows([canvas EXCEPT !.life[n] = "deployed"], selected, panel, calls)
    /\ UNCHANGED list /\ NoGesture /\ UnchangedPlan /\ UnchangedUploads /\ UnchangedHistory

-----------------------------------------------------------------------------
\* The disc of the card.

\* Mutant: a plan in flight does not lock the disc.
AlwaysSets(n, iso) ==
    IF n \notin canvas.nodes THEN canvas ELSE [canvas EXCEPT !.iso[n] = iso]
\* setIsoAuthoring returns while a plan is in flight, and marks a deployed card as drifted.
SetIsoAuthoring(n, iso) ==
    IF deploying \/ n \notin canvas.nodes THEN canvas
    ELSE [canvas EXCEPT !.iso[n] = iso,
                        !.life[n] = IF IsDeployed(canvas, n) THEN "drifted" ELSE @]

\* A gesture in the panel of the disc: the disc becomes iso, and cs are called.
Authors(iso, p, cs) ==
    /\ Gesture /\ ~deploying /\ HasIsoPanel(canvas, selected)
    /\ Shows(SetIsoAuthoring(selected, iso), selected, p, calls \cup cs)
    /\ UNCHANGED <<list, strayed>> /\ UnchangedPlan

\* The answer writes over what the panel held when it asked.
Call(kind, file) ==
    [kind |-> kind, node |-> selected, mine |-> TRUE, seen |-> Iso(canvas, selected),
     file |-> file]
\* A call of others writes the files that its panel saw: an edit of card n meanwhile is lost.
Overtakes(n, others) ==
    \E call \in others : call.node = n /\ call.kind \in {"import", "generate"}

\* toggle: the role scripts are asked for once.
Toggle ==
    LET iso == Iso(canvas, selected) IN
    /\ HasIsoPanel(canvas, selected)
    /\ IF iso.enabled THEN Authors([iso EXCEPT !.enabled = FALSE], panel, {})
       ELSE Authors([iso EXCEPT !.enabled = TRUE, !.seeded = TRUE], panel,
                    IF iso.seeded THEN {} ELSE {Call("seed", None)})
    /\ UNCHANGED stale /\ UnchangedUploads

\* Mutant: the list is not read again.
SeedsAnyway(iso) == [iso EXCEPT !.files = RoleScripts]
Seeded(iso) == IF iso.enabled /\ iso.files = {} THEN [iso EXCEPT !.files = RoleScripts] ELSE iso
SeedAnswered(call, ok) ==
    /\ call.kind = "seed"
    /\ LET iso == IF ok THEN Seeded(Iso(canvas, call.node)) ELSE Iso(canvas, call.node)
       IN  /\ Shows(IF iso = Iso(canvas, call.node) THEN canvas ELSE SetIsoAuthoring(call.node, iso),
                    selected, panel, calls \ {call})
           /\ stale' = (stale \/ (iso # Iso(canvas, call.node) /\ Overtakes(call.node, calls)))
    /\ UNCHANGED <<list, strayed>> /\ NoGesture /\ UnchangedPlan /\ UnchangedUploads

SetMode(mode) ==
    /\ HasIsoPanel(canvas, selected) /\ Iso(canvas, selected).enabled
    /\ Iso(canvas, selected).mode # mode
    /\ Authors([Iso(canvas, selected) EXCEPT !.mode = mode], panel, {})
    /\ UNCHANGED stale /\ UnchangedUploads

Authored(mode) ==
    /\ HasIsoPanel(canvas, selected)
    /\ Iso(canvas, selected).enabled /\ Iso(canvas, selected).mode = mode

\* newFile, and the editor that saves a file, under another name too, or deletes it.
Edit(old, new) ==
    LET files == (Iso(canvas, selected).files \ old) \cup new IN
    /\ Authored("pack") /\ files # Iso(canvas, selected).files
    /\ old \subseteq Iso(canvas, selected).files
    /\ new \cap Iso(canvas, selected).files = {} /\ Cardinality(files) <= ISO_MAX_FILES
    /\ Authors([Iso(canvas, selected) EXCEPT !.files = files], panel, {})
    /\ stale' = (stale \/ Overtakes(selected, calls))
    /\ UnchangedUploads

\* importScript: the file is read.
Import(f) ==
    /\ Authored("pack") /\ Authors(Iso(canvas, selected), panel, {Call("import", f)})
    /\ UNCHANGED stale /\ UnchangedUploads

OpenGenerate ==
    /\ Authored("pack") /\ Authors(Iso(canvas, selected), [panel EXCEPT !.generating = TRUE], {})
    /\ UNCHANGED stale /\ UnchangedUploads

\* GenerateScriptDialog: one call of a mounted dialog at a time; it may be closed meanwhile.
Generate ==
    /\ panel.generating /\ ~AskShown /\ panel.key = None
    /\ \A call \in calls : ~(call.mine /\ call.kind = "generate")
    /\ gestures > 0 /\ gestures' = gestures - 1
    /\ Shows(canvas, selected, panel, calls \cup {Call("generate", Generated)})
    /\ UNCHANGED <<list, shortcuts>> /\ UnchangedPlan /\ UnchangedUploads /\ UnchangedHistory
CloseGenerate ==
    /\ panel.generating /\ ~AskShown /\ panel.key = None
    /\ Shows(canvas, selected, [panel EXCEPT !.generating = FALSE], calls)
    /\ UNCHANGED list /\ NoGesture /\ UnchangedPlan /\ UnchangedUploads /\ UnchangedHistory

\* validateAdd, and the list that upsertFile or insertGenerated write: of what was seen.
Added(call) ==
    IF (call.file \in call.seen.files /\ call.kind = "import")
       \/ Cardinality(call.seen.files \cup {call.file}) > ISO_MAX_FILES
    THEN {} ELSE call.seen.files \cup {call.file}
FileAnswered(call, ok) ==
    /\ call.kind \in {"import", "generate"}
    /\ LET files == IF ok THEN Added(call) ELSE {}
           iso == Iso(canvas, call.node)
       IN  /\ Shows(IF files = {} THEN canvas
                    ELSE SetIsoAuthoring(call.node, [iso EXCEPT !.files = files]),
                    selected,
                    [panel EXCEPT !.generating =
                        @ /\ ~(ok /\ call.mine /\ call.kind = "generate")],
                    calls \ {call})
           /\ stale' = (stale \/ Overtakes(call.node, calls \ {call}))
    /\ UNCHANGED <<list, strayed>> /\ NoGesture /\ UnchangedPlan /\ UnchangedUploads

-----------------------------------------------------------------------------
\* Uploads.

\* replaceUploadedIso: previous is what the panel shows when the upload begins.
Upload ==
    /\ Authored("uploadIso") /\ ~panel.uploading /\ uploads < MaxUploads /\ uploads' = uploads + 1
    /\ Authors(Iso(canvas, selected), [panel EXCEPT !.uploading = TRUE],
               {Call("upload", uploads')})
    /\ raced' = (raced \/ \E call \in calls : call.node = selected /\ call.kind = "upload")
    /\ UNCHANGED <<stored, swept, leaked, stale>>

\* Mutant: the upload that was replaced is kept.
KeepsPrevious(call) == Deletes(stored \cup {call.file}, {})
Replaced(call) == Deletes(stored \cup {call.file}, {call.seen.isoId})
Uploaded(call) ==
    /\ call.kind = "upload"
    /\ Shows(SetIsoAuthoring(call.node, [Iso(canvas, call.node) EXCEPT !.isoId = call.file]),
             selected, IF call.mine THEN [panel EXCEPT !.uploading = FALSE] ELSE panel,
             calls \ {call})
    /\ Replaced(call)
    /\ raced' = (raced \/ deploying \/ call.node \notin canvas.nodes)
    /\ UNCHANGED <<list, swept, uploads>> /\ NoGesture /\ UnchangedPlan /\ UnchangedHistory
\* The upload was refused, or stored and the answer lost.
UploadFails(call) ==
    /\ call.kind = "upload"
    /\ Shows(canvas, selected, IF call.mine THEN [panel EXCEPT !.uploading = FALSE] ELSE panel,
             calls \ {call})
    /\ \E lost \in {{}, {call.file}} : stored' = stored \cup lost /\ leaked' = leaked \cup lost
    /\ UNCHANGED <<list, swept, uploads, raced>> /\ NoGesture /\ UnchangedPlan /\ UnchangedHistory

RemoveUpload ==
    /\ Authored("uploadIso") /\ ~panel.uploading /\ Iso(canvas, selected).isoId # None
    /\ Deletes(stored, {Iso(canvas, selected).isoId})
    /\ Authors([Iso(canvas, selected) EXCEPT !.isoId = None], panel, {})
    /\ UNCHANGED <<swept, uploads, raced, stale>>

-----------------------------------------------------------------------------
\* A file that is named, and none or one that it takes the place of.
Edited(f) == \E old \in {{}} \cup {{g} : g \in Scripts} : Edit(old, {f}) \/ Edit(old, {})

Next ==
    \/ \E n \in Cards \cup {None} : Select(n)
    \/ StartRename \/ \E x \in Names : CommitRename(x)
    \/ \E v \in Values : Type(v)
    \/ Configure \/ DeleteButton \/ ConfirmDelete \/ CancelDelete
    \/ DeleteKey \/ ConfirmKey \/ CancelKey \/ Undo
    \/ Run \/ \E call \in calls : CommandEnds(call)
    \/ Deploy \/ PlanRefused \/ \E old \in SUBSET stored : PlanStarts(old)
    \/ \E p \in plan, ok \in BOOLEAN : CloneEnds(p, ok)
    \/ PlanEnds \/ \E n \in Cards : Promote(n)
    \/ Toggle \/ \E mode \in Modes : SetMode(mode)
    \/ \E call \in calls, ok \in BOOLEAN : SeedAnswered(call, ok) \/ FileAnswered(call, ok)
    \/ \E f \in Scripts : Edited(f) \/ Import(f)
    \/ OpenGenerate \/ Generate \/ CloseGenerate
    \/ Upload \/ \E call \in calls : Uploaded(call) \/ UploadFails(call)
    \/ RemoveUpload

Spec == Init /\ [][Next]_vars

-----------------------------------------------------------------------------
\* An upload that a card without a machine, or a clone in flight, refers to was not deleted by
\* the client, and one that is kept is that of a card, unless it leaked: whoever drops or
\* replaces an upload asks for its deletion, best-effort, and asks for no other's
\* (routers/iso.py 9-15).  But for an answer that comes while a plan is in flight, when its
\* card is gone, or second of two.
UploadsMatchCards ==
    ~raced =>
        /\ \A n \in canvas.nodes : canvas.vm[n] = None =>
                Iso(canvas, n).isoId \in stored \cup swept \cup {None}
        /\ \A p \in plan : p.status # "done" => p.disc.isoId \in stored \cup swept \cup {None}
        /\ \A id \in stored \ leaked : \E n \in canvas.nodes : Iso(canvas, n).isoId = id

\* A clone in flight is made of what its card shows: the name, and the scripts or the upload;
\* a card that includes a disc is never cloned with one that the server renders.  Later its
\* name is that of its machine ("locked after deploy").
PlanMatchesPanel ==
    /\ \A p \in plan :
        /\ p.node \in canvas.nodes
        /\ p.name = canvas.name[p.node] /\ p.disc = Disc(Iso(canvas, p.node))
        /\ Iso(canvas, p.node).enabled => p.disc.kind # "rendered"
    /\ \A n \in canvas.nodes : canvas.vm[n] \in {None, canvas.name[n]}

\* An answer takes no script away: toggle re-reads the list when the role scripts come, and an
\* import or a generated script adds to it ("regenerate = update"), but where the list changed
\* while a file for it was awaited.
AnswersKeepScripts ==
    [][\A n \in canvas.nodes \cap canvas'.nodes :
        calls' # calls /\ gestures' = gestures /\ ~stale
            => Iso(canvas, n).files \subseteq Iso(canvas', n).files]_vars

\* A card with listed operations is deleted by a dialog that asked of it (Inspector.tsx 614:
\* "anything with staged ops confirms the cascade"), but where a shortcut went past a dialog.
CascadeIsConfirmed ==
    [][\A n \in canvas.nodes \ canvas'.nodes :
        n \in Range(list) /\ ~strayed => n \in {panel.asked, panel.key}]_vars
=============================================================================
