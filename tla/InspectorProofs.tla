---------------------------- MODULE InspectorProofs ----------------------------
(***************************************************************************)
(* Proofs about Inspector, for every canvas, every set of names, scripts    *)
(* and images, every form and every bound on gestures and uploads, whatever *)
(* the calls of the panels answer and in whatever order.                    *)
(*                                                                         *)
(* No property is inductive.  PlanMatchesPanel and CascadeIsConfirmed need  *)
(* little more: which cards are listed (PlanInv), which card a dialog asks  *)
(* of (AskInv).  AnswersKeepScripts holds of a step because what an awaited *)
(* answer adds to has every script of its card (AnswerInv).                 *)
(* UploadsMatchCards compares the server's uploads with the cards, which    *)
(* uploads, deletions and clones change one at a time: UploadInv also says  *)
(* that no two cards share an upload, that one in flight is of no card, and *)
(* what the clones that are not done still need; CloneInv says that a card  *)
(* has one clone, and is not on a machine until that is done.               *)
(***************************************************************************)
EXTENDS Inspector, FiniteSetTheorems, WellFoundedInduction, TLAPS

\* A dialog that is open is of a panel that is shown.
Mounted == panel.generating => HasIsoPanel(canvas, selected)

\* What is listed is on the canvas, and clones are in flight only while the plan is.
PlanInv ==
    /\ list \in Seq(canvas.nodes)
    /\ plan # {} => deploying
    /\ PlanMatchesPanel

\* The dialog of the panel asks of the card that is selected, and alone.
AskInv ==
    ~strayed /\ panel.asked # None =>
        panel.asked = selected /\ selected \in canvas.nodes /\ panel.key = None

\* The list that an answer adds to still has every script of the card.
AnswerInv ==
    ~stale => \A call \in calls : call.kind \in {"import", "generate"} =>
        Iso(canvas, call.node).files \subseteq call.seen.files

\* A clone in flight is the one of its card, and until it is done its card is in one of the
\* lives before a machine, as the listed cards are.
Unused == {"draft", "staged", "deploying", "failed"}
CloneInv ==
    /\ \A p, q \in plan : p.node = q.node => p = q
    /\ \A p \in plan : p.status # "done" => canvas.life[p.node] \in Unused
    /\ \A n \in Range(list) :
            canvas.life[n] \in Unused \/ \E p \in plan : p.node = n /\ p.status = "done"

IsUpload(call) == call.kind = "upload"
Id(c, n) == Iso(c, n).isoId
\* The uploads st that are kept and sw that are swept, and those of the cards: a card without a
\* machine has its upload, and an upload is of one card.
Live(c, n) == c.vm[n] = None \/ c.life[n] \in Unused
Matched(c, st, sw, ups) ==
    /\ \A n \in c.nodes : Live(c, n) => Id(c, n) \in st \cup sw \cup {None}
    /\ \A n, m \in c.nodes : n # m /\ Id(c, n) # None => Id(c, n) # Id(c, m)
    /\ st \cup sw \cup UploadsOf(c) \subseteq 1..ups
\* Each of these uploads is that of a card.
Owned(c, ids) == \A id \in ids : \E n \in c.nodes : Id(c, n) = id
\* An upload in flight is a new one, and the only one of its card.
Fresh(call, cs, c, kept, ups) ==
    /\ call.file \in 1..ups /\ call.file \notin kept
    /\ \A n \in c.nodes : Id(c, n) # call.file
    /\ \A other \in cs : IsUpload(other) =>
            /\ call.file # other.seen.isoId
            /\ call.node = other.node \/ call.file = other.file => call = other
\* The upload that it replaces is that of its card alone, if its card has it still.
Replaces(call, c, ups) ==
    /\ call.seen.isoId \in (1..ups) \cup {None}
    /\ call.node \in c.nodes =>
        /\ Id(c, call.node) \in {call.seen.isoId, None}
        /\ \A n \in c.nodes \ {call.node} : Id(c, n) # None => Id(c, n) # call.seen.isoId
Awaited(cs, c, kept, ups) ==
    \A call \in cs : IsUpload(call) => Fresh(call, cs, c, kept, ups) /\ Replaces(call, c, ups)
\* The clones that are not done have their uploads.
Supplied(pl, kept) == \A p \in pl : p.status # "done" => p.disc.isoId \in kept \cup {None}
UploadInv ==
    ~raced => /\ Matched(canvas, stored, swept, uploads)
              /\ Owned(canvas, stored \ leaked)
              /\ Awaited(calls, canvas, stored \cup swept, uploads)
              /\ Supplied(plan, stored \cup swept)

-----------------------------------------------------------------------------
\* Lists.

\* A set of numbers has a least one.
LEMMA LeastNat ==
    ASSUME NEW T \in SUBSET Nat, T # {}
    PROVE  \E n \in T : \A m \in T : n <= m
  <1>. DEFINE R == OpToRel(<, Nat)
  <1>1. PICK n \in T : \A m \in T : <<m, n>> \notin R
    BY NatLessThanWellFounded, WFMin
  <1>2. ASSUME NEW m \in T PROVE n <= m
    <2>1. ~(m < n)
      BY <1>1 DEF OpToRel
    <2>. QED
      BY <2>1
  <1>. QED
    BY <1>2

\* The first n steps of the filter, kept as a list of members of A.
Filters(g, s, S, n) ==
    \A i \in 0..n : g[i] = IF i = 0 THEN <<>>
                           ELSE IF s[i] \in S THEN Append(g[i - 1], s[i]) ELSE g[i - 1]

\* One step more.
LEMMA FilterStep ==
    ASSUME NEW X, NEW s \in Seq(X), NEW S, NEW n \in 1..Len(s),
           NEW g \in [0..(n - 1) -> Seq(X \cap S)], Filters(g, s, S, n - 1)
    PROVE  \E h \in [0..n -> Seq(X \cap S)] : Filters(h, s, S, n)
  <1>. DEFINE A == X \cap S
              last == IF s[n] \in S THEN Append(g[n - 1], s[n]) ELSE g[n - 1]
              h == [i \in 0..n |-> IF i = n THEN last ELSE g[i]]
  <1>1. s[n] \in X /\ g[n - 1] \in Seq(A)
    OBVIOUS
  <1>2. last \in Seq(A)
    BY <1>1
  <1>3. h \in [0..n -> Seq(A)]
    BY <1>2
  <1>4. ASSUME NEW i \in 0..n
        PROVE  h[i] = IF i = 0 THEN <<>>
                      ELSE IF s[i] \in S THEN Append(h[i - 1], s[i]) ELSE h[i - 1]
    <2>1. CASE i = n
      <3>1. h[n] = last /\ h[n - 1] = g[n - 1] /\ n # 0
        OBVIOUS
      <3>. HIDE DEF h
      <3>. QED
        BY <2>1, <3>1
    <2>2. CASE i # n
      <3>1. h[i] = g[i] /\ (i # 0 => h[i - 1] = g[i - 1]) /\ i \in 0..(n - 1)
        BY <2>2
      <3>. HIDE DEF h
      <3>. QED
        BY <3>1 DEF Filters
    <2>. QED
      BY <2>1, <2>2
  <1>. HIDE DEF h, A
  <1>. QED
    BY <1>3, <1>4 DEF Filters, A

\* The filter of a list is defined.
LEMMA FilterExists ==
    ASSUME NEW X, NEW s \in Seq(X), NEW S
    PROVE  \A n \in 0..Len(s) : \E g \in [0..n -> Seq(X \cap S)] : Filters(g, s, S, n)
  <1>. DEFINE Good(n) == \E g \in [0..n -> Seq(X \cap S)] : Filters(g, s, S, n)
              T == {n \in 0..Len(s) : ~Good(n)}
  <1>. SUFFICES ASSUME T # {} PROVE FALSE
    OBVIOUS
  <1>1. PICK n \in T : \A m \in T : n <= m
    <2>1. T \in SUBSET Nat
      OBVIOUS
    <2>. HIDE DEF T
    <2>. QED
      BY <2>1, LeastNat
  <1>2. CASE n = 0
    <2>. DEFINE g == [i \in 0..0 |-> <<>>]
    <2>1. g \in [0..0 -> Seq(X \cap S)] /\ Filters(g, s, S, 0)
      BY DEF Filters
    <2>. QED
      BY <1>2, <2>1
  <1>3. CASE n # 0
    <2>1. n \in 1..Len(s) /\ n - 1 \in 0..Len(s) /\ ~(n <= n - 1)
      BY <1>3
    <2>2. Good(n - 1)
      BY <1>1, <2>1
    <2>. QED
      BY <2>1, <2>2, FilterStep
  <1>. QED
    BY <1>2, <1>3

\* What is kept of a list is a list of its members that are in S.
LEMMA KeptType ==
    ASSUME NEW X, NEW s \in Seq(X), NEW S
    PROVE  Kept(s, S) \in Seq(X \cap S)
  <1>. DEFINE Body(f) == [i \in 0..Len(s) |->
                            IF i = 0 THEN <<>>
                            ELSE IF s[i] \in S THEN Append(f[i - 1], s[i]) ELSE f[i - 1]]
              k == CHOOSE f : f = Body(f)
  <1>1. PICK g \in [0..Len(s) -> Seq(X \cap S)] : Filters(g, s, S, Len(s))
    <2>1. Len(s) \in 0..Len(s)
      OBVIOUS
    <2>2. \A n \in 0..Len(s) : \E g \in [0..n -> Seq(X \cap S)] : Filters(g, s, S, n)
      BY FilterExists
    <2>. QED
      BY <2>1, <2>2, Zenon
  <1>2. g = Body(g)
    BY <1>1 DEF Filters
  <1>. DEFINE Fixed(f) == f = Body(f)
  <1>3. Fixed(CHOOSE f : Fixed(f))
    <2>1. Fixed(g)
      BY <1>2
    <2>. HIDE DEF Fixed
    <2>. QED
      BY <2>1
  <1>4. Kept(s, S) = k[Len(s)] /\ k = Body(k)
    BY <1>3 DEF Kept
  <1>. HIDE DEF k
  <1>5. \A i \in 0..Len(s) : k[i] = IF i = 0 THEN <<>>
                ELSE IF s[i] \in S THEN Append(k[i - 1], s[i]) ELSE k[i - 1]
    BY <1>4
  <1>. DEFINE T == {n \in 0..Len(s) : k[n] # g[n]}
  <1>6. T = {}
    <2>. SUFFICES ASSUME T # {} PROVE FALSE
      OBVIOUS
    <2>1. PICK n \in T : \A m \in T : n <= m
      <3>1. T \in SUBSET Nat
        OBVIOUS
      <3>. HIDE DEF T
      <3>. QED
        BY <3>1, LeastNat
    <2>2. n # 0 => k[n - 1] = g[n - 1]
      <3>. SUFFICES ASSUME n # 0 PROVE n - 1 \notin T /\ n - 1 \in 0..Len(s)
        OBVIOUS
      <3>1. n \in 0..Len(s) /\ Len(s) \in Nat
        OBVIOUS
      <3>. HIDE DEF T
      <3>2. n - 1 \in 0..Len(s) /\ ~(n <= n - 1)
        BY <3>1
      <3>. QED
        BY <2>1, <3>2
    <2>. HIDE DEF T
    <2>3. k[n] # g[n] /\ n \in 0..Len(s)
      BY <2>1 DEF T
    <2>. QED
      BY <1>1, <1>5, <2>2, <2>3 DEF Filters
  <1>7. Kept(s, S) = k[Len(s)]
    BY <1>4
  <1>8. k[Len(s)] = g[Len(s)] /\ g[Len(s)] \in Seq(X \cap S)
    BY <1>6
  <1>. QED
    BY <1>7, <1>8

-----------------------------------------------------------------------------
\* Types.

\* What a step shows: the canvas, the selection, the panel, and the calls that go on.
ShownTypes ==
    /\ canvas \in Canvases /\ selected \in canvas.nodes \cup {None}
    /\ panel \in Panels /\ calls \subseteq Calls /\ Mounted
OtherTypes ==
    /\ list \in Seq(Cards) /\ plan \subseteq Clones
    /\ stored \subseteq Isos /\ swept \subseteq Isos /\ leaked \subseteq Isos
    /\ uploads \in 0..MaxUploads
    /\ gestures \in Nat /\ shortcuts \in Nat
    /\ deploying \in BOOLEAN /\ raced \in BOOLEAN /\ stale \in BOOLEAN /\ strayed \in BOOLEAN

\* What is kept after a deletion, some of which may fail: no more than before, all that was
\* not to be deleted, and of that only what leaked.
LEMMA DeletesSome ==
    ASSUME NEW kept, NEW ids, Deletes(kept, ids)
    PROVE  /\ stored' \subseteq kept /\ kept \ ids \subseteq stored'
           /\ stored' \ leaked' \subseteq (kept \ leaked) \ ids
           /\ leaked' \subseteq leaked \cup kept
  BY DEF Deletes

\* The calls of a step are known calls, but for whether the panel is there still.
LEMMA CallShown ==
    ASSUME NEW call \in Calls, NEW b \in BOOLEAN
    PROVE  /\ [call EXCEPT !.mine = @ /\ b] \in Calls
           /\ [call EXCEPT !.mine = @ /\ b].kind = call.kind
           /\ [call EXCEPT !.mine = @ /\ b].node = call.node
           /\ call.kind # "command" =>
                /\ [call EXCEPT !.mine = @ /\ b].seen = call.seen
                /\ [call EXCEPT !.mine = @ /\ b].file = call.file
  BY DEF Calls, Asked

\* A step shows things of their types, and a dialog only over a panel that is shown.
LEMMA ShowsTypes ==
    ASSUME NEW c \in Canvases, NEW s \in c.nodes \cup {None}, NEW p \in Panels,
           NEW cs \in SUBSET Calls, Shows(c, s, p, cs)
    PROVE  ShownTypes'
  <1>. DEFINE iso == HasIsoPanel(c, s)
              commands == HasCommands(c, s)
  <1>1. iso \in BOOLEAN /\ commands \in BOOLEAN
    BY DEF HasIsoPanel, HasCommands
  <1>2. canvas' = c /\ selected' = s
    BY DEF Shows
  <1>3. PICK form \in Values \cup {None} :
            panel' = [p EXCEPT !.uploading = @ /\ iso, !.generating = @ /\ iso,
                               !.busy = @ /\ commands, !.form = form]
    <2>1. p.form \in Values \cup {None} /\ None \in Values \cup {None}
      BY DEF Panels
    <2>. HIDE DEF iso, commands
    <2>. QED
      BY <2>1 DEF Shows, iso, commands
  <1>4. panel' \in Panels /\ (panel'.generating => iso)
    <2>. DEFINE up == p.uploading /\ iso
                gen == p.generating /\ iso
                busy == p.busy /\ commands
    <2>1. PICK shape \in Values \cup {None} :
              panel' = [p EXCEPT !.uploading = up, !.generating = gen, !.busy = busy, !.form = shape]
      BY <1>3
    <2>2. up \in BOOLEAN /\ gen \in BOOLEAN /\ busy \in BOOLEAN /\ (gen => iso)
      OBVIOUS
    <2>. HIDE DEF iso, commands, up, gen, busy
    <2>. QED
      BY <2>1, <2>2 DEF Panels
  <1>5. calls' \subseteq Calls
    <2>. SUFFICES ASSUME NEW call \in cs
                  PROVE  [call EXCEPT !.mine =
                            @ /\ IF call.kind = "command" THEN commands ELSE iso] \in Calls
      BY DEF Shows
    <2>1. (IF call.kind = "command" THEN commands ELSE iso) \in BOOLEAN
      BY <1>1
    <2>. HIDE DEF iso, commands
    <2>. QED
      BY <2>1, CallShown
  <1>. QED
    BY <1>2, <1>4, <1>5 DEF ShownTypes, Mounted

TypeInv == ShownTypes /\ OtherTypes

\* A finite set is listed.
LEMMA ListOf ==
    ASSUME NEW S, IsFiniteSet(S)
    PROVE  SetToSeq(S) \in Seq(S)
  <1>1. Cardinality(S) \in Nat /\ ExistsBijection(1..Cardinality(S), S)
    BY FS_CardinalityType
  <1>2. PICK f \in [1..Cardinality(S) -> S] : IsInjective(f)
    BY <1>1 DEF ExistsBijection, Bijection, Injection
  <1>3. SetToSeq(S) \in [1..Cardinality(S) -> S]
    BY <1>2 DEF SetToSeq
  <1>. QED
    BY <1>1, <1>3

\* A program starts with a canvas that is well typed.
LEMMA InitTypes == Init => TypeInv
  <1>. SUFFICES ASSUME Init PROVE TypeInv
    OBVIOUS
  <1>1. canvas \in Canvases /\ UploadsOf(canvas) \subseteq 1..Cardinality(UploadsOf(canvas))
    BY InspectorAssumption DEF Init, IsStart
  <1>2. ShownTypes
    BY <1>1 DEF Init, ShownTypes, Mounted, Panels
  <1>3. list \in Seq(Cards)
    <2>. DEFINE S == {n \in canvas.nodes : canvas.life[n] = "staged"}
    <2>1. S \subseteq Cards /\ list = SetToSeq(S)
      BY <1>1 DEF Init, Canvases
    <2>. HIDE DEF S
    <2>2. list \in Seq(S)
      BY <2>1, InspectorAssumption, FS_Subset, ListOf
    <2>. QED
      BY <2>1, <2>2
  <1>4. stored \subseteq Isos
    BY <1>1 DEF Init, UploadsOf, Iso, Canvases, IsoRecords
  <1>5. uploads \in 0..MaxUploads
    <2>1. /\ MaxUploads \in Nat
          /\ IsFiniteSet(1..MaxUploads) /\ Cardinality(1..MaxUploads) = MaxUploads
      BY InspectorAssumption, FS_Interval
    <2>2. Cardinality(stored) \in Nat /\ Cardinality(stored) <= MaxUploads
      BY <1>4, <2>1, FS_Subset, FS_CardinalityType DEF Isos
    <2>. QED
      BY <2>1, <2>2 DEF Init
  <1>6. gestures \in Nat /\ shortcuts \in Nat
    BY InspectorAssumption DEF Init
  <1>. QED
    BY <1>2, <1>3, <1>4, <1>5, <1>6 DEF Init, TypeInv, OtherTypes

\* What the panel of a disc writes is a disc of one card.
LEMMA SetIsoTypes ==
    ASSUME canvas \in Canvases, NEW n \in Cards, NEW iso \in IsoRecords
    PROVE  /\ SetIsoAuthoring(n, iso) \in Canvases
           /\ SetIsoAuthoring(n, iso).nodes = canvas.nodes
  BY DEF SetIsoAuthoring, IsDeployed, Canvases, Lives

\* The disc of a card is a record of discs.
LEMMA IsoTypes ==
    ASSUME NEW c \in Canvases, NEW n \in Cards
    PROVE  Iso(c, n) \in IsoRecords
  BY DEF Canvases, Iso

\* What a clone burns.
LEMMA DiscTypes ==
    ASSUME NEW iso \in IsoRecords
    PROVE  /\ Disc(iso) \in Discs
           /\ Disc(iso).isoId \in {iso.isoId, None}
  BY DEF Disc, Discs, IsoRecords

\* The gestures left are a number.
LEMMA GestureTypes ==
    ASSUME OtherTypes, Gesture \/ Pressed \/ NoGesture
    PROVE  gestures' \in Nat /\ shortcuts' \in Nat
  BY DEF OtherTypes, Gesture, Pressed, NoGesture

\* Selecting, naming and configuring a card keep the types.
LEMMA CardTypes ==
    ASSUME TypeInv,
           \/ \E n \in Cards \cup {None} : Select(n)
           \/ StartRename \/ \E x \in Names : CommitRename(x)
           \/ \E v \in Values : Type(v)
           \/ Configure
    PROVE  TypeInv'
  <1>. USE DEF TypeInv
  <1>a. canvas \in Canvases /\ selected \in canvas.nodes \cup {None} /\ panel \in Panels
        /\ calls \in SUBSET Calls /\ canvas.nodes \subseteq Cards /\ None \notin Cards
    BY InspectorAssumption DEF ShownTypes, Canvases
  <1>1. ASSUME NEW n \in Cards \cup {None}, Select(n) PROVE TypeInv'
    <2>1. ShownTypes'
      BY <1>a, <1>1, ShowsTypes DEF Select
    <2>. QED
      BY <1>1, <2>1, GestureTypes
      DEF Select, OtherTypes, UnchangedPlan, UnchangedUploads, UnchangedHistory
  <1>2. CASE StartRename
    <2>1. [panel EXCEPT !.rename = TRUE] \in Panels
      BY <1>a DEF Panels
    <2>2. ShownTypes'
      BY <1>a, <1>2, <2>1, ShowsTypes DEF StartRename
    <2>. QED
      BY <1>2, <2>2, GestureTypes
      DEF StartRename, OtherTypes, UnchangedPlan, UnchangedUploads, UnchangedHistory
  <1>3. ASSUME NEW x \in Names, CommitRename(x) PROVE TypeInv'
    <2>1. [panel EXCEPT !.rename = FALSE] \in Panels
      BY <1>a DEF Panels
    <2>2. Renamed(x) \in Canvases /\ Renamed(x).nodes = canvas.nodes
      BY <1>a, <1>3 DEF CommitRename, Renamed, Canvases
    <2>3. ShownTypes'
      BY <1>a, <1>3, <2>1, <2>2, ShowsTypes DEF CommitRename
    <2>. QED
      BY <1>3, <2>3, GestureTypes
      DEF CommitRename, OtherTypes, UnchangedPlan, UnchangedUploads
  <1>4. ASSUME NEW v \in Values, Type(v) PROVE TypeInv'
    <2>1. [panel EXCEPT !.form = v] \in Panels
      BY <1>a DEF Panels
    <2>2. SetNodeConfig(selected, v) \in Canvases
          /\ SetNodeConfig(selected, v).nodes = canvas.nodes
      BY <1>a, <1>4 DEF Type, SetNodeConfig, HasForm, Canvases
    <2>3. ShownTypes'
      BY <1>a, <1>4, <2>1, <2>2, ShowsTypes DEF Type
    <2>. QED
      BY <1>4, <2>3, GestureTypes
      DEF Type, OtherTypes, UnchangedPlan, UnchangedUploads, UnchangedHistory
  <1>5. CASE Configure
    <2>1. selected \in Cards
      BY <1>a, <1>5 DEF Configure, HasForm
    <2>2. Shown \in Values \cup {None}
      BY <1>a, <2>1, InspectorAssumption DEF Shown, Panels, Canvases
    <2>3. [canvas EXCEPT !.life[selected] = "staged", !.config[selected] = Shown] \in Canvases
          /\ [canvas EXCEPT !.life[selected] = "staged", !.config[selected] = Shown].nodes
                = canvas.nodes
      BY <1>a, <2>1, <2>2 DEF Canvases, Lives
    <2>4. ShownTypes'
      BY <1>a, <1>5, <2>3, ShowsTypes DEF Configure
    <2>. QED
      BY <1>5, <2>1, <2>4, GestureTypes
      DEF Configure, OtherTypes, UnchangedPlan, UnchangedUploads, UnchangedHistory
  <1>. QED
    BY <1>1, <1>2, <1>3, <1>4, <1>5

\* Removing a card keeps the types.
LEMMA RemovesTypes ==
    ASSUME TypeInv, NEW n \in canvas.nodes, NEW p \in Panels, Removes(n, p),
           gestures' \in Nat, shortcuts' \in Nat, strayed' \in BOOLEAN
    PROVE  TypeInv'
  <1>. USE DEF TypeInv
  <1>1. [canvas EXCEPT !.nodes = @ \ {n}] \in Canvases
        /\ [canvas EXCEPT !.nodes = @ \ {n}].nodes = canvas.nodes \ {n}
    BY DEF ShownTypes, Canvases
  <1>2. (IF selected = n THEN None ELSE selected) \in (canvas.nodes \ {n}) \cup {None}
    BY DEF ShownTypes
  <1>3. ShownTypes'
    BY <1>1, <1>2, ShowsTypes DEF Removes, ShownTypes
  <1>4. list' \in Seq(Cards)
    <2>1. Kept(list, Cards \ {n}) \in Seq(Cards \cap (Cards \ {n}))
      BY KeptType DEF OtherTypes
    <2>. QED
      BY <2>1 DEF Removes
  <1>5. stored' \subseteq Isos /\ leaked' \subseteq Isos
    BY DeletesSome DEF Removes, OtherTypes
  <1>. QED
    BY <1>3, <1>4, <1>5 DEF Removes, OtherTypes, UnchangedPlan

\* Asking, and being told no, keep the types.
LEMMA AsksTypes ==
    ASSUME TypeInv, NEW p \in Panels, Asks(p),
           gestures' \in Nat, shortcuts' \in Nat, strayed' \in BOOLEAN
    PROVE  TypeInv'
  <1>1. ShownTypes'
    BY ShowsTypes DEF Asks, TypeInv, ShownTypes
  <1>. QED
    BY <1>1 DEF Asks, TypeInv, OtherTypes, UnchangedPlan, UnchangedUploads

\* Deleting cards, asked or not, and undoing, keep the types.
LEMMA DeleteTypes ==
    ASSUME TypeInv,
           \/ DeleteButton \/ ConfirmDelete \/ CancelDelete
           \/ DeleteKey \/ ConfirmKey \/ CancelKey \/ Undo
    PROVE  TypeInv'
  <1>. USE DEF TypeInv
  <1>a. canvas \in Canvases /\ selected \in canvas.nodes \cup {None} /\ panel \in Panels
        /\ calls \in SUBSET Calls /\ canvas.nodes \subseteq Cards /\ None \notin Cards
        /\ strayed \in BOOLEAN
    BY InspectorAssumption DEF ShownTypes, OtherTypes, Canvases
  <1>b. /\ Answered(panel) \in Panels
        /\ [panel EXCEPT !.asked = None] \in Panels /\ [panel EXCEPT !.key = None] \in Panels
        /\ \A n \in Cards :
              [panel EXCEPT !.asked = n] \in Panels /\ [panel EXCEPT !.key = n] \in Panels
    BY <1>a DEF Panels, Answered
  <1>1. CASE DeleteButton
    <2>1. gestures' \in Nat /\ shortcuts' \in Nat /\ selected \in canvas.nodes
          /\ strayed' \in BOOLEAN
      BY <1>1, <1>a, GestureTypes DEF DeleteButton, CanDelete
    <2>2. CASE Asks([panel EXCEPT !.asked = selected])
      BY <1>a, <1>b, <2>1, <2>2, AsksTypes
    <2>3. CASE Removes(selected, panel)
      BY <1>a, <2>1, <2>3, RemovesTypes
    <2>. QED
      BY <1>1, <2>2, <2>3 DEF DeleteButton
  <1>2. CASE ConfirmDelete
    <2>1. gestures' \in Nat /\ shortcuts' \in Nat /\ selected \in canvas.nodes
          /\ strayed' \in BOOLEAN
      BY <1>2, <1>a, GestureTypes DEF ConfirmDelete, AskShown
    <2>2. CASE Asks(Answered(panel))
      BY <1>b, <2>1, <2>2, AsksTypes
    <2>3. CASE Removes(selected, Answered(panel))
      BY <1>b, <2>1, <2>3, RemovesTypes
    <2>. QED
      BY <1>2, <2>2, <2>3 DEF ConfirmDelete
  <1>3. CASE CancelDelete
    BY <1>3, <1>a, <1>b, GestureTypes, AsksTypes DEF CancelDelete
  <1>4. CASE DeleteKey
    <2>1. gestures' \in Nat /\ shortcuts' \in Nat /\ selected \in canvas.nodes
      BY <1>4, GestureTypes DEF DeleteKey
    <2>2. strayed' \in BOOLEAN
      BY <1>4, <1>a DEF DeleteKey, Modal
    <2>3. CASE Asks([panel EXCEPT !.key = selected])
      BY <1>a, <1>b, <2>1, <2>2, <2>3, AsksTypes
    <2>4. CASE Removes(selected, panel)
      BY <1>a, <2>1, <2>2, <2>4, RemovesTypes
    <2>. QED
      BY <1>4, <2>3, <2>4 DEF DeleteKey
  <1>5. CASE ConfirmKey
    <2>1. gestures' \in Nat /\ shortcuts' \in Nat /\ strayed' \in BOOLEAN
      BY <1>5, <1>a, GestureTypes DEF ConfirmKey
    <2>2. CASE Asks([panel EXCEPT !.key = None])
      BY <1>b, <2>1, <2>2, AsksTypes
    <2>3. CASE panel.key \in canvas.nodes /\ Removes(panel.key, [panel EXCEPT !.key = None])
      BY <1>b, <2>1, <2>3, RemovesTypes
    <2>. QED
      BY <1>5, <2>2, <2>3 DEF ConfirmKey
  <1>6. CASE CancelKey
    BY <1>6, <1>a, <1>b, GestureTypes, AsksTypes DEF CancelKey
  <1>7. CASE Undo
    <2>1. list \in Seq(Cards) /\ list # <<>>
      BY <1>7 DEF Undo, OtherTypes
    <2>2. Last(list) \in Cards /\ Front(list) \in Seq(Cards)
      BY <2>1 DEF Last, Front
    <2>3. [canvas EXCEPT !.life[Last(list)] = "draft"] \in Canvases
          /\ [canvas EXCEPT !.life[Last(list)] = "draft"].nodes = canvas.nodes
      BY <1>a, <2>2 DEF Canvases, Lives
    <2>4. ShownTypes'
      BY <1>7, <1>a, <2>3, ShowsTypes DEF Undo
    <2>5. strayed' \in BOOLEAN
      BY <1>7, <1>a DEF Undo, Modal
    <2>. QED
      BY <1>7, <2>2, <2>4, <2>5, GestureTypes
      DEF Undo, OtherTypes, UnchangedPlan, UnchangedUploads
  <1>. QED
    BY <1>1, <1>2, <1>3, <1>4, <1>5, <1>6, <1>7

\* Commands keep the types.
LEMMA CommandTypes ==
    ASSUME TypeInv, Run \/ \E call \in calls : CommandEnds(call)
    PROVE  TypeInv'
  <1>. USE DEF TypeInv
  <1>a. canvas \in Canvases /\ selected \in canvas.nodes \cup {None} /\ panel \in Panels
        /\ calls \in SUBSET Calls /\ canvas.nodes \subseteq Cards
    BY DEF ShownTypes, Canvases
  <1>1. CASE Run
    <2>1. [panel EXCEPT !.busy = TRUE] \in Panels
      BY <1>a DEF Panels
    <2>2. calls \cup {[kind |-> "command", node |-> selected, mine |-> TRUE]} \in SUBSET Calls
      <3>1. selected \in Cards
        BY <1>a, <1>1 DEF Run, HasCommands
      <3>2. [kind |-> "command", node |-> selected, mine |-> TRUE]
                \in [kind : {"command"}, node : Cards, mine : BOOLEAN]
        BY <3>1
      <3>. QED
        BY <1>a, <3>2 DEF Calls
    <2>3. ShownTypes'
      BY <1>a, <1>1, <2>1, <2>2, ShowsTypes DEF Run
    <2>. QED
      BY <1>1, <2>3, GestureTypes
      DEF Run, OtherTypes, UnchangedPlan, UnchangedUploads, UnchangedHistory
  <1>2. ASSUME NEW call \in calls, CommandEnds(call) PROVE TypeInv'
    <2>1. Finished(call) \in Panels
      BY <1>a DEF Panels, Finished
    <2>2. ShownTypes'
      BY <1>a, <1>2, <2>1, ShowsTypes DEF CommandEnds
    <2>. QED
      BY <1>2, <2>2, GestureTypes
      DEF CommandEnds, OtherTypes, UnchangedPlan, UnchangedUploads, UnchangedHistory
  <1>. QED
    BY <1>1, <1>2

\* The plan of clones keeps the types.
LEMMA PlanTypes ==
    ASSUME TypeInv,
           \/ Deploy \/ PlanRefused \/ \E old \in SUBSET stored : PlanStarts(old)
           \/ \E p \in plan, ok \in BOOLEAN : CloneEnds(p, ok)
           \/ PlanEnds \/ \E n \in Cards : Promote(n)
    PROVE  TypeInv'
  <1>. USE DEF TypeInv
  <1>a. canvas \in Canvases /\ selected \in canvas.nodes \cup {None} /\ panel \in Panels
        /\ calls \in SUBSET Calls /\ canvas.nodes \subseteq Cards
        /\ list \in Seq(Cards) /\ plan \subseteq Clones
    BY DEF ShownTypes, OtherTypes, Canvases
  <1>1. CASE Deploy
    <2>1. ShownTypes'
      BY <1>a, <1>1, ShowsTypes DEF Deploy
    <2>2. plan' \subseteq Clones
      <3>. SUFFICES ASSUME NEW n \in Range(list)
                    PROVE  [node |-> n, name |-> canvas.name[n], disc |-> Disc(Iso(canvas, n)),
                            status |-> "sent"] \in Clones
        BY <1>1 DEF Deploy
      <3>1. n \in Cards
        BY <1>a DEF Range
      <3>2. Disc(Iso(canvas, n)) \in Discs /\ canvas.name[n] \in Names
        BY <1>a, <3>1, IsoTypes, DiscTypes DEF Canvases
      <3>. QED
        BY <3>1, <3>2 DEF Clones
    <2>. QED
      BY <1>1, <2>1, <2>2, GestureTypes DEF Deploy, OtherTypes, UnchangedUploads, UnchangedHistory
  <1>2. CASE PlanRefused
    <2>1. ShownTypes'
      BY <1>a, <1>2, ShowsTypes DEF PlanRefused
    <2>. QED
      BY <1>2, <2>1, GestureTypes
      DEF PlanRefused, OtherTypes, UnchangedUploads, UnchangedHistory
  <1>3. ASSUME NEW old \in SUBSET stored, PlanStarts(old) PROVE TypeInv'
    <2>. DEFINE c == [canvas EXCEPT !.life = [n \in Cards |->
                        IF n \in {p.node : p \in plan} THEN "deploying" ELSE @[n]]]
    <2>1. c \in Canvases /\ c.nodes = canvas.nodes
      BY <1>a DEF Canvases, Lives
    <2>2. Shows(c, selected, panel, calls)
      BY <1>3 DEF PlanStarts
    <2>. HIDE DEF c
    <2>3. ShownTypes'
      BY <1>a, <2>1, <2>2, ShowsTypes
    <2>4. plan' \subseteq Clones
      BY <1>a, <1>3 DEF PlanStarts, Clones
    <2>. QED
      BY <1>3, <2>3, <2>4, GestureTypes DEF PlanStarts, OtherTypes, UnchangedHistory
  <1>4. ASSUME NEW p \in plan, NEW ok \in BOOLEAN, CloneEnds(p, ok) PROVE TypeInv'
    <2>. DEFINE c == IF ok THEN [canvas EXCEPT !.life[p.node] = "provisioning",
                                               !.vm[p.node] = p.name]
                     ELSE [canvas EXCEPT !.life[p.node] = "failed"]
    <2>1. p.node \in Cards /\ p.name \in Names
      BY <1>a DEF Clones
    <2>2. c \in Canvases /\ c.nodes = canvas.nodes
      BY <1>a, <2>1 DEF Canvases, Lives
    <2>3. Shows(c, selected, panel, calls)
      BY <1>4 DEF CloneEnds
    <2>. HIDE DEF c
    <2>4. ShownTypes'
      BY <1>a, <2>2, <2>3, ShowsTypes
    <2>5. plan' \subseteq Clones
      <3>1. [p EXCEPT !.status = IF ok THEN "done" ELSE "error"] \in Clones
        BY <1>a DEF Clones
      <3>. QED
        BY <1>a, <1>4, <3>1 DEF CloneEnds
    <2>6. stored' \subseteq Isos /\ leaked' \subseteq Isos
      <3>1. \E ids : Deletes(stored, ids)
        BY <1>4 DEF CloneEnds
      <3>. QED
        BY <3>1, DeletesSome DEF OtherTypes
    <2>. QED
      BY <1>4, <2>4, <2>5, <2>6, GestureTypes DEF CloneEnds, OtherTypes, UnchangedHistory
  <1>5. CASE PlanEnds
    <2>1. ShownTypes'
      BY <1>a, <1>5, ShowsTypes DEF PlanEnds
    <2>2. list' \in Seq(Cards)
      <3>. DEFINE S == Cards \ {p.node : p \in {q \in plan : q.status = "done"}}
      <3>1. list' = Kept(list, S)
        BY <1>5 DEF PlanEnds
      <3>. HIDE DEF S
      <3>2. list' \in Seq(Cards \cap S)
        BY <1>a, <3>1, KeptType
      <3>. QED
        BY <3>2
    <2>. QED
      BY <1>5, <2>1, <2>2, GestureTypes DEF PlanEnds, OtherTypes, UnchangedUploads, UnchangedHistory
  <1>6. ASSUME NEW n \in Cards, Promote(n) PROVE TypeInv'
    <2>1. [canvas EXCEPT !.life[n] = "deployed"] \in Canvases
          /\ [canvas EXCEPT !.life[n] = "deployed"].nodes = canvas.nodes
      BY <1>a DEF Canvases, Lives
    <2>2. ShownTypes'
      BY <1>a, <1>6, <2>1, ShowsTypes DEF Promote
    <2>. QED
      BY <1>6, <2>2, GestureTypes
      DEF Promote, OtherTypes, UnchangedPlan, UnchangedUploads, UnchangedHistory
  <1>. QED
    BY <1>1, <1>2, <1>3, <1>4, <1>5, <1>6

\* What a panel calls for the selected card.
LEMMA CallTypes ==
    ASSUME canvas \in Canvases, selected \in Cards
    PROVE  /\ Call("seed", None) \in Calls
           /\ \A f \in Scripts : Call("import", f) \in Calls /\ Call("generate", f) \in Calls
           /\ \A id \in Isos : Call("upload", id) \in Calls
  <1>1. Iso(canvas, selected) \in IsoRecords
    BY IsoTypes
  <1>2. Call("seed", None) \in Asked({"seed"}, {None})
    BY <1>1 DEF Call, Asked
  <1>3. \A f \in Scripts : /\ Call("import", f) \in Asked({"import", "generate"}, Scripts)
                           /\ Call("generate", f) \in Asked({"import", "generate"}, Scripts)
    BY <1>1 DEF Call, Asked
  <1>4. \A id \in Isos : Call("upload", id) \in Asked({"upload"}, Isos)
    BY <1>1 DEF Call, Asked
  <1>. HIDE DEF Asked, Call
  <1>. QED
    BY <1>2, <1>3, <1>4 DEF Calls

\* What a call was made for.
LEMMA CallFields ==
    ASSUME NEW call \in Calls
    PROVE  /\ call.kind \in {"command", "seed", "import", "generate", "upload"}
           /\ call.node \in Cards /\ call.mine \in BOOLEAN
           /\ call.kind # "command" => call.seen \in IsoRecords
           /\ call.kind \in {"import", "generate"} => call.file \in Scripts
           /\ call.kind = "upload" => call.file \in Isos
  BY DEF Calls, Asked

\* A gesture in the panel of a disc keeps the types.
LEMMA AuthorsTypes ==
    ASSUME TypeInv, NEW iso \in IsoRecords, NEW p \in Panels, NEW cs \in SUBSET Calls,
           Authors(iso, p, cs),
           stored' \subseteq Isos, swept' \subseteq Isos, leaked' \subseteq Isos,
           uploads' \in 0..MaxUploads, raced' \in BOOLEAN, stale' \in BOOLEAN
    PROVE  TypeInv'
  <1>1. canvas \in Canvases /\ selected \in canvas.nodes /\ canvas.nodes \subseteq Cards
        /\ calls \subseteq Calls
    BY DEF TypeInv, ShownTypes, Authors, HasIsoPanel, Canvases
  <1>2. /\ SetIsoAuthoring(selected, iso) \in Canvases
        /\ SetIsoAuthoring(selected, iso).nodes = canvas.nodes
    BY <1>1, SetIsoTypes
  <1>3. ShownTypes'
    BY <1>1, <1>2, ShowsTypes DEF Authors
  <1>4. gestures' \in Nat /\ shortcuts' \in Nat
    BY GestureTypes DEF Authors, TypeInv
  <1>. QED
    BY <1>3, <1>4 DEF Authors, TypeInv, OtherTypes, UnchangedPlan

\* Authoring a disc, and the answers to what its panel asked, keep the types.
LEMMA DiscStepTypes ==
    ASSUME TypeInv,
           \/ Toggle \/ \E mode \in Modes : SetMode(mode)
           \/ \E call \in calls, ok \in BOOLEAN : SeedAnswered(call, ok) \/ FileAnswered(call, ok)
           \/ \E f \in Scripts : Edited(f) \/ Import(f)
           \/ OpenGenerate \/ Generate \/ CloseGenerate
    PROVE  TypeInv'
  <1>a. canvas \in Canvases /\ selected \in canvas.nodes \cup {None} /\ panel \in Panels
        /\ calls \in SUBSET Calls /\ canvas.nodes \subseteq Cards /\ stale \in BOOLEAN
        /\ stored \subseteq Isos /\ swept \subseteq Isos /\ leaked \subseteq Isos
        /\ uploads \in 0..MaxUploads /\ raced \in BOOLEAN
    BY DEF TypeInv, ShownTypes, OtherTypes, Canvases
  <1>b. HasIsoPanel(canvas, selected) =>
            selected \in Cards /\ selected \in canvas.nodes /\ Iso(canvas, selected) \in IsoRecords
    BY <1>a, IsoTypes DEF HasIsoPanel
  <1>1. CASE Toggle
    <2>. DEFINE iso == Iso(canvas, selected)
    <2>1. iso \in IsoRecords /\ selected \in Cards
      BY <1>b, <1>1 DEF Toggle
    <2>2. [iso EXCEPT !.enabled = FALSE] \in IsoRecords
          /\ [iso EXCEPT !.enabled = TRUE, !.seeded = TRUE] \in IsoRecords
      BY <2>1 DEF IsoRecords
    <2>3. (IF iso.seeded THEN {} ELSE {Call("seed", None)}) \in SUBSET Calls
      BY <1>a, <2>1, CallTypes
    <2>4. UNCHANGED <<stale, stored, swept, leaked, uploads, raced>>
      BY <1>1 DEF Toggle, UnchangedUploads
    <2>5. CASE Authors([iso EXCEPT !.enabled = FALSE], panel, {})
      BY <1>a, <2>2, <2>4, <2>5, AuthorsTypes
    <2>6. CASE Authors([iso EXCEPT !.enabled = TRUE, !.seeded = TRUE], panel,
                       IF iso.seeded THEN {} ELSE {Call("seed", None)})
      BY <1>a, <2>2, <2>3, <2>4, <2>6, AuthorsTypes
    <2>. QED
      BY <1>1, <2>5, <2>6 DEF Toggle
  <1>2. ASSUME NEW mode \in Modes, SetMode(mode) PROVE TypeInv'
    <2>1. [Iso(canvas, selected) EXCEPT !.mode = mode] \in IsoRecords
      BY <1>b, <1>2 DEF SetMode, IsoRecords
    <2>. QED
      BY <1>a, <1>2, <2>1, AuthorsTypes DEF SetMode, UnchangedUploads
  <1>3. ASSUME NEW call \in calls, NEW ok \in BOOLEAN, SeedAnswered(call, ok) PROVE TypeInv'
    <2>. DEFINE old == Iso(canvas, call.node)
                iso == IF ok THEN Seeded(old) ELSE old
                c == IF iso = old THEN canvas ELSE SetIsoAuthoring(call.node, iso)
    <2>1. call.node \in Cards /\ old \in IsoRecords
      BY <1>a, CallFields, IsoTypes
    <2>2. iso \in IsoRecords
      BY <2>1, InspectorAssumption DEF Seeded, IsoRecords
    <2>3. /\ Shows(c, selected, panel, calls \ {call})
          /\ stale' = (stale \/ (iso # old /\ Overtakes(call.node, calls)))
          /\ UNCHANGED <<list, strayed>> /\ NoGesture /\ UnchangedPlan /\ UnchangedUploads
      BY <1>3 DEF SeedAnswered
    <2>. HIDE DEF old, iso
    <2>4. c \in Canvases /\ c.nodes = canvas.nodes
      BY <1>a, <2>1, <2>2, SetIsoTypes
    <2>5. stale' \in BOOLEAN
      BY <1>a, <2>3 DEF Overtakes
    <2>. HIDE DEF c
    <2>6. ShownTypes'
      BY <1>a, <2>3, <2>4, ShowsTypes
    <2>. QED
      BY <2>3, <2>5, <2>6, GestureTypes DEF TypeInv, OtherTypes, UnchangedPlan, UnchangedUploads
  <1>4. ASSUME NEW call \in calls, NEW ok \in BOOLEAN, FileAnswered(call, ok) PROVE TypeInv'
    <2>. DEFINE files == IF ok THEN Added(call) ELSE {}
                old == Iso(canvas, call.node)
                c == IF files = {} THEN canvas
                     ELSE SetIsoAuthoring(call.node, [old EXCEPT !.files = files])
                p == [panel EXCEPT !.generating = @ /\ ~(ok /\ call.mine /\ call.kind = "generate")]
    <2>1. /\ call.node \in Cards /\ old \in IsoRecords /\ call.seen \in IsoRecords
          /\ call.file \in Scripts
      BY <1>a, <1>4, CallFields, IsoTypes DEF FileAnswered
    <2>2. files \in SUBSET Scripts
      BY <2>1 DEF Added, IsoRecords
    <2>3. /\ Shows(c, selected, p, calls \ {call})
          /\ stale' = (stale \/ Overtakes(call.node, calls \ {call}))
          /\ UNCHANGED <<list, strayed>> /\ NoGesture /\ UnchangedPlan /\ UnchangedUploads
      BY <1>4 DEF FileAnswered
    <2>4. p \in Panels
      BY <1>a DEF Panels
    <2>. HIDE DEF old, files, p
    <2>5. c \in Canvases /\ c.nodes = canvas.nodes
      <3>1. [old EXCEPT !.files = files] \in IsoRecords
        BY <2>1, <2>2 DEF IsoRecords
      <3>. QED
        BY <1>a, <2>1, <3>1, SetIsoTypes
    <2>6. stale' \in BOOLEAN
      BY <1>a, <2>3 DEF Overtakes
    <2>. HIDE DEF c
    <2>7. ShownTypes'
      BY <1>a, <2>3, <2>4, <2>5, ShowsTypes
    <2>. QED
      BY <2>3, <2>6, <2>7, GestureTypes DEF TypeInv, OtherTypes, UnchangedPlan, UnchangedUploads
  <1>5. ASSUME NEW old \in SUBSET Scripts, NEW new \in SUBSET Scripts, Edit(old, new)
        PROVE  TypeInv'
    <2>. DEFINE files == (Iso(canvas, selected).files \ old) \cup new
    <2>1. [Iso(canvas, selected) EXCEPT !.files = files] \in IsoRecords
      BY <1>b, <1>5 DEF Edit, Authored, IsoRecords
    <2>2. stale' \in BOOLEAN
      BY <1>a, <1>5 DEF Edit, Overtakes
    <2>3. Authors([Iso(canvas, selected) EXCEPT !.files = files], panel, {})
          /\ UNCHANGED <<stored, swept, leaked, uploads, raced>>
      BY <1>5 DEF Edit, UnchangedUploads
    <2>. HIDE DEF files
    <2>. QED
      BY <1>a, <2>1, <2>2, <2>3, AuthorsTypes
  <1>6. ASSUME NEW f \in Scripts, Edited(f) PROVE TypeInv'
    <2>1. PICK old \in {{}} \cup {{g} : g \in Scripts} : Edit(old, {f}) \/ Edit(old, {})
      BY <1>6 DEF Edited
    <2>. QED
      BY <1>5, <2>1
  <1>7. ASSUME NEW f \in Scripts, Import(f) PROVE TypeInv'
    <2>1. {Call("import", f)} \in SUBSET Calls /\ Iso(canvas, selected) \in IsoRecords
      BY <1>a, <1>b, <1>7, CallTypes DEF Import, Authored
    <2>. QED
      BY <1>a, <1>7, <2>1, AuthorsTypes DEF Import, UnchangedUploads
  <1>8. CASE OpenGenerate
    <2>1. [panel EXCEPT !.generating = TRUE] \in Panels /\ Iso(canvas, selected) \in IsoRecords
      BY <1>a, <1>b, <1>8 DEF OpenGenerate, Authored, Panels
    <2>. QED
      BY <1>a, <1>8, <2>1, AuthorsTypes DEF OpenGenerate, UnchangedUploads
  <1>9. CASE Generate
    <2>1. selected \in Cards
      BY <1>b, <1>9 DEF Generate, TypeInv, ShownTypes, Mounted
    <2>2. calls \cup {Call("generate", Generated)} \in SUBSET Calls
      BY <1>a, <2>1, CallTypes, InspectorAssumption
    <2>3. ShownTypes'
      BY <1>a, <1>9, <2>2, ShowsTypes DEF Generate
    <2>. QED
      BY <1>9, <2>3
      DEF Generate, TypeInv, OtherTypes, UnchangedPlan, UnchangedUploads, UnchangedHistory
  <1>10. CASE CloseGenerate
    <2>1. [panel EXCEPT !.generating = FALSE] \in Panels
      BY <1>a DEF Panels
    <2>2. ShownTypes'
      BY <1>a, <1>10, <2>1, ShowsTypes DEF CloseGenerate
    <2>. QED
      BY <1>10, <2>2, GestureTypes
      DEF CloseGenerate, TypeInv, OtherTypes, UnchangedPlan, UnchangedUploads, UnchangedHistory
  <1>. QED
    BY <1>1, <1>2, <1>3, <1>4, <1>6, <1>7, <1>8, <1>9, <1>10

\* Uploading keeps the types.
LEMMA UploadTypes ==
    ASSUME TypeInv,
           Upload \/ RemoveUpload \/ \E call \in calls : Uploaded(call) \/ UploadFails(call)
    PROVE  TypeInv'
  <1>a. canvas \in Canvases /\ selected \in canvas.nodes \cup {None} /\ panel \in Panels
        /\ calls \in SUBSET Calls /\ canvas.nodes \subseteq Cards /\ stale \in BOOLEAN
        /\ stored \subseteq Isos /\ swept \subseteq Isos /\ leaked \subseteq Isos
        /\ uploads \in 0..MaxUploads /\ raced \in BOOLEAN /\ deploying \in BOOLEAN
    BY DEF TypeInv, ShownTypes, OtherTypes, Canvases
  <1>b. HasIsoPanel(canvas, selected) =>
            selected \in Cards /\ selected \in canvas.nodes /\ Iso(canvas, selected) \in IsoRecords
    BY <1>a, IsoTypes DEF HasIsoPanel
  <1>c. /\ [panel EXCEPT !.uploading = TRUE] \in Panels
        /\ [panel EXCEPT !.uploading = FALSE] \in Panels
    BY <1>a DEF Panels
  <1>1. CASE Upload
    <2>1. selected \in Cards /\ Iso(canvas, selected) \in IsoRecords
      BY <1>b, <1>1 DEF Upload, Authored
    <2>2. uploads' = uploads + 1 /\ uploads' \in Isos /\ uploads' \in 0..MaxUploads
      BY <1>a, <1>1, InspectorAssumption DEF Upload, Isos
    <2>3. {Call("upload", uploads')} \in SUBSET Calls
      BY <1>a, <2>1, <2>2, CallTypes
    <2>4. raced' \in BOOLEAN
      BY <1>a, <1>1 DEF Upload
    <2>5. Authors(Iso(canvas, selected), [panel EXCEPT !.uploading = TRUE],
                  {Call("upload", uploads')})
          /\ UNCHANGED <<stored, swept, leaked, stale>>
      BY <1>1 DEF Upload
    <2>. QED
      BY <1>a, <1>c, <2>1, <2>2, <2>3, <2>4, <2>5, AuthorsTypes
  <1>2. CASE RemoveUpload
    <2>1. [Iso(canvas, selected) EXCEPT !.isoId = None] \in IsoRecords
      BY <1>b, <1>2 DEF RemoveUpload, Authored, IsoRecords
    <2>2. stored' \subseteq Isos /\ leaked' \subseteq Isos
      BY <1>a, <1>2, DeletesSome DEF RemoveUpload
    <2>. QED
      BY <1>a, <1>2, <2>1, <2>2, AuthorsTypes DEF RemoveUpload
  <1>3. ASSUME NEW call \in calls, Uploaded(call) PROVE TypeInv'
    <2>. DEFINE iso == [Iso(canvas, call.node) EXCEPT !.isoId = call.file]
                p == IF call.mine THEN [panel EXCEPT !.uploading = FALSE] ELSE panel
    <2>1. call.node \in Cards /\ call.file \in Isos /\ Iso(canvas, call.node) \in IsoRecords
      BY <1>a, <1>3, CallFields, IsoTypes DEF Uploaded
    <2>2. iso \in IsoRecords /\ p \in Panels
      BY <1>a, <1>c, <2>1 DEF IsoRecords
    <2>3. /\ Shows(SetIsoAuthoring(call.node, iso), selected, p, calls \ {call})
          /\ Replaced(call)
          /\ raced' = (raced \/ deploying \/ call.node \notin canvas.nodes)
          /\ UNCHANGED <<list, swept, uploads>> /\ NoGesture /\ UnchangedPlan /\ UnchangedHistory
      BY <1>3 DEF Uploaded
    <2>. HIDE DEF iso, p
    <2>4. ShownTypes'
      BY <1>a, <2>1, <2>2, <2>3, SetIsoTypes, ShowsTypes
    <2>5. stored' \subseteq Isos /\ leaked' \subseteq Isos
      <3>1. stored \cup {call.file} \subseteq Isos
        BY <1>a, <2>1
      <3>. QED
        BY <1>a, <2>3, <3>1, DeletesSome DEF Replaced
    <2>. QED
      BY <1>a, <2>3, <2>4, <2>5, GestureTypes
         DEF TypeInv, OtherTypes, UnchangedPlan, UnchangedHistory
  <1>4. ASSUME NEW call \in calls, UploadFails(call) PROVE TypeInv'
    <2>1. ShownTypes'
      BY <1>a, <1>c, <1>4, ShowsTypes DEF UploadFails
    <2>2. call.file \in Isos
      BY <1>a, <1>4, CallFields DEF UploadFails
    <2>3. stored' \subseteq Isos /\ leaked' \subseteq Isos
      BY <1>a, <1>4, <2>2 DEF UploadFails
    <2>. QED
      BY <1>4, <2>1, <2>3, GestureTypes
      DEF UploadFails, TypeInv, OtherTypes, UnchangedPlan, UnchangedHistory
  <1>. QED
    BY <1>1, <1>2, <1>3, <1>4

\* A step that does nothing keeps the types.
LEMMA StutterTypes == TypeInv /\ UNCHANGED vars => TypeInv'
  BY DEF TypeInv, ShownTypes, OtherTypes, Mounted, HasIsoPanel, vars

\* The types of the variables, and a dialog only over a panel that is shown.
LEMMA TypeInvariant == Spec => []TypeInv
<1>1. TypeInv /\ [Next]_vars => TypeInv'
  BY CardTypes, DeleteTypes, CommandTypes, PlanTypes, DiscStepTypes, UploadTypes, StutterTypes
     DEF Next
<1>. QED
  BY <1>1, InitTypes, PTL DEF Spec

\* Type correctness of Inspector: every gesture, shortcut, answer and step of a plan keeps the
\* types of the cards, the panel and the uploads (Inspector.tsx, IsoAuthoringPanel.tsx).
THEOREM TypeCorrect == Spec => []TypeOK
<1>1. TypeInv => TypeOK
  BY DEF TypeInv, ShownTypes, OtherTypes, TypeOK
<1>. QED
  BY <1>1, TypeInvariant, PTL

-----------------------------------------------------------------------------
\* The clones in flight and their cards.

\* Cards are only taken away, a machine keeps its name, and while a plan is in flight the cards
\* keep their names and their discs.
CanvasKept ==
    /\ canvas'.nodes \subseteq canvas.nodes
    /\ \A n \in canvas'.nodes : /\ canvas'.vm[n] = canvas.vm[n]
                                /\ canvas.vm[n] = None \/ canvas'.name[n] = canvas.name[n]
    /\ deploying => /\ canvas'.nodes = canvas.nodes
                    /\ \A n \in canvas.nodes : /\ canvas'.name[n] = canvas.name[n]
                                               /\ Iso(canvas', n) = Iso(canvas, n)

\* The clones are as their cards show while the canvas is kept so.
LEMMA PlanKept ==
    ASSUME PlanInv, CanvasKept, list' \in Seq(canvas'.nodes), UNCHANGED <<deploying, plan>>
    PROVE  PlanInv'
  <1>1. \A n \in canvas'.nodes : canvas'.vm[n] \in {None, canvas'.name[n]}
    BY DEF PlanInv, PlanMatchesPanel, CanvasKept
  <1>2. ASSUME NEW p \in plan
        PROVE  /\ p.node \in canvas'.nodes
               /\ p.name = canvas'.name[p.node] /\ p.disc = Disc(Iso(canvas', p.node))
               /\ Iso(canvas', p.node).enabled => p.disc.kind # "rendered"
    <2>1. p.node \in canvas.nodes /\ deploying
      BY DEF PlanInv, PlanMatchesPanel
    <2>2. Iso(canvas', p.node) = Iso(canvas, p.node)
      BY <2>1 DEF CanvasKept
    <2>. QED
      BY <2>1, <2>2 DEF PlanInv, PlanMatchesPanel, CanvasKept
  <1>. QED
    BY <1>1, <1>2 DEF PlanInv, PlanMatchesPanel

\* A list of some cards is a list of more.
LEMMA ListGrows ==
    ASSUME NEW X, NEW Y, X \subseteq Y, NEW s \in Seq(X)
    PROVE  s \in Seq(Y)
  OBVIOUS

\* The steps that leave the nodes, their names, machines and discs alone.
SameCards ==
    /\ canvas'.nodes = canvas.nodes /\ canvas'.name = canvas.name
    /\ canvas'.vm = canvas.vm /\ canvas'.iso = canvas.iso
LEMMA SameIsKept == SameCards => CanvasKept
  BY DEF SameCards, CanvasKept, Iso

\* Which cards a step of the panel, of a command or of an upload that fails leaves alone.
LEMMA QuietSteps ==
    ASSUME TypeInv,
           \/ \E n \in Cards \cup {None} : Select(n)
           \/ StartRename \/ \E v \in Values : Type(v)
           \/ Configure \/ CancelDelete \/ CancelKey \/ Undo
           \/ Run \/ \E call \in calls : CommandEnds(call)
           \/ Deploy \/ PlanRefused \/ \E old \in SUBSET stored : PlanStarts(old)
           \/ PlanEnds \/ \E n \in Cards : Promote(n)
           \/ Generate \/ CloseGenerate \/ \E call \in calls : UploadFails(call)
    PROVE  SameCards
  <1>a. canvas \in Canvases
    BY DEF TypeInv, ShownTypes
  <1>1. \A n \in Cards \cup {None} : Select(n) => SameCards
    BY DEF Select, Shows, SameCards
  <1>2. StartRename => SameCards
    BY DEF StartRename, Shows, SameCards
  <1>3. \A v \in Values : Type(v) => SameCards
    BY <1>a DEF Type, SetNodeConfig, Shows, SameCards, Canvases
  <1>4. Configure => SameCards
    BY <1>a DEF Configure, Shows, SameCards, Canvases
  <1>5. CancelDelete \/ CancelKey => SameCards
    BY DEF CancelDelete, CancelKey, Asks, Shows, SameCards
  <1>6. Undo => SameCards
    BY <1>a DEF Undo, Shows, SameCards, Canvases
  <1>7. Run => SameCards
    BY DEF Run, Shows, SameCards
  <1>8. \A call \in calls : CommandEnds(call) \/ UploadFails(call) => SameCards
    BY DEF CommandEnds, UploadFails, Shows, SameCards
  <1>9. Deploy \/ PlanRefused \/ PlanEnds => SameCards
    BY DEF Deploy, PlanRefused, PlanEnds, Shows, SameCards
  <1>10. \A old \in SUBSET stored : PlanStarts(old) => SameCards
    BY <1>a DEF PlanStarts, Shows, SameCards, Canvases
  <1>11. \A n \in Cards : Promote(n) => SameCards
    BY <1>a DEF Promote, Shows, SameCards, Canvases
  <1>12. Generate \/ CloseGenerate => SameCards
    BY DEF Generate, CloseGenerate, Shows, SameCards
  <1>. QED
    BY <1>1, <1>2, <1>3, <1>4, <1>5, <1>6, <1>7, <1>8, <1>9, <1>10, <1>11, <1>12

\* What is written to a disc leaves the rest of the cards, and all of them in a plan's flight.
LEMMA WriteKeeps ==
    ASSUME canvas \in Canvases, NEW n \in Cards, NEW iso \in IsoRecords,
           canvas' \in {canvas, SetIsoAuthoring(n, iso)}
    PROVE  /\ CanvasKept /\ canvas'.nodes = canvas.nodes /\ canvas'.vm = canvas.vm
           /\ \A m \in Cards : m # n => Iso(canvas', m) = Iso(canvas, m)
           /\ Iso(canvas', n) \in {Iso(canvas, n), iso}
           /\ ~deploying /\ n \in canvas.nodes /\ canvas' = SetIsoAuthoring(n, iso)
                => Iso(canvas', n) = iso
  <1>1. CASE deploying \/ n \notin canvas.nodes \/ canvas' = canvas
    <2>1. canvas' = canvas
      BY <1>1 DEF SetIsoAuthoring
    <2>2. ~deploying /\ n \in canvas.nodes /\ canvas' = SetIsoAuthoring(n, iso)
                => Iso(canvas', n) = iso
      BY DEF SetIsoAuthoring, Canvases, Iso
    <2>. QED
      BY <2>1, <2>2 DEF CanvasKept
  <1>2. CASE ~deploying /\ n \in canvas.nodes /\ canvas' # canvas
    <2>1. PICK l \in Lives : canvas' = [canvas EXCEPT !.iso[n] = iso, !.life[n] = l]
      BY <1>2 DEF SetIsoAuthoring, Canvases, Lives
    <2>2. canvas.nodes \subseteq Cards
      BY DEF Canvases
    <2>. QED
      BY <1>2, <2>1, <2>2 DEF CanvasKept, Canvases, Iso
  <1>. QED
    BY <1>1, <1>2

\* What an answer or a gesture writes to a disc.
Writes(n, iso) == canvas' \in {canvas, SetIsoAuthoring(n, iso)}

\* The steps that write to a disc but do not change its upload.
LEMMA DiscWrites ==
    ASSUME TypeInv,
           \/ Toggle \/ \E mode \in Modes : SetMode(mode)
           \/ \E call \in calls, ok \in BOOLEAN : SeedAnswered(call, ok) \/ FileAnswered(call, ok)
           \/ \E f \in Scripts : Edited(f) \/ Import(f)
           \/ OpenGenerate \/ Upload
    PROVE  \E n \in Cards, iso \in IsoRecords : Writes(n, iso) /\ iso.isoId = Iso(canvas, n).isoId
  <1>a. canvas \in Canvases /\ canvas.nodes \subseteq Cards /\ calls \subseteq Calls
    BY DEF TypeInv, ShownTypes, Canvases
  <1>b. HasIsoPanel(canvas, selected) => selected \in Cards /\ Iso(canvas, selected) \in IsoRecords
    BY <1>a, IsoTypes DEF HasIsoPanel
  <1>1. ASSUME NEW iso \in IsoRecords, NEW p, NEW cs, Authors(iso, p, cs),
               iso.isoId = Iso(canvas, selected).isoId
        PROVE  \E n \in Cards, i \in IsoRecords : Writes(n, i) /\ i.isoId = Iso(canvas, n).isoId
    BY <1>b, <1>1 DEF Authors, Shows, Writes
  <1>2. CASE Toggle
    <2>. DEFINE iso == Iso(canvas, selected)
                off == [iso EXCEPT !.enabled = FALSE]
                on == [iso EXCEPT !.enabled = TRUE, !.seeded = TRUE]
    <2>1. off \in IsoRecords /\ on \in IsoRecords /\ off.isoId = iso.isoId /\ on.isoId = iso.isoId
      BY <1>b, <1>2 DEF Toggle, IsoRecords
    <2>2. \E p, cs : Authors(off, p, cs) \/ Authors(on, p, cs)
      BY <1>2 DEF Toggle
    <2>. HIDE DEF off, on
    <2>. QED
      BY <1>1, <2>1, <2>2
  <1>3. ASSUME NEW mode \in Modes, SetMode(mode)
        PROVE  \E n \in Cards, i \in IsoRecords : Writes(n, i) /\ i.isoId = Iso(canvas, n).isoId
    <2>. DEFINE iso == [Iso(canvas, selected) EXCEPT !.mode = mode]
    <2>1. iso \in IsoRecords /\ iso.isoId = Iso(canvas, selected).isoId
      BY <1>b, <1>3 DEF SetMode, IsoRecords
    <2>2. Authors(iso, panel, {})
      BY <1>3 DEF SetMode
    <2>. HIDE DEF iso
    <2>. QED
      BY <1>1, <2>1, <2>2
  <1>4. ASSUME NEW call \in calls, NEW ok \in BOOLEAN, SeedAnswered(call, ok)
        PROVE  \E n \in Cards, i \in IsoRecords : Writes(n, i) /\ i.isoId = Iso(canvas, n).isoId
    <2>. DEFINE old == Iso(canvas, call.node)
                iso == IF ok THEN Seeded(old) ELSE old
    <2>1. call.node \in Cards /\ old \in IsoRecords
      BY <1>a, CallFields, IsoTypes
    <2>2. iso \in IsoRecords /\ iso.isoId = old.isoId
      BY <2>1, InspectorAssumption DEF Seeded, IsoRecords
    <2>3. canvas' = IF iso = old THEN canvas ELSE SetIsoAuthoring(call.node, iso)
      BY <1>4 DEF SeedAnswered, Shows
    <2>. HIDE DEF iso
    <2>. QED
      BY <2>1, <2>2, <2>3 DEF Writes
  <1>5. ASSUME NEW call \in calls, NEW ok \in BOOLEAN, FileAnswered(call, ok)
        PROVE  \E n \in Cards, i \in IsoRecords : Writes(n, i) /\ i.isoId = Iso(canvas, n).isoId
    <2>. DEFINE files == IF ok THEN Added(call) ELSE {}
                old == Iso(canvas, call.node)
                iso == [old EXCEPT !.files = files]
    <2>1. /\ call.node \in Cards /\ old \in IsoRecords /\ call.seen \in IsoRecords
          /\ call.file \in Scripts
      BY <1>a, <1>5, CallFields, IsoTypes DEF FileAnswered
    <2>2. files \in SUBSET Scripts
      BY <2>1 DEF Added, IsoRecords
    <2>3. canvas' = IF files = {} THEN canvas ELSE SetIsoAuthoring(call.node, iso)
      BY <1>5 DEF FileAnswered, Shows
    <2>. HIDE DEF files
    <2>4. iso \in IsoRecords /\ iso.isoId = old.isoId
      BY <2>1, <2>2 DEF IsoRecords
    <2>. HIDE DEF iso
    <2>. QED
      BY <2>1, <2>3, <2>4 DEF Writes
  <1>6. ASSUME NEW old \in SUBSET Scripts, NEW new \in SUBSET Scripts, Edit(old, new)
        PROVE  \E n \in Cards, i \in IsoRecords : Writes(n, i) /\ i.isoId = Iso(canvas, n).isoId
    <2>. DEFINE iso == [Iso(canvas, selected) EXCEPT
                            !.files = (Iso(canvas, selected).files \ old) \cup new]
    <2>1. iso \in IsoRecords /\ iso.isoId = Iso(canvas, selected).isoId
      BY <1>b, <1>6 DEF Edit, Authored, IsoRecords
    <2>2. Authors(iso, panel, {})
      BY <1>6 DEF Edit
    <2>. HIDE DEF iso
    <2>. QED
      BY <1>1, <2>1, <2>2
  <1>7. ASSUME NEW f \in Scripts, Edited(f)
        PROVE  \E n \in Cards, i \in IsoRecords : Writes(n, i) /\ i.isoId = Iso(canvas, n).isoId
    <2>1. PICK old \in {{}} \cup {{g} : g \in Scripts} : Edit(old, {f}) \/ Edit(old, {})
      BY <1>7 DEF Edited
    <2>. QED
      BY <1>6, <2>1
  <1>8. ASSUME \/ \E f \in Scripts : Import(f)
               \/ OpenGenerate \/ Upload
        PROVE  \E n \in Cards, i \in IsoRecords : Writes(n, i) /\ i.isoId = Iso(canvas, n).isoId
    <2>1. HasIsoPanel(canvas, selected)
          /\ \E p, cs : Authors(Iso(canvas, selected), p, cs)
      BY <1>8 DEF Import, OpenGenerate, Upload, Authored
    <2>. QED
      BY <1>1, <1>b, <2>1
  <1>. QED
    BY <1>2, <1>3, <1>4, <1>5, <1>7, <1>8

\* The steps that write the upload of a disc.
LEMMA UploadWrites ==
    ASSUME TypeInv, RemoveUpload \/ \E call \in calls : Uploaded(call)
    PROVE  \E n \in Cards, iso \in IsoRecords : Writes(n, iso)
  <1>a. canvas \in Canvases /\ canvas.nodes \subseteq Cards /\ calls \subseteq Calls
    BY DEF TypeInv, ShownTypes, Canvases
  <1>1. CASE RemoveUpload
    <2>. DEFINE iso == [Iso(canvas, selected) EXCEPT !.isoId = None]
    <2>1. selected \in Cards /\ Iso(canvas, selected) \in IsoRecords
      BY <1>a, <1>1, IsoTypes DEF RemoveUpload, Authored, HasIsoPanel
    <2>2. iso \in IsoRecords
      BY <2>1 DEF IsoRecords
    <2>3. canvas' = SetIsoAuthoring(selected, iso)
      BY <1>1 DEF RemoveUpload, Authors, Shows
    <2>. HIDE DEF iso
    <2>. QED
      BY <2>1, <2>2, <2>3 DEF Writes
  <1>2. ASSUME NEW call \in calls, Uploaded(call)
        PROVE  \E n \in Cards, iso \in IsoRecords : Writes(n, iso)
    <2>. DEFINE iso == [Iso(canvas, call.node) EXCEPT !.isoId = call.file]
    <2>1. call.node \in Cards /\ call.file \in Isos /\ Iso(canvas, call.node) \in IsoRecords
      BY <1>a, <1>2, CallFields, IsoTypes DEF Uploaded
    <2>2. iso \in IsoRecords
      BY <2>1 DEF IsoRecords
    <2>3. canvas' = SetIsoAuthoring(call.node, iso)
      BY <1>2 DEF Uploaded, Shows
    <2>. HIDE DEF iso
    <2>. QED
      BY <2>1, <2>2, <2>3 DEF Writes
  <1>. QED
    BY <1>1, <1>2

\* A card that is removed is taken off the list, while no plan is in flight.
LEMMA RemovalSteps ==
    ASSUME TypeInv, PlanInv, NEW n \in canvas.nodes, NEW p, Removes(n, p), ~deploying
    PROVE  /\ canvas'.nodes = canvas.nodes \ {n} /\ canvas'.name = canvas.name
           /\ canvas'.vm = canvas.vm /\ canvas'.iso = canvas.iso
           /\ PlanInv'
  <1>1. canvas'.nodes = canvas.nodes \ {n} /\ canvas'.name = canvas.name
        /\ canvas'.vm = canvas.vm /\ canvas'.iso = canvas.iso
    BY DEF TypeInv, ShownTypes, Canvases, Removes, Shows
  <1>2. CanvasKept
    BY <1>1 DEF CanvasKept
  <1>3. list' \in Seq(canvas.nodes \cap (Cards \ {n}))
    BY KeptType DEF Removes, PlanInv
  <1>4. list' \in Seq(canvas'.nodes)
    <2>1. canvas.nodes \cap (Cards \ {n}) \subseteq canvas'.nodes
      BY <1>1
    <2>. QED
      BY <1>3, <2>1, ListGrows
  <1>5. UNCHANGED <<deploying, plan>>
    BY DEF Removes, UnchangedPlan
  <1>. QED
    BY <1>1, <1>2, <1>4, <1>5, PlanKept

\* The steps that remove a card, and which one: one that is not listed, the selected one in
\* answer to the dialog of the panel, or the one that the dialog of the key asked of.
Removal(n) ==
    /\ n \in canvas.nodes /\ ~deploying /\ \E p \in Panels : Removes(n, p)
    /\ \/ n \notin Range(list)
       \/ ConfirmDelete /\ n = selected /\ panel.asked # None
       \/ ConfirmKey /\ n = panel.key
LEMMA DeleteSteps ==
    ASSUME TypeInv, DeleteButton \/ ConfirmDelete \/ DeleteKey \/ ConfirmKey
    PROVE  (\E n \in Cards : Removal(n)) \/ (\E p \in Panels : Asks(p))
  <1>a. canvas.nodes \subseteq Cards /\ panel \in Panels /\ selected \in canvas.nodes \cup {None}
    BY DEF TypeInv, ShownTypes, Canvases
  <1>b. /\ Answered(panel) \in Panels /\ [panel EXCEPT !.key = None] \in Panels
        /\ \A n \in Cards : [panel EXCEPT !.asked = n] \in Panels
                            /\ [panel EXCEPT !.key = n] \in Panels
    BY <1>a DEF Panels, Answered
  <1>1. CASE DeleteButton
    <2>1. selected \in canvas.nodes /\ ~deploying
      BY <1>1 DEF DeleteButton, CanDelete
    <2>2. \/ Asks([panel EXCEPT !.asked = selected])
          \/ selected \notin Range(list) /\ Removes(selected, panel)
      BY <1>1 DEF DeleteButton
    <2>. QED
      BY <1>a, <1>b, <2>1, <2>2 DEF Removal
  <1>2. CASE ConfirmDelete
    <2>1. selected \in canvas.nodes /\ panel.asked # None
      BY <1>2 DEF ConfirmDelete, AskShown
    <2>2. Asks(Answered(panel)) \/ (~deploying /\ Removes(selected, Answered(panel)))
      BY <1>2 DEF ConfirmDelete
    <2>. QED
      BY <1>a, <1>b, <1>2, <2>1, <2>2 DEF Removal
  <1>3. CASE DeleteKey
    <2>1. selected \in canvas.nodes /\ ~deploying
      BY <1>3 DEF DeleteKey
    <2>2. \/ Asks([panel EXCEPT !.key = selected])
          \/ selected \notin Range(list) /\ Removes(selected, panel)
      BY <1>3 DEF DeleteKey
    <2>. QED
      BY <1>a, <1>b, <2>1, <2>2 DEF Removal
  <1>4. CASE ConfirmKey
    <2>1. \/ Asks([panel EXCEPT !.key = None])
          \/ /\ panel.key \in canvas.nodes /\ ~deploying
             /\ Removes(panel.key, [panel EXCEPT !.key = None])
      BY <1>4 DEF ConfirmKey
    <2>. QED
      BY <1>a, <1>b, <1>4, <2>1 DEF Removal
  <1>. QED
    BY <1>1, <1>2, <1>3, <1>4

\* A step that leaves the cards, the list and the plan alone.
LEMMA PlanSame ==
    ASSUME PlanInv, CanvasKept, canvas'.nodes = canvas.nodes, UNCHANGED <<list, deploying, plan>>
    PROVE  PlanInv'
  BY PlanKept DEF PlanInv

\* The steps of the plan keep what its clones are made of.
LEMMA PlanStepsKeep ==
    ASSUME TypeInv, PlanInv,
           \/ Deploy \/ PlanRefused \/ \E old \in SUBSET stored : PlanStarts(old)
           \/ \E p \in plan, ok \in BOOLEAN : CloneEnds(p, ok)
           \/ PlanEnds
    PROVE  PlanInv'
  <1>a. canvas \in Canvases /\ canvas.nodes \subseteq Cards /\ plan \subseteq Clones
        /\ list \in Seq(canvas.nodes)
    BY DEF TypeInv, ShownTypes, OtherTypes, Canvases, PlanInv
  <1>1. CASE Deploy
    <2>1. canvas' = canvas /\ list' = list /\ deploying' = TRUE
      BY <1>1 DEF Deploy, Shows
    <2>2. ASSUME NEW p \in plan'
          PROVE  /\ p.node \in canvas.nodes
                 /\ p.name = canvas.name[p.node] /\ p.disc = Disc(Iso(canvas, p.node))
                 /\ Iso(canvas, p.node).enabled => p.disc.kind # "rendered"
      <3>1. PICK n \in Range(list) :
                p = [node |-> n, name |-> canvas.name[n], disc |-> Disc(Iso(canvas, n)),
                     status |-> "sent"]
        BY <1>1 DEF Deploy
      <3>2. n \in canvas.nodes /\ n \in Cards
        BY <1>a DEF Range
      <3>3. n \notin EmptyIsoNodes(canvas, Range(list)) /\ Iso(canvas, n) \in IsoRecords
        BY <1>1, <1>a, <3>2, IsoTypes DEF Deploy
      <3>4. Iso(canvas, n).enabled => Disc(Iso(canvas, n)).kind # "rendered"
        BY <3>3 DEF EmptyIsoNodes, Disc, IsoRecords, Modes
      <3>5. /\ p.node = n /\ p.name = canvas.name[n] /\ p.disc = Disc(Iso(canvas, n))
        BY <3>1
      <3>. QED
        BY <3>2, <3>4, <3>5
    <2>. QED
      BY <2>1, <2>2 DEF PlanInv, PlanMatchesPanel
  <1>2. CASE PlanRefused
    <2>1. canvas' = canvas /\ list' = list /\ plan' = {}
      BY <1>2 DEF PlanRefused, Shows
    <2>. QED
      BY <2>1 DEF PlanInv, PlanMatchesPanel
  <1>3. ASSUME NEW old \in SUBSET stored, PlanStarts(old) PROVE PlanInv'
    <2>1. SameCards /\ UNCHANGED <<list, deploying>>
          /\ plan' = {[p EXCEPT !.status = "running"] : p \in plan}
      BY <1>3, QuietSteps DEF PlanStarts
    <2>2. deploying
      BY <1>3 DEF PlanStarts, Sent
    <2>3. ASSUME NEW q \in plan'
          PROVE  \E p \in plan : q.node = p.node /\ q.name = p.name /\ q.disc = p.disc
      BY <1>a, <2>1 DEF Clones
    <2>. QED
      BY <2>1, <2>2, <2>3 DEF PlanInv, PlanMatchesPanel, SameCards, Iso
  <1>4. ASSUME NEW p \in plan, NEW ok \in BOOLEAN, CloneEnds(p, ok) PROVE PlanInv'
    <2>1. p.node \in canvas.nodes /\ p.name = canvas.name[p.node] /\ deploying
      BY DEF PlanInv, PlanMatchesPanel
    <2>2. /\ canvas'.nodes = canvas.nodes /\ canvas'.name = canvas.name /\ canvas'.iso = canvas.iso
          /\ \A n \in Cards : canvas'.vm[n] = canvas.vm[n] \/ (n = p.node /\ canvas'.vm[n] = p.name)
      BY <1>4, <1>a, <2>1 DEF CloneEnds, Shows, Canvases
    <2>3. UNCHANGED <<list, deploying>>
          /\ plan' = (plan \ {p}) \cup {[p EXCEPT !.status = IF ok THEN "done" ELSE "error"]}
      BY <1>4 DEF CloneEnds
    <2>4. ASSUME NEW q \in plan'
          PROVE  \E r \in plan : q.node = r.node /\ q.name = r.name /\ q.disc = r.disc
      BY <1>a, <2>3 DEF Clones
    <2>5. \A n \in canvas.nodes : canvas'.vm[n] \in {None, canvas.name[n]}
      BY <1>a, <2>1, <2>2 DEF PlanInv, PlanMatchesPanel
    <2>. QED
      BY <2>1, <2>2, <2>3, <2>4, <2>5 DEF PlanInv, PlanMatchesPanel, Iso
  <1>5. CASE PlanEnds
    <2>. DEFINE S == Cards \ {p.node : p \in {q \in plan : q.status = "done"}}
    <2>1. canvas' = canvas /\ list' = Kept(list, S) /\ plan' = {}
      BY <1>5 DEF PlanEnds, Shows
    <2>. HIDE DEF S
    <2>2. list' \in Seq(canvas.nodes \cap S)
      BY <1>a, <2>1, KeptType
    <2>3. list' \in Seq(canvas.nodes)
      <3>1. canvas.nodes \cap S \subseteq canvas.nodes
        OBVIOUS
      <3>. QED
        BY <2>2, <3>1, ListGrows
    <2>. QED
      BY <2>1, <2>3 DEF PlanInv, PlanMatchesPanel
  <1>. QED
    BY <1>1, <1>2, <1>3, <1>4, <1>5

\* Every step keeps the clones as their cards show.
LEMMA PlanInvariant == Spec => []PlanInv
<1>1. Init => PlanInv
  <2>. SUFFICES ASSUME Init PROVE PlanInv
    OBVIOUS
  <2>1. canvas \in Canvases /\ \A n \in canvas.nodes : canvas.vm[n] \in {None, canvas.name[n]}
    BY InspectorAssumption DEF Init, IsStart
  <2>. DEFINE S == {n \in canvas.nodes : canvas.life[n] = "staged"}
  <2>2. S \subseteq Cards /\ S \subseteq canvas.nodes /\ list = SetToSeq(S)
    BY <2>1 DEF Init, Canvases
  <2>. HIDE DEF S
  <2>3. list \in Seq(S)
    BY <2>2, InspectorAssumption, FS_Subset, ListOf
  <2>4. list \in Seq(canvas.nodes)
    BY <2>2, <2>3, ListGrows
  <2>. QED
    BY <2>1, <2>4 DEF Init, PlanInv, PlanMatchesPanel
<1>2. TypeInv /\ PlanInv /\ [Next]_vars => PlanInv'
  <2>. SUFFICES ASSUME TypeInv, PlanInv, [Next]_vars PROVE PlanInv'
    OBVIOUS
  <2>a. canvas \in Canvases /\ canvas.nodes \subseteq Cards /\ calls \subseteq Calls
    BY DEF TypeInv, ShownTypes, Canvases
  <2>1. CASE \/ \E n \in Cards \cup {None} : Select(n)
             \/ StartRename \/ \E v \in Values : Type(v)
             \/ CancelDelete \/ CancelKey \/ Run \/ \E call \in calls : CommandEnds(call)
             \/ \E n \in Cards : Promote(n)
             \/ Generate \/ CloseGenerate \/ \E call \in calls : UploadFails(call)
    <3>1. SameCards /\ CanvasKept
      BY <2>1, QuietSteps, SameIsKept
    <3>2. UNCHANGED <<list, deploying, plan>>
      BY <2>1 DEF Select, StartRename, Type, CancelDelete, CancelKey, Asks, Run, CommandEnds,
                  Promote, Generate, CloseGenerate, UploadFails, UnchangedPlan
    <3>. QED
      BY <3>1, <3>2, PlanSame DEF SameCards
  <2>2. CASE Configure \/ Undo
    <3>1. SameCards /\ CanvasKept
      BY <2>2, QuietSteps, SameIsKept
    <3>2. UNCHANGED <<deploying, plan>>
      BY <2>2 DEF Configure, Undo, UnchangedPlan
    <3>3. CASE Configure
      <4>1. selected \in canvas.nodes /\ list' = Append(list, selected)
        BY <3>3 DEF Configure, HasForm
      <4>2. list' \in Seq(canvas'.nodes)
        BY <3>1, <4>1 DEF PlanInv, SameCards
      <4>. QED
        BY <3>1, <3>2, <4>2, PlanKept DEF SameCards
    <3>4. CASE Undo
      <4>1. list # <<>> /\ list' = Front(list) /\ list \in Seq(canvas.nodes)
        BY <3>4 DEF Undo, PlanInv
      <4>2. Front(list) \in Seq(canvas.nodes)
        <5>. DEFINE X == canvas.nodes
        <5>1. Len(list) \in Nat /\ Len(list) # 0 /\ list \in Seq(X)
          BY <4>1
        <5>. HIDE DEF X
        <5>2. SubSeq(list, 1, Len(list) - 1) \in Seq(X)
          BY <5>1
        <5>. QED
          BY <5>2 DEF Front, X
      <4>3. list' \in Seq(canvas'.nodes)
        BY <3>1, <4>1, <4>2 DEF SameCards
      <4>. QED
        BY <3>1, <3>2, <4>3, PlanKept
    <3>. QED
      BY <2>2, <3>3, <3>4
  <2>3. ASSUME NEW x \in Names, CommitRename(x) PROVE PlanInv'
    <3>1. selected \in canvas.nodes /\ canvas.vm[selected] = None /\ canvas' = Renamed(x)
          /\ UNCHANGED <<list, deploying, plan>>
      BY <2>3 DEF CommitRename, Shows, UnchangedPlan
    <3>2. CanvasKept /\ canvas'.nodes = canvas.nodes
      BY <2>a, <3>1 DEF Renamed, Canvases, CanvasKept, Iso
    <3>. QED
      BY <3>1, <3>2, PlanSame
  <2>4. CASE DeleteButton \/ ConfirmDelete \/ DeleteKey \/ ConfirmKey
    <3>1. ASSUME NEW n \in Cards, Removal(n) PROVE PlanInv'
      BY <3>1, RemovalSteps DEF Removal
    <3>2. ASSUME NEW p \in Panels, Asks(p) PROVE PlanInv'
      <4>1. canvas' = canvas /\ UNCHANGED <<list, deploying, plan>>
        BY <3>2 DEF Asks, Shows, UnchangedPlan
      <4>. QED
        BY <4>1, PlanSame DEF CanvasKept
    <3>. QED
      BY <2>4, <3>1, <3>2, DeleteSteps
  <2>5. CASE \/ Toggle \/ \E mode \in Modes : SetMode(mode)
             \/ \E call \in calls, ok \in BOOLEAN : SeedAnswered(call, ok) \/ FileAnswered(call, ok)
             \/ \E f \in Scripts : Edited(f) \/ Import(f)
             \/ OpenGenerate \/ Upload \/ RemoveUpload \/ \E call \in calls : Uploaded(call)
    <3>1. PICK n \in Cards, iso \in IsoRecords : Writes(n, iso)
      BY <2>5, DiscWrites, UploadWrites
    <3>2. CanvasKept /\ canvas'.nodes = canvas.nodes
      BY <2>a, <3>1, WriteKeeps DEF Writes
    <3>3. UNCHANGED <<list, deploying, plan>>
      BY <2>5 DEF Toggle, SetMode, SeedAnswered, FileAnswered, Edited, Edit, Import, OpenGenerate,
                  Upload, RemoveUpload, Uploaded, Authors, UnchangedPlan
    <3>. QED
      BY <3>2, <3>3, PlanSame
  <2>6. CASE \/ Deploy \/ PlanRefused \/ \E old \in SUBSET stored : PlanStarts(old)
             \/ \E p \in plan, ok \in BOOLEAN : CloneEnds(p, ok)
             \/ PlanEnds
    BY <2>6, PlanStepsKeep
  <2>7. CASE UNCHANGED vars
    BY <2>7, PlanSame DEF vars, CanvasKept
  <2>. QED
    BY <2>1, <2>2, <2>3, <2>4, <2>5, <2>6, <2>7 DEF Next
<1>. QED
  BY <1>1, <1>2, TypeInvariant, PTL DEF Spec

\* A clone in flight has the name and the disc that its card shows, no card that includes a
\* disc is cloned with the server's, and a machine keeps the name of its card (Inspector.tsx's
\* "locked after deploy", buildOpPayload, setIsoAuthoring), whatever is answered meanwhile.
THEOREM ClonesAreAsShown == Spec => []PlanMatchesPanel
<1>1. PlanInv => PlanMatchesPanel
  BY DEF PlanInv
<1>. QED
  BY <1>1, PlanInvariant, PTL

-----------------------------------------------------------------------------
\* The dialogs of a deletion.

\* The steps that remove no card.
LEMMA NodesSame ==
    ASSUME TypeInv,
           \/ \E n \in Cards \cup {None} : Select(n)
           \/ StartRename \/ \E x \in Names : CommitRename(x)
           \/ \E v \in Values : Type(v)
           \/ Configure \/ CancelDelete \/ CancelKey \/ Undo
           \/ Run \/ \E call \in calls : CommandEnds(call)
           \/ Deploy \/ PlanRefused \/ \E old \in SUBSET stored : PlanStarts(old)
           \/ \E p \in plan, ok \in BOOLEAN : CloneEnds(p, ok)
           \/ PlanEnds \/ \E n \in Cards : Promote(n)
           \/ Toggle \/ \E mode \in Modes : SetMode(mode)
           \/ \E call \in calls, ok \in BOOLEAN : SeedAnswered(call, ok) \/ FileAnswered(call, ok)
           \/ \E f \in Scripts : Edited(f) \/ Import(f)
           \/ OpenGenerate \/ Generate \/ CloseGenerate
           \/ Upload \/ \E call \in calls : Uploaded(call) \/ UploadFails(call)
           \/ RemoveUpload
    PROVE  canvas'.nodes = canvas.nodes
  <1>a. canvas \in Canvases /\ canvas.nodes \subseteq Cards /\ calls \subseteq Calls
        /\ plan \subseteq Clones
    BY DEF TypeInv, ShownTypes, OtherTypes, Canvases
  <1>1. CASE \/ \E n \in Cards \cup {None} : Select(n)
             \/ StartRename \/ \E v \in Values : Type(v)
             \/ Configure \/ CancelDelete \/ CancelKey \/ Undo
             \/ Run \/ \E call \in calls : CommandEnds(call)
             \/ Deploy \/ PlanRefused \/ \E old \in SUBSET stored : PlanStarts(old)
             \/ PlanEnds \/ \E n \in Cards : Promote(n)
             \/ Generate \/ CloseGenerate \/ \E call \in calls : UploadFails(call)
    BY <1>1, QuietSteps DEF SameCards
  <1>2. ASSUME NEW x \in Names, CommitRename(x) PROVE canvas'.nodes = canvas.nodes
    BY <1>a, <1>2 DEF CommitRename, Shows, Renamed, Canvases
  <1>3. ASSUME NEW p \in plan, NEW ok \in BOOLEAN, CloneEnds(p, ok)
        PROVE  canvas'.nodes = canvas.nodes
    BY <1>a, <1>3 DEF CloneEnds, Shows, Canvases
  <1>4. CASE \/ Toggle \/ \E mode \in Modes : SetMode(mode)
             \/ \E call \in calls, ok \in BOOLEAN : SeedAnswered(call, ok) \/ FileAnswered(call, ok)
             \/ \E f \in Scripts : Edited(f) \/ Import(f)
             \/ OpenGenerate \/ Upload \/ RemoveUpload \/ \E call \in calls : Uploaded(call)
    <2>1. PICK n \in Cards, iso \in IsoRecords : Writes(n, iso)
      BY <1>4, DiscWrites, UploadWrites
    <2>. QED
      BY <1>a, <2>1, WriteKeeps DEF Writes
  <1>. QED
    BY <1>1, <1>2, <1>3, <1>4

\* No card is gone but the one that is removed.
LEMMA NodesKept ==
    ASSUME TypeInv, PlanInv, [Next]_vars
    PROVE  \/ canvas'.nodes = canvas.nodes
           \/ \E n \in Cards : Removal(n) /\ canvas'.nodes = canvas.nodes \ {n}
  <1>1. CASE DeleteButton \/ ConfirmDelete \/ DeleteKey \/ ConfirmKey
    <2>1. ASSUME NEW n \in Cards, Removal(n) PROVE canvas'.nodes = canvas.nodes \ {n}
      BY <2>1, RemovalSteps DEF Removal
    <2>2. ASSUME NEW p \in Panels, Asks(p) PROVE canvas'.nodes = canvas.nodes
      BY <2>2 DEF Asks, Shows
    <2>. QED
      BY <1>1, <2>1, <2>2, DeleteSteps
  <1>2. CASE UNCHANGED vars
    BY <1>2 DEF vars
  <1>. QED
    BY <1>1, <1>2, NodesSame DEF Next

\* What a step shows, but for what is lost with a panel that is left.
LEMMA PanelShown ==
    ASSUME NEW p \in Panels, NEW c, NEW s, NEW cs, Shows(c, s, p, cs)
    PROVE  canvas' = c /\ selected' = s /\ panel'.asked = p.asked /\ panel'.key = p.key
  <1>1. \E up, ge, bu, fo : panel' = [p EXCEPT !.uploading = up, !.generating = ge, !.busy = bu,
                                               !.form = fo]
    BY DEF Shows
  <1>. QED
    BY <1>1 DEF Shows, Panels

\* What a step may make of the panel but for the questions.
Other(p) == p \in Panels /\ p.asked = panel.asked /\ p.key = panel.key
LEMMA OtherPanels ==
    ASSUME panel \in Panels
    PROVE  /\ Other(panel)
           /\ \A b \in BOOLEAN : /\ Other([panel EXCEPT !.rename = b])
                                 /\ Other([panel EXCEPT !.busy = b])
                                 /\ Other([panel EXCEPT !.uploading = b])
                                 /\ Other([panel EXCEPT !.generating = b])
           /\ \A v \in Values : Other([panel EXCEPT !.form = v])
  BY DEF Panels, Other

\* No gesture is made over a dialog.
LEMMA GestureSteps ==
    ASSUME TypeInv, NEW c, NEW s, NEW p, NEW cs,
           Gesture, Other(p), Shows(c, s, p, cs), strayed' = strayed, AskInv
    PROVE  AskInv'
  <1>1. panel'.asked = panel.asked
    BY PanelShown DEF Other
  <1>2. panel.key = None /\ (panel.asked # None => selected \notin canvas.nodes)
    BY DEF Gesture, Modal, AskShown
  <1>. QED
    BY <1>1, <1>2 DEF AskInv

\* Nor does a step that leaves the selection and the cards alone change whom a dialog asks of.
LEMMA QuestionKept ==
    ASSUME TypeInv, NEW c, c.nodes = canvas.nodes, NEW p, NEW cs,
           Other(p), Shows(c, selected, p, cs), strayed' = strayed, AskInv
    PROVE  AskInv'
  <1>1. /\ panel'.asked = panel.asked /\ panel'.key = panel.key /\ selected' = selected
        /\ canvas'.nodes = canvas.nodes
    BY PanelShown DEF Other
  <1>. QED
    BY <1>1 DEF AskInv

\* The gestures in the panel of a disc.
LEMMA AuthorsAsk ==
    ASSUME TypeInv, AskInv,
           \/ Toggle \/ \E mode \in Modes : SetMode(mode)
           \/ \E f \in Scripts : Edited(f) \/ Import(f)
           \/ OpenGenerate \/ Upload \/ RemoveUpload
    PROVE  AskInv'
  <1>a. Other(panel) /\ Other([panel EXCEPT !.generating = TRUE])
        /\ Other([panel EXCEPT !.uploading = TRUE])
    BY OtherPanels DEF TypeInv, ShownTypes
  <1>1. ASSUME NEW iso, NEW p, NEW cs, Authors(iso, p, cs), Other(p) PROVE AskInv'
    BY <1>1, GestureSteps DEF Authors
  <1>2. CASE Toggle
    BY <1>2, <1>a, <1>1 DEF Toggle
  <1>3. CASE (\E mode \in Modes : SetMode(mode)) \/ \E f \in Scripts : Edited(f) \/ Import(f)
    <2>1. \E iso, cs : Authors(iso, panel, cs)
      BY <1>3 DEF SetMode, Edited, Edit, Import
    <2>. QED
      BY <1>a, <1>1, <2>1
  <1>4. CASE OpenGenerate \/ Upload \/ RemoveUpload
    BY <1>4, <1>a, <1>1 DEF OpenGenerate, Upload, RemoveUpload
  <1>. QED
    BY <1>2, <1>3, <1>4

\* The other gestures.
LEMMA GesturesAsk ==
    ASSUME TypeInv, AskInv,
           \/ \E n \in Cards \cup {None} : Select(n)
           \/ StartRename \/ \E x \in Names : CommitRename(x)
           \/ \E v \in Values : Type(v)
           \/ Configure \/ Run \/ Deploy
    PROVE  AskInv'
  <1>a. /\ Other(panel) /\ Other([panel EXCEPT !.rename = TRUE])
        /\ Other([panel EXCEPT !.rename = FALSE]) /\ Other([panel EXCEPT !.busy = TRUE])
        /\ \A v \in Values : Other([panel EXCEPT !.form = v])
    BY OtherPanels DEF TypeInv, ShownTypes
  <1>1. ASSUME NEW c, NEW s, NEW p, NEW cs,
               Gesture, Other(p), Shows(c, s, p, cs), strayed' = strayed
        PROVE  AskInv'
    BY <1>1, GestureSteps
  <1>2. \A n \in Cards \cup {None} : Select(n) => AskInv'
    BY <1>a, <1>1 DEF Select, UnchangedHistory
  <1>3. StartRename => AskInv'
    BY <1>a, <1>1 DEF StartRename, UnchangedHistory
  <1>4. \A x \in Names : CommitRename(x) => AskInv'
    BY <1>a, <1>1 DEF CommitRename
  <1>5. \A v \in Values : Type(v) => AskInv'
    BY <1>a, <1>1 DEF Type, UnchangedHistory
  <1>6. Configure \/ Run \/ Deploy => AskInv'
    BY <1>a, <1>1 DEF Configure, Run, Deploy, UnchangedHistory
  <1>. QED
    BY <1>2, <1>3, <1>4, <1>5, <1>6

\* The ends of commands, plans, calls and boots, and the shortcut that undoes.
LEMMA AnswersAsk ==
    ASSUME TypeInv, AskInv,
           \/ \E call \in calls : CommandEnds(call)
           \/ \E call \in calls : Uploaded(call) \/ UploadFails(call)
           \/ PlanRefused \/ \E old \in SUBSET stored : PlanStarts(old)
           \/ \E p \in plan, ok \in BOOLEAN : CloneEnds(p, ok)
           \/ PlanEnds \/ \E n \in Cards : Promote(n)
           \/ \E call \in calls, ok \in BOOLEAN : SeedAnswered(call, ok) \/ FileAnswered(call, ok)
           \/ Generate \/ CloseGenerate
    PROVE  AskInv'
  <1>a. /\ Other(panel) /\ \A call : Other(Finished(call))
        /\ \A call : Other(IF call.mine THEN [panel EXCEPT !.uploading = FALSE] ELSE panel)
        /\ Other([panel EXCEPT !.generating = FALSE])
    BY OtherPanels DEF TypeInv, ShownTypes, Finished
  <1>1. ASSUME NEW c, NEW p, NEW cs, Other(p), Shows(c, selected, p, cs), strayed' = strayed
        PROVE  AskInv'
    <2>1. c.nodes = canvas.nodes
      BY <1>1, NodesSame DEF Shows
    <2>. QED
      BY <1>1, <2>1, QuestionKept
  <1>2. \A call \in calls : CommandEnds(call) => AskInv'
    BY <1>a, <1>1 DEF CommandEnds, UnchangedHistory
  <1>3. \A call \in calls : Uploaded(call) \/ UploadFails(call) => AskInv'
    BY <1>a, <1>1 DEF Uploaded, UploadFails, UnchangedHistory
  <1>4. PlanRefused \/ PlanEnds => AskInv'
    BY <1>a, <1>1 DEF PlanRefused, PlanEnds, UnchangedHistory
  <1>5. \A old \in SUBSET stored : PlanStarts(old) => AskInv'
    BY <1>a, <1>1 DEF PlanStarts, UnchangedHistory
  <1>6. \A p \in plan, ok \in BOOLEAN : CloneEnds(p, ok) => AskInv'
    BY <1>a, <1>1 DEF CloneEnds, UnchangedHistory
  <1>7. \A n \in Cards : Promote(n) => AskInv'
    BY <1>a, <1>1 DEF Promote, UnchangedHistory
  <1>8. \A call \in calls, ok \in BOOLEAN : SeedAnswered(call, ok) => AskInv'
    BY <1>a, <1>1 DEF SeedAnswered
  <1>9. ASSUME NEW call \in calls, NEW ok \in BOOLEAN, FileAnswered(call, ok) PROVE AskInv'
    <2>. DEFINE p == [panel EXCEPT !.generating = @ /\ ~(ok /\ call.mine /\ call.kind = "generate")]
    <2>1. Other(p)
      BY DEF Panels, Other, TypeInv, ShownTypes
    <2>2. \E c, cs : Shows(c, selected, p, cs)
      BY <1>9 DEF FileAnswered
    <2>. HIDE DEF p
    <2>. QED
      BY <1>1, <1>9, <2>1, <2>2 DEF FileAnswered
  <1>10. Generate \/ CloseGenerate => AskInv'
    BY <1>a, <1>1 DEF Generate, CloseGenerate, UnchangedHistory
  <1>. QED
    BY <1>2, <1>3, <1>4, <1>5, <1>6, <1>7, <1>8, <1>9, <1>10

\* The dialogs, and the shortcuts past them.
LEMMA DialogsAsk ==
    ASSUME TypeInv, AskInv,
           \/ DeleteButton \/ ConfirmDelete \/ CancelDelete
           \/ DeleteKey \/ ConfirmKey \/ CancelKey \/ Undo
    PROVE  AskInv'
  <1>a. panel \in Panels /\ selected \in canvas.nodes \cup {None} /\ canvas.nodes \subseteq Cards
        /\ strayed \in BOOLEAN
    BY DEF TypeInv, ShownTypes, OtherTypes, Canvases
  <1>b. ASSUME NEW p \in Panels, NEW n, Asks(p) \/ Removes(n, p)
        PROVE  panel'.asked = p.asked /\ panel'.key = p.key
               /\ (Asks(p) => selected' = selected /\ canvas' = canvas)
    BY <1>b, PanelShown DEF Asks, Removes
  <1>1. CASE DeleteButton
    <2>1. panel.key = None /\ panel.asked = None /\ selected \in canvas.nodes
      BY <1>1, InspectorAssumption, <1>a DEF DeleteButton, Gesture, Modal, AskShown, CanDelete
    <2>2. [panel EXCEPT !.asked = selected] \in Panels
      BY <1>a, <2>1 DEF Panels
    <2>3. CASE Asks([panel EXCEPT !.asked = selected])
      <3>1. /\ panel'.asked = [panel EXCEPT !.asked = selected].asked
            /\ panel'.key = [panel EXCEPT !.asked = selected].key
            /\ selected' = selected /\ canvas' = canvas
        BY <1>b, <2>2, <2>3
      <3>2. panel'.asked = selected /\ panel'.key = None
        BY <1>a, <2>1, <3>1 DEF Panels
      <3>. QED
        BY <1>a, <2>1, <3>1, <3>2, InspectorAssumption DEF AskInv
    <2>4. CASE Removes(selected, panel)
      BY <1>a, <1>b, <2>1, <2>4 DEF AskInv
    <2>. QED
      BY <1>1, <2>3, <2>4 DEF DeleteButton
  <1>2. CASE ConfirmDelete \/ CancelDelete
    <2>. DEFINE p == [panel EXCEPT !.asked = None]
    <2>1. p \in Panels /\ p.asked = None
      BY <1>a DEF Panels
    <2>2. Asks(p) \/ Removes(selected, p)
      BY <1>2 DEF ConfirmDelete, CancelDelete, Answered
    <2>. HIDE DEF p
    <2>3. panel'.asked = None
      BY <1>b, <2>1, <2>2
    <2>. QED
      BY <2>3 DEF AskInv
  <1>3. CASE DeleteKey
    <2>1. strayed' = (strayed \/ Modal) /\ selected \in canvas.nodes
      BY <1>3 DEF DeleteKey
    <2>2. strayed' \/ panel.asked = None
      BY <2>1, <1>a DEF AskInv, Modal, AskShown
    <2>. DEFINE p == [panel EXCEPT !.key = selected]
    <2>3. p \in Panels /\ p.asked = panel.asked
      BY <1>a, <2>1 DEF Panels
    <2>4. Asks(p) \/ Removes(selected, panel)
      BY <1>3 DEF DeleteKey
    <2>. HIDE DEF p
    <2>5. panel'.asked = panel.asked
      BY <1>a, <1>b, <2>3, <2>4
    <2>. QED
      BY <2>2, <2>5 DEF AskInv
  <1>4. CASE ConfirmKey \/ CancelKey
    <2>1. strayed \/ panel.asked = None
      BY <1>4, <1>a DEF ConfirmKey, CancelKey, AskInv
    <2>. DEFINE p == [panel EXCEPT !.key = None]
    <2>2. p \in Panels /\ p.asked = panel.asked
      BY <1>a DEF Panels
    <2>3. (Asks(p) \/ Removes(panel.key, p)) /\ strayed' = strayed
      BY <1>4 DEF ConfirmKey, CancelKey
    <2>. HIDE DEF p
    <2>4. panel'.asked = panel.asked
      BY <1>b, <2>2, <2>3
    <2>. QED
      BY <2>1, <2>3, <2>4 DEF AskInv
  <1>5. CASE Undo
    <2>1. /\ panel'.asked = panel.asked /\ panel'.key = panel.key /\ selected' = selected
          /\ strayed' = (strayed \/ Modal) /\ canvas'.nodes = canvas.nodes
      BY <1>5, <1>a, PanelShown, NodesSame DEF Undo
    <2>. QED
      BY <2>1 DEF AskInv
  <1>. QED
    BY <1>1, <1>2, <1>3, <1>4, <1>5

\* Every step keeps the dialog of the panel on the selected card, alone.
LEMMA AskInvariant == Spec => []AskInv
<1>1. Init => AskInv
  BY DEF Init, AskInv
<1>2. TypeInv /\ AskInv /\ [Next]_vars => AskInv'
  <2>. SUFFICES ASSUME TypeInv, AskInv, [Next]_vars PROVE AskInv'
    OBVIOUS
  <2>1. CASE UNCHANGED vars
    BY <2>1 DEF vars, AskInv
  <2>. QED
    BY <2>1, AuthorsAsk, GesturesAsk, AnswersAsk, DialogsAsk DEF Next
<1>. QED
  BY <1>1, <1>2, TypeInvariant, PTL DEF Spec

\* A card with listed operations is removed in answer to a dialog that asked of it, when no
\* shortcut went past a dialog (Inspector.tsx handleDelete and confirmDelete, Canvas.tsx
\* requestNodeDelete): the dialog of the panel names no card, and removes the selected one.
THEOREM DeletionIsConfirmed == Spec => CascadeIsConfirmed
<1>1. TypeInv /\ PlanInv /\ AskInv /\ [Next]_vars =>
        \A n \in canvas.nodes \ canvas'.nodes :
            n \in Range(list) /\ ~strayed => n \in {panel.asked, panel.key}
  <2>. SUFFICES ASSUME TypeInv, PlanInv, AskInv, [Next]_vars, NEW n \in canvas.nodes,
                       n \notin canvas'.nodes, n \in Range(list), ~strayed
                PROVE  n \in {panel.asked, panel.key}
    OBVIOUS
  <2>1. Removal(n)
    BY NodesKept
  <2>2. \/ n = selected /\ panel.asked # None
        \/ n = panel.key
    BY <2>1 DEF Removal
  <2>. QED
    BY <2>2 DEF AskInv
<1>2. TypeInv /\ PlanInv /\ AskInv /\ [Next]_vars =>
        [\A n \in canvas.nodes \ canvas'.nodes :
            n \in Range(list) /\ ~strayed => n \in {panel.asked, panel.key}]_vars
  BY <1>1
<1>. QED
  BY <1>2, TypeInvariant, PlanInvariant, AskInvariant, PTL DEF Spec, CascadeIsConfirmed

-----------------------------------------------------------------------------
\* The scripts of a card, and the answers that write over them.

\* What is awaited after a step is what the step leaves awaited.
LEMMA CallsShown ==
    ASSUME NEW c, NEW s, NEW p, NEW cs \in SUBSET Calls, Shows(c, s, p, cs), NEW call \in calls'
    PROVE  \E old \in cs : /\ call.kind = old.kind /\ call.node = old.node
                           /\ old.kind # "command" => call.seen = old.seen /\ call.file = old.file
  <1>. DEFINE Here(old) == IF old.kind = "command" THEN HasCommands(c, s) ELSE HasIsoPanel(c, s)
  <1>1. PICK old \in cs : call = [old EXCEPT !.mine = @ /\ Here(old)]
    BY DEF Shows
  <1>2. Here(old) \in BOOLEAN
    BY DEF HasCommands, HasIsoPanel
  <1>. HIDE DEF Here
  <1>. QED
    BY <1>1, <1>2, CallShown

Files(n) == Iso(canvas, n).files
SameFiles == \A n \in Cards : Files(n)' = Files(n)
IsFile(call) == call.kind \in {"import", "generate"}
\* A step that leaves the scripts alone, and asks with those that the card has.
Asking(cs) == \A call \in cs : IsFile(call) => call \in calls \/ call.seen.files = Files(call.node)
KeepsFiles ==
    /\ SameFiles /\ stale' = stale
    /\ \E c, s, p : \E cs \in SUBSET Calls : Shows(c, s, p, cs) /\ Asking(cs)

LEMMA KeepsAnswers ==
    ASSUME TypeInv, AnswerInv, KeepsFiles
    PROVE  AnswerInv'
  <1>. SUFFICES ASSUME ~stale', NEW call \in calls', IsFile(call)
                PROVE  Files(call.node)' \subseteq call.seen.files
    BY DEF AnswerInv, Files, IsFile
  <1>1. PICK c, s, p : \E cs \in SUBSET Calls : Shows(c, s, p, cs) /\ Asking(cs)
    BY DEF KeepsFiles
  <1>2. PICK cs \in SUBSET Calls : Shows(c, s, p, cs) /\ Asking(cs)
    BY <1>1
  <1>3. PICK old \in cs : /\ call.kind = old.kind /\ call.node = old.node
                          /\ old.kind # "command" => call.seen = old.seen
    BY <1>2, CallsShown
  <1>4. IsFile(old) /\ call.seen = old.seen /\ old.node \in Cards
    BY <1>3, CallFields DEF IsFile
  <1>5. Files(old.node) \subseteq old.seen.files
    BY <1>2, <1>4 DEF Asking, AnswerInv, KeepsFiles, Files, IsFile
  <1>. QED
    BY <1>3, <1>4, <1>5 DEF KeepsFiles, SameFiles

\* A step that changes the scripts of one card, with no other answer for it awaited.
LEMMA ChangesAnswers ==
    ASSUME TypeInv, AnswerInv, NEW n \in Cards, NEW c, NEW s, NEW p, NEW cs \in SUBSET calls,
           Shows(c, s, p, cs), \A m \in Cards : m # n => Files(m)' = Files(m),
           ~stale' => ~stale /\ ~Overtakes(n, cs)
    PROVE  AnswerInv'
  <1>. SUFFICES ASSUME ~stale', NEW call \in calls', IsFile(call)
                PROVE  Files(call.node)' \subseteq call.seen.files
    BY DEF AnswerInv, Files, IsFile
  <1>1. calls \subseteq Calls
    BY DEF TypeInv, ShownTypes
  <1>2. PICK old \in cs : /\ call.kind = old.kind /\ call.node = old.node
                          /\ old.kind # "command" => call.seen = old.seen
    BY <1>1, CallsShown
  <1>3. IsFile(old) /\ call.seen = old.seen /\ old.node \in Cards /\ old \in calls
    BY <1>1, <1>2, CallFields DEF IsFile
  <1>4. old.node # n
    BY <1>3 DEF Overtakes, IsFile
  <1>5. Files(old.node) \subseteq old.seen.files
    BY <1>3 DEF AnswerInv, Files, IsFile
  <1>. QED
    BY <1>2, <1>3, <1>4, <1>5

\* The steps that write to no disc leave the scripts alone.
LEMMA KeepsDiscs ==
    ASSUME TypeInv, NEW c, NEW s, NEW p, NEW cs \in SUBSET Calls, Shows(c, s, p, cs),
           c.iso = canvas.iso, cs \subseteq calls \/ Asking(cs), stale' = stale
    PROVE  KeepsFiles
  <1>1. canvas' = c
    BY DEF Shows
  <1>2. SameFiles
    BY <1>1 DEF SameFiles, Files, Iso
  <1>3. Asking(cs)
    BY DEF Asking
  <1>. QED
    BY <1>2, <1>3 DEF KeepsFiles

LEMMA PanelKeepsFiles ==
    ASSUME TypeInv,
           \/ \E n \in Cards \cup {None} : Select(n)
           \/ StartRename \/ \E x \in Names : CommitRename(x)
           \/ \E v \in Values : Type(v)
           \/ Configure \/ Undo
           \/ Run \/ \E call \in calls : CommandEnds(call)
           \/ Generate \/ CloseGenerate
    PROVE  KeepsFiles
  <1>a. canvas \in Canvases /\ calls \in SUBSET Calls /\ selected \in canvas.nodes \cup {None}
        /\ canvas.nodes \subseteq Cards
    BY DEF TypeInv, ShownTypes, Canvases
  <1>1. ASSUME NEW c, c.iso = canvas.iso, NEW s, NEW p, NEW cs \in SUBSET Calls,
               cs \subseteq calls \/ Asking(cs), Shows(c, s, p, cs), stale' = stale
        PROVE  KeepsFiles
    BY <1>1, KeepsDiscs
  <1>2. ASSUME NEW n \in Cards \cup {None}, Select(n) PROVE KeepsFiles
    BY <1>a, <1>1, <1>2 DEF Select, UnchangedHistory
  <1>3. CASE StartRename
    BY <1>a, <1>1, <1>3 DEF StartRename, UnchangedHistory
  <1>4. ASSUME NEW x \in Names, CommitRename(x) PROVE KeepsFiles
    <2>1. Renamed(x).iso = canvas.iso
      BY <1>a DEF Renamed, Canvases
    <2>. QED
      BY <1>a, <1>1, <1>4, <2>1 DEF CommitRename
  <1>5. ASSUME NEW v \in Values, Type(v) PROVE KeepsFiles
    <2>1. SetNodeConfig(selected, v).iso = canvas.iso
      BY <1>a DEF SetNodeConfig, Canvases
    <2>. QED
      BY <1>a, <1>1, <1>5, <2>1 DEF Type, UnchangedHistory
  <1>6. CASE Configure
    <2>. DEFINE c == [canvas EXCEPT !.life[selected] = "staged", !.config[selected] = Shown]
    <2>1. c.iso = canvas.iso
      BY <1>a DEF Canvases
    <2>2. Shows(c, selected, panel, calls) /\ stale' = stale
      BY <1>6 DEF Configure, UnchangedHistory
    <2>. HIDE DEF c
    <2>. QED
      BY <1>a, <1>1, <2>1, <2>2
  <1>7. CASE Undo
    <2>. DEFINE c == [canvas EXCEPT !.life[Last(list)] = "draft"]
    <2>1. c.iso = canvas.iso
      BY <1>a DEF Canvases
    <2>2. Shows(c, selected, panel, calls) /\ stale' = stale
      BY <1>7 DEF Undo
    <2>. HIDE DEF c
    <2>. QED
      BY <1>a, <1>1, <2>1, <2>2
  <1>8. CASE Run
    <2>. DEFINE new == [kind |-> "command", node |-> selected, mine |-> TRUE]
    <2>1. /\ selected \in Cards /\ stale' = stale
          /\ Shows(canvas, selected, [panel EXCEPT !.busy = TRUE], calls \cup {new})
      BY <1>a, <1>8 DEF Run, HasCommands, UnchangedHistory
    <2>2. new \in Calls /\ ~IsFile(new)
      BY <2>1 DEF Calls, IsFile
    <2>. HIDE DEF new
    <2>3. Asking(calls \cup {new}) /\ calls \cup {new} \in SUBSET Calls
      BY <1>a, <2>2 DEF Asking
    <2>. QED
      BY <1>1, <2>1, <2>3
  <1>9. ASSUME NEW call \in calls, CommandEnds(call) PROVE KeepsFiles
    BY <1>a, <1>1, <1>9 DEF CommandEnds, UnchangedHistory
  <1>10. CASE Generate
    <2>. DEFINE new == Call("generate", Generated)
    <2>1. selected \in Cards /\ Shows(canvas, selected, panel, calls \cup {new}) /\ stale' = stale
      BY <1>a, <1>10 DEF Generate, UnchangedHistory, TypeInv, ShownTypes, Mounted, HasIsoPanel
    <2>2. new \in Calls
      BY <1>a, <2>1, CallTypes, InspectorAssumption
    <2>3. new.seen.files = Files(new.node)
      BY DEF Call, Files
    <2>. HIDE DEF new
    <2>4. Asking(calls \cup {new}) /\ calls \cup {new} \in SUBSET Calls
      BY <1>a, <2>2, <2>3 DEF Asking
    <2>. QED
      BY <1>1, <2>1, <2>4
  <1>11. CASE CloseGenerate
    BY <1>a, <1>1, <1>11 DEF CloseGenerate, UnchangedHistory
  <1>. QED
    BY <1>2, <1>3, <1>4, <1>5, <1>6, <1>7, <1>8, <1>9, <1>10, <1>11

LEMMA PlanKeepsFiles ==
    ASSUME TypeInv,
           \/ Deploy \/ PlanRefused \/ \E old \in SUBSET stored : PlanStarts(old)
           \/ \E p \in plan, ok \in BOOLEAN : CloneEnds(p, ok)
           \/ PlanEnds \/ \E n \in Cards : Promote(n)
           \/ \E call \in calls : UploadFails(call)
    PROVE  KeepsFiles
  <1>a. canvas \in Canvases /\ calls \in SUBSET Calls
    BY DEF TypeInv, ShownTypes
  <1>1. ASSUME NEW c, c.iso = canvas.iso, NEW s, NEW p, NEW cs \in SUBSET Calls,
               cs \subseteq calls \/ Asking(cs), Shows(c, s, p, cs), stale' = stale
        PROVE  KeepsFiles
    BY <1>1, KeepsDiscs
  <1>2. CASE Deploy \/ PlanRefused \/ PlanEnds
    BY <1>a, <1>1, <1>2 DEF Deploy, PlanRefused, PlanEnds, UnchangedHistory
  <1>3. ASSUME NEW old \in SUBSET stored, PlanStarts(old) PROVE KeepsFiles
    <2>. DEFINE c == [canvas EXCEPT !.life = [n \in Cards |->
                        IF n \in {p.node : p \in plan} THEN "deploying" ELSE @[n]]]
    <2>1. c.iso = canvas.iso
      BY <1>a DEF Canvases
    <2>2. Shows(c, selected, panel, calls) /\ stale' = stale
      BY <1>3 DEF PlanStarts, UnchangedHistory
    <2>. HIDE DEF c
    <2>. QED
      BY <1>a, <1>1, <2>1, <2>2
  <1>4. ASSUME NEW p \in plan, NEW ok \in BOOLEAN, CloneEnds(p, ok) PROVE KeepsFiles
    <2>. DEFINE c == IF ok THEN [canvas EXCEPT !.life[p.node] = "provisioning",
                                               !.vm[p.node] = p.name]
                     ELSE [canvas EXCEPT !.life[p.node] = "failed"]
    <2>1. c.iso = canvas.iso
      BY <1>a DEF Canvases
    <2>2. Shows(c, selected, panel, calls) /\ stale' = stale
      BY <1>4 DEF CloneEnds, UnchangedHistory
    <2>. HIDE DEF c
    <2>. QED
      BY <1>a, <1>1, <2>1, <2>2
  <1>5. ASSUME NEW n \in Cards, Promote(n) PROVE KeepsFiles
    <2>. DEFINE c == [canvas EXCEPT !.life[n] = "deployed"]
    <2>1. c.iso = canvas.iso
      BY <1>a DEF Canvases
    <2>2. Shows(c, selected, panel, calls) /\ stale' = stale
      BY <1>5 DEF Promote, UnchangedHistory
    <2>. HIDE DEF c
    <2>. QED
      BY <1>a, <1>1, <2>1, <2>2
  <1>6. ASSUME NEW call \in calls, UploadFails(call) PROVE KeepsFiles
    BY <1>a, <1>1, <1>6 DEF UploadFails, UnchangedHistory
  <1>. QED
    BY <1>2, <1>3, <1>4, <1>5, <1>6

LEMMA DialogsKeepFiles ==
    ASSUME TypeInv, DeleteButton \/ ConfirmDelete \/ CancelDelete \/ DeleteKey \/ ConfirmKey
                    \/ CancelKey
    PROVE  KeepsFiles
  <1>a. canvas \in Canvases /\ calls \in SUBSET Calls
    BY DEF TypeInv, ShownTypes
  <1>1. ASSUME NEW p, Asks(p) PROVE KeepsFiles
    BY <1>a, <1>1, KeepsDiscs DEF Asks
  <1>2. ASSUME NEW n, NEW p, Removes(n, p) PROVE KeepsFiles
    <2>. DEFINE c == [canvas EXCEPT !.nodes = @ \ {n}]
                s == IF selected = n THEN None ELSE selected
    <2>1. c.iso = canvas.iso
      BY <1>a DEF Canvases
    <2>2. Shows(c, s, p, calls) /\ stale' = stale
      BY <1>2 DEF Removes
    <2>. HIDE DEF c, s
    <2>. QED
      BY <1>a, <2>1, <2>2, KeepsDiscs
  <1>3. CASE CancelDelete \/ CancelKey
    BY <1>1, <1>3 DEF CancelDelete, CancelKey
  <1>. QED
    BY <1>1, <1>2, <1>3 DEF DeleteButton, ConfirmDelete, DeleteKey, ConfirmKey

\* What is written to a disc with the scripts that it has.
LEMMA KeepsWrite ==
    ASSUME TypeInv, NEW n \in Cards, NEW iso \in IsoRecords, iso.files = Files(n),
           NEW s, NEW p, NEW cs \in SUBSET Calls, Asking(cs),
           Shows(SetIsoAuthoring(n, iso), s, p, cs), stale' = stale
    PROVE  KeepsFiles
  <1>1. canvas' = SetIsoAuthoring(n, iso) /\ canvas \in Canvases
    BY DEF Shows, TypeInv, ShownTypes
  <1>2. /\ \A m \in Cards : m # n => Iso(canvas', m) = Iso(canvas, m)
        /\ Iso(canvas', n) \in {Iso(canvas, n), iso}
    BY <1>1, WriteKeeps
  <1>3. SameFiles
    BY <1>2 DEF SameFiles, Files
  <1>. QED
    BY <1>3 DEF KeepsFiles

LEMMA AuthorsKeepsFiles ==
    ASSUME TypeInv, NEW iso \in IsoRecords, iso.files = Files(selected), NEW p,
           NEW new \in SUBSET Calls, Asking(new), Authors(iso, p, new), stale' = stale
    PROVE  KeepsFiles
  <1>1. calls \in SUBSET Calls /\ selected \in Cards
    BY DEF TypeInv, ShownTypes, Canvases, Authors, HasIsoPanel
  <1>2. Asking(calls \cup new) /\ calls \cup new \in SUBSET Calls
    BY <1>1 DEF Asking
  <1>. QED
    BY <1>1, <1>2, KeepsWrite DEF Authors

LEMMA DiscKeepsFiles ==
    ASSUME TypeInv,
           \/ Toggle \/ \E mode \in Modes : SetMode(mode)
           \/ \E f \in Scripts : Import(f)
           \/ OpenGenerate \/ Upload \/ RemoveUpload
           \/ \E call \in calls : Uploaded(call)
    PROVE  KeepsFiles
  <1>a. canvas \in Canvases /\ calls \in SUBSET Calls /\ uploads \in 0..MaxUploads
    BY DEF TypeInv, ShownTypes, OtherTypes
  <1>b. HasIsoPanel(canvas, selected) => selected \in Cards /\ Iso(canvas, selected) \in IsoRecords
    BY <1>a, IsoTypes DEF HasIsoPanel, Canvases
  <1>c. Asking({})
    BY DEF Asking
  <1>1. ASSUME NEW iso \in IsoRecords, iso.files = Files(selected), NEW p,
               NEW new \in SUBSET Calls, Asking(new), Authors(iso, p, new), stale' = stale
        PROVE  KeepsFiles
    BY <1>1, AuthorsKeepsFiles
  <1>2. CASE Toggle
    <2>. DEFINE iso == Iso(canvas, selected)
                off == [iso EXCEPT !.enabled = FALSE]
                on == [iso EXCEPT !.enabled = TRUE, !.seeded = TRUE]
                seeds == IF iso.seeded THEN {} ELSE {Call("seed", None)}
    <2>1. /\ off \in IsoRecords /\ on \in IsoRecords
          /\ off.files = Files(selected) /\ on.files = Files(selected)
      BY <1>b, <1>2 DEF Toggle, IsoRecords, Files
    <2>2. Authors(off, panel, {}) \/ Authors(on, panel, seeds)
      BY <1>2 DEF Toggle
    <2>3. seeds \in SUBSET Calls
      BY <1>a, <1>b, <1>2, CallTypes DEF Toggle
    <2>4. Asking(seeds)
      BY DEF Asking, IsFile, Call
    <2>5. stale' = stale
      BY <1>2 DEF Toggle
    <2>. HIDE DEF off, on, seeds
    <2>. QED
      BY <1>1, <1>c, <2>1, <2>2, <2>3, <2>4, <2>5
  <1>3. ASSUME NEW mode \in Modes, SetMode(mode) PROVE KeepsFiles
    <2>. DEFINE iso == [Iso(canvas, selected) EXCEPT !.mode = mode]
    <2>1. iso \in IsoRecords /\ iso.files = Files(selected)
      BY <1>b, <1>3 DEF SetMode, IsoRecords, Files
    <2>2. Authors(iso, panel, {}) /\ stale' = stale
      BY <1>3 DEF SetMode
    <2>. HIDE DEF iso
    <2>. QED
      BY <1>1, <1>c, <2>1, <2>2
  <1>4. ASSUME NEW f \in Scripts, Import(f) PROVE KeepsFiles
    <2>. DEFINE new == Call("import", f)
    <2>1. new \in Calls /\ Iso(canvas, selected) \in IsoRecords
      BY <1>a, <1>b, <1>4, CallTypes DEF Import, Authored
    <2>2. Asking({new})
      BY DEF Asking, Call, Files
    <2>3. Authors(Iso(canvas, selected), panel, {new}) /\ stale' = stale
      BY <1>4 DEF Import
    <2>. HIDE DEF new
    <2>. QED
      BY <1>1, <2>1, <2>2, <2>3 DEF Files
  <1>5. CASE OpenGenerate
    BY <1>b, <1>c, <1>1, <1>5 DEF OpenGenerate, Authored, Files
  <1>6. CASE Upload
    <2>. DEFINE new == Call("upload", uploads')
    <2>1. uploads' \in Isos
      BY <1>a, <1>6, InspectorAssumption DEF Upload, Isos
    <2>2. new \in Calls /\ Iso(canvas, selected) \in IsoRecords
      BY <1>a, <1>b, <1>6, <2>1, CallTypes DEF Upload, Authored
    <2>3. Asking({new})
      BY DEF Asking, Call, IsFile
    <2>4. Authors(Iso(canvas, selected), [panel EXCEPT !.uploading = TRUE], {new})
          /\ stale' = stale
      BY <1>6 DEF Upload
    <2>. HIDE DEF new
    <2>. QED
      BY <1>1, <2>2, <2>3, <2>4 DEF Files
  <1>7. CASE RemoveUpload
    <2>. DEFINE iso == [Iso(canvas, selected) EXCEPT !.isoId = None]
    <2>1. iso \in IsoRecords /\ iso.files = Files(selected)
      BY <1>b, <1>7 DEF RemoveUpload, Authored, IsoRecords, Files
    <2>2. Authors(iso, panel, {}) /\ stale' = stale
      BY <1>7 DEF RemoveUpload
    <2>. HIDE DEF iso
    <2>. QED
      BY <1>1, <1>c, <2>1, <2>2
  <1>8. ASSUME NEW call \in calls, Uploaded(call) PROVE KeepsFiles
    <2>. DEFINE iso == [Iso(canvas, call.node) EXCEPT !.isoId = call.file]
    <2>1. call.node \in Cards /\ call.file \in Isos /\ Iso(canvas, call.node) \in IsoRecords
      BY <1>a, <1>8, CallFields, IsoTypes DEF Uploaded
    <2>2. iso \in IsoRecords /\ iso.files = Files(call.node)
      BY <2>1 DEF IsoRecords, Files
    <2>3. (\E p : Shows(SetIsoAuthoring(call.node, iso), selected, p, calls \ {call}))
          /\ stale' = stale
      BY <1>8 DEF Uploaded, UnchangedHistory
    <2>4. Asking(calls \ {call})
      BY DEF Asking
    <2>. HIDE DEF iso
    <2>. QED
      BY <1>a, <2>1, <2>2, <2>3, <2>4, KeepsWrite
  <1>. QED
    BY <1>2, <1>3, <1>4, <1>5, <1>6, <1>7, <1>8

\* The edits of a list of scripts, and the answers that write one: what was in it stays, but
\* for an edit.
LEMMA FileSteps ==
    ASSUME TypeInv, AnswerInv,
           \/ \E f \in Scripts : Edited(f)
           \/ \E call \in calls, ok \in BOOLEAN : SeedAnswered(call, ok) \/ FileAnswered(call, ok)
    PROVE  /\ AnswerInv'
           /\ stale \/ gestures' # gestures \/ \A n \in Cards : Files(n) \subseteq Files(n)'
  <1>a. canvas \in Canvases /\ calls \in SUBSET Calls /\ canvas.nodes \subseteq Cards
    BY DEF TypeInv, ShownTypes, Canvases
  <1>b. HasIsoPanel(canvas, selected) => selected \in Cards /\ Iso(canvas, selected) \in IsoRecords
    BY <1>a, IsoTypes DEF HasIsoPanel
  <1>1. ASSUME NEW old \in SUBSET Scripts, NEW new \in SUBSET Scripts, Edit(old, new)
        PROVE  AnswerInv' /\ gestures' # gestures
    <2>. DEFINE iso == [Iso(canvas, selected) EXCEPT
                            !.files = (Iso(canvas, selected).files \ old) \cup new]
    <2>1. iso \in IsoRecords /\ selected \in Cards
      BY <1>b, <1>1 DEF Edit, Authored, IsoRecords
    <2>2. Shows(SetIsoAuthoring(selected, iso), selected, panel, calls)
          /\ stale' = (stale \/ Overtakes(selected, calls))
      BY <1>1 DEF Edit, Authors
    <2>. HIDE DEF iso
    <2>3. \A m \in Cards : m # selected => Files(m)' = Files(m)
      BY <1>a, <2>1, <2>2, WriteKeeps DEF Shows, Files
    <2>4. gestures' # gestures
      BY <1>1 DEF Edit, Authors, Gesture, TypeInv, OtherTypes
    <2>. QED
      BY <2>1, <2>2, <2>3, <2>4, ChangesAnswers
  <1>2. ASSUME NEW f \in Scripts, Edited(f) PROVE AnswerInv' /\ gestures' # gestures
    <2>1. PICK old \in {{}} \cup {{g} : g \in Scripts} : Edit(old, {f}) \/ Edit(old, {})
      BY <1>2 DEF Edited
    <2>. QED
      BY <1>1, <2>1
  <1>3. ASSUME NEW call \in calls, NEW ok \in BOOLEAN, SeedAnswered(call, ok)
        PROVE  AnswerInv' /\ \A n \in Cards : Files(n) \subseteq Files(n)'
    <2>. DEFINE old == Iso(canvas, call.node)
                iso == IF ok THEN Seeded(old) ELSE old
    <2>1. call.node \in Cards /\ old \in IsoRecords
      BY <1>a, CallFields, IsoTypes
    <2>2. iso \in IsoRecords /\ old.files \subseteq iso.files
      BY <2>1, InspectorAssumption DEF Seeded, IsoRecords
    <2>3. /\ Shows(IF iso = old THEN canvas ELSE SetIsoAuthoring(call.node, iso),
                   selected, panel, calls \ {call})
          /\ stale' = (stale \/ (iso # old /\ Overtakes(call.node, calls)))
      BY <1>3 DEF SeedAnswered
    <2>. HIDE DEF iso
    <2>4. CASE iso = old
      <3>1. Shows(canvas, selected, panel, calls \ {call}) /\ stale' = stale
        BY <2>3, <2>4 DEF TypeInv, OtherTypes
      <3>2. KeepsFiles
        BY <1>a, <3>1, KeepsDiscs
      <3>. QED
        BY <3>2, KeepsAnswers DEF KeepsFiles, SameFiles
    <2>5. CASE iso # old
      <3>1. Shows(SetIsoAuthoring(call.node, iso), selected, panel, calls \ {call})
            /\ stale' = (stale \/ Overtakes(call.node, calls))
        BY <2>3, <2>5
      <3>2. /\ \A m \in Cards : m # call.node => Files(m)' = Files(m)
            /\ Files(call.node)' \in {old.files, iso.files}
        BY <1>a, <2>1, <2>2, <3>1, WriteKeeps DEF Shows, Files
      <3>3. ~stale' => ~stale /\ ~Overtakes(call.node, calls \ {call})
        BY <3>1 DEF Overtakes
      <3>4. AnswerInv'
        BY <2>1, <3>1, <3>2, <3>3, ChangesAnswers
      <3>. QED
        BY <2>2, <3>2, <3>4 DEF Files
    <2>. QED
      BY <2>4, <2>5
  <1>4. ASSUME NEW call \in calls, NEW ok \in BOOLEAN, FileAnswered(call, ok)
        PROVE  AnswerInv' /\ (stale \/ \A n \in Cards : Files(n) \subseteq Files(n)')
    <2>. DEFINE files == IF ok THEN Added(call) ELSE {}
                old == Iso(canvas, call.node)
                iso == [old EXCEPT !.files = files]
                p == [panel EXCEPT !.generating = @ /\ ~(ok /\ call.mine /\ call.kind = "generate")]
    <2>1. /\ call.node \in Cards /\ old \in IsoRecords /\ call.seen \in IsoRecords
          /\ call.file \in Scripts /\ IsFile(call)
      BY <1>a, <1>4, CallFields, IsoTypes DEF FileAnswered, IsFile
    <2>2. files \in SUBSET Scripts /\ (files # {} => call.seen.files \subseteq files)
      BY <2>1 DEF Added, IsoRecords
    <2>3. /\ Shows(IF files = {} THEN canvas ELSE SetIsoAuthoring(call.node, iso),
                   selected, p, calls \ {call})
          /\ stale' = (stale \/ Overtakes(call.node, calls \ {call}))
      BY <1>4 DEF FileAnswered
    <2>4. stale \/ old.files \subseteq call.seen.files
      BY <2>1 DEF AnswerInv, IsFile
    <2>. HIDE DEF files, p
    <2>5. iso \in IsoRecords /\ iso.files = files
      BY <2>1, <2>2 DEF IsoRecords
    <2>. HIDE DEF iso
    <2>6. /\ \A m \in Cards : m # call.node => Files(m)' = Files(m)
          /\ Files(call.node)' = old.files \/ (files # {} /\ Files(call.node)' = files)
      <3>1. CASE files = {}
        BY <2>3, <3>1 DEF Shows, Files
      <3>2. CASE files # {}
        BY <1>a, <2>1, <2>3, <2>5, <3>2, WriteKeeps DEF Shows, Files
      <3>. QED
        BY <3>1, <3>2
    <2>7. AnswerInv'
      BY <2>1, <2>3, <2>6, ChangesAnswers
    <2>. QED
      BY <2>2, <2>4, <2>6, <2>7 DEF Files
  <1>. QED
    BY <1>2, <1>3, <1>4

\* Every step but an edit keeps the scripts, and every answer adds to those of the card.
LEMMA FilesInvariant ==
    ASSUME TypeInv, AnswerInv, [Next]_vars
    PROVE  /\ AnswerInv'
           /\ stale \/ gestures' # gestures \/ \A n \in Cards : Files(n) \subseteq Files(n)'
  <1>1. KeepsFiles => /\ AnswerInv'
                      /\ \A n \in Cards : Files(n) \subseteq Files(n)'
    BY KeepsAnswers DEF KeepsFiles, SameFiles
  <1>2. CASE UNCHANGED vars
    BY <1>2 DEF vars, AnswerInv, Files
  <1>. QED
    BY <1>1, <1>2, PanelKeepsFiles, PlanKeepsFiles, DialogsKeepFiles, DiscKeepsFiles, FileSteps
    DEF Next

LEMMA AnswerInvariant == Spec => []AnswerInv
<1>1. Init => AnswerInv
  BY DEF Init, AnswerInv
<1>2. TypeInv /\ AnswerInv /\ [Next]_vars => AnswerInv'
  BY FilesInvariant
<1>. QED
  BY <1>1, <1>2, TypeInvariant, PTL DEF Spec

\* No answer takes a script of a card away (IsoAuthoringPanel.tsx toggle, upsertFile and
\* insertGenerated), while no list of scripts changed that an awaited answer will write over.
THEOREM AnswersOnlyAdd == Spec => AnswersKeepScripts
<1>1. TypeInv /\ AnswerInv /\ [Next]_vars =>
        [\A n \in canvas.nodes \cap canvas'.nodes :
            calls' # calls /\ gestures' = gestures /\ ~stale
                => Iso(canvas, n).files \subseteq Iso(canvas', n).files]_vars
  <2>. SUFFICES ASSUME TypeInv, AnswerInv, [Next]_vars, NEW n \in canvas.nodes,
                       gestures' = gestures, ~stale
                PROVE  Iso(canvas, n).files \subseteq Iso(canvas', n).files
    OBVIOUS
  <2>1. n \in Cards
    BY DEF TypeInv, ShownTypes, Canvases
  <2>. QED
    BY <2>1, FilesInvariant DEF Files
<1>. QED
  BY <1>1, TypeInvariant, AnswerInvariant, PTL DEF Spec, AnswersKeepScripts

-----------------------------------------------------------------------------
\* The lives of the cards, and the clones of a plan.

\* No card comes to a life before a machine, or leaves one.
LivesKept ==
    \A n \in Cards : \/ canvas'.life[n] = canvas.life[n]
                     \/ canvas.life[n] \notin Unused /\ canvas'.life[n] \notin Unused

LEMMA LivesSteps ==
    ASSUME TypeInv,
           \/ \E n \in Cards \cup {None} : Select(n)
           \/ StartRename \/ \E x \in Names : CommitRename(x)
           \/ \E v \in Values : Type(v)
           \/ DeleteButton \/ ConfirmDelete \/ CancelDelete \/ DeleteKey \/ ConfirmKey \/ CancelKey
           \/ Run \/ \E call \in calls : CommandEnds(call)
           \/ Deploy \/ PlanRefused \/ PlanEnds \/ \E n \in Cards : Promote(n)
           \/ Toggle \/ \E mode \in Modes : SetMode(mode)
           \/ \E call \in calls, ok \in BOOLEAN : SeedAnswered(call, ok) \/ FileAnswered(call, ok)
           \/ \E f \in Scripts : Edited(f) \/ Import(f)
           \/ OpenGenerate \/ Generate \/ CloseGenerate
           \/ Upload \/ \E call \in calls : Uploaded(call) \/ UploadFails(call)
           \/ RemoveUpload
    PROVE  LivesKept
  <1>a. canvas \in Canvases /\ canvas.nodes \subseteq Cards
    BY DEF TypeInv, ShownTypes, Canvases
  <1>1. ASSUME canvas'.life = canvas.life PROVE LivesKept
    BY <1>1 DEF LivesKept
  <1>2. CASE \/ \E n \in Cards \cup {None} : Select(n)
             \/ StartRename \/ CancelDelete \/ CancelKey
             \/ Run \/ \E call \in calls : CommandEnds(call)
             \/ Deploy \/ PlanRefused \/ PlanEnds \/ Generate \/ CloseGenerate
             \/ \E call \in calls : UploadFails(call)
    <2>1. canvas' = canvas
      BY <1>2 DEF Select, StartRename, CancelDelete, CancelKey, Asks, Run, CommandEnds, Deploy,
                  PlanRefused, PlanEnds, Generate, CloseGenerate, UploadFails, Shows
    <2>. QED
      BY <1>1, <2>1
  <1>3. ASSUME NEW x \in Names, CommitRename(x) PROVE LivesKept
    BY <1>a, <1>1, <1>3 DEF CommitRename, Shows, Renamed, Canvases
  <1>4. ASSUME NEW v \in Values, Type(v) PROVE LivesKept
    BY <1>a, <1>1, <1>4 DEF Type, Shows, SetNodeConfig, Canvases
  <1>5. CASE DeleteButton \/ ConfirmDelete \/ DeleteKey \/ ConfirmKey
    <2>1. ASSUME NEW n, NEW p, Removes(n, p) PROVE canvas'.life = canvas.life
      BY <1>a, <2>1 DEF Removes, Shows, Canvases
    <2>2. ASSUME NEW p, Asks(p) PROVE canvas'.life = canvas.life
      BY <2>2 DEF Asks, Shows
    <2>. QED
      BY <1>1, <1>5, <2>1, <2>2 DEF DeleteButton, ConfirmDelete, DeleteKey, ConfirmKey
  <1>6. ASSUME NEW n \in Cards, Promote(n) PROVE LivesKept
    BY <1>a, <1>6 DEF Promote, Shows, Canvases, LivesKept, Unused
  <1>7. CASE \/ Toggle \/ \E mode \in Modes : SetMode(mode)
             \/ \E call \in calls, ok \in BOOLEAN : SeedAnswered(call, ok) \/ FileAnswered(call, ok)
             \/ \E f \in Scripts : Edited(f) \/ Import(f)
             \/ OpenGenerate \/ Upload \/ RemoveUpload \/ \E call \in calls : Uploaded(call)
    <2>1. PICK n \in Cards, iso \in IsoRecords : Writes(n, iso)
      BY <1>7, DiscWrites, UploadWrites
    <2>. DEFINE l == IF IsDeployed(canvas, n) THEN "drifted" ELSE canvas.life[n]
                c == [canvas EXCEPT !.iso[n] = iso, !.life[n] = l]
    <2>2. canvas' \in {canvas, c}
      BY <2>1 DEF Writes, SetIsoAuthoring
    <2>3. l = canvas.life[n] \/ (canvas.life[n] \notin Unused /\ l \notin Unused)
      BY DEF IsDeployed, Unused
    <2>. HIDE DEF l
    <2>4. c.life = [canvas.life EXCEPT ![n] = l]
      BY <1>a DEF Canvases
    <2>5. canvas.life \in [Cards -> Lives]
      BY <1>a DEF Canvases
    <2>. HIDE DEF c
    <2>. QED
      BY <1>1, <2>1, <2>2, <2>3, <2>4, <2>5 DEF LivesKept
  <1>. QED
    BY <1>2, <1>3, <1>4, <1>5, <1>6, <1>7

\* The steps that leave the plan alone, and list no card.
LEMMA ClonesKept ==
    ASSUME CloneInv, LivesKept, plan' = plan, plan \subseteq Clones,
           Range(list) \subseteq Cards, Range(list') \subseteq Range(list)
    PROVE  CloneInv'
  <1>1. \A n \in Cards : canvas.life[n] \in Unused => canvas'.life[n] \in Unused
    BY DEF LivesKept
  <1>2. \A p \in plan : p.node \in Cards
    BY DEF Clones
  <1>. QED
    BY <1>1, <1>2 DEF CloneInv

\* What is kept of a list was in it.
LEMMA KeptRange ==
    ASSUME NEW X, NEW s \in Seq(X), NEW S
    PROVE  Range(Kept(s, S)) \subseteq Range(s) \cap S
  <1>1. s \in Seq(Range(s))
    BY DEF Range
  <1>. DEFINE R == Range(s)
              k == Kept(s, S)
  <1>2. k \in Seq(R \cap S)
    BY <1>1, KeptType
  <1>. HIDE DEF R, k
  <1>3. Range(k) \subseteq R \cap S
    BY <1>2 DEF Range
  <1>. QED
    BY <1>3 DEF R, k

\* The steps of the plan, and those of the list.
LEMMA PlanStepsClones ==
    ASSUME TypeInv, PlanInv, CloneInv,
           \/ Configure \/ Undo
           \/ Deploy \/ PlanRefused \/ \E old \in SUBSET stored : PlanStarts(old)
           \/ \E p \in plan, ok \in BOOLEAN : CloneEnds(p, ok)
           \/ PlanEnds
    PROVE  CloneInv'
  <1>a. canvas \in Canvases /\ canvas.life \in [Cards -> Lives] /\ plan \subseteq Clones
        /\ canvas.nodes \subseteq Cards /\ list \in Seq(Cards) /\ \A p \in plan : p.node \in Cards
    BY DEF TypeInv, ShownTypes, OtherTypes, Canvases, Clones
  <1>b. Range(list) \subseteq Cards
    BY <1>a DEF Range
  <1>c. ~deploying => plan = {} /\ \A n \in Range(list) : canvas.life[n] \in Unused
    BY DEF PlanInv, CloneInv
  <1>1. CASE Configure
    <2>1. plan' = {} /\ selected \in Cards /\ list' = Append(list, selected)
          /\ plan = {} /\ \A n \in Range(list) : canvas.life[n] \in Unused
      BY <1>a, <1>c, <1>1 DEF Configure, HasForm, UnchangedPlan
    <2>2. canvas'.life = [canvas.life EXCEPT ![selected] = "staged"]
      BY <1>a, <1>1 DEF Configure, Shows, Canvases
    <2>3. Range(list') \subseteq Range(list) \cup {selected}
      BY <1>a, <2>1 DEF Range
    <2>. QED
      BY <1>a, <1>b, <2>1, <2>2, <2>3 DEF CloneInv, Unused
  <1>2. CASE Undo
    <2>1. plan' = {} /\ list # <<>> /\ list' = Front(list)
          /\ plan = {} /\ \A n \in Range(list) : canvas.life[n] \in Unused
      BY <1>a, <1>c, <1>2 DEF Undo, UnchangedPlan
    <2>2. canvas'.life = [canvas.life EXCEPT ![Last(list)] = "draft"]
      BY <1>a, <1>2 DEF Undo, Shows, Canvases
    <2>3. Range(list') \subseteq Range(list)
      BY <1>a, <2>1 DEF Range, Front
    <2>. QED
      BY <1>a, <1>b, <2>1, <2>2, <2>3 DEF CloneInv, Unused
  <1>3. CASE Deploy
    <2>1. /\ canvas' = canvas /\ list' = list /\ \A n \in Range(list) : canvas.life[n] \in Unused
          /\ plan' = {[node |-> n, name |-> canvas.name[n], disc |-> Disc(Iso(canvas, n)),
                       status |-> "sent"] : n \in Range(list)}
      BY <1>c, <1>3 DEF Deploy, Shows
    <2>2. \A p \in plan' : p.node \in Range(list)
      BY <2>1
    <2>3. \A p, q \in plan' : p.node = q.node => p = q
      BY <2>1
    <2>. QED
      BY <2>1, <2>2, <2>3 DEF CloneInv
  <1>4. CASE PlanRefused
    <2>1. /\ canvas' = canvas /\ list' = list /\ plan' = {} /\ \A p \in plan : p.status = "sent"
      BY <1>4 DEF PlanRefused, Sent, Shows
    <2>. QED
      BY <2>1 DEF CloneInv
  <1>5. ASSUME NEW old \in SUBSET stored, PlanStarts(old) PROVE CloneInv'
    <2>1. /\ list' = list /\ \A p \in plan : p.status = "sent"
          /\ plan' = {[p EXCEPT !.status = "running"] : p \in plan}
      BY <1>5 DEF PlanStarts, Sent
    <2>2. canvas'.life = [n \in Cards |-> IF n \in {p.node : p \in plan} THEN "deploying"
                                          ELSE canvas.life[n]]
      BY <1>a, <1>5 DEF PlanStarts, Shows, Canvases
    <2>3. ASSUME NEW p \in plan', NEW q \in plan', p.node = q.node PROVE p = q
      <3>1. PICK p0 \in plan : p = [p0 EXCEPT !.status = "running"]
        BY <2>1
      <3>2. PICK q0 \in plan : q = [q0 EXCEPT !.status = "running"]
        BY <2>1
      <3>3. p0.node = q0.node
        BY <1>a, <2>3, <3>1, <3>2 DEF Clones
      <3>. QED
        BY <3>1, <3>2, <3>3 DEF CloneInv
    <2>4. ASSUME NEW p \in plan' PROVE canvas'.life[p.node] \in Unused
      <3>1. PICK p0 \in plan : p = [p0 EXCEPT !.status = "running"]
        BY <2>1
      <3>2. p.node = p0.node /\ p0.node \in Cards
        BY <1>a, <3>1 DEF Clones
      <3>. QED
        BY <2>2, <3>2 DEF Unused
    <2>5. ASSUME NEW n \in Range(list) PROVE canvas'.life[n] \in Unused
      <3>1. canvas.life[n] \in Unused /\ n \in Cards
        BY <1>b, <2>1 DEF CloneInv
      <3>. QED
        BY <2>2, <3>1 DEF Unused
    <2>. QED
      BY <2>1, <2>3, <2>4, <2>5 DEF CloneInv
  <1>6. ASSUME NEW p \in plan, NEW ok \in BOOLEAN, CloneEnds(p, ok) PROVE CloneInv'
    <2>. DEFINE new == [p EXCEPT !.status = IF ok THEN "done" ELSE "error"]
    <2>1. list' = list /\ plan' = (plan \ {p}) \cup {new} /\ p.status = "running"
      BY <1>6 DEF CloneEnds
    <2>2. new.node = p.node /\ new.status = (IF ok THEN "done" ELSE "error") /\ p.node \in Cards
      BY <1>a DEF Clones
    <2>3. canvas'.life = [canvas.life EXCEPT ![p.node] = IF ok THEN "provisioning" ELSE "failed"]
      BY <1>a, <1>6 DEF CloneEnds, Shows, Canvases
    <2>. HIDE DEF new
    <2>4. \A q, r \in plan' : q.node = r.node => q = r
      BY <2>1, <2>2 DEF CloneInv
    <2>5. \A q \in plan' : q.status # "done" => canvas'.life[q.node] \in Unused
      BY <1>a, <2>1, <2>2, <2>3 DEF CloneInv, Unused
    <2>6. ASSUME NEW n \in Range(list)
          PROVE  canvas'.life[n] \in Unused \/ \E q \in plan' : q.node = n /\ q.status = "done"
      <3>1. n \in Cards
        BY <1>b
      <3>2. CASE n = p.node
        <4>1. new \in plan'
          BY <2>1
        <4>. QED
          BY <1>a, <2>2, <2>3, <3>1, <3>2, <4>1 DEF Unused
      <3>3. CASE n # p.node
        <4>1. canvas.life[n] \in Unused \/ \E q \in plan \ {p} : q.node = n /\ q.status = "done"
          BY <3>3 DEF CloneInv
        <4>. QED
          BY <1>a, <2>1, <2>3, <3>1, <3>3, <4>1
      <3>. QED
        BY <3>2, <3>3
    <2>. QED
      BY <2>1, <2>4, <2>5, <2>6 DEF CloneInv
  <1>7. CASE PlanEnds
    <2>. DEFINE done == {p.node : p \in {q \in plan : q.status = "done"}}
    <2>1. canvas' = canvas /\ plan' = {} /\ list' = Kept(list, Cards \ done)
      BY <1>7 DEF PlanEnds, Shows
    <2>. HIDE DEF done
    <2>2. Range(list') \subseteq Range(list) \cap (Cards \ done)
      BY <1>a, <2>1, KeptRange
    <2>3. \A n \in Range(list') : canvas.life[n] \in Unused
      BY <2>2 DEF CloneInv, done
    <2>. QED
      BY <2>1, <2>3 DEF CloneInv
  <1>. QED
    BY <1>1, <1>2, <1>3, <1>4, <1>5, <1>6, <1>7

\* Every step keeps the clones as their cards live.
LEMMA CloneInvariant == Spec => []CloneInv
<1>1. Init => CloneInv
  <2>. SUFFICES ASSUME Init PROVE CloneInv
    OBVIOUS
  <2>. DEFINE S == {n \in canvas.nodes : canvas.life[n] = "staged"}
  <2>1. S \subseteq Cards /\ list = SetToSeq(S) /\ plan = {}
    BY InspectorAssumption DEF Init, IsStart, Canvases
  <2>2. \A n \in S : canvas.life[n] \in Unused
    BY DEF Unused
  <2>. HIDE DEF S
  <2>3. list \in Seq(S)
    BY <2>1, InspectorAssumption, FS_Subset, ListOf
  <2>. QED
    BY <2>1, <2>2, <2>3 DEF CloneInv, Range
<1>2. TypeInv /\ PlanInv /\ CloneInv /\ [Next]_vars => CloneInv'
  <2>. SUFFICES ASSUME TypeInv, PlanInv, CloneInv, [Next]_vars PROVE CloneInv'
    OBVIOUS
  <2>a. plan \subseteq Clones /\ list \in Seq(Cards) /\ Range(list) \subseteq Cards
    BY DEF TypeInv, OtherTypes, Range
  <2>1. CASE UNCHANGED vars
    BY <2>1 DEF vars, CloneInv
  <2>2. CASE DeleteButton \/ ConfirmDelete \/ DeleteKey \/ ConfirmKey
    <3>1. ASSUME NEW n, NEW p, Removes(n, p)
          PROVE  plan' = plan /\ Range(list') \subseteq Range(list)
      BY <2>a, <3>1, KeptRange DEF Removes, UnchangedPlan
    <3>2. ASSUME NEW p, Asks(p)
          PROVE  plan' = plan /\ Range(list') \subseteq Range(list)
      BY <3>2 DEF Asks, UnchangedPlan
    <3>3. plan' = plan /\ Range(list') \subseteq Range(list)
      BY <2>2, <3>1, <3>2 DEF DeleteButton, ConfirmDelete, DeleteKey, ConfirmKey
    <3>. QED
      BY <2>2, <2>a, <3>3, LivesSteps, ClonesKept
  <2>3. CASE \/ \E n \in Cards \cup {None} : Select(n)
             \/ StartRename \/ \E x \in Names : CommitRename(x)
             \/ \E v \in Values : Type(v)
             \/ CancelDelete \/ CancelKey
             \/ Run \/ \E call \in calls : CommandEnds(call)
             \/ \E n \in Cards : Promote(n)
             \/ Toggle \/ \E mode \in Modes : SetMode(mode)
             \/ \E call \in calls, ok \in BOOLEAN : SeedAnswered(call, ok) \/ FileAnswered(call, ok)
             \/ \E f \in Scripts : Edited(f) \/ Import(f)
             \/ OpenGenerate \/ Generate \/ CloseGenerate
             \/ Upload \/ \E call \in calls : Uploaded(call) \/ UploadFails(call)
             \/ RemoveUpload
    <3>1. plan' = plan /\ list' = list
      BY <2>3 DEF Select, StartRename, CommitRename, Type, CancelDelete, CancelKey, Asks, Run,
                  CommandEnds, Promote, Toggle, SetMode, SeedAnswered, FileAnswered, Edited, Edit,
                  Import, OpenGenerate, Generate, CloseGenerate, Upload, Uploaded, UploadFails,
                  RemoveUpload, Authors, UnchangedPlan
    <3>2. LivesKept
      BY <2>3, LivesSteps
    <3>. QED
      BY <2>a, <3>1, <3>2, ClonesKept
  <2>. QED
    BY <2>1, <2>2, <2>3, PlanStepsClones DEF Next
<1>. QED
  BY <1>1, <1>2, TypeInvariant, PlanInvariant, PTL DEF Spec

-----------------------------------------------------------------------------
\* The uploads.

\* Two calls that are awaited after a step are two that the step leaves awaited.
Same(old, call) ==
    /\ call.kind = old.kind /\ call.node = old.node
    /\ old.kind # "command" => call.seen = old.seen /\ call.file = old.file
LEMMA CallsContinue ==
    ASSUME NEW c, NEW s, NEW p, NEW cs \in SUBSET Calls, Shows(c, s, p, cs),
           NEW call \in calls', NEW other \in calls'
    PROVE  \E old, older \in cs : /\ Same(old, call) /\ Same(older, other)
                                  /\ old = older => call = other
  <1>. DEFINE Here(old) == IF old.kind = "command" THEN HasCommands(c, s) ELSE HasIsoPanel(c, s)
  <1>1. PICK old \in cs : call = [old EXCEPT !.mine = @ /\ Here(old)]
    BY DEF Shows
  <1>2. PICK older \in cs : other = [older EXCEPT !.mine = @ /\ Here(older)]
    BY DEF Shows
  <1>3. Here(old) \in BOOLEAN /\ Here(older) \in BOOLEAN
    BY DEF HasCommands, HasIsoPanel
  <1>4. old = older => call = other
    BY <1>1, <1>2
  <1>. HIDE DEF Here
  <1>5. Same(old, call) /\ Same(older, other)
    BY <1>1, <1>2, <1>3, CallShown DEF Same
  <1>. QED
    BY <1>4, <1>5

LEMMA AwaitedShown ==
    ASSUME NEW c, NEW s, NEW p, NEW cs \in SUBSET Calls, Shows(c, s, p, cs),
           NEW d, NEW kept, NEW ups, Awaited(cs, d, kept, ups)
    PROVE  Awaited(calls', d, kept, ups)
  <1>. SUFFICES ASSUME NEW call \in calls', IsUpload(call)
                PROVE  Fresh(call, calls', d, kept, ups) /\ Replaces(call, d, ups)
    BY DEF Awaited
  <1>1. PICK old \in cs : Same(old, call)
    BY CallsContinue
  <1>2. IsUpload(old) /\ call.file = old.file /\ call.seen = old.seen /\ call.node = old.node
    BY <1>1 DEF Same, IsUpload
  <1>3. Fresh(old, cs, d, kept, ups) /\ Replaces(old, d, ups)
    BY <1>2 DEF Awaited
  <1>4. ASSUME NEW other \in calls', IsUpload(other)
        PROVE  /\ call.file # other.seen.isoId
               /\ call.node = other.node \/ call.file = other.file => call = other
    <2>1. PICK o1, o2 \in cs : /\ Same(o1, call) /\ Same(o2, other)
                               /\ o1 = o2 => call = other
      BY CallsContinue
    <2>2. /\ IsUpload(o1) /\ call.file = o1.file /\ call.node = o1.node
          /\ IsUpload(o2) /\ other.file = o2.file /\ other.seen = o2.seen /\ other.node = o2.node
      BY <1>4, <2>1 DEF Same, IsUpload
    <2>3. Fresh(o1, cs, d, kept, ups)
      BY <2>2 DEF Awaited
    <2>. QED
      BY <2>1, <2>2, <2>3 DEF Fresh
  <1>. QED
    BY <1>2, <1>3, <1>4 DEF Fresh, Replaces

\* Cards that keep their uploads, and become no card before a machine.
LEMMA MatchedSame ==
    ASSUME NEW c, NEW d, NEW st, NEW sw, NEW ups, Matched(c, st, sw, ups), d.nodes = c.nodes,
           \A n \in c.nodes : Id(d, n) = Id(c, n) /\ (Live(d, n) => Live(c, n))
    PROVE  Matched(d, st, sw, ups)
  <1>1. UploadsOf(d) = UploadsOf(c)
    BY DEF UploadsOf, Id
  <1>. QED
    BY <1>1 DEF Matched

LEMMA AwaitedSame ==
    ASSUME NEW cs, NEW c, NEW kept, NEW ups, Awaited(cs, c, kept, ups),
           NEW cs2, \A call \in cs2 : IsUpload(call) => call \in cs,
           NEW d, d.nodes \subseteq c.nodes, \A n \in d.nodes : Id(d, n) = Id(c, n),
           NEW kept2, kept2 \subseteq kept
    PROVE  Awaited(cs2, d, kept2, ups)
  <1>. SUFFICES ASSUME NEW call \in cs2, IsUpload(call)
                PROVE  Fresh(call, cs2, d, kept2, ups) /\ Replaces(call, d, ups)
    BY DEF Awaited
  <1>1. Fresh(call, cs, c, kept, ups) /\ Replaces(call, c, ups)
    BY DEF Awaited
  <1>2. Fresh(call, cs2, d, kept2, ups)
    BY <1>1 DEF Fresh
  <1>3. Replaces(call, d, ups)
    BY <1>1 DEF Replaces
  <1>. QED
    BY <1>2, <1>3

LEMMA OwnedSame ==
    ASSUME NEW c, NEW d, NEW ids, Owned(c, ids), d.nodes = c.nodes,
           \A n \in c.nodes : Id(d, n) = Id(c, n),
           NEW less, less \subseteq ids
    PROVE  Owned(d, less)
  BY DEF Owned

\* A step that uploads nothing.
NoUpload ==
    \E c, s, p : \E cs \in SUBSET Calls :
        Shows(c, s, p, cs) /\ \A call \in cs : IsUpload(call) => call \in calls
SameIds ==
    /\ canvas'.nodes = canvas.nodes
    /\ \A n \in canvas.nodes : /\ Id(canvas', n) = Id(canvas, n)
                               /\ Live(canvas', n) => Live(canvas, n)

LEMMA UploadsKept ==
    ASSUME UploadInv, NoUpload, SameIds, UNCHANGED <<stored, swept, leaked, uploads, raced>>,
           Supplied(plan, stored \cup swept) => Supplied(plan', stored \cup swept)
    PROVE  UploadInv'
  <1>. SUFFICES ASSUME ~raced PROVE /\ Matched(canvas, stored, swept, uploads)'
                                    /\ Owned(canvas, stored \ leaked)'
                                    /\ Awaited(calls, canvas, stored \cup swept, uploads)'
                                    /\ Supplied(plan, stored \cup swept)'
    BY DEF UploadInv
  <1>1. /\ Matched(canvas, stored, swept, uploads) /\ Owned(canvas, stored \ leaked)
        /\ Awaited(calls, canvas, stored \cup swept, uploads)
        /\ Supplied(plan, stored \cup swept)
    BY DEF UploadInv
  <1>2. Matched(canvas', stored, swept, uploads)
    BY <1>1, MatchedSame DEF SameIds
  <1>3. PICK c, s, p : \E cs \in SUBSET Calls :
            Shows(c, s, p, cs) /\ \A call \in cs : IsUpload(call) => call \in calls
    BY DEF NoUpload
  <1>4. PICK cs \in SUBSET Calls :
            Shows(c, s, p, cs) /\ \A call \in cs : IsUpload(call) => call \in calls
    BY <1>3
  <1>5. Awaited(cs, canvas', stored \cup swept, uploads)
    <2>1. canvas'.nodes \subseteq canvas.nodes
          /\ \A n \in canvas'.nodes : Id(canvas', n) = Id(canvas, n)
      BY DEF SameIds
    <2>. QED
      BY <1>1, <1>4, <2>1, AwaitedSame
  <1>6. Awaited(calls', canvas', stored \cup swept, uploads)
    BY <1>4, <1>5, AwaitedShown
  <1>7. Supplied(plan', stored \cup swept)
    BY <1>1
  <1>8. Owned(canvas', stored \ leaked)
    BY <1>1, OwnedSame DEF SameIds
  <1>. QED
    BY <1>2, <1>6, <1>7, <1>8

\* The steps that upload nothing, with what they leave awaited.
LEMMA NoUploadSteps ==
    ASSUME TypeInv,
           \/ \E n \in Cards \cup {None} : Select(n)
           \/ StartRename \/ \E x \in Names : CommitRename(x)
           \/ \E v \in Values : Type(v)
           \/ Configure \/ DeleteButton \/ ConfirmDelete \/ CancelDelete
           \/ DeleteKey \/ ConfirmKey \/ CancelKey \/ Undo
           \/ Run \/ \E call \in calls : CommandEnds(call)
           \/ Deploy \/ PlanRefused \/ \E old \in SUBSET stored : PlanStarts(old)
           \/ \E p \in plan, ok \in BOOLEAN : CloneEnds(p, ok)
           \/ PlanEnds \/ \E n \in Cards : Promote(n)
           \/ Toggle \/ \E mode \in Modes : SetMode(mode)
           \/ \E call \in calls, ok \in BOOLEAN : SeedAnswered(call, ok) \/ FileAnswered(call, ok)
           \/ \E f \in Scripts : Edited(f) \/ Import(f)
           \/ OpenGenerate \/ Generate \/ CloseGenerate
           \/ \E call \in calls : UploadFails(call)
           \/ RemoveUpload
    PROVE  NoUpload
  <1>a. calls \in SUBSET Calls /\ canvas \in Canvases
    BY DEF TypeInv, ShownTypes
  <1>b. HasIsoPanel(canvas, selected) \/ HasCommands(canvas, selected) => selected \in Cards
    BY <1>a DEF HasIsoPanel, HasCommands, Canvases
  <1>1. ASSUME NEW c, NEW s, NEW p, NEW cs \in SUBSET calls, Shows(c, s, p, cs)
        PROVE  NoUpload
    BY <1>a, <1>1 DEF NoUpload
  <1>2. ASSUME NEW c, NEW s, NEW p, NEW new \in Calls, ~IsUpload(new),
               Shows(c, s, p, calls \cup {new})
        PROVE  NoUpload
    BY <1>a, <1>2 DEF NoUpload
  <1>3. CASE \/ \E n \in Cards \cup {None} : Select(n)
             \/ StartRename \/ \E x \in Names : CommitRename(x)
             \/ \E v \in Values : Type(v)
             \/ Configure \/ Undo \/ \E call \in calls : CommandEnds(call)
             \/ \E n \in Cards : Promote(n)
             \/ CloseGenerate \/ \E call \in calls : UploadFails(call)
    <2>1. \E c, s, p : \E cs \in SUBSET calls : Shows(c, s, p, cs)
      BY <1>3 DEF Select, StartRename, CommitRename, Type, Configure, Undo, CommandEnds, Promote,
                  CloseGenerate, UploadFails
    <2>. QED
      BY <1>1, <2>1
  <1>4. CASE DeleteButton \/ ConfirmDelete \/ CancelDelete \/ DeleteKey \/ ConfirmKey \/ CancelKey
    <2>1. \E c, s, p : Shows(c, s, p, calls)
      BY <1>4 DEF DeleteButton, ConfirmDelete, CancelDelete, DeleteKey, ConfirmKey, CancelKey,
                  Asks, Removes
    <2>. QED
      BY <1>1, <2>1
  <1>5. CASE \/ Deploy \/ PlanRefused \/ \E old \in SUBSET stored : PlanStarts(old)
             \/ \E p \in plan, ok \in BOOLEAN : CloneEnds(p, ok)
             \/ PlanEnds
             \/ \E call \in calls, ok \in BOOLEAN : SeedAnswered(call, ok) \/ FileAnswered(call, ok)
    <2>1. \E c, s, p : \E cs \in SUBSET calls : Shows(c, s, p, cs)
      BY <1>5 DEF Deploy, PlanRefused, PlanStarts, CloneEnds, PlanEnds, SeedAnswered, FileAnswered
    <2>. QED
      BY <1>1, <2>1
  <1>6. ASSUME NEW iso, NEW p, Authors(iso, p, {}) PROVE NoUpload
    <2>1. \E c, s : Shows(c, s, p, calls \cup {})
      BY <1>6 DEF Authors
    <2>2. calls \cup {} \in SUBSET calls
      OBVIOUS
    <2>. QED
      BY <1>1, <2>1, <2>2
  <1>7. CASE \/ \E mode \in Modes : SetMode(mode)
             \/ \E f \in Scripts : Edited(f)
             \/ OpenGenerate \/ RemoveUpload
    BY <1>6, <1>7 DEF SetMode, Edited, Edit, OpenGenerate, RemoveUpload
  <1>8. CASE Run
    <2>. DEFINE new == [kind |-> "command", node |-> selected, mine |-> TRUE]
    <2>1. (\E p : Shows(canvas, selected, p, calls \cup {new})) /\ selected \in Cards
      BY <1>b, <1>8 DEF Run
    <2>2. new \in Calls /\ ~IsUpload(new)
      BY <2>1 DEF Calls, IsUpload
    <2>. HIDE DEF new
    <2>. QED
      BY <1>2, <2>1, <2>2
  <1>9. CASE Generate
    <2>. DEFINE new == Call("generate", Generated)
    <2>1. Shows(canvas, selected, panel, calls \cup {new}) /\ selected \in Cards
      BY <1>b, <1>9 DEF Generate, TypeInv, ShownTypes, Mounted
    <2>2. new \in Calls
      BY <1>a, <2>1, CallTypes, InspectorAssumption
    <2>3. ~IsUpload(new)
      BY DEF Call, IsUpload
    <2>. HIDE DEF new
    <2>. QED
      BY <1>2, <2>1, <2>2, <2>3
  <1>10. ASSUME NEW f \in Scripts, Import(f) PROVE NoUpload
    <2>. DEFINE new == Call("import", f)
    <2>1. (\E c, s, p : Shows(c, s, p, calls \cup {new})) /\ selected \in Cards
      BY <1>b, <1>10 DEF Import, Authors
    <2>2. new \in Calls
      BY <1>a, <2>1, CallTypes
    <2>3. ~IsUpload(new)
      BY DEF Call, IsUpload
    <2>. HIDE DEF new
    <2>. QED
      BY <1>2, <2>1, <2>2, <2>3
  <1>11. CASE Toggle
    <2>. DEFINE new == Call("seed", None)
    <2>1. selected \in Cards
      BY <1>b, <1>11 DEF Toggle
    <2>2. (\E iso, p : Authors(iso, p, {})) \/ (\E iso, p : Authors(iso, p, {new}))
      BY <1>11 DEF Toggle
    <2>3. new \in Calls
      BY <1>a, <2>1, CallTypes
    <2>4. ~IsUpload(new)
      BY DEF Call, IsUpload
    <2>. HIDE DEF new
    <2>5. ASSUME NEW iso, NEW p, Authors(iso, p, {new}) PROVE NoUpload
      BY <1>2, <2>3, <2>4, <2>5 DEF Authors
    <2>. QED
      BY <1>6, <2>2, <2>5
  <1>. QED
    BY <1>3, <1>4, <1>5, <1>7, <1>8, <1>9, <1>10, <1>11

\* The steps that leave the uploads of the cards alone.
LEMMA SameIdsSteps ==
    ASSUME TypeInv, PlanInv, CloneInv,
           \/ \E n \in Cards \cup {None} : Select(n)
           \/ StartRename \/ \E x \in Names : CommitRename(x)
           \/ \E v \in Values : Type(v)
           \/ Configure \/ CancelDelete \/ CancelKey \/ Undo
           \/ Run \/ \E call \in calls : CommandEnds(call)
           \/ Deploy \/ PlanRefused \/ \E old \in SUBSET stored : PlanStarts(old)
           \/ PlanEnds \/ \E n \in Cards : Promote(n)
           \/ Toggle \/ \E mode \in Modes : SetMode(mode)
           \/ \E call \in calls, ok \in BOOLEAN : SeedAnswered(call, ok) \/ FileAnswered(call, ok)
           \/ \E f \in Scripts : Edited(f) \/ Import(f)
           \/ OpenGenerate \/ Generate \/ CloseGenerate
           \/ Upload \/ \E call \in calls : UploadFails(call)
    PROVE  SameIds
  <1>a. /\ canvas \in Canvases /\ canvas.nodes \subseteq Cards /\ canvas.life \in [Cards -> Lives]
        /\ plan \subseteq Clones /\ list \in Seq(Cards)
    BY DEF TypeInv, ShownTypes, OtherTypes, Canvases
  <1>1. ASSUME canvas'.nodes = canvas.nodes, canvas'.vm = canvas.vm,
               \A n \in Cards : Id(canvas', n) = Id(canvas, n),
               \A n \in Cards : canvas'.life[n] \in Unused => canvas.life[n] \in Unused
        PROVE  SameIds
    BY <1>a, <1>1 DEF SameIds, Live
  <1>2. SameCards => /\ canvas'.nodes = canvas.nodes /\ canvas'.vm = canvas.vm
                     /\ \A n \in Cards : Id(canvas', n) = Id(canvas, n)
    BY DEF SameCards, Id, Iso
  <1>3. LivesKept => \A n \in Cards : canvas'.life[n] \in Unused => canvas.life[n] \in Unused
    BY DEF LivesKept
  <1>4. CASE \/ \E n \in Cards \cup {None} : Select(n)
             \/ StartRename \/ \E v \in Values : Type(v)
             \/ CancelDelete \/ CancelKey
             \/ Run \/ \E call \in calls : CommandEnds(call)
             \/ Deploy \/ PlanRefused \/ PlanEnds \/ \E n \in Cards : Promote(n)
             \/ Generate \/ CloseGenerate \/ \E call \in calls : UploadFails(call)
    <2>1. SameCards
      BY <1>4, QuietSteps
    <2>2. LivesKept
      BY <1>4, LivesSteps
    <2>. QED
      BY <1>1, <1>2, <1>3, <2>1, <2>2
  <1>5. ASSUME NEW x \in Names, CommitRename(x) PROVE SameIds
    <2>1. LivesKept
      BY <1>5, LivesSteps
    <2>2. canvas'.nodes = canvas.nodes /\ canvas'.vm = canvas.vm /\ canvas'.iso = canvas.iso
      BY <1>a, <1>5 DEF CommitRename, Shows, Renamed, Canvases
    <2>. QED
      BY <1>1, <1>3, <2>1, <2>2 DEF Id, Iso
  <1>6. CASE \/ Toggle \/ \E mode \in Modes : SetMode(mode)
             \/ \E call \in calls, ok \in BOOLEAN : SeedAnswered(call, ok) \/ FileAnswered(call, ok)
             \/ \E f \in Scripts : Edited(f) \/ Import(f)
             \/ OpenGenerate \/ Upload
    <2>1. LivesKept
      BY <1>6, LivesSteps
    <2>2. PICK n \in Cards, iso \in IsoRecords : Writes(n, iso) /\ iso.isoId = Iso(canvas, n).isoId
      BY <1>6, DiscWrites
    <2>3. /\ canvas'.nodes = canvas.nodes /\ canvas'.vm = canvas.vm
          /\ \A m \in Cards : m # n => Iso(canvas', m) = Iso(canvas, m)
          /\ Iso(canvas', n) \in {Iso(canvas, n), iso}
      BY <1>a, <2>2, WriteKeeps DEF Writes
    <2>4. \A m \in Cards : Id(canvas', m) = Id(canvas, m)
      BY <2>2, <2>3 DEF Id
    <2>. QED
      BY <1>1, <1>3, <2>1, <2>3, <2>4
  <1>7. CASE Configure
    <2>1. SameCards
      BY <1>7, QuietSteps
    <2>2. /\ canvas'.life = [canvas.life EXCEPT ![selected] = "staged"]
          /\ canvas.life[selected] \in {"draft", "failed"}
      BY <1>a, <1>7 DEF Configure, HasForm, Shows, Canvases
    <2>3. \A n \in Cards : canvas'.life[n] \in Unused => canvas.life[n] \in Unused
      BY <1>a, <2>2 DEF Unused
    <2>. QED
      BY <1>1, <1>2, <2>1, <2>3
  <1>8. CASE Undo
    <2>1. SameCards
      BY <1>8, QuietSteps
    <2>2. list # <<>> /\ canvas'.life = [canvas.life EXCEPT ![Last(list)] = "draft"]
      BY <1>a, <1>8 DEF Undo, Shows, Canvases
    <2>3. canvas.life[Last(list)] \in Unused
      <3>1. Last(list) \in Range(list)
        BY <1>a, <2>2 DEF Last, Range
      <3>2. plan = {}
        BY <1>8 DEF Undo, PlanInv
      <3>. QED
        BY <3>1, <3>2 DEF CloneInv
    <2>4. \A n \in Cards : canvas'.life[n] \in Unused => canvas.life[n] \in Unused
      BY <1>a, <2>2, <2>3 DEF Unused
    <2>. QED
      BY <1>1, <1>2, <2>1, <2>4
  <1>9. ASSUME NEW old \in SUBSET stored, PlanStarts(old) PROVE SameIds
    <2>1. SameCards
      BY <1>9, QuietSteps
    <2>2. /\ canvas'.life = [n \in Cards |-> IF n \in {p.node : p \in plan} THEN "deploying"
                                             ELSE canvas.life[n]]
          /\ \A p \in plan : p.status = "sent"
      BY <1>a, <1>9 DEF PlanStarts, Sent, Shows, Canvases
    <2>3. \A p \in plan : canvas.life[p.node] \in Unused
      BY <2>2 DEF CloneInv
    <2>4. \A n \in Cards : canvas'.life[n] \in Unused => canvas.life[n] \in Unused
      BY <2>2, <2>3 DEF Unused
    <2>. QED
      BY <1>1, <1>2, <2>1, <2>4
  <1>. QED
    BY <1>4, <1>5, <1>6, <1>7, <1>8, <1>9

\* The steps that leave the uploads alone, on the cards and on the server.
LEMMA QuietUploads ==
    ASSUME TypeInv, PlanInv, CloneInv, UploadInv,
           \/ \E n \in Cards \cup {None} : Select(n)
           \/ StartRename \/ \E x \in Names : CommitRename(x)
           \/ \E v \in Values : Type(v)
           \/ Configure \/ CancelDelete \/ CancelKey \/ Undo
           \/ Run \/ \E call \in calls : CommandEnds(call)
           \/ PlanRefused \/ PlanEnds \/ \E n \in Cards : Promote(n)
           \/ Toggle \/ \E mode \in Modes : SetMode(mode)
           \/ \E call \in calls, ok \in BOOLEAN : SeedAnswered(call, ok) \/ FileAnswered(call, ok)
           \/ \E f \in Scripts : Edited(f) \/ Import(f)
           \/ OpenGenerate \/ Generate \/ CloseGenerate
    PROVE  UploadInv'
  <1>1. NoUpload
    BY NoUploadSteps
  <1>2. SameIds
    BY SameIdsSteps
  <1>3. UNCHANGED <<stored, swept, leaked, uploads, raced>> /\ plan' \in {plan, {}}
    BY DEF Select, StartRename, CommitRename, Type, Configure, CancelDelete, CancelKey, Asks, Undo,
           Run, CommandEnds, PlanRefused, PlanEnds, Promote, Toggle, SetMode, SeedAnswered,
           FileAnswered, Edited, Edit, Import, OpenGenerate, Generate, CloseGenerate,
           Authors, UnchangedPlan, UnchangedUploads
  <1>4. Supplied(plan, stored \cup swept) => Supplied(plan', stored \cup swept)
    BY <1>3 DEF Supplied
  <1>. QED
    BY <1>1, <1>2, <1>3, <1>4, UploadsKept

\* A plan is sent with uploads that its cards have.
LEMMA DeployUploads ==
    ASSUME TypeInv, PlanInv, CloneInv, UploadInv, Deploy
    PROVE  UploadInv'
  <1>1. NoUpload /\ SameIds
    BY NoUploadSteps, SameIdsSteps
  <1>2. UNCHANGED <<stored, swept, leaked, uploads, raced>>
    BY DEF Deploy, UnchangedUploads
  <1>3. CASE raced
    BY <1>2, <1>3 DEF UploadInv
  <1>4. CASE ~raced
    <2>1. ASSUME NEW n \in Range(list)
          PROVE  Disc(Iso(canvas, n)).isoId \in stored \cup swept \cup {None}
      <3>1. n \in canvas.nodes /\ canvas.life[n] \in Unused
        BY DEF Deploy, PlanInv, CloneInv, Range
      <3>2. Id(canvas, n) \in stored \cup swept \cup {None}
        BY <1>4, <3>1 DEF UploadInv, Matched, Live
      <3>3. Disc(Iso(canvas, n)).isoId \in {Id(canvas, n), None}
        BY DEF Disc, Id
      <3>. QED
        BY <3>2, <3>3
    <2>2. ASSUME NEW p \in plan' PROVE p.disc.isoId \in stored \cup swept \cup {None}
      <3>1. PICK n \in Range(list) :
                p = [node |-> n, name |-> canvas.name[n], disc |-> Disc(Iso(canvas, n)),
                     status |-> "sent"]
        BY DEF Deploy
      <3>2. p.disc = Disc(Iso(canvas, n))
        BY <3>1
      <3>. QED
        BY <2>1, <3>2
    <2>3. Supplied(plan', stored \cup swept)
      BY <2>2 DEF Supplied
    <2>. QED
      BY <1>1, <1>2, <2>3, UploadsKept
  <1>. QED
    BY <1>3, <1>4

\* Old uploads are swept.
LEMMA SweepUploads ==
    ASSUME TypeInv, PlanInv, CloneInv, UploadInv, NEW old \in SUBSET stored, PlanStarts(old)
    PROVE  UploadInv'
  <1>1. NoUpload /\ SameIds
    BY NoUploadSteps, SameIdsSteps
  <1>2. /\ stored' = stored \ old /\ swept' = swept \cup old /\ uploads' = uploads
        /\ leaked' = leaked /\ raced' = raced /\ plan' = {[p EXCEPT !.status = "running"] : p \in plan}
        /\ stored' \cup swept' = stored \cup swept /\ \A p \in plan : p.status = "sent"
    BY DEF PlanStarts, Sent
  <1>. SUFFICES ASSUME ~raced PROVE UploadInv'
    BY <1>2 DEF UploadInv
  <1>3. /\ Matched(canvas, stored, swept, uploads) /\ Owned(canvas, stored \ leaked)
        /\ Awaited(calls, canvas, stored \cup swept, uploads)
        /\ Supplied(plan, stored \cup swept)
    BY DEF UploadInv
  <1>4. Matched(canvas', stored', swept', uploads')
    <2>1. Matched(canvas', stored, swept, uploads)
      BY <1>1, <1>3, MatchedSame DEF SameIds
    <2>. QED
      BY <1>2, <2>1 DEF Matched
  <1>5. Awaited(calls', canvas', stored' \cup swept', uploads')
    <2>1. PICK c, s, p : \E cs \in SUBSET Calls :
              Shows(c, s, p, cs) /\ \A call \in cs : IsUpload(call) => call \in calls
      BY <1>1 DEF NoUpload
    <2>2. PICK cs \in SUBSET Calls :
              Shows(c, s, p, cs) /\ \A call \in cs : IsUpload(call) => call \in calls
      BY <2>1
    <2>3. canvas'.nodes \subseteq canvas.nodes
          /\ \A n \in canvas'.nodes : Id(canvas', n) = Id(canvas, n)
      BY <1>1 DEF SameIds
    <2>4. Awaited(cs, canvas', stored \cup swept, uploads)
      BY <1>3, <2>2, <2>3, AwaitedSame
    <2>5. Awaited(calls', canvas', stored \cup swept, uploads)
      BY <2>2, <2>4, AwaitedShown
    <2>. QED
      BY <1>2, <2>5
  <1>6. Supplied(plan', stored' \cup swept')
    <2>1. ASSUME NEW p \in plan' PROVE p.disc.isoId \in stored \cup swept \cup {None}
      <3>1. PICK q \in plan : p = [q EXCEPT !.status = "running"]
        BY <1>2
      <3>2. q \in Clones
        BY DEF TypeInv, OtherTypes
      <3>3. p.disc = q.disc
        BY <3>1, <3>2 DEF Clones
      <3>. QED
        BY <1>2, <1>3, <3>3 DEF Supplied
    <2>. QED
      BY <1>2, <2>1 DEF Supplied
  <1>7. Owned(canvas', stored' \ leaked')
    BY <1>1, <1>2, <1>3, OwnedSame DEF SameIds
  <1>. QED
    BY <1>4, <1>5, <1>6, <1>7 DEF UploadInv

\* The upload of one card is deleted, with the card, with what the card has of it, or when its
\* clone is done.
LEMMA MatchedDropped ==
    ASSUME NEW c, NEW st, NEW sw, NEW ups, Matched(c, st, sw, ups),
           NEW d, NEW n \in c.nodes, d.nodes \subseteq c.nodes,
           \A m \in d.nodes \ {n} : Id(d, m) = Id(c, m) /\ (Live(d, m) => Live(c, m)),
           n \in d.nodes => Id(d, n) = None \/ (Id(d, n) = Id(c, n) /\ ~Live(d, n)),
           NEW gone \in {Id(c, n), None}, NEW st2, st \ {gone} \subseteq st2, st2 \subseteq st
    PROVE  Matched(d, st2, sw, ups)
  <1>1. ASSUME NEW m \in d.nodes, Live(d, m)
        PROVE  Id(d, m) \in st2 \cup sw \cup {None}
    <2>1. CASE m = n
      BY <1>1, <2>1
    <2>2. CASE m # n
      BY <1>1, <2>2 DEF Matched
    <2>. QED
      BY <2>1, <2>2
  <1>2. ASSUME NEW m \in d.nodes, NEW k \in d.nodes, m # k, Id(d, m) # None
        PROVE  Id(d, m) # Id(d, k)
    <2>1. Id(d, m) = Id(c, m) /\ Id(d, k) \in {Id(c, k), None}
      BY <1>2
    <2>. QED
      BY <1>2, <2>1 DEF Matched
  <1>3. UploadsOf(d) \subseteq UploadsOf(c)
    <2>. SUFFICES ASSUME NEW m \in d.nodes, Id(d, m) # None
                  PROVE  Id(d, m) \in UploadsOf(c)
      BY DEF UploadsOf, Id
    <2>1. Id(d, m) = Id(c, m) /\ m \in c.nodes
      OBVIOUS
    <2>. QED
      BY <2>1 DEF UploadsOf, Id
  <1>. QED
    BY <1>1, <1>2, <1>3 DEF Matched

LEMMA AwaitedDropped ==
    ASSUME NEW cs, NEW c, NEW kept, NEW ups, Awaited(cs, c, kept, ups), None \notin 1..ups,
           NEW d, d.nodes \subseteq c.nodes, \A m \in d.nodes : Id(d, m) \in {Id(c, m), None},
           NEW kept2, kept2 \subseteq kept
    PROVE  Awaited(cs, d, kept2, ups)
  <1>. SUFFICES ASSUME NEW call \in cs, IsUpload(call)
                PROVE  Fresh(call, cs, d, kept2, ups) /\ Replaces(call, d, ups)
    BY DEF Awaited
  <1>1. Fresh(call, cs, c, kept, ups) /\ Replaces(call, c, ups)
    BY DEF Awaited
  <1>2. Fresh(call, cs, d, kept2, ups)
    <2>1. \A m \in d.nodes : Id(d, m) # call.file
      BY <1>1 DEF Fresh
    <2>. QED
      BY <1>1, <2>1 DEF Fresh
  <1>3. Replaces(call, d, ups)
    <2>1. CASE call.node \in d.nodes
      <3>1. Id(d, call.node) \in {call.seen.isoId, None}
        BY <1>1, <2>1 DEF Replaces
      <3>2. ASSUME NEW m \in d.nodes \ {call.node}, Id(d, m) # None
            PROVE  Id(d, m) # call.seen.isoId
        BY <1>1, <2>1, <3>2 DEF Replaces
      <3>. QED
        BY <1>1, <3>1, <3>2 DEF Replaces
    <2>2. CASE call.node \notin d.nodes
      BY <1>1, <2>2 DEF Replaces
    <2>. QED
      BY <2>1, <2>2
  <1>. QED
    BY <1>2, <1>3

\* None is no upload.
LEMMA NoneStored ==
    ASSUME TypeInv
    PROVE  None \notin stored /\ None \notin 1..uploads /\ None \notin Isos
  <1>1. None \notin Nat
    BY InspectorAssumption
  <1>2. uploads \in Nat /\ MaxUploads \in Nat /\ stored \subseteq 1..MaxUploads
    BY InspectorAssumption DEF TypeInv, OtherTypes, Isos
  <1>3. 1..uploads \subseteq Nat /\ 1..MaxUploads \subseteq Nat
    BY <1>2
  <1>. QED
    BY <1>1, <1>2, <1>3 DEF Isos

\* A step that deletes the upload of a card.
LEMMA DropUploads ==
    ASSUME TypeInv, UploadInv, NoUpload, UNCHANGED <<swept, uploads, raced>>,
           NEW n \in canvas.nodes, NEW gone \in {Id(canvas, n), None}, Deletes(stored, {gone}),
           canvas'.nodes \subseteq canvas.nodes, canvas.nodes \ {n} \subseteq canvas'.nodes,
           \A m \in canvas'.nodes \ {n} : /\ Id(canvas', m) = Id(canvas, m)
                                          /\ Live(canvas', m) => Live(canvas, m),
           n \in canvas'.nodes => \/ Id(canvas', n) = None
                                  \/ Id(canvas', n) = Id(canvas, n) /\ ~Live(canvas', n),
           gone = Id(canvas, n) \/ (n \in canvas'.nodes /\ Id(canvas', n) = Id(canvas, n)),
           Supplied(plan, stored \cup swept) => Supplied(plan', stored' \cup swept)
    PROVE  UploadInv'
  <1>. SUFFICES ASSUME ~raced PROVE UploadInv'
    BY DEF UploadInv
  <1>1. /\ Matched(canvas, stored, swept, uploads) /\ Owned(canvas, stored \ leaked)
        /\ Awaited(calls, canvas, stored \cup swept, uploads)
        /\ Supplied(plan, stored \cup swept)
    BY DEF UploadInv
  <1>a. /\ stored' \subseteq stored /\ stored \ {gone} \subseteq stored'
        /\ stored' \ leaked' \subseteq (stored \ leaked) \ {gone}
    BY DeletesSome
  <1>2. Matched(canvas', stored', swept, uploads)
    BY <1>1, <1>a, MatchedDropped
  <1>3. Awaited(calls', canvas', stored' \cup swept, uploads)
    <2>1. PICK c, s, p : \E cs \in SUBSET Calls :
              Shows(c, s, p, cs) /\ \A call \in cs : IsUpload(call) => call \in calls
      BY DEF NoUpload
    <2>2. PICK cs \in SUBSET Calls :
              Shows(c, s, p, cs) /\ \A call \in cs : IsUpload(call) => call \in calls
      BY <2>1
    <2>3. Awaited(cs, canvas, stored \cup swept, uploads)
      BY <1>1, <2>2, AwaitedSame
    <2>4. \A m \in canvas'.nodes : Id(canvas', m) \in {Id(canvas, m), None}
      OBVIOUS
    <2>5. stored' \cup swept \subseteq stored \cup swept /\ None \notin 1..uploads
      BY <1>a, NoneStored
    <2>6. Awaited(cs, canvas', stored' \cup swept, uploads)
      BY <2>3, <2>4, <2>5, AwaitedDropped
    <2>. QED
      BY <2>2, <2>6, AwaitedShown
  <1>4. ASSUME NEW id \in stored' \ leaked' PROVE \E m \in canvas'.nodes : Id(canvas', m) = id
    <2>1. id \in stored \ leaked /\ id # gone
      BY <1>a
    <2>2. PICK m \in canvas.nodes : Id(canvas, m) = id
      BY <1>1, <2>1 DEF Owned
    <2>3. m # n => m \in canvas'.nodes /\ Id(canvas', m) = id
      BY <2>2
    <2>4. m = n => n \in canvas'.nodes /\ Id(canvas', n) = id
      BY <2>1, <2>2
    <2>. QED
      BY <2>3, <2>4
  <1>. QED
    BY <1>1, <1>2, <1>3, <1>4 DEF UploadInv, Owned

\* A card is removed with its upload.
LEMMA RemovalUploads ==
    ASSUME TypeInv, PlanInv, UploadInv, NoUpload, NEW n \in canvas.nodes, NEW p, Removes(n, p),
           ~deploying
    PROVE  UploadInv'
  <1>1. /\ canvas'.nodes = canvas.nodes \ {n} /\ canvas'.vm = canvas.vm
        /\ canvas'.iso = canvas.iso /\ canvas'.life = canvas.life
    BY DEF TypeInv, ShownTypes, Canvases, Removes, Shows
  <1>2. \A m \in canvas'.nodes \ {n} : /\ Id(canvas', m) = Id(canvas, m)
                                       /\ Live(canvas', m) => Live(canvas, m)
    BY <1>1 DEF Id, Iso, Live
  <1>3. /\ Deletes(stored, {Id(canvas, n)}) /\ UNCHANGED <<swept, uploads, raced>>
        /\ plan' = {}
    BY DEF Removes, UnchangedPlan, Id, PlanInv
  <1>4. Supplied(plan', stored' \cup swept)
    BY <1>3 DEF Supplied
  <1>. QED
    BY <1>1, <1>2, <1>3, <1>4, DropUploads

\* The upload of a card is removed.
LEMMA RemoveUploadUploads ==
    ASSUME TypeInv, PlanInv, UploadInv, RemoveUpload
    PROVE  UploadInv'
  <1>a. NoUpload
    BY NoUploadSteps
  <1>b. canvas \in Canvases /\ selected \in canvas.nodes /\ canvas.nodes \subseteq Cards
        /\ ~deploying
    BY DEF TypeInv, ShownTypes, Canvases, RemoveUpload, Authored, HasIsoPanel, Authors
  <1>. DEFINE iso == [Iso(canvas, selected) EXCEPT !.isoId = None]
  <1>1. Iso(canvas, selected) \in IsoRecords /\ selected \in Cards
    BY <1>b, IsoTypes
  <1>2. iso \in IsoRecords /\ iso.isoId = None
    BY <1>1 DEF IsoRecords
  <1>3. /\ canvas' = SetIsoAuthoring(selected, iso) /\ Deletes(stored, {Id(canvas, selected)})
        /\ UNCHANGED <<swept, uploads, raced>> /\ plan' = {}
    BY <1>b DEF RemoveUpload, Authors, Shows, UnchangedPlan, Id, PlanInv
  <1>. HIDE DEF iso
  <1>4. /\ canvas'.nodes = canvas.nodes /\ canvas'.vm = canvas.vm
        /\ \A m \in Cards : m # selected => Iso(canvas', m) = Iso(canvas, m)
        /\ Iso(canvas', selected) = iso
    BY <1>b, <1>1, <1>2, <1>3, WriteKeeps
  <1>5. LivesKept
    BY LivesSteps
  <1>6. \A m \in canvas'.nodes \ {selected} : /\ Id(canvas', m) = Id(canvas, m)
                                              /\ Live(canvas', m) => Live(canvas, m)
    BY <1>b, <1>4, <1>5 DEF Id, Live, LivesKept
  <1>7. Id(canvas', selected) = None
    BY <1>2, <1>4 DEF Id
  <1>8. Supplied(plan', stored' \cup swept)
    BY <1>3 DEF Supplied
  <1>. QED
    BY <1>a, <1>b, <1>3, <1>4, <1>6, <1>7, <1>8, DropUploads

\* A clone ends, and has used its upload up if it is done.
LEMMA CloneUploads ==
    ASSUME TypeInv, PlanInv, CloneInv, UploadInv, NEW p \in plan, NEW ok \in BOOLEAN,
           CloneEnds(p, ok)
    PROVE  UploadInv'
  <1>. DEFINE new == [p EXCEPT !.status = IF ok THEN "done" ELSE "error"]
              gone == p.disc.isoId
  <1>a. /\ canvas \in Canvases /\ canvas.nodes \subseteq Cards /\ p \in Clones
        /\ p.node \in canvas.nodes /\ p.disc = Disc(Iso(canvas, p.node))
    BY DEF TypeInv, ShownTypes, OtherTypes, Canvases, PlanInv, PlanMatchesPanel
  <1>b. NoUpload
    BY NoUploadSteps
  <1>1. /\ plan' = (plan \ {p}) \cup {new} /\ p.status = "running"
        /\ UNCHANGED <<swept, uploads, raced>>
        /\ Deletes(stored, IF ok THEN {gone} ELSE {})
    BY DEF CloneEnds
  <1>2. new.disc = p.disc /\ new.status = IF ok THEN "done" ELSE "error"
    BY <1>a DEF Clones
  <1>3. gone \in {Id(canvas, p.node), None}
    BY <1>a DEF Disc, Id
  <1>. HIDE DEF new, gone
  <1>4. /\ canvas'.nodes = canvas.nodes /\ canvas'.iso = canvas.iso
        /\ \A m \in Cards \ {p.node} :
              canvas'.vm[m] = canvas.vm[m] /\ canvas'.life[m] = canvas.life[m]
        /\ ok => canvas'.vm[p.node] = p.name /\ canvas'.life[p.node] = "provisioning"
        /\ ~ok => canvas'.vm[p.node] = canvas.vm[p.node] /\ canvas'.life[p.node] = "failed"
    BY <1>a DEF CloneEnds, Shows, Canvases
  <1>5. \A m \in canvas.nodes : Id(canvas', m) = Id(canvas, m)
    BY <1>4 DEF Id, Iso
  <1>6. \A m \in canvas.nodes \ {p.node} : Live(canvas', m) => Live(canvas, m)
    BY <1>a, <1>4 DEF Live
  <1>7. CASE ok
    <2>1. ~Live(canvas', p.node)
      <3>1. p.name # None
        BY <1>a, InspectorAssumption DEF Clones
      <3>. QED
        BY <1>4, <1>7, <3>1 DEF Live, Unused
    <2>. SUFFICES ASSUME ~raced PROVE UploadInv'
      BY <1>1 DEF UploadInv
    <2>2. ASSUME Supplied(plan, stored \cup swept), NEW q \in plan', q.status # "done"
          PROVE  q.disc.isoId \in stored' \cup swept \cup {None}
      <3>1. q \in plan /\ q # p
        BY <1>1, <1>2, <1>7, <2>2
      <3>2. q.node # p.node /\ q.node \in canvas.nodes /\ q.disc = Disc(Iso(canvas, q.node))
        BY <3>1 DEF CloneInv, PlanInv, PlanMatchesPanel
      <3>3. q.disc.isoId \in {Id(canvas, q.node), None}
        BY <3>2 DEF Disc, Id
      <3>4. q.disc.isoId \in stored \cup swept \cup {None}
        BY <2>2, <3>1 DEF Supplied
      <3>5. q.disc.isoId # None => q.disc.isoId # gone
        BY <1>3, <1>a, <3>2, <3>3 DEF UploadInv, Matched
      <3>6. stored \ {gone} \subseteq stored'
        BY <1>1, <1>7, DeletesSome
      <3>. QED
        BY <3>4, <3>5, <3>6
    <2>3. Supplied(plan, stored \cup swept) => Supplied(plan', stored' \cup swept)
      BY <2>2 DEF Supplied
    <2>4. Deletes(stored, {gone})
      BY <1>1, <1>7
    <2>5. \A m \in canvas'.nodes \ {p.node} : /\ Id(canvas', m) = Id(canvas, m)
                                              /\ Live(canvas', m) => Live(canvas, m)
      BY <1>4, <1>5, <1>6
    <2>6. Id(canvas', p.node) = Id(canvas, p.node) /\ p.node \in canvas'.nodes
      BY <1>a, <1>4, <1>5
    <2>7. UNCHANGED <<swept, uploads, raced>>
      BY <1>1
    <2>. QED
      BY <1>a, <1>b, <1>3, <1>4, <2>1, <2>3, <2>4, <2>5, <2>6, <2>7, DropUploads
  <1>8. CASE ~ok
    <2>1. UNCHANGED <<stored, swept, leaked, uploads, raced>>
      BY <1>1, <1>8 DEF Deletes
    <2>2. Live(canvas, p.node)
      BY <1>1 DEF CloneInv, Live
    <2>3. SameIds
      BY <1>4, <1>5, <1>6, <2>2 DEF SameIds
    <2>4. Supplied(plan, stored \cup swept) => Supplied(plan', stored \cup swept)
      BY <1>1, <1>2 DEF Supplied
    <2>. QED
      BY <1>b, <2>1, <2>3, <2>4, UploadsKept
  <1>. QED
    BY <1>7, <1>8

\* An upload begins: it is a new one, and the only one of its card.
LEMMA AwaitedNew ==
    ASSUME NEW cs, NEW c, NEW st, NEW sw, NEW ups \in Nat, Matched(c, st, sw, ups),
           Awaited(cs, c, st \cup sw, ups), None \notin Nat,
           NEW new, new.file = ups + 1, new.node \in c.nodes, new.seen.isoId = Id(c, new.node),
           \A call \in cs : IsUpload(call) => call.node # new.node
    PROVE  Awaited(cs \cup {new}, c, st \cup sw, ups + 1)
  <1>1. /\ ups + 1 \notin 1..ups /\ 1..ups \subseteq 1..(ups + 1) /\ ups + 1 # None
        /\ ups + 1 \in 1..(ups + 1)
    BY SMT
  <1>2. \A n \in c.nodes : Id(c, n) \in (1..ups) \cup {None}
    BY DEF Matched, UploadsOf, Id
  <1>3. ASSUME NEW call \in cs, IsUpload(call)
        PROVE  /\ Fresh(call, cs \cup {new}, c, st \cup sw, ups + 1)
               /\ Replaces(call, c, ups + 1)
    <2>1. Fresh(call, cs, c, st \cup sw, ups) /\ Replaces(call, c, ups)
      BY <1>3 DEF Awaited
    <2>2. call.file # new.file /\ call.node # new.node /\ call.file # new.seen.isoId
      BY <1>1, <1>3, <2>1 DEF Fresh
    <2>3. Fresh(call, cs \cup {new}, c, st \cup sw, ups + 1)
      BY <1>1, <2>1, <2>2 DEF Fresh
    <2>4. Replaces(call, c, ups + 1)
      BY <1>1, <2>1 DEF Replaces
    <2>. QED
      BY <2>3, <2>4
  <1>4. Fresh(new, cs \cup {new}, c, st \cup sw, ups + 1)
    <2>1. ASSUME NEW other \in cs, IsUpload(other)
          PROVE  new.file # other.seen.isoId /\ new.node # other.node /\ new.file # other.file
      <3>1. Fresh(other, cs, c, st \cup sw, ups) /\ Replaces(other, c, ups)
        BY <2>1 DEF Awaited
      <3>. QED
        BY <1>1, <2>1, <3>1 DEF Fresh, Replaces
    <2>2. new.file # new.seen.isoId /\ \A n \in c.nodes : Id(c, n) # new.file
      BY <1>1, <1>2
    <2>3. new.file \in 1..(ups + 1) /\ new.file \notin st \cup sw
      BY <1>1 DEF Matched
    <2>. QED
      BY <2>1, <2>2, <2>3 DEF Fresh
  <1>5. Replaces(new, c, ups + 1)
    BY <1>1, <1>2 DEF Replaces, Matched
  <1>. QED
    BY <1>3, <1>4, <1>5 DEF Awaited

LEMMA BeginUploads ==
    ASSUME TypeInv, PlanInv, CloneInv, UploadInv, Upload
    PROVE  UploadInv'
  <1>. DEFINE new == Call("upload", uploads')
  <1>a. /\ canvas.nodes \subseteq Cards /\ canvas \in Canvases /\ calls \in SUBSET Calls
        /\ selected \in canvas.nodes /\ uploads \in Nat /\ uploads' = uploads + 1
        /\ uploads' \in Isos
    BY InspectorAssumption
    DEF TypeInv, ShownTypes, OtherTypes, Canvases, Upload, Authored, HasIsoPanel, Isos
  <1>1. SameIds
    BY SameIdsSteps
  <1>2. /\ UNCHANGED <<stored, swept, leaked, plan>>
        /\ raced' = (raced \/ \E call \in calls : call.node = selected /\ call.kind = "upload")
        /\ \E c, p : Shows(c, selected, p, calls \cup {new})
    BY DEF Upload, Authors, UnchangedPlan
  <1>3. new \in Calls
    BY <1>a, CallTypes
  <1>4. /\ new.file = uploads + 1 /\ new.node = selected
        /\ new.seen.isoId = Id(canvas, new.node) /\ IsUpload(new)
    BY <1>a DEF Call, Id, IsUpload
  <1>. HIDE DEF new
  <1>. SUFFICES ASSUME ~raced' PROVE UploadInv'
    BY DEF UploadInv
  <1>5. /\ Matched(canvas, stored, swept, uploads) /\ Owned(canvas, stored \ leaked)
        /\ Awaited(calls, canvas, stored \cup swept, uploads)
        /\ Supplied(plan, stored \cup swept)
    BY <1>2 DEF UploadInv
  <1>6. Matched(canvas', stored, swept, uploads')
    <2>1. Matched(canvas', stored, swept, uploads)
      BY <1>1, <1>5, MatchedSame DEF SameIds
    <2>2. 1..uploads \subseteq 1..uploads'
      BY <1>a
    <2>. QED
      BY <2>1, <2>2 DEF Matched
  <1>7. Awaited(calls \cup {new}, canvas, stored \cup swept, uploads')
    <2>1. \A call \in calls : IsUpload(call) => call.node # new.node
      BY <1>2, <1>4 DEF IsUpload
    <2>2. None \notin Nat
      BY InspectorAssumption
    <2>. QED
      BY <1>a, <1>4, <1>5, <2>1, <2>2, AwaitedNew
  <1>8. Awaited(calls', canvas', stored \cup swept, uploads')
    <2>1. canvas'.nodes \subseteq canvas.nodes
          /\ \A n \in canvas'.nodes : Id(canvas', n) = Id(canvas, n)
      BY <1>1 DEF SameIds
    <2>2. Awaited(calls \cup {new}, canvas', stored \cup swept, uploads')
      BY <1>7, <2>1, AwaitedSame
    <2>3. calls \cup {new} \in SUBSET Calls
      BY <1>a, <1>3
    <2>. QED
      BY <1>2, <2>2, <2>3, AwaitedShown
  <1>9. Owned(canvas', stored \ leaked)
    BY <1>1, <1>5, OwnedSame DEF SameIds
  <1>. QED
    BY <1>2, <1>5, <1>6, <1>8, <1>9 DEF UploadInv

\* The upload of a call is that of its card, in place of the one that the call saw.
LEMMA MatchedReplaced ==
    ASSUME NEW cs, NEW c, NEW st, NEW sw, NEW ups, Matched(c, st, sw, ups),
           Awaited(cs, c, st \cup sw, ups), None \notin 1..ups,
           NEW call \in cs, IsUpload(call), call.node \in c.nodes,
           NEW d, d.nodes = c.nodes, Id(d, call.node) = call.file,
           \A m \in c.nodes \ {call.node} : Id(d, m) = Id(c, m) /\ (Live(d, m) => Live(c, m)),
           NEW st2, st2 \subseteq st \cup {call.file},
           (st \cup {call.file}) \ {call.seen.isoId} \subseteq st2
    PROVE  Matched(d, st2, sw, ups) /\ Awaited(cs \ {call}, d, st2 \cup sw, ups)
  <1>. DEFINE n == call.node
  <1>1. Fresh(call, cs, c, st \cup sw, ups) /\ Replaces(call, c, ups)
    BY DEF Awaited
  <1>2. call.file # call.seen.isoId /\ call.file \in st2 /\ call.file \in 1..ups
    BY <1>1 DEF Fresh
  <1>3. \A m \in c.nodes \ {n} : Id(c, m) # None => Id(c, m) # call.seen.isoId
    BY <1>1 DEF Replaces
  <1>4. ASSUME NEW m \in d.nodes, Live(d, m) PROVE Id(d, m) \in st2 \cup sw \cup {None}
    <2>1. CASE m = n
      BY <1>2, <2>1
    <2>2. CASE m # n
      BY <1>3, <1>4, <2>2 DEF Matched
    <2>. QED
      BY <2>1, <2>2
  <1>5. ASSUME NEW m \in d.nodes, NEW k \in d.nodes, m # k, Id(d, m) # None
        PROVE  Id(d, m) # Id(d, k)
    <2>1. \A j \in c.nodes : Id(c, j) # call.file
      BY <1>1 DEF Fresh
    <2>. QED
      BY <1>5, <2>1 DEF Matched
  <1>6. st2 \cup sw \cup UploadsOf(d) \subseteq 1..ups
    <2>1. ASSUME NEW m \in d.nodes, Id(d, m) # None PROVE Id(d, m) \in 1..ups
      BY <1>2, <2>1 DEF Matched, UploadsOf, Id
    <2>2. UploadsOf(d) \subseteq 1..ups
      BY <2>1 DEF UploadsOf, Id
    <2>. QED
      BY <1>2, <2>2 DEF Matched
  <1>7. ASSUME NEW other \in cs \ {call}, IsUpload(other)
        PROVE  Fresh(other, cs \ {call}, d, st2 \cup sw, ups) /\ Replaces(other, d, ups)
    <2>1. Fresh(other, cs, c, st \cup sw, ups) /\ Replaces(other, c, ups)
      BY <1>7 DEF Awaited
    <2>2. other.file # call.file /\ other.node # n /\ call.file # other.seen.isoId
      BY <1>1, <1>7 DEF Fresh
    <2>3. \A m \in d.nodes : Id(d, m) # other.file
      BY <2>1, <2>2 DEF Fresh
    <2>4. Fresh(other, cs \ {call}, d, st2 \cup sw, ups)
      BY <2>1, <2>2, <2>3 DEF Fresh
    <2>5. ASSUME other.node \in d.nodes
          PROVE  /\ Id(d, other.node) \in {other.seen.isoId, None}
                 /\ \A m \in d.nodes \ {other.node} : Id(d, m) # None => Id(d, m) # other.seen.isoId
      BY <2>1, <2>2, <2>5 DEF Replaces
    <2>. QED
      BY <2>1, <2>4, <2>5 DEF Replaces
  <1>. QED
    BY <1>4, <1>5, <1>6, <1>7 DEF Matched, Awaited

LEMMA OwnedReplaced ==
    ASSUME NEW c, NEW st, NEW sw, NEW ups, Matched(c, st, sw, ups), None \notin 1..ups,
           NEW ids, ids \subseteq st, Owned(c, ids),
           NEW call, call.node \in c.nodes, Replaces(call, c, ups),
           NEW d, d.nodes = c.nodes, Id(d, call.node) = call.file,
           \A m \in c.nodes \ {call.node} : Id(d, m) = Id(c, m),
           NEW less, less \subseteq (ids \cup {call.file}) \ {call.seen.isoId}
    PROVE  Owned(d, less)
  <1>. SUFFICES ASSUME NEW id \in less PROVE \E m \in d.nodes : Id(d, m) = id
    BY DEF Owned
  <1>1. CASE id = call.file
    BY <1>1
  <1>2. CASE id # call.file
    <2>1. id \in ids /\ id # call.seen.isoId /\ id # None
      BY <1>2 DEF Matched
    <2>2. PICK m \in c.nodes : Id(c, m) = id
      BY <2>1 DEF Owned
    <2>3. m # call.node
      BY <2>1, <2>2 DEF Replaces
    <2>. QED
      BY <2>2, <2>3
  <1>. QED
    BY <1>1, <1>2

LEMMA AnsweredUploads ==
    ASSUME TypeInv, PlanInv, CloneInv, UploadInv, NEW call \in calls, Uploaded(call)
    PROVE  UploadInv'
  <1>. DEFINE iso == [Iso(canvas, call.node) EXCEPT !.isoId = call.file]
  <1>a. /\ canvas.nodes \subseteq Cards /\ canvas \in Canvases /\ calls \in SUBSET Calls
        /\ call.node \in Cards /\ call.file \in Isos /\ IsUpload(call)
        /\ Iso(canvas, call.node) \in IsoRecords
    BY CallFields, IsoTypes DEF TypeInv, ShownTypes, Canvases, Uploaded, IsUpload
  <1>1. iso \in IsoRecords /\ iso.isoId = call.file
    BY <1>a DEF IsoRecords
  <1>2. /\ canvas' = SetIsoAuthoring(call.node, iso)
        /\ \E p : Shows(canvas', selected, p, calls \ {call})
        /\ Deletes(stored \cup {call.file}, {call.seen.isoId})
        /\ raced' = (raced \/ deploying \/ call.node \notin canvas.nodes)
        /\ UNCHANGED <<swept, uploads, plan>>
    <2>1. \E p : Shows(SetIsoAuthoring(call.node, iso), selected, p, calls \ {call})
      BY DEF Uploaded
    <2>2. canvas' = SetIsoAuthoring(call.node, iso)
      BY <2>1 DEF Shows
    <2>. QED
      BY <2>1, <2>2 DEF Uploaded, Replaced, UnchangedPlan
  <1>. HIDE DEF iso
  <1>. SUFFICES ASSUME ~raced' PROVE UploadInv'
    BY DEF UploadInv
  <1>3. /\ Matched(canvas, stored, swept, uploads) /\ Owned(canvas, stored \ leaked)
        /\ Awaited(calls, canvas, stored \cup swept, uploads)
        /\ ~deploying /\ call.node \in canvas.nodes
    BY <1>2 DEF UploadInv
  <1>4. /\ canvas'.nodes = canvas.nodes /\ canvas'.vm = canvas.vm
        /\ \A m \in Cards : m # call.node => Iso(canvas', m) = Iso(canvas, m)
        /\ Iso(canvas', call.node) = iso
    BY <1>a, <1>1, <1>2, <1>3, WriteKeeps
  <1>5. LivesKept
    BY LivesSteps
  <1>6. /\ Id(canvas', call.node) = call.file
        /\ \A m \in canvas.nodes \ {call.node} : /\ Id(canvas', m) = Id(canvas, m)
                                                 /\ Live(canvas', m) => Live(canvas, m)
    BY <1>a, <1>1, <1>4, <1>5 DEF Id, Live, LivesKept
  <1>7. None \notin 1..uploads
    BY NoneStored
  <1>b. /\ stored' \subseteq stored \cup {call.file}
        /\ (stored \cup {call.file}) \ {call.seen.isoId} \subseteq stored'
        /\ stored' \ leaked' \subseteq
                ((stored \ leaked) \cup {call.file}) \ {call.seen.isoId}
    <2>1. stored' \ leaked' \subseteq ((stored \cup {call.file}) \ leaked) \ {call.seen.isoId}
      BY <1>2, DeletesSome
    <2>. QED
      BY <1>2, <2>1, DeletesSome
  <1>8. /\ Matched(canvas', stored', swept, uploads)
        /\ Awaited(calls \ {call}, canvas', stored' \cup swept, uploads)
    BY <1>a, <1>b, <1>2, <1>3, <1>4, <1>6, <1>7, MatchedReplaced
  <1>9. Awaited(calls', canvas', stored' \cup swept, uploads)
    <2>1. calls \ {call} \in SUBSET Calls
      BY <1>a
    <2>. QED
      BY <1>2, <1>8, <2>1, AwaitedShown
  <1>10. Supplied(plan', stored' \cup swept)
    BY <1>2, <1>3 DEF Supplied, PlanInv
  <1>11. Owned(canvas', stored' \ leaked')
    <2>1. Replaces(call, canvas, uploads)
      BY <1>a, <1>3 DEF Awaited
    <2>. QED
      BY <1>b, <1>3, <1>4, <1>6, <1>7, <2>1, OwnedReplaced
  <1>. QED
    BY <1>2, <1>8, <1>9, <1>10, <1>11 DEF UploadInv

\* An upload is refused, or is stored without an answer: it leaked then.
LEMMA FailedUploads ==
    ASSUME TypeInv, PlanInv, CloneInv, UploadInv, NEW call \in calls, UploadFails(call)
    PROVE  UploadInv'
  <1>a. calls \in SUBSET Calls /\ IsUpload(call)
    BY DEF TypeInv, ShownTypes, UploadFails, IsUpload
  <1>b. SameIds
    BY SameIdsSteps
  <1>1. PICK lost \in {{}, {call.file}} :
            stored' = stored \cup lost /\ leaked' = leaked \cup lost
    BY DEF UploadFails
  <1>2. /\ UNCHANGED <<swept, uploads, raced, plan>>
        /\ \E c, p : Shows(c, selected, p, calls \ {call})
    BY DEF UploadFails, UnchangedPlan
  <1>. SUFFICES ASSUME ~raced PROVE UploadInv'
    BY <1>2 DEF UploadInv
  <1>3. /\ Matched(canvas, stored, swept, uploads) /\ Owned(canvas, stored \ leaked)
        /\ Awaited(calls, canvas, stored \cup swept, uploads)
        /\ Supplied(plan, stored \cup swept)
    BY DEF UploadInv
  <1>4. Fresh(call, calls, canvas, stored \cup swept, uploads)
    BY <1>a, <1>3 DEF Awaited
  <1>5. Matched(canvas', stored', swept, uploads)
    <2>1. Matched(canvas', stored, swept, uploads)
      BY <1>b, <1>3, MatchedSame DEF SameIds
    <2>2. stored \subseteq stored' /\ stored' \subseteq stored \cup {call.file}
          /\ call.file \in 1..uploads
      BY <1>1, <1>4 DEF Fresh
    <2>. QED
      BY <2>1, <2>2 DEF Matched
  <1>6. Owned(canvas', stored' \ leaked')
    <2>1. stored' \ leaked' \subseteq stored \ leaked
      BY <1>1
    <2>. QED
      BY <1>b, <1>3, <2>1, OwnedSame DEF SameIds
  <1>7. Awaited(calls', canvas', stored' \cup swept, uploads)
    <2>1. canvas'.nodes \subseteq canvas.nodes
          /\ \A n \in canvas'.nodes : Id(canvas', n) = Id(canvas, n)
      BY <1>b DEF SameIds
    <2>2. Awaited(calls \ {call}, canvas', stored \cup swept, uploads)
      BY <1>3, <2>1, AwaitedSame
    <2>3. \A other \in calls \ {call} : IsUpload(other) => other.file # call.file
      BY <1>4 DEF Fresh
    <2>4. Awaited(calls \ {call}, canvas', stored' \cup swept, uploads)
      BY <1>1, <2>2, <2>3 DEF Awaited, Fresh
    <2>5. calls \ {call} \in SUBSET Calls
      BY <1>a
    <2>. QED
      BY <1>2, <2>4, <2>5, AwaitedShown
  <1>8. Supplied(plan', stored' \cup swept)
    BY <1>1, <1>2, <1>3 DEF Supplied
  <1>. QED
    BY <1>2, <1>5, <1>6, <1>7, <1>8 DEF UploadInv

\* Every step keeps the uploads those of the cards.
LEMMA UploadInvariant == Spec => []UploadInv
<1>1. Init => UploadInv
  <2>. SUFFICES ASSUME Init PROVE UploadInv
    OBVIOUS
  <2>1. IsStart(canvas) /\ stored = UploadsOf(canvas) /\ uploads = Cardinality(stored)
        /\ swept = {} /\ leaked = {} /\ plan = {} /\ calls = {}
    BY InspectorAssumption DEF Init
  <2>2. Matched(canvas, stored, swept, uploads)
    BY <2>1 DEF Matched, IsStart, UploadsOf, Id
  <2>3. Owned(canvas, stored \ leaked)
    BY <2>1 DEF Owned, UploadsOf, Id
  <2>. QED
    BY <2>1, <2>2, <2>3 DEF UploadInv, Awaited, Supplied
<1>2. TypeInv /\ PlanInv /\ CloneInv /\ UploadInv /\ [Next]_vars => UploadInv'
  <2>. SUFFICES ASSUME TypeInv, PlanInv, CloneInv, UploadInv, [Next]_vars PROVE UploadInv'
    OBVIOUS
  <2>1. CASE UNCHANGED vars
    BY <2>1 DEF vars, UploadInv
  <2>2. CASE DeleteButton \/ ConfirmDelete \/ DeleteKey \/ ConfirmKey
    <3>1. NoUpload
      BY <2>2, NoUploadSteps
    <3>2. ASSUME NEW n \in Cards, Removal(n) PROVE UploadInv'
      BY <3>1, <3>2, RemovalUploads DEF Removal
    <3>3. ASSUME NEW p \in Panels, Asks(p) PROVE UploadInv'
      <4>1. SameIds /\ UNCHANGED <<stored, swept, leaked, uploads, raced, plan>>
        BY <3>3 DEF Asks, Shows, SameIds, UnchangedPlan, UnchangedUploads
      <4>. QED
        BY <3>1, <4>1, UploadsKept
    <3>. QED
      BY <2>2, <3>2, <3>3, DeleteSteps
  <2>3. CASE \/ Deploy \/ Upload \/ RemoveUpload
             \/ \E old \in SUBSET stored : PlanStarts(old)
             \/ \E p \in plan, ok \in BOOLEAN : CloneEnds(p, ok)
             \/ \E call \in calls : Uploaded(call) \/ UploadFails(call)
    BY <2>3, DeployUploads, BeginUploads, RemoveUploadUploads, SweepUploads, CloneUploads,
       AnsweredUploads, FailedUploads
  <2>. QED
    BY <2>1, <2>2, <2>3, QuietUploads DEF Next
<1>. QED
  BY <1>1, <1>2, TypeInvariant, PlanInvariant, CloneInvariant, PTL DEF Spec

\* An upload that a card without a machine or a clone in flight refers to was not deleted by
\* the client, and one that is kept is that of a card unless it leaked, its deletion or the
\* answer to it lost (routers/iso.py 9-15, replaceUploadedIso, removeNodeCore), but for an
\* answer to a plan in flight, for a card that is gone, or second of two.
THEOREM UploadsAreOfCards == Spec => []UploadsMatchCards
<1>1. UploadInv => UploadsMatchCards
  BY DEF UploadInv, Matched, Owned, Supplied, Live, Id, UploadsMatchCards
<1>. QED
  BY <1>1, UploadInvariant, PTL

=============================================================================
