---- MODULE WorkspaceProofs ----
(***************************************************************************)
(* What the workspace keeps for the user, for any operations, candidates,  *)
(* snapshots, project files and bounds.                                    *)
(*                                                                         *)
(* That clearing a focus brings back what was asked for is inductive once  *)
(* a scope without a focus remembers none, and what was asked for is never *)
(* mistaken for nothing.  An open workspace stays open because only the    *)
(* last load counts, and only while the page is loading.                   *)
(*                                                                         *)
(* The canvas draws what was laid out because the graph is always that of  *)
(* the session and scope of now (what its memo depends on decides it), and *)
(* a layout with its identity was made of it.  That no suggestion on it    *)
(* lies on a cycle is an induction over the suggestions chosen so far.     *)
(***************************************************************************)
EXTENDS Workspace, FoldProofs, SequenceTheorems, TLAPS

(* One load counts, and it counts while the page shows that it loads.      *)
OnlyOneCounts ==
    /\ loads \subseteq [number : Nat, at : {"workspace", "project"}, current : BOOLEAN]
    /\ \A l \in loads : l.current => page.shown = "loading"
    /\ \A l \in loads, k \in loads : l.current /\ k.current => l = k
    /\ DOMAIN page = {"entry", "snapshot", "started", "shown"}
    /\ page.snapshot \in Snapshots /\ page.started \in Nat /\ gestures \in Nat

(* The session can be saved and loaded.                                    *)
Saves(r) ==
    /\ DOMAIN r = {"drafts", "layout", "selected", "filters"}
    /\ r.drafts \in Seq(Drafts) /\ r.layout \in Layouts
    /\ parsesProject(serializeProject(nodes, r.drafts, r.layout), nodes)

(* The scope knows what was asked for.                                     *)
Remembers(s) ==
    /\ DOMAIN s = DOMAIN scope
    /\ s.destination \in Destinations
    /\ IF s.focus = NoNode THEN s.before = NoScope ELSE s.before = asked

ScopeIsTrue ==
    /\ DOMAIN scope = {"query", "methods", "tag", "focus", "before", "selected",
                       "showCandidates", "destination"}
    /\ Remembers(scope)
    /\ scope.focus = NoNode => Asked(scope) = asked
    /\ asked = Asked(asked) /\ asked.destination \in Destinations

(* The dialog offers the file it was last given, and waits for no other.   *)
DialogIsTrue ==
    /\ dialog \in [open : BOOLEAN, incoming : ProjectFiles, chosen : ProjectFiles]
    /\ dialog.incoming # NoFile =>
          /\ dialog.open /\ dialog.incoming = dialog.chosen
          /\ parsesProject(dialog.incoming, nodes)
    /\ reading \subseteq [file : ProjectFiles, here : BOOLEAN]
    /\ \A f \in reading : f.here => dialog.open /\ f.file = dialog.chosen

(* Until the workspace is there nothing is done in it.                     *)
Untouched == page.shown # "ready" => reading = {}

IInv == OnlyOneCounts /\ Saves(review) /\ ScopeIsTrue /\ DialogIsTrue /\ Untouched

LEMMA InvariantGivesNothingIsLost == IInv => NothingIsLost
<1> SUFFICES ASSUME IInv PROVE NothingIsLost
    OBVIOUS
<1>1. ScopeReturns
    BY DEF IInv, ScopeIsTrue, Remembers, ScopeReturns
<1>2. PreviewIsTheChosen
    BY DEF IInv, DialogIsTrue, PreviewIsTheChosen
<1>3. ProjectRestores
    BY DEF IInv, Saves, ProjectRestores, serializeProject
<1> QED BY <1>1, <1>2, <1>3 DEF NothingIsLost

LEMMA BlankFileIsOne == NoFile \in ProjectFiles /\ DefaultLayout \in Layouts
<1>1. <<>> \in Seq(Drafts)
    OBVIOUS
<1> QED BY <1>1 DEF NoFile, ProjectFiles, DefaultLayout, Layouts

LEMMA InitInvariant == Init => IInv
<1> SUFFICES ASSUME Init PROVE IInv
    OBVIOUS
<1>1. PICK entry \in Entries, s \in Snapshots :
        page = [entry |-> entry, snapshot |-> s, started |-> 2,
                shown |-> IF entry = "plain" THEN "welcome" ELSE "loading"]
    BY DEF Init
<1>2. OnlyOneCounts
    <2>1. loads = {} \/ loads = {Load(1, FALSE), Load(2, TRUE)}
        BY DEF Init
    <2>2. loads # {} => page.shown = "loading"
        BY <1>1 DEF Init
    <2>5. /\ Load(1, FALSE) \in [number : Nat, at : {"workspace", "project"}, current : BOOLEAN]
          /\ Load(2, TRUE) \in [number : Nat, at : {"workspace", "project"}, current : BOOLEAN]
          /\ ~Load(1, FALSE).current
        BY DEF Load
    <2>3. \A l \in loads, k \in loads : l.current /\ k.current => l = k
        BY <2>1, <2>5
    <2>4. loads \subseteq [number : Nat, at : {"workspace", "project"}, current : BOOLEAN]
        BY <2>1, <2>5
    <2> QED BY <1>1, <2>2, <2>3, <2>4 DEF Init, OnlyOneCounts
<1>3. Saves(review)
    BY <1>1, BlankFileIsOne DEF Init, Saves, parsesProject, serializeProject, DefaultLayout
<1>4. ScopeIsTrue
    BY <1>1 DEF Init, ScopeIsTrue, Remembers, Asked, Destinations
<1>5. DialogIsTrue /\ Untouched
    BY <1>1, BlankFileIsOne DEF Init, DialogIsTrue, Untouched, ClosedDialog
<1> QED BY <1>2, <1>3, <1>4, <1>5 DEF IInv

-----------------------------------------------------------------------------
(* What the user does with the scope and the session.                      *)
LEMMA ShowsKeeps ==
    ASSUME IInv, NEW r, NEW s, Shows(r, s), Saves(r), Remembers(s)
    PROVE  IInv'
<1>1. /\ review' = r /\ scope' = s /\ UNCHANGED <<page, loads, canvas, dialog, reading>>
      /\ gestures' = gestures + 1 /\ page.shown = "ready"
      /\ asked' = IF s.focus = NoNode THEN Asked(s) ELSE asked
    BY DEF Shows, Gesture, Rendered
<1>2. nodes' = nodes
    BY <1>1 DEF nodes
<1>3. OnlyOneCounts' /\ DialogIsTrue' /\ Untouched'
    BY <1>1, <1>2 DEF IInv, OnlyOneCounts, DialogIsTrue, Untouched, parsesProject, Rows
<1>4. Saves(review)'
    BY <1>1, <1>2 DEF Saves, parsesProject, Rows
<1>5. ScopeIsTrue'
    <2>1. CASE s.focus = NoNode
        BY <1>1, <2>1 DEF IInv, ScopeIsTrue, Remembers, Asked
    <2>2. CASE s.focus # NoNode
        BY <1>1, <2>2 DEF IInv, ScopeIsTrue, Remembers, Asked
    <2> QED BY <2>1, <2>2
<1> QED BY <1>3, <1>4, <1>5 DEF IInv

(* A scope that keeps its focus, or drops it.                              *)
LEMMA KeepsFocus ==
    ASSUME IInv, NEW s, DOMAIN s = DOMAIN scope, s.focus = scope.focus,
           s.before = scope.before, s.destination \in Destinations
    PROVE  Remembers(s)
    BY DEF IInv, ScopeIsTrue, Remembers

LEMMA DropsFocus ==
    ASSUME IInv, NEW s, DOMAIN s = DOMAIN scope, s.focus = NoNode,
           s.before = NoScope, s.destination \in Destinations
    PROVE  Remembers(s)
    BY DEF Remembers

LEMMA UnfocusedIs ==
    ASSUME IInv
    PROVE  /\ DOMAIN Unfocused = DOMAIN scope /\ Unfocused.focus = NoNode
           /\ Unfocused.before = NoScope /\ Unfocused.destination \in Destinations
    BY DEF IInv, ScopeIsTrue, Remembers, Unfocused

LEMMA SearchingKeeps ==
    ASSUME IInv, changeQuery \/ changeMethods \/ changeTag \/ chooseGroup
    PROVE  IInv'
<1> USE UnfocusedIs
<1>1. ASSUME NEW s, Shows(review, s), DOMAIN s = DOMAIN scope, s.focus = NoNode,
             s.before = NoScope, s.destination \in Destinations
      PROVE  IInv'
    BY <1>1, ShowsKeeps, DropsFocus DEF IInv
<1>2. DOMAIN Unfocused = {"query", "methods", "tag", "focus", "before", "selected",
                          "showCandidates", "destination"}
    BY DEF IInv, ScopeIsTrue
<1>3. CASE changeQuery
    <2>1. PICK q : Shows(review, [Unfocused EXCEPT !.query = q])
        BY <1>3 DEF changeQuery
    <2> DEFINE s == [Unfocused EXCEPT !.query = q]
    <2>2. /\ DOMAIN s = DOMAIN scope /\ s.focus = NoNode /\ s.before = NoScope
          /\ s.destination \in Destinations
        BY <1>2
    <2> QED BY <1>1, <2>1, <2>2
<1>4. CASE changeMethods
    <2>1. PICK m : Shows(review, [Unfocused EXCEPT !.methods = m])
        BY <1>4 DEF changeMethods
    <2> DEFINE s == [Unfocused EXCEPT !.methods = m]
    <2>2. /\ DOMAIN s = DOMAIN scope /\ s.focus = NoNode /\ s.before = NoScope
          /\ s.destination \in Destinations
        BY <1>2
    <2> QED BY <1>1, <2>1, <2>2
<1>5. CASE changeTag
    <2>1. PICK t : Shows(review, [Unfocused EXCEPT !.tag = t])
        BY <1>5 DEF changeTag
    <2> DEFINE s == [Unfocused EXCEPT !.tag = t]
    <2>2. /\ DOMAIN s = DOMAIN scope /\ s.focus = NoNode /\ s.before = NoScope
          /\ s.destination \in Destinations
        BY <1>2
    <2> QED BY <1>1, <2>1, <2>2
<1>6. CASE chooseGroup
    <2> DEFINE group(t) == [Unfocused EXCEPT !.query = Anything, !.methods = {},
                                             !.tag = t, !.selected = NoNode]
               s(t, d) == [group(t) EXCEPT !.destination = d]
    <2>1. PICK t \in Tags, d \in Destinations : Shows(review, s(t, d))
        BY <1>6 DEF chooseGroup, Canvas, Destinations
    <2>2. /\ DOMAIN s(t, d) = DOMAIN scope /\ s(t, d).focus = NoNode
          /\ s(t, d).before = NoScope /\ s(t, d).destination \in Destinations
        BY <1>2
    <2> QED BY <1>1, <2>1, <2>2
<1> QED BY <1>3, <1>4, <1>5, <1>6

(* Moving about the workspace.                                             *)
LEMMA MovingKeeps ==
    ASSUME IInv, select \/ toggleCandidates \/ navigate
    PROVE  IInv'
<1>1. ASSUME NEW s, Shows(review, s), DOMAIN s = DOMAIN scope, s.focus = scope.focus,
             s.before = scope.before, s.destination \in Destinations
      PROVE  IInv'
    BY <1>1, ShowsKeeps, KeepsFocus DEF IInv
<1>2. /\ DOMAIN scope = {"query", "methods", "tag", "focus", "before", "selected",
                         "showCandidates", "destination"}
      /\ scope.destination \in Destinations
    BY DEF IInv, ScopeIsTrue, Remembers
<1>3. CASE select
    <2>1. PICK n : Shows(review, [scope EXCEPT !.selected = n])
        BY <1>3 DEF select
    <2> DEFINE s == [scope EXCEPT !.selected = n]
    <2>2. /\ DOMAIN s = DOMAIN scope /\ s.focus = scope.focus /\ s.before = scope.before
          /\ s.destination \in Destinations
        BY <1>2
    <2> QED BY <1>1, <2>1, <2>2
<1>4. CASE toggleCandidates
    <2> DEFINE s == [scope EXCEPT !.showCandidates = ~@]
    <2>1. Shows(review, s)
        BY <1>4 DEF toggleCandidates
    <2>2. /\ DOMAIN s = DOMAIN scope /\ s.focus = scope.focus /\ s.before = scope.before
          /\ s.destination \in Destinations
        BY <1>2
    <2> QED BY <1>1, <2>1, <2>2
<1>5. CASE navigate
    <2>1. PICK d \in Destinations : Shows(review, [scope EXCEPT !.destination = d])
        BY <1>5 DEF navigate
    <2> DEFINE s == [scope EXCEPT !.destination = d]
    <2>2. /\ DOMAIN s = DOMAIN scope /\ s.focus = scope.focus /\ s.before = scope.before
          /\ s.destination \in Destinations
        BY <1>2
    <2> QED BY <1>1, <2>1, <2>2
<1> QED BY <1>3, <1>4, <1>5

LEMMA FocusKeeps ==
    ASSUME IInv, focusSelected PROVE IInv'
<1> DEFINE s(d) == [scope EXCEPT !.before = BeforeFocus(scope), !.query = Anything,
                                 !.methods = {}, !.tag = Anything,
                                 !.focus = scope.selected, !.destination = d]
<1>1. PICK d \in Destinations : Shows(review, s(d))
    BY DEF focusSelected, Canvas, Destinations
<1>2. DOMAIN scope = {"query", "methods", "tag", "focus", "before", "selected",
                      "showCandidates", "destination"}
    BY DEF IInv, ScopeIsTrue
<1>3. /\ DOMAIN s(d) = DOMAIN scope /\ s(d).focus # NoNode
      /\ s(d).before = BeforeFocus(scope) /\ s(d).destination \in Destinations
    BY <1>2 DEF focusSelected
<1>4. asked # NoScope
    BY DEF IInv, ScopeIsTrue, NoScope, Destinations
<1>5. BeforeFocus(scope) = asked
    BY <1>4 DEF IInv, ScopeIsTrue, Remembers, BeforeFocus
<1>6. Remembers(s(d))
    BY <1>3, <1>5 DEF Remembers
<1> QED BY <1>1, <1>6, ShowsKeeps DEF IInv

LEMMA ClearFocusKeeps ==
    ASSUME IInv, clearFocus PROVE IInv'
<1> DEFINE s == [Unfocused EXCEPT !.query = scope.before.query,
                   !.methods = scope.before.methods, !.tag = scope.before.tag,
                   !.destination = scope.before.destination]
<1>1. scope.before = asked /\ asked # NoScope
    BY DEF IInv, ScopeIsTrue, Remembers, clearFocus, NoScope, Destinations
<1>2. /\ review' = review /\ scope' = s
      /\ UNCHANGED <<page, loads, canvas, asked, dialog, reading>>
      /\ gestures' = gestures + 1
    BY <1>1 DEF clearFocus, Rendered, Gesture
<1>3. /\ DOMAIN s = DOMAIN scope /\ s.focus = NoNode /\ s.before = NoScope
      /\ s.query = asked.query /\ s.methods = asked.methods /\ s.tag = asked.tag
      /\ s.destination = asked.destination
    BY <1>1, UnfocusedIs DEF IInv, ScopeIsTrue
<1>4. Asked(s) = asked
    BY <1>3 DEF IInv, ScopeIsTrue, Asked
<1>5. ScopeIsTrue'
    BY <1>2, <1>3, <1>4 DEF IInv, ScopeIsTrue, Remembers, Asked
<1>6. nodes' = nodes
    BY <1>2 DEF nodes
<1>7. OnlyOneCounts' /\ DialogIsTrue' /\ Untouched' /\ Saves(review)'
    BY <1>2, <1>6 DEF IInv, OnlyOneCounts, DialogIsTrue, Untouched, Saves, parsesProject, Rows
<1> QED BY <1>5, <1>7 DEF IInv

-----------------------------------------------------------------------------
(* What the user does with the session: the drafts stay about candidates   *)
(* of the snapshot, and the layout about its operations.                   *)
SameSaved(r) ==
    /\ DOMAIN r = DOMAIN review /\ r.drafts = review.drafts /\ r.layout = review.layout

LEMMA SameSavedSaves ==
    ASSUME IInv, NEW r, SameSaved(r) PROVE Saves(r)
    BY DEF IInv, Saves, SameSaved

LEMMA ScopeRemembers == ASSUME IInv PROVE Remembers(scope)
    BY DEF IInv, ScopeIsTrue

LEMMA ReviewFields ==
    ASSUME IInv PROVE DOMAIN review = {"drafts", "layout", "selected", "filters"}
    BY DEF IInv, Saves

LEMMA FilteringKeeps ==
    ASSUME IInv, setFilter \/ selectCandidate PROVE IInv'
<1>1. ASSUME NEW r, Reviews(r), SameSaved(r) PROVE IInv'
    BY <1>1, ShowsKeeps, SameSavedSaves, ScopeRemembers DEF Reviews
<1>2. ASSUME NEW f, Reviews([review EXCEPT !.filters = f]) PROVE IInv'
    <2>1. SameSaved([review EXCEPT !.filters = f])
        BY ReviewFields DEF SameSaved
    <2> QED BY <1>1, <1>2, <2>1
<1>3. ASSUME NEW c, Reviews([review EXCEPT !.selected = c]) PROVE IInv'
    <2>1. SameSaved([review EXCEPT !.selected = c])
        BY ReviewFields DEF SameSaved
    <2> QED BY <1>1, <1>3, <2>1
<1>4. CASE selectCandidate
    BY <1>3, <1>4 DEF selectCandidate
<1>5. CASE setFilter
    <2>1. \E f : Reviews([review EXCEPT !.filters = f])
        BY <1>5 DEF setFilter, Filters
    <2> QED BY <1>2, <2>1
<1> QED BY <1>4, <1>5

(* Opening a suggestion, from the canvas or from the overview.             *)
LEMMA OpeningKeeps ==
    ASSUME IInv, reviewCandidate \/ openReview PROVE IInv'
<1> DEFINE s == [scope EXCEPT !.destination = "inference-review"]
<1>1. ASSUME NEW r, Shows(r, s), SameSaved(r) PROVE IInv'
    <2>1. Remembers(s)
        BY DEF IInv, ScopeIsTrue, Remembers, Destinations
    <2> QED BY <1>1, <2>1, ShowsKeeps, SameSavedSaves
<1>2. CASE openReview
    <2>1. SameSaved([review EXCEPT !.selected = 0])
        BY ReviewFields DEF SameSaved
    <2> QED BY <1>1, <1>2, <2>1 DEF openReview
<1>3. CASE reviewCandidate
    <2>1. PICK c : Shows([review EXCEPT !.filters = ShowingIt(@, c), !.selected = c], s)
        BY <1>3 DEF reviewCandidate
    <2>2. SameSaved([review EXCEPT !.filters = ShowingIt(@, c), !.selected = c])
        BY ReviewFields DEF SameSaved
    <2> QED BY <1>1, <2>1, <2>2
<1> QED BY <1>2, <1>3

(* Turning and moving.                                                     *)
LEMMA LayoutKeeps ==
    ASSUME IInv, setDirection \/ moveNode PROVE IInv'
<1>1. ASSUME NEW layout \in Layouts, layout.moved \subseteq nodes,
             Shows([review EXCEPT !.layout = layout], scope)
      PROVE  IInv'
    <2>1. Saves([review EXCEPT !.layout = layout])
        BY <1>1 DEF IInv, Saves, parsesProject, serializeProject
    <2> QED BY <1>1, <2>1, ShowsKeeps, ScopeRemembers
<1>2. CASE setDirection
    <2>1. PICK d \in {"right", "down"} :
            Shows([review EXCEPT !.layout = [DefaultLayout EXCEPT !.direction = d]], scope)
        BY <1>2 DEF setDirection
    <2>2. [DefaultLayout EXCEPT !.direction = d] = [direction |-> d, moved |-> {}]
        BY DEF DefaultLayout
    <2> QED BY <1>1, <2>1, <2>2 DEF Layouts
<1>3. CASE moveNode
    <2>1. PICK n \in nodes : Shows([review EXCEPT !.layout.moved = @ \cup {n}], scope)
        BY <1>3 DEF moveNode, Visible
    <2> DEFINE layout == [review.layout EXCEPT !.moved = @ \cup {n}]
    <2>2. [review EXCEPT !.layout.moved = @ \cup {n}] = [review EXCEPT !.layout = layout]
        OBVIOUS
    <2>3. review.layout \in Layouts /\ review.layout.moved \subseteq nodes
        BY DEF IInv, Saves, parsesProject, serializeProject
    <2>4. nodes \subseteq Operations
        BY WorkspaceAssumption DEF nodes, IInv, OnlyOneCounts
    <2> QED BY <1>1, <2>1, <2>2, <2>3, <2>4 DEF Layouts
<1> QED BY <1>2, <1>3

(* Deciding and taking back.                                               *)
LEMMA DraftsSave ==
    ASSUME IInv, NEW drafts \in Seq(Drafts), NEW c,
           \A i \in DOMAIN drafts : drafts[i].candidate \in Rows(nodes)
    PROVE  Saves([review EXCEPT !.drafts = drafts, !.selected = c])
    BY DEF IInv, Saves, parsesProject, serializeProject

LEMMA DecidingKeeps ==
    ASSUME IInv, undoLatestChange \/ \E action \in DOMAIN StateAfter : decide(action)
    PROVE  IInv'
<1>1. /\ review.drafts \in Seq(Drafts)
      /\ \A i \in DOMAIN review.drafts : review.drafts[i].candidate \in Rows(nodes)
    BY DEF IInv, Saves, parsesProject, serializeProject
<1>2. ASSUME NEW drafts \in Seq(Drafts), NEW c,
             \A i \in DOMAIN drafts : drafts[i].candidate \in Rows(nodes),
             Reviews([review EXCEPT !.drafts = drafts, !.selected = c])
      PROVE  IInv'
    BY <1>2, DraftsSave, ShowsKeeps, ScopeRemembers DEF Reviews
<1>3. ASSUME NEW action \in DOMAIN StateAfter, decide(action) PROVE IInv'
    <2> DEFINE c == review.selected
               drafts == Append(review.drafts, [action |-> action, candidate |-> c])
    <2>1. c \in Rows(nodes) /\ c \in DOMAIN Candidates
        BY <1>3 DEF decide, Rows
    <2>2. drafts \in Seq(Drafts)
        BY <1>1, <2>1 DEF Drafts
    <2>3. \A i \in DOMAIN drafts : drafts[i].candidate \in Rows(nodes)
        BY <1>1, <2>1
    <2>4. \E x : Reviews([review EXCEPT !.drafts = drafts, !.selected = x])
        BY <1>3 DEF decide
    <2> QED BY <1>2, <2>2, <2>3, <2>4
<1>4. ASSUME undoLatestChange PROVE IInv'
    <2> DEFINE drafts == Front(review.drafts)
    <2>1. review.drafts # <<>> /\ Len(review.drafts) \in Nat /\ Len(review.drafts) > 0
        BY <1>1, <1>4 DEF undoLatestChange
    <2>2. /\ drafts \in Seq(Drafts)
          /\ \A i \in DOMAIN drafts : drafts[i].candidate \in Rows(nodes)
        BY <1>1, <2>1 DEF Front
    <2>3. \E x : Reviews([review EXCEPT !.drafts = drafts, !.selected = x])
        BY <1>4 DEF undoLatestChange
    <2> QED BY <1>2, <2>2, <2>3
<1> QED BY <1>3, <1>4
-----------------------------------------------------------------------------
(* The dialog.  What it does leaves the scope; what it applies was read.   *)
LEMMA DialogStep ==
    ASSUME IInv, UNCHANGED <<page, loads, scope, asked>>, gestures' \in Nat,
           Saves(review'), DialogIsTrue', page.shown = "ready"
    PROVE  IInv'
<1>1. nodes' = nodes
    BY DEF nodes
<1>2. Saves(review)'
    BY <1>1 DEF Saves, parsesProject, Rows
<1>3. OnlyOneCounts' /\ Untouched'
    BY DEF IInv, OnlyOneCounts, Untouched
<1>4. ScopeIsTrue'
    BY DEF IInv, ScopeIsTrue, Remembers, Asked
<1> QED BY <1>2, <1>3, <1>4 DEF IInv

LEMMA GestureIs ==
    ASSUME IInv, Gesture
    PROVE  /\ UNCHANGED <<page, loads, canvas>> /\ gestures' \in Nat /\ nodes' = nodes
           /\ page.shown = "ready"
    BY DEF IInv, OnlyOneCounts, Gesture, nodes

LEMMA Unmounting ==
    ASSUME IInv, dialog' = ClosedDialog, reading' = Unmounted
    PROVE  DialogIsTrue'
<1>1. ClosedDialog \in [open : BOOLEAN, incoming : ProjectFiles, chosen : ProjectFiles]
    BY BlankFileIsOne DEF ClosedDialog
<1>2. \A f \in reading : /\ [f EXCEPT !.here = FALSE] \in [file : ProjectFiles, here : BOOLEAN]
                         /\ ~[f EXCEPT !.here = FALSE].here
    BY DEF IInv, DialogIsTrue
<1>3. \A f \in reading' : f \in [file : ProjectFiles, here : BOOLEAN] /\ ~f.here
    BY <1>2 DEF Unmounted
<1> QED BY <1>1, <1>3 DEF DialogIsTrue, ClosedDialog

LEMMA DialogActionKeeps ==
    ASSUME IInv, openDialog \/ closeDialog \/ loadProject \/ cancelLoad \/ applyProject
                 \/ resetLayout
    PROVE  IInv'
<1>1. /\ Gesture /\ UNCHANGED <<scope, asked>>
    BY DEF openDialog, closeDialog, loadProject, cancelLoad, applyProject, resetLayout,
           Rendered
<1>2. /\ UNCHANGED <<page, loads, canvas>> /\ gestures' \in Nat /\ nodes' = nodes
      /\ page.shown = "ready"
    BY <1>1, GestureIs
<1>3. Saves(review) /\ DialogIsTrue
    BY DEF IInv
<1>4. CASE openDialog
    <2>1. dialog' = [ClosedDialog EXCEPT !.open = TRUE] /\ ~dialog.open
          /\ UNCHANGED <<review, reading>>
        BY <1>4 DEF openDialog
    <2>2. dialog' = [open |-> TRUE, incoming |-> NoFile, chosen |-> NoFile]
        BY <2>1 DEF ClosedDialog
    <2>4. /\ dialog' \in [open : BOOLEAN, incoming : ProjectFiles, chosen : ProjectFiles]
          /\ dialog'.incoming = NoFile
        BY <2>2, BlankFileIsOne
    <2>5. \A f \in reading' : ~f.here
        BY <1>3, <2>1 DEF DialogIsTrue
    <2>3. DialogIsTrue'
        BY <1>3, <2>1, <2>4, <2>5 DEF DialogIsTrue
    <2> QED BY <1>1, <1>2, <1>3, <2>1, <2>3, DialogStep
<1>5. CASE closeDialog
    <2>1. DialogIsTrue' /\ UNCHANGED review
        BY <1>5, Unmounting DEF closeDialog
    <2> QED BY <1>1, <1>2, <1>3, <2>1, DialogStep
<1>6. CASE loadProject
    <2>1. PICK file \in Projects :
            /\ reading' = reading \cup {[file |-> file, here |-> TRUE]}
            /\ dialog' = [dialog EXCEPT !.incoming = NoFile, !.chosen = file]
        BY <1>6 DEF loadProject
    <2>2. dialog.open /\ (\A f \in reading : ~f.here) /\ UNCHANGED review
        BY <1>6 DEF loadProject, Busy
    <2>3. file \in ProjectFiles
        BY WorkspaceAssumption
    <2>5. /\ dialog' \in [open : BOOLEAN, incoming : ProjectFiles, chosen : ProjectFiles]
          /\ dialog'.incoming = NoFile /\ dialog'.chosen = file /\ dialog'.open
        BY <1>3, <2>1, <2>2, <2>3, BlankFileIsOne DEF DialogIsTrue
    <2>6. /\ [file |-> file, here |-> TRUE] \in [file : ProjectFiles, here : BOOLEAN]
          /\ [file |-> file, here |-> TRUE].file = file
        BY <2>3
    <2>7. /\ reading' \subseteq [file : ProjectFiles, here : BOOLEAN]
          /\ \A f \in reading' : f.here => f.file = file
        BY <1>3, <2>1, <2>2, <2>6 DEF DialogIsTrue
    <2>4. DialogIsTrue'
        BY <2>5, <2>7 DEF DialogIsTrue
    <2> QED BY <1>1, <1>2, <1>3, <2>2, <2>4, DialogStep
<1>7. CASE cancelLoad
    <2>1. DialogIsTrue' /\ UNCHANGED review
        BY <1>3, <1>7, BlankFileIsOne DEF DialogIsTrue, cancelLoad
    <2> QED BY <1>1, <1>2, <1>3, <2>1, DialogStep
<1>8. CASE applyProject
    <2>1. /\ review' = [review EXCEPT !.drafts = dialog.incoming.drafts,
                                      !.layout = dialog.incoming.layout]
          /\ dialog' = ClosedDialog /\ reading' = Unmounted
          /\ dialog.incoming # NoFile
        BY <1>8 DEF applyProject, Rendered
    <2>2. /\ dialog.incoming \in ProjectFiles /\ parsesProject(dialog.incoming, nodes)
        BY <1>3, <2>1 DEF DialogIsTrue
    <2>3. Saves(review')
        BY <1>3, <2>1, <2>2 DEF Saves, parsesProject, serializeProject, ProjectFiles
    <2> QED BY <1>1, <1>2, <2>1, <2>3, Unmounting, DialogStep
<1>9. CASE resetLayout
    <2>1. review' = [review EXCEPT !.layout = DefaultLayout] /\ UNCHANGED <<dialog, reading>>
        BY <1>9 DEF resetLayout, Rendered
    <2>2. Saves(review')
        BY <1>3, <2>1, BlankFileIsOne DEF Saves, parsesProject, serializeProject, DefaultLayout
    <2>3. DialogIsTrue'
        BY <1>2, <1>3, <2>1 DEF DialogIsTrue, parsesProject, Rows
    <2> QED BY <1>1, <1>2, <2>2, <2>3, DialogStep
<1> QED BY <1>4, <1>5, <1>6, <1>7, <1>8, <1>9

LEMMA ProjectReadKeeps ==
    ASSUME IInv, NEW f, ProjectRead(f) PROVE IInv'
<1>1. /\ f \in reading /\ reading' = reading \ {f}
      /\ dialog' = IF f.here /\ dialog.open /\ parsesProject(f.file, nodes)
                   THEN [dialog EXCEPT !.incoming = f.file] ELSE dialog
      /\ UNCHANGED <<page, loads, review, scope, asked, gestures>>
    BY DEF ProjectRead
<1>2. DialogIsTrue /\ nodes' = nodes
    BY <1>1 DEF IInv, nodes
<1>3. DialogIsTrue'
    <2>1. f \in [file : ProjectFiles, here : BOOLEAN]
        BY <1>1, <1>2 DEF DialogIsTrue
    <2>2. CASE f.here /\ dialog.open /\ parsesProject(f.file, nodes)
        <3>1. /\ dialog' \in [open : BOOLEAN, incoming : ProjectFiles, chosen : ProjectFiles]
              /\ dialog'.incoming = f.file /\ dialog'.open /\ dialog'.chosen = dialog.chosen
            BY <1>1, <1>2, <2>1, <2>2 DEF DialogIsTrue
        <3> QED BY <1>1, <1>2, <2>2, <3>1 DEF DialogIsTrue, parsesProject, Rows
    <2>3. CASE ~(f.here /\ dialog.open /\ parsesProject(f.file, nodes))
        BY <1>1, <1>2, <2>3 DEF DialogIsTrue, parsesProject, Rows
    <2> QED BY <2>2, <2>3
<1>4. OnlyOneCounts' /\ Saves(review)' /\ ScopeIsTrue' /\ Untouched'
    BY <1>1, <1>2 DEF IInv, OnlyOneCounts, Saves, parsesProject, Rows, ScopeIsTrue,
                      Remembers, Asked, Untouched
<1> QED BY <1>3, <1>4 DEF IInv

LEMMA QuietStep ==
    ASSUME IInv, UNCHANGED <<page, review, scope, asked, dialog, reading, gestures>>,
           OnlyOneCounts'
    PROVE  IInv'
<1>1. nodes' = nodes
    BY DEF nodes
<1>2. Saves(review)' /\ ScopeIsTrue' /\ Untouched' /\ DialogIsTrue'
    BY <1>1 DEF IInv, Saves, parsesProject, Rows, ScopeIsTrue, Remembers, Asked,
                Untouched, DialogIsTrue
<1> QED BY <1>2 DEF IInv

LEMMA LayoutAnswersKeeps ==
    ASSUME IInv, NEW j, LayoutAnswers(j) PROVE IInv'
<1>1. UNCHANGED <<page, loads, review, scope, asked, dialog, reading, gestures>>
    BY DEF LayoutAnswers
<1> QED BY <1>1, QuietStep DEF IInv, OnlyOneCounts
-----------------------------------------------------------------------------
(* Loading.                                                                *)
AllLoads == [number : Nat, at : {"workspace", "project"}, current : BOOLEAN]

(* The page changes, and what the user has is as it was.                   *)
LEMMA PageStep ==
    ASSUME IInv, UNCHANGED <<review, scope, asked, dialog, reading, gestures>>,
           page'.snapshot = page.snapshot, OnlyOneCounts',
           page.shown = "ready" => page'.shown = "ready"
    PROVE  IInv'
<1>1. nodes' = nodes
    BY DEF nodes
<1>2. Saves(review)' /\ ScopeIsTrue' /\ DialogIsTrue' /\ Untouched'
    BY <1>1 DEF IInv, Saves, parsesProject, Rows, ScopeIsTrue, Remembers, Asked,
                Untouched, DialogIsTrue
<1> QED BY <1>2 DEF IInv

LEMMA ReloadKeeps ==
    ASSUME IInv, NEW entry, Reload(entry), page.shown # "ready" PROVE IInv'
<1>1. /\ page' = [page EXCEPT !.entry = entry, !.started = @ + 1, !.shown = "loading"]
      /\ loads' = {[l EXCEPT !.current = FALSE] : l \in loads} \cup {Load(page.started + 1, TRUE)}
      /\ UNCHANGED <<review, scope, asked, dialog, reading, gestures>>
    BY DEF Reload, shell
<1>2. OnlyOneCounts
    BY DEF IInv
<1>3. \A l \in loads : [l EXCEPT !.current = FALSE] \in AllLoads
                       /\ ~[l EXCEPT !.current = FALSE].current
    BY <1>2 DEF OnlyOneCounts, AllLoads
<1>4. Load(page.started + 1, TRUE) \in AllLoads
    BY <1>2 DEF OnlyOneCounts, Load, AllLoads
<1>5. loads' \subseteq AllLoads /\ \A l \in loads' : l.current => l = Load(page.started + 1, TRUE)
    BY <1>1, <1>3, <1>4
<1>6. /\ page'.snapshot = page.snapshot /\ page'.shown = "loading"
      /\ page'.started \in Nat /\ DOMAIN page' = DOMAIN page
    BY <1>1, <1>2 DEF OnlyOneCounts
<1>7. OnlyOneCounts'
    BY <1>1, <1>2, <1>5, <1>6 DEF OnlyOneCounts, AllLoads
<1> QED BY <1>1, <1>6, <1>7, PageStep

LEMMA MountKeeps ==
    ASSUME IInv, NEW project \in ProjectFiles, Mount(project), page.shown # "ready",
           page'.snapshot = page.snapshot, OnlyOneCounts'
    PROVE  IInv'
<1>1. /\ UNCHANGED <<review, scope, asked, reading, gestures>>
      /\ dialog' = [open |-> project # NoFile, chosen |-> project,
                    incoming |-> IF parsesProject(project, nodes) THEN project ELSE NoFile]
    BY DEF Mount
<1>2. nodes' = nodes /\ reading = {}
    BY DEF nodes, IInv, Untouched
<1>3. /\ dialog' \in [open : BOOLEAN, incoming : ProjectFiles, chosen : ProjectFiles]
      /\ dialog'.incoming # NoFile => /\ dialog'.open /\ dialog'.incoming = dialog'.chosen
                                      /\ parsesProject(dialog'.incoming, nodes)
    BY <1>1, BlankFileIsOne
<1>4. DialogIsTrue'
    BY <1>1, <1>2, <1>3 DEF DialogIsTrue, parsesProject, Rows
<1>5. Saves(review)' /\ ScopeIsTrue' /\ Untouched'
    BY <1>1, <1>2 DEF IInv, Saves, parsesProject, Rows, ScopeIsTrue, Remembers, Asked, Untouched
<1> QED BY <1>4, <1>5 DEF IInv

LEMMA LoadAnswersKeeps ==
    ASSUME IInv, NEW l, LoadAnswers(l) PROVE IInv'
<1>1. OnlyOneCounts /\ l \in loads
    BY DEF IInv, LoadAnswers
<1>2. l \in AllLoads /\ (l.current => page.shown = "loading")
    BY <1>1 DEF OnlyOneCounts, AllLoads
<1>3. CASE /\ loads' = (loads \ {l}) \cup {[l EXCEPT !.at = "project"]}
           /\ UNCHANGED <<page, shell>>
    <2>1. [l EXCEPT !.at = "project"] \in AllLoads
          /\ [l EXCEPT !.at = "project"].current = l.current
        BY <1>2 DEF AllLoads
    <2>2. OnlyOneCounts'
        BY <1>1, <1>3, <2>1 DEF OnlyOneCounts, AllLoads, shell
    <2> QED BY <1>3, <2>2, QuietStep DEF shell
<1>4. CASE loads' = loads \ {l} /\ UNCHANGED <<page, shell>>
    <2>1. OnlyOneCounts'
        BY <1>1, <1>4 DEF OnlyOneCounts, shell
    <2> QED BY <1>4, <2>1, QuietStep DEF shell
<1>5. CASE /\ loads' = loads \ {l} /\ l.current
           /\ page' = [page EXCEPT !.shown = "error"] /\ UNCHANGED shell
    <2>1. OnlyOneCounts'
        BY <1>1, <1>5 DEF OnlyOneCounts, shell
    <2>2. page.shown = "loading" /\ page'.snapshot = page.snapshot
        BY <1>1, <1>2, <1>5 DEF OnlyOneCounts
    <2> QED BY <1>5, <2>1, <2>2, PageStep DEF shell
<1>6. CASE /\ loads' = loads \ {l} /\ l.current
           /\ \E project \in Projects \cup {NoFile} : Opens(project)
    <2>1. PICK project \in Projects \cup {NoFile} : Opens(project)
        BY <1>6
    <2>2. project \in ProjectFiles
        BY WorkspaceAssumption, BlankFileIsOne
    <2>3. page' = [page EXCEPT !.shown = "ready", !.started = MaxLoads]
        BY <2>1 DEF Opens
    <2>4. gestures' = gestures
        BY <2>1 DEF Opens, Mount, shell
    <2>5. \A k \in loads' : ~k.current
        BY <1>1, <1>6 DEF OnlyOneCounts
    <2>6. /\ page'.snapshot = page.snapshot /\ page'.shown = "ready"
          /\ page'.started \in Nat /\ DOMAIN page' = DOMAIN page
        BY <1>1, <2>3, WorkspaceAssumption DEF OnlyOneCounts
    <2>7. OnlyOneCounts'
        BY <1>1, <1>6, <2>4, <2>5, <2>6 DEF OnlyOneCounts
    <2>8. CASE UNCHANGED shell
        BY <2>6, <2>7, <2>8, PageStep DEF shell
    <2>9. CASE Mount(project)
        BY <1>2, <1>6, <2>2, <2>6, <2>7, <2>9, MountKeeps
    <2> QED BY <2>1, <2>8, <2>9 DEF Opens
<1> QED BY <1>3, <1>4, <1>5, <1>6 DEF LoadAnswers, Counts
-----------------------------------------------------------------------------
LEMMA NextKeeps == IInv /\ [Next]_vars => IInv'
<1> SUFFICES ASSUME IInv, [Next]_vars PROVE IInv'
    OBVIOUS
<1>1. CASE UNCHANGED vars
    BY <1>1, QuietStep DEF vars, shell, IInv, OnlyOneCounts
<1>2. CASE ExploreSample \/ Retry
    BY <1>2, ReloadKeeps DEF ExploreSample, Retry
<1>3. CASE Next
    BY <1>2, <1>3, LoadAnswersKeeps, SearchingKeeps, MovingKeeps, FocusKeeps, ClearFocusKeeps,
       LayoutKeeps, OpeningKeeps, FilteringKeeps, DecidingKeeps, DialogActionKeeps,
       ProjectReadKeeps, LayoutAnswersKeeps
    DEF Next
<1> QED BY <1>1, <1>3

THEOREM InvariantHolds == Spec => []IInv
    BY InitInvariant, NextKeeps, PTL DEF Spec

(* Clearing a focus brings back what was asked for, the project dialog     *)
(* offers the file it was last given, and what is saved can be loaded      *)
(* (workspace-shell.tsx, project-controls.tsx, project-file.ts).           *)
THEOREM NothingIsEverLost == Spec => []NothingIsLost
    BY InvariantHolds, InvariantGivesNothingIsLost, PTL

(* No late answer to a load closes or opens again a workspace that is      *)
(* open (app.tsx).                                                         *)
THEOREM OpenAlwaysStaysOpen == Spec => OpenStaysOpen
<1>1. ASSUME IInv, Next, page.shown = "ready"
      PROVE  /\ page'.shown = "ready"
             /\ gestures' = gestures => review' = review /\ scope' = scope
    <2>1. CASE Gesture
        BY <1>1, <2>1 DEF Gesture, IInv, OnlyOneCounts
    <2>2. CASE UNCHANGED <<page, review, scope>>
        BY <1>1, <2>2
    <2>3. ASSUME NEW l, LoadAnswers(l) PROVE UNCHANGED <<page, review, scope>>
        BY <1>1, <2>3 DEF LoadAnswers, Counts, IInv, OnlyOneCounts, shell
    <2>4. ~ExploreSample /\ ~Retry
        BY <1>1 DEF ExploreSample, Retry
    <2>5. ASSUME changeQuery \/ changeMethods \/ changeTag \/ chooseGroup \/ select
                 \/ focusSelected \/ clearFocus \/ toggleCandidates \/ navigate
                 \/ setDirection \/ moveNode \/ reviewCandidate \/ openReview
          PROVE  Gesture
        BY <2>5 DEF changeQuery, changeMethods, changeTag, chooseGroup, select,
           focusSelected, clearFocus, toggleCandidates, navigate, setDirection, moveNode,
           reviewCandidate, openReview, Shows
    <2>6. ASSUME setFilter \/ selectCandidate \/ undoLatestChange
                 \/ \E action \in DOMAIN StateAfter : decide(action)
          PROVE  Gesture
        BY <2>6 DEF setFilter, Filters, selectCandidate, undoLatestChange, decide, Reviews,
           Shows
    <2>7. ASSUME openDialog \/ closeDialog \/ loadProject \/ cancelLoad \/ applyProject
                 \/ resetLayout
          PROVE  Gesture
        BY <2>7 DEF openDialog, closeDialog, loadProject, cancelLoad, applyProject, resetLayout
    <2>8. ASSUME NEW f, ProjectRead(f) PROVE UNCHANGED <<page, review, scope>>
        BY <2>8 DEF ProjectRead
    <2>9. ASSUME NEW j, LayoutAnswers(j) PROVE UNCHANGED <<page, review, scope>>
        BY <2>9 DEF LayoutAnswers
    <2> QED BY <1>1, <2>1, <2>2, <2>3, <2>4, <2>5, <2>6, <2>7, <2>8, <2>9 DEF Next
<1>2. IInv /\ [Next]_vars =>
        [page.shown = "ready" =>
            /\ page'.shown = "ready"
            /\ gestures' = gestures => review' = review /\ scope' = scope]_vars
    BY <1>1
<1> QED BY <1>2, InvariantHolds, PTL DEF Spec, OpenStaysOpen
-----------------------------------------------------------------------------
(* Suggestions are ordered, so that of some there is a best and a last.    *)
LEMMA CandidateFields ==
    ASSUME NEW c \in DOMAIN Candidates
    PROVE  /\ Candidates[c].source \in Operations /\ Candidates[c].target \in Operations
           /\ Candidates[c].blockers \in Int /\ Candidates[c].confidence \in Int
           /\ Candidates[c].evidence \in Int /\ c \in Int
    BY ExplorationAssumption

LEMMA PreferredIsAnOrder ==
    LET C == DOMAIN Candidates
    IN  /\ IsOrder({p \in C \X C : Preferred(p[1], p[2])}, C)
        /\ IsOrder({p \in C \X C : Preferred(p[2], p[1])}, C)
<1> DEFINE C == DOMAIN Candidates
<1>1. ASSUME NEW c \in C, NEW d \in C, c # d PROVE Preferred(c, d) \/ Preferred(d, c)
    BY <1>1, CandidateFields DEF Preferred
<1>2. ASSUME NEW c \in C, NEW d \in C, NEW e \in C, Preferred(c, d), Preferred(d, e)
      PROVE  Preferred(c, e)
    <2>1. /\ c \in Int /\ d \in Int /\ e \in Int
          /\ Candidates[c].blockers \in Int /\ Candidates[d].blockers \in Int
          /\ Candidates[e].blockers \in Int
          /\ Candidates[c].confidence \in Int /\ Candidates[d].confidence \in Int
          /\ Candidates[e].confidence \in Int
          /\ Candidates[c].evidence \in Int /\ Candidates[d].evidence \in Int
          /\ Candidates[e].evidence \in Int
        BY CandidateFields
    <2> QED BY <1>2, <2>1 DEF Preferred
<1> QED BY <1>1, <1>2 DEF IsOrder

LEMMA ListOrderIsAnOrder ==
    LET C == DOMAIN Candidates IN IsOrder({p \in C \X C : ListOrder(p[1], p[2])}, C)
<1> DEFINE C == DOMAIN Candidates
<1>1. ASSUME NEW c \in C, NEW d \in C, c # d PROVE ListOrder(c, d) \/ ListOrder(d, c)
    BY <1>1, CandidateFields DEF ListOrder
<1>2. ASSUME NEW c \in C, NEW d \in C, NEW e \in C, ListOrder(c, d), ListOrder(d, e)
      PROVE  ListOrder(c, e)
    BY <1>2, CandidateFields DEF ListOrder
<1> QED BY <1>1, <1>2 DEF IsOrder

LEMMA OneIsChosen ==
    ASSUME NEW C \in SUBSET DOMAIN Candidates, C # {}
    PROVE  Best(C) \in C /\ LeastPreferred(C) \in C /\ FirstListed(C) \in C
<1> DEFINE all == DOMAIN Candidates
           R == {p \in all \X all : Preferred(p[1], p[2])}
           L == {p \in all \X all : Preferred(p[2], p[1])}
           F == {p \in all \X all : ListOrder(p[1], p[2])}
<1>1. IsFiniteSet(all) /\ IsOrder(R, all) /\ IsOrder(L, all) /\ IsOrder(F, all)
    BY PreferredIsAnOrder, ListOrderIsAnOrder, ExplorationAssumption
<1>2. /\ \E c \in C : \A d \in C \ {c} : <<c, d>> \in R
      /\ \E c \in C : \A d \in C \ {c} : <<c, d>> \in L
      /\ \E c \in C : \A d \in C \ {c} : <<c, d>> \in F
    <2> HIDE DEF R, L, F
    <2> QED BY <1>1, FirstInOrder
<1>3. /\ \E c \in C : \A d \in C \ {c} : Preferred(c, d)
      /\ \E c \in C : \A d \in C \ {c} : Preferred(d, c)
      /\ \E c \in C : \A d \in C \ {c} : ListOrder(c, d)
    BY <1>2
<1> QED BY <1>3 DEF Best, LeastPreferred, FirstListed
-----------------------------------------------------------------------------
(* What is reached is the least set that holds where one starts and what   *)
(* an edge leads to from it.                                               *)
Leads(edges, S) == \A e \in edges : e[1] \in S => e[2] \in S

LEMMA ReachedIsLeast ==
    ASSUME NEW edges \in SUBSET (Operations \X Operations), NEW from \in Operations
    PROVE  /\ from \in Reached(edges, from) /\ Leads(edges, Reached(edges, from))
           /\ \A S : from \in S /\ Leads(edges, S) => Reached(edges, from) \subseteq S
<1> DEFINE k == Cardinality(Operations)
           V == SUBSET Operations
           After(T) == T \cup {e[2] : e \in {x \in edges : x[1] \in T}}
           step == [p \in Int \X V |-> After(p[2])]
           Is(f) == f = [n \in 0 .. k |-> IF n = 0 THEN {from} ELSE After(f[n - 1])]
           near == CHOOSE f : Is(f)
<1>1. IsFiniteSet(Operations) /\ k \in Nat
    BY ExplorationAssumption, FS_CardinalityType
<1>2. \A T \in V : After(T) \in V
    OBVIOUS
<1>3. step \in [Int \X V -> V]
    BY <1>2
<1>4. PICK f \in [0 .. k -> V] : IsRecursion(f, k, {from}, step)
    <2> HIDE DEF step, V, k
    <2>1. {from} \in V
        BY DEF V
    <2> QED BY <1>1, <1>3, <2>1, RecursionExists
<1>5. Is(f)
    <2>1. ASSUME NEW n \in 0 .. k, n # 0 PROVE f[n] = After(f[n - 1])
        <3>1. n \in 1 .. k /\ n - 1 \in 0 .. k /\ n \in Int
            BY <1>1, <2>1
        <3>2. f[n] = step[<<n, f[n - 1]>>] /\ f[n - 1] \in V
            BY <1>4, <3>1 DEF IsRecursion
        <3> QED BY <3>1, <3>2
    <2>2. f[0] = {from}
        BY <1>4 DEF IsRecursion
    <2> HIDE DEF After, V, k
    <2> QED BY <1>4, <2>1, <2>2
<1>6. Is(near)
    BY <1>5
<1>7. Reached(edges, from) = near[k]
    BY DEF Reached
<1>8. /\ near[0] = {from} /\ \A n \in 1 .. k : near[n] = After(near[n - 1])
      /\ 0 \in 0 .. k /\ k \in 0 .. k
    <2> HIDE DEF near, After, k
    <2>1. /\ \A n \in 1 .. k : n \in 0 .. k /\ n # 0
          /\ 0 \in 0 .. k /\ k \in 0 .. k
        BY <1>1
    <2> QED BY <1>6, <2>1
<1> DEFINE Typed == {n \in 0 .. k : near[n] \in V /\ from \in near[n]}
<1>9. near[k] \in V /\ from \in near[k]
    <2> HIDE DEF near
    <2>1. 0 \in Typed
        BY <1>8
    <2>2. ASSUME NEW n \in 1 .. k, n - 1 \in Typed PROVE n \in Typed
        <3>1. near[n] = After(near[n - 1]) /\ n \in 0 .. k
            BY <1>1, <1>8, <2>2
        <3> QED BY <1>2, <2>2, <3>1
    <2>3. \A n \in 0 .. k : n \in Typed
        <3> HIDE DEF Typed, k
        <3> QED BY <1>1, <2>1, <2>2, UpToInduction
    <2> QED BY <1>8, <2>3
<1>10. ASSUME NEW S, from \in S, Leads(edges, S) PROVE near[k] \subseteq S
    <2> DEFINE P == {n \in 0 .. k : near[n] \subseteq S}
    <2> HIDE DEF near
    <2>1. 0 \in P
        BY <1>8, <1>10
    <2>2. ASSUME NEW n \in 1 .. k, n - 1 \in P PROVE n \in P
        <3>1. near[n] = After(near[n - 1]) /\ n \in 0 .. k /\ near[n - 1] \subseteq S
            BY <1>1, <1>8, <2>2
        <3> QED BY <1>10, <3>1 DEF Leads
    <2>3. \A n \in 0 .. k : n \in P
        <3> HIDE DEF P, k
        <3> QED BY <1>1, <2>1, <2>2, UpToInduction
    <2> QED BY <1>8, <2>3
<1>11. Leads(edges, near[k])
    <2> DEFINE P == {n \in 0 .. k : /\ near[n] \in V
                                    /\ \/ Leads(edges, near[n])
                                       \/ Cardinality(near[n]) > n}
    <2> HIDE DEF near
    <2>1. \A T \in V : IsFiniteSet(T) /\ Cardinality(T) \in Nat /\ Cardinality(T) <= k
        BY <1>1, FS_Subset, FS_CardinalityType
    <2>2. 0 \in P
        <3>1. Cardinality({from}) = 1
            BY FS_Singleton
        <3>2. near[0] \in V /\ Cardinality(near[0]) > 0
            BY <1>8, <3>1
        <3> QED BY <1>8, <3>2
    <2>3. ASSUME NEW n \in 1 .. k, n - 1 \in P PROVE n \in P
        <3> DEFINE T == near[n - 1]
        <3>1. /\ near[n] = After(T) /\ n \in 0 .. k /\ n \in Int /\ T \in V
              /\ Leads(edges, T) \/ Cardinality(T) > n - 1
            BY <1>1, <1>8, <2>3
        <3> HIDE DEF T
        <3>2. near[n] \in V /\ T \subseteq near[n]
            BY <1>2, <3>1
        <3>3. CASE near[n] = T
            <4>1. Leads(edges, near[n])
                BY <3>1, <3>3 DEF Leads
            <4> QED BY <3>1, <3>2, <4>1
        <3>4. CASE near[n] # T
            <4>1. ~Leads(edges, T)
                BY <3>1, <3>4 DEF Leads
            <4>2. Cardinality(T) < Cardinality(near[n])
                BY <2>1, <3>2, <3>4, FS_Subset
            <4>3. Cardinality(T) \in Nat /\ Cardinality(near[n]) \in Nat
                BY <2>1, <3>1, <3>2
            <4>4. Cardinality(near[n]) > n
                BY <3>1, <4>1, <4>2, <4>3
            <4> QED BY <3>1, <3>2, <4>4
        <3> QED BY <3>3, <3>4
    <2>4. \A n \in 0 .. k : n \in P
        <3> HIDE DEF P, k
        <3> QED BY <1>1, <2>2, <2>3, UpToInduction
    <2>5. k \in P
        BY <1>8, <2>4
    <2>6. near[k] \in V /\ (Leads(edges, near[k]) \/ Cardinality(near[k]) > k)
        BY <2>5
    <2> QED BY <1>1, <2>1, <2>6
<1> QED BY <1>7, <1>9, <1>10, <1>11
-----------------------------------------------------------------------------
(* Edges between operations, and suggestions none of which lies on a cycle *)
(* of them and the edges.                                                  *)
NoCycle(edges, chosen) == \A c \in chosen : ~Closes(edges, chosen, c)

LEMMA CanvasEdges ==
    ASSUME NEW edges \in SUBSET (Operations \X Operations),
           NEW chosen \in SUBSET DOMAIN Candidates
    PROVE  OnCanvas(edges, chosen) \in SUBSET (Operations \X Operations)
    BY CandidateFields DEF OnCanvas, Ends

(* One more suggestion closes no cycle, unless it closes one itself.       *)
LEMMA OneMoreClosesNone ==
    ASSUME NEW edges \in SUBSET (Operations \X Operations),
           NEW chosen \in SUBSET DOMAIN Candidates, NoCycle(edges, chosen),
           NEW d \in DOMAIN Candidates, ~Closes(edges, chosen, d)
    PROVE  NoCycle(edges, chosen \cup {d})
<1> DEFINE before == OnCanvas(edges, chosen)
           after == OnCanvas(edges, chosen \cup {d})
           From(c) == Candidates[c].source
           To(c) == Candidates[c].target
           Behind(c) == Reached(before, To(c))
<1>1. /\ before \in SUBSET (Operations \X Operations)
      /\ after \in SUBSET (Operations \X Operations)
      /\ after = before \cup {<<From(d), To(d)>>}
    BY CanvasEdges DEF OnCanvas, Ends
<1>2. ASSUME NEW c \in chosen \cup {d}
      PROVE  /\ To(c) \in Behind(c) /\ Leads(before, Behind(c))
             /\ \A S : To(c) \in S /\ Leads(before, S) => Behind(c) \subseteq S
             /\ \A S : To(c) \in S /\ Leads(after, S) => Reached(after, To(c)) \subseteq S
    <2> HIDE DEF before, after
    <2>1. To(c) \in Operations
        BY CandidateFields
    <2> QED BY <1>1, <2>1, ReachedIsLeast
<1>3. From(d) \notin Behind(d)
    BY DEF Closes
<1>4. ASSUME NEW c \in chosen PROVE From(c) \notin Behind(c) /\ <<From(c), To(c)>> \in before
    BY DEF NoCycle, Closes, OnCanvas, Ends
<1> HIDE DEF before, after, Behind, From, To
<1>5. ASSUME NEW c \in chosen PROVE From(c) \notin Reached(after, To(c))
    <2>1. CASE From(d) \notin Behind(c)
        <3>1. Leads(after, Behind(c))
            BY <1>1, <1>2, <2>1 DEF Leads
        <3> QED BY <1>2, <1>4, <3>1
    <2>2. CASE From(d) \in Behind(c)
        <3> DEFINE both == Behind(c) \cup Behind(d)
        <3>1. Leads(after, both) /\ To(c) \in both
            BY <1>1, <1>2 DEF Leads
        <3>2. From(c) \notin Behind(d)
            <4>1. SUFFICES ASSUME From(c) \in Behind(d) PROVE FALSE
                OBVIOUS
            <4>2. To(c) \in Behind(d)
                <5>1. <<From(c), To(c)>> \in before /\ Leads(before, Behind(d))
                    BY <1>2, <1>4
                <5>2. \A x, y : <<x, y>> \in before /\ x \in Behind(d) => y \in Behind(d)
                    BY <5>1 DEF Leads
                <5> QED BY <4>1, <5>1, <5>2
            <4>3. Behind(c) \subseteq Behind(d)
                BY <1>2, <4>2
            <4> QED BY <1>3, <2>2, <4>3
        <3>3. From(c) \notin both
            BY <1>4, <3>2
        <3>4. Reached(after, To(c)) \subseteq both
            BY <1>2, <3>1
        <3> QED BY <3>3, <3>4
    <2> QED BY <2>1, <2>2
<1>6. From(d) \notin Reached(after, To(d))
    <2>1. Leads(after, Behind(d))
        BY <1>1, <1>2, <1>3 DEF Leads
    <2> QED BY <1>2, <1>3, <2>1
<1> QED BY <1>5, <1>6 DEF NoCycle, Closes, after, From, To

(* What is previewed is suggested, and closes no cycle.                    *)
LEMMA PreviewClosesNone ==
    ASSUME NEW edges \in SUBSET (Operations \X Operations),
           NEW connections \in SUBSET DOMAIN Candidates
    PROVE  /\ Preview(edges, connections) \subseteq connections
           /\ NoCycle(edges, Preview(edges, connections))
<1> DEFINE Add(c, chosen) ==
               IF \/ Cardinality(chosen) >= MaxPreview \/ Candidates[c].blockers > 0
                  \/ Closes(edges, chosen, c)
               THEN chosen ELSE chosen \cup {c}
           S == connections
           V == SUBSET S
           pick == [T \in (SUBSET S) \ {{}} |-> LeastPreferred(T)]
           step == [p \in S \X V |-> Add(p[1], p[2])]
           Folds(f) == f = [T \in SUBSET S |->
                                IF T = {} THEN {}
                                ELSE Add(LeastPreferred(T), f[T \ {LeastPreferred(T)}])]
           iter == CHOOSE f : Folds(f)
<1>1. IsFiniteSet(S)
    BY ExplorationAssumption, FS_Subset
<1>2. ASSUME NEW T \in (SUBSET S) \ {{}} PROVE LeastPreferred(T) \in T
    BY OneIsChosen
<1>3. Picks(pick, S)
    BY <1>2 DEF Picks
<1>4. step \in [S \X V -> V]
    <2>1. ASSUME NEW c \in S, NEW chosen \in V PROVE Add(c, chosen) \in V
        OBVIOUS
    <2> HIDE DEF Add
    <2> QED BY <2>1
<1>5. PICK f \in [SUBSET S -> V] : IsFold(f, S, {}, pick, step)
    <2>1. {} \in V
        OBVIOUS
    <2> HIDE DEF pick, step, V, S
    <2> QED BY <1>1, <1>3, <1>4, <2>1, FoldExists
<1>6. Folds(f)
    <2>1. ASSUME NEW T \in (SUBSET S) \ {{}}
          PROVE  f[T] = Add(LeastPreferred(T), f[T \ {LeastPreferred(T)}])
        <3>1. /\ f[T] = step[<<pick[T], f[T \ {pick[T]}]>>]
              /\ pick[T] = LeastPreferred(T) /\ LeastPreferred(T) \in S
              /\ f[T \ {pick[T]}] \in V
            <4> HIDE DEF step
            <4> QED BY <1>2, <1>5 DEF IsFold
        <3> HIDE DEF Add, pick
        <3> QED BY <3>1
    <2>2. f[{}] = {}
        BY <1>5 DEF IsFold
    <2> HIDE DEF Add
    <2> QED BY <1>5, <2>1, <2>2
<1>7. Folds(iter)
    <2> HIDE DEF Folds
    <2> QED BY <1>6
<1>8. Preview(edges, connections) = iter[S]
    BY DEF Preview, MapThenFoldSet
<1> DEFINE P == {T \in SUBSET S : iter[T] \in SUBSET S /\ NoCycle(edges, iter[T])}
<1> HIDE DEF iter
<1>9. {} \in P
    BY <1>7 DEF NoCycle
<1>10. ASSUME NEW T \in (SUBSET S) \ {{}} PROVE \E c \in T : T \ {c} \in P => T \in P
    <2> DEFINE c == LeastPreferred(T)
               chosen == iter[T \ {c}]
    <2>1. c \in T /\ c \in DOMAIN Candidates
        BY <1>2
    <2>2. iter[T] = Add(c, chosen)
        BY <1>7
    <2>3. ASSUME T \ {c} \in P PROVE T \in P
        <3>1. chosen \in SUBSET DOMAIN Candidates /\ chosen \subseteq S /\ NoCycle(edges, chosen)
            BY <2>3
        <3>2. CASE iter[T] = chosen
            BY <3>1, <3>2
        <3>3. CASE ~Closes(edges, chosen, c) /\ iter[T] = chosen \cup {c}
            <4> HIDE DEF c, chosen
            <4>1. NoCycle(edges, chosen \cup {c})
                BY <2>1, <3>1, <3>3, OneMoreClosesNone
            <4> QED BY <2>1, <3>1, <3>3, <4>1
        <3> QED BY <2>2, <3>2, <3>3
    <2> QED BY <2>1, <2>3
<1>11. \A T \in SUBSET S : T \in P
    <2> HIDE DEF P, S
    <2> QED BY <1>1, <1>9, <1>10, SetInduction
<1> QED BY <1>8, <1>11
-----------------------------------------------------------------------------
(* What is on the canvas is of the snapshot, and closes no cycle there.    *)
LEMMA NodesAreOperations ==
    ASSUME page.snapshot \in Snapshots PROVE nodes \subseteq Operations
    BY WorkspaceAssumption DEF nodes

LEMMA SuggestedArePending ==
    ASSUME NEW r
    PROVE  /\ Suggested(r) \subseteq Pending(r.drafts, nodes)
           /\ Pending(r.drafts, nodes) \subseteq DOMAIN Candidates
<1>1. Pending(r.drafts, nodes) \subseteq DOMAIN Candidates
    BY DEF Pending, Rows
<1> DEFINE pending == Pending(r.drafts, nodes)
           shown == {c \in pending : /\ Ends(c) \in nodes \X nodes
                                     /\ Candidates[c].source # Candidates[c].target}
           Same(c) == {d \in shown : Ends(d) = Ends(c)}
<1>2. ASSUME NEW c \in shown PROVE Best(Same(c)) \in pending
    <2>1. Same(c) \subseteq DOMAIN Candidates /\ Same(c) # {}
        BY <1>1
    <2>2. Best(Same(c)) \in Same(c)
        <3> HIDE DEF Same
        <3> QED BY <2>1, OneIsChosen
    <2> QED BY <2>2
<1>3. Suggested(r) = {Best(Same(c)) : c \in shown}
    BY DEF Suggested, Connections
<1> HIDE DEF Same, shown, pending
<1> QED BY <1>1, <1>2, <1>3 DEF pending

LEMMA PreviewedClosesNone ==
    ASSUME page.snapshot \in Snapshots, NEW r, NEW s
    PROVE  /\ Previewed(r, s) \subseteq Pending(r.drafts, nodes)
           /\ NoCycle(Within(Accepted(r), Visible(r, s)), Previewed(r, s))
<1> DEFINE seen == Visible(r, s)
           edges == Within(Accepted(r), seen)
           connections == {c \in Suggested(r) : Ends(c) \in seen \X seen}
<1>1. seen \subseteq Operations
    BY NodesAreOperations DEF Visible
<1>2. edges \in SUBSET (Operations \X Operations)
    BY <1>1 DEF Within
<1>3. /\ connections \subseteq Pending(r.drafts, nodes)
      /\ connections \in SUBSET DOMAIN Candidates
    BY SuggestedArePending
<1>4. CASE Previewed(r, s) = {}
    BY <1>4 DEF NoCycle
<1>5. CASE Previewed(r, s) = Preview(edges, connections)
    <2> HIDE DEF connections
    <2>1. /\ Preview(edges, connections) \subseteq connections
          /\ NoCycle(edges, Preview(edges, connections))
        <3> HIDE DEF edges
        <3> QED BY <1>2, <1>3, PreviewClosesNone
    <2> QED BY <1>3, <1>5, <2>1
<1> QED BY <1>4, <1>5 DEF Previewed

LEMMA PreviewStaysAcyclic == ASSUME page.snapshot \in Snapshots PROVE PreviewIsAcyclic
<1>1. NoCycle(Within(Accepted(review), Visible(review, scope)), Previewed(review, scope))
    BY PreviewedClosesNone
<1> QED BY <1>1 DEF PreviewIsAcyclic, NoCycle, Closes, OnCanvas

-----------------------------------------------------------------------------
(* The graph for the layout is a function of what its memo depends on.     *)
SameFilters(s, t) ==
    s.query = t.query /\ s.methods = t.methods /\ s.tag = t.tag /\ s.focus = t.focus

LEMMA VisibleDependsOn ==
    ASSUME NEW r, NEW s, NEW q, NEW t, r.drafts = q.drafts, SameFilters(s, t)
    PROVE  Visible(r, s) = Visible(q, t)
<1>1. Accepted(r) = Accepted(q) /\ Suggested(r) = Suggested(q)
    BY DEF Accepted, Suggested
<1>2. Near(r, s) = Near(q, t)
    BY <1>1 DEF Near, SameFilters
<1> QED BY <1>2 DEF Visible, InScope, SameFilters

LEMMA PreviewedDependsOn ==
    ASSUME NEW r, NEW s, NEW q, NEW t, r.drafts = q.drafts, SameFilters(s, t),
           s.showCandidates = t.showCandidates, s.destination = t.destination
    PROVE  Previewed(r, s) = Previewed(q, t)
<1>1. Accepted(r) = Accepted(q) /\ Suggested(r) = Suggested(q)
    BY DEF Accepted, Suggested
<1>2. Visible(r, s) = Visible(q, t)
    BY VisibleDependsOn
<1> QED BY <1>1, <1>2 DEF Previewed

LEMMA LayoutGraphDependsOn ==
    ASSUME NEW r, NEW s, NEW q, NEW t, Dependencies(r, s) = Dependencies(q, t), NEW o
    PROVE  LayoutGraph(r, s, o) = LayoutGraph(q, t, o)
<1> DEFINE F(u) == <<u.query, u.methods, u.tag, u.focus>>
           P == <<r.drafts, F(s), s.showCandidates, s.destination>>
           P1 == <<q.drafts, F(t), t.showCandidates, t.destination>>
           Small == Cardinality(nodes) <= MaxCanvas
<1>1. /\ Dependencies(r, s) = IF Previewed(r, s) # {} THEN P
                              ELSE IF Small THEN <<r.drafts>> ELSE <<r.drafts, F(s)>>
      /\ Dependencies(q, t) = IF Previewed(q, t) # {} THEN P1
                              ELSE IF Small THEN <<q.drafts>> ELSE <<q.drafts, F(t)>>
    BY DEF Dependencies
<1>2. \A u, v : F(u) = F(v) => SameFilters(u, v)
    BY DEF SameFilters
<1>3. \A a, b, c, d, e, f : <<a, b, c, d>> # <<e>> /\ <<a, b, c, d>> # <<e, f>>
    OBVIOUS
<1>4. CASE Previewed(r, s) # {} /\ Previewed(q, t) # {}
    <2>1. P = P1
        <3> HIDE DEF P, P1
        <3> QED BY <1>1, <1>4
    <2>2. /\ r.drafts = q.drafts /\ F(s) = F(t) /\ s.showCandidates = t.showCandidates
          /\ s.destination = t.destination
        <3> HIDE DEF F
        <3> QED BY <2>1
    <2>3. Visible(r, s) = Visible(q, t) /\ Previewed(r, s) = Previewed(q, t)
        BY <1>2, <2>2, VisibleDependsOn, PreviewedDependsOn
    <2> QED BY <2>2, <2>3 DEF LayoutGraph, Base, Accepted
<1>5. CASE Previewed(r, s) = {} /\ Previewed(q, t) = {}
    <2>1. CASE Small
        <3>1. <<r.drafts>> = <<q.drafts>>
            <4> HIDE DEF F, Small, P, P1
            <4> QED BY <1>1, <1>5, <2>1
        <3>2. r.drafts = q.drafts
            BY <3>1
        <3> QED BY <1>5, <2>1, <3>2 DEF LayoutGraph, Base, Accepted
    <2>2. CASE ~Small
        <3>1. r.drafts = q.drafts /\ F(s) = F(t)
            <4> HIDE DEF F, Small, P, P1
            <4>1. <<r.drafts, F(s)>> = <<q.drafts, F(t)>>
                BY <1>1, <1>5, <2>2
            <4> QED BY <4>1
        <3>2. Visible(r, s) = Visible(q, t)
            BY <1>2, <3>1, VisibleDependsOn
        <3> QED BY <1>5, <2>2, <3>1, <3>2 DEF LayoutGraph, Base, Accepted
    <2> QED BY <2>1, <2>2
<1> HIDE DEF F, Small
<1> QED BY <1>1, <1>3, <1>4, <1>5
-----------------------------------------------------------------------------
(* One load counts while the page shows that it loads.                     *)
LoadsAreCounted ==
    /\ page.shown \in {"welcome", "loading", "error", "ready"}
    /\ page.started <= MaxLoads
    /\ \A l \in loads : l.number >= 1 /\ l.number <= page.started
    /\ page.shown = "loading" => \E l \in loads : l.current
    /\ IsFiniteSet(loads) /\ gestures <= MaxGestures

(* What is selected, and what is in focus, is there.                       *)
IsThere(r, s) ==
    /\ r.selected \in Rows(nodes) \cup {0}
    /\ s.focus \in nodes \cup {NoNode} /\ s.selected \in nodes \cup {NoNode}

(* Of the layouts under way at most one counts.                            *)
JobsAreFew ==
    /\ IsFiniteSet(jobs) /\ Cardinality(jobs) <= MaxJobs
    /\ \A j \in jobs : /\ DOMAIN j = {"graph", "direction", "current"}
                       /\ j.current \in BOOLEAN
    /\ \A j \in jobs, k \in jobs : j.current /\ k.current => j = k

(* A graph with the identity of the present one is the present one.        *)
OneGraph ==
    /\ canvas.graph.object = graph.object => canvas.graph = graph
    /\ \A j \in jobs : j.graph.object = graph.object => j.graph = graph

(* The present graph is of the session and scope of now, and there is none *)
(* before the workspace is.                                                *)
GraphIsOfNow ==
    IF page.shown = "ready" /\ nodes # {}
    THEN graph = LayoutGraph(review, scope, graph.object)
    ELSE graph = NoGraph /\ jobs = {} /\ canvas = NoLayout

CanvasInv ==
    /\ LoadsAreCounted /\ IsThere(review, scope)
    /\ JobsAreFew /\ OneGraph /\ GraphIsOfNow

LEMMA SnapshotIsSame ==
    ASSUME page'.snapshot = page.snapshot, NEW r, NEW s, NEW o
    PROVE  /\ nodes' = nodes
           /\ LayoutGraph(r, s, o)' = LayoutGraph(r, s, o)
           /\ IsThere(r, s)' <=> IsThere(r, s)
<1>1. nodes' = nodes
    BY DEF nodes
<1>2. Accepted(r)' = Accepted(r) /\ Suggested(r)' = Suggested(r)
    BY <1>1 DEF Accepted, Suggested
<1>3. Visible(r, s)' = Visible(r, s)
    BY <1>1, <1>2 DEF Visible, Near
<1>4. Previewed(r, s)' = Previewed(r, s) /\ Base(r, s)' = Base(r, s)
    BY <1>1, <1>2, <1>3 DEF Previewed, Base
<1>5. LayoutGraph(r, s, o)' = LayoutGraph(r, s, o)
    BY <1>2, <1>4 DEF LayoutGraph
<1> QED BY <1>1, <1>5 DEF IsThere

(* There are more identities than graphs that are referred to.             *)
LEMMA NewObjectIsNew ==
    ASSUME JobsAreFew PROVE NewObject \notin InUse
<1> DEFINE Jobs == {j.graph.object : j \in jobs}
           f == [j \in jobs |-> j.graph.object]
           N == 1 .. MaxJobs + 3
           Free == N \ InUse
           R == {p \in N \X N : p[1] < p[2]}
<1>1. MaxJobs \in Nat /\ IsFiniteSet(jobs) /\ Cardinality(jobs) <= MaxJobs
      /\ Cardinality(jobs) \in Nat
    BY WorkspaceAssumption, FS_CardinalityType DEF JobsAreFew
<1>2. IsFiniteSet(Jobs) /\ Cardinality(Jobs) \in Nat /\ Cardinality(Jobs) <= MaxJobs
    <2>1. Jobs = {f[j] : j \in jobs}
        OBVIOUS
    <2>2. IsFiniteSet({f[j] : j \in jobs}) /\ Cardinality({f[j] : j \in jobs}) <= Cardinality(jobs)
        <3> HIDE DEF f
        <3> QED BY <1>1, ImageIsFinite
    <2>3. Cardinality({f[j] : j \in jobs}) \in Nat
        BY <2>2, FS_CardinalityType
    <2> HIDE DEF f, Jobs
    <2> QED BY <1>1, <2>1, <2>2, <2>3
<1>3. IsFiniteSet(InUse) /\ Cardinality(InUse) \in Nat /\ Cardinality(InUse) <= MaxJobs + 2
    <2> DEFINE One == Jobs \cup {graph.object}
               Two == One \cup {canvas.graph.object}
    <2> HIDE DEF Jobs
    <2>1. IsFiniteSet(One) /\ Cardinality(One) \in Nat /\ Cardinality(One) <= Cardinality(Jobs) + 1
        BY <1>2, OneMore
    <2> HIDE DEF One
    <2>2. IsFiniteSet(Two) /\ Cardinality(Two) \in Nat /\ Cardinality(Two) <= Cardinality(One) + 1
        BY <2>1, OneMore
    <2>3. InUse = Two
        BY DEF InUse, One, Jobs
    <2> HIDE DEF Two
    <2> QED BY <1>1, <1>2, <2>1, <2>2, <2>3
<1>4. IsFiniteSet(N) /\ Cardinality(N) = MaxJobs + 3
    BY <1>1, FS_Interval
<1>5. Free # {}
    <2>1. SUFFICES ASSUME N \subseteq InUse PROVE FALSE
        OBVIOUS
    <2>2. Cardinality(N) <= Cardinality(InUse)
        BY <1>3, <2>1, FS_Subset
    <2> HIDE DEF N
    <2> QED BY <1>1, <1>3, <1>4, <2>2
<1>6. IsOrder(R, N)
    BY <1>1 DEF IsOrder
<1>7. PICK i \in Free : \A k \in Free \ {i} : <<i, k>> \in R
    <2>1. Free \in SUBSET N
        OBVIOUS
    <2> HIDE DEF R, N, Free
    <2> QED BY <1>4, <1>5, <1>6, <2>1, FirstInOrder
<1>8. ASSUME NEW k \in 1 .. i PROVE k \in InUse <=> k < i
    <2>1. i \in Int /\ k \in Int /\ k <= i /\ k \in N /\ i \notin InUse
        BY <1>1
    <2>2. CASE k = i
        BY <2>1, <2>2
    <2>3. CASE k < i
        <3>1. SUFFICES ASSUME k \notin InUse PROVE FALSE
            BY <2>3
        <3>2. <<i, k>> \in R
            <4>1. k \in Free \ {i}
                BY <2>1, <2>3, <3>1
            <4> HIDE DEF R, Free
            <4> QED BY <1>7, <4>1
        <3>3. i < k
            BY <3>2
        <3> QED BY <2>1, <2>3, <3>3
    <2> QED BY <2>1, <2>2, <2>3
<1>9. \E m \in N : \A k \in 1 .. m : k \in InUse <=> k < m
    <2> HIDE DEF N
    <2>1. i \in N
        BY DEF N
    <2> QED BY <1>8, <2>1
<1>10. /\ NewObject \in 1 .. MaxJobs + 3
       /\ \A k \in 1 .. NewObject : k \in InUse <=> k < NewObject
    BY <1>9 DEF NewObject
<1>11. NewObject \in 1 .. NewObject /\ ~(NewObject < NewObject)
    BY <1>10
<1> QED BY <1>10, <1>11
-----------------------------------------------------------------------------
(* What was under way is cancelled and one layout may be added.            *)
LEMMA CancelledKeep ==
    ASSUME JobsAreFew
    PROVE  /\ IsFiniteSet(Cancelled) /\ Cardinality(Cancelled) \in Nat
           /\ Cardinality(Cancelled) <= Cardinality(jobs) /\ Cardinality(jobs) \in Nat
           /\ \A j \in Cancelled : /\ DOMAIN j = {"graph", "direction", "current"}
                                   /\ j.current = FALSE
                                   /\ \E k \in jobs : j.graph = k.graph
<1> DEFINE f == [j \in jobs |-> [j EXCEPT !.current = FALSE]]
<1>1. IsFiniteSet(jobs) /\ Cardinality(jobs) \in Nat
    BY FS_CardinalityType DEF JobsAreFew
<1>2. Cancelled = {f[j] : j \in jobs}
    BY DEF Cancelled
<1>3. IsFiniteSet({f[j] : j \in jobs}) /\ Cardinality({f[j] : j \in jobs}) <= Cardinality(jobs)
    <2> HIDE DEF f
    <2> QED BY <1>1, ImageIsFinite
<1>4. Cardinality(Cancelled) \in Nat
    BY <1>2, <1>3, FS_CardinalityType
<1>5. ASSUME NEW k \in jobs
      PROVE  LET j == [k EXCEPT !.current = FALSE]
             IN  /\ DOMAIN j = {"graph", "direction", "current"}
                 /\ j.current = FALSE /\ j.graph = k.graph
    BY DEF JobsAreFew
<1>6. \A j \in Cancelled : \E k \in jobs : j = [k EXCEPT !.current = FALSE]
    BY DEF Cancelled
<1> QED BY <1>1, <1>2, <1>3, <1>4, <1>5, <1>6

LEMMA StartLayoutKeeps ==
    ASSUME JobsAreFew, NEW g, NEW d, StartLayout(g, d), Cardinality(jobs) < MaxJobs
    PROVE  /\ JobsAreFew'
           /\ \A j \in jobs' : j.graph = g \/ \E k \in jobs : j.graph = k.graph
<1> DEFINE new == [graph |-> g, direction |-> d, current |-> TRUE]
<1>1. MaxJobs \in Nat
    BY WorkspaceAssumption
<1>2. /\ DOMAIN new = {"graph", "direction", "current"} /\ new.current = TRUE
      /\ new.graph = g
    OBVIOUS
<1>3. jobs' = Cancelled \/ jobs' = Cancelled \cup {new}
    BY DEF StartLayout
<1> HIDE DEF new
<1>4. IsFiniteSet(jobs') /\ Cardinality(jobs') <= MaxJobs
    <2>1. /\ IsFiniteSet(Cancelled \cup {new}) /\ Cardinality(Cancelled \cup {new}) \in Nat
          /\ Cardinality(Cancelled \cup {new}) <= Cardinality(Cancelled) + 1
        BY CancelledKeep, OneMore
    <2>2. CASE jobs' = Cancelled
        BY <1>1, <2>2, CancelledKeep
    <2>3. CASE jobs' = Cancelled \cup {new}
        BY <1>1, <2>1, <2>3, CancelledKeep
    <2> QED BY <1>3, <2>2, <2>3
<1>5. \A j \in jobs' : j \in Cancelled \/ j = new
    BY <1>3
<1>6. \A j \in jobs' : /\ DOMAIN j = {"graph", "direction", "current"}
                       /\ j.current \in BOOLEAN
                       /\ j.graph = g \/ \E k \in jobs : j.graph = k.graph
                       /\ j.current => j = new
    BY <1>2, <1>5, CancelledKeep
<1> QED BY <1>4, <1>6 DEF JobsAreFew

(* A rendering keeps the layouts few and the graph that of now.            *)
LEMMA RenderedKeeps ==
    ASSUME CanvasInv, NEW r, NEW s, NEW again, Rendered(r, s, again),
           UNCHANGED <<page, canvas>>, page.shown = "ready", nodes # {}
    PROVE  JobsAreFew' /\ OneGraph' /\ GraphIsOfNow'
<1>1. JobsAreFew /\ OneGraph /\ graph = LayoutGraph(review, scope, graph.object)
    BY DEF CanvasInv, GraphIsOfNow
<1>2. review' = r /\ scope' = s /\ nodes' = nodes
    BY DEF Rendered, nodes
<1>3. graph' = graph \/ graph'.object = NewObject
    BY DEF Rendered, LayoutGraph
<1>4. graph' = LayoutGraph(r, s, graph'.object)
    <2>1. CASE again \/ Dependencies(r, s) # Dependencies(review, scope)
        <3>1. graph' = LayoutGraph(r, s, NewObject)
            BY <2>1 DEF Rendered
        <3>2. graph'.object = NewObject
            BY <3>1 DEF LayoutGraph
        <3> QED BY <3>1, <3>2
    <2>2. CASE ~(again \/ Dependencies(r, s) # Dependencies(review, scope))
        <3>1. graph' = graph /\ Dependencies(r, s) = Dependencies(review, scope)
            BY <2>2 DEF Rendered
        <3>2. LayoutGraph(r, s, graph.object) = LayoutGraph(review, scope, graph.object)
            BY <3>1, LayoutGraphDependsOn
        <3> QED BY <1>1, <3>1, <3>2
    <2> QED BY <2>1, <2>2
<1>5. GraphIsOfNow'
    <2>1. \A q, t, o : LayoutGraph(q, t, o)' = LayoutGraph(q, t, o)
        BY SnapshotIsSame
    <2>2. LayoutGraph(review, scope, graph.object)' = LayoutGraph(r, s, graph'.object)
        BY <1>2, <2>1
    <2> QED BY <1>2, <1>4, <2>2 DEF GraphIsOfNow
<1>6. NewObject # canvas.graph.object /\ \A j \in jobs : NewObject # j.graph.object
    BY <1>1, NewObjectIsNew DEF InUse
<1>7. CASE jobs' = jobs
    <2>1. JobsAreFew'
        BY <1>1, <1>7 DEF JobsAreFew
    <2>2. OneGraph'
        BY <1>1, <1>3, <1>6, <1>7 DEF OneGraph
    <2> QED BY <1>5, <2>1, <2>2
<1>8. CASE Cardinality(jobs) < MaxJobs /\ StartLayout(graph', r.layout.direction)
    <2>1. /\ JobsAreFew'
          /\ \A j \in jobs' : j.graph = graph' \/ \E k \in jobs : j.graph = k.graph
        BY <1>1, <1>8, StartLayoutKeeps
    <2>2. OneGraph'
        BY <1>1, <1>3, <1>6, <2>1 DEF OneGraph
    <2> QED BY <1>5, <2>1, <2>2
<1> QED BY <1>7, <1>8 DEF Rendered

-----------------------------------------------------------------------------
(* What the user does shows candidates and operations that are there.      *)
LEMMA GesturesAreCounted ==
    ASSUME IInv, CanvasInv, Gesture PROVE LoadsAreCounted'
<1>1. gestures \in Nat /\ gestures < MaxGestures /\ MaxGestures \in Nat
    BY WorkspaceAssumption DEF IInv, OnlyOneCounts, Gesture
<1>2. gestures' <= MaxGestures
    BY <1>1 DEF Gesture
<1> QED BY <1>2 DEF CanvasInv, LoadsAreCounted, Gesture

LEMMA ShowsKeepsCanvas ==
    ASSUME IInv, CanvasInv, NEW r, NEW s, NEW again, Gesture, Rendered(r, s, again),
           IsThere(r, s)
    PROVE  CanvasInv'
<1>1. UNCHANGED <<page, loads, canvas>> /\ page.shown = "ready" /\ nodes # {}
    BY DEF Gesture
<1>2. LoadsAreCounted'
    BY GesturesAreCounted
<1>3. JobsAreFew' /\ OneGraph' /\ GraphIsOfNow'
    BY <1>1, RenderedKeeps
<1>4. review' = r /\ scope' = s
    BY DEF Rendered
<1>5. IsThere(review, scope)'
    BY <1>1, <1>4 DEF IsThere, Rows, nodes
<1> QED BY <1>2, <1>3, <1>5 DEF CanvasInv

LEMMA ScopeKeepsCanvas ==
    ASSUME IInv, CanvasInv, NEW s, Shows(review, s),
           s.focus \in {scope.focus, scope.selected, NoNode},
           s.selected \in nodes \cup {NoNode}
    PROVE  CanvasInv'
<1>1. IsThere(review, s)
    BY DEF CanvasInv, IsThere
<1> QED BY <1>1, ShowsKeepsCanvas DEF Shows

LEMMA ReviewKeepsCanvas ==
    ASSUME IInv, CanvasInv, NEW r, NEW s, Shows(r, s), r.selected \in Rows(nodes) \cup {0},
           s.focus = scope.focus, s.selected = scope.selected
    PROVE  CanvasInv'
<1>1. IsThere(r, s)
    BY DEF CanvasInv, IsThere
<1> QED BY <1>1, ShowsKeepsCanvas DEF Shows
ScopeFields == {"query", "methods", "tag", "focus", "before", "selected",
                "showCandidates", "destination"}

LEMMA ScopeHasFields ==
    ASSUME IInv
    PROVE  /\ DOMAIN scope = ScopeFields /\ DOMAIN Unfocused = ScopeFields
           /\ Unfocused.focus = NoNode /\ Unfocused.selected = scope.selected
    BY DEF IInv, ScopeIsTrue, ScopeFields, Unfocused

LEMMA SearchingKeepsCanvas ==
    ASSUME IInv, CanvasInv, changeQuery \/ changeMethods \/ changeTag \/ chooseGroup
    PROVE  CanvasInv'
<1>1. ASSUME NEW s, Shows(review, s), s.focus = NoNode,
             s.selected \in {scope.selected, NoNode}
      PROVE  CanvasInv'
    <2>1. s.selected \in nodes \cup {NoNode}
        BY <1>1 DEF CanvasInv, IsThere
    <2> QED BY <1>1, <2>1, ScopeKeepsCanvas
<1>2. CASE changeQuery
    <2>1. PICK q : Shows(review, [Unfocused EXCEPT !.query = q])
        BY <1>2 DEF changeQuery
    <2> DEFINE s == [Unfocused EXCEPT !.query = q]
    <2>2. s.focus = NoNode /\ s.selected = scope.selected
        BY ScopeHasFields DEF ScopeFields
    <2> QED BY <1>1, <2>1, <2>2
<1>3. CASE changeMethods
    <2>1. PICK m : Shows(review, [Unfocused EXCEPT !.methods = m])
        BY <1>3 DEF changeMethods
    <2> DEFINE s == [Unfocused EXCEPT !.methods = m]
    <2>2. s.focus = NoNode /\ s.selected = scope.selected
        BY ScopeHasFields DEF ScopeFields
    <2> QED BY <1>1, <2>1, <2>2
<1>4. CASE changeTag
    <2>1. PICK t : Shows(review, [Unfocused EXCEPT !.tag = t])
        BY <1>4 DEF changeTag
    <2> DEFINE s == [Unfocused EXCEPT !.tag = t]
    <2>2. s.focus = NoNode /\ s.selected = scope.selected
        BY ScopeHasFields DEF ScopeFields
    <2> QED BY <1>1, <2>1, <2>2
<1>5. CASE chooseGroup
    <2> DEFINE group(t) == [Unfocused EXCEPT !.query = Anything, !.methods = {},
                                             !.tag = t, !.selected = NoNode]
               s(t, d) == [group(t) EXCEPT !.destination = d]
    <2>1. PICK t \in Tags, d \in Destinations : Shows(review, s(t, d))
        BY <1>5 DEF chooseGroup, Canvas, Destinations
    <2>2. s(t, d).focus = NoNode /\ s(t, d).selected = NoNode
        BY ScopeHasFields DEF ScopeFields
    <2> QED BY <1>1, <2>1, <2>2
<1> QED BY <1>2, <1>3, <1>4, <1>5

LEMMA MovingKeepsCanvas ==
    ASSUME IInv, CanvasInv, select \/ toggleCandidates \/ navigate \/ focusSelected
    PROVE  CanvasInv'
<1>1. ASSUME NEW s, Shows(review, s), s.focus \in {scope.focus, scope.selected},
             s.selected \in nodes \cup {NoNode}
      PROVE  CanvasInv'
    BY <1>1, ScopeKeepsCanvas
<1>2. scope.selected \in nodes \cup {NoNode}
    BY DEF CanvasInv, IsThere
<1>3. CASE select
    <2>1. PICK n \in nodes \cup {NoNode} : Shows(review, [scope EXCEPT !.selected = n])
        BY <1>3 DEF select, Visible
    <2> DEFINE s == [scope EXCEPT !.selected = n]
    <2>2. s.focus = scope.focus /\ s.selected = n
        BY ScopeHasFields DEF ScopeFields
    <2> QED BY <1>1, <2>1, <2>2
<1>4. CASE toggleCandidates
    <2> DEFINE s == [scope EXCEPT !.showCandidates = ~@]
    <2>1. Shows(review, s)
        BY <1>4 DEF toggleCandidates
    <2>2. s.focus = scope.focus /\ s.selected = scope.selected
        BY ScopeHasFields DEF ScopeFields
    <2> QED BY <1>1, <1>2, <2>1, <2>2
<1>5. CASE navigate
    <2>1. PICK d : Shows(review, [scope EXCEPT !.destination = d])
        BY <1>5 DEF navigate
    <2> DEFINE s == [scope EXCEPT !.destination = d]
    <2>2. s.focus = scope.focus /\ s.selected = scope.selected
        BY ScopeHasFields DEF ScopeFields
    <2> QED BY <1>1, <1>2, <2>1, <2>2
<1>6. CASE focusSelected
    <2> DEFINE s(d) == [scope EXCEPT !.before = BeforeFocus(scope), !.query = Anything,
                                     !.methods = {}, !.tag = Anything,
                                     !.focus = scope.selected, !.destination = d]
    <2>1. PICK d \in Destinations : Shows(review, s(d))
        BY <1>6 DEF focusSelected, Canvas, Destinations
    <2>2. s(d).focus = scope.selected /\ s(d).selected = scope.selected
        BY ScopeHasFields DEF ScopeFields
    <2> QED BY <1>1, <1>2, <2>1, <2>2
<1> QED BY <1>3, <1>4, <1>5, <1>6

LEMMA ClearFocusKeepsCanvas ==
    ASSUME IInv, CanvasInv, clearFocus PROVE CanvasInv'
<1> DEFINE s == [Unfocused EXCEPT !.query = scope.before.query,
                   !.methods = scope.before.methods, !.tag = scope.before.tag,
                   !.destination = scope.before.destination]
           t == [scope EXCEPT !.focus = NoNode]
<1>1. Gesture /\ (Rendered(review, s, FALSE) \/ Rendered(review, t, FALSE))
    BY DEF clearFocus
<1>2. /\ s.focus = NoNode /\ s.selected = scope.selected
      /\ t.focus = NoNode /\ t.selected = scope.selected
    BY ScopeHasFields DEF ScopeFields
<1>3. IsThere(review, s) /\ IsThere(review, t)
    BY <1>2 DEF CanvasInv, IsThere
<1> QED BY <1>1, <1>3, ShowsKeepsCanvas

LEMMA FilteringKeepsCanvas ==
    ASSUME IInv, CanvasInv, setFilter \/ selectCandidate PROVE CanvasInv'
<1>1. ASSUME NEW r, Reviews(r), r.selected \in Rows(nodes) \cup {0} PROVE CanvasInv'
    BY <1>1, ReviewKeepsCanvas DEF Reviews
<1>2. CASE setFilter
    <2>1. PICK f : Reviews([review EXCEPT !.filters = f])
        BY <1>2 DEF setFilter, Filters
    <2>2. [review EXCEPT !.filters = f].selected = review.selected
        BY ReviewFields
    <2> QED BY <1>1, <2>1, <2>2 DEF CanvasInv, IsThere
<1>3. CASE selectCandidate
    <2>1. PICK c \in Rows(nodes) \cup {0} : Reviews([review EXCEPT !.selected = c])
        BY <1>3 DEF selectCandidate, Listed
    <2>2. [review EXCEPT !.selected = c].selected = c
        BY ReviewFields
    <2> QED BY <1>1, <2>1, <2>2
<1> QED BY <1>2, <1>3

LEMMA BestIsPending ==
    ASSUME NEW r, Pending(r.drafts, nodes) # {}
    PROVE  Best(Pending(r.drafts, nodes)) \in Pending(r.drafts, nodes)
    BY SuggestedArePending, OneIsChosen

LEMMA OpeningKeepsCanvas ==
    ASSUME IInv, CanvasInv, reviewCandidate \/ openReview PROVE CanvasInv'
<1> DEFINE s == [scope EXCEPT !.destination = "inference-review"]
<1>1. s.focus = scope.focus /\ s.selected = scope.selected
    BY ScopeHasFields DEF ScopeFields
<1>2. CASE openReview
    <2>1. [review EXCEPT !.selected = 0].selected = 0
        BY ReviewFields
    <2> QED BY <1>1, <1>2, <2>1, ReviewKeepsCanvas DEF openReview
<1>3. CASE reviewCandidate
    <2>1. PICK c \in Pending(review.drafts, nodes) :
            Shows([review EXCEPT !.filters = ShowingIt(@, c), !.selected = c], s)
        BY <1>3, PreviewedClosesNone, BestIsPending DEF reviewCandidate, IInv, OnlyOneCounts
    <2>2. /\ [review EXCEPT !.filters = ShowingIt(@, c), !.selected = c].selected = c
          /\ c \in Rows(nodes)
        BY ReviewFields DEF Pending
    <2> QED BY <1>1, <2>1, <2>2, ReviewKeepsCanvas
<1> QED BY <1>2, <1>3

LEMMA LayoutKeepsCanvas ==
    ASSUME IInv, CanvasInv, setDirection \/ moveNode PROVE CanvasInv'
<1>1. ASSUME NEW layout, Shows([review EXCEPT !.layout = layout], scope) PROVE CanvasInv'
    <2>1. [review EXCEPT !.layout = layout].selected = review.selected
        BY ReviewFields
    <2> QED BY <1>1, <2>1, ReviewKeepsCanvas DEF CanvasInv, IsThere
<1>2. CASE setDirection
    BY <1>1, <1>2 DEF setDirection
<1>3. CASE moveNode
    <2>1. PICK n : Shows([review EXCEPT !.layout.moved = @ \cup {n}], scope)
        BY <1>3 DEF moveNode
    <2>2. [review EXCEPT !.layout.moved = @ \cup {n}] =
          [review EXCEPT !.layout = [review.layout EXCEPT !.moved = @ \cup {n}]]
        OBVIOUS
    <2> QED BY <1>1, <2>1, <2>2
<1> QED BY <1>2, <1>3

(* Who still waits: listed before the decision and after it.               *)
Waiting(c, drafts) ==
    (Listed(review.drafts, review.filters, nodes) \ {c})
    \cap Listed(drafts, review.filters, nodes) \cap Pending(drafts, nodes)

LEMMA NextWaitingWaits ==
    ASSUME NEW c, NEW drafts
    PROVE  IF Waiting(c, drafts) = {} THEN NextWaiting(c, drafts) = c
           ELSE NextWaiting(c, drafts) \in Waiting(c, drafts)
<1> DEFINE list == Listed(review.drafts, review.filters, nodes)
           waiting == Waiting(c, drafts)
           after == {d \in waiting : c \in list /\ ListOrder(c, d)}
<1>1. waiting \subseteq DOMAIN Candidates
    BY DEF Waiting, Pending, Rows
<1>2. after \subseteq waiting
    OBVIOUS
<1>3. NextWaiting(c, drafts) = IF waiting = {} THEN c
                               ELSE FirstListed(IF after = {} THEN waiting ELSE after)
    BY DEF NextWaiting, Waiting
<1> HIDE DEF waiting, after
<1>4. /\ waiting # {} => FirstListed(waiting) \in waiting
      /\ after # {} => FirstListed(after) \in after
    BY <1>1, <1>2, OneIsChosen
<1>5. IF waiting = {} THEN NextWaiting(c, drafts) = c ELSE NextWaiting(c, drafts) \in waiting
    BY <1>2, <1>3, <1>4
<1> QED BY <1>5 DEF waiting

LEMMA DecidingKeepsCanvas ==
    ASSUME IInv, CanvasInv, undoLatestChange \/ \E action \in DOMAIN StateAfter : decide(action)
    PROVE  CanvasInv'
<1>1. ASSUME NEW drafts, NEW c \in Rows(nodes) \cup {0},
             Reviews([review EXCEPT !.drafts = drafts, !.selected = c])
      PROVE  CanvasInv'
    <2>1. [review EXCEPT !.drafts = drafts, !.selected = c].selected = c
        BY ReviewFields
    <2> QED BY <1>1, <2>1, ReviewKeepsCanvas DEF Reviews
<1>2. ASSUME NEW action \in DOMAIN StateAfter, decide(action) PROVE CanvasInv'
    <2> DEFINE c == review.selected
               drafts == Append(review.drafts, [action |-> action, candidate |-> c])
    <2>1. c \in Rows(nodes)
        BY <1>2 DEF decide
    <2>2. NextWaiting(c, drafts) \in Rows(nodes)
        BY <2>1, NextWaitingWaits DEF Waiting, Pending
    <2>3. Reviews([review EXCEPT !.drafts = drafts,
                       !.selected = IF action = "edit" THEN c ELSE NextWaiting(c, drafts)])
        BY <1>2 DEF decide
    <2> HIDE DEF c, drafts
    <2>4. PICK d \in Rows(nodes) : Reviews([review EXCEPT !.drafts = drafts, !.selected = d])
        BY <2>1, <2>2, <2>3
    <2> QED BY <1>1, <2>4
<1>3. ASSUME undoLatestChange PROVE CanvasInv'
    <2> DEFINE c == Last(review.drafts).candidate
               drafts == Front(review.drafts)
               d == IF c \in Listed(drafts, review.filters, nodes) THEN c ELSE review.selected
    <2>1. Reviews([review EXCEPT !.drafts = drafts, !.selected = d])
        BY <1>3, ReviewFields DEF undoLatestChange
    <2>2. d \in Rows(nodes) \cup {0}
        BY DEF Listed, CanvasInv, IsThere
    <2> HIDE DEF drafts, d
    <2> QED BY <1>1, <2>1, <2>2
<1> QED BY <1>2, <1>3
-----------------------------------------------------------------------------
(* The dialog, the late answers and the loading.                           *)
LEMMA QuietCanvas ==
    ASSUME CanvasInv, UNCHANGED <<page, review, scope, graph, jobs, canvas>>,
           LoadsAreCounted'
    PROVE  CanvasInv'
<1>1. IsThere(review, scope)' /\ JobsAreFew' /\ OneGraph'
    BY DEF CanvasInv, IsThere, Rows, nodes, JobsAreFew, OneGraph
<1>2. \A r, s, o : LayoutGraph(r, s, o)' = LayoutGraph(r, s, o)
    BY SnapshotIsSame
<1>3. LayoutGraph(review, scope, graph.object)' = LayoutGraph(review, scope, graph.object)
    BY <1>2
<1>4. GraphIsOfNow'
    BY <1>3 DEF CanvasInv, GraphIsOfNow, nodes
<1> QED BY <1>1, <1>4 DEF CanvasInv

LEMMA DialogKeepsCanvas ==
    ASSUME IInv, CanvasInv,
           openDialog \/ closeDialog \/ loadProject \/ cancelLoad \/ applyProject \/ resetLayout
    PROVE  CanvasInv'
<1>1. Gesture /\ LoadsAreCounted' /\ UNCHANGED <<page, canvas>>
    <2>1. Gesture
        BY DEF openDialog, closeDialog, loadProject, cancelLoad, applyProject, resetLayout
    <2> QED BY <2>1, GesturesAreCounted DEF Gesture
<1>2. CASE openDialog \/ closeDialog \/ loadProject \/ cancelLoad
    <2>1. UNCHANGED <<review, scope, graph, jobs>>
        BY <1>2 DEF openDialog, closeDialog, loadProject, cancelLoad
    <2> QED BY <1>1, <2>1, QuietCanvas
<1>3. ASSUME NEW r, NEW again, Rendered(r, scope, again), r.selected = review.selected
      PROVE  CanvasInv'
    <2>1. IsThere(r, scope)
        BY <1>3 DEF CanvasInv, IsThere
    <2> QED BY <1>1, <1>3, <2>1, ShowsKeepsCanvas
<1>4. CASE applyProject
    <2> DEFINE r == [review EXCEPT !.drafts = dialog.incoming.drafts,
                                   !.layout = dialog.incoming.layout]
    <2>1. Rendered(r, scope, TRUE)
        BY <1>4 DEF applyProject
    <2>2. r.selected = review.selected
        BY ReviewFields
    <2> HIDE DEF r
    <2> QED BY <1>3, <2>1, <2>2
<1>5. CASE resetLayout
    <2> DEFINE r == [review EXCEPT !.layout = DefaultLayout]
    <2>1. Rendered(r, scope, FALSE)
        BY <1>5 DEF resetLayout
    <2>2. r.selected = review.selected
        BY ReviewFields
    <2> HIDE DEF r
    <2> QED BY <1>3, <2>1, <2>2
<1> QED BY <1>2, <1>4, <1>5

LEMMA AnswersKeepCanvas ==
    ASSUME IInv, CanvasInv,
           (\E f \in reading : ProjectRead(f)) \/ (\E j \in jobs : LayoutAnswers(j))
    PROVE  CanvasInv'
<1>1. ASSUME NEW f, ProjectRead(f) PROVE CanvasInv'
    <2>1. UNCHANGED <<page, review, scope, graph, jobs, canvas>> /\ LoadsAreCounted'
        BY <1>1 DEF ProjectRead, CanvasInv, LoadsAreCounted
    <2> QED BY <2>1, QuietCanvas
<1>2. ASSUME NEW j, LayoutAnswers(j) PROVE CanvasInv'
    <2>1. /\ j \in jobs /\ jobs' = jobs \ {j}
          /\ UNCHANGED <<page, loads, review, scope, graph, gestures>>
          /\ canvas'.graph = j.graph \/ canvas' = canvas
        BY <1>2 DEF LayoutAnswers
    <2>2. IsFiniteSet(jobs') /\ Cardinality(jobs') <= MaxJobs
        <3>1. /\ IsFiniteSet(jobs) /\ Cardinality(jobs) <= MaxJobs /\ MaxJobs \in Nat
              /\ jobs' \subseteq jobs
            BY <2>1, WorkspaceAssumption DEF CanvasInv, JobsAreFew
        <3>2. /\ IsFiniteSet(jobs') /\ Cardinality(jobs') <= Cardinality(jobs)
              /\ Cardinality(jobs) \in Nat /\ Cardinality(jobs') \in Nat
            BY <3>1, FS_Subset, FS_CardinalityType
        <3> QED BY <3>1, <3>2
    <2>3. JobsAreFew' /\ OneGraph'
        BY <2>1, <2>2 DEF CanvasInv, JobsAreFew, OneGraph
    <2>4. page.shown = "ready" /\ nodes # {}
        BY <2>1 DEF CanvasInv, GraphIsOfNow
    <2>5. \A r, s, o : LayoutGraph(r, s, o)' = LayoutGraph(r, s, o)
        BY <2>1, SnapshotIsSame
    <2>6. LayoutGraph(review, scope, graph.object)' = LayoutGraph(review, scope, graph.object)
        BY <2>1, <2>5
    <2>7. GraphIsOfNow'
        BY <2>1, <2>4, <2>6 DEF CanvasInv, GraphIsOfNow, nodes
    <2>8. LoadsAreCounted' /\ IsThere(review, scope)'
        BY <2>1 DEF CanvasInv, LoadsAreCounted, IsThere, Rows, nodes
    <2> QED BY <2>3, <2>7, <2>8 DEF CanvasInv
<1> QED BY <1>1, <1>2

(* Until the workspace is there, the page changes without it.              *)
LEMMA PageKeepsCanvas ==
    ASSUME CanvasInv, UNCHANGED shell, page'.snapshot = page.snapshot, LoadsAreCounted',
           page.shown # "ready", page'.shown # "ready" \/ nodes = {}
    PROVE  CanvasInv'
<1>1. nodes' = nodes
    BY DEF nodes
<1>2. UNCHANGED <<review, scope, graph, jobs, canvas>>
    BY DEF shell
<1>3. IsThere(review, scope)' /\ JobsAreFew' /\ OneGraph' /\ GraphIsOfNow'
    BY <1>1, <1>2 DEF CanvasInv, IsThere, Rows, JobsAreFew, OneGraph, GraphIsOfNow
<1> QED BY <1>3 DEF CanvasInv

LEMMA ReloadKeepsCanvas ==
    ASSUME IInv, CanvasInv, NEW entry, Reload(entry), page.shown # "ready"
    PROVE  CanvasInv'
<1>1. /\ page' = [page EXCEPT !.entry = entry, !.started = @ + 1, !.shown = "loading"]
      /\ loads' = {[l EXCEPT !.current = FALSE] : l \in loads} \cup {Load(page.started + 1, TRUE)}
      /\ UNCHANGED shell /\ page.started < MaxLoads
    BY DEF Reload
<1>2. page.started \in Nat /\ MaxLoads \in Nat /\ loads \subseteq AllLoads
    BY WorkspaceAssumption DEF IInv, OnlyOneCounts, AllLoads
<1>3. /\ page'.snapshot = page.snapshot /\ page'.shown = "loading"
      /\ page'.started = page.started + 1
    BY <1>1 DEF IInv, OnlyOneCounts
<1> DEFINE f == [l \in loads |-> [l EXCEPT !.current = FALSE]]
           new == Load(page.started + 1, TRUE)
<1>4. new.number = page.started + 1 /\ new.current
    BY DEF Load
<1>5. \A l \in loads : f[l].number = l.number
    BY <1>2 DEF AllLoads
<1>6. loads' = {f[l] : l \in loads} \cup {new}
    BY <1>1
<1> HIDE DEF f, new
<1>7. IsFiniteSet(loads')
    <2>1. IsFiniteSet({f[l] : l \in loads})
        BY ImageIsFinite DEF CanvasInv, LoadsAreCounted
    <2> QED BY <1>6, <2>1, OneMore
<1>8. \A l \in loads' : l.number >= 1 /\ l.number <= page.started + 1
    <2>1. \A l \in loads : l.number \in Nat /\ l.number >= 1 /\ l.number <= page.started
        BY <1>2 DEF CanvasInv, LoadsAreCounted, AllLoads
    <2>2. \A l \in loads : f[l].number >= 1 /\ f[l].number <= page.started + 1
        BY <1>2, <1>5, <2>1
    <2>3. new.number >= 1 /\ new.number <= page.started + 1
        BY <1>2, <1>4
    <2> QED BY <1>6, <2>2, <2>3
<1>9. LoadsAreCounted'
    <2>1. page'.started <= MaxLoads
        BY <1>1, <1>2, <1>3
    <2>2. \E l \in loads' : l.current
        BY <1>4, <1>6
    <2>3. gestures' <= MaxGestures
        BY <1>1 DEF shell, CanvasInv, LoadsAreCounted
    <2> QED BY <1>3, <1>7, <1>8, <2>1, <2>2, <2>3 DEF LoadsAreCounted
<1> QED BY <1>1, <1>3, <1>9, PageKeepsCanvas

LEMMA MountKeepsCanvas ==
    ASSUME CanvasInv, NEW project, Mount(project), page.shown # "ready", nodes # {},
           page'.snapshot = page.snapshot, page'.shown = "ready", LoadsAreCounted'
    PROVE  CanvasInv'
<1>1. /\ graph' = LayoutGraph(review, scope, 1) /\ StartLayout(graph', review.layout.direction)
      /\ UNCHANGED <<review, scope, canvas>>
    BY DEF Mount
<1>2. jobs = {} /\ canvas = NoLayout /\ JobsAreFew
    BY DEF CanvasInv, GraphIsOfNow
<1>3. graph'.object = 1 /\ canvas.graph.object = 0
    BY <1>1, <1>2 DEF LayoutGraph, NoLayout, NoGraph
<1>4. JobsAreFew' /\ \A j \in jobs' : j.graph = graph'
    <2>1. Cardinality(jobs) < MaxJobs
        BY <1>2, FS_EmptySet, WorkspaceAssumption
    <2> QED BY <1>1, <1>2, <2>1, StartLayoutKeeps
<1>5. OneGraph'
    BY <1>1, <1>3, <1>4 DEF OneGraph
<1>6. GraphIsOfNow'
    <2>1. \A r, s, o : LayoutGraph(r, s, o)' = LayoutGraph(r, s, o)
        BY SnapshotIsSame
    <2>2. LayoutGraph(review, scope, graph.object)' = LayoutGraph(review, scope, 1)
        BY <1>1, <1>3, <2>1
    <2>3. nodes' = nodes
        BY DEF nodes
    <2> QED BY <1>1, <2>2, <2>3 DEF GraphIsOfNow
<1>7. IsThere(review, scope)'
    <2>1. nodes' = nodes
        BY DEF nodes
    <2> QED BY <1>1, <2>1 DEF CanvasInv, IsThere, Rows
<1> QED BY <1>4, <1>5, <1>6, <1>7 DEF CanvasInv

LEMMA LoadAnswersKeepsCanvas ==
    ASSUME IInv, CanvasInv, NEW l, LoadAnswers(l) PROVE CanvasInv'
<1>1. /\ l \in loads /\ loads \subseteq AllLoads /\ IsFiniteSet(loads)
      /\ l.current => page.shown = "loading"
    BY DEF IInv, OnlyOneCounts, AllLoads, LoadAnswers, CanvasInv, LoadsAreCounted
<1>2. IsFiniteSet(loads \ {l})
    BY <1>1, FS_RemoveElement
<1>3. CASE /\ loads' = (loads \ {l}) \cup {[l EXCEPT !.at = "project"]}
           /\ UNCHANGED <<page, shell>>
    <2> DEFINE k == [l EXCEPT !.at = "project"]
    <2>1. k.current = l.current /\ k.number = l.number
        BY <1>1 DEF AllLoads
    <2>2. IsFiniteSet(loads')
        BY <1>2, <1>3, OneMore
    <2> HIDE DEF k
    <2>3. \A i \in loads' : i \in loads \/ i = k
        BY <1>3 DEF k
    <2>4. \A i \in loads' : i.number >= 1 /\ i.number <= page.started
        BY <1>1, <2>1, <2>3 DEF CanvasInv, LoadsAreCounted
    <2>5. page.shown = "loading" => \E i \in loads' : i.current
        <3>1. k \in loads' /\ \A i \in loads : i = l \/ i \in loads'
            BY <1>3 DEF k
        <3> QED BY <2>1, <3>1 DEF CanvasInv, LoadsAreCounted
    <2>6. LoadsAreCounted'
        BY <1>3, <2>2, <2>4, <2>5 DEF CanvasInv, LoadsAreCounted, shell
    <2> QED BY <1>3, <2>6, QuietCanvas DEF shell
<1>4. CASE loads' = loads \ {l} /\ ~l.current /\ UNCHANGED <<page, shell>>
    <2>1. page.shown = "loading" => \E i \in loads' : i.current
        BY <1>4 DEF CanvasInv, LoadsAreCounted
    <2>2. LoadsAreCounted'
        BY <1>2, <1>4, <2>1 DEF CanvasInv, LoadsAreCounted, shell
    <2> QED BY <1>4, <2>2, QuietCanvas DEF shell
<1>5. CASE /\ loads' = loads \ {l} /\ l.current
           /\ page' = [page EXCEPT !.shown = "error"] /\ UNCHANGED shell
    <2>1. /\ page'.shown = "error" /\ page'.started = page.started
          /\ page'.snapshot = page.snapshot
        BY <1>5 DEF IInv, OnlyOneCounts
    <2>2. LoadsAreCounted'
        BY <1>2, <1>5, <2>1 DEF CanvasInv, LoadsAreCounted, shell
    <2> QED BY <1>1, <1>5, <2>1, <2>2, PageKeepsCanvas
<1>6. CASE /\ loads' = loads \ {l} /\ l.current
           /\ \E project \in Projects \cup {NoFile} : Opens(project)
    <2>1. PICK project \in Projects \cup {NoFile} : Opens(project)
        BY <1>6
    <2>2. /\ page'.shown = "ready" /\ page'.started = MaxLoads
          /\ page'.snapshot = page.snapshot
        BY <2>1 DEF IInv, OnlyOneCounts, Opens
    <2>3. gestures' = gestures
        BY <2>1 DEF Opens, Mount, shell
    <2>4. \A i \in loads' : i.number >= 1 /\ i.number <= MaxLoads
        <3>1. \A i \in loads : i.number \in Nat /\ i.number >= 1 /\ i.number <= page.started
            BY <1>1 DEF CanvasInv, LoadsAreCounted, AllLoads
        <3>2. page.started \in Nat /\ page.started <= MaxLoads /\ MaxLoads \in Nat
            BY WorkspaceAssumption DEF IInv, OnlyOneCounts, CanvasInv, LoadsAreCounted
        <3>3. \A i \in loads : i.number >= 1 /\ i.number <= MaxLoads
            BY <3>1, <3>2
        <3> QED BY <1>6, <3>3
    <2>5. LoadsAreCounted'
        <3>1. MaxLoads <= MaxLoads
            BY WorkspaceAssumption
        <3> QED BY <1>2, <1>6, <2>2, <2>3, <2>4, <3>1 DEF CanvasInv, LoadsAreCounted
    <2>6. CASE nodes = {}
        <3>1. UNCHANGED shell
            BY <2>1, <2>6 DEF Opens
        <3> QED BY <1>1, <1>6, <2>2, <2>5, <2>6, <3>1, PageKeepsCanvas
    <2>7. CASE nodes # {}
        <3>1. Mount(project)
            BY <2>1, <2>7 DEF Opens
        <3> QED BY <1>1, <1>6, <2>2, <2>5, <2>7, <3>1, MountKeepsCanvas
    <2> QED BY <2>6, <2>7
<1> QED BY <1>3, <1>4, <1>5, <1>6 DEF LoadAnswers, Counts

-----------------------------------------------------------------------------
LEMMA InitCanvas == Init => CanvasInv
<1> SUFFICES ASSUME Init PROVE CanvasInv
    OBVIOUS
<1>1. PICK entry \in Entries, s \in Snapshots :
        page = [entry |-> entry, snapshot |-> s, started |-> 2,
                shown |-> IF entry = "plain" THEN "welcome" ELSE "loading"]
    BY DEF Init
<1>2. MaxLoads \in Nat /\ MaxLoads >= 2 /\ MaxGestures \in Nat /\ MaxJobs \in Nat
    BY WorkspaceAssumption
<1>3. LoadsAreCounted
    <2> DEFINE a == Load(1, FALSE)
               b == Load(2, TRUE)
    <2>1. \/ loads = {} /\ page.shown = "welcome"
          \/ loads = {a} \cup {b} /\ page.shown = "loading"
        BY <1>1 DEF Init
    <2>2. a.number = 1 /\ b.number = 2 /\ b.current
        BY DEF Load
    <2> HIDE DEF a, b
    <2>3. IsFiniteSet(loads)
        <3>1. IsFiniteSet({a} \cup {b})
            BY FS_Singleton, OneMore
        <3> QED BY <2>1, <3>1, FS_EmptySet
    <2>4. gestures = 0 /\ page.started = 2 /\ 2 <= MaxLoads /\ 0 <= MaxGestures
        BY <1>1, <1>2 DEF Init
    <2>5. \A l \in loads : l.number = 1 \/ l.number = 2
        BY <2>1, <2>2
    <2>6. page.shown = "loading" => \E l \in loads : l.current
        BY <2>1, <2>2
    <2>7. \A l \in loads : l.number >= 1 /\ l.number <= page.started
        BY <2>4, <2>5
    <2>8. page.started <= MaxLoads /\ gestures <= MaxGestures
        BY <2>4
    <2> QED BY <2>1, <2>3, <2>6, <2>7, <2>8 DEF LoadsAreCounted
<1>4. IsThere(review, scope)
    BY DEF Init, IsThere
<1>5. jobs = {} /\ graph = NoGraph /\ canvas = NoLayout /\ page.shown # "ready"
    BY <1>1 DEF Init
<1>6. JobsAreFew
    BY <1>2, <1>5, FS_EmptySet DEF JobsAreFew
<1>7. OneGraph /\ GraphIsOfNow
    BY <1>5 DEF OneGraph, GraphIsOfNow, NoLayout
<1> QED BY <1>3, <1>4, <1>6, <1>7 DEF CanvasInv

LEMMA NextKeepsCanvas == IInv /\ CanvasInv /\ [Next]_vars => CanvasInv'
<1> SUFFICES ASSUME IInv, CanvasInv, [Next]_vars PROVE CanvasInv'
    OBVIOUS
<1>1. CASE UNCHANGED vars
    BY <1>1, QuietCanvas DEF vars, shell, CanvasInv, LoadsAreCounted
<1>2. CASE ExploreSample \/ Retry
    BY <1>2, ReloadKeepsCanvas DEF ExploreSample, Retry
<1>3. CASE Next
    BY <1>2, <1>3, LoadAnswersKeepsCanvas, SearchingKeepsCanvas, MovingKeepsCanvas,
       ClearFocusKeepsCanvas, LayoutKeepsCanvas, OpeningKeepsCanvas, FilteringKeepsCanvas,
       DecidingKeepsCanvas, DialogKeepsCanvas, AnswersKeepCanvas
    DEF Next
<1> QED BY <1>1, <1>3

(* What is drawn was laid out: it is of the graph that is there.           *)
LEMMA CanvasInvGives == IInv /\ CanvasInv => CanvasIsTrue
<1> SUFFICES ASSUME IInv, CanvasInv PROVE CanvasIsTrue
    OBVIOUS
<1>1. PreviewIsAcyclic
    BY PreviewStaysAcyclic DEF IInv, OnlyOneCounts
<1>2. CanvasIsLaidOut
    <2>1. SUFFICES ASSUME CanvasShown
          PROVE  LET seen == Visible(review, scope)
                     drawn == Within(Accepted(review), seen)
                              \cup {Ends(c) : c \in Previewed(review, scope)}
                 IN  /\ seen \subseteq canvas.graph.nodes
                     /\ drawn \subseteq canvas.graph.edges
                     /\ canvas.direction = review.layout.direction
        BY DEF CanvasIsLaidOut
    <2>2. canvas.graph = graph /\ canvas.direction = review.layout.direction
        BY <2>1 DEF CanvasShown, CanvasInv, OneGraph
    <2>3. review.layout.direction \in {"right", "down"}
        BY DEF IInv, Saves, Layouts
    <2>4. graph = LayoutGraph(review, scope, graph.object)
        BY <2>2, <2>3 DEF CanvasInv, GraphIsOfNow, NoLayout
    <2>5. Visible(review, scope) \subseteq Base(review, scope)
        BY DEF Base, Visible
    <2>6. /\ graph.nodes = Base(review, scope)
          /\ graph.edges = Within(Accepted(review), Base(review, scope))
                           \cup {Ends(c) : c \in Previewed(review, scope)}
        BY <2>4 DEF LayoutGraph
    <2> QED BY <2>2, <2>5, <2>6 DEF Within
<1>3. TypeOK
    <2>1. /\ page.shown \in {"welcome", "loading", "error", "ready"}
          /\ \A l \in loads : l.number \in 1 .. page.started
        BY DEF IInv, OnlyOneCounts, CanvasInv, LoadsAreCounted
    <2>2. Cardinality({l \in loads : l.current}) = (IF page.shown = "loading" THEN 1 ELSE 0)
        <3> DEFINE M == {l \in loads : l.current}
        <3>1. CASE page.shown = "loading"
            <4>1. PICK l \in loads : l.current
                BY <3>1 DEF CanvasInv, LoadsAreCounted
            <4>2. M = {l}
                BY <4>1 DEF IInv, OnlyOneCounts
            <4>3. Cardinality({l}) = 1
                BY FS_Singleton
            <4> QED BY <3>1, <4>2, <4>3
        <3>2. CASE page.shown # "loading"
            <4>1. M = {}
                BY <3>2 DEF IInv, OnlyOneCounts
            <4> QED BY <3>2, <4>1, FS_EmptySet
        <3> QED BY <3>1, <3>2
    <2>3. /\ DOMAIN review = {"drafts", "layout", "selected", "filters"}
          /\ review.layout.moved \subseteq nodes
          /\ scope.destination \in Destinations
        BY DEF IInv, Saves, parsesProject, serializeProject, ScopeIsTrue, Remembers
    <2>4. /\ review.selected \in Rows(nodes) \cup {0}
          /\ {scope.focus, scope.selected} \subseteq nodes \cup {NoNode}
        BY DEF CanvasInv, IsThere
    <2>5. Cardinality({j \in jobs : j.current}) <= 1
        <3> DEFINE M == {j \in jobs : j.current}
        <3>1. \A a \in M, b \in M : a = b
            BY DEF CanvasInv, JobsAreFew
        <3> HIDE DEF M
        <3>2. Cardinality(M) <= 1
            BY <3>1, OneAtMost
        <3> QED BY <3>2 DEF M
    <2>6. gestures \in 0 .. MaxGestures
        BY WorkspaceAssumption DEF IInv, OnlyOneCounts, CanvasInv, LoadsAreCounted
    <2> QED BY <2>1, <2>2, <2>3, <2>4, <2>5, <2>6 DEF TypeOK
<1> QED BY <1>1, <1>2, <1>3 DEF CanvasIsTrue

(* The canvas never draws what was not laid out, nor a suggestion that     *)
(* closes a cycle, whatever the user does while a layout is computed       *)
(* (workspace-shell.tsx, exploration-model.ts).                            *)
THEOREM CanvasIsAlwaysTrue == Spec => []CanvasIsTrue
<1>1. Spec => []CanvasInv
    BY InitCanvas, NextKeepsCanvas, InvariantHolds, PTL DEF Spec
<1> QED BY <1>1, InvariantHolds, CanvasInvGives, PTL
-----------------------------------------------------------------------------
(* A decision changes the state of its own candidate.                      *)
LEMMA StateAfterDecision ==
    ASSUME NEW drafts \in Seq(Drafts), NEW d \in Drafts, NEW c
    PROVE  StateOf(Append(drafts, d), c) =
             IF c = d.candidate THEN StateAfter[d.action] ELSE StateOf(drafts, c)
<1> DEFINE new == Append(drafts, d)
           n == Len(drafts)
           About(D) == {i \in DOMAIN D : D[i].candidate = c}
           Latest(A) == CHOOSE i \in A : \A j \in A : j <= i
<1>1. /\ n \in Nat /\ DOMAIN drafts = 1 .. n /\ DOMAIN new = 1 .. n + 1
      /\ new[n + 1] = d /\ \A i \in 1 .. n : new[i] = drafts[i] /\ i \in 1 .. n + 1
      /\ n + 1 \in 1 .. n + 1
    OBVIOUS
<1>2. \A D : StateOf(D, c) = IF About(D) = {} THEN "pending"
                             ELSE StateAfter[D[Latest(About(D))].action]
    BY DEF StateOf
<1>3. CASE c = d.candidate
    <2>1. n + 1 \in About(new) /\ About(new) \subseteq 1 .. n + 1
        BY <1>1, <1>3
    <2>2. \A i \in About(new) : i <= n + 1 /\ (n + 1 <= i => i = n + 1)
        BY <1>1, <2>1
    <2>3. Latest(About(new)) = n + 1
        <3> DEFINE A == About(new)
        <3> HIDE DEF About, A, new
        <3>1. n + 1 \in A /\ \A i \in A : i <= n + 1 /\ (n + 1 <= i => i = n + 1)
            BY <2>1, <2>2 DEF A
        <3>2. Latest(A) \in A /\ \A j \in A : j <= Latest(A)
            BY <3>1
        <3>3. Latest(A) = n + 1
            <4> HIDE DEF Latest
            <4> QED BY <3>1, <3>2
        <3> QED BY <3>3 DEF A
    <2> HIDE DEF Latest, About, new
    <2> QED BY <1>1, <1>2, <1>3, <2>1, <2>3 DEF new
<1>4. CASE c # d.candidate
    <2>1. About(new) = About(drafts)
        <3>1. \A i : i \in 1 .. n + 1 => i \in 1 .. n \/ i = n + 1
            BY <1>1
        <3> HIDE DEF new
        <3> QED BY <1>1, <1>4, <3>1
    <2>2. CASE About(drafts) = {}
        <3> HIDE DEF About, Latest, new
        <3> QED BY <1>2, <1>4, <2>1, <2>2 DEF new
    <2>3. CASE About(drafts) # {}
        <3> DEFINE A == About(drafts)
                   rank == [i \in 1 .. n |-> i]
        <3>1. A \in SUBSET (1 .. n) /\ IsFiniteSet(1 .. n) /\ rank \in [1 .. n -> Int]
            BY <1>1, FS_Interval
        <3>2. PICK i \in A : \A j \in A : rank[j] <= rank[i]
            <4> HIDE DEF A, rank, n
            <4> QED BY <2>3, <3>1, HighestRank DEF A
        <3>3. \A j \in A : j <= i
            BY <3>1, <3>2
        <3>4. Latest(A) \in A
            <4> HIDE DEF A
            <4> QED BY <3>2, <3>3
        <3>5. new[Latest(A)] = drafts[Latest(A)]
            <4> HIDE DEF A, Latest, new, n
            <4> QED BY <1>1, <3>1, <3>4
        <3> HIDE DEF About, Latest, new, n
        <3>6. StateOf(new, c) = StateOf(drafts, c)
            BY <1>2, <2>1, <3>5
        <3> QED BY <1>4, <3>6 DEF new
    <2> QED BY <2>2, <2>3
<1> QED BY <1>3, <1>4

(* So that who is listed and waits after it was listed before.             *)
LEMMA WaitingAfterDecision ==
    ASSUME NEW d \in Drafts, review.drafts \in Seq(Drafts)
    PROVE  LET drafts == Append(review.drafts, d)
           IN  Listed(drafts, review.filters, nodes) \cap Pending(drafts, nodes)
               \subseteq Waiting(d.candidate, drafts)
<1> DEFINE drafts == Append(review.drafts, d)
           f == review.filters
<1>1. StateOf(drafts, d.candidate) # "pending"
    <2>1. StateOf(drafts, d.candidate) = StateAfter[d.action]
        BY StateAfterDecision
    <2> QED BY <2>1 DEF Drafts, StateAfter
<1>2. \A c : c # d.candidate => StateOf(drafts, c) = StateOf(review.drafts, c)
    BY StateAfterDecision
<1> HIDE DEF drafts
<1>3. SUFFICES ASSUME NEW c \in Listed(drafts, f, nodes) \cap Pending(drafts, nodes)
               PROVE  c \in Waiting(d.candidate, drafts)
    BY DEF drafts
<1>4. c # d.candidate
    BY <1>1 DEF Pending
<1>5. c \in Listed(review.drafts, f, nodes)
    BY <1>2, <1>4 DEF Listed, BlockersOf
<1> QED BY <1>4, <1>5 DEF Waiting

LEMMA DecidedGoesOn ==
    ASSUME IInv, NEW action \in DOMAIN StateAfter, decide(action), action # "edit",
           NEW waiting,
           waiting = Listed(review'.drafts, review'.filters, nodes)
                     \cap Pending(review'.drafts, nodes),
           waiting # {}
    PROVE  review'.selected \in waiting
<1> DEFINE c == review.selected
           d == [action |-> action, candidate |-> c]
           drafts == Append(review.drafts, d)
<1>1. review.drafts \in Seq(Drafts) /\ d \in Drafts /\ d.candidate = c
    BY DEF IInv, Saves, decide, Rows, Drafts
<1>2. review' = [review EXCEPT !.drafts = drafts, !.selected = NextWaiting(c, drafts)]
    BY DEF decide, Reviews, Shows, Rendered
<1>3. /\ review'.drafts = drafts /\ review'.filters = review.filters
      /\ review'.selected = NextWaiting(c, drafts)
    <2> HIDE DEF drafts, c
    <2> QED BY <1>2, ReviewFields
<1> HIDE DEF c, d
<1>4. waiting \subseteq Waiting(c, drafts)
    BY <1>1, <1>3, WaitingAfterDecision
<1> HIDE DEF drafts
<1>5. NextWaiting(c, drafts) \in Waiting(c, drafts)
    BY <1>4, NextWaitingWaits
<1> QED BY <1>3, <1>5 DEF Waiting

(* Opening a suggestion takes back the filters that would hide it.         *)
LEMMA ShowingItLists ==
    ASSUME NEW c \in Pending(review.drafts, nodes), NEW f
    PROVE  c \in Listed(review.drafts, ShowingIt(f, c), nodes)
<1> DEFINE g == ShowingIt(f, c)
<1>1. /\ Candidates[c].band \in g.bands /\ g.query = Anything
      /\ g.state \in {"all", "pending"}
      /\ g.blockersOnly => BlockersOf(review.drafts, c) > 0
    BY DEF ShowingIt
<1>2. c \in Rows(nodes) /\ StateOf(review.drafts, c) = "pending"
    BY DEF Pending
<1> HIDE DEF g
<1>3. c \in Listed(review.drafts, g, nodes)
    BY <1>1, <1>2 DEF Listed
<1> QED BY <1>3 DEF g

LEMMA OpenedIsThere ==
    ASSUME IInv, reviewCandidate
    PROVE  review'.selected \in Listed(review'.drafts, review'.filters, nodes)
<1> DEFINE s == [scope EXCEPT !.destination = "inference-review"]
<1>1. PICK c \in Pending(review.drafts, nodes) :
        Shows([review EXCEPT !.filters = ShowingIt(@, c), !.selected = c], s)
    BY PreviewedClosesNone, BestIsPending DEF reviewCandidate, IInv, OnlyOneCounts
<1>2. review' = [review EXCEPT !.filters = ShowingIt(@, c), !.selected = c]
    BY <1>1 DEF Shows, Rendered
<1>3. /\ review'.drafts = review.drafts /\ review'.selected = c
      /\ review'.filters = ShowingIt(review.filters, c)
    BY <1>2, ReviewFields
<1> QED BY <1>3, ShowingItLists

(* What the other steps do to the selection and the decisions.             *)
LEMMA OthersKeepSelection ==
    ASSUME IInv, Next, ~reviewCandidate, ~openReview, ~setFilter, ~selectCandidate,
           ~undoLatestChange, \A action \in DOMAIN StateAfter : ~decide(action)
    PROVE  /\ review'.selected = review.selected
           /\ review'.drafts = review.drafts \/ dialog.open
<1>1. CASE UNCHANGED review
    BY <1>1
<1>2. ASSUME NEW layout, review' = [review EXCEPT !.layout = layout]
      PROVE  review'.selected = review.selected /\ review'.drafts = review.drafts
    BY <1>2, ReviewFields
<1>3. CASE \/ changeQuery \/ changeMethods \/ changeTag \/ chooseGroup \/ select
           \/ focusSelected \/ clearFocus \/ toggleCandidates \/ navigate
    <2>1. UNCHANGED review
        BY <1>3 DEF changeQuery, changeMethods, changeTag, chooseGroup, select,
           focusSelected, clearFocus, toggleCandidates, navigate, Shows, Rendered
    <2> QED BY <2>1
<1>4. CASE setDirection
    BY <1>2, <1>4 DEF setDirection, Shows, Rendered
<1>5. CASE moveNode
    <2>1. PICK n : review' = [review EXCEPT !.layout.moved = @ \cup {n}]
        BY <1>5 DEF moveNode, Shows, Rendered
    <2>2. [review EXCEPT !.layout.moved = @ \cup {n}] =
          [review EXCEPT !.layout = [review.layout EXCEPT !.moved = @ \cup {n}]]
        OBVIOUS
    <2> QED BY <1>2, <2>1, <2>2
<1>6. CASE openDialog \/ closeDialog \/ loadProject \/ cancelLoad
    <2>1. UNCHANGED review
        BY <1>6 DEF openDialog, closeDialog, loadProject, cancelLoad
    <2> QED BY <2>1
<1>7. CASE applyProject
    <2>1. review' = [review EXCEPT !.drafts = dialog.incoming.drafts,
                                   !.layout = dialog.incoming.layout]
        BY <1>7 DEF applyProject, Rendered
    <2>2. review'.selected = review.selected
        BY <2>1, ReviewFields
    <2>3. dialog.open
        BY <1>7 DEF applyProject, IInv, DialogIsTrue
    <2> QED BY <2>2, <2>3
<1>8. CASE resetLayout
    BY <1>2, <1>8 DEF resetLayout, Rendered
<1>9. CASE ExploreSample \/ Retry
    BY <1>9 DEF ExploreSample, Retry, Reload, shell
<1>10. ASSUME NEW l, LoadAnswers(l) PROVE UNCHANGED review
    BY <1>10 DEF LoadAnswers, Opens, Mount, shell
<1>11. ASSUME NEW f, ProjectRead(f) PROVE UNCHANGED review
    BY <1>11 DEF ProjectRead
<1>12. ASSUME NEW j, LayoutAnswers(j) PROVE UNCHANGED review
    BY <1>12 DEF LayoutAnswers
<1> QED BY <1>1, <1>3, <1>4, <1>5, <1>6, <1>7, <1>8, <1>9, <1>10, <1>11, <1>12 DEF Next

(* Who opens a suggestion finds it in the list, and after a decision is    *)
(* taken to one that waits, whatever the filters are                       *)
(* (workspace-shell.tsx, review-workspace.tsx).                            *)
THEOREM SuggestionsAreAlwaysAtHand == Spec => SuggestionsAreAtHand
<1>1. ASSUME IInv, Next, Exploring, review'.selected \notin {0, review.selected}
      PROVE  review'.selected \in Listed(review'.drafts, review'.filters, nodes)
    <2>1. CASE reviewCandidate
        BY <1>1, <2>1, OpenedIsThere
    <2>2. CASE openReview
        <3>1. review' = [review EXCEPT !.selected = 0]
            BY <2>2 DEF openReview, Shows, Rendered
        <3> QED BY <1>1, <3>1, ReviewFields
    <2>3. /\ ~setFilter /\ ~selectCandidate /\ ~undoLatestChange
          /\ \A action \in DOMAIN StateAfter : ~decide(action)
        BY <1>1 DEF Exploring, setFilter, Filters, selectCandidate, undoLatestChange, decide,
           Reviews, Reviewing
    <2> QED BY <1>1, <2>1, <2>2, <2>3, OthersKeepSelection
<1>2. ASSUME IInv, Next, Reviewing, Len(review'.drafts) > Len(review.drafts),
             Last(review'.drafts).action # "edit", ~dialog.open,
             Listed(review'.drafts, review'.filters, nodes)
                 \cap Pending(review'.drafts, nodes) # {}
      PROVE  review'.selected \in Listed(review'.drafts, review'.filters, nodes)
                                  \cap Pending(review'.drafts, nodes)
    <2>1. review.drafts \in Seq(Drafts) /\ Len(review.drafts) \in Nat
        BY <1>2 DEF IInv, Saves
    <2>2. review'.drafts # review.drafts
        BY <1>2, <2>1
    <2>3. ~reviewCandidate /\ ~openReview
        BY <1>2 DEF reviewCandidate, openReview, Exploring, Reviewing
    <2>4. ~setFilter /\ ~selectCandidate
        <3>1. ASSUME NEW f, review' = [review EXCEPT !.filters = f] PROVE FALSE
            BY <1>2, <2>2, <3>1, ReviewFields
        <3>2. ASSUME NEW c, review' = [review EXCEPT !.selected = c] PROVE FALSE
            BY <1>2, <2>2, <3>2, ReviewFields
        <3>3. setFilter => \E f : review' = [review EXCEPT !.filters = f]
            BY DEF setFilter, Filters, Reviews, Shows, Rendered
        <3>4. selectCandidate => \E c : review' = [review EXCEPT !.selected = c]
            BY DEF selectCandidate, Reviews, Shows, Rendered
        <3> QED BY <3>1, <3>2, <3>3, <3>4
    <2>5. ~undoLatestChange
        <3>1. SUFFICES ASSUME undoLatestChange PROVE FALSE
            OBVIOUS
        <3>2. PICK d : review' = [review EXCEPT !.drafts = Front(review.drafts), !.selected = d]
            <4> DEFINE c == Last(review.drafts).candidate
                       drafts == Front(review.drafts)
                       e == IF c \in Listed(drafts, review.filters, nodes) THEN c
                            ELSE review.selected
            <4>1. review' = [review EXCEPT !.drafts = drafts, !.selected = e]
                BY <1>2, <3>1, ReviewFields DEF undoLatestChange, Reviews, Shows, Rendered
            <4> QED BY <4>1
        <3>3. review'.drafts = Front(review.drafts)
            BY <1>2, <3>2, ReviewFields
        <3>4. review.drafts # <<>>
            BY <3>1 DEF undoLatestChange
        <3>5. Len(Front(review.drafts)) < Len(review.drafts)
            BY <2>1, <3>4 DEF Front
        <3>6. Len(Front(review.drafts)) \in Nat
            BY <2>1, <3>4 DEF Front
        <3> QED BY <1>2, <2>1, <3>3, <3>5, <3>6
    <2>6. PICK action \in DOMAIN StateAfter : decide(action)
        BY <1>2, <2>2, <2>3, <2>4, <2>5, OthersKeepSelection
    <2>7. action # "edit"
        <3> DEFINE d == [action |-> action, candidate |-> review.selected]
                   e == IF action = "edit" THEN review.selected
                        ELSE NextWaiting(review.selected, Append(review.drafts, d))
        <3>1. review' = [review EXCEPT !.drafts = Append(review.drafts, d), !.selected = e]
            BY <2>6 DEF decide, Reviews, Shows, Rendered
        <3> HIDE DEF e
        <3>2. review'.drafts = Append(review.drafts, d)
            <4> HIDE DEF d
            <4> QED BY <1>2, <3>1, ReviewFields
        <3>3. Last(Append(review.drafts, d)) = d
            <4> HIDE DEF d
            <4> QED BY <2>1 DEF Last
        <3> QED BY <1>2, <3>2, <3>3
    <2> QED BY <1>2, <2>6, <2>7, DecidedGoesOn
<1>3. IInv /\ [Next]_vars =>
        [Exploring /\ review'.selected \notin {0, review.selected} =>
            review'.selected \in Listed(review'.drafts, review'.filters, nodes)]_vars
    BY <1>1
<1>4. IInv /\ [Next]_vars =>
        [(Reviewing /\ Len(review'.drafts) > Len(review.drafts)
            /\ Last(review'.drafts).action # "edit" /\ ~dialog.open) =>
            LET waiting == Listed(review'.drafts, review'.filters, nodes)
                           \cap Pending(review'.drafts, nodes)
            IN  waiting # {} => review'.selected \in waiting]_vars
    BY <1>2
<1>5. Spec => OpenedIsListed
    BY <1>3, InvariantHolds, PTL DEF Spec, OpenedIsListed
<1>6. Spec => NextIsWaiting
    BY <1>4, InvariantHolds, PTL DEF Spec, NextIsWaiting
<1> QED BY <1>5, <1>6 DEF SuggestionsAreAtHand
====
