---- MODULE Workspace ----
(***************************************************************************)
(* The workspace page: it loads a snapshot, shows its operations as a      *)
(* canvas, an outline, a review list or a workflow, and keeps what the     *)
(* user narrows it down to (apps/web/src/app.tsx,                          *)
(* workspace/workspace-shell.tsx, review/review-workspace.tsx and          *)
(* draft-graph-preview.tsx, project/project-controls.tsx).                 *)
(*                                                                         *)
(* Two things answer late: what the page fetches, and the layout of the    *)
(* graph on the canvas, which the layout engine computes while the user    *)
(* goes on.  React runs an effect again when something it names has        *)
(* changed, after telling the effect before it that it is cancelled.       *)
(*                                                                         *)
(* A handler and the rendering and effects that follow it are one step:    *)
(* React finishes them before the next click.  The drafts stand for the    *)
(* review session, whose decisions ReviewSession models.                   *)
(***************************************************************************)
EXTENDS Exploration

CONSTANTS
    Entries,      \* how the page is opened
    Snapshots,    \* the sets of operations a server can offer
    Projects,     \* the project files at hand
    Tags,         \* the tags the user asks for
    Shown,        \* the bands and states the user filters the list by
    MethodSets,   \* the sets of methods the user asks for
    MaxLoads,     \* bound on the loads of a page
    MaxJobs,      \* bound on the layouts, and on the files being read
    MaxGestures   \* bound on what the user does in the workspace

(* A project file that was read as one, whatever project it is of.         *)
Drafts == [action : DOMAIN StateAfter, candidate : DOMAIN Candidates]
Layouts == [direction : {"right", "down"}, moved : SUBSET Operations]
ProjectFiles == [source : SUBSET Operations, drafts : Seq(Drafts), layout : Layouts]

ASSUME WorkspaceAssumption ==
    /\ Entries \subseteq {"plain", "sample", "local", "project"}
    /\ Shown \subseteq Bands \cup StateFilters
    /\ \A s \in Snapshots : s \subseteq Operations
    /\ Projects \subseteq ProjectFiles
    /\ MaxLoads \in Nat \ {0, 1} /\ MaxJobs \in Nat \ {0} /\ MaxGestures \in Nat

VARIABLES
    page,      \* App: how it was opened, what it shows, what is loaded
    loads,     \* the fetches under way
    review,    \* ReviewSessionState: drafts, layout, selection, filters
    scope,     \* what WorkspaceContent shows of the operations
    asked,     \* the scope the user last asked for by hand (a history)
    graph,     \* layoutGraph, an object with an identity
    jobs,      \* the layouts under way
    canvas,    \* the layout there is, its input and its direction
    dialog,    \* the project dialog, and the file it was last given (a history)
    reading,   \* the project files being read
    gestures   \* how much the user has done

shell == <<review, scope, asked, graph, jobs, canvas, dialog, reading,
           gestures>>
vars == <<page, loads, shell>>

Destinations == {"topology", "outline", "inference-review", "workflows"}
NoGraph == [object |-> 0, nodes |-> {}, edges |-> {}]
NoLayout == [graph |-> NoGraph, direction |-> "none"]
NoFile == [source |-> {}, drafts |-> <<>>, layout |-> DefaultLayout]
NoScope == [query |-> Anything, methods |-> {}, tag |-> Anything,
            destination |-> "none"]
ClosedDialog == [open |-> FALSE, incoming |-> NoFile, chosen |-> NoFile]
-----------------------------------------------------------------------------
nodes == page.snapshot
Asked(s) == [query |-> s.query, methods |-> s.methods, tag |-> s.tag,
             destination |-> s.destination]
Accepted(r) == AcceptedEdges(r.drafts, nodes)
Suggested(r) == Connections(Pending(r.drafts, nodes), nodes)

(* focusNodeIds, filteredModels, visibleGraph                              *)
Near(r, s) ==
    IF s.focus = NoNode THEN nodes ELSE Neighbours(Accepted(r), Suggested(r), s.focus)
Visible(r, s) == {op \in nodes : InScope(op, s, Near(r, s))}

(* visibleCandidates *)
Previewed(r, s) ==
    LET seen == Visible(r, s)
    IN  IF ~s.showCandidates \/ s.destination # "topology"
           \/ Cardinality(seen) > MaxCanvas
        THEN {}
        ELSE Preview(Within(Accepted(r), seen),
                     {c \in Suggested(r) : Ends(c) \in seen \X seen})

(* baseLayoutGraph: all of a small graph, or what is visible of a large    *)
(* one.                                                                    *)
Base(r, s) == IF Cardinality(nodes) <= MaxCanvas THEN nodes ELSE Visible(r, s)

(* Mutant: filters never make another graph.                               *)
DraftsOnly(r, s) == <<r.drafts>>

(* What the memo of layoutGraph depends on: a new list of drafts is a new  *)
(* graph, and so are new filters where the graph is made with them.        *)
Dependencies(r, s) ==
    LET filters == <<s.query, s.methods, s.tag, s.focus>>
    IN  IF Previewed(r, s) # {}
        THEN <<r.drafts, filters, s.showCandidates, s.destination>>
        ELSE IF Cardinality(nodes) <= MaxCanvas THEN <<r.drafts>>
        ELSE <<r.drafts, filters>>

LayoutGraph(r, s, object) ==
    [object |-> object, nodes |-> Base(r, s),
     edges |-> Within(Accepted(r), Base(r, s)) \cup {Ends(c) : c \in Previewed(r, s)}]

InUse == {graph.object, canvas.graph.object} \cup {j.graph.object : j \in jobs}

(* An identity no one refers to any more is as good as a new one.          *)
NewObject ==
    CHOOSE i \in 1 .. MaxJobs + 3 :
        \A k \in 1 .. i : k \in InUse <=> k < i

(* Mutant: what was under way before goes on.                              *)
GoingOn == jobs

Cancelled == {[j EXCEPT !.current = FALSE] : j \in jobs}

StartLayout(g, direction) ==
    jobs' = Cancelled \cup
            (IF Cardinality(g.nodes) > MaxCanvas THEN {}
             ELSE {[graph |-> g, direction |-> direction, current |-> TRUE]})

(* The rendering after a handler, and the layout effect when the graph or  *)
(* the direction is another.                                               *)
Rendered(r, s, again) ==
    /\ review' = r /\ scope' = s
    /\ IF again \/ Dependencies(r, s) # Dependencies(review, scope)
       THEN graph' = LayoutGraph(r, s, NewObject)
       ELSE graph' = graph
    /\ IF graph' # graph \/ r.layout.direction # review.layout.direction
       THEN Cardinality(jobs) < MaxJobs /\ StartLayout(graph', r.layout.direction)
       ELSE jobs' = jobs
-----------------------------------------------------------------------------
Load(n, current) == [number |-> n, at |-> "workspace", current |-> current]

(* In development React mounts a component twice: the first load is        *)
(* cancelled at once.                                                      *)
Init ==
    /\ \E entry \in Entries, s \in Snapshots :
          page = [entry |-> entry, snapshot |-> s, started |-> 2,
                  shown |-> IF entry = "plain" THEN "welcome" ELSE "loading"]
    /\ loads = IF page.entry = "plain" THEN {} ELSE {Load(1, FALSE), Load(2, TRUE)}
    /\ review = [drafts |-> <<>>, layout |-> DefaultLayout, selected |-> 0,
                 filters |-> DefaultFilters]
    /\ scope = [query |-> Anything, methods |-> {}, tag |-> Anything,
                focus |-> NoNode, before |-> NoScope, selected |-> NoNode,
                showCandidates |-> Within(Declared, nodes) = {},
                destination |->
                   IF Cardinality(nodes) > MaxCanvas THEN "outline" ELSE "topology"]
    /\ asked = Asked(scope)
    /\ graph = NoGraph /\ jobs = {} /\ canvas = NoLayout
    /\ dialog = ClosedDialog /\ reading = {}
    /\ gestures = 0

(* The effect of App, when it runs again.                                  *)
Reload(entry) ==
    /\ page.started < MaxLoads
    /\ page' = [page EXCEPT !.entry = entry, !.started = @ + 1, !.shown = "loading"]
    /\ loads' = {[l EXCEPT !.current = FALSE] : l \in loads}
                \cup {Load(page.started + 1, TRUE)}
    /\ UNCHANGED shell

ExploreSample == page.shown = "welcome" /\ Reload("sample")
Retry == page.shown = "error" /\ Reload(page.entry)

(* The workspace is mounted; a project that came with it is shown at once. *)
Mount(project) ==
    /\ graph' = LayoutGraph(review, scope, 1)
    /\ StartLayout(graph', review.layout.direction)
    /\ dialog' = [open |-> project # NoFile, chosen |-> project,
                  incoming |-> IF parsesProject(project, nodes) THEN project ELSE NoFile]
    /\ UNCHANGED <<review, scope, asked, canvas, reading, gestures>>

(* Mutant: the answer to a load that was given up counts.                  *)
Anyone(l) == TRUE

Counts(l) == l.current

(* An open workspace is not loaded again, so that no load is left.         *)
Opens(project) ==
    /\ page' = [page EXCEPT !.shown = "ready", !.started = MaxLoads]
    /\ IF nodes = {} THEN UNCHANGED shell ELSE Mount(project)

(* A load fails at either of its fetches (no answer, an HTTP error, what   *)
(* is not a snapshot of this version), fetches the project too, or is      *)
(* done.                                                                   *)
LoadAnswers(l) ==
    /\ l \in loads
    /\ \/ /\ l.at = "workspace" /\ page.entry = "project"
          /\ loads' = (loads \ {l}) \cup {[l EXCEPT !.at = "project"]}
          /\ UNCHANGED <<page, shell>>
       \/ /\ l.at = "project" \/ page.entry # "project"
          /\ loads' = loads \ {l}
          /\ IF Counts(l)
             THEN \E project \in IF l.at = "project" THEN Projects ELSE {NoFile} :
                     Opens(project)
             ELSE UNCHANGED <<page, shell>>
       \/ /\ loads' = loads \ {l}
          /\ page' = IF Counts(l) THEN [page EXCEPT !.shown = "error"] ELSE page
          /\ UNCHANGED shell
-----------------------------------------------------------------------------
(* A handler of the workspace: the dialog is modal and open over it, or    *)
(* not there.                                                              *)
Gesture ==
    /\ page.shown = "ready" /\ nodes # {} /\ gestures < MaxGestures
    /\ gestures' = gestures + 1
    /\ UNCHANGED <<page, loads, canvas>>

(* What is asked for by hand is the scope outside a focus; asking for what *)
(* is so already is left out.                                              *)
Shows(r, s) ==
    /\ <<r, s>> # <<review, scope>>
    /\ Gesture /\ ~dialog.open
    /\ Rendered(r, s, FALSE)
    /\ asked' = IF s.focus = NoNode THEN Asked(s) ELSE asked
    /\ UNCHANGED <<dialog, reading>>

Exploring == scope.destination \in {"topology", "outline"}

Unfocused == [scope EXCEPT !.focus = NoNode, !.before = NoScope]

changeQuery ==
    Exploring /\ \E q \in DOMAIN Finds \cup {Anything} :
                    Shows(review, [Unfocused EXCEPT !.query = q])
changeMethods ==
    Exploring /\ \E m \in MethodSets : Shows(review, [Unfocused EXCEPT !.methods = m])
changeTag ==
    Exploring /\ \E t \in Tags : Shows(review, [Unfocused EXCEPT !.tag = t])

Canvas(count) == IF count <= MaxCanvas THEN "topology" ELSE "outline"

chooseGroup ==
    /\ Exploring /\ Cardinality(nodes) > MaxCanvas
    /\ \E t \in Tags :
          LET group == [Unfocused EXCEPT !.query = Anything, !.methods = {},
                                         !.tag = t, !.selected = NoNode]
              count == Cardinality({op \in nodes : InScope(op, group, nodes)})
          IN  Shows(review, [group EXCEPT !.destination = Canvas(count)])

select ==
    /\ Exploring
    /\ \E n \in Visible(review, scope) \cup {NoNode} :
          Shows(review, [scope EXCEPT !.selected = n])

(* Mutant: every focus remembers the scope it finds.                       *)
BeforeThis(s) == Asked(s)

BeforeFocus(s) == IF s.before = NoScope THEN Asked(s) ELSE s.before

focusSelected ==
    /\ Exploring /\ scope.selected # NoNode
    /\ LET near == Neighbours(Accepted(review), Suggested(review), scope.selected)
       IN  Shows(review, [scope EXCEPT !.before = BeforeFocus(scope),
                 !.query = Anything, !.methods = {}, !.tag = Anything,
                 !.focus = scope.selected,
                 !.destination = Canvas(Cardinality(near))])

clearFocus ==
    /\ Exploring /\ scope.focus # NoNode
    /\ Gesture /\ ~dialog.open
    /\ Rendered(review,
          IF scope.before = NoScope THEN [scope EXCEPT !.focus = NoNode]
          ELSE [Unfocused EXCEPT !.query = scope.before.query,
                   !.methods = scope.before.methods, !.tag = scope.before.tag,
                   !.destination = scope.before.destination], FALSE)
    /\ UNCHANGED <<asked, dialog, reading>>

toggleCandidates ==
    /\ scope.destination = "topology"
    /\ Shows(review, [scope EXCEPT !.showCandidates = ~@])

navigate ==
    \E d \in Destinations : Shows(review, [scope EXCEPT !.destination = d])

setDirection ==
    /\ scope.destination # "workflows"
    /\ \E d \in {"right", "down"} \ {review.layout.direction} :
          Shows([review EXCEPT !.layout = [DefaultLayout EXCEPT !.direction = d]], scope)
-----------------------------------------------------------------------------
CanvasShown ==
    /\ scope.destination = "topology" /\ Cardinality(graph.nodes) <= MaxCanvas
    /\ canvas.graph.object = graph.object
    /\ canvas.direction = review.layout.direction

moveNode ==
    /\ CanvasShown
    /\ \E n \in Visible(review, scope) :
          Shows([review EXCEPT !.layout.moved = @ \cup {n}], scope)

(* Mutant: the band of the candidate is forgotten.                         *)
ShowingAllBut(f, c) ==
    [query |-> Anything,
     state |-> IF f.state \in {"all", "pending"} THEN f.state ELSE "pending",
     blockersOnly |-> f.blockersOnly /\ BlockersOf(review.drafts, c) > 0,
     bands |-> f.bands]

(* The filters that would hide the candidate are taken back.               *)
ShowingIt(f, c) ==
    [query |-> Anything,
     state |-> IF f.state \in {"all", "pending"} THEN f.state ELSE "pending",
     blockersOnly |-> f.blockersOnly /\ BlockersOf(review.drafts, c) > 0,
     bands |-> f.bands \cup {Candidates[c].band}]

(* A suggestion on the canvas, or the best one of the overview, is opened  *)
(* for review.                                                             *)
reviewCandidate ==
    /\ Exploring
    /\ LET pending == Pending(review.drafts, nodes)
       IN  \E c \in (IF CanvasShown THEN Previewed(review, scope) ELSE {})
                    \cup (IF pending = {} THEN {} ELSE {Best(pending)}) :
              Shows([review EXCEPT !.filters = ShowingIt(@, c), !.selected = c],
                    [scope EXCEPT !.destination = "inference-review"])

openReview ==
    /\ Exploring /\ Pending(review.drafts, nodes) # {}
    /\ Shows([review EXCEPT !.selected = 0],
             [scope EXCEPT !.destination = "inference-review"])
-----------------------------------------------------------------------------
Reviewing == scope.destination = "inference-review"

Reviews(r) == Reviewing /\ Shows(r, scope)

Filters(f) == Reviews([review EXCEPT !.filters = f])

setFilter ==
    LET now == review.filters
    IN  \/ \E q \in DOMAIN Mentions \cup {Anything} : Filters([now EXCEPT !.query = q])
        \/ \E b \in Bands \cap Shown :
              Filters([now EXCEPT !.bands = IF b \in @ THEN @ \ {b} ELSE @ \cup {b}])
        \/ \E s \in StateFilters : Filters([now EXCEPT !.state = s])
        \/ Filters([now EXCEPT !.blockersOnly = ~@])
        \/ Filters(DefaultFilters)

selectCandidate ==
    \E c \in Listed(review.drafts, review.filters, nodes) \cup {0} :
       Reviews([review EXCEPT !.selected = c])

(* Around the list, from the candidate after the decided one; from its     *)
(* beginning when that was not listed.                                     *)
NextWaiting(c, drafts) ==
    LET list == Listed(review.drafts, review.filters, nodes)
        waiting == (list \ {c}) \cap Listed(drafts, review.filters, nodes)
                               \cap Pending(drafts, nodes)
        after == {d \in waiting : c \in list /\ ListOrder(c, d)}
    IN  IF waiting = {} THEN c ELSE FirstListed(IF after = {} THEN waiting ELSE after)

(* The buttons of ReviewActions and the effect that moves the selection on *)
(* when the decision was made.                                             *)
decide(action) ==
    LET c == review.selected
        drafts == Append(review.drafts, [action |-> action, candidate |-> c])
    IN  /\ c \in Rows(nodes)
        /\ action = "accept" => /\ BlockersOf(review.drafts, c) = 0
                                /\ StateOf(review.drafts, c) \in {"pending", "rejected"}
        /\ action = "reject" => StateOf(review.drafts, c) # "rejected"
        /\ Reviews([review EXCEPT !.drafts = drafts,
                       !.selected = IF action = "edit" THEN c
                                    ELSE NextWaiting(c, drafts)])

undoLatestChange ==
    /\ review.drafts # <<>>
    /\ LET c == Last(review.drafts).candidate
           drafts == Front(review.drafts)
       IN  Reviews([review EXCEPT !.drafts = drafts,
                       !.selected = IF c \in Listed(drafts, review.filters, nodes)
                                    THEN c ELSE @])
-----------------------------------------------------------------------------
(* Closing the dialog unmounts it: what it was reading comes to nothing.   *)
openDialog ==
    /\ Gesture /\ ~dialog.open
    /\ dialog' = [ClosedDialog EXCEPT !.open = TRUE]
    /\ UNCHANGED <<review, scope, asked, graph, jobs, reading>>

Unmounted == {[f EXCEPT !.here = FALSE] : f \in reading}

closeDialog ==
    /\ dialog.open /\ Gesture
    /\ dialog' = ClosedDialog /\ reading' = Unmounted
    /\ UNCHANGED <<review, scope, asked, graph, jobs>>

Busy == \E f \in reading : f.here

loadProject ==
    /\ dialog.open /\ ~Busy /\ Cardinality(reading) < MaxJobs /\ Gesture
    /\ \E file \in Projects :
          /\ reading' = reading \cup {[file |-> file, here |-> TRUE]}
          /\ dialog' = [dialog EXCEPT !.incoming = NoFile, !.chosen = file]
    /\ UNCHANGED <<review, scope, asked, graph, jobs>>

ProjectRead(f) ==
    /\ f \in reading
    /\ reading' = reading \ {f}
    /\ dialog' = IF f.here /\ dialog.open /\ parsesProject(f.file, nodes)
                 THEN [dialog EXCEPT !.incoming = f.file] ELSE dialog
    /\ UNCHANGED <<page, loads, review, scope, asked, graph, jobs, canvas, gestures>>

cancelLoad ==
    /\ dialog.incoming # NoFile /\ Gesture
    /\ dialog' = [dialog EXCEPT !.incoming = NoFile]
    /\ UNCHANGED <<review, scope, asked, graph, jobs, reading>>

(* restore-decisions, and the dialog closes.                               *)
applyProject ==
    /\ dialog.incoming # NoFile /\ Gesture
    /\ Rendered([review EXCEPT !.drafts = dialog.incoming.drafts,
                               !.layout = dialog.incoming.layout], scope, TRUE)
    /\ dialog' = ClosedDialog /\ reading' = Unmounted
    /\ UNCHANGED asked

resetLayout ==
    /\ dialog.open /\ ~Busy /\ dialog.incoming = NoFile /\ Gesture
    /\ Rendered([review EXCEPT !.layout = DefaultLayout], scope, FALSE)
    /\ UNCHANGED <<asked, dialog, reading>>
-----------------------------------------------------------------------------
(* A layout is there, or a row of nodes where the engine failed.           *)
LayoutAnswers(j) ==
    /\ j \in jobs
    /\ jobs' = jobs \ {j}
    /\ canvas' = IF j.current THEN [graph |-> j.graph, direction |-> j.direction]
                 ELSE canvas
    /\ UNCHANGED <<page, loads, review, scope, asked, graph, dialog, reading, gestures>>

Next ==
    \/ ExploreSample \/ Retry \/ \E l \in loads : LoadAnswers(l)
    \/ changeQuery \/ changeMethods \/ changeTag \/ chooseGroup
    \/ select \/ focusSelected \/ clearFocus \/ toggleCandidates
    \/ navigate \/ setDirection \/ moveNode \/ reviewCandidate \/ openReview
    \/ setFilter \/ selectCandidate \/ undoLatestChange
    \/ \E action \in DOMAIN StateAfter : decide(action)
    \/ openDialog \/ closeDialog \/ loadProject \/ cancelLoad
    \/ applyProject \/ resetLayout
    \/ \E f \in reading : ProjectRead(f)
    \/ \E j \in jobs : LayoutAnswers(j)

(* The layout engine answers or fails, in the end.                         *)
Spec == Init /\ [][Next]_vars /\ WF_vars(\E j \in jobs : LayoutAnswers(j))
-----------------------------------------------------------------------------
TypeOK ==
    /\ page.shown \in {"welcome", "loading", "error", "ready"}
    /\ \A l \in loads : l.number \in 1 .. page.started
    /\ Cardinality({l \in loads : l.current}) = (IF page.shown = "loading" THEN 1 ELSE 0)
    /\ DOMAIN review = {"drafts", "layout", "selected", "filters"}
    /\ review.selected \in Rows(nodes) \cup {0}
    /\ review.layout.moved \subseteq nodes
    /\ scope.destination \in Destinations
    /\ {scope.focus, scope.selected} \subseteq nodes \cup {NoNode}
    /\ Cardinality({j \in jobs : j.current}) <= 1
    /\ gestures \in 0 .. MaxGestures

(* An open workspace stays open: an answer to a load that was given up     *)
(* neither closes it nor opens it again, losing what was done in it        *)
(* (app.tsx:45-89).                                                        *)
OpenStaysOpen ==
    [][page.shown = "ready" =>
          /\ page'.shown = "ready"
          /\ gestures' = gestures => review' = review /\ scope' = scope]_vars

(* What the canvas draws was laid out: every visible node has a place, the *)
(* edges and suggestions it draws are those the layout was made with, and  *)
(* it lies in the direction asked for, whatever was filtered, decided or   *)
(* turned while it was computed (workspace-shell.tsx:188-226, 482).        *)
CanvasIsLaidOut ==
    CanvasShown =>
        LET seen == Visible(review, scope)
            drawn == Within(Accepted(review), seen)
                     \cup {Ends(c) : c \in Previewed(review, scope)}
        IN  /\ seen \subseteq canvas.graph.nodes
            /\ drawn \subseteq canvas.graph.edges
            /\ canvas.direction = review.layout.direction

(* A suggestion on the canvas is on no cycle of what is drawn there, with  *)
(* accepted edges or with other suggestions (exploration-model.ts:58-88).  *)
PreviewIsAcyclic ==
    page.shown = "ready" =>
        LET seen == Visible(review, scope)
            shown == Previewed(review, scope)
            edges == Within(Accepted(review), seen) \cup {Ends(c) : c \in shown}
        IN  \A c \in shown : Candidates[c].source \notin
                                Reached(edges, Candidates[c].target)

(* However often the focus moved, and wherever the user went meanwhile,    *)
(* clearing it shows what was asked for before it                          *)
(* (workspace-shell.tsx:262-285).                                          *)
ScopeReturns ==
    IF scope.focus = NoNode THEN Asked(scope) = asked ELSE scope.before = asked

(* A suggestion opened for review is in the list, whatever the filters of  *)
(* the review were (workspace-shell.tsx:233-246).                          *)
OpenedIsListed ==
    [][Exploring /\ review'.selected \notin {0, review.selected} =>
          review'.selected \in Listed(review'.drafts, review'.filters, nodes)]_vars

(* After a decision the user is taken to a listed candidate that still     *)
(* waits for one, if there is any (review-workspace.tsx:118-137).          *)
NextIsWaiting ==
    [][(Reviewing /\ Len(review'.drafts) > Len(review.drafts)
          /\ Last(review'.drafts).action # "edit" /\ ~dialog.open) =>
          LET waiting == Listed(review'.drafts, review'.filters, nodes)
                         \cap Pending(review'.drafts, nodes)
          IN  waiting # {} => review'.selected \in waiting]_vars

(* What the project dialog offers to apply is the file it was last given,  *)
(* not one whose reading outlived an earlier dialog                        *)
(* (project-controls.tsx:40-53).                                           *)
PreviewIsTheChosen ==
    dialog.incoming # NoFile => dialog.open /\ dialog.incoming = dialog.chosen

(* A project saved now can be loaded again, and brings back the decisions, *)
(* the undo history and the layout of now (project-file.ts).               *)
ProjectRestores ==
    LET file == serializeProject(nodes, review.drafts, review.layout)
    IN  /\ parsesProject(file, nodes)
        /\ file.drafts = review.drafts /\ file.layout = review.layout

(* When the user rests, the canvas that is asked for comes, and does not   *)
(* keep saying that it is being arranged.                                  *)
CanvasComes ==
    <>[](page.shown = "ready" /\ scope.destination = "topology"
         /\ Cardinality(graph.nodes) \in 1 .. MaxCanvas => CanvasShown)

(* The canvas is true: it draws what was laid out, without a cycle that    *)
(* nobody declared or accepted.                                            *)
CanvasIsTrue == TypeOK /\ CanvasIsLaidOut /\ PreviewIsAcyclic

(* Neither what was asked for nor what was chosen or saved is lost.        *)
NothingIsLost == ScopeReturns /\ PreviewIsTheChosen /\ ProjectRestores

(* Whoever is taken to a suggestion finds it there.                        *)
SuggestionsAreAtHand == OpenedIsListed /\ NextIsWaiting
====
