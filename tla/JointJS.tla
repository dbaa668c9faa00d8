------------------------------- MODULE JointJS -------------------------------
(***************************************************************************)
(* com.bkahlert.nebula.widgets.jointjs: a graph of nodes and links that is *)
(* edited in a page (facade.js on top of the JointJS library) and the copy *)
(* of it the Java side of the widget, JointJS, keeps in its field model.   *)
(*                                                                         *)
(* The page is single-threaded. A removal takes one action for every cell  *)
(* whose removal the page announces, since each makes model a new value    *)
(* that other threads read; nothing else happens in the page meanwhile.    *)
(*                                                                         *)
(* A link that is created to an end that is not there is in the graph, but *)
(* the paper has drawn only half of it. Its view listens to the link, and  *)
(* perhaps to its source node, and throws when one of them changes, before *)
(* the change is announced; Backbone then takes the cell for one that is   *)
(* still changing, and never fires "change" for it again: it is deaf.      *)
(*                                                                         *)
(* "look" stands for what cells have besides their ends (texts, colours,   *)
(* positions, sizes, vertices) and for the title; "view" is zoom and pan.  *)
(* Operations on several cells are one step for each. Identifiers tell     *)
(* permanent links from others. The order of cells (their z) is left out:  *)
(* a graph is cleared, and links are adjusted, in any order.               *)
(***************************************************************************)
EXTENDS Naturals, FiniteSets

CONSTANTS Nodes, Links,   \* identifiers of cells
          Permanent,      \* the links made by createPermanentLink
          Free,           \* an end of a link that is a point of the paper
          Looks, Views, Datas,  \* the page starts with 0
          Saved,          \* what is loaded: graphs with data and view, or Garbage
          Garbage,        \* a string that is no JSON
          NoJson, NoCell,
          MaxOps          \* bound on the operations of clients and users

Ends == {"source", "target"}

ASSUME CellsDiffer ==
  /\ Permanent \subseteq Links /\ Nodes \cap Links = {}
  /\ Free \notin Nodes /\ NoCell \notin Nodes /\ NoJson \notin Saved /\ Garbage # NoJson
ASSUME Start == 0 \in Looks \cap Views \cap Datas
ASSUME OpsBound == MaxOps \in Nat

\* Graphs, and what serialize() makes of a page.
LinkRecords == [source : Nodes \cup {Free}, target : Nodes \cup {Free}, abandoned : SUBSET Ends]
Graphs == [nodes : SUBSET Nodes, links : UNION {[d -> LinkRecords] : d \in SUBSET Links}, look : Looks]
Jsons == [graph : Graphs, view : Views, data : Datas]

\* A target that is marked as abandoned is not there.
AbandonedIsFree(l, g) == "target" \in g.links[l].abandoned => g.links[l].target = Free

\* What is loaded was saved by a page, perhaps with nodes missing since, in which
\* no exception had cut the drag of an abandoned target short.
ASSUME SavedAreJsons ==
  \A j \in Saved \ {Garbage} : j \in Jsons /\ \A l \in DOMAIN j.graph.links : AbandonedIsFree(l, j.graph)

VARIABLES
  graph,    \* the graph of the page: its nodes, links and look
  hidden,   \* the links the paper has failed to draw
  watching, \* those of them that listen to their source node
  deaf,     \* the cells that fire "change" no more
  untouched, \* loaded links with a free end no attribute of which was set since
  view, data,
  pending,  \* the timer of debouncingModified runs
  lastJson, \* what modified told last
  model,    \* JointJS.model
  loading,  \* what load is loading
  removing, \* the node that is being removed
  leaving,  \* the links that are still to be removed with it
  closed,   \* shuttingDown: the page has been left
  silent,   \* history: the page has changed and no announcement is due
  broken,   \* history: an exception has left the links of a cleared node
  ops

drawVars == <<hidden, watching>>
cellVars == <<graph, drawVars, deaf, untouched>>
pageVars == <<cellVars, view, data>>
toldVars == <<lastJson, model, silent>>
callVars == <<loading, removing, leaving>>
jvars == <<pageVars, pending, toldVars, callVars, closed, broken, ops>>

NoLink == [l \in {} |-> NoCell]
EmptyGraph(look) == [nodes |-> {}, links |-> NoLink, look |-> look]

\* start(): an empty graph without title, neither zoomed nor panned, without data.
Init ==
  /\ graph = EmptyGraph(0) /\ hidden = {} /\ watching = {} /\ deaf = {} /\ untouched = {}
  /\ view = 0 /\ data = 0
  /\ pending = FALSE
  /\ lastJson = NoJson /\ model = NoJson /\ silent = TRUE
  /\ loading = NoJson /\ removing = NoCell /\ leaving = {}
  /\ closed = FALSE /\ broken = FALSE /\ ops = 0

-----------------------------------------------------------------------------
(* Graphs                                                                   *)

Drawn == DOMAIN graph.links \ hidden
EndsMeet(g, l) == \A e \in Ends : g.links[l][e] \in g.nodes \cup {Free}
Connected(g, n) == {l \in DOMAIN g.links : \E e \in Ends : g.links[l][e] = n}

LinkOf(s, t) == [source |-> s, target |-> t, abandoned |-> {}]
WithLink(g, l, link) ==
  [g EXCEPT !.links = [m \in DOMAIN g.links \cup {l} |-> IF m = l THEN link ELSE g.links[m]]]
WithoutLink(g, l) == [g EXCEPT !.links = [m \in DOMAIN g.links \ {l} |-> g.links[m]]]

\* The links of g between the two ends of link.
Siblings(g, link) ==
  {m \in DOMAIN g.links :
     {g.links[m].source, g.links[m].target} = {link.source, link.target}}

\* The links adjustVertices may take link for: instead of a free end it looks at
\* the end before the attributes of the link were set last.
Formerly(link) ==
  LET ends(e) == IF link[e] = Free THEN Nodes \cup {Free} ELSE {link[e]}
  IN {[link EXCEPT !.source = s, !.target = t] : s \in ends("source"), t \in ends("target")}

\* adjustVertices(link) gives vertices to the links of a pair of ends, if there
\* are several,
Adjusts(g, link) ==
  Free \notin {link.source, link.target} /\ Cardinality(Siblings(g, link)) > 1

\* and throws if one of the nodes is not in the graph,
AdjustThrows(g, link) == Adjusts(g, link) /\ ~({link.source, link.target} \subseteq g.nodes)

\* or when it sets the vertices of one of these links, unless the link has thrown
\* before and keeps its vertices.
Undrawn(g, link) == IF Adjusts(g, link) THEN Siblings(g, link) \cap hidden ELSE {}

WithLooks(g) == {[g EXCEPT !.look = k] : k \in Looks}
Adjusted(g, link) == IF Adjusts(g, link) THEN WithLooks(g) ELSE {g}

\* A link whose end e is set; abandoned ends are forgotten when the target is.
Reconnect(link, e, end) ==
  [link EXCEPT ![e] = end, !.abandoned = IF e = "target" THEN {} ELSE link.abandoned]

\* sanityCheck: a link with an end that is no node of the graph loses the end,
\* a permanent one is left out.
Repair(g) ==
  LET missing(l) == {e \in Ends : g.links[l][e] \notin g.nodes \cup {Free}}
      kept == {l \in DOMAIN g.links : l \in Permanent => missing(l) = {}}
      repaired(l) ==
        [source |-> IF "source" \in missing(l) THEN Free ELSE g.links[l].source,
         target |-> IF "target" \in missing(l) THEN Free ELSE g.links[l].target,
         abandoned |-> g.links[l].abandoned \cup missing(l)]
  IN [g EXCEPT !.links = [l \in kept |-> repaired(l)]]

-----------------------------------------------------------------------------
(* Telling                                                                  *)

\* serialize().
Json(g, v, d) == [graph |-> g, view |-> v, data |-> d]
Page == Json(graph, view, data)

\* modified(): Java is told a page that differs from the one told last.
Modified(json) ==
  /\ silent' = FALSE
  /\ IF json = lastJson
       THEN UNCHANGED <<lastJson, model>>
       ELSE lastJson' = json /\ model' = json

\* An event of the graph, whose handlers end with modified.
GraphEvent == Modified(Json(graph', view, data))

\* When other changes are announced on the way, Java is told in any case.
GraphEvents ==
  /\ silent' = FALSE
  /\ lastJson' = Json(graph', view, data) /\ model' = lastJson'

Announcement(several) == GraphEvent \/ (several /\ GraphEvents)

\* An exception on the way to modified, or a deaf cell.
NoEvent == silent' = TRUE /\ UNCHANGED <<lastJson, model>>

\* Only changes of the vertices of other links were announced, with the graph g.
PartlyTold(g) ==
  /\ silent' = TRUE
  /\ \E h \in WithLooks(g) : lastJson' = Json(h, view, data)
  /\ model' = lastJson'

InPage == loading = NoJson /\ removing = NoCell /\ ~closed
Operation == InPage /\ ops < MaxOps /\ ops' = ops + 1

-----------------------------------------------------------------------------
(* Vertices                                                                 *)

\* adjustVertices(link) ends,
Smooth(g, link) == ~AdjustThrows(g, link) /\ Undrawn(g, link) \subseteq deaf
Adjusting(g, link) == Smooth(g, link) /\ graph' \in Adjusted(g, link)

\* or throws, and nobody after it hears of the change; the cells rest and the link
\* whose vertices it was setting are deaf.
AdjustingFails(g, link, rest) ==
  \/ AdjustThrows(g, link) /\ graph' = g /\ NoEvent /\ deaf' = rest
  \/ /\ ~AdjustThrows(g, link) /\ graph' \in Adjusted(g, link)
     /\ \E m \in Undrawn(g, link) : deaf' = rest \cup {m}
     /\ NoEvent \/ (~(Siblings(g, link) \subseteq hidden \cup rest) /\ PartlyTold(g))

\* adjustVertices(cell) looks at a link, or at one link of every source among those
\* of a node.
Around(g, c) ==
  IF c \in Nodes THEN {l \in Connected(g, c) : g.links[l].source # Free} ELSE {c}
Pairs(g, c) == UNION {Formerly(g.links[l]) : l \in Around(g, c) \ untouched}
Straightened(g, c) == {g} \cup UNION {Adjusted(g, link) : link \in Pairs(g, c)}

MayEnd(g, c) ==
  \A l \in Around(g, c) : \E m \in Around(g, c) \ untouched :
    g.links[m].source = g.links[l].source /\ \E link \in Formerly(g.links[m]) : Smooth(g, link)
MayFail(g, c) ==
  \/ Around(g, c) \cap untouched # {}
  \/ \E link \in Pairs(g, c) : AdjustThrows(g, link) \/ Undrawn(g, link) # {}

\* What is not announced, and the link that was being adjusted when it ended.
Unheard(g) == (NoEvent \/ PartlyTold(g)) /\ deaf' \in {deaf} \cup {deaf \cup {m} : m \in hidden}

-----------------------------------------------------------------------------
(* Cells                                                                    *)

\* The nodes whose next change throws: a half-drawn link listens to them.
Watched == {n \in graph.nodes \ deaf : \E l \in watching : graph.links[l].source = n}

\* createNode. Links may name the node already.
CreateNode(n) ==
  /\ Operation /\ n \notin graph.nodes
  /\ LET added == [graph EXCEPT !.nodes = @ \cup {n}] IN
       /\ graph' \in Straightened(added, n)
       /\ \/ MayEnd(added, n) /\ Announcement(graph' # added) /\ UNCHANGED deaf
          \/ MayFail(added, n) /\ Unheard(added)
  /\ UNCHANGED <<drawVars, untouched, view, data, pending, callVars, closed, broken>>

\* createLink, createPermanentLink and the double click that makes a link. The
\* paper draws it before the other handlers run, and throws if it has no view of
\* an end; it listens to the source before it looks for the target.
CreateLink(l, s, t) ==
  /\ Operation /\ l \notin DOMAIN graph.links
  /\ LET link == LinkOf(s, t)
         added == WithLink(graph, l, link) IN
     IF EndsMeet(added, l)
       THEN /\ \/ Adjusting(added, link) /\ Announcement(Adjusts(added, link)) /\ UNCHANGED deaf
               \/ AdjustingFails(added, link, deaf)
            /\ UNCHANGED drawVars
       ELSE /\ graph' = added /\ hidden' = hidden \cup {l}
            /\ watching' = IF s \in graph.nodes THEN watching \cup {l} ELSE watching
            /\ NoEvent /\ UNCHANGED deaf
  /\ UNCHANGED <<untouched, view, data, pending, callVars, closed, broken>>

\* setTitle.
ChangeTitle(k) ==
  /\ Operation /\ k # graph.look
  /\ graph' = [graph EXCEPT !.look = k]
  /\ GraphEvent
  /\ UNCHANGED <<drawVars, deaf, untouched, view, data, pending, callVars, closed, broken>>

\* setText, setColor, setPosition, setSize, custom classes: "change" is fired unless
\* a view throws or the cell is deaf; the title of a cell is announced before that.
ChangeLook(c, k) ==
  /\ Operation /\ c \in graph.nodes \cup DOMAIN graph.links /\ k # graph.look
  /\ graph' = [graph EXCEPT !.look = k]
  /\ \/ c \notin deaf \cup Watched /\ GraphEvent /\ UNCHANGED deaf
     \/ c \in deaf \cup Watched \cup hidden /\ NoEvent /\ deaf' = deaf \cup {c}
     \/ c \in Nodes /\ c \in deaf \cup Watched /\ GraphEvent /\ deaf' = deaf \cup {c}
  /\ untouched' = untouched \ {c}
  /\ UNCHANGED <<drawVars, view, data, pending, callVars, closed, broken>>

\* The user lets go of a cell: vertices are adjusted to where the nodes are.
Straighten(c) ==
  /\ Operation /\ c \in graph.nodes \cup DOMAIN graph.links
  /\ graph' \in Straightened(graph, c) \ {graph}
  /\ \/ Announcement(TRUE) /\ UNCHANGED deaf
     \/ /\ \E link \in Pairs(graph, c) : Siblings(graph, link) \cap (hidden \cup deaf) # {}
        /\ Unheard(graph)
  /\ UNCHANGED <<drawVars, untouched, view, data, pending, callVars, closed, broken>>

\* highlight, setSelection, addSelection, setFocus and the user's clicks set
\* attributes of cells that are not serialized; if they change, a page is
\* announced that was not yet.
Mark ==
  /\ Operation /\ graph.nodes \cup DOMAIN graph.links # {}
  /\ untouched' \in SUBSET untouched
  /\ Modified(Page) \/ UNCHANGED toldVars
  /\ deaf' \in {deaf} \cup {deaf \cup {n} : n \in Watched}
  /\ UNCHANGED <<graph, drawVars, view, data, pending, callVars, closed, broken>>

\* End e of l, in the graph g, is dragged to end, and link is adjusted; then marks
\* of an abandoned end are reset, and "change" is fired.
Drag(g, l, e, end, link) ==
  LET dragged == WithLink(g, l, [graph.links[l] EXCEPT ![e] = end])
      reset == WithLink(g, l, Reconnect(graph.links[l], e, end)) IN
  /\ \/ /\ Adjusting(reset, link)
        /\ IF l \in deaf
             THEN NoEvent \/ (Adjusts(reset, link) /\ PartlyTold(dragged))
             ELSE Announcement(Adjusts(reset, link))
        /\ UNCHANGED deaf
     \/ AdjustingFails(dragged, link, deaf \cup {l})
  /\ untouched' = untouched \ {l}
  /\ UNCHANGED <<drawVars, view, data, pending, callVars, closed, broken>>

\* The user pulls an end of a link off its node, or about; of a deaf link, an end
\* that it had long ago is looked at.
PullOff(l, e) ==
  /\ Operation /\ l \in Drawn \ Permanent /\ EndsMeet(graph, l)
  /\ \E g \in WithLooks(graph),
        link \in IF l \in deaf THEN Formerly([graph.links[l] EXCEPT ![e] = Free]) ELSE {graph.links[l]} :
       Drag(g, l, e, Free, link)

\* The user drops it on a node.
DropOn(l, e, n) ==
  /\ Operation /\ l \in Drawn \ Permanent /\ EndsMeet(graph, l)
  /\ graph.links[l][e] = Free /\ n \in graph.nodes
  /\ LET link == Reconnect(graph.links[l], e, n) IN
       \E looked \in IF l \in deaf THEN Formerly(link) ELSE {link} : Drag(graph, l, e, n, looked)

-----------------------------------------------------------------------------
(* Removal                                                                  *)

\* Mutant: half of the call goes on.
ThrowHalf == loading' = NoJson /\ removing' = NoCell /\ UNCHANGED leaving

\* An exception ends the call that runs in the page.
Throw == loading' = NoJson /\ removing' = NoCell /\ leaving' = {}

\* Link l leaves the graph: its siblings are adjusted, Java is told. Of a link
\* whose attributes were never set, adjustVertices knows no former end and throws.
Detach(l) ==
  LET left == WithoutLink(graph, l)
      rest == deaf \ {l} IN
  /\ hidden' = hidden \ {l} /\ watching' = watching \ {l} /\ untouched' = untouched \ {l}
  /\ \E link \in Formerly(graph.links[l]) :
       \/ /\ l \notin untouched /\ Adjusting(left, link)
          /\ Announcement(Adjusts(left, link)) /\ deaf' = rest
          /\ leaving' = leaving \ {l}
          /\ UNCHANGED <<broken, loading, removing>>
       \/ /\ IF l \in untouched
               THEN graph' = left /\ NoEvent /\ deaf' = rest
               ELSE AdjustingFails(left, link, rest)
          /\ broken' = (broken \/ removing \notin graph.nodes \cup {NoCell})
          /\ Throw
  /\ UNCHANGED <<view, data, pending, closed>>

\* removeCell, and the link's tool.
RemoveLink(l) == Operation /\ l \in DOMAIN graph.links /\ Detach(l)

\* Mutant: the links stay.
RemoveNodeAlone(n) ==
  /\ Operation /\ n \in graph.nodes
  /\ removing' = n /\ leaving' = {}
  /\ UNCHANGED <<pageVars, pending, toldVars, loading, closed, broken>>

\* removeCell, and the node's button: its links are removed first.
RemoveNode(n) ==
  /\ Operation /\ n \in graph.nodes
  /\ removing' = n /\ leaving' = Connected(graph, n)
  /\ UNCHANGED <<pageVars, pending, toldVars, loading, closed, broken>>

LeaveLink(l) == removing # NoCell /\ l \in leaving /\ Detach(l) /\ UNCHANGED ops

\* Then it is removed itself, if clear has not done so, and announced.
NodeLeft ==
  /\ removing # NoCell /\ leaving = {}
  /\ graph' = [graph EXCEPT !.nodes = @ \ {removing}]
  /\ GraphEvent
  /\ removing' = NoCell
  /\ deaf' = deaf \ {removing}
  /\ UNCHANGED <<drawVars, untouched, view, data, pending, loading, leaving, closed, broken, ops>>

-----------------------------------------------------------------------------
(* Loading and saving                                                       *)

Load(j) ==
  /\ Operation
  /\ loading' = j
  /\ UNCHANGED <<pageVars, pending, toldVars, removing, leaving, closed, broken>>

\* clear() takes a cell out of the graph before anyone hears of it.
TakeOutNode(n) ==
  /\ loading # NoJson /\ removing = NoCell
  /\ n \in graph.nodes
  /\ graph' = [graph EXCEPT !.nodes = @ \ {n}]
  /\ removing' = n /\ leaving' = Connected(graph, n)
  /\ watching' = {l \in watching : graph.links[l].source # n} /\ deaf' = deaf \ {n}
  /\ UNCHANGED <<hidden, untouched, view, data, pending, toldVars, loading, closed, broken, ops>>

TakeOutLink(l) ==
  /\ loading # NoJson /\ removing = NoCell
  /\ l \in DOMAIN graph.links
  /\ Detach(l)
  /\ UNCHANGED ops

Cleared == loading # NoJson /\ removing = NoCell /\ graph = EmptyGraph(graph.look)

\* JSON.parse throws.
ParseFails ==
  /\ Cleared /\ loading = Garbage
  /\ Throw
  /\ UNCHANGED <<pageVars, pending, toldVars, closed, broken, ops>>

\* The cells are replaced at a stroke, setTitle announces the graph with the view
\* of the old one, setZoom and setPan are announced later; loaded tells it all.
Build ==
  /\ Cleared /\ loading # Garbage
  /\ graph' = Repair(loading.graph)
  /\ hidden' = {} /\ watching' = {} /\ deaf' = {}
  /\ untouched' = {l \in DOMAIN graph'.links : \E e \in Ends : graph'.links[l][e] = Free}
  /\ data' = loading.data /\ view' = loading.view
  /\ pending' = TRUE
  /\ lastJson' = Json(graph', view, data')
  /\ model' = Json(graph', view', data')
  /\ silent' = FALSE /\ broken' = FALSE
  /\ loading' = NoJson
  /\ UNCHANGED <<removing, leaving, closed, ops>>

Save ==
  /\ Operation
  /\ model' = Page /\ silent' = FALSE
  /\ UNCHANGED <<pageVars, pending, lastJson, callVars, closed, broken>>

-----------------------------------------------------------------------------
(* View, data and the end of the page                                       *)

\* Mutant: only some changes of the view are listened to.
SetViewUnheard(v) ==
  /\ Operation /\ v # view
  /\ view' = v
  /\ UNCHANGED <<cellVars, data, pending, toldVars, callVars, closed, broken>>

\* setZoom, zoomIn, zoomOut, setPan, fitOnScreen and the user's zooming and panning.
SetView(v) ==
  /\ Operation /\ v # view
  /\ view' = v /\ pending' = TRUE
  /\ UNCHANGED <<cellVars, data, toldVars, callVars, closed, broken>>

\* A second after the last change of the view.
Debounced ==
  /\ pending /\ InPage
  /\ pending' = FALSE
  /\ Modified(Page)
  /\ UNCHANGED <<pageVars, callVars, closed, broken, ops>>

\* setData announces nothing.
SetData(d) ==
  /\ Operation /\ d # data
  /\ data' = d
  /\ NoEvent
  /\ UNCHANGED <<cellVars, view, pending, callVars, closed, broken>>

\* Mutant: shuttingDown is set before modified is called.
UnloadUntold ==
  /\ Operation
  /\ closed' = TRUE
  /\ UNCHANGED <<pageVars, pending, toldVars, callVars, broken>>

\* beforeunload: what is pending is announced; the page is left.
Unload ==
  /\ Operation
  /\ Modified(Page)
  /\ closed' = TRUE
  /\ UNCHANGED <<pageVars, pending, callVars, broken>>

-----------------------------------------------------------------------------

\* What the page does in a call.
Continue ==
  \/ \E l \in Links : LeaveLink(l) \/ TakeOutLink(l)
  \/ NodeLeft
  \/ \E n \in Nodes : TakeOutNode(n)
  \/ ParseFails \/ Build

Next ==
  \/ \E n \in Nodes : CreateNode(n) \/ RemoveNode(n)
  \/ \E l \in Links :
       \/ \E s, t \in Nodes \cup {Free} : CreateLink(l, s, t)
       \/ \E e \in Ends : PullOff(l, e) \/ \E n \in Nodes : DropOn(l, e, n)
       \/ RemoveLink(l)
  \/ \E k \in Looks : ChangeTitle(k) \/ \E c \in Nodes \cup Links : ChangeLook(c, k)
  \/ \E c \in Nodes \cup Links : Straighten(c)
  \/ Mark
  \/ \E j \in Saved : Load(j)
  \/ \E v \in Views : SetView(v)
  \/ \E d \in Datas : SetData(d)
  \/ Save \/ Debounced \/ Unload
  \/ Continue

\* Calls in the page end, and its timer fires.
Fairness == WF_jvars(Continue) /\ WF_jvars(Debounced)

Spec == Init /\ [][Next]_jvars
FairSpec == Spec /\ Fairness

-----------------------------------------------------------------------------
(* Properties                                                               *)

\* Types of the page, of what Java knows, and of the call in the page: only links
\* of a node that is being removed are to be removed with it.
JointTypeOK ==
  /\ graph \in Graphs /\ hidden \cup untouched \subseteq DOMAIN graph.links
  /\ watching \subseteq hidden /\ deaf \subseteq graph.nodes \cup DOMAIN graph.links
  /\ view \in Views /\ data \in Datas
  /\ {lastJson, model} \subseteq Jsons \cup {NoJson}
  /\ loading \in Saved \cup {NoJson} /\ removing \in Nodes \cup {NoCell}
  /\ leaving \subseteq DOMAIN graph.links
  /\ removing = NoCell => leaving = {}
  /\ {pending, closed, silent, broken} \subseteq BOOLEAN /\ ops \in 0 .. MaxOps

\* Between calls every link that is drawn ends at nodes of the graph or at points
\* of the paper, whatever was created, dragged, removed and loaded, unless clear has
\* ended with an exception after it took out their node; an end that is marked as
\* abandoned because a loaded target was missing is free, unless an exception has
\* cut a drag of the link short (the source may be connected again).
LinksAreWhole ==
  InPage =>
    \A l \in Drawn :
      /\ broken \/ EndsMeet(graph, l)
      /\ l \in deaf \/ AbandonedIsFree(l, graph)

\* Between calls JointJS.model is the page, or an announcement is due, or the page
\* has come back to what was told before it was loaded or saved, or nothing
\* announces the change: of data; of a link that is not drawn; one after which a
\* listener has thrown, adjustVertices (a node is missing, the end of a loaded link
\* was never set, a link is half drawn) or the view of a half-drawn link that
\* listens to its source; or one of a cell in a change of which that has happened
\* ("the modification event is delayed", getModel).
ModelLagIsOwed ==
  InPage /\ model # Page => pending \/ silent \/ lastJson = Page

\* A changed view reaches Java in the end, or is changed again, also when cells are
\* edited, a graph is loaded, a load fails or the page is left before the second
\* is over, if what Java knew was told by modified.
ViewIsTold ==
  \A v \in Views :
    (pending /\ view = v /\ model = lastJson) ~> (model # NoJson /\ (model.view = v \/ view # v))
=============================================================================
