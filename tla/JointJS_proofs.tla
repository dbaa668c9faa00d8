---------------------------- MODULE JointJS_proofs ----------------------------
(***************************************************************************)
(* Proofs about JointJS for any nodes, links, looks, views, data and saved *)
(* graphs.                                                                 *)
(***************************************************************************)
EXTENDS JointJS, TLAPS

(* Every drawn link ends at nodes of the graph or points of the paper, but *)
(* for the node that is being removed, which clear() takes out before its  *)
(* links ...                                                               *)
Anchored ==
  \A l \in Drawn : \A e \in Ends :
    broken \/ graph.links[l][e] \in graph.nodes \cup {Free, removing}

(* ... and of that one every link that is left is still to be removed.     *)
Leaving ==
  removing # NoCell =>
    \A l \in DOMAIN graph.links : \A e \in Ends : graph.links[l][e] = removing => l \in leaving

(* What is true of the lag between calls is true within them, except while *)
(* a node is out of the graph and its removal was not announced.           *)
Owed ==
  \/ removing # NoCell /\ removing \notin graph.nodes
  \/ model = Page \/ pending \/ silent \/ lastJson = Page

(* An abandoned end is free, unless a drag of its link was cut short.      *)
Marked == \A l \in DOMAIN graph.links : l \in deaf \/ AbandonedIsFree(l, graph)

JInv == JointTypeOK /\ Anchored /\ Leaving /\ Marked /\ Owed

-----------------------------------------------------------------------------
(* What the operators on graphs return.                                     *)

LEMMA GraphIs ==
  ASSUME NEW g \in Graphs
  PROVE  /\ g.nodes \subseteq Nodes /\ g.look \in Looks
         /\ DOMAIN g.links \subseteq Links /\ g.links \in [DOMAIN g.links -> LinkRecords]
         /\ g = [nodes |-> g.nodes, links |-> g.links, look |-> g.look]
<1>1. /\ g.nodes \in SUBSET Nodes /\ g.look \in Looks
      /\ g.links \in UNION {[d -> LinkRecords] : d \in SUBSET Links}
      /\ g = [nodes |-> g.nodes, links |-> g.links, look |-> g.look]
  BY DEF Graphs
<1>2. PICK d \in SUBSET Links : g.links \in [d -> LinkRecords]
  BY <1>1
<1>3. DOMAIN g.links = d
  BY <1>2
<1>. QED BY <1>1, <1>2, <1>3

LEMMA IsAGraph ==
  ASSUME NEW nodes \in SUBSET Nodes, NEW d \in SUBSET Links, NEW links \in [d -> LinkRecords], NEW look \in Looks
  PROVE  [nodes |-> nodes, links |-> links, look |-> look] \in Graphs
<1>1. links \in UNION {[e -> LinkRecords] : e \in SUBSET Links}
  OBVIOUS
<1>. QED BY <1>1 DEF Graphs

LEMMA WithLookIs ==
  ASSUME NEW g \in Graphs, NEW k \in Looks, NEW h, h = [g EXCEPT !.look = k]
  PROVE  h \in Graphs /\ h.nodes = g.nodes /\ h.links = g.links
<1>1. g = [nodes |-> g.nodes, links |-> g.links, look |-> g.look]
  BY GraphIs
<1>2. h = [nodes |-> g.nodes, links |-> g.links, look |-> k]
  BY <1>1
<1>. QED BY <1>2, GraphIs, IsAGraph

LEMMA WithNodesIs ==
  ASSUME NEW g \in Graphs, NEW nodes \in SUBSET Nodes, NEW h, h = [g EXCEPT !.nodes = nodes]
  PROVE  h \in Graphs /\ h.nodes = nodes /\ h.links = g.links
<1>1. g = [nodes |-> g.nodes, links |-> g.links, look |-> g.look]
  BY GraphIs
<1>2. h = [nodes |-> nodes, links |-> g.links, look |-> g.look]
  BY <1>1
<1>. QED BY <1>2, GraphIs, IsAGraph

LEMMA WithLooksIs ==
  ASSUME NEW g \in Graphs, NEW h \in WithLooks(g)
  PROVE  h \in Graphs /\ h.nodes = g.nodes /\ h.links = g.links
<1>1. PICK k \in Looks : h = [g EXCEPT !.look = k]
  BY DEF WithLooks
<1>. QED BY <1>1, WithLookIs

LEMMA AdjustedIs ==
  ASSUME NEW g \in Graphs, NEW link, NEW h \in Adjusted(g, link)
  PROVE  h \in Graphs /\ h.nodes = g.nodes /\ h.links = g.links
<1>1. h = g \/ h \in WithLooks(g)
  BY DEF Adjusted
<1>. QED BY <1>1, WithLooksIs

LEMMA StraightenedIs ==
  ASSUME NEW g \in Graphs, NEW c, NEW h \in Straightened(g, c)
  PROVE  h \in Graphs /\ h.nodes = g.nodes /\ h.links = g.links
<1>1. h = g \/ \E link : h \in Adjusted(g, link)
  BY DEF Straightened
<1>. QED BY <1>1, AdjustedIs

LEMMA WithLinkIs ==
  ASSUME NEW g \in Graphs, NEW l \in Links, NEW link \in LinkRecords, NEW h, h = WithLink(g, l, link)
  PROVE  /\ h \in Graphs /\ h.nodes = g.nodes
         /\ DOMAIN h.links = DOMAIN g.links \cup {l}
         /\ \A m \in DOMAIN h.links : h.links[m] = IF m = l THEN link ELSE g.links[m]
<1>. DEFINE f == [m \in DOMAIN g.links \cup {l} |-> IF m = l THEN link ELSE g.links[m]]
<1>1. g = [nodes |-> g.nodes, links |-> g.links, look |-> g.look]
  BY GraphIs
<1>2. h = [nodes |-> g.nodes, links |-> f, look |-> g.look]
  BY <1>1 DEF WithLink
<1>3. DOMAIN g.links \cup {l} \subseteq Links /\ f \in [DOMAIN g.links \cup {l} -> LinkRecords]
  BY GraphIs
<1>4. h \in Graphs
  BY <1>2, <1>3, GraphIs, IsAGraph
<1>. QED BY <1>2, <1>4

LEMMA WithoutLinkIs ==
  ASSUME NEW g \in Graphs, NEW l, NEW h, h = WithoutLink(g, l)
  PROVE  /\ h \in Graphs /\ h.nodes = g.nodes
         /\ DOMAIN h.links = DOMAIN g.links \ {l}
         /\ \A m \in DOMAIN h.links : h.links[m] = g.links[m]
<1>. DEFINE f == [m \in DOMAIN g.links \ {l} |-> g.links[m]]
<1>1. g = [nodes |-> g.nodes, links |-> g.links, look |-> g.look]
  BY GraphIs
<1>2. h = [nodes |-> g.nodes, links |-> f, look |-> g.look]
  BY <1>1 DEF WithoutLink
<1>3. DOMAIN g.links \ {l} \subseteq Links /\ f \in [DOMAIN g.links \ {l} -> LinkRecords]
  BY GraphIs
<1>4. h \in Graphs
  BY <1>2, <1>3, GraphIs, IsAGraph
<1>. QED BY <1>2, <1>4

(* sanityCheck leaves no end that is not there, and frees the ends it      *)
(* marks as abandoned.                                                     *)
LEMMA RepairIs ==
  ASSUME NEW g \in Graphs, \A l \in DOMAIN g.links : AbandonedIsFree(l, g), NEW h, h = Repair(g)
  PROVE  /\ h \in Graphs
         /\ \A l \in DOMAIN h.links : \A e \in Ends : h.links[l][e] \in h.nodes \cup {Free}
         /\ \A l \in DOMAIN h.links : AbandonedIsFree(l, h)
<1>. DEFINE missing(l) == {e \in Ends : g.links[l][e] \notin g.nodes \cup {Free}}
            kept == {l \in DOMAIN g.links : l \in Permanent => missing(l) = {}}
            repaired(l) ==
              [source |-> IF "source" \in missing(l) THEN Free ELSE g.links[l].source,
               target |-> IF "target" \in missing(l) THEN Free ELSE g.links[l].target,
               abandoned |-> g.links[l].abandoned \cup missing(l)]
            f == [l \in kept |-> repaired(l)]
<1>1. g = [nodes |-> g.nodes, links |-> g.links, look |-> g.look]
  BY GraphIs
<1>2. h = [nodes |-> g.nodes, links |-> f, look |-> g.look]
  BY <1>1 DEF Repair
<1>3. ASSUME NEW l \in kept
      PROVE  /\ repaired(l) \in LinkRecords
             /\ repaired(l).source \in g.nodes \cup {Free} /\ repaired(l).target \in g.nodes \cup {Free}
             /\ "target" \in repaired(l).abandoned => repaired(l).target = Free
  <2>1. g.links[l] \in LinkRecords
    BY GraphIs
  <2>2. /\ g.links[l].source \in Nodes \cup {Free} /\ g.links[l].target \in Nodes \cup {Free}
        /\ g.links[l].abandoned \subseteq Ends
    BY <2>1 DEF LinkRecords
  <2>3. "source" \notin missing(l) => g.links[l].source \in g.nodes \cup {Free}
    BY DEF Ends
  <2>4. "target" \notin missing(l) => g.links[l].target \in g.nodes \cup {Free}
    BY DEF Ends
  <2>5. "target" \in g.links[l].abandoned => g.links[l].target = Free
    BY DEF AbandonedIsFree
  <2>6. missing(l) \subseteq Ends
    OBVIOUS
  <2>. HIDE DEF missing
  <2>. QED BY <2>2, <2>3, <2>4, <2>5, <2>6 DEF LinkRecords
<1>. HIDE DEF missing, repaired
<1>4. kept \subseteq Links /\ f \in [kept -> LinkRecords]
  BY <1>3, GraphIs
<1>. HIDE DEF kept
<1>5. h \in Graphs
  BY <1>2, <1>4, GraphIs, IsAGraph
<1>6. h.nodes = g.nodes /\ DOMAIN h.links = kept /\ \A l \in kept : h.links[l] = repaired(l)
  BY <1>2
<1>. QED BY <1>3, <1>5, <1>6 DEF Ends, AbandonedIsFree

-----------------------------------------------------------------------------
(* The invariant.                                                           *)

LEMMA InitJInv == Init => JInv
<1> SUFFICES ASSUME Init PROVE JInv
  OBVIOUS
<1>1. graph = [nodes |-> {}, links |-> NoLink, look |-> 0] /\ DOMAIN NoLink = {}
  BY DEF Init, EmptyGraph, NoLink
<1>2. NoLink \in [{} -> LinkRecords]
  BY DEF NoLink
<1>3. graph \in Graphs
  BY <1>1, <1>2, Start, IsAGraph
<1>4. JointTypeOK
  <2>1. {pending, closed, silent, broken} \subseteq BOOLEAN
    BY DEF Init
  <2>2. /\ graph.links = NoLink /\ leaving \subseteq DOMAIN graph.links
        /\ hidden \cup untouched \subseteq DOMAIN graph.links /\ watching \subseteq hidden
        /\ deaf \subseteq graph.nodes \cup DOMAIN graph.links
    BY <1>1 DEF Init
  <2>3. ops \in 0 .. MaxOps /\ view \in Views /\ data \in Datas
    BY Start, OpsBound DEF Init
  <2>. QED BY <1>3, <2>1, <2>2, <2>3 DEF Init, JointTypeOK
<1>. QED BY <1>1, <1>4 DEF Init, JInv, Anchored, Leaving, Marked, Owed, Drawn

(* Whatever modified() is called with, Java was told it at last.           *)
LEMMA Telling ==
  ASSUME JointTypeOK, NEW json \in Jsons, Modified(json)
  PROVE  lastJson' = json /\ silent' = FALSE /\ {lastJson', model'} \subseteq Jsons \cup {NoJson}
BY DEF Modified, JointTypeOK

LEMMA PageIs ==
  ASSUME NEW g \in Graphs, NEW v \in Views, NEW d \in Datas
  PROVE  Json(g, v, d) \in Jsons
BY DEF Json, Jsons

(* The ways in which an event of the graph ends.                           *)
Told == GraphEvent \/ GraphEvents \/ NoEvent \/ \E g \in Graphs : PartlyTold(g)

LEMMA ToldIs ==
  ASSUME JInv, Told, graph' \in Graphs, view' = view, data' = data
  PROVE  {lastJson', model'} \subseteq Jsons \cup {NoJson} /\ silent' \in BOOLEAN /\ Owed'
<1>1. view \in Views /\ data \in Datas /\ {lastJson, model} \subseteq Jsons \cup {NoJson}
  BY DEF JInv, JointTypeOK
<1>2. CASE GraphEvent
  <2>1. lastJson' = Json(graph', view, data) /\ silent' = FALSE /\ {lastJson', model'} \subseteq Jsons \cup {NoJson}
    BY <1>1, <1>2, PageIs, Telling DEF GraphEvent, JInv
  <2>. QED BY <2>1 DEF Owed, Page
<1>3. CASE GraphEvents
  <2>1. Json(graph', view, data) \in Jsons
    BY <1>1, PageIs
  <2>. QED BY <1>3, <2>1 DEF GraphEvents, Owed, Page
<1>4. CASE NoEvent
  BY <1>1, <1>4 DEF NoEvent, Owed
<1>5. CASE \E g \in Graphs : PartlyTold(g)
  <2>1. PICK g \in Graphs : PartlyTold(g)
    BY <1>5
  <2>2. PICK h \in WithLooks(g) : lastJson' = Json(h, view, data)
    BY <2>1 DEF PartlyTold
  <2>3. lastJson' \in Jsons /\ model' = lastJson' /\ silent' = TRUE
    BY <1>1, <2>1, <2>2, WithLooksIs, PageIs DEF PartlyTold
  <2>. QED BY <2>3 DEF Owed
<1>. QED BY <1>2, <1>3, <1>4, <1>5 DEF Told

(* When adjusting fails, the graph is there all the same.                  *)
LEMMA FailingIs ==
  ASSUME NEW g \in Graphs, NEW link, NEW rest, AdjustingFails(g, link, rest)
  PROVE  /\ graph' \in Graphs /\ graph'.nodes = g.nodes /\ graph'.links = g.links
         /\ rest \subseteq deaf' /\ deaf' \subseteq rest \cup DOMAIN g.links
         /\ Told
<1>1. graph' = g \/ graph' \in Adjusted(g, link)
  BY DEF AdjustingFails
<1>2. Undrawn(g, link) \subseteq DOMAIN g.links
  BY DEF Undrawn, Siblings
<1>3. Told
  BY DEF AdjustingFails, Told
<1>4. deaf' = rest \/ \E m \in Undrawn(g, link) : deaf' = rest \cup {m}
  BY DEF AdjustingFails
<1>. QED BY <1>1, <1>2, <1>3, <1>4, AdjustedIs

(* Steps that do not touch the ends of the links, nor the removal.         *)
LEMMA LinksRest ==
  ASSUME JInv, graph'.links = graph.links, graph.nodes \subseteq graph'.nodes, deaf \subseteq deaf',
         UNCHANGED <<hidden, removing, leaving, broken>>
  PROVE  Anchored' /\ Leaving' /\ Marked'
<1>1. Anchored'
  BY DEF JInv, Anchored, Drawn
<1>2. Leaving'
  BY DEF JInv, Leaving
<1>3. Marked'
  BY DEF JInv, Marked, AbandonedIsFree
<1>. QED BY <1>1, <1>2, <1>3

(* Between calls, a link is added or one of its ends is set.               *)
LEMMA LinkSet ==
  ASSUME JInv, removing = NoCell, NEW l \in Links, NEW link \in LinkRecords,
         l \in deaf' \/ ("target" \in link.abandoned => link.target = Free),
         deaf \subseteq deaf',
         NEW g, g = WithLink(graph, l, link),
         graph'.nodes = g.nodes, graph'.links = g.links,
         hidden \subseteq hidden', l \in hidden' \/ \A e \in Ends : link[e] \in graph.nodes \cup {Free},
         UNCHANGED <<removing, leaving, broken>>
  PROVE  Anchored' /\ Leaving' /\ Marked'
<1>1. graph \in Graphs
  BY DEF JInv, JointTypeOK
<1>2. /\ g.nodes = graph.nodes /\ DOMAIN g.links = DOMAIN graph.links \cup {l}
      /\ \A m \in DOMAIN g.links : g.links[m] = IF m = l THEN link ELSE graph.links[m]
  BY <1>1, WithLinkIs
<1>3. Anchored'
  BY <1>2 DEF JInv, Anchored, Drawn
<1>4. Leaving'
  BY DEF Leaving
<1>5. Marked'
  BY <1>2 DEF JInv, Marked, AbandonedIsFree
<1>. QED BY <1>3, <1>4, <1>5

(* A link leaves the graph, perhaps with an exception.                     *)
LEMMA DetachKeeps ==
  ASSUME JInv, NEW l \in DOMAIN graph.links, Detach(l), ops' \in 0 .. MaxOps
  PROVE  JInv'
<1>. DEFINE left == WithoutLink(graph, l)
<1>1. graph \in Graphs /\ {lastJson, model} \subseteq Jsons \cup {NoJson}
  BY DEF JInv, JointTypeOK
<1>2. /\ left \in Graphs /\ left.nodes = graph.nodes /\ DOMAIN left.links = DOMAIN graph.links \ {l}
      /\ \A m \in DOMAIN left.links : left.links[m] = graph.links[m]
  BY <1>1, WithoutLinkIs
<1>. HIDE DEF left
<1>3. /\ hidden' = hidden \ {l} /\ watching' = watching \ {l} /\ untouched' = untouched \ {l}
      /\ UNCHANGED <<view, data, pending, closed>>
      /\ \E link :
           \/ /\ graph' \in Adjusted(left, link) /\ (GraphEvent \/ GraphEvents) /\ deaf' = deaf \ {l}
              /\ leaving' = leaving \ {l} /\ UNCHANGED <<broken, loading, removing>>
           \/ /\ \/ graph' = left /\ NoEvent /\ deaf' = deaf \ {l}
                 \/ AdjustingFails(left, link, deaf \ {l})
              /\ broken' = (broken \/ removing \notin graph.nodes \cup {NoCell})
              /\ loading' = NoJson /\ removing' = NoCell /\ leaving' = {}
  BY DEF Detach, left, Throw, Adjusting, Announcement
<1>4. /\ graph' \in Graphs /\ graph'.nodes = graph.nodes /\ graph'.links = left.links
      /\ deaf \ {l} \subseteq deaf' /\ deaf' \subseteq (deaf \ {l}) \cup DOMAIN left.links
      /\ Told
  <2>1. PICK link :
          \/ graph' \in Adjusted(left, link) /\ (GraphEvent \/ GraphEvents) /\ deaf' = deaf \ {l}
          \/ graph' = left /\ NoEvent /\ deaf' = deaf \ {l}
          \/ AdjustingFails(left, link, deaf \ {l})
    BY <1>3
  <2>2. CASE graph' \in Adjusted(left, link) /\ (GraphEvent \/ GraphEvents) /\ deaf' = deaf \ {l}
    BY <1>2, <2>2, AdjustedIs DEF Told
  <2>3. CASE graph' = left /\ NoEvent /\ deaf' = deaf \ {l}
    BY <1>2, <2>3 DEF Told
  <2>4. CASE AdjustingFails(left, link, deaf \ {l})
    BY <1>2, <2>4, FailingIs
  <2>. QED BY <2>1, <2>2, <2>3, <2>4
<1>5. {lastJson', model'} \subseteq Jsons \cup {NoJson} /\ silent' \in BOOLEAN /\ Owed'
  BY <1>3, <1>4, ToldIs
<1>6. /\ hidden' \cup untouched' \subseteq DOMAIN graph'.links /\ watching' \subseteq hidden'
      /\ deaf' \subseteq graph'.nodes \cup DOMAIN graph'.links
  BY <1>2, <1>3, <1>4 DEF JInv, JointTypeOK
<1>7. Marked'
  <2>. SUFFICES ASSUME NEW m \in DOMAIN left.links PROVE m \in deaf' \/ AbandonedIsFree(m, left)
    BY <1>4 DEF Marked, AbandonedIsFree
  <2>1. m \in deaf \/ AbandonedIsFree(m, graph)
    BY <1>2 DEF JInv, Marked
  <2>2. m # l /\ left.links[m] = graph.links[m]
    BY <1>2
  <2>. QED BY <1>4, <2>1, <2>2 DEF AbandonedIsFree
<1>8. CASE removing' = removing /\ broken' = broken /\ leaving' = leaving \ {l} /\ loading' = loading
  <2>1. JointTypeOK'
    <3>1. leaving' \subseteq DOMAIN graph'.links
      BY <1>2, <1>4, <1>8 DEF JInv, JointTypeOK
    <3>2. {pending', closed', silent', broken'} \subseteq BOOLEAN
      BY <1>3, <1>5, <1>8 DEF JInv, JointTypeOK
    <3>. QED BY <1>3, <1>4, <1>5, <1>6, <1>8, <3>1, <3>2 DEF JInv, JointTypeOK
  <2>2. Anchored'
    BY <1>2, <1>3, <1>4, <1>8 DEF JInv, Anchored, Drawn
  <2>3. Leaving'
    BY <1>2, <1>4, <1>8 DEF JInv, Leaving
  <2>. QED BY <1>5, <1>7, <2>1, <2>2, <2>3 DEF JInv
<1>9. CASE /\ broken' = (broken \/ removing \notin graph.nodes \cup {NoCell})
           /\ loading' = NoJson /\ removing' = NoCell /\ leaving' = {}
  <2>1. JointTypeOK'
    <3>1. {pending', closed', silent', broken'} \subseteq BOOLEAN
      BY <1>3, <1>5, <1>9 DEF JInv, JointTypeOK
    <3>. QED BY <1>3, <1>4, <1>5, <1>6, <1>9, <3>1 DEF JInv, JointTypeOK
  <2>2. Anchored'
    <3>. SUFFICES ASSUME ~broken', NEW m \in DOMAIN graph'.links \ hidden', NEW e \in Ends
                  PROVE  graph'.links[m][e] \in graph'.nodes \cup {Free, removing'}
      BY DEF Anchored, Drawn
    <3>1. ~broken /\ removing \in graph.nodes \cup {NoCell}
      BY <1>9
    <3>2. m \in Drawn /\ graph'.links[m] = graph.links[m]
      BY <1>2, <1>3, <1>4 DEF Drawn
    <3>3. graph.links[m][e] \in graph.nodes \cup {Free, removing}
      BY <3>1, <3>2 DEF JInv, Anchored
    <3>. QED BY <1>4, <1>9, <3>1, <3>2, <3>3
  <2>3. Leaving'
    BY <1>9 DEF Leaving
  <2>. QED BY <1>5, <1>7, <2>1, <2>2, <2>3 DEF JInv
<1>. QED BY <1>3, <1>8, <1>9

(* An operation whose graph is announced, at once or not because an        *)
(* exception got in the way, between calls.                                *)
LEMMA Announced ==
  ASSUME JInv, Operation, Told,
         graph' \in Graphs, hidden' \cup untouched' \subseteq DOMAIN graph'.links, watching' \subseteq hidden',
         deaf' \subseteq graph'.nodes \cup DOMAIN graph'.links,
         UNCHANGED <<view, data, pending, callVars, closed, broken>>
  PROVE  JointTypeOK' /\ Owed'
<1>1. ops' \in 0 .. MaxOps /\ removing = NoCell /\ leaving = {}
  BY OpsBound DEF Operation, InPage, JInv, JointTypeOK
<1>2. {lastJson', model'} \subseteq Jsons \cup {NoJson} /\ silent' \in BOOLEAN /\ Owed'
  BY ToldIs
<1>3. {pending', closed', silent', broken'} \subseteq BOOLEAN
  BY <1>2 DEF JInv, JointTypeOK
<1>. QED BY <1>1, <1>2, <1>3 DEF JInv, JointTypeOK, callVars

LEMMA CreateNodeKeeps ==
  ASSUME JInv, NEW n \in Nodes, CreateNode(n)
  PROVE  JInv'
<1>. DEFINE added == [graph EXCEPT !.nodes = @ \cup {n}]
<1>1. graph \in Graphs
  BY DEF JInv, JointTypeOK
<1>2. added \in Graphs /\ added.nodes = graph.nodes \cup {n} /\ added.links = graph.links
  <2>1. graph.nodes \cup {n} \in SUBSET Nodes
    BY <1>1, GraphIs
  <2>2. added = [graph EXCEPT !.nodes = graph.nodes \cup {n}]
    OBVIOUS
  <2>. HIDE DEF added
  <2>. QED BY <1>1, <2>1, <2>2, WithNodesIs
<1>3. /\ Operation /\ graph' \in Straightened(added, n)
      /\ \/ (GraphEvent \/ GraphEvents) /\ deaf' = deaf
         \/ (NoEvent \/ PartlyTold(added)) /\ deaf' \in {deaf} \cup {deaf \cup {m} : m \in hidden}
      /\ UNCHANGED <<hidden, watching, untouched, view, data, pending, callVars, closed, broken>>
  BY DEF CreateNode, Announcement, Unheard, drawVars
<1>. HIDE DEF added
<1>4. graph' \in Graphs /\ graph'.nodes = graph.nodes \cup {n} /\ graph'.links = graph.links
  BY <1>2, <1>3, StraightenedIs
<1>5. Told
  BY <1>2, <1>3 DEF Told
<1>6. deaf \subseteq deaf' /\ deaf' \subseteq deaf \cup hidden
  BY <1>3
<1>7. /\ hidden' \cup untouched' \subseteq DOMAIN graph'.links /\ watching' \subseteq hidden'
      /\ deaf' \subseteq graph'.nodes \cup DOMAIN graph'.links
  BY <1>3, <1>4, <1>6 DEF JInv, JointTypeOK
<1>8. JointTypeOK' /\ Owed'
  BY <1>3, <1>4, <1>5, <1>7, Announced
<1>9. Anchored' /\ Leaving' /\ Marked'
  BY <1>3, <1>4, <1>6, LinksRest DEF callVars
<1>. QED BY <1>8, <1>9 DEF JInv

LEMMA CreateLinkKeeps ==
  ASSUME JInv, NEW l \in Links, NEW s \in Nodes \cup {Free}, NEW t \in Nodes \cup {Free}, CreateLink(l, s, t)
  PROVE  JInv'
<1>. DEFINE link == LinkOf(s, t)
            added == WithLink(graph, l, link)
<1>1. graph \in Graphs /\ removing = NoCell
  BY DEF CreateLink, Operation, InPage, JInv, JointTypeOK
<1>2. link \in LinkRecords /\ link.abandoned = {}
  BY DEF LinkOf, LinkRecords
<1>3. /\ added \in Graphs /\ added.nodes = graph.nodes /\ DOMAIN added.links = DOMAIN graph.links \cup {l}
      /\ added.links[l] = link
  BY <1>1, <1>2, WithLinkIs
<1>4. /\ Operation /\ UNCHANGED <<untouched, view, data, pending, callVars, closed, broken>>
      /\ \/ /\ EndsMeet(added, l) /\ hidden' = hidden /\ watching' = watching
            /\ \/ graph' \in Adjusted(added, link) /\ (GraphEvent \/ GraphEvents) /\ deaf' = deaf
               \/ AdjustingFails(added, link, deaf)
         \/ /\ graph' = added /\ hidden' = hidden \cup {l} /\ watching' \subseteq watching \cup {l}
            /\ NoEvent /\ deaf' = deaf
  BY DEF CreateLink, Adjusting, Announcement, drawVars
<1>5. EndsMeet(added, l) => \A e \in Ends : link[e] \in graph.nodes \cup {Free}
  BY <1>3 DEF EndsMeet
<1>. HIDE DEF added, link
<1>6. /\ graph' \in Graphs /\ graph'.nodes = added.nodes /\ graph'.links = added.links
      /\ deaf \subseteq deaf' /\ deaf' \subseteq deaf \cup DOMAIN added.links
      /\ Told
  <2>1. CASE graph' \in Adjusted(added, link) /\ (GraphEvent \/ GraphEvents) /\ deaf' = deaf
    BY <1>3, <2>1, AdjustedIs DEF Told
  <2>2. CASE AdjustingFails(added, link, deaf)
    BY <1>3, <2>2, FailingIs
  <2>3. CASE graph' = added /\ NoEvent /\ deaf' = deaf
    BY <1>3, <2>3 DEF Told
  <2>. QED BY <1>4, <2>1, <2>2, <2>3
<1>7. /\ hidden' \cup untouched' \subseteq DOMAIN graph'.links /\ watching' \subseteq hidden'
      /\ deaf' \subseteq graph'.nodes \cup DOMAIN graph'.links
  BY <1>3, <1>4, <1>6 DEF JInv, JointTypeOK
<1>8. JointTypeOK' /\ Owed'
  BY <1>4, <1>6, <1>7, Announced
<1>9. Anchored' /\ Leaving' /\ Marked'
  <2>1. "target" \in link.abandoned => link.target = Free
    BY <1>2
  <2>2. l \in hidden' \/ \A e \in Ends : link[e] \in graph.nodes \cup {Free}
    BY <1>4, <1>5
  <2>3. hidden \subseteq hidden' /\ UNCHANGED <<removing, leaving, broken>>
    BY <1>4 DEF callVars
  <2>. QED BY <1>1, <1>2, <1>6, <2>1, <2>2, <2>3, LinkSet DEF added
<1>. QED BY <1>8, <1>9 DEF JInv

LEMMA ReconnectIs ==
  ASSUME NEW link \in LinkRecords, NEW e \in Ends, NEW end \in Nodes \cup {Free}
  PROVE  /\ Reconnect(link, e, end) \in LinkRecords
         /\ Reconnect(link, e, end)[e] = end
         /\ \A d \in Ends \ {e} : Reconnect(link, e, end)[d] = link[d]
         /\ ("target" \in link.abandoned => link.target = Free)
              => ("target" \in Reconnect(link, e, end).abandoned => Reconnect(link, e, end).target = Free)
<1>1. PICK s \in Nodes \cup {Free}, t \in Nodes \cup {Free}, a \in SUBSET Ends :
        link = [source |-> s, target |-> t, abandoned |-> a]
  BY DEF LinkRecords
<1>2. CASE e = "source"
  <2>1. [link EXCEPT !["source"] = end] = [source |-> end, target |-> t, abandoned |-> a]
    BY <1>1
  <2>2. Reconnect(link, e, end) = [[link EXCEPT !["source"] = end] EXCEPT !.abandoned = a]
    BY <1>1, <1>2 DEF Reconnect
  <2>3. Reconnect(link, e, end) = [source |-> end, target |-> t, abandoned |-> a]
    BY <2>1, <2>2
  <2>4. link.target = t /\ link.abandoned = a
    BY <1>1
  <2>5. \A d \in Ends \ {e} : d = "target"
    BY <1>2 DEF Ends
  <2>6. Reconnect(link, e, end) \in LinkRecords
    BY <2>3 DEF LinkRecords
  <2>7. Reconnect(link, e, end)[e] = end
    BY <1>2, <2>3
  <2>8. Reconnect(link, e, end).target = t /\ Reconnect(link, e, end).abandoned = a
    BY <2>3
  <2>. QED BY <2>4, <2>5, <2>6, <2>7, <2>8
<1>3. CASE e = "target"
  <2>1. [link EXCEPT !["target"] = end] = [source |-> s, target |-> end, abandoned |-> a]
    BY <1>1
  <2>2. Reconnect(link, e, end) = [[link EXCEPT !["target"] = end] EXCEPT !.abandoned = {}]
    BY <1>1, <1>3 DEF Reconnect
  <2>3. Reconnect(link, e, end) = [source |-> s, target |-> end, abandoned |-> {}]
    BY <2>1, <2>2
  <2>. QED BY <1>1, <1>3, <2>3 DEF LinkRecords, Ends
<1>. QED BY <1>2, <1>3 DEF Ends

WithEnd(link, e, end) == [link EXCEPT ![e] = end]

LEMMA WithEndIs ==
  ASSUME NEW link \in LinkRecords, NEW e \in Ends, NEW end \in Nodes \cup {Free}
  PROVE  /\ WithEnd(link, e, end) \in LinkRecords /\ WithEnd(link, e, end)[e] = end
         /\ \A d \in Ends \ {e} : WithEnd(link, e, end)[d] = link[d]
<1>1. PICK s \in Nodes \cup {Free}, t \in Nodes \cup {Free}, a \in SUBSET Ends :
        link = [source |-> s, target |-> t, abandoned |-> a]
  BY DEF LinkRecords
<1>2. CASE e = "source"
  <2>1. WithEnd(link, e, end) = [source |-> end, target |-> t, abandoned |-> a]
    BY <1>1, <1>2 DEF WithEnd
  <2>. QED BY <1>1, <1>2, <2>1 DEF LinkRecords, Ends
<1>3. CASE e = "target"
  <2>1. WithEnd(link, e, end) = [source |-> s, target |-> end, abandoned |-> a]
    BY <1>1, <1>3 DEF WithEnd
  <2>. QED BY <1>1, <1>3, <2>1 DEF LinkRecords, Ends
<1>. QED BY <1>2, <1>3 DEF Ends

(* The user's dragging of an end.                                          *)
LEMMA DragKeeps ==
  ASSUME JInv, NEW l \in Links, NEW e \in Ends, PullOff(l, e) \/ \E n \in Nodes : DropOn(l, e, n)
  PROVE  JInv'
<1>1. graph \in Graphs /\ removing = NoCell /\ Operation /\ l \in Drawn /\ EndsMeet(graph, l)
  BY DEF PullOff, DropOn, Operation, InPage, JInv, JointTypeOK
<1>2. PICK g \in {graph} \cup WithLooks(graph), end \in graph.nodes \cup {Free} :
        \E seen : Drag(g, l, e, end, seen)
  <2>1. CASE PullOff(l, e)
    BY <2>1 DEF PullOff
  <2>2. CASE \E n \in Nodes : DropOn(l, e, n)
    BY <2>2 DEF DropOn
  <2>. QED BY <2>1, <2>2
<1>. PICK looked : Drag(g, l, e, end, looked)
  BY <1>2
<1>3. g \in Graphs /\ g.nodes = graph.nodes /\ g.links = graph.links
  BY <1>1, WithLooksIs
<1>4. graph.links[l] \in LinkRecords /\ (l \in deaf \/ AbandonedIsFree(l, graph)) /\ end \in Nodes \cup {Free}
  BY <1>1, GraphIs DEF Drawn, JInv, Marked
<1>. DEFINE dragged == WithEnd(graph.links[l], e, end)
            reset == Reconnect(graph.links[l], e, end)
<1>5. /\ UNCHANGED <<hidden, watching, view, data, pending, callVars, closed, broken>>
      /\ untouched' = untouched \ {l}
      /\ \/ /\ graph' \in Adjusted(WithLink(g, l, reset), looked) /\ deaf' = deaf
            /\ GraphEvent \/ GraphEvents \/ NoEvent \/ PartlyTold(WithLink(g, l, dragged))
         \/ AdjustingFails(WithLink(g, l, dragged), looked, deaf \cup {l})
  BY DEF Drag, Adjusting, Announcement, drawVars, WithEnd
<1>6. /\ dragged \in LinkRecords /\ dragged[e] = end /\ \A d \in Ends \ {e} : dragged[d] = graph.links[l][d]
  BY <1>4, WithEndIs
<1>7. /\ reset \in LinkRecords /\ reset[e] = end /\ \A d \in Ends \ {e} : reset[d] = graph.links[l][d]
      /\ l \in deaf \/ ("target" \in reset.abandoned => reset.target = Free)
  BY <1>4, ReconnectIs DEF AbandonedIsFree
<1>8. \A d \in Ends : graph.links[l][d] \in graph.nodes \cup {Free}
  BY <1>1 DEF EndsMeet
<1>. HIDE DEF dragged, reset
<1>9. WithLink(g, l, dragged) \in Graphs
  BY <1>3, <1>6, WithLinkIs
<1>10. PICK link \in {dragged, reset} :
         /\ graph' \in Graphs /\ graph'.nodes = WithLink(g, l, link).nodes /\ graph'.links = WithLink(g, l, link).links
         /\ deaf \subseteq deaf' /\ deaf' \subseteq deaf \cup {l} \cup DOMAIN graph'.links
         /\ l \in deaf' \/ link = reset
         /\ Told
  <2>1. CASE /\ graph' \in Adjusted(WithLink(g, l, reset), looked) /\ deaf' = deaf
             /\ GraphEvent \/ GraphEvents \/ NoEvent \/ PartlyTold(WithLink(g, l, dragged))
    <3>1. WithLink(g, l, reset) \in Graphs
      BY <1>3, <1>7, WithLinkIs
    <3>2. graph' \in Graphs /\ graph'.nodes = WithLink(g, l, reset).nodes /\ graph'.links = WithLink(g, l, reset).links
      BY <2>1, <3>1, AdjustedIs
    <3>3. Told
      BY <1>9, <2>1 DEF Told
    <3>. QED BY <2>1, <3>2, <3>3
  <2>2. CASE AdjustingFails(WithLink(g, l, dragged), looked, deaf \cup {l})
    <3>1. /\ graph' \in Graphs /\ graph'.nodes = WithLink(g, l, dragged).nodes
          /\ graph'.links = WithLink(g, l, dragged).links
          /\ deaf \cup {l} \subseteq deaf' /\ deaf' \subseteq deaf \cup {l} \cup DOMAIN graph'.links /\ Told
      BY <1>9, <2>2, FailingIs
    <3>. QED BY <3>1
  <2>. QED BY <1>5, <2>1, <2>2
<1>11. link \in LinkRecords /\ \A d \in Ends : link[d] \in graph.nodes \cup {Free}
  BY <1>6, <1>7, <1>8
<1>12. l \in deaf' \/ ("target" \in link.abandoned => link.target = Free)
  BY <1>7, <1>10
<1>13. /\ WithLink(graph, l, link).nodes = graph.nodes
       /\ DOMAIN WithLink(graph, l, link).links = DOMAIN graph.links \cup {l}
       /\ WithLink(g, l, link).nodes = graph.nodes /\ WithLink(g, l, link).links = WithLink(graph, l, link).links
  <2>1. \A h \in Graphs : h.links = graph.links =>
          WithLink(h, l, link).nodes = h.nodes
          /\ WithLink(h, l, link).links
               = [m \in DOMAIN graph.links \cup {l} |-> IF m = l THEN link ELSE graph.links[m]]
    <3>. SUFFICES ASSUME NEW h \in Graphs, h.links = graph.links
                  PROVE  /\ WithLink(h, l, link).nodes = h.nodes
                         /\ WithLink(h, l, link).links
                              = [m \in DOMAIN graph.links \cup {l} |-> IF m = l THEN link ELSE graph.links[m]]
      OBVIOUS
    <3>1. h = [nodes |-> h.nodes, links |-> h.links, look |-> h.look]
      BY GraphIs
    <3>2. WithLink(h, l, link)
            = [nodes |-> h.nodes, look |-> h.look,
               links |-> [m \in DOMAIN h.links \cup {l} |-> IF m = l THEN link ELSE h.links[m]]]
      BY <3>1 DEF WithLink
    <3>. QED BY <3>2
  <2>. QED BY <1>1, <1>3, <2>1
<1>14. /\ hidden' \cup untouched' \subseteq DOMAIN graph'.links /\ watching' \subseteq hidden'
       /\ deaf' \subseteq graph'.nodes \cup DOMAIN graph'.links
  BY <1>5, <1>10, <1>13 DEF JInv, JointTypeOK
<1>15. JointTypeOK' /\ Owed'
  BY <1>1, <1>5, <1>10, <1>14, Announced
<1>16. Anchored' /\ Leaving' /\ Marked'
  BY <1>1, <1>5, <1>10, <1>11, <1>12, <1>13, LinkSet DEF callVars
<1>. QED BY <1>15, <1>16 DEF JInv

(* Changes of looks, whether their event goes through or not.              *)
LEMMA LookKeeps ==
  ASSUME JInv, NEW k \in Looks,
         ChangeTitle(k) \/ \E c \in Nodes \cup Links : ChangeLook(c, k)
  PROVE  JInv'
<1>1. /\ graph \in Graphs /\ Operation /\ graph' = [graph EXCEPT !.look = k] /\ Told
      /\ deaf \subseteq deaf' /\ deaf' \subseteq deaf \cup graph.nodes \cup DOMAIN graph.links
      /\ untouched' \subseteq untouched
      /\ UNCHANGED <<hidden, watching, view, data, pending, callVars, closed, broken>>
  BY DEF ChangeTitle, ChangeLook, JInv, JointTypeOK, Told, drawVars
<1>2. graph' \in Graphs /\ graph'.nodes = graph.nodes /\ graph'.links = graph.links
  BY <1>1, WithLookIs
<1>3. /\ hidden' \cup untouched' \subseteq DOMAIN graph'.links /\ watching' \subseteq hidden'
      /\ deaf' \subseteq graph'.nodes \cup DOMAIN graph'.links
  BY <1>1, <1>2 DEF JInv, JointTypeOK
<1>4. JointTypeOK' /\ Owed'
  BY <1>1, <1>2, <1>3, Announced
<1>5. Anchored' /\ Leaving' /\ Marked'
  BY <1>1, <1>2, LinksRest DEF callVars
<1>. QED BY <1>4, <1>5 DEF JInv

LEMMA StraightenKeeps ==
  ASSUME JInv, NEW c \in Nodes \cup Links, Straighten(c)
  PROVE  JInv'
<1>1. /\ graph \in Graphs /\ Operation /\ graph' \in Straightened(graph, c)
      /\ \/ (GraphEvent \/ GraphEvents) /\ deaf' = deaf
         \/ (NoEvent \/ PartlyTold(graph)) /\ deaf' \in {deaf} \cup {deaf \cup {m} : m \in hidden}
      /\ UNCHANGED <<hidden, watching, untouched, view, data, pending, callVars, closed, broken>>
  BY DEF Straighten, Announcement, Unheard, JInv, JointTypeOK, drawVars
<1>2. graph' \in Graphs /\ graph'.nodes = graph.nodes /\ graph'.links = graph.links
  BY <1>1, StraightenedIs
<1>3. Told
  BY <1>1 DEF Told
<1>4. deaf \subseteq deaf' /\ deaf' \subseteq deaf \cup hidden
  BY <1>1
<1>5. /\ hidden' \cup untouched' \subseteq DOMAIN graph'.links /\ watching' \subseteq hidden'
      /\ deaf' \subseteq graph'.nodes \cup DOMAIN graph'.links
  BY <1>1, <1>2, <1>4 DEF JInv, JointTypeOK
<1>6. JointTypeOK' /\ Owed'
  BY <1>1, <1>2, <1>3, <1>5, Announced
<1>7. Anchored' /\ Leaving' /\ Marked'
  BY <1>1, <1>2, <1>4, LinksRest DEF callVars
<1>. QED BY <1>6, <1>7 DEF JInv

(* Operations that leave the links alone and are announced or not, and     *)
(* those that change view and data.                                        *)
LEMMA QuietOperations ==
  ASSUME JInv,
         \/ Mark \/ Save \/ Debounced \/ Unload
         \/ (\E v \in Views : SetView(v)) \/ (\E d \in Datas : SetData(d))
         \/ \E j \in Saved : Load(j)
         \/ UNCHANGED jvars
  PROVE  JInv'
<1>1. /\ graph \in Graphs /\ view \in Views /\ data \in Datas
      /\ Page \in Jsons /\ {lastJson, model} \subseteq Jsons \cup {NoJson}
      /\ {pending, closed, silent, broken} \subseteq BOOLEAN
  BY PageIs DEF JInv, JointTypeOK, Page
<1>2. /\ graph' \in Graphs /\ graph'.nodes = graph.nodes /\ graph'.links = graph.links
      /\ hidden' = hidden /\ watching' = watching /\ untouched' \subseteq untouched
      /\ deaf \subseteq deaf' /\ deaf' \subseteq deaf \cup graph.nodes
      /\ view' \in Views /\ data' \in Datas
      /\ UNCHANGED <<removing, leaving, broken>>
  <2>1. CASE Mark
    <3>1. Watched \subseteq graph.nodes
      BY DEF Watched
    <3>. QED BY <1>1, <2>1, <3>1 DEF Mark, drawVars, callVars
  <2>2. CASE Save \/ Debounced \/ Unload
    BY <1>1, <2>2 DEF Save, Debounced, Unload, pageVars, cellVars, drawVars, callVars
  <2>3. CASE (\E v \in Views : SetView(v)) \/ (\E d \in Datas : SetData(d))
    BY <1>1, <2>3 DEF SetView, SetData, cellVars, drawVars, callVars
  <2>4. CASE (\E j \in Saved : Load(j)) \/ UNCHANGED jvars
    BY <1>1, <2>4 DEF Load, jvars, pageVars, cellVars, drawVars, callVars
  <2>. QED BY <2>1, <2>2, <2>3, <2>4
<1>3. ops' \in 0 .. MaxOps /\ loading' \in Saved \cup {NoJson}
  BY OpsBound DEF JInv, JointTypeOK, Mark, Save, Debounced, Unload, SetView, SetData, Load, Operation,
     jvars, callVars
<1>4. Anchored' /\ Leaving' /\ Marked'
  BY <1>2, LinksRest
<1>5. /\ hidden' \cup untouched' \subseteq DOMAIN graph'.links /\ leaving' \subseteq DOMAIN graph'.links
      /\ watching' \subseteq hidden' /\ deaf' \subseteq graph'.nodes \cup DOMAIN graph'.links
      /\ removing' \in Nodes \cup {NoCell} /\ (removing' = NoCell => leaving' = {})
  BY <1>2 DEF JInv, JointTypeOK
<1>. DEFINE Known ==
       /\ {lastJson', model'} \subseteq Jsons \cup {NoJson}
       /\ {pending', closed', silent', broken'} \subseteq BOOLEAN
       /\ Owed'
<1>6. Known
  <2>1. ASSUME Modified(Json(graph', view, data)), view' = view, data' = data, closed' \in BOOLEAN, pending' \in BOOLEAN
        PROVE  Known
    <3>1. lastJson' = Json(graph', view, data) /\ silent' = FALSE /\ {lastJson', model'} \subseteq Jsons \cup {NoJson}
      BY <1>1, <1>2, <2>1, PageIs, Telling DEF JInv
    <3>2. {pending', closed', silent', broken'} \subseteq BOOLEAN
      BY <1>1, <1>2, <2>1, <3>1
    <3>. QED BY <2>1, <3>1, <3>2 DEF Owed, Page
  <2>2. ASSUME UNCHANGED <<graph, view, data, removing, pending, toldVars, closed>>
        PROVE  Known
    BY <1>1, <1>2, <2>2 DEF JInv, Owed, Page, toldVars
  <2>4. CASE Debounced \/ Unload
    <3>1. graph' = graph /\ view' = view /\ data' = data
      BY <2>4 DEF Debounced, Unload, pageVars, cellVars
    <3>. QED BY <1>1, <2>1, <2>4, <3>1 DEF Debounced, Unload, Page
  <2>5. CASE Mark
    <3>1. graph' = graph /\ view' = view /\ data' = data /\ removing' = removing /\ closed' = closed /\ pending' = pending
      BY <2>5 DEF Mark, callVars
    <3>2. Modified(Page) \/ UNCHANGED toldVars
      BY <2>5 DEF Mark
    <3>. QED BY <1>1, <2>1, <2>2, <3>1, <3>2 DEF Page
  <2>6. CASE (\E j \in Saved : Load(j)) \/ UNCHANGED jvars
    <3>1. CASE UNCHANGED jvars
      BY <2>2, <3>1 DEF jvars, pageVars, cellVars, callVars
    <3>2. CASE \E j \in Saved : Load(j)
      BY <2>2, <3>2 DEF Load, pageVars, cellVars
    <3>. QED BY <2>6, <3>1, <3>2
  <2>7. CASE Save
    <3>1. model' = Page' /\ model' = Page
      BY <2>7 DEF Save, pageVars, cellVars, Page
    <3>2. silent' = FALSE /\ UNCHANGED <<lastJson, pending, closed, broken>>
      BY <2>7 DEF Save
    <3>3. {lastJson', model'} \subseteq Jsons \cup {NoJson}
      BY <1>1, <3>1, <3>2
    <3>4. {pending', closed', silent', broken'} \subseteq BOOLEAN
      BY <1>1, <3>2
    <3>. QED BY <3>1, <3>3, <3>4 DEF Owed
  <2>8. CASE \E v \in Views : SetView(v)
    <3>1. pending' = TRUE /\ UNCHANGED <<toldVars, closed, broken>>
      BY <2>8 DEF SetView
    <3>. QED BY <1>1, <3>1 DEF Owed, toldVars
  <2>9. CASE \E d \in Datas : SetData(d)
    <3>1. silent' = TRUE /\ UNCHANGED <<lastJson, model, pending, closed, broken>>
      BY <2>9 DEF SetData, NoEvent
    <3>. QED BY <1>1, <3>1 DEF Owed
  <2>. QED BY <2>4, <2>5, <2>6, <2>7, <2>8, <2>9
<1>7. JointTypeOK'
  BY <1>2, <1>3, <1>5, <1>6 DEF JointTypeOK
<1>. QED BY <1>4, <1>6, <1>7 DEF JInv

(* A node is taken out: by removeCell last, by clear() first.              *)
LEMMA RemoveNodeKeeps ==
  ASSUME JInv, NEW n \in Nodes, RemoveNode(n) \/ TakeOutNode(n)
  PROVE  JInv'
<1>1. /\ graph \in Graphs /\ n \in graph.nodes /\ removing = NoCell
      /\ removing' = n /\ leaving' = Connected(graph, n)
      /\ watching' \subseteq watching /\ deaf' \in {deaf, deaf \ {n}}
      /\ UNCHANGED <<hidden, untouched, view, data, pending, toldVars, loading, closed, broken>>
  BY DEF RemoveNode, TakeOutNode, Operation, InPage, JInv, JointTypeOK, pageVars, cellVars, drawVars
<1>2. /\ graph' \in Graphs /\ graph'.links = graph.links
      /\ graph.nodes \ {n} \subseteq graph'.nodes
      /\ graph' = graph \/ n \notin graph'.nodes
      /\ graph' = graph \/ deaf' = deaf \ {n}
  <2>1. CASE RemoveNode(n)
    BY <1>1, <2>1 DEF RemoveNode, pageVars, cellVars
  <2>2. CASE TakeOutNode(n)
    <3>1. /\ graph.nodes \ {n} \in SUBSET Nodes /\ graph' = [graph EXCEPT !.nodes = graph.nodes \ {n}]
          /\ deaf' = deaf \ {n}
      BY <1>1, <2>2, GraphIs DEF TakeOutNode
    <3>. QED BY <1>1, <3>1, WithNodesIs
  <2>. QED BY <2>1, <2>2
<1>3. ops' \in 0 .. MaxOps
  BY OpsBound DEF RemoveNode, TakeOutNode, Operation, JInv, JointTypeOK
<1>4. /\ leaving' \subseteq DOMAIN graph'.links /\ n # NoCell
      /\ deaf' \subseteq graph'.nodes \cup DOMAIN graph'.links
  <2>1. deaf \subseteq graph.nodes \cup DOMAIN graph.links
    BY DEF JInv, JointTypeOK
  <2>. QED BY <1>1, <1>2, <2>1, CellsDiffer DEF Connected
<1>5. JointTypeOK'
  BY <1>1, <1>2, <1>3, <1>4 DEF JInv, JointTypeOK, toldVars
<1>6. Anchored'
  <2>. SUFFICES ASSUME ~broken, NEW l \in Drawn, NEW e \in Ends
                PROVE  graph.links[l][e] \in graph'.nodes \cup {Free, n}
    BY <1>1, <1>2 DEF Anchored, Drawn
  <2>1. graph.links[l][e] \in graph.nodes \cup {Free, NoCell}
    BY <1>1 DEF JInv, Anchored
  <2>2. graph.links[l][e] \in Nodes \cup {Free}
    <3>1. graph.links[l] \in LinkRecords
      BY <1>1, GraphIs DEF Drawn
    <3>. QED BY <3>1 DEF LinkRecords, Ends
  <2>3. graph.links[l][e] \in graph.nodes \cup {Free}
    BY <2>1, <2>2, CellsDiffer, GraphIs, <1>1
  <2>. QED BY <1>2, <2>3
<1>7. Leaving'
  BY <1>1, <1>2 DEF Leaving, Connected
<1>8. Marked'
  <2>1. n \notin DOMAIN graph.links
    BY <1>1, GraphIs, CellsDiffer
  <2>2. \A l \in DOMAIN graph.links : l \in deaf => l \in deaf'
    BY <1>1, <2>1
  <2>. QED BY <1>2, <2>2 DEF JInv, Marked, AbandonedIsFree
<1>9. Owed'
  <2>1. CASE graph' = graph
    BY <1>1, <2>1 DEF JInv, Owed, Page, toldVars
  <2>2. CASE n \notin graph'.nodes
    BY <1>1, <1>4, <2>2 DEF Owed
  <2>. QED BY <1>2, <2>1, <2>2
<1>. QED BY <1>5, <1>6, <1>7, <1>8, <1>9 DEF JInv

LEMMA NodeLeftKeeps ==
  ASSUME JInv, NodeLeft
  PROVE  JInv'
<1>1. /\ graph \in Graphs /\ removing # NoCell /\ leaving = {} /\ removing' = NoCell
      /\ graph' = [graph EXCEPT !.nodes = graph.nodes \ {removing}]
      /\ Modified(Json(graph', view, data)) /\ view \in Views /\ data \in Datas
      /\ deaf' = deaf \ {removing} /\ removing \in Nodes
      /\ UNCHANGED <<hidden, watching, untouched, view, data, pending, loading, leaving, closed, broken, ops>>
  BY DEF NodeLeft, GraphEvent, JInv, JointTypeOK, drawVars
<1>2. graph' \in Graphs /\ graph'.links = graph.links /\ graph'.nodes = graph.nodes \ {removing}
  <2>1. graph.nodes \ {removing} \in SUBSET Nodes
    BY <1>1, GraphIs
  <2>. QED BY <1>1, <2>1, WithNodesIs
<1>3. lastJson' = Json(graph', view, data) /\ silent' = FALSE /\ {lastJson', model'} \subseteq Jsons \cup {NoJson}
  BY <1>1, <1>2, PageIs, Telling DEF JInv
<1>4. JointTypeOK'
  <2>1. deaf' \subseteq graph'.nodes \cup DOMAIN graph'.links
    BY <1>1, <1>2 DEF JInv, JointTypeOK
  <2>2. {pending', closed', silent', broken'} \subseteq BOOLEAN
    BY <1>1, <1>3 DEF JInv, JointTypeOK
  <2>. QED BY <1>1, <1>2, <1>3, <2>1, <2>2 DEF JInv, JointTypeOK
<1>5. Anchored'
  <2>. SUFFICES ASSUME ~broken, NEW l \in Drawn, NEW e \in Ends
                PROVE  graph.links[l][e] \in (graph.nodes \ {removing}) \cup {Free}
    BY <1>1, <1>2 DEF Anchored, Drawn
  <2>1. graph.links[l][e] \in graph.nodes \cup {Free, removing}
    BY DEF JInv, Anchored
  <2>2. graph.links[l][e] # removing
    BY <1>1 DEF JInv, Leaving, Drawn
  <2>. QED BY <2>1, <2>2
<1>6. Leaving' /\ Marked'
  <2>1. removing \notin DOMAIN graph.links
    BY <1>1, GraphIs, CellsDiffer
  <2>2. \A l \in DOMAIN graph.links : l \in deaf => l \in deaf'
    BY <1>1, <2>1
  <2>. QED BY <1>1, <1>2, <2>2 DEF Leaving, JInv, Marked, AbandonedIsFree
<1>7. Owed'
  BY <1>1, <1>3 DEF Owed, Page
<1>. QED BY <1>4, <1>5, <1>6, <1>7 DEF JInv

LEMMA LoadEnds ==
  ASSUME JInv, ParseFails \/ Build
  PROVE  JInv'
<1>1. CASE ParseFails
  <2>1. /\ loading' = NoJson /\ removing' = NoCell /\ leaving' = {} /\ removing = NoCell
        /\ UNCHANGED <<graph, hidden, watching, deaf, untouched, view, data, pending, lastJson, model, silent>>
        /\ UNCHANGED <<closed, broken, ops>>
    BY <1>1 DEF ParseFails, Cleared, Throw, pageVars, cellVars, drawVars, toldVars
  <2>2. leaving = {}
    BY <2>1 DEF JInv, JointTypeOK
  <2>3. Anchored' /\ Leaving' /\ Marked'
    BY <2>1, <2>2, LinksRest
  <2>4. JointTypeOK'
    BY <2>1 DEF JInv, JointTypeOK
  <2>5. Owed'
    BY <2>1 DEF JInv, Owed, Page
  <2>. QED BY <2>3, <2>4, <2>5 DEF JInv
<1>2. CASE Build
  <2>1. loading \in Jsons /\ (\A l \in DOMAIN loading.graph.links : AbandonedIsFree(l, loading.graph))
    BY <1>2, SavedAreJsons DEF Build, Cleared, JInv, JointTypeOK
  <2>2. loading.graph \in Graphs /\ loading.view \in Views /\ loading.data \in Datas
    BY <2>1 DEF Jsons
  <2>3. /\ graph' = Repair(loading.graph) /\ hidden' = {} /\ watching' = {} /\ deaf' = {}
        /\ untouched' \subseteq DOMAIN graph'.links
        /\ data' = loading.data /\ view' = loading.view /\ pending' = TRUE
        /\ lastJson' = Json(graph', view, data') /\ model' = Json(graph', view', data')
        /\ silent' = FALSE /\ broken' = FALSE /\ loading' = NoJson
        /\ removing = NoCell /\ UNCHANGED <<removing, leaving, closed, ops>>
    BY <1>2 DEF Build, Cleared
  <2>4. /\ graph' \in Graphs
        /\ \A l \in DOMAIN graph'.links : \A e \in Ends : graph'.links[l][e] \in graph'.nodes \cup {Free}
        /\ \A l \in DOMAIN graph'.links : AbandonedIsFree(l, graph')
    BY <2>1, <2>2, <2>3, RepairIs
  <2>5. {lastJson', model'} \subseteq Jsons
    <3>1. view \in Views
      BY DEF JInv, JointTypeOK
    <3>. QED BY <2>2, <2>3, <2>4, <3>1, PageIs
  <2>6. JointTypeOK'
    <3>1. leaving' = {} /\ removing' = NoCell
      BY <2>3 DEF JInv, JointTypeOK
    <3>2. {pending', closed', silent', broken'} \subseteq BOOLEAN
      BY <2>3 DEF JInv, JointTypeOK
    <3>. QED BY <2>2, <2>3, <2>4, <2>5, <3>1, <3>2 DEF JInv, JointTypeOK
  <2>7. Anchored'
    BY <2>3, <2>4 DEF Anchored, Drawn
  <2>8. Marked'
    BY <2>4 DEF Marked, AbandonedIsFree
  <2>9. Leaving' /\ Owed'
    BY <2>3 DEF Leaving, Owed
  <2>. QED BY <2>6, <2>7, <2>8, <2>9 DEF JInv
<1>. QED BY <1>1, <1>2

LEMMA StepKeepsJInv == JInv /\ [Next]_jvars => JInv'
<1>. SUFFICES ASSUME JInv, [Next]_jvars PROVE JInv'
  OBVIOUS
<1>1. ASSUME NEW l \in Links, RemoveLink(l) \/ LeaveLink(l) \/ TakeOutLink(l) PROVE JInv'
  <2>1. Detach(l) /\ l \in DOMAIN graph.links
    BY <1>1 DEF RemoveLink, LeaveLink, TakeOutLink, JInv, JointTypeOK
  <2>2. ops' \in 0 .. MaxOps
    BY <1>1, OpsBound DEF RemoveLink, LeaveLink, TakeOutLink, Operation, JInv, JointTypeOK
  <2>. QED BY <2>1, <2>2, DetachKeeps
<1>2. ASSUME NEW n \in Nodes, CreateNode(n) \/ RemoveNode(n) \/ TakeOutNode(n) PROVE JInv'
  BY <1>2, CreateNodeKeeps, RemoveNodeKeeps
<1>3. ASSUME NEW l \in Links, \E s, t \in Nodes \cup {Free} : CreateLink(l, s, t) PROVE JInv'
  BY <1>3, CreateLinkKeeps
<1>4. ASSUME NEW l \in Links, NEW e \in Ends, PullOff(l, e) \/ \E n \in Nodes : DropOn(l, e, n) PROVE JInv'
  BY <1>4, DragKeeps
<1>5. CASE \/ Mark \/ Save \/ Debounced \/ Unload
           \/ (\E v \in Views : SetView(v)) \/ (\E d \in Datas : SetData(d))
           \/ \E j \in Saved : Load(j)
           \/ UNCHANGED jvars
  BY <1>5, QuietOperations
<1>6. CASE NodeLeft
  BY <1>6, NodeLeftKeeps
<1>7. CASE ParseFails \/ Build
  BY <1>7, LoadEnds
<1>8. ASSUME NEW k \in Looks, ChangeTitle(k) \/ \E c \in Nodes \cup Links : ChangeLook(c, k) PROVE JInv'
  BY <1>8, LookKeeps
<1>9. ASSUME NEW c \in Nodes \cup Links, Straighten(c) PROVE JInv'
  BY <1>9, StraightenKeeps
<1>. QED BY <1>1, <1>2, <1>3, <1>4, <1>5, <1>6, <1>7, <1>8, <1>9 DEF Next, Continue

\* JInv holds in every state of the page and its copy.
THEOREM GraphInvariant == Spec => []JInv
BY InitJInv, StepKeepsJInv, PTL DEF Spec

\* The page, what Java knows of it and the call in progress have their types.
THEOREM GraphTypes == Spec => []JointTypeOK
<1>1. JInv => JointTypeOK
  BY DEF JInv
<1>. QED BY <1>1, GraphInvariant, PTL

\* Between calls every drawn link is whole, whatever was created, dragged,
\* removed and loaded, unless an exception has cut a clear() or its drag short.
THEOREM LinksStayWhole == Spec => []LinksAreWhole
<1>1. JInv => LinksAreWhole
  <2>. SUFFICES ASSUME JInv, removing = NoCell, NEW l \in Drawn
                PROVE  (broken \/ EndsMeet(graph, l)) /\ (l \in deaf \/ AbandonedIsFree(l, graph))
    BY DEF LinksAreWhole, InPage
  <2>1. graph \in Graphs /\ graph.links[l] \in LinkRecords
    BY GraphIs DEF JInv, JointTypeOK, Drawn
  <2>2. \A e \in Ends : graph.links[l][e] \in Nodes \cup {Free}
    BY <2>1 DEF LinkRecords, Ends
  <2>3. \A e \in Ends : broken \/ graph.links[l][e] \in graph.nodes \cup {Free, NoCell}
    BY DEF JInv, Anchored
  <2>4. broken \/ EndsMeet(graph, l)
    BY <2>2, <2>3, CellsDiffer DEF EndsMeet
  <2>. QED BY <2>4 DEF JInv, Marked, Drawn
<1>. QED BY <1>1, GraphInvariant, PTL

\* Between calls Java's copy is the page, or an announcement is on its way, or the
\* page has come back to what was told last, or has changed in one of the ways the
\* code announces nothing of: data, half-drawn links, what listeners throw after
\* (adjustVertices, the view of a half-drawn link), cells that are deaf since.
THEOREM LagIsExplained == Spec => []ModelLagIsOwed
<1>1. JInv => ModelLagIsOwed
  BY DEF JInv, Owed, ModelLagIsOwed, InPage
<1>. QED BY <1>1, GraphInvariant, PTL
=============================================================================
