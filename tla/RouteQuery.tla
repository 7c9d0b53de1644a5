----------------------------- MODULE RouteQuery -----------------------------
(***************************************************************************)
(* Router::BuildRoute of src/TransportSystem/router.h, on the table that   *)
(* RouteTable builds.  The route is walked backwards from its end: the     *)
(* last edge of the route to a vertex, then the last edge of the route to  *)
(* where that edge starts, until a route without edges.  One step is one   *)
(* iteration of the loop.                                                  *)
(***************************************************************************)
EXTENDS RouteTable

VARIABLES
  state,    \* "idle", "walking", or "answered": what BuildRoute is doing
  from, to, \* its parameters
  edge_id,  \* its loop variable
  edges,    \* the edges collected so far, the last edge of the route first
  walked    \* history variable: the total weight of those edges

query == <<state, from, to, edge_id, edges, walked>>
queryVars == <<vars, query>>

RouteWeight == routes[from][to].weight

QueryInit ==
  /\ Init
  /\ state = "idle"
  /\ from = 0 /\ to = 0
  /\ edge_id = NoEdge
  /\ edges = << >>
  /\ walked = 0

(* The construction of the table; there is no Router to ask before.        *)
Construct == Next /\ UNCHANGED query

(* BuildRoute is entered.  With no route it answers nullopt: state stays   *)
(* "answered" with nothing collected.                                      *)
Ask(f, t) ==
  /\ Built
  /\ state # "walking"
  /\ from' = f /\ to' = t
  /\ edges' = << >>
  /\ walked' = 0
  /\ IF routes[f][t] = NoRoute
       THEN state' = "answered" /\ edge_id' = NoEdge
       ELSE state' = "walking" /\ edge_id' = routes[f][t].prev_edge
  /\ UNCHANGED vars

(* routes_internal_data_[from][edge.from]->prev_edge.  The optional is not *)
(* checked: if it were empty its contents could be anything.               *)
PreviousEdge(f, v) ==
  IF routes[f][v] = NoRoute THEN EdgeIds(graph) \cup {NoEdge}
                            ELSE {routes[f][v].prev_edge}

Follow ==
  /\ state = "walking"
  /\ edge_id # NoEdge
  /\ edges' = Append(edges, edge_id)
  /\ walked' = walked + graph.edges[edge_id].weight
  /\ edge_id' \in PreviousEdge(from, graph.edges[edge_id].from)
  /\ UNCHANGED <<vars, state, from, to>>

(* Mutant of Answer: the edges are not reversed.                           *)
AnswerBackwards ==
  /\ state = "walking"
  /\ edge_id = NoEdge
  /\ state' = "answered"
  /\ UNCHANGED <<vars, from, to, edge_id, edges, walked>>

(* The edges are put in order and returned with the weight of the route.   *)
Answer ==
  /\ state = "walking"
  /\ edge_id = NoEdge
  /\ edges' = [i \in DOMAIN edges |-> edges[Len(edges) + 1 - i]]
  /\ state' = "answered"
  /\ UNCHANGED <<vars, from, to, edge_id, walked>>

QueryNext ==
  \/ Construct
  \/ \E f, t \in Vertex : Ask(f, t)
  \/ Follow
  \/ Answer

(* BuildRoute runs by itself once it is called; nobody need call it.       *)
QuerySpec ==
  /\ QueryInit /\ [][QueryNext]_queryVars
  /\ WF_queryVars(Construct) /\ WF_queryVars(Follow \/ Answer)

-----------------------------------------------------------------------------
QueryTypeOK ==
  /\ TypeOK
  /\ state \in {"idle", "walking", "answered"}
  /\ from \in Nat /\ to \in Nat
  /\ edge_id \in EdgeIds(graph) \cup {NoEdge}
  /\ edges \in Seq(EdgeIds(graph))
  /\ walked \in Nat
  /\ state = "walking" => from \in Vertex /\ to \in Vertex

(* Where the walk has arrived: the vertex whose route's last edge comes    *)
(* next.                                                                   *)
Here == IF edges = << >> THEN to ELSE graph.edges[edges[Len(edges)]].from

(* The loop only dereferences routes that exist.                           *)
DereferencesARoute ==
  (state = "walking" /\ edge_id # NoEdge) =>
     routes[from][graph.edges[edge_id].from] # NoRoute

(* The edges collected lead from where the walk is to the end asked for,   *)
(* one into the other.                                                     *)
Connected ==
  state = "walking" =>
    /\ edges # << >> => graph.edges[edges[1]].to = to
    /\ \A i \in 1 .. Len(edges) - 1 :
          graph.edges[edges[i]].from = graph.edges[edges[i+1]].to
    /\ edge_id # NoEdge => graph.edges[edge_id].to = Here
    /\ edge_id = NoEdge => Here = from

(* At every moment the edges collected and the route to where the walk is  *)
(* add up to the weight that will be answered.                             *)
WeightsAddUp ==
  state = "walking" =>
    /\ routes[from][Here] # NoRoute
    /\ RouteWeight = routes[from][Here].weight + walked

(* An answer is a path from the one vertex to the other whose weights add  *)
(* up to the weight answered with it, and it is empty only for a route     *)
(* from a vertex to itself.  TransportRouter::GetRouteInfo turns each edge *)
(* into an item and prints the weight as the total time.                   *)
AnswerIsThePath ==
  (state = "answered" /\ routes[from][to] # NoRoute) =>
    /\ edges = << >> <=> from = to
    /\ edges # << >> => /\ graph.edges[edges[1]].from = from
                        /\ graph.edges[edges[Len(edges)]].to = to
    /\ \A i \in 1 .. Len(edges) - 1 :
          graph.edges[edges[i]].to = graph.edges[edges[i+1]].from
    /\ RouteWeight = walked

(* While BuildRoute walks, the table is built and edge_id is the last edge *)
(* of the route to where the walk is.                                      *)
OnTheRoute ==
  state = "walking" =>
    /\ Built
    /\ Here \in Vertex
    /\ edge_id = routes[from][Here].prev_edge
    /\ edges # << >> => from # to

(* An answer, once given, concerns a table that no longer changes.         *)
AnsweredOnBuilt == state = "answered" => Built /\ from \in Vertex /\ to \in Vertex

(* All of the above with the invariant of the table, which is inductive.   *)
QueryInv ==
  /\ IInv
  /\ QueryTypeOK
  /\ OnTheRoute
  /\ AnsweredOnBuilt
  /\ DereferencesARoute
  /\ Connected
  /\ WeightsAddUp
  /\ AnswerIsThePath

(* No vertex is visited twice, not even around a cycle of weight zero (two *)
(* stops no distance apart, or a waiting time of 0).                       *)
NoVertexTwice ==
  \A i, j \in DOMAIN edges :
     i # j => graph.edges[edges[i]].to # graph.edges[edges[j]].to

(* The loop ends.                                                          *)
EveryQueryAnswered == (state = "walking") ~> (state = "answered")
=============================================================================
