# TransportSystem in TLA+

A specification of the program in `src/TransportSystem`: a catalogue of stops
and buses, a router over it, a map, and JSON in and out. Modules model the
program's components, TLC checks them on small instances, and TLAPS proves
theorems about the catalogue, the router (its table, the loops that fill it,
`BuildRoute`), the graph of stops and the answers that rest on it, the JSON
builder, `make_base` and the two processes for all values of the constants.

## 1. The system

`main.cpp` runs in one of two modes, as two different processes:

- `make_base` reads a JSON document, fills a `TransportCatalogue`, constructs
  a `TransportRouter` from it, and writes settings, catalogue and router to
  the base file, a protobuf message `Common` (`map_settings`, `catalogue`,
  `router`, in that order).
- `process_requests` reads the base file, restores the three, answers the
  requests of another JSON document and prints one JSON array.

They share nothing but the base file, which neither locks. Each is
single-threaded and calls straight down; nothing is caught before `main` ends.

| Component | State | Operations | Talks to |
|---|---|---|---|
| Transport catalogue (`transport_catalogue.*`) | deques of stops and buses, indexes by name, buses per stop, lengths per pair of stops; pointers into the deques everywhere | `AddStop`, `AddBus`, `AddLenghtBetweenStops`, `GetInfoBus`, `GetInfoStop`, `GetLenghtBetweenStops`, `SaveToProto`, `DeserializeTransportCatalogue` | filled by the reader, read by router and renderer |
| Reader (`json_reader.cpp`) | the document, its place in it | `JSON_BaseRequest`, `JSON_StatRequest`, settings readers | calls all others |
| Weighted graph (`graph.h`) | edges, incidence lists | `AddEdge`, `GetIncidentEdges` | filled by the transport router |
| Router (`router.h`) | table of routes per pair of vertices | constructor (initialisation, one relaxation pass per vertex), `BuildRoute` | reads the graph |
| Transport router (`transport_router.*`) | graph of stops, what each edge stands for, the router | constructor, `GetRouteInfo`, save, load | reads the catalogue |
| JSON (`json.*`, `json_builder.*`) | stack of open containers | `Load`, `Print`, `Builder`'s calls | used by the reader |
| Map (`request_handler.cpp`, `map_renderer.*`, `svg.*`) | settings; list of SVG objects | `RenderMap`, settings save and load | reads the catalogue |
| Base file (`serialization.cpp`, `*.proto`) | message `Common` | `Serialization`, `Deserialization` | between the processes |
| Geography (`geo.*`) | none | `ComputeDistance` | curvature only |

What is hard, and what makes each part correct (`PROJECT.json` lists the
hazards at their lines):

- **Catalogue.** A stop first named by a bus or a distance is created at
  (0, 0) and completed later, while pointers to it are out already. A bus
  name may be added twice. Correct: indexes are exact, elements never move,
  the result does not depend on the order of the document.
- **Saving and loading.** Pointers become places; the lengths are saved in
  the order of a hash map; an absent optional becomes a default. Correct:
  what is loaded is what was saved.
- **Text.** Two tokenisers and two printers (JSON, SVG) escape and unescape
  by hand. Correct: what is printed reads back as what was meant.
- **Router.** The relaxation updates the table it reads, through references
  into it. `BuildRoute` dereferences optionals unchecked and follows
  `prev_edge` for as long as there is one. Correct: shortest routes, no
  dereference of nothing, no endless walk around a cycle of weight zero.
- **Transport router.** Times accumulate over consecutive stops, both ways,
  over stops that repeat. Correct: an edge for each wait and each ride, and
  the answer is the fastest journey that can really be travelled.
- **Builder.** Arbitrary sequences of calls, some of which throw. Correct: it
  builds what was spelled, and a call that throws changes nothing.
- **The two processes.** The file is truncated before a document is read;
  either process may die at any point or run beside the other. Correct:
  whatever is printed answers every request from one base.

## 2. Modules

| Module | Models | Correspondence |
|---|---|---|
| `Maps` | standard containers | `insert` keeps an entry, `operator[]` replaces it |
| `Catalogue` | the filling of the catalogue | variables are the members under their names, pointers are places in the deques; `AddBus` is `BeginAddBus`, `AddBusStop` per stop, `EndAddBus`, so every state between two iterations is checked |
| `Reload` | save and replay | extends `Catalogue`: the replay calls its operations; lengths come in any order |
| `BaseLoader` | `JSON_BaseRequest` | extends `Catalogue`; one step per request, stop or road, each throw a step |
| `WeightedGraph` | `graph.h` | operators on a record |
| `RouteTable` | **what `Router`'s constructor promises**, a whole pass at a time | table `routes`, `phase`, next vertex `through` |
| `Router` | the constructor as written: cell by cell, into the table it reads | `ImplementsRouteTable`: refines `RouteTable`; `IInv` is the invariant of its loops |
| `RouteQuery` | `BuildRoute`, one edge at a time | extends `RouteTable` |
| `TransportRouter` | the constructor: vertices, edges, nested loops over each bus | one step per edge added; the loop variables are variables |
| `Statistics` | `GetInfoBus`, `GetInfoStop`, with the curvature | extends `TransportRouter`, so the catalogue's reading of the lengths meets the router's; a ratio is a number, infinite or not a number, over `Distances` given |
| `Journey` | router built, saved, loaded in another process, asked | extends `TransportRouter`, instantiates `RouteTable` |
| `Settings` | the settings of map and router from the document over the file to their use | integers in the width of their types |
| `Svg` | `svg.*`: tags, attributes that are set, the character data of `Text` with the replacing of `SetData` | operators; used by `MapRender` to print each object |
| `MapRender` | `RenderMap` and the projection, from the settings as they arrive to the text of the map | extends `Settings` and `Svg`; one step per object; coordinates as exact fractions |
| `Builder`, `BuilderReference` | `json::Builder`; a grammar of what accepted calls spell | every call in every state |
| `JsonText` | `Load` and `Print`, `Load` again; numbers as `int` or `double` | the recursion of `LoadNode` is a stack |
| `JsonStrings` | the strings of `JsonText`, character by character: `LoadString`, `PrintString` and the escapes of both directions | the loop of `LoadString` is a recursive function over the characters |
| `Program` | both processes and the base file | writes in parts, kills, restarts, a reader that takes the file field by field beside a writer |

`MC*` modules give the instances: the small graphs (`MCGraphs`, as a formula), catalogues,
documents and queries TLC starts from. `*Proofs` hold the theorems. A
definition preceded by "Mutant of" is a plausible bug: `PROJECT.json` names
for each property one that makes TLC find the property violated in its run.
The mutants are not part of any specification.

Which modules compose:

    Catalogue <- Reload, BaseLoader          (the same operations, called)
    WeightedGraph <- RouteTable <- RouteQuery
                     RouteTable <= Router     (refinement)
    WeightedGraph <- TransportRouter <- Statistics
                     TransportRouter <- Journey -> RouteTable
    Settings, Svg <- MapRender
    Program: the processes around them, each reduced to what answers tell apart

### What is abstracted

- A stop in `TransportRouter`, `Statistics`, `Journey` is its place in
  `all_stops_`; the theorem `StopsFoundByName` says a name has one place.
- Time is counted in what a bus takes for one metre, so the time of a road is
  its length. This supposes a velocity other than 0 and arithmetic that does
  not round. `Weight` is `double` in the code and an integer here.
- Names are numbers where the code sorts them. Coordinates are model values,
  or integers for the map, where the tolerance of `IsZero` is the constant
  `EPSILON`. `EverythingOnCanvas` makes its one exception there: an extent
  below the tolerance but not zero is not looked at when the zoom is chosen,
  so the property asks that the other extent is as small.
- One `make_base` writes at a time in `Program`. A reader that meets a file cut
  while it reads may find what is written now, the end, or bytes that do not
  parse.
- In `JsonText` white space is skipped, so are the literals' letters; the token
  `bad` is what `LoadNumber`, `LoadBool` and `LoadNull` refuse. Numbers
  count halves, which tells an `int` from a `double`; infinities and not a
  number, which print as something no JSON parser takes, are left out.
- In `Svg` the spelling of numbers and colours inside an attribute is left out.
- Undefined behaviour is an outcome of its own, `"undefined"`, or a choice of
  any value (an empty optional in `RouteQuery`; in `Program` the process may
  die or go on).
- The moved-from vector that `DeserializeTransportRouter` (transport_router.cpp)
  goes on to fill is empty, as it is in the standard libraries.

## 3. Runs

All runs pass but `map_text`, which expects the violation it is there to
show. Bounds are in the `MC` modules and the `.cfg` files.

| Run | Shows | Bounds, and why they are enough |
|---|---|---|
| `catalogue` | Whatever operations come in whatever order, in both processes: indexes exact (`StopIndexExact`, `BusIndexNewest`, `BusesInStopExact`), and `LoadedIsSaved`, `NoStopInvented` | 2 stops, 2 bus names, 2 buses, routes with repeats and none, 2 lengths: two buses of one name and a stop created after another refers to it both happen |
| `loader` | `CatalogueIsWhatWasSaid`: the catalogue is what the document says as a whole, independent of the order; `StopsStayPut`; `AllOrEmpty`: the file is complete or empty | documents of up to 3 requests from 24, so bus before and after stop, a stop described twice, roads given twice and to unknown stops; each thing that can be wrong |
| `route_table` | `IInv`, the invariant that is proved; `ShortestWhenBuilt` against all walks; routes only improve | 4 vertices: up to 3 edges between three of them with loops, parallel edges and weights 0, 1, 3 or (2 edges) -1; up to 4 edges anywhere with weights 0, 1, enough for a join of two routes of two edges |
| `router` | `IInv`, the invariant of the loops that is proved; `ImplementsRouteTable`; `HalvesStay`: no write of a pass changes a half that the pass still reads | 4 vertices, 3 edges of any kind, 2 with a negative one, 4 of weight 1 |
| `route_query` | `QueryInv`, `AnswerIsThePath`, `NoVertexTwice`, `EveryQueryAnswered` | 4 vertices, cycles of weight 0 of up to 4 edges, every pair asked, one query after another |
| `transport_router` | each edge is a wait or a ride the catalogue has, and no ride is missing; throws exactly for a gap; `InfoAgreesWithRides`: what a `Bus` request is told is what the rides add up to, and the curvature relates the same two lengths | 3 stops, at one spot or apart (a distance of zero, of a little, and not a number), up to 2 buses of one name or two, routes that return, stand still, have one stop or none; 8 sets of given lengths; an `int` of 4 bits, so that sums overflow |
| `journey` | `JourneyCanBeTravelled`, `JourneyIsFastest`, `RouterSurvives` | 3 stops, up to 3 buses, journeys with and without change compete; lengths 0, 1, 4; stops that are unknown |
| `builder` | `StackIsAChain`, `BuiltIsWhatWasCalled`, `NothingDropped`, `ThrowChangesNothing` | up to 9 accepted calls, any number that throw; 2 keys: nesting of four levels, a key twice |
| `program` | `AnswersFromOneBase`: what is printed answers every request, from a base that a `make_base` wrote to its end, or else from a file that had nothing; `UndefinedOnlyWithoutBase` | 3 processes started, 5 documents (two fail), queries of one request from 8 or of two where the second is about the catalogue or the settings; the reader takes a field at a time while a `make_base` truncates and writes: two bases and a reader between, across or beside them |
| `map` | `SettingsSurvive`: the settings used are those of the document, its integers, in or out of range, cast to their type once; `MapShowsNetwork`: every bus and every served stop once, layers in order, a bus's line and names in one colour, in the tags and attributes printed; `NamesAreShown`: a viewer reads the names of the catalogue; `EverythingOnCanvas` | colours of every kind, integers on both sides of their widths, arrays too short; names of up to 3 characters, among them those that mean something to XML; 2 buses over 3 stops with all kinds of way, 3 buses of which some are empty; stops in a triangle, a row either way, nearly a row, one spot; palettes of 0, 1, 2 |
| `map_text` | expects a violation: `TextShownIsTextSet`, that the name a viewer of the map shows is the name of the stop, fails for a name that begins with `&` or `<` (section 5) | names of up to 3 characters, among them those that mean something to XML |
| `json_text` | `TextMeansValue`: an accepted text spells its value; `PrintedReadsBack`: the printed value reads back as itself | texts of up to 8 tokens over two strings and an `int`, of 5 with one rare token among the first two: strings of up to 3 special characters, literals, numbers on both sides of `IntMax` (120), doubles printed with 2 digits |

Bounds in guards: `MaxBuses`, `MaxLengths` (`Catalogue`), `MaxCalls`
(`Builder`), `MaxRuns` (`Program`), `MaxTokens` and `MaxRare` (`JsonText`).
They bound how much is done, never what. Most configurations switch deadlock
checking off, because the constructor, process or call sequence they model
does end.

`TypeOK` and its like are parts of the invariants proved. `IInv` (of
`RouteTable` and of `Router`) and `QueryInv` are inductive; the runs check
them before the proofs.

### Fairness

Only `EveryQueryAnswered` needs it: weak fairness of the constructor's steps
and of `BuildRoute`'s (`Follow \/ Answer`). Both are loops in one thread that
wait for nothing, so a step that is enabled is taken. That a query is asked
is not assumed. The property is what `NoVertexTwice` makes true: without it
(`Better` with `<=`) a walk can circle among stops no distance apart. Such a
walk would collect edges for ever, in no two states alike, and TLC would not
see the circle; so `MCRouteQuery` takes `MCFollow` for `Follow`, which stops
collecting once there are more edges than vertices. The code as it is never
gets there (`NoVertexTwice`, in the same run and by proof), so the steps of
the run are those of `QuerySpec`.

## 4. Proofs

TLAPS checks every step of the eight proof modules; nothing is assumed but
the named `ASSUME`s.

**`CatalogueProofs`** from `CatalogueAssumption` (the origin is a coordinate,
stop lists are sequences of names, lengths are naturals, `NoCall` is no call)
and `BaseLoaderAssumption` (a request without a flaw has the fields of its
kind), in three parts.

*The catalogue.* `StopIndexExact` and `BusIndexNewest` are not inductive while
a bus is being added; `IInv` adds that the running call is for the bus added
last. `IndInv` adds `BusesInStopExact`, whose step needs that the stops a
running call has passed are exactly those already listed, and `CatalogueInv`
that the buses of a stop are listed in the order they were added. One lemma
per operation; the creation of a stop, which all three share, is a lemma on
its own (`AddStopEffectKeeps`).
- `CatalogueTypeOK`, `StopsFoundByName`, `NewestBusFoundByName`,
  `ReverseIndexExact`: the invariants of these parts, always.
- `StopsNeverMove`: no step moves or renames a stop or changes known
  coordinates (`StopsStayPut`).

*From a document.* `LoaderInv` ties the state of the file to the place in the
code, and says what the first and the second pass over the document have done
and which roads are still to come. `ReadInv` says, at each place of each pass,
what of the document the catalogue already holds: the buses up to the request
reached, the running call with the stops left to it, the roads left of the
stop reached, the stops named so far, for each the first place given for it,
for each pair the first length. Its step has a lemma per step of the reader
and per thing said.
- `BaseIsAllOrEmpty`: `AllOrEmpty`, always.
- `BaseIsWhatWasSaid`: `CatalogueIsWhatWasSaid`, always.

*Saved and loaded again.* What is saved keeps `CatalogueInv`. `ReloadInv` says
that each phase of the replay has rebuilt its part to the place it has
reached: stops under their old places, buses with the stops the saved places
lead to and each stop's list up to that bus, lengths up to those pending. The
order of the list of buses is why `CatalogueInv` has `ListedInOrder`.
- `LoadingRestores`: `LoadedIsSaved`, always.
- `LoadingInventsNoStop`: `NoStopInvented`, always.

**`RouteQueryProofs`** from `RouteTableAssumption` (`VertexCount` is a
natural, `NoRoute` and `NoEdge` are neither routes nor edges nor weights), in two parts.

*The table.* `IInv` says of the table after the passes through vertices below `through`: the empty route
from a vertex to itself stays (`DiagonalFree`), no single edge beats a route
(`NoEdgeBeats`), the last edge of a route follows a route that is no longer
than the rest (`LastEdgeSound`), and joins through the vertices passed give
nothing better (`ClosedThrough`).
- `TableInvariant`: `IInv`, always.
- `RoutesOnlyImprove`: `OnlyImproves`.
- `NoCheaperWalk`: when the table is built, no walk, of any length, is
  cheaper than the route held. The lemma `BuiltIsShortest` adds an edge at a
  time: `ClosedThrough` for all vertices is the triangle inequality.
- `TableIsShortest`: `ShortestWhenBuilt`, which compares with `Shortest`, the
  least weight of the walks of at most `VertexCount` edges. That no walk beats
  the table is the theorem above; that so short a walk is as light as the
  route needs that last edges do not go in circles where weights are zero.
  `Ranked` says that the routes have ranks that fall along last edges; routes
  from one vertex to different ones are then distinct as one goes back, and
  there are only `VertexCount` of them.

*The walk.* `QueryInv` adds to `IInv` that the edges collected are connected, that their weight and the weight of
the route left to walk add up to the weight asked for, and that the route
left exists.
- `WalkSafe`: `QueryInv`, always; so no empty optional is dereferenced.
- `AnswersArePaths`: `AnswerIsThePath`.
- `AnswersAreCheapest`: no walk between the two vertices is cheaper than the
  answer, at any point of a query.
- `NoVertexVisitedTwice`: `NoVertexTwice`, the fact that keeps `BuildRoute`
  from walking in a circle. Weights need not go down along the walk, since
  edges may weigh nothing, so the proof ranks routes: of two routes of equal
  weight a pass puts those it improves above all others, in the order of
  their second halves, and the walk descends in rank. The rank is a variable
  of the proof only, hidden behind an existential.

**`RouterProofs`** from `RouteTableAssumption`. `IInv` of the loops is the
type invariant, `InitializedSoFar` (which cells the initialisation has
written, and with the best of which edges) and `RelaxedSoFar` (a cell the pass
has left is what relaxing it in the table of now makes of it, although cells it
was made of may have been written since). Its step needs that a pass never
writes a half it still reads, which holds because standing still is the route
from every vertex to itself and nothing beats it.
- `LoopInvariant`: `IInv`, always.
- `HalvesNeverChange`: `HalvesStay`.
- `RouterImplementsRouteTable`: `ImplementsRouteTable`; the step that ends a
  pass maps to `RelaxThrough`, the other steps stutter. What is proved of
  `RouteTable` thus holds of the loops as written.

**`TransportRouterProofs`** from `TransportRouterAssumption`. `RInv` joins
the types, the numbers of the vertices (the stop at place s has 2s-2 and
2s-1), `EdgesExplained` and `LoopsInOrder`: the first inner loop of a bus
crosses every stretch of it before any other loop begins. A stretch is known
either way or not at all, so what the first loop crossed no later one throws at.
- `GraphTypeOK`: `TypeOK`, always; `AddEdgeKeeps` shows that `AddEdge` keeps
  edges and incidence lists in step.
- `EveryEdgeExplained`: `EdgesExplained`, always.
- `ThrowsExactlyForAGap`: `ThrowsForAGap`, always.

`RidesInv` adds what the loops have made: the sums they carry are those of the
stretch they have crossed, and the edges are the rides of the loops before this
one, each once, counted by the formula for the rides of a bus. A recursive
function gives a length, so facts about it come by the least number at which
they would fail (`LeastNat`), not by induction over an operator.
- `RidesTakeTheirTime`: `RidesAreReal`, always.
- `EveryRideOnce`: `RidesComplete`, always.

**`JourneyProofs`** from `JourneyAssumption`, with `RouteQueryProofs` as an
instance for the graph of stops and everything of `TransportRouterProofs`.
A path in that graph changes sides with every edge (`EdgesAlternate`): behind
the wait at a stop only rides leave, before it only the wait does. So a path
from wait to wait is a journey ride by ride, and the best time of at most so
many rides, which the property computes stop by stop, is the weight of the
lightest path of twice as many edges. `JourneyInv` says stage by stage
(created, saved, loaded, asked) that the finished table is that of the finished
graph, and that the file and what is loaded are it. `BuildRoute` is a recursive
function over weights and ranks: its domain, the routes reached from one pair,
is shown to hold what the recursion asks for.
- `JourneysCanBeTravelled`: `JourneyCanBeTravelled`, always.
- `JourneysAreFastest`: `JourneyIsFastest`, always.
- `LoadedRouterIsSaved`: `RouterSurvives`.

Its second part is about `Statistics`, from `StatisticsAssumption` and
`RidesInv`. `SummationLenght` and the router read the lengths with code of
their own; `ReadAlike` says where the two readings can differ, which is at a
stop that follows itself. `TripFacts` lays the trip that is summed out as the
way there and the way back, `TripTime` adds the two `RoadTime`s up along it
(`SumGoesOn`: a sum goes on from any place by what the next numbers add up to),
`LineOfTrip` does so for the distances, which are the same both ways
(`SumMirrored`), and `BusesAtRide` says which buses a stop has. An answer stays
true because the finished graph no longer changes (`AnswersInv`).
- `AnswersAgreeWithRides`: `InfoAgreesWithRides`, always.

**`BuilderProofs`** from `BuilderAssumption`. `Sound` says that the stack holds
open arrays, dictionaries and keys only, a key exactly where a dictionary is
below it, and that nothing is open once the root has a value. Every function
of the builder has a lemma that it keeps this, or throws and changes nothing.
- `BuilderStackIsAChain`: `StackIsAChain`, always.
- `BuilderThrowsCleanly`: `ThrowChangesNothing`.

What the accepted calls spell is read by the grammar of `BuilderReference`, a
recursive function over the places of the text. The value at a place depends
on the text behind it only, so it stays as calls are added at the end once the
value is complete (`ReadingIsRead`, `GoesOn`); containers that are still open
are not. `Held` therefore speaks of every text that goes on from the calls made:
reading it at the place where a container was opened is reading on at its end,
with what the container holds by now. `BuiltInv` joins this for each container
on the stack (`Made`), `Sound`, and that the calls that open and that close
differ by what is on the stack (`Balanced`). A value given, a start, a key and
an end have a lemma each.
- `BuilderBuildsWhatWasCalled`: `BuiltIsWhatWasCalled`, always.
- `BuilderDropsNothing`: `NothingDropped`, always.

**`ProgramProofs`** from `ProgramAssumption`. `PInv` says that the fields in
the file come from one base, that a reader has read a prefix of what one base
has, and what it has answered so far, by counting.
- `PrintedFromOneBase`: `AnswersFromOneBase`, always.
- `WholeBaseIsSafe`: `UndefinedOnlyWithoutBase`, always.

**`MapProofs`** from `SettingsAssumption` (what a document may hold: numbers,
sequences of numbers, colours) and `MapRenderAssumption` (catalogues have
finitely many buses and stops that lie at pairs of integers, and `EPSILON` is
above 0; names are sequences of characters), in four parts.

*Settings.* `SettingsInv` says that the settings are the function
`MapSettings` of the document in either process, and their messages in
between. `ColorSurvives` is the lemma behind it: `SetSvgColor` undoes
`SetProtoColor`, though the two count the kinds of a colour from different
numbers, and casting a byte, or two, again changes nothing.
- `SettingsAreLoaded`: `SettingsSurvive`, always.

*Projection.* `StopsOnCanvas` puts every projected stop on the canvas. A place
is within the extents of the network, and the zoom is the tighter one of two
(`TighterFits`), or the only one, or none; `Clear`, the second condition of
`EverythingOnCanvas`, is needed where one extent counts as zero and the other
does not.
- `MapStaysOnCanvas`: `EverythingOnCanvas`, always.

*The objects.* `MapInv` says that when the l-th loop of `RenderMap` has gone
through k names the objects are a `Picture` up to layer l (points where stops
are, colours from the palette, layers that never go down, each title over its
background) and that of each kind each name has as many objects as it must, if
the loop of its kind has passed it, and none otherwise (`Done`). Each of the
functions `Render...` draws one piece of one layer (`Draws`), and pictures and
counts add up when pieces join (`PicturesJoin`, `CountJoins`). The two loops
over the buses find the same colour because both count from 0.
- `MapIsTheNetwork`: `MapShowsNetwork`, always.

*The names.* `SetData` takes one character after the other and replaces it
wherever it stands from the second place on (`ReplacedAll`, a recursive
function over the characters, as is the flattening of the pieces). So a later
pass goes over entities an earlier one has put in. `OneSymbolMore` shows that
it leaves them alone, as the characters an entity is made of are none of those
replaced but `&`, which comes first: the text after some passes is the name
with the entities of the characters so far. A viewer who reads it gets the name
back, unless the name begins with a character the search does not look at.
Induction over the length of a text goes by the least length that fails.
- `NamesAreRead`: `NamesAreShown`, always.

The same induction over a text proves of `JsonStrings`, for every string, what
`PrintedReadsBack` checks of short ones: `Spells` says that the characters
printed so far are read as the string so far, that no quote among them ends it
early, and that no backslash is left open; `PrintedCharacter` is its step.
- `StringsReadBack`: `LoadString` takes back what `PrintString` writes.

**Model-checked only.** Liveness (`EveryQueryAnswered`) is out of the prover's
reach, and so is `JsonText` (`TextMeansValue`, `PrintedReadsBack`), whose
printer and reference are recursive operators; of its strings `StringsReadBack`
is proved.

## 5. What the models say about the code

One finding:

- `svg::Text::SetData` is to replace the characters XML does not allow in a
  text, but its search starts at the second character (`svg.cpp:138`), so a
  name that begins with `&` or `<` stands in the map unreplaced and the
  document is not well-formed. Run `map_text` finds it.

Further behaviour the models reproduce and that a reader of the code may not
expect. No document of the repository promises otherwise, so these are notes:

- `make_base` truncates the base file before it reads a request
  (`json_reader.cpp:29`): a document that throws destroys the base before it
  (`AllOrEmpty`).
- An empty base file parses as a message with no fields, and
  `DeserializeMapRender` reads elements of empty repeated fields. A file that
  is missing or torn leaves the router null, which a `Route` request
  dereferences. `UndefinedOnlyWithoutBase` says that, bases with a bus
  without stops or without colours aside, these are the only ways.
- A `Route` request for an unknown stop throws, and the answers to all other
  requests are lost, as they are printed last.
- A bus that stands still at a stop with no length given is routed (length 0)
  but a `Bus` request for it throws: `GetLenghtBetweenStops` and
  `SummationLenght` differ (`InfoAgreesWithRides` states the difference).
- The road length of a bus is summed in an `int`; wait and velocity are cast
  to 16 bits, colours to 8, unchecked (`SettingsSurvive` says what becomes of
  any integer: a wait time of 65536 is one of 0).
- `json::Builder` tells whether it is ready by a root that is not null, so a
  null at the root leaves it open, though `Build` throws a message about it.
- A second value for a key is dropped silently by the builder; the parser
  takes arrays with commas missing or trailing.
- The saved target of an edge is its source (`transport_router.cpp:104`).
  Nothing reads it after loading, which `RouterSurvives` and the answers in
  `journey` confirm.
- The curvature of a bus whose stops are all at one spot divides by zero:
  it is infinite, or not a number when its roads have length 0 too, and
  `ComputeDistance` of two coordinates that are equal but for rounding may be
  not a number as well (`acos` of more than 1). `Print` streams `inf` or
  `nan`, which is not JSON. `InfoAgreesWithRides` says for which buses.
- With a velocity of 0 the time of a ride is infinite, or not a number at
  length 0, and a total made of such times prints as no JSON either. No
  model covers this.

## 6. Not modelled

- The formula of `geo.*`: `Distances` gives what it may return.
- A velocity of 0, and rounding of `double` times.
- The six digits and exponents of printed doubles in the map; infinities in
  JSON. The spelling of numbers and colours in the attributes of SVG.
- Iteration through `ranges.h`, which has no state.
- The build files, among them two generated sources (1594 lines) by which
  CMake recognises a compiler.
- Code that is commented out: `json.cpp` from line 361 on and parts of
  `main.cpp`.
- Two `make_base` at once on one file.

## 7. Plan

Done, most important behaviour first: catalogue and its proof; table of
routes, the loops that implement it and `BuildRoute`, with proofs; the graph
of stops and journeys, with the proofs of its edges; loader and reload;
builder; the two processes; statistics, settings, map and text. Then the
proofs of loader and reload, rides, journeys, statistics, the builder's grammar,
the map and the names in it.

Left: a model of two `make_base` at once, whose writes mix in the file.
