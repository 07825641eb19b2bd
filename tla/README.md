# DropbearsExpress in TLA+

DropbearsExpress is a FastCGI program that finds routes between solar systems
of Eve Online. A visitor names two systems and ticks what to avoid; the program
searches a map of star gates, the corporation's chain of wormholes and jump
bridges, and the exits of the wormhole system Thera, and prints a table with
one row per jump. This directory holds its model: TLA+ modules, the TLC
configurations that check them, and proofs for TLAPS.

Paths below are relative to `src/src/`.

## 1. Inventory

| Component | State it keeps | Operations | What makes it correct |
|---|---|---|---|
| `RouteFinder`, `RouteQueue` (`router/router/`) | `vertexMap` (filled once), `visited` and `avoid` (members that outlive a call); the queue and the path inside a call | constructor, `findRoute`, `addNeighbours`, `getPath`, `calculateWeight` | the answer is a least-weight route, empty only if there is none, whatever was asked before; it ends |
| Star map: `Vertex`, `IConnectionLoader::addConnection` | a vertex per system, its edges with tags | insert vertex, insert edge | every edge leads to a vertex, both ways, tagged alike; the first word on a pair stands |
| Loaders: `DBLoader`, `NovaLoader`, `TheraLoader`, `SiggyLoader` | the answer of Siggy they loaded from | `loadConnection` into the finder's map | the map holds exactly what the sources said |
| `Connections` | a second star map, described from | clear, three loads, `getConnectionType`, `getRouteDijkstra` (no longer called) | it holds what Siggy says now and nothing older |
| `SystemInfo` | systems by id, ids by name, nicknames | load from the database, `updateWithSiggy`, `getSID`, `getType` | names and nicknames are current |
| `Siggy` | the last answers for the chain and for Thera; inside a call the buffer and the message | `update`, `getData` over a TLS socket | an answer comes whole or not at all, however it is cut; an exchange ends |
| `json_spirit` (vendored) | the value under construction, the compound it is at | `read` | a whole text is accepted and read as it stands, a cut one refused, leaving a part of it |
| `RoutePlanner` (`main`, `FCGI`, `parseURI`) | `start`, `finish`, `avoidSet` outside the loop | startup, one request after the other | each page answers its own request |
| `Misc`, `Printing`, `ErrorHandler` | none | split, tags to avoid, form, table; SIGSEGV ends the process | what is ticked is avoided, what is found is shown |

How they interact. `FCGI()` owns everything and runs in one thread. At startup
it makes `Siggy s` (two questions to the server), `SystemInfo`, `Connections`
and the loaders, and gives the loaders to a `RouteFinder`, whose constructor
calls them in turn on its map (two more questions). For each valid request it
clears `Connections`, has `Siggy s` ask again, reloads `Connections` and the
nicknames, calls `findRoute` and prints the route, with `Connections` saying
what each hop is. So the map that is searched and the map that describes are
two objects, loaded at different times and in different orders.

What is hard here. Not threads: there is one. It is (a) a search whose loop
reads the top of a queue it is changing; (b) state that outlives a call or a
request (`visited`, `connections`, `start`, `finish`, `avoidSet`, nicknames);
(c) a server elsewhere whose answer changes from one question to the next, may
be an error, may come in pieces cut anywhere, may break off, or may never come;
(d) two maps of the same sky; (e) `find()` results used without a test; (f) a
descriptor that each request costs for good. `PROJECT.json` lists these at their lines.

## 2. Modules

| Module | Models | Extends / uses |
|---|---|---|
| `ConnectionTags` | tags, their order in a `std::set`, `calculateWeight` | |
| `VertexMap` | `Vertex`, `VertexMap`, `addConnection`; what a well-formed map is | `ConnectionTags` |
| `RouteFinder` | `findRoute`, `addNeighbours`, `getPath`, pass by pass | `VertexMap` |
| `ShortestRoute` | abstract: a question, an answer of least weight | `VertexMap` |
| `RouteFinderRefinement` | the mapping from the search to `ShortestRoute` | `RouteFinder`, instance of `ShortestRoute` |
| `Sources` | what each loader adds, from the database or from an answer | `VertexMap` |
| `RequestParser` | `parseURI`, `getAvoidSet`, `getSID`, the form, the head of the loop | `ConnectionTags` |
| `RoutePlanner` | the process: startup, requests, questions to Siggy, page | `RequestParser`, `Sources`, instance of `ShortestRoute` |
| `ConnectionsRoute` | `getRouteDijkstra`, the search `findRoute` replaced, as a function | `RouteFinderRefinement` |
| `SystemInfo` | the constructor row by row, the getters, the colour of the page | `ConnectionTags` |
| `Question` | abstract: a question to Siggy as one step | |
| `SiggyFetch` | `getData` and `loadData` as the answer arrives in pieces | instance of `Question` |
| `JsonReader` | `json_spirit::read` token by token | |
| `AnswerReader` | what the loaders make of the value that was read | `JsonReader` |
| `MCRouteFinder`, `MCRequestParser`, `MCRoutePlanner`, `MCSystemInfo`, `MCSiggyFetch`, `MCAnswerReader` | values for TLC | |
| `RouteFinderProof` | the inductive invariant of the search and its consequences | `RouteFinder`, `TLAPS` |
| `RouteOptimalProof` | optimality over all walks, the bound on distances, the refinement of `ShortestRoute`, the agreement with `getRouteDijkstra`, how many steps a call may take | `RouteFinderProof`, `ConnectionsRoute` |
| `LoadProof` | `addConnection` keeps maps well formed; what loading a list of any length amounts to | `Sources`, `TLAPS` |
| `RoutePlannerProof` | the question of a URI with any number of arguments; the inductive invariant of the request loop; pages, names, descriptors | `RoutePlanner`, `LoadProof` |
| `PageProof` | what the two maps say, and so a page of a hop | `RoutePlannerProof` |
| `SystemInfoProof` | names, colours and rounding for any table | `SystemInfo`, `TLAPS` |
| `SiggyFetchProof` | an exchange is one step of `Question`; bytes that came early are never counted; a text in chunks is never lost; every step uses up something | `SiggyFetch`, `TLAPS` |
| `JsonReaderProof` | what any text, whole or cut, is read as, which are refused, and what the loaders make of the value that is left | `AnswerReader`, `TLAPS` |

Operators marked `Fault:` are not part of any model. Each is a definition with
a slip a programmer could make; substituted for the definition, it must break
the property that `PROJECT.json` pairs it with, under that property's own run.

### State and actions

`RouteFinder`. `vertexMap`, `visited`, `avoid` are the members; `start`,
`finish` the arguments; `q`, `curr`, `rest` (what the loop in `addNeighbours`
has left) and `path` the locals; `pc` the place in the code. `dist` is a
history variable, read by properties alone. `FindRoute` is the head of the
call. `PopVisited` is a turn of the inner loop, `Arrive`, `Expand` and
`ExpandUnmapped` what follows a successful `visited.insert`; `SkipNeighbour`
and `PushNeighbour` are turns of the loop in `addNeighbours`, in key order;
`PopCurrent` is the `q.pop()` after it; `Backtrack` and `ReturnPath` are turns
of `getPath`. The queue is a set: `NoEntryWaitsTwice`, proved, says that an
entry is never pushed while an equal one waits. `ExpandUnmapped` is the
undefined behaviour at `RouteFinder.cpp:56`: with libstdc++ the map copied from
behind `end()` overlays the header of the member `visited`, so that the copy
either faults or has `start` as its only key; both are allowed.

`VertexMap`. A vertex is its adjacency map (`Vertex::from` repeats the key and
is never read). `AddConnection` makes both vertices, then both edges;
`std::map::insert` leaves alone what is there.

`Sources`. A loader is the list of connections it adds. An answer of Siggy is a
record of its wormholes, bridges and names, or of Thera's exits. `Explains` is
the meaning of loading without a fold: two systems are joined if some
connection joins them, the first in the list giving the tags.

`RequestParser`. A URI is the list of its arguments, each split at `=`. The
form is modelled by the URIs a browser makes of it: an empty text box gives an
argument of one part, a box not ticked is absent, a typed name is encoded.
`Receive` is the head of the loop: reset, favicon, `parseURI`.

`RoutePlanner`. Each question to Siggy is an action with three outcomes: an
object, nothing usable (an HTTP error stores a number, a failed exchange a
null), or an uncaught exception while connecting. That nothing usable came is
noticed when `get_obj()` throws: `DieOfData`, or within `LoadThera` and
`LoadNova`. The reload, lines 99-108, is four steps: `ReloadGates`, `Rename`,
`ReloadNova` (left out if the program was started with an argument:
`loadSiggy` is a variable that keeps its first value) and `ReloadThera`. The
first costs a database handle for good: `handles` counts those, and `Free` what
the process may still open; without a descriptor Siggy cannot be asked, the
gates are not loaded and no request is accepted. A name for a system the database
lacks is written through `end()`: the process dies (`NamesUnknown`) or goes on
with the other names. `FindRoute` uses the finder by its promise: any of `RightAnswers`, or
death if `MayDie`; `SearchKeepsPromise` justifies this. `PrintPage` is
`printRoute` and the end of the request. `page` is what the visitor sees.

What a request is described from after an answer that was cut is not in
`RoutePlanner`: `SiggyFetch` shows that a cut answer is nothing, but for the one
way `multi_line` shows, and `AnswerReader` that in this way the loaders add a
part of what the whole answer has, which is an answer like another.

`SiggyFetch`. A symbol of the stream is a line end, a status, a header, a
length or a token of the text. `Receive` brings any number of them into
`buffer` (`response`) while the blocking call is not `Satisfied`, so an answer
is cut anywhere; `HangUp` loses what has not arrived, and `Fail` is the
exception that follows. `ReadStatus` to `ReadBody` are the places where the
code takes something out of the buffer: `ReadStatus` begins a second, empty
buffer for an error, `ReadSize` gives an undefined length if the line is empty,
`ReadData` takes a line for a chunk, `ReadBody` begins to count anew each turn.
`unseen` is a history variable: what had not arrived when the reading of an
error or a body began. `Promise` maps the exchange to `Question`, what is told
being the start of the message, as the JSON reader stops where a value ends.

`JsonReader`. `value` is a function on paths, `current` the path of
`*current_p_`, `within` the rules of the grammar. Where the grammar misses a
colon, a value or an end (`NoColon`, `NotAValue`, `NoEnd`) `Throw` is the
`throw_not_...` function: `read_range` catches what it throws and returns false,
so that reading is over (`Returned`, but not `Accepted`) with `value` as it was
built by then, compounds without an end included. `getData` and `SiggyLoader`
use that value without a look at the verdict. No build type is set, so
assertions are on; `JsonTypeOK` says why those of `new_name` and
`add_to_current` never fail: the rules the grammar is in are the compounds on
the way from the root to `current`.

`AnswerReader`. A loader is a walk: a set of steps, one for each member it comes
to, each with what it demands and what it then adds. A tree is a token, or an
object or array with its items in order; `Text` and `Value` say what a tree's
text and value are without the reader, as the reference for it.

`SystemInfo`. `LoadRow` is the body of the loop, rows coming in any order.
Securities are hundredths in a row and tenths in a system; `RoundedDown` lists
the hundredths ending in 5 whose float lies below them.

`ConnectionsRoute`. A function of map, start, finish and tags, to be compared
with what the run of `findRoute` answers; ties are broken by `Precedes`, as in
the queue both use. `Turn` is a turn of the outer `while`, `AfterTurns` what so
many turns make of queue and `visited`, `Filled` the loop over the neighbours and
`WalkBack` the `do`-`while`, each a function on the numbers or sets it goes over.
A turn settles one system more, so the number of systems is turns enough.
The comparison is for a start that is in the map; from another the older search,
too, reads behind `end()`.

## 3. Runs

| Run | Question | Result |
|---|---|---|
| `route_finder` | do the invariants of the search hold, does every step of a call bring it nearer to its end and every call end, does it implement `ShortestRoute`, and answer what `getRouteDijkstra` would have? | holds |
| `parser` | is a request understood from its URI alone? | holds |
| `planner` | do both maps say what their sources said, and the same; is each page for its request; are hops described; is a request answered; are requests served for ever? | holds; answered unless Siggy hangs; not served for ever, as descriptors run out |
| `siggy_fetch` | is an exchange the one step the planner takes it for, however the answer is cut, can it go round without using anything up, and does it end? | holds; what came early is forgotten; only waiting keeps it open; in chunks it ends by itself, otherwise when Siggy hangs up |
| `answer_reader` | is a whole text accepted and read as it stands, a cut one refused, and what it leaves a part of the whole? | holds |
| `system_info` | do names resolve, and do search and page class systems alike? | holds |
| `unmapped_start` | "if no route is found, an empty vector is returned" | violated: the process may crash |
| `frigate_weight` | an avoided frigate hole should "weigh lots" | violated: Crit and EOL sort before Frigate |
| `gate_box` | ticking Stargate avoids gates | violated: it avoids EOL holes |
| `spaced_name` | proper names are accepted | violated: names with a space arrive encoded |
| `stale_route` | the loaders provide "up-to-date map info" | violated: once, at startup |
| `multi_line` | "If the length is 0 it means we're done" | violated: a text with line ends is cut at the first |

One more thing the modelling showed, which no run states: a process started with
an argument, "no siggy", still searches the chain, because the finder gets
`NovaLoader` regardless.

Bounds. `route_finder` takes all 729 maps of four systems in which each pair is
unconnected, joined by a gate, or joined by a dying hole (frigate-sized between
0 and 3), plus a fifth system without connections, three sets of tags to avoid,
and any sequence of calls. Four systems are the fewest in which a system can
wait in the queue by two ways and be overtaken, a shortcut can be found after a
longer way, and leftover copies can outlast everything else. Avoided weighs 2
and frigate 4, not 100 and 10000: small enough that ways through avoided hops
compete with ways round them; the proofs hold for any positive weights.
`parser` takes every form with five names and three boxes and every URI of
up to three of nine arguments, so that a name or box can come twice with
something between. `planner` has six systems, one of them unknown to the database, room for seven
descriptors, so that they run out after a few requests, three answers for the chain
(holes that move, a hole beside a gate, a hole beside an exit of Thera, a
bridge, a nickname that changes), two for Thera, both values of `loadSiggy`, and
seven requests, of every kind, without a bound on their number. `stale_route`
uses a smaller sky.
`siggy_fetch` has one object of four tokens in one chunk, in two, with a line
end behind it, with a Content-Length, without either, an object with braces in
its strings, an array, and an error with a page: every framing the code tells
apart, cut in every way. Two chunks are the fewest between which a piece can
end. `answer_reader` takes a chain with two holes and one with a bridge, Thera's
exits as an object and as an empty array, a repeated name, nested arrays, each
cut after every token, and ten malformed texts. `system_info` has a system at
each border between classes, two names that differ in case, and Thera, in all
orders.

Fairness. A call of `findRoute` is sequential code: once entered it goes on
(`WF(Search)`), but nobody has to call. In the planner what the process does by
itself is fair (`WF(Compute)`), and `findRoute` comes back (`[]<>(pc # "route")`),
which `EveryCallEnds` says of it. Neither visitors nor Siggy owe it
anything: reads have no timeout, hence `AnsweredUnlessSiggyHangs` allows for a
question that stays open for ever. In `SiggyFetch` the reader goes on and what
Siggy sent arrives (`WF(Receive)`: TCP delivers), but Siggy need not hang up,
which is why `ExchangeEnds` promises an end only to a text in chunks or after
`HangUp`. Runs of `RouteFinder` and `RoutePlanner`
turn the deadlock check off because the process can crash, die or be stopped; those of the other
modules because an exchange, a text or a table has an end.

## 4. Proofs

Each proof is for every value of the constants, under these assumptions, which
TLC evaluates on the instances: weights are positive naturals, systems are
integers with a type each (`WeightAssumption`, `SystemAssumption`,
`TypeAssumption`); the finder is given typed, closed and finite maps
(`LoadedAssumption`, `AvoidAssumption`); a URI is a list of arguments, each a list
of parts (`RequestAssumption`); a server that cuts a text into chunks puts each
length and each piece on a line of its own (`ChunksAssumption`), and an answer that
is no error has a head that ends at a blank line, the length of its text in it or
not, and then that text (`AnswersAssumption`, `FramingAssumption`); the tokens of a
JSON text are strings (`TokenAssumption`), what Siggy means to say is a set of
trees with all their parts, in which an item goes by its name or its index
(`TreesAssumption`) and which end, as `Size` becomes less from a tree to its items
(`SizeAssumption`); gates join systems of the database and names lead to such
(`SourcesAssumption`, `DatabaseAssumption`, `ParserAssumption`); the objects Siggy
answers with have the members the loaders look for (`NovaAssumption`,
`TheraAssumption`); more than four descriptors may be open
(`MaxOpenAssumption`); and the least weight is the 1 that the search of
`Connections` writes (`BaseAssumption`, in `ConnectionsRoute`).

* `RouteFinderProof`. The invariants are not inductive one by one: that no
  shortcut is lost needs the popped entry to be the expanded one, which needs
  its distance to be least, which needs everything that waits to lie beyond
  everything settled and to have come from a settled neighbour at the right
  price. `IInv` joins these: types, `CurrentStaysOnTop`, `DistancesTight`,
  `QueueBeyondSettled`, the origin of each queue entry, what `rest` holds,
  `FrontierComplete`, and what `getPath` has walked so far. One lemma per action
  shows that it keeps `IInv`; `Inductive` joins them. From it follow
  `TypeCorrect`, `TopIsCurrent`, `PredecessorsTight`, `NoShortcutLost`,
  `EntriesDiffer`, `EmptyIsRight`, `RouteIsRight` and, as an action property,
  `OrderKept`.
* `RouteOptimalProof`. `RouteCertified` says that a route answered comes with a
  potential. `AnswerRight` draws the conclusion: no walk along the map from
  start to finish, of whatever length, weighs less, and if the answer is empty
  there is no walk. `DistancesFit` bounds distances by the number of settled
  systems: with 8000 systems and weights up to 10000, 80 million, well inside
  an `int`. `SearchKeepsPromise` is the safety part of the refinement: each step
  of the search is a step of `ShortestRoute` or a stutter. `CostIsLabel` equates
  the recursive sum there with the labels of a walk, `RouteIsWalk` and
  `AnswerIsRoute` relate its routes to walks: distances grow along the answer, so
  it flies no system twice and, the map being finite, is no longer than the map.

  `AnswersAsBefore`: in every finite map that has the start, `findRoute` answers
  the very route `getRouteDijkstra` would have, ties included. `TurnByTurn`,
  `FilledIs` and `WalkBackIs` say what the older search's functions give, after
  any number of turns. `InStep` is the invariant that runs the two alongside: at
  the top of the loop as many turns have been taken as systems are settled,
  `visited` is the same, and so is what waits, copies of settled systems on top of
  the queue apart (`Undropped`), as each search drops those in its own time. While
  a system is expanded the older search has taken its turn already: its queue is
  `q` with what is still to come from `rest` and without the top. Ties are broken
  alike, so equal queues have equal tops. One lemma per action (`BeginInStep` to
  `ReturnPathInStep`) keeps them in step.

  `EveryStepCounts`: every step of a call lowers `StepsLeft`, which for n systems
  starts at no more than 2n^2 + 2n + 2. `SettleSpends`, `DropSpends`, `LookSpends`
  and `BacktrackSpends` say what each kind of step costs; the last needs each hop
  of `getPath` to lead nearer to the start, so that the hops taken are no more
  than the systems at least as far as the present one (`NotNearer`).
* `LoadProof`. `ConnectionKeepsWellFormed`: each connection leaves the map
  closed, symmetric and consistently tagged; that it is typed and closed is what
  `LoadedAssumption` asks of a loader. `LoadExplained`: if a list of connections explains a map, then
  that list with another one behind it explains what a loader makes of the map
  and the other. `AddExplained` is the step for one connection, from
  `AddConnectionAdds`; `FirstInBoth` says which connection comes first in two
  lists put together. The induction along the list is written out with a least
  counterexample (`UpTo`), since the induction theorems of the library take an
  operator; the recursive function in `Load` is shown to exist the same way
  (`StagesExist`).
* `RoutePlannerProof`. `QuestionFromURI`: whatever was asked before, start and
  finish are the last ones the URI gives and a tag is avoided as the first of its
  boxes says. The induction over the arguments says that of the first k of them,
  again by a least counterexample. `PlannerInv` says, for every place in the loop, what the
  verdict is, of which answers it is known that they are objects, that a
  descriptor is left for the database, which loads have made each map what it
  is, that the nicknames hold the present names, and that a route found leads
  from start to finish. `PageAnswersRequest` and `NamesCurrent` speak of a page
  after its request and would not be inductive without what held while it was
  being made. `LoopInvariant` proves it, `PageRight`, `NamesRight`,
  `MapsReloaded` and `DescriptorsSuffice` draw on it.
* `PageProof` puts the last two together: the finder's map is explained by
  gates, Thera and chain, the other by gates, chain and Thera. `FinderMapRight`
  and `DescriptionsRight` say so; `TagsRight` compares the two orders
  (`TwoOrders`); `GatesRight` and `UnchangedRight` follow a page from its
  printing to the next request; `PlannerTyped` adds that each map is, at every
  moment, what some list says (`StateInv`). So every invariant of the planner's
  run is proved.
* `SystemInfoProof`. `RowsRead` is the inductive invariant (names and systems
  point at each other); `NamesFound`, `ColoursRight` and `SecurityRight` follow.
* `SiggyFetchProof`. `OwedForEver` is the inductive invariant (how much of an
  answer can still be counted), `EarlyForgotten` its consequence. `ChunksKept`
  rests on `ChunkInv`: what is still to be read, arrived or not, starts at a
  length or at the text behind one, so that nothing but the arrival of the rest
  can keep the reader waiting (`NeverStarved`); `LineAsSent` and `BlankAsSent` say
  that where the stream is cut does not change where a line ends. `FetchTypes`
  is the type invariant. `WholeTextOrNothing` is the refinement of `Question`, for
  answers framed in any way and cut and broken off anywhere, if an answer in
  chunks has no line end inside its text (`multi_line` shows that it is needed):
  the invariant follows the reader through each framing and says which part of
  the text has been put into the message. `EveryReadCounts`: each step lowers
  `FetchLeft`, two for a symbol that has not arrived and one for a symbol that has
  (`ReceiveTakes`, `ReadTakes`), so that nothing is looked at twice and an exchange
  that does not end is waiting.
* `JsonReaderProof`. `JsonInv` is inductive for any text, and `ValueHangsTogether`
  its consequence: part of it is `Nested`, that the compounds from the root to
  `current` are those of the rules. For a text that some tree's text begins with,
  the invariant is `Track`: either the reading is on track, or some of that text
  is missing and the reader has thrown. On track the grammar is in a stack of
  frames (`Spine`): a compound, its path, how many of its items have been begun
  and how many are done, and what comes behind it. The value holds under a
  frame's path what the done items say, the last of each name
  (`Holds`), and what is left of the text, with what was cut off, is the rest of the
  innermost frame (`GoesOn`). One lemma per action moves the stack: `LeafTrack`,
  `BeginTrack`, `EndTrack`, `NameTrack`, `RootTrack`; `ThrowTrack` says that
  the reader throws only where some of the text is missing, and `EndOfTrack` that it
  accepts only where nothing is. `WholeIsRead`, `CutRefused` and `CutIsRead`
  follow; `NothingInvented` adds that of a part of a value each walk adds no more
  than of the value. That `Left`, `Value` and `NamesDiffer` are defined by their
  recursions is proved too (`Recursion`), from `SizeAssumption`.

Only model-checked: liveness (`EveryCallEnds`, `ExchangeEnds`,
`AnsweredUnlessSiggyHangs`, `NotServedForever`). Of `EveryCallEnds` and
`ExchangeEnds` one half is proved, that each step lowers a natural number
(`EveryStepCounts`, `EveryReadCounts`); the other, that a step which is fair is
possible and so taken, needs ENABLED, which the proof system does not handle, and
stays with TLC. The other two rest on fairness throughout. Every invariant and
every action property that a run checks and that holds is proved.

## 5. Not modelled

* `sqlite3`: vendored, 161,000 of the repository's 165,000 lines, so that no map
  of the program's own code comes near a third of them. The program opens a file
  and selects two tables; the tables are constants, the descriptors are counted.
* `SiggyPort.cpp` (called from nowhere), `getpost.h` (included nowhere).
* Of `json_spirit`: escapes in strings, the other overloads of `read`, and the
  classes of values, which are stood for by functions on paths. Texts are cut
  between tokens, so that a number is never cut into another one.
* Markup, console logging, the text of the questions to Siggy, the backtrace
  `ErrorHandler` prints.
* The parameter `ignore` of `findRoute`, which the code never reads.
* A request without `REQUEST_URI`, which a web server does not pass on.
* The unit tests: their cases lie inside the behaviours of `RouteFinder`.

## 6. Plan

Done, most important first: the search and its promise; its proofs; the map;
sources; requests; the process; the exchange with Siggy; the JSON reader and the
walks over answers; systems and names; the search `findRoute` replaced; the
proofs about loading, the loop and the page.

Also done: the refinement of `Question` by the exchange; the JSON reader on any
tree and any cut of its text; the walks over a part of a value.

And last: that `findRoute` and the search it replaced agree hop for hop on every
map; and the measures by which calls and exchanges run down.
