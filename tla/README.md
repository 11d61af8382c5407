# Verification of the hwc compiler

`hwc` compiles HardwareScript, a language in which the physical layout of a chip
or board is written as a program, to manufacturing files.  This directory holds
TLA+ models of the parts of the compiler in which steps can come in an order, or
state can be read at a moment, that a unit test would hardly reach; the TLC
configurations that check them on small instances; and proofs, checked by TLAPS,
of what the most important of them do for every instance.

Every definition is translated from the Rust source and `PROJECT.json` names the
lines it stands for (its `map`).  Paths below are relative to `src/crates/`.

## 1. The system

### 1.1 How a build goes

`hwc build file.hw` (`hwc-cli/src/commands/build_cmd/mod.rs`) is one straight
pass over one process.  On the right, the modules that model each phase:

    source text
      |  hwc-parser: lexer, parser             SourceParser, ComptimeParser
      |  module_resolver, symbol_table         ModuleImports
      |  eval: comptime compiler and machine   ComptimeCompiler, ComptimeVM
      |  eval/emitter, pipeline                SpaceLowering, NetlistArena
      |  design rule check                     DesignRules
      |  continuity check                      Continuity
      |  commit gate                           BuildCommand
      v  export of the files                   BuildCommand

Beside the pass stand libraries that no command calls yet: the synthesis of logic
blocks (`Synthesis`, `AigGraph`, `CellRows`), the incremental queries
(`QueryStore`, `QueryPipeline`), the handle table (`NetLookupTable`), the routers.

Phases communicate by returned values, and through one shared object, the
diagnostics collector (`DiagnosticCollector`).  Threads run inside phases only:
`thread::scope` in the router (`geometry_router/router/core/engine.rs:171,425`,
`parallel_router.rs:39`, `gcell_sweep/verify.rs:58`), in the checks for
electromigration and temperature (`design_rule_check/`), and for the four analyses
of `hwc-physics/src/lib.rs:579`.  Of these, a build reaches those of the design
rules, whose chunks hold all routes in one piece.

### 1.2 Components

For each: its state; its operations; what is hard; what makes it correct.

**Incremental query engine** (`hwc-engine/src/geometry_router/query_engine/`).
State: memo table, recorded dependencies, timestamps, invalidation times, a
logical clock.  Operations: `execute_query`, `register_input`,
`record_dependency`, `invalidate_{input,file,gcell,boundary_port}`, `clear`, and
reads `is_stale`, `get_result`.  Hard: staleness is spread over four maps, a memo
is served by presence alone, and `mark_stale` recurses over recorded edges.
Correct: no memo outlives a change of what it was computed from; the store's
answers agree; invalidation ends.  Today it is driven by its tests only: the
`query_store` field of the hierarchical router is always `None`.

**Net handle table** (`hwc-engine/src/netlist/handle.rs`).  State: table under an
`RwLock`, counter under a `Mutex`.  Operations: allocate, resolve, rename, update,
clear.  Hard: two locks, taken in different orders.  Correct: handles are unique,
an issued handle resolves, every call returns.

**Lexer and parser** (`hwc-parser/src/`).  State: tokens, a position, the
collector.  The top level is a loop with panic-mode recovery and an error limit;
the grammar of items is recursive descent, and that of expressions a Pratt parser.
Hard: two tokens decide whether a brace begins a struct, a block or a body;
statements need no terminator; recovery starts in the middle of an item.  Correct:
a program means what its author wrote; every turn of the loop advances.

**Comptime compiler** (`hwc-compiler/src/eval/compiler/`).  State: code so far,
scopes, loop contexts, next register.  One pass with placeholder jumps that are
patched later.  Correct: the code does what the source means.

**Comptime virtual machine** (`hwc-compiler/src/eval/vm/`, `frame.rs`,
`sandbox.rs`).  State: frames over one vector of registers, fuel, charged memory.
Hard: window arithmetic at calls and returns; limits checked in different files.
Correct: frames do not touch each other, every limit holds, every run ends.

**Emitter and space lowering** (`hwc-compiler/src/eval/emitter.rs`,
`eval/mod.rs`, `pipeline/`).  State: net ids and record lists of the program; per
space a netlist and lowered shapes.  Operations: evaluate each space's body,
then, for each space, register its nets, lower polygons, contacts, devices,
routes.  Hard: two numberings of nets under one type; nets and layers found by
searching what was lowered before.  Correct: an id written on a shape means, to
its reader, the net the writer meant.

**Netlist arena** (`hwc-engine/src/netlist.rs`).  State: vectors of components,
pins, nets and maps of names.  Correct: the two directions of every link agree.

**Module resolver and symbol table** (`hwc-compiler/src/module_resolver/`,
`symbol_table/`).  State: a stack of files being resolved, a table of layers of
bindings.  Operations: resolve an import and those of the imported file, register
local definitions, export and re-export, look up.  Hard: recursion with early
returns past the pop of the stack; exports looked up in the table of the whole
build.  Correct: the resolution ends, reports a cycle only where there is one,
and every name bound by a successful import can be looked up.

**Build command** (`hwc-cli/src/commands/build_cmd/`, `validation/`) and **check**
(`check.rs`).  State: the collector, the violations of the current space, the
files written.  Hard: errors of four phases meet in one collector, which is looked
at three times; the gate runs per space, between exports; options skip checks.
Correct: what fails a check is not exported, a failed build says so, and a space
is exported whole.

**Diagnostics collector** (`hwc-diagnostics/src/collector.rs`).  State: lists and
a limit behind mutexes.  `report` counts under one lock and pushes under another;
no code reports from two threads.

**Design rule check** (`hwc-engine/src/design_rule_check/`).  State: the
constraints lowered from a profile, the violations so far.  Fifteen checks in one
order; an error of one ends all and loses what the earlier ones found.  Hard:
integer geometry with halved diameters and rounded roots, pairs looked at in one
direction only, the first of several pours taken for the one that counts.
Correct: a space that passes keeps its rules; one that keeps them passes.

**Physics** (`hwc-physics/src/`).  The connectivity solver of the commit gate
(`pivb/`): pieces of metal welded into islands, islands bridged by contacts.
Hard: an island keeps only the box around its members.  Correct: a net passes
exactly if its metal is connected.  Beside it four numerical analyses.

**Synthesis** and **technology mapper** (`hwc-synthesis/src/`).  State: an
and-inverter graph with structural hashing, the instances mapped from it, their
places.  Operations: lower a logic block, reduce the graph (simulate, classify,
prove by SAT, rebuild), map, place, legalize, check the equivalence.  Hard:
branches lowered over copies of an environment but one graph; nodes merged up to
an inversion; a checker that pairs inputs and roots by name.  Correct: every stage
keeps the functions; placed cells stand on rows and sites and do not overlap.

**Geometry router** (`hwc-engine/src/geometry_router/router/`).  State: an entity
graph, the routes of each cell, nets that cross cells.  Cells are routed in
threads over clones, results registered in order.  Correct: no two nets share
metal; what fails leaves nothing behind.  Its `route_space` has no caller outside
the engine.  Beside it: **cell sweep and verification**, a parallel map without
shared state; the **entity graph** and the **routing database**, which index routes
twice; the **route lockfile**, whose save is an empty function (`ir/mod.rs:15`) and
which no command reads; the **constraint manager**, tables of numbers.

**Standalone router** (`hwc-router/src/`): heuristics over grids.  **Export**,
**materials, types and the standard library**: writers and tables.  **Other
commands** of the CLI: straight lines over the same libraries.

### 1.3 What is hard here

`PROJECT.json` lists forty hazards, each at its line, with the properties that
would catch it going wrong.  They fall into six kinds:

- *Stale state.*  Memos served by presence (`query_engine/store.rs:37`); an id of
  one numbering written where another is read (`pipeline/routes.rs:88`); the
  re-export of a name bound by somebody else's import
  (`module_resolver/exports.rs:149`); a weld remembered by its box
  (`pivb/solver.rs:213`); an index of routes kept beside their list
  (`design_rule_check/clearance.rs:24`).
- *Order.*  The four lowering loops each search what the earlier ones made
  (`pipeline/space.rs:332`); a table of device nets is read while it is written,
  in hash-map order (`pipeline/devices.rs:118`); `invalidate_file` reads dates it
  writes (`query_engine/pipeline.rs:122`); islands come out of a hash map
  (`pivb/solver.rs:201`); the first pour around a region counts
  (`design_rule_check/junction.rs:239`); cells are pushed right in order of x
  (`mapper/row_legalizer.rs:96`).
- *Long legal sequences.*  Jumps patched through contexts of nested loops
  (`eval/compiler/statement.rs:372`); operators regrouped by one number
  (`parser/expression.rs:53`); register windows over a shared vector
  (`eval/vm/dispatch.rs:236`); ids that must survive from space to space
  (`eval/emitter.rs:181`); recovery in the middle of an item
  (`parser/mod.rs:57`).
- *Interleaving.*  Two locks (`netlist/handle.rs:186`); routing over clones
  (`router/core/engine.rs:171`, the one hazard without a property, in code that no
  command calls).
- *Partial failure.*  A space that fails the gate after others were exported
  (`build_cmd/mod.rs:162`); a failing import that leaves its file on the stack
  (`module_resolver/mod.rs:87`).
- *Numbers.*  Rounded diagonals (`design_rule_check/short_circuit.rs:129`) and
  halved diameters (`via_checks.rs:179`).

## 2. Modules

| module | models | state in the code |
|---|---|---|
| `Dependency` | reachability in recorded dependencies | - |
| `Memo` | what a memo table promises (abstract) | - |
| `QueryStore` | `query_engine/store.rs`, `pipeline.rs` | the five maps, the clock, the call stack of `mark_stale` |
| `QueryPipeline` | the store and a client like its tests; refines `Memo` | - |
| `NetLookupTable` | `netlist/handle.rs`, one step per lock taken | table, counter, owners of the locks, threads |
| `ComptimeParser` | `parser/expression.rs`, `statements/`, `declarations/functions.rs` (operators) | the parser's tokens and tree |
| `ComptimeCompiler` | syntax trees to chunks (operators) | the compiler's code, scopes, loops, registers |
| `ComptimeVM` | one call of `run_chunk` | frames, registers, fuel, charged bytes |
| `ComptimeText` | how a tree is written down (operators, reference) | - |
| `ComptimeMeaning` | what a program means (operators, reference) | - |
| `NetlistArena` | operations of the netlist (operators) | `NetlistArena` |
| `SpaceLowering` | evaluation and the pipeline, from spaces to hardware spaces | emitter, current space, spaces built |
| `ModuleImports` | `module_resolver/`, `symbol_table/`, `build_cmd/compilation.rs` | the stack, the calls of `resolve_import`, two layers, the arena, errors |
| `DiagnosticCollector` | `collector.rs` (operators) | severities of the reports, the limit |
| `SourceParser` | the top-level loop of `parser/mod.rs` | position, items, collector |
| `Continuity` | `validation/{utils,continuity}.rs`, `hwc-physics/src/pivb/` (operators) | islands, bridges, components |
| `BuildCommand` | `build_cmd/`, `validation/`, `check.rs`; composes the three above | job, phase, current space, violations, files |
| `DesignRules` | `hwc-engine/src/design_rule_check/` | space, rules, position, report |
| `AigGraph` | `aig/arena.rs` (operators) | the arena, the hash table |
| `CellRows` | `mapper/{placer_loop,row_legalizer}.rs` (operators) | instances, rows, sites |
| `Synthesis` | `hwc-synthesis/src/lib.rs`, `fraig.rs`, `cec.rs`, `priority_cuts.rs`; composes the two above | stage, environments, two graphs, instances |
| `LogicMeaning` | what a logic block means (operators, reference) | - |
| `QueryPipelineProofs`, `NetLookupTableProofs`, `ComptimeVMProofs`, `SpaceLoweringProofs`, `ModuleImportsProofs`, `DesignRulesProofs`, `BuildCommandProofs`, `SynthesisProofs` | theorems (section 4) | - |
| `MCQueryPipeline`, `MCComptime`, `MCSpaceLowering`, `MCModuleImports`, `MCBuildCommand`, `MCDesignRules`, `MCSynthesis` | instances for TLC | - |

### 2.1 QueryStore, QueryPipeline, Memo

A hash map is a total function with 0 for "no entry".  The value of a query is
abstracted to the clock at which it was computed: whether a memo may be served
depends on nothing else.  Each operation of the store is an action; the recursion
of `mark_stale` is the variable `work`, one set of unvisited dependents per active
call, so a visit and a return are one step each and the iteration order of the
maps is any order.  The store is behind `&mut self`: no operation starts while
`work` is not empty.  `invalidate_file` makes one pass over a map whose order is
arbitrary and reads what it writes; the model lets it date any set of queries such
a pass can date.

`QueryPipeline` adds a client: as `test_store.rs` does, it records dependencies
before it executes and executes a query once what it uses has been executed.
`Memo` says what callers may rely on: an invalidation is *one* step that drops
exactly what depends on the change.  `ImplementsMemo` states that the store does,
with `Live` - computed, and not about to be visited by the running recursion - as
the memo table a caller can see.

Hashes of query ids are taken to be collision free.

### 2.2 NetLookupTable

`allocate_handle` takes the counter's mutex and, holding it, the table's write
lock: two actions.  `clear` takes the same locks in the other order: two actions.
`rename_net` and `update_handle` hold one lock: one action each.  `resolve_handle`
changes nothing and is the operator `Resolve`.  `issued` is a history variable:
the handles that callers were given and that no clear has taken back.

### 2.3 ComptimeParser, ComptimeCompiler, ComptimeVM and their references

Three stages are composed: tokens, tree, chunk, run.  `MCComptime` builds trees,
writes each down with `ComptimeText`, parses what is written, compiles the tree it
gets back, runs the chunk, and compares the outcome with what `ComptimeMeaning`
says of the tree it started from (`CompiledMeansSource`).

*Parser.*  Operators that thread the tokens that are left, whether parsing has
failed, and the tree just built; one per parse function, with its lookahead.  The
functions that call each other go through one dispatcher, `Parse`.  A token is a
kind and, for names and literals, a value.  Spans, newlines and comments are left
out: no parse function looks at a span, and a newline separates nothing.

*Text.*  How an author would write a tree: parentheses where the ranking of the
operators needs them - the ranking is `ComptimeText`'s own, in the order in which
the language's operators are usually read, so that the parser's is checked against
it - and semicolons where the next statement would be read into this one.  It
writes parentheses around a condition that ends in a name and is followed by a
block that reads as a struct's fields, since the parser reads it so (`Braces`
states this, and section 3.3).

*Compiler.*  One operator per syntactic form, with the same registers, the same
placeholder jumps and the same patches as the code (positions count from 0).

*Machine.*  Turn by turn of `run()`'s loop: the fuel test, the fetch, the
instruction.  Control instructions are one action each; those that compute
integers, booleans, arrays, tuples and structs share one, `Data`, over operators
for each.  `stack` is the vector of registers all frames share; a frame's window
begins at the length the vector has at the call.  Depth is checked before the
lookup in `Call` and after it in `CallMethod`, as in the two files.  Bitwise
operators work on seven bits; the integers of the programs stay within them.

*Meaning.*  A direct definition: scopes, a signal (go on, break, continue, return,
error), a value.  Beside them goes a count of the elements of all array literals
written so far, by whatever function: past the quota the program ends with the
memory error, and not before.  That count is the footprint the code charges; a push,
a range, a slice, a tuple or a struct adds nothing to it (section 3.3).

Left out: strings, measurements and points with their coercions, routes, emission
and the methods of spaces and cells, builtins other than ranges.

### 2.4 NetlistArena, SpaceLowering

A state of `SpaceLowering` is a moment of the compilation.  `phase` says which
loop runs, `pos` where it is; the evaluation emits any sequence of up to
`MaxShapes` shapes per program, chosen from the constants, with nets of the
space's own scope.  Then each space is built: `RegisterNet` for each of its nets,
and one action per record lowered - or refused, which ends the build.  A lowering
action does all the code does for a record: it finds the net and the layer in the
code's order of preference, makes the component, its pins and their connections,
and appends the shape.  A place is a set of spots, so that "lies inside" and
"touches" are membership and intersection.

Left out: materials and elevations (their errors too, which refuse a record as a
missing layer does), names of components and pins, parameters, the stackup, net
properties, and the emission of the global script.

### 2.5 ModuleImports

`resolve_import` calls itself for the imports of the file it has parsed.  The
calls are the variable `frames`, the running one last; `stack` is the field
`resolution_stack`, which belongs to the resolver and outlives the calls.  An
action is what happens between two calls: a path that does not resolve, a file on
the stack, a file that does not parse, a call that begins (`Enter`), and one that
ends with the names bound (`BindAll`) or with one missing (`BindFails`).  An error
ends all calls at once; the build reports it and goes on to its next import, with
the stack as it was left.  Then come the built file's own items (`RegisterItem`).

Of the table's layers the model has the two that the commands fill: one layer of
imported names, which all imports share, whoever asked for them, and the local
one.  The arena is the list of declarations registered; ids into it are replaced
by the declarations.  `finished` is a history variable: the files resolved to the
end, by their first time.

Left out: the text of errors and whether a missing name is private or absent,
namespaces and the prelude layer (no command fills them), and that one file may
have two paths (one embedded as `@std/...`, one on disk).

### 2.6 SourceParser, DiagnosticCollector, Continuity, BuildCommand

`BuildCommand` is one run of `build` or `check`.  Its first phase is
`SourceParser` in full: the loop over items, what an item that fails leaves the
position at, the recovery (one token, then up to a keyword it knows), attributes,
and the stop when the collector is at its limit.  Tokens stand for classes.
`Read` is the reference: what a source says, read from its end backwards, or that
it is broken.  Then
come the imports and the registration, one report each; the three looks at the
collector; the selection and the order of the spaces; and for each space the
alignment, which decides the mode, the validation, the gate and the files, format
by format, any of which may fail.  A build reads its `--formats` before its
source: an unknown word ends it, aliases are names of one format, and "all" ends the
list, whatever stands after it (`FormatsOf`, `CanStart`).  Every option that decides
something is part of the job: `--formats`, `--limit`, `--space`, `--skip-drc`, `--skip-continuity`,
`--force-export`, `--verify-only`, `--lock`.

What other phases find - which imports fail, how many definitions are duplicates,
whether the evaluation succeeds, whether a space breaks a design rule - is given
with the job: `ModuleImports`, `ComptimeVM`, `SpaceLowering` and `DesignRules` say
how they find it.  The continuity check is run in full on boxes of metal:
`Continuity` has the collection of pieces with what it leaves out (a list for each
kind of metal, one after the other: `Flat`), the welds, the bridges over contacts,
and Tarjan's components.  The union-find of the welds is kept by what `find` would
answer, the root of each piece (`Roots`); which node hangs under which is path
compression and decides nothing.  The islands come in any order, for the order is
that of a hash map (`IslandOrders`).  `strongconnect` calls itself; its run is
a machine of steps over an explicit stack of calls (`TarjanStep`: enter a node,
look at a neighbor, return), which takes `TarjanSteps` steps at most.
`Continuous`, the reference, is connectedness of the pieces themselves: however they
are parted in two, a piece of one part touches a piece of the other (`Linked`).

Left out: `export` in the parser (a prefix of an item, or a list of names), the
routes of the routing database, which nothing fills, and all printing.

### 2.7 DesignRules

A state is a moment of the check: the rules lowered from the profile (or `None`),
the number of the next part, what was found.  Each of the fifteen parts is an
action, run in the code's order; each is an operator giving its findings, with the
pairs it looks at, in its order, and the errors it raises, which end the check and
take the findings with them.  Coordinates are integers and boxes closed; a rounded
distance is compared by squares, with the rounding in the comparison (`Nearer`);
a density, a temperature or a coupling in the form that integers allow.

What a verdict promises is said by the points of the shapes and not by boxes:
`PoursKept` and `HolesKept` quantify over points, `JunctionsRated` over the regions
that hold all points of one, and `PairRulesKept` over the points of two layers.
Shapes without an area and holes without a depth, which the pipeline does not
exclude, are where the two views part: an extension is asked for past shapes with
an area only, and a space is `Sound` only without such shapes.

Left out: locations and wording; errors for a missing box, drill or material,
which the pipeline never leaves missing.

### 2.8 AigGraph, CellRows, Synthesis

The lowering recurses over a syntax tree; the model has the tree in the order in
which the recursion comes to it, and the recursion's stack as `edges` and `forks`
(the environments of open branches, over one graph).  Then each stage goes node by
node, register by register or instance by instance: simulation under any set of
samples, classes, merges, rebuilding, mapping, placement, rows, sites, check.  The
SAT search is its result.  `LogicMeaning` says what a block means, for every
valuation of its sources.

The lowering takes every expression the grammar has: what it has no arm for is the
constant 0, an operator without an arm is lowered as "and", and a sign is dropped.
Bit by bit a product is an "and" and a sign changes nothing, and `LogicMeaning` says
so; a comparison, or whatever stands in parentheses, means something else than it is
lowered to, and the blocks with them (`Misread`) go through every stage but are exempt
from `LoweredMeansSource` (section 3.3).  The other blocks are written without
parentheses.  A target `x.next` writes `x`; an expression
`x.next` reads an input of that name.

`CellRows` keys cells by their place in the netlist, where the code lists them row
by row.  The stable sort of a row is an order on its cells (`LeftOf`: by x, then by
place in the netlist), and the walk along the sorted row is a function of the cell
before (`Starts`): each cell on its site, or at the end of the `Previous` one.  The
sums of the placer are recursive functions (`Total`).  Both forms can be reasoned
about; the folds and sorts of the community modules cannot.  Lengths are integers of
any size: an overflow of `i64` is left out.

## 3. Runs

Every run is the module and the configuration named in `PROJECT.json`; for
instance `tlc -config MCSpaces.cfg MCSpaceLowering`.

| run | states | shows |
|---|---|---|
| `query_store` | 96 013 | memos are never stale, answers agree, `mark_stale` returns, the store implements `Memo` |
| `handles` | 30 306 | three threads: handles are distinct and resolve; only a clear keeps an allocation waiting |
| `comptime_programs` | 31 735 | 1 888 programs, from tokens to their outcome, end as their source means, the memory limit included; windows, callers' registers, termination |
| `comptime_match` | - | *violation*: a match expression takes an arm whose pattern differs |
| `spaces` | 298 609 | one space and two: ids mean one net to both numberings, links hold after every shape, lookups find what is there |
| `imports` | 18 457 | a build over four files ends, with no cycle, and its table and arena agree |
| `synthesis` | 111 415 | every stage keeps the functions, the checker is right, cells are legally placed |
| `synthesis_netlist` | - | *violation*: the cells of a verified result compute another function |
| `build` | 377 663 | the command succeeds on sound jobs only, exports what was let through and whole spaces; the parser advances; no false alarm of the continuity check |
| `continuity` | - | *violation*: a net in two pieces passes |
| `design_rules` | 471 328 | a space that passes keeps its rules, one that keeps them passes |
| `traces_apart` | - | *violation*: traces of two nets cross and the check passes |

### 3.1 Bounds, and why they are enough

- `query_store`: one file, an input, two routed cells, one verified cell, clock up
  to 4.  The graph has a chain of length three and a shared source, which is what
  separates direct from transitive invalidation; four ticks allow computing the
  chain and one invalidation, or an invalidation and a recomputation of one stage.
  The proofs do not have these bounds.
- `handles`: three threads (a clear, and two allocations that compete), two nets,
  four handles.  The proofs do not have these bounds.
- `comptime_programs`, `comptime_match`: `Family` picks the programs.
  *programs*: every pair of `break`, `continue`, `return`, assignment, `if` value,
  shadowing `let` and `assert` in the arms of an `if` or a `match`, in a loop and
  in a loop within a loop of three and two turns; recursion through functions and
  methods from 0 to past the limit, named and default arguments in several orders;
  tuples, structs, slices and arrays, with the errors of each; every pair of the
  18 binary operators over three operands in both groupings, each unary operator
  before and within each binary one, and ranges; arrays up to the quota of 6 and past
  it, in loops that end in every way, over calls and methods, one within another,
  beside pushes and slices, which are not charged; and chunks no source compiles
  to, that count and spin.  A pair of operators is
  what precedence and associativity are about.  `MaxDepth` 5 and windows of 2 and 1
  stand for 256, 64 and 32: a window smaller than a function's registers and one
  larger both occur.  No compiled program uses up the `Budget` of 401 units of
  fuel, and the chunk that spins does.
- `spaces`: two nets, three layers of which a space has two, two spots, at most
  three shapes per program.  `Programs` is a set of programs: one space; two equal
  spaces, with different nets, different layers, a net declared twice.  Three
  shapes are a pour, a contact or a device, and the route that must find its net,
  or two pours to choose between; or a device and two routes, so that two ports have
  different nets.  Among the devices one is crossed (P on Q and Q on P) and one has a
  terminal's name for a port, through a port that nothing lands on.
- `imports`: the built file, two files it imports, and one that those import, in
  2268 combinations of their contents: import lists of up to two (by name, all,
  a missing path), cycles of one, two and three files and through the built file,
  a file that does not parse, export blocks of own, private, foreign and unknown
  names, one name for two kinds.  Two names and a method suffice for one
  declaration over another.  Four files give a chain of three, a diamond, and a
  cycle the built file is not on.  The proofs do not have these bounds.
- `synthesis`, `synthesis_netlist`: blocks of one to three statements with branches
  of one arm, two, and nested, followed by reads of what they wrote; constants, one
  function in two forms, opposite subexpressions, a register, and the expressions the
  lowering has no arm for.  Every set of samples
  the simulation may have drawn, regions that fit and that do not, and each
  alteration of one root before the check.
- `build`, `continuity`: every source of up to four token classes under the limits
  0, 1, 2 and no limit (four are an item, its recovery, an attribute and what comes
  after); one source of two spaces under every combination of faults before the
  spaces, of options and what the spaces are, and of lists of formats (empty, with
  aliases, with "all" and an unknown word after it) and files that cannot be written; and one space with up to three pours in every order
  with a contact, a trace or a via.  Three pieces and a bridge are what an island's
  box can get wrong.
- `design_rules`, `traces_apart`: families of one to three shapes, one for each kind
  of rule, in every position on a die of eight by eight that a check tells apart,
  in both orders, on each layer of a stack of six.  `PoursKept` and `HolesKept` are
  proved without these bounds.

Deadlock is checked in `synthesis`, where a state without a step would be a panic.
It is not in the others: a program that has ended, a command that has ended, a
store at the bound of its clock and threads at the bound of the handles really
stop.

### 3.2 Fairness

- `mark_stale` is straight-line code in one call: weak fairness of its next step.
- Threads: strong fairness of `Continue(t)`, the step that takes a free lock.  The
  lock is `parking_lot`'s, which hands a lock over to a waiting thread eventually.
  Beginning a call is not fair: nobody has to call.
- The resolver: weak fairness of `Next`; `build_symbol_table` is sequential.
- The machine: weak fairness of `Next`; `run()` loops until it returns.

The build, the synthesis and the design rule check are stated without fairness:
their properties are of states and steps.

### 3.3 Disagreements found

Each `violation` run checks one sentence of the documentation or the code, and
TLC shows what the code does instead:

- `comptime_match` (`MatchPicksArm`): `README.md:395` says `match` is an expression;
  patching an arm's test replaces the register it tests by register 0.  The
  statement form keeps it, and `comptime_programs` covers it.
- `synthesis_netlist` (`VerifiedNetlistMeansSource`): `hwc-synthesis/src/lib.rs:45`
  says a verified netlist; the mapper makes a NAND2 of every gate, without the
  inversions of its edges, and the check compares the graphs before the mapping.
- `continuity` (`PassMeansContinuous`): `pivb/types.rs:97` says a net that passes is
  a single connected component; a weld keeps only the box around its members, and
  metal that meets in an L joins what lies in the corner.  Where boxes are tight
  the promise holds (`PassMeansContinuousWhenTight`).
- `traces_apart` (`TracesApart`): `clearance.rs:8` says clearances between all nets;
  the check queries an index that nothing on the build path fills.

Met on the way, in the models without a run of its own:

- *Handles.*  `handle.rs:59` says "Thread-safe"; `clear` and `allocate_handle` take
  two locks in opposite orders, and an allocation and a clear may wait for each
  other for ever.  `AllocationsReturn` says so much: an allocation returns unless a
  clear keeps it.
- *Spaces.*  `README.md:173` says a space declares its geometry; each space is built
  from all records of the program.  `devices.rs:117` says terminals are mapped to
  the nets of their ports; the table is overwritten while it is read, and crossed
  names end on one net, as does a terminal on P where P is itself a terminal on a
  port that nothing lands on.
- *Imports.*  `errors.rs:49` says "Circular import detected"; a failed import of an
  import leaves its importers on the stack (`mod.rs:87`), and the next import of one
  of them is reported so with no cycle in the files.  The first error is right
  (`FirstCycleIsReal`, proved).
- *Language.*  `README.md:593` says 8 levels of precedence; the code has 9.
  `expression.rs:63` calls comparisons non-associative; they chain to the left.
  `and` and `or` evaluate both sides.  `not a == b` is `(not a) == b`.
  `README.md:397`'s `if flag { 42 } else { 0 }` does not parse, since `flag { 42 }`
  reads as a struct; nor does a tail `match` with arms that are not blocks
  (`README.md:384`), since a `match` where a statement may stand is one.  `a[1..3]`
  parses as an index with a range, `a[1..]` does not parse, and a slice with a start
  is never built, though `README.md:417` uses one.  A default argument is compiled
  in the caller's scope.  A named argument before positional ones may leave a place
  unfilled, and the call is rejected.  `push` on a field or a temporary changes a
  copy; on an immutable array it is not rejected.
- *Limits.*  `README.md:361` gives 10 million evaluation steps where `sandbox.rs`
  has a base fuel of 100 million.  `sandbox.rs:47` means the memory quota to prevent
  "unbounded array growth"; only an array literal is charged, so an array grown by
  pushes, or made by a range or a slice, is bounded by the fuel alone.  The runs have
  such programs, and their meaning is that they go on.  `--limit 0` drops every report, so the parser
  stops at once and any source passes.
- *Synthesis.*  `lower_expression` lowers an operator it does not know as "and"
  (`hwc-synthesis/src/lib.rs:378`: `<`, `>`, `+`, `-`, shifts) and an expression it
  does not know as 0 (`:385`), without an error, so a block that uses one is
  synthesized to another function.  Among these is an expression in parentheses,
  which the parser keeps as a node of its own (`parser/expression.rs:340`):
  `a & (q | b)` is lowered as 0.  The run `synthesis` has both kinds (`Misread`), and
  without the exemption `LoweredMeansSource` fails at the first of them.
- *Build.*  No part reports a warning, so `--deny-warnings` decides nothing.  The
  recovery does not stop at `const`, `impl` or an attribute.  With `--force-export`
  the lockfile is saved of spaces that failed, against `mod.rs:175` ("ONLY after
  validation passes").  Contact pieces that do not conduct bridge as well
  (`continuity.rs:52`).
- *Design rules.*  Traces of the pipeline carry a current of 0, so electromigration
  and temperature never fire; the technology is always `Asic`, so the annular ring
  is never checked; the distance to a tap is always unset, so it is not either.
  Crosstalk looks only at nets whose name contains "Clock".  A rule of an unknown
  type becomes an enclosure, one with no distance is dropped.  The junction check
  takes containment where `junction.rs:4` says "overlapping or adjacent".  A via
  that no pour of its net overlaps passes the landing rule.

## 4. Proofs

`tlapm` checks every leaf: SMT (Z3), Zenon, and LS4 for the temporal steps.  The
assumptions are the named `ASSUME`s of the modules, which TLC evaluates in the
runs: query ids are pairs and triples, derived queries only have dependencies;
chunks are well formed (registers below `max_registers`, jumps inside the code) and
limits are numbers; programs are non-empty sequences of spaces; the bound of the
handles is a number and no thread or net is "nobody" or "none"; boxes have a corner
before the other, diameters are not negative, layers have a material, a potential or
a rating is a number or none, a device has finitely many terminals and ports; a job's
source is a sequence of tokens, there are facts for each of its spaces, and its metal
is lists of shapes with integer coordinates (`JobsTyped`), as is the enclosure of the
technology (`EnclosureTyped`); the region of a synthesis is four
integers (`OptionsTyped`); the code of a logic block takes no more from the stack than it has
put there and closes only branches it has opened (`ProgramsTyped`); files and names
are finitely many, and what has no name or no kind is none of the kinds.

### 4.1 `QueryPipelineProofs`: any files, cells, queries, dependency graph, clock

`TypeCorrect`, `MemoInvariant`, `FreshMemoTheorem`, `AnswersAgreeTheorem`,
`MemoRefinement`.

`FreshMemo` speaks of dependencies at any distance and is not inductive.
`MemoInv` is: no stored time is ahead of the clock, a live memo is younger than
the last change of each query it uses *directly*, and what a live memo uses is
itself live and older (`Layered`), so freshness passes along any chain.  That a
running `mark_stale` keeps `Live` still - a visit removes from the table what
`Live` already left out, and pushes what `Affected` already counts - is lemma
`VisitKeepsLive`, the heart of both the invariant and the refinement.
`Affected` is the least closed set rather than a recursive definition, so that it
can be reasoned about without induction.  The theorem holds for cyclic graphs
too; that `mark_stale` *ends* does not, and is TLC's, for the acyclic ones.

### 4.2 `NetLookupTableProofs`: any threads, nets, bound of the counter

`TableInvariant`, `HandlesAreDistinct`, `HandlesResolve`.

`Inv` says who holds which lock while it waits for the other (`LocksHeld`), so that
at most one thread has a handle in hand and no clear is between its two steps
then; that such a handle lies below the counter (`TakenBelow`), as do all in the
table; and that a clear which has emptied the table has left nothing issued
(`ClearedFirst`) - which is what allows it to reset the counter in a later step
than it empties the table, with an allocation possibly in between.

### 4.3 `ComptimeVMProofs`: any well-formed chunks, any limits

`TypeCorrect`, `WindowsTheorem`, `CallersTheorem` and `DepthTheorem`, from
`MachineInvariant`.

A step stays in the running frame, enters a function or leaves one (`StepShape`);
the invariant is proved for the shapes.  `RegisterWindows` is the inductive core:
each window ends before the next begins, so a write inside the running window
cannot reach a caller, and a return's register lies inside the caller's.  It needs
`TypeOK` (a write must hit the vector) and conversely.

That chunks are well formed is a promise of the compiler, checked by TLC for every
compiled program (`ChunksWellFormed`), not proved.  That a run ends for memory exactly
when its source has written more than the quota is TLC's as well: it is part of
`CompiledMeansSource`, whose reference is recursive.

### 4.4 `SpaceLoweringProofs`: any programs, shapes, nets, layers

`TypeCorrect`, `DistinctHandles`, `NetlistConnected`, `WindowsApart`,
`NumberingsAgree`, `BindingsNamed` (that is `BindingsAgree`), `ContactsFindTheirPours`
(`NoStrayContact`) and `TerminalsOnTheirPorts` (`SeparatePortsKeepTheirNets`), from
`Invariance`.

`IInv` is a conjunction of parts, each about one piece of the state: `Control` (the
loop's position is within its list), `Records` (the lists are sequences), `Handles`
(ids are 1 .. n, one per name - why distinctness is inductive), `Finished` (as many
spaces as were built), `ShapesNamed` (a lowered shape carries the *emitter's* id of
its net), `Netlist` (the arena's links and the nets registered so far, in order),
`Numbering` (for aligned programs the emitter's ids are 1 .. n in the order of every
space) with `NetIdsAgree` and `BindingsAgree`, `Contacts` (what the contacts carry was
allocated, and none is lowered while pours are) and `Devices` (the bindings are named
and on their ports).

The numberings: the emitter's id of a name is its position, the space's net at that
position has that name, so the id means the same net to both.  For the bindings it
must also be shown that the table the nets go through only ever holds names the
emitter knows (`TableNets`).

The netlist: `ArenaOK` is preserved by each of its operations (`AddNetOK`,
`AddComponentOK`, `WithPinOK`), the last only because pins are added to the newest
component.

The contacts: a contact without a net has searched all the pours and met none, and
no pour comes later.  The case to exclude is a contact with an id that has no name;
ids are only ever allocated, never taken back, so there is none.

The devices: the walk over the terminals' ports is a recursive function of the order
of the hash map, and `WalkExists` gives its tables turn by turn, for any order.
`TableOnPorts` follows one terminal through it: the entry of its port stays what the
routes made it, since the only terminal that could overwrite it bears its name, and
then reads itself; so each turn of the terminal copies the right net.  The proof does
not go through when only the bindings' ports are required to be apart, and TLC has
the counterexample: a port that nothing lands on has no binding, but may carry
another net into the table.  `PortsApart` therefore speaks of all the device's ports.

### 4.5 `ModuleImportsProofs`: any files, whatever they import

`StackIsAPath`, `AcyclicWhenBuilt`, `FirstCycleReal`, from `Resolver`;
`LookupsAgree`, `NamesResolve`, from `TablesKept`.

`ResolverInv` says how the recursion stands to the files: each call is of the
import its caller has come to (`CallsFollow`), everything a caller has passed is
finished, for the built file until an error (`PastResolved`), a file is finished
after all that it imports (`FinishedInOrder`), and until an error the stack holds
nothing but the calls that run (`NothingLeft`).  So a built file's dependencies
are all finished, and of a cycle among finished files the first would import one
finished before it.  `CallsFollow` makes the stack a path of imports while nothing
has failed, so the first file found on it closes a cycle; after an error
`NothingLeft` is gone, and with it the claim.

`TablesAgree` is not inductive: the local layer hides the imported one, so a name
bound over must be known not to come to light later, and a re-export binds what an
*earlier* import put into the arena, found through the table.  `Tables` adds that
the local layer is empty until the imports are over, that what is found is a
declaration of the arena and the last of its name and kind, and that a declaration
which is not exported gets into the imported layer only where an export block names
it (`Disclosed`).  An import then appends to the arena exactly what it binds anew, in
order (`RegisteredIs`, by going through the names one by one: `Climb`).  A duplicate
of another kind replaces a name without harm because the evaluator looks by kind too.
`BoundSoFar` says that the names of every import the built file has passed are bound;
nothing takes a name out of the layer again.

### 4.6 `DesignRulesProofs`: any spaces, profiles, stackups, materials

`CheckInvariant`, `PassedPoursAreKept`, `PassedHolesAreKept`, `PassedRulesAreKept`,
`PassedJunctionsAreRated`, `NoSoundSpaceRefused`: every property that the run
`design_rules` checks.

The invariant is about the run: what the parts passed so far have found is in the
report (`Collected`), so that a pass means none found anything (`CleanFindsNothing`),
and nothing else is in it (`NothingElse`), so that a refusal means one did.  The rest
is geometry, in both directions.  From boxes to points: two boxes whose gaps,
rounded, are not below the spacing have no two points nearer than the rounding
allows (`SpacedBoxes`, `NotNearer`); a box enclosed by the required margin has that
margin at every point (`EnclosedIsCovered`); circles whose centres pass the test of
`DrillClearances` do not come near (`SpacedHoles`); and a rule looked at from one side
only holds from the other (`ApartEitherWay`, `RelatedEitherWay`).  From points to
boxes: the gaps of two boxes are the distance of two of their points
(`NearestPoints`), a covered box is enclosed (`CoveredIsEnclosed`), and boxes overlap
exactly if they have points between their edges in common, provided one has an area
(`OverIsOverlap`).  For the junctions, the potential taken is the largest of finitely
many (`LargestPotential`), the first region around another is one that holds it
(`WellIsAround`), and a check that does not fail has a rating and a body for each
(`BodyIsOne`).

The clearance rules are proved with the half unit of the rounding: 2d - 1, in half
units, is the distance kept; and what keeps 2d is not refused.

### 4.7 `BuildCommandProofs`: any jobs, sources, options, metal

`TypesKept`, `ParseIsRight`, `ParserAdvances`, `OnlyLetThroughLeaves`,
`ExportedWhole`, `VerdictRightly`; of the continuity check `OneComponent`,
`OrdersNeverMatter`, `AlarmsAreTrue`, `PassesAreContinuous`.

The invariant has five parts.  `Typed` gives the types.  `ReadRight` says that what
the parser has read accounts for the source: while nothing was reported, the items
so far followed by what the grammar reads from the position on are what it reads
from the start; once something was, the source is broken.  `FrontRight` says whose
the errors in the collector are: those of the running phase, since no phase is left
with one.  `SpacesRight` says of the spaces finished that each passed and that
exactly its files are written, and of the current one how far it has come.
`DoneRight` says what is left when the command ends.

That the parser agrees with the grammar is an induction over positions.  The
library's induction theorems cannot be used, but a set of positions has a least
element, which well-foundedness of the numbers gives: `Descend` proves for a set
what holds of a position when it holds of all later ones, and the lemmas about the
grammar (`ReadIs`, `PastSemicolonsIs`, `SynchronizeAdvances`, `AttributesAre`,
`ItemIs`) put themselves in its form.  `TurnKeeps` puts them together for one turn
of the loop.

The continuity check is proved from its lists up.

- *Welds.*  A function of positions, each value made of the one before, exists
  (`Recursion`), so the recursive functions of `Continuity` are known at each
  position.  By `Climb`, the other direction of `Descend`, what welds has one root
  and no root crosses a part that no weld crosses (`RootsAre`): the groups are
  exactly the classes of the welds.
- *Bridges.*  A contact bridges only neighbors in height.  From the lowest island it
  meets a chain of bridges leads to every other (`BridgesClimb`), by the least
  island not yet reached, so a part that no bridge crosses parts none of the islands
  of a contact (`BridgesHold`).
- *Components.*  `OneComponent`: the run ends, and its result is one component if and
  only if every parting of the nodes is crossed by an edge.  The invariant of the
  machine (`TarjanInv`) says that the calls climb in index, each from a node to a
  neighbor that may still lower its low link to the caller's (`Callers`), and that
  everything on the stack was entered after the first call, low links included
  (`Rooted`).  Since neighbors are so both ways, a deeper call has looked back at its
  caller before it returns and never ends a component: only the first call does, and
  empties the stack (`ReturnsRoot`).  So what is entered until the first component is
  complete stays on one side of every part that no edge leaves (`StepParted`), and if
  every part is left, it is everything (`StepTogether`).  `Measure`, what is left to
  look at, to enter and to return from, falls with each step, hence the bound of the
  steps (`RunEnds`).
- *The verdict.*  A net fails if and only if its groups fall in two parts that nothing
  joins (`NetVerdict`), which does not mention the order of the islands: hence
  `OrdersNeverMatter` (there are orders, and all fail the same nets), and the verdict that `SoundSome` states for the order taken is
  the one that `Sound` states for all (`OrdersDecide`).  `AlarmsAreTrue` reads that
  parting as one of the pieces: no weld crosses it, since groups are whole, and no
  contact, since a box around the members touches what a member touches.
  `PassesAreContinuous` goes the other way, and needs what the `continuity` run shows
  to be needed: that the boxes touch no more than their members do, and that what
  bridges conducts, so that it is a piece too (`ContactIsPiece`).  It also takes that
  the enclosure does not shrink a contact (`Enclosure >= 0`).

For these two the state at the gate has a second invariant (`AtTheGate`): the
violations are what the checks find of the current space for some order of the
islands, and the parser has made no more spaces than it has passed `space` tokens
(`SpacesRead`), so that the job tells of each, also where the limit 0 drops the
errors of a broken source.

### 4.8 `SynthesisProofs`: any logic blocks, samples, options

`ArenasKept`, `ReductionIsSound`, `CheckerIsRight`, `PlacementIsLegal`.

The invariant says of both graphs that they are in form (`GraphOK`: fanins before
their nodes, no gate that a rule would fold, no two alike), and of the pieces of
state outside them that their edges are edges of the graph: the stack, exactly as
deep as the code that was read makes it (`StacksOK`), and the names, which no input
shares with a register (`ScopesOK`) while registers of one name have one next state
(`NextsOK`).  For the
reduction, a node and the edge it was replaced by have one value under every
assignment (`ReplOK`); during the rebuild, so have each node passed and the edge it
was mapped to (`RebuildOK`); after it, so have the outputs and next states
(`ReducedOK`).

A graph's values are a recursive function over its nodes.  That making a gate
gives the value it is named for, whichever rule folds it, and that a larger graph
gives old nodes their old values, are again inductions by the least node that
fails (`LeastIndex`, `Climb`).  Nothing is assumed of the samples: the candidates
they propose are merged only when proved equal, and that is all the proof uses.

For the rows a second invariant (`CellsInv`) follows the cells: the netlist has
cells of the catalog, what is placed is its beginning, within the region's width,
and what is legal is the legalization of all of it.  It needs the first one for the
registers that become flip-flops.  That a bound on x is kept is what makes the order
of a row well-founded (`RowEnds`), although the cells lie in no order in memory:
what holds of a cell when it holds of those to its left holds of the row
(`Rightward`).  By it the recursion of `Starts` has a solution (`StartsAre`), every
cell starts on a site, and after the end of all to its left, not only of the last
(`RowPacked`).  The proof covers regions below 0; of the catalog it takes that each
cell is a whole number of sites wide (`WidthIs`).
A cell may be pushed past the right edge of the region: nothing in the code
prevents it, and nothing is claimed.

### 4.9 Only model-checked

- *Liveness*: `MarkStaleReturns`, `AllocationsReturn`, `Terminates`,
  `ResolutionEnds`.  (That the parser's loop ends follows from `ParserAdvances`.)
- *Recursion over trees*: the parser of comptime code, the compiler and the meaning
  (`CompiledMeansSource`); the meaning of a logic block (`LoweredMeansSource`).
  Their references are RECURSIVE operators.

## 5. Plan

Done, in the order it was built: the query store; the handle table; the comptime
compiler and machine; the netlist and the lowering of spaces; the imports; the
synthesis; the build command with the parser's top level and the continuity check;
the design rules; the parser of comptime code, composed with the compiler and the
machine.  Each has its runs and its proofs, but for the comptime parser and compiler.

Left, most useful first:

1. `DesignRules` driven by the spaces that `SpaceLowering` makes, instead of spaces
   given with the job.
2. The cells, merge and entity graph of the geometry router, once a command routes.

## 6. Not modelled, and why

- *Geometry router, cell sweep, entity graph, routing database.*  `route_space` has
  no caller outside the engine.  What a model would say is known from the code:
  nets across cells are routed in threads over empty graphs and registered in order
  of their ids; a failure leaves the earlier ones registered (`engine.rs:266`);
  results within cells are merged without registration; nets whose pins lie in no
  cell are dropped.
- *Route lockfile.*  Code that does not run: the save is empty and no command reads.
- *Constraint manager.*  Tables of numbers, with no order of steps to go wrong.
- *Standalone router, placement heuristics.*  Heuristics over grids without a stated
  promise; nothing in the build calls them.
- *Datapath rewriting* in `hwc-synthesis`: not called by `synthesize_logic_block`.
- *Numerical solvers of physics*, thermal and electromigration formulas as floating
  point: out of TLC's reach.
- *Export, materials, types, standard library.*  Writers and tables.  The exporters
  appear in `BuildCommand` as files that are written or fail.
- *Lexer, and the grammar of items other than functions.*  Pure functions from text
  to trees with no choice that a property here is about.

`PROJECT.json` gives the reason for each component.
