# A TLA+ model of SOAAP

SOAAP (`src/soaap`) is an LLVM pass that checks how a C program is
compartmentalised. The programmer annotates the program (`src/include/soaap.h`):
which functions are sandbox entry points or callgates, where sandboxes are
created, which globals they may touch, which system calls they may make, which
data is classified or private, which code is vulnerable. SOAAP finds the sandboxes,
builds a call graph that distinguishes calling contexts, runs data-flow analyses
over it and warns where the annotations and the code disagree. In its other
mode it instruments the program so that, at run time, a second process
(`src/include/soaap_perf.h`) costs what a real sandbox would.

## 1. The system

Everything but the performance-emulation run time is a sequential program over
one LLVM module. What is hard in it is not threads but order: worklists keyed by
sets of pointers, whose order changes between runs of the tool; caches filled
before, and read after, the data they are computed from has changed; analyses
that add call-graph edges while others depend on them; recursions cut short by
visited-sets. The models let a worklist be emptied in any order and let a set be
visited in any order, so that a property that holds in them does not depend on an
order the code does not fix.

| Component | State | Operations | Interacts with | Hard | Correct when |
|---|---|---|---|---|---|
| Pass driver (`Soaap.cpp`) | options, the phase | `processCmdLineArgs`, `runOnModule` | everything, in order | combinations of options; facts of one phase stale in a later one | the checks asked for are made, once, or the pass stops for a known reason |
| Finding sandboxes (`Util/SandboxUtils`) | sandboxes, name bits, regions, privileged methods | `findSandboxes`, `recalculatePrivilegedMethods`, `reinitSandboxes` | call graph (both ways) | sandboxes are made before the call graph exists and refreshed after each change | cached memberships equal reachability in the current graph |
| Sandbox (`Common/Sandbox`) | members, calls, globals, callgates, capabilities, creation points, limits, private data | `init`, `reinit`, queries, `validateCreationPoints` | call graph, contexts | caches; the recursion over creation points | as above; entry-point calls come after creations |
| Call graph (`Util/CallGraphUtils`) | four edge maps, per context; shortest-path caches | `buildBasicCallGraph`, `addCallees`, `getCallees`, `getCallers`, `isReachableFrom`, trace search | contexts, sandboxes, FP targets | context of an edge found late; caches of paths outdated by new edges | maps are mutually inverse; every reachable call has been looked at |
| Contexts (`Util/ContextUtils`) | the single contexts | contexts of methods, instructions, callees, callers | sandboxes | a callgate changes the context of what it calls | callee and caller contexts agree |
| Data-flow engine (`Analysis/CFGFlow`) | facts per instruction, worklist | `doAnalysis` | call graph | cyclic propagation, change detection | the least fixed point, for every order |
| Global variables, system calls | reports | seeds, reports | data-flow engine | suppressed repetitions | each disagreement reported, nothing else |
| Information-flow engine (`Analysis/InfoFlow`) | facts per context and value, worklist | `doAnalysis`, propagation per kind of value | call graph, contexts | context switches at calls and returns; aggregates | the least fixed point per context |
| FP targets | targets per context and pointer | annotated and inferred targets | adds call-graph edges while it runs | new edges change sandboxes and contexts under a running analysis | every edge found, every cache refreshed |
| Access origin, classified, private, capability, declassifier | reports | seeds, reports | information-flow engine | meet instead of join | as for globals |
| RPC graph | senders, receivers, handlers | build, dump | call graph | senders and handlers in different sandboxes | each message linked to its recipient and a handler there |
| Vulnerability analysis | reports | one pass | sandboxes | ambient authority per platform | each leaked right reported |
| Privileged calls, sandboxed functions | reports | one pass each | call graph, sandboxes | several annotations of one function; callgates | every misuse reported, nothing that is allowed |
| Class hierarchy (`Util/ClassHierarchyUtils`) | classes, offsets of bases, places of sub-tables, callees per call | `findClassHierarchy`, `getCalleesForVirtualCall` | call graph | repeated and virtual bases, thunks (also those that adjust the result of a covariant function), tables that are not there | a virtual call has the callees C++ gives it |
| Creation-point validation | visited, trace, reports | `validateCreationPoints` | call graph | early returns, visited-set | no uncreated entry call missed |
| Performance instrumenter | the module rewritten | `instrument` | run time | which entry call for which annotation | the protocol is respected |
| Performance-emulation run time | two processes, a socketpair, a buffer each | enter, callgate, leave, exit | the kernel | split and merged reads, full sockets | requests answered, no byte left over |

`PROJECT.json` lists every component with its sources, and the hazards at the
lines where they bite.


## 2. The modules

| Module | Models | Composed with |
|---|---|---|
| `CFGFlow` | `CFGFlowAnalysis.h`, the engine: facts per instruction, a worklist of blocks | implements `ReachingFacts` |
| `ReachingFacts` | what such an analysis promises: facts are raised or follow control flow, none is given up, the answer is complete | abstract |
| `GlobalVariables` | `GlobalVariableAnalysis.cpp`: seeds, `postDataFlowAnalysis()` | extends `CFGFlow` |
| `SysCalls` | `SysCallsAnalysis.cpp`: seeds, platform override, `postDataFlowAnalysis()` | extends `CFGFlow` |
| `FlowAnalyses` | the two analyses, each on an engine of its own | extends both |
| `Sandboxes` | `SandboxUtils::findSandboxes()`: annotations, names and bits, regions; `Sandbox::init()` and `reinit()`; the privileged methods | |
| `CallPaths` | reachability, shortest paths and their cache, call traces in `CallGraphUtils` | extends `Sandboxes` |
| `Checks` | the pass as a whole: options, order, and the checks without data flow (RPC graph, vulnerabilities, privileged calls, sandboxed functions) | extends `CallPaths` |
| `CallGraph` | `CallGraphUtils::buildBasicCallGraph()`, `addCallees()`, the memberships that `Sandbox` and `SandboxUtils` cache, the contexts of instructions and callees, and the order of phases in `runOnModule()` | `Sandboxes` starts from the graph it builds |
| `ClassHierarchy` | `ClassHierarchyUtils.cpp`: tables from `type_info` and virtual tables, the callees of a virtual call | `CallGraph` takes these callees as an input |
| `InfoFlow` | `InfoFlowAnalysis.h`, the engine, with `ContextUtils` and what `FPTargetsAnalysis` adds to it: facts per value and context, uses, calls and returns, merging of contexts, rewinding to aggregates, new call-graph edges | takes the graph `CallGraph` builds |
| `Analyses` | the eight analyses on that engine, from `initialise()` to `postDataFlowAnalysis()`: access origin, classified, sandbox-private, both capability analyses, declassifier, annotated and inferred function pointers | extends `InfoFlow` |
| `CreationPoints` | `Sandbox::validateCreationPoints()` | |
| `PerfEmul` | `soaap_perf.h` (persistent sandbox, callgates) and the entry calls that `PerformanceEmulationInstrumenter` inserts | |
| `FlowAnalysesProofs`, `CallGraphProofs`, `ClassHierarchyProofs`, `ChecksProofs` (with `Sandboxes` and `CallPaths`), `InfoFlowProofs`, `AnalysesProofs`, `CreationPointsProofs`, `PerfEmulProofs` | theorems | extend the above and `TLAPS` |
| `MC*` | the small programs TLC is given | extend the module they are named for |

**The program is an input.** Every module but `PerfEmul` models an analysis of a
program, so the program under analysis is a constant-like variable `prog`, chosen
in `Init` from the constant set `Programs` and never changed; `WellFormed`, assumed
of every member, says what LLVM and SOAAP's own annotation checks guarantee. A
program is a record of the few relations the code asks LLVM for (blocks and their
successors, callees of a call, entry points of a sandbox); `ClassHierarchy` gets the `type_info` structures
and virtual tables that a compiler leaves, which `MCClassHierarchy` builds from classes as the
Itanium ABI says. Blocks, functions,
calls, sandboxes and facts are model values or strings.

**Control is kept, data abstracted.** One action is one step of the code that leaves
the state as the next step finds it. In `CFGFlow` these are `initialise()`, dequeuing
a block, one instruction of its body (with its propagation to callees or callers)
and the end of a block; an instruction is a step of its own because a call or return
in a block may change the very states that the block is still reading. In
`CallGraph` it is one element of the worklist, and `addCallees()` with the refresh that
follows it is one step (`AddTargets`), as no analysis looks in between. In
`InfoFlow` it is one dequeuing, one user, or one call of `propagateToValue()`: a user that
propagates to several pairs leaves a set of `jobs`, and the recursion of
`propagateToAggregate()` is a stack of tasks, `rewind`, with its visited-set. In
`CreationPoints` the C++ recursion is an explicit stack, one frame per invocation of
the helper. In `PerfEmul` a step is one `read()` or `write()`, cut where the kernel
may cut it. In `Sandboxes` the walk over a region is a stack of frames, one for each
invocation of `findAllSandboxedInstructionsHelper()`; an annotation, a sandbox made, an edge added
with all its refreshes are one step each. In `CallPaths` a trace is a query taken from `asked`, one
step for each source looked up (and calculated, if nothing is cached), and one that reads the
cache and numbers the trace. A check of `Checks` is one step: nothing else runs in between. In
`ClassHierarchy` it is one class, one call, or one class visited for a call.

**Order is left open** where the code does not fix it: containers keyed by pointer
(`QueueSet`s filled from them, `CallInstSet`, `FunctionSet`) are sets from which any
member may come next. So are the users of a value in `InfoFlow` (their order is that of
the use list, which the program does not fix either; a user that uses the value twice
is looked at once, as the second time changes nothing) and the callees of one call.

State and actions against the code:

| Module | Variables | Code | Actions | Code |
|---|---|---|---|---|
| `CFGFlow` | `state`, `worklist` | the members of `CFGFlowAnalysis` | `Initialise`, `Post` | `initialise()`, `postDataFlowAnalysis()` |
| | `cur`, `pos`, `entryBB`, `oldTerm` | locals of `performDataFlowAnalysis()` | `Dequeue`, `Instruction`, `Successors` | its loop; `Propagate` is `updateStateAndPropagate()` |
| `GlobalVariables` | `accessWarnings`, `lostUpdates` | what is printed | `GPost` | both loops of `postDataFlowAnalysis()` with `alreadyReported` |
| `SysCalls` | `sysCallWarnings` | what is printed | `SPost` | `postDataFlowAnalysis()` and `allowedToPerformNamedSystemCallAtSandboxedPoint()` |
| `CallGraph` | `callToCallees`, `calleeToCalls`, `funcToCallees` | the maps of the same names, keyed by context | `NextContext`, `Skip`, `LookAt` | `buildBasicCallGraph()`, `buildBasicCallGraphHelper()` |
| | `ctx`, `todo`, `worklist`, `processed` | its loops and locals | `CalculatePrivileged`, `ReinitSandboxes` | `getPrivilegedMethods()`, `reinitSandboxes()` |
| | `functions`, `privileged` | `functionsVec` of each `Sandbox`, `privilegedMethods` | `AddTargets`, `EndPointers` | `stateChangedForFunctionPointer()` with `addCallees()`; the end of `loadAnnotatedInferredCallGraphEdges()` |
| `InfoFlow` | `state`, `known` | `state`: the facts, and which entries the maps have (reading a `DenseMap` makes one) | `MergeContext`, `Merged`, `Finish` | the merging and unmerging of contexts |
| | `worklist`, `cur`, `uses` | the loop of `performDataFlowAnalysis()` and its locals | `Dequeue`, `Use...` | one branch per kind of user |
| | `jobs` | calls of `propagateToValue()` a user leads to | `Propagate` | `propagateToValue()`, both of them |
| | `rewind`, `visited` | the recursion of `propagateToAggregate()` | `RewindWrite`, `RewindVisited`, `RewindStorage`, `RewindValue` | its branches |
| | `callees`, `members` | the call graph; `functionsVec` and `privilegedMethods` | `UsePointer` | `stateChangedForFunctionPointer()`, `addCallees()` |
| | `inContextCallers` | the cache of the same name | `UseArgument`, `UsePointer` | `getCallersInContext()` |
| `Analyses` | `reports`, `reported` | what is printed | `PostDataFlow` | `postDataFlowAnalysis()` of each; `initialise()` of each is `Seeds` |
| `Sandboxes` | `at`, `entryOf`, `entryPoints`, `marks`, `toMake` | the maps of `findSandboxes()` and its loops | `EntryAnnotation`, `RightsAnnotation`, `OtherAnnotation`, `MakeFunctionSandbox`, `MakeReferenced` | its loops over annotations and names |
| | `walk`, `warned` | the recursion over a region, and its warning | `StartRegion`, `WalkSuccessor`, `WalkReturn`, `EndRegion` | `findAllSandboxedInstructions()` and its helper |
| | `names`, `sandboxes` | `sandboxNameToBitIdx`, the vector of sandboxes | `SetUp`, `ReinitSandboxes`, `AddTarget` | `runOnModule()`, `reinitSandboxes()`, `addCallees()` |
| | `graph`, `privileged`, `info` | the edges by context, `privilegedMethods`, the members of each `Sandbox` | | |
| `CallPaths` | `cache`, `traces`, `traceIds`, `asked`, `asking` | `funcToShortestCallPaths`, what is printed, the numbers of traces, the query in progress | `BeginTrace`, `LookUp`, `EmitTrace` | `emitCallTrace()`, `findSandboxedPathToFunction()`, `insertIntoTraceDAG()` |
| `Checks` | `setting`, `ran` | the options once processed, the phases gone through | `ProcessCmdLineArgs`, `PassOver`, `DataFlow`, `InfoFlowAnalyses`, ... | `processCmdLineArgs()`, `runOnModule()` |
| | `links`, `drawn`, `leaks`, `privCalls`, `misplaced` | `rpcLinks`, edges of the drawing, what is printed | `RPC`, `Vuln`, `PrivCalls`, `SandboxedFuncs` | `RPCGraph::build()` and `dump()`, `doAnalysis()` of each check |
| `ClassHierarchy` | `classes`, `subclasses`, `baseOffset`, `vbaseOffset`, `subtables`, `callees` | the static maps of the class | `ProcessTypeInfo`, `ClassesFound`, `BeginCall`, `CallsFound` | `processTypeInfo()`, `findClassHierarchy()`, `cacheAllCalleesForVirtualCalls()` |
| | `walk` | the recursion over subclasses | `VisitClass`, `EndCall` | `findAllCalleesInSubClassesHelper()` |
| `CreationPoints` | `stack`, `ret` | the C++ stack and return value | the instruction, callee and successor steps | `validateCreationPointsHelper()` |
| | `visited`, `trace`, `errors` | its parameters, its reports | | |
| `PerfEmul` | `ppc`, `chunks`, `want`, `front`, `inSandbox` | the parent: what it is in, what is left of its loops, its buffer, `in_sandbox` | `Enter`, `Callgate`, `Leave`, `Close`, `ParentWrite`, `ParentRead`, `Wait` | the `soaap_perf_*` functions |
| | `spc`, `sbuf`, `left` | the forked child | `BoxRead`, `BoxChew`, `BoxSend`, `BoxEof` | `soaap_perf_create_persistent_sbox()` |
| | `toBox`, `toParent` | the socketpair | | |

## 3. The runs

Seven runs must pass; between them they take every action. Five show disagreements
(section 6). Invariants of one run share its state space.

| Run | Question | Bounds, and why they are enough |
|---|---|---|
| `cfgflow` | Does the engine end with the least solution, in every order, and do the reports say exactly what annotations and control flow say? (`ImplementsReachingFacts`, `FlowComplete`, `WorkPending`, `LostUpdatesExact`, `AccessesReported`, `ReportedUnlessAllowed`, `Terminates`, `TypeOK`) | For the engine: two functions of two blocks, two facts, every combination of branch, loop, self- and mutual recursion, calls with two callees, entry point or not. Propagation involves at most two blocks or a call and its callee at a time; a fact met again while a block is in progress needs a loop or a recursion, both present. For global variables: two sandboxes (one created in `main()` or in the callee), two globals, one external; Pedantic on and off; two writes in `main()` and two reads in `f()`, of one variable or of two, so that suppression has something to suppress and something it must not. For system calls: two annotations of overlapping allowance in one sandbox, a loop around them, a shared callee, a library function in the annotation, with and without platform. The proofs remove the bounds. |
| `creation` | Does the walk end with its trace intact, print only chains of calls that can happen with no creation before, and answer "all paths create" only when they do? (`TraceMatchesStack`, `ReportsReachable`, `TrueMeansCreated`, `Terminates`) | Five shapes of `main()` (both orders of a diamond, a loop, early return), two of `f()`, calls with two callees, recursion, external callees. |
| `callgraph` | Do edges, cached memberships and contexts stay consistent while the graph is built and grows? (`MapsAgree`, `CachesCurrent`, `AsWritten`, `EdgesInContext`, `MembersStay`, `Terminates`) | Six functions, one a declaration; three contexts; a second sandbox that is a function, a region in `main()`, a region in a called function, or only referred to; recursion through any of them; one call through a pointer with two candidates in every context. Contexts interact only through a shared callee or an entry point, which three are enough for. |
| `infoflow` | Do facts go where the program makes values flow, and nowhere else, in every order; do the reports follow them? (`FlowComplete`, `NoSpuriousFact`, `TargetsExact`, `MustBeSound`, `ReportsFollowFacts`, `EscapesReported`, `RightsGranted`, `Terminates`, `TypeOK`) | For the engine three programs, each with several seeds, as a may and a must analysis, with and without contexts: `Shared` (a function called from `main()` and from a sandbox, recursive, with a loop through a phi, stores, loads, binary operators), `Aggregate` (an object passed to a sandbox and to a function that stores into it; `select`, casts, a library function, variable arguments, class methods), `Pointers` (calls through pointers found while the analysis runs, in both contexts). For the analyses: `Passing` (two sandboxes; what one keeps goes out by each way there is: global, member, callgate, environment, function without body, the other sandbox, result), `Descriptors` (rights by argument, annotation, key and merge, with and without platform), `Declassifying`, `Targets` (functions annotated, stored, selected, passed on, or in an object that callers pass on, one after another). Contexts interact through a call or a shared function, two at a time. |
| `checks` | Are sandboxes what annotations say, does what they know follow the graph, and do the checks report what they should, whatever the options? (`RegionsAsMarked`, `BitsNameSandboxes`, `InfoCurrent`, `TracesLead`, `AsConfigured`, `LeaksReported`, `MisuseReported`, `MessagesLinked`, `Stops`) | One base program (a function-level sandbox, a region, a shared callee, a call through a pointer) and about forty variations of it, one feature at a time: seven shapes of region, a second region of the same name, two entry points, marks and creations, targets found late in either order, messages to a sandbox, a region and nobody, relayed and received by the first instruction of a function, restrictions, vendors and libraries, fifteen command lines. Annotations and checks read each other's results only by name or function, which one of each shows. |
| `classes` | Does a virtual call get the callees C++ gives it? (`VirtualCalleesExact`) | Diamonds of six classes with each base virtual or not (so that one class is a base twice, or once virtually), second bases, a virtual base with bases of its own, overriding at every level, covariant functions that override one of a first, second, repeated or virtual base (the callee may then be the thunk, which the code does not look into), thunks with and without body, pure functions, tables that are in another module, calls after a downcast; all calls that name lookup allows. A path of two virtual bases and a call that is no virtual one end the pass, as the code says. |
| `perf` | Do parent and sandbox stay in step? (`InStep`, `WaitingRequestsAnswered`, `SandboxExits`) | `MaxCalls` = 3 calls, entries and callgates together (what a call leaves behind in the sandbox's buffer shows in the ones after it), `Hdr` = 2 bytes of control message, `Buf` = 4, `Cap` = 8: the header may be cut, data may fill one buffer, end short of a header in the last one, or take three, and the socket may be full in both directions. `Garbage` bounds the lengths that misplaced bytes are read as. |

The type invariant of the two engines is checked with the run, that of `CallGraph` is only
proved. `CHECK_DEADLOCK FALSE` stands in every configuration because
every modelled program really stops: the analysis is done, or both processes have
exited. (In `PerfEmul` the two may also wait for each other for ever, if a request that
nobody waits for was sent before. That is what `WaitingRequestsAnswered` and
`RequestsAnswered` are about.)

The properties are stated about the program, not about the state of the analysis:
`Leads` (control can lead from an annotation to an instruction), `Written` (functions
that direct calls reach from where a context starts), `ReachedFrom` and `Escaping` (blocks that
control can come to, and leave their function from, past no creation), `Flows` (where the program makes a value of a context flow), `Inside` (what
control can reach between the ends of a region) and `FinalOverriders` (which function overrides
another last, by the paths to subobjects and without any table) are defined
from the program record and the call graph, and the reports, maps and facts are compared
with them.

`InfoFlow`'s properties have guards, each for something the engine does not do:
`FlowComplete` is about programs whose call graph stays as it is (to the parameters of a
callee found late the engine passes the facts of the called pointer, not those of the
arguments) and in which no call has one value for two parameters (only the first
position is looked at); `Flows` goes back from a function only to callers in the same
context (section 6); a binary operator passes nothing on, as its comment says, and what its
result had is taken away;
without contexts it says nothing about calls, whose callees are then unknown: the call graph
has no edges in `SINGLE_CONTEXT`, so that facts stay inside a function.
`EscapesReported` is about sandboxes all of whose functions are looked at and whose data is
`Confined`: it starts there, the functions call directly, those that call there run nowhere else,
and neither do the methods that share `this` with an object it comes to; and it comes to no function
value and to no result of a binary operator (which drops it, after it may have gone on). Otherwise
facts leave by ways on which nothing is reported, such as the result of a function that two contexts
share. Of a file descriptor that is a constant
`RightsGranted` looks at the annotation of the key. `TracesLead` judges traces of sandboxes
that `main()` leads to and of whose entry points one context only starts its paths
(`Unambiguous`): the cache is keyed by function alone.
`MustBeSound` is about functions called in one context, as
`getCallersInContext()` keeps the callers of the first context it is asked for, and not about values
whose facts come in another way too (`Given`): from a seed, or from a store behind them, which even a
must analysis joins (`propagateToAggregate()`). `TargetsExact` is about calls that are in their context
from the start (`FromTheStart`): one that enters it with a new edge is not looked at until a fact
reaches its pointer. That a use is reported if a seed reaches it, the second half of
`ReportsFollowFacts`, is judged where `FlowComplete` is, with contexts told apart (merged ones lose
facts of a value that is annotated twice), and along chains of pairs that are enqueued: what
`initialise()` only assigns (`silent`) passes nothing on.

## 4. Fairness

An analysis is a sequential function of one thread: once called it keeps executing
until it returns. That is `WF_vars(Next)`: some step is taken as long as one can be.
Which step is left open, so `Terminates` says that no order of the worklists makes
the code run forever.

`PerfEmul` has two processes that the kernel schedules, each blocked only in
`read()`, `write()` or `wait()`: weak fairness of the parent's I/O (`ParentIO`) and of the
sandbox (`Sandbox`). The parent's own code is not obliged to make another call, to
leave a sandbox or to return from `main()`: `Enter`, `Callgate`, `Leave` and `Close` have no
fairness. A blocking call that nothing will ever complete is not enabled, so that
fairness does not rescue a deadlock.

## 5. What is proved

For every set of programs that satisfies `ProgramsAssumption` (each is `WellFormed`; in `Sandboxes`
it is spelt out), of any size, and every set of facts; for the reports also `GlobalsAssumption`,
`SysCallsAssumption`, `ReportsAssumption` and `AnalysesAssumption`, which say what the fields they
read are (`ReportsAssumption` also that entry points are functions, which `SandboxUtils.cpp:149` demands;
the last one also which of the analyses meet and which one tracks pointers), and
`OptionsAssumption`: operating system and platform are among those the command line takes. For
virtual calls `HierarchyAssumption` says what a class hierarchy is (finitely many classes, none its own
ancestor, a direct base named once), and `TablesAssumption` what the C++ ABI has the compiler lay out: an object's
subobjects at offsets that add up along bases that are not virtual, a sub-table for each subobject that is called on
or has virtual bases, with the places of those bases and, for each function, the one that overrides it last or a thunk of
that one (any of the three kinds, with or without body; a thunk is for a function that is none itself). It names the
offsets (`at`), which no action reads. TLC evaluates all of them on the programs of the runs.

| Theorem | States | Argument |
|---|---|---|
| `FlowAnalysesProofs!TypeSafety` | `[]TypeOK` | inductive with `prog \in Programs` |
| `FactsGrow` | no step takes a fact away | each action joins; `initialise()` assigns, but to states that are still empty (`FreshInv`) |
| `SpuriousFree` | `[]NoSpuriousFact` | for a fact and a set of instructions that holds its seeds and is closed under control flow: what is in `state`, and in `entryBB` while the block is processed, is in the set |
| `PendingCorrect` | `[]WorkPending` if every program satisfies `NoBareEntry` | see below |
| `Complete` | `[]FlowComplete` under the same condition | `WorkPending` with an empty worklist and no block in progress leaves only its first disjuncts: closure |
| `Refinement` | `ImplementsReachingFacts` under the same condition | initial states map to initial states; a dequeuing or an instruction finds only what is due at a predecessor, or there in the same step; the step that ends the analysis is the abstract answer, because of `FlowComplete` |
| `FlowAnalysesProofs!EngineCorrect` | all three of the engine for `FSpec`, the specification that `cfgflow` checks | a step of `FSpec` is a step of the engine or leaves it alone (`EngineStep`) |
| `SysCallsJudged` | `[]ReportedUnlessAllowed` if `NoBareEntry` | `Exact`, below |
| `LostUpdatesJudged` | `[]LostUpdatesExact` if `NoBareEntry` | `Exact`; the first site of a variable exists because positions are natural numbers (`FirstExists`) |
| `AccessesJudged` | `[]AccessesReported` | likewise, without the engine's facts |
| `CallGraphProofs!TypeSafety` | `[]TypeOK` | inductive with `prog \in Programs` |
| `MapsConsistent` | `[]MapsAgree` | inductive context by context (`Agree`): `Insert` adds an edge to all three maps |
| `CachesFresh` | `[]CachesCurrent` | `CachesInv`, below |
| `MembersRemain` | `MembersStay` | by `CachesInv` members are the least closed set of the graph before and after a step; an edge makes the successors larger, and a least closed set grows with its successors (`ReachGrows`) |
| `EdgesFit` | `[]EdgesInContext` | while the graph is built, the function of a call that is recorded is in the closure of the graph so far, and what waits in the worklist is in it or will be skipped (`ContextInv`); the closure only grows |
| `GraphAsWritten` | `[]AsWritten` | the functions that were looked at or skipped, and those that wait, contain the callees of all that were looked at (`BuildInv`): when nothing waits they are closed, so that what is recorded is what is written |
| `ClassHierarchyProofs!CalleesExact` | `[]VirtualCalleesExact` | `HierarchyInv`, below |
| `CreationPointsProofs!TraceKept` | `[]TraceMatchesStack` | `TraceInv`: a call is in the trace while its frame is in its loop over callees; each step replaces the top frame, adds one or takes one off (`KeepsCalls`, `BeginsCall`, `EndsCall`, ...) |
| `ReportsPossible` | `[]ReportsReachable` | `ReportInv`, below |
| `TrueIsTrue` | `[]TrueMeansCreated` | `CreatedInv`, below |
| `PerfEmulProofs!StaysInStep` | `[]InStep` if `Aligned` (the capacity of the socket is a multiple of the buffer) | `StepInv`, below |
| `ChecksProofs!BitsName` | `[]BitsNameSandboxes` for `CSpec`, which `checks` checks | `BitsInv`, below |
| `InfoIsCurrent` | `[]InfoCurrent` for `CSpec` | `Current`, below |
| `RegionsFound` | `[]RegionsAsMarked` for `CSpec` | `RegionsInv`, below |
| `MisuseJudged` | `[]MisuseReported` for `CSpec` | `CheckInv`, below |
| `LeaksJudged` | `[]LeaksReported` for `CSpec` | `CheckInv`, below |
| `RunsAsConfigured` | `[]AsConfigured` for `CSpec` | `ConfigInv`: what runs has a rank, in which `ran` increases; of the checks that lie behind a phase those that `settings` chooses have run; a crash leaves behind the pointer that was null |
| `MessagesAreLinked` | `[]MessagesLinked` for `CSpec` | `LinksInv`: the links are those that `build()` would make now; a message that is linked is linked in each domain that sends it, and a handler is found where its call is one of the domain's; the drawing is that of the links, `isReachableFrom()` the least closed set (`ReachedIsLeast`), as edges lead to functions of the program (`EdgesInv`) |
| `TracesAreChains` | `[]TracesLead` for `CSpec` | `PathInv`, below |
| `InfoFlowProofs!TypeSafety` | `[]TypeOK` | inductive with `prog \in Programs`; a lemma for each operator that computes pairs, jobs or tasks, and one for each action |
| `InfoFlowProofs!NoFlowMissed` | `[]FlowComplete` of `InfoFlow` | `Carried`, below |
| `AnalysesProofs!AnalysesTypeSafety` | `[]TypeOK` for `ASpec`, which `infoflow` checks | a step of an analysis is one of the engine or changes the reports only |
| `AnalysesFlowComplete` | `[]FlowComplete` for `ASpec` | likewise |
| `InfoFlowProofs!NothingStray` | `[]NoSpuriousFact` of `InfoFlow` | `StrayInv`, below |
| `TargetsAsDerived` | `[]TargetsExact` | `TargetInv`, below |
| `MeetsTaken` | `[]MustBeSound` | `MeetInv`, below |
| `AnalysesProofs!AnalysesNothingStray`, `AnalysesTargets`, `AnalysesMeetsTaken` | the same for `ASpec` | a step of an analysis is one of the engine or changes the reports only |
| `RightsJudged` | `[]RightsGranted` for `ASpec` | `ReportInv`, below, and `StrayInv` |
| `ReportsJudged` | `[]ReportsFollowFacts` for `ASpec` | `ReportInv`, below, with `StrayInv` and `FlowInv` |
| `EscapesJudged` | `[]EscapesReported` for `ASpec` | `EscapeInv`, below, with `StrayInv` and `ReportInv` |

*Why `Exact`.* Reports are made of facts, and the properties speak of control flow. When the
engine has ended, an instruction has a fact if and only if one of the annotations that raise it
leads there: if it leads there, because the instructions that have the fact are closed under
control flow (`FlowComplete`) and hold the annotation; only then, because the instructions that
the annotations lead to are closed as well, and nothing is found outside a closed set
(`NoSpuriousFact`). What remains of each analysis is its own reading of the facts, in the final
state (`ReportCorrect`).

*Why `WorkPending`.* `FlowComplete` speaks of the end only and is not inductive. Its
strengthening says of each piece of control flow over which a fact has not passed
(to the next instruction, to a successor block, to a callee or back to a caller)
who will carry it: a worklist entry, or the rest of the block being processed. The
block in progress has two subtle cases, its own terminator (whose old state
`oldTerm` must differ if something new came) and a successor that is the block
itself (`entryBB` was read before). The engine's test for "terminator changed"
compares with the state on dequeuing; it is right only if nobody but the block's own
processing changes its terminator. A callee whose entry block is a single branch
breaks that, which is why `NoBareEntry` is assumed: the run `cfgflow_bare` shows the
failure without it.

*Why `CachesInv`.* Privileged methods are calculated one phase before the sandboxes
are, so that `CachesCurrent` alone (which speaks of `Ready` phases) says too little about
the state `ReinitSandboxes` starts from; and `getPrivilegedMethods()` calculates only if
it finds nothing cached, so that the cache must be known to be empty before. An edge
refreshes the cache of its own context; the others stay current because what is
calculated for a context reads that context's entries only (`InsertLocal`, `FunctionsLocal`).

*Why `ReportInv` and `CreatedInv`.* A report copies the trace, so what a report says must be known
of the trace all along: by `TraceInv` it is the calls of the frames that are in their loops, and
`Leads` says of each frame that its block can be reached from the call below it and has no
creation in what the frame has passed; a new callee or successor extends the chain by one link.
`Escaping`, the blocks from which a run may leave its function uncreated, is the least set closed
under the program's rules for leaving, and a fixed point of them (`EscapingFixed`): a block not in it
has a creation, a call whose callee does not escape, or only successors not in it. `CreatedInv`
says that what a frame has behind it was answered rightly (`SafeBehind`: the walk takes no
further successor after a "false"), and that the answer about to be taken is right for the frame that
takes it (`Answered`). Of several callees the code is content with one that creates, hence the
guard `SingleCallees`.

*Why `HierarchyInv`.* The properties speak of subobjects and of who overrides last; the walk has a class
and three numbers. What relates them is the chain of bases that the walk has come down, from the class it is at up to
the one that defines the function. Each visit still to be made is that of a chain (`VisitedBy`):
if the chain is `Straight`, the number is the subobject's offset; if it jumps to a virtual base, the numbers are
the offset of what has the base, where the table says the base is, and the offset within it. Hence the
sub-table looked into is that of the subobject (`LooksRight`), and since the table has there what overrides it last,
nothing is found that C++ does not give (`FindsRight`, `ChainImplements`): that function or its thunk, which is
looked into or stays according to its kind (`Unwrapped`; `Targets` are the functions a set of callees leads to), nor is a class ever
skipped, whose offset the walk would then not add (`GoesDown`). Conversely all that may be
called is at the end of a chain (`ImplementationsChained`), and every chain has been dealt with or an upper part of it is
still to be visited (`ChainsDealt`): `AnotherVirtualBase` ends the pass on a chain that jumps twice, and such
a chain has an upper part that jumps once, so that where the walk ends there is none (`AllOnce`). That `Paths` are the
straight chains, and `VirtualBases` what chains jump to, is again had from a class with no base among those for which
it would be wrong.

*Why `StepInv`.* While a request is under way, what the parent has still to write of it (`Unwritten`) and what
the socket holds (`Laid`) are its bytes in blocks of a buffer each, and no block is cut but the last.
Hence the first `read()` of the sandbox begins with the whole control message, each later one
begins with a block too, and whatever they overwrite of the buffer, its byte `Hdr` is still the end of that
message, from which the length to send back is then read (`Chewing`). From there on the parent wants just
what the sandbox has to send and the socket holds (`Sending`, `Sent`). `Aligned` is needed: with a capacity
of seven bytes and buffers of four TLC finds a length read from the middle of a block. The header
leaves `SOAAP_BUF_LEN` and the socket's size to the system.

*Why `BitsInv` and `Current`.* `BitsNameSandboxes` speaks of the end of the search; on the way
it must be known which names are still to come (`TurnsInv`: functions' names have no bit before
their turn, a name that is referred to is in `toMake` until it has a sandbox) and that a region
holds at least its start (`WalkType`), or a second sandbox of a name might be none. `InfoCurrent`
is nearly inductive, but a step that recalculates a few contexts leaves the others valid only
because what `init()` finds depends on the program, on a sandbox's name, entry points and region,
and on the edges of its own context (`SameInit`), none of which persistence (which `init()` also
decides) or an edge in another context changes.

*Why `RegionsInv`.* `RegionsAsMarked` compares what a depth-first walk with a list of visited blocks
has collected with `Inside`, what control can reach before an end of the region. While the walk is
under way, what has been collected is what control runs through of each visited block from where the
walk entered it (`Visits`), nothing twice because places in blocks are unique (`Placed`) and a
block is entered once; the successors of a visited block that has no end are visited or wait on the
stack (`Waits`); and a block without successors and without end has led to a warning or is about to
(`Warns`). When the last frame is taken off nothing waits, so that what has been collected is closed under
`Following`, but for the part of the first block before the start, which is added (it is closed up to
the start): the least closed set is within (`WalkCompletes`). That what is collected lies within
`Inside` is kept at each step. Later steps make sandboxes and set their persistence, and leave the
regions of those there are (`MakeRegions`, `ReinitRegions`).

*Why `CheckInv`.* What a check has reported is what it would report now (`ReportsInv`): a check
runs once, and when the first one starts the search is over and nothing later changes sandboxes or
the graph (`RanInv`). The properties speak of annotations, and the reports are made of names and of
what sandboxes cached: `BitsInv` (every name mentioned has its first sandbox) and `Current` (what is
cached is what annotations and the present graph say) relate the two.

*Why `PathInv`.* What is printed of a trace was read from a cache that all queries share, and that maps a
function to the shortest paths of whoever asked first. The invariant says of each of its entries
that they are the shortest paths from its source in some context that starts paths there
(`CacheRight`). Reading a trace adds entries only at entry points of function-level sandboxes, and the
one context that has such an entry point is, where `TracesLead` judges, the one asked about
(`OnlySource`): a path that was found for somebody else is its own after all. That such a path is a chain of
calls from its source to the function asked about (`PathsLead`) is shown level by level of the
breadth-first search. The levels are a recursive function, and are characterised by the least
number of levels for which something about them is wrong: they exist, are apart, are no more than
functions, and what they reach together is closed (`LevelsExist`, `LevelsApart`, `ReachedCloses`).
That the function asked about is reached at all is a fact about its context: who is a member is
reached from a source (`PrivilegedReached`, `SandboxedReached`, from least closed sets), as entry points are
functions and a region lies in one function (`PlacesInv`). Once the first trace is asked for nothing changes
that paths are made of (`PathsSame`), so that what was true of an entry remains true.

*Why `Carried`.* `InfoFlow`'s `FlowComplete`, too, speaks of the end only. Before it, a flow over
which facts have not passed is carried by the worklist (its source is enqueued), or its source is
the pair being processed and the user that it goes through is still to come, or a job for its
target is (`Waits`). Hence each kind of user has to ask for a job to every pair that it makes the
value flow to (`UsersAsk`, a lemma for each), a job has to leave at its target what the source
has, a pair whose facts grow has to be enqueued (`CarriedGrows`), and rewinding has to do the same
however it is interleaved (`Rewound`). What a step takes away must be what nobody keeps
(`Fitting`): the misfits of a called pointer, and the result of a binary operator. That a pair
without an entry has no facts (`KnownInv`) makes the first propagation to it a join, too. Where
contexts are ignored the invariant is about the single one, which must have an entry for whatever
was known in any context (`MergeInv`, `SingleInv`): what is copied back at the end overwrites the
others, and is then as closed as the single one is (`SingleFlows`). The run `infoflow` checks
`FlowComplete` on small programs; `FlowInv` was checked the same way before it was proved.

*Why `StrayInv`.* `NoSpuriousFact` speaks of the pairs that flows lead to from the seeds of a fact,
`Closure`, a recursive function over sets of pairs. That it is the least set which has the seeds and
is closed under the flows (`ClosureIsLeast`) holds because the set it is applied to grows at every
turn and the pairs are finitely many: of the sets for which it is wrong there would be a maximal one.
From there on the proof speaks of any set that is `Sealed` (closed under `EngineFlows`)
and holds the seeds of a fact: nothing outside has the fact (`FactsWithin`). For that each job must
aim from its sources along a flow (`AimInv`; in a must analysis along what is met, so that remembered
callers must be callers, `CallersInv`), each task of rewinding must stay behind a pair from which
rewinding may start (`TaskInv`, `RewoundFrom`), and what memberships cache must not exceed the graph
(`MembersBound`). The flows depend on the graph, which grows while pointers are resolved: a set that is
closed afterwards was closed before (`SealedBefore`), as flows only become more (`EngineGrows`).

*Why `TargetInv`.* A call that was in its context from the start has the targets that the facts of
its pointer say, or the pointer is enqueued, or is being processed with the call still to come
(`Targeted`, `Pending`); a misfit is taken away in the step that looks at the call. An edge that was
added came with a fact of the pointer, and is therefore in every sealed set that holds the seeds of
the function (`AddedInv`).

*Why `MeetInv`.* It is `Carried` for meets. That a target says no more than a source is true, or the
source is enqueued, or the user through which it comes in is still to be looked at, or a job that
sets the target is waiting (`Settled`). So each user has to ask for its targets (`Served`), and each
job that is about a target has to have all its sources in the meet (`Serves`): of a parameter those
that the callers pass which were found when the function was first asked for (`RememberedInv`: they
are all callers of one context; hence the guard `OneContext`), of a result the results of all
callees, which run in the context of the call because memberships are closed (`CalleesAreMembers`). A
value without context has no facts (`NothingInv`), so that giving it the contexts of its users adds
none. The graph of a must analysis stays as it is (`StaticInv`), and rewinding adds only to what is
`Given`.

*Why `ReportInv`.* `postDataFlowAnalysis()` runs when the engine has stopped, so that what was
reported is what would be reported of the facts now. `RightsGranted` is then `StrayInv` read
backwards: a call that is not reported has the right among its facts, and a fact has a seed. Of
`ReportsFollowFacts` one half is the same (what is reported derives); for the other the pairs that
the program makes a fact flow to (`Reaches`) are closed under flows, and `FlowComplete`, with the
fact that a seed is never lost where it fits (`SeedsStay`), puts the fact on each.

*Why `EscapeInv`.* That a leak is reported is a statement about the end, and about pairs inside the
sandbox; that data is elsewhere came about at some step, in a graph that may have been smaller. The
invariant ties them: once a fact of confined data is elsewhere, some pair of the sandbox has it from
which a flow leads out (`Leaving`). What a step adds to a pair has come by a flow of the engine from
a pair that had it (`CameFrom`): either that pair was elsewhere, and the invariant has said so
before, or it is the one. It keeps its fact, as in a may analysis only misfits are lost
(`LeavingStays`). At the end the flows that lead out are sorted by kind: those behind a pair, of
called pointers and of results stay inside (`BehindStays`, `FlowsStay`), so the one that does not
passes an argument to an entry point or a callgate (`LeavesByCall`), and that call is reported
(`LeakIsReported`). With contexts merged nothing is confined (`NothingConfined`).

*Model-checked only.* Liveness (`Terminates`, `Stops`, `WaitingRequestsAnswered`,
`SandboxExits`): the prover has no fairness or `ENABLED`. Every invariant of the passing runs is a
theorem. What a recursive function computes for every input
needs induction over data; where it could be had from a least counterexample it was, as for `Closure`,
`ReachedFrom`, `Levels`, `Paths` and `VirtualBases`. `Reach`, `Leads`
and `Inside` are for that reason defined as least closed sets and not by recursion.

## 6. Disagreements found

Each is a run whose one property quotes a comment of the repository and is violated by
the code; `PROJECT.json` has the lines.

| Run | The code |
|---|---|
| `cfgflow_bare` | A fact propagated into a callee whose entry block is one branch is already in the terminator when the block is dequeued: its successors are never enqueued. |
| `creation_missed` | `&&` in the loop over successors skips the rest after the first that does not create on all paths: entry-point calls there go unseen. |
| `perf_lost` | A request that comes in one `read()` with other bytes is dropped, and the parent waits forever. |
| `infoflow_results` | The callers of a returning function are looked up in the context it returns in; an entry point is called from another one, so that no fact about its result reaches the caller. |
| `infoflow_declassified` | `SandboxPrivateAnalysis` means to override `propagateToValue()` to drop the facts of declassified values, but gives it a parameter less: the engine calls its own, and declassified data stays private. |

Others are written into guards of properties, since nothing in the repository says what should
be: a region that leads back to the function it is part of takes all of that function out of the
privileged code, and a callgate is said to run in the privileged context, in which neither the
graph nor the privileged methods need know it (`EdgesInContext`); of a region that loops back to
before its own start, that part of the block is missing, and the warning that an end is missing
is also given for an arm that ends in a block already visited (`RegionsAsMarked`); a message that
the first instruction of a function receives is taken for privileged code even if that instruction is
in a region, as the iterator over privileged instructions does not look at where it starts
(`TakenUnseen` in `MessagesLinked`); of several
entry points the last decides a trace (`TracesLead`); for the platforms `annotated` and `chroot`
there is no platform object, and a check that asks it stops the pass (`AsConfigured`).

One is written into a property and has no run of its own: the comment at `ClassHierarchyUtils.cpp:606` says
that a thunk is replaced by the function within, but `extractFunctionFromThunk()` knows two kinds of thunk by
their names; the third, of a function whose result type is covariant, stays a callee although its body is in the
module. `VirtualCalleesExact` counts a callee as the function behind it, and says which thunks may stay
(`MayStay`).

## 7. What is not modelled

Left out for good: formatting of reports and debug information (`Output`), tables of operating
systems and platforms (data: sets in `SysCalls`, `Analyses`, `Checks`), the dynamic call-graph
profile (file I/O), insertion of calls into LLVM IR beyond the choice of the call, the
intermediate steps of LLVM's option parser, and in `soaap_perf.h` failing system calls, which end
the process, timing, and ephemeral sandboxes, which are forked for one call and share
nothing with the next. `CallGraph` leaves out `funcToCallEdges`, a copy of `callToCallees`
by function.
`outputSources()` of `SandboxPrivateAnalysis`, which looks for sources to print beside a
report, is left out of `Analyses`. Locations and wording of all reports are.

Inputs where modules meet: `GlobalVariables`, `SysCalls` and `CreationPoints` take the callees of
a call and the functions of a sandbox from the program, which `CallGraph` shows to be consistent;
`Sandboxes` starts from the closure that `CallGraph` shows the built graph to be (`AsWritten`), and
adds late targets one at a time; `CallGraph` takes the targets that the pointer analyses may find,
and in which order they find them, as arbitrary, and the callees of virtual calls as given, which
`ClassHierarchy` finds; `InfoFlow` starts from a given graph, has function-level sandboxes only, and
reads its memberships from a cache that is refreshed with each edge, which theorem `CachesFresh` of
`CallGraphProofs` justifies. `Checks` passes over the data-flow analyses in one step each: their
own modules have them. Types are an input of the function-pointer filter, so that its
comparison of a type with itself (`FPTargetsAnalysis.cpp:171`) does not show. Thunks of variadic functions, which
are copies of the function and whose first call is any, are in none of the hierarchies. Where `initialise()` takes users,
contexts or annotations one by one and the outcome depends on it, one order is taken (`InTurn`).

## 8. Plan

1. `PerfEmul` with ephemeral sandboxes and with calls that fail.
2. Regions as sandboxes in `InfoFlow`.
