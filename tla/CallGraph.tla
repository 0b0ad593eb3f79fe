------------------------------ MODULE CallGraph ------------------------------
(***************************************************************************)
(* The context-sensitive call graph of CallGraphUtils, and what Sandbox    *)
(* and SandboxUtils cache of it: the functions of each sandbox and the     *)
(* privileged methods.  As runOnModule() orders them: the graph is built   *)
(* from direct and virtual calls, one context after another; privileged    *)
(* methods are calculated; sandboxes are reinitialised; the function-      *)
(* pointer analyses add edges one call at a time, each followed by a       *)
(* refresh of what the edge's context caches, while they go on asking in   *)
(* which contexts instructions are.                                        *)
(*                                                                         *)
(* The program under analysis is an input.  A program is a record:         *)
(*   func      its functions                                               *)
(*   defined   those with a body                                           *)
(*   main      {main()}, or {}                                             *)
(*   fun       [call -> the function it is in]                             *)
(*   static    [call -> its direct callee, or its virtual callees]         *)
(*   targets   [call through a pointer -> what the pointer analyses may    *)
(*             find there, of a compatible type]                           *)
(*   entry     [function-level sandbox -> its entry points]                *)
(*   region    [sandboxed region, or sandbox only referred to -> the calls *)
(*             at its top level]                                           *)
(*   callgate  [sandbox -> its callgates]                                  *)
(*                                                                         *)
(* Sets are kept as sets of pointers in the code, so that a worklist hands *)
(* out any member here.                                                    *)
(***************************************************************************)
EXTENDS Integers, FiniteSets

CONSTANT Programs

VARIABLES
  prog,
  phase,          \* the phase of runOnModule()
  todo,           \* contexts whose graph is still to be built
  ctx,            \* the context whose graph is being built ...
  worklist,       \* ... the functions it has still to look at ...
  processed,      \* ... and the ones it has looked at
  callToCallees,  \* <<call, context>> -> callees
  calleeToCalls,  \* <<callee, context>> -> calls
  funcToCallees,  \* <<function, context>> -> callees
  functions,      \* functionsVec/functionsSet of each sandbox
  privileged      \* privilegedMethods

building == <<todo, ctx, worklist, processed>>
graph == <<callToCallees, calleeToCalls, funcToCallees>>
vars == <<prog, phase, building, graph, functions, privileged>>

PRIV == "priv"   \* ContextUtils::PRIV_CONTEXT
Region == "-"    \* the nullptr that stands for the top level of a region

Calls(p) == DOMAIN p.fun
Boxes(p) == DOMAIN p.entry \cup DOMAIN p.region
Contexts(p) == Boxes(p) \cup {PRIV}
EntryPoints(p) == UNION {p.entry[S] : S \in DOMAIN p.entry}
Entries(p, x) == IF x \in DOMAIN p.entry THEN p.entry[x] ELSE {}

(* An entry point has one sandbox (a second one is refused by              *)
(* findSandboxes()); a region is in one function; names are distinct.      *)
WellFormed(p) ==
  /\ Region \notin p.func /\ PRIV \notin Boxes(p)
  /\ p.defined \subseteq p.func /\ p.main \subseteq p.defined
  /\ p.fun \in [Calls(p) -> p.defined]
  /\ p.static \in [Calls(p) -> SUBSET p.func]
  /\ DOMAIN p.targets \subseteq Calls(p)
  /\ \A c \in DOMAIN p.targets : p.targets[c] \subseteq p.func
  /\ DOMAIN p.entry \cap DOMAIN p.region = {}
  /\ p.entry \in [DOMAIN p.entry -> SUBSET p.defined]
  /\ \A S, T \in DOMAIN p.entry : S # T => p.entry[S] \cap p.entry[T] = {}
  /\ p.region \in [DOMAIN p.region -> SUBSET Calls(p)]
  /\ p.callgate \in [Boxes(p) -> SUBSET p.func]

ASSUME ProgramsAssumption == \A p \in Programs : WellFormed(p)

(* Calls that some region holds: isWithinSandboxedRegion().                *)
InRegions(p) == UNION {p.region[S] : S \in DOMAIN p.region}

(* Does control leave context x when it enters f?                          *)
Foreign(p, x, f) == f \in EntryPoints(p) \ Entries(p, x)

(***************************************************************************)
(* The least set of functions that holds start and, with a function, its   *)
(* successors in succ: what the fringe search of a sandbox and the         *)
(* recursion over privileged callees compute.                              *)
(***************************************************************************)
ClosedUnder(succ, C) == \A f \in C : succ[f] \subseteq C
Reach(F, succ, start) ==
  {f \in F : \A C \in SUBSET F : start \subseteq C /\ ClosedUnder(succ, C) => f \in C}

-----------------------------------------------------------------------------
Init ==
  /\ prog \in Programs
  /\ phase = "build"
  /\ todo = Contexts(prog)
  /\ ctx = PRIV /\ worklist = {} /\ processed = {}
  /\ callToCallees = [e \in Calls(prog) \X Contexts(prog) |-> {}]
  /\ calleeToCalls = [e \in prog.func \X Contexts(prog) |-> {}]
  /\ funcToCallees = [e \in prog.func \X Contexts(prog) |-> {}]
  /\ functions = [S \in Boxes(prog) |-> {}]
  /\ privileged = {}

(* Mutant: functions learn of their first calls' callees only.             *)
InsertFirstCallees(x, callees) ==
  LET new(c) == IF c \in DOMAIN callees THEN callees[c] ELSE {}
  IN /\ callToCallees' = [e \in DOMAIN callToCallees |->
            IF e[2] = x THEN callToCallees[e] \cup new(e[1]) ELSE callToCallees[e]]
     /\ calleeToCalls' = [e \in DOMAIN calleeToCalls |->
            IF e[2] = x THEN calleeToCalls[e] \cup {c \in DOMAIN callees : e[1] \in callees[c]}
            ELSE calleeToCalls[e]]
     /\ funcToCallees' = [e \in DOMAIN funcToCallees |->
            IF e[2] = x /\ funcToCallees[e] = {}
            THEN UNION {callees[c] : c \in {d \in DOMAIN callees : prog.fun[d] = e[1]}}
            ELSE funcToCallees[e]]

(***************************************************************************)
(* addCallees() without its refresh: callees[c] are new callees, in        *)
(* context x, of each call c in the domain of callees.                     *)
(***************************************************************************)
Insert(x, callees) ==
  LET new(c) == IF c \in DOMAIN callees THEN callees[c] ELSE {}
  IN /\ callToCallees' = [e \in DOMAIN callToCallees |->
            IF e[2] = x THEN callToCallees[e] \cup new(e[1]) ELSE callToCallees[e]]
     /\ calleeToCalls' = [e \in DOMAIN calleeToCalls |->
            IF e[2] = x THEN calleeToCalls[e] \cup {c \in DOMAIN callees : e[1] \in callees[c]}
            ELSE calleeToCalls[e]]
     /\ funcToCallees' = [e \in DOMAIN funcToCallees |->
            IF e[2] = x
            THEN funcToCallees[e] \cup
                   UNION {callees[c] : c \in {d \in DOMAIN callees : prog.fun[d] = e[1]}}
            ELSE funcToCallees[e]]

(* Where the graph of context x starts.                                    *)
Starts(p, x) ==
  IF x = PRIV THEN p.main
  ELSE IF x \in DOMAIN p.entry THEN p.entry[x] ELSE {Region}

(* The next context: privileged first, then sandbox by sandbox.            *)
NextContext ==
  /\ phase = "build" /\ worklist = {}
  /\ \E x \in todo :
        /\ x = PRIV \/ PRIV \notin todo
        /\ ctx' = x
        /\ todo' = todo \ {x}
        /\ worklist' = Starts(prog, x)
  /\ processed' = {}
  /\ UNCHANGED <<prog, phase, graph, functions, privileged>>

(* Mutant: privileged code does not skip sandboxed regions.                *)
CallsOfWithRegions(p, x, f) ==
  IF f = Region THEN p.region[x] ELSE {c \in Calls(p) : p.fun[c] = f}

(* The calls of f that are looked at in context x: privileged code skips   *)
(* those in a sandboxed region.                                            *)
CallsOf(p, x, f) ==
  IF f = Region THEN p.region[x]
  ELSE {c \in Calls(p) : p.fun[c] = f} \ (IF x = PRIV THEN InRegions(p) ELSE {})

(* Mutant: no check for cycles.                                            *)
SkippedNotWhenProcessed(f) ==
  f # Region /\ (f \notin prog.defined \/ Foreign(prog, ctx, f))

(* Declarations, functions met before and other sandboxes' entry points    *)
(* are skipped.                                                            *)
Skipped(f) ==
  f # Region /\ (f \notin prog.defined \/ f \in processed \/ Foreign(prog, ctx, f))

Skip ==
  /\ phase = "build"
  /\ \E f \in worklist : Skipped(f) /\ worklist' = worklist \ {f}
  /\ UNCHANGED <<prog, phase, todo, ctx, processed, graph, functions, privileged>>

(* Any other function has its calls recorded and their callees enqueued.   *)
LookAt ==
  /\ phase = "build"
  /\ \E f \in worklist :
        LET cs == CallsOf(prog, ctx, f)
        IN /\ ~Skipped(f)
           /\ Insert(ctx, [c \in cs |-> prog.static[c]])
           /\ worklist' = (worklist \ {f}) \cup UNION {prog.static[c] : c \in cs}
           /\ processed' = IF f = Region THEN processed ELSE processed \cup {f}
  /\ UNCHANGED <<prog, phase, todo, ctx, functions, privileged>>

-----------------------------------------------------------------------------
(* What would be cached for the graph g2c, f2c.                            *)

(* calculatePrivilegedMethods().                                           *)
PrivilegedIn(f2c) ==
  Reach(prog.func, [f \in prog.func |-> f2c[<<f, PRIV>>] \ EntryPoints(prog)],
        prog.main \ EntryPoints(prog))

(* findSandboxedFunctions(): a region starts from the defined callees of   *)
(* its calls, whatever sandbox they are entry points of.                   *)
Initial(c2c, S) ==
  IF S \in DOMAIN prog.entry THEN prog.entry[S]
  ELSE prog.defined \cap UNION {c2c[<<c, S>>] : c \in prog.region[S]}

FunctionsIn(c2c, f2c, S) ==
  Reach(prog.func,
        [f \in prog.func |-> {g \in f2c[<<f, S>>] : ~Foreign(prog, S, g)}],
        Initial(c2c, S))

(* The graph is built; getPrivilegedMethods() finds nothing cached.        *)
CalculatePrivileged ==
  /\ phase = "build" /\ worklist = {} /\ todo = {}
  /\ privileged' = IF privileged = {} THEN PrivilegedIn(funcToCallees) ELSE privileged
  /\ phase' = "reinit"
  /\ UNCHANGED <<prog, building, graph, functions>>

(* reinitSandboxes().                                                      *)
ReinitSandboxes ==
  /\ phase = "reinit"
  /\ functions' = [S \in Boxes(prog) |-> FunctionsIn(callToCallees, funcToCallees, S)]
  /\ phase' = "pointers"
  /\ UNCHANGED <<prog, building, graph, privileged>>

-----------------------------------------------------------------------------
(* getContextsForInstruction(), for a call.                                *)

BoxContains(S, c) ==
  prog.fun[c] \in functions[S] \/ (S \in DOMAIN prog.region /\ c \in prog.region[S])

RegionWithin(S, f) ==
  S \in DOMAIN prog.region /\ \E c \in prog.region[S] : prog.fun[c] = f

IsPrivileged(c) ==
  /\ prog.fun[c] \in privileged
  /\ \A S \in Boxes(prog) : ~(RegionWithin(S, prog.fun[c]) /\ BoxContains(S, c))

InContext(c, x) == IF x = PRIV THEN IsPrivileged(c) ELSE BoxContains(x, c)

(* Mutant: only a sandbox is refreshed.                                    *)
RefreshSandboxesOnly(x) ==
  IF x = PRIV THEN UNCHANGED <<functions, privileged>>
  ELSE /\ functions' = [functions EXCEPT ![x] = FunctionsIn(callToCallees', funcToCallees', x)]
       /\ UNCHANGED privileged

(* Mutant: privileged methods are cleared, to be calculated when needed.   *)
RefreshLater(x) ==
  IF x = PRIV
  THEN privileged' = {} /\ UNCHANGED functions
  ELSE /\ functions' = [functions EXCEPT ![x] = FunctionsIn(callToCallees', funcToCallees', x)]
       /\ UNCHANGED privileged

(***************************************************************************)
(* stateChangedForFunctionPointer(): the pointer that c calls has got new  *)
(* targets in context x.  Edges are added, then what x caches is refreshed *)
(* (S->reinit(), recalculatePrivilegedMethods()).                          *)
(***************************************************************************)
Refresh(x) ==
  IF x = PRIV
  THEN privileged' = PrivilegedIn(funcToCallees') /\ UNCHANGED functions
  ELSE /\ functions' = [functions EXCEPT ![x] = FunctionsIn(callToCallees', funcToCallees', x)]
       /\ UNCHANGED privileged

AddTargets ==
  /\ phase = "pointers"
  /\ \E c \in DOMAIN prog.targets, x \in Contexts(prog) :
       \E T \in SUBSET prog.targets[c] :
          /\ InContext(c, x)
          /\ ~(T \subseteq callToCallees[<<c, x>>])
          /\ Insert(x, [d \in {c} |-> T])
          /\ Refresh(x)
  /\ UNCHANGED <<prog, phase, building>>

(* The pointer analyses have reached their fixed points.                   *)
EndPointers ==
  /\ phase = "pointers"
  /\ phase' = "analyses"
  /\ UNCHANGED <<prog, building, graph, functions, privileged>>

Next ==
  \/ NextContext \/ Skip \/ LookAt
  \/ CalculatePrivileged \/ ReinitSandboxes \/ AddTargets \/ EndPointers

(* Sequential code: it keeps running until it returns.                     *)
Spec == Init /\ [][Next]_vars /\ WF_vars(Next)

-----------------------------------------------------------------------------
(* calleeContext().                                                        *)

(* Mutant: an entry point is taken to run where it is called.              *)
CalleeContextSame(x, f) == x

CalleeContext(x, f) ==
  IF f \in EntryPoints(prog) THEN CHOOSE S \in DOMAIN prog.entry : f \in prog.entry[S]
  ELSE IF x # PRIV /\ f \in prog.callgate[x] THEN PRIV
  ELSE x

-----------------------------------------------------------------------------
TypeOK ==
  /\ phase \in {"build", "reinit", "pointers", "analyses"}
  /\ todo \subseteq Contexts(prog) /\ ctx \in Contexts(prog)
  /\ worklist \subseteq prog.func \cup {Region}
  /\ Region \in worklist => ctx \in DOMAIN prog.region
  /\ processed \subseteq prog.func
  /\ callToCallees \in [Calls(prog) \X Contexts(prog) -> SUBSET prog.func]
  /\ calleeToCalls \in [prog.func \X Contexts(prog) -> SUBSET Calls(prog)]
  /\ funcToCallees \in [prog.func \X Contexts(prog) -> SUBSET prog.func]
  /\ functions \in [Boxes(prog) -> SUBSET prog.func]
  /\ privileged \subseteq prog.func

Ready == phase \in {"pointers", "analyses"}

(* The maps that addCallees() keeps by hand describe one set of edges.     *)
MapsAgree ==
  \A x \in Contexts(prog) : \A g \in prog.func :
    /\ calleeToCalls[<<g, x>>] = {c \in Calls(prog) : g \in callToCallees[<<c, x>>]}
    /\ \A f \in prog.func :
          g \in funcToCallees[<<f, x>>] <=>
            \E c \in Calls(prog) : prog.fun[c] = f /\ g \in callToCallees[<<c, x>>]

(***************************************************************************)
(* Whoever asks, in the middle of the pointer analyses or after them, gets *)
(* memberships that are not stale: they are what would be calculated anew  *)
(* from the graph as it is, in every context, although an edge refreshes   *)
(* the cache of its own context only.                                      *)
(***************************************************************************)
CachesCurrent ==
  Ready =>
    /\ privileged = PrivilegedIn(funcToCallees)
    /\ \A S \in Boxes(prog) : functions[S] = FunctionsIn(callToCallees, funcToCallees, S)

(***************************************************************************)
(* What the program says, without graph or worklist: the functions that    *)
(* direct and virtual calls reach from the start of context x, without     *)
(* entering another sandbox.                                               *)
(***************************************************************************)
StaticCallees(p, cs) == UNION {p.static[c] : c \in cs}

Meant(p, x, c) == x = PRIV => \A S \in DOMAIN p.region : c \notin p.region[S]

Written(p, x) ==
  Reach(p.func,
        [f \in p.func |->
           {g \in StaticCallees(p, {c \in Calls(p) : p.fun[c] = f /\ Meant(p, x, c)}) :
              ~Foreign(p, x, g)}],
        IF x \in DOMAIN p.region THEN StaticCallees(p, p.region[x]) \cap p.defined
        ELSE Starts(p, x) \ (EntryPoints(p) \ Entries(p, x)))

(***************************************************************************)
(* The basic graph misses no function of any context, in whatever order    *)
(* worklists are emptied and contexts built; and as long as no pointer has *)
(* added an edge it has no other function either.  (A region of which the  *)
(* top level calls an entry point of another sandbox counts that entry     *)
(* point as its own, but the graph does not follow it.)                    *)
(***************************************************************************)
MembersOf(x) == IF x = PRIV THEN privileged ELSE functions[x]

EntersDirectly(p, x) ==
  x \in DOMAIN p.region /\ StaticCallees(p, p.region[x]) \cap EntryPoints(p) # {}

AsWritten ==
  Ready =>
    \A x \in Contexts(prog) :
      \/ EntersDirectly(prog, x)
      \/ /\ Written(prog, x) \subseteq MembersOf(x)
         /\ (\A c \in Calls(prog) : callToCallees[<<c, x>>] \subseteq prog.static[c])
              => MembersOf(x) = Written(prog, x)

(* A call with callees in context x is an instruction of context x.  (The  *)
(* data-flow analyses drop what they are told in any other context.)       *)
RecordedInContext ==
  Ready =>
    \A c \in Calls(prog) : \A x \in Contexts(prog) :
      callToCallees[<<c, x>>] # {} => InContext(c, x)

(* "callee context is the same sandbox, another sandbox or callgate        *)
(* (privileged)": it is one that the callee's instructions are in.         *)
CalleeContextKnown ==
  Ready =>
    \A c \in Calls(prog) : \A x \in Contexts(prog) :
      \A f \in callToCallees[<<c, x>>] \cap prog.defined :
        f \in MembersOf(CalleeContext(x, f))

RegionsNotRecursive ==
  \A S \in DOMAIN prog.region : \A c \in prog.region[S] : prog.fun[c] \notin functions[S]

WithoutCallgates == \A S \in Boxes(prog) : prog.callgate[S] = {}

(***************************************************************************)
(* Edges and contexts fit together at both ends: what a data-flow analysis *)
(* propagates over an edge comes from code of the edge's context and goes  *)
(* to code of the callee's.  The first needs programs of which no region   *)
(* leads back to its own function, the second programs without callgates.  *)
(***************************************************************************)
EdgesInContext ==
  /\ RegionsNotRecursive => RecordedInContext
  /\ WithoutCallgates => CalleeContextKnown

(* While the pointer analyses run, no instruction leaves a context: what   *)
(* they have already propagated in it stays meaningful.                    *)
MembersStay ==
  [][phase = "pointers" =>
       \A x \in Contexts(prog) : MembersOf(x) \subseteq MembersOf(x)']_vars

(* Recursive programs included, the graph is built, and the pointer        *)
(* analyses can only add so many edges.                                    *)
Terminates == <>(phase = "analyses")
=============================================================================
