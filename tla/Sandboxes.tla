----------------------------- MODULE Sandboxes -----------------------------
(***************************************************************************)
(* Finding the sandboxes of a program (SandboxUtils::findSandboxes()) and  *)
(* what each of them may do (Sandbox::init(), repeated with each edge that *)
(* is added to the call graph).                                            *)
(*                                                                         *)
(* The program is an input, a record:                                      *)
(*   annots    llvm.global.annotations: a sequence of [kind, on, arg]      *)
(*   body      [block -> its instructions]                                 *)
(*   succ      [block -> its successors, in order]                         *)
(*   fun       [block -> its function]                                     *)
(*   functions, decl    all functions, and those without body              *)
(*   call      [call -> callees known from the start]                      *)
(*   late      <<call, function>>: targets of pointers, found later        *)
(*   note      [annotation that is an instruction -> [kind, box, arg]]     *)
(*   gates     [name in __soaap_declare_callgates_helper_ -> functions]    *)
(* Sandboxes are numbered in the order in which they are made: two may     *)
(* have the same name.                                                     *)
(***************************************************************************)
EXTENDS Integers, Sequences, FiniteSets, Bags

CONSTANTS
  Programs,
  None    \* nullptr

VARIABLES
  prog,
  phase,
  at,          \* the next element of llvm.global.annotations
  entryOf,     \* funcToSandboxName
  entryPoints, \* sandboxEntryPoints
  marks,       \* funcToOverhead, funcToClearances, ephemeralSandboxes
  toMake,      \* names, regions or references that are still to be looked at
  walk,        \* the walk over a region: its C++ stack and what it collects
  warned,      \* regions of which an end was said to be missing
  names,       \* sandboxNameToBitIdx
  sandboxes,   \* the sandboxes, in order
  graph,       \* the call graph: [context -> <<call, callee>> pairs]
  privileged,  \* privilegedMethods
  info         \* [sandbox -> what Sandbox::init() found]

annotVars == <<at, entryOf, entryPoints, marks>>
findVars == <<annotVars, toMake, walk, warned, names, sandboxes>>
initVars == <<graph, privileged, info>>
vars == <<prog, phase, findVars, initVars>>

Priv == 0   \* PRIV_CONTEXT; the others are the sandboxes' numbers

Blocks(p) == DOMAIN p.body
Instrs(p) == UNION {{p.body[b][i] : i \in DOMAIN p.body[b]} : b \in Blocks(p)}
BlockOf(p, n) == CHOOSE b \in Blocks(p) : \E i \in DOMAIN p.body[b] : p.body[b][i] = n
PositionOf(p, n) == CHOOSE i \in DOMAIN p.body[BlockOf(p, n)] : p.body[BlockOf(p, n)][i] = n
FunctionOf(p, n) == p.fun[BlockOf(p, n)]
InstrsOf(p, F) == {n \in Instrs(p) : FunctionOf(p, n) = F}
CallsIn(p, N) == N \cap DOMAIN p.call
Elements(s) == {s[i] : i \in DOMAIN s}
Notes(p, kind) == {n \in DOMAIN p.note : p.note[n].kind = kind}
Annots(p, kind) == {p.annots[i] : i \in {j \in DOMAIN p.annots : p.annots[j].kind = kind}}

ASSUME ProgramsAssumption ==
  \A p \in Programs :
    /\ \A b, c \in Blocks(p) : \A i \in DOMAIN p.body[b] : \A j \in DOMAIN p.body[c] :
          p.body[b][i] = p.body[c][j] => b = c /\ i = j
    /\ \A b \in Blocks(p) :
          /\ p.body[b] \in Seq(Instrs(p)) \ {<< >>} /\ p.succ[b] \in Seq(Blocks(p))
          /\ \A c \in Elements(p.succ[b]) : p.fun[c] = p.fun[b]
    /\ DOMAIN p.call \cup DOMAIN p.note \subseteq Instrs(p)
    /\ \A c \in DOMAIN p.call : p.call[c] \subseteq p.functions
    /\ p.late \subseteq (DOMAIN p.call) \X p.functions
    /\ {p.fun[b] : b \in Blocks(p)} = p.functions \ p.decl
    /\ None \notin Instrs(p) \cup p.functions
    /\ IsFiniteSet(p.functions)

-----------------------------------------------------------------------------
NoWalk == [start |-> None, visited |-> {}, insts |-> << >>, stack |-> << >>]

(* Annotations of functions, one element of the array at a time.           *)
Init ==
  /\ prog \in Programs
  /\ phase = "annotations" /\ at = 1
  /\ entryOf = [f \in {} |-> None] /\ entryPoints = {}
  /\ marks = [overhead |-> [f \in {} |-> 0], clear |-> [f \in {} |-> {}], ephemeral |-> {}]
  /\ toMake = {} /\ walk = NoWalk /\ warned = {}
  /\ names = [n \in {} |-> 0] /\ sandboxes = << >>
  /\ graph = << >> /\ privileged = {} /\ info = << >>

With(f, x, y) == [z \in DOMAIN f \cup {x} |-> IF z = x THEN y ELSE f[z]]

ReadAnnotation(kinds) ==
  /\ phase = "annotations" /\ at <= Len(prog.annots)
  /\ prog.annots[at].kind \in kinds
  /\ at' = at + 1
  /\ UNCHANGED <<prog, phase, toMake, walk, warned, names, sandboxes, initVars>>

(* A function stays the entry point of the sandbox it was first given to.  *)
EntryAnnotation ==
  /\ ReadAnnotation({"persistent", "ephemeral"})
  /\ LET a == prog.annots[at]
     IN /\ entryPoints' = entryPoints \cup {a.on}
        /\ entryOf' = IF a.on \in DOMAIN entryOf THEN entryOf ELSE With(entryOf, a.on, a.arg)
        /\ marks' = IF a.kind = "persistent" THEN marks
                    ELSE [marks EXCEPT !.ephemeral = @ \cup {a.arg}]

RightsAnnotation ==
  /\ ReadAnnotation({"overhead", "clearance"})
  /\ LET a == prog.annots[at]
         old == IF a.on \in DOMAIN marks.clear THEN marks.clear[a.on] ELSE {}
     IN marks' = IF a.kind = "overhead" THEN [marks EXCEPT !.overhead = With(@, a.on, a.arg)]
                 ELSE [marks EXCEPT !.clear = With(@, a.on, old \cup {a.arg})]
  /\ UNCHANGED <<entryOf, entryPoints>>

OtherAnnotation ==
  /\ ReadAnnotation({"private", "read", "write", "sandboxed", "privileged", "vulnerable"})
  /\ UNCHANGED <<entryOf, entryPoints, marks>>

EndAnnotations ==
  /\ phase = "annotations" /\ at > Len(prog.annots)
  /\ phase' = "make"
  /\ toMake' = {entryOf[f] : f \in DOMAIN entryOf}
  /\ UNCHANGED <<prog, annotVars, walk, warned, names, sandboxes, initVars>>

-----------------------------------------------------------------------------
(* assignBitIdxToSandboxName(): bits are given away once, a name that has  *)
(* one already gets -1.                                                    *)
BitFor(n) == IF n \in DOMAIN names THEN -1 ELSE Cardinality(DOMAIN names)

(* Mutant: the bit of the name that exists already.                        *)
MakeSharingBits(n, entry, region, persistent, overhead, clear) ==
  /\ sandboxes' = Append(sandboxes,
       [name |-> n, idx |-> Cardinality(DOMAIN names) - 1, entry |-> entry, region |-> region,
        persistent |-> persistent, overhead |-> overhead, clear |-> clear])
  /\ names' = IF n \in DOMAIN names THEN names ELSE With(names, n, BitFor(n))

Make(n, entry, region, persistent, overhead, clear) ==
  /\ sandboxes' = Append(sandboxes,
       [name |-> n, idx |-> BitFor(n), entry |-> entry, region |-> region,
        persistent |-> persistent, overhead |-> overhead, clear |-> clear])
  /\ names' = IF n \in DOMAIN names THEN names ELSE With(names, n, BitFor(n))

(* The last entry point that has a mark decides, in order of address.      *)
OneOf(f, entry, default) ==
  IF entry \cap DOMAIN f = {} THEN {default} ELSE {f[e] : e \in entry \cap DOMAIN f}

MakeFunctionSandbox ==
  /\ phase = "make"
  /\ \E n \in toMake :
       LET entry == {f \in DOMAIN entryOf : entryOf[f] = n}
       IN /\ toMake' = toMake \ {n}
          /\ \E o \in OneOf(marks.overhead, entry, 0), c \in OneOf(marks.clear, entry, {}) :
               Make(n, entry, << >>, n \notin marks.ephemeral, o, c)
  /\ UNCHANGED <<prog, phase, annotVars, walk, warned, initVars>>

EndFunctions ==
  /\ phase = "make" /\ toMake = {}
  /\ phase' = "regions" /\ toMake' = Notes(prog, "start")
  /\ UNCHANGED <<prog, annotVars, walk, warned, names, sandboxes, initVars>>

-----------------------------------------------------------------------------
(***************************************************************************)
(* The walk over a region: findAllSandboxedInstructionsHelper(), with its  *)
(* recursion as a stack of frames [left, found].                           *)
(***************************************************************************)
EndsAt(p, start, n) ==
  n \in Notes(p, "end") /\ p.note[n].box = p.note[start].box

(* What is walked of block b from position i on: the whole of it, or up to *)
(* and including the end of the region.                                    *)
LastWalked(p, start, b, i) ==
  LET ends == {j \in i..Len(p.body[b]) : EndsAt(p, start, p.body[b][j])}
  IN IF ends = {} THEN Len(p.body[b]) ELSE CHOOSE j \in ends : \A k \in ends : j <= k

Segment(p, start, b, i) == SubSeq(p.body[b], i, LastWalked(p, start, b, i))

EndFound(p, start, b, i) ==
  LET s == Segment(p, start, b, i)
  IN IF s # << >> /\ EndsAt(p, start, s[Len(s)]) THEN s[Len(s)] ELSE None

Frame(p, start, b, i) ==
  LET found == EndFound(p, start, b, i)
  IN [left |-> IF found = None THEN p.succ[b] ELSE << >>, found |-> found]

StartRegion ==
  /\ phase = "regions" /\ walk = NoWalk
  /\ \E n \in toMake :
       LET b == BlockOf(prog, n)
           i == PositionOf(prog, n)
       IN /\ toMake' = toMake \ {n}
          /\ walk' = [start |-> n, visited |-> {b}, insts |-> Segment(prog, n, b, i),
                      stack |-> <<Frame(prog, n, b, i)>>]
  /\ UNCHANGED <<prog, phase, annotVars, warned, names, sandboxes, initVars>>

Walking(go) ==
  /\ phase = "regions" /\ walk # NoWalk
  /\ (Head(walk.stack).left # << >>) = go
  /\ UNCHANGED <<prog, phase, annotVars, toMake, initVars>>

(* The next successor of the block on top of the stack.                    *)
WalkSuccessor ==
  /\ Walking(TRUE)
  /\ LET top == Head(walk.stack)
         b == Head(top.left)
         rest == <<[top EXCEPT !.left = Tail(@)]>> \o Tail(walk.stack)
     IN walk' = IF b \in walk.visited THEN [walk EXCEPT !.stack = rest]
                ELSE [walk EXCEPT !.visited = @ \cup {b},
                                  !.insts = @ \o Segment(prog, walk.start, b, 1),
                                  !.stack = <<Frame(prog, walk.start, b, 1)>> \o rest]
  /\ UNCHANGED <<warned, names, sandboxes>>

(* Mutant: only the outermost block warns.                                 *)
WalkReturnSilent ==
  /\ Walking(FALSE) /\ Len(walk.stack) > 1
  /\ LET found == Head(walk.stack).found
         below == Head(Tail(walk.stack))
         back == IF found = None THEN below ELSE [below EXCEPT !.found = found]
     IN walk' = [walk EXCEPT !.stack = <<back>> \o Tail(Tail(@))]
  /\ UNCHANGED <<warned, names, sandboxes>>

WalkReturn ==
  /\ Walking(FALSE) /\ Len(walk.stack) > 1
  /\ LET found == Head(walk.stack).found
         below == Head(Tail(walk.stack))
         back == IF found = None THEN below ELSE [below EXCEPT !.found = found]
     IN /\ walk' = [walk EXCEPT !.stack = <<back>> \o Tail(Tail(@))]
        /\ warned' = IF found = None THEN warned \cup {walk.start} ELSE warned
  /\ UNCHANGED <<names, sandboxes>>

(* A region is ephemeral until a creation point says otherwise.            *)
EndRegion ==
  /\ Walking(FALSE) /\ Len(walk.stack) = 1
  /\ Make(prog.note[walk.start].box, {}, walk.insts, FALSE, 0, {})
  /\ warned' = IF Head(walk.stack).found = None THEN warned \cup {walk.start} ELSE warned
  /\ walk' = NoWalk

(* Names that other annotations refer to, those of functions excepted.     *)
Referenced(p) ==
  {p.note[n].box : n \in Notes(p, "private")}
    \cup {a.arg : a \in Annots(p, "private") \cup Annots(p, "read") \cup Annots(p, "write")}
    \cup (UNION {a.arg : a \in Annots(p, "sandboxed")})
    \cup DOMAIN p.gates

EndRegions ==
  /\ phase = "regions" /\ walk = NoWalk /\ toMake = {}
  /\ phase' = "references" /\ toMake' = Referenced(prog)
  /\ UNCHANGED <<prog, annotVars, walk, warned, names, sandboxes, initVars>>

Named(n) == {i \in DOMAIN sandboxes : sandboxes[i].name = n}

(* createEmptySandboxIfNew().                                              *)
MakeReferenced ==
  /\ phase = "references"
  /\ \E n \in toMake :
       /\ toMake' = toMake \ {n}
       /\ IF Named(n) = {} THEN Make(n, {}, << >>, TRUE, 0, {}) ELSE UNCHANGED <<names, sandboxes>>
  /\ UNCHANGED <<prog, phase, annotVars, walk, warned, initVars>>

-----------------------------------------------------------------------------
(* What the call graph gives each context (module CallGraph has how).      *)
Boxes == DOMAIN sandboxes
RegionSet(S) == Elements(sandboxes[S].region)
IsRegion(S) == sandboxes[S].entry = {}
InRegion(n) == \E S \in Boxes : IsRegion(S) /\ n \in RegionSet(S)
Foreign(x, f) ==
  f \in entryPoints /\ (x = Priv \/ f \notin sandboxes[x].entry)

ReachedFrom(start, succ) ==
  LET R[F \in SUBSET prog.functions] ==
        LET G == F \cup UNION {succ[f] : f \in F} IN IF G = F THEN F ELSE R[G]
  IN R[start]

(* The calls of context x that buildBasicCallGraph() looks at.             *)
CallsLookedAt(x, F) ==
  {c \in CallsIn(prog, InstrsOf(prog, F)) : x = Priv => ~InRegion(c)}

TopCalls(x) == IF x # Priv /\ IsRegion(x) THEN CallsIn(prog, RegionSet(x)) ELSE {}

StartOf(x) ==
  IF x = Priv THEN {"main"} \cap prog.functions
  ELSE sandboxes[x].entry \cup UNION {prog.call[c] : c \in TopCalls(x)}

BasicGraph(x) ==
  LET next == [f \in prog.functions |->
        IF Foreign(x, f) THEN {} ELSE UNION {prog.call[c] : c \in CallsLookedAt(x, f)}]
      funs == {f \in ReachedFrom(StartOf(x), next) : ~Foreign(x, f)}
  IN {e \in (DOMAIN prog.call) \X prog.functions :
        e[2] \in prog.call[e[1]] /\ (e[1] \in TopCalls(x) \/ \E f \in funs : e[1] \in CallsLookedAt(x, f))}

Callees(g, x, c) == {e[2] : e \in {d \in g[x] : d[1] = c}}
CalleesOfFunction(g, x, f) == UNION {Callees(g, x, c) : c \in CallsIn(prog, InstrsOf(prog, f))}

(* calculatePrivilegedMethods().                                           *)
PrivilegedMethods(g) ==
  LET next == [f \in prog.functions |-> CalleesOfFunction(g, Priv, f) \ entryPoints]
  IN ReachedFrom(StartOf(Priv) \ entryPoints, next)

-----------------------------------------------------------------------------
(* Sandbox::init(), one definition for each of its steps.                  *)
FindSandboxedFunctions(g, S) ==
  LET next == [f \in prog.functions |-> {h \in CalleesOfFunction(g, S, f) : ~Foreign(S, h)}]
      initial == IF IsRegion(S) THEN (UNION {Callees(g, S, c) : c \in TopCalls(S)}) \ prog.decl
                 ELSE sandboxes[S].entry
  IN ReachedFrom(initial, next)

FindSandboxedCalls(S, funs) ==
  SetToBag(CallsIn(prog, UNION {InstrsOf(prog, f) : f \in funs})) (+) SetToBag(TopCalls(S))

FindSharedGlobals(S) ==
  LET for(k) == {a.on : a \in {b \in Annots(prog, k) : b.arg = sandboxes[S].name}}
  IN [v \in for("read") \cup for("write") |-> {k \in {"read", "write"} : v \in for(k)}]

FindCallgates(S) ==
  IF sandboxes[S].name \in DOMAIN prog.gates THEN prog.gates[sandboxes[S].name] ELSE << >>

(* The system calls listed, of those that the module mentions: none, if    *)
(* "no system calls" is among them.                                        *)
Allowed(list) == IF "no_syscalls_allowed" \in list THEN {} ELSE list \cap prog.functions

(* File descriptors passed as parameters or in structures; "no system      *)
(* calls" is just another name for the latter.                             *)
FindCapabilities(S) ==
  LET here == UNION {InstrsOf(prog, e) : e \in sandboxes[S].entry}
      fds == {n \in here \cap Notes(prog, "fd") :
                prog.note[n].box \in {None, sandboxes[S].name}}
  IN [n \in fds |-> IF prog.note[n].box = None THEN Allowed(prog.note[n].arg)
                    ELSE prog.note[n].arg \cap prog.functions]

FindCreationPoints(S) ==
  {n \in Notes(prog, "create") : prog.note[n].box = sandboxes[S].name}

FindAllowedSysCalls(S, funs) ==
  [n \in {m \in Notes(prog, "syscalls") :
            \/ IsRegion(S) /\ m \in RegionSet(S)
            \/ FunctionOf(prog, m) \in funs} |-> Allowed(prog.note[n].arg)]

FindPrivateData(S) ==
  {n \in Notes(prog, "private") : prog.note[n].box = sandboxes[S].name}
    \cup {a.on : a \in {b \in Annots(prog, "private") :
                          b.arg = sandboxes[S].name /\ b.on \notin prog.functions}}

(* A sandbox before init(), and after reinit() has cleared everything.     *)
Blank == [functions |-> {}, calls |-> EmptyBag, perms |-> << >>, gates |-> << >>, caps |-> << >>,
          creation |-> {}, limits |-> << >>, private |-> {}]
(* Mutant: reinit() forgets the calls.                                     *)
ClearedButCalls(old) == [Blank EXCEPT !.calls = old.calls]
Cleared(old) == Blank

InitSandbox(g, S, old) ==
  LET funs == FindSandboxedFunctions(g, S)
  IN [functions |-> old.functions \cup funs,
      calls     |-> old.calls (+) FindSandboxedCalls(S, funs),
      perms     |-> FindSharedGlobals(S),
      gates     |-> old.gates \o FindCallgates(S),
      caps      |-> FindCapabilities(S),
      creation  |-> old.creation \cup FindCreationPoints(S),
      limits    |-> FindAllowedSysCalls(S, funs),
      private   |-> old.private \cup FindPrivateData(S)]

(* The last of its creation points says whether a sandbox is persistent;   *)
(* they come in the order of a use list.                                   *)
Persistences(S) ==
  LET said == {prog.note[n].arg = "persistent" : n \in FindCreationPoints(S)}
  IN IF said = {} THEN {sandboxes[S].persistent} ELSE said

Reinit(g, xs) ==
  /\ info' = [S \in Boxes |-> IF S \in xs THEN InitSandbox(g, S, Cleared(info[S])) ELSE info[S]]
  /\ \E q \in [Boxes -> BOOLEAN] :
       /\ \A S \in Boxes : IF S \in xs THEN q[S] \in Persistences(S) ELSE q[S] = sandboxes[S].persistent
       /\ sandboxes' = [S \in Boxes |-> [sandboxes[S] EXCEPT !.persistent = q[S]]]

(* The rest of the set-up: the basic graph, privileged methods, sandboxes. *)
SetUp ==
  /\ phase = "references" /\ toMake = {}
  /\ phase' = "pointers"
  /\ LET g == [x \in Boxes \cup {Priv} |-> BasicGraph(x)]
     IN graph' = g /\ privileged' = PrivilegedMethods(g)
  /\ info' = [S \in Boxes |-> Blank]
  /\ toMake' = {None} \cup prog.late
  /\ UNCHANGED <<prog, annotVars, walk, warned, names, sandboxes>>

ReinitSandboxes ==
  /\ phase = "pointers" /\ None \in toMake
  /\ toMake' = toMake \ {None}
  /\ Reinit(graph, Boxes)
  /\ UNCHANGED <<prog, phase, annotVars, walk, warned, names, graph, privileged>>

(* getContextsForInstruction().                                            *)
ContainsInstruction(S, n) ==
  \/ IsRegion(S) /\ n \in RegionSet(S)
  \/ FunctionOf(prog, n) \in info[S].functions

IsRegionWithin(S, F) ==
  IsRegion(S) /\ sandboxes[S].region # << >> /\ FunctionOf(prog, Head(sandboxes[S].region)) = F

IsPrivilegedInstruction(n) ==
  /\ FunctionOf(prog, n) \in privileged
  /\ ~\E S \in Boxes : IsRegionWithin(S, FunctionOf(prog, n)) /\ ContainsInstruction(S, n)

ContextsOf(n) ==
  {S \in Boxes : ContainsInstruction(S, n)} \cup {x \in {Priv} : IsPrivilegedInstruction(n)}

(* A target of a pointer is found: what depends on the contexts of its     *)
(* call is recalculated, and nothing else.                                 *)
AddTarget ==
  /\ phase = "pointers" /\ None \notin toMake
  /\ \E e \in toMake :
       LET xs == ContextsOf(e[1])
           g == [x \in DOMAIN graph |-> IF x \in xs THEN graph[x] \cup {e} ELSE graph[x]]
       IN /\ toMake' = toMake \ {e}
          /\ graph' = g
          /\ Reinit(g, xs)
          /\ privileged' = IF Priv \in xs THEN PrivilegedMethods(g) ELSE privileged
  /\ UNCHANGED <<prog, phase, annotVars, walk, warned, names>>

EndPointers ==
  /\ phase = "pointers" /\ toMake = {}
  /\ phase' = "ready"
  /\ UNCHANGED <<prog, findVars, initVars>>

Find ==
  \/ EntryAnnotation \/ RightsAnnotation \/ OtherAnnotation \/ EndAnnotations
  \/ MakeFunctionSandbox \/ EndFunctions
  \/ StartRegion \/ WalkSuccessor \/ WalkReturn \/ EndRegion \/ EndRegions
  \/ MakeReferenced \/ SetUp \/ ReinitSandboxes \/ AddTarget \/ EndPointers

-----------------------------------------------------------------------------
Found == graph # << >>

(* Control can lead from the start of a region to these instructions       *)
(* without passing its end: the least set that holds with each instruction *)
(* those that come next.                                                   *)
Following(p, start, n) ==
  LET b == BlockOf(p, n)
      i == PositionOf(p, n)
  IN IF EndsAt(p, start, n) THEN {}
     ELSE IF i < Len(p.body[b]) THEN {p.body[b][i + 1]}
     ELSE {p.body[c][1] : c \in Elements(p.succ[b])}

Inside(p, start) ==
  LET here == InstrsOf(p, FunctionOf(p, start))
      flow == UNION {{n} \X Following(p, start, n) : n \in here}
      closed == {N \in SUBSET here : start \in N /\ \A e \in flow : e[1] \in N => e[2] \in N}
  IN {n \in here : \A N \in closed : n \in N}

EndMissing(p, start) ==
  LET last(n) == PositionOf(p, n) = Len(p.body[BlockOf(p, n)]) /\ p.succ[BlockOf(p, n)] = << >>
  IN \/ \E n \in Inside(p, start) : last(n) /\ ~EndsAt(p, start, n)
     \/ ~\E n \in Inside(p, start) : EndsAt(p, start, n)

LoopsBack(p, start) ==
  \E n \in Inside(p, start) :
    BlockOf(p, n) = BlockOf(p, start) /\ PositionOf(p, n) < PositionOf(p, start)

(***************************************************************************)
(* However blocks branch, join and loop, a region holds each instruction   *)
(* once that control can reach between its start and its end (of a loop    *)
(* back to its start, whose block is not walked again, not all of them),   *)
(* and if control can leave the function inside it, there is a warning.    *)
(***************************************************************************)
RegionsAsMarked ==
  Found =>
    \A n \in Notes(prog, "start") : \E S \in Boxes :
      LET region == sandboxes[S].region
      IN /\ region # << >> /\ Head(region) = n
         /\ Cardinality(RegionSet(S)) = Len(region)
         /\ RegionSet(S) \subseteq Inside(prog, n)
         /\ LoopsBack(prog, n) \/ RegionSet(S) = Inside(prog, n)
         /\ EndMissing(prog, n) => n \in warned

(***************************************************************************)
(* Whatever annotations mention a sandbox, and in whatever order, there is *)
(* one of that name; names and bits correspond; and only regions can make  *)
(* a second sandbox of a name, which has no bit.                           *)
(***************************************************************************)
BitsNameSandboxes ==
  Found =>
    /\ \A n \in Referenced(prog) \cup {entryOf[f] : f \in DOMAIN entryOf} : Named(n) # {}
    /\ \A m, n \in DOMAIN names : names[m] = names[n] => m = n
    /\ \A S \in Boxes :
          IF \E T \in Named(sandboxes[S].name) : T < S
          THEN sandboxes[S].idx = -1 /\ IsRegion(S) /\ sandboxes[S].region # << >>
          ELSE sandboxes[S].idx = names[sandboxes[S].name]

(***************************************************************************)
(* However many edges have been added, and sandboxes reinitialised, what   *)
(* they say is what the present call graph says, nothing twice and nothing *)
(* from before; and the privileged methods are those of that graph.        *)
(***************************************************************************)
InfoCurrent ==
  Found /\ None \notin toMake =>
    /\ privileged = PrivilegedMethods(graph)
    /\ \A S \in Boxes : info[S] = InitSandbox(graph, S, Blank)
=============================================================================
