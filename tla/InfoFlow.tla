------------------------------ MODULE InfoFlow ------------------------------
(***************************************************************************)
(* The context-sensitive information-flow engine of InfoFlowAnalysis.h, on *)
(* which the analyses of function pointers, access origins, classified and *)
(* private data and capabilities are built, with ContextUtils.  Facts are  *)
(* kept for pairs <<value, context>>; the users of a pair that has changed *)
(* pass them on, each in its own way, and a store behind a pointer passes  *)
(* them back to the aggregate ("rewinding").  Join and meet are one        *)
(* operation in a may analysis (union), two in a must analysis.            *)
(*                                                                         *)
(* The program and the analysis are an input, a record:                    *)
(*   kind      [value -> what it is, one of Kinds]                         *)
(*   ops       [instruction or constant -> its operands]; of a store,      *)
(*             value and pointer; of a call, the arguments                 *)
(*   fun       [instruction or parameter -> its function]                  *)
(*   param     [defined function -> its parameters]                        *)
(*   valist    [defined function -> its va_list variable, in a set]        *)
(*   called    [call -> the value that is called]                          *)
(*   name      [direct call -> the callee's name, where it matters]        *)
(*   extern    the calls of functions without body                         *)
(*   graph     [<<call, context>> -> callees, when the analysis starts]    *)
(*   base      [GEP or cast that stripInBoundsOffsets() removes -> what is *)
(*             left]                                                       *)
(*   holds     [alloca in which a parameter is kept -> the parameter]      *)
(*   this      [alloca of an object -> the "this" parameters of its class] *)
(*   main      {main()}, or {}                                             *)
(*   entry     [sandbox -> its entry points]                               *)
(*   gates     [sandbox -> its callgates]                                  *)
(*   seed      [<<value, context>> -> facts]: what initialise() assigns    *)
(*   silent    the pairs among them that it does not enqueue               *)
(*   must, insensitive, tracking   the analysis: does it meet, does it     *)
(*             ignore contexts, is it FPTargetsAnalysis (whose facts are   *)
(*             functions)?                                                 *)
(*   fits      [called pointer -> functions of a compatible type]          *)
(*                                                                         *)
(* The worklist is a set: what is enqueued together comes from sets of     *)
(* pointers, and users in no order that the program fixes.                 *)
(***************************************************************************)
EXTENDS Integers, Sequences, FiniteSets

CONSTANTS
  Programs,
  Facts

VARIABLES
  prog,
  phase,             \* where performDataFlowAnalysis() is
  todo,              \* contexts still to be merged
  callees,           \* getCallees(): <<call, context>> -> functions
  members,           \* the functions of each context, as they are cached
  state,             \* <<value, context>> -> facts ({} where there is none) ...
  known,             \* ... and where there is an entry
  worklist,
  cur,               \* the pair dequeued last ...
  uses,              \* ... its users still to be looked at ...
  jobs,              \* ... the propagations the last one asks for ...
  rewind,            \* ... and the stack of propagateToAggregate() ...
  visited,           \* ... with its visited-set
  inContextCallers   \* callers asked for, by callee: <<call, context>> pairs

graphVars == <<callees, members, inContextCallers>>
vars == <<prog, phase, todo, graphVars, state, known, worklist, cur, uses,
          jobs, rewind, visited>>

PRIV == "priv"      \* ContextUtils::PRIV_CONTEXT
NONE == "none"      \* ContextUtils::NO_CONTEXT
SINGLE == "single"  \* ContextUtils::SINGLE_CONTEXT

Kinds == {"global", "alloca", "arg", "function", "constant", "store", "annot",
          "intrinsic", "call", "ret", "binop", "phi", "select", "gep", "load", "other"}
Storage == {"global", "alloca", "arg"}

Values(p) == DOMAIN p.kind
Defined(p) == DOMAIN p.param
Calls(p) == DOMAIN p.called
Instructions(p) == DOMAIN p.fun \ {v \in Values(p) : p.kind[v] = "arg"}
Boxes(p) == DOMAIN p.entry
Domains(p) == Boxes(p) \cup {PRIV}
AllContexts(p) == Domains(p) \cup {NONE}
Contexts(p) == AllContexts(p) \cup {SINGLE}
Pairs(p) == Values(p) \X Contexts(p)
EntryPoints(p) == UNION {p.entry[S] : S \in Boxes(p)}
Functions(p) ==
  Defined(p) \cup (UNION {p.graph[e] : e \in DOMAIN p.graph})
             \cup (UNION {p.fits[v] : v \in DOMAIN p.fits})

Operands(p, u) == {p.ops[u][i] : i \in DOMAIN p.ops[u]}
Users(p, v) ==
  {u \in DOMAIN p.ops : v \in Operands(p, u) \/ (u \in Calls(p) /\ p.called[u] = v)}

(* Values, their operands and functions.                                   *)
ValuesWellFormed(p) ==
  /\ Values(p) # {} /\ IsFiniteSet(Values(p))
  /\ p.kind \in [Values(p) -> Kinds]
  /\ DOMAIN p.fun \subseteq {v \in Values(p) : p.kind[v] # "constant"}
  /\ \A v \in DOMAIN p.fun : p.fun[v] \in Defined(p)
  /\ DOMAIN p.ops \subseteq Values(p) /\ \A u \in DOMAIN p.ops : p.ops[u] \in Seq(Values(p))
  /\ \A u \in DOMAIN p.ops :
        /\ p.kind[u] # "constant" => u \in Instructions(p)
        /\ p.kind[u] = "store" => Len(p.ops[u]) = 2
  /\ \A v \in Values(p) :
        p.kind[v] \in {"gep", "load", "store", "annot", "select", "phi"} =>
          v \in DOMAIN p.ops /\ p.ops[v] # << >>
  /\ \A f \in Defined(p) : p.param[f] \in Seq(Values(p)) /\ p.valist[f] \subseteq Values(p)

(* Storage and the values that are behind others.                          *)
StorageWellFormed(p) ==
  /\ \A v \in DOMAIN p.base : p.base[v] \in Values(p)
  /\ \A v \in DOMAIN p.holds : p.holds[v] \in DOMAIN p.fun
  /\ \A v \in DOMAIN p.this : p.this[v] \subseteq DOMAIN p.fun
  /\ \A v \in Values(p) : p.kind[v] = "arg" => v \in DOMAIN p.fun

(* A call has an argument for each parameter of what it may call.          *)
CallsWellFormed(p) ==
  /\ Calls(p) = {u \in DOMAIN p.ops : p.kind[u] = "call"}
  /\ p.called \in [Calls(p) -> Values(p)] /\ p.extern \subseteq Calls(p)
  /\ \A u \in DOMAIN p.name : u \in Calls(p) /\ p.ops[u] # << >>
  /\ p.graph \in [Calls(p) \X Contexts(p) -> SUBSET Functions(p)]
  /\ \A u \in Calls(p) : \A x \in Contexts(p) : \A f \in p.graph[<<u, x>>] \cap Defined(p) :
        Len(p.param[f]) <= Len(p.ops[u])
  /\ \A u \in Calls(p) : p.called[u] \in DOMAIN p.fits =>
        \A f \in p.fits[p.called[u]] \cap Defined(p) : Len(p.param[f]) <= Len(p.ops[u])
  /\ \A S, T \in Boxes(p) : S # T => p.entry[S] \cap p.entry[T] = {}

(* Parameters belong to one function each; nothing that has a body is      *)
(* called where a function without body is.                                *)
FunctionsWellFormed(p) ==
  /\ \A f \in Defined(p) : \A i \in DOMAIN p.param[f] :
        LET A == p.param[f][i]
        IN /\ A \in DOMAIN p.fun /\ p.fun[A] = f /\ p.kind[A] = "arg"
           /\ \A k \in DOMAIN p.param[f] : p.param[f][k] = A => k = i
  /\ \A f \in Defined(p) : \A v \in p.valist[f] :
        v \in DOMAIN p.fun /\ p.fun[v] = f /\ p.kind[v] = "alloca"
  /\ \A u \in p.extern : \A x \in Contexts(p) : p.graph[<<u, x>>] \cap Defined(p) = {}

AnalysisWellFormed(p) ==
  /\ p.must \in BOOLEAN /\ p.insensitive \in BOOLEAN /\ p.tracking \in BOOLEAN
  /\ p.silent \subseteq DOMAIN p.seed /\ DOMAIN p.seed \subseteq Pairs(p)
  /\ \A e \in DOMAIN p.seed : p.seed[e] \subseteq Facts
  /\ p.tracking => ~p.must /\ \A u \in Calls(p) \ p.extern : p.called[u] \in DOMAIN p.fits
  /\ \A v \in DOMAIN p.fits : p.fits[v] \subseteq Facts

WellFormed(p) ==
  /\ Boxes(p) \cap {PRIV, NONE, SINGLE} = {} /\ IsFiniteSet(Boxes(p))
  /\ ValuesWellFormed(p) /\ StorageWellFormed(p) /\ CallsWellFormed(p)
  /\ FunctionsWellFormed(p) /\ AnalysisWellFormed(p)

ASSUME ProgramsAssumption == \A p \in Programs : WellFormed(p)

-----------------------------------------------------------------------------
(* Contexts.                                                               *)

ClosedUnder(succ, C) == \A f \in C : succ[f] \subseteq C
Reach(F, succ, start) ==
  {f \in F : \A C \in SUBSET F : start \subseteq C /\ ClosedUnder(succ, C) => f \in C}

(* What Sandbox and SandboxUtils calculate of the call graph g for context *)
(* x (module CallGraph has how and when).                                  *)
MembersOf(p, g, x) ==
  LET own == IF x \in Boxes(p) THEN p.entry[x] ELSE {}
      foreign == EntryPoints(p) \ own
      callsOf(f) == {d \in Calls(p) : p.fun[d] = f}
      succ == [f \in Functions(p) |-> (UNION {g[<<d, x>>] : d \in callsOf(f)}) \ foreign]
  IN Reach(Functions(p), succ, IF x = PRIV THEN p.main \ foreign ELSE own)

MembersIn(g, x) == MembersOf(prog, g, x)

(* getContextsForMethod(), getContextsForInstruction().                    *)
ContextsOf(f) ==
  IF prog.insensitive THEN {SINGLE} ELSE {x \in Domains(prog) : f \in members[x]}

IsInContext(u, x) == x \in ContextsOf(prog.fun[u])

CalleeContext(x, f) ==
  IF prog.insensitive THEN SINGLE
  ELSE IF f \in EntryPoints(prog) THEN CHOOSE S \in Boxes(prog) : f \in prog.entry[S]
  ELSE IF x \in Boxes(prog) /\ f \in prog.gates[x] THEN PRIV
  ELSE x

CallerContexts(f, d, x) ==
  IF prog.insensitive THEN {SINGLE}
  ELSE IF f \in EntryPoints(prog) THEN ContextsOf(prog.fun[d])
  ELSE {x}

(* getCallers().                                                           *)
Callers(f, x) == {d \in Calls(prog) : f \in callees[<<d, x>>]}

-----------------------------------------------------------------------------
Init ==
  /\ prog \in Programs
  /\ todo = IF prog.insensitive THEN {e[2] : e \in DOMAIN prog.seed} ELSE {}
  /\ phase = "merge"
  /\ callees = prog.graph
  /\ members = [x \in Domains(prog) |-> MembersIn(prog.graph, x)]
  /\ inContextCallers = [f \in {} |-> {}]
  /\ state = [e \in Pairs(prog) |-> IF e \in DOMAIN prog.seed THEN prog.seed[e] ELSE {}]
  /\ known = DOMAIN prog.seed
  /\ worklist = IF prog.insensitive THEN {} ELSE DOMAIN prog.seed \ prog.silent
  /\ cur = CHOOSE e \in Pairs(prog) : TRUE
  /\ uses = {} /\ jobs = {} /\ rewind = << >> /\ visited = {}

Idle == uses = {} /\ jobs = {} /\ rewind = << >>

(* The contexts' entries are moved to the single one, a later context's    *)
(* over an earlier one's; contexts are visited in order of their address.  *)
MergeContext ==
  /\ phase = "merge"
  /\ \E x \in todo :
       LET vs == {v \in Values(prog) : <<v, x>> \in known}
       IN /\ todo' = todo \ {x}
          /\ state' = [e \in Pairs(prog) |->
                         IF e[2] = SINGLE /\ e[1] \in vs THEN state[<<e[1], x>>] ELSE state[e]]
          /\ known' = known \cup (vs \X {SINGLE})
          /\ worklist' = worklist \cup (vs \X {SINGLE})
  /\ UNCHANGED <<prog, phase, graphVars, cur, uses, jobs, rewind, visited>>

Merged ==
  /\ phase = "merge" /\ todo = {}
  /\ phase' = "flow"
  /\ UNCHANGED <<prog, todo, graphVars, state, known, worklist, cur, uses, jobs, rewind, visited>>

Dequeue ==
  /\ phase = "flow" /\ Idle
  /\ \E e \in worklist :
        /\ cur' = e
        /\ worklist' = worklist \ {e}
        /\ uses' = Users(prog, e[1])
  /\ UNCHANGED <<prog, phase, todo, graphVars, state, known, jobs, rewind, visited>>

-----------------------------------------------------------------------------
(***************************************************************************)
(* A job is one call of propagateToValue(): [from, to, how, back].  how is *)
(* "add" (additive), "pass" (join in a may analysis, meet in a must one),  *)
(* "copy" (additive, and to is enqueued in any case) or "set" (to becomes  *)
(* the meet over from).  back: if to changes, its aggregate follows.       *)
(***************************************************************************)
Job(from, to, how) == [from |-> from, to |-> to, how |-> how, back |-> FALSE]

Take(u) ==
  /\ phase = "flow" /\ jobs = {} /\ rewind = << >>
  /\ uses' = uses \ {u}

Here(u) ==
  /\ u \in Instructions(prog) /\ cur[2] # NONE /\ IsInContext(u, cur[2])

(* A constant built from the value.                                        *)
UseConstant ==
  /\ \E u \in uses :
        /\ Take(u) /\ prog.kind[u] = "constant"
        /\ jobs' = {Job({cur}, <<u, cur[2]>>, "add")}
  /\ UNCHANGED <<prog, phase, todo, graphVars, state, known, worklist, cur, rewind, visited>>

(* Mutant: a value without context counts as privileged.                   *)
UseFindsPrivileged ==
  /\ \E u \in uses :
        /\ Take(u) /\ u \in Instructions(prog) /\ cur[2] = NONE
        /\ jobs' = {Job({cur}, <<cur[1], x>>, "copy") : x \in ContextsOf(prog.fun[u]) \cap {PRIV}}
  /\ UNCHANGED <<prog, phase, todo, graphVars, state, known, worklist, cur, rewind, visited>>

(* A value without context gets the contexts of its user.                  *)
UseFindsContexts ==
  /\ \E u \in uses :
        /\ Take(u) /\ u \in Instructions(prog) /\ cur[2] = NONE
        /\ jobs' = {Job({cur}, <<cur[1], x>>, "copy") : x \in ContextsOf(prog.fun[u])}
  /\ UNCHANGED <<prog, phase, todo, graphVars, state, known, worklist, cur, rewind, visited>>

(* A user in other contexts only, an intrinsic, a store through the value. *)
UseIgnored ==
  /\ \E u \in uses :
        /\ Take(u) /\ u \in Instructions(prog) /\ cur[2] # NONE
        /\ \/ ~IsInContext(u, cur[2])
           \/ prog.kind[u] = "intrinsic"
           \/ prog.kind[u] = "store" /\ cur[1] = prog.ops[u][2]
  /\ UNCHANGED <<prog, phase, todo, graphVars, state, known, worklist, cur, jobs, rewind, visited>>

UseStore ==
  /\ \E u \in uses :
        /\ Take(u) /\ Here(u) /\ prog.kind[u] = "store" /\ cur[1] # prog.ops[u][2]
        /\ LET ptr == prog.ops[u][2]
           IN jobs' = {[Job({cur}, <<ptr, cur[2]>>, "pass") EXCEPT !.back = prog.kind[ptr] = "gep"]}
  /\ UNCHANGED <<prog, phase, todo, graphVars, state, known, worklist, cur, rewind, visited>>

(* What is known of library functions: where V goes, in a set.             *)
ExternResult(u, v) ==
  LET arg(i) == prog.ops[u][i]
      name == IF u \in DOMAIN prog.name THEN prog.name[u] ELSE "?"
  IN CASE name = "strdup" -> {u}
       [] name \in {"asprintf", "vasprintf"} /\ arg(1) # v /\ arg(2) # v -> {arg(1)}
       [] name = "strcpy" /\ arg(1) # v -> {arg(1)}
       [] name = "g_ptr_array_add" /\ arg(2) = v -> {arg(1)}
       [] name = "g_hash_table_insert" /\ arg(3) = v -> {arg(1)}
       [] name = "g_hash_table_lookup" /\ arg(1) = v -> {u}
       [] OTHER -> {}

UseExtern ==
  /\ \E u \in uses :
        /\ Take(u) /\ Here(u) /\ u \in prog.extern
        /\ jobs' = {[Job({cur}, <<r, cur[2]>>, "pass") EXCEPT !.back = r # u] :
                      r \in ExternResult(u, cur[1])}
  /\ UNCHANGED <<prog, phase, todo, graphVars, state, known, worklist, cur, rewind, visited>>

(* Mutant: the result has the facts of an operand.                         *)
UseBinaryOpPasses ==
  /\ \E u \in uses :
        /\ Take(u) /\ Here(u) /\ prog.kind[u] = "binop"
        /\ state' = [state EXCEPT ![<<u, cur[2]>>] = state[cur]]
        /\ known' = known \cup {<<u, cur[2]>>}
        /\ worklist' = worklist \cup {<<u, cur[2]>>}
  /\ UNCHANGED <<prog, phase, todo, graphVars, cur, jobs, rewind, visited>>

(* Facts are not combined: the result of a binary operator has none.       *)
UseBinaryOp ==
  /\ \E u \in uses :
        /\ Take(u) /\ Here(u) /\ prog.kind[u] = "binop"
        /\ state' = [state EXCEPT ![<<u, cur[2]>>] = {}]
        /\ known' = known \cup {<<u, cur[2]>>}
        /\ worklist' = worklist \cup {<<u, cur[2]>>}
  /\ UNCHANGED <<prog, phase, todo, graphVars, cur, jobs, rewind, visited>>

(* Phi and select: a must analysis takes the meet of what comes in.        *)
UseMerge ==
  /\ \E u \in uses :
        /\ Take(u) /\ Here(u) /\ prog.kind[u] \in {"phi", "select"}
        /\ jobs' = {IF prog.must
                    THEN Job({<<v, cur[2]>> : v \in Operands(prog, u)}, <<u, cur[2]>>, "set")
                    ELSE Job({cur}, <<u, cur[2]>>, "pass")}
  /\ UNCHANGED <<prog, phase, todo, graphVars, state, known, worklist, cur, rewind, visited>>

UseOther ==
  /\ \E u \in uses :
        /\ Take(u) /\ Here(u) /\ prog.kind[u] \in {"annot", "gep", "load", "other"}
        /\ jobs' = {Job({cur}, <<u, cur[2]>>, "pass")}
  /\ UNCHANGED <<prog, phase, todo, graphVars, state, known, worklist, cur, rewind, visited>>

-----------------------------------------------------------------------------
(* Calls and returns.                                                      *)

(* Where argument i of a call goes in f, in a set: varargs to the va_list. *)
Formal(f, i) ==
  IF i \in DOMAIN prog.param[f] THEN {prog.param[f][i]} ELSE prog.valist[f]

(* getCallersInContext(): what is found when f is asked for first, in      *)
(* context x, is kept.                                                     *)
CallersFound(f, x) ==
  IF f \in DOMAIN inContextCallers THEN inContextCallers[f]
  ELSE {e \in Callers(f, x) \X Contexts(prog) : e[2] \in ContextsOf(prog.fun[e[1]])}

(* What a must analysis meets for argument i of f, called in context x.    *)
Actuals(f, x, i) ==
  UNION {{<<prog.ops[d][k], x>> :
            k \in IF i \in DOMAIN prog.param[f] THEN {i} \cap DOMAIN prog.ops[d]
                  ELSE DOMAIN prog.ops[d] \ DOMAIN prog.param[f]} :
         d \in {e[1] : e \in {g \in CallersFound(f, x) : g[2] = x}}}

(* Mutant: only the argument of this call counts in a must analysis.       *)
CalleeJobsOfCall(u, fs, is) ==
  {Job(IF prog.must THEN {<<prog.ops[u][z[2]], cur[2]>>} ELSE {cur},
       <<z[3], CalleeContext(cur[2], z[1])>>, IF prog.must THEN "set" ELSE "pass") :
     z \in {w \in fs \X is \X Values(prog) : w[3] \in Formal(w[1], w[2])}}

(* propagateToCallees(), for the callees fs and the argument positions is. *)
CalleeJobs(u, fs, is) ==
  {Job(IF prog.must THEN Actuals(z[1], cur[2], z[2]) ELSE {cur},
       <<z[3], CalleeContext(cur[2], z[1])>>, IF prog.must THEN "set" ELSE "pass") :
     z \in {w \in fs \X is \X Values(prog) : w[3] \in Formal(w[1], w[2])}}

Positions(u, v) == {i \in DOMAIN prog.ops[u] : prog.ops[u][i] = v}

(* Only the first position that holds V is looked at.                      *)
FirstPosition(u, v) == {i \in Positions(u, v) : \A k \in Positions(u, v) : i <= k}

RememberCallers(fs, is) ==
  LET asked == {f \in fs : prog.must /\ \E i \in is : Formal(f, i) # {}}
  IN inContextCallers' =
       [f \in DOMAIN inContextCallers \cup asked |-> CallersFound(f, cur[2])]

(* V is an argument.                                                       *)
UseArgument ==
  /\ \E u \in uses :
        /\ Take(u) /\ Here(u) /\ u \in Calls(prog) \ prog.extern /\ prog.called[u] # cur[1]
        /\ LET fs == callees[<<u, cur[2]>>] \cap Defined(prog)
           IN /\ jobs' = CalleeJobs(u, fs, FirstPosition(u, cur[1]))
              /\ RememberCallers(fs, FirstPosition(u, cur[1]))
  /\ UNCHANGED <<prog, phase, todo, callees, members, state, known, worklist, cur, rewind, visited>>

(* addCallees() refreshes what the context of a new edge caches.           *)
Refresh(x) ==
  members' = [y \in Domains(prog) |->
                IF y = x /\ callees' # callees THEN MembersIn(callees', y) ELSE members[y]]

(* Mutant: new callees are recorded without regard to the pointer's type.  *)
UsePointerUnfiltered ==
  /\ \E u \in uses :
        /\ Take(u) /\ Here(u) /\ u \in Calls(prog) \ prog.extern /\ prog.called[u] = cur[1]
        /\ LET new == IF prog.tracking THEN state[cur] ELSE {}
               fs == (callees[<<u, cur[2]>>] \cup new) \cap Defined(prog)
           IN /\ callees' = [callees EXCEPT ![<<u, cur[2]>>] = @ \cup new]
              /\ Refresh(cur[2])
              /\ jobs' = CalleeJobs(u, fs, DOMAIN prog.ops[u])
              /\ RememberCallers(fs, DOMAIN prog.ops[u])
  /\ UNCHANGED <<prog, phase, todo, state, known, worklist, cur, rewind, visited>>

(* V is called.  stateChangedForFunctionPointer() of FPTargetsAnalysis     *)
(* drops functions of other types and records the rest as callees.  Then   *)
(* each parameter is propagated to, from V.                                *)
UsePointer ==
  /\ \E u \in uses :
        /\ Take(u) /\ Here(u) /\ u \in Calls(prog) \ prog.extern /\ prog.called[u] = cur[1]
        /\ LET new == IF prog.tracking THEN state[cur] \cap prog.fits[cur[1]] ELSE {}
               fs == (callees[<<u, cur[2]>>] \cup new) \cap Defined(prog)
           IN /\ callees' = [callees EXCEPT ![<<u, cur[2]>>] = @ \cup new]
              /\ Refresh(cur[2])
              /\ state' = [state EXCEPT ![cur] = IF prog.tracking THEN new ELSE @]
              /\ jobs' = CalleeJobs(u, fs, DOMAIN prog.ops[u])
              /\ RememberCallers(fs, DOMAIN prog.ops[u])
  /\ UNCHANGED <<prog, phase, todo, known, worklist, cur, rewind, visited>>

(* The values that f returns.                                              *)
Results(f) ==
  UNION {Operands(prog, r) : r \in {s \in DOMAIN prog.ops : prog.kind[s] = "ret" /\ prog.fun[s] = f}}

(* propagateToCallers().  A must analysis meets all results of the call.   *)
UseReturn ==
  /\ \E u \in uses :
        /\ Take(u) /\ Here(u) /\ prog.kind[u] = "ret"
        /\ LET f == prog.fun[u]
               returned(d, x) ==
                 UNION {Results(g) \X {CalleeContext(x, g)} : g \in callees[<<d, x>>]}
           IN jobs' = {Job(IF prog.must THEN returned(z[1], z[2]) ELSE {cur}, z,
                           IF prog.must THEN "set" ELSE "pass") :
                         z \in {w \in Callers(f, cur[2]) \X Contexts(prog) :
                                  w[2] \in CallerContexts(f, w[1], cur[2])}}
  /\ UNCHANGED <<prog, phase, todo, graphVars, state, known, worklist, cur, rewind, visited>>

-----------------------------------------------------------------------------
(* propagateToValue().                                                     *)

(* The meet over a set of pairs; over none, a fact just constructed.       *)
MeetOver(es) ==
  IF es = {} THEN {} ELSE {x \in Facts : \A e \in es : x \in state[e]}

NewState(j) ==
  LET facts == MeetOver(j.from)
  IN IF j.how = "set" \/ j.to \notin known THEN facts
     ELSE IF j.how = "pass" /\ prog.must THEN state[j.to] \cap facts
     ELSE state[j.to] \cup facts

(* Mutant: what is propagated to is enqueued in any case.                  *)
ChangesAlways(j) == TRUE

(* Is the new state to be propagated?  An entry that is new always is,     *)
(* unless it was set.                                                      *)
Changes(j) ==
  \/ NewState(j) # state[j.to]
  \/ j.how # "set" /\ j.to \notin known

Task(src, dst, do) == [src |-> src, dst |-> dst, do |-> do]

Propagate ==
  /\ phase = "flow" /\ rewind = << >>
  /\ \E j \in jobs :
        /\ jobs' = jobs \ {j}
        /\ state' = [state EXCEPT ![j.to] = NewState(j)]
        /\ known' = known \cup {j.to} \cup j.from
        /\ worklist' = IF Changes(j) \/ j.how = "copy" THEN worklist \cup {j.to} ELSE worklist
        /\ rewind' = IF j.back /\ Changes(j) THEN <<Task(j.to, j.to, "visit")>> ELSE << >>
  /\ visited' = {}
  /\ UNCHANGED <<prog, phase, todo, graphVars, cur, uses>>

-----------------------------------------------------------------------------
(***************************************************************************)
(* propagateToAggregate(V, C, Agg), as a stack of tasks: [src, dst, do].   *)
(* "visit": go on behind dst, "write": add what src has to dst.            *)
(***************************************************************************)

(* stripInBoundsOffsets().                                                 *)
Strip(a) == IF a \in DOMAIN prog.base THEN prog.base[a] ELSE a

(* What is behind a value that is not itself storage.                      *)
Back(a) ==
  IF prog.kind[a] \in {"gep", "load", "annot"} THEN <<prog.ops[a][1]>>
  ELSE IF a \in DOMAIN prog.name /\ prog.name[a] = "buffer_ptr" THEN <<prog.ops[a][1]>>
  ELSE IF prog.kind[a] \in {"select", "phi"} THEN prog.ops[a]
  ELSE << >>

(* The parameter that the storage is, or holds, in a set.                  *)
Parameter(a) ==
  IF prog.kind[a] = "arg" THEN {a}
  ELSE IF a \in DOMAIN prog.holds THEN {prog.holds[a]} ELSE {}

(* What call d passes for parameter A, in each of its contexts.            *)
PassedBy(d, A) ==
  LET position == {k \in DOMAIN prog.ops[d] \cap DOMAIN prog.param[prog.fun[A]] :
                     prog.param[prog.fun[A]][k] = A}
  IN {prog.ops[d][k] : k \in position} \X ContextsOf(prog.fun[d])

(* The pairs of argument and context that callers, in context x, pass for  *)
(* the parameter.                                                          *)
Passed(a, x) ==
  UNION {UNION {PassedBy(d, A) : d \in Callers(prog.fun[A], x)} : A \in Parameter(a)}

Orders(S) == {s \in [1..Cardinality(S) -> S] : \A x \in S : \E i \in DOMAIN s : s[i] = x}

Interleave(src, s) ==
  [i \in 1..(2 * Len(s)) |->
     LET e == s[(i + 1) \div 2]
     IN IF i % 2 = 1 THEN Task(src, e, "write") ELSE Task(e, e, "visit")]

(* Mutant: the entry that is enqueued need not exist.                      *)
JoinUnrecorded(src, dsts) ==
  /\ state' = [e \in Pairs(prog) |-> IF e \in dsts THEN state[e] \cup state[src] ELSE state[e]]
  /\ known' = known \cup {src}
  /\ worklist' = worklist \cup
                   {e \in dsts : e \notin known \/ ~(state[src] \subseteq state[e])}

(* Add the facts of src to each pair of dsts.                              *)
Join(src, dsts) ==
  /\ state' = [e \in Pairs(prog) |-> IF e \in dsts THEN state[e] \cup state[src] ELSE state[e]]
  /\ known' = known \cup dsts \cup {src}
  /\ worklist' = worklist \cup
                   {e \in dsts : e \notin known \/ ~(state[src] \subseteq state[e])}

Rewinding ==
  /\ phase = "flow" /\ rewind # << >>
  /\ UNCHANGED <<prog, phase, todo, graphVars, cur, uses, jobs>>

RewindWrite ==
  /\ Rewinding
  /\ LET t == Head(rewind) IN t.do = "write" /\ Join(t.src, {t.dst})
  /\ rewind' = Tail(rewind)
  /\ UNCHANGED visited

RewindVisited ==
  /\ Rewinding
  /\ LET t == Head(rewind) IN t.do = "visit" /\ Strip(t.dst[1]) \in visited
  /\ rewind' = Tail(rewind)
  /\ UNCHANGED <<state, known, worklist, visited>>

(* Storage: it gets the facts, and so do all "this" of the class of an     *)
(* object; of a parameter, the callers' arguments and what is behind them. *)
RewindStorage ==
  /\ Rewinding
  /\ LET t == Head(rewind)
         x == t.dst[2]
         a == Strip(t.dst[1])
         this == IF a \in DOMAIN prog.this THEN prog.this[a] ELSE {}
     IN /\ t.do = "visit" /\ a \notin visited /\ prog.kind[a] \in Storage
        /\ Join(t.src, {<<a, x>>} \cup
                         UNION {{A} \X ContextsOf(prog.fun[A]) : A \in this})
        /\ visited' = visited \cup {a}
        /\ \E s \in Orders(Passed(a, x)) : rewind' = Interleave(t.src, s) \o Tail(rewind)

(* Any other value gets them after what is behind it.                      *)
RewindValue ==
  /\ Rewinding
  /\ LET t == Head(rewind)
         x == t.dst[2]
         a == Strip(t.dst[1])
     IN /\ t.do = "visit" /\ a \notin visited /\ prog.kind[a] \notin Storage
        /\ visited' = visited \cup {a}
        /\ rewind' = [i \in DOMAIN Back(a) |-> Task(t.src, <<Back(a)[i], x>>, "visit")]
                       \o <<Task(t.src, <<a, x>>, "write")>> \o Tail(rewind)
  /\ UNCHANGED <<state, known, worklist>>

-----------------------------------------------------------------------------
(* The fixed point is reached; the single context is copied to all.        *)
Finish ==
  /\ phase = "flow" /\ Idle /\ worklist = {}
  /\ phase' = "done"
  /\ LET copied == {e \in Values(prog) \X AllContexts(prog) :
                       prog.insensitive /\ <<e[1], SINGLE>> \in known}
     IN /\ state' = [e \in Pairs(prog) |->
                        IF e \in copied THEN state[<<e[1], SINGLE>>] ELSE state[e]]
        /\ known' = known \cup copied
  /\ UNCHANGED <<prog, todo, graphVars, worklist, cur, uses, jobs, rewind, visited>>

Use ==
  \/ UseConstant \/ UseFindsContexts \/ UseIgnored \/ UseStore \/ UseExtern
  \/ UseBinaryOp \/ UseMerge \/ UseOther \/ UseArgument \/ UsePointer \/ UseReturn

Rewind == RewindWrite \/ RewindVisited \/ RewindStorage \/ RewindValue

Next == MergeContext \/ Merged \/ Dequeue \/ Use \/ Propagate \/ Rewind \/ Finish

(* Sequential code: it keeps running until it returns.                     *)
Spec == Init /\ [][Next]_vars /\ WF_vars(Next)

-----------------------------------------------------------------------------
TypeOK ==
  /\ phase \in {"merge", "flow", "done"}
  /\ todo \subseteq Contexts(prog)
  /\ callees \in [Calls(prog) \X Contexts(prog) -> SUBSET Functions(prog)]
  /\ members \in [Domains(prog) -> SUBSET Functions(prog)]
  /\ state \in [Pairs(prog) -> SUBSET Facts]
  /\ known \subseteq Pairs(prog) /\ worklist \subseteq known
  /\ cur \in Pairs(prog) /\ uses \subseteq DOMAIN prog.ops
  /\ jobs \subseteq [from : SUBSET Pairs(prog), to : Pairs(prog),
                    how : {"add", "pass", "copy", "set"}, back : BOOLEAN]
  /\ rewind \in Seq([src : Pairs(prog), dst : Pairs(prog), do : {"visit", "write"}])
  /\ visited \subseteq Values(prog)
  /\ \A f \in DOMAIN inContextCallers :
        inContextCallers[f] \subseteq Calls(prog) \X Contexts(prog)

Done == phase = "done"

(* Control changes context between f and its callers.                      *)
Crossing(f) == f \in EntryPoints(prog) \cup UNION {prog.gates[S] : S \in Boxes(prog)}

(***************************************************************************)
(* Where the program makes a value flow, said without the engine: to what  *)
(* is computed from it, through stores, into parameters and, of functions  *)
(* that run where they are called, back to the callers.                    *)
(***************************************************************************)
IntoParameters(u, x, v) ==
  UNION {Formal(w[1], w[2]) \X {CalleeContext(x, w[1])} :
           w \in (callees[<<u, x>>] \cap Defined(prog)) \X Positions(u, v)}

BackToCallers(f, x) ==
  IF Crossing(f) THEN {} ELSE Callers(f, x) \X {x}

FlowsAt(u, v, x) ==
  CASE prog.kind[u] = "constant" -> {<<u, x>>}
    [] prog.kind[u] # "constant" /\ x = NONE -> {v} \X ContextsOf(prog.fun[u])
    [] OTHER ->
         IF ~IsInContext(u, x) THEN {}
         ELSE CASE prog.kind[u] = "store" -> {<<prog.ops[u][2], x>>}
                [] u \in prog.extern -> ExternResult(u, v) \X {x}
                [] u \in Calls(prog) \ prog.extern -> IntoParameters(u, x, v)
                [] prog.kind[u] = "ret" -> BackToCallers(prog.fun[u], x)
                [] prog.kind[u] \in {"phi", "select", "annot", "gep", "load", "other"} -> {<<u, x>>}
                [] OTHER -> {}

Flows(e) == UNION {FlowsAt(u, e[1], e[2]) : u \in Users(prog, e[1])}

(* What can be kept for a value: a called pointer loses misfits, and the   *)
(* result of a binary operator all there was.                              *)
Fitting(v) ==
  IF prog.kind[v] = "binop" THEN {}
  ELSE IF prog.tracking /\ v \in DOMAIN prog.fits THEN prog.fits[v] ELSE Facts

NoRepeatedArguments ==
  \A u \in Calls(prog) : Cardinality(Operands(prog, u)) = Len(prog.ops[u])

(***************************************************************************)
(* A may analysis ends with the facts of a value wherever the value flows, *)
(* in whatever order the worklist is emptied; as long as the call graph    *)
(* stays as it is (a callee found late gets the facts of the called        *)
(* pointer, not those of the arguments) and no call passes a value twice   *)
(* (only the first of its positions is propagated).                        *)
(***************************************************************************)
FlowComplete ==
  Done /\ ~prog.must /\ callees = prog.graph /\ NoRepeatedArguments =>
    \A e \in known \ prog.silent : \A t \in Flows(e) : state[e] \cap Fitting(t[1]) \subseteq state[t]

(***************************************************************************)
(* ... and with no other facts: each is derived from a seed.  Besides the  *)
(* program's flows there are some of the engine's: a result reaches the    *)
(* calls of its function in every context of theirs, a called pointer's    *)
(* facts the parameters of its callees, and what is stored behind a        *)
(* pointer, or passed for a parameter there, what is behind that.          *)
(***************************************************************************)
Closure(start, succ) ==
  LET R[S \in SUBSET DOMAIN succ] ==
        LET T == S \cup UNION {succ[e] : e \in S} IN IF T = S THEN S ELSE R[T]
  IN R[start]

BehindStep(e) ==
  LET a == Strip(e[1])
      this == IF a \in DOMAIN prog.this THEN prog.this[a] ELSE {}
  IN {<<a, e[2]>>} \cup Passed(a, e[2])
       \cup (UNION {{A} \X ContextsOf(prog.fun[A]) : A \in this})
       \cup (IF prog.kind[a] \in Storage THEN {}
             ELSE {Back(a)[i] : i \in DOMAIN Back(a)} \X {e[2]})

Behind(e) == Closure({e}, [d \in Pairs(prog) |-> BehindStep(d)])

StoredTo ==
  {prog.ops[u][2] : u \in {s \in DOMAIN prog.ops : prog.kind[s] = "store"}}
    \cup {prog.ops[u][1] : u \in {s \in prog.extern : prog.ops[s] # << >>}}

RewoundFrom ==
  LET stored == StoredTo \X Contexts(prog)
  IN stored \cup UNION {UNION {Passed(Strip(d[1]), d[2]) : d \in Behind(e)} : e \in stored}

(* What a must analysis takes into a meet: for a parameter, what calls of  *)
(* its function pass, in whatever context these were found; for a call,    *)
(* what its callees return.                                                *)
MetByParameters(e) ==
  LET mayCall(d) == {f \in Defined(prog) : \E x \in Contexts(prog) : f \in callees[<<d, x>>]}
  IN UNION {UNION {Formal(w[1], w[2]) \X {CalleeContext(e[2], w[1])} :
                     w \in mayCall(d) \X Positions(d, e[1])} :
            d \in {c \in Calls(prog) : IsInContext(c, e[2])}}

MetByCalls(e) ==
  {z \in Calls(prog) \X Contexts(prog) :
     \E f \in callees[z] : e \in Results(f) \X {CalleeContext(z[2], f)}}

EngineFlows(e) ==
  Flows(e)
    \cup (IF e \in RewoundFrom THEN Behind(e) ELSE {})
    \cup (UNION {UNION {Formal(w[1], w[2]) \X {CalleeContext(e[2], w[1])} :
                          w \in (callees[<<u, e[2]>>] \cap Defined(prog)) \X DOMAIN prog.ops[u]} :
                 u \in {d \in Calls(prog) : prog.called[d] = e[1]}})
    \cup (UNION {UNION {{d} \X CallerContexts(prog.fun[r], d, e[2]) : d \in Callers(prog.fun[r], e[2])} :
                 r \in {s \in Users(prog, e[1]) : prog.kind[s] = "ret"}})
    \cup (IF prog.must THEN MetByParameters(e) \cup MetByCalls(e) ELSE {})
    \cup (IF prog.insensitive THEN {e[1]} \X Contexts(prog) ELSE {})

Derived(x) ==
  Closure({e \in DOMAIN prog.seed : x \in prog.seed[e]}, [e \in Pairs(prog) |-> EngineFlows(e)])

NoSpuriousFact ==
  Done => \A x \in Facts : {e \in Pairs(prog) : x \in state[e]} \subseteq Derived(x)

(***************************************************************************)
(* The analysis of function pointers, which adds call-graph edges while it *)
(* runs, adds in the end each edge that its facts say, and none that they  *)
(* do not or that the pointer's type rules out.  All of them for the calls *)
(* that the context had when the analysis started: one that enters it with *)
(* a new edge is not looked at until a fact reaches its pointer.           *)
(***************************************************************************)
FromTheStart(u, x) == ~prog.insensitive /\ prog.fun[u] \in MembersIn(prog.graph, x)

TargetsExact ==
  Done /\ prog.tracking =>
    \A u \in Calls(prog) \ prog.extern : \A x \in Domains(prog) :
      LET e == <<prog.called[u], x>>
      IN /\ FromTheStart(u, x) /\ e \notin prog.silent =>
               state[e] \cap prog.fits[e[1]] \subseteq callees[<<u, x>>]
         /\ \A f \in callees[<<u, x>>] \ prog.graph[<<u, x>>] :
               f \in prog.fits[e[1]] /\ e \in Derived(f)

(***************************************************************************)
(* "To be sound, we need to take the meet of all values passed in": a must *)
(* analysis says nothing of a merge, a parameter or a result that does not *)
(* hold of everything that can come in.  Of functions that run where they  *)
(* are called, and are called in one context only (getCallersInContext()   *)
(* keeps what it found for the first); and if facts do not come in other   *)
(* ways too: from the analysis, or from a store behind the pointer, which  *)
(* is joined to what the pointer has in a must analysis as well.           *)
(***************************************************************************)
OneContext(f) == ~Crossing(f) /\ Cardinality({x \in Contexts(prog) : Callers(f, x) # {}}) <= 1

Given(v, x) ==
  \E y \in {x, NONE} : <<v, y>> \in DOMAIN prog.seed \cup UNION {Behind(e) : e \in RewoundFrom}

MustBeSound ==
  Done /\ prog.must /\ ~prog.insensitive /\ NoRepeatedArguments =>
    \A u \in DOMAIN prog.ops : \A x \in Domains(prog) :
      u \in Instructions(prog) /\ IsInContext(u, x) =>
        /\ prog.kind[u] \in {"phi", "select"} /\ ~Given(u, x) =>
              \A v \in Operands(prog, u) : state[<<u, x>>] \subseteq state[<<v, x>>]
        /\ u \in Calls(prog) /\ (\A f \in callees[<<u, x>>] : OneContext(f)) =>
              /\ \A f \in callees[<<u, x>>] \cap Defined(prog) : \A i \in DOMAIN prog.ops[u] :
                    \A A \in Formal(f, i) :
                      ~Given(A, x) => state[<<A, x>>] \subseteq state[<<prog.ops[u][i], x>>]
              /\ ~Given(u, x) =>
                    \A f \in callees[<<u, x>>] : \A r \in Results(f) :
                      state[<<u, x>>] \subseteq state[<<r, x>>]

(* However facts go round loops and recursions, propagation ends.          *)
Terminates == <>Done

(***************************************************************************)
(* "caller context is the same sandbox or other sandboxes/privileged       *)
(* context (if enclosing function is an entry point)": what is known of a  *)
(* sandbox's result is known of the calls of its entry point.              *)
(***************************************************************************)
ResultsReachCallers ==
  Done /\ ~prog.must /\ ~prog.insensitive =>
    \A S \in Boxes(prog) : \A f \in prog.entry[S] : \A d \in Calls(prog) :
      \A x \in ContextsOf(prog.fun[d]) : \A r \in Results(f) :
        f \in callees[<<d, x>>] => state[<<r, S>>] \subseteq state[<<d, x>>]
=============================================================================
