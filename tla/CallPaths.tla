----------------------------- MODULE CallPaths -----------------------------
(***************************************************************************)
(* The traces that come with reports: CallGraphUtils::emitCallTrace().     *)
(* Shortest paths through the call graph are kept by the function they     *)
(* start from, whatever context they were asked for in.                    *)
(* A trace begins with the call of its target.                             *)
(***************************************************************************)
EXTENDS Sandboxes

VARIABLES
  asked,    \* <<function, context>>: traces to be emitted
  cache,    \* funcToShortestCallPaths: [source -> [target -> path]]
  asking,   \* the one being looked for, and the sources still to be looked up
  traces,   \* the traces emitted: [fun, box, calls]
  traceIds  \* dagNodeToId: [trace -> its number]

pathVars == <<asked, asking, cache, traces, traceIds>>

Member(x) == IF x = Priv THEN privileged ELSE info[x].functions

(* getCallGraphEdges(): <<call, callee>>.                                  *)
EdgesFrom(f, x) ==
  {e \in graph[x] : FunctionOf(prog, e[1]) = f}

(* Does the search go on from f?  Not into another protection domain.      *)
Expanded(f, x) ==
  ~(f \in entryPoints /\ (x = Priv \/ f \notin sandboxes[x].entry))

StepFrom(F, x) == {e[2] : e \in UNION {EdgesFrom(f, x) : f \in {g \in F : Expanded(g, x)}}}

(* isReachableFrom(): it looks up the edges of the context it is given,    *)
(* which for privileged code is a null pointer: there are none.            *)
IsReachableFrom(source, dest, S) ==
  LET go == [f \in prog.functions |->
        IF S = Priv \/ ~Expanded(f, S) THEN {} ELSE {e[2] : e \in EdgesFrom(f, S)}]
  IN dest \in ReachedFrom({source}, go)

(* The functions at each distance from source.                             *)
Levels(source, x) ==
  LET level[n \in 0..Cardinality(prog.functions)] ==
        IF n = 0 THEN {source}
        ELSE StepFrom(level[n - 1], x) \ UNION {level[m] : m \in 0..(n - 1)}
  IN level

(***************************************************************************)
(* calculateShortestCallPathsFromFunc(): of each function that is reached  *)
(* a predecessor at the distance before, and the call it is found by; the  *)
(* paths follow them back.                                                 *)
(***************************************************************************)
PathMaps(source, x) ==
  LET level == Levels(source, x)
      reached == UNION {level[n] : n \in DOMAIN level}
      far(f) == CHOOSE n \in DOMAIN level : f \in level[n]
      into(f) == {e \in graph[x] : e[2] = f /\ FunctionOf(prog, e[1]) \in level[far(f) - 1]
                                     /\ Expanded(FunctionOf(prog, e[1]), x)}
      tree == reached \ {source}
      trees == {t \in [tree -> {e[1] : e \in UNION {into(f) : f \in tree}}] :
                  \A f \in tree : <<t[f], f>> \in into(f)}
      path(t) ==
        LET back[n \in DOMAIN level] ==
              [f \in level[n] |-> IF n = 0 THEN << >>
                                  ELSE <<t[f]>> \o back[n - 1][FunctionOf(prog, t[f])]]
        IN [f \in reached |-> back[far(f)][f]]
  IN {path(t) : t \in trees}

-----------------------------------------------------------------------------
(***************************************************************************)
(* findPrivilegedPathToFunction(), findSandboxedPathToFunction(): first    *)
(* the sources are looked up, one after the other, then the trace is read  *)
(* off; reading an entry that is not there makes an empty one.             *)
(***************************************************************************)
Enclosing(S) == FunctionOf(prog, Head(sandboxes[S].region))

Sources(S) ==
  IF S = Priv THEN {}
  ELSE IF IsRegion(S) THEN UNION {Callees(graph, S, c) : c \in TopCalls(S)}
  ELSE sandboxes[S].entry

PathsInit == asked = {} /\ asking = None /\ cache = << >> /\ traces = {} /\ traceIds = << >>

(* Mutant: what is asked for stays in the list.                            *)
BeginAgain ==
  /\ asking = None
  /\ \E q \in asked :
       asking' = [fun |-> q[1], box |-> q[2], left |-> Sources(q[2]) \cup {"main"}, last |-> None]
  /\ UNCHANGED <<asked, cache, traces, traceIds>>

BeginTrace ==
  /\ asking = None
  /\ \E q \in asked :
       /\ asked' = asked \ {q}
       /\ asking' = [fun |-> q[1], box |-> q[2], left |-> Sources(q[2]) \cup {"main"}, last |-> None]
  /\ UNCHANGED <<cache, traces, traceIds>>

(* Mutant: paths from main() in the context of the trace.                  *)
LookUpHere ==
  /\ asking # None
  /\ \E s \in asking.left :
       /\ asking' = [asking EXCEPT !.left = @ \ {s}, !.last = IF s = "main" THEN @ ELSE s]
       /\ IF s \in DOMAIN cache THEN UNCHANGED cache
          ELSE \E m \in PathMaps(s, asking.box) : cache' = With(cache, s, m)
  /\ UNCHANGED <<asked, traces, traceIds>>

(* Paths are calculated for a source of which nothing is cached.           *)
LookUp ==
  /\ asking # None
  /\ \E s \in asking.left :
       /\ asking' = [asking EXCEPT !.left = @ \ {s}, !.last = IF s = "main" THEN @ ELSE s]
       /\ IF s \in DOMAIN cache THEN UNCHANGED cache
          ELSE \E m \in PathMaps(s, IF s = "main" THEN Priv ELSE asking.box) : cache' = With(cache, s, m)
  /\ UNCHANGED <<asked, traces, traceIds>>

PathIn(s, t) == IF t \in DOMAIN cache[s] THEN cache[s][t] ELSE << >>
Read(s, ts) == [t \in DOMAIN cache[s] \cup ts |-> PathIn(s, t)]

(* In a region: the calls, with their callees, that lead to the target,    *)
(* those that do so by the shortest path.                                  *)
Candidates(S, t) == {e \in graph[S] : e[1] \in TopCalls(S) /\ t \in DOMAIN cache[e[2]]}
Shortest(E, t) == {e \in E : \A d \in E : Len(cache[e[2]][t]) <= Len(cache[d[2]][t])}

(* Function-level: the entry point looked up last decides.                 *)
TraceOf(q) ==
  IF q.box = Priv THEN {PathIn("main", q.fun)}
  ELSE IF ~IsRegion(q.box) THEN {PathIn(q.last, q.fun) \o PathIn("main", q.last)}
  ELSE LET rest == PathIn("main", Enclosing(q.box))
           best == Shortest(Candidates(q.box, q.fun), q.fun)
       IN IF best = {} THEN {rest} ELSE {cache[e[2]][q.fun] \o <<e[1]>> \o rest : e \in best}

(* The entries that are read, and made if they are not there.              *)
Touched(q) ==
  IF q.box = Priv THEN {<<"main", q.fun>>}
  ELSE IF IsRegion(q.box) THEN {<<"main", Enclosing(q.box)>>}
  ELSE sandboxes[q.box].entry \X {q.fun} \cup {"main"} \X sandboxes[q.box].entry

(* insertIntoTraceDAG(): traces are numbered, each once.                   *)
Numbered(t) ==
  IF t = << >> \/ t \in DOMAIN traceIds THEN traceIds ELSE With(traceIds, t, Cardinality(DOMAIN traceIds))

EmitTrace ==
  /\ asking # None /\ asking.left = {}
  /\ \E t \in TraceOf(asking) :
       /\ traces' = traces \cup {[fun |-> asking.fun, box |-> asking.box, calls |-> t]}
       /\ traceIds' = Numbered(t)
  /\ cache' = [s \in DOMAIN cache |-> Read(s, {e[2] : e \in {d \in Touched(asking) : d[1] = s}})]
  /\ asking' = None /\ UNCHANGED asked

EmitTraces == BeginTrace \/ LookUp \/ EmitTrace

-----------------------------------------------------------------------------
(* What a trace can be trusted for: its sandbox is a region, or has one    *)
(* entry point; main() leads there; and no other context starts paths      *)
(* where it does.                                                          *)
SourceOf(f) == {S \in Boxes : f \in Sources(S)} \cup {x \in {Priv} : f = "main"}
Origin(S) == IF IsRegion(S) THEN Enclosing(S) ELSE CHOOSE f \in sandboxes[S].entry : TRUE

Unambiguous(S) ==
  /\ Cardinality(sandboxes[S].entry) <= 1
  /\ \E n \in DOMAIN Levels("main", Priv) : Origin(S) \in Levels("main", Priv)[n]
  /\ \A f \in Sources(S) : Cardinality(SourceOf(f)) = 1 /\ Expanded(f, S)

ChainTo(calls, f, x) ==
  IF calls = << >> THEN f = "main"
  ELSE /\ <<calls[1], f>> \in graph[x] \cup graph[Priv]
       /\ FunctionOf(prog, calls[Len(calls)]) = "main"
       /\ \A i \in 1..(Len(calls) - 1) :
             <<calls[i + 1], FunctionOf(prog, calls[i])>> \in graph[x] \cup graph[Priv]

Distance(s, f, x) == CHOOSE n \in DOMAIN Levels(s, x) : f \in Levels(s, x)[n]

(***************************************************************************)
(* Whatever traces have been asked for before, and whatever they have left *)
(* in the cache: a trace is a chain of calls from main() to the function   *)
(* it is about, in its context, and no longer than it need be; and each    *)
(* chain has a number of its own.                                          *)
(***************************************************************************)
TracesLead ==
  /\ \A t \in traces :
       t.fun \in Member(t.box) /\ (t.box # Priv => Unambiguous(t.box)) =>
         /\ ChainTo(t.calls, t.fun, t.box)
         /\ t.box = Priv => Len(t.calls) = Distance("main", t.fun, Priv)
         /\ t.box # Priv /\ ~IsRegion(t.box) =>
               Len(t.calls) = Distance("main", Origin(t.box), Priv)
                                + Distance(Origin(t.box), t.fun, t.box)
  /\ \A t, u \in DOMAIN traceIds : traceIds[t] = traceIds[u] => t = u
=============================================================================
