------------------------------ MODULE Analyses ------------------------------
(***************************************************************************)
(* The analyses built on the information-flow engine: what initialise() of *)
(* each assigns before the engine runs, and what postDataFlowAnalysis()    *)
(* reports of the facts it leaves.  A program has, besides the fields of   *)
(* InfoFlow:                                                               *)
(*   analysis   one of Analyses                                            *)
(*   report     the functions shouldOutputWarningFor() accepts             *)
(*   cast       [cast -> what stripPointerCasts() leaves of it]            *)
(*   classes    classified: [annotation or global -> its classes]          *)
(*   clearance  classified: [sandbox -> classes]                           *)
(*   private    private: [sandbox -> annotations and globals]              *)
(*   source     private: [fact -> <<sandbox, source of private data>>]     *)
(*   keep       private: "all", "some" or "none" (proportion of accesses)  *)
(*   variable   [variable annotation -> the variable]                      *)
(*   caps       fds, capability: [sandbox -> [value -> system calls]]      *)
(*   grants     fds: [annotated file descriptor -> system calls]           *)
(*   keys       fds: [constant -> system calls]                            *)
(*   getter     fds: [function -> which argument is the key]               *)
(*   fdArg      fds, capability: [system call -> its file descriptor's     *)
(*              position]                                                  *)
(*   permitted  fds: [call -> what SysCallsAnalysis allows there]          *)
(*   platform   fds: {}, or {system calls that need rights on the platform}*)
(*   block, after, succ   declassified: [instruction -> block], [call of   *)
(*              __soaap_declassify -> the rest of its block], [block ->    *)
(*              blocks]                                                    *)
(*   targets    annotated: [annotation -> functions]                       *)
(*   taken      annotated: the functions with an index, in order           *)
(*   initial    inferred: functions in initialisers of globals             *)
(*   order      inferred: stores, selects and calls, as in the module      *)
(* Sandboxes are functions here, no regions, and have names of their own.  *)
(***************************************************************************)
EXTENDS InfoFlow
Seqs == INSTANCE SequencesExt

VARIABLES
  reports,   \* what postDataFlowAnalysis() has said
  reported   \* has it run?

avars == <<vars, reports, reported>>

Analyses == {"none", "origin", "classified", "private", "fds", "capability",
             "declassified", "annotated", "inferred"}

(***************************************************************************)
(* What the constructors say of meets and contexts.  Bits of private data  *)
(* are given away one for each source.  A system call has its descriptor   *)
(* among its arguments.  A direct call calls what it names; setenv() has   *)
(* no body.  The walk over a declassified region does not end in a loop:   *)
(* programs have none there.                                               *)
(***************************************************************************)
Loads(p) == {n \in DOMAIN p.ops : p.kind[n] = "load"}

PrivateSources(p, S) ==
  {v \in p.private[S] : p.kind[v] \in {"annot", "intrinsic"}}
    \cup {n \in Loads(p) : p.ops[n][1] \in p.private[S] /\ p.kind[p.ops[n][1]] = "global"}

AnalysesAssumption ==
  \A p \in Programs :
    /\ p.analysis \in Analyses
    /\ p.analysis # "none" =>
         /\ p.must = (p.analysis \in {"fds", "capability", "declassified"})
         /\ p.tracking = (p.analysis \in {"annotated", "inferred"})
    /\ p.analysis = "declassified" => p.insensitive
    /\ p.analysis \in {"fds", "capability"} =>
         \A k \in DOMAIN p.graph : \A f \in p.graph[k] \cap DOMAIN p.fdArg :
            p.fdArg[f] \in DOMAIN p.ops[k[1]]
    /\ p.analysis = "private" =>
         /\ \A k \in DOMAIN p.graph :
               p.kind[p.called[k[1]]] = "function" => p.graph[k] \subseteq {p.called[k[1]]}
         /\ \A c \in DOMAIN p.name : p.name[c] = "setenv" => c \in p.extern
         /\ {p.source[f] : f \in DOMAIN p.source}
              = UNION {{S} \X PrivateSources(p, S) : S \in Boxes(p)}
         /\ \A f, g \in DOMAIN p.source : p.source[f] = p.source[g] => f = g
         /\ \A v \in DOMAIN p.cast : p.cast[v] \in Values(p)
ASSUME AnalysesAssumption

Uncast(v) == IF v \in DOMAIN prog.cast THEN prog.cast[v] ELSE v
InstrsIn(x) == {n \in Instructions(prog) : prog.fun[n] \in members[x]}
At(n) == {n} \X ContextsOf(prog.fun[n])
IsFunction(v) == prog.kind[v] = "function"
IsConstant(v) == prog.kind[v] = "constant"
Direct(c) == IsFunction(prog.called[c])

-----------------------------------------------------------------------------
(* AccessOriginAnalysis: privileged calls into a sandbox.                  *)
OriginSeeds ==
  LET calls == {c \in InstrsIn(PRIV) \cap Calls(prog) :
                  callees[<<c, PRIV>>] \cap EntryPoints(prog) # {}}
  IN [e \in calls \X {PRIV} |-> {"sandbox"}]

(* ClassifiedAnalysis: annotated fields and globals.                       *)
Annotated(a) == IF prog.kind[a] = "annot" THEN Uncast(prog.ops[a][1]) ELSE a

ClassifiedSeeds ==
  [e \in {Annotated(a) : a \in DOMAIN prog.classes} \X {NONE} |->
     UNION {prog.classes[a] : a \in {b \in DOMAIN prog.classes : Annotated(b) = e[1]}}]

(* SandboxPrivateAnalysis: one fact for each annotation, and for each load *)
(* of a global.  The global itself is not enqueued.                        *)
SourcePairs(v) ==
  IF v \in DOMAIN prog.variable THEN {prog.variable[v]} \X ContextsOf(prog.fun[v])
  ELSE At(v)

GlobalPairs(v) ==
  IF v \in Loads(prog) THEN {prog.ops[v][1]} \X ContextsOf(prog.fun[v]) ELSE {}

PrivateSeeds ==
  LET of(f) == SourcePairs(prog.source[f][2]) \cup GlobalPairs(prog.source[f][2])
      facts == DOMAIN prog.source
  IN [e \in UNION {of(f) : f \in facts} |-> {f \in facts : e \in of(f)}]

NotEnqueued ==
  IF prog.analysis = "private"
  THEN UNION {GlobalPairs(prog.source[f][2]) : f \in DOMAIN prog.source} ELSE {}

(* CapabilityAnalysis: capabilities of sandboxes.                          *)
CapabilitySeeds ==
  LET pairs == UNION {(DOMAIN prog.caps[S]) \X {S} : S \in Boxes(prog)}
  IN [e \in pairs |-> prog.caps[e[2]][e[1]]]

(* What has been assigned so far, with the facts for pair e, or with facts *)
(* added to pairs es: an entry is made where there is none.                *)
Assigned(has, e, facts) == [d \in DOMAIN has \cup {e} |-> IF d = e THEN facts ELSE has[d]]

Added(has, es, facts) ==
  [d \in DOMAIN has \cup es |->
     (IF d \in DOMAIN has THEN has[d] ELSE {}) \cup (IF d \in es THEN facts ELSE {})]

(* What the code takes one by one, in the order of a set or of users, is   *)
(* taken in one order.                                                     *)
InTurn(S) == CHOOSE s \in Orders(S) : TRUE

(* propagateToAggregate() in initialise(), where the classes' "this" are   *)
(* not known yet: the writes it makes, with an argument that a caller      *)
(* passes as the source of those behind it; and what they lead to.         *)
Writes(e) ==
  LET next(t, a) ==
        LET write == <<Task(t.src, <<a, t.dst[2]>>, "write")>>
        IN IF prog.kind[a] \in Storage
           THEN write \o Interleave(t.src, InTurn(Passed(a, t.dst[2])))
           ELSE [i \in DOMAIN Back(a) |-> Task(t.src, <<Back(a)[i], t.dst[2]>>, "visit")] \o write
      R[tasks \in Seq([src : Pairs(prog), dst : Pairs(prog), do : {"visit", "write"}]),
        seen \in SUBSET Values(prog)] ==
        IF tasks = << >> THEN << >>
        ELSE LET t == Head(tasks)
                 a == Strip(t.dst[1])
             IN IF t.do = "write" THEN <<t>> \o R[Tail(tasks), seen]
                ELSE IF a \in seen THEN R[Tail(tasks), seen]
                ELSE R[next(t, a) \o Tail(tasks), seen \cup {a}]
  IN R[<<Task(e, e, "visit")>>, {}]

WithBehind(has, e) == Seqs!FoldLeft(LAMBDA h, t : Added(h, {t.dst}, h[t.src]), has, Writes(e))

(* Calls of getters with a constant key; a key nobody annotated allows     *)
(* nothing.                                                                *)
GetterCalls ==
  UNION {UNION {{d \in Callers(g, x) : IsConstant(prog.ops[d][prog.getter[g]])}
                  \X {x} \X {g} : x \in ContextsOf(g)} : g \in DOMAIN prog.getter}

AllowedByKey(z) ==
  LET key == prog.ops[z[1]][prog.getter[z[3]]]
  IN IF key \in DOMAIN prog.keys THEN prog.keys[key] ELSE {}

(* CapabilitySysCallsAnalysis: capabilities, then what is annotated in     *)
(* the code and what is behind it, then results of getters.                *)
FdSeeds ==
  LET got == [e \in {<<z[1], z[2]>> : z \in GetterCalls} |->
                AllowedByKey(CHOOSE z \in GetterCalls : <<z[1], z[2]>> = e)]
      granted ==
        Seqs!FoldLeft(
          LAMBDA has, v : WithBehind(Assigned(has, <<v, NONE>>, prog.grants[v]), <<v, NONE>>),
          CapabilitySeeds, InTurn(DOMAIN prog.grants))
  IN [e \in DOMAIN got \cup DOMAIN granted |-> IF e \in DOMAIN got THEN got[e] ELSE granted[e]]

(* DeclassifierAnalysis: loads of the variable after its declassification. *)
Following(c) ==
  LET R[B \in SUBSET DOMAIN prog.succ] ==
        LET C == B \cup UNION {prog.succ[b] : b \in B} IN IF C = B THEN B ELSE R[C]
  IN prog.after[c] \cup
       {n \in DOMAIN prog.block : prog.block[n] \in R[prog.succ[prog.block[c]]]}

Declassified ==
  {n \in Loads(prog) :
     \E c \in DOMAIN prog.after :
       LET l == Uncast(prog.ops[c][1])
       IN /\ n \in Following(c)
          /\ l \in Loads(prog) /\ prog.kind[prog.ops[l][1]] = "alloca"
          /\ prog.ops[n][1] = prog.ops[l][1]}

DeclassifierSeeds == [e \in Declassified \X {NONE} |-> {"declassified"}]

(* FPAnnotatedTargetsAnalysis.  A function whose address nobody takes has  *)
(* no index: setBitVector() sets that of the first one.  Of two            *)
(* annotations of a variable the later one counts (which is: see InTurn).  *)
Indexed(f) == IF f \in {prog.taken[i] : i \in DOMAIN prog.taken} THEN f ELSE prog.taken[1]

AnnotatedSeeds ==
  LET of(a) == SourcePairs(a)
      notes == DOMAIN prog.targets
  IN [e \in UNION {of(a) : a \in notes} |->
        {Indexed(f) : f \in prog.targets[CHOOSE a \in notes : e \in of(a)]}]

(* FPInferredTargetsAnalysis: functions stored (also behind a member),     *)
(* selected or passed to a direct callee (in the caller's contexts), one   *)
(* instruction after another, and in globals.                              *)
Infer(has, n) ==
  LET given(k) == Uncast(prog.ops[n][k])
      functions == {k \in DOMAIN prog.ops[n] : IsFunction(given(k))}
      stored == Strip(prog.ops[n][1])
      store(h, e) ==
        LET now == Added(h, {e}, {stored})
        IN IF prog.kind[e[1]] = "gep" THEN WithBehind(now, e) ELSE now
      param == prog.param[prog.called[n]]
  IN CASE prog.kind[n] = "store" /\ IsFunction(stored) ->
            Seqs!FoldLeft(store, has, InTurn({Strip(prog.ops[n][2])} \X ContextsOf(prog.fun[n])))
       [] prog.kind[n] = "select" ->
            Seqs!FoldLeft(LAMBDA h, k : Added(h, At(n), {given(k)}), has, InTurn(functions))
       [] prog.kind[n] = "call" /\ prog.called[n] \in Defined(prog) ->
            Seqs!FoldLeft(LAMBDA h, k : Added(h, {param[k]} \X ContextsOf(prog.fun[n]), {given(k)}),
                     has, InTurn(functions \cap DOMAIN param))
       [] OTHER -> has

InferredSeeds ==
  Seqs!FoldLeft(LAMBDA has, f : Added(has, {<<f, NONE>>}, {f}),
           Seqs!FoldLeft(Infer, << >>, prog.order), InTurn(prog.initial))

Seeds ==
  CASE prog.analysis = "origin" -> OriginSeeds
    [] prog.analysis = "classified" -> ClassifiedSeeds
    [] prog.analysis = "private" -> PrivateSeeds
    [] prog.analysis = "fds" -> FdSeeds
    [] prog.analysis = "capability" -> CapabilitySeeds
    [] prog.analysis = "declassified" -> DeclassifierSeeds
    [] prog.analysis = "annotated" -> AnnotatedSeeds
    [] prog.analysis = "inferred" -> InferredSeeds
    [] OTHER -> prog.seed

-----------------------------------------------------------------------------
(* Reports: [type, at, box], of a context and an instruction in it.        *)
Report(type, n, x) == [type |-> type, at |-> n, box |-> x]
Reported(x) == {n \in InstrsIn(x) : prog.fun[n] \in prog.report}

UntrustedCalls ==
  {Report("origin", c, PRIV) :
     c \in {d \in Reported(PRIV) \cap Calls(prog) :
              ~Direct(d) /\ state[<<prog.called[d], PRIV>>] = {"sandbox"}}}

(* What a load reads or a store writes.                                    *)
Accessed(n) == {prog.ops[m][1] : m \in {k \in {n} : prog.kind[k] \in {"load", "store"}}}

ClassifiedAccesses ==
  UNION {{Report("class", n, S) :
            n \in {m \in Reported(S) :
                     \E v \in Accessed(m) : ~(state[<<v, S>>] \subseteq prog.clearance[S])}} :
         S \in Boxes(prog)}

(* convertStateToBitIdxs(): the sandboxes a value is private to.           *)
PrivateTo(e) == {prog.source[f][1] : f \in state[e] \cap DOMAIN prog.source}

(* Mutant: the sandbox's own data as well.                                 *)
AccessesOfAnyone ==
  UNION {{Report("access", n, x) :
            n \in {m \in Reported(x) \cap Loads(prog) :
                     PrivateTo(<<Uncast(prog.ops[m][1]), x>>) # {}}} :
         x \in Domains(prog)}

PrivateAccesses ==
  UNION {{Report("access", n, x) :
            n \in {m \in Reported(x) \cap Loads(prog) :
                     PrivateTo(<<Uncast(prog.ops[m][1]), x>>) \ {x} # {}}} :
         x \in Domains(prog)}

(* How data private to S may leave it at an instruction of one of its      *)
(* functions, in a set.                                                    *)
Own(S, v) == S \in PrivateTo(<<v, S>>)
AnyOwn(S, c) == \E v \in Operands(prog, c) \cup {prog.called[c]} : Own(S, v)

LeakByStore(S, n) ==
  {t \in {"global_var"} :
     /\ prog.kind[n] = "store" /\ prog.kind[prog.ops[n][2]] = "global"
     /\ Own(S, prog.ops[n][1])}

(* Mutant: callgates count as part of the sandbox.                         *)
LeakByCallUngated(S, c) ==
  IF c \in DOMAIN prog.name /\ prog.name[c] = "setenv"
  THEN {t \in {"env_var"} : Own(S, prog.ops[c][2])}
  ELSE IF c \in prog.extern THEN {t \in {"extern"} : AnyOwn(S, c)}
  ELSE IF prog.called[c] \in EntryPoints(prog) \ prog.entry[S]
  THEN {t \in {"cross_sandbox"} : \E v \in Operands(prog, c) : Own(S, v)}
  ELSE {}

LeakByCall(S, c) ==
  LET callee == prog.called[c]
  IN IF c \in DOMAIN prog.name /\ prog.name[c] = "setenv"
     THEN {t \in {"env_var"} : Own(S, prog.ops[c][2])}
     ELSE IF c \in prog.extern THEN {t \in {"extern"} : AnyOwn(S, c)}
     ELSE IF callee \in prog.gates[S] THEN {t \in {"callgate"} : AnyOwn(S, c)}
     ELSE IF callee \in EntryPoints(prog) \ prog.entry[S]
     THEN {t \in {"cross_sandbox"} : \E v \in Operands(prog, c) : Own(S, v)}
     ELSE {}

LeakByReturn(S, n) ==
  {t \in {"return_from_entrypoint"} :
     /\ prog.kind[n] = "ret" /\ prog.fun[n] \in prog.entry[S]
     /\ \E v \in Operands(prog, n) : Own(S, v)}

PrivateLeaks ==
  UNION {UNION {{Report(t, n, S) :
                   t \in LeakByStore(S, n) \cup LeakByReturn(S, n) \cup
                           (IF n \in Calls(prog) /\ Direct(n) THEN LeakByCall(S, n) ELSE {})} :
                n \in Reported(S)} : S \in Boxes(prog)}

(* What the analysis of file descriptors takes to be allowed on one.       *)
(* Mutant: a descriptor nobody annotated may be used.                      *)
RightsUnlessAnnotated(v, S) ==
  IF IsConstant(v) /\ v \in DOMAIN prog.grants THEN prog.grants[v]
  ELSE IF ~IsConstant(v) /\ <<v, S>> \in known THEN state[<<v, S>>] ELSE Facts

RightsOn(v, S) ==
  IF IsConstant(v) THEN IF v \in DOMAIN prog.grants THEN prog.grants[v] ELSE {}
  ELSE state[<<v, S>>]

FdCalls(S) ==
  UNION {{c} \X (callees[<<c, S>>] \cap DOMAIN prog.fdArg) : c \in InstrsIn(S) \cap Calls(prog)}

WithoutRights ==
  UNION {{Report(z[2], z[1], S) :
            z \in {w \in FdCalls(S) :
                     /\ prog.fun[w[1]] \in prog.report /\ w[2] \in prog.permitted[w[1]]
                     /\ \A need \in prog.platform : w[2] \in need
                     /\ w[2] \notin RightsOn(prog.ops[w[1]][prog.fdArg[w[2]]], S)}} :
         S \in Boxes(prog)}

WithoutCapability ==
  UNION {{Report(z[2], z[1], S) :
            z \in {w \in FdCalls(S) : w[2] \notin state[<<prog.ops[w[1]][prog.fdArg[w[2]]], S>>]}} :
         S \in Boxes(prog)}

AInit ==
  /\ Init
  /\ prog.seed = Seeds /\ (prog.analysis # "none" => prog.silent = NotEnqueued)
  /\ reports = {} /\ reported = FALSE

(* keepAccess(): a proportion of the accesses is reported.                 *)
Kept(kept) ==
  /\ kept \subseteq PrivateAccesses
  /\ prog.keep = "all" => kept = PrivateAccesses
  /\ prog.keep = "none" => kept = {}

PostDataFlow ==
  /\ Done /\ ~reported
  /\ reported' = TRUE
  /\ \E kept \in IF prog.analysis = "private" THEN SUBSET PrivateAccesses ELSE {{}} :
       /\ prog.analysis = "private" => Kept(kept)
       /\ reports' =
            CASE prog.analysis = "origin" -> UntrustedCalls
              [] prog.analysis = "classified" -> ClassifiedAccesses
              [] prog.analysis = "private" -> kept \cup PrivateLeaks
              [] prog.analysis = "fds" -> WithoutRights
              [] prog.analysis = "capability" -> WithoutCapability
              [] OTHER -> {}
  /\ UNCHANGED vars

ANext == (Next /\ UNCHANGED <<reports, reported>>) \/ PostDataFlow

ASpec == AInit /\ [][ANext]_avars /\ WF_avars(ANext)

-----------------------------------------------------------------------------
(* What an analysis looks at in an instruction: a value, and the facts it  *)
(* must not have in context x.                                             *)
Forbidden(n, x) ==
  CASE prog.analysis = "origin" ->
         {<<prog.called[c], {"sandbox"}>> : c \in {d \in {n} \cap Calls(prog) : x = PRIV /\ ~Direct(d)}}
    [] prog.analysis = "classified" ->
         {<<v, Facts \ prog.clearance[x]>> : v \in IF x \in Boxes(prog) THEN Accessed(n) ELSE {}}
    [] prog.analysis = "private" ->
         {<<Uncast(prog.ops[m][1]), {f \in DOMAIN prog.source : prog.source[f][1] # x}>> :
            m \in {n} \cap Loads(prog)}
    [] OTHER -> {}

Finds(n, x) ==
  \E r \in reports : r.at = n /\ r.box = x /\ r.type \in {"origin", "class", "access"}

(* Where the program makes f flow.  What is not enqueued passes nothing on,*)
(* and where f does not fit it is taken away.                              *)
Reaches(f) ==
  LET on(e) == IF e \in prog.silent THEN {} ELSE {t \in Flows(e) : f \in Fitting(t[1])}
  IN Closure({e \in DOMAIN prog.seed : f \in prog.seed[e] \cap Fitting(e[1])},
             [e \in Pairs(prog) |-> on(e)])

(***************************************************************************)
(* A use of a function pointer, of classified or of private data is        *)
(* reported if the program makes such a value flow there from where it is  *)
(* annotated, and only if the engine has a way for it to come: through     *)
(* any chain of stores, calls and changes of context, in either order.     *)
(* (With contexts merged the first half is not judged: of a value that was *)
(* annotated in two contexts the facts of one are lost.)                   *)
(***************************************************************************)
ReportsFollowFacts ==
  reported /\ (prog.analysis = "private" => prog.keep = "all") =>
    \A x \in Domains(prog) : \A n \in Reported(x) : \A z \in Forbidden(n, x) :
      /\ Finds(n, x) => \E f \in z[2] : <<z[1], x>> \in Derived(f)
      /\ /\ callees = prog.graph /\ NoRepeatedArguments /\ ~prog.insensitive
         /\ \E f \in z[2] : <<z[1], x>> \in Reaches(f)
         => Finds(n, x)

(* The methods that share "this" with an object.                           *)
SharedThis(a) == IF a \in DOMAIN prog.this THEN prog.this[a] ELSE {}

(* What is private to S starts in S; the functions of S call directly, and *)
(* those with callees in S run nowhere else (their results and arguments   *)
(* are those of every context), no more than the methods that share "this" *)
(* with an object the data comes to; and it comes to no function, nor to   *)
(* the result of an operation, which drops it.                             *)
Confined(f, S) ==
  /\ \A e \in DOMAIN prog.seed : f \in prog.seed[e] => e[2] = S
  /\ \A c \in InstrsIn(S) \cap Calls(prog) : Direct(c)
  /\ \A c \in Calls(prog) : callees[<<c, S>>] # {} => ContextsOf(prog.fun[c]) = {S}
  /\ \A e \in Derived(f) :
        /\ prog.kind[e[1]] \notin {"binop", "function"}
        /\ e[2] = S => \A A \in SharedThis(e[1]) : ContextsOf(prog.fun[A]) \subseteq {S}

(***************************************************************************)
(* "Validate that data cannot leak out of a sandbox": what is private to S *)
(* is found in another context only if a leak of S is reported, provided   *)
(* all functions of S are looked at and the data is confined to S but for  *)
(* calls that leave it.                                                    *)
(***************************************************************************)
EscapesReported ==
  reported /\ prog.analysis = "private" =>
    \A f \in DOMAIN prog.source :
      LET S == prog.source[f][1]
      IN /\ Confined(f, S) /\ members[S] \cap Defined(prog) \subseteq prog.report
         /\ \E e \in Values(prog) \X (Domains(prog) \ {S}) : f \in state[e]
         => \E r \in reports : r.box = S /\ r.type # "access"

(***************************************************************************)
(* "We assume no rights by default": a system call on a file descriptor    *)
(* about which nothing is said was granted for it, as an argument of the   *)
(* entry point, by an annotation of the value or of the key it was got by. *)
(***************************************************************************)
RightsGranted ==
  reported /\ prog.analysis \in {"fds", "capability"} =>
    \A S \in Boxes(prog) : \A z \in FdCalls(S) :
      LET fd == prog.ops[z[1]][prog.fdArg[z[2]]]
          checked == /\ prog.fun[z[1]] \in prog.report /\ z[2] \in prog.permitted[z[1]]
                     /\ \A need \in prog.platform : z[2] \in need
      IN /\ prog.analysis = "fds" => checked
         /\ Report(z[2], z[1], S) \notin reports
         => \/ <<fd, S>> \in Derived(z[2])
            \/ prog.analysis = "fds" /\ IsConstant(fd) /\ fd \in DOMAIN prog.grants
                 /\ z[2] \in prog.grants[fd]

(***************************************************************************)
(* "mark all loaded values of alloca within the declassified region as     *)
(* being declassified": what is declassified passes no private data on.    *)
(***************************************************************************)
DeclassifiedStays ==
  Done /\ prog.analysis = "private" =>
    \A f \in DOMAIN prog.source :
      LET kept == [e \in Pairs(prog) |-> IF e[1] \in Declassified THEN {} ELSE EngineFlows(e)]
      IN {e \in Pairs(prog) : f \in state[e]}
           \subseteq Closure({e \in DOMAIN prog.seed : f \in prog.seed[e]}, kept)
=============================================================================
