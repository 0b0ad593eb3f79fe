--------------------------- MODULE InfoFlowProofs ---------------------------
(***************************************************************************)
(* Theorems about InfoFlow, for every set of well-formed programs and      *)
(* every set of facts: its types, and then that it misses no flow, because *)
(* each piece of flow that has not been followed is on the worklist, among *)
(* the users of the pair being processed, or a job; and that it makes none *)
(* up, because every set that is closed under the flows of the call graph  *)
(* and holds the seeds of a fact holds every pair that has the fact; that  *)
(* the call graph gets the targets that the facts say; and that a must     *)
(* analysis has met what comes in, or is still to look at it.              *)
(***************************************************************************)
EXTENDS InfoFlow, FiniteSetTheorems, SequenceTheorems, WellFoundedInduction,
        TLAPS

TypeInv == prog \in Programs /\ TypeOK

JobSet == [from : SUBSET Pairs(prog), to : Pairs(prog),
           how : {"add", "pass", "copy", "set"}, back : BOOLEAN]
TaskSet == [src : Pairs(prog), dst : Pairs(prog), do : {"visit", "write"}]

-----------------------------------------------------------------------------
(* What WellFormed says, piece by piece.                                   *)

LEMMA ProgramShape ==
  ASSUME prog \in Programs
  PROVE  /\ Values(prog) # {}
         /\ DOMAIN prog.fun \subseteq Values(prog)
         /\ \A v \in DOMAIN prog.fun : prog.fun[v] \in Defined(prog)
         /\ DOMAIN prog.ops \subseteq Values(prog)
         /\ \A u \in DOMAIN prog.ops : prog.ops[u] \in Seq(Values(prog))
         /\ Calls(prog) \subseteq DOMAIN prog.ops
         /\ Calls(prog) \subseteq DOMAIN prog.fun
  <1>1. ValuesWellFormed(prog) /\ CallsWellFormed(prog)
    BY ProgramsAssumption DEF WellFormed
  <1>2. Calls(prog) \subseteq DOMAIN prog.ops
    BY <1>1 DEF CallsWellFormed
  <1>3. \A u \in Calls(prog) : u \in DOMAIN prog.fun
    <2> SUFFICES ASSUME NEW u \in Calls(prog) PROVE u \in DOMAIN prog.fun
      OBVIOUS
    <2>1. u \in DOMAIN prog.ops /\ prog.kind[u] = "call"
      BY <1>1 DEF CallsWellFormed
    <2>2. u \in Instructions(prog)
      BY <1>1, <2>1 DEF ValuesWellFormed
    <2> QED
      BY <2>2 DEF Instructions
  <1> QED
    BY <1>1, <1>2, <1>3 DEF ValuesWellFormed

-----------------------------------------------------------------------------
(* The types of the operators.                                             *)

LEMMA ContextsOfType ==
  ASSUME NEW f
  PROVE  ContextsOf(f) \subseteq Contexts(prog)
  BY DEF ContextsOf, Contexts, AllContexts

LEMMA CalleeContextType ==
  ASSUME NEW x \in Contexts(prog), NEW f
  PROVE  CalleeContext(x, f) \in Contexts(prog)
  <1>1. CASE f \in EntryPoints(prog)
    <2>1. \E S \in Boxes(prog) : f \in prog.entry[S]
      BY <1>1 DEF EntryPoints
    <2>2. (CHOOSE S \in Boxes(prog) : f \in prog.entry[S]) \in Boxes(prog)
      BY <2>1
    <2> QED
      BY <1>1, <2>2 DEF CalleeContext, Contexts, AllContexts, Domains
  <1>2. CASE f \notin EntryPoints(prog)
    BY <1>2 DEF CalleeContext, Contexts, AllContexts, Domains
  <1> QED
    BY <1>1, <1>2

LEMMA CallerContextsType ==
  ASSUME NEW f, NEW d, NEW x \in Contexts(prog)
  PROVE  CallerContexts(f, d, x) \subseteq Contexts(prog)
  BY ContextsOfType DEF CallerContexts, Contexts

LEMMA FormalType ==
  ASSUME prog \in Programs, NEW f \in Defined(prog), NEW i
  PROVE  Formal(f, i) \subseteq Values(prog)
  <1>1. prog.param[f] \in Seq(Values(prog)) /\ prog.valist[f] \subseteq Values(prog)
    BY ProgramsAssumption DEF WellFormed, ValuesWellFormed
  <1> QED
    BY <1>1 DEF Formal

LEMMA OperandsType ==
  ASSUME prog \in Programs, NEW u \in DOMAIN prog.ops
  PROVE  /\ Operands(prog, u) \subseteq Values(prog)
         /\ \A i \in DOMAIN prog.ops[u] : prog.ops[u][i] \in Values(prog)
  <1>1. prog.ops[u] \in Seq(Values(prog))
    BY ProgramShape
  <1> QED
    BY <1>1 DEF Operands

LEMMA CallersFoundType ==
  ASSUME TypeInv, NEW f, NEW x
  PROVE  CallersFound(f, x) \subseteq Calls(prog) \X Contexts(prog)
  <1>1. CASE f \in DOMAIN inContextCallers
    BY <1>1 DEF CallersFound, TypeInv, TypeOK
  <1>2. CASE f \notin DOMAIN inContextCallers
    BY <1>2 DEF CallersFound, Callers
  <1> QED
    BY <1>1, <1>2

LEMMA ActualsType ==
  ASSUME TypeInv, NEW f, NEW x \in Contexts(prog), NEW i
  PROVE  Actuals(f, x, i) \subseteq Pairs(prog)
  <1> SUFFICES ASSUME NEW d \in Calls(prog), NEW k \in DOMAIN prog.ops[d]
               PROVE  <<prog.ops[d][k], x>> \in Pairs(prog)
    BY CallersFoundType DEF Actuals
  <1> QED
    BY OperandsType, ProgramShape DEF TypeInv, Pairs

LEMMA CalleeJobsType ==
  ASSUME TypeInv, NEW u \in Calls(prog), NEW fs \in SUBSET Defined(prog),
         NEW is \in SUBSET DOMAIN prog.ops[u]
  PROVE  CalleeJobs(u, fs, is) \subseteq JobSet
  <1>1. cur \in Pairs(prog) /\ cur[2] \in Contexts(prog)
    BY DEF TypeInv, TypeOK, Pairs
  <1> SUFFICES ASSUME NEW f \in fs, NEW i \in is, NEW v \in Values(prog), v \in Formal(f, i)
               PROVE  Job(IF prog.must THEN Actuals(f, cur[2], i) ELSE {cur},
                          <<v, CalleeContext(cur[2], f)>>, IF prog.must THEN "set" ELSE "pass")
                        \in JobSet
    BY DEF CalleeJobs
  <1>2. <<v, CalleeContext(cur[2], f)>> \in Pairs(prog)
    BY <1>1, CalleeContextType DEF Pairs
  <1>3. Actuals(f, cur[2], i) \subseteq Pairs(prog)
    BY <1>1, ActualsType
  <1> QED
    BY <1>1, <1>2, <1>3 DEF Job, JobSet

LEMMA RememberCallersType ==
  ASSUME TypeInv, NEW fs, NEW is, RememberCallers(fs, is)
  PROVE  \A f \in DOMAIN inContextCallers' :
            inContextCallers'[f] \subseteq Calls(prog) \X Contexts(prog)
  BY CallersFoundType DEF RememberCallers

LEMMA PassedType ==
  ASSUME prog \in Programs, NEW a, NEW x
  PROVE  Passed(a, x) \subseteq Pairs(prog)
  <1>1. ASSUME NEW A, NEW d \in Calls(prog)
        PROVE  PassedBy(d, A) \subseteq Pairs(prog)
    <2>1. \A k \in DOMAIN prog.ops[d] : prog.ops[d][k] \in Values(prog)
      BY OperandsType, ProgramShape
    <2> QED
      BY <2>1, ContextsOfType DEF PassedBy, Pairs
  <1> SUFFICES ASSUME NEW e \in Passed(a, x)
               PROVE  e \in Pairs(prog)
    OBVIOUS
  <1>2. PICK A \in Parameter(a) : e \in UNION {PassedBy(d, A) : d \in Callers(prog.fun[A], x)}
    BY Zenon DEF Passed
  <1>3. PICK d \in Callers(prog.fun[A], x) : e \in PassedBy(d, A)
    BY <1>2, Zenon
  <1> QED
    BY <1>1, <1>3 DEF Callers

LEMMA StripType ==
  ASSUME prog \in Programs, NEW a \in Values(prog)
  PROVE  Strip(a) \in Values(prog)
  BY ProgramsAssumption DEF WellFormed, StorageWellFormed, Strip

LEMMA BackType ==
  ASSUME prog \in Programs, NEW a \in Values(prog)
  PROVE  Back(a) \in Seq(Values(prog))
  <1>1. /\ prog.kind[a] \in {"gep", "load", "annot", "select", "phi"} =>
              a \in DOMAIN prog.ops /\ prog.ops[a] # << >>
        /\ a \in DOMAIN prog.name => a \in Calls(prog) /\ prog.ops[a] # << >>
    BY ProgramsAssumption DEF WellFormed, ValuesWellFormed, CallsWellFormed
  <1>2. a \in DOMAIN prog.ops => prog.ops[a] \in Seq(Values(prog))
    BY ProgramShape
  <1>3. a \in DOMAIN prog.ops /\ prog.ops[a] # << >> => <<prog.ops[a][1]>> \in Seq(Values(prog))
    BY <1>2
  <1>4. CASE prog.kind[a] \in {"gep", "load", "annot"}
    BY <1>1, <1>3, <1>4 DEF Back
  <1>5. CASE prog.kind[a] \notin {"gep", "load", "annot"}
    <2>1. CASE a \in DOMAIN prog.name /\ prog.name[a] = "buffer_ptr"
      BY <1>1, <1>3, <1>5, <2>1, ProgramShape DEF Back
    <2>2. CASE ~(a \in DOMAIN prog.name /\ prog.name[a] = "buffer_ptr")
      BY <1>1, <1>2, <1>5, <2>2 DEF Back
    <2> QED
      BY <2>1, <2>2
  <1> QED
    BY <1>4, <1>5

LEMMA MembersType ==
  ASSUME NEW g, NEW x
  PROVE  MembersIn(g, x) \subseteq Functions(prog)
  BY DEF MembersIn, MembersOf, Reach

LEMMA PairsFinite ==
  ASSUME prog \in Programs
  PROVE  IsFiniteSet(Pairs(prog))
  <1>1. IsFiniteSet(Values(prog)) /\ IsFiniteSet(Boxes(prog))
    BY ProgramsAssumption DEF WellFormed, ValuesWellFormed
  <1>2. IsFiniteSet({PRIV}) /\ IsFiniteSet({NONE}) /\ IsFiniteSet({SINGLE})
    BY FS_Singleton
  <1>3. IsFiniteSet(Domains(prog))
    BY <1>1, <1>2, FS_Union DEF Domains
  <1>4. IsFiniteSet(AllContexts(prog))
    BY <1>2, <1>3, FS_Union DEF AllContexts
  <1>5. IsFiniteSet(Contexts(prog))
    BY <1>2, <1>4, FS_Union DEF Contexts
  <1> QED
    BY <1>1, <1>5, FS_Product DEF Pairs

LEMMA InterleaveType ==
  ASSUME prog \in Programs, NEW S \in SUBSET Pairs(prog), NEW s \in Orders(S),
         NEW src \in Pairs(prog)
  PROVE  Interleave(src, s) \in Seq(TaskSet)
  <1>1. IsFiniteSet(S)
    BY PairsFinite, FS_Subset
  <1>2. Cardinality(S) \in Nat
    BY <1>1, FS_CardinalityType
  <1>3. s \in [1..Cardinality(S) -> S]
    BY DEF Orders
  <1>4. s \in Seq(S) /\ Len(s) = Cardinality(S)
    BY <1>2, <1>3
  <1>5. \A i \in 1..(2 * Len(s)) : (i + 1) \div 2 \in 1..Len(s)
    BY <1>2, <1>4
  <1>6. \A i \in 1..(2 * Len(s)) : Interleave(src, s)[i] \in TaskSet
    BY <1>3, <1>4, <1>5 DEF Interleave, Task, TaskSet
  <1>7. 2 * Len(s) \in Nat
    BY <1>2, <1>4
  <1>8. Interleave(src, s) = [i \in 1..(2 * Len(s)) |-> Interleave(src, s)[i]]
    BY Zenon DEF Interleave
  <1> QED
    <2> DEFINE n == 2 * Len(s)
               t == Interleave(src, s)
    <2>1. n \in Nat /\ t = [i \in 1..n |-> t[i]] /\ \A i \in 1..n : t[i] \in TaskSet
      BY <1>6, <1>7, <1>8
    <2> HIDE DEF n, t
    <2>2. t \in [1..n -> TaskSet]
      BY <2>1
    <2>3. t \in Seq(TaskSet)
      BY <2>1, <2>2
    <2> QED
      BY <2>3 DEF t

-----------------------------------------------------------------------------
(* Type correctness.                                                       *)

LEMMA InitType == Init => TypeInv
  <1> SUFFICES ASSUME Init PROVE TypeInv
    OBVIOUS
  <1>1. prog \in Programs
    BY DEF Init
  <1>2. AnalysisWellFormed(prog) /\ CallsWellFormed(prog)
    BY <1>1, ProgramsAssumption DEF WellFormed
  <1>3. DOMAIN prog.seed \subseteq Pairs(prog) /\ \A e \in DOMAIN prog.seed : prog.seed[e] \subseteq Facts
    BY <1>2 DEF AnalysisWellFormed
  <1>4. PRIV \in Contexts(prog)
    BY DEF Contexts, AllContexts, Domains
  <1>5. \E e \in Pairs(prog) : TRUE
    <2>1. PICK v \in Values(prog) : TRUE
      BY <1>1, ProgramShape
    <2>2. <<v, PRIV>> \in Pairs(prog)
      BY <1>4, <2>1 DEF Pairs
    <2> QED
      BY <2>2
  <1>6. cur \in Pairs(prog)
    BY <1>5 DEF Init
  <1>7. state \in [Pairs(prog) -> SUBSET Facts]
    BY <1>3 DEF Init
  <1>8. known \subseteq Pairs(prog) /\ worklist \subseteq known
    BY <1>3 DEF Init
  <1>9. members \in [Domains(prog) -> SUBSET Functions(prog)]
    BY MembersType DEF Init
  <1>10. callees \in [Calls(prog) \X Contexts(prog) -> SUBSET Functions(prog)]
    BY <1>2 DEF Init, CallsWellFormed
  <1>11. todo \subseteq Contexts(prog)
    BY <1>3 DEF Init, Pairs
  <1>12. /\ uses \subseteq DOMAIN prog.ops /\ jobs \subseteq JobSet /\ rewind \in Seq(TaskSet)
         /\ visited \subseteq Values(prog) /\ phase \in {"merge", "flow", "done"}
    BY DEF Init
  <1>13. \A f \in DOMAIN inContextCallers :
            inContextCallers[f] \subseteq Calls(prog) \X Contexts(prog)
    BY DEF Init
  <1> QED
    BY <1>1, <1>6, <1>7, <1>8, <1>9, <1>10, <1>11, <1>12, <1>13
       DEF TypeInv, TypeOK, JobSet, TaskSet

(* A user asks for propagations and changes nothing else.                  *)
LEMMA AskingType ==
  ASSUME TypeInv, uses' \subseteq uses, jobs' \subseteq JobSet,
         UNCHANGED <<prog, phase, todo, graphVars, state, known, worklist, cur, rewind, visited>>
  PROVE  TypeInv'
  BY DEF TypeInv, TypeOK, graphVars, JobSet

LEMMA JobType ==
  ASSUME NEW from \in SUBSET Pairs(prog), NEW to \in Pairs(prog),
         NEW how \in {"add", "pass", "copy", "set"}
  PROVE  /\ Job(from, to, how) \in JobSet
         /\ \A b \in BOOLEAN : [Job(from, to, how) EXCEPT !.back = b] \in JobSet
  BY DEF Job, JobSet

LEMMA CurType ==
  ASSUME TypeInv
  PROVE  /\ cur \in Pairs(prog) /\ {cur} \in SUBSET Pairs(prog)
         /\ cur[1] \in Values(prog) /\ cur[2] \in Contexts(prog)
  BY DEF TypeInv, TypeOK, Pairs

LEMMA UsesType ==
  ASSUME TypeInv, NEW u \in uses
  PROVE  /\ u \in DOMAIN prog.ops /\ u \in Values(prog)
         /\ \A x \in Contexts(prog) : <<u, x>> \in Pairs(prog)
         /\ \A i \in DOMAIN prog.ops[u] : \A x \in Contexts(prog) : <<prog.ops[u][i], x>> \in Pairs(prog)
  BY ProgramShape, OperandsType DEF TypeInv, TypeOK, Pairs

LEMMA UseConstantType == TypeInv /\ UseConstant => TypeInv'
  <1> SUFFICES ASSUME TypeInv, UseConstant PROVE TypeInv'
    OBVIOUS
  <1>1. PICK u \in uses : Take(u) /\ jobs' = {Job({cur}, <<u, cur[2]>>, "add")}
    BY DEF UseConstant
  <1>2. jobs' \subseteq JobSet
    BY <1>1, CurType, UsesType, JobType
  <1> QED
    BY <1>1, <1>2, AskingType DEF UseConstant, Take

LEMMA UseFindsContextsType == TypeInv /\ UseFindsContexts => TypeInv'
  <1> SUFFICES ASSUME TypeInv, UseFindsContexts PROVE TypeInv'
    OBVIOUS
  <1>1. PICK u \in uses :
          Take(u) /\ jobs' = {Job({cur}, <<cur[1], x>>, "copy") : x \in ContextsOf(prog.fun[u])}
    BY DEF UseFindsContexts
  <1>2. \A x \in ContextsOf(prog.fun[u]) : <<cur[1], x>> \in Pairs(prog)
    BY CurType, ContextsOfType DEF Pairs
  <1>3. jobs' \subseteq JobSet
    BY <1>1, <1>2, CurType, JobType
  <1> QED
    BY <1>1, <1>3, AskingType DEF UseFindsContexts, Take

LEMMA UseIgnoredType == TypeInv /\ UseIgnored => TypeInv'
  BY DEF UseIgnored, Take, TypeInv, TypeOK, graphVars

LEMMA UseStoreType == TypeInv /\ UseStore => TypeInv'
  <1> SUFFICES ASSUME TypeInv, UseStore PROVE TypeInv'
    OBVIOUS
  <1>1. PICK u \in uses :
          /\ Take(u) /\ prog.kind[u] = "store"
          /\ jobs' = {[Job({cur}, <<prog.ops[u][2], cur[2]>>, "pass")
                         EXCEPT !.back = prog.kind[prog.ops[u][2]] = "gep"]}
    BY DEF UseStore
  <1>2. Len(prog.ops[u]) = 2
    BY <1>1, UsesType, ProgramsAssumption DEF TypeInv, WellFormed, ValuesWellFormed
  <1>3. 2 \in DOMAIN prog.ops[u]
    BY <1>2, UsesType, ProgramShape DEF TypeInv
  <1>4. <<prog.ops[u][2], cur[2]>> \in Pairs(prog)
    BY <1>3, UsesType, CurType
  <1>5. (prog.kind[prog.ops[u][2]] = "gep") \in BOOLEAN
    OBVIOUS
  <1>6. [Job({cur}, <<prog.ops[u][2], cur[2]>>, "pass")
           EXCEPT !.back = prog.kind[prog.ops[u][2]] = "gep"] \in JobSet
    BY <1>4, <1>5, CurType, JobType, Zenon
  <1>7. jobs' \subseteq JobSet
    BY <1>1, <1>6
  <1> QED
    BY <1>1, <1>7, AskingType DEF UseStore, Take

LEMMA UseMergeType == TypeInv /\ UseMerge => TypeInv'
  <1> SUFFICES ASSUME TypeInv, UseMerge PROVE TypeInv'
    OBVIOUS
  <1>1. PICK u \in uses :
          /\ Take(u)
          /\ jobs' = {IF prog.must
                      THEN Job({<<v, cur[2]>> : v \in Operands(prog, u)}, <<u, cur[2]>>, "set")
                      ELSE Job({cur}, <<u, cur[2]>>, "pass")}
    BY DEF UseMerge
  <1>2. {<<v, cur[2]>> : v \in Operands(prog, u)} \in SUBSET Pairs(prog)
    BY UsesType, CurType, OperandsType DEF TypeInv, Pairs
  <1>3. jobs' \subseteq JobSet
    BY <1>1, <1>2, CurType, UsesType, JobType
  <1> QED
    BY <1>1, <1>3, AskingType DEF UseMerge, Take

LEMMA UseOtherType == TypeInv /\ UseOther => TypeInv'
  <1> SUFFICES ASSUME TypeInv, UseOther PROVE TypeInv'
    OBVIOUS
  <1>1. PICK u \in uses : Take(u) /\ jobs' = {Job({cur}, <<u, cur[2]>>, "pass")}
    BY DEF UseOther
  <1>2. jobs' \subseteq JobSet
    BY <1>1, CurType, UsesType, JobType
  <1> QED
    BY <1>1, <1>2, AskingType DEF UseOther, Take

LEMMA ExternResultType ==
  ASSUME prog \in Programs, NEW u \in Calls(prog), NEW v
  PROVE  ExternResult(u, v) \subseteq Values(prog)
  <1>1. u \in Values(prog)
    BY ProgramShape
  <1>2. CASE u \in DOMAIN prog.name
    <2>1. prog.ops[u] # << >> /\ prog.ops[u] \in Seq(Values(prog))
      BY <1>2, ProgramShape, ProgramsAssumption DEF WellFormed, CallsWellFormed
    <2>2. prog.ops[u][1] \in Values(prog)
      BY <2>1
    <2> QED
      BY <1>1, <1>2, <2>2 DEF ExternResult
  <1>3. CASE u \notin DOMAIN prog.name
    BY <1>3 DEF ExternResult
  <1> QED
    BY <1>2, <1>3

LEMMA UseExternType == TypeInv /\ UseExtern => TypeInv'
  <1> SUFFICES ASSUME TypeInv, UseExtern PROVE TypeInv'
    OBVIOUS
  <1>1. PICK u \in uses :
          /\ Take(u) /\ u \in prog.extern
          /\ jobs' = {[Job({cur}, <<r, cur[2]>>, "pass") EXCEPT !.back = r # u] :
                        r \in ExternResult(u, cur[1])}
    BY DEF UseExtern
  <1>2. u \in Calls(prog)
    BY <1>1, ProgramsAssumption DEF TypeInv, WellFormed, CallsWellFormed
  <1>3. ASSUME NEW r \in ExternResult(u, cur[1])
        PROVE  [Job({cur}, <<r, cur[2]>>, "pass") EXCEPT !.back = r # u] \in JobSet
    <2>1. <<r, cur[2]>> \in Pairs(prog)
      BY <1>2, ExternResultType, CurType DEF TypeInv, Pairs
    <2>2. (r # u) \in BOOLEAN
      OBVIOUS
    <2> QED
      BY <2>1, <2>2, CurType, JobType, Zenon
  <1>4. jobs' \subseteq JobSet
    BY <1>1, <1>3
  <1> QED
    BY <1>1, <1>4, AskingType DEF UseExtern, Take

LEMMA UseReturnType == TypeInv /\ UseReturn => TypeInv'
  <1> SUFFICES ASSUME TypeInv, UseReturn PROVE TypeInv'
    OBVIOUS
  <1> DEFINE returned(d, x) ==
               UNION {Results(g) \X {CalleeContext(x, g)} : g \in callees[<<d, x>>]}
  <1>1. PICK u \in uses :
          /\ Take(u)
          /\ jobs' = {Job(IF prog.must THEN returned(z[1], z[2]) ELSE {cur}, z,
                          IF prog.must THEN "set" ELSE "pass") :
                        z \in {w \in Callers(prog.fun[u], cur[2]) \X Contexts(prog) :
                                 w[2] \in CallerContexts(prog.fun[u], w[1], cur[2])}}
    BY DEF UseReturn
  <1>2. ASSUME NEW d, NEW x \in Contexts(prog)
        PROVE  returned(d, x) \in SUBSET Pairs(prog)
    <2> SUFFICES ASSUME NEW g, NEW v \in Results(g)
                 PROVE  <<v, CalleeContext(x, g)>> \in Pairs(prog)
      OBVIOUS
    <2>1. v \in Values(prog)
      BY OperandsType DEF TypeInv, Results
    <2> QED
      BY <2>1, CalleeContextType DEF Pairs
  <1>3. ASSUME NEW d \in Calls(prog), NEW x \in Contexts(prog)
        PROVE  Job(IF prog.must THEN returned(d, x) ELSE {cur}, <<d, x>>,
                   IF prog.must THEN "set" ELSE "pass") \in JobSet
    <2>1. <<d, x>> \in Pairs(prog)
      BY ProgramShape DEF TypeInv, Pairs
    <2>2. (IF prog.must THEN returned(d, x) ELSE {cur}) \in SUBSET Pairs(prog)
      BY <1>2, CurType
    <2> HIDE DEF returned
    <2> QED
      BY <2>1, <2>2, JobType
  <1>4. jobs' \subseteq JobSet
    <2> HIDE DEF returned
    <2> SUFFICES ASSUME NEW z \in Callers(prog.fun[u], cur[2]) \X Contexts(prog)
                 PROVE  Job(IF prog.must THEN returned(z[1], z[2]) ELSE {cur}, z,
                            IF prog.must THEN "set" ELSE "pass") \in JobSet
      BY <1>1
    <2>1. z[1] \in Calls(prog) /\ z[2] \in Contexts(prog) /\ z = <<z[1], z[2]>>
      BY DEF Callers
    <2> QED
      BY <1>3, <2>1, Zenon
  <1> QED
    BY <1>1, <1>4, AskingType DEF UseReturn, Take

LEMMA UseArgumentType == TypeInv /\ UseArgument => TypeInv'
  <1> SUFFICES ASSUME TypeInv, UseArgument PROVE TypeInv'
    OBVIOUS
  <1>1. PICK u \in uses :
          LET fs == callees[<<u, cur[2]>>] \cap Defined(prog)
          IN /\ Take(u) /\ u \in Calls(prog)
             /\ jobs' = CalleeJobs(u, fs, FirstPosition(u, cur[1]))
             /\ RememberCallers(fs, FirstPosition(u, cur[1]))
    BY DEF UseArgument
  <1>2. FirstPosition(u, cur[1]) \subseteq DOMAIN prog.ops[u]
    BY DEF FirstPosition, Positions
  <1>3. jobs' \subseteq JobSet
    BY <1>1, <1>2, CalleeJobsType
  <1>4. \A f \in DOMAIN inContextCallers' :
           inContextCallers'[f] \subseteq Calls(prog) \X Contexts(prog)
    BY <1>1, RememberCallersType
  <1> QED
    BY <1>1, <1>3, <1>4 DEF UseArgument, Take, TypeInv, TypeOK, JobSet

LEMMA UseBinaryOpType == TypeInv /\ UseBinaryOp => TypeInv'
  <1> SUFFICES ASSUME TypeInv, UseBinaryOp PROVE TypeInv'
    OBVIOUS
  <1>1. PICK u \in uses :
          /\ Take(u)
          /\ state' = [state EXCEPT ![<<u, cur[2]>>] = {}]
          /\ known' = known \cup {<<u, cur[2]>>}
          /\ worklist' = worklist \cup {<<u, cur[2]>>}
    BY DEF UseBinaryOp
  <1>2. <<u, cur[2]>> \in Pairs(prog)
    BY UsesType, CurType
  <1> QED
    BY <1>1, <1>2 DEF UseBinaryOp, Take, TypeInv, TypeOK, graphVars

LEMMA UsePointerType == TypeInv /\ UsePointer => TypeInv'
  <1> SUFFICES ASSUME TypeInv, UsePointer PROVE TypeInv'
    OBVIOUS
  <1> DEFINE new == IF prog.tracking THEN state[cur] \cap prog.fits[cur[1]] ELSE {}
             fs(u) == (callees[<<u, cur[2]>>] \cup new) \cap Defined(prog)
  <1>1. PICK u \in uses :
          /\ Take(u) /\ u \in Calls(prog) \ prog.extern /\ prog.called[u] = cur[1]
          /\ callees' = [callees EXCEPT ![<<u, cur[2]>>] = @ \cup new]
          /\ Refresh(cur[2])
          /\ state' = [state EXCEPT ![cur] = IF prog.tracking THEN new ELSE @]
          /\ jobs' = CalleeJobs(u, fs(u), DOMAIN prog.ops[u])
          /\ RememberCallers(fs(u), DOMAIN prog.ops[u])
    BY DEF UsePointer
  <1>2. new \subseteq Functions(prog) /\ new \subseteq Facts
    <2>1. prog.tracking => prog.called[u] \in DOMAIN prog.fits
      BY <1>1, ProgramsAssumption DEF TypeInv, WellFormed, AnalysisWellFormed
    <2>2. state[cur] \subseteq Facts
      BY CurType DEF TypeInv, TypeOK
    <2>3. CASE prog.tracking
      <3>1. new \subseteq prog.fits[cur[1]] /\ cur[1] \in DOMAIN prog.fits
        BY <1>1, <2>1, <2>3
      <3>2. prog.fits[cur[1]] \subseteq Functions(prog)
        BY <3>1, Zenon DEF Functions
      <3> QED
        BY <2>2, <2>3, <3>1, <3>2
    <2>4. CASE ~prog.tracking
      BY <2>4
    <2> QED
      BY <2>3, <2>4
  <1>3. callees' \in [Calls(prog) \X Contexts(prog) -> SUBSET Functions(prog)]
    BY <1>1, <1>2, CurType DEF TypeInv, TypeOK
  <1>4. members' \in [Domains(prog) -> SUBSET Functions(prog)]
    <2>1. \A y \in Domains(prog) : MembersIn(callees', y) \subseteq Functions(prog)
      BY MembersType
    <2> QED
      BY <1>1, <2>1 DEF Refresh, TypeInv, TypeOK
  <1>5. state' \in [Pairs(prog) -> SUBSET Facts]
    BY <1>1, <1>2, CurType DEF TypeInv, TypeOK
  <1>6. jobs' \subseteq JobSet
    BY <1>1, CalleeJobsType
  <1>7. \A f \in DOMAIN inContextCallers' :
           inContextCallers'[f] \subseteq Calls(prog) \X Contexts(prog)
    BY <1>1, RememberCallersType
  <1> QED
    BY <1>1, <1>3, <1>4, <1>5, <1>6, <1>7 DEF UsePointer, Take, TypeInv, TypeOK, JobSet

LEMMA UseType == TypeInv /\ Use => TypeInv'
  BY UseConstantType, UseFindsContextsType, UseIgnoredType, UseStoreType, UseExternType,
     UseBinaryOpType, UseMergeType, UseOtherType, UseArgumentType, UsePointerType, UseReturnType
     DEF Use

LEMMA MergeContextType == TypeInv /\ MergeContext => TypeInv'
  <1> SUFFICES ASSUME TypeInv, MergeContext PROVE TypeInv'
    OBVIOUS
  <1> DEFINE vs(x) == {v \in Values(prog) : <<v, x>> \in known}
  <1>1. PICK x \in todo :
          /\ todo' = todo \ {x}
          /\ state' = [e \in Pairs(prog) |->
                         IF e[2] = SINGLE /\ e[1] \in vs(x) THEN state[<<e[1], x>>] ELSE state[e]]
          /\ known' = known \cup (vs(x) \X {SINGLE})
          /\ worklist' = worklist \cup (vs(x) \X {SINGLE})
    BY DEF MergeContext
  <1>2. vs(x) \X {SINGLE} \subseteq Pairs(prog)
    BY DEF Pairs, Contexts
  <1>3. \A e \in Pairs(prog) : <<e[1], x>> \in Pairs(prog)
    BY DEF TypeInv, TypeOK, Pairs
  <1>4. state' \in [Pairs(prog) -> SUBSET Facts]
    <2> HIDE DEF vs
    <2> QED
      BY <1>1, <1>3 DEF TypeInv, TypeOK
  <1>5. known' \subseteq Pairs(prog) /\ worklist' \subseteq known'
    <2> HIDE DEF vs
    <2> QED
      BY <1>1, <1>2 DEF TypeInv, TypeOK
  <1>6. todo' \subseteq Contexts(prog)
    BY <1>1 DEF TypeInv, TypeOK
  <1> QED
    BY <1>4, <1>5, <1>6 DEF MergeContext, TypeInv, TypeOK, graphVars

LEMMA MergedType == TypeInv /\ Merged => TypeInv'
  BY DEF Merged, TypeInv, TypeOK, graphVars

LEMMA DequeueType == TypeInv /\ Dequeue => TypeInv'
  <1> SUFFICES ASSUME TypeInv, Dequeue PROVE TypeInv'
    OBVIOUS
  <1>1. PICK e \in worklist : cur' = e /\ worklist' = worklist \ {e} /\ uses' = Users(prog, e[1])
    BY DEF Dequeue
  <1>2. uses' \subseteq DOMAIN prog.ops
    BY <1>1 DEF Users
  <1>3. cur' \in Pairs(prog) /\ worklist' \subseteq known
    BY <1>1 DEF TypeInv, TypeOK
  <1> QED
    BY <1>2, <1>3 DEF Dequeue, TypeInv, TypeOK, graphVars

LEMMA PropagateType == TypeInv /\ Propagate => TypeInv'
  <1> SUFFICES ASSUME TypeInv, Propagate PROVE TypeInv'
    OBVIOUS
  <1>1. PICK j \in jobs :
          /\ jobs' = jobs \ {j}
          /\ state' = [state EXCEPT ![j.to] = NewState(j)]
          /\ known' = known \cup {j.to} \cup j.from
          /\ worklist' = IF Changes(j) \/ j.how = "copy" THEN worklist \cup {j.to} ELSE worklist
          /\ rewind' = IF j.back /\ Changes(j) THEN <<Task(j.to, j.to, "visit")>> ELSE << >>
    BY DEF Propagate
  <1>2. j.to \in Pairs(prog) /\ j.from \subseteq Pairs(prog)
    BY DEF TypeInv, TypeOK
  <1>3. NewState(j) \subseteq Facts
    BY <1>2 DEF NewState, MeetOver, TypeInv, TypeOK
  <1>4. state' \in [Pairs(prog) -> SUBSET Facts]
    BY <1>1, <1>2, <1>3 DEF TypeInv, TypeOK
  <1>5. known' \subseteq Pairs(prog) /\ worklist' \subseteq known'
    BY <1>1, <1>2 DEF TypeInv, TypeOK
  <1>6. rewind' \in Seq(TaskSet)
    <2>1. Task(j.to, j.to, "visit") \in TaskSet
      BY <1>2 DEF Task, TaskSet
    <2> QED
      BY <1>1, <2>1
  <1>7. jobs' \subseteq JobSet
    BY <1>1 DEF TypeInv, TypeOK, JobSet
  <1>8. visited' \subseteq Values(prog)
    BY DEF Propagate, TypeInv, TypeOK
  <1> QED
    BY <1>4, <1>5, <1>6, <1>7, <1>8
       DEF Propagate, TypeInv, TypeOK, graphVars, JobSet, TaskSet

-----------------------------------------------------------------------------
(* Rewinding.                                                              *)

LEMMA JoinType ==
  ASSUME TypeInv, NEW src \in Pairs(prog), NEW dsts \in SUBSET Pairs(prog), Join(src, dsts)
  PROVE  /\ state' \in [Pairs(prog) -> SUBSET Facts]
         /\ known' \subseteq Pairs(prog) /\ worklist' \subseteq known'
  BY DEF Join, TypeInv, TypeOK

(* What is left of the stack when its first task is taken.                 *)
LEMMA StackType ==
  ASSUME TypeInv, Rewinding
  PROVE  /\ Head(rewind) \in TaskSet /\ Tail(rewind) \in Seq(TaskSet)
         /\ Head(rewind).src \in Pairs(prog) /\ Head(rewind).dst \in Pairs(prog)
         /\ Head(rewind).dst[1] \in Values(prog) /\ Head(rewind).dst[2] \in Contexts(prog)
  <1>1. rewind \in Seq(TaskSet) /\ rewind # << >>
    BY DEF Rewinding, TypeInv, TypeOK, TaskSet
  <1>2. Head(rewind) \in TaskSet /\ Tail(rewind) \in Seq(TaskSet)
    BY <1>1
  <1> QED
    BY <1>2 DEF TaskSet, Pairs

(* A step of the stack keeps the types if it does so for what it changes.  *)
LEMMA RewindingType ==
  ASSUME TypeInv, Rewinding, rewind' \in Seq(TaskSet), visited' \subseteq Values(prog),
         state' \in [Pairs(prog) -> SUBSET Facts],
         known' \subseteq Pairs(prog), worklist' \subseteq known'
  PROVE  TypeInv'
  BY DEF Rewinding, TypeInv, TypeOK, graphVars, TaskSet

LEMMA RewindWriteType == TypeInv /\ RewindWrite => TypeInv'
  <1> SUFFICES ASSUME TypeInv, RewindWrite PROVE TypeInv'
    OBVIOUS
  <1> DEFINE t == Head(rewind)
  <1>1. Rewinding /\ Join(t.src, {t.dst}) /\ rewind' = Tail(rewind) /\ visited' = visited
    BY DEF RewindWrite
  <1>2. t.src \in Pairs(prog) /\ {t.dst} \in SUBSET Pairs(prog) /\ Tail(rewind) \in Seq(TaskSet)
    BY <1>1, StackType
  <1> HIDE DEF t
  <1>3. /\ state' \in [Pairs(prog) -> SUBSET Facts]
        /\ known' \subseteq Pairs(prog) /\ worklist' \subseteq known'
    BY <1>1, <1>2, JoinType
  <1>4. visited' \subseteq Values(prog)
    BY <1>1 DEF TypeInv, TypeOK
  <1> QED
    BY <1>1, <1>2, <1>3, <1>4, RewindingType

LEMMA RewindVisitedType == TypeInv /\ RewindVisited => TypeInv'
  <1> SUFFICES ASSUME TypeInv, RewindVisited PROVE TypeInv'
    OBVIOUS
  <1>1. /\ Rewinding /\ rewind' = Tail(rewind)
        /\ state' = state /\ known' = known /\ worklist' = worklist /\ visited' = visited
    BY DEF RewindVisited
  <1>2. Tail(rewind) \in Seq(TaskSet)
    BY <1>1, StackType
  <1>3. /\ state \in [Pairs(prog) -> SUBSET Facts] /\ known \subseteq Pairs(prog)
        /\ worklist \subseteq known /\ visited \subseteq Values(prog)
    BY DEF TypeInv, TypeOK
  <1> QED
    BY <1>1, <1>2, <1>3, RewindingType

LEMMA RewindStorageType == TypeInv /\ RewindStorage => TypeInv'
  <1> SUFFICES ASSUME TypeInv, RewindStorage PROVE TypeInv'
    OBVIOUS
  <1> DEFINE t == Head(rewind)
             x == t.dst[2]
             a == Strip(t.dst[1])
             this == IF a \in DOMAIN prog.this THEN prog.this[a] ELSE {}
             dsts == {<<a, x>>} \cup (UNION {{A} \X ContextsOf(prog.fun[A]) : A \in this})
  <1>1. /\ Rewinding /\ Join(t.src, dsts) /\ visited' = visited \cup {a}
        /\ \E s \in Orders(Passed(a, x)) : rewind' = Interleave(t.src, s) \o Tail(rewind)
    BY DEF RewindStorage
  <1>2. /\ t.src \in Pairs(prog) /\ x \in Contexts(prog) /\ Tail(rewind) \in Seq(TaskSet)
        /\ t.dst[1] \in Values(prog)
    BY <1>1, StackType
  <1>3. a \in Values(prog)
    BY <1>2, StripType DEF TypeInv
  <1>4. this \subseteq Values(prog)
    <2>1. \A v \in DOMAIN prog.this : prog.this[v] \subseteq DOMAIN prog.fun
      BY ProgramsAssumption DEF TypeInv, WellFormed, StorageWellFormed
    <2> QED
      BY <2>1, ProgramShape DEF TypeInv
  <1> HIDE DEF t, x, a, this
  <1>5. dsts \in SUBSET Pairs(prog)
    <2>1. \A A \in this : {A} \X ContextsOf(prog.fun[A]) \subseteq Pairs(prog)
      BY <1>4, ContextsOfType DEF Pairs
    <2> QED
      BY <1>2, <1>3, <2>1 DEF Pairs
  <1> HIDE DEF dsts
  <1>6. /\ state' \in [Pairs(prog) -> SUBSET Facts]
        /\ known' \subseteq Pairs(prog) /\ worklist' \subseteq known'
    BY <1>1, <1>2, <1>5, JoinType
  <1>7. rewind' \in Seq(TaskSet)
    <2>1. PICK s \in Orders(Passed(a, x)) : rewind' = Interleave(t.src, s) \o Tail(rewind)
      BY <1>1
    <2>2. Interleave(t.src, s) \in Seq(TaskSet)
      BY <1>2, PassedType, InterleaveType DEF TypeInv
    <2> QED
      BY <1>2, <2>1, <2>2
  <1>8. visited' \subseteq Values(prog)
    BY <1>1, <1>3 DEF TypeInv, TypeOK
  <1> QED
    BY <1>1, <1>6, <1>7, <1>8, RewindingType

LEMMA RewindValueType == TypeInv /\ RewindValue => TypeInv'
  <1> SUFFICES ASSUME TypeInv, RewindValue PROVE TypeInv'
    OBVIOUS
  <1> DEFINE t == Head(rewind)
             x == t.dst[2]
             a == Strip(t.dst[1])
             behind == [i \in DOMAIN Back(a) |-> Task(t.src, <<Back(a)[i], x>>, "visit")]
             own == <<Task(t.src, <<a, x>>, "write")>>
  <1>1. /\ Rewinding /\ visited' = visited \cup {a}
        /\ rewind' = behind \o own \o Tail(rewind)
        /\ state' = state /\ known' = known /\ worklist' = worklist
    BY DEF RewindValue
  <1>2. /\ t.src \in Pairs(prog) /\ x \in Contexts(prog) /\ Tail(rewind) \in Seq(TaskSet)
        /\ t.dst[1] \in Values(prog)
    BY <1>1, StackType
  <1>3. a \in Values(prog)
    BY <1>2, StripType DEF TypeInv
  <1>4. Back(a) \in Seq(Values(prog))
    BY <1>3, BackType DEF TypeInv
  <1> HIDE DEF t, x, a
  <1>5. behind \in Seq(TaskSet)
    <2>1. \A i \in DOMAIN Back(a) : Task(t.src, <<Back(a)[i], x>>, "visit") \in TaskSet
      BY <1>2, <1>4 DEF Task, TaskSet, Pairs
    <2>2. DOMAIN Back(a) = 1..Len(Back(a)) /\ Len(Back(a)) \in Nat
      BY <1>4
    <2>3. \A n \in Nat : \A q \in [1..n -> TaskSet] : q \in Seq(TaskSet)
      OBVIOUS
    <2>4. behind \in [1..Len(Back(a)) -> TaskSet]
      BY <2>1, <2>2
    <2> QED
      BY <2>2, <2>3, <2>4
  <1>6. own \in Seq(TaskSet)
    BY <1>2, <1>3 DEF Task, TaskSet, Pairs
  <1> HIDE DEF behind, own
  <1>7. rewind' \in Seq(TaskSet)
    BY <1>1, <1>2, <1>5, <1>6
  <1>8. /\ state \in [Pairs(prog) -> SUBSET Facts] /\ known \subseteq Pairs(prog)
        /\ worklist \subseteq known /\ visited' \subseteq Values(prog)
    BY <1>1, <1>3 DEF TypeInv, TypeOK
  <1> QED
    BY <1>1, <1>7, <1>8, RewindingType

-----------------------------------------------------------------------------
LEMMA FinishType == TypeInv /\ Finish => TypeInv'
  <1> SUFFICES ASSUME TypeInv, Finish PROVE TypeInv'
    OBVIOUS
  <1> DEFINE copied == {e \in Values(prog) \X AllContexts(prog) :
                          prog.insensitive /\ <<e[1], SINGLE>> \in known}
  <1>1. /\ state' = [e \in Pairs(prog) |->
                       IF e \in copied THEN state[<<e[1], SINGLE>>] ELSE state[e]]
        /\ known' = known \cup copied
    BY DEF Finish
  <1>2. copied \subseteq Pairs(prog)
    BY DEF Pairs, Contexts
  <1>3. \A e \in Pairs(prog) : <<e[1], SINGLE>> \in Pairs(prog)
    BY DEF Pairs, Contexts
  <1> HIDE DEF copied
  <1>4. state' \in [Pairs(prog) -> SUBSET Facts]
    BY <1>1, <1>3 DEF TypeInv, TypeOK
  <1>5. known' \subseteq Pairs(prog) /\ worklist \subseteq known'
    BY <1>1, <1>2 DEF TypeInv, TypeOK
  <1> QED
    BY <1>4, <1>5 DEF Finish, TypeInv, TypeOK, graphVars

LEMMA TypeStep == TypeInv /\ [Next]_vars => TypeInv'
  <1>1. TypeInv /\ Next => TypeInv'
    BY MergeContextType, MergedType, DequeueType, UseType, PropagateType,
       RewindWriteType, RewindVisitedType, RewindStorageType, RewindValueType, FinishType
       DEF Next, Rewind
  <1>2. TypeInv /\ UNCHANGED vars => TypeInv'
    BY DEF vars, graphVars, TypeInv, TypeOK
  <1> QED
    BY <1>1, <1>2

(* The engine keeps facts for values of the program in contexts that exist *)
(* and no others, whatever it discovers while it runs: the pairs that are  *)
(* propagated to, those that callers and callees contribute to a meet, the *)
(* stack of propagateToAggregate() and the callees added by                *)
(* stateChangedForFunctionPointer() stay within the program, and nothing   *)
(* is on the worklist that has no entry in the state.                      *)
THEOREM TypeSafety == Spec => []TypeOK
  <1>1. TypeInv => TypeOK
    BY DEF TypeInv
  <1> QED
    BY <1>1, InitType, TypeStep, PTL DEF Spec

-----------------------------------------------------------------------------
(* The pair being processed has still to pass its facts on to t.           *)
Waits(t) ==
  \/ \E u \in uses : t \in FlowsAt(u, cur[1], cur[2])
  \/ \E j \in jobs : j.to = t

(* Pairs whose facts are to flow: those that initialise() does not hide,   *)
(* and the single context where there is one.                              *)
Flowing(e) == IF prog.insensitive THEN e[2] = SINGLE ELSE e \notin prog.silent

Carried ==
  \A e \in Pairs(prog) : Flowing(e) =>
    \A t \in Flows(e) :
      state[e] \cap Fitting(t[1]) \subseteq state[t] \/ e \in worklist \/ (e = cur /\ Waits(t))

Followed == callees = prog.graph /\ NoRepeatedArguments

(* Only what is known has facts, and no edge of the call graph is lost.    *)
KnownInv ==
  /\ \A e \in Pairs(prog) \ known : state[e] = {}
  /\ \A k \in DOMAIN prog.graph : prog.graph[k] \subseteq callees[k]

JobInv == \A j \in jobs : j.from = {cur} /\ j.how # "set"

(* While contexts are merged into the single one ...                       *)
MergeInv ==
  phase = "merge" =>
    /\ Idle
    /\ IF prog.insensitive
       THEN \A e \in known : e[2] \in todo \/ <<e[1], SINGLE>> \in worklist
       ELSE todo = {} /\ known \ prog.silent \subseteq worklist

(* ... and after it, there is no other.                                    *)
SingleInv ==
  prog.insensitive /\ phase # "done" =>
    /\ \A e \in worklist : e[2] = SINGLE
    /\ ~Idle => cur[2] = SINGLE
    /\ \A j \in jobs : j.to[2] = SINGLE
    /\ \A i \in DOMAIN rewind : rewind[i].src[2] = SINGLE /\ rewind[i].dst[2] = SINGLE
    /\ phase = "flow" => \A e \in known : <<e[1], SINGLE>> \in known

FlowInv ==
  /\ TypeInv
  /\ ~prog.must =>
       /\ KnownInv /\ JobInv /\ MergeInv /\ SingleInv
       /\ Followed /\ phase = "flow" => Carried
       /\ FlowComplete

-----------------------------------------------------------------------------
(* Where values flow depends on the program and the call graph only.       *)

LEMMA FlowsSame ==
  ASSUME UNCHANGED <<prog, callees, members>>
  PROVE  /\ \A u, v, x : FlowsAt(u, v, x)' = FlowsAt(u, v, x)
         /\ \A e : Flows(e)' = Flows(e)
         /\ \A v : Fitting(v)' = Fitting(v)
         /\ Followed' = Followed /\ Pairs(prog)' = Pairs(prog)
         /\ \A e : Flowing(e)' = Flowing(e)
  <1>1. ASSUME NEW f PROVE ContextsOf(f)' = ContextsOf(f)
    BY DEF ContextsOf, Domains, Boxes
  <1>2. ASSUME NEW f, NEW x PROVE BackToCallers(f, x)' = BackToCallers(f, x)
    BY DEF BackToCallers, Crossing, Callers, EntryPoints, Boxes, Calls
  <1>3. ASSUME NEW f, NEW x PROVE CalleeContext(x, f)' = CalleeContext(x, f)
    BY DEF CalleeContext, EntryPoints, Boxes
  <1>4. ASSUME NEW u, NEW v, NEW x PROVE IntoParameters(u, x, v)' = IntoParameters(u, x, v)
    BY <1>3 DEF IntoParameters, Defined, Formal, Positions
  <1>5. ASSUME NEW u, NEW v PROVE ExternResult(u, v)' = ExternResult(u, v)
    BY DEF ExternResult
  <1>6. ASSUME NEW u, NEW x PROVE IsInContext(u, x)' = IsInContext(u, x)
    BY <1>1 DEF IsInContext
  <1>7. ASSUME NEW u, NEW v, NEW x PROVE FlowsAt(u, v, x)' = FlowsAt(u, v, x)
    <2>1. prog' = prog
      OBVIOUS
    <2>2. ContextsOf(prog.fun[u])' = ContextsOf(prog.fun[u])
      BY <1>1, <2>1
    <2>3. BackToCallers(prog.fun[u], x)' = BackToCallers(prog.fun[u], x)
      BY <1>2, <2>1
    <2>4. IntoParameters(u, x, v)' = IntoParameters(u, x, v)
      BY <1>4
    <2>5. ExternResult(u, v)' = ExternResult(u, v)
      BY <1>5
    <2>6. IsInContext(u, x)' = IsInContext(u, x)
      BY <1>6
    <2>7. QED
      BY <2>1, <2>2, <2>3, <2>4, <2>5, <2>6 DEF FlowsAt, Calls
  <1>8. \A v : Users(prog, v)' = Users(prog, v)
    BY DEF Users, Operands, Calls
  <1>9. \A e : Flows(e)' = Flows(e)
    BY <1>7, <1>8 DEF Flows
  <1>10. /\ \A v : Fitting(v)' = Fitting(v)
         /\ Followed' = Followed /\ Pairs(prog)' = Pairs(prog)
         /\ \A e : Flowing(e)' = Flowing(e)
    BY DEF Fitting, Followed, NoRepeatedArguments, Operands, Calls, Pairs, Values, Contexts,
           AllContexts, Domains, Boxes, Flowing
  <1>11. QED
    BY <1>7, <1>9, <1>10
-----------------------------------------------------------------------------
(* Where a user makes the value flow, by what it is.                       *)

LEMMA KindsOfUsers ==
  ASSUME TypeInv, NEW u \in uses
  PROVE  /\ prog.kind[u] = "constant" <=> u \notin Instructions(prog)
         /\ prog.kind[u] = "call" <=> u \in Calls(prog)
         /\ prog.extern \subseteq Calls(prog)
  <1>1. ValuesWellFormed(prog) /\ CallsWellFormed(prog) /\ u \in DOMAIN prog.ops
    BY ProgramsAssumption DEF TypeInv, TypeOK, WellFormed
  <1>2. prog.kind[u] = "constant" => u \notin DOMAIN prog.fun
    BY <1>1 DEF ValuesWellFormed
  <1>3. prog.kind[u] # "constant" => u \in Instructions(prog)
    BY <1>1 DEF ValuesWellFormed
  <1>4. prog.kind[u] = "call" <=> u \in Calls(prog)
    BY <1>1 DEF CallsWellFormed
  <1>5. prog.extern \subseteq Calls(prog)
    BY <1>1 DEF CallsWellFormed
  <1>6. QED
    BY <1>2, <1>3, <1>4, <1>5 DEF Instructions

LEMMA FlowsToConstant ==
  ASSUME NEW u, NEW v, NEW x, prog.kind[u] = "constant"
  PROVE  FlowsAt(u, v, x) = {<<u, x>>}
  BY Zenon DEF FlowsAt

LEMMA FlowsFromNone ==
  ASSUME NEW u, NEW v, prog.kind[u] # "constant"
  PROVE  FlowsAt(u, v, NONE) = {v} \X ContextsOf(prog.fun[u])
  BY Zenon DEF FlowsAt

LEMMA FlowsNowhere ==
  ASSUME NEW u, NEW v, NEW x, x # NONE, prog.kind[u] # "constant", ~IsInContext(u, x)
  PROVE  FlowsAt(u, v, x) = {}
  BY Zenon DEF FlowsAt

LEMMA FlowsThrough ==
  ASSUME NEW u, NEW v, NEW x, x # NONE, prog.kind[u] # "constant", IsInContext(u, x),
         prog.extern \subseteq Calls(prog), prog.kind[u] = "call" <=> u \in Calls(prog)
  PROVE  /\ prog.kind[u] = "store" => FlowsAt(u, v, x) = {<<prog.ops[u][2], x>>}
         /\ u \in prog.extern => FlowsAt(u, v, x) = ExternResult(u, v) \X {x}
         /\ u \in Calls(prog) \ prog.extern => FlowsAt(u, v, x) = IntoParameters(u, x, v)
         /\ prog.kind[u] = "ret" => FlowsAt(u, v, x) = BackToCallers(prog.fun[u], x)
         /\ prog.kind[u] \in {"phi", "select", "annot", "gep", "load", "other"} =>
               FlowsAt(u, v, x) = {<<u, x>>}
         /\ prog.kind[u] \in {"binop", "intrinsic"} => FlowsAt(u, v, x) = {}
  <1>1. CASE prog.kind[u] = "store"
    <2>1. u \notin prog.extern
      BY <1>1
    <2>2. FlowsAt(u, v, x) = {<<prog.ops[u][2], x>>}
      BY <1>1, Zenon DEF FlowsAt
    <2>3. QED
      BY <1>1, <2>2
  <1>2. CASE u \in prog.extern
    <2>1. prog.kind[u] = "call"
      BY <1>2
    <2>2. FlowsAt(u, v, x) = ExternResult(u, v) \X {x}
      BY <1>2, <2>1, Zenon DEF FlowsAt
    <2>3. QED
      BY <1>2, <2>1, <2>2
  <1>3. CASE u \in Calls(prog) \ prog.extern
    <2>1. prog.kind[u] = "call"
      BY <1>3
    <2>2. FlowsAt(u, v, x) = IntoParameters(u, x, v)
      BY <1>3, <2>1, Zenon DEF FlowsAt
    <2>3. QED
      BY <1>3, <2>1, <2>2
  <1>4. CASE u \notin Calls(prog)
    <2>1. u \notin prog.extern /\ u \notin Calls(prog) \ prog.extern
      BY <1>4
    <2>2. ASSUME prog.kind[u] = "ret" PROVE FlowsAt(u, v, x) = BackToCallers(prog.fun[u], x)
      BY <2>1, <2>2, Zenon DEF FlowsAt
    <2>3. ASSUME prog.kind[u] \in {"phi", "select", "annot", "gep", "load", "other"}
          PROVE  FlowsAt(u, v, x) = {<<u, x>>}
      <3>1. prog.kind[u] # "store" /\ prog.kind[u] # "ret"
        BY <2>3
      <3>2. QED
        BY <2>1, <2>3, <3>1, Zenon DEF FlowsAt
    <2>4. ASSUME prog.kind[u] \in {"binop", "intrinsic"} PROVE FlowsAt(u, v, x) = {}
      <3>1. /\ prog.kind[u] # "store" /\ prog.kind[u] # "ret"
            /\ prog.kind[u] \notin {"phi", "select", "annot", "gep", "load", "other"}
        BY <2>4
      <3>2. QED
        BY <2>1, <3>1, Zenon DEF FlowsAt
    <2>5. prog.kind[u] = "store" => FlowsAt(u, v, x) = {<<prog.ops[u][2], x>>}
      BY Zenon DEF FlowsAt
    <2>6. QED
      BY <2>1, <2>2, <2>3, <2>4, <2>5
  <1>5. QED
    BY <1>1, <1>2, <1>3, <1>4
-----------------------------------------------------------------------------
(* Each kind of user asks for jobs that follow its flows.                  *)

(* What user u asks for, in a may analysis.                                *)
Asks(u) ==
  /\ uses' = uses \ {u}
  /\ NoRepeatedArguments =>
       \A t \in FlowsAt(u, cur[1], cur[2]) : t = cur \/ \E j \in jobs' : j.to = t
  /\ \A j \in jobs' : j.from = {cur} /\ j.how # "set" /\ (prog.insensitive => j.to[2] = SINGLE)

MayFlow == TypeInv /\ ~prog.must /\ SingleInv /\ phase = "flow"

LEMMA SingleContexts ==
  ASSUME prog.insensitive
  PROVE  /\ \A f : ContextsOf(f) = {SINGLE}
         /\ \A x, f : CalleeContext(x, f) = SINGLE
         /\ \A f, d, x : CallerContexts(f, d, x) = {SINGLE}
  BY DEF ContextsOf, CalleeContext, CallerContexts

LEMMA CurSingle ==
  ASSUME MayFlow, NEW u \in uses, prog.insensitive
  PROVE  cur[2] = SINGLE
  BY DEF MayFlow, SingleInv, Idle

LEMMA JobFields ==
  ASSUME NEW from, NEW to, NEW how, NEW b
  PROVE  /\ Job(from, to, how).from = from /\ Job(from, to, how).to = to
         /\ Job(from, to, how).how = how
         /\ [Job(from, to, how) EXCEPT !.back = b].from = from
         /\ [Job(from, to, how) EXCEPT !.back = b].to = to
         /\ [Job(from, to, how) EXCEPT !.back = b].how = how
  BY DEF Job

LEMMA ConstantAsks ==
  ASSUME MayFlow, UseConstant
  PROVE  \E u \in uses : Asks(u)
  <1>1. PICK u \in uses :
          Take(u) /\ prog.kind[u] = "constant" /\ jobs' = {Job({cur}, <<u, cur[2]>>, "add")}
    BY DEF UseConstant
  <1>2. FlowsAt(u, cur[1], cur[2]) = {<<u, cur[2]>>}
    BY <1>1, FlowsToConstant
  <1>3. QED
    BY <1>1, <1>2, JobFields, CurSingle DEF Asks, Take

LEMMA FindsContextsAsks ==
  ASSUME MayFlow, UseFindsContexts
  PROVE  \E u \in uses : Asks(u)
  <1>1. PICK u \in uses :
          /\ Take(u) /\ u \in Instructions(prog) /\ cur[2] = NONE
          /\ jobs' = {Job({cur}, <<cur[1], x>>, "copy") : x \in ContextsOf(prog.fun[u])}
    BY DEF UseFindsContexts
  <1>2. FlowsAt(u, cur[1], cur[2]) = {cur[1]} \X ContextsOf(prog.fun[u])
    BY <1>1, FlowsFromNone, KindsOfUsers DEF MayFlow
  <1>3. \A t \in FlowsAt(u, cur[1], cur[2]) : \E j \in jobs' : j.to = t
    BY <1>1, <1>2, JobFields
  <1>4. \A j \in jobs' : j.from = {cur} /\ j.how # "set" /\ (prog.insensitive => j.to[2] = SINGLE)
    <2> SUFFICES ASSUME NEW j \in jobs'
                 PROVE  j.from = {cur} /\ j.how # "set" /\ (prog.insensitive => j.to[2] = SINGLE)
      OBVIOUS
    <2>1. PICK x \in ContextsOf(prog.fun[u]) : j = Job({cur}, <<cur[1], x>>, "copy")
      BY <1>1
    <2>2. prog.insensitive => x = SINGLE
      BY SingleContexts
    <2>3. j.from = {cur} /\ j.how = "copy" /\ j.to = <<cur[1], x>>
      BY <2>1, JobFields
    <2>4. QED
      BY <2>2, <2>3
  <1>5. QED
    BY <1>1, <1>3, <1>4 DEF Asks, Take

LEMMA IgnoredAsks ==
  ASSUME MayFlow, UseIgnored
  PROVE  \E u \in uses : Asks(u)
  <1>1. PICK u \in uses :
          /\ Take(u) /\ u \in Instructions(prog) /\ cur[2] # NONE /\ jobs' = jobs
          /\ \/ ~IsInContext(u, cur[2])
             \/ prog.kind[u] = "intrinsic"
             \/ prog.kind[u] = "store" /\ cur[1] = prog.ops[u][2]
    BY DEF UseIgnored
  <1>2. jobs' = {}
    BY <1>1 DEF Take
  <1>3. \A t \in FlowsAt(u, cur[1], cur[2]) : t = cur
    <2>1. cur = <<cur[1], cur[2]>>
      BY DEF MayFlow, TypeInv, TypeOK, Pairs
    <2>2. CASE ~IsInContext(u, cur[2])
      BY <1>1, <2>2, FlowsNowhere, KindsOfUsers DEF MayFlow
    <2>3. CASE IsInContext(u, cur[2])
      BY <1>1, <2>1, <2>3, FlowsThrough, KindsOfUsers DEF MayFlow
    <2>4. QED
      BY <2>2, <2>3
  <1>4. QED
    BY <1>1, <1>2, <1>3 DEF Asks, Take

LEMMA StoreAsks ==
  ASSUME MayFlow, UseStore
  PROVE  \E u \in uses : Asks(u)
  <1>1. PICK u \in uses :
          /\ Take(u) /\ Here(u) /\ prog.kind[u] = "store"
          /\ jobs' = {[Job({cur}, <<prog.ops[u][2], cur[2]>>, "pass")
                         EXCEPT !.back = prog.kind[prog.ops[u][2]] = "gep"]}
    BY DEF UseStore
  <1>2. FlowsAt(u, cur[1], cur[2]) = {<<prog.ops[u][2], cur[2]>>}
    BY <1>1, FlowsThrough, KindsOfUsers DEF MayFlow, Here
  <1>3. PICK j : jobs' = {j} /\ j.from = {cur} /\ j.to = <<prog.ops[u][2], cur[2]>> /\ j.how = "pass"
    <2> DEFINE b == prog.kind[prog.ops[u][2]] = "gep"
               j == [Job({cur}, <<prog.ops[u][2], cur[2]>>, "pass") EXCEPT !.back = b]
    <2>1. jobs' = {j}
      BY <1>1
    <2> HIDE DEF b
    <2>2. j.from = {cur} /\ j.to = <<prog.ops[u][2], cur[2]>> /\ j.how = "pass"
      BY JobFields
    <2> HIDE DEF j
    <2>3. QED
      BY <2>1, <2>2
  <1>4. \A t \in FlowsAt(u, cur[1], cur[2]) : \E k \in jobs' : k.to = t
    BY <1>2, <1>3
  <1>5. \A k \in jobs' : k.from = {cur} /\ k.how # "set" /\ (prog.insensitive => k.to[2] = SINGLE)
    BY <1>3, CurSingle
  <1>6. QED
    BY <1>1, <1>4, <1>5 DEF Asks, Take

LEMMA ExternAsks ==
  ASSUME MayFlow, UseExtern
  PROVE  \E u \in uses : Asks(u)
  <1>1. PICK u \in uses :
          /\ Take(u) /\ Here(u) /\ u \in prog.extern
          /\ jobs' = {[Job({cur}, <<r, cur[2]>>, "pass") EXCEPT !.back = r # u] :
                        r \in ExternResult(u, cur[1])}
    BY DEF UseExtern
  <1>2. FlowsAt(u, cur[1], cur[2]) = ExternResult(u, cur[1]) \X {cur[2]}
    BY <1>1, FlowsThrough, KindsOfUsers DEF MayFlow, Here
  <1> DEFINE job(r) == [Job({cur}, <<r, cur[2]>>, "pass") EXCEPT !.back = r # u]
  <1>3. \A r : job(r).from = {cur} /\ job(r).to = <<r, cur[2]>> /\ job(r).how = "pass"
    <2> SUFFICES ASSUME NEW r
                 PROVE  job(r).from = {cur} /\ job(r).to = <<r, cur[2]>> /\ job(r).how = "pass"
      OBVIOUS
    <2> DEFINE b == r # u
    <2> HIDE DEF b
    <2>1. /\ [Job({cur}, <<r, cur[2]>>, "pass") EXCEPT !.back = b].from = {cur}
          /\ [Job({cur}, <<r, cur[2]>>, "pass") EXCEPT !.back = b].to = <<r, cur[2]>>
          /\ [Job({cur}, <<r, cur[2]>>, "pass") EXCEPT !.back = b].how = "pass"
      BY JobFields
    <2>2. QED
      BY <2>1 DEF b
  <1>4. jobs' = {job(r) : r \in ExternResult(u, cur[1])}
    BY <1>1
  <1> HIDE DEF job
  <1>5. \A t \in FlowsAt(u, cur[1], cur[2]) : \E j \in jobs' : j.to = t
    BY <1>2, <1>3, <1>4
  <1>6. \A j \in jobs' : j.from = {cur} /\ j.how # "set" /\ (prog.insensitive => j.to[2] = SINGLE)
    BY <1>3, <1>4, CurSingle
  <1>7. QED
    BY <1>1, <1>5, <1>6 DEF Asks, Take

LEMMA BinaryOpAsks ==
  ASSUME MayFlow, UseBinaryOp
  PROVE  \E u \in uses : Asks(u)
  <1>1. PICK u \in uses : Take(u) /\ Here(u) /\ prog.kind[u] = "binop" /\ jobs' = jobs
    BY DEF UseBinaryOp
  <1>2. FlowsAt(u, cur[1], cur[2]) = {}
    BY <1>1, FlowsThrough, KindsOfUsers DEF MayFlow, Here
  <1>3. QED
    BY <1>1, <1>2 DEF Asks, Take

LEMMA MergeAsks ==
  ASSUME MayFlow, UseMerge
  PROVE  \E u \in uses : Asks(u)
  <1>1. PICK u \in uses :
          /\ Take(u) /\ Here(u) /\ prog.kind[u] \in {"phi", "select"}
          /\ jobs' = {Job({cur}, <<u, cur[2]>>, "pass")}
    BY DEF UseMerge, MayFlow
  <1>2. FlowsAt(u, cur[1], cur[2]) = {<<u, cur[2]>>}
    BY <1>1, FlowsThrough, KindsOfUsers DEF MayFlow, Here
  <1>3. QED
    BY <1>1, <1>2, JobFields, CurSingle DEF Asks, Take

LEMMA OtherAsks ==
  ASSUME MayFlow, UseOther
  PROVE  \E u \in uses : Asks(u)
  <1>1. PICK u \in uses :
          /\ Take(u) /\ Here(u) /\ prog.kind[u] \in {"annot", "gep", "load", "other"}
          /\ jobs' = {Job({cur}, <<u, cur[2]>>, "pass")}
    BY DEF UseOther
  <1>2. FlowsAt(u, cur[1], cur[2]) = {<<u, cur[2]>>}
    BY <1>1, FlowsThrough, KindsOfUsers DEF MayFlow, Here
  <1>3. QED
    BY <1>1, <1>2, JobFields, CurSingle DEF Asks, Take
LEMMA OnePosition ==
  ASSUME prog \in Programs, NoRepeatedArguments, NEW u \in Calls(prog), NEW v
  PROVE  FirstPosition(u, v) = Positions(u, v)
  <1>1. prog.ops[u] \in Seq(Values(prog))
    BY ProgramShape
  <1>2. /\ Len(prog.ops[u]) \in Nat /\ DOMAIN prog.ops[u] = 1..Len(prog.ops[u])
        /\ prog.ops[u] \in [1..Len(prog.ops[u]) -> Values(prog)]
    BY <1>1
  <1> DEFINE n == Len(prog.ops[u])
             f == prog.ops[u]
  <1>3. f \in Surjection(1..n, Operands(prog, u))
    BY <1>2 DEF Surjection, Operands
  <1>4. IsFiniteSet(1..n) /\ Cardinality(1..n) = n
    BY <1>2, FS_Interval
  <1>5. Cardinality(Operands(prog, u)) = n
    BY DEF NoRepeatedArguments
  <1>6. f \in Injection(1..n, Operands(prog, u))
    <2> HIDE DEF f, n
    <2>1. QED
      BY <1>3, <1>4, <1>5, FS_Surjection
  <1>7. \A i, k \in DOMAIN prog.ops[u] : prog.ops[u][i] = prog.ops[u][k] => i = k
    BY <1>2, <1>6 DEF Injection, IsInjective
  <1>8. QED
    BY <1>2, <1>7 DEF FirstPosition, Positions

(* The jobs for callees fs and positions is.                               *)
LEMMA CalleeJobsFollow ==
  ASSUME MayFlow, NEW u \in uses, u \in Calls(prog), NEW fs, NEW is
  PROVE  /\ \A j \in CalleeJobs(u, fs, is) :
               j.from = {cur} /\ j.how # "set" /\ (prog.insensitive => j.to[2] = SINGLE)
         /\ \A f \in fs \cap Defined(prog) : \A i \in is : \A a \in Formal(f, i) :
               \E j \in CalleeJobs(u, fs, is) : j.to = <<a, CalleeContext(cur[2], f)>>
  <1> DEFINE job(z) == Job({cur}, <<z[3], CalleeContext(cur[2], z[1])>>, "pass")
             zs == {w \in fs \X is \X Values(prog) : w[3] \in Formal(w[1], w[2])}
  <1>1. CalleeJobs(u, fs, is) = {job(z) : z \in zs}
    BY DEF CalleeJobs, MayFlow
  <1>2. \A z : /\ job(z).from = {cur} /\ job(z).how = "pass"
               /\ job(z).to = <<z[3], CalleeContext(cur[2], z[1])>>
    BY JobFields
  <1> HIDE DEF job
  <1>3. \A z : prog.insensitive => job(z).to[2] = SINGLE
    <2> SUFFICES ASSUME NEW z, prog.insensitive PROVE job(z).to[2] = SINGLE
      OBVIOUS
    <2>1. job(z).to = <<z[3], SINGLE>>
      BY <1>2, SingleContexts
    <2>2. QED
      BY <2>1
  <1>4. ASSUME NEW f \in fs \cap Defined(prog), NEW i \in is, NEW a \in Formal(f, i)
        PROVE  \E j \in CalleeJobs(u, fs, is) : j.to = <<a, CalleeContext(cur[2], f)>>
    <2>1. a \in Values(prog)
      BY <1>4, FormalType DEF MayFlow, TypeInv
    <2>2. <<f, i, a>> \in zs
      BY <1>4, <2>1
    <2>3. job(<<f, i, a>>).to = <<a, CalleeContext(cur[2], f)>>
      <3>1. /\ <<f, i, a>>[1] = f /\ <<f, i, a>>[3] = a
        OBVIOUS
      <3>2. QED
        BY <1>2, <3>1
    <2> HIDE DEF zs
    <2>4. job(<<f, i, a>>) \in CalleeJobs(u, fs, is)
      BY <1>1, <2>2
    <2>5. QED
      BY <2>3, <2>4
  <1> HIDE DEF zs
  <1>5. QED
    BY <1>1, <1>2, <1>3, <1>4

LEMMA IntoParametersIn ==
  ASSUME NEW u, NEW x, NEW v, NEW t \in IntoParameters(u, x, v)
  PROVE  \E f \in callees[<<u, x>>] \cap Defined(prog) : \E i \in Positions(u, v) :
           \E a \in Formal(f, i) : t = <<a, CalleeContext(x, f)>>
  BY DEF IntoParameters

LEMMA ArgumentAsks ==
  ASSUME MayFlow, UseArgument
  PROVE  \E u \in uses : Asks(u)
  <1>1. PICK u \in uses :
          LET fs == callees[<<u, cur[2]>>] \cap Defined(prog)
          IN /\ Take(u) /\ Here(u) /\ u \in Calls(prog) \ prog.extern
             /\ jobs' = CalleeJobs(u, fs, FirstPosition(u, cur[1]))
    BY DEF UseArgument
  <1> DEFINE fs == callees[<<u, cur[2]>>] \cap Defined(prog)
  <1>2. FlowsAt(u, cur[1], cur[2]) = IntoParameters(u, cur[2], cur[1])
    BY <1>1, FlowsThrough, KindsOfUsers DEF MayFlow, Here
  <1>3. ASSUME NoRepeatedArguments, NEW t \in FlowsAt(u, cur[1], cur[2])
        PROVE  \E j \in jobs' : j.to = t
    <2>1. PICK f \in fs : \E i \in Positions(u, cur[1]) :
            \E a \in Formal(f, i) : t = <<a, CalleeContext(cur[2], f)>>
      BY <1>2, <1>3, IntoParametersIn
    <2>2. FirstPosition(u, cur[1]) = Positions(u, cur[1])
      BY <1>1, <1>3, OnePosition DEF MayFlow, TypeInv
    <2>3. QED
      BY <1>1, <2>1, <2>2, CalleeJobsFollow
  <1>4. \A j \in jobs' : j.from = {cur} /\ j.how # "set" /\ (prog.insensitive => j.to[2] = SINGLE)
    BY <1>1, CalleeJobsFollow
  <1>5. QED
    BY <1>1, <1>3, <1>4 DEF Asks, Take

LEMMA PointerAsks ==
  ASSUME MayFlow, UsePointer
  PROVE  \E u \in uses : Asks(u)
  <1>1. PICK u \in uses :
          LET new == IF prog.tracking THEN state[cur] \cap prog.fits[cur[1]] ELSE {}
              fs == (callees[<<u, cur[2]>>] \cup new) \cap Defined(prog)
          IN /\ Take(u) /\ Here(u) /\ u \in Calls(prog) \ prog.extern
             /\ jobs' = CalleeJobs(u, fs, DOMAIN prog.ops[u])
    BY DEF UsePointer
  <1> DEFINE new == IF prog.tracking THEN state[cur] \cap prog.fits[cur[1]] ELSE {}
             fs == (callees[<<u, cur[2]>>] \cup new) \cap Defined(prog)
  <1>2. FlowsAt(u, cur[1], cur[2]) = IntoParameters(u, cur[2], cur[1])
    BY <1>1, FlowsThrough, KindsOfUsers DEF MayFlow, Here
  <1>3. ASSUME NEW t \in FlowsAt(u, cur[1], cur[2])
        PROVE  \E j \in jobs' : j.to = t
    <2>1. PICK f \in callees[<<u, cur[2]>>] \cap Defined(prog) : \E i \in Positions(u, cur[1]) :
            \E a \in Formal(f, i) : t = <<a, CalleeContext(cur[2], f)>>
      BY <1>2, <1>3, IntoParametersIn
    <2>2. f \in fs \cap Defined(prog)
      BY <2>1
    <2>3. Positions(u, cur[1]) \subseteq DOMAIN prog.ops[u]
      BY DEF Positions
    <2> HIDE DEF fs
    <2>4. QED
      <3>1. PICK i \in DOMAIN prog.ops[u] : \E a \in Formal(f, i) : t = <<a, CalleeContext(cur[2], f)>>
        BY <2>1, <2>3
      <3>2. jobs' = CalleeJobs(u, fs, DOMAIN prog.ops[u])
        BY <1>1 DEF fs
      <3>3. QED
        BY <1>1, <2>2, <3>1, <3>2, CalleeJobsFollow
  <1>4. \A j \in jobs' : j.from = {cur} /\ j.how # "set" /\ (prog.insensitive => j.to[2] = SINGLE)
    <2> HIDE DEF fs
    <2>1. QED
      BY <1>1, CalleeJobsFollow DEF fs
  <1>5. QED
    BY <1>1, <1>3, <1>4 DEF Asks, Take

LEMMA ReturnAsks ==
  ASSUME MayFlow, UseReturn
  PROVE  \E u \in uses : Asks(u)
  <1>1. PICK u \in uses :
          /\ Take(u) /\ Here(u) /\ prog.kind[u] = "ret"
          /\ jobs' = {Job({cur}, z, "pass") :
                        z \in {w \in Callers(prog.fun[u], cur[2]) \X Contexts(prog) :
                                 w[2] \in CallerContexts(prog.fun[u], w[1], cur[2])}}
    BY DEF UseReturn, MayFlow
  <1> DEFINE f == prog.fun[u]
             zs == {w \in Callers(f, cur[2]) \X Contexts(prog) :
                      w[2] \in CallerContexts(f, w[1], cur[2])}
  <1>2. FlowsAt(u, cur[1], cur[2]) = BackToCallers(f, cur[2])
    BY <1>1, FlowsThrough, KindsOfUsers DEF MayFlow, Here
  <1>3. cur[2] \in Contexts(prog)
    BY CurType DEF MayFlow
  <1>4. ASSUME NEW t \in FlowsAt(u, cur[1], cur[2])
        PROVE  \E j \in jobs' : j.to = t
    <2>1. ~Crossing(f) /\ t \in Callers(f, cur[2]) \X {cur[2]}
      BY <1>2, <1>4 DEF BackToCallers
    <2>2. cur[2] \in CallerContexts(f, t[1], cur[2])
      <3>1. CASE prog.insensitive
        BY <3>1, SingleContexts, CurSingle
      <3>2. CASE ~prog.insensitive
        BY <2>1, <3>2 DEF CallerContexts, Crossing
      <3>3. QED
        BY <3>1, <3>2
    <2>3. t \in zs
      BY <1>3, <2>1, <2>2
    <2> HIDE DEF zs
    <2>4. QED
      BY <1>1, <2>3, JobFields DEF zs
  <1>5. ASSUME NEW j \in jobs'
        PROVE  j.from = {cur} /\ j.how # "set" /\ (prog.insensitive => j.to[2] = SINGLE)
    <2>1. PICK z \in zs : j = Job({cur}, z, "pass")
      BY <1>1
    <2>2. prog.insensitive => z[2] = SINGLE
      BY <2>1, SingleContexts
    <2> HIDE DEF zs
    <2>3. QED
      BY <2>1, <2>2, JobFields
  <1>6. QED
    BY <1>1, <1>4, <1>5 DEF Asks, Take

LEMMA UsersAsk ==
  ASSUME MayFlow, Use
  PROVE  \E u \in uses : Asks(u)
  BY ConstantAsks, FindsContextsAsks, IgnoredAsks, StoreAsks, ExternAsks, BinaryOpAsks,
     MergeAsks, OtherAsks, ArgumentAsks, PointerAsks, ReturnAsks DEF Use
-----------------------------------------------------------------------------
(* Values flow to pairs of the program.                                    *)

LEMMA FlowsType ==
  ASSUME TypeInv, NEW e \in Pairs(prog)
  PROVE  Flows(e) \subseteq Pairs(prog)
  <1> SUFFICES ASSUME NEW u \in Users(prog, e[1]) PROVE FlowsAt(u, e[1], e[2]) \subseteq Pairs(prog)
    BY DEF Flows
  <1> DEFINE v == e[1]
             x == e[2]
  <1>1. u \in DOMAIN prog.ops /\ v \in Values(prog) /\ x \in Contexts(prog) /\ u \in Values(prog)
    BY ProgramShape DEF Users, Pairs, TypeInv
  <1>2. ValuesWellFormed(prog) /\ CallsWellFormed(prog)
    BY ProgramsAssumption DEF TypeInv, WellFormed
  <1>3. prog.extern \subseteq Calls(prog) /\ (prog.kind[u] = "call" <=> u \in Calls(prog))
    BY <1>1, <1>2 DEF CallsWellFormed
  <1>4. <<u, x>> \in Pairs(prog)
    BY <1>1 DEF Pairs
  <1> HIDE DEF v, x
  <1>5. CASE prog.kind[u] = "constant"
    BY <1>4, <1>5, FlowsToConstant DEF v, x
  <1>6. CASE prog.kind[u] # "constant" /\ x = NONE
    <2>1. {v} \X ContextsOf(prog.fun[u]) \subseteq Pairs(prog)
      BY <1>1, ContextsOfType DEF Pairs
    <2>2. QED
      BY <1>6, <2>1, FlowsFromNone DEF v, x
  <1>7. CASE prog.kind[u] # "constant" /\ x # NONE /\ ~IsInContext(u, x)
    BY <1>7, FlowsNowhere DEF v, x
  <1>8. CASE prog.kind[u] # "constant" /\ x # NONE /\ IsInContext(u, x)
    <2>1. /\ prog.kind[u] = "store" => FlowsAt(u, v, x) = {<<prog.ops[u][2], x>>}
          /\ u \in prog.extern => FlowsAt(u, v, x) = ExternResult(u, v) \X {x}
          /\ u \in Calls(prog) \ prog.extern => FlowsAt(u, v, x) = IntoParameters(u, x, v)
          /\ prog.kind[u] = "ret" => FlowsAt(u, v, x) = BackToCallers(prog.fun[u], x)
          /\ prog.kind[u] \in {"phi", "select", "annot", "gep", "load", "other"} =>
                FlowsAt(u, v, x) = {<<u, x>>}
          /\ prog.kind[u] \in {"binop", "intrinsic"} => FlowsAt(u, v, x) = {}
      BY <1>3, <1>8, FlowsThrough
    <2>2. ASSUME prog.kind[u] = "store" PROVE <<prog.ops[u][2], x>> \in Pairs(prog)
      <3>1. Len(prog.ops[u]) = 2 /\ prog.ops[u] \in Seq(Values(prog))
        BY <1>1, <1>2, <2>2 DEF ValuesWellFormed
      <3>2. prog.ops[u][2] \in Values(prog)
        BY <3>1
      <3>3. QED
        BY <1>1, <3>2 DEF Pairs
    <2>3. ASSUME u \in prog.extern PROVE ExternResult(u, v) \X {x} \subseteq Pairs(prog)
      <3>1. ExternResult(u, v) \subseteq Values(prog)
        BY <1>3, <2>3, ExternResultType DEF TypeInv
      <3>2. QED
        BY <1>1, <3>1 DEF Pairs
    <2>4. IntoParameters(u, x, v) \subseteq Pairs(prog)
      <3> SUFFICES ASSUME NEW t \in IntoParameters(u, x, v) PROVE t \in Pairs(prog)
        OBVIOUS
      <3>1. PICK f \in callees[<<u, x>>] \cap Defined(prog) : \E i \in Positions(u, v) :
              \E a \in Formal(f, i) : t = <<a, CalleeContext(x, f)>>
        BY IntoParametersIn
      <3>2. PICK i \in Positions(u, v) : \E a \in Formal(f, i) : t = <<a, CalleeContext(x, f)>>
        BY <3>1
      <3>3. Formal(f, i) \subseteq Values(prog)
        BY FormalType DEF TypeInv
      <3>4. QED
        BY <1>1, <3>2, <3>3, CalleeContextType DEF Pairs
    <2>5. BackToCallers(prog.fun[u], x) \subseteq Pairs(prog)
      <3>1. Callers(prog.fun[u], x) \subseteq Values(prog)
        BY ProgramShape DEF Callers, TypeInv
      <3>2. QED
        BY <1>1, <3>1 DEF BackToCallers, Pairs
    <2>6. /\ prog.kind[u] \in Kinds
          /\ prog.kind[u] # "constant" => u \in Instructions(prog)
      BY <1>1, <1>2 DEF ValuesWellFormed
    <2>7. CASE prog.kind[u] \in {"global", "alloca", "arg", "function"}
      <3>1. u \notin Calls(prog) /\ u \notin prog.extern
        BY <1>3, <2>7
      <3>2. FlowsAt(u, v, x) = {}
        <4>1. /\ prog.kind[u] # "store" /\ prog.kind[u] # "ret"
              /\ prog.kind[u] \notin {"phi", "select", "annot", "gep", "load", "other"}
          BY <2>7
        <4>2. QED
          BY <1>8, <3>1, <4>1, Zenon DEF FlowsAt
      <3>3. QED
        BY <3>2 DEF v, x
    <2>8. CASE prog.kind[u] \notin {"global", "alloca", "arg", "function"}
      <3>1. FlowsAt(u, v, x) \subseteq Pairs(prog)
        BY <1>3, <1>4, <1>8, <2>1, <2>2, <2>3, <2>4, <2>5, <2>6, <2>8 DEF Kinds
      <3>2. QED
        BY <3>1 DEF v, x
    <2>9. QED
      BY <2>7, <2>8
  <1>9. QED
    BY <1>5, <1>6, <1>7, <1>8

-----------------------------------------------------------------------------
(* A step that takes nothing away that can be kept, enqueues what it adds  *)
(* to and follows what it takes off the lists, leaves no flow behind.      *)
LEMMA CarriedGrows ==
  ASSUME TypeInv, Carried, UNCHANGED <<prog, callees, members, cur>>, worklist \subseteq worklist',
         \A e \in Pairs(prog) : state'[e] \subseteq state[e] \/ e \in worklist',
         \A e \in Pairs(prog) : state[e] \cap Fitting(e[1]) \subseteq state'[e],
         \A t \in Pairs(prog) :
           Waits(t) => Waits(t)' \/ state[cur] \cap Fitting(t[1]) \subseteq state'[t] \/ t = cur
  PROVE  Carried'
  <1> SUFFICES ASSUME NEW e \in Pairs(prog), Flowing(e), NEW t \in Flows(e), e \notin worklist'
               PROVE  state'[e] \cap Fitting(t[1]) \subseteq state'[t] \/ (e = cur /\ Waits(t)')
    BY FlowsSame DEF Carried
  <1>1. t \in Pairs(prog)
    BY FlowsType
  <1>2. state'[e] \subseteq state[e]
    OBVIOUS
  <1>3. state[e] \cap Fitting(t[1]) \subseteq state[t] \/ (e = cur /\ Waits(t))
    BY DEF Carried
  <1>4. CASE state[e] \cap Fitting(t[1]) \subseteq state[t]
    BY <1>1, <1>2, <1>4
  <1>5. CASE e = cur /\ Waits(t)
    BY <1>1, <1>2, <1>5
  <1>6. QED
    BY <1>3, <1>4, <1>5

LEMMA WaitsOneLess ==
  ASSUME TypeInv, UNCHANGED <<prog, callees, members, cur>>, NEW u \in uses, Asks(u), jobs = {},
         NoRepeatedArguments, NEW t, Waits(t)
  PROVE  Waits(t)' \/ t = cur
  <1>1. PICK w \in uses : t \in FlowsAt(w, cur[1], cur[2])
    BY DEF Waits
  <1>2. CASE w = u
    BY <1>1, <1>2 DEF Asks, Waits
  <1>3. CASE w # u
    <2>1. w \in uses' /\ t \in FlowsAt(w, cur[1], cur[2])'
      BY <1>1, <1>3, FlowsSame DEF Asks
    <2>2. QED
      BY <2>1 DEF Waits
  <1>4. QED
    BY <1>2, <1>3
-----------------------------------------------------------------------------
(* Users.                                                                  *)

(* What a user does to facts, whatever it is.                              *)
LEMMA UseFacts ==
  ASSUME TypeInv, Use
  PROVE  /\ phase = "flow" /\ rewind = << >> /\ jobs = {}
         /\ UNCHANGED <<prog, phase, todo, cur, rewind>>
         /\ worklist \subseteq worklist' /\ known \subseteq known'
         /\ \A e \in known' \ known : e \in worklist' /\ e[2] = cur[2]
         /\ \A e \in worklist' \ worklist : e[2] = cur[2]
         /\ \A e \in Pairs(prog) : state'[e] \subseteq state[e]
         /\ \A e \in Pairs(prog) : state[e] \cap Fitting(e[1]) \subseteq state'[e]
         /\ \A k \in DOMAIN prog.graph : callees[k] \subseteq callees'[k]
         /\ callees' = callees => members' = members
         /\ uses # {}
  <1>1. state \in [Pairs(prog) -> SUBSET Facts] /\ callees \in [Calls(prog) \X Contexts(prog) -> SUBSET Functions(prog)]
    BY DEF TypeInv, TypeOK
  <1>2. CASE UseBinaryOp
    <2>1. PICK u \in uses :
            /\ Take(u) /\ prog.kind[u] = "binop"
            /\ state' = [state EXCEPT ![<<u, cur[2]>>] = {}]
            /\ known' = known \cup {<<u, cur[2]>>}
            /\ worklist' = worklist \cup {<<u, cur[2]>>}
      BY <1>2 DEF UseBinaryOp
    <2>2. UNCHANGED <<prog, phase, todo, graphVars, cur, jobs, rewind, visited>>
      BY <1>2 DEF UseBinaryOp
    <2>3. Fitting(u) = {}
      BY <2>1 DEF Fitting
    <2>4. \A e \in Pairs(prog) : state[e] \cap Fitting(e[1]) \subseteq state'[e]
      BY <1>1, <2>1, <2>3
    <2>5. \A e \in Pairs(prog) : state'[e] \subseteq state[e]
      BY <1>1, <2>1
    <2>6. QED
      BY <2>1, <2>2, <2>4, <2>5 DEF Take, graphVars
  <1>3. CASE UsePointer
    <2> DEFINE new == IF prog.tracking THEN state[cur] \cap prog.fits[cur[1]] ELSE {}
    <2>1. PICK u \in uses :
            /\ Take(u) /\ u \in Calls(prog) \ prog.extern /\ prog.called[u] = cur[1]
            /\ callees' = [callees EXCEPT ![<<u, cur[2]>>] = @ \cup new]
            /\ Refresh(cur[2])
            /\ state' = [state EXCEPT ![cur] = IF prog.tracking THEN new ELSE @]
      BY <1>3 DEF UsePointer
    <2>2. UNCHANGED <<prog, phase, todo, known, worklist, cur, rewind, visited>>
      BY <1>3 DEF UsePointer
    <2>3. prog.tracking => cur[1] \in DOMAIN prog.fits
      BY <2>1, ProgramsAssumption DEF TypeInv, WellFormed, AnalysisWellFormed
    <2>4. prog.tracking => Fitting(cur[1]) \subseteq prog.fits[cur[1]]
      BY <2>3 DEF Fitting
    <2>5. \A e \in Pairs(prog) : state[e] \cap Fitting(e[1]) \subseteq state'[e]
      BY <1>1, <2>1, <2>4
    <2>6. \A e \in Pairs(prog) : state'[e] \subseteq state[e]
      BY <1>1, <2>1
    <2>7. \A k \in DOMAIN prog.graph : callees[k] \subseteq callees'[k]
      <3>1. DOMAIN prog.graph = Calls(prog) \X Contexts(prog)
        BY ProgramsAssumption DEF TypeInv, WellFormed, CallsWellFormed
      <3> HIDE DEF new
      <3>2. QED
        BY <1>1, <2>1, <3>1
    <2>8. callees' = callees => members' = members
      <3>1. members = [y \in Domains(prog) |-> members[y]]
        BY DEF TypeInv, TypeOK
      <3>2. QED
        BY <2>1, <3>1 DEF Refresh
    <2>9. QED
      BY <2>1, <2>2, <2>5, <2>6, <2>7, <2>8 DEF Take
  <1>4. CASE ~UseBinaryOp /\ ~UsePointer
    <2>1. /\ UNCHANGED <<prog, phase, todo, callees, members, state, known, worklist, cur, rewind>>
          /\ phase = "flow" /\ rewind = << >> /\ jobs = {} /\ uses # {}
      BY <1>4 DEF Use, UseConstant, UseFindsContexts, UseIgnored, UseStore, UseExtern, UseMerge,
                  UseOther, UseArgument, UseReturn, Take, graphVars
    <2>2. QED
      BY <2>1
  <1>5. QED
    BY <1>2, <1>3, <1>4

LEMMA UseKnown ==
  ASSUME FlowInv, Use, ~prog.must
  PROVE  KnownInv'
  <1>1. TypeInv /\ KnownInv
    BY DEF FlowInv
  <1>2. /\ prog' = prog /\ known \subseteq known'
        /\ \A e \in Pairs(prog) : state'[e] \subseteq state[e]
        /\ \A k \in DOMAIN prog.graph : callees[k] \subseteq callees'[k]
    BY <1>1, UseFacts
  <1>3. \A k \in DOMAIN prog'.graph : prog'.graph[k] \subseteq callees'[k]
    BY <1>1, <1>2 DEF KnownInv
  <1>4. \A e \in Pairs(prog') \ known' : state'[e] = {}
    BY <1>1, <1>2 DEF KnownInv
  <1>5. QED
    BY <1>3, <1>4 DEF KnownInv

(* The graph is as it was if it is as it was at the beginning.             *)
LEMMA GraphStays ==
  ASSUME TypeInv, KnownInv, Followed', prog' = prog,
         \A k \in DOMAIN prog.graph : callees[k] \subseteq callees'[k]
  PROVE  callees' = callees /\ Followed
  <1>1. /\ callees \in [Calls(prog) \X Contexts(prog) -> SUBSET Functions(prog)]
        /\ prog.graph \in [Calls(prog) \X Contexts(prog) -> SUBSET Functions(prog)]
    BY ProgramsAssumption DEF TypeInv, TypeOK, WellFormed, CallsWellFormed
  <1>2. callees' = prog.graph /\ NoRepeatedArguments
    BY DEF Followed, NoRepeatedArguments, Operands, Calls
  <1>3. ASSUME NEW k \in Calls(prog) \X Contexts(prog) PROVE callees[k] = prog.graph[k]
    <2>1. k \in DOMAIN prog.graph
      BY <1>1
    <2>2. prog.graph[k] \subseteq callees[k]
      BY <2>1 DEF KnownInv
    <2>3. callees[k] \subseteq prog.graph[k]
      BY <1>2, <2>1
    <2>4. QED
      BY <2>2, <2>3
  <1>4. callees = prog.graph
    BY <1>1, <1>3
  <1>5. QED
    BY <1>2, <1>4 DEF Followed

LEMMA UseStep ==
  ASSUME FlowInv, Use, ~prog.must
  PROVE  /\ JobInv' /\ MergeInv' /\ SingleInv' /\ FlowComplete'
         /\ (Followed /\ phase = "flow" => Carried)'
  <1>1. TypeInv /\ KnownInv /\ SingleInv
    BY DEF FlowInv
  <1>2. /\ phase = "flow" /\ rewind = << >> /\ jobs = {} /\ uses # {}
        /\ UNCHANGED <<prog, phase, todo, cur, rewind>>
        /\ worklist \subseteq worklist' /\ known \subseteq known'
        /\ \A e \in known' \ known : e \in worklist' /\ e[2] = cur[2]
        /\ \A e \in worklist' \ worklist : e[2] = cur[2]
        /\ \A e \in Pairs(prog) : state'[e] \subseteq state[e]
        /\ \A e \in Pairs(prog) : state[e] \cap Fitting(e[1]) \subseteq state'[e]
        /\ \A k \in DOMAIN prog.graph : callees[k] \subseteq callees'[k]
        /\ callees' = callees => members' = members
    BY <1>1, UseFacts
  <1>3. MayFlow
    BY <1>1, <1>2 DEF MayFlow
  <1>4. PICK u \in uses : Asks(u)
    BY <1>3, UsersAsk
  <1>5. JobInv'
    BY <1>2, <1>4 DEF JobInv, Asks
  <1>6. MergeInv' /\ FlowComplete'
    BY <1>2 DEF MergeInv, FlowComplete, Done
  <1>7. SingleInv'
    <2> SUFFICES ASSUME prog.insensitive PROVE SingleInv'
      BY <1>2 DEF SingleInv
    <2>1. cur[2] = SINGLE
      BY <1>3, CurSingle
    <2>2. \A e \in known' \ known : e = <<e[1], e[2]>>
      <3>1. known' \subseteq Pairs(prog)
        BY <1>1, <1>2, UseType DEF TypeInv, TypeOK
      <3>2. QED
        BY <3>1 DEF Pairs
    <2>3. \A e \in known' : <<e[1], SINGLE>> \in known'
      <3>1. \A e \in known : <<e[1], SINGLE>> \in known
        BY <1>1, <1>2 DEF SingleInv
      <3>2. \A e \in known' \ known : e[2] = SINGLE
        BY <1>2, <2>1
      <3>3. QED
        BY <1>2, <2>2, <3>1, <3>2
    <2>4. \A e \in worklist' : e[2] = SINGLE
      BY <1>1, <1>2, <2>1 DEF SingleInv
    <2>5. \A j \in jobs' : j.to[2] = SINGLE
      BY <1>4 DEF Asks
    <2>6. QED
      BY <1>2, <2>1, <2>3, <2>4, <2>5 DEF SingleInv
  <1>8. ASSUME Followed' PROVE Carried'
    <2>1. callees' = callees /\ Followed
      BY <1>1, <1>2, <1>8, GraphStays
    <2>2. members' = members /\ Carried /\ NoRepeatedArguments
      BY <1>2, <2>1 DEF FlowInv, Followed
    <2>3. \A t \in Pairs(prog) : Waits(t) => Waits(t)' \/ t = cur
      BY <1>1, <1>2, <1>4, <2>1, <2>2, WaitsOneLess
    <2>4. QED
      BY <1>1, <1>2, <2>1, <2>2, <2>3, CarriedGrows
  <1>9. QED
    BY <1>2, <1>5, <1>6, <1>7, <1>8
-----------------------------------------------------------------------------
(* Propagations.                                                           *)

LEMMA MeetOverOne ==
  ASSUME TypeInv
  PROVE  MeetOver({cur}) = state[cur]
  <1>1. state[cur] \subseteq Facts
    BY CurType DEF TypeInv, TypeOK
  <1>2. QED
    BY <1>1 DEF MeetOver

LEMMA PropagateKnown ==
  ASSUME FlowInv, Propagate, ~prog.must
  PROVE  KnownInv'
  <1>1. PICK j \in jobs :
          /\ state' = [state EXCEPT ![j.to] = NewState(j)]
          /\ known' = known \cup {j.to} \cup j.from
    BY DEF Propagate
  <1>2. prog' = prog /\ callees' = callees
    BY DEF Propagate, graphVars
  <1>3. state \in [Pairs(prog) -> SUBSET Facts]
    BY DEF FlowInv, TypeInv, TypeOK
  <1>4. QED
    BY <1>1, <1>2, <1>3 DEF FlowInv, KnownInv

LEMMA PropagateStep ==
  ASSUME FlowInv, Propagate, ~prog.must
  PROVE  /\ JobInv' /\ MergeInv' /\ SingleInv' /\ FlowComplete'
         /\ (Followed /\ phase = "flow" => Carried)'
  <1>1. TypeInv /\ KnownInv /\ SingleInv /\ JobInv
    BY DEF FlowInv
  <1>2. /\ phase = "flow" /\ rewind = << >>
        /\ UNCHANGED <<prog, phase, todo, callees, members, cur, uses>>
    BY DEF Propagate, graphVars
  <1>3. PICK j \in jobs :
          /\ jobs' = jobs \ {j}
          /\ state' = [state EXCEPT ![j.to] = NewState(j)]
          /\ known' = known \cup {j.to} \cup j.from
          /\ worklist' = IF Changes(j) \/ j.how = "copy" THEN worklist \cup {j.to} ELSE worklist
          /\ rewind' = IF j.back /\ Changes(j) THEN <<Task(j.to, j.to, "visit")>> ELSE << >>
    BY DEF Propagate
  <1>4. /\ j.from = {cur} /\ j.how # "set" /\ j.to \in Pairs(prog)
        /\ state \in [Pairs(prog) -> SUBSET Facts] /\ cur \in Pairs(prog) /\ ~Idle
    BY <1>1, <1>3 DEF JobInv, TypeInv, TypeOK, Idle
  <1>5. state[j.to] \subseteq NewState(j) /\ state[cur] \subseteq NewState(j)
    <2>1. MeetOver(j.from) = state[cur]
      BY <1>1, <1>4, MeetOverOne
    <2>2. j.to \notin known => state[j.to] = {}
      BY <1>1, <1>4 DEF KnownInv
    <2>3. QED
      BY <1>4, <2>1, <2>2 DEF NewState
  <1>6. JobInv'
    BY <1>1, <1>2, <1>3 DEF JobInv
  <1>7. MergeInv' /\ FlowComplete'
    BY <1>2 DEF MergeInv, FlowComplete, Done
  <1>8. SingleInv'
    <2> SUFFICES ASSUME prog.insensitive PROVE SingleInv'
      BY <1>2 DEF SingleInv
    <2>1. /\ cur[2] = SINGLE /\ \A k \in jobs : k.to[2] = SINGLE
          /\ \A e \in worklist : e[2] = SINGLE
          /\ \A e \in known : <<e[1], SINGLE>> \in known
      BY <1>1, <1>2, <1>4 DEF SingleInv
    <2>2. j.to = <<j.to[1], SINGLE>> /\ cur = <<cur[1], SINGLE>>
      BY <1>4, <2>1 DEF Pairs
    <2>3. \A e \in known' : <<e[1], SINGLE>> \in known'
      BY <1>3, <1>4, <2>1, <2>2
    <2>4. \A e \in worklist' : e[2] = SINGLE
      BY <1>3, <2>1
    <2>5. \A i \in DOMAIN rewind' : rewind'[i].src[2] = SINGLE /\ rewind'[i].dst[2] = SINGLE
      <3>1. CASE rewind' = << >>
        BY <3>1
      <3>2. CASE rewind' = <<Task(j.to, j.to, "visit")>>
        BY <2>1, <3>2 DEF Task
      <3>3. QED
        BY <1>3, <3>1, <3>2
    <2>6. \A k \in jobs' : k.to[2] = SINGLE
      BY <1>3, <2>1
    <2>7. QED
      BY <1>2, <2>1, <2>3, <2>4, <2>5, <2>6 DEF SingleInv
  <1>9. ASSUME Followed' PROVE Carried'
    <2>1. Followed /\ Carried
      BY <1>2, <1>9, FlowsSame DEF FlowInv
    <2>2. \A e \in Pairs(prog) : state'[e] \subseteq state[e] \/ e \in worklist'
      <3>1. CASE NewState(j) = state[j.to]
        BY <1>3, <1>4, <3>1
      <3>2. CASE NewState(j) # state[j.to]
        BY <1>3, <1>4, <3>2 DEF Changes
      <3>3. QED
        BY <3>1, <3>2
    <2>3. \A e \in Pairs(prog) : state[e] \cap Fitting(e[1]) \subseteq state'[e]
      BY <1>3, <1>4, <1>5
    <2>4. ASSUME NEW t \in Pairs(prog), Waits(t)
          PROVE  Waits(t)' \/ state[cur] \cap Fitting(t[1]) \subseteq state'[t] \/ t = cur
      <3>1. CASE \E u \in uses : t \in FlowsAt(u, cur[1], cur[2])
        BY <1>2, <3>1, FlowsSame DEF Waits
      <3>2. CASE \E k \in jobs \ {j} : k.to = t
        BY <1>3, <3>2 DEF Waits
      <3>3. CASE j.to = t
        BY <1>3, <1>4, <1>5, <3>3
      <3>4. QED
        BY <2>4, <3>1, <3>2, <3>3 DEF Waits
    <2>5. worklist \subseteq worklist'
      BY <1>3
    <2>6. QED
      BY <1>1, <1>2, <2>1, <2>2, <2>3, <2>4, <2>5, CarriedGrows
  <1>10. QED
    BY <1>2, <1>6, <1>7, <1>8, <1>9

-----------------------------------------------------------------------------
(* Rewinding.                                                              *)

(* What a rewinding step keeps: it adds facts, to pairs that it enqueues.  *)
Rewound ==
  /\ worklist \subseteq worklist' /\ worklist' \subseteq known'
  /\ \A e \in Pairs(prog) : state[e] \subseteq state'[e]
  /\ \A e \in Pairs(prog) : state'[e] \subseteq state[e] \/ e \in worklist'
  /\ \A e \in Pairs(prog) \ known' : state'[e] = {}
  /\ prog.insensitive =>
       /\ \A e \in worklist' : e[2] = SINGLE
       /\ \A e \in known' : <<e[1], SINGLE>> \in known'
       /\ \A i \in DOMAIN rewind' : rewind'[i].src[2] = SINGLE /\ rewind'[i].dst[2] = SINGLE

LEMMA RewindKnown ==
  ASSUME FlowInv, Rewinding, Rewound, ~prog.must
  PROVE  KnownInv'
  BY DEF FlowInv, KnownInv, Rewinding, Rewound, graphVars

LEMMA RewoundStep ==
  ASSUME FlowInv, Rewinding, Rewound, ~prog.must
  PROVE  /\ JobInv' /\ MergeInv' /\ SingleInv' /\ FlowComplete'
         /\ (Followed /\ phase = "flow" => Carried)'
  <1>1. TypeInv /\ KnownInv /\ SingleInv /\ JobInv
    BY DEF FlowInv
  <1>2. /\ phase = "flow" /\ rewind # << >>
        /\ UNCHANGED <<prog, phase, todo, callees, members, cur, uses, jobs>>
    BY DEF Rewinding, graphVars
  <1>3. JobInv' /\ MergeInv' /\ FlowComplete'
    BY <1>1, <1>2 DEF JobInv, MergeInv, FlowComplete, Done
  <1>4. SingleInv'
    <2> SUFFICES ASSUME prog.insensitive PROVE SingleInv'
      BY <1>2 DEF SingleInv
    <2>1. cur[2] = SINGLE /\ \A k \in jobs : k.to[2] = SINGLE
      BY <1>1, <1>2 DEF SingleInv, Idle
    <2>2. QED
      BY <1>2, <2>1 DEF SingleInv, Rewound
  <1>5. ASSUME Followed' PROVE Carried'
    <2>1. Followed /\ Carried
      BY <1>2, <1>5, FlowsSame DEF FlowInv
    <2>2. \A t \in Pairs(prog) : Waits(t) => Waits(t)'
      BY <1>2, FlowsSame DEF Waits
    <2>3. \A e \in Pairs(prog) : state[e] \cap Fitting(e[1]) \subseteq state'[e]
      BY DEF Rewound
    <2>4. QED
      BY <1>1, <1>2, <2>1, <2>2, <2>3, CarriedGrows DEF Rewound
  <1>6. QED
    BY <1>2, <1>3, <1>4, <1>5

(* What a rewinding step starts from.                                      *)
LEMMA StackSingle ==
  ASSUME FlowInv, ~prog.must, Rewinding, prog.insensitive
  PROVE  /\ Head(rewind).src[2] = SINGLE /\ Head(rewind).dst[2] = SINGLE
         /\ \A i \in DOMAIN Tail(rewind) : Tail(rewind)[i].src[2] = SINGLE /\ Tail(rewind)[i].dst[2] = SINGLE
         /\ \A e \in worklist : e[2] = SINGLE
         /\ \A e \in known : <<e[1], SINGLE>> \in known
  <1>1. /\ \A i \in DOMAIN rewind : rewind[i].src[2] = SINGLE /\ rewind[i].dst[2] = SINGLE
        /\ \A e \in worklist : e[2] = SINGLE
        /\ \A e \in known : <<e[1], SINGLE>> \in known
    BY DEF FlowInv, SingleInv, Rewinding
  <1>2. rewind \in Seq(TaskSet) /\ rewind # << >>
    BY DEF FlowInv, TypeInv, TypeOK, Rewinding, TaskSet
  <1>3. 1 \in DOMAIN rewind /\ Head(rewind) = rewind[1]
    BY <1>2
  <1>4. \A i \in DOMAIN Tail(rewind) : i + 1 \in DOMAIN rewind /\ Tail(rewind)[i] = rewind[i + 1]
    BY <1>2
  <1>5. QED
    BY <1>1, <1>3, <1>4

LEMMA JoinRewinds ==
  ASSUME FlowInv, ~prog.must, NEW src \in Pairs(prog), NEW dsts \in SUBSET Pairs(prog), Join(src, dsts),
         prog.insensitive =>
           /\ src[2] = SINGLE /\ \A e \in dsts : e[2] = SINGLE
           /\ \A e \in worklist : e[2] = SINGLE
           /\ \A e \in known : <<e[1], SINGLE>> \in known
           /\ \A i \in DOMAIN rewind' : rewind'[i].src[2] = SINGLE /\ rewind'[i].dst[2] = SINGLE
  PROVE  Rewound
  <1>1. /\ TypeInv /\ KnownInv
        /\ state' = [e \in Pairs(prog) |-> IF e \in dsts THEN state[e] \cup state[src] ELSE state[e]]
        /\ known' = known \cup dsts \cup {src}
        /\ worklist' = worklist \cup
                         {e \in dsts : e \notin known \/ ~(state[src] \subseteq state[e])}
    BY DEF FlowInv, Join
  <1>2. worklist \subseteq worklist' /\ worklist' \subseteq known'
    BY <1>1 DEF TypeInv, TypeOK
  <1>3. \A e \in Pairs(prog) : state[e] \subseteq state'[e]
    BY <1>1
  <1>4. ASSUME NEW e \in Pairs(prog) PROVE state'[e] \subseteq state[e] \/ e \in worklist'
    <2>1. CASE e \notin dsts
      BY <1>1, <2>1
    <2>2. CASE e \in dsts /\ state[src] \subseteq state[e]
      BY <1>1, <2>2
    <2>3. CASE e \in dsts /\ ~(state[src] \subseteq state[e])
      BY <1>1, <2>3
    <2>4. QED
      BY <2>1, <2>2, <2>3
  <1>5. \A e \in Pairs(prog) \ known' : state'[e] = {}
    BY <1>1 DEF KnownInv
  <1>6. ASSUME prog.insensitive
        PROVE  /\ \A e \in worklist' : e[2] = SINGLE
               /\ \A e \in known' : <<e[1], SINGLE>> \in known'
    <2>1. \A e \in dsts \cup {src} : e = <<e[1], SINGLE>>
      BY <1>6 DEF Pairs
    <2>2. \A e \in worklist' : e[2] = SINGLE
      BY <1>1, <1>6
    <2>3. \A e \in known' : <<e[1], SINGLE>> \in known'
      BY <1>1, <1>6, <2>1
    <2>4. QED
      BY <2>2, <2>3
  <1>7. QED
    BY <1>2, <1>3, <1>4, <1>5, <1>6 DEF Rewound

LEMMA WriteRewinds ==
  ASSUME FlowInv, ~prog.must, RewindWrite
  PROVE  Rewinding /\ Rewound
  <1> DEFINE h == Head(rewind)
  <1>1. Rewinding /\ Join(h.src, {h.dst}) /\ rewind' = Tail(rewind)
    BY DEF RewindWrite
  <1>2. h.src \in Pairs(prog) /\ {h.dst} \in SUBSET Pairs(prog)
    BY <1>1, StackType DEF FlowInv
  <1>3. prog.insensitive =>
          /\ h.src[2] = SINGLE /\ \A e \in {h.dst} : e[2] = SINGLE
          /\ \A e \in worklist : e[2] = SINGLE
          /\ \A e \in known : <<e[1], SINGLE>> \in known
          /\ \A i \in DOMAIN rewind' : rewind'[i].src[2] = SINGLE /\ rewind'[i].dst[2] = SINGLE
    BY <1>1, StackSingle
  <1> HIDE DEF h
  <1>4. QED
    BY <1>1, <1>2, <1>3, JoinRewinds

LEMMA VisitedRewinds ==
  ASSUME FlowInv, ~prog.must, RewindVisited
  PROVE  Rewinding /\ Rewound
  <1>1. Rewinding /\ rewind' = Tail(rewind) /\ UNCHANGED <<state, known, worklist, visited>>
    BY DEF RewindVisited
  <1>2. QED
    BY <1>1, StackSingle DEF Rewound, FlowInv, KnownInv, TypeInv, TypeOK

LEMMA InterleaveSingle ==
  ASSUME prog \in Programs, NEW S \in SUBSET Pairs(prog), NEW s \in Orders(S), NEW src,
         src[2] = SINGLE, \A e \in S : e[2] = SINGLE
  PROVE  \A i \in DOMAIN Interleave(src, s) :
           Interleave(src, s)[i].src[2] = SINGLE /\ Interleave(src, s)[i].dst[2] = SINGLE
  <1>1. IsFiniteSet(S)
    BY PairsFinite, FS_Subset
  <1>2. Cardinality(S) \in Nat /\ s \in [1..Cardinality(S) -> S]
    BY <1>1, FS_CardinalityType DEF Orders
  <1>3. Len(s) = Cardinality(S)
    BY <1>2
  <1> SUFFICES ASSUME NEW i \in 1..(2 * Len(s))
               PROVE  Interleave(src, s)[i].src[2] = SINGLE /\ Interleave(src, s)[i].dst[2] = SINGLE
    BY DEF Interleave
  <1> DEFINE e == s[(i + 1) \div 2]
  <1>4. (i + 1) \div 2 \in 1..Len(s)
    BY <1>2, <1>3
  <1>5. e[2] = SINGLE
    BY <1>2, <1>3, <1>4
  <1> HIDE DEF e
  <1>6. Interleave(src, s)[i] = IF i % 2 = 1 THEN Task(src, e, "write") ELSE Task(e, e, "visit")
    BY DEF Interleave, e
  <1>7. QED
    BY <1>5, <1>6 DEF Task

LEMMA StorageRewinds ==
  ASSUME FlowInv, ~prog.must, RewindStorage
  PROVE  Rewinding /\ Rewound
  <1> DEFINE h == Head(rewind)
             x == h.dst[2]
             a == Strip(h.dst[1])
             this == IF a \in DOMAIN prog.this THEN prog.this[a] ELSE {}
             dsts == {<<a, x>>} \cup (UNION {{A} \X ContextsOf(prog.fun[A]) : A \in this})
  <1>1. /\ Rewinding /\ Join(h.src, dsts) /\ TypeInv
        /\ \E s \in Orders(Passed(a, x)) : rewind' = Interleave(h.src, s) \o Tail(rewind)
    BY DEF RewindStorage, FlowInv
  <1>2. /\ h.src \in Pairs(prog) /\ x \in Contexts(prog) /\ Tail(rewind) \in Seq(TaskSet)
        /\ h.dst[1] \in Values(prog)
    BY <1>1, StackType
  <1>3. a \in Values(prog)
    BY <1>1, <1>2, StripType DEF TypeInv
  <1>4. this \subseteq Values(prog)
    <2>1. \A v \in DOMAIN prog.this : prog.this[v] \subseteq DOMAIN prog.fun
      BY <1>1, ProgramsAssumption DEF TypeInv, WellFormed, StorageWellFormed
    <2>2. QED
      BY <1>1, <2>1, ProgramShape DEF TypeInv
  <1>5. prog.insensitive =>
          /\ h.src[2] = SINGLE /\ x = SINGLE
          /\ \A i \in DOMAIN Tail(rewind) : Tail(rewind)[i].src[2] = SINGLE /\ Tail(rewind)[i].dst[2] = SINGLE
          /\ \A e \in worklist : e[2] = SINGLE
          /\ \A e \in known : <<e[1], SINGLE>> \in known
    BY <1>1, StackSingle
  <1> HIDE DEF h, x, a, this
  <1>6. dsts \in SUBSET Pairs(prog)
    <2>1. \A A \in this : {A} \X ContextsOf(prog.fun[A]) \subseteq Pairs(prog)
      BY <1>4, ContextsOfType DEF Pairs
    <2>2. QED
      BY <1>2, <1>3, <2>1 DEF Pairs
  <1>7. prog.insensitive => \A e \in dsts : e[2] = SINGLE
    <2>1. prog.insensitive => \A A : \A e \in {A} \X ContextsOf(prog.fun[A]) : e[2] = SINGLE
      BY SingleContexts
    <2>2. QED
      BY <1>5, <2>1
  <1>8. PICK s \in Orders(Passed(a, x)) : rewind' = Interleave(h.src, s) \o Tail(rewind)
    BY <1>1
  <1>9. ASSUME prog.insensitive
        PROVE  \A i \in DOMAIN rewind' : rewind'[i].src[2] = SINGLE /\ rewind'[i].dst[2] = SINGLE
    <2>1. Passed(a, x) \subseteq Pairs(prog)
      BY <1>1, PassedType DEF TypeInv
    <2>2. \A e \in Passed(a, x) : e[2] = SINGLE
      <3>1. \A d, A : \A e \in PassedBy(d, A) : e[2] = SINGLE
        BY <1>9, SingleContexts DEF PassedBy
      <3> SUFFICES ASSUME NEW e \in Passed(a, x) PROVE e[2] = SINGLE
        OBVIOUS
      <3>2. PICK A \in Parameter(a) : e \in UNION {PassedBy(d, A) : d \in Callers(prog.fun[A], x)}
        BY Zenon DEF Passed
      <3>3. PICK d \in Callers(prog.fun[A], x) : e \in PassedBy(d, A)
        BY <3>2, Zenon
      <3>4. QED
        BY <3>1, <3>3
    <2> DEFINE new == Interleave(h.src, s)
               rest == Tail(rewind)
    <2>3. new \in Seq(TaskSet) /\ rest \in Seq(TaskSet)
      BY <1>1, <1>2, <2>1, InterleaveType DEF TypeInv
    <2>4. \A i \in DOMAIN new : new[i].src[2] = SINGLE /\ new[i].dst[2] = SINGLE
      BY <1>1, <1>5, <1>9, <2>1, <2>2, InterleaveSingle DEF TypeInv
    <2>5. \A i \in DOMAIN rest : rest[i].src[2] = SINGLE /\ rest[i].dst[2] = SINGLE
      BY <1>5, <1>9
    <2>6. rewind' = new \o rest
      BY <1>8
    <2> HIDE DEF new, rest
    <2>7. ASSUME NEW i \in DOMAIN rewind'
          PROVE  \/ i \in DOMAIN new /\ rewind'[i] = new[i]
                 \/ i - Len(new) \in DOMAIN rest /\ rewind'[i] = rest[i - Len(new)]
      BY <2>3, <2>6
    <2>8. QED
      BY <2>4, <2>5, <2>7
  <1> HIDE DEF dsts
  <1>10. QED
    BY <1>1, <1>2, <1>5, <1>6, <1>7, <1>9, JoinRewinds

LEMMA ValueRewinds ==
  ASSUME FlowInv, ~prog.must, RewindValue
  PROVE  Rewinding /\ Rewound
  <1> DEFINE h == Head(rewind)
             x == h.dst[2]
             a == Strip(h.dst[1])
             behind == [i \in DOMAIN Back(a) |-> Task(h.src, <<Back(a)[i], x>>, "visit")]
             own == <<Task(h.src, <<a, x>>, "write")>>
             rest == Tail(rewind)
  <1>1. /\ Rewinding /\ TypeInv /\ rewind' = behind \o own \o rest
        /\ state' = state /\ known' = known /\ worklist' = worklist
    BY DEF RewindValue, FlowInv
  <1>2. /\ h.dst[1] \in Values(prog) /\ rest \in Seq(TaskSet)
    BY <1>1, StackType
  <1>3. prog.insensitive =>
          /\ h.src[2] = SINGLE /\ x = SINGLE
          /\ \A i \in DOMAIN rest : rest[i].src[2] = SINGLE /\ rest[i].dst[2] = SINGLE
          /\ \A e \in worklist : e[2] = SINGLE
          /\ \A e \in known : <<e[1], SINGLE>> \in known
    BY <1>1, StackSingle
  <1>4. Back(a) \in Seq(Values(prog))
    BY <1>1, <1>2, StripType, BackType DEF TypeInv
  <1> HIDE DEF h, x, a, rest
  <1>5. DOMAIN behind = 1..Len(Back(a)) /\ Len(Back(a)) \in Nat
    BY <1>4
  <1>6. \A i \in DOMAIN behind : behind[i].src = h.src /\ behind[i].dst[2] = x
    BY DEF Task
  <1>7. own[1].src = h.src /\ own[1].dst[2] = x /\ Len(own) = 1 /\ DOMAIN own = {1}
    BY DEF Task
  <1>8. \E T : behind \in Seq(T) /\ own \in Seq(T) /\ rest \in Seq(T)
    <2> DEFINE T == TaskSet \cup {behind[i] : i \in DOMAIN behind} \cup {own[1]}
    <2>1. rest \in Seq(T)
      <3>1. TaskSet \subseteq T
        OBVIOUS
      <3> HIDE DEF T
      <3>2. QED
        BY <1>2, <3>1
    <2>2. own \in Seq(T)
      <3>1. own[1] \in T
        OBVIOUS
      <3> HIDE DEF T
      <3>2. QED
        BY <3>1
    <2>3. behind \in Seq(T)
      <3>1. behind \in [1..Len(Back(a)) -> T]
        BY <1>5
      <3> HIDE DEF T, behind
      <3>2. \A n \in Nat : \A q \in [1..n -> T] : q \in Seq(T)
        OBVIOUS
      <3>3. QED
        BY <1>5, <3>1, <3>2
    <2>4. QED
      BY <2>1, <2>2, <2>3
  <1> HIDE DEF behind, own
  <1>9. PICK T : behind \in Seq(T) /\ own \in Seq(T) /\ rest \in Seq(T)
    BY <1>8
  <1> DEFINE mine == behind \o own
  <1>10. mine \in Seq(T)
    BY <1>9
  <1>11. \A i \in DOMAIN mine : mine[i].src = h.src /\ mine[i].dst[2] = x
    <2> SUFFICES ASSUME NEW i \in DOMAIN mine PROVE mine[i].src = h.src /\ mine[i].dst[2] = x
      OBVIOUS
    <2>1. \/ i \in DOMAIN behind /\ mine[i] = behind[i]
          \/ i - Len(behind) \in DOMAIN own /\ mine[i] = own[i - Len(behind)]
      BY <1>9
    <2>2. QED
      BY <1>6, <1>7, <2>1
  <1>12. rewind' = mine \o rest
    BY <1>1
  <1> HIDE DEF mine
  <1>13. ASSUME NEW i \in DOMAIN rewind', prog.insensitive
         PROVE  rewind'[i].src[2] = SINGLE /\ rewind'[i].dst[2] = SINGLE
    <2>1. \/ i \in DOMAIN mine /\ rewind'[i] = mine[i]
          \/ i - Len(mine) \in DOMAIN rest /\ rewind'[i] = rest[i - Len(mine)]
      BY <1>9, <1>10, <1>12
    <2>2. QED
      BY <1>3, <1>11, <1>13, <2>1
  <1>14. QED
    BY <1>1, <1>3, <1>13 DEF Rewound, FlowInv, KnownInv, TypeInv, TypeOK
-----------------------------------------------------------------------------
(* The beginning, and the merging of contexts.                             *)

LEMMA FlowInit == Init => FlowInv
  <1> SUFFICES ASSUME Init PROVE FlowInv
    OBVIOUS
  <1>1. TypeInv
    BY InitType
  <1>2. /\ phase = "merge" /\ Idle /\ jobs = {} /\ rewind = << >>
        /\ callees = prog.graph /\ known = DOMAIN prog.seed
        /\ \A e \in Pairs(prog) \ known : state[e] = {}
        /\ todo = IF prog.insensitive THEN {e[2] : e \in known} ELSE {}
        /\ worklist = IF prog.insensitive THEN {} ELSE known \ prog.silent
    BY DEF Init, Idle
  <1>3. KnownInv /\ JobInv
    BY <1>2 DEF KnownInv, JobInv
  <1>4. MergeInv
    BY <1>2 DEF MergeInv
  <1>5. SingleInv
    BY <1>2 DEF SingleInv
  <1>6. FlowComplete
    BY <1>2 DEF FlowComplete, Done
  <1>7. QED
    BY <1>1, <1>2, <1>3, <1>4, <1>5, <1>6 DEF FlowInv

LEMMA MergeContextStep ==
  ASSUME FlowInv, MergeContext, ~prog.must
  PROVE  KnownInv' /\ JobInv' /\ MergeInv' /\ SingleInv' /\ FlowComplete' /\ phase' = "merge"
  <1>1. TypeInv /\ KnownInv /\ JobInv /\ MergeInv /\ SingleInv
    BY DEF FlowInv
  <1> DEFINE vs(x) == {v \in Values(prog) : <<v, x>> \in known}
  <1>2. PICK x \in todo :
          /\ todo' = todo \ {x}
          /\ state' = [e \in Pairs(prog) |->
                         IF e[2] = SINGLE /\ e[1] \in vs(x) THEN state[<<e[1], x>>] ELSE state[e]]
          /\ known' = known \cup (vs(x) \X {SINGLE})
          /\ worklist' = worklist \cup (vs(x) \X {SINGLE})
    BY DEF MergeContext
  <1>3. /\ UNCHANGED <<prog, callees, cur, uses, jobs, rewind>> /\ phase = "merge" /\ phase' = "merge"
    BY DEF MergeContext, graphVars
  <1>4. prog.insensitive /\ Idle /\ Idle'
    BY <1>1, <1>2, <1>3 DEF MergeInv, Idle
  <1>5. \A e \in known : e = <<e[1], e[2]>> /\ e[1] \in Values(prog)
    BY <1>1 DEF TypeInv, TypeOK, Pairs
  <1>6. \A e \in known : e[2] = x => e[1] \in vs(x)
    BY <1>5
  <1> HIDE DEF vs
  <1>7. KnownInv'
    <2>1. ASSUME NEW e \in Pairs(prog), e \notin known' PROVE state'[e] = {}
      <3>1. e = <<e[1], e[2]>> /\ state[e] = {}
        BY <1>1, <1>2, <2>1 DEF KnownInv, Pairs
      <3>2. ~(e[2] = SINGLE /\ e[1] \in vs(x))
        BY <1>2, <2>1, <3>1
      <3>3. QED
        BY <1>2, <2>1, <3>1, <3>2
    <2>2. QED
      BY <1>1, <1>3, <2>1 DEF KnownInv
  <1>8. MergeInv'
    <2>1. ASSUME NEW e \in known' PROVE e[2] \in todo' \/ <<e[1], SINGLE>> \in worklist'
      <3>1. CASE e \in known /\ e[2] = x
        BY <1>2, <1>6, <3>1
      <3>2. CASE e \in known /\ e[2] # x
        <4>1. e[2] \in todo \/ <<e[1], SINGLE>> \in worklist
          BY <1>1, <1>3, <1>4, <3>2 DEF MergeInv
        <4>2. QED
          BY <1>2, <3>2, <4>1
      <3>3. CASE e \in vs(x) \X {SINGLE}
        BY <1>2, <3>3
      <3>4. QED
        BY <1>2, <2>1, <3>1, <3>2, <3>3
    <2>2. QED
      BY <1>3, <1>4, <2>1 DEF MergeInv
  <1>9. SingleInv'
    <2>1. \A e \in worklist' : e[2] = SINGLE
      BY <1>1, <1>2, <1>3, <1>4 DEF SingleInv
    <2>2. jobs' = {} /\ rewind' = << >>
      BY <1>4 DEF Idle
    <2>3. QED
      BY <1>3, <1>4, <2>1, <2>2 DEF SingleInv
  <1>10. JobInv' /\ FlowComplete'
    BY <1>1, <1>3 DEF JobInv, FlowComplete, Done
  <1>11. QED
    BY <1>3, <1>7, <1>8, <1>9, <1>10

LEMMA MergedStep ==
  ASSUME FlowInv, Merged, ~prog.must
  PROVE  KnownInv' /\ JobInv' /\ MergeInv' /\ SingleInv' /\ FlowComplete' /\ Carried'
  <1>1. TypeInv /\ KnownInv /\ JobInv /\ MergeInv /\ SingleInv
    BY DEF FlowInv
  <1>2. /\ UNCHANGED <<prog, callees, members, state, known, worklist, cur, uses, jobs, rewind>>
        /\ phase = "merge" /\ phase' = "flow" /\ todo = {}
    BY DEF Merged, graphVars
  <1>3. Idle /\ Idle'
    BY <1>1, <1>2 DEF MergeInv, Idle
  <1>4. ASSUME NEW e \in known, Flowing(e) PROVE e \in worklist
    <2>1. e = <<e[1], e[2]>>
      BY <1>1 DEF TypeInv, TypeOK, Pairs
    <2>2. CASE prog.insensitive
      BY <1>1, <1>2, <1>4, <2>1, <2>2 DEF MergeInv, Flowing
    <2>3. CASE ~prog.insensitive
      BY <1>1, <1>2, <1>4, <2>3 DEF MergeInv, Flowing
    <2>4. QED
      BY <2>2, <2>3
  <1>5. Carried'
    <2> SUFFICES ASSUME NEW e \in Pairs(prog), Flowing(e), NEW t \in Flows(e)
                 PROVE  state[e] \cap Fitting(t[1]) \subseteq state[t] \/ e \in worklist
      BY <1>2, FlowsSame DEF Carried
    <2>1. QED
      BY <1>1, <1>4 DEF KnownInv
  <1>6. SingleInv'
    <2>1. ASSUME prog.insensitive, NEW e \in known PROVE <<e[1], SINGLE>> \in known
      BY <1>1, <1>2, <2>1 DEF MergeInv, TypeInv, TypeOK
    <2>2. QED
      BY <1>1, <1>2, <1>3, <2>1 DEF SingleInv
  <1>7. KnownInv' /\ JobInv' /\ MergeInv' /\ FlowComplete'
    BY <1>1, <1>2 DEF KnownInv, JobInv, MergeInv, FlowComplete, Done
  <1>8. QED
    BY <1>5, <1>6, <1>7
-----------------------------------------------------------------------------
(* The next pair: its flows are those at its users.                        *)

LEMMA DequeueStep ==
  ASSUME FlowInv, Dequeue, ~prog.must
  PROVE  /\ KnownInv' /\ JobInv' /\ MergeInv' /\ SingleInv' /\ FlowComplete'
         /\ (Followed /\ phase = "flow" => Carried)'
  <1>1. TypeInv /\ KnownInv /\ JobInv /\ SingleInv
    BY DEF FlowInv
  <1>2. PICK d \in worklist : cur' = d /\ worklist' = worklist \ {d} /\ uses' = Users(prog, d[1])
    BY DEF Dequeue
  <1>3. /\ UNCHANGED <<prog, phase, callees, members, state, known, jobs, rewind>>
        /\ phase = "flow" /\ uses = {} /\ jobs = {} /\ rewind = << >>
    BY DEF Dequeue, graphVars, Idle
  <1>4. KnownInv' /\ JobInv' /\ MergeInv' /\ FlowComplete'
    BY <1>1, <1>3 DEF KnownInv, JobInv, MergeInv, FlowComplete, Done
  <1>5. SingleInv'
    BY <1>1, <1>2, <1>3 DEF SingleInv
  <1>6. ASSUME Followed' PROVE Carried'
    <2>1. Carried
      BY <1>3, <1>6, FlowsSame DEF FlowInv
    <2> SUFFICES ASSUME NEW e \in Pairs(prog), Flowing(e), NEW t \in Flows(e), e \notin worklist'
                 PROVE  state[e] \cap Fitting(t[1]) \subseteq state[t] \/ (e = cur' /\ Waits(t)')
      BY <1>3, FlowsSame DEF Carried
    <2>2. CASE e = d
      <3>1. PICK u \in Users(prog, d[1]) : t \in FlowsAt(u, d[1], d[2])
        BY <2>2 DEF Flows
      <3>2. u \in uses' /\ FlowsAt(u, d[1], d[2])' = FlowsAt(u, d[1], d[2])
        BY <1>2, <1>3, <3>1, FlowsSame
      <3>3. t \in FlowsAt(u, cur[1], cur[2])'
        BY <1>2, <3>1, <3>2
      <3>4. QED
        BY <1>2, <2>2, <3>2, <3>3 DEF Waits
    <2>3. CASE e # d
      <3>1. ~Waits(t) /\ e \notin worklist
        BY <1>2, <1>3, <2>3 DEF Waits
      <3>2. QED
        BY <2>1, <3>1 DEF Carried
    <2>4. QED
      BY <2>2, <2>3
  <1>7. QED
    BY <1>4, <1>5, <1>6

-----------------------------------------------------------------------------
(* The end.  Where contexts are ignored, what flows in one flows in the    *)
(* single one.                                                             *)

LEMMA SingleFlowsAt ==
  ASSUME TypeInv, prog.insensitive, NEW u \in DOMAIN prog.ops, NEW v, prog.kind[u] # "constant",
         NEW t \in FlowsAt(u, v, SINGLE)
  PROVE  t = <<t[1], SINGLE>>
  <1>1. ValuesWellFormed(prog) /\ CallsWellFormed(prog)
    BY ProgramsAssumption DEF TypeInv, WellFormed
  <1>2. prog.extern \subseteq Calls(prog) /\ (prog.kind[u] = "call" <=> u \in Calls(prog))
    BY <1>1 DEF CallsWellFormed
  <1>3. IsInContext(u, SINGLE) /\ SINGLE # NONE
    BY SingleContexts DEF IsInContext, SINGLE, NONE
  <1>4. /\ prog.kind[u] = "store" => FlowsAt(u, v, SINGLE) = {<<prog.ops[u][2], SINGLE>>}
        /\ u \in prog.extern => FlowsAt(u, v, SINGLE) = ExternResult(u, v) \X {SINGLE}
        /\ u \in Calls(prog) \ prog.extern => FlowsAt(u, v, SINGLE) = IntoParameters(u, SINGLE, v)
        /\ prog.kind[u] = "ret" => FlowsAt(u, v, SINGLE) = BackToCallers(prog.fun[u], SINGLE)
        /\ prog.kind[u] \in {"phi", "select", "annot", "gep", "load", "other"} =>
              FlowsAt(u, v, SINGLE) = {<<u, SINGLE>>}
        /\ prog.kind[u] \in {"binop", "intrinsic"} => FlowsAt(u, v, SINGLE) = {}
    BY <1>2, <1>3, FlowsThrough
  <1>5. ASSUME t \in IntoParameters(u, SINGLE, v) PROVE t = <<t[1], SINGLE>>
    <2>1. PICK f \in callees[<<u, SINGLE>>] \cap Defined(prog) : \E i \in Positions(u, v) :
            \E a \in Formal(f, i) : t = <<a, CalleeContext(SINGLE, f)>>
      BY <1>5, IntoParametersIn
    <2>2. QED
      BY <2>1, SingleContexts
  <1>6. ASSUME t \in BackToCallers(prog.fun[u], SINGLE) PROVE t = <<t[1], SINGLE>>
    BY <1>6 DEF BackToCallers
  <1>7. CASE u \in Calls(prog)
    BY <1>4, <1>5, <1>7
  <1>8. CASE prog.kind[u] \in {"store", "ret", "phi", "select", "annot", "gep", "load", "other"}
    BY <1>4, <1>6, <1>8
  <1>9. CASE /\ u \notin Calls(prog)
             /\ prog.kind[u] \notin {"store", "ret", "phi", "select", "annot", "gep", "load", "other"}
    <2>1. u \notin prog.extern /\ u \notin Calls(prog) \ prog.extern
      BY <1>2, <1>9
    <2>2. /\ prog.kind[u] # "store" /\ prog.kind[u] # "ret"
          /\ prog.kind[u] \notin {"phi", "select", "annot", "gep", "load", "other"}
      BY <1>9
    <2>3. FlowsAt(u, v, SINGLE) = {}
      BY <1>3, <2>1, <2>2, Zenon DEF FlowsAt
    <2>4. QED
      BY <2>3
  <1>10. QED
    BY <1>7, <1>8, <1>9

LEMMA SingleFlows ==
  ASSUME TypeInv, prog.insensitive, NEW e \in Pairs(prog), NEW t \in Flows(e)
  PROVE  t[1] = e[1] \/ <<t[1], SINGLE>> \in Flows(<<e[1], SINGLE>>)
  <1>1. PICK u \in Users(prog, e[1]) : t \in FlowsAt(u, e[1], e[2])
    BY DEF Flows
  <1>2. u \in DOMAIN prog.ops
    BY DEF Users
  <1>3. FlowsAt(u, e[1], SINGLE) \subseteq Flows(<<e[1], SINGLE>>)
    BY DEF Flows
  <1>4. CASE prog.kind[u] = "constant"
    <2>1. FlowsAt(u, e[1], e[2]) = {<<u, e[2]>>} /\ FlowsAt(u, e[1], SINGLE) = {<<u, SINGLE>>}
      BY <1>4, FlowsToConstant
    <2>2. QED
      BY <1>1, <1>3, <2>1
  <1>5. CASE prog.kind[u] # "constant" /\ e[2] = NONE
    <2>1. FlowsAt(u, e[1], e[2]) = {e[1]} \X ContextsOf(prog.fun[u])
      BY <1>5, FlowsFromNone
    <2>2. QED
      BY <1>1, <2>1
  <1>6. CASE prog.kind[u] # "constant" /\ e[2] # NONE /\ e[2] # SINGLE
    <2>1. ~IsInContext(u, e[2])
      BY <1>6, SingleContexts DEF IsInContext
    <2>2. FlowsAt(u, e[1], e[2]) = {}
      BY <1>6, <2>1, FlowsNowhere
    <2>3. QED
      BY <1>1, <2>2
  <1>7. CASE prog.kind[u] # "constant" /\ e[2] = SINGLE
    <2>1. t = <<t[1], SINGLE>>
      BY <1>1, <1>2, <1>7, SingleFlowsAt
    <2>2. QED
      BY <1>1, <1>3, <1>7, <2>1
  <1>8. QED
    BY <1>4, <1>5, <1>6, <1>7

LEMMA FinishStep ==
  ASSUME FlowInv, Finish, ~prog.must
  PROVE  KnownInv' /\ JobInv' /\ MergeInv' /\ SingleInv' /\ FlowComplete' /\ phase' = "done"
  <1>1. TypeInv /\ KnownInv /\ JobInv /\ SingleInv
    BY DEF FlowInv
  <1> DEFINE copied == {e \in Values(prog) \X AllContexts(prog) :
                          prog.insensitive /\ <<e[1], SINGLE>> \in known}
  <1>2. /\ state' = [e \in Pairs(prog) |->
                       IF e \in copied THEN state[<<e[1], SINGLE>>] ELSE state[e]]
        /\ known' = known \cup copied
    BY DEF Finish
  <1>3. /\ UNCHANGED <<prog, callees, members, cur, jobs>>
        /\ phase = "flow" /\ phase' = "done"
        /\ uses = {} /\ jobs = {} /\ rewind = << >> /\ worklist = {}
    BY DEF Finish, graphVars, Idle
  <1>4. state \in [Pairs(prog) -> SUBSET Facts] /\ known \subseteq Pairs(prog)
    BY <1>1 DEF TypeInv, TypeOK
  <1>5. \A e \in Pairs(prog) : e = <<e[1], e[2]>> /\ <<e[1], SINGLE>> \in Pairs(prog)
    BY DEF Pairs, Contexts
  <1>6. ~prog.insensitive => state' = state /\ known' = known
    BY <1>2, <1>4
  <1>7. ASSUME prog.insensitive, NEW e \in Pairs(prog)
        PROVE  state'[e] = state[<<e[1], SINGLE>>]
    <2>1. CASE e \in copied
      BY <1>2, <2>1
    <2>2. CASE e \notin copied /\ e[2] = SINGLE
      BY <1>2, <1>5, <2>2
    <2>3. CASE e \notin copied /\ e[2] # SINGLE
      <3>1. e[2] \in AllContexts(prog) /\ e[1] \in Values(prog)
        BY <2>3 DEF Pairs, Contexts
      <3>2. <<e[1], SINGLE>> \notin known
        BY <1>5, <1>7, <2>3, <3>1
      <3>3. e \notin known
        BY <1>1, <1>3, <1>7, <3>2 DEF SingleInv
      <3>4. state[e] = {} /\ state[<<e[1], SINGLE>>] = {}
        BY <1>1, <1>5, <3>2, <3>3 DEF KnownInv
      <3>5. QED
        BY <1>2, <2>3, <3>4
    <2>4. QED
      BY <2>1, <2>2, <2>3
  <1>8. KnownInv'
    <2>1. ASSUME NEW e \in Pairs(prog), e \notin known' PROVE state'[e] = {}
      BY <1>1, <1>2, <2>1 DEF KnownInv
    <2>2. QED
      BY <1>1, <1>3, <2>1 DEF KnownInv
  <1> HIDE DEF copied
  <1>9. known' \subseteq Pairs(prog)
    BY <1>1, FinishType, <1>3 DEF TypeInv, TypeOK, Pairs, Values, Contexts, AllContexts, Domains, Boxes
  <1>10. ASSUME callees = prog.graph, NoRepeatedArguments,
                NEW e \in known' \ prog.silent, NEW t \in Flows(e)
         PROVE  state'[e] \cap Fitting(t[1]) \subseteq state'[t]
    <2>1. e \in Pairs(prog) /\ t \in Pairs(prog)
      BY <1>1, <1>9, FlowsType
    <2>2. ASSUME NEW d \in Pairs(prog), Flowing(d), NEW s \in Flows(d)
          PROVE  state[d] \cap Fitting(s[1]) \subseteq state[s]
      <3>1. Carried /\ ~Waits(s)
        BY <1>3, <1>10 DEF FlowInv, Followed, Waits
      <3>2. QED
        BY <1>3, <2>2, <3>1 DEF Carried
    <2>3. CASE ~prog.insensitive
      BY <1>6, <2>1, <2>2, <2>3 DEF Flowing
    <2>4. CASE prog.insensitive
      <3>1. /\ state'[e] = state[<<e[1], SINGLE>>] /\ state'[t] = state[<<t[1], SINGLE>>]
            /\ <<e[1], SINGLE>> \in Pairs(prog) /\ Flowing(<<e[1], SINGLE>>)
        BY <1>5, <1>7, <2>1, <2>4 DEF Flowing
      <3>2. CASE t[1] = e[1]
        BY <3>1, <3>2
      <3>3. CASE <<t[1], SINGLE>> \in Flows(<<e[1], SINGLE>>)
        BY <2>2, <3>1, <3>3
      <3>4. QED
        BY <1>1, <2>1, <2>4, <3>2, <3>3, SingleFlows
    <2>5. QED
      BY <2>3, <2>4
  <1>11. FlowComplete'
    <2> SUFFICES ASSUME (callees = prog.graph /\ NoRepeatedArguments)', NEW e \in (known \ prog.silent)',
                        NEW t \in Flows(e)'
                 PROVE  (state[e] \cap Fitting(t[1]) \subseteq state[t])'
      BY DEF FlowComplete
    <2>1. callees = prog.graph /\ NoRepeatedArguments
      BY <1>3 DEF NoRepeatedArguments, Operands, Calls
    <2>2. t \in Flows(e) /\ e \in known' \ prog.silent /\ Fitting(t[1])' = Fitting(t[1])
      BY <1>3, FlowsSame
    <2>3. QED
      BY <1>10, <2>1, <2>2
  <1>12. JobInv' /\ MergeInv' /\ SingleInv'
    BY <1>3 DEF JobInv, MergeInv, SingleInv
  <1>13. QED
    BY <1>3, <1>8, <1>11, <1>12

-----------------------------------------------------------------------------
LEMMA FlowStep == FlowInv /\ [Next]_vars => FlowInv'
  <1> SUFFICES ASSUME FlowInv, [Next]_vars PROVE FlowInv'
    OBVIOUS
  <1>1. TypeInv /\ TypeInv'
    BY TypeStep DEF FlowInv
  <1>2. prog' = prog
    BY DEF Next, MergeContext, Merged, Dequeue, Use, UseConstant, UseFindsContexts, UseIgnored,
           UseStore, UseExtern, UseBinaryOp, UseMerge, UseOther, UseArgument, UsePointer, UseReturn,
           Propagate, Rewind, RewindWrite, RewindVisited, RewindStorage, RewindValue, Rewinding,
           Finish, vars
  <1> SUFFICES ASSUME ~prog.must
               PROVE  /\ KnownInv' /\ JobInv' /\ MergeInv' /\ SingleInv' /\ FlowComplete'
                      /\ (Followed /\ phase = "flow" => Carried)'
    BY <1>1, <1>2 DEF FlowInv
  <1>3. CASE MergeContext
    BY <1>3, MergeContextStep
  <1>4. CASE Merged
    BY <1>4, MergedStep
  <1>5. CASE Dequeue
    BY <1>5, DequeueStep
  <1>6. CASE Use
    BY <1>6, UseStep, UseKnown
  <1>7. CASE Propagate
    BY <1>7, PropagateStep, PropagateKnown
  <1>8. CASE Rewind
    <2>1. Rewinding /\ Rewound
      BY <1>8, WriteRewinds, VisitedRewinds, StorageRewinds, ValueRewinds DEF Rewind
    <2>2. QED
      BY <2>1, RewoundStep, RewindKnown
  <1>9. CASE Finish
    BY <1>9, FinishStep
  <1>10. CASE UNCHANGED vars
    <2>1. UNCHANGED <<prog, callees, members, phase, todo, state, known, worklist, cur, uses, jobs, rewind>>
      BY <1>10 DEF vars, graphVars
    <2>2. \A t : Waits(t)' = Waits(t)
      BY <2>1, FlowsSame DEF Waits
    <2>3. Carried' = Carried
      BY <2>1, <2>2, FlowsSame DEF Carried
    <2>4. KnownInv' /\ JobInv' /\ MergeInv' /\ SingleInv'
      BY <2>1 DEF FlowInv, KnownInv, JobInv, MergeInv, SingleInv, Idle
    <2>5. FlowComplete'
      <3>1. NoRepeatedArguments' = NoRepeatedArguments
        BY <2>1 DEF NoRepeatedArguments, Operands, Calls
      <3>2. /\ \A e : Flows(e)' = Flows(e)
            /\ \A v : Fitting(v)' = Fitting(v)
        BY <2>1, FlowsSame
      <3>3. FlowComplete
        BY DEF FlowInv
      <3> SUFFICES ASSUME (Done /\ ~prog.must /\ callees = prog.graph /\ NoRepeatedArguments)',
                          NEW e \in (known \ prog.silent)', NEW t \in Flows(e)'
                   PROVE  (state[e] \cap Fitting(t[1]) \subseteq state[t])'
        BY DEF FlowComplete
      <3>4. e \in known \ prog.silent /\ t \in Flows(e)
        BY <2>1, <3>2
      <3>5. state[e] \cap Fitting(t[1]) \subseteq state[t]
        BY <2>1, <3>1, <3>3, <3>4 DEF FlowComplete, Done
      <3>6. QED
        BY <2>1, <3>2, <3>5
    <2>6. QED
      BY <2>1, <2>3, <2>4, <2>5, FlowsSame DEF FlowInv
  <1>11. QED
    BY <1>3, <1>4, <1>5, <1>6, <1>7, <1>8, <1>9, <1>10 DEF Next

(* When a may analysis is done, the facts of every value are known         *)
(* wherever the value flows: no fact is lost on the way, in whatever order *)
(* the worklist is emptied, whether contexts are told apart or merged,     *)
(* though every user drops the pair it has looked at, propagateToValue()   *)
(* enqueues only what changes and rewinding interrupts it; as long as      *)
(* callees stay as they were and no call passes a value twice.             *)
THEOREM NoFlowMissed == Spec => []FlowComplete
  <1>1. FlowInv => FlowComplete
    BY DEF FlowInv, FlowComplete
  <1>2. QED
    BY <1>1, FlowInit, FlowStep, PTL DEF Spec

-----------------------------------------------------------------------------
(* The recursion of Closure computes the least closed set.                 *)

ClosedIn(C, succ) == \A d \in C : succ[d] \subseteq C
Least(start, succ) ==
  {e \in DOMAIN succ : \A C \in SUBSET DOMAIN succ : start \subseteq C /\ ClosedIn(C, succ) => e \in C}
Grown(S, succ) == S \cup UNION {succ[e] : e \in S}

LEMMA LeastGrown ==
  ASSUME NEW P, NEW succ \in [P -> SUBSET P], NEW S \in SUBSET P
  PROVE  /\ Grown(S, succ) \in SUBSET P /\ S \subseteq Grown(S, succ)
         /\ Grown(S, succ) = S <=> ClosedIn(S, succ)
         /\ Least(Grown(S, succ), succ) = Least(S, succ)
         /\ ClosedIn(S, succ) => Least(S, succ) = S
  <1>1. \A e \in S : succ[e] \in SUBSET P
    OBVIOUS
  <1>2. Grown(S, succ) \in SUBSET P /\ S \subseteq Grown(S, succ)
    BY <1>1 DEF Grown
  <1>3. Grown(S, succ) = S <=> ClosedIn(S, succ)
    BY DEF Grown, ClosedIn
  <1>4. \A C \in SUBSET P : ClosedIn(C, succ) => (S \subseteq C <=> Grown(S, succ) \subseteq C)
    BY DEF ClosedIn, Grown
  <1>5. Least(Grown(S, succ), succ) = Least(S, succ)
    BY <1>4 DEF Least
  <1>6. ClosedIn(S, succ) => Least(S, succ) = S
    BY DEF Least
  <1>7. QED
    BY <1>2, <1>3, <1>5, <1>6

(* Closure computes the least closed set: there is nothing that grows for ever. *)
LEMMA ClosureIsLeast ==
  ASSUME NEW P, IsFiniteSet(P), NEW succ \in [P -> SUBSET P], NEW start \in SUBSET P
  PROVE  Closure(start, succ) = Least(start, succ)
  <1> DEFINE Solves(R) == R = [S \in SUBSET DOMAIN succ |->
               LET T == S \cup UNION {succ[e] : e \in S} IN IF T = S THEN S ELSE R[T]]
  <1>1. Solves([S \in SUBSET P |-> Least(S, succ)])
    <2> DEFINE L == [S \in SUBSET P |-> Least(S, succ)]
    <2>1. ASSUME NEW S \in SUBSET P
          PROVE  L[S] = IF Grown(S, succ) = S THEN S ELSE L[Grown(S, succ)]
      BY LeastGrown
    <2>2. QED
      BY <2>1 DEF Grown
  <1>2. PICK R : Solves(R) /\ Closure(start, succ) = R[start]
    BY <1>1 DEF Closure
  <1>3. \A S \in SUBSET P : R[S] = IF Grown(S, succ) = S THEN S ELSE R[Grown(S, succ)]
    BY <1>2 DEF Grown
  <1> DEFINE Bad == {S \in SUBSET P : R[S] # Least(S, succ)}
             Rest == {P \ S : S \in Bad}
  <1>4. SUFFICES ASSUME Bad # {} PROVE FALSE
    BY <1>2
  <1>5. IsWellFoundedOn(StrictSubsetOrdering(P), SUBSET P)
    BY FS_StrictSubsetOrderingWellFounded, FS_FiniteSubsetsOfFinite
  <1>6. Rest \subseteq SUBSET P /\ Rest # {}
    BY <1>4
  <1>7. PICK r \in Rest : \A t \in Rest : <<t, r>> \notin StrictSubsetOrdering(P)
    BY <1>5, <1>6, WFMin
  <1>8. PICK S \in Bad : r = P \ S
    BY <1>7
  <1>9. Grown(S, succ) # S /\ R[S] = R[Grown(S, succ)]
    BY <1>3, <1>8, LeastGrown
  <1>10. Grown(S, succ) \in Bad
    BY <1>8, <1>9, LeastGrown
  <1>11. P \ Grown(S, succ) \in Rest /\ P \ Grown(S, succ) \subseteq r /\ P \ Grown(S, succ) # r
    BY <1>8, <1>9, <1>10, LeastGrown
  <1>12. <<P \ Grown(S, succ), r>> \in StrictSubsetOrdering(P)
    BY <1>7, <1>11, <1>6 DEF StrictSubsetOrdering
  <1>13. QED
    BY <1>7, <1>11, <1>12

(* The least closed set is closed, and lies in every closed set.           *)
LEMMA LeastFacts ==
  ASSUME NEW P, NEW succ \in [P -> SUBSET P], NEW start \in SUBSET P
  PROVE  /\ start \subseteq Least(start, succ) /\ Least(start, succ) \in SUBSET P
         /\ ClosedIn(Least(start, succ), succ)
         /\ \A C \in SUBSET P : start \subseteq C /\ ClosedIn(C, succ) => Least(start, succ) \subseteq C
  <1>1. /\ start \subseteq Least(start, succ) /\ Least(start, succ) \in SUBSET P
        /\ \A C \in SUBSET P : start \subseteq C /\ ClosedIn(C, succ) => Least(start, succ) \subseteq C
    BY DEF Least
  <1>2. ASSUME NEW d \in Least(start, succ), NEW e \in succ[d] PROVE e \in Least(start, succ)
    <2>1. e \in P
      BY <1>1, <1>2
    <2>2. ASSUME NEW C \in SUBSET P, start \subseteq C, ClosedIn(C, succ) PROVE e \in C
      BY <1>1, <1>2, <2>2 DEF ClosedIn
    <2>3. QED
      BY <2>1, <2>2 DEF Least
  <1>3. QED
    BY <1>1, <1>2 DEF ClosedIn

(***************************************************************************)
(* What is behind a pointer.                                               *)
(***************************************************************************)
BehindSteps == [d \in Pairs(prog) |-> BehindStep(d)]

LEMMA BehindStepType ==
  ASSUME prog \in Programs, NEW e \in Pairs(prog)
  PROVE  BehindStep(e) \subseteq Pairs(prog)
  <1> DEFINE a == Strip(e[1])
             this == IF a \in DOMAIN prog.this THEN prog.this[a] ELSE {}
  <1>1. a \in Values(prog) /\ e[2] \in Contexts(prog)
    BY StripType DEF Pairs
  <1>2. this \subseteq Values(prog)
    <2>1. \A v \in DOMAIN prog.this : prog.this[v] \subseteq DOMAIN prog.fun
      BY ProgramsAssumption DEF WellFormed, StorageWellFormed
    <2>2. QED
      BY <2>1, ProgramShape
  <1>3. Passed(a, e[2]) \subseteq Pairs(prog)
    BY PassedType
  <1>4. \A i \in DOMAIN Back(a) : Back(a)[i] \in Values(prog)
    <2>1. Back(a) \in Seq(Values(prog))
      BY <1>1, BackType
    <2>2. QED
      BY <2>1
  <1> HIDE DEF a, this
  <1>5. UNION {{A} \X ContextsOf(prog.fun[A]) : A \in this} \subseteq Pairs(prog)
    <2>1. \A A \in this : {A} \X ContextsOf(prog.fun[A]) \subseteq Pairs(prog)
      BY <1>2, ContextsOfType DEF Pairs
    <2>2. QED
      BY <2>1
  <1>6. {Back(a)[i] : i \in DOMAIN Back(a)} \X {e[2]} \subseteq Pairs(prog)
    BY <1>1, <1>4 DEF Pairs
  <1>7. <<a, e[2]>> \in Pairs(prog)
    BY <1>1 DEF Pairs
  <1>8. QED
    BY <1>3, <1>5, <1>6, <1>7 DEF BehindStep, a, this

LEMMA BehindFacts ==
  ASSUME prog \in Programs, NEW e \in Pairs(prog)
  PROVE  /\ e \in Behind(e) /\ Behind(e) \subseteq Pairs(prog)
         /\ \A d \in Behind(e) : BehindStep(d) \subseteq Behind(e)
         /\ \A C \in SUBSET Pairs(prog) :
               e \in C /\ (\A d \in C : BehindStep(d) \subseteq C) => Behind(e) \subseteq C
  <1>1. BehindSteps \in [Pairs(prog) -> SUBSET Pairs(prog)]
    BY BehindStepType DEF BehindSteps
  <1>2. Behind(e) = Least({e}, BehindSteps)
    BY <1>1, PairsFinite, ClosureIsLeast DEF Behind, BehindSteps
  <1>3. /\ e \in Behind(e) /\ Behind(e) \in SUBSET Pairs(prog)
        /\ ClosedIn(Behind(e), BehindSteps)
        /\ \A C \in SUBSET Pairs(prog) : {e} \subseteq C /\ ClosedIn(C, BehindSteps) => Behind(e) \subseteq C
    BY <1>1, <1>2, LeastFacts
  <1>4. \A C \in SUBSET Pairs(prog) :
           ClosedIn(C, BehindSteps) <=> \A d \in C : BehindStep(d) \subseteq C
    BY DEF ClosedIn, BehindSteps
  <1>5. QED
    BY <1>3, <1>4

(* What is behind a pair that is behind another is behind that.            *)
LEMMA BehindBehind ==
  ASSUME prog \in Programs, NEW e \in Pairs(prog), NEW d \in Behind(e)
  PROVE  Behind(d) \subseteq Behind(e)
  BY BehindFacts

LEMMA PassedBehind ==
  ASSUME NEW e
  PROVE  Passed(Strip(e[1]), e[2]) \subseteq BehindStep(e)
  BY DEF BehindStep

LEMMA RewoundType ==
  ASSUME prog \in Programs
  PROVE  RewoundFrom \subseteq Pairs(prog)
  <1>1. StoredTo \subseteq Values(prog)
    <2>1. ValuesWellFormed(prog) /\ CallsWellFormed(prog)
      BY ProgramsAssumption DEF WellFormed
    <2>2. ASSUME NEW u \in DOMAIN prog.ops, prog.kind[u] = "store" PROVE prog.ops[u][2] \in Values(prog)
      <3>1. prog.ops[u] \in Seq(Values(prog)) /\ Len(prog.ops[u]) = 2
        BY <2>1, <2>2 DEF ValuesWellFormed
      <3>2. QED
        BY <3>1
    <2>3. ASSUME NEW u \in prog.extern, prog.ops[u] # << >> PROVE prog.ops[u][1] \in Values(prog)
      <3>1. prog.ops[u] \in Seq(Values(prog))
        BY <2>1, ProgramShape DEF CallsWellFormed
      <3>2. QED
        BY <2>3, <3>1
    <2>4. QED
      BY <2>2, <2>3 DEF StoredTo
  <1>2. StoredTo \X Contexts(prog) \subseteq Pairs(prog)
    BY <1>1 DEF Pairs
  <1>3. QED
    BY <1>2, PassedType DEF RewoundFrom

(* Whatever is passed behind a pair that rewinding may start from is one.  *)
LEMMA RewoundPassed ==
  ASSUME prog \in Programs, NEW e \in RewoundFrom, NEW d \in Behind(e)
  PROVE  Passed(Strip(d[1]), d[2]) \subseteq RewoundFrom
  <1> DEFINE stored == StoredTo \X Contexts(prog)
  <1>1. RewoundFrom = stored \cup UNION {UNION {Passed(Strip(b[1]), b[2]) : b \in Behind(c)} : c \in stored}
    BY DEF RewoundFrom
  <1>2. \A c \in stored : \A b \in Behind(c) : Passed(Strip(b[1]), b[2]) \subseteq RewoundFrom
    BY <1>1
  <1>3. CASE e \in stored
    BY <1>2, <1>3
  <1>4. CASE e \notin stored
    <2>1. PICK c \in stored : e \in UNION {Passed(Strip(b[1]), b[2]) : b \in Behind(c)}
      BY <1>1, <1>4
    <2>2. PICK b \in Behind(c) : e \in Passed(Strip(b[1]), b[2])
      BY <2>1
    <2>3. c \in Pairs(prog)
      BY <1>1, RewoundType
    <2>4. e \in Behind(c)
      BY <2>2, <2>3, BehindFacts, PassedBehind
    <2>5. d \in Behind(c)
      BY <2>3, <2>4, BehindBehind
    <2>6. QED
      BY <1>2, <2>5
  <1>5. QED
    BY <1>3, <1>4

-----------------------------------------------------------------------------
(* A step that only adds to the call graph only adds to where facts flow.  *)

(* Nothing is taken from the graph.                                        *)
GraphGrows ==
  /\ prog' = prog
  /\ \A k \in Calls(prog) \X Contexts(prog) : callees[k] \subseteq callees'[k]
  /\ \A x \in Domains(prog) : members[x] \subseteq members'[x]

LEMMA ContextsGrow ==
  ASSUME GraphGrows
  PROVE  /\ \A f : ContextsOf(f) \subseteq ContextsOf(f)'
         /\ \A u, x : IsInContext(u, x) => IsInContext(u, x)'
         /\ \A x, f : CalleeContext(x, f)' = CalleeContext(x, f)
         /\ \A f, d, x : CallerContexts(f, d, x) \subseteq CallerContexts(f, d, x)'
         /\ \A f : \A x \in Contexts(prog) : Callers(f, x) \subseteq Callers(f, x)'
  <1>0. prog' = prog
    BY DEF GraphGrows
  <1>1. ASSUME NEW f PROVE ContextsOf(f) \subseteq ContextsOf(f)'
    BY DEF GraphGrows, ContextsOf, Domains, Boxes
  <1>2. ASSUME NEW u, NEW x, IsInContext(u, x) PROVE IsInContext(u, x)'
    <2>1. x \in ContextsOf(prog.fun[u])
      BY <1>2 DEF IsInContext
    <2>2. x \in ContextsOf(prog.fun[u])'
      BY <1>0, <1>1, <2>1
    <2>3. QED
      BY <1>0, <2>2 DEF IsInContext
  <1>3. ASSUME NEW f, NEW x PROVE CalleeContext(x, f)' = CalleeContext(x, f)
    BY <1>0 DEF CalleeContext, EntryPoints, Boxes
  <1>4. ASSUME NEW f, NEW d, NEW x PROVE CallerContexts(f, d, x) \subseteq CallerContexts(f, d, x)'
    <2>1. ContextsOf(prog.fun[d]) \subseteq ContextsOf(prog.fun[d])'
      BY <1>0, <1>1
    <2>2. EntryPoints(prog)' = EntryPoints(prog)
      BY <1>0 DEF EntryPoints, Boxes
    <2>3. QED
      BY <1>0, <2>1, <2>2 DEF CallerContexts
  <1>5. ASSUME NEW f, NEW x \in Contexts(prog) PROVE Callers(f, x) \subseteq Callers(f, x)'
    BY <1>0 DEF GraphGrows, Callers, Calls
  <1>6. QED
    BY <1>1, <1>2, <1>3, <1>4, <1>5

(* The same of where a user makes the value flow, in the next state.       *)
Through(u, v, x) ==
  /\ x # NONE /\ prog.kind[u] # "constant" /\ IsInContext(u, x)
  /\ prog.extern \subseteq Calls(prog) /\ (prog.kind[u] = "call" <=> u \in Calls(prog))
  => /\ prog.kind[u] = "store" => FlowsAt(u, v, x) = {<<prog.ops[u][2], x>>}
     /\ u \in prog.extern => FlowsAt(u, v, x) = ExternResult(u, v) \X {x}
     /\ u \in Calls(prog) \ prog.extern => FlowsAt(u, v, x) = IntoParameters(u, x, v)
     /\ prog.kind[u] = "ret" => FlowsAt(u, v, x) = BackToCallers(prog.fun[u], x)
     /\ prog.kind[u] \in {"phi", "select", "annot", "gep", "load", "other"} =>
           FlowsAt(u, v, x) = {<<u, x>>}
     /\ prog.kind[u] \in {"binop", "intrinsic"} => FlowsAt(u, v, x) = {}

FromConstant(u, v, x) == prog.kind[u] = "constant" => FlowsAt(u, v, x) = {<<u, x>>}
FromNone(u, v) == prog.kind[u] # "constant" => FlowsAt(u, v, NONE) = {v} \X ContextsOf(prog.fun[u])

LEMMA ThroughNow == \A u, v, x : Through(u, v, x) /\ FromConstant(u, v, x) /\ FromNone(u, v)
  BY FlowsThrough, FlowsToConstant, FlowsFromNone DEF Through, FromConstant, FromNone

LEMMA ThroughNext == (\A u, v, x : Through(u, v, x) /\ FromConstant(u, v, x) /\ FromNone(u, v))'
  BY ThroughNow, PTL

LEMMA FlowsAtGrow ==
  ASSUME TypeInv, GraphGrows, NEW u \in DOMAIN prog.ops, NEW v \in Values(prog), NEW x \in Contexts(prog)
  PROVE  FlowsAt(u, v, x) \subseteq FlowsAt(u, v, x)'
  <1>1. prog' = prog
    BY DEF GraphGrows
  <1>2. ValuesWellFormed(prog) /\ CallsWellFormed(prog)
    BY ProgramsAssumption DEF TypeInv, WellFormed
  <1>3. prog.extern \subseteq Calls(prog) /\ (prog.kind[u] = "call" <=> u \in Calls(prog))
    BY <1>2 DEF CallsWellFormed
  <1>4. Calls(prog)' = Calls(prog)
    BY <1>1 DEF Calls
  <1>5. CASE prog.kind[u] = "constant"
    <2>1. FlowsAt(u, v, x)' = {<<u, x>>}
      BY <1>1, <1>5, ThroughNext DEF FromConstant
    <2>2. QED
      BY <1>5, <2>1, FlowsToConstant
  <1>6. CASE prog.kind[u] # "constant" /\ x = NONE
    <2>1. FlowsAt(u, v, NONE)' = {v} \X ContextsOf(prog.fun[u])'
      BY <1>1, <1>6, ThroughNext DEF FromNone
    <2>2. ContextsOf(prog.fun[u]) \subseteq ContextsOf(prog.fun[u])'
      BY <1>1, ContextsGrow
    <2>3. QED
      BY <1>6, <2>1, <2>2, FlowsFromNone
  <1>7. CASE prog.kind[u] # "constant" /\ x # NONE /\ ~IsInContext(u, x)
    BY <1>7, FlowsNowhere
  <1>8. CASE prog.kind[u] # "constant" /\ x # NONE /\ IsInContext(u, x)
    <2>1. IsInContext(u, x)'
      BY <1>8, ContextsGrow
    <2>2. /\ prog.kind[u] = "store" => FlowsAt(u, v, x) = {<<prog.ops[u][2], x>>}
          /\ u \in prog.extern => FlowsAt(u, v, x) = ExternResult(u, v) \X {x}
          /\ u \in Calls(prog) \ prog.extern => FlowsAt(u, v, x) = IntoParameters(u, x, v)
          /\ prog.kind[u] = "ret" => FlowsAt(u, v, x) = BackToCallers(prog.fun[u], x)
          /\ prog.kind[u] \in {"phi", "select", "annot", "gep", "load", "other"} =>
                FlowsAt(u, v, x) = {<<u, x>>}
          /\ prog.kind[u] \in {"binop", "intrinsic"} => FlowsAt(u, v, x) = {}
      BY <1>3, <1>8, FlowsThrough
    <2>3. /\ prog.kind[u] = "store" => FlowsAt(u, v, x)' = {<<prog.ops[u][2], x>>}
          /\ u \in prog.extern => FlowsAt(u, v, x)' = ExternResult(u, v)' \X {x}
          /\ u \in Calls(prog) \ prog.extern => FlowsAt(u, v, x)' = IntoParameters(u, x, v)'
          /\ prog.kind[u] = "ret" => FlowsAt(u, v, x)' = BackToCallers(prog.fun[u], x)'
          /\ prog.kind[u] \in {"phi", "select", "annot", "gep", "load", "other"} =>
                FlowsAt(u, v, x)' = {<<u, x>>}
      <3>1. Through(u, v, x)'
        BY ThroughNext
      <3>2. QED
        BY <1>1, <1>3, <1>4, <1>8, <2>1, <3>1 DEF Through
    <2>4. ExternResult(u, v)' = ExternResult(u, v)
      BY <1>1 DEF ExternResult
    <2>5. BackToCallers(prog.fun[u], x) \subseteq BackToCallers(prog.fun[u], x)'
      <3>1. Crossing(prog.fun[u])' = Crossing(prog.fun[u])
        BY <1>1 DEF Crossing, EntryPoints, Boxes
      <3>2. Callers(prog.fun[u], x) \subseteq Callers(prog.fun[u], x)'
        BY <1>1, ContextsGrow
      <3>3. QED
        BY <3>1, <3>2 DEF BackToCallers
    <2>6. ASSUME u \in Calls(prog) PROVE IntoParameters(u, x, v) \subseteq IntoParameters(u, x, v)'
      <3>1. callees[<<u, x>>] \subseteq callees'[<<u, x>>]
        BY <2>6 DEF GraphGrows
      <3>2. /\ \A f : CalleeContext(x, f)' = CalleeContext(x, f)
            /\ \A f, i : Formal(f, i)' = Formal(f, i)
            /\ Defined(prog)' = Defined(prog) /\ Positions(u, v)' = Positions(u, v)
        BY <1>1, ContextsGrow DEF Formal, Defined, Positions
      <3>3. QED
        BY <3>1, <3>2 DEF IntoParameters
    <2>7. CASE u \in Calls(prog)
      BY <1>3, <2>2, <2>3, <2>4, <2>6, <2>7
    <2>8. CASE prog.kind[u] = "ret"
      BY <2>2, <2>3, <2>5, <2>8
    <2>9. CASE prog.kind[u] \in {"store", "phi", "select", "annot", "gep", "load", "other", "binop", "intrinsic"}
      BY <2>2, <2>3, <2>9
    <2>10. CASE prog.kind[u] \in {"global", "alloca", "arg", "function"}
      <3>1. u \notin Calls(prog) /\ u \notin prog.extern
        BY <1>3, <2>10
      <3>2. FlowsAt(u, v, x) = {}
        <4>1. /\ prog.kind[u] # "store" /\ prog.kind[u] # "ret"
              /\ prog.kind[u] \notin {"phi", "select", "annot", "gep", "load", "other"}
          BY <2>10
        <4>2. QED
          BY <1>8, <3>1, <4>1, Zenon DEF FlowsAt
      <3>3. QED
        BY <3>2
    <2>11. prog.kind[u] \in Kinds
      BY <1>2 DEF ValuesWellFormed
    <2>12. QED
      BY <1>3, <1>8, <2>7, <2>8, <2>9, <2>10, <2>11 DEF Kinds
  <1>9. QED
    BY <1>5, <1>6, <1>7, <1>8

LEMMA FlowsGrow ==
  ASSUME TypeInv, GraphGrows, NEW e \in Pairs(prog)
  PROVE  Flows(e) \subseteq Flows(e)'
  <1>1. e[1] \in Values(prog) /\ e[2] \in Contexts(prog)
    BY DEF Pairs
  <1>2. Users(prog, e[1])' = Users(prog, e[1]) /\ Users(prog, e[1]) \subseteq DOMAIN prog.ops
    BY DEF GraphGrows, Users, Operands, Calls
  <1>3. \A u \in Users(prog, e[1]) : FlowsAt(u, e[1], e[2]) \subseteq FlowsAt(u, e[1], e[2])'
    BY <1>1, <1>2, FlowsAtGrow
  <1>4. QED
    BY <1>2, <1>3 DEF Flows

LEMMA PassedGrows ==
  ASSUME GraphGrows, NEW a, NEW x \in Contexts(prog)
  PROVE  Passed(a, x) \subseteq Passed(a, x)'
  <1>1. prog' = prog /\ Parameter(a)' = Parameter(a)
    BY DEF GraphGrows, Parameter
  <1>2. ASSUME NEW d, NEW A PROVE PassedBy(d, A) \subseteq PassedBy(d, A)'
    <2>1. ContextsOf(prog.fun[d]) \subseteq ContextsOf(prog.fun[d])'
      BY <1>1, ContextsGrow
    <2>2. QED
      BY <1>1, <2>1 DEF PassedBy
  <1>3. \A A : Callers(prog.fun[A], x) \subseteq Callers(prog.fun[A], x)'
    BY <1>1, ContextsGrow
  <1> SUFFICES ASSUME NEW t \in Passed(a, x) PROVE t \in Passed(a, x)'
    OBVIOUS
  <1>4. PICK A \in Parameter(a) : t \in UNION {PassedBy(d, A) : d \in Callers(prog.fun[A], x)}
    BY Zenon DEF Passed
  <1>5. PICK d \in Callers(prog.fun[A], x) : t \in PassedBy(d, A)
    BY <1>4, Zenon
  <1>6. A \in Parameter(a)' /\ d \in Callers(prog.fun[A], x)' /\ t \in PassedBy(d, A)'
    BY <1>1, <1>2, <1>3, <1>4, <1>5
  <1>7. t \in UNION {PassedBy(c, A)' : c \in Callers(prog.fun[A], x)'}
    BY <1>6
  <1>8. t \in UNION {UNION {PassedBy(c, B)' : c \in Callers(prog.fun[B], x)'} : B \in Parameter(a)'}
    BY <1>6, <1>7, Zenon
  <1>9. QED
    BY <1>8 DEF Passed

LEMMA BehindStepGrows ==
  ASSUME TypeInv, GraphGrows, NEW e \in Pairs(prog)
  PROVE  BehindStep(e) \subseteq BehindStep(e)'
  <1> DEFINE a == Strip(e[1])
             this == IF a \in DOMAIN prog.this THEN prog.this[a] ELSE {}
  <1>1. prog' = prog /\ e[2] \in Contexts(prog)
    BY DEF GraphGrows, Pairs
  <1>2. a' = a /\ this' = this /\ Back(a)' = Back(a)
    BY <1>1 DEF Strip, Back
  <1>3. Passed(a, e[2]) \subseteq Passed(a, e[2])'
    BY <1>1, <1>2, PassedGrows
  <1>4. UNION {{A} \X ContextsOf(prog.fun[A]) : A \in this}
          \subseteq UNION {{A} \X ContextsOf(prog.fun[A])' : A \in this}
    BY <1>1, ContextsGrow
  <1> HIDE DEF a, this
  <1>5. BehindStep(e) = {<<a, e[2]>>} \cup Passed(a, e[2])
       \cup (UNION {{A} \X ContextsOf(prog.fun[A]) : A \in this})
       \cup (IF prog.kind[a] \in Storage THEN {}
             ELSE {Back(a)[i] : i \in DOMAIN Back(a)} \X {e[2]})
    BY DEF BehindStep, a, this
  <1>6. BehindStep(e)' = {<<a, e[2]>>} \cup Passed(a, e[2])'
       \cup (UNION {{A} \X ContextsOf(prog.fun[A])' : A \in this})
       \cup (IF prog.kind[a] \in Storage THEN {}
             ELSE {Back(a)[i] : i \in DOMAIN Back(a)} \X {e[2]})
    BY <1>1, <1>2 DEF BehindStep, a, this
  <1>7. QED
    BY <1>3, <1>4, <1>5, <1>6

LEMMA BehindNext ==
  (\A e : prog \in Programs /\ e \in Pairs(prog) =>
     /\ e \in Behind(e) /\ Behind(e) \subseteq Pairs(prog)
     /\ \A d \in Behind(e) : BehindStep(d) \subseteq Behind(e))'
  <1>1. \A e : prog \in Programs /\ e \in Pairs(prog) =>
          /\ e \in Behind(e) /\ Behind(e) \subseteq Pairs(prog)
          /\ \A d \in Behind(e) : BehindStep(d) \subseteq Behind(e)
    BY BehindFacts
  <1>2. QED
    BY <1>1, PTL

LEMMA BehindGrows ==
  ASSUME TypeInv, GraphGrows, NEW e \in Pairs(prog)
  PROVE  Behind(e) \subseteq Behind(e)'
  <1>1. prog' = prog /\ Pairs(prog)' = Pairs(prog)
    BY DEF GraphGrows, Pairs, Values, Contexts, AllContexts, Domains, Boxes
  <1>2. /\ e \in Behind(e)' /\ Behind(e)' \subseteq Pairs(prog)
        /\ \A d \in Behind(e)' : BehindStep(d)' \subseteq Behind(e)'
    BY <1>1, BehindNext DEF TypeInv
  <1>3. \A d \in Behind(e)' : BehindStep(d) \subseteq Behind(e)'
    BY <1>2, BehindStepGrows
  <1>4. QED
    BY <1>2, <1>3, BehindFacts DEF TypeInv

LEMMA RewoundGrows ==
  ASSUME TypeInv, GraphGrows
  PROVE  RewoundFrom \subseteq RewoundFrom'
  <1> DEFINE stored == StoredTo \X Contexts(prog)
  <1>1. prog' = prog /\ stored' = stored
    BY DEF GraphGrows, StoredTo, Contexts, AllContexts, Domains, Boxes
  <1>2. stored \subseteq Pairs(prog)
    BY RewoundType DEF TypeInv, RewoundFrom
  <1>3. ASSUME NEW c \in stored, NEW d \in Behind(c)
        PROVE  d \in Behind(c)' /\ Passed(Strip(d[1]), d[2]) \subseteq Passed(Strip(d[1]), d[2])'
    <2>1. d \in Behind(c)' /\ d \in Pairs(prog)
      BY <1>2, BehindGrows, BehindFacts DEF TypeInv
    <2>2. d[2] \in Contexts(prog)
      BY <2>1 DEF Pairs
    <2>3. Strip(d[1])' = Strip(d[1])
      BY <1>1 DEF Strip
    <2> DEFINE a == Strip(d[1])
    <2>4. a' = a
      BY <2>3
    <2>5. Passed(a, d[2]) \subseteq Passed(a, d[2])'
      BY <2>2, <2>4, PassedGrows
    <2>6. QED
      BY <2>1, <2>5
  <1> HIDE DEF stored
  <1>4. RewoundFrom = stored \cup UNION {UNION {Passed(Strip(d[1]), d[2]) : d \in Behind(c)} : c \in stored}
    BY DEF RewoundFrom, stored
  <1>5. RewoundFrom' = stored \cup UNION {UNION {Passed(Strip(d[1]), d[2])' : d \in Behind(c)'} : c \in stored}
    BY <1>1 DEF RewoundFrom, stored
  <1>6. ASSUME NEW c \in stored
        PROVE  UNION {Passed(Strip(d[1]), d[2]) : d \in Behind(c)}
                 \subseteq UNION {Passed(Strip(d[1]), d[2])' : d \in Behind(c)'}
    BY <1>3
  <1>7. QED
    BY <1>4, <1>5, <1>6

(* The flows of the engine, part by part.                                  *)
BehindFlows(e) == IF e \in RewoundFrom THEN Behind(e) ELSE {}
CalledFlows(e) ==
  UNION {UNION {Formal(w[1], w[2]) \X {CalleeContext(e[2], w[1])} :
                  w \in (callees[<<u, e[2]>>] \cap Defined(prog)) \X DOMAIN prog.ops[u]} :
         u \in {d \in Calls(prog) : prog.called[d] = e[1]}}
ResultFlows(e) ==
  UNION {UNION {{d} \X CallerContexts(prog.fun[r], d, e[2]) : d \in Callers(prog.fun[r], e[2])} :
         r \in {s \in Users(prog, e[1]) : prog.kind[s] = "ret"}}
MetFlows(e) == IF prog.must THEN MetByParameters(e) \cup MetByCalls(e) ELSE {}
SingleCopies(e) == IF prog.insensitive THEN {e[1]} \X Contexts(prog) ELSE {}

EngineHasParts(e) ==
  EngineFlows(e) = Flows(e) \cup BehindFlows(e) \cup CalledFlows(e) \cup ResultFlows(e)
                     \cup MetFlows(e) \cup SingleCopies(e)

LEMMA EngineParts == \A e : EngineHasParts(e)
  BY DEF EngineHasParts, EngineFlows, BehindFlows, CalledFlows, ResultFlows, MetFlows, SingleCopies

LEMMA EnginePartsNext == (\A e : EngineHasParts(e))'
  BY EngineParts, PTL

MayCall(d) == {f \in Defined(prog) : \E x \in Contexts(prog) : f \in callees[<<d, x>>]}

LEMMA MetParameter ==
  \A e : \A t :
    t \in MetByParameters(e) <=>
      \E d \in Calls(prog) : \E w \in MayCall(d) \X Positions(d, e[1]) :
        IsInContext(d, e[2]) /\ t \in Formal(w[1], w[2]) \X {CalleeContext(e[2], w[1])}
  <1> SUFFICES ASSUME NEW e, NEW t
               PROVE  t \in MetByParameters(e) <=>
                        \E d \in Calls(prog) : \E w \in MayCall(d) \X Positions(d, e[1]) :
                          IsInContext(d, e[2]) /\ t \in Formal(w[1], w[2]) \X {CalleeContext(e[2], w[1])}
    OBVIOUS
  <1> DEFINE P(d) == UNION {Formal(w[1], w[2]) \X {CalleeContext(e[2], w[1])} : w \in MayCall(d) \X Positions(d, e[1])}
             ds == {c \in Calls(prog) : IsInContext(c, e[2])}
  <1>1. MetByParameters(e) = UNION {P(d) : d \in ds}
    BY Zenon DEF MetByParameters, MayCall
  <1>2. \A d : t \in P(d) <=> \E w \in MayCall(d) \X Positions(d, e[1]) : t \in Formal(w[1], w[2]) \X {CalleeContext(e[2], w[1])}
    OBVIOUS
  <1> HIDE DEF P
  <1>3. t \in MetByParameters(e) <=> \E d \in ds : t \in P(d)
    BY <1>1
  <1>4. QED
    BY <1>2, <1>3

LEMMA EngineFlowsType ==
  ASSUME TypeInv, NEW e \in Pairs(prog)
  PROVE  EngineFlows(e) \subseteq Pairs(prog)
  <1>1. e[1] \in Values(prog) /\ e[2] \in Contexts(prog)
    BY DEF Pairs
  <1>2. Flows(e) \subseteq Pairs(prog)
    BY FlowsType
  <1>3. BehindFlows(e) \subseteq Pairs(prog)
    BY BehindFacts DEF BehindFlows, TypeInv
  <1>4. CalledFlows(e) \subseteq Pairs(prog)
    <2> SUFFICES ASSUME NEW t \in CalledFlows(e) PROVE t \in Pairs(prog)
      OBVIOUS
    <2>1. PICK u \in {d \in Calls(prog) : prog.called[d] = e[1]} :
            t \in UNION {Formal(w[1], w[2]) \X {CalleeContext(e[2], w[1])} :
                         w \in (callees[<<u, e[2]>>] \cap Defined(prog)) \X DOMAIN prog.ops[u]}
      BY Zenon DEF CalledFlows
    <2>2. PICK w \in (callees[<<u, e[2]>>] \cap Defined(prog)) \X DOMAIN prog.ops[u] :
            t \in Formal(w[1], w[2]) \X {CalleeContext(e[2], w[1])}
      BY <2>1, Zenon
    <2>3. w[1] \in Defined(prog)
      BY <2>2
    <2>4. Formal(w[1], w[2]) \subseteq Values(prog) /\ CalleeContext(e[2], w[1]) \in Contexts(prog)
      BY <1>1, <2>3, FormalType, CalleeContextType DEF TypeInv
    <2>5. QED
      BY <2>2, <2>4 DEF Pairs
  <1>5. ResultFlows(e) \subseteq Pairs(prog)
    <2> SUFFICES ASSUME NEW r, NEW d \in Callers(prog.fun[r], e[2])
                 PROVE  {d} \X CallerContexts(prog.fun[r], d, e[2]) \subseteq Pairs(prog)
      BY DEF ResultFlows
    <2>1. d \in Values(prog)
      BY ProgramShape DEF TypeInv, Callers
    <2>2. QED
      BY <1>1, <2>1, CallerContextsType DEF Pairs
  <1>6. SingleCopies(e) \subseteq Pairs(prog)
    BY <1>1 DEF SingleCopies, Pairs
  <1>7. MetFlows(e) \subseteq Pairs(prog)
    <2>1. MetByParameters(e) \subseteq Pairs(prog)
      <3> SUFFICES ASSUME NEW t \in MetByParameters(e) PROVE t \in Pairs(prog)
        OBVIOUS
      <3>1. PICK w : w[1] \in Defined(prog) /\ t \in Formal(w[1], w[2]) \X {CalleeContext(e[2], w[1])}
        BY MetParameter DEF MayCall
      <3>2. Formal(w[1], w[2]) \subseteq Values(prog) /\ CalleeContext(e[2], w[1]) \in Contexts(prog)
        BY <1>1, <3>1, FormalType, CalleeContextType DEF TypeInv
      <3>3. QED
        BY <3>1, <3>2 DEF Pairs
    <2>2. MetByCalls(e) \subseteq Pairs(prog)
      BY ProgramShape DEF MetByCalls, TypeInv, Pairs
    <2>3. QED
      BY <2>1, <2>2 DEF MetFlows
  <1>8. QED
    BY <1>2, <1>3, <1>4, <1>5, <1>6, <1>7, EngineParts DEF EngineHasParts

LEMMA MetParameterNext ==
  (\A e : \A t :
    t \in MetByParameters(e) <=>
      \E d \in Calls(prog) : \E w \in MayCall(d) \X Positions(d, e[1]) :
        IsInContext(d, e[2]) /\ t \in Formal(w[1], w[2]) \X {CalleeContext(e[2], w[1])})'
  BY MetParameter, PTL

LEMMA MetGrows ==
  ASSUME TypeInv, GraphGrows, NEW e
  PROVE  MetFlows(e) \subseteq MetFlows(e)'
  <1>1. prog' = prog /\ Calls(prog)' = Calls(prog) /\ Contexts(prog)' = Contexts(prog) /\ Defined(prog)' = Defined(prog)
    BY DEF GraphGrows, Calls, Contexts, AllContexts, Domains, Boxes, Defined
  <1>2. /\ \A x, f : CalleeContext(x, f)' = CalleeContext(x, f)
        /\ \A f, i : Formal(f, i)' = Formal(f, i)
        /\ \A d, v : Positions(d, v)' = Positions(d, v)
        /\ \A f : Results(f)' = Results(f)
    BY <1>1, ContextsGrow DEF Formal, Positions, Results, Operands
  <1>3. \A k \in Calls(prog) \X Contexts(prog) : callees[k] \subseteq callees'[k]
    BY DEF GraphGrows
  <1>4. MetByParameters(e) \subseteq MetByParameters(e)'
    <2> SUFFICES ASSUME NEW t \in MetByParameters(e) PROVE t \in MetByParameters(e)'
      OBVIOUS
    <2>0. PICK d \in Calls(prog) : \E w \in MayCall(d) \X Positions(d, e[1]) :
            IsInContext(d, e[2]) /\ t \in Formal(w[1], w[2]) \X {CalleeContext(e[2], w[1])}
      BY MetParameter
    <2>1. PICK w \in MayCall(d) \X Positions(d, e[1]) :
            IsInContext(d, e[2]) /\ t \in Formal(w[1], w[2]) \X {CalleeContext(e[2], w[1])}
      BY <2>0
    <2>2. IsInContext(d, e[2])'
      BY <2>1, ContextsGrow
    <2>3. MayCall(d) \subseteq MayCall(d)'
      BY <1>1, <1>3 DEF MayCall
    <2>4. d \in Calls(prog)' /\ w \in (MayCall(d) \X Positions(d, e[1]))'
      BY <1>1, <1>2, <2>3
    <2>5. t \in (Formal(w[1], w[2]) \X {CalleeContext(e[2], w[1])})'
      BY <1>2, <2>1
    <2>6. QED
      BY <2>2, <2>4, <2>5, MetParameterNext
  <1>5. MetByCalls(e) \subseteq MetByCalls(e)'
    BY <1>1, <1>2, <1>3 DEF MetByCalls
  <1>6. QED
    BY <1>1, <1>4, <1>5 DEF MetFlows

LEMMA EngineGrows ==
  ASSUME TypeInv, GraphGrows, NEW e \in Pairs(prog)
  PROVE  EngineFlows(e) \subseteq EngineFlows(e)'
  <1>1. e[1] \in Values(prog) /\ e[2] \in Contexts(prog) /\ prog' = prog
    BY DEF Pairs, GraphGrows
  <1>2. Flows(e) \subseteq Flows(e)'
    BY FlowsGrow
  <1>3. BehindFlows(e) \subseteq BehindFlows(e)'
    BY BehindGrows, RewoundGrows DEF BehindFlows
  <1>4. CalledFlows(e) \subseteq CalledFlows(e)'
    <2>1. \A u \in Calls(prog) : callees[<<u, e[2]>>] \subseteq callees'[<<u, e[2]>>]
      BY <1>1 DEF GraphGrows
    <2>2. /\ \A f : CalleeContext(e[2], f)' = CalleeContext(e[2], f)
          /\ \A f, i : Formal(f, i)' = Formal(f, i)
          /\ Defined(prog)' = Defined(prog) /\ Calls(prog)' = Calls(prog)
      BY <1>1, ContextsGrow DEF Formal, Defined, Calls
    <2>3. QED
      BY <1>1, <2>1, <2>2 DEF CalledFlows
  <1>5. ResultFlows(e) \subseteq ResultFlows(e)'
    <2>1. Users(prog, e[1])' = Users(prog, e[1])
      BY <1>1 DEF Users, Operands, Calls
    <2>2. ASSUME NEW r
          PROVE  UNION {{d} \X CallerContexts(prog.fun[r], d, e[2]) : d \in Callers(prog.fun[r], e[2])}
                   \subseteq UNION {{d} \X CallerContexts(prog.fun[r], d, e[2])' : d \in Callers(prog.fun[r], e[2])'}
      <3>1. Callers(prog.fun[r], e[2]) \subseteq Callers(prog.fun[r], e[2])'
        BY <1>1, ContextsGrow
      <3>2. \A d : CallerContexts(prog.fun[r], d, e[2]) \subseteq CallerContexts(prog.fun[r], d, e[2])'
        BY <1>1, ContextsGrow
      <3>3. QED
        BY <3>1, <3>2
    <2>3. QED
      BY <1>1, <2>1, <2>2 DEF ResultFlows
  <1>6. SingleCopies(e)' = SingleCopies(e)
    BY <1>1 DEF SingleCopies, Contexts, AllContexts, Domains, Boxes
  <1>7. MetFlows(e) \subseteq MetFlows(e)'
    BY <1>1, MetGrows
  <1>8. EngineFlows(e)' = Flows(e)' \cup BehindFlows(e)' \cup CalledFlows(e)' \cup ResultFlows(e)'
                            \cup MetFlows(e)' \cup SingleCopies(e)'
    BY EnginePartsNext DEF EngineHasParts
  <1>9. QED
    BY <1>2, <1>3, <1>4, <1>5, <1>6, <1>7, <1>8, EngineParts DEF EngineHasParts

-----------------------------------------------------------------------------
(* The call graph only grows, and what is cached of it lags behind at most. *)

MembersBound == \A y \in Domains(prog) : members[y] \subseteq MembersIn(callees, y)

LEMMA ReachMore ==
  ASSUME NEW F, NEW r, NEW s, NEW start, \A f \in F : r[f] \subseteq s[f]
  PROVE  Reach(F, r, start) \subseteq Reach(F, s, start)
  <1>1. \A C \in SUBSET F : ClosedUnder(s, C) => ClosedUnder(r, C)
    BY DEF ClosedUnder
  <1>2. QED
    BY <1>1 DEF Reach

LEMMA MembersGrow ==
  ASSUME NEW g, NEW h, NEW x, \A d \in Calls(prog) : g[<<d, x>>] \subseteq h[<<d, x>>]
  PROVE  MembersIn(g, x) \subseteq MembersIn(h, x)
  <1> DEFINE own == IF x \in Boxes(prog) THEN prog.entry[x] ELSE {}
             foreign == EntryPoints(prog) \ own
             callsOf(f) == {d \in Calls(prog) : prog.fun[d] = f}
             r == [f \in Functions(prog) |-> (UNION {g[<<d, x>>] : d \in callsOf(f)}) \ foreign]
             s == [f \in Functions(prog) |-> (UNION {h[<<d, x>>] : d \in callsOf(f)}) \ foreign]
             start == IF x = PRIV THEN prog.main \ foreign ELSE own
  <1>1. ASSUME NEW f \in Functions(prog) PROVE r[f] \subseteq s[f]
    <2> DEFINE of == {g[<<d, x>>] : d \in callsOf(f)}
               more == {h[<<d, x>>] : d \in callsOf(f)}
    <2> HIDE DEF foreign, own, callsOf
    <2>1. r[f] = (UNION of) \ foreign /\ s[f] = (UNION more) \ foreign
      OBVIOUS
    <2>2. UNION of \subseteq UNION more
      BY DEF callsOf
    <2> HIDE DEF r, s, foreign, of, more
    <2>3. QED
      BY <2>1, <2>2
  <1>2. /\ MembersIn(g, x) = Reach(Functions(prog), r, start)
        /\ MembersIn(h, x) = Reach(Functions(prog), s, start)
    BY DEF MembersIn, MembersOf
  <1> HIDE DEF r, s, start
  <1>3. QED
    BY <1>1, <1>2, ReachMore

LEMMA GraphStep ==
  ASSUME TypeInv, MembersBound, [Next]_vars
  PROVE  GraphGrows /\ MembersBound'
  <1>1. prog' = prog /\ Domains(prog)' = Domains(prog)
    BY DEF Next, MergeContext, Merged, Dequeue, Use, UseConstant, UseFindsContexts, UseIgnored,
           UseStore, UseExtern, UseBinaryOp, UseMerge, UseOther, UseArgument, UsePointer, UseReturn,
           Propagate, Rewind, RewindWrite, RewindVisited, RewindStorage, RewindValue, Rewinding,
           Finish, vars, Domains, Boxes
  <1>2. \A g, y : MembersIn(g, y)' = MembersIn(g', y)
    BY <1>1 DEF MembersIn
  <1>3. CASE UsePointer
    <2> DEFINE new == IF prog.tracking THEN state[cur] \cap prog.fits[cur[1]] ELSE {}
    <2>1. PICK u \in uses :
            /\ callees' = [callees EXCEPT ![<<u, cur[2]>>] = @ \cup new]
            /\ Refresh(cur[2])
      BY <1>3 DEF UsePointer
    <2> HIDE DEF new
    <2>2. callees \in [Calls(prog) \X Contexts(prog) -> SUBSET Functions(prog)]
      BY DEF TypeInv, TypeOK
    <2>3. \A k \in Calls(prog) \X Contexts(prog) : callees[k] \subseteq callees'[k]
      BY <2>1, <2>2
    <2>4. ASSUME NEW y \in Domains(prog)
          PROVE  MembersIn(callees, y) \subseteq MembersIn(callees', y)
      <3>1. \A d \in Calls(prog) : callees[<<d, y>>] \subseteq callees'[<<d, y>>]
        BY <2>3, <2>4 DEF Contexts, AllContexts
      <3>2. QED
        BY <3>1, MembersGrow
    <2>5. ASSUME NEW y \in Domains(prog)
          PROVE  members[y] \subseteq members'[y] /\ members'[y] \subseteq MembersIn(callees', y)
      <3>1. members[y] \subseteq MembersIn(callees, y)
        BY DEF MembersBound
      <3>2. members'[y] = IF y = cur[2] /\ callees' # callees THEN MembersIn(callees', y) ELSE members[y]
        BY <2>1 DEF Refresh
      <3>3. QED
        BY <2>4, <3>1, <3>2
    <2>6. QED
      BY <1>1, <1>2, <2>3, <2>5 DEF GraphGrows, MembersBound
  <1>4. CASE ~UsePointer
    <2>1. UNCHANGED <<callees, members>>
      BY <1>4 DEF Next, MergeContext, Merged, Dequeue, Use, UseConstant, UseFindsContexts, UseIgnored,
           UseStore, UseExtern, UseBinaryOp, UseMerge, UseOther, UseArgument, UseReturn,
           Propagate, Rewind, RewindWrite, RewindVisited, RewindStorage, RewindValue, Rewinding,
           Finish, vars, graphVars
    <2>2. QED
      BY <1>1, <1>2, <2>1 DEF GraphGrows, MembersBound
  <1>5. QED
    BY <1>3, <1>4

-----------------------------------------------------------------------------
(***************************************************************************)
(* Where a fact may be: in any set that the engine's flows do not leave    *)
(* and that has the pairs seeded with it.                                  *)
(***************************************************************************)
Sealed(C) == C \in SUBSET Pairs(prog) /\ \A e \in C : EngineFlows(e) \subseteq C
SeededWith(x) == {e \in DOMAIN prog.seed : x \in prog.seed[e]}
Within(x, C) == Sealed(C) /\ SeededWith(x) \subseteq C

LEMMA SealedBefore ==
  ASSUME TypeInv, GraphGrows, NEW C, Sealed(C)'
  PROVE  Sealed(C)
  <1>1. C \in SUBSET Pairs(prog)
    BY DEF Sealed, GraphGrows, Pairs, Values, Contexts, AllContexts, Domains, Boxes
  <1>2. \A e \in C : EngineFlows(e)' \subseteq C
    BY DEF Sealed
  <1>3. \A e \in C : EngineFlows(e) \subseteq EngineFlows(e)'
    BY <1>1, EngineGrows
  <1>4. QED
    BY <1>1, <1>2, <1>3 DEF Sealed

LEMMA WithinBefore ==
  ASSUME TypeInv, GraphGrows, NEW x, NEW C, Within(x, C)'
  PROVE  Within(x, C)
  <1>1. Sealed(C)
    BY SealedBefore DEF Within
  <1>2. SeededWith(x)' = SeededWith(x)
    BY DEF GraphGrows, SeededWith
  <1>3. QED
    BY <1>1, <1>2 DEF Within

(* What is asked for is where the pair flows; rewinding starts where it    *)
(* may, and is behind there.                                               *)
Aimed(j) == (\A e \in j.from : j.to \in EngineFlows(e)) /\ (j.back => j.to \in RewoundFrom)
AimInv == \A j \in jobs : Aimed(j)
TaskInv ==
  \A i \in DOMAIN rewind : rewind[i].src \in RewoundFrom /\ rewind[i].dst \in Behind(rewind[i].src)
FactsWithin ==
  \A x \in Facts : \A C \in SUBSET Pairs(prog) :
    Within(x, C) => \A e \in Pairs(prog) : x \in state[e] => e \in C

-----------------------------------------------------------------------------
(* What each kind of user asks for.                                        *)

LEMMA AimFlows ==
  ASSUME NEW u \in uses, u \in Users(prog, cur[1]), NEW t \in FlowsAt(u, cur[1], cur[2])
  PROVE  t \in EngineFlows(cur)
  BY DEF EngineFlows, Flows

(* The users still to be looked at are the pair's.                         *)
UsesInv == uses \subseteq Users(prog, cur[1])

JobsAimed == \A j \in jobs' : Aimed(j)

LEMMA FromCurrent ==
  ASSUME NEW j, j.from = {cur}, j.to \in EngineFlows(cur), j.back => j.to \in RewoundFrom
  PROVE  Aimed(j)
  BY DEF Aimed

LEMMA NotBack ==
  ASSUME NEW from, NEW to, NEW how
  PROVE  ~Job(from, to, how).back
  BY DEF Job

LEMMA BackIf ==
  ASSUME NEW from, NEW to, NEW how, NEW b
  PROVE  [Job(from, to, how) EXCEPT !.back = b].back = b
  BY DEF Job

LEMMA ConstantAims ==
  ASSUME TypeInv, UsesInv, UseConstant
  PROVE  JobsAimed
  <1>1. PICK u \in uses :
          Take(u) /\ prog.kind[u] = "constant" /\ jobs' = {Job({cur}, <<u, cur[2]>>, "add")}
    BY DEF UseConstant
  <1>2. <<u, cur[2]>> \in EngineFlows(cur)
    BY <1>1, FlowsToConstant, AimFlows DEF UsesInv
  <1>3. PICK j : j = Job({cur}, <<u, cur[2]>>, "add")
    OBVIOUS
  <1>4. Aimed(j)
    BY <1>2, <1>3, JobFields, NotBack, FromCurrent
  <1>5. QED
    BY <1>1, <1>3, <1>4 DEF JobsAimed

LEMMA FindsContextsAims ==
  ASSUME TypeInv, UsesInv, UseFindsContexts
  PROVE  JobsAimed
  <1>1. PICK u \in uses :
          /\ u \in Instructions(prog) /\ cur[2] = NONE
          /\ jobs' = {Job({cur}, <<cur[1], x>>, "copy") : x \in ContextsOf(prog.fun[u])}
    BY DEF UseFindsContexts
  <1>2. FlowsAt(u, cur[1], cur[2]) = {cur[1]} \X ContextsOf(prog.fun[u])
    BY <1>1, FlowsFromNone, KindsOfUsers
  <1>3. \A x \in ContextsOf(prog.fun[u]) : <<cur[1], x>> \in EngineFlows(cur)
    BY <1>2, AimFlows DEF UsesInv
  <1>4. ASSUME NEW j \in jobs' PROVE Aimed(j)
    <2>1. PICK x \in ContextsOf(prog.fun[u]) : j = Job({cur}, <<cur[1], x>>, "copy")
      BY <1>1
    <2>2. j.to = <<cur[1], x>> /\ ~j.back /\ j.from = {cur}
      BY <2>1, JobFields, NotBack
    <2>3. QED
      BY <1>3, <2>2, FromCurrent
  <1>5. QED
    BY <1>4 DEF JobsAimed

LEMMA StoreAims ==
  ASSUME TypeInv, UsesInv, UseStore
  PROVE  JobsAimed
  <1>1. PICK u \in uses :
          /\ Take(u) /\ Here(u) /\ prog.kind[u] = "store"
          /\ jobs' = {[Job({cur}, <<prog.ops[u][2], cur[2]>>, "pass")
                         EXCEPT !.back = prog.kind[prog.ops[u][2]] = "gep"]}
    BY DEF UseStore
  <1>2. FlowsAt(u, cur[1], cur[2]) = {<<prog.ops[u][2], cur[2]>>}
    BY <1>1, FlowsThrough, KindsOfUsers DEF Here
  <1>3. <<prog.ops[u][2], cur[2]>> \in EngineFlows(cur)
    BY <1>2, AimFlows DEF UsesInv
  <1>4. <<prog.ops[u][2], cur[2]>> \in RewoundFrom
    <2>1. prog.ops[u][2] \in StoredTo
      BY <1>1, UsesType DEF StoredTo
    <2>2. QED
      BY <2>1, CurType DEF RewoundFrom
  <1>5. PICK j : jobs' = {j} /\ j.from = {cur} /\ j.to = <<prog.ops[u][2], cur[2]>>
    <2> DEFINE b == prog.kind[prog.ops[u][2]] = "gep"
               j == [Job({cur}, <<prog.ops[u][2], cur[2]>>, "pass") EXCEPT !.back = b]
    <2>1. jobs' = {j}
      BY <1>1
    <2> HIDE DEF b
    <2>2. j.from = {cur} /\ j.to = <<prog.ops[u][2], cur[2]>>
      BY JobFields
    <2> HIDE DEF j
    <2>3. QED
      BY <2>1, <2>2
  <1>6. QED
    BY <1>3, <1>4, <1>5, FromCurrent DEF JobsAimed

LEMMA ExternBack ==
  ASSUME TypeInv, NEW u \in prog.extern, NEW v, NEW r \in ExternResult(u, v), r # u
  PROVE  r \in StoredTo
  <1>1. u \in DOMAIN prog.name
    BY DEF ExternResult
  <1>2. prog.ops[u] # << >>
    BY <1>1, ProgramsAssumption DEF TypeInv, WellFormed, CallsWellFormed
  <1>3. r = prog.ops[u][1]
    BY <1>1 DEF ExternResult
  <1>4. QED
    BY <1>2, <1>3 DEF StoredTo

LEMMA ExternAims ==
  ASSUME TypeInv, UsesInv, UseExtern
  PROVE  JobsAimed
  <1>1. PICK u \in uses :
          /\ Take(u) /\ Here(u) /\ u \in prog.extern
          /\ jobs' = {[Job({cur}, <<r, cur[2]>>, "pass") EXCEPT !.back = r # u] :
                        r \in ExternResult(u, cur[1])}
    BY DEF UseExtern
  <1>2. FlowsAt(u, cur[1], cur[2]) = ExternResult(u, cur[1]) \X {cur[2]}
    BY <1>1, FlowsThrough, KindsOfUsers DEF Here
  <1> DEFINE job(r) == [Job({cur}, <<r, cur[2]>>, "pass") EXCEPT !.back = r # u]
  <1>3. \A r : job(r).from = {cur} /\ job(r).to = <<r, cur[2]>> /\ (job(r).back => r # u)
    <2> SUFFICES ASSUME NEW r PROVE job(r).from = {cur} /\ job(r).to = <<r, cur[2]>> /\ (job(r).back => r # u)
      OBVIOUS
    <2> DEFINE b == r # u
    <2>0. b => r # u
      OBVIOUS
    <2> HIDE DEF b
    <2>1. /\ [Job({cur}, <<r, cur[2]>>, "pass") EXCEPT !.back = b].from = {cur}
          /\ [Job({cur}, <<r, cur[2]>>, "pass") EXCEPT !.back = b].to = <<r, cur[2]>>
          /\ [Job({cur}, <<r, cur[2]>>, "pass") EXCEPT !.back = b].back = b
      BY JobFields, BackIf
    <2>2. QED
      BY <2>0, <2>1, Zenon DEF b
  <1>4. jobs' = {job(r) : r \in ExternResult(u, cur[1])}
    BY <1>1
  <1> HIDE DEF job
  <1>5. ASSUME NEW r \in ExternResult(u, cur[1])
        PROVE  <<r, cur[2]>> \in EngineFlows(cur) /\ (r # u => <<r, cur[2]>> \in RewoundFrom)
    <2>1. <<r, cur[2]>> \in FlowsAt(u, cur[1], cur[2])
      BY <1>2
    <2>2. r # u => r \in StoredTo
      BY <1>1, ExternBack
    <2>3. QED
      BY <2>1, <2>2, AimFlows, CurType DEF UsesInv, RewoundFrom
  <1>6. \A r \in ExternResult(u, cur[1]) : Aimed(job(r))
    BY <1>3, <1>5, FromCurrent
  <1>7. QED
    BY <1>4, <1>6 DEF JobsAimed

LEMMA MergeAims ==
  ASSUME TypeInv, UsesInv, UseMerge
  PROVE  JobsAimed
  <1>1. PICK u \in uses :
          /\ Take(u) /\ Here(u) /\ prog.kind[u] \in {"phi", "select"}
          /\ jobs' = {IF prog.must
                      THEN Job({<<v, cur[2]>> : v \in Operands(prog, u)}, <<u, cur[2]>>, "set")
                      ELSE Job({cur}, <<u, cur[2]>>, "pass")}
    BY DEF UseMerge
  <1> DEFINE met == {<<v, cur[2]>> : v \in Operands(prog, u)}
             from == IF prog.must THEN met ELSE {cur}
  <1>2. \E how : jobs' = {Job(from, <<u, cur[2]>>, how)}
    BY <1>1
  <1>3. cur = <<cur[1], cur[2]>> /\ u \in DOMAIN prog.ops
    BY CurType, UsesType DEF Pairs
  <1>4. ASSUME NEW e \in from PROVE <<u, cur[2]>> \in EngineFlows(e)
    <2>1. PICK v : e = <<v, cur[2]>> /\ u \in Users(prog, v)
      <3>1. CASE prog.must
        BY <1>3, <1>4, <3>1 DEF Users
      <3>2. CASE ~prog.must
        BY <1>3, <1>4, <3>2 DEF UsesInv
      <3>3. QED
        BY <3>1, <3>2
    <2>2. FlowsAt(u, v, cur[2]) = {<<u, cur[2]>>}
      BY <1>1, FlowsThrough, KindsOfUsers DEF Here
    <2>3. e[1] = v /\ e[2] = cur[2]
      BY <2>1
    <2>4. <<u, cur[2]>> \in Flows(e)
      BY <2>1, <2>2, <2>3 DEF Flows
    <2>5. QED
      BY <2>4, EngineParts DEF EngineHasParts
  <1> HIDE DEF from
  <1>5. PICK how : jobs' = {Job(from, <<u, cur[2]>>, how)}
    BY <1>2
  <1>6. PICK j : j = Job(from, <<u, cur[2]>>, how)
    OBVIOUS
  <1>7. j.from = from /\ j.to = <<u, cur[2]>> /\ ~j.back
    BY <1>6, JobFields, NotBack
  <1>8. QED
    BY <1>4, <1>5, <1>6, <1>7 DEF JobsAimed, Aimed

LEMMA OtherAims ==
  ASSUME TypeInv, UsesInv, UseOther
  PROVE  JobsAimed
  <1>1. PICK u \in uses :
          /\ Take(u) /\ Here(u) /\ prog.kind[u] \in {"annot", "gep", "load", "other"}
          /\ jobs' = {Job({cur}, <<u, cur[2]>>, "pass")}
    BY DEF UseOther
  <1>2. FlowsAt(u, cur[1], cur[2]) = {<<u, cur[2]>>}
    BY <1>1, FlowsThrough, KindsOfUsers DEF Here
  <1>3. <<u, cur[2]>> \in EngineFlows(cur)
    BY <1>2, AimFlows DEF UsesInv
  <1>4. PICK j : j = Job({cur}, <<u, cur[2]>>, "pass")
    OBVIOUS
  <1>5. Aimed(j)
    BY <1>3, <1>4, JobFields, NotBack, FromCurrent
  <1>6. QED
    BY <1>1, <1>4, <1>5 DEF JobsAimed

LEMMA CalleeJobsAim ==
  ASSUME NEW u, NEW fs, NEW is, NEW j \in CalleeJobs(u, fs, is)
  PROVE  /\ ~j.back
         /\ \E f \in fs : \E i \in is : \E a \in Formal(f, i) :
              /\ j.to = <<a, CalleeContext(cur[2], f)>>
              /\ j.from = IF prog.must THEN Actuals(f, cur[2], i) ELSE {cur}
  <1> DEFINE from(z) == IF prog.must THEN Actuals(z[1], cur[2], z[2]) ELSE {cur}
             how == IF prog.must THEN "set" ELSE "pass"
             job(z) == Job(from(z), <<z[3], CalleeContext(cur[2], z[1])>>, how)
             zs == {w \in fs \X is \X Values(prog) : w[3] \in Formal(w[1], w[2])}
  <1>1. CalleeJobs(u, fs, is) = {job(z) : z \in zs}
    BY DEF CalleeJobs
  <1> HIDE DEF from, how
  <1>2. \A z : job(z).to = <<z[3], CalleeContext(cur[2], z[1])>> /\ ~job(z).back /\ job(z).from = from(z)
    BY JobFields, NotBack
  <1>3. \A z \in zs : z[1] \in fs /\ z[2] \in is /\ z[3] \in Formal(z[1], z[2])
    OBVIOUS
  <1> HIDE DEF job, zs
  <1>4. PICK z \in zs : j = job(z)
    BY <1>1
  <1>5. QED
    BY <1>2, <1>3, <1>4 DEF from

(* Callers that were found call the function in some context.              *)
CallersInv ==
  \A f \in DOMAIN inContextCallers : \A e \in inContextCallers[f] :
    IsInContext(e[1], e[2]) /\ \E x \in Contexts(prog) : f \in callees[<<e[1], x>>]

LEMMA CallersFoundCall ==
  ASSUME TypeInv, CallersInv, NEW f, NEW x \in Contexts(prog), NEW e \in CallersFound(f, x)
  PROVE  /\ e[1] \in Calls(prog) /\ e[2] \in Contexts(prog) /\ IsInContext(e[1], e[2])
         /\ \E y \in Contexts(prog) : f \in callees[<<e[1], y>>]
  <1>1. e \in Calls(prog) \X Contexts(prog)
    BY CallersFoundType
  <1>2. CASE f \in DOMAIN inContextCallers
    BY <1>1, <1>2 DEF CallersFound, CallersInv
  <1>3. CASE f \notin DOMAIN inContextCallers
    BY <1>1, <1>3 DEF CallersFound, Callers, IsInContext
  <1>4. QED
    BY <1>2, <1>3

(* What is met for a parameter is among what the engine lets flow there.   *)
LEMMA ActualsFlow ==
  ASSUME TypeInv, CallersInv, prog.must, NEW f \in Defined(prog), NEW x \in Contexts(prog), NEW i,
         NEW a \in Formal(f, i), NEW e \in Actuals(f, x, i)
  PROVE  <<a, CalleeContext(x, f)>> \in EngineFlows(e)
  <1> DEFINE args(d) == IF i \in DOMAIN prog.param[f] THEN {i} \cap DOMAIN prog.ops[d]
                        ELSE DOMAIN prog.ops[d] \ DOMAIN prog.param[f]
             ds == {g[1] : g \in {h \in CallersFound(f, x) : h[2] = x}}
  <1>1. Actuals(f, x, i) = UNION {{<<prog.ops[d][k], x>> : k \in args(d)} : d \in ds}
    BY DEF Actuals
  <1>2. ASSUME NEW d \in ds
        PROVE  d \in Calls(prog) /\ IsInContext(d, x) /\ f \in MayCall(d)
    <2>1. PICK g \in CallersFound(f, x) : g[1] = d /\ g[2] = x
      BY <1>2
    <2>2. QED
      BY <2>1, CallersFoundCall DEF MayCall
  <1>3. ASSUME NEW d, NEW k \in args(d) PROVE k \in DOMAIN prog.ops[d] /\ a \in Formal(f, k)
    BY <1>3 DEF Formal
  <1> HIDE DEF args, ds
  <1>4. PICK d \in ds : e \in {<<prog.ops[d][k], x>> : k \in args(d)}
    BY <1>1, Zenon
  <1>5. PICK k \in args(d) : e = <<prog.ops[d][k], x>>
    BY <1>4
  <1>6. PICK w : w = <<f, k>>
    OBVIOUS
  <1>7. w \in MayCall(d) \X Positions(d, e[1])
    BY <1>2, <1>3, <1>5, <1>6 DEF Positions
  <1>8. <<a, CalleeContext(x, f)>> \in Formal(w[1], w[2]) \X {CalleeContext(e[2], w[1])}
    BY <1>3, <1>5, <1>6
  <1>9. IsInContext(d, e[2]) /\ d \in Calls(prog)
    BY <1>2, <1>5
  <1>10. <<a, CalleeContext(x, f)>> \in MetByParameters(e)
    BY <1>7, <1>8, <1>9, MetParameter
  <1>11. QED
    BY <1>10, EngineParts DEF EngineHasParts, MetFlows

LEMMA CalleeJobsMet ==
  ASSUME TypeInv, CallersInv, prog.must, NEW u, NEW fs \in SUBSET Defined(prog), NEW is,
         NEW j \in CalleeJobs(u, fs, is)
  PROVE  Aimed(j)
  <1>1. /\ ~j.back
        /\ \E f \in fs : \E i \in is : \E a \in Formal(f, i) :
             j.to = <<a, CalleeContext(cur[2], f)>> /\ j.from = Actuals(f, cur[2], i)
    BY CalleeJobsAim
  <1>2. cur[2] \in Contexts(prog)
    BY CurType
  <1>3. QED
    BY <1>1, <1>2, ActualsFlow DEF Aimed

LEMMA ArgumentAims ==
  ASSUME TypeInv, UsesInv, CallersInv, UseArgument
  PROVE  JobsAimed
  <1>1. PICK u \in uses :
          /\ Take(u) /\ Here(u) /\ u \in Calls(prog) \ prog.extern
          /\ jobs' = CalleeJobs(u, callees[<<u, cur[2]>>] \cap Defined(prog), FirstPosition(u, cur[1]))
    BY DEF UseArgument
  <1>2. FlowsAt(u, cur[1], cur[2]) = IntoParameters(u, cur[2], cur[1])
    BY <1>1, FlowsThrough, KindsOfUsers DEF Here
  <1>3. ASSUME NEW j \in jobs', ~prog.must PROVE Aimed(j)
    <2>1. /\ ~j.back /\ j.from = {cur}
          /\ \E f \in callees[<<u, cur[2]>>] \cap Defined(prog) : \E i \in FirstPosition(u, cur[1]) :
               \E a \in Formal(f, i) : j.to = <<a, CalleeContext(cur[2], f)>>
      BY <1>1, <1>3, CalleeJobsAim
    <2>2. PICK f \in callees[<<u, cur[2]>>] \cap Defined(prog), i \in FirstPosition(u, cur[1]) :
            \E a \in Formal(f, i) : j.to = <<a, CalleeContext(cur[2], f)>>
      BY <2>1
    <2> DEFINE w == <<f, i>>
    <2>3. w \in (callees[<<u, cur[2]>>] \cap Defined(prog)) \X Positions(u, cur[1])
      BY DEF FirstPosition
    <2>4. j.to \in Formal(w[1], w[2]) \X {CalleeContext(cur[2], w[1])}
      BY <2>2
    <2> HIDE DEF w
    <2>5. j.to \in IntoParameters(u, cur[2], cur[1])
      BY <2>3, <2>4 DEF IntoParameters
    <2>6. QED
      BY <1>2, <2>1, <2>5, AimFlows, FromCurrent DEF UsesInv
  <1>4. ASSUME NEW j \in jobs', prog.must PROVE Aimed(j)
    BY <1>1, <1>4, CalleeJobsMet
  <1>5. QED
    BY <1>3, <1>4 DEF JobsAimed

LEMMA ReturnAims ==
  ASSUME TypeInv, UsesInv, UseReturn
  PROVE  JobsAimed
  <1>1. PICK u \in uses :
          /\ Take(u) /\ Here(u) /\ prog.kind[u] = "ret"
          /\ jobs' = {Job(IF prog.must
                          THEN UNION {Results(g) \X {CalleeContext(z[2], g)} : g \in callees[<<z[1], z[2]>>]}
                          ELSE {cur}, z, IF prog.must THEN "set" ELSE "pass") :
                        z \in {w \in Callers(prog.fun[u], cur[2]) \X Contexts(prog) :
                                 w[2] \in CallerContexts(prog.fun[u], w[1], cur[2])}}
    BY DEF UseReturn
  <1> DEFINE zs == {w \in Callers(prog.fun[u], cur[2]) \X Contexts(prog) :
                      w[2] \in CallerContexts(prog.fun[u], w[1], cur[2])}
  <1>2. ASSUME NEW z \in zs PROVE z \in EngineFlows(cur)
    <2>1. z[1] \in Callers(prog.fun[u], cur[2]) /\ z \in {z[1]} \X CallerContexts(prog.fun[u], z[1], cur[2])
      OBVIOUS
    <2>2. u \in {s \in Users(prog, cur[1]) : prog.kind[s] = "ret"}
      BY <1>1 DEF UsesInv
    <2>3. z \in UNION {{d} \X CallerContexts(prog.fun[u], d, cur[2]) : d \in Callers(prog.fun[u], cur[2])}
      BY <2>1
    <2> DEFINE P(r) == UNION {{d} \X CallerContexts(prog.fun[r], d, cur[2]) : d \in Callers(prog.fun[r], cur[2])}
               rs == {s \in Users(prog, cur[1]) : prog.kind[s] = "ret"}
    <2>5. ResultFlows(cur) = UNION {P(r) : r \in rs}
      BY DEF ResultFlows
    <2>6. u \in rs /\ z \in P(u)
      BY <2>2, <2>3
    <2> HIDE DEF P, rs
    <2>4. z \in ResultFlows(cur)
      BY <2>5, <2>6
    <2>7. QED
      BY <2>4, EngineParts DEF EngineHasParts
  <1> DEFINE returned(z) == UNION {Results(g) \X {CalleeContext(z[2], g)} : g \in callees[<<z[1], z[2]>>]}
             from(z) == IF prog.must THEN returned(z) ELSE {cur}
             how == IF prog.must THEN "set" ELSE "pass"
             job(z) == Job(from(z), z, how)
  <1>3. jobs' = {job(z) : z \in zs}
    BY <1>1
  <1>4. ASSUME NEW z \in zs, prog.must, NEW e \in returned(z) PROVE z \in EngineFlows(e)
    <2>1. z \in Calls(prog) \X Contexts(prog) /\ z = <<z[1], z[2]>>
      BY DEF Callers
    <2>2. PICK g \in callees[<<z[1], z[2]>>] : e \in Results(g) \X {CalleeContext(z[2], g)}
      BY <1>4
    <2>3. z \in MetByCalls(e)
      BY <2>1, <2>2 DEF MetByCalls
    <2>4. QED
      BY <1>4, <2>3, EngineParts DEF EngineHasParts, MetFlows
  <1>5. \A z \in zs : \A e \in from(z) : z \in EngineFlows(e)
    BY <1>2, <1>4
  <1> HIDE DEF zs, from, how
  <1>6. \A z : job(z).from = from(z) /\ job(z).to = z /\ ~job(z).back
    BY JobFields, NotBack
  <1> HIDE DEF job
  <1>7. \A z \in zs : Aimed(job(z))
    BY <1>5, <1>6 DEF Aimed
  <1>8. QED
    BY <1>3, <1>7 DEF JobsAimed

LEMMA AimGrows ==
  ASSUME TypeInv, GraphGrows, NEW j, j.from \subseteq Pairs(prog), Aimed(j)
  PROVE  Aimed(j)'
  <1>1. \A e \in j.from : EngineFlows(e) \subseteq EngineFlows(e)'
    BY EngineGrows
  <1>2. RewoundFrom \subseteq RewoundFrom'
    BY RewoundGrows
  <1>3. QED
    BY <1>1, <1>2 DEF Aimed

LEMMA JobPairs ==
  ASSUME TypeInv', prog' = prog, NEW j \in jobs'
  PROVE  j.from \subseteq Pairs(prog)
  BY DEF TypeInv, TypeOK, Pairs, Values, Contexts, AllContexts, Domains, Boxes

LEMMA PointerAims ==
  ASSUME TypeInv, MembersBound, CallersInv, UsePointer, TypeInv'
  PROVE  AimInv'
  <1> DEFINE new == IF prog.tracking THEN state[cur] \cap prog.fits[cur[1]] ELSE {}
  <1>1. PICK u \in uses :
          /\ u \in Calls(prog) /\ prog.called[u] = cur[1]
          /\ callees' = [callees EXCEPT ![<<u, cur[2]>>] = @ \cup new]
          /\ jobs' = CalleeJobs(u, (callees[<<u, cur[2]>>] \cup new) \cap Defined(prog), DOMAIN prog.ops[u])
    BY DEF UsePointer
  <1>2. prog' = prog /\ cur' = cur
    BY DEF UsePointer
  <1> HIDE DEF new
  <1>3. callees'[<<u, cur[2]>>] = callees[<<u, cur[2]>>] \cup new
    BY <1>1, CurType DEF TypeInv, TypeOK
  <1>4. /\ \A x, f : CalleeContext(x, f)' = CalleeContext(x, f)
        /\ \A f, i : Formal(f, i)' = Formal(f, i)
        /\ Defined(prog)' = Defined(prog) /\ Calls(prog)' = Calls(prog)
    BY <1>2 DEF CalleeContext, EntryPoints, Boxes, Formal, Defined, Calls
  <1>5. ASSUME NEW j \in jobs', ~prog.must PROVE ~j.back /\ j.from = {cur} /\ j.to \in CalledFlows(cur)'
    <2> DEFINE fs == callees'[<<u, cur[2]>>] \cap Defined(prog)
               Q(d) == UNION {Formal(w[1], w[2])' \X {CalleeContext(cur[2], w[1])'} :
                                w \in (callees'[<<d, cur[2]>>] \cap Defined(prog)') \X DOMAIN prog.ops[d]}
               ds == {d \in Calls(prog) : prog.called[d] = cur[1]}
    <2>1. jobs' = CalleeJobs(u, fs, DOMAIN prog.ops[u])
      BY <1>1, <1>3
    <2>2. /\ ~j.back /\ j.from = {cur}
          /\ \E f \in fs : \E i \in DOMAIN prog.ops[u] : \E a \in Formal(f, i) : j.to = <<a, CalleeContext(cur[2], f)>>
      <3> HIDE DEF fs
      <3>1. QED
        BY <1>5, <2>1, CalleeJobsAim
    <2>3. PICK f \in fs, i \in DOMAIN prog.ops[u] : \E a \in Formal(f, i) : j.to = <<a, CalleeContext(cur[2], f)>>
      BY <2>2
    <2>10. PICK w : w = <<f, i>>
      OBVIOUS
    <2>4. w \in fs \X DOMAIN prog.ops[u]
      BY <2>10
    <2>9. j.to \in Formal(w[1], w[2]) \X {CalleeContext(cur[2], w[1])}
      BY <2>3, <2>10
    <2>5. j.to \in Formal(w[1], w[2])' \X {CalleeContext(cur[2], w[1])'}
      BY <1>2, <1>4, <2>9
    <2>6. j.to \in Q(u) /\ u \in ds
      BY <1>1, <1>4, <2>4, <2>5
    <2>7. CalledFlows(cur)' = UNION {Q(d) : d \in ds}
      BY <1>2, <1>4 DEF CalledFlows
    <2> HIDE DEF Q, ds
    <2>8. QED
      BY <2>2, <2>6, <2>7
  <1>6. ASSUME NEW j \in jobs', ~prog.must PROVE Aimed(j)'
    <2>1. ~j.back /\ j.from = {cur'} /\ j.to \in CalledFlows(cur)'
      BY <1>2, <1>5, <1>6
    <2>2. j.to \in EngineFlows(cur)'
      BY <2>1, EnginePartsNext DEF EngineHasParts
    <2>3. PICK c : c = cur'
      OBVIOUS
    <2>4. \A e \in j.from : j.to \in EngineFlows(e)'
      <3>1. j.to \in EngineFlows(c)'
        BY <2>2, <2>3
      <3>2. j.from = {c}
        BY <2>1, <2>3
      <3>3. QED
        BY <3>1, <3>2
    <2>5. QED
      BY <2>1, <2>4 DEF Aimed
  <1>7. ASSUME NEW j \in jobs', prog.must PROVE Aimed(j)'
    <2>1. Aimed(j)
      <3>1. (callees[<<u, cur[2]>>] \cup new) \cap Defined(prog) \in SUBSET Defined(prog)
        OBVIOUS
      <3>2. QED
        BY <1>1, <1>7, <3>1, CalleeJobsMet
    <2>2. j.from \subseteq Pairs(prog)
      BY <1>2, <1>7, JobPairs
    <2>3. GraphGrows
      BY GraphStep DEF Next, Use
    <2>4. QED
      BY <2>1, <2>2, <2>3, AimGrows
  <1>8. QED
    BY <1>6, <1>7 DEF AimInv

LEMMA UseAims ==
  ASSUME TypeInv, MembersBound, UsesInv, CallersInv, Use, TypeInv'
  PROVE  AimInv' /\ UsesInv'
  <1>1. GraphGrows /\ cur' = cur /\ prog' = prog
    <2>1. GraphGrows
      BY GraphStep DEF Next
    <2>2. cur' = cur
      BY DEF Use, UseConstant, UseFindsContexts, UseIgnored, UseStore, UseExtern, UseBinaryOp,
             UseMerge, UseOther, UseArgument, UsePointer, UseReturn
    <2>3. QED
      BY <2>1, <2>2 DEF GraphGrows
  <1>2. jobs = {} /\ uses' \subseteq uses
    BY DEF Use, UseConstant, UseFindsContexts, UseIgnored, UseStore, UseExtern, UseBinaryOp,
           UseMerge, UseOther, UseArgument, UsePointer, UseReturn, Take
  <1>3. UsesInv'
    BY <1>1, <1>2 DEF UsesInv, Users, Operands, Calls
  <1>4. CASE UsePointer
    BY <1>3, <1>4, PointerAims
  <1>5. CASE UseIgnored \/ UseBinaryOp
    <2>1. jobs' = {}
      BY <1>2, <1>5 DEF UseIgnored, UseBinaryOp
    <2>2. QED
      BY <1>3, <2>1 DEF AimInv
  <1>6. CASE ~UsePointer /\ ~UseIgnored /\ ~UseBinaryOp
    <2>1. JobsAimed
      BY <1>6, ConstantAims, FindsContextsAims, StoreAims, ExternAims, MergeAims, OtherAims,
         ArgumentAims, ReturnAims DEF Use
    <2>2. \A j \in jobs' : Aimed(j)'
      BY <1>1, <2>1, AimGrows, JobPairs DEF JobsAimed
    <2>3. QED
      BY <1>3, <2>2 DEF AimInv
  <1>7. QED
    BY <1>4, <1>5, <1>6

(* Callers that are remembered were found.                                 *)
LEMMA CallersStep ==
  ASSUME TypeInv, MembersBound, CallersInv, [Next]_vars
  PROVE  CallersInv'
  <1>1. GraphGrows
    BY GraphStep
  <1>2. ASSUME NEW f, NEW e, e[1] \in Calls(prog), IsInContext(e[1], e[2]),
               \E x \in Contexts(prog) : f \in callees[<<e[1], x>>]
        PROVE  IsInContext(e[1], e[2])' /\ \E x \in Contexts(prog)' : f \in callees'[<<e[1], x>>]
    <2>1. IsInContext(e[1], e[2])'
      BY <1>1, <1>2, ContextsGrow
    <2>2. Contexts(prog)' = Contexts(prog)
      BY <1>1 DEF GraphGrows, Contexts, AllContexts, Domains, Boxes
    <2>3. QED
      BY <1>1, <1>2, <2>1, <2>2 DEF GraphGrows
  <1>3. ASSUME NEW x \in Contexts(prog),
               \A f \in DOMAIN inContextCallers' : inContextCallers'[f] = CallersFound(f, x)
        PROVE  CallersInv'
    <2>1. ASSUME NEW f \in DOMAIN inContextCallers', NEW e \in inContextCallers'[f]
          PROVE  IsInContext(e[1], e[2])' /\ \E y \in Contexts(prog)' : f \in callees'[<<e[1], y>>]
      <3>1. e \in CallersFound(f, x)
        BY <1>3, <2>1
      <3>2. QED
        BY <1>2, <3>1, CallersFoundCall
    <2>2. QED
      BY <2>1 DEF CallersInv
  <1>4. CASE \E fs, is : RememberCallers(fs, is)
    <2>1. cur[2] \in Contexts(prog)
      BY CurType
    <2>2. \A f \in DOMAIN inContextCallers' : inContextCallers'[f] = CallersFound(f, cur[2])
      BY <1>4 DEF RememberCallers
    <2>3. QED
      BY <1>3, <2>1, <2>2
  <1>5. CASE UNCHANGED inContextCallers
    <2>1. ASSUME NEW f \in DOMAIN inContextCallers', NEW e \in inContextCallers'[f]
          PROVE  IsInContext(e[1], e[2])' /\ \E y \in Contexts(prog)' : f \in callees'[<<e[1], y>>]
      <3>1. /\ f \in DOMAIN inContextCallers /\ e \in inContextCallers[f]
            /\ e[1] \in Calls(prog)
        BY <1>5, <2>1 DEF TypeInv, TypeOK
      <3>2. QED
        BY <1>2, <3>1 DEF CallersInv
    <2>2. QED
      BY <2>1 DEF CallersInv
  <1>6. (\E fs, is : RememberCallers(fs, is)) \/ UNCHANGED inContextCallers
    <2>1. CASE UseArgument \/ UsePointer
      BY <2>1 DEF UseArgument, UsePointer
    <2>2. CASE ~UseArgument /\ ~UsePointer
      BY <2>2 DEF Next, MergeContext, Merged, Dequeue, Use, UseConstant, UseFindsContexts, UseIgnored,
         UseStore, UseExtern, UseBinaryOp, UseMerge, UseOther, UseReturn,
         Propagate, Rewind, RewindWrite, RewindVisited, RewindStorage, RewindValue, Rewinding,
         Finish, vars, graphVars
    <2>3. QED
      BY <2>1, <2>2
  <1>7. QED
    BY <1>4, <1>5, <1>6

-----------------------------------------------------------------------------
(* Facts stay within.                                                      *)

LEMMA FactsStayWithin ==
  ASSUME TypeInv, GraphGrows, FactsWithin,
         \A x \in Facts : \A C \in SUBSET Pairs(prog) :
           Within(x, C) /\ (\A d \in Pairs(prog) : x \in state[d] => d \in C)
             => \A e \in Pairs(prog) : x \in state'[e] => e \in C
  PROVE  FactsWithin'
  <1>1. Pairs(prog)' = Pairs(prog)
    BY DEF GraphGrows, Pairs, Values, Contexts, AllContexts, Domains, Boxes
  <1> SUFFICES ASSUME NEW x \in Facts, NEW C \in SUBSET Pairs(prog), Within(x, C)',
                      NEW e \in Pairs(prog), x \in state'[e]
               PROVE  e \in C
    BY <1>1 DEF FactsWithin
  <1>2. Within(x, C)
    BY WithinBefore
  <1>3. QED
    BY <1>2 DEF FactsWithin

Good(t) == t.src \in RewoundFrom /\ t.dst \in Behind(t.src)

LEMMA GoodGrows ==
  ASSUME TypeInv, GraphGrows, NEW t, Good(t)
  PROVE  Good(t)'
  <1>1. t.src \in RewoundFrom' /\ t.src \in Pairs(prog)
    BY RewoundGrows, RewoundType DEF Good, TypeInv
  <1>2. \A e \in Pairs(prog) : Behind(e) \subseteq Behind(e)'
    BY BehindGrows
  <1>3. QED
    BY <1>1, <1>2 DEF Good

LEMMA UseWithin ==
  ASSUME TypeInv, MembersBound, UsesInv, CallersInv, FactsWithin, Use, TypeInv'
  PROVE  UsesInv' /\ AimInv' /\ TaskInv' /\ FactsWithin'
  <1>1. /\ rewind' = << >> /\ prog' = prog
        /\ \A e \in Pairs(prog) : state'[e] \subseteq state[e]
    BY UseFacts
  <1>2. GraphGrows
    BY GraphStep DEF Next
  <1>3. FactsWithin'
    BY <1>1, <1>2, FactsStayWithin
  <1>4. TaskInv'
    BY <1>1 DEF TaskInv
  <1>5. QED
    BY <1>3, <1>4, UseAims

LEMMA PropagateWithin ==
  ASSUME TypeInv, MembersBound, UsesInv, AimInv, FactsWithin, Propagate
  PROVE  UsesInv' /\ AimInv' /\ TaskInv' /\ FactsWithin'
  <1>1. PICK j \in jobs :
          /\ jobs' = jobs \ {j}
          /\ state' = [state EXCEPT ![j.to] = NewState(j)]
          /\ rewind' = IF j.back /\ Changes(j) THEN <<Task(j.to, j.to, "visit")>> ELSE << >>
    BY DEF Propagate
  <1>2. /\ UNCHANGED <<prog, callees, members, cur, uses>>
        /\ j.to \in Pairs(prog) /\ \A k \in jobs : k.from \subseteq Pairs(prog)
        /\ state \in [Pairs(prog) -> SUBSET Facts]
    BY <1>1 DEF Propagate, graphVars, TypeInv, TypeOK
  <1>3. GraphGrows
    BY GraphStep DEF Next
  <1>4. UsesInv'
    BY <1>2 DEF UsesInv, Users, Operands, Calls
  <1>5. AimInv'
    <2>1. \A k \in jobs' : Aimed(k)'
      BY <1>1, <1>2, <1>3, AimGrows DEF AimInv
    <2>2. QED
      BY <2>1 DEF AimInv
  <1>6. TaskInv'
    <2>1. CASE j.back /\ Changes(j)
      <3>1. j.to \in RewoundFrom /\ j.to \in Behind(j.to)
        BY <1>1, <1>2, <2>1, BehindFacts DEF AimInv, Aimed, TypeInv
      <3>2. Good(Task(j.to, j.to, "visit"))
        BY <3>1 DEF Good, Task
      <3>3. Good(Task(j.to, j.to, "visit"))'
        BY <1>3, <3>2, GoodGrows
      <3>4. rewind' = <<Task(j.to, j.to, "visit")>>
        BY <1>1, <2>1
      <3>5. QED
        BY <3>3, <3>4 DEF TaskInv, Good
    <2>2. CASE ~(j.back /\ Changes(j))
      BY <1>1, <2>2 DEF TaskInv
    <2>3. QED
      BY <2>1, <2>2
  <1>7. FactsWithin'
    <2> SUFFICES ASSUME NEW x \in Facts, NEW C \in SUBSET Pairs(prog), Within(x, C),
                        \A d \in Pairs(prog) : x \in state[d] => d \in C,
                        NEW e \in Pairs(prog), x \in state'[e]
                 PROVE  e \in C
      BY <1>3, FactsStayWithin
    <2>1. NewState(j) \subseteq state[j.to] \cup MeetOver(j.from)
      BY DEF NewState
    <2>2. CASE e # j.to
      BY <1>1, <1>2, <2>2
    <2>3. CASE e = j.to
      <3>1. x \in state[j.to] \/ x \in MeetOver(j.from)
        BY <1>1, <1>2, <2>1, <2>3
      <3>2. CASE x \in MeetOver(j.from)
        <4>1. PICK d \in j.from : x \in state[d]
          BY <3>2 DEF MeetOver
        <4>2. d \in C /\ j.to \in EngineFlows(d)
          BY <1>1, <1>2, <4>1 DEF AimInv, Aimed
        <4>3. QED
          BY <2>3, <4>2 DEF Within, Sealed
      <3>3. QED
        BY <2>3, <3>1, <3>2
    <2>4. QED
      BY <2>2, <2>3
  <1>8. QED
    BY <1>4, <1>5, <1>6, <1>7

(* A step of rewinding: facts go from where it started to what is behind.  *)
LEMMA RewindingWithin ==
  ASSUME TypeInv, MembersBound, UsesInv, AimInv, FactsWithin, Rewinding, Rewind,
         \A i \in DOMAIN rewind' : Good(rewind'[i]),
         NEW src \in Pairs(prog), NEW dsts, src \in RewoundFrom, dsts \subseteq Behind(src),
         \A e \in Pairs(prog) : state'[e] \subseteq state[e] \/ (e \in dsts /\ state'[e] \subseteq state[e] \cup state[src])
  PROVE  UsesInv' /\ AimInv' /\ TaskInv' /\ FactsWithin'
  <1>1. UNCHANGED <<prog, cur, uses, jobs>>
    BY DEF Rewinding
  <1>2. GraphGrows
    BY GraphStep DEF Next
  <1>3. UsesInv'
    BY <1>1 DEF UsesInv, Users, Operands, Calls
  <1>4. AimInv'
    <2>1. \A k \in jobs' : Aimed(k)'
      BY <1>1, <1>2, AimGrows DEF AimInv, TypeInv, TypeOK
    <2>2. QED
      BY <2>1 DEF AimInv
  <1>5. TaskInv'
    <2> SUFFICES ASSUME NEW i \in DOMAIN rewind'
                 PROVE  (rewind[i].src \in RewoundFrom /\ rewind[i].dst \in Behind(rewind[i].src))'
      BY DEF TaskInv
    <2>1. PICK t : t = rewind'[i]
      OBVIOUS
    <2>2. Good(t)'
      BY <1>2, <2>1, GoodGrows
    <2>3. QED
      BY <2>1, <2>2 DEF Good
  <1>6. FactsWithin'
    <2> SUFFICES ASSUME NEW x \in Facts, NEW C \in SUBSET Pairs(prog), Within(x, C),
                        \A d \in Pairs(prog) : x \in state[d] => d \in C,
                        NEW e \in Pairs(prog), x \in state'[e]
                 PROVE  e \in C
      BY <1>2, FactsStayWithin
    <2>1. CASE x \in state[e]
      BY <2>1
    <2>2. CASE x \notin state[e]
      <3>1. e \in dsts /\ x \in state[src]
        BY <2>2
      <3>2. src \in C /\ e \in Behind(src)
        BY <3>1
      <3>3. e \in EngineFlows(src)
        BY <3>2, EngineParts DEF EngineHasParts, BehindFlows
      <3>4. QED
        BY <3>2, <3>3 DEF Within, Sealed
    <2>3. QED
      BY <2>1, <2>2
  <1>7. QED
    BY <1>3, <1>4, <1>5, <1>6

LEMMA JoinAdds ==
  ASSUME NEW src, NEW dsts, Join(src, dsts)
  PROVE  \A e \in Pairs(prog) : state'[e] \subseteq state[e] \/ (e \in dsts /\ state'[e] \subseteq state[e] \cup state[src])
  BY DEF Join

(* The stack: what is on it, and its first task.                           *)
LEMMA StackGood ==
  ASSUME TypeInv, TaskInv, Rewinding
  PROVE  /\ Good(Head(rewind)) /\ Head(rewind).src \in RewoundFrom
         /\ Head(rewind).dst \in Behind(Head(rewind).src)
         /\ \A i \in DOMAIN Tail(rewind) : Good(Tail(rewind)[i])
  <1>1. rewind \in Seq(TaskSet) /\ rewind # << >>
    BY DEF TypeInv, TypeOK, Rewinding, TaskSet
  <1>2. 1 \in DOMAIN rewind /\ Head(rewind) = rewind[1]
    BY <1>1
  <1>3. \A i \in DOMAIN Tail(rewind) : i + 1 \in DOMAIN rewind /\ Tail(rewind)[i] = rewind[i + 1]
    BY <1>1
  <1>4. QED
    BY <1>2, <1>3 DEF TaskInv, Good

LEMMA ConcatElements ==
  ASSUME NEW T, NEW p \in Seq(T), NEW q \in Seq(T), NEW i \in DOMAIN (p \o q)
  PROVE  \/ i \in DOMAIN p /\ (p \o q)[i] = p[i]
         \/ i - Len(p) \in DOMAIN q /\ (p \o q)[i] = q[i - Len(p)]
  OBVIOUS

LEMMA WriteWithin ==
  ASSUME TypeInv, MembersBound, UsesInv, AimInv, TaskInv, FactsWithin, RewindWrite
  PROVE  UsesInv' /\ AimInv' /\ TaskInv' /\ FactsWithin'
  <1> DEFINE h == Head(rewind)
  <1>1. Rewinding /\ Rewind /\ Join(h.src, {h.dst}) /\ rewind' = Tail(rewind)
    BY DEF RewindWrite, Rewind
  <1>2. /\ h.src \in Pairs(prog) /\ h.src \in RewoundFrom /\ {h.dst} \subseteq Behind(h.src)
        /\ \A i \in DOMAIN rewind' : Good(rewind'[i])
    BY <1>1, StackType, StackGood
  <1> HIDE DEF h
  <1>3. QED
    BY <1>1, <1>2, JoinAdds, RewindingWithin

LEMMA VisitedWithin ==
  ASSUME TypeInv, MembersBound, UsesInv, AimInv, TaskInv, FactsWithin, RewindVisited
  PROVE  UsesInv' /\ AimInv' /\ TaskInv' /\ FactsWithin'
  <1> DEFINE h == Head(rewind)
  <1>1. Rewinding /\ Rewind /\ state' = state /\ rewind' = Tail(rewind)
    BY DEF RewindVisited, Rewind
  <1>2. /\ h.src \in Pairs(prog) /\ h.src \in RewoundFrom /\ {h.dst} \subseteq Behind(h.src)
        /\ \A i \in DOMAIN rewind' : Good(rewind'[i])
    BY <1>1, StackType, StackGood
  <1> HIDE DEF h
  <1>3. QED
    BY <1>1, <1>2, RewindingWithin

LEMMA InterleaveElements ==
  ASSUME prog \in Programs, NEW S \in SUBSET Pairs(prog), NEW s \in Orders(S), NEW src,
         NEW i \in DOMAIN Interleave(src, s)
  PROVE  \E e \in S : Interleave(src, s)[i] \in {Task(src, e, "write"), Task(e, e, "visit")}
  <1>1. IsFiniteSet(S)
    BY PairsFinite, FS_Subset
  <1>2. Cardinality(S) \in Nat /\ s \in [1..Cardinality(S) -> S]
    BY <1>1, FS_CardinalityType DEF Orders
  <1>3. Len(s) = Cardinality(S) /\ i \in 1..(2 * Len(s))
    BY <1>2 DEF Interleave
  <1> DEFINE e == s[(i + 1) \div 2]
  <1>4. (i + 1) \div 2 \in 1..Len(s)
    BY <1>2, <1>3
  <1>5. e \in S
    BY <1>2, <1>3, <1>4
  <1> HIDE DEF e
  <1>6. Interleave(src, s)[i] = IF i % 2 = 1 THEN Task(src, e, "write") ELSE Task(e, e, "visit")
    BY <1>3 DEF Interleave, e
  <1>7. QED
    BY <1>5, <1>6

LEMMA StorageWithin ==
  ASSUME TypeInv, MembersBound, UsesInv, AimInv, TaskInv, FactsWithin, RewindStorage
  PROVE  UsesInv' /\ AimInv' /\ TaskInv' /\ FactsWithin'
  <1> DEFINE h == Head(rewind)
             x == h.dst[2]
             a == Strip(h.dst[1])
             this == IF a \in DOMAIN prog.this THEN prog.this[a] ELSE {}
             dsts == {<<a, x>>} \cup (UNION {{A} \X ContextsOf(prog.fun[A]) : A \in this})
  <1>1. /\ Rewinding /\ Rewind /\ Join(h.src, dsts)
        /\ \E s \in Orders(Passed(a, x)) : rewind' = Interleave(h.src, s) \o Tail(rewind)
    BY DEF RewindStorage, Rewind
  <1>2. /\ h.src \in Pairs(prog) /\ h.src \in RewoundFrom /\ h.dst \in Behind(h.src)
        /\ \A i \in DOMAIN Tail(rewind) : Good(Tail(rewind)[i])
        /\ Tail(rewind) \in Seq(TaskSet)
    BY <1>1, StackType, StackGood
  <1>3. BehindStep(h.dst) \subseteq Behind(h.src)
    BY <1>2, BehindFacts DEF TypeInv
  <1>4. dsts \subseteq BehindStep(h.dst)
    BY DEF BehindStep
  <1>5. Passed(a, x) \subseteq BehindStep(h.dst) /\ Passed(a, x) \subseteq RewoundFrom
    BY <1>2, PassedBehind, RewoundPassed DEF TypeInv
  <1>6. PICK s \in Orders(Passed(a, x)) : rewind' = Interleave(h.src, s) \o Tail(rewind)
    BY <1>1
  <1>7. Passed(a, x) \in SUBSET Pairs(prog)
    BY PassedType DEF TypeInv
  <1> HIDE DEF h, x, a, dsts
  <1>8. ASSUME NEW i \in DOMAIN Interleave(h.src, s) PROVE Good(Interleave(h.src, s)[i])
    <2>1. PICK e \in Passed(a, x) : Interleave(h.src, s)[i] \in {Task(h.src, e, "write"), Task(e, e, "visit")}
      BY <1>7, <1>8, InterleaveElements DEF TypeInv
    <2>2. e \in Behind(h.src) /\ e \in RewoundFrom /\ e \in Behind(e)
      BY <1>3, <1>5, <1>7, BehindFacts DEF TypeInv
    <2>3. Good(Task(h.src, e, "write")) /\ Good(Task(e, e, "visit"))
      BY <1>2, <2>2 DEF Good, Task
    <2>4. QED
      BY <2>1, <2>3
  <1>9. Interleave(h.src, s) \in Seq(TaskSet)
    BY <1>2, <1>7, InterleaveType DEF TypeInv
  <1>10. \A i \in DOMAIN rewind' : Good(rewind'[i])
    <2> SUFFICES ASSUME NEW i \in DOMAIN rewind' PROVE Good(rewind'[i])
      OBVIOUS
    <2> DEFINE p == Interleave(h.src, s)
               q == Tail(rewind)
    <2>1. \/ i \in DOMAIN p /\ (p \o q)[i] = p[i]
          \/ i - Len(p) \in DOMAIN q /\ (p \o q)[i] = q[i - Len(p)]
      <3> HIDE DEF p, q
      <3>1. p \in Seq(TaskSet) /\ q \in Seq(TaskSet) /\ i \in DOMAIN (p \o q)
        BY <1>2, <1>6, <1>9 DEF p, q
      <3>2. QED
        BY <3>1, ConcatElements
    <2>2. QED
      BY <1>2, <1>6, <1>8, <2>1
  <1>11. dsts \subseteq Behind(h.src)
    BY <1>3, <1>4
  <1>12. QED
    BY <1>1, <1>2, <1>10, <1>11, JoinAdds, RewindingWithin

LEMMA ValueWithin ==
  ASSUME TypeInv, MembersBound, UsesInv, AimInv, TaskInv, FactsWithin, RewindValue
  PROVE  UsesInv' /\ AimInv' /\ TaskInv' /\ FactsWithin'
  <1> DEFINE h == Head(rewind)
             x == h.dst[2]
             a == Strip(h.dst[1])
             behind == [i \in DOMAIN Back(a) |-> Task(h.src, <<Back(a)[i], x>>, "visit")]
             own == <<Task(h.src, <<a, x>>, "write")>>
             rest == Tail(rewind)
  <1>1. /\ Rewinding /\ Rewind /\ rewind' = behind \o own \o rest
        /\ state' = state /\ prog.kind[a] \notin Storage
    BY DEF RewindValue, Rewind
  <1>2. /\ h.src \in Pairs(prog) /\ h.src \in RewoundFrom /\ h.dst \in Behind(h.src)
        /\ h.dst[1] \in Values(prog) /\ x \in Contexts(prog)
        /\ \A i \in DOMAIN rest : Good(rest[i])
        /\ rest \in Seq(TaskSet)
    BY <1>1, StackType, StackGood
  <1>3. BehindStep(h.dst) \subseteq Behind(h.src)
    BY <1>2, BehindFacts DEF TypeInv
  <1>4. /\ <<a, x>> \in BehindStep(h.dst)
        /\ \A i \in DOMAIN Back(a) : <<Back(a)[i], x>> \in BehindStep(h.dst)
    BY <1>1 DEF BehindStep
  <1>5. a \in Values(prog) /\ Back(a) \in Seq(Values(prog))
    BY <1>2, StripType, BackType DEF TypeInv
  <1> HIDE DEF h, x, a, rest
  <1>6. \A i \in DOMAIN behind : Good(behind[i])
    BY <1>2, <1>3, <1>4 DEF Good, Task
  <1>7. Good(own[1]) /\ DOMAIN own = {1}
    BY <1>2, <1>3, <1>4 DEF Good, Task
  <1>8. behind \in Seq(TaskSet)
    <2>1. \A i \in DOMAIN Back(a) : Task(h.src, <<Back(a)[i], x>>, "visit") \in TaskSet
      BY <1>2, <1>5 DEF Task, TaskSet, Pairs
    <2>2. DOMAIN Back(a) = 1..Len(Back(a)) /\ Len(Back(a)) \in Nat
      BY <1>5
    <2>3. \A n \in Nat : \A q \in [1..n -> TaskSet] : q \in Seq(TaskSet)
      OBVIOUS
    <2>4. behind \in [1..Len(Back(a)) -> TaskSet]
      BY <2>1, <2>2
    <2>5. QED
      BY <2>2, <2>3, <2>4
  <1>9. own \in Seq(TaskSet)
    BY <1>2, <1>5 DEF Task, TaskSet, Pairs
  <1> HIDE DEF behind, own
  <1>10. behind \o own \in Seq(TaskSet)
    BY <1>8, <1>9
  <1>11. ASSUME NEW i \in DOMAIN (behind \o own) PROVE Good((behind \o own)[i])
    <2>1. \/ i \in DOMAIN behind /\ (behind \o own)[i] = behind[i]
          \/ i - Len(behind) \in DOMAIN own /\ (behind \o own)[i] = own[i - Len(behind)]
      BY <1>8, <1>9, <1>11, ConcatElements
    <2>2. QED
      BY <1>6, <1>7, <2>1
  <1>12. \A i \in DOMAIN rewind' : Good(rewind'[i])
    <2> SUFFICES ASSUME NEW i \in DOMAIN rewind' PROVE Good(rewind'[i])
      OBVIOUS
    <2> DEFINE mine == behind \o own
    <2>1. rewind' = mine \o rest /\ mine \in Seq(TaskSet)
      BY <1>1, <1>10
    <2> HIDE DEF mine
    <2>2. \/ i \in DOMAIN mine /\ (mine \o rest)[i] = mine[i]
          \/ i - Len(mine) \in DOMAIN rest /\ (mine \o rest)[i] = rest[i - Len(mine)]
      BY <1>2, <2>1, ConcatElements
    <2>3. \A k \in DOMAIN mine : Good(mine[k])
      BY <1>11 DEF mine
    <2>4. QED
      BY <1>2, <2>1, <2>2, <2>3
  <1>13. QED
    BY <1>1, <1>2, <1>12, RewindingWithin

LEMMA DequeueWithin ==
  ASSUME TypeInv, MembersBound, FactsWithin, Dequeue
  PROVE  UsesInv' /\ AimInv' /\ TaskInv' /\ FactsWithin'
  <1>1. PICK d \in worklist : cur' = d /\ uses' = Users(prog, d[1])
    BY DEF Dequeue
  <1>2. UNCHANGED <<prog, state>> /\ jobs' = {} /\ rewind' = << >>
    BY DEF Dequeue, Idle
  <1>3. GraphGrows
    BY GraphStep DEF Next
  <1>4. UsesInv'
    BY <1>1, <1>2 DEF UsesInv, Users, Operands, Calls
  <1>5. AimInv' /\ TaskInv'
    BY <1>2 DEF AimInv, TaskInv
  <1>6. FactsWithin'
    BY <1>2, <1>3, FactsStayWithin
  <1>7. QED
    BY <1>4, <1>5, <1>6

(* Between the contexts of a value and the single one.                     *)
LEMMA CopyWithin ==
  ASSUME prog.insensitive, NEW C, Sealed(C), NEW e \in C, NEW y \in Contexts(prog)
  PROVE  <<e[1], y>> \in C
  <1>1. <<e[1], y>> \in SingleCopies(e)
    BY DEF SingleCopies
  <1>2. <<e[1], y>> \in EngineFlows(e)
    BY <1>1, EngineParts DEF EngineHasParts
  <1>3. QED
    BY <1>2 DEF Sealed

MergeIdle == phase = "merge" => Idle /\ (~prog.insensitive => todo = {})

LEMMA MergeIdleStep ==
  ASSUME MergeIdle, [Next]_vars
  PROVE  MergeIdle'
  BY DEF MergeIdle, Idle, Next, MergeContext, Merged, Dequeue, Use, UseConstant, UseFindsContexts,
     UseIgnored, UseStore, UseExtern, UseBinaryOp, UseMerge, UseOther, UseArgument, UsePointer, UseReturn,
     Take, Propagate, Rewind, RewindWrite, RewindVisited, RewindStorage, RewindValue, Rewinding,
     Finish, vars

LEMMA MergeContextWithin ==
  ASSUME TypeInv, MembersBound, MergeIdle, UsesInv, FactsWithin, MergeContext
  PROVE  UsesInv' /\ AimInv' /\ TaskInv' /\ FactsWithin'
  <1> DEFINE vs(x) == {v \in Values(prog) : <<v, x>> \in known}
  <1>1. PICK y \in todo :
          state' = [e \in Pairs(prog) |->
                      IF e[2] = SINGLE /\ e[1] \in vs(y) THEN state[<<e[1], y>>] ELSE state[e]]
    BY DEF MergeContext
  <1>2. /\ UNCHANGED <<prog, cur, uses>> /\ jobs' = {} /\ rewind' = << >>
        /\ prog.insensitive /\ y \in Contexts(prog)
    BY <1>1 DEF MergeContext, MergeIdle, Idle, TypeInv, TypeOK
  <1>3. GraphGrows
    BY GraphStep DEF Next
  <1>4. UsesInv' /\ AimInv' /\ TaskInv'
    BY <1>2 DEF UsesInv, Users, Operands, Calls, AimInv, TaskInv
  <1>5. FactsWithin'
    <2> SUFFICES ASSUME NEW x \in Facts, NEW C \in SUBSET Pairs(prog), Within(x, C),
                        \A d \in Pairs(prog) : x \in state[d] => d \in C,
                        NEW e \in Pairs(prog), x \in state'[e]
                 PROVE  e \in C
      BY <1>3, FactsStayWithin
    <2> HIDE DEF vs
    <2>1. CASE e[2] = SINGLE /\ e[1] \in vs(y)
      <3>1. <<e[1], y>> \in Pairs(prog) /\ e = <<e[1], SINGLE>> /\ SINGLE \in Contexts(prog)
        BY <1>2, <2>1 DEF Pairs, Contexts
      <3>2. <<e[1], y>> \in C
        BY <1>1, <2>1, <3>1
      <3>3. QED
        BY <1>2, <3>1, <3>2, CopyWithin DEF Within
    <2>2. CASE ~(e[2] = SINGLE /\ e[1] \in vs(y))
      BY <1>1, <2>2
    <2>3. QED
      BY <2>1, <2>2
  <1>6. QED
    BY <1>4, <1>5

LEMMA FinishWithin ==
  ASSUME TypeInv, MembersBound, UsesInv, FactsWithin, Finish
  PROVE  UsesInv' /\ AimInv' /\ TaskInv' /\ FactsWithin'
  <1> DEFINE copied == {e \in Values(prog) \X AllContexts(prog) :
                          prog.insensitive /\ <<e[1], SINGLE>> \in known}
  <1>1. state' = [e \in Pairs(prog) |-> IF e \in copied THEN state[<<e[1], SINGLE>>] ELSE state[e]]
    BY DEF Finish
  <1>2. UNCHANGED <<prog, cur, uses>> /\ jobs' = {} /\ rewind' = << >>
    BY DEF Finish, Idle
  <1>3. GraphGrows
    BY GraphStep DEF Next
  <1>4. UsesInv' /\ AimInv' /\ TaskInv'
    BY <1>2 DEF UsesInv, Users, Operands, Calls, AimInv, TaskInv
  <1>5. FactsWithin'
    <2> SUFFICES ASSUME NEW x \in Facts, NEW C \in SUBSET Pairs(prog), Within(x, C),
                        \A d \in Pairs(prog) : x \in state[d] => d \in C,
                        NEW e \in Pairs(prog), x \in state'[e]
                 PROVE  e \in C
      BY <1>3, FactsStayWithin
    <2>0. e \in copied => prog.insensitive
      OBVIOUS
    <2> HIDE DEF copied
    <2>1. CASE e \in copied
      <3>1. <<e[1], SINGLE>> \in Pairs(prog) /\ e = <<e[1], e[2]>> /\ e[2] \in Contexts(prog)
        BY DEF Pairs, Contexts
      <3>2. <<e[1], SINGLE>> \in C
        BY <1>1, <2>1, <3>1
      <3>3. QED
        BY <2>0, <2>1, <3>1, <3>2, CopyWithin DEF Within
    <2>2. CASE e \notin copied
      BY <1>1, <2>2
    <2>3. QED
      BY <2>1, <2>2
  <1>6. QED
    BY <1>4, <1>5

StrayInv ==
  /\ TypeInv /\ MembersBound /\ MergeIdle /\ CallersInv
  /\ UsesInv /\ AimInv /\ TaskInv /\ FactsWithin

LEMMA StrayInit == Init => StrayInv
  <1> SUFFICES ASSUME Init PROVE StrayInv
    OBVIOUS
  <1>1. TypeInv
    BY InitType
  <1>2. MembersBound /\ MergeIdle /\ CallersInv
    BY DEF Init, MembersBound, MergeIdle, Idle, CallersInv
  <1>3. UsesInv /\ AimInv /\ TaskInv
    BY DEF Init, UsesInv, AimInv, TaskInv
  <1>4. FactsWithin
    <2> SUFFICES ASSUME NEW x \in Facts, NEW C, Within(x, C), NEW e \in Pairs(prog), x \in state[e]
                 PROVE  e \in C
      BY DEF FactsWithin
    <2>1. state[e] = IF e \in DOMAIN prog.seed THEN prog.seed[e] ELSE {}
      BY DEF Init
    <2>2. QED
      BY <2>1 DEF Within, SeededWith
  <1>5. QED
    BY <1>1, <1>2, <1>3, <1>4 DEF StrayInv

LEMMA StrayStep == StrayInv /\ [Next]_vars => StrayInv'
  <1> SUFFICES ASSUME StrayInv, [Next]_vars PROVE StrayInv'
    OBVIOUS
  <1>1. TypeInv /\ TypeInv' /\ MembersBound
    BY TypeStep DEF StrayInv
  <1>2. MembersBound' /\ MergeIdle' /\ CallersInv'
    BY GraphStep, MergeIdleStep, CallersStep DEF StrayInv
  <1> SUFFICES UsesInv' /\ AimInv' /\ TaskInv' /\ FactsWithin'
    BY <1>1, <1>2 DEF StrayInv
  <1>3. MergeIdle /\ CallersInv /\ UsesInv /\ AimInv /\ TaskInv /\ FactsWithin
    BY DEF StrayInv
  <1>4. CASE MergeContext
    BY <1>1, <1>3, <1>4, MergeContextWithin
  <1>5. CASE Dequeue
    BY <1>1, <1>3, <1>5, DequeueWithin
  <1>6. CASE Use
    BY <1>1, <1>3, <1>6, UseWithin
  <1>7. CASE Propagate
    BY <1>1, <1>3, <1>7, PropagateWithin
  <1>8. CASE Rewind
    BY <1>1, <1>3, <1>8, WriteWithin, VisitedWithin, StorageWithin, ValueWithin DEF Rewind
  <1>9. CASE Finish
    BY <1>1, <1>3, <1>9, FinishWithin
  <1>10. CASE Merged \/ UNCHANGED vars
    <2>1. UNCHANGED <<prog, callees, members, state, cur, uses, jobs, rewind>>
      BY <1>10 DEF Merged, vars, graphVars
    <2>2. GraphGrows
      BY <1>1, GraphStep
    <2>3. UsesInv'
      BY <1>3, <2>1 DEF UsesInv, Users, Operands, Calls
    <2>4. FactsWithin'
      BY <1>1, <1>3, <2>1, <2>2, FactsStayWithin
    <2>5. AimInv'
      <3>1. \A k \in jobs' : Aimed(k)'
        BY <1>1, <1>3, <2>1, <2>2, AimGrows DEF AimInv, TypeInv, TypeOK
      <3>2. QED
        BY <3>1 DEF AimInv
    <2>6. TaskInv'
      <3> SUFFICES ASSUME NEW i \in DOMAIN rewind'
                   PROVE  (rewind[i].src \in RewoundFrom /\ rewind[i].dst \in Behind(rewind[i].src))'
        BY DEF TaskInv
      <3>1. PICK t : t = rewind'[i]
        OBVIOUS
      <3>2. Good(t)
        BY <1>3, <2>1, <3>1 DEF TaskInv, Good
      <3>3. Good(t)'
        BY <1>1, <2>2, <3>2, GoodGrows
      <3>4. QED
        BY <3>1, <3>3 DEF Good
    <2>7. QED
      BY <2>3, <2>4, <2>5, <2>6
  <1>11. QED
    BY <1>4, <1>5, <1>6, <1>7, <1>8, <1>9, <1>10 DEF Next

(* What is derived from the seeds is sealed.                               *)
LEMMA DerivedSealed ==
  ASSUME TypeInv, NEW x
  PROVE  Within(x, Derived(x))
  <1> DEFINE succ == [e \in Pairs(prog) |-> EngineFlows(e)]
  <1>1. succ \in [Pairs(prog) -> SUBSET Pairs(prog)]
    BY EngineFlowsType
  <1>2. SeededWith(x) \in SUBSET Pairs(prog)
    BY ProgramsAssumption DEF TypeInv, WellFormed, AnalysisWellFormed, SeededWith
  <1>3. IsFiniteSet(Pairs(prog))
    BY PairsFinite DEF TypeInv
  <1>4. Derived(x) = Closure(SeededWith(x), succ)
    BY DEF Derived, SeededWith
  <1>5. \A e \in Pairs(prog) : succ[e] = EngineFlows(e)
    OBVIOUS
  <1> HIDE DEF succ
  <1>6. Derived(x) = Least(SeededWith(x), succ)
    BY <1>1, <1>2, <1>3, <1>4, ClosureIsLeast
  <1>7. /\ SeededWith(x) \subseteq Derived(x) /\ Derived(x) \in SUBSET Pairs(prog)
        /\ ClosedIn(Derived(x), succ)
    BY <1>1, <1>2, <1>6, LeastFacts
  <1>8. QED
    BY <1>5, <1>7 DEF Within, Sealed, ClosedIn

LEMMA NotStray == StrayInv => NoSpuriousFact
  <1> SUFFICES ASSUME StrayInv, NEW x \in Facts, NEW e \in Pairs(prog), x \in state[e]
               PROVE  e \in Derived(x)
    BY DEF NoSpuriousFact
  <1>1. Within(x, Derived(x)) /\ Derived(x) \in SUBSET Pairs(prog)
    BY DerivedSealed DEF StrayInv, Within, Sealed
  <1>2. QED
    BY <1>1 DEF StrayInv, FactsWithin

(* An analysis, whether it joins or meets, has no fact that the seeds and  *)
(* the flows of the program and of the engine do not explain.              *)
THEOREM NothingStray == Spec => []NoSpuriousFact
  BY StrayInit, StrayStep, NotStray, PTL DEF Spec

-----------------------------------------------------------------------------
(***************************************************************************)
(* Targets: a call that was in its context from the start has the targets  *)
(* that its pointer's facts say, or the pointer is still to be processed;  *)
(* and what was added for a call came with the facts of its pointer.       *)
(***************************************************************************)
Pending(u, x) == <<prog.called[u], x>> \in worklist \/ (cur = <<prog.called[u], x>> /\ u \in uses)

Targeted(u, x) ==
  FromTheStart(u, x) /\ <<prog.called[u], x>> \notin prog.silent =>
    \/ Pending(u, x)
    \/ state[<<prog.called[u], x>>] \cap prog.fits[prog.called[u]] \subseteq callees[<<u, x>>]

PointersInv ==
  /\ \A x \in Domains(prog) : MembersIn(prog.graph, x) \subseteq members[x]
  /\ prog.tracking => \A u \in Calls(prog) \ prog.extern : \A x \in Domains(prog) : Targeted(u, x)

AddedInv ==
  \A u \in Calls(prog) : \A x \in Contexts(prog) : \A f \in callees[<<u, x>>] \ prog.graph[<<u, x>>] :
    /\ f \in prog.fits[prog.called[u]]
    /\ \A C \in SUBSET Pairs(prog) : Within(f, C) => <<prog.called[u], x>> \in C

LEMMA CalledPairs ==
  ASSUME TypeInv, NEW u \in Calls(prog), NEW x \in Contexts(prog)
  PROVE  /\ <<prog.called[u], x>> \in Pairs(prog) /\ u \in Users(prog, prog.called[u])
         /\ <<u, x>> \in Calls(prog) \X Contexts(prog)
         /\ prog.kind[u] = "call"
  <1>1. CallsWellFormed(prog)
    BY ProgramsAssumption DEF TypeInv, WellFormed
  <1>2. u \in DOMAIN prog.ops /\ prog.kind[u] = "call" /\ prog.called[u] \in Values(prog)
    BY <1>1 DEF CallsWellFormed
  <1>3. QED
    BY <1>2 DEF Users, Pairs

LEMMA PointersInit == Init => PointersInv /\ AddedInv
  <1> SUFFICES ASSUME Init PROVE PointersInv /\ AddedInv
    OBVIOUS
  <1>1. TypeInv
    BY InitType
  <1>2. \A x \in Domains(prog) : MembersIn(prog.graph, x) \subseteq members[x]
    BY DEF Init
  <1>3. ASSUME NEW u \in Calls(prog) \ prog.extern, NEW x \in Domains(prog) PROVE Targeted(u, x)
    <2> SUFFICES ASSUME FromTheStart(u, x), <<prog.called[u], x>> \notin prog.silent, ~Pending(u, x)
                 PROVE  state[<<prog.called[u], x>>] = {}
      BY DEF Targeted
    <2> DEFINE e == <<prog.called[u], x>>
    <2>1. e \in Pairs(prog)
      BY <1>1, CalledPairs DEF Contexts, AllContexts
    <2> HIDE DEF e
    <2>2. e \notin worklist /\ ~prog.insensitive /\ e \notin prog.silent
      BY DEF Pending, FromTheStart, e
    <2>3. e \notin DOMAIN prog.seed
      BY <2>2 DEF Init
    <2>4. state[e] = {}
      BY <2>1, <2>3 DEF Init
    <2>5. QED
      BY <2>4 DEF e
  <1>4. AddedInv
    BY DEF Init, AddedInv
  <1>5. QED
    BY <1>2, <1>3, <1>4 DEF PointersInv

(* What a step other than a call through the pointer does to a target.     *)
LEMMA TargetedStays ==
  ASSUME TypeInv, GraphGrows, NEW u \in Calls(prog), NEW x \in Domains(prog), Targeted(u, x),
         Pending(u, x) => Pending(u, x)',
         \/ state'[<<prog.called[u], x>>] \subseteq state[<<prog.called[u], x>>]
         \/ <<prog.called[u], x>> \in worklist'
  PROVE  Targeted(u, x)'
  <1>1. prog' = prog /\ FromTheStart(u, x)' = FromTheStart(u, x)
    BY DEF GraphGrows, FromTheStart, MembersIn
  <1>2. callees[<<u, x>>] \subseteq callees'[<<u, x>>]
    BY DEF GraphGrows, Contexts, AllContexts
  <1> SUFFICES ASSUME FromTheStart(u, x), <<prog.called[u], x>> \notin prog.silent, ~Pending(u, x)'
               PROVE  state'[<<prog.called[u], x>>] \cap prog.fits[prog.called[u]] \subseteq callees'[<<u, x>>]
    BY <1>1 DEF Targeted
  <1>3. <<prog.called[u], x>> \notin worklist'
    BY <1>1 DEF Pending
  <1>4. state[<<prog.called[u], x>>] \cap prog.fits[prog.called[u]] \subseteq callees[<<u, x>>]
    BY DEF Targeted
  <1>5. QED
    BY <1>2, <1>3, <1>4

(* A user that is done with: if it calls the pointer, its targets are in.  *)
LEMMA UseTargets ==
  ASSUME TypeInv, GraphGrows, Use, prog.tracking, UsesInv, NEW u \in Calls(prog) \ prog.extern,
         NEW x \in Domains(prog), MembersIn(prog.graph, x) \subseteq members[x], Targeted(u, x)
  PROVE  Targeted(u, x)'
  <1>1. /\ UNCHANGED <<prog, cur>> /\ worklist \subseteq worklist'
        /\ \A e \in Pairs(prog) : state'[e] \subseteq state[e]
    BY UseFacts
  <1>2. <<prog.called[u], x>> \in Pairs(prog) /\ prog.kind[u] = "call" /\ <<u, x>> \in Calls(prog) \X Contexts(prog)
    BY CalledPairs DEF Contexts, AllContexts
  <1>3. CASE cur = <<prog.called[u], x>> /\ u \in uses /\ u \notin uses' /\ FromTheStart(u, x)
    <2>1. cur[1] = prog.called[u] /\ cur[2] = x /\ x # NONE
      <3>1. Boxes(prog) \cap {PRIV, NONE, SINGLE} = {}
        BY ProgramsAssumption DEF TypeInv, WellFormed
      <3>2. QED
        BY <1>3, <3>1 DEF Domains, PRIV, NONE
    <2>2. IsInContext(u, x)
      BY <1>3 DEF FromTheStart, IsInContext, ContextsOf
    <2>3. \A v \in uses : Take(v) /\ u \notin uses' => v = u
      BY <1>3 DEF Take
    <2>4. UsePointer
      <3>1. ~UseConstant /\ ~UseFindsContexts /\ ~UseIgnored
        BY <1>2, <1>3, <2>1, <2>2, <2>3 DEF UseConstant, UseFindsContexts, UseIgnored
      <3>2. ~UseStore /\ ~UseExtern /\ ~UseBinaryOp /\ ~UseMerge
        BY <1>2, <1>3, <2>3 DEF UseStore, UseExtern, UseBinaryOp, UseMerge
      <3>3. ~UseOther /\ ~UseArgument /\ ~UseReturn
        BY <1>2, <1>3, <2>1, <2>3 DEF UseOther, UseArgument, UseReturn
      <3>4. QED
        BY <3>1, <3>2, <3>3 DEF Use
    <2> DEFINE new == state[cur] \cap prog.fits[cur[1]]
    <2>5. /\ callees' = [callees EXCEPT ![<<u, cur[2]>>] = @ \cup new]
          /\ state' = [state EXCEPT ![cur] = new]
      BY <1>3, <2>3, <2>4 DEF UsePointer
    <2>6. new \subseteq callees'[<<u, x>>] /\ state'[<<prog.called[u], x>>] = new
      BY <1>2, <1>3, <2>1, <2>5 DEF TypeInv, TypeOK
    <2>7. QED
      BY <1>1, <2>6 DEF Targeted
  <1>4. CASE ~(cur = <<prog.called[u], x>> /\ u \in uses /\ u \notin uses') /\ FromTheStart(u, x)
    <2>1. Pending(u, x) => Pending(u, x)'
      BY <1>1, <1>4 DEF Pending
    <2>2. QED
      BY <1>1, <1>2, <2>1, TargetedStays
  <1>5. CASE ~FromTheStart(u, x)
    BY <1>1, <1>5 DEF Targeted, FromTheStart, MembersIn
  <1>6. QED
    BY <1>3, <1>4, <1>5

LEMMA PointersStep ==
  ASSUME TypeInv, MembersBound, MergeIdle, UsesInv, PointersInv, [Next]_vars
  PROVE  PointersInv'
  <1>1. GraphGrows
    BY GraphStep
  <1>2. prog' = prog /\ Domains(prog)' = Domains(prog) /\ Calls(prog)' = Calls(prog)
    BY <1>1 DEF GraphGrows, Domains, Boxes, Calls
  <1>3. ASSUME NEW x \in Domains(prog) PROVE MembersIn(prog.graph, x)' \subseteq members'[x]
    <2>1. MembersIn(prog.graph, x)' = MembersIn(prog.graph, x)
      BY <1>2 DEF MembersIn
    <2>2. QED
      BY <1>1, <2>1 DEF PointersInv, GraphGrows
  <1>4. ASSUME prog.tracking, NEW u \in Calls(prog) \ prog.extern, NEW x \in Domains(prog)
        PROVE  Targeted(u, x)'
    <2>1. Targeted(u, x) /\ MembersIn(prog.graph, x) \subseteq members[x]
      BY <1>4 DEF PointersInv
    <2> DEFINE e == <<prog.called[u], x>>
    <2>2. e \in Pairs(prog)
      BY CalledPairs DEF Contexts, AllContexts
    <2>3. state \in [Pairs(prog) -> SUBSET Facts]
      BY DEF TypeInv, TypeOK
    <2>4. CASE prog.insensitive
      BY <1>2, <2>4 DEF Targeted, FromTheStart
    <2>5. CASE Use
      BY <1>1, <1>4, <2>1, <2>5, UseTargets
    <2>6. CASE Dequeue
      <3>1. uses = {} /\ state' = state
        BY <2>6 DEF Dequeue, Idle
      <3>2. PICK d \in worklist : cur' = d /\ worklist' = worklist \ {d} /\ uses' = Users(prog, d[1])
        BY <2>6 DEF Dequeue
      <3>3. Pending(u, x) => Pending(u, x)'
        <4> SUFFICES ASSUME Pending(u, x), e \notin worklist' PROVE cur' = e /\ u \in uses'
          BY <1>2 DEF Pending
        <4>1. e \in worklist
          BY <3>1 DEF Pending
        <4>2. d = e
          BY <3>2, <4>1
        <4>3. QED
          BY <3>2, <4>2, CalledPairs DEF Contexts, AllContexts
      <3>4. QED
        BY <1>1, <2>1, <3>1, <3>3, TargetedStays
    <2>7. CASE Propagate
      <3>1. PICK j \in jobs :
              /\ state' = [state EXCEPT ![j.to] = NewState(j)]
              /\ worklist' = IF Changes(j) \/ j.how = "copy" THEN worklist \cup {j.to} ELSE worklist
        BY <2>7 DEF Propagate
      <3>2. UNCHANGED <<cur, uses>> /\ worklist \subseteq worklist'
        BY <2>7, <3>1 DEF Propagate
      <3>3. Pending(u, x) => Pending(u, x)'
        BY <1>2, <3>2 DEF Pending
      <3>4. state'[e] \subseteq state[e] \/ e \in worklist'
        <4> HIDE DEF e
        <4>1. CASE e # j.to
          BY <2>2, <2>3, <3>1, <4>1
        <4>2. CASE e = j.to /\ NewState(j) # state[e]
          BY <3>1, <4>2 DEF Changes
        <4>3. CASE e = j.to /\ NewState(j) = state[e]
          BY <2>2, <2>3, <3>1, <4>3
        <4>4. QED
          BY <4>1, <4>2, <4>3
      <3>5. QED
        BY <1>1, <2>1, <3>3, <3>4, TargetedStays
    <2>8. CASE Rewind
      <3>1. UNCHANGED <<cur, uses>>
        BY <2>8 DEF Rewind, RewindWrite, RewindVisited, RewindStorage, RewindValue, Rewinding
      <3>2. (state' = state /\ worklist' = worklist) \/ \E src, dsts : Join(src, dsts)
        BY <2>8 DEF Rewind, RewindWrite, RewindVisited, RewindStorage, RewindValue
      <3>3. worklist \subseteq worklist' /\ (state'[e] \subseteq state[e] \/ e \in worklist')
        <4>1. CASE state' = state /\ worklist' = worklist
          BY <4>1
        <4>2. ASSUME NEW src, NEW dsts, Join(src, dsts)
              PROVE  worklist \subseteq worklist' /\ (state'[e] \subseteq state[e] \/ e \in worklist')
          <5> HIDE DEF e
          <5>1. /\ state' = [d \in Pairs(prog) |-> IF d \in dsts THEN state[d] \cup state[src] ELSE state[d]]
                /\ worklist' = worklist \cup {d \in dsts : d \notin known \/ ~(state[src] \subseteq state[d])}
            BY <4>2 DEF Join
          <5>2. QED
            BY <2>2, <5>1
        <4>3. QED
          BY <3>2, <4>1, <4>2
      <3>4. Pending(u, x) => Pending(u, x)'
        BY <1>2, <3>1, <3>3 DEF Pending
      <3>5. QED
        BY <1>1, <2>1, <3>3, <3>4, TargetedStays
    <2>9. CASE ~prog.insensitive /\ (MergeContext \/ Merged \/ Finish \/ UNCHANGED vars)
      <3>1. UNCHANGED <<worklist, cur, uses>> /\ state'[e] = state[e]
        <4>1. ~MergeContext
          BY <2>9 DEF MergeContext, MergeIdle
        <4>2. CASE Finish
          <5>1. state' = [d \in Pairs(prog) |->
                            IF d \in {c \in Values(prog) \X AllContexts(prog) :
                                        prog.insensitive /\ <<c[1], SINGLE>> \in known}
                            THEN state[<<d[1], SINGLE>>] ELSE state[d]]
            BY <4>2 DEF Finish
          <5>2. state'[e] = state[e]
            BY <2>2, <2>9, <5>1
          <5>3. QED
            BY <4>2, <5>2 DEF Finish
        <4>3. CASE Merged \/ UNCHANGED vars
          BY <4>3 DEF Merged, vars
        <4>4. QED
          BY <2>9, <4>1, <4>2, <4>3
      <3>2. Pending(u, x) => Pending(u, x)'
        BY <1>2, <3>1 DEF Pending
      <3>3. QED
        BY <1>1, <2>1, <3>1, <3>2, TargetedStays
    <2>10. QED
      BY <2>4, <2>5, <2>6, <2>7, <2>8, <2>9 DEF Next
  <1>5. QED
    BY <1>2, <1>3, <1>4 DEF PointersInv

LEMMA AddedStep ==
  ASSUME TypeInv, MembersBound, FactsWithin, AddedInv, [Next]_vars
  PROVE  AddedInv'
  <1>1. GraphGrows
    BY GraphStep
  <1>2. /\ prog' = prog /\ Calls(prog)' = Calls(prog) /\ Contexts(prog)' = Contexts(prog)
        /\ Pairs(prog)' = Pairs(prog)
    BY <1>1 DEF GraphGrows, Contexts, AllContexts, Domains, Boxes, Calls, Pairs, Values
  <1> SUFFICES ASSUME NEW u \in Calls(prog), NEW x \in Contexts(prog),
                      NEW f \in callees'[<<u, x>>] \ prog.graph[<<u, x>>]
               PROVE  /\ f \in prog.fits[prog.called[u]]
                      /\ \A C \in SUBSET Pairs(prog) : Within(f, C)' => <<prog.called[u], x>> \in C
    BY <1>2 DEF AddedInv
  <1> SUFFICES /\ f \in prog.fits[prog.called[u]]
               /\ \A C \in SUBSET Pairs(prog) : Within(f, C) => <<prog.called[u], x>> \in C
    BY <1>1, WithinBefore
  <1>3. CASE f \in callees[<<u, x>>]
    BY <1>3 DEF AddedInv
  <1>4. CASE f \notin callees[<<u, x>>]
    <2>1. UsePointer
      <3>1. callees' # callees
        BY <1>4
      <3>2. QED
        BY <3>1 DEF Next, MergeContext, Merged, Dequeue, Use, UseConstant, UseFindsContexts, UseIgnored,
           UseStore, UseExtern, UseBinaryOp, UseMerge, UseOther, UseArgument, UseReturn,
           Propagate, Rewind, RewindWrite, RewindVisited, RewindStorage, RewindValue, Rewinding,
           Finish, vars, graphVars
    <2> DEFINE new == IF prog.tracking THEN state[cur] \cap prog.fits[cur[1]] ELSE {}
    <2>2. PICK c \in uses :
            /\ c \in Calls(prog) /\ prog.called[c] = cur[1]
            /\ callees' = [callees EXCEPT ![<<c, cur[2]>>] = @ \cup new]
      BY <2>1 DEF UsePointer
    <2>3. callees \in [Calls(prog) \X Contexts(prog) -> SUBSET Functions(prog)]
      BY DEF TypeInv, TypeOK
    <2>4. f \in new /\ <<u, x>> = <<c, cur[2]>>
      <3> HIDE DEF new
      <3>1. QED
        BY <1>4, <2>2, <2>3
    <2>5. f \in state[cur] /\ f \in prog.fits[cur[1]] /\ cur = <<prog.called[u], x>> /\ cur \in Pairs(prog)
      <3>1. cur = <<cur[1], cur[2]>> /\ cur \in Pairs(prog)
        BY CurType DEF Pairs
      <3>2. QED
        BY <2>2, <2>4, <3>1
    <2>6. f \in Facts
      BY <2>5 DEF TypeInv, TypeOK
    <2>7. QED
      BY <2>5, <2>6 DEF FactsWithin
  <1>5. QED
    BY <1>3, <1>4

(* In the end nothing is left to be done.                                  *)
EndedInv == Done => Idle /\ worklist = {}

LEMMA EndedStep == EndedInv /\ [Next]_vars => EndedInv'
  BY DEF EndedInv, Done, Idle, Next, MergeContext, Merged, Dequeue, Use, UseConstant, UseFindsContexts,
     UseIgnored, UseStore, UseExtern, UseBinaryOp, UseMerge, UseOther, UseArgument, UsePointer, UseReturn,
     Take, Propagate, Rewind, RewindWrite, RewindVisited, RewindStorage, RewindValue, Rewinding,
     Finish, vars

TargetInv == StrayInv /\ PointersInv /\ AddedInv /\ EndedInv

LEMMA TargetInit == Init => TargetInv
  <1>1. Init => EndedInv
    BY DEF Init, EndedInv, Done
  <1>2. QED
    BY <1>1, StrayInit, PointersInit DEF TargetInv

LEMMA TargetStep == TargetInv /\ [Next]_vars => TargetInv'
  BY StrayStep, PointersStep, AddedStep, EndedStep DEF TargetInv, StrayInv

LEMMA TargetsRight == TargetInv => TargetsExact
  <1> SUFFICES ASSUME TargetInv, Done, prog.tracking, NEW u \in Calls(prog) \ prog.extern, NEW x \in Domains(prog)
               PROVE  LET e == <<prog.called[u], x>>
                      IN /\ FromTheStart(u, x) /\ e \notin prog.silent =>
                               state[e] \cap prog.fits[e[1]] \subseteq callees[<<u, x>>]
                         /\ \A f \in callees[<<u, x>>] \ prog.graph[<<u, x>>] :
                               f \in prog.fits[e[1]] /\ e \in Derived(f)
    BY DEF TargetsExact
  <1>1. Targeted(u, x) /\ TypeInv
    BY DEF TargetInv, PointersInv, StrayInv
  <1>2. ~Pending(u, x)
    BY DEF TargetInv, EndedInv, Idle, Pending
  <1>3. x \in Contexts(prog)
    BY DEF Contexts, AllContexts
  <1>4. \A f : Within(f, Derived(f)) /\ Derived(f) \in SUBSET Pairs(prog)
    BY <1>1, DerivedSealed DEF Within, Sealed
  <1>5. QED
    BY <1>1, <1>2, <1>3, <1>4 DEF Targeted, TargetInv, AddedInv

(* The analysis of function pointers records what its facts say: the calls *)
(* that its contexts had from the start get every function of a compatible *)
(* type that is known of their pointer, and no call gets another one.      *)
THEOREM TargetsAsDerived == Spec => []TargetsExact
  BY TargetInit, TargetStep, TargetsRight, PTL DEF Spec

-----------------------------------------------------------------------------
(***************************************************************************)
(* Meets: a must analysis that keeps contexts apart has a merge, parameter *)
(* or result t settled for each e that comes in by way of a user u: it     *)
(* knows nothing of t that it does not know of e, or e is still to be      *)
(* processed, or u is to be looked at for e, or t is about to be set.      *)
(***************************************************************************)
MustCase == prog.must /\ ~prog.insensitive /\ NoRepeatedArguments

Free(t) == ~Given(t[1], t[2])

ByMerge(t, e, u) ==
  /\ u = t[1] /\ u \in Instructions(prog) /\ IsInContext(u, t[2])
  /\ prog.kind[u] \in {"phi", "select"} /\ e[1] \in Operands(prog, u)

ByArgument(t, e, u) ==
  /\ u \in Calls(prog) /\ IsInContext(u, t[2])
  /\ \E f \in callees[<<u, t[2]>>] \cap Defined(prog) :
        OneContext(f) /\ \E i \in DOMAIN prog.ops[u] : t[1] \in Formal(f, i) /\ e[1] = prog.ops[u][i]

ByResult(t, e, u) ==
  /\ t[1] \in Calls(prog) /\ IsInContext(t[1], t[2])
  /\ u \in DOMAIN prog.ops /\ prog.kind[u] = "ret" /\ e[1] \in Operands(prog, u)
  /\ prog.fun[u] \in callees[t] /\ OneContext(prog.fun[u])

Owes(t, e, u) ==
  /\ t \in Values(prog) \X Domains(prog) /\ e \in Values(prog) \X Domains(prog) /\ e[2] = t[2]
  /\ ByMerge(t, e, u) \/ ByArgument(t, e, u) \/ ByResult(t, e, u)

(* The call graph is the one that the analysis was given.                  *)
StaticInv ==
  ~prog.tracking => /\ callees = prog.graph
                    /\ members = [x \in Domains(prog) |-> MembersIn(prog.graph, x)]

LEMMA StaticStep == TypeInv /\ StaticInv /\ [Next]_vars => StaticInv'
  <1> SUFFICES ASSUME TypeInv, StaticInv, [Next]_vars PROVE StaticInv'
    OBVIOUS
  <1>0. ASSUME UNCHANGED <<prog, callees, members>> PROVE StaticInv'
    <2>1. \A g, x : MembersIn(g, x)' = MembersIn(g', x)
      BY <1>0 DEF MembersIn
    <2>2. Domains(prog)' = Domains(prog) /\ prog.graph' = prog.graph
      BY <1>0 DEF Domains, Boxes
    <2>3. QED
      BY <1>0, <2>1, <2>2 DEF StaticInv
  <1>1. CASE UsePointer
    <2> SUFFICES ASSUME ~prog.tracking PROVE UNCHANGED <<prog, callees, members>>
      BY <1>0, <1>1 DEF UsePointer, StaticInv
    <2>1. PICK u : callees' = [callees EXCEPT ![<<u, cur[2]>>] = @ \cup {}] /\ Refresh(cur[2])
      BY <1>1 DEF UsePointer
    <2>2. callees' = callees
      BY <2>1 DEF TypeInv, TypeOK
    <2>3. members' = members
      BY <2>1, <2>2 DEF Refresh, TypeInv, TypeOK
    <2>4. QED
      BY <1>1, <2>2, <2>3 DEF UsePointer
  <1>2. CASE ~UsePointer
    <2>1. UNCHANGED <<prog, callees, members>>
      BY <1>2 DEF Next, MergeContext, Merged, Dequeue, Use, UseConstant, UseFindsContexts, UseIgnored,
         UseStore, UseExtern, UseBinaryOp, UseMerge, UseOther, UseArgument, UseReturn,
         Propagate, Rewind, RewindWrite, RewindVisited, RewindStorage, RewindValue, Rewinding,
         Finish, vars, graphVars
    <2>2. QED
      BY <1>0, <2>1
  <1>3. QED
    BY <1>1, <1>2

(* A must analysis does not track pointers: its graph stays.               *)
LEMMA MustKeepsGraph ==
  ASSUME TypeInv, StaticInv, prog.must
  PROVE  /\ ~prog.tracking /\ callees = prog.graph
         /\ \A x \in Domains(prog) : members[x] = MembersIn(callees, x)
  <1>1. ~prog.tracking
    BY ProgramsAssumption DEF TypeInv, WellFormed, AnalysisWellFormed
  <1>2. QED
    BY <1>1 DEF StaticInv

LEMMA ReachClosed ==
  ASSUME NEW F, NEW succ, NEW start, NEW f \in Reach(F, succ, start), NEW g \in succ[f], g \in F
  PROVE  g \in Reach(F, succ, start)
  BY DEF Reach, ClosedUnder

(* What a function calls in its context, and is no entry point, is there.  *)
LEMMA CalleesAreMembers ==
  ASSUME TypeInv, StaticInv, MustCase, NEW x \in Domains(prog), NEW d \in Calls(prog), IsInContext(d, x),
         NEW f \in callees[<<d, x>>], f \notin EntryPoints(prog)
  PROVE  x \in ContextsOf(f)
  <1> DEFINE own == IF x \in Boxes(prog) THEN prog.entry[x] ELSE {}
             foreign == EntryPoints(prog) \ own
             callsOf(h) == {c \in Calls(prog) : prog.fun[c] = h}
             succ == [h \in Functions(prog) |-> (UNION {callees[<<c, x>>] : c \in callsOf(h)}) \ foreign]
             start == IF x = PRIV THEN prog.main \ foreign ELSE own
  <1>1. members[x] = Reach(Functions(prog), succ, start)
    BY MustKeepsGraph DEF MustCase, MembersIn, MembersOf
  <1>2. prog.fun[d] \in members[x]
    BY DEF IsInContext, ContextsOf, MustCase
  <1>3. /\ callees \in [Calls(prog) \X Contexts(prog) -> SUBSET Functions(prog)]
        /\ members \in [Domains(prog) -> SUBSET Functions(prog)]
    BY DEF TypeInv, TypeOK
  <1>4. f \in Functions(prog) /\ prog.fun[d] \in Functions(prog)
    BY <1>2, <1>3 DEF Contexts, AllContexts
  <1>5. f \in succ[prog.fun[d]]
    <2>1. f \in UNION {callees[<<c, x>>] : c \in callsOf(prog.fun[d])}
      OBVIOUS
    <2>2. f \notin foreign
      OBVIOUS
    <2> HIDE DEF callsOf, foreign
    <2>3. QED
      BY <1>4, <2>1, <2>2
  <1> HIDE DEF succ, start
  <1>6. f \in members[x]
    BY <1>1, <1>2, <1>4, <1>5, ReachClosed
  <1>7. QED
    BY <1>6 DEF ContextsOf, MustCase

LEMMA DomainsAreContexts ==
  ASSUME TypeInv
  PROVE  /\ Domains(prog) \subseteq Contexts(prog) /\ NONE \notin Domains(prog)
         /\ NONE \in Contexts(prog)
         /\ Values(prog) \X Domains(prog) \subseteq Pairs(prog)
  <1>1. Boxes(prog) \cap {PRIV, NONE, SINGLE} = {}
    BY ProgramsAssumption DEF TypeInv, WellFormed
  <1>2. QED
    BY <1>1 DEF Domains, Contexts, AllContexts, Pairs, PRIV, NONE

(* Functions that are not crossed into run in the context of the call.     *)
LEMMA SameContext ==
  ASSUME MustCase, NEW f, OneContext(f)
  PROVE  /\ \A x : CalleeContext(x, f) = x
         /\ \A x, d : CallerContexts(f, d, x) = {x}
         /\ f \notin EntryPoints(prog)
  BY DEF OneContext, Crossing, CalleeContext, CallerContexts, MustCase

(* The kinds of formals.                                                   *)
LEMMA FormalKinds ==
  ASSUME TypeInv, NEW f \in Defined(prog), NEW i, NEW a \in Formal(f, i)
  PROVE  /\ prog.kind[a] \in {"arg", "alloca"} /\ prog.fun[a] = f
         /\ prog.kind[a] = "arg" <=> i \in DOMAIN prog.param[f]
         /\ a \in Values(prog)
  <1>1. FunctionsWellFormed(prog)
    BY ProgramsAssumption DEF TypeInv, WellFormed
  <1>2. CASE i \in DOMAIN prog.param[f]
    BY <1>1, <1>2, FormalType DEF FunctionsWellFormed, Formal, TypeInv
  <1>3. CASE i \notin DOMAIN prog.param[f]
    BY <1>1, <1>3, FormalType DEF FunctionsWellFormed, Formal, TypeInv
  <1>4. QED
    BY <1>2, <1>3

(* The user by way of which something comes in is a user of it, there.     *)
LEMMA OwesUser ==
  ASSUME TypeInv, StaticInv, MustCase, NEW t, NEW e, NEW u, Owes(t, e, u)
  PROVE  /\ u \in Users(prog, e[1]) /\ u \in Instructions(prog) /\ IsInContext(u, e[2])
         /\ e[2] # NONE /\ u \notin prog.extern /\ u \in DOMAIN prog.ops
         /\ t \in Pairs(prog) /\ e \in Pairs(prog)
         /\ ByMerge(t, e, u) => prog.kind[u] \in {"phi", "select"}
         /\ ByArgument(t, e, u) => prog.kind[u] = "call"
         /\ ByResult(t, e, u) => prog.kind[u] = "ret"
  <1>1. /\ ValuesWellFormed(prog) /\ CallsWellFormed(prog) /\ FunctionsWellFormed(prog)
        /\ prog.graph = callees
    BY ProgramsAssumption, MustKeepsGraph DEF TypeInv, WellFormed, MustCase
  <1>2. /\ e[2] \in Domains(prog) /\ e[2] # NONE /\ e[2] = t[2] /\ e[2] \in Contexts(prog)
        /\ t \in Pairs(prog) /\ e \in Pairs(prog) /\ t = <<t[1], t[2]>>
    BY DomainsAreContexts DEF Owes
  <1> DEFINE user == /\ u \in Users(prog, e[1]) /\ u \in Instructions(prog) /\ IsInContext(u, e[2])
                     /\ u \notin prog.extern /\ u \in DOMAIN prog.ops
  <1>3. ASSUME ByMerge(t, e, u) PROVE user /\ prog.kind[u] \in {"phi", "select"}
    <2>1. prog.kind[u] \in {"phi", "select"} /\ u \in Values(prog)
      BY <1>2, <1>3 DEF ByMerge, Pairs
    <2>2. u \in DOMAIN prog.ops /\ u \notin prog.extern
      BY <1>1, <2>1 DEF ValuesWellFormed, CallsWellFormed
    <2>3. QED
      BY <1>2, <1>3, <2>1, <2>2 DEF ByMerge, Users
  <1>4. ASSUME ByArgument(t, e, u) PROVE user /\ prog.kind[u] = "call"
    <2>1. u \in Calls(prog) /\ u \in DOMAIN prog.ops /\ prog.kind[u] = "call" /\ IsInContext(u, e[2])
      BY <1>1, <1>2, <1>4 DEF ByArgument, CallsWellFormed
    <2>2. u \in Instructions(prog)
      BY <1>1, <2>1 DEF ValuesWellFormed
    <2>3. PICK f \in callees[<<u, t[2]>>] \cap Defined(prog) : \E i \in DOMAIN prog.ops[u] : e[1] = prog.ops[u][i]
      BY <1>4 DEF ByArgument
    <2>4. u \notin prog.extern
      BY <1>1, <1>2, <2>3 DEF FunctionsWellFormed
    <2>5. e[1] \in Operands(prog, u)
      BY <2>3 DEF Operands
    <2>6. QED
      BY <1>2, <2>1, <2>2, <2>4, <2>5 DEF Users
  <1>5. ASSUME ByResult(t, e, u) PROVE user /\ prog.kind[u] = "ret"
    <2>1. /\ u \in DOMAIN prog.ops /\ prog.kind[u] = "ret" /\ e[1] \in Operands(prog, u)
          /\ t[1] \in Calls(prog) /\ IsInContext(t[1], t[2])
          /\ prog.fun[u] \in callees[t] /\ OneContext(prog.fun[u])
      BY <1>5 DEF ByResult
    <2>2. u \in Instructions(prog) /\ u \notin prog.extern
      BY <1>1, <2>1 DEF ValuesWellFormed, CallsWellFormed
    <2>3. e[2] \in ContextsOf(prog.fun[u])
      <3>1. prog.fun[u] \in callees[<<t[1], e[2]>>]
        BY <1>2, <2>1
      <3>2. QED
        BY <1>2, <2>1, <3>1, SameContext, CalleesAreMembers
    <2>4. QED
      BY <1>2, <2>1, <2>2, <2>3 DEF Users, IsInContext
  <1>6. QED
    BY <1>2, <1>3, <1>4, <1>5 DEF Owes

(***************************************************************************)
(* What a user asks for: of each kind, that what comes in is taken into    *)
(* account, and that nothing else is done to what is owed to.              *)
(***************************************************************************)
Serves(j) ==
  /\ j.to[2] = NONE => prog.kind[j.to[1]] = "constant"
  /\ \A e, u : Free(j.to) /\ Owes(j.to, e, u) =>
       \/ j.how = "set" /\ e \in j.from
       \/ j.how = "copy" /\ j.from = {<<j.to[1], NONE>>}

Served(u) ==
  \A t : Free(t) /\ Owes(t, cur, u) => \E j \in jobs' : j.to = t /\ j.how = "set"

MustAsks(u) == uses' = uses \ {u} /\ Served(u) /\ \A j \in jobs' : Serves(j)

(* What is remembered of a function's callers is what they were in one     *)
(* context.                                                                *)
FoundIn(f, x) == {e \in Callers(f, x) \X Contexts(prog) : e[2] \in ContextsOf(prog.fun[e[1]])}

RememberedInv ==
  MustCase => \A f \in DOMAIN inContextCallers :
    \E x \in Contexts(prog) : Callers(f, x) # {} /\ inContextCallers[f] = FoundIn(f, x)

MustFlow == TypeInv /\ StaticInv /\ MustCase /\ UsesInv /\ RememberedInv

LEMMA RewoundGiven ==
  ASSUME TypeInv, NEW s \in RewoundFrom, NEW d \in Behind(s)
  PROVE  ~Free(d) /\ ~Free(s)
  <1>1. s \in Pairs(prog) /\ s \in Behind(s) /\ d \in Pairs(prog)
    BY RewoundType, BehindFacts DEF TypeInv
  <1>2. s = <<s[1], s[2]>> /\ d = <<d[1], d[2]>>
    BY <1>1 DEF Pairs
  <1>3. s \in UNION {Behind(e) : e \in RewoundFrom} /\ d \in UNION {Behind(e) : e \in RewoundFrom}
    BY <1>1
  <1>4. QED
    BY <1>2, <1>3 DEF Free, Given

(* What is owed to, and by way of what.                                    *)
LEMMA OwedKinds ==
  ASSUME TypeInv, StaticInv, MustCase, NEW t, NEW e, NEW u, Owes(t, e, u)
  PROVE  /\ \/ ByMerge(t, e, u) /\ prog.kind[t[1]] \in {"phi", "select"}
            \/ ByArgument(t, e, u) /\ prog.kind[t[1]] \in {"arg", "alloca"}
            \/ ByResult(t, e, u) /\ prog.kind[t[1]] = "call"
         /\ t[1] \notin prog.extern /\ t[2] # NONE
  <1>1. CallsWellFormed(prog) /\ FunctionsWellFormed(prog) /\ prog.graph = callees
    BY ProgramsAssumption, MustKeepsGraph DEF TypeInv, WellFormed, MustCase
  <1>2. t \in Values(prog) \X Domains(prog) /\ t[2] # NONE /\ t = <<t[1], t[2]>> /\ t[2] \in Contexts(prog)
    BY DomainsAreContexts DEF Owes
  <1>3. \A c \in prog.extern : prog.kind[c] = "call"
    BY <1>1 DEF CallsWellFormed
  <1>4. ASSUME ByMerge(t, e, u) PROVE prog.kind[t[1]] \in {"phi", "select"} /\ t[1] \notin prog.extern
    BY <1>3, <1>4 DEF ByMerge
  <1>5. ASSUME ByArgument(t, e, u) PROVE prog.kind[t[1]] \in {"arg", "alloca"} /\ t[1] \notin prog.extern
    BY <1>3, <1>5, FormalKinds DEF ByArgument
  <1>6. ASSUME ByResult(t, e, u) PROVE prog.kind[t[1]] = "call" /\ t[1] \notin prog.extern
    <2>1. t[1] \in Calls(prog) /\ prog.fun[u] \in callees[t] /\ u \in DOMAIN prog.ops /\ prog.kind[u] = "ret"
      BY <1>6 DEF ByResult
    <2>2. prog.kind[t[1]] = "call"
      BY <1>1, <2>1 DEF CallsWellFormed
    <2>3. prog.fun[u] \in Defined(prog)
      <3>1. u \in DOMAIN prog.fun
        BY <2>1, ProgramsAssumption DEF TypeInv, WellFormed, ValuesWellFormed, Instructions
      <3>2. QED
        BY <3>1, ProgramShape DEF TypeInv
    <2>4. QED
      BY <1>1, <1>2, <2>1, <2>2, <2>3 DEF FunctionsWellFormed
  <1>7. QED
    BY <1>2, <1>4, <1>5, <1>6 DEF Owes

LEMMA NotOwed ==
  ASSUME TypeInv, StaticInv, MustCase, NEW j,
         j.to[2] = NONE => prog.kind[j.to[1]] = "constant",
         \/ prog.kind[j.to[1]] \notin {"phi", "select", "arg", "alloca", "call"}
         \/ j.to[1] \in prog.extern \/ ~Free(j.to)
  PROVE  Serves(j)
  BY OwedKinds DEF Serves

LEMMA HereContext ==
  ASSUME MustFlow, NEW u \in uses, Here(u)
  PROVE  /\ cur[2] \in Domains(prog) /\ cur[2] # NONE /\ cur[2] \in Contexts(prog)
         /\ cur = <<cur[1], cur[2]>>
         /\ prog.kind[u] # "constant" /\ u \in DOMAIN prog.ops
  <1>1. cur[2] \in Domains(prog)
    BY DEF Here, IsInContext, ContextsOf, MustFlow, MustCase
  <1>2. cur = <<cur[1], cur[2]>>
    BY CurType DEF MustFlow, Pairs
  <1>3. QED
    BY <1>1, <1>2, DomainsAreContexts, KindsOfUsers, UsesType DEF Here, MustFlow

LEMMA ConstantServes ==
  ASSUME MustFlow, UseConstant
  PROVE  \E u \in uses : MustAsks(u)
  <1>1. PICK u \in uses :
          Take(u) /\ prog.kind[u] = "constant" /\ jobs' = {Job({cur}, <<u, cur[2]>>, "add")}
    BY DEF UseConstant
  <1>2. Served(u)
    BY <1>1, OwesUser, KindsOfUsers DEF Served, MustFlow
  <1>3. PICK j : j = Job({cur}, <<u, cur[2]>>, "add")
    OBVIOUS
  <1>4. Serves(j)
    <2>1. j.to = <<u, cur[2]>>
      BY <1>3, JobFields
    <2>2. QED
      BY <1>1, <2>1, NotOwed DEF MustFlow
  <1>5. QED
    BY <1>1, <1>2, <1>3, <1>4 DEF MustAsks, Take

LEMMA FindsContextsServes ==
  ASSUME MustFlow, UseFindsContexts
  PROVE  \E u \in uses : MustAsks(u)
  <1>1. PICK u \in uses :
          /\ Take(u) /\ cur[2] = NONE
          /\ jobs' = {Job({cur}, <<cur[1], x>>, "copy") : x \in ContextsOf(prog.fun[u])}
    BY DEF UseFindsContexts
  <1>2. Served(u)
    BY <1>1, OwesUser DEF Served, MustFlow
  <1>3. cur = <<cur[1], NONE>>
    BY <1>1, CurType DEF MustFlow, Pairs
  <1>4. ASSUME NEW j \in jobs' PROVE Serves(j)
    <2>1. PICK x \in ContextsOf(prog.fun[u]) : j = Job({cur}, <<cur[1], x>>, "copy")
      BY <1>1
    <2>2. j.from = {<<cur[1], NONE>>} /\ j.to = <<cur[1], x>> /\ j.how = "copy"
      BY <1>3, <2>1, JobFields
    <2>3. x # NONE
      BY DomainsAreContexts DEF MustFlow, ContextsOf, MustCase
    <2>4. QED
      BY <2>2, <2>3 DEF Serves
  <1>5. QED
    BY <1>1, <1>2, <1>4 DEF MustAsks, Take

LEMMA IgnoredServes ==
  ASSUME MustFlow, UseIgnored
  PROVE  \E u \in uses : MustAsks(u)
  <1>1. PICK u \in uses :
          /\ Take(u)
          /\ \/ ~IsInContext(u, cur[2])
             \/ prog.kind[u] = "intrinsic"
             \/ prog.kind[u] = "store"
    BY DEF UseIgnored
  <1>2. jobs' = {}
    BY <1>1 DEF UseIgnored, Take
  <1>3. Served(u)
    <2> SUFFICES ASSUME NEW t, Owes(t, cur, u) PROVE FALSE
      BY DEF Served
    <2>1. IsInContext(u, cur[2]) /\ prog.kind[u] \in {"phi", "select", "call", "ret"}
      BY OwesUser DEF MustFlow, Owes
    <2>2. QED
      BY <1>1, <2>1
  <1>4. QED
    BY <1>1, <1>2, <1>3 DEF MustAsks, Take

LEMMA StoreServes ==
  ASSUME MustFlow, UseStore
  PROVE  \E u \in uses : MustAsks(u)
  <1>1. PICK u \in uses :
          /\ Take(u) /\ Here(u) /\ prog.kind[u] = "store"
          /\ jobs' = {[Job({cur}, <<prog.ops[u][2], cur[2]>>, "pass")
                         EXCEPT !.back = prog.kind[prog.ops[u][2]] = "gep"]}
    BY DEF UseStore
  <1>2. Served(u)
    <2> SUFFICES ASSUME NEW t, Owes(t, cur, u) PROVE FALSE
      BY DEF Served
    <2>1. prog.kind[u] \in {"phi", "select", "call", "ret"}
      BY OwesUser DEF MustFlow, Owes
    <2>2. QED
      BY <1>1, <2>1
  <1>3. PICK j : jobs' = {j} /\ j.to = <<prog.ops[u][2], cur[2]>>
    <2> DEFINE b == prog.kind[prog.ops[u][2]] = "gep"
               j == [Job({cur}, <<prog.ops[u][2], cur[2]>>, "pass") EXCEPT !.back = b]
    <2>1. jobs' = {j}
      BY <1>1
    <2> HIDE DEF b
    <2>2. j.to = <<prog.ops[u][2], cur[2]>>
      BY JobFields
    <2> HIDE DEF j
    <2>3. QED
      BY <2>1, <2>2
  <1>4. j.to \in RewoundFrom
    <2>1. prog.ops[u][2] \in StoredTo
      BY <1>1, UsesType DEF StoredTo, MustFlow
    <2>2. QED
      BY <1>3, <2>1, CurType DEF RewoundFrom, MustFlow
  <1>5. ~Free(j.to)
    BY <1>4, RewoundGiven, RewoundType, BehindFacts DEF MustFlow, TypeInv
  <1>6. Serves(j)
    BY <1>1, <1>3, <1>5, HereContext, NotOwed DEF MustFlow
  <1>7. QED
    BY <1>1, <1>2, <1>3, <1>6 DEF MustAsks, Take

LEMMA ExternServes ==
  ASSUME MustFlow, UseExtern
  PROVE  \E u \in uses : MustAsks(u)
  <1>1. PICK u \in uses :
          /\ Take(u) /\ Here(u) /\ u \in prog.extern
          /\ jobs' = {[Job({cur}, <<r, cur[2]>>, "pass") EXCEPT !.back = r # u] :
                        r \in ExternResult(u, cur[1])}
    BY DEF UseExtern
  <1>2. Served(u)
    BY <1>1, OwesUser DEF Served, MustFlow
  <1> DEFINE job(r) == [Job({cur}, <<r, cur[2]>>, "pass") EXCEPT !.back = r # u]
  <1>3. \A r : job(r).to = <<r, cur[2]>>
    <2> SUFFICES ASSUME NEW r PROVE job(r).to = <<r, cur[2]>>
      OBVIOUS
    <2> DEFINE b == r # u
    <2> HIDE DEF b
    <2>1. [Job({cur}, <<r, cur[2]>>, "pass") EXCEPT !.back = b].to = <<r, cur[2]>>
      BY JobFields
    <2>2. QED
      BY <2>1, Zenon DEF b
  <1>4. jobs' = {job(r) : r \in ExternResult(u, cur[1])}
    BY <1>1
  <1> HIDE DEF job
  <1>5. ASSUME NEW r \in ExternResult(u, cur[1]) PROVE Serves(job(r))
    <2>1. r \in prog.extern \/ r \in StoredTo
      BY <1>1, ExternBack DEF MustFlow
    <2>2. r \in StoredTo => <<r, cur[2]>> \in RewoundFrom
      BY CurType DEF RewoundFrom, MustFlow
    <2>3. r \in prog.extern \/ ~Free(<<r, cur[2]>>)
      BY <2>1, <2>2, RewoundGiven, RewoundType, BehindFacts DEF MustFlow, TypeInv
    <2>4. QED
      BY <1>1, <1>3, <2>3, HereContext, NotOwed DEF MustFlow
  <1>6. QED
    BY <1>1, <1>2, <1>4, <1>5 DEF MustAsks, Take

LEMMA BinaryOpServes ==
  ASSUME MustFlow, UseBinaryOp
  PROVE  \E u \in uses : MustAsks(u)
  <1>1. PICK u \in uses : Take(u) /\ Here(u) /\ prog.kind[u] = "binop"
    BY DEF UseBinaryOp
  <1>2. jobs' = {}
    BY <1>1 DEF UseBinaryOp, Take
  <1>3. Served(u)
    <2> SUFFICES ASSUME NEW t, Owes(t, cur, u) PROVE FALSE
      BY DEF Served
    <2>1. prog.kind[u] \in {"phi", "select", "call", "ret"}
      BY OwesUser DEF MustFlow, Owes
    <2>2. QED
      BY <1>1, <2>1
  <1>4. QED
    BY <1>1, <1>2, <1>3 DEF MustAsks, Take

LEMMA MergeServes ==
  ASSUME MustFlow, UseMerge
  PROVE  \E u \in uses : MustAsks(u)
  <1>1. PICK u \in uses :
          /\ Take(u) /\ Here(u) /\ prog.kind[u] \in {"phi", "select"}
          /\ jobs' = {Job({<<v, cur[2]>> : v \in Operands(prog, u)}, <<u, cur[2]>>, "set")}
    BY DEF UseMerge, MustFlow, MustCase
  <1>2. PICK j : /\ jobs' = {j} /\ j.from = {<<v, cur[2]>> : v \in Operands(prog, u)}
                 /\ j.to = <<u, cur[2]>> /\ j.how = "set"
    <2> DEFINE from == {<<v, cur[2]>> : v \in Operands(prog, u)}
               j == Job(from, <<u, cur[2]>>, "set")
    <2>1. jobs' = {j}
      BY <1>1
    <2> HIDE DEF from
    <2>2. j.from = from /\ j.to = <<u, cur[2]>> /\ j.how = "set"
      BY JobFields
    <2> HIDE DEF j
    <2>3. QED
      BY <2>1, <2>2 DEF from
  <1>3. Served(u)
    <2> SUFFICES ASSUME NEW t, Owes(t, cur, u) PROVE t = <<u, cur[2]>>
      BY <1>2 DEF Served
    <2>1. ByMerge(t, cur, u) /\ t \in Pairs(prog) /\ cur[2] = t[2]
      BY <1>1, OwesUser DEF MustFlow, Owes
    <2>2. QED
      BY <2>1 DEF ByMerge, Pairs
  <1>4. Serves(j)
    <2> SUFFICES ASSUME NEW e, NEW w, Owes(j.to, e, w) PROVE e \in j.from
      BY <1>1, <1>2, HereContext DEF Serves
    <2>1. ByMerge(j.to, e, w) /\ e[2] = cur[2]
      BY <1>1, <1>2, OwedKinds DEF MustFlow, Owes
    <2>2. e = <<e[1], e[2]>>
      BY DEF Owes
    <2>3. e[1] \in Operands(prog, u)
      BY <1>2, <2>1 DEF ByMerge
    <2>4. QED
      BY <1>2, <2>1, <2>2, <2>3
  <1>5. QED
    BY <1>1, <1>2, <1>3, <1>4 DEF MustAsks, Take

LEMMA OtherServes ==
  ASSUME MustFlow, UseOther
  PROVE  \E u \in uses : MustAsks(u)
  <1>1. PICK u \in uses :
          /\ Take(u) /\ Here(u) /\ prog.kind[u] \in {"annot", "gep", "load", "other"}
          /\ jobs' = {Job({cur}, <<u, cur[2]>>, "pass")}
    BY DEF UseOther
  <1>2. PICK j : jobs' = {j} /\ j.to = <<u, cur[2]>>
    BY <1>1, JobFields
  <1>3. Served(u)
    <2> SUFFICES ASSUME NEW t, Owes(t, cur, u) PROVE FALSE
      BY DEF Served
    <2>1. prog.kind[u] \in {"phi", "select", "call", "ret"}
      BY OwesUser DEF MustFlow, Owes
    <2>2. QED
      BY <1>1, <2>1
  <1>4. Serves(j)
    BY <1>1, <1>2, HereContext, NotOwed DEF MustFlow
  <1>5. QED
    BY <1>1, <1>2, <1>3, <1>4 DEF MustAsks, Take

(* The callers that are found are those of the one context.                *)
LEMMA OneCaller ==
  ASSUME TypeInv, NEW f, OneContext(f), NEW x \in Contexts(prog), NEW y \in Contexts(prog),
         Callers(f, x) # {}, Callers(f, y) # {}
  PROVE  x = y
  <1> DEFINE S == {z \in Contexts(prog) : Callers(f, z) # {}}
  <1>1. IsFiniteSet(Contexts(prog))
    <2>1. IsFiniteSet(Boxes(prog))
      BY ProgramsAssumption DEF TypeInv, WellFormed
    <2>2. IsFiniteSet({PRIV}) /\ IsFiniteSet({NONE}) /\ IsFiniteSet({SINGLE})
      BY FS_Singleton
    <2>3. IsFiniteSet(AllContexts(prog))
      BY <2>1, <2>2, FS_Union DEF Domains, AllContexts
    <2>4. QED
      BY <2>2, <2>3, FS_Union DEF Contexts
  <1>2. IsFiniteSet(S) /\ x \in S /\ y \in S
    BY <1>1, FS_Subset
  <1>3. Cardinality(S) <= 1
    BY DEF OneContext
  <1> HIDE DEF S
  <1>4. IsFiniteSet({x}) /\ Cardinality({x}) = 1
    BY FS_Singleton
  <1>5. Cardinality({x}) = Cardinality(S)
    BY <1>2, <1>3, <1>4, FS_Subset, FS_CardinalityType
  <1>6. S = {x}
    BY <1>2, <1>5, FS_Subset
  <1>7. QED
    BY <1>2, <1>6

LEMMA CallerIsFound ==
  ASSUME MustFlow, NEW f, OneContext(f), NEW x \in Domains(prog), NEW d \in Calls(prog),
         IsInContext(d, x), f \in callees[<<d, x>>]
  PROVE  <<d, x>> \in CallersFound(f, x)
  <1>1. x \in Contexts(prog) /\ d \in Callers(f, x)
    BY DomainsAreContexts DEF Callers, MustFlow
  <1>2. <<d, x>> \in FoundIn(f, x)
    BY <1>1 DEF FoundIn, IsInContext
  <1>3. CASE f \in DOMAIN inContextCallers
    <2>1. PICK y \in Contexts(prog) : Callers(f, y) # {} /\ inContextCallers[f] = FoundIn(f, y)
      BY <1>3 DEF MustFlow, RememberedInv
    <2>2. y = x
      BY <1>1, <2>1, OneCaller DEF MustFlow
    <2>3. QED
      BY <1>2, <1>3, <2>1, <2>2 DEF CallersFound
  <1>4. CASE f \notin DOMAIN inContextCallers
    BY <1>2, <1>4 DEF CallersFound, FoundIn
  <1>5. QED
    BY <1>3, <1>4

(* What is passed for a parameter is among what is met for it.             *)
LEMMA ActualIsMet ==
  ASSUME MustFlow, NEW f \in Defined(prog), OneContext(f), NEW x \in Domains(prog), NEW d \in Calls(prog),
         IsInContext(d, x), f \in callees[<<d, x>>],
         NEW i, NEW k \in DOMAIN prog.ops[d], NEW a \in Formal(f, i), a \in Formal(f, k)
  PROVE  <<prog.ops[d][k], x>> \in Actuals(f, x, i)
  <1> DEFINE args(c) == IF i \in DOMAIN prog.param[f] THEN {i} \cap DOMAIN prog.ops[c]
                        ELSE DOMAIN prog.ops[c] \ DOMAIN prog.param[f]
             ds == {g[1] : g \in {h \in CallersFound(f, x) : h[2] = x}}
             passed(c) == {<<prog.ops[c][n], x>> : n \in args(c)}
  <1>1. Actuals(f, x, i) = UNION {passed(c) : c \in ds}
    BY DEF Actuals
  <1>2. d \in ds
    <2>1. PICK g \in CallersFound(f, x) : g = <<d, x>>
      BY CallerIsFound
    <2>2. QED
      BY <2>1
  <1>3. i \in DOMAIN prog.param[f] <=> k \in DOMAIN prog.param[f]
    BY FormalKinds DEF MustFlow
  <1>4. k \in args(d)
    <2>1. CASE i \in DOMAIN prog.param[f]
      <3>1. prog.param[f][i] = a /\ prog.param[f][k] = a
        BY <1>3, <2>1 DEF Formal
      <3>2. FunctionsWellFormed(prog)
        BY ProgramsAssumption DEF MustFlow, TypeInv, WellFormed
      <3>3. k = i
        BY <1>3, <2>1, <3>1, <3>2 DEF FunctionsWellFormed
      <3>4. QED
        BY <2>1, <3>3
    <2>2. CASE i \notin DOMAIN prog.param[f]
      BY <1>3, <2>2
    <2>3. QED
      BY <2>1, <2>2
  <1>5. <<prog.ops[d][k], x>> \in passed(d)
    BY <1>4
  <1> HIDE DEF ds, passed
  <1>6. QED
    BY <1>1, <1>2, <1>5

(* What a must analysis asks for at a call.                                *)
LEMMA CalleeJobsMust ==
  ASSUME prog.must, NEW u, NEW fs, NEW is
  PROVE  /\ \A j \in CalleeJobs(u, fs, is) :
              \E f \in fs : \E i \in is : \E a \in Formal(f, i) :
                /\ j.to = <<a, CalleeContext(cur[2], f)>>
                /\ j.from = Actuals(f, cur[2], i) /\ j.how = "set"
         /\ \A f \in fs : \A i \in is : \A a \in Formal(f, i) \cap Values(prog) :
              \E j \in CalleeJobs(u, fs, is) :
                j.to = <<a, CalleeContext(cur[2], f)>> /\ j.how = "set"
  <1> DEFINE job(z) == Job(Actuals(z[1], cur[2], z[2]), <<z[3], CalleeContext(cur[2], z[1])>>, "set")
             zs == {w \in fs \X is \X Values(prog) : w[3] \in Formal(w[1], w[2])}
  <1>1. CalleeJobs(u, fs, is) = {job(z) : z \in zs}
    BY DEF CalleeJobs
  <1>2. \A z : /\ job(z).to = <<z[3], CalleeContext(cur[2], z[1])>>
               /\ job(z).from = Actuals(z[1], cur[2], z[2]) /\ job(z).how = "set"
    BY JobFields
  <1>3. \A z \in zs : z[1] \in fs /\ z[2] \in is /\ z[3] \in Formal(z[1], z[2])
    OBVIOUS
  <1>4. ASSUME NEW f \in fs, NEW i \in is, NEW a \in Formal(f, i) \cap Values(prog)
        PROVE  \E z \in zs : z[1] = f /\ z[2] = i /\ z[3] = a
    <2>1. <<f, i, a>> \in zs
      OBVIOUS
    <2> HIDE DEF zs
    <2>2. QED
      BY <2>1
  <1> HIDE DEF job, zs
  <1>5. ASSUME NEW j \in CalleeJobs(u, fs, is)
        PROVE  \E f \in fs : \E i \in is : \E a \in Formal(f, i) :
                 /\ j.to = <<a, CalleeContext(cur[2], f)>>
                 /\ j.from = Actuals(f, cur[2], i) /\ j.how = "set"
    <2>1. PICK z \in zs : j = job(z)
      BY <1>1, <1>5
    <2>2. QED
      BY <1>2, <1>3, <2>1
  <1>6. ASSUME NEW f \in fs, NEW i \in is, NEW a \in Formal(f, i) \cap Values(prog)
        PROVE  \E j \in CalleeJobs(u, fs, is) :
                 j.to = <<a, CalleeContext(cur[2], f)>> /\ j.how = "set"
    <2>1. PICK z \in zs : z[1] = f /\ z[2] = i /\ z[3] = a
      BY <1>4
    <2>2. job(z) \in CalleeJobs(u, fs, is)
      BY <1>1
    <2>3. QED
      BY <1>2, <2>1, <2>2
  <1>7. QED
    BY <1>5, <1>6

LEMMA CallServes ==
  ASSUME MustFlow, NEW u \in uses, Here(u), u \in Calls(prog), NEW fs, NEW is,
         fs = callees[<<u, cur[2]>>] \cap Defined(prog),
         jobs' = CalleeJobs(u, fs, is), Positions(u, cur[1]) \subseteq is
  PROVE  Served(u) /\ \A j \in jobs' : Serves(j)
  <1>1. prog.must
    BY DEF MustFlow, MustCase
  <1>2. cur[2] \in Domains(prog) /\ cur[2] # NONE
    BY HereContext
  <1>3. Served(u)
    <2> SUFFICES ASSUME NEW t, Owes(t, cur, u) PROVE \E j \in jobs' : j.to = t /\ j.how = "set"
      BY DEF Served
    <2>1. ByArgument(t, cur, u) /\ t \in Pairs(prog) /\ cur[2] = t[2]
      BY KindsOfUsers, OwesUser DEF MustFlow, Owes
    <2>2. PICK f \in fs : OneContext(f) /\ \E i \in DOMAIN prog.ops[u] : t[1] \in Formal(f, i) /\ cur[1] = prog.ops[u][i]
      BY <2>1 DEF ByArgument
    <2>3. PICK i \in DOMAIN prog.ops[u] : t[1] \in Formal(f, i) /\ cur[1] = prog.ops[u][i]
      BY <2>2
    <2>4. i \in is /\ t[1] \in Values(prog)
      BY <2>1, <2>3 DEF Positions, Pairs
    <2>5. t = <<t[1], CalleeContext(cur[2], f)>>
      BY <2>1, <2>2, SameContext DEF MustFlow, Pairs
    <2>6. QED
      BY <1>1, <2>2, <2>3, <2>4, <2>5, CalleeJobsMust
  <1>4. ASSUME NEW j \in jobs' PROVE Serves(j)
    <2>1. PICK f \in fs : \E i \in is : \E a \in Formal(f, i) :
            /\ j.to = <<a, CalleeContext(cur[2], f)>>
            /\ j.from = Actuals(f, cur[2], i) /\ j.how = "set"
      BY <1>1, CalleeJobsMust
    <2>2. PICK i \in is : \E a \in Formal(f, i) :
            /\ j.to = <<a, CalleeContext(cur[2], f)>>
            /\ j.from = Actuals(f, cur[2], i) /\ j.how = "set"
      BY <2>1
    <2>3. PICK a \in Formal(f, i) :
            /\ j.to = <<a, CalleeContext(cur[2], f)>>
            /\ j.from = Actuals(f, cur[2], i) /\ j.how = "set"
      BY <2>2
    <2>4. f \in Defined(prog) /\ prog.kind[a] \in {"arg", "alloca"} /\ prog.fun[a] = f
      BY <2>1, FormalKinds DEF MustFlow
    <2>5. j.to[2] # NONE
      <3>1. CalleeContext(cur[2], f) \in Domains(prog)
        BY <1>2 DEF CalleeContext, EntryPoints, Domains, MustFlow, MustCase
      <3>2. QED
        BY <2>3, <3>1, DomainsAreContexts DEF MustFlow
    <2>6. ASSUME NEW e, NEW w, Owes(j.to, e, w) PROVE e \in j.from
      <3>1. ByArgument(j.to, e, w) /\ e = <<e[1], e[2]>> /\ e[2] = j.to[2]
        BY <2>3, <2>4, <2>6, OwedKinds DEF MustFlow, Owes
      <3>2. PICK g \in callees[<<w, j.to[2]>>] \cap Defined(prog) :
              OneContext(g) /\ \E k \in DOMAIN prog.ops[w] : j.to[1] \in Formal(g, k) /\ e[1] = prog.ops[w][k]
        BY <3>1 DEF ByArgument
      <3>3. PICK k \in DOMAIN prog.ops[w] : a \in Formal(g, k) /\ e[1] = prog.ops[w][k]
        BY <2>3, <3>2
      <3>4. g = f
        BY <2>4, <3>2, <3>3, FormalKinds DEF MustFlow
      <3>5. j.to[2] = cur[2]
        BY <2>3, <3>2, <3>4, SameContext DEF MustFlow
      <3>6. w \in Calls(prog) /\ IsInContext(w, cur[2]) /\ f \in callees[<<w, cur[2]>>]
        BY <3>1, <3>2, <3>4, <3>5 DEF ByArgument
      <3>7. <<prog.ops[w][k], cur[2]>> \in Actuals(f, cur[2], i)
        BY <1>2, <2>3, <2>4, <3>2, <3>3, <3>4, <3>6, ActualIsMet
      <3>8. QED
        BY <2>3, <3>1, <3>3, <3>5, <3>7
    <2>7. QED
      BY <2>3, <2>5, <2>6 DEF Serves
  <1>5. QED
    BY <1>3, <1>4

LEMMA ArgumentServes ==
  ASSUME MustFlow, UseArgument
  PROVE  \E u \in uses : MustAsks(u)
  <1>1. PICK u \in uses :
          /\ Take(u) /\ Here(u) /\ u \in Calls(prog)
          /\ jobs' = CalleeJobs(u, callees[<<u, cur[2]>>] \cap Defined(prog), FirstPosition(u, cur[1]))
    BY DEF UseArgument
  <1>2. FirstPosition(u, cur[1]) = Positions(u, cur[1])
    BY <1>1, OnePosition DEF MustFlow, MustCase, TypeInv
  <1>3. Served(u) /\ \A j \in jobs' : Serves(j)
    BY <1>1, <1>2, CallServes
  <1>4. QED
    BY <1>1, <1>3 DEF MustAsks, Take

LEMMA PointerServes ==
  ASSUME MustFlow, UsePointer
  PROVE  \E u \in uses : MustAsks(u)
  <1>0. ~prog.tracking
    BY MustKeepsGraph DEF MustFlow, MustCase
  <1>1. PICK u \in uses :
          /\ Take(u) /\ Here(u) /\ u \in Calls(prog)
          /\ jobs' = CalleeJobs(u, (callees[<<u, cur[2]>>] \cup {}) \cap Defined(prog), DOMAIN prog.ops[u])
    BY <1>0 DEF UsePointer
  <1>2. Positions(u, cur[1]) \subseteq DOMAIN prog.ops[u]
    BY DEF Positions
  <1>3. (callees[<<u, cur[2]>>] \cup {}) \cap Defined(prog) = callees[<<u, cur[2]>>] \cap Defined(prog)
    OBVIOUS
  <1>4. Served(u) /\ \A j \in jobs' : Serves(j)
    BY <1>1, <1>2, <1>3, CallServes
  <1>5. QED
    BY <1>1, <1>4 DEF MustAsks, Take

LEMMA ReturnServes ==
  ASSUME MustFlow, UseReturn
  PROVE  \E u \in uses : MustAsks(u)
  <1>1. PICK u \in uses :
          /\ Take(u) /\ Here(u) /\ prog.kind[u] = "ret"
          /\ jobs' = {Job(IF prog.must
                          THEN UNION {Results(g) \X {CalleeContext(z[2], g)} : g \in callees[<<z[1], z[2]>>]}
                          ELSE {cur}, z, IF prog.must THEN "set" ELSE "pass") :
                        z \in {w \in Callers(prog.fun[u], cur[2]) \X Contexts(prog) :
                                 w[2] \in CallerContexts(prog.fun[u], w[1], cur[2])}}
    BY DEF UseReturn
  <1> DEFINE zs == {w \in Callers(prog.fun[u], cur[2]) \X Contexts(prog) :
                      w[2] \in CallerContexts(prog.fun[u], w[1], cur[2])}
             returned(z) == UNION {Results(g) \X {CalleeContext(z[2], g)} : g \in callees[<<z[1], z[2]>>]}
             from(z) == IF prog.must THEN returned(z) ELSE {cur}
             how == IF prog.must THEN "set" ELSE "pass"
             job(z) == Job(from(z), z, how)
  <1>2. jobs' = {job(z) : z \in zs}
    BY <1>1
  <1>3. ASSUME NEW t, Owes(t, cur, u) PROVE t \in zs
    <2>1. ByResult(t, cur, u) /\ cur[2] = t[2] /\ t = <<t[1], t[2]>> /\ t[2] \in Contexts(prog)
      BY <1>1, <1>3, OwesUser, DomainsAreContexts DEF MustFlow, Owes
    <2>2. t[1] \in Callers(prog.fun[u], cur[2])
      BY <2>1 DEF ByResult, Callers
    <2>3. CallerContexts(prog.fun[u], t[1], cur[2]) = {cur[2]}
      BY <2>1, SameContext DEF ByResult, MustFlow
    <2>4. t \in Callers(prog.fun[u], cur[2]) \X Contexts(prog)
      BY <2>1, <2>2
    <2>5. QED
      BY <2>1, <2>3, <2>4
  <1>4. ASSUME NEW z \in zs PROVE z[2] # NONE /\ z = <<z[1], z[2]>>
    <2>1. CallerContexts(prog.fun[u], z[1], cur[2]) \subseteq Domains(prog)
      BY <1>1, HereContext DEF CallerContexts, ContextsOf, MustFlow, MustCase
    <2>2. QED
      BY <2>1, DomainsAreContexts DEF MustFlow
  <1>5. ASSUME NEW z \in zs, NEW e, NEW w, Owes(z, e, w) PROVE e \in returned(z)
    <2>1. z[1] \in Calls(prog)
      BY DEF Callers
    <2>2. prog.kind[z[1]] = "call"
      BY <2>1, ProgramsAssumption DEF MustFlow, TypeInv, WellFormed, CallsWellFormed
    <2>3. ByResult(z, e, w) /\ e = <<e[1], e[2]>> /\ e[2] = z[2]
      BY <1>5, <2>2, OwedKinds DEF MustFlow, Owes
    <2> DEFINE g == prog.fun[w]
    <2>4. g \in callees[<<z[1], z[2]>>] /\ OneContext(g)
      BY <1>4, <2>3 DEF ByResult
    <2>5. e[1] \in Results(g)
      BY <2>3 DEF ByResult, Results
    <2>6. CalleeContext(z[2], g) = z[2]
      BY <2>4, SameContext DEF MustFlow
    <2> HIDE DEF g
    <2>7. e \in Results(g) \X {CalleeContext(z[2], g)}
      BY <2>3, <2>5, <2>6
    <2>8. QED
      BY <2>4, <2>7
  <1> HIDE DEF zs, returned
  <1>0. how = "set" /\ \A z : from(z) = returned(z)
    BY DEF MustFlow, MustCase
  <1> HIDE DEF from, how
  <1>6. \A z : job(z).from = returned(z) /\ job(z).to = z /\ job(z).how = "set"
    BY <1>0, JobFields
  <1> HIDE DEF job
  <1>7. Served(u)
    BY <1>2, <1>3, <1>6 DEF Served
  <1>8. \A z \in zs : Serves(job(z))
    BY <1>4, <1>5, <1>6 DEF Serves
  <1>9. QED
    BY <1>1, <1>2, <1>7, <1>8 DEF MustAsks, Take

LEMMA UseServes ==
  ASSUME MustFlow, Use
  PROVE  \E u \in uses : MustAsks(u)
  BY ConstantServes, FindsContextsServes, IgnoredServes, StoreServes, ExternServes, BinaryOpServes,
     MergeServes, OtherServes, ArgumentServes, PointerServes, ReturnServes DEF Use

-----------------------------------------------------------------------------
(* The invariant.                                                          *)

Settled(t, e, u) ==
  \/ state[t] \subseteq state[e]
  \/ e \in worklist
  \/ cur = e /\ u \in uses
  \/ \E j \in jobs : j.to = t /\ j.how = "set"

(* Without context nothing is known of what is no constant.                *)
Contextless(d) == d \in Pairs(prog) /\ d[2] = NONE /\ prog.kind[d[1]] # "constant" /\ Free(d)

SettledInv == MustCase => \A t, e, u : Free(t) /\ Owes(t, e, u) => Settled(t, e, u)
ServeInv == MustCase => \A j \in jobs : Serves(j)
NothingInv == MustCase => \A d : Contextless(d) => state[d] = {}

MeetInv == SettledInv /\ ServeInv /\ NothingInv

(* In a must analysis, where things come from does not change.             *)
LEMMA MustStays ==
  ASSUME TypeInv, StaticInv, MembersBound, [Next]_vars, MustCase'
  PROVE  /\ MustCase /\ prog' = prog /\ callees' = callees /\ members' = members
         /\ \A t : Free(t)' => Free(t)
         /\ \A t, e, u : Owes(t, e, u)' <=> Owes(t, e, u)
         /\ \A d : Contextless(d)' => Contextless(d)
         /\ \A j : Serves(j) => Serves(j)'
         /\ \A f, x : Callers(f, x)' = Callers(f, x) /\ FoundIn(f, x)' = FoundIn(f, x)
         /\ Contexts(prog)' = Contexts(prog)
  <1>1. GraphGrows /\ prog' = prog
    BY GraphStep DEF GraphGrows
  <1>2. MustCase
    BY <1>1 DEF MustCase, NoRepeatedArguments, Calls, Operands
  <1>3. callees' = callees /\ members' = members
    <2>1. ~prog.tracking
      BY <1>2, MustKeepsGraph DEF MustCase
    <2>2. StaticInv'
      BY StaticStep
    <2>3. \A g, x : MembersIn(g, x)' = MembersIn(g', x)
      BY <1>1 DEF MembersIn
    <2>4. Domains(prog)' = Domains(prog)
      BY <1>1 DEF Domains, Boxes
    <2>5. QED
      BY <1>1, <2>1, <2>2, <2>3, <2>4 DEF StaticInv
  <1>4. ASSUME NEW t, Free(t)' PROVE Free(t)
    <2>1. \A s \in RewoundFrom : s \in RewoundFrom' /\ Behind(s) \subseteq Behind(s)'
      BY <1>1, RewoundGrows, RewoundType, BehindGrows DEF TypeInv
    <2> DEFINE now == UNION {Behind(s) : s \in RewoundFrom}
               then == UNION {Behind(s)' : s \in RewoundFrom'}
    <2>2. now \subseteq then
      BY <2>1
    <2>3. Given(t[1], t[2]) => \E y \in {t[2], NONE} : <<t[1], y>> \in DOMAIN prog.seed \cup now
      BY DEF Given
    <2>4. (\E y \in {t[2], NONE} : <<t[1], y>> \in DOMAIN prog.seed \cup then) => Given(t[1], t[2])'
      BY <1>1 DEF Given
    <2> HIDE DEF now, then
    <2>5. QED
      BY <1>4, <2>2, <2>3, <2>4 DEF Free
  <1>5. /\ \A f : ContextsOf(f)' = ContextsOf(f)
        /\ \A u, x : IsInContext(u, x)' = IsInContext(u, x)
        /\ \A f, x : Callers(f, x)' = Callers(f, x)
        /\ Contexts(prog)' = Contexts(prog) /\ Domains(prog)' = Domains(prog)
        /\ Pairs(prog)' = Pairs(prog) /\ Values(prog)' = Values(prog)
        /\ Calls(prog)' = Calls(prog) /\ Defined(prog)' = Defined(prog)
        /\ Instructions(prog)' = Instructions(prog)
    BY <1>1, <1>3 DEF ContextsOf, IsInContext, Callers, Contexts, AllContexts, Domains, Boxes, Pairs,
                      Values, Calls, Defined, Instructions
  <1>6. /\ \A f : Crossing(f)' = Crossing(f)
        /\ \A f, i : Formal(f, i)' = Formal(f, i)
        /\ \A u : Operands(prog, u)' = Operands(prog, u)
    BY <1>1 DEF Crossing, EntryPoints, Boxes, Formal, Operands
  <1>7. ASSUME NEW f PROVE OneContext(f)' = OneContext(f)
    BY <1>5, <1>6 DEF OneContext
  <1>8. ASSUME NEW t, NEW e, NEW u PROVE Owes(t, e, u)' = Owes(t, e, u)
    <2>1. ByMerge(t, e, u)' = ByMerge(t, e, u)
      BY <1>1, <1>5, <1>6 DEF ByMerge
    <2>2. ByArgument(t, e, u)' = ByArgument(t, e, u)
      BY <1>1, <1>3, <1>5, <1>6, <1>7 DEF ByArgument
    <2>3. ByResult(t, e, u)' = ByResult(t, e, u)
      <3>1. OneContext(prog.fun[u])' = OneContext(prog.fun[u])
        BY <1>1, <1>7
      <3>2. QED
        BY <1>1, <1>3, <1>5, <1>6, <3>1 DEF ByResult
    <2>4. QED
      BY <1>5, <2>1, <2>2, <2>3 DEF Owes
  <1>9. ASSUME NEW f, NEW x PROVE FoundIn(f, x)' = FoundIn(f, x)
    BY <1>1, <1>5 DEF FoundIn
  <1>10. ASSUME NEW d, Contextless(d)' PROVE Contextless(d)
    BY <1>1, <1>4, <1>5, <1>10 DEF Contextless
  <1>11. ASSUME NEW j, Serves(j) PROVE Serves(j)'
    <2>1. Free(j.to)' => Free(j.to)
      BY <1>4
    <2>2. \A e, u : Owes(j.to, e, u)' = Owes(j.to, e, u)
      BY <1>8
    <2>3. QED
      BY <1>1, <1>11, <2>1, <2>2 DEF Serves
  <1>12. QED
    BY <1>1, <1>2, <1>3, <1>4, <1>5, <1>8, <1>9, <1>10, <1>11

(* It is enough to look at what owes and serves now.                       *)
LEMMA MeetKept ==
  ASSUME TypeInv, StaticInv, MembersBound, [Next]_vars,
         MustCase => /\ \A t, e, u : Free(t) /\ Owes(t, e, u) => Settled(t, e, u)'
                     /\ \A j \in jobs' : Serves(j)
                     /\ \A d : Contextless(d) => state'[d] = {}
  PROVE  MeetInv'
  <1> SUFFICES ASSUME MustCase'
               PROVE  /\ (\A t, e, u : Free(t) /\ Owes(t, e, u) => Settled(t, e, u))'
                      /\ (\A j \in jobs : Serves(j))'
                      /\ (\A d : Contextless(d) => state[d] = {})'
    BY DEF MeetInv, SettledInv, ServeInv, NothingInv
  <1>1. MustCase
    BY MustStays
  <1>2. \A t, e, u : Free(t)' /\ Owes(t, e, u)' => Settled(t, e, u)'
    BY <1>1, MustStays
  <1>3. \A j \in jobs' : Serves(j)'
    BY <1>1, MustStays
  <1>4. \A d : Contextless(d)' => state'[d] = {}
    BY <1>1, MustStays
  <1>5. QED
    BY <1>2, <1>3, <1>4

MustInv == TypeInv /\ StaticInv /\ MembersBound /\ UsesInv /\ TaskInv /\ MergeIdle /\ RememberedInv /\ MeetInv

LEMMA UseMeets ==
  ASSUME MustInv, Use
  PROVE  MeetInv'
  <1>0. [Next]_vars /\ TypeInv /\ StaticInv /\ MembersBound
    BY DEF MustInv, Next
  <1> SUFFICES ASSUME MustCase
               PROVE  /\ \A t, e, u : Free(t) /\ Owes(t, e, u) => Settled(t, e, u)'
                      /\ \A j \in jobs' : Serves(j)
                      /\ \A d : Contextless(d) => state'[d] = {}
    BY <1>0, MeetKept
  <1>1. MustFlow
    BY DEF MustInv, MustFlow
  <1>2. PICK v \in uses : MustAsks(v)
    BY <1>1, UseServes
  <1>3. /\ jobs = {} /\ cur' = cur /\ worklist \subseteq worklist'
        /\ \A e \in Pairs(prog) : state'[e] \subseteq state[e]
    BY <1>0, UseFacts
  <1>4. \A e \in Pairs(prog) : state'[e] = state[e] \/ e \in worklist'
    <2>1. state \in [Pairs(prog) -> SUBSET Facts] /\ ~prog.tracking
      BY <1>0, MustKeepsGraph DEF TypeInv, TypeOK, MustCase
    <2>2. CASE UseBinaryOp
      <3>1. PICK u \in uses : /\ state' = [state EXCEPT ![<<u, cur[2]>>] = {}]
                              /\ worklist' = worklist \cup {<<u, cur[2]>>}
        BY <2>2 DEF UseBinaryOp
      <3>2. QED
        BY <2>1, <3>1
    <2>3. CASE UsePointer
      BY <2>1, <2>3 DEF UsePointer
    <2>4. CASE ~UseBinaryOp /\ ~UsePointer
      BY <2>4 DEF Use, UseConstant, UseFindsContexts, UseIgnored, UseStore, UseExtern, UseMerge,
                  UseOther, UseArgument, UseReturn
    <2>5. QED
      BY <2>2, <2>3, <2>4
  <1>5. ASSUME NEW t, NEW e, NEW u, Free(t), Owes(t, e, u) PROVE Settled(t, e, u)'
    <2>1. Settled(t, e, u) /\ t \in Pairs(prog) /\ e \in Pairs(prog)
      BY <1>0, <1>5, OwesUser DEF MustInv, MeetInv, SettledInv
    <2>2. CASE state[t] \subseteq state[e] \/ e \in worklist
      BY <1>3, <1>4, <2>1, <2>2 DEF Settled
    <2>3. CASE cur = e /\ u \in uses
      BY <1>2, <1>3, <1>5, <2>3 DEF MustAsks, Served, Settled
    <2>4. QED
      BY <1>3, <2>1, <2>2, <2>3 DEF Settled
  <1>6. ASSUME NEW d, Contextless(d) PROVE state'[d] = {}
    BY <1>3, <1>6 DEF Contextless, MustInv, MeetInv, NothingInv
  <1>7. QED
    BY <1>2, <1>5, <1>6 DEF MustAsks

LEMMA PropagateMeets ==
  ASSUME MustInv, Propagate
  PROVE  MeetInv'
  <1>0. [Next]_vars /\ TypeInv /\ StaticInv /\ MembersBound
    BY DEF MustInv, Next
  <1> SUFFICES ASSUME MustCase
               PROVE  /\ \A t, e, u : Free(t) /\ Owes(t, e, u) => Settled(t, e, u)'
                      /\ \A j \in jobs' : Serves(j)
                      /\ \A d : Contextless(d) => state'[d] = {}
    BY <1>0, MeetKept
  <1>1. PICK j \in jobs :
          /\ jobs' = jobs \ {j}
          /\ state' = [state EXCEPT ![j.to] = NewState(j)]
          /\ worklist' = IF Changes(j) \/ j.how = "copy" THEN worklist \cup {j.to} ELSE worklist
    BY DEF Propagate
  <1>2. /\ UNCHANGED <<prog, cur, uses>> /\ j.to \in Pairs(prog) /\ j.from \subseteq Pairs(prog)
        /\ state \in [Pairs(prog) -> SUBSET Facts]
    BY <1>0, <1>1 DEF Propagate, TypeInv, TypeOK
  <1>3. Serves(j) /\ \A k \in jobs' : Serves(k)
    BY <1>1 DEF MustInv, MeetInv, ServeInv
  <1>4. \A e \in Pairs(prog) : state'[e] = state[e] \/ (e = j.to /\ e \in worklist' /\ state'[e] = NewState(j))
    BY <1>1, <1>2 DEF Changes
  <1>5. state'[j.to] = NewState(j)
    BY <1>1, <1>2
  <1>6. ASSUME NEW e, NEW u, Free(j.to), Owes(j.to, e, u) PROVE Settled(j.to, e, u)'
    <2>1. e \in Pairs(prog) /\ Settled(j.to, e, u)
      BY <1>0, <1>6, OwesUser DEF MustInv, MeetInv, SettledInv
    <2>2. CASE j.how = "set" /\ e \in j.from
      <3>1. NewState(j) = MeetOver(j.from)
        BY <2>2 DEF NewState
      <3>2. MeetOver(j.from) \subseteq state[e]
        BY <2>2 DEF MeetOver
      <3>3. state'[j.to] \subseteq state'[e]
        BY <1>4, <1>5, <2>1, <3>1, <3>2
      <3>4. QED
        BY <3>3 DEF Settled
    <2>3. CASE j.how = "copy" /\ j.from = {<<j.to[1], NONE>>}
      <3> DEFINE d == <<j.to[1], NONE>>
      <3>1. d \in Pairs(prog)
        BY <1>2, <2>3
      <3>2. Contextless(d)
        <4>1. prog.kind[j.to[1]] # "constant"
          BY <1>0, <1>6, OwedKinds
        <4>2. Free(d)
          BY <1>6 DEF Free, Given
        <4>3. QED
          BY <3>1, <4>1, <4>2 DEF Contextless
      <3>3. state[d] = {}
        BY <3>2 DEF MustInv, MeetInv, NothingInv
      <3>4. MeetOver(j.from) = {}
        BY <2>3, <3>3 DEF MeetOver
      <3>5. NewState(j) = {} \/ NewState(j) = state[j.to]
        BY <2>3, <3>4 DEF NewState
      <3>6. CASE NewState(j) = {}
        BY <1>5, <3>6 DEF Settled
      <3>7. CASE NewState(j) = state[j.to]
        <4>1. state'[j.to] = state[j.to] /\ state'[e] = state[e]
          BY <1>4, <1>5, <2>1, <3>7
        <4>2. worklist \subseteq worklist'
          BY <1>1
        <4>3. \A k \in jobs : k.how = "set" => k \in jobs'
          BY <1>1, <2>3
        <4>4. QED
          BY <1>2, <2>1, <4>1, <4>2, <4>3 DEF Settled
      <3>8. QED
        BY <3>5, <3>6, <3>7
    <2>4. QED
      BY <1>3, <1>6, <2>2, <2>3 DEF Serves
  <1>7. ASSUME NEW t, NEW e, NEW u, Free(t), Owes(t, e, u), t # j.to PROVE Settled(t, e, u)'
    <2>1. t \in Pairs(prog) /\ e \in Pairs(prog) /\ Settled(t, e, u)
      BY <1>0, <1>7, OwesUser DEF MustInv, MeetInv, SettledInv
    <2>2. state'[t] = state[t] /\ (state'[e] = state[e] \/ e \in worklist')
      BY <1>4, <1>7, <2>1
    <2>3. worklist \subseteq worklist' /\ \A k \in jobs : k.to = t => k \in jobs'
      BY <1>1, <1>7
    <2>4. QED
      BY <1>2, <2>1, <2>2, <2>3 DEF Settled
  <1>8. ASSUME NEW d, Contextless(d) PROVE state'[d] = {}
    <2>1. state[d] = {} /\ d \in Pairs(prog)
      BY <1>8 DEF MustInv, MeetInv, NothingInv, Contextless
    <2>2. d # j.to
      BY <1>3, <1>8 DEF Serves, Contextless
    <2>3. QED
      BY <1>4, <2>1, <2>2
  <1>9. QED
    BY <1>3, <1>6, <1>7, <1>8

(* Rewinding adds, and only behind what is stored to.                      *)
LEMMA RewindAdds ==
  ASSUME TypeInv, TaskInv, Rewind
  PROVE  /\ UNCHANGED <<prog, cur, uses, jobs>> /\ worklist \subseteq worklist'
         /\ \A e \in Pairs(prog) : state[e] \subseteq state'[e] /\ (Free(e) => state'[e] = state[e])
  <1>1. Rewinding
    BY DEF Rewind, RewindWrite, RewindVisited, RewindStorage, RewindValue
  <1> DEFINE h == Head(rewind)
  <1>2. h.src \in RewoundFrom /\ h.dst \in Behind(h.src) /\ h.src \in Pairs(prog)
    BY <1>1, StackGood, StackType
  <1>3. ASSUME NEW dsts, dsts \subseteq Behind(h.src), Join(h.src, dsts)
        PROVE  /\ worklist \subseteq worklist'
               /\ \A e \in Pairs(prog) : state[e] \subseteq state'[e] /\ (Free(e) => state'[e] = state[e])
    <2>1. \A e \in dsts : ~Free(e)
      BY <1>2, <1>3, RewoundGiven
    <2> HIDE DEF h
    <2>2. QED
      BY <1>3, <2>1 DEF Join
  <1>4. CASE RewindWrite
    <2>1. Join(h.src, {h.dst})
      BY <1>4 DEF RewindWrite
    <2> HIDE DEF h
    <2>2. QED
      BY <1>1, <1>2, <1>3, <2>1 DEF Rewinding
  <1>5. CASE RewindStorage
    <2> DEFINE x == h.dst[2]
               a == Strip(h.dst[1])
               this == IF a \in DOMAIN prog.this THEN prog.this[a] ELSE {}
               dsts == {<<a, x>>} \cup (UNION {{A} \X ContextsOf(prog.fun[A]) : A \in this})
    <2>1. Join(h.src, dsts)
      BY <1>5 DEF RewindStorage
    <2>2. dsts \subseteq BehindStep(h.dst)
      BY DEF BehindStep
    <2> HIDE DEF h, dsts
    <2>3. dsts \subseteq Behind(h.src)
      BY <1>2, <2>2, BehindFacts DEF TypeInv
    <2>4. QED
      BY <1>1, <1>3, <2>1, <2>3 DEF Rewinding
  <1>6. CASE RewindVisited \/ RewindValue
    BY <1>1, <1>6 DEF RewindVisited, RewindValue, Rewinding
  <1>7. QED
    BY <1>4, <1>5, <1>6 DEF Rewind

LEMMA RewindMeets ==
  ASSUME MustInv, Rewind
  PROVE  MeetInv'
  <1>0. [Next]_vars /\ TypeInv /\ StaticInv /\ MembersBound
    BY DEF MustInv, Next
  <1> SUFFICES ASSUME MustCase
               PROVE  /\ \A t, e, u : Free(t) /\ Owes(t, e, u) => Settled(t, e, u)'
                      /\ \A j \in jobs' : Serves(j)
                      /\ \A d : Contextless(d) => state'[d] = {}
    BY <1>0, MeetKept
  <1>1. /\ UNCHANGED <<prog, cur, uses, jobs>> /\ worklist \subseteq worklist'
        /\ \A e \in Pairs(prog) : state[e] \subseteq state'[e] /\ (Free(e) => state'[e] = state[e])
    BY RewindAdds DEF MustInv
  <1>2. ASSUME NEW t, NEW e, NEW u, Free(t), Owes(t, e, u) PROVE Settled(t, e, u)'
    <2>1. t \in Pairs(prog) /\ e \in Pairs(prog) /\ Settled(t, e, u)
      BY <1>0, <1>2, OwesUser DEF MustInv, MeetInv, SettledInv
    <2>2. state'[t] = state[t] /\ state[e] \subseteq state'[e]
      BY <1>1, <1>2, <2>1
    <2>3. QED
      BY <1>1, <2>1, <2>2 DEF Settled
  <1>3. \A d : Contextless(d) => state'[d] = {}
    BY <1>1 DEF MustInv, MeetInv, NothingInv, Contextless
  <1>4. \A j \in jobs' : Serves(j)
    BY <1>1 DEF MustInv, MeetInv, ServeInv
  <1>5. QED
    BY <1>2, <1>3, <1>4

LEMMA DequeueMeets ==
  ASSUME MustInv, Dequeue
  PROVE  MeetInv'
  <1>0. [Next]_vars /\ TypeInv /\ StaticInv /\ MembersBound
    BY DEF MustInv, Next
  <1> SUFFICES ASSUME MustCase
               PROVE  /\ \A t, e, u : Free(t) /\ Owes(t, e, u) => Settled(t, e, u)'
                      /\ \A j \in jobs' : Serves(j)
                      /\ \A d : Contextless(d) => state'[d] = {}
    BY <1>0, MeetKept
  <1>1. PICK c \in worklist : cur' = c /\ worklist' = worklist \ {c} /\ uses' = Users(prog, c[1])
    BY DEF Dequeue
  <1>2. state' = state /\ jobs' = {} /\ jobs = {} /\ uses = {}
    BY DEF Dequeue, Idle
  <1>3. ASSUME NEW t, NEW e, NEW u, Free(t), Owes(t, e, u) PROVE Settled(t, e, u)'
    <2>1. u \in Users(prog, e[1]) /\ Settled(t, e, u)
      BY <1>0, <1>3, OwesUser DEF MustInv, MeetInv, SettledInv
    <2>2. QED
      BY <1>1, <1>2, <2>1 DEF Settled
  <1>4. \A d : Contextless(d) => state'[d] = {}
    BY <1>2 DEF MustInv, MeetInv, NothingInv
  <1>5. QED
    BY <1>2, <1>3, <1>4

(* The steps that touch neither facts nor what is to be done.              *)
LEMMA QuietMeets ==
  ASSUME MustInv, [Next]_vars, MustCase => UNCHANGED <<state, worklist, cur, uses, jobs>>
  PROVE  MeetInv'
  <1>1. TypeInv /\ StaticInv /\ MembersBound
    BY DEF MustInv
  <1>2. ASSUME MustCase
        PROVE  /\ \A t, e, u : Free(t) /\ Owes(t, e, u) => Settled(t, e, u)'
               /\ \A j \in jobs' : Serves(j)
               /\ \A d : Contextless(d) => state'[d] = {}
    BY <1>2 DEF MustInv, MeetInv, SettledInv, ServeInv, NothingInv, Settled
  <1>3. QED
    BY <1>1, <1>2, MeetKept

LEMMA MeetStep == MustInv /\ [Next]_vars => MeetInv'
  <1> SUFFICES ASSUME MustInv, [Next]_vars PROVE MeetInv'
    OBVIOUS
  <1>1. CASE MergeContext
    <2>1. ~MustCase
      BY <1>1 DEF MergeContext, MustInv, MergeIdle, MustCase
    <2>2. QED
      BY <2>1, QuietMeets
  <1>2. CASE Merged \/ UNCHANGED vars
    BY <1>2, QuietMeets DEF Merged, vars
  <1>3. CASE Finish
    <2>1. ASSUME MustCase PROVE UNCHANGED <<state, worklist, cur, uses, jobs>>
      <3>1. state' = [e \in Pairs(prog) |-> state[e]]
        BY <1>3, <2>1 DEF Finish, MustCase
      <3>2. state' = state
        BY <3>1 DEF MustInv, TypeInv, TypeOK
      <3>3. QED
        BY <1>3, <3>2 DEF Finish
    <2>2. QED
      BY <2>1, QuietMeets
  <1>4. QED
    BY <1>1, <1>2, <1>3, DequeueMeets, UseMeets, PropagateMeets, RewindMeets DEF Next

LEMMA RememberedStep == MustInv /\ [Next]_vars => RememberedInv'
  <1> SUFFICES ASSUME MustInv, [Next]_vars, MustCase'
               PROVE  (\A f \in DOMAIN inContextCallers :
                         \E x \in Contexts(prog) : Callers(f, x) # {} /\ inContextCallers[f] = FoundIn(f, x))'
    BY DEF RememberedInv
  <1>1. /\ MustCase /\ Contexts(prog)' = Contexts(prog)
        /\ \A f, x : Callers(f, x)' = Callers(f, x) /\ FoundIn(f, x)' = FoundIn(f, x)
    BY MustStays DEF MustInv
  <1> SUFFICES ASSUME NEW f \in DOMAIN inContextCallers'
               PROVE  \E x \in Contexts(prog) : Callers(f, x) # {} /\ inContextCallers'[f] = FoundIn(f, x)
    BY <1>1
  <1>2. CASE f \in DOMAIN inContextCallers /\ inContextCallers'[f] = inContextCallers[f]
    BY <1>1, <1>2 DEF MustInv, RememberedInv
  <1>3. ASSUME NEW fs, NEW is, RememberCallers(fs, is), cur[2] \in Contexts(prog),
               \A g \in fs : Callers(g, cur[2]) # {}
        PROVE  \E x \in Contexts(prog) : Callers(f, x) # {} /\ inContextCallers'[f] = FoundIn(f, x)
    <2>1. inContextCallers'[f] = CallersFound(f, cur[2])
      BY <1>3 DEF RememberCallers
    <2>2. CASE f \in DOMAIN inContextCallers
      BY <1>2, <2>1, <2>2 DEF CallersFound
    <2>3. CASE f \notin DOMAIN inContextCallers
      <3>1. f \in fs
        BY <1>3, <2>3 DEF RememberCallers
      <3>2. inContextCallers'[f] = FoundIn(f, cur[2])
        BY <2>1, <2>3 DEF CallersFound, FoundIn
      <3>3. QED
        BY <1>3, <3>1, <3>2
    <2>4. QED
      BY <2>2, <2>3
  <1>4. cur[2] \in Contexts(prog)
    BY CurType DEF MustInv
  <1>5. CASE UseArgument
    <2>1. PICK u \in uses :
            /\ u \in Calls(prog)
            /\ RememberCallers(callees[<<u, cur[2]>>] \cap Defined(prog), FirstPosition(u, cur[1]))
      BY <1>5 DEF UseArgument
    <2>2. \A g \in callees[<<u, cur[2]>>] \cap Defined(prog) : Callers(g, cur[2]) # {}
      BY <2>1 DEF Callers
    <2>3. QED
      BY <1>3, <1>4, <2>1, <2>2
  <1>6. CASE UsePointer
    <2>0. ~prog.tracking
      BY <1>1, MustKeepsGraph DEF MustInv, MustCase
    <2>1. PICK u \in uses :
            /\ u \in Calls(prog)
            /\ RememberCallers((callees[<<u, cur[2]>>] \cup {}) \cap Defined(prog), DOMAIN prog.ops[u])
      BY <1>6, <2>0 DEF UsePointer
    <2>2. \A g \in (callees[<<u, cur[2]>>] \cup {}) \cap Defined(prog) : Callers(g, cur[2]) # {}
      BY <2>1 DEF Callers
    <2>3. QED
      BY <1>3, <1>4, <2>1, <2>2
  <1>7. CASE ~UseArgument /\ ~UsePointer
    <2>1. inContextCallers' = inContextCallers
      BY <1>7 DEF Next, MergeContext, Merged, Dequeue, Use, UseConstant, UseFindsContexts, UseIgnored,
         UseStore, UseExtern, UseBinaryOp, UseMerge, UseOther, UseReturn,
         Propagate, Rewind, RewindWrite, RewindVisited, RewindStorage, RewindValue, Rewinding,
         Finish, vars, graphVars
    <2>2. QED
      BY <1>2, <2>1
  <1>8. QED
    BY <1>5, <1>6, <1>7

MeetsInv == StrayInv /\ StaticInv /\ RememberedInv /\ MeetInv /\ EndedInv

LEMMA MeetsInit == Init => MeetsInv
  <1> SUFFICES ASSUME Init PROVE MeetsInv
    OBVIOUS
  <1>1. StrayInv /\ TypeInv
    BY StrayInit, InitType
  <1>2. StaticInv
    BY DEF Init, StaticInv
  <1>3. RememberedInv /\ ServeInv /\ EndedInv
    BY DEF Init, RememberedInv, ServeInv, EndedInv, Done
  <1>4. ASSUME NEW d \in Pairs(prog), Free(d) PROVE state[d] = {}
    <2>1. d = <<d[1], d[2]>>
      BY DEF Pairs
    <2>2. d \notin DOMAIN prog.seed
      BY <1>4, <2>1 DEF Free, Given
    <2>3. QED
      BY <2>2 DEF Init
  <1>5. SettledInv
    <2> SUFFICES ASSUME MustCase, NEW t, NEW e, NEW u, Free(t), Owes(t, e, u) PROVE state[t] = {}
      BY DEF SettledInv, Settled
    <2>1. QED
      BY <1>1, <1>2, <1>4, OwesUser
  <1>6. NothingInv
    BY <1>4 DEF NothingInv, Contextless
  <1>7. QED
    BY <1>1, <1>2, <1>3, <1>5, <1>6 DEF MeetsInv, MeetInv

LEMMA MeetsStep == MeetsInv /\ [Next]_vars => MeetsInv'
  <1> SUFFICES ASSUME MeetsInv, [Next]_vars PROVE MeetsInv'
    OBVIOUS
  <1>1. MustInv
    BY DEF MeetsInv, MustInv, StrayInv
  <1>2. QED
    BY <1>1, StrayStep, StaticStep, RememberedStep, MeetStep, EndedStep DEF MeetsInv, StrayInv

LEMMA MeetsSound == MeetsInv => MustBeSound
  <1> SUFFICES ASSUME MeetsInv, Done, MustCase, NEW u \in DOMAIN prog.ops, NEW x \in Domains(prog),
                      u \in Instructions(prog), IsInContext(u, x)
               PROVE  /\ prog.kind[u] \in {"phi", "select"} /\ ~Given(u, x) =>
                            \A v \in Operands(prog, u) : state[<<u, x>>] \subseteq state[<<v, x>>]
                      /\ u \in Calls(prog) /\ (\A f \in callees[<<u, x>>] : OneContext(f)) =>
                            /\ \A f \in callees[<<u, x>>] \cap Defined(prog) : \A i \in DOMAIN prog.ops[u] :
                                  \A A \in Formal(f, i) :
                                    ~Given(A, x) => state[<<A, x>>] \subseteq state[<<prog.ops[u][i], x>>]
                            /\ ~Given(u, x) =>
                                  \A f \in callees[<<u, x>>] : \A r \in Results(f) :
                                    state[<<u, x>>] \subseteq state[<<r, x>>]
    BY DEF MustBeSound, MustCase
  <1>1. TypeInv /\ StaticInv
    BY DEF MeetsInv, StrayInv
  <1>2. ASSUME NEW a, NEW b, NEW w, Owes(<<a, x>>, <<b, x>>, w), ~Given(a, x)
        PROVE  state[<<a, x>>] \subseteq state[<<b, x>>]
    <2>1. Free(<<a, x>>)
      BY <1>2 DEF Free
    <2>2. Settled(<<a, x>>, <<b, x>>, w)
      BY <1>2, <2>1 DEF MeetsInv, MeetInv, SettledInv
    <2>3. QED
      BY <2>2 DEF MeetsInv, EndedInv, Idle, Settled
  <1>3. u \in Values(prog) /\ Operands(prog, u) \subseteq Values(prog)
    BY <1>1, ProgramShape, OperandsType DEF TypeInv
  <1>4. ASSUME prog.kind[u] \in {"phi", "select"}, NEW v \in Operands(prog, u)
        PROVE  Owes(<<u, x>>, <<v, x>>, u)
    BY <1>3, <1>4 DEF Owes, ByMerge
  <1>5. ASSUME u \in Calls(prog), NEW f \in callees[<<u, x>>] \cap Defined(prog), OneContext(f),
               NEW i \in DOMAIN prog.ops[u], NEW A \in Formal(f, i)
        PROVE  Owes(<<A, x>>, <<prog.ops[u][i], x>>, u)
    <2>1. A \in Values(prog) /\ prog.ops[u][i] \in Values(prog)
      BY <1>1, <1>5, FormalKinds, OperandsType DEF TypeInv
    <2>2. ByArgument(<<A, x>>, <<prog.ops[u][i], x>>, u)
      BY <1>5 DEF ByArgument
    <2>3. QED
      BY <2>1, <2>2 DEF Owes
  <1>6. ASSUME u \in Calls(prog), NEW f \in callees[<<u, x>>], OneContext(f), NEW r \in Results(f)
        PROVE  \E s : Owes(<<u, x>>, <<r, x>>, s)
    <2>1. PICK s \in DOMAIN prog.ops : prog.kind[s] = "ret" /\ prog.fun[s] = f /\ r \in Operands(prog, s)
      BY DEF Results
    <2>2. r \in Values(prog)
      BY <1>1, <2>1, OperandsType DEF TypeInv
    <2>3. ByResult(<<u, x>>, <<r, x>>, s)
      BY <1>6, <2>1 DEF ByResult
    <2>4. QED
      BY <1>3, <2>2, <2>3 DEF Owes
  <1>7. QED
    BY <1>2, <1>4, <1>5, <1>6

(* To be sound, the meet of all values passed in is taken: where facts     *)
(* come in only so, a must analysis says of a merge, of a parameter and of *)
(* a result no more than holds of everything that comes in.                *)
THEOREM MeetsTaken == Spec => []MustBeSound
  BY MeetsInit, MeetsStep, MeetsSound, PTL DEF Spec
=============================================================================
