--------------------------- MODULE AnalysesProofs ---------------------------
(***************************************************************************)
(* What the theorems about the information-flow engine say of the analyses *)
(* that run it.                                                            *)
(***************************************************************************)
EXTENDS Analyses, InfoFlowProofs

LEMMA EngineStep == [ANext]_avars => [Next]_vars
  BY DEF ANext, avars, PostDataFlow

(* What the assumption says of a program.                                  *)
LEMMA AnalysisShape ==
  ASSUME prog \in Programs
  PROVE  /\ prog.analysis # "none" =>
              /\ prog.must = (prog.analysis \in {"fds", "capability", "declassified"})
              /\ prog.tracking = (prog.analysis \in {"annotated", "inferred"})
         /\ prog.analysis \in {"fds", "capability"} =>
              \A k \in DOMAIN prog.graph : \A f \in prog.graph[k] \cap DOMAIN prog.fdArg :
                 prog.fdArg[f] \in DOMAIN prog.ops[k[1]]
         /\ prog.analysis = "private" => \A v \in DOMAIN prog.cast : prog.cast[v] \in Values(prog)
         /\ prog.analysis = "private" =>
              /\ \A k \in DOMAIN prog.graph :
                    prog.kind[prog.called[k[1]]] = "function" => prog.graph[k] \subseteq {prog.called[k[1]]}
              /\ \A c \in DOMAIN prog.name : prog.name[c] = "setenv" => c \in prog.extern
              /\ {prog.source[f] : f \in DOMAIN prog.source}
                   = UNION {{S} \X PrivateSources(prog, S) : S \in Boxes(prog)}
  BY AnalysesAssumption, Zenon DEF AnalysesAssumption

(* The engine's state keeps its types under every analysis: whatever seeds *)
(* initialise() computes, and before and after postDataFlowAnalysis().     *)
THEOREM AnalysesTypeSafety == ASpec => []TypeOK
  <1>1. AInit => Init
    BY DEF AInit
  <1>2. TypeInv => TypeOK
    BY DEF TypeInv
  <1>3. QED
    BY <1>1, <1>2, EngineStep, InitType, TypeStep, PTL DEF ASpec

(* No analysis that joins misses a flow: origins of accesses, classified   *)
(* and private data reach whatever is computed from them before            *)
(* postDataFlowAnalysis() looks at the facts, and stay as they are there.  *)
THEOREM AnalysesFlowComplete == ASpec => []FlowComplete
  <1>1. AInit => Init
    BY DEF AInit
  <1>2. FlowInv => FlowComplete
    BY DEF FlowInv, FlowComplete
  <1>3. QED
    BY <1>1, <1>2, EngineStep, FlowInit, FlowStep, PTL DEF ASpec

(* No analysis reports on a fact of its own making: each origin, right,    *)
(* target and classified or private fact that postDataFlowAnalysis() sees  *)
(* derives from a seed of initialise() through the flows of the program.   *)
THEOREM AnalysesNothingStray == ASpec => []NoSpuriousFact
  <1>1. AInit => Init
    BY DEF AInit
  <1>2. QED
    BY <1>1, EngineStep, StrayInit, StrayStep, NotStray, PTL DEF ASpec

(* FPTargetsAnalysis leaves the call graph that its facts say, whether the *)
(* targets are annotated or inferred.                                      *)
THEOREM AnalysesTargets == ASpec => []TargetsExact
  <1>1. AInit => Init
    BY DEF AInit
  <1>2. QED
    BY <1>1, EngineStep, TargetInit, TargetStep, TargetsRight, PTL DEF ASpec

(* What the analyses of file descriptors know of a parameter, of a call's  *)
(* result or of a merge holds, unless it was granted there or stored       *)
(* behind it, of all that is passed, returned or merged.                   *)
THEOREM AnalysesMeetsTaken == ASpec => []MustBeSound
  <1>1. AInit => Init
    BY DEF AInit
  <1>2. QED
    BY <1>1, EngineStep, MeetsInit, MeetsStep, MeetsSound, PTL DEF ASpec

-----------------------------------------------------------------------------
(***************************************************************************)
(* What postDataFlowAnalysis() has reported is what it would report of the *)
(* facts now: the engine has stopped.                                      *)
(***************************************************************************)
ReportsMade ==
  /\ prog.analysis = "origin" => reports = UntrustedCalls
  /\ prog.analysis = "classified" => reports = ClassifiedAccesses
  /\ prog.analysis = "private" => \E kept : Kept(kept) /\ reports = kept \cup PrivateLeaks
  /\ prog.analysis = "fds" => reports = WithoutRights
  /\ prog.analysis = "capability" => reports = WithoutCapability

ReportInv == reported => Done /\ ReportsMade

(* The calls on which a sandbox has no capability.                         *)
Lacking(S) == {w \in FdCalls(S) : w[2] \notin state[<<prog.ops[w[1]][prog.fdArg[w[2]]], S>>]}

LEMMA WithoutIsLacking ==
  WithoutCapability = UNION {{Report(z[2], z[1], S) : z \in Lacking(S)} : S \in Boxes(prog)}
  BY DEF WithoutCapability, Lacking

LEMMA WithoutIsLackingNext ==
  (WithoutCapability = UNION {{Report(z[2], z[1], S) : z \in Lacking(S)} : S \in Boxes(prog)})'
  BY WithoutIsLacking, PTL

LEMMA ReportsSame ==
  ASSUME UNCHANGED vars
  PROVE  /\ UntrustedCalls' = UntrustedCalls /\ ClassifiedAccesses' = ClassifiedAccesses
         /\ PrivateAccesses' = PrivateAccesses /\ PrivateLeaks' = PrivateLeaks
         /\ WithoutRights' = WithoutRights /\ WithoutCapability' = WithoutCapability
         /\ \A kept : Kept(kept)' = Kept(kept)
  <1>1. UNCHANGED <<prog, callees, members, state, known>>
    BY DEF vars, graphVars
  <1>2. UntrustedCalls' = UntrustedCalls /\ ClassifiedAccesses' = ClassifiedAccesses
    BY <1>1 DEF UntrustedCalls, ClassifiedAccesses, Reported, InstrsIn, Instructions, Values, Calls,
       Direct, IsFunction, Accessed, Boxes, Report
  <1>3. PrivateAccesses' = PrivateAccesses
    BY <1>1 DEF PrivateAccesses, Reported, InstrsIn, Instructions, Values, Loads, PrivateTo, Uncast,
       Domains, Boxes, Report
  <1>4. \A S, n : LeakByStore(S, n)' = LeakByStore(S, n) /\ LeakByReturn(S, n)' = LeakByReturn(S, n)
    BY <1>1 DEF LeakByStore, LeakByReturn, Own, PrivateTo, Operands
  <1>5. \A S, n : LeakByCall(S, n)' = LeakByCall(S, n)
    BY <1>1 DEF LeakByCall, AnyOwn, Own, PrivateTo, Operands, EntryPoints, Boxes
  <1>6. PrivateLeaks' = PrivateLeaks
    BY <1>1, <1>4, <1>5 DEF PrivateLeaks, Reported, InstrsIn, Instructions, Values, Calls, Direct,
       IsFunction, Boxes, Report
  <1>7. \A S : FdCalls(S)' = FdCalls(S)
    BY <1>1 DEF FdCalls, InstrsIn, Instructions, Values, Calls
  <1>8. WithoutRights' = WithoutRights
    <2>1. \A v, S : RightsOn(v, S)' = RightsOn(v, S)
      BY <1>1 DEF RightsOn, IsConstant
    <2>2. Boxes(prog)' = Boxes(prog)
      BY <1>1 DEF Boxes
    <2>3. ASSUME NEW S
          PROVE  {w \in FdCalls(S) :
                    /\ prog.fun[w[1]] \in prog.report /\ w[2] \in prog.permitted[w[1]]
                    /\ \A need \in prog.platform : w[2] \in need
                    /\ w[2] \notin RightsOn(prog.ops[w[1]][prog.fdArg[w[2]]], S)}'
                 = {w \in FdCalls(S) :
                    /\ prog.fun[w[1]] \in prog.report /\ w[2] \in prog.permitted[w[1]]
                    /\ \A need \in prog.platform : w[2] \in need
                    /\ w[2] \notin RightsOn(prog.ops[w[1]][prog.fdArg[w[2]]], S)}
      BY <1>1, <1>7, <2>1
    <2>4. QED
      BY <2>2, <2>3 DEF WithoutRights, Report
  <1>11. WithoutCapability' = WithoutCapability
    <2>1. Boxes(prog)' = Boxes(prog)
      BY <1>1 DEF Boxes
    <2>2. \A S : Lacking(S)' = Lacking(S)
      BY <1>1, <1>7 DEF Lacking
    <2>3. QED
      BY <2>1, <2>2, WithoutIsLacking, WithoutIsLackingNext DEF Report
  <1>9. \A kept : Kept(kept)' = Kept(kept)
    BY <1>1, <1>3 DEF Kept
  <1>10. QED
    BY <1>2, <1>3, <1>6, <1>8, <1>9, <1>11

LEMMA NextIsOver == Next => ~Done
  BY DEF Next, Done, MergeContext, Merged, Dequeue, Use, UseConstant, UseFindsContexts, UseIgnored,
     UseStore, UseExtern, UseBinaryOp, UseMerge, UseOther, UseArgument, UsePointer, UseReturn, Take,
     Propagate, Rewind, RewindWrite, RewindVisited, RewindStorage, RewindValue, Rewinding, Finish

LEMMA ReportStep == ReportInv /\ [ANext]_avars => ReportInv'
  <1> SUFFICES ASSUME ReportInv, [ANext]_avars, reported' PROVE (Done /\ ReportsMade)'
    BY DEF ReportInv
  <1>1. CASE PostDataFlow
    <2>1. Done /\ UNCHANGED vars /\ prog' = prog /\ phase' = phase
      BY <1>1 DEF PostDataFlow, vars
    <2>2. PICK kept :
            /\ prog.analysis = "private" => Kept(kept)
            /\ reports' =
                 CASE prog.analysis = "origin" -> UntrustedCalls
                   [] prog.analysis = "classified" -> ClassifiedAccesses
                   [] prog.analysis = "private" -> kept \cup PrivateLeaks
                   [] prog.analysis = "fds" -> WithoutRights
                   [] prog.analysis = "capability" -> WithoutCapability
                   [] OTHER -> {}
      BY <1>1 DEF PostDataFlow
    <2>3. /\ prog.analysis = "origin" => reports' = UntrustedCalls
          /\ prog.analysis = "classified" => reports' = ClassifiedAccesses
          /\ prog.analysis = "private" => reports' = kept \cup PrivateLeaks
          /\ prog.analysis = "fds" => reports' = WithoutRights
          /\ prog.analysis = "capability" => reports' = WithoutCapability
      BY <2>2
    <2>4. QED
      BY <2>1, <2>2, <2>3, ReportsSame DEF ReportsMade, Done
  <1>2. CASE UNCHANGED avars
    <2>1. UNCHANGED vars /\ prog' = prog /\ phase' = phase /\ reports' = reports /\ reported' = reported
      BY <1>2 DEF avars, vars
    <2>2. QED
      BY <2>1, ReportsSame DEF ReportInv, ReportsMade, Done
  <1>3. CASE Next /\ UNCHANGED <<reports, reported>>
    BY <1>3, NextIsOver DEF ReportInv
  <1>4. QED
    BY <1>1, <1>2, <1>3 DEF ANext

(* Where it is checked, a system call that is not reported has a right.    *)
LEMMA RightsHeld ==
  ASSUME TypeInv, StaticInv, ReportInv, NoSpuriousFact
  PROVE  RightsGranted
  <1> SUFFICES ASSUME reported, prog.analysis \in {"fds", "capability"}, NEW S \in Boxes(prog),
                      NEW z \in FdCalls(S),
                      prog.analysis = "fds" =>
                        /\ prog.fun[z[1]] \in prog.report /\ z[2] \in prog.permitted[z[1]]
                        /\ \A need \in prog.platform : z[2] \in need,
                      Report(z[2], z[1], S) \notin reports
               PROVE  LET fd == prog.ops[z[1]][prog.fdArg[z[2]]]
                      IN \/ <<fd, S>> \in Derived(z[2])
                         \/ prog.analysis = "fds" /\ IsConstant(fd) /\ fd \in DOMAIN prog.grants
                              /\ z[2] \in prog.grants[fd]
    BY DEF RightsGranted
  <1> DEFINE fd == prog.ops[z[1]][prog.fdArg[z[2]]]
  <1>1. Done /\ ReportsMade
    BY DEF ReportInv
  <1>2. PICK c \in InstrsIn(S) \cap Calls(prog) :
          z = <<c, z[2]>> /\ z[2] \in callees[<<c, S>>] \cap DOMAIN prog.fdArg
    BY DEF FdCalls
  <1>3. <<fd, S>> \in Pairs(prog)
    <2>1. /\ \A k \in DOMAIN prog.graph : \A f \in prog.graph[k] \cap DOMAIN prog.fdArg :
                prog.fdArg[f] \in DOMAIN prog.ops[k[1]]
          /\ ~prog.tracking
      <3>1. /\ prog.analysis # "none"
            /\ prog.analysis \notin {"annotated", "inferred"}
        OBVIOUS
      <3>2. prog.tracking = (prog.analysis \in {"annotated", "inferred"})
        BY <3>1, AnalysisShape DEF TypeInv
      <3>3. \A k \in DOMAIN prog.graph : \A f \in prog.graph[k] \cap DOMAIN prog.fdArg :
                prog.fdArg[f] \in DOMAIN prog.ops[k[1]]
        BY AnalysisShape DEF TypeInv
      <3>4. QED
        BY <3>1, <3>2, <3>3
    <2>2. callees = prog.graph /\ DOMAIN prog.graph = Calls(prog) \X Contexts(prog)
      BY <2>1 DEF StaticInv, TypeInv, TypeOK
    <2>3. S \in Contexts(prog) /\ <<c, S>> \in DOMAIN prog.graph
      BY <2>2 DEF Contexts, AllContexts, Domains
    <2>4. prog.fdArg[z[2]] \in DOMAIN prog.ops[c]
      BY <1>2, <2>1, <2>2, <2>3
    <2>5. fd \in Values(prog)
      BY <1>2, <2>4, ProgramShape, OperandsType DEF TypeInv
    <2>6. QED
      BY <2>3, <2>5 DEF Pairs
  <1>4. \A x \in state[<<fd, S>>] : <<fd, S>> \in Derived(x)
    BY <1>1, <1>3 DEF NoSpuriousFact, TypeInv, TypeOK
  <1>5. CASE prog.analysis = "fds"
    <2>1. reports = WithoutRights
      BY <1>1, <1>5 DEF ReportsMade
    <2>2. ASSUME z[2] \notin RightsOn(fd, S) PROVE FALSE
      <3>1. Report(z[2], z[1], S) \in
              {Report(w[2], w[1], S) :
                 w \in {v \in FdCalls(S) :
                          /\ prog.fun[v[1]] \in prog.report /\ v[2] \in prog.permitted[v[1]]
                          /\ \A need \in prog.platform : v[2] \in need
                          /\ v[2] \notin RightsOn(prog.ops[v[1]][prog.fdArg[v[2]]], S)}}
        BY <1>5, <2>2
      <3>2. Report(z[2], z[1], S) \in WithoutRights
        BY <3>1 DEF WithoutRights
      <3>3. QED
        BY <2>1, <3>2
    <2>3. QED
      BY <1>4, <1>5, <2>2 DEF RightsOn
  <1>6. CASE prog.analysis = "capability"
    <2>1. reports = WithoutCapability
      BY <1>1, <1>6 DEF ReportsMade
    <2>2. ASSUME z[2] \notin state[<<fd, S>>] PROVE FALSE
      <3>1. Report(z[2], z[1], S) \in
              {Report(w[2], w[1], S) :
                 w \in {v \in FdCalls(S) : v[2] \notin state[<<prog.ops[v[1]][prog.fdArg[v[2]]], S>>]}}
        BY <2>2
      <3>2. Report(z[2], z[1], S) \in WithoutCapability
        BY <3>1 DEF WithoutCapability
      <3>3. QED
        BY <2>1, <3>2
    <2>3. QED
      BY <1>4, <2>2
  <1>7. QED
    BY <1>5, <1>6

(* The analyses of file descriptors let no system call pass without a      *)
(* report that nobody has granted: capabilities of entry points,           *)
(* annotations and keys are all that rights come from, through whatever    *)
(* meets, calls and merges.                                                *)
THEOREM RightsJudged == ASpec => []RightsGranted
  <1>1. AInit => Init /\ TypeInv /\ StrayInv /\ StaticInv /\ ReportInv
    BY InitType, StrayInit DEF AInit, Init, StaticInv, ReportInv
  <1>2. StrayInv /\ StaticInv /\ [Next]_vars => StrayInv' /\ StaticInv'
    BY StrayStep, StaticStep DEF StrayInv
  <1>3. StrayInv /\ StaticInv /\ ReportInv => RightsGranted
    BY NotStray, RightsHeld DEF StrayInv
  <1>4. QED
    BY <1>1, <1>2, <1>3, EngineStep, ReportStep, PTL DEF ASpec

-----------------------------------------------------------------------------
(***************************************************************************)
(* What a may analysis keeps: the facts that fit, of the seeds too.        *)
(***************************************************************************)
LEMMA FactsStay ==
  ASSUME FlowInv, [Next]_vars, ~prog.must, ~prog.insensitive
  PROVE  prog' = prog /\ \A e \in Pairs(prog) : state[e] \cap Fitting(e[1]) \subseteq state'[e]
  <1>1. TypeInv /\ KnownInv /\ JobInv /\ MergeInv
    BY DEF FlowInv
  <1>2. state \in [Pairs(prog) -> SUBSET Facts]
    BY <1>1 DEF TypeInv, TypeOK
  <1>3. CASE MergeContext
    BY <1>1, <1>3 DEF MergeContext, MergeInv
  <1>4. CASE Merged \/ Dequeue \/ UNCHANGED vars
    BY <1>4 DEF Merged, Dequeue, vars
  <1>5. CASE Use
    BY <1>1, <1>5, UseFacts
  <1>6. CASE Propagate
    <2>1. PICK j \in jobs : state' = [state EXCEPT ![j.to] = NewState(j)]
      BY <1>6 DEF Propagate
    <2>2. j.from = {cur} /\ j.how # "set" /\ j.to \in Pairs(prog)
      BY <1>1, <2>1 DEF JobInv, TypeInv, TypeOK
    <2>3. state[j.to] \subseteq NewState(j)
      <3>1. j.to \notin known => state[j.to] = {}
        BY <1>1, <2>2 DEF KnownInv
      <3>2. QED
        BY <2>2, <3>1 DEF NewState
    <2>4. QED
      BY <1>2, <1>6, <2>1, <2>2, <2>3 DEF Propagate
  <1>7. CASE Rewind
    <2>1. Rewinding /\ Rewound
      BY <1>7, WriteRewinds, VisitedRewinds, StorageRewinds, ValueRewinds DEF Rewind
    <2>2. QED
      BY <2>1 DEF Rewinding, Rewound
  <1>8. CASE Finish
    <2>1. state' = [d \in Pairs(prog) |->
                      IF d \in {c \in Values(prog) \X AllContexts(prog) :
                                  prog.insensitive /\ <<c[1], SINGLE>> \in known}
                      THEN state[<<d[1], SINGLE>>] ELSE state[d]]
      BY <1>8 DEF Finish
    <2>2. QED
      BY <1>8, <2>1 DEF Finish
  <1>9. QED
    BY <1>3, <1>4, <1>5, <1>6, <1>7, <1>8 DEF Next

SeedsStay ==
  ~prog.must /\ ~prog.insensitive =>
    \A e \in DOMAIN prog.seed : prog.seed[e] \cap Fitting(e[1]) \subseteq state[e]

LEMMA SeedsInit == Init => SeedsStay
  <1> SUFFICES ASSUME Init, NEW e \in DOMAIN prog.seed PROVE prog.seed[e] \subseteq state[e]
    BY DEF SeedsStay
  <1>1. e \in Pairs(prog)
    BY ProgramsAssumption DEF Init, WellFormed, AnalysisWellFormed
  <1>2. QED
    BY <1>1 DEF Init

LEMMA SeedsStep == FlowInv /\ SeedsStay /\ [Next]_vars => SeedsStay'
  <1> SUFFICES ASSUME FlowInv, SeedsStay, [Next]_vars, (~prog.must /\ ~prog.insensitive)',
                      NEW e \in (DOMAIN prog.seed)'
               PROVE  (prog.seed[e] \cap Fitting(e[1]) \subseteq state[e])'
    BY DEF SeedsStay
  <1>1. prog' = prog
    BY DEF Next, MergeContext, Merged, Dequeue, Use, UseConstant, UseFindsContexts, UseIgnored,
       UseStore, UseExtern, UseBinaryOp, UseMerge, UseOther, UseArgument, UsePointer, UseReturn,
       Propagate, Rewind, RewindWrite, RewindVisited, RewindStorage, RewindValue, Rewinding,
       Finish, vars
  <1>2. prog.seed[e] \cap Fitting(e[1]) \subseteq state[e]
    BY <1>1 DEF SeedsStay
  <1>3. e \in Pairs(prog)
    BY <1>1, ProgramsAssumption DEF FlowInv, TypeInv, WellFormed, AnalysisWellFormed
  <1>4. state[e] \cap Fitting(e[1]) \subseteq state'[e]
    BY <1>1, <1>3, FactsStay
  <1>5. Fitting(e[1])' = Fitting(e[1])
    BY <1>1 DEF Fitting
  <1>6. QED
    BY <1>1, <1>2, <1>4, <1>5

(* In the end a fact is wherever the program makes it flow.                *)
LEMMA ReachesKept ==
  ASSUME FlowInv, SeedsStay, Done, ~prog.must, ~prog.insensitive,
         callees = prog.graph, NoRepeatedArguments, NEW f, NEW e \in Reaches(f)
  PROVE  f \in state[e]
  <1> DEFINE succ == [d \in Pairs(prog) |->
                        IF d \in prog.silent THEN {} ELSE {t \in Flows(d) : f \in Fitting(t[1])}]
             start == {d \in DOMAIN prog.seed : f \in prog.seed[d] \cap Fitting(d[1])}
             C == {d \in Pairs(prog) : f \in state[d]}
  <1>1. TypeInv /\ KnownInv /\ FlowComplete
    BY DEF FlowInv
  <1>2. succ \in [Pairs(prog) -> SUBSET Pairs(prog)]
    BY <1>1, FlowsType
  <1>3. start \in SUBSET Pairs(prog)
    BY <1>1, ProgramsAssumption DEF TypeInv, WellFormed, AnalysisWellFormed
  <1>4. Reaches(f) = Closure(start, succ)
    BY DEF Reaches
  <1>5. start \subseteq C
    BY <1>3 DEF SeedsStay
  <1>6. ASSUME NEW d \in C, NEW t \in succ[d] PROVE t \in C
    <2>1. d \notin prog.silent /\ t \in Flows(d) /\ f \in Fitting(t[1])
      BY <1>6
    <2>2. d \in known
      BY <1>1, <1>6 DEF KnownInv
    <2>3. f \in state[t]
      BY <1>1, <1>6, <2>1, <2>2 DEF FlowComplete
    <2>4. QED
      BY <1>2, <2>3
  <1> HIDE DEF succ, start
  <1>7. ClosedIn(C, succ)
    BY <1>6 DEF ClosedIn
  <1>8. Reaches(f) \subseteq C
    BY <1>1, <1>2, <1>3, <1>4, <1>5, <1>7, PairsFinite, ClosureIsLeast, LeastFacts DEF TypeInv
  <1>9. QED
    BY <1>8

(* AccessOriginAnalysis has one fact.                                      *)
OneOrigin ==
  prog.analysis = "origin" => \A e \in DOMAIN prog.seed : prog.seed[e] = {"sandbox"}

LEMMA OriginInit == AInit => OneOrigin
  <1> SUFFICES ASSUME AInit, prog.analysis = "origin" PROVE \A e \in DOMAIN prog.seed : prog.seed[e] = {"sandbox"}
    BY DEF OneOrigin
  <1>1. prog.seed = Seeds
    BY DEF AInit
  <1>2. Seeds = OriginSeeds
    BY DEF Seeds
  <1>3. QED
    BY <1>1, <1>2 DEF OriginSeeds

LEMMA OriginsOnly ==
  ASSUME TypeInv, FactsWithin, OneOrigin, prog.analysis = "origin", NEW e \in Pairs(prog)
  PROVE  state[e] \subseteq {"sandbox"}
  <1> SUFFICES ASSUME NEW x \in state[e], x # "sandbox" PROVE FALSE
    OBVIOUS
  <1>1. x \in Facts
    BY DEF TypeInv, TypeOK
  <1>2. Within(x, {})
    BY DEF Within, Sealed, SeededWith, OneOrigin
  <1>3. QED
    BY <1>1, <1>2 DEF FactsWithin

-----------------------------------------------------------------------------
(* Whether an instruction is reported is a matter of what it looks at.     *)
Judged(n, x) ==
  \A z \in Forbidden(n, x) :
    /\ <<z[1], x>> \in Pairs(prog)
    /\ Finds(n, x) <=> z[2] \cap state[<<z[1], x>>] # {}

LEMMA ReportFields ==
  ASSUME NEW t, NEW n, NEW x
  PROVE  Report(t, n, x).type = t /\ Report(t, n, x).at = n /\ Report(t, n, x).box = x
  BY DEF Report

LEMMA OriginReports ==
  ASSUME reports = UntrustedCalls, NEW n, NEW x
  PROVE  Finds(n, x) <=> /\ x = PRIV /\ n \in Reported(PRIV) \cap Calls(prog)
                         /\ ~Direct(n) /\ state[<<prog.called[n], PRIV>>] = {"sandbox"}
  <1>1. ASSUME Finds(n, x)
        PROVE  /\ x = PRIV /\ n \in Reported(PRIV) \cap Calls(prog)
               /\ ~Direct(n) /\ state[<<prog.called[n], PRIV>>] = {"sandbox"}
    <2>1. PICK r \in UntrustedCalls : r.at = n /\ r.box = x
      BY <1>1 DEF Finds
    <2>2. PICK c \in Reported(PRIV) \cap Calls(prog) :
            /\ r = Report("origin", c, PRIV)
            /\ ~Direct(c) /\ state[<<prog.called[c], PRIV>>] = {"sandbox"}
      BY DEF UntrustedCalls
    <2>3. QED
      BY <2>1, <2>2, ReportFields
  <1>2. ASSUME n \in Reported(PRIV) \cap Calls(prog), ~Direct(n),
               state[<<prog.called[n], PRIV>>] = {"sandbox"}
        PROVE  Finds(n, PRIV)
    <2>1. Report("origin", n, PRIV) \in reports
      BY <1>2 DEF UntrustedCalls
    <2>2. QED
      BY <2>1, ReportFields DEF Finds
  <1>3. QED
    BY <1>1, <1>2

LEMMA OriginJudged ==
  ASSUME TypeInv, FactsWithin, OneOrigin, reports = UntrustedCalls, prog.analysis = "origin",
         NEW x \in Domains(prog), NEW n \in Reported(x)
  PROVE  Judged(n, x)
  <1> SUFFICES ASSUME NEW z \in Forbidden(n, x)
               PROVE  /\ <<z[1], x>> \in Pairs(prog)
                      /\ Finds(n, x) <=> z[2] \cap state[<<z[1], x>>] # {}
    BY DEF Judged
  <1>1. z \in {<<prog.called[c], {"sandbox"}>> : c \in {d \in {n} \cap Calls(prog) : x = PRIV /\ ~Direct(d)}}
    BY DEF Forbidden
  <1>2. n \in Calls(prog) /\ x = PRIV /\ ~Direct(n) /\ z = <<prog.called[n], {"sandbox"}>>
    BY <1>1
  <1>3. <<z[1], x>> \in Pairs(prog)
    BY <1>2, ProgramsAssumption DEF TypeInv, WellFormed, CallsWellFormed, Pairs, Contexts, AllContexts, Domains
  <1>4. state[<<z[1], x>>] \subseteq {"sandbox"}
    BY <1>3, OriginsOnly
  <1>5. Finds(n, x) <=> state[<<z[1], x>>] = {"sandbox"}
    BY <1>2, OriginReports
  <1>6. QED
    BY <1>2, <1>3, <1>4, <1>5

LEMMA AccessedType ==
  ASSUME prog \in Programs, NEW n \in Values(prog), NEW v \in Accessed(n)
  PROVE  v \in Values(prog) /\ Accessed(n) = {v}
  <1>1. prog.kind[n] \in {"load", "store"} /\ v = prog.ops[n][1]
    BY DEF Accessed
  <1>2. n \in DOMAIN prog.ops /\ prog.ops[n] # << >> /\ prog.ops[n] \in Seq(Values(prog))
    BY <1>1, ProgramsAssumption DEF WellFormed, ValuesWellFormed
  <1>3. QED
    BY <1>1, <1>2 DEF Accessed

LEMMA ClassReports ==
  ASSUME reports = ClassifiedAccesses, NEW n, NEW x
  PROVE  Finds(n, x) <=> /\ x \in Boxes(prog) /\ n \in Reported(x)
                         /\ \E v \in Accessed(n) : ~(state[<<v, x>>] \subseteq prog.clearance[x])
  <1>1. ASSUME Finds(n, x)
        PROVE  /\ x \in Boxes(prog) /\ n \in Reported(x)
               /\ \E v \in Accessed(n) : ~(state[<<v, x>>] \subseteq prog.clearance[x])
    <2>1. PICK r \in ClassifiedAccesses : r.at = n /\ r.box = x
      BY <1>1 DEF Finds
    <2>2. PICK S \in Boxes(prog) : \E m \in Reported(S) :
            /\ r = Report("class", m, S)
            /\ \E v \in Accessed(m) : ~(state[<<v, S>>] \subseteq prog.clearance[S])
      BY DEF ClassifiedAccesses
    <2>3. QED
      BY <2>1, <2>2, ReportFields
  <1>2. ASSUME x \in Boxes(prog), n \in Reported(x),
               \E v \in Accessed(n) : ~(state[<<v, x>>] \subseteq prog.clearance[x])
        PROVE  Finds(n, x)
    <2>1. Report("class", n, x) \in reports
      BY <1>2 DEF ClassifiedAccesses
    <2>2. QED
      BY <2>1, ReportFields DEF Finds
  <1>3. QED
    BY <1>1, <1>2

LEMMA ClassJudged ==
  ASSUME TypeInv, reports = ClassifiedAccesses, prog.analysis = "classified",
         NEW x \in Domains(prog), NEW n \in Reported(x)
  PROVE  Judged(n, x)
  <1> SUFFICES ASSUME NEW z \in Forbidden(n, x)
               PROVE  /\ <<z[1], x>> \in Pairs(prog)
                      /\ Finds(n, x) <=> z[2] \cap state[<<z[1], x>>] # {}
    BY DEF Judged
  <1>1. z \in {<<v, Facts \ prog.clearance[x]>> : v \in IF x \in Boxes(prog) THEN Accessed(n) ELSE {}}
    BY DEF Forbidden
  <1>2. PICK v \in Accessed(n) : x \in Boxes(prog) /\ z = <<v, Facts \ prog.clearance[x]>>
    BY <1>1
  <1>3. v \in Values(prog) /\ Accessed(n) = {v}
    BY ProgramShape, AccessedType DEF TypeInv, Reported, InstrsIn, Instructions
  <1>4. <<z[1], x>> \in Pairs(prog)
    BY <1>2, <1>3 DEF Pairs, Contexts, AllContexts
  <1>5. Finds(n, x) <=> ~(state[<<v, x>>] \subseteq prog.clearance[x])
    BY <1>2, <1>3, ClassReports
  <1>6. state[<<v, x>>] \subseteq Facts
    BY <1>2, <1>4 DEF TypeInv, TypeOK
  <1>7. QED
    BY <1>2, <1>4, <1>5, <1>6

LEMMA LeakTypes ==
  ASSUME NEW r \in PrivateLeaks
  PROVE  r.type \notin {"origin", "class", "access"}
  <1>1. PICK S \in Boxes(prog) :
          r \in UNION {{Report(t, n, S) :
                   t \in LeakByStore(S, n) \cup LeakByReturn(S, n) \cup
                           (IF n \in Calls(prog) /\ Direct(n) THEN LeakByCall(S, n) ELSE {})} :
                n \in Reported(S)}
    BY DEF PrivateLeaks
  <1>2. PICK n \in Reported(S) :
          r \in {Report(t, n, S) :
                   t \in LeakByStore(S, n) \cup LeakByReturn(S, n) \cup
                           (IF n \in Calls(prog) /\ Direct(n) THEN LeakByCall(S, n) ELSE {})}
    BY <1>1
  <1>3. PICK t : /\ r = Report(t, n, S)
                 /\ t \in LeakByStore(S, n) \cup LeakByReturn(S, n) \cup LeakByCall(S, n)
    BY <1>2
  <1>4. /\ LeakByStore(S, n) \subseteq {"global_var"} /\ LeakByReturn(S, n) \subseteq {"return_from_entrypoint"}
        /\ LeakByCall(S, n) \subseteq {"env_var", "extern", "callgate", "cross_sandbox"}
    BY DEF LeakByStore, LeakByReturn, LeakByCall
  <1>5. QED
    BY <1>3, <1>4, ReportFields

LEMMA PrivateReports ==
  ASSUME reports = PrivateAccesses \cup PrivateLeaks, NEW n, NEW x
  PROVE  Finds(n, x) <=> /\ x \in Domains(prog) /\ n \in Reported(x) \cap Loads(prog)
                         /\ PrivateTo(<<Uncast(prog.ops[n][1]), x>>) \ {x} # {}
  <1>1. ASSUME Finds(n, x)
        PROVE  /\ x \in Domains(prog) /\ n \in Reported(x) \cap Loads(prog)
               /\ PrivateTo(<<Uncast(prog.ops[n][1]), x>>) \ {x} # {}
    <2>1. PICK r \in PrivateAccesses : r.at = n /\ r.box = x
      BY <1>1, LeakTypes DEF Finds
    <2>2. PICK y \in Domains(prog) : \E m \in Reported(y) \cap Loads(prog) :
            /\ r = Report("access", m, y)
            /\ PrivateTo(<<Uncast(prog.ops[m][1]), y>>) \ {y} # {}
      BY DEF PrivateAccesses
    <2>3. QED
      BY <2>1, <2>2, ReportFields
  <1>2. ASSUME x \in Domains(prog), n \in Reported(x) \cap Loads(prog),
               PrivateTo(<<Uncast(prog.ops[n][1]), x>>) \ {x} # {}
        PROVE  Finds(n, x)
    <2>1. Report("access", n, x) \in reports
      BY <1>2 DEF PrivateAccesses
    <2>2. QED
      BY <2>1, ReportFields DEF Finds
  <1>3. QED
    BY <1>1, <1>2

LEMMA PrivateJudged ==
  ASSUME TypeInv, reports = PrivateAccesses \cup PrivateLeaks, prog.analysis = "private",
         NEW x \in Domains(prog), NEW n \in Reported(x)
  PROVE  Judged(n, x)
  <1> SUFFICES ASSUME NEW z \in Forbidden(n, x)
               PROVE  /\ <<z[1], x>> \in Pairs(prog)
                      /\ Finds(n, x) <=> z[2] \cap state[<<z[1], x>>] # {}
    BY DEF Judged
  <1>1. z \in {<<Uncast(prog.ops[m][1]), {f \in DOMAIN prog.source : prog.source[f][1] # x}>> :
                m \in {n} \cap Loads(prog)}
    BY DEF Forbidden
  <1>2. n \in Loads(prog)
        /\ z = <<Uncast(prog.ops[n][1]), {f \in DOMAIN prog.source : prog.source[f][1] # x}>>
    BY <1>1
  <1>3. Uncast(prog.ops[n][1]) \in Values(prog)
    <2>1. n \in Values(prog) /\ prog.ops[n][1] \in Accessed(n)
      BY <1>2, ProgramShape DEF Loads, Accessed, TypeInv
    <2>2. prog.ops[n][1] \in Values(prog)
      BY <2>1, AccessedType DEF TypeInv
    <2>3. QED
      BY <2>2, AnalysisShape DEF Uncast, TypeInv
  <1>4. <<z[1], x>> \in Pairs(prog)
    BY <1>2, <1>3 DEF Pairs, Contexts, AllContexts
  <1>5. Finds(n, x) <=> PrivateTo(<<z[1], x>>) \ {x} # {}
    BY <1>2, PrivateReports
  <1>6. QED
    BY <1>2, <1>4, <1>5 DEF PrivateTo

(* What is reported is what the facts of the engine say.                   *)
LEMMA ReportsRight ==
  ASSUME FlowInv, StrayInv, SeedsStay, OneOrigin, ReportInv
  PROVE  ReportsFollowFacts
  <1> SUFFICES ASSUME reported, prog.analysis = "private" => prog.keep = "all",
                      NEW x \in Domains(prog), NEW n \in Reported(x), NEW z \in Forbidden(n, x)
               PROVE  /\ Finds(n, x) => \E f \in z[2] : <<z[1], x>> \in Derived(f)
                      /\ /\ callees = prog.graph /\ NoRepeatedArguments /\ ~prog.insensitive
                         /\ \E f \in z[2] : <<z[1], x>> \in Reaches(f)
                         => Finds(n, x)
    BY DEF ReportsFollowFacts
  <1>1. TypeInv /\ FactsWithin /\ Done /\ ReportsMade
    BY DEF FlowInv, StrayInv, ReportInv
  <1>2. prog.analysis \in {"origin", "classified", "private"}
    BY DEF Forbidden
  <1>3. Judged(n, x)
    <2>1. CASE prog.analysis = "origin"
      BY <1>1, <2>1, OriginJudged DEF ReportsMade
    <2>2. CASE prog.analysis = "classified"
      BY <1>1, <2>2, ClassJudged DEF ReportsMade
    <2>3. CASE prog.analysis = "private"
      <3>1. reports = PrivateAccesses \cup PrivateLeaks
        BY <1>1, <2>3 DEF ReportsMade, Kept
      <3>2. QED
        BY <1>1, <2>3, <3>1, PrivateJudged
    <2>4. QED
      BY <1>2, <2>1, <2>2, <2>3
  <1>4. <<z[1], x>> \in Pairs(prog) /\ (Finds(n, x) <=> z[2] \cap state[<<z[1], x>>] # {})
    BY <1>3 DEF Judged
  <1>5. ASSUME NEW f \in z[2] \cap state[<<z[1], x>>] PROVE <<z[1], x>> \in Derived(f)
    <2>1. f \in Facts
      BY <1>1, <1>4 DEF TypeInv, TypeOK
    <2>2. QED
      BY <1>1, <1>4, <2>1, NotStray DEF NoSpuriousFact
  <1>6. ~prog.must
    BY <1>1, <1>2, AnalysisShape DEF TypeInv
  <1>7. QED
    BY <1>1, <1>4, <1>5, <1>6, ReachesKept

(* A use of an untrusted function pointer, of classified or of private     *)
(* data is reported wherever the program makes such a value flow to, and   *)
(* never where it cannot come.                                             *)
THEOREM ReportsJudged == ASpec => []ReportsFollowFacts
  <1>1. AInit => FlowInv /\ StrayInv /\ SeedsStay /\ OneOrigin /\ ReportInv
    BY FlowInit, StrayInit, SeedsInit, OriginInit DEF AInit, ReportInv
  <1>2. FlowInv /\ StrayInv /\ SeedsStay /\ [Next]_vars => FlowInv' /\ StrayInv' /\ SeedsStay'
    BY FlowStep, StrayStep, SeedsStep
  <1>3. OneOrigin /\ [Next]_vars => OneOrigin'
    BY DEF OneOrigin, Next, MergeContext, Merged, Dequeue, Use, UseConstant, UseFindsContexts, UseIgnored,
       UseStore, UseExtern, UseBinaryOp, UseMerge, UseOther, UseArgument, UsePointer, UseReturn,
       Propagate, Rewind, RewindWrite, RewindVisited, RewindStorage, RewindValue, Rewinding,
       Finish, vars
  <1>4. QED
    BY <1>1, <1>2, <1>3, EngineStep, ReportStep, ReportsRight, PTL DEF ASpec

-----------------------------------------------------------------------------
(***************************************************************************)
(* How private data leaves a sandbox: by a flow of the engine, as every    *)
(* fact that a step adds to a pair has come by one.                        *)
(***************************************************************************)
LEMMA CameFrom ==
  ASSUME StrayInv, [Next]_vars, NEW x, NEW e \in Pairs(prog), x \in state'[e], x \notin state[e]
  PROVE  \E d \in Pairs(prog) : x \in state[d] /\ e \in EngineFlows(d)
  <1>1. TypeInv /\ MergeIdle /\ AimInv /\ TaskInv
    BY DEF StrayInv
  <1>2. state \in [Pairs(prog) -> SUBSET Facts]
    BY <1>1 DEF TypeInv, TypeOK
  <1>3. ASSUME NEW y \in Contexts(prog), prog.insensitive, x \in state[<<e[1], y>>]
        PROVE  \E d \in Pairs(prog) : x \in state[d] /\ e \in EngineFlows(d)
    <2>1. <<e[1], y>> \in Pairs(prog) /\ e \in SingleCopies(<<e[1], y>>)
      BY <1>3 DEF Pairs, SingleCopies
    <2>2. e \in EngineFlows(<<e[1], y>>)
      BY <2>1, EngineParts DEF EngineHasParts
    <2>3. QED
      BY <1>3, <2>1, <2>2
  <1>4. CASE MergeContext
    <2> DEFINE vs(y) == {v \in Values(prog) : <<v, y>> \in known}
    <2>1. PICK y \in todo :
            state' = [d \in Pairs(prog) |->
                        IF d[2] = SINGLE /\ d[1] \in vs(y) THEN state[<<d[1], y>>] ELSE state[d]]
      BY <1>4 DEF MergeContext
    <2>2. prog.insensitive /\ y \in Contexts(prog)
      BY <1>1, <1>4, <2>1 DEF MergeContext, MergeIdle, TypeInv, TypeOK
    <2> HIDE DEF vs
    <2>3. x \in state[<<e[1], y>>]
      BY <2>1
    <2>4. QED
      BY <1>3, <2>2, <2>3
  <1>5. CASE Finish
    <2> DEFINE copied == {d \in Values(prog) \X AllContexts(prog) :
                            prog.insensitive /\ <<d[1], SINGLE>> \in known}
    <2>1. state' = [d \in Pairs(prog) |-> IF d \in copied THEN state[<<d[1], SINGLE>>] ELSE state[d]]
      BY <1>5 DEF Finish
    <2>2. e \in copied => prog.insensitive
      OBVIOUS
    <2>3. SINGLE \in Contexts(prog)
      BY DEF Contexts
    <2> HIDE DEF copied
    <2>4. prog.insensitive /\ x \in state[<<e[1], SINGLE>>]
      BY <2>1, <2>2
    <2>5. QED
      BY <1>3, <2>3, <2>4
  <1>6. CASE Propagate
    <2>1. PICK j \in jobs : state' = [state EXCEPT ![j.to] = NewState(j)]
      BY <1>6 DEF Propagate
    <2>2. j.from \subseteq Pairs(prog)
      BY <1>1, <2>1 DEF TypeInv, TypeOK
    <2>3. NewState(j) \subseteq state[j.to] \cup MeetOver(j.from)
      BY DEF NewState
    <2>4. e = j.to /\ x \in MeetOver(j.from)
      BY <1>2, <2>1, <2>3
    <2>5. PICK d \in j.from : x \in state[d]
      BY <2>4 DEF MeetOver
    <2>6. e \in EngineFlows(d)
      BY <1>1, <2>1, <2>4, <2>5 DEF AimInv, Aimed
    <2>7. QED
      BY <2>2, <2>5, <2>6
  <1>7. CASE Rewind
    <2> DEFINE h == Head(rewind)
    <2>1. Rewinding
      BY <1>7 DEF Rewind, RewindWrite, RewindVisited, RewindStorage, RewindValue
    <2>2. h.src \in Pairs(prog) /\ h.src \in RewoundFrom /\ h.dst \in Behind(h.src)
      BY <1>1, <2>1, StackType, StackGood
    <2>3. e \in Behind(h.src) /\ x \in state[h.src]
      <3>1. CASE RewindWrite
        <4>1. Join(h.src, {h.dst})
          BY <3>1 DEF RewindWrite
        <4> HIDE DEF h
        <4>2. QED
          BY <2>2, <4>1, JoinAdds
      <3>2. CASE RewindStorage
        <4> DEFINE a == Strip(h.dst[1])
                   this == IF a \in DOMAIN prog.this THEN prog.this[a] ELSE {}
                   dsts == {<<a, h.dst[2]>>} \cup (UNION {{A} \X ContextsOf(prog.fun[A]) : A \in this})
        <4>1. Join(h.src, dsts)
          BY <3>2 DEF RewindStorage
        <4>2. dsts \subseteq BehindStep(h.dst)
          BY DEF BehindStep
        <4>3. BehindStep(h.dst) \subseteq Behind(h.src)
          BY <1>1, <2>2, BehindFacts DEF TypeInv
        <4> HIDE DEF h, dsts
        <4>4. QED
          BY <4>1, <4>2, <4>3, JoinAdds
      <3>3. CASE RewindVisited \/ RewindValue
        BY <3>3 DEF RewindVisited, RewindValue
      <3>4. QED
        BY <1>7, <3>1, <3>2, <3>3 DEF Rewind
    <2> HIDE DEF h
    <2>4. e \in EngineFlows(h.src)
      BY <2>2, <2>3, EngineParts DEF EngineHasParts, BehindFlows
    <2>5. QED
      BY <2>2, <2>3, <2>4
  <1>8. CASE Use
    BY <1>1, <1>8, UseFacts
  <1>9. CASE Merged \/ Dequeue \/ UNCHANGED vars
    BY <1>9 DEF Merged, Dequeue, vars
  <1>10. QED
    BY <1>4, <1>5, <1>6, <1>7, <1>8, <1>9 DEF Next

(* What derives from the seeds lies in every set that holds it.            *)
LEMMA DerivedLeast ==
  ASSUME TypeInv, NEW x, NEW C, Within(x, C)
  PROVE  Derived(x) \subseteq C
  <1> DEFINE succ == [e \in Pairs(prog) |-> EngineFlows(e)]
  <1>1. succ \in [Pairs(prog) -> SUBSET Pairs(prog)] /\ ClosedIn(C, succ)
    BY EngineFlowsType DEF Within, Sealed, ClosedIn
  <1>2. SeededWith(x) \in SUBSET Pairs(prog) /\ SeededWith(x) \subseteq C /\ C \in SUBSET Pairs(prog)
    BY ProgramsAssumption DEF TypeInv, WellFormed, AnalysisWellFormed, SeededWith, Within, Sealed
  <1>3. Derived(x) = Closure(SeededWith(x), succ)
    BY DEF Derived, SeededWith
  <1> HIDE DEF succ
  <1>4. QED
    BY <1>1, <1>2, <1>3, PairsFinite, ClosureIsLeast, LeastFacts DEF TypeInv

(* A fact derives from its seeds, while the engine runs as in the end.     *)
LEMMA FactsDerive ==
  ASSUME StrayInv, NEW x \in Facts, NEW e \in Pairs(prog), x \in state[e]
  PROVE  e \in Derived(x)
  <1>1. Within(x, Derived(x)) /\ Derived(x) \in SUBSET Pairs(prog)
    BY DerivedSealed DEF StrayInv, Within, Sealed
  <1>2. QED
    BY <1>1 DEF StrayInv, FactsWithin

(* What derives from a seed derives from it in a graph that has grown.     *)
LEMMA DerivedSealedNow == TypeInv => \A x : Within(x, Derived(x))
  BY DerivedSealed

LEMMA DerivedSealedNext == (TypeInv => \A x : Within(x, Derived(x)))'
  BY DerivedSealedNow, PTL

LEMMA DerivedGrows ==
  ASSUME TypeInv, TypeInv', GraphGrows, NEW x
  PROVE  Derived(x) \subseteq Derived(x)'
  <1>1. PICK C : C = Derived(x)'
    OBVIOUS
  <1>2. Within(x, C)'
    BY <1>1, DerivedSealedNext
  <1>3. QED
    BY <1>1, <1>2, WithinBefore, DerivedLeast

-----------------------------------------------------------------------------
(* The ways that lead from S to another context: calls.                    *)
LeavesByCall(c, v, S) ==
  /\ c \in InstrsIn(S) \cap Calls(prog) /\ c \notin prog.extern /\ v \in Operands(prog, c)
  /\ \E g \in callees[<<c, S>>] : CalleeContext(S, g) # S

(* Rewinding stays in S: it goes to callers in S, and to methods there.    *)
LEMMA BehindStays ==
  ASSUME TypeInv, NEW f, NEW S \in Boxes(prog), Confined(f, S),
         NEW e \in Derived(f), e[2] = S, e \in RewoundFrom
  PROVE  \A d \in Behind(e) : d[2] = S
  <1>1. e \in Pairs(prog) /\ Derived(f) \in SUBSET Pairs(prog) /\ EngineFlows(e) \subseteq Derived(f)
    BY DerivedSealed DEF Within, Sealed
  <1>2. Behind(e) \subseteq EngineFlows(e)
    BY EngineParts DEF EngineHasParts, BehindFlows
  <1> DEFINE C == {d \in Behind(e) : d[2] = S}
  <1>3. ASSUME NEW d \in C, NEW t \in BehindStep(d) PROVE t[2] = S
    <2> DEFINE a == Strip(d[1])
               this == IF a \in DOMAIN prog.this THEN prog.this[a] ELSE {}
    <2>1. d[2] = S /\ BehindStep(d) \subseteq Behind(e)
      BY <1>1, <1>3, BehindFacts DEF TypeInv
    <2>2. <<a, S>> \in BehindStep(d)
      BY <2>1 DEF BehindStep
    <2>3. <<a, S>> \in Derived(f)
      BY <1>1, <1>2, <2>1, <2>2
    <2>4. \A A \in this : ContextsOf(prog.fun[A]) \subseteq {S}
      BY <2>3 DEF Confined, SharedThis
    <2>5. \A z \in Passed(a, S) : z[2] = S
      <3> SUFFICES ASSUME NEW z \in Passed(a, S) PROVE z[2] = S
        OBVIOUS
      <3>1. PICK A \in Parameter(a) : z \in UNION {PassedBy(b, A) : b \in Callers(prog.fun[A], S)}
        BY Zenon DEF Passed
      <3>2. PICK b \in Callers(prog.fun[A], S) : z \in PassedBy(b, A)
        BY <3>1, Zenon
      <3>3. ContextsOf(prog.fun[b]) = {S}
        BY <3>2 DEF Callers, Confined
      <3>4. QED
        BY <3>2, <3>3 DEF PassedBy
    <2>6. \/ t = <<a, S>> \/ t \in Passed(a, S)
          \/ \E A \in this : t \in {A} \X ContextsOf(prog.fun[A])
          \/ t \in {Back(a)[i] : i \in DOMAIN Back(a)} \X {S}
      BY <1>3, <2>1 DEF BehindStep
    <2> HIDE DEF a, this
    <2>7. QED
      BY <2>4, <2>5, <2>6
  <1>4. \A d \in C : BehindStep(d) \subseteq C
    BY <1>1, <1>3, BehindFacts DEF TypeInv
  <1>5. Behind(e) \subseteq C
    BY <1>1, <1>4, BehindFacts DEF TypeInv
  <1>6. QED
    BY <1>5

(* A user in S passes a value on in S, unless it calls out of it.          *)
LEMMA UserStays ==
  ASSUME TypeInv, ~prog.insensitive, NEW S \in Boxes(prog), NEW v \in Values(prog),
         NEW u \in Users(prog, v), NEW t \in FlowsAt(u, v, S), t[2] # S
  PROVE  LeavesByCall(u, v, S)
  <1>1. u \in DOMAIN prog.ops /\ u \in Values(prog) /\ S # NONE
    BY ProgramShape, ProgramsAssumption DEF Users, TypeInv, WellFormed
  <1>2. ValuesWellFormed(prog) /\ CallsWellFormed(prog)
    BY ProgramsAssumption DEF TypeInv, WellFormed
  <1>3. /\ prog.extern \subseteq Calls(prog) /\ (prog.kind[u] = "call" <=> u \in Calls(prog))
        /\ prog.kind[u] \in Kinds /\ (prog.kind[u] # "constant" => u \in Instructions(prog))
    BY <1>1, <1>2 DEF CallsWellFormed, ValuesWellFormed
  <1>4. prog.kind[u] # "constant"
    BY FlowsToConstant
  <1>5. IsInContext(u, S)
    BY <1>1, <1>4, FlowsNowhere
  <1>6. /\ prog.kind[u] = "store" => FlowsAt(u, v, S) = {<<prog.ops[u][2], S>>}
        /\ u \in prog.extern => FlowsAt(u, v, S) = ExternResult(u, v) \X {S}
        /\ u \in Calls(prog) \ prog.extern => FlowsAt(u, v, S) = IntoParameters(u, S, v)
        /\ prog.kind[u] = "ret" => FlowsAt(u, v, S) = BackToCallers(prog.fun[u], S)
        /\ prog.kind[u] \in {"phi", "select", "annot", "gep", "load", "other"} =>
              FlowsAt(u, v, S) = {<<u, S>>}
        /\ prog.kind[u] \in {"binop", "intrinsic"} => FlowsAt(u, v, S) = {}
    BY <1>1, <1>3, <1>4, <1>5, FlowsThrough
  <1>7. prog.kind[u] # "ret"
    BY <1>6 DEF BackToCallers
  <1>8. prog.kind[u] \notin {"global", "alloca", "arg", "function"}
    <2> SUFFICES ASSUME prog.kind[u] \in {"global", "alloca", "arg", "function"} PROVE FALSE
      OBVIOUS
    <2>1. /\ u \notin Calls(prog) /\ u \notin prog.extern
          /\ prog.kind[u] # "store" /\ prog.kind[u] # "ret"
          /\ prog.kind[u] \notin {"phi", "select", "annot", "gep", "load", "other"}
      BY <1>3
    <2>2. FlowsAt(u, v, S) = {}
      BY <1>1, <1>4, <1>5, <2>1, Zenon DEF FlowsAt
    <2>3. QED
      BY <2>2
  <1>9. u \in Calls(prog) \ prog.extern /\ t \in IntoParameters(u, S, v)
    BY <1>3, <1>4, <1>6, <1>7, <1>8 DEF Kinds
  <1>10. PICK g \in callees[<<u, S>>] \cap Defined(prog) : \E i \in Positions(u, v) :
           \E a \in Formal(g, i) : t = <<a, CalleeContext(S, g)>>
    BY <1>9, IntoParametersIn
  <1>11. CalleeContext(S, g) # S /\ v \in Operands(prog, u)
    BY <1>10 DEF Positions, Operands
  <1>12. u \in InstrsIn(S)
    BY <1>3, <1>4, <1>5 DEF InstrsIn, IsInContext, ContextsOf
  <1>13. QED
    BY <1>9, <1>10, <1>11, <1>12 DEF LeavesByCall

LEMMA FlowsStay ==
  ASSUME TypeInv, ~prog.insensitive, ~prog.must, NEW f, NEW S \in Boxes(prog), Confined(f, S),
         NEW e \in Derived(f), e[2] = S, NEW t \in EngineFlows(e), t[2] # S
  PROVE  \E c : LeavesByCall(c, e[1], S)
  <1>1. e \in Pairs(prog) /\ e[1] \in Values(prog)
    BY DerivedSealed DEF Within, Sealed, Pairs
  <1>2. CASE t \in Flows(e)
    <2>1. PICK u \in Users(prog, e[1]) : t \in FlowsAt(u, e[1], S)
      BY <1>2 DEF Flows
    <2>2. QED
      BY <1>1, <2>1, UserStays
  <1>3. t \notin BehindFlows(e)
    BY BehindStays DEF BehindFlows
  <1>4. t \notin CalledFlows(e)
    <2> SUFFICES ASSUME t \in CalledFlows(e) PROVE FALSE
      OBVIOUS
    <2>1. PICK u \in {d \in Calls(prog) : prog.called[d] = e[1]} :
            t \in UNION {Formal(w[1], w[2]) \X {CalleeContext(e[2], w[1])} :
                            w \in (callees[<<u, e[2]>>] \cap Defined(prog)) \X DOMAIN prog.ops[u]}
      BY DEF CalledFlows
    <2>2. callees[<<u, S>>] # {}
      BY <2>1
    <2>3. ContextsOf(prog.fun[u]) = {S}
      BY <2>1, <2>2 DEF Confined
    <2>4. u \in InstrsIn(S)
      <3>1. u \in Instructions(prog)
        <4>1. CallsWellFormed(prog)
          BY ProgramsAssumption DEF TypeInv, WellFormed
        <4>2. prog.kind[u] = "call" /\ u \in DOMAIN prog.fun
          BY <2>1, <4>1, ProgramShape DEF CallsWellFormed, TypeInv
        <4>3. QED
          BY <4>2 DEF Instructions
      <3>2. prog.fun[u] \in members[S]
        BY <2>3 DEF ContextsOf
      <3>3. QED
        BY <3>1, <3>2 DEF InstrsIn
    <2>5. prog.kind[e[1]] = "function"
      BY <2>1, <2>4 DEF Confined, Direct, IsFunction
    <2>6. QED
      BY <2>5 DEF Confined
  <1>5. t \notin ResultFlows(e)
    <2> SUFFICES ASSUME t \in ResultFlows(e) PROVE FALSE
      OBVIOUS
    <2>1. PICK r \in {s \in Users(prog, e[1]) : prog.kind[s] = "ret"} :
            t \in UNION {{d} \X CallerContexts(prog.fun[r], d, e[2]) : d \in Callers(prog.fun[r], e[2])}
      BY DEF ResultFlows
    <2>2. PICK d \in Callers(prog.fun[r], S) : t \in {d} \X CallerContexts(prog.fun[r], d, S)
      BY <2>1
    <2>3. ContextsOf(prog.fun[d]) = {S}
      BY <2>2 DEF Callers, Confined
    <2>4. QED
      BY <2>2, <2>3 DEF CallerContexts
  <1>6. MetFlows(e) = {} /\ SingleCopies(e) = {}
    BY DEF MetFlows, SingleCopies
  <1>7. QED
    BY <1>2, <1>3, <1>4, <1>5, <1>6, EngineParts DEF EngineHasParts

-----------------------------------------------------------------------------
(* What is private to S is elsewhere only after it could leave S.          *)
Leaving(f, S) ==
  \E d \in Pairs(prog) : /\ d[2] = S /\ f \in state[d]
                         /\ \E t \in EngineFlows(d) : t[2] # S

EscapeInv ==
  prog.analysis = "private" /\ ~prog.insensitive =>
    \A f \in DOMAIN prog.source :
      LET S == prog.source[f][1]
      IN Confined(f, S) =>
           \A e \in Pairs(prog) : e[2] # S /\ f \in state[e] => Leaving(f, S)

LEMMA EscapeInit == Init => EscapeInv
  <1> SUFFICES ASSUME Init, NEW f, NEW S, Confined(f, S), NEW e \in Pairs(prog), e[2] # S, f \in state[e]
               PROVE  FALSE
    BY DEF EscapeInv
  <1>1. state[e] = IF e \in DOMAIN prog.seed THEN prog.seed[e] ELSE {}
    BY DEF Init
  <1>2. QED
    BY <1>1 DEF Confined

(* The graph that private data flows in stays as it is.                    *)
LEMMA PrivateStatic ==
  ASSUME TypeInv, StaticInv, [Next]_vars, prog.analysis = "private"
  PROVE  UNCHANGED <<prog, callees, members>>
  <1>1. ~prog.tracking
    <2>1. prog.analysis # "none" /\ prog.analysis \notin {"annotated", "inferred"}
      OBVIOUS
    <2>2. QED
      BY <2>1, AnalysisShape DEF TypeInv
  <1>2. StaticInv'
    BY StaticStep
  <1>3. prog' = prog
    BY DEF Next, MergeContext, Merged, Dequeue, Use, UseConstant, UseFindsContexts, UseIgnored,
       UseStore, UseExtern, UseBinaryOp, UseMerge, UseOther, UseArgument, UsePointer, UseReturn,
       Propagate, Rewind, RewindWrite, RewindVisited, RewindStorage, RewindValue, Rewinding,
       Finish, vars
  <1>4. \A g, x : MembersIn(g, x)' = MembersIn(g', x)
    BY <1>3 DEF MembersIn
  <1>5. prog.graph' = prog.graph /\ Domains(prog)' = Domains(prog)
    BY <1>3
  <1>6. QED
    BY <1>1, <1>2, <1>3, <1>4, <1>5 DEF StaticInv

LEMMA ConfinedBefore ==
  ASSUME TypeInv, TypeInv', GraphGrows, UNCHANGED <<prog, callees, members>>, NEW f, NEW S, Confined(f, S)'
  PROVE  Confined(f, S)
  <1>1. \A g : ContextsOf(g)' = ContextsOf(g)
    BY DEF ContextsOf, Domains, Boxes
  <1>2. Derived(f) \subseteq Derived(f)'
    BY DerivedGrows
  <1>3. /\ InstrsIn(S)' = InstrsIn(S) /\ Calls(prog)' = Calls(prog)
        /\ \A c : Direct(c)' = Direct(c)
        /\ \A a : SharedThis(a)' = SharedThis(a)
    BY DEF InstrsIn, Instructions, Values, Calls, Direct, IsFunction, SharedThis
  <1>4. QED
    BY <1>1, <1>2, <1>3 DEF Confined

(* Data that could leave still can: nothing is lost, and flows stay.       *)
LEMMA LeavingStays ==
  ASSUME FlowInv, StrayInv, [Next]_vars, GraphGrows, ~prog.must, ~prog.insensitive, ~prog.tracking,
         NEW f, NEW S, Confined(f, S), Leaving(f, S)
  PROVE  Leaving(f, S)'
  <1>1. PICK d \in Pairs(prog) : /\ d[2] = S /\ f \in state[d]
                                /\ \E t \in EngineFlows(d) : t[2] # S
    BY DEF Leaving
  <1>2. PICK t \in EngineFlows(d) : t[2] # S
    BY <1>1
  <1>3. TypeInv /\ f \in Facts
    BY <1>1 DEF FlowInv, TypeInv, TypeOK
  <1>4. d \in Derived(f)
    BY <1>1, <1>3, FactsDerive
  <1>5. f \in Fitting(d[1])
    BY <1>3, <1>4 DEF Confined, Fitting
  <1>6. f \in state'[d]
    BY <1>1, <1>5, FactsStay
  <1>7. t \in EngineFlows(d)' /\ d \in Pairs(prog)'
    BY <1>2, <1>3, EngineGrows DEF GraphGrows, Pairs, Values, Contexts, AllContexts, Domains, Boxes
  <1>8. QED
    BY <1>1, <1>2, <1>6, <1>7 DEF Leaving

LEMMA EscapeStep ==
  FlowInv /\ StrayInv /\ StaticInv /\ EscapeInv /\ [Next]_vars => EscapeInv'
  <1> SUFFICES ASSUME FlowInv, StrayInv, StaticInv, EscapeInv, [Next]_vars,
                      (prog.analysis = "private" /\ ~prog.insensitive)'
               PROVE  (\A f \in DOMAIN prog.source :
                         LET S == prog.source[f][1]
                         IN Confined(f, S) =>
                              \A e \in Pairs(prog) : e[2] # S /\ f \in state[e] => Leaving(f, S))'
    BY DEF EscapeInv
  <1>1. TypeInv /\ TypeInv' /\ GraphGrows
    BY TypeStep, GraphStep DEF StrayInv
  <1>2. prog' = prog /\ prog.analysis = "private" /\ ~prog.insensitive
    BY <1>1 DEF GraphGrows
  <1>3. UNCHANGED <<prog, callees, members>>
    BY <1>1, <1>2, PrivateStatic
  <1>4. ~prog.must /\ ~prog.tracking
    <2>1. /\ prog.analysis # "none" /\ prog.analysis \notin {"annotated", "inferred"}
          /\ prog.analysis \notin {"fds", "capability", "declassified"}
      BY <1>2
    <2>2. QED
      BY <1>1, <2>1, AnalysisShape DEF TypeInv
  <1>5. Pairs(prog)' = Pairs(prog)
    BY <1>2 DEF Pairs, Values, Contexts, AllContexts, Domains, Boxes
  <1>6. ASSUME NEW f \in DOMAIN prog.source, NEW S, S = prog.source[f][1], Confined(f, S)',
               NEW e \in Pairs(prog), e[2] # S, f \in state'[e]
        PROVE  Leaving(f, S)'
    <2>1. Confined(f, S)
      BY <1>1, <1>3, <1>6, ConfinedBefore
    <2>2. \A d \in Pairs(prog) : d[2] # S /\ f \in state[d] => Leaving(f, S)
      BY <1>2, <1>6, <2>1 DEF EscapeInv
    <2>3. Leaving(f, S)
      <3>1. CASE f \in state[e]
        BY <1>6, <2>2, <3>1
      <3>2. CASE f \notin state[e]
        <4>1. PICK d \in Pairs(prog) : f \in state[d] /\ e \in EngineFlows(d)
          BY <1>6, <3>2, CameFrom
        <4>2. QED
          BY <1>6, <2>2, <4>1 DEF Leaving
      <3>3. QED
        BY <3>1, <3>2
    <2>4. QED
      BY <1>1, <1>2, <1>4, <2>1, <2>3, LeavingStays
  <1>7. QED
    BY <1>2, <1>5, <1>6

(* Without contexts there is no sandbox that anything is confined to.      *)
SingleSeeds ==
  prog.analysis = "private" /\ prog.insensitive => \A e \in DOMAIN prog.seed : e[2] = SINGLE

LEMMA SingleSeedsInit == AInit => SingleSeeds
  <1> SUFFICES ASSUME AInit, prog.analysis = "private", prog.insensitive, NEW e \in DOMAIN prog.seed
               PROVE  e[2] = SINGLE
    BY DEF SingleSeeds
  <1>1. prog.seed = PrivateSeeds
    BY DEF AInit, Seeds
  <1>2. PICK f \in DOMAIN prog.source :
          e \in SourcePairs(prog.source[f][2]) \cup GlobalPairs(prog.source[f][2])
    BY <1>1 DEF PrivateSeeds
  <1>3. QED
    BY <1>2 DEF SourcePairs, GlobalPairs, At, ContextsOf

LEMMA NothingConfined ==
  ASSUME StrayInv, SingleSeeds, prog.analysis = "private", prog.insensitive,
         NEW f, NEW S \in Boxes(prog), Confined(f, S), NEW e \in Pairs(prog)
  PROVE  f \notin state[e]
  <1> SUFFICES ASSUME f \in state[e] PROVE FALSE
    OBVIOUS
  <1>1. TypeInv /\ f \in Facts /\ FactsWithin
    BY DEF StrayInv, TypeInv, TypeOK
  <1>2. S # SINGLE
    BY <1>1, ProgramsAssumption DEF TypeInv, WellFormed
  <1>3. SeededWith(f) = {}
    BY <1>2 DEF SeededWith, SingleSeeds, Confined
  <1>4. Within(f, {})
    BY <1>3 DEF Within, Sealed
  <1>5. QED
    BY <1>1, <1>4 DEF FactsWithin

(* A call that leads out of S is reported.                                 *)
LEMMA LeakIsReported ==
  ASSUME TypeInv, StaticInv, ~prog.tracking, ~prog.insensitive, prog.analysis = "private",
         NEW f \in DOMAIN prog.source, NEW S \in Boxes(prog), S = prog.source[f][1],
         Confined(f, S), members[S] \cap Defined(prog) \subseteq prog.report,
         NEW v, f \in state[<<v, S>>], NEW c, LeavesByCall(c, v, S)
  PROVE  \E t : t # "access" /\ Report(t, c, S) \in PrivateLeaks
  <1>1. /\ c \in InstrsIn(S) \cap Calls(prog) /\ c \notin prog.extern /\ v \in Operands(prog, c)
        /\ Direct(c)
    BY DEF LeavesByCall, Confined
  <1>2. PICK g \in callees[<<c, S>>] : CalleeContext(S, g) # S
    BY DEF LeavesByCall
  <1>3. g = prog.called[c]
    <2>1. <<c, S>> \in Calls(prog) \X Contexts(prog)
      BY <1>1 DEF Contexts, AllContexts, Domains
    <2>2. callees = prog.graph /\ DOMAIN prog.graph = Calls(prog) \X Contexts(prog)
      BY DEF StaticInv, TypeInv, TypeOK
    <2>3. prog.graph[<<c, S>>] \subseteq {prog.called[c]}
      BY <1>1, <2>1, <2>2, AnalysisShape DEF TypeInv, Direct, IsFunction
    <2>4. QED
      BY <1>2, <2>2, <2>3
  <1>4. c \in Reported(S)
    <2>1. prog.fun[c] \in Defined(prog) /\ prog.fun[c] \in members[S]
      BY <1>1, ProgramShape DEF InstrsIn, TypeInv
    <2>2. QED
      BY <1>1, <2>1 DEF Reported
  <1>5. Own(S, v) /\ AnyOwn(S, c)
    BY <1>1 DEF Own, AnyOwn, PrivateTo
  <1>6. ~(c \in DOMAIN prog.name /\ prog.name[c] = "setenv")
    BY <1>1, AnalysisShape DEF TypeInv
  <1>7. g \in prog.gates[S] \/ g \in EntryPoints(prog) \ prog.entry[S]
    <2>1. CASE g \in EntryPoints(prog)
      <3>1. CalleeContext(S, g) = CHOOSE T \in Boxes(prog) : g \in prog.entry[T]
        BY <2>1 DEF CalleeContext
      <3>2. ASSUME g \in prog.entry[S] PROVE FALSE
        <4>1. \A T \in Boxes(prog) : g \in prog.entry[T] => T = S
          BY <3>2, ProgramsAssumption DEF TypeInv, WellFormed, CallsWellFormed
        <4>2. QED
          BY <1>2, <3>1, <3>2, <4>1
      <3>3. QED
        BY <2>1, <3>2
    <2>2. CASE g \notin EntryPoints(prog)
      BY <1>2, <2>2 DEF CalleeContext
    <2>3. QED
      BY <2>1, <2>2
  <1>8. PICK t \in {"callgate", "cross_sandbox"} : t \in LeakByCall(S, c)
    BY <1>1, <1>3, <1>5, <1>6, <1>7 DEF LeakByCall
  <1>9. Report(t, c, S) \in PrivateLeaks
    BY <1>1, <1>4, <1>8 DEF PrivateLeaks
  <1>10. QED
    BY <1>8, <1>9

LEMMA EscapesSeen ==
  ASSUME StrayInv, StaticInv, EscapeInv, SingleSeeds, ReportInv
  PROVE  EscapesReported
  <1> SUFFICES ASSUME reported, prog.analysis = "private", NEW f \in DOMAIN prog.source,
                      NEW S, S = prog.source[f][1],
                      Confined(f, S), members[S] \cap Defined(prog) \subseteq prog.report,
                      NEW e \in Values(prog) \X (Domains(prog) \ {S}), f \in state[e]
               PROVE  \E r \in reports : r.box = S /\ r.type # "access"
    BY DEF EscapesReported
  <1>1. TypeInv /\ ReportsMade
    BY DEF StrayInv, ReportInv
  <1>2. ~prog.must /\ ~prog.tracking
    <2>1. /\ prog.analysis # "none" /\ prog.analysis \notin {"annotated", "inferred"}
          /\ prog.analysis \notin {"fds", "capability", "declassified"}
      OBVIOUS
    <2>2. QED
      BY <1>1, <2>1, AnalysisShape DEF TypeInv
  <1>3. S \in Boxes(prog)
    <2>1. {prog.source[h] : h \in DOMAIN prog.source}
            = UNION {{T} \X PrivateSources(prog, T) : T \in Boxes(prog)}
      BY <1>1, AnalysisShape DEF TypeInv
    <2>2. prog.source[f] \in UNION {{T} \X PrivateSources(prog, T) : T \in Boxes(prog)}
      BY <2>1
    <2>3. QED
      BY <2>2
  <1>4. e \in Pairs(prog) /\ e[2] # S
    BY DEF Pairs, Contexts, AllContexts
  <1>5. ~prog.insensitive
    BY <1>3, <1>4, NothingConfined
  <1>6. Leaving(f, S)
    BY <1>4, <1>5 DEF EscapeInv
  <1>7. PICK d \in Pairs(prog) : /\ d[2] = S /\ f \in state[d]
                                /\ \E t \in EngineFlows(d) : t[2] # S
    BY <1>6 DEF Leaving
  <1>8. d \in Derived(f)
    <2>1. f \in Facts
      BY <1>1, <1>7 DEF TypeInv, TypeOK
    <2>2. QED
      BY <1>7, <2>1, FactsDerive
  <1>9. PICK c : LeavesByCall(c, d[1], S)
    BY <1>1, <1>2, <1>3, <1>5, <1>7, <1>8, FlowsStay
  <1>10. d = <<d[1], S>>
    BY <1>7 DEF Pairs
  <1>11. PICK t : t # "access" /\ Report(t, c, S) \in PrivateLeaks
    BY <1>1, <1>2, <1>3, <1>5, <1>7, <1>9, <1>10, LeakIsReported
  <1>12. Report(t, c, S) \in reports
    BY <1>1, <1>11 DEF ReportsMade
  <1>13. QED
    BY <1>11, <1>12, ReportFields

(* Data that is private to a sandbox does not come to be known anywhere    *)
(* else, by arguments, results, storage or rewinding and in whatever order *)
(* the engine works, without a report that the sandbox leaks.              *)
THEOREM EscapesJudged == ASpec => []EscapesReported
  <1>1. AInit => FlowInv /\ StrayInv /\ StaticInv /\ EscapeInv /\ SingleSeeds /\ ReportInv
    BY FlowInit, StrayInit, EscapeInit, SingleSeedsInit DEF AInit, Init, StaticInv, ReportInv
  <1>2. StrayInv /\ StaticInv /\ [Next]_vars => StrayInv' /\ StaticInv'
    BY StrayStep, StaticStep DEF StrayInv
  <1>3. SingleSeeds /\ [Next]_vars => SingleSeeds'
    BY DEF SingleSeeds, Next, MergeContext, Merged, Dequeue, Use, UseConstant, UseFindsContexts, UseIgnored,
       UseStore, UseExtern, UseBinaryOp, UseMerge, UseOther, UseArgument, UsePointer, UseReturn,
       Propagate, Rewind, RewindWrite, RewindVisited, RewindStorage, RewindValue, Rewinding,
       Finish, vars
  <1>4. QED
    BY <1>1, <1>2, <1>3, EngineStep, FlowStep, EscapeStep, ReportStep, EscapesSeen, PTL DEF ASpec
=============================================================================
