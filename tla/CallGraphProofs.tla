--------------------------- MODULE CallGraphProofs ---------------------------
(***************************************************************************)
(* Theorems about the call graph of CallGraph and the memberships cached   *)
(* of it, for every set of well-formed programs.                           *)
(***************************************************************************)
EXTENDS CallGraph, TLAPS

-----------------------------------------------------------------------------
(* The least closed set: it is a subset, it is closed, it holds its start, *)
(* and it grows with both.                                                 *)

LEMMA ReachWithin ==
  ASSUME NEW F, NEW succ, NEW start
  PROVE  Reach(F, succ, start) \subseteq F
  BY DEF Reach

LEMMA ReachGrows ==
  ASSUME NEW F, NEW succ1, NEW succ2, NEW start1, NEW start2,
         start1 \subseteq start2, \A f \in F : succ1[f] \subseteq succ2[f]
  PROVE  Reach(F, succ1, start1) \subseteq Reach(F, succ2, start2)
  <1> SUFFICES ASSUME NEW f \in Reach(F, succ1, start1), NEW C \in SUBSET F,
                      start2 \subseteq C, ClosedUnder(succ2, C)
               PROVE  f \in C
    BY DEF Reach
  <1>1. start1 \subseteq C /\ ClosedUnder(succ1, C)
    BY DEF ClosedUnder
  <1>2. QED
    BY <1>1 DEF Reach

-----------------------------------------------------------------------------
(* Type correctness.                                                       *)

GraphType ==
  /\ callToCallees \in [Calls(prog) \X Contexts(prog) -> SUBSET prog.func]
  /\ calleeToCalls \in [prog.func \X Contexts(prog) -> SUBSET Calls(prog)]
  /\ funcToCallees \in [prog.func \X Contexts(prog) -> SUBSET prog.func]

TypeInv == prog \in Programs /\ TypeOK

NewCallees(callees) ==
  /\ DOMAIN callees \subseteq Calls(prog)
  /\ \A c \in DOMAIN callees : callees[c] \subseteq prog.func

LEMMA InsertType ==
  ASSUME GraphType, NEW x, NEW callees, NewCallees(callees), Insert(x, callees), prog' = prog
  PROVE  GraphType'
  <1>1. callToCallees' \in [Calls(prog) \X Contexts(prog) -> SUBSET prog.func]
    BY DEF GraphType, Insert, NewCallees
  <1>2. calleeToCalls' \in [prog.func \X Contexts(prog) -> SUBSET Calls(prog)]
    BY DEF GraphType, Insert, NewCallees
  <1>3. funcToCallees' \in [prog.func \X Contexts(prog) -> SUBSET prog.func]
    BY DEF GraphType, Insert, NewCallees
  <1>4. QED
    BY <1>1, <1>2, <1>3 DEF GraphType

(* What LookAt records is a program's static callees.                      *)
LEMMA LookAtCallees ==
  ASSUME TypeInv, phase = "build", NEW f \in worklist
  PROVE  /\ CallsOf(prog, ctx, f) \subseteq Calls(prog)
         /\ NewCallees([c \in CallsOf(prog, ctx, f) |-> prog.static[c]])
  <1>1. WellFormed(prog)
    BY ProgramsAssumption DEF TypeInv
  <1>2. CallsOf(prog, ctx, f) \subseteq Calls(prog)
    <2>1. CASE f = Region
      BY <1>1, <2>1 DEF CallsOf, TypeInv, TypeOK, WellFormed
    <2>2. CASE f # Region
      BY <2>2 DEF CallsOf
    <2>3. QED
      BY <2>1, <2>2
  <1>3. \A c \in Calls(prog) : prog.static[c] \subseteq prog.func
    BY <1>1 DEF WellFormed
  <1>4. QED
    BY <1>2, <1>3 DEF NewCallees

LEMMA TargetCallees ==
  ASSUME TypeInv, NEW c \in DOMAIN prog.targets, NEW T \in SUBSET prog.targets[c]
  PROVE  NewCallees([d \in {c} |-> T])
  <1>1. WellFormed(prog)
    BY ProgramsAssumption DEF TypeInv
  <1>2. c \in Calls(prog) /\ T \subseteq prog.func
    BY <1>1 DEF WellFormed
  <1>3. QED
    BY <1>2 DEF NewCallees

LEMMA TypeInit == Init => TypeInv
  <1> SUFFICES ASSUME Init PROVE TypeInv
    OBVIOUS
  <1>1. PRIV \in Contexts(prog)
    BY DEF Contexts
  <1>2. QED
    BY <1>1 DEF Init, TypeInv, TypeOK

LEMMA TypeStep == TypeInv /\ [Next]_vars => TypeInv'
  <1> SUFFICES ASSUME TypeInv, [Next]_vars PROVE TypeInv'
    OBVIOUS
  <1>0. WellFormed(prog) /\ GraphType
    BY ProgramsAssumption DEF TypeInv, TypeOK, GraphType
  <1>1. CASE NextContext
    <2>1. PICK x \in todo : ctx' = x /\ todo' = todo \ {x} /\ worklist' = Starts(prog, x)
      BY <1>1 DEF NextContext
    <2>2. x \in Contexts(prog)
      BY <2>1 DEF TypeInv, TypeOK
    <2>3. /\ Starts(prog, x) \subseteq prog.func \cup {Region}
          /\ Region \in Starts(prog, x) => x \in DOMAIN prog.region
      BY <1>0, <2>2 DEF Starts, WellFormed, Contexts, Boxes
    <2>4. QED
      BY <1>1, <2>1, <2>2, <2>3 DEF NextContext, TypeInv, TypeOK, graph
  <1>2. CASE Skip
    BY <1>2 DEF Skip, TypeInv, TypeOK, graph
  <1>3. CASE LookAt
    <2>1. PICK f \in worklist :
            /\ ~Skipped(f)
            /\ Insert(ctx, [c \in CallsOf(prog, ctx, f) |-> prog.static[c]])
            /\ worklist' = (worklist \ {f}) \cup UNION {prog.static[c] : c \in CallsOf(prog, ctx, f)}
            /\ processed' = IF f = Region THEN processed ELSE processed \cup {f}
      BY <1>3 DEF LookAt
    <2>2. /\ phase = "build" /\ phase' = phase /\ prog' = prog /\ ctx' = ctx
          /\ todo' = todo /\ functions' = functions /\ privileged' = privileged
      BY <1>3 DEF LookAt
    <2>3. GraphType'
      BY <1>0, <2>1, <2>2, LookAtCallees, InsertType
    <2>4. worklist' \subseteq prog.func \cup {Region}
      BY <1>0, <2>1, <2>2, LookAtCallees DEF TypeInv, TypeOK, WellFormed
    <2>5. Region \notin UNION {prog.static[c] : c \in CallsOf(prog, ctx, f)}
      <3>1. CallsOf(prog, ctx, f) \subseteq Calls(prog)
        BY <2>2, LookAtCallees, Zenon
      <3>2. Region \notin prog.func /\ \A c \in Calls(prog) : prog.static[c] \subseteq prog.func
        BY <1>0 DEF WellFormed
      <3>3. QED
        BY <3>1, <3>2
    <2>6. processed' \subseteq prog.func
      BY <2>1 DEF TypeInv, TypeOK
    <2>7. QED
      BY <2>1, <2>2, <2>3, <2>4, <2>5, <2>6 DEF TypeInv, TypeOK, GraphType
  <1>4. CASE CalculatePrivileged
    <2>1. privileged' \subseteq prog.func
      BY <1>4, ReachWithin DEF CalculatePrivileged, PrivilegedIn, TypeInv, TypeOK
    <2>2. QED
      BY <1>4, <2>1 DEF CalculatePrivileged, TypeInv, TypeOK, graph, building
  <1>5. CASE ReinitSandboxes
    <2>1. functions' \in [Boxes(prog) -> SUBSET prog.func]
      BY <1>5, ReachWithin DEF ReinitSandboxes, FunctionsIn
    <2>2. QED
      BY <1>5, <2>1 DEF ReinitSandboxes, TypeInv, TypeOK, graph, building
  <1>6. CASE AddTargets
    <2>0. PICK c \in DOMAIN prog.targets, x \in Contexts(prog) :
            \E T \in SUBSET prog.targets[c] : Insert(x, [d \in {c} |-> T]) /\ Refresh(x)
      BY <1>6 DEF AddTargets
    <2>1. PICK T \in SUBSET prog.targets[c] : Insert(x, [d \in {c} |-> T]) /\ Refresh(x)
      BY <2>0
    <2>2. prog' = prog /\ phase' = phase /\ UNCHANGED building
      BY <1>6 DEF AddTargets
    <2>3. GraphType'
      BY <1>0, <2>1, <2>2, TargetCallees, InsertType
    <2>4. functions' \in [Boxes(prog) -> SUBSET prog.func] /\ privileged' \subseteq prog.func
      <3>1. CASE x = PRIV
        BY <2>1, <2>2, <3>1, ReachWithin DEF Refresh, PrivilegedIn, TypeInv, TypeOK
      <3>2. CASE x # PRIV
        BY <2>1, <2>2, <3>2, ReachWithin DEF Refresh, FunctionsIn, TypeInv, TypeOK
      <3>3. QED
        BY <3>1, <3>2
    <2>5. QED
      BY <2>2, <2>3, <2>4 DEF TypeInv, TypeOK, GraphType, building
  <1>7. CASE EndPointers
    BY <1>7 DEF EndPointers, TypeInv, TypeOK, graph, building
  <1>8. CASE UNCHANGED vars
    BY <1>8 DEF vars, TypeInv, TypeOK, graph, building
  <1>9. QED
    BY <1>1, <1>2, <1>3, <1>4, <1>5, <1>6, <1>7, <1>8 DEF Next

THEOREM TypeCorrect == Spec => []TypeInv
  BY TypeInit, TypeStep, PTL DEF Spec

(* Graph, worklist and memberships keep their types, whatever the program. *)
THEOREM TypeSafety == Spec => []TypeOK
  <1>1. TypeInv => TypeOK
    BY DEF TypeInv
  <1>2. QED
    BY <1>1, TypeCorrect, PTL

-----------------------------------------------------------------------------
(* The maps that addCallees() keeps by hand.                               *)

(* MapsAgree, one context and one edge at a time.                          *)
Agree(x) ==
  /\ \A g \in prog.func, c \in Calls(prog) :
       c \in calleeToCalls[<<g, x>>] <=> g \in callToCallees[<<c, x>>]
  /\ \A g \in prog.func, f \in prog.func :
       g \in funcToCallees[<<f, x>>] <=>
         \E c \in Calls(prog) : prog.fun[c] = f /\ g \in callToCallees[<<c, x>>]

EdgesAgree == \A x \in Contexts(prog) : Agree(x)

LEMMA EdgesMaps == TypeInv /\ EdgesAgree => MapsAgree
  <1> SUFFICES ASSUME TypeInv, EdgesAgree, NEW x \in Contexts(prog), NEW g \in prog.func
               PROVE  /\ calleeToCalls[<<g, x>>] =
                           {c \in Calls(prog) : g \in callToCallees[<<c, x>>]}
                      /\ \A f \in prog.func :
                           g \in funcToCallees[<<f, x>>] <=>
                             \E c \in Calls(prog) :
                               prog.fun[c] = f /\ g \in callToCallees[<<c, x>>]
    BY Zenon DEF MapsAgree
  <1>1. Agree(x)
    BY DEF EdgesAgree
  <1>2. calleeToCalls[<<g, x>>] \subseteq Calls(prog)
    BY DEF TypeInv, TypeOK
  <1>3. calleeToCalls[<<g, x>>] = {c \in Calls(prog) : g \in callToCallees[<<c, x>>]}
    BY <1>1, <1>2 DEF Agree
  <1>4. \A f \in prog.func :
          g \in funcToCallees[<<f, x>>] <=>
            \E c \in Calls(prog) : prog.fun[c] = f /\ g \in callToCallees[<<c, x>>]
    BY <1>1, Zenon DEF Agree
  <1>5. QED
    BY <1>3, <1>4

LEMMA InsertAgrees ==
  ASSUME GraphType, NEW x, NEW callees, NewCallees(callees), Insert(x, callees),
         prog' = prog, NEW y \in Contexts(prog), Agree(y)
  PROVE  Agree(y)'
  <1>1. \A c \in Calls(prog), g \in prog.func :
          g \in callToCallees'[<<c, y>>] <=>
            \/ g \in callToCallees[<<c, y>>]
            \/ y = x /\ c \in DOMAIN callees /\ g \in callees[c]
    BY DEF Insert, GraphType
  <1>2. \A c \in Calls(prog), g \in prog.func :
          c \in calleeToCalls'[<<g, y>>] <=>
            \/ c \in calleeToCalls[<<g, y>>]
            \/ y = x /\ c \in DOMAIN callees /\ g \in callees[c]
    BY DEF Insert, GraphType
  <1>3. \A f \in prog.func, g \in prog.func :
          g \in funcToCallees'[<<f, y>>] <=>
            \/ g \in funcToCallees[<<f, y>>]
            \/ y = x /\ \E c \in DOMAIN callees : prog.fun[c] = f /\ g \in callees[c]
    BY DEF Insert, GraphType
  <1>4. \A g \in prog.func, c \in Calls(prog) :
          c \in calleeToCalls'[<<g, y>>] <=> g \in callToCallees'[<<c, y>>]
    BY <1>1, <1>2 DEF Agree
  <1>5. DOMAIN callees \subseteq Calls(prog)
    BY DEF NewCallees
  <1>6. ASSUME NEW g \in prog.func, NEW f \in prog.func
        PROVE  g \in funcToCallees'[<<f, y>>] <=>
                 \E c \in Calls(prog) : prog.fun[c] = f /\ g \in callToCallees'[<<c, y>>]
    <2>1. g \in funcToCallees[<<f, y>>] <=>
            \E c \in Calls(prog) : prog.fun[c] = f /\ g \in callToCallees[<<c, y>>]
      BY DEF Agree
    <2>2. QED
      BY <1>1, <1>3, <1>5, <2>1, SMTT(60)
  <1>7. Calls(prog)' = Calls(prog)
    BY DEF Calls
  <1>8. QED
    BY <1>4, <1>6, <1>7 DEF Agree

(* The call-to-callee, callee-to-call and function-to-callee maps describe *)
(* one set of edges at every moment, whatever addCallees() was given.      *)
THEOREM MapsConsistent == Spec => []MapsAgree
  <1>1. Init => EdgesAgree
    BY DEF Init, EdgesAgree, Agree
  <1>2. TypeInv /\ EdgesAgree /\ [Next]_vars => EdgesAgree'
    <2> SUFFICES ASSUME TypeInv, EdgesAgree, [Next]_vars, NEW y \in Contexts(prog)'
                 PROVE  Agree(y)'
      BY DEF EdgesAgree
    <2>0. GraphType /\ prog' = prog
      BY DEF TypeInv, TypeOK, GraphType, Next, vars, NextContext, Skip, LookAt,
             CalculatePrivileged, ReinitSandboxes, AddTargets, EndPointers
    <2>1. y \in Contexts(prog) /\ Agree(y)
      BY <2>0 DEF EdgesAgree, Contexts, Boxes
    <2>2. CASE LookAt
      <3>1. PICK f \in worklist :
              Insert(ctx, [c \in CallsOf(prog, ctx, f) |-> prog.static[c]])
        BY <2>2 DEF LookAt
      <3>2. phase = "build"
        BY <2>2 DEF LookAt
      <3>3. QED
        BY <2>0, <2>1, <3>1, <3>2, LookAtCallees, InsertAgrees
    <2>3. CASE AddTargets
      <3>1. PICK c \in DOMAIN prog.targets, x \in Contexts(prog) :
              \E T \in SUBSET prog.targets[c] : Insert(x, [d \in {c} |-> T])
        BY <2>3 DEF AddTargets
      <3>2. PICK T \in SUBSET prog.targets[c] : Insert(x, [d \in {c} |-> T])
        BY <3>1
      <3>3. QED
        BY <2>0, <2>1, <3>2, TargetCallees, InsertAgrees
    <2>4. CASE UNCHANGED graph
      BY <2>0, <2>1, <2>4 DEF Agree, graph, Calls
    <2>5. QED
      BY <2>2, <2>3, <2>4
      DEF Next, vars, NextContext, Skip, CalculatePrivileged, ReinitSandboxes, EndPointers
  <1>3. QED
    BY <1>1, <1>2, TypeCorrect, EdgesMaps, PTL DEF Spec

-----------------------------------------------------------------------------
(* The cached memberships.                                                 *)

(* Privileged methods are calculated a phase before sandboxes are.         *)
CachesInv ==
  /\ phase = "build" => privileged = {}
  /\ phase # "build" => privileged = PrivilegedIn(funcToCallees)
  /\ Ready =>
       \A S \in Boxes(prog) : functions[S] = FunctionsIn(callToCallees, funcToCallees, S)

(* An edge of one context is no edge of another, and takes none away.      *)
LEMMA InsertLocal ==
  ASSUME GraphType, NEW x, NEW callees, NewCallees(callees), Insert(x, callees),
         NEW y \in Contexts(prog)
  PROVE  /\ \A c \in Calls(prog) :
              /\ callToCallees[<<c, y>>] \subseteq callToCallees'[<<c, y>>]
              /\ y # x => callToCallees'[<<c, y>>] = callToCallees[<<c, y>>]
         /\ \A f \in prog.func :
              /\ funcToCallees[<<f, y>>] \subseteq funcToCallees'[<<f, y>>]
              /\ y # x => funcToCallees'[<<f, y>>] = funcToCallees[<<f, y>>]
  BY DEF GraphType, Insert

LEMMA FunctionsLocal ==
  ASSUME WellFormed(prog), NEW S \in Boxes(prog), NEW c2c, NEW f2c, NEW d2c, NEW e2c,
         \A c \in Calls(prog) : c2c[<<c, S>>] = d2c[<<c, S>>],
         \A f \in prog.func : f2c[<<f, S>>] = e2c[<<f, S>>]
  PROVE  FunctionsIn(c2c, f2c, S) = FunctionsIn(d2c, e2c, S)
  <1>1. Initial(c2c, S) = Initial(d2c, S)
    <2>1. CASE S \in DOMAIN prog.entry
      BY <2>1 DEF Initial
    <2>2. CASE S \notin DOMAIN prog.entry
      <3>1. prog.region[S] \subseteq Calls(prog)
        BY <2>2 DEF WellFormed, Boxes
      <3>2. QED
        BY <2>2, <3>1 DEF Initial
    <2>3. QED
      BY <2>1, <2>2
  <1>2. [f \in prog.func |-> {g \in f2c[<<f, S>>] : ~Foreign(prog, S, g)}]
          = [f \in prog.func |-> {g \in e2c[<<f, S>>] : ~Foreign(prog, S, g)}]
    OBVIOUS
  <1>3. QED
    BY <1>1, <1>2 DEF FunctionsIn

LEMMA FunctionsGrow ==
  ASSUME WellFormed(prog), NEW S \in Boxes(prog), NEW c2c, NEW f2c, NEW d2c, NEW e2c,
         \A c \in Calls(prog) : c2c[<<c, S>>] \subseteq d2c[<<c, S>>],
         \A f \in prog.func : f2c[<<f, S>>] \subseteq e2c[<<f, S>>]
  PROVE  FunctionsIn(c2c, f2c, S) \subseteq FunctionsIn(d2c, e2c, S)
  <1>1. Initial(c2c, S) \subseteq Initial(d2c, S)
    <2>1. CASE S \in DOMAIN prog.entry
      BY <2>1 DEF Initial
    <2>2. CASE S \notin DOMAIN prog.entry
      <3>1. prog.region[S] \subseteq Calls(prog)
        BY <2>2 DEF WellFormed, Boxes
      <3>2. QED
        BY <2>2, <3>1 DEF Initial
    <2>3. QED
      BY <2>1, <2>2
  <1> DEFINE succ1 == [f \in prog.func |-> {g \in f2c[<<f, S>>] : ~Foreign(prog, S, g)}]
             succ2 == [f \in prog.func |-> {g \in e2c[<<f, S>>] : ~Foreign(prog, S, g)}]
  <1>2. \A f \in prog.func : succ1[f] \subseteq succ2[f]
    OBVIOUS
  <1>3. Reach(prog.func, succ1, Initial(c2c, S)) \subseteq Reach(prog.func, succ2, Initial(d2c, S))
    <2> HIDE DEF succ1, succ2
    <2>1. QED
      BY <1>1, <1>2, ReachGrows
  <1>4. QED
    BY <1>3 DEF FunctionsIn

LEMMA PrivilegedGrow ==
  ASSUME NEW f2c, NEW e2c,
         \A f \in prog.func : f2c[<<f, PRIV>>] \subseteq e2c[<<f, PRIV>>]
  PROVE  PrivilegedIn(f2c) \subseteq PrivilegedIn(e2c)
  <1> DEFINE succ1 == [f \in prog.func |-> f2c[<<f, PRIV>>] \ EntryPoints(prog)]
             succ2 == [f \in prog.func |-> e2c[<<f, PRIV>>] \ EntryPoints(prog)]
             start == prog.main \ EntryPoints(prog)
  <1>1. \A f \in prog.func : succ1[f] \subseteq succ2[f]
    OBVIOUS
  <1>2. Reach(prog.func, succ1, start) \subseteq Reach(prog.func, succ2, start)
    <2> HIDE DEF succ1, succ2, start
    <2>1. QED
      BY <1>1, ReachGrows
  <1>3. QED
    BY <1>2 DEF PrivilegedIn

(* What is calculated depends on the program and the graph only.           *)
LEMMA FunctionsNext ==
  ASSUME prog' = prog, NEW S
  PROVE  FunctionsIn(callToCallees, funcToCallees, S)'
           = FunctionsIn(callToCallees', funcToCallees', S)
  BY DEF FunctionsIn, Initial, Foreign, Entries, EntryPoints

LEMMA CachesInit == Init => CachesInv
  BY DEF Init, CachesInv, Ready

LEMMA CachesStep == TypeInv /\ CachesInv /\ [Next]_vars => CachesInv'
  <1> SUFFICES ASSUME TypeInv, CachesInv, [Next]_vars PROVE CachesInv'
    OBVIOUS
  <1>0. WellFormed(prog) /\ GraphType
    BY ProgramsAssumption DEF TypeInv, TypeOK, GraphType
  <1>1. CASE phase = "build" /\ phase' = "build" /\ privileged' = privileged
    BY <1>1 DEF CachesInv, Ready
  <1>2. CASE CalculatePrivileged
    BY <1>2 DEF CalculatePrivileged, CachesInv, Ready, PrivilegedIn, EntryPoints, graph
  <1>3. CASE ReinitSandboxes
    <2>1. /\ phase = "reinit" /\ phase' = "pointers" /\ prog' = prog
          /\ callToCallees' = callToCallees /\ funcToCallees' = funcToCallees
          /\ privileged' = privileged
          /\ functions' = [S \in Boxes(prog) |-> FunctionsIn(callToCallees, funcToCallees, S)]
      BY <1>3 DEF ReinitSandboxes, graph
    <2>2. privileged' = PrivilegedIn(funcToCallees)'
      BY <2>1 DEF CachesInv, PrivilegedIn, EntryPoints
    <2>3. \A S \in Boxes(prog) :
            functions'[S] = FunctionsIn(callToCallees, funcToCallees, S)'
      BY <2>1, FunctionsNext
    <2>4. QED
      BY <2>1, <2>2, <2>3 DEF CachesInv, Boxes
  <1>4. CASE AddTargets
    <2>1. PICK c \in DOMAIN prog.targets, x \in Contexts(prog) :
            \E T \in SUBSET prog.targets[c] : Insert(x, [d \in {c} |-> T]) /\ Refresh(x)
      BY <1>4 DEF AddTargets
    <2>2. PICK T \in SUBSET prog.targets[c] : Insert(x, [d \in {c} |-> T]) /\ Refresh(x)
      BY <2>1
    <2>3. phase = "pointers" /\ phase' = phase /\ prog' = prog
      BY <1>4 DEF AddTargets
    <2>4. NewCallees([d \in {c} |-> T])
      BY TargetCallees
    <2>5. privileged' = PrivilegedIn(funcToCallees')
      <3>1. CASE x = PRIV
        BY <2>2, <3>1 DEF Refresh
      <3>2. CASE x # PRIV
        <4>1. PRIV \in Contexts(prog)
          BY DEF Contexts
        <4>2. \A f \in prog.func : funcToCallees'[<<f, PRIV>>] = funcToCallees[<<f, PRIV>>]
          BY <1>0, <2>2, <2>4, <3>2, <4>1, InsertLocal
        <4>3. PrivilegedIn(funcToCallees') = PrivilegedIn(funcToCallees)
          BY <4>2 DEF PrivilegedIn
        <4>4. privileged' = privileged
          BY <2>2, <3>2 DEF Refresh
        <4>5. QED
          BY <2>3, <4>3, <4>4 DEF CachesInv
      <3>3. QED
        BY <3>1, <3>2
    <2>6. ASSUME NEW S \in Boxes(prog)
          PROVE  functions'[S] = FunctionsIn(callToCallees', funcToCallees', S)
      <3>0. S \in Contexts(prog) /\ S # PRIV
        BY <1>0 DEF Contexts, WellFormed
      <3>1. CASE x = S
        BY <2>2, <3>0, <3>1 DEF Refresh, TypeInv, TypeOK
      <3>2. CASE x # S
        <4>1. /\ \A d \in Calls(prog) : callToCallees'[<<d, S>>] = callToCallees[<<d, S>>]
              /\ \A f \in prog.func : funcToCallees'[<<f, S>>] = funcToCallees[<<f, S>>]
          BY <1>0, <2>2, <2>4, <3>0, <3>2, InsertLocal
        <4>2. FunctionsIn(callToCallees', funcToCallees', S)
                = FunctionsIn(callToCallees, funcToCallees, S)
          BY <1>0, <4>1, FunctionsLocal
        <4>3. functions'[S] = functions[S]
          BY <2>2, <3>2 DEF Refresh, TypeInv, TypeOK
        <4>4. QED
          BY <2>3, <4>2, <4>3 DEF CachesInv, Ready
      <3>3. QED
        BY <3>1, <3>2
    <2>7. privileged' = PrivilegedIn(funcToCallees)'
      BY <2>3, <2>5 DEF PrivilegedIn, EntryPoints
    <2>8. \A S \in Boxes(prog) : functions'[S] = FunctionsIn(callToCallees, funcToCallees, S)'
      BY <2>3, <2>6, FunctionsNext
    <2>9. QED
      BY <2>3, <2>7, <2>8 DEF CachesInv, Boxes
  <1>5. CASE phase # "build" /\ UNCHANGED <<prog, graph, functions, privileged>> /\ (Ready' => Ready) /\ phase' # "build"
    <2>1. /\ prog' = prog /\ callToCallees' = callToCallees /\ funcToCallees' = funcToCallees
          /\ functions' = functions /\ privileged' = privileged
      BY <1>5 DEF graph
    <2>2. privileged' = PrivilegedIn(funcToCallees)'
      BY <1>5, <2>1 DEF CachesInv, PrivilegedIn, EntryPoints
    <2>3. Ready => \A S \in Boxes(prog) :
            functions'[S] = FunctionsIn(callToCallees, funcToCallees, S)'
      <3>1. Ready => \A S \in Boxes(prog) :
              functions[S] = FunctionsIn(callToCallees, funcToCallees, S)
        BY DEF CachesInv
      <3>2. QED
        BY <2>1, <3>1, FunctionsNext
    <2>4. QED
      BY <1>5, <2>1, <2>2, <2>3 DEF CachesInv, Boxes
  <1>6. QED
    BY <1>1, <1>2, <1>3, <1>4, <1>5
    DEF Next, vars, NextContext, Skip, LookAt, EndPointers, Ready, TypeInv, TypeOK

(* Nobody is told of a membership that is out of date: privileged methods  *)
(* and the functions of every sandbox are those of the graph as it is,     *)
(* although an edge refreshes the cache of its own context only.           *)
THEOREM CachesFresh == Spec => []CachesCurrent
  <1>1. CachesInv => CachesCurrent
    BY DEF CachesInv, CachesCurrent, Ready
  <1>2. QED
    BY <1>1, CachesInit, CachesStep, TypeCorrect, PTL DEF Spec

(* A function that is in a context during the pointer analyses stays in it.*)
THEOREM MembersRemain == Spec => MembersStay
  <1>1. TypeInv /\ CachesInv /\ CachesInv' /\ [Next]_vars =>
          [phase = "pointers" =>
             \A x \in Contexts(prog) : MembersOf(x) \subseteq MembersOf(x)']_vars
    <2> SUFFICES ASSUME TypeInv, CachesInv, CachesInv', Next, phase = "pointers",
                        NEW x \in Contexts(prog)
                 PROVE  MembersOf(x) \subseteq MembersOf(x)'
      BY DEF vars
    <2>0. WellFormed(prog) /\ GraphType
      BY ProgramsAssumption DEF TypeInv, TypeOK, GraphType
    <2>1. CASE EndPointers
      BY <2>1 DEF EndPointers, MembersOf
    <2>2. CASE AddTargets
      <3>1. PICK c \in DOMAIN prog.targets, y \in Contexts(prog) :
              \E T \in SUBSET prog.targets[c] : Insert(y, [d \in {c} |-> T])
        BY <2>2 DEF AddTargets
      <3>2. PICK T \in SUBSET prog.targets[c] : Insert(y, [d \in {c} |-> T])
        BY <3>1
      <3>3. phase' = "pointers" /\ prog' = prog
        BY <2>2 DEF AddTargets
      <3>4. /\ \A d \in Calls(prog) : callToCallees[<<d, x>>] \subseteq callToCallees'[<<d, x>>]
            /\ \A f \in prog.func : funcToCallees[<<f, x>>] \subseteq funcToCallees'[<<f, x>>]
        BY <2>0, <3>2, TargetCallees, InsertLocal
      <3>5. CASE x = PRIV
        <4>1. privileged' = PrivilegedIn(funcToCallees')
          BY <3>3 DEF CachesInv, PrivilegedIn, EntryPoints
        <4>2. privileged = PrivilegedIn(funcToCallees)
          BY DEF CachesInv
        <4>3. QED
          BY <3>4, <3>5, <4>1, <4>2, PrivilegedGrow DEF MembersOf
      <3>6. CASE x # PRIV
        <4>0. x \in Boxes(prog)
          BY <3>6 DEF Contexts
        <4>1. functions'[x] = FunctionsIn(callToCallees', funcToCallees', x)
          <5>1. Ready' /\ x \in Boxes(prog)'
            BY <3>3, <4>0 DEF Ready, Boxes
          <5>2. functions'[x] = FunctionsIn(callToCallees, funcToCallees, x)'
            BY <5>1 DEF CachesInv
          <5>3. QED
            BY <3>3, <5>2, FunctionsNext
        <4>2. functions[x] = FunctionsIn(callToCallees, funcToCallees, x)
          BY <4>0 DEF CachesInv, Ready
        <4>3. QED
          BY <2>0, <3>4, <3>6, <4>0, <4>1, <4>2, FunctionsGrow DEF MembersOf
      <3>7. QED
        BY <3>5, <3>6
    <2>3. QED
      BY <2>1, <2>2
      DEF Next, NextContext, Skip, LookAt, CalculatePrivileged, ReinitSandboxes
  <1>2. QED
    BY <1>1, CachesInit, CachesStep, TypeCorrect, PTL DEF Spec, MembersStay

-----------------------------------------------------------------------------
(* Edges and contexts.  What a context would cache of the graph as it is   *)
(* also says, while the graph is built, which functions may be looked at:  *)
(* EdgesInContext does not, as nothing is cached yet.                      *)

ClosureIn(c2c, f2c, x) ==
  IF x = PRIV THEN PrivilegedIn(f2c) ELSE FunctionsIn(c2c, f2c, x)

Closure(x) == ClosureIn(callToCallees, funcToCallees, x)

Within(x, c) ==
  \/ prog.fun[c] \in Closure(x) /\ (x = PRIV => c \notin InRegions(prog))
  \/ x \in DOMAIN prog.region /\ c \in prog.region[x]

EdgesWithin ==
  \A c \in Calls(prog), x \in Contexts(prog) :
    callToCallees[<<c, x>>] # {} => Within(x, c)

(* What waits will be skipped, or is in the closure already.               *)
Expected(x, f) ==
  f = Region \/ f \notin prog.defined \/ Foreign(prog, x, f) \/ f \in Closure(x)

WaitingWithin == phase = "build" => \A f \in worklist : Expected(ctx, f)

ContextInv == EdgesWithin /\ WaitingWithin

LEMMA ReachClosed ==
  ASSUME NEW F, NEW succ, NEW start
  PROVE  /\ start \cap F \subseteq Reach(F, succ, start)
         /\ \A f \in Reach(F, succ, start) :
              succ[f] \cap F \subseteq Reach(F, succ, start)
  <1>1. start \cap F \subseteq Reach(F, succ, start)
    BY DEF Reach
  <1>2. ASSUME NEW f \in Reach(F, succ, start), NEW g \in succ[f] \cap F,
               NEW C \in SUBSET F, start \subseteq C, ClosedUnder(succ, C)
        PROVE  g \in C
    <2>1. f \in C
      BY <1>2 DEF Reach
    <2>2. QED
      BY <1>2, <2>1 DEF ClosedUnder
  <1>3. QED
    BY <1>1, <1>2 DEF Reach

(* A context's start is in its closure, and so are the callees of a region *)
(* and those of any function of the closure; other entry points apart.     *)
LEMMA ClosureStart ==
  ASSUME WellFormed(prog), NEW x \in Contexts(prog), NEW f \in Starts(prog, x)
  PROVE  Expected(x, f)
  <1>1. CASE x = PRIV
    <2>1. f \in prog.main /\ f \in prog.func
      BY <1>1 DEF Starts, WellFormed
    <2>2. CASE f \in EntryPoints(prog)
      BY <1>1, <2>2 DEF Expected, Foreign, Entries, WellFormed, Boxes
    <2>3. CASE f \notin EntryPoints(prog)
      <3>1. f \in PrivilegedIn(funcToCallees)
        BY <2>1, <2>3, ReachClosed DEF PrivilegedIn
      <3>2. QED
        BY <1>1, <3>1 DEF Expected, Closure, ClosureIn
    <2>4. QED
      BY <2>2, <2>3
  <1>2. CASE x # PRIV /\ x \in DOMAIN prog.entry
    <2>1. f \in prog.entry[x] /\ f \in prog.func
      BY <1>2 DEF Starts, WellFormed
    <2>2. f \in FunctionsIn(callToCallees, funcToCallees, x)
      BY <1>2, <2>1, ReachClosed DEF FunctionsIn, Initial
    <2>3. QED
      BY <1>2, <2>2 DEF Expected, Closure, ClosureIn
  <1>3. CASE x # PRIV /\ x \notin DOMAIN prog.entry
    BY <1>3 DEF Starts, Expected
  <1>4. QED
    BY <1>1, <1>2, <1>3

LEMMA ClosureNext ==
  ASSUME WellFormed(prog), NEW x \in Contexts(prog), NEW c2c, NEW f2c,
         NEW f \in ClosureIn(c2c, f2c, x),
         NEW g \in prog.func, g \in f2c[<<f, x>>], ~Foreign(prog, x, g)
  PROVE  g \in ClosureIn(c2c, f2c, x)
  <1>1. CASE x = PRIV
    <2> DEFINE succ == [h \in prog.func |-> f2c[<<h, PRIV>>] \ EntryPoints(prog)]
               start == prog.main \ EntryPoints(prog)
    <2>1. g \notin EntryPoints(prog)
      BY <1>1 DEF Foreign, Entries, WellFormed, Boxes
    <2>2. f \in Reach(prog.func, succ, start)
      BY <1>1 DEF ClosureIn, PrivilegedIn
    <2>3. f \in prog.func
      BY <2>2, ReachWithin
    <2>4. g \in succ[f]
      BY <1>1, <2>1, <2>3
    <2>5. g \in Reach(prog.func, succ, start)
      <3> HIDE DEF succ, start
      <3>1. QED
        BY <2>2, <2>4, ReachClosed
    <2>6. QED
      BY <1>1, <2>5 DEF ClosureIn, PrivilegedIn
  <1>2. CASE x # PRIV
    <2> DEFINE succ == [h \in prog.func |-> {k \in f2c[<<h, x>>] : ~Foreign(prog, x, k)}]
               start == Initial(c2c, x)
    <2>1. f \in Reach(prog.func, succ, start)
      BY <1>2 DEF ClosureIn, FunctionsIn
    <2>2. f \in prog.func
      BY <2>1, ReachWithin
    <2>3. g \in succ[f]
      BY <2>2
    <2>4. g \in Reach(prog.func, succ, start)
      <3> HIDE DEF succ, start
      <3>1. QED
        BY <2>1, <2>3, ReachClosed
    <2>5. QED
      BY <1>2, <2>4 DEF ClosureIn, FunctionsIn
  <1>3. QED
    BY <1>1, <1>2

LEMMA ClosureRegion ==
  ASSUME WellFormed(prog), NEW x \in DOMAIN prog.region, NEW c \in prog.region[x],
         NEW c2c, NEW f2c, NEW g \in prog.defined, g \in c2c[<<c, x>>]
  PROVE  g \in ClosureIn(c2c, f2c, x)
  <1>1. x # PRIV /\ x \notin DOMAIN prog.entry /\ g \in prog.func
    BY DEF WellFormed, Boxes
  <1>2. g \in Initial(c2c, x)
    BY <1>1 DEF Initial
  <1>3. g \in FunctionsIn(c2c, f2c, x)
    BY <1>1, <1>2, ReachClosed DEF FunctionsIn
  <1>4. QED
    BY <1>1, <1>3 DEF ClosureIn

(* Like FunctionsNext.                                                     *)
LEMMA ClosureAfter ==
  ASSUME prog' = prog, NEW x \in Contexts(prog)
  PROVE  Closure(x)' = ClosureIn(callToCallees', funcToCallees', x)
  <1>1. PrivilegedIn(funcToCallees)' = PrivilegedIn(funcToCallees')
    BY DEF PrivilegedIn, EntryPoints
  <1>2. QED
    BY <1>1, FunctionsNext DEF Closure, ClosureIn

(* Adding edges to any context takes nothing out of a closure.             *)
LEMMA ClosureGrows ==
  ASSUME TypeInv, NEW x, NEW callees, NewCallees(callees), Insert(x, callees),
         prog' = prog, NEW y \in Contexts(prog)
  PROVE  Closure(y) \subseteq Closure(y)'
  <1>0. WellFormed(prog) /\ GraphType
    BY ProgramsAssumption DEF TypeInv, TypeOK, GraphType
  <1>1. /\ \A c \in Calls(prog) : callToCallees[<<c, y>>] \subseteq callToCallees'[<<c, y>>]
        /\ \A f \in prog.func : funcToCallees[<<f, y>>] \subseteq funcToCallees'[<<f, y>>]
    BY <1>0, InsertLocal
  <1>2. Closure(y)' = ClosureIn(callToCallees', funcToCallees', y)
    BY ClosureAfter
  <1>3. CASE y = PRIV
    <2>1. PrivilegedIn(funcToCallees) \subseteq PrivilegedIn(funcToCallees')
      BY <1>1, <1>3, PrivilegedGrow
    <2>2. QED
      BY <1>2, <1>3, <2>1 DEF Closure, ClosureIn
  <1>4. CASE y # PRIV
    <2>1. y \in Boxes(prog)
      BY <1>4 DEF Contexts
    <2>2. FunctionsIn(callToCallees, funcToCallees, y)
            \subseteq FunctionsIn(callToCallees', funcToCallees', y)
      BY <1>0, <1>1, <2>1, FunctionsGrow
    <2>3. QED
      BY <1>2, <1>4, <2>2 DEF Closure, ClosureIn
  <1>5. QED
    BY <1>3, <1>4

LEMMA InsertWithin ==
  ASSUME TypeInv, EdgesWithin, NEW x \in Contexts(prog), NEW callees, NewCallees(callees),
         Insert(x, callees), prog' = prog, \A c \in DOMAIN callees : Within(x, c)
  PROVE  EdgesWithin'
  <1>0. GraphType
    BY DEF TypeInv, TypeOK, GraphType
  <1>1. Calls(prog)' = Calls(prog) /\ Contexts(prog)' = Contexts(prog)
    BY DEF Calls, Contexts, Boxes
  <1>2. SUFFICES ASSUME NEW c \in Calls(prog), NEW y \in Contexts(prog),
                        callToCallees'[<<c, y>>] # {}
                 PROVE  Within(y, c)'
    BY <1>1 DEF EdgesWithin
  <1>3. Within(y, c)
    <2>1. CASE callToCallees[<<c, y>>] # {}
      BY <2>1 DEF EdgesWithin
    <2>2. CASE callToCallees[<<c, y>>] = {}
      <3>1. y = x /\ c \in DOMAIN callees
        BY <1>0, <1>2, <2>2 DEF Insert, GraphType
      <3>2. QED
        BY <3>1
    <2>3. QED
      BY <2>1, <2>2
  <1>4. Closure(y) \subseteq Closure(y)'
    BY ClosureGrows
  <1>5. InRegions(prog)' = InRegions(prog)
    BY DEF InRegions
  <1>6. QED
    BY <1>3, <1>4, <1>5 DEF Within

LEMMA ContextInit == Init => ContextInv
  <1> SUFFICES ASSUME Init PROVE ContextInv
    OBVIOUS
  <1>1. EdgesWithin
    BY DEF Init, EdgesWithin
  <1>2. WaitingWithin
    BY DEF Init, WaitingWithin
  <1>3. QED
    BY <1>1, <1>2 DEF ContextInv

LEMMA LookAtWithin ==
  TypeInv /\ ContextInv /\ LookAt => ContextInv'
  <1> SUFFICES ASSUME TypeInv, ContextInv, LookAt PROVE ContextInv'
    OBVIOUS
  <1>0. WellFormed(prog) /\ GraphType /\ ctx \in Contexts(prog)
    BY ProgramsAssumption DEF TypeInv, TypeOK, GraphType
  <1>1. PICK f \in worklist :
          /\ ~Skipped(f)
          /\ Insert(ctx, [c \in CallsOf(prog, ctx, f) |-> prog.static[c]])
          /\ worklist' = (worklist \ {f}) \cup UNION {prog.static[c] : c \in CallsOf(prog, ctx, f)}
    BY DEF LookAt
  <1>2. phase = "build" /\ phase' = "build" /\ prog' = prog /\ ctx' = ctx
    BY DEF LookAt
  <1> DEFINE callees == [c \in CallsOf(prog, ctx, f) |-> prog.static[c]]
  <1>3. CallsOf(prog, ctx, f) \subseteq Calls(prog) /\ NewCallees(callees)
    BY <1>2, LookAtCallees
  <1>4. f # Region => f \in Closure(ctx)
    BY <1>1, <1>2 DEF ContextInv, WaitingWithin, Expected, Skipped
  <1>5. f = Region => ctx \in DOMAIN prog.region
    BY DEF TypeInv, TypeOK
  <1>6. \A c \in CallsOf(prog, ctx, f) : Within(ctx, c)
    <2>1. CASE f = Region
      BY <1>5, <2>1 DEF Within, CallsOf
    <2>2. CASE f # Region
      BY <1>4, <2>2 DEF Within, CallsOf
    <2>3. QED
      BY <2>1, <2>2
  <1>7. EdgesWithin'
    <2> HIDE DEF callees
    <2>1. Insert(ctx, callees)
      BY <1>1 DEF callees
    <2>2. \A c \in DOMAIN callees : Within(ctx, c)
      BY <1>6 DEF callees
    <2>3. QED
      BY <1>0, <1>2, <1>3, <2>1, <2>2, InsertWithin DEF ContextInv
  <1>8. Closure(ctx) \subseteq Closure(ctx)'
    <2> HIDE DEF callees
    <2>1. Insert(ctx, callees)
      BY <1>1 DEF callees
    <2>2. QED
      BY <1>0, <1>2, <1>3, <2>1, ClosureGrows
  <1>9. Closure(ctx)' = ClosureIn(callToCallees', funcToCallees', ctx)
    BY <1>0, <1>2, ClosureAfter
  <1>10. ASSUME NEW g \in worklist' PROVE Expected(ctx, g)'
    <2>1. /\ Foreign(prog, ctx, g)' = Foreign(prog, ctx, g)
          /\ WellFormed(prog)' /\ ctx' \in Contexts(prog')
      BY <1>0, <1>2 DEF Foreign, EntryPoints, Entries, WellFormed, Boxes, Calls, Contexts
    <2>2. CASE g \in worklist
      BY <1>2, <1>8, <2>1, <2>2 DEF ContextInv, WaitingWithin, Expected
    <2>3. CASE g \notin worklist
      <3>1. PICK c \in CallsOf(prog, ctx, f) : g \in prog.static[c]
        BY <1>1, <1>10, <2>3
      <3>2. c \in Calls(prog) /\ g \in prog.func
        BY <1>0, <1>3, <3>1 DEF WellFormed
      <3>3. g \in callToCallees'[<<c, ctx>>]
        BY <1>0, <1>1, <3>1, <3>2 DEF Insert, GraphType
      <3>4. CASE f = Region
        <4>1. ctx \in DOMAIN prog.region /\ c \in prog.region[ctx]
          BY <1>5, <3>4 DEF CallsOf
        <4>2. g \in prog.defined => g \in Closure(ctx)'
          <5>1. g \in prog.defined => g \in ClosureIn(callToCallees', funcToCallees', ctx)
            BY <1>0, <3>3, <4>1, ClosureRegion
          <5>2. QED
            BY <1>9, <5>1
        <4>3. QED
          BY <1>2, <4>2 DEF Expected
      <3>5. CASE f # Region
        <4>1. prog.fun[c] = f /\ f \in prog.func
          BY <1>0, <3>2, <3>5 DEF CallsOf, WellFormed
        <4>2. g \in funcToCallees'[<<f, ctx>>]
          <5>1. g \in UNION {callees[d] : d \in {e \in DOMAIN callees : prog.fun[e] = f}}
            BY <3>1, <4>1
          <5>2. funcToCallees'[<<f, ctx>>] = funcToCallees[<<f, ctx>>] \cup
                  UNION {callees[d] : d \in {e \in DOMAIN callees : prog.fun[e] = f}}
            <6> HIDE DEF callees
            <6>1. Insert(ctx, callees)
              BY <1>1 DEF callees
            <6>2. QED
              BY <1>0, <4>1, <6>1 DEF Insert, GraphType
          <5>3. QED
            BY <5>1, <5>2
        <4>3. f \in ClosureIn(callToCallees', funcToCallees', ctx)
          BY <1>4, <1>8, <1>9, <3>5
        <4>4. ~Foreign(prog, ctx, g) => g \in ClosureIn(callToCallees', funcToCallees', ctx)
          BY <1>0, <3>2, <4>2, <4>3, ClosureNext
        <4>5. QED
          BY <1>9, <2>1, <4>4 DEF Expected
      <3>6. QED
        BY <3>4, <3>5
    <2>4. QED
      BY <2>2, <2>3
  <1>11. QED
    BY <1>7, <1>10 DEF ContextInv, WaitingWithin

(* A pointer gets targets where the call's own context is up to date.      *)
LEMMA AddTargetsWithin ==
  TypeInv /\ CachesInv /\ ContextInv /\ AddTargets => ContextInv'
  <1> SUFFICES ASSUME TypeInv, CachesInv, ContextInv, AddTargets PROVE ContextInv'
    OBVIOUS
  <1>0. WellFormed(prog) /\ phase = "pointers" /\ phase' = "pointers" /\ prog' = prog
    BY ProgramsAssumption DEF TypeInv, AddTargets
  <1>1. PICK c \in DOMAIN prog.targets, x \in Contexts(prog) :
          \E T \in SUBSET prog.targets[c] : InContext(c, x) /\ Insert(x, [d \in {c} |-> T])
    BY DEF AddTargets
  <1>2. PICK T \in SUBSET prog.targets[c] : Insert(x, [d \in {c} |-> T])
    BY <1>1
  <1>3. c \in Calls(prog)
    BY <1>0 DEF WellFormed
  <1>4. Within(x, c)
    <2>1. CASE x = PRIV
      <3>1. IsPrivileged(c)
        BY <1>1, <2>1 DEF InContext
      <3>2. prog.fun[c] \in Closure(x)
        BY <1>0, <2>1, <3>1 DEF IsPrivileged, CachesInv, Closure, ClosureIn
      <3>3. ASSUME NEW S \in DOMAIN prog.region, c \in prog.region[S] PROVE FALSE
        BY <3>1, <3>3 DEF IsPrivileged, RegionWithin, BoxContains, Boxes
      <3>4. c \notin InRegions(prog)
        BY <3>3 DEF InRegions
      <3>5. QED
        BY <3>2, <3>4 DEF Within
    <2>2. CASE x # PRIV
      <3>1. BoxContains(x, c) /\ x \in Boxes(prog)
        BY <1>1, <2>2 DEF InContext, Contexts
      <3>2. functions[x] = Closure(x)
        BY <1>0, <2>2, <3>1 DEF CachesInv, Ready, Closure, ClosureIn
      <3>3. QED
        BY <2>2, <3>1, <3>2 DEF BoxContains, Within
    <2>3. QED
      BY <2>1, <2>2
  <1>5. EdgesWithin'
    <2> DEFINE callees == [d \in {c} |-> T]
    <2>1. NewCallees(callees) /\ DOMAIN callees = {c}
      BY TargetCallees
    <2>2. Insert(x, callees)
      BY <1>2
    <2> HIDE DEF callees
    <2>3. QED
      BY <1>0, <1>4, <2>1, <2>2, InsertWithin DEF ContextInv
  <1>6. QED
    BY <1>0, <1>5 DEF ContextInv, WaitingWithin

LEMMA ContextStep == TypeInv /\ CachesInv /\ ContextInv /\ [Next]_vars => ContextInv'
  <1> SUFFICES ASSUME TypeInv, CachesInv, ContextInv, [Next]_vars PROVE ContextInv'
    OBVIOUS
  <1>0. WellFormed(prog)
    BY ProgramsAssumption DEF TypeInv
  <1>1. ASSUME prog' = prog, UNCHANGED graph
        PROVE  /\ EdgesWithin'
               /\ \A x \in Contexts(prog) : \A f : Expected(x, f) => Expected(x, f)'
    <2>1. \A x \in Contexts(prog) : Closure(x)' = Closure(x)
      BY <1>1, ClosureAfter DEF Closure, graph
    <2>2. Calls(prog)' = Calls(prog) /\ Contexts(prog)' = Contexts(prog)
            /\ InRegions(prog)' = InRegions(prog)
      BY <1>1 DEF Calls, Contexts, Boxes, InRegions
    <2>3. EdgesWithin'
      BY <1>1, <2>1, <2>2 DEF ContextInv, EdgesWithin, Within, graph
    <2>4. \A x \in Contexts(prog) : \A f : Expected(x, f) => Expected(x, f)'
      BY <1>1, <2>1 DEF Expected, Foreign, EntryPoints, Entries
    <2>5. QED
      BY <2>3, <2>4
  <1>2. CASE NextContext
    <2>1. PICK x \in todo : ctx' = x /\ worklist' = Starts(prog, x)
      BY <1>2 DEF NextContext
    <2>2. x \in Contexts(prog) /\ prog' = prog /\ UNCHANGED graph
      BY <1>2 DEF NextContext, TypeInv, TypeOK
    <2>3. \A f \in worklist' : Expected(x, f)'
      BY <1>0, <1>1, <2>1, <2>2, ClosureStart
    <2>4. \A f \in worklist' : Expected(ctx, f)'
      BY <2>1, <2>3 DEF Expected, Closure
    <2>5. QED
      BY <1>1, <2>2, <2>4 DEF ContextInv, WaitingWithin
  <1>3. CASE Skip
    <2>1. /\ phase = "build" /\ worklist' \subseteq worklist
          /\ prog' = prog /\ ctx' = ctx /\ UNCHANGED graph /\ ctx \in Contexts(prog)
      BY <1>3 DEF Skip, TypeInv, TypeOK
    <2>2. \A f \in worklist' : Expected(ctx, f)
      BY <2>1 DEF ContextInv, WaitingWithin
    <2>3. \A f \in worklist' : Expected(ctx, f)'
      BY <1>1, <2>1, <2>2 DEF Expected, Closure
    <2>4. QED
      BY <1>1, <2>1, <2>3 DEF ContextInv, WaitingWithin
  <1>4. CASE LookAt
    BY <1>4, LookAtWithin
  <1>5. CASE AddTargets
    BY <1>5, AddTargetsWithin
  <1>6. CASE phase' # "build" /\ prog' = prog /\ UNCHANGED graph
    BY <1>1, <1>6 DEF ContextInv, WaitingWithin
  <1>7. CASE UNCHANGED vars
    <2>1. /\ prog' = prog /\ UNCHANGED graph /\ phase' = phase /\ worklist' = worklist
          /\ ctx' = ctx /\ ctx \in Contexts(prog)
      BY <1>7 DEF vars, building, TypeInv, TypeOK
    <2>2. \A f \in worklist : Expected(ctx, f) => Expected(ctx, f)'
      BY <1>1, <2>1 DEF Expected, Closure
    <2>3. QED
      BY <1>1, <2>1, <2>2 DEF ContextInv, WaitingWithin
  <1>8. QED
    BY <1>2, <1>3, <1>4, <1>5, <1>6, <1>7
    DEF Next, CalculatePrivileged, ReinitSandboxes, EndPointers

(* What is ready to be asked is the closure.                               *)
LEMMA MembersClosure ==
  ASSUME CachesInv, Ready, NEW x \in Contexts(prog)
  PROVE  MembersOf(x) = Closure(x)
  BY DEF CachesInv, Ready, MembersOf, Closure, ClosureIn, Contexts

LEMMA RecordedInContextHolds ==
  TypeInv /\ CachesInv /\ ContextInv /\ RegionsNotRecursive => RecordedInContext
  <1> SUFFICES ASSUME TypeInv, CachesInv, ContextInv, RegionsNotRecursive, Ready,
                      NEW c \in Calls(prog), NEW x \in Contexts(prog),
                      callToCallees[<<c, x>>] # {}
               PROVE  InContext(c, x)
    BY DEF RecordedInContext
  <1>0. WellFormed(prog)
    BY ProgramsAssumption DEF TypeInv
  <1>1. Within(x, c) /\ MembersOf(x) = Closure(x)
    BY MembersClosure DEF ContextInv, EdgesWithin
  <1>2. CASE x = PRIV
    <2>1. prog.fun[c] \in privileged /\ c \notin InRegions(prog)
      BY <1>0, <1>1, <1>2 DEF Within, MembersOf, WellFormed, Boxes
    <2>2. ASSUME NEW S \in Boxes(prog), RegionWithin(S, prog.fun[c]), BoxContains(S, c)
          PROVE  FALSE
      <3>1. PICK d \in prog.region[S] : S \in DOMAIN prog.region /\ prog.fun[d] = prog.fun[c]
        BY <2>2 DEF RegionWithin
      <3>2. prog.fun[c] \notin functions[S]
        BY <3>1 DEF RegionsNotRecursive
      <3>3. c \in prog.region[S]
        BY <2>2, <3>2 DEF BoxContains
      <3>4. QED
        BY <2>1, <3>1, <3>3 DEF InRegions
    <2>3. QED
      BY <1>2, <2>1, <2>2 DEF InContext, IsPrivileged
  <1>3. CASE x # PRIV
    BY <1>1, <1>3 DEF Within, MembersOf, InContext, BoxContains
  <1>4. QED
    BY <1>2, <1>3

LEMMA CalleeContextKnownHolds ==
  TypeInv /\ MapsAgree /\ CachesInv /\ ContextInv /\ WithoutCallgates => CalleeContextKnown
  <1> SUFFICES ASSUME TypeInv, MapsAgree, CachesInv, ContextInv, WithoutCallgates, Ready,
                      NEW c \in Calls(prog), NEW x \in Contexts(prog),
                      NEW f \in callToCallees[<<c, x>>] \cap prog.defined
               PROVE  f \in MembersOf(CalleeContext(x, f))
    BY DEF CalleeContextKnown
  <1>0. WellFormed(prog)
    BY ProgramsAssumption DEF TypeInv
  <1>1. f \in prog.func /\ prog.fun[c] \in prog.func
    BY <1>0 DEF WellFormed
  <1>2. CASE f \in EntryPoints(prog)
    <2>1. PICK S \in DOMAIN prog.entry : CalleeContext(x, f) = S /\ f \in prog.entry[S]
      BY <1>2 DEF CalleeContext, EntryPoints
    <2>2. S \in Contexts(prog) /\ S # PRIV
      BY <1>0 DEF Contexts, Boxes, WellFormed
    <2>3. f \in FunctionsIn(callToCallees, funcToCallees, S)
      BY <1>1, <2>1, ReachClosed DEF FunctionsIn, Initial
    <2>4. QED
      BY <2>1, <2>2, <2>3, MembersClosure DEF Closure, ClosureIn
  <1>3. CASE f \notin EntryPoints(prog)
    <2>1. CalleeContext(x, f) = x /\ ~Foreign(prog, x, f)
      BY <1>3 DEF CalleeContext, WithoutCallgates, Contexts, Foreign
    <2>2. Within(x, c)
      BY DEF ContextInv, EdgesWithin
    <2>3. CASE prog.fun[c] \in Closure(x)
      <3>1. f \in funcToCallees[<<prog.fun[c], x>>]
        BY <1>1 DEF MapsAgree
      <3>2. QED
        BY <1>0, <1>1, <2>1, <2>3, <3>1, ClosureNext, MembersClosure DEF Closure
    <2>4. CASE x \in DOMAIN prog.region /\ c \in prog.region[x]
      BY <1>0, <2>1, <2>4, ClosureRegion, MembersClosure DEF Closure
    <2>5. QED
      BY <2>2, <2>3, <2>4 DEF Within
  <1>4. QED
    BY <1>2, <1>3

(* Edges and contexts fit together at both ends: a call that has callees   *)
(* in a context is an instruction of that context (if no region leads back *)
(* to its own function), and the context that a callee is taken to run in  *)
(* holds it (if there are no callgates).                                   *)
THEOREM EdgesFit == Spec => []EdgesInContext
  <1>1. TypeInv /\ MapsAgree /\ CachesInv /\ ContextInv => EdgesInContext
    BY RecordedInContextHolds, CalleeContextKnownHolds DEF EdgesInContext
  <1>2. Spec => []CachesInv
    BY CachesInit, CachesStep, TypeCorrect, PTL DEF Spec
  <1>3. Spec => []ContextInv
    BY <1>2, ContextInit, ContextStep, TypeCorrect, PTL DEF Spec
  <1>4. QED
    BY <1>1, <1>2, <1>3, TypeCorrect, MapsConsistent, PTL

-----------------------------------------------------------------------------
(* What the program says.  A context of which the graph is built has every *)
(* call recorded that it is meant to have.                                 *)

Recorded(x, c) == prog.static[c] \subseteq callToCallees[<<c, x>>]

Built(x) ==
  /\ EntersDirectly(prog, x) \/
       \A f \in Written(prog, x) : \A c \in Calls(prog) :
         prog.fun[c] = f /\ Meant(prog, x, c) => Recorded(x, c)
  /\ x \in DOMAIN prog.region => \A c \in prog.region[x] : Recorded(x, c)

(* In the context being built: what need not be looked at any more, or     *)
(* will be.                                                                *)
Covered(f) ==
  f \in processed \/ f \in worklist \/ f \notin prog.defined \/ Foreign(prog, ctx, f)

LookedAt(f) ==
  \A c \in CallsOf(prog, ctx, f) : Recorded(ctx, c) /\ \A g \in prog.static[c] : Covered(g)

CurrentBuilt ==
  /\ \A f \in processed : LookedAt(f)
  /\ \A f \in Starts(prog, ctx) :
       (f = Region /\ LookedAt(f)) \/ f \in worklist \/ (f # Region /\ Covered(f))

BuildInv ==
  /\ phase = "build" /\ ctx \notin todo => CurrentBuilt
  /\ \A x \in Contexts(prog) :
       x \notin todo /\ (phase = "build" => x # ctx) => Built(x)
  /\ phase # "build" => todo = {}

(* The parts of Written.                                                   *)
WrittenNext(p, x) ==
  [f \in p.func |->
     {g \in StaticCallees(p, {c \in Calls(p) : p.fun[c] = f /\ Meant(p, x, c)}) :
        ~Foreign(p, x, g)}]

WrittenStart(p, x) ==
  IF x \in DOMAIN p.region THEN StaticCallees(p, p.region[x]) \cap p.defined
  ELSE Starts(p, x) \ (EntryPoints(p) \ Entries(p, x))

LEMMA WrittenReach ==
  ASSUME NEW p, NEW x
  PROVE  Written(p, x) = Reach(p.func, WrittenNext(p, x), WrittenStart(p, x))
  BY DEF Written, WrittenNext, WrittenStart

(* It is least: below any set that holds its start and is closed.          *)
LEMMA WrittenLeast ==
  ASSUME NEW p, NEW x, NEW D \in SUBSET p.func, WrittenStart(p, x) \subseteq D,
         \A f \in D : WrittenNext(p, x)[f] \subseteq D
  PROVE  Written(p, x) \subseteq D
  BY WrittenReach DEF Reach, ClosedUnder

LEMMA WrittenClosed ==
  ASSUME WellFormed(prog), NEW x \in Contexts(prog)
  PROVE  /\ WrittenStart(prog, x) \subseteq Written(prog, x)
         /\ Written(prog, x) \subseteq prog.func
         /\ \A f \in Written(prog, x) : WrittenNext(prog, x)[f] \subseteq Written(prog, x)
  <1>1. Written(prog, x) = Reach(prog.func, WrittenNext(prog, x), WrittenStart(prog, x))
    BY WrittenReach
  <1>2. Written(prog, x) \subseteq prog.func
    BY <1>1, ReachWithin
  <1>3. StaticCallees(prog, Calls(prog)) \subseteq prog.func
    BY DEF WellFormed, StaticCallees
  <1>4. WrittenStart(prog, x) \subseteq prog.func
    <2>1. CASE x \in DOMAIN prog.region
      BY <2>1 DEF WrittenStart, WellFormed
    <2>2. CASE x \notin DOMAIN prog.region
      BY <2>2 DEF WrittenStart, Starts, WellFormed, Contexts, Boxes
    <2>3. QED
      BY <2>1, <2>2
  <1>5. \A f \in prog.func : WrittenNext(prog, x)[f] \subseteq prog.func
    BY <1>3 DEF WrittenNext, StaticCallees
  <1>6. QED
    BY <1>1, <1>2, <1>4, <1>5, ReachClosed

LEMMA MeantCalls ==
  ASSUME NEW x, NEW f, f # Region, NEW c \in Calls(prog), prog.fun[c] = f
  PROVE  Meant(prog, x, c) <=> c \in CallsOf(prog, x, f)
  BY DEF CallsOf, Meant, InRegions

(* The worklist is empty: what was looked at is closed.                    *)
LEMMA CurrentDone ==
  ASSUME TypeInv, CurrentBuilt, worklist = {}
  PROVE  Built(ctx)
  <1>0. WellFormed(prog) /\ ctx \in Contexts(prog) /\ processed \subseteq prog.func
    BY ProgramsAssumption DEF TypeInv, TypeOK
  <1> DEFINE D == {f \in prog.func : f \in processed \/ f \notin prog.defined}
  <1>1. ctx \in DOMAIN prog.region =>
          \A c \in prog.region[ctx] : Recorded(ctx, c) /\ \A g \in prog.static[c] : Covered(g)
    <2>1. SUFFICES ASSUME ctx \in DOMAIN prog.region
                   PROVE  LookedAt(Region)
      BY DEF LookedAt, CallsOf
    <2>2. Starts(prog, ctx) = {Region}
      BY <1>0, <2>1 DEF Starts, WellFormed, Boxes
    <2>3. QED
      BY <2>2 DEF CurrentBuilt
  <1>2. ~EntersDirectly(prog, ctx) => WrittenStart(prog, ctx) \subseteq D
    <2>1. SUFFICES ASSUME ~EntersDirectly(prog, ctx), NEW g \in WrittenStart(prog, ctx)
                   PROVE  g \in D
      OBVIOUS
    <2>2. g \in prog.func
      BY <1>0, WrittenClosed
    <2>3. CASE ctx \in DOMAIN prog.region
      <3>1. PICK c \in prog.region[ctx] : g \in prog.static[c] /\ g \in prog.defined
        BY <2>1, <2>3 DEF WrittenStart, StaticCallees
      <3>2. g \notin EntryPoints(prog)
        BY <2>1, <2>3, <3>1 DEF EntersDirectly, StaticCallees
      <3>3. Covered(g)
        BY <1>1, <2>3, <3>1
      <3>4. QED
        BY <2>2, <3>1, <3>2, <3>3 DEF Covered, Foreign
    <2>4. CASE ctx \notin DOMAIN prog.region
      <3>1. g \in Starts(prog, ctx) /\ ~Foreign(prog, ctx, g)
        BY <2>1, <2>4 DEF WrittenStart, Foreign
      <3>2. g # Region
        BY <1>0, <2>2 DEF WellFormed
      <3>3. Covered(g)
        BY <3>1, <3>2 DEF CurrentBuilt
      <3>4. QED
        BY <2>2, <3>1, <3>3 DEF Covered
    <2>5. QED
      BY <2>3, <2>4
  <1>3. ASSUME NEW f \in D, NEW c \in Calls(prog), prog.fun[c] = f, Meant(prog, ctx, c)
        PROVE  Recorded(ctx, c) /\ \A g \in prog.static[c] : Covered(g)
    <2>1. f \in processed /\ f # Region
      BY <1>0, <1>3 DEF WellFormed
    <2>2. c \in CallsOf(prog, ctx, f)
      BY <1>3, <2>1, MeantCalls
    <2>3. QED
      BY <2>1, <2>2 DEF CurrentBuilt, LookedAt
  <1>4. ASSUME NEW f \in D PROVE WrittenNext(prog, ctx)[f] \subseteq D
    <2>1. SUFFICES ASSUME NEW g \in WrittenNext(prog, ctx)[f] PROVE g \in D
      OBVIOUS
    <2>2. PICK c \in Calls(prog) :
            prog.fun[c] = f /\ Meant(prog, ctx, c) /\ g \in prog.static[c] /\ ~Foreign(prog, ctx, g)
      BY <1>4, <2>1 DEF WrittenNext, StaticCallees
    <2>3. Covered(g)
      BY <1>3, <1>4, <2>2
    <2>4. g \in prog.func
      BY <1>0, <2>2 DEF WellFormed
    <2>5. QED
      BY <2>2, <2>3, <2>4 DEF Covered
  <1>5. ~EntersDirectly(prog, ctx) => Written(prog, ctx) \subseteq D
    <2> HIDE DEF D
    <2>1. D \in SUBSET prog.func
      BY DEF D
    <2>2. QED
      BY <1>2, <1>4, <2>1, WrittenLeast
  <1>6. QED
    BY <1>1, <1>3, <1>5 DEF Built

(* More edges leave what is built built.                                   *)
LEMMA BuiltGrows ==
  ASSUME WellFormed(prog), prog' = prog, NEW x \in Contexts(prog), Built(x),
         \A c \in Calls(prog) : callToCallees[<<c, x>>] \subseteq callToCallees'[<<c, x>>]
  PROVE  Built(x)'
  <1>1. \A c \in Calls(prog) : Recorded(x, c) => Recorded(x, c)'
    BY DEF Recorded
  <1>2. x \in DOMAIN prog.region => prog.region[x] \subseteq Calls(prog)
    BY DEF WellFormed
  <1>3. /\ EntersDirectly(prog, x)' = EntersDirectly(prog, x)
        /\ Written(prog, x)' = Written(prog, x)
        /\ Calls(prog)' = Calls(prog)
        /\ \A c : Meant(prog, x, c)' = Meant(prog, x, c)
    BY DEF EntersDirectly, StaticCallees, EntryPoints, Written, Reach, ClosedUnder,
           Calls, Meant, Foreign, Entries, Starts
  <1>4. QED
    BY <1>1, <1>2, <1>3 DEF Built

LEMMA BuildInit == Init => BuildInv
  <1> SUFFICES ASSUME Init PROVE BuildInv
    OBVIOUS
  <1>1. PRIV \in Contexts(prog)
    BY DEF Contexts
  <1>2. QED
    BY <1>1 DEF Init, BuildInv

LEMMA LookAtBuilds ==
  TypeInv /\ BuildInv /\ LookAt => BuildInv'
  <1> SUFFICES ASSUME TypeInv, BuildInv, LookAt PROVE BuildInv'
    OBVIOUS
  <1>0. WellFormed(prog) /\ GraphType /\ ctx \in Contexts(prog) /\ processed \subseteq prog.func
    BY ProgramsAssumption DEF TypeInv, TypeOK, GraphType
  <1>1. PICK f \in worklist :
          /\ Insert(ctx, [c \in CallsOf(prog, ctx, f) |-> prog.static[c]])
          /\ worklist' = (worklist \ {f}) \cup UNION {prog.static[c] : c \in CallsOf(prog, ctx, f)}
          /\ processed' = IF f = Region THEN processed ELSE processed \cup {f}
    BY DEF LookAt
  <1>2. phase = "build" /\ phase' = "build" /\ prog' = prog /\ ctx' = ctx /\ todo' = todo
    BY DEF LookAt
  <1> DEFINE callees == [c \in CallsOf(prog, ctx, f) |-> prog.static[c]]
  <1>3. CallsOf(prog, ctx, f) \subseteq Calls(prog) /\ NewCallees(callees)
    BY <1>2, LookAtCallees
  <1>4. \A x \in Contexts(prog), c \in Calls(prog) :
          callToCallees[<<c, x>>] \subseteq callToCallees'[<<c, x>>]
    <2> HIDE DEF callees
    <2>1. Insert(ctx, callees)
      BY <1>1 DEF callees
    <2>2. QED
      BY <1>0, <1>3, <2>1, InsertLocal
  <1>5. \A c \in CallsOf(prog, ctx, f) : Recorded(ctx, c)'
    BY <1>0, <1>1, <1>2, <1>3 DEF Recorded, Insert, GraphType
  <1>6. \A g : CallsOf(prog, ctx, g)' = CallsOf(prog, ctx, g)
    BY <1>2 DEF CallsOf, Calls, InRegions
  <1>7. \A g \in prog.func : Covered(g) => Covered(g)'
    <2>1. \A g : Foreign(prog, ctx, g)' = Foreign(prog, ctx, g)
      BY <1>2 DEF Foreign, EntryPoints, Entries
    <2>2. Region \notin prog.func
      BY <1>0 DEF WellFormed
    <2>3. QED
      BY <1>1, <1>2, <2>1, <2>2 DEF Covered
  <1>8. ASSUME NEW h, LookedAt(h), CallsOf(prog, ctx, h) \subseteq Calls(prog)
        PROVE  LookedAt(h)'
    <2>1. \A c \in CallsOf(prog, ctx, h) : prog.static[c] \subseteq prog.func
      BY <1>0, <1>8 DEF WellFormed
    <2>2. \A c \in CallsOf(prog, ctx, h) : Recorded(ctx, c)'
      BY <1>0, <1>2, <1>4, <1>8 DEF LookedAt, Recorded
    <2>3. \A c \in CallsOf(prog, ctx, h) : \A g \in prog.static[c] : Covered(g)'
      BY <1>7, <1>8, <2>1 DEF LookedAt
    <2>4. QED
      BY <1>2, <1>6, <2>2, <2>3 DEF LookedAt
  <1>9. LookedAt(f)'
    <2>1. \A c \in CallsOf(prog, ctx, f) : \A g \in prog.static[c] : Covered(g)'
      BY <1>1 DEF Covered
    <2>2. QED
      BY <1>2, <1>5, <1>6, <2>1 DEF LookedAt
  <1>10. ctx \notin todo => CurrentBuilt'
    <2>1. SUFFICES ASSUME ctx \notin todo PROVE CurrentBuilt'
      OBVIOUS
    <2>2. CurrentBuilt
      BY <1>2, <2>1 DEF BuildInv
    <2>3. ASSUME NEW h \in processed' PROVE LookedAt(h)'
      <3>1. CASE h = f
        BY <1>9, <3>1
      <3>2. CASE h # f
        <4>1. h \in processed /\ LookedAt(h) /\ h # Region
          BY <1>0, <1>1, <2>2, <2>3, <3>2 DEF CurrentBuilt, WellFormed
        <4>2. CallsOf(prog, ctx, h) \subseteq Calls(prog)
          BY <4>1 DEF CallsOf
        <4>3. QED
          BY <1>8, <4>1, <4>2
      <3>3. QED
        BY <3>1, <3>2
    <2>4. ASSUME NEW h \in Starts(prog, ctx)
          PROVE  (h = Region /\ LookedAt(h)') \/ h \in worklist' \/ (h # Region /\ Covered(h)')
      <3>1. CASE h = f
        BY <1>1, <1>9, <3>1 DEF Covered
      <3>2. CASE h # f /\ h \in worklist
        BY <1>1, <3>2
      <3>3. CASE h = Region /\ LookedAt(h)
        <4>1. ctx \in DOMAIN prog.region
          BY <1>0, <2>4, <3>3 DEF Starts, WellFormed, Contexts, Boxes
        <4>2. CallsOf(prog, ctx, h) \subseteq Calls(prog)
          BY <1>0, <3>3, <4>1 DEF CallsOf, WellFormed
        <4>3. QED
          BY <1>8, <3>3, <4>2
      <3>4. CASE h # Region /\ Covered(h)
        <4>1. h \in prog.func
          BY <1>0, <2>4, <3>4 DEF Starts, WellFormed, Contexts, Boxes
        <4>2. QED
          BY <1>7, <3>4, <4>1
      <3>5. QED
        BY <2>2, <2>4, <3>1, <3>2, <3>3, <3>4 DEF CurrentBuilt
    <2>5. Starts(prog, ctx)' = Starts(prog, ctx)
      BY <1>2 DEF Starts
    <2>6. QED
      BY <2>3, <2>4, <2>5 DEF CurrentBuilt
  <1>11. ASSUME NEW x \in Contexts(prog), x \notin todo, x # ctx PROVE Built(x)'
    BY <1>0, <1>2, <1>4, <1>11, BuiltGrows DEF BuildInv
  <1>12. Contexts(prog)' = Contexts(prog)
    BY <1>2 DEF Contexts, Boxes
  <1>13. QED
    BY <1>2, <1>10, <1>11, <1>12 DEF BuildInv

LEMMA BuildStep == TypeInv /\ BuildInv /\ [Next]_vars => BuildInv'
  <1> SUFFICES ASSUME TypeInv, BuildInv, [Next]_vars PROVE BuildInv'
    OBVIOUS
  <1>0. WellFormed(prog) /\ GraphType /\ ctx \in Contexts(prog)
    BY ProgramsAssumption DEF TypeInv, TypeOK, GraphType
  <1>1. prog' = prog
    BY DEF Next, vars, NextContext, Skip, LookAt, CalculatePrivileged, ReinitSandboxes,
           AddTargets, EndPointers
  <1>2. Contexts(prog)' = Contexts(prog)
    BY <1>1 DEF Contexts, Boxes
  <1>3. ASSUME UNCHANGED graph PROVE \A x \in Contexts(prog) : Built(x) => Built(x)'
    BY <1>0, <1>1, <1>3, BuiltGrows DEF graph
  <1>4. phase = "build" /\ worklist = {} =>
          \A x \in Contexts(prog) : x \notin todo => Built(x)
    BY CurrentDone DEF BuildInv
  <1>5. CASE NextContext
    <2>1. PICK x \in todo : ctx' = x /\ todo' = todo \ {x} /\ worklist' = Starts(prog, x)
      BY <1>5 DEF NextContext
    <2>2. phase = "build" /\ phase' = "build" /\ worklist = {} /\ processed' = {} /\ UNCHANGED graph
      BY <1>5 DEF NextContext
    <2>3. CurrentBuilt'
      <3>1. Starts(prog, ctx)' = Starts(prog, x)
        BY <1>1, <2>1 DEF Starts
      <3>2. QED
        BY <2>1, <2>2, <3>1 DEF CurrentBuilt
    <2>4. \A y \in Contexts(prog) : y \notin todo' /\ y # ctx' => Built(y)'
      BY <1>3, <1>4, <2>1, <2>2
    <2>5. QED
      BY <1>2, <2>2, <2>3, <2>4 DEF BuildInv
  <1>6. CASE Skip
    <2>1. PICK f \in worklist : Skipped(f) /\ worklist' = worklist \ {f}
      BY <1>6 DEF Skip
    <2>2. /\ phase = "build" /\ phase' = "build" /\ ctx' = ctx /\ todo' = todo
          /\ processed' = processed /\ UNCHANGED graph
      BY <1>6 DEF Skip
    <2>3. \A g : Covered(g) => Covered(g)'
      <3>1. \A g : Foreign(prog, ctx, g)' = Foreign(prog, ctx, g)
        BY <1>1, <2>2 DEF Foreign, EntryPoints, Entries
      <3>2. f \in processed \/ f \notin prog.defined \/ Foreign(prog, ctx, f)
        BY <2>1 DEF Skipped
      <3>3. QED
        BY <1>1, <2>1, <2>2, <3>1, <3>2 DEF Covered
    <2>4. \A g : CallsOf(prog, ctx, g)' = CallsOf(prog, ctx, g)
      BY <1>1, <2>2 DEF CallsOf, Calls, InRegions
    <2>5. \A c : Recorded(ctx, c)' = Recorded(ctx, c)
      BY <1>1, <2>2 DEF Recorded, graph
    <2>6. \A g : LookedAt(g) => LookedAt(g)'
      BY <1>1, <2>3, <2>4, <2>5 DEF LookedAt
    <2>7. CurrentBuilt => CurrentBuilt'
      <3>1. Starts(prog, ctx)' = Starts(prog, ctx)
        BY <1>1, <2>2 DEF Starts
      <3>2. f # Region /\ Covered(f)
        BY <2>1 DEF Skipped, Covered
      <3>3. QED
        BY <2>1, <2>2, <2>3, <2>6, <3>1, <3>2 DEF CurrentBuilt
    <2>8. QED
      BY <1>2, <1>3, <2>2, <2>7 DEF BuildInv
  <1>7. CASE LookAt
    BY <1>7, LookAtBuilds
  <1>8. CASE CalculatePrivileged
    <2>1. phase = "build" /\ worklist = {} /\ todo = {} /\ todo' = {} /\ phase' = "reinit"
            /\ UNCHANGED graph
      BY <1>8 DEF CalculatePrivileged, building
    <2>2. QED
      BY <1>2, <1>3, <1>4, <2>1 DEF BuildInv
  <1>9. CASE AddTargets
    <2>1. PICK c \in DOMAIN prog.targets, x \in Contexts(prog) :
            \E T \in SUBSET prog.targets[c] : Insert(x, [d \in {c} |-> T])
      BY <1>9 DEF AddTargets
    <2>2. PICK T \in SUBSET prog.targets[c] : Insert(x, [d \in {c} |-> T])
      BY <2>1
    <2>3. \A y \in Contexts(prog), d \in Calls(prog) :
            callToCallees[<<d, y>>] \subseteq callToCallees'[<<d, y>>]
      BY <1>0, <2>2, TargetCallees, InsertLocal
    <2>4. phase = "pointers" /\ phase' = "pointers" /\ todo' = todo
      BY <1>9 DEF AddTargets, building
    <2>5. \A y \in Contexts(prog) : Built(y) => Built(y)'
      BY <1>0, <1>1, <2>3, BuiltGrows
    <2>6. QED
      BY <1>2, <2>4, <2>5 DEF BuildInv
  <1>10. CASE ReinitSandboxes \/ EndPointers
    <2>1. phase # "build" /\ phase' # "build" /\ todo' = todo /\ UNCHANGED graph
      BY <1>10 DEF ReinitSandboxes, EndPointers, building
    <2>2. QED
      BY <1>2, <1>3, <2>1 DEF BuildInv
  <1>11. CASE UNCHANGED vars
    <2>1. /\ UNCHANGED graph /\ phase' = phase /\ todo' = todo /\ ctx' = ctx
          /\ worklist' = worklist /\ processed' = processed
      BY <1>11 DEF vars, building
    <2>2. CurrentBuilt => CurrentBuilt'
      BY <1>1, <2>1
      DEF CurrentBuilt, LookedAt, Covered, Recorded, Starts, CallsOf, Calls, InRegions,
          Foreign, EntryPoints, Entries, graph
    <2>3. QED
      BY <1>2, <1>3, <2>1, <2>2 DEF BuildInv
  <1>12. QED
    BY <1>5, <1>6, <1>7, <1>8, <1>9, <1>10, <1>11 DEF Next

(* Nothing that is written is missing from the closure ...                 *)
LEMMA WrittenWithin ==
  ASSUME TypeInv, MapsAgree, NEW x \in Contexts(prog), Built(x), ~EntersDirectly(prog, x)
  PROVE  Written(prog, x) \subseteq Closure(x)
  <1>0. WellFormed(prog)
    BY ProgramsAssumption DEF TypeInv
  <1> DEFINE D == Closure(x) \cap Written(prog, x)
  <1>1. D \in SUBSET prog.func
    BY <1>0, WrittenClosed
  <1>2. ASSUME NEW g \in WrittenStart(prog, x) PROVE g \in D
    <2>1. g \in Written(prog, x) /\ g \in prog.func
      BY <1>0, WrittenClosed
    <2>2. CASE x \in DOMAIN prog.region
      <3>1. PICK c \in prog.region[x] : g \in prog.static[c] /\ g \in prog.defined
        BY <2>2 DEF WrittenStart, StaticCallees
      <3>2. g \in callToCallees[<<c, x>>]
        BY <2>2, <3>1 DEF Built, Recorded
      <3>3. QED
        BY <1>0, <2>1, <2>2, <3>1, <3>2, ClosureRegion DEF Closure
    <2>3. CASE x \notin DOMAIN prog.region
      <3>1. g \in Starts(prog, x) /\ ~Foreign(prog, x, g) /\ g # Region
        BY <1>0, <2>1, <2>3 DEF WrittenStart, Foreign, WellFormed
      <3>2. g \in prog.defined
        BY <1>0, <2>3, <3>1 DEF Starts, WellFormed, Contexts, Boxes
      <3>3. Expected(x, g)
        BY <1>0, <3>1, ClosureStart
      <3>4. QED
        BY <2>1, <3>1, <3>2, <3>3 DEF Expected
    <2>4. QED
      BY <2>2, <2>3
  <1>3. ASSUME NEW f \in D, NEW g \in WrittenNext(prog, x)[f] PROVE g \in D
    <2>1. f \in prog.func
      BY <1>1
    <2>2. PICK c \in Calls(prog) :
            prog.fun[c] = f /\ Meant(prog, x, c) /\ g \in prog.static[c] /\ ~Foreign(prog, x, g)
      BY <1>3, <2>1 DEF WrittenNext, StaticCallees
    <2>3. g \in callToCallees[<<c, x>>]
      BY <2>2 DEF Built, Recorded
    <2>4. g \in prog.func /\ g \in Written(prog, x)
      BY <1>0, <1>3, <2>2, WrittenClosed DEF WellFormed
    <2>5. g \in funcToCallees[<<f, x>>]
      BY <2>1, <2>2, <2>3, <2>4 DEF MapsAgree
    <2>6. QED
      BY <1>0, <2>2, <2>4, <2>5, ClosureNext DEF Closure
  <1>4. Written(prog, x) \subseteq D
    <2> HIDE DEF D
    <2>1. QED
      BY <1>1, <1>2, <1>3, WrittenLeast
  <1>5. QED
    BY <1>4

(* ... and nothing else is in it unless a pointer has added an edge.       *)
LEMMA WithinWritten ==
  ASSUME TypeInv, MapsAgree, EdgesWithin, NEW x \in Contexts(prog),
         \A c \in Calls(prog) : callToCallees[<<c, x>>] \subseteq prog.static[c]
  PROVE  Closure(x) \subseteq Written(prog, x)
  <1>0. WellFormed(prog)
    BY ProgramsAssumption DEF TypeInv
  <1> DEFINE D == Written(prog, x)
  <1>1. D \in SUBSET prog.func
    BY <1>0, WrittenClosed
  <1>2. ASSUME NEW f \in D, NEW g \in prog.func,
               g \in funcToCallees[<<f, x>>], ~Foreign(prog, x, g)
        PROVE  g \in D
    <2>1. f \in prog.func
      BY <1>1
    <2>2. PICK c \in Calls(prog) : prog.fun[c] = f /\ g \in callToCallees[<<c, x>>]
      <3>1. \A k \in prog.func : g \in funcToCallees[<<k, x>>] <=>
              \E c \in Calls(prog) : prog.fun[c] = k /\ g \in callToCallees[<<c, x>>]
        BY Zenon DEF MapsAgree
      <3>2. g \in funcToCallees[<<f, x>>]
        BY <1>2
      <3>3. QED
        BY <2>1, <3>1, <3>2
    <2>3. Meant(prog, x, c)
      BY <1>0, <2>2 DEF EdgesWithin, Within, Meant, InRegions, WellFormed, Boxes
    <2>4. g \in WrittenNext(prog, x)[f]
      BY <1>2, <2>1, <2>2, <2>3 DEF WrittenNext, StaticCallees
    <2>5. QED
      BY <1>0, <1>2, <2>4, WrittenClosed
  <1>3. funcToCallees \in [prog.func \X Contexts(prog) -> SUBSET prog.func]
    BY DEF TypeInv, TypeOK
  <1>4. CASE x = PRIV
    <2> DEFINE succ == [f \in prog.func |-> funcToCallees[<<f, PRIV>>] \ EntryPoints(prog)]
               start == prog.main \ EntryPoints(prog)
    <2>1. x \notin DOMAIN prog.region
      BY <1>0, <1>4 DEF WellFormed, Boxes
    <2>2. start \subseteq D
      BY <1>0, <1>4, <2>1, WrittenClosed DEF WrittenStart, Starts
    <2>3. ClosedUnder(succ, D)
      BY <1>1, <1>2, <1>3, <1>4 DEF ClosedUnder, Foreign
    <2>4. Reach(prog.func, succ, start) \subseteq D
      <3> HIDE DEF D, succ, start
      <3>1. QED
        BY <1>1, <2>2, <2>3 DEF Reach
    <2>5. QED
      BY <1>4, <2>4 DEF Closure, ClosureIn, PrivilegedIn
  <1>5. CASE x # PRIV
    <2> DEFINE succ == [f \in prog.func |-> {g \in funcToCallees[<<f, x>>] : ~Foreign(prog, x, g)}]
               start == Initial(callToCallees, x)
    <2>1. start \subseteq D
      <3>1. CASE x \in DOMAIN prog.entry
        BY <1>0, <1>5, <3>1, WrittenClosed
        DEF WrittenStart, Starts, Initial, Entries, WellFormed
      <3>2. CASE x \notin DOMAIN prog.entry
        <4>1. x \in DOMAIN prog.region /\ prog.region[x] \subseteq Calls(prog)
          BY <1>0, <1>5, <3>2 DEF Contexts, Boxes, WellFormed
        <4>2. start \subseteq WrittenStart(prog, x)
          BY <3>2, <4>1 DEF Initial, WrittenStart, StaticCallees
        <4>3. QED
          BY <1>0, <4>2, WrittenClosed
      <3>3. QED
        BY <3>1, <3>2
    <2>2. ClosedUnder(succ, D)
      BY <1>1, <1>2, <1>3 DEF ClosedUnder
    <2>3. Reach(prog.func, succ, start) \subseteq D
      <3> HIDE DEF D, succ, start
      <3>1. QED
        BY <1>1, <2>1, <2>2 DEF Reach
    <2>4. QED
      BY <1>5, <2>3 DEF Closure, ClosureIn, FunctionsIn
  <1>6. QED
    BY <1>4, <1>5

(* The graph misses no function that direct and virtual calls reach in any *)
(* context, in whatever order it is built, and has no other one as long as *)
(* no pointer has added an edge to the context.                            *)
THEOREM GraphAsWritten == Spec => []AsWritten
  <1>1. TypeInv /\ MapsAgree /\ CachesInv /\ ContextInv /\ BuildInv => AsWritten
    <2> SUFFICES ASSUME TypeInv, MapsAgree, CachesInv, ContextInv, BuildInv, Ready,
                        NEW x \in Contexts(prog), ~EntersDirectly(prog, x)
                 PROVE  /\ Written(prog, x) \subseteq MembersOf(x)
                        /\ (\A c \in Calls(prog) : callToCallees[<<c, x>>] \subseteq prog.static[c])
                             => MembersOf(x) = Written(prog, x)
      BY DEF AsWritten
    <2>1. MembersOf(x) = Closure(x) /\ Built(x)
      BY MembersClosure DEF BuildInv, Ready
    <2>2. QED
      BY <2>1, WrittenWithin, WithinWritten DEF ContextInv
  <1>2. Spec => []CachesInv
    BY CachesInit, CachesStep, TypeCorrect, PTL DEF Spec
  <1>3. Spec => []ContextInv
    BY <1>2, ContextInit, ContextStep, TypeCorrect, PTL DEF Spec
  <1>4. Spec => []BuildInv
    BY BuildInit, BuildStep, TypeCorrect, PTL DEF Spec
  <1>5. QED
    BY <1>1, <1>2, <1>3, <1>4, TypeCorrect, MapsConsistent, PTL
=============================================================================
