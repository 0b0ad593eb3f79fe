--------------------------- MODULE ClassHierarchy ---------------------------
(***************************************************************************)
(* ClassHierarchyUtils: which functions a virtual call may call, found in  *)
(* the type_info structures and virtual tables that the compiler has left  *)
(* in the module.  From the class that defines the called function the     *)
(* walk goes down all its subclasses; from the call's static type on, it   *)
(* looks in each virtual table at the place the function has in the        *)
(* subobject of the defining class, which moves as the walk goes down.     *)
(*                                                                         *)
(* A program is a record:                                                  *)
(*   class      the classes with a type_info                               *)
(*   info       [class whose type_info has an initialiser -> its direct    *)
(*              bases, a sequence of [base, virtual, offset]]: the offset  *)
(*              of the base or, of a virtual base, of its offset in the    *)
(*              virtual table                                              *)
(*   vtable     [class whose virtual table has an initialiser -> its sub-  *)
(*              tables, sequences of entries [kind, val]: "num", "ti" or   *)
(*              "fun"]                                                     *)
(*   thunk      [thunk -> [name, body, of]]: the prefix of its name (a     *)
(*              _ZTc also adjusts the result, of a covariant type), whether*)
(*              the module has its body, and the function it is for, which *)
(*              the body calls first (thunks of functions with "..." are   *)
(*              copies of these, and are left out)                         *)
(*   call       [call with metadata -> [defining, static, idx, proper]],   *)
(*              the types as [by, class]: named by the virtual table or by *)
(*              its name; proper: is it the load, GEP and constant that    *)
(*              are expected?                                              *)
(*   calls      these calls, in the order of the module                    *)
(* and, for the properties, the source:                                    *)
(*   declares   [class -> functions it declares virtual], pure [class ->   *)
(*              those that are pure], name [call -> the function called]   *)
(*   at         [class -> its subobjects -> their offsets in an object]    *)
(* Offsets are in words.  Of equal entries (virtual tables have one for    *)
(* each offset) the order of sub-tables does not matter, nor that of       *)
(* subclasses: what is found is a set.                                     *)
(***************************************************************************)
EXTENDS Integers, Sequences, FiniteSets

CONSTANT Programs

VARIABLES
  prog,
  phase,         \* "types", "calls", "walk", "done", or "fatal" after a report_fatal_error()
  classes,       \* the classes processed
  subclasses,    \* classToSubclasses
  baseOffset,    \* classToBaseOffset: [<<class, base>> -> offset]
  vbaseOffset,   \* classToVBaseOffsetOffset, likewise
  subtables,     \* vTableToSecondaryVTableMaps: [class -> [offset -> <<i, j>>]]
  left,          \* the calls still to be looked at
  call,          \* the call looked at
  walk,          \* the visits still to be made for it
  callees        \* callToCalleesCache

tables == <<classes, subclasses, baseOffset, vbaseOffset, subtables>>
hvars == <<prog, phase, tables, left, call, walk, callees>>

INT_MAX == 2147483647
PureVirtual == <<"__cxa_pure_virtual">>

Bases(p, C) == IF C \in DOMAIN p.info THEN {p.info[C][i] : i \in DOMAIN p.info[C]} ELSE {}

(* What a C++ compiler produces: a class has a base directly only once,    *)
(* and none derives from itself.                                           *)
HierarchyAssumption ==
  \A p \in Programs :
    /\ IsFiniteSet(p.class)
    /\ DOMAIN p.info \subseteq p.class /\ DOMAIN p.vtable \subseteq p.class
    /\ \A C \in p.class : \A b \in Bases(p, C) :
         /\ b.base \in p.class /\ b.virtual \in BOOLEAN /\ b.offset \in Int
         /\ b.virtual => b.offset < 0
         /\ \A d \in Bases(p, C) : d.base = b.base => d = b
    /\ \A X \in SUBSET p.class : X # {} =>
         \E C \in X : \A b \in Bases(p, C) : b.base \notin X
    /\ \A h \in DOMAIN p.thunk :
         /\ p.thunk[h].name \in {"_ZTh", "_ZTv", "_ZTc"} /\ p.thunk[h].body \in BOOLEAN
         /\ p.thunk[h].of \notin DOMAIN p.thunk
    /\ p.calls \in Seq(DOMAIN p.call) \ {<< >>}
    /\ DOMAIN p.call = {p.calls[i] : i \in DOMAIN p.calls}
    /\ \A C \in DOMAIN p.vtable : \A i \in DOMAIN p.vtable[C] :
         \A j \in DOMAIN p.vtable[C][i] :
           p.vtable[C][i][j].kind = "ti" =>
             /\ j \in Nat /\ j > 1 /\ p.vtable[C][i][j - 1].kind = "num"
             /\ p.vtable[C][i][j - 1].val \in Int /\ p.vtable[C][i][j - 1].val <= 0
ASSUME HierarchyAssumption

-----------------------------------------------------------------------------
Init ==
  /\ prog \in Programs
  /\ phase = "types"
  /\ classes = {}
  /\ subclasses = [C \in prog.class |-> {}]
  /\ baseOffset = << >> /\ vbaseOffset = << >> /\ subtables = << >>
  /\ left = prog.calls
  /\ call = Head(prog.calls)
  /\ walk = << >>
  /\ callees = [c \in DOMAIN prog.call |-> {}]

(* Where each sub-table starts, by the offset it has for the whole object. *)
Addresses(VT) ==
  LET at == UNION {{i} \X {j \in DOMAIN VT[i] : VT[i][j].kind = "ti"} : i \in DOMAIN VT}
      offset(a) == -VT[a[1]][a[2] - 1].val
  IN [o \in {offset(a) : a \in at} |-> CHOOSE a \in at : offset(a) = o]

Merge(f, g) == [e \in DOMAIN f \cup DOMAIN g |-> IF e \in DOMAIN g THEN g[e] ELSE f[e]]

(* A class: its virtual table, and its direct bases.  A class's bases are  *)
(* processed next, so that the order is that of the module only in part.   *)
ProcessTypeInfo ==
  /\ phase = "types"
  /\ \E TI \in prog.class \ classes :
       LET direct(v) == {b \in Bases(prog, TI) : b.virtual = v}
           offsets(v) ==
             [e \in {<<TI, b.base>> : b \in direct(v)} |->
                (CHOOSE b \in direct(v) : e[2] = b.base).offset]
       IN /\ classes' = classes \cup {TI}
          /\ subclasses' = [C \in prog.class |->
               subclasses[C] \cup {D \in {TI} : \E b \in Bases(prog, TI) : b.base = C}]
          /\ baseOffset' = Merge(baseOffset, offsets(FALSE))
          /\ vbaseOffset' = Merge(vbaseOffset, offsets(TRUE))
          /\ subtables' = Merge(subtables,
               [C \in {TI} \cap DOMAIN prog.vtable |-> Addresses(prog.vtable[C])])
  /\ UNCHANGED <<prog, phase, left, call, walk, callees>>

ClassesFound ==
  /\ phase = "types" /\ classes = prog.class
  /\ phase' = "calls"
  /\ UNCHANGED <<prog, tables, left, call, walk, callees>>

-----------------------------------------------------------------------------
(* The type_info of a type in the metadata: of a virtual table without     *)
(* initialiser it is not known.                                            *)
Known(type) == type.class \in IF type.by = "vtable" THEN DOMAIN prog.vtable ELSE prog.class

(* findAllCalleesInSubClassesHelper()'s parameters.                        *)
Visit(C, vboo, sub, vsub, collecting) ==
  [class |-> C, vboo |-> vboo, sub |-> sub, vsub |-> vsub, collecting |-> collecting]

(* cacheAllCalleesForVirtualCalls(), to the start of a walk.               *)
BeginCall ==
  /\ phase = "calls" /\ left # << >>
  /\ LET m == prog.call[Head(left)]
         typed == Known(m.defining) /\ Known(m.static)
     IN /\ left' = Tail(left)
        /\ call' = Head(left)
        /\ phase' = IF ~typed THEN "calls" ELSE IF m.proper THEN "walk" ELSE "fatal"
        /\ walk' = IF typed /\ m.proper
                   THEN <<Visit(m.defining.class, INT_MAX, 0, 0, FALSE)>> ELSE << >>
  /\ UNCHANGED <<prog, tables, callees>>

CallsFound ==
  /\ phase = "calls" /\ left = << >>
  /\ phase' = "done"
  /\ UNCHANGED <<prog, tables, left, call, walk, callees>>

(* The function a thunk calls, if its name is one of the two looked for.   *)
Extracted(p, f) ==
  IF f \in DOMAIN p.thunk /\ p.thunk[f].name \in {"_ZTh", "_ZTv"} /\ p.thunk[f].body
  THEN p.thunk[f].of ELSE f

(* What is in the virtual table of C, d after the start of a sub-table; of *)
(* numbers, those that are no expressions are zeros.                       *)
Within(C, a, d) == a[2] + 1 + d \in DOMAIN prog.vtable[C][a[1]]
Entry(C, a, d) == prog.vtable[C][a[1]][a[2] + 1 + d]

(* Mutant: the virtual base is looked for from the start of the object.    *)
ObjectOffsetUnadjusted(v, a) == Entry(v.class, a, v.vboo).val + v.vsub

(* The subobject in a virtual base: the virtual base's offset counts from  *)
(* the subobject of the class that has it.                                 *)
ObjectOffset(v, a) ==
  Entry(v.class, a, v.vboo).val - Entry(v.class, a, -2).val + v.vsub

(* Is the sub-table there?  Which is it?                                   *)
Missing(v) == v.sub \notin DOMAIN subtables[v.class]
Misplaced(v) ==
  /\ v.vboo # INT_MAX
  /\ LET a == subtables[v.class][v.sub]
     IN \/ ~(Within(v.class, a, v.vboo) /\ Entry(v.class, a, v.vboo).kind = "num")
        \/ ObjectOffset(v, a) \notin DOMAIN subtables[v.class]
SubTable(v) ==
  LET a == subtables[v.class][v.sub]
  IN IF v.vboo = INT_MAX THEN a ELSE subtables[v.class][ObjectOffset(v, a)]

Absent(v, idx) ==
  \/ ~Within(v.class, SubTable(v), idx)
  \/ Entry(v.class, SubTable(v), idx).kind # "fun"

Looks(v) ==
  /\ v.collecting \/ v.class = prog.call[call].static.class
  /\ v.class \in DOMAIN prog.vtable

Skips(v) == Looks(v) /\ (Missing(v) \/ Absent(v, prog.call[call].idx))

Found(v) ==
  IF Looks(v) /\ ~Skips(v)
  THEN {Extracted(prog, f) : f \in {Entry(v.class, SubTable(v), prog.call[call].idx).val} \ {PureVirtual}}
  ELSE {}

(* The visits to the subclasses of v's class: through a virtual base the   *)
(* offset so far is one in the virtual base.                               *)
Down(v, sub) ==
  LET C == v.class
      collecting == v.collecting \/ C = prog.call[call].static.class
  IN IF <<sub, C>> \in DOMAIN vbaseOffset
     THEN Visit(sub, vbaseOffset[<<sub, C>>], 0, v.sub, collecting)
     ELSE Visit(sub, v.vboo, v.sub + (IF Skips(v) THEN 0 ELSE baseOffset[<<sub, C>>]),
                v.vsub, collecting)

AnotherVirtualBase(v) ==
  v.vboo # INT_MAX /\ \E sub \in subclasses[v.class] : <<sub, v.class>> \in DOMAIN vbaseOffset

Fatal(v) == (Looks(v) /\ ~Missing(v) /\ Misplaced(v)) \/ AnotherVirtualBase(v)

InSomeOrder(S) == CHOOSE s \in [1..Cardinality(S) -> S] : \A x \in S : \E i \in DOMAIN s : s[i] = x

VisitClass ==
  /\ phase = "walk" /\ walk # << >>
  /\ LET v == Head(walk)
     IN IF Fatal(v)
        THEN phase' = "fatal" /\ UNCHANGED <<walk, callees>>
        ELSE /\ callees' = [callees EXCEPT ![call] = @ \cup Found(v)]
             /\ walk' = InSomeOrder({Down(v, sub) : sub \in subclasses[v.class]}) \o Tail(walk)
             /\ UNCHANGED phase
  /\ UNCHANGED <<prog, tables, left, call>>

EndCall ==
  /\ phase = "walk" /\ walk = << >>
  /\ phase' = "calls"
  /\ UNCHANGED <<prog, tables, left, call, walk, callees>>

Next == ProcessTypeInfo \/ ClassesFound \/ BeginCall \/ CallsFound \/ VisitClass \/ EndCall

Spec == Init /\ [][Next]_hvars /\ WF_hvars(Next)

-----------------------------------------------------------------------------
(***************************************************************************)
(* What C++ says.  A subobject is the path to it, from the whole object or *)
(* from a virtual base (of which there is one); it is in another if its    *)
(* path goes on from there, or from a virtual base of the other's class.   *)
(***************************************************************************)
Paths(p) ==
  LET P[C \in p.class] ==
        {<<C>>} \cup UNION {{<<C>> \o s : s \in P[b.base]} : b \in {d \in Bases(p, C) : ~d.virtual}}
  IN P

VirtualBases(p) ==
  LET V[C \in p.class] ==
        UNION {V[b.base] \cup (IF b.virtual THEN {b.base} ELSE {}) : b \in Bases(p, C)}
  IN V

Last(s) == s[Len(s)]
Subobjects(p, E) == UNION {Paths(p)[C] : C \in {E} \cup VirtualBases(p)[E]}
Contains(p, s, t) ==
  \/ Len(s) <= Len(t) /\ SubSeq(t, 1, Len(s)) = s
  \/ t[1] \in VirtualBases(p)[Last(s)]

(* The functions that override f of subobject t last, in an object of E.   *)
FinalOverriders(p, E, t, f) ==
  LET over == {s \in Subobjects(p, E) : Contains(p, s, t) /\ f \in p.declares[Last(s)]}
  IN {<<Last(s), f>> : s \in {r \in over : \A q \in over : q # r => ~Contains(p, q, r)}}

(* The functions a call may call, of objects whose table is known.         *)
Implementations(p, c) ==
  LET f == p.name[c]
      D == p.call[c].defining.class
      S == p.call[c].static.class
      callable(E) ==
        UNION {UNION {FinalOverriders(p, E, t, f) :
                        t \in {r \in Subobjects(p, E) : Last(r) = D /\ Contains(p, s, r)}} :
               s \in {r \in Subobjects(p, E) : Last(r) = S}}
  IN {g \in UNION {callable(E) : E \in DOMAIN p.vtable} : f \notin p.pure[g[1]]}

(* The function that a call which goes to f ends up in.                    *)
Behind(p, f) == IF f \in DOMAIN p.thunk THEN p.thunk[f].of ELSE f

(* What a compiler writes into virtual tables: E's has a sub-table for     *)
(* each part of an object that has virtual bases or that a call may be     *)
(* made on, with the offsets of those bases and the overriders' entries.   *)
InTable(p, E, o, d) ==
  LET A == Addresses(p.vtable[E])
  IN IF o \in DOMAIN A
     THEN {p.vtable[E][A[o][1]][j] : j \in {A[o][2] + 1 + d} \cap DOMAIN p.vtable[E][A[o][1]]}
     ELSE {}

TablesAssumption ==
  \A p \in Programs : LET at == p.at IN
    /\ \A E \in p.class :
         /\ at[E][<<E>>] = 0
         /\ \A s \in Subobjects(p, E) : at[E][s] \in Int
         /\ \A b \in Bases(p, E) : ~b.virtual =>
              \A s \in Paths(p)[b.base] : at[E][<<E>> \o s] = b.offset + at[b.base][s]
         /\ \A V \in VirtualBases(p)[E] : \A s \in Paths(p)[V] : at[E][s] = at[E][<<V>>] + at[V][s]
    /\ \A E \in DOMAIN p.vtable :
         /\ \A s \in Paths(p)[E] : \A b \in Bases(p, Last(s)) : b.virtual =>
              InTable(p, E, at[E][s], b.offset) = {[kind |-> "num", val |-> at[E][<<b.base>>] - at[E][s]]}
         /\ \A c \in DOMAIN p.call : p.name[c] \in p.declares[p.call[c].defining.class] =>
              \A s \in Subobjects(p, E) : Last(s) = p.call[c].defining.class =>
                \E e \in InTable(p, E, at[E][s], p.call[c].idx) :
                  /\ e.kind = "fun" /\ InTable(p, E, at[E][s], p.call[c].idx) = {e}
                  /\ {Behind(p, f) : f \in {e.val} \ {PureVirtual}} =
                       {g \in FinalOverriders(p, E, s, p.name[c]) : p.name[c] \notin p.pure[g[1]]}
ASSUME TablesAssumption

(***************************************************************************)
(* "Find all implementations in reciever's class (corresponding to the     *)
(* static type) as well as all descendent classes": a virtual call has as  *)
(* callees the functions that C++ gives it, for objects of any class whose *)
(* virtual table is in the module, through any mixture of bases, repeated  *)
(* and virtual ones: each of them, or its thunk where the result is also   *)
(* adjusted or the thunk has no body.  (Of functions declared in a sub-    *)
(* class, to whose type the object was cast down, nothing is said.)        *)
(***************************************************************************)
LookedAt(c) == phase \in {"calls", "done"} /\ \A i \in DOMAIN left : left[i] # c

MayStay(p, f) == f \in DOMAIN p.thunk => p.thunk[f].name = "_ZTc" \/ ~p.thunk[f].body

VirtualCalleesExact ==
  \A c \in DOMAIN prog.call :
    /\ LookedAt(c) /\ Known(prog.call[c].defining) /\ Known(prog.call[c].static)
    /\ DOMAIN prog.info = prog.class /\ prog.name[c] \in prog.declares[prog.call[c].defining.class]
    => /\ {Behind(prog, f) : f \in callees[c]} = Implementations(prog, c)
       /\ \A f \in callees[c] : MayStay(prog, f)
=============================================================================
