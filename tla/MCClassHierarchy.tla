-------------------------- MODULE MCClassHierarchy --------------------------
(***************************************************************************)
(* Hierarchies of up to five classes, with the type_info structures and    *)
(* virtual tables a compiler builds for them (Itanium C++ ABI; each class  *)
(* has a word of data, so that no virtual base is a primary one; offsets   *)
(* for virtual calls are left out).  A function is declared with the first *)
(* of two types, or with a covariant one whose result must be adjusted: it *)
(* then has an entry of its own, and a thunk in the entries of the first.  *)
(***************************************************************************)
EXTENDS ClassHierarchy, TLC
LOCAL INSTANCE FiniteSetsExt

(* H: [class -> [bases: sequence of <<base, virtual>>, order, pure, and    *)
(* covariant, those declared with the covariant type]].                    *)
Sum(s) == LET S[i \in 0..Len(s)] == IF i = 0 THEN 0 ELSE S[i - 1] + s[i] IN S[Len(s)]
Without(s, t) == SelectSeq(t, LAMBDA x : \A i \in DOMAIN s : s[i] # x)

NonVirtual(H, C) ==
  LET nv == SelectSeq(H[C].bases, LAMBDA b : ~b[2]) IN [i \in DOMAIN nv |-> nv[i][1]]

SizeOf(H) ==
  LET N[C \in DOMAIN H] ==
        LET nv == NonVirtual(H, C) IN 1 + (IF nv = << >> THEN 1 ELSE Sum([i \in DOMAIN nv |-> N[nv[i]]]))
  IN N

(* Virtual bases, those of the primary base first.                         *)
VirtualOf(H) ==
  LET V[C \in DOMAIN H] ==
        LET nv == NonVirtual(H, C)
            bs == H[C].bases
            A[i \in 0..Len(bs)] ==
              IF i = 0 THEN IF nv = << >> THEN << >> ELSE V[nv[1]]
              ELSE LET a == A[i - 1]
                       b == a \o Without(a, IF bs[i][2] THEN <<bs[i][1]>> ELSE << >>)
                   IN b \o Without(b, V[bs[i][1]])
        IN A[Len(bs)]
  IN V

Index(s, x) == CHOOSE i \in DOMAIN s : s[i] = x

OffsetOfBase(H, C, B) ==
  LET nv == NonVirtual(H, C) IN Sum([i \in 1..(Index(nv, B) - 1) |-> SizeOf(H)[nv[i]]])

OffsetOfVirtual(H, E, V) ==
  LET vs == VirtualOf(H)[E]
  IN SizeOf(H)[E] + Sum([i \in 1..(Index(vs, V) - 1) |-> SizeOf(H)[vs[i]]])

OffsetOf(H, E, s) ==
  (IF s[1] = E THEN 0 ELSE OffsetOfVirtual(H, E, s[1]))
    + Sum([i \in 1..(Len(s) - 1) |-> OffsetOfBase(H, s[i], s[i + 1])])

(* The functions in a class's own table, each with: is it the covariant?   *)
Slot(H, C, f) == <<f, f \in H[C].covariant>>

Slots(H) ==
  LET L[C \in DOMAIN H] ==
        LET nv == NonVirtual(H, C)
            inherited == IF nv = << >> THEN << >> ELSE L[nv[1]]
        IN inherited \o Without(inherited, [i \in DOMAIN H[C].order |-> Slot(H, C, H[C].order[i])])
  IN L

Info(H, C) ==
  [i \in DOMAIN H[C].bases |->
     LET b == H[C].bases[i]
     IN [base |-> b[1], virtual |-> b[2],
         offset |-> IF b[2] THEN -(2 + Index(VirtualOf(H)[C], b[1])) ELSE OffsetOfBase(H, C, b[1])]]

Source(H) ==
  [ class |-> DOMAIN H, info |-> [C \in DOMAIN H |-> Info(H, C)],
    declares |-> [C \in DOMAIN H |-> {H[C].order[i] : i \in DOMAIN H[C].order}],
    pure |-> [C \in DOMAIN H |-> H[C].pure] ]

(* A function of a subobject belongs to the last of its primary bases that *)
(* has it; a thunk is entered if it overrides from elsewhere.              *)
Introducing(H, s, slot) ==
  LET R[t \in Seq(DOMAIN H)] ==
        LET nv == NonVirtual(H, Last(t))
        IN IF nv # << >> /\ \E i \in DOMAIN Slots(H)[nv[1]] : Slots(H)[nv[1]][i] = slot
           THEN R[Append(t, nv[1])] ELSE t
  IN R[s]

FunctionEntry(H, E, s, slot) ==
  LET p == Source(H)
      f == slot[1]
      g == CHOOSE x \in FinalOverriders(p, E, Introducing(H, s, slot), f) : TRUE
      here == \E t \in Subobjects(p, E) : Last(t) = g[1] /\ OffsetOf(H, E, t) = OffsetOf(H, E, s)
  IN [kind |-> "fun",
      val |-> IF f \in H[g[1]].pure THEN PureVirtual
              ELSE IF Slot(H, g[1], f) # slot THEN Append(g, "_ZTc")
              ELSE IF here THEN g ELSE Append(g, "_ZTh")]

TableOf(H, E, s) ==
  LET C == Last(s)
      vs == VirtualOf(H)[C]
      n == Len(vs)
      num(x) == [kind |-> "num", val |-> x]
  IN [i \in 1..n |-> num(OffsetOfVirtual(H, E, vs[n + 1 - i]) - OffsetOf(H, E, s))]
       \o <<num(-OffsetOf(H, E, s)), [kind |-> "ti", val |-> E]>>
       \o [i \in DOMAIN Slots(H)[C] |-> FunctionEntry(H, E, s, Slots(H)[C][i])]

RECURSIVE Ascending(_)
Ascending(S) ==
  IF S = {} THEN << >>
  ELSE LET m == CHOOSE x \in S : \A y \in S : x <= y IN <<m>> \o Ascending(S \ {m})

VTable(H, E) ==
  LET subs == Subobjects(Source(H), E)
      at(o) == {s \in subs : OffsetOf(H, E, s) = o}
      offsets == Ascending({OffsetOf(H, E, s) : s \in subs})
      outermost(o) == CHOOSE s \in at(o) : \A t \in at(o) : Len(s) <= Len(t)
  IN [i \in DOMAIN offsets |-> TableOf(H, E, outermost(offsets[i]))]

InAnyOrder(S) == FoldSet(LAMBDA x, s : Append(s, x), << >>, S)

(* A call of f on a pointer to S finds the declaration in D; or f has the  *)
(* place it has in B, where the pointer was cast to.  A thunk's name also  *)
(* says whether it adjusts by a virtual base: that makes no difference.    *)
Program(H, calls, extern, bodies) ==
  LET functions == UNION {Source(H).declares[C] : C \in DOMAIN H}
      place(C, f) == LET D == IF f \in Source(H).declares[C] THEN C ELSE "B"
                     IN Index(Slots(H)[D], Slot(H, D, f))
  IN Source(H) @@
     [ at |-> [C \in DOMAIN H |-> [s \in Subobjects(Source(H), C) |-> OffsetOf(H, C, s)]],
       vtable |-> [C \in (DOMAIN H) \ extern |-> VTable(H, C)],
       thunk |-> [g \in (DOMAIN H) \X functions \X {"_ZTh", "_ZTc"} |->
                    [name |-> g[3], body |-> bodies, of |-> <<g[1], g[2]>>]],
       call |-> [c \in calls |->
                   [ defining |-> [by |-> "vtable", class |-> c[1]],
                     static |-> [by |-> "name", class |-> c[2]],
                     idx |-> place(c[1], c[3]) - 1, proper |-> c[3] # "o" ]],
       calls |-> InAnyOrder(calls),
       name |-> [c \in calls |-> c[3]] ]

Class(bases, order, pure) == [bases |-> bases, order |-> order, pure |-> pure, covariant |-> {}]

(* The calls that name lookup allows: D is the nearest that declares f.    *)
CallsOf(H) ==
  LET p == Source(H)
      Up[C \in DOMAIN H] == {C} \cup UNION {Up[b.base] : b \in Bases(p, C)}
      nearest(D, S, f) ==
        /\ f \in p.declares[D]
        /\ \A C \in Up[S] \ {D} : D \in Up[C] => f \notin p.declares[C]
  IN {c \in UNION {UNION {{D} \X {S} \X p.declares[D] : D \in Up[S]} : S \in DOMAIN H} :
        nearest(c[1], c[2], c[3])}

(* B and C derive from A, D from both; F from D, or from another class E   *)
(* and then D.                                                             *)
Diamond(vb, vc, db, bo, co, fo) ==
  [C \in {"A", "B", "C", "D", "E", "F"} |->
     CASE C = "A" -> Class(<< >>, <<"f", "g">>, {"g"})
       [] C = "B" -> Class(<<<<"A", vb>>>>, bo, {})
       [] C = "C" -> Class(<<<<"A", vc>>>>, co, {})
       [] C = "D" -> Class(<<<<"B", FALSE>>, <<"C", FALSE>>>>, db, {})
       [] C = "E" -> Class(<< >>, <<"h">>, {})
       [] C = "F" -> Class(<<<<"E", FALSE>>, <<"D", FALSE>>>>, fo, {})]

(* A is the second base of V, and V a virtual base of B and C.             *)
Nested(bo, co, do) ==
  [X \in {"A", "E", "V", "B", "C", "D"} |->
     CASE X = "A" -> Class(<< >>, <<"f", "g">>, {"g"})
       [] X = "E" -> Class(<< >>, <<"h">>, {})
       [] X = "V" -> Class(<<<<"E", FALSE>>, <<"A", FALSE>>>>, <<"g", "k">>, {})
       [] X = "B" -> Class(<<<<"V", TRUE>>>>, bo, {})
       [] X = "C" -> Class(<<<<"E", FALSE>>, <<"V", TRUE>>>>, co, {})
       [] X = "D" -> Class(<<<<"C", FALSE>>, <<"B", FALSE>>>>, do, {})]

Hierarchies ==
  {Diamond(vb, vc, db, bo, co, fo) :
     vb \in BOOLEAN, vc \in BOOLEAN, db \in {<<"f", "g">>, <<"k", "f", "g">>},
     bo \in {<<"g">>, <<"f", "h">>}, co \in {<< >>, <<"g">>}, fo \in {<<"f">>, <<"h">>}}

(* The functions f of all classes but A and those left have the covariant  *)
(* type: A is the first base, the second one, a repeated or a virtual one. *)
Covariant ==
  LET derived(H, first) ==
        [C \in DOMAIN H |-> IF C \in first THEN H[C] ELSE [H[C] EXCEPT !.covariant = {"f"}]]
  IN {derived(Diamond(vb, vc, <<"f", "g">>, <<"f", "h">>, << >>, <<"f">>), first) :
        vb \in BOOLEAN, vc \in BOOLEAN, first \in {{"A"}, {"A", "B"}}}
     \cup {derived(Nested(<<"f", "m">>, <<"g">>, <<"h", "f">>), first) :
             first \in {{"A", "V"}, {"A", "V", "B"}}}

(* With two virtual bases on a path, and with an "o" that is not called as *)
(* a virtual function is.                                                  *)
Unusual ==
  {[C \in {"A", "B", "C"} |->
      CASE C = "A" -> Class(<< >>, <<"f">>, {})
        [] C = "B" -> Class(<<<<"A", TRUE>>>>, <<"f", o>>, {})
        [] C = "C" -> Class(<<<<"B", vc>>>>, <<"f">>, {})] : o \in {"g", "o"}, vc \in BOOLEAN}

CovariantPrograms == {Program(H, CallsOf(H), {}, bodies) : H \in Covariant, bodies \in BOOLEAN}

MCPrograms ==
  {Program(H, CallsOf(H), {}, TRUE) :
     H \in Hierarchies \cup Unusual \cup
            {Nested(bo, co, <<"h", "k">>) : bo \in {<< >>, <<"f", "m">>}, co \in {<< >>, <<"g">>}}}
  \cup {Program(H, CallsOf(H) \cup {<<"A", S, "h">> : S \in {"A", "B"}}, extern, TRUE) :
           H \in {G \in Hierarchies : G["B"].order = <<"f", "h">> /\ G["F"].order = <<"f">>},
           extern \in {{}, {"A"}, {"B", "D"}}}
  \cup CovariantPrograms
=============================================================================
