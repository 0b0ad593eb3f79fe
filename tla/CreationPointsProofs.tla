------------------------ MODULE CreationPointsProofs ------------------------
(***************************************************************************)
(* Theorems about the walk of validateCreationPoints(), for every set of   *)
(* well-formed programs.                                                   *)
(***************************************************************************)
EXTENDS CreationPoints, FiniteSetTheorems, SequenceTheorems, TLAPS

Blocks == DOMAIN prog.size

(* An invocation is in its loop over callees at a call, or before or after *)
(* its successors.                                                         *)
Frames ==
  {f \in [block : Blocks, pos : Nat \ {0}, next : Nat \ {0}, calling : BOOLEAN,
          todo : SUBSET DOMAIN prog.body] :
     /\ f.pos <= prog.size[f.block] + 1
     /\ f.next <= Len(prog.succ[f.block]) + 1
     /\ ~AtEnd(f) => f.next = 1
     /\ f.calling =>
          /\ ~AtEnd(f)
          /\ <<f.block, f.pos>> \in DOMAIN prog.callees \ prog.creation
          /\ f.todo \subseteq prog.callees[<<f.block, f.pos>>]}

TypeInv ==
  /\ prog \in Programs
  /\ stack \in Seq(Frames)
  /\ trace \in Seq(DOMAIN prog.callees)
  /\ ret \in {"none", "true", "false"}

(* Frames of a stack, counted from the outermost.                          *)
At(s, d) == s[Len(s) + 1 - d]
CallDepths(s) == {d \in 1..Len(s) : At(s, d).calling}

Matches(s, t) ==
  /\ Len(t) = Cardinality(CallDepths(s))
  /\ \A d \in CallDepths(s) :
       t[Len(t) + 1 - Cardinality({c \in CallDepths(s) : c <= d})] = <<At(s, d).block, At(s, d).pos>>

-----------------------------------------------------------------------------
(* The three things that happen to a stack.                                *)

LEMMA StackTop ==
  ASSUME NEW S, NEW s \in Seq(S), s # <<>>
  PROVE  /\ Len(s) \in Nat \ {0} /\ s[1] \in S /\ At(s, Len(s)) = s[1]
         /\ \A d \in 1..Len(s) : At(s, d) \in S
  BY DEF At

LEMMA Updated ==
  ASSUME NEW S, NEW s \in Seq(S), s # <<>>, NEW f \in S
  PROVE  /\ <<f>> \o Tail(s) \in Seq(S) /\ Len(<<f>> \o Tail(s)) = Len(s)
         /\ <<f>> \o Tail(s) # <<>> /\ (<<f>> \o Tail(s))[1] = f
         /\ At(<<f>> \o Tail(s), Len(s)) = f
         /\ \A d \in 1..(Len(s) - 1) : At(<<f>> \o Tail(s), d) = At(s, d)
  <1> DEFINE t == <<f>> \o Tail(s)
  <1>1. /\ Tail(s) \in Seq(S) /\ Len(Tail(s)) = Len(s) - 1 /\ Len(s) \in Nat \ {0}
        /\ \A i \in 1..(Len(s) - 1) : Tail(s)[i] = s[i + 1]
    OBVIOUS
  <1>2. /\ t \in Seq(S) /\ Len(t) = Len(s) /\ t # <<>> /\ t[1] = f
        /\ \A i \in 2..Len(s) : t[i] = s[i]
    BY <1>1
  <1> HIDE DEF t
  <1>3. At(t, Len(s)) = f /\ \A d \in 1..(Len(s) - 1) : At(t, d) = At(s, d)
    BY <1>1, <1>2 DEF At
  <1>4. QED
    BY <1>2, <1>3 DEF t

LEMMA Pushed ==
  ASSUME NEW S, NEW s \in Seq(S), s # <<>>, NEW f \in S, NEW g \in S
  PROVE  /\ <<g, f>> \o Tail(s) \in Seq(S) /\ Len(<<g, f>> \o Tail(s)) = Len(s) + 1
         /\ <<g, f>> \o Tail(s) # <<>> /\ (<<g, f>> \o Tail(s))[1] = g
         /\ At(<<g, f>> \o Tail(s), Len(s) + 1) = g /\ At(<<g, f>> \o Tail(s), Len(s)) = f
         /\ \A d \in 1..(Len(s) - 1) : At(<<g, f>> \o Tail(s), d) = At(s, d)
  <1> DEFINE t == <<g, f>> \o Tail(s)
  <1>1. /\ Tail(s) \in Seq(S) /\ Len(Tail(s)) = Len(s) - 1 /\ Len(s) \in Nat \ {0}
        /\ \A i \in 1..(Len(s) - 1) : Tail(s)[i] = s[i + 1]
    OBVIOUS
  <1>2. /\ t \in Seq(S) /\ Len(t) = Len(s) + 1 /\ t # <<>> /\ t[1] = g /\ t[2] = f
        /\ \A i \in 3..(Len(s) + 1) : t[i] = s[i - 1]
    BY <1>1
  <1> HIDE DEF t
  <1>3. /\ At(t, Len(s) + 1) = g /\ At(t, Len(s)) = f
        /\ \A d \in 1..(Len(s) - 1) : At(t, d) = At(s, d)
    <2>1. At(t, Len(s) + 1) = g /\ At(t, Len(s)) = f
      BY <1>1, <1>2 DEF At
    <2>2. ASSUME NEW d \in 1..(Len(s) - 1)
          PROVE  At(t, d) = At(s, d)
      BY <1>1, <1>2 DEF At
    <2>3. QED
      BY <2>1, <2>2
  <1>4. QED
    BY <1>2, <1>3 DEF t

LEMMA Popped ==
  ASSUME NEW S, NEW s \in Seq(S), s # <<>>
  PROVE  /\ Tail(s) \in Seq(S) /\ Len(Tail(s)) = Len(s) - 1
         /\ \A d \in 1..(Len(s) - 1) : At(Tail(s), d) = At(s, d)
  BY DEF At

LEMMA DepthsFinite ==
  ASSUME NEW S, NEW s \in Seq(S)
  PROVE  IsFiniteSet(CallDepths(s)) /\ CallDepths(s) \subseteq 1..Len(s)
  <1>1. IsFiniteSet(1..Len(s)) /\ CallDepths(s) \subseteq 1..Len(s)
    BY FS_Interval DEF CallDepths
  <1>2. QED
    BY <1>1, FS_Subset

(* The rank of a depth among those of C.                                   *)
LEMMA Ranks ==
  ASSUME NEW C, IsFiniteSet(C), C \subseteq Nat
  PROVE  /\ Cardinality(C) \in Nat
         /\ \A d : /\ Cardinality({c \in C : c <= d}) \in Nat
                   /\ Cardinality({c \in C : c <= d}) <= Cardinality(C)
         /\ \A d \in C : Cardinality({c \in C : c <= d}) >= 1
  <1>1. ASSUME NEW d
        PROVE  /\ IsFiniteSet({c \in C : c <= d})
               /\ Cardinality({c \in C : c <= d}) \in Nat
               /\ Cardinality({c \in C : c <= d}) <= Cardinality(C)
    <2>1. {c \in C : c <= d} \subseteq C
      OBVIOUS
    <2>2. QED
      BY <2>1, FS_Subset, FS_CardinalityType
  <1>2. ASSUME NEW d \in C
        PROVE  Cardinality({c \in C : c <= d}) >= 1
    <2>1. d \in {c \in C : c <= d}
      OBVIOUS
    <2>2. Cardinality({c \in C : c <= d}) # 0
      BY <2>1, <1>1, FS_EmptySet
    <2>3. QED
      BY <2>2, <1>1
  <1>3. QED
    BY <1>1, <1>2, FS_CardinalityType

(* Depth n joins those of C, above all of them.                            *)
LEMMA RankAbove ==
  ASSUME NEW C, IsFiniteSet(C), C \subseteq Nat, NEW n \in Nat, n \notin C, \A d \in C : d < n,
         NEW D, D = C \cup {n}
  PROVE  /\ Cardinality(D) = Cardinality(C) + 1
         /\ {c \in D : c <= n} = D
         /\ \A d \in C : {c \in D : c <= d} = {c \in C : c <= d}
  <1>1. Cardinality(D) = Cardinality(C) + 1
    BY FS_AddElement
  <1>2. {c \in D : c <= n} = D
    <2>1. \A c \in D : c <= n
      OBVIOUS
    <2>2. QED
      BY <2>1
  <1>3. ASSUME NEW d \in C
        PROVE  {c \in D : c <= d} = {c \in C : c <= d}
    OBVIOUS
  <1>4. QED
    BY <1>1, <1>2, <1>3

LEMMA MatchSame ==
  ASSUME NEW s, NEW s2, NEW t, Matches(s, t), CallDepths(s2) = CallDepths(s),
         \A d \in CallDepths(s) : At(s2, d).block = At(s, d).block /\ At(s2, d).pos = At(s, d).pos
  PROVE  Matches(s2, t)
  BY DEF Matches

LEMMA MatchPush ==
  ASSUME NEW S, NEW s \in Seq(S), NEW C, NEW t \in Seq(C), NEW s2, NEW n \in Nat, NEW c \in C,
         Matches(s, t), CallDepths(s2) = CallDepths(s) \cup {n}, n \notin CallDepths(s),
         \A d \in CallDepths(s) : d < n /\ At(s2, d) = At(s, d),
         c = <<At(s2, n).block, At(s2, n).pos>>
  PROVE  Matches(s2, <<c>> \o t)
  <1> DEFINE N == Cardinality(CallDepths(s))
             K(d) == Cardinality({b \in CallDepths(s) : b <= d})
  <1>0. IsFiniteSet(CallDepths(s)) /\ CallDepths(s) \subseteq Nat
    BY DepthsFinite
  <1>1. /\ Cardinality(CallDepths(s2)) = N + 1
        /\ {b \in CallDepths(s2) : b <= n} = CallDepths(s2)
        /\ \A d \in CallDepths(s) : {b \in CallDepths(s2) : b <= d} = {b \in CallDepths(s) : b <= d}
    <2>1. Cardinality(CallDepths(s2)) = N + 1
      BY <1>0, RankAbove
    <2>2. {b \in CallDepths(s2) : b <= n} = CallDepths(s2)
      BY <1>0, RankAbove
    <2>3. ASSUME NEW d \in CallDepths(s)
          PROVE  {b \in CallDepths(s2) : b <= d} = {b \in CallDepths(s) : b <= d}
      BY <1>0, RankAbove
    <2>4. QED
      BY <2>1, <2>2, <2>3
  <1>2. N \in Nat /\ (\A d : K(d) \in Nat /\ K(d) <= N) /\ (\A d \in CallDepths(s) : K(d) >= 1)
    BY <1>0, Ranks
  <1>3. Len(t) = N /\ Len(<<c>> \o t) = N + 1 /\ (<<c>> \o t)[1] = c
    BY DEF Matches
  <1>4. ASSUME NEW d \in CallDepths(s)
        PROVE  (<<c>> \o t)[N + 1 + 1 - K(d)] = <<At(s2, d).block, At(s2, d).pos>>
    <2>1. t[N + 1 - K(d)] = <<At(s, d).block, At(s, d).pos>>
      BY <1>3 DEF Matches
    <2>2. K(d) >= 1
      BY <1>2
    <2> HIDE DEF N, K
    <2>3. N + 1 - K(d) \in 1..N
      BY <1>2, <2>2
    <2>4. (<<c>> \o t)[N + 1 + 1 - K(d)] = t[N + 1 - K(d)]
      BY <2>3, <1>2, <1>3
    <2>5. QED
      BY <2>1, <2>4
  <1>5. (<<c>> \o t)[N + 1 + 1 - Cardinality({b \in CallDepths(s2) : b <= n})] = c
    <2>1. Cardinality({b \in CallDepths(s2) : b <= n}) = N + 1
      BY <1>1
    <2>2. N + 1 + 1 - (N + 1) = 1
      BY <1>2
    <2>3. QED
      BY <2>1, <2>2, <1>3
  <1>6. ASSUME NEW d \in CallDepths(s2)
        PROVE  (<<c>> \o t)[N + 1 + 1 - Cardinality({b \in CallDepths(s2) : b <= d})]
                 = <<At(s2, d).block, At(s2, d).pos>>
    <2>1. CASE d \in CallDepths(s)
      BY <2>1, <1>1, <1>4
    <2>2. CASE d = n
      BY <2>2, <1>5
    <2>3. QED
      BY <2>1, <2>2
  <1>7. QED
    BY <1>1, <1>3, <1>6 DEF Matches

LEMMA MatchPop ==
  ASSUME NEW S, NEW s \in Seq(S), NEW S2, NEW s2 \in Seq(S2), NEW C, NEW t \in Seq(C), NEW n \in Nat,
         Matches(s, t), CallDepths(s) = CallDepths(s2) \cup {n}, n \notin CallDepths(s2),
         \A d \in CallDepths(s2) :
           d < n /\ At(s2, d).block = At(s, d).block /\ At(s2, d).pos = At(s, d).pos
  PROVE  t # <<>> /\ Matches(s2, Tail(t)) /\ t[1] = <<At(s, n).block, At(s, n).pos>>
  <1> DEFINE N == Cardinality(CallDepths(s2))
             K(d) == Cardinality({b \in CallDepths(s2) : b <= d})
  <1>0. IsFiniteSet(CallDepths(s2)) /\ CallDepths(s2) \subseteq Nat
    BY DepthsFinite
  <1>1. /\ Cardinality(CallDepths(s)) = N + 1
        /\ {b \in CallDepths(s) : b <= n} = CallDepths(s)
        /\ \A d \in CallDepths(s2) : {b \in CallDepths(s) : b <= d} = {b \in CallDepths(s2) : b <= d}
    <2>1. Cardinality(CallDepths(s)) = N + 1
      BY <1>0, RankAbove
    <2>2. {b \in CallDepths(s) : b <= n} = CallDepths(s)
      BY <1>0, RankAbove
    <2>3. ASSUME NEW d \in CallDepths(s2)
          PROVE  {b \in CallDepths(s) : b <= d} = {b \in CallDepths(s2) : b <= d}
      BY <1>0, RankAbove
    <2>4. QED
      BY <2>1, <2>2, <2>3
  <1>2. N \in Nat /\ (\A d : K(d) \in Nat /\ K(d) <= N) /\ (\A d \in CallDepths(s2) : K(d) >= 1)
    BY <1>0, Ranks
  <1>3. Len(t) = N + 1 /\ Len(Tail(t)) = N /\ \A i \in 1..N : Tail(t)[i] = t[i + 1]
    <2>1. Len(t) = N + 1
      BY <1>1 DEF Matches
    <2> HIDE DEF N, K
    <2>2. QED
      BY <2>1, <1>2
  <1>4. ASSUME NEW d \in CallDepths(s2)
        PROVE  Tail(t)[N + 1 - K(d)] = <<At(s2, d).block, At(s2, d).pos>>
    <2>1. t[N + 1 + 1 - K(d)] = <<At(s, d).block, At(s, d).pos>>
      BY <1>1, <1>3 DEF Matches
    <2>2. K(d) >= 1
      BY <1>2
    <2> HIDE DEF N, K
    <2>3. N + 1 - K(d) \in 1..N
      BY <1>2, <2>2
    <2>4. Tail(t)[N + 1 - K(d)] = t[N + 1 + 1 - K(d)]
      BY <2>3, <1>2, <1>3
    <2>5. QED
      BY <2>1, <2>4
  <1>5. t[1] = <<At(s, n).block, At(s, n).pos>>
    <2>1. Cardinality({b \in CallDepths(s) : b <= n}) = N + 1
      BY <1>1
    <2>2. t[Len(t) + 1 - Cardinality({b \in CallDepths(s) : b <= n})]
            = <<At(s, n).block, At(s, n).pos>>
      BY DEF Matches
    <2>3. t[N + 1 + 1 - (N + 1)] = <<At(s, n).block, At(s, n).pos>>
      BY <2>1, <2>2, <1>3
    <2> HIDE DEF N, K
    <2>4. N + 1 + 1 - (N + 1) = 1
      BY <1>2
    <2>5. QED
      BY <2>3, <2>4
  <1>6. t # <<>>
    <2> HIDE DEF N, K
    <2>1. QED
      BY <1>2, <1>3
  <1>7. Matches(s2, Tail(t))
    BY <1>3, <1>4 DEF Matches
  <1>8. QED
    BY <1>5, <1>6, <1>7

-----------------------------------------------------------------------------
(* The program, and the top of the stack.                                  *)

LEMMA ProgramShape ==
  ASSUME TypeInv
  PROVE  /\ \A b \in Blocks : prog.size[b] \in Nat /\ prog.succ[b] \in Seq(Blocks)
         /\ \A f \in DOMAIN prog.body : prog.body[f] \in Blocks
         /\ prog.main \subseteq DOMAIN prog.body
  BY ProgramsAssumption DEF TypeInv, WellFormed, Blocks

LEMMA FrameShape ==
  ASSUME NEW f \in Frames
  PROVE  /\ f = [block |-> f.block, pos |-> f.pos, next |-> f.next, calling |-> f.calling, todo |-> f.todo]
         /\ f.block \in Blocks /\ f.pos \in Nat \ {0} /\ f.next \in Nat \ {0}
         /\ f.calling \in BOOLEAN /\ f.todo \subseteq DOMAIN prog.body
         /\ f.pos <= prog.size[f.block] + 1 /\ f.next <= Len(prog.succ[f.block]) + 1
         /\ ~AtEnd(f) => f.next = 1
         /\ f.calling =>
              /\ ~AtEnd(f)
              /\ <<f.block, f.pos>> \in DOMAIN prog.callees \ prog.creation
              /\ f.todo \subseteq prog.callees[<<f.block, f.pos>>]
  BY DEF Frames

LEMMA NewFrame ==
  ASSUME TypeInv, NEW b \in Blocks
  PROVE  Frame(b) \in Frames
  BY ProgramShape DEF Frame, Frames, AtEnd

LEMMA TopFrame ==
  ASSUME TypeInv, stack # <<>>
  PROVE  /\ Top \in Frames /\ Len(stack) \in Nat \ {0} /\ At(stack, Len(stack)) = Top
         /\ stack \in Seq(Frames)
         /\ \A d \in 1..Len(stack) : At(stack, d) \in Frames
  BY StackTop DEF TypeInv, Top

(* The frames that the steps make.                                         *)
LEMMA AdvancedFrame ==
  ASSUME TypeInv, stack # <<>>, ~AtEnd(Top)
  PROVE  [Top EXCEPT !.pos = @ + 1, !.calling = FALSE] \in Frames
  <1>1. Top \in Frames
    BY TopFrame
  <1>2. prog.size[Top.block] \in Nat
    BY <1>1, FrameShape, ProgramShape
  <1>0. Top.pos \in Nat /\ Top.pos + 1 \in Nat \ {0} /\ (~AtEnd(Top) => Top.next = 1)
    <2>1. Top.pos \in Nat \ {0} /\ (~AtEnd(Top) => Top.next = 1)
      BY <1>1, FrameShape
    <2>2. QED
      BY <2>1
  <1> DEFINE f == [Top EXCEPT !.pos = @ + 1, !.calling = FALSE]
  <1>3. /\ f.block = Top.block /\ f.pos = Top.pos + 1 /\ f.next = Top.next
        /\ f.calling = FALSE /\ f.todo = Top.todo
        /\ f \in [block : Blocks, pos : Nat \ {0}, next : Nat \ {0}, calling : BOOLEAN,
                  todo : SUBSET DOMAIN prog.body]
    BY <1>1, <1>0 DEF Frames
  <1>4. Top.pos + 1 <= prog.size[Top.block] + 1 /\ Top.next = 1
    BY <1>0, <1>2 DEF AtEnd
  <1> HIDE DEF f
  <1>5. f \in Frames
    BY <1>1, <1>2, <1>3, <1>4, FrameShape DEF Frames, AtEnd
  <1>6. QED
    BY <1>5 DEF f

LEMMA CallingFrame ==
  ASSUME TypeInv, stack # <<>>, ~AtEnd(Top), Here \in DOMAIN prog.callees \ prog.creation
  PROVE  [Top EXCEPT !.calling = TRUE, !.todo = prog.callees[Here] \cap DOMAIN prog.body] \in Frames
  <1>1. Top \in Frames
    BY TopFrame
  <1> DEFINE f == [Top EXCEPT !.calling = TRUE, !.todo = prog.callees[Here] \cap DOMAIN prog.body]
  <1>2. /\ f.block = Top.block /\ f.pos = Top.pos /\ f.next = Top.next
        /\ f.calling = TRUE /\ f.todo = prog.callees[Here] \cap DOMAIN prog.body
        /\ f \in [block : Blocks, pos : Nat \ {0}, next : Nat \ {0}, calling : BOOLEAN,
                  todo : SUBSET DOMAIN prog.body]
    BY <1>1 DEF Frames
  <1> HIDE DEF f
  <1>3. f \in Frames
    BY <1>1, <1>2, FrameShape DEF Frames, AtEnd, Here
  <1>4. QED
    BY <1>3 DEF f

LEMMA LoopingFrame ==
  ASSUME TypeInv, stack # <<>>, Top.calling, NEW g
  PROVE  [Top EXCEPT !.todo = @ \ {g}] \in Frames
  <1>1. Top \in Frames
    BY TopFrame
  <1> DEFINE f == [Top EXCEPT !.todo = @ \ {g}]
  <1>2. /\ f.block = Top.block /\ f.pos = Top.pos /\ f.next = Top.next
        /\ f.calling = Top.calling /\ f.todo = Top.todo \ {g}
        /\ f \in [block : Blocks, pos : Nat \ {0}, next : Nat \ {0}, calling : BOOLEAN,
                  todo : SUBSET DOMAIN prog.body]
    BY <1>1 DEF Frames
  <1> HIDE DEF f
  <1>3. f \in Frames
    BY <1>1, <1>2, FrameShape DEF Frames, AtEnd
  <1>4. QED
    BY <1>3 DEF f

LEMMA SucceedingFrame ==
  ASSUME TypeInv, stack # <<>>, AtEnd(Top), Top.next <= Len(prog.succ[Top.block])
  PROVE  [Top EXCEPT !.next = @ + 1] \in Frames
  <1>1. Top \in Frames
    BY TopFrame
  <1>2. Len(prog.succ[Top.block]) \in Nat
    BY <1>1, FrameShape, ProgramShape
  <1> DEFINE f == [Top EXCEPT !.next = @ + 1]
  <1>3. /\ f.block = Top.block /\ f.pos = Top.pos /\ f.next = Top.next + 1
        /\ f.calling = Top.calling /\ f.todo = Top.todo
        /\ f \in [block : Blocks, pos : Nat \ {0}, next : Nat \ {0}, calling : BOOLEAN,
                  todo : SUBSET DOMAIN prog.body]
    BY <1>1 DEF Frames
  <1>4. ~Top.calling
    BY <1>1, FrameShape
  <1> HIDE DEF f
  <1>5. f \in Frames
    BY <1>1, <1>2, <1>3, <1>4, FrameShape DEF Frames, AtEnd
  <1>6. QED
    BY <1>5 DEF f

-----------------------------------------------------------------------------
(* What a step does to the stack, frame by frame.                          *)

Replaced(f) ==
  /\ stack' \in Seq(Frames) /\ stack' # <<>> /\ Len(stack') = Len(stack)
  /\ f \in Frames /\ stack'[1] = f /\ At(stack', Len(stack)) = f
  /\ \A d \in 1..(Len(stack) - 1) : At(stack', d) = At(stack, d)

Grown(f, g) ==
  /\ stack' \in Seq(Frames) /\ stack' # <<>> /\ Len(stack') = Len(stack) + 1
  /\ f \in Frames /\ g \in Frames
  /\ stack'[1] = g /\ At(stack', Len(stack) + 1) = g /\ At(stack', Len(stack)) = f
  /\ \A d \in 1..(Len(stack) - 1) : At(stack', d) = At(stack, d)

Shrunk ==
  /\ stack' \in Seq(Frames) /\ Len(stack') = Len(stack) - 1
  /\ \A d \in 1..(Len(stack) - 1) : At(stack', d) = At(stack, d)

LEMMA UpdateEffect ==
  ASSUME TypeInv, stack # <<>>, NEW f \in Frames, Update(f)
  PROVE  Replaced(f)
  <1>1. stack' = <<f>> \o Tail(stack) /\ stack \in Seq(Frames)
    BY DEF Update, TypeInv
  <1>2. QED
    BY <1>1, Updated DEF Replaced

LEMMA ReturnEffect ==
  ASSUME TypeInv, stack # <<>>, stack' = Tail(stack)
  PROVE  Shrunk
  <1>1. stack \in Seq(Frames)
    BY DEF TypeInv
  <1>2. QED
    BY <1>1, Popped DEF Shrunk

LEMMA VisitEffect ==
  ASSUME TypeInv, stack # <<>>, NEW b \in Blocks, NEW f \in Frames, Visit(b, f), ret = "none"
  PROVE  \/ Replaced(f) /\ ret' = "false"
         \/ Grown(f, Frame(b)) /\ Frame(b) \in Frames /\ ret' = "none"
  <1>1. CASE b \in visited
    BY <1>1, UpdateEffect DEF Visit
  <1>2. CASE b \notin visited
    <2>1. stack' = <<Frame(b), f>> \o Tail(stack) /\ stack \in Seq(Frames) /\ Frame(b) \in Frames
      BY <1>2, NewFrame DEF Visit, TypeInv
    <2>3. Grown(f, Frame(b))
      BY <2>1, Pushed DEF Grown
    <2>4. QED
      BY <1>2, <2>1, <2>3 DEF Visit
  <1>3. QED
    BY <1>1, <1>2

(* Each action in these terms.                                             *)
LEMMA CreateEffect ==
  ASSUME TypeInv, Create
  PROVE  /\ stack # <<>> /\ Shrunk /\ ~AtEnd(Top) /\ ~Top.calling
         /\ Here \in prog.creation /\ ret = "none" /\ ret' = "true"
         /\ UNCHANGED <<prog, trace, errors>>
  <1>1. stack # <<>> /\ stack' = Tail(stack)
    BY DEF Create, Running, Return
  <1>2. ~Top.calling
    BY <1>1, TopFrame, FrameShape DEF Create, Here
  <1>3. QED
    BY <1>1, <1>2, ReturnEffect DEF Create, Running, Return

LEMMA LookEffect ==
  ASSUME TypeInv, Look
  PROVE  /\ stack # <<>> /\ ~AtEnd(Top) /\ ~Top.calling /\ Here \notin prog.creation
         /\ ret = "none" /\ UNCHANGED <<prog, ret, errors>>
         /\ \/ /\ Here \in DOMAIN prog.callees
               /\ \E f : /\ Replaced(f) /\ f.calling
                         /\ f.block = Top.block /\ f.pos = Top.pos /\ f.next = Top.next
               /\ trace' = <<Here>> \o trace
            \/ /\ \E f : /\ Replaced(f) /\ ~f.calling
                         /\ f.block = Top.block /\ f.pos = Top.pos + 1 /\ f.next = Top.next
               /\ UNCHANGED trace
  <1>1. /\ stack # <<>> /\ ~AtEnd(Top) /\ ~Top.calling /\ Here \notin prog.creation
        /\ ret = "none" /\ UNCHANGED <<prog, ret, errors>>
    BY DEF Look, Running
  <1>2. Top \in Frames
    BY <1>1, TopFrame
  <1>3. CASE Here \in DOMAIN prog.callees
    <2> DEFINE f == [Top EXCEPT !.calling = TRUE, !.todo = prog.callees[Here] \cap DOMAIN prog.body]
    <2>1. f \in Frames
      BY <1>1, <1>3, CallingFrame
    <2>2. f.calling /\ f.block = Top.block /\ f.pos = Top.pos /\ f.next = Top.next
      BY <1>2 DEF Frames
    <2>3. Update(f) /\ trace' = <<Here>> \o trace
      BY <1>3 DEF Look
    <2>4. Replaced(f)
      BY <1>1, <2>1, <2>3, UpdateEffect
    <2>5. QED
      BY <1>1, <1>3, <2>2, <2>3, <2>4
  <1>4. CASE Here \notin DOMAIN prog.callees
    <2> DEFINE f == [Top EXCEPT !.pos = @ + 1, !.calling = FALSE]
    <2>1. f \in Frames
      BY <1>1, AdvancedFrame
    <2>2. ~f.calling /\ f.block = Top.block /\ f.pos = Top.pos + 1 /\ f.next = Top.next
      BY <1>2 DEF Frames
    <2>3. Update(f) /\ trace' = trace
      BY <1>4 DEF Look, Advance
    <2>4. Replaced(f)
      BY <1>1, <2>1, <2>3, UpdateEffect
    <2>5. QED
      BY <1>1, <1>4, <2>2, <2>3, <2>4
  <1>5. QED
    BY <1>3, <1>4

LEMMA EntryCallEffect ==
  ASSUME TypeInv, EntryCall
  PROVE  /\ stack # <<>> /\ Shrunk /\ Top.calling /\ ret = "none" /\ ret' = "false"
         /\ prog' = prog /\ trace' = Tail(trace)
         /\ \E f \in Top.todo \cap prog.entryPoint :
              errors' = errors \cup {[callee |-> f, trace |-> trace]}
  <1>1. stack # <<>> /\ stack' = Tail(stack)
    BY DEF EntryCall, Running, Return
  <1>2. QED
    BY <1>1, ReturnEffect DEF EntryCall, Running, Return

LEMMA EnterCalleeEffect ==
  ASSUME TypeInv, EnterCallee
  PROVE  /\ stack # <<>> /\ Top.calling /\ ret = "none" /\ UNCHANGED <<prog, trace, errors>>
         /\ \E f : /\ f.calling /\ f.block = Top.block /\ f.pos = Top.pos /\ f.next = Top.next
                   /\ \/ Replaced(f) /\ ret' = "false"
                      \/ \E b \in EntryBlocks(prog, Here) : Grown(f, Frame(b)) /\ ret' = "none"
  <1>1. stack # <<>> /\ Top.calling /\ ret = "none" /\ UNCHANGED <<prog, trace, errors>>
    BY DEF EnterCallee, Running
  <1>2. PICK g \in Top.todo \ prog.entryPoint : Visit(prog.body[g], [Top EXCEPT !.todo = @ \ {g}])
    BY DEF EnterCallee
  <1>3. Top \in Frames
    BY <1>1, TopFrame
  <1>4. g \in DOMAIN prog.body /\ g \in prog.callees[Here]
    BY <1>1, <1>2, <1>3, FrameShape DEF Here
  <1>5. prog.body[g] \in Blocks /\ prog.body[g] \in EntryBlocks(prog, Here)
    BY <1>2, <1>4, ProgramShape DEF EntryBlocks, Bodies
  <1> DEFINE f == [Top EXCEPT !.todo = @ \ {g}]
  <1>6. f \in Frames
    BY <1>1, LoopingFrame
  <1>7. f.calling = Top.calling /\ f.block = Top.block /\ f.pos = Top.pos /\ f.next = Top.next
    BY <1>3 DEF Frames
  <1>8. Visit(prog.body[g], f)
    BY <1>2
  <1> HIDE DEF f
  <1>9. \/ Replaced(f) /\ ret' = "false"
        \/ Grown(f, Frame(prog.body[g])) /\ ret' = "none"
    BY <1>1, <1>5, <1>6, <1>8, VisitEffect
  <1>10. QED
    BY <1>1, <1>5, <1>7, <1>9

LEMMA EndCallEffect ==
  ASSUME TypeInv, EndCall
  PROVE  /\ stack # <<>> /\ Top.calling /\ ret = "none" /\ UNCHANGED <<prog, ret, errors>>
         /\ \E f : /\ Replaced(f) /\ ~f.calling
                   /\ f.block = Top.block /\ f.pos = Top.pos + 1 /\ f.next = Top.next
         /\ trace' = Tail(trace)
  <1>1. /\ stack # <<>> /\ Top.calling /\ ret = "none" /\ UNCHANGED <<prog, ret, errors>>
        /\ trace' = Tail(trace)
    BY DEF EndCall, Running
  <1>2. Top \in Frames /\ ~AtEnd(Top)
    BY <1>1, TopFrame, FrameShape
  <1> DEFINE f == [Top EXCEPT !.pos = @ + 1, !.calling = FALSE]
  <1>3. f \in Frames
    BY <1>1, <1>2, AdvancedFrame
  <1>4. ~f.calling /\ f.block = Top.block /\ f.pos = Top.pos + 1 /\ f.next = Top.next
    BY <1>2 DEF Frames
  <1>5. Replaced(f)
    BY <1>1, <1>3, UpdateEffect DEF EndCall, Advance
  <1>6. QED
    BY <1>1, <1>4, <1>5

LEMMA NextSuccessorEffect ==
  ASSUME TypeInv, NextSuccessor
  PROVE  /\ stack # <<>> /\ AtEnd(Top) /\ ~Top.calling /\ ret = "none"
         /\ UNCHANGED <<prog, trace, errors>>
         /\ \/ /\ Top.next <= Len(prog.succ[Top.block])
               /\ \E f : /\ ~f.calling /\ f.block = Top.block /\ f.pos = Top.pos
                         /\ f.next = Top.next + 1
                         /\ \/ Replaced(f) /\ ret' = "false"
                            \/ /\ Grown(f, Frame(prog.succ[Top.block][Top.next]))
                               /\ ret' = "none"
            \/ /\ Top.next = Len(prog.succ[Top.block]) + 1
               /\ Shrunk
               /\ ret' = IF prog.succ[Top.block] = <<>> THEN "false" ELSE "true"
  <1>1. /\ stack # <<>> /\ AtEnd(Top) /\ ret = "none" /\ UNCHANGED <<prog, trace, errors>>
    BY DEF NextSuccessor, Running
  <1>2. Top \in Frames /\ ~Top.calling
    BY <1>1, TopFrame, FrameShape
  <1>3. prog.succ[Top.block] \in Seq(Blocks) /\ Top.next \in Nat \ {0}
        /\ Top.next <= Len(prog.succ[Top.block]) + 1
    BY <1>2, FrameShape, ProgramShape
  <1>4. CASE Top.next <= Len(prog.succ[Top.block])
    <2> DEFINE f == [Top EXCEPT !.next = @ + 1]
    <2>1. f \in Frames
      BY <1>1, <1>4, SucceedingFrame
    <2>2. f.calling = Top.calling /\ f.block = Top.block /\ f.pos = Top.pos /\ f.next = Top.next + 1
      BY <1>2 DEF Frames
    <2>3. Visit(prog.succ[Top.block][Top.next], f)
      BY <1>4 DEF NextSuccessor
    <2> HIDE DEF f
    <2>4. prog.succ[Top.block][Top.next] \in Blocks
      BY <1>3, <1>4
    <2>5. \/ Replaced(f) /\ ret' = "false"
          \/ Grown(f, Frame(prog.succ[Top.block][Top.next])) /\ ret' = "none"
      BY <1>1, <2>1, <2>3, <2>4, VisitEffect
    <2>6. QED
      BY <1>1, <1>2, <1>4, <2>2, <2>5
  <1>5. CASE ~(Top.next <= Len(prog.succ[Top.block]))
    <2>1. Return(IF prog.succ[Top.block] = <<>> THEN "false" ELSE "true")
      BY <1>5 DEF NextSuccessor
    <2>2. Shrunk
      BY <1>1, <2>1, ReturnEffect DEF Return
    <2>3. Top.next = Len(prog.succ[Top.block]) + 1
      BY <1>3, <1>5
    <2>4. QED
      BY <1>1, <1>2, <2>1, <2>2, <2>3 DEF Return
  <1>6. QED
    BY <1>4, <1>5

LEMMA ResumeEffect ==
  ASSUME TypeInv, Resume
  PROVE  /\ stack # <<>> /\ ret \in {"true", "false"} /\ UNCHANGED <<prog, errors>>
         /\ \/ /\ Top.calling /\ ret = "true" /\ Shrunk /\ ret' = ret /\ trace' = Tail(trace)
            \/ /\ ~Top.calling /\ ret = "false" /\ Shrunk /\ ret' = ret /\ trace' = trace
            \/ /\ Top.calling /\ ret = "false" /\ ret' = "none" /\ UNCHANGED <<stack, trace>>
            \/ /\ ~Top.calling /\ ret = "true" /\ ret' = "none" /\ UNCHANGED <<stack, trace>>
  <1>1. stack # <<>> /\ ret \in {"true", "false"} /\ UNCHANGED <<prog, errors>>
    BY DEF Resume, TypeInv
  <1>2. Top.calling \in BOOLEAN
    BY <1>1, TopFrame, FrameShape
  <1>3. stack' = Tail(stack) => Shrunk
    BY <1>1, ReturnEffect
  <1>4. CASE Top.calling
    BY <1>1, <1>3, <1>4 DEF Resume
  <1>5. CASE ~Top.calling
    BY <1>1, <1>2, <1>3, <1>5 DEF Resume
  <1>6. QED
    BY <1>4, <1>5

-----------------------------------------------------------------------------
(* The frames that are calling.                                            *)

LEMMA DepthsOfStack ==
  ASSUME TypeInv
  PROVE  /\ CallDepths(stack) \subseteq 1..Len(stack) /\ Len(stack) \in Nat
         /\ IsFiniteSet(CallDepths(stack))
         /\ stack # <<>> => (Len(stack) \in CallDepths(stack) <=> Top.calling)
  <1>1. stack \in Seq(Frames)
    BY DEF TypeInv
  <1>2. stack # <<>> => At(stack, Len(stack)) = Top /\ Len(stack) \in Nat \ {0}
    BY TopFrame
  <1>3. QED
    BY <1>1, <1>2, DepthsFinite DEF CallDepths

LEMMA DepthsReplaced ==
  ASSUME TypeInv, stack # <<>>, NEW f, Replaced(f)
  PROVE  CallDepths(stack') = (CallDepths(stack) \ {Len(stack)})
                                \cup {d \in {Len(stack)} : f.calling}
  <1>1. Len(stack) \in Nat \ {0}
    BY TopFrame
  <1>2. QED
    BY <1>1 DEF Replaced, CallDepths

LEMMA DepthsGrown ==
  ASSUME TypeInv, stack # <<>>, NEW f, NEW b, Grown(f, Frame(b))
  PROVE  CallDepths(stack') = (CallDepths(stack) \ {Len(stack)})
                                \cup {d \in {Len(stack)} : f.calling}
  <1>1. Len(stack) \in Nat \ {0} /\ ~Frame(b).calling
    BY TopFrame DEF Frame
  <1>2. QED
    BY <1>1 DEF Grown, CallDepths

LEMMA DepthsShrunk ==
  ASSUME TypeInv, stack # <<>>, Shrunk
  PROVE  CallDepths(stack') = CallDepths(stack) \ {Len(stack)}
  <1>1. Len(stack) \in Nat \ {0}
    BY TopFrame
  <1>2. QED
    BY <1>1 DEF Shrunk, CallDepths

(* The innermost call is that of the frame on top.                         *)
LEMMA TraceTop ==
  ASSUME TypeInv, Matches(stack, trace), stack # <<>>, Top.calling
  PROVE  trace # <<>> /\ trace[1] = Here
  <1> DEFINE n == Len(stack)
             C == CallDepths(stack)
  <1>1. n \in C /\ C \subseteq 1..n /\ n \in Nat /\ IsFiniteSet(C) /\ At(stack, n) = Top
    BY DepthsOfStack, TopFrame
  <1>2. {c \in C : c <= n} = C
    BY <1>1
  <1>3. Cardinality(C) \in Nat /\ Cardinality(C) >= 1
    <2>1. Cardinality(C) \in Nat /\ Cardinality({c \in C : c <= n}) >= 1
      BY <1>1, Ranks
    <2>2. QED
      BY <1>2, <2>1
  <1>4. Len(trace) = Cardinality(C)
    BY DEF Matches
  <1>5. trace[Len(trace) + 1 - Cardinality({c \in C : c <= n})] = <<Top.block, Top.pos>>
    BY <1>1 DEF Matches
  <1>6. trace[Len(trace) + 1 - Cardinality(C)] = <<Top.block, Top.pos>>
    BY <1>2, <1>5
  <1> HIDE DEF n, C
  <1>7. Len(trace) + 1 - Cardinality(C) = 1 /\ Len(trace) # 0
    BY <1>3, <1>4
  <1>8. QED
    BY <1>6, <1>7 DEF Here

LEMMA Prefixed ==
  ASSUME NEW S, NEW s \in Seq(S), NEW c \in S
  PROVE  <<c>> \o s \in Seq(S)
  OBVIOUS

-----------------------------------------------------------------------------
(* Types.                                                                  *)

LEMMA FramesSame ==
  ASSUME prog' = prog
  PROVE  Frames' = Frames
  BY DEF Frames, AtEnd, Blocks

LEMMA InitType ==
  ASSUME Init
  PROVE  TypeInv
  <1>1. prog \in Programs /\ trace = <<>> /\ ret = "none"
    BY DEF Init
  <1>2. WellFormed(prog)
    BY <1>1, ProgramsAssumption
  <1>3. stack \in Seq(Frames)
    <2>1. CASE prog.main = {}
      <3>1. Cardinality(prog.main) = 0
        BY <2>1, FS_EmptySet
      <3>2. stack = <<>>
        BY <3>1 DEF Init
      <3>3. QED
        BY <3>2
    <2>2. ASSUME NEW m \in DOMAIN prog.body, prog.main = {m}
          PROVE  stack \in Seq(Frames)
      <3>1. Cardinality(prog.main) = 1
        BY <2>2, FS_Singleton
      <3>2. (CHOOSE x \in prog.main : TRUE) = m
        BY <2>2
      <3>4. prog.body[m] \in Blocks /\ prog.size[prog.body[m]] \in Nat
            /\ prog.succ[prog.body[m]] \in Seq(Blocks)
        BY <1>2 DEF WellFormed, Blocks
      <3>5. Frame(prog.body[m]) \in Frames
        BY <3>4 DEF Frame, Frames, AtEnd
      <3>6. Frame(prog.body[CHOOSE x \in prog.main : TRUE]) \in Frames
        BY <3>2, <3>5
      <3>7. QED
        BY <3>1, <3>6 DEF Init
    <2>3. QED
      BY <1>2, <2>1, <2>2 DEF WellFormed
  <1>4. QED
    BY <1>1, <1>3 DEF TypeInv

LEMMA TypeStep ==
  ASSUME TypeInv, Matches(stack, trace), [Next]_vars
  PROVE  TypeInv'
  <1>1. TypeInv' <=> /\ prog' \in Programs /\ stack' \in Seq(Frames')
                     /\ trace' \in Seq(DOMAIN prog'.callees) /\ ret' \in {"none", "true", "false"}
    BY DEF TypeInv
  <1>2. /\ prog \in Programs /\ stack \in Seq(Frames) /\ trace \in Seq(DOMAIN prog.callees)
        /\ ret \in {"none", "true", "false"}
    BY DEF TypeInv
  <1>3. \A f, g : Replaced(f) \/ Grown(f, g) \/ Shrunk => stack' \in Seq(Frames)
    BY DEF Replaced, Grown, Shrunk
  <1>4. ASSUME prog' = prog, stack' \in Seq(Frames), trace' \in Seq(DOMAIN prog.callees),
               ret' \in {"none", "true", "false"}
        PROVE  TypeInv'
    BY <1>1, <1>2, <1>4, FramesSame
  <1>5. trace # <<>> => Tail(trace) \in Seq(DOMAIN prog.callees)
    BY <1>2
  <1>6. CASE Create
    BY <1>2, <1>3, <1>4, <1>6, CreateEffect
  <1>7. CASE Look
    <2>1. \/ trace' = <<Here>> \o trace /\ Here \in DOMAIN prog.callees
          \/ trace' = trace
      BY <1>7, LookEffect
    <2>2. \A c \in DOMAIN prog.callees : <<c>> \o trace \in Seq(DOMAIN prog.callees)
      BY <1>2, Prefixed
    <2>3. QED
      BY <1>2, <1>3, <1>4, <1>7, <2>1, <2>2, LookEffect
  <1>8. CASE EntryCall
    <2>1. trace' = Tail(trace) /\ trace # <<>> /\ prog' = prog /\ ret' = "false" /\ Shrunk
      BY <1>8, EntryCallEffect, TraceTop
    <2>2. QED
      BY <1>3, <1>4, <1>5, <2>1
  <1>9. CASE EnterCallee
    <2>1. /\ trace' = trace /\ prog' = prog /\ ret' \in {"none", "false"}
          /\ \E f, g : Replaced(f) \/ Grown(f, g)
      BY <1>9, EnterCalleeEffect
    <2>2. QED
      BY <1>2, <1>3, <1>4, <2>1
  <1>10. CASE EndCall
    <2>1. /\ trace' = Tail(trace) /\ trace # <<>> /\ prog' = prog /\ ret' = ret
          /\ \E f : Replaced(f)
      BY <1>10, EndCallEffect, TraceTop
    <2>2. QED
      BY <1>2, <1>3, <1>4, <1>5, <2>1
  <1>11. CASE NextSuccessor
    <2>1. /\ trace' = trace /\ prog' = prog /\ ret' \in {"none", "false", "true"}
          /\ \E f, g : Replaced(f) \/ Grown(f, g) \/ Shrunk
      BY <1>11, NextSuccessorEffect
    <2>2. QED
      BY <1>2, <1>3, <1>4, <2>1
  <1>12. CASE Resume
    <2>1. /\ prog' = prog /\ ret' \in {"none", "false", "true"} /\ (Shrunk \/ stack' = stack)
          /\ \/ trace' = trace
             \/ trace' = Tail(trace) /\ trace # <<>>
      BY <1>12, ResumeEffect, TraceTop
    <2>2. QED
      BY <1>2, <1>3, <1>4, <1>5, <2>1
  <1>13. CASE UNCHANGED vars
    BY <1>2, <1>4, <1>13 DEF vars
  <1>14. QED
    BY <1>6, <1>7, <1>8, <1>9, <1>10, <1>11, <1>12, <1>13 DEF Next

-----------------------------------------------------------------------------
(* The trace.                                                              *)

LEMMA MatchesIsProperty == TraceMatchesStack <=> Matches(stack, trace)
  BY DEF TraceMatchesStack, Matches, Calling, CallDepths, FrameAt, CallAt, At

LEMMA InitMatches ==
  ASSUME Init
  PROVE  Matches(stack, trace)
  <1>1. trace = <<>> /\ Len(trace) = 0
    BY DEF Init
  <1>2. stack \in Seq(Frames)
    BY InitType DEF TypeInv
  <1>3. \A i \in 1..Len(stack) : ~stack[i].calling
    <2>1. DOMAIN stack = 1..Len(stack)
      BY <1>2
    <2>2. \A i \in DOMAIN stack : \E b : stack[i] = Frame(b)
      BY DEF Init
    <2>3. \A b : ~Frame(b).calling
      BY DEF Frame
    <2>4. QED
      BY <2>1, <2>2, <2>3
  <1>4. \A d \in 1..Len(stack) : Len(stack) + 1 - d \in 1..Len(stack)
    BY <1>2
  <1>5. CallDepths(stack) = {}
    BY <1>3, <1>4 DEF CallDepths, At
  <1>6. QED
    BY <1>1, <1>5, FS_EmptySet DEF Matches

(* The three cases: no call begins or ends, one begins, one ends.          *)
LEMMA KeepsCalls ==
  ASSUME TypeInv, Matches(stack, trace), stack # <<>>, trace' = trace, NEW f,
         f.calling = Top.calling, f.block = Top.block, f.pos = Top.pos,
         Replaced(f) \/ \E b : Grown(f, Frame(b))
  PROVE  Matches(stack', trace')
  <1>1. /\ CallDepths(stack) \subseteq 1..Len(stack) /\ Len(stack) \in Nat
        /\ Len(stack) \in CallDepths(stack) <=> Top.calling
        /\ At(stack, Len(stack)) = Top
    BY DepthsOfStack, TopFrame
  <1>2. CallDepths(stack') = CallDepths(stack)
    BY <1>1, DepthsReplaced, DepthsGrown
  <1>3. /\ At(stack', Len(stack)) = f
        /\ \A d \in 1..(Len(stack) - 1) : At(stack', d) = At(stack, d)
    BY DEF Replaced, Grown
  <1>4. \A d \in CallDepths(stack) : d = Len(stack) \/ d \in 1..(Len(stack) - 1)
    BY <1>1
  <1>5. \A d \in CallDepths(stack) :
          At(stack', d).block = At(stack, d).block /\ At(stack', d).pos = At(stack, d).pos
    BY <1>1, <1>3, <1>4
  <1>6. QED
    BY <1>2, <1>5, MatchSame

LEMMA BeginsCall ==
  ASSUME TypeInv, Matches(stack, trace), stack # <<>>, Here \in DOMAIN prog.callees,
         trace' = <<Here>> \o trace, NEW f, Replaced(f),
         ~Top.calling, f.calling, f.block = Top.block, f.pos = Top.pos
  PROVE  Matches(stack', trace')
  <1>1. /\ CallDepths(stack) \subseteq 1..Len(stack) /\ Len(stack) \in Nat
        /\ Len(stack) \notin CallDepths(stack)
        /\ stack \in Seq(Frames) /\ trace \in Seq(DOMAIN prog.callees)
    BY DepthsOfStack DEF TypeInv
  <1>2. CallDepths(stack') = CallDepths(stack) \cup {Len(stack)}
    BY <1>1, DepthsReplaced
  <1>3. /\ At(stack', Len(stack)) = f
        /\ \A d \in 1..(Len(stack) - 1) : At(stack', d) = At(stack, d)
    BY DEF Replaced
  <1>4. \A d \in CallDepths(stack) : d < Len(stack) /\ At(stack', d) = At(stack, d)
    BY <1>1, <1>3
  <1>5. Here = <<At(stack', Len(stack)).block, At(stack', Len(stack)).pos>>
    BY <1>3 DEF Here
  <1>6. QED
    BY <1>1, <1>2, <1>4, <1>5, MatchPush

LEMMA EndsCall ==
  ASSUME TypeInv, Matches(stack, trace), stack # <<>>, Top.calling, trace' = Tail(trace),
         Shrunk \/ \E f : Replaced(f) /\ ~f.calling
  PROVE  Matches(stack', trace')
  <1>1. /\ CallDepths(stack) \subseteq 1..Len(stack) /\ Len(stack) \in Nat
        /\ Len(stack) \in CallDepths(stack)
        /\ stack \in Seq(Frames) /\ trace \in Seq(DOMAIN prog.callees)
    BY DepthsOfStack DEF TypeInv
  <1>2. CallDepths(stack') = CallDepths(stack) \ {Len(stack)}
    BY <1>1, DepthsReplaced, DepthsShrunk
  <1>3. /\ stack' \in Seq(Frames)
        /\ \A d \in 1..(Len(stack) - 1) : At(stack', d) = At(stack, d)
    BY DEF Replaced, Shrunk
  <1>4. /\ CallDepths(stack) = CallDepths(stack') \cup {Len(stack)}
        /\ Len(stack) \notin CallDepths(stack')
    BY <1>1, <1>2
  <1>5. \A d \in CallDepths(stack') : d < Len(stack) /\ At(stack', d) = At(stack, d)
    BY <1>1, <1>2, <1>3
  <1>6. Matches(stack', Tail(trace))
    BY <1>1, <1>3, <1>4, <1>5, MatchPop
  <1>7. QED
    BY <1>6

(* A frame that is not calling ends.                                       *)
LEMMA EndsQuiet ==
  ASSUME TypeInv, Matches(stack, trace), stack # <<>>, ~Top.calling, trace' = trace, Shrunk
  PROVE  Matches(stack', trace')
  <1>1. /\ CallDepths(stack) \subseteq 1..Len(stack) /\ Len(stack) \in Nat
        /\ Len(stack) \notin CallDepths(stack)
    BY DepthsOfStack
  <1>2. CallDepths(stack') = CallDepths(stack)
    BY <1>1, DepthsShrunk
  <1>3. \A d \in CallDepths(stack) : At(stack', d) = At(stack, d)
    BY <1>1 DEF Shrunk
  <1>4. QED
    BY <1>2, <1>3, MatchSame

LEMMA PassesOn ==
  ASSUME TypeInv, Matches(stack, trace), stack # <<>>, ~Top.calling, trace' = trace,
         NEW f, Replaced(f), ~f.calling
  PROVE  Matches(stack', trace')
  <1>1. /\ CallDepths(stack) \subseteq 1..Len(stack) /\ Len(stack) \in Nat
        /\ Len(stack) \notin CallDepths(stack)
    BY DepthsOfStack
  <1>2. CallDepths(stack') = CallDepths(stack)
    BY <1>1, DepthsReplaced
  <1>3. \A d \in CallDepths(stack) : At(stack', d) = At(stack, d)
    BY <1>1 DEF Replaced
  <1>4. QED
    BY <1>2, <1>3, MatchSame

LEMMA MatchStep ==
  ASSUME TypeInv, Matches(stack, trace), [Next]_vars
  PROVE  Matches(stack', trace')
  <1>1. CASE Create
    BY <1>1, CreateEffect, EndsQuiet
  <1>2. CASE Look
    BY <1>2, LookEffect, BeginsCall, PassesOn
  <1>3. CASE EntryCall
    BY <1>3, EntryCallEffect, EndsCall
  <1>4. CASE EnterCallee
    BY <1>4, EnterCalleeEffect, KeepsCalls
  <1>5. CASE EndCall
    BY <1>5, EndCallEffect, EndsCall
  <1>6. CASE NextSuccessor
    <2>1. stack # <<>> /\ ~Top.calling /\ trace' = trace
      BY <1>6, NextSuccessorEffect
    <2>2. CASE Shrunk
      BY <2>1, <2>2, EndsQuiet
    <2>3. CASE \E f : /\ ~f.calling /\ f.block = Top.block /\ f.pos = Top.pos
                      /\ Replaced(f) \/ \E b : Grown(f, Frame(b))
      <3>1. PICK f : /\ ~f.calling /\ f.block = Top.block /\ f.pos = Top.pos
                     /\ Replaced(f) \/ \E b : Grown(f, Frame(b))
        BY <2>3
      <3>2. f \in Frames /\ Top \in Frames
        BY <2>1, <3>1, TopFrame DEF Replaced, Grown
      <3>3. f.calling = Top.calling
        BY <2>1, <3>1, <3>2, FrameShape
      <3>4. QED
        BY <2>1, <3>1, <3>3, KeepsCalls
    <2>4. QED
      BY <1>6, <2>2, <2>3, NextSuccessorEffect
  <1>7. CASE Resume
    BY <1>7, ResumeEffect, EndsCall, EndsQuiet
  <1>8. CASE UNCHANGED vars
    BY <1>8 DEF vars
  <1>9. QED
    BY <1>1, <1>2, <1>3, <1>4, <1>5, <1>6, <1>7, <1>8 DEF Next

TraceInv == TypeInv /\ TraceMatchesStack

LEMMA TraceInit == Init => TraceInv
  BY InitType, InitMatches, MatchesIsProperty DEF TraceInv

LEMMA TraceStep == TraceInv /\ [Next]_vars => TraceInv'
  <1>1. TraceMatchesStack' <=> Matches(stack', trace')
    BY DEF TraceMatchesStack, Matches, Calling, CallDepths, FrameAt, CallAt, At
  <1>2. QED
    BY <1>1, TypeStep, MatchStep, MatchesIsProperty DEF TraceInv

(***************************************************************************)
(* The trace holds exactly the calls being looked at, on every way out of  *)
(* the helper.                                                             *)
(***************************************************************************)
THEOREM TraceKept == Spec => []TraceMatchesStack
  <1>1. TraceInv => TraceMatchesStack
    BY DEF TraceInv
  <1>2. QED
    BY <1>1, TraceInit, TraceStep, PTL DEF Spec

-----------------------------------------------------------------------------
(***************************************************************************)
(* Reports.  Each frame's block is one that a run comes to from where its  *)
(* function was called; the call is found in the trace by the number of    *)
(* calling frames below.                                                   *)
(***************************************************************************)
Under(s, d) == Cardinality({c \in CallDepths(s) : c < d})

Begins(t, r) ==
  IF r = 0 THEN Bodies(prog, prog.main) ELSE EntryBlocks(prog, t[Len(t) + 1 - r])

Leads(s, t, d) ==
  /\ At(s, d).block \in ReachedFrom(prog, Blocks, Begins(t, Under(s, d)))
  /\ Through(prog, Blocks, At(s, d).block, At(s, d).pos)

ReportInv ==
  /\ \A d \in 1..Len(stack) : Leads(stack, trace, d)
  /\ Possible(prog, trace)
  /\ ReportsReachable

(* Reaching blocks is closed.                                              *)
LEMMA ReachedStart ==
  ASSUME NEW p, NEW E, NEW B, NEW b \in B, b \in DOMAIN p.size
  PROVE  b \in ReachedFrom(p, E, B)
  BY DEF ReachedFrom

LEMMA ReachedOnward ==
  ASSUME NEW p, NEW E, NEW B, NEW b \in ReachedFrom(p, E, B), Beyond(p, E, b),
         NEW i \in DOMAIN p.succ[b], p.succ[b][i] \in DOMAIN p.size
  PROVE  p.succ[b][i] \in ReachedFrom(p, E, B)
  BY DEF ReachedFrom, Onward

(* With calls taken to return, only a creation point stops a run.          *)
LEMMA OnlyCreation ==
  ASSUME TypeInv, NEW n, n \notin prog.creation
  PROVE  Passable(prog, Blocks, n)
  BY ProgramShape DEF Passable

LEMMA ThroughNext ==
  ASSUME TypeInv, NEW b, NEW i \in Nat \ {0}, Through(prog, Blocks, b, i),
         <<b, i>> \notin prog.creation
  PROVE  Through(prog, Blocks, b, i + 1)
  <1>1. Passable(prog, Blocks, <<b, i>>)
    BY OnlyCreation
  <1>2. 1..((i + 1) - 1) = (1..(i - 1)) \cup {i}
    OBVIOUS
  <1>3. QED
    BY <1>1, <1>2 DEF Through

(* Counting the calls below.                                               *)
LEMMA UnderCounts ==
  ASSUME TypeInv, Matches(stack, trace), stack # <<>>
  PROVE  /\ Len(trace) \in Nat
         /\ \A d : Under(stack, d) \in Nat /\ Under(stack, d) <= Len(trace)
         /\ ~Top.calling => Under(stack, Len(stack)) = Len(trace)
         /\ Top.calling => /\ Under(stack, Len(stack)) = Len(trace) - 1
                           /\ \A d \in 1..Len(stack) : Under(stack, d) <= Len(trace) - 1
  <1> DEFINE n == Len(stack)
             C == CallDepths(stack)
             D(d) == {c \in C : c < d}
  <1>1. /\ C \subseteq 1..n /\ n \in Nat \ {0} /\ IsFiniteSet(C) /\ (n \in C <=> Top.calling)
    BY DepthsOfStack, TopFrame
  <1>2. Cardinality(C) = Len(trace) /\ Len(trace) \in Nat
    BY <1>1, FS_CardinalityType DEF Matches
  <1>3. ASSUME NEW d
        PROVE  /\ IsFiniteSet(D(d)) /\ Cardinality(D(d)) \in Nat
               /\ Cardinality(D(d)) <= Cardinality(C)
    <2>1. D(d) \subseteq C
      OBVIOUS
    <2>2. QED
      BY <2>1, <1>1, FS_Subset, FS_CardinalityType
  <1>4. \A d \in 1..n : D(d) \subseteq C \ {n}
    BY <1>1
  <1>5. D(n) = C \ {n}
    BY <1>1
  <1>6. CASE Top.calling
    <2>1. Cardinality(C \ {n}) = Cardinality(C) - 1 /\ IsFiniteSet(C \ {n})
      BY <1>1, <1>6, FS_RemoveElement
    <2>2. \A d \in 1..n : Cardinality(D(d)) <= Cardinality(C) - 1
      BY <2>1, <1>4, FS_Subset
    <2>3. Cardinality(D(n)) = Cardinality(C) - 1
      BY <2>1, <1>5
    <2>4. QED
      BY <1>2, <1>3, <1>6, <2>2, <2>3 DEF Under
  <1>7. CASE ~Top.calling
    <2>1. D(n) = C
      BY <1>1, <1>5, <1>7
    <2>2. Cardinality(D(n)) = Cardinality(C)
      BY <2>1
    <2>3. QED
      BY <1>2, <1>3, <1>7, <2>2 DEF Under
  <1>8. QED
    BY <1>6, <1>7

LEMMA UnderSame ==
  ASSUME NEW s, NEW s2, NEW d, \A c : c < d => (c \in CallDepths(s2) <=> c \in CallDepths(s))
  PROVE  Under(s2, d) = Under(s, d)
  <1>1. {c \in CallDepths(s2) : c < d} = {c \in CallDepths(s) : c < d}
    OBVIOUS
  <1>2. QED
    BY <1>1 DEF Under

LEMMA LeadsKept ==
  ASSUME NEW s, NEW t, NEW s2, NEW t2, NEW d, Leads(s, t, d), Under(s2, d) = Under(s, d),
         At(s2, d).block = At(s, d).block, Through(prog, Blocks, At(s2, d).block, At(s2, d).pos),
         Under(s, d) \in Nat,
         \A r \in 1..Under(s, d) : t2[Len(t2) + 1 - r] = t[Len(t) + 1 - r]
  PROVE  Leads(s2, t2, d)
  <1>1. Begins(t2, Under(s, d)) = Begins(t, Under(s, d))
    BY DEF Begins
  <1>2. QED
    BY <1>1 DEF Leads

(* Traces, counted from the outermost call.                                *)
LEMMA TracePushed ==
  ASSUME NEW S, NEW t \in Seq(S), NEW c \in S
  PROVE  /\ Len(<<c>> \o t) = Len(t) + 1 /\ (<<c>> \o t)[1] = c
         /\ \A i \in 2..(Len(t) + 1) : (<<c>> \o t)[i] = t[i - 1]
         /\ \A r \in 1..Len(t) : (<<c>> \o t)[Len(<<c>> \o t) + 1 - r] = t[Len(t) + 1 - r]
  <1> DEFINE u == <<c>> \o t
  <1>1. Len(u) = Len(t) + 1 /\ Len(t) \in Nat /\ \A i \in 2..(Len(t) + 1) : u[i] = t[i - 1]
    OBVIOUS
  <1>2. u[1] = c
    OBVIOUS
  <1> HIDE DEF u
  <1>3. \A r \in 1..Len(t) : u[Len(u) + 1 - r] = t[Len(t) + 1 - r]
    BY <1>1
  <1>4. QED
    BY <1>1, <1>2, <1>3 DEF u

LEMMA TracePopped ==
  ASSUME NEW S, NEW t \in Seq(S), t # <<>>
  PROVE  /\ Len(Tail(t)) = Len(t) - 1 /\ Len(t) \in Nat \ {0}
         /\ \A i \in 1..(Len(t) - 1) : Tail(t)[i] = t[i + 1]
         /\ \A r \in 1..(Len(t) - 1) : Tail(t)[Len(Tail(t)) + 1 - r] = t[Len(t) + 1 - r]
  <1>1. /\ Len(Tail(t)) = Len(t) - 1 /\ Len(t) \in Nat \ {0}
        /\ \A i \in 1..(Len(t) - 1) : Tail(t)[i] = t[i + 1]
    OBVIOUS
  <1>2. \A r \in 1..(Len(t) - 1) : Tail(t)[Len(Tail(t)) + 1 - r] = t[Len(t) + 1 - r]
    BY <1>1
  <1>3. QED
    BY <1>1, <1>2

LEMMA PossiblePush ==
  ASSUME NEW C, NEW t \in Seq(C), Possible(prog, t), NEW c \in C,
         ComesTo(prog, Begins(t, Len(t)), c)
  PROVE  Possible(prog, <<c>> \o t)
  <1> DEFINE u == <<c>> \o t
  <1>1. /\ Len(u) = Len(t) + 1 /\ u[1] = c /\ Len(t) \in Nat /\ DOMAIN u = 1..(Len(t) + 1)
        /\ \A i \in 2..(Len(t) + 1) : u[i] = t[i - 1]
    BY TracePushed
  <1> HIDE DEF u
  <1>2. ASSUME NEW k \in DOMAIN u
        PROVE  ComesTo(prog, IF k = Len(u) THEN Bodies(prog, prog.main)
                             ELSE EntryBlocks(prog, u[k + 1]), u[k])
    <2>1. CASE k = 1
      <3>1. Begins(t, Len(t)) = IF 1 = Len(u) THEN Bodies(prog, prog.main)
                                ELSE EntryBlocks(prog, u[2])
        BY <1>1 DEF Begins
      <3>2. QED
        BY <1>1, <2>1, <3>1
    <2>2. CASE k # 1
      <3>1. /\ k - 1 \in DOMAIN t /\ u[k] = t[k - 1] /\ (k = Len(u) <=> k - 1 = Len(t))
            /\ k # Len(u) => u[k + 1] = t[k]
        BY <1>1, <2>2
      <3>2. ComesTo(prog, IF k - 1 = Len(t) THEN Bodies(prog, prog.main)
                          ELSE EntryBlocks(prog, t[(k - 1) + 1]), t[k - 1])
        BY <3>1 DEF Possible
      <3>3. (k - 1) + 1 = k
        BY <1>1
      <3>4. QED
        BY <3>1, <3>2, <3>3
    <2>3. QED
      BY <2>1, <2>2
  <1>3. Possible(prog, u)
    BY <1>2 DEF Possible
  <1>4. QED
    BY <1>3 DEF u

LEMMA PossiblePop ==
  ASSUME NEW C, NEW t \in Seq(C), t # <<>>, Possible(prog, t)
  PROVE  Possible(prog, Tail(t))
  <1> DEFINE u == Tail(t)
  <1>1. /\ Len(u) = Len(t) - 1 /\ Len(t) \in Nat \ {0} /\ DOMAIN u = 1..(Len(t) - 1)
        /\ DOMAIN t = 1..Len(t)
        /\ \A i \in 1..(Len(t) - 1) : u[i] = t[i + 1]
    BY TracePopped
  <1> HIDE DEF u
  <1>2. ASSUME NEW k \in DOMAIN u
        PROVE  ComesTo(prog, IF k = Len(u) THEN Bodies(prog, prog.main)
                             ELSE EntryBlocks(prog, u[k + 1]), u[k])
    <2>1. /\ k + 1 \in DOMAIN t /\ u[k] = t[k + 1] /\ (k = Len(u) <=> k + 1 = Len(t))
          /\ k # Len(u) => u[k + 1] = t[(k + 1) + 1]
      BY <1>1
    <2>2. ComesTo(prog, IF k + 1 = Len(t) THEN Bodies(prog, prog.main)
                        ELSE EntryBlocks(prog, t[(k + 1) + 1]), t[k + 1])
      BY <2>1 DEF Possible
    <2>3. QED
      BY <2>1, <2>2
  <1>3. Possible(prog, u)
    BY <1>2 DEF Possible
  <1>4. QED
    BY <1>3 DEF u

(* What steps do to the trace, seen from its outer end.                    *)
TraceMoves ==
  \/ trace' = trace
  \/ \E c \in DOMAIN prog.callees : trace' = <<c>> \o trace
  \/ Top.calling /\ trace' = Tail(trace)

StackMoves == Shrunk \/ \E f : Replaced(f) \/ \E b : Grown(f, Frame(b))

LEMMA LowerSame ==
  ASSUME TypeInv, Matches(stack, trace), stack # <<>>, StackMoves, TraceMoves
  PROVE  /\ \A d \in 1..(Len(stack) - 1) : At(stack', d) = At(stack, d)
         /\ \A d \in 1..Len(stack) : Under(stack', d) = Under(stack, d)
         /\ \A d \in 1..Len(stack) : \A r \in 1..Under(stack, d) :
              trace'[Len(trace') + 1 - r] = trace[Len(trace) + 1 - r]
  <1>1. Len(stack) \in Nat \ {0}
    BY TopFrame
  <1>2. /\ \A d \in 1..(Len(stack) - 1) : At(stack', d) = At(stack, d)
        /\ Len(stack') \in Nat /\ Len(stack') >= Len(stack) - 1
    BY <1>1 DEF StackMoves, Shrunk, Replaced, Grown
  <1>3. \A c : c < Len(stack) => (c \in CallDepths(stack') <=> c \in CallDepths(stack))
    BY <1>1, <1>2 DEF CallDepths
  <1>4. ASSUME NEW d \in 1..Len(stack)
        PROVE  Under(stack', d) = Under(stack, d)
    <2>1. CallDepths(stack) \subseteq Nat /\ CallDepths(stack') \subseteq Nat
      BY DEF CallDepths
    <2>2. \A c : c < d => (c \in CallDepths(stack') <=> c \in CallDepths(stack))
      <3>1. \A c \in Nat : c < d => c < Len(stack)
        BY <1>1
      <3>2. QED
        BY <1>3, <2>1, <3>1
    <2>3. QED
      BY <2>2, UnderSame
  <1>5. ASSUME NEW d \in 1..Len(stack), NEW r \in 1..Under(stack, d)
        PROVE  trace'[Len(trace') + 1 - r] = trace[Len(trace) + 1 - r]
    <2>1. /\ Len(trace) \in Nat /\ Under(stack, d) \in Nat /\ Under(stack, d) <= Len(trace)
          /\ Top.calling => Under(stack, d) <= Len(trace) - 1
      BY UnderCounts
    <2>2. trace \in Seq(DOMAIN prog.callees)
      BY DEF TypeInv
    <2>3. CASE trace' = trace
      BY <2>3
    <2>4. ASSUME NEW c \in DOMAIN prog.callees, trace' = <<c>> \o trace
          PROVE  trace'[Len(trace') + 1 - r] = trace[Len(trace) + 1 - r]
      <3>1. r \in 1..Len(trace)
        BY <2>1
      <3>2. QED
        BY <2>2, <2>4, <3>1, TracePushed
    <2>5. CASE Top.calling /\ trace' = Tail(trace)
      <3>1. r \in 1..(Len(trace) - 1)
        BY <2>1, <2>5
      <3>2. trace # <<>>
        BY <2>5, TraceTop
      <3>3. QED
        BY <2>2, <2>5, <3>1, <3>2, TracePopped
    <2>6. QED
      BY <2>3, <2>4, <2>5 DEF TraceMoves
  <1>6. QED
    BY <1>2, <1>4, <1>5

LEMMA LowerLeads ==
  ASSUME TypeInv, Matches(stack, trace), stack # <<>>, StackMoves, TraceMoves,
         NEW d \in 1..(Len(stack) - 1), Leads(stack, trace, d)
  PROVE  Leads(stack', trace', d)
  <1>1. d \in 1..Len(stack)
    BY TopFrame
  <1>2. /\ At(stack', d) = At(stack, d) /\ Under(stack', d) = Under(stack, d)
        /\ Under(stack, d) \in Nat
        /\ \A r \in 1..Under(stack, d) : trace'[Len(trace') + 1 - r] = trace[Len(trace) + 1 - r]
    BY <1>1, LowerSame, UnderCounts
  <1>3. Through(prog, Blocks, At(stack', d).block, At(stack', d).pos)
    BY <1>2 DEF Leads
  <1>4. QED
    BY <1>2, <1>3, LeadsKept

LEMMA TopLeads ==
  ASSUME TypeInv, Matches(stack, trace), stack # <<>>, TraceMoves, Leads(stack, trace, Len(stack)),
         NEW f, Replaced(f) \/ \E b : Grown(f, Frame(b)),
         f.block = Top.block, Through(prog, Blocks, f.block, f.pos)
  PROVE  Leads(stack', trace', Len(stack))
  <1>1. Len(stack) \in 1..Len(stack) /\ At(stack, Len(stack)) = Top /\ StackMoves
    <2>1. Len(stack) \in Nat \ {0} /\ At(stack, Len(stack)) = Top
      BY TopFrame
    <2>2. StackMoves
      BY DEF StackMoves
    <2>3. QED
      BY <2>1, <2>2
  <1>2. /\ Under(stack', Len(stack)) = Under(stack, Len(stack)) /\ Under(stack, Len(stack)) \in Nat
        /\ \A r \in 1..Under(stack, Len(stack)) :
             trace'[Len(trace') + 1 - r] = trace[Len(trace) + 1 - r]
    BY <1>1, LowerSame, UnderCounts
  <1>3. At(stack', Len(stack)) = f
    BY DEF Replaced, Grown
  <1>4. QED
    BY <1>1, <1>2, <1>3, LeadsKept

LEMMA NewLeads ==
  ASSUME TypeInv, Matches(stack, trace), stack # <<>>, trace' = trace,
         Leads(stack, trace, Len(stack)), NEW f, NEW b, Grown(f, Frame(b)), f.calling = Top.calling,
         \/ Top.calling /\ b \in EntryBlocks(prog, Here)
         \/ /\ ~Top.calling /\ AtEnd(Top)
            /\ Top.next \in DOMAIN prog.succ[Top.block] /\ b = prog.succ[Top.block][Top.next]
  PROVE  Leads(stack', trace', Len(stack) + 1)
  <1> DEFINE n == Len(stack)
  <1>1. n \in Nat \ {0} /\ At(stack, n) = Top /\ Top \in Frames
    BY TopFrame
  <1>2. At(stack', n + 1) = Frame(b) /\ Frame(b) \in Frames
    BY DEF Grown
  <1>3. b \in Blocks /\ Frame(b).block = b /\ Frame(b).pos = 1
    BY <1>2, FrameShape DEF Frame
  <1>4. Through(prog, Blocks, b, 1)
    BY DEF Through
  <1>5. CallDepths(stack') = CallDepths(stack)
    BY <1>1, DepthsOfStack, DepthsGrown
  <1>6. Under(stack', n + 1) = Len(trace)
    <2>1. CallDepths(stack) \subseteq 1..n
      BY DepthsOfStack
    <2>2. {c \in CallDepths(stack) : c < n + 1} = CallDepths(stack)
      BY <1>1, <2>1
    <2>3. QED
      BY <1>5, <2>2 DEF Under, Matches
  <1>7. b \in ReachedFrom(prog, Blocks, Begins(trace, Len(trace)))
    <2>1. CASE Top.calling /\ b \in EntryBlocks(prog, Here)
      <3>1. trace # <<>> /\ trace[1] = Here /\ Len(trace) \in Nat
        BY <2>1, TraceTop, UnderCounts
      <3>2. trace[Len(trace) + 1 - Len(trace)] = Here /\ Len(trace) # 0
        <4>1. Len(trace) + 1 - Len(trace) = 1
          BY <3>1
        <4>2. trace \in Seq(DOMAIN prog.callees)
          BY DEF TypeInv
        <4>3. QED
          BY <3>1, <4>1, <4>2
      <3>3. Begins(trace, Len(trace)) = EntryBlocks(prog, Here)
        BY <3>2 DEF Begins
      <3>4. QED
        BY <2>1, <3>3, <1>3, ReachedStart DEF Blocks
    <2>2. CASE /\ ~Top.calling /\ AtEnd(Top)
               /\ Top.next \in DOMAIN prog.succ[Top.block] /\ b = prog.succ[Top.block][Top.next]
      <3>1. Under(stack, n) = Len(trace)
        BY <2>2, UnderCounts
      <3>2. /\ Top.block \in ReachedFrom(prog, Blocks, Begins(trace, Len(trace)))
            /\ Through(prog, Blocks, Top.block, Top.pos)
        BY <1>1, <3>1 DEF Leads
      <3>3. Top.pos = prog.size[Top.block] + 1
        <4>1. /\ Top.pos \in Nat /\ prog.size[Top.block] \in Nat
              /\ Top.pos <= prog.size[Top.block] + 1
          BY <1>1, FrameShape, ProgramShape
        <4>2. QED
          BY <2>2, <4>1 DEF AtEnd
      <3>4. Beyond(prog, Blocks, Top.block)
        BY <3>2, <3>3 DEF Beyond
      <3>5. QED
        BY <2>2, <3>2, <3>4, <1>3, ReachedOnward DEF Blocks
    <2>3. QED
      BY <2>1, <2>2
  <1>8. QED
    BY <1>2, <1>3, <1>4, <1>6, <1>7 DEF Leads

(* All frames after a step, from the parts.                                *)
LEMMA AllLead ==
  ASSUME TypeInv, Matches(stack, trace), stack # <<>>, TraceMoves,
         \A d \in 1..Len(stack) : Leads(stack, trace, d),
         \/ Shrunk
         \/ \E f : /\ f.block = Top.block /\ Through(prog, Blocks, f.block, f.pos)
                   /\ \/ Replaced(f)
                      \/ \E b : /\ Grown(f, Frame(b)) /\ trace' = trace /\ f.calling = Top.calling
                                /\ \/ Top.calling /\ b \in EntryBlocks(prog, Here)
                                   \/ /\ ~Top.calling /\ AtEnd(Top)
                                      /\ Top.next \in DOMAIN prog.succ[Top.block]
                                      /\ b = prog.succ[Top.block][Top.next]
  PROVE  \A d \in 1..Len(stack') : Leads(stack', trace', d)
  <1>1. Len(stack) \in Nat \ {0} /\ StackMoves
    BY TopFrame DEF StackMoves
  <1>2. \A d \in 1..(Len(stack) - 1) : Leads(stack', trace', d)
    <2>1. \A d \in 1..(Len(stack) - 1) : d \in 1..Len(stack)
      BY <1>1
    <2>2. QED
      BY <1>1, <2>1, LowerLeads
  <1>3. Leads(stack, trace, Len(stack))
    BY <1>1
  <1>4. CASE Shrunk
    BY <1>2, <1>4 DEF Shrunk
  <1>5. ASSUME NEW f, f.block = Top.block, Through(prog, Blocks, f.block, f.pos), Replaced(f)
        PROVE  \A d \in 1..Len(stack') : Leads(stack', trace', d)
    <2>1. Leads(stack', trace', Len(stack))
      BY <1>3, <1>5, TopLeads
    <2>2. Len(stack') = Len(stack)
      BY <1>5 DEF Replaced
    <2>3. \A d \in 1..Len(stack) : d = Len(stack) \/ d \in 1..(Len(stack) - 1)
      BY <1>1
    <2>4. QED
      BY <1>2, <2>1, <2>2, <2>3
  <1>6. ASSUME NEW f, f.block = Top.block, Through(prog, Blocks, f.block, f.pos),
               NEW b, Grown(f, Frame(b)), trace' = trace, f.calling = Top.calling,
               \/ Top.calling /\ b \in EntryBlocks(prog, Here)
               \/ /\ ~Top.calling /\ AtEnd(Top)
                  /\ Top.next \in DOMAIN prog.succ[Top.block] /\ b = prog.succ[Top.block][Top.next]
        PROVE  \A d \in 1..Len(stack') : Leads(stack', trace', d)
    <2>1. Leads(stack', trace', Len(stack))
      BY <1>3, <1>6, TopLeads
    <2>2. Leads(stack', trace', Len(stack) + 1)
      BY <1>3, <1>6, NewLeads
    <2>3. Len(stack') = Len(stack) + 1
      BY <1>6 DEF Grown
    <2>4. \A d \in 1..(Len(stack) + 1) :
            d = Len(stack) + 1 \/ d = Len(stack) \/ d \in 1..(Len(stack) - 1)
      BY <1>1
    <2>5. QED
      BY <1>2, <2>1, <2>2, <2>3, <2>4
  <1>7. QED
    BY <1>4, <1>5, <1>6

LEMMA ReportInit ==
  ASSUME Init
  PROVE  ReportInv
  <1>1. TypeInv /\ Matches(stack, trace)
    BY InitType, InitMatches
  <1>2. trace = <<>> /\ errors = {}
    BY DEF Init
  <1>3. \A d \in 1..Len(stack) : \E m \in prog.main : At(stack, d) = Frame(prog.body[m])
    <2>1. CASE prog.main = {}
      <3>1. Cardinality(prog.main) = 0
        BY <2>1, FS_EmptySet
      <3>2. stack = <<>>
        BY <3>1 DEF Init
      <3>3. QED
        BY <3>2
    <2>2. CASE prog.main # {}
      <3>1. (CHOOSE m \in prog.main : TRUE) \in prog.main
        BY <2>2
      <3>2. \A i \in DOMAIN stack : stack[i] = Frame(prog.body[CHOOSE m \in prog.main : TRUE])
        BY DEF Init
      <3>3. DOMAIN stack = 1..Len(stack) /\ Len(stack) \in Nat
        BY <1>1 DEF TypeInv
      <3>4. \A d \in 1..Len(stack) : Len(stack) + 1 - d \in 1..Len(stack)
        BY <3>3
      <3>5. QED
        BY <3>1, <3>2, <3>3, <3>4 DEF At
    <2>3. QED
      BY <2>1, <2>2
  <1>4. ASSUME NEW d \in 1..Len(stack)
        PROVE  Leads(stack, trace, d)
    <2>1. PICK m \in prog.main : At(stack, d) = Frame(prog.body[m])
      BY <1>3
    <2>2. prog.body[m] \in Bodies(prog, prog.main) /\ prog.body[m] \in Blocks
      BY <1>1, ProgramShape DEF Bodies
    <2>3. At(stack, d).block = prog.body[m] /\ At(stack, d).pos = 1
      BY <2>1 DEF Frame
    <2>4. Under(stack, d) = 0
      <3>1. IsFiniteSet(CallDepths(stack)) /\ Cardinality(CallDepths(stack)) = 0
        BY <1>1, <1>2, DepthsOfStack DEF Matches
      <3>2. CallDepths(stack) = {}
        BY <3>1, FS_EmptySet
      <3>3. {c \in CallDepths(stack) : c < d} = {}
        BY <3>2
      <3>4. QED
        BY <3>3, FS_EmptySet DEF Under
    <2>5. prog.body[m] \in ReachedFrom(prog, Blocks, Begins(trace, 0))
      BY <2>2, ReachedStart DEF Begins, Blocks
    <2>6. Through(prog, Blocks, prog.body[m], 1)
      BY DEF Through
    <2>7. QED
      BY <2>3, <2>4, <2>5, <2>6 DEF Leads
  <1>5. Possible(prog, trace)
    BY <1>2 DEF Possible
  <1>6. ReportsReachable
    BY <1>2 DEF ReportsReachable
  <1>7. QED
    BY <1>4, <1>5, <1>6 DEF ReportInv

LEMMA ReportStep ==
  ASSUME TypeInv, Matches(stack, trace), ReportInv, [Next]_vars
  PROVE  ReportInv'
  <1>1. ASSUME prog' = prog, \A d \in 1..Len(stack') : Leads(stack', trace', d),
               Possible(prog, trace'),
               \A e \in errors' \ errors :
                 /\ e.trace # <<>> /\ Possible(prog, e.trace)
                 /\ e.callee \in prog.callees[e.trace[1]] \cap prog.entryPoint
        PROVE  ReportInv'
    <2>1. ReportsReachable'
      BY <1>1 DEF ReportInv, ReportsReachable
    <2>2. \A d : Leads(stack, trace, d)' <=> Leads(stack', trace', d)
      BY <1>1 DEF Leads, Begins, Blocks
    <2>3. Possible(prog, trace)'
      BY <1>1
    <2>4. QED
      BY <1>1, <2>1, <2>2, <2>3 DEF ReportInv
  <1>2. /\ \A d \in 1..Len(stack) : Leads(stack, trace, d)
        /\ Possible(prog, trace)
        /\ trace \in Seq(DOMAIN prog.callees)
    BY DEF ReportInv, TypeInv
  <1>3. ASSUME stack # <<>>
        PROVE  /\ Through(prog, Blocks, Top.block, Top.pos) /\ Top \in Frames
               /\ Top.pos \in Nat \ {0}
               /\ Here \notin prog.creation => Through(prog, Blocks, Top.block, Top.pos + 1)
               /\ Top.calling => trace # <<>> /\ trace[1] = Here /\ Possible(prog, Tail(trace))
                                 /\ Here \notin prog.creation
    <2>1. Len(stack) \in Nat \ {0} /\ At(stack, Len(stack)) = Top /\ Top \in Frames
      BY <1>3, TopFrame
    <2>2. Through(prog, Blocks, Top.block, Top.pos)
      BY <1>2, <2>1 DEF Leads
    <2>3. Top.pos \in Nat \ {0} /\ (Top.calling => Here \notin prog.creation)
      BY <2>1, FrameShape DEF Here
    <2>4. Here \notin prog.creation => Through(prog, Blocks, Top.block, Top.pos + 1)
      BY <2>2, <2>3, ThroughNext DEF Here
    <2>5. Top.calling => trace # <<>> /\ trace[1] = Here /\ Possible(prog, Tail(trace))
      BY <1>2, <1>3, TraceTop, PossiblePop
    <2>6. QED
      BY <2>1, <2>2, <2>3, <2>4, <2>5
  <1>4. CASE Create
    <2>1. stack # <<>> /\ Shrunk /\ UNCHANGED <<prog, trace, errors>>
      BY <1>4, CreateEffect
    <2>2. \A d \in 1..Len(stack') : Leads(stack', trace', d)
      BY <1>2, <2>1, AllLead DEF TraceMoves
    <2>3. QED
      BY <1>1, <1>2, <2>1, <2>2
  <1>5. CASE Look
    <2>1. /\ stack # <<>> /\ ~Top.calling /\ Here \notin prog.creation
          /\ UNCHANGED <<prog, errors>>
      BY <1>5, LookEffect
    <2>2. CASE /\ Here \in DOMAIN prog.callees
               /\ \E f : Replaced(f) /\ f.block = Top.block /\ f.pos = Top.pos
               /\ trace' = <<Here>> \o trace
      <3>1. TraceMoves
        BY <2>2 DEF TraceMoves
      <3>2. \A d \in 1..Len(stack') : Leads(stack', trace', d)
        BY <1>2, <1>3, <2>1, <2>2, <3>1, AllLead
      <3>3. Leads(stack, trace, Len(stack)) /\ At(stack, Len(stack)) = Top
        BY <1>2, <2>1, TopFrame
      <3>4. Under(stack, Len(stack)) = Len(trace)
        BY <2>1, UnderCounts
      <3>5. ComesTo(prog, Begins(trace, Len(trace)), Here)
        BY <2>1, <2>2, <3>3, <3>4 DEF Leads, ComesTo, Here, Blocks
      <3>6. Possible(prog, trace')
        BY <1>2, <2>2, <3>5, PossiblePush
      <3>7. QED
        BY <1>1, <2>1, <3>2, <3>6
    <2>3. CASE /\ \E f : Replaced(f) /\ f.block = Top.block /\ f.pos = Top.pos + 1
               /\ trace' = trace
      <3>1. TraceMoves
        BY <2>3 DEF TraceMoves
      <3>2. \A d \in 1..Len(stack') : Leads(stack', trace', d)
        BY <1>2, <1>3, <2>1, <2>3, <3>1, AllLead
      <3>3. QED
        BY <1>1, <1>2, <2>1, <2>3, <3>2
    <2>4. QED
      BY <1>5, <2>2, <2>3, LookEffect
  <1>6. CASE EntryCall
    <2>1. /\ stack # <<>> /\ Shrunk /\ Top.calling /\ prog' = prog /\ trace' = Tail(trace)
      BY <1>6, EntryCallEffect
    <2>2. PICK f \in Top.todo \cap prog.entryPoint :
            errors' = errors \cup {[callee |-> f, trace |-> trace]}
      BY <1>6, EntryCallEffect
    <2>3. \A d \in 1..Len(stack') : Leads(stack', trace', d)
      BY <1>2, <2>1, AllLead DEF TraceMoves
    <2>4. f \in prog.callees[trace[1]]
      BY <1>3, <2>1, <2>2, FrameShape DEF Here
    <2>5. \A e \in errors' \ errors : e.callee = f /\ e.trace = trace
      BY <2>2
    <2>6. QED
      BY <1>1, <1>2, <1>3, <2>1, <2>2, <2>3, <2>4, <2>5
  <1>7. CASE EnterCallee
    <2>1. stack # <<>> /\ Top.calling /\ UNCHANGED <<prog, trace, errors>>
      BY <1>7, EnterCalleeEffect
    <2>2. PICK f : /\ f.calling /\ f.block = Top.block /\ f.pos = Top.pos
                   /\ \/ Replaced(f)
                      \/ \E b \in EntryBlocks(prog, Here) : Grown(f, Frame(b))
      BY <1>7, EnterCalleeEffect
    <2>3. f \in Frames /\ Top \in Frames
      BY <1>3, <2>1, <2>2 DEF Replaced, Grown
    <2>4. f.calling = Top.calling
      BY <2>1, <2>2, <2>3, FrameShape
    <2>5. \A d \in 1..Len(stack') : Leads(stack', trace', d)
      BY <1>2, <1>3, <2>1, <2>2, <2>4, AllLead DEF TraceMoves
    <2>6. QED
      BY <1>1, <1>2, <2>1, <2>5
  <1>8. CASE EndCall
    <2>1. /\ stack # <<>> /\ Top.calling /\ UNCHANGED <<prog, errors>> /\ trace' = Tail(trace)
          /\ \E f : Replaced(f) /\ f.block = Top.block /\ f.pos = Top.pos + 1
      BY <1>8, EndCallEffect
    <2>2. TraceMoves
      BY <2>1 DEF TraceMoves
    <2>3. \A d \in 1..Len(stack') : Leads(stack', trace', d)
      BY <1>2, <1>3, <2>1, <2>2, AllLead
    <2>4. QED
      BY <1>1, <1>3, <2>1, <2>3
  <1>9. CASE NextSuccessor
    <2>1. stack # <<>> /\ AtEnd(Top) /\ ~Top.calling /\ UNCHANGED <<prog, trace, errors>>
      BY <1>9, NextSuccessorEffect
    <2>2. TraceMoves
      BY <2>1 DEF TraceMoves
    <2>3. CASE Shrunk
      <3>1. \A d \in 1..Len(stack') : Leads(stack', trace', d)
        BY <1>2, <2>1, <2>2, <2>3, AllLead
      <3>2. QED
        BY <1>1, <1>2, <2>1, <3>1
    <2>4. CASE ~Shrunk
      <3>1. Top.next <= Len(prog.succ[Top.block])
        BY <1>9, <2>4, NextSuccessorEffect
      <3>2. PICK f : /\ ~f.calling /\ f.block = Top.block /\ f.pos = Top.pos
                     /\ \/ Replaced(f)
                        \/ Grown(f, Frame(prog.succ[Top.block][Top.next]))
        BY <1>9, <2>4, NextSuccessorEffect
      <3>3. f \in Frames /\ Top \in Frames
        BY <1>3, <2>1, <3>2 DEF Replaced, Grown
      <3>4. f.calling = Top.calling
        BY <2>1, <3>2, <3>3, FrameShape
      <3>5. Top.next \in DOMAIN prog.succ[Top.block]
        <4>1. prog.succ[Top.block] \in Seq(Blocks) /\ Top.next \in Nat \ {0}
          BY <3>3, FrameShape, ProgramShape
        <4>2. QED
          BY <3>1, <4>1
      <3>6. \A d \in 1..Len(stack') : Leads(stack', trace', d)
        BY <1>2, <1>3, <2>1, <2>2, <3>2, <3>4, <3>5, AllLead
      <3>7. QED
        BY <1>1, <1>2, <2>1, <3>6
    <2>5. QED
      BY <2>3, <2>4
  <1>10. CASE Resume
    <2>1. /\ stack # <<>> /\ UNCHANGED <<prog, errors>>
          /\ \/ Top.calling /\ Shrunk /\ trace' = Tail(trace)
             \/ Shrunk /\ trace' = trace
             \/ UNCHANGED <<stack, trace>>
      BY <1>10, ResumeEffect
    <2>2. CASE Shrunk /\ (trace' = trace \/ (Top.calling /\ trace' = Tail(trace)))
      <3>1. TraceMoves
        BY <2>2 DEF TraceMoves
      <3>2. \A d \in 1..Len(stack') : Leads(stack', trace', d)
        BY <1>2, <2>1, <2>2, <3>1, AllLead
      <3>3. Possible(prog, trace')
        BY <1>2, <1>3, <2>1, <2>2
      <3>4. QED
        BY <1>1, <2>1, <3>2, <3>3
    <2>3. CASE UNCHANGED <<stack, trace>>
      BY <1>1, <1>2, <2>1, <2>3
    <2>4. QED
      BY <2>1, <2>2, <2>3
  <1>11. CASE UNCHANGED vars
    BY <1>1, <1>2, <1>11 DEF vars
  <1>12. QED
    BY <1>4, <1>5, <1>6, <1>7, <1>8, <1>9, <1>10, <1>11 DEF Next

(***************************************************************************)
(* Every report's trace is possible: it leads from main() to the call of   *)
(* the entry point, past no creation point.                                *)
(***************************************************************************)
THEOREM ReportsPossible == Spec => []ReportsReachable
  <1>1. Init => TraceInv /\ ReportInv
    BY TraceInit, ReportInit
  <1>2. TraceInv /\ ReportInv /\ [Next]_vars => TraceInv' /\ ReportInv'
    BY TraceStep, ReportStep, MatchesIsProperty DEF TraceInv
  <1>3. ReportInv => ReportsReachable
    BY DEF ReportInv
  <1>4. QED
    BY <1>1, <1>2, <1>3, PTL DEF Spec

-----------------------------------------------------------------------------
(***************************************************************************)
(* Answers.  A block that the helper has answered true for is not one from *)
(* which a run may leave uncreated.  What has been answered is kept in the *)
(* frames: the successors that a frame has behind it were all answered     *)
(* true, as && takes no further one after a false.                         *)
(***************************************************************************)
Safe(b) == b \notin Escaping(prog)

SafeSuccessors(f, k) == \A i \in 1..k : Safe(prog.succ[f.block][i])

(* The frame above f is for a callee, or for the successor last taken.     *)
Link(f, b) ==
  IF f.calling THEN b \in EntryBlocks(prog, <<f.block, f.pos>>)
  ELSE AtEnd(f) /\ f.next >= 2 /\ b = prog.succ[f.block][f.next - 1]

Linked(s) ==
  \A d \in 1..Len(s) :
    IF d = 1 THEN At(s, d).block \in Bodies(prog, prog.main)
    ELSE Link(At(s, d - 1), At(s, d).block)

SafeBehind(s) == \A d \in 1..Len(s) : SafeSuccessors(At(s, d), At(s, d).next - 2)

(* What "true" means for the frame that gets it.                           *)
Answered(s) ==
  IF s = <<>> THEN \A b \in Bodies(prog, prog.main) : Safe(b)
  ELSE IF s[1].calling
       THEN /\ prog.callees[<<s[1].block, s[1].pos>>] # {}
            /\ \A f \in prog.callees[<<s[1].block, s[1].pos>>] :
                 f \in DOMAIN prog.body \ prog.entryPoint /\ Safe(prog.body[f])
       ELSE SafeSuccessors(s[1], s[1].next - 1)

CreatedFor(s, r) ==
  /\ Linked(s)
  /\ SafeBehind(s)
  /\ r = "true" => Answered(s)
  /\ r = "none" /\ s # <<>> => SafeSuccessors(s[1], s[1].next - 1)

CreatedInv == SingleCallees(prog) => CreatedFor(stack, ret)

(* Escaping is a fixed point.                                              *)
LEMMA LeavingMonotone ==
  ASSUME NEW p, NEW E, NEW F, E \subseteq F, NEW b, Leaving(p, E, b)
  PROVE  Leaving(p, F, b)
  <1>1. \A n : Passable(p, E, n) => Passable(p, F, n)
    BY DEF Passable
  <1>2. Beyond(p, F, b)
    BY <1>1 DEF Leaving, Beyond, Through
  <1>3. QED
    BY <1>2 DEF Leaving

LEMMA EscapingFixed ==
  ASSUME NEW p, NEW b \in Escaping(p)
  PROVE  Leaving(p, Escaping(p), b)
  <1> DEFINE Closed(E) == \A c \in DOMAIN p.size : Leaving(p, E, c) => c \in E
             E1 == {c \in DOMAIN p.size : Leaving(p, Escaping(p), c)}
  <1>1. \A E \in SUBSET DOMAIN p.size : Closed(E) => Escaping(p) \subseteq E
    BY DEF Escaping
  <1>2. ASSUME NEW c \in E1, NEW E \in SUBSET DOMAIN p.size, Closed(E)
        PROVE  c \in E
    <2>1. Leaving(p, E, c)
      BY <1>1, <1>2, LeavingMonotone
    <2>2. QED
      BY <1>2, <2>1
  <1>3. E1 \subseteq Escaping(p)
    BY <1>2 DEF Escaping
  <1>4. ASSUME NEW c \in DOMAIN p.size, Leaving(p, E1, c)
        PROVE  c \in E1
    <2>1. Leaving(p, Escaping(p), c)
      BY <1>3, <1>4, LeavingMonotone
    <2>2. QED
      BY <2>1
  <1>5. Closed(E1) /\ E1 \in SUBSET DOMAIN p.size
    BY <1>4
  <1>6. b \in E1
    BY <1>1, <1>5
  <1>7. QED
    BY <1>6

(* What makes a block safe: a creation point, a call all of whose callees  *)
(* are, or successors that all are.                                        *)
LEMMA SafeCreation ==
  ASSUME NEW b, NEW i \in 1..prog.size[b], prog.size[b] \in Nat, <<b, i>> \in prog.creation
  PROVE  Safe(b)
  <1>1. i \in 1..((prog.size[b] + 1) - 1)
    OBVIOUS
  <1>2. ~Beyond(prog, Escaping(prog), b)
    BY <1>1 DEF Beyond, Through, Passable
  <1>3. QED
    BY <1>2, EscapingFixed DEF Safe, Leaving

LEMMA SafeCall ==
  ASSUME NEW b, NEW i \in 1..prog.size[b], prog.size[b] \in Nat,
         <<b, i>> \in DOMAIN prog.callees, prog.callees[<<b, i>>] # {},
         \A f \in prog.callees[<<b, i>>] :
           f \in DOMAIN prog.body \ prog.entryPoint /\ Safe(prog.body[f])
  PROVE  Safe(b)
  <1>1. i \in 1..((prog.size[b] + 1) - 1)
    OBVIOUS
  <1>2. ~Passable(prog, Escaping(prog), <<b, i>>)
    BY DEF Passable, Safe
  <1>3. ~Beyond(prog, Escaping(prog), b)
    BY <1>1, <1>2 DEF Beyond, Through
  <1>4. QED
    BY <1>3, EscapingFixed DEF Safe, Leaving

LEMMA SafeOnward ==
  ASSUME NEW b, prog.succ[b] # <<>>,
         \A i \in DOMAIN prog.succ[b] : Safe(prog.succ[b][i])
  PROVE  Safe(b)
  BY EscapingFixed DEF Safe, Leaving

(* The frame below gets the answer for the block of the one that ends.     *)
LEMMA PopAnswered ==
  ASSUME TypeInv, SingleCallees(prog), Linked(stack), SafeBehind(stack), stack # <<>>, Shrunk,
         Safe(Top.block)
  PROVE  Answered(stack')
  <1> DEFINE n == Len(stack)
  <1>1. n \in Nat \ {0} /\ At(stack, n) = Top /\ \A d \in 1..n : At(stack, d) \in Frames
    BY TopFrame
  <1>2. stack' \in Seq(Frames) /\ Len(stack') = n - 1
    BY DEF Shrunk
  <1>3. CASE n = 1
    <2>1. stack' = <<>>
      BY <1>2, <1>3
    <2>2. Top.block \in Bodies(prog, prog.main)
      BY <1>1, <1>3 DEF Linked
    <2>3. \A f, g \in prog.main : f = g
      BY ProgramsAssumption DEF TypeInv, WellFormed
    <2>4. \A b \in Bodies(prog, prog.main) : b = Top.block
      BY <2>2, <2>3 DEF Bodies
    <2>5. QED
      BY <2>1, <2>4 DEF Answered
  <1>4. CASE n > 1
    <2> DEFINE g == At(stack, n - 1)
    <2>1. stack' # <<>> /\ stack'[1] = g
      <3>1. stack' # <<>> /\ n - 1 \in 1..(n - 1)
        BY <1>1, <1>2, <1>4
      <3>2. At(stack', n - 1) = g
        BY <3>1 DEF Shrunk
      <3>3. stack'[1] = At(stack', Len(stack'))
        BY <1>2, <3>1, StackTop
      <3>4. QED
        BY <1>2, <3>1, <3>2, <3>3
    <2>2. n - 1 \in 1..n /\ n \in 1..n /\ n # 1
      <3>1. n \in Nat /\ n > 1
        BY <1>1, <1>4
      <3> HIDE DEF n
      <3>2. QED
        BY <3>1
    <2>3. g \in Frames /\ Link(g, Top.block) /\ SafeSuccessors(g, g.next - 2)
      BY <1>1, <2>2 DEF Linked, SafeBehind
    <2> HIDE DEF g
    <2>4. CASE g.calling
      <3>1. <<g.block, g.pos>> \in DOMAIN prog.callees
        BY <2>3, <2>4, FrameShape
      <3>2. PICK f \in (prog.callees[<<g.block, g.pos>>] \ prog.entryPoint) \cap DOMAIN prog.body :
              Top.block = prog.body[f]
        BY <2>3, <2>4 DEF Link, EntryBlocks, Bodies
      <3>3. \A h \in prog.callees[<<g.block, g.pos>>] : h = f
        BY <3>1, <3>2 DEF SingleCallees
      <3>4. QED
        BY <2>1, <2>4, <3>2, <3>3 DEF Answered
    <2>5. CASE ~g.calling
      <3>1. g.next >= 2 /\ Top.block = prog.succ[g.block][g.next - 1] /\ g.next \in Nat
        BY <2>3, <2>5, FrameShape DEF Link
      <3>2. \A i \in 1..(g.next - 1) : i \in 1..(g.next - 2) \/ i = g.next - 1
        BY <3>1
      <3>3. SafeSuccessors(g, g.next - 1)
        BY <2>3, <3>1, <3>2 DEF SafeSuccessors
      <3>4. QED
        BY <2>1, <2>5, <3>3 DEF Answered
    <2>6. QED
      BY <2>4, <2>5
  <1>5. n = 1 \/ n > 1
    <2> HIDE DEF n
    <2>1. QED
      BY <1>1
  <1>6. QED
    BY <1>3, <1>4, <1>5

(* The links between frames, and what is behind them, as the stack moves.  *)
LEMMA ShrunkLinks ==
  ASSUME TypeInv, stack # <<>>, Shrunk, Linked(stack), SafeBehind(stack)
  PROVE  Linked(stack') /\ SafeBehind(stack')
  <1>1. Len(stack) \in Nat \ {0} /\ Len(stack') = Len(stack) - 1
    BY TopFrame DEF Shrunk
  <1>2. \A d \in 1..Len(stack') : d \in 1..Len(stack) /\ (d # 1 => d - 1 \in 1..Len(stack'))
    BY <1>1
  <1>3. \A d \in 1..Len(stack') : At(stack', d) = At(stack, d)
    BY <1>1 DEF Shrunk
  <1>4. QED
    BY <1>2, <1>3 DEF Linked, SafeBehind

LEMMA ReplacedLinks ==
  ASSUME TypeInv, stack # <<>>, Linked(stack), SafeBehind(stack),
         NEW f, Replaced(f), f.block = Top.block, SafeSuccessors(f, f.next - 2)
  PROVE  Linked(stack') /\ SafeBehind(stack')
  <1>1. Len(stack) \in Nat \ {0} /\ Len(stack') = Len(stack) /\ At(stack, Len(stack)) = Top
    BY TopFrame DEF Replaced
  <1>2. \A d \in 1..Len(stack) : /\ d = Len(stack) \/ d \in 1..(Len(stack) - 1)
                                 /\ d # 1 => d - 1 \in 1..(Len(stack) - 1)
    BY <1>1
  <1>3. /\ At(stack', Len(stack)) = f
        /\ \A d \in 1..(Len(stack) - 1) : At(stack', d) = At(stack, d)
    BY DEF Replaced
  <1>4. \A d \in 1..Len(stack) : At(stack', d).block = At(stack, d).block
    BY <1>1, <1>2, <1>3
  <1>5. Linked(stack')
    BY <1>1, <1>2, <1>3, <1>4 DEF Linked
  <1>6. SafeBehind(stack')
    BY <1>1, <1>2, <1>3 DEF SafeBehind
  <1>7. QED
    BY <1>5, <1>6

LEMMA GrownLinks ==
  ASSUME TypeInv, stack # <<>>, Linked(stack), SafeBehind(stack),
         NEW f, NEW b, Grown(f, Frame(b)), f.block = Top.block, SafeSuccessors(f, f.next - 2),
         Link(f, b)
  PROVE  /\ Linked(stack') /\ SafeBehind(stack')
         /\ SafeSuccessors(stack'[1], stack'[1].next - 1)
  <1>1. Len(stack) \in Nat \ {0} /\ Len(stack') = Len(stack) + 1 /\ At(stack, Len(stack)) = Top
    BY TopFrame DEF Grown
  <1>2. \A d \in 1..(Len(stack) + 1) :
          /\ d = Len(stack) + 1 \/ d = Len(stack) \/ d \in 1..(Len(stack) - 1)
          /\ d # 1 /\ d # Len(stack) + 1 => d - 1 \in 1..(Len(stack) - 1)
    BY <1>1
  <1>3. /\ At(stack', Len(stack)) = f /\ At(stack', Len(stack) + 1) = Frame(b)
        /\ stack'[1] = Frame(b)
        /\ \A d \in 1..(Len(stack) - 1) : At(stack', d) = At(stack, d)
    BY DEF Grown
  <1>4. Frame(b).block = b /\ Frame(b).next = 1
    BY DEF Frame
  <1>5. \A d \in 1..Len(stack) : At(stack', d).block = At(stack, d).block
    <2>1. \A d \in 1..Len(stack) : d = Len(stack) \/ d \in 1..(Len(stack) - 1)
      BY <1>1
    <2>2. QED
      BY <1>1, <1>3, <2>1
  <1>6. ASSUME NEW d \in 1..Len(stack')
        PROVE  IF d = 1 THEN At(stack', d).block \in Bodies(prog, prog.main)
               ELSE Link(At(stack', d - 1), At(stack', d).block)
    <2>1. CASE d = Len(stack) + 1
      <3>1. d # 1 /\ d - 1 = Len(stack)
        BY <1>1, <2>1
      <3>2. QED
        BY <1>3, <1>4, <2>1, <3>1
    <2>2. CASE d # Len(stack) + 1
      <3>1. d \in 1..Len(stack) /\ (d # 1 => d - 1 \in 1..(Len(stack) - 1))
        BY <1>1, <1>2, <2>2
      <3>2. QED
        BY <1>3, <1>5, <3>1 DEF Linked
    <2>3. QED
      BY <2>1, <2>2
  <1>7. ASSUME NEW d \in 1..Len(stack')
        PROVE  SafeSuccessors(At(stack', d), At(stack', d).next - 2)
    <2>1. CASE d = Len(stack) + 1
      BY <1>3, <1>4, <2>1 DEF SafeSuccessors
    <2>2. CASE d = Len(stack)
      BY <1>3, <2>2
    <2>3. CASE d \in 1..(Len(stack) - 1)
      <3>1. d \in 1..Len(stack)
        BY <1>1, <2>3
      <3>2. QED
        BY <1>3, <2>3, <3>1 DEF SafeBehind
    <2>4. QED
      BY <1>1, <1>2, <2>1, <2>2, <2>3
  <1>8. SafeSuccessors(stack'[1], stack'[1].next - 1)
    BY <1>3, <1>4 DEF SafeSuccessors
  <1>9. QED
    BY <1>6, <1>7, <1>8 DEF Linked, SafeBehind

LEMMA CreatedInit ==
  ASSUME Init
  PROVE  CreatedInv
  <1>1. TypeInv
    BY InitType
  <1>2. PICK k \in Nat : k <= 1 /\ stack = [i \in 1..k |-> Frame(prog.body[CHOOSE m \in prog.main : TRUE])]
                         /\ (k = 1 => prog.main # {})
    <2>1. CASE prog.main = {}
      <3>1. Cardinality(prog.main) = 0
        BY <2>1, FS_EmptySet
      <3>2. QED
        BY <3>1 DEF Init
    <2>2. CASE \E m \in DOMAIN prog.body : prog.main = {m}
      <3>1. Cardinality(prog.main) = 1 /\ prog.main # {}
        BY <2>2, FS_Singleton
      <3>2. QED
        BY <3>1 DEF Init
    <2>3. QED
      BY <1>1, <2>1, <2>2, ProgramsAssumption DEF TypeInv, WellFormed
  <1> DEFINE F == Frame(prog.body[CHOOSE m \in prog.main : TRUE])
  <1>3. Len(stack) = k /\ \A d \in 1..k : d = 1 /\ At(stack, d) = F /\ stack[1] = F
    BY <1>2 DEF At
  <1>4. F.next = 1 /\ F.block = prog.body[CHOOSE m \in prog.main : TRUE]
    BY DEF Frame
  <1>5. k = 1 => F.block \in Bodies(prog, prog.main)
    <2>1. k = 1 => (CHOOSE m \in prog.main : TRUE) \in prog.main
      BY <1>2
    <2>2. QED
      BY <1>1, <1>4, <2>1, ProgramShape DEF Bodies
  <1> HIDE DEF F
  <1>6. \A j \in {0 - 1, 0} : SafeSuccessors(F, j)
    BY DEF SafeSuccessors
  <1>7. k # 0 => k = 1
    BY <1>2
  <1>8. Linked(stack)
    BY <1>3, <1>5, <1>7 DEF Linked
  <1>9. SafeBehind(stack)
    BY <1>3, <1>4, <1>6 DEF SafeBehind
  <1>10. stack # <<>> => SafeSuccessors(stack[1], stack[1].next - 1)
    <2>1. stack # <<>> => k = 1
      BY <1>1, <1>3, <1>7 DEF TypeInv
    <2>2. QED
      BY <1>3, <1>4, <1>6, <2>1
  <1>11. ret = "none"
    BY DEF Init
  <1>12. QED
    BY <1>8, <1>9, <1>10, <1>11 DEF CreatedInv, CreatedFor

LEMMA CreatedStep ==
  ASSUME TypeInv, CreatedInv, [Next]_vars
  PROVE  CreatedInv'
  <1>1. SUFFICES ASSUME prog' = prog, SingleCallees(prog)
                 PROVE  CreatedFor(stack', ret')
    <2>1. prog' = prog
      BY DEF Next, vars, Create, Look, EntryCall, EnterCallee, EndCall, NextSuccessor, Resume
    <2>2. CreatedFor(stack, ret)' <=> CreatedFor(stack', ret')
      BY <2>1 DEF CreatedFor, Linked, SafeBehind, Answered, SafeSuccessors, Safe, Link, AtEnd
    <2>3. QED
      BY <1>1, <2>1, <2>2 DEF CreatedInv
  <1>2. /\ Linked(stack) /\ SafeBehind(stack)
        /\ ret = "true" => Answered(stack)
        /\ ret = "none" /\ stack # <<>> => SafeSuccessors(Top, Top.next - 1)
    BY <1>1 DEF CreatedInv, CreatedFor, Top
  <1>3. ASSUME stack # <<>>, Shrunk, ret' = "false" \/ (ret' = "true" /\ Safe(Top.block))
        PROVE  CreatedFor(stack', ret')
    BY <1>1, <1>2, <1>3, ShrunkLinks, PopAnswered DEF CreatedFor
  <1>4. ASSUME stack # <<>>
        PROVE  /\ Top \in Frames /\ Top.next \in Nat \ {0}
               /\ prog.size[Top.block] \in Nat
               /\ ~AtEnd(Top) => Top.pos \in 1..prog.size[Top.block] /\ Top.next = 1
               /\ Top.calling => ~AtEnd(Top) /\ Here \in DOMAIN prog.callees
               /\ prog.succ[Top.block] \in Seq(Blocks)
               /\ SafeSuccessors(Top, Top.next - 2)
    <2>1. /\ Top \in Frames /\ At(stack, Len(stack)) = Top /\ Len(stack) \in 1..Len(stack)
      <3>1. Len(stack) \in Nat \ {0} /\ Top \in Frames /\ At(stack, Len(stack)) = Top
        BY <1>4, TopFrame
      <3>2. QED
        BY <3>1
    <2>2. /\ Top.next \in Nat \ {0} /\ Top.pos \in Nat \ {0} /\ prog.size[Top.block] \in Nat
          /\ ~AtEnd(Top) => Top.next = 1
          /\ Top.calling => ~AtEnd(Top) /\ Here \in DOMAIN prog.callees
          /\ prog.succ[Top.block] \in Seq(Blocks)
      BY <2>1, FrameShape, ProgramShape DEF Here
    <2>3. ~AtEnd(Top) => Top.pos \in 1..prog.size[Top.block]
      BY <2>2 DEF AtEnd
    <2>4. SafeSuccessors(Top, Top.next - 2)
      BY <1>2, <2>1 DEF SafeBehind
    <2>5. QED
      BY <2>1, <2>2, <2>3, <2>4
  <1>5. CASE Create
    <2>1. stack # <<>> /\ Shrunk /\ ret' = "true" /\ ~AtEnd(Top) /\ Here \in prog.creation
      BY <1>5, CreateEffect
    <2>2. Safe(Top.block)
      BY <1>4, <2>1, SafeCreation DEF Here
    <2>3. QED
      BY <1>3, <2>1, <2>2
  <1>6. CASE Look
    <2>1. /\ stack # <<>> /\ ret = "none" /\ ret' = "none" /\ ~AtEnd(Top)
      BY <1>6, LookEffect
    <2>2. PICK f : Replaced(f) /\ f.block = Top.block /\ f.next = Top.next
      BY <1>6, LookEffect
    <2>3. SafeSuccessors(f, f.next - 2) /\ SafeSuccessors(f, f.next - 1)
      BY <1>2, <1>4, <2>1, <2>2 DEF SafeSuccessors
    <2>4. Linked(stack') /\ SafeBehind(stack') /\ stack'[1] = f
      BY <1>2, <2>1, <2>2, <2>3, ReplacedLinks DEF Replaced
    <2>5. QED
      BY <2>1, <2>3, <2>4 DEF CreatedFor
  <1>7. CASE EntryCall
    BY <1>3, <1>7, EntryCallEffect
  <1>8. CASE EnterCallee
    <2>1. stack # <<>> /\ Top.calling /\ ret = "none"
      BY <1>8, EnterCalleeEffect
    <2>2. PICK f : /\ f.calling /\ f.block = Top.block /\ f.pos = Top.pos /\ f.next = Top.next
                   /\ \/ Replaced(f) /\ ret' = "false"
                      \/ \E b \in EntryBlocks(prog, Here) : Grown(f, Frame(b)) /\ ret' = "none"
      BY <1>8, EnterCalleeEffect
    <2>3. SafeSuccessors(f, f.next - 2)
      BY <1>4, <2>1, <2>2 DEF SafeSuccessors
    <2>4. CASE Replaced(f) /\ ret' = "false"
      BY <1>2, <2>1, <2>2, <2>3, <2>4, ReplacedLinks DEF CreatedFor
    <2>5. ASSUME NEW b \in EntryBlocks(prog, Here), Grown(f, Frame(b)), ret' = "none"
          PROVE  CreatedFor(stack', ret')
      <3>1. Link(f, b)
        BY <2>2, <2>5 DEF Link, Here
      <3>2. QED
        BY <1>2, <2>1, <2>2, <2>3, <2>5, <3>1, GrownLinks DEF CreatedFor
    <2>6. QED
      BY <2>2, <2>4, <2>5
  <1>9. CASE EndCall
    <2>1. stack # <<>> /\ ret = "none" /\ ret' = "none"
      BY <1>9, EndCallEffect
    <2>2. PICK f : Replaced(f) /\ f.block = Top.block /\ f.next = Top.next
      BY <1>9, EndCallEffect
    <2>3. SafeSuccessors(f, f.next - 2) /\ SafeSuccessors(f, f.next - 1)
      BY <1>2, <1>4, <2>1, <2>2 DEF SafeSuccessors
    <2>4. Linked(stack') /\ SafeBehind(stack') /\ stack'[1] = f
      BY <1>2, <2>1, <2>2, <2>3, ReplacedLinks DEF Replaced
    <2>5. QED
      BY <2>1, <2>3, <2>4 DEF CreatedFor
  <1>10. CASE NextSuccessor
    <2>1. stack # <<>> /\ AtEnd(Top) /\ ~Top.calling /\ ret = "none"
      BY <1>10, NextSuccessorEffect
    <2>2. CASE /\ Top.next = Len(prog.succ[Top.block]) + 1 /\ Shrunk
               /\ ret' = IF prog.succ[Top.block] = <<>> THEN "false" ELSE "true"
      <3>1. SafeSuccessors(Top, Len(prog.succ[Top.block]))
        <4>1. Top.next - 1 = Len(prog.succ[Top.block])
          BY <1>4, <2>1, <2>2
        <4>2. QED
          BY <1>2, <2>1, <4>1
      <3>2. prog.succ[Top.block] # <<>> => Safe(Top.block)
        <4>1. DOMAIN prog.succ[Top.block] = 1..Len(prog.succ[Top.block])
          BY <1>4, <2>1
        <4>2. QED
          BY <3>1, <4>1, SafeOnward DEF SafeSuccessors
      <3>3. QED
        BY <1>3, <2>1, <2>2, <3>2
    <2>3. ASSUME NEW f, ~f.calling, f.block = Top.block, f.pos = Top.pos, f.next = Top.next + 1,
                 \/ Replaced(f) /\ ret' = "false"
                 \/ Grown(f, Frame(prog.succ[Top.block][Top.next])) /\ ret' = "none"
          PROVE  CreatedFor(stack', ret')
      <3>1. f.next - 2 = Top.next - 1 /\ f.next - 1 = Top.next /\ f.next >= 2
        BY <1>4, <2>1, <2>3
      <3>2. SafeSuccessors(f, f.next - 2)
        BY <1>2, <2>1, <2>3, <3>1 DEF SafeSuccessors
      <3>3. CASE Replaced(f) /\ ret' = "false"
        BY <1>2, <2>1, <2>3, <3>2, <3>3, ReplacedLinks DEF CreatedFor
      <3>4. CASE Grown(f, Frame(prog.succ[Top.block][Top.next])) /\ ret' = "none"
        <4>1. Link(f, prog.succ[Top.block][Top.next])
          BY <2>1, <2>3, <3>1 DEF Link, AtEnd
        <4>2. QED
          BY <1>2, <2>1, <2>3, <3>2, <3>4, <4>1, GrownLinks DEF CreatedFor
      <3>5. QED
        BY <2>3, <3>3, <3>4
    <2>4. QED
      BY <1>10, <2>2, <2>3, NextSuccessorEffect
  <1>11. CASE Resume
    <2>1. stack # <<>>
      BY <1>11, ResumeEffect
    <2>2. CASE Top.calling /\ ret = "true" /\ Shrunk /\ ret' = ret
      <3>1. /\ prog.callees[Here] # {}
            /\ \A f \in prog.callees[Here] :
                 f \in DOMAIN prog.body \ prog.entryPoint /\ Safe(prog.body[f])
        BY <1>2, <2>1, <2>2 DEF Answered, Here, Top
      <3>2. Safe(Top.block)
        BY <1>4, <2>1, <2>2, <3>1, SafeCall DEF Here
      <3>3. QED
        BY <1>3, <2>1, <2>2, <3>2
    <2>3. CASE ret = "false" /\ Shrunk /\ ret' = ret
      BY <1>3, <2>1, <2>3
    <2>4. CASE Top.calling /\ ret' = "none" /\ stack' = stack
      <3>1. Top.next = 1
        BY <1>4, <2>1, <2>4
      <3>2. SafeSuccessors(Top, Top.next - 1)
        BY <3>1 DEF SafeSuccessors
      <3>3. QED
        BY <1>2, <2>4, <3>2 DEF CreatedFor, Top
    <2>5. CASE ~Top.calling /\ ret = "true" /\ ret' = "none" /\ stack' = stack
      <3>1. SafeSuccessors(Top, Top.next - 1)
        BY <1>2, <2>1, <2>5 DEF Answered, Top
      <3>2. QED
        BY <1>2, <2>5, <3>1 DEF CreatedFor, Top
    <2>6. QED
      BY <1>11, <2>2, <2>3, <2>4, <2>5, ResumeEffect
  <1>12. CASE UNCHANGED vars
    BY <1>1, <1>12 DEF vars, CreatedInv
  <1>13. QED
    BY <1>5, <1>6, <1>7, <1>8, <1>9, <1>10, <1>11, <1>12 DEF Next

(***************************************************************************)
(* When the helper answers that all paths create the sandbox, they do, if  *)
(* every call has one callee.                                              *)
(***************************************************************************)
THEOREM TrueIsTrue == Spec => []TrueMeansCreated
  <1>1. Init => TraceInv /\ CreatedInv
    BY TraceInit, CreatedInit
  <1>2. TraceInv /\ CreatedInv /\ [Next]_vars => TraceInv' /\ CreatedInv'
    BY TraceStep, CreatedStep DEF TraceInv
  <1>3. TraceInv /\ CreatedInv => TrueMeansCreated
    <2>1. SUFFICES ASSUME TypeInv, CreatedInv, ret = "true", SingleCallees(prog),
                          NEW f \in (IF stack = <<>> THEN prog.main
                                     ELSE IF Top.calling THEN prog.callees[Here] ELSE {})
                   PROVE  Safe(prog.body[f])
      BY DEF TraceInv, TrueMeansCreated, Safe
    <2>2. Answered(stack)
      BY <2>1 DEF CreatedInv, CreatedFor
    <2>3. CASE stack = <<>>
      BY <2>1, <2>2, <2>3, ProgramShape DEF Answered, Bodies
    <2>4. CASE stack # <<>>
      BY <2>1, <2>2, <2>4 DEF Answered, Here, Top
    <2>5. QED
      BY <2>3, <2>4
  <1>4. QED
    BY <1>1, <1>2, <1>3, PTL DEF Spec
=============================================================================
