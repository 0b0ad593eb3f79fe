------------------------ MODULE ClassHierarchyProofs ------------------------
(***************************************************************************)
(* That a virtual call gets the callees that C++ gives it, for every       *)
(* hierarchy: if the compiler has laid out virtual tables as               *)
(* TablesAssumption says.                                                  *)
(***************************************************************************)
EXTENDS ClassHierarchy, FiniteSetTheorems, SequenceTheorems, WellFoundedInduction, TLAPS

-----------------------------------------------------------------------------
(* Of a non-empty set of positions, one is the first.                      *)
LEMMA FirstPosition ==
  ASSUME NEW T \in SUBSET Nat, T # {}
  PROVE  \E x \in T : \A y \in T : x <= y
  <1> DEFINE R == {ss \in Nat \X Nat : ss[1] < ss[2]}
  <1>1. IsWellFoundedOn(R, Nat)
    BY NatLessThanWellFounded, Zenon DEF OpToRel
  <1>2. PICK x \in T : \A y \in T : ~(<<y, x>> \in R)
    <2> HIDE DEF R
    <2>1. QED
      BY <1>1, WFMin
  <1>3. ASSUME NEW y \in T PROVE x <= y
    <2>1. x \in Nat /\ y \in Nat
      OBVIOUS
    <2>2. <<y, x>> \in R <=> y < x
      BY <2>1
    <2>3. QED
      BY <1>2, <2>1, <2>2
  <1>4. QED
    BY <1>3

(***************************************************************************)
(* Chains of bases, from a class up; a chain jumps where it goes to a      *)
(* virtual base, and is straight if it does so nowhere.                    *)
(***************************************************************************)
Jumps(p, q, i) == \E b \in Bases(p, q[i]) : b.base = q[i + 1] /\ b.virtual
Chain(p, q) ==
  /\ q \in Seq(p.class) /\ q # << >>
  /\ \A i \in 1..(Len(q) - 1) : \E b \in Bases(p, q[i]) : b.base = q[i + 1]
Straight(p, q) == Chain(p, q) /\ \A i \in 1..(Len(q) - 1) : ~Jumps(p, q, i)

LEMMA ProgramsAre ==
  ASSUME NEW p \in Programs
  PROVE  /\ IsFiniteSet(p.class)
         /\ DOMAIN p.info \subseteq p.class /\ DOMAIN p.vtable \subseteq p.class
         /\ \A C \in p.class : \A b \in Bases(p, C) :
              /\ b.base \in p.class /\ b.virtual \in BOOLEAN /\ b.offset \in Int
              /\ b.virtual => b.offset < 0
              /\ \A d \in Bases(p, C) : d.base = b.base => d = b
         /\ \A X \in SUBSET p.class : X # {} =>
              \E C \in X : \A b \in Bases(p, C) : b.base \notin X
  BY HierarchyAssumption DEF HierarchyAssumption

LEMMA Prepended ==
  ASSUME NEW S, NEW C \in S, NEW s \in Seq(S)
  PROVE  /\ <<C>> \o s \in Seq(S) /\ Len(<<C>> \o s) = Len(s) + 1
         /\ (<<C>> \o s)[1] = C
         /\ \A i \in 1..Len(s) : (<<C>> \o s)[i + 1] = s[i]
         /\ s # << >> => Len(s) >= 1 /\ (<<C>> \o s)[Len(s) + 1] = s[Len(s)]
  <1>1. <<C>> \in Seq(S) /\ Len(<<C>>) = 1
    OBVIOUS
  <1>2. /\ <<C>> \o s \in Seq(S) /\ Len(<<C>> \o s) = Len(s) + 1
        /\ \A i \in 1..(Len(s) + 1) : (<<C>> \o s)[i] = IF i <= 1 THEN C ELSE s[i - 1]
    BY <1>1, ConcatProperties
  <1>3. Len(s) \in Nat /\ (s # << >> => Len(s) >= 1)
    OBVIOUS
  <1> QED
    BY <1>2, <1>3

LEMMA Parted ==
  ASSUME NEW S, NEW q \in Seq(S), q # << >>
  PROVE  /\ Tail(q) \in Seq(S) /\ Len(Tail(q)) = Len(q) - 1 /\ Len(q) \in Nat \ {0}
         /\ \A i \in 1..(Len(q) - 1) : Tail(q)[i] = q[i + 1]
         /\ q[1] \in S /\ q = <<q[1]>> \o Tail(q)
  <1>1. /\ Tail(q) \in Seq(S) /\ Len(Tail(q)) = Len(q) - 1 /\ Len(q) \in Nat \ {0}
        /\ \A i \in 1..(Len(q) - 1) : Tail(q)[i] = q[i + 1]
    BY HeadTailProperties
  <1>2. q[1] \in S
    BY <1>1
  <1>3. /\ <<q[1]>> \o Tail(q) \in Seq(S) /\ Len(<<q[1]>> \o Tail(q)) = Len(q)
        /\ (<<q[1]>> \o Tail(q))[1] = q[1]
        /\ \A i \in 1..(Len(q) - 1) : (<<q[1]>> \o Tail(q))[i + 1] = q[i + 1]
    BY <1>1, <1>2, Prepended
  <1>4. \A i \in 1..Len(q) : (<<q[1]>> \o Tail(q))[i] = q[i]
    <2>1. ASSUME NEW i \in 1..Len(q), i # 1 PROVE (<<q[1]>> \o Tail(q))[i] = q[i]
      <3>1. i - 1 \in 1..(Len(q) - 1) /\ (i - 1) + 1 = i
        BY <1>1, <2>1
      <3> QED
        BY <1>3, <3>1
    <2> QED
      BY <1>3, <2>1
  <1>5. q = <<q[1]>> \o Tail(q)
    BY <1>3, <1>4, SeqEqual
  <1> QED
    BY <1>1, <1>2, <1>5

LEMMA ChainGrows ==
  ASSUME NEW p \in Programs, NEW s, Chain(p, s), NEW C \in p.class,
         NEW b \in Bases(p, C), b.base = s[1]
  PROVE  /\ Chain(p, <<C>> \o s) /\ Len(<<C>> \o s) = Len(s) + 1 /\ (<<C>> \o s)[1] = C
         /\ (<<C>> \o s)[Len(s) + 1] = s[Len(s)]
         /\ \A i \in 1..Len(s) : (<<C>> \o s)[i + 1] = s[i]
         /\ Jumps(p, <<C>> \o s, 1) <=> b.virtual
         /\ \A i \in 1..(Len(s) - 1) : Jumps(p, <<C>> \o s, i + 1) <=> Jumps(p, s, i)
         /\ Straight(p, <<C>> \o s) <=> Straight(p, s) /\ ~b.virtual
  <1> DEFINE q == <<C>> \o s
  <1>1. /\ s \in Seq(p.class) /\ s # << >> /\ Len(s) \in Nat /\ Len(s) >= 1
        /\ q \in Seq(p.class) /\ Len(q) = Len(s) + 1 /\ q[1] = C
        /\ \A i \in 1..Len(s) : q[i + 1] = s[i]
        /\ q[Len(s) + 1] = s[Len(s)]
    <2>1. s \in Seq(p.class) /\ s # << >>
      BY DEF Chain
    <2>2. Len(s) \in Nat /\ Len(s) >= 1
      BY <2>1
    <2>3. /\ <<C>> \o s \in Seq(p.class) /\ Len(<<C>> \o s) = Len(s) + 1
          /\ (<<C>> \o s)[1] = C
          /\ \A i \in 1..Len(s) : (<<C>> \o s)[i + 1] = s[i]
      <3>1. PICK K : K = p.class
        OBVIOUS
      <3>2. C \in K /\ s \in Seq(K)
        BY <2>1, <3>1
      <3>3. /\ <<C>> \o s \in Seq(K) /\ Len(<<C>> \o s) = Len(s) + 1
            /\ (<<C>> \o s)[1] = C
            /\ \A i \in 1..Len(s) : (<<C>> \o s)[i + 1] = s[i]
        BY <3>2, Prepended
      <3> QED
        BY <3>1, <3>3
    <2>4. (<<C>> \o s)[Len(s) + 1] = s[Len(s)]
      BY <2>2, <2>3
    <2> QED
      BY <2>1, <2>2, <2>3, <2>4
  <1> HIDE DEF q
  <1>2. q[2] = s[1]
    <2>1. q[1 + 1] = s[1]
      BY <1>1
    <2> QED
      BY <2>1
  <1>3. Jumps(p, q, 1) <=> b.virtual
    <2>1. \A d \in Bases(p, C) : d.base = s[1] => d = b
      BY ProgramsAre
    <2> QED
      BY <1>1, <1>2, <2>1 DEF Jumps
  <1>4. ASSUME NEW i \in 1..(Len(s) - 1)
        PROVE  /\ q[i + 1] = s[i] /\ q[(i + 1) + 1] = s[i + 1]
               /\ Jumps(p, q, i + 1) <=> Jumps(p, s, i)
    <2>1. i \in 1..Len(s) /\ i + 1 \in 1..Len(s)
      BY <1>1
    <2>2. q[i + 1] = s[i] /\ q[(i + 1) + 1] = s[i + 1]
      BY <1>1, <2>1
    <2> QED
      BY <2>2 DEF Jumps
  <1>5. Chain(p, q)
    <2>1. ASSUME NEW i \in 1..(Len(q) - 1) PROVE \E d \in Bases(p, q[i]) : d.base = q[i + 1]
      <3>1. CASE i = 1
        BY <1>1, <1>2, <3>1
      <3>2. CASE i # 1
        <4>1. i - 1 \in 1..(Len(s) - 1) /\ (i - 1) + 1 = i
          BY <1>1, <2>1, <3>2
        <4>2. q[i] = s[i - 1] /\ q[i + 1] = s[i]
          BY <1>4, <4>1
        <4>3. \E d \in Bases(p, s[i - 1]) : d.base = s[(i - 1) + 1]
          BY <4>1 DEF Chain
        <4> QED
          BY <4>1, <4>2, <4>3
      <3> QED
        BY <3>1, <3>2
    <2>2. q # << >>
      BY <1>1
    <2> QED
      BY <1>1, <2>1, <2>2 DEF Chain
  <1>6. Straight(p, q) <=> Straight(p, s) /\ ~b.virtual
    <2>1. ASSUME Straight(p, q) PROVE Straight(p, s) /\ ~b.virtual
      <3>1. 1 \in 1..(Len(q) - 1) /\ \A i \in 1..(Len(s) - 1) : i + 1 \in 1..(Len(q) - 1)
        BY <1>1
      <3> QED
        BY <1>3, <1>4, <2>1, <3>1 DEF Straight
    <2>2. ASSUME Straight(p, s), ~b.virtual PROVE Straight(p, q)
      <3>1. ASSUME NEW i \in 1..(Len(q) - 1), i # 1 PROVE ~Jumps(p, q, i)
        <4>1. i - 1 \in 1..(Len(s) - 1) /\ (i - 1) + 1 = i
          BY <1>1, <3>1
        <4> QED
          BY <1>4, <2>2, <4>1 DEF Straight
      <3> QED
        BY <1>3, <1>5, <2>2, <3>1 DEF Straight
    <2> QED
      BY <2>1, <2>2
  <1> QED
    BY <1>1, <1>3, <1>4, <1>5, <1>6 DEF q

LEMMA ChainShrinks ==
  ASSUME NEW p \in Programs, NEW q, Chain(p, q), Len(q) # 1
  PROVE  /\ Chain(p, Tail(q)) /\ q[1] \in p.class /\ q = <<q[1]>> \o Tail(q)
         /\ Len(Tail(q)) = Len(q) - 1 /\ Len(q) \in Nat /\ Len(q) >= 2
         /\ \E b \in Bases(p, q[1]) : b.base = Tail(q)[1]
  <1>1. /\ q \in Seq(p.class) /\ q # << >>
        /\ Tail(q) \in Seq(p.class) /\ Len(Tail(q)) = Len(q) - 1 /\ Len(q) \in Nat \ {0}
        /\ \A i \in 1..(Len(q) - 1) : Tail(q)[i] = q[i + 1]
        /\ q[1] \in p.class /\ q = <<q[1]>> \o Tail(q)
    BY Parted DEF Chain
  <1>2. Len(q) >= 2 /\ Tail(q) # << >>
    BY <1>1
  <1>3. 1 \in 1..(Len(q) - 1)
    BY <1>1, <1>2
  <1>4. \E b \in Bases(p, q[1]) : b.base = Tail(q)[1]
    BY <1>1, <1>3 DEF Chain
  <1>5. ASSUME NEW i \in 1..(Len(Tail(q)) - 1)
        PROVE  \E b \in Bases(p, Tail(q)[i]) : b.base = Tail(q)[i + 1]
    <2>1. i \in 1..(Len(q) - 1) /\ i + 1 \in 1..(Len(q) - 1)
      BY <1>1
    <2> QED
      BY <1>1, <2>1 DEF Chain
  <1> QED
    BY <1>1, <1>2, <1>4, <1>5 DEF Chain

LEMMA OneElement ==
  ASSUME NEW S, NEW C \in S
  PROVE  <<C>> \in Seq(S) /\ Len(<<C>>) = 1
  OBVIOUS

LEMMA Single ==
  ASSUME NEW p, NEW C \in p.class
  PROVE  Straight(p, <<C>>) /\ Len(<<C>>) = 1 /\ <<C>>[1] = C
  <1>1. <<C>> \in Seq(p.class) /\ Len(<<C>>) = 1 /\ <<C>> # << >>
    <2>1. <<C>> \in Seq(p.class) /\ Len(<<C>>) = 1
      BY OneElement
    <2>2. Len(<< >>) = 0
      OBVIOUS
    <2> QED
      BY <2>1, <2>2
  <1>2. 1..(Len(<<C>>) - 1) = {}
    BY <1>1
  <1> QED
    BY <1>1, <1>2 DEF Straight, Chain

(* Where a chain has one class, it is that one's.                          *)
LEMMA OfOne ==
  ASSUME NEW p, NEW q, Chain(p, q), Len(q) = 1
  PROVE  q = <<q[1]>> /\ q[1] \in p.class
  <1>1. q \in Seq(p.class) /\ q[1] \in p.class
    BY DEF Chain
  <1>2. <<q[1]>> \in Seq(p.class) /\ Len(<<q[1]>>) = 1
    BY <1>1
  <1> QED
    BY <1>1, <1>2, SeqEqual

(***************************************************************************)
(* The subobjects of a class that no virtual base leads to are its         *)
(* straight chains, and its virtual bases are what chains jump to.  Both   *)
(* are recursive functions: a class for which they were something else     *)
(* would derive from another one.                                          *)
(***************************************************************************)
StraightFrom(p, C) == {q \in Seq(p.class) : Straight(p, q) /\ q[1] = C}
JumpedTo(p, C) ==
  {V \in p.class : \E q : /\ Chain(p, q) /\ Len(q) >= 2 /\ q[1] = C
                         /\ q[Len(q)] = V /\ Jumps(p, q, Len(q) - 1)}

PathsOf(p, P) ==
  P = [C \in p.class |->
        {<<C>>} \cup UNION {{<<C>> \o s : s \in P[b.base]} : b \in {d \in Bases(p, C) : ~d.virtual}}]
BasesOf(p, V) ==
  V = [C \in p.class |->
        UNION {V[b.base] \cup (IF b.virtual THEN {b.base} ELSE {}) : b \in Bases(p, C)}]

LEMMA StraightAre ==
  ASSUME NEW p \in Programs, NEW C \in p.class
  PROVE  StraightFrom(p, C) =
           {<<C>>} \cup UNION {{<<C>> \o s : s \in StraightFrom(p, b.base)} : b \in {d \in Bases(p, C) : ~d.virtual}}
  <1> DEFINE R == UNION {{<<C>> \o s : s \in StraightFrom(p, b.base)} : b \in {d \in Bases(p, C) : ~d.virtual}}
  <1>1. ASSUME NEW q \in StraightFrom(p, C) PROVE q \in {<<C>>} \cup R
    <2>1. Chain(p, q) /\ Straight(p, q) /\ q[1] = C /\ q \in Seq(p.class)
      BY <1>1 DEF StraightFrom, Straight
    <2>2. CASE Len(q) = 1
      BY <2>1, <2>2, OfOne
    <2>3. CASE Len(q) # 1
      <3>1. /\ Chain(p, Tail(q)) /\ q = <<C>> \o Tail(q)
            /\ \E b \in Bases(p, C) : b.base = Tail(q)[1]
        BY <2>1, <2>3, ChainShrinks
      <3>2. PICK b \in Bases(p, C) : b.base = Tail(q)[1]
        BY <3>1
      <3>3. Straight(p, Tail(q)) /\ ~b.virtual
        <4>1. Straight(p, <<C>> \o Tail(q)) <=> Straight(p, Tail(q)) /\ ~b.virtual
          BY <3>1, <3>2, ChainGrows
        <4> QED
          BY <2>1, <3>1, <4>1
      <3>4. Tail(q) \in StraightFrom(p, b.base)
        BY <3>1, <3>2, <3>3 DEF StraightFrom, Chain
      <3>5. q \in {<<C>> \o s : s \in StraightFrom(p, b.base)}
        BY <3>1, <3>4
      <3> QED
        BY <3>3, <3>5
    <2> QED
      BY <2>2, <2>3
  <1>2. <<C>> \in StraightFrom(p, C)
    BY Single DEF StraightFrom, Straight, Chain
  <1>3. ASSUME NEW b \in Bases(p, C), ~b.virtual, NEW s \in StraightFrom(p, b.base)
        PROVE  <<C>> \o s \in StraightFrom(p, C)
    <2>1. Chain(p, s) /\ Straight(p, s) /\ s[1] = b.base
      BY <1>3 DEF StraightFrom, Straight
    <2>2. /\ Chain(p, <<C>> \o s) /\ (<<C>> \o s)[1] = C
          /\ Straight(p, <<C>> \o s) <=> Straight(p, s) /\ ~b.virtual
      BY <2>1, ChainGrows
    <2> QED
      BY <1>3, <2>1, <2>2 DEF StraightFrom, Chain
  <1>4. R \subseteq StraightFrom(p, C)
    <2>1. ASSUME NEW q \in R PROVE q \in StraightFrom(p, C)
      <3>1. PICK b \in {d \in Bases(p, C) : ~d.virtual} : q \in {<<C>> \o s : s \in StraightFrom(p, b.base)}
        BY <2>1
      <3>2. PICK s \in StraightFrom(p, b.base) : q = <<C>> \o s
        BY <3>1
      <3> QED
        BY <1>3, <3>1, <3>2
    <2> HIDE DEF R
    <2> QED
      BY <2>1
  <1> QED
    BY <1>1, <1>2, <1>4

LEMMA JumpedAre ==
  ASSUME NEW p \in Programs, NEW C \in p.class
  PROVE  JumpedTo(p, C) =
           UNION {JumpedTo(p, b.base) \cup (IF b.virtual THEN {b.base} ELSE {}) : b \in Bases(p, C)}
  <1>1. ASSUME NEW V \in JumpedTo(p, C)
        PROVE  \E b \in Bases(p, C) : V \in JumpedTo(p, b.base) \/ (b.virtual /\ V = b.base)
    <2>1. PICK q : /\ Chain(p, q) /\ Len(q) >= 2 /\ q[1] = C
                   /\ q[Len(q)] = V /\ Jumps(p, q, Len(q) - 1)
      BY <1>1 DEF JumpedTo
    <2>2. Len(q) # 1
      BY <2>1
    <2> DEFINE s == Tail(q)
    <2>3. /\ Chain(p, s) /\ q = <<C>> \o s /\ Len(s) = Len(q) - 1 /\ Len(q) \in Nat
          /\ \E b \in Bases(p, C) : b.base = s[1]
      BY <2>1, <2>2, ChainShrinks
    <2> HIDE DEF s
    <2>4. PICK b \in Bases(p, C) : b.base = s[1]
      BY <2>3
    <2>5. /\ q[Len(s) + 1] = s[Len(s)] /\ (Jumps(p, q, 1) <=> b.virtual)
          /\ \A i \in 1..(Len(s) - 1) : Jumps(p, q, i + 1) <=> Jumps(p, s, i)
      BY <2>3, <2>4, ChainGrows
    <2>6. s[Len(s)] = V /\ V \in p.class
      BY <1>1, <2>1, <2>3, <2>5 DEF JumpedTo
    <2>7. CASE Len(s) = 1
      BY <2>1, <2>3, <2>4, <2>5, <2>6, <2>7
    <2>8. CASE Len(s) # 1
      <3>1. Len(s) - 1 \in 1..(Len(s) - 1) /\ (Len(s) - 1) + 1 = Len(q) - 1 /\ Len(s) >= 2
        <4>1. Len(s) >= 1 /\ Len(s) \in Nat /\ Len(q) = Len(s) + 1
          BY <2>1, <2>3
        <4>2. \A n \in Nat : n >= 1 /\ n # 1 =>
                n - 1 \in 1..(n - 1) /\ (n - 1) + 1 = (n + 1) - 1 /\ n >= 2
          OBVIOUS
        <4> QED
          BY <2>8, <4>1, <4>2
      <3>2. Jumps(p, s, Len(s) - 1)
        BY <2>1, <2>5, <3>1
      <3> QED
        BY <2>3, <2>4, <2>6, <3>1, <3>2 DEF JumpedTo
    <2> QED
      BY <2>7, <2>8
  <1>2. ASSUME NEW b \in Bases(p, C), b.virtual PROVE b.base \in JumpedTo(p, C)
    <2> DEFINE s == <<b.base>>
    <2>1. b.base \in p.class
      BY ProgramsAre
    <2>2. Chain(p, s) /\ Len(s) = 1 /\ s[1] = b.base
      BY <2>1, Single DEF Straight
    <2> HIDE DEF s
    <2>3. /\ Chain(p, <<C>> \o s) /\ Len(<<C>> \o s) = 2 /\ (<<C>> \o s)[1] = C
          /\ (<<C>> \o s)[2] = b.base /\ Jumps(p, <<C>> \o s, 1)
      <3>1. /\ Chain(p, <<C>> \o s) /\ Len(<<C>> \o s) = Len(s) + 1 /\ (<<C>> \o s)[1] = C
            /\ (<<C>> \o s)[Len(s) + 1] = s[Len(s)]
            /\ Jumps(p, <<C>> \o s, 1) <=> b.virtual
        BY <2>2, ChainGrows
      <3> QED
        BY <1>2, <2>2, <3>1
    <2>4. Len(<<C>> \o s) - 1 = 1 /\ Len(<<C>> \o s) >= 2
      BY <2>3
    <2> QED
      BY <2>1, <2>3, <2>4 DEF JumpedTo
  <1>3. ASSUME NEW b \in Bases(p, C), NEW V \in JumpedTo(p, b.base) PROVE V \in JumpedTo(p, C)
    <2>1. PICK s : /\ Chain(p, s) /\ Len(s) >= 2 /\ s[1] = b.base
                   /\ s[Len(s)] = V /\ Jumps(p, s, Len(s) - 1)
      BY <1>3 DEF JumpedTo
    <2>2. /\ Chain(p, <<C>> \o s) /\ Len(<<C>> \o s) = Len(s) + 1 /\ (<<C>> \o s)[1] = C
          /\ (<<C>> \o s)[Len(s) + 1] = s[Len(s)]
          /\ \A i \in 1..(Len(s) - 1) : Jumps(p, <<C>> \o s, i + 1) <=> Jumps(p, s, i)
      BY <2>1, ChainGrows
    <2>3. Len(s) \in Nat
      BY <2>1 DEF Chain
    <2>4. Len(s) - 1 \in 1..(Len(s) - 1) /\ (Len(s) - 1) + 1 = (Len(s) + 1) - 1
      BY <2>1, <2>3
    <2>5. Jumps(p, <<C>> \o s, (Len(s) + 1) - 1)
      BY <2>1, <2>2, <2>4
    <2>6. V \in p.class
      BY <1>3 DEF JumpedTo
    <2>7. Len(s) + 1 >= 2
      BY <2>1, <2>3
    <2> QED
      BY <2>1, <2>2, <2>5, <2>6, <2>7 DEF JumpedTo
  <1> QED
    BY <1>1, <1>2, <1>3

LEMMA PathsAreStraight ==
  ASSUME NEW p \in Programs, NEW C \in p.class
  PROVE  Paths(p)[C] = StraightFrom(p, C)
  <1> DEFINE S == [D \in p.class |-> StraightFrom(p, D)]
  <1>1. PathsOf(p, S)
    <2>1. ASSUME NEW D \in p.class
          PROVE  StraightFrom(p, D) =
                   {<<D>>} \cup UNION {{<<D>> \o s : s \in S[b.base]} : b \in {d \in Bases(p, D) : ~d.virtual}}
      <3>1. \A b \in Bases(p, D) : S[b.base] = StraightFrom(p, b.base)
        BY ProgramsAre
      <3> HIDE DEF S
      <3>2. UNION {{<<D>> \o s : s \in S[b.base]} : b \in {d \in Bases(p, D) : ~d.virtual}} =
              UNION {{<<D>> \o s : s \in StraightFrom(p, b.base)} : b \in {d \in Bases(p, D) : ~d.virtual}}
        BY <3>1
      <3> QED
        BY <3>2, StraightAre
    <2>2. S = [D \in p.class |->
                {<<D>>} \cup UNION {{<<D>> \o s : s \in S[b.base]} : b \in {d \in Bases(p, D) : ~d.virtual}}]
      BY <2>1
    <2> HIDE DEF S
    <2> QED
      BY <2>2 DEF PathsOf
  <1>2. PICK P : P = Paths(p) /\ PathsOf(p, P)
    <2>1. \E P : PathsOf(p, P)
      BY <1>1
    <2> QED
      BY <2>1 DEF Paths, PathsOf
  <1> HIDE DEF S
  <1>3. \A D \in p.class :
          P[D] = {<<D>>} \cup UNION {{<<D>> \o s : s \in P[b.base]} : b \in {d \in Bases(p, D) : ~d.virtual}}
    BY <1>2 DEF PathsOf
  <1> DEFINE Bad == {D \in p.class : P[D] # StraightFrom(p, D)}
  <1>4. SUFFICES ASSUME Bad # {} PROVE FALSE
    BY <1>2
  <1>5. PICK D \in Bad : \A b \in Bases(p, D) : b.base \notin Bad
    BY <1>4, ProgramsAre
  <1>6. \A b \in Bases(p, D) : P[b.base] = StraightFrom(p, b.base)
    BY <1>5, ProgramsAre
  <1>7. UNION {{<<D>> \o s : s \in P[b.base]} : b \in {d \in Bases(p, D) : ~d.virtual}} =
          UNION {{<<D>> \o s : s \in StraightFrom(p, b.base)} : b \in {d \in Bases(p, D) : ~d.virtual}}
    BY <1>6
  <1>8. P[D] = StraightFrom(p, D)
    BY <1>3, <1>7, StraightAre
  <1> QED
    BY <1>8

LEMMA VirtualBasesAreJumpedTo ==
  ASSUME NEW p \in Programs, NEW C \in p.class
  PROVE  VirtualBases(p)[C] = JumpedTo(p, C)
  <1> DEFINE S == [D \in p.class |-> JumpedTo(p, D)]
  <1>1. BasesOf(p, S)
    <2>1. ASSUME NEW D \in p.class
          PROVE  JumpedTo(p, D) =
                   UNION {S[b.base] \cup (IF b.virtual THEN {b.base} ELSE {}) : b \in Bases(p, D)}
      <3>1. \A b \in Bases(p, D) : S[b.base] = JumpedTo(p, b.base)
        BY ProgramsAre
      <3> HIDE DEF S
      <3>2. UNION {S[b.base] \cup (IF b.virtual THEN {b.base} ELSE {}) : b \in Bases(p, D)} =
              UNION {JumpedTo(p, b.base) \cup (IF b.virtual THEN {b.base} ELSE {}) : b \in Bases(p, D)}
        BY <3>1
      <3> QED
        BY <3>2, JumpedAre
    <2>2. S = [D \in p.class |->
                UNION {S[b.base] \cup (IF b.virtual THEN {b.base} ELSE {}) : b \in Bases(p, D)}]
      BY <2>1
    <2> HIDE DEF S
    <2> QED
      BY <2>2 DEF BasesOf
  <1>2. PICK V : V = VirtualBases(p) /\ BasesOf(p, V)
    <2>1. \E V : BasesOf(p, V)
      BY <1>1
    <2> QED
      BY <2>1 DEF VirtualBases, BasesOf
  <1> HIDE DEF S
  <1>3. \A D \in p.class :
          V[D] = UNION {V[b.base] \cup (IF b.virtual THEN {b.base} ELSE {}) : b \in Bases(p, D)}
    BY <1>2 DEF BasesOf
  <1> DEFINE Bad == {D \in p.class : V[D] # JumpedTo(p, D)}
  <1>4. SUFFICES ASSUME Bad # {} PROVE FALSE
    BY <1>2
  <1>5. PICK D \in Bad : \A b \in Bases(p, D) : b.base \notin Bad
    BY <1>4, ProgramsAre
  <1>6. \A b \in Bases(p, D) : V[b.base] = JumpedTo(p, b.base)
    BY <1>5, ProgramsAre
  <1>7. UNION {V[b.base] \cup (IF b.virtual THEN {b.base} ELSE {}) : b \in Bases(p, D)} =
          UNION {JumpedTo(p, b.base) \cup (IF b.virtual THEN {b.base} ELSE {}) : b \in Bases(p, D)}
    BY <1>6
  <1>8. V[D] = JumpedTo(p, D)
    BY <1>3, <1>7, JumpedAre
  <1> QED
    BY <1>8

-----------------------------------------------------------------------------
(* Parts of chains, and chains put together.                               *)
LEMMA SubChain ==
  ASSUME NEW p, NEW q, Chain(p, q), NEW m \in 1..Len(q), NEW n \in m..Len(q)
  PROVE  /\ Chain(p, SubSeq(q, m, n)) /\ Len(SubSeq(q, m, n)) = n - m + 1
         /\ \A i \in 1..(n - m + 1) : SubSeq(q, m, n)[i] = q[m + i - 1]
         /\ SubSeq(q, m, n)[1] = q[m] /\ SubSeq(q, m, n)[n - m + 1] = q[n]
         /\ \A i \in 1..(n - m) : Jumps(p, SubSeq(q, m, n), i) <=> Jumps(p, q, m + i - 1)
  <1>1. q \in Seq(p.class) /\ Len(q) \in Nat
    BY DEF Chain
  <1>2. \A i \in m..n : q[i] \in p.class
    <2>1. \A i \in 1..Len(q) : q[i] \in p.class
      BY <1>1
    <2> QED
      BY <1>1, <2>1
  <1> DEFINE r == SubSeq(q, m, n)
  <1>3. /\ r \in Seq(p.class) /\ Len(r) = n - m + 1
        /\ \A i \in 1..(n - m + 1) : r[i] = q[m + i - 1]
    <2>1. /\ r \in Seq(p.class) /\ Len(r) = (IF m <= n THEN n - m + 1 ELSE 0)
          /\ \A i \in 1..(n - m + 1) : r[i] = q[m + i - 1]
      <3>1. PICK K : K = p.class
        OBVIOUS
      <3>2. m \in Int /\ n \in Int /\ \A i \in m..n : q[i] \in K
        BY <1>1, <1>2, <3>1
      <3>3. /\ r \in Seq(K) /\ Len(r) = (IF m <= n THEN n - m + 1 ELSE 0)
            /\ \A i \in 1..(n - m + 1) : r[i] = q[m + i - 1]
        BY <3>2, SubSeqProperties
      <3> QED
        BY <3>1, <3>3
    <2> QED
      BY <1>1, <2>1
  <1> HIDE DEF r
  <1>4. r[1] = q[m] /\ r[n - m + 1] = q[n]
    <2>1. 1 \in 1..(n - m + 1) /\ n - m + 1 \in 1..(n - m + 1) /\ m + 1 - 1 = m /\ m + (n - m + 1) - 1 = n
      BY <1>1
    <2>2. r[1] = q[m + 1 - 1] /\ r[n - m + 1] = q[m + (n - m + 1) - 1]
      BY <1>3, <2>1
    <2> QED
      BY <2>1, <2>2
  <1>5. ASSUME NEW i \in 1..(n - m)
        PROVE  /\ r[i] = q[m + i - 1] /\ r[i + 1] = q[(m + i - 1) + 1]
               /\ m + i - 1 \in 1..(Len(q) - 1)
    <2>1. i \in 1..(n - m + 1) /\ i + 1 \in 1..(n - m + 1) /\ m + (i + 1) - 1 = (m + i - 1) + 1
      BY <1>1
    <2>2. m + i - 1 \in 1..(Len(q) - 1)
      BY <1>1
    <2>3. r[i + 1] = q[m + (i + 1) - 1]
      BY <1>3, <2>1
    <2> QED
      BY <1>3, <2>1, <2>2, <2>3
  <1>6. \A i \in 1..(n - m) : Jumps(p, r, i) <=> Jumps(p, q, m + i - 1)
    BY <1>5 DEF Jumps
  <1>7. Chain(p, r)
    <2>1. Len(r) - 1 = n - m /\ Len(r) # 0
      BY <1>1, <1>3
    <2>2. r # << >>
      BY <2>1
    <2>3. ASSUME NEW i \in 1..(Len(r) - 1) PROVE \E b \in Bases(p, r[i]) : b.base = r[i + 1]
      BY <1>5, <2>1, <2>3 DEF Chain
    <2> QED
      BY <1>3, <2>2, <2>3 DEF Chain
  <1> QED
    BY <1>3, <1>4, <1>6, <1>7 DEF r

LEMMA Joined ==
  ASSUME NEW p, NEW x, Chain(p, x), NEW t, Chain(p, t), x[Len(x)] = t[1]
  PROVE  \E q :
           /\ Chain(p, q) /\ Len(q) = Len(x) + Len(t) - 1
           /\ q[1] = x[1] /\ q[Len(q)] = t[Len(t)]
           /\ \A i \in 1..Len(x) : q[i] = x[i]
           /\ \A i \in 1..Len(t) : q[Len(x) - 1 + i] = t[i]
           /\ \A i \in 1..(Len(x) - 1) : Jumps(p, q, i) <=> Jumps(p, x, i)
           /\ \A i \in 1..(Len(t) - 1) : Jumps(p, q, Len(x) - 1 + i) <=> Jumps(p, t, i)
  <1> DEFINE m == Len(x)
             n == Len(t)
             q == [i \in 1..(m + n - 1) |-> IF i <= m THEN x[i] ELSE t[i - m + 1]]
  <1>1. /\ x \in Seq(p.class) /\ t \in Seq(p.class) /\ m \in Nat /\ n \in Nat /\ m >= 1 /\ n >= 1
        /\ \A i \in 1..m : x[i] \in p.class
        /\ \A i \in 1..n : t[i] \in p.class
    <2>1. x \in Seq(p.class) /\ t \in Seq(p.class) /\ x # << >> /\ t # << >>
      BY DEF Chain
    <2> QED
      BY <2>1
  <1>2. q \in Seq(p.class) /\ Len(q) = m + n - 1
    <2>1. m + n - 1 \in Nat
      BY <1>1
    <2>2. ASSUME NEW i \in 1..(m + n - 1) PROVE q[i] \in p.class
      <3>1. CASE i <= m
        BY <1>1, <2>2, <3>1
      <3>2. CASE ~(i <= m)
        <4>1. i - m + 1 \in 1..n
          BY <1>1, <2>2, <3>2
        <4> QED
          BY <1>1, <3>2, <4>1
      <3> QED
        BY <3>1, <3>2
    <2>3. q \in [1..(m + n - 1) -> p.class]
      BY <2>2
    <2> HIDE DEF q, m, n
    <2> QED
      BY <2>1, <2>3
  <1>3. \A i \in 1..m : q[i] = x[i]
    BY <1>1
  <1>4. ASSUME NEW i \in 1..n PROVE q[m - 1 + i] = t[i] /\ m - 1 + i \in 1..(m + n - 1)
    <2>1. m - 1 + i \in 1..(m + n - 1)
      BY <1>1
    <2>2. CASE i = 1
      <3>1. m - 1 + i = m /\ m \in 1..m
        BY <1>1, <2>2
      <3> HIDE DEF q
      <3> QED
        BY <1>3, <2>1, <2>2, <3>1
    <2>3. CASE i # 1
      <3>1. ~(m - 1 + i <= m) /\ (m - 1 + i) - m + 1 = i
        BY <1>1, <2>3
      <3> QED
        BY <2>1, <3>1
    <2> QED
      BY <2>2, <2>3
  <1> HIDE DEF q
  <1>5. ASSUME NEW i \in 1..(m - 1) PROVE q[i] = x[i] /\ q[i + 1] = x[i + 1]
    <2>1. i \in 1..m /\ i + 1 \in 1..m
      BY <1>1
    <2> QED
      BY <1>3, <2>1
  <1>6. ASSUME NEW i \in 1..(n - 1) PROVE q[m - 1 + i] = t[i] /\ q[(m - 1 + i) + 1] = t[i + 1]
    <2>1. i \in 1..n /\ i + 1 \in 1..n /\ m - 1 + (i + 1) = (m - 1 + i) + 1
      BY <1>1
    <2>2. q[m - 1 + (i + 1)] = t[i + 1]
      BY <1>4, <2>1
    <2> QED
      BY <1>4, <2>1, <2>2
  <1>7. Chain(p, q)
    <2>1. ASSUME NEW i \in 1..(Len(q) - 1) PROVE \E b \in Bases(p, q[i]) : b.base = q[i + 1]
      <3>1. CASE i <= m - 1
        <4>1. i \in 1..(m - 1)
          BY <1>1, <3>1
        <4>2. \E b \in Bases(p, x[i]) : b.base = x[i + 1]
          BY <4>1 DEF Chain
        <4> QED
          BY <1>5, <4>1, <4>2
      <3>2. CASE ~(i <= m - 1)
        <4>1. PICK j \in 1..(n - 1) : m - 1 + j = i
          <5>1. i - m + 1 \in 1..(n - 1) /\ m - 1 + (i - m + 1) = i
            BY <1>1, <1>2, <2>1, <3>2
          <5> QED
            BY <5>1
        <4>2. \E b \in Bases(p, t[j]) : b.base = t[j + 1]
          BY DEF Chain
        <4> QED
          BY <1>6, <4>1, <4>2
      <3> QED
        BY <3>1, <3>2
    <2>2. q # << >>
      BY <1>1, <1>2
    <2> QED
      BY <1>2, <2>1, <2>2 DEF Chain
  <1>8. \A i \in 1..(m - 1) : Jumps(p, q, i) <=> Jumps(p, x, i)
    BY <1>5 DEF Jumps
  <1>9. \A i \in 1..(n - 1) : Jumps(p, q, m - 1 + i) <=> Jumps(p, t, i)
    BY <1>6 DEF Jumps
  <1>10. q[1] = x[1] /\ q[Len(q)] = t[n]
    <2>1. 1 \in 1..m /\ n \in 1..n /\ m - 1 + n = m + n - 1
      BY <1>1
    <2>2. q[m - 1 + n] = t[n]
      BY <1>4, <2>1
    <2> QED
      BY <1>2, <1>3, <2>1, <2>2
  <1> QED
    BY <1>2, <1>3, <1>4, <1>7, <1>8, <1>9, <1>10

LEMMA SubobjectsAre ==
  ASSUME NEW p \in Programs, NEW E \in p.class, NEW t
  PROVE  t \in Subobjects(p, E) <=> Straight(p, t) /\ (t[1] = E \/ t[1] \in JumpedTo(p, E))
  <1>1. \A C \in {E} \cup VirtualBases(p)[E] : C \in p.class /\ Paths(p)[C] = StraightFrom(p, C)
    BY PathsAreStraight, VirtualBasesAreJumpedTo DEF JumpedTo
  <1>2. Straight(p, t) => t \in Seq(p.class)
    BY DEF Straight, Chain
  <1>3. \A C \in p.class : t \in StraightFrom(p, C) <=> Straight(p, t) /\ t[1] = C
    BY <1>2 DEF StraightFrom
  <1> QED
    BY <1>1, <1>3, VirtualBasesAreJumpedTo DEF Subobjects

-----------------------------------------------------------------------------
(***************************************************************************)
(* What C++ says, by chains: a chain from the class of an object to the    *)
(* defining class of a call is about one subobject, the part after its     *)
(* jump.                                                                   *)
(***************************************************************************)
Defining(p, c) == p.call[c].defining.class
Static(p, c) == p.call[c].static.class
Climbs(p, c, q) == Chain(p, q) /\ q[Len(q)] = Defining(p, c)
Once(p, q) == \A i, j \in 1..(Len(q) - 1) : Jumps(p, q, i) /\ Jumps(p, q, j) => i = j
Passes(p, c, q) == \E i \in 1..Len(q) : q[i] = Static(p, c)
PartOf(p, q, t) ==
  /\ Straight(p, q) => t = q
  /\ \A k \in 1..(Len(q) - 1) : Jumps(p, q, k) => t = SubSeq(q, k + 1, Len(q))

(* The functions that calls of those in S end up in.                       *)
Targets(p, S) == {Behind(p, f) : f \in S}

Overriding(p, c, E, t) == {g \in FinalOverriders(p, E, t, p.name[c]) : p.name[c] \notin p.pure[g[1]]}

LEMMA ChainTyped ==
  ASSUME NEW p, NEW q, Chain(p, q)
  PROVE  /\ q \in Seq(p.class) /\ Len(q) \in Nat /\ Len(q) >= 1
         /\ \A i \in 1..Len(q) : q[i] \in p.class
  <1>1. q \in Seq(p.class) /\ q # << >>
    BY DEF Chain
  <1> QED
    BY <1>1

(* What comes before a jump is straight, and what comes after it.          *)
LEMMA AroundJump ==
  ASSUME NEW p \in Programs, NEW q, Chain(p, q), Once(p, q), NEW k \in 1..(Len(q) - 1), Jumps(p, q, k)
  PROVE  /\ \A m \in 1..k : \A n \in m..k : Straight(p, SubSeq(q, m, n))
         /\ \A m \in (k + 1)..Len(q) : \A n \in m..Len(q) : Straight(p, SubSeq(q, m, n))
         /\ \A m \in 1..k : q[k + 1] \in JumpedTo(p, q[m])
  <1>1. Len(q) \in Nat /\ \A i \in 1..Len(q) : q[i] \in p.class
    BY ChainTyped
  <1>2. ASSUME NEW m \in 1..Len(q), NEW n \in m..Len(q), ~(m <= k /\ k + 1 <= n)
        PROVE  Straight(p, SubSeq(q, m, n))
    <2> DEFINE r == SubSeq(q, m, n)
    <2>1. /\ Chain(p, r) /\ Len(r) = n - m + 1
          /\ \A i \in 1..(n - m) : Jumps(p, r, i) <=> Jumps(p, q, m + i - 1)
      BY SubChain
    <2> HIDE DEF r
    <2>2. ASSUME NEW i \in 1..(Len(r) - 1) PROVE ~Jumps(p, r, i)
      <3>1. i \in 1..(n - m) /\ m + i - 1 \in 1..(Len(q) - 1) /\ m + i - 1 # k
        BY <1>1, <1>2, <2>1
      <3>2. ~Jumps(p, q, m + i - 1)
        BY <3>1 DEF Once
      <3> QED
        BY <2>1, <3>1, <3>2
    <2>3. Straight(p, r)
      BY <2>1, <2>2 DEF Straight
    <2> QED
      BY <2>3 DEF r
  <1>3. ASSUME NEW m \in 1..k, NEW n \in m..k PROVE Straight(p, SubSeq(q, m, n))
    <2>1. m \in 1..Len(q) /\ n \in m..Len(q) /\ ~(m <= k /\ k + 1 <= n)
      BY <1>1, <1>3
    <2> QED
      BY <1>2, <2>1
  <1>4. ASSUME NEW m \in (k + 1)..Len(q), NEW n \in m..Len(q) PROVE Straight(p, SubSeq(q, m, n))
    <2>1. m \in 1..Len(q) /\ n \in m..Len(q) /\ ~(m <= k /\ k + 1 <= n)
      BY <1>1, <1>4
    <2> QED
      BY <1>2, <2>1
  <1>5. ASSUME NEW m \in 1..k PROVE q[k + 1] \in JumpedTo(p, q[m])
    <2>1. m \in 1..Len(q) /\ k + 1 \in m..Len(q)
      BY <1>1, <1>5
    <2> DEFINE r == SubSeq(q, m, k + 1)
               l == (k + 1) - m + 1
    <2>2. /\ Chain(p, r) /\ Len(r) = l
          /\ r[1] = q[m] /\ r[l] = q[k + 1]
          /\ \A i \in 1..((k + 1) - m) : Jumps(p, r, i) <=> Jumps(p, q, m + i - 1)
      BY <2>1, SubChain
    <2>3. l >= 2 /\ l - 1 \in 1..((k + 1) - m) /\ m + (l - 1) - 1 = k
      BY <1>1, <1>5
    <2>4. q[k + 1] \in p.class
      BY <1>1, <2>1
    <2> HIDE DEF r, l
    <2>5. Jumps(p, r, Len(r) - 1)
      BY <2>2, <2>3
    <2> QED
      BY <2>2, <2>3, <2>4, <2>5 DEF JumpedTo
  <1> QED
    BY <1>3, <1>4, <1>5

LEMMA PartExists ==
  ASSUME NEW p \in Programs, NEW q, Chain(p, q), Once(p, q)
  PROVE  \E t : PartOf(p, q, t)
  <1>1. CASE Straight(p, q)
    <2>1. PartOf(p, q, q)
      BY <1>1 DEF PartOf, Straight
    <2> QED
      BY <2>1
  <1>2. CASE ~Straight(p, q)
    <2>1. PICK k \in 1..(Len(q) - 1) : Jumps(p, q, k)
      BY <1>2 DEF Straight
    <2>2. \A j \in 1..(Len(q) - 1) : Jumps(p, q, j) => j = k
      BY <2>1 DEF Once
    <2>3. PartOf(p, q, SubSeq(q, k + 1, Len(q)))
      BY <1>2, <2>2 DEF PartOf
    <2> QED
      BY <2>3
  <1> QED
    BY <1>1, <1>2

(* It is a subobject, and of the class that the chain leads to.            *)
LEMMA PartIs ==
  ASSUME NEW p \in Programs, NEW q, Chain(p, q), Once(p, q), NEW t, PartOf(p, q, t)
  PROVE  t \in Subobjects(p, q[1]) /\ Last(t) = q[Len(q)] /\ Straight(p, t)
  <1>1. Len(q) \in Nat /\ Len(q) >= 1 /\ q[1] \in p.class
    BY ChainTyped
  <1>2. CASE Straight(p, q)
    BY <1>1, <1>2, SubobjectsAre DEF PartOf, Last
  <1>3. CASE ~Straight(p, q)
    <2>1. PICK k \in 1..(Len(q) - 1) : Jumps(p, q, k)
      BY <1>3 DEF Straight
    <2>2. t = SubSeq(q, k + 1, Len(q))
      BY <2>1 DEF PartOf
    <2>3. k + 1 \in (k + 1)..Len(q) /\ Len(q) \in (k + 1)..Len(q) /\ 1 \in 1..k /\ k + 1 \in 1..Len(q)
      BY <1>1
    <2>4. Straight(p, t) /\ q[k + 1] \in JumpedTo(p, q[1])
      BY <2>1, <2>2, <2>3, AroundJump
    <2>5. t[1] = q[k + 1] /\ Len(t) = Len(q) - (k + 1) + 1 /\ t[Len(q) - (k + 1) + 1] = q[Len(q)]
      BY <2>2, <2>3, SubChain
    <2> QED
      BY <1>1, <2>4, <2>5, SubobjectsAre DEF Last
  <1> QED
    BY <1>2, <1>3

(* A chain that passes through a class leads through a subobject of the    *)
(* class that contains the one the chain is about.                         *)
LEMMA PassedContains ==
  ASSUME NEW p \in Programs, NEW q, Chain(p, q), Once(p, q), NEW t, PartOf(p, q, t),
         NEW i \in 1..Len(q)
  PROVE  \E s \in Subobjects(p, q[1]) : Last(s) = q[i] /\ Contains(p, s, t)
  <1>1. /\ Len(q) \in Nat /\ Len(q) >= 1 /\ q[1] \in p.class /\ q \in Seq(p.class)
        /\ \A j \in 1..Len(q) : q[j] \in p.class
    BY ChainTyped
  <1>2. 1 \in 1..Len(q) /\ i \in 1..Len(q) /\ 1 <= i
    BY <1>1
  <1>3. CASE Straight(p, q)
    <2> DEFINE s == SubSeq(q, 1, i)
    <2>1. /\ Chain(p, s) /\ Len(s) = i - 1 + 1 /\ s[1] = q[1] /\ s[i - 1 + 1] = q[i]
          /\ \A j \in 1..(i - 1) : Jumps(p, s, j) <=> Jumps(p, q, 1 + j - 1)
      BY <1>2, SubChain
    <2>2. Len(s) = i /\ s[i] = q[i] /\ i <= Len(q)
      BY <1>1, <2>1
    <2>3. Straight(p, s)
      <3> HIDE DEF s
      <3>1. ASSUME NEW j \in 1..(Len(s) - 1) PROVE ~Jumps(p, s, j)
        <4>1. j \in 1..(i - 1) /\ 1 + j - 1 \in 1..(Len(q) - 1)
          BY <1>1, <2>2, <3>1
        <4> QED
          BY <1>3, <2>1, <4>1 DEF Straight
      <3> QED
        BY <2>1, <3>1 DEF Straight
    <2>4. t = q
      BY <1>3 DEF PartOf
    <2>5. Contains(p, s, t)
      <3>1. Len(s) <= Len(t) /\ SubSeq(t, 1, Len(s)) = s
        BY <2>2, <2>4
      <3> HIDE DEF s
      <3> QED
        BY <3>1 DEF Contains
    <2> HIDE DEF s
    <2>6. s \in Subobjects(p, q[1])
      BY <1>1, <2>1, <2>3, SubobjectsAre
    <2> QED
      BY <2>2, <2>5, <2>6 DEF Last
  <1>4. CASE ~Straight(p, q)
    <2>1. PICK k \in 1..(Len(q) - 1) : Jumps(p, q, k)
      BY <1>4 DEF Straight
    <2>2. t = SubSeq(q, k + 1, Len(q))
      BY <2>1 DEF PartOf
    <2>3. k + 1 \in 1..Len(q) /\ Len(q) \in (k + 1)..Len(q) /\ 1 \in 1..k
      BY <1>1
    <2>4. /\ t[1] = q[k + 1] /\ Len(t) = Len(q) - (k + 1) + 1
          /\ q[k + 1] \in JumpedTo(p, q[1])
      BY <2>1, <2>2, <2>3, SubChain, AroundJump
    <2>5. CASE i <= k
      <3> DEFINE s == SubSeq(q, 1, i)
      <3>1. i \in 1..k
        BY <1>1, <2>5
      <3>2. Straight(p, s) /\ q[k + 1] \in JumpedTo(p, q[i])
        BY <2>1, <2>3, <3>1, AroundJump
      <3>3. Chain(p, s) /\ Len(s) = i - 1 + 1 /\ s[1] = q[1] /\ s[i - 1 + 1] = q[i]
        BY <1>2, SubChain
      <3> HIDE DEF s
      <3>4. Last(s) = q[i]
        BY <3>3 DEF Last
      <3>5. s \in Subobjects(p, q[1])
        BY <1>1, <3>2, <3>3, SubobjectsAre
      <3>6. Contains(p, s, t)
        BY <1>1, <2>4, <3>2, <3>4, VirtualBasesAreJumpedTo DEF Contains
      <3> QED
        BY <3>4, <3>5, <3>6
    <2>6. CASE ~(i <= k)
      <3> DEFINE s == SubSeq(q, k + 1, i)
      <3>1. k + 1 \in (k + 1)..Len(q) /\ i \in (k + 1)..Len(q)
        BY <1>1, <2>6
      <3>2. Straight(p, s)
        BY <2>1, <3>1, AroundJump
      <3>3. /\ Chain(p, s) /\ Len(s) = i - (k + 1) + 1 /\ s[1] = q[k + 1] /\ s[i - (k + 1) + 1] = q[i]
        BY <2>3, <3>1, SubChain
      <3>4. Last(s) = q[i]
        <4> HIDE DEF s
        <4> QED
          BY <3>3 DEF Last
      <3>5. s \in Subobjects(p, q[1])
        <4> HIDE DEF s
        <4> QED
          BY <1>1, <2>4, <3>2, <3>3, SubobjectsAre
      <3>6. Len(s) <= Len(t)
        BY <1>1, <2>4, <3>3
      <3>7. SubSeq(t, 1, Len(s)) = s
        <4>1. k + 1 \in 1..Len(q) /\ Len(q) \in 1..Len(q) /\ 1 \in 1..(Len(q) - (k + 1) + 1)
              /\ Len(s) \in 1..(Len(q) - (k + 1) + 1)
              /\ (k + 1) + 1 - 1 = k + 1 /\ (k + 1) + Len(s) - 1 = i
          BY <1>1, <2>3, <2>6, <3>3
        <4>2. SubSeq(SubSeq(q, k + 1, Len(q)), 1, Len(s)) = SubSeq(q, (k + 1) + 1 - 1, (k + 1) + Len(s) - 1)
          BY <1>1, <4>1, SubSeqOfSubSeq
        <4> QED
          BY <2>2, <4>1, <4>2
      <3>8. Contains(p, s, t)
        <4> HIDE DEF s
        <4> QED
          BY <3>6, <3>7 DEF Contains
      <3> QED
        BY <3>4, <3>5, <3>8
    <2> QED
      BY <2>5, <2>6
  <1> QED
    BY <1>3, <1>4

(* What overrides a chain's subobject may be called, if the chain passes   *)
(* through the static type.                                                *)
LEMMA ChainImplements ==
  ASSUME NEW p \in Programs, NEW c, NEW q, Climbs(p, c, q), Once(p, q), NEW t, PartOf(p, q, t),
         q[1] \in DOMAIN p.vtable, Passes(p, c, q)
  PROVE  Overriding(p, c, q[1], t) \subseteq Implementations(p, c)
  <1>1. PICK i \in 1..Len(q) : q[i] = Static(p, c)
    BY DEF Passes
  <1>2. PICK s \in Subobjects(p, q[1]) : Last(s) = Static(p, c) /\ Contains(p, s, t)
    BY <1>1, PassedContains DEF Climbs
  <1>3. t \in Subobjects(p, q[1]) /\ Last(t) = Defining(p, c)
    BY PartIs DEF Climbs
  <1> QED
    BY <1>2, <1>3 DEF Implementations, Overriding, Static, Defining

(* If no chain jumps twice, all that may be called overrides such a        *)
(* subobject.                                                              *)
LEMMA ImplementationsChained ==
  ASSUME NEW p \in Programs, NEW c, \A q : Climbs(p, c, q) => Once(p, q),
         NEW g \in Implementations(p, c)
  PROVE  \E q : /\ Climbs(p, c, q) /\ q[1] \in DOMAIN p.vtable /\ Passes(p, c, q)
                /\ \A t : PartOf(p, q, t) => g \in Overriding(p, c, q[1], t)
  <1>1. PICK E \in DOMAIN p.vtable :
          \E s \in Subobjects(p, E) : \E t \in Subobjects(p, E) :
            /\ Last(s) = Static(p, c) /\ Last(t) = Defining(p, c) /\ Contains(p, s, t)
            /\ g \in Overriding(p, c, E, t)
    BY DEF Implementations, Overriding, Static, Defining
  <1>2. PICK s \in Subobjects(p, E) : \E t \in Subobjects(p, E) :
            /\ Last(s) = Static(p, c) /\ Last(t) = Defining(p, c) /\ Contains(p, s, t)
            /\ g \in Overriding(p, c, E, t)
    BY <1>1
  <1>3. PICK t \in Subobjects(p, E) :
            /\ Last(s) = Static(p, c) /\ Last(t) = Defining(p, c) /\ Contains(p, s, t)
            /\ g \in Overriding(p, c, E, t)
    BY <1>2
  <1>4. /\ E \in p.class /\ Straight(p, s) /\ Straight(p, t)
        /\ s[1] = E \/ s[1] \in JumpedTo(p, E)
        /\ t[1] = E \/ t[1] \in JumpedTo(p, E)
    BY SubobjectsAre, ProgramsAre
  <1>5. /\ Chain(p, s) /\ Chain(p, t) /\ s \in Seq(p.class) /\ t \in Seq(p.class)
        /\ Len(s) \in Nat /\ Len(s) >= 1 /\ Len(t) \in Nat /\ Len(t) >= 1
        /\ s[Len(s)] = Static(p, c) /\ t[Len(t)] = Defining(p, c)
        /\ s[Len(s)] \in p.class
    <2>1. Chain(p, s) /\ Chain(p, t)
      BY <1>4 DEF Straight
    <2>2. s[Len(s)] = Static(p, c) /\ t[Len(t)] = Defining(p, c)
      BY <1>3 DEF Last
    <2>3. Len(s) >= 1 => Len(s) \in 1..Len(s) \/ Len(s) \notin Nat
      OBVIOUS
    <2> QED
      BY <2>1, <2>2, <2>3, ChainTyped
  (* A chain that jumps to t's first class, and then is t.                 *)
  <1>6. ASSUME NEW w, Chain(p, w), Len(w) >= 2, w[1] = E, w[Len(w)] = t[1], Jumps(p, w, Len(w) - 1)
        PROVE  \E q : /\ Climbs(p, c, q) /\ q[1] = E /\ Len(q) = Len(w) + Len(t) - 1
                      /\ \A i \in 1..Len(w) : q[i] = w[i]
                      /\ \A i \in 1..Len(t) : q[Len(w) - 1 + i] = t[i]
                      /\ \A i \in 1..(Len(w) - 1) : Jumps(p, q, i) <=> Jumps(p, w, i)
                      /\ \A u : PartOf(p, q, u) => u = t
    <2>1. PICK q :
           /\ Chain(p, q) /\ Len(q) = Len(w) + Len(t) - 1
           /\ q[1] = w[1] /\ q[Len(q)] = t[Len(t)]
           /\ \A i \in 1..Len(w) : q[i] = w[i]
           /\ \A i \in 1..Len(t) : q[Len(w) - 1 + i] = t[i]
           /\ \A i \in 1..(Len(w) - 1) : Jumps(p, q, i) <=> Jumps(p, w, i)
           /\ \A i \in 1..(Len(t) - 1) : Jumps(p, q, Len(w) - 1 + i) <=> Jumps(p, t, i)
      BY <1>5, <1>6, Joined
    <2>2. Len(w) \in Nat /\ q \in Seq(p.class) /\ Len(q) \in Nat
      BY <1>6, <2>1, ChainTyped
    <2>3. /\ Len(w) - 1 \in 1..(Len(w) - 1) /\ Len(w) - 1 \in 1..(Len(q) - 1)
          /\ (Len(w) - 1) + 1 = Len(w) /\ Len(w) \in 1..Len(q) /\ Len(q) \in Len(w)..Len(q)
          /\ Len(q) - Len(w) + 1 = Len(t)
      BY <1>5, <1>6, <2>1, <2>2
    <2>4. Jumps(p, q, Len(w) - 1)
      BY <1>6, <2>1, <2>3
    <2>5. SubSeq(q, Len(w), Len(q)) = t
      <3> DEFINE r == SubSeq(q, Len(w), Len(q))
      <3>1. /\ Chain(p, r) /\ Len(r) = Len(q) - Len(w) + 1
            /\ \A i \in 1..(Len(q) - Len(w) + 1) : r[i] = q[Len(w) + i - 1]
        BY <2>1, <2>3, SubChain
      <3>2. r \in Seq(p.class) /\ Len(r) = Len(t)
        BY <2>3, <3>1, ChainTyped
      <3>3. ASSUME NEW i \in 1..Len(t) PROVE r[i] = t[i]
        <4>1. Len(w) + i - 1 = Len(w) - 1 + i /\ i \in 1..(Len(q) - Len(w) + 1)
          BY <1>5, <2>2, <2>3, <3>3
        <4>2. r[i] = q[Len(w) + i - 1] /\ q[Len(w) - 1 + i] = t[i]
          BY <2>1, <3>1, <4>1
        <4> QED
          BY <4>1, <4>2
      <3> HIDE DEF r
      <3>4. r = t
        BY <1>5, <3>2, <3>3, SeqEqual
      <3> QED
        BY <3>4 DEF r
    <2>6. \A u : PartOf(p, q, u) => u = t
      BY <2>3, <2>4, <2>5 DEF PartOf
    <2>7. Climbs(p, c, q)
      BY <1>5, <2>1 DEF Climbs
    <2> QED
      BY <1>6, <2>1, <2>6, <2>7
  <1>7. SUFFICES \E q : /\ Climbs(p, c, q) /\ q[1] = E /\ Passes(p, c, q)
                        /\ \A u : PartOf(p, q, u) => u = t
    BY <1>3
  <1>8. CASE Len(s) <= Len(t) /\ SubSeq(t, 1, Len(s)) = s
    <2>1. Len(s) \in 1..Len(t) /\ 1 \in 1..Len(t) /\ Len(s) - 1 + 1 = Len(s) /\ 1 \in 1..Len(s)
      BY <1>5, <1>8
    <2>2. t[Len(s)] = Static(p, c)
      <3>1. SubSeq(t, 1, Len(s))[Len(s) - 1 + 1] = t[Len(s)]
        BY <1>5, <2>1, SubChain
      <3> QED
        BY <1>5, <1>8, <2>1, <3>1
    <2>3. CASE t[1] = E
      <3>1. Climbs(p, c, t) /\ Passes(p, c, t)
        BY <1>5, <2>1, <2>2 DEF Climbs, Passes
      <3>2. \A u : PartOf(p, t, u) => u = t
        BY <1>4 DEF PartOf
      <3> QED
        BY <2>3, <3>1, <3>2
    <2>4. CASE t[1] \in JumpedTo(p, E)
      <3>1. PICK w : /\ Chain(p, w) /\ Len(w) >= 2 /\ w[1] = E
                     /\ w[Len(w)] = t[1] /\ Jumps(p, w, Len(w) - 1)
        BY <2>4 DEF JumpedTo
      <3>2. PICK q : /\ Climbs(p, c, q) /\ q[1] = E /\ Len(q) = Len(w) + Len(t) - 1
                     /\ \A i \in 1..Len(t) : q[Len(w) - 1 + i] = t[i]
                     /\ \A u : PartOf(p, q, u) => u = t
        BY <1>6, <3>1
      <3>3. Len(w) \in Nat
        BY <3>1, ChainTyped
      <3>4. Len(w) - 1 + Len(s) \in 1..Len(q)
        BY <1>5, <1>8, <3>1, <3>2, <3>3
      <3>5. q[Len(w) - 1 + Len(s)] = Static(p, c)
        BY <2>1, <2>2, <3>2
      <3> QED
        BY <3>2, <3>4, <3>5 DEF Passes
    <2> QED
      BY <1>4, <2>3, <2>4
  <1>9. CASE t[1] \in VirtualBases(p)[Last(s)]
    <2>1. PICK y : /\ Chain(p, y) /\ Len(y) >= 2 /\ y[1] = s[Len(s)]
                   /\ y[Len(y)] = t[1] /\ Jumps(p, y, Len(y) - 1)
      <3>1. t[1] \in JumpedTo(p, s[Len(s)])
        BY <1>5, <1>9, VirtualBasesAreJumpedTo DEF Last
      <3> QED
        BY <3>1 DEF JumpedTo
    <2>2. Len(y) \in Nat
      BY <2>1, ChainTyped
    <2>3. Len(s) \in 1..Len(s) /\ 1 \in 1..Len(y) /\ Len(y) - 1 \in 1..(Len(y) - 1)
      BY <1>5, <2>1, <2>2
    <2>4. CASE s[1] = E
      <3>1. PICK w :
             /\ Chain(p, w) /\ Len(w) = Len(s) + Len(y) - 1
             /\ w[1] = s[1] /\ w[Len(w)] = y[Len(y)]
             /\ \A i \in 1..Len(s) : w[i] = s[i]
             /\ \A i \in 1..(Len(y) - 1) : Jumps(p, w, Len(s) - 1 + i) <=> Jumps(p, y, i)
        BY <1>5, <2>1, Joined
      <3>2. Len(w) - 1 = Len(s) - 1 + (Len(y) - 1) /\ Len(w) >= 2 /\ Len(s) \in 1..Len(w) /\ Len(w) \in Nat
        BY <1>5, <2>1, <2>2, <3>1
      <3>3. Jumps(p, w, Len(w) - 1)
        BY <2>1, <2>3, <3>1, <3>2
      <3>4. PICK q : /\ Climbs(p, c, q) /\ q[1] = E /\ Len(q) = Len(w) + Len(t) - 1
                     /\ \A i \in 1..Len(w) : q[i] = w[i]
                     /\ \A u : PartOf(p, q, u) => u = t
        BY <1>6, <2>1, <2>4, <3>1, <3>2, <3>3
      <3>5. Len(s) \in 1..Len(q) /\ q[Len(s)] = Static(p, c)
        BY <1>5, <2>3, <3>1, <3>2, <3>4
      <3> QED
        BY <3>4, <3>5 DEF Passes
    <2>5. CASE s[1] \in JumpedTo(p, E)
      <3>1. PICK x : /\ Chain(p, x) /\ Len(x) >= 2 /\ x[1] = E
                     /\ x[Len(x)] = s[1] /\ Jumps(p, x, Len(x) - 1)
        BY <2>5 DEF JumpedTo
      <3>2. Len(x) \in Nat /\ Len(x) - 1 \in 1..(Len(x) - 1)
        BY <3>1, ChainTyped
      <3>3. PICK z :
             /\ Chain(p, z) /\ Len(z) = Len(x) + Len(s) - 1
             /\ z[1] = x[1] /\ z[Len(z)] = s[Len(s)]
             /\ \A i \in 1..Len(x) : z[i] = x[i]
             /\ \A i \in 1..Len(s) : z[Len(x) - 1 + i] = s[i]
             /\ \A i \in 1..(Len(x) - 1) : Jumps(p, z, i) <=> Jumps(p, x, i)
        <4>1. Chain(p, s) /\ Chain(p, x) /\ x[Len(x)] = s[1]
          BY <1>5, <3>1
        <4> QED
          BY <4>1, Joined
      <3>4. Jumps(p, z, Len(x) - 1) /\ Len(z) \in Nat /\ Len(x) - 1 \in 1..(Len(z) - 1)
        BY <1>5, <3>1, <3>2, <3>3
      <3>5. PICK w :
             /\ Chain(p, w) /\ Len(w) = Len(z) + Len(y) - 1
             /\ w[1] = z[1] /\ w[Len(w)] = y[Len(y)]
             /\ \A i \in 1..(Len(z) - 1) : Jumps(p, w, i) <=> Jumps(p, z, i)
             /\ \A i \in 1..(Len(y) - 1) : Jumps(p, w, Len(z) - 1 + i) <=> Jumps(p, y, i)
        BY <2>1, <3>3, Joined
      <3>6. Len(w) - 1 = Len(z) - 1 + (Len(y) - 1) /\ Len(w) >= 2 /\ Len(w) \in Nat
        BY <2>1, <2>2, <3>2, <3>4, <3>5
      <3>7. Jumps(p, w, Len(w) - 1) /\ Jumps(p, w, Len(x) - 1)
        BY <2>1, <2>3, <3>4, <3>5, <3>6
      <3>8. PICK q : /\ Climbs(p, c, q) /\ q[1] = E /\ Len(q) = Len(w) + Len(t) - 1
                     /\ \A i \in 1..(Len(w) - 1) : Jumps(p, q, i) <=> Jumps(p, w, i)
        <4>1. Chain(p, w) /\ Len(w) >= 2 /\ w[1] = E /\ w[Len(w)] = t[1] /\ Jumps(p, w, Len(w) - 1)
          BY <2>1, <3>1, <3>3, <3>5, <3>6, <3>7
        <4> QED
          BY <1>6, <4>1
      <3>9. /\ Len(x) - 1 \in 1..(Len(w) - 1) /\ Len(w) - 1 \in 1..(Len(w) - 1)
            /\ Len(x) - 1 \in 1..(Len(q) - 1) /\ Len(w) - 1 \in 1..(Len(q) - 1)
            /\ Len(x) - 1 # Len(w) - 1
        <4>1. \A a, b, d, e, f, h \in Nat :
                 /\ a >= 2 /\ b >= 1 /\ d >= 2 /\ h >= 1
                 /\ e = a + b - 1 /\ f = e + d - 1
                 => /\ a - 1 \in 1..(f - 1) /\ f - 1 \in 1..(f - 1) /\ a - 1 # f - 1
                    /\ a - 1 \in 1..(f + h - 1 - 1) /\ f - 1 \in 1..(f + h - 1 - 1)
          OBVIOUS
        <4>2. /\ Len(x) \in Nat /\ Len(s) \in Nat /\ Len(y) \in Nat /\ Len(z) \in Nat /\ Len(w) \in Nat
              /\ Len(t) \in Nat /\ Len(t) >= 1 /\ Len(x) >= 2 /\ Len(s) >= 1 /\ Len(y) >= 2
              /\ Len(z) = Len(x) + Len(s) - 1 /\ Len(w) = Len(z) + Len(y) - 1
          BY <1>5, <2>1, <2>2, <3>1, <3>2, <3>3, <3>4, <3>5, <3>6
        <4> QED
          BY <3>8, <4>1, <4>2
      <3>10. Jumps(p, q, Len(x) - 1) /\ Jumps(p, q, Len(w) - 1)
        BY <3>7, <3>8, <3>9
      <3>11. ~Once(p, q)
        BY <3>9, <3>10 DEF Once
      <3> QED
        BY <3>8, <3>11
    <2> QED
      BY <1>4, <2>4, <2>5
  <1> QED
    BY <1>3, <1>8, <1>9 DEF Contains

-----------------------------------------------------------------------------
(***************************************************************************)
(* The tables, as far as classes have been processed.                      *)
(***************************************************************************)
TablesInv ==
  /\ classes \subseteq prog.class
  /\ subclasses = [C \in prog.class |-> {D \in classes : \E b \in Bases(prog, D) : b.base = C}]
  /\ \A e \in DOMAIN vbaseOffset \cup DOMAIN baseOffset : e \in prog.class \X prog.class
  /\ \A D \in prog.class, C \in prog.class :
       /\ <<D, C>> \in DOMAIN vbaseOffset <=> D \in classes /\ \E b \in Bases(prog, D) : b.base = C /\ b.virtual
       /\ <<D, C>> \in DOMAIN baseOffset <=> D \in classes /\ \E b \in Bases(prog, D) : b.base = C /\ ~b.virtual
  /\ \A D \in classes : \A b \in Bases(prog, D) :
       IF b.virtual THEN vbaseOffset[<<D, b.base>>] = b.offset ELSE baseOffset[<<D, b.base>>] = b.offset
  /\ DOMAIN subtables = classes \cap DOMAIN prog.vtable
  /\ \A C \in DOMAIN subtables : subtables[C] = Addresses(prog.vtable[C])

(* What is said of a call, once its types are known.                       *)
Judged(c) ==
  /\ Known(prog.call[c].defining) /\ Known(prog.call[c].static)
  /\ prog.name[c] \in prog.declares[prog.call[c].defining.class]

(* The parameters that the walk has when it has come down a chain.         *)
VisitedBy(c, v, q) ==
  /\ v.class = q[1]
  /\ v.collecting <=> \E i \in 2..Len(q) : q[i] = Static(prog, c)
  /\ Straight(prog, q) => v.vboo = INT_MAX /\ v.sub = prog.at[q[1]][q] /\ v.vsub = 0
  /\ \A k \in 1..(Len(q) - 1) : Jumps(prog, q, k) =>
       /\ \E b \in Bases(prog, q[k]) : b.base = q[k + 1] /\ b.virtual /\ v.vboo = b.offset
       /\ v.sub = prog.at[q[1]][SubSeq(q, 1, k)]
       /\ v.vsub = prog.at[q[k + 1]][SubSeq(q, k + 1, Len(q))]

LEMMA Layout ==
  ASSUME NEW p \in Programs
  PROVE  /\ \A E \in p.class :
              /\ p.at[E][<<E>>] = 0
              /\ \A s \in Subobjects(p, E) : p.at[E][s] \in Int
              /\ \A b \in Bases(p, E) : ~b.virtual =>
                   \A s \in Paths(p)[b.base] : p.at[E][<<E>> \o s] = b.offset + p.at[b.base][s]
              /\ \A V \in VirtualBases(p)[E] : \A s \in Paths(p)[V] : p.at[E][s] = p.at[E][<<V>>] + p.at[V][s]
         /\ \A E \in DOMAIN p.vtable :
              /\ \A s \in Paths(p)[E] : \A b \in Bases(p, Last(s)) : b.virtual =>
                   InTable(p, E, p.at[E][s], b.offset) =
                     {[kind |-> "num", val |-> p.at[E][<<b.base>>] - p.at[E][s]]}
              /\ \A c \in DOMAIN p.call : p.name[c] \in p.declares[p.call[c].defining.class] =>
                   \A s \in Subobjects(p, E) : Last(s) = p.call[c].defining.class =>
                     \E e \in InTable(p, E, p.at[E][s], p.call[c].idx) :
                       /\ e.kind = "fun" /\ InTable(p, E, p.at[E][s], p.call[c].idx) = {e}
                       /\ Targets(p, {e.val} \ {PureVirtual}) = Overriding(p, c, E, s)
  BY TablesAssumption DEF TablesAssumption, Overriding, Targets

LEMMA InTableIs ==
  ASSUME NEW E, subtables[E] = Addresses(prog.vtable[E]), NEW o, NEW d, NEW e,
         InTable(prog, E, o, d) = {e}
  PROVE  /\ o \in DOMAIN subtables[E]
         /\ Within(E, subtables[E][o], d) /\ Entry(E, subtables[E][o], d) = e
  <1> DEFINE A == Addresses(prog.vtable[E])
             T == prog.vtable[E][A[o][1]]
             j == A[o][2] + 1 + d
  <1> HIDE DEF A
  <1>1. InTable(prog, E, o, d) = IF o \in DOMAIN A THEN {T[i] : i \in {j} \cap DOMAIN T} ELSE {}
    BY DEF InTable, A
  <1>2. o \in DOMAIN A /\ {T[i] : i \in {j} \cap DOMAIN T} = {e}
    BY <1>1
  <1>3. j \in DOMAIN T /\ T[j] = e
    <2> HIDE DEF T, j
    <2> QED
      BY <1>2
  <1>4. subtables[E] = A
    BY DEF A
  <1> QED
    BY <1>2, <1>3, <1>4 DEF Within, Entry

(* Before a sub-table's start stands its offset.                           *)
LEMMA OffsetsBefore ==
  ASSUME prog \in Programs, NEW E \in DOMAIN prog.vtable, subtables[E] = Addresses(prog.vtable[E]),
         NEW o \in DOMAIN subtables[E]
  PROVE  Entry(E, subtables[E][o], -2).val \in Int /\ -Entry(E, subtables[E][o], -2).val = o
  <1> DEFINE VT == prog.vtable[E]
             at == UNION {{i} \X {j \in DOMAIN VT[i] : VT[i][j].kind = "ti"} : i \in DOMAIN VT}
             offset(b) == -VT[b[1]][b[2] - 1].val
             a == CHOOSE b \in at : offset(b) = o
  <1>1. Addresses(VT) = [x \in {offset(b) : b \in at} |-> CHOOSE b \in at : offset(b) = x]
    BY DEF Addresses
  <1>2. o \in {offset(b) : b \in at} /\ subtables[E][o] = a
    BY <1>1
  <1>3. a \in at /\ offset(a) = o
    <2>1. \E b \in at : offset(b) = o
      BY <1>2
    <2> HIDE DEF at, offset
    <2> QED
      BY <2>1
  <1> HIDE DEF a
  <1>4. PICK i \in DOMAIN VT : a \in {i} \X {j \in DOMAIN VT[i] : VT[i][j].kind = "ti"}
    BY <1>3
  <1>5. a[1] = i /\ a[2] \in DOMAIN VT[i] /\ VT[i][a[2]].kind = "ti"
    BY <1>4
  <1>6. a[2] \in Nat /\ VT[i][a[2] - 1].val \in Int
    <2>1. \A C \in DOMAIN prog.vtable : \A k \in DOMAIN prog.vtable[C] : \A j \in DOMAIN prog.vtable[C][k] :
            prog.vtable[C][k][j].kind = "ti" => j \in Nat /\ prog.vtable[C][k][j - 1].val \in Int
      BY HierarchyAssumption DEF HierarchyAssumption
    <2> QED
      BY <1>5, <2>1
  <1>7. a[2] + 1 + (-2) = a[2] - 1
    BY <1>6
  <1>8. Entry(E, a, -2) = VT[i][a[2] - 1]
    BY <1>5, <1>7 DEF Entry
  <1> QED
    BY <1>2, <1>3, <1>5, <1>6, <1>8

-----------------------------------------------------------------------------
(***************************************************************************)
(* A visit finds what overrides the subobject of the chain that it has     *)
(* come down, and goes on with longer chains.                              *)
(***************************************************************************)
LEMMA Collects ==
  ASSUME prog \in Programs, NEW c, NEW v, NEW q, Chain(prog, q), VisitedBy(c, v, q)
  PROVE  (v.collecting \/ v.class = Static(prog, c)) <=> Passes(prog, c, q)
  <1>1. Len(q) \in Nat /\ Len(q) >= 1
    BY ChainTyped
  <1>2. v.class = q[1] /\ (v.collecting <=> \E i \in 2..Len(q) : q[i] = Static(prog, c))
    BY DEF VisitedBy
  <1>3. Passes(prog, c, q) <=> q[1] = Static(prog, c) \/ \E i \in 2..Len(q) : q[i] = Static(prog, c)
    <2>1. \A i : i \in 1..Len(q) <=> i = 1 \/ i \in 2..Len(q)
      BY <1>1
    <2> QED
      BY <2>1 DEF Passes
  <1> QED
    BY <1>2, <1>3

(* The sub-table that a visit looks into is that of its subobject.         *)
LEMMA LooksRight ==
  ASSUME prog \in Programs, TablesInv, classes = prog.class, NEW c, NEW v, NEW q,
         Climbs(prog, c, q), Once(prog, q), VisitedBy(c, v, q), q[1] \in DOMAIN prog.vtable,
         NEW t, PartOf(prog, q, t), prog.at[q[1]][t] \in DOMAIN subtables[q[1]]
  PROVE  ~Missing(v) /\ ~Misplaced(v) /\ SubTable(v) = subtables[q[1]][prog.at[q[1]][t]]
  <1> DEFINE E == q[1]
             at == prog.at
  <1>1. /\ Chain(prog, q) /\ v.class = E /\ E \in prog.class /\ Len(q) \in Nat
        /\ subtables[E] = Addresses(prog.vtable[E])
    BY ChainTyped, ProgramsAre DEF Climbs, VisitedBy, TablesInv
  <1>2. CASE Straight(prog, q)
    <2>1. v.vboo = INT_MAX /\ v.sub = at[E][t]
      BY <1>2 DEF VisitedBy, PartOf
    <2> QED
      BY <1>1, <2>1 DEF Missing, Misplaced, SubTable
  <1>3. CASE ~Straight(prog, q)
    <2>1. PICK k \in 1..(Len(q) - 1) : Jumps(prog, q, k)
      BY <1>1, <1>3 DEF Straight
    <2> DEFINE x == SubSeq(q, 1, k)
               V == q[k + 1]
    <2>2. PICK b \in Bases(prog, q[k]) :
            b.base = V /\ b.virtual /\ v.vboo = b.offset /\ v.sub = at[E][x] /\ v.vsub = at[V][t]
      BY <2>1 DEF VisitedBy, PartOf
    <2>3. t = SubSeq(q, k + 1, Len(q))
      BY <2>1 DEF PartOf
    <2>4. 1 \in 1..k /\ k \in 1..Len(q) /\ k \in 1..k /\ k + 1 \in 1..Len(q) /\ Len(q) \in (k + 1)..Len(q)
          /\ k + 1 \in (k + 1)..Len(q) /\ 1 \in 1..Len(q)
      BY <1>1
    <2>5. Straight(prog, x) /\ V \in JumpedTo(prog, E) /\ Straight(prog, t)
      BY <1>1, <2>1, <2>3, <2>4, AroundJump
    <2>6. x[1] = E /\ Len(x) = k - 1 + 1 /\ x[k - 1 + 1] = q[k] /\ t[1] = V
      BY <1>1, <2>3, <2>4, SubChain
    <2>7. q[k] \in prog.class /\ V \in prog.class
      BY <1>1, <2>4, ChainTyped
    <2> HIDE DEF x, V
    <2>8. x \in Paths(prog)[E] /\ Last(x) = q[k] /\ t \in Paths(prog)[V] /\ V \in VirtualBases(prog)[E]
      <3>1. x \in Seq(prog.class) /\ t \in Seq(prog.class)
        BY <2>5 DEF Straight, Chain
      <3> QED
        BY <1>1, <2>5, <2>6, <2>7, <3>1, PathsAreStraight, VirtualBasesAreJumpedTo DEF StraightFrom, Last
    <2>9. at[E][x] \in Int /\ at[E][<<V>>] \in Int /\ at[V][t] \in Int /\ at[E][t] = at[E][<<V>>] + at[V][t]
      <3>1. x \in Subobjects(prog, E) /\ t \in Subobjects(prog, V)
        BY <1>1, <2>5, <2>6, <2>7, SubobjectsAre
      <3>2. <<V>> \in Subobjects(prog, E)
        <4>1. Straight(prog, <<V>>) /\ <<V>>[1] = V
          BY <2>7, Single
        <4> QED
          BY <1>1, <2>5, <4>1, SubobjectsAre
      <3> QED
        BY <1>1, <2>7, <2>8, <3>1, <3>2, Layout
    <2>10. InTable(prog, E, at[E][x], b.offset) = {[kind |-> "num", val |-> at[E][<<V>>] - at[E][x]]}
      BY <1>1, <2>2, <2>8, Layout
    <2> DEFINE a == subtables[E][at[E][x]]
    <2>11. /\ at[E][x] \in DOMAIN subtables[E]
           /\ Within(E, a, b.offset) /\ Entry(E, a, b.offset) = [kind |-> "num", val |-> at[E][<<V>>] - at[E][x]]
      BY <1>1, <2>10, InTableIs
    <2>12. Entry(E, a, -2).val \in Int /\ -Entry(E, a, -2).val = at[E][x]
      BY <1>1, <2>11, OffsetsBefore
    <2>13. v.vboo # INT_MAX
      <3>1. b.offset < 0 /\ b.offset \in Int
        BY <2>2, <2>7, ProgramsAre
      <3> QED
        BY <2>2, <3>1 DEF INT_MAX
    <2> HIDE DEF a
    <2>14. ObjectOffset(v, a) = at[E][t]
      <3>1. ObjectOffset(v, a) = (at[E][<<V>>] - at[E][x]) - Entry(E, a, -2).val + at[V][t]
        BY <1>1, <2>2, <2>11 DEF ObjectOffset
      <3> QED
        BY <2>9, <2>12, <3>1
    <2>15. subtables[v.class][v.sub] = a
      BY <1>1, <2>2 DEF a
    <2>16. Entry(v.class, a, v.vboo).kind = "num" /\ Within(v.class, a, v.vboo)
      BY <1>1, <2>2, <2>11
    <2>17. ~Missing(v)
      BY <1>1, <2>2, <2>11 DEF Missing
    <2>18. ~Misplaced(v)
      BY <1>1, <2>14, <2>15, <2>16 DEF Misplaced
    <2>19. SubTable(v) = subtables[E][at[E][t]]
      BY <1>1, <2>13, <2>14, <2>15 DEF SubTable
    <2> QED
      BY <2>17, <2>18, <2>19
  <1> QED
    BY <1>2, <1>3

(* A thunk that is extracted from leads to no other function.              *)
LEMMA Unwrapped ==
  ASSUME prog \in Programs, NEW f
  PROVE  /\ Behind(prog, Extracted(prog, f)) = Behind(prog, f)
         /\ MayStay(prog, Extracted(prog, f))
  <1>1. \A h \in DOMAIN prog.thunk :
          /\ prog.thunk[h].name \in {"_ZTh", "_ZTv", "_ZTc"}
          /\ prog.thunk[h].of \notin DOMAIN prog.thunk
    BY HierarchyAssumption DEF HierarchyAssumption
  <1> QED
    BY <1>1 DEF Behind, Extracted, MayStay

LEMMA FindsRight ==
  ASSUME prog \in Programs, TablesInv, classes = prog.class, call \in DOMAIN prog.call, Judged(call),
         NEW v, NEW q, Climbs(prog, call, q), Once(prog, q), VisitedBy(call, v, q),
         NEW t, PartOf(prog, q, t)
  PROVE  /\ ~Skips(v) /\ (Looks(v) => ~Misplaced(v))
         /\ Targets(prog, Found(v)) = IF q[1] \in DOMAIN prog.vtable /\ Passes(prog, call, q)
                                      THEN Overriding(prog, call, q[1], t) ELSE {}
         /\ \A f \in Found(v) : MayStay(prog, f)
  <1> DEFINE E == q[1]
  <1>1. Looks(v) <=> E \in DOMAIN prog.vtable /\ Passes(prog, call, q)
    BY Collects DEF Looks, VisitedBy, Climbs, Static
  <1>2. CASE ~Looks(v)
    BY <1>1, <1>2 DEF Skips, Found, Targets
  <1>3. CASE Looks(v)
    <2>1. E \in DOMAIN prog.vtable /\ v.class = E /\ subtables[E] = Addresses(prog.vtable[E])
      BY <1>1, <1>3, ProgramsAre DEF VisitedBy, TablesInv
    <2>2. t \in Subobjects(prog, E) /\ Last(t) = prog.call[call].defining.class
      BY PartIs DEF Climbs, Defining
    <2> DEFINE o == prog.at[E][t]
               idx == prog.call[call].idx
    <2>3. PICK e \in InTable(prog, E, o, idx) :
            /\ e.kind = "fun" /\ InTable(prog, E, o, idx) = {e}
            /\ Targets(prog, {e.val} \ {PureVirtual}) = Overriding(prog, call, E, t)
      <3>1. \A d \in DOMAIN prog.call : prog.name[d] \in prog.declares[prog.call[d].defining.class] =>
              \A s \in Subobjects(prog, E) : Last(s) = prog.call[d].defining.class =>
                \E e \in InTable(prog, E, prog.at[E][s], prog.call[d].idx) :
                  /\ e.kind = "fun" /\ InTable(prog, E, prog.at[E][s], prog.call[d].idx) = {e}
                  /\ Targets(prog, {e.val} \ {PureVirtual}) = Overriding(prog, d, E, s)
        BY <2>1, Layout
      <3>2. prog.name[call] \in prog.declares[prog.call[call].defining.class]
        BY DEF Judged
      <3> QED
        BY <2>2, <3>1, <3>2
    <2>4. /\ o \in DOMAIN subtables[E]
          /\ Within(E, subtables[E][o], idx) /\ Entry(E, subtables[E][o], idx) = e
      BY <2>1, <2>3, InTableIs
    <2>5. ~Missing(v) /\ ~Misplaced(v) /\ SubTable(v) = subtables[E][o]
      BY <2>1, <2>4, LooksRight
    <2>6. ~Absent(v, idx)
      BY <2>1, <2>3, <2>4, <2>5 DEF Absent
    <2>7. ~Skips(v)
      BY <2>5, <2>6 DEF Skips
    <2>8. Entry(v.class, SubTable(v), idx) = e
      BY <2>1, <2>4, <2>5
    <2>9. Found(v) = {Extracted(prog, f) : f \in {e.val} \ {PureVirtual}}
      BY <1>3, <2>7, <2>8 DEF Found
    <2>10. /\ Targets(prog, Found(v)) = Targets(prog, {e.val} \ {PureVirtual})
           /\ \A f \in Found(v) : MayStay(prog, f)
      <3>1. \A f : Behind(prog, Extracted(prog, f)) = Behind(prog, f) /\ MayStay(prog, Extracted(prog, f))
        BY Unwrapped
      <3> QED
        BY <2>9, <3>1 DEF Targets
    <2> QED
      BY <1>1, <1>3, <2>3, <2>5, <2>7, <2>10
  <1> QED
    BY <1>2, <1>3

(* The first visit is that of the chain of the defining class alone.       *)
LEMMA BeginsRight ==
  ASSUME prog \in Programs, NEW c, Defining(prog, c) \in prog.class
  PROVE  LET q == <<Defining(prog, c)>>
         IN /\ Climbs(prog, c, q) /\ Once(prog, q) /\ Len(q) = 1
            /\ VisitedBy(c, Visit(Defining(prog, c), INT_MAX, 0, 0, FALSE), q)
  <1> DEFINE q == <<Defining(prog, c)>>
  <1>1. Straight(prog, q) /\ Len(q) = 1 /\ q[1] = Defining(prog, c)
    BY Single
  <1>2. prog.at[q[1]][q] = 0
    BY <1>1, Layout
  <1> HIDE DEF q
  <1>3. 1..(Len(q) - 1) = {} /\ 2..Len(q) = {}
    BY <1>1
  <1>4. Climbs(prog, c, q) /\ Once(prog, q)
    BY <1>1, <1>3 DEF Climbs, Once, Straight
  <1>5. VisitedBy(c, Visit(Defining(prog, c), INT_MAX, 0, 0, FALSE), q)
    BY <1>1, <1>2, <1>3 DEF VisitedBy, Visit
  <1> QED
    BY <1>1, <1>4, <1>5 DEF q

LEMMA SubclassesAre ==
  ASSUME TablesInv, classes = prog.class, NEW C \in prog.class, NEW D
  PROVE  D \in subclasses[C] <=> D \in prog.class /\ \E b \in Bases(prog, D) : b.base = C
  BY DEF TablesInv

LEMMA OffsetBelow ==
  ASSUME prog \in Programs, NEW D \in prog.class, NEW b \in Bases(prog, D), ~b.virtual,
         NEW s, Straight(prog, s), s[1] = b.base
  PROVE  prog.at[D][<<D>> \o s] = b.offset + prog.at[b.base][s] /\ prog.at[b.base][s] \in Int
  <1>1. b.base \in prog.class
    BY ProgramsAre
  <1>2. s \in Paths(prog)[b.base]
    BY <1>1, PathsAreStraight DEF StraightFrom, Straight, Chain
  <1>3. s \in Subobjects(prog, b.base)
    BY <1>1, SubobjectsAre
  <1>4. prog.at[b.base][s] \in Int
    BY <1>1, <1>3, Layout
  <1>5. \A d \in Bases(prog, D) : ~d.virtual =>
          \A t \in Paths(prog)[d.base] : prog.at[D][<<D>> \o t] = d.offset + prog.at[d.base][t]
    BY Layout
  <1> QED
    BY <1>2, <1>4, <1>5

LEMMA GoesDown ==
  ASSUME prog \in Programs, TablesInv, classes = prog.class, call \in DOMAIN prog.call, Judged(call),
         NEW v, NEW q, Climbs(prog, call, q), Once(prog, q), VisitedBy(call, v, q),
         ~AnotherVirtualBase(v), NEW sub \in subclasses[q[1]]
  PROVE  /\ Climbs(prog, call, <<sub>> \o q) /\ Once(prog, <<sub>> \o q)
         /\ VisitedBy(call, Down(v, sub), <<sub>> \o q)
  <1> DEFINE r == <<sub>> \o q
             at == prog.at
             C == q[1]
  <1>1. /\ Chain(prog, q) /\ q \in Seq(prog.class) /\ Len(q) \in Nat /\ Len(q) >= 1 /\ C \in prog.class
        /\ v.class = C
    BY ChainTyped DEF Climbs, VisitedBy
  <1>2. sub \in prog.class /\ \E b \in Bases(prog, sub) : b.base = C
    BY <1>1, SubclassesAre
  <1>3. PICK b \in Bases(prog, sub) : b.base = C
    BY <1>2
  <1>4. /\ \A d \in Bases(prog, sub) : d.base = C => d = b
        /\ b.offset \in Int /\ b.virtual \in BOOLEAN
    BY <1>2, <1>3, ProgramsAre
  <1>5. /\ Chain(prog, r) /\ Len(r) = Len(q) + 1 /\ r[1] = sub
        /\ r[Len(q) + 1] = q[Len(q)]
        /\ \A i \in 1..Len(q) : r[i + 1] = q[i]
        /\ Jumps(prog, r, 1) <=> b.virtual
        /\ \A i \in 1..(Len(q) - 1) : Jumps(prog, r, i + 1) <=> Jumps(prog, q, i)
        /\ Straight(prog, r) <=> Straight(prog, q) /\ ~b.virtual
    BY <1>1, <1>2, <1>3, ChainGrows
  <1>6. PartOf(prog, q, q) <=> Straight(prog, q) \/ \A k \in 1..(Len(q) - 1) : Jumps(prog, q, k) => q = SubSeq(q, k + 1, Len(q))
    BY DEF PartOf, Straight
  <1>7. ~Skips(v)
    <2>1. PICK t : PartOf(prog, q, t)
      BY <1>1, PartExists
    <2> QED
      BY <2>1, FindsRight
  <1>8. /\ <<sub, C>> \in DOMAIN vbaseOffset <=> b.virtual
        /\ b.virtual => vbaseOffset[<<sub, C>>] = b.offset
        /\ ~b.virtual => baseOffset[<<sub, C>>] = b.offset
    <2>1. /\ <<sub, C>> \in DOMAIN vbaseOffset <=> sub \in classes /\ \E d \in Bases(prog, sub) : d.base = C /\ d.virtual
          /\ \A d \in Bases(prog, sub) :
               IF d.virtual THEN vbaseOffset[<<sub, d.base>>] = d.offset ELSE baseOffset[<<sub, d.base>>] = d.offset
      BY <1>1, <1>2 DEF TablesInv
    <2>2. IF b.virtual THEN vbaseOffset[<<sub, C>>] = b.offset ELSE baseOffset[<<sub, C>>] = b.offset
      BY <1>3, <2>1
    <2> QED
      BY <1>2, <1>3, <1>4, <2>1, <2>2
  (* Through a virtual base a chain goes only once.                        *)
  <1>9. b.virtual => Straight(prog, q)
    <2>1. SUFFICES ASSUME b.virtual, ~Straight(prog, q) PROVE FALSE
      OBVIOUS
    <2>2. PICK k \in 1..(Len(q) - 1) : Jumps(prog, q, k)
      BY <1>1, <2>1 DEF Straight
    <2>3. PICK d \in Bases(prog, q[k]) : d.virtual /\ v.vboo = d.offset
      BY <2>2 DEF VisitedBy
    <2>4. q[k] \in prog.class
      BY <1>1, ChainTyped
    <2>5. v.vboo # INT_MAX
      <3>1. d.offset < 0 /\ d.offset \in Int
        BY <2>3, <2>4, ProgramsAre
      <3> QED
        BY <2>3, <3>1 DEF INT_MAX
    <2> QED
      BY <1>1, <1>8, <2>1, <2>5 DEF AnotherVirtualBase
  <1>10. Climbs(prog, call, r)
    BY <1>5 DEF Climbs
  <1>11. ASSUME NEW i \in 1..(Len(r) - 1), i # 1
         PROVE  /\ i - 1 \in 1..(Len(q) - 1) /\ (i - 1) + 1 = i
                /\ Jumps(prog, r, i) <=> Jumps(prog, q, i - 1)
    <2>1. i - 1 \in 1..(Len(q) - 1) /\ (i - 1) + 1 = i
      BY <1>1, <1>5, <1>11
    <2>2. Jumps(prog, r, (i - 1) + 1) <=> Jumps(prog, q, i - 1)
      BY <1>5, <2>1
    <2> QED
      BY <2>1, <2>2
  <1> HIDE DEF r
  <1>12. Once(prog, r)
    <2>1. SUFFICES ASSUME NEW i \in 1..(Len(r) - 1), NEW j \in 1..(Len(r) - 1),
                          Jumps(prog, r, i), Jumps(prog, r, j), i # j
                   PROVE  FALSE
      BY DEF Once
    <2>2. CASE b.virtual
      <3>1. \A k \in 1..(Len(r) - 1) : k # 1 => ~Jumps(prog, r, k)
        BY <1>9, <1>11, <2>2 DEF Straight
      <3> QED
        BY <2>1, <3>1
    <2>3. CASE ~b.virtual
      <3>1. i # 1 /\ j # 1
        BY <1>5, <2>1, <2>3
      <3>2. Jumps(prog, q, i - 1) /\ Jumps(prog, q, j - 1)
        BY <1>11, <2>1, <3>1
      <3>3. i - 1 = j - 1
        BY <1>11, <3>1, <3>2 DEF Once
      <3> QED
        BY <2>1, <3>3
    <2> QED
      BY <1>4, <2>2, <2>3
  <1> DEFINE w == Down(v, sub)
             coll == v.collecting \/ C = prog.call[call].static.class
  <1>13. w = IF b.virtual THEN Visit(sub, b.offset, 0, v.sub, coll)
             ELSE Visit(sub, v.vboo, v.sub + b.offset, v.vsub, coll)
    <2>1. CASE b.virtual
      BY <1>1, <1>8, <2>1 DEF Down
    <2>2. CASE ~b.virtual
      BY <1>1, <1>7, <1>8, <2>2 DEF Down
    <2> QED
      BY <2>1, <2>2
  <1>14. coll <=> \E i \in 2..Len(r) : r[i] = Static(prog, call)
    <2>1. coll <=> Passes(prog, call, q)
      BY <1>1, Collects DEF Static
    <2>2. ASSUME NEW i \in 1..Len(q), q[i] = Static(prog, call)
          PROVE  \E j \in 2..Len(r) : r[j] = Static(prog, call)
      <3>1. i + 1 \in 2..Len(r) /\ r[i + 1] = q[i]
        BY <1>1, <1>5
      <3> QED
        BY <2>2, <3>1
    <2>3. ASSUME NEW j \in 2..Len(r), r[j] = Static(prog, call)
          PROVE  \E i \in 1..Len(q) : q[i] = Static(prog, call)
      <3>1. j - 1 \in 1..Len(q) /\ (j - 1) + 1 = j
        BY <1>1, <1>5
      <3>2. r[(j - 1) + 1] = q[j - 1]
        BY <1>5, <3>1
      <3> QED
        BY <2>3, <3>1, <3>2
    <2> HIDE DEF coll
    <2> QED
      BY <2>1, <2>2, <2>3 DEF Passes
  <1> HIDE DEF coll
  <1>15. /\ w.class = sub /\ w.collecting = coll
         /\ b.virtual => w.vboo = b.offset /\ w.sub = 0 /\ w.vsub = v.sub
         /\ ~b.virtual => w.vboo = v.vboo /\ w.sub = v.sub + b.offset /\ w.vsub = v.vsub
    BY <1>4, <1>13 DEF Visit
  <1> HIDE DEF w
  <1>16. Straight(prog, r) => w.vboo = INT_MAX /\ w.sub = at[r[1]][r] /\ w.vsub = 0
    <2>1. SUFFICES ASSUME Straight(prog, r) PROVE w.vboo = INT_MAX /\ w.sub = at[sub][r] /\ w.vsub = 0
      BY <1>5
    <2>2. Straight(prog, q) /\ ~b.virtual
      BY <1>5, <2>1
    <2>3. v.vboo = INT_MAX /\ v.sub = at[C][q] /\ v.vsub = 0
      BY <2>2 DEF VisitedBy
    <2>4. at[sub][r] = b.offset + at[C][q] /\ at[C][q] \in Int
      BY <1>2, <1>3, <2>2, OffsetBelow DEF r
    <2> QED
      BY <1>4, <1>15, <2>2, <2>3, <2>4
  <1>17. ASSUME NEW k \in 1..(Len(r) - 1), Jumps(prog, r, k)
         PROVE  /\ \E d \in Bases(prog, r[k]) : d.base = r[k + 1] /\ d.virtual /\ w.vboo = d.offset
                /\ w.sub = at[r[1]][SubSeq(r, 1, k)]
                /\ w.vsub = at[r[k + 1]][SubSeq(r, k + 1, Len(r))]
    <2>1. r \in Seq(prog.class) /\ 1 \in 1..Len(r) /\ Len(r) \in Nat /\ Len(r) >= 1
      BY <1>1, <1>5, ChainTyped
    <2>2. CASE k = 1
      <3>1. b.virtual /\ Straight(prog, q)
        BY <1>5, <1>9, <1>17, <2>2
      <3>2. r[2] = C
        <4>1. 1 \in 1..Len(q)
          BY <1>1
        <4>2. r[1 + 1] = q[1]
          BY <1>5, <4>1
        <4> QED
          BY <4>2
      <3>3. SubSeq(r, 1, 1) = <<sub>>
        <4> DEFINE u == SubSeq(r, 1, 1)
        <4>1. 1 \in 1..1 /\ 1 - 1 + 1 = 1
          OBVIOUS
        <4>2. Chain(prog, u) /\ Len(u) = 1 - 1 + 1 /\ u[1] = r[1]
          BY <1>5, <2>1, <4>1, SubChain
        <4> HIDE DEF u
        <4>3. u = <<u[1]>>
          BY <4>1, <4>2, OfOne
        <4> QED
          BY <1>5, <4>2, <4>3 DEF u
      <3>4. SubSeq(r, 2, Len(r)) = q
        <4> DEFINE u == SubSeq(r, 2, Len(r))
        <4>1. 2 \in 1..Len(r) /\ Len(r) \in 2..Len(r) /\ Len(r) - 2 + 1 = Len(q)
          BY <1>1, <1>5
        <4>2. /\ Chain(prog, u) /\ Len(u) = Len(r) - 2 + 1
              /\ \A i \in 1..(Len(r) - 2 + 1) : u[i] = r[2 + i - 1]
          BY <1>5, <4>1, SubChain
        <4>3. u \in Seq(prog.class) /\ Len(u) = Len(q)
          BY <4>1, <4>2, ChainTyped
        <4>4. ASSUME NEW i \in 1..Len(q) PROVE u[i] = q[i]
          <5>1. 2 + i - 1 = i + 1
            BY <1>1
          <5> QED
            BY <1>5, <4>1, <4>2, <5>1
        <4> HIDE DEF u
        <4>5. u = q
          BY <1>1, <4>3, <4>4, SeqEqual
        <4> QED
          BY <4>5 DEF u
      <3>5. v.sub = at[C][q]
        BY <3>1 DEF VisitedBy
      <3>6. at[sub][<<sub>>] = 0
        BY <1>2, Layout
      <3>7. w.vboo = b.offset /\ w.sub = 0 /\ w.vsub = v.sub
        BY <1>15, <3>1
      <3>8. \E d \in Bases(prog, r[k]) : d.base = r[k + 1] /\ d.virtual /\ w.vboo = d.offset
        BY <1>3, <1>5, <2>2, <3>1, <3>2, <3>7
      <3>9. w.sub = at[r[1]][SubSeq(r, 1, k)]
        BY <1>5, <2>2, <3>3, <3>6, <3>7
      <3>10. w.vsub = at[r[k + 1]][SubSeq(r, k + 1, Len(r))]
        <4>1. k + 1 = 2
          BY <2>2
        <4> QED
          BY <3>2, <3>4, <3>5, <3>7, <4>1
      <3> QED
        BY <3>8, <3>9, <3>10
    <2>3. CASE k # 1
      <3>0. PICK j \in 1..(Len(q) - 1) : j = k - 1
        BY <1>11, <2>3
      <3> DEFINE x == SubSeq(q, 1, j)
      <3>1. j + 1 = k /\ Jumps(prog, q, j)
        BY <1>11, <1>17, <2>3, <3>0
      <3>2. ~b.virtual
        BY <1>9, <3>1 DEF Straight
      <3>3. /\ \E d \in Bases(prog, q[j]) : d.base = q[j + 1] /\ d.virtual /\ v.vboo = d.offset
            /\ v.sub = at[C][x]
            /\ v.vsub = at[q[j + 1]][SubSeq(q, j + 1, Len(q))]
        BY <3>1 DEF VisitedBy
      <3>4. r[k] = q[j] /\ r[k + 1] = q[j + 1]
        <4>1. j \in 1..Len(q) /\ j + 1 \in 1..Len(q)
          BY <1>1, <3>1
        <4>2. r[j + 1] = q[j] /\ r[(j + 1) + 1] = q[j + 1]
          BY <1>5, <4>1
        <4> QED
          BY <3>1, <4>2
      <3>5. 1 \in 1..Len(q) /\ j \in 1..Len(q) /\ 1 \in 1..j /\ j \in 1..j
        BY <1>1, <3>1
      <3>6. /\ Chain(prog, x) /\ Len(x) = j - 1 + 1 /\ x[1] = C
            /\ \A i \in 1..(j - 1 + 1) : x[i] = q[1 + i - 1]
        BY <1>1, <3>5, SubChain
      <3>7. Straight(prog, x)
        BY <1>1, <3>1, <3>5, AroundJump
      <3>8. x \in Seq(prog.class)
        BY <3>6, ChainTyped
      <3>9. SubSeq(r, 1, k) = <<sub>> \o x
        <4> DEFINE u == SubSeq(r, 1, k)
                   y == <<sub>> \o x
        <4>1. 1 \in 1..Len(r) /\ k \in 1..Len(r) /\ k - 1 + 1 = k /\ j - 1 + 1 = j
          BY <2>1, <3>1
        <4>2. /\ Chain(prog, u) /\ Len(u) = k - 1 + 1
              /\ \A i \in 1..(k - 1 + 1) : u[i] = r[1 + i - 1]
          BY <1>5, <4>1, SubChain
        <4>3. /\ y \in Seq(prog.class) /\ Len(y) = Len(x) + 1 /\ y[1] = sub
              /\ \A i \in 1..Len(x) : y[i + 1] = x[i]
          <5>1. PICK K : K = prog.class
            OBVIOUS
          <5> HIDE DEF x
          <5>2. sub \in K /\ x \in Seq(K)
            BY <1>2, <3>8, <5>1
          <5>3. /\ y \in Seq(K) /\ Len(y) = Len(x) + 1 /\ y[1] = sub
                /\ \A i \in 1..Len(x) : y[i + 1] = x[i]
            BY <5>2, Prepended
          <5> QED
            BY <5>1, <5>3
        <4>4. u \in Seq(prog.class) /\ Len(u) = Len(y) /\ Len(u) = k
          BY <3>1, <3>6, <4>1, <4>2, <4>3, ChainTyped
        <4>5. ASSUME NEW i \in 1..k PROVE u[i] = y[i]
          <5>1. 1 + i - 1 = i /\ u[i] = r[i]
            BY <2>1, <4>1, <4>2
          <5>2. CASE i = 1
            BY <1>5, <4>3, <5>1, <5>2
          <5>3. CASE i # 1
            <6>1. i - 1 \in 1..j /\ (i - 1) + 1 = i /\ 1 + (i - 1) - 1 = i - 1 /\ i - 1 \in 1..Len(q)
              BY <1>1, <2>1, <3>1, <5>3
            <6>2. x[i - 1] = q[i - 1]
              BY <3>6, <4>1, <6>1
            <6>3. y[(i - 1) + 1] = x[i - 1]
              BY <3>6, <4>1, <4>3, <6>1
            <6>4. r[(i - 1) + 1] = q[i - 1]
              BY <1>5, <6>1
            <6> QED
              BY <5>1, <6>1, <6>2, <6>3, <6>4
          <5> QED
            BY <5>2, <5>3
        <4> HIDE DEF u, y
        <4>6. u = y
          BY <4>3, <4>4, <4>5, SeqEqual
        <4> QED
          BY <4>6 DEF u, y
      <3>10. SubSeq(r, k + 1, Len(r)) = SubSeq(q, j + 1, Len(q))
        <4> DEFINE u == SubSeq(r, k + 1, Len(r))
                   y == SubSeq(q, k, Len(q))
                   n == Len(q) - k + 1
        <4>1. /\ k + 1 \in 1..Len(r) /\ Len(r) \in (k + 1)..Len(r)
              /\ k \in 1..Len(q) /\ Len(q) \in k..Len(q)
              /\ Len(r) - (k + 1) + 1 = n
          BY <1>1, <1>5, <2>1, <3>1
        <4>2. /\ Chain(prog, u) /\ Len(u) = Len(r) - (k + 1) + 1
              /\ \A i \in 1..(Len(r) - (k + 1) + 1) : u[i] = r[k + 1 + i - 1]
          BY <1>5, <4>1, SubChain
        <4>3. /\ Chain(prog, y) /\ Len(y) = n
              /\ \A i \in 1..n : y[i] = q[k + i - 1]
          BY <1>1, <4>1, SubChain
        <4>4. u \in Seq(prog.class) /\ y \in Seq(prog.class) /\ Len(u) = n
          BY <4>1, <4>2, <4>3, ChainTyped
        <4>5. ASSUME NEW i \in 1..n PROVE u[i] = y[i]
          <5>1. k + i - 1 \in 1..Len(q) /\ (k + i - 1) + 1 = k + 1 + i - 1
            <6>1. Len(q) \in Nat /\ k \in 1..Len(q) /\ i \in 1..(Len(q) - k + 1)
              BY <1>1, <4>1
            <6>2. \A l \in Nat : \A a \in 1..l : \A b1 \in 1..(l - a + 1) :
                    a + b1 - 1 \in 1..l /\ (a + b1 - 1) + 1 = a + 1 + b1 - 1
              OBVIOUS
            <6> QED
              BY <6>1, <6>2
          <5>2. r[(k + i - 1) + 1] = q[k + i - 1]
            BY <1>5, <5>1
          <5> QED
            BY <4>1, <4>2, <4>3, <5>1, <5>2
        <4> HIDE DEF u, y, n
        <4>6. u = y
          BY <4>3, <4>4, <4>5, SeqEqual
        <4> QED
          BY <3>1, <4>6 DEF u, y
      <3>11. at[sub][<<sub>> \o x] = b.offset + at[C][x] /\ at[C][x] \in Int
        BY <1>2, <1>3, <3>2, <3>6, <3>7, OffsetBelow
      <3>12. w.vboo = v.vboo /\ w.sub = v.sub + b.offset /\ w.vsub = v.vsub
        BY <1>15, <3>2
      <3> HIDE DEF x
      <3>13. \E d \in Bases(prog, r[k]) : d.base = r[k + 1] /\ d.virtual /\ w.vboo = d.offset
        BY <3>3, <3>4, <3>12
      <3>14. w.sub = at[r[1]][SubSeq(r, 1, k)]
        <4>1. v.sub + b.offset = b.offset + at[C][x]
          BY <1>4, <3>3, <3>11
        <4> QED
          BY <1>5, <3>9, <3>11, <3>12, <4>1
      <3>15. w.vsub = at[r[k + 1]][SubSeq(r, k + 1, Len(r))]
        BY <3>3, <3>4, <3>10, <3>12
      <3> QED
        BY <3>13, <3>14, <3>15
    <2> QED
      BY <2>2, <2>3
  <1>18. VisitedBy(call, w, r)
    BY <1>5, <1>14, <1>15, <1>16, <1>17 DEF VisitedBy
  <1> QED
    BY <1>10, <1>12, <1>18 DEF r, w

-----------------------------------------------------------------------------
(***************************************************************************)
(* The invariant.  While a call is walked for, every chain from its        *)
(* defining class has been dealt with, or a part of it is still to be      *)
(* visited; and what has been found may be called.                         *)
(***************************************************************************)
Typed ==
  /\ prog \in Programs
  /\ phase \in {"types", "calls", "walk", "done", "fatal"}
  /\ phase # "types" => classes = prog.class
  /\ phase = "types" => left = prog.calls
  /\ left \in Seq(DOMAIN prog.call) /\ call \in DOMAIN prog.call
  /\ DOMAIN callees = DOMAIN prog.call

(* The walk's visits are a sequence, whatever they are.                    *)
Listed == phase = "walk" /\ Judged(call) => walk \in Seq({walk[i] : i \in DOMAIN walk})

VisitsRight ==
  phase = "walk" /\ Judged(call) =>
    \A i \in 1..Len(walk) : \E q : Climbs(prog, call, q) /\ Once(prog, q) /\ VisitedBy(call, walk[i], q)

OnlyImplementations ==
  \A c \in DOMAIN prog.call : Judged(c) =>
    /\ Targets(prog, callees[c]) \subseteq Implementations(prog, c)
    /\ \A f \in callees[c] : MayStay(prog, f)

(* A chain has been dealt with: what it leads to has been found, and it    *)
(* jumps no second time.                                                   *)
Dealt(c, q) ==
  /\ q[1] \in DOMAIN prog.vtable /\ Passes(prog, c, q) =>
       \A t : PartOf(prog, q, t) => Overriding(prog, c, q[1], t) \subseteq Targets(prog, callees[c])
  /\ Straight(prog, q) \/ \A D \in prog.class : \A b \in Bases(prog, D) : b.base = q[1] => ~b.virtual

ToVisit(c, q) ==
  \E i \in 1..Len(walk) : \E m \in 1..Len(q) : VisitedBy(c, walk[i], SubSeq(q, m, Len(q)))

ChainsDealt ==
  phase \in {"calls", "walk", "done"} =>
    \A c \in DOMAIN prog.call :
      Judged(c) /\ (\A i \in 1..Len(left) : left[i] # c) =>
        \A q : Climbs(prog, c, q) /\ Once(prog, q) =>
          Dealt(c, q) \/ (phase = "walk" /\ c = call /\ ToVisit(c, q))

HierarchyInv == Typed /\ TablesInv /\ Listed /\ VisitsRight /\ OnlyImplementations /\ ChainsDealt

(* When all chains that jump once have been dealt with, none jumps twice.  *)
LEMMA AllOnce ==
  ASSUME prog \in Programs, NEW c,
         \A q : Climbs(prog, c, q) /\ Once(prog, q) => Dealt(c, q)
  PROVE  \A q : Climbs(prog, c, q) => Once(prog, q)
  <1> DEFINE T == {n \in Nat : \E q : Climbs(prog, c, q) /\ ~Once(prog, q) /\ Len(q) = n}
  <1>1. SUFFICES ASSUME T # {} PROVE FALSE
    <2>1. \A q : Climbs(prog, c, q) => Len(q) \in Nat
      BY ChainTyped DEF Climbs
    <2> QED
      BY <2>1
  <1>2. PICK n \in T : \A m \in T : n <= m
    BY <1>1, FirstPosition
  <1>3. PICK q : Climbs(prog, c, q) /\ ~Once(prog, q) /\ Len(q) = n
    BY <1>2
  <1>4. Chain(prog, q) /\ Len(q) # 1 /\ n \in Nat
    <2>1. Len(q) = 1 => 1..(Len(q) - 1) = {}
      OBVIOUS
    <2> QED
      BY <1>2, <1>3, <2>1 DEF Once, Climbs
  <1> DEFINE s == Tail(q)
             D == q[1]
  <1>5. /\ Chain(prog, s) /\ D \in prog.class /\ q = <<D>> \o s
        /\ Len(s) = Len(q) - 1 /\ Len(q) >= 2
        /\ \E b \in Bases(prog, D) : b.base = s[1]
    BY <1>4, ChainShrinks
  <1> HIDE DEF s, D
  <1>6. PICK b \in Bases(prog, D) : b.base = s[1]
    BY <1>5
  <1>7. /\ q[Len(s) + 1] = s[Len(s)]
        /\ Jumps(prog, q, 1) <=> b.virtual
        /\ \A i \in 1..(Len(s) - 1) : Jumps(prog, q, i + 1) <=> Jumps(prog, s, i)
    BY <1>5, <1>6, ChainGrows
  <1>8. Climbs(prog, c, s)
    <2>1. Len(s) + 1 = Len(q)
      BY <1>3, <1>4, <1>5
    <2> QED
      BY <1>3, <1>5, <1>7, <2>1 DEF Climbs
  <1>9. Once(prog, s)
    <2>1. n - 1 \notin T
      BY <1>2, <1>4
    <2>2. n - 1 \in Nat /\ Len(s) = n - 1
      BY <1>3, <1>4, <1>5
    <2> QED
      BY <1>8, <2>1, <2>2
  <1>10. PICK i \in 1..(Len(q) - 1), j \in 1..(Len(q) - 1) : Jumps(prog, q, i) /\ Jumps(prog, q, j) /\ i # j
    BY <1>3 DEF Once
  <1>11. ASSUME NEW k \in 1..(Len(q) - 1), k # 1, Jumps(prog, q, k)
         PROVE  k - 1 \in 1..(Len(s) - 1) /\ Jumps(prog, s, k - 1)
    <2>1. k - 1 \in 1..(Len(s) - 1) /\ (k - 1) + 1 = k
      BY <1>3, <1>4, <1>5, <1>11
    <2> QED
      BY <1>7, <1>11, <2>1
  <1>12. i = 1 \/ j = 1
    <2>1. SUFFICES ASSUME i # 1, j # 1 PROVE FALSE
      OBVIOUS
    <2>2. i - 1 = j - 1
      BY <1>9, <1>10, <1>11, <2>1 DEF Once
    <2> QED
      BY <1>10, <2>2
  <1>13. b.virtual
    BY <1>7, <1>10, <1>12
  <1>14. ~Straight(prog, s)
    BY <1>10, <1>11, <1>12 DEF Straight
  <1>15. Dealt(c, s)
    BY <1>8, <1>9
  <1> QED
    BY <1>5, <1>6, <1>13, <1>14, <1>15 DEF Dealt

LEMMA DealtIsExact ==
  ASSUME prog \in Programs, NEW c,
         \A q : Climbs(prog, c, q) /\ Once(prog, q) => Dealt(c, q)
  PROVE  Implementations(prog, c) \subseteq Targets(prog, callees[c])
  <1>1. \A q : Climbs(prog, c, q) => Once(prog, q)
    BY AllOnce
  <1>2. SUFFICES ASSUME NEW g \in Implementations(prog, c) PROVE g \in Targets(prog, callees[c])
    OBVIOUS
  <1>3. PICK q : /\ Climbs(prog, c, q) /\ q[1] \in DOMAIN prog.vtable /\ Passes(prog, c, q)
                 /\ \A t : PartOf(prog, q, t) => g \in Overriding(prog, c, q[1], t)
    BY <1>1, <1>2, ImplementationsChained
  <1>4. PICK t : PartOf(prog, q, t)
    BY <1>1, <1>3, PartExists DEF Climbs
  <1> QED
    BY <1>1, <1>3, <1>4 DEF Dealt

LEMMA InvExact ==
  ASSUME HierarchyInv
  PROVE  VirtualCalleesExact
  <1>1. SUFFICES ASSUME NEW c \in DOMAIN prog.call, phase \in {"calls", "done"},
                        \A i \in DOMAIN left : left[i] # c, Judged(c)
                 PROVE  /\ Targets(prog, callees[c]) = Implementations(prog, c)
                        /\ \A f \in callees[c] : MayStay(prog, f)
    BY DEF VirtualCalleesExact, LookedAt, Judged, Targets
  <1>2. DOMAIN left = 1..Len(left)
    BY DEF HierarchyInv, Typed
  <1>3. \A q : Climbs(prog, c, q) /\ Once(prog, q) => Dealt(c, q)
    BY <1>1, <1>2 DEF HierarchyInv, ChainsDealt
  <1>4. Implementations(prog, c) \subseteq Targets(prog, callees[c])
    BY <1>3, DealtIsExact DEF HierarchyInv, Typed
  <1>5. /\ Targets(prog, callees[c]) \subseteq Implementations(prog, c)
        /\ \A f \in callees[c] : MayStay(prog, f)
    BY <1>1 DEF HierarchyInv, OnlyImplementations
  <1> QED
    BY <1>4, <1>5

-----------------------------------------------------------------------------
(* The steps.                                                              *)
LEMMA Unchanged ==
  ASSUME prog' = prog
  PROVE  /\ \A c : Judged(c)' <=> Judged(c)
         /\ \A c, q : ToVisit(c, q)' <=>
              \E i \in 1..Len(walk') : \E m \in 1..Len(q) : VisitedBy(c, walk'[i], SubSeq(q, m, Len(q)))
  BY DEF Judged, Known, VisitedBy, ToVisit

LEMMA ListedIs ==
  ASSUME NEW S, NEW w \in Seq(S)
  PROVE  w \in Seq({w[i] : i \in DOMAIN w})
  <1>1. PICK n \in Nat : w \in [1..n -> S]
    BY DEF Seq
  <1>2. w \in [1..n -> {w[i] : i \in DOMAIN w}]
    BY <1>1
  <1> QED
    BY <1>2, SeqDef

LEMMA InitKeeps ==
  Init => HierarchyInv
  <1> SUFFICES ASSUME Init PROVE HierarchyInv
    OBVIOUS
  <1>1. prog \in Programs /\ prog.calls \in Seq(DOMAIN prog.call) /\ prog.calls # << >>
    BY HierarchyAssumption DEF Init, HierarchyAssumption
  <1>2. Typed
    <2>1. call \in DOMAIN prog.call
      BY <1>1 DEF Init
    <2> QED
      BY <1>1, <2>1 DEF Init, Typed
  <1>3. TablesInv
    BY DEF Init, TablesInv
  <1>4. Listed
    BY DEF Init, Listed
  <1> QED
    BY <1>2, <1>3, <1>4 DEF Init, HierarchyInv, VisitsRight, OnlyImplementations, ChainsDealt, Targets

LEMMA Merged ==
  ASSUME NEW f, NEW g
  PROVE  /\ DOMAIN Merge(f, g) = DOMAIN f \cup DOMAIN g
         /\ \A e \in DOMAIN f \cup DOMAIN g : Merge(f, g)[e] = IF e \in DOMAIN g THEN g[e] ELSE f[e]
  BY DEF Merge

LEMMA TypeInfoKeeps ==
  ASSUME HierarchyInv, ProcessTypeInfo
  PROVE  HierarchyInv'
  <1>1. PICK TI \in prog.class \ classes :
          LET direct(v) == {b \in Bases(prog, TI) : b.virtual = v}
              offsets(v) ==
                [e \in {<<TI, b.base>> : b \in direct(v)} |->
                   (CHOOSE b \in direct(v) : e[2] = b.base).offset]
          IN /\ classes' = classes \cup {TI}
             /\ subclasses' = [C \in prog.class |->
                  subclasses[C] \cup {D \in {TI} : \E b \in Bases(prog, TI) : b.base = C}]
             /\ baseOffset' = Merge(baseOffset, offsets(FALSE))
             /\ vbaseOffset' = Merge(vbaseOffset, offsets(TRUE))
             /\ subtables' = Merge(subtables,
                  [C \in {TI} \cap DOMAIN prog.vtable |-> Addresses(prog.vtable[C])])
    BY DEF ProcessTypeInfo
  <1>2. /\ phase = "types" /\ UNCHANGED <<prog, phase, left, call, walk, callees>>
        /\ prog \in Programs /\ TI \in prog.class
    BY DEF ProcessTypeInfo, HierarchyInv, Typed
  <1>3. Typed'
    BY <1>2 DEF HierarchyInv, Typed
  <1> DEFINE direct(v) == {b \in Bases(prog, TI) : b.virtual = v}
             offsets(v) ==
                [e \in {<<TI, b.base>> : b \in direct(v)} |->
                   (CHOOSE b \in direct(v) : e[2] = b.base).offset]
  <1>4. ASSUME NEW v \in BOOLEAN
        PROVE  /\ \A D, C \in prog.class :
                    <<D, C>> \in DOMAIN offsets(v) <=> D = TI /\ \E b \in Bases(prog, D) : b.base = C /\ b.virtual = v
               /\ DOMAIN offsets(v) \subseteq prog.class \X prog.class
               /\ \A b \in Bases(prog, TI) : b.virtual = v => offsets(v)[<<TI, b.base>>] = b.offset
    <2>1. \A b \in Bases(prog, TI) :
            /\ b.base \in prog.class
            /\ \A d \in Bases(prog, TI) : d.base = b.base => d = b
      BY <1>2, ProgramsAre
    <2>2. DOMAIN offsets(v) = {<<TI, b.base>> : b \in direct(v)}
      OBVIOUS
    <2>3. ASSUME NEW b \in Bases(prog, TI), b.virtual = v PROVE offsets(v)[<<TI, b.base>>] = b.offset
      <3>1. <<TI, b.base>> \in {<<TI, d.base>> : d \in direct(v)}
        BY <2>3
      <3>2. offsets(v)[<<TI, b.base>>] = (CHOOSE d \in direct(v) : <<TI, b.base>>[2] = d.base).offset
        BY <3>1
      <3>3. (CHOOSE d \in direct(v) : <<TI, b.base>>[2] = d.base) = b
        <4>1. <<TI, b.base>>[2] = b.base
          OBVIOUS
        <4>2. b \in direct(v) /\ \A d \in direct(v) : b.base = d.base => d = b
          BY <2>1, <2>3
        <4> HIDE DEF direct
        <4> QED
          BY <4>1, <4>2
      <3> QED
        BY <3>2, <3>3
    <2> HIDE DEF offsets
    <2> QED
      BY <1>2, <2>1, <2>2, <2>3
  <1>5. /\ classes' = classes \cup {TI}
        /\ subclasses' = [C \in prog.class |->
             subclasses[C] \cup {D \in {TI} : \E b \in Bases(prog, TI) : b.base = C}]
        /\ baseOffset' = Merge(baseOffset, offsets(FALSE))
        /\ vbaseOffset' = Merge(vbaseOffset, offsets(TRUE))
        /\ subtables' = Merge(subtables,
             [C \in {TI} \cap DOMAIN prog.vtable |-> Addresses(prog.vtable[C])])
    BY <1>1
  <1> HIDE DEF offsets
  <1>6. /\ DOMAIN vbaseOffset' = DOMAIN vbaseOffset \cup DOMAIN offsets(TRUE)
        /\ \A e \in DOMAIN vbaseOffset \cup DOMAIN offsets(TRUE) :
             vbaseOffset'[e] = IF e \in DOMAIN offsets(TRUE) THEN offsets(TRUE)[e] ELSE vbaseOffset[e]
        /\ DOMAIN baseOffset' = DOMAIN baseOffset \cup DOMAIN offsets(FALSE)
        /\ \A e \in DOMAIN baseOffset \cup DOMAIN offsets(FALSE) :
             baseOffset'[e] = IF e \in DOMAIN offsets(FALSE) THEN offsets(FALSE)[e] ELSE baseOffset[e]
    <2> DEFINE f == offsets(TRUE)
               g == offsets(FALSE)
    <2>1. vbaseOffset' = Merge(vbaseOffset, f) /\ baseOffset' = Merge(baseOffset, g)
      BY <1>5
    <2> HIDE DEF f, g
    <2>2. /\ DOMAIN Merge(vbaseOffset, f) = DOMAIN vbaseOffset \cup DOMAIN f
          /\ \A e \in DOMAIN vbaseOffset \cup DOMAIN f :
               Merge(vbaseOffset, f)[e] = IF e \in DOMAIN f THEN f[e] ELSE vbaseOffset[e]
      BY Merged
    <2>3. /\ DOMAIN Merge(baseOffset, g) = DOMAIN baseOffset \cup DOMAIN g
          /\ \A e \in DOMAIN baseOffset \cup DOMAIN g :
               Merge(baseOffset, g)[e] = IF e \in DOMAIN g THEN g[e] ELSE baseOffset[e]
      BY Merged
    <2>4. /\ DOMAIN vbaseOffset' = DOMAIN vbaseOffset \cup DOMAIN f
          /\ \A e \in DOMAIN vbaseOffset \cup DOMAIN f :
               vbaseOffset'[e] = IF e \in DOMAIN f THEN f[e] ELSE vbaseOffset[e]
      BY <2>1, <2>2
    <2>5. /\ DOMAIN baseOffset' = DOMAIN baseOffset \cup DOMAIN g
          /\ \A e \in DOMAIN baseOffset \cup DOMAIN g :
               baseOffset'[e] = IF e \in DOMAIN g THEN g[e] ELSE baseOffset[e]
      BY <2>1, <2>3
    <2> QED
      BY <2>4, <2>5 DEF f, g
  <1>7. TablesInv'
    <2>1. classes' \subseteq prog.class
      BY <1>2, <1>5 DEF HierarchyInv, TablesInv
    <2>2. subclasses' = [C \in prog.class |-> {D \in classes' : \E b \in Bases(prog, D) : b.base = C}]
      <3>1. \A C \in prog.class : subclasses[C] = {D \in classes : \E b \in Bases(prog, D) : b.base = C}
        BY DEF HierarchyInv, TablesInv
      <3>2. ASSUME NEW C \in prog.class
            PROVE  subclasses[C] \cup {D \in {TI} : \E b \in Bases(prog, TI) : b.base = C} =
                     {D \in classes' : \E b \in Bases(prog, D) : b.base = C}
        BY <1>5, <3>1
      <3> QED
        BY <1>5, <3>2
    <2>3. \A e \in DOMAIN vbaseOffset' \cup DOMAIN baseOffset' : e \in prog.class \X prog.class
      BY <1>4, <1>6 DEF HierarchyInv, TablesInv
    <2>4. ASSUME NEW D \in prog.class, NEW C \in prog.class
          PROVE  /\ <<D, C>> \in DOMAIN vbaseOffset' <=>
                      D \in classes' /\ \E b \in Bases(prog, D) : b.base = C /\ b.virtual
                 /\ <<D, C>> \in DOMAIN baseOffset' <=>
                      D \in classes' /\ \E b \in Bases(prog, D) : b.base = C /\ ~b.virtual
      <3>1. <<D, C>> \in DOMAIN vbaseOffset' <=> <<D, C>> \in DOMAIN vbaseOffset \/ <<D, C>> \in DOMAIN offsets(TRUE)
        BY <1>6
      <3>2. <<D, C>> \in DOMAIN baseOffset' <=> <<D, C>> \in DOMAIN baseOffset \/ <<D, C>> \in DOMAIN offsets(FALSE)
        BY <1>6
      <3>3. \A b \in Bases(prog, D) : b.virtual \in BOOLEAN
        BY <1>2, ProgramsAre
      <3>4. D \in classes' <=> D \in classes \/ D = TI
        BY <1>5
      <3>5. <<D, C>> \in DOMAIN offsets(TRUE) <=> D = TI /\ \E b \in Bases(prog, D) : b.base = C /\ b.virtual = TRUE
        BY <1>4
      <3>6. <<D, C>> \in DOMAIN offsets(FALSE) <=> D = TI /\ \E b \in Bases(prog, D) : b.base = C /\ b.virtual = FALSE
        BY <1>4
      <3>7. /\ <<D, C>> \in DOMAIN vbaseOffset <=>
                      D \in classes /\ \E b \in Bases(prog, D) : b.base = C /\ b.virtual
            /\ <<D, C>> \in DOMAIN baseOffset <=>
                      D \in classes /\ \E b \in Bases(prog, D) : b.base = C /\ ~b.virtual
        BY DEF HierarchyInv, TablesInv
      <3> QED
        BY <3>1, <3>2, <3>3, <3>4, <3>5, <3>6, <3>7
    <2>5. ASSUME NEW D \in classes', NEW b \in Bases(prog, D)
          PROVE  IF b.virtual THEN vbaseOffset'[<<D, b.base>>] = b.offset ELSE baseOffset'[<<D, b.base>>] = b.offset
      <3>1. b.virtual \in BOOLEAN /\ b.base \in prog.class /\ D \in prog.class
        BY <1>2, <2>1, ProgramsAre
      <3> DEFINE e == <<D, b.base>>
      <3>2. CASE D = TI
        <4>1. CASE b.virtual
          <5>1. b.virtual = TRUE
            BY <3>1, <4>1
          <5>2. e \in DOMAIN offsets(TRUE) /\ offsets(TRUE)[e] = b.offset
            BY <1>2, <1>4, <3>1, <3>2, <5>1
          <5>3. vbaseOffset'[e] = offsets(TRUE)[e]
            BY <1>6, <5>2
          <5> QED
            BY <4>1, <5>2, <5>3
        <4>2. CASE ~b.virtual
          <5>1. b.virtual = FALSE
            BY <3>1, <4>2
          <5>2. e \in DOMAIN offsets(FALSE) /\ offsets(FALSE)[e] = b.offset
            BY <1>2, <1>4, <3>1, <3>2, <5>1
          <5>3. baseOffset'[e] = offsets(FALSE)[e]
            BY <1>6, <5>2
          <5> QED
            BY <4>2, <5>2, <5>3
        <4> QED
          BY <4>1, <4>2
      <3>3. CASE D # TI
        <4>1. D \in classes
          BY <1>5, <3>3
        <4>2. e \notin DOMAIN offsets(TRUE) /\ e \notin DOMAIN offsets(FALSE)
          BY <1>4, <3>1, <3>3
        <4>3. /\ b.virtual => e \in DOMAIN vbaseOffset /\ vbaseOffset[e] = b.offset
              /\ ~b.virtual => e \in DOMAIN baseOffset /\ baseOffset[e] = b.offset
          BY <3>1, <4>1 DEF HierarchyInv, TablesInv
        <4>4. /\ e \in DOMAIN vbaseOffset => vbaseOffset'[e] = vbaseOffset[e]
              /\ e \in DOMAIN baseOffset => baseOffset'[e] = baseOffset[e]
          BY <1>6, <4>2
        <4> QED
          BY <3>1, <4>3, <4>4
      <3> QED
        BY <3>2, <3>3
    <2>6. /\ DOMAIN subtables' = classes' \cap DOMAIN prog.vtable
          /\ \A C \in DOMAIN subtables' : subtables'[C] = Addresses(prog.vtable[C])
      <3> DEFINE g == [C \in {TI} \cap DOMAIN prog.vtable |-> Addresses(prog.vtable[C])]
      <3>1. DOMAIN g = {TI} \cap DOMAIN prog.vtable /\ \A C \in DOMAIN g : g[C] = Addresses(prog.vtable[C])
        OBVIOUS
      <3>2. subtables' = Merge(subtables, g)
        BY <1>5
      <3> HIDE DEF g
      <3>3. /\ DOMAIN subtables' = DOMAIN subtables \cup DOMAIN g
            /\ \A e \in DOMAIN subtables' : subtables'[e] = IF e \in DOMAIN g THEN g[e] ELSE subtables[e]
        <4>1. /\ DOMAIN Merge(subtables, g) = DOMAIN subtables \cup DOMAIN g
              /\ \A e \in DOMAIN subtables \cup DOMAIN g :
                   Merge(subtables, g)[e] = IF e \in DOMAIN g THEN g[e] ELSE subtables[e]
          BY Merged
        <4> QED
          BY <3>2, <4>1
      <3>4. /\ DOMAIN subtables = classes \cap DOMAIN prog.vtable
            /\ \A C \in DOMAIN subtables : subtables[C] = Addresses(prog.vtable[C])
        BY DEF HierarchyInv, TablesInv
      <3> QED
        BY <1>5, <3>1, <3>3, <3>4
    <2>7. prog' = prog
      BY <1>2
    <2> QED
      BY <2>1, <2>2, <2>3, <2>4, <2>5, <2>6, <2>7 DEF TablesInv
  <1>8. Listed' /\ VisitsRight' /\ ChainsDealt'
    BY <1>2 DEF Listed, VisitsRight, ChainsDealt
  <1>9. OnlyImplementations'
    BY <1>2, Unchanged DEF HierarchyInv, OnlyImplementations
  <1> QED
    BY <1>3, <1>7, <1>8, <1>9 DEF HierarchyInv

(* What the other steps leave as it is.                                    *)
LEMMA TablesStay ==
  ASSUME TablesInv, prog' = prog, UNCHANGED tables
  PROVE  TablesInv'
  BY DEF TablesInv, tables

LEMMA ClassesFoundKeeps ==
  ASSUME HierarchyInv, ClassesFound
  PROVE  HierarchyInv'
  <1>1. /\ phase = "types" /\ classes = prog.class /\ phase' = "calls"
        /\ UNCHANGED <<prog, left, call, walk, callees>> /\ UNCHANGED tables
    BY DEF ClassesFound
  <1>2. Typed' /\ TablesInv' /\ Listed'
    BY <1>1, TablesStay DEF HierarchyInv, Typed, Listed, tables
  <1>3. VisitsRight' /\ OnlyImplementations'
    BY <1>1, Unchanged DEF HierarchyInv, VisitsRight, OnlyImplementations
  <1>4. ChainsDealt'
    <2>1. \A c \in DOMAIN prog.call : \E i \in 1..Len(left) : left[i] = c
      <3>1. left = prog.calls /\ prog \in Programs /\ left \in Seq(DOMAIN prog.call)
        BY <1>1 DEF HierarchyInv, Typed
      <3>2. DOMAIN prog.call = {prog.calls[i] : i \in DOMAIN prog.calls}
        BY <3>1, HierarchyAssumption DEF HierarchyAssumption
      <3>3. DOMAIN left = 1..Len(left)
        BY <3>1
      <3> QED
        BY <3>1, <3>2, <3>3
    <2> QED
      BY <1>1, <2>1 DEF ChainsDealt
  <1> QED
    BY <1>2, <1>3, <1>4 DEF HierarchyInv

LEMMA CallsFoundKeeps ==
  ASSUME HierarchyInv, CallsFound \/ EndCall
  PROVE  HierarchyInv'
  <1>1. /\ phase \in {"calls", "walk"} /\ phase' \in {"calls", "done"}
        /\ phase = "walk" => walk = << >>
        /\ UNCHANGED <<prog, left, call, walk, callees>> /\ UNCHANGED tables
    BY DEF CallsFound, EndCall
  <1>2. Typed' /\ TablesInv' /\ Listed'
    BY <1>1, TablesStay DEF HierarchyInv, Typed, Listed, tables
  <1>3. VisitsRight' /\ OnlyImplementations'
    BY <1>1, Unchanged DEF HierarchyInv, VisitsRight, OnlyImplementations
  <1>4. ChainsDealt'
    <2>1. \A c, q : phase = "walk" => ~ToVisit(c, q)
      <3>1. 1..Len(<< >>) = {}
        OBVIOUS
      <3> QED
        BY <1>1, <3>1 DEF ToVisit
    <2>2. \A c, q : Dealt(c, q)' <=> Dealt(c, q)
      BY <1>1 DEF Dealt
    <2> QED
      BY <1>1, <2>1, <2>2, Unchanged DEF HierarchyInv, ChainsDealt
  <1> QED
    BY <1>2, <1>3, <1>4 DEF HierarchyInv

(* The end of a chain that jumps once at most is one too.                  *)
LEMMA ChainEnds ==
  ASSUME prog \in Programs, NEW c, NEW q, Climbs(prog, c, q), Once(prog, q), NEW m \in 1..Len(q)
  PROVE  /\ Climbs(prog, c, SubSeq(q, m, Len(q))) /\ Once(prog, SubSeq(q, m, Len(q)))
         /\ SubSeq(q, m, Len(q))[1] = q[m]
         /\ m = 1 => SubSeq(q, m, Len(q)) = q
         /\ m = Len(q) => SubSeq(q, m, Len(q)) = <<Defining(prog, c)>>
         /\ m > 1 => /\ m - 1 \in 1..(Len(q) - 1)
                     /\ SubSeq(q, m - 1, Len(q)) = <<q[m - 1]>> \o SubSeq(q, m, Len(q))
  <1> DEFINE n == Len(q)
             r == SubSeq(q, m, n)
  <1>1. q \in Seq(prog.class) /\ n \in Nat /\ n >= 1 /\ Chain(prog, q) /\ q[n] = Defining(prog, c)
    BY ChainTyped DEF Climbs
  <1>2. n \in m..n /\ m \in Nat
    BY <1>1
  <1>3. /\ Chain(prog, r) /\ Len(r) = n - m + 1
        /\ \A i \in 1..(n - m + 1) : r[i] = q[m + i - 1]
        /\ r[1] = q[m] /\ r[n - m + 1] = q[n]
        /\ \A i \in 1..(n - m) : Jumps(prog, r, i) <=> Jumps(prog, q, m + i - 1)
    BY <1>1, <1>2, SubChain
  <1> HIDE DEF n, r
  <1>4. Climbs(prog, c, r)
    BY <1>1, <1>3 DEF Climbs
  <1>5. Once(prog, r)
    <2>1. SUFFICES ASSUME NEW i \in 1..(Len(r) - 1), NEW j \in 1..(Len(r) - 1), Jumps(prog, r, i), Jumps(prog, r, j)
                   PROVE  i = j
      BY DEF Once
    <2>2. i \in 1..(n - m) /\ j \in 1..(n - m)
      BY <1>1, <1>2, <1>3
    <2>3. m + i - 1 \in 1..(n - 1) /\ m + j - 1 \in 1..(n - 1)
      BY <1>1, <1>2, <2>2
    <2>4. m + i - 1 = m + j - 1
      BY <1>3, <2>1, <2>2, <2>3 DEF Once, n
    <2> QED
      BY <1>2, <2>2, <2>4
  <1>6. r \in Seq(prog.class)
    BY <1>3, ChainTyped
  <1>7. ASSUME m = 1 PROVE r = q
    <2>1. Len(r) = Len(q)
      BY <1>1, <1>3, <1>7 DEF n
    <2>2. ASSUME NEW i \in 1..Len(q) PROVE r[i] = q[i]
      <3>1. i \in 1..(n - m + 1) /\ m + i - 1 = i
        BY <1>1, <1>7 DEF n
      <3> QED
        BY <1>3, <3>1
    <2> QED
      BY <1>1, <1>6, <2>1, <2>2, SeqEqual
  <1>8. ASSUME m = n PROVE r = <<Defining(prog, c)>>
    <2>1. Len(r) = 1
      BY <1>1, <1>3, <1>8
    <2> QED
      BY <1>1, <1>3, <1>8, <2>1, OfOne
  <1>9. ASSUME m > 1
        PROVE  m - 1 \in 1..(n - 1) /\ SubSeq(q, m - 1, n) = <<q[m - 1]>> \o r
    <2>1. m - 1 \in 1..(n - 1) /\ m - 1 \in 1..n /\ n \in (m - 1)..n
      BY <1>1, <1>2, <1>9 DEF n
    <2> DEFINE u == SubSeq(q, m - 1, n)
               w == <<q[m - 1]>> \o r
    <2>2. /\ Chain(prog, u) /\ Len(u) = n - (m - 1) + 1
          /\ \A i \in 1..(n - (m - 1) + 1) : u[i] = q[(m - 1) + i - 1]
      BY <1>1, <2>1, SubChain DEF n
    <2>3. q[m - 1] \in prog.class
      BY <1>1, <2>1, ChainTyped DEF n
    <2>4. /\ w \in Seq(prog.class) /\ Len(w) = Len(r) + 1 /\ w[1] = q[m - 1]
          /\ \A i \in 1..Len(r) : w[i + 1] = r[i]
      <3>1. PICK K : K = prog.class
        OBVIOUS
      <3>2. q[m - 1] \in K /\ r \in Seq(K)
        BY <1>6, <2>3, <3>1
      <3>3. /\ w \in Seq(K) /\ Len(w) = Len(r) + 1 /\ w[1] = q[m - 1]
            /\ \A i \in 1..Len(r) : w[i + 1] = r[i]
        BY <3>2, Prepended
      <3> QED
        BY <3>1, <3>3
    <2> HIDE DEF u, w
    <2>5. u \in Seq(prog.class) /\ Len(u) = Len(w)
      <3>1. n - (m - 1) + 1 = n - m + 1 + 1
        BY <1>1, <1>2
      <3> QED
        BY <1>3, <2>2, <2>4, <3>1, ChainTyped
    <2>6. ASSUME NEW i \in 1..Len(u) PROVE u[i] = w[i]
      <3>1. i \in 1..(n - (m - 1) + 1) /\ u[i] = q[(m - 1) + i - 1]
        BY <2>2
      <3>2. CASE i = 1
        BY <1>2, <2>4, <3>1, <3>2
      <3>3. CASE i # 1
        <4>1. i - 1 \in 1..(n - m + 1) /\ (i - 1) + 1 = i /\ m + (i - 1) - 1 = (m - 1) + i - 1
          BY <1>1, <1>2, <3>1, <3>3
        <4>2. w[i] = r[i - 1] /\ r[i - 1] = q[m + (i - 1) - 1]
          BY <1>3, <2>4, <4>1
        <4> QED
          BY <3>1, <4>1, <4>2
      <3> QED
        BY <3>2, <3>3
    <2> QED
      BY <2>1, <2>4, <2>5, <2>6, SeqEqual DEF u, w
  <1> QED
    BY <1>3, <1>4, <1>5, <1>7, <1>8, <1>9 DEF n, r

LEMMA BeginCallKeeps ==
  ASSUME HierarchyInv, BeginCall
  PROVE  HierarchyInv'
  <1> DEFINE c == Head(left)
             w == Visit(Defining(prog, c), INT_MAX, 0, 0, FALSE)
  <1>1. /\ phase = "calls" /\ left # << >> /\ left' = Tail(left) /\ call' = c
        /\ UNCHANGED <<prog, callees>> /\ UNCHANGED tables
        /\ phase' \in {"calls", "walk", "fatal"}
        /\ Judged(c) => phase' \in {"walk", "fatal"}
        /\ phase' = "walk" => walk' = <<w>>
    BY DEF BeginCall, Judged, Defining
  <1>2. /\ prog \in Programs /\ classes = prog.class /\ left \in Seq(DOMAIN prog.call)
        /\ DOMAIN callees = DOMAIN prog.call
    BY <1>1 DEF HierarchyInv, Typed
  <1>3. /\ left' \in Seq(DOMAIN prog.call) /\ c \in DOMAIN prog.call
        /\ c = left[1] /\ Len(left) \in Nat /\ Len(left') = Len(left) - 1
        /\ \A i \in 1..(Len(left) - 1) : left'[i] = left[i + 1]
    <2>1. PICK K : K = DOMAIN prog.call
      OBVIOUS
    <2>2. left \in Seq(K)
      BY <1>2, <2>1
    <2>3. /\ Tail(left) \in Seq(K) /\ Len(Tail(left)) = Len(left) - 1 /\ Len(left) \in Nat \ {0}
          /\ \A i \in 1..(Len(left) - 1) : Tail(left)[i] = left[i + 1]
          /\ left[1] \in K
      BY <1>1, <2>2, Parted
    <2>4. c = left[1]
      BY <1>1, <2>2
    <2> QED
      BY <1>1, <2>1, <2>3, <2>4
  <1>4. Typed'
    BY <1>1, <1>2, <1>3 DEF Typed, tables
  <1>5. TablesInv'
    BY <1>1, TablesStay DEF HierarchyInv
  <1> HIDE DEF c, w
  <1>6. phase' = "walk" => walk' \in Seq({w}) /\ Len(walk') = 1 /\ walk'[1] = w
    <2>1. <<w>> \in Seq({w}) /\ Len(<<w>>) = 1 /\ <<w>>[1] = w
      OBVIOUS
    <2> QED
      BY <1>1, <2>1
  <1>7. Listed'
    <2>1. walk' \in Seq({w}) => walk' \in Seq({walk'[i] : i \in DOMAIN walk'})
      BY ListedIs
    <2> QED
      BY <1>6, <2>1 DEF Listed
  <1>8. Judged(c) => /\ Climbs(prog, c, <<Defining(prog, c)>>) /\ Once(prog, <<Defining(prog, c)>>)
                     /\ VisitedBy(c, w, <<Defining(prog, c)>>)
    <2>1. Judged(c) => Defining(prog, c) \in prog.class
      BY <1>2, ProgramsAre DEF Judged, Known, Defining
    <2> QED
      BY <1>2, <2>1, BeginsRight DEF w
  <1>9. VisitsRight'
    <2>1. SUFFICES ASSUME phase' = "walk", Judged(c), NEW i \in 1..Len(walk')
                   PROVE  \E q : Climbs(prog, c, q) /\ Once(prog, q) /\ VisitedBy(c, walk'[i], q)
      <3>1. Judged(call)' <=> Judged(c)
        BY <1>1 DEF Judged, Known
      <3>2. \A v, q : VisitedBy(call, v, q)' <=> VisitedBy(c, v, q)
        BY <1>1 DEF VisitedBy
      <3> QED
        BY <1>1, <3>1, <3>2 DEF VisitsRight
    <2>2. walk'[i] = w
      <3>1. Len(walk') = 1 /\ walk'[1] = w
        BY <1>6, <2>1
      <3>2. i = 1
        BY <2>1, <3>1
      <3> QED
        BY <3>1, <3>2
    <2> QED
      BY <1>8, <2>1, <2>2
  <1>10. OnlyImplementations'
    BY <1>1, Unchanged DEF HierarchyInv, OnlyImplementations
  <1>11. ChainsDealt'
    <2>1. SUFFICES ASSUME phase' \in {"calls", "walk"}, NEW d \in DOMAIN prog.call, Judged(d),
                          \A i \in 1..Len(left') : left'[i] # d,
                          NEW q, Climbs(prog, d, q), Once(prog, q)
                   PROVE  Dealt(d, q)' \/ (phase' = "walk" /\ d = c /\ ToVisit(d, q)')
      BY <1>1, Unchanged DEF ChainsDealt
    <2>2. Dealt(d, q)' <=> Dealt(d, q)
      BY <1>1 DEF Dealt
    <2>3. CASE d = c
      <3>1. phase' = "walk" /\ Len(walk') = 1 /\ walk'[1] = w
        BY <1>1, <1>6, <2>1, <2>3
      <3>2. Len(q) \in 1..Len(q)
        BY <2>1, ChainTyped DEF Climbs
      <3>3. SubSeq(q, Len(q), Len(q)) = <<Defining(prog, c)>>
        BY <1>2, <2>1, <2>3, <3>2, ChainEnds
      <3>4. VisitedBy(c, walk'[1], SubSeq(q, Len(q), Len(q)))
        BY <1>8, <2>1, <2>3, <3>1, <3>3
      <3>5. 1 \in 1..Len(walk')
        BY <3>1
      <3>6. ToVisit(d, q)'
        BY <1>1, <2>3, <3>2, <3>4, <3>5, Unchanged
      <3> QED
        BY <2>3, <3>1, <3>6
    <2>4. CASE d # c
      <3>1. \A i \in 1..Len(left) : left[i] # d
        <4>1. SUFFICES ASSUME NEW i \in 1..Len(left), i # 1 PROVE left[i] # d
          BY <1>3, <2>4
        <4>2. i - 1 \in 1..(Len(left) - 1) /\ (i - 1) + 1 = i
          BY <1>3, <4>1
        <4> QED
          BY <1>3, <2>1, <4>2
      <3> QED
        BY <1>1, <2>1, <2>2, <3>1 DEF HierarchyInv, ChainsDealt
    <2> QED
      BY <2>3, <2>4
  <1> QED
    BY <1>4, <1>5, <1>7, <1>9, <1>10, <1>11 DEF HierarchyInv

(* The subclasses are visited in some order, each of them.                 *)
Covers(s, S) == \A x \in S : \E i \in 1..Len(s) : s[i] = x

LEMMA Ordered ==
  ASSUME NEW S, IsFiniteSet(S)
  PROVE  InSomeOrder(S) \in Seq(S) /\ Covers(InSomeOrder(S), S)
  <1> DEFINE n == Cardinality(S)
             good(s) == \A x \in S : \E i \in DOMAIN s : s[i] = x
  <1>1. n \in Nat /\ ExistsBijection(1..n, S)
    BY FS_CardinalityType
  <1>2. \E s \in [1..n -> S] : good(s)
    <2>1. PICK f : f \in Bijection(1..n, S)
      BY <1>1 DEF ExistsBijection
    <2>2. f \in [1..n -> S] /\ \A x \in S : \E i \in 1..n : f[i] = x
      BY <2>1 DEF Bijection, Surjection
    <2>3. good(f)
      BY <2>2
    <2> QED
      BY <2>2, <2>3
  <1> DEFINE o == CHOOSE s \in [1..n -> S] : good(s)
  <1>3. o \in [1..n -> S] /\ good(o)
    <2> HIDE DEF good
    <2> QED
      BY <1>2
  <1>4. InSomeOrder(S) = o
    BY DEF InSomeOrder
  <1> HIDE DEF o, n
  <1>5. o \in Seq(S) /\ DOMAIN o = 1..Len(o)
    <2>1. o \in Seq(S)
      BY <1>1, <1>3, SeqDef
    <2> QED
      BY <2>1
  <1> QED
    BY <1>3, <1>4, <1>5 DEF Covers

LEMMA BelowAreFinite ==
  ASSUME prog \in Programs, TablesInv, NEW v, v.class \in prog.class
  PROVE  IsFiniteSet({Down(v, sub) : sub \in subclasses[v.class]})
  <1> DEFINE X == subclasses[v.class]
             T == {Down(v, sub) : sub \in X}
             f == [sub \in X |-> Down(v, sub)]
  <1>1. X \subseteq prog.class
    BY DEF TablesInv
  <1>2. IsFiniteSet(X)
    BY <1>1, ProgramsAre, FS_Subset
  <1> HIDE DEF X
  <1>3. f \in Surjection(X, T)
    BY DEF Surjection
  <1> QED
    BY <1>2, <1>3, FS_Surjection DEF X

(* What is still to be visited after a visit.                              *)
LEMMA WalkGoesOn ==
  ASSUME NEW W, NEW w, w \in Seq(W), w # << >>, NEW S, NEW o, o \in Seq(S),
         Covers(o, S), NEW u, u = o \o Tail(w)
  PROVE  /\ u \in Seq(S \cup W)
         /\ \A i \in 1..Len(u) : u[i] \in S \/ \E j \in 1..Len(w) : u[i] = w[j]
         /\ Covers(u, S) /\ Covers(u, {w[j] : j \in 1..Len(w) \ {1}})
  <1> DEFINE U == S \cup W
             T == Tail(w)
  <1>1. /\ T \in Seq(W) /\ Len(T) = Len(w) - 1 /\ Len(w) \in Nat \ {0} /\ Len(o) \in Nat
        /\ \A i \in 1..(Len(w) - 1) : T[i] = w[i + 1]
    BY Parted
  <1>2. T \in Seq(U) /\ o \in Seq(U)
    BY <1>1
  <1> HIDE DEF U, T
  <1>3. /\ u \in Seq(U) /\ Len(u) = Len(o) + Len(T)
        /\ \A i \in 1..(Len(o) + Len(T)) : u[i] = IF i <= Len(o) THEN o[i] ELSE T[i - Len(o)]
    BY <1>2, ConcatProperties DEF T
  <1>4. ASSUME NEW i \in 1..Len(u) PROVE u[i] \in S \/ \E j \in 1..Len(w) : u[i] = w[j]
    <2>1. CASE i <= Len(o)
      <3>1. i \in 1..Len(o) /\ u[i] = o[i]
        BY <1>1, <1>3, <2>1
      <3> QED
        BY <3>1
    <2>2. CASE ~(i <= Len(o))
      <3>1. /\ u[i] = T[i - Len(o)] /\ i - Len(o) \in 1..(Len(w) - 1)
            /\ (i - Len(o)) + 1 \in 1..Len(w)
        BY <1>1, <1>3, <2>2
      <3> QED
        BY <1>1, <3>1
    <2> QED
      BY <2>1, <2>2
  <1>5. ASSUME NEW x \in S PROVE \E i \in 1..Len(u) : u[i] = x
    <2>1. PICK i \in 1..Len(o) : o[i] = x
      BY DEF Covers
    <2>2. i \in 1..Len(u) /\ u[i] = o[i]
      BY <1>1, <1>3
    <2> QED
      BY <2>1, <2>2
  <1>6. ASSUME NEW j \in 1..Len(w), j # 1 PROVE \E i \in 1..Len(u) : u[i] = w[j]
    <2>1. j - 1 \in 1..(Len(w) - 1) /\ (j - 1) + 1 = j
      BY <1>1, <1>6
    <2>2. PICK k \in 1..(Len(o) + Len(T)) : ~(k <= Len(o)) /\ k - Len(o) = j - 1
      <3>1. /\ Len(o) + (j - 1) \in 1..(Len(o) + Len(T)) /\ ~(Len(o) + (j - 1) <= Len(o))
            /\ (Len(o) + (j - 1)) - Len(o) = j - 1
        BY <1>1, <2>1
      <3> QED
        BY <3>1
    <2>3. u[k] = T[j - 1] /\ T[j - 1] = w[j] /\ k \in 1..Len(u)
      BY <1>1, <1>3, <2>1, <2>2
    <2> QED
      BY <2>3
  <1>7. Covers(u, S)
    BY <1>5 DEF Covers
  <1>8. Covers(u, {w[j] : j \in 1..Len(w) \ {1}})
    BY <1>6 DEF Covers
  <1> QED
    BY <1>3, <1>4, <1>7, <1>8 DEF U

(* A chain whose last visit is made has been dealt with, or goes on.       *)
LEMMA VisitDeals ==
  ASSUME HierarchyInv, phase = "walk", Judged(call), NEW v, ~Fatal(v),
         NEW q, Climbs(prog, call, q), Once(prog, q), NEW m \in 1..Len(q),
         VisitedBy(call, v, SubSeq(q, m, Len(q))),
         NEW D, Found(v) \subseteq D
  PROVE  \/ /\ q[1] \in DOMAIN prog.vtable /\ Passes(prog, call, q) =>
                  \A t : PartOf(prog, q, t) => Overriding(prog, call, q[1], t) \subseteq Targets(prog, D)
            /\ Straight(prog, q) \/ \A E \in prog.class : \A b \in Bases(prog, E) : b.base = q[1] => ~b.virtual
         \/ /\ m - 1 \in 1..Len(q)
            /\ \E sub \in subclasses[v.class] : VisitedBy(call, Down(v, sub), SubSeq(q, m - 1, Len(q)))
  <1> DEFINE r == SubSeq(q, m, Len(q))
  <1>1. prog \in Programs /\ TablesInv /\ classes = prog.class /\ call \in DOMAIN prog.call
    BY DEF HierarchyInv, Typed
  <1>2. /\ Climbs(prog, call, r) /\ Once(prog, r) /\ r[1] = q[m]
        /\ m = 1 => r = q
        /\ m > 1 => /\ m - 1 \in 1..(Len(q) - 1)
                    /\ SubSeq(q, m - 1, Len(q)) = <<q[m - 1]>> \o r
    <2>1. Climbs(prog, call, r) /\ Once(prog, r) /\ r[1] = q[m]
      <3>1. Climbs(prog, call, r)
        BY <1>1, ChainEnds
      <3>2. Once(prog, r)
        BY <1>1, ChainEnds
      <3>3. r[1] = q[m]
        BY <1>1, ChainEnds
      <3> QED
        BY <3>1, <3>2, <3>3
    <2>2. m = 1 => r = q
      BY <1>1, ChainEnds
    <2>3. m > 1 => /\ m - 1 \in 1..(Len(q) - 1)
                  /\ SubSeq(q, m - 1, Len(q)) = <<q[m - 1]>> \o r
      BY <1>1, ChainEnds
    <2> QED
      BY <2>1, <2>2, <2>3
  <1>3. VisitedBy(call, v, r)
    OBVIOUS
  <1> HIDE DEF r
  <1>4. v.class = r[1] /\ Len(q) \in Nat /\ Chain(prog, q)
    BY <1>3, ChainTyped DEF VisitedBy, Climbs
  <1>5. CASE m = 1
    <2>1. VisitedBy(call, v, q) /\ v.class = q[1] /\ q[1] \in prog.class
      BY <1>2, <1>3, <1>4, <1>5, ChainTyped DEF Climbs
    <2>2. q[1] \in DOMAIN prog.vtable /\ Passes(prog, call, q) =>
            \A t : PartOf(prog, q, t) => Overriding(prog, call, q[1], t) \subseteq Targets(prog, D)
      <3>1. ASSUME q[1] \in DOMAIN prog.vtable, Passes(prog, call, q), NEW t, PartOf(prog, q, t)
            PROVE  Overriding(prog, call, q[1], t) \subseteq Targets(prog, D)
        <4>1. Targets(prog, Found(v)) = Overriding(prog, call, q[1], t)
          BY <1>1, <2>1, <3>1, FindsRight
        <4> QED
          BY <4>1 DEF Targets
      <3> QED
        BY <3>1
    <2>3. ASSUME ~Straight(prog, q), NEW E \in prog.class, NEW b \in Bases(prog, E), b.base = q[1], b.virtual
          PROVE  FALSE
      <3>1. PICK k \in 1..(Len(q) - 1) : Jumps(prog, q, k)
        BY <1>4, <2>3 DEF Straight
      <3>2. PICK d \in Bases(prog, q[k]) : d.virtual /\ v.vboo = d.offset
        BY <2>1, <3>1 DEF VisitedBy
      <3>3. q[k] \in prog.class
        <4>1. k \in 1..Len(q)
          BY <1>4
        <4> QED
          BY <1>4, <4>1, ChainTyped
      <3>4. v.vboo # INT_MAX
        <4>1. d.offset \in Int /\ d.offset < 0
          BY <1>1, <3>2, <3>3, ProgramsAre
        <4> QED
          BY <3>2, <4>1 DEF INT_MAX
      <3>5. E \in subclasses[v.class] /\ <<E, v.class>> \in DOMAIN vbaseOffset
        BY <1>1, <2>1, <2>3 DEF TablesInv
      <3> QED
        BY <3>4, <3>5 DEF Fatal, AnotherVirtualBase
    <2> QED
      BY <2>2, <2>3
  <1>6. CASE m # 1
    <2>1. m > 1 /\ (m - 1) + 1 = m
      BY <1>4, <1>6
    <2>2. m - 1 \in 1..(Len(q) - 1) /\ SubSeq(q, m - 1, Len(q)) = <<q[m - 1]>> \o r
      BY <1>2, <2>1
    <2>3. m - 1 \in 1..Len(q)
      BY <1>4, <2>2
    <2>4. q[m - 1] \in prog.class /\ q[m] \in prog.class /\ \E b \in Bases(prog, q[m - 1]) : b.base = q[m]
      BY <1>4, <2>1, <2>2, <2>3, ChainTyped DEF Chain
    <2>5. q[m - 1] \in subclasses[r[1]]
      BY <1>1, <1>2, <2>4, SubclassesAre
    <2>6. ~AnotherVirtualBase(v)
      BY DEF Fatal
    <2>7. VisitedBy(call, Down(v, q[m - 1]), <<q[m - 1]>> \o r)
      BY <1>1, <1>2, <1>3, <2>5, <2>6, GoesDown
    <2> QED
      BY <1>4, <2>2, <2>3, <2>5, <2>7
  <1> QED
    BY <1>5, <1>6

LEMMA VisitClassKeeps ==
  ASSUME HierarchyInv, VisitClass
  PROVE  HierarchyInv'
  <1> DEFINE v == Head(walk)
             S == {Down(v, sub) : sub \in subclasses[v.class]}
             o == InSomeOrder(S)
  <1>1. /\ phase = "walk" /\ walk # << >> /\ UNCHANGED <<prog, left, call>> /\ UNCHANGED tables
        /\ Fatal(v) => phase' = "fatal" /\ UNCHANGED callees
        /\ ~Fatal(v) => /\ callees' = [callees EXCEPT ![call] = @ \cup Found(v)]
                        /\ walk' = o \o Tail(walk) /\ phase' = phase
    BY DEF VisitClass
  <1> HIDE DEF v, S, o
  <1>2. /\ prog \in Programs /\ TablesInv /\ classes = prog.class /\ call \in DOMAIN prog.call
        /\ left \in Seq(DOMAIN prog.call) /\ DOMAIN callees = DOMAIN prog.call
    BY <1>1 DEF HierarchyInv, Typed
  <1>3. Typed'
    BY <1>1, <1>2 DEF Typed, tables
  <1>4. TablesInv'
    BY <1>1, <1>2, TablesStay
  <1>5. CASE Fatal(v)
    <2>1. phase' = "fatal" /\ callees' = callees /\ prog' = prog
      BY <1>1, <1>5
    <2>2. OnlyImplementations'
      BY <2>1, Unchanged DEF HierarchyInv, OnlyImplementations
    <2>3. Listed' /\ VisitsRight' /\ ChainsDealt'
      BY <2>1 DEF Listed, VisitsRight, ChainsDealt
    <2> QED
      BY <1>3, <1>4, <2>2, <2>3 DEF HierarchyInv
  <1>6. CASE ~Fatal(v)
    <2>1. /\ callees' = [callees EXCEPT ![call] = @ \cup Found(v)] /\ walk' = o \o Tail(walk)
          /\ phase' = "walk" /\ prog' = prog /\ call' = call /\ left' = left
      BY <1>1, <1>6
    <2>2. /\ callees'[call] = callees[call] \cup Found(v)
          /\ \A c \in DOMAIN prog.call : c # call => callees'[c] = callees[c]
      BY <1>2, <2>1
    <2>3. \A c \in DOMAIN prog.call : \A q : Dealt(c, q) => Dealt(c, q)'
      <3>1. \A c \in DOMAIN prog.call : Targets(prog, callees[c]) \subseteq Targets(prog, callees'[c])
        BY <2>2 DEF Targets
      <3> QED
        BY <2>1, <3>1 DEF Dealt
    <2>4. ASSUME NEW c \in DOMAIN prog.call, c # call, Judged(c), \A i \in 1..Len(left) : left[i] # c,
                 NEW q, Climbs(prog, c, q), Once(prog, q)
          PROVE  Dealt(c, q)'
      <3>1. Dealt(c, q)
        BY <1>1, <2>4 DEF HierarchyInv, ChainsDealt
      <3> QED
        BY <2>3, <3>1
    <2>5. CASE ~Judged(call)
      <3>1. ~Judged(call)'
        BY <2>1, <2>5 DEF Judged, Known
      <3>2. Listed' /\ VisitsRight'
        BY <3>1 DEF Listed, VisitsRight
      <3>3. OnlyImplementations'
        BY <2>1, <2>2, <2>5, Unchanged DEF HierarchyInv, OnlyImplementations
      <3>4. ChainsDealt'
        BY <2>1, <2>4, <2>5, Unchanged DEF ChainsDealt
      <3> QED
        BY <1>3, <1>4, <3>2, <3>3, <3>4 DEF HierarchyInv
    <2>6. CASE Judged(call)
      <3>1. PICK W : walk \in Seq(W)
        BY <1>1, <2>6 DEF HierarchyInv, Listed
      <3>2. v = walk[1] /\ 1 \in 1..Len(walk)
        BY <1>1, <3>1 DEF v
      <3>3. \A i \in 1..Len(walk) : \E q : Climbs(prog, call, q) /\ Once(prog, q) /\ VisitedBy(call, walk[i], q)
        BY <1>1, <2>6 DEF HierarchyInv, VisitsRight
      <3>4. PICK r : Climbs(prog, call, r) /\ Once(prog, r) /\ VisitedBy(call, v, r)
        BY <3>2, <3>3
      <3>5. v.class = r[1] /\ r[1] \in prog.class
        BY <3>4, ChainTyped DEF Climbs, VisitedBy
      <3>6. o \in Seq(S) /\ Covers(o, S)
        <4>1. IsFiniteSet(S)
          BY <1>2, <3>5, BelowAreFinite DEF S
        <4> QED
          BY <4>1, Ordered DEF o
      <3>7. /\ walk' \in Seq(S \cup W)
            /\ \A i \in 1..Len(walk') : walk'[i] \in S \/ \E j \in 1..Len(walk) : walk'[i] = walk[j]
            /\ \A x \in S : \E i \in 1..Len(walk') : walk'[i] = x
            /\ \A j \in 1..Len(walk) : j # 1 => \E i \in 1..Len(walk') : walk'[i] = walk[j]
        <4>1. PICK u, w : u = walk' /\ w = walk
          OBVIOUS
        <4>2. w \in Seq(W) /\ w # << >> /\ u = o \o Tail(w)
          BY <1>1, <2>1, <3>1, <4>1
        <4>3. u \in Seq(S \cup W)
          BY <3>6, <4>2, WalkGoesOn
        <4>4. \A i \in 1..Len(u) : u[i] \in S \/ \E j \in 1..Len(w) : u[i] = w[j]
          BY <3>6, <4>2, WalkGoesOn
        <4>5. Covers(u, S)
          BY <3>6, <4>2, WalkGoesOn
        <4>6. Covers(u, {w[j] : j \in 1..Len(w) \ {1}})
          BY <3>6, <4>2, WalkGoesOn
        <4> QED
          BY <4>1, <4>3, <4>4, <4>5, <4>6 DEF Covers
      <3>8. ~AnotherVirtualBase(v)
        BY <1>6 DEF Fatal
      <3>9. Listed'
        <4>1. walk' \in Seq({walk'[i] : i \in DOMAIN walk'})
          BY <3>7, ListedIs
        <4> QED
          BY <4>1 DEF Listed
      <3>10. VisitsRight'
        <4>1. SUFFICES ASSUME NEW i \in 1..Len(walk')
                       PROVE  \E q : Climbs(prog, call, q) /\ Once(prog, q) /\ VisitedBy(call, walk'[i], q)
          <5>1. \A w, q : VisitedBy(call, w, q)' <=> VisitedBy(call', w, q)
            BY <2>1 DEF VisitedBy
          <5> QED
            BY <2>1, <5>1 DEF VisitsRight
        <4>2. CASE walk'[i] \in S
          <5>1. PICK sub \in subclasses[v.class] : walk'[i] = Down(v, sub)
            BY <4>2 DEF S
          <5>2. sub \in subclasses[r[1]]
            BY <3>5, <5>1
          <5>3. Climbs(prog, call, <<sub>> \o r) /\ Once(prog, <<sub>> \o r)
            BY <1>2, <2>6, <3>4, <3>8, <5>2, GoesDown
          <5>4. VisitedBy(call, Down(v, sub), <<sub>> \o r)
            BY <1>2, <2>6, <3>4, <3>8, <5>2, GoesDown
          <5> QED
            BY <5>1, <5>3, <5>4
        <4>3. CASE \E j \in 1..Len(walk) : walk'[i] = walk[j]
          BY <3>3, <4>3
        <4> QED
          BY <3>7, <4>2, <4>3
      <3>11. OnlyImplementations'
        <4>1. /\ Targets(prog, Found(v)) \subseteq Implementations(prog, call)
              /\ \A f \in Found(v) : MayStay(prog, f)
          <5>1. PICK t : PartOf(prog, r, t)
            BY <1>2, <3>4, PartExists DEF Climbs
          <5>2. /\ Targets(prog, Found(v)) = IF r[1] \in DOMAIN prog.vtable /\ Passes(prog, call, r)
                                             THEN Overriding(prog, call, r[1], t) ELSE {}
                /\ \A f \in Found(v) : MayStay(prog, f)
            BY <1>2, <2>6, <3>4, <5>1, FindsRight
          <5>3. r[1] \in DOMAIN prog.vtable /\ Passes(prog, call, r) =>
                  Overriding(prog, call, r[1], t) \subseteq Implementations(prog, call)
            BY <1>2, <3>4, <5>1, ChainImplements
          <5> QED
            BY <5>2, <5>3
        <4>2. ASSUME NEW c \in DOMAIN prog.call, Judged(c)
              PROVE  /\ Targets(prog, callees'[c]) \subseteq Implementations(prog, c)
                     /\ \A f \in callees'[c] : MayStay(prog, f)
          <5>1. /\ Targets(prog, callees[c]) \subseteq Implementations(prog, c)
                /\ \A f \in callees[c] : MayStay(prog, f)
            BY <4>2 DEF HierarchyInv, OnlyImplementations
          <5>2. CASE c # call
            BY <2>2, <5>1, <5>2
          <5>3. CASE c = call
            <6>1. callees'[c] = callees[c] \cup Found(v)
              BY <2>2, <5>3
            <6>2. Targets(prog, callees'[c]) = Targets(prog, callees[c]) \cup Targets(prog, Found(v))
              BY <6>1 DEF Targets
            <6> QED
              BY <4>1, <5>1, <5>3, <6>1, <6>2
          <5> QED
            BY <5>2, <5>3
        <4> QED
          BY <2>1, <4>2, Unchanged DEF OnlyImplementations
      <3>12. ChainsDealt'
        <4>1. PICK c : c = call /\ c = call'
          BY <2>1
        <4>2. ASSUME NEW q, Climbs(prog, c, q), Once(prog, q), \A i \in 1..Len(left) : left[i] # c
              PROVE  Dealt(c, q)' \/ ToVisit(c, q)'
          <5> DEFINE later(m) == SubSeq(q, m, Len(q))
          <5>1. Dealt(c, q) \/ ToVisit(c, q)
            BY <1>1, <1>2, <2>6, <4>1, <4>2 DEF HierarchyInv, ChainsDealt
          <5>2. CASE Dealt(c, q)
            BY <1>2, <2>3, <4>1, <5>2
          <5>3. CASE ToVisit(c, q)
            <6>1. PICK j \in 1..Len(walk), m \in 1..Len(q) : VisitedBy(c, walk[j], later(m))
              BY <5>3 DEF ToVisit
            <6>2. CASE j # 1
              <7>1. PICK i \in 1..Len(walk') : walk'[i] = walk[j]
                BY <3>7, <6>2
              <7> QED
                BY <2>1, <6>1, <7>1, Unchanged
            <6>3. CASE j = 1
              <7>1. VisitedBy(call, v, later(m))
                BY <3>2, <4>1, <6>1, <6>3
              <7>2. Found(v) \subseteq callees'[call]
                BY <2>2
              <7>3. Climbs(prog, call, q)
                BY <4>1, <4>2
              <7>4. \/ /\ q[1] \in DOMAIN prog.vtable /\ Passes(prog, call, q) =>
                            \A t : PartOf(prog, q, t) => Overriding(prog, call, q[1], t) \subseteq Targets(prog, callees'[call])
                       /\ \/ Straight(prog, q)
                          \/ \A E \in prog.class : \A b \in Bases(prog, E) : b.base = q[1] => ~b.virtual
                    \/ /\ m - 1 \in 1..Len(q)
                       /\ \E sub \in subclasses[v.class] : VisitedBy(call, Down(v, sub), later(m - 1))
                BY <1>1, <1>6, <2>6, <4>2, <7>1, <7>2, <7>3, VisitDeals
              <7>5. ASSUME m - 1 \in 1..Len(q), NEW sub \in subclasses[v.class],
                           VisitedBy(call, Down(v, sub), later(m - 1))
                    PROVE  ToVisit(c, q)'
                <8>1. PICK i \in 1..Len(walk') : walk'[i] = Down(v, sub)
                  BY <3>7 DEF S
                <8>2. VisitedBy(c, walk'[i], later(m - 1))
                  BY <4>1, <7>5, <8>1
                <8> QED
                  BY <2>1, <7>5, <8>2, Unchanged
              <7>6. ASSUME /\ q[1] \in DOMAIN prog.vtable /\ Passes(prog, call, q) =>
                                \A t : PartOf(prog, q, t) => Overriding(prog, call, q[1], t) \subseteq Targets(prog, callees'[call])
                           /\ \/ Straight(prog, q)
                              \/ \A E \in prog.class : \A b \in Bases(prog, E) : b.base = q[1] => ~b.virtual
                    PROVE  Dealt(c, q)'
                BY <2>1, <4>1, <7>6 DEF Dealt
              <7> QED
                BY <7>4, <7>5, <7>6
            <6> QED
              BY <6>2, <6>3
          <5> QED
            BY <5>1, <5>2, <5>3
        <4> QED
          BY <2>1, <2>4, <4>1, <4>2, Unchanged DEF ChainsDealt
      <3> QED
        BY <1>3, <1>4, <3>9, <3>10, <3>11, <3>12 DEF HierarchyInv
    <2> QED
      BY <2>5, <2>6
  <1> QED
    BY <1>5, <1>6

LEMMA StutterKeeps ==
  ASSUME HierarchyInv, UNCHANGED hvars
  PROVE  HierarchyInv'
  <1>1. UNCHANGED <<prog, phase, left, call, walk, callees>> /\ UNCHANGED tables
    BY DEF hvars
  <1>2. Typed' /\ TablesInv'
    BY <1>1, TablesStay DEF HierarchyInv, Typed, tables
  <1>3. \A c, v, q : VisitedBy(c, v, q)' <=> VisitedBy(c, v, q)
    BY <1>1 DEF VisitedBy
  <1>4. \A c, q : Dealt(c, q)' <=> Dealt(c, q)
    BY <1>1 DEF Dealt
  <1>5. \A c, q : ToVisit(c, q)' <=> ToVisit(c, q)
    BY <1>1, <1>3 DEF ToVisit
  <1>6. Judged(call)' <=> Judged(call)
    BY <1>1 DEF Judged, Known
  <1>7. Listed'
    BY <1>1, <1>6 DEF HierarchyInv, Listed
  <1>8. VisitsRight'
    <2>1. \A v, q : VisitedBy(call, v, q)' <=> VisitedBy(call, v, q)
      BY <1>1 DEF VisitedBy
    <2> QED
      BY <1>1, <1>6, <2>1 DEF HierarchyInv, VisitsRight
  <1>9. OnlyImplementations' /\ ChainsDealt'
    BY <1>1, <1>4, <1>5, Unchanged DEF HierarchyInv, OnlyImplementations, ChainsDealt
  <1> QED
    BY <1>2, <1>7, <1>8, <1>9 DEF HierarchyInv

LEMMA HierarchyInvInductive ==
  HierarchyInv /\ [Next]_hvars => HierarchyInv'
  <1> SUFFICES ASSUME HierarchyInv, [Next]_hvars PROVE HierarchyInv'
    OBVIOUS
  <1>1. CASE ProcessTypeInfo
    BY <1>1, TypeInfoKeeps
  <1>2. CASE ClassesFound
    BY <1>2, ClassesFoundKeeps
  <1>3. CASE BeginCall
    BY <1>3, BeginCallKeeps
  <1>4. CASE CallsFound \/ EndCall
    BY <1>4, CallsFoundKeeps
  <1>5. CASE VisitClass
    BY <1>5, VisitClassKeeps
  <1>6. CASE UNCHANGED hvars
    BY <1>6, StutterKeeps
  <1> QED
    BY <1>1, <1>2, <1>3, <1>4, <1>5, <1>6 DEF Next

(***************************************************************************)
(* In every state, a virtual call that has been looked at leads to exactly *)
(* the functions that C++ gives it, for objects of any class whose virtual *)
(* table is in the module, and has the thunk of one as its callee only if  *)
(* the thunk is a covariant function's or has no body: in every hierarchy  *)
(* of finitely many classes, however bases are repeated or virtual, whose  *)
(* tables have the functions or thunks of them where the ABI says.         *)
(***************************************************************************)
THEOREM CalleesExact == Spec => []VirtualCalleesExact
  <1>1. HierarchyInv /\ [Next]_hvars => HierarchyInv'
    BY HierarchyInvInductive
  <1>2. HierarchyInv => VirtualCalleesExact
    BY InvExact
  <1> QED
    BY InitKeeps, <1>1, <1>2, PTL DEF Spec
=============================================================================
