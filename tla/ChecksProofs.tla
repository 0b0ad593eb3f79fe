---------------------------- MODULE ChecksProofs ----------------------------
(***************************************************************************)
(* Theorems about the pass as a whole (the specification of Checks), for   *)
(* every set of programs, through the search for sandboxes, the growth of  *)
(* the call graph and the options: first about finding sandboxes and what  *)
(* is kept of them, then about the reports, from annotation to report, and *)
(* about the traces of CallPaths that come with them.                      *)
(***************************************************************************)
EXTENDS Checks, FiniteSetTheorems, SequenceTheorems, WellFoundedInduction, TLAPS

-----------------------------------------------------------------------------
(* Sequences and their elements.                                           *)

LEMMA NotEmpty ==
  ASSUME NEW T, NEW s \in Seq(T), Len(s) > 0
  PROVE  s # << >>
  OBVIOUS

LEMMA Appended ==
  ASSUME NEW T, NEW s \in Seq(T), NEW x \in T
  PROVE  /\ Append(s, x) \in Seq(T) /\ Append(s, x) # << >>
         /\ Elements(Append(s, x)) = Elements(s) \cup {x}
  <1>1. Append(s, x) \in Seq(T) /\ Len(Append(s, x)) = Len(s) + 1 /\ Len(s) \in Nat
    OBVIOUS
  <1>2. Append(s, x) # << >>
    BY <1>1, NotEmpty
  <1>3. DOMAIN Append(s, x) = DOMAIN s \cup {Len(s) + 1}
    BY <1>1
  <1>4. (\A i \in DOMAIN s : Append(s, x)[i] = s[i]) /\ Append(s, x)[Len(s) + 1] = x
    OBVIOUS
  <1>5. Elements(Append(s, x)) = Elements(s) \cup {x}
    BY <1>3, <1>4 DEF Elements
  <1>6. QED
    BY <1>1, <1>2, <1>5

LEMMA Joined ==
  ASSUME NEW T, NEW s \in Seq(T), NEW t \in Seq(T)
  PROVE  /\ s \o t \in Seq(T) /\ (s # << >> => s \o t # << >>)
         /\ Elements(s \o t) = Elements(s) \cup Elements(t)
  <1>1. s \o t \in Seq(T) /\ Len(s \o t) = Len(s) + Len(t) /\ Len(s) \in Nat /\ Len(t) \in Nat
    OBVIOUS
  <1>2. s # << >> => s \o t # << >>
    <2>1. s # << >> => Len(s) > 0
      BY <1>1
    <2>2. QED
      BY <1>1, <2>1, NotEmpty
  <1>3. Elements(s \o t) = Elements(s) \cup Elements(t)
    <2>1. ASSUME NEW i \in DOMAIN (s \o t) PROVE (s \o t)[i] \in Elements(s) \cup Elements(t)
      <3>1. CASE i \in DOMAIN s
        BY <3>1 DEF Elements
      <3>2. CASE i \notin DOMAIN s
        <4>1. i - Len(s) \in DOMAIN t /\ (s \o t)[i] = t[i - Len(s)]
          BY <1>1, <3>2
        <4>2. QED
          BY <4>1 DEF Elements
      <3>3. QED
        BY <3>1, <3>2
    <2>2. \A i \in DOMAIN s : i \in DOMAIN (s \o t) /\ (s \o t)[i] = s[i]
      BY <1>1
    <2>3. \A i \in DOMAIN t : i + Len(s) \in DOMAIN (s \o t) /\ (s \o t)[i + Len(s)] = t[i]
      BY <1>1
    <2>4. Elements(s \o t) \subseteq Elements(s) \cup Elements(t)
      <3>1. ASSUME NEW x \in Elements(s \o t) PROVE x \in Elements(s) \cup Elements(t)
        <4>1. PICK i \in DOMAIN (s \o t) : x = (s \o t)[i]
          BY <3>1 DEF Elements
        <4>2. QED
          BY <2>1, <4>1
      <3>2. QED
        BY <3>1
    <2>5. Elements(s) \subseteq Elements(s \o t)
      BY <2>2 DEF Elements
    <2>6. Elements(t) \subseteq Elements(s \o t)
      BY <2>3 DEF Elements
    <2>7. QED
      BY <2>4, <2>5, <2>6
  <1>4. QED
    BY <1>1, <1>2, <1>3

LEMMA FirstAndRest ==
  ASSUME NEW T, NEW s \in Seq(T), s # << >>
  PROVE  /\ Head(s) \in T /\ Tail(s) \in Seq(T) /\ Head(s) = s[1]
         /\ Elements(s) = {Head(s)} \cup Elements(Tail(s))
  <1>1. /\ Len(s) \in Nat /\ Len(s) > 0 /\ Head(s) = s[1] /\ Tail(s) \in Seq(T)
        /\ Len(Tail(s)) = Len(s) - 1 /\ \A i \in 1..(Len(s) - 1) : Tail(s)[i] = s[i + 1]
    OBVIOUS
  <1>2. Elements(s) \subseteq {Head(s)} \cup Elements(Tail(s))
    <2>1. ASSUME NEW i \in DOMAIN s PROVE s[i] \in {Head(s)} \cup Elements(Tail(s))
      <3>1. CASE i = 1
        BY <1>1, <3>1
      <3>2. CASE i # 1
        <4>1. i - 1 \in 1..(Len(s) - 1) /\ (i - 1) + 1 = i
          BY <1>1, <3>2
        <4>2. i - 1 \in DOMAIN Tail(s) /\ Tail(s)[i - 1] = s[i]
          BY <1>1, <4>1
        <4> QED
          BY <4>2 DEF Elements
      <3> QED
        BY <3>1, <3>2
    <2> QED
      BY <2>1 DEF Elements
  <1>3. \A i \in DOMAIN Tail(s) : i + 1 \in DOMAIN s /\ Tail(s)[i] = s[i + 1]
    BY <1>1
  <1>4. 1 \in DOMAIN s
    BY <1>1
  <1> QED
    BY <1>1, <1>2, <1>3, <1>4 DEF Elements

LEMMA PutFirst ==
  ASSUME NEW T, NEW x \in T, NEW s \in Seq(T)
  PROVE  LET r == <<x>> \o s
         IN r \in Seq(T) /\ r # << >> /\ Head(r) = x /\ Elements(r) = {x} \cup Elements(s)
  <1>1. <<x>> \in Seq(T) /\ Elements(<<x>>) = {x} /\ <<x>> # << >>
    BY DEF Elements
  <1>2. PICK u \in Seq(T) : u = <<x>>
    BY <1>1
  <1>3. u \o s \in Seq(T) /\ u \o s # << >> /\ Elements(u \o s) = Elements(u) \cup Elements(s)
    BY <1>1, <1>2, Joined
  <1>4. Head(<<x>> \o s) = x
    OBVIOUS
  <1> QED
    BY <1>1, <1>2, <1>3, <1>4

(* No element comes twice.                                                 *)
Once(s) == \A i, j \in DOMAIN s : s[i] = s[j] => i = j

LEMMA OnceJoined ==
  ASSUME NEW T, NEW s \in Seq(T), NEW t \in Seq(T), Once(s), Once(t),
         Elements(s) \cap Elements(t) = {}
  PROVE  Once(s \o t)
  <1> DEFINE r == s \o t
             n == Len(s)
  <1>1. n \in Nat /\ Len(t) \in Nat /\ DOMAIN r = 1..(n + Len(t)) /\ DOMAIN s = 1..n /\ DOMAIN t = 1..Len(t)
    OBVIOUS
  <1>2. \A i \in DOMAIN r : i \in DOMAIN s => r[i] = s[i]
    OBVIOUS
  <1>3. \A i \in DOMAIN r : i \notin DOMAIN s => i - n \in DOMAIN t /\ r[i] = t[i - n]
    BY <1>1
  <1>4. \A i \in DOMAIN s, j \in DOMAIN t : s[i] # t[j]
    BY DEF Elements
  <1> HIDE DEF r, n
  <1>5. ASSUME NEW i \in DOMAIN r, NEW j \in DOMAIN r, r[i] = r[j] PROVE i = j
    <2>1. CASE i \in DOMAIN s /\ j \in DOMAIN s
      BY <1>2, <1>5, <2>1 DEF Once
    <2>2. CASE i \notin DOMAIN s /\ j \notin DOMAIN s
      <3>1. i - n = j - n
        BY <1>3, <1>5, <2>2 DEF Once
      <3> QED
        BY <1>1, <3>1
    <2>3. CASE i \in DOMAIN s /\ j \notin DOMAIN s
      BY <1>2, <1>3, <1>4, <1>5, <2>3
    <2>4. CASE i \notin DOMAIN s /\ j \in DOMAIN s
      BY <1>2, <1>3, <1>4, <1>5, <2>4
    <2> QED
      BY <2>1, <2>2, <2>3, <2>4
  <1> QED
    BY <1>5 DEF Once, r

LEMMA OnceCounted ==
  ASSUME NEW T, NEW s \in Seq(T), Once(s)
  PROVE  Cardinality(Elements(s)) = Len(s)
  <1>1. Len(s) \in Nat /\ DOMAIN s = 1..Len(s)
    OBVIOUS
  <1>2. s \in Bijection(1..Len(s), Elements(s))
    <2>1. s \in [1..Len(s) -> Elements(s)]
      BY <1>1 DEF Elements
    <2>2. IsInjective(s)
      BY DEF Once, IsInjective
    <2>3. \A y \in Elements(s) : \E x \in 1..Len(s) : s[x] = y
      BY <1>1 DEF Elements
    <2> QED
      BY <2>1, <2>2, <2>3 DEF Bijection, Injection, Surjection, IsInjective
  <1>3. ExistsBijection(1..Len(s), Elements(s))
    BY <1>2 DEF ExistsBijection
  <1> QED
    BY <1>1, <1>3, FS_CountingElements

-----------------------------------------------------------------------------
(* Types: the sequence of sandboxes, their records and names' bits.        *)

Record(r) ==
  r = [name |-> r.name, idx |-> r.idx, entry |-> r.entry, region |-> r.region,
       persistent |-> r.persistent, overhead |-> r.overhead, clear |-> r.clear]

SandboxesType == sandboxes \in Seq(Elements(sandboxes)) /\ \A S \in Boxes : Record(sandboxes[S])

NamesType ==
  /\ IsFiniteSet(DOMAIN names)
  /\ names = [n \in DOMAIN names |-> names[n]]
  /\ \A n \in DOMAIN names : names[n] \in Nat /\ names[n] < Cardinality(DOMAIN names)

Frames(p) == [left : Seq(Blocks(p)), found : Instrs(p) \cup {None}]

(* The walk over a region has found an instruction, the region's start.    *)
WalkType ==
  walk # NoWalk =>
    /\ walk = [start |-> walk.start, visited |-> walk.visited, insts |-> walk.insts,
               stack |-> walk.stack]
    /\ walk.insts \in Seq(Instrs(prog)) /\ walk.insts # << >>
    /\ walk.stack \in Seq(Frames(prog)) /\ walk.stack # << >>

(* A sandbox of a name that has one already is a region without bit.       *)
Repeated(S) == \E T \in Boxes : T < S /\ sandboxes[T].name = sandboxes[S].name

BitRight(S) ==
  IF Repeated(S)
  THEN sandboxes[S].idx = -1 /\ IsRegion(S) /\ sandboxes[S].region # << >>
  ELSE sandboxes[S].idx = names[sandboxes[S].name]

(* Names have sandboxes, each name its own bit.                            *)
NamesInv ==
  /\ SandboxesType /\ NamesType /\ WalkType
  /\ DOMAIN names = {sandboxes[S].name : S \in Boxes}
  /\ \A m, n \in DOMAIN names : names[m] = names[n] => m = n
  /\ \A S \in Boxes : BitRight(S)

FindPhases == {"annotations", "make", "regions", "references"}

EntriesNamed == \A f \in DOMAIN entryOf : entryOf[f] \in DOMAIN names

(* Whose turn it is to have a sandbox made.                                *)
TurnsInv ==
  /\ prog \in Programs
  /\ phase \in FindPhases => ~Found
  /\ phase = "annotations" => sandboxes = << >>
  /\ phase = "make" =>
       /\ toMake \cap DOMAIN names = {}
       /\ \A f \in DOMAIN entryOf : entryOf[f] \in toMake \cup DOMAIN names
  /\ phase = "regions" => EntriesNamed /\ toMake \subseteq Notes(prog, "start")
  /\ phase = "pointers" => Found
  /\ phase = "references" => EntriesNamed /\ Referenced(prog) \subseteq toMake \cup DOMAIN names
  /\ Found => EntriesNamed /\ Referenced(prog) \subseteq DOMAIN names /\ Priv \in DOMAIN graph

BitsInv == NamesInv /\ TurnsInv

(* A new sandbox keeps what is said of the old ones.                       *)
LEMMA BitForType ==
  ASSUME NamesType, NEW n
  PROVE  IF n \in DOMAIN names THEN BitFor(n) = -1
         ELSE BitFor(n) = Cardinality(DOMAIN names) /\ BitFor(n) \in Nat
  BY FS_CardinalityType DEF NamesType, BitFor

LEMMA MakeNames ==
  ASSUME NamesInv, NEW n, NEW entry, NEW region, NEW persistent, NEW overhead, NEW clear,
         Make(n, entry, region, persistent, overhead, clear),
         n \in DOMAIN names => entry = {} /\ region # << >>, WalkType'
  PROVE  NamesInv' /\ DOMAIN names' = DOMAIN names \cup {n}
  <1>a. PICK k : k = Len(sandboxes) + 1
    OBVIOUS
  <1>b. PICK r : r = [name |-> n, idx |-> BitFor(n), entry |-> entry, region |-> region,
                      persistent |-> persistent, overhead |-> overhead, clear |-> clear]
    OBVIOUS
  <1>1. sandboxes' = Append(sandboxes, r) /\ Len(sandboxes) \in Nat
          /\ Boxes = 1..Len(sandboxes)
    BY <1>b DEF Make, NamesInv, SandboxesType, Boxes
  <1>2. /\ Boxes' = Boxes \cup {k} /\ k \notin Boxes /\ Boxes \subseteq Nat /\ k \in Nat
        /\ \A S \in Boxes : S < k /\ sandboxes'[S] = sandboxes[S]
        /\ sandboxes'[k] = r
    BY <1>a, <1>1 DEF Boxes, NamesInv, SandboxesType
  <1>3. SandboxesType'
    <2>1. sandboxes' \in Seq(Elements(sandboxes'))
      <3>1. Elements(sandboxes) \subseteq Elements(sandboxes') /\ r \in Elements(sandboxes')
        BY <1>2 DEF Elements, Boxes
      <3>2. sandboxes \in Seq(Elements(sandboxes'))
        BY <3>1 DEF NamesInv, SandboxesType
      <3>3. QED
        BY <1>1, <3>1, <3>2
    <2>2. Record(r)
      BY <1>b DEF Record
    <2>3. QED
      BY <1>2, <2>1, <2>2 DEF NamesInv, SandboxesType
  <1>4. /\ DOMAIN names' = DOMAIN names \cup {n}
        /\ \A m \in DOMAIN names : names'[m] = names[m]
        /\ n \notin DOMAIN names => names'[n] = BitFor(n)
        /\ names' = [m \in DOMAIN names' |-> names'[m]]
    BY DEF Make, With, NamesInv, NamesType
  <1>5. /\ IsFiniteSet(DOMAIN names) /\ Cardinality(DOMAIN names) \in Nat
        /\ IsFiniteSet(DOMAIN names')
        /\ Cardinality(DOMAIN names') =
             Cardinality(DOMAIN names) + (IF n \in DOMAIN names THEN 0 ELSE 1)
    BY <1>4, FS_CardinalityType, FS_AddElement DEF NamesInv, NamesType
  <1>6. n \notin DOMAIN names => BitFor(n) = Cardinality(DOMAIN names)
    BY BitForType DEF NamesInv
  <1>7. NamesType'
    <2>1. \A m \in DOMAIN names' : names'[m] \in Nat /\ names'[m] < Cardinality(DOMAIN names')
      BY <1>4, <1>5, <1>6 DEF NamesInv, NamesType
    <2>2. QED
      BY <1>4, <1>5, <2>1 DEF NamesType
  <1>8. DOMAIN names' = {sandboxes'[S].name : S \in Boxes'}
    <2>1. sandboxes'[k].name = n
      BY <1>b, <1>2
    <2>2. {sandboxes'[S].name : S \in Boxes'} = {sandboxes[S].name : S \in Boxes} \cup {n}
      BY <1>2, <2>1
    <2>3. QED
      BY <1>4, <2>2 DEF NamesInv
  <1>9. \A m1, m2 \in DOMAIN names' : names'[m1] = names'[m2] => m1 = m2
    BY <1>4, <1>5, <1>6 DEF NamesInv, NamesType
  <1>10. ASSUME NEW S \in Boxes' PROVE BitRight(S)'
    <2>1. sandboxes'[k].name = n /\ sandboxes'[k].idx = BitFor(n)
            /\ sandboxes'[k].entry = entry /\ sandboxes'[k].region = region
      BY <1>b, <1>2
    <2>2. CASE S \in Boxes
      <3>1. BitRight(S) /\ sandboxes'[S] = sandboxes[S] /\ sandboxes[S].name \in DOMAIN names
        BY <1>2, <2>2 DEF NamesInv
      <3>2. \A T \in Boxes' : T < S => T \in Boxes /\ sandboxes'[T] = sandboxes[T]
        <4>1. S < k /\ S \in Nat /\ k \in Nat
          BY <1>2, <2>2
        <4>2. ~(k < S)
          BY <4>1
        <4>3. QED
          BY <1>2, <4>2
      <3>3. Repeated(S)' <=> Repeated(S)
        BY <1>2, <3>1, <3>2 DEF Repeated
      <3>4. IsRegion(S)' <=> IsRegion(S)
        BY <3>1 DEF IsRegion
      <3>5. names'[sandboxes[S].name] = names[sandboxes[S].name]
        BY <1>4, <3>1
      <3>6. QED
        BY <3>1, <3>3, <3>4, <3>5 DEF BitRight
    <2>3. CASE S = k
      <3>1. Repeated(k)' <=> n \in DOMAIN names
        BY <1>2, <2>1 DEF NamesInv, Repeated
      <3>2. CASE n \in DOMAIN names
        <4>1. BitFor(n) = -1
          BY <3>2, BitForType DEF NamesInv
        <4>2. QED
          BY <2>1, <2>3, <3>1, <3>2, <4>1 DEF BitRight, IsRegion
      <3>3. CASE n \notin DOMAIN names
        BY <1>4, <2>1, <2>3, <3>1, <3>3 DEF BitRight
      <3>4. QED
        BY <3>2, <3>3
    <2>4. QED
      BY <1>2, <2>2, <2>3
  <1>11. QED
    BY <1>3, <1>4, <1>7, <1>8, <1>9, <1>10 DEF NamesInv

-----------------------------------------------------------------------------
(* The walk over a region.                                                 *)

(* Of a non-empty set of positions, one is the first.                      *)
LEMMA FirstPosition ==
  ASSUME NEW T \in SUBSET Nat, T # {}
  PROVE  \E x \in T : \A y \in T : x <= y
  <1> DEFINE R == {ss \in Nat \X Nat : ss[1] < ss[2]}
  <1>1. IsWellFoundedOn(R, Nat)
    BY NatLessThanWellFounded, Zenon DEF OpToRel
  <1>2. PICK x \in T : \A y \in T : ~(<<y, x>> \in R)
    <2> HIDE DEF R
    <2>1. QED
      BY <1>1, WFMin
  <1>3. ASSUME NEW y \in T PROVE x <= y
    <2>1. x \in Nat /\ y \in Nat
      OBVIOUS
    <2>2. <<y, x>> \in R <=> y < x
      BY <2>1
    <2>3. QED
      BY <1>2, <2>1, <2>2
  <1>4. QED
    BY <1>3

LEMMA LongTail ==
  ASSUME NEW T, NEW s \in Seq(T), Len(s) > 1
  PROVE  Tail(s) \in Seq(T) /\ Tail(s) # << >>
  <1>1. Tail(s) \in Seq(T) /\ Len(Tail(s)) = Len(s) - 1 /\ Len(s) \in Nat
    OBVIOUS
  <1>2. Len(Tail(s)) > 0
    BY <1>1
  <1>3. QED
    BY <1>1, <1>2, NotEmpty

LEMMA SegmentType ==
  ASSUME NEW p \in Programs, NEW start, NEW b \in Blocks(p), NEW i \in Nat \ {0}
  PROVE  /\ Segment(p, start, b, i) \in Seq(Instrs(p))
         /\ i \in DOMAIN p.body[b] => Segment(p, start, b, i) # << >>
         /\ Frame(p, start, b, i) \in Frames(p)
  <1> DEFINE s == p.body[b]
             ends == {j \in i..Len(s) : EndsAt(p, start, s[j])}
  <1>1. s \in Seq(Instrs(p)) /\ p.succ[b] \in Seq(Blocks(p)) /\ Len(s) \in Nat
    BY ProgramsAssumption
  <1>2. LastWalked(p, start, b, i) \in Nat /\ LastWalked(p, start, b, i) <= Len(s)
          /\ (i <= Len(s) => i <= LastWalked(p, start, b, i))
    <2>1. CASE ends = {}
      BY <1>1, <2>1 DEF LastWalked
    <2>2. CASE ends # {}
      <3>1. ends \in SUBSET Nat
        BY <1>1
      <3>2. \E j \in ends : \A k \in ends : j <= k
        <4> HIDE DEF ends
        <4>1. QED
          BY <2>2, <3>1, FirstPosition
      <3>3. LastWalked(p, start, b, i) \in ends
        BY <2>2, <3>2 DEF LastWalked
      <3>4. QED
        BY <1>1, <3>3
    <2>3. QED
      BY <2>1, <2>2
  <1>3. PICK l \in Nat : l = LastWalked(p, start, b, i) /\ l <= Len(s) /\ (i <= Len(s) => i <= l)
    BY <1>2
  <1>4. SubSeq(s, i, l) \in Seq(Instrs(p))
    <2> HIDE DEF s
    <2>1. QED
      BY <1>1, <1>3
  <1>5. i \in DOMAIN s => SubSeq(s, i, l) # << >>
    <2> HIDE DEF s
    <2>1. SUFFICES ASSUME i \in DOMAIN s PROVE SubSeq(s, i, l) # << >>
      OBVIOUS
    <2>2. i <= l
      BY <1>1, <1>3, <2>1
    <2>3. Len(SubSeq(s, i, l)) = l - i + 1
      BY <1>1, <1>3, <2>2
    <2>4. Len(SubSeq(s, i, l)) > 0
      BY <1>3, <2>2, <2>3
    <2>5. QED
      BY <1>4, <2>4, NotEmpty
  <1>6. Segment(p, start, b, i) = SubSeq(s, i, l)
    BY <1>3 DEF Segment
  <1>7. EndFound(p, start, b, i) \in Instrs(p) \cup {None}
    <2>1. PICK t \in Seq(Instrs(p)) : t = Segment(p, start, b, i)
      BY <1>4, <1>6
    <2>2. t # << >> => t[Len(t)] \in Instrs(p)
      OBVIOUS
    <2>3. QED
      BY <2>1, <2>2 DEF EndFound
  <1>8. Frame(p, start, b, i) \in Frames(p)
    BY <1>1, <1>7 DEF Frame, Frames
  <1>9. QED
    BY <1>4, <1>5, <1>6, <1>8

LEMMA StartInBlock ==
  ASSUME NEW p \in Programs, NEW n \in Notes(p, "start")
  PROVE  /\ BlockOf(p, n) \in Blocks(p)
         /\ PositionOf(p, n) \in DOMAIN p.body[BlockOf(p, n)]
         /\ PositionOf(p, n) \in Nat \ {0}
  <1>1. n \in Instrs(p)
    BY ProgramsAssumption DEF Notes
  <1>2. \E b \in Blocks(p) : \E i \in DOMAIN p.body[b] : p.body[b][i] = n
    BY <1>1 DEF Instrs
  <1>3. BlockOf(p, n) \in Blocks(p)
          /\ \E i \in DOMAIN p.body[BlockOf(p, n)] : p.body[BlockOf(p, n)][i] = n
    BY <1>2 DEF BlockOf
  <1>4. PositionOf(p, n) \in DOMAIN p.body[BlockOf(p, n)]
    BY <1>3 DEF PositionOf
  <1>5. p.body[BlockOf(p, n)] \in Seq(Instrs(p))
    BY <1>3, ProgramsAssumption
  <1>6. QED
    BY <1>3, <1>4, <1>5

LEMMA WalkStep ==
  ASSUME prog \in Programs, WalkType, toMake \subseteq Notes(prog, "start"),
         StartRegion \/ WalkSuccessor \/ WalkReturn
  PROVE  WalkType'
  <1>1. CASE StartRegion
    <2>1. PICK n \in toMake :
            walk' = [start |-> n, visited |-> {BlockOf(prog, n)},
                     insts |-> Segment(prog, n, BlockOf(prog, n), PositionOf(prog, n)),
                     stack |-> <<Frame(prog, n, BlockOf(prog, n), PositionOf(prog, n))>>]
      BY <1>1 DEF StartRegion
    <2>2. prog' = prog
      BY <1>1 DEF StartRegion
    <2>3. /\ Segment(prog, n, BlockOf(prog, n), PositionOf(prog, n)) \in Seq(Instrs(prog)) \ {<< >>}
          /\ Frame(prog, n, BlockOf(prog, n), PositionOf(prog, n)) \in Frames(prog)
      BY SegmentType, StartInBlock
    <2>4. QED
      BY <2>1, <2>2, <2>3 DEF WalkType
  <1>2. CASE WalkSuccessor
    <2>1. walk # NoWalk /\ Head(walk.stack).left # << >> /\ prog' = prog
      BY <1>2 DEF WalkSuccessor, Walking
    <2>2. PICK top \in Frames(prog) : top = Head(walk.stack)
      BY <2>1 DEF WalkType
    <2>3. PICK b \in Blocks(prog) : b = Head(top.left)
      BY <2>1, <2>2 DEF Frames
    <2>4. PICK rest \in Seq(Frames(prog)) \ {<< >>} :
            rest = <<[top EXCEPT !.left = Tail(@)]>> \o Tail(walk.stack)
      <3>1. Tail(top.left) \in Seq(Blocks(prog))
        BY <2>1, <2>2 DEF Frames
      <3>2. PICK f \in Frames(prog) : f = [top EXCEPT !.left = Tail(@)]
        BY <3>1 DEF Frames
      <3>3. PICK t \in Seq(Frames(prog)) : t = Tail(walk.stack)
        <4>1. PICK st \in Seq(Frames(prog)) : st = walk.stack /\ st # << >>
          BY <2>1 DEF WalkType
        <4>2. Tail(st) \in Seq(Frames(prog))
          BY <4>1
        <4>3. QED
          BY <4>1, <4>2
      <3>4. <<f>> \o t \in Seq(Frames(prog)) \ {<< >>}
        OBVIOUS
      <3>5. QED
        BY <3>2, <3>3, <3>4
    <2>5. walk' = IF b \in walk.visited THEN [walk EXCEPT !.stack = rest]
                  ELSE [walk EXCEPT !.visited = @ \cup {b},
                                    !.insts = @ \o Segment(prog, walk.start, b, 1),
                                    !.stack = <<Frame(prog, walk.start, b, 1)>> \o rest]
      BY <1>2, <2>2, <2>3, <2>4 DEF WalkSuccessor
    <2>6. PICK seg \in Seq(Instrs(prog)) : seg = Segment(prog, walk.start, b, 1)
      BY SegmentType
    <2>7. PICK fr \in Frames(prog) : fr = Frame(prog, walk.start, b, 1)
      BY SegmentType
    <2>8. walk.insts \o seg \in Seq(Instrs(prog)) \ {<< >>}
      BY <2>1 DEF WalkType
    <2>9. <<fr>> \o rest \in Seq(Frames(prog)) \ {<< >>}
      OBVIOUS
    <2>10. QED
      BY <2>1, <2>5, <2>6, <2>7, <2>8, <2>9 DEF WalkType
  <1>3. CASE WalkReturn
    <2>1. walk # NoWalk /\ Len(walk.stack) > 1 /\ prog' = prog
      BY <1>3 DEF WalkReturn, Walking
    <2>2. PICK top \in Frames(prog) : top = Head(walk.stack)
      BY <2>1 DEF WalkType
    <2>3. Tail(walk.stack) \in Seq(Frames(prog)) /\ Tail(walk.stack) # << >>
      <3>1. PICK st \in Seq(Frames(prog)) : st = walk.stack
        BY <2>1 DEF WalkType
      <3>2. Tail(st) \in Seq(Frames(prog)) /\ Tail(st) # << >>
        BY <2>1, <3>1, LongTail
      <3>3. QED
        BY <3>1, <3>2
    <2>4. PICK below \in Frames(prog) : below = Head(Tail(walk.stack))
      BY <2>3
    <2>5. PICK back \in Frames(prog) :
            back = IF top.found = None THEN below ELSE [below EXCEPT !.found = top.found]
      BY DEF Frames
    <2>6. walk' = [walk EXCEPT !.stack = <<back>> \o Tail(Tail(walk.stack))]
      BY <1>3, <2>2, <2>4, <2>5 DEF WalkReturn
    <2>7. <<back>> \o Tail(Tail(walk.stack)) \in Seq(Frames(prog)) \ {<< >>}
      BY <2>3
    <2>8. QED
      BY <2>1, <2>6, <2>7 DEF WalkType
  <1>4. QED
    BY <1>1, <1>2, <1>3

-----------------------------------------------------------------------------
(* One lemma for each kind of step.                                        *)

LEMMA KeepNames ==
  ASSUME NamesInv, UNCHANGED <<names, sandboxes>>, WalkType'
  PROVE  NamesInv'
  <1>1. SandboxesType' /\ NamesType' /\ Boxes' = Boxes
    BY DEF NamesInv, SandboxesType, NamesType, Boxes
  <1>2. ASSUME NEW S \in Boxes PROVE BitRight(S)'
    BY <1>1 DEF NamesInv, BitRight, Repeated, IsRegion
  <1>3. QED
    BY <1>1, <1>2 DEF NamesInv

LEMMA KeepWalk ==
  ASSUME WalkType, UNCHANGED <<prog, walk>>
  PROVE  WalkType'
  BY DEF WalkType

(* Reinitialisation changes nothing but persistence.                       *)
LEMMA ReinitNames ==
  ASSUME NamesInv, NEW g, NEW xs, Reinit(g, xs), names' = names, WalkType'
  PROVE  NamesInv'
  <1>1. PICK q : sandboxes' = [S \in Boxes |-> [sandboxes[S] EXCEPT !.persistent = q[S]]]
    BY DEF Reinit
  <1>2. PICK n \in Nat : Boxes = 1..n
    BY DEF NamesInv, SandboxesType, Boxes
  <1>3. Boxes' = Boxes
    BY <1>1 DEF Boxes
  <1>4. sandboxes' \in Seq(Elements(sandboxes'))
    <2>1. sandboxes' \in [1..n -> Elements(sandboxes')]
      <3>1. \A S \in 1..n : sandboxes'[S] \in Elements(sandboxes')
        BY <1>2, <1>3 DEF Elements, Boxes
      <3>2. sandboxes' = [S \in 1..n |-> sandboxes'[S]]
        BY <1>1, <1>2
      <3>3. QED
        BY <3>1, <3>2
    <2>2. QED
      BY <2>1, SeqDef
  <1>5. ASSUME NEW S \in Boxes
        PROVE  /\ Record(sandboxes'[S])
               /\ sandboxes'[S].name = sandboxes[S].name
               /\ sandboxes'[S].idx = sandboxes[S].idx
               /\ sandboxes'[S].entry = sandboxes[S].entry
               /\ sandboxes'[S].region = sandboxes[S].region
    <2>1. PICK r : r = sandboxes[S] /\ Record(r)
      BY DEF NamesInv, SandboxesType
    <2>2. PICK v : v = q[S]
      OBVIOUS
    <2>3. sandboxes'[S] = [r EXCEPT !.persistent = v]
      BY <1>1, <2>1, <2>2
    <2>4. [r EXCEPT !.persistent = v] =
            [name |-> r.name, idx |-> r.idx, entry |-> r.entry, region |-> r.region,
             persistent |-> v, overhead |-> r.overhead, clear |-> r.clear]
      BY <2>1 DEF Record
    <2>5. QED
      BY <2>1, <2>3, <2>4 DEF Record
  <1>6. SandboxesType'
    BY <1>3, <1>4, <1>5 DEF SandboxesType
  <1>7. ASSUME NEW S \in Boxes PROVE BitRight(S)'
    <2>1. Repeated(S)' <=> Repeated(S)
      BY <1>3, <1>5 DEF Repeated
    <2>2. IsRegion(S)' <=> IsRegion(S)
      BY <1>5 DEF IsRegion
    <2>3. QED
      BY <1>5, <2>1, <2>2 DEF BitRight, NamesInv
  <1>8. {sandboxes'[S].name : S \in Boxes'} = {sandboxes[S].name : S \in Boxes}
    BY <1>3, <1>5
  <1>9. NamesType'
    BY DEF NamesInv, NamesType
  <1>10. QED
    BY <1>3, <1>6, <1>7, <1>8, <1>9 DEF NamesInv

LEMMA HasName ==
  ASSUME NamesInv, NEW n
  PROVE  Named(n) # {} <=> n \in DOMAIN names
  BY DEF NamesInv, Named, Boxes

(* What is left alone when nothing is found any more.                      *)
LEMMA BitsKept ==
  ASSUME BitsInv, UNCHANGED <<prog, findVars, initVars>>,
         phase' = phase \/ phase' \notin FindPhases \cup {"pointers"}
  PROVE  BitsInv'
  <1> USE DEF findVars, annotVars, initVars
  <1>1. NamesInv'
    BY KeepNames, KeepWalk DEF BitsInv, NamesInv
  <1>2. TurnsInv'
    BY DEF BitsInv, TurnsInv, FindPhases, Found, EntriesNamed
  <1>3. QED
    BY <1>1, <1>2 DEF BitsInv

LEMMA OtherSteps ==
  ASSUME CNext, ~FindStep
  PROVE  /\ UNCHANGED <<prog, findVars, initVars>>
         /\ phase' = phase \/ phase' \notin FindPhases \cup {"pointers"}
  <1>1. CASE ProcessCmdLineArgs
    BY <1>1 DEF ProcessCmdLineArgs, FindPhases
  <1>2. CASE TraceStep
    BY <1>2 DEF TraceStep, vars
  <1>3. CASE ValidateCreations \/ Instrument \/ RPC
    BY <1>3 DEF ValidateCreations, Instrument, RPC, Step, FindPhases
  <1>4. CASE Vuln \/ DataFlow \/ PrivCalls
    BY <1>4 DEF Vuln, DataFlow, PrivCalls, Step, FindPhases
  <1>5. CASE SandboxedFuncs \/ PassOver \/ InfoFlowAnalyses
    BY <1>5 DEF SandboxedFuncs, PassOver, InfoFlowAnalyses, Step, FindPhases
  <1>6. QED
    BY <1>1, <1>2, <1>3, <1>4, <1>5 DEF CNext

(* Annotations, and the sandboxes of functions.                            *)
LEMMA FunctionSteps ==
  ASSUME BitsInv,
         \/ EntryAnnotation \/ RightsAnnotation \/ OtherAnnotation \/ EndAnnotations
         \/ MakeFunctionSandbox \/ EndFunctions
  PROVE  BitsInv'
  <1> USE DEF annotVars, initVars
  <1>1. CASE EntryAnnotation \/ RightsAnnotation \/ OtherAnnotation
    <2>1. /\ phase = "annotations" /\ phase' = phase
          /\ UNCHANGED <<prog, walk, names, sandboxes, graph>>
      BY <1>1 DEF EntryAnnotation, RightsAnnotation, OtherAnnotation, ReadAnnotation
    <2>2. NamesInv'
      BY <2>1, KeepNames, KeepWalk DEF BitsInv, NamesInv
    <2>3. TurnsInv'
      BY <2>1 DEF BitsInv, TurnsInv, Found, FindPhases
    <2>4. QED
      BY <2>2, <2>3 DEF BitsInv
  <1>2. CASE EndAnnotations
    <2>1. /\ phase = "annotations" /\ phase' = "make"
          /\ toMake' = {entryOf[f] : f \in DOMAIN entryOf}
          /\ UNCHANGED <<prog, entryOf, walk, names, sandboxes, graph>>
      BY <1>2 DEF EndAnnotations
    <2>2. DOMAIN names = {}
      BY <2>1 DEF BitsInv, NamesInv, TurnsInv, Boxes
    <2>3. NamesInv'
      BY <2>1, KeepNames, KeepWalk DEF BitsInv, NamesInv
    <2>4. TurnsInv'
      BY <2>1, <2>2 DEF BitsInv, TurnsInv, Found, FindPhases
    <2>5. QED
      BY <2>3, <2>4 DEF BitsInv
  <1>3. CASE MakeFunctionSandbox
    <2>1. PICK n, entry, persistent, o, c :
            n \in toMake /\ toMake' = toMake \ {n} /\ Make(n, entry, << >>, persistent, o, c)
      BY <1>3 DEF MakeFunctionSandbox
    <2>2. /\ phase = "make" /\ phase' = phase
          /\ UNCHANGED <<prog, entryOf, walk, graph>>
      BY <1>3 DEF MakeFunctionSandbox
    <2>3. NamesInv' /\ DOMAIN names' = DOMAIN names \cup {n}
      <3>1. n \notin DOMAIN names
        BY <2>1, <2>2 DEF BitsInv, TurnsInv
      <3>2. NamesInv /\ WalkType'
        BY <2>2, KeepWalk DEF BitsInv, NamesInv
      <3>3. QED
        BY <2>1, <3>1, <3>2, MakeNames
    <2>4. TurnsInv'
      BY <2>1, <2>2, <2>3 DEF BitsInv, TurnsInv, Found, FindPhases
    <2>5. QED
      BY <2>3, <2>4 DEF BitsInv
  <1>4. CASE EndFunctions
    <2>1. /\ phase = "make" /\ phase' = "regions" /\ toMake = {}
          /\ toMake' = Notes(prog, "start")
          /\ UNCHANGED <<prog, entryOf, walk, names, sandboxes, graph>>
      BY <1>4 DEF EndFunctions
    <2>2. NamesInv'
      BY <2>1, KeepNames, KeepWalk DEF BitsInv, NamesInv
    <2>3. TurnsInv'
      BY <2>1 DEF BitsInv, TurnsInv, Found, FindPhases, EntriesNamed
    <2>4. QED
      BY <2>2, <2>3 DEF BitsInv
  <1>5. QED
    BY <1>1, <1>2, <1>3, <1>4

(* Regions.                                                                *)
LEMMA RegionSteps ==
  ASSUME BitsInv, StartRegion \/ WalkSuccessor \/ WalkReturn \/ EndRegion \/ EndRegions
  PROVE  BitsInv'
  <1> USE DEF annotVars, initVars
  <1>1. CASE StartRegion \/ WalkSuccessor \/ WalkReturn
    <2>1. /\ phase = "regions" /\ phase' = phase /\ toMake' \subseteq toMake
          /\ UNCHANGED <<prog, entryOf, names, sandboxes, graph>>
      BY <1>1 DEF StartRegion, WalkSuccessor, WalkReturn, Walking
    <2>2. NamesInv'
      BY <1>1, <2>1, KeepNames, WalkStep DEF BitsInv, NamesInv, TurnsInv
    <2>3. TurnsInv'
      BY <2>1 DEF BitsInv, TurnsInv, Found, FindPhases, EntriesNamed
    <2>4. QED
      BY <2>2, <2>3 DEF BitsInv
  <1>2. CASE EndRegion
    <2>1. PICK n, region, persistent, overhead, clear :
            /\ Make(n, {}, region, persistent, overhead, clear)
            /\ region = walk.insts
      BY <1>2 DEF EndRegion
    <2>2. /\ phase = "regions" /\ phase' = phase /\ walk # NoWalk /\ walk' = NoWalk
          /\ UNCHANGED <<prog, entryOf, toMake, graph>>
      BY <1>2 DEF EndRegion, Walking
    <2>3. NamesInv /\ region # << >> /\ WalkType'
      BY <2>1, <2>2 DEF BitsInv, NamesInv, WalkType
    <2>4. NamesInv' /\ DOMAIN names' = DOMAIN names \cup {n}
      BY <2>1, <2>3, MakeNames
    <2>5. TurnsInv'
      BY <2>2, <2>4 DEF BitsInv, TurnsInv, Found, FindPhases, EntriesNamed
    <2>6. QED
      BY <2>4, <2>5 DEF BitsInv
  <1>3. CASE EndRegions
    <2>1. /\ phase = "regions" /\ phase' = "references" /\ toMake' = Referenced(prog)
          /\ UNCHANGED <<prog, entryOf, walk, names, sandboxes, graph>>
      BY <1>3 DEF EndRegions
    <2>2. NamesInv'
      BY <2>1, KeepNames, KeepWalk DEF BitsInv, NamesInv
    <2>3. TurnsInv'
      BY <2>1 DEF BitsInv, TurnsInv, Found, FindPhases, EntriesNamed
    <2>4. QED
      BY <2>2, <2>3 DEF BitsInv
  <1>4. QED
    BY <1>1, <1>2, <1>3

(* Names that are referred to, and what follows when all are found.        *)
LEMMA LaterSteps ==
  ASSUME BitsInv, MakeReferenced \/ SetUp \/ ReinitSandboxes \/ AddTarget \/ EndPointers
  PROVE  BitsInv'
  <1> USE DEF annotVars, initVars
  <1>1. CASE MakeReferenced
    <2>1. PICK n \in toMake :
            /\ toMake' = toMake \ {n}
            /\ IF Named(n) = {} THEN Make(n, {}, << >>, TRUE, 0, {})
               ELSE UNCHANGED <<names, sandboxes>>
      BY <1>1 DEF MakeReferenced
    <2>2. /\ phase = "references" /\ phase' = phase
          /\ UNCHANGED <<prog, entryOf, walk, graph>>
      BY <1>1 DEF MakeReferenced
    <2>3. NamesInv /\ WalkType'
      BY <2>2, KeepWalk DEF BitsInv, NamesInv
    <2>4. NamesInv' /\ DOMAIN names' = DOMAIN names \cup {n}
      <3>1. CASE Named(n) = {}
        BY <2>1, <2>3, <3>1, HasName, MakeNames
      <3>2. CASE Named(n) # {}
        BY <2>1, <2>3, <3>2, HasName, KeepNames
      <3>3. QED
        BY <3>1, <3>2
    <2>5. TurnsInv'
      BY <2>1, <2>2, <2>4 DEF BitsInv, TurnsInv, Found, FindPhases, EntriesNamed
    <2>6. QED
      BY <2>4, <2>5 DEF BitsInv
  <1>2. CASE SetUp
    <2>1. /\ phase = "references" /\ phase' = "pointers" /\ toMake = {}
          /\ graph' = [x \in Boxes \cup {Priv} |-> BasicGraph(x)]
          /\ UNCHANGED <<prog, entryOf, walk, names, sandboxes>>
      BY <1>2 DEF SetUp
    <2>2. NamesInv'
      BY <2>1, KeepNames, KeepWalk DEF BitsInv, NamesInv
    <2>3. Priv \in DOMAIN graph' /\ Found'
      BY <2>1 DEF Found
    <2>4. TurnsInv'
      BY <2>1, <2>3 DEF BitsInv, TurnsInv, FindPhases, EntriesNamed
    <2>5. QED
      BY <2>2, <2>4 DEF BitsInv
  <1>3. CASE ReinitSandboxes \/ AddTarget
    <2>1. PICK g, xs : Reinit(g, xs)
      BY <1>3 DEF ReinitSandboxes, AddTarget
    <2>2. /\ phase = "pointers" /\ phase' = phase /\ DOMAIN graph' = DOMAIN graph
          /\ UNCHANGED <<prog, entryOf, walk, names>>
      BY <1>3 DEF ReinitSandboxes, AddTarget
    <2>3. NamesInv'
      BY <2>1, <2>2, ReinitNames, KeepWalk DEF BitsInv, NamesInv
    <2>4. Priv \in DOMAIN graph' /\ Found'
      BY <2>2 DEF BitsInv, TurnsInv, Found
    <2>5. TurnsInv'
      BY <2>2, <2>4 DEF BitsInv, TurnsInv, FindPhases, EntriesNamed
    <2>6. QED
      BY <2>3, <2>5 DEF BitsInv
  <1>4. CASE EndPointers
    BY <1>4, BitsKept DEF EndPointers, FindPhases
  <1>5. QED
    BY <1>1, <1>2, <1>3, <1>4

LEMMA BitsFirst ==
  ASSUME CInit
  PROVE  BitsInv
  <1>1. /\ prog \in Programs /\ phase = "annotations" /\ walk = NoWalk
        /\ names = [n \in {} |-> 0] /\ sandboxes = << >> /\ graph = << >>
    BY DEF CInit, Init
  <1>2. Boxes = {} /\ sandboxes \in Seq(Elements(sandboxes))
    BY <1>1 DEF Boxes
  <1>3. IsFiniteSet(DOMAIN names) /\ DOMAIN names = {}
    BY <1>1, FS_EmptySet
  <1>4. NamesInv
    BY <1>1, <1>2, <1>3 DEF NamesInv, SandboxesType, NamesType, WalkType
  <1>5. TurnsInv
    BY <1>1 DEF TurnsInv, Found, FindPhases
  <1>6. QED
    BY <1>4, <1>5 DEF BitsInv

LEMMA BitsStep ==
  ASSUME BitsInv, [CNext]_cvars
  PROVE  BitsInv'
  <1>1. CASE UNCHANGED cvars
    BY <1>1, BitsKept DEF cvars, vars
  <1>2. CASE CNext /\ ~FindStep
    BY <1>2, OtherSteps, BitsKept
  <1>3. CASE FindStep
    BY <1>3, FunctionSteps, RegionSteps, LaterSteps DEF FindStep, Find
  <1>4. QED
    BY <1>1, <1>2, <1>3

(* Names, bits and sandboxes correspond, for every program: each mention   *)
(* of a sandbox in an annotation has one of that name, and only a region   *)
(* is a second one (createSandboxes(), assignBitIdxToSandboxName()).       *)
THEOREM BitsName == CSpec => []BitsNameSandboxes
  <1>1. BitsInv => BitsNameSandboxes
    <2>1. SUFFICES ASSUME BitsInv, Found PROVE BitsNameSandboxes
      BY DEF BitsNameSandboxes
    <2>2. \A n \in Referenced(prog) \cup {entryOf[f] : f \in DOMAIN entryOf} : Named(n) # {}
      BY <2>1, HasName DEF BitsInv, TurnsInv, EntriesNamed
    <2>3. ASSUME NEW S \in Boxes
          PROVE  Repeated(S) <=> \E T \in Named(sandboxes[S].name) : T < S
      BY DEF Repeated, Named, Boxes
    <2>4. QED
      BY <2>1, <2>2, <2>3 DEF BitsNameSandboxes, BitsInv, NamesInv, BitRight
  <1>2. QED
    BY <1>1, BitsFirst, BitsStep, PTL DEF CSpec

-----------------------------------------------------------------------------
(***************************************************************************)
(* What is kept of a sandbox is what the present call graph says.  What    *)
(* init() finds depends on the program, on where a sandbox begins, on its  *)
(* name and on its own context's edges only; so an edge that is added      *)
(* elsewhere, and the persistence that init() decides, leave it valid.     *)
(***************************************************************************)
Current ==
  Found =>
    /\ DOMAIN graph = Boxes \cup {Priv}
    /\ privileged = PrivilegedMethods(graph)
    /\ None \notin toMake => \A S \in Boxes : info[S] = InitSandbox(graph, S, Blank)

SameBox(S) ==
  /\ sandboxes'[S].name = sandboxes[S].name
  /\ sandboxes'[S].entry = sandboxes[S].entry
  /\ sandboxes'[S].region = sandboxes[S].region

LEMMA SameReached ==
  ASSUME UNCHANGED prog, NEW start, NEW succ
  PROVE  ReachedFrom(start, succ)' = ReachedFrom(start, succ)
  BY DEF ReachedFrom

LEMMA SameCallees ==
  ASSUME UNCHANGED prog, NEW g, NEW h, NEW x, g[x] = h[x], NEW f
  PROVE  CalleesOfFunction(h, x, f)' = CalleesOfFunction(g, x, f)
  BY DEF CalleesOfFunction, Callees

LEMMA SamePrivileged ==
  ASSUME UNCHANGED <<prog, entryPoints>>, NEW g, NEW h, g[Priv] = h[Priv]
  PROVE  PrivilegedMethods(h)' = PrivilegedMethods(g)
  <1>1. PICK next : next = [f \in prog.functions |-> CalleesOfFunction(g, Priv, f) \ entryPoints]
    OBVIOUS
  <1>2. next = [f \in prog.functions |-> CalleesOfFunction(h, Priv, f) \ entryPoints]'
    <2>1. ASSUME NEW f
          PROVE  (CalleesOfFunction(h, Priv, f) \ entryPoints)'
                   = CalleesOfFunction(g, Priv, f) \ entryPoints
      BY SameCallees
    <2>2. QED
      BY <1>1, <2>1
  <1>3. PICK start : start = StartOf(Priv) \ entryPoints
    OBVIOUS
  <1>4. start = (StartOf(Priv) \ entryPoints)'
    BY <1>3 DEF StartOf
  <1>5. PrivilegedMethods(g) = ReachedFrom(start, next)
    BY <1>1, <1>3 DEF PrivilegedMethods
  <1>6. PrivilegedMethods(h)' = ReachedFrom(start, next)'
    BY <1>2, <1>4 DEF PrivilegedMethods
  <1>7. QED
    BY <1>5, <1>6, SameReached

LEMMA SameFunctions ==
  ASSUME UNCHANGED <<prog, entryPoints>>, NEW g, NEW h, NEW S, g[S] = h[S], SameBox(S)
  PROVE  FindSandboxedFunctions(h, S)' = FindSandboxedFunctions(g, S)
  <1>1. TopCalls(S)' = TopCalls(S) /\ (IsRegion(S)' <=> IsRegion(S))
    BY DEF TopCalls, IsRegion, RegionSet, SameBox
  <1>2. PICK next : next = [f \in prog.functions |->
                              {k \in CalleesOfFunction(g, S, f) : ~Foreign(S, k)}]
    OBVIOUS
  <1>3. \A k : Foreign(S, k)' <=> Foreign(S, k)
    BY DEF Foreign, SameBox
  <1>4. next = [f \in prog.functions |-> {k \in CalleesOfFunction(h, S, f) : ~Foreign(S, k)}]'
    <2>1. ASSUME NEW f
          PROVE  {k \in CalleesOfFunction(h, S, f) : ~Foreign(S, k)}'
                   = {k \in CalleesOfFunction(g, S, f) : ~Foreign(S, k)}
      BY <1>3, SameCallees
    <2>2. QED
      BY <1>2, <2>1
  <1>5. PICK start :
          start = IF IsRegion(S) THEN (UNION {Callees(g, S, c) : c \in TopCalls(S)}) \ prog.decl
                  ELSE sandboxes[S].entry
    OBVIOUS
  <1>6. start = (IF IsRegion(S) THEN (UNION {Callees(h, S, c) : c \in TopCalls(S)}) \ prog.decl
                 ELSE sandboxes[S].entry)'
    BY <1>1, <1>5 DEF Callees, SameBox
  <1>7. FindSandboxedFunctions(g, S) = ReachedFrom(start, next)
    BY <1>2, <1>5 DEF FindSandboxedFunctions
  <1>8. FindSandboxedFunctions(h, S)' = ReachedFrom(start, next)'
    BY <1>4, <1>6 DEF FindSandboxedFunctions
  <1>9. QED
    BY <1>7, <1>8, SameReached

LEMMA SameInit ==
  ASSUME UNCHANGED <<prog, entryPoints>>, NEW g, NEW h, NEW S, g[S] = h[S], SameBox(S)
  PROVE  InitSandbox(h, S, Blank)' = InitSandbox(g, S, Blank)
  <1>1. TopCalls(S)' = TopCalls(S) /\ (IsRegion(S)' <=> IsRegion(S)) /\ RegionSet(S)' = RegionSet(S)
    BY DEF TopCalls, IsRegion, RegionSet, SameBox
  <1>2. PICK funs : funs = FindSandboxedFunctions(g, S)
    OBVIOUS
  <1>3. funs = FindSandboxedFunctions(h, S)'
    BY <1>2, SameFunctions
  <1>4. FindSandboxedCalls(S, funs)' = FindSandboxedCalls(S, funs)
    BY <1>1 DEF FindSandboxedCalls
  <1>5. FindSharedGlobals(S)' = FindSharedGlobals(S)
    BY DEF FindSharedGlobals, SameBox
  <1>6. FindCallgates(S)' = FindCallgates(S)
    BY DEF FindCallgates, SameBox
  <1>7. FindCapabilities(S)' = FindCapabilities(S)
    BY DEF FindCapabilities, Allowed, SameBox
  <1>8. FindCreationPoints(S)' = FindCreationPoints(S)
    BY DEF FindCreationPoints, SameBox
  <1>9. FindAllowedSysCalls(S, funs)' = FindAllowedSysCalls(S, funs)
    BY <1>1 DEF FindAllowedSysCalls, Allowed
  <1>10. FindPrivateData(S)' = FindPrivateData(S)
    BY DEF FindPrivateData, SameBox
  <1>11. QED
    BY <1>2, <1>3, <1>4, <1>5, <1>6, <1>7, <1>8, <1>9, <1>10 DEF InitSandbox

LEMMA CurrentKept ==
  ASSUME Current, UNCHANGED <<prog, findVars, initVars>>
  PROVE  Current'
  <1>1. /\ UNCHANGED <<entryPoints, toMake, sandboxes, graph, privileged, info>>
        /\ Boxes' = Boxes /\ (Found' <=> Found)
    BY DEF findVars, annotVars, initVars, Boxes, Found
  <1>2. PICK g : g = graph
    OBVIOUS
  <1>3. PrivilegedMethods(graph)' = PrivilegedMethods(graph)
    BY <1>1, <1>2, SamePrivileged
  <1>4. \A S \in Boxes : InitSandbox(graph, S, Blank)' = InitSandbox(graph, S, Blank)
    BY <1>1, <1>2, SameInit DEF SameBox
  <1>5. QED
    BY <1>1, <1>3, <1>4 DEF Current

LEMMA ReinitBoxes ==
  ASSUME NamesInv, NEW g, NEW xs, Reinit(g, xs)
  PROVE  Boxes' = Boxes /\ \A S \in Boxes : SameBox(S)
  <1>1. PICK q : sandboxes' = [S \in Boxes |-> [sandboxes[S] EXCEPT !.persistent = q[S]]]
    BY DEF Reinit
  <1>2. Boxes' = Boxes
    BY <1>1 DEF Boxes
  <1>3. ASSUME NEW S \in Boxes PROVE SameBox(S)
    <2>1. PICK r : r = sandboxes[S] /\ Record(r)
      BY DEF NamesInv, SandboxesType
    <2>2. PICK v : v = q[S]
      OBVIOUS
    <2>3. sandboxes'[S] = [r EXCEPT !.persistent = v]
      BY <1>1, <2>1, <2>2
    <2>4. QED
      BY <2>1, <2>3 DEF Record, SameBox
  <1>4. QED
    BY <1>2, <1>3

LEMMA CurrentSteps ==
  ASSUME BitsInv, Current, SetUp \/ ReinitSandboxes \/ AddTarget
  PROVE  Current'
  <1> USE DEF annotVars
  <1>1. CASE SetUp
    <2>1. /\ graph' = [x \in Boxes \cup {Priv} |-> BasicGraph(x)]
          /\ privileged' = PrivilegedMethods([x \in Boxes \cup {Priv} |-> BasicGraph(x)])
          /\ None \in toMake' /\ UNCHANGED <<prog, entryPoints, sandboxes>>
      BY <1>1 DEF SetUp
    <2>2. PICK g : g = [x \in Boxes \cup {Priv} |-> BasicGraph(x)]
      OBVIOUS
    <2>3. PrivilegedMethods(g)' = PrivilegedMethods(g)
      BY <2>1, SamePrivileged
    <2>4. privileged' = PrivilegedMethods(graph)'
      BY <2>1, <2>2, <2>3
    <2>5. QED
      BY <2>1, <2>4 DEF Current, Boxes
  <1>2. CASE ReinitSandboxes
    <2>1. /\ Reinit(graph, Boxes) /\ phase = "pointers"
          /\ UNCHANGED <<prog, entryPoints, graph, privileged>>
      BY <1>2 DEF ReinitSandboxes
    <2>2. Boxes' = Boxes /\ \A S \in Boxes : SameBox(S)
      BY <2>1, ReinitBoxes DEF BitsInv
    <2>3. PICK g : g = graph
      OBVIOUS
    <2>4. PrivilegedMethods(graph)' = PrivilegedMethods(graph)
      BY <2>1, <2>3, SamePrivileged
    <2>5. ASSUME NEW S \in Boxes PROVE info'[S] = InitSandbox(graph, S, Blank)'
      <3>1. info'[S] = InitSandbox(g, S, Blank)
        BY <2>1, <2>3 DEF Reinit, Cleared
      <3>2. InitSandbox(g, S, Blank)' = InitSandbox(g, S, Blank)
        BY <2>1, <2>2, SameInit
      <3>3. QED
        BY <2>1, <2>3, <3>1, <3>2
    <2>6. QED
      BY <2>1, <2>2, <2>4, <2>5 DEF Current, Found
  <1>3. CASE AddTarget
    <2>1. Found /\ None \notin toMake
      BY <1>3 DEF AddTarget, BitsInv, TurnsInv
    <2>2. PICK e, g, xs :
            /\ e \in toMake
            /\ g = [x \in DOMAIN graph |-> IF x \in xs THEN graph[x] \cup {e} ELSE graph[x]]
            /\ graph' = g /\ Reinit(g, xs)
            /\ privileged' = IF Priv \in xs THEN PrivilegedMethods(g) ELSE privileged
      BY <1>3 DEF AddTarget
    <2>3. UNCHANGED <<prog, entryPoints>>
      BY <1>3 DEF AddTarget
    <2>4. Boxes' = Boxes /\ \A S \in Boxes : SameBox(S)
      BY <2>2, ReinitBoxes DEF BitsInv
    <2>5. PICK old : old = graph
      OBVIOUS
    <2>6. DOMAIN g = Boxes \cup {Priv}
      BY <2>1, <2>2 DEF Current
    <2>7. privileged' = PrivilegedMethods(graph)'
      <3>1. CASE Priv \in xs
        <4>1. PrivilegedMethods(g)' = PrivilegedMethods(g)
          BY <2>3, SamePrivileged
        <4>2. QED
          BY <2>2, <3>1, <4>1
      <3>2. CASE Priv \notin xs
        <4>1. g[Priv] = old[Priv]
          BY <2>2, <2>5, <2>6, <3>2
        <4>2. PrivilegedMethods(g)' = PrivilegedMethods(old)
          BY <2>3, <4>1, SamePrivileged
        <4>3. QED
          BY <2>1, <2>2, <2>5, <3>2, <4>2 DEF Current
      <3>3. QED
        BY <3>1, <3>2
    <2>8. ASSUME NEW S \in Boxes PROVE info'[S] = InitSandbox(graph, S, Blank)'
      <3>1. CASE S \in xs
        <4>1. info'[S] = InitSandbox(g, S, Blank)
          BY <2>2, <3>1 DEF Reinit, Cleared
        <4>2. InitSandbox(g, S, Blank)' = InitSandbox(g, S, Blank)
          BY <2>3, <2>4, SameInit
        <4>3. QED
          BY <2>2, <4>1, <4>2
      <3>2. CASE S \notin xs
        <4>1. info'[S] = info[S]
          BY <2>2, <3>2 DEF Reinit
        <4>2. g[S] = old[S]
          BY <2>2, <2>5, <2>6, <3>2
        <4>3. InitSandbox(g, S, Blank)' = InitSandbox(old, S, Blank)
          BY <2>3, <2>4, <4>2, SameInit
        <4>4. QED
          BY <2>1, <2>2, <2>5, <4>1, <4>3 DEF Current
      <3>3. QED
        BY <3>1, <3>2
    <2>9. QED
      BY <2>2, <2>4, <2>6, <2>7, <2>8 DEF Current
  <1>4. QED
    BY <1>1, <1>2, <1>3

LEMMA CurrentStep ==
  ASSUME BitsInv, Current, [CNext]_cvars
  PROVE  Current'
  <1>1. CASE UNCHANGED cvars
    BY <1>1, CurrentKept DEF cvars, vars
  <1>2. CASE CNext /\ ~FindStep
    BY <1>2, OtherSteps, CurrentKept
  <1>3. CASE SetUp \/ ReinitSandboxes \/ AddTarget
    BY <1>3, CurrentSteps
  <1>4. CASE EndPointers
    BY <1>4, CurrentKept DEF EndPointers
  <1>5. CASE \/ EntryAnnotation \/ RightsAnnotation \/ OtherAnnotation \/ EndAnnotations
             \/ MakeFunctionSandbox \/ EndFunctions
             \/ StartRegion \/ WalkSuccessor \/ WalkReturn \/ EndRegion \/ EndRegions
             \/ MakeReferenced
    <2>1. phase \in FindPhases /\ graph' = graph
      BY <1>5 DEF EntryAnnotation, RightsAnnotation, OtherAnnotation, ReadAnnotation,
                  EndAnnotations, MakeFunctionSandbox, EndFunctions, StartRegion, WalkSuccessor,
                  WalkReturn, EndRegion, Walking, EndRegions, MakeReferenced, FindPhases, initVars
    <2>2. QED
      BY <2>1 DEF BitsInv, TurnsInv, Current, Found
  <1>6. QED
    BY <1>1, <1>2, <1>3, <1>4, <1>5 DEF FindStep, Find

(* However many targets of pointers are added to the call graph, what is   *)
(* kept of each sandbox, and which functions are privileged, is what the   *)
(* graph says now, for every program (addEdges(), Sandbox::reinit()).      *)
THEOREM InfoIsCurrent == CSpec => []InfoCurrent
  <1>1. CInit => BitsInv /\ Current
    BY BitsFirst DEF CInit, Init, Current, Found
  <1>2. BitsInv /\ Current /\ [CNext]_cvars => (BitsInv /\ Current)'
    BY BitsStep, CurrentStep
  <1>3. Current => InfoCurrent
    BY DEF Current, InfoCurrent
  <1>4. QED
    BY <1>1, <1>2, <1>3, PTL DEF CSpec

-----------------------------------------------------------------------------
(***************************************************************************)
(* The walk over a region finds what lies inside it.  Of each block that   *)
(* has been visited all is collected that control runs through from where  *)
(* the walk entered it; what comes next is visited or waits on the stack.  *)
(***************************************************************************)
StartsAt(p, n, b) == IF b = BlockOf(p, n) THEN PositionOf(p, n) ELSE 1
Walked(p, n, b) == Segment(p, n, b, StartsAt(p, n, b))
Ended(p, n, b) == EndFound(p, n, b, StartsAt(p, n, b)) # None

Visits(p, w) ==
  /\ w.start \in Notes(p, "start") /\ BlockOf(p, w.start) \in w.visited /\ w.visited \subseteq Blocks(p)
  /\ w.insts \in Seq(Instrs(p)) /\ w.insts # << >> /\ Once(w.insts) /\ w.insts[1] = w.start
  /\ Elements(w.insts) = UNION {Elements(Walked(p, w.start, b)) : b \in w.visited}
  /\ Elements(w.insts) \subseteq Inside(p, w.start)

Waits(p, w) ==
  /\ w.stack \in Seq(Frames(p)) /\ w.stack # << >>
  /\ \A b \in w.visited : ~Ended(p, w.start, b) =>
        \A c \in Elements(p.succ[b]) : c \in w.visited \/ \E f \in Elements(w.stack) : c \in Elements(f.left)
  /\ \A f \in Elements(w.stack) :
        /\ \A c \in Elements(f.left) : p.body[c][1] \in Inside(p, w.start)
        /\ f.found # None => f.found \in Inside(p, w.start) /\ EndsAt(p, w.start, f.found)

(* Where the function ends without an end of the region, there is a        *)
(* warning, or the next step is to warn.                                   *)
Warns(p, w, warn) ==
  \A b \in w.visited : ~Ended(p, w.start, b) /\ p.succ[b] = << >> =>
    w.start \in warn \/ (Head(w.stack).left = << >> /\ Head(w.stack).found = None)

WalkRight(p, w, warn) == Visits(p, w) /\ Waits(p, w) /\ Warns(p, w, warn)

RegionRight(p, n, region, warn) ==
  /\ region # << >> /\ Head(region) = n
  /\ Cardinality(Elements(region)) = Len(region)
  /\ Elements(region) \subseteq Inside(p, n)
  /\ LoopsBack(p, n) \/ Elements(region) = Inside(p, n)
  /\ EndMissing(p, n) => n \in warn

(* Each mark has its region, or is still to have it.                       *)
MarksServed ==
  \A n \in Notes(prog, "start") :
    \/ phase = "regions" /\ n \in toMake
    \/ walk # NoWalk /\ walk.start = n
    \/ \E S \in Boxes : RegionRight(prog, n, sandboxes[S].region, warned)

RegionsInv ==
  /\ walk # NoWalk => phase # "references" /\ ~Found /\ WalkRight(prog, walk, warned)
  /\ phase \in {"regions", "references"} \/ Found => MarksServed

LEMMA Placed ==
  ASSUME NEW p \in Programs, NEW b \in Blocks(p), NEW i \in DOMAIN p.body[b]
  PROVE  /\ p.body[b][i] \in Instrs(p)
         /\ BlockOf(p, p.body[b][i]) = b /\ PositionOf(p, p.body[b][i]) = i
  <1>1. p.body[b][i] \in Instrs(p)
    BY DEF Instrs
  <1>2. \A c \in Blocks(p) : \A j \in DOMAIN p.body[c] : p.body[c][j] = p.body[b][i] => c = b /\ j = i
    BY ProgramsAssumption
  <1>3. BlockOf(p, p.body[b][i]) = b
    BY <1>2 DEF BlockOf
  <1>4. PositionOf(p, p.body[b][i]) = i
    BY <1>2, <1>3 DEF PositionOf
  <1> QED
    BY <1>1, <1>3, <1>4

LEMMA PlaceOf ==
  ASSUME NEW p \in Programs, NEW m \in Instrs(p)
  PROVE  /\ BlockOf(p, m) \in Blocks(p) /\ PositionOf(p, m) \in DOMAIN p.body[BlockOf(p, m)]
         /\ p.body[BlockOf(p, m)][PositionOf(p, m)] = m
  <1>1. PICK b \in Blocks(p) : \E i \in DOMAIN p.body[b] : p.body[b][i] = m
    BY DEF Instrs
  <1>2. PICK i \in DOMAIN p.body[b] : p.body[b][i] = m
    BY <1>1
  <1>3. BlockOf(p, m) = b /\ PositionOf(p, m) = i
    BY <1>2, Placed
  <1> QED
    BY <1>2, <1>3

(* Blocks have a first instruction.                                        *)
LEMMA BlockShape ==
  ASSUME NEW p \in Programs, NEW b \in Blocks(p)
  PROVE  /\ p.body[b] \in Seq(Instrs(p)) /\ Len(p.body[b]) \in Nat /\ DOMAIN p.body[b] = 1..Len(p.body[b])
         /\ Len(p.body[b]) > 0 /\ 1 \in DOMAIN p.body[b]
         /\ p.succ[b] \in Seq(Blocks(p)) /\ Elements(p.succ[b]) \subseteq Blocks(p)
  <1>1. p.body[b] \in Seq(Instrs(p)) \ {<< >>} /\ p.succ[b] \in Seq(Blocks(p))
    BY ProgramsAssumption
  <1>2. PICK s \in Seq(Instrs(p)) \ {<< >>} : s = p.body[b]
    BY <1>1
  <1>3. Len(s) \in Nat /\ DOMAIN s = 1..Len(s) /\ Len(s) > 0
    BY <1>2
  <1>4. PICK t \in Seq(Blocks(p)) : t = p.succ[b]
    BY <1>1
  <1>5. Elements(t) \subseteq Blocks(p)
    BY DEF Elements
  <1> QED
    BY <1>1, <1>2, <1>3, <1>4, <1>5

(* Control stays in the function.                                          *)
LEMMA FollowingHere ==
  ASSUME NEW p \in Programs, NEW start, NEW F, NEW m \in InstrsOf(p, F)
  PROVE  Following(p, start, m) \subseteq InstrsOf(p, F)
  <1> DEFINE b == BlockOf(p, m)
             i == PositionOf(p, m)
  <1>1. m \in Instrs(p) /\ p.fun[b] = F
    BY DEF InstrsOf, FunctionOf
  <1>2. b \in Blocks(p) /\ i \in DOMAIN p.body[b]
    BY <1>1, PlaceOf
  <1>3. /\ p.body[b] \in Seq(Instrs(p)) /\ Len(p.body[b]) \in Nat /\ DOMAIN p.body[b] = 1..Len(p.body[b])
        /\ Elements(p.succ[b]) \subseteq Blocks(p) /\ \A c \in Elements(p.succ[b]) : p.fun[c] = p.fun[b]
    BY <1>2, BlockShape, ProgramsAssumption
  <1> HIDE DEF b, i
  <1>4. ASSUME i < Len(p.body[b]) PROVE p.body[b][i + 1] \in InstrsOf(p, F)
    <2>1. i + 1 \in DOMAIN p.body[b]
      BY <1>2, <1>3, <1>4
    <2> QED
      BY <1>1, <1>2, <2>1, Placed DEF InstrsOf, FunctionOf
  <1>5. ASSUME NEW c \in Elements(p.succ[b]) PROVE p.body[c][1] \in InstrsOf(p, F)
    <2>1. c \in Blocks(p) /\ 1 \in DOMAIN p.body[c] /\ p.fun[c] = F
      BY <1>1, <1>3, BlockShape
    <2> QED
      BY <2>1, Placed DEF InstrsOf, FunctionOf
  <1> QED
    BY <1>4, <1>5 DEF Following, b, i

LEMMA InsideOf ==
  ASSUME NEW p \in Programs, NEW n \in Notes(p, "start")
  PROVE  LET here == InstrsOf(p, FunctionOf(p, n))
         IN /\ n \in Inside(p, n) /\ Inside(p, n) \subseteq here
            /\ \A m \in Inside(p, n) : Following(p, n, m) \subseteq Inside(p, n)
            /\ \A N \in SUBSET here :
                  n \in N /\ (\A m \in N : Following(p, n, m) \subseteq N) => Inside(p, n) \subseteq N
  <1> DEFINE here == InstrsOf(p, FunctionOf(p, n))
             flow == UNION {{m} \X Following(p, n, m) : m \in here}
             closed == {N \in SUBSET here : n \in N /\ \A e \in flow : e[1] \in N => e[2] \in N}
  <1>1. Inside(p, n) = {m \in here : \A N \in closed : m \in N}
    BY DEF Inside
  <1>2. n \in here
    BY ProgramsAssumption DEF InstrsOf, Notes
  <1>3. \A m \in here : Following(p, n, m) \subseteq here
    BY FollowingHere
  <1>4. \A m, k : <<m, k>> \in flow <=> m \in here /\ k \in Following(p, n, m)
    OBVIOUS
  <1>5. \A e \in flow : e = <<e[1], e[2]>>
    OBVIOUS
  <1> HIDE DEF here, flow
  <1>6. ASSUME NEW N \in SUBSET here
        PROVE  N \in closed <=> n \in N /\ \A m \in N : Following(p, n, m) \subseteq N
    <2>1. N \in closed <=> n \in N /\ \A e \in flow : e[1] \in N => e[2] \in N
      OBVIOUS
    <2>2. ASSUME \A e \in flow : e[1] \in N => e[2] \in N, NEW m \in N, NEW k \in Following(p, n, m)
          PROVE  k \in N
      <3>1. <<m, k>> \in flow /\ <<m, k>>[1] = m /\ <<m, k>>[2] = k
        BY <1>4, <2>2
      <3> QED
        BY <2>2, <3>1
    <2>3. ASSUME \A m \in N : Following(p, n, m) \subseteq N, NEW e \in flow, e[1] \in N
          PROVE  e[2] \in N
      <3>1. e[2] \in Following(p, n, e[1])
        BY <1>4, <1>5, <2>3
      <3> QED
        BY <2>3, <3>1
    <2> QED
      BY <2>1, <2>2, <2>3
  <1> HIDE DEF closed
  <1>7. \A m \in Inside(p, n) : Following(p, n, m) \subseteq Inside(p, n)
    <2>1. ASSUME NEW m \in Inside(p, n), NEW k \in Following(p, n, m), NEW N \in closed PROVE k \in N
      <3>1. m \in N /\ N \in SUBSET here
        BY <1>1, <2>1 DEF closed
      <3> QED
        BY <1>6, <2>1, <3>1
    <2> QED
      BY <1>1, <1>3, <2>1
  <1>8. n \in Inside(p, n)
    BY <1>1, <1>2 DEF closed
  <1> QED
    BY <1>1, <1>6, <1>7, <1>8 DEF here

(* What is walked of a block: up to position l, an end or the last.        *)
WalkedTo(p, n, b, i, l) ==
  /\ Segment(p, n, b, i) \in Seq(Instrs(p)) /\ Segment(p, n, b, i) # << >>
  /\ Segment(p, n, b, i)[1] = p.body[b][i]
  /\ Elements(Segment(p, n, b, i)) = {p.body[b][j] : j \in i..l}
  /\ Once(Segment(p, n, b, i))
  /\ \A j \in i..l : j < l => ~EndsAt(p, n, p.body[b][j])
  /\ l < Len(p.body[b]) => EndsAt(p, n, p.body[b][l])
  /\ EndFound(p, n, b, i) = IF EndsAt(p, n, p.body[b][l]) THEN p.body[b][l] ELSE None

LEMMA Segmented ==
  ASSUME NEW p \in Programs, NEW n, NEW b \in Blocks(p), NEW i \in DOMAIN p.body[b]
  PROVE  \E l \in i..Len(p.body[b]) : WalkedTo(p, n, b, i, l)
  <1> DEFINE s == p.body[b]
             ends == {j \in i..Len(s) : EndsAt(p, n, s[j])}
             t == Segment(p, n, b, i)
  <1>1. s \in Seq(Instrs(p)) /\ Len(s) \in Nat /\ DOMAIN s = 1..Len(s) /\ i \in 1..Len(s)
    BY BlockShape
  <1>2. \A j, k \in DOMAIN s : s[j] = s[k] => j = k
    BY ProgramsAssumption
  <1>3. PICK l \in i..Len(s) : /\ l = LastWalked(p, n, b, i)
                               /\ \A j \in i..l : j < l => ~EndsAt(p, n, s[j])
                               /\ l < Len(s) => EndsAt(p, n, s[l])
    <2>1. CASE ends = {}
      <3>1. LastWalked(p, n, b, i) = Len(s)
        BY <2>1 DEF LastWalked
      <3>2. Len(s) \in i..Len(s) /\ \A j \in i..Len(s) : ~EndsAt(p, n, s[j])
        BY <1>1, <2>1
      <3> QED
        BY <1>1, <3>1, <3>2
    <2>2. CASE ends # {}
      <3>1. ends \in SUBSET Nat
        BY <1>1
      <3>2. \E j \in ends : \A k \in ends : j <= k
        <4> HIDE DEF ends
        <4> QED
          BY <2>2, <3>1, FirstPosition
      <3>3. LastWalked(p, n, b, i) = CHOOSE j \in ends : \A k \in ends : j <= k
        BY <2>2 DEF LastWalked
      <3>4. PICK l \in ends : l = LastWalked(p, n, b, i) /\ \A k \in ends : l <= k
        <4> HIDE DEF ends
        <4> QED
          BY <3>2, <3>3
      <3>5. \A j \in i..l : j < l => ~EndsAt(p, n, s[j])
        BY <1>1, <3>1, <3>4
      <3> QED
        BY <1>1, <3>4, <3>5
    <2> QED
      BY <2>1, <2>2
  <1> HIDE DEF s
  <1>4. t = SubSeq(s, i, l)
    BY <1>3 DEF Segment, s
  <1> HIDE DEF t
  <1>5. /\ t \in Seq(Instrs(p)) /\ Len(t) = l - i + 1 /\ DOMAIN t = 1..(l - i + 1)
        /\ \A j \in 1..(l - i + 1) : t[j] = s[i + j - 1]
    BY <1>1, <1>3, <1>4
  <1>6. t # << >> /\ t[1] = s[i] /\ t[Len(t)] = s[l]
    <2>1. Len(t) > 0 /\ Len(t) \in DOMAIN t
      BY <1>1, <1>3, <1>5
    <2> QED
      BY <1>1, <1>3, <1>5, <2>1, NotEmpty
  <1>7. Elements(t) = {s[j] : j \in i..l}
    <2>1. \A j \in 1..(l - i + 1) : i + j - 1 \in i..l
      BY <1>1, <1>3
    <2>2. \A j \in i..l : j - i + 1 \in 1..(l - i + 1) /\ t[j - i + 1] = s[j]
      <3>1. ASSUME NEW j \in i..l
            PROVE  j - i + 1 \in 1..(l - i + 1) /\ i + (j - i + 1) - 1 = j
        BY <1>1, <1>3
      <3>2. ASSUME NEW j \in i..l PROVE t[j - i + 1] = s[i + (j - i + 1) - 1]
        BY <1>5, <3>1
      <3> QED
        BY <3>1, <3>2
    <2>3. ASSUME NEW x \in Elements(t) PROVE x \in {s[j] : j \in i..l}
      <3>1. PICK j \in 1..(l - i + 1) : x = t[j]
        BY <1>5, <2>3 DEF Elements
      <3> QED
        BY <1>5, <2>1, <3>1
    <2>4. ASSUME NEW j \in i..l PROVE s[j] \in Elements(t)
      BY <1>5, <2>2, <2>4 DEF Elements
    <2> QED
      BY <2>3, <2>4
  <1>8. Once(t)
    <2>1. ASSUME NEW j \in DOMAIN t, NEW k \in DOMAIN t, t[j] = t[k] PROVE j = k
      <3>1. i + j - 1 \in DOMAIN s /\ i + k - 1 \in DOMAIN s /\ s[i + j - 1] = s[i + k - 1]
        BY <1>1, <1>3, <1>5, <2>1
      <3>2. i + j - 1 = i + k - 1
        BY <1>2, <3>1
      <3> QED
        BY <1>1, <1>5, <3>2
    <2> QED
      BY <2>1 DEF Once
  <1>9. EndFound(p, n, b, i) = IF EndsAt(p, n, s[l]) THEN s[l] ELSE None
    BY <1>6, Zenon DEF EndFound, t
  <1> QED
    BY <1>3, <1>5, <1>6, <1>7, <1>8, <1>9 DEF s, t, WalkedTo

LEMMA SegmentInside ==
  ASSUME NEW p \in Programs, NEW n \in Notes(p, "start"), NEW b \in Blocks(p),
         NEW i \in DOMAIN p.body[b], p.body[b][i] \in Inside(p, n)
  PROVE  /\ Elements(Segment(p, n, b, i)) \subseteq Inside(p, n)
         /\ EndFound(p, n, b, i) # None =>
              EndFound(p, n, b, i) \in Inside(p, n) /\ EndsAt(p, n, EndFound(p, n, b, i))
         /\ EndFound(p, n, b, i) = None => \A c \in Elements(p.succ[b]) : p.body[c][1] \in Inside(p, n)
  <1> DEFINE s == p.body[b]
  <1>1. s \in Seq(Instrs(p)) /\ Len(s) \in Nat /\ DOMAIN s = 1..Len(s) /\ i \in 1..Len(s)
    BY BlockShape
  <1>2a. PICK l \in i..Len(s) : WalkedTo(p, n, b, i, l)
    BY Segmented
  <1>2. /\ Elements(Segment(p, n, b, i)) = {s[j] : j \in i..l}
        /\ \A j \in i..l : j < l => ~EndsAt(p, n, s[j])
        /\ l < Len(s) => EndsAt(p, n, s[l])
        /\ EndFound(p, n, b, i) = IF EndsAt(p, n, s[l]) THEN s[l] ELSE None
    BY <1>2a DEF WalkedTo
  <1>3. \A j \in DOMAIN s : BlockOf(p, s[j]) = b /\ PositionOf(p, s[j]) = j /\ s[j] \in Instrs(p)
    BY Placed
  <1> HIDE DEF s
  <1>4. \A j \in i..l : s[j] \in Inside(p, n)
    <2> DEFINE out == {j \in i..l : s[j] \notin Inside(p, n)}
    <2>1. SUFFICES ASSUME out # {} PROVE FALSE
      OBVIOUS
    <2>2. out \in SUBSET Nat
      BY <1>1, <1>2
    <2>3. PICK j \in out : \A k \in out : j <= k
      <3> HIDE DEF out
      <3> QED
        BY <2>1, <2>2, FirstPosition
    <2>4. j # i /\ j \in i..l
      BY <2>3 DEF s
    <2>5. j - 1 \in i..l /\ j - 1 < l /\ j - 1 < Len(s) /\ j - 1 \in DOMAIN s /\ (j - 1) + 1 = j
      BY <1>1, <1>2, <2>4
    <2>6. j - 1 \notin out
      BY <1>1, <2>2, <2>3, <2>5
    <2>7. s[j - 1] \in Inside(p, n) /\ ~EndsAt(p, n, s[j - 1])
      BY <1>2, <2>5, <2>6
    <2>8. s[j] \in Following(p, n, s[j - 1])
      BY <1>3, <2>5, <2>7 DEF Following, s
    <2> QED
      BY <2>3, <2>7, <2>8, InsideOf
  <1>5. l \in i..l /\ l \in DOMAIN s /\ l \in Nat /\ l <= Len(s)
    BY <1>1, <1>2
  <1>6. ASSUME EndFound(p, n, b, i) = None, NEW c \in Elements(p.succ[b])
        PROVE  p.body[c][1] \in Inside(p, n)
    <2>1. s[l] # None
      BY <1>3, <1>5, ProgramsAssumption
    <2>2. ~EndsAt(p, n, s[l])
      BY <1>2, <1>6, <2>1
    <2>3. l = Len(s)
      <3>1. ~(l < Len(s))
        BY <1>2, <2>2
      <3> QED
        BY <1>1, <1>5, <3>1
    <2>4. Following(p, n, s[l]) = {p.body[d][1] : d \in Elements(p.succ[b])}
      BY <1>1, <1>3, <1>5, <2>2, <2>3 DEF Following, s
    <2> QED
      BY <1>4, <1>5, <1>6, <2>4, InsideOf
  <1> QED
    BY <1>2, <1>4, <1>5, <1>6

LEMMA FrameRight ==
  ASSUME NEW p \in Programs, NEW n \in Notes(p, "start"), NEW b \in Blocks(p),
         NEW i \in DOMAIN p.body[b], p.body[b][i] \in Inside(p, n)
  PROVE  /\ Frame(p, n, b, i) \in Frames(p)
         /\ Frame(p, n, b, i).found = EndFound(p, n, b, i)
         /\ EndFound(p, n, b, i) = None => Frame(p, n, b, i).left = p.succ[b]
         /\ \A c \in Elements(Frame(p, n, b, i).left) : p.body[c][1] \in Inside(p, n)
         /\ Frame(p, n, b, i).found # None =>
              Frame(p, n, b, i).found \in Inside(p, n) /\ EndsAt(p, n, Frame(p, n, b, i).found)
  <1>1. i \in Nat \ {0}
    BY BlockShape
  <1>2. Frame(p, n, b, i) \in Frames(p)
    BY <1>1, SegmentType
  <1>3. /\ Frame(p, n, b, i).found = EndFound(p, n, b, i)
        /\ Frame(p, n, b, i).left = IF EndFound(p, n, b, i) = None THEN p.succ[b] ELSE << >>
    BY DEF Frame
  <1>4. Elements(<< >>) = {}
    BY DEF Elements
  <1> QED
    BY <1>2, <1>3, <1>4, SegmentInside

LEMMA WalkStarts ==
  ASSUME NEW p \in Programs, NEW n \in Notes(p, "start"), NEW warn, NEW w,
         w = [start |-> n, visited |-> {BlockOf(p, n)},
              insts |-> Segment(p, n, BlockOf(p, n), PositionOf(p, n)),
              stack |-> <<Frame(p, n, BlockOf(p, n), PositionOf(p, n))>>]
  PROVE  WalkRight(p, w, warn)
  <1> DEFINE b == BlockOf(p, n)
             i == PositionOf(p, n)
             f == Frame(p, n, b, i)
  <1>1. b \in Blocks(p) /\ i \in DOMAIN p.body[b] /\ p.body[b][i] = n /\ n \in Inside(p, n)
    BY PlaceOf, InsideOf, ProgramsAssumption DEF Notes
  <1>2. PICK l \in i..Len(p.body[b]) : WalkedTo(p, n, b, i, l)
    BY <1>1, Segmented
  <1>3. StartsAt(p, n, b) = i
    BY DEF StartsAt
  <1>4. /\ w.start = n /\ w.visited = {b} /\ w.insts = Segment(p, n, b, i) /\ w.stack = <<f>>
        /\ Walked(p, n, b) = Segment(p, n, b, i) /\ (~Ended(p, n, b) => EndFound(p, n, b, i) = None)
    BY <1>3 DEF Walked, Ended
  <1>5. Visits(p, w)
    <2>1. Elements(Segment(p, n, b, i)) \subseteq Inside(p, n)
      BY <1>1, SegmentInside
    <2> HIDE DEF b, i
    <2>2. b = BlockOf(p, n)
      BY DEF b
    <2> QED
      BY <1>1, <1>2, <1>4, <2>1, <2>2 DEF Visits, WalkedTo
  <1>6. f \in Frames(p) /\ f.found = EndFound(p, n, b, i)
          /\ (EndFound(p, n, b, i) = None => f.left = p.succ[b])
          /\ (\A c \in Elements(f.left) : p.body[c][1] \in Inside(p, n))
          /\ (f.found # None => f.found \in Inside(p, n) /\ EndsAt(p, n, f.found))
    BY <1>1, FrameRight
  <1> HIDE DEF b, i, f
  <1>7. <<f>> \in Seq(Frames(p)) /\ <<f>> # << >> /\ Elements(<<f>>) = {f} /\ Head(<<f>>) = f
    BY <1>6 DEF Elements
  <1>8. Waits(p, w)
    BY <1>4, <1>6, <1>7 DEF Waits
  <1>9. Warns(p, w, warn)
    BY <1>4, <1>6, <1>7 DEF Warns
  <1> QED
    BY <1>5, <1>8, <1>9 DEF WalkRight

LEMMA StackOpened ==
  ASSUME NEW p \in Programs, NEW st \in Seq(Frames(p)), st # << >>, Head(st).left # << >>
  PROVE  LET top == Head(st)
             c == Head(top.left)
             f == [top EXCEPT !.left = Tail(@)]
             rest == <<f>> \o Tail(st)
         IN /\ c \in Blocks(p) /\ f.found = top.found /\ f.left = Tail(top.left)
            /\ Elements(top.left) = {c} \cup Elements(f.left)
            /\ rest \in Seq(Frames(p)) /\ rest # << >> /\ Elements(rest) = {f} \cup Elements(Tail(st))
            /\ Elements(st) = {top} \cup Elements(Tail(st))
  <1>0. Head(st) \in Frames(p) /\ Tail(st) \in Seq(Frames(p)) /\ Elements(st) = {Head(st)} \cup Elements(Tail(st))
    BY FirstAndRest
  <1>1. PICK top \in Frames(p), t \in Seq(Frames(p)) :
           top = Head(st) /\ t = Tail(st) /\ Elements(st) = {top} \cup Elements(t)
    BY <1>0
  <1>2. top.left \in Seq(Blocks(p)) /\ top.left # << >> /\ top.found \in Instrs(p) \cup {None}
    BY <1>1 DEF Frames
  <1>3. PICK l \in Seq(Blocks(p)) : l = top.left
    BY <1>2
  <1>4. Head(l) \in Blocks(p) /\ Tail(l) \in Seq(Blocks(p)) /\ Elements(l) = {Head(l)} \cup Elements(Tail(l))
    BY <1>2, <1>3, FirstAndRest
  <1>5. PICK f \in Frames(p) : f = [top EXCEPT !.left = Tail(@)] /\ f.found = top.found /\ f.left = Tail(l)
    <2>1. PICK f : f = [top EXCEPT !.left = Tail(@)]
      OBVIOUS
    <2>2. f = [left |-> Tail(l), found |-> top.found]
      BY <1>3, <2>1 DEF Frames
    <2>3. f \in Frames(p)
      BY <1>2, <1>4, <2>2 DEF Frames
    <2> QED
      BY <2>1, <2>2, <2>3
  <1>6. LET r == <<f>> \o t
        IN r \in Seq(Frames(p)) /\ r # << >> /\ Elements(r) = {f} \cup Elements(t)
    BY PutFirst
  <1> QED
    BY <1>1, <1>3, <1>4, <1>5, <1>6

(* A successor that has been visited already, and one that has not.        *)
LEMMA WalkGoes ==
  ASSUME NEW p \in Programs, NEW w, NEW v, NEW warn, WalkRight(p, w, warn),
         Head(w.stack).left # << >>, NEW c, c = Head(Head(w.stack).left),
         NEW rest, rest = <<[Head(w.stack) EXCEPT !.left = Tail(@)]>> \o Tail(w.stack),
         v.start = w.start,
         IF c \in w.visited
         THEN v.visited = w.visited /\ v.insts = w.insts /\ v.stack = rest
         ELSE /\ v.visited = w.visited \cup {c}
              /\ v.insts = w.insts \o Segment(p, w.start, c, 1)
              /\ v.stack = <<Frame(p, w.start, c, 1)>> \o rest
  PROVE  WalkRight(p, v, warn)
  <1>1. PICK n : n = w.start
    OBVIOUS
  <1>2. /\ n \in Notes(p, "start") /\ w.stack \in Seq(Frames(p)) /\ w.stack # << >>
        /\ Visits(p, w) /\ Waits(p, w) /\ Warns(p, w, warn)
    BY <1>1 DEF WalkRight, Visits, Waits
  <1>3. PICK top : top = Head(w.stack)
    OBVIOUS
  <1>4. PICK f : f = [top EXCEPT !.left = Tail(@)]
    OBVIOUS
  <1>5. /\ c \in Blocks(p) /\ f.found = top.found /\ top.left # << >>
        /\ Elements(top.left) = {c} \cup Elements(f.left)
        /\ rest \in Seq(Frames(p)) /\ rest # << >> /\ Elements(rest) = {f} \cup Elements(Tail(w.stack))
        /\ Elements(w.stack) = {top} \cup Elements(Tail(w.stack))
    BY <1>2, <1>3, <1>4, StackOpened
  <1>6. p.body[c][1] \in Inside(p, n)
    BY <1>1, <1>2, <1>5 DEF Waits
  <1>7. \A g \in Elements(rest) :
          /\ \A d \in Elements(g.left) : p.body[d][1] \in Inside(p, n)
          /\ g.found # None => g.found \in Inside(p, n) /\ EndsAt(p, n, g.found)
    BY <1>1, <1>2, <1>5 DEF Waits
  <1>8. \A b \in w.visited : ~Ended(p, n, b) =>
          \A d \in Elements(p.succ[b]) :
            d \in w.visited \cup {c} \/ \E g \in Elements(rest) : d \in Elements(g.left)
    <2>1. ASSUME NEW b \in w.visited, ~Ended(p, n, b), NEW d \in Elements(p.succ[b]),
                 d \notin w.visited \cup {c}
          PROVE  \E g \in Elements(rest) : d \in Elements(g.left)
      <3>1. PICK g \in Elements(w.stack) : d \in Elements(g.left)
        BY <1>1, <1>2, <2>1 DEF Waits
      <3> QED
        BY <1>5, <2>1, <3>1
    <2> QED
      BY <2>1
  <1>9. \A b \in w.visited : ~Ended(p, n, b) /\ p.succ[b] = << >> => n \in warn
    BY <1>1, <1>2, <1>3, <1>5 DEF Warns
  <1>10. CASE c \in w.visited
    <2>1. v.start = n /\ v.visited = w.visited /\ v.insts = w.insts /\ v.stack = rest
      BY <1>1, <1>10
    <2>2. Visits(p, v)
      BY <1>1, <1>2, <2>1 DEF Visits
    <2>3. Waits(p, v)
      BY <1>5, <1>7, <1>8, <1>10, <2>1 DEF Waits
    <2>4. Warns(p, v, warn)
      BY <1>9, <2>1 DEF Warns
    <2> QED
      BY <2>2, <2>3, <2>4 DEF WalkRight
  <1>11. CASE c \notin w.visited
    <2>1. PICK seg, new : seg = Segment(p, n, c, 1) /\ new = Frame(p, n, c, 1)
      OBVIOUS
    <2>2. /\ v.start = n /\ v.visited = w.visited \cup {c}
          /\ v.insts = w.insts \o seg /\ v.stack = <<new>> \o rest
      BY <1>1, <1>11, <2>1
    <2>3. 1 \in DOMAIN p.body[c] /\ c # BlockOf(p, n)
      BY <1>1, <1>2, <1>5, <1>11, BlockShape DEF Visits
    <2>4. Walked(p, n, c) = seg /\ (~Ended(p, n, c) => EndFound(p, n, c, 1) = None)
      BY <2>1, <2>3 DEF Walked, StartsAt, Ended
    <2>5. PICK l \in 1..Len(p.body[c]) : WalkedTo(p, n, c, 1, l)
      BY <1>5, <2>3, Segmented
    <2>6. /\ seg \in Seq(Instrs(p)) /\ Once(seg) /\ Elements(seg) = {p.body[c][j] : j \in 1..l}
          /\ Elements(seg) \subseteq Inside(p, n)
      BY <1>2, <1>5, <1>6, <2>1, <2>3, <2>5, SegmentInside DEF WalkedTo
    <2>7. \A m \in Elements(seg) : BlockOf(p, m) = c
      <3>1. \A j \in 1..l : j \in DOMAIN p.body[c]
        BY <1>5, BlockShape
      <3>2. ASSUME NEW m \in Elements(seg) PROVE BlockOf(p, m) = c
        <4>1. PICK j \in DOMAIN p.body[c] : m = p.body[c][j]
          BY <2>6, <3>1
        <4> QED
          BY <1>5, <4>1, Placed
      <3> QED
        BY <3>2
    <2>8. \A m \in Elements(w.insts) : BlockOf(p, m) \in w.visited
      <3>1. ASSUME NEW b \in w.visited, NEW m \in Elements(Walked(p, n, b)) PROVE BlockOf(p, m) = b
        <4>1. b \in Blocks(p) /\ StartsAt(p, n, b) \in DOMAIN p.body[b]
          BY <1>2, PlaceOf, BlockShape, ProgramsAssumption DEF Visits, StartsAt, Notes
        <4>2. PICK k \in StartsAt(p, n, b)..Len(p.body[b]) : WalkedTo(p, n, b, StartsAt(p, n, b), k)
          BY <4>1, Segmented
        <4>3. PICK j \in StartsAt(p, n, b)..k : m = p.body[b][j]
          BY <3>1, <4>2 DEF WalkedTo, Walked
        <4>4. j \in DOMAIN p.body[b]
          BY <4>1, <4>2, <4>3, BlockShape
        <4> QED
          BY <4>1, <4>3, <4>4, Placed
      <3> QED
        BY <1>1, <1>2, <3>1 DEF Visits
    <2>9. Elements(w.insts) \cap Elements(seg) = {}
      BY <1>11, <2>7, <2>8
    <2>10. PICK all : all = w.insts
      OBVIOUS
    <2>11. /\ all \in Seq(Instrs(p)) /\ all # << >> /\ Once(all) /\ all[1] = n
           /\ Elements(all) = UNION {Elements(Walked(p, n, b)) : b \in w.visited}
           /\ Elements(all) \subseteq Inside(p, n)
      BY <1>1, <1>2, <2>10 DEF Visits
    <2>12. /\ all \o seg \in Seq(Instrs(p)) /\ all \o seg # << >>
           /\ Elements(all \o seg) = Elements(all) \cup Elements(seg)
      BY <2>6, <2>11, Joined
    <2>13. Once(all \o seg) /\ (all \o seg)[1] = n
      <3>1. (all \o seg)[1] = all[1]
        BY <2>6, <2>11
      <3> QED
        BY <2>6, <2>9, <2>10, <2>11, <3>1, OnceJoined
    <2>14. Elements(all \o seg) = UNION {Elements(Walked(p, n, b)) : b \in w.visited \cup {c}}
      BY <2>4, <2>11, <2>12
    <2>15. Visits(p, v)
      <3>1. n \in Notes(p, "start") /\ BlockOf(p, n) \in v.visited /\ v.visited \subseteq Blocks(p)
        BY <1>1, <1>2, <1>5, <2>2 DEF Visits
      <3>2. v.insts = all \o seg /\ Elements(all \o seg) \subseteq Inside(p, n)
        BY <2>2, <2>6, <2>10, <2>11, <2>12
      <3> QED
        BY <2>2, <2>12, <2>13, <2>14, <3>1, <3>2 DEF Visits
    <2>16. /\ new \in Frames(p) /\ (~Ended(p, n, c) => new.left = p.succ[c] /\ new.found = None)
           /\ \A d \in Elements(new.left) : p.body[d][1] \in Inside(p, n)
           /\ new.found # None => new.found \in Inside(p, n) /\ EndsAt(p, n, new.found)
      <3>1. /\ n \in Notes(p, "start") /\ c \in Blocks(p) /\ 1 \in DOMAIN p.body[c]
            /\ p.body[c][1] \in Inside(p, n)
        BY <1>2, <1>5, <1>6, <2>3
      <3>2. /\ Frame(p, n, c, 1) \in Frames(p)
            /\ Frame(p, n, c, 1).found = EndFound(p, n, c, 1)
            /\ EndFound(p, n, c, 1) = None => Frame(p, n, c, 1).left = p.succ[c]
            /\ \A d \in Elements(Frame(p, n, c, 1).left) : p.body[d][1] \in Inside(p, n)
            /\ Frame(p, n, c, 1).found # None =>
                 Frame(p, n, c, 1).found \in Inside(p, n) /\ EndsAt(p, n, Frame(p, n, c, 1).found)
        BY <3>1, FrameRight
      <3>3. new = Frame(p, n, c, 1)
        BY <2>1
      <3> QED
        BY <2>4, <3>2, <3>3
    <2>17. /\ <<new>> \o rest \in Seq(Frames(p)) /\ <<new>> \o rest # << >>
           /\ Head(<<new>> \o rest) = new
           /\ Elements(<<new>> \o rest) = {new} \cup Elements(rest)
      <3>1. PICK r \in Seq(Frames(p)), g \in Frames(p) : r = rest /\ g = new
        BY <1>5, <2>16
      <3>2. LET all2 == <<g>> \o r
            IN /\ all2 \in Seq(Frames(p)) /\ all2 # << >> /\ Head(all2) = g
               /\ Elements(all2) = {g} \cup Elements(r)
        BY PutFirst
      <3> QED
        BY <3>1, <3>2
    <2>18. Waits(p, v)
      <3>1. \A b \in v.visited : ~Ended(p, n, b) =>
              \A d \in Elements(p.succ[b]) :
                d \in v.visited \/ \E g \in Elements(v.stack) : d \in Elements(g.left)
        <4>1. ASSUME NEW b \in v.visited, ~Ended(p, n, b), NEW d \in Elements(p.succ[b])
              PROVE  d \in v.visited \/ \E g \in Elements(v.stack) : d \in Elements(g.left)
          <5>1. CASE b = c
            BY <2>2, <2>16, <2>17, <4>1, <5>1
          <5>2. CASE b # c
            BY <1>8, <2>2, <2>17, <4>1, <5>2
          <5> QED
            BY <5>1, <5>2
        <4> QED
          BY <4>1
      <3> QED
        BY <1>7, <2>2, <2>16, <2>17, <3>1 DEF Waits
    <2>19. Warns(p, v, warn)
      BY <1>9, <2>2, <2>16, <2>17 DEF Warns
    <2> QED
      BY <2>15, <2>18, <2>19 DEF WalkRight
  <1> QED
    BY <1>10, <1>11

(* A block is done with; what it has found goes to the one below.          *)
LEMMA WalkComesBack ==
  ASSUME NEW p \in Programs, NEW w, NEW v, NEW warn, WalkRight(p, w, warn),
         Head(w.stack).left = << >>, Len(w.stack) > 1,
         NEW found, found = Head(w.stack).found,
         NEW below, below = Head(Tail(w.stack)),
         NEW back, back = IF found = None THEN below ELSE [below EXCEPT !.found = found],
         v.start = w.start, v.visited = w.visited, v.insts = w.insts,
         v.stack = <<back>> \o Tail(Tail(w.stack))
  PROVE  WalkRight(p, v, IF found = None THEN warn \cup {w.start} ELSE warn)
  <1>1. PICK n : n = w.start
    OBVIOUS
  <1>2. /\ w.stack \in Seq(Frames(p)) /\ w.stack # << >>
        /\ Visits(p, w) /\ Waits(p, w) /\ Warns(p, w, warn)
    BY DEF WalkRight, Waits
  <1>3. PICK st \in Seq(Frames(p)) : st = w.stack
    BY <1>2
  <1>4. Tail(st) \in Seq(Frames(p)) /\ Tail(st) # << >>
    BY <1>3, LongTail
  <1>5. /\ Head(st) \in Frames(p) /\ Elements(st) = {Head(st)} \cup Elements(Tail(st))
    BY <1>2, <1>3, FirstAndRest
  <1>6. PICK tail \in Seq(Frames(p)) : tail = Tail(st) /\ tail # << >>
    BY <1>4
  <1>7. /\ below \in Frames(p) /\ below = Head(tail) /\ Tail(tail) \in Seq(Frames(p))
        /\ Elements(tail) = {below} \cup Elements(Tail(tail))
    BY <1>3, <1>6, FirstAndRest
  <1>8. found \in Instrs(p) \cup {None}
    BY <1>3, <1>5 DEF Frames
  <1>9. back \in Frames(p) /\ back.left = below.left /\ back.found = IF found = None THEN below.found ELSE found
    BY <1>7, <1>8 DEF Frames
  <1>10. LET r == <<back>> \o Tail(tail)
         IN r \in Seq(Frames(p)) /\ r # << >> /\ Elements(r) = {back} \cup Elements(Tail(tail))
    <2>1. PICK r \in Seq(Frames(p)), g \in Frames(p) : r = Tail(tail) /\ g = back
      BY <1>7, <1>9
    <2>2. LET up == <<g>> \o r
          IN up \in Seq(Frames(p)) /\ up # << >> /\ Elements(up) = {g} \cup Elements(r)
      BY PutFirst
    <2> QED
      BY <2>1, <2>2
  <1>11. /\ v.stack \in Seq(Frames(p)) /\ v.stack # << >>
         /\ Elements(v.stack) = {back} \cup Elements(Tail(tail))
         /\ Elements(w.stack) = {Head(st), below} \cup Elements(Tail(tail))
    BY <1>3, <1>5, <1>6, <1>7, <1>10
  <1>12. Elements(Head(st).left) = {}
    BY <1>3 DEF Elements
  <1>13. Visits(p, v)
    BY <1>2 DEF Visits
  <1>14. Waits(p, v)
    <2>1. ASSUME NEW b \in v.visited, ~Ended(p, v.start, b), NEW c \in Elements(p.succ[b]), c \notin v.visited
          PROVE  \E f \in Elements(v.stack) : c \in Elements(f.left)
      <3>1. PICK f \in Elements(w.stack) : c \in Elements(f.left)
        BY <1>2, <2>1 DEF Waits
      <3> QED
        BY <1>9, <1>11, <1>12, <3>1
    <2>2. ASSUME NEW f \in Elements(v.stack)
          PROVE  /\ \A c \in Elements(f.left) : p.body[c][1] \in Inside(p, v.start)
                 /\ f.found # None => f.found \in Inside(p, v.start) /\ EndsAt(p, v.start, f.found)
      <3>1. \A g \in Elements(w.stack) :
              /\ \A c \in Elements(g.left) : p.body[c][1] \in Inside(p, v.start)
              /\ g.found # None => g.found \in Inside(p, v.start) /\ EndsAt(p, v.start, g.found)
        BY <1>2 DEF Waits
      <3>2. Head(st) \in Elements(w.stack) /\ below \in Elements(w.stack) /\ Head(st).found = found
        BY <1>3, <1>11
      <3>3. CASE f = back
        BY <1>9, <3>1, <3>2, <3>3
      <3>4. CASE f # back
        BY <1>11, <2>2, <3>1, <3>4
      <3> QED
        BY <3>3, <3>4
    <2> QED
      BY <1>11, <2>1, <2>2 DEF Waits
  <1>15. Warns(p, v, IF found = None THEN warn \cup {w.start} ELSE warn)
    BY <1>2 DEF Warns
  <1> QED
    BY <1>13, <1>14, <1>15 DEF WalkRight

(* An instruction that has been collected, and its place.                  *)
Collected(p, w, m, b, i, l) ==
  /\ i = StartsAt(p, w.start, b) /\ i \in DOMAIN p.body[b] /\ l \in i..Len(p.body[b])
  /\ WalkedTo(p, w.start, b, i, l)
  /\ \E j \in i..l : m = p.body[b][j]
  /\ Elements(Walked(p, w.start, b)) \subseteq Elements(w.insts)

LEMMA PlaceOfCollected ==
  ASSUME NEW p \in Programs, NEW w, Visits(p, w), NEW m \in Elements(w.insts)
  PROVE  \E b \in w.visited : \E i, l : Collected(p, w, m, b, i, l)
  <1>1. PICK b \in w.visited : m \in Elements(Walked(p, w.start, b))
    BY DEF Visits
  <1>2. b \in Blocks(p) /\ StartsAt(p, w.start, b) \in DOMAIN p.body[b]
    BY PlaceOf, BlockShape, ProgramsAssumption DEF Visits, StartsAt, Notes
  <1>3. PICK l \in StartsAt(p, w.start, b)..Len(p.body[b]) :
           WalkedTo(p, w.start, b, StartsAt(p, w.start, b), l)
    BY <1>2, Segmented
  <1>4. \E j \in StartsAt(p, w.start, b)..l : m = p.body[b][j]
    BY <1>1, <1>3 DEF WalkedTo, Walked
  <1>5. Elements(Walked(p, w.start, b)) \subseteq Elements(w.insts)
    BY DEF Visits
  <1>6. PICK i : i = StartsAt(p, w.start, b)
    OBVIOUS
  <1>7. Collected(p, w, m, b, i, l)
    BY <1>2, <1>3, <1>4, <1>5, <1>6 DEF Collected
  <1> QED
    BY <1>7

LEMMA WalkCompletes ==
  ASSUME NEW p \in Programs, NEW w, NEW warn, WalkRight(p, w, warn),
         Head(w.stack).left = << >>, Len(w.stack) = 1
  PROVE  RegionRight(p, w.start, w.insts,
                     IF Head(w.stack).found = None THEN warn \cup {w.start} ELSE warn)
  <1> DEFINE n == w.start
             top == Head(w.stack)
             now == IF top.found = None THEN warn \cup {n} ELSE warn
             found == Elements(w.insts)
             first == BlockOf(p, n)
             from == PositionOf(p, n)
             before == {p.body[first][j] : j \in 1..(from - 1)}
  <1>1. /\ n \in Notes(p, "start") /\ w.stack \in Seq(Frames(p)) /\ w.stack # << >>
        /\ Visits(p, w) /\ Waits(p, w) /\ Warns(p, w, warn)
    BY DEF WalkRight, Visits, Waits
  <1>2. Elements(w.stack) = {top} /\ Elements(top.left) = {}
    <2>1. PICK st \in Seq(Frames(p)) : st = w.stack
      BY <1>1
    <2>2. DOMAIN st = {1} /\ Head(st) = st[1]
      BY <2>1
    <2> QED
      BY <2>1, <2>2 DEF Elements
  <1>3. \A b \in w.visited : ~Ended(p, n, b) => Elements(p.succ[b]) \subseteq w.visited
    BY <1>1, <1>2 DEF Waits
  <1>4. \A b \in w.visited : ~Ended(p, n, b) /\ p.succ[b] = << >> => n \in now
    BY <1>1 DEF Warns
  <1>5. top.found # None => top.found \in Inside(p, n) /\ EndsAt(p, n, top.found)
    BY <1>1, <1>2 DEF Waits
  <1>6. /\ first \in Blocks(p) /\ first \in w.visited /\ w.visited \subseteq Blocks(p)
        /\ from \in DOMAIN p.body[first] /\ p.body[first][from] = n
    BY <1>1, PlaceOf, ProgramsAssumption DEF Visits, Notes
  <1>7. /\ Len(p.body[first]) \in Nat /\ DOMAIN p.body[first] = 1..Len(p.body[first])
        /\ from \in 1..Len(p.body[first])
    BY <1>6, BlockShape
  <1>8. found \subseteq Inside(p, n) /\ n \in found /\ w.insts \in Seq(Instrs(p)) /\ w.insts # << >>
          /\ Once(w.insts) /\ w.insts[1] = n
    <2>1. w.insts \in Seq(Instrs(p)) /\ w.insts # << >> /\ w.insts[1] = n
      BY <1>1 DEF Visits
    <2>2. w.insts[1] \in found
      BY <2>1, FirstAndRest
    <2> QED
      BY <1>1, <2>1, <2>2 DEF Visits
  <1>9. StartsAt(p, n, first) = from /\ \A b : b # first => StartsAt(p, n, b) = 1
    BY DEF StartsAt
  <1> HIDE DEF n, top, now, found, first, from
  <1>10. ASSUME NEW b \in w.visited PROVE b = first \/ p.body[b][1] \in found
    <2>1. CASE b # first
      <3>1. b \in Blocks(p) /\ 1 \in DOMAIN p.body[b]
        BY <1>6, BlockShape
      <3>2. PICK l \in 1..Len(p.body[b]) : WalkedTo(p, n, b, 1, l)
        BY <3>1, Segmented
      <3>3. 1 \in 1..l /\ p.body[b][1] \in Elements(Segment(p, n, b, 1))
        BY <3>1, <3>2, BlockShape DEF WalkedTo
      <3>4. Walked(p, n, b) = Segment(p, n, b, 1)
        BY <1>9, <2>1 DEF Walked
      <3> QED
        BY <1>1, <3>3, <3>4 DEF Visits, n, found
    <2> QED
      BY <2>1
  <1>11. ASSUME NEW m \in found PROVE Following(p, n, m) \subseteq found \cup before
    <2>a. PICK b \in w.visited : \E i, l : Collected(p, w, m, b, i, l)
      BY <1>1, PlaceOfCollected DEF found
    <2>b. PICK i, l : Collected(p, w, m, b, i, l)
      BY <2>a
    <2>1. /\ i = StartsAt(p, n, b) /\ i \in DOMAIN p.body[b] /\ l \in i..Len(p.body[b])
          /\ WalkedTo(p, n, b, i, l) /\ \E j \in i..l : m = p.body[b][j]
          /\ Elements(Walked(p, n, b)) \subseteq found
      BY <2>b DEF Collected, found, n
    <2>2. i = StartsAt(p, n, b)
      BY <2>1
    <2>3. PICK j \in i..l : m = p.body[b][j]
      BY <2>1
    <2>4. /\ b \in Blocks(p) /\ Len(p.body[b]) \in Nat /\ i \in 1..Len(p.body[b])
          /\ DOMAIN p.body[b] = 1..Len(p.body[b])
      BY <1>6, <2>1, <2>2, BlockShape
    <2>5. /\ l \in Nat /\ l <= Len(p.body[b]) /\ j \in Nat /\ j <= l /\ i <= j /\ j \in DOMAIN p.body[b]
      BY <2>1, <2>2, <2>3, <2>4
    <2>6. BlockOf(p, m) = b /\ PositionOf(p, m) = j
      BY <2>3, <2>4, <2>5, Placed
    <2>7. /\ Elements(Walked(p, n, b)) = {p.body[b][k] : k \in i..l}
          /\ l < Len(p.body[b]) => EndsAt(p, n, p.body[b][l])
          /\ EndFound(p, n, b, i) = IF EndsAt(p, n, p.body[b][l]) THEN p.body[b][l] ELSE None
      BY <2>1, <2>2 DEF WalkedTo, Walked
    <2>8. CASE EndsAt(p, n, m)
      BY <2>8 DEF Following
    <2>9. CASE ~EndsAt(p, n, m) /\ j < l
      <3>1. j < Len(p.body[b]) /\ j + 1 \in i..l
        BY <2>4, <2>5, <2>9
      <3>2. Following(p, n, m) = {p.body[b][j + 1]}
        BY <2>6, <2>9, <3>1 DEF Following
      <3> QED
        BY <2>1, <2>7, <3>1, <3>2
    <2>10. CASE ~EndsAt(p, n, m) /\ ~(j < l)
      <3>1. j = l
        BY <2>5, <2>10
      <3>2. ~(l < Len(p.body[b])) /\ EndFound(p, n, b, i) = None
        BY <2>3, <2>7, <2>10, <3>1
      <3>3. j = Len(p.body[b]) /\ ~(j < Len(p.body[b]))
        BY <2>4, <2>5, <3>1, <3>2
      <3>4. Following(p, n, m) = {p.body[c][1] : c \in Elements(p.succ[b])}
        BY <2>6, <2>10, <3>3 DEF Following
      <3>5. ~Ended(p, n, b)
        BY <2>2, <3>2 DEF Ended
      <3>6. ASSUME NEW c \in Elements(p.succ[b]) PROVE p.body[c][1] \in found \cup before
        <4>1. c \in w.visited
          BY <1>3, <3>5, <3>6
        <4>2. CASE c # first
          BY <1>10, <4>1, <4>2
        <4>3. CASE c = first /\ from = 1
          BY <1>6, <1>8, <4>3
        <4>4. CASE c = first /\ from # 1
          <5>1. 1 \in 1..(from - 1)
            BY <1>7, <4>4
          <5> QED
            BY <4>4, <5>1
        <4> QED
          BY <4>2, <4>3, <4>4
      <3> QED
        BY <3>4, <3>6
    <2> QED
      BY <2>8, <2>9, <2>10
  <1>12. ASSUME NEW j \in 1..(from - 1)
         PROVE  /\ p.body[first][j] \in Instrs(p) /\ BlockOf(p, p.body[first][j]) = first
                /\ PositionOf(p, p.body[first][j]) = j /\ j < from /\ j < Len(p.body[first])
                /\ Following(p, n, p.body[first][j]) \subseteq found \cup before
    <2>1. j \in DOMAIN p.body[first] /\ j < from /\ j < Len(p.body[first]) /\ j \in Nat
      BY <1>7
    <2>2. /\ p.body[first][j] \in Instrs(p) /\ BlockOf(p, p.body[first][j]) = first
          /\ PositionOf(p, p.body[first][j]) = j
      BY <1>6, <2>1, Placed
    <2>3. Following(p, n, p.body[first][j]) \subseteq {p.body[first][j + 1]}
      BY <2>1, <2>2 DEF Following
    <2>4. p.body[first][j + 1] \in found \cup before
      <3>1. CASE j + 1 = from
        BY <1>6, <1>8, <3>1
      <3>2. CASE j + 1 # from
        <4>1. j + 1 \in 1..(from - 1)
          BY <1>7, <2>1, <3>2
        <4> QED
          BY <4>1
      <3> QED
        BY <3>1, <3>2
    <2> QED
      BY <2>1, <2>2, <2>3, <2>4
  <1>13. Inside(p, n) \subseteq found \cup before
    <2>1. before \subseteq InstrsOf(p, FunctionOf(p, n))
      BY <1>12 DEF InstrsOf, FunctionOf, first
    <2>2. found \subseteq InstrsOf(p, FunctionOf(p, n))
      BY <1>1, <1>8, InsideOf
    <2>3. \A m \in found \cup before : Following(p, n, m) \subseteq found \cup before
      BY <1>11, <1>12
    <2> HIDE DEF before
    <2>4. PICK N \in SUBSET InstrsOf(p, FunctionOf(p, n)) : N = found \cup before
      BY <2>1, <2>2
    <2>5. n \in N /\ \A m \in N : Following(p, n, m) \subseteq N
      BY <1>8, <2>3, <2>4
    <2> QED
      BY <1>1, <2>4, <2>5, InsideOf
  <1>14. LoopsBack(p, n) \/ found = Inside(p, n)
    <2>1. ASSUME NEW m \in Inside(p, n), m \in before PROVE LoopsBack(p, n)
      <3>1. BlockOf(p, m) = first /\ PositionOf(p, m) < from
        BY <1>12, <2>1
      <3> QED
        BY <2>1, <3>1 DEF LoopsBack, first, from
    <2> QED
      BY <1>8, <1>13, <2>1
  <1>15. ASSUME EndMissing(p, n) PROVE n \in now
    <2>1. CASE ~\E m \in Inside(p, n) : EndsAt(p, n, m)
      BY <1>5, <2>1 DEF now
    <2>2. ASSUME NEW m \in Inside(p, n), ~EndsAt(p, n, m),
                 PositionOf(p, m) = Len(p.body[BlockOf(p, m)]), p.succ[BlockOf(p, m)] = << >>
          PROVE  n \in now
      <3>1. m \notin before
        <4>1. SUFFICES ASSUME NEW j \in 1..(from - 1), m = p.body[first][j] PROVE FALSE
          OBVIOUS
        <4>2. j = Len(p.body[first]) /\ j < Len(p.body[first])
          BY <1>12, <2>2, <4>1
        <4> QED
          BY <1>7, <4>2
      <3>2. m \in found
        BY <1>13, <2>2, <3>1
      <3>a. PICK b \in w.visited : \E i, l : Collected(p, w, m, b, i, l)
        BY <1>1, <3>2, PlaceOfCollected DEF found
      <3>b. PICK i, l : Collected(p, w, m, b, i, l)
        BY <3>a
      <3>3. /\ i = StartsAt(p, n, b) /\ i \in DOMAIN p.body[b] /\ l \in i..Len(p.body[b])
            /\ WalkedTo(p, n, b, i, l) /\ \E j \in i..l : m = p.body[b][j]
        BY <3>b DEF Collected, n
      <3>4. i = StartsAt(p, n, b)
        BY <3>3
      <3>5. PICK j \in i..l : m = p.body[b][j]
        BY <3>3
      <3>6. /\ b \in Blocks(p) /\ Len(p.body[b]) \in Nat /\ i \in 1..Len(p.body[b])
            /\ DOMAIN p.body[b] = 1..Len(p.body[b])
        BY <1>6, <3>3, <3>4, BlockShape
      <3>7. l \in Nat /\ l <= Len(p.body[b]) /\ j \in Nat /\ j <= l /\ j \in DOMAIN p.body[b]
        BY <3>3, <3>4, <3>5, <3>6
      <3>8. BlockOf(p, m) = b /\ PositionOf(p, m) = j
        BY <3>5, <3>6, <3>7, Placed
      <3>9. j = l
        BY <2>2, <3>6, <3>7, <3>8
      <3>10. EndFound(p, n, b, i) = None
        BY <2>2, <3>3, <3>4, <3>5, <3>9 DEF WalkedTo
      <3>11. ~Ended(p, n, b) /\ p.succ[b] = << >>
        BY <2>2, <3>4, <3>8, <3>10 DEF Ended
      <3> QED
        BY <1>4, <3>11
    <2> QED
      BY <1>15, <2>1, <2>2 DEF EndMissing
  <1>16. Head(w.insts) = n /\ Cardinality(found) = Len(w.insts)
    BY <1>8, OnceCounted, FirstAndRest DEF found
  <1> QED
    BY <1>8, <1>14, <1>15, <1>16 DEF RegionRight, found, n, now, top

-----------------------------------------------------------------------------
(* What stays as it is when sandboxes are made or reinitialised.           *)
LEMMA MarksStay ==
  ASSUME MarksServed, UNCHANGED prog, warned \subseteq warned',
         \A S \in Boxes : S \in Boxes' /\ sandboxes'[S].region = sandboxes[S].region,
         \A n : walk # NoWalk /\ walk.start = n => walk' # NoWalk /\ walk'.start = n,
         \A n \in Notes(prog, "start") : phase = "regions" /\ n \in toMake =>
           \/ phase' = "regions" /\ n \in toMake'
           \/ walk' # NoWalk /\ walk'.start = n
  PROVE  MarksServed'
  <1>1. ASSUME NEW n \in Notes(prog, "start"), NEW S \in Boxes,
               RegionRight(prog, n, sandboxes[S].region, warned)
        PROVE  S \in Boxes' /\ RegionRight(prog, n, sandboxes'[S].region, warned')
    BY <1>1 DEF RegionRight
  <1> QED
    BY <1>1 DEF MarksServed

LEMMA MakeRegions ==
  ASSUME SandboxesType, NEW n, NEW entry, NEW region, NEW persistent, NEW overhead, NEW clear,
         Make(n, entry, region, persistent, overhead, clear)
  PROVE  /\ \A S \in Boxes : S \in Boxes' /\ sandboxes'[S].region = sandboxes[S].region
         /\ \E S \in Boxes' : sandboxes'[S].region = region
  <1>1. PICK r : /\ sandboxes' = Append(sandboxes, r) /\ r.region = region
    BY DEF Make
  <1>2. PICK T : T = Elements(sandboxes)
    OBVIOUS
  <1>3. sandboxes \in Seq(T)
    BY <1>2 DEF SandboxesType
  <1>4. /\ Len(sandboxes) \in Nat /\ DOMAIN sandboxes = 1..Len(sandboxes)
        /\ DOMAIN Append(sandboxes, r) = 1..(Len(sandboxes) + 1)
        /\ Append(sandboxes, r)[Len(sandboxes) + 1] = r
        /\ \A S \in 1..Len(sandboxes) : Append(sandboxes, r)[S] = sandboxes[S]
    BY <1>3
  <1>5. Len(sandboxes) + 1 \in Boxes' /\ sandboxes'[Len(sandboxes) + 1].region = region
    BY <1>1, <1>4 DEF Boxes
  <1>6. \A S \in Boxes : S \in Boxes' /\ sandboxes'[S] = sandboxes[S]
    BY <1>1, <1>4 DEF Boxes
  <1> QED
    BY <1>5, <1>6

LEMMA ReinitRegions ==
  ASSUME SandboxesType, NEW g, NEW xs, Reinit(g, xs)
  PROVE  \A S \in Boxes : S \in Boxes' /\ sandboxes'[S].region = sandboxes[S].region
  <1>1. PICK q \in [Boxes -> BOOLEAN] :
           sandboxes' = [S \in Boxes |-> [sandboxes[S] EXCEPT !.persistent = q[S]]]
    BY DEF Reinit
  <1>2. ASSUME NEW S \in Boxes
        PROVE  S \in Boxes' /\ sandboxes'[S].region = sandboxes[S].region
    <2>1. sandboxes'[S] = [sandboxes[S] EXCEPT !.persistent = q[S]] /\ S \in Boxes'
      BY <1>1 DEF Boxes
    <2>2. Record(sandboxes[S])
      BY DEF SandboxesType
    <2> QED
      BY <2>1, <2>2 DEF Record
  <1> QED
    BY <1>2

(* Regions are all walked over before anything refers to a sandbox.        *)
LEMMA RegionsWalked ==
  ASSUME BitsInv, RegionsInv, StartRegion \/ WalkSuccessor \/ WalkReturn
  PROVE  RegionsInv'
  <1> USE DEF annotVars, initVars
  <1>0. /\ prog \in Programs /\ phase = "regions" /\ phase' = phase /\ MarksServed
        /\ UNCHANGED <<prog, sandboxes, graph>> /\ toMake \subseteq Notes(prog, "start") /\ ~Found
    BY DEF BitsInv, TurnsInv, FindPhases, RegionsInv, StartRegion, WalkSuccessor, WalkReturn, Walking
  <1>1. Boxes' = Boxes /\ \A S \in Boxes : sandboxes'[S].region = sandboxes[S].region
    BY <1>0 DEF Boxes
  <1>2. ASSUME WalkRight(prog, walk', warned'), warned \subseteq warned',
               \A n : walk # NoWalk /\ walk.start = n => walk'.start = n,
               \A n \in Notes(prog, "start") : n \in toMake => n \in toMake' \/ walk'.start = n
        PROVE  RegionsInv'
    <2>1. walk' # NoWalk
      BY <1>2 DEF WalkRight, Waits, NoWalk
    <2>2. MarksServed'
      BY <1>0, <1>1, <1>2, <2>1, MarksStay
    <2> QED
      BY <1>0, <1>2, <2>2 DEF RegionsInv, Found
  <1>3. CASE StartRegion
    <2>1. /\ walk = NoWalk /\ warned' = warned
          /\ \E n \in toMake :
               /\ toMake' = toMake \ {n}
               /\ walk' = [start |-> n, visited |-> {BlockOf(prog, n)},
                           insts |-> Segment(prog, n, BlockOf(prog, n), PositionOf(prog, n)),
                           stack |-> <<Frame(prog, n, BlockOf(prog, n), PositionOf(prog, n))>>]
      BY <1>3 DEF StartRegion
    <2>2. PICK n \in toMake :
             /\ toMake' = toMake \ {n}
             /\ walk' = [start |-> n, visited |-> {BlockOf(prog, n)},
                         insts |-> Segment(prog, n, BlockOf(prog, n), PositionOf(prog, n)),
                         stack |-> <<Frame(prog, n, BlockOf(prog, n), PositionOf(prog, n))>>]
      BY <2>1
    <2>3. WalkRight(prog, walk', warned')
      BY <1>0, <2>2, WalkStarts
    <2>4. walk'.start = n
      BY <2>2
    <2> QED
      BY <1>2, <2>1, <2>2, <2>3, <2>4
  <1>4. CASE WalkSuccessor
    <2>1. walk # NoWalk /\ Head(walk.stack).left # << >> /\ warned' = warned /\ toMake' = toMake
      BY <1>4 DEF WalkSuccessor, Walking
    <2>2. WalkRight(prog, walk, warned)
      BY <2>1 DEF RegionsInv
    <2>3. PICK c, rest : /\ c = Head(Head(walk.stack).left)
                         /\ rest = <<[Head(walk.stack) EXCEPT !.left = Tail(@)]>> \o Tail(walk.stack)
      OBVIOUS
    <2>4. walk' = IF c \in walk.visited THEN [walk EXCEPT !.stack = rest]
                  ELSE [walk EXCEPT !.visited = @ \cup {c},
                                    !.insts = @ \o Segment(prog, walk.start, c, 1),
                                    !.stack = <<Frame(prog, walk.start, c, 1)>> \o rest]
      BY <1>4, <2>3 DEF WalkSuccessor
    <2>5. walk = [start |-> walk.start, visited |-> walk.visited, insts |-> walk.insts,
                  stack |-> walk.stack]
      BY <2>1 DEF BitsInv, NamesInv, WalkType
    <2>6. /\ walk'.start = walk.start
          /\ IF c \in walk.visited
             THEN walk'.visited = walk.visited /\ walk'.insts = walk.insts /\ walk'.stack = rest
             ELSE /\ walk'.visited = walk.visited \cup {c}
                  /\ walk'.insts = walk.insts \o Segment(prog, walk.start, c, 1)
                  /\ walk'.stack = <<Frame(prog, walk.start, c, 1)>> \o rest
      BY <2>4, <2>5
    <2>7. WalkRight(prog, walk', warned)
      BY <1>0, <2>1, <2>2, <2>3, <2>6, WalkGoes
    <2> QED
      BY <1>2, <2>1, <2>6, <2>7
  <1>5. CASE WalkReturn
    <2>1. walk # NoWalk /\ Head(walk.stack).left = << >> /\ Len(walk.stack) > 1 /\ toMake' = toMake
      BY <1>5 DEF WalkReturn, Walking
    <2>2. WalkRight(prog, walk, warned)
      BY <2>1 DEF RegionsInv
    <2>3. PICK found, below : found = Head(walk.stack).found /\ below = Head(Tail(walk.stack))
      OBVIOUS
    <2>4. PICK back : back = IF found = None THEN below ELSE [below EXCEPT !.found = found]
      OBVIOUS
    <2>5. /\ walk' = [walk EXCEPT !.stack = <<back>> \o Tail(Tail(@))]
          /\ warned' = IF found = None THEN warned \cup {walk.start} ELSE warned
      BY <1>5, <2>3, <2>4 DEF WalkReturn
    <2>6. walk = [start |-> walk.start, visited |-> walk.visited, insts |-> walk.insts,
                  stack |-> walk.stack]
      BY <2>1 DEF BitsInv, NamesInv, WalkType
    <2>7. /\ walk'.start = walk.start /\ walk'.visited = walk.visited /\ walk'.insts = walk.insts
          /\ walk'.stack = <<back>> \o Tail(Tail(walk.stack))
      BY <2>5, <2>6
    <2>8. WalkRight(prog, walk', IF found = None THEN warned \cup {walk.start} ELSE warned)
      BY <1>0, <2>1, <2>2, <2>3, <2>4, <2>7, WalkComesBack
    <2>9. WalkRight(prog, walk', warned') /\ warned \subseteq warned'
      BY <2>5, <2>8
    <2> QED
      BY <1>2, <2>1, <2>7, <2>9
  <1> QED
    BY <1>3, <1>4, <1>5

LEMMA RegionsMade ==
  ASSUME BitsInv, RegionsInv, EndRegion
  PROVE  RegionsInv'
  <1> USE DEF annotVars, initVars
  <1>1. /\ prog \in Programs /\ phase = "regions" /\ phase' = phase /\ MarksServed /\ SandboxesType
        /\ UNCHANGED <<prog, toMake, graph>> /\ walk # NoWalk /\ walk' = NoWalk
        /\ Head(walk.stack).left = << >> /\ Len(walk.stack) = 1
        /\ Make(prog.note[walk.start].box, {}, walk.insts, FALSE, 0, {})
        /\ warned' = IF Head(walk.stack).found = None THEN warned \cup {walk.start} ELSE warned
    BY DEF BitsInv, NamesInv, TurnsInv, RegionsInv, EndRegion, Walking
  <1>2. WalkRight(prog, walk, warned)
    BY <1>1 DEF RegionsInv
  <1>3. RegionRight(prog, walk.start, walk.insts, warned')
    BY <1>1, <1>2, WalkCompletes
  <1>4. /\ \A S \in Boxes : S \in Boxes' /\ sandboxes'[S].region = sandboxes[S].region
        /\ \E S \in Boxes' : sandboxes'[S].region = walk.insts
    <2>1. PICK name, insts : name = prog.note[walk.start].box /\ insts = walk.insts
      OBVIOUS
    <2>2. Make(name, {}, insts, FALSE, 0, {})
      BY <1>1, <2>1
    <2>3. /\ \A S \in Boxes : S \in Boxes' /\ sandboxes'[S].region = sandboxes[S].region
          /\ \E S \in Boxes' : sandboxes'[S].region = insts
      BY <1>1, <2>2, MakeRegions
    <2> QED
      BY <2>1, <2>3
  <1>5. \E S \in Boxes' : RegionRight(prog, walk.start, sandboxes'[S].region, warned')
    BY <1>3, <1>4
  <1>6. ASSUME NEW n \in Notes(prog, "start"), NEW S \in Boxes,
               RegionRight(prog, n, sandboxes[S].region, warned)
        PROVE  S \in Boxes' /\ RegionRight(prog, n, sandboxes'[S].region, warned')
    BY <1>1, <1>4, <1>6 DEF RegionRight
  <1>7. MarksServed'
    <2>1. SUFFICES ASSUME NEW n \in Notes(prog, "start")
                   PROVE  \/ phase' = "regions" /\ n \in toMake'
                          \/ \E S \in Boxes' : RegionRight(prog, n, sandboxes'[S].region, warned')
      BY <1>1 DEF MarksServed
    <2>2. CASE n \in toMake
      BY <1>1, <2>2
    <2>3. CASE walk.start = n
      BY <1>5, <2>3
    <2>4. CASE \E S \in Boxes : RegionRight(prog, n, sandboxes[S].region, warned)
      BY <1>6, <2>4
    <2> QED
      BY <1>1, <2>2, <2>3, <2>4 DEF MarksServed
  <1> QED
    BY <1>1, <1>7 DEF RegionsInv

(* What comes after the regions leaves them alone.                         *)
LEMMA RegionsKept ==
  ASSUME BitsInv, RegionsInv,
         MakeReferenced \/ SetUp \/ ReinitSandboxes \/ AddTarget \/ EndPointers
  PROVE  RegionsInv'
  <1> USE DEF annotVars, findVars, initVars
  <1>1. /\ phase \in {"references", "pointers"} /\ phase' \in {"references", "pointers", "ready"}
        /\ UNCHANGED <<prog, walk, warned>> /\ SandboxesType
        /\ phase = "pointers" => Found
    BY DEF BitsInv, NamesInv, TurnsInv, MakeReferenced, SetUp, ReinitSandboxes, AddTarget, EndPointers
  <1>2. walk = NoWalk /\ MarksServed
    BY <1>1 DEF RegionsInv
  <1>3. \A S \in Boxes : S \in Boxes' /\ sandboxes'[S].region = sandboxes[S].region
    <2>1. CASE MakeReferenced
      <3>1. PICK n : IF Named(n) = {} THEN Make(n, {}, << >>, TRUE, 0, {})
                     ELSE UNCHANGED <<names, sandboxes>>
        BY <2>1 DEF MakeReferenced
      <3>2. CASE Named(n) = {}
        BY <1>1, <3>1, <3>2, MakeRegions
      <3>3. CASE Named(n) # {}
        BY <3>1, <3>3 DEF Boxes
      <3> QED
        BY <3>2, <3>3
    <2>2. CASE SetUp \/ EndPointers
      BY <2>2 DEF SetUp, EndPointers, Boxes
    <2>3. CASE ReinitSandboxes \/ AddTarget
      <3>1. PICK g, xs : Reinit(g, xs)
        BY <2>3 DEF ReinitSandboxes, AddTarget
      <3> QED
        BY <1>1, <3>1, ReinitRegions
    <2> QED
      BY <2>1, <2>2, <2>3
  <1>4. MarksServed'
    BY <1>1, <1>2, <1>3, MarksStay
  <1> QED
    BY <1>1, <1>2, <1>4 DEF RegionsInv

LEMMA RegionsStep ==
  ASSUME BitsInv, RegionsInv, [CNext]_cvars
  PROVE  RegionsInv'
  <1> USE DEF annotVars, findVars, initVars
  <1>0. phase \in FindPhases => ~Found
    BY DEF BitsInv, TurnsInv
  <1>1. CASE UNCHANGED cvars \/ (CNext /\ ~FindStep)
    <2>1. /\ UNCHANGED <<prog, walk, warned, sandboxes, toMake, graph>>
          /\ phase' = phase \/ phase' \notin FindPhases
      BY <1>1, OtherSteps DEF cvars, vars
    <2>2. \A S \in Boxes : S \in Boxes' /\ sandboxes'[S].region = sandboxes[S].region
      BY <2>1 DEF Boxes
    <2>3. ASSUME MarksServed, phase' = phase \/ phase # "regions" PROVE MarksServed'
      BY <2>1, <2>2, <2>3, MarksStay
    <2>4. (phase' = phase \/ phase # "regions") => RegionsInv'
      BY <2>1, <2>3 DEF RegionsInv, Found, FindPhases
    <2>5. CASE phase' # phase /\ phase = "regions"
      BY <1>0, <2>1, <2>5 DEF RegionsInv, Found, FindPhases
    <2> QED
      BY <2>4, <2>5
  <1>2. CASE \/ EntryAnnotation \/ RightsAnnotation \/ OtherAnnotation \/ EndAnnotations
             \/ MakeFunctionSandbox
    <2>1. /\ phase \in {"annotations", "make"} /\ phase' \in {"annotations", "make"}
          /\ UNCHANGED <<prog, walk, warned, graph>>
      BY <1>2 DEF EntryAnnotation, RightsAnnotation, OtherAnnotation, ReadAnnotation,
                  EndAnnotations, MakeFunctionSandbox
    <2> QED
      BY <1>0, <2>1 DEF RegionsInv, FindPhases, Found
  <1>3. CASE EndFunctions
    <2>1. /\ phase = "make" /\ phase' = "regions" /\ toMake' = Notes(prog, "start")
          /\ UNCHANGED <<prog, walk, warned, graph>>
      BY <1>3 DEF EndFunctions
    <2>2. MarksServed'
      BY <2>1 DEF MarksServed
    <2> QED
      BY <2>1, <2>2 DEF RegionsInv, Found
  <1>4. CASE StartRegion \/ WalkSuccessor \/ WalkReturn
    BY <1>4, RegionsWalked
  <1>5. CASE EndRegion
    BY <1>5, RegionsMade
  <1>6. CASE EndRegions
    <2>1. /\ phase = "regions" /\ phase' = "references" /\ toMake = {} /\ walk = NoWalk
          /\ UNCHANGED <<prog, walk, warned, sandboxes>>
      BY <1>6 DEF EndRegions
    <2>2. MarksServed'
      BY <2>1 DEF RegionsInv, MarksServed, Boxes
    <2> QED
      BY <2>1, <2>2 DEF RegionsInv
  <1>7. CASE MakeReferenced \/ SetUp \/ ReinitSandboxes \/ AddTarget \/ EndPointers
    BY <1>7, RegionsKept
  <1> QED
    BY <1>1, <1>2, <1>3, <1>4, <1>5, <1>6, <1>7 DEF FindStep, Find

(* Each mark of a region has its sandbox, of the instructions between it   *)
(* and the region's end, and a warning if there is none, however blocks    *)
(* branch and loop, for every program (findAllSandboxedInstructions()).    *)
THEOREM RegionsFound == CSpec => []RegionsAsMarked
  <1>1. CInit => BitsInv /\ RegionsInv
    BY BitsFirst DEF CInit, Init, RegionsInv, Found
  <1>2. BitsInv /\ RegionsInv /\ [CNext]_cvars => (BitsInv /\ RegionsInv)'
    BY BitsStep, RegionsStep
  <1>3. BitsInv /\ RegionsInv => RegionsAsMarked
    <2>1. SUFFICES ASSUME BitsInv, RegionsInv, Found PROVE RegionsAsMarked
      BY DEF RegionsAsMarked
    <2>2. phase # "regions" /\ walk = NoWalk /\ MarksServed
      BY <2>1 DEF BitsInv, TurnsInv, FindPhases, RegionsInv
    <2>3. \A n \in Notes(prog, "start") :
            \E S \in Boxes : RegionRight(prog, n, sandboxes[S].region, warned)
      BY <2>2 DEF MarksServed
    <2> QED
      BY <2>3, Zenon DEF RegionsAsMarked, RegionRight, RegionSet
  <1>4. QED
    BY <1>1, <1>2, <1>3, PTL DEF CSpec

-----------------------------------------------------------------------------
(***************************************************************************)
(* The reports.                                                            *)
(***************************************************************************)
RanNames == {"creations", "perf", "rpc", "vuln", "globals", "syscalls", "privcalls",
             "sandboxedfuncs", "origin", "classified", "private"}

(* Nothing has been run, or everything about sandboxes is known.           *)
RanInv ==
  /\ ran \in Seq(RanNames)
  /\ phase \in FindPhases \cup {"pointers", "ready", "exited"} => ran = << >>
  /\ setting = None => phase \in {"annotations", "exited"}
  /\ setting # None /\ phase # "exited" => setting.platform = PlatformOf(prog.opt)
  /\ phase \notin FindPhases \cup {"pointers", "exited"} => Found /\ toMake = {}

(* What is reported is what the sandboxes, as they are, make of it.        *)
ReportsInv ==
  /\ "vuln" \in Elements(ran) /\ phase # "crashed" =>
       leaks = LeaksInSandboxes \cup PrivilegedLeaks /\ ~FollowsNull
  /\ "privcalls" \in Elements(ran) => privCalls = PrivCallReport
  /\ "sandboxedfuncs" \in Elements(ran) =>
       misplaced = {w \in MisplacedReport : w.privileged \/ w.boxes # {}}

CheckInv == BitsInv /\ Current /\ RanInv /\ ReportsInv

LEMMA Literals ==
  ASSUME NEW T, NEW x \in T
  PROVE  /\ << >> \in Seq(T) /\ Elements(<< >>) = {}
         /\ <<x>> \in Seq(T) /\ Elements(<<x>>) = {x}
  <1>1. << >> \in Seq(T) /\ Elements(<< >>) = {}
    BY DEF Elements
  <1>2. <<x>> \in Seq(T) /\ Elements(<<x>>) = {x}
    BY DEF Elements
  <1>3. QED
    BY <1>1, <1>2

(* As long as sandboxes stay as they are, so does what is to be reported.  *)
LEMMA ReportsKept ==
  ASSUME UNCHANGED <<prog, findVars, initVars, setting>>
  PROVE  /\ LeaksInSandboxes' = LeaksInSandboxes /\ PrivilegedLeaks' = PrivilegedLeaks
         /\ FollowsNull' <=> FollowsNull
         /\ PrivCallReport' = PrivCallReport /\ MisplacedReport' = MisplacedReport
  <1> USE DEF findVars, annotVars, initVars
  <1>1. VulnerableFuncs' = VulnerableFuncs /\ Boxes' = Boxes
    BY DEF VulnerableFuncs, PastVulnerable, From, Boxes
  <1>2. \A S : Leaked(S)' = Leaked(S)
    <2>1. \A S : Rights(S)' = Rights(S)
      BY DEF Rights, GlobalRights, DescriptorRights, CallgateRights, PrivateRights
    <2>2. QED
      BY <2>1 DEF Leaked, Protects, Ambient
  <1>3. LeaksInSandboxes' = LeaksInSandboxes
    BY <1>1, <1>2 DEF LeaksInSandboxes, Leak
  <1>4. PrivilegedLeaks' = PrivilegedLeaks
    BY <1>1 DEF PrivilegedLeaks, Leak, Ambient
  <1>5. FollowsNull' <=> FollowsNull
    BY <1>1 DEF FollowsNull, Protects
  <1>6. PrivCallReport' = PrivCallReport
    BY <1>1 DEF PrivCallReport, PrivilegedUses
  <1>7. MisplacedReport' = MisplacedReport
    <2>1. \A f : Disallowed(f)' = Disallowed(f)
      <3>1. \A n : WithName(n)' = WithName(n) /\ Named(n)' = Named(n)
        BY DEF WithName, Named
      <3>2. \A f : LastAnnotation(f)' = LastAnnotation(f)
        BY DEF LastAnnotation
      <3>3. \A f : Restriction(f)' = Restriction(f)
        BY <3>1, <3>2 DEF Restriction
      <3>4. QED
        BY <1>1, <3>3 DEF Disallowed
    <2>2. QED
      BY <2>1 DEF MisplacedReport
  <1>8. QED
    BY <1>3, <1>4, <1>5, <1>6, <1>7

-----------------------------------------------------------------------------
(* Nothing is run until the sandboxes are found.                           *)
LEMMA Finding ==
  ASSUME Find
  PROVE  /\ phase \in FindPhases \cup {"pointers"} /\ prog' = prog
         /\ phase' \in FindPhases \cup {"pointers"} \/ (EndPointers /\ phase' = "ready")
  <1>1. CASE \/ EntryAnnotation \/ RightsAnnotation \/ OtherAnnotation \/ EndAnnotations
             \/ MakeFunctionSandbox \/ EndFunctions
    BY <1>1 DEF EntryAnnotation, RightsAnnotation, OtherAnnotation, ReadAnnotation,
                EndAnnotations, MakeFunctionSandbox, EndFunctions, FindPhases
  <1>2. CASE \/ StartRegion \/ WalkSuccessor \/ WalkReturn \/ EndRegion \/ EndRegions
             \/ MakeReferenced
    BY <1>2 DEF StartRegion, WalkSuccessor, WalkReturn, EndRegion, Walking, EndRegions,
                MakeReferenced, FindPhases
  <1>3. CASE SetUp \/ ReinitSandboxes \/ AddTarget \/ EndPointers
    BY <1>3 DEF SetUp, ReinitSandboxes, AddTarget, EndPointers, FindPhases
  <1>4. QED
    BY <1>1, <1>2, <1>3 DEF Find

LEMMA FindKeeps ==
  ASSUME CheckInv, FindStep
  PROVE  RanInv' /\ ReportsInv'
  <1>1. Find /\ setting # None /\ UNCHANGED <<setting, ran>>
    BY DEF FindStep
  <1>2. phase \in FindPhases \cup {"pointers"} /\ ran = << >> /\ prog' = prog
    BY <1>1, Finding DEF CheckInv, RanInv
  <1>3. RanInv'
    <2>1. phase' = "ready" => Found' /\ toMake' = {}
      <3>1. phase' = "ready" => EndPointers
        BY <1>1, Finding DEF FindPhases
      <3>2. EndPointers => toMake = {} /\ Found /\ UNCHANGED <<toMake, graph>>
        BY DEF EndPointers, findVars, initVars, CheckInv, BitsInv, TurnsInv
      <3>3. QED
        BY <3>1, <3>2 DEF Found
    <2>2. phase \notin {"exited"} /\ setting.platform = PlatformOf(prog.opt)
      BY <1>1, <1>2 DEF CheckInv, RanInv, FindPhases
    <2>3. phase' \in FindPhases \cup {"pointers", "ready"}
      BY <1>1, Finding
    <2>4. QED
      BY <1>1, <1>2, <2>1, <2>2, <2>3 DEF CheckInv, RanInv
  <1>4. Elements(ran') = {}
    BY <1>1, <1>2 DEF Elements
  <1>5. ReportsInv'
    BY <1>4 DEF ReportsInv
  <1>6. QED
    BY <1>3, <1>5

(* A report that is not touched stays right.                               *)
LEMMA ReportsStay ==
  ASSUME ReportsInv, UNCHANGED <<prog, findVars, initVars, setting>>,
         \/ "vuln" \notin Elements(ran')
         \/ UNCHANGED leaks /\ "vuln" \in Elements(ran) /\ phase # "crashed"
         \/ phase' = "crashed",
         "privcalls" \in Elements(ran') => "privcalls" \in Elements(ran) /\ UNCHANGED privCalls,
         "sandboxedfuncs" \in Elements(ran') =>
           "sandboxedfuncs" \in Elements(ran) /\ UNCHANGED misplaced
  PROVE  ReportsInv'
  BY ReportsKept DEF ReportsInv

(* The steps of runOnModule() that report nothing of these.                *)
LEMMA StepsKeep ==
  ASSUME CheckInv,
         \/ ProcessCmdLineArgs \/ TraceStep \/ ValidateCreations \/ Instrument \/ RPC
         \/ DataFlow \/ PassOver \/ InfoFlowAnalyses
  PROVE  RanInv' /\ ReportsInv'
  <1> USE DEF findVars, annotVars, initVars
  <1>1. CASE ProcessCmdLineArgs
    <2>1. /\ setting = None /\ UNCHANGED <<prog, findVars, initVars, ran>>
          /\ phase' = "exited" \/ (phase' = phase /\ setting'.platform = PlatformOf(prog.opt))
      BY <1>1 DEF ProcessCmdLineArgs
    <2>2. ran = << >> /\ phase \in {"annotations", "exited"}
      BY <2>1 DEF CheckInv, RanInv, FindPhases
    <2>3. Elements(ran') = {}
      BY <2>1, <2>2 DEF Elements
    <2>4. RanInv'
      BY <2>1, <2>2 DEF CheckInv, RanInv, Found, FindPhases
    <2>5. QED
      BY <2>3, <2>4 DEF ReportsInv
  <1>2. CASE TraceStep
    <2>1. UNCHANGED <<prog, phase, findVars, initVars, setting, ran, leaks, privCalls, misplaced>>
      BY <1>2 DEF TraceStep, vars, reportVars
    <2>2. RanInv'
      BY <2>1 DEF CheckInv, RanInv, Found
    <2>3. ReportsInv'
      BY <2>1, ReportsKept DEF CheckInv, ReportsInv
    <2>4. QED
      BY <2>2, <2>3
  <1>3. CASE ValidateCreations \/ Instrument \/ RPC \/ DataFlow \/ PassOver \/ InfoFlowAnalyses
    <2>1. /\ UNCHANGED <<prog, findVars, initVars, setting, leaks, privCalls, misplaced>>
          /\ phase \in {"ready", "validated", "rpc", "vuln", "dataflow", "privcalls", "sandboxed"}
          /\ phase' \in {"done", "validated", "rpc", "vuln", "dataflow", "privcalls", "sandboxed"}
      BY <1>3 DEF ValidateCreations, Instrument, RPC, DataFlow, PassOver, InfoFlowAnalyses, Step,
                  reportVars
    <2>2. /\ ran' \in Seq(RanNames)
          /\ Elements(ran') \subseteq Elements(ran) \cup
               {"creations", "perf", "rpc", "globals", "syscalls", "origin", "classified", "private"}
      <3>0. ran \in Seq(RanNames)
        BY DEF CheckInv, RanInv
      <3>1. CASE ValidateCreations \/ Instrument \/ RPC
        <4>1. PICK x \in {"creations", "perf", "rpc"} : ran' = Append(ran, x)
          BY <3>1 DEF ValidateCreations, Instrument, RPC, Run
        <4>2. x \in RanNames
          BY <4>1 DEF RanNames
        <4>3. Append(ran, x) \in Seq(RanNames) /\ Elements(Append(ran, x)) = Elements(ran) \cup {x}
          BY <3>0, <4>2, Appended
        <4>4. QED
          BY <4>1, <4>3
      <3>2. CASE DataFlow
        <4>1. PICK s, t : /\ s = IfChosen("globals") /\ t = IfChosen("syscalls")
                          /\ ran' = ran \o s \o t
          BY <3>2 DEF DataFlow
        <4>2. "globals" \in RanNames /\ "syscalls" \in RanNames
          BY DEF RanNames
        <4>3. s \in Seq(RanNames) /\ t \in Seq(RanNames)
          BY <4>1, <4>2, Literals DEF IfChosen
        <4>4. Elements(s) \subseteq {"globals"} /\ Elements(t) \subseteq {"syscalls"}
          BY <4>1, <4>2, Literals DEF IfChosen
        <4>5. ran \o s \in Seq(RanNames) /\ Elements(ran \o s) = Elements(ran) \cup Elements(s)
          BY <3>0, <4>3, Joined
        <4>6. /\ ran \o s \o t \in Seq(RanNames)
              /\ Elements(ran \o s \o t) = Elements(ran) \cup Elements(s) \cup Elements(t)
          <5>1. PICK rs \in Seq(RanNames) : rs = ran \o s
            BY <4>5
          <5>2. rs \o t \in Seq(RanNames) /\ Elements(rs \o t) = Elements(rs) \cup Elements(t)
            BY <4>3, Joined
          <5>3. QED
            BY <4>5, <5>1, <5>2
        <4>7. QED
          BY <4>1, <4>4, <4>6
      <3>3. CASE PassOver
        BY <3>0, <3>3 DEF PassOver
      <3>4. CASE InfoFlowAnalyses
        <4>1. CASE ran' = ran
          BY <3>0, <4>1
        <4>2. CASE ran' = ran \o <<"origin", "classified", "private">>
          <5>1. PICK s : s = <<"origin", "classified", "private">>
            OBVIOUS
          <5>2. "origin" \in RanNames /\ "classified" \in RanNames /\ "private" \in RanNames
            BY DEF RanNames
          <5>3. s \in Seq(RanNames) /\ Elements(s) = {"origin", "classified", "private"}
            <6>1. s \in Seq(RanNames)
              BY <5>1, <5>2
            <6>2. Elements(s) = {"origin", "classified", "private"}
              BY <5>1 DEF Elements
            <6>3. QED
              BY <6>1, <6>2
          <5>4. ran \o s \in Seq(RanNames) /\ Elements(ran \o s) = Elements(ran) \cup Elements(s)
            BY <3>0, <5>3, Joined
          <5>5. QED
            BY <4>2, <5>1, <5>3, <5>4
        <4>3. QED
          BY <3>4, <4>1, <4>2 DEF InfoFlowAnalyses
      <3>5. QED
        BY <1>3, <3>1, <3>2, <3>3, <3>4
    <2>3. RanInv'
      BY <2>1, <2>2 DEF CheckInv, RanInv, FindPhases, Found
    <2>4. /\ "vuln" \in Elements(ran') => "vuln" \in Elements(ran)
          /\ "privcalls" \in Elements(ran') => "privcalls" \in Elements(ran)
          /\ "sandboxedfuncs" \in Elements(ran') => "sandboxedfuncs" \in Elements(ran)
      BY <2>2
    <2>5. ReportsInv'
      <3>1. phase # "crashed" /\ ReportsInv
        BY <2>1 DEF CheckInv
      <3>2. QED
        BY <2>1, <2>4, <3>1, ReportsStay
    <2>6. QED
      BY <2>3, <2>5
  <1>4. QED
    BY <1>1, <1>2, <1>3

(* The steps that report.                                                  *)
LEMMA ReportSteps ==
  ASSUME CheckInv, Vuln \/ PrivCalls \/ SandboxedFuncs
  PROVE  RanInv' /\ ReportsInv'
  <1> USE DEF findVars, annotVars, initVars
  <1>0. ran \in Seq(RanNames) /\ ReportsInv
    BY DEF CheckInv, RanInv
  <1>1. CASE Vuln
    <2>1. /\ UNCHANGED <<prog, findVars, initVars, setting, privCalls, misplaced>>
          /\ ran' = Append(ran, "vuln") /\ phase = "rpc"
          /\ phase' = IF FollowsNull THEN "crashed" ELSE "vuln"
          /\ ~FollowsNull => leaks' = LeaksInSandboxes \cup PrivilegedLeaks
      BY <1>1 DEF Vuln, Step, Run, CheckLeakedRights
    <2>2. ran' \in Seq(RanNames) /\ Elements(ran') = Elements(ran) \cup {"vuln"}
      BY <1>0, <2>1, Appended, "vuln" \in RanNames DEF RanNames
    <2>3. RanInv'
      BY <2>1, <2>2 DEF CheckInv, RanInv, FindPhases, Found
    <2>4. ReportsInv'
      BY <1>0, <2>1, <2>2, ReportsKept DEF ReportsInv
    <2>5. QED
      BY <2>3, <2>4
  <1>2. CASE PrivCalls
    <2>1. /\ UNCHANGED <<prog, findVars, initVars, setting, leaks, misplaced>>
          /\ ran' = Append(ran, "privcalls") /\ phase = "dataflow" /\ phase' = "privcalls"
          /\ privCalls' = PrivCallReport
      BY <1>2 DEF PrivCalls, Step, Run, CheckPrivilegedCalls
    <2>2. ran' \in Seq(RanNames) /\ Elements(ran') = Elements(ran) \cup {"privcalls"}
      BY <1>0, <2>1, Appended, "privcalls" \in RanNames DEF RanNames
    <2>3. RanInv'
      BY <2>1, <2>2 DEF CheckInv, RanInv, FindPhases, Found
    <2>4. ReportsInv'
      BY <1>0, <2>1, <2>2, ReportsKept DEF ReportsInv
    <2>5. QED
      BY <2>3, <2>4
  <1>3. CASE SandboxedFuncs
    <2>1. /\ UNCHANGED <<prog, findVars, initVars, setting, leaks, privCalls>>
          /\ ran' = Append(ran, "sandboxedfuncs") /\ phase = "privcalls" /\ phase' = "sandboxed"
          /\ misplaced' = {w \in MisplacedReport : w.privileged \/ w.boxes # {}}
      BY <1>3 DEF SandboxedFuncs, Step, Run, CheckSandboxedFuncs
    <2>2. ran' \in Seq(RanNames) /\ Elements(ran') = Elements(ran) \cup {"sandboxedfuncs"}
      BY <1>0, <2>1, Appended, "sandboxedfuncs" \in RanNames DEF RanNames
    <2>3. RanInv'
      BY <2>1, <2>2 DEF CheckInv, RanInv, FindPhases, Found
    <2>4. ReportsInv'
      BY <1>0, <2>1, <2>2, ReportsKept DEF ReportsInv
    <2>5. QED
      BY <2>3, <2>4
  <1>4. QED
    BY <1>1, <1>2, <1>3

LEMMA ChecksStep ==
  ASSUME CheckInv, [CNext]_cvars
  PROVE  CheckInv'
  <1>1. BitsInv' /\ Current'
    BY BitsStep, CurrentStep DEF CheckInv
  <1>2. CASE UNCHANGED cvars
    <2>1. UNCHANGED <<prog, phase, findVars, initVars, setting, ran, leaks, privCalls, misplaced>>
      BY <1>2 DEF cvars, vars, reportVars
    <2>2. RanInv'
      BY <2>1 DEF CheckInv, RanInv, Found, findVars, initVars
    <2>3. ReportsInv'
      BY <2>1, ReportsKept DEF CheckInv, ReportsInv
    <2>4. QED
      BY <1>1, <2>2, <2>3 DEF CheckInv
  <1>3. CASE CNext
    BY <1>1, <1>3, FindKeeps, StepsKeep, ReportSteps DEF CNext, CheckInv
  <1>4. QED
    BY <1>2, <1>3

LEMMA ChecksFirst ==
  ASSUME CInit
  PROVE  CheckInv
  <1>1. BitsInv /\ Current
    BY BitsFirst DEF CInit, Init, Current, Found
  <1>2. RanInv
    BY DEF CInit, Init, RanInv, FindPhases
  <1>3. ReportsInv
    BY DEF CInit, ReportsInv, Elements
  <1>4. QED
    BY <1>1, <1>2, <1>3 DEF CheckInv

LEMMA ChecksHold == CSpec => []CheckInv
  BY ChecksFirst, ChecksStep, PTL DEF CSpec

-----------------------------------------------------------------------------
(* What the reports are made of.                                           *)

LEMMA LastPosition ==
  ASSUME NEW n \in Nat, NEW T \in SUBSET (1..n), T # {}
  PROVE  \E x \in T : \A y \in T : y <= x
  <1> DEFINE U == {n - y : y \in T}
  <1>1. U \in SUBSET Nat /\ U # {}
    <2>1. ASSUME NEW y \in T PROVE n - y \in Nat
      <3>1. y \in 1..n
        BY <2>1
      <3>2. QED
        BY <3>1
    <2>2. \A u \in U : u \in Nat
      BY <2>1
    <2>3. PICK y : y \in T
      OBVIOUS
    <2>4. n - y \in U
      BY <2>3
    <2>5. QED
      BY <2>2, <2>4
  <1>2. PICK u \in U : \A v \in U : u <= v
    <2> HIDE DEF U
    <2>1. QED
      BY <1>1, FirstPosition
  <1>3. PICK x \in T : u = n - x
    OBVIOUS
  <1>4. ASSUME NEW y \in T PROVE y <= x
    <2>1. n - y \in U
      OBVIOUS
    <2>2. u <= n - y
      BY <1>2, <2>1
    <2>3. QED
      BY <1>3, <2>2
  <1>5. QED
    BY <1>4

(* Of the annotations of a function one is the last.                       *)
LEMMA LastListed ==
  ASSUME prog \in Programs, NEW f \in {a.on : a \in Annots(prog, "sandboxed")}
  PROVE  \E a \in Annots(prog, "sandboxed") : LastAnnotation(f) = a.arg
  <1> DEFINE is == {i \in DOMAIN prog.annots :
                      prog.annots[i].kind = "sandboxed" /\ prog.annots[i].on = f}
  <1>1. PICK n \in Nat : DOMAIN prog.annots = 1..n
    BY ReportsAssumption
  <1>2. is \in SUBSET (1..n) /\ is # {}
    BY <1>1 DEF Annots
  <1>3. \E i \in is : \A j \in is : j <= i
    <2> HIDE DEF is
    <2>1. QED
      BY <1>2, LastPosition
  <1>4. PICK i \in is : LastAnnotation(f) = prog.annots[i].arg
    BY <1>3 DEF LastAnnotation
  <1>5. prog.annots[i] \in Annots(prog, "sandboxed")
    BY DEF Annots
  <1>6. QED
    BY <1>4, <1>5

(* getSandboxWithName() gives the first of that name.                      *)
LEMMA FirstNamed ==
  ASSUME NamesInv, NEW n, Named(n) # {}
  PROVE  WithName(n) \in Named(n) /\ \A T \in Named(n) : WithName(n) <= T
  <1>1. Named(n) \in SUBSET Nat
    BY DEF NamesInv, SandboxesType, Named, Boxes
  <1>2. \E S \in Named(n) : \A T \in Named(n) : S <= T
    BY <1>1, FirstPosition
  <1>3. QED
    BY <1>2 DEF WithName

(* What is known of a sandbox, once everything is found.                   *)
LEMMA KnownOf ==
  ASSUME CheckInv, ran # << >>, NEW S \in Boxes
  PROVE  /\ Found /\ S # Priv /\ prog \in Programs
         /\ info[S].perms = FindSharedGlobals(S)
         /\ info[S].gates = FindCallgates(S)
         /\ info[S].private = FindPrivateData(S)
  <1>1. Found /\ toMake = {} /\ prog \in Programs
    BY DEF CheckInv, BitsInv, TurnsInv, RanInv
  <1>2. S # Priv
    BY DEF CheckInv, BitsInv, NamesInv, SandboxesType, Boxes, Priv
  <1>3. info[S] = InitSandbox(graph, S, Blank)
    BY <1>1 DEF CheckInv, Current
  <1>4. info[S].perms = FindSharedGlobals(S)
    BY <1>3 DEF InitSandbox
  <1>5. info[S].gates = FindCallgates(S)
    <2>1. info[S].gates = << >> \o FindCallgates(S)
      BY <1>3 DEF InitSandbox, Blank
    <2>2. PICK gates \in Seq(prog.functions) : gates = FindCallgates(S)
      <3>1. CASE sandboxes[S].name \in DOMAIN prog.gates
        <4>1. prog.gates[sandboxes[S].name] \in Seq(prog.functions)
          BY <1>1, <3>1, ReportsAssumption
        <4>2. QED
          BY <3>1, <4>1 DEF FindCallgates
      <3>2. CASE sandboxes[S].name \notin DOMAIN prog.gates
        <4>1. << >> \in Seq(prog.functions)
          OBVIOUS
        <4>2. QED
          BY <3>2, <4>1 DEF FindCallgates
      <3>3. QED
        BY <3>1, <3>2
    <2>3. << >> \o gates = gates
      OBVIOUS
    <2>4. QED
      BY <2>1, <2>2, <2>3
  <1>6. info[S].private = FindPrivateData(S)
    BY <1>3 DEF InitSandbox, Blank
  <1>7. QED
    BY <1>1, <1>2, <1>4, <1>5, <1>6

LEMMA SomethingRan ==
  ASSUME NEW a \in Elements(ran)
  PROVE  ran # << >>
  BY DEF Elements

LEMMA GatesOf ==
  ASSUME CheckInv, ran # << >>, NEW S \in Boxes, NEW f
  PROVE  f \in Elements(info[S].gates) <=> HasGate(S, f)
  <1>1. info[S].gates = FindCallgates(S)
    BY KnownOf
  <1>2. Elements(<< >>) = {}
    BY DEF Elements
  <1>3. QED
    BY <1>1, <1>2 DEF FindCallgates, HasGate

(* Code in a sandbox, but not at the top level of its region.              *)
LEMMA InBox ==
  ASSUME CheckInv, ran # << >>, NEW S \in Boxes, NEW n
  PROVE  /\ FunctionOf(prog, n) \in info[S].functions => S \in ContextsOf(n)
         /\ S \in ContextsOf(n) /\ ~(IsRegion(S) /\ n \in RegionSet(S)) =>
              FunctionOf(prog, n) \in info[S].functions
  <1>1. S # Priv
    BY KnownOf
  <1>2. QED
    BY <1>1 DEF ContextsOf, ContainsInstruction

LEMMA PrivilegedCallsJudged ==
  ASSUME CheckInv, "privcalls" \in Elements(ran),
         NEW c \in DOMAIN prog.call, NEW a \in Annots(prog, "privileged"), NEW S \in Boxes
  PROVE  LET reported == [at |-> c, fun |-> a.on, box |-> S] \in privCalls
         IN /\ /\ a.on \in prog.call[c] /\ FunctionOf(prog, c) \in prog.report
               /\ S \in ContextsOf(c) /\ ~(IsRegion(S) /\ c \in RegionSet(S)) /\ ~HasGate(S, a.on)
               => reported
            /\ reported => ~HasGate(S, a.on) /\ S \in ContextsOf(c)
  <1> DEFINE w == [at |-> c, fun |-> a.on, box |-> S]
  <1>1. ran # << >> /\ privCalls = PrivCallReport /\ prog \in Programs
    BY SomethingRan, KnownOf DEF CheckInv, ReportsInv
  <1>2. w.at = c /\ w.fun = a.on /\ w.box = S
    OBVIOUS
  <1>3. w \in [at : DOMAIN prog.call, fun : prog.functions, box : Boxes] <=> a.on \in prog.functions
    OBVIOUS
  <1>4. a.on \in prog.call[c] => a.on \in prog.functions
    BY <1>1, ProgramsAssumption
  <1> HIDE DEF w
  <1>5. w \in privCalls <=>
          /\ a.on \in prog.functions
          /\ <<c, a.on>> \in PrivilegedUses
          /\ ~HasGate(S, a.on)
          /\ FunctionOf(prog, c) \in info[S].functions
    BY <1>1, <1>2, <1>3, GatesOf DEF PrivCallReport
  <1>6. a.on \in prog.call[c] /\ FunctionOf(prog, c) \in prog.report => <<c, a.on>> \in PrivilegedUses
    BY DEF PrivilegedUses
  <1>7. QED
    BY <1>1, <1>4, <1>5, <1>6, InBox DEF w

LEMMA PlacementJudged ==
  ASSUME CheckInv, "sandboxedfuncs" \in Elements(ran),
         NEW f \in {a.on : a \in Annots(prog, "sandboxed")} \cap prog.report
  PROVE  LET about == {w \in misplaced : w.fun = f}
         IN /\ f \in privileged => \E w \in about : w.privileged
            /\ \A S \in Boxes : f \in info[S].functions /\ ~Allows(f, S) => \E w \in about : S \in w.boxes
            /\ \A w \in about : \A S \in w.boxes :
                 ~Allows(f, S) \/ \E T \in Named(sandboxes[S].name) : T < S
  <1>1. /\ ran # << >> /\ prog \in Programs /\ NamesInv /\ Found
        /\ misplaced = {w \in MisplacedReport : w.privileged \/ w.boxes # {}}
    BY SomethingRan DEF CheckInv, BitsInv, TurnsInv, ReportsInv, RanInv
  <1> DEFINE r == [fun |-> f, privileged |-> f \in privileged, boxes |-> Disallowed(f)]
  <1>2. r \in MisplacedReport /\ r.fun = f /\ (r.privileged <=> f \in privileged)
          /\ r.boxes = Disallowed(f)
    BY DEF MisplacedReport
  <1>3. \A w \in MisplacedReport : w.fun = f => w.boxes = Disallowed(f)
    BY DEF MisplacedReport
  <1> HIDE DEF r
  <1>4. \A n \in LastAnnotation(f) : Named(n) # {}
    <2>1. LastAnnotation(f) \subseteq Referenced(prog)
      BY <1>1, LastListed DEF Referenced
    <2>2. QED
      BY <1>1, <2>1, HasName DEF CheckInv, BitsInv, TurnsInv
  <1>5. ASSUME NEW S \in Boxes, f \in info[S].functions, ~Allows(f, S) PROVE S \in Disallowed(f)
    <2>1. LastAnnotation(f) # {} /\ sandboxes[S].name \notin LastAnnotation(f)
      BY <1>5 DEF Allows
    <2>2. Restriction(f) # {}
      BY <1>4, <2>1 DEF Restriction
    <2>3. ASSUME NEW n \in LastAnnotation(f) PROVE WithName(n) # S
      <3>1. sandboxes[WithName(n)].name = n
        BY <1>1, <1>4, FirstNamed DEF Named
      <3>2. QED
        BY <2>1, <3>1
    <2>4. QED
      BY <1>5, <2>2, <2>3 DEF Disallowed, Restriction
  <1>6. ASSUME NEW S \in Disallowed(f)
        PROVE  ~Allows(f, S) \/ \E T \in Named(sandboxes[S].name) : T < S
    <2>1. S \in Boxes /\ Restriction(f) # {} /\ S \notin Restriction(f)
      BY DEF Disallowed
    <2>2. SUFFICES ASSUME Allows(f, S) PROVE \E T \in Named(sandboxes[S].name) : T < S
      OBVIOUS
    <2>3. sandboxes[S].name \in LastAnnotation(f)
      BY <2>1, <2>2 DEF Allows, Restriction
    <2>4. S \in Named(sandboxes[S].name) /\ WithName(sandboxes[S].name) # S
      <3>1. S \in Named(sandboxes[S].name)
        BY <2>1 DEF Named, Boxes
      <3>2. WithName(sandboxes[S].name) \in Restriction(f)
        BY <2>3, <3>1 DEF Restriction
      <3>3. QED
        BY <2>1, <3>1, <3>2
    <2>5. /\ WithName(sandboxes[S].name) \in Named(sandboxes[S].name)
          /\ WithName(sandboxes[S].name) <= S
      BY <1>1, <2>4, FirstNamed
    <2>6. S \in Nat /\ WithName(sandboxes[S].name) \in Nat
      BY <1>1, <2>1, <2>5 DEF NamesInv, SandboxesType, Named, Boxes
    <2>7. WithName(sandboxes[S].name) < S
      BY <2>4, <2>5, <2>6
    <2>8. QED
      BY <2>5, <2>7
  <1>7. QED
    BY <1>1, <1>2, <1>3, <1>5, <1>6

(* Whatever is annotated and however the graph has grown, a sandboxed call *)
(* of a privileged function without callgate is reported, and a function   *)
(* that runs where its annotation forbids it; nothing else is              *)
(* (PrivilegedCallAnalysis, SandboxedFuncAnalysis).                        *)
THEOREM MisuseJudged == CSpec => []MisuseReported
  <1>1. CheckInv => MisuseReported
    BY PrivilegedCallsJudged, PlacementJudged DEF MisuseReported
  <1>2. QED
    BY <1>1, ChecksHold, PTL

-----------------------------------------------------------------------------
(* Rights that are leaked.                                                 *)

LEMMA FirstOfThree ==
  ASSUME NEW a, NEW b, NEW c
  PROVE  <<a, b, c>>[1] = a
  OBVIOUS

LEMMA FirstOfTwo ==
  ASSUME NEW a, NEW b
  PROVE  <<a, b>>[1] = a
  OBVIOUS

(* What kind of right an entry names tells which part of the list it is in. *)
LEMMA KindsOfRights ==
  ASSUME NEW S
  PROVE  /\ \A e \in GlobalRights(S) : e[1] = "global"
         /\ \A e \in DescriptorRights(S) : e[1] = "fd"
         /\ \A e \in CallgateRights(S) : e[1] = "callgate"
         /\ \A e \in PrivateRights(S) : e[1] = "private"
  <1>1. \A e \in GlobalRights(S) : e[1] = "global"
    BY DEF GlobalRights
  <1>2. \A e \in DescriptorRights(S) : e[1] = "fd"
    BY DEF DescriptorRights
  <1>3. \A e \in CallgateRights(S) : e[1] = "callgate"
    BY DEF CallgateRights
  <1>4. \A e \in PrivateRights(S) : e[1] = "private"
    BY DEF PrivateRights
  <1>5. QED
    BY <1>1, <1>2, <1>3, <1>4

LEMMA RightsOf ==
  ASSUME CheckInv, ran # << >>, NEW S \in Boxes
  PROVE  AsGiven(S, Rights(S))
  <1> DEFINE name == sandboxes[S].name
  <1>1. /\ info[S].perms = FindSharedGlobals(S) /\ info[S].gates = FindCallgates(S)
        /\ info[S].private = FindPrivateData(S) /\ prog \in Programs
    BY KnownOf
  <1>a. \A e : e \in Rights(S) <=> \/ e \in GlobalRights(S) \/ e \in DescriptorRights(S)
                                  \/ e \in CallgateRights(S) \/ e \in PrivateRights(S)
    BY Zenon DEF Rights
  <1>2. ASSUME NEW k \in {"read", "write"}, NEW v
        PROVE  <<"global", v, k>> \in Rights(S) <=>
                 \E b \in Annots(prog, k) : b.on = v /\ b.arg = name
    <2>1. <<"global", v, k>> \in Rights(S) <=> <<"global", v, k>> \in GlobalRights(S)
      <3> DEFINE e == <<"global", v, k>>
      <3>1. e[1] = "global"
        BY FirstOfThree
      <3> HIDE DEF e
      <3>2. e \in Rights(S) <=> e \in GlobalRights(S)
        BY <1>a, <3>1, KindsOfRights
      <3>3. QED
        BY <3>2 DEF e
    <2>2. <<"global", v, k>> \in GlobalRights(S)
            <=> v \in DOMAIN info[S].perms /\ k \in info[S].perms[v]
      BY DEF GlobalRights
    <2>3. QED
      BY <1>1, <2>1, <2>2 DEF FindSharedGlobals
  <1>3. ASSUME NEW f \in Elements(info[S].gates) PROVE <<"callgate", f>> \in Rights(S)
    <2>1. <<"callgate", f>> \in CallgateRights(S)
      BY DEF CallgateRights
    <2>2. QED
      BY <1>a, <2>1
  <1>4. ASSUME NEW d PROVE <<"private", d>> \in Rights(S) <=> d \in info[S].private
    <2>1. <<"private", d>> \in Rights(S) <=> <<"private", d>> \in PrivateRights(S)
      <3> DEFINE e == <<"private", d>>
      <3>1. e[1] = "private"
        BY FirstOfTwo
      <3> HIDE DEF e
      <3>2. e \in Rights(S) <=> e \in PrivateRights(S)
        BY <1>a, <3>1, KindsOfRights
      <3>3. QED
        BY <3>2 DEF e
    <2>2. <<"private", d>> \in PrivateRights(S) <=> d \in info[S].private
      BY DEF PrivateRights
    <2>3. QED
      BY <2>1, <2>2
  <1>5. ASSUME NEW d \in Notes(prog, "private")
        PROVE  d \in info[S].private <=> prog.note[d].box = name
    <2>1. d \in Instrs(prog)
      BY <1>1, ProgramsAssumption DEF Notes
    <2>2. \A a \in Annots(prog, "private") : a.on # d
      BY <1>1, <2>1, ReportsAssumption
    <2>3. QED
      BY <1>1, <2>2 DEF FindPrivateData
  <1>6. ASSUME NEW m \in DOMAIN prog.gates, NEW f \in Elements(prog.gates[m]), m = name
        PROVE  <<"callgate", f>> \in Rights(S)
    BY <1>1, <1>3, <1>6 DEF FindCallgates
  <1>7. ASSUME NEW k \in {"read", "write"}, NEW a \in Annots(prog, k)
        PROVE  (a.arg = name) = (<<"global", a.on, k>> \in Rights(S))
                 \/ \E b \in Annots(prog, k) : b.on = a.on /\ b.arg = name
    <2>1. CASE <<"global", a.on, k>> \in Rights(S)
      BY <1>2, <2>1
    <2>2. CASE <<"global", a.on, k>> \notin Rights(S)
      BY <1>2, <2>2
    <2>3. QED
      BY <2>1, <2>2
  <1>8. ASSUME NEW d \in Notes(prog, "private")
        PROVE  (prog.note[d].box = name) = (<<"private", d>> \in Rights(S))
    BY <1>4, <1>5
  <1>9. QED
    BY <1>6, <1>7, <1>8 DEF AsGiven

LEMMA LeakJudged ==
  ASSUME CheckInv, "vuln" \in Elements(ran), phase # "crashed",
         NEW n \in prog.points, FunctionOf(prog, n) \in prog.report
  PROVE  /\ \A S \in Boxes : S \in ContextsOf(n) /\ ~(IsRegion(S) /\ n \in RegionSet(S)) =>
              /\ Leak(FunctionOf(prog, n), S, Leaked(S)) \in leaks
              /\ prog.opt.platform = "none" => Leaked(S) = Ambient
              /\ prog.opt.platform # "none" /\ prog.opt.rights => Leaked(S) = Rights(S)
         /\ Priv \in ContextsOf(n) => Leak(FunctionOf(prog, n), Priv, Ambient) \in leaks
  <1> DEFINE F == FunctionOf(prog, n)
  <1>1. /\ ran # << >> /\ leaks = LeaksInSandboxes \cup PrivilegedLeaks /\ ~FollowsNull
        /\ setting.platform = PlatformOf(prog.opt)
    BY SomethingRan DEF CheckInv, ReportsInv, RanInv, FindPhases
  <1>2. F \in VulnerableFuncs
    BY DEF VulnerableFuncs, PastVulnerable
  <1> HIDE DEF F
  <1>3. ASSUME NEW S \in Boxes, F \in info[S].functions
        PROVE  Leak(F, S, Leaked(S)) \in leaks
    <2>1. Leak(F, S, Leaked(S)).fun = F /\ Leak(F, S, Leaked(S)).box = S
      BY DEF Leak
    <2>2. QED
      BY <1>1, <1>2, <1>3, <2>1 DEF LeaksInSandboxes
  <1>4. ASSUME NEW S \in Boxes, F \in info[S].functions
        PROVE  setting.platform # None
    BY <1>1, <1>2, <1>4 DEF FollowsNull
  <1>5. ASSUME NEW S \in Boxes, setting.platform # None
        PROVE  /\ prog.opt.platform = "none" => Leaked(S) = Ambient
               /\ prog.opt.platform # "none" /\ prog.opt.rights => Leaked(S) = Rights(S)
    BY <1>1, <1>5 DEF PlatformOf, Leaked, Protects
  <1>6. Priv \in ContextsOf(n) => F \in privileged
    BY KnownOf, <1>1 DEF ContextsOf, IsPrivilegedInstruction, F
  <1>7. F \in privileged => Leak(F, Priv, Ambient) \in leaks
    BY <1>1, <1>2 DEF PrivilegedLeaks
  <1>8. QED
    BY <1>1, <1>3, <1>4, <1>5, <1>6, <1>7, InBox DEF F

(* Whatever is annotated and however the graph has grown, vulnerable code  *)
(* is reported in each sandbox it runs in, with each global, callgate and  *)
(* datum that annotations give that sandbox, and where it has privileges   *)
(* (VulnerabilityAnalysis).                                                *)
THEOREM LeaksJudged == CSpec => []LeaksReported
  <1>1. CheckInv => LeaksReported
    <2>1. SUFFICES ASSUME CheckInv, "vuln" \in Elements(ran), phase # "crashed"
                   PROVE  LeaksReported
      BY DEF LeaksReported
    <2>2. ASSUME NEW n \in prog.points, FunctionOf(prog, n) \in prog.report, NEW S \in Boxes,
                 S \in ContextsOf(n), ~(IsRegion(S) /\ n \in RegionSet(S))
          PROVE  \E l \in leaks :
                   /\ l.fun = FunctionOf(prog, n) /\ l.box = S
                   /\ prog.opt.platform = "none" => l.rights = Ambient
                   /\ prog.opt.platform # "none" /\ prog.opt.rights => AsGiven(S, l.rights)
      <3>1. PICK l : l = Leak(FunctionOf(prog, n), S, Leaked(S))
        OBVIOUS
      <3>2. l.fun = FunctionOf(prog, n) /\ l.box = S /\ l.rights = Leaked(S)
        BY <3>1 DEF Leak
      <3>3. l \in leaks
        BY <2>1, <2>2, <3>1, LeakJudged
      <3>4. /\ prog.opt.platform = "none" => l.rights = Ambient
            /\ prog.opt.platform # "none" /\ prog.opt.rights => l.rights = Rights(S)
        BY <2>1, <2>2, <3>2, LeakJudged
      <3>5. AsGiven(S, Rights(S))
        BY <2>1, SomethingRan, RightsOf
      <3>6. QED
        BY <3>2, <3>3, <3>4, <3>5
    <2>3. ASSUME NEW n \in prog.points, FunctionOf(prog, n) \in prog.report, Priv \in ContextsOf(n)
          PROVE  Leak(FunctionOf(prog, n), Priv, Ambient) \in leaks
      BY <2>1, <2>3, LeakJudged
    <2>4. QED
      BY <2>2, <2>3 DEF LeaksReported
  <1>2. QED
    BY <1>1, ChecksHold, PTL

-----------------------------------------------------------------------------
(***************************************************************************)
(* Options.  What runs has a rank, in which ran increases; what has run in *)
(* a phase is, of the checks that lie behind it, those chosen.             *)
(***************************************************************************)
Rank == [creations |-> 1, perf |-> 2, rpc |-> 3, vuln |-> 4, globals |-> 5, syscalls |-> 6,
         privcalls |-> 7, sandboxedfuncs |-> 8, origin |-> 9, classified |-> 10, private |-> 11]

(* The data-flow analyses are known by the first of three.                 *)
Mark(a) == IF a = "infoflow" THEN "origin" ELSE a

InOrder(s) == \A i, j \in 1..Len(s) : i < j => Rank[s[i]] < Rank[s[j]]
UpTo(s, b) == \A i \in 1..Len(s) : Rank[s[i]] <= b

(* The rank that each phase ends with, and the checks behind it.           *)
Reaches == [validated |-> 1, rpc |-> 3, vuln |-> 4, dataflow |-> 6, privcalls |-> 7, sandboxed |-> 8]

Behind(ph) ==
  IF ph = "vuln" THEN {"vuln"}
  ELSE IF ph = "dataflow" THEN {"vuln", "globals", "syscalls"}
  ELSE IF ph = "privcalls" THEN {"vuln", "globals", "syscalls", "privcalls"}
  ELSE IF ph = "sandboxed" THEN CheckNames \ {"infoflow"}
  ELSE {}

ChosenIn(s, as) == \A a \in CheckNames : Mark(a) \in Elements(s) <=> a \in as

Checking == {"rpc", "vuln", "dataflow", "privcalls", "sandboxed"}

(* A null pointer is there to follow.                                      *)
NullThere ==
  \/ prog.opt.platform \in {"annotated", "chroot"}
  \/ \E S \in Boxes : \E n \in DOMAIN info[S].caps : prog.note[n].box = sandboxes[S].name

ConfigInv ==
  /\ setting # None /\ phase # "exited" => setting.analyses = AnalysesOf(prog.opt)
  /\ phase = "exited" => ran = << >> /\ Unsupported(prog.opt)
  /\ phase \notin FindPhases \cup {"pointers", "exited"} => setting # None
  /\ InOrder(ran)
  /\ phase \in DOMAIN Reaches => UpTo(ran, Reaches[phase])
  /\ phase \in {"validated"} \cup Checking => ~prog.opt.list
  /\ phase = "validated" => ChosenIn(ran, {})
  /\ phase \in Checking =>
       ~prog.opt.perf /\ ChosenIn(ran, Behind(phase) \cap setting.analyses)
  /\ phase = "done" =>
       ChosenIn(ran, IF prog.opt.list \/ prog.opt.perf THEN {} ELSE setting.analyses)
  /\ phase = "crashed" => NullThere

LEMMA RankAppend ==
  ASSUME NEW s \in Seq(RanNames), InOrder(s), NEW b \in Nat, UpTo(s, b),
         NEW x \in RanNames, b < Rank[x]
  PROVE  InOrder(Append(s, x)) /\ UpTo(Append(s, x), Rank[x])
  <1> DEFINE t == Append(s, x)
  <1>1. /\ t \in Seq(RanNames) /\ Len(t) = Len(s) + 1 /\ Len(s) \in Nat
        /\ \A i \in 1..Len(s) : t[i] = s[i]
        /\ t[Len(s) + 1] = x
    OBVIOUS
  <1>2. \A y \in RanNames : Rank[y] \in Nat
    BY DEF Rank, RanNames
  <1>3. \A i \in 1..Len(s) : s[i] \in RanNames /\ Rank[t[i]] <= b /\ Rank[t[i]] \in Nat
    BY <1>1, <1>2 DEF UpTo
  <1>4. Rank[x] \in Nat
    BY <1>2
  <1> HIDE DEF t
  <1>5. InOrder(t)
    <2>1. ASSUME NEW i \in 1..Len(t), NEW j \in 1..Len(t), i < j
          PROVE  Rank[t[i]] < Rank[t[j]]
      <3>1. i \in 1..Len(s)
        BY <1>1, <2>1
      <3>2. CASE j \in 1..Len(s)
        BY <3>1, <3>2, <1>1, <2>1 DEF InOrder
      <3>3. CASE j \notin 1..Len(s)
        <4>1. j = Len(s) + 1
          BY <3>3, <1>1
        <4>2. Rank[t[j]] = Rank[x]
          BY <4>1, <1>1
        <4>3. QED
          BY <3>1, <4>2, <1>3, <1>4
      <3>4. QED
        BY <3>2, <3>3
    <2>2. QED
      BY <2>1 DEF InOrder
  <1>6. UpTo(t, Rank[x])
    <2>1. ASSUME NEW i \in 1..Len(t) PROVE Rank[t[i]] <= Rank[x]
      <3>1. CASE i \in 1..Len(s)
        BY <3>1, <1>3, <1>4
      <3>2. CASE i \notin 1..Len(s)
        <4>1. i = Len(s) + 1
          BY <3>2, <1>1
        <4>2. QED
          BY <4>1, <1>1, <1>4
      <3>3. QED
        BY <3>1, <3>2
    <2>2. QED
      BY <2>1 DEF UpTo
  <1>7. QED
    BY <1>5, <1>6 DEF t

LEMMA UpToMore ==
  ASSUME NEW s \in Seq(RanNames), NEW b \in Nat, NEW c \in Nat, b <= c, UpTo(s, b)
  PROVE  UpTo(s, c)
  <1>1. \A i \in 1..Len(s) : Rank[s[i]] \in Nat
    BY DEF Rank, RanNames
  <1>2. QED
    BY <1>1 DEF UpTo

(* Running x, or not.                                                      *)
LEMMA RankRun ==
  ASSUME NEW s \in Seq(RanNames), InOrder(s), NEW b \in Nat, UpTo(s, b),
         NEW x \in RanNames, b < Rank[x], NEW t, t = Append(s, x) \/ t = s
  PROVE  /\ t \in Seq(RanNames) /\ InOrder(t) /\ UpTo(t, Rank[x])
         /\ t = Append(s, x) => Elements(t) = Elements(s) \cup {x}
         /\ t = s => Elements(t) = Elements(s)
  <1>1. Rank[x] \in Nat
    BY DEF Rank, RanNames
  <1>2. CASE t = Append(s, x)
    BY <1>2, RankAppend, Appended
  <1>3. CASE t = s
    <2>1. UpTo(s, Rank[x])
      BY <1>1, UpToMore
    <2>2. s # Append(s, x)
      <3>1. Len(Append(s, x)) = Len(s) + 1 /\ Len(s) \in Nat
        OBVIOUS
      <3>2. QED
        BY <3>1
    <2>3. QED
      BY <1>3, <2>1, <2>2
  <1>4. QED
    BY <1>2, <1>3

LEMMA JoinedChoice ==
  ASSUME NEW s \in Seq(RanNames), NEW x \in RanNames
  PROVE  s \o IfChosen(x) = IF x \in setting.analyses THEN Append(s, x) ELSE s
  <1>1. s \o <<x>> = Append(s, x)
    OBVIOUS
  <1>2. s \o << >> = s
    OBVIOUS
  <1>3. QED
    BY <1>1, <1>2 DEF IfChosen

LEMMA JoinedThree ==
  ASSUME NEW s \in Seq(RanNames), NEW x \in RanNames, NEW y \in RanNames, NEW z \in RanNames
  PROVE  s \o <<x, y, z>> = Append(Append(Append(s, x), y), z)
  <1> DEFINE u == s \o <<x, y, z>>
             v == Append(Append(Append(s, x), y), z)
  <1>1. /\ u \in Seq(RanNames) /\ v \in Seq(RanNames) /\ Len(u) = Len(s) + 3
        /\ Len(v) = Len(s) + 3 /\ Len(s) \in Nat
    OBVIOUS
  <1>2. ASSUME NEW i \in 1..Len(u) PROVE u[i] = v[i]
    OBVIOUS
  <1>3. QED
    BY <1>1, <1>2, SeqEqual

LEMMA NothingYet ==
  /\ << >> \in Seq(RanNames) /\ InOrder(<< >>) /\ UpTo(<< >>, 0) /\ Elements(<< >>) = {}
  /\ ChosenIn(<< >>, {})
  BY DEF InOrder, UpTo, Elements, ChosenIn

LEMMA NullStays ==
  ASSUME UNCHANGED <<prog, findVars, initVars>>, NullThere
  PROVE  NullThere'
  BY DEF NullThere, findVars, annotVars, initVars, Boxes

LEMMA NullFollowed ==
  ASSUME CheckInv, phase = "rpc", setting # None, FollowsNull
  PROVE  NullThere
  <1>1. Found /\ toMake = {} /\ prog \in Programs /\ setting.platform = PlatformOf(prog.opt)
    BY DEF CheckInv, BitsInv, TurnsInv, RanInv, FindPhases
  <1>2. CASE setting.platform = None
    BY <1>1, <1>2, OptionsAssumption DEF PlatformOf, NullThere
  <1>3. CASE setting.platform # None
    <2>1. PICK S \in Boxes : \E n \in DOMAIN info[S].caps :
                               info[S].caps[n] # {} /\ prog.note[n].box # None
      BY <1>3 DEF FollowsNull
    <2>2. PICK n \in DOMAIN info[S].caps : prog.note[n].box # None
      BY <2>1
    <2>3. info[S].caps = FindCapabilities(S)
      <3>1. info[S] = InitSandbox(graph, S, Blank)
        BY <1>1 DEF CheckInv, Current
      <3>2. QED
        BY <3>1 DEF InitSandbox
    <2>4. prog.note[n].box \in {None, sandboxes[S].name}
      BY <2>2, <2>3 DEF FindCapabilities
    <2>5. QED
      BY <2>2, <2>4 DEF NullThere
  <1>4. QED
    BY <1>2, <1>3

(* Up to the checks.                                                       *)
LEMMA ConfigBefore ==
  ASSUME CheckInv, ConfigInv,
         ProcessCmdLineArgs \/ FindStep \/ TraceStep \/ UNCHANGED cvars
  PROVE  ConfigInv'
  <1>1. CASE ProcessCmdLineArgs
    <2>1. /\ setting = None /\ UNCHANGED <<prog, ran>>
          /\ \/ phase' = "exited" /\ Unsupported(prog.opt)
             \/ ~Unsupported(prog.opt) /\ phase' = phase /\ setting'.analyses = AnalysesOf(prog.opt)
      BY <1>1 DEF ProcessCmdLineArgs
    <2>2. ran = << >> /\ phase \in {"annotations", "exited"}
      BY <2>1 DEF CheckInv, RanInv, FindPhases
    <2>3. phase = "exited" => Unsupported(prog.opt)
      BY DEF ConfigInv
    <2>4. phase' \in {"annotations", "exited"}
      BY <2>1, <2>2
    <2>5. QED
      BY <2>1, <2>2, <2>3, <2>4, NothingYet DEF ConfigInv, Unsupported, FindPhases, Reaches, Checking
  <1>2. CASE FindStep
    <2>1. Find /\ setting # None /\ UNCHANGED <<setting, ran>>
      BY <1>2 DEF FindStep
    <2>2. phase \in FindPhases \cup {"pointers"} /\ ran = << >> /\ prog' = prog
      BY <2>1, Finding DEF CheckInv, RanInv
    <2>3. phase' \in FindPhases \cup {"pointers", "ready"}
      BY <2>1, Finding
    <2>4. setting.analyses = AnalysesOf(prog.opt)
      BY <2>1, <2>2 DEF ConfigInv, FindPhases
    <2>5. QED
      BY <2>1, <2>2, <2>3, <2>4, NothingYet DEF ConfigInv, FindPhases, Reaches, Checking
  <1>3. CASE TraceStep \/ UNCHANGED cvars
    <2>1. UNCHANGED <<prog, phase, findVars, initVars, setting, ran>>
      BY <1>3 DEF TraceStep, vars, reportVars, cvars
    <2>2. NullThere => NullThere'
      BY <2>1, NullStays
    <2>3. QED
      BY <2>1, <2>2 DEF ConfigInv, Unsupported
  <1>4. QED
    BY <1>1, <1>2, <1>3

(* What runs next is x, and comes last so far.                             *)
LEMMA ConfigFirst ==
  ASSUME CheckInv, ConfigInv, ValidateCreations \/ Instrument \/ RPC
  PROVE  ConfigInv'
  <1>0. ran \in Seq(RanNames) /\ InOrder(ran)
    BY DEF CheckInv, RanInv, ConfigInv
  <1>1. /\ UNCHANGED <<prog, setting>> /\ setting # None /\ phase # "exited"
        /\ setting.analyses = AnalysesOf(prog.opt)
    BY DEF ValidateCreations, Instrument, RPC, Step, ConfigInv, FindPhases
  <1>2. CASE ValidateCreations
    <2>1. ran = << >>
      BY <1>2 DEF ValidateCreations, Step, CheckInv, RanInv
    <2>2. /\ ran' = Append(ran, "creations")
          /\ phase' = IF prog.opt.list THEN "done" ELSE "validated"
      BY <1>2 DEF ValidateCreations, Step, Run
    <2>3. "creations" \in RanNames /\ Rank["creations"] = 1
      BY DEF RanNames, Rank
    <2>4. InOrder(ran') /\ UpTo(ran', 1) /\ Elements(ran') = Elements(ran) \cup {"creations"}
      <3>1. UpTo(ran, 0)
        BY <2>1, NothingYet
      <3>2. InOrder(Append(ran, "creations")) /\ UpTo(Append(ran, "creations"), 1)
        BY <1>0, <2>3, <3>1, RankAppend
      <3>3. Elements(Append(ran, "creations")) = Elements(ran) \cup {"creations"}
        BY <1>0, <2>3, Appended
      <3>4. QED
        BY <2>2, <3>2, <3>3
    <2>5. ChosenIn(ran', {})
      BY <2>1, <2>4, NothingYet DEF ChosenIn, Mark, CheckNames
    <2>6. QED
      BY <1>1, <2>2, <2>4, <2>5 DEF ConfigInv, FindPhases, Reaches, Checking
  <1>3. CASE Instrument
    <2>1. /\ ran' = Append(ran, "perf") /\ phase = "validated" /\ phase' = "done" /\ prog.opt.perf
      BY <1>3 DEF Instrument, Step, Run
    <2>2. UpTo(ran, 1) /\ ChosenIn(ran, {})
      BY <2>1 DEF ConfigInv, Reaches
    <2>3. "perf" \in RanNames /\ Rank["perf"] = 2
      BY DEF RanNames, Rank
    <2>4. InOrder(ran') /\ Elements(ran') = Elements(ran) \cup {"perf"}
      BY <1>0, <2>1, <2>2, <2>3, RankAppend, Appended
    <2>5. ChosenIn(ran', {})
      BY <2>2, <2>4 DEF ChosenIn, Mark, CheckNames
    <2>6. QED
      BY <1>1, <2>1, <2>4, <2>5 DEF ConfigInv, FindPhases, Reaches, Checking
  <1>4. CASE RPC
    <2>1. /\ ran' = Append(ran, "rpc") /\ phase = "validated" /\ phase' = "rpc" /\ ~prog.opt.perf
      BY <1>4 DEF RPC, Step, Run
    <2>2. UpTo(ran, 1) /\ ChosenIn(ran, {}) /\ ~prog.opt.list
      BY <2>1 DEF ConfigInv, Reaches
    <2>3. "rpc" \in RanNames /\ Rank["rpc"] = 3
      BY DEF RanNames, Rank
    <2>4. InOrder(ran') /\ UpTo(ran', 3) /\ Elements(ran') = Elements(ran) \cup {"rpc"}
      BY <1>0, <2>1, <2>2, <2>3, RankAppend, Appended
    <2>5. ChosenIn(ran', {})
      BY <2>2, <2>4 DEF ChosenIn, Mark, CheckNames
    <2>6. Behind("rpc") \cap setting.analyses = {}
      BY DEF Behind
    <2>7. QED
      BY <1>1, <2>1, <2>2, <2>4, <2>5, <2>6 DEF ConfigInv, FindPhases, Reaches, Checking
  <1>5. QED
    BY <1>2, <1>3, <1>4

(* The checks that are run or passed over.                                 *)
LEMMA ConfigChecks ==
  ASSUME CheckInv, ConfigInv, Vuln \/ DataFlow \/ PrivCalls \/ SandboxedFuncs \/ PassOver
  PROVE  ConfigInv'
  <1>1. /\ ran \in Seq(RanNames) /\ InOrder(ran)
        /\ UNCHANGED <<prog, setting>> /\ setting # None /\ phase \in Checking
        /\ setting.analyses = AnalysesOf(prog.opt)
        /\ ~prog.opt.list /\ ~prog.opt.perf
        /\ UpTo(ran, Reaches[phase]) /\ ChosenIn(ran, Behind(phase) \cap setting.analyses)
    BY DEF Vuln, DataFlow, PrivCalls, SandboxedFuncs, PassOver, Step, CheckInv, RanInv, ConfigInv,
           FindPhases, Reaches, Checking
  <1> DEFINE More(as) == /\ InOrder(ran') /\ phase' \in Checking /\ UpTo(ran', Reaches[phase'])
                            /\ Behind(phase') = Behind(phase) \cup as
                            /\ ChosenIn(ran', (Behind(phase) \cup as) \cap setting.analyses)
  <1>2. ASSUME NEW as, More(as) PROVE ConfigInv'
    BY <1>1, <1>2 DEF ConfigInv, Checking, FindPhases
  (* One check, which is chosen or not.                                    *)
  <1>3. ASSUME NEW a \in {"vuln", "privcalls", "sandboxedfuncs"}, Reaches[phase] < Rank[a],
               \/ a \in setting.analyses /\ ran' = Append(ran, a)
               \/ a \notin setting.analyses /\ ran' = ran
        PROVE  /\ InOrder(ran') /\ UpTo(ran', Rank[a])
               /\ ChosenIn(ran', (Behind(phase) \cup {a}) \cap setting.analyses)
    <2>1. a \in RanNames /\ Reaches[phase] \in Nat
      BY <1>1 DEF RanNames, Reaches, Checking
    <2>2. /\ InOrder(ran') /\ UpTo(ran', Rank[a])
          /\ ran' = Append(ran, a) => Elements(ran') = Elements(ran) \cup {a}
      BY <1>1, <1>3, <2>1, RankRun
    <2>3. ChosenIn(ran', (Behind(phase) \cup {a}) \cap setting.analyses)
      BY <1>1, <1>3, <2>2 DEF ChosenIn, Mark, CheckNames
    <2>4. QED
      BY <2>2, <2>3
  <1>4. CASE Vuln
    <2>1. /\ ran' = Append(ran, "vuln") /\ phase = "rpc" /\ "vuln" \in setting.analyses
          /\ phase' = IF FollowsNull THEN "crashed" ELSE "vuln"
          /\ UNCHANGED <<findVars, initVars>>
      BY <1>4 DEF Vuln, Step, Run
    <2>2. Reaches[phase] < Rank["vuln"] /\ Rank["vuln"] = 4 /\ Reaches["vuln"] = 4
      BY <2>1 DEF Reaches, Rank
    <2>3. /\ InOrder(ran') /\ UpTo(ran', 4)
          /\ ChosenIn(ran', (Behind(phase) \cup {"vuln"}) \cap setting.analyses)
      BY <2>1, <2>2, <1>3
    <2>4. CASE FollowsNull
      <3>1. NullThere'
        BY <1>1, <2>1, <2>4, NullFollowed, NullStays
      <3>2. QED
        BY <1>1, <2>1, <2>3, <2>4, <3>1 DEF ConfigInv, Checking, FindPhases, Reaches
    <2>5. CASE ~FollowsNull
      <3>1. Behind(phase') = Behind(phase) \cup {"vuln"}
        BY <2>1, <2>5 DEF Behind
      <3>2. QED
        BY <1>2, <2>1, <2>2, <2>3, <2>5, <3>1 DEF Checking
    <2>6. QED
      BY <2>4, <2>5
  <1>5. CASE DataFlow
    <2>1. /\ ran' = ran \o IfChosen("globals") \o IfChosen("syscalls")
          /\ phase = "vuln" /\ phase' = "dataflow"
      BY <1>5 DEF DataFlow, Step
    <2>2. /\ "globals" \in RanNames /\ "syscalls" \in RanNames
          /\ Rank["globals"] = 5 /\ Rank["syscalls"] = 6 /\ Reaches[phase] = 4 /\ Reaches["dataflow"] = 6
      BY <2>1 DEF RanNames, Rank, Reaches
    <2>3. PICK t : t = IF "globals" \in setting.analyses THEN Append(ran, "globals") ELSE ran
      OBVIOUS
    <2>4. /\ t \in Seq(RanNames) /\ InOrder(t) /\ UpTo(t, 5)
          /\ Elements(t) = Elements(ran) \cup {x \in {"globals"} : x \in setting.analyses}
      <3>1. UpTo(ran, 4)
        BY <1>1, <2>2
      <3>2. t = Append(ran, "globals") \/ t = ran
        BY <2>3
      <3>3. /\ t \in Seq(RanNames) /\ InOrder(t) /\ UpTo(t, Rank["globals"])
            /\ t = Append(ran, "globals") => Elements(t) = Elements(ran) \cup {"globals"}
            /\ t = ran => Elements(t) = Elements(ran)
        BY <1>1, <2>2, <3>1, <3>2, RankRun
      <3>4. QED
        BY <2>2, <2>3, <3>3
    <2>5. ran' = IF "syscalls" \in setting.analyses THEN Append(t, "syscalls") ELSE t
      <3>1. ran \o IfChosen("globals") = t
        BY <1>1, <2>2, <2>3, JoinedChoice
      <3>2. t \o IfChosen("syscalls") = IF "syscalls" \in setting.analyses THEN Append(t, "syscalls") ELSE t
        BY <2>2, <2>4, JoinedChoice
      <3>3. QED
        BY <2>1, <3>1, <3>2
    <2>6. /\ InOrder(ran') /\ UpTo(ran', 6)
          /\ Elements(ran') = Elements(t) \cup {x \in {"syscalls"} : x \in setting.analyses}
      <3>1. ran' = Append(t, "syscalls") \/ ran' = t
        BY <2>5
      <3>2. /\ InOrder(ran') /\ UpTo(ran', Rank["syscalls"])
            /\ ran' = Append(t, "syscalls") => Elements(ran') = Elements(t) \cup {"syscalls"}
            /\ ran' = t => Elements(ran') = Elements(t)
        BY <2>2, <2>4, <3>1, RankRun
      <3>3. QED
        BY <2>2, <2>5, <3>2
    <2>7. Behind(phase') = Behind(phase) \cup {"globals", "syscalls"}
      BY <2>1 DEF Behind
    <2>8. ChosenIn(ran', (Behind(phase) \cup {"globals", "syscalls"}) \cap setting.analyses)
      BY <1>1, <2>4, <2>6 DEF ChosenIn, Mark, CheckNames
    <2>9. QED
      BY <1>2, <2>1, <2>2, <2>6, <2>7, <2>8 DEF Checking
  <1>6. CASE PrivCalls \/ (PassOver /\ phase = "dataflow")
    <2>1. /\ phase = "dataflow" /\ phase' = "privcalls"
          /\ \/ "privcalls" \in setting.analyses /\ ran' = Append(ran, "privcalls")
             \/ "privcalls" \notin setting.analyses /\ ran' = ran
      BY <1>6 DEF PrivCalls, PassOver, Step, Run
    <2>2. Reaches[phase] < Rank["privcalls"] /\ Rank["privcalls"] = 7 /\ Reaches["privcalls"] = 7
      BY <2>1 DEF Reaches, Rank
    <2>3. /\ InOrder(ran') /\ UpTo(ran', 7)
          /\ ChosenIn(ran', (Behind(phase) \cup {"privcalls"}) \cap setting.analyses)
      BY <2>1, <2>2, <1>3
    <2>4. Behind(phase') = Behind(phase) \cup {"privcalls"}
      BY <2>1 DEF Behind
    <2>5. QED
      BY <1>2, <2>1, <2>2, <2>3, <2>4 DEF Checking
  <1>7. CASE SandboxedFuncs \/ (PassOver /\ phase = "privcalls")
    <2>1. /\ phase = "privcalls" /\ phase' = "sandboxed"
          /\ \/ "sandboxedfuncs" \in setting.analyses /\ ran' = Append(ran, "sandboxedfuncs")
             \/ "sandboxedfuncs" \notin setting.analyses /\ ran' = ran
      BY <1>7 DEF SandboxedFuncs, PassOver, Step, Run
    <2>2. /\ Reaches[phase] < Rank["sandboxedfuncs"] /\ Rank["sandboxedfuncs"] = 8
          /\ Reaches["sandboxed"] = 8
      BY <2>1 DEF Reaches, Rank
    <2>3. /\ InOrder(ran') /\ UpTo(ran', 8)
          /\ ChosenIn(ran', (Behind(phase) \cup {"sandboxedfuncs"}) \cap setting.analyses)
      BY <2>1, <2>2, <1>3
    <2>4. Behind(phase') = Behind(phase) \cup {"sandboxedfuncs"}
      BY <2>1 DEF Behind, CheckNames
    <2>5. QED
      BY <1>2, <2>1, <2>2, <2>3, <2>4 DEF Checking
  <1>8. CASE PassOver /\ phase = "rpc"
    <2>1. phase = "rpc" /\ phase' = "vuln" /\ "vuln" \notin setting.analyses /\ ran' = ran
      BY <1>8 DEF PassOver, Step
    <2>2. Reaches[phase] < Rank["vuln"] /\ Rank["vuln"] = 4 /\ Reaches["vuln"] = 4
      BY <2>1 DEF Reaches, Rank
    <2>3. /\ InOrder(ran') /\ UpTo(ran', 4)
          /\ ChosenIn(ran', (Behind(phase) \cup {"vuln"}) \cap setting.analyses)
      BY <2>1, <2>2, <1>3
    <2>4. Behind(phase') = Behind(phase) \cup {"vuln"}
      BY <2>1 DEF Behind
    <2>5. QED
      BY <1>2, <2>1, <2>2, <2>3, <2>4 DEF Checking
  <1>9. PassOver => phase \in {"rpc", "dataflow", "privcalls"}
    BY DEF PassOver, Step
  <1>10. QED
    BY <1>4, <1>5, <1>6, <1>7, <1>8, <1>9

LEMMA ConfigLast ==
  ASSUME CheckInv, ConfigInv, InfoFlowAnalyses
  PROVE  ConfigInv'
  <1>1. /\ ran \in Seq(RanNames) /\ InOrder(ran)
        /\ UNCHANGED <<prog, setting>> /\ setting # None
        /\ phase = "sandboxed" /\ phase' = "done"
        /\ setting.analyses = AnalysesOf(prog.opt)
        /\ ~prog.opt.list /\ ~prog.opt.perf
        /\ UpTo(ran, 8) /\ ChosenIn(ran, (CheckNames \ {"infoflow"}) \cap setting.analyses)
    BY DEF InfoFlowAnalyses, Step, CheckInv, RanInv, ConfigInv, FindPhases, Reaches, Checking, Behind
  <1>2. /\ "origin" \in RanNames /\ "classified" \in RanNames /\ "private" \in RanNames
        /\ Rank["origin"] = 9 /\ Rank["classified"] = 10 /\ Rank["private"] = 11
    BY DEF RanNames, Rank
  <1>3. CASE "infoflow" \notin setting.analyses
    <2>1. ran' = ran
      BY <1>3 DEF InfoFlowAnalyses
    <2>2. ChosenIn(ran', setting.analyses)
      BY <1>1, <1>3, <2>1 DEF ChosenIn
    <2>3. QED
      BY <1>1, <2>1, <2>2 DEF ConfigInv, FindPhases, Reaches, Checking
  <1>4. CASE "infoflow" \in setting.analyses
    <2>1. PICK t, u : t = Append(ran, "origin") /\ u = Append(t, "classified")
      OBVIOUS
    <2>2. ran' = Append(u, "private")
      <3>1. ran' = ran \o <<"origin", "classified", "private">>
        BY <1>4 DEF InfoFlowAnalyses
      <3>2. QED
        BY <1>1, <1>2, <2>1, <3>1, JoinedThree
    <2>3. t \in Seq(RanNames) /\ InOrder(t) /\ UpTo(t, 9) /\ Elements(t) = Elements(ran) \cup {"origin"}
      BY <1>1, <1>2, <2>1, RankAppend, Appended
    <2>4. u \in Seq(RanNames) /\ InOrder(u) /\ UpTo(u, 10) /\ Elements(u) = Elements(t) \cup {"classified"}
      <3>1. /\ Append(t, "classified") \in Seq(RanNames)
            /\ Elements(Append(t, "classified")) = Elements(t) \cup {"classified"}
        BY <1>2, <2>3, Appended
      <3>2. UpTo(t, Rank["classified"] - 1)
        BY <1>2, <2>3
      <3>3. /\ InOrder(Append(t, "classified"))
            /\ UpTo(Append(t, "classified"), Rank["classified"])
        BY <1>2, <2>3, <3>2, RankAppend
      <3>4. QED
        BY <1>2, <2>1, <3>1, <3>3
    <2>5. InOrder(ran') /\ Elements(ran') = Elements(u) \cup {"private"}
      BY <1>2, <2>2, <2>4, RankAppend, Appended
    <2>6. ChosenIn(ran', setting.analyses)
      BY <1>1, <1>4, <2>3, <2>4, <2>5 DEF ChosenIn, Mark, CheckNames
    <2>7. QED
      BY <1>1, <2>5, <2>6 DEF ConfigInv, FindPhases, Reaches, Checking
  <1>5. QED
    BY <1>3, <1>4

LEMMA ConfigKept ==
  ASSUME CheckInv, ConfigInv, [CNext]_cvars
  PROVE  ConfigInv'
  BY ConfigBefore, ConfigFirst, ConfigChecks, ConfigLast DEF CNext

LEMMA ConfigStart ==
  ASSUME CInit
  PROVE  ConfigInv
  BY NothingYet DEF CInit, Init, ConfigInv, FindPhases, Reaches, Checking

(* Positions of marks, of one check and of two.                            *)
LEMMA MarksInOrder ==
  ASSUME ran \in Seq(RanNames), InOrder(ran), NEW m \in DOMAIN CheckOrder, NEW n \in DOMAIN CheckOrder,
         NEW i \in DOMAIN ran, ran[i] = Mark(CheckOrder[m]),
         NEW j \in DOMAIN ran, ran[j] = Mark(CheckOrder[n])
  PROVE  (m = n => i = j) /\ (m < n => i < j)
  <1>1. i \in 1..Len(ran) /\ j \in 1..Len(ran) /\ Len(ran) \in Nat
    OBVIOUS
  <1>2. m \in 1..6 /\ n \in 1..6
    BY DEF CheckOrder
  <1>3. \A k \in 1..6 : Rank[Mark(CheckOrder[k])] = k + 3
    <2>1. ASSUME NEW k \in 1..6 PROVE Rank[Mark(CheckOrder[k])] = k + 3
      <3>1. k \in {1, 2, 3, 4, 5, 6}
        OBVIOUS
      <3>2. QED
        BY <3>1 DEF CheckOrder, Mark, Rank
    <2>2. QED
      BY <2>1
  <1>4. Rank[ran[i]] = m + 3 /\ Rank[ran[j]] = n + 3
    BY <1>2, <1>3
  <1>5. (i < j => m + 3 < n + 3) /\ (j < i => n + 3 < m + 3)
    BY <1>1, <1>4 DEF InOrder
  <1>6. i = j => m + 3 = n + 3
    BY <1>4
  <1>7. i \in Int /\ j \in Int /\ m \in Int /\ n \in Int
    BY <1>1, <1>2
  <1>8. m = n => i = j
    BY <1>5, <1>7
  <1>9. m < n => i < j
    BY <1>5, <1>6, <1>7
  <1>10. QED
    BY <1>8, <1>9

(***************************************************************************)
(* Whatever the options and the program, the checks that are chosen are    *)
(* made, each once and in order, or the pass stops for one of the reasons  *)
(* named (processCmdLineArgs(), runOnModule()).                            *)
(***************************************************************************)
THEOREM RunsAsConfigured == CSpec => []AsConfigured
  <1>1. ASSUME CheckInv, ConfigInv PROVE AsConfigured
    <2> DEFINE o == prog.opt
               asWanted == IF o.list \/ o.perf THEN {}
                           ELSE IF o.mode # "custom" \/ o.chosen = {} THEN setting.analyses
                           ELSE IF "all" \in o.chosen THEN CheckNames ELSE o.chosen
               At(a) == {i \in DOMAIN ran : ran[i] = IF a = "infoflow" THEN "origin" ELSE a}
    <2>1. ran \in Seq(RanNames) /\ InOrder(ran) /\ prog \in Programs
      BY <1>1 DEF CheckInv, BitsInv, TurnsInv, RanInv, ConfigInv
    <2>2. \A m, n \in DOMAIN CheckOrder : \A i \in At(CheckOrder[m]), j \in At(CheckOrder[n]) :
             (m = n => i = j) /\ (m < n => i < j)
      BY <2>1, MarksInOrder DEF Mark
    <2>3. \A a : At(a) # {} <=> Mark(a) \in Elements(ran)
      BY DEF Mark, Elements
    <2>4. phase = "done" => \A a \in CheckNames : At(a) # {} <=> a \in asWanted
      <3>1. SUFFICES ASSUME phase = "done", NEW a \in CheckNames
                     PROVE  Mark(a) \in Elements(ran) <=> a \in asWanted
        BY <2>3
      <3>2. setting # None /\ setting.analyses = AnalysesOf(o)
        BY <1>1, <3>1 DEF ConfigInv, FindPhases
      <3>3. Mark(a) \in Elements(ran) <=> a \in IF o.list \/ o.perf THEN {} ELSE setting.analyses
        BY <1>1, <3>1 DEF ConfigInv, ChosenIn
      <3>4. o.mode = "custom" /\ o.chosen # {} =>
              AnalysesOf(o) = IF "all" \in o.chosen THEN CheckNames ELSE o.chosen
        BY Zenon DEF AnalysesOf
      <3>5. QED
        BY <3>2, <3>3, <3>4
    <2>5. phase = "exited" => ran = << >> /\ (o.platform = "capsicum") = (o.os = "linux")
      <3>1. SUFFICES ASSUME phase = "exited" PROVE (o.platform = "capsicum") = (o.os = "linux")
        BY <1>1 DEF ConfigInv
      <3>2. Unsupported(o) /\ o.os \in {"freebsd", "linux"}
        BY <1>1, <2>1, <3>1, OptionsAssumption DEF ConfigInv
      <3>3. \/ o.platform = "capsicum" /\ o.os # "freebsd"
            \/ o.platform \in {"seccomp", "seccompbpf"} /\ o.os # "linux"
        BY <3>2 DEF Unsupported, PlatformNeeds
      <3>4. QED
        BY <3>2, <3>3
    <2>6. phase = "crashed" =>
            \/ o.platform \in {"annotated", "chroot"}
            \/ \E S \in Boxes : \E n \in DOMAIN info[S].caps : prog.note[n].box = sandboxes[S].name
      BY <1>1 DEF ConfigInv, NullThere
    <2> HIDE DEF asWanted, At
    <2>7. QED
      BY <2>2, <2>4, <2>5, <2>6 DEF AsConfigured, asWanted, At
  <1>2. CInit => CheckInv /\ ConfigInv
    BY ChecksFirst, ConfigStart
  <1>3. CheckInv /\ ConfigInv /\ [CNext]_cvars => CheckInv' /\ ConfigInv'
    BY ChecksStep, ConfigKept
  <1>4. QED
    BY <1>1, <1>2, <1>3, PTL DEF CSpec

-----------------------------------------------------------------------------
(* What a recursion over calls reaches is the least closed set.            *)
ClosedIn(C, succ) == \A d \in C : succ[d] \subseteq C
Least(start, succ) ==
  {e \in DOMAIN succ : \A C \in SUBSET DOMAIN succ : start \subseteq C /\ ClosedIn(C, succ) => e \in C}
Grown(S, succ) == S \cup UNION {succ[e] : e \in S}

LEMMA LeastGrown ==
  ASSUME NEW P, NEW succ \in [P -> SUBSET P], NEW S \in SUBSET P
  PROVE  /\ Grown(S, succ) \in SUBSET P /\ S \subseteq Grown(S, succ)
         /\ Grown(S, succ) = S <=> ClosedIn(S, succ)
         /\ Least(Grown(S, succ), succ) = Least(S, succ)
         /\ ClosedIn(S, succ) => Least(S, succ) = S
  <1>1. Grown(S, succ) \in SUBSET P /\ S \subseteq Grown(S, succ)
    <2>1. \A e \in S : succ[e] \in SUBSET P
      OBVIOUS
    <2>2. QED
      BY <2>1 DEF Grown
  <1>2. Grown(S, succ) = S <=> ClosedIn(S, succ)
    BY DEF Grown, ClosedIn
  <1>3. Least(Grown(S, succ), succ) = Least(S, succ)
    <2>1. \A C \in SUBSET P : ClosedIn(C, succ) => (S \subseteq C <=> Grown(S, succ) \subseteq C)
      BY DEF ClosedIn, Grown
    <2>2. QED
      BY <2>1 DEF Least
  <1>4. ClosedIn(S, succ) => Least(S, succ) = S
    BY DEF Least
  <1>5. QED
    BY <1>1, <1>2, <1>3, <1>4

LEMMA ReachedIsLeast ==
  ASSUME IsFiniteSet(prog.functions), NEW start \in SUBSET prog.functions,
         NEW succ \in [prog.functions -> SUBSET prog.functions]
  PROVE  ReachedFrom(start, succ) = Least(start, succ)
  <1>1. PICK P : P = prog.functions
    OBVIOUS
  <1> DEFINE Solves(R) == R = [F \in SUBSET P |->
               LET G == F \cup UNION {succ[f] : f \in F} IN IF G = F THEN F ELSE R[G]]
  <1>2. Solves([F \in SUBSET P |-> Least(F, succ)])
    <2> DEFINE L == [F \in SUBSET P |-> Least(F, succ)]
    <2>1. ASSUME NEW F \in SUBSET P
          PROVE  L[F] = IF Grown(F, succ) = F THEN F ELSE L[Grown(F, succ)]
      BY <1>1, LeastGrown
    <2>2. QED
      BY <2>1 DEF Grown
  <1>3. PICK R : Solves(R) /\ ReachedFrom(start, succ) = R[start]
    BY <1>1, <1>2 DEF ReachedFrom
  <1>4. \A F \in SUBSET P : R[F] = IF Grown(F, succ) = F THEN F ELSE R[Grown(F, succ)]
    BY <1>3 DEF Grown
  <1> DEFINE Bad == {F \in SUBSET P : R[F] # Least(F, succ)}
             Rest == {P \ F : F \in Bad}
  <1>5. SUFFICES ASSUME Bad # {} PROVE FALSE
    BY <1>1, <1>3
  <1>6. IsWellFoundedOn(StrictSubsetOrdering(P), SUBSET P)
    BY <1>1, FS_StrictSubsetOrderingWellFounded, FS_FiniteSubsetsOfFinite
  <1>7. Rest \subseteq SUBSET P /\ Rest # {}
    BY <1>5
  <1>8. PICK r \in Rest : \A t \in Rest : <<t, r>> \notin StrictSubsetOrdering(P)
    BY <1>6, <1>7, WFMin
  <1>9. PICK F \in Bad : r = P \ F
    BY <1>8
  <1>10. Grown(F, succ) # F /\ R[F] = R[Grown(F, succ)]
    BY <1>1, <1>4, <1>9, LeastGrown
  <1>11. Grown(F, succ) \in Bad
    BY <1>1, <1>9, <1>10, LeastGrown
  <1>12. P \ Grown(F, succ) \in Rest /\ P \ Grown(F, succ) \subseteq r /\ P \ Grown(F, succ) # r
    <2>1. F \subseteq Grown(F, succ) /\ Grown(F, succ) \in SUBSET P
      BY <1>1, <1>9, LeastGrown
    <2>2. P \ Grown(F, succ) \in Rest
      BY <1>11
    <2>3. QED
      BY <1>9, <1>10, <2>1, <2>2
  <1>13. <<P \ Grown(F, succ), r>> \in StrictSubsetOrdering(P)
    BY <1>7, <1>8, <1>12 DEF StrictSubsetOrdering
  <1>14. QED
    BY <1>8, <1>12, <1>13

-----------------------------------------------------------------------------
(* Edges lead from calls to functions of the program.                      *)
EdgesInv ==
  Found =>
    /\ phase = "pointers" => toMake \subseteq {None} \cup prog.late
    /\ \A x \in DOMAIN graph : graph[x] \subseteq (DOMAIN prog.call) \X prog.functions

LEMMA EdgesStep ==
  ASSUME BitsInv, EdgesInv, [CNext]_cvars
  PROVE  EdgesInv'
  <1> USE DEF findVars, annotVars, initVars
  <1>1. CASE UNCHANGED cvars \/ (CNext /\ ~FindStep)
    <2>1. /\ UNCHANGED <<prog, findVars, initVars>>
          /\ phase' = "pointers" => phase = "pointers"
      BY <1>1 DEF cvars, vars, CNext, ProcessCmdLineArgs, TraceStep, ValidateCreations, Instrument, RPC, Vuln,
                  DataFlow, PrivCalls, SandboxedFuncs, PassOver, InfoFlowAnalyses, Step
    <2> QED
      BY <2>1 DEF EdgesInv, Found
  <1>2. CASE FindStep
    <2>1. CASE SetUp
      <3> DEFINE g == [x \in Boxes \cup {Priv} |-> BasicGraph(x)]
      <3>1. graph' = g /\ toMake' = {None} \cup prog.late /\ UNCHANGED prog
        BY <2>1 DEF SetUp
      <3>2. \A x : BasicGraph(x) \subseteq (DOMAIN prog.call) \X prog.functions
        BY DEF BasicGraph
      <3> QED
        BY <3>1, <3>2 DEF EdgesInv
    <2>2. CASE AddTarget
      <3>1. PICK e \in toMake :
              /\ toMake' = toMake \ {e}
              /\ \E xs : graph' = [x \in DOMAIN graph |-> IF x \in xs THEN graph[x] \cup {e} ELSE graph[x]]
        BY <2>2 DEF AddTarget
      <3>2. phase = "pointers" /\ None \notin toMake /\ UNCHANGED <<prog, phase>>
        BY <2>2 DEF AddTarget
      <3>3. Found /\ prog \in Programs
        BY <3>2 DEF BitsInv, TurnsInv
      <3>4. e \in prog.late
        BY <3>1, <3>2, <3>3 DEF EdgesInv
      <3>5. e \in (DOMAIN prog.call) \X prog.functions
        BY <3>3, <3>4, ProgramsAssumption
      <3> QED
        BY <3>1, <3>2, <3>3, <3>5 DEF EdgesInv
    <2>3. CASE ReinitSandboxes \/ EndPointers
      <3>1. UNCHANGED <<prog, graph>> /\ phase = "pointers" /\ toMake' \subseteq toMake
        BY <2>3 DEF ReinitSandboxes, EndPointers
      <3> QED
        BY <3>1 DEF EdgesInv, Found
    <2>4. CASE ~SetUp /\ ~AddTarget /\ ~ReinitSandboxes /\ ~EndPointers
      <3>1. ~Found /\ UNCHANGED graph
        BY <1>2, <2>4 DEF FindStep, Find, EntryAnnotation, RightsAnnotation, OtherAnnotation, ReadAnnotation,
             EndAnnotations, MakeFunctionSandbox, EndFunctions, StartRegion, WalkSuccessor, WalkReturn,
             EndRegion, Walking, EndRegions, MakeReferenced, BitsInv, TurnsInv, FindPhases
      <3> QED
        BY <3>1 DEF EdgesInv, Found
    <2> QED
      BY <2>1, <2>2, <2>3, <2>4
  <1> QED
    BY <1>1, <1>2

(* isReachableFrom() finds, in a sandbox, where calls lead.                *)
LEMMA ReachableIsCalled ==
  ASSUME CheckInv, EdgesInv, ran # << >>, NEW S \in Boxes,
         NEW f \in prog.functions, NEW g \in prog.functions
  PROVE  IsReachableFrom(f, g, S) <=> g \in CalledFrom(f, S)
  <1>1. Found /\ prog \in Programs /\ S # Priv /\ S \in DOMAIN graph
    BY KnownOf DEF CheckInv, Current
  <1>2. PICK go : go = [h \in prog.functions |->
                          IF S = Priv \/ ~Expanded(h, S) THEN {} ELSE {e[2] : e \in EdgesFrom(h, S)}]
    OBVIOUS
  <1>3. \A e \in graph[S] : e[2] \in prog.functions
    BY <1>1 DEF EdgesInv
  <1>4. go \in [prog.functions -> SUBSET prog.functions]
    BY <1>2, <1>3 DEF EdgesFrom
  <1>5. IsReachableFrom(f, g, S) <=> g \in Least({f}, go)
    <2>1. IsFiniteSet(prog.functions)
      BY <1>1, ProgramsAssumption
    <2>2. ReachedFrom({f}, go) = Least({f}, go)
      BY <1>4, <2>1, ReachedIsLeast
    <2> QED
      BY <1>2, <2>2, Zenon DEF IsReachableFrom
  <1>6. ASSUME NEW N \in SUBSET prog.functions
        PROVE  ClosedIn(N, go) <=>
                 \A e \in graph[S] :
                   FunctionOf(prog, e[1]) \in N /\ Expanded(FunctionOf(prog, e[1]), S) => e[2] \in N
    BY <1>1, <1>2 DEF ClosedIn, EdgesFrom
  <1> QED
    BY <1>4, <1>5, <1>6 DEF Least, CalledFrom

-----------------------------------------------------------------------------
(* Messages.  What build() makes of sends and receives, and dump() of      *)
(* that, stays as it is.                                                   *)
LinksMade ==
  /\ \E h \in [(Boxes \cup {Priv}) \X Types -> prog.functions \cup {None}] :
       /\ \A e \in DOMAIN h : h[e] \in HandlersOf(e[1], e[2])
       /\ links = {l \in Links(h) : l.at \in CallsOf(l.from)}
  /\ prog.opt.dump => drawn = ClusterEdges(links)

LinksInv == "rpc" \in Elements(ran) \/ phase \in Checking => LinksMade

LEMMA LinksSame ==
  ASSUME UNCHANGED <<prog, findVars, initVars>>
  PROVE  /\ Boxes' = Boxes /\ Types' = Types
         /\ \A x : CallsOf(x)' = CallsOf(x)
         /\ \A x, t : HandlersOf(x, t)' = HandlersOf(x, t)
         /\ \A h : Links(h)' = Links(h)
         /\ \A L : ClusterEdges(L)' = ClusterEdges(L)
  <1> USE DEF findVars, annotVars, initVars
  <1>1. Boxes' = Boxes /\ Types' = Types
    BY DEF Boxes, Types
  <1>2. \A x : CallsOf(x)' = CallsOf(x)
    <2>1. PrivInsts' = PrivInsts
      BY DEF PrivInsts, TakenUnseen, IsPrivilegedInstruction, IsRegionWithin, IsRegion, ContainsInstruction,
             RegionSet, Boxes
    <2>2. QED
      BY <2>1 DEF CallsOf
  <1>3. \A x, t : Receives(x, t)' = Receives(x, t)
    BY <1>2 DEF Receives
  <1>4. \A x, t : HandlersOf(x, t)' = HandlersOf(x, t)
    BY <1>3 DEF HandlersOf, Handler
  <1>5. \A n : WithName(n)' = WithName(n)
    BY DEF WithName, Named
  <1>6. \A h : Links(h)' = Links(h)
    BY <1>1, <1>5 DEF Links
  <1>7. \A L : ClusterEdges(L)' = ClusterEdges(L)
    <2>1. \A L, x : Cluster(L, x)' = Cluster(L, x)
      BY DEF Cluster, FunctionOf, BlockOf, Blocks
    <2>2. \A f, g, x : IsReachableFrom(f, g, x)' = IsReachableFrom(f, g, x)
      BY DEF IsReachableFrom, ReachedFrom, EdgesFrom, Expanded, FunctionOf, BlockOf, Blocks
    <2> QED
      BY <1>1, <2>1, <2>2 DEF ClusterEdges
  <1> QED
    BY <1>1, <1>2, <1>4, <1>6, <1>7

LEMMA LinksKept ==
  ASSUME LinksMade, UNCHANGED <<prog, findVars, initVars, links, drawn>>
  PROVE  LinksMade'
  <1>1. PICK h \in [(Boxes \cup {Priv}) \X Types -> prog.functions \cup {None}] :
          /\ \A e \in DOMAIN h : h[e] \in HandlersOf(e[1], e[2])
          /\ links = {l \in Links(h) : l.at \in CallsOf(l.from)}
    BY DEF LinksMade
  <1>2. /\ \A e \in DOMAIN h : h[e] \in HandlersOf(e[1], e[2])'
        /\ links' = {l \in Links(h)' : l.at \in CallsOf(l.from)'}
    BY <1>1, LinksSame
  <1>3. h \in [(Boxes' \cup {Priv}) \X Types' -> prog.functions' \cup {None}]
    BY <1>1, LinksSame
  <1>4. prog'.opt.dump => drawn' = ClusterEdges(links)'
    <2>1. PICK L : L = links
      OBVIOUS
    <2>2. ClusterEdges(links)' = ClusterEdges(L)'
      BY <2>1 DEF ClusterEdges, Cluster
    <2>3. prog.opt.dump => drawn = ClusterEdges(L)
      BY <2>1 DEF LinksMade
    <2> QED
      BY <2>2, <2>3, LinksSame
  <1> QED
    BY <1>2, <1>3, <1>4 DEF LinksMade

LEMMA LinksStep ==
  ASSUME CheckInv, LinksInv, [CNext]_cvars
  PROVE  LinksInv'
  <1>1. CASE UNCHANGED cvars \/ ProcessCmdLineArgs \/ TraceStep
    <2>1. /\ UNCHANGED <<prog, findVars, initVars, ran, links, drawn>>
          /\ phase' = phase \/ phase' = "exited"
      BY <1>1 DEF cvars, vars, reportVars, ProcessCmdLineArgs, TraceStep
    <2> QED
      BY <2>1, LinksKept DEF LinksInv, Checking
  <1>2. CASE FindStep
    <2>1. Find /\ UNCHANGED ran
      BY <1>2 DEF FindStep
    <2>2. ran' = << >> /\ phase' \in FindPhases \cup {"pointers", "ready"}
      BY <2>1, Finding DEF CheckInv, RanInv
    <2> QED
      BY <2>2 DEF LinksInv, Elements, Checking, FindPhases
  <1>3. CASE ValidateCreations \/ Instrument
    <2>1. PICK x \in {"creations", "perf"} : ran' = Append(ran, x)
      BY <1>3 DEF ValidateCreations, Instrument, Run
    <2>2. UNCHANGED <<prog, findVars, initVars, links, drawn>> /\ phase' \notin Checking
      BY <1>3 DEF ValidateCreations, Instrument, Step, reportVars, Checking
    <2>3. ran \in Seq(RanNames) /\ x \in RanNames
      BY <2>1 DEF CheckInv, RanInv, RanNames
    <2>4. Elements(ran') = Elements(ran) \cup {x}
      BY <2>1, <2>3, Appended
    <2> QED
      BY <2>1, <2>2, <2>4, LinksKept DEF LinksInv
  <1>4. CASE RPC
    <2>1. UNCHANGED <<prog, findVars, initVars>> /\ BuildRPCGraph
      BY <1>4 DEF RPC, Step
    <2>2. PICK h \in [(Boxes \cup {Priv}) \X Types -> prog.functions \cup {None}] :
            /\ \A e \in DOMAIN h : h[e] \in HandlersOf(e[1], e[2])
            /\ links' = {l \in Links(h) : l.at \in CallsOf(l.from)}
      BY <2>1 DEF BuildRPCGraph
    <2>3. /\ \A e \in DOMAIN h : h[e] \in HandlersOf(e[1], e[2])'
          /\ links' = {l \in Links(h)' : l.at \in CallsOf(l.from)'}
      BY <2>1, <2>2, LinksSame
    <2>4. h \in [(Boxes' \cup {Priv}) \X Types' -> prog.functions' \cup {None}]
      BY <2>1, <2>2, LinksSame
    <2>5. prog'.opt.dump => drawn' = ClusterEdges(links)'
      <3>1. PICK L : L = links'
        OBVIOUS
      <3>2. ClusterEdges(links)' = ClusterEdges(L)'
        BY <3>1 DEF ClusterEdges, Cluster
      <3>3. prog.opt.dump => drawn' = ClusterEdges(L)
        BY <2>1, <3>1, Zenon DEF BuildRPCGraph
      <3> QED
        BY <2>1, <3>2, <3>3, LinksSame
    <2> QED
      BY <2>3, <2>4, <2>5 DEF LinksInv, LinksMade
  <1>5. CASE Vuln \/ DataFlow \/ PrivCalls \/ SandboxedFuncs \/ PassOver \/ InfoFlowAnalyses
    <2>1. UNCHANGED <<prog, findVars, initVars, links, drawn>> /\ phase \in Checking
      BY <1>5 DEF Vuln, DataFlow, PrivCalls, SandboxedFuncs, PassOver, InfoFlowAnalyses, Step,
                  reportVars, Checking
    <2> QED
      BY <2>1, LinksKept DEF LinksInv
  <1> QED
    BY <1>1, <1>2, <1>3, <1>4, <1>5 DEF CNext

LEMMA LinksHold == CSpec => [](CheckInv /\ EdgesInv /\ LinksInv)
  <1>1. CInit => EdgesInv /\ LinksInv
    BY DEF CInit, Init, EdgesInv, Found, LinksInv, Elements, Checking
  <1>2. CheckInv => BitsInv
    BY DEF CheckInv
  <1> QED
    BY <1>1, <1>2, ChecksFirst, ChecksStep, EdgesStep, LinksStep, PTL DEF CSpec

(* The calls of a domain are those that lie in it; privileged code takes   *)
(* first instructions besides.                                             *)
LEMMA CallsAre ==
  ASSUME CheckInv, ran # << >>, NEW c \in DOMAIN prog.call
  PROVE  /\ \A S \in Boxes : c \in CallsOf(S) <=> S \in ContextsOf(c)
         /\ c \in CallsOf(Priv) <=> Priv \in ContextsOf(c) \/ TakenUnseen(c)
  <1>1. prog \in Programs /\ Found /\ toMake = {}
    BY DEF CheckInv, BitsInv, TurnsInv, RanInv
  <1>2. c \in Instrs(prog)
    BY <1>1, ProgramsAssumption
  <1>3. \A S \in Boxes : S # Priv
    BY DEF CheckInv, BitsInv, NamesInv, SandboxesType, Boxes, Priv
  <1>4. ASSUME NEW S \in Boxes PROVE c \in CallsOf(S) <=> S \in ContextsOf(c)
    <2> DEFINE F == FindSandboxedFunctions(graph, S)
               A == CallsIn(prog, UNION {InstrsOf(prog, f) : f \in F})
               B == TopCalls(S)
    <2>1. info[S] = InitSandbox(graph, S, Blank)
      BY <1>1, <1>4 DEF CheckInv, Current
    <2>2. info[S].calls = EmptyBag (+) FindSandboxedCalls(S, F) /\ info[S].functions = F
      BY <2>1 DEF InitSandbox, Blank
    <2>3. FindSandboxedCalls(S, F) = SetToBag(A) (+) SetToBag(B)
      BY DEF FindSandboxedCalls
    <2> HIDE DEF A, B, F
    <2>4. BagToSet(info[S].calls) = A \cup B
      BY <2>2, <2>3 DEF BagToSet, SetToBag, EmptyBag, \oplus
    <2>5. c \in A <=> FunctionOf(prog, c) \in F
      BY <1>2 DEF A, CallsIn, InstrsOf
    <2>6. c \in B <=> IsRegion(S) /\ c \in RegionSet(S)
      BY <1>3, <1>4 DEF B, TopCalls, CallsIn
    <2>7. S \in ContextsOf(c) <=> ContainsInstruction(S, c)
      BY <1>3, <1>4 DEF ContextsOf
    <2> QED
      BY <1>3, <1>4, <2>2, <2>4, <2>5, <2>6, <2>7 DEF CallsOf, ContainsInstruction
  <1>5. Priv \in ContextsOf(c) <=> IsPrivilegedInstruction(c)
    BY <1>3 DEF ContextsOf
  <1> QED
    BY <1>2, <1>4, <1>5 DEF CallsOf, PrivInsts

LEMMA SenderIsThere ==
  ASSUME prog \in Programs, NEW c \in DOMAIN prog.send \cup DOMAIN prog.recv
  PROVE  FunctionOf(prog, c) \in prog.functions
  <1>1. c \in Instrs(prog)
    BY ProgramsAssumption, ReportsAssumption
  <1>2. BlockOf(prog, c) \in Blocks(prog)
    BY <1>1 DEF Instrs, BlockOf
  <1> QED
    BY <1>2, ProgramsAssumption DEF FunctionOf

LEMMA HandlerIsThere ==
  ASSUME prog \in Programs, NEW c \in DOMAIN prog.recv
  PROVE  Handler(c) # None
  <1>1. FunctionOf(prog, c) \in prog.functions
    BY SenderIsThere
  <1>2. None \notin Instrs(prog) \cup prog.functions
    BY ProgramsAssumption
  <1> QED
    BY <1>1, <1>2 DEF Handler

LEMMA MessageLinked ==
  ASSUME CheckInv, LinksMade, ran # << >>, NEW c \in DOMAIN prog.send, NEW x \in ContextsOf(c)
  PROVE  LinkedFrom(c, x)
  <1> DEFINE mine == {l \in links : l.at = c /\ l.from = x}
             message == prog.send[c]
             registered(y) == {m \in DOMAIN prog.recv :
                                 /\ prog.recv[m].type = message.type
                                 /\ y \in ContextsOf(m) \/ (y = Priv /\ TakenUnseen(m))}
             to == WithName(message.to)
  <1>1. PICK h \in [(Boxes \cup {Priv}) \X Types -> prog.functions \cup {None}] :
          /\ \A e \in DOMAIN h : h[e] \in HandlersOf(e[1], e[2])
          /\ links = {l \in Links(h) : l.at \in CallsOf(l.from)}
    BY DEF LinksMade
  <1> DEFINE link(d, y) == [at |-> d, from |-> y, type |-> prog.send[d].type,
                            to |-> WithName(prog.send[d].to),
                            handler |-> h[<<WithName(prog.send[d].to), prog.send[d].type>>]]
  <1>2. prog \in Programs /\ x \in Boxes \cup {Priv} /\ NamesInv
    BY DEF CheckInv, BitsInv, TurnsInv, ContextsOf
  <1>3. c \in DOMAIN prog.call /\ DOMAIN prog.recv \subseteq DOMAIN prog.call
    BY <1>2, ReportsAssumption
  <1>4. c \in CallsOf(x)
    BY <1>2, <1>3, CallsAre
  <1>5. mine = {link(c, x)}
    <2>1. Links(h) = {link(d, y) : d \in DOMAIN prog.send, y \in Boxes \cup {Priv}}
      BY DEF Links
    <2>2. \A d, y : link(d, y).at = d /\ link(d, y).from = y
      OBVIOUS
    <2> HIDE DEF link
    <2>3. link(c, x) \in mine
      BY <1>1, <1>2, <1>4, <2>1, <2>2
    <2>4. \A l \in mine : l = link(c, x)
      BY <1>1, <2>1, <2>2
    <2> QED
      BY <2>3, <2>4
  <1>6. to \in Boxes \cup {Priv}
    BY <1>2, FirstNamed DEF WithName, Named, Boxes
  <1>7. IF to = Priv THEN Named(message.to) = {} ELSE sandboxes[to].name = message.to
    <2>1. CASE Named(message.to) = {}
      BY <2>1 DEF WithName
    <2>2. CASE Named(message.to) # {}
      <3>1. to \in Named(message.to)
        BY <1>2, <2>2, FirstNamed
      <3>2. to # Priv /\ sandboxes[to].name = message.to
        BY <1>2, <3>1 DEF Named, NamesInv, SandboxesType, Boxes, Priv
      <3> QED
        BY <3>2
    <2> QED
      BY <2>1, <2>2
  <1>8. registered(to) = Receives(to, message.type)
    BY <1>3, <1>6, CallsAre DEF Receives
  <1>9. h[<<to, message.type>>] \in HandlersOf(to, message.type)
    BY <1>1, <1>6 DEF Types
  <1>10. /\ h[<<to, message.type>>] = None <=> Receives(to, message.type) = {}
         /\ h[<<to, message.type>>] # None =>
              \E m \in Receives(to, message.type) : h[<<to, message.type>>] = Handler(m)
    BY <1>2, <1>9, HandlerIsThere DEF HandlersOf, Receives
  <1>11. /\ link(c, x).type = message.type /\ link(c, x).to = to
         /\ link(c, x).handler = h[<<to, message.type>>]
    OBVIOUS
  <1> HIDE DEF link, mine, registered, to
  <1>12. Cardinality(mine) = 1
    BY <1>5, FS_Singleton
  <1> QED
    BY <1>5, <1>7, <1>8, <1>10, <1>11, <1>12 DEF LinkedFrom, mine, registered

(* Functions of one domain are joined in the drawing if calls lead from    *)
(* one to the other.                                                       *)
LEMMA AnswerDrawn ==
  ASSUME CheckInv, EdgesInv, LinksMade, ran # << >>, prog.opt.dump,
         NEW k \in links, NEW l \in links, k.to = l.from, k.to # Priv,
         k.handler # None, k.handler # FunctionOf(prog, l.at)
  PROVE  FunctionOf(prog, l.at) \in CalledFrom(k.handler, k.to)
           <=> <<k.to, k.handler, FunctionOf(prog, l.at)>> \in drawn
  <1>1. PICK x, f, g : x = k.to /\ f = k.handler /\ g = FunctionOf(prog, l.at)
    OBVIOUS
  <1>2. PICK h \in [(Boxes \cup {Priv}) \X Types -> prog.functions \cup {None}] :
          links = {m \in Links(h) : m.at \in CallsOf(m.from)}
    BY DEF LinksMade
  <1>3. \A m \in links :
          /\ m.at \in DOMAIN prog.send /\ m.from \in Boxes \cup {Priv}
          /\ m.handler \in prog.functions \cup {None}
    <2>1. ASSUME NEW d \in DOMAIN prog.send
          PROVE  h[<<WithName(prog.send[d].to), prog.send[d].type>>] \in prog.functions \cup {None}
      <3>1. WithName(prog.send[d].to) \in Boxes \cup {Priv}
        BY FirstNamed DEF CheckInv, BitsInv, WithName, Named, Boxes
      <3>2. prog.send[d].type \in Types
        BY DEF Types
      <3> QED
        BY <3>1, <3>2
    <2> DEFINE link(d, y) == [at |-> d, from |-> y, type |-> prog.send[d].type,
                              to |-> WithName(prog.send[d].to),
                              handler |-> h[<<WithName(prog.send[d].to), prog.send[d].type>>]]
    <2>2. Links(h) = {link(d, y) : d \in DOMAIN prog.send, y \in Boxes \cup {Priv}}
      BY DEF Links
    <2>3. \A d \in DOMAIN prog.send : \A y \in Boxes \cup {Priv} :
            /\ link(d, y).at = d /\ link(d, y).from = y
            /\ link(d, y).handler \in prog.functions \cup {None}
      BY <2>1
    <2> HIDE DEF link
    <2> QED
      BY <1>2, <2>2, <2>3
  <1>4. x \in Boxes /\ f \in prog.functions
    BY <1>1, <1>3
  <1>5. g \in prog.functions
    BY <1>1, <1>3, SenderIsThere DEF CheckInv, BitsInv, TurnsInv
  <1>6. f \in Cluster(links, x) /\ g \in Cluster(links, x)
    BY <1>1 DEF Cluster
  <1>7. <<x, f, g>> \in drawn <=> IsReachableFrom(f, g, x)
    <2>1. drawn = ClusterEdges(links)
      BY DEF LinksMade
    <2> DEFINE Pairs(y) == {d \in Cluster(links, y) \X Cluster(links, y) :
                              d[1] # d[2] /\ IsReachableFrom(d[1], d[2], y)}
               Drawn(y) == {<<y, d[1], d[2]>> : d \in Pairs(y)}
    <2>2. drawn = UNION {Drawn(y) : y \in Boxes \cup {Priv}}
      BY <2>1 DEF ClusterEdges
    <2>3. <<f, g>> \in Pairs(x) <=> IsReachableFrom(f, g, x)
      BY <1>1, <1>6
    <2> HIDE DEF Pairs
    <2>4. \A y, a, b : <<y, a, b>> \in Drawn(y) <=> <<a, b>> \in Pairs(y)
      <3>1. ASSUME NEW y, NEW d \in Pairs(y) PROVE d = <<d[1], d[2]>>
        BY <3>1 DEF Pairs
      <3> QED
        BY <3>1
    <2>5. \A y, a, b, z : <<y, a, b>> \in Drawn(z) => y = z
      OBVIOUS
    <2> HIDE DEF Drawn
    <2> QED
      BY <1>4, <2>2, <2>3, <2>4, <2>5
  <1> QED
    BY <1>1, <1>4, <1>5, <1>7, ReachableIsCalled

(* Whatever is annotated and however the graph has grown, each message is  *)
(* linked where it is sent to one recipient and one handler there, and the *)
(* drawing joins that handler to the functions of its sandbox that send    *)
(* and that calls lead to (RPCGraph::build(), dump()).                     *)
THEOREM MessagesAreLinked == CSpec => []MessagesLinked
  <1>1. ASSUME CheckInv, EdgesInv, LinksInv PROVE MessagesLinked
    <2>1. SUFFICES ASSUME "rpc" \in Elements(ran)
                   PROVE  /\ \A c \in DOMAIN prog.send : \A x \in ContextsOf(c) : LinkedFrom(c, x)
                          /\ prog.opt.dump =>
                               \A k, l \in links :
                                 k.to = l.from /\ k.to # Priv /\ k.handler \notin {None, FunctionOf(prog, l.at)} =>
                                   (FunctionOf(prog, l.at) \in CalledFrom(k.handler, k.to)
                                      <=> <<k.to, k.handler, FunctionOf(prog, l.at)>> \in drawn)
      BY DEF MessagesLinked
    <2>2. ran # << >> /\ LinksMade
      BY <1>1, <2>1, SomethingRan DEF LinksInv
    <2>3. ASSUME NEW c \in DOMAIN prog.send, NEW x \in ContextsOf(c) PROVE LinkedFrom(c, x)
      BY <1>1, <2>2, MessageLinked
    <2>4. ASSUME prog.opt.dump, NEW k \in links, NEW l \in links,
                 k.to = l.from, k.to # Priv, k.handler \notin {None, FunctionOf(prog, l.at)}
          PROVE  FunctionOf(prog, l.at) \in CalledFrom(k.handler, k.to)
                   <=> <<k.to, k.handler, FunctionOf(prog, l.at)>> \in drawn
      BY <1>1, <2>2, <2>4, AnswerDrawn
    <2> QED
      BY <2>3, <2>4
  <1> QED
    BY <1>1, LinksHold, PTL

-----------------------------------------------------------------------------
(***************************************************************************)
(* Shortest paths.  The levels of calculateShortestCallPathsFromFunc() are *)
(* a recursive function: that there is one is shown from the least number  *)
(* of levels for which there would be none.                                *)
(***************************************************************************)
LevelsTo(L, k, s, x) ==
  L = [n \in 0..k |-> IF n = 0 THEN {s} ELSE StepFrom(L[n - 1], x) \ UNION {L[m] : m \in 0..(n - 1)}]

LEMMA LevelsExist ==
  ASSUME NEW s, NEW x, NEW k \in Nat
  PROVE  \E L : LevelsTo(L, k, s, x)
  <1> DEFINE Bad == {n \in Nat : ~\E L : LevelsTo(L, n, s, x)}
  <1>1. SUFFICES ASSUME Bad # {} PROVE FALSE
    OBVIOUS
  <1>2. PICK b \in Bad : \A n \in Bad : b <= n
    BY <1>1, FirstPosition
  <1>3. b # 0
    <2>1. LevelsTo([n \in 0..0 |-> {s}], 0, s, x)
      BY DEF LevelsTo
    <2> QED
      BY <2>1, <1>2
  <1>4. b - 1 \in Nat /\ b - 1 \notin Bad
    BY <1>2, <1>3
  <1>5. PICK L : LevelsTo(L, b - 1, s, x)
    BY <1>4
  <1> DEFINE M == [n \in 0..b |-> IF n = b THEN StepFrom(L[b - 1], x) \ UNION {L[m] : m \in 0..(b - 1)} ELSE L[n]]
  <1>6. \A n \in 0..(b - 1) : M[n] = L[n]
    BY <1>2
  <1>7. ASSUME NEW n \in 0..b
        PROVE  M[n] = IF n = 0 THEN {s} ELSE StepFrom(M[n - 1], x) \ UNION {M[m] : m \in 0..(n - 1)}
    <2>1. {M[m] : m \in 0..(n - 1)} = {L[m] : m \in 0..(n - 1)}
      <3>1. \A m \in 0..(n - 1) : M[m] = L[m]
        BY <1>2, <1>6
      <3> HIDE DEF M
      <3> QED
        BY <3>1
    <2>2. n # 0 => M[n - 1] = L[n - 1]
      BY <1>2, <1>6
    <2>3. CASE n = b
      BY <1>2, <1>3, <2>1, <2>2, <2>3
    <2>4. CASE n # b
      <3>1. n \in 0..(b - 1)
        BY <1>2, <2>4
      <3>2. M[n] = L[n]
        BY <1>6, <3>1
      <3>3. L[n] = IF n = 0 THEN {s} ELSE StepFrom(L[n - 1], x) \ UNION {L[m] : m \in 0..(n - 1)}
        BY <1>5, <3>1 DEF LevelsTo
      <3> HIDE DEF M
      <3> QED
        BY <2>1, <2>2, <3>2, <3>3
    <2> QED
      BY <2>3, <2>4
  <1>8. LevelsTo(M, b, s, x)
    <2>1. M = [n \in 0..b |-> M[n]]
      OBVIOUS
    <2> HIDE DEF M
    <2> QED
      BY <1>7, <2>1 DEF LevelsTo
  <1> QED
    BY <1>2, <1>8

Deepest == Cardinality(prog.functions)
ReachedIn(s, x) == UNION {Levels(s, x)[n] : n \in 0..Deepest}

LEMMA LevelsAre ==
  ASSUME IsFiniteSet(prog.functions), NEW s, NEW x
  PROVE  /\ Deepest \in Nat /\ DOMAIN Levels(s, x) = 0..Deepest
         /\ Levels(s, x)[0] = {s}
         /\ \A n \in 1..Deepest :
              Levels(s, x)[n] = StepFrom(Levels(s, x)[n - 1], x) \ UNION {Levels(s, x)[m] : m \in 0..(n - 1)}
  <1>1. Deepest \in Nat
    BY FS_CardinalityType DEF Deepest
  <1>2. PICK L : L = Levels(s, x) /\ LevelsTo(L, Deepest, s, x)
    <2>1. \E L : LevelsTo(L, Deepest, s, x)
      BY <1>1, LevelsExist
    <2> QED
      BY <2>1 DEF Levels, LevelsTo, Deepest
  <1>3. \A n \in 0..Deepest : L[n] = IF n = 0 THEN {s} ELSE StepFrom(L[n - 1], x) \ UNION {L[m] : m \in 0..(n - 1)}
    BY <1>2 DEF LevelsTo
  <1>4. DOMAIN L = 0..Deepest
    BY <1>2 DEF LevelsTo
  <1> QED
    BY <1>1, <1>2, <1>3, <1>4

(* A function is at one distance.                                          *)
LEMMA LevelsApart ==
  ASSUME IsFiniteSet(prog.functions), NEW s, NEW x, NEW m \in 0..Deepest, NEW n \in 0..Deepest,
         NEW f \in Levels(s, x)[m], f \in Levels(s, x)[n]
  PROVE  m = n
  <1>1. Deepest \in Nat
    BY LevelsAre
  <1>2. ASSUME NEW i \in 0..Deepest, NEW j \in 0..Deepest, i < j, f \in Levels(s, x)[j]
        PROVE  f \notin Levels(s, x)[i]
    <2>1. j \in 1..Deepest /\ i \in 0..(j - 1)
      BY <1>1, <1>2
    <2>2. Levels(s, x)[j] = StepFrom(Levels(s, x)[j - 1], x) \ UNION {Levels(s, x)[l] : l \in 0..(j - 1)}
      BY <2>1, LevelsAre
    <2> QED
      BY <1>2, <2>1, <2>2
  <1> QED
    BY <1>1, <1>2

(* There are not more levels than functions.                               *)
LEMMA LevelsEnd ==
  ASSUME IsFiniteSet(prog.functions), NEW s \in prog.functions, NEW x,
         \A e \in graph[x] : e[2] \in prog.functions
  PROVE  Levels(s, x)[Deepest] = {}
  <1> DEFINE L == Levels(s, x)
  <1>1. /\ Deepest \in Nat /\ L[0] = {s}
        /\ \A n \in 1..Deepest : L[n] = StepFrom(L[n - 1], x) \ UNION {L[m] : m \in 0..(n - 1)}
    BY LevelsAre
  <1>2. \A F : StepFrom(F, x) \subseteq prog.functions
    BY DEF StepFrom, EdgesFrom
  <1>3. StepFrom({}, x) = {}
    BY DEF StepFrom
  <1>4. \A m, n \in 0..Deepest : \A f \in L[m] : f \in L[n] => m = n
    BY LevelsApart
  <1> HIDE DEF L
  <1>5. \A n \in 0..Deepest : L[n] \subseteq prog.functions
    BY <1>1, <1>2
  <1>6. \E n \in 0..Deepest : L[n] = {}
    <2> SUFFICES ASSUME \A n \in 0..Deepest : L[n] # {} PROVE FALSE
      OBVIOUS
    <2> DEFINE g == [n \in 0..Deepest |-> CHOOSE f \in L[n] : TRUE]
    <2>1. \A n \in 0..Deepest : g[n] \in L[n]
      OBVIOUS
    <2>2. g \in [0..Deepest -> prog.functions]
      BY <1>5, <2>1
    <2> HIDE DEF g
    <2>3. \A m, n \in 0..Deepest : g[m] = g[n] => m = n
      BY <1>4, <2>1
    <2>4. g \in Injection(0..Deepest, prog.functions)
      BY <2>2, <2>3 DEF Injection, IsInjective
    <2>5. Cardinality(0..Deepest) <= Cardinality(prog.functions)
      BY <2>4, FS_Injection
    <2>6. Cardinality(0..Deepest) = Deepest + 1
      BY <1>1, FS_Interval
    <2> QED
      BY <1>1, <2>5, <2>6 DEF Deepest
  <1>7. PICK e \in 0..Deepest : L[e] = {}
    BY <1>6
  <1> DEFINE Bad == {n \in e..Deepest : L[n] # {}}
  <1>8. SUFFICES ASSUME Bad # {} PROVE FALSE
    <2>1. Deepest \in e..Deepest
      BY <1>1
    <2> QED
      BY <2>1 DEF L
  <1>9. Bad \in SUBSET Nat
    BY <1>1
  <1>10. PICK b \in Bad : \A n \in Bad : b <= n
    BY <1>8, <1>9, FirstPosition
  <1>11. b \in 1..Deepest /\ b - 1 \in e..Deepest /\ b - 1 < b
    BY <1>1, <1>7, <1>10
  <1>12. L[b - 1] = {}
    BY <1>10, <1>11
  <1> QED
    BY <1>1, <1>3, <1>10, <1>11, <1>12

(* What is reached is closed under the calls that are followed.            *)
LEMMA ReachedCloses ==
  ASSUME IsFiniteSet(prog.functions), NEW s \in prog.functions, NEW x,
         \A e \in graph[x] : e[2] \in prog.functions
  PROVE  /\ s \in ReachedIn(s, x) /\ ReachedIn(s, x) \subseteq prog.functions
         /\ \A f \in ReachedIn(s, x) : Expanded(f, x) => \A e \in EdgesFrom(f, x) : e[2] \in ReachedIn(s, x)
  <1> DEFINE L == Levels(s, x)
  <1>1. /\ Deepest \in Nat /\ L[0] = {s}
        /\ \A n \in 1..Deepest : L[n] = StepFrom(L[n - 1], x) \ UNION {L[m] : m \in 0..(n - 1)}
    BY LevelsAre
  <1>2. \A F : StepFrom(F, x) \subseteq prog.functions
    BY DEF StepFrom, EdgesFrom
  <1>3. L[Deepest] = {}
    BY LevelsEnd
  <1>4. ReachedIn(s, x) = UNION {L[n] : n \in 0..Deepest}
    BY DEF ReachedIn
  <1> HIDE DEF L
  <1>5. \A n \in 0..Deepest : L[n] \subseteq prog.functions
    BY <1>1, <1>2
  <1>6. ASSUME NEW f \in ReachedIn(s, x), Expanded(f, x), NEW e \in EdgesFrom(f, x)
        PROVE  e[2] \in ReachedIn(s, x)
    <2>1. PICK n \in 0..Deepest : f \in L[n]
      BY <1>4
    <2>2. n + 1 \in 1..Deepest /\ (n + 1) - 1 = n
      BY <1>1, <1>3, <2>1
    <2>3. e[2] \in StepFrom(L[n], x)
      BY <1>6, <2>1 DEF StepFrom
    <2>4. \E m \in 0..(n + 1) : e[2] \in L[m]
      <3>1. L[n + 1] = StepFrom(L[n], x) \ UNION {L[m] : m \in 0..n}
        BY <1>1, <2>2
      <3> QED
        BY <2>2, <2>3, <3>1
    <2>5. PICK m \in 0..(n + 1) : e[2] \in L[m]
      BY <2>4
    <2>6. m \in 0..Deepest
      BY <1>1, <2>2, <2>5
    <2> QED
      BY <1>4, <2>5, <2>6
  <1>7. 0 \in 0..Deepest
    BY <1>1
  <1> QED
    BY <1>1, <1>4, <1>5, <1>6, <1>7

-----------------------------------------------------------------------------
(* A way from s to f by edges of E: calls, the last one first.             *)
Sites(E) == {e[1] : e \in E}
Way(calls, s, f, E) ==
  /\ calls \in Seq(Sites(E))
  /\ IF calls = << >> THEN f = s
     ELSE /\ <<calls[1], f>> \in E
          /\ FunctionOf(prog, calls[Len(calls)]) = s
          /\ \A i \in 1..(Len(calls) - 1) : <<calls[i + 1], FunctionOf(prog, calls[i])>> \in E

LEMMA OneCall ==
  ASSUME NEW E, NEW c, NEW f, <<c, f>> \in E
  PROVE  Way(<<c>>, FunctionOf(prog, c), f, E) /\ Len(<<c>>) = 1
  <1>1. c \in Sites(E)
    BY DEF Sites
  <1>2. <<c>> \in Seq(Sites(E)) /\ Len(<<c>>) = 1 /\ <<c>> # << >> /\ <<c>>[1] = c
    BY <1>1
  <1>3. PICK u : u = <<c>>
    OBVIOUS
  <1> QED
    BY <1>2, <1>3 DEF Way

LEMMA NoCall ==
  ASSUME NEW E, NEW f
  PROVE  Way(<< >>, f, f, E) /\ Len(<< >>) = 0
  BY DEF Way

LEMMA WaysJoin ==
  ASSUME NEW E, NEW r, NEW s, NEW f, NEW p, NEW q, Way(p, s, f, E), Way(q, r, s, E)
  PROVE  Way(p \o q, r, f, E) /\ Len(p \o q) = Len(p) + Len(q) /\ Len(p) \in Nat /\ Len(q) \in Nat
  <1>1. PICK K : K = Sites(E)
    OBVIOUS
  <1>2. p \in Seq(K) /\ q \in Seq(K)
    BY <1>1 DEF Way
  <1>3. /\ Len(p) \in Nat /\ Len(q) \in Nat /\ p \o q \in Seq(K) /\ Len(p \o q) = Len(p) + Len(q)
        /\ \A i \in 1..Len(p) : (p \o q)[i] = p[i]
        /\ \A i \in 1..Len(q) : (p \o q)[Len(p) + i] = q[i]
    BY <1>2
  <1>4. (p = << >> => Len(p) = 0 /\ p \o q = q) /\ (q = << >> => Len(q) = 0 /\ p \o q = p)
    BY <1>2
  <1>5. (p # << >> => Len(p) > 0) /\ (q # << >> => Len(q) > 0)
    BY <1>2
  <1>6. CASE p = << >> \/ q = << >>
    BY <1>3, <1>4, <1>6 DEF Way
  <1>7. CASE p # << >> /\ q # << >>
    <2>1. PICK u \in Seq(K) : u = p \o q
      BY <1>3
    <2>2. u # << >> /\ u[1] = p[1] /\ u[Len(u)] = q[Len(q)]
      BY <1>3, <1>5, <1>7, <2>1
    <2>3. <<u[1], f>> \in E /\ FunctionOf(prog, u[Len(u)]) = r
      BY <1>7, <2>2 DEF Way
    <2>4. ASSUME NEW i \in 1..(Len(u) - 1)
          PROVE  <<u[i + 1], FunctionOf(prog, u[i])>> \in E
      <3>1. CASE i < Len(p)
        <4>1. u[i] = p[i] /\ u[i + 1] = p[i + 1] /\ i \in 1..(Len(p) - 1)
          BY <1>3, <2>1, <3>1
        <4> QED
          BY <1>7, <4>1 DEF Way
      <3>2. CASE i = Len(p)
        <4>1. u[i] = p[Len(p)] /\ u[i + 1] = q[1]
          BY <1>3, <1>5, <1>7, <2>1, <3>2
        <4> QED
          BY <1>7, <4>1 DEF Way
      <3>3. CASE i > Len(p)
        <4>1. PICK j : j = i - Len(p)
          OBVIOUS
        <4>2. j \in 1..(Len(q) - 1) /\ j \in 1..Len(q) /\ j + 1 \in 1..Len(q) /\ i = Len(p) + j /\ i + 1 = Len(p) + (j + 1)
          BY <1>3, <2>1, <3>3, <4>1
        <4>3. u[i] = q[j] /\ u[i + 1] = q[j + 1]
          BY <1>3, <2>1, <4>2
        <4> QED
          BY <1>7, <4>2, <4>3 DEF Way
      <3> QED
        BY <1>3, <3>1, <3>2, <3>3
    <2>5. Way(u, r, f, E)
      BY <1>1, <2>2, <2>3, <2>4 DEF Way
    <2> QED
      BY <1>3, <2>1, <2>5
  <1> QED
    BY <1>6, <1>7

LEMMA MoreWays ==
  ASSUME NEW E, NEW D, E \subseteq D, NEW s, NEW f, NEW p, Way(p, s, f, E)
  PROVE  Way(p, s, f, D)
  <1>1. Sites(E) \subseteq Sites(D)
    BY DEF Sites
  <1>2. p \in Seq(Sites(D))
    BY <1>1 DEF Way
  <1> QED
    BY <1>2 DEF Way

-----------------------------------------------------------------------------
(* What a choice of predecessors is read back as, in the same way.         *)
BackTo(B, k, lev, t) ==
  B = [n \in 0..k |-> [f \in lev[n] |-> IF n = 0 THEN << >> ELSE <<t[f]>> \o B[n - 1][FunctionOf(prog, t[f])]]]

LEMMA BackExists ==
  ASSUME NEW lev, NEW t, NEW k \in Nat
  PROVE  \E B : BackTo(B, k, lev, t)
  <1> DEFINE Bad == {n \in Nat : ~\E B : BackTo(B, n, lev, t)}
  <1>1. SUFFICES ASSUME Bad # {} PROVE FALSE
    OBVIOUS
  <1>2. PICK b \in Bad : \A n \in Bad : b <= n
    BY <1>1, FirstPosition
  <1>3. b # 0
    <2>1. BackTo([n \in 0..0 |-> [f \in lev[n] |-> << >>]], 0, lev, t)
      BY DEF BackTo
    <2> QED
      BY <2>1, <1>2
  <1>4. b - 1 \in Nat /\ b - 1 \notin Bad
    BY <1>2, <1>3
  <1>5. PICK B : BackTo(B, b - 1, lev, t)
    BY <1>4
  <1> DEFINE Row(n) == [f \in lev[n] |-> IF n = 0 THEN << >> ELSE <<t[f]>> \o B[n - 1][FunctionOf(prog, t[f])]]
             M == [n \in 0..b |-> Row(n)]
  <1>6. \A n \in 0..(b - 1) : B[n] = Row(n)
    BY <1>5 DEF BackTo
  <1>7. \A n \in 0..(b - 1) : M[n] = B[n]
    <2>1. \A n \in 0..(b - 1) : n \in 0..b
      BY <1>2
    <2> HIDE DEF Row
    <2>2. \A n \in 0..b : M[n] = Row(n)
      OBVIOUS
    <2> QED
      BY <1>6, <2>1, <2>2
  <1>8. ASSUME NEW n \in 0..b
        PROVE  Row(n) = [f \in lev[n] |-> IF n = 0 THEN << >> ELSE <<t[f]>> \o M[n - 1][FunctionOf(prog, t[f])]]
    <2> HIDE DEF M
    <2>1. n # 0 => n - 1 \in 0..(b - 1)
      BY <1>2
    <2>2. n # 0 => M[n - 1] = B[n - 1]
      BY <1>7, <2>1
    <2> QED
      BY <2>2
  <1>9. BackTo(M, b, lev, t)
    <2>1. M = [n \in 0..b |-> [f \in lev[n] |-> IF n = 0 THEN << >> ELSE <<t[f]>> \o M[n - 1][FunctionOf(prog, t[f])]]]
      <3>1. PICK X : X = M
        OBVIOUS
      <3>2. \A n \in 0..b : Row(n) = [f \in lev[n] |-> IF n = 0 THEN << >> ELSE <<t[f]>> \o X[n - 1][FunctionOf(prog, t[f])]]
        BY <1>8, <3>1
      <3> HIDE DEF Row
      <3>3. X = [n \in 0..b |-> [f \in lev[n] |-> IF n = 0 THEN << >> ELSE <<t[f]>> \o X[n - 1][FunctionOf(prog, t[f])]]]
        BY <3>1, <3>2
      <3> QED
        BY <3>1, <3>3
    <2> QED
      BY <2>1 DEF BackTo
  <1> QED
    BY <1>2, <1>9

Into(f, s, x) ==
  {e \in graph[x] : e[2] = f /\ FunctionOf(prog, e[1]) \in Levels(s, x)[Distance(s, f, x) - 1]
                             /\ Expanded(FunctionOf(prog, e[1]), x)}

LEMMA PathsAre ==
  ASSUME IsFiniteSet(prog.functions), NEW s, NEW x, NEW m \in PathMaps(s, x)
  PROVE  \E t, B :
           /\ \A f \in ReachedIn(s, x) \ {s} : <<t[f], f>> \in Into(f, s, x)
           /\ BackTo(B, Deepest, Levels(s, x), t)
           /\ m = [f \in ReachedIn(s, x) |-> B[Distance(s, f, x)][f]]
  <1>1. Deepest \in Nat /\ DOMAIN Levels(s, x) = 0..Deepest
    BY LevelsAre
  <1>2. PICK L, R : L = Levels(s, x) /\ R = ReachedIn(s, x) /\ R = UNION {L[n] : n \in DOMAIN L}
    BY <1>1 DEF ReachedIn
  <1> DEFINE tree == R \ {s}
             trees == {t \in [tree -> {e[1] : e \in UNION {Into(f, s, x) : f \in tree}}] :
                         \A f \in tree : <<t[f], f>> \in Into(f, s, x)}
             path(t) == [f \in R |-> (CHOOSE B : BackTo(B, Deepest, L, t))[Distance(s, f, x)][f]]
  <1>3. PathMaps(s, x) = {path(t) : t \in trees}
    BY <1>1, <1>2 DEF PathMaps, Into, Distance, BackTo
  <1>4. PICK t \in trees : m = path(t)
    BY <1>3
  <1>5. PICK B : B = CHOOSE X : BackTo(X, Deepest, L, t)
    OBVIOUS
  <1>6. BackTo(B, Deepest, L, t)
    BY <1>1, <1>5, BackExists
  <1>7. m = [f \in R |-> B[Distance(s, f, x)][f]]
    BY <1>4, <1>5
  <1>8. \A f \in R \ {s} : <<t[f], f>> \in Into(f, s, x)
    OBVIOUS
  <1> QED
    BY <1>2, <1>6, <1>7, <1>8

(* A shortest path leads from its source to its target, in as many calls   *)
(* as the target is away.                                                  *)
LEMMA PathsLead ==
  ASSUME IsFiniteSet(prog.functions), NEW s, NEW x, NEW m \in PathMaps(s, x)
  PROVE  /\ DOMAIN m = ReachedIn(s, x)
         /\ \A f \in ReachedIn(s, x) : Way(m[f], s, f, graph[x]) /\ Len(m[f]) = Distance(s, f, x)
  <1>1. Deepest \in Nat /\ DOMAIN Levels(s, x) = 0..Deepest /\ Levels(s, x)[0] = {s}
    BY LevelsAre
  <1>2. PICK t, B :
           /\ \A f \in ReachedIn(s, x) \ {s} : <<t[f], f>> \in Into(f, s, x)
           /\ BackTo(B, Deepest, Levels(s, x), t)
           /\ m = [f \in ReachedIn(s, x) |-> B[Distance(s, f, x)][f]]
    BY PathsAre
  <1>3. PICK L : L = Levels(s, x)
    OBVIOUS
  <1>4. ASSUME NEW n \in 0..Deepest, NEW f \in L[n]
        PROVE  f \in ReachedIn(s, x) /\ Distance(s, f, x) = n
    <2>1. \A k \in 0..Deepest : f \in L[k] => k = n
      BY <1>3, <1>4, LevelsApart
    <2> QED
      BY <1>1, <1>3, <1>4, <2>1 DEF ReachedIn, Distance
  <1>5. ASSUME NEW n \in 0..Deepest, NEW f \in L[n]
        PROVE  B[n][f] = IF n = 0 THEN << >> ELSE <<t[f]>> \o B[n - 1][FunctionOf(prog, t[f])]
    <2>1. B = [k \in 0..Deepest |->
                [g \in L[k] |-> IF k = 0 THEN << >> ELSE <<t[g]>> \o B[k - 1][FunctionOf(prog, t[g])]]]
      BY <1>2, <1>3 DEF BackTo
    <2>2. B[n] = [g \in L[n] |-> IF n = 0 THEN << >> ELSE <<t[g]>> \o B[n - 1][FunctionOf(prog, t[g])]]
      BY <2>1, Zenon
    <2> QED
      BY <2>2
  <1> DEFINE Right(n, f) == Way(B[n][f], s, f, graph[x]) /\ Len(B[n][f]) = n
             Bad == {n \in 0..Deepest : \E f \in L[n] : ~Right(n, f)}
  <1>6. Bad = {}
    <2>1. SUFFICES ASSUME Bad # {} PROVE FALSE
      OBVIOUS
    <2>2. PICK b \in Bad : \A n \in Bad : b <= n
      <3>1. Bad \in SUBSET Nat
        BY <1>1
      <3> HIDE DEF Bad
      <3> QED
        BY <2>1, <3>1, FirstPosition
    <2>3. b \in 0..Deepest
      OBVIOUS
    <2>4. PICK f \in L[b] : ~Right(b, f)
      OBVIOUS
    <2>5. b # 0
      <3>1. ASSUME b = 0 PROVE f = s /\ B[b][f] = << >>
        BY <1>1, <1>3, <1>5, <2>3, <3>1
      <3> QED
        BY <2>4, <3>1, NoCall
    <2>6. b - 1 \in 0..Deepest /\ b - 1 \notin Bad
      BY <1>1, <2>2, <2>3, <2>5
    <2>7. f # s
      <3>1. 0 \in 0..Deepest /\ s \in L[0]
        BY <1>1, <1>3
      <3> QED
        BY <1>4, <2>3, <2>5, <3>1
    <2>8. f \in ReachedIn(s, x) /\ Distance(s, f, x) = b
      BY <1>4, <2>3
    <2>9. PICK g, c : c = t[f] /\ g = FunctionOf(prog, c)
      OBVIOUS
    <2>10. <<c, f>> \in graph[x] /\ g \in L[b - 1]
      BY <1>2, <1>3, <2>7, <2>8, <2>9 DEF Into
    <2>11. Right(b - 1, g)
      BY <2>6, <2>10
    <2>12. PICK p : p = B[b - 1][g]
      OBVIOUS
    <2>13. B[b][f] = <<c>> \o p
      BY <1>5, <2>3, <2>5, <2>9, <2>12
    <2>14. Way(p, s, g, graph[x]) /\ Len(p) = b - 1
      BY <2>11, <2>12
    <2>15. Way(<<c>>, g, f, graph[x]) /\ Len(<<c>>) = 1
      BY <2>9, <2>10, OneCall
    <2>16. Way(<<c>> \o p, s, f, graph[x]) /\ Len(<<c>> \o p) = 1 + (b - 1)
      BY <2>14, <2>15, WaysJoin
    <2>17. Right(b, f)
      BY <1>1, <2>3, <2>13, <2>16
    <2> QED
      BY <2>4, <2>17
  <1>7. ASSUME NEW f \in ReachedIn(s, x)
        PROVE  Way(m[f], s, f, graph[x]) /\ Len(m[f]) = Distance(s, f, x)
    <2>1. PICK n \in 0..Deepest : f \in L[n]
      BY <1>3 DEF ReachedIn
    <2>2. Distance(s, f, x) = n
      BY <1>4, <2>1
    <2>3. Right(n, f)
      BY <1>6, <2>1
    <2> QED
      BY <1>2, <2>2, <2>3
  <1> QED
    BY <1>2, <1>7

-----------------------------------------------------------------------------
(* Entry points are functions, and a region lies in one.                   *)
BoxPlaced(entry, region) ==
  /\ entry \subseteq prog.functions
  /\ \A n \in Elements(region) : FunctionOf(prog, n) = FunctionOf(prog, Head(region))

PlacesInv ==
  /\ at \in Nat \ {0} /\ DOMAIN entryOf \subseteq prog.functions
  /\ \A S \in Boxes : BoxPlaced(sandboxes[S].entry, sandboxes[S].region)

LEMMA PlacesMade ==
  ASSUME SandboxesType, PlacesInv, UNCHANGED <<prog, at, entryOf>>,
         NEW n, NEW entry, NEW region, NEW persistent, NEW overhead, NEW clear,
         Make(n, entry, region, persistent, overhead, clear), BoxPlaced(entry, region)
  PROVE  PlacesInv'
  <1>1. PICK r : /\ sandboxes' = Append(sandboxes, r) /\ r.region = region /\ r.entry = entry
    BY DEF Make
  <1>2. PICK T : T = Elements(sandboxes)
    OBVIOUS
  <1>3. sandboxes \in Seq(T)
    BY <1>2 DEF SandboxesType
  <1>4. /\ Len(sandboxes) \in Nat /\ DOMAIN sandboxes = 1..Len(sandboxes)
        /\ DOMAIN Append(sandboxes, r) = 1..(Len(sandboxes) + 1)
        /\ Append(sandboxes, r)[Len(sandboxes) + 1] = r
        /\ \A S \in 1..Len(sandboxes) : Append(sandboxes, r)[S] = sandboxes[S]
    BY <1>3
  <1>5. Boxes' = Boxes \cup {Len(sandboxes) + 1}
    BY <1>1, <1>4 DEF Boxes
  <1>6. \A S \in Boxes' : sandboxes'[S] = r \/ (S \in Boxes /\ sandboxes'[S] = sandboxes[S])
    BY <1>1, <1>4, <1>5 DEF Boxes
  <1>7. \A f, g : BoxPlaced(f, g)' <=> BoxPlaced(f, g)
    BY DEF BoxPlaced, FunctionOf, BlockOf, Blocks
  <1>8. ASSUME NEW S \in Boxes' PROVE BoxPlaced(sandboxes'[S].entry, sandboxes'[S].region)
    BY <1>1, <1>6 DEF PlacesInv
  <1>9. ASSUME NEW S \in Boxes' PROVE BoxPlaced(sandboxes[S].entry, sandboxes[S].region)'
    <2>1. PICK f, g : f = sandboxes'[S].entry /\ g = sandboxes'[S].region
      OBVIOUS
    <2>2. BoxPlaced(f, g)'
      BY <1>7, <1>8, <2>1
    <2> QED
      BY <2>1, <2>2 DEF BoxPlaced
  <1> QED
    BY <1>9 DEF PlacesInv

LEMMA BoxesPlaced ==
  ASSUME PlacesInv, UNCHANGED prog, Boxes' = Boxes, \A S \in Boxes : SameBox(S)
  PROVE  \A S \in Boxes' : BoxPlaced(sandboxes[S].entry, sandboxes[S].region)'
  <1>1. SUFFICES ASSUME NEW S \in Boxes' PROVE BoxPlaced(sandboxes[S].entry, sandboxes[S].region)'
    OBVIOUS
  <1>2. PICK f, g : f = sandboxes[S].entry /\ g = sandboxes[S].region /\ BoxPlaced(f, g)
    BY DEF PlacesInv
  <1>3. f = sandboxes'[S].entry /\ g = sandboxes'[S].region
    BY <1>2 DEF SameBox
  <1>4. BoxPlaced(f, g)' <=> BoxPlaced(f, g)
    BY DEF BoxPlaced, FunctionOf, BlockOf, Blocks
  <1> QED
    BY <1>2, <1>3, <1>4 DEF BoxPlaced

LEMMA PlacesKept ==
  ASSUME PlacesInv, UNCHANGED <<prog, at, entryOf>>, Boxes' = Boxes, \A S \in Boxes : SameBox(S)
  PROVE  PlacesInv'
  BY BoxesPlaced DEF PlacesInv

LEMMA PlacesStep ==
  ASSUME BitsInv, RegionsInv, PlacesInv, [CNext]_cvars
  PROVE  PlacesInv'
  <1> USE DEF findVars, annotVars, initVars
  <1>0. prog \in Programs /\ SandboxesType
    BY DEF BitsInv, TurnsInv, NamesInv
  <1>00. BoxPlaced({}, << >>)
    BY DEF BoxPlaced, Elements
  <1>1. CASE UNCHANGED <<prog, at, entryOf, sandboxes>>
    BY <1>1, PlacesKept DEF Boxes, SameBox
  <1>2. CASE UNCHANGED cvars \/ (CNext /\ ~FindStep)
    BY <1>1, <1>2, OtherSteps DEF cvars, vars
  <1>3. CASE EntryAnnotation
    <2>1. /\ phase = "annotations" /\ at <= Len(prog.annots) /\ at' = at + 1
          /\ prog.annots[at].kind \in {"persistent", "ephemeral"}
          /\ DOMAIN entryOf' \subseteq DOMAIN entryOf \cup {prog.annots[at].on}
          /\ UNCHANGED <<prog, sandboxes>>
      BY <1>3 DEF EntryAnnotation, ReadAnnotation, With
    <2>2. at \in DOMAIN prog.annots
      <3>1. prog.annots \in Seq(Elements(prog.annots))
        BY <1>0, ReportsAssumption
      <3> QED
        BY <2>1, <3>1 DEF PlacesInv
    <2>3. prog.annots[at] \in Annots(prog, "persistent") \cup Annots(prog, "ephemeral")
      BY <2>1, <2>2 DEF Annots
    <2>4. prog.annots[at].on \in prog.functions
      BY <1>0, <2>3, ReportsAssumption
    <2>5. Boxes' = Boxes /\ \A S \in Boxes : SameBox(S)
      BY <2>1 DEF Boxes, SameBox
    <2>6. \A S \in Boxes' : BoxPlaced(sandboxes[S].entry, sandboxes[S].region)'
      BY <2>1, <2>5, BoxesPlaced
    <2> QED
      BY <2>1, <2>4, <2>5, <2>6 DEF PlacesInv
  <1>4. CASE RightsAnnotation \/ OtherAnnotation
    <2>1. at' = at + 1 /\ UNCHANGED <<prog, entryOf, sandboxes>>
      BY <1>4 DEF RightsAnnotation, OtherAnnotation, ReadAnnotation
    <2>5. Boxes' = Boxes /\ \A S \in Boxes : SameBox(S)
      BY <2>1 DEF Boxes, SameBox
    <2>6. \A S \in Boxes' : BoxPlaced(sandboxes[S].entry, sandboxes[S].region)'
      BY <2>1, <2>5, BoxesPlaced
    <2> QED
      BY <2>1, <2>5, <2>6 DEF PlacesInv
  <1>5. CASE EndAnnotations \/ EndFunctions \/ StartRegion \/ WalkSuccessor \/ WalkReturn \/ EndRegions
             \/ SetUp \/ EndPointers
    BY <1>1, <1>5 DEF EndAnnotations, EndFunctions, StartRegion, WalkSuccessor, WalkReturn, Walking,
                      EndRegions, SetUp, EndPointers
  <1>6. CASE MakeFunctionSandbox
    <2>1. PICK n, entry, persistent, o, c :
            Make(n, entry, << >>, persistent, o, c) /\ entry \subseteq DOMAIN entryOf
      BY <1>6 DEF MakeFunctionSandbox
    <2>2. BoxPlaced(entry, << >>)
      BY <1>00, <2>1 DEF PlacesInv, BoxPlaced
    <2>3. UNCHANGED <<prog, at, entryOf>>
      BY <1>6 DEF MakeFunctionSandbox
    <2> QED
      BY <1>0, <2>1, <2>2, <2>3, PlacesMade
  <1>7. CASE EndRegion
    <2>1. PICK name, insts : name = prog.note[walk.start].box /\ insts = walk.insts
      OBVIOUS
    <2>2. Make(name, {}, insts, FALSE, 0, {}) /\ walk # NoWalk /\ UNCHANGED <<prog, at, entryOf>>
      BY <1>7, <2>1 DEF EndRegion, Walking
    <2>3. Visits(prog, walk)
      BY <2>2 DEF RegionsInv, WalkRight
    <2>4. Elements(insts) \subseteq InstrsOf(prog, FunctionOf(prog, walk.start)) /\ walk.start \in Notes(prog, "start")
      BY <1>0, <2>1, <2>3, InsideOf DEF Visits
    <2>5. Head(insts) = walk.start
      <3>1. insts \in Seq(Instrs(prog)) /\ insts # << >> /\ insts[1] = walk.start
        BY <2>1, <2>3 DEF Visits
      <3> QED
        BY <3>1
    <2>6. BoxPlaced({}, insts)
      BY <2>4, <2>5 DEF BoxPlaced, InstrsOf
    <2> QED
      BY <1>0, <2>2, <2>6, PlacesMade
  <1>8. CASE MakeReferenced
    <2>1. UNCHANGED <<prog, at, entryOf>>
      BY <1>8 DEF MakeReferenced
    <2>2. PICK n : Make(n, {}, << >>, TRUE, 0, {}) \/ UNCHANGED sandboxes
      BY <1>8 DEF MakeReferenced
    <2> QED
      BY <1>0, <1>00, <1>1, <2>1, <2>2, PlacesMade
  <1>9. CASE ReinitSandboxes \/ AddTarget
    <2>1. UNCHANGED <<prog, at, entryOf>> /\ \E g, xs : Reinit(g, xs)
      BY <1>9 DEF ReinitSandboxes, AddTarget
    <2>2. Boxes' = Boxes /\ \A S \in Boxes : SameBox(S)
      BY <2>1, ReinitBoxes DEF BitsInv
    <2> QED
      BY <2>1, <2>2, PlacesKept
  <1> QED
    BY <1>2, <1>3, <1>4, <1>5, <1>6, <1>7, <1>8, <1>9 DEF FindStep, Find

-----------------------------------------------------------------------------
(* What runs in a context is reached from where its paths start.           *)
Known ==
  /\ Found /\ prog \in Programs /\ None \notin toMake
  /\ BitsInv /\ Current /\ EdgesInv /\ PlacesInv

LEMMA LeastReached ==
  ASSUME IsFiniteSet(prog.functions), NEW x, \A e \in graph[x] : e[2] \in prog.functions,
         NEW from \in SUBSET prog.functions, NEW start \in SUBSET from,
         NEW succ \in [prog.functions -> SUBSET prog.functions],
         \A s \in start : Expanded(s, x),
         \A f \in prog.functions : \A h \in succ[f] : Expanded(h, x) /\ \E e \in EdgesFrom(f, x) : e[2] = h
  PROVE  \A f \in ReachedFrom(start, succ) : \E s \in from : f \in ReachedIn(s, x)
  <1>1. PICK C : C = {f \in prog.functions : Expanded(f, x) /\ \E s \in from : f \in ReachedIn(s, x)}
    OBVIOUS
  <1>2. start \subseteq C
    BY <1>1, ReachedCloses
  <1>3. ASSUME NEW f \in C, NEW h \in succ[f] PROVE h \in C
    <2>1. f \in prog.functions /\ Expanded(f, x)
      BY <1>1
    <2>2. PICK s \in from : f \in ReachedIn(s, x)
      BY <1>1
    <2>3. PICK e \in EdgesFrom(f, x) : e[2] = h
      BY <2>1
    <2>4. h \in ReachedIn(s, x)
      BY <2>1, <2>2, <2>3, ReachedCloses
    <2>5. h \in prog.functions /\ Expanded(h, x)
      BY <2>1
    <2> QED
      BY <1>1, <2>4, <2>5
  <1>4. C \in SUBSET prog.functions /\ ClosedIn(C, succ)
    BY <1>1, <1>3 DEF ClosedIn
  <1>5. ReachedFrom(start, succ) = Least(start, succ)
    <2>1. start \in SUBSET prog.functions
      OBVIOUS
    <2> QED
      BY <2>1, ReachedIsLeast
  <1>6. Least(start, succ) \subseteq C
    BY <1>2, <1>4 DEF Least
  <1> QED
    BY <1>1, <1>5, <1>6

LEMMA EdgesKnown ==
  ASSUME Known, NEW x \in Boxes \cup {Priv}
  PROVE  /\ IsFiniteSet(prog.functions)
         /\ graph[x] \subseteq (DOMAIN prog.call) \X prog.functions
         /\ \A e \in graph[x] : e[1] \in Instrs(prog) /\ e[2] \in prog.functions /\ e = <<e[1], e[2]>>
         /\ \A c : Callees(graph, x, c) \subseteq prog.functions
         /\ \A f : CalleesOfFunction(graph, x, f) \subseteq prog.functions
         /\ \A f : \A h \in CalleesOfFunction(graph, x, f) : \E e \in EdgesFrom(f, x) : e[2] = h
  <1>1. IsFiniteSet(prog.functions) /\ DOMAIN prog.call \subseteq Instrs(prog)
    BY ProgramsAssumption DEF Known
  <1>2. graph[x] \subseteq (DOMAIN prog.call) \X prog.functions
    BY DEF Known, EdgesInv, Current
  <1>3. \A e \in graph[x] : e[1] \in Instrs(prog) /\ e[2] \in prog.functions /\ e = <<e[1], e[2]>>
    BY <1>1, <1>2
  <1>4. \A c : Callees(graph, x, c) \subseteq prog.functions
    BY <1>3 DEF Callees
  <1>5. \A f : CalleesOfFunction(graph, x, f) \subseteq prog.functions
    BY <1>4 DEF CalleesOfFunction
  <1>6. ASSUME NEW f, NEW h \in CalleesOfFunction(graph, x, f) PROVE \E e \in EdgesFrom(f, x) : e[2] = h
    <2>1. PICK c \in CallsIn(prog, InstrsOf(prog, f)) : h \in Callees(graph, x, c)
      BY DEF CalleesOfFunction
    <2>2. FunctionOf(prog, c) = f
      BY <2>1 DEF CallsIn, InstrsOf
    <2> QED
      BY <2>1, <2>2 DEF Callees, EdgesFrom
  <1> QED
    BY <1>1, <1>2, <1>3, <1>4, <1>5, <1>6

LEMMA PrivilegedReached ==
  ASSUME Known, NEW f \in privileged
  PROVE  f \in ReachedIn("main", Priv)
  <1>1. PICK succ : succ = [g \in prog.functions |-> CalleesOfFunction(graph, Priv, g) \ entryPoints]
    OBVIOUS
  <1>2. privileged = ReachedFrom(StartOf(Priv) \ entryPoints, succ)
    BY <1>1 DEF Known, Current, PrivilegedMethods
  <1>3. StartOf(Priv) = {"main"} \cap prog.functions
    BY DEF StartOf
  <1>4. succ \in [prog.functions -> SUBSET prog.functions]
    BY <1>1, EdgesKnown
  <1>5. ASSUME NEW g \in prog.functions, NEW h \in succ[g]
        PROVE  Expanded(h, Priv) /\ \E e \in EdgesFrom(g, Priv) : e[2] = h
    <2>1. h \in CalleesOfFunction(graph, Priv, g) /\ h \notin entryPoints
      BY <1>1
    <2> QED
      BY <2>1, EdgesKnown DEF Expanded
  <1>6. PICK start : start = StartOf(Priv) \ entryPoints
    OBVIOUS
  <1>7. /\ start \subseteq {"main"} \cap prog.functions
        /\ \A s \in start : Expanded(s, Priv)
    BY <1>3, <1>6 DEF Expanded
  <1>8. IsFiniteSet(prog.functions) /\ \A e \in graph[Priv] : e[2] \in prog.functions
    BY EdgesKnown
  <1>9. \E s \in {"main"} \cap prog.functions : f \in ReachedIn(s, Priv)
    <2>1. PICK from : from = {"main"} \cap prog.functions
      OBVIOUS
    <2>2. from \in SUBSET prog.functions /\ start \in SUBSET from
      BY <1>7, <2>1
    <2>3. f \in ReachedFrom(start, succ)
      BY <1>2, <1>6
    <2> QED
      BY <1>4, <1>5, <1>7, <1>8, <2>1, <2>2, <2>3, LeastReached
  <1> QED
    BY <1>9

LEMMA SandboxedReached ==
  ASSUME Known, NEW S \in Boxes, NEW f \in info[S].functions, \A s \in Sources(S) : Expanded(s, S)
  PROVE  \E s \in Sources(S) : f \in ReachedIn(s, S)
  <1>0. S # Priv /\ S \in Boxes \cup {Priv}
    BY DEF Known, BitsInv, NamesInv, SandboxesType, Boxes, Priv
  <1>1. PICK succ : succ = [g \in prog.functions |-> {h \in CalleesOfFunction(graph, S, g) : ~Foreign(S, h)}]
    OBVIOUS
  <1>2. PICK start : start = IF IsRegion(S) THEN (UNION {Callees(graph, S, c) : c \in TopCalls(S)}) \ prog.decl
                             ELSE sandboxes[S].entry
    OBVIOUS
  <1>3. f \in ReachedFrom(start, succ)
    <2>1. info[S] = InitSandbox(graph, S, Blank)
      BY DEF Known, Current
    <2>2. info[S].functions = {} \cup FindSandboxedFunctions(graph, S)
      BY <2>1 DEF InitSandbox, Blank
    <2> QED
      BY <1>1, <1>2, <2>2 DEF FindSandboxedFunctions
  <1>4. succ \in [prog.functions -> SUBSET prog.functions]
    BY <1>0, <1>1, EdgesKnown
  <1>5. ASSUME NEW g \in prog.functions, NEW h \in succ[g]
        PROVE  Expanded(h, S) /\ \E e \in EdgesFrom(g, S) : e[2] = h
    <2>1. h \in CalleesOfFunction(graph, S, g) /\ ~Foreign(S, h)
      BY <1>1
    <2> QED
      BY <1>0, <2>1, EdgesKnown DEF Expanded, Foreign
  <1>6. Sources(S) \subseteq prog.functions
    <2>1. CASE IsRegion(S)
      BY <1>0, <2>1, EdgesKnown DEF Sources
    <2>2. CASE ~IsRegion(S)
      BY <1>0, <2>2 DEF Sources, Known, PlacesInv, BoxPlaced
    <2> QED
      BY <2>1, <2>2
  <1>7. start \in SUBSET Sources(S) /\ Sources(S) \in SUBSET prog.functions
    BY <1>0, <1>2, <1>6 DEF Sources
  <1>8. IsFiniteSet(prog.functions) /\ \A e \in graph[S] : e[2] \in prog.functions
    BY <1>0, EdgesKnown
  <1>9. \A s \in start : Expanded(s, S)
    BY <1>7
  <1> QED
    BY <1>3, <1>4, <1>5, <1>7, <1>8, <1>9, LeastReached

-----------------------------------------------------------------------------
(***************************************************************************)
(* The traces.  What is cached for a source are shortest paths in a        *)
(* context that starts paths there; reading a trace off has only added     *)
(* entries at the entry points of function-level sandboxes.                *)
(***************************************************************************)
Home(s, x) == IF s = "main" THEN x = Priv ELSE x \in Boxes /\ s \in Sources(x)

Holds(paths, m, s) ==
  /\ DOMAIN m \subseteq DOMAIN paths
  /\ \A t \in DOMAIN m : paths[t] = m[t]
  /\ s # "main" /\ DOMAIN paths # DOMAIN m => \E T \in Boxes : s \in sandboxes[T].entry

CacheRight ==
  \A s \in DOMAIN cache : \E x \in Boxes \cup {Priv} :
    Home(s, x) /\ \E m \in PathMaps(s, x) : Holds(cache[s], m, s)

LEMMA MainPaths ==
  ASSUME Known, CacheRight, "main" \in DOMAIN cache, NEW f \in ReachedIn("main", Priv)
  PROVE  /\ Way(PathIn("main", f), "main", f, graph[Priv])
         /\ Len(PathIn("main", f)) = Distance("main", f, Priv)
  <1>1. PICK x, m : x = Priv /\ m \in PathMaps("main", x) /\ Holds(cache["main"], m, "main")
    BY DEF CacheRight, Home
  <1>2. IsFiniteSet(prog.functions)
    BY ProgramsAssumption DEF Known
  <1>3. /\ f \in DOMAIN m
        /\ Way(m[f], "main", f, graph[Priv]) /\ Len(m[f]) = Distance("main", f, Priv)
    BY <1>1, <1>2, PathsLead
  <1>4. PathIn("main", f) = m[f]
    BY <1>1, <1>3 DEF Holds, PathIn
  <1> QED
    BY <1>3, <1>4

LEMMA OnlySource ==
  ASSUME Known, NEW S \in Boxes, Unambiguous(S), NEW s \in Sources(S)
  PROVE  s # "main" /\ \A T \in Boxes : s \in Sources(T) => T = S
  <1>1. S # Priv /\ IsFiniteSet(Boxes \cup {Priv})
    <2>1. sandboxes \in Seq(Elements(sandboxes))
      BY DEF Known, BitsInv, NamesInv, SandboxesType
    <2>2. Boxes = 1..Len(sandboxes) /\ Len(sandboxes) \in Nat
      BY <2>1 DEF Boxes
    <2>3. IsFiniteSet(Boxes)
      BY <2>2, FS_Interval
    <2> QED
      BY <2>2, <2>3, FS_AddElement DEF Priv
  <1>2. IsFiniteSet(SourceOf(s)) /\ Cardinality(SourceOf(s)) = 1
    <2>1. SourceOf(s) \subseteq Boxes \cup {Priv}
      BY DEF SourceOf
    <2> QED
      BY <1>1, <2>1, FS_Subset DEF Unambiguous
  <1>3. PICK o : SourceOf(s) = {o}
    BY <1>2, FS_Singleton
  <1>4. S \in SourceOf(s) /\ (s = "main" => Priv \in SourceOf(s))
        /\ \A T \in Boxes : s \in Sources(T) => T \in SourceOf(s)
    BY DEF SourceOf
  <1> QED
    BY <1>1, <1>3, <1>4

LEMMA OwnPaths ==
  ASSUME Known, CacheRight, NEW S \in Boxes, Unambiguous(S), NEW s \in Sources(S), s \in DOMAIN cache
  PROVE  /\ ReachedIn(s, S) \subseteq DOMAIN cache[s]
         /\ IsRegion(S) => DOMAIN cache[s] = ReachedIn(s, S)
         /\ \A f \in ReachedIn(s, S) :
              Way(cache[s][f], s, f, graph[S]) /\ Len(cache[s][f]) = Distance(s, f, S)
  <1>1. s # "main" /\ \A T \in Boxes : s \in Sources(T) => T = S
    BY OnlySource
  <1>2. PICK x, m : Home(s, x) /\ m \in PathMaps(s, x) /\ Holds(cache[s], m, s)
    BY DEF CacheRight
  <1>3. x = S
    BY <1>1, <1>2 DEF Home
  <1>4. IsFiniteSet(prog.functions)
    BY ProgramsAssumption DEF Known
  <1>5. /\ DOMAIN m = ReachedIn(s, S)
        /\ \A f \in ReachedIn(s, S) : Way(m[f], s, f, graph[S]) /\ Len(m[f]) = Distance(s, f, S)
    BY <1>2, <1>3, <1>4, PathsLead
  <1>6. IsRegion(S) => DOMAIN cache[s] = DOMAIN m
    <2>1. SUFFICES ASSUME IsRegion(S), DOMAIN cache[s] # DOMAIN m PROVE FALSE
      OBVIOUS
    <2>2. PICK T \in Boxes : s \in sandboxes[T].entry
      BY <1>1, <1>2, <2>1 DEF Holds
    <2>3. T # Priv /\ ~IsRegion(T)
      BY <2>2 DEF IsRegion, Known, BitsInv, NamesInv, SandboxesType, Boxes, Priv
    <2>4. T = S
      BY <1>1, <2>2, <2>3 DEF Sources
    <2> QED
      BY <2>1, <2>3, <2>4
  <1> QED
    BY <1>2, <1>5, <1>6 DEF Holds

LEMMA ChainOf ==
  ASSUME NEW x, NEW f, NEW calls, Way(calls, "main", f, graph[x] \cup graph[Priv])
  PROVE  ChainTo(calls, f, x)
  BY DEF Way, ChainTo

(* What is said of a trace.                                                *)
Leads(t) ==
  t.fun \in Member(t.box) /\ (t.box # Priv => Unambiguous(t.box)) =>
    /\ ChainTo(t.calls, t.fun, t.box)
    /\ t.box = Priv => Len(t.calls) = Distance("main", t.fun, Priv)
    /\ t.box # Priv /\ ~IsRegion(t.box) =>
         Len(t.calls) = Distance("main", Origin(t.box), Priv) + Distance(Origin(t.box), t.fun, t.box)

AskingRight ==
  asking # None =>
    /\ asking = [fun |-> asking.fun, box |-> asking.box, left |-> asking.left, last |-> asking.last]
    /\ asking.box \in Boxes \cup {Priv}
    /\ asking.left \subseteq Sources(asking.box) \cup {"main"}
    /\ (Sources(asking.box) \cup {"main"}) \ asking.left \subseteq DOMAIN cache
    /\ LET done == Sources(asking.box) \ (asking.left \cup {"main"})
       IN done # {} => asking.last \in done

(* Looked up are all that paths start from.                                *)
LookedUp(q) ==
  /\ q.box \in Boxes \cup {Priv} /\ Sources(q.box) \cup {"main"} \subseteq DOMAIN cache
  /\ Sources(q.box) \ {"main"} # {} => q.last \in Sources(q.box) \ {"main"}

Trace(q, calls) == [fun |-> q.fun, box |-> q.box, calls |-> calls]

LEMMA PrivilegedTraced ==
  ASSUME Known, CacheRight, NEW q, LookedUp(q), q.box = Priv, NEW calls \in TraceOf(q)
  PROVE  Leads(Trace(q, calls))
  <1>1. Trace(q, calls).fun = q.fun /\ Trace(q, calls).box = Priv /\ Trace(q, calls).calls = calls
    BY DEF Trace
  <1>2. SUFFICES ASSUME q.fun \in privileged
                 PROVE  ChainTo(calls, q.fun, Priv) /\ Len(calls) = Distance("main", q.fun, Priv)
    BY <1>1 DEF Leads, Member
  <1>3. q.fun \in ReachedIn("main", Priv)
    BY <1>2, PrivilegedReached
  <1>4. calls = PathIn("main", q.fun)
    BY DEF TraceOf
  <1>5. "main" \in DOMAIN cache
    BY DEF LookedUp
  <1>6. Way(calls, "main", q.fun, graph[Priv]) /\ Len(calls) = Distance("main", q.fun, Priv)
    BY <1>3, <1>4, <1>5, MainPaths
  <1>7. Way(calls, "main", q.fun, graph[Priv] \cup graph[Priv])
    BY <1>6, MoreWays
  <1> QED
    BY <1>6, <1>7, ChainOf

(* main() leads to where an unambiguous context starts.                    *)
LEMMA OriginReached ==
  ASSUME Known, NEW S \in Boxes, Unambiguous(S)
  PROVE  Origin(S) \in ReachedIn("main", Priv)
  <1>1. IsFiniteSet(prog.functions)
    BY ProgramsAssumption DEF Known
  <1>2. DOMAIN Levels("main", Priv) = 0..Deepest
    BY <1>1, LevelsAre
  <1> QED
    BY <1>2 DEF Unambiguous, ReachedIn

LEMMA FunctionTraced ==
  ASSUME Known, CacheRight, NEW q, LookedUp(q), q.box # Priv, ~IsRegion(q.box), NEW calls \in TraceOf(q)
  PROVE  Leads(Trace(q, calls))
  <1>1. PICK S, f : S = q.box /\ f = q.fun
    OBVIOUS
  <1>2. Trace(q, calls).fun = f /\ Trace(q, calls).box = S /\ Trace(q, calls).calls = calls
    BY <1>1 DEF Trace
  <1>3. S \in Boxes /\ S # Priv /\ ~IsRegion(S)
    BY <1>1 DEF LookedUp
  <1>4. SUFFICES ASSUME f \in info[S].functions, Unambiguous(S)
                 PROVE  /\ ChainTo(calls, f, S)
                        /\ Len(calls) = Distance("main", Origin(S), Priv) + Distance(Origin(S), f, S)
    BY <1>2, <1>3 DEF Leads, Member
  <1>5. PICK o : sandboxes[S].entry = {o}
    <2>1. sandboxes[S].entry \subseteq prog.functions /\ IsFiniteSet(prog.functions)
      BY <1>3, ProgramsAssumption DEF Known, PlacesInv, BoxPlaced
    <2>2. IsFiniteSet(sandboxes[S].entry) /\ sandboxes[S].entry # {} /\ Cardinality(sandboxes[S].entry) <= 1
      BY <1>3, <1>4, <2>1, FS_Subset DEF IsRegion, Unambiguous
    <2>3. Cardinality(sandboxes[S].entry) = 1
      BY <2>2, FS_EmptySet, FS_CardinalityType
    <2> QED
      BY <2>2, <2>3, FS_Singleton
  <1>6. Sources(S) = {o} /\ Origin(S) = o
    BY <1>3, <1>5 DEF Sources, Origin
  <1>7. o # "main" /\ q.last = o /\ o \in DOMAIN cache /\ "main" \in DOMAIN cache
    <2>1. o # "main"
      BY <1>3, <1>4, <1>6, OnlySource
    <2> QED
      BY <1>1, <1>6, <2>1 DEF LookedUp
  <1>8. f \in ReachedIn(o, S)
    BY <1>3, <1>4, <1>6, SandboxedReached DEF Unambiguous
  <1>9. PICK p, r : p = PathIn(o, f) /\ r = PathIn("main", o)
    OBVIOUS
  <1>10. calls = p \o r
    BY <1>1, <1>3, <1>7, <1>9 DEF TraceOf
  <1>11. Way(p, o, f, graph[S]) /\ Len(p) = Distance(o, f, S)
    BY <1>3, <1>4, <1>6, <1>7, <1>8, <1>9, OwnPaths DEF PathIn
  <1>12. Way(r, "main", o, graph[Priv]) /\ Len(r) = Distance("main", o, Priv)
    BY <1>3, <1>4, <1>6, <1>7, <1>9, OriginReached, MainPaths
  <1>13. PICK E : E = graph[S] \cup graph[Priv]
    OBVIOUS
  <1>14. Way(p, o, f, E) /\ Way(r, "main", o, E)
    BY <1>11, <1>12, <1>13, MoreWays
  <1>15. Way(calls, "main", f, E) /\ Len(calls) = Len(p) + Len(r) /\ Len(p) \in Nat /\ Len(r) \in Nat
    BY <1>10, <1>14, WaysJoin
  <1>16. ChainTo(calls, f, S)
    BY <1>13, <1>15, ChainOf
  <1> QED
    BY <1>6, <1>11, <1>12, <1>15, <1>16

LEMMA RegionTraced ==
  ASSUME Known, CacheRight, NEW q, LookedUp(q), q.box # Priv, IsRegion(q.box), NEW calls \in TraceOf(q)
  PROVE  Leads(Trace(q, calls))
  <1>1. PICK S, f : S = q.box /\ f = q.fun
    OBVIOUS
  <1>2. Trace(q, calls).fun = f /\ Trace(q, calls).box = S /\ Trace(q, calls).calls = calls
    BY <1>1 DEF Trace
  <1>3. S \in Boxes /\ S # Priv /\ IsRegion(S)
    BY <1>1 DEF LookedUp
  <1>4. SUFFICES ASSUME f \in info[S].functions, Unambiguous(S) PROVE ChainTo(calls, f, S)
    BY <1>2, <1>3 DEF Leads, Member
  <1>5. \A s \in Sources(S) : s \in DOMAIN cache /\ Expanded(s, S)
    BY <1>1, <1>4 DEF LookedUp, Unambiguous
  <1>6. PICK E : E = Candidates(S, f)
    OBVIOUS
  <1>7. ASSUME NEW e \in graph[S], e[1] \in TopCalls(S) PROVE e[2] \in Sources(S)
    BY <1>3, <1>7 DEF Sources, Callees
  <1>8. ASSUME NEW e \in E
        PROVE  /\ e \in graph[S] /\ e[1] \in TopCalls(S) /\ e[2] \in Sources(S)
               /\ f \in ReachedIn(e[2], S) /\ Way(cache[e[2]][f], e[2], f, graph[S])
               /\ Len(cache[e[2]][f]) \in Nat
    <2>1. e \in graph[S] /\ e[1] \in TopCalls(S) /\ f \in DOMAIN cache[e[2]]
      BY <1>6 DEF Candidates
    <2>2. e[2] \in Sources(S)
      BY <1>7, <2>1
    <2>3. f \in ReachedIn(e[2], S) /\ Way(cache[e[2]][f], e[2], f, graph[S])
      BY <1>3, <1>4, <1>5, <2>1, <2>2, OwnPaths
    <2>4. Len(cache[e[2]][f]) \in Nat
      BY <2>3 DEF Way
    <2> QED
      BY <2>1, <2>2, <2>3, <2>4
  <1>9. E # {}
    <2>1. PICK s \in Sources(S) : f \in ReachedIn(s, S)
      BY <1>3, <1>4, <1>5, SandboxedReached
    <2>2. f \in DOMAIN cache[s]
      BY <1>3, <1>4, <1>5, <2>1, OwnPaths
    <2>3. PICK e \in graph[S] : e[1] \in TopCalls(S) /\ e[2] = s
      BY <1>3 DEF Sources, Callees
    <2> QED
      BY <1>6, <2>2, <2>3 DEF Candidates
  <1>10. Shortest(E, f) # {}
    <2>1. PICK lens : lens = {Len(cache[e[2]][f]) : e \in E}
      OBVIOUS
    <2>2. lens \in SUBSET Nat /\ lens # {}
      BY <1>8, <1>9, <2>1
    <2>3. PICK l \in lens : \A k \in lens : l <= k
      BY <2>2, FirstPosition
    <2>4. PICK e \in E : l = Len(cache[e[2]][f])
      BY <2>1
    <2>5. \A d \in E : Len(cache[d[2]][f]) \in lens
      BY <2>1
    <2>6. e \in Shortest(E, f)
      BY <2>3, <2>4, <2>5 DEF Shortest
    <2> QED
      BY <2>6
  <1>11. PICK r : r = PathIn("main", Enclosing(S))
    OBVIOUS
  <1>12. PICK e \in Shortest(E, f) : calls = cache[e[2]][f] \o <<e[1]>> \o r
    BY <1>1, <1>3, <1>6, <1>10, <1>11 DEF TraceOf
  <1>13. e \in E
    BY <1>12 DEF Shortest
  <1>14. PICK p, c, s : p = cache[e[2]][f] /\ c = e[1] /\ s = e[2]
    OBVIOUS
  <1>15. Way(p, s, f, graph[S]) /\ c \in TopCalls(S) /\ <<c, s>> \in graph[S]
    <2>1. e = <<e[1], e[2]>>
      BY <1>3, <1>8, <1>13, EdgesKnown
    <2> QED
      BY <1>8, <1>13, <1>14, <2>1
  <1>16. FunctionOf(prog, c) = Enclosing(S)
    <2>1. c \in RegionSet(S)
      BY <1>15 DEF TopCalls, CallsIn
    <2> QED
      BY <1>3, <2>1 DEF Known, PlacesInv, BoxPlaced, RegionSet, Enclosing
  <1>17. Way(r, "main", Enclosing(S), graph[Priv])
    <2>1. Enclosing(S) \in ReachedIn("main", Priv)
      BY <1>3, <1>4, OriginReached DEF Origin
    <2>2. "main" \in DOMAIN cache
      BY DEF LookedUp
    <2> QED
      BY <1>11, <2>1, <2>2, MainPaths
  <1>18. PICK D : D = graph[S] \cup graph[Priv]
    OBVIOUS
  <1>19. Way(p, s, f, D) /\ Way(r, "main", Enclosing(S), D) /\ <<c, s>> \in D
    BY <1>15, <1>17, <1>18, MoreWays
  <1>20. Way(<<c>>, Enclosing(S), s, D)
    BY <1>16, <1>19, OneCall
  <1>21. Way(p \o <<c>>, Enclosing(S), f, D)
    BY <1>19, <1>20, WaysJoin
  <1>22. Way(p \o <<c>> \o r, "main", f, D)
    BY <1>19, <1>21, WaysJoin
  <1> QED
    BY <1>12, <1>14, <1>18, <1>22, ChainOf

-----------------------------------------------------------------------------
(* Nothing that traces are made of changes once they are asked for.        *)
LEMMA PathsSame ==
  ASSUME UNCHANGED <<prog, findVars, initVars>>
  PROVE  /\ Boxes' = Boxes /\ \A x : Sources(x)' = Sources(x)
         /\ \A s, x : PathMaps(s, x)' = PathMaps(s, x)
         /\ \A s, x : Home(s, x)' <=> Home(s, x)
         /\ \A t : Leads(t)' <=> Leads(t)
  <1> USE DEF findVars, annotVars, initVars
  <1>1. Boxes' = Boxes
    BY DEF Boxes
  <1>2. \A x : TopCalls(x)' = TopCalls(x) /\ (IsRegion(x)' <=> IsRegion(x))
    BY DEF TopCalls, IsRegion, CallsIn, RegionSet
  <1>3. \A x : Sources(x)' = Sources(x)
    BY DEF Sources, Callees, TopCalls, IsRegion, CallsIn, RegionSet
  <1>4. \A n : FunctionOf(prog, n)' = FunctionOf(prog, n)
    BY DEF FunctionOf, BlockOf, Blocks
  <1>5. \A f, x : EdgesFrom(f, x)' = EdgesFrom(f, x)
    BY <1>4 DEF EdgesFrom
  <1>6. \A f, x : Expanded(f, x)' <=> Expanded(f, x)
    BY DEF Expanded
  <1>7. \A F, x : StepFrom(F, x)' = StepFrom(F, x)
    BY <1>5, <1>6 DEF StepFrom
  <1>8. \A s, x : Levels(s, x)' = Levels(s, x)
    BY <1>7 DEF Levels
  <1>9. \A s, x : PathMaps(s, x)' = PathMaps(s, x)
    BY DEF PathMaps, Levels, StepFrom, EdgesFrom, Expanded, FunctionOf, BlockOf, Blocks
  <1>10. \A s, x : Home(s, x)' <=> Home(s, x)
    BY <1>1, <1>3 DEF Home
  <1>11. \A s, f, x : Distance(s, f, x)' = Distance(s, f, x)
    BY <1>8 DEF Distance
  <1>12. \A S : Origin(S)' = Origin(S)
    BY <1>2, <1>4 DEF Origin, Enclosing
  <1>13. \A S : Unambiguous(S)' <=> Unambiguous(S)
    <2>1. \A f : SourceOf(f)' = SourceOf(f)
      BY <1>1, <1>3 DEF SourceOf
    <2> QED
      BY <1>3, <1>6, <1>8, <1>12, <2>1 DEF Unambiguous
  <1>14. \A c, f, x : ChainTo(c, f, x)' <=> ChainTo(c, f, x)
    BY <1>4 DEF ChainTo
  <1>15. \A x : Member(x)' = Member(x)
    BY DEF Member
  <1>16. \A t : Leads(t)' <=> Leads(t)
    BY <1>2, <1>11, <1>12, <1>13, <1>14, <1>15 DEF Leads
  <1> QED
    BY <1>1, <1>3, <1>9, <1>10, <1>16

Early == FindPhases \cup {"pointers", "ready", "exited"}

(* Each number is given once, as numbers are given.                        *)
NumbersRight ==
  /\ IsFiniteSet(DOMAIN traceIds)
  /\ \A t \in DOMAIN traceIds : traceIds[t] \in Nat /\ traceIds[t] < Cardinality(DOMAIN traceIds)
  /\ \A t, u \in DOMAIN traceIds : traceIds[t] = traceIds[u] => t = u

AskedRight == \A q \in asked : q[2] \in Boxes \cup {Priv}

PathInv ==
  /\ phase \in Early => PathsInit
  /\ AskedRight /\ AskingRight /\ CacheRight /\ NumbersRight
  /\ \A t \in traces : Leads(t)

LEMMA NothingTraced == PathsInit => PathInv
  <1> SUFFICES ASSUME PathsInit PROVE PathInv
    OBVIOUS
  <1>1. AskedRight /\ AskingRight
    BY DEF PathsInit, AskedRight, AskingRight
  <1>2. CacheRight
    BY DEF PathsInit, CacheRight
  <1>3. NumbersRight
    <2>1. DOMAIN traceIds = {}
      BY DEF PathsInit
    <2> QED
      BY <2>1, FS_EmptySet DEF NumbersRight
  <1> QED
    BY <1>1, <1>2, <1>3 DEF PathsInit, PathInv

LEMMA NothingTracedNext == (PathsInit => PathInv)'
  BY NothingTraced, PTL

(* What stays as it is when only requests change.                          *)
LEMMA PathsKept ==
  ASSUME PathInv, UNCHANGED <<prog, findVars, initVars, cache, traces, traceIds>>
  PROVE  CacheRight' /\ NumbersRight' /\ \A t \in traces' : Leads(t)'
  <1>1. /\ Boxes' = Boxes /\ \A s, x : PathMaps(s, x)' = PathMaps(s, x)
        /\ \A s, x : Home(s, x)' <=> Home(s, x)
        /\ \A t : Leads(t)' <=> Leads(t)
    BY PathsSame
  <1>2. \A c, m, s : Holds(c, m, s)' <=> Holds(c, m, s)
    BY <1>1 DEF Holds, findVars
  <1>3. ASSUME NEW s \in DOMAIN cache'
        PROVE  \E x \in Boxes' \cup {Priv} :
                 Home(s, x)' /\ \E m \in PathMaps(s, x)' : Holds(cache[s], m, s)'
    <2>1. PICK x, m, c : x \in Boxes \cup {Priv} /\ Home(s, x) /\ m \in PathMaps(s, x) /\ c = cache[s] /\ Holds(c, m, s)
      BY <1>3 DEF PathInv, CacheRight
    <2>2. c = cache'[s] /\ Holds(c, m, s)'
      BY <1>2, <2>1
    <2>3. Holds(cache[s], m, s)'
      BY <2>2 DEF Holds
    <2> QED
      BY <1>1, <2>1, <2>3
  <1>4. CacheRight'
    BY <1>3 DEF CacheRight
  <1>5. NumbersRight'
    BY DEF PathInv, NumbersRight
  <1> QED
    BY <1>1, <1>4, <1>5 DEF PathInv

(* Requests are for the program's contexts.                                *)
LEMMA RequestsRight ==
  ASSUME AskedRight,
         \/ ValidateCreations \/ Instrument \/ RPC \/ Vuln \/ DataFlow \/ PrivCalls \/ SandboxedFuncs
         \/ PassOver \/ InfoFlowAnalyses
  PROVE  \A q \in asked' : q[2] \in Boxes \cup {Priv}
  <1>1. CASE UNCHANGED asked
    BY <1>1 DEF AskedRight
  <1>2. CASE ValidateCreations \/ Instrument \/ DataFlow \/ PassOver \/ InfoFlowAnalyses
    BY <1>1, <1>2 DEF ValidateCreations, Instrument, DataFlow, PassOver, InfoFlowAnalyses
  <1>3. CASE RPC
    <2>1. PICK h : links' = {l \in Links(h) : l.at \in CallsOf(l.from)}
      BY <1>3 DEF RPC, BuildRPCGraph
    <2>2. ASSUME NEW l \in links' PROVE l.from \in Boxes \cup {Priv}
      <3>1. PICK c \in DOMAIN prog.send, x \in Boxes \cup {Priv} :
              l = [at |-> c, from |-> x, type |-> prog.send[c].type, to |-> WithName(prog.send[c].to),
                   handler |-> h[<<WithName(prog.send[c].to), prog.send[c].type>>]]
        BY <2>1 DEF Links
      <3> QED
        BY <3>1
    <2>3. UNCHANGED asked \/ asked' = {<<FunctionOf(prog, l.at), l.from>> : l \in links'}
      BY <1>3 DEF RPC, BuildRPCGraph
    <2> QED
      BY <1>1, <2>2, <2>3
  <1>4. CASE Vuln
    <2>1. CASE FollowsNull
      BY <1>1, <1>4, <2>1 DEF Vuln
    <2>2. CASE ~FollowsNull
      <3>1. CheckLeakedRights
        BY <1>4, <2>2 DEF Vuln
      <3>2. leaks' = LeaksInSandboxes \cup PrivilegedLeaks
        BY <3>1 DEF CheckLeakedRights
      <3>3. \A l \in leaks' : l.box \in Boxes \cup {Priv}
        BY <3>2 DEF LeaksInSandboxes, PrivilegedLeaks, Leak
      <3>4. asked' \subseteq {<<l.fun, l.box>> : l \in leaks'}
        BY <3>1 DEF CheckLeakedRights, AskFor
      <3> QED
        BY <3>3, <3>4
    <2> QED
      BY <2>1, <2>2
  <1>5. CASE PrivCalls
    <2>1. privCalls' = PrivCallReport
      BY <1>5 DEF PrivCalls, CheckPrivilegedCalls
    <2>2. \A w \in privCalls' : w.box \in Boxes
      BY <2>1 DEF PrivCallReport
    <2>3. asked' \subseteq UNION {{<<f, w.box>> : f \in prog.call[w.at]} : w \in privCalls'}
      BY <1>5 DEF PrivCalls, CheckPrivilegedCalls, AskFor
    <2> QED
      BY <2>2, <2>3
  <1>6. CASE SandboxedFuncs
    <2>1. \A w \in misplaced' : w.boxes \subseteq Boxes
      BY <1>6 DEF SandboxedFuncs, CheckSandboxedFuncs, MisplacedReport, Disallowed
    <2>2. asked' \subseteq
            UNION {{<<w.fun, S>> : S \in w.boxes \cup {x \in {Priv} : w.privileged}} : w \in misplaced'}
      BY <1>6 DEF SandboxedFuncs, CheckSandboxedFuncs, AskFor
    <2> QED
      BY <2>1, <2>2
  <1> QED
    BY <1>2, <1>3, <1>4, <1>5, <1>6

LEMMA TraceBegins ==
  ASSUME PathInv, UNCHANGED vars, phase \notin Early, BeginTrace
  PROVE  PathInv'
  <1>1. UNCHANGED <<prog, findVars, initVars, phase>>
    BY DEF vars
  <1>2. CacheRight' /\ NumbersRight' /\ \A t \in traces' : Leads(t)'
    BY <1>1, PathsKept DEF BeginTrace
  <1>3. PICK q \in asked :
          /\ asked' = asked \ {q}
          /\ asking' = [fun |-> q[1], box |-> q[2], left |-> Sources(q[2]) \cup {"main"}, last |-> None]
    BY DEF BeginTrace
  <1>4. Boxes' = Boxes /\ \A x : Sources(x)' = Sources(x)
    BY <1>1, PathsSame
  <1>5. AskedRight' /\ q[2] \in Boxes \cup {Priv}
    BY <1>3, <1>4 DEF PathInv, AskedRight
  <1>6. AskingRight'
    <2>1. PICK S, L, f : S = q[2] /\ L = Sources(S) \cup {"main"} /\ f = q[1]
      OBVIOUS
    <2>2. PICK r : r = [fun |-> f, box |-> S, left |-> L, last |-> None]
      OBVIOUS
    <2>3. r.fun = f /\ r.box = S /\ r.left = L /\ r.last = None
      BY <2>2
    <2>4. asking' = r
      BY <1>3, <2>1, <2>2
    <2>5. Sources(S)' = Sources(S) /\ Sources(asking.box)' = Sources(S)
      <3>1. Sources(asking.box)' = Sources(S)'
        BY <2>3, <2>4 DEF Sources, TopCalls, IsRegion
      <3> QED
        BY <1>4, <3>1
    <2>6. S \in Boxes' \cup {Priv}
      BY <1>4, <1>5, <2>1
    <2> QED
      BY <2>1, <2>2, <2>3, <2>4, <2>5, <2>6 DEF AskingRight
  <1> QED
    BY <1>1, <1>2, <1>5, <1>6 DEF PathInv, AskedRight

LEMMA TraceLooksUp ==
  ASSUME PathInv, UNCHANGED vars, phase \notin Early, LookUp
  PROVE  PathInv'
  <1>1. UNCHANGED <<prog, findVars, initVars, phase, asked, traces, traceIds>> /\ asking # None
    BY DEF vars, LookUp
  <1>2. /\ Boxes' = Boxes /\ \A x : Sources(x)' = Sources(x)
        /\ \A s, x : PathMaps(s, x)' = PathMaps(s, x)
        /\ \A s, x : Home(s, x)' <=> Home(s, x)
        /\ \A t : Leads(t)' <=> Leads(t)
    BY <1>1, PathsSame
  <1>3. PICK q :
          /\ q = asking /\ q = [fun |-> q.fun, box |-> q.box, left |-> q.left, last |-> q.last]
          /\ q.box \in Boxes \cup {Priv} /\ q.left \subseteq Sources(q.box) \cup {"main"}
          /\ (Sources(q.box) \cup {"main"}) \ q.left \subseteq DOMAIN cache
          /\ Sources(q.box) \ (q.left \cup {"main"}) # {} =>
               q.last \in Sources(q.box) \ (q.left \cup {"main"})
    BY <1>1 DEF PathInv, AskingRight
  <1>4. PICK s \in q.left :
          /\ asking' = [q EXCEPT !.left = @ \ {s}, !.last = IF s = "main" THEN @ ELSE s]
          /\ IF s \in DOMAIN cache THEN UNCHANGED cache
             ELSE \E m \in PathMaps(s, IF s = "main" THEN Priv ELSE q.box) : cache' = With(cache, s, m)
    BY <1>3 DEF LookUp
  <1>5. PICK x : x = IF s = "main" THEN Priv ELSE q.box
    OBVIOUS
  <1>6. x \in Boxes \cup {Priv} /\ Home(s, x)
    <2>1. s # "main" => s \in Sources(q.box) /\ q.box # Priv
      BY <1>3, <1>4 DEF Sources
    <2> QED
      BY <1>3, <1>5, <2>1 DEF Home
  <1>7. DOMAIN cache' = DOMAIN cache \cup {s} /\ \A r \in DOMAIN cache : cache'[r] = cache[r]
    BY <1>4 DEF With
  <1>8. s \notin DOMAIN cache => cache'[s] \in PathMaps(s, x)
    BY <1>4, <1>5 DEF With
  <1>9. CacheRight'
    <2>1. \A c, m, r : Holds(c, m, r)' <=> Holds(c, m, r)
      BY <1>1, <1>2 DEF Holds, findVars
    <2>2. ASSUME NEW r \in DOMAIN cache'
          PROVE  \E y \in Boxes' \cup {Priv} :
                   Home(r, y)' /\ \E m \in PathMaps(r, y)' : Holds(cache[r], m, r)'
      <3>1. PICK c : c = cache'[r]
        OBVIOUS
      <3>2. \E y \in Boxes \cup {Priv} : Home(r, y) /\ \E m \in PathMaps(r, y) : Holds(c, m, r)
        <4>1. CASE r \in DOMAIN cache
          BY <1>7, <3>1, <4>1 DEF PathInv, CacheRight
        <4>2. CASE r \notin DOMAIN cache
          <5>1. r = s /\ c \in PathMaps(s, x)
            BY <1>7, <1>8, <2>2, <3>1, <4>2
          <5>2. Holds(c, c, s)
            BY DEF Holds
          <5> QED
            BY <1>6, <5>1, <5>2
        <4> QED
          BY <4>1, <4>2
      <3>3. \A m, y : Holds(c, m, y)' => Holds(cache[r], m, y)'
        BY <3>1 DEF Holds
      <3> QED
        BY <1>2, <2>1, <3>2, <3>3
    <2> QED
      BY <2>2 DEF CacheRight
  <1>10. AskingRight'
    <2>1. PICK n : n = [q EXCEPT !.left = @ \ {s}, !.last = IF s = "main" THEN @ ELSE s]
      OBVIOUS
    <2>2. /\ n.fun = q.fun /\ n.box = q.box /\ n.left = q.left \ {s} /\ n.last = IF s = "main" THEN q.last ELSE s
          /\ n = [fun |-> n.fun, box |-> n.box, left |-> n.left, last |-> n.last]
      BY <1>3, <2>1
    <2>3. PICK D : D = Sources(q.box) /\ D = Sources(n.box)
      BY <2>2
    <2>4. asking' = n /\ Sources(asking.box)' = D
      <3>1. asking' = n
        BY <1>4, <2>1
      <3>2. Sources(asking.box)' = Sources(n.box)'
        BY <3>1 DEF Sources, TopCalls, IsRegion
      <3> QED
        BY <1>2, <2>3, <3>1, <3>2
    <2>5. /\ n.box \in Boxes' \cup {Priv} /\ n.left \subseteq D \cup {"main"}
          /\ (D \cup {"main"}) \ n.left \subseteq DOMAIN cache'
      BY <1>2, <1>3, <1>7, <2>2, <2>3
    <2>6. D \ (n.left \cup {"main"}) # {} => n.last \in D \ (n.left \cup {"main"})
      <3>1. CASE s = "main"
        <4>1. D \ (n.left \cup {"main"}) = D \ (q.left \cup {"main"}) /\ n.last = q.last
          BY <2>2, <3>1
        <4> QED
          BY <1>3, <2>3, <4>1
      <3>2. CASE s # "main"
        BY <1>3, <1>4, <2>2, <2>3, <3>2
      <3> QED
        BY <3>1, <3>2
    <2> QED
      BY <2>2, <2>4, <2>5, <2>6 DEF AskingRight
  <1>11. NumbersRight'
    BY <1>1 DEF PathInv, NumbersRight
  <1> QED
    BY <1>1, <1>2, <1>9, <1>10, <1>11 DEF PathInv, AskedRight

LEMMA NumberGiven ==
  ASSUME NumbersRight, NEW t, traceIds' = Numbered(t)
  PROVE  NumbersRight'
  <1>1. CASE traceIds' = traceIds
    BY <1>1 DEF NumbersRight
  <1>2. CASE t \notin DOMAIN traceIds /\ traceIds' = With(traceIds, t, Cardinality(DOMAIN traceIds))
    <2>1. PICK D, n : D = DOMAIN traceIds /\ n = Cardinality(D)
      OBVIOUS
    <2>2. /\ DOMAIN traceIds' = D \cup {t} /\ traceIds'[t] = n
          /\ \A u \in D : traceIds'[u] = traceIds[u]
      BY <1>2, <2>1 DEF With
    <2>3. IsFiniteSet(D) /\ n \in Nat /\ IsFiniteSet(D \cup {t}) /\ Cardinality(D \cup {t}) = n + 1
      BY <1>2, <2>1, FS_CardinalityType, FS_AddElement DEF NumbersRight
    <2>4. \A u \in D : traceIds[u] \in Nat /\ traceIds[u] < n
      BY <2>1 DEF NumbersRight
    <2>5. \A u, v \in D \cup {t} : traceIds'[u] = traceIds'[v] => u = v
      BY <2>1, <2>2, <2>3, <2>4 DEF NumbersRight
    <2>6. \A u \in D \cup {t} : traceIds'[u] \in Nat /\ traceIds'[u] < n + 1
      BY <2>2, <2>3, <2>4
    <2>7. DOMAIN traceIds' = D \cup {t} /\ Cardinality(DOMAIN traceIds') = n + 1
      BY <2>2, <2>3
    <2> QED
      BY <2>3, <2>5, <2>6, <2>7 DEF NumbersRight
  <1> QED
    BY <1>1, <1>2 DEF Numbered

LEMMA TraceEmitted ==
  ASSUME Known, PathInv, UNCHANGED vars, phase \notin Early, EmitTrace
  PROVE  PathInv'
  <1>1. UNCHANGED <<prog, findVars, initVars, phase, asked>> /\ asking # None /\ asking' = None
    BY DEF vars, EmitTrace
  <1>2. /\ Boxes' = Boxes
        /\ \A s, x : PathMaps(s, x)' = PathMaps(s, x)
        /\ \A s, x : Home(s, x)' <=> Home(s, x)
        /\ \A t : Leads(t)' <=> Leads(t)
    BY <1>1, PathsSame
  <1>3. PICK q : q = asking /\ LookedUp(q)
    BY <1>1 DEF PathInv, AskingRight, EmitTrace, LookedUp
  <1>4. PICK t \in TraceOf(q) : traces' = traces \cup {Trace(q, t)} /\ traceIds' = Numbered(t)
    BY <1>3 DEF EmitTrace, Trace
  <1>5. cache' = [s \in DOMAIN cache |-> Read(s, {e[2] : e \in {d \in Touched(q) : d[1] = s}})]
    BY <1>3 DEF EmitTrace
  <1>6. \A u \in traces' : Leads(u)'
    <2>1. Leads(Trace(q, t))
      BY <1>3, <1>4, PrivilegedTraced, FunctionTraced, RegionTraced DEF PathInv
    <2>2. \A u \in traces' : Leads(u)
      BY <1>4, <2>1 DEF PathInv
    <2> QED
      BY <1>2, <2>2
  <1>7. CacheRight'
    <2>1. \A c, m, r : Holds(c, m, r)' <=> Holds(c, m, r)
      BY <1>1, <1>2 DEF Holds, findVars
    <2>2. ASSUME NEW r \in DOMAIN cache'
          PROVE  \E y \in Boxes' \cup {Priv} :
                   Home(r, y)' /\ \E m \in PathMaps(r, y)' : Holds(cache[r], m, r)'
      <3>1. PICK c, d, new : c = cache'[r] /\ d = cache[r] /\ new = {e[2] : e \in {v \in Touched(q) : v[1] = r}}
        OBVIOUS
      <3>2. r \in DOMAIN cache /\ c = Read(r, new)
        BY <1>5, <2>2, <3>1
      <3>3. DOMAIN c = DOMAIN d \cup new /\ \A v \in DOMAIN d : c[v] = d[v]
        BY <3>1, <3>2 DEF Read, PathIn
      <3>4. PICK y, m : y \in Boxes \cup {Priv} /\ Home(r, y) /\ m \in PathMaps(r, y) /\ Holds(d, m, r)
        BY <3>1, <3>2 DEF PathInv, CacheRight
      <3>5. r # "main" /\ new # {} => \E T \in Boxes : r \in sandboxes[T].entry
        <4>1. SUFFICES ASSUME r # "main", NEW v \in Touched(q), v[1] = r
                       PROVE  \E T \in Boxes : r \in sandboxes[T].entry
          BY <3>1
        <4>2. q.box # Priv /\ ~IsRegion(q.box) /\ r \in sandboxes[q.box].entry
          BY <4>1 DEF Touched
        <4> QED
          BY <1>3, <4>2 DEF LookedUp
      <3>6. Holds(c, m, r)
        BY <3>3, <3>4, <3>5 DEF Holds
      <3>7. Holds(c, m, r)' => Holds(cache[r], m, r)'
        BY <3>1 DEF Holds
      <3> QED
        BY <1>2, <2>1, <3>4, <3>6, <3>7
    <2> QED
      BY <2>2 DEF CacheRight
  <1>8. NumbersRight'
    BY <1>4, NumberGiven DEF PathInv
  <1>9. AskedRight' /\ AskingRight'
    BY <1>1, <1>2 DEF PathInv, AskedRight, AskingRight
  <1> QED
    BY <1>1, <1>6, <1>7, <1>8, <1>9 DEF PathInv

LEMMA PathsStep ==
  ASSUME CheckInv, EdgesInv, PlacesInv, PathInv, [CNext]_cvars
  PROVE  PathInv'
  <1>1. CASE UNCHANGED cvars
    <2>1. UNCHANGED <<prog, findVars, initVars, phase, asked, asking, cache, traces, traceIds>>
      BY <1>1 DEF cvars, vars, pathVars
    <2>2. CacheRight' /\ NumbersRight' /\ \A t \in traces' : Leads(t)'
      BY <2>1, PathsKept
    <2>3. Boxes' = Boxes /\ \A x : Sources(x)' = Sources(x)
      BY <2>1, PathsSame
    <2>4. AskingRight'
      <3>1. PICK q : q = asking
        OBVIOUS
      <3>2. Sources(asking.box)' = Sources(q.box)'
        BY <2>1, <3>1 DEF Sources, TopCalls, IsRegion
      <3>3. Sources(asking.box)' = Sources(asking.box)
        BY <2>3, <3>1, <3>2
      <3> QED
        BY <2>1, <2>3, <3>3 DEF PathInv, AskingRight
    <2> QED
      BY <2>1, <2>2, <2>3, <2>4 DEF PathInv, AskedRight, PathsInit
  <1>2. CASE FindStep
    <2>1. phase \in Early /\ UNCHANGED pathVars
      BY <1>2, Finding DEF FindStep, Early
    <2>2. PathsInit'
      BY <2>1 DEF PathInv, PathsInit, pathVars
    <2> QED
      BY <2>2, NothingTracedNext
  <1>3. CASE ProcessCmdLineArgs
    <2>1. phase \in Early /\ UNCHANGED pathVars
      BY <1>3 DEF ProcessCmdLineArgs, CheckInv, RanInv, Early, FindPhases
    <2>2. PathsInit'
      BY <2>1 DEF PathInv, PathsInit, pathVars
    <2> QED
      BY <2>2, NothingTracedNext
  <1>4. CASE TraceStep
    <2>1. UNCHANGED vars /\ (BeginTrace \/ LookUp \/ EmitTrace)
      BY <1>4 DEF TraceStep, EmitTraces
    <2>2. phase \notin Early
      BY <2>1 DEF PathInv, PathsInit, BeginTrace, LookUp, EmitTrace
    <2>3. Known
      <3>1. Found /\ toMake = {} /\ prog \in Programs /\ BitsInv /\ Current
        BY <2>2 DEF CheckInv, RanInv, BitsInv, TurnsInv, Early
      <3> QED
        BY <3>1 DEF Known
    <2> QED
      BY <2>1, <2>2, <2>3, TraceBegins, TraceLooksUp, TraceEmitted
  <1>5. CASE \/ ValidateCreations \/ Instrument \/ RPC \/ Vuln \/ DataFlow \/ PrivCalls \/ SandboxedFuncs
             \/ PassOver \/ InfoFlowAnalyses
    <2>1. /\ UNCHANGED <<prog, findVars, initVars, asking, cache, traces, traceIds>> /\ asking = None
          /\ phase' \notin Early
      BY <1>5 DEF ValidateCreations, Instrument, RPC, Vuln, DataFlow, PrivCalls, SandboxedFuncs,
                  PassOver, InfoFlowAnalyses, Step, Early, FindPhases
    <2>2. AskedRight'
      <3>1. \A q \in asked' : q[2] \in Boxes \cup {Priv}
        BY <1>5, RequestsRight DEF PathInv
      <3>2. Boxes' = Boxes
        BY <2>1, PathsSame
      <3> QED
        BY <3>1, <3>2 DEF AskedRight
    <2>3. CacheRight' /\ NumbersRight' /\ \A t \in traces' : Leads(t)'
      BY <2>1, PathsKept
    <2> QED
      BY <2>1, <2>2, <2>3 DEF PathInv, AskingRight
  <1> QED
    BY <1>1, <1>2, <1>3, <1>4, <1>5 DEF CNext

(* A trace that comes with a report is a chain of calls from main() to the *)
(* function it is about, in its context, and no longer than it need be,    *)
(* whatever was asked for before and whatever that left in the cache; each *)
(* trace has a number of its own (emitCallTrace(), insertIntoTraceDAG()).  *)
THEOREM TracesAreChains == CSpec => []TracesLead
  <1>1. CInit => RegionsInv /\ PlacesInv /\ PathInv
    <2>1. CInit => RegionsInv
      BY DEF CInit, Init, RegionsInv, Found
    <2>2. CInit => PlacesInv
      BY DEF CInit, Init, PlacesInv, Boxes
    <2>3. CInit => PathInv
      BY NothingTraced DEF CInit
    <2> QED
      BY <2>1, <2>2, <2>3
  <1>2. CheckInv => BitsInv
    BY DEF CheckInv
  <1>3. PathInv => TracesLead
    BY DEF PathInv, NumbersRight, TracesLead, Leads
  <1>4. CSpec => [](CheckInv /\ EdgesInv /\ RegionsInv /\ PlacesInv /\ PathInv)
    BY <1>1, <1>2, LinksHold, RegionsStep, PlacesStep, PathsStep, PTL DEF CSpec
  <1> QED
    BY <1>3, <1>4, PTL

=============================================================================
