------------------------- MODULE FlowAnalysesProofs -------------------------
(***************************************************************************)
(* Theorems about the data-flow engine of CFGFlow, for every set of        *)
(* well-formed programs and every set of facts, and then about the two     *)
(* analyses built on it: their reports name exactly what control flow      *)
(* justifies.  The engine's completeness and soundness say which facts are *)
(* where when it ends; what is left is what the analyses make of them.     *)
(***************************************************************************)
EXTENDS FlowAnalyses, FiniteSetTheorems, WellFoundedInduction, TLAPS

TypeInv == prog \in Programs /\ TypeOK

(* The instructions of a program are its blocks' positions.                *)
LEMMA InstrsMember ==
  ASSUME NEW p, NEW n
  PROVE  n \in Instrs(p) <=> \E b \in p.block : \E i \in 1..p.size[b] : n = <<b, i>>
  BY DEF Instrs

LEMMA InstrsPair ==
  ASSUME NEW p, NEW b, NEW i
  PROVE  <<b, i>> \in Instrs(p) <=> b \in p.block /\ i \in 1..p.size[b]
  BY InstrsMember

(* First and last instructions, and targets, are instructions.             *)
LEMMA TerminatorIn ==
  ASSUME NEW p \in Programs, NEW b \in p.block
  PROVE  Terminator(p, b) \in Instrs(p) /\ First(b) \in Instrs(p)
  <1>1. p.size[b] \in Nat \ {0}
    BY ProgramsAssumption DEF WellFormed
  <1>2. QED
    BY <1>1, InstrsPair DEF Terminator, First

LEMMA TargetsIn ==
  ASSUME NEW p \in Programs, NEW n
  PROVE  Targets(p, n) \subseteq Instrs(p)
  <1>1. \A f \in DOMAIN p.body : p.body[f] \in p.block
    BY ProgramsAssumption DEF WellFormed
  <1>2. CalleeEntries(p, n) \subseteq Instrs(p)
    BY <1>1, TerminatorIn DEF CalleeEntries
  <1>3. DOMAIN p.callees \subseteq Instrs(p)
    BY ProgramsAssumption DEF WellFormed
  <1>4. QED
    BY <1>2, <1>3 DEF Targets, CallersOf

(* The block of an instruction is a block.                                 *)
LEMMA BlockOf ==
  ASSUME NEW p \in Programs, NEW n \in Instrs(p)
  PROVE  /\ n[1] \in p.block
         /\ n[2] \in 1..p.size[n[1]]
         /\ n = <<n[1], n[2]>>
         /\ p.size[n[1]] \in Nat \ {0}
  <1>1. PICK b \in p.block : \E i \in 1..p.size[b] : n = <<b, i>>
    BY InstrsMember
  <1>2. PICK i \in 1..p.size[b] : n = <<b, i>>
    BY <1>1
  <1>3. p.size[b] \in Nat \ {0}
    BY ProgramsAssumption DEF WellFormed
  <1>4. QED
    BY <1>2, <1>3

-----------------------------------------------------------------------------
(* Type correctness of the engine's state.                                 *)
LEMMA TypeInit == Init => TypeInv
  <1> SUFFICES ASSUME Init PROVE TypeInv
    OBVIOUS
  <1>1. prog.block # {} /\ prog.size \in [prog.block -> Nat \ {0}]
    BY ProgramsAssumption DEF Init, WellFormed
  <1>2. cur \in prog.block
    BY <1>1 DEF Init
  <1>3. pos \in 1..(prog.size[cur] + 1)
    BY <1>1, <1>2 DEF Init
  <1>4. QED
    BY <1>2, <1>3 DEF Init, TypeInv, TypeOK

LEMMA TypeStep == TypeInv /\ [Next]_vars => TypeInv'
  <1> SUFFICES ASSUME TypeInv, [Next]_vars PROVE TypeInv'
    OBVIOUS
  <1> USE DEF TypeInv, TypeOK
  <1>0. WellFormed(prog) /\ prog.size \in [prog.block -> Nat \ {0}]
    BY ProgramsAssumption DEF WellFormed
  <1>1. CASE Initialise
    <2>1. DOMAIN prog.seed \subseteq Instrs(prog)
      BY <1>0 DEF WellFormed
    <2>2. \A c \in DOMAIN prog.seed : c[1] \in prog.block
      BY <2>1, BlockOf
    <2>3. \A c \in DOMAIN prog.seed : prog.seed[c] \subseteq Facts
      BY <1>0 DEF WellFormed
    <2>4. state' \in [Instrs(prog') -> SUBSET Facts]
      BY <1>1, <2>3 DEF Initialise
    <2>5. QED
      BY <1>1, <2>2, <2>4 DEF Initialise
  <1>2. CASE Dequeue
    <2>1. PICK b \in worklist :
            /\ worklist' = worklist \ {b}
            /\ cur' = b
            /\ entryBB' = UNION {state[Terminator(prog, q)] : q \in Preds(prog, b)}
            /\ oldTerm' = state[Terminator(prog, b)]
      BY <1>2 DEF Dequeue
    <2>2. \A q \in prog.block : state[Terminator(prog, q)] \subseteq Facts
      BY TerminatorIn
    <2>3. entryBB' \subseteq Facts /\ oldTerm' \subseteq Facts
      BY <2>1, <2>2 DEF Preds
    <2>4. pos' \in 1..(prog.size[b] + 1)
      BY <1>0, <1>2 DEF Dequeue
    <2>5. QED
      BY <1>2, <2>1, <2>3, <2>4 DEF Dequeue
  <1>3. CASE Instruction
    <2>1. <<cur, pos>> \in Instrs(prog)
      BY <1>0, <1>3, InstrsPair DEF Instruction
    <2>2. pos # 1 => <<cur, pos - 1>> \in Instrs(prog)
      BY <1>0, <1>3, InstrsPair DEF Instruction
    <2>3. Incoming \subseteq Facts
      BY <2>2 DEF Incoming
    <2>4. state[<<cur, pos>>] \cup Incoming \subseteq Facts
      BY <2>1, <2>3
    <2>5. state' \in [Instrs(prog) -> SUBSET Facts]
      BY <1>3, <2>4 DEF Instruction, Propagate
    <2>6. Targets(prog, <<cur, pos>>) \subseteq Instrs(prog)
      BY TargetsIn
    <2>7. worklist' \subseteq prog.block
      BY <1>3, <2>6, BlockOf DEF Instruction, Propagate
    <2>8. pos' \in 1..(prog.size[cur] + 1)
      BY <1>0, <1>3 DEF Instruction
    <2>9. QED
      BY <1>3, <2>5, <2>7, <2>8 DEF Instruction
  <1>4. CASE Successors
    <2>1. prog.succ[cur] \subseteq prog.block
      BY <1>0 DEF WellFormed
    <2>2. QED
      BY <1>4, <2>1 DEF Successors
  <1>5. CASE Post
    BY <1>5 DEF Post
  <1>6. CASE UNCHANGED vars
    BY <1>6 DEF vars
  <1>7. QED
    BY <1>1, <1>2, <1>3, <1>4, <1>5, <1>6 DEF Next, EngineNext

THEOREM TypeCorrect == Safety => []TypeInv
  BY TypeInit, TypeStep, PTL DEF Safety

(* The engine's state keeps its types, whatever the program.               *)
THEOREM TypeSafety == Safety => []TypeOK
  <1>1. TypeInv => TypeOK
    BY DEF TypeInv
  <1>2. QED
    BY <1>1, TypeCorrect, PTL

-----------------------------------------------------------------------------
(* The state of an instruction never shrinks.                              *)

FreshInv == phase = "initialise" => state = [n \in Instrs(prog) |-> {}]

LEMMA FreshStep == FreshInv /\ [Next]_vars => FreshInv'
  BY DEF FreshInv, Next, EngineNext, vars, Initialise, Dequeue, Instruction, Successors, Post

LEMMA StateGrows ==
  TypeInv /\ FreshInv /\ [Next]_vars => \A n \in Instrs(prog) : state[n] \subseteq state'[n]
  <1> SUFFICES ASSUME TypeInv, FreshInv, [Next]_vars, NEW n \in Instrs(prog)
               PROVE  state[n] \subseteq state'[n]
    OBVIOUS
  <1>1. CASE Initialise
    BY <1>1 DEF Initialise, FreshInv
  <1>2. CASE Instruction
    BY <1>2 DEF Instruction, Propagate
  <1>3. QED
    BY <1>1, <1>2 DEF Next, EngineNext, vars, Dequeue, Successors, Post

LEMMA FreshCorrect == Safety => []FreshInv
  <1>1. Init => FreshInv
    BY DEF Init, FreshInv
  <1>2. QED
    BY <1>1, FreshStep, PTL DEF Safety

(* A fact is never taken away from an instruction (FactsOnlyGrow).         *)
THEOREM FactsGrow == Safety => FactsOnlyGrow
  <1>1. TypeInv /\ FreshInv /\ [Next]_vars
          => [\A n \in Instrs(prog) : state[n] \subseteq state'[n]]_vars
    BY StateGrows
  <1>2. QED
    BY <1>1, TypeCorrect, FreshCorrect, PTL DEF Safety, FactsOnlyGrow

-----------------------------------------------------------------------------
(***************************************************************************)
(* No spurious fact.  Inductively, inside a closed set C that holds the    *)
(* sources of f, f is only at members of C, and the entry join of the      *)
(* current block holds f only if the block's first instruction is in C.    *)
(***************************************************************************)
Inside(f, C) ==
  /\ Reached(f) \subseteq C
  /\ phase = "block" /\ f \in entryBB => First(cur) \in C

SpuriousInv ==
  \A f \in Facts : \A C \in SUBSET Instrs(prog) :
    Sources(prog, f) \subseteq C /\ Closed(prog, C) => Inside(f, C)

LEMMA SpuriousStep ==
  TypeInv /\ FreshInv /\ SpuriousInv /\ [Next]_vars => SpuriousInv'
  <1> SUFFICES ASSUME TypeInv, FreshInv, SpuriousInv, [Next]_vars,
                      NEW f \in Facts, NEW C \in SUBSET Instrs(prog'),
                      Sources(prog', f) \subseteq C, Closed(prog', C)
               PROVE  Inside(f, C)'
    BY DEF SpuriousInv
  <1>1. prog' = prog
    BY DEF Next, EngineNext, vars, Initialise, Dequeue, Instruction, Successors, Post
  <1>2. Inside(f, C) /\ Sources(prog, f) \subseteq C /\ Closed(prog, C)
    BY <1>1 DEF SpuriousInv
  <1>3. CASE Initialise
    <2>1. Reached(f)' \subseteq C
      BY <1>1, <1>2, <1>3 DEF Initialise, Inside, Reached, Sources
    <2>2. QED
      BY <2>1, <1>3 DEF Initialise, Inside
  <1>4. CASE Dequeue
    <2>1. PICK b \in worklist :
            /\ cur' = b
            /\ entryBB' = UNION {state[Terminator(prog, q)] : q \in Preds(prog, b)}
      BY <1>4 DEF Dequeue
    <2>2. Reached(f)' = Reached(f)
      BY <1>1, <1>4 DEF Dequeue, Reached
    <2>3. ASSUME f \in entryBB' PROVE First(b) \in C
      <3>1. PICK q \in Preds(prog, b) : f \in state[Terminator(prog, q)]
        BY <2>1, <2>3
      <3>2. q \in prog.block /\ b \in prog.succ[q]
        BY <3>1 DEF Preds
      <3>3. Terminator(prog, q) \in C
        BY <1>2, <3>1, <3>2, TerminatorIn DEF Inside, Reached, TypeInv
      <3>4. First(b) \in FlowsTo(prog, Terminator(prog, q))
        BY <3>2 DEF FlowsTo, Terminator
      <3>5. QED
        BY <1>2, <3>3, <3>4 DEF Closed
    <2>4. QED
      BY <1>2, <2>1, <2>2, <2>3 DEF Inside
  <1>5. CASE Instruction
    <2> DEFINE I == <<cur, pos>>
               val == state[I] \cup Incoming
    <2>0. I \in Instrs(prog) /\ pos \in Nat \ {0} /\ pos <= prog.size[cur] /\ phase = "block"
      <3>1. prog.size[cur] \in Nat \ {0}
        BY ProgramsAssumption DEF WellFormed, TypeInv, TypeOK
      <3>2. QED
        BY <1>5, <3>1, InstrsPair DEF Instruction, TypeInv, TypeOK
    <2>1. ASSUME f \in Incoming PROVE I \in C
      <3>1. CASE pos = 1
        BY <1>2, <2>0, <2>1, <3>1 DEF Incoming, Inside, First
      <3>2. CASE pos # 1
        <4>1. <<cur, pos - 1>> \in Instrs(prog) /\ pos - 1 # prog.size[cur]
          <5>1. prog.size[cur] \in Nat \ {0} /\ cur \in prog.block
            BY ProgramsAssumption DEF WellFormed, TypeInv, TypeOK
          <5>2. QED
            BY <2>0, <3>2, <5>1, InstrsPair
        <4>2. <<cur, pos - 1>> \in C
          BY <1>2, <2>1, <3>2, <4>1 DEF Incoming, Inside, Reached
        <4>3. I \in FlowsTo(prog, <<cur, pos - 1>>)
          BY <2>0, <4>1 DEF FlowsTo
        <4>4. QED
          BY <1>2, <4>2, <4>3 DEF Closed
      <3>3. QED
        BY <3>1, <3>2
    <2>2. ASSUME f \in val PROVE I \in C /\ Targets(prog, I) \subseteq C
      <3>1. I \in C
        BY <1>2, <2>0, <2>1, <2>2 DEF Inside, Reached
      <3>2. QED
        BY <1>2, <3>1 DEF Closed, FlowsTo
    <2>3. state' = [m \in Instrs(prog) |->
                      IF m = I \/ m \in Targets(prog, I) THEN state[m] \cup val ELSE state[m]]
      BY <1>5 DEF Instruction, Propagate
    <2>4. Reached(f)' \subseteq C
      <3> SUFFICES ASSUME NEW m \in Instrs(prog), f \in state'[m] PROVE m \in C
        BY <1>1 DEF Reached
      <3>1. CASE f \in state[m]
        BY <1>2, <3>1 DEF Inside, Reached
      <3>2. CASE f \notin state[m]
        BY <2>2, <2>3, <3>2
      <3>3. QED
        BY <3>1, <3>2
    <2>5. phase' = phase /\ entryBB' = entryBB /\ cur' = cur
      BY <1>5 DEF Instruction
    <2>6. QED
      BY <1>2, <2>4, <2>5 DEF Inside, First
  <1>6. CASE Successors
    BY <1>1, <1>2, <1>6 DEF Successors, Inside, Reached
  <1>7. CASE Post
    BY <1>1, <1>2, <1>7 DEF Post, Inside, Reached
  <1>8. CASE UNCHANGED vars
    BY <1>1, <1>2, <1>8 DEF vars, Inside, Reached, First
  <1>9. QED
    BY <1>3, <1>4, <1>5, <1>6, <1>7, <1>8 DEF Next, EngineNext

(* A fact is only where control can bring it from a seed (NoSpuriousFact). *)
THEOREM SpuriousFree == Safety => []NoSpuriousFact
  <1>1. Init => SpuriousInv
    BY DEF Init, SpuriousInv, Inside, Reached
  <1>2. SpuriousInv => NoSpuriousFact
    BY DEF SpuriousInv, NoSpuriousFact, Inside
  <1>3. QED
    BY <1>1, <1>2, SpuriousStep, TypeCorrect, FreshCorrect, PTL DEF Safety

-----------------------------------------------------------------------------
(***************************************************************************)
(* No lost fact.  WorkPending is inductive together with what the fields   *)
(* of the loop mean: the terminator's old state is a lower bound of its    *)
(* state, the seeds are in place once assigned, and "done" is only reached *)
(* with an empty worklist.  It needs programs without bare entry blocks:   *)
(* only then is a block's terminator left alone by everyone else.          *)
(***************************************************************************)
LoopInv ==
  /\ phase = "block" => oldTerm \subseteq state[Terminator(prog, cur)]
  /\ phase # "initialise" =>
        \A c \in DOMAIN prog.seed : prog.seed[c] \subseteq state[c]
  /\ phase = "done" => worklist = {}

LEMMA LoopStep ==
  TypeInv /\ FreshInv /\ LoopInv /\ [Next]_vars => LoopInv'
  <1> SUFFICES ASSUME TypeInv, FreshInv, LoopInv, [Next]_vars PROVE LoopInv'
    OBVIOUS
  <1>1. prog' = prog
    BY DEF Next, EngineNext, vars, Initialise, Dequeue, Instruction, Successors, Post
  <1>2. DOMAIN prog.seed \subseteq Instrs(prog)
    BY ProgramsAssumption DEF WellFormed, TypeInv
  <1>3. Terminator(prog, cur) \in Instrs(prog)
    BY TerminatorIn DEF TypeInv, TypeOK
  <1>4. CASE Initialise
    BY <1>1, <1>2, <1>4 DEF Initialise, LoopInv
  <1>5. CASE Dequeue
    BY <1>1, <1>5 DEF Dequeue, LoopInv
  <1>6. CASE Instruction
    <2>1. \A n \in Instrs(prog) : state[n] \subseteq state'[n]
      BY StateGrows
    <2>2. phase = "block" /\ phase' = "block" /\ cur' = cur /\ oldTerm' = oldTerm
      BY <1>6 DEF Instruction
    <2>3. oldTerm \subseteq state'[Terminator(prog, cur)]
      BY <1>3, <2>1, <2>2 DEF LoopInv
    <2>4. \A c \in DOMAIN prog.seed : prog.seed[c] \subseteq state'[c]
      BY <1>2, <2>1, <2>2 DEF LoopInv
    <2>5. QED
      BY <1>1, <2>2, <2>3, <2>4 DEF LoopInv, Terminator
  <1>7. CASE Successors
    BY <1>1, <1>7 DEF Successors, LoopInv
  <1>8. CASE Post
    BY <1>1, <1>8 DEF Post, LoopInv
  <1>9. CASE UNCHANGED vars
    BY <1>1, <1>9 DEF vars, LoopInv, Terminator
  <1>10. QED
    BY <1>4, <1>5, <1>6, <1>7, <1>8, <1>9 DEF Next, EngineNext

LEMMA LoopCorrect == Safety => []LoopInv
  <1>1. Init => LoopInv
    BY DEF Init, LoopInv
  <1>2. QED
    BY <1>1, LoopStep, TypeCorrect, FreshCorrect, PTL DEF Safety

(* A terminator that has successors is the target of no call or return.    *)
LEMMA BranchUntouched ==
  ASSUME NEW p \in Programs, NoBareEntry(p),
         NEW n, NEW b \in p.block, p.succ[b] # {}
  PROVE  Terminator(p, b) \notin Targets(p, n)
  <1> SUFFICES ASSUME Terminator(p, b) \in Targets(p, n) PROVE FALSE
    OBVIOUS
  <1>1. CASE Terminator(p, b) \in CalleeEntries(p, n)
    <2>1. PICK f \in DOMAIN p.body : Terminator(p, b) = First(p.body[f])
      BY <1>1 DEF CalleeEntries
    <2>2. b = p.body[f] /\ p.size[b] = 1
      BY <2>1 DEF Terminator, First
    <2>3. QED
      BY <2>2 DEF NoBareEntry
  <1>2. CASE Terminator(p, b) \in DOMAIN p.callees
    BY <1>2, ProgramsAssumption DEF WellFormed, Terminator
  <1>3. QED
    BY <1>1, <1>2 DEF Targets, CallersOf

(* One instruction keeps every piece of pending control flow accounted for.*)
LEMMA PendingInstruction ==
  ASSUME TypeInv, FreshInv, LoopInv, WorkPending, Instruction, NoBareEntry(prog)
  PROVE  WorkPending'
  <1> DEFINE I == <<cur, pos>>
             val == state[I] \cup Incoming
             hit == Targets(prog, I)
  <1>1. /\ state \in [Instrs(prog) -> SUBSET Facts]
        /\ cur \in prog.block /\ pos \in Nat \ {0} /\ pos <= prog.size[cur]
        /\ prog.size[cur] \in Nat \ {0}
        /\ I \in Instrs(prog)
    <2>1. prog.size[cur] \in Nat \ {0}
      BY ProgramsAssumption DEF WellFormed, TypeInv, TypeOK
    <2>2. QED
      BY <2>1, InstrsPair DEF Instruction, TypeInv, TypeOK
  <1>2. /\ prog' = prog /\ phase = "block" /\ phase' = "block" /\ cur' = cur
        /\ pos' = pos + 1 /\ entryBB' = entryBB /\ oldTerm' = oldTerm
    BY DEF Instruction
  <1>3. state' = [m \in Instrs(prog) |->
                    IF m = I \/ m \in hit THEN state[m] \cup val ELSE state[m]]
    BY DEF Instruction, Propagate
  <1>4. worklist' = worklist \cup
                      {m[1] : m \in {t \in hit : t # I /\ ~(val \subseteq state[t])}}
    BY DEF Instruction, Propagate
  <1>5. worklist \subseteq worklist'
    BY <1>4
  <1>6. \A n \in Instrs(prog) : state[n] \subseteq state'[n]
    BY <1>3
  <1>7. ASSUME NEW n \in Instrs(prog), n # I, n[1] \notin worklist'
        PROVE  state'[n] = state[n]
    <2>1. n \in hit => val \subseteq state[n]
      BY <1>4, <1>7
    <2>2. QED
      BY <1>3, <1>7, <2>1
  <1>8. StepPending'
    <2> SUFFICES ASSUME NEW n \in Instrs(prog), n # Terminator(prog, n[1]),
                        n[1] \notin worklist', ~ToBeDone(<<n[1], n[2] + 1>>)'
                 PROVE  state'[n] \subseteq state'[<<n[1], n[2] + 1>>]
      BY <1>2 DEF StepPending, Terminator
    <2> DEFINE m == <<n[1], n[2] + 1>>
    <2>1. n[1] \in prog.block /\ n[2] \in Nat \ {0} /\ n = <<n[1], n[2]>> /\ m \in Instrs(prog)
      <3>1. /\ n[1] \in prog.block /\ n[2] \in 1..prog.size[n[1]] /\ n = <<n[1], n[2]>>
            /\ prog.size[n[1]] \in Nat \ {0}
        BY BlockOf DEF TypeInv
      <3>2. n[2] # prog.size[n[1]]
        BY <3>1 DEF Terminator
      <3>3. n[2] + 1 \in 1..prog.size[n[1]]
        BY <3>1, <3>2
      <3>4. QED
        BY <3>1, <3>3, InstrsPair
    <2>2. n # I
      BY <1>1, <1>2, <2>1 DEF ToBeDone
    <2>3. state'[n] = state[n]
      BY <1>7, <2>2
    <2>4. CASE state[n] \subseteq state[m]
      BY <1>6, <2>1, <2>3, <2>4
    <2>5. CASE ToBeDone(m)
      <3>1. pos = n[2] + 1 /\ cur = n[1]
        BY <1>1, <1>2, <2>1, <2>5 DEF ToBeDone
      <3>2. Incoming = state[n] /\ m = I
        <4>1. pos # 1 /\ pos - 1 = n[2] /\ m = I
          BY <2>1, <3>1
        <4>2. <<cur, pos - 1>> = n
          BY <2>1, <3>1, <4>1
        <4>3. QED
          BY <4>1, <4>2 DEF Incoming
      <3>3. QED
        BY <1>1, <1>3, <2>3, <3>2
    <2>6. QED
      BY <1>2, <1>5, <2>4, <2>5 DEF WorkPending, StepPending
  <1>9. BranchPending'
    <2> SUFFICES ASSUME NEW b \in prog.block, NEW s \in prog.succ[b],
                        s \notin worklist',
                        ~(cur = b /\ state'[Terminator(prog, b)] # oldTerm)
                 PROVE  state'[Terminator(prog, b)] \subseteq state'[First(s)]
      BY <1>2 DEF BranchPending, First, Terminator
    <2> DEFINE T == Terminator(prog, b)
    <2>1. T \in Instrs(prog) /\ First(s) \in Instrs(prog)
      <3>1. s \in prog.block
        BY ProgramsAssumption DEF WellFormed, TypeInv
      <3>2. QED
        BY <3>1, TerminatorIn DEF TypeInv
    <2>2. T \notin hit
      BY BranchUntouched DEF TypeInv
    <2>3. state'[T] = state[T]
      <3>1. CASE T = I
        <4>1. cur = b
          BY <3>1 DEF Terminator
        <4>2. state'[T] = oldTerm /\ oldTerm \subseteq state[T]
          BY <1>2, <4>1 DEF LoopInv
        <4>3. QED
          BY <1>6, <2>1, <4>2
      <3>2. CASE T # I
        BY <1>3, <2>1, <2>2, <3>2
      <3>3. QED
        BY <3>1, <3>2
    <2>4. CASE state[T] \subseteq state[First(s)]
      BY <1>6, <2>1, <2>3, <2>4
    <2>5. CASE ToBeDone(First(s)) /\ state[T] \subseteq entryBB
      <3>1. pos = 1 /\ First(s) = I
        BY <1>1, <2>5 DEF ToBeDone, First
      <3>2. Incoming = entryBB
        BY <3>1 DEF Incoming
      <3>3. QED
        BY <1>1, <1>3, <2>3, <2>5, <3>1, <3>2
    <2>6. QED
      BY <1>2, <1>5, <2>3, <2>4, <2>5 DEF WorkPending, BranchPending
  <1>10. CallPending'
    <2> SUFFICES ASSUME NEW n \in Instrs(prog), NEW m \in Targets(prog, n),
                        n[1] \notin worklist', ~ToBeDone(n)'
                 PROVE  state'[n] \subseteq state'[m]
      BY <1>2 DEF CallPending
    <2>1. m \in Instrs(prog)
      BY TargetsIn DEF TypeInv
    <2>2. CASE n = I
      BY <1>1, <1>3, <2>1, <2>2
    <2>3. CASE n # I
      <3>1. ~ToBeDone(n)
        <4>1. n = <<n[1], n[2]>> /\ n[2] \in Nat
          BY BlockOf DEF TypeInv
        <4>2. QED
          BY <1>1, <1>2, <2>3, <4>1 DEF ToBeDone
      <3>2. state[n] \subseteq state[m]
        BY <1>2, <1>5, <3>1 DEF WorkPending, CallPending
      <3>3. QED
        BY <1>6, <1>7, <2>1, <2>3, <3>2
    <2>4. QED
      BY <2>2, <2>3
  <1>11. QED
    BY <1>8, <1>9, <1>10 DEF WorkPending

LEMMA PendingStep ==
  ASSUME \A p \in Programs : NoBareEntry(p)
  PROVE  TypeInv /\ FreshInv /\ LoopInv /\ WorkPending /\ [Next]_vars => WorkPending'
  <1> SUFFICES ASSUME TypeInv, FreshInv, LoopInv, WorkPending, [Next]_vars
               PROVE  WorkPending'
    OBVIOUS
  <1>1. prog' = prog
    BY DEF Next, EngineNext, vars, Initialise, Dequeue, Instruction, Successors, Post
  <1>2. CASE Initialise
    <2>1. /\ DOMAIN prog.seed \subseteq {n \in Instrs(prog) : n[2] # prog.size[n[1]]}
          /\ prog.succ \in [prog.block -> SUBSET prog.block]
      BY ProgramsAssumption DEF WellFormed, TypeInv
    <2>2. \A n \in Instrs(prog) : n[1] \notin worklist' => state'[n] = {}
      BY <1>2 DEF Initialise, FreshInv
    <2>3. \A n \in Instrs(prog) : n \notin DOMAIN prog.seed => state'[n] = {}
      BY <1>2 DEF Initialise, FreshInv
    <2>4. \A b \in prog.block : state'[Terminator(prog, b)] = {}
      BY <2>1, <2>3, TerminatorIn DEF Terminator, TypeInv
    <2>5. StepPending'
      BY <1>1, <2>2 DEF StepPending
    <2>6. BranchPending'
      BY <1>1, <2>4 DEF BranchPending
    <2>7. CallPending'
      BY <1>1, <2>2 DEF CallPending
    <2>8. QED
      BY <2>5, <2>6, <2>7 DEF WorkPending
  <1>3. CASE Dequeue
    <2>1. PICK b \in worklist :
            /\ worklist' = worklist \ {b}
            /\ cur' = b
            /\ entryBB' = UNION {state[Terminator(prog, q)] : q \in Preds(prog, b)}
      BY <1>3 DEF Dequeue
    <2>2. phase = "worklist" /\ phase' = "block" /\ pos' = 1 /\ state' = state
      BY <1>3 DEF Dequeue
    <2>3. \A n \in Instrs(prog) : n[1] = b => ToBeDone(n)'
      BY <2>1, <2>2, BlockOf DEF ToBeDone, TypeInv
    <2>4. \A n \in Instrs(prog) : n[1] = b => ToBeDone(<<n[1], n[2] + 1>>)'
      <3>1. \A n \in Instrs(prog) : n[2] \in Nat
        BY BlockOf DEF TypeInv
      <3>2. QED
        BY <2>1, <2>2, <3>1 DEF ToBeDone
    <2>5. StepPending'
      BY <1>1, <2>1, <2>2, <2>4 DEF WorkPending, StepPending, ToBeDone
    <2>6. BranchPending'
      <3> SUFFICES ASSUME NEW q \in prog.block, NEW s \in prog.succ[q], s \notin worklist',
                          ~(state[Terminator(prog, q)] \subseteq state[First(s)])
                   PROVE  ToBeDone(First(s))' /\ state[Terminator(prog, q)] \subseteq entryBB'
        BY <1>1, <2>2 DEF BranchPending, Terminator, First
      <3>1. s = b
        BY <2>1, <2>2 DEF WorkPending, BranchPending, ToBeDone
      <3>2. q \in Preds(prog, b)
        BY <3>1 DEF Preds
      <3>3. QED
        BY <2>1, <2>2, <3>1, <3>2 DEF ToBeDone, First
    <2>7. CallPending'
      BY <1>1, <2>1, <2>2, <2>3 DEF WorkPending, CallPending, ToBeDone
    <2>8. QED
      BY <2>5, <2>6, <2>7 DEF WorkPending
  <1>4. CASE Instruction
    BY <1>4, PendingInstruction DEF TypeInv
  <1>5. CASE Successors
    <2>1. /\ phase = "block" /\ phase' = "worklist" /\ pos > prog.size[cur]
          /\ state' = state /\ cur' = cur /\ worklist \subseteq worklist'
          /\ state[Terminator(prog, cur)] # oldTerm => prog.succ[cur] \subseteq worklist'
      BY <1>5 DEF Successors
    <2>2. \A n \in Instrs(prog) : ~ToBeDone(n)
      <3>1. pos \in Nat /\ prog.size[cur] \in Nat
        BY ProgramsAssumption DEF WellFormed, TypeInv, TypeOK
      <3>2. QED
        BY <2>1, <3>1, BlockOf DEF ToBeDone, TypeInv
    <2>3. \A n \in Instrs(prog) :
            n # Terminator(prog, n[1]) => <<n[1], n[2] + 1>> \in Instrs(prog)
      <3> SUFFICES ASSUME NEW n \in Instrs(prog), n # Terminator(prog, n[1])
                   PROVE  <<n[1], n[2] + 1>> \in Instrs(prog)
        OBVIOUS
      <3>1. /\ n[1] \in prog.block /\ n[2] \in 1..prog.size[n[1]]
            /\ n = <<n[1], n[2]>> /\ prog.size[n[1]] \in Nat \ {0}
        BY BlockOf DEF TypeInv
      <3>2. n[2] # prog.size[n[1]]
        BY <3>1 DEF Terminator
      <3>3. n[2] + 1 \in 1..prog.size[n[1]]
        BY <3>1, <3>2
      <3>4. QED
        BY <3>1, <3>3, InstrsPair
    <2>4. StepPending'
      BY <1>1, <2>1, <2>2, <2>3 DEF WorkPending, StepPending, Terminator
    <2>5. BranchPending'
      <3>1. \A b \in prog.block : \A s \in prog.succ[b] : First(s) \in Instrs(prog)
        BY ProgramsAssumption, TerminatorIn DEF WellFormed, TypeInv
      <3>2. QED
        BY <1>1, <2>1, <2>2, <3>1 DEF WorkPending, BranchPending, Terminator
    <2>6. CallPending'
      BY <1>1, <2>1, <2>2 DEF WorkPending, CallPending
    <2>7. QED
      BY <2>4, <2>5, <2>6 DEF WorkPending
  <1>6. CASE Post
    BY <1>1, <1>6 DEF Post, WorkPending, StepPending, BranchPending, CallPending, ToBeDone,
                      Terminator
  <1>7. CASE UNCHANGED vars
    BY <1>1, <1>7 DEF vars, WorkPending, StepPending, BranchPending, CallPending, ToBeDone,
                      Terminator
  <1>8. QED
    BY <1>2, <1>3, <1>4, <1>5, <1>6, <1>7 DEF Next, EngineNext

(***************************************************************************)
(* For programs without bare entry blocks, every fact that has yet to flow *)
(* over an edge has work queued for it (WorkPending).                      *)
(***************************************************************************)
THEOREM PendingCorrect ==
  ASSUME \A p \in Programs : NoBareEntry(p)
  PROVE  Safety => []WorkPending
  <1>1. Init => WorkPending
    BY DEF Init, WorkPending
  <1>2. TypeInv /\ FreshInv /\ LoopInv /\ WorkPending /\ [Next]_vars => WorkPending'
    BY PendingStep
  <1>3. QED
    BY <1>1, <1>2, TypeCorrect, FreshCorrect, LoopCorrect, PTL DEF Safety

(***************************************************************************)
(* For such programs the engine loses no fact (FlowComplete): at the end   *)
(* the state holds the seeds and is closed under control flow.             *)
(***************************************************************************)
THEOREM Complete ==
  ASSUME \A p \in Programs : NoBareEntry(p)
  PROVE  Safety => []FlowComplete
  <1>1. TypeInv /\ LoopInv /\ WorkPending => FlowComplete
    <2> SUFFICES ASSUME TypeInv, LoopInv, WorkPending, phase = "done", NEW f \in Facts
                 PROVE  Sources(prog, f) \subseteq Reached(f) /\ Closed(prog, Reached(f))
      BY DEF FlowComplete
    <2>1. worklist = {} /\ \A n : ~ToBeDone(n)
      BY DEF LoopInv, ToBeDone
    <2>2. Sources(prog, f) \subseteq Reached(f)
      <3>1. DOMAIN prog.seed \subseteq Instrs(prog)
        BY ProgramsAssumption DEF WellFormed, TypeInv
      <3>2. QED
        BY <3>1 DEF LoopInv, Sources, Reached
    <2>3. ASSUME NEW n \in Reached(f), NEW m \in FlowsTo(prog, n)
          PROVE  m \in Reached(f)
      <3>1. n \in Instrs(prog) /\ f \in state[n]
        BY DEF Reached
      <3>2. /\ n[1] \in prog.block /\ n[2] \in 1..prog.size[n[1]]
            /\ n = <<n[1], n[2]>> /\ prog.size[n[1]] \in Nat \ {0}
        BY <3>1, BlockOf DEF TypeInv
      <3>3. CASE m \in Targets(prog, n)
        <4>1. m \in Instrs(prog)
          BY <3>3, TargetsIn DEF TypeInv
        <4>2. state[n] \subseteq state[m]
          BY <2>1, <3>1, <3>3 DEF WorkPending, CallPending
        <4>3. QED
          BY <3>1, <4>1, <4>2 DEF Reached
      <3>4. CASE n[2] = prog.size[n[1]] /\ m \in {First(s) : s \in prog.succ[n[1]]}
        <4>1. PICK s \in prog.succ[n[1]] : m = First(s)
          BY <3>4
        <4>2. s \in prog.block /\ n = Terminator(prog, n[1])
          BY <3>2, <3>4, ProgramsAssumption DEF WellFormed, TypeInv, Terminator
        <4>3. m \in Instrs(prog)
          BY <4>1, <4>2, TerminatorIn DEF TypeInv
        <4>4. state[n] \subseteq state[m]
          BY <2>1, <3>2, <4>1, <4>2 DEF WorkPending, BranchPending
        <4>5. QED
          BY <3>1, <4>3, <4>4 DEF Reached
      <3>5. CASE n[2] # prog.size[n[1]] /\ m = <<n[1], n[2] + 1>>
        <4>1. n # Terminator(prog, n[1])
          BY <3>2, <3>5 DEF Terminator
        <4>2. m \in Instrs(prog)
          <5>1. n[2] + 1 \in 1..prog.size[n[1]]
            BY <3>2, <3>5
          <5>2. QED
            BY <3>2, <3>5, <5>1, InstrsPair
        <4>3. state[n] \subseteq state[m]
          BY <2>1, <3>1, <3>5, <4>1 DEF WorkPending, StepPending
        <4>4. QED
          BY <3>1, <4>2, <4>3 DEF Reached
      <3>6. QED
        BY <3>3, <3>4, <3>5 DEF FlowsTo
    <2>4. QED
      BY <2>2, <2>3 DEF Closed
  <1>2. Safety => []WorkPending
    BY PendingCorrect
  <1>3. QED
    BY <1>1, <1>2, TypeCorrect, LoopCorrect, PTL
-----------------------------------------------------------------------------
(***************************************************************************)
(* Refinement.  A step of the engine is a step of ReachingFacts or a       *)
(* stutter: what a block's first instruction takes from entryBB is, by     *)
(* JoinInv, known of the end of a predecessor now as it was when the block *)
(* was dequeued; and the last step may answer because the engine lost no   *)
(* fact (Complete).                                                        *)
(***************************************************************************)
JoinInv ==
  phase = "block" =>
    entryBB \subseteq UNION {state[Terminator(prog, q)] : q \in Preds(prog, cur)}

LEMMA JoinStep == TypeInv /\ FreshInv /\ JoinInv /\ [Next]_vars => JoinInv'
  <1> SUFFICES ASSUME TypeInv, FreshInv, JoinInv, [Next]_vars, phase' = "block",
                      NEW x \in entryBB'
               PROVE  \E q \in Preds(prog, cur)' : x \in state'[Terminator(prog, q)']
    BY DEF JoinInv
  <1>1. prog' = prog
    BY DEF Next, EngineNext, vars, Initialise, Dequeue, Instruction, Successors, Post
  <1>2. CASE Dequeue
    BY <1>1, <1>2 DEF Dequeue, Terminator, Preds
  <1>3. CASE phase = "block" /\ cur' = cur /\ entryBB' = entryBB
    <2>1. PICK q \in Preds(prog, cur) : x \in state[Terminator(prog, q)]
      BY <1>3 DEF JoinInv
    <2>2. q \in prog.block /\ Terminator(prog, q) \in Instrs(prog)
      BY TerminatorIn DEF TypeInv, Preds
    <2>3. x \in state'[Terminator(prog, q)]
      BY <2>1, <2>2, StateGrows
    <2>4. QED
      BY <1>1, <1>3, <2>1, <2>3 DEF Terminator, Preds
  <1>4. QED
    BY <1>2, <1>3 DEF Next, EngineNext, vars, Initialise, Instruction, Successors, Post

LEMMA JoinCorrect == Safety => []JoinInv
  <1>1. Init => JoinInv
    BY DEF Init, JoinInv
  <1>2. QED
    BY <1>1, JoinStep, TypeCorrect, FreshCorrect, PTL DEF Safety

(* Whatever comes in at the current instruction is at one before it.       *)
LEMMA IncomingFlows ==
  ASSUME TypeInv, JoinInv, phase = "block", pos <= prog.size[cur], NEW x \in Incoming
  PROVE  \E k \in Instrs(prog) : <<cur, pos>> \in FlowsTo(prog, k) /\ x \in state[k]
  <1>1. cur \in prog.block /\ prog.size[cur] \in Nat \ {0} /\ pos \in 1..(prog.size[cur] + 1)
    BY ProgramsAssumption DEF WellFormed, TypeInv, TypeOK
  <1>2. CASE pos = 1
    <2>1. PICK q \in Preds(prog, cur) : x \in state[Terminator(prog, q)]
      BY <1>2 DEF JoinInv, Incoming
    <2>2. q \in prog.block /\ cur \in prog.succ[q] /\ Terminator(prog, q) \in Instrs(prog)
      BY TerminatorIn, <2>1 DEF TypeInv, Preds
    <2>3. <<cur, pos>> \in FlowsTo(prog, Terminator(prog, q))
      BY <1>2, <2>2 DEF FlowsTo, Terminator, First
    <2>4. QED
      BY <2>1, <2>2, <2>3
  <1>3. CASE pos # 1
    <2>1. pos - 1 \in 1..prog.size[cur] /\ pos - 1 # prog.size[cur] /\ (pos - 1) + 1 = pos
      BY <1>1, <1>3
    <2>2. <<cur, pos - 1>> \in Instrs(prog)
      BY <1>1, <2>1, InstrsPair
    <2>3. <<cur, pos>> \in FlowsTo(prog, <<cur, pos - 1>>)
      BY <2>1 DEF FlowsTo
    <2>4. QED
      BY <1>3, <2>2, <2>3 DEF Incoming
  <1>4. QED
    BY <1>2, <1>3

(* What is due where nothing was lost is there already.                    *)
LEMMA NothingDue ==
  ASSUME TypeInv, NEW m \in Instrs(prog),
         \A f \in Facts : Sources(prog, f) \subseteq Reached(f) /\ Closed(prog, Reached(f))
  PROVE  Abstract!Due(m) \subseteq state[m]
  <1>1. ASSUME NEW x \in Abstract!Raised(m) PROVE x \in state[m]
    <2>1. m \in DOMAIN prog.seed /\ x \in prog.seed[m]
      BY <1>1 DEF Abstract!Raised
    <2>2. x \in Facts
      BY <2>1, ProgramsAssumption DEF WellFormed, TypeInv
    <2>3. QED
      BY <2>1, <2>2 DEF Sources, Reached
  <1>2. ASSUME NEW n \in Instrs(prog), m \in FlowsTo(prog, n), NEW x \in state[n]
        PROVE  x \in state[m]
    <2>1. x \in Facts
      BY DEF TypeInv, TypeOK
    <2>2. n \in Reached(x) /\ Closed(prog, Reached(x))
      BY <2>1 DEF Reached
    <2>3. QED
      BY <1>2, <2>2 DEF Closed, Reached
  <1>3. QED
    BY <1>1, <1>2 DEF Abstract!Due

LEMMA RefinementInit == Init => Abstract!Init
  BY DEF Init, Abstract!Init

LEMMA RefinementStep ==
  TypeInv /\ FreshInv /\ JoinInv /\ FlowComplete' /\ [Next]_vars
    => [Abstract!Find \/ Abstract!Answer]_(Abstract!avars)
  <1> SUFFICES ASSUME TypeInv, FreshInv, JoinInv, FlowComplete', [Next]_vars
               PROVE  Abstract!Find \/ Abstract!Answer \/ UNCHANGED Abstract!avars
    OBVIOUS
  <1>1. prog' = prog
    BY DEF Next, EngineNext, vars, Initialise, Dequeue, Instruction, Successors, Post
  <1>2. /\ Instrs(prog)' = Instrs(prog)
        /\ \A n : FlowsTo(prog, n)' = FlowsTo(prog, n)
    BY <1>1
  <1>3. \A n \in Instrs(prog) : state[n] \subseteq state'[n]
    BY StateGrows
  <1>4. CASE Initialise
    <2>1. \A m \in Instrs(prog) : \A x \in state'[m] \ state[m] : x \in Abstract!Raised(m)
      BY <1>4 DEF Initialise, Abstract!Raised
    <2>2. phase # "done" /\ phase' # "done"
      BY <1>4 DEF Initialise
    <2>3. QED
      BY <1>1, <1>2, <1>3, <2>1, <2>2 DEF Abstract!Find, Abstract!Due
  <1>5. CASE Instruction
    <2>1. /\ phase = "block" /\ phase' = "block" /\ pos <= prog.size[cur]
          /\ Propagate(<<cur, pos>>, state[<<cur, pos>>] \cup Incoming)
      BY <1>5 DEF Instruction
    <2>2. \A x \in Incoming : x \in Abstract!Due(<<cur, pos>>)
      BY <2>1, IncomingFlows DEF Abstract!Due
    <2>3. <<cur, pos>> \in Instrs(prog)
      <3>1. cur \in prog.block /\ prog.size[cur] \in Nat \ {0} /\ pos \in 1..(prog.size[cur] + 1)
        BY ProgramsAssumption DEF WellFormed, TypeInv, TypeOK
      <3>2. pos \in 1..prog.size[cur]
        BY <2>1, <3>1
      <3>3. QED
        BY <3>1, <3>2, InstrsPair
    <2>4. ASSUME NEW m \in Instrs(prog), NEW x \in state'[m] \ state[m]
          PROVE  \/ x \in Abstract!Due(m)
                 \/ \E n \in Instrs(prog) :
                      m \in FlowsTo(prog, n) /\ x \in Abstract!Due(n) /\ x \in state'[n]
      <3>1. /\ m = <<cur, pos>> \/ m \in Targets(prog, <<cur, pos>>)
            /\ x \in state[<<cur, pos>>] \cup Incoming
            /\ x \in state'[<<cur, pos>>]
        BY <2>1, <2>3, <2>4 DEF Propagate
      <3>2. CASE x \in Incoming
        BY <2>2, <2>3, <3>1, <3>2 DEF FlowsTo
      <3>3. CASE x \in state[<<cur, pos>>] /\ m \in Targets(prog, <<cur, pos>>)
        BY <2>3, <3>3 DEF FlowsTo, Abstract!Due
      <3>4. QED
        BY <2>4, <3>1, <3>2, <3>3
    <2>5. QED
      BY <1>1, <1>2, <1>3, <2>1, <2>4 DEF Abstract!Find
  <1>6. CASE Post
    <2>1. state' = state /\ phase = "worklist" /\ phase' = "done"
      BY <1>6 DEF Post
    <2>2. \A f \in Facts : /\ Sources(prog, f) \subseteq Reached(f)
                            /\ Closed(prog, Reached(f))
      BY <1>1, <1>2, <2>1 DEF FlowComplete, Sources, Reached, Closed
    <2>3. \A m \in Instrs(prog) : Abstract!Due(m) \subseteq state[m]
      BY <2>2, NothingDue
    <2>4. QED
      BY <1>1, <1>2, <2>1, <2>3 DEF Abstract!Answer
  <1>7. CASE Dequeue \/ Successors \/ UNCHANGED vars
    <2>1. state' = state /\ (phase = "done") = (phase' = "done")
      BY <1>7 DEF Dequeue, Successors, vars
    <2>2. QED
      BY <1>1, <2>1 DEF Abstract!avars
  <1>8. QED
    BY <1>4, <1>5, <1>6, <1>7 DEF Next, EngineNext

(***************************************************************************)
(* For programs without bare entry blocks the engine implements the        *)
(* analysis of reaching facts (ImplementsReachingFacts).                   *)
(***************************************************************************)
THEOREM Refinement ==
  ASSUME \A p \in Programs : NoBareEntry(p)
  PROVE  Safety => ImplementsReachingFacts
  <1>1. Safety => []FlowComplete
    BY Complete
  <1>2. QED
    BY <1>1, RefinementInit, RefinementStep, TypeCorrect, FreshCorrect, JoinCorrect, PTL
       DEF Safety, ImplementsReachingFacts, Abstract!Spec

-----------------------------------------------------------------------------
(* The analyses run the engine: what holds of it holds of them.            *)
LEMMA EngineStep == [FNext]_fvars => [Next]_vars
  BY DEF FNext, fvars, Next, GPost, SPost

LEMMA EngineSafety == FSpec => Safety
  <1>1. FInit => Init
    BY DEF FInit
  <1>2. QED
    BY <1>1, EngineStep, PTL DEF FSpec, Safety

(***************************************************************************)
(* The analyses keep the engine's types (TypeOK), end with every fact that *)
(* control flow carries (FlowComplete), and find facts as the abstract     *)
(* analysis does (ImplementsReachingFacts).                                *)
(***************************************************************************)
THEOREM EngineCorrect ==
  ASSUME \A p \in Programs : NoBareEntry(p)
  PROVE  FSpec => []TypeOK /\ []FlowComplete /\ ImplementsReachingFacts
  <1>1. Safety => []FlowComplete
    BY Complete
  <1>2. Safety => ImplementsReachingFacts
    BY Refinement
  <1>3. QED
    BY <1>1, <1>2, EngineSafety, TypeSafety, PTL

-----------------------------------------------------------------------------
(* The reports are those of the final state.                               *)
ReportInv ==
  phase = "done" =>
    /\ prog.analysis = "globals" =>
         accessWarnings = AccessReport(prog) /\ lostUpdates = LostUpdateReport(prog)
    /\ prog.analysis = "syscalls" => sysCallWarnings = SysCallReport(prog)

LEMMA ReportStep == ReportInv /\ [FNext]_fvars => ReportInv'
  <1> SUFFICES ASSUME ReportInv, [FNext]_fvars, phase' = "done" PROVE ReportInv'
    BY DEF ReportInv
  <1>1. CASE UNCHANGED fvars
    <2>1. /\ prog' = prog /\ state' = state /\ phase' = phase
          /\ accessWarnings' = accessWarnings /\ lostUpdates' = lostUpdates
          /\ sysCallWarnings' = sysCallWarnings
      BY <1>1 DEF fvars, vars, gvars
    <2>2. LostUpdateReport(prog)' = LostUpdateReport(prog)
      BY <2>1 DEF LostUpdateReport, LostSites, Inconsistent
    <2>3. SysCallReport(prog)' = SysCallReport(prog)
      BY <2>1 DEF SysCallReport, AllowedAt
    <2>4. QED
      BY <2>1, <2>2, <2>3 DEF ReportInv
  <1>2. CASE EngineNext
    BY <1>2 DEF EngineNext, Initialise, Dequeue, Instruction, Successors
  <1>3. ASSUME Post PROVE prog' = prog /\ state' = state
    BY <1>3 DEF Post
  <1>4. CASE prog.analysis = "none" /\ Post
    BY <1>3, <1>4 DEF ReportInv
  <1>5. CASE GPost
    BY <1>3, <1>5 DEF GPost, ReportInv, LostUpdateReport, LostSites, Inconsistent
  <1>6. CASE SPost
    BY <1>3, <1>6 DEF SPost, ReportInv, SysCallReport, AllowedAt
  <1>7. QED
    BY <1>1, <1>2, <1>4, <1>5, <1>6 DEF FNext

LEMMA ReportCorrect == FSpec => []ReportInv
  <1>1. FInit => ReportInv
    BY DEF FInit, Init, ReportInv
  <1>2. QED
    BY <1>1, ReportStep, PTL DEF FSpec

-----------------------------------------------------------------------------
(* Control flow stays among the instructions of a program.                 *)
LEMMA FlowsIn ==
  ASSUME NEW p \in Programs, NEW n \in Instrs(p)
  PROVE  FlowsTo(p, n) \subseteq Instrs(p)
  <1>1. /\ n[1] \in p.block /\ n[2] \in 1..p.size[n[1]]
        /\ p.size[n[1]] \in Nat \ {0}
    BY BlockOf
  <1>2. CASE n[2] = p.size[n[1]]
    <2>1. p.succ[n[1]] \subseteq p.block
      BY <1>1, ProgramsAssumption DEF WellFormed
    <2>2. QED
      BY <1>2, <2>1, TargetsIn, TerminatorIn DEF FlowsTo
  <1>3. CASE n[2] # p.size[n[1]]
    <2>1. <<n[1], n[2] + 1>> \in Instrs(p)
      BY <1>1, <1>3, InstrsPair
    <2>2. QED
      BY <1>3, <2>1, TargetsIn DEF FlowsTo
  <1>4. QED
    BY <1>2, <1>3

(* At the end a fact is at exactly the instructions its sources lead to.   *)
LEMMA Exact ==
  ASSUME TypeInv, FlowComplete, NoSpuriousFact, phase = "done",
         NEW f \in Facts, NEW n \in Instrs(prog)
  PROVE  f \in state[n] <=> \E c \in Sources(prog, f) : Leads(prog, c, n)
  <1> DEFINE C == {m \in Instrs(prog) : \E c \in Sources(prog, f) : Leads(prog, c, m)}
  <1>1. ASSUME NEW c \in Sources(prog, f), Leads(prog, c, n) PROVE f \in state[n]
    <2>1. Reached(f) \in SUBSET Instrs(prog) /\ c \in Reached(f) /\ Closed(prog, Reached(f))
      BY DEF FlowComplete, Reached
    <2>2. n \in Reached(f)
      BY <1>1, <2>1 DEF Leads
    <2>3. QED
      BY <2>2 DEF Reached
  <1>2. Sources(prog, f) \subseteq C
    <2>1. DOMAIN prog.seed \subseteq Instrs(prog)
      BY ProgramsAssumption DEF WellFormed, TypeInv
    <2>2. QED
      BY <2>1 DEF Sources, Leads
  <1>3. Closed(prog, C)
    <2> SUFFICES ASSUME NEW m \in C, NEW k \in FlowsTo(prog, m) PROVE k \in C
      BY DEF Closed
    <2>1. PICK c \in Sources(prog, f) : Leads(prog, c, m)
      OBVIOUS
    <2>2. Leads(prog, c, k)
      BY <2>1 DEF Leads, Closed
    <2>3. QED
      BY <2>2, FlowsIn DEF TypeInv
  <1>4. Reached(f) \subseteq C
    BY <1>2, <1>3 DEF NoSpuriousFact
  <1>5. QED
    BY <1>1, <1>4 DEF Reached

-----------------------------------------------------------------------------
(***************************************************************************)
(* Without a platform a sandbox's system call is reported exactly if no    *)
(* annotation that allows it leads there, with one exactly if the platform *)
(* does not permit it (ReportedUnlessAllowed), for all programs without    *)
(* bare entry blocks.                                                      *)
(***************************************************************************)
THEOREM SysCallsJudged ==
  ASSUME \A p \in Programs : NoBareEntry(p)
  PROVE  FSpec => []ReportedUnlessAllowed
  <1>1. TypeInv /\ FlowComplete /\ NoSpuriousFact /\ ReportInv => ReportedUnlessAllowed
    <2> SUFFICES ASSUME TypeInv, FlowComplete, NoSpuriousFact, ReportInv,
                        phase = "done", prog.analysis = "syscalls",
                        NEW S \in prog.box, NEW c \in prog.boxCalls[S] \cap prog.report,
                        NEW f \in prog.calleesIn[S][c] \cap Facts
                 PROVE  <<S, c, f>> \notin sysCallWarnings <=>
                          IF prog.platform = {}
                          THEN \E l \in Limits(prog) : f \in prog.allowed[l] /\ Leads(prog, l, c)
                          ELSE f \in UNION prog.platform
      BY DEF ReportedUnlessAllowed
    <2>1. <<S, c, f>> \notin sysCallWarnings <=> AllowedAt(c, f)
      BY DEF ReportInv, SysCallReport
    <2>2. c \in Instrs(prog) /\ prog.seed = [l \in Limits(prog) |-> prog.allowed[l] \cap Facts]
      BY SysCallsAssumption DEF SysCallsAssumption, TypeInv
    <2>3. Sources(prog, f) = {l \in Limits(prog) : f \in prog.allowed[l]}
      BY <2>2 DEF Sources
    <2>4. f \in state[c] <=> \E l \in Sources(prog, f) : Leads(prog, l, c)
      BY <2>2, Exact
    <2>5. QED
      BY <2>1, <2>3, <2>4 DEF AllowedAt
  <1>2. Safety => []FlowComplete
    BY Complete
  <1>3. QED
    BY <1>1, <1>2, EngineSafety, TypeCorrect, SpuriousFree, ReportCorrect, PTL

-----------------------------------------------------------------------------
(* A non-empty set of naturals has a least member.                         *)
LEMMA LeastNatural ==
  ASSUME NEW T \in SUBSET Nat, T # {}
  PROVE  \E x \in T : \A y \in T : x <= y
  <1> DEFINE R == {ss \in Nat \X Nat : ss[1] < ss[2]}
  <1>1. IsWellFoundedOn(R, Nat)
    BY NatLessThanWellFounded, Zenon DEF OpToRel
  <1>2. PICK x \in T : \A y \in T : ~(<<y, x>> \in R)
    <2> HIDE DEF R
    <2> QED
      BY <1>1, WFMin
  <1>3. ASSUME NEW y \in T PROVE x <= y
    <2>1. x \in Nat /\ y \in Nat
      OBVIOUS
    <2>2. <<y, x>> \in R <=> y < x
      BY <2>1
    <2>3. ~(<<y, x>> \in R)
      BY <1>2
    <2> HIDE DEF R
    <2>4. QED
      BY <2>1, <2>2, <2>3
  <1>4. QED
    BY <1>3

(* Of the sites that concern one variable some come first.                 *)
LEMMA FirstExists ==
  ASSUME NEW p \in Programs, p.analysis = "globals",
         NEW sites \in SUBSET DOMAIN p.access, NEW n \in sites
  PROVE  \E m \in FirstSites(p, sites) : p.access[m].var = p.access[n].var
  <1> DEFINE T == {m \in sites : p.access[m].var = p.access[n].var}
  <1>1. ASSUME NEW m \in T PROVE p.layout[m[1]] \in Nat /\ m[2] \in Nat
    <2>1. m \in Instrs(p) /\ p.layout \in [p.block -> Nat]
      BY GlobalsAssumption DEF GlobalsAssumption
    <2>2. m[1] \in p.block /\ m[2] \in 1..p.size[m[1]] /\ p.size[m[1]] \in Nat
      BY <2>1, BlockOf
    <2>3. QED
      BY <2>1, <2>2
  <1> DEFINE Ranks == {p.layout[m[1]] : m \in T}
  <1>2. PICK r \in Ranks : \A s \in Ranks : r <= s
    <2>1. Ranks \in SUBSET Nat
      BY <1>1
    <2>2. Ranks # {}
      OBVIOUS
    <2> HIDE DEF Ranks
    <2>3. QED
      BY <2>1, <2>2, LeastNatural
  <1> DEFINE U == {m \in T : p.layout[m[1]] = r}
             Places == {m[2] : m \in U}
  <1>3. PICK i \in Places : \A j \in Places : i <= j
    <2>1. Places \in SUBSET Nat
      BY <1>1
    <2>2. Places # {}
      OBVIOUS
    <2> HIDE DEF Places
    <2>3. QED
      BY <2>1, <2>2, LeastNatural
  <1>4. PICK m \in U : m[2] = i
    OBVIOUS
  <1>5. ASSUME NEW k \in T PROVE ~Before(p, k, m)
    <2>1. p.layout[k[1]] \in Nat /\ k[2] \in Nat /\ p.layout[m[1]] = r /\ r \in Nat /\ i \in Nat
      BY <1>1
    <2>2. r <= p.layout[k[1]]
      BY <1>2
    <2>3. k[1] = m[1] => i <= k[2]
      BY <1>3
    <2>4. QED
      BY <1>4, <2>1, <2>2, <2>3 DEF Before
  <1>6. m \in FirstSites(p, sites)
    BY <1>5 DEF FirstSites
  <1>7. QED
    BY <1>6

(***************************************************************************)
(* Lost updates are reported exactly (LostUpdatesExact), for all programs  *)
(* without bare entry blocks: wherever the creation of a reader leads to a *)
(* direct write, its function and variable have a report; and a report     *)
(* names only readers of which the creation leads to the write.            *)
(***************************************************************************)
THEOREM LostUpdatesJudged ==
  ASSUME \A p \in Programs : NoBareEntry(p)
  PROVE  FSpec => []LostUpdatesExact
  <1>1. TypeInv /\ FlowComplete /\ NoSpuriousFact /\ ReportInv => LostUpdatesExact
    <2> SUFFICES ASSUME TypeInv, FlowComplete, NoSpuriousFact, ReportInv, Reported
                 PROVE  LostUpdatesExact
      BY DEF LostUpdatesExact
    <2> USE DEF Reported
    <2>1. /\ DOMAIN prog.access \subseteq Instrs(prog)
          /\ \A S, T \in prog.box : prog.idx[S] = prog.idx[T] => S = T
          /\ prog.seed = [c \in UNION {prog.creation[S] : S \in prog.box} |->
                            {prog.idx[S] : S \in {T \in prog.box : c \in prog.creation[T]}}]
      BY GlobalsAssumption DEF GlobalsAssumption, TypeInv
    <2>2. \A c \in DOMAIN prog.seed : prog.seed[c] \subseteq Facts
      BY ProgramsAssumption DEF WellFormed, TypeInv
    <2>3. lostUpdates = LostUpdateReport(prog)
      BY DEF ReportInv
    <2>4. ASSUME NEW F \in prog.privileged \cap prog.report,
                 NEW n \in Accesses(prog, F, "write"),
                 NEW S \in prog.box, NEW c \in prog.creation[S],
                 prog.access[n].direct, Permitted(prog, S, prog.access[n].var, "read"),
                 Leads(prog, c, n)
          PROVE  \E w \in lostUpdates :
                   prog.fun[w.at[1]] = F /\ prog.access[w.at].var = prog.access[n].var
      <3>1. n \in Instrs(prog)
        BY <2>1 DEF Accesses
      <3>2. c \in DOMAIN prog.seed /\ prog.idx[S] \in prog.seed[c]
        BY <2>1
      <3>3. prog.idx[S] \in state[n]
        BY <2>2, <2>4, <3>1, <3>2, Exact DEF Sources
      <3>4. prog.idx[S] \in Inconsistent(n)
        BY <2>4, <3>3 DEF Inconsistent, ReaderBits
      <3>5. n \in LostSites(prog, F) /\ LostSites(prog, F) \in SUBSET DOMAIN prog.access
        BY <2>4, <3>4 DEF LostSites, Accesses
      <3>6. PICK m \in FirstSites(prog, LostSites(prog, F)) : prog.access[m].var = prog.access[n].var
        BY <3>5, FirstExists DEF TypeInv
      <3>7. [at |-> m, boxes |-> Inconsistent(m)] \in lostUpdates
        BY <2>3 DEF LostUpdateReport
      <3>8. prog.fun[m[1]] = F
        BY DEF FirstSites, LostSites, Accesses
      <3>9. QED
        BY <3>6, <3>7, <3>8
    <2>5. ASSUME NEW w \in lostUpdates, NEW i \in w.boxes
          PROVE  \E S \in prog.box :
                   /\ prog.idx[S] = i
                   /\ Permitted(prog, S, prog.access[w.at].var, "read")
                   /\ \E c \in prog.creation[S] : Leads(prog, c, w.at)
      <3>1. PICK F \in prog.privileged : \E n \in FirstSites(prog, LostSites(prog, F)) :
              w = [at |-> n, boxes |-> Inconsistent(n)]
        BY <2>3 DEF LostUpdateReport
      <3>2. PICK n \in LostSites(prog, F) : w = [at |-> n, boxes |-> Inconsistent(n)]
        BY <3>1 DEF FirstSites
      <3>3. n \in Instrs(prog) /\ i \in Inconsistent(n)
        BY <2>1, <3>2 DEF LostSites, Accesses
      <3>4. PICK S \in prog.box : prog.idx[S] = i /\ Permitted(prog, S, prog.access[n].var, "read")
        BY <3>3 DEF Inconsistent, ReaderBits
      <3>5. i \in state[n] /\ i \in Facts
        BY <3>3 DEF Inconsistent, TypeInv, TypeOK
      <3>6. PICK c \in Sources(prog, i) : Leads(prog, c, n)
        BY <3>3, <3>5, Exact
      <3>7. c \in prog.creation[S]
        BY <2>1, <3>4 DEF Sources
      <3>8. QED
        BY <3>2, <3>4, <3>6, <3>7
    <2>6. QED
      BY <2>4, <2>5 DEF LostUpdatesExact
  <1>2. Safety => []FlowComplete
    BY Complete
  <1>3. QED
    BY <1>1, <1>2, EngineSafety, TypeCorrect, SpuriousFree, ReportCorrect, PTL

(***************************************************************************)
(* Every variable that sandboxed code touches against its annotations is   *)
(* reported, once unless Pedantic (AccessesReported), whatever the facts.  *)
(***************************************************************************)
THEOREM AccessesJudged == FSpec => []AccessesReported
  <1>1. TypeInv /\ ReportInv => AccessesReported
    <2> SUFFICES ASSUME TypeInv, ReportInv, Reported,
                        NEW S \in prog.box, NEW k \in {"read", "write"},
                        NEW F \in prog.functions[S] \cap prog.report,
                        NEW n \in Unannotated(prog, S, F, k)
                 PROVE  LET about == {w \in accessWarnings :
                              /\ w.box = S /\ w.kind = k /\ prog.fun[w.at[1]] = F
                              /\ prog.access[w.at].var = prog.access[n].var}
                        IN about # {} /\ (prog.pedantic \/ Cardinality(about) = 1)
      BY DEF AccessesReported
    <2> DEFINE bad == Unannotated(prog, S, F, k)
               about == {w \in accessWarnings :
                              /\ w.box = S /\ w.kind = k /\ prog.fun[w.at[1]] = F
                              /\ prog.access[w.at].var = prog.access[n].var}
    <2>1. accessWarnings = AccessReport(prog)
      BY DEF ReportInv, Reported
    <2>2. bad \in SUBSET DOMAIN prog.access /\ \A m \in bad : prog.fun[m[1]] = F
      BY DEF Unannotated, Accesses
    <2>3. PICK m \in FirstSites(prog, bad) : prog.access[m].var = prog.access[n].var
      BY <2>2, FirstExists DEF TypeInv, Reported
    <2>4. m \in bad
      BY DEF FirstSites
    <2> DEFINE v == [box |-> S, kind |-> k, at |-> m]
    <2>5. v \in about
      BY <2>1, <2>2, <2>3, <2>4 DEF AccessReport
    <2>6. ASSUME ~prog.pedantic, NEW w \in about PROVE w = v
      <3>1. w \in [box : prog.box, kind : {"read", "write"}, at : DOMAIN prog.access]
        BY <2>1 DEF AccessReport
      <3>2. w.at \in FirstSites(prog, bad)
        BY <2>1, <2>6 DEF AccessReport
      <3>3. w.at \in bad /\ ~Before(prog, m, w.at) /\ ~Before(prog, w.at, m)
        BY <2>3, <2>4, <3>2 DEF FirstSites
      <3>4. w.at = m
        <4>1. /\ m \in Instrs(prog) /\ w.at \in Instrs(prog)
              /\ prog.layout \in [prog.block -> Nat]
              /\ \A b, d \in prog.block :
                    prog.fun[b] = prog.fun[d] /\ prog.layout[b] = prog.layout[d] => b = d
          BY <2>2, <2>4, <3>3, GlobalsAssumption DEF GlobalsAssumption, TypeInv, Reported
        <4>2. /\ m[1] \in prog.block /\ m[2] \in Nat /\ m = <<m[1], m[2]>>
              /\ w.at[1] \in prog.block /\ w.at[2] \in Nat /\ w.at = <<w.at[1], w.at[2]>>
          BY <4>1, BlockOf DEF TypeInv
        <4>3. prog.layout[m[1]] = prog.layout[w.at[1]]
          BY <3>3, <4>1, <4>2 DEF Before
        <4>4. m[1] = w.at[1]
          BY <2>2, <2>4, <3>3, <4>1, <4>2, <4>3
        <4>5. m[2] = w.at[2]
          BY <3>3, <4>2, <4>4 DEF Before
        <4>6. QED
          BY <4>2, <4>4, <4>5
      <3>5. QED
        BY <3>1, <3>4
    <2>7. ~prog.pedantic => about = {v}
      BY <2>5, <2>6
    <2> HIDE DEF about, v
    <2>8. ~prog.pedantic => Cardinality(about) = 1
      BY <2>7, FS_Singleton
    <2>9. QED
      BY <2>5, <2>8 DEF about
  <1>2. QED
    BY <1>1, EngineSafety, TypeCorrect, ReportCorrect, PTL
=============================================================================
