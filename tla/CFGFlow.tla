------------------------------ MODULE CFGFlow ------------------------------
(***************************************************************************)
(* The interprocedural data-flow engine of CFGFlowAnalysis.h, on which the *)
(* global-variable and the system-call analyses are built: a worklist of   *)
(* basic blocks, and for each instruction the set of facts (bits) known to *)
(* reach it.  Facts flow down a block, to successor blocks, from a call to *)
(* the first instruction of a callee that is not a sandbox entry point,    *)
(* and from a return to every call of the function.                        *)
(*                                                                         *)
(* The program under analysis is an input.  It is chosen from Programs in  *)
(* the initial state and never changes.  An instruction is <<b, i>>, the   *)
(* i-th of block b.  A program is a record:                                *)
(*   block      the basic blocks                                           *)
(*   size       [block -> number of instructions; the last one is the      *)
(*              terminator]                                                *)
(*   succ       [block -> successor blocks]                                *)
(*   fun        [block -> the function it belongs to]                      *)
(*   body       [defined function -> its entry block]                      *)
(*   ret        the blocks that a return instruction ends                  *)
(*   callees    [call other than an intrinsic -> the functions it may      *)
(*              call, over all contexts]                                   *)
(*   entryPoint the functions that are sandbox entry points                *)
(*   seed       [annotation -> facts]: what initialise() assigns there     *)
(*                                                                         *)
(* worklist is the content of the QueueSet: the order in which blocks are  *)
(* enqueued follows the addresses of functions and calls (they are sets of *)
(* pointers), so that the model dequeues any member.                       *)
(***************************************************************************)
EXTENDS Integers, FiniteSets

CONSTANTS
  Programs,   \* the programs to analyse
  Facts       \* the bits of a FactType

VARIABLES
  prog,       \* the program under analysis
  phase,      \* where doAnalysis() is
  state,      \* the facts at each instruction
  worklist,   \* the blocks waiting to be processed
  cur,        \* the block being processed ...
  pos,        \* ... the position in it of the next instruction ...
  entryBB,    \* ... the join over its predecessors, read on dequeuing it ...
  oldTerm     \* ... and the state its terminator had then

vars == <<prog, phase, state, worklist, cur, pos, entryBB, oldTerm>>

Instrs(p) == UNION {{b} \X (1..p.size[b]) : b \in p.block}
First(b) == <<b, 1>>
Terminator(p, b) == <<b, p.size[b]>>
Preds(p, b) == {q \in p.block : b \in p.succ[q]}

(***************************************************************************)
(* What LLVM guarantees of a module, and the seeds' being annotations      *)
(* (intrinsic calls): a block is not empty, a terminator is neither a call *)
(* nor a seed, a return has no successor, nothing branches to an entry     *)
(* block.                                                                  *)
(***************************************************************************)
WellFormed(p) ==
  /\ p.block # {}
  /\ p.size \in [p.block -> Nat \ {0}]
  /\ p.succ \in [p.block -> SUBSET p.block]
  /\ \A f \in DOMAIN p.body :
        /\ p.body[f] \in p.block
        /\ Preds(p, p.body[f]) = {}
  /\ p.ret \subseteq {b \in p.block : p.succ[b] = {}}
  /\ DOMAIN p.callees \subseteq {n \in Instrs(p) : n[2] # p.size[n[1]]}
  /\ DOMAIN p.seed \subseteq {n \in Instrs(p) : n[2] # p.size[n[1]]}
  /\ \A c \in DOMAIN p.seed : p.seed[c] \subseteq Facts

ASSUME ProgramsAssumption == \A p \in Programs : WellFormed(p)

(***************************************************************************)
(* No defined function starts with a block that only branches elsewhere.   *)
(* The engine is complete for such programs only: see FlowComplete.        *)
(***************************************************************************)
NoBareEntry(p) ==
  \A f \in DOMAIN p.body : p.size[p.body[f]] = 1 => p.succ[p.body[f]] = {}

-----------------------------------------------------------------------------
(* Where an instruction sends its state besides the next instruction.      *)

CalleeEntries(p, c) ==
  {First(p.body[f]) : f \in (p.callees[c] \cap DOMAIN p.body) \ p.entryPoint}

CallersOf(p, f) == {c \in DOMAIN p.callees : f \in p.callees[c]}

Targets(p, n) ==
  IF n \in DOMAIN p.callees THEN CalleeEntries(p, n)
  ELSE IF n[1] \in p.ret /\ n[2] = p.size[n[1]] THEN CallersOf(p, p.fun[n[1]])
  ELSE {}

-----------------------------------------------------------------------------
Init ==
  /\ prog \in Programs
  /\ phase = "initialise"
  /\ state = [n \in Instrs(prog) |-> {}]
  /\ worklist = {}
  /\ cur = CHOOSE b \in prog.block : TRUE
  /\ pos = 1
  /\ entryBB = {}
  /\ oldTerm = {}

(* Mutant: the annotation is enqueued, not its block.                      *)
InitialiseEnqueuesSeed ==
  /\ phase = "initialise"
  /\ phase' = "worklist"
  /\ state' = [n \in Instrs(prog) |->
                 IF n \in DOMAIN prog.seed THEN prog.seed[n] ELSE state[n]]
  /\ worklist' = DOMAIN prog.seed
  /\ UNCHANGED <<prog, cur, pos, entryBB, oldTerm>>

(* initialise(): assign the seeds and enqueue their blocks.                *)
Initialise ==
  /\ phase = "initialise"
  /\ phase' = "worklist"
  /\ state' = [n \in Instrs(prog) |->
                 IF n \in DOMAIN prog.seed THEN prog.seed[n] ELSE state[n]]
  /\ worklist' = {c[1] : c \in DOMAIN prog.seed}
  /\ UNCHANGED <<prog, cur, pos, entryBB, oldTerm>>

(* Mutant: the entry join does not start from bottomValue().               *)
DequeueKeepsJoin ==
  /\ phase = "worklist"
  /\ \E b \in worklist :
        /\ worklist' = worklist \ {b}
        /\ cur' = b
        /\ entryBB' = entryBB \cup
                        UNION {state[Terminator(prog, q)] : q \in Preds(prog, b)}
        /\ oldTerm' = state[Terminator(prog, b)]
  /\ pos' = 1
  /\ phase' = "block"
  /\ UNCHANGED <<prog, state>>

(* The head of the loop: dequeue a block, join its predecessors.           *)
Dequeue ==
  /\ phase = "worklist"
  /\ \E b \in worklist :
        /\ worklist' = worklist \ {b}
        /\ cur' = b
        /\ entryBB' = UNION {state[Terminator(prog, q)] : q \in Preds(prog, b)}
        /\ oldTerm' = state[Terminator(prog, b)]
  /\ pos' = 1
  /\ phase' = "block"
  /\ UNCHANGED <<prog, state>>

(***************************************************************************)
(* One instruction of the current block: join its predecessor's state, and *)
(* (updateStateAndPropagate) add the result to the entry of each callee or *)
(* to each caller, enqueuing the block of whatever changed.                *)
(***************************************************************************)
Incoming == IF pos = 1 THEN entryBB ELSE state[<<cur, pos - 1>>]

(* Mutant: only an instruction that had no fact yet counts as changed.     *)
PropagateFirstFactOnly(n, val) ==
  LET hit == Targets(prog, n)
  IN /\ state' = [m \in Instrs(prog) |->
                    IF m = n \/ m \in hit THEN state[m] \cup val ELSE state[m]]
     /\ worklist' = worklist \cup {m[1] : m \in {t \in hit : state[t] = {} /\ val # {}}}

(* Mutant: enqueue without comparing with the old state.                   *)
PropagateAlwaysEnqueues(n, val) ==
  LET hit == Targets(prog, n)
  IN /\ state' = [m \in Instrs(prog) |->
                    IF m = n \/ m \in hit THEN state[m] \cup val ELSE state[m]]
     /\ worklist' = worklist \cup {m[1] : m \in hit}

Propagate(n, val) ==
  LET hit == Targets(prog, n)
  IN /\ state' = [m \in Instrs(prog) |->
                    IF m = n \/ m \in hit THEN state[m] \cup val ELSE state[m]]
     /\ worklist' = worklist \cup
                      {m[1] : m \in {t \in hit : t # n /\ ~(val \subseteq state[t])}}

Instruction ==
  /\ phase = "block"
  /\ pos <= prog.size[cur]
  /\ Propagate(<<cur, pos>>, state[<<cur, pos>>] \cup Incoming)
  /\ pos' = pos + 1
  /\ UNCHANGED <<prog, phase, cur, entryBB, oldTerm>>

(* Mutant: a terminator that had a fact before is not looked at again.     *)
SuccessorsFirstVisitOnly ==
  /\ phase = "block"
  /\ pos > prog.size[cur]
  /\ worklist' = IF oldTerm = {} THEN worklist \cup prog.succ[cur] ELSE worklist
  /\ phase' = "worklist"
  /\ UNCHANGED <<prog, state, cur, pos, entryBB, oldTerm>>

(* The end of a block: enqueue the successors if its terminator changed.   *)
Successors ==
  /\ phase = "block"
  /\ pos > prog.size[cur]
  /\ worklist' = IF state[Terminator(prog, cur)] # oldTerm
                 THEN worklist \cup prog.succ[cur]
                 ELSE worklist
  /\ phase' = "worklist"
  /\ UNCHANGED <<prog, state, cur, pos, entryBB, oldTerm>>

(* The worklist is empty: postDataFlowAnalysis() reads state.              *)
Post ==
  /\ phase = "worklist"
  /\ worklist = {}
  /\ phase' = "done"
  /\ UNCHANGED <<prog, state, worklist, cur, pos, entryBB, oldTerm>>

(* initialise() and performDataFlowAnalysis(), before the client's part.   *)
EngineNext == Initialise \/ Dequeue \/ Instruction \/ Successors

Next == EngineNext \/ Post

Safety == Init /\ [][Next]_vars

(* doAnalysis() is sequential code: it keeps running until it returns.     *)
Spec == Safety /\ WF_vars(Next)

-----------------------------------------------------------------------------
(* Properties.                                                             *)

TypeOK ==
  /\ phase \in {"initialise", "worklist", "block", "done"}
  /\ state \in [Instrs(prog) -> SUBSET Facts]
  /\ worklist \subseteq prog.block
  /\ cur \in prog.block
  /\ pos \in 1..(prog.size[cur] + 1)
  /\ entryBB \subseteq Facts
  /\ oldTerm \subseteq Facts

(* Where control goes right after n (calls enter and returns leave).       *)
FlowsTo(p, n) ==
  Targets(p, n) \cup
    (IF n[2] = p.size[n[1]] THEN {First(s) : s \in p.succ[n[1]]}
                            ELSE {<<n[1], n[2] + 1>>})

Closed(p, C) == \A n \in C : FlowsTo(p, n) \subseteq C

(* Control can lead from c to n: n is in every closed set that holds c.    *)
Leads(p, c, n) == \A C \in SUBSET Instrs(p) : c \in C /\ Closed(p, C) => n \in C

(* The instructions at which the program itself raises fact f.             *)
Sources(p, f) == {c \in DOMAIN p.seed : f \in p.seed[c]}

Reached(f) == {n \in Instrs(prog) : f \in state[n]}

(***************************************************************************)
(* A fact is only ever at an instruction that control can reach from one   *)
(* of its seeds: Reached(f) is inside every set of instructions that holds *)
(* the seeds and is closed under control flow.  This is about the joins in *)
(* performDataFlowAnalysis(): the entry join, |= and the call edges.       *)
(***************************************************************************)
NoSpuriousFact ==
  \A f \in Facts : \A C \in SUBSET Instrs(prog) :
    \/ Reached(f) \subseteq C
    \/ ~(Sources(prog, f) \subseteq C /\ Closed(prog, C))

(***************************************************************************)
(* When the worklist has run empty no fact was lost on the way: state is   *)
(* closed under control flow and holds the seeds.  With NoSpuriousFact it  *)
(* is the least such state, whatever the order of the worklist was.        *)
(***************************************************************************)
FlowComplete ==
  phase = "done" =>
    \A f \in Facts : /\ Sources(prog, f) \subseteq Reached(f)
                     /\ Closed(prog, Reached(f))

(***************************************************************************)
(* Why FlowComplete holds: a piece of control flow over which a fact has   *)
(* not passed yet has an entry of the worklist, or the rest of the block   *)
(* being processed, that will carry it.                                    *)
(***************************************************************************)
ToBeDone(n) == phase = "block" /\ cur = n[1] /\ pos <= n[2]

StepPending ==
  \A n \in Instrs(prog) : LET m == <<n[1], n[2] + 1>> IN
    \/ n = Terminator(prog, n[1])
    \/ state[n] \subseteq state[m]
    \/ n[1] \in worklist
    \/ ToBeDone(m)

BranchPending ==
  \A b \in prog.block : \A s \in prog.succ[b] :
    \/ state[Terminator(prog, b)] \subseteq state[First(s)]
    \/ s \in worklist
    \/ phase = "block" /\ cur = b /\ state[Terminator(prog, b)] # oldTerm
    \/ ToBeDone(First(s)) /\ state[Terminator(prog, b)] \subseteq entryBB

CallPending ==
  \A n \in Instrs(prog) : \A m \in Targets(prog, n) :
    \/ state[n] \subseteq state[m]
    \/ n[1] \in worklist
    \/ ToBeDone(n)

WorkPending ==
  phase # "initialise" => StepPending /\ BranchPending /\ CallPending

(***************************************************************************)
(* The engine is an analysis of reaching facts: with its blocks, worklist  *)
(* and joins read on dequeuing, each step finds facts that are due, takes  *)
(* none away, and it ends when nothing is due.                             *)
(***************************************************************************)
Abstract == INSTANCE ReachingFacts WITH
  program <- [ point |-> Instrs(prog),
               flow  |-> [n \in Instrs(prog) |-> FlowsTo(prog, n)],
               seed  |-> prog.seed ],
  facts <- state,
  answered <- (phase = "done")

ImplementsReachingFacts == Abstract!Spec

(* A fact, once at an instruction, is never taken away from it again: the  *)
(* analysis only ever joins.                                               *)
FactsOnlyGrow ==
  [][\A n \in Instrs(prog) : state[n] \subseteq state'[n]]_vars

(* The analysis ends on every program, recursive ones and loops included.  *)
Terminates == <>(phase = "done")
=============================================================================
