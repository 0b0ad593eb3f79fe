--------------------------- MODULE CreationPoints ---------------------------
(***************************************************************************)
(* Sandbox::validateCreationPoints(): a depth-first walk from main() that  *)
(* does not go past the creation points of a sandbox and reports the calls *)
(* to its entry points that it meets.                                      *)
(*                                                                         *)
(* The C++ recursion is an explicit stack.  A program is a record:         *)
(*   main       {} or {m}, the function main()                             *)
(*   body       [defined function -> its entry block]                      *)
(*   size       [block -> number of instructions]                          *)
(*   succ       [block -> sequence of its successors]                      *)
(*   creation   the instructions that are creation points of the sandbox   *)
(*   callees    [call -> functions it may call in the privileged context]  *)
(*   entryPoint the entry points of the sandbox                            *)
(* Callees are a set of pointers: they are looked at in any order.         *)
(***************************************************************************)
EXTENDS Integers, Sequences, FiniteSets

CONSTANT Programs

WellFormed(p) ==
  /\ p.main = {} \/ \E m \in DOMAIN p.body : p.main = {m}
  /\ p.body \in [DOMAIN p.body -> DOMAIN p.size]
  /\ p.size \in [DOMAIN p.size -> Nat]
  /\ p.succ \in [DOMAIN p.size -> Seq(DOMAIN p.size)]

ASSUME ProgramsAssumption == \A p \in Programs : WellFormed(p)

VARIABLES
  prog,     \* the program being validated
  stack,    \* the calls of validateCreationPointsHelper(), innermost first
  visited,  \* the blocks entered so far
  trace,    \* the calls being looked at, innermost first
  ret,      \* "none", or what the helper that has just ended returned
  errors    \* the reports, each with its trace

vars == <<prog, stack, visited, trace, ret, errors>>

(* An invocation: its block, the instruction it is at (past the last one   *)
(* it is recursing on successors, of which it has taken next - 1), whether *)
(* it is in the loop over callees and the ones this loop has left.         *)
Frame(b) == [block |-> b, pos |-> 1, next |-> 1, calling |-> FALSE, todo |-> {}]

Top == stack[1]
Here == <<Top.block, Top.pos>>
AtEnd(f) == f.pos > prog.size[f.block]
Update(f) == stack' = <<f>> \o Tail(stack)
Advance == Update([Top EXCEPT !.pos = @ + 1, !.calling = FALSE])
Return(v) == stack' = Tail(stack) /\ ret' = v
Running == stack # <<>> /\ ret = "none"

Init ==
  /\ prog \in Programs
  /\ stack = [i \in 1..Cardinality(prog.main) |->
                Frame(prog.body[CHOOSE m \in prog.main : TRUE])]
  /\ visited = {stack[i].block : i \in DOMAIN stack}
  /\ trace = <<>>
  /\ ret = "none"
  /\ errors = {}

(* Calling the helper on b, the caller's frame having become f.            *)
Visit(b, f) ==
  IF b \in visited
  THEN Update(f) /\ ret' = "false" /\ UNCHANGED visited
  ELSE /\ stack' = <<Frame(b), f>> \o Tail(stack)
       /\ visited' = visited \cup {b}
       /\ UNCHANGED ret

(* A creation point: stop here.                                            *)
Create ==
  /\ Running /\ ~AtEnd(Top) /\ Here \in prog.creation
  /\ Return("true")
  /\ UNCHANGED <<prog, visited, trace, errors>>

(* Mutant: a creation point is an instruction like any other.              *)
LookPastCreation ==
  /\ Running /\ ~AtEnd(Top) /\ ~Top.calling
  /\ IF Here \in DOMAIN prog.callees
     THEN /\ Update([Top EXCEPT !.calling = TRUE,
                                !.todo = prog.callees[Here] \cap DOMAIN prog.body])
          /\ trace' = <<Here>> \o trace
     ELSE Advance /\ UNCHANGED trace
  /\ UNCHANGED <<prog, visited, ret, errors>>

(* A call starts its loop over callees (declarations have none to visit);  *)
(* any other instruction is passed over.                                   *)
Look ==
  /\ Running /\ ~AtEnd(Top) /\ ~Top.calling /\ Here \notin prog.creation
  /\ IF Here \in DOMAIN prog.callees
     THEN /\ Update([Top EXCEPT !.calling = TRUE,
                                !.todo = prog.callees[Here] \cap DOMAIN prog.body])
          /\ trace' = <<Here>> \o trace
     ELSE Advance /\ UNCHANGED trace
  /\ UNCHANGED <<prog, visited, ret, errors>>

(* Mutant: the trace is not popped on the way out.                         *)
EntryCallKeepsTrace ==
  /\ Running /\ Top.calling
  /\ \E f \in Top.todo \cap prog.entryPoint :
        errors' = errors \cup {[callee |-> f, trace |-> trace]}
  /\ Return("false")
  /\ UNCHANGED <<prog, visited, trace>>

(* A callee is an entry point: report it and give up on the block.         *)
EntryCall ==
  /\ Running /\ Top.calling
  /\ \E f \in Top.todo \cap prog.entryPoint :
        errors' = errors \cup {[callee |-> f, trace |-> trace]}
  /\ trace' = Tail(trace)
  /\ Return("false")
  /\ UNCHANGED <<prog, visited>>

(* Mutant: a callee is never taken off the loop.                           *)
EnterCalleeForever ==
  /\ Running /\ Top.calling
  /\ \E f \in Top.todo \ prog.entryPoint : Visit(prog.body[f], Top)
  /\ UNCHANGED <<prog, trace, errors>>

(* Another callee: recurse on its entry block.                             *)
EnterCallee ==
  /\ Running /\ Top.calling
  /\ \E f \in Top.todo \ prog.entryPoint :
        Visit(prog.body[f], [Top EXCEPT !.todo = @ \ {f}])
  /\ UNCHANGED <<prog, trace, errors>>

(* No callee returned true: on to the next instruction.                    *)
EndCall ==
  /\ Running /\ Top.calling /\ Top.todo = {}
  /\ Advance
  /\ trace' = Tail(trace)
  /\ UNCHANGED <<prog, visited, ret, errors>>

(* Mutant: creationOnAllPaths starts as true.                              *)
NextSuccessorVacuous ==
  LET succ == prog.succ[Top.block]
  IN /\ Running /\ AtEnd(Top)
     /\ IF Top.next <= Len(succ)
        THEN Visit(succ[Top.next], [Top EXCEPT !.next = @ + 1])
        ELSE Return("true") /\ UNCHANGED visited
     /\ UNCHANGED <<prog, trace, errors>>

(* The loop over successors; there is no way on from a block without any.  *)
NextSuccessor ==
  LET succ == prog.succ[Top.block]
  IN /\ Running /\ AtEnd(Top)
     /\ IF Top.next <= Len(succ)
        THEN Visit(succ[Top.next], [Top EXCEPT !.next = @ + 1])
        ELSE Return(IF succ = <<>> THEN "false" ELSE "true") /\ UNCHANGED visited
     /\ UNCHANGED <<prog, trace, errors>>

(***************************************************************************)
(* What the caller does with a result.  In the loop over callees true ends *)
(* the block (no path past the call is thought to lack a creation) and     *)
(* false goes on.  In the loop over successors the && of creationOnAllPaths*)
(* goes on after true only: after false no further successor is visited.   *)
(***************************************************************************)
Resume ==
  /\ ret # "none" /\ stack # <<>>
  /\ IF Top.calling = (ret = "true")
     THEN /\ stack' = Tail(stack)
          /\ UNCHANGED ret
     ELSE /\ ret' = "none"
          /\ UNCHANGED stack
  /\ trace' = IF Top.calling /\ ret = "true" THEN Tail(trace) ELSE trace
  /\ UNCHANGED <<prog, visited, errors>>

Next ==
  \/ Create \/ Look \/ EntryCall \/ EnterCallee \/ EndCall \/ NextSuccessor
  \/ Resume

(* Sequential code: it keeps running until it returns.                     *)
Spec == Init /\ [][Next]_vars /\ WF_vars(Next)

-----------------------------------------------------------------------------
(***************************************************************************)
(* What really happens on the way to an instruction, in terms of blocks.   *)
(* E is a set of blocks from which a run may leave the function they are   *)
(* in without having created the sandbox: a run gets past a call if a      *)
(* callee begins with one of them, or is code that the walk does not see.  *)
(***************************************************************************)
Passable(p, E, n) ==
  /\ n \notin p.creation
  /\ n \in DOMAIN p.callees =>
       \/ p.callees[n] = {} \/ ~(p.callees[n] \subseteq DOMAIN p.body)
       \/ p.callees[n] \cap p.entryPoint # {}
       \/ \E f \in p.callees[n] : p.body[f] \in E

(* A run that enters block b gets to its i-th instruction uncreated.       *)
Through(p, E, b, i) == \A j \in 1..(i - 1) : Passable(p, E, <<b, j>>)
Beyond(p, E, b) == Through(p, E, b, p.size[b] + 1)

(* The least such E.                                                       *)
Leaving(p, E, b) ==
  Beyond(p, E, b) /\ (p.succ[b] = <<>> \/ \E i \in DOMAIN p.succ[b] : p.succ[b][i] \in E)

Escaping(p) ==
  {b \in DOMAIN p.size :
     \A E \in SUBSET DOMAIN p.size :
       (\A c \in DOMAIN p.size : Leaving(p, E, c) => c \in E) => b \in E}

(* Where the callees of a call begin, and the blocks that a run comes to   *)
(* from those of B without a creation, in the same function ...            *)
Bodies(p, fs) == {p.body[f] : f \in fs \cap DOMAIN p.body}
EntryBlocks(p, n) == Bodies(p, p.callees[n] \ p.entryPoint)

Onward(p, E, C) ==
  \A b \in C : Beyond(p, E, b) => \A i \in DOMAIN p.succ[b] : p.succ[b][i] \in C

ReachedFrom(p, E, B) ==
  {b \in DOMAIN p.size :
     \A C \in SUBSET DOMAIN p.size : B \subseteq C /\ Onward(p, E, C) => b \in C}

(* ... and in the whole program.                                           *)
Inward(p, E, C) ==
  \A n \in DOMAIN p.callees :
    n[1] \in C /\ Through(p, E, n[1], n[2]) /\ n \notin p.creation => EntryBlocks(p, n) \subseteq C

Reached(p, E) ==
  {b \in DOMAIN p.size :
     \A C \in SUBSET DOMAIN p.size :
       Bodies(p, p.main) \subseteq C /\ Onward(p, E, C) /\ Inward(p, E, C) => b \in C}

(* The calls of entry points that a run may make without a creation before.*)
Uncreated(p) ==
  LET E == Escaping(p)
  IN {n \in DOMAIN p.callees \ p.creation :
        /\ p.callees[n] \cap p.entryPoint \cap DOMAIN p.body # {}
        /\ n[1] \in Reached(p, E)
        /\ Through(p, E, n[1], n[2])}

-----------------------------------------------------------------------------
(***************************************************************************)
(* The trace is in step with the recursion on every way out of the helper: *)
(* it holds exactly the calls that the frames on the stack are looking at, *)
(* in their order.  (The early returns pop it by hand.)  Frames and calls  *)
(* are counted from the outermost, the ends of stack and trace.            *)
(***************************************************************************)
FrameAt(d) == stack[Len(stack) + 1 - d]
Calling == {d \in 1..Len(stack) : FrameAt(d).calling}
CallAt(r) == trace[Len(trace) + 1 - r]

TraceMatchesStack ==
  /\ Len(trace) = Cardinality(Calling)
  /\ \A d \in Calling :
       CallAt(Cardinality({c \in Calling : c <= d})) = <<FrameAt(d).block, FrameAt(d).pos>>

(***************************************************************************)
(* What is reported, and printed as a "possible trace", is possible: the   *)
(* outermost call is one that main() comes to, each further one is one     *)
(* that a callee of the call before it comes to, the last calls the entry  *)
(* point, and no creation point is executed in between (what calls do      *)
(* before they return aside).  Neither the order of callees, nor a result  *)
(* handed back, nor what was popped makes the walk go past an annotation,  *)
(* into code that main() cannot reach, or show calls of another path.      *)
(***************************************************************************)
ComesTo(p, B, n) ==
  /\ n \in DOMAIN p.callees \ p.creation
  /\ n[1] \in ReachedFrom(p, DOMAIN p.size, B)
  /\ Through(p, DOMAIN p.size, n[1], n[2])

Possible(p, t) ==
  \A k \in DOMAIN t :
    ComesTo(p, IF k = Len(t) THEN Bodies(p, p.main) ELSE EntryBlocks(p, t[k + 1]), t[k])

ReportsReachable ==
  \A e \in errors :
    /\ e.trace # <<>> /\ Possible(prog, e.trace)
    /\ e.callee \in prog.callees[e.trace[1]] \cap prog.entryPoint

(***************************************************************************)
(* When the helper answers that all paths create the sandbox, they do: no  *)
(* run from the block leaves its function uncreated.  It needs calls with  *)
(* one callee: of several the code asks for one only.  (The answer is      *)
(* looked at where it is used, by the caller's frame.)                     *)
(***************************************************************************)
SingleCallees(p) == \A c \in DOMAIN p.callees : \A f, g \in p.callees[c] : f = g

TrueMeansCreated ==
  (ret = "true" /\ SingleCallees(prog)) =>
    \A f \in (IF stack = <<>> THEN prog.main
              ELSE IF Top.calling THEN prog.callees[Here] ELSE {}) :
      prog.body[f] \notin Escaping(prog)

(* The traversal ends, although loops and recursion lead back to blocks.   *)
Terminates == <>[](stack = <<>>)

(***************************************************************************)
(* "If after this, an entrypoint call is still reached, then a path has    *)
(* been found without going through a creation-point call": an entry-point *)
(* call that may run uncreated does not go unnoticed (at least one such    *)
(* call is reported).                                                      *)
(***************************************************************************)
UncreatedReported == stack = <<>> => (Uncreated(prog) # {} => errors # {})
=============================================================================
