--------------------------- MODULE ReachingFacts ---------------------------
(***************************************************************************)
(* What a data-flow analysis of a program promises, whatever its worklist  *)
(* is like: facts are found only where the program raises them or where    *)
(* control can carry them, none is given up again, and an answer is given  *)
(* only when nothing is left to find.                                      *)
(*                                                                         *)
(* program is a record: point, the places a fact can be at; flow, [point   *)
(* -> the points that control can go to next]; seed, [point -> facts       *)
(* raised there].                                                          *)
(***************************************************************************)
VARIABLES
  program,
  facts,      \* [point -> facts found]
  answered    \* has the analysis ended?

avars == <<program, facts, answered>>

Init ==
  /\ facts = [n \in program.point |-> {}]
  /\ answered = FALSE

Raised(n) == IF n \in DOMAIN program.seed THEN program.seed[n] ELSE {}

(* What can be concluded at m from what has been found so far.             *)
Due(m) == Raised(m) \cup UNION {facts[n] : n \in {k \in program.point : m \in program.flow[k]}}

(* A step finds any number of facts: each is due, or becomes due by what   *)
(* is found at a predecessor in the same step.                             *)
Find ==
  /\ ~answered
  /\ \A m \in program.point :
       /\ facts[m] \subseteq facts'[m]
       /\ \A x \in facts'[m] \ facts[m] :
            \/ x \in Due(m)
            \/ \E n \in program.point : m \in program.flow[n] /\ x \in Due(n) /\ x \in facts'[n]
  /\ UNCHANGED <<program, answered>>

Answer ==
  /\ ~answered
  /\ \A m \in program.point : Due(m) \subseteq facts[m]
  /\ answered' = TRUE
  /\ UNCHANGED <<program, facts>>

Spec == Init /\ [][Find \/ Answer]_avars
=============================================================================
