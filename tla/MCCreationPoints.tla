-------------------------- MODULE MCCreationPoints --------------------------
(***************************************************************************)
(* Programs for CreationPoints: main() of three blocks, a function f of    *)
(* two, a function g of one, an entry point e and an external function.    *)
(* Every block but one holds a single instruction; the control-flow graph  *)
(* of main() and the instructions vary.                                    *)
(***************************************************************************)
EXTENDS CreationPoints

Blocks == {"m1", "m2", "m3", "f1", "f2", "g1", "e1"}

(* Shapes of main(): a chain, both orders of a diamond, a loop, a fork     *)
(* whose arms both return; f() is a chain or returns early or loops.       *)
MainShapes ==
  {[m1 |-> <<"m2">>, m2 |-> <<"m3">>, m3 |-> <<>>],
   [m1 |-> <<"m2", "m3">>, m2 |-> <<"m3">>, m3 |-> <<>>],
   [m1 |-> <<"m3", "m2">>, m2 |-> <<"m3">>, m3 |-> <<>>],
   [m1 |-> <<"m2">>, m2 |-> <<"m1", "m3">>, m3 |-> <<>>],
   [m1 |-> <<"m2", "m3">>, m2 |-> <<>>, m3 |-> <<>>]}

FShapes ==
  {[f1 |-> <<"f2">>, f2 |-> <<>>],
   [f1 |-> <<"f1", "f2">>, f2 |-> <<>>]}

Call(fs) == [kind |-> "call", to |-> fs]
Plain(k) == [kind |-> k, to |-> {}]

MainCode == {Plain("create"), Call({"f"}), Call({"e"}), Call({"f", "g"})}
FCode == {Plain("nop"), Plain("create"), Call({"f"}), Call({"e", "ext"})}
GCode == {Plain("create"), Plain("nop")}

Program(main, fshape, code) ==
  LET at(k) == {b \in DOMAIN code : code[b].kind = k}
  IN [main |-> {"main"},
      body |-> [f \in {"main", "f", "g", "e"} |->
                  CASE f = "main" -> "m1" [] f = "f" -> "f1"
                    [] f = "g" -> "g1" [] f = "e" -> "e1"],
      size |-> [b \in Blocks |-> 1],
      succ |-> [b \in Blocks |->
                  IF b \in DOMAIN main THEN main[b]
                  ELSE IF b \in DOMAIN fshape THEN fshape[b] ELSE <<>>],
      creation |-> {<<b, 1>> : b \in at("create")},
      callees |-> [n \in {<<b, 1>> : b \in at("call")} |-> code[n[1]].to],
      entryPoint |-> {"e"}]

MCPrograms ==
  {Program(main, fshape,
           [m1 |-> m1, m2 |-> m2, m3 |-> m3, f1 |-> f1, f2 |-> f2, g1 |-> g1]) :
     <<main, fshape, m1, m2, m3, f1, f2, g1>> \in
       MainShapes \X FShapes \X MainCode \X MainCode \X MainCode \X FCode \X FCode \X GCode}

(* Calls have one callee and nothing recurs: what is missed is missed      *)
(* because of the loop over successors.                                    *)
DirectPrograms ==
  {p \in MCPrograms :
     \A c \in DOMAIN p.callees :
       Cardinality(p.callees[c]) = 1 /\ (c[1] \in {"f1", "f2"} => "f" \notin p.callees[c])}
=============================================================================
