----------------------------- MODULE MCCallGraph -----------------------------
(***************************************************************************)
(* Small programs for CallGraph.  main() makes the calls m1 and m2, f()    *)
(* the calls f1 and f2; g(), e() and h() make one each, that of g()        *)
(* through a pointer; ext() is a declaration.  e() is the entry point of   *)
(* S.  T is a second function-level sandbox with entry point h(), or a     *)
(* region in main() or around f1, or only referred to.                     *)
(***************************************************************************)
EXTENDS CallGraph, TLC

Func == {"main", "f", "g", "e", "h", "ext"}

Small(m1, m2, f1, e1, h1, targets, boxT, gates) ==
  [ func     |-> Func,
    defined  |-> Func \ {"ext"},
    main     |-> {"main"},
    fun      |-> "m1" :> "main" @@ "m2" :> "main" @@ "f1" :> "f" @@ "f2" :> "f"
                   @@ "g1" :> "g" @@ "e1" :> "e" @@ "h1" :> "h",
    static   |-> "m1" :> m1 @@ "m2" :> m2 @@ "f1" :> f1 @@ "f2" :> {"ext"}
                   @@ "g1" :> {} @@ "e1" :> e1 @@ "h1" :> h1,
    targets  |-> "g1" :> targets,
    entry    |-> "S" :> {"e"} @@ (IF boxT = "entry" THEN "T" :> {"h"} ELSE << >>),
    region   |-> CASE boxT = "entry" -> << >>
                   [] boxT = "main" -> "T" :> {"m2"}
                   [] boxT = "f" -> "T" :> {"f1"}
                   [] boxT = "empty" -> "T" :> {},
    callgate |-> "S" :> gates @@ "T" :> {} ]

ProgramsWith(gates) ==
  {Small(m1, m2, f1, e1, h1, ts, bT, gates) :
     m1 \in {{"e"}, {"f"}}, m2 \in {{"f"}, {"h"}}, f1 \in {{"g"}, {"f", "h"}},
     e1 \in {{"f"}, {"g"}}, h1 \in {{"g"}, {"e"}, {"ext"}},
     ts \in {{"f", "h"}, {"e", "ext"}},
     bT \in {"entry", "main", "f", "empty"}}

MCPrograms == ProgramsWith({})
=============================================================================
