---------------------------- MODULE MCFlowAnalyses ----------------------------
(***************************************************************************)
(* Small programs for FlowAnalyses: for the engine alone, and for each of  *)
(* the two analyses.                                                       *)
(***************************************************************************)
EXTENDS FlowAnalyses, TLC

(***************************************************************************)
(* main (blocks m1, m2) and f (f1, f2), every combination of the branches, *)
(* calls and seeds below, with f a sandbox entry point or not, recursive   *)
(* or not, and f2 with or without a loop.  m1 raises A and calls f; m2 and *)
(* f2 call f or raise B (seedB); f1 calls callF1, unless it is a bare      *)
(* branch (sizeF1 = 1).                                                    *)
(***************************************************************************)
Flowing(sizeF1, succM2, succF1, succF2, callF1, seedB, sbox) ==
  LET succ == "m1" :> {"m2"} @@ "m2" :> succM2 @@ "f1" :> succF1 @@ "f2" :> succF2
      blocks == DOMAIN succ
      at   == [b \in blocks |-> IF b = "m1" THEN <<b, 2>> ELSE <<b, 1>>]
      slot == {at[b] : b \in blocks \ (seedB \cup {x \in {"f1"} : sizeF1 = 1})}
  IN [ analysis   |-> "none",
       block      |-> blocks,
       size       |-> "m1" :> 3 @@ "m2" :> 2 @@ "f1" :> sizeF1 @@ "f2" :> 2,
       succ       |-> succ,
       fun        |-> "m1" :> "main" @@ "m2" :> "main" @@ "f1" :> "f" @@ "f2" :> "f",
       body       |-> "main" :> "m1" @@ "f" :> "f1",
       ret        |-> {b \in blocks : succ[b] = {}},
       callees    |-> [c \in slot |-> IF c[1] = "f1" THEN callF1 ELSE {"f"}],
       entryPoint |-> sbox,
       seed       |-> [c \in {<<"m1", 1>>} \cup {at[b] : b \in seedB} |->
                         IF c = <<"m1", 1>> THEN {"A"} ELSE {"B"}] ]

ProgramsOf(sizesF1) ==
  {Flowing(z, s2, g1, g2, d1, seedB, x) :
     z \in sizesF1, s2 \in {{}, {"m2"}}, g1 \in {{}, {"f2"}}, g2 \in {{}, {"f2"}},
     d1 \in {{"ext"}, {"f"}, {"main", "f"}},
     seedB \in SUBSET {"m2", "f2"}, x \in {{}, {"f"}}}

(***************************************************************************)
(* main (m1, m2) creates S, calls f and writes twice, with the creation of *)
(* T in between; f1 is f, either the entry point of S or ordinary          *)
(* privileged code that may recurse.                                       *)
(***************************************************************************)
Write(v, d) == [kind |-> "write", var |-> v, direct |-> d]
Read(v) == [kind |-> "read", var |-> v, direct |-> TRUE]

Creating(createS, succM2, sandboxed, callF, w1, w2, af, readsT, pedantic) ==
  LET at   == IF createS THEN <<"m1", 1>> ELSE <<"f1", 1>>
      creation == "S" :> {at} @@ "T" :> {<<"m2", 2>>}
  IN [ analysis   |-> "globals",
       block      |-> {"m1", "m2", "f1"},
       size       |-> "m1" :> 3 @@ "m2" :> 4 @@ "f1" :> 4,
       succ       |-> "m1" :> {"m2"} @@ "m2" :> succM2 @@ "f1" :> {},
       fun        |-> "m1" :> "main" @@ "m2" :> "main" @@ "f1" :> "f",
       body       |-> "main" :> "m1" @@ "f" :> "f1",
       ret        |-> {b \in {"m1", "m2", "f1"} : b = "f1" \/ (b = "m2" /\ succM2 = {})},
       callees    |-> <<"m1", 2>> :> {"f"} @@ <<"f1", 3>> :> callF,
       entryPoint |-> IF sandboxed THEN {"f"} ELSE {},
       seed       |-> at :> {"bit0"} @@ <<"m2", 2>> :> {"bit1"},
       box        |-> {"S", "T"},
       idx        |-> "S" :> "bit0" @@ "T" :> "bit1",
       creation   |-> creation,
       perms      |-> "S" :> ("x" :> {"read"}) @@ "T" :> ("x" :> readsT),
       functions  |-> "S" :> (IF sandboxed THEN {"f"} ELSE {}) @@ "T" :> {"f"},
       privileged |-> IF sandboxed THEN {"main"} ELSE {"main", "f"},
       access     |-> <<"m2", 1>> :> w1 @@ <<"m2", 3>> :> w2 @@ <<"f1", 2>> :> af
                        @@ (IF createS THEN <<"f1", 1>> :> Read("y") ELSE << >>),
       extern     |-> {"y"},
       layout     |-> "m1" :> 1 @@ "m2" :> 2 @@ "f1" :> 1,
       report     |-> {"main", "f"},
       pedantic   |-> pedantic ]

CreatingPrograms ==
  {Creating(c, s, b, g, Write(v1, d1), Write("x", TRUE), af, rT, ped) :
     c \in BOOLEAN, s \in {{}, {"m2"}}, b \in BOOLEAN, g \in {{"ext"}, {"main"}},
     v1 \in {"x", "y"}, d1 \in BOOLEAN,
     af \in {Write("x", TRUE), Write("y", TRUE), Read("x"), Read("y")},
     rT \in {{"read"}, {"write"}}, ped \in BOOLEAN}

(***************************************************************************)
(* main calls f, the entry point of S, whose blocks f1 and f2 may each     *)
(* begin with a limit annotation; f1 calls g, which main may call as well; *)
(* f2 and g make the system calls.                                         *)
(***************************************************************************)
Limiting(succF2, limits, a1, a2, sysF, sysG, platform) ==
  LET succ  == "m1" :> {} @@ "f1" :> {"f2"} @@ "f2" :> succF2 @@ "g1" :> {}
      call  == <<"m1", 1>> :> {"f", "g"} @@ <<"f1", 2>> :> {"g"}
                 @@ <<"f2", 2>> :> sysF @@ <<"g1", 1>> :> sysG
      allow == [c \in limits |-> IF c[1] = "f1" THEN a1 ELSE a2]
  IN [ analysis   |-> "syscalls",
       block      |-> DOMAIN succ,
       size       |-> "m1" :> 2 @@ "f1" :> 3 @@ "f2" :> 3 @@ "g1" :> 2,
       succ       |-> succ,
       fun        |-> "m1" :> "main" @@ "f1" :> "f" @@ "f2" :> "f" @@ "g1" :> "g",
       body       |-> "main" :> "m1" @@ "f" :> "f1" @@ "g" :> "g1",
       ret        |-> {b \in DOMAIN succ : succ[b] = {}},
       callees    |-> call,
       entryPoint |-> {"f"},
       seed       |-> [c \in limits |-> allow[c] \cap {"read", "write"}],
       box        |-> {"S"},
       limit      |-> "S" :> limits,
       allowed    |-> allow,
       boxCalls   |-> "S" :> {<<"f1", 2>>, <<"f2", 2>>, <<"g1", 1>>},
       calleesIn  |-> "S" :> call,
       report     |-> {<<"f2", 2>>, <<"g1", 1>>},
       platform   |-> platform ]

LimitingPrograms ==
  {Limiting(s, l, a1, a2, f, g, p) :
     s \in {{}, {"f2"}}, l \in SUBSET {<<"f1", 1>>, <<"f2", 1>>},
     a1 \in {{"read"}, {"read", "write", "printf"}}, a2 \in {{"read"}, {"write"}, {}},
     f \in {{"read"}, {"write"}, {"read", "printf"}}, g \in {{"read"}, {"write"}},
     p \in {{}, {{"read"}}}}

MCPrograms == ProgramsOf({2}) \cup CreatingPrograms \cup LimitingPrograms
MCFacts == {"A", "B", "bit0", "bit1", "read", "write"}

(* f as a compiler leaves it for while (1) { ... }: a bare branch first.   *)
BareEntryPrograms == ProgramsOf({1})
=============================================================================
