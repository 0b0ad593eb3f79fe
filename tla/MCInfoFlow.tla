----------------------------- MODULE MCInfoFlow -----------------------------
(***************************************************************************)
(* Small programs for InfoFlow and Analyses.  S is a sandbox with entry    *)
(* point e(), T one with t().  Facts are labels, system calls, and         *)
(* functions for the analyses of function pointers.                        *)
(***************************************************************************)
EXTENDS Analyses, TLC

MCFacts == {"x", "y", "f", "g", "h", "sandbox", "declassified", "read", "write"}

Of(kind, vs) == [v \in vs |-> kind]

GraphOf(boxes, calls, edges) ==
  [z \in calls \X ({PRIV, NONE, SINGLE} \cup boxes) |->
     IF z \in DOMAIN edges THEN edges[z] ELSE {}]
Graph(calls, edges) == GraphOf({"S"}, calls, edges)

Plain ==
  [ extern |-> {}, name |-> << >>, base |-> << >>, holds |-> << >>, this |-> << >>,
    main |-> {"main"}, entry |-> "S" :> {"e"}, gates |-> "S" :> {},
    analysis |-> "none", silent |-> {}, report |-> {}, must |-> FALSE, insensitive |-> FALSE,
    tracking |-> FALSE, fits |-> << >> ]

(***************************************************************************)
(* main() loads the global G, passes it to f() and what it gets back to    *)
(* e(), merges, stores and loads again; e() calls f(), which calls itself. *)
(***************************************************************************)
Shared(seed, inS, analysis) ==
  analysis @@
  [ kind  |-> Of("global", {"G"}) @@ Of("alloca", {"A"}) @@ Of("arg", {"fa", "ea"})
               @@ Of("function", {"f", "e"}) @@ Of("load", {"l1", "l2", "l3"})
               @@ Of("call", {"c1", "c2", "c3", "c4"}) @@ Of("phi", {"ph", "pm"})
               @@ Of("binop", {"b"}) @@ Of("store", {"s"}) @@ Of("ret", {"rf", "re"}),
    ops   |-> "l1" :> <<"G">> @@ "c1" :> <<"l1">> @@ "c2" :> <<"c1">> @@ "pm" :> <<"l1", "c1">>
               @@ "s" :> <<"pm", "A">> @@ "l2" :> <<"A">> @@ "b" :> <<"l2">>
               @@ "l3" :> <<"G">> @@ "ph" :> <<"fa", "c3">> @@ "c3" :> <<"ph">> @@ "rf" :> <<"ph">>
               @@ "c4" :> <<"ea">> @@ "re" :> <<"c4">>,
    fun   |-> Of("main", {"l1", "c1", "c2", "pm", "s", "l2", "b"})
               @@ Of("f", {"fa", "ph", "c3", "rf", "l3"}) @@ Of("e", {"ea", "c4", "re"}),
    param |-> "main" :> << >> @@ "f" :> <<"fa">> @@ "e" :> <<"ea">>,
    valist |-> Of({}, {"main", "f", "e"}),
    called |-> "c1" :> "f" @@ "c2" :> "e" @@ "c3" :> "f" @@ "c4" :> "f",
    graph |-> Graph({"c1", "c2", "c3", "c4"},
                Of({"f"}, {<<"c1", PRIV>>, <<"c3", PRIV>>}) @@ <<"c2", PRIV>> :> {"e"}
                  @@ (IF inS THEN Of({"f"}, {<<"c3", "S">>, <<"c4", "S">>}) ELSE << >>)),
    seed  |-> seed ] @@ Plain

(***************************************************************************)
(* main() passes the object O, through a select, to e() and h(), which     *)
(* store a parameter into a member of it; strcpy() writes to one as well.  *)
(***************************************************************************)
Aggregate(seed, stripped, analysis) ==
  analysis @@
  [ kind  |-> Of("alloca", {"O", "pv"}) @@ Of("arg", {"ha", "hb", "ea", "ta"})
               @@ Of("function", {"h", "e", "t"}) @@ Of("load", {"lv"}) @@ Of("gep", {"m", "n"})
               @@ Of("select", {"sel"}) @@ Of("annot", {"an"}) @@ Of("intrinsic", {"dbg"})
               @@ Of("call", {"c1", "c2", "cpy"}) @@ Of("constant", {"k"})
               @@ Of("global", {"G"}) @@ Of("store", {"s0", "s1"}),
    ops   |-> "sel" :> <<"O", "n">> @@ "c1" :> <<"sel", "G", "k">> @@ "c2" :> <<"O">>
               @@ "k" :> <<"G">> @@ "n" :> <<"O">> @@ "cpy" :> <<"n", "G">> @@ "dbg" :> <<"G">>
               @@ "s0" :> <<"ha", "pv">> @@ "lv" :> <<"pv">> @@ "an" :> <<"lv">>
               @@ "m" :> <<"an">> @@ "s1" :> <<"hb", "m">>,
    fun   |-> Of("main", {"O", "sel", "c1", "c2", "n", "cpy", "dbg"}) @@ "ea" :> "e"
               @@ Of("h", {"ha", "hb", "pv", "s0", "lv", "an", "m", "s1"}) @@ "ta" :> "t",
    param |-> "main" :> << >> @@ "h" :> <<"ha", "hb">> @@ "e" :> <<"ea">> @@ "t" :> <<"ta">>,
    valist |-> "h" :> {"pv"} @@ Of({}, {"main", "e", "t"}),
    called |-> "c1" :> "h" @@ "c2" :> "e" @@ "cpy" :> "h",
    extern |-> {"cpy"},
    name  |-> "cpy" :> "strcpy",
    base  |-> IF stripped THEN "m" :> "an" @@ "n" :> "O" ELSE << >>,
    holds |-> "pv" :> "ha",
    this  |-> "O" :> {"ta"},
    graph |-> Graph({"c1", "c2", "cpy"}, <<"c1", PRIV>> :> {"h"} @@ <<"c2", PRIV>> :> {"e"}),
    seed  |-> seed ] @@ Plain

(***************************************************************************)
(* main() calls through lp, loaded from P, passing a pointer loaded from   *)
(* Q; f() calls its parameter.  In S, e() calls through its own.           *)
(***************************************************************************)
Pointers(seed, fits) ==
  [ kind  |-> Of("alloca", {"P", "Q"}) @@ Of("global", {"N"}) @@ Of("arg", {"fa", "ga", "ea"}) @@ Of("load", {"lp", "lq"})
               @@ Of("call", {"c1", "c2", "c3", "c4"}) @@ Of("function", {"ef"}),
    ops   |-> "lp" :> <<"P">> @@ "lq" :> <<"Q">> @@ "c1" :> <<"lq">> @@ "c2" :> <<"N">>
               @@ "c3" :> <<"lp">> @@ "c4" :> <<"N">>,
    fun   |-> Of("main", {"P", "Q", "lp", "lq", "c1", "c3"}) @@ Of("f", {"fa", "c2"})
               @@ "ga" :> "g" @@ Of("e", {"ea", "c4"}),
    param |-> "main" :> << >> @@ "f" :> <<"fa">> @@ "e" :> <<"ea">> @@ "g" :> <<"ga">>,
    valist |-> Of({}, {"main", "f", "e", "g"}),
    called |-> "c1" :> "lp" @@ "c2" :> "fa" @@ "c3" :> "ef" @@ "c4" :> "ea",
    graph |-> Graph({"c1", "c2", "c3", "c4"}, <<"c3", PRIV>> :> {"e"}),
    tracking |-> TRUE,
    fits  |-> Of(fits, {"lp", "fa"}) @@ "ea" :> {"f", "g", "h"} @@ "ef" :> {"f", "g", "h"},
    seed  |-> seed ] @@ Plain

(***************************************************************************)
(* e() passes what it keeps in V on: to a global, into a member of what    *)
(* its parameter points to, to a callgate g(), to a function without body, *)
(* to the environment, to t() and to its caller; otherwise what it loads   *)
(* of G.  t() and g() keep what they get, and load it; main() calls what   *)
(* e() returned, by way of Q.                                              *)
(***************************************************************************)
Passing(ways, rest) ==
  LET v(way) == IF way \in ways THEN "lv" ELSE "lx"
  IN rest @@
  [ kind  |-> Of("alloca", {"V", "O", "Q", "pt", "pg"}) @@ Of("arg", {"ea", "ta", "ga"})
               @@ Of("intrinsic", {"an"}) @@ Of("global", {"G", "K"}) @@ Of("gep", {"m"})
               @@ Of("load", {"lv", "lx", "lp", "lt", "lg", "lm", "lo", "lq"}) @@ Of("annot", {"pa"})
               @@ Of("function", {"e", "g", "t", "x", "setenv"}) @@ Of("ret", {"re"})
               @@ Of("call", {"c1", "ci", "cm", "cg", "ct", "cx", "cs"}) @@ Of("store", {"st", "sg", "sv", "sm", "sq"}),
    ops   |-> "lm" :> <<"G">> @@ "c1" :> <<"O">> @@ "lo" :> <<"O">>
               @@ "sq" :> <<"c1", "Q">> @@ "lq" :> <<"Q">> @@ "ci" :> << >> @@ "cm" :> <<"K">>
               @@ "an" :> <<"V">> @@ "lv" :> <<"V">> @@ "lx" :> <<"G">> @@ "m" :> <<"ea">>
               @@ "pa" :> <<"m">> @@ "lp" :> <<"pa">> @@ "sv" :> <<v("global"), "K">>
               @@ "sm" :> <<v("member"), "m">> @@ "cg" :> <<v("gate")>> @@ "cx" :> <<v("extern")>>
               @@ "cs" :> <<"K", v("env")>> @@ "ct" :> <<v("cross")>> @@ "re" :> <<v("return")>>
               @@ "st" :> <<"ta", "pt">> @@ "lt" :> <<"pt">> @@ "sg" :> <<"ga", "pg">> @@ "lg" :> <<"pg">>,
    fun   |-> Of("main", {"lm", "O", "c1", "lo", "Q", "sq", "lq", "ci", "cm"})
               @@ Of("e", {"ea", "an", "V", "lv", "lx", "m", "pa", "lp", "sv", "sm", "cg", "cx", "cs", "ct", "re"})
               @@ Of("t", {"ta", "pt", "st", "lt"}) @@ Of("g", {"ga", "pg", "sg", "lg"}),
    param |-> "main" :> << >> @@ "e" :> <<"ea">> @@ "t" :> <<"ta">> @@ "g" :> <<"ga">>,
    valist |-> Of({}, {"main", "e", "t", "g"}),
    called |-> "c1" :> "e" @@ "ci" :> "lq" @@ "cm" :> "g" @@ "cg" :> "g" @@ "ct" :> "t" @@ "cx" :> "x" @@ "cs" :> "setenv",
    extern |-> {"cx", "cs"}, name |-> "cs" :> "setenv",
    graph |-> GraphOf({"S", "T"}, {"c1", "ci", "cm", "cg", "ct", "cx", "cs"},
                <<"c1", PRIV>> :> {"e"} @@ <<"cg", "S">> :> {"g"} @@ <<"ct", "S">> :> {"t"}
                  @@ <<"cx", "S">> :> {"x"} @@ <<"cs", "S">> :> {"setenv"} @@ <<"cm", PRIV>> :> {"g"}),
    entry |-> "S" :> {"e"} @@ "T" :> {"t"}, gates |-> "S" :> {"g"} @@ "T" :> {},
    cast |-> << >>, report |-> {"main", "e", "t", "g"}, after |-> << >> ] @@ Plain

Origin ==
  [analysis |-> "origin", seed |-> <<"c1", PRIV>> :> {"sandbox"}]

Classified ==
  [ analysis |-> "classified", classes |-> "pa" :> {"x"} @@ "G" :> {"y"},
    clearance |-> "S" :> {"y"} @@ "T" :> {},
    seed |-> <<"m", NONE>> :> {"x"} @@ <<"G", NONE>> :> {"y"} ]

(* V is private to S; or G to T, and a member to S.                        *)
PrivateV(keep) ==
  [ analysis |-> "private", private |-> "S" :> {"an"} @@ "T" :> {}, variable |-> "an" :> "V",
    source |-> "x" :> <<"S", "an">>, keep |-> keep, seed |-> <<"V", "S">> :> {"x"} ]

PrivateG ==
  [ analysis |-> "private", private |-> "S" :> {"pa"} @@ "T" :> {"G"}, variable |-> << >>,
    source |-> "x" :> <<"S", "pa">> @@ "y" :> <<"T", "lm">> @@ "f" :> <<"T", "lx">>, keep |-> "all",
    silent |-> {<<"G", PRIV>>, <<"G", "S">>},
    seed |-> <<"pa", "S">> :> {"x"} @@ Of({"y"}, {<<"lm", PRIV>>, <<"G", PRIV>>})
               @@ Of({"f"}, {<<"lx", "S">>, <<"G", "S">>}) ]

(***************************************************************************)
(* e() reads and writes what it is passed, what it gets for the key k1,    *)
(* what is kept in a member of O, the descriptor k2, and a merge of two.   *)
(***************************************************************************)
Descriptors(key, rest) ==
  LET ios == {"r1", "w1", "w2", "r3", "w4", "r5"}
      reads == {"r1", "r3", "r5"}
      calls == ios \cup {"c1", "get"}
  IN rest @@
  [ kind  |-> Of("alloca", {"O"}) @@ Of("arg", {"ea"}) @@ Of("constant", {"k0", "k1", "k2"})
               @@ Of("gep", {"m"}) @@ Of("load", {"lm"}) @@ Of("phi", {"ph"}) @@ Of("call", calls)
               @@ Of("function", {"e", "fd", "read", "write"}),
    ops   |-> "c1" :> <<"k0">> @@ "get" :> <<key>> @@ "m" :> <<"O">> @@ "lm" :> <<"m">>
               @@ "ph" :> <<"ea", "get">> @@ "r1" :> <<"ea">> @@ "w1" :> <<"ea">> @@ "w2" :> <<"get">>
               @@ "r3" :> <<"lm">> @@ "w4" :> <<"k2">> @@ "r5" :> <<"ph">>,
    fun   |-> "c1" :> "main" @@ Of("e", ios \cup {"ea", "get", "O", "m", "lm", "ph"}),
    param |-> "main" :> << >> @@ "e" :> <<"ea">>, valist |-> Of({}, {"main", "e"}),
    called |-> "c1" :> "e" @@ "get" :> "fd" @@ [u \in ios |-> IF u \in reads THEN "read" ELSE "write"],
    extern |-> ios \cup {"get"},
    graph |-> Graph(calls, <<"c1", PRIV>> :> {"e"} @@ <<"get", "S">> :> {"fd"}
                @@ [z \in ios \X {"S"} |-> IF z[1] \in reads THEN {"read"} ELSE {"write"}]),
    cast |-> << >>, report |-> {"e"}, fdArg |-> Of(1, {"read", "write"}),
    caps |-> "S" :> ("ea" :> {"read"}), must |-> TRUE ] @@ Plain

Fds(grants, platform) ==
  LET allowed(v) == IF v \in DOMAIN grants THEN grants[v] ELSE {}
  IN [ analysis |-> "fds", grants |-> grants, keys |-> "k1" :> {"write", "read"}, getter |-> "fd" :> 1,
       permitted |-> Of({"read", "write"}, {"r1", "w1", "w2", "r3", "w4"}) @@ "r5" :> {"write"},
       platform |-> platform ]

FdsOf(key, grants, platform) ==
  Descriptors(key,
    ("seed" :> (<<"ea", "S">> :> {"read"}
       @@ (IF key \in {"k0", "k1"} THEN <<"get", "S">> :> IF key = "k1" THEN {"write", "read"} ELSE {} ELSE << >>)
       @@ (IF "lm" \in DOMAIN grants THEN Of(grants["lm"], {"lm", "m", "O"} \X {NONE}) ELSE << >>)
       @@ (IF "k2" \in DOMAIN grants THEN <<"k2", NONE>> :> grants["k2"] ELSE << >>)))
    @@ Fds(grants, platform))

(***************************************************************************)
(* V is declassified in the first of two blocks, and loaded before, after  *)
(* and in the second; e() keeps what it is passed.                         *)
(***************************************************************************)
Declassifying(rest) ==
  rest @@
  [ kind  |-> Of("alloca", {"V", "pe"}) @@ Of("load", {"l1", "l2", "l3", "le"}) @@ Of("other", {"bc"})
               @@ Of("arg", {"ea"}) @@ Of("phi", {"ph"}) @@ Of("call", {"dc", "c1"}) @@ Of("store", {"s"})
               @@ Of("intrinsic", {"an"}) @@ Of("function", {"e", "declassify"}) @@ Of("global", {"G"}),
    ops   |-> "an" :> <<"V">> @@ "l1" :> <<"V">> @@ "bc" :> <<"l1">> @@ "dc" :> <<"bc">> @@ "l2" :> <<"V">>
               @@ "l3" :> <<"V">> @@ "ph" :> <<"l2", "l3">> @@ "c1" :> <<"ph">> @@ "s" :> <<"ea", "pe">>
               @@ "le" :> <<"pe">>,
    fun   |-> Of("main", {"V", "an", "l1", "bc", "dc", "l2", "l3", "ph", "c1"})
               @@ Of("e", {"ea", "pe", "s", "le"}),
    param |-> "main" :> << >> @@ "e" :> <<"ea">>, valist |-> Of({}, {"main", "e"}),
    called |-> "dc" :> "declassify" @@ "c1" :> "e", extern |-> {"dc"},
    graph |-> Graph({"dc", "c1"}, <<"dc", PRIV>> :> {"declassify"} @@ <<"c1", PRIV>> :> {"e"}),
    cast |-> "bc" :> "l1", after |-> "dc" :> {"dc", "l2"}, report |-> {"main", "e"},
    block |-> Of("b1", {"l1", "bc", "dc", "l2"}) @@ Of("b2", {"l3", "ph", "c1"}),
    succ |-> "b1" :> {"b2"} @@ "b2" :> {} ] @@ Plain

Declassifier ==
  [ analysis |-> "declassified", must |-> TRUE, insensitive |-> TRUE,
    seed |-> Of({"declassified"}, {"l2", "l3"} \X {NONE}) ]

(***************************************************************************)
(* Functions are stored in P and a member of O, selected, passed to h()    *)
(* and e(), and named in an annotation of P.  k() stores one in a member   *)
(* of what it is passed, which main() loads from O and has stored one in.  *)
(***************************************************************************)
Targets(rest) ==
  LET calls == {"c1", "c2", "c3", "c4", "c5", "c6", "c7"}
      all == {"f", "g", "h"}
  IN rest @@
  [ kind  |-> Of("alloca", {"P", "O"}) @@ Of("load", {"lp", "lo"}) @@ Of("arg", {"ha", "ea", "ka"})
               @@ Of("gep", {"m", "n"}) @@ Of("select", {"sel"}) @@ Of("call", calls)
               @@ Of("store", {"s1", "s2", "s3", "s4"}) @@ Of("function", all \cup {"e", "k"})
               @@ Of("other", {"bg"}) @@ Of("intrinsic", {"an"}),
    ops   |-> "an" :> <<"P">> @@ "s1" :> <<"f", "P">> @@ "lp" :> <<"P">> @@ "c1" :> << >>
               @@ "m" :> <<"O">> @@ "s2" :> <<"g", "m">> @@ "lo" :> <<"O">> @@ "bg" :> <<"g">>
               @@ "sel" :> <<"lp", "bg">> @@ "c2" :> << >> @@ "c3" :> <<"f">> @@ "c4" :> << >>
               @@ "c5" :> <<"f">> @@ "c6" :> << >> @@ "s4" :> <<"f", "lo">> @@ "c7" :> <<"lo">>
               @@ "n" :> <<"ka">> @@ "s3" :> <<"h", "n">>,
    fun   |-> Of("main", {"an", "P", "s1", "lp", "c1", "O", "m", "s2", "lo", "bg", "sel", "c2", "c3", "c5",
                          "s4", "c7"}) @@ Of("k", {"ka", "n", "s3"})
               @@ Of("h", {"ha", "c4"}) @@ Of("e", {"ea", "c6"}),
    param |-> "main" :> << >> @@ "h" :> <<"ha">> @@ "e" :> <<"ea">> @@ "k" :> <<"ka">>,
    valist |-> Of({}, {"main", "h", "e", "k"}),
    called |-> "c1" :> "lp" @@ "c2" :> "sel" @@ "c3" :> "h" @@ "c4" :> "ha" @@ "c5" :> "e" @@ "c6" :> "ea"
               @@ "c7" :> "k",
    graph |-> Graph(calls, <<"c3", PRIV>> :> {"h"} @@ <<"c5", PRIV>> :> {"e"}
                @@ <<"c7", PRIV>> :> {"k"}),
    fits  |-> Of({"f", "g"}, {"lp", "sel", "ha", "ea"}) @@ Of({}, {"h", "e", "k"}),
    cast |-> "bg" :> "g", tracking |-> TRUE ] @@ Plain

Annotations ==
  [ analysis |-> "annotated", variable |-> "an" :> "P", targets |-> "an" :> {"g", "h"},
    taken |-> <<"f", "g">>, seed |-> <<"P", PRIV>> :> {"f", "g"} ]

Inferred ==
  [ analysis |-> "inferred", initial |-> {"g"}, order |-> <<"s1", "s2", "sel", "c3", "c5", "s4", "c7", "s3">>,
    seed |-> <<"P", PRIV>> :> {"f"} @@ <<"m", PRIV>> :> {"g"} @@ <<"O", PRIV>> :> {"f", "g", "h"}
               @@ <<"lo", PRIV>> :> {"f", "h"} @@ Of({"h"}, {"n", "ka"} \X {PRIV}) @@ <<"sel", PRIV>> :> {"g"}
               @@ Of({"f"}, {"ha", "ea"} \X {PRIV}) @@ <<"g", NONE>> :> {"g"} ]

May == << >>
Single == [insensitive |-> TRUE]
Must == [must |-> TRUE]

EnginePrograms ==
  {Shared(sd, TRUE, an) :
     sd \in {<<"G", NONE>> :> {"x"} @@ <<"ea", "S">> :> {"y"},
             <<"c2", PRIV>> :> {"y"} @@ <<"G", PRIV>> :> {"x", "y"} @@ <<"b", PRIV>> :> {"x"}},
     an \in {May, Single}}
  \cup {Shared(sd, inS, Must) :
          inS \in BOOLEAN,
          sd \in {<<"G", PRIV>> :> {"x"}, <<"ea", "S">> :> {"x", "y"} @@ <<"c3", PRIV>> :> {"x"},
                  <<"G", PRIV>> :> {"x", "y"} @@ <<"c3", PRIV>> :> {"x"}}}
  \cup {Aggregate(sd, st, May) :
          st \in BOOLEAN,
          sd \in {<<"G", NONE>> :> {"x"}, <<"G", PRIV>> :> {"x"} @@ <<"sel", PRIV>> :> {"y"}}}
  \cup {Aggregate(<<"G", PRIV>> :> {"x"}, TRUE, Single)}
  \cup {Pointers(sd, ft) :
          ft \in {{"f", "g"}, {"f"}},
          sd \in {<<"P", PRIV>> :> {"f", "h"}, <<"P", PRIV>> :> {"f", "g"} @@ <<"ea", "S">> :> {"g"}}}

AnalysedPrograms ==
  {Passing({"return"}, an) : an \in {Origin, Classified, PrivateG}}
  \cup {Passing({way}, PrivateV("all")) : way \in {"gate", "member", "global"}}
  \cup {Passing({"env", "extern", "cross"}, PrivateV("some"))}
  \cup {FdsOf("k1", << >>, {}), FdsOf("k0", "lm" :> {"read"} @@ "k2" :> {"write"}, {{"read", "write"}}),
        FdsOf("O", "lm" :> {"write"}, {{"write"}})}
  \cup {Descriptors("k1", [analysis |-> "capability", seed |-> <<"ea", "S">> :> {"read"}])}
  \cup {Declassifying(Declassifier)} \cup {Targets(an) : an \in {Annotations, Inferred}}

MCPrograms == EnginePrograms \cup AnalysedPrograms

(* V holds data private to S, and is declassified before it is passed on.  *)
DeclassifiedPrograms ==
  {Declassifying(
     [ analysis |-> "private", private |-> "S" :> {"an"}, variable |-> "an" :> "V", keep |-> "all",
       source |-> "x" :> <<"S", "an">>, seed |-> <<"V", PRIV>> :> {"x"} ])}

(* What e() is passed in S is classified, and returned to main().          *)
ResultPrograms == {Shared(<<"ea", "S">> :> {"y"}, TRUE, May)}
=============================================================================
