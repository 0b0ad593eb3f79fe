-------------------------- MODULE GlobalVariables --------------------------
(***************************************************************************)
(* GlobalVariableAnalysis: the data-flow engine with one fact per sandbox  *)
(* (the bit of its name), seeded where the sandbox is created, followed by *)
(* the two reports of postDataFlowAnalysis(): accesses of sandboxed code   *)
(* to unannotated globals, and writes of privileged code that a sandbox    *)
(* created earlier will not see.                                           *)
(*                                                                         *)
(* A program has, besides the fields of CFGFlow, a field analysis and, if  *)
(* that is "globals":                                                      *)
(*   box        the sandboxes                                              *)
(*   idx        [box -> bit of its name]                                   *)
(*   creation   [box -> its creation annotations]                          *)
(*   perms      [box -> [annotated global -> SUBSET {"read", "write"}]]    *)
(*   functions  [box -> the functions that run in it]                      *)
(*   privileged the functions that run outside                             *)
(*   access     [load or store -> [kind, var, direct]]: direct if the      *)
(*              pointer operand is the global itself, not a cast or GEP    *)
(*   extern     the globals defined in another module                      *)
(*   layout     [block -> its rank in its function's block list]           *)
(*   report     the functions shouldOutputWarningFor() accepts             *)
(*   pedantic   the command-line option                                    *)
(***************************************************************************)
EXTENDS CFGFlow

VARIABLES
  accessWarnings,  \* unannotated accesses reported
  lostUpdates      \* writes reported that sandboxes will miss

gvars == <<accessWarnings, lostUpdates>>

(* An annotation names the one sandbox that it creates; a bit belongs to   *)
(* one sandbox; the blocks of a function are in some order.                *)
GlobalsAssumption ==
  \A p \in {q \in Programs : q.analysis = "globals"} :
    /\ DOMAIN p.access \subseteq Instrs(p)
    /\ p.layout \in [p.block -> Nat]
    /\ \A b, d \in p.block : p.fun[b] = p.fun[d] /\ p.layout[b] = p.layout[d] => b = d
    /\ \A S, T \in p.box : p.idx[S] = p.idx[T] => S = T
    /\ \A S, T \in p.box : S # T => p.creation[S] \cap p.creation[T] = {}
    /\ p.seed = [c \in UNION {p.creation[S] : S \in p.box} |->
                   {p.idx[S] : S \in {T \in p.box : c \in p.creation[T]}}]
ASSUME GlobalsAssumption

(* The accesses of kind k in function F, and their textual order.          *)
Accesses(p, F, k) == {n \in DOMAIN p.access : p.fun[n[1]] = F /\ p.access[n].kind = k}

Before(p, n, m) ==
  \/ p.layout[n[1]] < p.layout[m[1]]
  \/ n[1] = m[1] /\ n[2] < m[2]

(* Mutant: one flag for all variables.                                     *)
FirstSiteOverall(p, sites) == {n \in sites : \A m \in sites : ~Before(p, m, n)}

(* What alreadyReported leaves: the first site of each variable.           *)
FirstSites(p, sites) ==
  {n \in sites : \A m \in sites : p.access[m].var = p.access[n].var => ~Before(p, m, n)}

Permitted(p, S, gv, k) == gv \in DOMAIN p.perms[S] /\ k \in p.perms[S][gv]

(* Writes to a global of another module are not looked at.                 *)
Unannotated(p, S, F, k) ==
  {n \in Accesses(p, F, k) :
     /\ ~Permitted(p, S, p.access[n].var, k)
     /\ k = "write" => p.access[n].var \notin p.extern}

AccessReport(p) ==
  {w \in [box : p.box, kind : {"read", "write"}, at : DOMAIN p.access] :
     LET F   == p.fun[w.at[1]]
         bad == Unannotated(p, w.box, F, w.kind)
     IN /\ F \in p.functions[w.box] \cap p.report
        /\ w.at \in IF p.pedantic THEN bad ELSE FirstSites(p, bad)}

(* The sandboxes that may read gv and whose creation reaches the store n.  *)
ReaderBits(p, gv) == {p.idx[S] : S \in {T \in p.box : Permitted(p, T, gv, "read")}}
Inconsistent(n) == ReaderBits(prog, prog.access[n].var) \cap state[n]

(* Mutant: only writes that all the readers miss.                          *)
LostSitesOfAllReaders(p, F) ==
  {n \in Accesses(p, F, "write") :
     /\ p.access[n].direct
     /\ Inconsistent(n) # {} /\ Inconsistent(n) = ReaderBits(p, p.access[n].var)}

LostSites(p, F) ==
  {n \in Accesses(p, F, "write") : p.access[n].direct /\ Inconsistent(n) # {}}

LostUpdateReport(p) ==
  {[at |-> n, boxes |-> Inconsistent(n)] :
     n \in UNION {FirstSites(p, LostSites(p, F)) : F \in p.privileged \cap p.report}}
-----------------------------------------------------------------------------
GInit == accessWarnings = {} /\ lostUpdates = {}

GPost ==
  /\ prog.analysis = "globals" /\ Post
  /\ accessWarnings' = AccessReport(prog)
  /\ lostUpdates' = LostUpdateReport(prog)

-----------------------------------------------------------------------------
Reported == phase = "done" /\ prog.analysis = "globals"

(***************************************************************************)
(* A lost update is reported of a function and a variable exactly if      *)
(* control can lead from the creation of a sandbox that may read the       *)
(* variable to a direct write in that privileged function, through any     *)
(* mixture of calls, returns and loops; and each sandbox that is named may *)
(* read it and is created before the write reported.                       *)
(***************************************************************************)
LostUpdatesExact ==
  Reported =>
    /\ \A F \in prog.privileged \cap prog.report : \A n \in Accesses(prog, F, "write") :
         \A S \in prog.box : \A c \in prog.creation[S] :
           /\ prog.access[n].direct
           /\ Permitted(prog, S, prog.access[n].var, "read")
           /\ Leads(prog, c, n)
           => \E w \in lostUpdates :
                prog.fun[w.at[1]] = F /\ prog.access[w.at].var = prog.access[n].var
    /\ \A w \in lostUpdates : \A i \in w.boxes : \E S \in prog.box :
         /\ prog.idx[S] = i
         /\ Permitted(prog, S, prog.access[w.at].var, "read")
         /\ \E c \in prog.creation[S] : Leads(prog, c, w.at)

(***************************************************************************)
(* Suppressing repetitions hides no variable: whatever sandboxed function  *)
(* touches a global against its annotations is reported for that global    *)
(* and sandbox, and without Pedantic only once.                            *)
(***************************************************************************)
AccessesReported ==
  Reported =>
    \A S \in prog.box : \A k \in {"read", "write"} :
      \A F \in prog.functions[S] \cap prog.report : \A n \in Unannotated(prog, S, F, k) :
        LET about == {w \in accessWarnings :
                        /\ w.box = S /\ w.kind = k /\ prog.fun[w.at[1]] = F
                        /\ prog.access[w.at].var = prog.access[n].var}
        IN about # {} /\ (prog.pedantic \/ Cardinality(about) = 1)
=============================================================================
