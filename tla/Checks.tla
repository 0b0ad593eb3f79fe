------------------------------ MODULE Checks ------------------------------
(***************************************************************************)
(* The pass as a whole (Soaap::runOnModule()): options, sandboxes, call    *)
(* graph, then the checks that are chosen.  Those that need no data-flow   *)
(* analysis are here, with the traces they ask for: the RPC graph, rights  *)
(* leaked by vulnerable code, calls of privileged functions, functions     *)
(* that are only to run in sandboxes.  The others are modelled by          *)
(* GlobalVariables, SysCalls, CreationPoints and Analyses.                 *)
(*                                                                         *)
(* A program has, besides the fields of Sandboxes:                         *)
(*   opt      [os, platform, chosen, mode, perf, list, rights, vendors,    *)
(*            libs, traces]: the command line                              *)
(*   report   the functions shouldOutputWarningFor() accepts               *)
(*   points   the calls of __soaap_past_vulnerability_at_point             *)
(*   vendor, lib    [function -> where it comes from]                      *)
(*   passed   [call -> functions among its arguments]                      *)
(*   send     [call -> [to, type]]                                         *)
(*   recv     [call -> [type, handler]]; None: received synchronously      *)
(*   first    [function -> its first block]                                *)
(***************************************************************************)
EXTENDS CallPaths

VARIABLES
  setting,     \* [platform, analyses] once the command line is processed
  ran,         \* what has been done, in order
  links,       \* rpcLinks
  drawn,       \* edges within clusters of rpcgraph.dot
  leaks,       \* vulnerability warnings
  privCalls,   \* calls of privileged functions that are reported
  misplaced    \* functions reported to run where they must not

reportVars == <<links, drawn, leaks, privCalls, misplaced>>
cvars == <<vars, pathVars, setting, ran, reportVars>>

(* Annotations and the functions of a gate are lists, as the module has    *)
(* them; entry points are functions; what is annotated as private is a     *)
(* variable, or an instruction.  Messages are sent and received by calls.  *)
ASSUME ReportsAssumption ==
  \A p \in Programs :
    /\ p.annots \in Seq(Elements(p.annots))
    /\ \A a \in Annots(p, "persistent") \cup Annots(p, "ephemeral") : a.on \in p.functions
    /\ \A m \in DOMAIN p.gates : p.gates[m] \in Seq(p.functions)
    /\ \A a \in Annots(p, "private") : a.on \notin Instrs(p)
    /\ DOMAIN p.send \cup DOMAIN p.recv \subseteq DOMAIN p.call

(* The values that the command line takes (CmdLineOpts.cpp).               *)
ASSUME OptionsAssumption ==
  \A p \in Programs :
    /\ p.opt.os \in {"freebsd", "linux"}
    /\ p.opt.platform \in {"none", "annotated", "capsicum", "chroot", "seccomp", "seccompbpf"} \ {None}

CheckNames == {"vuln", "globals", "syscalls", "privcalls", "sandboxedfuncs", "infoflow"}
CheckOrder == <<"vuln", "globals", "syscalls", "privcalls", "sandboxedfuncs", "infoflow">>

-----------------------------------------------------------------------------
(* processCmdLineArgs().                                                   *)
PlatformNeeds == [capsicum |-> "freebsd", seccomp |-> "linux", seccompbpf |-> "linux"]

Unsupported(o) == o.platform \in DOMAIN PlatformNeeds /\ o.os # PlatformNeeds[o.platform]

(* Mutant: "all" is not expanded.                                          *)
AnalysesAsChosen(o) ==
  CASE o.mode = "vuln" -> {"vuln"}
    [] o.mode = "correct" -> {"globals", "syscalls", "privcalls", "sandboxedfuncs"}
    [] o.mode = "infoflow" -> {"infoflow"}
    [] o.mode = "all" -> CheckNames
    [] o.mode = "custom" -> IF o.chosen = {} THEN CheckNames ELSE o.chosen
    [] OTHER -> {}

(* A mode overrides the analyses chosen.                                   *)
AnalysesOf(o) ==
  CASE o.mode = "vuln" -> {"vuln"}
    [] o.mode = "correct" -> {"globals", "syscalls", "privcalls", "sandboxedfuncs"}
    [] o.mode = "infoflow" -> {"infoflow"}
    [] o.mode = "all" -> CheckNames
    [] o.mode = "custom" -> IF o.chosen = {} \/ "all" \in o.chosen THEN CheckNames ELSE o.chosen
    [] OTHER -> {}

TracesOf(o) ==
  IF o.traces = {} THEN {"vuln"} ELSE IF "all" \in o.traces THEN CheckNames ELSE o.traces

(* With annotations only, there is no platform object; nor for chroot.     *)
PlatformOf(o) == IF o.platform \in {"annotated", "chroot"} THEN None ELSE o.platform

ProcessCmdLineArgs ==
  /\ setting = None
  /\ IF Unsupported(prog.opt)
     THEN phase' = "exited" /\ setting' = [platform |-> None, analyses |-> {}, traces |-> {}]
     ELSE /\ UNCHANGED phase
          /\ setting' = [platform |-> PlatformOf(prog.opt), analyses |-> AnalysesOf(prog.opt),
                         traces |-> TracesOf(prog.opt)]
  /\ UNCHANGED <<prog, findVars, initVars, pathVars, ran, reportVars>>

(* doesProvideProtection().                                                *)
Protects(platform) == platform # "none"

-----------------------------------------------------------------------------
(* Traces are emitted with the reports that were chosen to have them.      *)
AskFor(name, queries) == asked' = IF name \in setting.traces THEN queries ELSE {}

(* RPCGraph::build().  The iterator over privileged instructions does not  *)
(* look at the first one of a function, but takes it.                      *)
TakenUnseen(n) ==
  FunctionOf(prog, n) \in privileged /\ n = prog.body[prog.first[FunctionOf(prog, n)]][1]

PrivInsts == {n \in Instrs(prog) : TakenUnseen(n) \/ IsPrivilegedInstruction(n)}

CallsOf(x) == IF x = Priv THEN PrivInsts ELSE BagToSet(info[x].calls)

(* getSandboxWithName(): the first of that name; NULL, the privileged      *)
(* context, if there is none.                                              *)
WithName(n) == IF Named(n) = {} THEN Priv ELSE CHOOSE S \in Named(n) : \A T \in Named(n) : S <= T

Handler(c) == IF prog.recv[c].handler = None THEN FunctionOf(prog, c) ELSE prog.recv[c].handler

Receives(x, type) == {c \in DOMAIN prog.recv \cap CallsOf(x) : prog.recv[c].type = type}

(* Mutant: one table of handlers for all domains.                          *)
HandlersAnywhere(x, type) ==
  LET all == {c \in DOMAIN prog.recv : prog.recv[c].type = type}
  IN IF all = {} THEN {None} ELSE {Handler(c) : c \in all}

(* The handler of a type that is looked at last stays; functions are       *)
(* looked at in no fixed order.                                            *)
HandlersOf(x, type) ==
  IF Receives(x, type) = {} THEN {None} ELSE {Handler(c) : c \in Receives(x, type)}

Types == {prog.send[c].type : c \in DOMAIN prog.send} \cup {prog.recv[c].type : c \in DOMAIN prog.recv}

Links(handler) ==
  {[at |-> c, from |-> x, type |-> prog.send[c].type, to |-> WithName(prog.send[c].to),
    handler |-> handler[<<WithName(prog.send[c].to), prog.send[c].type>>]] :
     c \in DOMAIN prog.send, x \in Boxes \cup {Priv}}

(* dump(): functions of one domain that send or handle messages, where one *)
(* leads to the other.                                                     *)
Cluster(L, x) ==
  {FunctionOf(prog, l.at) : l \in {k \in L : k.from = x}}
    \cup {l.handler : l \in {k \in L : k.to = x /\ k.handler # None}}

(* Mutant: only calls of one by the other.                                 *)
ClusterCalls(L) ==
  UNION {{<<x, FunctionOf(prog, e[1]), e[2]>> :
            e \in {d \in graph[x] : {FunctionOf(prog, d[1]), d[2]} \subseteq Cluster(L, x)}} :
           x \in Boxes \cup {Priv}}

ClusterEdges(L) ==
  UNION {{<<x, e[1], e[2]>> : e \in {d \in Cluster(L, x) \X Cluster(L, x) :
                                    d[1] # d[2] /\ IsReachableFrom(d[1], d[2], x)}} :
           x \in Boxes \cup {Priv}}

BuildRPCGraph ==
  \E h \in [(Boxes \cup {Priv}) \X Types -> prog.functions \cup {None}] :
    /\ \A e \in DOMAIN h : h[e] \in HandlersOf(e[1], e[2])
    /\ links' = {l \in Links(h) : l.at \in CallsOf(l.from)}
    /\ IF prog.opt.dump
       THEN /\ drawn' = ClusterEdges(links')
            /\ asked' = {<<FunctionOf(prog, l.at), l.from>> : l \in links'}
       ELSE UNCHANGED <<drawn, asked>>

-----------------------------------------------------------------------------
(* VulnerabilityAnalysis.                                                  *)
PastVulnerable ==
  {FunctionOf(prog, n) : n \in prog.points} \cup {a.on : a \in Annots(prog, "vulnerable")}

From(where, names1) == {f \in DOMAIN where : where[f] \in names1}

VulnerableFuncs ==
  ((PastVulnerable \cup From(prog.vendor, prog.opt.vendors)) \cap prog.report)
    \cup From(prog.lib, prog.opt.libs)

(* What a sandbox has been given.                                          *)
GlobalRights(S) ==
  UNION {{<<"global", v, k>> : k \in info[S].perms[v]} : v \in DOMAIN info[S].perms}
DescriptorRights(S) ==
  {<<"fd", n, info[S].caps[n]>> : n \in {m \in DOMAIN info[S].caps : info[S].caps[m] # {}}}
CallgateRights(S) == {<<"callgate", f>> : f \in Elements(info[S].gates)}
PrivateRights(S) == {<<"private", d>> : d \in info[S].private}
Rights(S) ==
  GlobalRights(S) \cup DescriptorRights(S) \cup CallgateRights(S) \cup PrivateRights(S)

Leak(f, x, rights) == [fun |-> f, box |-> x, rights |-> rights]
Ambient == {<<"ambient">>}
Leaked(S) ==
  IF ~Protects(setting.platform) THEN Ambient ELSE IF prog.opt.rights THEN Rights(S) ELSE {}

(* Mutant: functions that may also run with privileges are left out.       *)
LeaksOfUnprivileged ==
  {l \in {Leak(f, S, Leaked(S)) : f \in VulnerableFuncs \ privileged, S \in Boxes} :
     l.fun \in info[l.box].functions}

LeaksInSandboxes ==
  {l \in {Leak(f, S, Leaked(S)) : f \in VulnerableFuncs, S \in Boxes} :
     l.fun \in info[l.box].functions}

PrivilegedLeaks == {Leak(f, Priv, Ambient) : f \in VulnerableFuncs \cap privileged}

(* A null pointer is followed: there is no platform to ask, or a file      *)
(* descriptor comes in a structure and not as a parameter.                 *)
FollowsNull ==
  \E f \in VulnerableFuncs : \E S \in Boxes :
    /\ f \in info[S].functions
    /\ \/ setting.platform = None
       \/ /\ Protects(setting.platform) /\ prog.opt.rights
          /\ \E n \in DOMAIN info[S].caps : info[S].caps[n] # {} /\ prog.note[n].box # None

CheckLeakedRights ==
  /\ leaks' = LeaksInSandboxes \cup PrivilegedLeaks
  /\ AskFor("vuln", {<<l.fun, l.box>> : l \in {k \in leaks' : k.box = Priv \/ k.rights # Ambient}})

-----------------------------------------------------------------------------
(* PrivilegedCallAnalysis: calls that use a privileged function, called or *)
(* passed.                                                                 *)
PrivilegedUses ==
  {e \in (DOMAIN prog.call) \X {a.on : a \in Annots(prog, "privileged")} :
     e[2] \in prog.call[e[1]] \cup prog.passed[e[1]] /\ FunctionOf(prog, e[1]) \in prog.report}

(* Mutant: callgates do not count.                                         *)
PrivCallUngated ==
  {w \in [at : DOMAIN prog.call, fun : prog.functions, box : Boxes] :
     <<w.at, w.fun>> \in PrivilegedUses /\ FunctionOf(prog, w.at) \in info[w.box].functions}

PrivCallReport ==
  {w \in [at : DOMAIN prog.call, fun : prog.functions, box : Boxes] :
     /\ <<w.at, w.fun>> \in PrivilegedUses
     /\ w.fun \notin Elements(info[w.box].gates)
     /\ FunctionOf(prog, w.at) \in info[w.box].functions}

CheckPrivilegedCalls ==
  /\ privCalls' = PrivCallReport
  /\ AskFor("privcalls", UNION {{<<f, w.box>> : f \in prog.call[w.at]} : w \in privCalls'})

-----------------------------------------------------------------------------
(* SandboxedFuncAnalysis: the last annotation of a function counts.        *)
LastAnnotation(f) ==
  LET is == {i \in DOMAIN prog.annots : prog.annots[i].kind = "sandboxed" /\ prog.annots[i].on = f}
  IN prog.annots[CHOOSE i \in is : \A j \in is : j <= i].arg

(* The sandboxes that are found of those listed; none: any will do.        *)
Restriction(f) == {WithName(n) : n \in {m \in LastAnnotation(f) : Named(m) # {}}}

Disallowed(f) ==
  {S \in Boxes : f \in info[S].functions /\ Restriction(f) # {} /\ S \notin Restriction(f)}

MisplacedReport ==
  {[fun |-> f, privileged |-> f \in privileged, boxes |-> Disallowed(f)] :
     f \in {a.on : a \in Annots(prog, "sandboxed")} \cap prog.report}

CheckSandboxedFuncs ==
  /\ misplaced' = {w \in MisplacedReport : w.privileged \/ w.boxes # {}}
  /\ AskFor("sandboxedfuncs",
       UNION {{<<w.fun, S>> : S \in w.boxes \cup {x \in {Priv} : w.privileged}} : w \in misplaced'})

-----------------------------------------------------------------------------
(* The order of runOnModule(); a step waits for the traces of the last one.*)
Step(from, to) ==
  /\ phase = from /\ asked = {} /\ asking = None
  /\ phase' = to
  /\ UNCHANGED <<prog, findVars, initVars, asking, cache, traces, traceIds, setting>>

Run(name) == ran' = Append(ran, name)
IfChosen(name) == IF name \in setting.analyses THEN <<name>> ELSE << >>

ValidateCreations ==
  /\ Step("ready", IF prog.opt.list THEN "done" ELSE "validated")
  /\ Run("creations") /\ UNCHANGED <<asked, reportVars>>

Instrument ==
  /\ Step("validated", "done") /\ prog.opt.perf
  /\ Run("perf") /\ UNCHANGED <<asked, reportVars>>

RPC ==
  /\ Step("validated", "rpc") /\ ~prog.opt.perf /\ BuildRPCGraph
  /\ Run("rpc") /\ UNCHANGED <<leaks, privCalls, misplaced>>

Vuln ==
  /\ Step("rpc", IF FollowsNull THEN "crashed" ELSE "vuln")
  /\ "vuln" \in setting.analyses
  /\ IF FollowsNull THEN UNCHANGED <<leaks, asked>> ELSE CheckLeakedRights
  /\ Run("vuln") /\ UNCHANGED <<links, drawn, privCalls, misplaced>>

(* Global variables and system calls, by their own modules.                *)
DataFlow ==
  /\ Step("vuln", "dataflow")
  /\ ran' = ran \o IfChosen("globals") \o IfChosen("syscalls")
  /\ UNCHANGED <<asked, reportVars>>

PrivCalls ==
  /\ Step("dataflow", "privcalls") /\ "privcalls" \in setting.analyses /\ CheckPrivilegedCalls
  /\ Run("privcalls") /\ UNCHANGED <<links, drawn, leaks, misplaced>>

SandboxedFuncs ==
  /\ Step("privcalls", "sandboxed") /\ "sandboxedfuncs" \in setting.analyses /\ CheckSandboxedFuncs
  /\ Run("sandboxedfuncs") /\ UNCHANGED <<links, drawn, leaks, privCalls>>

(* An analysis that is not chosen is passed over.                          *)
PassOver ==
  /\ \/ Step("rpc", "vuln") /\ "vuln" \notin setting.analyses
     \/ Step("dataflow", "privcalls") /\ "privcalls" \notin setting.analyses
     \/ Step("privcalls", "sandboxed") /\ "sandboxedfuncs" \notin setting.analyses
  /\ UNCHANGED <<asked, ran, reportVars>>

InfoFlowAnalyses ==
  /\ Step("sandboxed", "done")
  /\ ran' = IF "infoflow" \in setting.analyses THEN ran \o <<"origin", "classified", "private">> ELSE ran
  /\ UNCHANGED <<asked, reportVars>>

CInit ==
  /\ Init /\ PathsInit
  /\ setting = None /\ ran = << >>
  /\ links = {} /\ drawn = {} /\ leaks = {} /\ privCalls = {} /\ misplaced = {}

FindStep == setting # None /\ Find /\ UNCHANGED <<pathVars, setting, ran, reportVars>>

TraceStep == EmitTraces /\ UNCHANGED <<vars, setting, ran, reportVars>>

CNext ==
  \/ ProcessCmdLineArgs \/ FindStep \/ TraceStep \/ ValidateCreations \/ Instrument \/ RPC
  \/ Vuln \/ DataFlow \/ PrivCalls \/ SandboxedFuncs \/ PassOver \/ InfoFlowAnalyses

(* Sequential code: it keeps running until it returns.                     *)
CSpec == CInit /\ [][CNext]_cvars /\ WF_cvars(CNext)

-----------------------------------------------------------------------------
Stopped == phase \in {"done", "exited", "crashed"} /\ asked = {} /\ asking = None

(***************************************************************************)
(* Whatever the options, the checks they choose are made, once and in      *)
(* order, or the pass stops: before it starts, if the platform is not one  *)
(* of the system's; at a null pointer, only if there is no platform or a   *)
(* descriptor's rights are those of a structure.                           *)
(***************************************************************************)
AsConfigured ==
  LET o == prog.opt
      asWanted == IF o.list \/ o.perf THEN {}
                  ELSE IF o.mode # "custom" \/ o.chosen = {} THEN setting.analyses
                  ELSE IF "all" \in o.chosen THEN CheckNames ELSE o.chosen
      At(a) == {i \in DOMAIN ran : ran[i] = IF a = "infoflow" THEN "origin" ELSE a}
  IN /\ \A m, n \in DOMAIN CheckOrder : \A i \in At(CheckOrder[m]), j \in At(CheckOrder[n]) :
          (m = n => i = j) /\ (m < n => i < j)
     /\ phase = "done" => \A a \in CheckNames : At(a) # {} <=> a \in asWanted
     /\ phase = "exited" => ran = << >> /\ (o.platform = "capsicum") = (o.os = "linux")
     /\ phase = "crashed" =>
          \/ o.platform \in {"annotated", "chroot"}
          \/ \E S \in Boxes : \E n \in DOMAIN info[S].caps : prog.note[n].box = sandboxes[S].name

(* The pass always comes to an end, traces included.                       *)
Stops == <>Stopped

(* The globals, callgates and data that annotations give to a sandbox.     *)
AsGiven(S, rights) ==
  LET name == sandboxes[S].name
  IN /\ \A k \in {"read", "write"} : \A a \in Annots(prog, k) :
          (a.arg = name) = (<<"global", a.on, k>> \in rights)
             \/ \E b \in Annots(prog, k) : b.on = a.on /\ b.arg = name
     /\ \A m \in DOMAIN prog.gates : \A f \in Elements(prog.gates[m]) :
          m = name => <<"callgate", f>> \in rights
     /\ \A d \in Notes(prog, "private") :
          (prog.note[d].box = name) = (<<"private", d>> \in rights)

(***************************************************************************)
(* From annotation to report: vulnerable code that runs in a sandbox (of   *)
(* which it is not a region's top level) is reported for that sandbox,     *)
(* with each global, callgate and datum that an annotation gives to a      *)
(* sandbox of that name, if the platform protects at all; and as           *)
(* privileged where it runs with privileges.                               *)
(***************************************************************************)
LeaksReported ==
  "vuln" \in Elements(ran) /\ phase # "crashed" =>
    \A n \in prog.points : FunctionOf(prog, n) \in prog.report =>
      /\ \A S \in Boxes : S \in ContextsOf(n) /\ ~(IsRegion(S) /\ n \in RegionSet(S)) =>
           \E l \in leaks :
             /\ l.fun = FunctionOf(prog, n) /\ l.box = S
             /\ prog.opt.platform = "none" => l.rights = Ambient
             /\ prog.opt.platform # "none" /\ prog.opt.rights => AsGiven(S, l.rights)
      /\ Priv \in ContextsOf(n) => Leak(FunctionOf(prog, n), Priv, Ambient) \in leaks

(***************************************************************************)
(* Code that runs where an annotation forbids it is reported: a privileged *)
(* function called by sandboxed code (outside the top level of regions)    *)
(* that has no callgate to it; a function outside the sandboxes, by name,  *)
(* that its last annotation lists.  Nothing else is.                       *)
(***************************************************************************)
HasGate(S, f) ==
  sandboxes[S].name \in DOMAIN prog.gates /\ f \in Elements(prog.gates[sandboxes[S].name])

Allows(f, S) == LastAnnotation(f) = {} \/ sandboxes[S].name \in LastAnnotation(f)

MisuseReported ==
  /\ "privcalls" \in Elements(ran) =>
       \A c \in DOMAIN prog.call : \A a \in Annots(prog, "privileged") : \A S \in Boxes :
         LET reported == [at |-> c, fun |-> a.on, box |-> S] \in privCalls
         IN /\ /\ a.on \in prog.call[c] /\ FunctionOf(prog, c) \in prog.report
               /\ S \in ContextsOf(c) /\ ~(IsRegion(S) /\ c \in RegionSet(S)) /\ ~HasGate(S, a.on)
               => reported
            /\ reported => ~HasGate(S, a.on) /\ S \in ContextsOf(c)
  /\ "sandboxedfuncs" \in Elements(ran) =>
       \A f \in {a.on : a \in Annots(prog, "sandboxed")} \cap prog.report :
         LET about == {w \in misplaced : w.fun = f}
         IN /\ f \in privileged => \E w \in about : w.privileged
            /\ \A S \in Boxes : f \in info[S].functions /\ ~Allows(f, S) => \E w \in about : S \in w.boxes
            /\ \A w \in about : \A S \in w.boxes :
                 ~Allows(f, S) \/ \E T \in Named(sandboxes[S].name) : T < S

(* A message that c sends in domain x: it has one recipient, the sandbox   *)
(* it is addressed to or else privileged code, and one handler, of those   *)
(* that code of the recipient registers for its type, if any does.  To     *)
(* privileged code belongs, here, the first instruction of each of its     *)
(* functions, whoever it is that runs it.                                  *)
LinkedFrom(c, x) ==
  LET mine == {l \in links : l.at = c /\ l.from = x}
      message == prog.send[c]
      registered(y) == {m \in DOMAIN prog.recv :
                          /\ prog.recv[m].type = message.type
                          /\ y \in ContextsOf(m) \/ (y = Priv /\ TakenUnseen(m))}
  IN /\ Cardinality(mine) = 1
     /\ \A l \in mine :
          /\ l.type = message.type
          /\ IF l.to = Priv THEN Named(message.to) = {} ELSE sandboxes[l.to].name = message.to
          /\ l.handler = None <=> registered(l.to) = {}
          /\ l.handler # None => \E m \in registered(l.to) : l.handler = Handler(m)

(* Where calls lead from f in x: the least set that holds f and is closed. *)
CalledFrom(f, x) ==
  {g \in prog.functions :
     \A N \in SUBSET prog.functions :
       f \in N /\ (\A e \in graph[x] :
                     FunctionOf(prog, e[1]) \in N /\ Expanded(FunctionOf(prog, e[1]), x) => e[2] \in N)
       => g \in N}

(***************************************************************************)
(* Each message that is sent, in each domain that sends it, is linked to   *)
(* one recipient and to one handler registered there.  And in the drawing  *)
(* what follows can be followed: where calls lead from its handler to      *)
(* another function that sends from the same sandbox, however far, the two *)
(* are joined, and only then.                                              *)
(***************************************************************************)
MessagesLinked ==
  "rpc" \in Elements(ran) =>
    /\ \A c \in DOMAIN prog.send : \A x \in ContextsOf(c) : LinkedFrom(c, x)
    /\ prog.opt.dump =>
         \A k, l \in links :
           LET sender == FunctionOf(prog, l.at)
           IN k.to = l.from /\ k.to # Priv /\ k.handler \notin {None, sender} =>
                (sender \in CalledFrom(k.handler, k.to) <=> <<k.to, k.handler, sender>> \in drawn)
=============================================================================
