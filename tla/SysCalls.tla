------------------------------ MODULE SysCalls ------------------------------
(***************************************************************************)
(* SysCallsAnalysis: the data-flow engine with one fact per system call,   *)
(* seeded at each __soaap_limit_syscalls annotation with the calls it      *)
(* allows, followed by the check of every system call that sandboxed code  *)
(* makes.                                                                  *)
(*                                                                         *)
(* A program has, besides the fields of CFGFlow, a field analysis and, if  *)
(* that is "syscalls":                                                     *)
(*   box        the sandboxes                                              *)
(*   limit      [box -> the limit annotations in its code]                 *)
(*   allowed    [limit annotation -> functions it names that the module    *)
(*              also calls; they need not be system calls]                 *)
(*   boxCalls   [box -> the calls made in it]                              *)
(*   calleesIn  [box -> [call made in it -> its callees in that context]]  *)
(*   report     the calls shouldOutputWarningFor() accepts                 *)
(*   platform   {}, or {P} if the command line names a sandboxing platform *)
(*              that permits the system calls P                            *)
(* Facts are the system calls that the operating system's table knows.     *)
(***************************************************************************)
EXTENDS CFGFlow

VARIABLE sysCallWarnings

(* initialise(): names that are no system calls get index -1 and are left  *)
(* out; an annotation in the code of two sandboxes is assigned twice alike.*)
Limits(p) == UNION {p.limit[S] : S \in p.box}

SysCallsAssumption ==
  \A p \in {q \in Programs : q.analysis = "syscalls"} :
    /\ \A S \in p.box : p.boxCalls[S] \subseteq Instrs(p)
    /\ p.seed = [c \in Limits(p) |-> p.allowed[c] \cap Facts]
ASSUME SysCallsAssumption

(* Mutant: the annotations add to what the platform permits.               *)
AllowedByEither(n, f) == f \in state[n] \cup UNION prog.platform

(* allowedToPerformNamedSystemCallAtSandboxedPoint(): the platform decides *)
(* if there is one; otherwise the facts at the instruction (an instruction *)
(* never visited is as one without facts).                                 *)
AllowedAt(n, f) == f \in IF prog.platform = {} THEN state[n] ELSE UNION prog.platform

SInit == sysCallWarnings = {}

(* <<sandbox, call, system call>> for each that is not allowed there.      *)
SysCallReport(p) ==
  {w \in p.box \X p.report \X Facts :
     /\ w[2] \in p.boxCalls[w[1]] /\ w[3] \in p.calleesIn[w[1]][w[2]]
     /\ ~AllowedAt(w[2], w[3])}

(* postDataFlowAnalysis().                                                 *)
SPost ==
  /\ prog.analysis = "syscalls" /\ Post
  /\ sysCallWarnings' = SysCallReport(prog)

-----------------------------------------------------------------------------
(***************************************************************************)
(* Without a platform, a system call made by a sandbox is reported exactly *)
(* when no annotation that allows it can lead there; with a platform the   *)
(* annotations do not matter.  (A later, narrower annotation does not      *)
(* narrow: what any of them allows is joined.)                             *)
(***************************************************************************)
ReportedUnlessAllowed ==
  phase = "done" /\ prog.analysis = "syscalls" =>
    \A S \in prog.box : \A c \in prog.boxCalls[S] \cap prog.report :
      \A f \in prog.calleesIn[S][c] \cap Facts :
        <<S, c, f>> \notin sysCallWarnings <=>
          IF prog.platform = {}
          THEN \E l \in Limits(prog) : f \in prog.allowed[l] /\ Leads(prog, l, c)
          ELSE f \in UNION prog.platform
=============================================================================
