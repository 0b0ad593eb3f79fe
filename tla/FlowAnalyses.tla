---------------------------- MODULE FlowAnalyses ----------------------------
(***************************************************************************)
(* The data-flow engine with the two analyses that are built on it; each   *)
(* is run by Soaap.cpp from the start, on an engine of its own.  A program *)
(* says for which analysis it is: "globals", "syscalls", or "none" for the *)
(* engine alone.                                                           *)
(***************************************************************************)
EXTENDS GlobalVariables, SysCalls

fvars == <<vars, gvars, sysCallWarnings>>

FInit == Init /\ GInit /\ SInit

FNext ==
  \/ EngineNext /\ UNCHANGED <<gvars, sysCallWarnings>>
  \/ prog.analysis = "none" /\ Post /\ UNCHANGED <<gvars, sysCallWarnings>>
  \/ GPost /\ UNCHANGED sysCallWarnings
  \/ SPost /\ UNCHANGED gvars

FSpec == FInit /\ [][FNext]_fvars /\ WF_fvars(FNext)
=============================================================================
