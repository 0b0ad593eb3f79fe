----------------------------- MODULE MCPerfEmul -----------------------------
(***************************************************************************)
(* Calls for PerfEmul, with control messages of two bytes and buffers of   *)
(* four: data that is absent, fits the first chunk, fills it, leaves a     *)
(* last chunk shorter than a control message, or takes three chunks.       *)
(***************************************************************************)
EXTENDS PerfEmul

(* Every request asks for an answer, so that the parent waits after it.    *)
WaitingCalls ==
  {[fn |-> "inout", in |-> m, out |-> n] : m \in {0, 1, 2, 3, 4, 7}, n \in {1, 5, 10}}
    \cup {[fn |-> "out", in |-> 0, out |-> n] : n \in {0, 3, 4, 9}}
    \cup {[fn |-> "inout", in |-> 0, out |-> 0]}

(* An entry point with __soaap_data_in and one with __soaap_data_out.      *)
MixedCalls ==
  {[fn |-> "in", in |-> 2, out |-> 0], [fn |-> "out", in |-> 0, out |-> 1]}

(* Requests of all kinds, some of which nobody waits for.                  *)
AllCalls ==
  MixedCalls \cup {[fn |-> "inout", in |-> m, out |-> 0] : m \in {1, 3}}
             \cup {[fn |-> "none", in |-> 0, out |-> 0]}

MCPrograms == {WaitingCalls, AllCalls}
LostPrograms == {MixedCalls}

MCGarbage == {0, 1, 20}
=============================================================================
