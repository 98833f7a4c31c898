------------------------------- MODULE MCPorts -------------------------------
(***************************************************************************)
(* Two runners, and a signal with a sample port and two queue ports.       *)
(***************************************************************************)
EXTENDS PortsProperties

CONSTANTS r1, r2, s, p1, q1, q2

MCSignalOf == [x \in {p1, q1, q2} |-> s]
MCRunnerOf == [x \in {p1, q1, q2} |-> IF x = q1 THEN r1 ELSE r2]

MCConditions ==
  {[port |-> p1, is |-> 1], [port |-> q1, atLeast |-> 1],
   [port |-> q1, atLeast |-> 2]}

=============================================================================
