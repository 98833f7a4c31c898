--------------------------- MODULE MCSimulatedRtos ---------------------------
(***************************************************************************)
(* The instance of SimulatedRtos that TLC checks.                          *)
(***************************************************************************)
EXTENDS SimulatedRtosProperties, TLC

CONSTANTS a, b, c, mutex, semaphore

MCThreads == {a, b, c}
MCSymmetry == Permutations(MCThreads)

=============================================================================
