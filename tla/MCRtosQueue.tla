---------------------------- MODULE MCRtosQueue ----------------------------
(***************************************************************************)
(* The instance of RtosQueue that TLC checks.                              *)
(***************************************************************************)
EXTENDS RtosQueueProperties

CONSTANTS t1, t2, t3, a, b

MCThreads == {t1, t2, t3}
MCValues == {a, b}

=============================================================================
