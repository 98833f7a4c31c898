-------------------------------- MODULE MCMock --------------------------------
(***************************************************************************)
(* Two mocks; expectations that match the same call, or several.           *)
(***************************************************************************)
EXTENDS MockProperties

CONSTANTS m1, m2, a, b, r

Contract(m, C, lo, hi, retires, when) ==
  [mock |-> m, calls |-> C, min |-> lo, max |-> hi, retires |-> retires,
   when |-> when]

\* once; at least once, of either call; at most once, with a clause, and then
\* retired; once, of another mock
MCContracts ==
  {Contract(m1, {a}, 1, 1, FALSE, FALSE),
   Contract(m1, {a, b}, 1, 9, FALSE, FALSE),
   Contract(m1, {a}, 0, 1, TRUE, TRUE),
   Contract(m2, {b}, 1, 1, FALSE, FALSE)}

=============================================================================
