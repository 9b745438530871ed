---------------------------- MODULE MCAdtechRead ----------------------------
(* Model-checking instance of the read Lambda beside the two handlers.     *)
EXTENDS AdtechRead, TLC

CONSTANTS a1, a2, p1, p2

MCAccounts == {a1, a2}
MCInvalidAccounts == {a2}
MCNoInvalidAccounts == {}
MCInvocations1 == {p1}
MCInvocations2 == {p1, p2}

(* Invocation slots are interchangeable; accounts are not (a2 is invalid). *)
MCSymmetry == Permutations(MCInvocations2)
=============================================================================
