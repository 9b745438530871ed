------------------------- MODULE MCAdtechManagement -------------------------
(* Model-checking instance: two accounts, one of which IAM rejects, and    *)
(* Lambda slots that serve requests concurrently.                          *)
EXTENDS AdtechManagement, TLC

CONSTANTS a1, a2, p1, p2, p3

MCAccounts == {a1, a2}
MCInvalidAccounts == {a2}
MCInvocations1 == {p1}
MCInvocations2 == {p1, p2}
MCInvocations3 == {p1, p2, p3}

(* Invocation slots are interchangeable; accounts are not (a2 is invalid). *)
MCSymmetry == Permutations(MCInvocations2)
=============================================================================
