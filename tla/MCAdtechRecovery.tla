--------------------------- MODULE MCAdtechRecovery ---------------------------
EXTENDS AdtechRecovery, TLC

CONSTANTS a1, a2, p1, p2

MCAccounts == {a1, a2}
MCInvalidAccounts == {a2}
MCInvocations1 == {p1}
MCInvocations2 == {p1, p2}
MCSymmetry == Permutations(MCInvocations2)
=============================================================================
