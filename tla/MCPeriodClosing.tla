-------------------------- MODULE MCPeriodClosing ---------------------------
EXTENDS PeriodClosing, Permissions, TLC

\* Both users hold every permission asked for.
MCCan(u, p) == Permits({"msp_admin"}, p)

Symmetry == Permutations(Users) \cup Permutations(Sessions)
=============================================================================
