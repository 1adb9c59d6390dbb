------------------------------- MODULE MCAccounts -------------------------------
EXTENDS Accounts, TLC
Symmetry == Permutations(People) \cup Permutations(Orgs) \cup Permutations(Forms)
================================================================================
