----------------------------- MODULE MCAccounts -----------------------------
EXTENDS Accounts, TLC

CONSTANTS i1, i2, p1, p2

\* Ids, names and passwords are only compared.
AccountSymmetry == Permutations(Ids) \cup Permutations(Passwords)
=============================================================================
