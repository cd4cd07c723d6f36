------------------------------ MODULE MCConfig ------------------------------
EXTENDS ConfigStore, TLC

CONSTANTS i1, i2, any, lo, c1

\* Two enabled mappings that conflict by the wildcard only, one of them with a
\* certificate, and a disabled one on the same port.
MCBodies ==
    {[name |-> "a", port |-> 80, ip |-> any, enabled |-> TRUE,  cert |-> None],
     [name |-> "b", port |-> 80, ip |-> lo,  enabled |-> TRUE,  cert |-> c1],
     [name |-> "c", port |-> 80, ip |-> lo,  enabled |-> FALSE, cert |-> None]}

\* A single mapping, for the runs about versions.
OneBody ==
    {[name |-> "a", port |-> 80, ip |-> any, enabled |-> TRUE, cert |-> None]}

Symmetry == Permutations(Ids) \cup Permutations(Relays)
=============================================================================
