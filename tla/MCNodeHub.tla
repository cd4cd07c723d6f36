------------------------------ MODULE MCNodeHub ------------------------------
(* Small instances of the reverse tunnel. *)
EXTENDS NodeHub, TLC

\* Every agent has the token of the same node.
MCNodeOf == [a \in Agents |-> CHOOSE n \in Nodes : TRUE]

=============================================================================
