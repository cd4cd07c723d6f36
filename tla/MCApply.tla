------------------------------- MODULE MCApply -------------------------------
(***************************************************************************)
(* A small host: nginx with two checked files and the decoy page, haproxy  *)
(* with one file.                                                          *)
(***************************************************************************)
EXTENDS ApplyRefines, TLC

CONSTANTS nginx, haproxy, conf, http, decoy, cfg, c1, c2, bad

\* Calls of the same kind are interchangeable.
ApplySymmetry == Permutations(Appliers)

MCEngineOf == [f \in Files |-> IF f = cfg THEN haproxy ELSE nginx]

\* c1 has a decoy mapping, c2 has none; bad renders but does not validate.
MCRenders == [c \in Configs |-> IF c = c1 THEN Files ELSE Files \ {decoy}]

\* Only c2 has a haproxy mapping.
MCUses == [c \in Configs |-> IF c = c2 THEN Engines ELSE {nginx}]

\* A config test passes when all of the engine's files come from one
\* configuration that is not bad, or when the engine has no files yet.
MCAccepts(e, fs) ==
    \E c \in (Configs \ {bad}) \cup {None} :
        \A f \in Files \ Unchecked : EngineOf[f] = e => fs[f] = c
=============================================================================
