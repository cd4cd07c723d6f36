---------------------------- MODULE ApplyRefines ----------------------------
(***************************************************************************)
(* ApplyAll implements AtomicDeploy on a host where the panel does not     *)
(* crash, no backup is restored or deleted and the copies of the rollback  *)
(* succeed.                                                                *)
(***************************************************************************)
EXTENDS ApplyPipeline

\* The abstract disk is the live one, except that the writes of an apply
\* count only when it returns.
Disk ==
    IF applyMu # Free /\ job[applyMu].pc \in {"write", "undoWrite", "undoReload"}
    THEN job[applyMu].before ELSE live

Listed == IF applyMu = Free THEN None ELSE job[applyMu].snap

Atomic == INSTANCE AtomicDeploy WITH disk <- Disk, listed <- Listed

\* Every apply is one atomic deployment of the configuration it read under
\* applyMu, or none at all.
AppliesAtomically == Atomic!Spec

-----------------------------------------------------------------------------
(***************************************************************************)
(* What the proof of the refinement needs (ApplyProofs).                   *)
(***************************************************************************)

\* The host that AtomicDeploy is about.
Undisturbed == Restorers = {} /\ Faults \cap {"crash", "copy", "delete"} = {}

\* An apply past ListMappings has a configuration.
ReadInv ==
    \A p \in Appliers : job[p].pc \notin {"idle", "queued"} => job[p].snap \in Configs

\* fs is c rendered for the engines that have a file in fs.
Wholly(c, fs) ==
    \A f \in Files :
        fs[f] = IF f \in Renders[c] /\ EngineOf[f] \in EnginesOf(fs) THEN c ELSE None

StagedInv ==
    \A p \in Appliers : job[p].pc \in Owning \cup {"certs"} =>
        Wholly(job[p].snap, job[p].staged)

RefineInv == IInv /\ Calm /\ ReadInv /\ StagedInv
=============================================================================
