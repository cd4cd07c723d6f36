---------------------------- MODULE AtomicDeploy ----------------------------
(***************************************************************************)
(* What ApplyAll promises: one deployment at a time, each of which either  *)
(* replaces all the files it rendered from the configuration it had read,  *)
(* or leaves every live file alone.                                        *)
(***************************************************************************)
CONSTANTS
    Engines, Files, EngineOf, Unchecked, Configs, Renders, Accepts(_, _), None

VARIABLES
    db,         \* the stored configuration
    disk,       \* the live files between two deployments
    listed      \* the configuration the deployment in progress has read

vars == <<db, disk, listed>>

Checked(e, fs) ==
    [f \in Files |-> IF EngineOf[f] = e /\ f \notin Unchecked THEN fs[f]
                                                              ELSE None]

\* The files of c for the engines in es, laid over fs.
Deployed(c, es, fs) ==
    [f \in Files |-> IF f \in Renders[c] /\ EngineOf[f] \in es THEN c
                                                               ELSE fs[f]]

Init ==
    /\ db \in Configs
    /\ disk \in [Files -> Configs \cup {None}]
    /\ \A e \in Engines : Accepts(e, Checked(e, disk))
    /\ listed = None

Edit ==
    /\ db' \in Configs
    /\ UNCHANGED <<disk, listed>>

Begin ==
    /\ listed = None
    /\ listed' = db
    /\ UNCHANGED <<db, disk>>

\* Only a configuration that every deployed engine accepts is committed.
Commit ==
    /\ listed # None
    /\ \E es \in SUBSET Engines :
         /\ disk' = Deployed(listed, es, disk)
         /\ \A e \in es : Accepts(e, Checked(e, disk'))
    /\ listed' = None
    /\ UNCHANGED db

Abort ==
    /\ listed # None
    /\ listed' = None
    /\ UNCHANGED <<db, disk>>

Next == Edit \/ Begin \/ Commit \/ Abort

Spec == Init /\ [][Next]_vars
=============================================================================
