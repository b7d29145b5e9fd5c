----------------------------- MODULE MCSnapshot -----------------------------
EXTENDS Snapshot
CONSTANTS n1, n2
MCNodes == {n1, n2}
MCEarly == {n1}
MCWorkers == {1}
MCModes == {"explicit", "auto"}
=============================================================================
