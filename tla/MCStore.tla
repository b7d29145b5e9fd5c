------------------------------ MODULE MCStore ------------------------------
EXTENDS Store, TLC
\* A session without some of the snapshots; the second report has no rows.
MCMissing == Parts \cap
             {<<"topic_info", 0>>, <<"topic_hz", 0>>, <<"component_list", 0>>, <<"node_list", 0>>,
              <<"fish_events", 0>>, <<"gpu_kernels", 2>>, <<"cuda_runtime", 2>>}

\* What a program was and said is of no use to anyone once it is over.
InMemory(p) ==
    IF pc[p] \in {"over", "dead"} THEN <<"over">>
    ELSE <<pc[p], cmd[p], at[p], ros[p], nsys[p], said[p], got[p], swept[p]>>
MCView == <<storeVars, deaths, [p \in Procs |-> InMemory(p)]>>
=============================================================================
