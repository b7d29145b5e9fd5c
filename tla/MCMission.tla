----------------------------- MODULE MCMission -----------------------------
EXTENDS Mission
CONSTANTS c1, c2
MCContainers == {c1, c2}
MCFish == {c1, c2}
MCOlder == {c1}
MCLaunches == BOOLEAN
MCAwaited == {c1}
MCActions == <<"timed", "parallel">>
=============================================================================
