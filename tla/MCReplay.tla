------------------------------ MODULE MCReplay ------------------------------
EXTENDS Replay

AllRequests == {"start", "stop", "delete"}

\* Two replays with something that fails; three with none of it, so that two
\* that were started at the same time can run at once after a third.
ReplayScenarios ==
  [overlap : BOOLEAN, requests : {AllRequests}, tasks : {2}, faults : {1}]
    \cup [overlap : {TRUE}, requests : {{"start", "stop"}}, tasks : {3}, faults : {0}]
=============================================================================
