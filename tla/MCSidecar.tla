------------------------------ MODULE MCSidecar -------------------------------
(* Sidecar for TLC: a label that has a default and that the file sets or not,  *)
(* and one that the options and the app set to different values.               *)
EXTENDS Sidecar

CONSTANTS zone, env, pod, default, a, b, host

MCContents == {<<>>, [k \in {zone} |-> a]}
MCDefaults == [k \in {zone} |-> default]
MCPodName == [k \in {pod} |-> host]
MCGiven == [k \in {env} |-> a]
MCAppLabels == [k \in {env} |-> b]
=============================================================================
