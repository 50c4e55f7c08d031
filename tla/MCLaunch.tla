------------------------------- MODULE MCLaunch -------------------------------
(* Instances of Launch for TLC. *)
EXTENDS Launch

\* Between them every kind of step, online and offline launches, two commands in a
\* row, and a lookup before the authlib step.
Mixed == {{"yggdrasil", "preLaunch", "postExit", "quitAfter"},
          {"join", "unifiedPass", "offline"},
          {"join", "yggdrasil", "preLaunch", "appendPreLaunch", "offline"}}
=============================================================================
