-------------------------- MODULE MCBackgroundJobs --------------------------
(* BackgroundJobs with two commands, of which one is a check.              *)
EXTENDS BackgroundJobs

CONSTANTS build, server, n1

TwoCommands == {build, server}
OneCheck == {build}

\* Both are for one task node, so the second supersedes the first, and it reuses
\* the job of the first while that runs.
SameNode == {[cmds |-> <<build>>, owner |-> n1, check |-> FALSE],
             [cmds |-> <<server, build>>, owner |-> n1, check |-> FALSE]}

=============================================================================
