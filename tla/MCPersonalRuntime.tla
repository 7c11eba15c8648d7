-------------------------- MODULE MCPersonalRuntime --------------------------
\* The personal runtime for TLC: MCPersonalRuntime.cfg, MCPersonalRestart.cfg.
EXTENDS PersonalRuntime

\* A reference for each role, as the console proposes, or one for both of them.
MCAssignments == {Default.ref, [r \in Roles |-> MediaReference]}
=============================================================================
