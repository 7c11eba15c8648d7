-------------------------- MODULE MCPersonalProfile --------------------------
\* The personal profile for TLC: MCPersonalProfile.cfg.
EXTENDS PersonalProfile
=============================================================================
