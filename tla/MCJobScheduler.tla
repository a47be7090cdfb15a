---------------------------- MODULE MCJobScheduler ----------------------------
\* The instances of JobScheduler that TLC checks: see the cfg files.
EXTENDS JobScheduler
=============================================================================
