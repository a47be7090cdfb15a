-------------------------- MODULE MCPrismaScheduler --------------------------
\* The instances of PrismaScheduler that TLC checks: see the cfg files.
EXTENDS PrismaScheduler
=============================================================================
