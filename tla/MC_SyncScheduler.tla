-------------------------- MODULE MC_SyncScheduler --------------------------
EXTENDS SyncScheduler

MCSalons == {1, 2}
MCSlots == 1..3
=============================================================================
