----------------------- MODULE MCLegacyControllerLease -----------------------
\* A run claimed by one of two processes, leases of two or three ticks.
EXTENDS LegacyControllerLease
CONSTANTS p1, p2
MCBoots == {p1, p2}
==============================================================================
