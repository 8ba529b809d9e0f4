------------------------ MODULE MCDeliveryCoordinator ------------------------
\* Two rows of one queue; failures, drains and standbys as often as MaxFaults.
EXTENDS DeliveryRefinement
CONSTANTS i1, i2
MCItems == {i1, i2}
==============================================================================
