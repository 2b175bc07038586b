-------------------------- MODULE MCDeliveryQueue --------------------------
EXTENDS DeliveryQueue

CONSTANTS startup
=============================================================================
