-------------------------- MODULE MCGatewayRunLoop --------------------------
EXTENDS GatewayRunLoop

CONSTANTS l1

OneLane == [t \in Tasks |-> l1]

RequestWaiters == 1..MaxRequests
=============================================================================
