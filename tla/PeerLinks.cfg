INIT Init
NEXT Next
CONSTANTS Nodes = {a, b} MinPeers = 1 MaxPeers = 2 Limits = {2} Passes = {1} MaxEpoch = 1 MaxTroubles = 1
PROPERTY RedialsKnown
CHECK_DEADLOCK FALSE
