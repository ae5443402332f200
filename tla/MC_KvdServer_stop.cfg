CONSTANTS
    Char <- ServerChar
    Comma = ","
    Clusters <- ServerClusters
    Ids <- ServerIds
SPECIFICATION Spec
\* main returns and the process ends: the final states have no successor.
CHECK_DEADLOCK FALSE
INVARIANT StopStopsTransport
