SPECIFICATION UFSpec
CONSTANT N = 6
INVARIANT ForestOK
PROPERTY PartitionSpec
