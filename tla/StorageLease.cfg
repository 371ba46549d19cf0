SPECIFICATION FairSpec
INVARIANTS NoEdgeIsLost
PROPERTIES EdgesAreAcknowledged
