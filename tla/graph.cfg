\* Three nodes: records, components, schema, and the end of clustering().
SPECIFICATION FairSpec
CONSTANTS
  Node <- MCNode
  Bar <- MCBar
  ClientLabel = {0}
INVARIANTS
  TypeOK
  EdgeRecords
  ClustersAreComponents
  SameLabelConnected
  SchemaSplitsEdges
PROPERTY
  ClusteringEnds
