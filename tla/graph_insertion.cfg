\* The comment says that clustering writes the attribute on the nodes.
SPECIFICATION Spec
CONSTANTS
  Node <- MCNode
  Bar <- MCBar
  ClientLabel = {0}
INVARIANT
  AllNodesClustered
