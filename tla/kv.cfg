\* Two keys, a value that cannot be dumped, and a file system that may refuse to
\* open the file or cut a write short.
SPECIFICATION Spec
CONSTANTS
  k1 = k1
  k2 = k2
  good = good
  other = other
  bad = bad
  Absent = Absent
  Key <- MCKey
  Value <- MCValue
  Undumpable <- MCBad
  Faults <- MCFaults
INVARIANTS
  TypeOK
  Durable
  ReloadIsDumpable
  BadValueLosesFile
PROPERTY
  RefinesDurableMap
