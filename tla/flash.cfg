CONSTANTS
  Values = {factory, tuned}
  Factory = factory
  Bodies = {b0, b1}
  Narrow = {b0, b1, b15}
  Wide = {b0, b1, b15, b31}
SPECIFICATION Spec
INVARIANTS TypeOK AckedIsDurable
PROPERTIES StoreRefined
