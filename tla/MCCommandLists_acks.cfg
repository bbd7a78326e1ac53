SPECIFICATION Spec
CONSTANTS
  IDSpace = 6
  AckTypes = {0}
  Players <- MCThree
  Types <- MCTypes
  TypeOf <- MCTypeOf
  MaxIssued = 4
  Acks <- TwoAcks
INVARIANTS
  NoDuplicates
CHECK_DEADLOCK FALSE
