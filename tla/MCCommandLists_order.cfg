SPECIFICATION Spec
CONSTANTS
  IDSpace = 6
  AckTypes = {0}
  Players <- MCPlayers
  Types <- MCTypes
  TypeOf <- MCTypeOf
  MaxIssued = 7
  Acks <- OneAck
INVARIANTS
  TypeOK
  OrderIsCanonical
  NoDuplicates
CHECK_DEADLOCK FALSE
