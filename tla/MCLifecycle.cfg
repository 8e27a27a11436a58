SPECIFICATION FairSpec
CONSTANTS
  public = public
  ops = ops
  grpc = grpc
  q1 = q1
  q2 = q2
  q3 = q3
  Environments <- MCEnvironments
  Servers = {public, ops, grpc}
  GRPC = grpc
  Requests = {q1, q2, q3}
  AddressOf <- MCAddressOf
  ServerOf <- MCServerOf
  UsesStore = {q1, q2}
  NoServer = NoServer
INVARIANTS TypeOK ServesOnlyValidated ExitTellsWhy NothingCutEarly StoreOutlivesFailure
PROPERTIES WrongAddressIsFatal EndsWhenAsked
CHECK_DEADLOCK FALSE
