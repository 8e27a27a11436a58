SPECIFICATION FairExchangeSpec
CONSTANTS
  vehicle = vehicle
  maker = maker
  account = account
  other = other
  location = location
  commands = commands
  mint = mint
  attestation = attestation
  raw = raw
  device = device
  id1 = id1
  id2 = id2
  d1 = d1
  d2 = d2
  d3 = d3
  d4 = d4
  d5 = d5
  d6 = d6
  d7 = d7
  t1 = t1
  t2 = t2
  g1 = g1
  g2 = g2
  EventTypes = {attestation, raw}
  EventSources = {device, other}
  EventIDs = {id1, id2}
  EventTags = {other}
  GlobalIdentifier = GlobalIdentifier
  Unset = Unset
  NoTime = NoTime
  PrivilegeIDToName <- MCPrivilegeIDToName
  ManufacturerPrivilegeIDToName <- MCManufacturerPrivilegeIDToName
  PrivilegeLimit = 3
  Requests <- MCRequests
  Document <- MCDocument
  NoSource = NoSource
  TemplateAgreements <- MCTemplateAgreements
  NoTemplate = NoTemplate
  NoAsset = NoAsset
  NoTokenID = NoTokenID
  NoGrantee = NoGrantee
  ContractAddressVehicle = vehicle
  ContractAddressManufacturer = maker
  MaxInt32 = 3
  NoToken = NoToken
  Worlds <- MCWorlds
  MaxChanges = 2
  MaxTime = 1
INVARIANTS ExchangeTypeOK TokenIsGranted TokenWithinGrant IDsMatchNames GrantedIsServed NoEmptyToken
PROPERTIES ExchangeAnswered
CHECK_DEADLOCK FALSE
