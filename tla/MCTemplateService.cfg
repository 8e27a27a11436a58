SPECIFICATION Spec
CONSTANTS
  c1 = c1
  c2 = c2
  c3 = c3
  t1 = t1
  t2 = t2
  vehicle = vehicle
  other = other
  location = location
  commands = commands
  Calls = {c1, c2, c3}
  TemplateID <- MCTemplateID
  Contract <- MCContract
  Published <- MCPublished
  NoResult = NoResult
  MaxChanges = 1
  EventTypes = {}
  EventSources = {}
  EventIDs = {}
  EventTags = {}
  GlobalIdentifier = GlobalIdentifier
  Unset = Unset
  NoTime = NoTime
  PrivilegeIDToName <- MCNoNames
  ManufacturerPrivilegeIDToName <- MCNoNames
  PrivilegeLimit = 0
INVARIANTS TypeOK AnswersAreCurrent OnlyAcceptedIsCached
PROPERTIES ImplementsPromise
CHECK_DEADLOCK FALSE
