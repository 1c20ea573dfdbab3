SPECIFICATION Spec
CONSTANTS
  adm = adm
  eng = eng
  op = op
  p1 = p1
  request = request
  s1 = s1
  s2 = s2
  m1 = m1
  Users = {adm, eng, op}
  InitialRole <- RolesOfThree
  Members = {eng, op}
  DatabaseMode = TRUE
  MaxAccessChanges = 1
  Assignments = {p1}
  Schedule <- SecondPublication
  Request <- OneRequest
  Overlaps = {}
  MaxRevision = 7
  Nobody = Nobody
  Incidents = {i1}
  Sources = {s1, s2}
  Machine <- SameMachine
  NoMachine = NoMachine
  NoIncident = NoIncident
  MaxLinks = 1
  MaxIncidentRevision = 7
SYMMETRY SourcesAlike
INVARIANTS
  IncidentsSafe
  OrdersSafe
  NeverOrphaned
PROPERTIES
  UpdateGuardNeverFires
CHECK_DEADLOCK FALSE
