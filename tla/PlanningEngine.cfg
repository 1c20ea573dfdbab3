SPECIFICATION Spec
CONSTANTS
  Horizon = 360
  Machines = {1, 2}
  Technicians = {1, 2}
  Operations = {1, 2, 3}
  Requests = {1, 2}
  Minutes <- MCMinutes
  Release <- MCRelease
  Predecessors <- MCPredecessors
  MachineOf <- MCMachineOf
  Needs <- MCNeeds
  Covers <- MCCovers
  Mandatory = {1}
  OperationOrder <- MCOrder
  Risk <- MCRisk
  Snapshots <- MCSnapshots
  OverrideSets <- MCOverrideSets
  SweptRequest = 1
  SweptValues <- MCSweptValues
  Jobs = {1, 2}
  JobOf <- MCJobOf
  Due <- MCDue
  Rate <- MCRate
  RiskHorizon = 240
  Runs = {1, 2}
  Draws <- MCDraws
  Weights <- MCWeights
  SweptWeights = {"production", "stability"}
  Budgets = {1, 3}
INVARIANTS
  OffersAreFeasible
  SameInputSamePlans
  SelectionFollowsWeights
CHECK_DEADLOCK FALSE
