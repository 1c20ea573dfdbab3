SPECIFICATION StreamSpec
CONSTANTS
  Observations = {o1, o2}
  SimulationSteps = 3
PROPERTIES
  ImplementsStepStream
CHECK_DEADLOCK FALSE
