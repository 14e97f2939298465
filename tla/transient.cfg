SPECIFICATION Spec
CONSTANTS
  Names <- MCNames
  Forces <- MCForces
  Time = "t"
  Steps = 4
  Setups <- AllSetups
  MaxRuns = 2
INVARIANTS IInv InitialValueProblem PredictorUsesSolutions RecordsTrajectory
