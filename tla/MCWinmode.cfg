SPECIFICATION Spec
CONSTANTS
  Missing = missing
  Torn = torn
  Nothing = nothing
  r1 = r1
  r2 = r2
  r3 = r3
  Trainings <- MCTrainings
SYMMETRY Symmetry
INVARIANTS GatesChained TrainedMasked
PROPERTIES VerdictRests
