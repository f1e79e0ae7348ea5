SPECIFICATION Spec
CONSTANTS
  Profiles <- MCProfiles
  N = 2
  NVariants = 1
  NChecked = 3
  Heard <- MCHeard
  Grades = {2, 4}
  MaxIterations = 2
INVARIANTS PairsMatch AdoptedBeatsBaseline SamplesAreWhole
