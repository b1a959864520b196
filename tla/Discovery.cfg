SPECIFICATION Spec
CONSTANTS
  h1 = h1
  h2 = h2
  s1 = s1
  Names <- MCNames
  LabelsOf <- MCLabelsOf
  SecretsOf <- MCSecretsOf
  Fleet <- MCFleet
  Absent = Absent
  None = None
  MaxChanges = 2
INVARIANT TypeOK
INVARIANT ListIsTruthful
INVARIANT PageIsTruthful
INVARIANT SpokesCountOnce
