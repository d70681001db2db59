SPECIFICATION SpecGroups
CONSTANTS
  a = a
  b = b
  c = c
  Workers = {w1, w2, w3}
  Callers = {k1, k2}
  Contracts = {a, b, c}
  N = 4
  ContractOf <- Mixed
  Accepted = {a, c}
  MultiTile = {c}
INVARIANTS TypeOK DecodedOnce SharedOutcome CollectsEveryImage
PROPERTY CallsReturn
