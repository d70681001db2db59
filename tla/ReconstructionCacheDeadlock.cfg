SPECIFICATION SpecGroups
CONSTANTS
  a = a
  b = b
  c = c
  Workers = {w1, w2, w3}
  Callers = {k1}
  Contracts = {a, b, c}
  N = 3
  ContractOf <- Duplicated
  Accepted = {a, b, c}
  MultiTile = {a}
PROPERTY CallsReturn
CHECK_DEADLOCK FALSE
