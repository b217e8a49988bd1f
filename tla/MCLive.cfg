SPECIFICATION Spec
CONSTANTS
  t1 = t1
  t2 = t2
  h1 = h1
  e1 = e1
  e2 = e2
  r1 = r1
  a1 = a1
  g1 = g1
  crA = crA
  Creds = {crA}
  SecretValues = {"v1", "v2"}
PROPERTIES DeleteStopsLoops Drained RotationLands WorkloadLands
CHECK_DEADLOCK FALSE
