CONSTANTS
  Operators = {o1, o2, o3}
  Principals = {p1, p2}
  KnowledgeBases = {k1, k2, k3}
  Legacy = {k1, k2}
  Nobody = none
SPECIFICATION FairClaimSpec
PROPERTY
  ClaimsOnlyUnowned
  ClaimsEnd
CHECK_DEADLOCK FALSE
