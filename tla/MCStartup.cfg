SPECIFICATION Spec
CONSTANTS
  Launches = {p1, p2, p3}
  Ports = {n1, n2}
SYMMETRY MCSymmetry
INVARIANTS
  OwnerIsAlone
  PrimaryIsFindable
  TabsReachTheirIssuer
  OneSessionPerToken
PROPERTIES
  NoWorkBehindTheOwner
  MarkersOutliveRecovery
CHECK_DEADLOCK FALSE
