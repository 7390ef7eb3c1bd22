SPECIFICATION Spec
CONSTANTS
  m1 = m1
  m2 = m2
  v24 = v24
  v5 = v5
  Macs <- TwoMacs
  Vaps <- TwoVaps
  MaxChanges = 3
SYMMETRY Symmetry
INVARIANTS TypeOK InitialisedBeforeSubscribing MapsFollow AgentFollows
CHECK_DEADLOCK FALSE
