CONSTANTS
  a = a
  b = b
  o = o
  c1 = c1
  c2 = c2
  Participant <- MCParticipant
  Slices <- MCSlices
  Lists <- MCLists
  Ceremony <- MCCeremony
  MinSigners = 2
  MaxObjects = 2
  Changing <- MCChanging
  MaxEpoch = 2
SYMMETRY Symmetry
SPECIFICATION Spec
INVARIANTS
  TypeOK
  GroupKeysAgree
  SecretsUsedOnce
  EmittedOnce
  AdmittedOnly
  CompletesAfterPart2
  DeliveryUsable
CHECK_DEADLOCK FALSE
