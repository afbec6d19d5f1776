CONSTANTS
  s1 = s1
  s2 = s2
  v1 = v1
  v2 = v2
  t1 = t1
  t2 = t2
  Session <- MCSession
  Verifier <- MCVerifier
  Thread <- MCThread
  Backends <- Memory
SYMMETRY Symmetry
SPECIFICATION Spec
PROPERTY NoLateApproval
