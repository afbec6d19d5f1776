SPECIFICATION DvSpec
CONSTANTS
  DvKeys <- MCDvKeys
  DvProofs <- MCDvProofs
  DvInputs = {0, 2}
  DvSenders = {"owner", "other"}
INVARIANT ValidProofIsAccepted
