SPECIFICATION Spec
CONSTANTS
  Word = 67108864
  MAX_CMS = 16777216
  Files <- MCFiles
  Payloads <- MCPayloads
  Chains <- MCChains
  Attachments <- MCAttachments
CHECK_DEADLOCK FALSE
INVARIANTS ReadsInside WalkRight SignedVerifies SoundInputsSigned
