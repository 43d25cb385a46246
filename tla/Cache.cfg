SPECIFICATION Spec
CONSTANTS
  l1 = l1
  l2 = l2
  s1 = s1
  s2 = s2
  o1 = o1
  c1 = c1
  c2 = c2
  Earlier = Earlier
  NoFile = NoFile
  Corrupt = Corrupt
  NoAnswer = NoAnswer
  Rejected = Rejected
  Failed = Failed
  Logins = {l1}
  Signs = {s1, s2}
  Logouts = {o1}
  Configs = {c1}
  Sets <- SomeFields
  MaxTokens = 2
INVARIANTS SessionInv SerialInv
CHECK_DEADLOCK FALSE
