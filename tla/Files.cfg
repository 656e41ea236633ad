SPECIFICATION Spec
CONSTANTS
  a1 = a1
  a2 = a2
  Users = {u1, u2}
  AttachmentIds = {a1, a2}
  ImageIds = {i1, i2, i3}
  EmojiIds = {e1, e2, e3}
  PostIds = {p1, p2}
  Names = {n1, n2}
  EmojiLimit = 1
  MaxRetries = 3
  MaxFaults = 2
  Calls = {c1, c2}
  Workloads <- MCWorkloads
  None = None
SYMMETRY Symmetry
INVARIANTS
  NamedFilesExist
  SentMessagesKeepAttachments
  StrandedFilesExplained
  JobsGiveUp
  EmojiOverrunBounded
  EmojiListFollows
CHECK_DEADLOCK FALSE
