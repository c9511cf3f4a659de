CONSTANTS
  Uploads = {u1, u2}
  Principals = {p1}
  KnowledgeBases = {k1, k2}
  Digests = {d1, d2}
  None = none
SPECIFICATION FairSpec
INVARIANT
  LookUpStands
  AnsweredWithItsContent
  FilesFollowDocuments
PROPERTY
  RecordedByMembers
  UploadsEnd
CHECK_DEADLOCK FALSE
