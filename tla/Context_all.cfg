SPECIFICATION Spec
CONSTANTS
  Workers = {w1, w2}
  Notes = {n1, n2, n3, n4}
  Attachments = {a1}
  MaxRolledUp = 2
  NoNote = NoNote
  NoAttachment = NoAttachment
CHECK_DEADLOCK FALSE
SYMMETRY Symmetric
INVARIANTS
  HiddenByLive
  AttachmentReadable
PROPERTIES
  BroughtBackByDeletion
