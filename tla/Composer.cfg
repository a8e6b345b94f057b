\* Every kind of form; two uploads of which a library can take one at a time.
SPECIFICATION FairSpec
CONSTANTS
  Forms = {"reply", "edit", "page"}
  Words = {w}
  Posts = {p1, p2}
  Uploads = {u1, u2}
  Sizes = {1, 2}
  Empty = Empty
  MaxUpload = 1
  Quota = 1
  MaxPieces = 2
  MaxItems = 2
INVARIANTS TypeOK FormIsShown SnippetFits PickerWorks QuoteWhole QuotaHeld
PROPERTY UploadAnswered
CHECK_DEADLOCK FALSE
