SPECIFICATION StreamSpec
CONSTANTS
  ClientIds = {c1}
  NoId = NoId
  Posts = 1
  Changes = 1
  Losses = 1
  Restarts = 1
  Resends = 1
INVARIANTS ViewIsPublished ShownOnce OfferIsUnseen
CHECK_DEADLOCK FALSE
PROPERTIES Converges ReloadsEnd
