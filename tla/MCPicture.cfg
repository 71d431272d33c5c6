SPECIFICATION PictureSpec
CONSTANTS
  Step = 1301
  Revisions = {9, 99, 126}
  nameSize = 7
  id = 4369
INVARIANTS
  DateAssigned
  PictureWhole
PROPERTY DateAdvances
CHECK_DEADLOCK FALSE
