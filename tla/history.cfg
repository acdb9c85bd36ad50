SPECIFICATION Spec
CONSTANTS
  Postings = {p1, p2, p3}
  Opening = opening
  Limit = 2
  MaxTime = 2
  None = None
SYMMETRY PostingSymmetry
INVARIANTS TypeOK TimesFollowCommits NothingSkipped ToldRowsAreListed RepeatsNeedNewRows
CHECK_DEADLOCK FALSE
