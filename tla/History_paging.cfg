SPECIFICATION FairSpec
CONSTANTS
  t1 = t1
  t2 = t2
  None = None
  Tag <- TwoTags
  Msg <- FiveRows
  TagOf <- RowTagOf
  TsOf <- RowTsOf
  PageSize = 2
  Ranges <- OpenAndBounded
INVARIANTS TypeOK PagesAreDue
PROPERTIES LoadIsComplete LoadIsExact LoadEnds
