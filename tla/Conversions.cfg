SPECIFICATION Spec
CONSTANTS
  Expressions <- MCExpressions
  Sources <- MCSources
  Listings <- MCListings
  Ids = {"a", "b"}
  Texts = {"old", "new", "found"}
  Documents <- MCDocuments
  Found = "found"
  MaxStores = 3
  Visits <- MCVisits
  MaxLinks = 2
  NoInstrument <- MCNoInstrument
  IntMax = 7
  Null = Null
  Other = Other
  NoSource = NoSource
INVARIANTS SameExpression WellMarked LinksExact SumsExact RefusedRightly LinksLead SourceFound
CHECK_DEADLOCK FALSE
