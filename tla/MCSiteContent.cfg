CONSTANTS
  b1 = b1
  b2 = b2
  l1 = l1
  p1 = p1
  p2 = p2
  p3 = p3
  x = x
  y = y
  Batches <- TwoBatches
  MaxFiles = 2
  Listings <- OneListing
  Puts <- ThreePuts
  Values <- TwoValues
  Bodies <- SomeBodies
  Default = x
  Missing = Missing
  Null = Null
  Nowhere = Nowhere
SPECIFICATION SiteSpec
INVARIANTS SiteTypeOK UrlsNameWholeFiles BadBatchSavesNothing OneLocation WholeOfOnePut
SYMMETRY PutSymmetry
