SPECIFICATION FairSpec
CONSTANTS
  BitmapSize = 3
  ByteBits = 3
  Usable <- TwoHoles
  Holders = {h1, h2, h3}
  Nobody = Nobody
  Nums = {1, 2, 3, 5, 7, 8}
INVARIANTS
  NoDoubleAllocation
  BitmapAccountsForFrames
  SkipsNoFit
  ReadsInsideBitmap
PROPERTIES
  ServedWhenItFits
  ImplementsPagePool
