SPECIFICATION FairSpec
CONSTANTS
  BitmapSize = 3
  ByteBits = 3
  Usable <- TwoHoles
  Holders = {h1, h2}
  Nobody = Nobody
  Nums = {1, 2, 5, 7, 8}
PROPERTIES
  RefusedWhenTooFewAreFree
