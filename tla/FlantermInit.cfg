SPECIFICATION LifeSpec
CONSTANTS
  Terminals = {t1, t2}
  Shapes <- MCShapes
  PoolSize = 307
  Glyphs = 2
  FontByte = 2
  BuiltinHeight = 2
  ContextSize = 7
  CharSize = 3
  ItemSize = 5
  PointerSize = 2
  PixelSize = 4
INVARIANTS
  MemoryIsAccountedFor
  BlocksFit
  FirstPictureIsExact
CHECK_DEADLOCK FALSE
