\* Numbers of 2, 4, 6 and 8 bits: decimal, octal and hexadecimal ones with their
\* prefixes and signs fit the buffer of 5, as in the code, and binary ones do not.
SPECIFICATION FairSpec
CONSTANTS
  BufferSize = 5
  CharBits = 2
  ShortBits = 4
  IntBits = 6
  LongBits = 8
  PointerDigits = 2
  BufferRoom = 16
  Texts <- MCTexts
  Calls <- MCCalls
  Ascii <- MCAscii
  Formatting <- MCFormatting
INVARIANTS
  PrintsWhatTheStandardSays
  ReadsStayInStrings
  ShowsLogAndPanic
  LineCarriesTheText
PROPERTIES
  EverythingIsPrinted
CHECK_DEADLOCK FALSE
