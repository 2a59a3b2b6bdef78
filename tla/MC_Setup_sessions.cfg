SPECIFICATION Spec
CONSTANTS
  PublicKeys <- TwoKeys
  Texts <- SomeTexts
  TextLength <- LengthOf
  Programs = {"sketch","any"}
  Buffers <- SomeBuffers
  HeapSize = 4
  Mixing = FALSE
CHECK_DEADLOCK FALSE
INVARIANTS TypeOK PointersLive OnlyKeptKeysLeak VcFits DidNamesKey ShowsItsOwn StartsAsModelled CtxStillOwns
