SPECIFICATION Spec
CONSTANTS
  PublicKeys <- TwoKeys
  Texts <- SomeTexts
  TextLength <- LengthOf
  Programs = {"any"}
  Buffers <- SomeBuffers
  HeapSize = 4
  Mixing = TRUE
CHECK_DEADLOCK FALSE
INVARIANT CtxStillOwns
