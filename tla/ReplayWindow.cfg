CONSTANTS
  WordBits = 3
  Words = 3
  MaxSequence = 12
  Sequences <- MCSequences
SPECIFICATION Spec
INVARIANTS TypeOK AtMostOnce NoFalseDrop BitmapExact
PROPERTY ImplementsAntiReplay
