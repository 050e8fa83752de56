SPECIFICATION Spec
CONSTANTS
  Wires <- MCWires
  Cuts <- MCCuts
  MaxHeader = 110
  LengthMod = 256
INVARIANTS Delivered ParserAsserts AllReported
