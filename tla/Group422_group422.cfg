SPECIFICATION Spec
CONSTANTS
  Width = 7
  MaxWord = 4
INVARIANTS TypeOK BinHexExact SumExact ReversesInPlace Group422Inv
