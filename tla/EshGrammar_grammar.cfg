SPECIFICATION Spec
CONSTANT
  MaxTokens = 5
INVARIANTS ParsesAsWritten FitForExecution NoWordLost MeaningInv
