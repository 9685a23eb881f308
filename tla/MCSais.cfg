SPECIFICATION Spec
CONSTANTS
  ByteBits = 2
  Letters = {0, 1, 3}
  MaxText = 7
  Texts <- ShortAndDeepTexts
INVARIANTS
  OneAllocation
  SaisTypeOK
  SuffixSorted
  FreqFresh
  LMSSuffixesSorted
  NamesFaithful
PROPERTIES
  QueueKept
  TextsUntouched
  SortReturns
