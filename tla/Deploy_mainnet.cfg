SPECIFICATION FairSpec
CONSTANTS
  Keys <- MCKeys
  Contracts <- MCContracts
  Ownerless <- MCOwnerless
  Known <- MCKnown
  Lists <- MCLists
  MaxInterrupts = 1
INVARIANTS TypeOK RecordIsSound
PROPERTIES RecordedForGood AllListsDone
