SPECIFICATION Spec
CONSTANTS
  Calls <- MCCalls
  Cells <- MCCells
INVARIANTS TypeOK RestrictHolds InputsReadAsBefore SizesAgree
PROPERTY CallIsAtomic
