SPECIFICATION Spec
CONSTANT Half = 4
CONSTANT Inputs <- MCInputs
INVARIANTS TypeOK ResultFits DivisionTruncates
