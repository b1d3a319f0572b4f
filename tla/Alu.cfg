CONSTANTS
  Routines <- MCRoutines
  CMOS <- MCCMOS
SPECIFICATION aluSpec
INVARIANTS
  SumsRight
  DifferencesRight
  BitsRight
