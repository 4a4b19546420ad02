SPECIFICATION Spec
CONSTANTS
  Stor = {l1, l2}
  Spec1 = {}
  Nowhere = Nowhere
  Kind = {"I", "X", "CHRG"}
  Verdict = {success, failure}
  MaxIssue = 2
  MaxNum = 2
  MaxFault = 1
SYMMETRY MCSymmetry
INVARIANTS TypeOK OneUndecided ShownIsDone
PROPERTIES FinishedStays PermitByVerdict
CHECK_DEADLOCK FALSE
