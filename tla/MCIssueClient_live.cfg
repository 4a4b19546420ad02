SPECIFICATION LiveSpec
CONSTANTS
  Stor = {l1, l2}
  Spec1 = {s1}
  Nowhere = Nowhere
  Kind = {"I", "U", "X", "CHRG"}
  Verdict = {success}
  MaxIssue = 1
  MaxNum = 1
  MaxFault = 1
INVARIANTS EndsDiffer
PROPERTIES RedOnlyIfRefused VerdictArrives NewestShown
CHECK_DEADLOCK FALSE
