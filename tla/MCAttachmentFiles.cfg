\* Two requests beside the worker, with one fault.
SPECIFICATION Spec
CONSTANTS
  Keys = {k1, k2}
  Requests = {r1, r2}
  Grace = 2
  MaxUpload = 1
  MaxFaults = 1
  Absent = Absent
INVARIANTS CompensationComplete
PROPERTIES SuccessHasFiles CleanedUp
