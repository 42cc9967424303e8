\* One upload beside the worker, with no fault.
SPECIFICATION Spec
CONSTANTS
  Keys = {k1}
  Requests = {r1}
  Grace = 2
  MaxUpload = 1
  MaxFaults = 0
  Absent = Absent
INVARIANTS AttachedFilesStay
