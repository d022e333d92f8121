SPECIFICATION Spec
CONSTANTS
  Threads = {t1, t2}
  NoThread = NoThread
  ReplyKinds = {"result", "method_not_found", "invalid_params", "internal_error", "checksum_mismatch", "no_code"}
  MaxId = 3
INVARIANTS
  RemoveStaleIsNoOp
  SessionInv
PROPERTIES
  ImplementsCommandService
  CommandReturns
