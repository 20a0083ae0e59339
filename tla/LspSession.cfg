CONSTANTS
  Tasks = {t1, t2}
  Forms = {"_jsonrpc"}
  Decodable = {"_jsonrpc"}
  Prompt = FALSE
  MaxCommands = 2
  PipeSize = 2
  None = None
SPECIFICATION Spec
INVARIANTS TypeOK PendingMeansWaiting OneDeadlock
PROPERTY CommandsEnd
CHECK_DEADLOCK FALSE
