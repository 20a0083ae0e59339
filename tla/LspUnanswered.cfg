CONSTANTS
  Tasks = {t1}
  Forms = {"jsonrpc"}
  Decodable = {"_jsonrpc"}
  Prompt = TRUE
  MaxCommands = 1
  PipeSize = 2
  None = None
SPECIFICATION Spec
PROPERTY AnswersArrive
CHECK_DEADLOCK FALSE
