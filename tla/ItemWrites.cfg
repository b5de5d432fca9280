CONSTANTS
  None = None
  Consumer = consumer
  Sweeper = sweeper
  Callers = {consumer, sweeper}
  Item = item1
  Keys = {item1}
  Entries = {e1, e2}
  UUIDs = {u1, u2}
  Names = {name}
  user = me
  Other = other
  MaxWrites = 2
  MaxInputs = 2
SPECIFICATION Spec
INVARIANTS ItemTypeOK AnswersBeforeApproval
PROPERTIES BindingKept RebindBlind MutexImplemented WriteAnswered
