SPECIFICATION Spec
CONSTANTS
  w1 = w1
  w2 = w2
  WebWorkers = {w1, w2}
  MaxRetries = 3
  RetryDelay = 1
  Limit = 2
  MaxTasks = 2
  MaxChanges = 3
SYMMETRY Symmetry
INVARIANTS
  ConfirmationTrue
  MailNotOlder
  RetriesOutlastRequest
  NoMailForgotten

CHECK_DEADLOCK FALSE
