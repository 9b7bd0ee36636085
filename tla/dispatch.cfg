SPECIFICATION FairCommitSpec
CONSTANTS
  Ops = {o1}
  Tasks <- MCTasks
  Workers = {w1, w2}
  MaxRetries = 1
  MaxCopies = 2
  NoJob = NoJob
INVARIANTS
  CommitTypeOK
  TasksAreAccountedFor
PROPERTIES
  SentTasksEnd
