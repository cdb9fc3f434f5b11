SPECIFICATION Spec
CONSTANTS
  worker = worker
  command = command
  Builders <- MCBuilders
  MaxBuilds = 4
INVARIANTS SuccessDescribesFacts
PROPERTIES SuccessIsKept
CHECK_DEADLOCK FALSE
