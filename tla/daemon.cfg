SPECIFICATION Spec
CONSTANTS
  Calls = {1, 2}
  Commands = {"serve", "list", "channel"}
  Blockchain = {TRUE, FALSE}
  Checks = {1, 2}
  Types = {"grpc", "http", "ftp"}
  Endpoints = {"", "url", "malformed"}
  Alerts = {"", "valid", "invalid"}
  Vias = {"grpc", "http"}
  Publishers = {1, 2}
  MaxTokens = 4
CHECK_DEADLOCK FALSE
INVARIANTS ServedUntilDrained EtcdReleased ReturnsResult OneRetry
PROPERTIES Ends DeadlineEndsCheck PublishReturns
