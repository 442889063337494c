SPECIFICATION ConnSpec
CONSTANTS
  KuRequests <- MCKuRequests
  ServiceOf <- MCServiceOf
  SrItems = {s1, s2, s3}
  NULL = NULL
INVARIANTS
  ListsPartitionAll
  PipelineKeepsOrder
PROPERTY
  OkEventuallyAnswered
CHECK_DEADLOCK FALSE
