SPECIFICATION Spec
CONSTANTS
  DataCapacity = 1
  AffinityCapacity = 2
  PipelineCapacity = 1
  GenerationModulus = 1000
  StreamHash <- Hash
  PipelineHash <- Hash
  TransferHash <- Hash
  MaxConns = 3
  ConnectionCapacity = 2
  GroupDataCapacity = 1
  TransferLimit = 1
  SendLimit = 1
  PipelineIds = {1}
  Epochs = {1}
  Streams = {1}
  Plans <- MCTlsPlans
INVARIANT WaiterNotForgotten
CHECK_DEADLOCK FALSE
