\* Signatures of at most two arguments, of every type; some requests and some
\* answers are larger than the buffers.
CONSTANTS
  Wide = 2
  BufSize = 8
  MaxLen = 2
  MaxArgs = 2
  Types = {"int8", "int32", "int64", "string", "buffer", "string_out", "buffer_out"}
SPECIFICATION FairSpec
INVARIANTS ExecutedAsCalled 
PROPERTY CallEnds
\* One call: the behaviour stops when it has ended.
CHECK_DEADLOCK FALSE
