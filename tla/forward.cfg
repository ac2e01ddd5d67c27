SPECIFICATION Spec
CONSTANTS
  q1 = q1  q2 = q2  i1 = i1  i2 = i2
  Requests = {q1, q2}
  Instances = {i1, i2}
  Kinds = {"once", "stream", "native_once", "native_stream"}
  Threshold = 2
  Reset = 2
  Shared = TRUE
  StoreFails = FALSE
  MaxRetries = 1
  Fallback = TRUE
INVARIANTS TypeOK CountMatchesState FlagIsBacked OneAttemptServed FailuresMatchAnswer MeteredOnce
SYMMETRY Interchangeable
