SPECIFICATION ProcessSpec
CONSTANTS
  Handler = {h1}
  Monitor = {m1}
  Live = live
  Validate = {vm, vp}
  MaxStarts = 1
  MaxRefused = 1
  Answers = TRUE
  HttpRequest = {r1}
  BurstSize = 1
  Mock = {a}
  WithAPIs = {a}
  StartMock = a
  NoMock = NoMock
INVARIANTS
  ErrorReported
CHECK_DEADLOCK FALSE
