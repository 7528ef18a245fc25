SPECIFICATION ProcessSpec
CONSTANTS
  Handler = {h1, h2}
  Monitor = {m1, m2}
  Live = live
  Validate = {vm, vp}
  MaxStarts = 2
  MaxRefused = 1
  Answers = TRUE
  HttpRequest = {r1}
  BurstSize = 3
  Mock = {a, b}
  WithAPIs = {a}
  StartMock = b
  NoMock = NoMock
INVARIANTS
  ServedOnceStarted
  OrderlyStop
  ShutMeansQuiet
  MocksOfTest
PROPERTIES
  StopReturns
  BurstEnds
CHECK_DEADLOCK FALSE
