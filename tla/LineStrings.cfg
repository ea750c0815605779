SPECIFICATION Spec
CONSTANTS
  c1 = c1
  c2 = c2
  c3 = c3
  Conns = {c1, c2, c3}
  Requests <- ClientRequests
  Databases = {"db"}
  Policies = {"rp"}
  Measurements = {"cpu"}
  Times = {1}
  Values = {1, 2}
  OverflowChecks = TRUE
  Half = 8
  MaxBinds = 1
  Selects <- Statements
  Contents <- SomeTables
  TimeNames = {"time", "timeout"}
  DefaultLimit = 1000
  Texts <- SomeTexts
  SeriesLists <- SomeSeries
  QueryLists <- SomeQueries
  RowLists <- SomeRows
  MaxBatchRows = 2
INVARIANT
  LineProtocolParsed
CHECK_DEADLOCK FALSE
