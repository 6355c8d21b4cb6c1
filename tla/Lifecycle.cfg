\* One run of the program before and one after an end of any kind, two handlers
\* with two calls between them.
CONSTANTS
  Main = Main
  Tasks = {Main, h1, h2}
  Admin = Admin
  Other = Other
  Users = {Admin, Other}
  None = None
  Traffic = {"select", "put", "append"}
  PoolSize = 1
  MaxConns = 3
  MaxCalls = 4
  MaxFaults = 1
  MaxStarts = 2
  MaxUpdates = 2
  MaxEnds = 1
SPECIFICATION Spec
INVARIANTS
  TypeOK
  PoolIsSound OnlyFailuresSpoil
  RecordsTellTheSchema ServesOnlyWhenReady NeverHandledTwice 
PROPERTY StopsWhenTold
CHECK_DEADLOCK FALSE
