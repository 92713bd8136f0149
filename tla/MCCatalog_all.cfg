CONSTANTS
  MaxHandlers = 3
  a = a
  NoName = NoName
  Names = {a, NoName}
  Requests <- SomeRequests
  InitRows <- SomeRows
  MaxPage = 3
  DefaultPage = 2
  IntLimit = 8
SPECIFICATION Spec
INVARIANTS TypeOK RefsExist ListsSurvive DeleteIsComplete PagesTile
PROPERTIES RevivedByOverlap RefsAreFresh
