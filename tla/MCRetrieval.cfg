SPECIFICATION SSpec
CONSTANTS
  common = common
  some = some
  rare = rare
  txt = txt
  csv = csv
  None = None
  Documents <- MCDocuments
  ChunkMinChars = 4
  ChunkTargetChars = 8
  ChunkMaxChars = 16
  OverlapChars = {2, 5}
  TableRowsPerChunk = 4
  Searched <- MCSearched
  Words = {common, some, rare}
  Occurrences <- MCOccurrences
  Queries <- MCQueries
  Types = {txt}
  FileTypeOf <- MCFileTypeOf
  AskedTopK <- MCAskedTopK
  DefaultTopK = 3
  ToolMaxK = 4
  Multiplier = 2
  IndexMaxHits = 5
  ExpansionSize = 2
CHECK_DEADLOCK FALSE
INVARIANTS
  
  
  
  NothingWithheld
  BestShown
