SPECIFICATION Spec
CONSTANTS
  log1 = log1  log2 = log2
  detumbleLOG = detumbleLOG  detumbleSTART = detumbleSTART
  a = a  b = b
  Exit = Exit  NoFile = NoFile
  Name = {log1, log2}
  Tag = {detumbleLOG, detumbleSTART}
  Record = {a, b}
  RowSize <- MCRowSize
  Page = 4  Block = 8  InlineMax = 4
  MaxRows = 4
  MaxFaults = 2
INVARIANTS TypeOK RowsAreWhole ReadsInOrder
PROPERTIES CloseCommits ImplementsJournal
SYMMETRY Sym
