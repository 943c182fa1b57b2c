SPECIFICATION KeysSpec

CONSTANTS
  Keys = {k1}
  Values = {v, w}
  Blank = Blank
  Exports = {Blank, v}
  InFile = {Blank, v}
  Mask = Mask
  Clear = Clear
  Readers = {r}
  Savers = {s}
  MaxStarts = 2
  MaxSaves = 1

PROPERTIES
  ExportedWins
