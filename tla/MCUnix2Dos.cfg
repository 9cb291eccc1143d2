\* Every text of up to 5 bytes, two bytes to a chunk: up to three chunks, the
\* last one full or not, and a failing read or write at every place.
CONSTANTS
  LF = LF
  CR = CR
  Char = Char
  MaxLen = 5
  BufSize = 2
  Byte <- MCByte
  Text <- MCText
  DosText <- MCDosText
SPECIFICATION Spec
INVARIANTS NoOverrun Converted
PROPERTY EndsRight
CHECK_DEADLOCK FALSE
