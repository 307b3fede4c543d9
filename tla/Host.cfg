\* os_read: files of up to three bytes, a limit below that, and two edits, enough to
\* change a file's size and change it back. os_read_stdin: three steps and one byte
\* reach the limit, so the last reads are shorter than a step, and the input passes it
\* by up to two bytes. os_write: two modes beside the two special ones, a write in up to
\* three parts, and two replacements by another process.
CONSTANTS
  DataLenMax = 2
  MaxLen = 3
  MaxEdits = 2
  StepLen = 3
  InputLenMax = 10
  MaxInput = 12
  None = none
  Directory = directory
  Symlink = symlink
  DataLen = 3
  Modes = {m0600, m0644, m0755}
  TempMode = m0600
  Created = m0644
  MaxReplacements = 2
SPECIFICATION HostSpec
INVARIANTS
  ReadsTheFile
  OneWayWriterIsSeen
  VerdictIsTrue
  BufferIsBounded
  VerdictIsExact
  ModeIsKept
  NothingIsLeft
PROPERTIES
  StdinReadEnds
  ImplementsAtomicFile
  WriteCallEnds
CHECK_DEADLOCK FALSE
