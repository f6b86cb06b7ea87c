\* One command, one device.
SPECIFICATION DevicesSpec
CONSTANTS
  Boards = {"alex", "lumpy"}
  Chips <- MCChips
  MaxPolls = 1
  MaxRuns = 2
  SEC = 6
  Timeouts <- MCTimeouts
  MaxGap = 2
  LEN = 2
  N = 4
  EntryLengths = {2, 3}
  Lists <- MCLists
  Types = {1, 3}
  Cuts = {0, 1, 8}
  I2cDevices <- MCI2cDevices
  NREG = 2
  SPD_MAX_LENGTH = 3
  I2C_HANDLE_MAX = 2
  BrokenSets = {{}, {1}}
  Wirings <- MCWirings
  MaxAbandoned = 1
  SpdBoards <- MCSpdBoards
  Requests <- MCRequests
  MaxFailed = 2
  Transports = {"i2c", "dev", "dev_v2"}
  Contexts = {0, 200}
  Wrong <- MCWrong
  Pads = {0, 255}
INVARIANTS
  ChipKept
  VersionTrue
  VersionBytes
  VpdFound
  TablesFound
  ReadsOfDevice
  StrapsTrue
  SpdPrinted
  AllPrinted
  AnswerTrue
PROPERTY CommandsEnd
CHECK_DEADLOCK FALSE
