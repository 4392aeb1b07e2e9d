SPECIFICATION BenchSpec
CHECK_DEADLOCK FALSE
CONSTANTS
  Benches = {"control"}
  p1 = p1 p2 = p2 p3 = p3 serial = serial
  Nothing = Nothing EventCap = 1 CmdCap = 1 MaxEvents = 2 MaxCmds = 2 Rates = {0, 1}
  Plugs = {p1, p2} SerialOf <- MCSerialOf IsBoard = {p1, p2}
  Transports = {{"usb", "cpu"}, {"nano3s"}, {"usb", "nano3s"}}
  NoValue = NoValue Byte = 2 MaxSize = 4 MaxWays = 4 GpLow = 1 GpWidth = 3 VersionTop = 4
  Versions = {{0}, {4}, {2}} Masks = {{}, {1, 2, 3}, {3}, {0, 1, 2, 3, 4}}
  Empty = Empty PoolByte = 16 MaxHeight = 300 MaxTag = 2 MaxTxs = 9 Width = 4 ScriptLen = 32
  Diff1 = 63 Fraction = 16 MaxDiff = 80
  FrameLen = 3 Segments = 3 Nib = 2 MaxRawReg = 63 WorkBits = 6
  RampFrom = 225 RampTo = 2100 RampStep = 25 Frequencies <- MCFrequencies
  Ids = 3 DeviceRoom = 2 MaxTimeouts = 1
  ExpBits = 2 MantBits = 5 VoutWordMax = 15 MaxValue = 700 TempBits = 11 PwmMax = 63
  BadLimit = 3 MaxInits = 2
  CmdEvery = 2 ClockEvery = 4 NonceSpace = 6 CpuShareCap = 1 MaxCpuTasks = 3
  EstWindow = 2 MaxSamples = 2 Works = {1, 5} Debounce = 2 MaxClock = 4 MaxRecords = 4 MaxChecks = 5
  Setters = {"x", "y"} BaudRates = {1, 2} TxRoom = 1 MaxTx = 2 MaxRx = 1
  PortConfigs <- MCPortConfigs Leftovers <- MCLeftovers
PROPERTY RecoversFromTimeout
