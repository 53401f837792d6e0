SPECIFICATION FairSpec
CONSTANTS
  Programs = {"rtc", "watchdog", "timer_hw", "system_timer", "voltage", "uart", "cdc_acm", "spi", "pwm", "clk", "dmac_multi", "vbltest", "sdioh", "ir", "adc", "thermal", "audio_pll", "misc", "captouch", "kmstest", "universal_planes", "steal_crtc"}
  RtcStarts = {0, 49, 3595, 86385, 86395}
  RtcArgs <- MCRtcArgs
  RtcTicks = 12
  Timeouts = {2, 3, 5}
  Unsigned = 8
  Params <- MCParams
  Clocks = {0, 28, 60}
  Word = 64
  TimerSlack = 2
  Intervals = {0, 1, 2}
  Repeats = {0, 1, 3}
  MaxElapsed = 8
  Chars = {"a", "b", "nul"}
  Nul = "nul"
  BufferSize = 4
  MaxSent = 4
  StringLen = 2
  TtyRoom = 4
  SpiOptions <- MCSpiOptions
  PwmArgs <- MCPwmArgs
  PwmRuns = 3
  Binds = 2
  KmsOptions <- MCKmsOptions
  KmsPlaneTypes <- MCKmsPlaneTypes
  KmsPipes = 2
  Batch = 3
  MaxLate = 2
INVARIANTS
  TypeOK
  TimeKept
  EchoKept
  VerdictsEarned
  NothingLeftBehind
PROPERTIES
  ProgramsEnd
CHECK_DEADLOCK FALSE
