SPECIFICATION DeafSpec
CONSTANTS
  SilenceThreshold = 52
  UplinkWindow = 15
  Period = 5
INVARIANT OneWarningPerSilence
