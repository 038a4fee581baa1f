SPECIFICATION Spec
CONSTANTS
  Wrap = 11
  Periods = {0, 2, 3}
  Pass = 2
  Run = 1
  MaxSince = 13
  Slaves = {0, 1, 16}
  Modes = {1, 2}
  InitMode = 1
  TempMode = 2
  Texts = {1}
  Pins = {5}
  Spis = {2}
  Vals = {1, 2}
  Addrs = {10, 11}
  Default = 10
  Chars <- MCChars
  Uploaded <- MCUploaded
  MaxFile = 6
  MaxStr = 5
  Words <- MCWords
  Cases <- MCCases
  Letters <- MCLetters
  Indices <- MCIndices
  Numbers <- MCNumbers
  Amounts <- MCAmounts
  Digits = {0, 9, 15, 16, 17}
  MaxList = 3
  MaxArgs = 4
INVARIANTS BusAsAsked SettingsKept TokensAgree ValuesAgree
PROPERTIES PeriodsKept
CHECK_DEADLOCK FALSE
