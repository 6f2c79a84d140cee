SPECIFICATION SettingsSpec
CONSTANTS
  Resolutions = {640, 2048}
  Levels <- MCLevels
  Effects = {"bluish", "negative", "normal"}
  Sharpness = {"auto_1", "manual_3"}
  MaxCalls = 4
  MaxRefused = 2
INVARIANTS SettingsInForce FormatKept
CHECK_DEADLOCK FALSE
