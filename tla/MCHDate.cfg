SPECIFICATION HDateSpec
CONSTANTS
  Year = {1970, 1994, 2000, 2005, 2031, 2069}
  Day = {1, 9, 10, 28}
  Time <- MCTime
INVARIANTS CountsUnixDays
CHECK_DEADLOCK FALSE
