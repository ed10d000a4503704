\* Does a confined session stay confined?
SPECIFICATION InterceptSpec
CONSTANTS
  Commands = {"ls"}
  MaxShims = 2
PROPERTIES ConfinementKept
CHECK_DEADLOCK FALSE
