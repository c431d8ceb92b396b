SPECIFICATION Spec
CONSTANTS
  zygote = zygote
  logd = logd
  console = console
  Word <- MCWord
  Image <- MCImage
  CoreServices <- MCCoreServices
  Services <- TableServices
  Core <- TableCore
  Main <- TableMain
  Disabled <- TableDisabled
  Commands <- TableCommands
  Announced = {zygote}
  MaxBoots = 0
  MaxLives = 1
  MaxControls = 0
PROPERTIES LiveBootSurvives
CHECK_DEADLOCK FALSE
