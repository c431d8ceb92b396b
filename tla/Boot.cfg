SPECIFICATION FairSpec
CONSTANTS
  zygote = zygote
  logd = logd
  console = console
  Word <- MCWord
  Image <- MCImage
  CoreServices <- MCCoreServices
  Services <- TableServices
  Core <- TableCore
  Main <- TableMain
  Disabled <- TableDisabled
  Commands <- TableCommands
  Announced = {zygote}
  MaxBoots = 1
  MaxLives = 1
  MaxControls = 2
INVARIANTS CompletedHasItsServices ScriptIsObeyed FlagHasWorker
PROPERTY CallsReturn
CHECK_DEADLOCK FALSE
