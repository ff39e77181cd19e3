SPECIFICATION PreferencesSpec
CONSTANTS
  logPath = logPath
  openLogWindow = openLogWindow
  language = language
  old = old
  english = english
  french = french
  On = On
  Off = Off
  Number = Number
  DEFAULT = DEFAULT
  NoValue = NoValue
  Unreadable = Unreadable
  Missing = Missing
  Torn = Torn
  Stopped = Stopped
  Crashed = Crashed
  Closed = Closed
  Texts = {english, french}
  Switches = {On, Off}
  Known <- MCKnown
  Unknown <- MCUnknown
  Startup <- MCStartup
  DefaultValue <- MCDefault
  MaxEdits = 2
  MaxSets = 1
INVARIANTS
  CopiesFollow
PROPERTIES
  ValuesStick
  SavedIsLoaded
CHECK_DEADLOCK FALSE
