SPECIFICATION FairSpec
CONSTANTS
  Files <- TheFiles
  Standard = "config/config.yaml"
  Reads <- TheReads
  Ports = {8000, 9000}
  DefaultPort = 8000
  BadPort = BadPort
  FilesAtFirst <- TheFilesAtFirst
  NoFile = NoFile
  NoChild = NoChild
  Servers = {1, 2}
  JoinOrder <- TheJoins
  Budgets <- TheBudgets
INVARIANTS
  TypeOK
  StoppedIsTrue
  OneServer
  StartsAsShown
PROPERTIES
  StopWorks
