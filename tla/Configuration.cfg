SPECIFICATION ConfigurationSpec
CONSTANTS
  File <- Files
  Precision <- Precisions
  Library <- Libraries
  NoName = "noname"
  ConfFile <- ConfFiles
  TextItem = {"local_ip"}
  NumberItem = {"proxy_port"}
  LastUpload = "last_upload"
  OtherItem = {"unknown"}
  Value = {0, 1, 2}
  Number = {1, 2}
  Default <- Defaults
  MaxSaves = 4
INVARIANTS
  OwnUnitsLoaded
  OwnUnitsPolled
  SavedIsRead
CHECK_DEADLOCK FALSE
