SPECIFICATION LiveSpec
CONSTANTS
  service = service  ui = ui
  Hosts = {service, ui}
  Service = service
  MaxLines = 1
  NoHost = NoHost
  NoBackup = NoBackup
  Scopes <- MCScopes
INVARIANTS FailedStartRestores NothingLeftBehind RestoreSeesHost
PROPERTY LegacyRetired
