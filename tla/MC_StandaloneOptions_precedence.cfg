CONSTANTS
  none = none  empty = empty  logs = logs  dnGrpc = dnGrpc  dnHome = dnHome
  tlsDefault = tlsDefault  tlsFile = tlsFile  tlsCli = tlsCli  badFile = badFile
  defaultHome = defaultHome  defaultLogDir = defaultLogDir  defaultLevel = defaultLevel
  httpDefault = httpDefault  pgDefault = pgDefault  pgEnableDefault = pgEnableDefault
  cliHome = cliHome  grpcCli = grpcCli  mysqlCli = mysqlCli  pgCli = pgCli
  NONE <- none
  EMPTY <- empty
  DEFAULT_LOGGING_DIR <- logs
  DATANODE_GRPC_ADDR <- dnGrpc
  TLS_DEFAULT <- tlsDefault
  DATANODE_DATA_HOME <- dnHome
  DEFAULTS <- MC_Defaults
  BAD_FILE <- badFile
  EnvLayers <- MC_EnvLayers
  ConfigFiles <- MC_ConfigFiles
  StartCommands <- MC_StartCommands
  GlobalOptionSets <- MC_GlobalOptionSets
SPECIFICATION Spec
\* load_options runs once at startup: the merged options are final.
CHECK_DEADLOCK FALSE
INVARIANT CliTakesPrecedence
