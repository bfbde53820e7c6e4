-------------------------- MODULE StandaloneOptions --------------------------
(***************************************************************************)
(* Option loading of the standalone command (src/src/cmd/src/              *)
(* standalone.rs): StartCommand::load_options takes the options layered   *)
(* from defaults, environment and config file, and merge_with_cli_options  *)
(* lays the command-line flags and the global flags over them.            *)
(*                                                                         *)
(* Only the options merge_with_cli_options touches are kept.  The layered  *)
(* loading (GreptimeOptions::load_layered_options) and TlsOption::new live *)
(* outside the modelled sources.  The first starts from                    *)
(* StandaloneOptions::default() and takes each option from the config file *)
(* if it sets it, else from the environment (the order the comment on      *)
(* merge_with_cli_options states); a file it cannot read fails the load.   *)
(* TlsOption::new overrides the default TlsOption by each flag given.     *)
(***************************************************************************)
EXTENDS Naturals, FiniteSets

CONSTANTS
  NONE,                \* Option::None of a flag
  EMPTY,               \* the empty string
  DEFAULT_LOGGING_DIR, \* "logs", joined under the data home
  DATANODE_GRPC_ADDR,  \* DatanodeOptions::default().grpc.bind_addr
  TLS_DEFAULT,         \* TlsOption::default() (mode Disable)
  DATANODE_DATA_HOME,  \* DatanodeOptions::default().storage.data_home
  DEFAULTS,            \* the Default of the option sections of other crates
  BAD_FILE,            \* a config file load_layered_options cannot read
  EnvLayers,           \* the options environments may set: path -> value
  ConfigFiles,         \* the options config files may set, or BAD_FILE
  StartCommands,       \* the StartCommand flags parsed from the command line
  GlobalOptionSets     \* the GlobalOptions flags parsed from the command line

ILLEGAL_CONFIG == [error |-> "IllegalConfig"]
LOAD_LAYERED_CONFIG == [error |-> "LoadLayeredConfig"]

\* StandaloneOptions::default(): each section's own Default, no user provider.
StandaloneOptionsDefault ==
  [logging |-> DEFAULTS.logging, storage |-> DEFAULTS.storage, http |-> DEFAULTS.http,
   grpc |-> DEFAULTS.grpc, mysql |-> DEFAULTS.mysql, postgres |-> DEFAULTS.postgres,
   influxdb |-> DEFAULTS.influxdb, user_provider |-> NONE]

(***************************************************************************)
(* load_layered_options on an environment and a readable config file: an  *)
(* option (a path << section, field >>, or << "user_provider" >>) comes    *)
(* from the file if it sets it, else from the environment, else from the  *)
(* default.                                                                *)
(***************************************************************************)
LoadLayeredOptions(env, file) ==
  LET D == StandaloneOptionsDefault
      Pick(p, d) == IF p \in DOMAIN file THEN file[p] ELSE IF p \in DOMAIN env THEN env[p] ELSE d
  IN  [s \in DOMAIN D |->
         IF s = "user_provider" THEN Pick(<< s >>, D[s])
         ELSE [f \in DOMAIN D[s] |-> Pick(<< s, f >>, D[s][f])]]

\* Path::new(data_home).join(DEFAULT_LOGGING_DIR): the path under the data home.
JoinPath(home, dir) == << home, dir >>

\* TlsOption::new(mode, cert, key): the default with the given mode (cert and
\* key paths are set the same way and are folded into the mode here).
TlsOptionNew(mode) == IF mode = NONE THEN TLS_DEFAULT ELSE mode

\* Mutant: the default log dir is derived before --data-home is applied.
MergeLogDirBeforeDataHome(cmd, global, opts) ==
  LET o1 == IF global.log_dir # NONE THEN [opts EXCEPT !.logging.dir = global.log_dir] ELSE opts
      o2 == IF global.log_level # NONE THEN [o1 EXCEPT !.logging.level = global.log_level] ELSE o1
      o3 == IF cmd.http_addr # NONE THEN [o2 EXCEPT !.http.addr = cmd.http_addr] ELSE o2
      o4 == IF o3.logging.dir = EMPTY
            THEN [o3 EXCEPT !.logging.dir = JoinPath(o3.storage.data_home, DEFAULT_LOGGING_DIR)] ELSE o3
      o5 == IF cmd.data_home # NONE THEN [o4 EXCEPT !.storage.data_home = cmd.data_home] ELSE o4
  IN  o5

\* Mutant: --http-addr is never applied.
MergeLogDirNoHttpAddr(cmd, global, opts) ==
  LET o1 == IF global.log_dir # NONE THEN [opts EXCEPT !.logging.dir = global.log_dir] ELSE opts
      o2 == IF global.log_level # NONE THEN [o1 EXCEPT !.logging.level = global.log_level] ELSE o1
      o4 == IF cmd.data_home # NONE THEN [o2 EXCEPT !.storage.data_home = cmd.data_home] ELSE o2
  IN  IF o4.logging.dir = EMPTY
      THEN [o4 EXCEPT !.logging.dir = JoinPath(o4.storage.data_home, DEFAULT_LOGGING_DIR)]
      ELSE o4

\* The options merge_with_cli_options sets up to the data home and log dir.
MergeLogDir(cmd, global, opts) ==
  LET o1 == IF global.log_dir # NONE THEN [opts EXCEPT !.logging.dir = global.log_dir] ELSE opts
      o2 == IF global.log_level # NONE THEN [o1 EXCEPT !.logging.level = global.log_level] ELSE o1
      o3 == IF cmd.http_addr # NONE THEN [o2 EXCEPT !.http.addr = cmd.http_addr] ELSE o2
      o4 == IF cmd.data_home # NONE THEN [o3 EXCEPT !.storage.data_home = cmd.data_home] ELSE o3
  IN  IF o4.logging.dir = EMPTY
      THEN [o4 EXCEPT !.logging.dir = JoinPath(o4.storage.data_home, DEFAULT_LOGGING_DIR)]
      ELSE o4

\* A server section with --<server>-addr given: enabled, the address, the CLI TLS.
EnableServer(section, addr, tls) == [section EXCEPT !.enable = TRUE, !.addr = addr, !.tls = tls]

(***************************************************************************)
(* StartCommand::merge_with_cli_options, in its order.  A --rpc-bind-addr  *)
(* equal to the datanode's reserved gRPC address returns IllegalConfig     *)
(* (the partly merged options are dropped by load_options' `?`).          *)
(***************************************************************************)
MergeWithCliOptions(cmd, global, opts) ==
  LET tls == TlsOptionNew(cmd.tls_mode)
      o1  == MergeLogDir(cmd, global, opts)
      o2  == IF cmd.rpc_bind_addr # NONE THEN [o1 EXCEPT !.grpc.bind_addr = cmd.rpc_bind_addr] ELSE o1
      o3  == IF cmd.mysql_addr # NONE THEN [o2 EXCEPT !.mysql = EnableServer(@, cmd.mysql_addr, tls)] ELSE o2
      o4  == IF cmd.postgres_addr # NONE THEN [o3 EXCEPT !.postgres = EnableServer(@, cmd.postgres_addr, tls)] ELSE o3
      o5  == IF cmd.influxdb_enable THEN [o4 EXCEPT !.influxdb.enable = TRUE] ELSE o4
      o6  == IF cmd.user_provider # NONE THEN [o5 EXCEPT !.user_provider = cmd.user_provider] ELSE o5
  IN  IF cmd.rpc_bind_addr = DATANODE_GRPC_ADDR THEN ILLEGAL_CONFIG ELSE o6

(***************************************************************************)
(* StandaloneOptions::frontend_options and ::datanode_options: field       *)
(* copies into the options of the two components; every field not kept   *)
(* here comes from their Default.  Both receive the same gRPC options.    *)
(***************************************************************************)
FrontendOptions(o) ==
  [http |-> o.http, grpc |-> o.grpc, mysql |-> o.mysql, postgres |-> o.postgres,
   influxdb |-> o.influxdb, logging |-> o.logging, user_provider |-> o.user_provider]

\* Mutant: the storage section is left to DatanodeOptions::default().
DatanodeOptionsDefaultStorage(o) ==
  [node_id |-> 0, storage |-> [data_home |-> DATANODE_DATA_HOME], grpc |-> o.grpc]

DatanodeOptions(o) == [node_id |-> 0, storage |-> o.storage, grpc |-> o.grpc]

VARIABLES
  cmd,     \* the StartCommand
  global,  \* the GlobalOptions
  env,     \* the options the environment sets, under the command's env prefix
  file,    \* the options the config file sets (<< >> without one), or BAD_FILE
  opts,    \* NONE before load_options, then its result
  feOpts,  \* NONE before build, then the FrontendOptions build derives
  dnOpts   \* NONE before build, then the DatanodeOptions build derives

vars == << cmd, global, env, file, opts, feOpts, dnOpts >>

Init ==
  /\ cmd \in StartCommands
  /\ global \in GlobalOptionSets
  /\ env \in EnvLayers
  /\ file \in ConfigFiles
  /\ opts = NONE
  /\ feOpts = NONE
  /\ dnOpts = NONE

\* The options load_layered_options returns for a readable config file.
layered == LoadLayeredOptions(env, file)

\* StartCommand::load_options: the layered options, or LoadLayeredConfig,
\* then merge_with_cli_options over them.
LoadOptions ==
  /\ opts = NONE
  /\ opts' = IF file = BAD_FILE THEN LOAD_LAYERED_CONFIG ELSE MergeWithCliOptions(cmd, global, layered)
  /\ UNCHANGED << cmd, global, env, file, feOpts, dnOpts >>

\* load_options returned the options.
Loaded == opts \notin {NONE, ILLEGAL_CONFIG, LOAD_LAYERED_CONFIG}

(***************************************************************************)
(* The start of StartCommand::build on the loaded options: after the       *)
(* logging set-up, grpc.detect_server_addr() fills the advertised address  *)
(* (not kept here) and the frontend and datanode options are derived.      *)
(* The datanode's storage.data_home is the directory build creates and    *)
(* puts the metadata store under.  An IllegalConfig never reaches build.   *)
(***************************************************************************)
BuildOptions ==
  /\ Loaded
  /\ feOpts = NONE
  /\ feOpts' = FrontendOptions(opts)
  /\ dnOpts' = DatanodeOptions(opts)
  /\ UNCHANGED << cmd, global, env, file, opts >>

Next == LoadOptions \/ BuildOptions

Spec == Init /\ [][Next]_vars

(***************************************************************************)
(* The logging dir of the loaded options: --log-dir if given, else the     *)
(* configured one, and when that is empty the logs directory under the    *)
(* data home the instance will actually use, i.e. after --data-home is    *)
(* applied (the ordering merge_with_cli_options relies on).               *)
(***************************************************************************)
EffectiveDataHome == IF cmd.data_home # NONE THEN cmd.data_home ELSE layered.storage.data_home

ExpectedLogDir ==
  LET dir == IF global.log_dir # NONE THEN global.log_dir ELSE layered.logging.dir
  IN  IF dir = EMPTY THEN JoinPath(EffectiveDataHome, DEFAULT_LOGGING_DIR) ELSE dir

(***************************************************************************)
(* The instance that build makes logs, through the frontend's           *)
(* logging options, to ExpectedLogDir, and the datanode it builds keeps   *)
(* its data in the data home the command line and the configuration       *)
(* select: the home the default log dir was joined under.                 *)
(***************************************************************************)
LogDirUnderEffectiveDataHome ==
  /\ Loaded => opts.logging.dir = ExpectedLogDir
  /\ feOpts # NONE => feOpts.logging.dir = ExpectedLogDir
  /\ dnOpts # NONE => dnOpts.storage.data_home = EffectiveDataHome

(***************************************************************************)
(* The comment on merge_with_cli_options: "The precedence order is: cli > *)
(* config file > environment variables > default values."  Every option   *)
(* the command line gives is taken from it, and every option it does not  *)
(* give keeps its configured value.  The TLS flags are read as applying   *)
(* to the servers the command line enables; a server it enables without    *)
(* TLS flags keeps its configured TLS.                                    *)
(***************************************************************************)
Given(x) == x # NONE

ServerAfter(section, addr, tlsGiven) ==
  [enable |-> IF Given(addr) THEN TRUE ELSE section.enable,
   addr   |-> IF Given(addr) THEN addr ELSE section.addr,
   tls    |-> IF Given(addr) /\ Given(tlsGiven) THEN tlsGiven ELSE section.tls]

CliTakesPrecedence ==
  Loaded =>
    /\ opts.http.addr = IF Given(cmd.http_addr) THEN cmd.http_addr ELSE layered.http.addr
    /\ opts.grpc.bind_addr = IF Given(cmd.rpc_bind_addr) THEN cmd.rpc_bind_addr ELSE layered.grpc.bind_addr
    /\ opts.mysql = ServerAfter(layered.mysql, cmd.mysql_addr, cmd.tls_mode)
    /\ opts.postgres = ServerAfter(layered.postgres, cmd.postgres_addr, cmd.tls_mode)
    /\ opts.user_provider = IF Given(cmd.user_provider) THEN cmd.user_provider ELSE layered.user_provider

==============================================================================
