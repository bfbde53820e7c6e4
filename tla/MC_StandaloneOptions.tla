------------------------- MODULE MC_StandaloneOptions -------------------------
(***************************************************************************)
(* One command-line value per flag, the reserved datanode gRPC address     *)
(* among the --rpc-bind-addr choices; environments and config files that   *)
(* set nothing, set an empty logging dir, set the reserved gRPC address,   *)
(* configure TLS for MySQL, or are those of the unit tests of              *)
(* standalone.rs, and a config file that cannot be read.  Addresses, paths *)
(* and levels the unit tests name are their strings.                       *)
(***************************************************************************)
EXTENDS StandaloneOptions, Sequences, TLC

CONSTANTS
  none, empty, logs, dnGrpc, dnHome, tlsDefault, tlsFile, tlsCli, badFile,
  defaultHome, defaultLogDir, defaultLevel, httpDefault, pgDefault, pgEnableDefault,
  cliHome, grpcCli, mysqlCli, pgCli

\* The Defaults the unit tests pin down (gRPC 127.0.0.1:4001, MySQL enabled
\* on 127.0.0.1:4002, InfluxDB enabled); the others are model values.
MC_Defaults ==
  [logging  |-> [dir |-> defaultLogDir, level |-> defaultLevel],
   storage  |-> [data_home |-> defaultHome],
   http     |-> [addr |-> httpDefault],
   grpc     |-> [bind_addr |-> "127.0.0.1:4001"],
   mysql    |-> [enable |-> TRUE, addr |-> "127.0.0.1:4002", tls |-> tlsDefault],
   postgres |-> [enable |-> pgEnableDefault, addr |-> pgDefault, tls |-> tlsDefault],
   influxdb |-> [enable |-> TRUE]]

TestLogDir == "./greptimedb_data/test/logs"
TestUserProvider == "static_user_provider:cmd:test=test"

\* The environment of test_config_precedence_order (prefix STANDALONE_UT).
PrecedenceEnv ==
  (<< "logging", "dir" >> :> "/other/log/dir") @@ (<< "logging", "level" >> :> "info")
  @@ (<< "http", "addr" >> :> "127.0.0.1:24000")

\* The config files of test_config_precedence_order and test_read_from_config_file.
PrecedenceFile == (<< "http", "addr" >> :> "127.0.0.1:4000") @@ (<< "logging", "level" >> :> "debug")
ReadFile ==
  (<< "storage", "data_home" >> :> "./greptimedb_data/") @@ (<< "http", "addr" >> :> "127.0.0.1:4000")
  @@ (<< "logging", "level" >> :> "debug") @@ (<< "logging", "dir" >> :> TestLogDir)

MC_EnvLayers ==
  {<< >>, PrecedenceEnv, << "logging", "dir" >> :> empty, << "grpc", "bind_addr" >> :> dnGrpc}

MC_ConfigFiles ==
  {<< >>, PrecedenceFile, ReadFile, badFile,
   (<< "logging", "dir" >> :> empty) @@ (<< "mysql", "tls" >> :> tlsFile)}

MC_StartCommands ==
  [http_addr : {none, "127.0.0.1:14000"}, rpc_bind_addr : {none, grpcCli, dnGrpc},
   mysql_addr : {none, mysqlCli}, postgres_addr : {none, pgCli},
   influxdb_enable : BOOLEAN, tls_mode : {none, tlsCli},
   user_provider : {none, TestUserProvider}, data_home : {none, cliHome}]

MC_GlobalOptionSets == [log_dir : {none, empty, TestLogDir}, log_level : {none, "debug"}]

NoFlags ==
  [http_addr |-> none, rpc_bind_addr |-> none, mysql_addr |-> none, postgres_addr |-> none,
   influxdb_enable |-> FALSE, tls_mode |-> none, user_provider |-> none, data_home |-> none]
NoGlobalFlags == [log_dir |-> none, log_level |-> none]

(***************************************************************************)
(* The unit tests of standalone.rs that load options: their environment,   *)
(* config file, StartCommand and GlobalOptions, and what they assert of    *)
(* the frontend options (and, through them, of the logging options).      *)
(***************************************************************************)
OptionsUnitTests ==
  { \* test_config_precedence_order
    [env |-> PrecedenceEnv, file |-> PrecedenceFile,
     cmd |-> [NoFlags EXCEPT !.http_addr = "127.0.0.1:14000"], global |-> NoGlobalFlags,
     expect |-> (<< "logging", "dir" >> :> "/other/log/dir") @@ (<< "logging", "level" >> :> "debug")
                @@ (<< "http", "addr" >> :> "127.0.0.1:14000")
                @@ (<< "grpc", "bind_addr" >> :> MC_Defaults.grpc.bind_addr)],
    \* test_load_log_options_from_cli
    [env |-> << >>, file |-> << >>,
     cmd |-> [NoFlags EXCEPT !.user_provider = TestUserProvider],
     global |-> [log_dir |-> TestLogDir, log_level |-> "debug"],
     expect |-> (<< "logging", "dir" >> :> TestLogDir) @@ (<< "logging", "level" >> :> "debug")],
    \* test_read_from_config_file
    [env |-> << >>, file |-> ReadFile,
     cmd |-> [NoFlags EXCEPT !.user_provider = TestUserProvider], global |-> NoGlobalFlags,
     expect |-> (<< "http", "addr" >> :> "127.0.0.1:4000") @@ (<< "grpc", "bind_addr" >> :> "127.0.0.1:4001")
                @@ (<< "mysql", "enable" >> :> TRUE) @@ (<< "mysql", "addr" >> :> "127.0.0.1:4002")
                @@ (<< "influxdb", "enable" >> :> TRUE) @@ (<< "logging", "level" >> :> "debug")
                @@ (<< "logging", "dir" >> :> TestLogDir)],
    \* test_load_default_standalone_options, with no flags merged over it
    [env |-> << >>, file |-> << >>, cmd |-> NoFlags, global |-> NoGlobalFlags,
     expect |-> (<< "http", "addr" >> :> httpDefault) @@ (<< "grpc", "bind_addr" >> :> "127.0.0.1:4001")
                @@ (<< "mysql", "enable" >> :> TRUE) @@ (<< "mysql", "tls" >> :> tlsDefault)
                @@ (<< "postgres", "enable" >> :> pgEnableDefault) @@ (<< "influxdb", "enable" >> :> TRUE)
                @@ (<< "logging", "dir" >> :> defaultLogDir) @@ (<< "logging", "level" >> :> defaultLevel)] }

Leaf(o, p) == IF Len(p) = 1 THEN o[p[1]] ELSE o[p[1]][p[2]]

(***************************************************************************)
(* Loading and building options from the inputs of a unit test of          *)
(* standalone.rs gives the frontend the options that test asserts: the     *)
(* model's defaults, layering and merging agree with the code's tests.    *)
(***************************************************************************)
UnitTestsAgree ==
  \A t \in OptionsUnitTests :
     env = t.env /\ file = t.file /\ cmd = t.cmd /\ global = t.global /\ feOpts # NONE =>
       \A p \in DOMAIN t.expect : Leaf(feOpts, p) = t.expect[p]
==============================================================================
