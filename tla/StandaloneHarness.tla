-------------------------- MODULE StandaloneHarness --------------------------
(***************************************************************************)
(* The standalone fixture of the integration tests                         *)
(* (src/tests-integration/src/standalone.rs): GreptimeDbStandaloneBuilder  *)
(* is configured with its with_* setters, then build() derives the         *)
(* StandaloneOptions and build_with() wires and starts an instance, one    *)
(* `.await.unwrap()` after the other: a failing step panics the test.     *)
(*                                                                         *)
(* create_tmp_dir_and_datanode_opts (test_util) and the conversion of a    *)
(* MetasrvWalConfig into a DatanodeWalConfig (common_wal) live outside the *)
(* modelled sources.  The first returns datanode options with the storage  *)
(* for the store types and the datanode WAL config it is given; the second *)
(* keeps the WAL kind and takes the datanode's default settings for it.    *)
(***************************************************************************)
EXTENDS Naturals, Sequences, SequencesExt

CONSTANTS
  NONE,          \* Option::None
  FILE,          \* StorageType::File
  StoreTypes,    \* the StorageTypes a test may choose
  WalKinds       \* the WAL kinds (raft engine, Kafka)

\* A WAL config: its kind and whether its settings are a test's own or the default.
DatanodeWalConfigs == [kind : WalKinds, settings : {"custom", "default"}]
MetasrvWalConfigs == [kind : WalKinds, settings : {"custom", "default"}]

\* Into<DatanodeWalConfig> for MetasrvWalConfig.
WalInto(ms) == [kind |-> ms.kind, settings |-> "default"]

\* GreptimeDbStandaloneBuilder::new: nothing chosen, default WAL configs.
New(walKind) ==
  [default_store |-> NONE, store_providers |-> NONE, plugin |-> NONE,
   datanode_wal_config |-> [kind |-> walKind, settings |-> "default"],
   metasrv_wal_config |-> [kind |-> walKind, settings |-> "default"]]

\* Mutant: the catalog and schema are prepared before anything is started.
BuildWithStepsDdlFirst ==
  << "datanode", "table_metadata_manager", "flownode", "build_wal_options_allocator",
     "ddl_manager", "frontend_instance", "frontend_invoker",
     "prepare_another_catalog_and_schema", "procedure_manager",
     "wal_options_allocator", "frontend" >>

\* The steps of build_with that can fail, in order, and what each starts.
BuildWithSteps ==
  << "datanode", "table_metadata_manager", "flownode", "build_wal_options_allocator",
     "ddl_manager", "frontend_instance", "frontend_invoker", "procedure_manager",
     "wal_options_allocator", "prepare_another_catalog_and_schema", "frontend" >>

\* The steps that start a component.
Starts == {"procedure_manager", "wal_options_allocator", "frontend"}

VARIABLES
  builder,  \* the GreptimeDbStandaloneBuilder
  phase,    \* "config", "building" (in build_with), "built", "panicked"
  pc,       \* the step of BuildWithSteps build_with runs next
  opts,     \* NONE before build, then the StandaloneOptions it derives
  started   \* the components build_with started, in order

vars == << builder, phase, pc, opts, started >>

Init ==
  /\ \E k \in WalKinds : builder = New(k)
  /\ phase = "config"
  /\ pc = 0
  /\ opts = NONE
  /\ started = << >>

Configure(b) == phase = "config" /\ builder' = b /\ UNCHANGED << phase, pc, opts, started >>

\* with_default_store_type, with_store_providers, with_plugin: each sets its field.
WithDefaultStoreType(t) == Configure([builder EXCEPT !.default_store = t])
WithStoreProviders(ps) == Configure([builder EXCEPT !.store_providers = ps])
WithPlugin == Configure([builder EXCEPT !.plugin = "plugins"])

\* with_datanode_wal_config and with_metasrv_wal_config.
WithDatanodeWalConfig(w) == Configure([builder EXCEPT !.datanode_wal_config = w])
WithMetasrvWalConfig(w) == Configure([builder EXCEPT !.metasrv_wal_config = w])

(***************************************************************************)
(* build(): File unless a default store was chosen, no providers unless   *)
(* some were; create_tmp_dir_and_datanode_opts with the datanode WAL       *)
(* config; try_build_standalone_components, whose error panics; then the   *)
(* StandaloneOptions take only the storage of those datanode options, the *)
(* WAL from the metasrv WAL config and the gRPC server address            *)
(* 127.0.0.1:4001, and build_with begins.                                 *)
(***************************************************************************)
Build(ok) ==
  LET defaultStore == IF builder.default_store = NONE THEN FILE ELSE builder.default_store
      storeTypes == IF builder.store_providers = NONE THEN << >> ELSE builder.store_providers
      dnOpts == [storage |-> [default |-> defaultStore, providers |-> storeTypes],
                 wal |-> builder.datanode_wal_config]
  IN  /\ phase = "config"
      /\ phase' = IF ok THEN "building" ELSE "panicked"
      /\ pc' = IF ok THEN 1 ELSE 0
      /\ opts' = IF ok THEN [storage |-> dnOpts.storage, wal |-> WalInto(builder.metasrv_wal_config),
                             grpc_server_addr |-> "127.0.0.1:4001"]
                 ELSE NONE
      /\ UNCHANGED << builder, started >>

\* One `.await.unwrap()` of build_with: on success a starting step adds its
\* component; on failure the test panics.
BuildWithStep(ok) ==
  LET step == BuildWithSteps[pc]
  IN  /\ phase = "building"
      /\ phase' = IF ~ok THEN "panicked" ELSE IF pc = Len(BuildWithSteps) THEN "built" ELSE "building"
      /\ pc' = IF ok /\ pc < Len(BuildWithSteps) THEN pc + 1 ELSE 0
      /\ started' = IF ok /\ step \in Starts THEN Append(started, step) ELSE started
      /\ UNCHANGED << builder, opts >>

Next ==
  \/ \E t \in StoreTypes : WithDefaultStoreType(t)
  \/ \E ps \in {<< >>} \cup {<< t >> : t \in StoreTypes} : WithStoreProviders(ps)
  \/ WithPlugin
  \/ \E w \in DatanodeWalConfigs : WithDatanodeWalConfig(w)
  \/ \E w \in MetasrvWalConfigs : WithMetasrvWalConfig(w)
  \/ \E ok \in BOOLEAN : Build(ok)
  \/ \E ok \in BOOLEAN : BuildWithStep(ok)

Spec == Init /\ [][Next]_vars

(***************************************************************************)
(* prepare_another_catalog_and_schema submits DDL procedures and allocates *)
(* WAL options: it runs only once the procedure manager and the WAL       *)
(* options allocator have been started, and before the frontend serves.   *)
(***************************************************************************)
DdlAfterManagersStarted ==
  phase = "building" /\ BuildWithSteps[pc] = "prepare_another_catalog_and_schema"
    => started = << "procedure_manager", "wal_options_allocator" >>

(***************************************************************************)
(* with_datanode_wal_config configures the WAL of the instance's datanode: *)
(* once build has derived the options, the datanode (which datanode_options *)
(* gives opts.wal) runs with the WAL config the test set.                 *)
(***************************************************************************)
DatanodeUsesConfiguredWal == opts # NONE => opts.wal = builder.datanode_wal_config
==============================================================================
