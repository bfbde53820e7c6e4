------------------------------ MODULE Standalone ------------------------------
(***************************************************************************)
(* The lifecycle of the standalone Instance (src/src/cmd/src/              *)
(* standalone.rs): StartCommand::build wires the components, App::start    *)
(* starts them one by one, App::stop shuts them down one by one, and the   *)
(* frontend servers, once started, answer queries through the              *)
(* StandaloneInformationExtension built along the way.                     *)
(*                                                                         *)
(* Every fallible step is a `?`: the first error returns, leaving what     *)
(* the earlier steps did.  Whether a step of another crate fails, and what *)
(* a failed start or shutdown leaves running, are chosen freely.  The     *)
(* caller may stop the instance after start returned, Ok or not.          *)
(***************************************************************************)
EXTENDS Naturals, Sequences, FiniteSets, TLC

CONSTANTS
  NONE,
  Regions  \* the region ids the region server may hold

\* The fallible steps of build, in order; "flownode" is FlownodeBuilder::build,
\* right after which the streaming engine is handed to the information extension.
BuildSteps ==
  << "setup_frontend_plugins", "setup_datanode_plugins", "set_default_timezone",
     "create_dir_all", "try_build_standalone_components", "cache_registry",
     "datanode", "table_metadata_manager", "flownode", "wal_options_allocator",
     "ddl_manager", "frontend_instance", "frontend_invoker", "export_metrics",
     "services" >>

\* The fallible steps of start after start_telemetry, and what each starts.
StartSteps ==
  << "procedure_manager", "wal_options_allocator", "frontend_plugins", "frontend", "flownode" >>

\* Mutant: stop does not shut the flownode down.
StopStepsNoFlownode == << "frontend", "procedure_manager", "datanode" >>

\* Mutant: stop stops the procedure manager before shutting the frontend down.
StopStepsManagerFirst == << "procedure_manager", "frontend", "datanode", "flownode" >>

\* The steps of stop, in order.
StopSteps == << "frontend", "procedure_manager", "datanode", "flownode" >>

\* Components with a task or server that runs until shut down.
Components == {"datanode", "procedure_manager", "frontend", "flownode"}

Position(seq, x) == CHOOSE i \in DOMAIN seq : seq[i] = x

VARIABLES
  phase,       \* "new", "build_failed", "built", "starting", "start_failed", "started",
               \* "stopping", "stopped", "stop_failed"
  pc,          \* the step of StartSteps or StopSteps the running start or stop awaits next
  flowEngine,  \* the information extension's flow_streaming_engine: NONE or "engine"
  running,     \* the components whose tasks or servers are running
  panicked,    \* whether a flow_stats call unwrapped a None
  error,       \* the error the latest call returned: NONE, or << call, failed step >>
  report,      \* NONE before any query, then what the latest information-extension
               \* query read: [query, backendRunning]
  regions,     \* the regions the region server holds open
  rsPending,   \* NONE, or the listed regions a running region_stats has still to read
  rsEntries,   \* the RegionStat of each region that region_stats has read so far
  closedInCall \* the regions closed since the running region_stats listed them

regionVars == << regions, rsPending, rsEntries, closedInCall >>
vars == << phase, pc, flowEngine, running, panicked, error, report, regionVars >>

Init ==
  /\ phase = "new"
  /\ flowEngine = NONE
  /\ running = {}
  /\ panicked = FALSE
  /\ error = NONE
  /\ pc = 0
  /\ report = NONE
  /\ regions = {}
  /\ rsPending = NONE
  /\ rsEntries = << >>
  /\ closedInCall = {}

\* Mutant: the streaming engine is never handed to the information extension.
EngineAfterBuildNoSet(failAt) == NONE

\* StandaloneInformationExtension::new starts with None; set_flow_streaming_engine
\* runs right after the flownode is built.
EngineAfterBuild(failAt) == IF failAt > Position(BuildSteps, "flownode") THEN "engine" ELSE NONE

(***************************************************************************)
(* StartCommand::build: the steps before failAt succeed, the one at failAt *)
(* fails (failAt = Len(BuildSteps) + 1: none fails).  Nothing is started;  *)
(* a failed build drops every component it made.                          *)
(***************************************************************************)
Build(failAt) ==
  /\ phase = "new"
  /\ phase' = IF failAt <= Len(BuildSteps) THEN "build_failed" ELSE "built"
  /\ flowEngine' = IF failAt <= Len(BuildSteps) THEN NONE ELSE EngineAfterBuild(failAt)
  /\ error' = IF failAt <= Len(BuildSteps) THEN << "build", BuildSteps[failAt] >> ELSE NONE
  /\ UNCHANGED << pc, running, panicked, report, regionVars >>

\* The component a start step starts, if it runs until shut down.
Started(step) == IF step \in Components THEN {step} ELSE {}

(***************************************************************************)
(* App::start, one action per awaited step.  StartBegin is                 *)
(* start_telemetry; StartStep runs StartSteps[pc]: on success its          *)
(* component runs, on failure start returns the error and the failed      *)
(* component may or may not have been left running.  Frontend servers     *)
(* accept queries as soon as frontend.start() has returned, while start   *)
(* is still awaiting the flownode.                                        *)
(***************************************************************************)
StartBegin ==
  /\ phase = "built"
  /\ phase' = "starting"
  /\ pc' = 1
  /\ running' = running \cup {"datanode"}
  /\ UNCHANGED << flowEngine, panicked, error, report, regionVars >>

StartStep(ok, failedLeftRunning) ==
  LET step == StartSteps[pc]
  IN  /\ phase = "starting"
      /\ running' = IF ok \/ failedLeftRunning THEN running \cup Started(step) ELSE running
      /\ phase' = IF ~ok THEN "start_failed" ELSE IF pc = Len(StartSteps) THEN "started" ELSE "starting"
      /\ pc' = IF ok /\ pc < Len(StartSteps) THEN pc + 1 ELSE 0
      /\ error' = IF ok THEN NONE ELSE << "start", step >>
      /\ UNCHANGED << flowEngine, panicked, report, regionVars >>

(***************************************************************************)
(* App::stop, one action per awaited shutdown of StopSteps.  A failed      *)
(* shutdown returns the error (the later ones never run) and may leave     *)
(* its component running.  A shutdown of a component that never started  *)
(* is a step like any other.                                              *)
(***************************************************************************)
StopBegin ==
  /\ phase \in {"started", "start_failed"}
  /\ phase' = "stopping"
  /\ pc' = 1
  /\ UNCHANGED << running, flowEngine, panicked, error, report, regionVars >>

StopStep(ok, failedLeftRunning) ==
  LET step == StopSteps[pc]
  IN  /\ phase = "stopping"
      /\ running' = IF ok \/ ~failedLeftRunning THEN running \ {step} ELSE running
      /\ phase' = IF ~ok THEN "stop_failed" ELSE IF pc = Len(StopSteps) THEN "stopped" ELSE "stopping"
      /\ pc' = IF ok /\ pc < Len(StopSteps) THEN pc + 1 ELSE 0
      /\ error' = IF ok THEN NONE ELSE << "stop", step >>
      /\ UNCHANGED << flowEngine, panicked, report, regionVars >>

(***************************************************************************)
(* A query reaching InformationExtension::flow_stats through a running     *)
(* frontend server, on a server task, between any two awaits of start or  *)
(* stop: it unwraps flow_streaming_engine and reports the engine's state, *)
(* which reflects whether the flownode is running.                        *)
(***************************************************************************)
FlowStats ==
  /\ "frontend" \in running
  /\ ~panicked
  /\ panicked' = (flowEngine = NONE)
  /\ report' = [query |-> "flow_stats", backendRunning |-> "flownode" \in running]
  /\ UNCHANGED << phase, pc, flowEngine, running, error, regionVars >>

\* InformationExtension::nodes: one NodeInfo (id 0, NodeStatus::Standalone)
\* built from the build info and the extension's start time; never fails.
Nodes ==
  /\ "frontend" \in running
  /\ report' = [query |-> "nodes", backendRunning |-> TRUE]
  /\ UNCHANGED << phase, pc, flowEngine, running, panicked, error, regionVars >>

\* InformationExtension::procedures: the procedure manager's list_procedures,
\* each paired with its state name; its error becomes ListProcedures.
Procedures(ok) ==
  /\ "frontend" \in running
  /\ report' = IF ok THEN [query |-> "procedures", backendRunning |-> "procedure_manager" \in running]
                ELSE [query |-> "procedures_error", backendRunning |-> "procedure_manager" \in running]
  /\ UNCHANGED << phase, pc, flowEngine, running, panicked, error, regionVars >>

(***************************************************************************)
(* InformationExtension::region_stats, one action per step of its work:   *)
(* RegionStatsBegin takes reportable_regions(), RegionStatsStep(r) builds *)
(* the RegionStat of one listed region from region_statistic(r), and      *)
(* RegionStatsEnd returns them.  The region server serves other requests   *)
(* meanwhile, so a listed region may be closed before its statistic is     *)
(* read.                                                                  *)
(***************************************************************************)
RegionStatsBegin ==
  /\ "frontend" \in running
  /\ rsPending = NONE
  /\ rsPending' = regions
  /\ rsEntries' = << >>
  /\ closedInCall' = {}
  /\ report' = [query |-> "region_stats", backendRunning |-> "datanode" \in running]
  /\ UNCHANGED << phase, pc, flowEngine, running, panicked, error, regions >>

\* region_statistic(r) is None once r is closed.
DEFAULT_STAT == [statistic |-> "default"]
PANIC == [statistic |-> "panic"]
Statistic(r) == [region |-> r]

\* Mutant: the statistic is unwrapped instead of defaulted.
RegionStatOfUnwrap(r) == IF r \in regions THEN Statistic(r) ELSE PANIC

\* region_statistic(stat.region_id).unwrap_or_default().
RegionStatOf(r) == IF r \in regions THEN Statistic(r) ELSE DEFAULT_STAT

RegionStatsStep(r) ==
  /\ rsPending # NONE
  /\ r \in rsPending
  /\ rsPending' = rsPending \ {r}
  /\ rsEntries' = rsEntries @@ (r :> RegionStatOf(r))
  /\ UNCHANGED << phase, pc, flowEngine, running, panicked, error, report, regions, closedInCall >>

RegionStatsEnd ==
  /\ rsPending = {}
  /\ rsPending' = NONE
  /\ UNCHANGED << phase, pc, flowEngine, running, panicked, error, report, regions, rsEntries, closedInCall >>

(***************************************************************************)
(* The region server opening and closing regions for requests of other     *)
(* tasks (DDL, region migration) while the datanode runs.                 *)
(***************************************************************************)
OpenRegion(r) ==
  /\ "datanode" \in running
  /\ r \notin regions
  /\ regions' = regions \cup {r}
  /\ UNCHANGED << phase, pc, flowEngine, running, panicked, error, report, rsPending, rsEntries, closedInCall >>

CloseRegion(r) ==
  /\ "datanode" \in running
  /\ r \in regions
  /\ regions' = regions \ {r}
  /\ closedInCall' = IF rsPending # NONE THEN closedInCall \cup {r} ELSE closedInCall
  /\ UNCHANGED << phase, pc, flowEngine, running, panicked, error, report, rsPending, rsEntries >>

Next ==
  \/ \E k \in 1..(Len(BuildSteps) + 1) : Build(k)
  \/ StartBegin
  \/ \E ok, left \in BOOLEAN : StartStep(ok, left)
  \/ StopBegin
  \/ \E ok, left \in BOOLEAN : StopStep(ok, left)
  \/ FlowStats
  \/ Nodes
  \/ \E ok \in BOOLEAN : Procedures(ok)
  \/ RegionStatsBegin
  \/ \E r \in Regions : RegionStatsStep(r)
  \/ RegionStatsEnd
  \/ \E r \in Regions : OpenRegion(r) \/ CloseRegion(r)

Spec == Init /\ [][Next]_vars

(***************************************************************************)
(* flow_stats never panics: whenever a frontend server can route a query  *)
(* to the information extension, build has already set the streaming      *)
(* engine that flow_stats unwraps.                                         *)
(***************************************************************************)
FlowStatsNeverPanics == ~panicked

(***************************************************************************)
(* stop returning Ok means every component with a running task or server  *)
(* has been shut down, after a successful start or after a start that     *)
(* failed part-way and left some components running.                      *)
(***************************************************************************)
StopOkShutsEverythingDown == phase = "stopped" => running = {}

(***************************************************************************)
(* A query the frontend serves through the information extension reads    *)
(* the procedure manager and the region server only while they run: start *)
(* starts the procedure manager before the frontend, stop shuts the        *)
(* frontend down before the procedure manager and the datanode, and a      *)
(* start or stop that returns early keeps that order.                     *)
(***************************************************************************)
QueriesReadRunningBackends ==
  report # NONE /\ report.query \in {"procedures", "procedures_error", "region_stats"}
    => report.backendRunning

(***************************************************************************)
(* region_stats never panics on a region closed after it was listed, and   *)
(* every RegionStat it reports is that region's own statistic, or the      *)
(* default statistic of a region that was closed since the listing.       *)
(***************************************************************************)
RegionStatsEntriesCurrent ==
  \A r \in DOMAIN rsEntries :
     \/ rsEntries[r] = Statistic(r)
     \/ rsEntries[r] = DEFAULT_STAT /\ r \in closedInCall
==============================================================================
