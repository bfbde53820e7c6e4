# TLA+ models of the GreptimeDB write path, select processor, timestamp conversions and standalone command

This directory holds TLA+ models of the code under `src/`, checked with TLC.
Each module is translated from the Rust source. `PROJECT.json` maps every
definition to the lines it models, lists the runs, mutants, findings and
hazards, and says what is not modelled.

## The system

| Part | Source | Role |
|---|---|---|
| TableBuilder | `servers/src/prom_row_builder.rs` | One table's column schema, name-to-position index (`col_indexes`) and rows. New label names become Tag columns. Rows are padded to the final width at flush. |
| TablesBuilder | same | `PromCtx -> table -> TableBuilder`. Builders are created on demand. `as_insert_requests` drains both HashMaps into one `ContextReq` keyed by `ContextOpt`. `Clear` resets it for reuse. |
| Select processor | `pipeline/src/etl/processor/select.rs` | Built once from a YAML hash (`try_from`). `exec_mut` projects a record: Include moves renamed fields then retains the output names; Exclude removes the inputs. |
| Standalone options | `cmd/src/standalone.rs` | `load_options` lays `merge_with_cli_options` over the layered (default < env < file) options. `build` derives `frontend_options` and `datanode_options` from the result. |
| Standalone instance | same | `build` wires datanode, flownode, frontend and the information extension. `App::start` and `App::stop` run their steps one `await` at a time. The information extension answers `nodes`, `procedures`, `region_stats` and `flow_stats` for frontend queries. |
| Integration-test fixture | `tests-integration/src/standalone.rs` | `GreptimeDbStandaloneBuilder`: `with_*` setters, then `build` derives `StandaloneOptions` and `build_with` wires an instance and starts its procedure manager, WAL options allocator and frontend, unwrapping every step. |
| Timestamp wrappers | `datatypes/src/timestamp.rs` | One newtype per time unit around `Timestamp`, converted to and from `Value` and `i64`; `timestamp_array_to_primitive` views an Arrow timestamp array as `Int64` plus its unit. |

How they interact:
- Decoded remote-write groups reach `TablesBuilder::get_or_create_table_builder` and then `TableBuilder::add_labels_and_samples`.
- A flush (`as_insert_requests`) converts every builder with `as_row_insert_request` and merges the results per destination.
- The select processor runs on pipeline records before they become rows.
- The standalone command loads options, builds the instance, starts it and stops it. Between the awaits of start and stop, the frontend servers it started answer queries on other tasks. Some of those queries reach `StandaloneInformationExtension`.

What makes these parts hard to test:
- **Partial failure.**
  - A strict decode error on a later label returns after earlier labels already changed the schema.
  - `start` and `stop` return on the first failing step.
- **Stale state.** `as_row_insert_request` takes `rows` and `schema` but not `col_indexes`.
- **Ordering.**
  - HashMap drain order.
  - Sequential renames in Include.
  - The data home must be applied before the log dir is derived from it.
- **Boundaries.**
  - Rows narrower than the final schema.
  - Labels named like the fixed columns.
- **Interleaving.** Queries are served while `start` still awaits the flownode, and while `stop` shuts components down one by one.
- **Interleaving with the region server.** `region_stats` lists the regions, then reads each one's statistic while regions may be opened or closed.
- **Dropped configuration.** The test fixture takes its datanode WAL from the metasrv WAL config, not from the one the test set.

## Modules

- **`PromRow`** holds the data and the pure operations of one TableBuilder, as operators over the record `[schema, rows, colIndexes]`.
  - `WithCapacity` is `with_capacity`. The fixed columns sit at positions 1 and 2, which are the code's indices 0 and 1.
  - `ApplyLabel` is one iteration of the label loop. `ApplyLabels` is the loop, which stops at the first `DecodeError`.
  - `AddLabelsAndSamples` is the whole call:
    - The prototype row has `col_indexes.len()` null cells.
    - On an error it returns early: no rows are pushed, but the new columns stay.
  - `PadRow` and `AsRowInsertRequest` model `as_row_insert_request`. The builder keeps its `colIndexes`.
  - `DecodeString`, from `http.rs` outside `src/`: Strict fails on invalid UTF-8 and Lossy substitutes a replacement string.
- **`TableBuilder`** drives one builder through its `pub` API in any order.
  - Variables: `builder`, `requests`, `lastResult`.
  - Actions: `Add` (add_labels_and_samples) and `Convert` (as_row_insert_request).
- **`TablesBuilder`** is the aggregator, with variable `tables`.
  - `contextReq` is what the latest step returned; it is empty after any other step.
  - `call` holds the arguments of the latest write. It is an interface variable shared with the abstract spec.
  - Actions:
    - `GetOrCreateTableBuilder`.
    - `AddToTable`: add_labels_and_samples on the returned builder.
    - `AsInsertRequests`: every order of both drains; `ToContextOpt`; a fold of `MergeReq`, which models `ContextReq::merge` from outside `src/`.
    - `Clear`.
- **`TablesAbstract`** is what the aggregator promises, without columns or positions.
  - Per context and table, it keeps the records written since the last flush.
  - A record maps a column name to a cell: the sample's timestamp and value, and the last label carrying each name.
  - A call with an undecodable label appends nothing.
  - A flush delivers everything pending and empties it.
  - `TablesBuilder` refines it. Under `INSTANCE ... WITH`, each builder's rows, read by column name, are the pending records, and each request in `contextReq` is the delivered records of its context and table. `ImplementsAbstract` is `Abstract!Spec`.
- **`Select`**:
  - Operators: `SelectTypeTryFrom`, `ParseEntry`/`ParseEntries`/`TryFromHash` (the `try_from` loop: a later `field`/`fields` entry replaces an earlier one, the first error returns), and `MoveField`, `MoveFields`, `ExecInclude`, `ExecExclude`, `ExecMut`.
  - State: `proc` (the built processor or the error), `val` and `out`.
  - Actions: `Configure(h)` once, then `Exec(v)` on any record or non-map value.
  - `MC_Select!SelectUnitTests` holds the three processors of the unit tests of `select.rs`, and `UnitTestsAgree` checks they produce the records those tests assert.
  - `IncludeReference` is the reference reading of spec.md §3/§4.1: each field looks up its input in the original record.
- **`StandaloneOptions`**:
  - `MergeWithCliOptions` is `merge_with_cli_options` in its own order, including the `IllegalConfig` return for the reserved gRPC address given by `--rpc-bind-addr`.
  - `FrontendOptions` and `DatanodeOptions` are the field copies of `frontend_options`/`datanode_options`; both receive the same `grpc` section.
  - `StandaloneOptionsDefault` is `StandaloneOptions::default()` restricted to the sections the modelled functions read. `LoadLayeredOptions(env, file)` lays the environment layer and then the config file over it, key by key. The loader is in `common_config`, outside `src/`, so it is modelled by the precedence the comment in `merge_with_cli_options` states (file > env > default) and the tests assert.
  - Inputs: `cmd`, `global`, `env` and `file`. `file` may be `BAD_FILE`, a file that cannot be read, which makes `load_options` fail with `LoadLayeredConfig`.
  - Actions: `LoadOptions`, then `BuildOptions` (the start of `build`, which derives `feOpts` and `dnOpts`).
- **`Standalone`**:
  - `Build(k)` is build with the k-th fallible step failing (no step fails when k is one past the last). The flow engine is set only once the flownode has been built.
  - `StartBegin`/`StartStep(ok, left)` and `StopBegin`/`StopStep(ok, left)` are one action per awaited step. A failed step may leave its component running.
  - `FlowStats`, `Nodes` and `Procedures(ok)` are the information extension's handlers, served by a running frontend between any two of those steps. `report` records which query ran and whether the component it reads (flownode, procedure manager, region server) was running.
  - `region_stats` is three actions: `RegionStatsBegin` lists the open regions into `rsPending`; `RegionStatsStep(r)` is one iteration of the loop, which reads `r`'s statistic (`RegionStatOf`: the default statistic for a region that is no longer open) into `rsEntries`; `RegionStatsEnd` returns. `OpenRegion(r)`/`CloseRegion(r)` are the region server's own steps (outside `src/`), taken between them; `closedInCall` records the regions closed while a call is in progress.
- **`StandaloneHarness`**:
  - `New`, `WithDefaultStoreType`, `WithStoreProviders`, `WithPlugin`, `WithDatanodeWalConfig`, `WithMetasrvWalConfig` are the builder's constructor and setters.
  - `Build(ok)` is `build`: the store defaults, the options (only `storage` from the temporary datanode options, `wal` from the metasrv WAL config), a failure panicking.
  - `BuildWithStep(ok)` is one `.await.unwrap()` of `build_with`, over `BuildWithSteps`; `started` records the components it starts.
- **`Timestamp`**:
  - Operators: `New`/`Default`/`FromNative`/`IntoNative`, `ToValue`/`ToValueRef`, `AsScalarRef`/`ToOwnedScalar`, `TryFromValue` (the unit check, Null as None, TryFromValue error), `TimestampArrayToPrimitive`.
  - Actions: `Convert(u, v)` over every unit and every Value (each timestamp, Null, an Int64), and `ToPrimitive(arr)` over every Arrow array of up to two slots.
- **MC modules** (`MC_TableBuilder`, `MC_TablesBuilder`, `MC_Select`, `MC_StandaloneOptions`) and the cfgs of `Standalone` and `StandaloneHarness` give the constants model values and small sets.

## Runs

| Run | Expect | What it shows |
|---|---|---|
| `tables_rows` | pass (31k states, about 2.5 min) | One context and table; up to 2 labels and 2 samples per call; a tag, the reserved value name and an invalid byte string as label names; both modes. `TypeOK`, `RequestsAligned` (every flushed row is schema-width with typed cells, also when a label named `greptime_value` wrote a string into the value cell before the sample overwrote it) and the refinement hold. Failed calls included. |
| `tables_routing` | pass (24k states) | Two contexts (default, and one with a schema) sharing two metric names, in every drain order. Each table appears once per destination, and the refinement holds. |
| `table_builder_reuse` | violation | Convert, Add, Convert: the second request has an empty schema but rows of width 2 (finding 1). |
| `table_builder_failed_add` | violation | A strict Add of `[t0, bad]` adds column `t0` and returns `DecodeError`, against spec.md §7 (finding 2). |
| `select_include` | pass (9k states) | Every YAML hash of up to 2 entries and every record over 3 keys and 2 values. Include equals the reference whenever no field reads a key that an earlier field moved or wrote. The unit tests' processors, applied to the tests' record, give the asserted result (`UnitTestsAgree`). |
| `select_reference` | violation | Without that precondition, Include departs from "rename affects emission only, never lookup" (finding 3). |
| `options_logdir` | pass (117k states) | Over all flag combinations, environment layers and config files (an unreadable one included) on top of the defaults, the log dir the frontend is built with is the expected one and lives under the data home the datanode is built with. The four option-loading unit tests of `standalone.rs` (`test_read_from_config_file`, `test_load_log_options_from_cli`, `test_config_precedence_order`, `test_load_default_standalone_options`) are states of the run, and in each the built frontend options have the values the test asserts (`UnitTestsAgree`). |
| `options_precedence` | violation | `--mysql-addr` with no TLS flags resets a configured TLS to the default, against the comment "cli > config file" (finding 4). |
| `standalone_lifecycle` | pass (41k states) | Over every failure point of build, start and stop, with queries between awaits and two regions opening and closing: `flow_stats` never unwraps `None`; `procedures` and `region_stats` only read a running procedure manager and region server, also after a start or stop that returned early; a successful `stop` leaves nothing running, also after a failed start; `region_stats` reports each region's own statistic, or the default only for a region closed during the call (`RegionStatsEntriesCurrent`) |
| `harness_start` | pass (6.5k states) | Over every builder configuration and every failing step, the fixture prepares its catalog and schema only once the procedure manager and WAL options allocator are started, and before the frontend. |
| `harness_datanode_wal` | violation | `with_datanode_wal_config(custom)` then `build`: the datanode's WAL is the metasrv config's conversion with default settings (finding 5). |

Every property of a passing run has a mutant in `PROJECT.json`: a plausible bug in the mapped code that TLC catches with that run's cfg. Examples: the raw label bytes used as the column name, the sample cells written before the labels, a dropped resize, pushing rows after a decode error, a dropped drain, `ContextOpt` losing the schema, re-inserting under the input name, the log dir derived before `--data-home`, `--http-addr` dropped, the flow engine never set, stop skipping the flownode, stop stopping the procedure manager before the frontend, `region_stats` unwrapping a closed region's statistic, and the fixture preparing the catalog first.

### Bounds

Why the bounds reach the interesting cases:
- **Two labels per call** are enough for a failure after a new column. With two samples per call, a shorter row sits before a wider one.
- **One lossy byte string** makes a second tag name.
- **Two contexts** exercise the `ContextOpt` conversion. Two metric names give a same-named table under two destinations. Two builders allow every drain order.
- **Two regions** let one be closed (or reopened) while the other is read, in either loop order.
- **Two WAL kinds with custom and default settings** tell a dropped datanode config from a converted metasrv one.
- **Option layers**: the environment layers and config files are those of the unit tests, plus an empty log dir (which `merge_with_cli_options` must not join), a gRPC address equal to the datanode's, and a file TLS section. Every combination with the flags gives the tests' scenarios and the cases around them.
- **In Select**, three keys allow a chain `a -> b -> c` or a swap. Two values tell moved values apart. Two fields per list cover every pairwise interaction of renames, and the 2-entry hashes include `fields` together with `type`.

### Fairness

No run checks a liveness property, and no specification assumes fairness.
- The row builder and the select processor are synchronous and are driven by their caller.
- The `region_stats` loop has no `await` and runs over a finite list. Under weak fairness it returns whatever its body does, so "it always returns" would say nothing about the code.
- The standalone caller decides whether and when to stop, and nothing in `src/` obliges it to.
- Within `start` and `stop`, the only fairness the code supports is that each awaited step eventually completes, Ok or Err. Under that assumption "a begun start or stop eventually returns" holds for every variant of the code.

## Not modelled

- `common/function/src/lib.rs` (module declarations) and `object-store/src/error.rs` (an error enum and its status-code mapping: no state).
- In `tests-integration/src/standalone.rs`, the helpers it calls from `test_util` and `common_wal` are abstracted to what their results carry, and `fe_instance` is an accessor.
- The serde_json conversion of the timestamp wrappers (timezone formatting in `common_time`).
- `Timestamp` is a module with its `Spec`, and no run checks it. Each conversion either passes the `i64` and the unit through unchanged or fails on one unit guard. The only fallible step, the downcast `unwrap`, cannot fail for an array of that `DataType`. So a property could only restate the definitions.
- The region server itself is outside `src/`: it appears only as open and close steps on the set of regions.
- `TableBuilder::tags` is a read-only accessor.
- The options that none of the modelled functions touch, and the layered loader of `common_config` (outside `src/`), kept to its key-by-key precedence.
- The unit test of `prom_row_builder.rs` needs three tag names, more than the `tables_rows` bounds allow; the model's other runs cover the same code.
- The wiring inside `build` beyond its fallible steps and the flow-engine hand-off.

## Plan for later work

- Check a second destination-merge property from spec.md §8: merge associativity for two builders of one table under one destination.
- Compose option loading with the lifecycle: the options that make `set_default_timezone` or `create_dir_all` fail.
