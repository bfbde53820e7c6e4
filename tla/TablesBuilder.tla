---------------------------- MODULE TablesBuilder ----------------------------
(***************************************************************************)
(* The routing aggregator TablesBuilder (src/src/servers/src/              *)
(* prom_row_builder.rs): PromCtx -> table name -> TableBuilder, created on *)
(* demand, written through add_labels_and_samples, drained into one        *)
(* ContextReq by as_insert_requests, or cleared for reuse.                 *)
(*                                                                         *)
(* ContextOpt and ContextReq belong to the pipeline crate, outside the     *)
(* modelled sources: a ContextReq maps a ContextOpt to the sequence of     *)
(* RowInsertRequests added for it, and merging concatenates per option.    *)
(***************************************************************************)
EXTENDS PromRow

CONSTANTS
  PromCtxs,    \* remote-write contexts: [schema, physical_table], NONE for None
  TableNames,  \* metric (table) names
  NONE,        \* Option::None
  MaxRows,     \* bound: rows buffered over all table builders
  MaxBuilders  \* bound: table builders held at once

VARIABLES
  tables,      \* PromCtx -> table name -> TableBuilder
  contextReq,  \* the ContextReq the latest step returned; empty after other steps
  call         \* the arguments of the latest add_labels_and_samples, NoCall after other steps

vars == << tables, contextReq, call >>

EmptyMap == [c \in {} |-> NULL]
NoCall == [ctx |-> NULL, table |-> NULL, labels |-> << >>, samples |-> << >>, mode |-> NULL]

Builders == {k \in PromCtxs \X TableNames : k[1] \in DOMAIN tables /\ k[2] \in DOMAIN tables[k[1]]}

BufferedRows ==
  Cardinality({r \in PromCtxs \X TableNames \X (1..MaxRows) :
                 r[1] \in DOMAIN tables /\ r[2] \in DOMAIN tables[r[1]] /\ r[3] <= Len(tables[r[1]][r[2]].rows)})

Init ==
  /\ tables = EmptyMap
  /\ contextReq = EmptyMap
  /\ call = NoCall

(***************************************************************************)
(* get_or_create_table_builder: entry(prom_ctx).or_default() then          *)
(* entry(table_name).or_insert_with(with_capacity).  An existing builder   *)
(* is returned as it is.                                                   *)
(***************************************************************************)
GetOrCreateTableBuilder(c, t) ==
  /\ << c, t >> \notin Builders => Cardinality(Builders) < MaxBuilders
  /\ tables' = IF c \notin DOMAIN tables THEN tables @@ (c :> (t :> WithCapacity))
               ELSE [tables EXCEPT ![c] = @ @@ (t :> WithCapacity)]
  /\ contextReq' = EmptyMap
  /\ call' = NoCall

\* add_labels_and_samples on the builder get_or_create_table_builder returned.
AddToTable(c, t, labels, samples, mode) ==
  LET out == AddLabelsAndSamples(tables[c][t], labels, samples, mode)
  IN  /\ c \in DOMAIN tables /\ t \in DOMAIN tables[c]
      /\ BufferedRows + Len(samples) <= MaxRows
      /\ tables' = [tables EXCEPT ![c][t] = out.builder]
      /\ contextReq' = EmptyMap
      /\ call' = [ctx |-> c, table |-> t, labels |-> labels, samples |-> samples, mode |-> mode]

\* Mutant: the schema of the context is not carried into the ContextOpt.
ToContextOptNoSchema(c) == [physical_table |-> c.physical_table, schema |-> NONE]

\* ContextOpt built from a PromCtx: physical table then schema, each if set.
ToContextOpt(c) == [physical_table |-> c.physical_table, schema |-> c.schema]

\* ContextReq::merge: requests of the same option are concatenated.
MergeReq(a, b) ==
  [o \in DOMAIN a \cup DOMAIN b |->
     (IF o \in DOMAIN a THEN a[o] ELSE << >>) \o (IF o \in DOMAIN b THEN b[o] ELSE << >>)]

\* The ContextReq of one context, its tables drained in the given order.
CtxReq(c, order) ==
  ToContextOpt(c) :> [i \in 1..Len(order) |-> AsRowInsertRequest(tables[c][order[i]], order[i]).request]

\* Drain orders of the inner HashMaps: one ordering of its tables per context.
InnerOrders ==
  {o \in [DOMAIN tables -> UNION {SetToSeqs(DOMAIN tables[c]) : c \in DOMAIN tables}] :
     \A c \in DOMAIN tables : o[c] \in SetToSeqs(DOMAIN tables[c])}

\* Mutant: the per-context maps are converted but not drained.
AsInsertRequestsNoDrain ==
  /\ \E outer \in SetToSeqs(DOMAIN tables), inner \in InnerOrders :
        contextReq' = FoldLeft(MergeReq, EmptyMap,
                               [i \in 1..Len(outer) |-> CtxReq(outer[i], inner[outer[i]])])
  /\ call' = NoCall
  /\ UNCHANGED tables

(***************************************************************************)
(* as_insert_requests: drains both HashMaps, in an order the HashMap       *)
(* chooses, converting every builder and folding the per-context requests  *)
(* into one ContextReq.  The builders are dropped with the map entries.    *)
(***************************************************************************)
AsInsertRequests ==
  /\ \E outer \in SetToSeqs(DOMAIN tables), inner \in InnerOrders :
        contextReq' = FoldLeft(MergeReq, EmptyMap,
                               [i \in 1..Len(outer) |-> CtxReq(outer[i], inner[outer[i]])])
  /\ tables' = EmptyMap
  /\ call' = NoCall

\* Clear::clear: the aggregator is emptied for reuse without producing requests.
Clear ==
  /\ tables' = EmptyMap
  /\ call' = NoCall
  /\ contextReq' = EmptyMap

Next ==
  \/ \E c \in PromCtxs, t \in TableNames : GetOrCreateTableBuilder(c, t)
  \/ \E c \in PromCtxs, t \in TableNames, labels \in LabelSeqs, samples \in SampleSeqs, mode \in Modes :
        AddToTable(c, t, labels, samples, mode)
  \/ AsInsertRequests
  \/ Clear

Spec == Init /\ [][Next]_vars

ColumnSchemas == [name : ColumnNames, datatype : {"TimestampMillisecond", "Float64", "String"},
                  semantic : {"Timestamp", "Field", "Tag"}]

TypeOK ==
  /\ DOMAIN tables \subseteq PromCtxs
  /\ \A c \in DOMAIN tables :
       /\ DOMAIN tables[c] \subseteq TableNames
       /\ \A t \in DOMAIN tables[c] :
            /\ tables[c][t].schema \in Seq(ColumnSchemas)
            /\ tables[c][t].rows \in Seq(Seq(Cells))
            /\ DOMAIN tables[c][t].colIndexes \subseteq ColumnNames
  /\ DOMAIN contextReq \subseteq {ToContextOpt(c) : c \in PromCtxs}
  /\ \A o \in DOMAIN contextReq :
       contextReq[o] \in Seq([table_name : TableNames, schema : Seq(ColumnSchemas), rows : Seq(Seq(Cells))])

(***************************************************************************)
(* Positional alignment of the flushed batches (spec.md section 8,         *)
(* schema-width invariant): in every request as_insert_requests returned,  *)
(* every row has one cell per schema column and every cell has its         *)
(* column's type, however the rows were written before tag columns were   *)
(* discovered, whatever label names collided with the fixed columns.      *)
(***************************************************************************)
RequestsAligned ==
  \A o \in DOMAIN contextReq : \A q \in DOMAIN contextReq[o] :
     RowsMatchSchemaWidth(contextReq[o][q]) /\ CellsMatchColumnTypes(contextReq[o][q])

(***************************************************************************)
(* Each table appears at most once per destination in the ContextReq: the  *)
(* PromCtx -> ContextOpt conversion in as_insert_requests keeps contexts   *)
(* apart, so ContextReq::merge never concatenates two builders' requests   *)
(* for one table with different schemas.                                  *)
(***************************************************************************)
UniqueTablePerDestination ==
  \A o \in DOMAIN contextReq : \A i, j \in DOMAIN contextReq[o] :
     i # j => contextReq[o][i].table_name # contextReq[o][j].table_name

(***************************************************************************)
(* Refinement: read by column name, the rows of the builders are the       *)
(* records of TablesAbstract, and the requests of the ContextReq are the   *)
(* records delivered by its flush, per context and table.                  *)
(***************************************************************************)
BuilderRecords(b) == RecordsOf([schema |-> b.schema, rows |-> b.rows])

CtxOf(o) == CHOOSE c \in PromCtxs : ToContextOpt(c) = o

RequestOf(o, t) == contextReq[o][CHOOSE q \in DOMAIN contextReq[o] : contextReq[o][q].table_name = t]

Abstract == INSTANCE TablesAbstract WITH
  pending <- [c \in DOMAIN tables |-> [t \in DOMAIN tables[c] |-> BuilderRecords(tables[c][t])]],
  delivered <- [c \in {CtxOf(o) : o \in DOMAIN contextReq} |->
                  [t \in {contextReq[ToContextOpt(c)][q].table_name : q \in DOMAIN contextReq[ToContextOpt(c)]} |->
                     RecordsOf(RequestOf(ToContextOpt(c), t))]]

\* The aggregator implements the abstract promise.
ImplementsAbstract == Abstract!Spec
==============================================================================
