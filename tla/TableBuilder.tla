---------------------------- MODULE TableBuilder ----------------------------
(***************************************************************************)
(* One TableBuilder used through its own API                               *)
(* (src/src/servers/src/prom_row_builder.rs): a caller that holds the      *)
(* builder calls add_labels_and_samples and as_row_insert_request in any   *)
(* order, as the `pub` signature of as_row_insert_request(&mut self)       *)
(* allows.  TablesBuilder models the shipped caller, which drops the       *)
(* builder after converting it.                                            *)
(***************************************************************************)
EXTENDS PromRow

CONSTANTS
  TableName,   \* the table the builder accumulates rows for
  MaxRows,     \* bound: rows buffered in the builder
  MaxRequests  \* bound: requests converted from the builder

VARIABLES
  builder,     \* the TableBuilder: schema, rows, col_indexes
  requests,    \* RowInsertRequests returned so far, in order
  lastResult   \* Result of the latest add_labels_and_samples call

vars == << builder, requests, lastResult >>

Init ==
  /\ builder = WithCapacity
  /\ requests = << >>
  /\ lastResult = "None"

\* add_labels_and_samples with one input of the bounded input sets.
Add(labels, samples, mode) ==
  LET out == AddLabelsAndSamples(builder, labels, samples, mode)
  IN  /\ Len(builder.rows) + Len(samples) <= MaxRows
      /\ builder' = out.builder
      /\ lastResult' = out.result
      /\ UNCHANGED requests

\* as_row_insert_request: the request is handed to the caller, the builder kept.
Convert ==
  LET out == AsRowInsertRequest(builder, TableName)
  IN  /\ Len(requests) < MaxRequests
      /\ builder' = out.builder
      /\ requests' = Append(requests, out.request)
      /\ UNCHANGED lastResult

Next ==
  \/ \E labels \in LabelSeqs, samples \in SampleSeqs, mode \in Modes : Add(labels, samples, mode)
  \/ Convert

Spec == Init /\ [][Next]_vars

TypeOK ==
  /\ builder.schema \in Seq([name : ColumnNames, datatype : {"TimestampMillisecond", "Float64", "String"},
                             semantic : {"Timestamp", "Field", "Tag"}])
  /\ builder.rows \in Seq(Seq(Cells))
  /\ DOMAIN builder.colIndexes \subseteq ColumnNames
  /\ requests \in Seq([table_name : {TableName}, schema : Seq([name : ColumnNames,
         datatype : {"TimestampMillisecond", "Float64", "String"}, semantic : {"Timestamp", "Field", "Tag"}]),
         rows : Seq(Seq(Cells))])
  /\ lastResult \in {"None", "Ok", "DecodeError"}

(***************************************************************************)
(* Every request as_row_insert_request returns that carries rows has the   *)
(* timestamp and value columns at positions 1 and 2 and rows exactly as    *)
(* wide as its schema, with cells of the column's type (its doc:          *)
(* "Converts [TableBuilder] to                                             *)
(* [RowInsertRequest] and clears buffered data").  It takes schema but not *)
(* col_indexes, so whether this holds for a builder that is used again     *)
(* after a conversion depends on what add_labels_and_samples does with the *)
(* stale col_indexes.                                                      *)
(***************************************************************************)
ConvertedRequestsWellFormed ==
  \A q \in 1..Len(requests) : requests[q].rows # << >> =>
     /\ Len(requests[q].schema) >= 2
     /\ requests[q].schema[1].name = GREPTIME_TIMESTAMP
     /\ requests[q].schema[2].name = GREPTIME_VALUE
     /\ RowsMatchSchemaWidth(requests[q])
     /\ CellsMatchColumnTypes(requests[q])

(***************************************************************************)
(* spec.md section 7: "A failed group must never corrupt previously        *)
(* accumulated schema/rows in the same table builder - validation happens  *)
(* before any shared-state mutation."  A call of add_labels_and_samples    *)
(* that returns DecodeError leaves the schema and col_indexes as they were. *)
(***************************************************************************)
FailedAddLeavesSchemaUnchanged ==
  [][lastResult' = "DecodeError" /\ requests' = requests
       => builder'.schema = builder.schema /\ builder'.colIndexes = builder.colIndexes]_vars
==============================================================================
