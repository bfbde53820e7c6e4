------------------------------- MODULE PromRow -------------------------------
(***************************************************************************)
(* The data of the Prometheus remote-write row builder                     *)
(* (src/src/servers/src/prom_row_builder.rs): cell values, column schemas, *)
(* label decoding, and the operations of one TableBuilder as pure          *)
(* operators over a builder record                                         *)
(*                                                                         *)
(*   [schema |-> Seq(column), rows |-> Seq(Seq(cell)),                     *)
(*    colIndexes |-> column name -> position]                              *)
(*                                                                         *)
(* Positions are 1-based: the code's index 0 (timestamp) is position 1,    *)
(* its index 1 (value) is position 2, and a new tag gets position          *)
(* col_indexes.len() + 1 where the code gives it index col_indexes.len().  *)
(* TableBuilder and TablesBuilder build their state machines on these.     *)
(***************************************************************************)
EXTENDS Naturals, Sequences, FiniteSets, SequencesExt, Functions, TLC

CONSTANTS
  GREPTIME_TIMESTAMP,  \* name of the fixed timestamp column
  GREPTIME_VALUE,      \* name of the fixed value column
  TagNames,            \* label names that decode to themselves
  NameBytes,           \* byte strings a label name may carry
  ValueBytes,          \* byte strings a label value may carry
  INVALID_UTF8,        \* a byte string that is not valid UTF-8
  LOSSY_STRING,        \* what lossy decoding makes of INVALID_UTF8
  Samples,             \* samples; sample s has timestamp s and value s
  NULL,                \* Value { value_data: None }
  MaxLabels,           \* bound: labels in one add_labels_and_samples call
  MaxSamples           \* bound: samples in one add_labels_and_samples call

ASSUME /\ NameBytes \subseteq TagNames \cup {GREPTIME_TIMESTAMP, GREPTIME_VALUE, INVALID_UTF8}
       /\ LOSSY_STRING \notin TagNames \cup {GREPTIME_TIMESTAMP, GREPTIME_VALUE}
       /\ MaxLabels \in Nat /\ MaxSamples \in Nat

(***************************************************************************)
(* PromValidationMode::decode_string lives in servers/src/http.rs, outside *)
(* the modelled sources: Strict fails on invalid UTF-8, Lossy replaces it. *)
(***************************************************************************)
Modes == {"Strict", "Lossy"}
DECODE_ERROR == "DecodeError"

DecodeString(mode, bytes) ==
  IF bytes # INVALID_UTF8 THEN bytes
  ELSE IF mode = "Strict" THEN DECODE_ERROR ELSE LOSSY_STRING

\* Every name a decoded label can have, i.e. every possible column name.
ColumnNames == {GREPTIME_TIMESTAMP, GREPTIME_VALUE} \cup TagNames \cup {LOSSY_STRING}

\* ValueData variants the builder writes, tagged by ColumnDataType.
TimestampValue(s) == [kind |-> "TimestampMillisecond", v |-> s]
F64Value(s)       == [kind |-> "Float64", v |-> s]
StringValue(x)    == [kind |-> "String", v |-> x]
Cells == {NULL} \cup {TimestampValue(s) : s \in Samples} \cup {F64Value(s) : s \in Samples}
           \cup {StringValue(x) : x \in ValueBytes \cup {LOSSY_STRING}}

Column(name, datatype, semantic) == [name |-> name, datatype |-> datatype, semantic |-> semantic]

\* Inputs of one call: PromLabel { name, value } sequences and Sample sequences.
Label == [name : NameBytes, value : ValueBytes]
LabelSeqs == BoundedSeq(Label, MaxLabels)
SampleSeqs == BoundedSeq(Samples, MaxSamples)

(***************************************************************************)
(* TableBuilder::with_capacity: the timestamp and value columns at fixed   *)
(* positions, no rows.  The capacity hints only size allocations.          *)
(***************************************************************************)
WithCapacity ==
  [schema |-> << Column(GREPTIME_TIMESTAMP, "TimestampMillisecond", "Timestamp"),
                 Column(GREPTIME_VALUE, "Float64", "Field") >>,
   rows |-> << >>,
   colIndexes |-> (GREPTIME_TIMESTAMP :> 1) @@ (GREPTIME_VALUE :> 2)]

(***************************************************************************)
(* One iteration of the label loop of add_labels_and_samples.  st carries  *)
(* the builder's schema and col_indexes, the local row, and whether the    *)
(* loop has returned early with a DecodeError.  The name and the value are *)
(* both decoded before anything is mutated; a known name overwrites its    *)
(* cell, a new one is registered at the next position, gets a Tag column   *)
(* and widens the local row.                                               *)
(***************************************************************************)
\* Mutant: the new column is named by the raw label bytes, not the decoded name.
ApplyLabelRawName(mode, st, label) ==
  LET tagName  == DecodeString(mode, label.name)
      tagValue == DecodeString(mode, label.value)
  IN  IF tagName = DECODE_ERROR \/ tagValue = DECODE_ERROR
      THEN [st EXCEPT !.err = TRUE]
      ELSE IF tagName \in DOMAIN st.colIndexes
      THEN [st EXCEPT !.row[st.colIndexes[tagName]] = StringValue(tagValue)]
      ELSE [st EXCEPT !.colIndexes = @ @@ (tagName :> Cardinality(DOMAIN st.colIndexes) + 1),
                      !.schema = Append(@, Column(label.name, "String", "Tag")),
                      !.row = Append(@, StringValue(tagValue))]

ApplyLabel(mode, st, label) ==
  LET tagName  == DecodeString(mode, label.name)
      tagValue == DecodeString(mode, label.value)
      tagNum   == Cardinality(DOMAIN st.colIndexes)
  IN  IF tagName = DECODE_ERROR \/ tagValue = DECODE_ERROR
      THEN [st EXCEPT !.err = TRUE]
      ELSE IF tagName \in DOMAIN st.colIndexes
      THEN [st EXCEPT !.row[st.colIndexes[tagName]] = StringValue(tagValue)]
      ELSE [st EXCEPT !.colIndexes = @ @@ (tagName :> tagNum + 1),
                      !.schema = Append(@, Column(tagName, "String", "Tag")),
                      !.row = Append(@, StringValue(tagValue))]

\* One row per sample: the prototype row with timestamp and value set.
SampleRow(row, s) == [row EXCEPT ![1] = TimestampValue(s), ![2] = F64Value(s)]

\* The label loop in order, stopping at the first DecodeError.
RECURSIVE ApplyLabels(_, _, _)
ApplyLabels(mode, st, labels) ==
  IF labels = << >> \/ st.err THEN st
  ELSE ApplyLabels(mode, ApplyLabel(mode, st, Head(labels)), Tail(labels))

\* Mutant: the rows of a call are pushed even when a label failed to decode.
AddLabelsAndSamplesNoEarlyReturn(b, labels, samples, mode) ==
  LET init == [schema |-> b.schema, colIndexes |-> b.colIndexes, err |-> FALSE,
               row |-> [i \in 1..Cardinality(DOMAIN b.colIndexes) |-> NULL]]
      st == ApplyLabels(mode, init, labels)
  IN  [builder |-> [schema |-> st.schema, colIndexes |-> st.colIndexes,
                    rows |-> b.rows \o [k \in 1..Len(samples) |-> SampleRow(st.row, samples[k])]],
       result |-> IF st.err THEN "DecodeError" ELSE "Ok"]

\* Mutant: the sample's timestamp and value cells are written before the
\* label loop, so a label named like a fixed column overwrites them.
AddLabelsAndSamplesSampleFirst(b, labels, samples, mode) ==
  LET init == [schema |-> b.schema, colIndexes |-> b.colIndexes, err |-> FALSE,
               row |-> [i \in 1..Cardinality(DOMAIN b.colIndexes) |-> NULL]]
      st == ApplyLabels(mode, init, labels)
      rowOf(s) == ApplyLabels(mode, [init EXCEPT !.row = SampleRow(init.row, s)], labels).row
  IN  [builder |-> [schema |-> st.schema, colIndexes |-> st.colIndexes,
                    rows |-> IF st.err THEN b.rows
                             ELSE b.rows \o [k \in 1..Len(samples) |-> rowOf(samples[k])]],
       result |-> IF st.err THEN "DecodeError" ELSE "Ok"]

(***************************************************************************)
(* TableBuilder::add_labels_and_samples.  The prototype row has            *)
(* col_indexes.len() null cells.  On a DecodeError the call returns early: *)
(* no row is pushed, but the columns registered by the labels before the   *)
(* failing one stay in schema and col_indexes.  Otherwise one row per      *)
(* sample is pushed (the single-sample branch moves instead of cloning).   *)
(***************************************************************************)
AddLabelsAndSamples(b, labels, samples, mode) ==
  LET init == [schema |-> b.schema, colIndexes |-> b.colIndexes, err |-> FALSE,
               row |-> [i \in 1..Cardinality(DOMAIN b.colIndexes) |-> NULL]]
      st == ApplyLabels(mode, init, labels)
  IN  [builder |-> [schema |-> st.schema, colIndexes |-> st.colIndexes,
                    rows |-> IF st.err THEN b.rows
                             ELSE b.rows \o [k \in 1..Len(samples) |-> SampleRow(st.row, samples[k])]],
       result |-> IF st.err THEN "DecodeError" ELSE "Ok"]

\* Mutant: rows are taken as they are, without the resize.
PadRowNoResize(row, colNum) == row

\* A row shorter than the schema is resized with null cells; a longer one is left alone.
PadRow(row, colNum) ==
  IF Len(row) < colNum THEN row \o [i \in 1..(colNum - Len(row)) |-> NULL] ELSE row

(***************************************************************************)
(* TableBuilder::as_row_insert_request: takes rows and schema (leaving     *)
(* both empty), pads every row to the schema length.  col_indexes is not   *)
(* taken and keeps every name it had.                                      *)
(***************************************************************************)
AsRowInsertRequest(b, tableName) ==
  [request |-> [table_name |-> tableName, schema |-> b.schema,
                rows |-> [k \in 1..Len(b.rows) |-> PadRow(b.rows[k], Len(b.schema))]],
   builder |-> [b EXCEPT !.rows = << >>, !.schema = << >>]]

(***************************************************************************)
(* Checks on one emitted RowInsertRequest.                                 *)
(***************************************************************************)
\* Every row has exactly one cell per schema column.
RowsMatchSchemaWidth(req) == \A k \in DOMAIN req.rows : Len(req.rows[k]) = Len(req.schema)

\* Every non-null cell has the data type of its column.
CellsMatchColumnTypes(req) ==
  \A k \in DOMAIN req.rows : \A i \in DOMAIN req.rows[k] :
     req.rows[k][i] # NULL => i <= Len(req.schema) /\ req.rows[k][i].kind = req.schema[i].datatype

\* The cell of column name in a row of a request, NULL if the schema has no
\* such column or the row is too short to reach it.
CellByName(req, row, name) ==
  IF \E i \in DOMAIN req.schema : req.schema[i].name = name /\ i <= Len(row)
  THEN row[CHOOSE i \in DOMAIN req.schema : req.schema[i].name = name]
  ELSE NULL

\* The rows of a request read by column name rather than by position.
RecordsOf(req) == [k \in 1..Len(req.rows) |-> [n \in ColumnNames |-> CellByName(req, req.rows[k], n)]]
==============================================================================
