--------------------------- MODULE TablesAbstract ---------------------------
(***************************************************************************)
(* What the routing aggregator promises, with no columns or positions:     *)
(* per remote-write context and table, the samples written since the last  *)
(* flush as records from column name to cell, and, after a flush, those    *)
(* records delivered per context and table.                                *)
(*                                                                         *)
(* A call whose labels all decode appends one record per sample: the       *)
(* sample's timestamp and value under the two fixed names, for every other *)
(* name the value of the last label carrying it, NULL for names no label   *)
(* carries.  A call with a label that does not decode appends nothing.     *)
(***************************************************************************)
EXTENDS PromRow

CONSTANTS PromCtxs, TableNames

VARIABLES
  pending,    \* context -> table -> records buffered since the last flush
  delivered,  \* context -> table -> records the latest step delivered (a flush)
  call        \* the arguments of the latest write, NoCall after other steps

NoRecords == [c \in {} |-> NULL]
NoCall == [ctx |-> NULL, table |-> NULL, labels |-> << >>, samples |-> << >>, mode |-> NULL]
Call(c, t, labels, samples, mode) == [ctx |-> c, table |-> t, labels |-> labels, samples |-> samples, mode |-> mode]

DecodedName(mode, l) == DecodeString(mode, l.name)

\* Every label of the call decodes under mode.
AllDecode(labels, mode) ==
  \A i \in DOMAIN labels : DecodeString(mode, labels[i].name) # DECODE_ERROR
                           /\ DecodeString(mode, labels[i].value) # DECODE_ERROR

Record(labels, mode, s) ==
  [n \in ColumnNames |->
     IF n = GREPTIME_TIMESTAMP THEN TimestampValue(s)
     ELSE IF n = GREPTIME_VALUE THEN F64Value(s)
     ELSE IF \E i \in DOMAIN labels : DecodedName(mode, labels[i]) = n
     THEN LET last == CHOOSE i \in DOMAIN labels :
                        /\ DecodedName(mode, labels[i]) = n
                        /\ \A j \in DOMAIN labels : j > i => DecodedName(mode, labels[j]) # n
          IN  StringValue(DecodeString(mode, labels[last].value))
     ELSE NULL]

Init ==
  /\ pending = NoRecords
  /\ delivered = NoRecords
  /\ call = NoCall

Open(c, t) ==
  /\ pending' = IF c \notin DOMAIN pending THEN pending @@ (c :> (t :> << >>))
                ELSE [pending EXCEPT ![c] = @ @@ (t :> << >>)]
  /\ delivered' = NoRecords
  /\ call' = NoCall

Write(c, t, labels, samples, mode) ==
  /\ call' = Call(c, t, labels, samples, mode)
  /\ c \in DOMAIN pending /\ t \in DOMAIN pending[c]
  /\ pending' = IF AllDecode(labels, mode)
                THEN [pending EXCEPT ![c][t] = @ \o [k \in 1..Len(samples) |-> Record(labels, mode, samples[k])]]
                ELSE pending
  /\ delivered' = NoRecords

Flush ==
  /\ delivered' = pending
  /\ pending' = NoRecords
  /\ call' = NoCall

Discard ==
  /\ pending' = NoRecords
  /\ delivered' = NoRecords
  /\ call' = NoCall

Next ==
  \/ Flush
  \/ Discard
  \/ \E c \in PromCtxs, t \in TableNames : Open(c, t)
  \/ \* \E c, t, labels, samples, mode : Write(c, t, labels, samples, mode), the
     \* witness being the arguments Write records in call'.
     /\ call' # NoCall
     /\ call'.ctx \in PromCtxs /\ call'.table \in TableNames /\ call'.labels \in LabelSeqs
     /\ call'.samples \in SampleSeqs /\ call'.mode \in Modes
     /\ Write(call'.ctx, call'.table, call'.labels, call'.samples, call'.mode)

Spec == Init /\ [][Next]_<< pending, delivered, call >>
==============================================================================
