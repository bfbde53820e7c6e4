------------------------- MODULE MC_TablesBuilder -------------------------
(***************************************************************************)
(* Label names: a tag, the reserved value column and an invalid byte      *)
(* string, which decodes lossily to a second tag name; two label values.   *)
(* The routing run uses two remote-write contexts (the default one and    *)
(* one with a schema set) sharing two metric names, with one label value. *)
(* The rows run uses one context and one table, with more labels and      *)
(* samples per call.                                                      *)
(***************************************************************************)
EXTENDS TablesBuilder

CONSTANTS ts, val, t0, t1, bad, lossy, v0, v1, s0, s1, null, none, db1, cpu, mem

MC_TagNames == {t0, t1}
\* Routing runs: two contexts, two tables, two label values.
MC_NameBytes == {t0, val, bad}
MC_ValueBytes == {v0, v1}
MC_Samples == {s0, s1}
MC_PromCtxs == {[schema |-> none, physical_table |-> none], [schema |-> db1, physical_table |-> none]}
MC_TableNames == {cpu, mem}
\* Builder runs: one context, one table.
MC_OneCtx == {[schema |-> none, physical_table |-> none]}
MC_OneTable == {cpu}
MC_OneValue == {v0}
MC_OneSample == {s0}
==============================================================================
