-------------------------- MODULE MC_TableBuilder --------------------------
(***************************************************************************)
(* Model of one TableBuilder used through its API: two tag names, the     *)
(* reserved value column name and an invalid byte string as label names,  *)
(* two label values, two samples.                                          *)
(***************************************************************************)
EXTENDS TableBuilder

CONSTANTS ts, val, t0, t1, bad, lossy, v0, v1, s0, s1, null, tbl

MC_TagNames == {t0, t1}
MC_NameBytes == {t0, t1, val, bad}
MC_ValueBytes == {v0, v1}
MC_Samples == {s0, s1}
==============================================================================
