------------------------------ MODULE Timestamp ------------------------------
(***************************************************************************)
(* The unit-typed timestamp wrappers of src/src/datatypes/src/timestamp.rs. *)
(* define_timestamp_with_unit! makes one newtype per TimeUnit around a     *)
(* common_time::Timestamp (a value and its unit), with conversions to and *)
(* from Value, ValueRef and i64.  timestamp_array_to_primitive views an   *)
(* Arrow timestamp array as an Int64 array plus its unit.                 *)
(*                                                                         *)
(* A Value is a record tagged by its variant; an Arrow array is its data  *)
(* type and its i64 slots.  Timestamp::new and Timestamp::value live in    *)
(* common_time, outside the modelled sources: they pair and unpair a value *)
(* with its unit.  The serde_json conversion (a string in the default     *)
(* timezone) is not modelled.                                              *)
(***************************************************************************)
EXTENDS Integers, Sequences, SequencesExt

CONSTANTS
  Natives,    \* the i64 values a timestamp may carry
  MaxSlots,   \* bound: slots of one Arrow array
  NONE        \* Option::None

\* The four instantiations of define_timestamp_with_unit!.
Units == {"Second", "Millisecond", "Microsecond", "Nanosecond"}

\* common_time::Timestamp::new(val, unit).
TimestampOf(val, unit) == [value |-> val, unit |-> unit]

\* [<Timestamp $unit>]::new: the newtype of the given unit around the Timestamp.
New(unit, val) == [wrapper |-> unit, ts |-> TimestampOf(val, unit)]

\* From<[<Timestamp $unit>]> for Value: Value::Timestamp(t.0).
ToValue(t) == [variant |-> "Timestamp", ts |-> t.ts]

\* Default for [<Timestamp $unit>]: Self::new(0).
Default(unit) == New(unit, 0)

\* From<[<Timestamp $unit>]> for ValueRef: ValueRef::Timestamp(t.0).
ToValueRef(t) == [variant |-> "Timestamp", ts |-> t.ts, borrowed |-> TRUE]

\* Scalar::as_scalar_ref and ScalarRef::to_owned_scalar: both copy *self.
AsScalarRef(t) == t
ToOwnedScalar(t) == t

\* WrapperType::from_native and From<i64>; into_native and From<..> for i64.
FromNative(unit, val) == New(unit, val)
IntoNative(t) == t.ts.value

\* Result values of the conversions.
Ok(r) == [ok |-> r]
TRY_FROM_VALUE == [error |-> "TryFromValue"]

(***************************************************************************)
(* TryFrom<Value> for Option<[<Timestamp $unit>]>: a timestamp of that     *)
(* unit is wrapped, Null is None, anything else is TryFromValue.          *)
(***************************************************************************)
TryFromValue(unit, v) ==
  CASE v.variant = "Timestamp" /\ v.ts.unit = unit -> Ok([wrapper |-> unit, ts |-> v.ts])
    [] v.variant = "Null" -> Ok(NONE)
    [] OTHER -> TRY_FROM_VALUE

\* The Values a conversion may be handed: every timestamp, Null, an Int64.
Values ==
  {ToValue(FromNative(u, n)) : u \in Units, n \in Natives} \cup {ToValue(Default(u)) : u \in Units}
  \cup {[variant |-> "Null"]} \cup {[variant |-> "Int64", int |-> n] : n \in Natives}

\* Arrow arrays: a timestamp data type of some unit, or a non-timestamp one.
ArrowTypes == {[kind |-> "Timestamp", unit |-> u] : u \in Units} \cup {[kind |-> "Int64"]}
Arrays == [dataType : ArrowTypes, slots : BoundedSeq(Natives, MaxSlots)]

(***************************************************************************)
(* timestamp_array_to_primitive: None unless the data type is a timestamp; *)
(* else the array downcast by its unit and reinterpreted as Int64 (the     *)
(* same slots), with the unit.  The downcast matches the data type, so    *)
(* its unwrap never fails.                                                *)
(***************************************************************************)
TimestampArrayToPrimitive(arr) ==
  IF arr.dataType.kind # "Timestamp" THEN NONE
  ELSE [primitive |-> arr.slots, unit |-> arr.dataType.unit]

VARIABLES
  input,   \* NONE, or the latest conversion's input: [unit, value] or an array
  output   \* what that conversion returned

vars == << input, output >>

Init == input = NONE /\ output = NONE

\* A reader converting a Value to Option<[<Timestamp $unit>]>.
Convert(unit, v) ==
  /\ input' = [unit |-> unit, value |-> v]
  /\ output' = TryFromValue(unit, v)

\* A reader viewing an Arrow array as primitives.
ToPrimitive(arr) ==
  /\ input' = arr
  /\ output' = TimestampArrayToPrimitive(arr)

Next ==
  \/ \E u \in Units, v \in Values : Convert(u, v)
  \/ \E arr \in Arrays : ToPrimitive(arr)

Spec == Init /\ [][Next]_vars
==============================================================================
