------------------------------ MODULE MC_Select ------------------------------
(***************************************************************************)
(* Three record keys and two values: enough for a rename onto a key the    *)
(* record already holds, a swap, a chain a -> b -> c, and two fields       *)
(* writing one output with different values.                               *)
(***************************************************************************)
EXTENDS Select

CONSTANTS a, b, c, v1, v2

MC_Keys == {a, b, c}
MC_Vals == {v1, v2}

\* Every field list of up to two fields.
MC_FieldListChoices == BoundedSeq(Field, 2)

\* The record the unit tests of select.rs run on: {hello: world, hello2: world2},
\* with a, b, c as hello, hello2, hello3 and v1, v2 as world, world2.
TestRecord == (a :> v1) @@ (b :> v2)

\* test_select, test_select_with_target and test_select_with_exclude: the
\* processor each test builds and the object its asserts pin down.
SelectUnitTests ==
  { [proc |-> [fields |-> << [input |-> a, target |-> NOTARGET] >>, selectType |-> "Include"],
     expect |-> a :> v1],
    [proc |-> [fields |-> << [input |-> a, target |-> c] >>, selectType |-> "Include"],
     expect |-> c :> v1],
    [proc |-> [fields |-> << [input |-> a, target |-> NOTARGET] >>, selectType |-> "Exclude"],
     expect |-> b :> v2] }

(***************************************************************************)
(* A processor configured as in a unit test of select.rs and run on its    *)
(* record returns what the test asserts: exec_mut keeps hello alone, moves *)
(* hello to hello3 and drops hello2, and under Exclude leaves hello2 alone. *)
(***************************************************************************)
UnitTestsAgree ==
  \A t \in SelectUnitTests : proc = t.proc /\ val = TestRecord => out = Ok(t.expect)
==============================================================================
