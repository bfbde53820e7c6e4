------------------------------- MODULE Select -------------------------------
(***************************************************************************)
(* The select processor of the pipeline                                    *)
(* (src/src/pipeline/src/etl/processor/select.rs): a processor is built    *)
(* once from a YAML hash by SelectProcessor::try_from, then exec_mut runs  *)
(* it on one record after another.                                         *)
(*                                                                         *)
(* A YAML hash is a sequence of <<key, value>> entries with distinct keys, *)
(* in the order yaml_rust's LinkedHashMap iterates them.  A record is a   *)
(* function from a set of keys to values; NOTMAP stands for any VrlValue   *)
(* that is not an object.  yaml_new_field, yaml_new_fields and yaml_string *)
(* live in etl/processor.rs, outside the modelled sources: a value they    *)
(* cannot parse is BADYAML.                                               *)
(***************************************************************************)
EXTENDS Naturals, Sequences, FiniteSets, SequencesExt, Functions

CONSTANTS
  Keys,          \* record keys, also the names a field reads and writes
  Vals,          \* record values
  NOTARGET,      \* a field without a rename (target_field() is None)
  NOTMAP,        \* a VrlValue that is not an object
  BADYAML,       \* a YAML value the field / string parsers reject
  NONSTRINGKEY,  \* a YAML hash key that is not a string
  NONE,          \* no processor built yet / no record processed yet
  FieldListChoices, \* field lists a `fields` entry may carry
  MaxEntries     \* bound: entries in one YAML hash

Field == [input : Keys, target : Keys \cup {NOTARGET}]
Records == UNION {[S -> Vals] : S \in SUBSET Keys}

\* Errors of try_from and exec_mut, by the snafu context that raises them.
KEY_MUST_BE_STRING == [error |-> "KeyMustBeString"]
YAML_PARSE == [error |-> "YamlParse"]
UNSUPPORTED_VALUE == [error |-> "ProcessorUnsupportedValue"]
VALUE_MUST_BE_MAP == [error |-> "ValueMustBeMap"]

\* What a YAML hash may hold: the recognised keys with the values their
\* parsers see, an unrecognised key, and a key that is not a string.
YamlEntries ==
  {<< "field", v >> : v \in Field \cup {BADYAML}}
  \cup {<< "fields", v >> : v \in FieldListChoices \cup {BADYAML}}
  \cup {<< "type", v >> : v \in {"include", "exclude", "keep", BADYAML}}
  \cup {<< "description", BADYAML >>, << NONSTRINGKEY, BADYAML >>}

YamlHashes ==
  {h \in BoundedSeq(YamlEntries, MaxEntries) :
     \A i, j \in DOMAIN h : i # j => h[i][1] # h[j][1]}

\* SelectType::try_from: the two keywords; anything else is UNSUPPORTED_VALUE.
SelectTypeKeywords == {"include", "exclude"}
SelectTypeTryFrom(s) == IF s = "include" THEN "Include" ELSE "Exclude"

(***************************************************************************)
(* One iteration of the loop of SelectProcessor::try_from.  st is          *)
(* [fields, selectType, err]; a later field / fields entry replaces what   *)
(* an earlier one set, an unrecognised key is skipped, and the first error *)
(* returns through `?`.                                                    *)
(***************************************************************************)
ParseEntry(st, e) ==
  LET k == e[1]  v == e[2]
  IN  CASE k = NONSTRINGKEY -> [st EXCEPT !.err = KEY_MUST_BE_STRING]
        [] k = "field" /\ v = BADYAML -> [st EXCEPT !.err = YAML_PARSE]
        [] k = "field" -> [st EXCEPT !.fields = << v >>]
        [] k = "fields" /\ v = BADYAML -> [st EXCEPT !.err = YAML_PARSE]
        [] k = "fields" -> [st EXCEPT !.fields = v]
        [] k = "type" /\ v = BADYAML -> [st EXCEPT !.err = YAML_PARSE]
        [] k = "type" /\ v \notin SelectTypeKeywords -> [st EXCEPT !.err = UNSUPPORTED_VALUE]
        [] k = "type" -> [st EXCEPT !.selectType = SelectTypeTryFrom(v)]
        [] OTHER -> st

RECURSIVE ParseEntries(_, _)
ParseEntries(st, h) ==
  IF h = << >> \/ st.err # NONE THEN st ELSE ParseEntries(ParseEntry(st, Head(h)), Tail(h))

\* SelectProcessor::try_from: Fields::default() and SelectType::Include to start.
TryFromHash(h) ==
  LET st == ParseEntries([fields |-> << >>, selectType |-> "Include", err |-> NONE], h)
  IN  IF st.err # NONE THEN st.err ELSE [fields |-> st.fields, selectType |-> st.selectType]

\* The key a field's value ends up under: its target, or its input if none.
OutputOf(f) == IF f.target = NOTARGET THEN f.input ELSE f.target

\* Mutant: the value removed from the input is inserted back under the input.
MoveFieldInsertInput(m, f) == m

\* v_map.remove(field_name) then v_map.insert(target_name, v), if present.
MoveField(m, f) ==
  IF f.input \in DOMAIN m
  THEN [k \in (DOMAIN m \ {f.input}) \cup {f.target} |-> IF k = f.target THEN m[f.input] ELSE m[k]]
  ELSE m

\* The loop over self.fields of the Include branch, in field order.
RECURSIVE MoveFields(_, _)
MoveFields(m, fields) ==
  IF fields = << >> THEN m
  ELSE MoveFields(IF Head(fields).target # NOTARGET THEN MoveField(m, Head(fields)) ELSE m,
                  Tail(fields))

\* Include: move every renamed field, then retain the keys of include_key_set.
ExecInclude(fields, m) ==
  LET moved == MoveFields(m, fields)
  IN  Restrict(moved, DOMAIN moved \cap {OutputOf(fields[i]) : i \in DOMAIN fields})

\* Exclude: remove every field's input; targets are ignored.
ExecExclude(fields, m) == Restrict(m, DOMAIN m \ {fields[i].input : i \in DOMAIN fields})

\* Ok(val) of a Result.
Ok(r) == [ok |-> r]

\* Mutant: a value that is not an object is passed through instead of failing.
ExecMutPassThrough(p, v) ==
  CASE v = NOTMAP -> Ok(v)
    [] p.selectType = "Include" -> Ok(ExecInclude(p.fields, v))
    [] OTHER -> Ok(ExecExclude(p.fields, v))

\* SelectProcessor::exec_mut.
ExecMut(p, v) ==
  CASE v = NOTMAP -> VALUE_MUST_BE_MAP
    [] p.selectType = "Include" -> Ok(ExecInclude(p.fields, v))
    [] OTHER -> Ok(ExecExclude(p.fields, v))

VARIABLES
  proc,   \* NONE, the built SelectProcessor, or the error try_from returned
  val,    \* the record handed to the latest exec_mut
  out     \* what that exec_mut returned: a record or an error

vars == << proc, val, out >>

Processors == [fields : Seq(Field), selectType : {"Include", "Exclude"}]

Init == proc = NONE /\ val = NONE /\ out = NONE

\* The pipeline builds the processor from its YAML configuration.
Configure(h) ==
  /\ proc = NONE
  /\ proc' = TryFromHash(h)
  /\ UNCHANGED << val, out >>

\* The pipeline runs the built processor on a record.
Exec(v) ==
  /\ proc \in Processors
  /\ val' = v
  /\ out' = ExecMut(proc, v)
  /\ UNCHANGED proc

Next ==
  \/ \E h \in YamlHashes : Configure(h)
  \/ \E v \in Records \cup {NOTMAP} : Exec(v)

Spec == Init /\ [][Next]_vars

TypeOK ==
  /\ proc \in {NONE, KEY_MUST_BE_STRING, YAML_PARSE, UNSUPPORTED_VALUE} \cup Processors
  /\ val \in {NONE, NOTMAP} \cup Records
  /\ out \in {NONE, VALUE_MUST_BE_MAP} \cup {Ok(r) : r \in Records}

(***************************************************************************)
(* The reading of spec.md section 3 ("Rename affects emission only, never  *)
(* lookup") and section 4.1: every field reads its input from the record   *)
(* as it was handed to the processor, and a renamed field moves it away    *)
(* from its input name.  The retained keys are the fields' output names;   *)
(* an output some present input writes gets the value of the later such   *)
(* field in the list, any other output keeps the value the record had     *)
(* under that name unless a rename moved it away.                         *)
(***************************************************************************)
IncludeReference(fields, m) ==
  LET writers(o) == {i \in DOMAIN fields : OutputOf(fields[i]) = o /\ fields[i].input \in DOMAIN m}
      movedAway == {fields[i].input : i \in {i \in DOMAIN fields : fields[i].target # NOTARGET}}
      outs == {OutputOf(fields[i]) : i \in DOMAIN fields}
  IN  [o \in {o \in outs : writers(o) # {} \/ o \in DOMAIN m \ movedAway} |->
         IF writers(o) # {} THEN m[fields[Max(writers(o))].input] ELSE m[o]]

\* No field reads a key an earlier field moved from or wrote into.
NoChaining(fields) ==
  \A i, j \in DOMAIN fields : i < j =>
     /\ fields[j].input # fields[i].input
     /\ fields[i].target # NOTARGET => fields[j].input # fields[i].target

IncludeRan == proc \in Processors /\ proc.selectType = "Include" /\ val \in Records

(***************************************************************************)
(* For a field list in which no field reads what an earlier one moved,     *)
(* the sequential move-then-retain of exec_mut's Include branch yields     *)
(* exactly the reference: renamed fields under their targets, the later    *)
(* writer of a shared output winning, absent inputs skipped.              *)
(***************************************************************************)
IncludeMatchesReferenceWithoutChaining ==
  IncludeRan /\ NoChaining(proc.fields) => out = Ok(IncludeReference(proc.fields, val))

(***************************************************************************)
(* spec.md section 3: renames affect emission only, never lookup.  For     *)
(* every field list, exec_mut's Include branch yields the reference.       *)
(***************************************************************************)
IncludeMatchesReference ==
  IncludeRan => out = Ok(IncludeReference(proc.fields, val))
==============================================================================
