------------------------ MODULE TextEventWriterConfig ------------------------
(***************************************************************************)
(* TextEventWriterConfig::LoadFromConfig() (src/TextEventWriterConfig.cpp) *)
(* runs every setter of the _configSetters table on the writer's           *)
(* configuration.  The table is a std::unordered_map, so the order of the  *)
(* setters is unspecified.  A setter that returns false or throws is       *)
(* logged, and the loop goes on with the next one.                         *)
(*                                                                         *)
(* A configuration value is a record whose `type' says what                *)
(* Config::GetJSON() makes of it: "absent" (HasKey() is false), "string",  *)
(* "number", "object" (a sequence of members), "array" (a sequence of      *)
(* strings) or "invalid" (GetJSON() throws).  Strings are model values,    *)
(* except the member names of record_type_name_overrides, which atoi()     *)
(* reads: those are sequences of characters.                               *)
(***************************************************************************)
EXTENDS Integers, Sequences, SequencesExt, FiniteSets, TLC

CONSTANTS
    Strs,       \* the strings a value or a field name can be
    NameChars,  \* the characters of a record type override's member name
    MaxMembers, \* the most members an override object has, alone
    MaxPairMembers \* the most members or strings a value has, next to another key

Absent == [type |-> "absent"]
Str(s) == [type |-> "string", str |-> s]
Invalid == [type |-> "invalid"]

\* The configuration keys and the setter of each (lines 32-155).
StringKeys == [timestamp_field_name |-> "TimestampFieldName",
               serial_field_name |-> "SerialFieldName",
               record_type_field_name |-> "RecordTypeFieldName",
               record_type_name_field_name |-> "RecordTypeNameFieldName",
               records_field_name |-> "RecordsFieldName",
               process_flags_field_name |-> "ProcessFlagsFieldName",
               field_suffix |-> "FieldSuffix"]
Keys == DOMAIN StringKeys \cup
        {"record_type_name_overrides", "field_name_overrides", "interpreted_field_names",
         "filter_record_types", "filter_field_names"}

\* std::unordered_map::emplace and std::unordered_set::emplace: an entry
\* whose key is already present is not inserted, the old value stays.
Emplace(m, k, v) == IF k \in DOMAIN m THEN m ELSE m @@ (k :> v)

\* atoi() as glibc does it: leading white space, an optional sign, then
\* the digits up to the first other character; 0 when there are none.
Atoi(s) ==
    LET RECURSIVE Digits(_, _)
        Digits(t, n) == IF t # <<>> /\ \E d \in 0..9 : Head(t) = ToString(d)
                        THEN Digits(Tail(t), 10 * n + CHOOSE d \in 0..9 :
                                                        Head(t) = ToString(d))
                        ELSE n
        RECURSIVE SkipSpace(_)
        SkipSpace(t) == IF t # <<>> /\ Head(t) = " " THEN SkipSpace(Tail(t)) ELSE t
        u == SkipSpace(s)
    IN  CASE u = <<>>          -> 0
          [] Head(u) = "-"     -> -Digits(Tail(u), 0)
          [] Head(u) = "+"     -> Digits(Tail(u), 0)
          [] OTHER             -> Digits(u, 0)

(***************************************************************************)
(* Each setter maps the writer configuration `et' and the key's value `v'  *)
(* to <<returned true, the configuration after it>>.  An exception is      *)
(* taken as false: only the log line differs.                              *)
(***************************************************************************)

\* Lines 33-74: a present key replaces the field by Config::GetString().
SetString(key, et, v) ==
    <<TRUE, IF v.type = "absent" THEN et ELSE [et EXCEPT ![StringKeys[key]] = v.str]>>

\* A variant that takes id 0 as valid, as if line 84 read id < 0, for
\* mutation testing of OverridesMatchReference.
RECURSIVE EmplaceOverridesZeroId(_, _)
EmplaceOverridesZeroId(m, ms) ==
    IF ms = <<>> THEN <<TRUE, m>>
    ELSE LET e == Head(ms) IN
         IF e.value.type = "string" /\ Atoi(e.name) >= 0
         THEN EmplaceOverridesZeroId(Emplace(m, Atoi(e.name), e.value.str), Tail(ms))
         ELSE <<FALSE, m>>

\* Lines 81-97: the members in order; a non-string value or a name whose
\* atoi() is not positive returns false, with the earlier ones emplaced.
RECURSIVE EmplaceOverrides(_, _)
EmplaceOverrides(m, ms) ==
    IF ms = <<>> THEN <<TRUE, m>>
    ELSE LET e == Head(ms) IN
         IF e.value.type = "string" /\ Atoi(e.name) > 0
         THEN EmplaceOverrides(Emplace(m, Atoi(e.name), e.value.str), Tail(ms))
         ELSE <<FALSE, m>>

\* Lines 75-100: GetJSON() may throw; a value that is not an object
\* returns false.
SetRecordTypeNameOverrides(et, v) ==
    CASE v.type = "absent" -> <<TRUE, et>>
      [] v.type # "object" -> <<FALSE, et>>
      [] OTHER -> LET r == EmplaceOverrides(et.RecordTypeNameOverrideMap, v.members)
                  IN  <<r[1], [et EXCEPT !.RecordTypeNameOverrideMap = r[2]]>>

\* Every member of an object emplaced into a map (lines 107-112).
EmplaceMembers(m, ms) == FoldLeft(LAMBDA acc, e : Emplace(acc, e.name, e.value.str), m, ms)

\* Lines 101-115.
SetFieldNameOverrides(et, v) ==
    CASE v.type = "absent" -> <<TRUE, et>>
      [] v.type # "object" -> <<FALSE, et>>
      [] OTHER -> <<TRUE, [et EXCEPT !.FieldNameOverrideMap =
                                         EmplaceMembers(@, v.members)]>>

\* A variant of lines 116-130 copied from lines 101-115 without renaming
\* the map, for mutation testing of LoadIsPerKey.
SetInterpFieldNamesIntoOverrides(et, v) ==
    CASE v.type = "absent" -> <<TRUE, et>>
      [] v.type # "object" -> <<FALSE, et>>
      [] OTHER -> <<TRUE, [et EXCEPT !.FieldNameOverrideMap = EmplaceMembers(@, v.members)]>>

\* Lines 116-130, the same for the interpreted field names.
SetInterpFieldNames(et, v) ==
    CASE v.type = "absent" -> <<TRUE, et>>
      [] v.type # "object" -> <<FALSE, et>>
      [] OTHER -> <<TRUE, [et EXCEPT !.InterpFieldNameMap = EmplaceMembers(@, v.members)]>>

\* Lines 131-154: every string of an array added to a set.
SetFilter(field, et, v) ==
    CASE v.type = "absent" -> <<TRUE, et>>
      [] v.type # "array"  -> <<FALSE, et>>
      [] OTHER -> <<TRUE, [et EXCEPT ![field] = @ \cup {e.str : e \in ToSet(v.elems)}]>>

\* The _configSetters table (lines 32-155).
Setter(key, et, v) ==
    CASE key \in DOMAIN StringKeys             -> SetString(key, et, v)
      [] key = "record_type_name_overrides"    -> SetRecordTypeNameOverrides(et, v)
      [] key = "field_name_overrides"          -> SetFieldNameOverrides(et, v)
      [] key = "interpreted_field_names"       -> SetInterpFieldNames(et, v)
      [] key = "filter_record_types"           -> SetFilter("FilterRecordTypeSet", et, v)
      [] key = "filter_field_names"            -> SetFilter("FilterFieldNameSet", et, v)

\* Lines 157-168: every setter in the table's order; a false or an
\* exception is logged and the loop goes on.
LoadFromConfig(order, et, config) ==
    FoldLeft(LAMBDA acc, key : Setter(key, acc, config[key])[2], et, order)

-----------------------------------------------------------------------------
(***************************************************************************)
(* Bounded inputs.  The names atoi() reads are made of a space, a minus    *)
(* and a 1, which gives 0 ("", "-", " "), negative ("-1"), and several     *)
(* spellings of 1 (" 1", "1-", "11" is 11).  A writer configuration before *)
(* the load is one of Priors: as constructed, with empty maps and sets     *)
(* (the constructor is not in the sources), or holding one entry in every  *)
(* map and set, as after an earlier load.                                  *)
(***************************************************************************)
Names == BoundedSeq(NameChars, 2)
StrValues == {Str(s) : s \in Strs}
Number == [type |-> "number"]
Obj(ms) == [type |-> "object", members |-> ms]
Arr(es) == [type |-> "array", elems |-> es]
OverrideMember == [name : Names, value : StrValues \cup {Number}]
MapMember == [name : Strs, value : StrValues]

\* The values a key can have, objects and arrays of at most n entries.
JSONValues(key, n) ==
    CASE key = "record_type_name_overrides" -> {Obj(ms) : ms \in BoundedSeq(OverrideMember, n)}
      [] key \in {"field_name_overrides", "interpreted_field_names"} ->
            {Obj(ms) : ms \in BoundedSeq(MapMember, n)} \cup {Arr(<<>>)}
      [] OTHER -> {Arr(es) : es \in BoundedSeq(StrValues, n)} \cup {Obj(<<>>)}

\* A string key holds a string (Config::GetString() is not in the sources).
Values(key, n) ==
    CASE key \in DOMAIN StringKeys -> {Absent} \cup StrValues
      [] OTHER -> {Absent, Invalid, Number} \cup JSONValues(key, n)

Fields == {"TimestampFieldName", "SerialFieldName", "RecordTypeFieldName",
           "RecordTypeNameFieldName", "RecordsFieldName", "ProcessFlagsFieldName",
           "FieldSuffix", "RecordTypeNameOverrideMap", "FieldNameOverrideMap",
           "InterpFieldNameMap", "FilterRecordTypeSet", "FilterFieldNameSet"}

\* The field each key's setter is meant to set.
FieldOf(key) ==
    CASE key \in DOMAIN StringKeys -> StringKeys[key]
      [] key = "record_type_name_overrides" -> "RecordTypeNameOverrideMap"
      [] key = "field_name_overrides" -> "FieldNameOverrideMap"
      [] key = "interpreted_field_names" -> "InterpFieldNameMap"
      [] key = "filter_record_types" -> "FilterRecordTypeSet"
      [] key = "filter_field_names" -> "FilterFieldNameSet"

Priors ==
    LET s == CHOOSE x \in Strs : TRUE
        EmptyFn == [x \in {} |-> s]
    IN  {[f \in Fields |-> IF f \in Range(StringKeys) THEN s
                           ELSE IF f \in {"FilterRecordTypeSet", "FilterFieldNameSet"} THEN {}
                           ELSE EmptyFn],
         [f \in Fields |-> IF f \in Range(StringKeys) THEN s
                           ELSE IF f \in {"FilterRecordTypeSet", "FilterFieldNameSet"} THEN {s}
                           ELSE IF f = "RecordTypeNameOverrideMap" THEN 1 :> s
                           ELSE s :> s]}

-----------------------------------------------------------------------------

\* LoadFromConfig() runs the setters in the unordered_map's order, which the
\* code does not fix, and goes on after one returns false or throws.  For
\* any two keys, in either order and whatever their values (invalid JSON,
\* the wrong type, bad entries), each key's field ends as its own setter
\* alone makes it from the configuration before the load, and every other
\* field is left as it was.
LoadIsPerKey ==
    \A k1, k2 \in Keys : k1 # k2 =>
      \A et \in Priors, v1 \in Values(k1, MaxPairMembers), v2 \in Values(k2, MaxPairMembers) :
        LET config == [k \in Keys |-> CASE k = k1 -> v1 [] k = k2 -> v2 [] OTHER -> Absent]
            after == LoadFromConfig(<<k1, k2>>, et, config)
        IN  \A f \in Fields :
              after[f] = CASE f = FieldOf(k1) -> Setter(k1, et, v1)[2][f]
                           [] f = FieldOf(k2) -> Setter(k2, et, v2)[2][f]
                           [] OTHER -> et[f]

\* What record_type_name_overrides should leave, stated without the loop:
\* the entries already there, untouched; for each id atoi() gives a member
\* before the first invalid one (a non-string value, or an id <= 0), the
\* value of the first such member; true only when no member is invalid.
OverridesReference(m, ms) ==
    LET ok(i) == ms[i].value.type = "string" /\ Atoi(ms[i].name) > 0
        bad == {i \in 1..Len(ms) : ~ok(i)}
        n == IF bad = {} THEN Len(ms) ELSE Min(bad) - 1
        ids == {Atoi(ms[i].name) : i \in 1..n}
        First(id) == ms[Min({i \in 1..n : Atoi(ms[i].name) = id})].value.str
    IN  <<bad = {}, [id \in DOMAIN m \cup ids |-> IF id \in DOMAIN m THEN m[id] ELSE First(id)]>>

\* The record_type_name_overrides setter (lines 75-100) keeps exactly the
\* reference's entries: a bad member stops the loop with the members
\* before it emplaced and those after it dropped, an id spelt twice
\* (" 1", "1-") keeps its first value, and a prior entry is never replaced.
OverridesMatchReference ==
    \A et \in Priors, ms \in BoundedSeq(OverrideMember, MaxMembers) :
        LET ref == OverridesReference(et.RecordTypeNameOverrideMap, ms)
        IN  Setter("record_type_name_overrides", et, Obj(ms)) =
                <<ref[1], [et EXCEPT !.RecordTypeNameOverrideMap = ref[2]]>>

=============================================================================
