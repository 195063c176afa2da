----------------------------- MODULE Lightspeed -----------------------------
(***************************************************************************)
(* The decoder of pkg/messagix/lightspeed: it runs the steps of a message  *)
(* from Meta, whose calls of stored procedures become rows of a table.     *)
(*                                                                         *)
(* A step is a record of op and args; a literal has op "literal" and its   *)
(* value.  A value is a record of its Go type and what it holds.           *)
(***************************************************************************)
EXTENDS Integers, Sequences, SequencesExt, FiniteSets

Value(t, v) == [t |-> t, v |-> v]
Nil == Value("nil", 0)
Zero == Value("int", 0)          \* the untyped 0 that a failure returns
Now == Value("int64", 9)         \* a time

(* The state of a decoder: StatementReferences, the maps that were created *)
(* (they are shared by whoever loads them), and the rows.                  *)
NewLightSpeedDecoder == [refs |-> <<>>, maps |-> <<>>, rows |-> <<>>]

Set(f, k, v) == [x \in DOMAIN f \cup {k} |-> IF x = k THEN v ELSE f[x]]

-----------------------------------------------------------------------------
(* handleStoredProcedure.  A procedure has the fields of its row, each     *)
(* with a kind and the index of its argument, which for some depends on    *)
(* another field (parseConditionIndex).                                    *)

Kinds == {"int64", "string", "bool", "int", "float64"}

parseConditionIndex(field, row) ==
  IF field.condition = 0 THEN field.indexes[1]
  ELSE IF row[field.condition].t = "bool" /\ row[field.condition].v
  THEN field.indexes[1]
  ELSE field.indexes[2]

(* One field after the other.  left is what no field has taken yet.        *)
MutFillField(s, field, i) ==
  LET index == parseConditionIndex(field, s.row) + 1
      val == s.left[index]
  IN IF s.stopped \/ index > Len(s.left) THEN [s EXCEPT !.stopped = TRUE]
     ELSE IF val.t = "nil" THEN s
     ELSE [s EXCEPT !.row[i] = IF field.kind \in {"any", val.t} THEN val
                               ELSE @,
                    !.left[index] = Nil]

FillField(s, field, i) ==
  LET index == parseConditionIndex(field, s.row) + 1
      val == s.left[index]
  IN IF s.stopped \/ index > Len(s.left) THEN [s EXCEPT !.stopped = TRUE]
     ELSE IF val.t = "nil" \/ (field.kind \in Kinds /\ field.kind # val.t)
     THEN s
     ELSE [s EXCEPT !.row[i] = IF field.kind \in Kinds \cup {"any"} THEN val
                               ELSE @,
                    !.left[index] = Nil]

(* What is left goes to the field Unrecognized, if there is one, and is    *)
(* otherwise only logged.                                                  *)
FillRow(proc, values) ==
  LET n == Len(proc.fields)
      filled == FoldLeft(LAMBDA s, i : FillField(s, proc.fields[i], i),
                         [row |-> [i \in 1..n |-> Nil], left |-> values,
                          stopped |-> FALSE],
                         [i \in 1..n |-> i])
  IN [proc |-> proc, args |-> values, row |-> filled.row,
      unrecognized |-> IF proc.hasUnrecognized THEN filled.left
                       ELSE [i \in 1..Len(values) |-> Nil]]

-----------------------------------------------------------------------------
(* Decode: the value of a step, and the state after it.                    *)

Result(val, s) == [val |-> val, s |-> s]

RECURSIVE Decode(_, _, _)

(* Steps in a sequence, one after the other: their values.                 *)
RECURSIVE DecodeAll(_, _, _)
DecodeAll(steps, s, procs) ==
  IF steps = <<>> THEN [vals |-> <<>>, s |-> s]
  ELSE LET first == Decode(steps[1], s, procs)
           others == DecodeAll(Tail(steps), first.s, procs)
       IN [vals |-> <<first.val>> \o others.vals, s |-> others.s]

(* Two arguments that have to be of type int64; the second is decoded only *)
(* if the first is.                                                        *)
Ints(args, s, procs, op(_, _)) ==
  LET first == Decode(args[1], s, procs)
      second == Decode(args[2], first.s, procs)
  IN IF first.val.t # "int64" THEN Result(Nil, first.s)
     ELSE IF second.val.t # "int64" THEN Result(Nil, second.s)
     ELSE Result(op(first.val.v, second.val.v), second.s)

(* IF: only on an int64; without a second branch nothing happens.          *)
If(args, s, procs) ==
  LET test == Decode(args[1], s, procs)
      branch == IF test.val.v > 0 THEN 2 ELSE 3
  IN IF test.val.t # "int64" \/ branch > Len(args) THEN Result(Nil, test.s)
     ELSE Result(Nil, Decode(args[branch], test.s, procs).s)

(* A map is changed for everyone who has it.                               *)
MapSet(args, s, procs) ==
  LET map == Decode(args[1], s, procs)
      rest == DecodeAll(Tail(args), map.s, procs)
  IN IF map.val.t # "map" THEN Result(Nil, map.s)
     ELSE Result(Nil, [rest.s EXCEPT
                         !.maps[map.val.v] = Set(@, rest.vals[1].v,
                                                 rest.vals[2])])

Array(args, s, procs, op(_)) ==
  LET array == Decode(args[1], s, procs)
  IN IF array.val.t # "array" THEN Result(Nil, array.s)
     ELSE Result(op(array.val.v), array.s)

Append2(args, s, procs) ==
  LET array == Decode(args[1], s, procs)
      item == Decode(args[2], array.s, procs)
  IN IF array.val.t # "array" THEN Result(Nil, array.s)
     ELSE Result(Value("array", Append(array.val.v, item.val)), item.s)

(* A procedure that is not among the dependencies, or whose rows the table *)
(* does not have, is skipped: its arguments are not decoded.               *)
CallStoredProcedure(name, args, s, procs) ==
  IF name \notin DOMAIN procs THEN Result(Nil, s)
  ELSE LET decoded == DecodeAll(args, s, procs)
       IN Result(Nil, [decoded.s EXCEPT
                         !.rows = Append(@, FillRow(procs[name],
                                                    decoded.vals))])

Decode(step, s, procs) ==
  LET a == step.args
  IN CASE step.op = "literal" -> Result(step.val, s)
       [] step.op = "BLOCK" -> Result(Nil, DecodeAll(a, s, procs).s)
       [] step.op = "LOAD" ->
            Result(IF step.key \in DOMAIN s.refs THEN s.refs[step.key]
                   ELSE Zero, s)
       [] step.op = "STORE" ->
            LET r == Decode(a[1], s, procs)
            IN Result(Nil, [r.s EXCEPT !.refs = Set(@, step.key, r.val)])
       [] step.op = "STORE_ARRAY" ->   \* and what follows the number
            Result(Nil, Decode(a[1], [s EXCEPT !.refs = Set(@, step.key,
                                                            step.val)],
                               procs).s)
       [] step.op = "CALL_STORED_PROCEDURE" ->
            CallStoredProcedure(step.key, a, s, procs)
       [] step.op = "I64_FROM_STRING" ->
            Result(CASE step.val.t = "int64" -> step.val   \* was parsed
                     [] step.val.t = "string" -> Zero      \* was not
                     [] OTHER -> Nil, s)                   \* not a string
       [] step.op = "TO_BLOB" -> Result(step.val, s)   \* nil if not base64
       [] step.op = "NATIVE_OP_CURRENT_TIME" -> Result(Now, s)
       [] step.op = "IF" -> If(a, s, procs)
       [] step.op = "NOT" ->
            LET r == Decode(a[1], s, procs)
            IN Result(IF r.val.t = "int64" THEN r.val ELSE Nil, r.s)
       [] step.op = "I64_ADD" ->
            Ints(a, s, procs, LAMBDA x, y : Value("int64", x + y))
       [] step.op = "I64_EQUAL" ->
            Ints(a, s, procs, LAMBDA x, y : Value("bool", x = y))
       [] step.op = "NATIVE_OP_MAP_CREATE" ->
            Result(Value("map", Len(s.maps) + 1),
                   [s EXCEPT !.maps = Append(@, <<>>)])
       [] step.op = "NATIVE_OP_MAP_SET" -> MapSet(a, s, procs)
       [] step.op = "NATIVE_OP_ARRAY_CREATE" ->
            Result(Value("array", <<>>), s)
       [] step.op = "NATIVE_OP_ARRAY_APPEND" -> Append2(a, s, procs)
       [] step.op = "NATIVE_OP_ARRAY_GET_SIZE" ->
            Array(a, s, procs, LAMBDA x : Value("int", Len(x)))
       [] OTHER -> Result(Nil, s)   \* UNDEFINED, LOGGER_LOG, unknown steps

-----------------------------------------------------------------------------
(* Properties.                                                             *)

(* What a call passes that is not nil is in exactly one place of its row,  *)
(* in a field of its type or under Unrecognized.  Rows without that field  *)
(* (LSDeleteMessage, LSUpdateExistingMessageRange and some others) lose    *)
(* what none of their fields takes: there is no field for it, the field is *)
(* of another type, or the decoder stopped before it at a field for which  *)
(* the call has too few arguments.  (No row has a field of a kind that the *)
(* decoder does not know.)                                                 *)
ArgumentsKept(rows) ==
  \A r \in ToSet(rows) : \A k \in 1..Len(r.args) :
    LET index(i) == parseConditionIndex(r.proc.fields[i], r.row) + 1
        same(val) == val.t = r.args[k].t /\ val.v = r.args[k].v
        takers == {i \in 1..Len(r.row) :
                     /\ index(i) = k
                     /\ r.proc.fields[i].kind \in {"any", r.args[k].t}
                     /\ \A j \in 1..i : index(j) <= Len(r.args)}
        fields == {i \in takers : same(r.row[i])}
    IN r.args[k].t # "nil" =>
         /\ takers # {} => Cardinality(fields) = 1
         /\ IF takers = {} /\ r.proc.hasUnrecognized
            THEN same(r.unrecognized[k]) ELSE r.unrecognized[k] = Nil
=============================================================================
