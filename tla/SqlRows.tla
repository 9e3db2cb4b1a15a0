-------------------------------- MODULE SqlRows --------------------------------
(***************************************************************************)
(* How fill-pg makes tables of nodeos's ABI types and lines of its rows    *)
(* (abieos_sql_converter.cpp): nested types become composite types and     *)
(* arrays, a variant the union of its alternatives' fields, a row a line   *)
(* of postgresql's COPY text.                                              *)
(*                                                                         *)
(* A type is [kind, name, of, fields]: basic, struct, optional, array or   *)
(* variant, whose fields are its alternatives.  A field is [name, type].   *)
(* A name is a sequence, for a name with another one put before it.  Text  *)
(* is a sequence of characters.                                            *)
(***************************************************************************)
EXTENDS PgText, FiniteSets

CONSTANTS
  AbiTables,    \* [table name -> [type, keys]] of nodeos's abi
  SentRows      \* [table name -> set of values]

(* A value is the text of sql_str, of bytes their hexadecimal digits; of a *)
(* struct a sequence of values, of an array also; of a variant [alt, vals] *)
(* with the alternative's place; NoValue for an optional without one.       *)
CONSTANT NoValue

VARIABLES
  types,        \* composite types in postgresql: [name -> Seq(column)]
  columns,      \* tables in postgresql: [name -> Seq(column)]
  line          \* the last line copied: [table, value, text]

sqlVars == <<types, columns, line>>

------------------------------------------------------------------------------
(* Types *)

\* names_for: the sql type of an ABI type.
Converters ==
  [uint32 |-> "bigint", bool |-> "bool", name |-> "varchar(13)", string |-> "varchar",
   checksum256 |-> "varchar(64)", time_point |-> "timestamp", bytes |-> "bytea",
   transaction_status |-> "transaction_status_type"]
Quoted(sql) == sql \in {"varchar", "varchar(13)", "varchar(64)", "bytea"}

Sql(base, composite) == [base |-> base, composite |-> composite, dims |-> 0]

\* A type that is a composite type in postgresql.
IsComposite(t) == t.kind = "variant" \/ (t.kind = "struct" /\ Len(t.fields) > 1)

\* get_field_def: of an optional the type in it, of an array an array, of a struct
\* with one field that field's type.
RECURSIVE SqlType(_)
SqlType(type) ==
  LET t == IF type.kind \in {"optional", "array"} THEN type.of ELSE type
      element == IF IsComposite(t) THEN Sql(t.name, TRUE)
                 ELSE IF t.kind = "struct" THEN SqlType(t.fields[1].type)
                 ELSE Sql(Converters[t.name], FALSE)
  IN IF type.kind = "array" THEN [element EXCEPT !.dims = @ + 1] ELSE element

FieldDef(f) == [name |-> f.name, type |-> SqlType(f.type)]
FieldDefs(fields) == [i \in DOMAIN fields |-> FieldDef(fields[i])]

\* union_fields_t.  The fields of an alternative that are new wait until one
\* follows that is there, and go before it; those at the end go to the end.  A
\* field there with another type gets the name of the alternative before this one
\* put before its own.
InsertPendingLast(fields, at, pending) == fields \o pending
InsertPending(fields, at, pending) ==
  SubSeq(fields, 1, at - 1) \o pending \o SubSeq(fields, at, Len(fields))
Place(fields, name) == SelectInSeq(fields, LAMBDA f : f.name = name)

UnionField(s, alternatives, i, def) ==
  IF Place(s.fields, def.name) = 0 THEN [s EXCEPT !.pending = Append(@, def)]
  ELSE LET fs == InsertPending(s.fields, Place(s.fields, def.name), s.pending)
           at == Place(fs, def.name)
       IN [pending |-> <<>>,
           fields |-> IF fs[at].type = def.type THEN fs
                      ELSE InsertAt([fs EXCEPT ![at].name = alternatives[i - 1].name \o @],
                                    at + 1, def)]

UnionFields(alternatives) ==
  LET alternative(fields, i) ==
        LET t == alternatives[i].type
            s == FoldLeft(LAMBDA acc, def : UnionField(acc, alternatives, i, def),
                          [fields |-> fields, pending |-> <<>>], FieldDefs(t.fields))
        IN IF t.kind = "struct" THEN s.fields \o s.pending
                                ELSE Append(fields, FieldDef(alternatives[i]))
  IN FoldLeft(alternative, <<>>, [i \in DOMAIN alternatives |-> i])

\* create_sql_type: s.made has the names of the types made or passed over, s.types
\* the composite types.  An alternative's struct is passed over, for its fields
\* are the union's; a struct with one field is not a type.
ElementPassedOver == TRUE
ElementIsUnion == FALSE
RECURSIVE CreateType(_, _, _)
CreateType(s, type, is_union) ==
  LET nested(acc, f) == CreateType(acc, f.type, FALSE)
      passed(acc, f) == CreateType(acc, f.type, TRUE)
      made(acc, defs) == [made |-> acc.made \cup {type.name}, types |-> (type.name :> defs) @@ acc.types]
  IN CASE type.kind = "basic" -> s
       [] type.kind = "array" -> CreateType(s, type.of, ElementIsUnion)
       [] type.kind = "optional" -> CreateType(s, type.of, is_union)
       [] type.kind = "struct" /\ type.name \notin s.made ->
            LET acc == FoldLeft(nested, s, type.fields)
            IN IF is_union THEN [acc EXCEPT !.made = @ \cup {type.name}]
               ELSE IF Len(type.fields) = 1 THEN acc
               ELSE made(acc, FieldDefs(type.fields))
       [] type.kind = "variant" /\ type.name \notin s.made ->
            made(FoldLeft(passed, s, type.fields), UnionFields(type.fields))
       [] OTHER -> s

\* create_table: the prefix, and the fields of the row's struct or variant.
Prefix == <<[name |-> <<"block_num">>, type |-> Sql("bigint", FALSE)],
            [name |-> <<"present">>, type |-> Sql("smallint", FALSE)]>>
Columns(type) ==
  Prefix \o IF type.kind = "variant" THEN UnionFields(type.fields) ELSE FieldDefs(type.fields)

\* create_tables: one transaction.
CreateTables ==
  LET create(s, t) ==
        FoldLeft(LAMBDA acc, f : CreateType(acc, f.type, AbiTables[t].type.kind = "variant"),
                 s, AbiTables[t].type.fields)
  IN /\ columns = <<>>
     /\ columns' = [t \in DOMAIN AbiTables |-> Columns(AbiTables[t].type)]
     /\ types' = FoldLeft(create, [made |-> {}, types |-> <<>>], SetToSeq(DOMAIN AbiTables)).types
     /\ UNCHANGED line

------------------------------------------------------------------------------
(* Rows *)

RECURSIVE Concatenation(_)
Concatenation(texts) ==
  LET half == Len(texts) \div 2
  IN IF texts = <<>> THEN <<>>
     ELSE IF half = 0 THEN texts[1]
     ELSE Concatenation(SubSeq(texts, 1, half)) \o Concatenation(SubSeq(texts, half + 1, Len(texts)))
EachChar(text, Escaped(_)) == Concatenation([i \in DOMAIN text |-> Escaped(text[i])])

EscapeTableField(text) ==
  EachChar(text, LAMBDA c : CASE c = Backslash -> <<c, c>>
                              [] c = Tab -> <<Backslash, "t">>
                              [] c = Newline -> <<Backslash, "n">>
                              [] OTHER -> <<c>>)
EscapeCompositeField(text) ==
  <<Quote>> \o EachChar(text, LAMBDA c : IF c \in {Backslash, Quote} THEN <<Backslash, c>> ELSE <<c>>)
            \o <<Quote>>
EscapeField(text, kind) ==
  IF kind = "table_field" THEN EscapeTableField(text) ELSE EscapeCompositeField(text)

Null == <<Backslash, "N">>

\* separated_list, between brackets
SeparatedList(values, comma) ==
  FoldLeft(LAMBDA acc, i : acc \o (IF i = 1 THEN <<>> ELSE <<comma>>) \o values[i],
           <<>>, [i \in DOMAIN values |-> i])
Listed(open, values, close) == <<open>> \o SeparatedList(values, ",") \o <<close>>

\* bin_to_sql: of bytes, quote_bytea.
Text(name, v) == IF name = "bytes" THEN <<Backslash, Backslash, "x">> \o v ELSE v

\* to_sql_values of a variant, whose alternative has the next field as its own or
\* with the alternative's name before it.  The walk takes the alternative's fields
\* in their order; fields of others get what an empty one is.
IsField(column, alternative, f) == column.name \in {f.name, alternative.name \o f.name}
Empty(column, kind) ==
  IF column.type.dims > 0 THEN EscapeField(<<"{", "}">>, kind)
  ELSE IF kind = "table_field" /\ column.type.composite THEN Null
  ELSE <<>>

RECURSIVE ToSqlValue(_, _, _)
StructValues(fields, v, kind) ==
  [i \in DOMAIN fields |-> ToSqlValue(fields[i].type, v[i], kind)]
VariantValues(alternatives, v, kind) ==
  LET a == alternatives[v.alt]
      fields == a.type.fields
      next(s, column) ==
        IF s.at <= Len(fields) /\ IsField(column, a, fields[s.at])
          THEN [at |-> s.at + 1,
                values |-> Append(s.values, ToSqlValue(fields[s.at].type, v.vals[s.at], kind))]
          ELSE [s EXCEPT !.values = Append(@, Empty(column, kind))]
  IN FoldLeft(next, [at |-> 1, values |-> <<>>], UnionFields(alternatives)).values
ToSqlValues(type, v, kind) ==
  IF type.kind = "variant" THEN VariantValues(type.fields, v, kind)
                           ELSE StructValues(type.fields, v, kind)

BasicValue(name, v, kind) ==
  LET text == Text(name, v)
      sql  == Converters[name]
  IN IF kind = "composite_field" THEN IF Quoted(sql) THEN EscapeCompositeField(text) ELSE text
     ELSE IF text = <<>> /\ sql = "timestamp" THEN Null ELSE text

ToSqlValue(type, v, kind) ==
  LET t == IF type.kind = "optional" THEN type.of ELSE type
      values == IF t.kind = "array"
                  THEN [i \in DOMAIN v |-> ToSqlValue(t.of, v[i], "composite_field")]
                  ELSE ToSqlValues(t, v, "composite_field")
  IN IF v = NoValue THEN IF kind = "table_field" THEN Null ELSE <<>>
     ELSE IF t.kind = "basic" THEN BasicValue(t.name, v, kind)
     ELSE IF t.kind = "array" THEN EscapeField(Listed("{", values, "}"), kind)
     ELSE IF IsComposite(t) THEN EscapeField(Listed("(", values, ")"), kind)
     ELSE values[1]

\* write_table_delta, receive_block, write_transaction_trace, write_stream: one
\* line; its first columns are of the block, here a digit each.  No line depends on
\* another: one is written.
WriteRow(t, v) ==
  /\ columns # <<>> /\ line = <<>>
  /\ line' = [table |-> t, value |-> v,
              text |-> SeparatedList(<< <<"1">>, <<"1">> >> \o ToSqlValues(AbiTables[t].type, v, "table_field"), Tab)]
  /\ UNCHANGED <<types, columns>>

SqlInit == types = <<>> /\ columns = <<>> /\ line = <<>>
SqlNext == CreateTables \/ \E t \in DOMAIN AbiTables : \E v \in SentRows[t] : WriteRow(t, v)

------------------------------------------------------------------------------
\* What a cell must be for a value.  A variant's alternative has its fields in
\* columns of its own, under their names or with the alternative's before them,
\* and every other column is empty.
EmptyCells == {NullCell, <<>>, [text |-> <<>>]}

RECURSIVE MeansValue(_, _, _)
MeansStruct(fields, v, cells) ==
  Len(cells) = Len(fields) /\ \A i \in DOMAIN fields : MeansValue(fields[i].type, v[i], cells[i])
MeansVariant(alternatives, v, cols, cells) ==
  LET a == alternatives[v.alt]
      fields == a.type.fields
      own(i) == {c \in DOMAIN cols : IsField(cols[c], a, fields[i]) /\ cols[c].type = SqlType(fields[i].type)}
  IN /\ Len(cells) = Len(cols)
     /\ \A i \in DOMAIN fields : \E c \in own(i) :
          MeansValue(fields[i].type, v.vals[i], cells[c])
     /\ \A c \in DOMAIN cols : (\A i \in DOMAIN fields : c \notin own(i)) => cells[c] \in EmptyCells

MeansValue(type, v, cell) ==
  LET t == IF type.kind = "optional" THEN type.of ELSE type
  IN IF v = NoValue THEN cell = NullCell
     ELSE IF t.kind = "variant" THEN MeansVariant(t.fields, v, types[t.name], cell)
     ELSE IF t.kind = "array"
       THEN Len(cell) = Len(v) /\ \A i \in DOMAIN v : MeansValue(t.of, v[i], cell[i])
     ELSE IF t.kind = "struct"
       THEN IF Len(t.fields) = 1 THEN MeansValue(t.fields[1].type, v[1], cell)
                                 ELSE MeansStruct(t.fields, v, cell)
     ELSE IF t.name = "bytes" THEN cell = [hex |-> v]
     ELSE IF t.name = "time_point" /\ v = <<>> THEN cell = NullCell
     ELSE cell = [text |-> v]

\* README.md:6, "`fill-pg` fills postgresql with data from nodeos's State History
\* Plugin": what a line gives postgresql is the row nodeos sent, each field in its
\* own column with its own value, whatever alternative of a variant it is of,
\* however deep it is and whichever characters its strings have.
ReadsBack ==
  line # <<>> =>
    LET type  == AbiTables[line.table].type
        cols  == columns[line.table]
        cells == CopyColumns(line.text)
        n     == Len(Prefix)
        own   == SubSeq(cols, n + 1, Len(cols))
        read  == [i \in 1..Len(own) |-> Read(types, own[i].type, cells[n + i])]
    IN /\ Len(cells) = Len(cols) /\ Newline \notin ToSet(line.text)
       /\ IF type.kind = "variant" THEN MeansVariant(type.fields, line.value, own, read)
                                   ELSE MeansStruct(type.fields, line.value, read)

\* The statements of create_tables are ones postgresql takes: every composite type
\* a column names is there, no two columns have one name, and each key is one.
SchemaStands ==
  /\ \A defs \in Range(columns) \cup Range(types) :
       /\ \A c \in ToSet(defs) : c.type.composite => c.type.base \in DOMAIN types
       /\ \A c, d \in DOMAIN defs : defs[c].name = defs[d].name => c = d
  /\ \A t \in DOMAIN columns : \A k \in AbiTables[t].keys :
       <<k>> \in {c.name : c \in ToSet(columns[t])}
==============================================================================
