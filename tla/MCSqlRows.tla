------------------------------- MODULE MCSqlRows -------------------------------
(***************************************************************************)
(* Tables in the shape of nodeos's: rows with two versions that differ in  *)
(* a field's type, in fields in the middle and at the end (global_property,*)
(* action_trace), nested variants, arrays, optionals and structs, and      *)
(* structs with one field (partial_transaction's prunable_data_type).      *)
(***************************************************************************)
EXTENDS SqlRows

NoType == [kind |-> "none"]
BasicType(name) == [kind |-> "basic", name |-> name, of |-> NoType, fields |-> <<>>]
Struct(name, fields) == [kind |-> "struct", name |-> name, of |-> NoType, fields |-> fields]
Variant(name, alternatives) ==
  [kind |-> "variant", name |-> name, of |-> NoType,
   fields |-> [i \in DOMAIN alternatives |-> [name |-> <<alternatives[i].name>>, type |-> alternatives[i]]]]
Optional(type) == [kind |-> "optional", name |-> type.name, of |-> type, fields |-> <<>>]
Array(type) == [kind |-> "array", name |-> type.name, of |-> type, fields |-> <<>>]
Fd(name, type) == [name |-> <<name>>, type |-> type]
Alt(i, vals) == [alt |-> i, vals |-> vals]

Uint == BasicType("uint32")
NameType == BasicType("name")
String == BasicType("string")
BytesType == BasicType("bytes")
Time == BasicType("time_point")

\* global_property: a schedule whose type changed.
Schedule == Struct("producer_schedule", <<Fd("version", Uint), Fd("producers", Array(NameType))>>)
Weights == Struct("key_weight", <<Fd("key", String), Fd("weight", Uint)>>)
Signing == Variant("block_signing_authority", <<
  Struct("block_signing_authority_v0", <<Fd("threshold", Uint), Fd("keys", Array(Weights))>>)>>)
Schedule1 == Struct("producer_authority_schedule", <<Fd("version", Uint), Fd("authority", Signing)>>)
GlobalProperty == Variant("global_property", <<
  Struct("global_property_v0", <<Fd("proposed_schedule_block_num", Optional(Uint)),
                                 Fd("proposed_schedule", Schedule), Fd("configuration", Uint)>>),
  Struct("global_property_v1", <<Fd("proposed_schedule_block_num", Optional(Uint)),
                                 Fd("proposed_schedule", Schedule1), Fd("configuration", Uint),
                                 Fd("chain_id", NameType), Fd("wasm_configuration", Optional(Schedule))>>)>>)

\* transaction_trace: traces of actions, whose second version has a field in the
\* middle and one at the end, and the packed transaction.
ActionType == Struct("action", <<Fd("account", NameType), Fd("console", String)>>)
ActionTrace == Variant("action_trace", <<
  Struct("action_trace_v0", <<Fd("act", ActionType), Fd("ram", Array(Uint)), Fd("except", Optional(String))>>),
  Struct("action_trace_v1", <<Fd("act", ActionType), Fd("ram", Array(Uint)), Fd("disk", Array(Uint)),
                              Fd("except", Optional(String)), Fd("return_value", String)>>)>>)
Prunable == Variant("prunable_data", <<Struct("prunable_none", <<Fd("digest", String)>>),
                                       Struct("prunable_full", <<Fd("signatures", Array(String))>>)>>)
Partial == Struct("partial_transaction", <<Fd("expiration", Time),
  Fd("prunable_data", Optional(Struct("prunable_data_type", <<Fd("prunable_data", Prunable)>>)))>>)
TransactionTrace == Variant("transaction_trace", <<
  Struct("transaction_trace_v0", <<Fd("id", NameType), Fd("action_traces", Array(ActionTrace)),
                                   Fd("partial", Optional(Partial))>>)>>)

\* permission and account_metadata: rows of a struct, times, an optional struct.
CodeId == Struct("code_id", <<Fd("vm_type", Uint), Fd("code_hash", NameType)>>)
PermissionRow == Struct("permission", <<Fd("owner", NameType), Fd("name", NameType), Fd("last_updated", Time),
                                     Fd("code", Optional(CodeId)), Fd("auth", Schedule1)>>)
ContractRow == Variant("contract_row", <<
  Struct("contract_row_v0", <<Fd("code", NameType), Fd("payer", NameType), Fd("value", BytesType)>>)>>)

MCAbiTables ==
  ("global_property" :> [type |-> GlobalProperty, keys |-> {}])
    @@ ("transaction_trace" :> [type |-> TransactionTrace, keys |-> {"id"}])
    @@ ("permission" :> [type |-> PermissionRow, keys |-> {"owner", "name"}])
    @@ ("contract_row" :> [type |-> ContractRow, keys |-> {"code"}])

One == <<"1">>
Two == <<"2">>
Word == <<"w">>
Strings == {<<>>, Word, <<Backslash>>, <<Quote, "w">>, <<",", Tab, "n">>, <<"{", Newline, ")">>}

Authorities == {<<One, Alt(1, <<Two, keys>>)>> : keys \in {<<>>, << <<Word, One>>, << <<Quote>>, Two>> >>}}
GlobalProperties ==
  {Alt(1, <<n, <<One, ps>>, Two>>) : n \in {NoValue, One}, ps \in {<<>>, <<Word>>, <<Word, <<>>>>}}
    \cup {Alt(2, <<n, auth, One, Word, w>>) : n \in {NoValue, Two}, auth \in Authorities,
                                              w \in {NoValue, <<One, <<Word>>>>}}
ActionTraces ==
  {Alt(1, << <<Word, s>>, <<One>>, e>>) : s \in Strings, e \in {NoValue, <<>>, Word}}
    \cup {Alt(2, << <<Word, s>>, <<>>, <<One, Two>>, e, r>>) : s \in {Word, <<Quote, Backslash>>},
                                                               e \in {NoValue, Word}, r \in Strings}
Partials == {NoValue, <<<<>>, NoValue>>, <<One, <<Alt(1, <<Word>>)>>>>, << <<>>, <<Alt(2, << <<Word, <<Quote>>>> >>)>> >>}
TransactionTraces ==
  {Alt(1, <<Word, <<a>>, p>>) : a \in ActionTraces, p \in Partials}
    \cup {Alt(1, <<Word, as, NoValue>>) : as \in {<<>>} \cup [1..2 -> {Alt(1, <<<<Word, <<Tab, Backslash>>>>, <<>>, NoValue>>),
                                                               Alt(2, <<<<Word, Two>>, <<>>, <<>>, Word, Two>>)}]}
Permissions == {<<Word, n, t, c, a>> : n \in {<<>>, Word}, t \in {<<>>, One},
                                       c \in {NoValue, <<Two, Word>>}, a \in Authorities}
ContractRows == {Alt(1, <<Word, <<>>, b>>) : b \in {<<>>, <<"4", "1">>}}

MCSentRows ==
  ("global_property" :> GlobalProperties) @@ ("transaction_trace" :> TransactionTraces)
    @@ ("permission" :> Permissions) @@ ("contract_row" :> ContractRows)

\* Bytes inside other values, as the data of an action.
DataAction == Struct("action", <<Fd("account", NameType), Fd("data", BytesType)>>)
DataTables ==
  "transaction_trace" :> [type |-> Variant("transaction_trace", <<
     Struct("transaction_trace_v0", <<Fd("id", NameType), Fd("acts", Array(DataAction))>>)>>), keys |-> {"id"}]
DataRows == "transaction_trace" :> {Alt(1, <<Word, << <<Word, <<"4", "1">>>> >> >>)}
==============================================================================
