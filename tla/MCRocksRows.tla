----------------------------- MODULE MCRocksRows -----------------------------
(***************************************************************************)
(* Small query-configs in the shape of src/query-config.json: accounts,    *)
(* their metadata with the optional code, code, and action traces, with    *)
(* the joins account_metadata-account and account_metadata-code; and the   *)
(* permission table, whose fields leave out block_num and present.         *)
(***************************************************************************)
EXTENDS RocksRows

F(name, type) == [name |-> name, type |-> type, begin_optional |-> FALSE, end_optional |-> FALSE]
Begin(name) == [F(name, "bool") EXCEPT !.begin_optional = TRUE]
End(name, type) == [F(name, type) EXCEPT !.end_optional = TRUE]
Delta == <<F("block_num", "uint32"), F("present", "bool")>>

AccountFields == Delta \o <<F("name", "name"), F("abi", "bytes")>>
MetaFields == Delta \o <<F("name", "name"), Begin("code_present"), F("code_vm_type", "uint8"),
                         End("code_code_hash", "checksum256")>>
CodeFields == Delta \o <<F("vm_type", "uint8"), F("code_hash", "checksum256"), F("code", "bytes")>>
TraceFields == <<F("block_num", "uint32"), F("transaction_id", "checksum256"),
                 F("action_ordinal", "varuint32"), Begin("receipt_present"),
                 End("receipt_receiver", "name"), F("receiver", "name")>>
PermissionFields == <<F("owner", "name"), F("name", "name"), F("parent", "name")>>

TableDef(name, short, fields, delta, trim, keys) ==
  [name |-> name, short_name |-> short, fields |-> fields, is_delta |-> delta,
   trim_index |-> trim, keys |-> keys]
Index(name, short, table, trim, keys) ==
  [index |-> name, short_name |-> short, table |-> table, only_for_trim |-> trim, sort_keys |-> keys]
Query(short, x, table) ==
  [short_name |-> short, index |-> x, table |-> table, has_block_snapshot |-> TRUE, join |-> "",
   join_query_short_name |-> 0, join_key_values |-> <<>>, fields_from_join |-> <<>>]
Join(q, table, query, keys, fields) ==
  [q EXCEPT !.join = table, !.join_query_short_name = query,
            !.join_key_values = keys, !.fields_from_join = fields]

Account == 1
Meta == 4
Code == 5
Atrace == 6
Permission == 9
MetaCode == 7

MainConfig ==
  [tables |-> <<
     TableDef("account", Account, AccountFields, TRUE, "account_idx", <<"name">>),
     TableDef("account_metadata", Meta, MetaFields, TRUE, "acctmeta_idx", <<"name">>),
     TableDef("code", Code, CodeFields, TRUE, "code_idx", <<"vm_type", "code_hash">>),
     TableDef("action_trace", Atrace, TraceFields, FALSE, "", <<"transaction_id", "action_ordinal">>)>>,
   indexes |-> <<
     Index("account_idx", Account, "account", FALSE, <<"name">>),
     Index("acctmeta_idx", Meta, "account_metadata", FALSE, <<"name">>),
     Index("code_idx", Code, "code", FALSE, <<"vm_type", "code_hash">>),
     Index("receiver_idx", Atrace, "action_trace", FALSE,
           <<"receiver", "block_num", "transaction_id", "action_ordinal">>)>>,
   queries |-> <<
     Query(Atrace, "receiver_idx", "action_trace"),
     Query(Account, "account_idx", "account"),
     Join(Query(Meta, "acctmeta_idx", "account_metadata"), "account", Account,
          <<"name">>, <<"block_num", "present", "abi">>),
     Query(Code, "code_idx", "code"),
     Join(Query(MetaCode, "acctmeta_idx", "account_metadata"), "code", Code,
          <<"code_vm_type", "code_code_hash">>, <<"block_num", "present", "code">>)>>]

\* Configs that prepare refuses: a join that comes before the query it joins, an
\* index that is there twice, a query of an index that is only for trim, a key
\* that is no field.
RefusedConfigs ==
  {[MainConfig EXCEPT !.queries = Reverse(@)],
   [MainConfig EXCEPT !.indexes = @ \o <<@[1]>>],
   [MainConfig EXCEPT !.indexes[1].only_for_trim = TRUE],
   [MainConfig EXCEPT !.tables[1].keys = <<"owner">>]}
MCConfigs == {MainConfig} \cup RefusedConfigs

PermissionConfig ==
  [tables |-> <<TableDef("permission", Permission, PermissionFields, TRUE, "permission_idx", <<"owner", "name">>)>>,
   indexes |-> <<Index("permission_idx", Permission, "permission", TRUE, <<"owner", "name">>)>>,
   queries |-> <<>>]
PermissionConfigs == {PermissionConfig}

\* What receive_deltas and write_action_trace write: for a delta, block_num and
\* present come first in every table.
MCWritten ==
  ("account" :> AccountFields) @@ ("account_metadata" :> MetaFields) @@ ("code" :> CodeFields)
    @@ ("action_trace" :> TraceFields) @@ ("permission" :> Delta \o PermissionFields)

R(table, vals) == [table |-> table, vals |-> vals]
BlockOfRow(n, present) == ("block_num" :> n) @@ ("present" :> present)

\* Names 1 and 4: of four bytes, the order of the values is not that of the bytes
\* as abi serialization has them.
AccountRows == {R("account", BlockOfRow(n, p) @@ ("name" :> a) @@ ("abi" :> IF n = 1 THEN <<>> ELSE <<3>>)) :
               n \in {1, 4}, p \in {1}, a \in {1, 4}}
              \cup {R("account", BlockOfRow(4, 0) @@ ("name" :> 1) @@ ("abi" :> <<>>))}
MetaRows == {R("account_metadata", BlockOfRow(n, 1) @@ ("name" :> a) @@ ("code_present" :> 0)
             @@ ("code_vm_type" :> Absent) @@ ("code_code_hash" :> Absent)) : n \in {1}, a \in {1, 4}}
           \cup {R("account_metadata", BlockOfRow(n, 1) @@ ("name" :> 4) @@ ("code_present" :> 1)
             @@ ("code_vm_type" :> 2) @@ ("code_code_hash" :> 7)) : n \in {1, 4}}
CodeRows == {R("code", BlockOfRow(n, 1) @@ ("vm_type" :> 2) @@ ("code_hash" :> 7) @@ ("code" :> <<1>>)) : n \in {1, 4}}
TraceRows == {R("action_trace", ("block_num" :> n) @@ ("transaction_id" :> 6) @@ ("action_ordinal" :> o)
             @@ ("receipt_present" :> IF o = 1 THEN 1 ELSE 0)
             @@ ("receipt_receiver" :> IF o = 1 THEN 9 ELSE Absent) @@ ("receiver" :> 5)) :
             n \in {1, 4}, o \in {1, 2}}
MCSent == AccountRows \cup MetaRows \cup CodeRows \cup TraceRows

\* Permissions of an account.  A name has its characters in its upper bytes: short
\* ones such as owner and active, 128 and 64 here, have zeros in their lowest.
PermissionSent == {R("permission", BlockOfRow(n, 1) @@ ("owner" :> 192) @@ ("name" :> a)
                      @@ ("parent" :> 0)) : n \in {1, 4}, a \in {128, 64}}

Lowest == 0
Highest == MaxOf("uint32")
MCRanges ==
  LET names == {<<<<Lowest>>, <<Highest>>>>, <<<<2>>, <<4>>>>, <<<<4>>, <<4>>>>}
  IN (Account :> names) @@ (Meta :> names) @@ (MetaCode :> names)
       @@ (Code :> {<<<<0, 0>>, <<3, 15>>>>, <<<<2, 8>>, <<3, 0>>>>})
       @@ (Atrace :> {<<<<0, 0, 0, 0>>, <<15, 15, 15, 15>>>>, <<<<5, 1, 6, 2>>, <<5, 4, 6, 1>>>>})
==============================================================================
