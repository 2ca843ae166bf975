-------------------------------- MODULE Crud --------------------------------
(***************************************************************************)
(* The client of the crud module: every request is a call of a stored      *)
(* procedure with a space, its arguments and a map of options.             *)
(***************************************************************************)
EXTENDS Wire

(***************************************************************************)
(* Options.  Every kind of options has the names of its slots, and the     *)
(* assignments of its encoder: the option that goes into a slot.  Where    *)
(* two go into one slot the later one, even when it is not set, stays.     *)
(***************************************************************************)
InOrder(names) == [n \in DOMAIN names |-> <<n, names[n]>>]
Plain(names) == [names |-> names, writes |-> InOrder(names)]

BaseOpts == Plain(<<"timeout", "vshard_router">>)
SimpleOperationOpts == Plain(<<"timeout", "vshard_router", "fields", "bucket_id">>)
SimpleOperationObjectOpts ==
    Plain(<<"timeout", "vshard_router", "fields", "bucket_id", "skip_nullability_check_on_flatten">>)
OperationManyOpts ==
    Plain(<<"timeout", "vshard_router", "fields", "stop_on_error", "rollback_on_error">>)
OperationObjectManyOpts ==
    Plain(<<"timeout", "vshard_router", "fields", "stop_on_error", "rollback_on_error",
            "skip_nullability_check_on_flatten">>)
BorderOpts == Plain(<<"timeout", "vshard_router", "fields">>)

\* Mutant: two options of count change places.
CountOptsNot ==
    [names |-> <<"timeout", "vshard_router", "mode", "prefer_replica", "balance", "yield_every",
                 "bucket_id", "force_map_call", "fullscan">>,
     writes |-> InOrder(<<"timeout", "vshard_router", "mode", "prefer_replica", "balance", "bucket_id",
                          "yield_every", "force_map_call", "fullscan">>)]

CountOpts ==
    Plain(<<"timeout", "vshard_router", "mode", "prefer_replica", "balance", "yield_every",
            "bucket_id", "force_map_call", "fullscan">>)

\* Fields are never written, and the others are a slot too early.
GetOpts ==
    [names |-> <<"timeout", "vshard_router", "fields", "bucket_id", "mode", "prefer_replica", "balance">>,
     writes |-> <<<<1, "timeout">>, <<2, "vshard_router">>, <<2, "bucket_id">>, <<3, "mode">>,
                  <<4, "prefer_replica">>, <<5, "balance">>>>]

\* The last four share a slot.
SelectOpts ==
    [names |-> <<"timeout", "vshard_router", "fields", "bucket_id", "mode", "prefer_replica", "balance",
                 "first", "after", "batch_size", "force_map_call", "fullscan">>,
     writes |-> InOrder(<<"timeout", "vshard_router", "fields", "bucket_id", "mode", "prefer_replica",
                          "balance", "first", "after">>)
                \o <<<<9, "batch_size">>, <<9, "force_map_call">>, <<9, "fullscan">>>>]

\* opts: what the user set, a function from names to values.
InSlot(kind, n) == LET at == {w \in DOMAIN kind.writes : kind.writes[w][1] = n}
                   IN IF at = {} THEN <<>> ELSE <<kind.writes[Max(at)][2]>>

\* encodeOptions: the slots that are there, under their names.
EncodeOptions(kind, opts) ==
    LET there(n) == InSlot(kind, n) # <<>> /\ InSlot(kind, n)[1] \in DOMAIN opts
        slot(n) == <<kind.names[n], opts[InSlot(kind, n)[1]]>>
    IN <<"opts", FlattenSeq([n \in DOMAIN kind.names |-> IF there(n) THEN <<slot(n)>> ELSE <<>>])>>

(***************************************************************************)
(* Requests.  An argument is the user's or, when it was not given, the     *)
(* default of the constructor or of Body.                                  *)
(***************************************************************************)
EmptyList == List(<<>>)
EmptyObject == <<"opts", <<>>>>

Method(name, defaults, opts) ==
    [name |-> name, defaults |-> defaults, opts |-> <<opts>>, spaced |-> TRUE]

Insert == Method("crud.insert", <<EmptyList>>, SimpleOperationOpts)
InsertObject == Method("crud.insert_object", <<EmptyObject>>, SimpleOperationObjectOpts)
InsertMany == Method("crud.insert_many", <<EmptyList>>, OperationManyOpts)
InsertObjectMany == Method("crud.insert_object_many", <<EmptyList>>, OperationObjectManyOpts)
Replace == Method("crud.replace", <<EmptyList>>, SimpleOperationOpts)
ReplaceObject == Method("crud.replace_object", <<EmptyObject>>, SimpleOperationObjectOpts)
ReplaceMany == Method("crud.replace_many", <<EmptyList>>, OperationManyOpts)
ReplaceObjectMany == Method("crud.replace_object_many", <<EmptyList>>, OperationObjectManyOpts)
Upsert == Method("crud.upsert", <<EmptyList, EmptyList>>, SimpleOperationOpts)
UpsertObject == Method("crud.upsert_object", <<EmptyObject, EmptyList>>, SimpleOperationOpts)
UpsertMany == Method("crud.upsert_many", <<EmptyList>>, OperationManyOpts)
UpsertObjectMany == Method("crud.upsert_object_many", <<EmptyList>>, OperationManyOpts)
Update == Method("crud.update", <<EmptyList, EmptyList>>, SimpleOperationOpts)
Delete == Method("crud.delete", <<EmptyList>>, SimpleOperationOpts)
Get_ == Method("crud.get", <<EmptyList>>, GetOpts)
Select == Method("crud.select", <<Nil>>, SelectOpts)
Count == Method("crud.count", <<Nil>>, CountOpts)
Min_ == Method("crud.min", <<Nil>>, BorderOpts)
Max_ == Method("crud.max", <<Nil>>, BorderOpts)
Length == Method("crud.len", <<>>, BaseOpts)
Truncate == Method("crud.truncate", <<>>, BaseOpts)
StorageInfo == [Method("crud.storage_info", <<>>, BaseOpts) EXCEPT !.spaced = FALSE]
Stats == [Method("crud.stats", <<>>, BaseOpts) EXCEPT !.opts = <<>>]

Methods ==
    {Insert, InsertObject, InsertMany, InsertObjectMany, Replace, ReplaceObject, ReplaceMany,
     ReplaceObjectMany, Upsert, UpsertObject, UpsertMany, UpsertObjectMany, Update, Delete, Get_, Select,
     Count, Min_, Max_, Length, Truncate, StorageInfo, Stats}

\* Body: the array of the arguments becomes the tuple of a Call17Request;
\* given maps the positions of the arguments the user set to their values.
CrudRequest(m, space, given, opts) ==
    LET args == [n \in DOMAIN m.defaults |-> IF n \in DOMAIN given THEN given[n] ELSE m.defaults[n]]
        head == IF m.spaced /\ space # Nil THEN <<space>> ELSE <<>>
        tail == IF m.opts = <<>> THEN <<>> ELSE <<EncodeOptions(m.opts[1], opts)>>
    IN Apply(NewCall17Request(m.name), "args", List(head \o args \o tail))
=============================================================================
