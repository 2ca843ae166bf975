-------------------------------- MODULE Wire --------------------------------
(***************************************************************************)
(* Request objects and the bytes they become.  A Go value is a tuple       *)
(* tagged with its type; encoded, it is a sequence of msgpack tokens, of   *)
(* which ErrTok stands for an encoder that returned an error there and     *)
(* PanicTok for one that panicked.                                         *)
(***************************************************************************)
EXTENDS Schema

Nil == <<"nil">>
U(n) == <<"uint", n>>
S(s) == <<"str", s>>
B(b) == <<"bool", b>>
List(vs) == <<"list", vs>>

MapLen(n) == <<"map", n>>
ArrayLen(n) == <<"array", n>>
ErrTok == <<"error">>
PanicTok == <<"panic">>

\* An iproto key and the tokens of its value.
Entry(key, toks) == <<<<"key", key>>>> \o toks

\* The tokens up to the first one of stops.
UpTo(toks, stops) ==
    LET at == {n \in DOMAIN toks : toks[n] \in stops}
    IN IF at = {} THEN toks ELSE SubSeq(toks, 1, Min(at) - 1)

EncodeLeaf(v) == IF v[1] = "bad" THEN <<ErrTok>> ELSE <<v>>

\* A value whose parts are encoded by Enc.  "key" stands for IntKey, UintKey,
\* StringKey and IntIntKey, "op" for Op and OpSplice, "bytes" for []byte,
\* "opts" for the options of a crud call: their encoder drops the errors of
\* the values.  Any other value is a token of its own.
EncodeParts(v, Enc(_)) ==
    CASE v[1] \in {"list", "key", "op"} ->
            <<ArrayLen(Len(v[2]))>> \o FlattenSeq([n \in DOMAIN v[2] |-> Enc(v[2][n])])
      [] v[1] = "opts" ->
            <<MapLen(Len(v[2]))>> \o
            FlattenSeq([n \in DOMAIN v[2] |-> <<S(v[2][n][1])>> \o UpTo(Enc(v[2][n][2]), {ErrTok})])
      [] OTHER -> EncodeLeaf(v)

\* What enc.Encode writes, for values nested at most three deep.
Encode1(v) == EncodeParts(v, EncodeLeaf)
Encode2(v) == EncodeParts(v, Encode1)
Encode(v) == EncodeParts(v, Encode2)

\* Op.EncodeMsgpack and the methods of Operations, one for every operator.
Op(operator, field, arg) == <<"op", <<S(operator), U(field), arg>>>>
OpSplice(field, pos, len, replace) == <<"op", <<S(":"), U(field), U(pos), U(len), S(replace)>>>>

Lower == [Id |-> "id", Name |-> "name"]

NamedBind(name, v) == <<MapLen(1), <<"bind", name>>>> \o Encode(v)
NamedBinds(pairs) ==
    <<ArrayLen(Len(pairs))>> \o FlattenSeq([n \in DOMAIN pairs |-> NamedBind(pairs[n][1], pairs[n][2])])

\* encodeSQLBind.  A slice of another type fails a type assertion; a value of
\* any other kind, nil above all, writes nothing and is no error.
EncodeSQLBind(v) ==
    CASE v[1] = "list" ->
            <<ArrayLen(Len(v[2]))>> \o
            FlattenSeq([n \in DOMAIN v[2] |->
                IF v[2][n][1] = "kv" THEN NamedBind(v[2][n][2], v[2][n][3]) ELSE Encode(v[2][n])])
      [] v[1] \in {"kvs", "gomap"} -> NamedBinds(v[2])
      [] v[1] = "struct" -> NamedBinds([n \in DOMAIN v[2] |-> <<Lower[v[2][n][1]], v[2][n][2]>>])
      [] v[1] = "othermap" -> <<ErrTok>>
      [] v[1] = "slice" -> <<PanicTok>>
      [] OTHER -> <<>>

-----------------------------------------------------------------------------
(* Bodies.                                                                 *)

Iter == [EQ |-> 0, ALL |-> 2, GE |-> 5]

fillSearch(spaceNo, indexNo, key) ==
    Entry("SpaceNo", <<U(spaceNo)>>) \o Entry("IndexNo", <<U(indexNo)>>) \o Entry("Key", Encode(key))

fillIterator(offset, limit, iterator) ==
    Entry("Iterator", <<iterator>>) \o Entry("Offset", <<offset>>) \o Entry("Limit", <<limit>>)

fillInsert(spaceNo, tuple) ==
    <<MapLen(2)>> \o Entry("SpaceNo", <<U(spaceNo)>>) \o Entry("Tuple", Encode(tuple))

SelectMapLen(f) == 6 + (IF f.fetchPos = B(TRUE) THEN 1 ELSE 0) + (IF f.after # Nil THEN 1 ELSE 0)

fillSelect(spaceNo, indexNo, f) ==
    <<MapLen(SelectMapLen(f))>>
    \o fillIterator(f.offset, f.limit, f.iterator)
    \o fillSearch(spaceNo, indexNo, f.key)
    \o (IF f.fetchPos = B(TRUE) THEN Entry("FetchPos", <<f.fetchPos>>) ELSE <<>>)
    \o (CASE f.after = Nil -> <<>>
          [] f.after[1] = "bytes" -> Entry("AfterPos", <<S(f.after[2])>>)
          [] OTHER -> Entry("AfterTuple", Encode(f.after)))

fillUpdate(spaceNo, indexNo, key, ops) ==
    <<MapLen(4)>> \o fillSearch(spaceNo, indexNo, key) \o Entry("Tuple", Encode(ops))

fillUpsert(spaceNo, tuple, ops) ==
    <<MapLen(3)>> \o Entry("SpaceNo", <<U(spaceNo)>>) \o Entry("Tuple", Encode(tuple))
    \o Entry("DefTuple", Encode(ops))

fillDelete(spaceNo, indexNo, key) == <<MapLen(3)>> \o fillSearch(spaceNo, indexNo, key)

fillCall(function, args) ==
    <<MapLen(2)>> \o Entry("FunctionName", <<function>>) \o Entry("Tuple", Encode(args))

fillEval(expr, args) ==
    <<MapLen(2)>> \o Entry("Expression", <<expr>>) \o Entry("Tuple", Encode(args))

fillExecute(expr, args) ==
    <<MapLen(2)>> \o Entry("SQLText", <<expr>>) \o Entry("SQLBind", EncodeSQLBind(args))

fillPrepare(expr) == <<MapLen(1)>> \o Entry("SQLText", <<expr>>)
fillUnprepare(stmt) == <<MapLen(1)>> \o Entry("StmtID", <<stmt[3]>>)
fillExecutePrepared(stmt, args) ==
    <<MapLen(2)>> \o Entry("StmtID", <<stmt[3]>>) \o Entry("SQLBind", EncodeSQLBind(args))

fillBegin(f) ==
    LET timeout == IF f.timeout = U(0) THEN <<>> ELSE Entry("Timeout", <<f.timeout>>)
        isolation == IF f.txnIsolation = U(0) THEN <<>> ELSE Entry("TxnIsolation", <<f.txnIsolation>>)
    IN <<MapLen((Len(timeout) + Len(isolation)) \div 2)>> \o timeout \o isolation

\* fillPing, fillCommit, fillRollback
fillEmpty == <<MapLen(0)>>

fillWatch(key) == <<MapLen(1)>> \o Entry("Event", <<key>>)

fillId(info) ==
    <<MapLen(2)>> \o Entry("Version", <<U(info.Version)>>)
    \o Entry("Features", <<ArrayLen(Len(info.Features))>> \o [n \in DOMAIN info.Features |-> U(info.Features[n])])

fillAuth(user, pass, method) ==
    <<MapLen(2)>> \o Entry("UserName", <<S(user)>>) \o Entry("Tuple", <<ArrayLen(2), S(method), pass>>)

-----------------------------------------------------------------------------
(* Request objects: their code and the fields their setters assign.        *)

Request(code, fields) == [code |-> code, f |-> fields]

NewPingRequest == Request("ping", <<>>)

NewSelectRequest(space) ==
    Request("select", [space |-> space, index |-> Nil, isIteratorSet |-> FALSE, fetchPos |-> B(FALSE),
                       offset |-> U(0), limit |-> U(99), iterator |-> U(Iter.ALL), key |-> List(<<>>),
                       after |-> Nil])

NewInsertRequest(space) == Request("insert", [space |-> space, tuple |-> List(<<>>)])
NewReplaceRequest(space) == Request("replace", [space |-> space, tuple |-> List(<<>>)])
NewDeleteRequest(space) == Request("delete", [space |-> space, index |-> Nil, key |-> List(<<>>)])
NewUpdateRequest(space) ==
    Request("update", [space |-> space, index |-> Nil, key |-> List(<<>>), ops |-> List(<<>>)])
NewUpsertRequest(space) ==
    Request("upsert", [space |-> space, tuple |-> List(<<>>), ops |-> List(<<>>)])
NewCallRequest(function) == Request("call", [function |-> S(function), args |-> Nil])
NewCall16Request(function) == [NewCallRequest(function) EXCEPT !.code = "call16"]
NewCall17Request(function) == [NewCallRequest(function) EXCEPT !.code = "call17"]
NewEvalRequest(expr) == Request("eval", [expr |-> S(expr), args |-> List(<<>>)])
NewExecuteRequest(expr) == Request("execute", [expr |-> S(expr), args |-> List(<<>>)])

NewBeginRequest == Request("begin", [txnIsolation |-> U(0), timeout |-> U(0)])
NewCommitRequest == Request("commit", <<>>)
NewRollbackRequest == Request("rollback", <<>>)

\* A statement is <<"stmt", connection, identifier>>; UnprepareRequest has the
\* code of a PrepareRequest, the body tells them apart.
NewPrepareRequest(expr) == Request("prepare", [expr |-> S(expr)])
NewUnprepareRequest(stmt) == Request("prepare", [stmt |-> stmt])
NewExecutePreparedRequest(stmt) == Request("execute", [stmt |-> stmt, args |-> List(<<>>)])

NewBroadcastRequest(key) ==
    Request("call", [function |-> S("box.broadcast"), args |-> List(<<S(key)>>), event |-> S(key)])
NewWatchRequest(key) == Request("watch", [event |-> S(key)])
NewUnwatchRequest(key) == Request("unwatch", [event |-> S(key)])

clientProtocolInfo == [Version |-> 4, Features |-> <<0, 1, 2, 3, 4>>]

\* The fields of the objects that users make, by code.
Shapes ==
    {<<c, {}>> : c \in {"ping", "commit", "rollback"}}
    \cup {<<c, {"space", "tuple"}>> : c \in {"insert", "replace"}}
    \cup {<<c, {"function", "args"}>> : c \in {"call", "call16", "call17"}}
    \cup {<<c, {"event"}>> : c \in {"watch", "unwatch"}}
    \cup {<<"select", {"space", "index", "isIteratorSet", "fetchPos", "offset", "limit", "iterator",
                       "key", "after"}>>,
          <<"delete", {"space", "index", "key"}>>, <<"update", {"space", "index", "key", "ops"}>>,
          <<"upsert", {"space", "tuple", "ops"}>>, <<"call", {"function", "args", "event"}>>,
          <<"eval", {"expr", "args"}>>, <<"execute", {"expr", "args"}>>, <<"execute", {"stmt", "args"}>>,
          <<"prepare", {"expr"}>>, <<"prepare", {"stmt"}>>, <<"begin", {"txnIsolation", "timeout"}>>}

NewIdRequest(info) == Request("id", [info |-> info])
NewAuthRequest(user, pass, method) == Request("auth", [user |-> user, pass |-> pass, auth |-> method])

\* settings.SetRequest and settings.GetRequest wrap an update and a select.
NewSettingSetRequest(setting, value) ==
    LET req == NewUpdateRequest(S("_session_settings")) IN
    [req EXCEPT !.f.key = <<"key", <<S(setting)>>>>, !.f.ops = List(<<Op("=", 1, value)>>)]

Assign(req, field, v) == [req EXCEPT !.f[field] = v]

\* Mutant: Key always chooses the iterator.
WithKeyNot(req, key) == Assign(Assign(req, "key", key), "iterator", U(Iter.EQ))

\* SelectRequest.Key
WithKey(req, key) ==
    Assign(Assign(req, "key", key), "iterator",
           IF req.f.isIteratorSet THEN req.f.iterator ELSE U(Iter.EQ))

\* A setter: the field it is named for, with the few that do more.
Apply(req, name, v) ==
    CASE req.code = "select" /\ name = "iterator" ->
            Assign(Assign(req, "iterator", v), "isIteratorSet", TRUE)
      [] req.code = "select" /\ name = "key" -> WithKey(req, v)
      [] name = "ops" /\ v = Nil -> req
      [] name = "value" -> Assign(req, "args", List(<<req.f.event, v>>))
      [] OTHER -> Assign(req, name, v)

\* The setters req has, by the field they are named for.
Settable(req) ==
    LET fields == DOMAIN req.f IN
    IF "event" \in fields THEN (IF "args" \in fields THEN {"value"} ELSE {})
    ELSE fields \ {"space", "isIteratorSet", "function", "expr", "stmt", "info", "user", "pass", "auth"}

NewSettingGetRequest(setting) ==
    Apply(Apply(NewSelectRequest(S("_session_settings")), "key", <<"key", <<S(setting)>>>>), "limit", U(1))

\* The requests the methods of Connection make, the setters called in that
\* order; the operations of UpdateAsync and UpsertAsync need no Operations.
SelectAsync(space, index, offset, limit, iterator, key) ==
    LET placed == Apply(NewSelectRequest(space), "index", index)
        paged == Apply(Apply(placed, "offset", offset), "limit", limit)
    IN Apply(Apply(paged, "iterator", iterator), "key", key)
InsertAsync(space, tuple) == Apply(NewInsertRequest(space), "tuple", tuple)
ReplaceAsync(space, tuple) == Apply(NewReplaceRequest(space), "tuple", tuple)
DeleteAsync(space, index, key) == Apply(Apply(NewDeleteRequest(space), "index", index), "key", key)
UpdateAsync(space, index, key, ops) ==
    Assign(Apply(Apply(NewUpdateRequest(space), "index", index), "key", key), "ops", ops)
UpsertAsync(space, tuple, ops) == Assign(Apply(NewUpsertRequest(space), "tuple", tuple), "ops", ops)
CallAsync(function, args) == Apply(NewCallRequest(function), "args", args)
Call16Async(function, args) == Apply(NewCall16Request(function), "args", args)
Call17Async(function, args) == Apply(NewCall17Request(function), "args", args)
EvalAsync(expr, args) == Apply(NewEvalRequest(expr), "args", args)
ExecuteAsync(expr, args) == Apply(NewExecuteRequest(expr), "args", args)

-----------------------------------------------------------------------------
(* Packets.                                                                *)

\* What Body resolves a space and an index with, by its type.
ParamOf(v) ==
    CASE v = Nil -> [by |-> "none"]
      [] v[1] = "str" -> [by |-> "name", name |-> v[2]]
      [] v[1] = "uint" -> [by |-> "number", no |-> v[2]]
      [] OTHER -> [by |-> "other"]

\* The Body methods of the requests to a space, given its number and the one
\* of the index.
BodyIn(req, spaceNo, indexNo) ==
    LET f == req.f IN
    CASE req.code = "select" -> fillSelect(spaceNo, indexNo, f)
      [] req.code \in {"insert", "replace"} -> fillInsert(spaceNo, f.tuple)
      [] req.code = "delete" -> fillDelete(spaceNo, indexNo, f.key)
      [] req.code = "update" -> fillUpdate(spaceNo, indexNo, f.key, f.ops)
      [] req.code = "upsert" -> fillUpsert(spaceNo, f.tuple, f.ops)

\* The numbers they ask the schema for; some have no index.
IndexOf(req) == IF "index" \in DOMAIN req.f THEN req.f.index ELSE Nil
NumbersOf(req, schema) == ResolveSpaceIndex(schema, ParamOf(req.f.space), ParamOf(IndexOf(req)))

\* The Body methods; schema is optional.
Body(req, schema) ==
    LET f == req.f IN
    CASE "space" \in DOMAIN f ->
            LET nos == NumbersOf(req, schema)
            IN IF ResolvePanics(schema, ParamOf(f.space), ParamOf(IndexOf(req))) THEN <<PanicTok>>
               ELSE IF nos = Unresolved THEN <<ErrTok>> ELSE BodyIn(req, nos[1], nos[2])
      [] req.code \in {"ping", "commit", "rollback"} -> fillEmpty
      [] req.code \in {"call", "call16", "call17"} ->
            fillCall(f.function, IF f.args = Nil THEN List(<<>>) ELSE f.args)
      [] req.code = "eval" -> fillEval(f.expr, f.args)
      [] req.code = "execute" ->
            IF "stmt" \in DOMAIN f THEN fillExecutePrepared(f.stmt, f.args) ELSE fillExecute(f.expr, f.args)
      [] req.code = "prepare" ->
            IF "stmt" \in DOMAIN f THEN fillUnprepare(f.stmt) ELSE fillPrepare(f.expr)
      [] req.code = "begin" -> fillBegin(f)
      [] req.code \in {"watch", "unwatch"} -> fillWatch(f.event)
      [] req.code = "id" -> fillId(f.info)
      [] req.code = "auth" -> fillAuth(f.user, f.pass, f.auth)

NoStream == 0

HeaderMapLen(stream) == IF stream = NoStream THEN 2 ELSE 3

\* pack: the length, patched in at the end, the header and the body.  A failed
\* Body leaves what it wrote, with a length of zero; err says how it failed.
Pack(buf, reqid, req, stream, schema) ==
    LET body == Body(req, schema)
        rest == <<MapLen(HeaderMapLen(stream))>>
                \o Entry("Code", <<S(req.code)>>) \o Entry("Sync", <<U(reqid)>>)
                \o (IF stream = NoStream THEN <<>> ELSE Entry("StreamId", <<U(stream)>>))
                \o UpTo(body, {ErrTok, PanicTok})
        err == IF PanicTok \in ToSet(body) THEN "panic"
               ELSE IF ErrTok \in ToSet(body) THEN "error" ELSE "none"
    IN [buf |-> buf \o <<<<"len", IF err = "none" THEN Len(rest) ELSE 0>>>> \o rest, err |-> err]

=============================================================================
