----------------------------- MODULE MCSession -----------------------------
EXTENDS Reader

None == [Version |-> 0, Features |-> <<>>]
Opts(transport, auth, user, required, skip) ==
    [Transport |-> transport, Auth |-> auth, User |-> user, Required |-> required, SkipSchema |-> skip]

Row(id, name, flags) == [id |-> id, name |-> name, flags |-> flags, format |-> <<"id", "">>]
IndexRow(space, id, name, opts) ==
    [id |-> id, space |-> space, name |-> name, opts |-> opts, parts |-> "maps"]
NoFlag == [kind |-> "map", unique |-> <<>>]

A == [row |-> Row(512, "a", [kind |-> "map", temporary |-> TRUE]),
      indexes |-> {IndexRow(512, 0, "pk", NoFlag), IndexRow(512, 1, "by_x", NoFlag)}]
C == [row |-> Row(513, "b", [kind |-> "string", temporary |-> FALSE]),
      indexes |-> {IndexRow(513, 0, "pk", [kind |-> "uint", val |-> 1]), IndexRow(513, 2, "by_x", NoFlag)}]
Settings == [row |-> Row(380, "_session_settings", [kind |-> "absent"]),
             indexes |-> {IndexRow(380, 0, "primary", NoFlag)}]
Strange == [row |-> Row(514, "strange", [kind |-> "array"]), indexes |-> {}]
Old == [row |-> Row(515, "old", [kind |-> "absent"]),
        indexes |-> {[IndexRow(515, 0, "pk", NoFlag) EXCEPT !.parts = "strings"]}]
Views == {[row |-> Row(n, "view", [kind |-> "absent"]), indexes |-> {}] : n \in 384 .. 387}
RowsDef == {A, C, Settings, Strange, Old} \cup Views

Infos ==
    {[Version |-> v, Features |-> f, Auth |-> a] :
        v \in {2, 4}, f \in {<<0>>, <<0, 3>>}, a \in {"auto", "chap-sha1", "pap-sha256"}}

\* Every way to dial; the load of the schema; and sessions that send requests,
\* with and without a schema.
Dialling ==
    {[opts |-> Opts(t, a, u, r, TRUE), infos |-> Infos, rows |-> {}, ddl |-> 0, requests |-> 0,
      calls |-> 0, crud |-> FALSE] :
        t \in {"", "ssl", "other"}, a \in {"auto", "chap-sha1", "pap-sha256", "other"}, u \in {"", "user"},
        r \in {None, [Version |-> 3, Features |-> <<>>], [Version |-> 0, Features |-> <<3>>]}}
Used(skip, changes, requests, setters, crud) ==
    [opts |-> Opts("", "auto", "", [Version |-> 4, Features |-> <<>>], skip), ddl |-> changes,
     requests |-> requests, calls |-> setters, crud |-> crud, rows |-> {A, C, Settings},
     infos |-> {[Version |-> 4, Features |-> <<0, 3>>, Auth |-> "auto"]}]
Crowded == [Used(FALSE, 0, 0, 0, FALSE) EXCEPT !.rows = {A, Settings} \cup Views]
SessionsDef ==
    Dialling \cup {Crowded, Used(FALSE, 2, 0, 0, FALSE), Used(FALSE, 0, 2, 1, FALSE), Used(FALSE, 0, 1, 3, FALSE),
                   Used(TRUE, 0, 1, 1, FALSE), Used(FALSE, 0, 1, 0, TRUE)}

Spaces == {S("a"), S("zz"), U(513), B(TRUE)}
Stmt(conn) == <<"stmt", conn, U(5)>>
Built(r) == [req |-> r, setters |-> <<>>]
KeyOf(s) == <<"key", <<S(s)>>>>
Tuple == List(<<U(1)>>)

FreshDef ==
    UNION {{Built(NewSelectRequest(s)), Built(NewInsertRequest(s)), Built(NewReplaceRequest(s)),
            Built(NewDeleteRequest(s)), Built(NewUpdateRequest(s)), Built(NewUpsertRequest(s))} : s \in Spaces}
    \cup {Built(r) : r \in {NewPingRequest, NewCallRequest("f"), NewCall16Request("f"), NewCall17Request("f"),
            NewEvalRequest("e"), NewExecuteRequest("q"), NewBeginRequest, NewCommitRequest,
            NewRollbackRequest, NewPrepareRequest("q"), NewUnprepareRequest(Stmt("this")),
            NewUnprepareRequest(Stmt("other")), NewExecutePreparedRequest(Stmt("this")),
            NewBroadcastRequest("k"), NewWatchRequest("k"), NewUnwatchRequest("k"),
            NewSettingSetRequest("s", B(TRUE)), InsertAsync(S("b"), Tuple), ReplaceAsync(S("b"), Tuple),
            DeleteAsync(S("b"), S("by_x"), KeyOf("x")), UpdateAsync(S("b"), S("by_x"), KeyOf("x"), Nil),
            UpsertAsync(S("b"), Tuple, Nil), CallAsync("f", Tuple), Call16Async("f", Tuple),
            Call17Async("f", Tuple), EvalAsync("e", Tuple), ExecuteAsync("q", Tuple)}}
    \cup {[req |-> NewSettingGetRequest("s"), setters |-> <<<<"key", KeyOf("s")>>>>],
          [req |-> SelectAsync(S("b"), S("by_x"), U(0), U(1), U(Iter.GE), KeyOf("x")),
           setters |-> <<<<"iterator", U(Iter.GE)>>, <<"key", KeyOf("x")>>>>]}

\* At most two options at a time, and once one that cannot be encoded.
CrudOptsDef(m) ==
    IF m.opts = <<>> THEN {<<>>}
    ELSE {[o \in s |-> <<"opt", o>>] : s \in {t \in SUBSET ToSet(m.opts[1].names) : Cardinality(t) <= 2}}
         \cup (IF m.name = "crud.insert" THEN {[fields |-> <<"bad">>]} ELSE {})

Pairs == <<<<"Id", U(1)>>, <<"Name", S("n")>>>>
ValuesDef ==
    [index |-> {S("by_x"), S("zz"), U(1), B(TRUE)}, offset |-> {U(1)}, limit |-> {U(1)},
     iterator |-> {U(Iter.GE)}, key |-> {KeyOf("x"), <<"bad">>}, fetchPos |-> {B(TRUE)},
     after |-> {<<"bytes", "pos">>, List(<<U(1)>>), <<"bad">>},
     tuple |-> {List(<<U(1), S("t")>>), List(<<U(1), <<"bad">>>>)},
     ops |-> {Nil, List(<<Op("+", 1, U(2)), OpSplice(2, 0, 1, "r")>>)},
     args |-> {Nil, List(<<>>), List(<<U(1), <<"kv", "k", U(2)>>>>), <<"kvs", Pairs>>, <<"gomap", Pairs>>,
               <<"struct", Pairs>>, <<"othermap", 0>>, <<"slice", 0>>, U(3)},
     value |-> {U(1)}, txnIsolation |-> {U(2)}, timeout |-> {U(9)}]

\* Answers with good metadata, with a value of another type, with none at all.
Column(kind) == <<Pair("FieldName", Some("string")), Pair("FieldIsNullable", Some(kind))>>
Columns(kind) == <<Pair("MetaData", Some(<<Column("bool"), Column(kind)>>))>>
BodiesDef == {<<>>, Columns("bool"), Columns("string"), <<Pair("MetaData", Some(<<<<>>>>))>>}

Parts(v) ==
    CASE v[1] \in {"list", "key", "op"} -> ToSet(v[2])
      [] v[1] \in {"opts", "kvs", "gomap", "struct"} -> {p[2] : p \in ToSet(v[2])}
      [] v[1] = "kv" -> {v[3]}
      [] OTHER -> {}
WithParts(vs) == vs \cup UNION {Parts(v) : v \in vs}
FieldValues(r) ==
    {r.f[k] : k \in DOMAIN r.f \ {"isIteratorSet", "stmt"}} \cup (IF "stmt" \in DOMAIN r.f THEN {U(5)} ELSE {})
GoValuesDef ==
    WithParts(WithParts(WithParts(
        UNION {ValuesDef[name] : name \in DOMAIN ValuesDef}
        \cup UNION {FieldValues(x.req) : x \in FreshDef}
        \cup UNION {{opts[o] : o \in DOMAIN opts} : opts \in UNION {CrudOptsDef(x) : x \in Methods}})))
=============================================================================
