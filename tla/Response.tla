------------------------------ MODULE Response ------------------------------
(***************************************************************************)
(* How a Response is decoded, in place, from the packet it keeps.  A body  *)
(* is optional, and a sequence of pairs, one for every key of its map.  An *)
(* optional value v is <<v>>, and <<>> when it is absent; the value of a   *)
(* pair is absent when the msgpack decoder cannot read it.                 *)
(***************************************************************************)
EXTENDS Integers, SequencesExt

OkCode == 0
PushCode == 128
ErrorCodeBit == 32768

Absent == <<>>
Some(v) == <<v>>
The(opt) == opt[1]

\* A packet, once decodeHeader has read its code.
MakeResponse(code, body) ==
    [code |-> code, body |-> body, Error |-> Absent, Data |-> Absent, MetaData |-> Absent,
     SQLInfo |-> Absent, Pos |-> Absent, err |-> Absent]

Pair(k, opt) == [key |-> k, val |-> opt]

\* The decoder of SQLInfo: not empty, only known keys.
DecodeSQLInfo(opt) ==
    IF \/ opt = Absent \/ The(opt) = <<>>
       \/ \E p \in ToSet(The(opt)) : p.key \notin {"RowCount", "AutoincrementIds"} \/ p.val = Absent
    THEN Absent ELSE opt

\* The decoder of ColumnMetaData, pair by pair: the value of a known key, whose
\* kind is all that matters of it, goes through a type assertion.
MetaKinds == [FieldName |-> "string", FieldType |-> "string", FieldColl |-> "string",
              FieldIsNullable |-> "bool", IsAutoincrement |-> "bool", FieldSpan |-> "string"]
MetaFault(p) ==
    CASE p.val = Absent \/ p.key \notin DOMAIN MetaKinds -> "decode"
      [] p.val # Absent /\ p.key \in DOMAIN MetaKinds ->
            IF The(p.val) = MetaKinds[p.key] THEN "none" ELSE "panic"
ColumnFaults(meta) == IF meta = <<>> THEN <<"decode">> ELSE [n \in DOMAIN meta |-> MetaFault(meta[n])]
MetaFaults(metas) == FlattenSeq([n \in DOMAIN metas |-> ColumnFaults(metas[n])])

-----------------------------------------------------------------------------
(* BoxError: a stack of errors, each with a link to the previous one.      *)

ErrorKeys == {"Type", "File", "Line", "Message", "Errno", "Errcode"}

\* Mutant: the length of the map does not count the additional fields.
ErrorMapLenNot(e) == 6

ErrorMapLen(e) == IF e.Fields = <<>> THEN 6 ELSE 7

\* encodeBoxError walks along Prev: an array of maps with their lengths.
EncodeBoxError(stack) ==
    [i \in DOMAIN stack |->
        LET e == stack[i] IN
        [len |-> ErrorMapLen(e),
         map |-> [k \in ErrorKeys \cup (IF e.Fields = <<>> THEN {} ELSE {"Fields"}) |-> e[k]]]]

\* decodeBoxError: a length that is not the number of pairs makes it misread
\* what follows; a key that is not there leaves the zero value.
DecodeBoxError(wire) ==
    IF wire = <<>> \/ \E m \in ToSet(wire) : m.len # Cardinality(DOMAIN m.map) THEN Absent
    ELSE Some([i \in DOMAIN wire |->
                 [k \in ErrorKeys \cup {"Fields"} |->
                    IF k \in DOMAIN wire[i].map THEN wire[i].map[k] ELSE <<>>]])

-----------------------------------------------------------------------------
(* The body.                                                               *)

Assigned(fields, field, v) == [fields EXCEPT ![field] = v]

\* resp with what the loop over the pairs keeps in local variables.
Start(resp) ==
    [resp |-> Assigned(resp, "err", Absent),
     locals |-> [stmtID |-> 0, bindCount |-> 0, Version |-> 0, Features |-> Absent,
                 Auth |-> "auto", extended |-> Absent]]

\* What a pair does to them: nothing, an error that ends the loop, or a field
\* of the response or a local variable that is assigned.  A panic is an error
\* of its own kind, as what is deferred runs all the same.
Skip == [does |-> "skip"]
Fail(why) == [does |-> "fail", why |-> why]
Put(field, opt) == IF opt = Absent THEN Fail("decode") ELSE [does |-> "put", field |-> field, val |-> opt]
Hold(field, opt) ==
    IF opt = Absent THEN Fail("decode") ELSE [does |-> "hold", field |-> field, val |-> The(opt)]

\* The columns of a result; the first fault ends the decoder.
DecodeMetaData(opt) ==
    IF opt = Absent THEN Fail("decode")
    ELSE LET faults == MetaFaults(The(opt))
             bad == {n \in DOMAIN faults : faults[n] # "none"}
             panics == \E n \in bad : faults[n] = "panic" /\ \A m \in bad : n <= m
         IN IF bad = {} THEN Put("MetaData", opt) ELSE Fail(IF panics THEN "panic" ELSE "decode")

\* The keys that decodeBody and decodeBodyTyped treat alike; others are skipped.
DecodeCommon(p) ==
    CASE p.key = "Error" ->
            LET e == IF p.val = Absent THEN Absent ELSE DecodeBoxError(The(p.val))
            IN Hold("extended", IF e = Absent THEN Absent ELSE Some(e))
      [] p.key = "Error24"  -> Put("Error", p.val)
      [] p.key = "SQLInfo"  -> Put("SQLInfo", DecodeSQLInfo(p.val))
      [] p.key = "MetaData" -> DecodeMetaData(p.val)
      [] p.key = "Pos"      -> Put("Pos", p.val)
      [] OTHER              -> IF p.val = Absent THEN Fail("decode") ELSE Skip

\* One pair of decodeBody.  Data that is no array is forgotten.
DecodePair(p) ==
    CASE p.key = "Data" /\ p.val # Absent ->
            IF The(p.val).array THEN Put("Data", Some(The(p.val).items)) ELSE Fail("not array")
      [] p.key \in {"stmtID", "bindCount", "Version"} -> Hold(p.key, p.val)
      [] p.key = "Features" -> Hold(p.key, IF p.val = Absent THEN Absent ELSE Some(p.val))
      [] p.key = "Auth" ->
            IF p.val # Absent /\ The(p.val) \notin {"chap-sha1", "pap-sha256"}
            THEN Fail("unknown auth type") ELSE Hold("Auth", p.val)
      [] OTHER -> DecodeCommon(p)

Perform(st, effect) ==
    CASE effect.does = "skip" -> st
      [] effect.does = "fail" ->
            LET kept == IF effect.why = "not array" THEN Assigned(st.resp, "Data", Absent) ELSE st.resp
            IN [resp |-> Assigned(kept, "err", Some([kind |-> effect.why])), locals |-> st.locals]
      [] effect.does = "put" ->
            [resp |-> Assigned(st.resp, effect.field, effect.val), locals |-> st.locals]
      [] effect.does = "hold" ->
            [resp |-> st.resp, locals |-> Assigned(st.locals, effect.field, effect.val)]

\* The loop; once there is an error it has returned.
AllPairs(resp, effects) ==
    LET st[n \in 0 .. Len(effects)] ==
            IF n = 0 THEN Start(resp)
            ELSE IF st[n - 1].resp.err # Absent THEN st[n - 1] ELSE Perform(st[n - 1], effects[n])
    IN st[Len(effects)]

\* A prepared statement or the answer to an ID request stands for the data.
Special(st) ==
    LET l == st.locals
        prepared == IF l.stmtID = 0 THEN st
                    ELSE Perform(st, Put("Data", Some(<<[StatementID |-> l.stmtID, ParamCount |-> l.bindCount]>>)))
    IN IF l.Version = 0 /\ l.Features = Absent THEN prepared
       ELSE IF l.Version = 0 \/ l.Features = Absent THEN Perform(prepared, Fail("incomplete ID"))
       ELSE Perform(prepared, Put("Data",
                Some(<<[Version |-> l.Version, Features |-> The(l.Features), Auth |-> l.Auth]>>)))

ClearErrorBit(code) == IF code >= ErrorCodeBit THEN code - ErrorCodeBit ELSE code

\* The server's error; resp.Code loses its bit for good.
ServerError(st) ==
    LET code == ClearErrorBit(st.resp.code) IN
    IF st.resp.err # Absent \/ st.resp.code \in {OkCode, PushCode} THEN st.resp
    ELSE Assigned(Assigned(st.resp, "code", code), "err",
                  Some([kind |-> "server", code |-> code, msg |-> st.resp.Error,
                        extended |-> st.locals.extended]))

\* Mutant: the buffer stays at its end.
RewoundNot(body) == Absent

\* The deferred Seek: the body can be decoded again.
Rewound(body) == body

\* decodeBody does not look at a body of at most two bytes, an empty map; err
\* is the error it returns, the other fields stay with the response.
DecodeBody(resp) ==
    IF resp.body \in {Absent, Some(<<>>)} THEN Assigned(resp, "err", Absent)
    ELSE LET st == AllPairs(resp, [n \in DOMAIN The(resp.body) |-> DecodePair(The(resp.body)[n])])
             end == IF st.resp.err # Absent THEN st.resp ELSE ServerError(Special(st))
         IN Assigned(end, "body", Rewound(end.body))

\* decodeBodyTyped looks at every body that is there.
DecodeBodyTyped(resp) ==
    IF resp.body = Absent THEN Assigned(resp, "err", Absent)
    ELSE LET st == AllPairs(resp, [n \in DOMAIN The(resp.body) |-> DecodeCommon(The(resp.body)[n])])
             end == ServerError(st)
         IN Assigned(end, "body", Rewound(end.body))

\* What it leaves in the user's result: the data, unless an error came before.
TypedResult(resp) ==
    IF resp.body = Absent THEN Absent
    ELSE LET pairs == The(resp.body)
             at == {n \in DOMAIN pairs :
                      pairs[n].key = "Data" /\ \A m \in 1 .. n : DecodeCommon(pairs[m]).does # "fail"}
         IN IF at = {} THEN Absent ELSE pairs[CHOOSE n \in at : TRUE].val
=============================================================================
