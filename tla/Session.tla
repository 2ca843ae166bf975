------------------------------ MODULE Session ------------------------------
(***************************************************************************)
(* A session with a server, from Dial to its requests: the greeting, the   *)
(* exchange of protocol versions, authentication, the load of the schema   *)
(* while others change it, and request objects that are built by calls of  *)
(* their setters, sent, changed and sent again.  The socket takes packets  *)
(* in the order they are packed; what it does to them is in Transport.     *)
(***************************************************************************)
EXTENDS Crud, Response

CONSTANTS
    Sessions,       \* records: opts, the options of Dial; infos, the protocols a server may
                    \* have; rows, its spaces; ddl, how often they change; requests, how many
                    \* are tried; calls, how many setters are called;
                    \* crud, whether requests may be of the crud module
    Rows,           \* spaces a server may have: records of a row of _vspace and rows of _vindex
    maxSchemas,     \* the limit of the selects that load the schema
    Fresh,          \* new request objects, with the setters their constructors call
    CrudOpts(_),    \* for a method of crud, functions from options to values
    Values,         \* for every setter, arguments
    Bodies,         \* the answers of the server to SQL requests
    GoValues        \* the values in requests, with their parts

\* The server keeps the indexes of a space under its identifier.
ASSUME RowsAssumption ==
    /\ maxSchemas \in Nat /\ IsFiniteSet(Rows)
    /\ \A s \in Sessions : s.rows \subseteq Rows
    /\ \A s \in Rows : s.row.id \in Nat /\ \A i \in s.indexes : i.space = s.row.id

\* A protocol has a version, and names one of the methods if any.
ASSUME InfosAssumption ==
    \A s \in Sessions : \A i \in s.infos :
        /\ i = [Version |-> i.Version, Features |-> i.Features, Auth |-> i.Auth]
        /\ i.Version \in Nat \ {0} /\ i.Auth \in {"auto", "chap-sha1", "pap-sha256"}
ASSUME BodiesAssumption == \A b \in Bodies : b \in Seq(ToSet(b))

\* A part of a value is a value, and none is the mark of a panic.
ASSUME GoValuesAssumption ==
    /\ PanicTok \notin GoValues
    /\ \A v \in GoValues :
          /\ v[1] \in {"list", "key", "op"} => v[2] \in Seq(GoValues)
          /\ v[1] \in {"opts", "kvs", "gomap", "struct"} => v[2] \in Seq(STRING \X GoValues)
          /\ v[1] = "kv" => v[3] \in GoValues

\* Request objects come from the constructors, and users give them values.
ASSUME FreshAssumption ==
    \A r \in {x.req : x \in Fresh} :
        /\ <<r.code, DOMAIN r.f>> \in Shapes /\ r = Request(r.code, [k \in DOMAIN r.f |-> r.f[k]])
        /\ \A k \in DOMAIN r.f \ {"isIteratorSet", "stmt"} : r.f[k] \in GoValues
        /\ "stmt" \in DOMAIN r.f => r.f.stmt[3] \in GoValues
ASSUME ValuesAssumption ==
    /\ \A name \in DOMAIN Values : Values[name] \subseteq GoValues
    /\ \A m \in Methods : \A opts \in CrudOpts(m) : \A o \in DOMAIN opts : opts[o] \in GoValues

VARIABLES
    phase,          \* what Connect does next, or "ready", "failed", "panicked"
    session,        \* the session's record
    sock,           \* the socket: "none", "open", "closed"
    salt,           \* whether the greeting's salt can be decoded; TRUE when it is out of scope
    server,         \* the protocol the server has; NoInfo when it knows none
    info,           \* conn.protocol
    out,            \* tokens written by Connect
    rows,           \* the spaces of the server
    ddl,            \* changes so far, and whether one fell into loadSchema
    spaces,         \* loadSchema's first answer
    schema,         \* conn.Schema, optional
    req,            \* the request object at hand and the setters called on it, optional
    calls,          \* setters called
    buf,            \* tokens of the requests
    sent,           \* accepted requests
    tries,          \* requests tried
    cause           \* where the program panicked, and with what

dialVars == <<session, sock, salt, server, info, out>>
schemaVars == <<rows, ddl, spaces, schema>>
requestVars == <<req, calls, buf, sent, tries>>
sessionVars == <<phase, dialVars, schemaVars, requestVars, cause>>

dialOpts == session.opts
NoInfo == [Version |-> 0, Features |-> <<>>, Auth |-> "auto"]

SessionInit ==
    \E s \in Sessions :
        /\ phase = "dial" /\ session = s /\ sock = "none" /\ salt = TRUE
        /\ server \in s.infos \cup {NoInfo} /\ info = NoInfo /\ out = <<>>
        /\ rows = s.rows /\ ddl = [count |-> 0, raced |-> FALSE] /\ spaces = {} /\ schema = <<>>
        /\ req = <<>> /\ calls = 0 /\ buf = <<>> /\ sent = <<>>
        /\ tries = 0 /\ cause = <<>>

-----------------------------------------------------------------------------
(* Dial.                                                                   *)

\* dial: the transport is known and the network lets the client in.
DialNet ==
    /\ phase = "dial"
    /\ \/ dialOpts.Transport \in {"", "ssl"} /\ phase' = "greeting" /\ sock' = "open"
       \/ phase' = "failed" /\ UNCHANGED sock
    /\ UNCHANGED <<session, salt, server, info, out, schemaVars, requestVars, cause>>

\* Mutant: the socket of a failed handshake stays open.
HangUpNot == sock' = sock

\* conn.net.Close()
HangUp == sock' = "closed"

GoTo(next) == phase' = next /\ UNCHANGED sock
GiveUp == phase' = "failed" /\ HangUp

\* readGreeting
ReadGreeting ==
    /\ phase = "greeting"
    /\ \/ GoTo("identify") /\ salt' \in BOOLEAN
       \/ GiveUp /\ UNCHANGED salt
    /\ UNCHANGED <<session, server, info, out, schemaVars, requestVars, cause>>

\* The packets writeRequest sends before there is a schema.
WriteRequest(r) == out' = Pack(out, 0, r, NoStream, <<>>).buf

Refusal(code) == MakeResponse(ErrorCodeBit + code, Some(<<Pair("Error24", Some("text"))>>))
Truth(i) ==
    MakeResponse(OkCode, Some(
        <<Pair("Version", Some(i.Version)), Pair("Features", Some(i.Features))>>
        \o (IF i.Auth = "auto" THEN <<>> ELSE <<Pair("Auth", Some(i.Auth))>>)))
Beside == MakeResponse(OkCode, Some(<<Pair("Data", Some([array |-> TRUE, items |-> <<[other |-> TRUE]>>]))>>))

\* The answers of a server with the protocol i to an ID request: it refuses it,
\* says nothing or something else, does not know it, or says what it has.
IdAnswers(i) ==
    <<Refusal(20), MakeResponse(OkCode, Some(<<>>)), Beside, IF i = NoInfo THEN Refusal(48) ELSE Truth(i)>>

\* What identify makes of an answer, optional.
IdentifiedAs(answer) ==
    LET decoded == DecodeBody(answer) IN
    CASE decoded.err # Absent -> IF decoded.code = 48 THEN <<NoInfo>> ELSE <<>>
      [] decoded.err = Absent /\ (decoded.Data = Absent \/ The(decoded.Data) = <<>>) -> <<>>
      [] OTHER -> LET d == The(decoded.Data)[1] IN IF "Version" \in DOMAIN d THEN <<d>> ELSE <<>>

Identify ==
    /\ phase = "identify"
    /\ WriteRequest(NewIdRequest(clientProtocolInfo))
    /\ \/ GiveUp /\ UNCHANGED info
       \/ \E n \in 1 .. 4 :
            LET known == IdentifiedAs(IdAnswers(server)[n]) IN
            IF known = <<>> THEN GiveUp /\ UNCHANGED info ELSE GoTo("check") /\ info' = known[1]
    /\ UNCHANGED <<session, salt, server, schemaVars, requestVars, cause>>

\* Mutant: a server that did not identify itself is not checked.
SupportedNot(required, actual) ==
    actual = NoInfo \/ (required.Version <= actual.Version
                        /\ ToSet(required.Features) \subseteq ToSet(actual.Features))

\* checkProtocolInfo
Supported(required, actual) ==
    required.Version <= actual.Version /\ ToSet(required.Features) \subseteq ToSet(actual.Features)

CheckProtocolInfo ==
    /\ phase = "check"
    /\ IF Supported(dialOpts.Required, info) THEN GoTo("auth") ELSE GiveUp
    /\ UNCHANGED <<session, salt, server, info, out, schemaVars, requestVars, cause>>

\* The method of an automatic choice.
AuthMethod ==
    IF dialOpts.Auth # "auto" THEN dialOpts.Auth
    ELSE IF info.Auth # "auto" THEN info.Auth ELSE "chap-sha1"

\* Mutant: the transport is checked only when the user chose the method.
MayAuthNot(method) ==
    CASE method = "chap-sha1"  -> salt
      [] method = "pap-sha256" -> dialOpts.Transport = "ssl" \/ dialOpts.Auth = "auto"
      [] OTHER -> FALSE

\* authenticate up to its request; scramble needs the salt.
MayAuth(method) ==
    CASE method = "chap-sha1"  -> salt
      [] method = "pap-sha256" -> dialOpts.Transport = "ssl"
      [] OTHER -> FALSE

\* pass on the wire: a scramble, or the password itself, which is no other string.
Password == <<"password">>
Secret(method) == IF method = "chap-sha1" THEN S("scramble") ELSE Password

Connected == GoTo(IF dialOpts.SkipSchema THEN "ready" ELSE "spaces")

Authenticate ==
    /\ phase = "auth"
    /\ IF dialOpts.User = "" THEN Connected /\ UNCHANGED out
       ELSE IF ~MayAuth(AuthMethod) THEN GiveUp /\ UNCHANGED out
       ELSE /\ WriteRequest(NewAuthRequest(dialOpts.User, Secret(AuthMethod), AuthMethod))
            /\ Connected \/ GiveUp
    /\ salt' = TRUE
    /\ UNCHANGED <<session, server, info, schemaVars, requestVars, cause>>

-----------------------------------------------------------------------------
(* The schema.                                                             *)

Load(space) == SelectAsync(U(space), U(0), U(0), U(maxSchemas), U(Iter.ALL), List(<<>>))
Panic(where, with) == phase' = "panicked" /\ cause' = <<where, with>>

\* What the selects return: the first rows by their primary keys.
FirstSpaces(all) == {s \in all : Cardinality({x \in all : x.row.id < s.row.id}) < maxSchemas}
FirstIndexes(all) ==
    {i \in all : Cardinality({x \in all : x.space < i.space \/ (x.space = i.space /\ x.id < i.id)})
                    < maxSchemas}

\* Mutant: temporary spaces are left out.
DecodedSpacesNot == LET all == SpacesOf({s.row : s \in FirstSpaces(rows)}) IN
    IF all = <<>> THEN <<>> ELSE <<{s \in all[1] : ~s.Temporary}>>

\* The answer of the first select.
DecodedSpaces == SpacesOf({s.row : s \in FirstSpaces(rows)})

\* The first half of loadSchema; a failed select or decoder ends Connect.
LoadSpaces ==
    /\ phase = "spaces"
    /\ WriteRequest(Load(281))
    /\ \/ GiveUp /\ UNCHANGED spaces
       \/ /\ DecodedSpaces # <<>>
          /\ GoTo("indexes") /\ spaces' = DecodedSpaces[1]
    /\ UNCHANGED <<session, salt, server, info, rows, ddl, schema, requestVars, cause>>

\* The second half: an index of a space it has not seen is a nil pointer.
LoadIndexes ==
    /\ phase = "indexes"
    /\ WriteRequest(Load(289))
    /\ LET indexes == DecodeRows(DecodeIndex, FirstIndexes(UNION {s.indexes : s \in rows})) IN
       \/ GiveUp /\ UNCHANGED <<schema, cause>>
       \/ /\ indexes # <<>> /\ Indexed(spaces, indexes[1])
          /\ GoTo("ready") /\ schema' = <<MakeSchema(spaces, indexes[1])>> /\ UNCHANGED cause
       \/ /\ indexes # <<>> /\ ~Indexed(spaces, indexes[1])
          /\ Panic("schema", <<>>) /\ UNCHANGED <<schema, sock>>
    /\ UNCHANGED <<session, salt, server, info, rows, ddl, spaces, requestVars>>

\* Somebody creates or drops a space with its indexes.
DDL ==
    /\ phase \in {"spaces", "indexes"} /\ ddl.count < session.ddl
    /\ \E s \in Rows : rows' = (rows \cup {s}) \ (rows \cap {s})
    /\ ddl' = [count |-> ddl.count + 1, raced |-> ddl.raced \/ phase = "indexes"]
    /\ UNCHANGED <<phase, dialVars, spaces, schema, requestVars, cause>>

-----------------------------------------------------------------------------
(* Requests.                                                               *)

New(r, setters, crud) ==
    /\ phase = "ready" /\ tries < session.requests /\ req = <<>>
    /\ req' = <<[req |-> r, setters |-> setters, crud |-> crud]>>
    /\ UNCHANGED <<phase, dialVars, schemaVars, calls, buf, sent, tries, cause>>

NewRequest == \E r \in Fresh : New(r.req, r.setters, <<>>)

\* A request of the crud module, with all its arguments or with none.
NewCrudRequest ==
    session.crud /\ \E m \in Methods : \E opts \in CrudOpts(m) :
        \E given \in {<<>>, [n \in DOMAIN m.defaults |-> List(<<U(n)>>)]} :
            New(CrudRequest(m, S("a"), given, opts), <<>>, <<[method |-> m.name, opts |-> opts]>>)

Set(name, v) ==
    /\ phase = "ready" /\ calls < session.calls /\ tries < session.requests
    /\ req # <<>> /\ req[1].crud = <<>> /\ name \in Settable(req[1].req)
    /\ req' = <<[req |-> Apply(req[1].req, name, v), setters |-> Append(req[1].setters, <<name, v>>),
                 crud |-> <<>>]>>
    /\ calls' = calls + 1
    /\ UNCHANGED <<phase, dialVars, schemaVars, buf, sent, tries, cause>>

\* Connection.Do and Stream.Do refuse a statement of another connection.
Foreign(r) == "stmt" \in DOMAIN r.f /\ r.f.stmt[2] # "this"

\* Mutant: the buffer is not cut back.
TruncNot(packed, blen) == packed

\* shard.buf.Trunc(blen)
Trunc(packed, blen) == SubSeq(packed, 1, blen)

\* ExecuteTyped is Do and GetTyped; then it looks at the response, even when
\* there is an error instead.
Typed(r, stream) == r.code = "execute" /\ "expr" \in DOMAIN r.f /\ stream = NoStream
NilResponse(r, stream) == Typed(r, stream) /\ Panic("ExecuteTyped", r)

\* Do: the request is refused, packed, or packing it fails.
Do(stream) ==
    LET r == req[1].req
        packed == Pack(buf, tries + 1, r, stream, schema)
    IN
    /\ phase = "ready" /\ req # <<>> /\ tries < session.requests
    /\ tries' = tries + 1
    /\ CASE Foreign(r) -> UNCHANGED <<buf, sent, phase, cause>>
         [] ~Foreign(r) /\ packed.err = "none" ->
                /\ buf' = packed.buf
                /\ sent' = Append(sent, [id |-> tries + 1, stream |-> stream, r |-> req[1]])
                /\ UNCHANGED <<phase, cause>>
         [] ~Foreign(r) /\ packed.err = "error" ->
                /\ buf' = Trunc(packed.buf, Len(buf)) /\ UNCHANGED sent
                /\ UNCHANGED <<phase, cause>> \/ NilResponse(r, stream)
         [] ~Foreign(r) /\ packed.err = "panic" ->
                buf' = packed.buf /\ UNCHANGED sent /\ Panic("pack", r)
    /\ UNCHANGED <<dialVars, schemaVars, req, calls>>

Drop ==
    /\ phase = "ready" /\ req # <<>> /\ req' = <<>>
    /\ UNCHANGED <<phase, dialVars, schemaVars, calls, buf, sent, tries, cause>>

\* The connection fails a request that was sent.
Fails ==
    /\ phase = "ready" /\ sent # <<>>
    /\ NilResponse(Last(sent).r.req, Last(sent).stream)
    /\ UNCHANGED <<dialVars, schemaVars, requestVars>>

\* Get of an answer to an SQL request; what it returns is in Future.
Answered ==
    /\ phase = "ready" /\ sent # <<>> /\ Last(sent).r.req.code \in {"execute", "prepare"}
    /\ \E b \in Bodies :
          LET e == DecodeBody(MakeResponse(OkCode, Some(b))).err IN
          e # Absent /\ The(e).kind = "panic" /\ Panic("answer", b)
    /\ UNCHANGED <<dialVars, schemaVars, requestVars>>

SessionNext ==
    \/ DialNet \/ ReadGreeting \/ Identify \/ CheckProtocolInfo \/ Authenticate
    \/ LoadSpaces \/ LoadIndexes \/ DDL
    \/ NewRequest \/ NewCrudRequest
    \/ \E name \in DOMAIN Values : \E v \in Values[name] : Set(name, v)
    \/ \E stream \in {NoStream, 7} : Do(stream)
    \/ Drop \/ Fails \/ Answered

SessionSpec == SessionInit /\ [][SessionNext]_sessionVars

-----------------------------------------------------------------------------
(* Properties.                                                             *)

\* Dial never leaves the socket of a failed handshake behind, wherever it
\* failed, and neither does a failed load of the schema.
NoLeakedSocket == phase = "failed" => sock # "open"

\* A connection that is used meets the requirements of the options, whatever
\* the server answered to the ID request, and also when it knows none.
RequirementsMet ==
    phase \in {"spaces", "indexes", "ready"} =>
        /\ sock = "open"
        /\ dialOpts.Required.Version <= server.Version
        /\ ToSet(dialOpts.Required.Features) \subseteq ToSet(server.Features)

\* Whoever chose the method, the password itself is only ever written to an
\* encrypted transport.
PasswordEncrypted == Password \in ToSet(out) => dialOpts.Transport = "ssl"

\* The values a request cannot be packed with: SQL arguments that are a slice of
\* another type, a space or an index that is neither a name nor a number.
Unpackable(r) ==
    \/ r.code = "execute" /\ r.f.args[1] = "slice"
    \/ "space" \in DOMAIN r.f /\ ParamOf(r.f.space).by \notin {"name", "number"}
    \/ "index" \in DOMAIN r.f /\ ParamOf(r.f.index).by = "other"

\* The metadata of a column with a value of another type.
MistypedColumn(b) ==
    \E p \in ToSet(b) : /\ p.key = "MetaData" /\ p.val # Absent
                         /\ "panic" \in ToSet(MetaFaults(The(p.val)))

\* A session panics only where it is known to: in loadSchema, when the schema of
\* the server changed between the two selects or has more spaces than they
\* return; in Body, on values of a type it does not know; in the decoder of
\* metadata, on values of another type; in ExecuteTyped, without a response.
PanicsExplained ==
    phase = "panicked" =>
        \/ cause[1] = "schema" /\ (ddl.raced \/ Cardinality(rows) > maxSchemas)
        \/ cause[1] = "pack" /\ Unpackable(cause[2])
        \/ cause[1] = "answer" /\ MistypedColumn(cause[2])
        \/ cause[1] = "ExecuteTyped"

\* ExecuteTyped returns the error of a request, as its comment says
\* (request.go:366).  TLC finds it violated (README, section 3).
ErrorReturned == phase = "panicked" => cause[1] # "ExecuteTyped"

\* However the handshake goes, and whatever the server says of itself, Dial
\* leaves no socket behind, no requirement unmet and no password readable.
HandshakeSound == NoLeakedSocket /\ RequirementsMet /\ PasswordEncrypted
=============================================================================
