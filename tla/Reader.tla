------------------------------- MODULE Reader -------------------------------
(***************************************************************************)
(* The other side of a session: what a reader that knows msgpack and       *)
(* nothing of requests makes of the packets, and whether they say what     *)
(* the users asked for.                                                    *)
(***************************************************************************)
EXTENDS Session

\* The position after the value at n, or 0 when there is no such value.
RECURSIVE After(_, _), AfterMany(_, _, _)
After(toks, n) ==
    IF n \notin DOMAIN toks THEN 0
    ELSE CASE toks[n][1] = "map" -> AfterMany(toks, n + 1, 2 * toks[n][2])
           [] toks[n][1] = "array" -> AfterMany(toks, n + 1, toks[n][2])
           [] toks[n][1] = "len" -> 0
           [] OTHER -> n + 1
AfterMany(toks, n, k) ==
    IF k = 0 THEN n
    ELSE LET next == After(toks, n) IN IF next = 0 THEN 0 ELSE AfterMany(toks, next, k - 1)

\* The entries of the map at n, from its keys to the tokens of the values.
RECURSIVE Entries(_, _, _)
Entries(toks, n, k) ==
    IF k = 0 THEN <<>>
    ELSE LET end == After(toks, n + 1)
         IN <<[key |-> toks[n], val |-> SubSeq(toks, n + 1, end - 1)]>> \o Entries(toks, end, k - 1)

\* A packet: two maps that fill it exactly, or <<>>.
ParsePacket(toks) ==
    LET mid == IF toks # <<>> /\ toks[1][1] = "map" THEN After(toks, 1) ELSE 0
        end == IF mid \in DOMAIN toks /\ toks[mid][1] = "map" THEN After(toks, mid) ELSE 0
    IN IF end # Len(toks) + 1 THEN <<>>
       ELSE <<[header |-> Entries(toks, 2, toks[1][2]), body |-> Entries(toks, mid + 1, toks[mid][2])]>>

\* The packets of a buffer, each optional; what cannot be one ends the list.
RECURSIVE Packets(_)
Packets(toks) ==
    IF toks = <<>> THEN <<>>
    ELSE IF toks[1][1] # "len" \/ toks[1][2] = 0 \/ toks[1][2] >= Len(toks) THEN <<<<>>>>
    ELSE <<ParsePacket(SubSeq(toks, 2, toks[1][2] + 1))>>
         \o Packets(SubSeq(toks, toks[1][2] + 2, Len(toks)))

\* The value under a key: its tokens, optional.
Lookup(entries, key) ==
    LET at == {n \in DOMAIN entries : entries[n].key = key}
    IN IF at = {} THEN <<>> ELSE <<entries[CHOOSE n \in at : TRUE].val>>

-----------------------------------------------------------------------------
(* Properties.                                                             *)

\* The requests whose body lacks a value: SQL arguments that are neither a
\* slice, a map nor a struct, and crud options that cannot be encoded.
LacksValue(r) ==
    \/ r.req.code = "execute" /\ EncodeSQLBind(r.req.f.args) = <<>>
    \/ r.crud # <<>> /\ \E o \in DOMAIN r.crud[1].opts : r.crud[1].opts[o] = <<"bad">>

Whole == phase # "panicked" /\ \A n \in DOMAIN sent : ~LacksValue(sent[n].r)

Written == Packets(buf)

Header(p, key) == Lookup(p[1].header, <<"key", key>>)
InBody(p, key) == Lookup(p[1].body, <<"key", key>>)

DistinctKeys(entries) == \A m, n \in DOMAIN entries : entries[m].key = entries[n].key => m = n

\* What Connect and the shards write can be cut into packets again, one for
\* every request that was accepted, in their order and with their identifiers
\* and streams, whatever requests failed to pack in between.
PacketsParse ==
    /\ \A p \in ToSet(Packets(out)) : p # <<>>
    /\ Whole =>
        /\ Len(Written) = Len(sent)
        /\ \A n \in DOMAIN sent :
            LET p == Written[n] IN
            /\ p # <<>> /\ DistinctKeys(p[1].header) /\ DistinctKeys(p[1].body)
            /\ Header(p, "Code") = <<<<S(sent[n].r.req.code)>>>>
            /\ Header(p, "Sync") = <<<<U(sent[n].id)>>>>
            /\ Header(p, "StreamId") = IF sent[n].stream = NoStream THEN <<>> ELSE <<<<U(sent[n].stream)>>>>

\* The iterator of a select is the one the user asked for last, wherever in
\* the chain Iterator stood; else EQ after Key and ALL without a key, as the
\* comment on Iterator says.
IteratorAsked(setters) ==
    LET asked == {n \in DOMAIN setters : setters[n][1] = "iterator"}
    IN CASE asked # {} -> setters[Max(asked)][2]
         [] asked = {} /\ \E n \in DOMAIN setters : setters[n][1] = "key" -> U(Iter.EQ)
         [] OTHER -> U(Iter.ALL)
IteratorAsDocumented ==
    \A n \in DOMAIN sent :
        sent[n].r.req.code = "select" /\ Whole =>
            InBody(Written[n], "Iterator") = <<<<IteratorAsked(sent[n].r.setters)>>>>

\* A request that names a space or an index is packed with the numbers the
\* server gave to that space and to an index of that very space.
NamesResolve ==
    \A n \in DOMAIN sent :
        LET f == sent[n].r.req.f IN
        "space" \in DOMAIN f /\ Whole =>
            \E s \in Rows :
                /\ f.space[1] = "str" => s.row.name = f.space[2]
                /\ InBody(Written[n], "SpaceNo") = <<<<U(s.row.id)>>>>
                /\ "index" \in DOMAIN f /\ f.index[1] = "str" =>
                    \E i \in s.indexes : /\ i.name = f.index[2]
                                         /\ InBody(Written[n], "IndexNo") = <<<<U(i.id)>>>>

\* The options of crud.get and crud.select that reach the server under the
\* name of another one, or not at all.
Misplaced ==
    [n \in {"crud.get", "crud.select"} |->
        IF n = "crud.get" THEN {"vshard_router", "fields", "bucket_id", "mode", "prefer_replica", "balance"}
        ELSE {"after", "batch_size", "force_map_call", "fullscan"}]

\* The options in the packet: pairs of a name and of the option meant by the value.
Arrived(p) ==
    LET toks == InBody(p, "Tuple")[1]
    IN {<<toks[n][2], toks[n + 1][2]>> : n \in {m \in DOMAIN toks : m < Len(toks) /\ toks[m + 1][1] = "opt"}}

\* The options of a request, but for some of them, arrive under their own names
\* and none under another.
ByName(n, lost) ==
    {a \in Arrived(Written[n]) : a[2] \notin lost} = {<<o, o>> : o \in DOMAIN sent[n].r.crud[1].opts \ lost}

\* Every option set on a crud request reaches the server under its own name,
\* and none under another; but for the ones in Misplaced.
OptionsByName ==
    \A n \in DOMAIN sent : sent[n].r.crud # <<>> /\ Whole =>
        LET m == sent[n].r.crud[1].method
        IN ByName(n, IF m \in DOMAIN Misplaced THEN Misplaced[m] ELSE {})

\* The same without the exception, as the comments on the options of crud.get
\* and crud.select say.  TLC finds it violated (README, section 3).
EveryOptionByName == \A n \in DOMAIN sent : sent[n].r.crud # <<>> /\ Whole => ByName(n, {})

\* The packets say what the users asked for, in whatever order they called the
\* setters: the iterator, the space, the index and the options.
SentAsAsked == IteratorAsDocumented /\ NamesResolve /\ OptionsByName
=============================================================================
