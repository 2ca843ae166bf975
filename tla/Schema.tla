------------------------------- MODULE Schema -------------------------------
(***************************************************************************)
(* The schema of a connection: how the rows of _vspace and _vindex become  *)
(* maps, and how requests are resolved with them.  An optional value v is  *)
(* <<v>>, and <<>> when it is absent.                                      *)
(***************************************************************************)
EXTENDS Integers, FiniteSetsExt, SequencesExt

\* A row of _vspace: identifier, name, flags (their msgpack kind and whether
\* they say "temporary") and the names of the fields, "" for none.
\* Space.DecodeMsgpack, with Field.DecodeMsgpack: flags must be a string or a map.
DecodeSpace(row) ==
    IF row.flags.kind \notin {"absent", "string", "map"} THEN <<>>
    ELSE <<[Id |-> row.id, Name |-> row.name,
            Temporary |-> row.flags.kind # "absent" /\ row.flags.temporary,
            Fields |-> {[Id |-> n - 1, Name |-> row.format[n]] :
                           n \in {m \in DOMAIN row.format : row.format[m] # ""}}]>>

\* Without the flag an index is unique, see the comment on issue 2060.
UniqueOf(opts) == IF opts.kind = "uint" THEN opts.val > 0 ELSE opts.unique # <<FALSE>>

\* A row of _vindex; its parts are maps, arrays, or in the old format numbers.
\* Index.DecodeMsgpack.
DecodeIndex(row) ==
    IF row.parts \notin {"maps", "arrays", "numbers"} THEN <<>>
    ELSE <<[Id |-> row.id, SpaceId |-> row.space, Name |-> row.name, Unique |-> UniqueOf(row.opts)]>>

\* The decoder of a whole answer: one bad row and the load fails.
DecodeRows(Decode(_), rows) ==
    IF \E r \in rows : Decode(r) = <<>> THEN <<>> ELSE <<{Decode(r)[1] : r \in rows}>>

\* loadSchema after the first select: the maps SpacesById and Spaces.
SpacesOf(rows) == DecodeRows(DecodeSpace, rows)

\* After the second: SpacesById[index.SpaceId] must be there.
Indexed(spaces, indexes) == \A i \in indexes : \E s \in spaces : s.Id = i.SpaceId

MakeSchema(spaces, indexes) == [spaces |-> spaces, indexes |-> indexes]

\* Mutant: an index is looked up in any space.
IndexesNot(schema, spaceNo) == schema.indexes

\* space.Indexes
Indexes(schema, spaceNo) == {i \in schema.indexes : i.SpaceId = spaceNo}

Unresolved == <<>>

\* The first half of ResolveSpaceIndex; a parameter is a name, a number of any
\* of Go's integer types, or an object with its number.  schema is optional.
ResolveSpace(schema, s) ==
    CASE s.by = "number" -> <<s.no>>
      [] s.by = "name" ->
            IF schema = <<>> THEN Unresolved
            ELSE SetToSeq({sp.Id : sp \in {x \in schema[1].spaces : x.Name = s.name}})

\* The second half; no index is index 0.
ResolveIndex(schema, spaceNo, i) ==
    CASE i.by = "none" -> <<0>>
      [] i.by = "number" -> <<i.no>>
      [] i.by = "name" ->
            IF schema = <<>> \/ ~\E s \in schema[1].spaces : s.Id = spaceNo THEN Unresolved
            ELSE LET found == {x \in Indexes(schema[1], spaceNo) : x.Name = i.name}
                 IN IF found = {} THEN Unresolved ELSE <<(CHOOSE x \in found : TRUE).Id>>

\* Both halves panic on a parameter of another type; the second one is not
\* reached when the space is not there.
ResolvePanics(schema, s, i) ==
    s.by \notin {"name", "number"} \/ (ResolveSpace(schema, s) # Unresolved /\ i.by = "other")

\* ResolveSpaceIndex, when it returns: both numbers or an error.
ResolveSpaceIndex(schema, s, i) ==
    LET space == ResolveSpace(schema, s)
        index == IF space = Unresolved THEN Unresolved ELSE ResolveIndex(schema, space[1], i)
    IN IF index = Unresolved THEN Unresolved ELSE <<space[1], index[1]>>
=============================================================================
