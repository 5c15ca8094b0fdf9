----------------------------- MODULE MpAccessor -----------------------------
(***************************************************************************)
(* The accessor of src/flb_mp.c: flb_mp_accessor_create(),                 *)
(* flb_mp_accessor_keys_remove() and flb_mp_accessor_destroy(), for one    *)
(* context that is used for a series of records, the way a filter or an    *)
(* output uses it.                                                         *)
(*                                                                         *)
(* A record is an object of MpHeader.  The code compares the addresses of  *)
(* msgpack_object's, so the model has addresses: the zone the record was   *)
(* unpacked into, and the place of the object in the record.  A pattern is *)
(* the sequence of key names of a record accessor.  What the record        *)
(* accessor does (flb_ra_get_kv_pair) is not part of this source and       *)
(* follows the design: a pattern walks nested maps by key name.            *)
(***************************************************************************)
EXTENDS MpHeader, FiniteSets

CONSTANTS
    PatternLists,  \* the slists of patterns a context is created from
    Records,       \* the objects passed to flb_mp_accessor_keys_remove
    Zones,         \* the memory a record may be unpacked into
    MaxCalls,      \* bound: calls of flb_mp_accessor_keys_remove
    NULL

VARIABLES
    mpa,      \* struct flb_mp_accessor: ra_list and matches, or NULL
    out_buf,  \* the caller's *out_buf
    last,     \* the last call on this context: its map, zone and return value
    calls     \* calls made so far

vars == <<mpa, out_buf, last, calls>>

FLB_TRUE  == TRUE
FLB_FALSE == FALSE

-----------------------------------------------------------------------------
(* Addresses of the objects of an unpacked record *)

\* The address of the record itself, and of the key or the value of entry i
\* of the container at address a.
Root(zone) == [zone |-> zone, at |-> <<>>, side |-> "val"]
Child(a, i, side) == [zone |-> a.zone, at |-> Append(a.at, i), side |-> side]

\* The object at the place `at` of o.
RECURSIVE At(_, _, _)
At(o, at, side) ==
    LET i == Head(at)
        child(s) == IF o.type = FLB_MP_ARRAY THEN o.ptr[i]
                    ELSE o.ptr[IF s = "key" THEN 2 * i - 1 ELSE 2 * i]
    IN  CASE at = <<>>   -> o
          [] Len(at) = 1 -> child(side)
          [] OTHER       -> At(child("val"), Tail(at), side)

\* *a, for an address a of the record map.
Deref(map, a) == At(map, a.at, a.side)

-----------------------------------------------------------------------------
(* The record accessor *)

\* The entries a pattern passes through in map, outermost first; none if the
\* pattern does not match.
RECURSIVE ra_path(_, _)
ra_path(ra, map) ==
    LET hits == IF map.type = FLB_MP_MAP
                THEN {i \in 1 .. map.n : map.ptr[2 * i - 1] = MpStr(Head(ra))}
                ELSE {}
        i    == CHOOSE h \in hits : TRUE
        rest == ra_path(Tail(ra), map.ptr[2 * i])
    IN  CASE hits = {}    -> <<>>
          [] Len(ra) = 1  -> <<i>>
          [] rest = <<>>  -> <<>>
          [] OTHER        -> <<i>> \o rest

\* flb_ra_get_kv_pair(): 0 and the addresses of the top-level key the match
\* began at, of the innermost key and of its value, or -1.
flb_ra_get_kv_pair(ra, map, zone) ==
    LET at == ra_path(ra, map)
        a  == [zone |-> zone, at |-> at, side |-> "key"]
    IN  IF at = <<>> THEN [ret |-> -1]
        ELSE [ret |-> 0, s_key |-> [a EXCEPT !.at = <<Head(at)>>],
              o_key |-> a, o_val |-> [a EXCEPT !.side = "val"]]

-----------------------------------------------------------------------------
(* The context *)

\* An entry of the table as flb_calloc() leaves it.
NoMatch == [matched |-> FLB_FALSE, start_key |-> NULL, key |-> NULL, val |-> NULL]

\* The addresses of keys, or of values, of a record in some zone.
Address(side) == [zone : Zones, at : Seq(Nat), side : {side}]

\* flb_mp_accessor_create(): a context with one record accessor for each
\* pattern, in the order of the slist, and a zeroed table of as many entries;
\* NULL when an allocation or flb_ra_create() fails, everything being freed.
flb_mp_accessor_create(slist_patterns) ==
    /\ mpa = NULL
    /\ mpa' \in {NULL, [ra_list |-> slist_patterns,
                        matches |-> [i \in DOMAIN slist_patterns |-> NoMatch]]}
    /\ last' = NULL
    /\ UNCHANGED <<out_buf, calls>>

\* flb_mp_accessor_destroy(): nothing to do for NULL.
flb_mp_accessor_destroy ==
    /\ mpa' = NULL
    /\ UNCHANGED <<out_buf, last, calls>>

-----------------------------------------------------------------------------
(* flb_mp_accessor_keys_remove *)

matches_table_swapped(ctx, map, zone) ==
    [i \in DOMAIN ctx.ra_list |->
        LET r == flb_ra_get_kv_pair(ctx.ra_list[i], map, zone)
        IN  IF r.ret = 0
            THEN [matched |-> FLB_TRUE, start_key |-> r.s_key,
                  key |-> r.o_val, val |-> r.o_key]
            ELSE ctx.matches[i]]

\* The table after the rules were applied to the map: the entry of a rule
\* that matched is written, the entry of a rule that did not is not touched.
matches_table(ctx, map, zone) ==
    [i \in DOMAIN ctx.ra_list |->
        LET r == flb_ra_get_kv_pair(ctx.ra_list[i], map, zone)
        IN  IF r.ret = 0
            THEN [matched |-> FLB_TRUE, start_key |-> r.s_key,
                  key |-> r.o_key, val |-> r.o_val]
            ELSE ctx.matches[i]]

matches_flagged(ctx, map, zone) ==
    Cardinality({i \in DOMAIN ctx.ra_list : matches_table(ctx, map, zone)[i].matched})

\* The counter matches: the rules that matched this map.
matches_count(ctx, map, zone) ==
    Cardinality({i \in DOMAIN ctx.ra_list :
                    flb_ra_get_kv_pair(ctx.ra_list[i], map, zone).ret = 0})

\* accessor_key_find_match(): the first entry of the table that is flagged
\* and whose start_key is this key, or -1.
accessor_key_find_match(table, key) ==
    LET ids == {i \in DOMAIN table : table[i].matched /\ table[i].start_key = key}
    IN  IF ids = {} THEN -1 ELSE Min(ids)

sub_pack_skips_anchor(match, key, val) == match.start_key \in {key, val}

\* The first test of accessor_sub_pack(): the object is the key the match
\* ends at.
sub_pack_skips(match, key, val) == match.key \in {key, val}

header_append_always(mh, ret) == flb_mp_header_append(mh)

\* flb_mp_map_header_append() or flb_mp_array_header_append() if the entry
\* was packed.
header_append_if(mh, ret) == IF ret = FLB_TRUE THEN flb_mp_header_append(mh) ELSE mh

\* accessor_sub_pack(): the buffer with the key, if there is one, and the
\* value packed, maps and arrays entry by entry with a header cursor each;
\* nothing is packed for the key the match ends at.
RECURSIVE accessor_sub_pack(_, _, _, _, _)
accessor_sub_pack(match, map, key, val, sbuf) ==
    LET o     == Deref(map, val)
        keyed == IF key = NULL THEN sbuf
                 ELSE sbuf \o msgpack_pack_object(Deref(map, key))
        open  == flb_mp_header_init(o.type, keyed)
        entry(st, i) ==
            LET k == IF o.type = FLB_MP_MAP THEN Child(val, i, "key") ELSE NULL
                r == accessor_sub_pack(match, map, k, Child(val, i, "val"), st.sbuf)
            IN  [mh |-> header_append_if(st.mh, r.ret), sbuf |-> r.sbuf]
        done  == FoldLeft(entry, open, [i \in 1 .. o.n |-> i])
    IN  CASE sub_pack_skips(match, key, val) -> [ret |-> FLB_FALSE, sbuf |-> sbuf]
          [] IsContainer(o) ->
                 [ret |-> FLB_TRUE, sbuf |-> flb_mp_header_end(o.type, done.mh, done.sbuf)]
          [] OTHER -> [ret |-> FLB_TRUE, sbuf |-> keyed \o msgpack_pack_object(o)]

\* The outgoing buffer flb_mp_accessor_keys_remove() composes: a map with
\* the entries of the record, those whose key starts a match packed by
\* accessor_sub_pack() and the others whole.
keys_remove_pack(table, map, zone) ==
    LET entry(st, i) ==
            LET key == Child(Root(zone), i, "key")
                val == Child(Root(zone), i, "val")
                id  == accessor_key_find_match(table, key)
                r   == IF id = -1
                       THEN [ret |-> FLB_TRUE,
                             sbuf |-> st.sbuf \o msgpack_pack_object(Deref(map, key))
                                              \o msgpack_pack_object(Deref(map, val))]
                       ELSE accessor_sub_pack(table[id], map, key, val, st.sbuf)
            IN  [mh |-> header_append_if(st.mh, r.ret), sbuf |-> r.sbuf]
        done == FoldLeft(entry, flb_mp_map_header_init(<<>>), [i \in 1 .. map.n |-> i])
    IN  flb_mp_map_header_end(done.mh, done.sbuf)

\* map->via.map.size, read without a look at map->type: the member that
\* lies at the same place in the union, the size of a map, an array or a
\* string (one byte here), the low 32 bits of an integer (every integer of
\* the model is below 2^31).
via_map_size(o) == IF o.type = "str" THEN 1 ELSE o.n

\* flb_mp_accessor_keys_remove() on a record unpacked into a zone.
flb_mp_accessor_keys_remove(map, zone) ==
    /\ mpa # NULL
    /\ calls < MaxCalls
    /\ calls' = calls + 1
    /\ \/ /\ via_map_size(map) = 0
          /\ last' = [map |-> map, zone |-> zone, ret |-> FLB_FALSE]
          /\ UNCHANGED <<mpa, out_buf>>
       \/ /\ via_map_size(map) # 0
          /\ mpa' = [mpa EXCEPT !.matches = matches_table(mpa, map, zone)]
          /\ \/ /\ matches_count(mpa, map, zone) = 0
                /\ last' = [map |-> map, zone |-> zone, ret |-> FLB_FALSE]
                /\ UNCHANGED out_buf
             \/ /\ matches_count(mpa, map, zone) # 0
                /\ last' = [map |-> map, zone |-> zone, ret |-> FLB_TRUE]
                /\ out_buf' = keys_remove_pack(mpa'.matches, map, zone)

-----------------------------------------------------------------------------

Init ==
    /\ mpa = NULL
    /\ out_buf = <<>>
    /\ last = NULL
    /\ calls = 0

Next ==
    \/ \E slist_patterns \in PatternLists : flb_mp_accessor_create(slist_patterns)
    \/ \E map \in Records, zone \in Zones : flb_mp_accessor_keys_remove(map, zone)
    \/ flb_mp_accessor_destroy

Spec == Init /\ [][Next]_vars

-----------------------------------------------------------------------------
(* Properties *)

TypeOK ==
    /\ mpa = NULL \/ /\ mpa.ra_list \in PatternLists
                     /\ DOMAIN mpa.matches = DOMAIN mpa.ra_list
                     /\ \A i \in DOMAIN mpa.matches :
                            LET m == mpa.matches[i]
                            IN  \/ m = NoMatch
                                \/ /\ m.matched = FLB_TRUE
                                   /\ m.start_key \in Address("key")
                                   /\ m.key \in Address("key")
                                   /\ m.val \in Address("val")
    /\ out_buf \in Seq(0 .. 255)
    /\ last = NULL \/ last \in [map : Records, zone : Zones, ret : BOOLEAN]
    /\ calls \in 0 .. MaxCalls

\* The patterns of the context that match the record of the last call.
Matching == {i \in DOMAIN mpa.ra_list : ra_path(mpa.ra_list[i], last.map) # <<>>}

\* The call of flb_mp_accessor_keys_remove that was made last on the context.
Called == mpa # NULL /\ last # NULL

\* The record o without the entries that the patterns of P name; a pattern
\* walks maps only.
RECURSIVE Prune(_, _)
Prune(o, P) ==
    LET named(i) == \E p \in P : Len(p) = 1 /\ o.ptr[2 * i - 1] = MpStr(p[1])
        below(i) == {Tail(p) : p \in {q \in P : Len(q) > 1 /\ o.ptr[2 * i - 1] = MpStr(q[1])}}
        entry(i) == IF named(i) THEN <<>>
                    ELSE <<o.ptr[2 * i - 1], Prune(o.ptr[2 * i], below(i))>>
    IN  IF o.type # FLB_MP_MAP \/ P = {} THEN o
        ELSE MpMap(FlattenSeq([i \in 1 .. o.n |-> entry(i)]))

\* The return value of flb_mp_accessor_keys_remove tells whether the map was
\* modified: FLB_TRUE exactly when the record without the entries the
\* patterns name is another record than the one passed in, whatever the
\* table of matches still holds of the records before it.
ReturnTellsModified ==
    (Called /\ last.map.type = FLB_MP_MAP) =>
        (last.ret = FLB_TRUE <=> Prune(last.map, Range(mpa.ra_list)) # last.map)

\* The comment above flb_mp_accessor_keys_remove promises -1 on error, and
\* spec.md 4.2 an error for input that is not a map at the top: such a record
\* is answered with neither FLB_FALSE nor FLB_TRUE.
BadRecordRefused ==
    (Called /\ last.map.type # FLB_MP_MAP) => last.ret \notin {FLB_FALSE, FLB_TRUE}

\* The buffer flb_mp_accessor_keys_remove hands out is one map to a reader,
\* every map and array in it announcing the entries that follow, whichever
\* entries accessor_sub_pack left out and however deep.
OutputWellFormed ==
    (Called /\ last.ret = FLB_TRUE) =>
        /\ Decodes(out_buf)
        /\ mp_unpack(out_buf).obj.type = FLB_MP_MAP

\* Every flagged entry of the table was written for the record of the last
\* call.
Fresh == \A i \in DOMAIN mpa.ra_list : mpa.matches[i].matched => i \in Matching

\* No two matching patterns begin at the same top-level key.
OneMatchPerAnchor ==
    \A i, j \in Matching : mpa.ra_list[i][1] = mpa.ra_list[j][1] => i = j

\* Removal correctness: the buffer decodes to the record without exactly
\* the entries the patterns name, in the record's order.
Removed == mp_unpack(out_buf).obj = Prune(last.map, Range(mpa.ra_list))

\* Removal correctness of flb_mp_accessor_keys_remove, as far as the code
\* keeps it: when the table holds nothing of an earlier record and no two
\* matching patterns share their top-level key.
RemovalCorrectWhenFresh ==
    (Called /\ last.ret = FLB_TRUE /\ Fresh /\ OneMatchPerAnchor) => Removed

\* Removal correctness as the design states it, for every record and every
\* list of patterns.
RemovalCorrect ==
    (Called /\ last.ret = FLB_TRUE) => Removed

=============================================================================
