------------------------------ MODULE MpHeader ------------------------------
(***************************************************************************)
(* The msgpack helpers of src/flb_mp.c as operators on a byte buffer: the  *)
(* header cursor (flb_mp_map_header_init / _append / _end and their array  *)
(* twins), the in-place header patch (flb_mp_set_map_header_size,          *)
(* flb_mp_set_array_header_size) and flb_mp_count.                         *)
(*                                                                         *)
(* A buffer is a sequence of bytes.  Offsets are the code's, counted from  *)
(* 0: the byte at offset o is buf[o + 1].  The subset of msgpack that is   *)
(* modelled: positive fixint, fixstr of one character, and the three       *)
(* header forms of maps and of arrays.  What msgpack-c and mpack do        *)
(* (pack a header, pack an object, unpack) follows the msgpack format.     *)
(***************************************************************************)
EXTENDS Integers, Sequences, SequencesExt, Bitwise

-----------------------------------------------------------------------------
(* Objects: msgpack_object, with ptr the children, for a map key and value *)
(* in turn                                                                 *)

FLB_MP_MAP   == "map"
FLB_MP_ARRAY == "array"

MpInt(v)      == [type |-> "int", n |-> v, ptr |-> <<>>]
MpStr(c)      == [type |-> "str", n |-> c, ptr |-> <<>>]
MpMap(kvs)    == [type |-> FLB_MP_MAP, n |-> Len(kvs) \div 2, ptr |-> kvs]
MpArray(objs) == [type |-> FLB_MP_ARRAY, n |-> Len(objs), ptr |-> objs]

IsContainer(o) == o.type \in {FLB_MP_MAP, FLB_MP_ARRAY}

\* Children a header of this type announces for n entries.
Arity(type, n) == IF type = FLB_MP_MAP THEN 2 * n ELSE n

-----------------------------------------------------------------------------
(* Bytes *)

\* _msgpack_store16 / _msgpack_store32 of the casts (uint16_t) d and
\* (uint32_t) d, big-endian.  An int that is not negative is its own uint32_t.
pack_uint16(d) == <<(d % 2^16) \div 2^8, d % 2^8>>
pack_uint32(d) == <<d \div 2^24, (d \div 2^16) % 2^8, (d \div 2^8) % 2^8, d % 2^8>>

\* The buffer with the bytes from offset off on replaced by bs.
Store(buf, off, bs) ==
    [k \in DOMAIN buf |->
        IF k - off \in DOMAIN bs THEN bs[k - off] ELSE buf[k]]

\* The tag bytes of the header forms: fixmap 1000xxxx, map16, map32, and
\* fixarray 1001xxxx, array16, array32.
Fix(type) == IF type = FLB_MP_MAP THEN 8 ELSE 9
Tag16(type) == IF type = FLB_MP_MAP THEN 222 ELSE 220
Tag32(type) == IF type = FLB_MP_MAP THEN 223 ELSE 221

\* msgpack_pack_map(n) and msgpack_pack_array(n): the shortest header form
\* that holds n.
msgpack_pack_header(type, n) ==
    CASE n < 16   -> <<Fix(type) * 16 + n>>
      [] n < 2^16 -> <<Tag16(type)>> \o pack_uint16(n)
      [] OTHER    -> <<Tag32(type)>> \o pack_uint32(n)

\* msgpack_pack_object(): an object in its shortest encoding.
RECURSIVE msgpack_pack_object(_)
msgpack_pack_object(o) ==
    CASE o.type = "int" -> <<o.n>>
      [] o.type = "str" -> <<161, o.n>>
      [] OTHER -> msgpack_pack_header(o.type, o.n) \o
                  FlattenSeq([k \in DOMAIN o.ptr |-> msgpack_pack_object(o.ptr[k])])

-----------------------------------------------------------------------------
(* The decoder: what a reader of the format finds in a buffer *)

Malformed == [ok |-> FALSE, obj |-> MpInt(0), objs |-> <<>>, rest |-> <<>>]

\* The count a header at the head of b announces, -1 if b does not begin
\* with a whole header of this type.
HeaderCount(type, b) ==
    CASE b = <<>> -> -1
      [] b[1] \div 16 = Fix(type) -> b[1] % 16
      [] b[1] = Tag16(type) /\ Len(b) >= 3 -> b[2] * 2^8 + b[3]
      [] b[1] = Tag32(type) /\ Len(b) >= 5 /\ b[2] < 2^7 ->
             b[2] * 2^24 + b[3] * 2^16 + b[4] * 2^8 + b[5]
      [] OTHER -> -1

HeaderLen(b) ==
    CASE b[1] \in {220, 222} -> 3
      [] b[1] \in {221, 223} -> 5
      [] OTHER -> 1

RECURSIVE mp_unpack(_), mp_unpack_n(_, _)

\* The first object of b and the bytes after it.
mp_unpack(b) ==
    LET container(type) ==
            LET r == mp_unpack_n(Arity(type, HeaderCount(type, b)),
                                 SubSeq(b, HeaderLen(b) + 1, Len(b)))
            IN  [r EXCEPT !.obj = [type |-> type, ptr |-> r.objs,
                                   n |-> HeaderCount(type, b)]]
    IN  CASE b = <<>> -> Malformed
          [] b[1] < 128 -> [Malformed EXCEPT !.ok = TRUE, !.obj = MpInt(b[1]),
                                              !.rest = Tail(b)]
          [] b[1] = 161 /\ Len(b) >= 2 ->
                 [Malformed EXCEPT !.ok = TRUE, !.obj = MpStr(b[2]),
                                   !.rest = SubSeq(b, 3, Len(b))]
          [] HeaderCount(FLB_MP_MAP, b) >= 0   -> container(FLB_MP_MAP)
          [] HeaderCount(FLB_MP_ARRAY, b) >= 0 -> container(FLB_MP_ARRAY)
          [] OTHER -> Malformed

\* The first n objects of b and the bytes after them.
mp_unpack_n(n, b) ==
    IF n = 0 THEN [Malformed EXCEPT !.ok = TRUE, !.rest = b]
    ELSE LET first == mp_unpack(b)
             more  == mp_unpack_n(n - 1, first.rest)
         IN  IF first.ok /\ more.ok
             THEN [more EXCEPT !.objs = <<first.obj>> \o @]
             ELSE Malformed

\* b is exactly one well-formed object.
Decodes(b) == mp_unpack(b).ok /\ mp_unpack(b).rest = <<>>

\* flb_mp_count(): the objects of a buffer, one after the other; the reader
\* stops at an object it cannot read, which is counted.
RECURSIVE flb_mp_count(_)
flb_mp_count(data) ==
    CASE data = <<>>         -> 0
      [] ~mp_unpack(data).ok -> 1
      [] OTHER               -> 1 + flb_mp_count(mp_unpack(data).rest)

-----------------------------------------------------------------------------
(* The header patch *)

fix_header_unmasked(type, size) == Fix(type) * 16 + size

\* The byte both patches store over a fixmap or fixarray tag:
\* (uint8_t) 0x8 << 4 | ((uint8_t) size).
fix_header(type, size) == (Fix(type) * 16) | (size % 2^8)

mp_set_header_size_at_tag(buf, off, size, type) ==
    LET h == buf[off + 1]
    IN  CASE h \div 16 = Fix(type) -> Store(buf, off, <<fix_header(type, size)>>)
          [] h = Tag16(type)       -> Store(buf, off, pack_uint16(size))
          [] h = Tag32(type)       -> Store(buf, off, pack_uint32(size))
          [] OTHER                 -> buf

\* flb_mp_set_map_header_size() and flb_mp_set_array_header_size(), on the
\* header at offset off of buf: the count is stored in the form the header
\* has, and a header of another type is left alone.
mp_set_header_size(buf, off, size, type) ==
    LET h == buf[off + 1]
    IN  CASE h \div 16 = Fix(type) -> Store(buf, off, <<fix_header(type, size)>>)
          [] h = Tag16(type)       -> Store(buf, off + 1, pack_uint16(size))
          [] h = Tag32(type)       -> Store(buf, off + 1, pack_uint32(size))
          [] OTHER                 -> buf

flb_mp_set_map_header_size(buf, off, size) ==
    mp_set_header_size(buf, off, size, FLB_MP_MAP)

flb_mp_set_array_header_size(buf, off, size) ==
    mp_set_header_size(buf, off, size, FLB_MP_ARRAY)

-----------------------------------------------------------------------------
(* The header cursor: struct flb_mp_map_header, without the pointer to the *)
(* buffer it writes to                                                     *)

mp_header_type_init_late(sbuf) == [entries |-> 0, offset |-> Len(sbuf) + 1]

mp_header_type_init_last(sbuf) == [entries |-> 0, offset |-> Len(sbuf) - 1]

\* mp_header_type_init(): no entries, and the offset of the next byte of the
\* buffer, where the header is about to be written.
mp_header_type_init(sbuf) == [entries |-> 0, offset |-> Len(sbuf)]

\* flb_mp_map_header_init() and flb_mp_array_header_init(): the cursor, and
\* the buffer after a header for 65536 entries was packed, which msgpack-c
\* writes in the 32-bit form.
flb_mp_map_header_init(sbuf) ==
    [mh   |-> mp_header_type_init(sbuf),
     sbuf |-> sbuf \o msgpack_pack_header(FLB_MP_MAP, 65536)]

flb_mp_array_header_init(sbuf) ==
    [mh   |-> mp_header_type_init(sbuf),
     sbuf |-> sbuf \o msgpack_pack_header(FLB_MP_ARRAY, 65536)]

flb_mp_header_init(type, sbuf) ==
    IF type = FLB_MP_MAP THEN flb_mp_map_header_init(sbuf)
                         ELSE flb_mp_array_header_init(sbuf)

\* flb_mp_map_header_append() and flb_mp_array_header_append().
flb_mp_header_append(mh) == [mh EXCEPT !.entries = @ + 1]

\* flb_mp_map_header_end() and flb_mp_array_header_end(): the buffer with the
\* cursor's count stored in the header at the cursor's offset.
flb_mp_map_header_end(mh, sbuf) ==
    flb_mp_set_map_header_size(sbuf, mh.offset, mh.entries)

flb_mp_array_header_end(mh, sbuf) ==
    flb_mp_set_array_header_size(sbuf, mh.offset, mh.entries)

flb_mp_header_end(type, mh, sbuf) ==
    IF type = FLB_MP_MAP THEN flb_mp_map_header_end(mh, sbuf)
                         ELSE flb_mp_array_header_end(mh, sbuf)

=============================================================================
