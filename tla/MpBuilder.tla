------------------------------ MODULE MpBuilder ------------------------------
(***************************************************************************)
(* A caller of the header cursor of src/flb_mp.c, as the comment above     *)
(* mp_header_type_init() asks it to be used: initialise a map or an array, *)
(* register every entry and pack it, finalise.  Containers nest, one       *)
(* cursor each, all on one msgpack_sbuffer; a cursor may be finalised      *)
(* while containers inside it are still open.                              *)
(***************************************************************************)
EXTENDS MpHeader, FiniteSetsExt

CONSTANTS
    MaxDepth,    \* bound: cursors open at a time
    MaxEntries,  \* bound: entries registered with one cursor
    Scalars      \* the objects the caller packs as keys and values

VARIABLES
    sbuf,   \* the bytes of the msgpack_sbuffer
    stack   \* the caller's cursors, outermost first

vars == <<sbuf, stack>>

\* A cursor of the caller: the struct flb_mp_map_header, the type it was
\* initialised for, the objects the caller still has to pack for the entry it
\* registered last, and whether it was finalised.
Cursor == [type : {FLB_MP_MAP, FLB_MP_ARRAY},
           mh : [entries : 0 .. MaxEntries, offset : Nat],
           owed : 0 .. 2, ended : BOOLEAN]

\* The cursors after the caller packed one object into the innermost one.
Packed(st) == IF st = <<>> THEN st ELSE [st EXCEPT ![Len(st)].owed = @ - 1]

\* The cursors without the finalised ones that have nothing open inside.
Unwound(st) ==
    SubSeq(st, 1, Max({0} \cup {k \in DOMAIN st : ~st[k].ended}))

\* flb_mp_map_header_init() or flb_mp_array_header_init(), where an object is
\* due: at the start of the buffer, or as a key or value of an entry.
header_init(type) ==
    /\ Len(stack) < MaxDepth
    /\ \/ stack = <<>> /\ sbuf = <<>>
       \/ stack # <<>> /\ Last(stack).owed > 0
    /\ LET r == flb_mp_header_init(type, sbuf)
       IN  /\ sbuf'  = r.sbuf
           /\ stack' = Append(Packed(stack),
                              [type |-> type, mh |-> r.mh, owed |-> 0,
                               ended |-> FALSE])

\* flb_mp_map_header_append() or flb_mp_array_header_append() on the
\* innermost cursor: the caller now owes a key and a value, or an element.
header_append ==
    /\ stack # <<>>
    /\ Last(stack).owed = 0 /\ Last(stack).mh.entries < MaxEntries
    /\ stack' = [stack EXCEPT ![Len(stack)].mh = flb_mp_header_append(@),
                              ![Len(stack)].owed = Arity(Last(stack).type, 1)]
    /\ UNCHANGED sbuf

\* The caller packs a key or a value with msgpack-c.
pack(o) ==
    /\ stack # <<>> /\ Last(stack).owed > 0
    /\ sbuf'  = sbuf \o msgpack_pack_object(o)
    /\ stack' = Packed(stack)

\* flb_mp_map_header_end() or flb_mp_array_header_end() on cursor k, once
\* its last entry is under way.
header_end(k) ==
    /\ ~stack[k].ended /\ stack[k].owed = 0
    /\ sbuf'  = flb_mp_header_end(stack[k].type, stack[k].mh, sbuf)
    /\ stack' = Unwound([stack EXCEPT ![k].ended = TRUE])

Init == sbuf = <<>> /\ stack = <<>>

Next ==
    \/ \E type \in {FLB_MP_MAP, FLB_MP_ARRAY} : header_init(type)
    \/ header_append
    \/ \E o \in Scalars : pack(o)
    \/ \E k \in DOMAIN stack : header_end(k)

Spec == Init /\ [][Next]_vars

-----------------------------------------------------------------------------
(* Properties *)

TypeOK ==
    /\ sbuf \in Seq(0 .. 255)
    /\ stack \in Seq(Cursor)
    /\ Len(stack) <= MaxDepth

\* Header round-trip: once every cursor is finalised the buffer is exactly
\* one object to a reader, each header announcing the entries that follow
\* it, whatever the order in which flb_mp_map_header_end and
\* flb_mp_array_header_end were called on nested cursors; flb_mp_count
\* counts it as one.
ClosedBufferDecodes ==
    (stack = <<>> /\ sbuf # <<>>) => Decodes(sbuf) /\ flb_mp_count(sbuf) = 1

\* Finalising is an in-place store: no step moves a byte of the buffer, and
\* the only bytes a step changes are the four count bytes of a header one of
\* the cursors wrote at its offset (flb_mp_map_header_end through
\* flb_mp_set_map_header_size, and the array twins).
HeaderEndInPlace ==
    [][/\ Len(sbuf') >= Len(sbuf)
       /\ \A k \in DOMAIN sbuf :
             sbuf'[k] # sbuf[k] =>
                \E c \in DOMAIN stack :
                    k \in stack[c].mh.offset + 2 .. stack[c].mh.offset + 5]_vars

=============================================================================
