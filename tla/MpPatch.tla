------------------------------- MODULE MpPatch -------------------------------
(***************************************************************************)
(* flb_mp_set_map_header_size() and flb_mp_set_array_header_size() of      *)
(* src/flb_mp.c called on a header of any form, as their callers outside   *)
(* the header cursor do: a header packed by msgpack-c for some count, the  *)
(* bytes that follow it, and a series of patches.                          *)
(***************************************************************************)
EXTENDS MpHeader

CONSTANTS
    Counts,   \* the counts headers are packed for and patched to
    Payload   \* the bytes that follow the header in the buffer

VARIABLES
    buf,    \* the buffer: the header at offset 0, then the payload
    type,   \* the function last called: FLB_MP_MAP for the map patch
    size    \* the count it was called with

vars == <<buf, type, size>>

\* msgpack_pack_map(n) or msgpack_pack_array(n), then the payload.
Init ==
    \E t \in {FLB_MP_MAP, FLB_MP_ARRAY}, n \in Counts :
        /\ buf  = msgpack_pack_header(t, n) \o Payload
        /\ type = t
        /\ size = n

\* flb_mp_set_map_header_size(buf, n) or flb_mp_set_array_header_size(buf, n).
set_header_size(t, n) ==
    /\ buf'  = mp_set_header_size(buf, 0, n, t)
    /\ type' = t
    /\ size' = n

Next == \E t \in {FLB_MP_MAP, FLB_MP_ARRAY}, n \in Counts : set_header_size(t, n)

Spec == Init /\ [][Next]_vars

-----------------------------------------------------------------------------
(* Properties *)

TypeOK ==
    /\ buf \in Seq(0 .. 255)
    /\ type \in {FLB_MP_MAP, FLB_MP_ARRAY}
    /\ size \in Counts

\* The counts the header form at the head of b has room for, when it is a
\* header of type t.
Capacity(t, b) ==
    CASE b[1] \div 16 = Fix(t) -> 16
      [] b[1] = Tag16(t)       -> 2^16
      [] b[1] = Tag32(t)       -> 2147483647
      [] OTHER                 -> 0

\* After flb_mp_set_map_header_size or flb_mp_set_array_header_size a reader
\* finds a header of the function's type announcing the count that was
\* passed exactly when the header that was there was of that type and its
\* form has room for the count.  The functions do not widen a header: a
\* count of 16 or more stored over a fixmap or fixarray spills into the tag
\* bits, and a count of 65536 or more in a 16-bit header is cut to 16 bits.
PatchStoresCountIffItFits ==
    [][(HeaderCount(type', buf') = size') <=> (size' < Capacity(type', buf))]_vars

=============================================================================
