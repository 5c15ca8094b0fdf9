---------------------------- MODULE MCMpAccessor ----------------------------
EXTENDS MpAccessor

CONSTANTS z1, z2

\* Key names.
a == 97
b == 98
c == 99
d == 100
e == 101
f == 102
l == 108

Entries(kvs) == MpMap(FlattenSeq([i \in DOMAIN kvs |-> <<MpStr(kvs[i][1]), kvs[i][2]>>]))

\* {}, {a:{b:{c:1,d:2},e:3},f:4}, {a:{b:1,c:2}}, {a:{c:1},f:4},
\* {a:{b:1,l:[1,{b:2}]}} and {f:4}; and two records that are no map, the
\* integer 0 and the array ["a", 1].
MCRecords ==
    { Entries(<<>>), MpInt(0), MpArray(<<MpStr(a), MpInt(1)>>),
      Entries(<< <<a, Entries(<< <<b, Entries(<< <<c, MpInt(1)>>, <<d, MpInt(2)>> >>)>>,
                                 <<e, MpInt(3)>> >>)>>,
                 <<f, MpInt(4)>> >>),
      Entries(<< <<a, Entries(<< <<b, MpInt(1)>>, <<c, MpInt(2)>> >>)>> >>),
      Entries(<< <<a, Entries(<< <<c, MpInt(1)>> >>)>>, <<f, MpInt(4)>> >>),
      Entries(<< <<a, Entries(<< <<b, MpInt(1)>>,
                                 <<l, MpArray(<<MpInt(1), Entries(<< <<b, MpInt(2)>> >>)>>)>> >>)>> >>),
      Entries(<< <<f, MpInt(4)>> >>) }

\* No pattern, a.b.c, a.b and f, a.b and a.c, f, a and a.b, and e, which is
\* no top-level key of any record.
MCPatternLists ==
    { <<>>, << <<a, b, c>> >>, << <<a, b>>, <<f>> >>, << <<a, b>>, <<a, c>> >>,
      << <<f>> >>, << <<a>>, <<a, b>> >>, << <<e>> >> }

\* Lists in which no two patterns begin with the same key.
MCAnchoredLists == { << <<a, b, c>> >>, << <<a, b>>, <<f>> >>, << <<f>> >> }

MCZones   == {z1, z2}
MCOneZone == {z1}

=============================================================================
