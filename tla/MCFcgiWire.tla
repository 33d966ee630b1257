------------------------------ MODULE MCFcgiWire ------------------------------
(***************************************************************************)
(* FcgiWire for TLC: the records of a short request, and some that the     *)
(* library cannot read or refuses.  The content of names, values and       *)
(* bodies is the byte 1, the version of a header.                          *)
(***************************************************************************)
EXTENDS FcgiWire, SequencesExt

Text(n) == [i \in 1..n |-> 1]

\* Pairs with lengths of one byte, and of four, as the web server writes those
\* above 127 and may write others.
Pair(p) == <<p[1], p[2]>> \o Text(p[1] + p[2])

WidePair(p) == <<p[1], 128, 0, 0, p[2]>> \o Text(p[1] + p[2])

Body(ps) == FlattenSeq([i \in DOMAIN ps |-> Pair(ps[i])])

Rec(type, rid, body, psz) ==
    [type |-> type, rid |-> rid, body |-> body, psz |-> psz, pairs |-> <<>>]

RecOf(type, rid, ps, psz) ==
    [type |-> type, rid |-> rid, body |-> Body(ps), psz |-> psz, pairs |-> ps]

RequestRecords ==
    { Rec(BEGIN_REQUEST, 1, Text(8), 0),
      RecOf(PARAMS, 1, <<<<1, 2>>, <<3, 0>>>>, 2),
      Rec(STDIN, 1, Text(3), 1),
      Rec(STDIN, 1, <<>>, 0),
      Rec(STDIN, 1, <<>>, 3),
      Rec(ABORT_REQUEST, 1, <<>>, 0),
      RecOf(GET_VALUES, 0, <<<<2, 0>>, <<1, 1>>>>, 0) }

\* A result that only an application sends, and the library accepts; ...
StrayRecords == { RecOf(GET_VALUES_RESULT, 0, <<>>, 0) }

\* an abort with a payload, an id with a management record, no id, a type there
\* is no record for, one that only an application sends, ...
RefusedRecords ==
    { Rec(ABORT_REQUEST, 1, Text(1), 0),
      RecOf(GET_VALUES, 1, <<>>, 0),
      Rec(STDIN, 0, <<>>, 0),
      Rec(STDOUT, 1, Text(1), 0) }

\* ... the one that aborts the process, a length of four bytes, and the first
\* half of a pair.
UnreadableRecords ==
    { Rec(UNKNOWN_TYPE, 0, Text(8), 0),
      [RecOf(PARAMS, 1, <<<<1, 2>>>>, 0) EXCEPT !.body = WidePair(<<1, 2>>)],
      [RecOf(PARAMS, 1, <<<<2, 2>>>>, 0) EXCEPT !.body = <<2, 2, 1>>] }

AllRecords == RequestRecords \cup StrayRecords \cup RefusedRecords \cup UnreadableRecords

=============================================================================
