------------------------------ MODULE FcgiWire ------------------------------
(***************************************************************************)
(* The bytes of one connection: how mnfcgi_parse cuts the input into       *)
(* records while it arrives in pieces, and how mnfcgi_render lays records  *)
(* out in ctx->out.  What the handler does with a record is FcgiConn; here *)
(* a callback returns, or the record is replied to, or its request is      *)
(* answered or aborted, which rewinds both buffers.                        *)
(*                                                                         *)
(* The web server keeps the connection open, so that writes do not fail.   *)
(* Behind the last record of a request it sends nothing until it has been  *)
(* answered.  Positions in the input count from the connection's first     *)
(* byte: a rewind, which forgets what has arrived, is an advance to what   *)
(* has arrived.                                                            *)
(***************************************************************************)
EXTENDS Integers, Sequences, FiniteSetsExt

CONSTANTS
    Wire,       \* what the web server sends: [type, rid, body, psz, pairs];
                \* body as bytes, pairs as the lengths it means to send
    Stray,      \* bytes the memory behind the input may hold
    Payloads,   \* sizes of the STDOUT payloads that the application renders
    ValueLen,   \* length of a value of GET_VALUES_RESULT
    MaxSent,    \* bound: records the web server sends
    MaxOut      \* bound: records in ctx->out when the application renders

Byte == 0..255
ShortInt == 0..65535

ASSUME WireAssumption ==
    /\ Wire \subseteq [type : Byte, rid : Byte, body : Seq(Byte), psz : Byte,
                       pairs : Seq(Byte \X Byte)]
    /\ \A r \in Wire : Len(r.body) < 2^16
ASSUME StrayAssumption == Stray \subseteq Byte /\ Stray # {}
ASSUME PayloadsAssumption == Payloads \subseteq Nat /\ ValueLen \in Byte
ASSUME WireBoundAssumption == MaxSent \in Nat /\ MaxOut \in Nat

BEGIN_REQUEST == 1
ABORT_REQUEST == 2
END_REQUEST == 3
PARAMS == 4
STDIN == 5
STDOUT == 6
STDERR == 7
DATA == 8
GET_VALUES == 9
GET_VALUES_RESULT == 10
UNKNOWN_TYPE == 11

HeaderLen == 8
MaxPayload == 32768     \* MNFCGI_MAX_PAYLOAD

Management == {GET_VALUES, GET_VALUES_RESULT, UNKNOWN_TYPE}

PairTypes == {PARAMS, GET_VALUES, GET_VALUES_RESULT}

VARIABLES
    sent,       \* history: records the web server has sent
    stream,     \* their bytes
    arrived,    \* SEOD of ctx->in: bytes that have been read
    pos,        \* SPOS of ctx->in
    pc,         \* what mnfcgi_parse waits for: "header", "payload", "padding";
                \* "handle": it has returned; "refused", "closed", "aborted"
    hdr,        \* res->header: [type, rid, rsz, psz]
    pairs,      \* lengths of the names and values parsed from the payload
    parsed,     \* history: what mnfcgi_parse has returned
    out,        \* ctx->out: [type, res, bytes, n, rsz, psz], with the payload's
                \* bytes, the size its renderer returned, and the header
    answered,   \* END_REQUESTs written for the last records of requests
    early       \* history: a request was answered or aborted before its last
                \* record had been handled

input == <<arrived, pos, pc, hdr, pairs, parsed>>
vars == <<sent, stream, arrived, pos, pc, hdr, pairs, parsed, out, answered, early>>

Header == [type : Byte, rid : Nat, rsz : Nat, psz : Byte]

OutRecord == [type : 1..UNKNOWN_TYPE, res : {"ok", "error"}, bytes : Nat, n : Nat,
              rsz : ShortInt, psz : 0..7]

TypeOK ==
    /\ sent \in Seq(Wire) /\ Len(sent) <= MaxSent
    /\ stream \in Seq(Byte)
    /\ arrived \in 0..Len(stream)
    /\ pos \in Nat
    /\ pc \in {"header", "payload", "padding", "handle", "refused", "closed", "aborted"}
    /\ hdr \in Header
    /\ pairs \in Seq(Byte \X Byte)
    /\ parsed \in Seq([type : 1..UNKNOWN_TYPE, size : Nat, pairs : Seq(Byte \X Byte)])
    /\ out \in Seq(OutRecord)
    /\ answered \in Nat
    /\ early \in BOOLEAN

Init ==
    /\ sent = <<>>
    /\ stream = <<>>
    /\ arrived = 0 /\ pos = 0
    /\ pc = "header"
    /\ hdr = [type |-> 0, rid |-> 0, rsz |-> 0, psz |-> 0]
    /\ pairs = <<>> /\ parsed = <<>>
    /\ out = <<>>
    /\ answered = 0
    /\ early = FALSE

-----------------------------------------------------------------------------
(* The web server                                                          *)

Bytes(r) ==
    <<1, r.type, 0, r.rid, Len(r.body) \div 256, Len(r.body) % 256, r.psz, 0>>
    \o r.body \o [i \in 1..r.psz |-> 0]

\* The last record of a request is an empty STDIN or an ABORT_REQUEST.
LastRecord(type, size) == (type = STDIN /\ size = 0) \/ type = ABORT_REQUEST

EndsRequest(r) == LastRecord(r.type, Len(r.body))

Requests == Cardinality({i \in DOMAIN sent : EndsRequest(sent[i])})

Send ==
    /\ Len(sent) < MaxSent
    /\ early \/ Requests = answered
    /\ \E r \in Wire : sent' = Append(sent, r) /\ stream' = stream \o Bytes(r)
    /\ UNCHANGED <<input, out, answered, early>>

-----------------------------------------------------------------------------
(* mnfcgi_parse                                                            *)

Avail == arrived - pos

\* Mutant: one byte more than the header is waited for.
Needed_OneMore ==
    CASE pc = "header" -> HeaderLen + 1
      [] pc = "payload" -> hdr.rsz
      [] pc = "padding" -> hdr.psz
      [] OTHER -> 0

Needed ==
    CASE pc = "header" -> HeaderLen
      [] pc = "payload" -> hdr.rsz
      [] pc = "padding" -> hdr.psz
      [] OTHER -> 0

\* In one of the three loops.
Waiting == pc \in {"header", "payload", "padding"} /\ Avail < Needed

\* bytestream_consume_data
Consume ==
    /\ Waiting
    /\ \E n \in arrived + 1..Len(stream) : arrived' = n
    /\ UNCHANGED <<sent, stream, pos, pc, hdr, pairs, parsed, out, answered, early>>

ConsumeFails ==
    /\ Waiting
    /\ pc' = "closed"
    /\ UNCHANGED <<sent, stream, arrived, pos, hdr, pairs, parsed, out, answered, early>>

Refuse ==
    /\ pc' = "refused"
    /\ UNCHANGED <<sent, stream, arrived, pos, hdr, pairs, parsed, out, answered, early>>

\* MNFCGI_PARSE_CHAR and MNFCGI_PARSE_SHORT
Char(idx) == stream[pos + idx + 1]
Short(idx) == 256 * Char(idx) + Char(idx + 1)

HeaderArrived == pc = "header" /\ Avail >= Needed

HeaderAccepted ==
    /\ Char(0) = 1
    /\ Char(1) \in 1..UNKNOWN_TYPE
    /\ Short(2) = 0 <=> Char(1) \in Management

ParseHeader ==
    /\ HeaderArrived
    /\ HeaderAccepted
    /\ hdr' = [type |-> Char(1), rid |-> Short(2), rsz |-> Short(4), psz |-> Char(6)]
    /\ pos' = pos + HeaderLen
    /\ pc' = "payload"
    /\ pairs' = <<>>
    /\ UNCHANGED <<sent, stream, arrived, parsed, out, answered, early>>

HeaderRefused == HeaderArrived /\ ~HeaderAccepted /\ Refuse

\* mnfcgi_parse_kvp: "probe & 0x800" is never true of a byte, so that a length
\* is one byte, whatever its value.
PairSize(key, value) == 2 + key + value

\* The pairs of a payload of size bytes, and how many bytes they take; the last
\* may take bytes that follow the payload, or have not been read yet (past).
ReadPairs(size, past) ==
    LET At(n) == IF pos + n < arrived THEN Char(n) ELSE past
        from[n \in Nat] ==
            IF n >= size
            THEN [pairs |-> <<>>, nread |-> n]
            ELSE LET rest == from[n + PairSize(At(n), At(n + 1))]
                 IN  [pairs |-> <<<<At(n), At(n + 1)>>>> \o rest.pairs,
                      nread |-> rest.nread]
    IN  from[0]

\* mnfcgi_parse_payload: bytes it has moved over, -1 for an error.
Nread(past) ==
    CASE hdr.type = BEGIN_REQUEST -> 8
      [] hdr.type = ABORT_REQUEST -> 0
      [] hdr.type \in PairTypes -> ReadPairs(hdr.rsz, past).nread
      [] hdr.type \in {STDIN, DATA} -> hdr.rsz
      [] OTHER -> -1

PayloadArrived == pc = "payload" /\ Avail >= Needed

\* More than the payload may be taken: then its padding is looked for, and the
\* next record, where neither begins.
ParsePayload ==
    /\ PayloadArrived
    /\ \E past \in Stray :
          /\ Nread(past) >= hdr.rsz
          /\ pos' = pos + Nread(past)
          /\ pairs' = IF hdr.type \in PairTypes
                      THEN ReadPairs(hdr.rsz, past).pairs ELSE <<>>
    /\ pc' = "padding"
    /\ UNCHANGED <<sent, stream, arrived, hdr, parsed, out, answered, early>>

PayloadRefused ==
    /\ PayloadArrived
    /\ hdr.type # UNKNOWN_TYPE
    /\ \E past \in Stray : Nread(past) < hdr.rsz
    /\ Refuse

\* FAIL("mnfcgi_parse_payload")
PayloadAborts ==
    /\ PayloadArrived
    /\ hdr.type = UNKNOWN_TYPE
    /\ pc' = "aborted"
    /\ UNCHANGED <<sent, stream, arrived, pos, hdr, pairs, parsed, out, answered, early>>

\* Mutant: the padding is left to be read as the next header.
ParsePadding_Kept ==
    /\ pc = "padding"
    /\ Avail >= Needed
    /\ parsed' = Append(parsed, [type |-> hdr.type, size |-> hdr.rsz, pairs |-> pairs])
    /\ pc' = "handle"
    /\ UNCHANGED <<sent, stream, arrived, pos, hdr, pairs, out, answered, early>>

ParsePadding ==
    /\ pc = "padding"
    /\ Avail >= Needed
    /\ pos' = pos + hdr.psz
    /\ parsed' = Append(parsed, [type |-> hdr.type, size |-> hdr.rsz, pairs |-> pairs])
    /\ pc' = "handle"
    /\ UNCHANGED <<sent, stream, arrived, hdr, pairs, out, answered, early>>

-----------------------------------------------------------------------------
(* mnfcgi_render                                                           *)

\* Mutant: a multiple of 8 is padded, too.
Padding_Full(n) == 8 - (n % 8)

\* MNFCGI_HEADER_PADDING
Padding(n) == IF n % 8 = 0 THEN 0 ELSE 8 - (n % 8)

\* Mutant: the limit is that of the length field, one too high.
TooLarge_FieldSize(n) == n > 65536

TooLarge(n) == n > MaxPayload

\* What is in ctx->out after a payload of so many bytes, whose renderer says
\* that there are n.  A payload that is too large stays there, with the empty
\* lengths it was started with.
Rendered(type, bytes, n) ==
    IF TooLarge(n)
    THEN [type |-> type, res |-> "error", bytes |-> bytes, n |-> n, rsz |-> 0, psz |-> 0]
    ELSE [type |-> type, res |-> "ok", bytes |-> bytes, n |-> n,
          rsz |-> n % 65536, psz |-> Padding(n % 65536)]

Handling(types) == pc = "handle" /\ hdr.type \in types

\* Their records are parsed further by the application.
CallbackTypes == {BEGIN_REQUEST, PARAMS, STDIN, DATA}

\* mnfcgi_render_stdout in a callback.
RenderStdout ==
    /\ Handling(CallbackTypes)
    /\ Len(out) < MaxOut
    /\ \E n \in Payloads : out' = Append(out, Rendered(STDOUT, n, n))
    /\ UNCHANGED <<sent, stream, input, answered, early>>

\* A record as it lies in ctx->out, and as its header describes it.
Actual(r) == HeaderLen + r.bytes + r.psz
Declared(r) == HeaderLen + r.rsz + r.psz

Readable(q) == \A i \in DOMAIN q : Declared(q[i]) = Actual(q[i])

\* What is in ctx->out is written, with an END_REQUEST behind it.  The web server
\* finds that if it can tell the records before it apart.
WriteEnd ==
    /\ out' = <<>>
    /\ answered' = IF LastRecord(hdr.type, hdr.rsz) /\ Readable(out) THEN answered + 1 ELSE answered

\* mnfcgi_finalize_request in a callback, mnfcgi_abort_request for one that fails
\* and for an ABORT_REQUEST: both buffers are rewound, the input with all that has
\* arrived.
Answer ==
    /\ Handling(CallbackTypes \cup {ABORT_REQUEST})
    /\ WriteEnd
    /\ pos' = arrived
    /\ pc' = "header"
    /\ early' = (early \/ ~LastRecord(hdr.type, hdr.rsz))
    /\ UNCHANGED <<sent, stream, arrived, hdr, pairs, parsed>>

\* Mutant: it is replied to by way of mnfcgi_abort_request, with its rewinds.
Reply_Rewinds ==
    /\ Handling(CallbackTypes \cup {ABORT_REQUEST, GET_VALUES_RESULT})
    /\ WriteEnd
    /\ pos' = arrived
    /\ pc' = "header"
    /\ UNCHANGED <<sent, stream, arrived, hdr, pairs, parsed, early>>

\* A record without its request, a second BEGIN_REQUEST or one for another role
\* gets an END_REQUEST, and a GET_VALUES_RESULT an UNKNOWN_TYPE: it is written at
\* once, and nothing is rewound.
Reply ==
    /\ Handling(CallbackTypes \cup {ABORT_REQUEST, GET_VALUES_RESULT})
    /\ WriteEnd
    /\ pc' = "header"
    /\ UNCHANGED <<sent, stream, arrived, pos, hdr, pairs, parsed, early>>

\* A callback that leaves its request open, with or without mnfcgi_flush_out.
Return ==
    /\ Handling(CallbackTypes)
    /\ out' \in {out, <<>>}
    /\ pc' = "header"
    /\ UNCHANGED <<sent, stream, arrived, pos, hdr, pairs, parsed, answered, early>>

\* Space that is taken in ctx->out.
Pending == SumFunction([i \in DOMAIN out |-> Actual(out[i])])

\* MNFCGI_RENDER_INT
LengthBytes(n) == IF n < 127 THEN 1 ELSE 4

KeyLength(i) == pairs[i][1]

\* The values of a GET_VALUES_RESULT, by their lengths: those of the names the
\* handler knows, and those the web server has sent.
Values(known) ==
    [i \in known \cup {j \in DOMAIN pairs : KeyLength(j) > 0 /\ pairs[j][2] > 0} |->
        IF i \in known THEN ValueLen ELSE pairs[i][2]]

\* The bytes of the pairs up to i.
PairsBytes(values, i) ==
    SumFunctionOnSet(
        [j \in DOMAIN values |-> LengthBytes(KeyLength(j)) + LengthBytes(values[j])
                                 + KeyLength(j) + values[j]],
        {j \in DOMAIN values : j <= i})

\* mnfcgi_render_payload adds up what mnfcgi_render_kvp returns, which is the
\* end of the buffer and no length.
PairsReturned(values) ==
    SumFunction([i \in DOMAIN values |-> Pending + HeaderLen + PairsBytes(values, i)])

\* Where the size is not the bytes written the assertion of mnfcgi_render
\* fails, unless it is compiled out.
GetValues ==
    /\ Handling({GET_VALUES})
    /\ \E known \in SUBSET {i \in DOMAIN pairs : KeyLength(i) > 0} :
          LET r == Rendered(GET_VALUES_RESULT, PairsBytes(Values(known), Len(pairs)),
                            PairsReturned(Values(known)))
          IN  \/ /\ r.n # r.bytes
                 /\ pc' = "aborted"
                 /\ UNCHANGED out
              \/ /\ pc' = IF r.res = "ok" THEN "header" ELSE "closed"
                 /\ out' = IF r.res = "ok" THEN Append(out, r) ELSE <<>>
    /\ UNCHANGED <<sent, stream, arrived, pos, hdr, pairs, parsed, answered, early>>

-----------------------------------------------------------------------------
Parse ==
    \/ Consume
    \/ ParseHeader \/ HeaderRefused
    \/ ParsePayload \/ PayloadRefused \/ PayloadAborts
    \/ ParsePadding

Handle == RenderStdout \/ Answer \/ Reply \/ Return \/ GetValues

Next == Send \/ Parse \/ ConsumeFails \/ Handle

Spec == Init /\ [][Next]_vars

\* What has been sent arrives, mnfcgi_parse goes on with what has arrived, and
\* callbacks return.  The web server need not send.
FairSpec == Spec /\ WF_vars(Parse) /\ WF_vars(Answer \/ Reply \/ Return \/ GetValues)

-----------------------------------------------------------------------------
(* Properties                                                              *)

\* Where the i-th pair of q ends, when its lengths are of one byte.
Offset(q, i) ==
    SumFunctionOnSet([j \in DOMAIN q |-> 2 + q[j][1] + q[j][2]], 1..i)

\* What mnfcgi_parse can read: a body that is its pairs, with lengths of one byte
\* (one of four makes the body longer), and a BEGIN_REQUEST of the size it has.
Whole(r) ==
    /\ r.type \in PairTypes =>
          /\ Offset(r.pairs, Len(r.pairs)) = Len(r.body)
          /\ \A i \in DOMAIN r.pairs :
                LET at == Offset(r.pairs, i - 1)
                IN  <<r.body[at + 1], r.body[at + 2]>> = r.pairs[i]
    /\ r.type = BEGIN_REQUEST => Len(r.body) = 8

WholeUpTo(i) == \A j \in 1..i : j \in DOMAIN sent => Whole(sent[j])

Content(r) ==
    [type |-> r.type, size |-> Len(r.body),
     pairs |-> IF r.type \in PairTypes THEN r.pairs ELSE <<>>]

\* However the input is cut into pieces, and although an answer throws away what
\* has arrived, mnfcgi_parse returns the records that were sent, in their order
\* and with their contents, up to the first that it cannot read.  That is over
\* when a request is answered or aborted before its last record: what has arrived
\* then may be more of it, in whole records or in a part of one.
InSync ==
    ~early => \A i \in DOMAIN parsed :
        WholeUpTo(i) => i \in DOMAIN sent /\ parsed[i] = Content(sent[i])

\* It refuses only what it is to refuse, of what it can read: an unknown type,
\* an id that does not fit the type, a type that only an application sends, an
\* ABORT_REQUEST with a payload.  After an early answer it may refuse the tail of
\* a record, too, that was cut by the rewind.
RefusedRightly ==
    LET i == Len(parsed) + 1
    IN  pc = "refused" /\ ~early /\ WholeUpTo(i) =>
            /\ i \in DOMAIN sent
            /\ \/ sent[i].type \in {END_REQUEST, STDOUT, STDERR}
               \/ sent[i].type \notin 1..UNKNOWN_TYPE
               \/ (sent[i].rid = 0) # (sent[i].type \in Management)
               \/ sent[i].type = ABORT_REQUEST /\ sent[i].body # <<>>

\* A record that mnfcgi_render has not failed on is as long as its header says,
\* and ends on a multiple of 8, unless it is a result with values.
Framed ==
    \A i \in DOMAIN out :
        out[i].res = "ok" /\ out[i].bytes = out[i].n =>
            Declared(out[i]) = Actual(out[i]) /\ Actual(out[i]) % 8 = 0

\* All that has been sent is parsed, up to the first record that cannot be read:
\* mnfcgi_parse never waits for a byte that the web server has no reason to send.
\* An early answer may throw records away before.  As there are MaxSent records
\* at most, there is always a moment without any on its way.
RecordParsed ==
    []<>(\/ early \/ pc \in {"refused", "closed", "aborted"}
         \/ \A i \in DOMAIN sent : WholeUpTo(i) => i <= Len(parsed))

-----------------------------------------------------------------------------
(* What the code says and does not do                                      *)

\* A payload that is too large makes mnfcgi_render discard the record
\* (mnfcgi_wire.c:750).
OversizeDiscarded == \A i \in DOMAIN out : out[i].res = "ok"

\* assert((SEOD(bs) - eod) == n) in mnfcgi_render (mnfcgi_wire.c:745).
PayloadCounted == \A i \in DOMAIN out : out[i].bytes = out[i].n

-----------------------------------------------------------------------------
(* The inductive invariant                                                 *)

\* Where the i-th of the records q ends.
End(q, i) == SumFunctionOnSet([j \in DOMAIN q |-> Len(Bytes(q[j]))], 1..i)

StreamOfSent ==
    /\ Len(stream) = End(sent, Len(sent))
    /\ \A i \in DOMAIN sent : \A k \in 1..Len(Bytes(sent[i])) :
          stream[End(sent, i - 1) + k] = Bytes(sent[i])[k]

KnownType == pc \in {"payload", "padding", "handle"} => hdr.type \in 1..UNKNOWN_TYPE

HeaderOf(r) == [type |-> r.type, rid |-> r.rid, rsz |-> Len(r.body), psz |-> r.psz]

\* Between two records, and within one, the position is where the record sent
\* says, as long as the records can be read.
AtHeader(n) == pc = "header" => pos = End(sent, n) /\ pos <= arrived

AtPayload(n) ==
    pc = "payload" =>
        /\ n < Len(sent) /\ hdr = HeaderOf(sent[n + 1])
        /\ pos = End(sent, n) + HeaderLen /\ pos <= arrived

AtPadding(n) ==
    pc = "padding" /\ WholeUpTo(n + 1) =>
        /\ n < Len(sent) /\ hdr = HeaderOf(sent[n + 1])
        /\ pairs = Content(sent[n + 1]).pairs
        /\ pos = End(sent, n) + HeaderLen + hdr.rsz /\ pos <= arrived

AtHandle(n) ==
    pc = "handle" =>
        /\ n > 0 /\ hdr = HeaderOf(sent[n])
        /\ pos = End(sent, n) /\ pos <= arrived

AtRecord ==
    LET n == Len(parsed)
    IN  ~early /\ WholeUpTo(n) =>
            n <= Len(sent) /\ AtHeader(n) /\ AtPayload(n) /\ AtPadding(n) /\ AtHandle(n)

\* The records that have been handled.
Done == IF pc = "handle" THEN Len(parsed) - 1 ELSE Len(parsed)

EndedUpTo(k) == {i \in DOMAIN sent : i <= k /\ EndsRequest(sent[i])}

\* A request is answered when its last record is handled, at most, and nothing
\* is sent before: the advance of Answer moves over no record then.
AnsweredInOrder ==
    ~early /\ WholeUpTo(Len(parsed)) =>
        /\ answered <= Cardinality(EndedUpTo(Done))
        /\ \A i \in DOMAIN sent : EndsRequest(sent[i]) /\ i > Done => i = Len(sent)

WireIInv ==
    /\ TypeOK
    /\ Framed
    /\ StreamOfSent
    /\ KnownType
    /\ AtRecord
    /\ AnsweredInOrder
    /\ InSync
    /\ RefusedRightly

=============================================================================
