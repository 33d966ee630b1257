----------------------------- MODULE FcgiAppProof -----------------------------
(***************************************************************************)
(* Proofs about FcgiApp, for any names, sizes and bounds: no field is lost *)
(* in whatever callback an application ends its headers, and the response  *)
(* is in order if that is stdin_end.                                       *)
(***************************************************************************)
EXTENDS FcgiApp, SequenceTheorems, FiniteSetTheorems, TLAPS

\* The types, and that every field added is where FieldsConserved says: in the
\* table, rendered, or discarded.  Neither holds by itself: that the counts stay
\* within their bound is because they add up to what was added.
FieldsOk == TypeOK /\ FieldsConserved

\* mnfcgi_request_init leaves an empty table of fields.
LEMMA InitFields == Init => FieldsOk
  <1>. SUFFICES ASSUME Init
                PROVE  FieldsOk
    OBVIOUS
  <1>1. None \in Count /\ \A n \in Name : None[n] = 0
    BY BoundAssumption DEF None, Count
  <1>2. TypeOK
    <2>1. headers \in Count /\ added \in Count /\ sent \in Count /\ dropped \in Count
      BY <1>1 DEF Init
    <2>2. response \in Seq({"fields", "empty", "blank", "body", "end"})
      BY DEF Init
    <2>. QED BY <2>1, <2>2 DEF Init, TypeOK, Callbacks
  <1>3. FieldsConserved
    BY <1>1 DEF Init, FieldsConserved
  <1>. QED BY <1>2, <1>3 DEF FieldsOk

\* What is neither rendered nor discarded stays in the table; no field is both.
LEMMA LeftOver ==
  ASSUME FieldsOk, NEW out \in Rendered, NEW lost \in Discarded, NEW n \in Name
  PROVE  /\ out[n] \in Nat /\ lost[n] \in Nat
         /\ Left(out, lost)[n] \in Nat
         /\ headers[n] = Left(out, lost)[n] + out[n] + lost[n]
         /\ IF TooLong(n) THEN out[n] = 0 ELSE lost[n] = 0
  <1>1. headers[n] \in Nat
    BY DEF FieldsOk, TypeOK, Count
  <1>2. out[n] \in Nat /\ out[n] <= headers[n] /\ (TooLong(n) => out[n] = 0)
    BY DEF Rendered
  <1>3. lost[n] \in Nat /\ lost[n] <= headers[n] /\ (~TooLong(n) => lost[n] = 0)
    BY DEF Discarded
  <1>4. Left(out, lost)[n] = headers[n] - out[n] - lost[n]
    BY DEF Left
  <1>. QED BY <1>1, <1>2, <1>3, <1>4

\* What moves out of the table leaves the sum as it was, and every part of it
\* within its bound.
LEMMA SumKept ==
  ASSUME NEW a \in Nat, NEW h \in Nat, NEW s \in Nat, NEW d \in Nat, NEW o \in Nat,
         NEW l \in Nat, NEW rest \in Nat, a = h + s + d, h = rest + o + l
  PROVE  /\ a = rest + (s + o) + (d + l)
         /\ rest <= a /\ s + o <= a /\ d + l <= a
  OBVIOUS

\* A turn of the loop of mnfcgi_request_headers_end.
LEMMA RenderFieldsOk ==
  ASSUME FieldsOk, RenderHeaders
  PROVE  FieldsOk'
  <1>0. PICK out \in Rendered, lost \in Discarded :
          /\ headers' = Left(out, lost)
          /\ sent' = [n \in Name |-> sent[n] + out[n]]
          /\ dropped' = [n \in Name |-> dropped[n] + lost[n]]
          /\ response' = Append(response, IF out = None THEN "empty" ELSE "fields")
    BY DEF RenderHeaders
  <1>1. /\ added' = added
        /\ UNCHANGED <<input, at, call, state, complete>>
    BY DEF RenderHeaders, request
  <1>2. FieldsConserved'
    <2>. SUFFICES ASSUME NEW n \in Name
                  PROVE  /\ added'[n] = headers'[n] + sent'[n] + dropped'[n]
                         /\ IF TooLong(n) THEN sent'[n] = 0 ELSE dropped'[n] = 0
      BY DEF FieldsConserved, TooLong, Overestimate
    <2>1. /\ added[n] = headers[n] + sent[n] + dropped[n]
          /\ headers[n] \in Nat /\ sent[n] \in Nat /\ dropped[n] \in Nat
          /\ IF TooLong(n) THEN sent[n] = 0 ELSE dropped[n] = 0
      BY DEF FieldsOk, FieldsConserved, TypeOK, Count
    <2>2. sent'[n] = sent[n] + out[n] /\ dropped'[n] = dropped[n] + lost[n]
          /\ headers'[n] = Left(out, lost)[n]
      BY <1>0
    <2>3. /\ out[n] \in Nat /\ lost[n] \in Nat
          /\ headers[n] = Left(out, lost)[n] + out[n] + lost[n]
          /\ Left(out, lost)[n] \in Nat
          /\ IF TooLong(n) THEN out[n] = 0 ELSE lost[n] = 0
      BY LeftOver
    <2>4. added[n] \in Nat
      BY BoundAssumption DEF FieldsOk, TypeOK, Count
    <2>5. added[n] = Left(out, lost)[n] + (sent[n] + out[n]) + (dropped[n] + lost[n])
      <3>1. PICK o \in Nat, l \in Nat, r \in Nat :
               o = out[n] /\ l = lost[n] /\ r = Left(out, lost)[n]
        BY <2>3
      <3>2. PICK h \in Nat, s \in Nat, d \in Nat :
               h = headers[n] /\ s = sent[n] /\ d = dropped[n]
        BY <2>1
      <3>3. added[n] = h + s + d /\ h = r + o + l
        BY <2>1, <2>3, <3>1, <3>2
      <3>4. added[n] = r + (s + o) + (d + l)
        BY <2>4, <3>3
      <3>. QED BY <3>1, <3>2, <3>4
    <2>6. IF TooLong(n) THEN sent[n] + out[n] = 0 ELSE dropped[n] + lost[n] = 0
      BY <2>1, <2>3
    <2>. QED BY <1>1, <2>2, <2>5, <2>6
  <1>3. headers' \in Count /\ sent' \in Count /\ dropped' \in Count
    <2>. SUFFICES ASSUME NEW n \in Name
                  PROVE  /\ Left(out, lost)[n] \in 0..MaxAdded
                         /\ sent[n] + out[n] \in 0..MaxAdded
                         /\ dropped[n] + lost[n] \in 0..MaxAdded
      BY <1>0 DEF Count, Left
    <2>1. /\ added[n] = headers[n] + sent[n] + dropped[n]
          /\ headers[n] \in Nat /\ sent[n] \in Nat /\ dropped[n] \in Nat
      BY DEF FieldsOk, FieldsConserved, TypeOK, Count
    <2>2. /\ out[n] \in Nat /\ lost[n] \in Nat
          /\ headers[n] = Left(out, lost)[n] + out[n] + lost[n]
          /\ Left(out, lost)[n] \in Nat
      BY LeftOver
    <2>3. added[n] \in Nat /\ added[n] <= MaxAdded /\ MaxAdded \in Nat
      BY BoundAssumption DEF FieldsOk, TypeOK, Count
    <2>4. /\ Left(out, lost)[n] <= added[n]
          /\ sent[n] + out[n] <= added[n]
          /\ dropped[n] + lost[n] <= added[n]
      <3>1. added[n] \in Nat
        BY <2>3
      <3>. QED BY <2>1, <2>2, <3>1, SumKept
    <2>5. sent[n] + out[n] \in Nat /\ dropped[n] + lost[n] \in Nat
      BY <2>1, <2>2
    <2>. QED BY <2>2, <2>3, <2>4, <2>5
  <1>4. response' \in Seq({"fields", "empty", "blank", "body", "end"})
    BY <1>0 DEF FieldsOk, TypeOK
  <1>. QED BY <1>1, <1>2, <1>3, <1>4 DEF FieldsOk, TypeOK

\* A field that is added is in the table.
LEMMA AddFields ==
  ASSUME FieldsOk, NEW names \in SUBSET Name, Add(names)
  PROVE  /\ headers' \in Count /\ added' \in Count /\ sent' \in Count /\ dropped' \in Count
         /\ FieldsConserved'
  <1>1. ASSUME NEW n \in Name
        PROVE  /\ added[n] = headers[n] + sent[n] + dropped[n]
               /\ headers[n] \in Nat /\ sent[n] \in Nat /\ dropped[n] \in Nat
               /\ added[n] \in 0..MaxAdded
               /\ n \in names => added[n] < MaxAdded
    BY <1>1, BoundAssumption DEF FieldsOk, FieldsConserved, TypeOK, Count, Add
  <1>2. headers' \in Count /\ added' \in Count
    BY <1>1, BoundAssumption DEF Add, Count
  <1>3. sent' \in Count /\ dropped' \in Count
    BY DEF Add, FieldsOk, TypeOK
  <1>4. FieldsConserved'
    BY <1>1 DEF Add, FieldsOk, FieldsConserved, TooLong, Overestimate
  <1>. QED BY <1>2, <1>3, <1>4

\* What an application adds, by itself or through mnfcgi_app_error.
LEMMA FieldActions ==
  ASSUME FieldsOk, FieldAdd \/ AppError \/ AppErrorStops
  PROVE  FieldsOk'
  <1>1. \E names \in SUBSET Name : Add(names)
    <2>1. CASE FieldAdd
      BY <2>1 DEF FieldAdd
    <2>2. CASE AppError
      BY <2>2, NameAssumption DEF AppError, ErrorFields
    <2>3. CASE AppErrorStops
      BY <2>3, NameAssumption DEF AppErrorStops
    <2>. QED BY <2>1, <2>2, <2>3
  <1>2. /\ call' \in {"none", "headers_end", "error"}
        /\ UNCHANGED <<input, at, state, complete, response>>
    BY DEF FieldAdd, AppError, AppErrorStops, request, FieldsOk, TypeOK
  <1>. QED BY <1>1, <1>2, AddFields DEF FieldsOk, TypeOK

\* A response that records of a response are put behind is one, too.
LEMMA ResponseGrows ==
  ASSUME TypeOK,
         NEW more \in {<<>>, <<"blank">>, <<"body">>, <<"end">>, Final, <<"blank">> \o Final}
  PROVE  response \o more \in Seq({"fields", "empty", "blank", "body", "end"})
  <1>. DEFINE Record == {"fields", "empty", "blank", "body", "end"}
  <1>1. /\ <<>> \in Seq(Record) /\ <<"blank">> \in Seq(Record) /\ <<"body">> \in Seq(Record)
        /\ <<"end">> \in Seq(Record) /\ Final \in Seq(Record)
    BY DEF Final
  <1>2. <<"blank">> \o Final \in Seq(Record)
    BY <1>1, ConcatProperties
  <1>3. response \in Seq(Record) /\ more \in Seq(Record)
    BY <1>1, <1>2 DEF TypeOK
  <1>. QED BY <1>3, ConcatProperties

\* Everything else leaves the fields alone.
LEMMA OtherActions ==
  ASSUME FieldsOk,
         \/ BeginRequest \/ ParamsComplete \/ Stdin \/ RenderEmptyLine
         \/ HeadersEnd \/ RenderBody \/ FinalizeRequest \/ ReturnOk \/ ReturnError
  PROVE  FieldsOk'
  <1>1. UNCHANGED fields
    BY DEF BeginRequest, ParamsComplete, Stdin, RenderEmptyLine, HeadersEnd, RenderBody,
       FinalizeRequest, ReturnOk, ReturnError
  <1>2. FieldsConserved'
    BY <1>1 DEF FieldsOk, FieldsConserved, fields, TooLong, Overestimate
  <1>3. CASE BeginRequest \/ ParamsComplete \/ Stdin
    BY <1>1, <1>2, <1>3 DEF BeginRequest, ParamsComplete, Stdin, FieldsOk, TypeOK, fields,
       Callbacks, BEGIN, PARAMS_DONE
  <1>4. CASE RenderEmptyLine
    <2>1. response' \in Seq({"fields", "empty", "blank", "body", "end"})
      <3>1. \E more \in {<<>>, <<"blank">> \o Final, <<"blank">>} : response' = response \o more
        BY <1>4 DEF RenderEmptyLine
      <3>. QED BY <3>1, ResponseGrows DEF FieldsOk
    <2>. QED BY <1>1, <1>2, <1>4, <2>1 DEF RenderEmptyLine, FieldsOk, TypeOK, fields, request,
            HEADERS_END
  <1>5. CASE HeadersEnd
    BY <1>1, <1>2, <1>5 DEF HeadersEnd, FieldsOk, TypeOK, fields, request
  <1>6. CASE RenderBody \/ FinalizeRequest
    <2>1. response' \in Seq({"fields", "empty", "blank", "body", "end"})
      <3>1. CASE RenderBody
        BY <3>1 DEF RenderBody, FieldsOk, TypeOK
      <3>2. CASE FinalizeRequest
        BY <3>2, ResponseGrows DEF FinalizeRequest, FieldsOk
      <3>. QED BY <1>6, <3>1, <3>2
    <2>. QED BY <1>1, <1>2, <1>6, <2>1 DEF RenderBody, FinalizeRequest, FieldsOk, TypeOK,
            fields, request
  <1>7. CASE ReturnOk
    BY <1>1, <1>2, <1>7 DEF ReturnOk, StateAfter, FieldsOk, TypeOK, fields, HEADERS_ALLOWED
  <1>8. CASE ReturnError
    <2>1. response' \in Seq({"fields", "empty", "blank", "body", "end"})
      BY <1>8 DEF ReturnError, FieldsOk, TypeOK
    <2>. QED BY <1>1, <1>2, <1>8, <2>1 DEF ReturnError, FieldsOk, TypeOK, fields
  <1>. QED BY <1>3, <1>4, <1>5, <1>6, <1>7, <1>8

\* In every reachable state the variables have their types and no field is lost.
THEOREM FieldsInvariant == Spec => []FieldsOk
  <1>1. ASSUME FieldsOk, [Next]_vars
        PROVE  FieldsOk'
    <2>1. CASE UNCHANGED vars
      BY <1>1, <2>1 DEF vars, FieldsOk, TypeOK, FieldsConserved, TooLong, Overestimate
    <2>. QED BY <1>1, <2>1, RenderFieldsOk, FieldActions, OtherActions DEF Next, Callback
  <1>. QED BY <1>1, InitFields, PTL DEF Spec

\* Every variable of a request and its response keeps its type.
THEOREM TypeCorrect == Spec => []TypeOK
  BY FieldsInvariant, PTL DEF FieldsOk

\* A field is rendered once, or discarded as too long for any record.
THEOREM ConservedFields == Spec => []FieldsConserved
  BY FieldsInvariant, PTL DEF FieldsOk

-----------------------------------------------------------------------------
(* The order of a response                                                 *)

\* The kinds of records.
Record == {"fields", "empty", "blank", "body", "end"}

\* Where the records of a kind are when others are put behind them.
LEMMA RecordsGrow ==
  ASSUME TypeOK, NEW more \in Seq(Record), response' = response \o more, NEW kind
  PROVE  /\ Records(kind)' =
               Records(kind) \cup {Len(response) + i : i \in {j \in 1..Len(more) : more[j] = kind}}
         /\ Len(response)' = Len(response) + Len(more)
  <1>1. response \in Seq(Record)
    BY DEF TypeOK, Record
  <1>2. /\ Len(response) \in Nat /\ Len(more) \in Nat
        /\ DOMAIN response = 1..Len(response) /\ DOMAIN more = 1..Len(more)
    BY <1>1, LenProperties
  <1>3. /\ Len(response)' = Len(response) + Len(more)
        /\ DOMAIN response' = 1..Len(response) + Len(more)
        /\ \A i \in 1..Len(response) + Len(more) :
              response'[i] = IF i <= Len(response) THEN response[i]
                             ELSE more[i - Len(response)]
    BY <1>1, <1>2, ConcatProperties, LenProperties
  <1>4. ASSUME NEW i \in Records(kind)'
        PROVE  i \in Records(kind)
                     \cup {Len(response) + j : j \in {l \in 1..Len(more) : more[l] = kind}}
    <2>1. i \in 1..Len(response) + Len(more) /\ response'[i] = kind
      BY <1>3, <1>4 DEF Records
    <2>2. CASE i <= Len(response)
      BY <1>2, <1>3, <2>1, <2>2 DEF Records
    <2>3. CASE ~(i <= Len(response))
      <3>1. i - Len(response) \in 1..Len(more) /\ more[i - Len(response)] = kind
        BY <1>2, <1>3, <2>1, <2>3
      <3>2. i = Len(response) + (i - Len(response))
        BY <1>2, <2>1
      <3>. QED BY <3>1, <3>2
    <2>. QED BY <2>2, <2>3
  <1>5. ASSUME NEW i \in Records(kind)
        PROVE  i \in Records(kind)'
    BY <1>2, <1>3, <1>5 DEF Records
  <1>6. ASSUME NEW j \in 1..Len(more), more[j] = kind
        PROVE  Len(response) + j \in Records(kind)'
    <2>1. Len(response) + j \in 1..Len(response) + Len(more)
      BY <1>2
    <2>2. ~(Len(response) + j <= Len(response)) /\ (Len(response) + j) - Len(response) = j
      BY <1>2
    <2>. QED BY <1>3, <1>6, <2>1, <2>2 DEF Records
  <1>. QED BY <1>3, <1>4, <1>5, <1>6

\* A record is put behind the others, ...
LEMMA OneRecord ==
  ASSUME TypeOK, NEW x \in Record, response' = Append(response, x), NEW kind
  PROVE  /\ Records(kind)' =
               Records(kind) \cup (IF x = kind THEN {Len(response) + 1} ELSE {})
         /\ Len(response)' = Len(response) + 1
  <1>1. <<x>> \in Seq(Record) /\ Len(<<x>>) = 1 /\ <<x>>[1] = x
    OBVIOUS
  <1>2. response' = response \o <<x>>
    BY <1>1, AppendIsConcat DEF TypeOK, Record
  <1>3. {j \in 1..Len(<<x>>) : <<x>>[j] = kind} = IF x = kind THEN {1} ELSE {}
    BY <1>1
  <1>4. /\ Records(kind)' = Records(kind)
              \cup {Len(response) + i : i \in {j \in 1..Len(<<x>>) : <<x>>[j] = kind}}
        /\ Len(response)' = Len(response) + Len(<<x>>)
    BY <1>1, <1>2, RecordsGrow
  <1>5. Records(kind)' = Records(kind)
            \cup {Len(response) + i : i \in (IF x = kind THEN {1} ELSE {})}
    BY <1>3, <1>4
  <1>. QED BY <1>1, <1>4, <1>5

\* ... or several that end the response.
LEMMA FinalRecords ==
  ASSUME TypeOK, NEW kind, NEW blank \in BOOLEAN,
         response' = response \o (IF blank THEN <<"blank">> \o Final ELSE Final)
  PROVE  /\ kind \in {"fields", "body"} => Records(kind)' = Records(kind)
         /\ kind = "blank" => Records(kind)' =
               Records(kind) \cup (IF blank THEN {Len(response) + 1} ELSE {})
         /\ kind = "end" => Records(kind)' = Records(kind) \cup {Len(response)'}
  <1>1. CASE ~blank
    <2>. DEFINE more == <<"empty", "end">>
    <2>1. /\ more \in Seq(Record) /\ Len(more) = 2 /\ more[1] = "empty" /\ more[2] = "end"
          /\ response' = response \o more
      BY <1>1 DEF Final, Record
    <2>2. {j \in 1..Len(more) : more[j] = kind} = IF kind = "end" THEN {2}
                                                 ELSE IF kind = "empty" THEN {1} ELSE {}
      BY <2>1
    <2>. HIDE DEF more
    <2>3. /\ Records(kind)' = Records(kind)
               \cup {Len(response) + i : i \in {j \in 1..Len(more) : more[j] = kind}}
          /\ Len(response)' = Len(response) + 2
      BY <2>1, RecordsGrow
    <2>4. /\ kind = "end" => Records(kind)' = Records(kind) \cup {Len(response) + 2}
          /\ kind \in {"fields", "body", "blank"} => Records(kind)' = Records(kind)
      BY <2>2, <2>3
    <2>. QED BY <1>1, <2>3, <2>4
  <1>2. CASE blank
    <2>. DEFINE more == <<"blank", "empty", "end">>
    <2>1. /\ more \in Seq(Record) /\ Len(more) = 3
          /\ more[1] = "blank" /\ more[2] = "empty" /\ more[3] = "end"
          /\ response' = response \o more
      BY <1>2 DEF Final, Record
    <2>2. {j \in 1..Len(more) : more[j] = kind} =
              IF kind = "end" THEN {3}
              ELSE IF kind = "empty" THEN {2} ELSE IF kind = "blank" THEN {1} ELSE {}
      BY <2>1
    <2>. HIDE DEF more
    <2>3. /\ Records(kind)' = Records(kind)
               \cup {Len(response) + i : i \in {j \in 1..Len(more) : more[j] = kind}}
          /\ Len(response)' = Len(response) + 3
      BY <2>1, RecordsGrow
    <2>4. /\ kind = "end" => Records(kind)' = Records(kind) \cup {Len(response) + 3}
          /\ kind = "blank" => Records(kind)' = Records(kind) \cup {Len(response) + 1}
          /\ kind \in {"fields", "body"} => Records(kind)' = Records(kind)
      BY <2>2, <2>3
    <2>. QED BY <1>2, <2>3, <2>4
  <1>. QED BY <1>1, <1>2

\* An application that ends its headers in stdin_end has no callback left that
\* could set the state back.
LateHeaders == HeadersEndIn \subseteq {"stdin_end"}

\* It ends its headers in the last callback, and no parameters are to come then.
EndsLate ==
    /\ call = "headers_end" => at = "stdin_end"
    /\ at = "params_complete" => input = "stdin"
    /\ at = "stdin_end" => input = "nothing"

\* Of a request that is not complete the state tells whether its empty line is
\* out; if it is nothing is left that could put fields behind it.
LineKnown ==
    ~complete =>
        IF Records("blank") = {}
        THEN state # HEADERS_END
        ELSE state = HEADERS_END /\ headers = None /\ call = "none" /\ input = "nothing"

\* A body comes after an empty line.
BodyBehind == Records("body") # {} => Records("blank") # {}

\* What orders a response, to be shown of every step.
OrderOk == EndsLate /\ LineKnown /\ BodyBehind /\ ResponseOrdered

\* Records have their places in the response.
LEMMA Places ==
  ASSUME TypeOK
  PROVE  /\ Len(response) \in Nat
         /\ \A kind : \A i \in Records(kind) : i \in Nat /\ i <= Len(response)
  BY DEF TypeOK, Records

\* Before mnfcgi_app_begin_request nothing has been rendered.
LEMMA InitOrder == Init => OrderOk
  <1>. SUFFICES ASSUME Init
                PROVE  OrderOk
    OBVIOUS
  <1>1. \A kind : Records(kind) = {}
    BY DEF Init, Records
  <1>2. Cardinality(Records("blank")) = 0
    BY <1>1, FS_EmptySet
  <1>. QED BY <1>1, <1>2 DEF Init, OrderOk, EndsLate, LineKnown, BodyBehind, ResponseOrdered,
          HEADERS_END

\* Steps that render nothing.
LEMMA SilentOrder ==
  ASSUME LateHeaders, TypeOK, OrderOk,
         \/ BeginRequest \/ ParamsComplete \/ Stdin \/ ReturnOk
         \/ FieldAdd \/ HeadersEnd \/ AppError \/ AppErrorStops \/ UNCHANGED vars
  PROVE  OrderOk'
  <1>. USE DEF OrderOk
  <1>1. response' = response /\ complete' = complete
    BY DEF BeginRequest, ParamsComplete, Stdin, ReturnOk, FieldAdd, HeadersEnd, AppError,
       AppErrorStops, vars
  <1>2. \A kind : Records(kind)' = Records(kind)
    BY <1>1 DEF Records
  <1>3. ResponseOrdered' /\ BodyBehind'
    BY <1>1, <1>2 DEF ResponseOrdered, BodyBehind
  <1>4. EndsLate'
    BY DEF BeginRequest, ParamsComplete, Stdin, ReturnOk, FieldAdd, HeadersEnd, AppError,
       AppErrorStops, vars, EndsLate, LateHeaders, InCallback, Receives, request, TypeOK
  <1>5. ASSUME BeginRequest \/ ParamsComplete \/ Stdin \/ ReturnOk \/ UNCHANGED vars
        PROVE  LineKnown'
    <2>1. CASE BeginRequest \/ ParamsComplete
      <3>1. state' # HEADERS_END /\ input # "nothing"
        BY <2>1 DEF BeginRequest, ParamsComplete, Receives, BEGIN, PARAMS_DONE, HEADERS_END
      <3>. QED BY <1>1, <1>2, <3>1 DEF LineKnown
    <2>2. CASE Stdin \/ UNCHANGED vars
      <3>1. /\ UNCHANGED <<state, headers, call>>
            /\ input = "nothing" => input' = "nothing"
        BY <2>2 DEF Stdin, Receives, vars, fields
      <3>2. Records("blank")' = Records("blank")
        BY <1>2
      <3>3. CASE Records("blank") = {}
        BY <1>1, <3>1, <3>2, <3>3 DEF LineKnown
      <3>4. CASE Records("blank") # {}
        BY <1>1, <3>1, <3>2, <3>4 DEF LineKnown
      <3>. QED BY <3>3, <3>4
    <2>3. CASE ReturnOk
      <3>1. UNCHANGED <<headers, call, input>> /\ state' = StateAfter(at)
        BY <2>3 DEF ReturnOk, fields
      <3>2. state' = state \/ (state' # HEADERS_END /\ input # "nothing")
        BY <3>1 DEF StateAfter, EndsLate, HEADERS_ALLOWED, HEADERS_END
      <3>3. Records("blank")' = Records("blank")
        BY <1>2
      <3>4. CASE Records("blank") = {}
        BY <1>1, <3>1, <3>2, <3>3, <3>4 DEF LineKnown
      <3>5. CASE Records("blank") # {}
        BY <1>1, <3>1, <3>2, <3>3, <3>5 DEF LineKnown
      <3>. QED BY <3>4, <3>5
    <2>. QED BY <1>5, <2>1, <2>2, <2>3
  <1>6. ASSUME FieldAdd \/ HeadersEnd \/ AppError \/ AppErrorStops
        PROVE  LineKnown'
    <2>1. HeadersOpen /\ state' = state
      BY <1>6 DEF FieldAdd, HeadersEnd, AppError, AppErrorStops
    <2>2. state # HEADERS_END
      BY <2>1 DEF HeadersOpen, HEADERS_ALLOWED, HEADERS_END
    <2>3. ~complete => Records("blank") = {}
      BY <2>2 DEF LineKnown
    <2>. QED BY <1>1, <1>2, <2>1, <2>2, <2>3 DEF LineKnown
  <1>. QED BY <1>3, <1>4, <1>5, <1>6

\* Fields are rendered while there is no empty line.
LEMMA RenderHeadersOrder ==
  ASSUME TypeOK, OrderOk, RenderHeaders
  PROVE  OrderOk'
  <1>. USE DEF OrderOk
  <1>1. Records("blank") = {} /\ Records("body") = {}
    BY DEF RenderHeaders, LineKnown, BodyBehind
  <1>2. PICK x \in {"empty", "fields"} : response' = Append(response, x)
    BY DEF RenderHeaders
  <1>3. \A kind \in {"blank", "body", "end"} : Records(kind)' = Records(kind)
    <2>1. \A kind : Records(kind)' =
              Records(kind) \cup (IF x = kind THEN {Len(response) + 1} ELSE {})
      BY <1>2, OneRecord DEF Record
    <2>. QED BY <2>1
  <1>4. /\ Records("blank")' = {} /\ Records("body")' = {}
        /\ Records("end")' = Records("end")
    BY <1>1, <1>3
  <1>5. Cardinality(Records("blank"))' = 0
    BY <1>4, FS_EmptySet
  <1>6. ~complete /\ ~complete' /\ UNCHANGED <<input, at, call, state>>
    BY DEF RenderHeaders, request
  <1>7. ResponseOrdered'
    BY <1>4, <1>5, <1>6 DEF ResponseOrdered
  <1>. QED BY <1>1, <1>4, <1>6, <1>7 DEF EndsLate, LineKnown, BodyBehind

\* There is one empty line.
LEMMA EmptyLineOrder ==
  ASSUME TypeOK, OrderOk, RenderEmptyLine
  PROVE  OrderOk'
  <1>. USE DEF OrderOk
  <1>1. EndsLate'
    BY DEF RenderEmptyLine, EndsLate, request
  <1>2. CASE complete
    <2>1. response' = response /\ complete'
      <3>1. response' = response \o <<>>
        BY <1>2 DEF RenderEmptyLine
      <3>2. complete'
        BY <1>2 DEF RenderEmptyLine
      <3>. QED BY <3>1, <3>2, ConcatEmptySeq DEF TypeOK
    <2>2. \A kind : Records(kind)' = Records(kind)
      BY <2>1 DEF Records
    <2>3. ResponseOrdered' /\ BodyBehind' /\ LineKnown'
      BY <1>2, <2>1, <2>2 DEF ResponseOrdered, BodyBehind, LineKnown
    <2>. QED BY <1>1, <2>3
  <1>3. CASE ~complete
    <2>1. Records("blank") = {} /\ Records("body") = {} /\ Records("end") = {}
      BY <1>3 DEF RenderEmptyLine, LineKnown, BodyBehind, ResponseOrdered
    <2>2. /\ Records("blank")' = {Len(response) + 1}
          /\ Records("body")' = {}
          /\ Records("fields")' = Records("fields")
          /\ Records("end")' = IF complete' THEN {Len(response)'} ELSE {}
      <3>1. CASE call = "error"
        <4>1. complete' /\ response' = response \o (<<"blank">> \o Final)
          BY <1>3, <3>1 DEF RenderEmptyLine
        <4>. QED BY <2>1, <4>1, FinalRecords
      <3>2. CASE call # "error"
        <4>1. ~complete' /\ response' = Append(response, "blank")
          <5>1. response' = response \o <<"blank">> /\ ~complete'
            BY <1>3, <3>2 DEF RenderEmptyLine
          <5>. QED BY <5>1, AppendIsConcat DEF TypeOK
        <4>. QED BY <2>1, <4>1, OneRecord DEF Record
      <3>. QED BY <3>1, <3>2
    <2>3. Cardinality(Records("blank"))' = 1
      BY <2>2, FS_Singleton
    <2>4. \A i \in Records("fields") : i < Len(response) + 1
      BY Places
    <2>5. ResponseOrdered'
      BY <2>2, <2>3, <2>4 DEF ResponseOrdered
    <2>6. LineKnown'
      BY <1>3, <2>2 DEF RenderEmptyLine, LineKnown, EndsLate, request, fields, TypeOK
    <2>. QED BY <1>1, <2>2, <2>5, <2>6 DEF BodyBehind
  <1>. QED BY <1>2, <1>3

\* The body is rendered when the state says that the empty line is out.
LEMMA BodyOrder ==
  ASSUME TypeOK, OrderOk, RenderBody
  PROVE  OrderOk'
  <1>. USE DEF OrderOk
  <1>1. ~complete /\ state = HEADERS_END /\ response' = Append(response, "body")
    BY DEF RenderBody
  <1>2. /\ Records("blank")' = Records("blank")
        /\ Records("fields")' = Records("fields")
        /\ Records("end")' = Records("end")
        /\ Records("body")' = Records("body") \cup {Len(response) + 1}
    <2>1. \A kind : Records(kind)' =
              Records(kind) \cup (IF "body" = kind THEN {Len(response) + 1} ELSE {})
      BY <1>1, OneRecord DEF Record
    <2>. QED BY <2>1
  <1>3. \A i \in Records("blank") : i < Len(response) + 1
    BY Places
  <1>4. ResponseOrdered'
    BY <1>1, <1>2, <1>3 DEF RenderBody, ResponseOrdered
  <1>5. Records("blank") # {}
    BY <1>1 DEF LineKnown
  <1>. QED BY <1>1, <1>2, <1>4, <1>5
          DEF RenderBody, EndsLate, LineKnown, BodyBehind, request, fields

\* The end comes last, and once.
LEMMA EndOrder ==
  ASSUME TypeOK, OrderOk, FinalizeRequest \/ ReturnError
  PROVE  OrderOk'
  <1>. USE DEF OrderOk
  <1>1. complete' /\ EndsLate'
    BY DEF FinalizeRequest, ReturnError, EndsLate, InCallback, request
  <1>2. CASE complete
    <2>1. response' = response
      BY <1>2 DEF FinalizeRequest, ReturnError
    <2>2. \A kind : Records(kind)' = Records(kind)
      BY <2>1 DEF Records
    <2>. QED BY <1>1, <1>2, <2>1, <2>2 DEF ResponseOrdered, BodyBehind, LineKnown
  <1>3. CASE ~complete
    <2>1. /\ Records("blank")' = Records("blank")
          /\ Records("fields")' = Records("fields")
          /\ Records("body")' = Records("body")
          /\ Records("end")' = {Len(response)'}
      <3>0. Records("end") = {}
        BY <1>3 DEF ResponseOrdered
      <3>1. CASE FinalizeRequest
        <4>1. response' = response \o Final
          BY <3>1 DEF FinalizeRequest
        <4>. QED BY <3>0, <4>1, FinalRecords
      <3>2. CASE ReturnError
        <4>1. response' = Append(response, "end")
          BY <1>3, <3>2 DEF ReturnError
        <4>2. /\ Len(response)' = Len(response) + 1
              /\ \A kind : Records(kind)' =
                    Records(kind) \cup (IF "end" = kind THEN {Len(response) + 1} ELSE {})
          BY <4>1, OneRecord DEF Record
        <4>. QED BY <3>0, <4>2
      <3>. QED BY <3>1, <3>2
    <2>. QED BY <1>1, <2>1 DEF ResponseOrdered, BodyBehind, LineKnown
  <1>. QED BY <1>2, <1>3

\* The order of the response, of an application that ends its headers late.
LEMMA OrderInvariant ==
  ASSUME LateHeaders
  PROVE  Spec => []OrderOk
  <1>1. ASSUME TypeOK, OrderOk, [Next]_vars
        PROVE  OrderOk'
    BY <1>1, SilentOrder, RenderHeadersOrder, EmptyLineOrder, BodyOrder, EndOrder
       DEF Next, Callback
  <1>. QED BY <1>1, InitOrder, TypeCorrect, PTL DEF Spec

\* Fields, one empty line, the body and one END_REQUEST follow each other, for
\* an application that ends its headers in stdin_end.
THEOREM OrderedResponse ==
  ASSUME LateHeaders
  PROVE  Spec => []ResponseOrdered
  BY OrderInvariant, PTL DEF OrderOk

\* Such an application leaves no field behind the empty line.
THEOREM StrandedFields ==
  ASSUME LateHeaders
  PROVE  Spec => []NoFieldStranded
  <1>1. OrderOk => NoFieldStranded
    BY DEF OrderOk, LineKnown, NoFieldStranded
  <1>. QED BY <1>1, OrderInvariant, PTL

=============================================================================
