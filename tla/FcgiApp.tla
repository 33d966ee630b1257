------------------------------- MODULE FcgiApp -------------------------------
(***************************************************************************)
(* One request as an application sees it: the callbacks of mnfcgi_app.c,   *)
(* the response states of mnfcgi_request_t, and the response fields from   *)
(* mnfcgi_request_field_add* to the STDOUT records of headers_end.         *)
(*                                                                         *)
(* The web server sends the records of a request in FastCGI order.  What   *)
(* the handler does around a callback, and writes that fail, are in        *)
(* FcgiConn; here a response is the sequence of records rendered for it.   *)
(***************************************************************************)
EXTENDS Naturals, Sequences, FiniteSetsExt

CONSTANTS
    Name,           \* names of response fields
    Status, ContentLength, Location,
    Size,           \* Size[n]: length of a rendered field "n: value"
    Slack,          \* by how much mnfcgi_render_headers overestimates it
    MaxPayload,     \* MNFCGI_MAX_PAYLOAD
    HeadersEndIn,   \* the callbacks in which the application ends its headers
    MaxAdded,       \* bound: fields of one name in a request
    MaxBody         \* bound: records in a response

Callbacks == {"begin_request", "params_complete", "_stdin", "stdin_end"}

ASSUME NameAssumption ==
    /\ IsFiniteSet(Name)
    /\ {Status, ContentLength, Location} \subseteq Name
ASSUME SizeAssumption ==
    Size \in [Name -> Nat \ {0}] /\ Slack \in Nat /\ MaxPayload \in Nat
ASSUME CallbackAssumption == HeadersEndIn \subseteq Callbacks
ASSUME BoundAssumption == MaxAdded \in Nat /\ MaxBody \in Nat

\* MNFCGI_REQUEST_STATE_*; nothing ever sets the state BODY_ALLOWED.
BEGIN == 1
PARAMS_DONE == 2
HEADERS_ALLOWED == 3
HEADERS_END == 4

VARIABLES
    input,      \* what the web server has yet to send: "begin", "params",
                \* "stdin", "nothing"
    at,         \* "wait", the callback that runs, or "gone" with the request
    call,       \* the library call under way: "none", "headers_end", or "error",
                \* the headers_end inside mnfcgi_app_error or mnfcgi_app_redir
    state,      \* req->state
    complete,   \* req->flags.complete
    headers,    \* req->headers: how many fields of each name
    response,   \* records rendered: "fields", "empty" (STDOUT without payload),
                \* "blank" (the empty line), "body", "end" (END_REQUEST)
    added,      \* history: fields added, by name
    sent,       \* history: fields rendered, by name
    dropped     \* history: fields discarded as too long, by name

request == <<input, at>>
fields == <<headers, added, sent, dropped>>
vars == <<input, at, call, state, complete, headers, response, added, sent, dropped>>

None == [n \in Name |-> 0]

Count == [Name -> 0..MaxAdded]

TypeOK ==
    /\ input \in {"begin", "params", "stdin", "nothing"}
    /\ at \in Callbacks \cup {"wait", "gone"}
    /\ call \in {"none", "headers_end", "error"}
    /\ state \in {0, BEGIN, PARAMS_DONE, HEADERS_ALLOWED, HEADERS_END}
    /\ complete \in BOOLEAN
    /\ headers \in Count /\ added \in Count /\ sent \in Count /\ dropped \in Count
    /\ response \in Seq({"fields", "empty", "blank", "body", "end"})

Init ==
    /\ input = "begin"
    /\ at = "wait"
    /\ call = "none"
    /\ state = 0
    /\ complete = FALSE
    /\ headers = None /\ added = None /\ sent = None /\ dropped = None
    /\ response = <<>>

-----------------------------------------------------------------------------
(* The callbacks of mnfcgi_app_init                                        *)

Receives(kind) == at = "wait" /\ input = kind

\* mnfcgi_app_begin_request
BeginRequest ==
    /\ Receives("begin")
    /\ input' = "params"
    /\ at' = "begin_request"
    /\ state' = BEGIN
    /\ UNCHANGED <<call, complete, response, fields>>

\* mnfcgi_app_params, on the empty record that ends the parameters.
ParamsComplete ==
    /\ Receives("params")
    /\ input' = "stdin"
    /\ at' = "params_complete"
    /\ state' = PARAMS_DONE
    /\ UNCHANGED <<call, complete, response, fields>>

\* mnfcgi_app_stdin
Stdin ==
    /\ Receives("stdin")
    /\ \/ at' = "_stdin" /\ UNCHANGED input
       \/ at' = "stdin_end" /\ input' = "nothing"
    /\ UNCHANGED <<call, state, complete, response, fields>>

InCallback == at \in Callbacks /\ call = "none"

\* Mutant: a callback's return allows the body.
StateAfter_Body(callback) == IF callback = "stdin_end" THEN HEADERS_END + 1 ELSE state

\* mnfcgi_app_params allows headers, whatever params_complete has done.
StateAfter(callback) ==
    IF callback = "params_complete" THEN HEADERS_ALLOWED ELSE state

\* The callback returns 0; the handler destroys a completed request.
ReturnOk ==
    /\ InCallback
    /\ state' = StateAfter(at)
    /\ at' = IF complete THEN "gone" ELSE "wait"
    /\ UNCHANGED <<input, call, complete, response, fields>>

\* The callback returns an error: the handler aborts and destroys the request.
ReturnError ==
    /\ InCallback
    /\ response' = IF complete THEN response ELSE Append(response, "end")
    /\ complete' = TRUE
    /\ at' = "gone"
    /\ UNCHANGED <<input, call, state, fields>>

-----------------------------------------------------------------------------
(* Response fields                                                         *)

\* Mutant: fields are accepted after the headers have ended.
HeadersOpen_OffByOne == state <= HEADERS_END

HeadersOpen == state <= HEADERS_ALLOWED

Add(names) ==
    /\ \A n \in names : added[n] < MaxAdded
    /\ headers' = [n \in Name |-> headers[n] + (IF n \in names THEN 1 ELSE 0)]
    /\ added' = [n \in Name |-> added[n] + (IF n \in names THEN 1 ELSE 0)]
    /\ UNCHANGED <<sent, dropped>>

\* mnfcgi_request_field_addf, _addb and _addt where they change anything: a new
\* name, or without flags a second field of a name.  With MNFCGI_FADD_OVERRIDE
\* one value takes the place of another.
FieldAdd ==
    /\ InCallback
    /\ HeadersOpen
    /\ \E n \in Name : Add({n})
    /\ UNCHANGED <<request, call, state, complete, response>>

Overestimate(n) == Size[n] + Slack

TooLong(n) == Overestimate(n) >= MaxPayload

Length(bag) == MapThenSumSet(LAMBDA n : bag[n] * Size[n], Name)

\* What one call of mnfcgi_render_headers may render, in whatever order the
\* table of fields is walked: fields are rendered while the next one fits.
Rendered ==
    {bag \in [Name -> 0..MaxAdded] :
        /\ \A n \in Name : bag[n] <= headers[n] /\ (TooLong(n) => bag[n] = 0)
        /\ bag # None => Length(bag) + Slack < MaxPayload}

\* Mutant: no field is discarded.
Discarded_None == {None}

\* ... and discard: the fields it meets that are too long for any record.
Discarded ==
    {bag \in [Name -> 0..MaxAdded] :
        \A n \in Name : bag[n] <= headers[n] /\ (~TooLong(n) => bag[n] = 0)}

\* Mutant: a rendered field is not deleted.
Left_Undeleted(out, lost) == [n \in Name |-> headers[n] - lost[n]]

Left(out, lost) == [n \in Name |-> headers[n] - out[n] - lost[n]]

\* The walk ends at the end of the table or at a field that does not fit.
WalkEnds(out, lost) ==
    \/ Left(out, lost) = None
    \/ \E n \in Name :
          /\ Left(out, lost)[n] > 0
          /\ ~TooLong(n)
          /\ Length(out) + Overestimate(n) >= MaxPayload

-----------------------------------------------------------------------------
(* mnfcgi_request_headers_end                                              *)

HeadersEnd ==
    /\ InCallback
    /\ at \in HeadersEndIn
    /\ HeadersOpen
    /\ call' = "headers_end"
    /\ UNCHANGED <<request, state, complete, response, fields>>

\* One turn of its loop: a STDOUT record of fields.
RenderHeaders ==
    /\ call # "none"
    /\ ~complete
    /\ headers # None
    /\ \E out \in Rendered, lost \in Discarded :
          /\ WalkEnds(out, lost)
          /\ headers' = Left(out, lost)
          /\ sent' = [n \in Name |-> sent[n] + out[n]]
          /\ dropped' = [n \in Name |-> dropped[n] + lost[n]]
          /\ response' = Append(response, IF out = None THEN "empty" ELSE "fields")
    /\ UNCHANGED <<request, call, state, complete, added>>

\* The records of mnfcgi_finalize_request: the end of STDOUT, END_REQUEST.
Final == <<"empty", "end">>

\* Mutants: the headers have not ended; the request is not finalized.
RenderEmptyLine_StateKept ==
    /\ call # "none"
    /\ complete \/ headers = None
    /\ call' = "none"
    /\ complete' = (complete \/ call = "error")
    /\ response' = response \o
          (IF complete THEN <<>>
           ELSE IF call = "error" THEN <<"blank">> \o Final ELSE <<"blank">>)
    /\ UNCHANGED <<request, state, fields>>

RenderEmptyLine_NotFinal ==
    /\ call # "none"
    /\ complete \/ headers = None
    /\ state' = HEADERS_END
    /\ call' = "none"
    /\ response' = IF complete THEN response ELSE Append(response, "blank")
    /\ UNCHANGED <<request, complete, fields>>

\* The empty line; the headers have ended even if nothing could be rendered.
\* mnfcgi_app_error and mnfcgi_app_redir go on to finalize the request.
RenderEmptyLine ==
    /\ call # "none"
    /\ complete \/ headers = None
    /\ state' = HEADERS_END
    /\ call' = "none"
    /\ complete' = (complete \/ call = "error")
    /\ response' = response \o
          (IF complete THEN <<>>
           ELSE IF call = "error" THEN <<"blank">> \o Final ELSE <<"blank">>)
    /\ UNCHANGED <<request, fields>>

-----------------------------------------------------------------------------
(* Body, end and errors                                                    *)

\* mnfcgi_render_stdout does not look at the state; the application renders a
\* body when its headers have ended.
RenderBody ==
    /\ InCallback
    /\ ~complete
    /\ state = HEADERS_END
    /\ Len(response) < MaxBody
    /\ response' = Append(response, "body")
    /\ UNCHANGED <<request, call, state, complete, fields>>

FinalizeRequest ==
    /\ InCallback
    /\ ~complete
    /\ complete' = TRUE
    /\ response' = response \o Final
    /\ UNCHANGED <<request, call, state, fields>>

\* mnfcgi_app_error and mnfcgi_app_redir add their fields, end the headers and
\* finalize the request.  They stop at the first call that returns an error.
\* Once the headers have ended that is the very first call.
ErrorFields == {{ContentLength}, {ContentLength, Location}}

AppError ==
    /\ InCallback
    /\ HeadersOpen
    /\ \E names \in ErrorFields :
          /\ \A n \in names : headers[n] = 0
          /\ Add(names \cup (IF headers[Status] = 0 THEN {Status} ELSE {}))
    /\ call' = "error"
    /\ UNCHANGED <<request, state, complete, response>>

\* A second field of a name is added, but MNFCGI_FADD_DUP is returned: neither
\* the headers nor the request are ended.
AppErrorStops ==
    /\ InCallback
    /\ HeadersOpen
    /\ \/ headers[ContentLength] > 0 /\ Add({ContentLength})
       \/ /\ headers[ContentLength] = 0
          /\ headers[Location] > 0
          /\ Add({ContentLength, Location})
    /\ UNCHANGED <<request, call, state, complete, response>>

-----------------------------------------------------------------------------
Callback ==
    \/ FieldAdd \/ HeadersEnd \/ RenderBody \/ FinalizeRequest
    \/ AppError \/ AppErrorStops
    \/ ReturnOk \/ ReturnError

Next ==
    \/ BeginRequest \/ ParamsComplete \/ Stdin
    \/ RenderHeaders \/ RenderEmptyLine
    \/ Callback

Spec == Init /\ [][Next]_vars

\* The library runs to the end of what it was called for.
FairSpec == Spec /\ WF_vars(RenderHeaders) /\ WF_vars(RenderEmptyLine)

-----------------------------------------------------------------------------
(* Properties                                                              *)

Records(kind) == {i \in DOMAIN response : response[i] = kind}

\* A response is fields, an empty line, a body and END_REQUEST, in this order,
\* with one empty line and one END_REQUEST at most, whichever callbacks an
\* application that ends its headers in stdin_end errors out of, finalizes in or
\* returns an error from.
ResponseOrdered ==
    /\ \A i \in Records("fields"), j \in Records("blank") : i < j
    /\ \A i \in Records("blank"), j \in Records("body") : i < j
    /\ Cardinality(Records("blank")) <= 1
    /\ complete => Records("end") = {Len(response)}
    /\ ~complete => Records("end") = {}

\* No field is lost between the pieces mnfcgi_render_headers cuts the headers
\* into, sent twice, or discarded unless it is too long for any record.
FieldsConserved ==
    \A n \in Name :
        /\ added[n] = headers[n] + sent[n] + dropped[n]
        /\ IF TooLong(n) THEN sent[n] = 0 ELSE dropped[n] = 0

\* Once the empty line is out no field is left behind it: none can be added any
\* more.
NoFieldStranded == Records("blank") # {} => complete \/ headers = None

\* The loop of mnfcgi_request_headers_end ends, and mnfcgi_app_error, once it
\* has come to this loop, completes the request.
HeadersEndReturns == call # "none" ~> call = "none"

ErrorCompletes == call = "error" ~> complete

-----------------------------------------------------------------------------
(* What the code says and does not do                                      *)

\* Ending the headers of a request a second time is a "MNFCGI_REQUEST_STATE
\* violation" (mnfcgi_app.c:117, with mnfcgi_proto.c:705-707): a response has a
\* single empty line.
SingleEmptyLine == Cardinality(Records("blank")) <= 1

=============================================================================
