------------------------------ MODULE FcgiConn ------------------------------
(***************************************************************************)
(* One FastCGI connection: the handler thread of mnfcgi_proto.c with its   *)
(* input and output buffers, its table of requests, and the application    *)
(* callbacks it runs on records.                                           *)
(*                                                                         *)
(* The thread is a cooperative one and a request may be used only inside   *)
(* the callbacks it is passed to, so nobody else touches this state: one   *)
(* action is everything the thread does between two reads, or between two  *)
(* calls the running callback makes into the library.  A write that blocks *)
(* is an action that is not taken yet.                                     *)
(*                                                                         *)
(* The buffers hold records, not bytes.  The record a read ends in the     *)
(* middle of is not in the input yet; discarding its first half leaves a   *)
(* tail that may read as anything, which Consume allows in every state.    *)
(***************************************************************************)
EXTENDS Naturals, Sequences

CONSTANTS
    Rid,        \* request ids of the web server
    NullRid,    \* the id 0 of management records
    MaxChunk,   \* bound: records that one read delivers
    MaxPending  \* bound: records rendered and not yet written

ASSUME RidAssumption == NullRid \notin Rid
ASSUME BoundAssumption == MaxChunk \in Nat /\ MaxPending \in Nat

VARIABLES
    pc,         \* "read", "cb" (in a callback), "closing", "closed", "crashed"
    inq,        \* ctx->in: records received and not yet parsed
    cur,        \* rec of the running callback
    requests,   \* the keys of ctx->requests
    req,        \* req[r]: request object "none", "open" or flags."complete"
    outq,       \* ctx->out: records rendered and not yet written
    answer,     \* history: END_REQUEST of r's request "none", "sent", "lost"
    fault       \* history: the undefined behaviour the thread has run into

vars == <<pc, inq, cur, requests, req, outq, answer, fault>>

-----------------------------------------------------------------------------
(* Records                                                                 *)

\* Records of a request whose body goes to an application callback.
StreamTypes == {"PARAMS", "STDIN", "DATA"}

\* BEGIN_ROLE is a BEGIN_REQUEST whose role is not RESPONDER.
RequestTypes == {"BEGIN", "BEGIN_ROLE", "ABORT"} \cup StreamTypes

\* Records with id 0.  GET_VALUES_KV asks for at least one value.  BAD is what
\* mnfcgi_parse refuses: a version or type it does not know, a type that only
\* an application sends, an id that does not fit the type, a payload that does
\* not fit the header.
ManagementTypes ==
    {"GET_VALUES", "GET_VALUES_KV", "GET_VALUES_RESULT", "UNKNOWN_TYPE", "BAD"}

InRec == [type : RequestTypes, rid : Rid]
         \cup [type : ManagementTypes, rid : {NullRid}]

\* PARTIAL and MANGLED are records whose length field is not their length.
OutRec == [type : {"STDOUT", "PARTIAL"}, rid : Rid]
          \cup [type : {"RESULT", "MANGLED"}, rid : {NullRid}]

NoRec == [type |-> "NONE", rid |-> NullRid]

TypeOK ==
    /\ pc \in {"read", "cb", "closing", "closed", "crashed"}
    /\ inq \in Seq(InRec)
    /\ cur \in InRec \cup {NoRec}
    /\ requests \subseteq Rid
    /\ req \in [Rid -> {"none", "open", "complete"}]
    /\ outq \in Seq(OutRec)
    /\ answer \in [Rid -> {"none", "sent", "lost"}]
    /\ fault \subseteq {"use_after_destroy", "double_destroy"}

\* mnfcgi_ctx_init
Init ==
    /\ pc = "read"
    /\ inq = <<>>
    /\ cur = NoRec
    /\ requests = {}
    /\ req = [r \in Rid |-> "none"]
    /\ outq = <<>>
    /\ answer = [r \in Rid |-> "none"]
    /\ fault = {}

-----------------------------------------------------------------------------
(* Helpers                                                                 *)

\* bytestream_produce_data writes what is pending or fails; it cannot fail
\* with nothing to write.
WriteOutcomes(q) == IF q = <<>> THEN {TRUE} ELSE BOOLEAN

\* Mutant: the err loop is left out.
MarkComplete_None(table, objects) == objects

\* The err label: every request of the table is marked complete.
MarkComplete(table, objects) ==
    [r \in Rid |-> IF r \in table THEN "complete" ELSE objects[r]]

\* goto err: both buffers are rewound and the loop is left.
HangUp ==
    /\ pc' = "closing"
    /\ inq' = <<>>
    /\ outq' = <<>>
    /\ req' = MarkComplete(requests, req)
    /\ cur' = NoRec
    /\ UNCHANGED <<requests, answer, fault>>

\* A record rendered and written at once, in answer to the record just parsed.
\* What was pending goes out with it.
Written ==
    /\ inq' = Tail(inq)
    /\ outq' = <<>>
    /\ UNCHANGED <<pc, cur, requests, req, answer, fault>>

Reply == Written \/ HangUp

\* Mutant: an abort that sends no END_REQUEST.
AbortAnswers_Silent(r) == {answer[r]}

\* mnfcgi_abort_request renders and writes END_REQUEST unless the request is
\* complete; the result of the write is ignored.
AbortAnswers(r) == IF req[r] = "open" THEN {"sent", "lost"} ELSE {answer[r]}

\* ... and rewinds both buffers, whatever they hold.
AbortedIn(q) == <<>>

\* Mutant: an abort that does not rewind ctx->out.
AbortedOut_Kept(q) == q

AbortedOut(q) == <<>>

Parsed(type) == pc = "read" /\ inq # <<>> /\ Head(inq).type = type

-----------------------------------------------------------------------------
(* Reading                                                                 *)

\* bytestream_consume_data: the peer's next records arrive.
Consume ==
    /\ pc = "read"
    /\ inq = <<>>
    /\ \E n \in 1..MaxChunk : \E recs \in [1..n -> InRec] : inq' = recs
    /\ UNCHANGED <<pc, cur, requests, req, outq, answer, fault>>

\* End of file, an error, or mnfcgi_ctx_send_interrupt from another thread.
ConsumeFails ==
    /\ pc = "read"
    /\ inq = <<>>
    /\ HangUp

ParseFails == Parsed("BAD") /\ HangUp

\* mnfcgi_parse_payload has no case for this type and aborts the process.
UnknownType ==
    /\ Parsed("UNKNOWN_TYPE")
    /\ pc' = "crashed"
    /\ UNCHANGED <<inq, cur, requests, req, outq, answer, fault>>

-----------------------------------------------------------------------------
(* Handling a record                                                       *)

BeginUnsupported == Parsed("BEGIN_ROLE") /\ Reply

\* The record's id is taken: END_REQUEST, and the first request lives on.
BeginDouble ==
    /\ Parsed("BEGIN")
    /\ Head(inq).rid \in requests
    /\ Reply

\* The request object exists from here on, but is entered into the table only
\* when begin_request_parse has returned.
BeginNew ==
    /\ Parsed("BEGIN")
    /\ LET r == Head(inq).rid
       IN  /\ r \notin requests
           /\ req' = [req EXCEPT ![r] = "open"]
           /\ answer' = [answer EXCEPT ![r] = "none"]
    /\ cur' = Head(inq)
    /\ inq' = Tail(inq)
    /\ pc' = "cb"
    /\ UNCHANGED <<requests, outq, fault>>

NoSuchRequest ==
    /\ \E type \in StreamTypes \cup {"ABORT"} : Parsed(type)
    /\ Head(inq).rid \notin requests
    /\ Reply

\* After mnfcgi_abort_request nothing is left to write.
Abort ==
    /\ Parsed("ABORT")
    /\ LET r == Head(inq).rid
       IN  /\ r \in requests
           /\ \E a \in AbortAnswers(r) : answer' = [answer EXCEPT ![r] = a]
           /\ req' = [req EXCEPT ![r] = "none"]
           /\ requests' = requests \ {r}
    /\ inq' = AbortedIn(Tail(inq))
    /\ outq' = AbortedOut(outq)
    /\ UNCHANGED <<pc, cur, fault>>

\* Mutant: the record's request is not looked up.
Stream_NoLookup ==
    /\ \E type \in StreamTypes : Parsed(type)
    /\ cur' = Head(inq)
    /\ inq' = Tail(inq)
    /\ pc' = "cb"
    /\ UNCHANGED <<requests, req, outq, answer, fault>>

\* The record is queued on its request and params_parse, stdin_parse or
\* data_parse is called.
Stream ==
    /\ \E type \in StreamTypes : Parsed(type)
    /\ Head(inq).rid \in requests
    /\ cur' = Head(inq)
    /\ inq' = Tail(inq)
    /\ pc' = "cb"
    /\ UNCHANGED <<requests, req, outq, answer, fault>>

\* Mutant: the record goes back with the type it came with.
GetValues_TypeKept ==
    /\ Parsed("GET_VALUES")
    /\ Len(outq) < MaxPending
    /\ inq' = Tail(inq)
    /\ outq' = Append(outq, Head(inq))
    /\ UNCHANGED <<pc, cur, requests, req, answer, fault>>

\* The record becomes its own result, which is rendered and stays in ctx->out.
GetValues ==
    /\ Parsed("GET_VALUES")
    /\ Len(outq) < MaxPending
    /\ inq' = Tail(inq)
    /\ outq' = Append(outq, [type |-> "RESULT", rid |-> NullRid])
    /\ UNCHANGED <<pc, cur, requests, req, answer, fault>>

\* mnfcgi_render_kvp returns an offset for a length: with assertions the
\* process aborts; without, the record gets a wrong length, or is refused as
\* too large.
GetValuesPairs ==
    /\ Parsed("GET_VALUES_KV")
    /\ Len(outq) < MaxPending
    /\ \/ /\ pc' = "crashed"
          /\ UNCHANGED <<inq, cur, requests, req, outq, answer, fault>>
       \/ /\ inq' = Tail(inq)
          /\ outq' = Append(outq, [type |-> "MANGLED", rid |-> NullRid])
          /\ UNCHANGED <<pc, cur, requests, req, answer, fault>>
       \/ HangUp

\* default: answered by UNKNOWN_TYPE.
Default == Parsed("GET_VALUES_RESULT") /\ Reply

-----------------------------------------------------------------------------
(* The library called from the running callback                            *)

InCallback(r) == pc = "cb" /\ cur.rid = r

\* Mutant: mnfcgi_render_stdout without its test of flags.complete.
RenderStdout_Unchecked(r) ==
    /\ InCallback(r)
    /\ Len(outq) < MaxPending
    /\ outq' = Append(outq, [type |-> "STDOUT", rid |-> r])
    /\ UNCHANGED <<pc, inq, cur, requests, req, answer, fault>>

RenderStdout(r) ==
    /\ InCallback(r)
    /\ req[r] = "open"
    /\ Len(outq) < MaxPending
    /\ outq' = Append(outq, [type |-> "STDOUT", rid |-> r])
    /\ UNCHANGED <<pc, inq, cur, requests, req, answer, fault>>

\* A renderer that fails, or writes more than MNFCGI_MAX_PAYLOAD: mnfcgi_render
\* returns an error and leaves what it has written in ctx->out.
RenderFails(r) ==
    /\ InCallback(r)
    /\ req[r] = "open"
    /\ Len(outq) < MaxPending
    /\ outq' = Append(outq, [type |-> "PARTIAL", rid |-> r])
    /\ UNCHANGED <<pc, inq, cur, requests, req, answer, fault>>

\* Mutant: mnfcgi_flush_out rewinds both buffers, as an abort does.
FlushOut_Both(r) ==
    /\ InCallback(r)
    /\ req[r] = "open"
    /\ inq' = <<>>
    /\ outq' = <<>>
    /\ UNCHANGED <<pc, cur, requests, req, answer, fault>>

\* mnfcgi_flush_out: whether or not the write succeeds, nothing is left.
FlushOut(r) ==
    /\ InCallback(r)
    /\ req[r] = "open"
    /\ outq' = <<>>
    /\ UNCHANGED <<pc, inq, cur, requests, req, answer, fault>>

\* Mutant: a finalized request that is not flagged complete.
Finalize_StaysOpen(r) ==
    /\ InCallback(r)
    /\ \E a \in AbortAnswers(r) : answer' = [answer EXCEPT ![r] = a]
    /\ inq' = <<>>
    /\ outq' = <<>>
    /\ UNCHANGED <<pc, cur, requests, req, fault>>

\* mnfcgi_finalize_request: empty STDOUT and END_REQUEST, written with all that
\* is pending, once; both buffers are rewound each time.
Finalize(r) ==
    /\ InCallback(r)
    /\ \E a \in AbortAnswers(r) : answer' = [answer EXCEPT ![r] = a]
    /\ req' = [req EXCEPT ![r] = "complete"]
    /\ inq' = <<>>
    /\ outq' = <<>>
    /\ UNCHANGED <<pc, cur, requests, fault>>

-----------------------------------------------------------------------------
(* The callback returns                                                    *)

\* Mutants: a completed request is entered into the table; is not destroyed.
TableAfter_Kept(r) == requests \cup {r}

ObjectAfter_Kept(r) == req[r]

\* The table and the object after a callback that returned no error: a
\* completed request is destroyed, an open one is in the table.
TableAfter(r) == IF req[r] = "open" THEN requests \cup {r} ELSE requests \ {r}

ObjectAfter(r) == IF req[r] = "open" THEN "open" ELSE "none"

CallbackOk(r) ==
    /\ InCallback(r)
    /\ requests' = TableAfter(r)
    /\ req' = [req EXCEPT ![r] = ObjectAfter(r)]
    /\ pc' = "read"
    /\ cur' = NoRec
    /\ UNCHANGED <<inq, outq, answer, fault>>

\* The error return common to the four callbacks: the request is aborted and
\* destroyed, and the callback's record with it.
AbortInCallback(r) ==
    /\ \E a \in AbortAnswers(r) : answer' = [answer EXCEPT ![r] = a]
    /\ requests' = requests \ {r}
    /\ inq' = AbortedIn(inq)
    /\ outq' = <<>>
    /\ cur' = NoRec

\* begin_request_parse, params_parse: what the abort left is written; were
\* this to fail, the err label would destroy the record again.
HeadCallbackFails(r) ==
    /\ InCallback(r)
    /\ cur.type \in {"BEGIN", "PARAMS"}
    /\ AbortInCallback(r)
    /\ \E ok \in WriteOutcomes(AbortedOut(outq)) :
          LET gone == [req EXCEPT ![r] = "none"]
          IN  /\ pc' = IF ok THEN "read" ELSE "closing"
              /\ req' = IF ok THEN gone ELSE MarkComplete(requests \ {r}, gone)
              /\ fault' = IF ok THEN fault ELSE fault \cup {"double_destroy"}

\* stdin_parse, data_parse: falls through to "if (req->flags.complete)" on the
\* destroyed request; the freed flag still reads as set, or no longer does.
BodyCallbackFails(r) ==
    /\ InCallback(r)
    /\ cur.type \in {"STDIN", "DATA"}
    /\ AbortInCallback(r)
    /\ req' = [req EXCEPT ![r] = "none"]
    /\ fault' = fault \cup {"use_after_destroy"}
    /\ pc' \in {"read", "crashed"}

CallbackReturns(r) == CallbackOk(r) \/ HeadCallbackFails(r) \/ BodyCallbackFails(r)

-----------------------------------------------------------------------------
(* Closing: mnfcgi_ctx_fini                                                *)

\* Mutant: a request that was never answered is skipped.
DestroyRequest_Answered(r) ==
    /\ pc = "closing"
    /\ r \in requests
    /\ answer[r] # "none"
    /\ requests' = requests \ {r}
    /\ req' = [req EXCEPT ![r] = "none"]
    /\ UNCHANGED <<pc, inq, cur, outq, answer, fault>>

\* hash_fini destroys the requests one by one, each with its end_request_render.
DestroyRequest(r) ==
    /\ pc = "closing"
    /\ r \in requests
    /\ requests' = requests \ {r}
    /\ req' = [req EXCEPT ![r] = "none"]
    /\ UNCHANGED <<pc, inq, cur, outq, answer, fault>>

CloseDone ==
    /\ pc = "closing"
    /\ requests = {}
    /\ pc' = "closed"
    /\ UNCHANGED <<inq, cur, requests, req, outq, answer, fault>>

-----------------------------------------------------------------------------
Read == Consume \/ ConsumeFails \/ ParseFails \/ UnknownType

Handle ==
    \/ BeginUnsupported \/ BeginDouble \/ BeginNew
    \/ NoSuchRequest \/ Abort \/ Stream
    \/ GetValues \/ GetValuesPairs \/ Default

CallLibrary(r) == RenderStdout(r) \/ RenderFails(r) \/ FlushOut(r) \/ Finalize(r)

Next ==
    \/ Read
    \/ Handle
    \/ \E r \in Rid : CallLibrary(r) \/ CallbackReturns(r) \/ DestroyRequest(r)
    \/ CloseDone

Spec == Init /\ [][Next]_vars

\* Callbacks return, and a thread that has left its loop runs to its end.  The
\* peer need not send, nor read what is written to it.
FairSpec ==
    /\ Spec
    /\ \A r \in Rid : WF_vars(CallbackReturns(r)) /\ WF_vars(DestroyRequest(r))
    /\ WF_vars(CloseDone)

-----------------------------------------------------------------------------
(* Safety                                                                  *)

\* Between two records the table holds exactly the requests that are open: no
\* object is leaked and no completed one is left to be found by a later record
\* of the same id (the "if (req->flags.complete)" after every callback).
TableOpen ==
    pc = "read" =>
        \A r \in Rid : req[r] = IF r \in requests THEN "open" ELSE "none"

\* A callback runs on a request that exists, and that is in the table unless
\* the callback is begin_request_parse.
CallbackTarget ==
    pc = "cb" =>
        /\ cur.type \in StreamTypes \cup {"BEGIN"}
        /\ cur.rid \in Rid
        /\ req[cur.rid] # "none"
        /\ cur.rid \in requests <=> cur.type # "BEGIN"

\* An open request has no END_REQUEST yet and one completed in its callback
\* has had one: finalizing, aborting and a failing callback, in any order, add
\* up to a single END_REQUEST (flags.complete).
AnsweredOnce ==
    \A r \in Rid :
        /\ req[r] = "open" => answer[r] = "none"
        /\ req[r] = "complete" /\ pc = "cb" => answer[r] # "none"

\* STDOUT waiting in ctx->out belongs to a request that is still open: nothing
\* of a request can reach the peer after its END_REQUEST, whoever triggers the
\* next write.
PendingOwned ==
    \A i \in DOMAIN outq : outq[i].rid # NullRid => req[outq[i].rid] = "open"

\* When the callback's request is complete nothing is pending, not even a result
\* for the web server: the rewind of a second mnfcgi_finalize_request, or of an
\* abort that writes nothing, throws away no record.
RewindLosesNothing ==
    pc = "cb" /\ req[cur.rid] = "complete" => outq = <<>>

\* Once the handler has left its loop every remaining request is complete and
\* both buffers are empty, so that the end_request_render callbacks of
\* mnfcgi_ctx_fini cannot render to a closed connection.
ClosingQuiet ==
    pc = "closing" =>
        /\ inq = <<>> /\ outq = <<>>
        /\ \A r \in Rid : req[r] = IF r \in requests THEN "complete" ELSE "none"

\* The err label does not destroy a record that the failed callback's request
\* has already taken with it: mnfcgi_abort_request leaves nothing to write, and
\* so the write that follows it cannot fail.
NoDoubleDestroy == "double_destroy" \notin fault

\* While a callback runs only its own request can be complete or outside of the
\* table; with the invariants above this is inductive.
OthersOpen ==
    pc = "cb" =>
        \A r \in Rid \ {cur.rid} :
            req[r] = IF r \in requests THEN "open" ELSE "none"

\* The inductive invariant of the handler.
IInv ==
    /\ TypeOK
    /\ TableOpen
    /\ CallbackTarget
    /\ OthersOpen
    /\ AnsweredOnce
    /\ PendingOwned
    /\ ClosingQuiet
    /\ NoDoubleDestroy

-----------------------------------------------------------------------------
(* Refinement                                                              *)

LifeOf(object) ==
    IF object = "none" THEN "idle" ELSE IF object = "open" THEN "open" ELSE "done"

Life == INSTANCE FcgiLife WITH
            life <- [r \in Rid |-> LifeOf(req[r])],
            reply <- answer,
            up <- pc \notin {"closing", "closed"}

\* A connection keeps the promise of FcgiLife about each of its requests.
ImplementsLife == Life!LifeSpec

-----------------------------------------------------------------------------
(* Liveness                                                                *)

\* A completed request is destroyed, in its callback's return or with the
\* connection.
CompletedIsReleased ==
    \A r \in Rid : req[r] = "complete" ~> req[r] = "none"

\* A connection that hangs up releases all of its requests and ends.
HangUpEnds ==
    pc = "closing" ~> (pc = "closed" /\ \A r \in Rid : req[r] = "none")

-----------------------------------------------------------------------------
(* What the code or its documentation says and the handler does not do     *)

\* MPXS_CONNS is answered "1" (mnfcgi_proto.c:1290-1295) and a connection has a
\* table of requests (mnfcgi_private.h:305): what a callback does to its own
\* request leaves the input of the other requests alone.
InputOf(r, q) == SelectSeq(q, LAMBDA rec : rec.rid = r)

OthersInputKept ==
    [][pc = "cb" =>
        \A r \in Rid \ {cur.rid} : InputOf(r, inq') = InputOf(r, inq)]_vars

\* After a callback's error the request "is destroyed" and is not passed down
\* (mnfcgi_proto.c:1156).
NoUseAfterDestroy == "use_after_destroy" \notin fault

=============================================================================
