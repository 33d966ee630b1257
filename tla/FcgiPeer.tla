------------------------------ MODULE FcgiPeer ------------------------------
(***************************************************************************)
(* A web server on the other end of an FcgiConn: it keeps the connection   *)
(* open and sends one request at a time, reusing ids; it may abort one, or *)
(* close.  The records of both directions are in flight for a while.       *)
(*                                                                         *)
(* The application answers in the callback of the last STDIN record, if it *)
(* has not answered or failed before.  Its renderers do not fail.          *)
(***************************************************************************)
EXTENDS FcgiConn, Integers

CONSTANT
    MaxFlight   \* bound: records in flight in one direction

ASSUME FlightAssumption == MaxFlight \in Nat

VARIABLES
    peer,       \* "idle"; "begun", "params": the request is being sent;
                \* "waiting" for its END_REQUEST; "gone"
    id,         \* the id of its request
    toServer,   \* records on their way to the handler
    toPeer,     \* records on their way back
    early,      \* history: a request was answered before its last record had
                \* been parsed, or aborted after it had been sent
    unread      \* history: records that have been sent and not been parsed, as
                \* long as no answer comes early

peerVars == <<peer, id, toServer, toPeer, early, unread>>
allVars == <<vars, peerVars>>

\* Mutant: the id of the END_REQUEST's header is not set.
End_NoId(r) == [type |-> "END", rid |-> NullRid]

End(r) == [type |-> "END", rid |-> r]

PeerTypeOK ==
    /\ peer \in {"idle", "begun", "params", "waiting", "gone"}
    /\ id \in Rid
    /\ toServer \in Seq(InRec)
    /\ toPeer \in Seq(OutRec \cup [type : {"END"}, rid : Rid])
    /\ early \in BOOLEAN
    /\ unread \in Int

PeerInit ==
    /\ Init
    /\ peer = "idle"
    /\ id \in Rid
    /\ toServer = <<>> /\ toPeer = <<>>
    /\ early = FALSE
    /\ unread = 0

-----------------------------------------------------------------------------
(* The web server                                                          *)

SendRecord(type, r) ==
    /\ Len(toServer) < MaxFlight /\ Len(toPeer) < MaxFlight
    /\ toServer' = Append(toServer, [type |-> type, rid |-> r])
    /\ unread' = IF early THEN 0 ELSE unread + 1

PeerBegins ==
    /\ peer = "idle"
    /\ \E r \in Rid : id' = r /\ SendRecord("BEGIN", r)
    /\ peer' = "begun"
    /\ UNCHANGED <<vars, toPeer, early>>

PeerParams ==
    /\ peer = "begun"
    /\ SendRecord("PARAMS", id)
    /\ peer' = "params"
    /\ UNCHANGED <<vars, id, toPeer, early>>

PeerStdin ==
    /\ peer = "params"
    /\ SendRecord("STDIN", id)
    /\ peer' \in {"params", "waiting"}
    /\ UNCHANGED <<vars, id, toPeer, early>>

PeerAborts ==
    /\ peer \in {"begun", "params", "waiting"}
    /\ SendRecord("ABORT", id)
    /\ peer' = "waiting"
    /\ early' = (early \/ peer = "waiting")
    /\ UNCHANGED <<vars, id, toPeer>>

\* An END_REQUEST with the id of its request ends it.
PeerTakes ==
    /\ peer # "gone"
    /\ toPeer # <<>>
    /\ toPeer' = Tail(toPeer)
    /\ peer' = IF peer # "idle" /\ Head(toPeer) = End(id) THEN "idle" ELSE peer
    /\ UNCHANGED <<vars, id, toServer, early, unread>>

PeerCloses ==
    /\ peer # "gone"
    /\ peer' = "gone"
    /\ toPeer' = <<>>
    /\ UNCHANGED <<vars, id, toServer, early, unread>>

-----------------------------------------------------------------------------
(* The handler                                                             *)

\* What is in flight, or part of it, is read.
ReadInto(n) ==
    /\ n <= Len(toServer)
    /\ inq' = SubSeq(toServer, 1, n)
    /\ toServer' = SubSeq(toServer, n + 1, Len(toServer))

\* Mutant: the buffer is filled again before all of it has been parsed.
Receive_Overwrites ==
    /\ pc = "read"
    /\ \E n \in 1..MaxChunk : ReadInto(n)
    /\ UNCHANGED <<pc, cur, requests, req, outq, answer, fault>>
    /\ UNCHANGED <<peer, id, toPeer, early, unread>>

\* bytestream_consume_data
Receive ==
    /\ pc = "read"
    /\ inq = <<>>
    /\ \E n \in 1..MaxChunk : ReadInto(n)
    /\ UNCHANGED <<pc, cur, requests, req, outq, answer, fault>>
    /\ UNCHANGED <<peer, id, toPeer, early, unread>>

Eof == peer = "gone" /\ ConsumeFails /\ UNCHANGED peerVars

\* Mutant: what is rendered last is not written with the rest.
Transmit_PendingOnly(recs) == toPeer' = IF peer = "gone" THEN toPeer ELSE toPeer \o outq

\* bytestream_produce_data: all that is pending, and then what the handler
\* writes.  It fails only when the web server has gone.
Transmit(recs) == toPeer' = IF peer = "gone" THEN toPeer ELSE toPeer \o outq \o recs

ParsesOne == unread' = IF early THEN 0 ELSE unread - 1

Accepts ==
    /\ BeginNew \/ Stream
    /\ ParsesOne
    /\ UNCHANGED <<peer, id, toServer, toPeer, early>>

AbortsOne ==
    /\ Abort
    /\ ParsesOne
    /\ answer'[Head(inq).rid] = "lost" => peer = "gone"
    /\ Transmit(<<End(Head(inq).rid)>>)
    /\ UNCHANGED <<peer, id, toServer, early>>

\* A record whose request is not there, or is there already.
AnswersStray ==
    /\ NoSuchRequest \/ BeginDouble
    /\ ParsesOne
    /\ pc' = "closing" => peer = "gone"
    /\ Transmit(<<End(Head(inq).rid)>>)
    /\ UNCHANGED <<peer, id, toServer, early>>

Renders(r) == RenderStdout(r) /\ UNCHANGED peerVars

Flushes(r) ==
    /\ FlushOut(r)
    /\ Len(toPeer) < MaxFlight
    /\ Transmit(<<>>)
    /\ UNCHANGED <<peer, id, toServer, early, unread>>

LastCallback ==
    peer = "waiting" /\ toServer = <<>> /\ inq = <<>> /\ cur.type = "STDIN"

\* The web server has sent its request, and all of it has been parsed.
RequestOver == peer = "waiting" /\ unread = 0

\* The request is finalized, or its callback fails.
Ends(r) ==
    /\ req[r] = "open"
    /\ Finalize(r) \/ HeadCallbackFails(r) \/ BodyCallbackFails(r)
    /\ answer'[r] = "lost" => peer = "gone"
    /\ Transmit(<<End(r)>>)
    /\ early' = (early \/ ~RequestOver)
    /\ UNCHANGED <<peer, id, toServer, unread>>

\* A callback of a finalized request returns, or one that leaves its request
\* open, which the last does not.
Returns(r) ==
    /\ req[r] = "complete" \/ ~LastCallback
    /\ CallbackReturns(r)
    /\ req[r] = "open" => req'[r] = "open"
    /\ UNCHANGED peerVars

Closes == (CloseDone \/ \E r \in Rid : DestroyRequest(r)) /\ UNCHANGED peerVars

-----------------------------------------------------------------------------
Peer == PeerBegins \/ PeerParams \/ PeerStdin \/ PeerAborts \/ PeerTakes \/ PeerCloses

Handles == Receive \/ Eof \/ Accepts \/ AbortsOne \/ AnswersStray

PeerNext ==
    \/ Peer
    \/ Handles
    \/ \E r \in Rid : Renders(r) \/ Flushes(r) \/ Ends(r) \/ Returns(r)
    \/ Closes

PeerSpec == PeerInit /\ [][PeerNext]_allVars

\* Records arrive and are handled, callbacks return, the last one answers, and
\* a thread that has left its loop runs to its end.  The web server reads what
\* it is sent; it need not send anything.
PeerFairSpec ==
    /\ PeerSpec
    /\ WF_allVars(Handles) /\ WF_allVars(PeerTakes) /\ WF_allVars(Closes)
    /\ \A r \in Rid :
          /\ WF_allVars(LastCallback /\ Ends(r))
          /\ WF_allVars(Returns(r))

-----------------------------------------------------------------------------
(* Properties                                                              *)

\* The handler, whatever else it could be sent, behaves as FcgiConn says, and
\* has the properties proved of it.
ImplementsConn == Spec

\* When the web server has taken the END_REQUEST of a request nothing of it is
\* under way any more, in either direction, and the next request under the same
\* id cannot meet records or an END_REQUEST of this one.
NothingStale ==
    peer = "idle" /\ ~early =>
        toServer = <<>> /\ inq = <<>> /\ toPeer = <<>> /\ outq = <<>>

\* ... and so at most the web server's request is open, and it is not answered
\* before the web server has sent all of it.
OneRequest ==
    ~early /\ peer # "gone" =>
        /\ \A r \in Rid \ {id} : req[r] # "open"
        /\ End(id) \in {toPeer[i] : i \in DOMAIN toPeer} =>
              peer = "waiting" /\ req[id] # "open"

\* Every record that the web server has sent is parsed or still there.  Finalizing
\* a request, aborting it for an ABORT_REQUEST and the failing callbacks rewind
\* ctx->in whatever is in it; when the request has been parsed to its end nothing
\* is, and nothing is read before the callback is over.
NoInputLost ==
    ~early /\ peer # "gone" => unread = Len(inq) + Len(toServer)

\* A request that has been sent to its end is answered.
RequestAnswered ==
    peer = "waiting" ~> peer # "waiting" \/ early \/ pc = "crashed"

\* When the web server closes, the handler ends and its requests are released.
GoneReleases ==
    peer = "gone" ~> pc = "crashed" \/ (pc = "closed" /\ \A r \in Rid : req[r] = "none")

-----------------------------------------------------------------------------
(* The inductive invariant                                                 *)

\* What the web server has sent and the handler has not parsed yet.
Input == inq \o toServer

\* The connection as a web server sees it that is still there and has been
\* answered in order so far.
Orderly == ~early /\ peer # "gone"

\* The handler does not hang up on a web server that is there, and what it has
\* rendered belongs to requests.
HandlerStays ==
    /\ peer # "gone" => pc \in {"read", "cb", "crashed"}
    /\ \A i \in DOMAIN outq : outq[i].rid # NullRid

\* The input is a part of one request: BEGIN first, ABORT last.
InputOfOne ==
    Orderly =>
        \A i \in DOMAIN Input :
            /\ Input[i].rid = id
            /\ Input[i].type \in {"BEGIN", "PARAMS", "STDIN", "ABORT"}
            /\ Input[i].type = "BEGIN" => i = 1
            /\ Input[i].type = "ABORT" => i = Len(Input) /\ peer = "waiting"

OthersNotOpen == Orderly => \A r \in Rid \ {id} : req[r] # "open"

\* The request has been accepted, is not answered, and may be sent further.
Accepted ==
    /\ req[id] = "open"
    /\ peer \in {"begun", "params", "waiting"}
    /\ \A i \in DOMAIN Input : Input[i].type # "BEGIN"
    /\ \A i \in DOMAIN toPeer : toPeer[i] # End(id)

\* The others do not have it open: there is none, its BEGIN_REQUEST has not been
\* parsed, or its END_REQUEST, the last record of it, has not been taken.
NoRequest ==
    /\ req[id] # "open" /\ peer = "idle"
    /\ Input = <<>> /\ toPeer = <<>>

Sent ==
    /\ req[id] # "open" /\ peer \in {"begun", "params", "waiting"}
    /\ Input # <<>> /\ Input[1].type = "BEGIN"
    /\ toPeer = <<>>

Answered ==
    /\ req[id] # "open" /\ peer = "waiting"
    /\ Input = <<>>
    /\ toPeer # <<>>
    /\ \A i \in DOMAIN toPeer : toPeer[i] = End(id) <=> i = Len(toPeer)

OnePhase == Orderly => Accepted \/ NoRequest \/ Sent \/ Answered

\* A request is finalized in order only when its input is over.
CompleteHasNoInput ==
    pc = "cb" /\ req[cur.rid] = "complete" /\ ~early => inq = <<>>

\* The handler's own invariant is IInv.
PeerIInv ==
    /\ PeerTypeOK
    /\ HandlerStays
    /\ InputOfOne
    /\ OthersNotOpen
    /\ OnePhase
    /\ CompleteHasNoInput
    /\ NoInputLost

=============================================================================
