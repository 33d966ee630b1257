---------------------------- MODULE FcgiPeerProof ----------------------------
(***************************************************************************)
(* A connection with a web server is a connection, for any set of ids and  *)
(* any bounds: every step of FcgiPeer is one that FcgiConn allows, or      *)
(* changes nothing of the handler.  What is proved of FcgiConn holds of    *)
(* the handler in FcgiPeer.  And unless an answer comes early, nothing is  *)
(* left of a request when the next one begins: PeerIInv is inductive.      *)
(***************************************************************************)
EXTENDS FcgiPeer, FcgiConnProof, SequenceTheorems

\* What is in flight to the handler are records that FcgiConn can receive.
FlightOk == id \in Rid /\ toServer \in Seq(InRec)

\* A record that the web server sends is one of them.
LEMMA SentRecord ==
  ASSUME FlightOk, NEW r \in Rid, NEW type \in {"BEGIN", "PARAMS", "STDIN", "ABORT"},
         SendRecord(type, r)
  PROVE  toServer' \in Seq(InRec)
  <1>1. [type |-> type, rid |-> r] \in InRec
    BY DEF InRec, RequestTypes, StreamTypes
  <1>. QED BY <1>1 DEF SendRecord, FlightOk

\* What a read takes from the front of the flight, and what it leaves of it.
LEMMA ReadSplits ==
  ASSUME FlightOk, NEW n \in 1..MaxChunk, ReadInto(n)
  PROVE  inq' \in [1..n -> InRec] /\ toServer' \in Seq(InRec)
  <1>1. n \in Nat /\ n <= Len(toServer) /\ Len(toServer) \in Nat
    BY BoundAssumption DEF ReadInto, FlightOk
  <1>2. /\ SubSeq(toServer, 1, n) \in Seq(InRec)
        /\ Len(SubSeq(toServer, 1, n)) = n
        /\ SubSeq(toServer, n + 1, Len(toServer)) \in Seq(InRec)
    BY <1>1, SubSeqProperties DEF FlightOk
  <1>3. SubSeq(toServer, 1, n) \in [1..n -> InRec]
    BY <1>2, LenProperties
  <1>. QED BY <1>2, <1>3 DEF ReadInto

\* The invariant is kept by every step: only the web server adds to the flight.
LEMMA FlightInvariant == PeerSpec => []FlightOk
  <1>1. PeerInit => FlightOk
    BY DEF PeerInit, FlightOk
  <1>2. ASSUME FlightOk, [PeerNext]_allVars
        PROVE  FlightOk'
    <2>1. CASE Peer
      BY <1>2, <2>1, SentRecord DEF Peer, PeerBegins, PeerParams, PeerStdin, PeerAborts,
         PeerTakes, PeerCloses, FlightOk
    <2>2. CASE Receive
      BY <1>2, <2>2, ReadSplits DEF Receive, FlightOk
    <2>3. CASE UNCHANGED <<id, toServer>>
      BY <1>2, <2>3 DEF FlightOk
    <2>. QED BY <1>2, <2>1, <2>2, <2>3 DEF PeerNext, Handles, Eof, Accepts, AbortsOne,
            AnswersStray, Renders, Flushes, Ends, Returns, Closes, peerVars, allVars
  <1>. QED BY <1>1, <1>2, PTL DEF PeerSpec

\* Every step of the composition is a step of the handler, or none of it.
LEMMA PeerStepSimulation ==
  ASSUME FlightOk, [PeerNext]_allVars
  PROVE  [Next]_vars
  <1>1. CASE Peer
    BY <1>1 DEF Peer, PeerBegins, PeerParams, PeerStdin, PeerAborts, PeerTakes, PeerCloses
  <1>2. CASE Receive
    <2>1. Consume
      BY <1>2, ReadSplits DEF Receive, Consume
    <2>. QED BY <2>1 DEF Next, Read
  <1>3. CASE Eof \/ Accepts \/ AbortsOne \/ AnswersStray
    BY <1>3 DEF Eof, Accepts, AbortsOne, AnswersStray, Next, Read, Handle
  <1>4. ASSUME NEW r \in Rid, Renders(r) \/ Flushes(r) \/ Ends(r) \/ Returns(r)
        PROVE  Next
    BY <1>4 DEF Renders, Flushes, Ends, Returns, Next, CallLibrary, CallbackReturns
  <1>5. CASE Closes
    BY <1>5 DEF Closes, Next
  <1>6. CASE UNCHANGED allVars
    BY <1>6 DEF allVars
  <1>. QED BY <1>1, <1>2, <1>3, <1>4, <1>5, <1>6 DEF PeerNext, Handles

\* The handler in the composition with a web server is that of FcgiConn.
THEOREM PeerImplementation == PeerSpec => ImplementsConn
  <1>1. PeerInit => Init
    BY DEF PeerInit
  <1>. QED BY <1>1, PeerStepSimulation, FlightInvariant, PTL
          DEF PeerSpec, Spec, ImplementsConn

-----------------------------------------------------------------------------
(* The invariant of the requests of one web server                         *)

\* The records are the handler's records.
LEMMA Records ==
  ASSUME IInv, PeerTypeOK
  PROVE  /\ inq \in Seq(InRec) /\ toServer \in Seq(InRec) /\ outq \in Seq(OutRec)
         /\ Input \in Seq(InRec)
         /\ Len(Input) = Len(inq) + Len(toServer)
         /\ \A i \in 1..Len(inq) : Input[i] = inq[i]
         /\ Input = <<>> => inq = <<>> /\ toServer = <<>>
         /\ inq = <<>> /\ toServer = <<>> => Input = <<>>
  <1>1. inq \in Seq(InRec) /\ toServer \in Seq(InRec) /\ outq \in Seq(OutRec)
    BY DEF IInv, TypeOK, PeerTypeOK
  <1>2. /\ Input \in Seq(InRec) /\ Len(Input) = Len(inq) + Len(toServer)
        /\ \A i \in 1..Len(inq) : Input[i] = inq[i]
    BY <1>1, ConcatProperties DEF Input
  <1>3. Input = <<>> => inq = <<>> /\ toServer = <<>>
    BY <1>1, <1>2, EmptySeq
  <1>4. inq = <<>> /\ toServer = <<>> => Input = <<>>
    BY <1>1, ConcatEmptySeq DEF Input
  <1>. QED BY <1>1, <1>2, <1>3, <1>4

\* A record sent comes last.
LEMMA SendAppends ==
  ASSUME IInv, PeerTypeOK, NEW rec \in InRec, toServer' = Append(toServer, rec), inq' = inq
  PROVE  /\ toServer' \in Seq(InRec) /\ Len(toServer') = Len(toServer) + 1
         /\ Input' \in Seq(InRec)
         /\ Len(Input') = Len(Input) + 1
         /\ \A i \in 1..Len(Input) : Input'[i] = Input[i]
         /\ Input'[Len(Input) + 1] = rec
  <1>1. Input' = Append(Input, rec)
    BY Records, AppendProperties DEF Input
  <1>. QED BY <1>1, Records, AppendProperties

\* A read moves records, and leaves their order.
LEMMA ReceiveKeeps ==
  ASSUME IInv, PeerTypeOK, Receive
  PROVE  /\ inq' \in Seq(InRec) /\ toServer' \in Seq(InRec) /\ Input' = Input
         /\ Len(inq') + Len(toServer') = Len(inq) + Len(toServer)
  <1>1. PICK n \in 1..MaxChunk : ReadInto(n)
    BY DEF Receive
  <1>2. n \in 1..Len(toServer) /\ Len(toServer) \in Nat
    BY <1>1, Records, BoundAssumption DEF ReadInto
  <1>3. inq' \in Seq(InRec) /\ toServer' \in Seq(InRec)
    BY <1>1, <1>2, Records, SubSeqProperties DEF ReadInto
  <1>4. Input' = SubSeq(toServer, 1, n) \o SubSeq(toServer, n + 1, Len(toServer))
    BY <1>1 DEF ReadInto, Input
  <1>5. Input' = toServer
    BY <1>2, <1>4, Records, ConcatAdjacentSubSeq, SubSeqFull
  <1>6. Input = toServer
    BY Records, ConcatEmptySeq DEF Input, Receive
  <1>7. Len(Input') = Len(inq') + Len(toServer') /\ Len(Input) = Len(inq) + Len(toServer)
    BY <1>3, Records, ConcatProperties DEF Input
  <1>. QED BY <1>3, <1>5, <1>6, <1>7

\* Parsing takes the first record.
LEMMA ParseTakes ==
  ASSUME IInv, PeerTypeOK, inq # <<>>, inq' = Tail(inq), toServer' = toServer
  PROVE  /\ Head(inq) = Input[1] /\ Len(Input) >= 1
         /\ Input' \in Seq(InRec)
         /\ Len(Input') = Len(Input) - 1
         /\ \A i \in 1..Len(Input') : Input'[i] = Input[i + 1]
  <1>1. Len(inq) >= 1 /\ Tail(inq) \in Seq(InRec) /\ Len(Tail(inq)) = Len(inq) - 1
    BY Records, EmptySeq, HeadTailProperties
  <1>2. Input' = Tail(Input)
    BY <1>1, Records, HeadTailProperties DEF Input
  <1>. QED BY <1>1, <1>2, Records, HeadTailProperties

\* What is sent or parsed of an orderly input is counted.
LEMMA Counted ==
  ASSUME IInv, PeerIInv, inq' \in Seq(InRec), toServer' \in Seq(InRec),
         Orderly' => /\ Orderly
                     /\ unread' - unread = Len(inq') + Len(toServer') - Len(inq) - Len(toServer)
  PROVE  unread' \in Int => NoInputLost'
  <1>1. /\ unread \in Int /\ Len(inq) \in Nat /\ Len(toServer) \in Nat
        /\ Len(inq') \in Nat /\ Len(toServer') \in Nat
    BY LenProperties DEF PeerIInv, PeerTypeOK, IInv, TypeOK
  <1>. QED BY <1>1 DEF PeerIInv, NoInputLost, Orderly

\* A new connection has no request and no records.
LEMMA PeerInitInvariant == PeerInit => IInv /\ PeerIInv
  <1>. SUFFICES ASSUME PeerInit
                PROVE  IInv /\ PeerIInv
    OBVIOUS
  <1>1. IInv
    BY InitInvariant DEF PeerInit
  <1>2. PeerTypeOK
    <2>1. unread \in Int
      BY DEF PeerInit
    <2>. QED BY <2>1, EmptySeq DEF PeerInit, PeerTypeOK
  <1>3. Input = <<>>
    BY <1>1, <1>2, Records DEF PeerInit, Init
  <1>4. Len(inq) = 0 /\ Len(toServer) = 0
    BY EmptySeq DEF PeerInit, Init
  <1>. QED BY <1>1, <1>2, <1>3, <1>4 DEF PeerInit, Init, PeerIInv, HandlerStays, InputOfOne,
          OthersNotOpen, OnePhase, NoRequest, CompleteHasNoInput, NoInputLost

\* A record sent is one more that is not parsed.
LEMMA SendCounted ==
  ASSUME IInv, PeerIInv, NEW type, NEW r, SendRecord(type, r), Orderly' => Orderly,
         inq' = inq, toServer' \in Seq(InRec), Len(toServer') = Len(toServer) + 1
  PROVE  unread' \in Int /\ NoInputLost'
  <1>1. /\ unread \in Int /\ inq \in Seq(InRec)
        /\ Len(inq) \in Nat /\ Len(toServer) \in Nat
    BY LenProperties DEF PeerIInv, PeerTypeOK, IInv, TypeOK
  <1>2. unread' = IF early THEN 0 ELSE unread + 1
    BY DEF SendRecord
  <1>. QED BY <1>1, <1>2, Counted DEF Orderly

\* A record parsed is one less.
LEMMA ParseCounted ==
  ASSUME IInv, PeerIInv, ParsesOne, early' = early, peer' = peer, inq # <<>>,
         inq' = Tail(inq), toServer' = toServer
  PROVE  unread' \in Int /\ NoInputLost'
  <1>1. /\ unread \in Int /\ inq \in Seq(InRec) /\ toServer' \in Seq(InRec)
        /\ Len(inq) \in Nat /\ Len(toServer) \in Nat
    BY LenProperties DEF PeerIInv, PeerTypeOK, IInv, TypeOK
  <1>2. Tail(inq) \in Seq(InRec) /\ Len(Tail(inq)) = Len(inq) - 1
    BY <1>1, HeadTailProperties
  <1>3. unread' = IF early THEN 0 ELSE unread - 1
    BY DEF ParsesOne
  <1>. QED BY <1>1, <1>2, <1>3, Counted DEF Orderly

\* The first record of a request.
LEMMA BeginsInvariant ==
  ASSUME IInv, PeerIInv, PeerBegins
  PROVE  PeerIInv'
  <1>1. PICK r \in Rid : id' = r /\ SendRecord("BEGIN", r)
    BY DEF PeerBegins
  <1>. DEFINE rec == [type |-> "BEGIN", rid |-> r]
  <1>2. rec \in InRec /\ toServer' = Append(toServer, rec) /\ inq' = inq
    BY <1>1 DEF PeerBegins, vars, SendRecord, InRec, RequestTypes
  <1>3. /\ toServer' \in Seq(InRec) /\ Input' \in Seq(InRec)
        /\ Len(toServer') = Len(toServer) + 1
        /\ Len(Input') = Len(Input) + 1
        /\ Input'[Len(Input) + 1] = rec
    BY <1>2, SendAppends DEF PeerIInv
  <1>10. unread' \in Int /\ NoInputLost'
    BY <1>1, <1>2, <1>3, SendCounted DEF PeerBegins, Orderly
  <1>4. PeerTypeOK' /\ HandlerStays' /\ CompleteHasNoInput'
    BY <1>1, <1>3, <1>10 DEF PeerBegins, vars, PeerIInv, PeerTypeOK, HandlerStays,
       CompleteHasNoInput
  <1>5. ASSUME Orderly'
        PROVE  NoRequest /\ \A x \in Rid : req[x] # "open"
    BY <1>5 DEF PeerBegins, Orderly, PeerIInv, OnePhase, OthersNotOpen, Accepted, NoRequest,
       Sent, Answered
  <1>6. ASSUME Orderly'
        PROVE  Len(Input') = 1 /\ Input'[1] = rec /\ DOMAIN Input' = {1} /\ Input' # <<>>
    <2>1. Len(Input) = 0
      BY <1>5, <1>6, EmptySeq DEF NoRequest
    <2>2. Len(Input') = 1
      BY <1>3, <2>1
    <2>3. DOMAIN Input' = {1}
      <3>1. DOMAIN Input' = 1..Len(Input')
        BY <1>3, LenProperties
      <3>. QED BY <2>2, <3>1
    <2>4. Input' # <<>>
      BY <2>2, EmptySeq
    <2>. QED BY <1>3, <2>1, <2>2, <2>3, <2>4
  <1>7. InputOfOne'
    BY <1>1, <1>6 DEF InputOfOne
  <1>8. OthersNotOpen'
    BY <1>5 DEF PeerBegins, vars, OthersNotOpen
  <1>9. OnePhase'
    BY <1>1, <1>5, <1>6 DEF PeerBegins, vars, OnePhase, Sent, NoRequest
  <1>. QED BY <1>4, <1>7, <1>8, <1>9, <1>10 DEF PeerIInv

\* A further record of a request that has begun, the last one if it is an abort.
LEMMA SendsInvariant ==
  ASSUME IInv, PeerIInv, NEW type \in {"PARAMS", "STDIN", "ABORT"},
         peer \in {"begun", "params", "waiting"}, peer' \in {"begun", "params", "waiting"},
         SendRecord(type, id),
         peer = "waiting" => early',
         early => early', early' \in BOOLEAN,
         type = "ABORT" => peer' = "waiting",
         UNCHANGED <<vars, id, toPeer>>
  PROVE  PeerIInv'
  <1>. DEFINE rec == [type |-> type, rid |-> id]
  <1>0. PeerTypeOK
    BY DEF PeerIInv
  <1>1. rec \in InRec /\ toServer' = Append(toServer, rec) /\ inq' = inq
    BY <1>0 DEF vars, SendRecord, InRec, RequestTypes, StreamTypes, PeerTypeOK
  <1>2. /\ toServer' \in Seq(InRec) /\ Input' \in Seq(InRec)
        /\ Len(toServer') = Len(toServer) + 1
        /\ Len(Input') = Len(Input) + 1
        /\ \A i \in 1..Len(Input) : Input'[i] = Input[i]
        /\ Input'[Len(Input) + 1] = rec
    BY <1>0, <1>1, SendAppends
  <1>11. unread' \in Int /\ NoInputLost'
    BY <1>1, <1>2, SendCounted DEF Orderly
  <1>3. Input \in Seq(InRec) /\ DOMAIN Input = 1..Len(Input) /\ Len(Input) \in Nat
    BY <1>0, Records
  <1>4. DOMAIN Input' = 1..(Len(Input) + 1)
    BY <1>2, <1>3, LenProperties
  <1>5. PeerTypeOK' /\ HandlerStays' /\ CompleteHasNoInput' /\ OthersNotOpen'
    BY <1>0, <1>2, <1>11 DEF vars, PeerIInv, PeerTypeOK, HandlerStays, CompleteHasNoInput,
       OthersNotOpen, Orderly
  <1>6. ASSUME Orderly'
        PROVE  Orderly /\ peer \in {"begun", "params"} /\ (Accepted \/ Sent)
    BY <1>6 DEF Orderly, PeerIInv, OnePhase, Accepted, NoRequest, Sent, Answered
  <1>7. InputOfOne'
    <2>. SUFFICES ASSUME Orderly', NEW i \in DOMAIN Input'
                  PROVE  /\ Input'[i].rid = id'
                         /\ Input'[i].type \in {"BEGIN", "PARAMS", "STDIN", "ABORT"}
                         /\ Input'[i].type = "BEGIN" => i = 1
                         /\ Input'[i].type = "ABORT" => i = Len(Input') /\ peer' = "waiting"
      BY DEF InputOfOne
    <2>1. CASE i \in DOMAIN Input
      BY <1>2, <1>3, <1>6, <2>1 DEF PeerIInv, InputOfOne
    <2>2. CASE i = Len(Input) + 1
      BY <1>2, <2>2
    <2>. QED BY <1>3, <1>4, <2>1, <2>2
  <1>8. ASSUME Accepted, Orderly'
        PROVE  Accepted'
    BY <1>2, <1>3, <1>4, <1>8 DEF Accepted, vars, End
  <1>9. ASSUME Sent, Orderly'
        PROVE  Sent'
    <2>1. Len(Input) >= 1 /\ Input' # <<>>
      BY <1>2, <1>3, <1>9, EmptySeq DEF Sent
    <2>. QED BY <1>2, <1>3, <1>9, <2>1 DEF Sent, vars
  <1>10. OnePhase'
    BY <1>6, <1>8, <1>9 DEF OnePhase
  <1>. QED BY <1>5, <1>7, <1>10, <1>11 DEF PeerIInv

\* An END_REQUEST is the last record of its request to be taken.
LEMMA TakesInvariant ==
  ASSUME IInv, PeerIInv, PeerTakes
  PROVE  PeerIInv'
  <1>0. /\ PeerTypeOK /\ toPeer # <<>>
        /\ toPeer \in Seq(OutRec \cup [type : {"END"}, rid : Rid])
    BY DEF PeerIInv, PeerTypeOK, PeerTakes
  <1>1. /\ toPeer' \in Seq(OutRec \cup [type : {"END"}, rid : Rid])
        /\ Len(toPeer') = Len(toPeer) - 1 /\ Len(toPeer') \in Nat /\ Len(toPeer) \in Nat
        /\ DOMAIN toPeer = 1..Len(toPeer)
        /\ DOMAIN toPeer' = 1..Len(toPeer')
        /\ \A i \in DOMAIN toPeer' : toPeer'[i] = toPeer[i + 1]
        /\ Head(toPeer) = toPeer[1]
    BY <1>0, HeadTailProperties, LenProperties DEF PeerTakes
  <1>2. Input' = Input /\ inq' = inq /\ req' = req /\ id' = id /\ early' = early
    BY DEF PeerTakes, vars, Input
  <1>3. PeerTypeOK' /\ HandlerStays' /\ CompleteHasNoInput' /\ OthersNotOpen' /\ NoInputLost'
    BY <1>0, <1>1, <1>2 DEF vars, PeerTakes, PeerIInv, PeerTypeOK, HandlerStays,
       CompleteHasNoInput, OthersNotOpen, NoInputLost, Orderly
  <1>4. ASSUME Orderly', Accepted
        PROVE  Accepted' /\ peer' = peer
    BY <1>1, <1>2, <1>4 DEF Accepted, PeerTakes, End
  <1>5. ASSUME Orderly', Answered
        PROVE  (Answered' /\ peer' = peer) \/ NoRequest'
    <2>1. CASE Len(toPeer) = 1
      <3>1. toPeer' = <<>>
        BY <1>1, <2>1, EmptySeq
      <3>. QED BY <1>1, <1>2, <1>5, <2>1, <3>1 DEF Answered, NoRequest, PeerTakes
    <2>2. CASE Len(toPeer) > 1
      <3>1. toPeer' # <<>> /\ peer' = peer
        BY <1>1, <1>5, <2>2, EmptySeq DEF Answered, PeerTakes
      <3>2. \A i \in DOMAIN toPeer' : toPeer'[i] = End(id) <=> i = Len(toPeer')
        BY <1>1, <1>5, <2>2 DEF Answered
      <3>. QED BY <1>2, <1>5, <3>1, <3>2 DEF Answered, End
    <2>3. Len(toPeer) >= 1
      BY <1>0, EmptySeq
    <2>. QED BY <1>1, <2>1, <2>2, <2>3
  <1>6. Orderly' => Orderly /\ (Accepted \/ Answered)
    BY <1>0 DEF PeerIInv, OnePhase, Orderly, PeerTakes, NoRequest, Sent
  <1>7. OnePhase'
    BY <1>4, <1>5, <1>6 DEF OnePhase
  <1>8. InputOfOne'
    BY <1>2, <1>4, <1>5, <1>6 DEF PeerIInv, InputOfOne, NoRequest
  <1>. QED BY <1>3, <1>7, <1>8 DEF PeerIInv

\* A web server that has gone is owed nothing.
LEMMA ClosesInvariant ==
  ASSUME IInv, PeerIInv, PeerCloses
  PROVE  PeerIInv'
  BY EmptySeq DEF PeerCloses, vars, PeerIInv, PeerTypeOK, HandlerStays, InputOfOne,
     OthersNotOpen, OnePhase, CompleteHasNoInput, NoInputLost, Orderly

\* None of the steps of the web server breaks the invariant.
LEMMA PeerInvariant ==
  ASSUME IInv, PeerIInv, Peer
  PROVE  PeerIInv'
  <1>1. CASE PeerParams
    BY <1>1, SendsInvariant DEF PeerParams, PeerIInv, PeerTypeOK
  <1>2. CASE PeerStdin
    BY <1>2, SendsInvariant DEF PeerStdin, PeerIInv, PeerTypeOK
  <1>3. CASE PeerAborts
    BY <1>3, SendsInvariant DEF PeerAborts, PeerIInv, PeerTypeOK
  <1>. QED BY <1>1, <1>2, <1>3, BeginsInvariant, TakesInvariant, ClosesInvariant DEF Peer

-----------------------------------------------------------------------------
(* The handler's steps                                                     *)

\* A read changes nothing but where the records are.
LEMMA ReceiveInvariant ==
  ASSUME IInv, PeerIInv, Receive
  PROVE  PeerIInv'
  <1>1. PeerTypeOK
    BY DEF PeerIInv
  <1>2. /\ toServer' \in Seq(InRec) /\ Input' = Input
        /\ Len(inq') + Len(toServer') = Len(inq) + Len(toServer)
    BY <1>1, ReceiveKeeps
  <1>3. NoInputLost'
    BY <1>2 DEF Receive, PeerIInv, NoInputLost
  <1>. QED BY <1>2, <1>3 DEF Receive, PeerIInv, PeerTypeOK, HandlerStays, InputOfOne,
          OthersNotOpen, OnePhase, CompleteHasNoInput, Orderly, Accepted, NoRequest, Sent,
          Answered, End

\* The handler hangs up when the web server has gone, or when the write of an
\* answer fails, and then it has gone too.
LEMMA HangsUpInvariant ==
  ASSUME IInv, PeerIInv, HangUp, peer = "gone",
         UNCHANGED <<peer, id, toServer, toPeer, early, unread>>
  PROVE  PeerIInv'
  BY EmptySeq DEF HangUp, PeerIInv, PeerTypeOK, HandlerStays, InputOfOne, OthersNotOpen,
     OnePhase, CompleteHasNoInput, NoInputLost, Orderly

\* The record at the head of an orderly input is of the request, and is its
\* BEGIN_REQUEST unless the request is open.
LEMMA HeadOfInput ==
  ASSUME IInv, PeerIInv, Orderly, inq # <<>>
  PROVE  /\ Head(inq) = Input[1] /\ 1 \in DOMAIN Input /\ Head(inq).rid = id
         /\ \/ Accepted /\ Head(inq).type # "BEGIN"
            \/ Sent /\ Head(inq).type = "BEGIN"
  <1>1. Head(inq) = Input[1] /\ 1 \in DOMAIN Input
    <2>1. PeerTypeOK /\ Len(inq) \in Nat \ {0}
      BY Records, EmptySeq DEF PeerIInv
    <2>. QED BY <2>1, Records, HeadTailProperties, LenProperties
  <1>2. Input # <<>>
    BY <1>1
  <1>. QED BY <1>1, <1>2 DEF PeerIInv, InputOfOne, OnePhase, Accepted, NoRequest, Sent, Answered

\* What is parsed of an orderly input leaves an orderly input, without BEGIN.
LEMMA ParseInvariant ==
  ASSUME IInv, PeerIInv, inq # <<>>, inq' = Tail(inq), UNCHANGED <<peer, id, toServer, early>>
  PROVE  /\ InputOfOne'
         /\ Orderly => \A i \in DOMAIN Input' : Input'[i].type # "BEGIN"
  <1>1. PeerTypeOK
    BY DEF PeerIInv
  <1>2. /\ Len(Input) >= 1 /\ Input' \in Seq(InRec) /\ Len(Input') = Len(Input) - 1
        /\ \A i \in 1..Len(Input') : Input'[i] = Input[i + 1]
    BY <1>1, ParseTakes
  <1>3. DOMAIN Input = 1..Len(Input) /\ DOMAIN Input' = 1..Len(Input') /\ Len(Input) \in Nat
    BY <1>1, <1>2, Records, LenProperties
  <1>4. ASSUME Orderly, NEW i \in DOMAIN Input'
        PROVE  /\ Input'[i].rid = id /\ Input'[i].type \in {"PARAMS", "STDIN", "ABORT"}
               /\ Input'[i].type = "ABORT" => i = Len(Input') /\ peer = "waiting"
    <2>1. i + 1 \in DOMAIN Input /\ i + 1 # 1 /\ Input'[i] = Input[i + 1]
      BY <1>2, <1>3
    <2>. QED BY <1>2, <1>3, <1>4, <2>1 DEF PeerIInv, InputOfOne
  <1>. QED BY <1>4 DEF InputOfOne, Orderly

\* A record is parsed and its callback called.
LEMMA AcceptsInvariant ==
  ASSUME IInv, PeerIInv, Accepts
  PROVE  PeerIInv'
  <1>1. /\ inq # <<>> /\ inq' = Tail(inq) /\ pc = "read" /\ pc' = "cb"
        /\ UNCHANGED <<peer, id, toServer, toPeer, early, outq>>
    BY DEF Accepts, BeginNew, Stream, Parsed
  <1>8. unread' \in Int /\ NoInputLost'
    BY <1>1, ParseCounted DEF Accepts
  <1>2. /\ InputOfOne'
        /\ Orderly => \A i \in DOMAIN Input' : Input'[i].type # "BEGIN"
    BY <1>1, ParseInvariant
  <1>3. PeerTypeOK' /\ HandlerStays'
    BY <1>1, <1>8 DEF PeerIInv, PeerTypeOK, HandlerStays
  <1>4. Head(inq) \in InRec
    BY <1>1, HeadTailProperties DEF IInv, TypeOK
  <1>5. CompleteHasNoInput'
    <2>1. CASE BeginNew
      BY <1>4, <2>1 DEF BeginNew, Parsed, CompleteHasNoInput, IInv, TypeOK, InRec,
         ManagementTypes
    <2>2. CASE Stream
      BY <1>4, <2>2 DEF Stream, Parsed, CompleteHasNoInput, IInv, TypeOK, InRec,
         ManagementTypes, StreamTypes, TableOpen
    <2>. QED BY <2>1, <2>2 DEF Accepts
  <1>6. ASSUME Orderly'
        PROVE  OthersNotOpen' /\ Accepted'
    <2>0. /\ Orderly /\ PeerTypeOK /\ Head(inq).rid = id
          /\ \/ Accepted /\ Head(inq).type # "BEGIN"
             \/ Sent /\ Head(inq).type = "BEGIN"
      BY <1>1, <1>6, HeadOfInput DEF Orderly, PeerIInv
    <2>1. CASE BeginNew
      <3>1. Sent /\ req' = [req EXCEPT ![id] = "open"] /\ req'[id] = "open"
        BY <2>0, <2>1 DEF BeginNew, Parsed, IInv, TypeOK, PeerTypeOK
      <3>2. OthersNotOpen'
        BY <1>1, <2>0, <3>1 DEF OthersNotOpen, PeerIInv, IInv, TypeOK
      <3>3. \A i \in DOMAIN toPeer' : toPeer'[i] # End(id)
        BY <1>1, <3>1 DEF Sent
      <3>. QED BY <1>1, <1>2, <2>0, <3>1, <3>2, <3>3 DEF Accepted, Sent, End
    <2>2. CASE Stream
      <3>1. Accepted /\ req' = req
        BY <2>0, <2>2 DEF Stream, Parsed, StreamTypes
      <3>. QED BY <1>1, <1>2, <2>0, <3>1 DEF Accepted, OthersNotOpen, PeerIInv, End
    <2>. QED BY <2>1, <2>2 DEF Accepts
  <1>7. OthersNotOpen' /\ OnePhase'
    BY <1>6 DEF OthersNotOpen, OnePhase
  <1>. QED BY <1>2, <1>3, <1>5, <1>7, <1>8 DEF PeerIInv

\* What is written are records, and ends with the END_REQUEST.
LEMMA TransmitEnds ==
  ASSUME IInv, PeerTypeOK, NEW r \in Rid, peer # "gone", Transmit(<<End(r)>>)
  PROVE  /\ toPeer' \in Seq(OutRec \cup [type : {"END"}, rid : Rid])
         /\ Len(toPeer') = Len(toPeer) + Len(outq) + 1
         /\ toPeer'[Len(toPeer')] = End(r)
         /\ \A i \in 1..Len(toPeer) : toPeer'[i] = toPeer[i]
         /\ \A i \in 1..(Len(toPeer') - 1) : i \notin 1..Len(toPeer) => toPeer'[i] # End(r)
  <1>. DEFINE T == OutRec \cup [type : {"END"}, rid : Rid]
  <1>1. toPeer \in Seq(T) /\ outq \in Seq(OutRec) /\ outq \in Seq(T) /\ <<End(r)>> \in Seq(T)
    <2>1. outq \in Seq(OutRec)
      BY DEF IInv, TypeOK
    <2>2. outq \in Seq(T)
      BY <2>1, SeqMonotonic
    <2>3. End(r) \in T
      BY DEF End
    <2>. HIDE DEF T
    <2>4. <<End(r)>> \in Seq(T)
      BY <2>3
    <2>5. toPeer \in Seq(T)
      BY DEF PeerTypeOK, T
    <2>. QED BY <2>1, <2>2, <2>4, <2>5
  <1>2. toPeer' = (toPeer \o outq) \o <<End(r)>>
    BY DEF Transmit
  <1>. HIDE DEF T
  <1>3. /\ toPeer \o outq \in Seq(T) /\ Len(toPeer \o outq) = Len(toPeer) + Len(outq)
        /\ \A i \in 1..(Len(toPeer) + Len(outq)) :
              (toPeer \o outq)[i] = IF i <= Len(toPeer) THEN toPeer[i] ELSE outq[i - Len(toPeer)]
    BY <1>1, ConcatProperties
  <1>4. /\ toPeer' \in Seq(T)
        /\ Len(toPeer') = Len(toPeer) + Len(outq) + 1
        /\ \A i \in 1..Len(toPeer') :
              toPeer'[i] = IF i <= Len(toPeer) + Len(outq) THEN (toPeer \o outq)[i] ELSE End(r)
    <2>1. Len(<<End(r)>>) = 1 /\ <<End(r)>>[1] = End(r)
      OBVIOUS
    <2>2. Len(toPeer) \in Nat /\ Len(outq) \in Nat
      BY <1>1, LenProperties
    <2>. HIDE DEF End
    <2>. QED BY <1>1, <1>2, <1>3, <2>1, <2>2, ConcatProperties
  <1>5. Len(toPeer) \in Nat /\ Len(outq) \in Nat /\ \A i \in 1..Len(outq) : outq[i] # End(r)
    BY <1>1, LenProperties, ElementOfSeq DEF OutRec, End
  <1>6. ASSUME NEW i \in 1..(Len(toPeer') - 1), i \notin 1..Len(toPeer)
        PROVE  toPeer'[i] # End(r)
    <2>1. i - Len(toPeer) \in 1..Len(outq) /\ toPeer'[i] = outq[i - Len(toPeer)]
      BY <1>3, <1>4, <1>5, <1>6
    <2>. QED BY <1>5, <2>1
  <1>7. toPeer'[Len(toPeer')] = End(r)
    BY <1>4, <1>5
  <1>8. \A i \in 1..Len(toPeer) : toPeer'[i] = toPeer[i]
    BY <1>3, <1>4, <1>5
  <1>. QED BY <1>4, <1>6, <1>7, <1>8 DEF T

\* The answer to a request that is accepted and has no input left.
LEMMA AnswerEnds ==
  ASSUME IInv, PeerIInv, Orderly, Accepted, peer = "waiting",
         Transmit(<<End(id)>>), Input' = <<>>, req'[id] # "open",
         UNCHANGED <<peer, id, early>>
  PROVE  Answered'
  <1>1. PeerTypeOK /\ id \in Rid /\ peer # "gone"
    BY DEF PeerIInv, PeerTypeOK, Orderly
  <1>2. /\ toPeer' \in Seq(OutRec \cup [type : {"END"}, rid : Rid])
        /\ Len(toPeer') = Len(toPeer) + Len(outq) + 1
        /\ toPeer'[Len(toPeer')] = End(id)
        /\ \A i \in 1..Len(toPeer) : toPeer'[i] = toPeer[i]
        /\ \A i \in 1..(Len(toPeer') - 1) : i \notin 1..Len(toPeer) => toPeer'[i] # End(id)
    BY <1>1, TransmitEnds
  <1>3. Len(toPeer) \in Nat /\ Len(outq) \in Nat /\ DOMAIN toPeer = 1..Len(toPeer)
    BY <1>1, LenProperties DEF PeerTypeOK, IInv, TypeOK
  <1>4. toPeer' # <<>> /\ DOMAIN toPeer' = 1..Len(toPeer')
    BY <1>2, <1>3, LenProperties, EmptySeq
  <1>5. \A i \in DOMAIN toPeer' : toPeer'[i] = End(id) <=> i = Len(toPeer')
    BY <1>2, <1>3, <1>4 DEF Accepted
  <1>6. End(id)' = End(id)
    BY DEF End
  <1>. QED BY <1>4, <1>5, <1>6 DEF Answered

\* What is transmitted to a web server that has gone is lost; what is transmitted
\* to one that is there are records.
LEMMA TransmitType ==
  ASSUME IInv, PeerTypeOK, NEW r \in Rid, Transmit(<<End(r)>>)
  PROVE  toPeer' \in Seq(OutRec \cup [type : {"END"}, rid : Rid])
  BY TransmitEnds DEF Transmit, PeerTypeOK

\* An abort is the last record of its request, which gets its END_REQUEST.
LEMMA AbortsInvariant ==
  ASSUME IInv, PeerIInv, AbortsOne
  PROVE  PeerIInv'
  <1>0. PeerTypeOK
    BY DEF PeerIInv
  <1>1. /\ pc = "read" /\ pc' = "read" /\ inq # <<>> /\ Head(inq).type = "ABORT"
        /\ Head(inq).rid \in requests /\ Head(inq).rid \in Rid
        /\ req' = [req EXCEPT ![Head(inq).rid] = "none"]
        /\ inq' = <<>> /\ outq' = <<>>
        /\ Transmit(<<End(Head(inq).rid)>>)
        /\ unread' = IF early THEN 0 ELSE unread - 1
        /\ UNCHANGED <<peer, id, toServer, early>>
    BY DEF AbortsOne, ParsesOne, Abort, Parsed, AbortedIn, AbortedOut, IInv, TypeOK
  <1>2. PeerTypeOK' /\ HandlerStays' /\ CompleteHasNoInput'
    <2>1. toPeer' \in Seq(OutRec \cup [type : {"END"}, rid : Rid])
      BY <1>0, <1>1, TransmitType
    <2>2. unread' \in Int
      BY <1>0, <1>1 DEF PeerTypeOK
    <2>. QED BY <1>0, <1>1, <2>1, <2>2 DEF PeerTypeOK, HandlerStays, CompleteHasNoInput
  <1>3. ASSUME Orderly'
        PROVE  /\ OthersNotOpen' /\ Answered' /\ Input' = <<>>
               /\ unread' = 0 /\ toServer' = <<>>
    <2>1. Orderly /\ Head(inq).rid = id /\ Accepted /\ Head(inq) = Input[1]
          /\ 1 \in DOMAIN Input
      BY <1>1, <1>3, HeadOfInput DEF Orderly
    <2>2. Len(Input) = 1 /\ peer = "waiting"
      BY <1>1, <2>1 DEF PeerIInv, InputOfOne
    <2>3. toServer = <<>>
      <3>1. Len(inq) \in Nat \ {0} /\ Len(toServer) \in Nat
        BY <1>0, <1>1, Records, EmptySeq
      <3>2. Len(toServer) = 0
        BY <1>0, <2>2, <3>1, Records
      <3>. QED BY <1>0, <3>2, Records, EmptySeq
    <2>4. Input' = <<>>
      BY <1>0, <1>1, <2>3, Records, ConcatEmptySeq DEF Input
    <2>5. req'[id] = "none"
      BY <1>1, <2>1 DEF IInv, TypeOK
    <2>6. Answered'
      BY <1>1, <2>1, <2>2, <2>4, <2>5, AnswerEnds
    <2>7. OthersNotOpen'
      BY <1>1, <2>1 DEF PeerIInv, OthersNotOpen, IInv, TypeOK
    <2>8. unread' = 0
      <3>1. unread = 1 /\ ~early
        BY <1>0, <2>1, <2>2, Records DEF PeerIInv, NoInputLost, Orderly
      <3>. QED BY <1>1, <3>1
    <2>. QED BY <1>1, <2>3, <2>4, <2>6, <2>7, <2>8
  <1>4. InputOfOne' /\ OthersNotOpen' /\ OnePhase'
    BY <1>3, EmptySeq DEF InputOfOne, OthersNotOpen, OnePhase
  <1>5. NoInputLost'
    <2>1. inq' = <<>> /\ Len(<<>>) = 0
      BY <1>1
    <2>. QED BY <1>3, <2>1 DEF NoInputLost, Orderly
  <1>. QED BY <1>2, <1>4, <1>5 DEF PeerIInv

\* No record of an orderly input is a stray.
LEMMA StrayInvariant ==
  ASSUME IInv, PeerIInv, AnswersStray
  PROVE  PeerIInv'
  <1>0. PeerTypeOK
    BY DEF PeerIInv
  <1>1. /\ inq # <<>> /\ pc = "read" /\ Head(inq).rid \in Rid /\ Reply
        /\ Transmit(<<End(Head(inq).rid)>>)
        /\ unread' = IF early THEN 0 ELSE unread - 1
        /\ UNCHANGED <<peer, id, toServer, early>>
    BY HeadTailProperties DEF AnswersStray, ParsesOne, NoSuchRequest, BeginDouble, Parsed, StreamTypes,
       IInv, TypeOK, InRec, ManagementTypes
  <1>2. ~Orderly
    <2>. SUFFICES ASSUME Orderly
                  PROVE  FALSE
      OBVIOUS
    <2>1. /\ Head(inq).rid = id
          /\ \/ Accepted /\ Head(inq).type # "BEGIN"
             \/ Sent /\ Head(inq).type = "BEGIN"
      BY <1>1, HeadOfInput
    <2>2. id \in requests <=> req[id] = "open"
      BY <1>0, <1>1 DEF IInv, TableOpen, PeerTypeOK
    <2>. QED BY <2>1, <2>2 DEF Accepted, Sent, AnswersStray, NoSuchRequest, BeginDouble,
            Parsed, StreamTypes
  <1>3. ~Orderly'
    BY <1>1, <1>2 DEF Orderly
  <1>4. toPeer' \in Seq(OutRec \cup [type : {"END"}, rid : Rid])
    BY <1>0, <1>1, TransmitType
  <1>5. outq' = <<>> /\ (pc' = "closing" => peer = "gone") /\ pc' \in {"read", "closing"}
    BY <1>1 DEF Reply, Written, HangUp, AnswersStray
  <1>6. unread' \in Int /\ NoInputLost'
    BY <1>0, <1>1, <1>3 DEF PeerTypeOK, NoInputLost, Orderly
  <1>. QED BY <1>0, <1>1, <1>3, <1>4, <1>5, <1>6
          DEF PeerIInv, PeerTypeOK, HandlerStays, InputOfOne, OthersNotOpen, OnePhase,
              CompleteHasNoInput

\* A renderer adds to the output of an open request.
LEMMA RendersInvariant ==
  ASSUME IInv, PeerIInv, NEW r \in Rid, Renders(r)
  PROVE  PeerIInv'
  <1>1. HandlerStays'
    <2>. DEFINE rec == [type |-> "STDOUT", rid |-> r]
    <2>1. rec \in OutRec /\ rec.rid # NullRid
      BY RidAssumption DEF OutRec
    <2>2. outq' = Append(outq, rec) /\ outq \in Seq(OutRec) /\ pc' = pc /\ peer' = peer
      BY DEF Renders, RenderStdout, IInv, TypeOK, peerVars
    <2>. HIDE DEF rec
    <2>3. /\ outq' \in Seq(OutRec) /\ Len(outq') = Len(outq) + 1
          /\ \A i \in 1..Len(outq) : outq'[i] = outq[i]
          /\ outq'[Len(outq) + 1] = rec
      BY <2>1, <2>2, AppendProperties
    <2>4. DOMAIN outq = 1..Len(outq) /\ DOMAIN outq' = 1..(Len(outq) + 1) /\ Len(outq) \in Nat
      BY <2>2, <2>3, LenProperties
    <2>. QED BY <2>1, <2>2, <2>3, <2>4 DEF PeerIInv, HandlerStays
  <1>2. Input' = Input /\ End(id)' = End(id) /\ Orderly' = Orderly
    BY DEF Renders, RenderStdout, peerVars, Input, End, Orderly
  <1>. QED BY <1>1, <1>2 DEF Renders, RenderStdout, peerVars, PeerIInv, PeerTypeOK, InputOfOne,
          OthersNotOpen, OnePhase, Accepted, NoRequest, Sent, Answered, CompleteHasNoInput,
          NoInputLost

\* A flush writes STDOUT records only, and those of the open request.
LEMMA FlushesInvariant ==
  ASSUME IInv, PeerIInv, NEW r \in Rid, Flushes(r)
  PROVE  PeerIInv'
  <1>. DEFINE T == OutRec \cup [type : {"END"}, rid : Rid]
  <1>0. /\ PeerTypeOK /\ req[r] = "open" /\ outq' = <<>>
        /\ UNCHANGED <<pc, inq, cur, requests, req, peer, id, toServer, early, unread>>
    BY DEF PeerIInv, Flushes, FlushOut
  <1>1. toPeer' = IF peer = "gone" THEN toPeer ELSE (toPeer \o outq) \o <<>>
    BY DEF Flushes, Transmit
  <1>2. toPeer \in Seq(T) /\ outq \in Seq(T) /\ outq \in Seq(OutRec)
    BY <1>0, SeqMonotonic DEF PeerTypeOK, IInv, TypeOK
  <1>3. \A i \in 1..Len(outq) : outq[i] # End(id)
    BY <1>2, ElementOfSeq DEF OutRec, End
  <1>. HIDE DEF T
  <1>4. /\ toPeer \o outq \in Seq(T)
        /\ Len(toPeer \o outq) = Len(toPeer) + Len(outq)
        /\ \A i \in 1..(Len(toPeer) + Len(outq)) :
              (toPeer \o outq)[i] = IF i <= Len(toPeer) THEN toPeer[i] ELSE outq[i - Len(toPeer)]
    BY <1>2, ConcatProperties
  <1>5. toPeer' \in Seq(T)
    BY <1>1, <1>2, <1>4, ConcatEmptySeq
  <1>6. ASSUME Orderly
        PROVE  Accepted /\ \A i \in DOMAIN toPeer' : toPeer'[i] # End(id)
    <2>1. Accepted
      BY <1>0, <1>6 DEF PeerIInv, OthersNotOpen, OnePhase, NoRequest, Sent, Answered
    <2>2. toPeer' = toPeer \o outq
      BY <1>1, <1>4, <1>6, ConcatEmptySeq DEF Orderly
    <2>3. /\ Len(toPeer) \in Nat /\ Len(outq) \in Nat /\ DOMAIN toPeer = 1..Len(toPeer)
          /\ DOMAIN toPeer' = 1..(Len(toPeer) + Len(outq))
      BY <1>2, <1>4, <2>2, LenProperties
    <2>4. ASSUME NEW i \in DOMAIN toPeer'
          PROVE  toPeer'[i] # End(id)
      <3>1. CASE i <= Len(toPeer)
        BY <1>4, <2>1, <2>2, <2>3, <3>1 DEF Accepted
      <3>2. CASE i > Len(toPeer)
        <4>1. i - Len(toPeer) \in 1..Len(outq) /\ toPeer'[i] = outq[i - Len(toPeer)]
          BY <1>4, <2>2, <2>3, <3>2
        <4>. QED BY <1>3, <4>1
      <3>. QED BY <2>3, <3>1, <3>2
    <2>. QED BY <2>1, <2>4
  <1>7. Input' = Input /\ End(id)' = End(id) /\ Orderly' = Orderly
    BY <1>0 DEF Input, End, Orderly
  <1>8. Orderly => Accepted'
    BY <1>0, <1>6, <1>7 DEF Accepted
  <1>. QED BY <1>0, <1>5, <1>7, <1>8 DEF T, PeerIInv, PeerTypeOK, HandlerStays, InputOfOne,
          OthersNotOpen, OnePhase, CompleteHasNoInput, NoInputLost

\* An answer to the open request is the end of it, or comes early.
LEMMA EndsInvariant ==
  ASSUME IInv, PeerIInv, NEW r \in Rid, Ends(r)
  PROVE  PeerIInv'
  <1>0. PeerTypeOK
    BY DEF PeerIInv
  <1>1. /\ pc = "cb" /\ req[r] = "open" /\ cur.rid = r
        /\ pc' \in {"read", "cb", "crashed"}
        /\ \E x \in {"none", "complete"} : req' = [req EXCEPT ![r] = x]
        /\ inq' = <<>> /\ outq' = <<>>
        /\ Transmit(<<End(r)>>)
        /\ early' = (early \/ ~RequestOver)
        /\ UNCHANGED <<peer, id, toServer, unread>>
    <2>1. CASE HeadCallbackFails(r)
      <3>1. WriteOutcomes(AbortedOut(outq)) = {TRUE}
        BY DEF WriteOutcomes, AbortedOut
      <3>2. pc' = "read" /\ req' = [req EXCEPT ![r] = "none"]
        BY <2>1, <3>1 DEF HeadCallbackFails
      <3>. QED BY <2>1, <3>2 DEF Ends, HeadCallbackFails, InCallback, AbortInCallback, AbortedIn
    <2>2. CASE Finalize(r) \/ BodyCallbackFails(r)
      BY <2>2 DEF Ends, Finalize, BodyCallbackFails, InCallback, AbortInCallback, AbortedIn
    <2>. QED BY <2>1, <2>2 DEF Ends
  <1>2. PeerTypeOK' /\ HandlerStays'
    <2>1. toPeer' \in Seq(OutRec \cup [type : {"END"}, rid : Rid])
      BY <1>0, <1>1, TransmitType
    <2>. QED BY <1>0, <1>1, <2>1 DEF PeerTypeOK, HandlerStays
  <1>3. CompleteHasNoInput'
    BY <1>1 DEF CompleteHasNoInput
  <1>4. ASSUME Orderly'
        PROVE  OthersNotOpen' /\ Answered' /\ Input' = <<>> /\ unread' = 0 /\ toServer' = <<>>
    <2>1. Orderly /\ RequestOver /\ early' = early
      BY <1>0, <1>1, <1>4 DEF Orderly, PeerTypeOK
    <2>7. inq = <<>> /\ toServer = <<>> /\ unread = 0
      <3>1. unread = Len(inq) + Len(toServer) /\ unread = 0
        BY <2>1 DEF PeerIInv, NoInputLost, Orderly, RequestOver
      <3>2. Len(inq) \in Nat /\ Len(toServer) \in Nat
        BY <1>0, Records, LenProperties
      <3>3. Len(inq) = 0 /\ Len(toServer) = 0
        BY <3>1, <3>2
      <3>. QED BY <1>0, <3>1, <3>3, Records, EmptySeq
    <2>2. r = id /\ Accepted
      BY <1>0, <1>1, <2>1 DEF PeerIInv, OthersNotOpen, OnePhase, NoRequest, Sent, Answered
    <2>3. Input' = <<>>
      BY <1>0, <1>1, <2>7, Records, ConcatEmptySeq DEF Input
    <2>4. req'[id] # "open" /\ \A x \in Rid \ {id} : req'[x] = req[x]
      BY <1>1, <2>2 DEF IInv, TypeOK
    <2>5. Answered'
      BY <1>1, <2>1, <2>2, <2>3, <2>4, AnswerEnds DEF RequestOver
    <2>6. OthersNotOpen'
      BY <1>1, <2>1, <2>4 DEF PeerIInv, OthersNotOpen
    <2>. QED BY <1>1, <2>3, <2>5, <2>6, <2>7
  <1>5. InputOfOne' /\ OthersNotOpen' /\ OnePhase'
    BY <1>4, EmptySeq DEF InputOfOne, OthersNotOpen, OnePhase
  <1>6. NoInputLost'
    <2>1. inq' = <<>> /\ Len(<<>>) = 0
      BY <1>1
    <2>. QED BY <1>4, <2>1 DEF NoInputLost, Orderly
  <1>. QED BY <1>2, <1>3, <1>5, <1>6 DEF PeerIInv

\* A callback that leaves its request open, or that had it finalized: in order
\* only with the input over, and so its error rewinds nothing.
LEMMA ReturnsInvariant ==
  ASSUME IInv, PeerIInv, NEW r \in Rid, Returns(r)
  PROVE  PeerIInv'
  <1>0. PeerTypeOK
    BY DEF PeerIInv
  <1>1. /\ pc = "cb" /\ cur.rid = r /\ pc' \in {"read", "crashed"}
        /\ UNCHANGED <<peer, id, toServer, toPeer, early, unread>>
        /\ outq' = outq \/ outq' = <<>>
        /\ \/ req' = req
           \/ /\ req[r] = "complete" /\ req' = [req EXCEPT ![r] = "none"]
        /\ inq' = inq \/ (req[r] = "complete" /\ inq' = <<>>)
    <2>0. req[r] \in {"open", "complete"}
      BY DEF Returns, CallbackReturns, CallbackOk, HeadCallbackFails, BodyCallbackFails,
         InCallback, IInv, CallbackTarget, TypeOK
    <2>1. CASE CallbackOk(r)
      BY <2>0, <2>1 DEF Returns, CallbackOk, InCallback, ObjectAfter, peerVars, IInv, TypeOK
    <2>2. CASE HeadCallbackFails(r)
      <3>1. WriteOutcomes(AbortedOut(outq)) = {TRUE}
        BY DEF WriteOutcomes, AbortedOut
      <3>2. pc' = "read" /\ req' = [req EXCEPT ![r] = "none"]
        BY <2>2, <3>1 DEF HeadCallbackFails
      <3>. QED BY <2>0, <2>2, <3>2 DEF Returns, HeadCallbackFails, InCallback, AbortInCallback,
              AbortedIn, peerVars, IInv, TypeOK
    <2>3. CASE BodyCallbackFails(r)
      BY <2>0, <2>3 DEF Returns, BodyCallbackFails, InCallback, AbortInCallback, AbortedIn,
         peerVars, IInv, TypeOK
    <2>. QED BY <2>1, <2>2, <2>3 DEF Returns, CallbackReturns
  <1>2. ~early => inq' = inq
    BY <1>1 DEF PeerIInv, CompleteHasNoInput
  <1>3. ~early => Input' = Input
    BY <1>1, <1>2 DEF Input
  <1>4. \A x \in Rid : req'[x] = "open" <=> req[x] = "open"
    BY <1>1 DEF IInv, TypeOK
  <1>5. PeerTypeOK' /\ HandlerStays' /\ CompleteHasNoInput' /\ NoInputLost'
    BY <1>0, <1>1, <1>2 DEF PeerTypeOK, PeerIInv, HandlerStays, CompleteHasNoInput, NoInputLost
  <1>6. InputOfOne' /\ OthersNotOpen'
    BY <1>1, <1>3, <1>4 DEF PeerIInv, InputOfOne, OthersNotOpen, Orderly
  <1>7. OnePhase'
    <2>. SUFFICES ASSUME Orderly'
                  PROVE  (Accepted \/ NoRequest \/ Sent \/ Answered)'
      BY DEF OnePhase
    <2>1. Orderly /\ Input' = Input /\ End(id)' = End(id) /\ (req'[id] = "open" <=> req[id] = "open")
      BY <1>0, <1>1, <1>3, <1>4 DEF Orderly, End, PeerTypeOK
    <2>. QED BY <1>1, <2>1 DEF PeerIInv, OnePhase, Accepted, NoRequest, Sent, Answered
  <1>. QED BY <1>5, <1>6, <1>7 DEF PeerIInv

\* mnfcgi_ctx_fini, which is not reached while the web server is there.
LEMMA ClosesDownInvariant ==
  ASSUME IInv, PeerIInv, Closes
  PROVE  PeerIInv'
  BY DEF Closes, CloseDone, DestroyRequest, peerVars, PeerIInv, PeerTypeOK, HandlerStays,
     InputOfOne, OthersNotOpen, OnePhase, CompleteHasNoInput, NoInputLost, Orderly

\* No step of the composition breaks the two invariants.
LEMMA PeerStepInvariant == IInv /\ PeerIInv /\ [PeerNext]_allVars => IInv' /\ PeerIInv'
  <1>. SUFFICES ASSUME IInv, PeerIInv, [PeerNext]_allVars
                PROVE  IInv' /\ PeerIInv'
    OBVIOUS
  <1>1. IInv'
    <2>1. FlightOk
      BY DEF FlightOk, PeerIInv, PeerTypeOK
    <2>. QED BY <2>1, PeerStepSimulation, StepInvariant
  <1>2. CASE Peer
    BY <1>1, <1>2, PeerInvariant
  <1>3. CASE Handles
    <2>1. CASE Eof
      BY <1>1, <2>1, HangsUpInvariant DEF Eof, ConsumeFails, peerVars
    <2>. QED BY <1>1, <1>3, <2>1, ReceiveInvariant, AcceptsInvariant, AbortsInvariant, StrayInvariant
            DEF Handles
  <1>4. ASSUME NEW r \in Rid, Renders(r) \/ Flushes(r) \/ Ends(r) \/ Returns(r)
        PROVE  PeerIInv'
    BY <1>4, RendersInvariant, FlushesInvariant, EndsInvariant, ReturnsInvariant
  <1>5. CASE UNCHANGED allVars
    BY <1>1, <1>5 DEF allVars, vars, peerVars, PeerIInv, PeerTypeOK, HandlerStays, InputOfOne,
       OthersNotOpen, OnePhase, CompleteHasNoInput, NoInputLost, Orderly, Accepted, NoRequest,
       Sent, Answered, Input, End
  <1>. QED BY <1>1, <1>2, <1>3, <1>4, <1>5, ClosesDownInvariant DEF PeerNext

\* Every reachable state of the composition satisfies them.
THEOREM PeerInvariants == PeerSpec => [](IInv /\ PeerIInv)
  BY PeerInitInvariant, PeerStepInvariant, PTL DEF PeerSpec

-----------------------------------------------------------------------------
(* The properties of the composition                                       *)

\* Every variable of the web server keeps its type.
THEOREM PeerTypeCorrect == PeerSpec => []PeerTypeOK
  BY PeerInvariants, PTL DEF PeerIInv

\* A web server that has taken its END_REQUEST has nothing of the request under
\* way: what is rendered belongs to open requests, and there is none.
THEOREM NothingLeftOver == PeerSpec => []NothingStale
  <1>1. ASSUME IInv, PeerIInv, peer = "idle", ~early
        PROVE  toServer = <<>> /\ inq = <<>> /\ toPeer = <<>> /\ outq = <<>>
    <2>1. NoRequest /\ OthersNotOpen /\ Orderly
      BY <1>1 DEF PeerIInv, OnePhase, Orderly, Accepted, Sent, Answered
    <2>2. toServer = <<>> /\ inq = <<>>
      BY <1>1, <2>1, Records DEF NoRequest, PeerIInv
    <2>3. \A r \in Rid : req[r] # "open"
      BY <2>1 DEF NoRequest, OthersNotOpen
    <2>4. \A i \in DOMAIN outq : FALSE
      <3>. SUFFICES ASSUME NEW i \in DOMAIN outq
                    PROVE  FALSE
        OBVIOUS
      <3>1. outq[i].rid # NullRid /\ req[outq[i].rid] = "open"
        BY <1>1 DEF PeerIInv, HandlerStays, IInv, PendingOwned
      <3>2. outq[i].rid \in Rid
        <4>1. outq[i] \in OutRec
          BY <1>1, ElementOfSeq, LenProperties DEF IInv, TypeOK
        <4>. QED BY <3>1, <4>1 DEF OutRec
      <3>. QED BY <2>3, <3>1, <3>2
    <2>5. outq = <<>>
      <3>1. outq \in Seq(OutRec) /\ DOMAIN outq = 1..Len(outq)
        BY <1>1, LenProperties DEF IInv, TypeOK
      <3>2. Len(outq) \in Nat /\ 1 \notin 1..Len(outq)
        BY <2>4, <3>1, LenProperties
      <3>. QED BY <3>1, <3>2, EmptySeq
    <2>. QED BY <2>1, <2>2, <2>5 DEF NoRequest
  <1>2. IInv /\ PeerIInv => NothingStale
    BY <1>1 DEF NothingStale
  <1>. QED BY <1>2, PeerInvariants, PTL

\* At most the web server's request is open, and it is answered after it has
\* been sent.
THEOREM OneAtATime == PeerSpec => []OneRequest
  <1>1. IInv /\ PeerIInv => OneRequest
    BY DEF PeerIInv, OneRequest, OthersNotOpen, OnePhase, Orderly, Accepted, NoRequest, Sent,
       Answered
  <1>. QED BY <1>1, PeerInvariants, PTL

\* Unless a request is answered before its last record, every record that a web
\* server has sent is parsed, or still before the handler: neither the rewind of
\* ctx->in when a request is finalized, aborted or fails at its end, nor the one of
\* an ABORT_REQUEST, finds anything to throw away.
THEOREM RewindsLoseNoInput == PeerSpec => []NoInputLost
  BY PeerInvariants, PTL DEF PeerIInv

=============================================================================
