--------------------------- MODULE FcgiConnProof ---------------------------
(***************************************************************************)
(* Proofs about FcgiConn, for any set of ids and any bounds.  IInv is      *)
(* inductive; every safety invariant is one of its conjuncts, and the step *)
(* simulation of FcgiLife rests on it.                                     *)
(***************************************************************************)
EXTENDS FcgiConn, TLAPS

USE RidAssumption, BoundAssumption

USE DEF TypeOK, InRec, OutRec, NoRec, RequestTypes, StreamTypes, ManagementTypes

-----------------------------------------------------------------------------
(* The inductive invariant                                                 *)

\* mnfcgi_ctx_init establishes the invariant: no request, nothing buffered.
LEMMA InitInvariant == Init => IInv
  BY DEF Init, IInv, TableOpen, CallbackTarget, OthersOpen, AnsweredOnce,
     PendingOwned, ClosingQuiet, NoDoubleDestroy

\* The err label, reached between two records.
LEMMA HangUpInvariant ==
  ASSUME IInv, pc = "read", HangUp
  PROVE  IInv'
  BY DEF HangUp, MarkComplete, IInv, TableOpen, CallbackTarget, OthersOpen,
     AnsweredOnce, PendingOwned, ClosingQuiet, NoDoubleDestroy

\* A reply written, or failed.
LEMMA ReplyInvariant ==
  ASSUME IInv, pc = "read", inq # <<>>, Reply
  PROVE  IInv'
  <1>1. CASE Written
    BY <1>1 DEF Written, IInv, TableOpen, CallbackTarget, OthersOpen,
       AnsweredOnce, PendingOwned, ClosingQuiet, NoDoubleDestroy
  <1>2. CASE HangUp
    BY <1>2, HangUpInvariant
  <1>. QED BY <1>1, <1>2 DEF Reply

\* Between two records no request is complete, and none waits outside of the
\* table.
LEMMA ReadInvariant ==
  ASSUME IInv, Read
  PROVE  IInv'
  <1>1. CASE Consume
    <2>1. inq' \in Seq(InRec)
      BY <1>1 DEF Consume
    <2>. QED BY <1>1, <2>1 DEF Consume, IInv, TableOpen, CallbackTarget, OthersOpen,
            AnsweredOnce, PendingOwned, ClosingQuiet, NoDoubleDestroy
  <1>2. CASE ConsumeFails
    BY <1>2, HangUpInvariant DEF ConsumeFails
  <1>3. CASE ParseFails
    BY <1>3, HangUpInvariant DEF ParseFails, Parsed
  <1>4. CASE UnknownType
    BY <1>4 DEF UnknownType, Parsed, IInv, TableOpen, CallbackTarget, OthersOpen,
       AnsweredOnce, PendingOwned, ClosingQuiet, NoDoubleDestroy
  <1>. QED BY <1>1, <1>2, <1>3, <1>4 DEF Read

\* One turn of the loop of _mnfcgi_handle_socket up to the next read or the call
\* of a callback, by the type of the record.
LEMMA HandleInvariant ==
  ASSUME IInv, Handle
  PROVE  IInv'
  <1>1. CASE BeginUnsupported
    BY <1>1, ReplyInvariant DEF BeginUnsupported, Parsed
  <1>2. CASE BeginDouble
    BY <1>2, ReplyInvariant DEF BeginDouble, Parsed
  <1>3. CASE BeginNew
    BY <1>3 DEF BeginNew, Parsed, IInv, TableOpen, CallbackTarget, OthersOpen,
       AnsweredOnce, PendingOwned, ClosingQuiet, NoDoubleDestroy
  <1>4. CASE NoSuchRequest
    BY <1>4, ReplyInvariant DEF NoSuchRequest, Parsed
  <1>5. CASE Abort
    BY <1>5 DEF Abort, AbortAnswers, AbortedIn, AbortedOut, Parsed, IInv, TableOpen,
       CallbackTarget, OthersOpen, AnsweredOnce, PendingOwned, ClosingQuiet,
       NoDoubleDestroy
  <1>6. CASE Stream
    BY <1>6 DEF Stream, Parsed, IInv, TableOpen, CallbackTarget, OthersOpen,
       AnsweredOnce, PendingOwned, ClosingQuiet, NoDoubleDestroy
  <1>7. CASE GetValues
    BY <1>7 DEF GetValues, Parsed, IInv, TableOpen, CallbackTarget, OthersOpen,
       AnsweredOnce, PendingOwned, ClosingQuiet, NoDoubleDestroy
  <1>8. CASE GetValuesPairs
    <2>1. CASE pc' = "crashed" /\ UNCHANGED <<inq, cur, requests, req, outq, answer, fault>>
      BY <2>1 DEF IInv, TableOpen, CallbackTarget, OthersOpen, AnsweredOnce,
         PendingOwned, ClosingQuiet, NoDoubleDestroy
    <2>2. CASE /\ inq' = Tail(inq)
               /\ outq' = Append(outq, [type |-> "MANGLED", rid |-> NullRid])
               /\ UNCHANGED <<pc, cur, requests, req, answer, fault>>
      BY <1>8, <2>2 DEF GetValuesPairs, Parsed, IInv, TableOpen, CallbackTarget,
         OthersOpen, AnsweredOnce, PendingOwned, ClosingQuiet, NoDoubleDestroy
    <2>3. CASE HangUp
      BY <1>8, <2>3, HangUpInvariant DEF GetValuesPairs, Parsed
    <2>. QED BY <1>8, <2>1, <2>2, <2>3 DEF GetValuesPairs
  <1>9. CASE Default
    BY <1>9, ReplyInvariant DEF Default, Parsed
  <1>. QED BY <1>1, <1>2, <1>3, <1>4, <1>5, <1>6, <1>7, <1>8, <1>9 DEF Handle

\* A request once complete renders nothing more, so what is pending stays the
\* property of open requests.
LEMMA CallLibraryInvariant ==
  ASSUME IInv, NEW r \in Rid, CallLibrary(r)
  PROVE  IInv'
  <1>1. CASE RenderStdout(r)
    BY <1>1 DEF RenderStdout, InCallback, IInv, TableOpen, CallbackTarget, OthersOpen,
       AnsweredOnce, PendingOwned, ClosingQuiet, NoDoubleDestroy
  <1>2. CASE RenderFails(r)
    BY <1>2 DEF RenderFails, InCallback, IInv, TableOpen, CallbackTarget, OthersOpen,
       AnsweredOnce, PendingOwned, ClosingQuiet, NoDoubleDestroy
  <1>3. CASE FlushOut(r)
    BY <1>3 DEF FlushOut, InCallback, IInv, TableOpen, CallbackTarget, OthersOpen,
       AnsweredOnce, PendingOwned, ClosingQuiet, NoDoubleDestroy
  <1>4. CASE Finalize(r)
    BY <1>4 DEF Finalize, InCallback, AbortAnswers, IInv, TableOpen, CallbackTarget,
       OthersOpen, AnsweredOnce, PendingOwned, ClosingQuiet, NoDoubleDestroy
  <1>. QED BY <1>1, <1>2, <1>3, <1>4 DEF CallLibrary

\* Whatever the callback returns, its request is open and in the table or is
\* gone from both; the write after a failed head callback has nothing to write.
LEMMA CallbackReturnsInvariant ==
  ASSUME IInv, NEW r \in Rid, CallbackReturns(r)
  PROVE  IInv'
  <1>1. CASE CallbackOk(r)
    BY <1>1 DEF CallbackOk, TableAfter, ObjectAfter, InCallback, IInv, TableOpen,
       CallbackTarget, OthersOpen, AnsweredOnce, PendingOwned, ClosingQuiet,
       NoDoubleDestroy
  <1>2. CASE HeadCallbackFails(r)
    <2>1. WriteOutcomes(AbortedOut(outq)) = {TRUE}
      BY DEF WriteOutcomes, AbortedOut
    <2>2. pc' = "read" /\ fault' = fault /\ req' = [req EXCEPT ![r] = "none"]
      BY <1>2, <2>1 DEF HeadCallbackFails
    <2>. QED BY <1>2, <2>2 DEF HeadCallbackFails, AbortInCallback, AbortAnswers,
            AbortedIn, InCallback, IInv, TableOpen, CallbackTarget, OthersOpen,
            AnsweredOnce, PendingOwned, ClosingQuiet, NoDoubleDestroy
  <1>3. CASE BodyCallbackFails(r)
    BY <1>3 DEF BodyCallbackFails, AbortInCallback, AbortAnswers, AbortedIn,
       InCallback, IInv, TableOpen, CallbackTarget, OthersOpen, AnsweredOnce,
       PendingOwned, ClosingQuiet, NoDoubleDestroy
  <1>. QED BY <1>1, <1>2, <1>3 DEF CallbackReturns

\* mnfcgi_ctx_fini takes requests that are complete out of the table.
LEMMA CloseInvariant ==
  ASSUME IInv, CloseDone \/ \E r \in Rid : DestroyRequest(r)
  PROVE  IInv'
  <1>1. CASE CloseDone
    BY <1>1 DEF CloseDone, IInv, TableOpen, CallbackTarget, OthersOpen, AnsweredOnce,
       PendingOwned, ClosingQuiet, NoDoubleDestroy
  <1>2. ASSUME NEW r \in Rid, DestroyRequest(r)
        PROVE  IInv'
    BY <1>2 DEF DestroyRequest, IInv, TableOpen, CallbackTarget, OthersOpen,
       AnsweredOnce, PendingOwned, ClosingQuiet, NoDoubleDestroy
  <1>. QED BY <1>1, <1>2

\* No step of the handler, of a callback or of the close breaks the invariant.
LEMMA StepInvariant == IInv /\ [Next]_vars => IInv'
  <1>. SUFFICES ASSUME IInv, [Next]_vars
                PROVE  IInv'
    OBVIOUS
  <1>1. CASE Next
    BY <1>1, ReadInvariant, HandleInvariant, CallLibraryInvariant,
       CallbackReturnsInvariant, CloseInvariant DEF Next
  <1>2. CASE UNCHANGED vars
    BY <1>2 DEF vars, IInv, TableOpen, CallbackTarget, OthersOpen, AnsweredOnce,
       PendingOwned, ClosingQuiet, NoDoubleDestroy
  <1>. QED BY <1>1, <1>2

\* Every reachable state of the connection satisfies the inductive invariant.
THEOREM Invariant == Spec => []IInv
  BY InitInvariant, StepInvariant, PTL DEF Spec

-----------------------------------------------------------------------------
(* The safety invariants                                                   *)

\* Every variable keeps its type.
THEOREM TypeCorrect == Spec => []TypeOK
  BY Invariant, PTL DEF IInv

\* Between two records the table holds exactly the open requests.
THEOREM TableIsOpen == Spec => []TableOpen
  BY Invariant, PTL DEF IInv

\* A callback runs on a live request.
THEOREM CallbackHasTarget == Spec => []CallbackTarget
  BY Invariant, PTL DEF IInv

\* A request gets a single END_REQUEST.
THEOREM SingleAnswer == Spec => []AnsweredOnce
  BY Invariant, PTL DEF IInv

\* Pending STDOUT belongs to open requests.
THEOREM NothingAfterAnswer == Spec => []PendingOwned
  BY Invariant, PTL DEF IInv

\* A connection that is closing has nothing left to parse or to write.
THEOREM QuietClosing == Spec => []ClosingQuiet
  BY Invariant, PTL DEF IInv

\* No record is destroyed twice.
THEOREM RecordDestroyedOnce == Spec => []NoDoubleDestroy
  BY Invariant, PTL DEF IInv

\* A callback starts on an open request, and the only call that completes one
\* empties the output; afterwards nothing can be rendered for it any more.
LEMMA StepRewinds == IInv /\ RewindLosesNothing /\ [Next]_vars => RewindLosesNothing'
  <1>. SUFFICES ASSUME IInv, RewindLosesNothing, [Next]_vars,
                       pc' = "cb", req'[cur'.rid] = "complete"
                PROVE  outq' = <<>>
    BY DEF RewindLosesNothing
  <1>1. CASE Read
    BY <1>1 DEF Read, Consume, ConsumeFails, ParseFails, UnknownType, Parsed, HangUp
  <1>2. CASE Handle
    <2>1. CASE BeginNew
      <3>1. Head(inq).rid \in Rid
        BY <2>1 DEF BeginNew, Parsed, IInv
      <3>. QED BY <2>1, <3>1 DEF BeginNew, IInv
    <2>2. CASE Stream
      BY <2>2 DEF Stream, Parsed, IInv, TableOpen
    <2>3. CASE ~BeginNew /\ ~Stream
      BY <1>2, <2>3 DEF Handle, BeginUnsupported, BeginDouble, NoSuchRequest, Abort,
         GetValues, GetValuesPairs, Default, Parsed, Reply, Written, HangUp
    <2>. QED BY <2>1, <2>2, <2>3
  <1>3. ASSUME NEW r \in Rid, CallLibrary(r)
        PROVE  outq' = <<>>
    BY <1>3 DEF CallLibrary, RenderStdout, RenderFails, FlushOut, Finalize, InCallback
  <1>4. ASSUME NEW r \in Rid, CallbackReturns(r)
        PROVE  outq' = <<>>
    BY <1>4 DEF CallbackReturns, CallbackOk, HeadCallbackFails, BodyCallbackFails,
       AbortInCallback
  <1>5. CASE CloseDone \/ \E r \in Rid : DestroyRequest(r)
    BY <1>5 DEF CloseDone, DestroyRequest
  <1>6. CASE UNCHANGED vars
    BY <1>6 DEF vars, RewindLosesNothing
  <1>. QED BY <1>1, <1>2, <1>3, <1>4, <1>5, <1>6 DEF Next

\* No rewind by a request that is complete throws a pending record away.
THEOREM RewindsHarmless == Spec => []RewindLosesNothing
  <1>1. Init => RewindLosesNothing
    BY DEF Init, RewindLosesNothing
  <1>. QED BY <1>1, StepRewinds, Invariant, PTL DEF Spec

-----------------------------------------------------------------------------
(* FcgiConn implements FcgiLife                                            *)

\* A new connection has accepted no request.
LEMMA InitSimulation == Init => Life!LifeInit
  BY DEF Init, Life!LifeInit, LifeOf

\* Leaving the loop between two records: no request is complete yet, and those
\* of the table become so.
LEMMA HangUpSimulation ==
  ASSUME IInv, pc = "read", HangUp
  PROVE  Life!HangUp
  BY DEF HangUp, MarkComplete, Life!HangUp, LifeOf, IInv, TableOpen

\* A reply changes no request unless its write fails and the connection hangs up.
LEMMA ReplySimulation ==
  ASSUME IInv, pc = "read", Reply
  PROVE  Life!HangUp \/ UNCHANGED Life!lifeVars
  <1>1. CASE Written
    BY <1>1 DEF Written, Life!lifeVars
  <1>2. CASE HangUp
    BY <1>2, HangUpSimulation
  <1>. QED BY <1>1, <1>2 DEF Reply

\* Reading changes no request unless it fails and the connection hangs up.
LEMMA ReadSimulation ==
  ASSUME IInv, Read
  PROVE  Life!HangUp \/ UNCHANGED Life!lifeVars
  <1>1. CASE Consume
    BY <1>1 DEF Consume, Life!lifeVars
  <1>2. CASE ConsumeFails
    BY <1>2, HangUpSimulation DEF ConsumeFails
  <1>3. CASE ParseFails
    BY <1>3, HangUpSimulation DEF ParseFails, Parsed
  <1>4. CASE UnknownType
    BY <1>4 DEF UnknownType, Parsed, Life!lifeVars
  <1>. QED BY <1>1, <1>2, <1>3, <1>4 DEF Read

\* A record opens a request (BeginNew), answers and releases one (Abort), ends
\* the connection, or changes nothing of what FcgiLife sees.
LEMMA HandleSimulation ==
  ASSUME IInv, Handle
  PROVE  Life!LifeNext \/ UNCHANGED Life!lifeVars
  <1>1. CASE BeginUnsupported \/ BeginDouble \/ NoSuchRequest \/ Default
    BY <1>1, ReplySimulation
       DEF BeginUnsupported, BeginDouble, NoSuchRequest, Default, Parsed, Life!LifeNext
  <1>2. CASE BeginNew
    <2>. DEFINE r == Head(inq).rid
    <2>1. r \in Rid
      BY <1>2 DEF BeginNew, Parsed, IInv
    <2>2. Life!Accept(r)
      BY <1>2, <2>1 DEF BeginNew, Parsed, Life!Accept, LifeOf, IInv, TableOpen
    <2>. QED BY <2>1, <2>2 DEF Life!LifeNext
  <1>3. CASE Abort
    <2>. DEFINE r == Head(inq).rid
    <2>1. r \in Rid
      BY <1>3 DEF Abort, Parsed, IInv
    <2>2. Life!Answer(r)
      BY <1>3, <2>1
         DEF Abort, AbortAnswers, Parsed, Life!Answer, LifeOf, IInv, TableOpen
    <2>. QED BY <2>1, <2>2 DEF Life!LifeNext
  <1>4. CASE Stream
    BY <1>4 DEF Stream, Parsed, Life!lifeVars
  <1>5. CASE GetValues
    BY <1>5 DEF GetValues, Life!lifeVars
  <1>6. CASE GetValuesPairs
    <2>1. CASE HangUp
      BY <1>6, <2>1, HangUpSimulation DEF GetValuesPairs, Parsed, Life!LifeNext
    <2>2. CASE ~HangUp
      BY <1>6, <2>2 DEF GetValuesPairs, Parsed, Life!lifeVars
    <2>. QED BY <2>1, <2>2
  <1>. QED BY <1>1, <1>2, <1>3, <1>4, <1>5, <1>6 DEF Handle

\* Of the calls of a callback only mnfcgi_finalize_request is seen by FcgiLife:
\* it answers an open request, and does nothing to one that is complete.
LEMMA CallLibrarySimulation ==
  ASSUME IInv, NEW r \in Rid, CallLibrary(r)
  PROVE  Life!Answer(r) \/ UNCHANGED Life!lifeVars
  <1>1. CASE RenderStdout(r) \/ RenderFails(r) \/ FlushOut(r)
    BY <1>1 DEF RenderStdout, RenderFails, FlushOut, Life!lifeVars
  <1>2. CASE Finalize(r)
    <2>1. CASE req[r] = "open"
      BY <1>2, <2>1 DEF Finalize, AbortAnswers, InCallback, Life!Answer, LifeOf, IInv
    <2>2. CASE req[r] # "open"
      <3>1. req[r] = "complete"
        BY <1>2, <2>2 DEF Finalize, InCallback, IInv, CallbackTarget
      <3>. QED BY <1>2, <3>1 DEF Finalize, AbortAnswers, Life!lifeVars, IInv
    <2>. QED BY <2>1, <2>2
  <1>. QED BY <1>1, <1>2 DEF CallLibrary

\* The end of a callback releases a completed request, answers and releases an
\* open one after an error, and is a stutter otherwise.
LEMMA CallbackReturnsSimulation ==
  ASSUME IInv, NEW r \in Rid, CallbackReturns(r)
  PROVE  Life!Answer(r) \/ Life!Release(r) \/ UNCHANGED Life!lifeVars
  <1>1. CASE CallbackOk(r)
    <2>1. CASE req[r] = "open"
      BY <1>1, <2>1 DEF CallbackOk, ObjectAfter, InCallback, Life!lifeVars, IInv
    <2>2. CASE req[r] # "open"
      <3>1. req[r] = "complete"
        BY <1>1, <2>2 DEF CallbackOk, InCallback, IInv, CallbackTarget
      <3>2. answer[r] # "none"
        BY <1>1, <3>1 DEF CallbackOk, InCallback, IInv, AnsweredOnce
      <3>3. Life!Release(r)
        BY <1>1, <3>1, <3>2
           DEF CallbackOk, ObjectAfter, InCallback, Life!Release, LifeOf, IInv
      <3>. QED BY <3>3
    <2>. QED BY <2>1, <2>2
  <1>2. CASE HeadCallbackFails(r) \/ BodyCallbackFails(r)
    <2>1. InCallback(r) /\ AbortInCallback(r)
      BY <1>2 DEF HeadCallbackFails, BodyCallbackFails
    <2>2. pc' \in {"read", "crashed"} /\ req' = [req EXCEPT ![r] = "none"]
      BY <1>2 DEF HeadCallbackFails, BodyCallbackFails, WriteOutcomes, AbortedOut
    <2>3. CASE req[r] = "open"
      <3>1. Life!Answer(r)
        BY <2>1, <2>2, <2>3
           DEF AbortInCallback, AbortAnswers, InCallback, Life!Answer, LifeOf, IInv
      <3>. QED BY <3>1
    <2>4. CASE req[r] # "open"
      <3>1. req[r] = "complete" /\ answer[r] # "none"
        BY <2>1, <2>4 DEF InCallback, IInv, CallbackTarget, AnsweredOnce
      <3>2. answer' = answer
        BY <2>1, <3>1 DEF AbortInCallback, AbortAnswers, IInv
      <3>3. Life!Release(r)
        BY <2>1, <2>2, <3>1, <3>2 DEF InCallback, Life!Release, LifeOf, IInv
      <3>. QED BY <3>3
    <2>. QED BY <2>3, <2>4
  <1>. QED BY <1>1, <1>2 DEF CallbackReturns

\* mnfcgi_ctx_fini releases requests that the err label has marked complete.
LEMMA CloseSimulation ==
  ASSUME IInv, CloseDone \/ \E r \in Rid : DestroyRequest(r)
  PROVE  (\E r \in Rid : Life!Release(r)) \/ UNCHANGED Life!lifeVars
  <1>1. CASE CloseDone
    BY <1>1 DEF CloseDone, Life!lifeVars
  <1>2. ASSUME NEW r \in Rid, DestroyRequest(r)
        PROVE  Life!Release(r)
    BY <1>2 DEF DestroyRequest, Life!Release, LifeOf, IInv, ClosingQuiet
  <1>. QED BY <1>1, <1>2

\* Every step of the connection is a step of FcgiLife or a stutter.
LEMMA StepSimulation == IInv /\ [Next]_vars => [Life!LifeNext]_(Life!lifeVars)
  <1>. SUFFICES ASSUME IInv, [Next]_vars
                PROVE  Life!LifeNext \/ UNCHANGED Life!lifeVars
    OBVIOUS
  <1>1. CASE Next
    BY <1>1, ReadSimulation, HandleSimulation, CallLibrarySimulation,
       CallbackReturnsSimulation, CloseSimulation DEF Next, Life!LifeNext
  <1>2. CASE UNCHANGED vars
    BY <1>2 DEF vars, Life!lifeVars
  <1>. QED BY <1>1, <1>2

\* The connection keeps the promise of FcgiLife: an accepted request is answered
\* once before it is released, unless the connection hangs up.
THEOREM Implementation == Spec => ImplementsLife
  BY InitSimulation, StepSimulation, Invariant, PTL DEF Spec, Life!LifeSpec, ImplementsLife

=============================================================================
