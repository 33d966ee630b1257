-------------------------- MODULE FcgiServerProof --------------------------
(***************************************************************************)
(* Proofs about FcgiServer, for any finite set of connections.  The heart  *)
(* is arithmetic on the two counters: a thread that starts adds itself to  *)
(* the set they count and one that ends removes itself, so that a count of *)
(* zero is an empty set, and the last reference is the last user.          *)
(***************************************************************************)
EXTENDS FcgiServer, FiniteSetTheorems, TLAPS

USE ConnAssumption, HoldersAssumption

\* Phases hold finitely many connections, so their number is a natural number.
LEMMA InFinite ==
  ASSUME NEW phases
  PROVE  IsFiniteSet(In(phases)) /\ Cardinality(In(phases)) \in Nat
  BY FS_Subset, FS_CardinalityType DEF In

\* Nobody is counted exactly when nobody is there.
LEMMA InEmpty ==
  ASSUME NEW phases
  PROVE  Cardinality(In(phases)) = 0 <=> In(phases) = {}
  BY InFinite, FS_EmptySet

\* A connection that joins a set of phases makes it larger by one, ...
LEMMA InGrows ==
  ASSUME NEW phases, NEW c \in Conn, c \notin In(phases),
         In(phases)' = In(phases) \cup {c}
  PROVE  Cardinality(In(phases))' = Cardinality(In(phases)) + 1
  <1>1. Cardinality(In(phases) \cup {c}) = Cardinality(In(phases)) + 1
    BY InFinite, FS_AddElement
  <1>. QED BY <1>1

\* ... and one that leaves it makes it smaller by one.
LEMMA InShrinks ==
  ASSUME NEW phases, NEW c \in Conn, c \in In(phases),
         In(phases)' = In(phases) \ {c}
  PROVE  Cardinality(In(phases))' = Cardinality(In(phases)) - 1
  <1>1. Cardinality(In(phases) \ {c}) = Cardinality(In(phases)) - 1
    BY InFinite, FS_RemoveElement
  <1>. QED BY <1>1

\* Before mnfcgi_app_new nothing is counted and nothing refers to anything.
LEMMA InitInvariant == Init => IInv
  <1>. SUFFICES ASSUME Init
                PROVE  IInv
    OBVIOUS
  <1>1. /\ In({"running"}) = {} /\ In({"running", "ending"}) = {}
        /\ In({"spawned"}) = {} /\ In({"backlog"}) = {}
        /\ In({"spawned", "running", "ending"}) = {}
    BY DEF Init, In
  <1>2. Cardinality(In({"running"})) = 0
    BY <1>1, FS_EmptySet
  <1>3. TypeOK
    BY HoldersAssumption DEF Init, TypeOK
  <1>. QED BY <1>1, <1>2, <1>3 DEF Init, IInv, RefsCounted, AppLifetime,
          ThreadsCounted, ListeningOwned, ServeHolds, Unused

\* What counts is untouched by a step that moves no connection into or out of
\* its thread.
LEMMA SameCounts ==
  ASSUME \A c \in Conn : conn'[c] = conn[c]
                         \/ /\ conn[c] \notin {"running", "ending"}
                            /\ conn'[c] \notin {"running", "ending"}
  PROVE  /\ In({"running"})' = In({"running"})
         /\ In({"running", "ending"})' = In({"running", "ending"})
         /\ Cardinality(In({"running"}))' = Cardinality(In({"running"}))
         /\ Cardinality(In({"running", "ending"}))'
            = Cardinality(In({"running", "ending"}))
  <1>1. /\ In({"running"})' = In({"running"})
        /\ In({"running", "ending"})' = In({"running", "ending"})
    BY DEF In
  <1>. QED BY <1>1

\* A live application without references has no user left.
LEMMA LastReference ==
  ASSUME IInv, app = "live"
  PROVE  /\ nref = holders + Cardinality(In({"running", "ending"}))
         /\ Cardinality(In({"running", "ending"})) \in Nat
         /\ Cardinality(In({"running", "ending"})) = 0
            <=> In({"running", "ending"}) = {}
         /\ holders \in Nat
  BY InFinite, InEmpty DEF IInv, TypeOK, RefsCounted

-----------------------------------------------------------------------------
(* The steps                                                               *)

\* mnfcgi_app_new, whether or not it succeeds, and mnfcgi_app_incref.
LEMMA ProgramInvariant ==
  ASSUME IInv, New \/ NewFails \/ Incref
  PROVE  IInv'
  <1>. USE DEF IInv, TypeOK, AppLifetime, ListeningOwned, ServeHolds, Unused
  <1>0. /\ In({"running"})' = In({"running"})
        /\ \A phases : In(phases)' = In(phases)
        /\ Cardinality(In({"running", "ending"}))'
           = Cardinality(In({"running", "ending"}))
    BY DEF New, NewFails, Incref, In
  <1>1. CASE New
    <2>1. In({"running", "ending"}) = {} /\ In({"spawned"}) = {}
      BY <1>1 DEF New, In
    <2>2. Cardinality(In({"running", "ending"})) = 0
      BY <2>1, FS_EmptySet
    <2>. QED BY <1>0, <1>1, <2>1, <2>2 DEF New, RefsCounted, ThreadsCounted
  <1>2. CASE NewFails
    BY <1>0, <1>2 DEF NewFails, RefsCounted, ThreadsCounted, In
  <1>3. CASE Incref
    BY <1>0, <1>3, LastReference DEF Incref, RefsCounted, ThreadsCounted
  <1>. QED BY <1>1, <1>2, <1>3

\* mnfcgi_serve up to its accept loop.
LEMMA ServeInvariant ==
  ASSUME IInv, BindFails \/ Listen
  PROVE  IInv'
  <1>0. /\ \A phases : In(phases)' = In(phases)
        /\ Cardinality(In({"running"}))' = Cardinality(In({"running"}))
        /\ Cardinality(In({"running", "ending"}))'
           = Cardinality(In({"running", "ending"}))
    BY DEF BindFails, Listen, In
  <1>1. app = "live" /\ holders > 0
    BY DEF BindFails, Listen, IInv, ServeHolds
  <1>. QED BY <1>0, <1>1 DEF BindFails, Listen, IInv, TypeOK, RefsCounted, AppLifetime,
          ThreadsCounted, ListeningOwned, ServeHolds, Unused

\* The program's last reference frees the application only when no thread has
\* one; nothing is spawned any more by then.
LEMMA DestroyInvariant ==
  ASSUME IInv, Destroy
  PROVE  IInv'
  <1>. USE DEF IInv, TypeOK, AppLifetime, ListeningOwned, ServeHolds, Unused
  <1>1. app = "live"
    BY DEF Destroy
  <1>2. CASE nref' <= 0
    <2>1. holders' = 0 /\ In({"running", "ending"}) = {} /\ serve = "returned"
      BY <1>1, <1>2, LastReference DEF Destroy
    <2>2. app' = "fini" /\ CloseListening(conn)
      BY <1>2 DEF Destroy
    <2>3. /\ In({"running"})' = In({"running"})
          /\ In({"running", "ending"})' = {}
          /\ Cardinality(In({"running"}))' = Cardinality(In({"running"}))
      BY <2>1, <2>2, SameCounts DEF CloseListening
    <2>4. In({"spawned", "running", "ending"})' = {} /\ In({"spawned"})' = {}
          /\ In({"backlog"})' = {}
      BY <2>1, <2>2 DEF CloseListening, In
    <2>. QED BY <2>1, <2>2, <2>3, <2>4
            DEF Destroy, CloseListening, RefsCounted, ThreadsCounted
  <1>3. CASE ~(nref' <= 0)
    <2>1. /\ \A phases : In(phases)' = In(phases)
          /\ Cardinality(In({"running"}))' = Cardinality(In({"running"}))
          /\ Cardinality(In({"running", "ending"}))'
             = Cardinality(In({"running", "ending"}))
      BY <1>3 DEF Destroy, In
    <2>2. holders' > 0 \/ In({"spawned", "running", "ending"}) # {}
      <3>1. holders' > 0 \/ In({"running", "ending"}) # {}
        BY <1>1, <1>3, LastReference DEF Destroy
      <3>. QED BY <3>1 DEF In
    <2>. QED BY <1>1, <1>3, <2>1, <2>2, LastReference
            DEF Destroy, RefsCounted, ThreadsCounted
  <1>. QED BY <1>2, <1>3 DEF Destroy

\* Connections wait in the backlog and are spawned or dropped; none is counted yet.
LEMMA AcceptInvariant ==
  ASSUME IInv, Accept \/ AcceptFails \/ \E c \in Conn : Connect(c)
  PROVE  IInv'
  <1>. USE DEF IInv, TypeOK, AppLifetime, ListeningOwned, ServeHolds, Unused
  <1>1. app = "live"
    BY DEF Accept, AcceptFails, Connect
  <1>2. /\ Cardinality(In({"running"}))' = Cardinality(In({"running"}))
        /\ Cardinality(In({"running", "ending"}))'
           = Cardinality(In({"running", "ending"}))
    BY SameCounts DEF Accept, AcceptFails, Connect, In
  <1>3. CASE Accept
    <2>1. In({"backlog"})' = {}
      BY <1>3 DEF Accept, In
    <2>. QED BY <1>1, <1>2, <1>3, <2>1 DEF Accept, RefsCounted, ThreadsCounted
  <1>4. CASE AcceptFails
    <2>1. /\ In({"spawned"})' = {}
          /\ In({"spawned", "running", "ending"})' = In({"spawned", "running", "ending"})
          /\ In({"backlog"})' # {} => In({"backlog"}) # {}
      BY <1>4 DEF AcceptFails, In
    <2>2. conn' \in [Conn -> {"none", "backlog", "spawned", "running", "ending",
                              "closed", "leaked"}]
      BY <1>4 DEF AcceptFails
    <2>. QED BY <1>1, <1>2, <1>4, <2>1, <2>2 DEF AcceptFails, RefsCounted, ThreadsCounted
  <1>5. ASSUME NEW c \in Conn, Connect(c)
        PROVE  IInv'
    <2>1. /\ In({"spawned"})' = In({"spawned"})
          /\ In({"spawned", "running", "ending"})' = In({"spawned", "running", "ending"})
      BY <1>5 DEF Connect, In
    <2>. QED BY <1>1, <1>2, <1>5, <2>1 DEF Connect, RefsCounted, ThreadsCounted
  <1>. QED BY <1>3, <1>4, <1>5

\* A thread that starts counts itself and its reference; mnfcgi_serve is still
\* accepting, so the application is alive.
LEMMA ThreadStartInvariant ==
  ASSUME IInv, NEW c \in Conn, ThreadStart(c)
  PROVE  IInv'
  <1>. USE DEF IInv, TypeOK, AppLifetime, ListeningOwned, ServeHolds, Unused
  <1>1. app = "live"
    BY DEF ThreadStart, In
  <1>2. Cardinality(In({"running"}))' = Cardinality(In({"running"})) + 1
    <2>1. c \notin In({"running"}) /\ In({"running"})' = In({"running"}) \cup {c}
      BY DEF ThreadStart, In
    <2>. QED BY <2>1, InGrows
  <1>3. Cardinality(In({"running", "ending"}))'
        = Cardinality(In({"running", "ending"})) + 1
    <2>1. /\ c \notin In({"running", "ending"})
          /\ In({"running", "ending"})' = In({"running", "ending"}) \cup {c}
      BY DEF ThreadStart, In
    <2>. QED BY <2>1, InGrows
  <1>4. /\ In({"spawned", "running", "ending"})' # {}
        /\ In({"spawned"})' # {} => In({"spawned"}) # {}
        /\ In({"backlog"})' = In({"backlog"})
    BY DEF ThreadStart, In
  <1>. QED BY <1>1, <1>2, <1>3, <1>4, LastReference, InFinite
          DEF ThreadStart, RefsCounted, ThreadsCounted

\* A thread that leaves its loop is counted out but keeps its reference.
LEMMA ThreadLeavesInvariant ==
  ASSUME IInv, NEW c \in Conn, ThreadLeaves(c)
  PROVE  IInv'
  <1>. USE DEF IInv, TypeOK, AppLifetime, ListeningOwned, ServeHolds, Unused
  <1>1. Cardinality(In({"running"}))' = Cardinality(In({"running"})) - 1
    <2>1. c \in In({"running"}) /\ In({"running"})' = In({"running"}) \ {c}
      BY DEF ThreadLeaves, In
    <2>. QED BY <2>1, InShrinks
  <1>2. /\ In({"running", "ending"})' = In({"running", "ending"})
        /\ Cardinality(In({"running", "ending"}))'
           = Cardinality(In({"running", "ending"}))
        /\ In({"spawned", "running", "ending"})' = In({"spawned", "running", "ending"})
        /\ In({"spawned"})' = In({"spawned"})
        /\ In({"backlog"})' = In({"backlog"})
    BY DEF ThreadLeaves, In
  <1>3. nthreads' \in Nat
    <2>1. nthreads = Cardinality(In({"running"})) /\ nthreads # 0
      <3>1. c \in In({"running"})
        BY DEF ThreadLeaves, In
      <3>. QED BY <3>1, InEmpty DEF ThreadsCounted
    <2>. QED BY <2>1 DEF ThreadLeaves
  <1>. QED BY <1>1, <1>2, <1>3, InFinite DEF ThreadLeaves, RefsCounted, ThreadsCounted

\* A thread that gives back the last reference frees the application: the
\* program has let go of it, and so mnfcgi_serve has returned.
LEMMA CtxFiniInvariant ==
  ASSUME IInv, NEW c \in Conn, CtxFini(c)
  PROVE  IInv'
  <1>. USE DEF IInv, TypeOK, AppLifetime, ListeningOwned, ServeHolds, Unused
  <1>1. app = "live"
    BY DEF CtxFini, In
  <1>. DEFINE before == In({"running", "ending"})
  <1>2. /\ before' = before \ {c} /\ c \in before
        /\ In({"running"})' = In({"running"})
        /\ In({"spawned"})' = In({"spawned"})
        /\ In({"backlog"})' # {} => In({"backlog"}) # {}
    BY DEF CtxFini, CloseListening, In
  <1>3. /\ Cardinality(before)' = Cardinality(before) - 1
        /\ Cardinality(In({"running"}))' = Cardinality(In({"running"}))
    BY <1>2, InShrinks
  <1>4. Cardinality(before)' \in Nat /\ (Cardinality(before)' = 0 <=> before' = {})
    <2>1. IsFiniteSet(before \ {c})
      BY InFinite, FS_RemoveElement
    <2>. QED BY <1>2, <2>1, FS_EmptySet, FS_CardinalityType
  <1>5. CASE nref' <= 0
    <2>1. holders = 0 /\ before' = {} /\ serve = "returned"
      BY <1>1, <1>3, <1>4, <1>5, LastReference DEF CtxFini
    <2>2. /\ app' = "config_fini" /\ socket' = "closed"
          /\ In({"backlog"})' = {}
      BY <1>5 DEF CtxFini, CloseListening, In
    <2>3. In({"spawned", "running", "ending"})' = {}
      BY <1>2, <2>1 DEF In
    <2>4. conn' \in [Conn -> {"none", "backlog", "spawned", "running", "ending",
                              "closed", "leaked"}]
      BY <1>5 DEF CtxFini, CloseListening
    <2>. QED BY <1>2, <1>3, <2>1, <2>2, <2>3, <2>4
            DEF CtxFini, RefsCounted, ThreadsCounted
  <1>6. CASE ~(nref' <= 0)
    <2>1. holders > 0 \/ before' # {}
      BY <1>1, <1>3, <1>4, <1>6, LastReference DEF CtxFini
    <2>2. holders > 0 \/ In({"spawned", "running", "ending"})' # {}
      BY <2>1 DEF In
    <2>. QED BY <1>1, <1>2, <1>3, <1>4, <1>6, <2>2, LastReference
            DEF CtxFini, RefsCounted, ThreadsCounted
  <1>. QED BY <1>5, <1>6 DEF CtxFini

\* No step of the program, of mnfcgi_serve or of a thread breaks the invariant.
LEMMA StepInvariant == IInv /\ [Next]_vars => IInv'
  <1>. SUFFICES ASSUME IInv, [Next]_vars
                PROVE  IInv'
    OBVIOUS
  <1>1. CASE Next
    BY <1>1, ProgramInvariant, DestroyInvariant, ServeInvariant, AcceptInvariant,
       ThreadStartInvariant, ThreadLeavesInvariant, CtxFiniInvariant DEF Next
  <1>2. CASE UNCHANGED vars
    BY <1>2 DEF vars, In, IInv, TypeOK, RefsCounted, AppLifetime, ThreadsCounted,
       ListeningOwned, ServeHolds, Unused
  <1>. QED BY <1>1, <1>2

\* Every reachable state of the server satisfies the inductive invariant.
THEOREM Invariant == Spec => []IInv
  BY InitInvariant, StepInvariant, PTL DEF Spec

\* Every variable keeps its type; the counters are integers throughout.
THEOREM TypeCorrect == Spec => []TypeOK
  BY Invariant, PTL DEF IInv

\* The reference count equals the references there are.
THEOREM CountedReferences == Spec => []RefsCounted
  BY Invariant, PTL DEF IInv

\* The application is freed when its last user is gone, and not before.
THEOREM Lifetime == Spec => []AppLifetime
  BY Invariant, PTL DEF IInv

\* stats.nthreads is the number of threads in their loop.
THEOREM CountedThreads == Spec => []ThreadsCounted
  BY Invariant, PTL DEF IInv

\* The listening socket does not outlive the application.
THEOREM OwnedSocket == Spec => []ListeningOwned
  BY Invariant, PTL DEF IInv

=============================================================================
