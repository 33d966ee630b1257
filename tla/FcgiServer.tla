----------------------------- MODULE FcgiServer -----------------------------
(***************************************************************************)
(* The server around the connections: an application object whose first    *)
(* member is the configuration, the thread in mnfcgi_serve, one spawned    *)
(* thread per accepted connection, and the reference count that decides    *)
(* who frees the application.  What a connection thread does between its   *)
(* start and its end is FcgiConn.                                          *)
(*                                                                         *)
(* Threads are cooperative: one action runs from one switch to the next.   *)
(***************************************************************************)
EXTENDS Integers, FiniteSets

CONSTANTS
    Conn,       \* connections
    MaxHolders  \* bound: references the program itself holds at a time

ASSUME ConnAssumption == IsFiniteSet(Conn)
ASSUME HoldersAssumption == MaxHolders \in Nat \ {0}

VARIABLES
    app,        \* "none", "live", "fini" (freed after mnfcgi_app_fini) or
                \* "config_fini" (freed after mnfcgi_config_fini alone)
    nref,       \* config->nref
    nthreads,   \* config->stats.nthreads
    holders,    \* references held by the program: mnfcgi_app_new, _incref
    serve,      \* mnfcgi_serve: "start", "accept", "returned"
    socket,     \* config->fd: "closed" or "listening"
    conn        \* conn[c]: "none", "backlog", "spawned", "running" (the handler
                \* loop), "ending" (mnfcgi_ctx_fini), "closed", "leaked"

vars == <<app, nref, nthreads, holders, serve, socket, conn>>

In(phases) == {c \in Conn : conn[c] \in phases}

TypeOK ==
    /\ app \in {"none", "live", "fini", "config_fini"}
    /\ nref \in Int
    /\ nthreads \in Nat
    /\ holders \in 0..MaxHolders
    /\ serve \in {"start", "accept", "returned"}
    /\ socket \in {"closed", "listening"}
    /\ conn \in [Conn -> {"none", "backlog", "spawned", "running", "ending", "closed",
                      "leaked"}]

Init ==
    /\ app = "none"
    /\ nref = 0
    /\ nthreads = 0
    /\ holders = 0
    /\ serve = "start"
    /\ socket = "closed"
    /\ conn = [c \in Conn |-> "none"]

-----------------------------------------------------------------------------
(* The application object                                                  *)

\* mnfcgi_app_new: the program's reference is the first.
New ==
    /\ app = "none"
    /\ app' = "live"
    /\ nref' = 1
    /\ holders' = 1
    /\ UNCHANGED <<nthreads, serve, socket, conn>>

\* init_app fails: the object is destroyed with no reference counted yet.
NewFails ==
    /\ app = "none"
    /\ app' = "fini"
    /\ nref' = -1
    /\ serve' = "returned"
    /\ UNCHANGED <<nthreads, holders, socket, conn>>

Incref ==
    /\ holders \in 1..MaxHolders - 1
    /\ holders' = holders + 1
    /\ nref' = nref + 1
    /\ UNCHANGED <<app, nthreads, serve, socket, conn>>

\* Mutant: the socket is kept.
CloseListening_Kept(conns) == conn' = conns /\ UNCHANGED socket

\* mnfcgi_config_fini: the backlog is lost with the listening socket.
CloseListening(conns) ==
    /\ socket' = "closed"
    /\ conn' = [c \in Conn |-> IF conns[c] = "backlog" THEN "closed" ELSE conns[c]]

\* Mutant: the test of mnfcgi_app_destroy is "< 0".
Destroy_OffByOne ==
    /\ holders > (IF serve = "returned" THEN 0 ELSE 1)
    /\ holders' = holders - 1
    /\ nref' = nref - 1
    /\ IF nref' < 0
       THEN app' = "fini" /\ CloseListening(conn)
       ELSE UNCHANGED <<app, socket, conn>>
    /\ UNCHANGED <<nthreads, serve>>

\* mnfcgi_app_destroy.  The caller of mnfcgi_serve keeps its reference until it
\* has returned.
Destroy ==
    /\ holders > (IF serve = "returned" THEN 0 ELSE 1)
    /\ holders' = holders - 1
    /\ nref' = nref - 1
    /\ IF nref' <= 0
       THEN app' = "fini" /\ CloseListening(conn)
       ELSE UNCHANGED <<app, socket, conn>>
    /\ UNCHANGED <<nthreads, serve>>

-----------------------------------------------------------------------------
(* mnfcgi_serve                                                            *)

BindFails ==
    /\ app = "live"
    /\ serve = "start"
    /\ serve' = "returned"
    /\ UNCHANGED <<app, nref, nthreads, holders, socket, conn>>

\* After a failed listen the socket is kept, but nobody can connect.
Listen ==
    /\ app = "live"
    /\ serve = "start"
    /\ \/ serve' = "accept" /\ socket' = "listening"
       \/ serve' = "returned" /\ UNCHANGED socket
    /\ UNCHANGED <<app, nref, nthreads, holders, conn>>

\* A web server connects: the kernel needs only the listening socket.
Connect(c) ==
    /\ socket = "listening"
    /\ conn[c] = "none"
    /\ conn' = [conn EXCEPT ![c] = "backlog"]
    /\ UNCHANGED <<app, nref, nthreads, holders, serve, socket>>

\* mnthr_accept_all2 takes the whole backlog; a thread is spawned for each.
Accept ==
    /\ serve = "accept"
    /\ In({"backlog"}) # {}
    /\ conn' = [c \in Conn |-> IF conn[c] = "backlog" THEN "spawned" ELSE conn[c]]
    /\ UNCHANGED <<app, nref, nthreads, holders, serve, socket>>

\* mnthr_accept_all2 fails, which may be after it has accepted some: those are
\* dropped with their descriptors open.  It switches threads before it fails,
\* so that those spawned so far have started.
AcceptFails ==
    /\ serve = "accept"
    /\ In({"spawned"}) = {}
    /\ serve' = "returned"
    /\ \E lost \in SUBSET In({"backlog"}) :
          conn' = [c \in Conn |-> IF c \in lost THEN "leaked" ELSE conn[c]]
    /\ UNCHANGED <<app, nref, nthreads, holders, socket>>

-----------------------------------------------------------------------------
(* mnfcgi_handle_socket                                                    *)

\* Mutant: the thread uses the configuration without a reference.
ThreadStart_NoRef(c) ==
    /\ conn[c] = "spawned"
    /\ conn' = [conn EXCEPT ![c] = "running"]
    /\ nthreads' = nthreads + 1
    /\ UNCHANGED <<app, nref, holders, serve, socket>>

\* The new thread runs for the first time: it is counted and takes its
\* reference here, not when it was spawned.
ThreadStart(c) ==
    /\ conn[c] = "spawned"
    /\ conn' = [conn EXCEPT ![c] = "running"]
    /\ nthreads' = nthreads + 1
    /\ nref' = nref + 1
    /\ UNCHANGED <<app, holders, serve, socket>>

\* Mutant: the count of threads is not decremented.
ThreadLeaves_Counted(c) ==
    /\ conn[c] = "running"
    /\ conn' = [conn EXCEPT ![c] = "ending"]
    /\ UNCHANGED <<app, nref, nthreads, holders, serve, socket>>

\* The handler loop is over; the requests that are left are being destroyed.
ThreadLeaves(c) ==
    /\ conn[c] = "running"
    /\ conn' = [conn EXCEPT ![c] = "ending"]
    /\ nthreads' = nthreads - 1
    /\ UNCHANGED <<app, nref, holders, serve, socket>>

\* Mutant: the thread is counted off with its reference as well.
CtxFini_Counted(c) ==
    /\ conn[c] = "ending"
    /\ nref' = nref - 1
    /\ nthreads' = nthreads - 1
    /\ LET ended == [conn EXCEPT ![c] = "closed"]
       IN  IF nref' <= 0
           THEN app' = "config_fini" /\ CloseListening(ended)
           ELSE conn' = ended /\ UNCHANGED <<app, socket>>
    /\ UNCHANGED <<holders, serve>>

\* MNFCGI_CONFIG_DECREF, last in mnfcgi_ctx_fini: the last reference frees the
\* object as a bare configuration.
CtxFini(c) ==
    /\ conn[c] = "ending"
    /\ nref' = nref - 1
    /\ LET ended == [conn EXCEPT ![c] = "closed"]
       IN  IF nref' <= 0
           THEN app' = "config_fini" /\ CloseListening(ended)
           ELSE conn' = ended /\ UNCHANGED <<app, socket>>
    /\ UNCHANGED <<nthreads, holders, serve>>

-----------------------------------------------------------------------------
Next ==
    \/ New \/ NewFails \/ Incref \/ Destroy
    \/ BindFails \/ Listen \/ Accept \/ AcceptFails
    \/ \E c \in Conn :
          Connect(c) \/ ThreadStart(c) \/ ThreadLeaves(c) \/ CtxFini(c)

Spec == Init /\ [][Next]_vars

\* A spawned thread gets to run, and nothing blocks mnfcgi_ctx_fini.  A handler
\* loop may run for ever, and the program need not let go.
FairSpec ==
    /\ Spec
    /\ \A c \in Conn : WF_vars(ThreadStart(c)) /\ WF_vars(CtxFini(c))

-----------------------------------------------------------------------------
(* Safety                                                                  *)

\* The reference count is what it stands for: the program's references and one
\* for each thread from its start to the end of mnfcgi_ctx_fini.
RefsCounted ==
    app = "live" => nref = holders + Cardinality(In({"running", "ending"}))

\* The application lives exactly as long as the program or a connection thread,
\* started or only spawned, may use it: it is neither freed under a thread, in
\* whatever order mnfcgi_serve returns, the program lets go and the connections
\* end, nor leaked after the last of them.
AppLifetime ==
    app # "none" =>
        (app = "live" <=> (holders > 0 \/ In({"spawned", "running", "ending"}) # {}))

\* stats.nthreads counts the threads in the handler loop.
ThreadsCounted == nthreads = Cardinality(In({"running"}))

\* The listening socket is closed with the application, whoever frees it, and
\* no web server is left waiting in its backlog.
ListeningOwned ==
    /\ socket = "listening" => app = "live"
    /\ In({"backlog"}) # {} => socket = "listening"

\* Until mnfcgi_serve has returned its caller holds a reference, and threads
\* that have not started yet exist only while it accepts.
ServeHolds ==
    /\ app = "live" /\ serve # "returned" => holders > 0
    /\ serve = "accept" => app = "live"
    /\ In({"spawned"}) # {} => serve = "accept"

\* Before mnfcgi_app_new and after the end nothing refers to the application.
Unused ==
    app # "live" => holders = 0 /\ In({"spawned", "running", "ending"}) = {}

\* The inductive invariant of the server.
IInv ==
    /\ TypeOK
    /\ RefsCounted
    /\ AppLifetime
    /\ ThreadsCounted
    /\ ListeningOwned
    /\ ServeHolds
    /\ Unused

-----------------------------------------------------------------------------
(* Liveness                                                                *)

\* Once the program has let go and the handler loops are over, the application
\* is freed and its socket is closed, whoever gives back the last reference.
LastUserFrees ==
    holders = 0 /\ In({"spawned", "running"}) = {} ~> app # "live" /\ socket = "closed"

-----------------------------------------------------------------------------
(* What the interface says and the code does not do                        *)

\* fini_app undoes init_app (mnfcgi_app.h:41-48, test/testbar.c:186-193): an
\* application is not freed without it.
FiniAppRuns == app # "config_fini"

=============================================================================
