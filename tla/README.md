# A verification development for mnfcgi

mnfcgi is a FastCGI application server library in C: it listens for a web
server, reads FastCGI records from each of its connections, keeps the requests
of a connection apart, hands them to the callbacks of an application and writes
what these render. This directory holds TLA+ models of it, the TLC runs that
check them and TLAPS proofs about them. Paths below are those of the
repository; `proto.c`, `wire.c`, `app.c` and `private.h` are
`src/mnfcgi_proto.c` and so on.

## The system

### Components

| component | state | operations |
|---|---|---|
| server (`mnfcgi_serve`, `mnfcgi_handle_socket`, proto.c:1461-1530) | listening socket, one thread per connection, `stats.nthreads` | bind, listen, accept, spawn; thread start and end |
| application object (app.c:393-507) | `mnfcgi_app_t`, which starts with its `mnfcgi_config_t`; `nref`; endpoint tables | `mnfcgi_app_new`, `_incref`, `_destroy`; `MNFCGI_CONFIG_INCREF/DECREF` of the threads |
| connection handler (proto.c:780-1427) | `mnfcgi_ctx_t`: buffers `in` and `out`, table `requests`; `mnfcgi_request_t.flags.complete` | the record switch, the calls of the callbacks, `mnfcgi_render_stdout`, `mnfcgi_flush_out`, `mnfcgi_finalize_request`, `mnfcgi_abort_request`, the `err` label, `mnfcgi_ctx_fini` |
| response (proto.c:439-722) | `req->state`, `req->headers` | `mnfcgi_request_field_add*`, `_status_set`, `_headers_end` |
| application layer (app.c:11-167) | `req->state` | `mnfcgi_app_begin_request`, `_params`, `_stdin`, `_end_request`, `_error`, `_redir` |
| endpoints (app.c:170-361, 437-459) | `endpoint_tables` | register, three selectors, allowed methods |
| wire codec (wire.c) | records, byte streams | `mnfcgi_parse`, `mnfcgi_render`, name-value pairs |
| request information (proto.c:255-436) | `req->info` | parameters, query terms, cookies |
| test application (test/testoauth*.c) | `mnpq_cache_t` | login pages over a cache of PostgreSQL connections |
| mnthr, mncommon | external | cooperative threads, byte streams, hashes |

### How they interact

The program creates an application and calls `mnfcgi_serve`, which accepts
connections and spawns a cooperative thread (mnthr) for each. The thread counts
itself, takes a reference on the configuration, and loops: parse a record,
switch on its type, call `begin_request_parse`, `params_parse`, `stdin_parse` or
`data_parse` of the configuration on it. Those of app.c set the request's state
and call the application's table (`begin_request`, `params_complete`, `_stdin`,
`stdin_end`, `end_request`), which calls back into the library to add fields, end
the headers, render, flush and finalize. A request and its records may only be
used in the scope of these callbacks (private.h:91-103), so everything of a
connection belongs to its thread; what threads share is the configuration, its
reference count and statistics.

### What is hard

* All requests of a connection share one input and one output buffer, and
  finalizing or aborting one of them rewinds both.
* A request can be completed or fail in any callback, in any order of
  finalizing, erring and returning an error; the handler decides after the
  callback what is destroyed, and by whom a record is owned.
* A write fails at any point, between rendering and bookkeeping.
* A connection ends with requests in progress, whose `end_request` callbacks run
  on a closed descriptor.
* The application is freed by whoever gives back the last reference: the program
  or a connection thread. A spawned thread has no reference yet.
* Headers are cut into records while the table is walked and deleted from, and
  the request's state is set by three functions.
* Input arrives in pieces that end anywhere in a record, and the buffer it
  arrives in is rewound whenever a request is answered or aborted.
* A web server that keeps its connection reuses ids, and takes the next
  END_REQUEST with the id for its answer.

There are no timeouts, no retries and nothing is persisted.

### What makes each component correct

* **Connection handler:** the table holds exactly the live requests; each gets
  one END_REQUEST and nothing after it; nothing is destroyed twice or used after;
  a connection that ends releases everything.
* **Server and application object:** the application lives while it is used and
  no longer.
* **Response:** no field is lost or duplicated; the response is well formed;
  ending the headers terminates.
* **Wire codec:** records are found where they begin, however the input is cut;
  the length that is written is the length of what is written.
* **Endpoints:** a request gets the callback for its method of the table that was
  registered under its endpoint, or is refused, once.

## The modules

| module | what it is |
|---|---|
| `FcgiLife` | abstract: what a connection promises about each request (accepted, answered once, released) |
| `FcgiConn` | the connection handler; implements `FcgiLife` |
| `FcgiPeer` | `FcgiConn` composed with a web server that keeps the connection |
| `FcgiServer` | the server, its threads and the reference count |
| `FcgiApp` | one request as the application sees it, and its response fields |
| `FcgiRoutes` | `FcgiApp` refined by registered endpoints and the selectors |
| `FcgiWire` | the bytes of a connection: parsing as they arrive, rendering |
| `MCFcgiApp`, `MCFcgiWire`, `MCFcgiRoutes` | values of their constants for TLC |
| `FcgiConnProof`, `FcgiServerProof`, `FcgiAppProof` | theorems: the safety invariants, and that `FcgiConn` implements `FcgiLife` |
| `FcgiPeerProof`, `FcgiRoutesProof` | theorems: `FcgiPeer` implements `FcgiConn`, `FcgiRoutes` implements `FcgiApp`; their safety properties |
| `FcgiWireProof` | theorems: parsing stays in step with what is sent, for any records; framing |
| `NaturalFacts` | lemmas: least numbers, induction, recursive functions, sums |

`FcgiConn` has records where `FcgiWire` has bytes, and calls of the library where
`FcgiApp` has a response: the three look at the same code from the connection, the
wire and the request. Definitions named `X_...` ahead of a definition `X` are
mutants: the definition with a plausible bug, to see that a property notices.

### FcgiConn

`inq` and `outq` are `ctx->in` and `ctx->out` as sequences of records; `requests`
is the set of keys of `ctx->requests`; `req[r]` is the object of request `r`
("none", "open", or "complete" once `flags.complete` is set); `cur` is the record
of the running callback; `pc` is where the thread is. `answer` and `fault` are
history: the END_REQUEST of a request (sent, or lost in a write that failed), and
undefined behaviour the code has run into.

| action | code |
|---|---|
| `Consume`, `ConsumeFails`, `ParseFails`, `UnknownType` | `mnfcgi_parse`, wire.c:426-533; proto.c:993 |
| `BeginUnsupported`, `BeginDouble`, `BeginNew`, `NoSuchRequest`, `Abort`, `Stream`, `GetValues`, `GetValuesPairs`, `Default` | the cases of the switch, proto.c:999-1334 |
| `RenderStdout`, `RenderFails`, `FlushOut`, `Finalize` | what a callback may call, proto.c:942-978, 1359-1427 |
| `CallbackOk`, `HeadCallbackFails`, `BodyCallbackFails` | the callback returns, for example proto.c:1030-1057, 1134-1163, 1195-1216 |
| `HangUp` (in the actions above) | the `err` label, proto.c:1338-1350 |
| `DestroyRequest`, `CloseDone` | `mnfcgi_ctx_fini` and the request destructor, proto.c:808-820, 169-252 |

An action is everything the thread does between two points at which somebody
else may act on the connection: the web server, at a read, or the application,
in a callback. A record of END_REQUEST, UNKNOWN_TYPE or an empty STDOUT is
always written in the step that renders it, and so does not show up in `outq`.
What the web server sends is any sequence of records.

What the model takes from the external byte streams: a write with nothing to
write cannot fail (`WriteOutcomes`), on which `NoDoubleDestroy` rests. What it
assumes of the application: its `end_request` callback renders only with
`mnfcgi_render_stdout`, which refuses a complete request. Undefined behaviour is
a choice: a flag read from a freed request is set (the second deletion of its
hash entry crashes) or not.

### FcgiServer

`nref`, `nthreads` and `socket` are the fields of the configuration, `holders` the
references of the program, `conn[c]` the phase of a connection and of its thread.
`app` tells how the object was freed: by `mnfcgi_app_fini`, or as a bare
configuration. Threads are cooperative, so an action runs from one switch to the
next; `ThreadStart` and `ThreadLeaves`/`CtxFini` are apart because the handler loop
and the `end_request` callbacks run between them. mnthr's `accept_all2` is external:
it returns all that wait, or fails, possibly after having accepted some, and it
always lets other threads run before it fails. `AppLifetime` rests on the latter:
it is why no thread is spawned and not started when `mnfcgi_serve` returns.

### FcgiApp

One request whose records come in FastCGI order. `headers`, `added`, `sent` and
`dropped` count fields by name; `response` is the sequence of records rendered.
`RenderHeaders` is one turn of the loop in `mnfcgi_request_headers_end`: which
fields go out is any choice that some order of the hash walk makes
(`Rendered`, `Discarded`, `WalkEnds`). The application renders a body only after its
headers and returns, errs or finalizes anywhere. `HeadersEndIn` says in which
callbacks it ends its headers.

### FcgiPeer

The records on their way to the handler (`toServer`) and back (`toPeer`) are what the
sockets hold. `Receive` is `Consume` with what is in flight; `Accepts`, `AbortsOne`,
`AnswersStray`, `Renders`, `Flushes`, `Ends` and `Returns` are the handler's actions with
`Transmit`, which is `bytestream_produce_data`: all that is pending in `ctx->out` and
then the record just rendered.

The web server is external and sends a request as the FastCGI order has it:
BEGIN_REQUEST, PARAMS, any number of STDIN, and takes STDOUT up to the
END_REQUEST with its id; it may abort at any time and close at any time. It has
one request at a time, since several lose input (`conn_mpxs`). The application answers
in the callback of the last STDIN at the latest, as test/testoauth.c does, and may
answer or fail before. Then, and when the web server aborts after it has sent
everything, an END_REQUEST and records of the request pass each other, the code
answers each of those with an END_REQUEST of its own, and the next request of the id
may be taken for answered. The history variable `early` marks this; `NothingStale` and
`OneRequest` say that it is the only way to it.

`NoInputLost` is a count. `unread` is history: the records that the web server has sent
and that `mnfcgi_parse` has not returned. They are all still there, on their way or
in `ctx->in`, as long as nothing is answered early: a rewind, be it that of
`mnfcgi_finalize_request`, that of a callback that fails or that of an ABORT_REQUEST,
would leave `unread` above what is there if it threw a record away. `early` does not
ask what is in `ctx->in`: it is set by an answer in a callback before the last record of
the request (`RequestOver`), and by a web server that aborts after its last record.

### FcgiWire

| action | code |
|---|---|
| `Consume`, `ConsumeFails` | the three loops of `mnfcgi_parse`, wire.c:437-533 |
| `ParseHeader`, `HeaderRefused` | wire.c:445-494 |
| `ParsePayload`, `PayloadRefused`, `PayloadAborts` | `mnfcgi_parse_payload`, `mnfcgi_parse_kvp`, wire.c:209-415 |
| `ParsePadding` | wire.c:418-424, 513-528 |
| `RenderStdout`, `Rendered` | `mnfcgi_render`, wire.c:705-782 |
| `Answer` | `mnfcgi_finalize_request` and `mnfcgi_abort_request`, proto.c:1379-1427, 899-939 |
| `Reply` | an END_REQUEST or UNKNOWN_TYPE that is written at once, for example proto.c:1059-1078, 1307-1334 |
| `Return` | a callback returns and leaves its request open, for example proto.c:1188-1222 |
| `GetValues` | proto.c:1272-1305, `mnfcgi_render_kvp`, wire.c:536-575 |

The input is bytes, the output is records with three sizes: the payload's bytes,
the size its renderer returned, and the length of the header. Positions count from
the connection's first byte, so that a rewind, which forgets what has arrived, is
`pos' = arrived`. The content of bodies is left out; of pairs the lengths are kept.
A length is one byte, as in the code ("probe & 0x800"). A pair that is cut by
the end of its record is read past what has arrived, where any byte of `Stray` may
be; `InSync` and `RefusedRightly` hold up to the first record like this: `Whole` says of
a record that the pairs the web server meant are what its body spells with lengths of
one byte. A body is shorter than 2^16 bytes, as its length in the header has it.

`Answer` rewinds both buffers, whatever record it comes at: the 404 of a
`params_complete`, a callback that fails, an ABORT_REQUEST, a `stdin_end` that finalizes.
At the last record of a request, an empty STDIN or an ABORT_REQUEST, nothing of what has
arrived is lost, because the web server sends nothing behind it before it has its
END_REQUEST. Before the last record, more of the request may have arrived: the
rewind then takes whole records with it that are never parsed, and may cut one, whose
tail is read as a header and refused. The history variable `early` marks such an
answer, and `InSync`, `RefusedRightly` and `RecordParsed` speak of a connection up to the
first; without that condition TLC refutes all three. The web server of `FcgiWire` keeps
its connection open, so that writes do not fail.

### FcgiRoutes

| action | code |
|---|---|
| `Register` | `mnfcgi_app_register_endpoint`, app.c:437-459 |
| `Params` | `params_parse` queues the record, proto.c:1127-1134 |
| `SelectFound`, `SelectMissing` | the three selectors, app.c:170-262, with `mnfcgi_request_fill_info`, proto.c:362-411 |
| `RunCallback`, `RefuseMethod`, `Ends` | `stdin_end` of test/testoauth.c |

The application is that of test/testoauth.c, which registers its endpoints in
`init_app` and takes a selector as its `params_complete`. Its `begin_request` may add a
field of each name, which is how the 404 can fail (`AppErrorStops`). Endpoints and
names are sequences of segments; a PARAMS record is a function from names to values.

## The runs

| run | bounds | question |
|---|---|---|
| `conn` | 2 ids, 2 records per read, 2 pending records | the handler's invariants, refinement of `FcgiLife`, release of requests |
| `peer` | 2 ids, 2 records in flight in either direction, 2 per read, 1 pending | a connection that is kept: stale records, every record sent is parsed or still there, every request answered, refinement of `FcgiConn` |
| `wire` | 15 kinds of records, 3 of them sent, cut anywhere, answered or aborted at any; payloads of 5, 32768 and 65536 bytes; 2 stray bytes | parsing in step with what is sent, every record sent is parsed, framing of what is rendered |
| `server` | 3 connections, 2 references of the program | lifetime and counts; the application is freed |
| `app` | 4 names, 2 fields of each; one name is too long, any two of the others fit into a record | fields, order of the response, termination |
| `routes` | 3 tables, one endpoint twice; 9 requests; 3 selectors | routing, a single answer, refinement of `FcgiApp` |
| `conn_mpxs`, `conn_destroyed`, `wire_oversize`, `wire_assert`, `server_fini`, `app_state` | as small as the case allows | six statements of the code about itself that it does not keep |

Two ids are enough for one request to be in a callback while another is in the
table, which is where the handler's cases differ: no step touches more than one
request besides the `err` label, which treats all alike. Two records in the buffer
make a rewind lose one of another request, two pending records let STDOUT of two
requests wait at once. In `peer` the second id lets an id be new or used before, and two
records in flight let an abort pass an END_REQUEST. In `wire` the payloads are a size
that needs padding, the largest that is allowed, and one that 16 bits cannot hold; three
records are a request's last and the begin of the next, an unreadable one between
two, or one that is answered early and two behind it. `RecordParsed` has only to hold again
and again, because the records that are sent are bounded. Three connections let one be spawned, one run and one end
at the same time. In `app` the fields need two records or more, with a discarded
one in between. In `routes` "/a/b" can be asked for in one part or in two, a method has a
callback in the second table of an endpoint only, and a parameter is missing, or there twice.
Deadlock is not checked: a connection, a program and a request do
end, and further steps of none of them are due.

### Fairness

`FcgiConn`: a callback returns, and a thread that has left its loop runs to its
end, which nothing can block: `mnfcgi_ctx_fini` neither reads nor writes. The peer
is not assumed to send or to read. `FcgiPeer`: in addition what is in flight arrives, the
web server reads what it is sent, and the callback of the last record answers; it
need not send anything. Fairness on `Returns` and on the last callback's `Ends` is for each
request, because a callback that goes on calling the library for ever is excluded.
`FcgiWire`: what has been sent arrives and is parsed, callbacks return. A read may
fail, but need not. `FcgiApp`: the library's own loop in
`mnfcgi_request_headers_end` goes on. `FcgiServer`: a spawned thread gets to run (mnthr
is cooperative, and its other threads give way at each read), and
`mnfcgi_ctx_fini` ends. A handler loop may run for ever and the program may keep its
reference; `LastUserFrees` is about what follows when they do not. `FcgiRoutes` has no
liveness property of its own.

### What the code says and does not do

* Rewinding the input drops the other requests' records (`conn_mpxs`), though
  `FCGI_MPXS_CONNS` is answered "1".
* A failing stdin or data callback is followed by a use of the destroyed request
  (`conn_destroyed`); begin_request and params leave with `continue`.
* A record that is too large is not discarded (`wire_oversize`): it stays in the
  output with a length of 0 and goes out with the next write.
* The size that `mnfcgi_render_kvp` returns is the end of the buffer, so that the
  assertion in `mnfcgi_render` fails for a GET_VALUES that asks for anything
  (`wire_assert`).
* A connection that outlives the program's reference frees the application
  without `fini_app` (`server_fini`).
* After `params_complete` the state is set back, so that headers can be ended twice
  (`app_state`). `ResponseOrdered` and `NoFieldStranded` are therefore checked, and
  proved, for applications that end their headers in `stdin_end`, as the test
  application does.

## The proofs

`FcgiConnProof` holds for any set of ids and any bounds, assuming only that the id
of management records is not one of them. `TableOpen` alone is not inductive: it
speaks of the moments between two records, and what makes it true again after a
callback is that only the callback's own request can have changed
(`CallbackTarget`, `OthersOpen`) and that the return of the callback puts it into
the table or destroys it. `AnsweredOnce` needs `TableOpen`, because a record finds its
request in the table and must find it unanswered; `ClosingQuiet` needs it for the
requests that the `err` label marks; `PendingOwned` needs that completing a request
empties the output buffer. `IInv` is their conjunction. One lemma per group of
actions shows that it is preserved; each safety theorem is one of its conjuncts.
`RewindLosesNothing` is carried by `IInv`: a callback starts on an open request.
`Implementation` shows that every step is a step of `FcgiLife` or a stutter under the
mapping of `FcgiConn!Life`, in states of `IInv`.

`FcgiPeerProof` shows that a step of `FcgiPeer` is a step of `FcgiConn`, or none of the
handler: the only thing to show is that a read takes records out of the flight, and
those are records that `FcgiConn` can receive. What is proved of `FcgiConn` then holds
with a web server.
`NothingStale`, `OneRequest` and `NoInputLost` say what must not happen and not why it
does not. `PeerIInv` says where a request is (`OnePhase`): there is none; its
BEGIN_REQUEST is the first record on its way; it is open; or it is answered, and its
END_REQUEST is the last record on its way back. In each phase the handler's input
and what is in flight are one sequence (`Input`), so that a read changes nothing of
it. For `NoInputLost` each step is shown to keep the count: a read moves records, the
switch takes one out of `unread` and out of `ctx->in`, and when a rewind comes at the end of a
request, `OnePhase` has nothing left on its way or in `ctx->in` that it could throw away.
All of this holds until an answer comes early. `HandlerStays`, which says that the
handler does not hang up, holds in `FcgiPeer` after that as well; it rests on the module's
reading whole records. On the wire an early rewind may cut a record that has arrived
in part, and the handler hangs up on its tail (`FcgiWire`).

`FcgiServerProof` holds for any finite set of connections. `RefsCounted` is carried by
lemmas on how the number of threads changes when one starts, leaves or ends;
`AppLifetime` needs in addition that `mnfcgi_serve` has returned before the program
lets go (`ServeHolds`) and that nothing refers to an application that is gone
(`Unused`).

`FcgiAppProof` holds for any names, sizes and bounds. `FieldsConserved` and the types are
inductive together: that the counts stay within their bound is because they add up.
The order of the response is proved of applications that end their headers in
`stdin_end`, by an invariant that has two parts besides `ResponseOrdered`. `LineKnown`
says that of a request that is not complete the state tells whether the empty line
is out, and that no fields are left if it is. `EndsLate` says that there is nothing
more to receive then: `mnfcgi_app_params` would set the state back.

`FcgiRoutesProof` shows that `FcgiRoutes` implements `FcgiApp`, whatever is registered.
`RoutedRight` compares what a selector finds in `endpoint_tables` with what was
registered, and so needs that the tables hold the first of each endpoint
(`Registered`); that a selector runs after the last registration and the last
PARAMS, and runs once, is `InOrder`. `MissingIsOver` rests on the fields: the 404 is
stopped only by a second Content-Length, and `MissingAnswered` counts those.

`FcgiWireProof` holds for any set of records whose bodies are shorter than 2^16 bytes,
whatever is sent of them, however it is cut, whatever bytes are behind the input, and
for any payload sizes. `WireIInv` ties the position to the records: the stream is the
bytes of the records sent (`StreamOfSent`), and between two records, and in each of the
three parts of one, the position is at that place of the record whose number is
that of the records parsed (`AtRecord`), until a request is answered early. The one step
that moves the position without parsing is `Answer`, which goes to the end of what has
arrived; `Reply` and `Return` leave it. At the last record of a request `Answer` moves over
no record because that is the last one sent: `AnsweredInOrder` counts the answers against
the requests that have ended before. At any other record it sets `early`, which stays
set (`EarlyStays`). The rest is what a header
of eight bytes spells, that `ReadPairs` of a body that is its pairs returns those pairs,
and that a payload of at most 32768 bytes and its padding fit the fields.

Induction over data: the library's induction theorems have an operator for the
statement, which the provers cannot instantiate. `NaturalFacts` has it with a set
for the statement instead, derived from the well-foundedness of the numbers: for anything
that has a size in the numbers, `SizeInduction`, and from it that a function defined
by recursion exists (`RecursiveFunction`) and what sums over finite sets are
(`SumStep`, `SumTakeOut`, `PrefixSum`). `FcgiWireProof` takes from there that
`ReadPairs` is defined, because a pair takes two bytes at least, and what it computes;
`FcgiRoutesProof` the least table of an endpoint.

Every invariant and every action property that a run checks is proved. Only
model-checked are the liveness properties, which are out of the prover's reach:
`CompletedIsReleased`, `HangUpEnds`, `RequestAnswered`, `GoneReleases`, `RecordParsed`,
`LastUserFrees`, `HeadersEndReturns` and `ErrorCompletes`.

## Not modelled

* `mnfcgi_app_get_allowed_methods` (app.c:300-361), which only reads and which nothing but a
  test of its inner function calls. Of the code as it stands: it asserts a script name
  (app.c:359), which two of the three selectors do not ask for.
* Scheme, content length and content type of the request information, query terms
  and cookies: strings that the external mncommon parses, with no state of their own.
* The content of bodies, and of the eight bytes of END_REQUEST and UNKNOWN_TYPE.
* Names of error codes (`src/mnfcgi_util.c`).
* The database connection cache of the test application (test/testoauth_util.c): it
  is no part of the library and line 195 uses a variable that is not declared, so that it
  does not compile as it is.
* The test programs, but for what `FcgiApp`, `FcgiPeer` and `FcgiRoutes` take from them.
* The limits `max_conn` and `max_req`, which the library only reports; the leak of the
  values of a GET_VALUES record.
* Memory: that an allocation fails ends the process.
* The external libraries are what the code uses of them.

## Plan

Done: the connection handler, the server, the response, the connection with a web
server, the wire, the endpoints; their safety properties proved. Left: query terms and
cookies (proto.c:255-436), if what mncommon makes of the strings is to be modelled.
