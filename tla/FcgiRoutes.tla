------------------------------ MODULE FcgiRoutes ------------------------------
(***************************************************************************)
(* A request of FcgiApp on its way to the callback of an endpoint: the     *)
(* endpoints an application registers, the parameters of the request, and  *)
(* the selectors of mnfcgi_app.c that an application takes as its          *)
(* params_complete.                                                        *)
(*                                                                         *)
(* The application is the one of test/testoauth.c: it registers in         *)
(* init_app, its stdin_end runs the selected callback or answers 501, and  *)
(* then finalizes the request.  Its begin_request may add fields.          *)
(***************************************************************************)
EXTENDS FcgiApp

CONSTANTS
    Segment,    \* endpoints and names are sequences of these
    Tables,     \* what is registered, in this order: [endpoint, methods]
    Requests,   \* parameters of a request, one function for each PARAMS record
    Selectors   \* the selectors that the application may use

\* MNFCGI_REQUEST_METHOD_* and their texts, by number.
GET == 0
UNKNOWN == 7

Method == GET..UNKNOWN

MethodName ==
    [m \in Method |->
        <<"GET", "HEAD", "POST", "PUT", "DELETE", "PATCH", "OPTIONS", "<unknown>">>[m + 1]]

\* The PARAMS records of all the requests.
ParamsRecord == UNION {{q[i] : i \in DOMAIN q} : q \in Requests}

ASSUME TablesAssumption ==
    Tables \in Seq([endpoint : Seq(Segment), methods : SUBSET Method])
ASSUME RequestsAssumption ==
    /\ Requests \subseteq Seq(ParamsRecord)
    /\ \A rec \in ParamsRecord :
          DOMAIN rec \subseteq {"REQUEST_METHOD", "SCRIPT_NAME", "PATH_INFO"}
ASSUME SelectorsAssumption == Selectors \subseteq {"exact", "script_name", "path_info"}

VARIABLES
    selector,   \* params_complete of the application
    tried,      \* how many of Tables have been given to register_endpoint
    endpoints,  \* app->endpoint_tables: endpoint to index in Tables
    params,     \* req->params: the PARAMS records
    rest,       \* PARAMS records the web server has yet to send
    info,       \* req->info: [method, script_name, path_info]
    chosen,     \* history: "none", "found" or "missing" by the selector
    udata,      \* req->udata: NULL, or the callback, <<table, method>>
    ran         \* history: stdin_end has done "nothing", run the "callback",
                \* or "refused" the request

routes == <<selector, tried, endpoints, params, rest, info, chosen, udata, ran>>
routeVars == <<vars, routes>>

NULL == <<>>

RoutesTypeOK ==
    /\ selector \in Selectors
    /\ tried \in 0..Len(Tables)
    /\ DOMAIN endpoints \subseteq Seq(Segment)
    /\ \A e \in DOMAIN endpoints : endpoints[e] \in 1..tried
    /\ params \in Seq(ParamsRecord) /\ rest \in Seq(ParamsRecord)
    /\ params \o rest \in Requests
    /\ info.method \in Method
    /\ chosen \in {"none", "found", "missing"}
    /\ udata \in {NULL} \cup ((DOMAIN Tables) \X Method)
    /\ ran \in {"nothing", "callback", "refused"}

RoutesInit ==
    /\ Init
    /\ selector \in Selectors
    /\ tried = 0
    /\ endpoints = <<>>
    /\ params = <<>>
    /\ rest \in Requests
    /\ info = [method |-> GET, script_name |-> NULL, path_info |-> NULL]
    /\ chosen = "none"
    /\ udata = NULL
    /\ ran = "nothing"

-----------------------------------------------------------------------------
(* Registered endpoints                                                    *)

Registering ==
    /\ tried < Len(Tables)
    /\ tried' = tried + 1

Known(endpoint) == endpoint \in DOMAIN endpoints

\* Mutant: a second registration takes the place of the first.
Entered_Overrides(i) ==
    [e \in DOMAIN endpoints \cup {Tables[i].endpoint} |->
        IF e = Tables[i].endpoint THEN i ELSE endpoints[e]]

Entered(i) ==
    [e \in DOMAIN endpoints \cup {Tables[i].endpoint} |->
        IF Known(e) THEN endpoints[e] ELSE i]

\* mnfcgi_app_register_endpoint: -1 for an endpoint that is known.
Register ==
    /\ Registering
    /\ endpoints' = Entered(tried')
    /\ UNCHANGED <<vars, selector, params, rest, info, chosen, udata, ran>>

-----------------------------------------------------------------------------
(* Parameters                                                              *)

\* mnfcgi_app_begin_request and mnfcgi_app_params; the application is up when
\* it has registered its endpoints.
Begin == tried = Len(Tables) /\ BeginRequest /\ UNCHANGED routes

Params ==
    /\ Receives("params")
    /\ rest # <<>>
    /\ params' = Append(params, Head(rest))
    /\ rest' = Tail(rest)
    /\ UNCHANGED <<vars, selector, tried, endpoints, info, chosen, udata, ran>>

ParamsEnd == rest = <<>> /\ ParamsComplete /\ UNCHANGED routes

Holding(name) == {i \in DOMAIN params : name \in DOMAIN params[i]}

\* mnfcgi_request_get_param: the first record that has the name.
GetParam(name) ==
    IF Holding(name) = {} THEN NULL ELSE params[Min(Holding(name))][name]

Named(text) == {m \in Method \ {UNKNOWN} : MethodName[m] = text}

\* Mutant: one past the last.
MethodOf_Count(text) == Min(Named(text) \cup {UNKNOWN + 1})

MethodOf(text) == Min(Named(text) \cup {UNKNOWN})

\* mnfcgi_request_fill_info; a request without REQUEST_METHOD keeps the 0 that
\* mnfcgi_request_init has left.
FillInfo ==
    [method |-> IF Holding("REQUEST_METHOD") = {} THEN info.method
                ELSE MethodOf(GetParam("REQUEST_METHOD")),
     script_name |-> GetParam("SCRIPT_NAME"),
     path_info |-> GetParam("PATH_INFO")]

-----------------------------------------------------------------------------
(* Selectors                                                               *)

\* mnfcgi_app_error, to its end or to the call that fails.
ErrorOut == (AppError \/ AppErrorStops) /\ added'[Location] = added[Location]

\* A name that is missing is found by none but "exact", which takes it as empty.
Key ==
    CASE selector = "exact" -> FillInfo.script_name \o FillInfo.path_info
      [] selector = "script_name" -> FillInfo.script_name
      [] selector = "path_info" -> FillInfo.path_info

HasKey ==
    /\ selector = "script_name" => Holding("SCRIPT_NAME") # {}
    /\ selector = "path_info" => Holding("PATH_INFO") # {}

CallbackOf(i, method) == IF method \in Tables[i].methods THEN <<i, method>> ELSE NULL

Selecting ==
    /\ at = "params_complete"
    /\ chosen = "none"
    /\ info' = FillInfo

SelectFound ==
    /\ Selecting
    /\ HasKey /\ Known(Key)
    /\ chosen' = "found"
    /\ udata' = CallbackOf(endpoints[Key], info'.method)
    /\ UNCHANGED <<vars, selector, tried, endpoints, params, rest, ran>>

SelectMissing ==
    /\ Selecting
    /\ ~(HasKey /\ Known(Key))
    /\ chosen' = "missing"
    /\ ErrorOut
    /\ UNCHANGED <<selector, tried, endpoints, params, rest, udata, ran>>

-----------------------------------------------------------------------------
(* The rest of the application                                             *)

\* begin_request may add a field of each name.
Adds == at = "begin_request" /\ FieldAdd /\ added' \in [Name -> 0..1]

RunCallback ==
    /\ at = "stdin_end"
    /\ ran = "nothing"
    /\ udata # NULL
    /\ ran' = "callback"
    /\ UNCHANGED <<vars, selector, tried, endpoints, params, rest, info, chosen, udata>>

\* Mutant: the request is dropped without an answer.
RefuseMethod_Silent ==
    /\ at = "stdin_end"
    /\ ran = "nothing"
    /\ udata = NULL
    /\ ran' = "refused"
    /\ complete' = TRUE
    /\ UNCHANGED <<request, call, state, response, fields>>
    /\ UNCHANGED <<selector, tried, endpoints, params, rest, info, chosen, udata>>

RefuseMethod ==
    /\ at = "stdin_end"
    /\ ran = "nothing"
    /\ udata = NULL
    /\ ran' = "refused"
    /\ ErrorOut
    /\ UNCHANGED <<selector, tried, endpoints, params, rest, info, chosen, udata>>

\* What the selected callback calls.
Endpoint ==
    /\ ran = "callback"
    /\ FieldAdd \/ HeadersEnd \/ RenderBody \/ AppError \/ AppErrorStops

Ends == ran # "nothing" /\ FinalizeRequest

Returns ==
    /\ at = "params_complete" => chosen # "none"
    /\ at = "stdin_end" => complete
    /\ ReturnOk

-----------------------------------------------------------------------------
RoutesNext ==
    \/ Register
    \/ Begin \/ Params \/ ParamsEnd
    \/ SelectFound \/ SelectMissing
    \/ RunCallback \/ RefuseMethod
    \/ (Adds \/ Stdin \/ Endpoint \/ Ends \/ Returns) /\ UNCHANGED routes
    \/ (RenderHeaders \/ RenderEmptyLine) /\ UNCHANGED routes

RoutesSpec == RoutesInit /\ [][RoutesNext]_routeVars

-----------------------------------------------------------------------------
(* Properties                                                              *)

\* The application with its endpoints is one of FcgiApp.
ImplementsApp == Spec

\* All that the web server says of the request: the parameters of its records
\* put together, those of the first that has them.
Whole ==
    LET q == params \o rest
        In(name) == {i \in DOMAIN q : name \in DOMAIN q[i]}
    IN  [name \in UNION {DOMAIN q[i] : i \in DOMAIN q} |-> q[Min(In(name))][name]]

Asked(name) == IF name \in DOMAIN Whole THEN Whole[name] ELSE NULL

AskedFor ==
    CASE selector = "exact" -> {Asked("SCRIPT_NAME") \o Asked("PATH_INFO")}
      [] selector = "script_name" /\ "SCRIPT_NAME" \in DOMAIN Whole -> {Whole["SCRIPT_NAME"]}
      [] selector = "path_info" /\ "PATH_INFO" \in DOMAIN Whole -> {Whole["PATH_INFO"]}
      [] OTHER -> {}

AskedMethod ==
    IF "REQUEST_METHOD" \in DOMAIN Whole THEN Whole["REQUEST_METHOD"] ELSE "GET"

\* However its parameters are cut into records, a request is given the callback
\* for its method of the table that was first registered under its endpoint.
\* It is given none if that table has none, and it is missing if there is no
\* such table.
RoutedRight ==
    LET matching == {i \in DOMAIN Tables : Tables[i].endpoint \in AskedFor}
        first == Min(matching)
    IN  chosen # "none" =>
            /\ chosen = "found" <=> matching # {}
            /\ udata # NULL => udata[1] = first
            /\ chosen = "found" =>
                  \A m \in Method : MethodName[m] = AskedMethod =>
                      udata = IF m \in Tables[first].methods THEN <<first, m>> ELSE NULL

\* A request for no endpoint is over with its 404: stdin_end, which would
\* answer it again, is not called for it.  Where begin_request has added a
\* Content-Length the 404 is not sent, and stdin_end is.
MissingIsOver ==
    chosen = "missing" /\ added[ContentLength] = 1 => at # "stdin_end"

-----------------------------------------------------------------------------
(* The inductive invariant                                                 *)

\* app->endpoint_tables has the endpoints given to register_endpoint so far,
\* each with the first of its tables.
Registered ==
    /\ DOMAIN endpoints = {Tables[i].endpoint : i \in 1..tried}
    /\ \A e \in DOMAIN endpoints :
          /\ Tables[endpoints[e]].endpoint = e
          /\ \A i \in 1..tried : Tables[i].endpoint = e => endpoints[e] <= i

\* The endpoints are there before the first request, its parameters before a
\* selector runs, and the selector has run before stdin_end answers.
InOrder ==
    /\ input # "begin" => tried = Len(Tables)
    /\ input \in {"stdin", "nothing"} => rest = <<>>
    /\ chosen # "none" => input \in {"stdin", "nothing"}
    /\ chosen = "none" => info.method = GET /\ udata = NULL
    /\ at = "begin_request" => input = "params"
    /\ at = "params_complete" => input = "stdin"
    /\ at = "stdin_end" => input = "nothing"
    /\ ran # "nothing" => at \in {"stdin_end", "gone"}

\* A 404 that mnfcgi_app_error does not stop in, at a second Content-Length, is
\* under way or out.
MissingAnswered ==
    chosen = "missing" =>
        \/ added[ContentLength] > 1
        \/ added[ContentLength] = 1 /\ at = "params_complete" /\ (call = "error" \/ complete)
        \/ added[ContentLength] = 1 /\ at = "gone"

RoutesIInv ==
    /\ RoutesTypeOK
    /\ Registered
    /\ InOrder
    /\ RoutedRight
    /\ MissingAnswered

=============================================================================
