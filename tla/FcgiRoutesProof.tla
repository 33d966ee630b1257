--------------------------- MODULE FcgiRoutesProof ---------------------------
(***************************************************************************)
(* An application with endpoints is an application, whatever is registered *)
(* and asked for: every step of FcgiRoutes is one that FcgiApp allows, or  *)
(* changes nothing of the request.  What is proved of FcgiApp holds of its *)
(* requests.  And a request gets the callback that was registered for it,  *)
(* or is refused: RoutesIInv is inductive.                                 *)
(***************************************************************************)
EXTENDS FcgiRoutes, FcgiAppProof, NaturalFacts

\* Every step on the way of a request to its callback is one of FcgiApp.
LEMMA RoutesStepSimulation == [RoutesNext]_routeVars => [Next]_vars
  <1>. SUFFICES ASSUME [RoutesNext]_routeVars
                PROVE  Next \/ UNCHANGED vars
    OBVIOUS
  <1>1. CASE Register \/ Params \/ SelectFound \/ RunCallback
    BY <1>1 DEF Register, Params, SelectFound, RunCallback
  <1>2. CASE Begin \/ ParamsEnd
    BY <1>2 DEF Begin, ParamsEnd, Next
  <1>3. CASE SelectMissing \/ RefuseMethod
    BY <1>3 DEF SelectMissing, RefuseMethod, ErrorOut, Next, Callback
  <1>4. CASE Adds \/ Stdin \/ Endpoint \/ Ends \/ Returns
    BY <1>4 DEF Adds, Endpoint, Ends, Returns, Next, Callback
  <1>5. CASE RenderHeaders \/ RenderEmptyLine
    BY <1>5 DEF Next
  <1>6. CASE UNCHANGED routeVars
    BY <1>6 DEF routeVars
  <1>. QED BY <1>1, <1>2, <1>3, <1>4, <1>5, <1>6 DEF RoutesNext

\* A request on its way to an endpoint is a request of FcgiApp.
THEOREM RoutesImplementation == RoutesSpec => ImplementsApp
  <1>1. RoutesInit => Init
    BY DEF RoutesInit
  <1>. QED BY <1>1, RoutesStepSimulation, PTL DEF RoutesSpec, Spec, ImplementsApp

\* The response to a request for an endpoint, to one that is missing and to a
\* method that is refused loses no field.
THEOREM RoutesConserve == RoutesSpec => []FieldsConserved
  <1>1. Spec => []FieldsConserved
    BY ConservedFields
  <1>. QED BY <1>1, RoutesImplementation, PTL DEF ImplementsApp

-----------------------------------------------------------------------------
(* Methods                                                                 *)

\* No two methods have the same text.
LEMMA MethodNames ==
  /\ MethodName[GET] = "GET"
  /\ \A m, n \in Method : MethodName[m] = MethodName[n] => m = n
  <1>1. \A m \in Method : m \in {0, 1, 2, 3, 4, 5, 6, 7}
    BY DEF Method, GET, UNKNOWN
  <1>2. /\ MethodName[0] = "GET" /\ MethodName[1] = "HEAD" /\ MethodName[2] = "POST"
        /\ MethodName[3] = "PUT" /\ MethodName[4] = "DELETE" /\ MethodName[5] = "PATCH"
        /\ MethodName[6] = "OPTIONS" /\ MethodName[7] = "<unknown>"
    BY DEF MethodName, Method, GET, UNKNOWN
  <1>. QED BY <1>1, <1>2 DEF GET

\* The method of a text is the one that has it.
LEMMA MethodOfText ==
  ASSUME NEW text
  PROVE  /\ MethodOf(text) \in Method
         /\ \A m \in Method : MethodName[m] = text => MethodOf(text) = m
  <1>. DEFINE S == Named(text) \cup {UNKNOWN}
  <1>1. S \in SUBSET Nat /\ S # {} /\ S \subseteq Method
    BY DEF Named, Method, GET, UNKNOWN
  <1>2. Min(S) \in S /\ \A y \in S : Min(S) <= y
    BY <1>1, MinProperties
  <1>3. ASSUME NEW m \in Method, MethodName[m] = text
        PROVE  Min(S) = m
    <2>1. Named(text) = {m} \ {UNKNOWN}
      BY <1>3, MethodNames DEF Named
    <2>2. m \in S /\ \A y \in S : m <= y
      BY <2>1 DEF Method, GET, UNKNOWN
    <2>. QED BY <1>1, <2>2, MinUnique
  <1>. QED BY <1>1, <1>2, <1>3 DEF MethodOf

-----------------------------------------------------------------------------
(* Registered endpoints                                                    *)

\* An endpoint that is new is entered, one that is known stays as it is.
LEMMA RegisterKeeps ==
  ASSUME RoutesTypeOK, Registered, Registering, endpoints' = Entered(tried')
  PROVE  /\ DOMAIN endpoints' \subseteq Seq(Segment)
         /\ \A e \in DOMAIN endpoints' : endpoints'[e] \in 1..tried'
         /\ Registered'
  <1>1. Len(Tables) \in Nat /\ tried \in Nat /\ tried' = tried + 1 /\ tried' \in 1..Len(Tables)
    BY TablesAssumption DEF RoutesTypeOK, Registering
  <1>2. /\ DOMAIN Tables = 1..Len(Tables)
        /\ \A i \in 1..Len(Tables) : Tables[i].endpoint \in Seq(Segment)
    <2>. DEFINE T == [endpoint : Seq(Segment), methods : SUBSET Method]
    <2>1. DOMAIN Tables = 1..Len(Tables) /\ \A i \in 1..Len(Tables) : Tables[i] \in T
      BY TablesAssumption, LenProperties
    <2>. QED BY <2>1
  <1>. DEFINE new == Tables[tried'].endpoint
  <1>3. DOMAIN endpoints' = DOMAIN endpoints \cup {new}
    BY DEF Entered
  <1>4. \A e \in DOMAIN endpoints' :
           endpoints'[e] = IF e \in DOMAIN endpoints THEN endpoints[e] ELSE tried'
    BY DEF Entered, Known
  <1>5. 1..tried' = 1..tried \cup {tried'}
    BY <1>1
  <1>6. DOMAIN endpoints' = {Tables[i].endpoint : i \in 1..tried'}
    BY <1>3, <1>5 DEF Registered
  <1>7. \A e \in DOMAIN endpoints : endpoints[e] \in 1..tried
    BY DEF RoutesTypeOK
  <1>8. ASSUME NEW e \in DOMAIN endpoints'
        PROVE  /\ endpoints'[e] \in 1..tried'
               /\ Tables[endpoints'[e]].endpoint = e
               /\ \A i \in 1..tried' : Tables[i].endpoint = e => endpoints'[e] <= i
    <2>1. CASE e \in DOMAIN endpoints
      <3>1. endpoints'[e] = endpoints[e] /\ endpoints[e] \in 1..tried
        BY <1>4, <1>7, <2>1
      <3>. QED BY <1>1, <1>5, <2>1, <3>1 DEF Registered
    <2>2. CASE e \notin DOMAIN endpoints
      <3>1. endpoints'[e] = tried' /\ e = new
        BY <1>3, <1>4, <2>2
      <3>2. \A i \in 1..tried : Tables[i].endpoint # e
        BY <2>2 DEF Registered
      <3>. QED BY <1>1, <1>5, <3>1, <3>2
    <2>. QED BY <2>1, <2>2
  <1>. QED BY <1>2, <1>3, <1>6, <1>8, <1>1 DEF Registered, RoutesTypeOK

-----------------------------------------------------------------------------
(* Selectors                                                               *)

\* When all the PARAMS records are there, GetParam finds what the web server
\* says of the request.
LEMMA ParamsAreWhole ==
  ASSUME rest = <<>>, params \in Seq(ParamsRecord), NEW name
  PROVE  /\ name \in DOMAIN Whole <=> Holding(name) # {}
         /\ Asked(name) = GetParam(name)
  <1>1. params \o rest = params
    BY ConcatEmptySeq
  <1>2. DOMAIN Whole = UNION {DOMAIN params[i] : i \in DOMAIN params}
    BY <1>1 DEF Whole
  <1>3. name \in DOMAIN Whole <=> Holding(name) # {}
    BY <1>2 DEF Holding
  <1>4. ASSUME name \in DOMAIN Whole
        PROVE  Whole[name] = params[Min(Holding(name))][name]
    BY <1>1, <1>4 DEF Whole, Holding
  <1>. QED BY <1>3, <1>4 DEF Asked, GetParam

\* What is asked for depends on the selector and the parameters only.
LEMMA AskedKept ==
  ASSUME UNCHANGED <<selector, params, rest>>
  PROVE  AskedFor' = AskedFor /\ AskedMethod' = AskedMethod
  BY DEF AskedFor, AskedMethod, Asked, Whole

\* The key is what is asked for, if there is any.
LEMMA KeyIsAsked ==
  ASSUME RoutesTypeOK, rest = <<>>
  PROVE  AskedFor = IF HasKey THEN {Key} ELSE {}
  <1>1. \A name : /\ name \in DOMAIN Whole <=> Holding(name) # {}
                  /\ Asked(name) = GetParam(name)
    BY ParamsAreWhole DEF RoutesTypeOK
  <1>2. selector \in {"exact", "script_name", "path_info"}
    BY SelectorsAssumption DEF RoutesTypeOK
  <1>3. FillInfo.script_name = GetParam("SCRIPT_NAME") /\ FillInfo.path_info = GetParam("PATH_INFO")
    BY DEF FillInfo
  <1>4. CASE selector = "exact"
    BY <1>1, <1>3, <1>4 DEF AskedFor, HasKey, Key
  <1>5. CASE selector = "script_name"
    BY <1>1, <1>3, <1>5 DEF AskedFor, HasKey, Key, Asked
  <1>6. CASE selector = "path_info"
    BY <1>1, <1>3, <1>6 DEF AskedFor, HasKey, Key, Asked
  <1>. QED BY <1>2, <1>4, <1>5, <1>6

\* The method of the request is what the web server says, or GET.
LEMMA MethodIsAsked ==
  ASSUME RoutesTypeOK, rest = <<>>, info.method = GET
  PROVE  /\ FillInfo.method \in Method
         /\ \A m \in Method : MethodName[m] = AskedMethod => m = FillInfo.method
  <1>1. /\ "REQUEST_METHOD" \in DOMAIN Whole <=> Holding("REQUEST_METHOD") # {}
        /\ Asked("REQUEST_METHOD") = GetParam("REQUEST_METHOD")
    BY ParamsAreWhole DEF RoutesTypeOK
  <1>2. CASE Holding("REQUEST_METHOD") = {}
    <2>1. FillInfo.method = GET /\ AskedMethod = "GET"
      BY <1>1, <1>2 DEF FillInfo, AskedMethod
    <2>. QED BY <2>1, MethodNames DEF Method, GET, UNKNOWN
  <1>3. CASE Holding("REQUEST_METHOD") # {}
    <2>1. FillInfo.method = MethodOf(AskedMethod)
      BY <1>1, <1>3 DEF FillInfo, AskedMethod, Asked
    <2>. QED BY <2>1, MethodOfText
  <1>. QED BY <1>2, <1>3

\* The table that is found is the first under what is asked for.
LEMMA FirstTable ==
  ASSUME RoutesTypeOK, Registered, tried = Len(Tables), NEW e
  PROVE  LET matching == {i \in DOMAIN Tables : Tables[i].endpoint = e}
         IN  /\ Known(e) <=> matching # {}
             /\ Known(e) => endpoints[e] = Min(matching)
  <1>. DEFINE matching == {i \in DOMAIN Tables : Tables[i].endpoint = e}
  <1>1. DOMAIN Tables = 1..tried /\ tried \in Nat
    BY TablesAssumption DEF RoutesTypeOK
  <1>2. Known(e) <=> matching # {}
    BY <1>1 DEF Known, Registered
  <1>3. ASSUME Known(e)
        PROVE  endpoints[e] = Min(matching)
    <2>1. endpoints[e] \in matching /\ \A i \in matching : endpoints[e] <= i
      BY <1>1, <1>3 DEF Known, Registered, RoutesTypeOK
    <2>2. matching \in SUBSET Nat
      BY <1>1
    <2>. QED BY <2>1, <2>2, MinUnique
  <1>. QED BY <1>2, <1>3

\* The selector gives a request the callback it is to have, or none.
LEMMA SelectRight ==
  ASSUME RoutesTypeOK, Registered, InOrder, Selecting,
         UNCHANGED <<selector, params, rest>>,
         \/ /\ HasKey /\ Known(Key)
            /\ chosen' = "found"
            /\ udata' = CallbackOf(endpoints[Key], info'.method)
         \/ /\ ~(HasKey /\ Known(Key))
            /\ chosen' = "missing"
            /\ UNCHANGED udata
  PROVE  RoutedRight'
  <1>. DEFINE matching == {i \in DOMAIN Tables : Tables[i].endpoint \in AskedFor}
  <1>1. rest = <<>> /\ tried = Len(Tables) /\ info.method = GET /\ udata = NULL
    BY DEF Selecting, InOrder
  <1>2. AskedFor = IF HasKey THEN {Key} ELSE {}
    BY <1>1, KeyIsAsked
  <1>3. \A m \in Method : MethodName[m] = AskedMethod => m = info'.method
    BY <1>1, MethodIsAsked DEF Selecting
  <1>4. HasKey /\ Known(Key) <=> matching # {}
    <2>. DEFINE under(e) == {i \in DOMAIN Tables : Tables[i].endpoint = e}
    <2>1. Known(Key) <=> under(Key) # {}
      BY <1>1, FirstTable
    <2>2. HasKey => matching = under(Key)
      BY <1>2
    <2>. QED BY <1>2, <2>1, <2>2
  <1>5. CASE HasKey /\ Known(Key)
    <2>1. matching = {i \in DOMAIN Tables : Tables[i].endpoint = Key}
      BY <1>2, <1>5
    <2>2. endpoints[Key] = Min(matching)
      BY <1>1, <1>5, <2>1, FirstTable
    <2>3. udata' = IF info'.method \in Tables[Min(matching)].methods
                   THEN <<Min(matching), info'.method>> ELSE NULL
      BY <1>5, <2>2 DEF CallbackOf
    <2>. QED BY <1>3, <1>4, <1>5, <2>3, AskedKept DEF RoutedRight, NULL
  <1>6. CASE ~(HasKey /\ Known(Key))
    BY <1>1, <1>4, <1>6, AskedKept DEF RoutedRight, NULL
  <1>. QED BY <1>5, <1>6

-----------------------------------------------------------------------------
(* The steps                                                               *)

\* What depends on the endpoints and the parameters only.
Settled == RoutesTypeOK /\ Registered /\ RoutedRight

\* It is kept by every step that leaves those alone.
LEMMA SettledKept ==
  ASSUME Settled, UNCHANGED <<selector, tried, endpoints, params, rest, info, chosen, udata>>,
         ran' \in {"nothing", "callback", "refused"}
  PROVE  Settled'
  <1>1. RoutesTypeOK'
    BY DEF Settled, RoutesTypeOK
  <1>2. Registered'
    BY DEF Settled, Registered
  <1>3. RoutedRight'
    BY AskedKept DEF Settled, RoutedRight
  <1>. QED BY <1>1, <1>2, <1>3 DEF Settled

\* An application that has endpoints to register has no request yet.
LEMMA RegisterInvariant ==
  ASSUME RoutesIInv, Register
  PROVE  RoutesIInv'
  <1>1. input = "begin" /\ chosen = "none"
    BY TablesAssumption DEF Register, Registering, RoutesIInv, InOrder, RoutesTypeOK
  <1>2. /\ DOMAIN endpoints' \subseteq Seq(Segment)
        /\ \A e \in DOMAIN endpoints' : endpoints'[e] \in 1..tried'
        /\ Registered'
    BY RegisterKeeps DEF Register, RoutesIInv
  <1>3. tried' \in 0..Len(Tables)
    BY TablesAssumption DEF Register, Registering, RoutesIInv, RoutesTypeOK
  <1>4. RoutesTypeOK'
    BY <1>2, <1>3 DEF Register, RoutesIInv, RoutesTypeOK
  <1>5. InOrder'
    BY <1>1 DEF Register, RoutesIInv, InOrder, vars
  <1>. QED BY <1>1, <1>2, <1>4, <1>5
          DEF Register, RoutesIInv, RoutedRight, MissingAnswered

\* A record of parameters goes from the web server to the request.
LEMMA ParamsInvariant ==
  ASSUME RoutesIInv, Params
  PROVE  RoutesIInv'
  <1>1. input = "params" /\ chosen = "none"
    BY DEF Params, Receives, RoutesIInv, InOrder
  <1>2. /\ params' \in Seq(ParamsRecord) /\ rest' \in Seq(ParamsRecord)
        /\ params' \o rest' = params \o rest
    <2>1. params \in Seq(ParamsRecord) /\ rest \in Seq(ParamsRecord) /\ rest # <<>>
      BY DEF Params, RoutesIInv, RoutesTypeOK
    <2>2. Head(rest) \in ParamsRecord /\ Tail(rest) \in Seq(ParamsRecord)
      BY <2>1, HeadTailProperties
    <2>3. params' = params \o <<Head(rest)>>
      BY <2>1, <2>2, AppendIsConcat DEF Params
    <2>4. rest = <<Head(rest)>> \o Tail(rest)
      BY <2>1, <2>2
    <2>5. (params \o <<Head(rest)>>) \o Tail(rest) = params \o (<<Head(rest)>> \o Tail(rest))
      BY <2>1, <2>2, ConcatAssociative
    <2>. QED BY <2>1, <2>2, <2>3, <2>4, <2>5 DEF Params
  <1>3. RoutesTypeOK'
    BY <1>2 DEF Params, RoutesIInv, RoutesTypeOK
  <1>4. InOrder'
    BY <1>1 DEF Params, RoutesIInv, InOrder, vars
  <1>. QED BY <1>1, <1>3, <1>4
          DEF Params, RoutesIInv, Registered, RoutedRight, MissingAnswered

\* A field that is added is counted, and no count goes back.
LEMMA CountsGrow ==
  ASSUME FieldsOk, NEW names \in SUBSET Name, Add(names), NEW n \in Name
  PROVE  /\ added[n] \in Nat /\ headers[n] \in Nat /\ headers[n] <= added[n]
         /\ added'[n] = added[n] + (IF n \in names THEN 1 ELSE 0)
  <1>1. /\ added[n] \in Nat /\ headers[n] \in Nat /\ sent[n] \in Nat /\ dropped[n] \in Nat
        /\ added[n] = headers[n] + sent[n] + dropped[n]
    BY BoundAssumption DEF FieldsOk, TypeOK, Count, FieldsConserved
  <1>. QED BY <1>1 DEF Add

\* Calls that add fields take none back.
LEMMA StepGrows ==
  ASSUME FieldsOk, FieldAdd \/ AppError \/ AppErrorStops, NEW n \in Name
  PROVE  added[n] \in Nat /\ added'[n] \in Nat /\ added[n] <= added'[n]
  <1>1. \E names \in SUBSET Name : Add(names)
    <2>1. CASE FieldAdd
      BY <2>1 DEF FieldAdd
    <2>2. CASE AppError
      BY <2>2, NameAssumption DEF AppError, ErrorFields
    <2>3. CASE AppErrorStops
      BY <2>3, NameAssumption DEF AppErrorStops
    <2>. QED BY <2>1, <2>2, <2>3
  <1>. QED BY <1>1, CountsGrow

\* mnfcgi_app_error ends the request with its first Content-Length, or it adds
\* a second one.
LEMMA ErrorAnswers ==
  ASSUME FieldsOk, ErrorOut
  PROVE  /\ UNCHANGED <<input, at>>
         /\ added'[ContentLength] > 1 \/ (added'[ContentLength] = 1 /\ call' = "error")
  <1>1. ContentLength \in Name /\ Location \in Name /\ Status \in Name
    BY NameAssumption
  <1>2. CASE AppError
    <2>1. PICK names \in ErrorFields :
             Add(names \cup (IF headers[Status] = 0 THEN {Status} ELSE {}))
      BY <1>2 DEF AppError
    <2>2. ContentLength \in names /\ names \subseteq Name
      BY <1>1 DEF ErrorFields
    <2>3. added[ContentLength] \in Nat /\ added'[ContentLength] = added[ContentLength] + 1
      BY <1>1, <2>1, <2>2, CountsGrow
    <2>. QED BY <1>2, <2>3 DEF AppError, request
  <1>3. CASE AppErrorStops
    <2>1. UNCHANGED <<input, at>>
      BY <1>3 DEF AppErrorStops, request
    <2>2. CASE headers[ContentLength] > 0 /\ Add({ContentLength})
      <3>1. /\ headers[ContentLength] \in Nat /\ added[ContentLength] \in Nat
            /\ headers[ContentLength] <= added[ContentLength]
            /\ added'[ContentLength] = added[ContentLength] + 1
        BY <1>1, <2>2, CountsGrow
      <3>. QED BY <2>1, <2>2, <3>1
    <2>3. CASE Add({ContentLength, Location})
      <3>1. added[Location] \in Nat /\ added'[Location] = added[Location] + 1
        BY <1>1, <2>3, CountsGrow
      <3>. QED BY <3>1 DEF ErrorOut
    <2>. QED BY <1>3, <2>2, <2>3 DEF AppErrorStops
  <1>. QED BY <1>2, <1>3 DEF ErrorOut

\* A selector finds the callback, or answers 404.
LEMMA SelectInvariant ==
  ASSUME RoutesIInv, FieldsOk, SelectFound \/ SelectMissing
  PROVE  RoutesIInv'
  <1>1. Selecting /\ rest = <<>> /\ tried = Len(Tables) /\ info.method = GET /\ input = "stdin"
    BY DEF SelectFound, SelectMissing, Selecting, RoutesIInv, InOrder
  <1>2. info' = FillInfo /\ info'.method \in Method
    BY <1>1, MethodIsAsked DEF Selecting, RoutesIInv
  <1>3. UNCHANGED <<selector, tried, endpoints, params, rest, ran>>
    BY DEF SelectFound, SelectMissing
  <1>4. /\ UNCHANGED <<input, at>>
        /\ chosen' = "missing" =>
              added'[ContentLength] > 1 \/ (added'[ContentLength] = 1 /\ call' = "error")
    BY ErrorAnswers DEF SelectFound, SelectMissing, vars
  <1>5. udata' \in {NULL} \cup ((DOMAIN Tables) \X Method)
    <2>1. CASE SelectFound
      <3>1. endpoints[Key] \in DOMAIN Tables
        BY <1>1, <2>1, TablesAssumption DEF SelectFound, Known, RoutesIInv, RoutesTypeOK
      <3>. QED BY <1>2, <2>1, <3>1 DEF SelectFound, CallbackOf
    <2>2. CASE SelectMissing
      BY <2>2 DEF SelectMissing, RoutesIInv, RoutesTypeOK
    <2>. QED BY <2>1, <2>2
  <1>6. chosen' \in {"found", "missing"}
    BY DEF SelectFound, SelectMissing
  <1>7. RoutesTypeOK'
    BY <1>2, <1>3, <1>5, <1>6 DEF RoutesIInv, RoutesTypeOK
  <1>8. Registered'
    BY <1>3 DEF RoutesIInv, Registered
  <1>9. InOrder'
    BY <1>1, <1>3, <1>4, <1>6 DEF RoutesIInv, InOrder
  <1>10. RoutedRight'
    BY <1>1, <1>3, SelectRight DEF SelectFound, SelectMissing, RoutesIInv
  <1>11. MissingAnswered'
    BY <1>1, <1>4 DEF MissingAnswered, Selecting
  <1>. QED BY <1>7, <1>8, <1>9, <1>10, <1>11 DEF RoutesIInv

\* The rest of the application leaves the routes alone, and a 404 that is under
\* way completes the request.
LEMMA RequestInvariant ==
  ASSUME RoutesIInv, FieldsOk,
         \/ Begin \/ ParamsEnd
         \/ RunCallback \/ RefuseMethod
         \/ (Adds \/ Stdin \/ Endpoint \/ Ends \/ Returns) /\ UNCHANGED routes
         \/ (RenderHeaders \/ RenderEmptyLine) /\ UNCHANGED routes
  PROVE  RoutesIInv'
  <1>1. /\ UNCHANGED <<selector, tried, endpoints, params, rest, info, chosen, udata>>
        /\ ran' \in {"nothing", "callback", "refused"}
    BY DEF Begin, ParamsEnd, RunCallback, RefuseMethod, routes, RoutesIInv, RoutesTypeOK
  <1>2. Settled'
    BY <1>1, SettledKept DEF Settled, RoutesIInv
  <1>3. ContentLength \in Name
    BY NameAssumption
  <1>4. CASE Begin
    BY <1>2, <1>4 DEF Begin, BeginRequest, Receives, routes, fields, RoutesIInv, Settled,
       InOrder, MissingAnswered
  <1>5. CASE ParamsEnd
    BY <1>2, <1>5 DEF ParamsEnd, ParamsComplete, Receives, routes, fields, RoutesIInv, Settled,
       InOrder, MissingAnswered
  <1>6. CASE RunCallback
    BY <1>2, <1>6 DEF RunCallback, vars, RoutesIInv, Settled, InOrder, MissingAnswered
  <1>7. CASE RefuseMethod
    <2>1. at = "stdin_end" /\ UNCHANGED <<input, at>>
      BY <1>7, ErrorAnswers DEF RefuseMethod
    <2>2. InOrder'
      BY <1>1, <2>1, <1>7 DEF RefuseMethod, RoutesIInv, InOrder
    <2>3. added[ContentLength] \in Nat /\ added[ContentLength] <= added'[ContentLength]
      BY <1>7, <1>3, StepGrows DEF RefuseMethod, ErrorOut
    <2>4. MissingAnswered'
      BY <1>1, <2>1, <2>3, <1>7, ErrorAnswers DEF RefuseMethod, RoutesIInv, MissingAnswered
    <2>. QED BY <1>2, <2>2, <2>4 DEF RoutesIInv, Settled
  <1>8. CASE (Adds \/ Endpoint) /\ UNCHANGED routes
    <2>1. at \in {"begin_request", "stdin_end"} /\ UNCHANGED <<input, at>>
      BY <1>8 DEF Adds, Endpoint, FieldAdd, HeadersEnd, RenderBody, AppError, AppErrorStops,
         InCallback, Callbacks, request, RoutesIInv, InOrder
    <2>2. /\ added[ContentLength] \in Nat /\ added'[ContentLength] \in Nat
          /\ added[ContentLength] <= added'[ContentLength]
      <3>1. CASE FieldAdd \/ AppError \/ AppErrorStops
        BY <1>3, <3>1, StepGrows
      <3>2. CASE HeadersEnd \/ RenderBody
        BY <1>3, <3>2, BoundAssumption
           DEF HeadersEnd, RenderBody, fields, FieldsOk, TypeOK, Count
      <3>. QED BY <1>8, <3>1, <3>2 DEF Adds, Endpoint
    <2>3. InOrder'
      BY <1>8, <2>1 DEF routes, RoutesIInv, InOrder
    <2>4. MissingAnswered'
      BY <1>8, <2>1, <2>2 DEF routes, RoutesIInv, MissingAnswered
    <2>. QED BY <1>2, <2>3, <2>4 DEF RoutesIInv, Settled
  <1>9. CASE Stdin /\ UNCHANGED routes
    BY <1>2, <1>9 DEF Stdin, Receives, routes, fields, RoutesIInv, Settled, InOrder, MissingAnswered
  <1>10. CASE Ends /\ UNCHANGED routes
    BY <1>2, <1>10 DEF Ends, FinalizeRequest, request, routes, fields, RoutesIInv, Settled, InOrder, MissingAnswered
  <1>11. CASE Returns /\ UNCHANGED routes
    BY <1>2, <1>11 DEF Returns, ReturnOk, InCallback, Callbacks, routes, fields, RoutesIInv, Settled, InOrder, MissingAnswered
  <1>12. CASE (RenderHeaders \/ RenderEmptyLine) /\ UNCHANGED routes
    BY <1>2, <1>12 DEF RenderHeaders, RenderEmptyLine, request, routes, fields, RoutesIInv, Settled, InOrder, MissingAnswered
  <1>. QED BY <1>4, <1>5, <1>6, <1>7, <1>8, <1>9, <1>10, <1>11, <1>12

-----------------------------------------------------------------------------
(* The invariants                                                          *)

\* Nothing is registered and nothing asked for yet.
LEMMA RoutesInitInvariant == RoutesInit => RoutesIInv
  <1>. SUFFICES ASSUME RoutesInit
                PROVE  RoutesIInv
    OBVIOUS
  <1>1. Len(Tables) \in Nat
    BY TablesAssumption
  <1>2. /\ params = <<>> /\ rest \in Requests /\ rest \in Seq(ParamsRecord)
        /\ params \o rest = rest
    BY RequestsAssumption, ConcatEmptySeq DEF RoutesInit
  <1>3. endpoints = <<>> /\ DOMAIN endpoints = {}
    BY DEF RoutesInit
  <1>4. RoutesTypeOK
    BY <1>1, <1>2, <1>3 DEF RoutesInit, RoutesTypeOK, Method, GET, UNKNOWN
  <1>5. Registered
    BY <1>3 DEF RoutesInit, Registered
  <1>. QED BY <1>4, <1>5 DEF RoutesInit, Init, RoutesIInv, InOrder, RoutedRight,
          MissingAnswered

\* No step of the registration, of a selector or of a request breaks it.
LEMMA RoutesStepInvariant == RoutesIInv /\ FieldsOk /\ [RoutesNext]_routeVars => RoutesIInv'
  <1>. SUFFICES ASSUME RoutesIInv, FieldsOk, [RoutesNext]_routeVars
                PROVE  RoutesIInv'
    OBVIOUS
  <1>1. CASE UNCHANGED routeVars
    <2>1. Settled'
      BY <1>1, SettledKept DEF routeVars, routes, Settled, RoutesIInv, RoutesTypeOK
    <2>. QED BY <1>1, <2>1
            DEF routeVars, routes, vars, Settled, RoutesIInv, InOrder, MissingAnswered
  <1>. QED BY <1>1, RegisterInvariant, ParamsInvariant, SelectInvariant, RequestInvariant
          DEF RoutesNext

\* Every reachable state of an application with endpoints satisfies RoutesIInv.
THEOREM RoutesInvariant == RoutesSpec => []RoutesIInv
  <1>1. Spec => []FieldsOk
    BY FieldsInvariant
  <1>. QED BY <1>1, RoutesImplementation, RoutesInitInvariant, RoutesStepInvariant, PTL
          DEF RoutesSpec, ImplementsApp

\* Every variable of the routes keeps its type: no method is out of the range of
\* the callbacks of a table.
THEOREM RoutesTypeCorrect == RoutesSpec => []RoutesTypeOK
  BY RoutesInvariant, PTL DEF RoutesIInv

\* A request is given the callback of the first table registered under what it
\* asks for, or it is missing, for any tables and any cut of its parameters.
THEOREM RightlyRouted == RoutesSpec => []RoutedRight
  BY RoutesInvariant, PTL DEF RoutesIInv

\* A 404 that is sent is the only answer: stdin_end is not called.
THEOREM MissingOver == RoutesSpec => []MissingIsOver
  <1>1. RoutesIInv => MissingIsOver
    BY DEF RoutesIInv, MissingAnswered, MissingIsOver
  <1>. QED BY <1>1, RoutesInvariant, PTL

=============================================================================
