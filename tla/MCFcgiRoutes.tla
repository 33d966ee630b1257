----------------------------- MODULE MCFcgiRoutes -----------------------------
(***************************************************************************)
(* FcgiRoutes for TLC.  "/a" is registered twice, with different methods;  *)
(* "/a/b" may be asked for as SCRIPT_NAME, or in two parts.                *)
(***************************************************************************)
EXTENDS FcgiRoutes, TLC

FieldSize == [n \in Name |-> 2]

Table(endpoint, methods) == [endpoint |-> endpoint, methods |-> methods]

TwoEndpoints ==
    << Table(<<"a">>, {GET, 2}), Table(<<"a", "b">>, {1}), Table(<<"a">>, {3}) >>

\* The parameters of a request in one record, ...
Record(method, script, path) ==
    ("REQUEST_METHOD" :> method) @@ ("SCRIPT_NAME" :> script) @@ ("PATH_INFO" :> path)

Only(name, value) == name :> value

\* ... or cut into several, with a parameter missing, or there twice.
SomeRequests ==
    { <<Record("POST", <<"a">>, <<>>)>>,
      <<Record("PUT", <<"a">>, <<>>)>>,
      <<Record("BREW", <<"a", "b">>, <<"a">>)>>,
      <<Only("SCRIPT_NAME", <<"a">>)>>,
      <<Only("PATH_INFO", <<"a">>)>>,
      <<Only("SCRIPT_NAME", <<"a">>), Only("PATH_INFO", <<"b">>), Only("REQUEST_METHOD", "HEAD")>>,
      <<Only("SCRIPT_NAME", <<"a">>), Only("SCRIPT_NAME", <<"b">>)>>,
      <<Only("REQUEST_METHOD", "PUT"), Only("SCRIPT_NAME", <<"b">>)>>,
      <<>> }

=============================================================================
