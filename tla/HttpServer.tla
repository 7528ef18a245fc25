----------------------------- MODULE HttpServer -----------------------------
(***************************************************************************)
(* The HTTP server of the v2 API, v2/pkg/spike/http-server.go.             *)
(* ListenAndServe sets the routes in a goroutine, starts the listening in  *)
(* another one, whose error it drops, and returns nil after two seconds.   *)
(* Shutdown may be called at any time; net/http stops listening, refuses   *)
(* to listen again and waits for the requests in flight.                   *)
(***************************************************************************)
EXTENDS Naturals, FiniteSets

CONSTANT HttpRequest  \* requests of HTTP clients for a service's endpoint

VARIABLES
  listen,   \* where ListenAndServe is
  server,   \* the http.Server: "closed" is its inShutdown, set for good
  shutdown, \* where Shutdown is
  request   \* what has become of each request

httpVars == <<listen, server, shutdown, request>>

Response == {"ok", "error", "unavailable"}

HttpTypeOK ==
  /\ listen \in {"uncalled", "routes", "sleep", "nil"}
  /\ server \in {"none", "spawned", "listening", "failed", "closed"}
  /\ shutdown \in {"uncalled", "waiting", "returned"}
  /\ request \in [HttpRequest -> {"none", "accepted"} \cup Response]

HttpInit ==
  /\ listen = "uncalled"
  /\ server = "none"
  /\ shutdown = "uncalled"
  /\ request = [r \in HttpRequest |-> "none"]

-----------------------------------------------------------------------------
(* ListenAndServe. *)

ListenAndServe ==
  /\ listen = "uncalled"
  /\ listen' = "routes"
  /\ UNCHANGED <<server, shutdown, request>>

\* Middleware and routes are set, then go h.server.ListenAndServe(), which
\* returns at once (ErrServerClosed) after a Shutdown.
HttpSetup ==
  /\ listen = "routes"
  /\ listen' = "sleep"
  /\ server' = IF server = "closed" THEN "closed" ELSE "spawned"
  /\ UNCHANGED <<shutdown, request>>

\* The two seconds are over, whatever the listening goroutine has come to.
Slept ==
  /\ listen = "sleep"
  /\ listen' = "nil"
  /\ UNCHANGED <<server, shutdown, request>>

\* http.Server.ListenAndServe: the port is bound, or not.
Listen ==
  /\ server = "spawned"
  /\ server' \in {"listening", "failed"}
  /\ UNCHANGED <<listen, shutdown, request>>

-----------------------------------------------------------------------------
(* Requests. *)

Accept(r) ==
  /\ server = "listening"
  /\ request[r] = "none"
  /\ request' = [request EXCEPT ![r] = "accepted"]
  /\ UNCHANGED <<listen, server, shutdown>>

\* httpHandler: the body is read, the request made, its answer or error written.
HttpHandler(r, answer) ==
  /\ request[r] = "accepted"
  /\ request' = [request EXCEPT ![r] = answer]
  /\ UNCHANGED <<listen, server, shutdown>>

-----------------------------------------------------------------------------
(* Shutdown. *)

\* Mutant of Shutdown: only a server that listens is shut down.
ShutdownListening ==
  /\ shutdown = "uncalled"
  /\ shutdown' = IF server = "listening" THEN "waiting" ELSE "returned"
  /\ server' = IF server = "listening" THEN "closed" ELSE server
  /\ UNCHANGED <<listen, request>>

\* http.Server.Shutdown marks the server as shut down and closes its listener.
Shutdown ==
  /\ shutdown = "uncalled"
  /\ shutdown' = "waiting"
  /\ server' = "closed"
  /\ UNCHANGED <<listen, request>>

\* It returns when no connection is active.
ShutdownReturns ==
  /\ shutdown = "waiting"
  /\ \A r \in HttpRequest : request[r] # "accepted"
  /\ shutdown' = "returned"
  /\ UNCHANGED <<listen, server, request>>

-----------------------------------------------------------------------------
\* The owner's calls, and what the server's goroutines do.
HttpOwner == ListenAndServe \/ Shutdown
Serving == HttpSetup \/ Slept \/ Listen \/ ShutdownReturns

-----------------------------------------------------------------------------
(* Properties. *)

\* Once Shutdown has returned nothing listens and no request is under way,
\* wherever ListenAndServe was when it was called (http-server.go:146).
ShutMeansQuiet ==
  shutdown = "returned" =>
    /\ server # "listening"
    /\ \A r \in HttpRequest : request[r] # "accepted"

\* ListenAndServe returns nil only if the listening has not failed: "listens
\* until Shutdown is called or some error occurs" (http-server.go:53).
ErrorReported == listen = "nil" => server # "failed"
=============================================================================
