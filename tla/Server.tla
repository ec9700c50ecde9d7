-------------------------------- MODULE Server --------------------------------
(***************************************************************************)
(* The process from main() to its exit (src/main.cpp) with HttpServer's    *)
(* start and stop (src/http/http_server.cpp): the main thread, the         *)
(* listener thread, the pool of workers, clients, and signals at any time. *)
(*                                                                         *)
(* The HTTP library is modelled from its use: bind_to_port lets clients    *)
(* connect, listen_after_bind accepts and hands over to the pool until the *)
(* socket closes and then works off the queue, stop closes the socket only *)
(* of a server that is running.                                            *)
(***************************************************************************)
EXTENDS Naturals, FiniteSets

CONSTANTS
  Client,    \* each connects once
  Workers    \* size of the pool

ASSUME ServerAssumption == IsFiniteSet(Client) /\ Workers \in Nat \ {0}

VARIABLES
  main,       \* where the main thread is
  masked,     \* it has blocked SIGINT and SIGTERM
  unmasked,   \* other threads that were started before
  pending,    \* a blocked signal waits to be consumed
  socket,
  listener,   \* the thread thread_
  request     \* client -> how far its request is

serverVars == <<socket, listener, request>>
signalVars == <<masked, unmasked, pending>>
vars == <<main, signalVars, serverVars>>

Init ==
  /\ main = "parsing"
  /\ masked = FALSE /\ unmasked = {} /\ pending = FALSE
  /\ socket = "none" /\ listener = "none"
  /\ request = [c \in Client |-> "none"]

Alive == main \notin {"exited", "killed"}
Running == listener \in {"accepting", "draining"}
In(states) == {c \in Client : request[c] \in states}

-----------------------------------------------------------------------------
\* The main thread.

\* --help and a wrong argument end the program.
parse_args ==
  /\ main = "parsing"
  /\ main' \in {"installing", "exited"}
  /\ UNCHANGED <<signalVars, serverVars>>

install_shutdown_handler_Later ==
  /\ main = "installing"
  /\ main' = "loading"
  /\ UNCHANGED <<signalVars, serverVars>>

install_shutdown_handler ==
  /\ main = "installing"
  /\ masked' = TRUE
  /\ main' = "loading"
  /\ UNCHANGED <<unmasked, pending, serverVars>>

\* There is no such file; or it loads, and starts llama.cpp's threads; or it
\* does not and the program ends.
LoadStartupModel ==
  /\ main = "loading"
  /\ \/ main' = "binding" /\ UNCHANGED unmasked
     \/ main' = "binding" /\ unmasked' = unmasked \cup (IF masked THEN {} ELSE {"native"})
     \/ main' = "exited" /\ UNCHANGED unmasked
  /\ UNCHANGED <<masked, pending, serverVars>>

\* start(): the port is taken, or is ours.
Bind ==
  /\ main = "binding"
  /\ \/ main' = "exited" /\ UNCHANGED socket
     \/ main' = "launching" /\ socket' = "bound"
  /\ UNCHANGED <<signalVars, listener, request>>

Launch ==
  /\ main = "launching"
  /\ listener' = "starting"
  /\ main' = "readying"
  /\ UNCHANGED <<signalVars, socket, request>>

wait_until_ready_Skipped ==
  /\ main = "readying"
  /\ main' = "serving"
  /\ UNCHANGED <<signalVars, serverVars>>

wait_until_ready ==
  /\ main = "readying"
  /\ Running
  /\ main' = "serving"
  /\ UNCHANGED <<signalVars, serverVars>>

wait_for_shutdown_signal ==
  /\ main = "serving"
  /\ pending
  /\ pending' = FALSE
  /\ main' = "stopping"
  /\ UNCHANGED <<masked, unmasked, serverVars>>

\* stop() up to the join.
Stop ==
  /\ main = "stopping"
  /\ socket' = IF Running THEN "closed" ELSE socket
  /\ main' = "joining"
  /\ UNCHANGED <<signalVars, listener, request>>

Join_Skipped ==
  /\ main = "joining"
  /\ main' = "unwinding"
  /\ UNCHANGED <<signalVars, serverVars>>

Join ==
  /\ main = "joining"
  /\ listener = "done"
  /\ main' = "unwinding"
  /\ UNCHANGED <<signalVars, serverVars>>

\* main returns: ~HttpServer stops again, which finds nothing to do, and
\* ~ModelManager releases the engine.
Unwind ==
  /\ main = "unwinding"
  /\ main' = "exited"
  /\ UNCHANGED <<signalVars, serverVars>>

Main ==
  \/ parse_args \/ install_shutdown_handler \/ LoadStartupModel
  \/ Bind \/ Launch \/ wait_until_ready
  \/ wait_for_shutdown_signal \/ Stop \/ Join \/ Unwind

-----------------------------------------------------------------------------
\* The listener thread, the pool and the clients.

Listen ==
  /\ Alive /\ listener = "starting"
  /\ listener' = "accepting"
  /\ UNCHANGED <<main, signalVars, socket, request>>

Accept(c) ==
  /\ Alive /\ listener = "accepting" /\ socket = "bound"
  /\ request[c] = "connected"
  /\ request' = [request EXCEPT ![c] = "queued"]
  /\ UNCHANGED <<main, signalVars, socket, listener>>

\* The socket is closed: who has not been accepted is cut off.
StopAccepting ==
  /\ Alive /\ listener = "accepting" /\ socket = "closed"
  /\ listener' = "draining"
  /\ request' = [c \in Client |-> IF request[c] = "connected" THEN "cut off" ELSE request[c]]
  /\ UNCHANGED <<main, signalVars, socket>>

\* The pool has worked off its queue and joined its threads.
Drained ==
  /\ Alive /\ listener = "draining"
  /\ In({"queued", "handled"}) = {}
  /\ listener' = "done"
  /\ UNCHANGED <<main, signalVars, socket, request>>

Handle(c) ==
  /\ Alive /\ request[c] = "queued"
  /\ Cardinality(In({"handled"})) < Workers
  /\ request' = [request EXCEPT ![c] = "handled"]
  /\ UNCHANGED <<main, signalVars, socket, listener>>

Reply(c) ==
  /\ Alive /\ request[c] = "handled"
  /\ request' = [request EXCEPT ![c] = "answered"]
  /\ UNCHANGED <<main, signalVars, socket, listener>>

Serve == Listen \/ StopAccepting \/ Drained \/ \E c \in Client : Accept(c) \/ Handle(c) \/ Reply(c)

Connect(c) ==
  /\ Alive /\ socket = "bound" /\ request[c] = "none"
  /\ request' = [request EXCEPT ![c] = "connected"]
  /\ UNCHANGED <<main, signalVars, socket, listener>>

\* SIGINT or SIGTERM: a thread that does not block it lets it end the process.
Signal ==
  /\ Alive
  /\ IF masked /\ unmasked = {}
       THEN pending' = TRUE /\ UNCHANGED main
       ELSE main' = "killed" /\ UNCHANGED pending
  /\ UNCHANGED <<masked, unmasked, serverVars>>

Next == Main \/ Serve \/ Signal \/ \E c \in Client : Connect(c)

Spec == Init /\ [][Next]_vars

\* Every thread gets on, and a handler ends; clients and signals need not come.
FairSpec ==
  /\ Spec
  /\ WF_vars(Main) /\ WF_vars(Listen \/ StopAccepting \/ Drained)
  /\ \A c \in Client : WF_vars(Accept(c)) /\ WF_vars(Handle(c)) /\ WF_vars(Reply(c))

-----------------------------------------------------------------------------
\* A signal never ends the process half way: once it may have served anyone, or
\* loads a model, it leaves by the orderly path, a second Ctrl-C included
\* (main.cpp:112, every thread inherits the mask).
SignalsNeverKill == main = "killed" => socket = "none" /\ unmasked = {} /\ ~masked

\* The program has not ended, and the manager is not destroyed, while a worker
\* or the listener thread may still use it.
NobodyOutlivesTheManager ==
  main \in {"unwinding", "exited"} =>
    listener \in {"none", "done"} /\ In({"queued", "handled"}) = {}

\* A signal ends the program, whenever it comes after the mask is set: during
\* the load, between bind and listen, or with every worker busy.
ShutdownEnds == pending ~> main = "exited"
=============================================================================
