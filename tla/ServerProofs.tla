----------------------------- MODULE ServerProofs -----------------------------
(***************************************************************************)
(* The safety of startup and shutdown, for every set of clients and every  *)
(* size of the worker pool.                                                *)
(***************************************************************************)
EXTENDS Server, TLAPS

\* Up to here the main thread is alone.
Before == {"parsing", "installing", "loading", "binding", "launching"}

Mains == Before \cup {"readying", "serving", "stopping", "joining", "unwinding", "exited", "killed"}

Types ==
  /\ main \in Mains
  /\ masked \in BOOLEAN
  /\ listener \in {"none", "starting", "accepting", "draining", "done"}
  /\ request \in [Client -> {"none", "connected", "queued", "handled", "answered", "cut off"}]

\* Workers have something to do only between the listener's first accept and
\* its end.
PoolIdle == listener \in {"none", "starting", "done"} => In({"queued", "handled"}) = {}

\* The listener thread exists from Launch on, and has ended once it is joined.
ListenerFollowsMain ==
  /\ main \in Before => listener = "none"
  /\ main \in {"unwinding", "exited"} => listener \in {"none", "done"}

\* The mask is set before anything else is started or opened, and a signal
\* kills only without it.
MaskComesFirst ==
  /\ main \in {"parsing", "installing", "killed"} => masked = FALSE /\ socket = "none"
  /\ main \in Mains \ {"parsing", "installing", "killed", "exited"} => masked = TRUE
  /\ unmasked = {}

IInv == Types /\ PoolIdle /\ ListenerFollowsMain /\ MaskComesFirst

\* The program begins with nothing but its main thread.
LEMMA InitHolds == Init => IInv
  BY DEF Init, IInv, Types, PoolIdle, ListenerFollowsMain, MaskComesFirst, In, Mains, Before

\* The steps of the main thread leave the requests alone, and the listener
\* too but for Launch.
LEMMA MainKeeps == IInv /\ Main => IInv'
<1> USE DEF IInv, Types, PoolIdle, ListenerFollowsMain, MaskComesFirst, In, Mains, Before,
            serverVars, signalVars
<1>1. IInv /\ parse_args => IInv'
  BY DEF parse_args
<1>2. IInv /\ install_shutdown_handler => IInv'
  BY DEF install_shutdown_handler
<1>3. IInv /\ LoadStartupModel => IInv'
  BY DEF LoadStartupModel
<1>4. IInv /\ Bind => IInv'
  BY DEF Bind
<1>5. IInv /\ Launch => IInv'
  BY DEF Launch
<1>6. IInv /\ wait_until_ready => IInv'
  BY DEF wait_until_ready
<1>7. IInv /\ wait_for_shutdown_signal => IInv'
  BY DEF wait_for_shutdown_signal
<1>8. IInv /\ Stop => IInv'
  BY DEF Stop
<1>9. IInv /\ Join => IInv'
  BY DEF Join
<1>10. IInv /\ Unwind => IInv'
  BY DEF Unwind
<1> QED
  BY <1>1, <1>2, <1>3, <1>4, <1>5, <1>6, <1>7, <1>8, <1>9, <1>10 DEF Main

\* A request is queued only by an accepting listener, and the listener ends
\* only when none is queued or handled.
LEMMA ServeKeeps == IInv /\ Serve => IInv'
<1> SUFFICES ASSUME IInv, Serve PROVE IInv'
  OBVIOUS
<1> USE DEF IInv, Types, PoolIdle, ListenerFollowsMain, MaskComesFirst, In, Mains, Before,
            serverVars, signalVars, Alive
<1>1. CASE Listen
  BY <1>1 DEF Listen
<1>2. CASE StopAccepting
  BY <1>2 DEF StopAccepting
<1>3. CASE Drained
  BY <1>3 DEF Drained
<1>4. ASSUME NEW c \in Client, Accept(c) PROVE IInv'
  BY <1>4 DEF Accept
<1>5. ASSUME NEW c \in Client, Handle(c) PROVE IInv'
  BY <1>5 DEF Handle
<1>6. ASSUME NEW c \in Client, Reply(c) PROVE IInv'
  BY <1>6 DEF Reply
<1> QED
  BY <1>1, <1>2, <1>3, <1>4, <1>5, <1>6 DEF Serve

\* The world outside: a client connects, or a signal comes.
LEMMA OthersKeep == IInv /\ (Signal \/ \E c \in Client : Connect(c)) => IInv'
<1> USE DEF IInv, Types, PoolIdle, ListenerFollowsMain, MaskComesFirst, In, Mains, Before,
            serverVars, signalVars, Alive
<1>1. IInv /\ Signal => IInv'
  BY DEF Signal
<1>2. ASSUME IInv, NEW c \in Client, Connect(c) PROVE IInv'
  BY <1>2 DEF Connect
<1> QED
  BY <1>1, <1>2

\* The invariant is inductive.
THEOREM Invariance == Spec => []IInv
<1>1. IInv /\ [Next]_vars => IInv'
  <2>1. IInv /\ UNCHANGED vars => IInv'
    BY DEF vars, serverVars, signalVars, IInv, Types, PoolIdle, ListenerFollowsMain, MaskComesFirst, In
  <2> QED
    BY <2>1, MainKeeps, ServeKeeps, OthersKeep DEF Next
<1> QED
  BY InitHolds, <1>1, PTL DEF Spec

\* With any number of clients and workers, neither the listener thread nor a
\* worker is left when main returns and the manager is destroyed (main.cpp:172).
THEOREM CleanExit == Spec => []NobodyOutlivesTheManager
<1>1. IInv => NobodyOutlivesTheManager
  BY DEF IInv, PoolIdle, ListenerFollowsMain, NobodyOutlivesTheManager
<1> QED
  BY <1>1, Invariance, PTL

\* Once the handler is installed no signal ends the process but through stop()
\* (main.cpp:139 comes before the load and before the server starts).
THEOREM OrderlyStop == Spec => []SignalsNeverKill
<1>1. IInv => SignalsNeverKill
  BY DEF IInv, MaskComesFirst, SignalsNeverKill
<1> QED
  BY <1>1, Invariance, PTL
-----------------------------------------------------------------------------
(* No stop is lost.                                                         *)

\* stop() does nothing to a server that is not running; but main waits until it
\* is, so that whenever it serves or stops, the listener accepts on an open socket,
\* and whoever joins it finds the socket closed or the listener gone on.
StopReachesTheListener ==
  /\ main \in {"serving", "stopping"} => listener = "accepting" /\ socket = "bound"
  /\ main = "joining" => \/ listener = "accepting" /\ socket = "closed"
                         \/ listener \in {"draining", "done"}

\* The socket is open until stop() closes it, and nothing else ends the listener.
SocketFollowsMain ==
  /\ main \in {"launching", "readying"} => socket = "bound"
  /\ main = "readying" => listener \in {"starting", "accepting"}
  /\ StopReachesTheListener

\* Since start() waits until the server is ready (http_server.cpp:195), no stop gets
\* lost: a join never waits for a listener that nobody has told to end.
THEOREM NoStopIsLost == Spec => []StopReachesTheListener
<1>1. Init => SocketFollowsMain
  BY DEF Init, SocketFollowsMain, StopReachesTheListener
<1>2. IInv /\ SocketFollowsMain /\ Main => SocketFollowsMain'
  <2> USE DEF IInv, Types, ListenerFollowsMain, MaskComesFirst, Before, Mains, SocketFollowsMain,
              StopReachesTheListener, serverVars, signalVars
  <2>1. IInv /\ SocketFollowsMain /\ (parse_args \/ install_shutdown_handler \/ LoadStartupModel \/ Bind)
          => SocketFollowsMain'
    BY DEF parse_args, install_shutdown_handler, LoadStartupModel, Bind
  <2>2. IInv /\ SocketFollowsMain /\ (Launch \/ wait_until_ready \/ wait_for_shutdown_signal)
          => SocketFollowsMain'
    BY DEF Launch, wait_until_ready, wait_for_shutdown_signal, Running
  <2>3. IInv /\ SocketFollowsMain /\ (Stop \/ Join \/ Unwind) => SocketFollowsMain'
    BY DEF Stop, Join, Unwind, Running
  <2> QED  BY <2>1, <2>2, <2>3 DEF Main
<1>3. IInv /\ SocketFollowsMain /\ Serve => SocketFollowsMain'
  BY DEF Serve, Listen, Accept, StopAccepting, Drained, Handle, Reply, SocketFollowsMain,
         StopReachesTheListener, signalVars
<1>4. SocketFollowsMain /\ (Signal \/ \E c \in Client : Connect(c)) => SocketFollowsMain'
  BY DEF Signal, Connect, SocketFollowsMain, StopReachesTheListener, serverVars, signalVars
<1>5. SocketFollowsMain /\ UNCHANGED vars => SocketFollowsMain'
  BY DEF SocketFollowsMain, StopReachesTheListener, vars, serverVars
<1>6. IInv /\ SocketFollowsMain /\ [Next]_vars => SocketFollowsMain'
  BY <1>2, <1>3, <1>4, <1>5 DEF Next
<1>7. SocketFollowsMain => StopReachesTheListener
  BY DEF SocketFollowsMain
<1> QED  BY <1>1, <1>6, <1>7, Invariance, PTL DEF Spec
=============================================================================
