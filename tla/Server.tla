------------------------------- MODULE Server -------------------------------
(***************************************************************************)
(* src/server.cpp: main(), which accepts connections until a signal stops  *)
(* it, the thread that runs the io_context for the signal handler, one     *)
(* thread per connection (handleSession), the watchdog of the shutdown,    *)
(* and SessionTracker and ConnectionLimiter, which they share.             *)
(*                                                                         *)
(* A session runs and then is destroyed: StreamingSession has its inside.  *)
(* When a client connects, what it asks for and how long it stays is its   *)
(* choice: nothing ends a handshake or a session that a client draws out,  *)
(* as shutdown() cancels only asynchronous operations and all reads are    *)
(* synchronous.  close() on the listening socket does not wake an accept() *)
(* that waits in the kernel; a signal handled by that thread does.         *)
(***************************************************************************)
EXTENDS ConnectionLimiter, FiniteSets

CONSTANTS
  Conn,   \* connections
  From    \* the address each of them comes from

ASSUME ServerAssumption == IsFiniteSet(Conn) /\ From \in [Conn -> IP]

VARIABLES
  main,        \* where main() is
  conn,        \* where each connection is
  ioc,         \* the thread in io_context::run()
  armed,       \* the handler waits for a signal
  signalled,   \* one has come
  handled,     \* the handler has run
  open,        \* the acceptor is open
  tracked,     \* SessionTracker's sessions_
  calls,       \* sessions that shutdownAll() has yet to call
  stopped,     \* ioc.stop() has been called
  watchdog,    \* the watchdog runs
  exited       \* how the process has ended, or "no"

signals == <<armed, signalled, handled, open, calls>>
ending == <<stopped, watchdog, exited>>
vars == <<limiter, main, conn, ioc, signals, tracked, ending>>

At(states) == {c \in Conn : conn[c] \in states}
Running == At({"handshake", "session", "leaving", "closing"})
Live == At({"admitted", "handshake", "session", "leaving", "closing"})
LiveFrom(ip) == {c \in Live : From[c] = ip}
Moves(c, state) == conn' = [conn EXCEPT ![c] = state]

Init ==
  /\ LimiterInit
  /\ main = "launch" /\ conn = [c \in Conn |-> "away"]
  /\ ioc = "off" /\ armed = FALSE /\ signalled = FALSE /\ handled = FALSE
  /\ open = TRUE /\ tracked = {} /\ calls = {}
  /\ stopped = FALSE /\ watchdog = FALSE /\ exited = "no"

-----------------------------------------------------------------------------
(* main(): the accept loop. *)

LaunchIoc ==
  /\ main = "launch"
  /\ main' = "arm" /\ ioc' = "running"
  /\ UNCHANGED <<limiter, conn, signals, tracked, ending>>

\* signals.async_wait(): only now has the io_context something to run.
Arm ==
  /\ main = "arm"
  /\ main' = "check" /\ armed' = TRUE
  /\ UNCHANGED <<limiter, conn, ioc, signalled, handled, open, calls, tracked, ending>>

\* while (acceptor.is_open()): into accept(), or out of the loop.
Loop ==
  /\ main = "check"
  /\ main' = IF open THEN "accept" ELSE "join"
  /\ UNCHANGED <<limiter, conn, ioc, signals, tracked, ending>>

Accept(c) ==
  /\ main = "accept" /\ conn[c] = "queued"
  /\ main' = "gate" /\ Moves(c, "accepted")
  /\ UNCHANGED <<limiter, ioc, signals, tracked, ending>>

\* accept() returns an error that does not end the loop.
AcceptFails ==
  /\ main = "accept"
  /\ main' = "check"
  /\ UNCHANGED <<limiter, conn, ioc, signals, tracked, ending>>

\* remote_endpoint() throws as the peer is gone already: the exception leaves
\* the block of ioc_thread, whose destructor terminates the process.
PeerIsGone(c) ==
  /\ main = "gate" /\ conn[c] = "accepted"
  /\ exited' = "aborted"
  /\ UNCHANGED <<limiter, main, conn, ioc, signals, tracked, stopped, watchdog>>

Refuse(c) ==
  /\ main = "gate" /\ conn[c] = "accepted"
  /\ ~Admits(From[c])
  /\ main' = "check" /\ Moves(c, "gone")
  /\ UNCHANGED <<limiter, ioc, signals, tracked, ending>>

Admit(c) ==
  /\ main = "gate" /\ conn[c] = "accepted"
  /\ TryAcquire(From[c])
  /\ main' = "spawn" /\ Moves(c, "admitted")
  /\ UNCHANGED <<ioc, signals, tracked, ending>>

Spawn(c) ==
  /\ main = "spawn" /\ conn[c] = "admitted"
  /\ main' = "check" /\ Moves(c, "handshake")
  /\ UNCHANGED <<limiter, ioc, signals, tracked, ending>>

\* Mutated form of SpawnFails: the connection keeps its place.
SpawnFailsUncounted(c) ==
  /\ main = "spawn" /\ conn[c] = "admitted"
  /\ main' = "check" /\ Moves(c, "gone")
  /\ UNCHANGED <<limiter, ioc, signals, tracked, ending>>

SpawnFails(c) ==
  /\ main = "spawn" /\ conn[c] = "admitted"
  /\ ReleaseConnection(From[c])
  /\ main' = "check" /\ Moves(c, "gone")
  /\ UNCHANGED <<ioc, signals, tracked, ending>>

-----------------------------------------------------------------------------
(* handleSession(), a thread per connection, and SessionTracker. *)

\* The TLS or HTTP exchange fails, or the request was for /metrics, /health or
\* /ready and has been answered.
ServeHttp(c) ==
  /\ conn[c] = "handshake"
  /\ Moves(c, "closing")
  /\ UNCHANGED <<limiter, main, ioc, signals, tracked, ending>>

\* Mutated form of TrackerFree: shutdownAll() copies the set and gives the mutex
\* back before it calls anybody.
TrackerFreeAlways == TRUE

\* SessionTracker's mutex_, which shutdownAll() holds from the first call of a
\* session to the last.
TrackerFree == ioc # "shutdownAll"

\* A session is created, which enters itself with the tracker, and runs.
Upgrade(c) ==
  /\ conn[c] = "handshake" /\ TrackerFree
  /\ Moves(c, "session") /\ tracked' = tracked \cup {c}
  /\ UNCHANGED <<limiter, main, ioc, signals, ending>>

\* The session's run() is over: its destructor joins the flush thread ...
RunEnds(c) ==
  /\ conn[c] = "session"
  /\ Moves(c, "leaving")
  /\ UNCHANGED <<limiter, main, ioc, signals, tracked, ending>>

\* ... and takes it off the tracker.  After that the session is no more.
Remove(c) ==
  /\ conn[c] = "leaving" /\ TrackerFree
  /\ Moves(c, "closing") /\ tracked' = tracked \ {c}
  /\ UNCHANGED <<limiter, main, ioc, signals, ending>>

\* The thread ends with the destructor of its ConnectionGuard.
Leave(c) ==
  /\ conn[c] = "closing"
  /\ ReleaseConnection(From[c])
  /\ Moves(c, "gone")
  /\ UNCHANGED <<main, ioc, signals, tracked, ending>>

-----------------------------------------------------------------------------
(* The signal, its handler and the shutdown. *)

\* A signal interrupts accept() if the thread that has to take it is main's.
Signal ==
  /\ main \notin {"launch", "arm"}
  /\ signalled' = TRUE
  /\ main' \in {main} \cup (IF main = "accept" THEN {"join"} ELSE {})
  /\ UNCHANGED <<limiter, conn, ioc, armed, handled, open, calls, tracked, ending>>

\* io_context::run() returns: stopped, or with no handler left to wait for.
IocReturns ==
  /\ ioc = "running" /\ (~armed \/ stopped)
  /\ ioc' = "done"
  /\ UNCHANGED <<limiter, main, conn, signals, tracked, ending>>

\* The handler closes the acceptor ...
HandlerCloses ==
  /\ ioc = "running" /\ armed /\ signalled
  /\ ioc' = "handler" /\ armed' = FALSE /\ open' = FALSE
  /\ UNCHANGED <<limiter, main, conn, signalled, handled, calls, tracked, ending>>

\* ... and calls SessionTracker::shutdownAll(): it takes the mutex, ...
ShutdownAllStarts ==
  /\ ioc = "handler"
  /\ ioc' = "shutdownAll" /\ calls' = tracked
  /\ UNCHANGED <<limiter, main, conn, armed, signalled, handled, open, tracked, ending>>

\* ... calls one session after the other, which ends none of its synchronous
\* operations, ...
ShutdownAllCalls(c) ==
  /\ ioc = "shutdownAll" /\ c \in calls
  /\ calls' = calls \ {c}
  /\ UNCHANGED <<limiter, main, conn, ioc, armed, signalled, handled, open, tracked, ending>>

\* ... and gives it back.
ShutdownAllEnds ==
  /\ ioc = "shutdownAll" /\ calls = {}
  /\ ioc' = "running" /\ handled' = TRUE
  /\ UNCHANGED <<limiter, main, conn, armed, signalled, open, calls, tracked, ending>>

\* Mutated form of StartWatchdog: there is none.
JoinUnwatched ==
  /\ main = "join"
  /\ main' = "joining"
  /\ UNCHANGED <<limiter, conn, ioc, signals, tracked, ending>>

StartWatchdog ==
  /\ main = "join"
  /\ main' = "joining" /\ watchdog' = TRUE
  /\ UNCHANGED <<limiter, conn, ioc, signals, tracked, stopped, exited>>

\* Mutated form of JoinAll: only the sessions that are tracked are waited for.
JoinTracked ==
  /\ main = "joining" /\ tracked = {}
  /\ main' = "stop" /\ stopped' = TRUE
  /\ UNCHANGED <<limiter, conn, ioc, signals, tracked, watchdog, exited>>

\* Every thread in session_threads has been joined: ioc.stop().
JoinAll ==
  /\ main = "joining" /\ Running = {}
  /\ main' = "stop" /\ stopped' = TRUE
  /\ UNCHANGED <<limiter, conn, ioc, signals, tracked, watchdog, exited>>

\* ioc_thread has been joined too: main() returns.
Exit ==
  /\ main = "stop" /\ ioc = "done"
  /\ main' = "done" /\ exited' = "graceful"
  /\ UNCHANGED <<limiter, conn, ioc, signals, tracked, stopped, watchdog>>

\* The watchdog's deadline passes before all_joined is set: std::exit(0).
WatchdogExits ==
  /\ watchdog
  /\ exited' = "forced"
  /\ UNCHANGED <<limiter, main, conn, ioc, signals, tracked, stopped, watchdog>>

\* A client connects, as long as somebody listens.
Connect(c) ==
  /\ conn[c] = "away"
  /\ open \/ main = "accept"
  /\ Moves(c, "queued")
  /\ UNCHANGED <<limiter, main, ioc, signals, tracked, ending>>

-----------------------------------------------------------------------------

MainStep ==
  \/ LaunchIoc \/ Arm \/ Loop \/ StartWatchdog \/ JoinAll \/ Exit
  \/ \E c \in Conn : Accept(c) \/ PeerIsGone(c) \/ Refuse(c) \/ Admit(c) \/ Spawn(c) \/ SpawnFails(c)

IocStep ==
  \/ IocReturns \/ HandlerCloses \/ ShutdownAllStarts \/ ShutdownAllEnds
  \/ \E c \in Conn : ShutdownAllCalls(c)

ClientStep ==
  \E c \in Conn : Connect(c) \/ ServeHttp(c) \/ Upgrade(c) \/ RunEnds(c)

Exited == exited # "no" /\ UNCHANGED vars

Next ==
  \/ /\ exited = "no"
     /\ \/ MainStep \/ IocStep \/ ClientStep \/ AcceptFails \/ Signal \/ WatchdogExits
        \/ \E c \in Conn : Remove(c) \/ Leave(c)
  \/ Exited

\* The threads of the server run, and time passes for the watchdog.  No client
\* need connect or leave, and no signal need come.
Fairness ==
  /\ WF_vars(exited = "no" /\ MainStep)
  /\ WF_vars(exited = "no" /\ IocStep)
  /\ WF_vars(exited = "no" /\ WatchdogExits)
  /\ \A c \in Conn : WF_vars(exited = "no" /\ (Remove(c) \/ Leave(c)))

Spec == Init /\ [][Next]_vars /\ Fairness

-----------------------------------------------------------------------------

TypeOK ==
  /\ total_ \in Nat /\ per_ip_ \in [IP -> Nat]
  /\ main \in {"launch", "arm", "check", "accept", "gate", "spawn", "join", "joining",
               "stop", "done"}
  /\ conn \in [Conn -> {"away", "queued", "accepted", "admitted", "handshake", "session",
                        "leaving", "closing", "gone"}]
  /\ ioc \in {"off", "running", "handler", "shutdownAll", "done"}
  /\ armed \in BOOLEAN /\ signalled \in BOOLEAN /\ handled \in BOOLEAN /\ open \in BOOLEAN
  /\ tracked \subseteq Conn /\ calls \subseteq Conn
  /\ stopped \in BOOLEAN /\ watchdog \in BOOLEAN
  /\ exited \in {"no", "graceful", "forced", "aborted"}

\* The caps hold of the connections that are really there, whichever way they
\* come to an end: a refusal, a thread that cannot be started, an HTTP request,
\* a failed handshake, a session.
CapsHold ==
  /\ Cardinality(Live) <= MaxTotal
  /\ \A ip \in IP : Cardinality(LiveFrom(ip)) <= MaxPerIp

\* No place is lost or given back twice: the limiter's counts are those of the
\* connections that are there, in all and per address.
PlacesAreCounted ==
  /\ total_ = Cardinality(Live)
  /\ \A ip \in IP : per_ip_[ip] = Cardinality(LiveFrom(ip))

\* The sessions that shutdownAll() is about to call are still there when it gets
\* to them, although their own threads destroy them meanwhile: a destructor waits
\* in remove() until the last call is made.
CallsReachLiveSessions == calls \subseteq At({"session", "leaving"})

\* main() returns only when no thread uses what it leaves behind: the threads
\* of the connections are over, their places given back, the handler's is done.
GracefulIsClean == exited = "graceful" => Running = {} /\ total_ = 0 /\ ioc = "done"

\* Once the accept loop is left the process ends, however long clients stay.
ShutdownIsBounded == main = "join" ~> exited # "no"

\* server.cpp:447, "Run ioc in a dedicated thread so async_wait fires even while
\* accept() blocks": a signal is handled, or the process ends anyway.
SignalIsHandled == signalled ~> (handled \/ exited # "no")
=============================================================================
