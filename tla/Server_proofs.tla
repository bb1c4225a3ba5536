--------------------------- MODULE Server_proofs ---------------------------
(***************************************************************************)
(* Proofs about Server, for every set of connections and addresses and all *)
(* caps.  IInv adds to the properties it proves that the counts are within *)
(* the caps, that at most one connection is on its way to a thread, and    *)
(* that no connection is there once main() has joined the threads.         *)
(***************************************************************************)
EXTENDS Server, FiniteSetTheorems, TLAPS

CountsWithinCaps ==
  /\ total_ <= MaxTotal
  /\ \A ip \in IP : per_ip_[ip] <= MaxPerIp

OneAdmitted ==
  /\ At({"admitted"}) # {} => main = "spawn"
  /\ \A c, d \in At({"admitted"}) : c = d

Ending ==
  /\ main \in {"stop", "done"} => Running = {}
  /\ exited = "graceful" => main = "done" /\ ioc = "done"

\* The tracker knows the sessions that have not got past remove(), and while
\* shutdownAll() has calls to make, none gets past it.  Its thread is not there
\* before main() starts it.
Tracking ==
  /\ tracked = At({"session", "leaving"})
  /\ calls \subseteq tracked
  /\ ioc # "shutdownAll" => calls = {}
  /\ main = "launch" => ioc = "off"

IInv == TypeOK /\ PlacesAreCounted /\ CountsWithinCaps /\ Tracking /\ OneAdmitted /\ Ending

USE DEF limiter, signals, ending

LiveStates == {"admitted", "handshake", "session", "leaving", "closing"}

-----------------------------------------------------------------------------
(* How the connections that are there change when one connection moves. *)

\* There are finitely many.
LEMMA LiveFinite ==
  /\ IsFiniteSet(Live) /\ Cardinality(Live) \in Nat
  /\ \A ip : IsFiniteSet(LiveFrom(ip)) /\ Cardinality(LiveFrom(ip)) \in Nat
<1>1. Live \subseteq Conn /\ \A ip : LiveFrom(ip) \subseteq Live
  BY DEF Live, At, LiveFrom
<1>2. IsFiniteSet(Live) /\ \A ip : IsFiniteSet(LiveFrom(ip))
  BY <1>1, ServerAssumption, FS_Subset DEF ServerAssumption
<1> QED  BY <1>2, FS_CardinalityType

\* Moving among the states of one kind changes nothing.
LEMMA KeepsPlace ==
  ASSUME TypeOK, NEW c \in Conn, NEW s, Moves(c, s),
         conn[c] \in LiveStates <=> s \in LiveStates
  PROVE  Live' = Live /\ \A ip : LiveFrom(ip)' = LiveFrom(ip)
<1>1. \A d \in Conn : conn'[d] = IF d = c THEN s ELSE conn[d]
  BY DEF TypeOK, Moves
<1>2. Live' = Live  BY <1>1 DEF Live, At, LiveStates
<1> QED  BY <1>2 DEF LiveFrom

\* A connection that is admitted counts, in all and for its address.
LEMMA TakesPlace ==
  ASSUME TypeOK, NEW c \in Conn, conn[c] = "accepted", Moves(c, "admitted")
  PROVE  /\ Cardinality(Live') = Cardinality(Live) + 1
         /\ \A ip : Cardinality(LiveFrom(ip)') =
              IF ip = From[c] THEN Cardinality(LiveFrom(ip)) + 1 ELSE Cardinality(LiveFrom(ip))
<1>1. \A d \in Conn : conn'[d] = IF d = c THEN "admitted" ELSE conn[d]
  BY DEF TypeOK, Moves
<1>2. Live' = Live \cup {c} /\ c \notin Live  BY <1>1 DEF Live, At
<1>3. ASSUME NEW ip PROVE LiveFrom(ip)' = IF ip = From[c] THEN LiveFrom(ip) \cup {c} ELSE LiveFrom(ip)
  BY <1>2 DEF LiveFrom
<1>4. \A ip : c \notin LiveFrom(ip)  BY <1>2 DEF LiveFrom
<1>5. Cardinality(Live') = Cardinality(Live) + 1  BY <1>2, LiveFinite, FS_AddElement
<1>6. ASSUME NEW ip PROVE Cardinality(LiveFrom(ip)') =
              IF ip = From[c] THEN Cardinality(LiveFrom(ip)) + 1 ELSE Cardinality(LiveFrom(ip))
  BY <1>3, <1>4, LiveFinite, FS_AddElement
<1> QED  BY <1>5, <1>6

\* A connection that leaves no longer counts.
LEMMA GivesPlaceBack ==
  ASSUME TypeOK, NEW c \in Conn, conn[c] \in LiveStates, Moves(c, "gone")
  PROVE  /\ Cardinality(Live') = Cardinality(Live) - 1
         /\ \A ip : Cardinality(LiveFrom(ip)') =
              IF ip = From[c] THEN Cardinality(LiveFrom(ip)) - 1 ELSE Cardinality(LiveFrom(ip))
<1>1. \A d \in Conn : conn'[d] = IF d = c THEN "gone" ELSE conn[d]
  BY DEF TypeOK, Moves
<1>2. Live' = Live \ {c} /\ c \in Live  BY <1>1 DEF Live, At, LiveStates
<1>3. ASSUME NEW ip PROVE LiveFrom(ip)' = IF ip = From[c] THEN LiveFrom(ip) \ {c} ELSE LiveFrom(ip)
  BY <1>2 DEF LiveFrom
<1>4. c \in LiveFrom(From[c])  BY <1>2 DEF LiveFrom
<1>5. Cardinality(Live') = Cardinality(Live) - 1  BY <1>2, LiveFinite, FS_RemoveElement
<1>6. ASSUME NEW ip PROVE Cardinality(LiveFrom(ip)') =
              IF ip = From[c] THEN Cardinality(LiveFrom(ip)) - 1 ELSE Cardinality(LiveFrom(ip))
  BY <1>3, <1>4, LiveFinite, FS_RemoveElement
<1> QED  BY <1>5, <1>6

-----------------------------------------------------------------------------
(* Each part of IInv is kept by every step. *)

\* The steps that move no connection.
Unmoving ==
  \/ LaunchIoc \/ Arm \/ Loop \/ StartWatchdog \/ JoinAll \/ Exit
  \/ (\E c \in Conn : PeerIsGone(c))
  \/ IocStep \/ AcceptFails \/ Signal \/ WatchdogExits
  \/ UNCHANGED vars

\* The steps of a connection that neither take a place nor give one back.
Passing(c) ==
  \/ Accept(c) \/ Refuse(c) \/ Spawn(c) \/ Connect(c) \/ ServeHttp(c)
  \/ Upgrade(c) \/ RunEnds(c) \/ Remove(c)

\* A step is one of these, or takes a place or gives one back.
LEMMA Steps ==
  ASSUME [Next]_vars
  PROVE  \/ Unmoving
         \/ \E c \in Conn : Passing(c) \/ Admit(c) \/ SpawnFails(c) \/ Leave(c)
BY DEF Next, MainStep, ClientStep, Exited, Unmoving, Passing

LEMMA UnmovingKeeps ==
  ASSUME Unmoving
  PROVE  UNCHANGED <<conn, total_, per_ip_, tracked>>
BY DEF Unmoving, LaunchIoc, Arm, Loop, StartWatchdog, JoinAll, Exit, PeerIsGone, IocStep,
       IocReturns, HandlerCloses, ShutdownAllStarts, ShutdownAllCalls, ShutdownAllEnds, AcceptFails,
         Signal, WatchdogExits, vars

LEMMA PassingKeeps ==
  ASSUME TypeOK, NEW c \in Conn, Passing(c)
  PROVE  /\ Live' = Live /\ \A ip : LiveFrom(ip)' = LiveFrom(ip)
         /\ UNCHANGED <<total_, per_ip_>>
<1>1. PICK s : Moves(c, s) /\ (conn[c] \in LiveStates <=> s \in LiveStates)
  BY DEF Passing, Accept, Refuse, Spawn, Connect, ServeHttp, Upgrade,
         RunEnds, Remove, LiveStates
<1>2. UNCHANGED <<total_, per_ip_>>
  BY DEF Passing, Accept, Refuse, Spawn, Connect, ServeHttp, Upgrade,
         RunEnds, Remove
<1> QED  BY <1>1, <1>2, KeepsPlace

\* Nobody has connected.
LEMMA InitIInv == Init => IInv
<1> SUFFICES ASSUME Init PROVE IInv  OBVIOUS
<1>1. TypeOK  BY DEF Init, LimiterInit, TypeOK
<1>2. Live = {} /\ Running = {} /\ At({"session", "leaving"}) = {} /\ At({"admitted"}) = {}
  BY DEF Init, Live, Running, At
<1>3. PlacesAreCounted
  BY <1>2, FS_EmptySet DEF Init, LimiterInit, PlacesAreCounted, LiveFrom
<1>4. CountsWithinCaps
  BY LimiterAssumption DEF LimiterAssumption, Init, LimiterInit, CountsWithinCaps
<1> QED  BY <1>1, <1>2, <1>3, <1>4 DEF IInv, Init, Tracking, OneAdmitted, Ending

\* The counts stay those of the connections that are there, within the caps.
LEMMA CountsKept ==
  ASSUME IInv, [Next]_vars
  PROVE  PlacesAreCounted' /\ CountsWithinCaps'
<1> USE DEF IInv
<1>1. CASE Unmoving
  <2>1. UNCHANGED <<conn, total_, per_ip_>>  BY <1>1, UnmovingKeeps
  <2> QED  BY <2>1 DEF PlacesAreCounted, CountsWithinCaps, Live, LiveFrom, At
<1>2. ASSUME NEW c \in Conn, Passing(c) PROVE PlacesAreCounted' /\ CountsWithinCaps'
  BY <1>2, PassingKeeps DEF PlacesAreCounted, CountsWithinCaps
<1>3. ASSUME NEW c \in Conn, Admit(c) PROVE PlacesAreCounted' /\ CountsWithinCaps'
  <2>1. /\ total_ < MaxTotal /\ total_' = total_ + 1
        /\ per_ip_[From[c]] < MaxPerIp
        /\ \A ip \in IP : per_ip_'[ip] = IF ip = From[c] THEN per_ip_[ip] + 1 ELSE per_ip_[ip]
    BY <1>3, ServerAssumption DEF Admit, TryAcquire, Admits, TypeOK, ServerAssumption
  <2>2. conn[c] = "accepted" /\ Moves(c, "admitted")  BY <1>3 DEF Admit
  <2>3. PlacesAreCounted'  BY <2>1, <2>2, TakesPlace DEF PlacesAreCounted
  <2>4. CountsWithinCaps'
    BY <2>1, LimiterAssumption DEF LimiterAssumption, CountsWithinCaps, TypeOK
  <2> QED  BY <2>3, <2>4
<1>4. ASSUME NEW c \in Conn, SpawnFails(c) \/ Leave(c) PROVE PlacesAreCounted' /\ CountsWithinCaps'
  <2>1. conn[c] \in LiveStates /\ Moves(c, "gone") /\ ReleaseConnection(From[c])
    BY <1>4 DEF SpawnFails, Leave, LiveStates
  <2>2. /\ Cardinality(Live') = Cardinality(Live) - 1
        /\ \A ip : Cardinality(LiveFrom(ip)') =
             IF ip = From[c] THEN Cardinality(LiveFrom(ip)) - 1 ELSE Cardinality(LiveFrom(ip))
    BY <2>1, GivesPlaceBack
  <2>3. c \in Live /\ c \in LiveFrom(From[c])
    BY <2>1 DEF Live, LiveFrom, At, LiveStates
  <2>4. Cardinality(Live) > 0 /\ Cardinality(LiveFrom(From[c])) > 0
    BY <2>3, LiveFinite, FS_EmptySet
  <2>5. From[c] \in IP  BY ServerAssumption DEF ServerAssumption
  <2>6. total_ > 0 /\ per_ip_[From[c]] > 0  BY <2>4, <2>5 DEF PlacesAreCounted
  <2>7. /\ total_' = total_ - 1
        /\ \A ip \in IP : per_ip_'[ip] = IF ip = From[c] THEN per_ip_[ip] - 1 ELSE per_ip_[ip]
    BY <2>1, <2>6, <2>5 DEF ReleaseConnection, TypeOK
  <2>8. PlacesAreCounted'  BY <2>2, <2>7 DEF PlacesAreCounted
  <2>9. CountsWithinCaps'
    BY <2>7, LimiterAssumption DEF LimiterAssumption, CountsWithinCaps, TypeOK
  <2> QED  BY <2>8, <2>9
<1> QED  BY <1>1, <1>2, <1>3, <1>4, Steps

\* The tracker's set and the connections keep to their types.
LEMMA TypesKept ==
  ASSUME TypeOK, [Next]_vars
  PROVE  TypeOK'
<1>1. CASE Unmoving
  <2>1. UNCHANGED <<conn, total_, per_ip_, tracked>>  BY <1>1, UnmovingKeeps
  <2>2. /\ main' \in {"launch", "arm", "check", "accept", "gate", "spawn", "join", "joining",
                    "stop", "done"}
        /\ ioc' \in {"off", "running", "handler", "shutdownAll", "done"}
        /\ exited' \in {"no", "graceful", "forced", "aborted"}
    BY <1>1 DEF TypeOK, Unmoving, LaunchIoc, Arm, Loop, StartWatchdog, JoinAll, Exit, PeerIsGone, IocStep,
         IocReturns, HandlerCloses, ShutdownAllStarts, ShutdownAllCalls, ShutdownAllEnds, AcceptFails,
         Signal, WatchdogExits, vars
  <2>3. /\ armed' \in BOOLEAN /\ signalled' \in BOOLEAN /\ handled' \in BOOLEAN
        /\ open' \in BOOLEAN /\ stopped' \in BOOLEAN /\ watchdog' \in BOOLEAN
    BY <1>1, Zenon DEF TypeOK, Unmoving, LaunchIoc, Arm, Loop, StartWatchdog, JoinAll, Exit, PeerIsGone, IocStep,
         IocReturns, HandlerCloses, ShutdownAllStarts, ShutdownAllCalls, ShutdownAllEnds, AcceptFails,
         Signal, WatchdogExits, vars
  <2>4. calls' \subseteq Conn
    BY <1>1 DEF TypeOK, Unmoving, LaunchIoc, Arm, Loop, StartWatchdog, JoinAll, Exit, PeerIsGone, IocStep,
         IocReturns, HandlerCloses, ShutdownAllStarts, ShutdownAllCalls, ShutdownAllEnds, AcceptFails,
         Signal, WatchdogExits, vars
  <2> QED  BY <2>1, <2>2, <2>3, <2>4 DEF TypeOK
<1>2. ASSUME NEW c \in Conn, Passing(c) PROVE TypeOK'
  BY <1>2 DEF TypeOK, Moves, Passing, Accept, Refuse, Spawn, Connect, ServeHttp, Upgrade,
         RunEnds, Remove
<1>3. ASSUME NEW c \in Conn, Admit(c) PROVE TypeOK'
  <2>1. From[c] \in IP  BY ServerAssumption DEF ServerAssumption
  <2>2. total_' \in Nat /\ per_ip_' \in [IP -> Nat]
    BY <1>3, <2>1 DEF TypeOK, Admit, TryAcquire
  <2> QED  BY <1>3, <2>2 DEF TypeOK, Moves, Admit
<1>4. ASSUME NEW c \in Conn, SpawnFails(c) \/ Leave(c) PROVE TypeOK'
  BY <1>4 DEF TypeOK, Moves, SpawnFails, Leave, ReleaseConnection
<1> QED  BY <1>1, <1>2, <1>3, <1>4, Steps

\* A session enters itself when it is created; its destructor takes it off, but
\* not between two calls of shutdownAll().
LEMMA TrackingKept ==
  ASSUME IInv, [Next]_vars
  PROVE  Tracking'
<1> USE DEF IInv, At, Tracking
<1>1. CASE Unmoving
  <2>1. tracked' = At({"session", "leaving"})'  BY <1>1, UnmovingKeeps
  <2>2. tracked' = tracked  BY <1>1, UnmovingKeeps
  <2>3. ASSUME NEW c \in Conn, ShutdownAllCalls(c)
        PROVE  calls' \subseteq tracked' /\ (ioc' # "shutdownAll" => calls' = {})
    BY <2>2, <2>3 DEF ShutdownAllCalls
  <2>4. CASE ShutdownAllStarts \/ ShutdownAllEnds \/ HandlerCloses \/ IocReturns
    BY <2>2, <2>4 DEF ShutdownAllStarts, ShutdownAllEnds, HandlerCloses, IocReturns
  <2>5. CASE LaunchIoc \/ Arm \/ Loop \/ StartWatchdog \/ JoinAll \/ Exit
    BY <2>2, <2>5 DEF LaunchIoc, Arm, Loop, StartWatchdog, JoinAll, Exit
  <2>6. CASE (\E c \in Conn : PeerIsGone(c)) \/ AcceptFails \/ Signal \/ WatchdogExits \/ UNCHANGED vars
    BY <2>2, <2>6 DEF PeerIsGone, AcceptFails, Signal, WatchdogExits, vars
  <2>7. calls' \subseteq tracked' /\ (ioc' # "shutdownAll" => calls' = {})
    BY <1>1, <2>3, <2>4, <2>5, <2>6 DEF Unmoving, IocStep
  <2>8. main' = "launch" => ioc' = "off"
    BY <1>1 DEF Unmoving, LaunchIoc, Arm, Loop, StartWatchdog, JoinAll, Exit, PeerIsGone, IocStep,
       IocReturns, HandlerCloses, ShutdownAllStarts, ShutdownAllCalls, ShutdownAllEnds, AcceptFails,
       Signal, WatchdogExits, vars
  <2> QED  BY <2>1, <2>7, <2>8
<1>2. ASSUME NEW c \in Conn, Passing(c) PROVE Tracking'
  <2>1. CASE Upgrade(c)
    BY <2>1 DEF TypeOK, Moves, Upgrade
  <2>2. CASE RunEnds(c)
    BY <2>2 DEF TypeOK, Moves, RunEnds
  <2>3. CASE Remove(c)
    <3>1. calls = {} /\ calls' = {}  BY <2>3 DEF Remove, TrackerFree
    <3>2. tracked' = At({"session", "leaving"})'  BY <2>3 DEF TypeOK, Moves, Remove
    <3> QED  BY <2>3, <3>1, <3>2 DEF Remove
  <2>4. CASE Accept(c) \/ Refuse(c) \/ Spawn(c) \/ Connect(c) \/ ServeHttp(c)
    BY <2>4 DEF TypeOK, Moves, Accept, Refuse, Spawn, Connect, ServeHttp
  <2> QED  BY <1>2, <2>1, <2>2, <2>3, <2>4 DEF Passing
<1>3. ASSUME NEW c \in Conn, Admit(c) PROVE Tracking'
  BY <1>3 DEF TypeOK, Moves, Admit
<1>4. ASSUME NEW c \in Conn, SpawnFails(c) \/ Leave(c) PROVE Tracking'
  BY <1>4 DEF TypeOK, Moves, SpawnFails, Leave
<1> QED  BY <1>1, <1>2, <1>3, <1>4, Steps

\* main() starts the thread of one connection before it admits another.
LEMMA OneAdmittedKept ==
  ASSUME IInv, [Next]_vars
  PROVE  OneAdmitted'
<1> USE DEF IInv, At, OneAdmitted
<1>1. CASE Unmoving
  <2>1. conn' = conn  BY <1>1, UnmovingKeeps
  <2>2. main = "spawn" => main' = "spawn"
    BY <1>1 DEF Unmoving, LaunchIoc, Arm, Loop, StartWatchdog, JoinAll, Exit, PeerIsGone,
       IocStep, IocReturns, HandlerCloses, ShutdownAllStarts, ShutdownAllCalls, ShutdownAllEnds, AcceptFails,
         Signal, WatchdogExits, vars
  <2> QED  BY <2>1, <2>2
<1>2. ASSUME NEW c \in Conn, Passing(c) PROVE OneAdmitted'
  BY <1>2 DEF TypeOK, Moves, Passing, Accept, Refuse, Spawn, Connect, ServeHttp, Upgrade,
         RunEnds, Remove
<1>3. ASSUME NEW c \in Conn, Admit(c) PROVE OneAdmitted'
  BY <1>3 DEF TypeOK, Moves, Admit
<1>4. ASSUME NEW c \in Conn, SpawnFails(c) \/ Leave(c) PROVE OneAdmitted'
  BY <1>4 DEF TypeOK, Moves, SpawnFails, Leave
<1> QED  BY <1>1, <1>2, <1>3, <1>4, Steps

\* After the join no thread is started, and main() is the last to end.
LEMMA EndingKept ==
  ASSUME IInv, [Next]_vars
  PROVE  Ending'
<1> USE DEF IInv, At, Ending, Running
<1>1. CASE Unmoving
  <2>1. conn' = conn  BY <1>1, UnmovingKeeps
  <2> QED
    BY <1>1, <2>1 DEF TypeOK, Unmoving, LaunchIoc, Arm, Loop, StartWatchdog, JoinAll, Exit, PeerIsGone,
       IocStep, IocReturns, HandlerCloses, ShutdownAllStarts, ShutdownAllCalls, ShutdownAllEnds, AcceptFails,
         Signal, WatchdogExits, vars
<1>2. ASSUME NEW c \in Conn, Passing(c) PROVE Ending'
  BY <1>2 DEF TypeOK, Moves, Passing, Accept, Refuse, Spawn, Connect, ServeHttp, Upgrade,
         RunEnds, Remove
<1>3. ASSUME NEW c \in Conn, Admit(c) PROVE Ending'
  BY <1>3 DEF TypeOK, Moves, Admit
<1>4. ASSUME NEW c \in Conn, SpawnFails(c) \/ Leave(c) PROVE Ending'
  BY <1>4 DEF TypeOK, Moves, SpawnFails, Leave
<1> QED  BY <1>1, <1>2, <1>3, <1>4, Steps

-----------------------------------------------------------------------------
(* The theorems. *)

\* The inductive invariant holds in every reachable state.
THEOREM Invariance == Spec => []IInv
<1>1. IInv /\ [Next]_vars => IInv'
  <2> SUFFICES ASSUME IInv, [Next]_vars PROVE IInv'  OBVIOUS
  <2> QED
    BY TypesKept, CountsKept, TrackingKept, OneAdmittedKept, EndingKept DEF IInv
<1> QED  BY InitIInv, <1>1, PTL DEF Spec

\* Every variable keeps to its type.
THEOREM Typing == Spec => []TypeOK
<1>1. IInv => TypeOK  BY DEF IInv
<1> QED  BY Invariance, <1>1, PTL

\* No place of the connection limits is lost or given back twice, whatever
\* becomes of a connection.
THEOREM PlacesAreCountedHolds == Spec => []PlacesAreCounted
<1>1. IInv => PlacesAreCounted  BY DEF IInv
<1> QED  BY Invariance, <1>1, PTL

\* --max-connections and --max-connections-per-ip are kept.
THEOREM CapsHoldHolds == Spec => []CapsHold
<1>1. IInv => CapsHold
  BY DEF IInv, PlacesAreCounted, CountsWithinCaps, CapsHold
<1> QED  BY Invariance, <1>1, PTL

\* No destructor overtakes shutdownAll(): whatever sessions begin and end while it
\* goes through them, it never gets to one that is no more.
THEOREM CallsReachLiveSessionsHolds == Spec => []CallsReachLiveSessions
<1>1. IInv => CallsReachLiveSessions  BY DEF IInv, Tracking, CallsReachLiveSessions
<1> QED  BY Invariance, <1>1, PTL

\* When main() returns, the threads of the connections are over and the
\* limiter's count is back to zero.
THEOREM GracefulIsCleanHolds == Spec => []GracefulIsClean
<1>1. ASSUME IInv PROVE GracefulIsClean
  <2>1. SUFFICES ASSUME exited = "graceful" PROVE Running = {} /\ total_ = 0 /\ ioc = "done"
    BY DEF GracefulIsClean
  <2>2. main = "done" /\ ioc = "done" /\ Running = {}  BY <1>1, <2>1 DEF IInv, Ending
  <2>3. At({"admitted"}) = {}  BY <1>1, <2>2 DEF IInv, OneAdmitted
  <2>4. Live = {}  BY <2>2, <2>3 DEF Live, Running, At
  <2>5. total_ = 0  BY <1>1, <2>4, FS_EmptySet DEF IInv, PlacesAreCounted
  <2> QED  BY <2>2, <2>5
<1> QED  BY Invariance, <1>1, PTL
=============================================================================
