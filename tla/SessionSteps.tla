---------------------------- MODULE SessionSteps ----------------------------
(***************************************************************************)
(* What the other parts of the server see of one session: the references   *)
(* to the model it has, whether it has an engine or is over, and what it   *)
(* decodes.  src/server/StreamingSession.h keeps to this, as the           *)
(* refinement in StreamingSession shows; SessionPool composes many.        *)
(*                                                                         *)
(* Each step is an operator on the value of one session, so that a module  *)
(* with one session and one with a function of them can use it.            *)
(***************************************************************************)
EXTENDS Naturals

Decodes == {"none", "flush", "end"}

\* A session has no engine at first; it is ready as long as it has one; it is
\* over once it has given up the engine and the model.
Lives == {"new", "ready", "over"}

Outlines == [refs : Nat, life : Lives, decoding : Decodes]

Fresh == [refs |-> 0, life |-> "new", decoding |-> "none"]

\* handleConfig() calls ModelCache::acquire(), with no lock: the flush thread
\* may be decoding, but not the receive thread, which is the one that calls.
CanAcquire(s) == s.life # "over" /\ s.decoding # "end"

Acquired(s) == [s EXCEPT !.refs = @ + 1]

\* handleConfig() builds an engine, under state_mutex_.
CanBuild(s) == s.life # "over" /\ s.decoding = "none" /\ s.refs > 0

Built(s) == [s EXCEPT !.life = "ready"]

\* flushLoop() and handleEnd() decode, under state_mutex_.
CanDecode(s) == s.life = "ready" /\ s.decoding = "none"

Decoding(s, what) == [s EXCEPT !.decoding = what]

\* Mutated form of CanRelease: state_mutex_ is not asked for.
CanReleaseAnyTime(s) == s.life # "over"

\* Mutated form of Released: a reference goes back that was never taken.
ReleasedUnchecked(s) == [refs |-> s.refs - 1, life |-> "over", decoding |-> s.decoding]

\* releaseModel(), under state_mutex_: one reference goes back, if there is any,
\* and the session does nothing more.
CanRelease(s) == s.life # "over" /\ s.decoding = "none"

Released(s) == [refs |-> IF s.refs > 0 THEN s.refs - 1 ELSE 0, life |-> "over",
                decoding |-> s.decoding]
=============================================================================
