--------------------------- MODULE SessionOutline ---------------------------
(***************************************************************************)
(* One session as the rest of the server sees it: the specification that   *)
(* StreamingSession implements and that SessionPool relies on.             *)
(***************************************************************************)
EXTENDS SessionSteps

VARIABLE session

Acquire == CanAcquire(session) /\ session' = Acquired(session)
Build == CanBuild(session) /\ session' = Built(session)
StartDecode ==
  CanDecode(session) /\ \E what \in {"flush", "end"} : session' = Decoding(session, what)
StopDecode == session.decoding # "none" /\ session' = Decoding(session, "none")
Release == CanRelease(session) /\ session' = Released(session)

Next == Acquire \/ Build \/ StartDecode \/ StopDecode \/ Release

Init == session = Fresh

Spec == Init /\ [][Next]_session
=============================================================================
