------------------------- MODULE ConnectionLimiter -------------------------
(***************************************************************************)
(* src/server/ConnectionLimiter.cpp: the caps on connections, in all and   *)
(* per IP address.  Every method runs under mutex_, so a method is one     *)
(* step of its caller; Server composes these steps with the caller's.  An  *)
(* address without an entry in per_ip_ counts as one with a zero.          *)
(***************************************************************************)
EXTENDS Integers

CONSTANTS
  IP,         \* client addresses
  MaxTotal,   \* max_total_: --max-connections
  MaxPerIp    \* max_per_ip_: --max-connections-per-ip

ASSUME LimiterAssumption == MaxTotal \in Nat /\ MaxPerIp \in Nat

VARIABLES total_, per_ip_

limiter == <<total_, per_ip_>>

LimiterInit == total_ = 0 /\ per_ip_ = [ip \in IP |-> 0]

\* Mutated form of Admits: the cap per address is forgotten.
AdmitsByTotal(ip) == total_ < MaxTotal

Admits(ip) == total_ < MaxTotal /\ per_ip_[ip] < MaxPerIp

\* tryAcquire() returns true; when it returns false nothing changes.
TryAcquire(ip) ==
  /\ Admits(ip)
  /\ per_ip_' = [per_ip_ EXCEPT ![ip] = @ + 1]
  /\ total_' = total_ + 1

\* Mutated form of ReleaseConnection: the count per address goes down by two.
ReleaseBelowZero(ip) ==
  /\ per_ip_' = [per_ip_ EXCEPT ![ip] = @ - 2]
  /\ total_' = IF total_ > 0 THEN total_ - 1 ELSE 0

\* release()
ReleaseConnection(ip) ==
  /\ per_ip_' = [per_ip_ EXCEPT ![ip] = IF @ > 0 THEN @ - 1 ELSE 0]
  /\ total_' = IF total_ > 0 THEN total_ - 1 ELSE 0
=============================================================================
