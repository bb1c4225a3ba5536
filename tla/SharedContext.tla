--------------------------- MODULE SharedContext ---------------------------
(***************************************************************************)
(* What ModelCache promises to the sessions: one context at a time, the    *)
(* same for everybody who asked for it, which stays loaded for as long as  *)
(* anybody uses it and may go at any moment when nobody does.  There is no *)
(* reference count, no timer and no pending flag in it.                    *)
(***************************************************************************)
EXTENDS Integers

CONSTANT Client

VARIABLES
  context,   \* the loaded context, 0 when there is none
  using      \* the context each client works with, 0 when it has none

NobodyUses == \A c \in Client : using[c] = 0

Init == context = 0 /\ using = [c \in Client |-> 0]

\* A client joins the loaded context.
Join(c) ==
  /\ using[c] = 0 /\ context # 0
  /\ using' = [using EXCEPT ![c] = context]
  /\ UNCHANGED context

\* A client has a new context loaded, which nobody's work depends on the old.
Load(c) ==
  /\ NobodyUses
  /\ context' \in Nat \ {0, context}
  /\ using' = [using EXCEPT ![c] = context']

\* A client stops; the last one may find the context gone at once.
Leave(c) ==
  /\ using[c] # 0
  /\ using' = [using EXCEPT ![c] = 0]
  /\ \/ UNCHANGED context
     \/ context' = 0 /\ \A d \in Client : using'[d] = 0

\* The idle context goes.
Drop ==
  /\ NobodyUses
  /\ context' = 0
  /\ UNCHANGED using

\* Everybody gives up what they use, and the context with it.
Abandon == context' = 0 /\ using' = [c \in Client |-> 0]

Next ==
  \/ \E c \in Client : Join(c) \/ Load(c) \/ Leave(c)
  \/ Drop
  \/ Abandon

Spec == Init /\ [][Next]_<<context, using>>
=============================================================================
