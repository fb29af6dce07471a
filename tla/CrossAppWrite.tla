--------------------------- MODULE CrossAppWrite ---------------------------
(***************************************************************************)
(* What the assistant promises about a write to another application, with  *)
(* no tables, ticks, claims or crashes in it: the owner authorizes a       *)
(* write, the target performs it at most once, and one outcome is          *)
(* recorded, once.  Success is recorded only of a performed write; failure *)
(* says nothing about the target, which may still perform the write later. *)
(***************************************************************************)
EXTENDS Naturals

CONSTANT Writes

VARIABLES
  authorized,   \* the writes the owner said yes to
  performed,    \* how often the target performed each
  outcome       \* what the assistant says came of each

vars == <<authorized, performed, outcome>>

Init ==
  /\ authorized = {}
  /\ performed = [a \in Writes |-> 0]
  /\ outcome = [a \in Writes |-> "none"]

Authorize(a) ==
  /\ authorized' = authorized \cup {a}
  /\ UNCHANGED <<performed, outcome>>

Perform(a) ==
  /\ a \in authorized
  /\ performed[a] = 0
  /\ performed' = [performed EXCEPT ![a] = 1]
  /\ UNCHANGED <<authorized, outcome>>

Conclude(a, result) ==
  /\ a \in authorized
  /\ outcome[a] = "none"
  /\ result = "succeeded" => performed[a] = 1
  /\ outcome' = [outcome EXCEPT ![a] = result]
  /\ UNCHANGED <<authorized, performed>>

Next ==
  \E a \in Writes :
    \/ Authorize(a)
    \/ Perform(a)
    \/ \E result \in {"succeeded", "failed"} : Conclude(a, result)

Spec == Init /\ [][Next]_vars
=============================================================================
