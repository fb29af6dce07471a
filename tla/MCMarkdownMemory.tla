-------------------------- MODULE MCMarkdownMemory --------------------------
(* Instances of MarkdownMemory for TLC: two files, the second a memory list;  *)
(* two tool calls that led to the same approval, and two that are not logged. *)
EXTENDS MarkdownMemory, TLC

CONSTANTS a1, f1

FirstPath == <<1>>
SecondPath == <<2>>
FilePaths == {FirstPath, SecondPath}

Call(id, tool, executed, approval) ==
  [id |-> id, tool |-> tool, accepted |-> TRUE, executed |-> executed,
   approval |-> approval, outbound |-> NoId, event |-> NoId, task |-> NoId, run |-> NoId,
   reviewNote |-> FALSE]

SomeToolCalls ==
  {Call("c1", "other", TRUE, a1), Call("c2", "app", TRUE, a1),
   Call("c3", "app", TRUE, NoId), Call("c4", "other", FALSE, NoId)}

SomeMarkers == {DecisionMarker(c) : c \in {d \in SomeToolCalls : Meaningful(d)}}
SomeEntries == SomeMarkers \cup Items \cup {f1}

\* Writers are interchangeable, and so are items.
Symmetry == Permutations(Writers) \cup Permutations(Items)
=============================================================================
