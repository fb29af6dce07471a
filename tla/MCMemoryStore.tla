--------------------------- MODULE MCMemoryStore ---------------------------
(* An instance of MemoryStore for TLC: two files and, below each, another.   *)
EXTENDS MemoryStore

FilePaths == {<<1>>, <<2>>, <<1, 1>>, <<2, 1>>}
SomeTexts == {<<"a">>}
=============================================================================
