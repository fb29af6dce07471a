--------------------------- MODULE MarkdownStore ---------------------------
(***************************************************************************)
(* The operations of the store interface on markdown documents             *)
(* (api/src/domain/store.ts), as functions from the documents of one user  *)
(* to the documents after the call and its outcome.  They exist twice: in  *)
(* PostgreSQL (Pg...), where one call is a transaction, and in the process *)
(* (Mem...), the store of the tests and of development.                    *)
(*                                                                         *)
(* A path is a tuple of names, a name a number, so that ORDER BY path is   *)
(* the order of tuples; names hold none of the wildcards of LIKE.  A text  *)
(* is the sequence of its entries: what a writer adds in one call.         *)
(***************************************************************************)
EXTENDS Naturals, Sequences, FiniteSets

CONSTANTS
  Paths,        \* the paths of the documents
  NoVersion     \* a call without expectedVersion

ASSUME PathAssumption ==
  /\ \A p \in Paths : p \in Seq(Nat)
  /\ NoVersion \notin Nat

NoDocument == [state |-> "absent", id |-> 0, version |-> 0, text |-> <<>>]
NoDocuments == [p \in Paths |-> NoDocument]

LivePaths(docs) == {p \in Paths : docs[p].state = "live"}
Returns(docs, outcome) == [docs |-> docs, outcome |-> outcome]
StaleVersion(docs, p, expected) == expected # NoVersion /\ docs[p].version # expected

EntriesOf(text) == {text[i] : i \in DOMAIN text}

-----------------------------------------------------------------------------
(* A move takes a document and everything below its path along. *)

Below(from, p) == Len(p) >= Len(from) /\ SubSeq(p, 1, Len(from)) = from
Renamed(from, to, p) == to \o SubSeq(p, Len(from) + 1, Len(p))
MovedRows(docs, from) == {p \in LivePaths(docs) : Below(from, p)}

Before(p, q) ==
  \/ p # q /\ Below(p, q)
  \/ \E i \in DOMAIN p \cap DOMAIN q :
       p[i] < q[i] /\ \A k \in 1..(i - 1) : p[k] = q[k]

MovedRow(row) == [row EXCEPT !.version = @ + 1]

-----------------------------------------------------------------------------
(* PostgreSQL.  Where the row of a path is gone its deleted_at is set, and  *)
(* UNIQUE (user_id, path) holds for such rows too.                          *)

PgInsert(docs, p, text, newId) ==
  IF docs[p].state = "absent"
  THEN Returns([docs EXCEPT ![p] = [state |-> "live", id |-> newId, version |-> 1, text |-> text]],
               "written")
  ELSE Returns(docs, "failed")

\* Mutant of PgUpdate: the new text keeps the version of the old one.
PgUpdate_SameVersion(docs, p, text) == Returns([docs EXCEPT ![p].text = text], "written")

PgUpdate(docs, p, text) ==
  Returns([docs EXCEPT ![p].version = @ + 1, ![p].text = text], "written")

\* The version a missing or deleted row is compared by is 0.
PgVersion(docs, p) == IF docs[p].state = "live" THEN docs[p].version ELSE 0

PgWrite(docs, p, text, expected, newId) ==
  CASE expected # NoVersion /\ PgVersion(docs, p) # expected -> Returns(docs, "conflict")
    [] OTHER -> IF docs[p].state = "live" THEN PgUpdate(docs, p, text)
                ELSE PgInsert(docs, p, text, newId)

PgDelete(docs, p, expected) ==
  IF docs[p].state # "live" THEN Returns(docs, "missing")
  ELSE IF StaleVersion(docs, p, expected) THEN Returns(docs, "conflict")
  ELSE Returns([docs EXCEPT ![p].state = "deleted"], "written")

\* One UPDATE per row in the order of the paths: each fails on a path that is
\* taken at that moment, and then the whole transaction is rolled back.
PgMove(docs, from, to, expected) ==
  LET rows == MovedRows(docs, from)
      target == [p \in rows |-> Renamed(from, to, p)]
      free(p) == \/ docs[target[p]].state = "absent"
                 \/ target[p] = p
                 \/ target[p] \in rows /\ Before(target[p], p)
      source(q) == CHOOSE p \in rows : target[p] = q
  IN  IF from \in rows /\ StaleVersion(docs, from, expected) THEN Returns(docs, "conflict")
      ELSE IF \E p \in rows : ~free(p) THEN Returns(docs, "failed")
      ELSE Returns([q \in Paths |->
                      IF \E p \in rows : target[p] = q THEN MovedRow(docs[source(q)])
                      ELSE IF q \in rows THEN NoDocument
                      ELSE docs[q]], "written")
=============================================================================
