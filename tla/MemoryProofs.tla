---------------------------- MODULE MemoryProofs ----------------------------
(***************************************************************************)
(* Theorems on the assistant's long-term memory: an entry somebody was     *)
(* told is recorded stays until a call takes it away that means to, and a  *)
(* document has one entry for one thing, for any number of writers,        *)
(* documents, versions and moves.                                          *)
(*                                                                         *)
(* The first rests on ids: the id and the version of a row identify its    *)
(* text for ever, so a write under the version its writer has read         *)
(* replaces the very text that was read (ReadOK).  The second rests on     *)
(* what a writer knows of the text it extends (Authored).                  *)
(***************************************************************************)
EXTENDS MarkdownMemory, SequenceTheorems, FiniteSetTheorems, TLAPS

(***************************************************************************)
(* The invariants                                                          *)
(***************************************************************************)

Words == Entries \cup {Seed}
Row ==
  [state : {"absent", "live", "deleted"}, id : Nat, version : Nat, text : Seq(Words)]
WriterRecord ==
  [at : {"idle", "reading", "writing", "inserting", "saving", "done"},
   kind : WriterKinds \cup {"none"}, entry : Words, path : Paths, base : Row,
   text : Seq(Words), expected : Nat \cup {NoVersion}, left : Nat]

\* The rows there are: what is not there is blank, what is has a version and an
\* id of its own, no larger than their number.
Present(d) == {p \in Paths : d[p].state # "absent"}
Rows(d) == Cardinality(Present(d))
RowsOK(d) ==
  /\ d \in [Paths -> Row]
  /\ IsFiniteSet(Present(d))
  /\ \A p \in Paths \ Present(d) : d[p] = NoDocument
  /\ \A p \in Present(d) : d[p].version >= 1 /\ d[p].id \in 1..Rows(d)
  /\ \A p, q \in Present(d) : d[p].id = d[q].id => p = q

\* A row that was read is in the table still, as it was, or has a later version.
Supersedes(new, row) ==
  new.version >= row.version /\ (new.version = row.version => new.text = row.text)
ReadOK(d, row) ==
  IF row.state = "absent" THEN row.id = 0
  ELSE /\ row.id \in 1..Rows(d)
       /\ \A p \in Present(d) : d[p].id = row.id => Supersedes(d[p], row)

\* A version that is sent along is that of the row which was read.
SentOK(v) ==
  v.expected \in {NoVersion, 0} \/ (v.base.state = "live" /\ v.expected = v.base.version)

\* A writer that is not at work knows nothing, only the legacy record is saved,
\* and what a writer adds is no default text, unless that is all it does.
WorksOK(v) ==
  /\ v.at \in {"idle", "done"} => v = NoWriter(v.at)
  /\ v.at = "saving" => v.kind = "remember"
  /\ v.kind \notin {"none", "seed"} => v.entry \in Entries

\* However often it is looked at, a text names a thing once; items are excepted.
Single(text) ==
  \A i, k \in DOMAIN text : text[i] = text[k] /\ text[i] \notin Items => i = k

WriterOK(d, v) ==
  v \in WriterRecord /\ ReadOK(d, v.base) /\ SentOK(v) /\ WorksOK(v) /\ Single(v.text)

TextsInv ==
  /\ RowsOK(docs) /\ \A p \in Paths : Single(docs[p].text)
  /\ legacy \in Seq(Words) /\ Single(legacy)
WritersInv ==
  writer \in [Writers -> WriterRecord] /\ \A w \in Writers : WriterOK(docs, writer[w])

\* A writer that adds an entry without looking for it is the only one who knows it.
Authors == {"feedback", "section", "put"}
Authored(w) ==
  LET e == writer[w].entry
  IN  writer[w].kind \in Authors =>
        /\ e \notin Marked \cup Items
        /\ \A p \in Paths : ~Holds(docs[p].text, e)
        /\ ~Holds(legacy, e)
        /\ \A u \in Writers \ {w} : writer[u].entry # e /\ ~Holds(writer[u].text, e)
AuthorsInv == \A w \in Writers : Authored(w)

KeptInv == Seed \notin acknowledged /\ AcknowledgedIsKept

MemoryInv == TextsInv /\ WritersInv /\ AuthorsInv /\ KeptInv

(***************************************************************************)
(* What the calls of the store do to the rows                              *)
(***************************************************************************)

\* Rows are replaced by later versions of themselves, and new ones have new ids.
Grows(d, e) ==
  /\ Rows(d) <= Rows(e)
  /\ \A q \in Present(e) :
       \/ \E p \in Present(d) : e[q].id = d[p].id /\ Supersedes(e[q], d[p])
       \/ e[q].id > Rows(d)

\* No text comes from elsewhere.
TextsFrom(d, e, text) ==
  \A q \in Paths :
    e[q].text = text \/ e[q].text = <<>> \/ \E p \in Paths : e[q].text = d[p].text

RecordedIn(d) == UNION {EntriesOf(d[p].text) : p \in LivePaths(d)}

LEMMA NoDocumentRow == NoDocument \in Row /\ EntriesOf(<<>>) = {}
<1>1. <<>> \in Seq(Words)
  BY EmptySeq
<1>2. DOMAIN <<>> = {}
  OBVIOUS
<1> QED BY <1>1, <1>2 DEF NoDocument, Row, EntriesOf

LEMMA RowCount ==
  ASSUME NEW d, RowsOK(d)
  PROVE  Rows(d) \in Nat
BY FS_CardinalityType DEF RowsOK, Rows

LEMMA ReadsKept ==
  ASSUME NEW d, NEW e, NEW row \in Row, RowsOK(d), RowsOK(e), Grows(d, e), ReadOK(d, row)
  PROVE  ReadOK(e, row)
<1>1. CASE row.state = "absent"
  BY <1>1 DEF ReadOK
<1>2. CASE row.state # "absent"
  <2>1. row.id \in 1..Rows(e)
    BY <1>2, RowCount DEF ReadOK, Grows
  <2>2. ASSUME NEW q \in Present(e), e[q].id = row.id
        PROVE  Supersedes(e[q], row)
    <3>1. ~(e[q].id > Rows(d))
      BY <1>2, <2>2, RowCount DEF ReadOK
    <3>2. PICK p \in Present(d) : e[q].id = d[p].id /\ Supersedes(e[q], d[p])
      BY <3>1 DEF Grows
    <3>3. Supersedes(d[p], row)
      BY <1>2, <2>2, <3>2 DEF ReadOK
    <3>4. e[q].version \in Nat /\ d[p].version \in Nat /\ row.version \in Nat
      BY DEF RowsOK, Present, Row
    <3> QED BY <3>2, <3>3, <3>4 DEF Supersedes
  <2> QED BY <1>2, <2>1, <2>2 DEF ReadOK
<1> QED BY <1>1, <1>2

\* A row that is read now is in the table as it was read.
LEMMA ReadsNow ==
  ASSUME NEW d, RowsOK(d), NEW p \in Paths
  PROVE  d[p] \in Row /\ ReadOK(d, d[p])
<1>1. d[p] \in Row /\ d[p].version \in Nat
  BY DEF RowsOK, Row
<1>2. CASE d[p].state = "absent"
  BY <1>1, <1>2 DEF RowsOK, Present, NoDocument, ReadOK
<1>3. CASE d[p].state # "absent"
  <2>1. p \in Present(d)
    BY <1>3 DEF Present
  <2> QED BY <1>1, <1>3, <2>1 DEF RowsOK, ReadOK, Supersedes
<1> QED BY <1>1, <1>2, <1>3

LEMMA LaterRow ==
  ASSUME NEW row \in Row, NEW text \in Seq(Words),
         NEW v, v = [row EXCEPT !.version = @ + 1, !.text = text]
  PROVE  /\ v \in Row /\ v.version = row.version + 1 /\ v.text = text
         /\ v.id = row.id /\ v.state = row.state
<1> DEFINE T == Seq(Words)
           n == row.version + 1
<1>1. n \in Nat
  BY DEF Row
<1>2. row \in [state : {"absent", "live", "deleted"}, id : Nat, version : Nat, text : T]
  BY DEF Row
<1>3. text \in T /\ v = [row EXCEPT !.version = n, !.text = text]
  OBVIOUS
<1>4. SUFFICES /\ v \in [state : {"absent", "live", "deleted"}, id : Nat, version : Nat, text : T]
               /\ v.version = n /\ v.text = text /\ v.id = row.id /\ v.state = row.state
  BY DEF Row
<1> HIDE DEF T, n
<1> QED BY <1>1, <1>2, <1>3

LEMMA UpdateRows ==
  ASSUME NEW d, RowsOK(d), NEW p \in Paths, NEW text \in Seq(Words), d[p].state = "live",
         NEW e, e = PgUpdate(d, p, text).docs
  PROVE  /\ RowsOK(e) /\ Grows(d, e) /\ TextsFrom(d, e, text)
         /\ e[p].state = "live" /\ e[p].text = text
         /\ RecordedIn(d) \subseteq RecordedIn(e) \cup EntriesOf(d[p].text)
<1>v. PICK v : v = [d[p] EXCEPT !.version = @ + 1, !.text = text]
  OBVIOUS
<1>1. d[p] \in Row /\ d \in [Paths -> Row]
  BY DEF RowsOK
<1>2. /\ v \in Row /\ v.version = d[p].version + 1 /\ v.text = text
      /\ v.id = d[p].id /\ v.state = d[p].state
  <2> DEFINE row == d[p]
  <2>1. row \in Row /\ v = [row EXCEPT !.version = @ + 1, !.text = text]
    BY <1>1, <1>v
  <2> HIDE DEF row
  <2>2. /\ v \in Row /\ v.version = row.version + 1 /\ v.text = text
        /\ v.id = row.id /\ v.state = row.state
    BY <2>1, LaterRow
  <2> QED BY <2>2 DEF row
<1>3. e = [d EXCEPT ![p] = v]
  <2> DEFINE u == [d[p] EXCEPT !.version = @ + 1]
             f == [d EXCEPT ![p] = u]
  <2>1. e = [f EXCEPT ![p] = [f[p] EXCEPT !.text = text]]
    BY DEF PgUpdate, Returns
  <2>2. v = [u EXCEPT !.text = text]
    BY <1>v
  <2>3. f[p] = u
    BY <1>1
  <2>4. e = [f EXCEPT ![p] = v]
    BY <2>1, <2>2, <2>3
  <2> HIDE DEF u
  <2> QED BY <1>1, <2>4
<1>4. e \in [Paths -> Row] /\ e[p] = v /\ \A q \in Paths \ {p} : e[q] = d[q]
  BY <1>1, <1>2, <1>3
<1>5. Present(e) = Present(d) /\ p \in Present(d) /\ Rows(e) = Rows(d)
  BY <1>2, <1>4 DEF Present, Rows
<1>6. \A q \in Present(e) : e[q].id = d[q].id /\ e[q].version >= d[q].version
  <2>1. \A q \in Present(e) : q \in Paths /\ d[q].version \in Nat
    BY <1>1 DEF Present, Row
  <2> QED BY <1>2, <1>4, <2>1
<1>7. RowsOK(e)
  <2>1. \A q \in Present(e) : e[q].version >= 1 /\ e[q].id \in 1..Rows(e)
    <3>1. \A q \in Present(e) : d[q].version >= 1 /\ d[q].id \in 1..Rows(d)
      BY <1>5 DEF RowsOK
    <3>2. \A q \in Present(e) : d[q].version \in Nat /\ e[q].version \in Nat
      BY <1>4, <1>1 DEF Present, Row
    <3> QED BY <1>5, <1>6, <3>1, <3>2
  <2>2. \A q \in Paths \ Present(e) : e[q] = NoDocument
    BY <1>4, <1>5 DEF RowsOK
  <2> QED BY <1>4, <1>5, <1>6, <2>1, <2>2 DEF RowsOK
<1>8. Grows(d, e)
  <2>1. \A q \in Present(e) : Supersedes(e[q], d[q])
    <3>1. d[p].version \in Nat /\ \A q \in Present(e) : q \in Paths
      BY <1>1 DEF Row, Present
    <3> QED BY <1>2, <1>4, <1>6, <3>1 DEF Supersedes
  <2>2. Rows(d) <= Rows(e)
    BY <1>5, RowCount
  <2> QED BY <1>5, <1>6, <2>1, <2>2 DEF Grows
<1>9. TextsFrom(d, e, text)
  BY <1>2, <1>4 DEF TextsFrom
<1>10. RecordedIn(d) \subseteq RecordedIn(e) \cup EntriesOf(d[p].text)
  BY <1>2, <1>4 DEF RecordedIn, LivePaths
<1> QED BY <1>2, <1>4, <1>7, <1>8, <1>9, <1>10

LEMMA InsertRows ==
  ASSUME NEW d, RowsOK(d), NEW p \in Paths, NEW text \in Seq(Words), d[p].state = "absent",
         NEW e, e = PgInsert(d, p, text, 1 + Rows(d)).docs
  PROVE  /\ RowsOK(e) /\ Grows(d, e) /\ TextsFrom(d, e, text)
         /\ e[p].state = "live" /\ e[p].text = text
         /\ RecordedIn(d) \subseteq RecordedIn(e)
<1> DEFINE n == Rows(d)
           v == [state |-> "live", id |-> 1 + n, version |-> 1, text |-> text]
<1>0. n \in Nat
  BY RowCount
<1>1. d \in [Paths -> Row] /\ v \in Row
  BY <1>0 DEF RowsOK, Row
<1>2. e = [d EXCEPT ![p] = v]
  BY DEF PgInsert, Returns
<1>v. v.state = "live" /\ v.id = 1 + n /\ v.version = 1 /\ v.text = text
  OBVIOUS
<1> HIDE DEF v
<1>3. e \in [Paths -> Row] /\ e[p] = v /\ \A q \in Paths \ {p} : e[q] = d[q]
  BY <1>1, <1>2
<1>4. Present(e) = Present(d) \cup {p} /\ p \notin Present(d)
  BY <1>v, <1>3 DEF Present
<1>5. IsFiniteSet(Present(e)) /\ Rows(e) = n + 1
  <2> DEFINE S == Present(d)
  <2>1. IsFiniteSet(S) /\ p \notin S
    BY <1>4 DEF RowsOK
  <2> HIDE DEF S
  <2>2. IsFiniteSet(S \cup {p}) /\ Cardinality(S \cup {p}) = Cardinality(S) + 1
    BY <2>1, FS_AddElement
  <2> QED BY <1>4, <2>2 DEF S, Rows
<1>6. \A q \in Present(d) : e[q] = d[q] /\ d[q].id \in 1..n /\ d[q].version >= 1
  BY <1>3, <1>4 DEF RowsOK, Present
<1>n. n = Rows(d)
  OBVIOUS
<1> HIDE DEF n
<1>7. RowsOK(e)
  <2>1. \A q \in Present(e) : e[q].version >= 1 /\ e[q].id \in 1..Rows(e)
    BY <1>0, <1>v, <1>3, <1>4, <1>5, <1>6
  <2>2. \A q \in Paths \ Present(e) : e[q] = NoDocument
    BY <1>3, <1>4 DEF RowsOK
  <2>3. \A q, r \in Present(e) : e[q].id = e[r].id => q = r
    <3>1. \A q \in Present(d) : e[q].id # e[p].id
      BY <1>0, <1>v, <1>3, <1>6
    <3>2. \A q, r \in Present(d) : e[q].id = e[r].id => q = r
      BY <1>6 DEF RowsOK
    <3> QED BY <1>4, <3>1, <3>2
  <2> QED BY <1>3, <1>5, <2>1, <2>2, <2>3 DEF RowsOK
<1>8. Grows(d, e)
  <2>1. e[p].id > Rows(d) /\ Rows(d) <= Rows(e)
    BY <1>0, <1>v, <1>3, <1>5, <1>n
  <2>2. \A q \in Present(d) : e[q].id = d[q].id /\ Supersedes(e[q], d[q])
    <3>1. \A q \in Present(d) : d[q].version \in Nat
      BY <1>1 DEF Present, Row
    <3>2. \A q \in Present(d) : Supersedes(d[q], d[q])
      BY <3>1 DEF Supersedes
    <3> QED BY <1>6, <3>2
  <2> QED BY <1>4, <2>1, <2>2 DEF Grows
<1>9. TextsFrom(d, e, text)
  BY <1>v, <1>3 DEF TextsFrom
<1>10. RecordedIn(d) \subseteq RecordedIn(e)
  BY <1>v, <1>3 DEF RecordedIn, LivePaths
<1> QED BY <1>v, <1>3, <1>7, <1>8, <1>9, <1>10

LEMMA DeleteRows ==
  ASSUME NEW d, RowsOK(d), NEW p \in Paths, d[p].state = "live",
         NEW e, e = [d EXCEPT ![p].state = "deleted"]
  PROVE  /\ RowsOK(e) /\ Grows(d, e) /\ TextsFrom(d, e, <<>>)
         /\ RecordedIn(d) \subseteq RecordedIn(e) \cup EntriesOf(d[p].text)
<1> DEFINE v == [d[p] EXCEPT !.state = "deleted"]
<1>1. d[p] \in Row /\ d \in [Paths -> Row]
  BY DEF RowsOK
<1>2. /\ v \in Row /\ v.version = d[p].version /\ v.text = d[p].text
      /\ v.id = d[p].id /\ v.state = "deleted"
  BY <1>1 DEF Row
<1>3. e = [d EXCEPT ![p] = v]
  BY <1>1
<1> HIDE DEF v
<1>4. e \in [Paths -> Row] /\ e[p] = v /\ \A q \in Paths \ {p} : e[q] = d[q]
  BY <1>1, <1>2, <1>3
<1>5. Present(e) = Present(d) /\ p \in Present(d) /\ Rows(e) = Rows(d)
  BY <1>2, <1>4 DEF Present, Rows
<1>6. \A q \in Present(e) :
        /\ q \in Paths /\ d[q].version \in Nat
        /\ e[q].id = d[q].id /\ e[q].version = d[q].version /\ e[q].text = d[q].text
  BY <1>1, <1>2, <1>4 DEF Present, Row
<1>7. RowsOK(e)
  <2>2. \A q \in Paths \ Present(e) : e[q] = NoDocument
    BY <1>4, <1>5 DEF RowsOK
  <2>3. \A q \in Present(e) : e[q].version >= 1 /\ e[q].id \in 1..Rows(e)
    BY <1>5, <1>6 DEF RowsOK
  <2>4. \A q, r \in Present(e) : e[q].id = e[r].id => q = r
    BY <1>5, <1>6 DEF RowsOK
  <2> QED BY <1>4, <1>5, <2>2, <2>3, <2>4 DEF RowsOK
<1>8. Grows(d, e)
  <2>1. \A q \in Present(e) : Supersedes(e[q], d[q])
    BY <1>6 DEF Supersedes
  <2>2. Rows(d) <= Rows(e)
    BY <1>5, RowCount
  <2> QED BY <1>5, <1>6, <2>1, <2>2 DEF Grows
<1>9. TextsFrom(d, e, <<>>)
  BY <1>2, <1>4 DEF TextsFrom
<1>10. RecordedIn(d) \subseteq RecordedIn(e) \cup EntriesOf(d[p].text)
  BY <1>2, <1>4 DEF RecordedIn, LivePaths
<1> QED BY <1>7, <1>8, <1>9, <1>10

\* What is below a path is recovered from its new name.
LEMMA RenamedApart ==
  ASSUME NEW from \in Paths, NEW to \in Paths, NEW p \in Paths, NEW q \in Paths,
         Below(from, p), Below(from, q), Renamed(from, to, p) = Renamed(from, to, q)
  PROVE  p = q
<1> DEFINE n == Len(from)
           Rest(r) == SubSeq(r, n + 1, Len(r))
<1>1. from \in Seq(Nat) /\ to \in Seq(Nat) /\ p \in Seq(Nat) /\ q \in Seq(Nat) /\ n \in Nat
  BY PathAssumption, LenProperties
<1>2. ASSUME NEW r \in Paths, Below(from, r)
      PROVE  Rest(r) \in Seq(Nat) /\ from \o Rest(r) = r
  <2>1. r \in Seq(Nat) /\ Len(r) \in Nat /\ n <= Len(r) /\ \A i \in 1..Len(r) : r[i] \in Nat
    BY <1>1, <1>2, PathAssumption, LenProperties, ElementOfSeq DEF Below
  <2>2. \A i \in (n + 1)..Len(r) : r[i] \in Nat
    BY <1>1, <2>1
  <2>3. Rest(r) \in Seq(Nat)
    BY <1>1, <2>1, <2>2, SubSeqProperties
  <2>4. SubSeq(r, 1, n) \o SubSeq(r, n + 1, Len(r)) = SubSeq(r, 1, Len(r))
    <3> DEFINE l == Len(r)
    <3>1. 1 \in 1..(l + 1) /\ n \in (1 - 1)..l /\ l \in n..l
      BY <1>1, <2>1
    <3> HIDE DEF n
    <3>2. SubSeq(r, 1, n) \o SubSeq(r, n + 1, l) = SubSeq(r, 1, l)
      BY <2>1, <3>1, ConcatAdjacentSubSeq
    <3> QED BY <3>2
  <2>5. SubSeq(r, 1, n) = from /\ SubSeq(r, 1, Len(r)) = r
    BY <1>2, <2>1, SubSeqFull DEF Below
  <2> QED BY <2>3, <2>4, <2>5
<1>3. to \o Rest(p) = to \o Rest(q)
  BY DEF Renamed
<1>4. Rest(p) \in Seq(Nat) /\ Rest(q) \in Seq(Nat) /\ from \o Rest(p) = p /\ from \o Rest(q) = q
  BY <1>2
<1> HIDE DEF Rest
<1>5. Rest(p) = Rest(q)
  BY <1>1, <1>3, <1>4, ConcatSimplifications
<1> QED BY <1>4, <1>5

LEMMA MoveRows ==
  ASSUME NEW d, RowsOK(d), NEW from \in Paths, NEW to \in Paths,
         \A p \in MovedRows(d, from) : Renamed(from, to, p) \in Paths,
         PgMove(d, from, to, NoVersion).outcome = "written",
         NEW e, e = PgMove(d, from, to, NoVersion).docs
  PROVE  /\ RowsOK(e) /\ Grows(d, e) /\ TextsFrom(d, e, <<>>)
         /\ RecordedIn(d) \subseteq RecordedIn(e)
<1> DEFINE R == MovedRows(d, from)
           t(p) == Renamed(from, to, p)
<1>1. d \in [Paths -> Row] /\ R \subseteq LivePaths(d) /\ R \subseteq Present(d)
  BY DEF RowsOK, MovedRows, LivePaths, Present
<1>2. /\ \A p \in R : d[t(p)].state = "absent" \/ t(p) = p \/ t(p) \in R
      /\ e = [q \in Paths |->
                IF \E p \in R : t(p) = q THEN MovedRow(d[CHOOSE p \in R : t(p) = q])
                ELSE IF q \in R THEN NoDocument
                ELSE d[q]]
  BY Zenon DEF PgMove, Returns, StaleVersion
<1>3. \A p, q \in R : t(p) = t(q) => p = q
  BY RenamedApart DEF MovedRows, LivePaths
<1>4. \A p \in R : p \in Paths /\ t(p) \in Paths
  BY DEF MovedRows, LivePaths
<1> HIDE DEF R, t
<1>5. \A p \in R : e[t(p)] = MovedRow(d[p])
  BY <1>2, <1>3, <1>4
<1>6. \A q \in Paths : ~(\E p \in R : t(p) = q) => e[q] = IF q \in R THEN NoDocument ELSE d[q]
  BY <1>2
<1>7. \A q \in Present(d) \ R : \A p \in R : t(p) # q
  BY <1>1, <1>2 DEF Present
<1>8. \A p \in R :
        /\ MovedRow(d[p]) \in Row /\ MovedRow(d[p]).version = d[p].version + 1
        /\ MovedRow(d[p]).text = d[p].text /\ MovedRow(d[p]).id = d[p].id
        /\ MovedRow(d[p]).state = "live"
  <2> SUFFICES ASSUME NEW p \in R
               PROVE  /\ MovedRow(d[p]) \in Row /\ MovedRow(d[p]).version = d[p].version + 1
                      /\ MovedRow(d[p]).text = d[p].text /\ MovedRow(d[p]).id = d[p].id
                      /\ MovedRow(d[p]).state = "live"
    OBVIOUS
  <2>1. d[p] \in Row /\ d[p].state = "live"
    BY <1>1, <1>4 DEF LivePaths
  <2> QED BY <2>1 DEF MovedRow, Row
<1> DEFINE f == [p \in Present(d) |-> IF p \in R THEN t(p) ELSE p]
<1>9. \A p \in Present(d) :
        /\ f[p] \in Present(e) /\ e[f[p]] \in Row
        /\ e[f[p]].id = d[p].id /\ e[f[p]].text = d[p].text /\ e[f[p]].state = d[p].state
        /\ e[f[p]].version \in {d[p].version, d[p].version + 1}
  <2> SUFFICES ASSUME NEW p \in Present(d)
               PROVE  /\ f[p] \in Present(e) /\ e[f[p]] \in Row
                      /\ e[f[p]].id = d[p].id /\ e[f[p]].text = d[p].text
                      /\ e[f[p]].state = d[p].state
                      /\ e[f[p]].version \in {d[p].version, d[p].version + 1}
    OBVIOUS
  <2>1. CASE p \in R
    BY <1>1, <1>4, <1>5, <1>8, <2>1 DEF Present, LivePaths
  <2>2. CASE p \notin R
    BY <1>1, <1>6, <1>7, <2>2 DEF Present
  <2> QED BY <2>1, <2>2
<1>10. \A q \in Present(e) : \E p \in Present(d) : f[p] = q
  <2> SUFFICES ASSUME NEW q \in Present(e)
               PROVE  \E p \in Present(d) : f[p] = q
    OBVIOUS
  <2>1. CASE \E p \in R : t(p) = q
    BY <1>1, <2>1
  <2>2. CASE ~(\E p \in R : t(p) = q)
    <3>1. q \in Paths /\ e[q].state # "absent" /\ NoDocument.state = "absent"
      BY DEF Present, NoDocument
    <3>2. q \notin R /\ q \in Present(d)
      BY <1>6, <2>2, <3>1 DEF Present
    <3> QED BY <3>2
  <2> QED BY <2>1, <2>2
<1>11. \A p, q \in Present(d) : f[p] = f[q] => p = q
  BY <1>3, <1>7
<1>12. IsFiniteSet(Present(e)) /\ Rows(e) = Rows(d)
  <2> DEFINE S == Present(d)
             T == Present(e)
  <2>1. IsFiniteSet(S) /\ f \in [S -> T]
    BY <1>9 DEF RowsOK
  <2>2. /\ \A p, q \in S : f[p] = f[q] => p = q
        /\ \A q \in T : \E p \in S : f[p] = q
    BY <1>10, <1>11
  <2>3. SUFFICES IsFiniteSet(T) /\ Cardinality(T) = Cardinality(S)
    BY DEF Rows
  <2> HIDE DEF S, T, f
  <2>4. f \in Bijection(S, T)
    BY <2>1, <2>2 DEF Bijection, Injection, Surjection, IsInjective
  <2>5. ExistsBijection(S, T)
    BY <2>4 DEF ExistsBijection
  <2> QED BY <2>1, <2>5, FS_Bijection
<1> HIDE DEF f
<1>13. e \in [Paths -> Row] /\ \A q \in Paths \ Present(e) : e[q] = NoDocument
  <2>1. DOMAIN e = Paths /\ e = [q \in Paths |-> e[q]]
    BY <1>2
  <2>2. \A q \in Present(e) : e[q] \in Row
    BY <1>9, <1>10
  <2>3. ASSUME NEW q \in Paths \ Present(e)
        PROVE  e[q] = NoDocument
    <3>1. ~(\E p \in R : t(p) = q)
      BY <1>5, <1>8, <2>3 DEF Present
    <3>2. q \notin R => d[q] = NoDocument
      <4>1. q \notin R => e[q] = d[q]
        BY <1>6, <3>1
      <4>2. e[q].state = "absent"
        BY DEF Present
      <4> QED BY <4>1, <4>2 DEF RowsOK, Present
    <3> QED BY <1>6, <3>1, <3>2
  <2> QED BY <2>1, <2>2, <2>3, NoDocumentRow
<1>14. \A p \in Present(d) : d[p].version \in Nat /\ d[p].version >= 1 /\ d[p].id \in 1..Rows(d)
  BY <1>1 DEF RowsOK, Present, Row
<1>15. RowsOK(e)
  <2>1. \A q \in Present(e) : e[q].version >= 1 /\ e[q].id \in 1..Rows(e)
    BY <1>9, <1>10, <1>12, <1>14
  <2>2. \A q, r \in Present(e) : e[q].id = e[r].id => q = r
    <3>1. \A p, q \in Present(d) : d[p].id = d[q].id => p = q
      BY DEF RowsOK
    <3> QED BY <1>9, <1>10, <3>1
  <2> QED BY <1>12, <1>13, <2>1, <2>2 DEF RowsOK
<1>16. Grows(d, e)
  <2>1. \A p \in Present(d) : Supersedes(e[f[p]], d[p])
    BY <1>9, <1>14 DEF Supersedes
  <2>2. Rows(d) <= Rows(e)
    BY <1>12, RowCount
  <2> QED BY <1>9, <1>10, <2>1, <2>2 DEF Grows
<1>17. TextsFrom(d, e, <<>>)
  <2>1. \A q \in Present(e) : \E p \in Paths : e[q].text = d[p].text
    BY <1>9, <1>10 DEF Present
  <2>2. \A q \in Paths \ Present(e) : e[q].text = <<>>
    BY <1>13 DEF NoDocument
  <2> QED BY <2>1, <2>2 DEF TextsFrom
<1>18. RecordedIn(d) \subseteq RecordedIn(e)
  <2>1. \A p \in LivePaths(d) :
          f[p] \in LivePaths(e) /\ EntriesOf(e[f[p]].text) = EntriesOf(d[p].text)
    BY <1>9 DEF LivePaths, Present
  <2> QED BY <2>1 DEF RecordedIn
<1> QED BY <1>15, <1>16, <1>17, <1>18

(***************************************************************************)
(* Texts                                                                   *)
(***************************************************************************)

LEMMA EntriesOfSeq ==
  ASSUME NEW text \in Seq(Words)
  PROVE  EntriesOf(text) \subseteq Words
BY ElementOfSeq, LenProperties DEF EntriesOf

LEMMA EmptySingle == Single(<<>>) /\ Single(<<Seed>>) /\ EntriesOf(<<Seed>>) = {Seed}
  /\ <<>> \in Seq(Words) /\ <<Seed>> \in Seq(Words)
<1>1. <<>> \in Seq(Words) /\ DOMAIN <<>> = {}
  BY EmptySeq
<1>2. <<Seed>> \in Seq(Words) /\ DOMAIN <<Seed>> = {1} /\ <<Seed>>[1] = Seed
  BY DEF Words
<1> QED BY <1>1, <1>2 DEF Single, EntriesOf

LEMMA OrSeedText ==
  ASSUME NEW text \in Seq(Words), Single(text)
  PROVE  /\ OrSeed(text) \in Seq(Words) /\ Single(OrSeed(text))
         /\ EntriesOf(OrSeed(text)) \subseteq EntriesOf(text) \cup {Seed}
BY EmptySingle DEF OrSeed

LEMMA AppendText ==
  ASSUME NEW text \in Seq(Words), Single(text), NEW e \in Words,
         e \in Items \/ ~Holds(text, e)
  PROVE  /\ Append(text, e) \in Seq(Words) /\ Single(Append(text, e))
         /\ EntriesOf(Append(text, e)) \subseteq EntriesOf(text) \cup {e}
<1> DEFINE n == Len(text)
           new == Append(text, e)
<1>1. n \in Nat /\ DOMAIN text = 1..n
  BY LenProperties
<1>2. new \in Seq(Words) /\ Len(new) = n + 1
  BY AppendProperties
<1>3. (\A i \in 1..n : new[i] = text[i]) /\ new[n + 1] = e
  BY AppendProperties
<1>4. DOMAIN new = 1..(n + 1)
  BY <1>2, LenProperties
<1>5. \A i \in 1..(n + 1) : i \in 1..n \/ i = n + 1
  BY <1>1
<1>6. e \in Items \/ \A i \in 1..n : text[i] # e
  BY <1>1 DEF Holds, EntriesOf
<1>7. \A i, k \in 1..n : text[i] = text[k] /\ text[i] \notin Items => i = k
  BY <1>1 DEF Single
<1> HIDE DEF new, n
<1>8. Single(new)
  BY <1>3, <1>4, <1>5, <1>6, <1>7 DEF Single
<1>9. EntriesOf(new) \subseteq EntriesOf(text) \cup {e}
  BY <1>1, <1>3, <1>4, <1>5 DEF EntriesOf
<1> QED BY <1>2, <1>8, <1>9 DEF new

LEMMA ReplaceText ==
  ASSUME NEW text \in Seq(Words), Single(text), NEW e \in Words,
         e \in Items \/ ~Holds(text, e), NEW i
  PROVE  /\ [text EXCEPT ![i] = e] \in Seq(Words) /\ Single([text EXCEPT ![i] = e])
         /\ EntriesOf([text EXCEPT ![i] = e]) \subseteq EntriesOf(text) \cup {e}
<1> DEFINE n == Len(text)
           new == [text EXCEPT ![i] = e]
<1>1. n \in Nat /\ DOMAIN text = 1..n /\ text \in [1..n -> Words]
  BY LenProperties
<1>2. new \in Seq(Words)
  <2>1. CASE i \in 1..n
    BY <2>1, ExceptSeq
  <2>2. CASE i \notin 1..n
    BY <1>1, <2>2
  <2> QED BY <2>1, <2>2
<1>3. DOMAIN new = 1..n /\ \A k \in 1..n : new[k] = IF k = i THEN e ELSE text[k]
  BY <1>1
<1>4. e \in Items \/ \A k \in 1..n : text[k] # e
  BY <1>1 DEF Holds, EntriesOf
<1>5. \A k, l \in 1..n : text[k] = text[l] /\ text[k] \notin Items => k = l
  BY <1>1 DEF Single
<1> HIDE DEF new, n
<1>6. Single(new)
  BY <1>3, <1>4, <1>5 DEF Single
<1>7. EntriesOf(new) \subseteq EntriesOf(text) \cup {e}
  BY <1>1, <1>3 DEF EntriesOf
<1> QED BY <1>2, <1>6, <1>7 DEF new

\* What a writer has read of a document.
LEMMA TextReadOK ==
  ASSUME NEW d, RowsOK(d), NEW p \in Paths, Single(d[p].text)
  PROVE  /\ TextRead(d[p]) \in Seq(Words) /\ Single(TextRead(d[p]))
         /\ EntriesOf(TextRead(d[p])) \subseteq EntriesOf(d[p].text)
         /\ TextRead(d[p]) # <<>> => d[p].state = "live" /\ TextRead(d[p]) = d[p].text
<1>1. d[p].text \in Seq(Words)
  BY DEF RowsOK, Row
<1> QED BY <1>1, EmptySingle, NoDocumentRow DEF TextRead

(***************************************************************************)
(* What a step does to its writer                                          *)
(***************************************************************************)

Finished == NoWriter("done")

\* What a writer may have learned.
KnownTo(w) ==
  EntriesOf(writer[w].text) \cup (UNION {EntriesOf(docs[p].text) : p \in Paths})
    \cup EntriesOf(legacy) \cup {writer[w].entry} \cup Items \cup {Seed}

Continues(w, v) ==
  /\ v.kind = writer[w].kind /\ v.entry = writer[w].entry
  /\ EntriesOf(v.text) \subseteq KnownTo(w)
Starts(w, v) ==
  /\ writer[w].at = "idle" /\ v.text = <<>>
  /\ Fresh(v.entry) \/ (v.kind \notin Authors /\ v.entry \in Marked \cup Items \cup {Seed})

WriterMoves(w) ==
  \E v : /\ writer' = [writer EXCEPT ![w] = v] /\ WriterOK(docs, v)
         /\ v = Finished \/ Continues(w, v) \/ Starts(w, v)

LEMMA WordsAre ==
  /\ Seed \in Words /\ Entries \subseteq Words /\ Items \subseteq Words /\ Marked \subseteq Words
  /\ Seed \notin Entries /\ Items \subseteq Entries /\ Marked \subseteq Entries
  /\ LegacyPath \in Paths /\ ListPath \in Paths
BY MemoryAssumption DEF Words

\* Reads that found nothing.
LEMMA NothingRead ==
  ASSUME NEW at \in {"idle", "reading", "done"}
  PROVE  /\ NoWriter(at) \in WriterRecord /\ WriterOK(docs, NoWriter(at))
         /\ NoWriter(at).text = <<>> /\ NoWriter(at).entry = Seed /\ NoWriter(at).kind = "none"
         /\ NoWriter(at).at = at
<1> DEFINE T == Seq(Words)
<1>1. NoDocument \in Row /\ NoDocument.state = "absent" /\ NoDocument.id = 0
  BY NoDocumentRow DEF NoDocument
<1>2. <<>> \in T /\ Single(<<>>)
  BY EmptySingle
<1>3. /\ NoWriter(at).base = NoDocument /\ NoWriter(at).text = <<>>
      /\ NoWriter(at).expected = NoVersion /\ NoWriter(at).kind = "none"
      /\ NoWriter(at).at = at /\ NoWriter(at).entry = Seed
  BY DEF NoWriter
<1> HIDE DEF T
<1>4. NoWriter(at) \in WriterRecord
  BY <1>1, <1>2, WordsAre DEF NoWriter, WriterRecord, T
<1>5. ReadOK(docs, NoWriter(at).base) /\ SentOK(NoWriter(at)) /\ WorksOK(NoWriter(at))
  BY <1>1, <1>3 DEF ReadOK, SentOK, WorksOK
<1> QED BY <1>2, <1>3, <1>4, <1>5 DEF WriterOK

LEMMA Finishes ==
  ASSUME NEW w \in Writers, Finish(w)
  PROVE  WriterMoves(w)
BY NothingRead DEF Finish, WriterMoves, Finished

LEMMA StartMoves ==
  ASSUME WritersInv, NEW w \in Writers, NEW kind \in WriterKinds, NEW p \in Paths, NEW e \in Words,
         Start(w, kind, p, e), kind # "seed" => e \in Entries,
         Fresh(e) \/ (kind \notin Authors /\ e \in Marked \cup Items \cup {Seed})
  PROVE  WriterMoves(w)
<1> DEFINE T == Seq(Words)
           n == Tries(kind)
<1>1. PICK u : u = NoWriter("reading")
  OBVIOUS
<1>2. /\ u \in WriterRecord /\ WriterOK(docs, u) /\ u.text = <<>> /\ u.at = "reading"
  BY <1>1, NothingRead
<1>3. PICK v : v = [u EXCEPT !.kind = kind, !.path = p, !.entry = e, !.left = n]
  OBVIOUS
<1>4. writer' = [writer EXCEPT ![w] = v] /\ writer[w].at = "idle"
  BY <1>1, <1>3 DEF Start
<1>5. n \in Nat
  BY DEF Tries
<1>6. u.expected = NoVersion
  BY <1>1 DEF NoWriter
<1> HIDE DEF T, n
<1>7. /\ v \in WriterRecord /\ v.text = <<>> /\ v.at = "reading" /\ v.kind = kind /\ v.entry = e
      /\ v.base = u.base /\ v.expected = NoVersion
  BY <1>2, <1>3, <1>5, <1>6 DEF WriterRecord, T
<1>8. WriterOK(docs, v)
  BY <1>2, <1>7, EmptySingle DEF WriterOK, SentOK, WorksOK
<1> QED BY <1>4, <1>7, <1>8 DEF WriterMoves, Starts

LEMMA StartWriterMoves ==
  ASSUME WritersInv, NEW w \in Writers, StartWriter(w)
  PROVE  WriterMoves(w)
<1> USE WordsAre
<1>1. CASE RecordOwnerFeedback(w)
  BY <1>1, StartMoves DEF RecordOwnerFeedback, WriterKinds
<1>2. CASE \E p \in Paths, e \in Marked : Start(w, "once", p, e)
  BY <1>2, StartMoves DEF WriterKinds, Authors
<1>3. CASE \E p \in Paths, e \in Marked : Start(w, "insist", p, e)
  BY <1>3, StartMoves DEF WriterKinds, Authors
<1>4. CASE AppendDecisionEntry(w)
  <2>1. PICK call \in ToolCalls, p \in Paths :
               Meaningful(call) /\ Start(w, "once", p, DecisionMarker(call))
    BY <1>4, Zenon DEF AppendDecisionEntry
  <2>2. DecisionMarker(call) \in Marked
    BY <2>1, MarkerAssumption
  <2> HIDE DEF DecisionMarker
  <2> QED BY <2>1, <2>2, <1>2
<1>5. CASE AddMemoryListItem(w)
  BY <1>5, StartMoves DEF AddMemoryListItem, WriterKinds, Authors
<1>6. CASE AmendMemoryListItem(w)
  BY <1>6, StartMoves DEF AmendMemoryListItem, WriterKinds, Authors
<1>7. CASE UpsertSchedulerMemory(w)
  BY <1>7, StartMoves DEF UpsertSchedulerMemory, WriterKinds, Authors
<1>8. CASE ReplaceOrAppendSection(w)
  BY <1>8, StartMoves DEF ReplaceOrAppendSection, WriterKinds
<1>9. CASE WriteFile(w)
  BY <1>9, StartMoves DEF WriteFile, WriterKinds
<1>10. CASE WriteMemory(w)
  BY <1>10, StartMoves DEF WriteMemory, WriterKinds
<1>11. CASE \E e \in Marked : Start(w, "remember", LegacyPath, e)
  BY <1>11, StartMoves DEF WriterKinds, Authors
<1> QED
  BY <1>1, <1>2, <1>3, <1>4, <1>5, <1>6, <1>7, <1>8, <1>9, <1>10, <1>11
  DEF StartWriter, RecordTaskOutcomeMemory, RecordScheduledTaskDecision,
      AppendNewsletterPreference, PersistNewsletterInterestReaction, AppendPersonalMemory,
      IntegrateTrustedMessage

\* A writer that has read a document and is going to write a text.
LEMMA PrepareMoves ==
  ASSUME TextsInv, WritersInv, NEW w \in Writers, writer[w].at = "reading",
         NEW text \in Seq(Words), Single(text), NEW expected \in Nat \cup {NoVersion},
         LET row == docs[writer[w].path]
         IN  /\ Prepare(w, row, text, expected)
             /\ EntriesOf(text) \subseteq
                  EntriesOf(row.text) \cup {writer[w].entry} \cup Items \cup {Seed}
             /\ expected \in {NoVersion, 0} \/ (row.state = "live" /\ expected = row.version)
  PROVE  WriterMoves(w)
<1> DEFINE T == Seq(Words)
           u == writer[w]
           row == docs[writer[w].path]
           V == Nat \cup {NoVersion}
<1>1. u \in WriterRecord /\ WorksOK(u) /\ u.path \in Paths /\ u.at = "reading"
  BY DEF WritersInv, WriterOK, WriterRecord
<1>2. row \in Row /\ ReadOK(docs, row)
  BY <1>1, ReadsNow DEF TextsInv
<1>3. PICK v : v = [u EXCEPT !.at = "writing", !.base = row, !.text = text,
                             !.expected = expected]
  OBVIOUS
<1>4. writer' = [writer EXCEPT ![w] = v]
  BY <1>3 DEF Prepare
<1>5. text \in T /\ expected \in V
  OBVIOUS
<1>6. EntriesOf(text) \subseteq KnownTo(w)
  <2> DEFINE all == UNION {EntriesOf(docs[p].text) : p \in Paths}
             own == EntriesOf(writer[w].text)
             old == EntriesOf(legacy)
             new == EntriesOf(text)
             now == EntriesOf(row.text)
  <2>1. now \subseteq all
    BY <1>1
  <2>2. new \subseteq now \cup {writer[w].entry} \cup Items \cup {Seed}
    OBVIOUS
  <2>3. SUFFICES new \subseteq own \cup all \cup old \cup {writer[w].entry} \cup Items \cup {Seed}
    BY DEF KnownTo
  <2> HIDE DEF all, own, old, new, now
  <2> QED BY <2>1, <2>2
<1>7. expected \in {NoVersion, 0} \/ (row.state = "live" /\ expected = row.version)
  OBVIOUS
<1>8. SUFFICES WriterOK(docs, v) /\ Continues(w, v)
  BY <1>4 DEF WriterMoves
<1>k. u.kind = writer[w].kind /\ u.entry = writer[w].entry
  OBVIOUS
<1> HIDE DEF T, V, u, row
<1>9. /\ v \in WriterRecord /\ v.at = "writing" /\ v.base = row /\ v.text = text
      /\ v.expected = expected /\ v.kind = u.kind /\ v.entry = u.entry
  BY <1>1, <1>2, <1>3, <1>5 DEF WriterRecord, T, V
<1>10. WorksOK(v)
  BY <1>1, <1>9 DEF WorksOK
<1> QED BY <1>2, <1>6, <1>7, <1>9, <1>10, <1>k DEF WriterOK, SentOK, Continues

LEMMA ReadMoves ==
  ASSUME TextsInv, WritersInv, AuthorsInv, NEW w \in Writers, ReadDocument(w)
  PROVE  WriterMoves(w)
<1> DEFINE row == docs[writer[w].path]
           e == writer[w].entry
           read == TextRead(row)
<1>1. /\ writer[w].at = "reading" /\ writer[w].path \in Paths /\ e \in Words
      /\ writer[w].kind \notin {"none", "seed"} => e \in Entries
  BY DEF ReadDocument, WritersInv, WriterOK, WorksOK, WriterRecord
<1>2. /\ read \in Seq(Words) /\ Single(read) /\ EntriesOf(read) \subseteq EntriesOf(row.text)
      /\ read # <<>> => row.state = "live" /\ read = row.text
  BY <1>1, TextReadOK DEF TextsInv
<1>3. row \in Row /\ row.version \in Nat
  BY <1>1 DEF TextsInv, RowsOK, Row
<1>4. writer[w].kind \in Authors => ~Holds(read, e)
  BY <1>1, <1>2 DEF AuthorsInv, Authored, Holds
<1>5. ASSUME NEW text \in Seq(Words), Single(text), NEW expected,
             Prepare(w, row, text, expected),
             EntriesOf(text) \subseteq EntriesOf(read) \cup {e} \cup Items \cup {Seed},
             expected \in {NoVersion, 0} \/ (row.state = "live" /\ expected = row.version)
      PROVE  WriterMoves(w)
  <2>1. EntriesOf(text) \subseteq EntriesOf(row.text) \cup {e} \cup Items \cup {Seed}
    BY <1>2, <1>5
  <2>2. expected \in Nat \cup {NoVersion}
    BY <1>3, <1>5
  <2> QED BY <1>1, <1>5, <2>1, <2>2, PrepareMoves
<1>6. VersionRead(row) = NoVersion \/ (row.state = "live" /\ VersionRead(row) = row.version)
  BY DEF VersionRead
<1>k. /\ row = docs[writer[w].path] /\ e = writer[w].entry /\ read = TextRead(row)
  OBVIOUS
<1> HIDE DEF row, e, read
<1>7. CASE writer[w].kind \in {"feedback", "once", "insist"} /\ AppendRead(w, row)
  <2>1. CASE writer[w].kind \in {"once", "insist"} /\ Holds(read, e)
    BY <1>7, <1>k, <2>1, Finishes DEF AppendRead
  <2>2. CASE ~(writer[w].kind \in {"once", "insist"} /\ Holds(read, e))
    <3> DEFINE base == OrSeed(read)
               text == Append(base, e)
    <3>1. Prepare(w, row, text, VersionRead(row))
      BY <1>7, <1>k, <2>2 DEF AppendRead
    <3>2. ~Holds(read, e)
      BY <1>4, <1>7, <2>2 DEF Authors
    <3>3. /\ base \in Seq(Words) /\ Single(base)
          /\ EntriesOf(base) \subseteq EntriesOf(read) \cup {Seed}
      BY <1>2, OrSeedText
    <3>4. e # Seed
      BY <1>1, <1>7, WordsAre
    <3>5. ~Holds(base, e)
      BY <3>2, <3>3, <3>4 DEF Holds
    <3> HIDE DEF base
    <3>6. /\ text \in Seq(Words) /\ Single(text)
          /\ EntriesOf(text) \subseteq EntriesOf(base) \cup {e}
      BY <1>1, <3>3, <3>5, AppendText
    <3>7. EntriesOf(text) \subseteq EntriesOf(read) \cup {e} \cup Items \cup {Seed}
      BY <3>3, <3>6
    <3> HIDE DEF text
    <3> QED BY <1>5, <1>6, <3>1, <3>6, <3>7
  <2> QED BY <2>1, <2>2
<1>8. CASE writer[w].kind = "seed" /\ SeedRead(w, row)
  <2>1. CASE row.state = "live"
    BY <1>8, <2>1, Finishes DEF SeedRead
  <2>2. CASE row.state # "live"
    <3>1. Prepare(w, row, <<Seed>>, NoVersion)
      BY <1>8, <2>2 DEF SeedRead
    <3> QED BY <1>5, <3>1, EmptySingle
  <2> QED BY <2>1, <2>2
<1>9. CASE AmendRead(w, row)
  <2> DEFINE found == {i \in DOMAIN read : row.text[i] = e}
             first == CHOOSE i \in found : \A k \in found : i <= k
  <2>1. CASE found = {}
    BY <1>9, <1>k, <2>1, Finishes DEF AmendRead
  <2>2. CASE found # {}
    <3>1. PICK item \in Items : Prepare(w, row, [row.text EXCEPT ![first] = item], row.version)
      BY <1>9, <1>k, <2>2, Zenon DEF AmendRead
    <3>2. read # <<>>
      BY <2>2, EmptySeq, EmptySingle, NoDocumentRow DEF EntriesOf
    <3>3. row.state = "live" /\ read = row.text
      BY <1>2, <3>2
    <3> DEFINE text == [read EXCEPT ![first] = item]
    <3> HIDE DEF first
    <3>4. item \in Words
      BY WordsAre
    <3>5. /\ text \in Seq(Words) /\ Single(text)
          /\ EntriesOf(text) \subseteq EntriesOf(read) \cup {item}
      BY <1>2, <3>4, ReplaceText
    <3>6. Prepare(w, row, text, row.version)
      BY <3>1, <3>3
    <3> HIDE DEF text
    <3>7. EntriesOf(text) \subseteq EntriesOf(read) \cup {e} \cup Items \cup {Seed}
      BY <3>5
    <3> QED BY <1>5, <3>3, <3>5, <3>6, <3>7
  <2> QED BY <2>1, <2>2
<1>10. CASE writer[w].kind = "section" /\ SectionRead(w, row)
  <2>1. CASE read = <<>>
    BY <1>10, <1>k, <2>1, Finishes DEF SectionRead
  <2>2. CASE read # <<>>
    <3>1. row.state = "live" /\ read = row.text
      BY <1>2, <2>2
    <3>2. ~Holds(read, e)
      BY <1>4, <1>10 DEF Authors
    <3>3. PICK text \in {Append(read, e), [read EXCEPT ![Len(read)] = e]} :
                 Prepare(w, row, text, row.version)
      BY <1>10, <1>k, <2>2, <3>1 DEF SectionRead
    <3>4. /\ text \in Seq(Words) /\ Single(text)
          /\ EntriesOf(text) \subseteq EntriesOf(read) \cup {e}
      BY <1>1, <1>2, <3>2, <3>3, AppendText, ReplaceText
    <3>5. EntriesOf(text) \subseteq EntriesOf(read) \cup {e} \cup Items \cup {Seed}
      BY <3>4
    <3> QED BY <1>5, <3>1, <3>3, <3>4, <3>5
  <2> QED BY <2>1, <2>2
<1>11. CASE writer[w].kind = "put" /\ PutRead(w, row)
  <2>1. ~Holds(read, e)
    BY <1>4, <1>11 DEF Authors
  <2>2. PICK text \in {<<e>>, Append(read, e)},
             expected \in {NoVersion, IF row.state = "live" THEN row.version ELSE 0} :
               Prepare(w, row, text, expected)
    BY <1>11, <1>k, Zenon DEF PutRead
  <2>3. <<e>> \in Seq(Words) /\ Single(<<e>>) /\ EntriesOf(<<e>>) = {e}
    <3>1. <<e>> \in Seq(Words) /\ DOMAIN <<e>> = {1} /\ <<e>>[1] = e
      BY <1>1
    <3> QED BY <3>1 DEF Single, EntriesOf
  <2>4. /\ text \in Seq(Words) /\ Single(text)
        /\ EntriesOf(text) \subseteq EntriesOf(read) \cup {e}
    <3>1. CASE text = <<e>>
      BY <2>3, <3>1
    <3>2. CASE text = Append(read, e)
      BY <1>1, <1>2, <2>1, <3>2, AppendText
    <3> QED BY <2>2, <3>1, <3>2
  <2>5. EntriesOf(text) \subseteq EntriesOf(read) \cup {e} \cup Items \cup {Seed}
    BY <2>4
  <2>6. expected \in {NoVersion, 0} \/ (row.state = "live" /\ expected = row.version)
    BY <2>2
  <2> QED BY <1>5, <2>2, <2>4, <2>5, <2>6
<1> QED BY <1>7, <1>8, <1>9, <1>10, <1>11, <1>k DEF ReadDocument

(***************************************************************************)
(* What a step of a writer leaves true                                     *)
(***************************************************************************)

LEMMA NothingHeld == \A e : ~Holds(<<>>, e)
BY NoDocumentRow DEF Holds

\* Texts: what is written comes from the tables or from the writer.
LEMMA TextsKept ==
  ASSUME TextsInv, NEW text \in Seq(Words), Single(text), RowsOK(docs'),
         TextsFrom(docs, docs', text), legacy' = legacy \/ legacy' = text
  PROVE  TextsInv'
<1>1. \A p \in Paths : Single(docs'[p].text)
  BY EmptySingle DEF TextsInv, TextsFrom
<1> QED BY <1>1 DEF TextsInv

LEMMA WritersKept ==
  ASSUME TextsInv, WritersInv, RowsOK(docs'), Grows(docs, docs'),
         writer' = writer \/ \E w \in Writers : WriterMoves(w)
  PROVE  WritersInv'
<1>1. ASSUME NEW v, WriterOK(docs, v)
      PROVE  WriterOK(docs', v)
  <2>1. v.base \in Row
    BY <1>1 DEF WriterOK, WriterRecord
  <2> QED BY <1>1, <2>1, ReadsKept DEF WriterOK, TextsInv
<1>2. CASE writer' = writer
  BY <1>1, <1>2 DEF WritersInv
<1>3. CASE \E w \in Writers : WriterMoves(w)
  <2>0. PICK w \in Writers : WriterMoves(w)
    BY <1>3
  <2>1. PICK v : writer' = [writer EXCEPT ![w] = v] /\ WriterOK(docs, v)
    BY <2>0 DEF WriterMoves
  <2>2. v \in WriterRecord
    BY <2>1 DEF WriterOK
  <2>3. writer' \in [Writers -> WriterRecord]
    BY <2>1, <2>2 DEF WritersInv
  <2>4. \A u \in Writers : WriterOK(docs, writer'[u])
    BY <2>1 DEF WritersInv
  <2> QED BY <1>1, <2>3, <2>4 DEF WritersInv
<1> QED BY <1>2, <1>3

\* A document or the legacy record gets the text of a writer only if that writer
\* is done with it, or knew of its entry.
LEMMA AuthorsKept ==
  ASSUME WritersInv, AuthorsInv, NEW w \in Writers, WriterMoves(w),
         \/ TextsFrom(docs, docs', <<>>)
         \/ TextsFrom(docs, docs', writer[w].text) /\ writer'[w] = Finished,
         legacy' = legacy \/ (legacy' = writer[w].text /\ writer[w].kind \notin Authors)
  PROVE  AuthorsInv'
<1>1. PICK v : /\ writer' = [writer EXCEPT ![w] = v] /\ WriterOK(docs, v)
               /\ v = Finished \/ Continues(w, v) \/ Starts(w, v)
  BY DEF WriterMoves
<1>2. writer'[w] = v /\ \A u \in Writers \ {w} : writer'[u] = writer[u]
  BY <1>1 DEF WritersInv
<1>3. /\ \A u \in Writers : WorksOK(writer[u])
      /\ WorksOK(v)
  BY <1>1 DEF WritersInv, WriterOK
<1>4. Finished.kind = "none" /\ Finished.entry = Seed /\ Finished.text = <<>>
  BY NothingRead DEF Finished
<1>r. \A u \in Writers :
        writer[u].at \in {"idle", "done"} =>
          writer[u].kind = "none" /\ writer[u].entry = Seed /\ writer[u].text = <<>>
  BY <1>3, NothingRead DEF WorksOK
<1>5. ASSUME NEW u \in Writers, writer'[u].kind \in Authors
      PROVE  Authored(u)'
  <2> DEFINE e == writer'[u].entry
  <2>1. e \in Entries /\ e # Seed
    BY <1>2, <1>3, <1>5, WordsAre DEF WorksOK, Authors
  <2>2. SUFFICES /\ e \notin Marked \cup Items
                 /\ \A p \in Paths : ~Holds(docs'[p].text, e)
                 /\ ~Holds(legacy', e)
                 /\ \A x \in Writers \ {u} : writer'[x].entry # e /\ ~Holds(writer'[x].text, e)
    BY DEF Authored
  <2>3. CASE u = w /\ Continues(w, v)
    <3>1. writer[w].kind \in Authors /\ e = writer[w].entry
      BY <1>2, <1>5, <2>3 DEF Continues
    <3>2. /\ e \notin Marked \cup Items
          /\ \A p \in Paths : ~Holds(docs[p].text, e)
          /\ ~Holds(legacy, e)
          /\ \A x \in Writers \ {w} : writer[x].entry # e /\ ~Holds(writer[x].text, e)
      BY <3>1 DEF AuthorsInv, Authored
    <3>3. TextsFrom(docs, docs', <<>>) /\ legacy' = legacy
      BY <1>2, <1>4, <1>5, <2>3, <3>1 DEF Authors
    <3>4. \A p \in Paths : ~Holds(docs'[p].text, e)
      BY <3>2, <3>3, NothingHeld DEF TextsFrom
    <3> QED BY <1>2, <2>3, <3>2, <3>3, <3>4
  <2>4. CASE u = w /\ Starts(w, v)
    <3>1. Fresh(e) /\ writer[w].text = <<>>
      BY <1>2, <1>5, <1>r, <2>4 DEF Starts
    <3>2. /\ e \notin Marked \cup Items
          /\ \A p \in Paths : ~Holds(docs[p].text, e)
          /\ ~Holds(legacy, e)
          /\ \A x \in Writers :
               writer[x].at # "idle" => writer[x].entry # e /\ ~Holds(writer[x].text, e)
      BY <3>1 DEF Fresh
    <3>3. \A p \in Paths : ~Holds(docs'[p].text, e)
      BY <3>1, <3>2, NothingHeld DEF TextsFrom
    <3>4. ~Holds(legacy', e)
      BY <3>1, <3>2, NothingHeld
    <3>5. \A x \in Writers : writer[x].entry # e /\ ~Holds(writer[x].text, e)
      BY <1>r, <2>1, <3>2, NothingHeld
    <3> QED BY <1>2, <2>4, <3>2, <3>3, <3>4, <3>5
  <2>5. CASE u # w
    <3>1. e = writer[u].entry /\ writer[u].kind \in Authors
      BY <1>2, <1>5, <2>5
    <3>2. /\ e \notin Marked \cup Items
          /\ \A p \in Paths : ~Holds(docs[p].text, e)
          /\ ~Holds(legacy, e)
          /\ \A x \in Writers \ {u} : writer[x].entry # e /\ ~Holds(writer[x].text, e)
      BY <3>1 DEF AuthorsInv, Authored
    <3>3. e \notin KnownTo(w)
      <4>1. ~Holds(writer[w].text, e) /\ writer[w].entry # e
        BY <2>5, <3>2
      <4>2. e \notin UNION {EntriesOf(docs[p].text) : p \in Paths}
        BY <3>2 DEF Holds
      <4> QED BY <2>1, <3>2, <4>1, <4>2 DEF KnownTo, Holds
    <3>4. ~Holds(writer[w].text, e)
      BY <2>5, <3>2
    <3>5. \A p \in Paths : ~Holds(docs'[p].text, e)
      BY <3>2, <3>4, NothingHeld DEF TextsFrom
    <3>6. ~Holds(legacy', e)
      BY <3>2, <3>4
    <3>7. v.entry # e /\ ~Holds(v.text, e)
      <4>1. CASE v = Finished
        BY <1>4, <2>1, <4>1, NothingHeld
      <4>2. CASE Continues(w, v)
        BY <2>5, <3>2, <3>3, <4>2 DEF Continues, Holds
      <4>3. CASE Starts(w, v)
        <5>1. writer[u].at # "idle"
          BY <1>r, <3>1 DEF Authors
        <5>2. Fresh(v.entry) => v.entry # e
          BY <3>1, <5>1 DEF Fresh
        <5> QED BY <2>1, <3>2, <4>3, <5>2, NothingHeld DEF Starts
      <4> QED BY <1>1, <4>1, <4>2, <4>3
    <3> QED BY <1>2, <3>2, <3>5, <3>6, <3>7
  <2>6. CASE u = w /\ v = Finished
    BY <1>2, <1>4, <1>5, <2>6 DEF Authors
  <2> QED BY <1>1, <2>3, <2>4, <2>5, <2>6
<1> QED BY <1>5 DEF AuthorsInv, Authored

\* A step of no writer: a document is deleted, or documents move.
LEMMA AuthorsStay ==
  ASSUME AuthorsInv, writer' = writer, legacy' = legacy, TextsFrom(docs, docs', <<>>)
  PROVE  AuthorsInv'
<1> SUFFICES ASSUME NEW w \in Writers, writer[w].kind \in Authors
             PROVE  Authored(w)'
  BY DEF AuthorsInv, Authored
<1>1. \A p \in Paths : ~Holds(docs[p].text, writer[w].entry)
  BY DEF AuthorsInv, Authored
<1>2. \A p \in Paths : ~Holds(docs'[p].text, writer[w].entry)
  BY <1>1, NothingHeld DEF TextsFrom
<1> QED BY <1>2 DEF AuthorsInv, Authored

\* An entry that is recorded is recorded afterwards, or taken away by name.
LEMMA KeptStays ==
  ASSUME KeptInv, removed \subseteq removed', exposed \subseteq exposed',
         acknowledged' \subseteq acknowledged \cup (RecordedIn(docs') \ {Seed}),
         RecordedIn(docs) \subseteq RecordedIn(docs') \cup removed' \cup exposed' \cup {Seed}
  PROVE  KeptInv'
<1>1. Recorded = RecordedIn(docs) /\ Recorded' = RecordedIn(docs')
  BY DEF Recorded, RecordedIn
<1> QED BY <1>1 DEF KeptInv, AcknowledgedIsKept

(***************************************************************************)
(* The steps                                                               *)
(***************************************************************************)

\* A step that leaves the tables and the history alone, but for what is found.
LEMMA QuietKeeps ==
  ASSUME MemoryInv, NEW w \in Writers, WriterMoves(w), UNCHANGED <<docs, removed, exposed>>,
         legacy' = legacy \/ (legacy' = writer[w].text /\ writer[w].kind \notin Authors),
         acknowledged' \subseteq acknowledged \cup (RecordedIn(docs) \ {Seed})
  PROVE  MemoryInv'
<1>1. RowsOK(docs') /\ Grows(docs, docs') /\ TextsFrom(docs, docs', <<>>)
  <2>1. \A p \in Present(docs) : Supersedes(docs[p], docs[p])
    BY DEF MemoryInv, TextsInv, RowsOK, Present, Row, Supersedes
  <2>2. Rows(docs) <= Rows(docs)
    BY RowCount DEF MemoryInv, TextsInv
  <2> QED BY <2>1, <2>2 DEF MemoryInv, TextsInv, Grows, TextsFrom
<1>2. writer[w].text \in Seq(Words) /\ Single(writer[w].text)
  BY DEF MemoryInv, WritersInv, WriterOK, WriterRecord
<1>3. TextsInv'
  <2>1. TextsFrom(docs, docs', writer[w].text)
    BY <1>1 DEF TextsFrom
  <2> QED BY <1>1, <1>2, <2>1, TextsKept DEF MemoryInv
<1>4. WritersInv' /\ AuthorsInv'
  BY <1>1, WritersKept, AuthorsKept DEF MemoryInv
<1>5. KeptInv'
  BY KeptStays DEF MemoryInv
<1> QED BY <1>3, <1>4, <1>5 DEF MemoryInv

\* A commit: what is lost was dropped, or is exposed.
LEMMA CommitKeeps ==
  ASSUME MemoryInv, NEW w \in Writers, NEW e, Committed(w, e),
         RowsOK(e), Grows(docs, e), TextsFrom(docs, e, writer[w].text),
         e[writer[w].path].state = "live", e[writer[w].path].text = writer[w].text,
         LET row == docs[writer[w].path]
         IN  /\ RecordedIn(docs) \subseteq RecordedIn(e) \cup EntriesOf(TextRead(row))
             /\ Checked(w, row) => Overwritten(w, row) = {}
             /\ EntriesOf(TextRead(row)) \subseteq EntriesOf(row.text)
  PROVE  MemoryInv'
<1> DEFINE row == docs[writer[w].path]
           text == writer[w].text
<1>1. writer[w].path \in Paths /\ text \in Seq(Words) /\ Single(text)
  BY DEF MemoryInv, WritersInv, WriterOK, WriterRecord
<1>2. /\ docs' = e /\ legacy' = legacy /\ Finish(w)
      /\ acknowledged' \subseteq acknowledged \cup (EntriesOf(text) \ {Seed})
      /\ removed' = removed \cup ((Dropped(w) \cap EntriesOf(row.text)) \ {Seed})
      /\ exposed' = IF Checked(w, row) THEN exposed
                    ELSE exposed \cup (Overwritten(w, row) \ {Seed})
  BY DEF Committed
<1>3. TextsInv'
  BY <1>1, <1>2, TextsKept DEF MemoryInv
<1>4. WriterMoves(w) /\ writer'[w] = Finished
  BY <1>2, Finishes DEF Finish, Finished, MemoryInv, WritersInv
<1>5. WritersInv' /\ AuthorsInv'
  BY <1>2, <1>4, WritersKept, AuthorsKept DEF MemoryInv
<1>6. EntriesOf(text) \subseteq RecordedIn(e)
  BY <1>1 DEF RecordedIn, LivePaths
<1>7. RecordedIn(docs) \subseteq RecordedIn(docs') \cup removed' \cup exposed' \cup {Seed}
  <2> DEFINE lost == EntriesOf(TextRead(row)) \ EntriesOf(text)
  <2>1. lost \subseteq Dropped(w) \cup Overwritten(w, row)
    BY DEF Overwritten
  <2>2. lost \cap Dropped(w) \subseteq removed' \cup {Seed}
    BY <1>2
  <2>3. lost \cap Overwritten(w, row) \subseteq exposed' \cup {Seed}
    BY <1>2
  <2>4. RecordedIn(docs) \subseteq RecordedIn(e) \cup lost
    BY <1>6
  <2> QED BY <1>2, <2>1, <2>2, <2>3, <2>4
<1>8. removed \subseteq removed' /\ exposed \subseteq exposed'
  BY <1>2
<1>9. KeptInv'
  BY <1>2, <1>6, <1>7, <1>8, KeptStays DEF MemoryInv
<1> QED BY <1>3, <1>5, <1>9 DEF MemoryInv

LEMMA NewIdIsFree == NewId = 1 + Rows(docs)
BY DEF NewId, Rows, Present

\* A text that is written under the version its writer has read replaces the
\* text its writer has read.
LEMMA CheckedLosesNothing ==
  ASSUME TextsInv, WritersInv, NEW w \in Writers, docs[writer[w].path].state = "live",
         docs[writer[w].path].version = writer[w].expected, Checked(w, docs[writer[w].path])
  PROVE  Overwritten(w, docs[writer[w].path]) = {}
<1> DEFINE row == docs[writer[w].path]
           base == writer[w].base
<1>1. writer[w].path \in Paths /\ writer[w].path \in Present(docs)
  BY DEF WritersInv, WriterRecord, Present
<1>2. row.version >= 1 /\ row.id \in 1..Rows(docs) /\ Rows(docs) \in Nat /\ row.version \in Nat
  BY <1>1, RowCount DEF TextsInv, RowsOK, Row
<1>3. base.state = "live" /\ row.version = base.version
  BY <1>2 DEF WritersInv, WriterOK, SentOK, Checked
<1>4. row.id = base.id
  BY DEF Checked
<1>5. row.text = base.text
  BY <1>1, <1>3, <1>4 DEF WritersInv, WriterOK, ReadOK, Supersedes
<1>6. TextRead(row) = TextRead(base)
  BY <1>3, <1>5 DEF TextRead
<1> HIDE DEF row
<1> QED BY <1>6 DEF Overwritten, Dropped, row

LEMMA WriteKeeps ==
  ASSUME MemoryInv, NEW w \in Writers, WriteDocument(w)
  PROVE  MemoryInv'
<1> DEFINE p == writer[w].path
           row == docs[p]
           text == writer[w].text
           expected == writer[w].expected
<1>1. /\ writer[w] \in WriterRecord /\ p \in Paths /\ text \in Seq(Words)
      /\ WriterOK(docs, writer[w]) /\ writer[w].at = "writing"
  BY DEF WriteDocument, MemoryInv, WritersInv, WriterOK, WriterRecord
<1>2. CASE Refused(w)
  <2> DEFINE left == writer[w].left - 1
  <2>1. CASE writer[w].left > 1
    <3>1. PICK v : v = [writer[w] EXCEPT !.at = "reading", !.left = left]
      OBVIOUS
    <3>2. writer' = [writer EXCEPT ![w] = v]
      BY <1>2, <2>1, <3>1 DEF Refused
    <3>3. left \in Nat
      BY <1>1, <2>1 DEF WriterRecord
    <3> HIDE DEF left
    <3> DEFINE u == writer[w]
    <3>4. u \in WriterRecord /\ v = [u EXCEPT !.at = "reading", !.left = left]
      BY <1>1, <3>1
    <3> HIDE DEF u
    <3> DEFINE T == Seq(Words)
    <3> HIDE DEF T
    <3>5. /\ v \in WriterRecord /\ v.at = "reading" /\ v.base = u.base /\ v.text = u.text
          /\ v.expected = u.expected /\ v.kind = u.kind /\ v.entry = u.entry
      BY <3>3, <3>4 DEF WriterRecord, T
    <3>6. WriterOK(docs, v)
      BY <1>1, <3>5 DEF WriterOK, SentOK, WorksOK, u
    <3>7. Continues(w, v)
      BY <3>5 DEF Continues, KnownTo, u
    <3>8. WriterMoves(w)
      BY <3>2, <3>6, <3>7 DEF WriterMoves
    <3> QED BY <1>2, <3>8, QuietKeeps DEF Refused
  <2>2. CASE ~(writer[w].left > 1)
    <3>1. Finish(w)
      BY <1>2, <2>2 DEF Refused, Finish
    <3> QED BY <1>2, <3>1, Finishes, QuietKeeps DEF Refused
  <2> QED BY <2>1, <2>2
<1>3. CASE /\ row.state # "live"
           /\ writer' = [writer EXCEPT ![w].at = "inserting"]
           /\ UNCHANGED <<docs, legacy, acknowledged, removed, exposed>>
  <2> DEFINE u == writer[w]
             T == Seq(Words)
  <2>1. PICK v : v = [u EXCEPT !.at = "inserting"]
    OBVIOUS
  <2>2. writer' = [writer EXCEPT ![w] = v]
    BY <1>3, <2>1
  <2>3. u \in WriterRecord
    BY <1>1
  <2> HIDE DEF u, T
  <2>4. /\ v \in WriterRecord /\ v.at = "inserting" /\ v.base = u.base /\ v.text = u.text
        /\ v.expected = u.expected /\ v.kind = u.kind /\ v.entry = u.entry
    BY <2>1, <2>3 DEF WriterRecord, T
  <2>5. WriterOK(docs, v)
    BY <1>1, <2>4 DEF WriterOK, SentOK, WorksOK, u
  <2>6. Continues(w, v)
    BY <2>4 DEF Continues, KnownTo, u
  <2>7. WriterMoves(w)
    BY <2>2, <2>5, <2>6 DEF WriterMoves
  <2> QED BY <1>3, <2>7, QuietKeeps
<1>4. CASE /\ row.state = "live"
           /\ expected = NoVersion \/ row.version = expected
           /\ Committed(w, PgUpdate(docs, p, text).docs)
  <2>1. PICK e : e = PgUpdate(docs, p, text).docs
    OBVIOUS
  <2>2. RowsOK(docs)
    BY DEF MemoryInv, TextsInv
  <2>3. /\ RowsOK(e) /\ Grows(docs, e) /\ TextsFrom(docs, e, text)
        /\ e[p].state = "live" /\ e[p].text = text
        /\ RecordedIn(docs) \subseteq RecordedIn(e) \cup EntriesOf(row.text)
    BY <1>1, <1>4, <2>1, <2>2, UpdateRows
  <2>4. TextRead(row) = row.text
    BY <1>4 DEF TextRead
  <2>5. Checked(w, row) => Overwritten(w, row) = {}
    BY <1>4, CheckedLosesNothing DEF MemoryInv, Checked
  <2>6. Committed(w, e)
    BY <1>4, <2>1
  <2> QED BY <2>3, <2>4, <2>5, <2>6, CommitKeeps
<1>5. Refused(w) \/ /\ row.state = "live"
                    /\ expected = NoVersion \/ row.version = expected
                    /\ Committed(w, PgUpdate(docs, p, text).docs)
                 \/ /\ row.state # "live"
                    /\ writer' = [writer EXCEPT ![w].at = "inserting"]
                    /\ UNCHANGED <<docs, legacy, acknowledged, removed, exposed>>
  <2> DEFINE result == PgWrite(docs, p, text, expected, NewId)
  <2>1. CASE result.outcome = "conflict"
    BY <2>1 DEF WriteDocument
  <2>2. CASE result.outcome # "conflict" /\ row.state = "live"
    <3>1. expected = NoVersion \/ row.version = expected
      BY <2>2 DEF PgWrite, PgVersion, Returns
    <3>2. result.docs = PgUpdate(docs, p, text).docs
      BY <2>2, <3>1 DEF PgWrite, PgVersion
    <3> QED BY <2>2, <3>1, <3>2 DEF WriteDocument
  <2>3. CASE result.outcome # "conflict" /\ row.state # "live"
    BY <2>3 DEF WriteDocument
  <2> QED BY <2>1, <2>2, <2>3
<1> QED BY <1>2, <1>3, <1>4, <1>5

LEMMA InsertKeeps ==
  ASSUME MemoryInv, NEW w \in Writers, InsertDocument(w)
  PROVE  MemoryInv'
<1> DEFINE p == writer[w].path
           row == docs[p]
           text == writer[w].text
           result == PgInsert(docs, p, text, NewId)
<1>1. p \in Paths /\ text \in Seq(Words) /\ RowsOK(docs)
  BY DEF MemoryInv, TextsInv, WritersInv, WriterOK, WriterRecord
<1>2. CASE result.outcome = "written"
  <2>1. row.state = "absent"
    BY <1>2 DEF PgInsert, Returns
  <2>2. PICK e : e = result.docs
    OBVIOUS
  <2>3. /\ RowsOK(e) /\ Grows(docs, e) /\ TextsFrom(docs, e, text)
        /\ e[p].state = "live" /\ e[p].text = text
        /\ RecordedIn(docs) \subseteq RecordedIn(e)
    BY <1>1, <2>1, <2>2, NewIdIsFree, InsertRows
  <2>4. EntriesOf(TextRead(row)) = {}
    BY <2>1, NoDocumentRow DEF TextRead
  <2>5. Committed(w, e)
    BY <1>2, <2>2 DEF InsertDocument
  <2>6. Overwritten(w, row) = {}
    BY <2>4 DEF Overwritten
  <2> QED BY <2>3, <2>4, <2>5, <2>6, CommitKeeps
<1>3. CASE result.outcome # "written"
  BY <1>3, Finishes, QuietKeeps DEF InsertDocument
<1> QED BY <1>2, <1>3

\* What an append finds is recorded.
LEMMA ReadKeeps ==
  ASSUME MemoryInv, NEW w \in Writers, ReadDocument(w)
  PROVE  MemoryInv'
<1> DEFINE row == docs[writer[w].path]
           e == writer[w].entry
<1>1. acknowledged' = acknowledged
      \/ /\ writer[w].kind \in {"once", "insist"} /\ Holds(TextRead(row), e)
         /\ acknowledged' = acknowledged \cup {e}
  BY DEF ReadDocument, AppendRead
<1>2. ASSUME writer[w].kind \in {"once", "insist"}, Holds(TextRead(row), e)
      PROVE  e \in RecordedIn(docs) \ {Seed}
  <2>1. e # Seed /\ writer[w].path \in Paths
    BY <1>2, WordsAre DEF MemoryInv, WritersInv, WriterOK, WorksOK, WriterRecord
  <2>2. row.state = "live" /\ Holds(row.text, e)
    BY <1>2, NothingHeld DEF TextRead
  <2> QED BY <2>1, <2>2 DEF RecordedIn, LivePaths, Holds
<1>3. WriterMoves(w)
  BY ReadMoves DEF MemoryInv
<1>4. UNCHANGED <<docs, legacy, removed, exposed>>
  BY DEF ReadDocument
<1> QED BY <1>1, <1>2, <1>3, <1>4, QuietKeeps

LEMMA LegacyKeeps ==
  ASSUME MemoryInv, NEW w \in Writers, ReadLegacy(w) \/ SaveLegacy(w)
  PROVE  MemoryInv'
<1> DEFINE u == writer[w]
           T == Seq(Words)
<1>1. u \in WriterRecord /\ WriterOK(docs, u) /\ u.entry \in Words /\ u.text \in T
  BY DEF MemoryInv, WritersInv, WriterOK, WriterRecord
<1>2. CASE ReadLegacy(w)
  <2>1. CASE Holds(legacy, writer[w].entry)
    BY <1>2, <2>1, Finishes, QuietKeeps DEF ReadLegacy
  <2>2. CASE ~Holds(legacy, writer[w].entry)
    <3> DEFINE base == OrSeed(legacy)
               text == Append(base, writer[w].entry)
    <3>1. writer[w].kind = "remember" /\ writer[w].entry # Seed
      BY <1>1, <1>2, WordsAre DEF ReadLegacy, WriterOK, WorksOK
    <3>2. /\ base \in Seq(Words) /\ Single(base)
          /\ EntriesOf(base) \subseteq EntriesOf(legacy) \cup {Seed}
      BY OrSeedText DEF MemoryInv, TextsInv
    <3>3. ~Holds(base, writer[w].entry)
      BY <2>2, <3>1, <3>2 DEF Holds
    <3>d. base = OrSeed(legacy)
      OBVIOUS
    <3> HIDE DEF base
    <3>4. /\ text \in Seq(Words) /\ Single(text)
          /\ EntriesOf(text) \subseteq EntriesOf(base) \cup {writer[w].entry}
      BY <1>1, <3>2, <3>3, AppendText
    <3>5. EntriesOf(text) \subseteq KnownTo(w)
      BY <3>2, <3>4 DEF KnownTo
    <3>6. PICK v : v = [u EXCEPT !.at = "saving", !.text = text]
      OBVIOUS
    <3>7. writer' = [writer EXCEPT ![w] = v]
      BY <1>2, <2>2, <3>6, <3>d DEF ReadLegacy
    <3>8. text \in T
      BY <3>4
    <3>k. u = writer[w]
      OBVIOUS
    <3> HIDE DEF text, T, u
    <3>9. /\ v \in WriterRecord /\ v.at = "saving" /\ v.base = u.base /\ v.text = text
          /\ v.expected = u.expected /\ v.kind = u.kind /\ v.entry = u.entry
      BY <1>1, <3>6, <3>8 DEF WriterRecord, T
    <3>10. WriterOK(docs, v)
      BY <1>1, <3>1, <3>4, <3>9, <3>k DEF WriterOK, SentOK, WorksOK
    <3>11. WriterMoves(w)
      BY <3>5, <3>7, <3>9, <3>10, <3>k DEF WriterMoves, Continues
    <3> QED BY <1>2, <3>11, QuietKeeps DEF ReadLegacy
  <2> QED BY <2>1, <2>2
<1>3. CASE SaveLegacy(w)
  <2>1. PICK v : v = [u EXCEPT !.at = "writing"]
    OBVIOUS
  <2>2. writer' = [writer EXCEPT ![w] = v]
    BY <1>3, <2>1 DEF SaveLegacy
  <2>k. u = writer[w]
    OBVIOUS
  <2> HIDE DEF T, u
  <2>3. /\ v \in WriterRecord /\ v.at = "writing" /\ v.base = u.base /\ v.text = u.text
        /\ v.expected = u.expected /\ v.kind = u.kind /\ v.entry = u.entry
    BY <1>1, <2>1 DEF WriterRecord, T
  <2>4. WriterOK(docs, v)
    BY <1>1, <2>3 DEF WriterOK, SentOK, WorksOK
  <2>5. WriterMoves(w)
    BY <2>2, <2>3, <2>4, <2>k DEF WriterMoves, Continues, KnownTo
  <2>6. writer[w].kind \notin Authors
    BY <1>1, <1>3, <2>k DEF SaveLegacy, WriterOK, WorksOK, Authors
  <2> QED BY <1>3, <2>5, <2>6, QuietKeeps DEF SaveLegacy
<1> QED BY <1>2, <1>3

LEMMA DeleteKeeps ==
  ASSUME MemoryInv, NEW p \in Paths, Delete(p)
  PROVE  MemoryInv'
<1>1. PICK expected : /\ PgDelete(docs, p, expected).outcome = "written"
                      /\ docs' = PgDelete(docs, p, expected).docs
  BY Zenon DEF Delete
<1>2. docs[p].state = "live" /\ docs' = [docs EXCEPT ![p].state = "deleted"]
  BY <1>1 DEF PgDelete, Returns
<1>3. /\ RowsOK(docs') /\ Grows(docs, docs') /\ TextsFrom(docs, docs', <<>>)
      /\ RecordedIn(docs) \subseteq RecordedIn(docs') \cup EntriesOf(docs[p].text)
  BY <1>2, DeleteRows DEF MemoryInv, TextsInv
<1>4. /\ removed' = removed \cup (EntriesOf(docs[p].text) \ {Seed})
      /\ UNCHANGED <<legacy, writer, acknowledged, exposed>>
  BY DEF Delete
<1>5. TextsInv' /\ WritersInv' /\ AuthorsInv'
  BY <1>3, <1>4, EmptySingle, TextsKept, WritersKept, AuthorsStay DEF MemoryInv
<1>6. KeptInv'
  BY <1>3, <1>4, KeptStays DEF MemoryInv
<1> QED BY <1>5, <1>6 DEF MemoryInv

LEMMA MoveKeeps ==
  ASSUME MemoryInv, NEW from \in Paths, NEW to \in Paths, Move(from, to)
  PROVE  MemoryInv'
<1>1. /\ \A p \in MovedRows(docs, from) : Renamed(from, to, p) \in Paths
      /\ PgMove(docs, from, to, NoVersion).outcome = "written"
      /\ docs' = PgMove(docs, from, to, NoVersion).docs
      /\ UNCHANGED <<legacy, writer, acknowledged, removed, exposed>>
  BY Zenon DEF Move
<1>2. /\ RowsOK(docs') /\ Grows(docs, docs') /\ TextsFrom(docs, docs', <<>>)
      /\ RecordedIn(docs) \subseteq RecordedIn(docs')
  BY <1>1, MoveRows DEF MemoryInv, TextsInv
<1>3. TextsInv' /\ WritersInv' /\ AuthorsInv'
  BY <1>1, <1>2, EmptySingle, TextsKept, WritersKept, AuthorsStay DEF MemoryInv
<1>4. KeptInv'
  BY <1>1, <1>2, KeptStays DEF MemoryInv
<1> QED BY <1>3, <1>4 DEF MemoryInv

\* An approval is what a decision entry is named for first.
LEMMA ApprovalMarker ==
  ASSUME NEW call, call.approval # NoId
  PROVE  DecisionMarker(call) = <<"approval", call.approval>>
<1> DEFINE ids == <<call.approval, call.outbound, call.event>>
           names == <<"approval", "outbound", "task-event">>
           known == {i \in DOMAIN ids : ids[i] # NoId}
           first == CHOOSE i \in known : \A k \in known : i <= k
<1>1. DOMAIN ids = 1..3 /\ ids[1] = call.approval /\ names[1] = "approval"
  OBVIOUS
<1>2. 1 \in known /\ \A k \in known : k \in 1..3
  BY <1>1
<1>3. DecisionMarker(call) = IF known # {} THEN <<names[first], ids[first]>>
        ELSE IF call.task # NoId /\ call.tool \in TaskCreators
        THEN <<"task", call.task, call.tool>>
        ELSE IF call.tool = "write_file" THEN <<"write-file", call.run>>
        ELSE <<"tool-call", call.id>>
  BY DEF DecisionMarker
<1> HIDE DEF known, ids, names
<1>4. \A i \in known : (\A k \in known : i <= k) => i = 1
  BY <1>2
<1>5. first = 1
  BY <1>2, <1>4
<1> QED BY <1>1, <1>2, <1>3, <1>5

LEMMA SameApprovalSameMarker ==
  ASSUME NEW c, NEW d, c.approval # NoId, c.approval = d.approval
  PROVE  DecisionMarker(c) = DecisionMarker(d)
BY ApprovalMarker

LEMMA InitMemoryInv == Init => MemoryInv
<1> SUFFICES ASSUME Init
             PROVE  MemoryInv
  OBVIOUS
<1> DEFINE D == NoDocument
<1>1. docs = [p \in Paths |-> D] /\ legacy = <<>> /\ acknowledged = {} /\ removed = {}
      /\ writer = [w \in Writers |-> NoWriter("idle")]
  BY DEF Init, NoDocuments
<1>2. D \in Row /\ D.state = "absent" /\ D.text = <<>> /\ D = NoDocument
  BY NoDocumentRow DEF NoDocument
<1> HIDE DEF D
<1>3. Present(docs) = {}
  BY <1>1, <1>2 DEF Present
<1>4. TextsInv
  <2>1. IsFiniteSet({}) /\ docs \in [Paths -> Row]
    BY <1>1, <1>2, FS_EmptySet
  <2>2. \A p \in Paths \ Present(docs) : docs[p] = NoDocument
    BY <1>1, <1>2
  <2>3. RowsOK(docs)
    BY <1>3, <2>1, <2>2 DEF RowsOK
  <2> QED BY <1>1, <1>2, <2>3, EmptySingle DEF TextsInv
<1>5. WritersInv
  BY <1>1, NothingRead DEF WritersInv
<1>6. AuthorsInv
  <2>1. \A w \in Writers : writer[w].kind = "none"
    BY <1>1, NothingRead
  <2> QED BY <2>1 DEF AuthorsInv, Authored, Authors
<1>7. KeptInv
  BY <1>1 DEF KeptInv, AcknowledgedIsKept
<1> QED BY <1>4, <1>5, <1>6, <1>7 DEF MemoryInv

LEMMA NextMemoryInv == MemoryInv /\ [Next]_vars => MemoryInv'
<1> SUFFICES ASSUME MemoryInv, [Next]_vars
             PROVE  MemoryInv'
  OBVIOUS
<1>1. ASSUME NEW w \in Writers, StartWriter(w)
      PROVE  MemoryInv'
  <2>1. UNCHANGED <<docs, legacy, acknowledged, removed, exposed>>
    BY <1>1
    DEF StartWriter, RecordOwnerFeedback, RecordTaskOutcomeMemory, RecordScheduledTaskDecision,
        AppendDecisionEntry, AddMemoryListItem, AmendMemoryListItem, AppendNewsletterPreference,
        PersistNewsletterInterestReaction, UpsertSchedulerMemory, ReplaceOrAppendSection,
        WriteFile, WriteMemory, AppendPersonalMemory, IntegrateTrustedMessage, Start
  <2> QED BY <1>1, <2>1, StartWriterMoves, QuietKeeps DEF MemoryInv
<1>2. ASSUME NEW w \in Writers, DropWriter(w)
      PROVE  MemoryInv'
  BY <1>2, Finishes, QuietKeeps DEF DropWriter
<1>3. CASE \E w \in Writers : WriterStep(w)
  BY <1>1, <1>2, <1>3, ReadKeeps, WriteKeeps, InsertKeeps, LegacyKeeps DEF WriterStep
<1>4. CASE \E p \in Paths : Delete(p)
  BY <1>4, DeleteKeeps
<1>5. CASE \E from, to \in Paths : Move(from, to)
  BY <1>5, MoveKeeps
<1>6. CASE UNCHANGED vars
  <2>1. /\ docs' = docs /\ legacy' = legacy /\ writer' = writer /\ acknowledged' = acknowledged
        /\ removed' = removed /\ exposed' = exposed
    BY <1>6 DEF vars
  <2>2. TextsInv' /\ WritersInv'
    BY <2>1 DEF MemoryInv, TextsInv, WritersInv
  <2>3. AuthorsInv'
    BY <2>1 DEF MemoryInv, AuthorsInv, Authored
  <2>4. KeptInv'
    BY <2>1 DEF MemoryInv, KeptInv, AcknowledgedIsKept, Recorded
  <2> QED BY <2>2, <2>3, <2>4 DEF MemoryInv
<1> QED BY <1>3, <1>4, <1>5, <1>6 DEF Next

(***************************************************************************)
(* The theorems                                                            *)
(***************************************************************************)

\* Every row has an id of its own, every version one text, and whoever writes an
\* entry without looking for it is the only one who knows it, always.
THEOREM MemoryIsSound == Spec => []MemoryInv
  BY InitMemoryInv, NextMemoryInv, PTL DEF Spec

\* An entry whose writer was told that it is recorded stays in memory until a
\* call takes it away that means to, or a text is replaced without the version of
\* the document that was read (AcknowledgedIsKept).
THEOREM AcknowledgedStays == Spec => []AcknowledgedIsKept
<1>1. MemoryInv => AcknowledgedIsKept
  BY DEF MemoryInv, KeptInv
<1> QED BY <1>1, MemoryIsSound, PTL

\* However often the same thing is recorded, by however many calls, a document
\* has one entry for it (EntriesAreSingle).
THEOREM OneEntryEach == Spec => []EntriesAreSingle
<1>1. MemoryInv => EntriesAreSingle
  <2> SUFFICES ASSUME MemoryInv, NEW p \in LivePaths(docs),
                      NEW i \in DOMAIN docs[p].text, NEW k \in DOMAIN docs[p].text,
                      LET e == docs[p].text[i]
                          f == docs[p].text[k]
                      IN  (e = f /\ e \notin Items) \/ <<e, f>> \in SameApproval
               PROVE  i = k
    BY DEF EntriesAreSingle
  <2> DEFINE e == docs[p].text[i]
             f == docs[p].text[k]
  <2>1. Single(docs[p].text)
    BY DEF MemoryInv, TextsInv, LivePaths
  <2>2. CASE e = f /\ e \notin Items
    BY <2>1, <2>2 DEF Single
  <2>3. CASE <<e, f>> \in SameApproval
    <3>1. PICK calls \in ToolCalls \X ToolCalls :
                 /\ calls[1].approval # NoId /\ calls[1].approval = calls[2].approval
                 /\ e = DecisionMarker(calls[1]) /\ f = DecisionMarker(calls[2])
      BY <2>3 DEF SameApproval
    <3>2. DecisionMarker(calls[1]) = DecisionMarker(calls[2])
      BY <3>1, SameApprovalSameMarker
    <3>3. e \notin Items
      BY <3>1, MarkerAssumption
    <3> QED BY <2>2, <3>1, <3>2, <3>3
  <2> QED BY <2>2, <2>3
<1> QED BY <1>1, MemoryIsSound, PTL
=============================================================================
