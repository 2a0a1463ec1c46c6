------------------------ MODULE Administration_proofs ------------------------
(***************************************************************************)
(* Proofs about what the administration and requests of the same kind      *)
(* share: rows that are read, and written back later.                      *)
(*                                                                         *)
(* Media's type invariant and its three safety invariants, for any         *)
(* products, files, workers and quota: the invariant MediaInv, one lemma   *)
(* per part (each with a step per action).  Content's handover, for any    *)
(* editors: what a form has locked is none where it deactivates none.      *)
(* Registration's one account per mailbox, for any accounts and workers:   *)
(* the index speaks of all rows at the write, so that what a worker read   *)
(* before need not hold any more.                                          *)
(***************************************************************************)
EXTENDS Media, Content, Registration, FiniteSetTheorems, TLAPS

-------------------------------------------------------------------------------
(* Media *)


Stores(w) == work[w].step \in {"stored", "replacing"}

\* A worker has uploaded a file that no row names yet.
Uploads(w) == Stores(w) \/ (work[w].step = "written" /\ work[w].old # None)

Locks(w) == work[w].step \in {"locked", "replacing", "written"}

\* What each step of a worker holds.
WorkOK ==
  \A w \in Workers :
    /\ work[w].step \in {"idle", "committed"} <=> work[w].row = None
    /\ work[w].row # None => work[w].row \in Row
    /\ Locks(w) => work[w].media \in Media
    /\ work[w].step \in {"idle", "counted", "stored", "read"} => work[w].old = None
    /\ Stores(w) \/ work[w].step = "written" => work[w].row.file \in Files
    /\ work[w].step = "written" /\ work[w].old # None => work[w].row.file = work[w].old

\* Names in use were drawn, keys in use were given.
Known ==
  /\ \A m \in Media : Present(m) => m \in keys /\ rows[m].file \in drawn
  /\ \A w \in Workers : work[w].row # None /\ work[w].row.file # None => work[w].row.file \in drawn
  /\ \A w \in Workers : work[w].old # None => work[w].old \in drawn
  /\ \A w \in Workers : work[w].step = "written" => work[w].media \in keys

\* An uploaded file is there, and is nobody else's.
UploadsOwn ==
  \A w \in Workers : Uploads(w) =>
    /\ work[w].row.file \in files
    /\ \A m \in Media : Present(m) => rows[m].file # work[w].row.file
    /\ \A v \in Workers \ {w} : /\ work[v].row # None => work[v].row.file # work[w].row.file
                                /\ work[v].old # work[w].row.file

\* A row under a replacement's lock has the columns that were read, and one holder.
Locked ==
  /\ \A w \in Workers : work[w].step \in {"locked", "replacing"} =>
       /\ Present(work[w].media)
       /\ rows[work[w].media] = [work[w].row EXCEPT !.file = work[w].old]
  /\ \A v, w \in Workers : v # w /\ Locks(v) /\ Locks(w) => work[v].media # work[w].media

\* The active media of a type that no form wrote.
Plain(p, t) == ActiveIn(p, t) \ formed

Adding(w) == work[w].step \in {"counted", "stored"}

Counts == \E w \in Workers, p \in Products, t \in Types : Count(w, p, t)

Inserts == \E w \in Workers, m \in Media : CommitAdd(w, m)

\* Whoever counted and has not inserted yet has the product to itself and room for a row.
Counted ==
  /\ \A w \in Workers : work[w].step \in {"counted", "stored"} =>
       \A p \in Products, t \in Types : p = work[w].row.product /\ t = work[w].row.type
                                        => Cardinality(Plain(p, t)) < MAX
  /\ \A v, w \in Workers : /\ v # w
                           /\ work[v].step \in {"counted", "stored"}
                           /\ work[w].step \in {"counted", "stored"}
                           => work[v].row.product # work[w].row.product


\* Every step keeps the types.
LEMMA TypesStep ==
  ASSUME MediaTypeOK, WorkOK, Known, [Next]_vars
  PROVE  MediaTypeOK'
<1>1. ASSUME NEW w \in Workers, NEW p \in Products, NEW t \in Types, Count(w, p, t)
      PROVE  MediaTypeOK'
  BY <1>1, MediaAssumption DEF MediaTypeOK, WorkOK, Known, Present, Steps, Idle, Row, Stores,
       Locks, Held, Count, Does
<1>2. ASSUME NEW w \in Workers, NEW f \in Files, Store(w, f)
      PROVE  MediaTypeOK'
  BY <1>2, MediaAssumption DEF MediaTypeOK, WorkOK, Known, Present, Steps, Idle, Row, Stores,
       Locks, Held, Store
<1>3. ASSUME NEW w \in Workers, Refuse(w)
      PROVE  MediaTypeOK'
  BY <1>3, MediaAssumption DEF MediaTypeOK, WorkOK, Known, Present, Steps, Idle, Row, Stores,
       Locks, Held, Refuse, Ends
<1>4. ASSUME NEW w \in Workers, Fail(w)
      PROVE  MediaTypeOK'
  BY <1>4, MediaAssumption DEF MediaTypeOK, WorkOK, Known, Present, Steps, Idle, Row, Stores,
       Locks, Held, Fail, Ends
<1>5. ASSUME NEW w \in Workers, NEW m \in Media, CommitAdd(w, m)
      PROVE  MediaTypeOK'
  BY <1>5, MediaAssumption DEF MediaTypeOK, WorkOK, Known, Present, Steps, Idle, Row, Stores,
       Locks, Held, CommitAdd, Ends
<1>6. ASSUME NEW w \in Workers, NEW m \in Media, LockRow(w, m)
      PROVE  MediaTypeOK'
  BY <1>6, MediaAssumption DEF MediaTypeOK, WorkOK, Known, Present, Steps, Idle, Row, Stores,
       Locks, Held, LockRow, Does
<1>7. ASSUME NEW w \in Workers, CommitReplace(w)
      PROVE  MediaTypeOK'
  BY <1>7, MediaAssumption DEF MediaTypeOK, WorkOK, Known, Present, Steps, Idle, Row, Stores,
       Locks, Held, CommitReplace, Does
<1>8. ASSUME NEW w \in Workers, Clean(w)
      PROVE  MediaTypeOK'
  BY <1>8, MediaAssumption DEF MediaTypeOK, WorkOK, Known, Present, Steps, Idle, Row, Stores,
       Locks, Held, Clean, Ends
<1>9. ASSUME NEW m \in Media, Archive(m)
      PROVE  MediaTypeOK'
  <2>1. rows[m] \in Row /\ rows' = [rows EXCEPT ![m].active = FALSE]
    BY <1>9 DEF Archive, MediaTypeOK, Present
  <2>2. [rows[m] EXCEPT !.active = FALSE] \in Row
    BY <2>1 DEF Row
  <2>3. rows' \in [Media -> Row \cup {None}]
    BY <2>1, <2>2 DEF MediaTypeOK
  <2> QED BY <1>9, <2>3 DEF Archive, MediaTypeOK, Steps
<1>10. ASSUME NEW w \in Workers, NEW row \in Row, NewForm(w, row)
      PROVE  MediaTypeOK'
  BY <1>10, MediaAssumption DEF MediaTypeOK, WorkOK, Known, Present, Steps, Idle, Row, Stores,
       Locks, Held, NewForm, Does
<1>11. ASSUME NEW w \in Workers, NEW m \in Media, NEW row \in Row, ReadForm(w, m, row)
      PROVE  MediaTypeOK'
  BY <1>11, MediaAssumption DEF MediaTypeOK, WorkOK, Known, Present, Steps, Idle, Row, Stores,
       Locks, Held, ReadForm, Does
<1>12. ASSUME NEW w \in Workers, NEW m \in Media, NEW f \in Files \cup {None}, WriteForm(w, m, f)
      PROVE  MediaTypeOK'
  BY <1>12, MediaAssumption DEF MediaTypeOK, WorkOK, Known, Present, Steps, Idle, Row, Stores,
       Locks, Held, WriteForm, Does
<1>13. ASSUME NEW w \in Workers, CommitForm(w)
      PROVE  MediaTypeOK'
  BY <1>13, MediaAssumption DEF MediaTypeOK, WorkOK, Known, Present, Steps, Idle, Row, Stores,
       Locks, Held, CommitForm, Ends
<1>14. ASSUME NEW m \in Media, DeleteRow(m)
      PROVE  MediaTypeOK'
  BY <1>14, MediaAssumption DEF MediaTypeOK, WorkOK, Known, Present, Steps, Idle, Row, Stores,
       Locks, Held, DeleteRow
<1>15. ASSUME NEW w \in Workers, Crash(w)
      PROVE  MediaTypeOK'
  BY <1>15, MediaAssumption DEF MediaTypeOK, WorkOK, Known, Present, Steps, Idle, Row, Stores,
       Locks, Held, Crash, Ends
<1>16. CASE UNCHANGED vars
  BY <1>16, MediaAssumption DEF MediaTypeOK, WorkOK, Known, Present, Steps, Idle, Row, Stores,
       Locks, Held, vars
<1> QED BY <1>1, <1>2, <1>3, <1>4, <1>5, <1>6, <1>7, <1>8, <1>9, <1>10, <1>11, <1>12, <1>13,
     <1>14, <1>15, <1>16 DEF Next, Service, Admin

\* Every step leaves each worker with what its step holds.
LEMMA WorkStep ==
  ASSUME MediaTypeOK, WorkOK, [Next]_vars
  PROVE  WorkOK'
<1>1. ASSUME NEW w \in Workers, NEW p \in Products, NEW t \in Types, Count(w, p, t)
      PROVE  WorkOK'
  <2> DEFINE r == [product |-> p, type |-> t, active |-> TRUE, file |-> None]
  <2>0. r \in Row
    BY DEF Row
  <2>1. r \in Row /\ r # None
    <3> HIDE DEF r
    <3> QED BY <2>0, MediaAssumption
  <2>2. work[w].step = "idle"
        /\ work' = [work EXCEPT ![w] = [step |-> "counted", media |-> None, row |-> r,
             old |-> None]]
    BY <1>1 DEF Count, Does
  <2> HIDE DEF r
  <2>3. /\ work'[w].step = "counted" /\ work'[w].row = r /\ work'[w].old = None
    BY <2>2 DEF MediaTypeOK
  <2>4. \A v \in Workers : v # w => work'[v] = work[v]
    BY <2>2 DEF MediaTypeOK
  <2> QED BY <2>1, <2>3, <2>4 DEF WorkOK, Stores, Locks
<1>2. ASSUME NEW w \in Workers, NEW f \in Files, Store(w, f)
      PROVE  WorkOK'
  BY <1>2, MediaAssumption DEF MediaTypeOK, WorkOK, Row, Present, Stores, Locks, Idle, Store
<1>3. ASSUME NEW w \in Workers, Refuse(w)
      PROVE  WorkOK'
  BY <1>3, MediaAssumption DEF MediaTypeOK, WorkOK, Row, Present, Stores, Locks, Idle, Refuse,
       Ends
<1>4. ASSUME NEW w \in Workers, Fail(w)
      PROVE  WorkOK'
  BY <1>4, MediaAssumption DEF MediaTypeOK, WorkOK, Row, Present, Stores, Locks, Idle, Fail, Ends
<1>5. ASSUME NEW w \in Workers, NEW m \in Media, CommitAdd(w, m)
      PROVE  WorkOK'
  BY <1>5, MediaAssumption DEF MediaTypeOK, WorkOK, Row, Present, Stores, Locks, Idle,
       CommitAdd, Ends
<1>6. ASSUME NEW w \in Workers, NEW m \in Media, LockRow(w, m)
      PROVE  WorkOK'
  BY <1>6, MediaAssumption DEF MediaTypeOK, WorkOK, Row, Present, Stores, Locks, Idle, LockRow,
       Does
<1>7. ASSUME NEW w \in Workers, CommitReplace(w)
      PROVE  WorkOK'
  BY <1>7, MediaAssumption DEF MediaTypeOK, WorkOK, Row, Present, Stores, Locks, Idle,
       CommitReplace, Does
<1>8. ASSUME NEW w \in Workers, Clean(w)
      PROVE  WorkOK'
  BY <1>8, MediaAssumption DEF MediaTypeOK, WorkOK, Row, Present, Stores, Locks, Idle, Clean, Ends
<1>9. ASSUME NEW m \in Media, Archive(m)
      PROVE  WorkOK'
  BY <1>9, MediaAssumption DEF MediaTypeOK, WorkOK, Row, Present, Stores, Locks, Idle, Archive
<1>10. ASSUME NEW w \in Workers, NEW row \in Row, NewForm(w, row)
      PROVE  WorkOK'
  BY <1>10, MediaAssumption DEF MediaTypeOK, WorkOK, Row, Present, Stores, Locks, Idle, NewForm,
       Does
<1>11. ASSUME NEW w \in Workers, NEW m \in Media, NEW row \in Row, ReadForm(w, m, row)
      PROVE  WorkOK'
  BY <1>11, MediaAssumption DEF MediaTypeOK, WorkOK, Row, Present, Stores, Locks, Idle,
       ReadForm, Does
<1>12. ASSUME NEW w \in Workers, NEW m \in Media, NEW f \in Files \cup {None}, WriteForm(w, m, f)
      PROVE  WorkOK'
  BY <1>12, MediaAssumption DEF MediaTypeOK, WorkOK, Row, Present, Stores, Locks, Idle,
       WriteForm, Does
<1>13. ASSUME NEW w \in Workers, CommitForm(w)
      PROVE  WorkOK'
  BY <1>13, MediaAssumption DEF MediaTypeOK, WorkOK, Row, Present, Stores, Locks, Idle,
       CommitForm, Ends
<1>14. ASSUME NEW m \in Media, DeleteRow(m)
      PROVE  WorkOK'
  BY <1>14, MediaAssumption DEF MediaTypeOK, WorkOK, Row, Present, Stores, Locks, Idle, DeleteRow
<1>15. ASSUME NEW w \in Workers, Crash(w)
      PROVE  WorkOK'
  BY <1>15, MediaAssumption DEF MediaTypeOK, WorkOK, Row, Present, Stores, Locks, Idle, Crash,
       Ends
<1>16. CASE UNCHANGED vars
  BY <1>16, MediaAssumption DEF MediaTypeOK, WorkOK, Row, Present, Stores, Locks, Idle, vars
<1> QED BY <1>1, <1>2, <1>3, <1>4, <1>5, <1>6, <1>7, <1>8, <1>9, <1>10, <1>11, <1>12, <1>13,
     <1>14, <1>15, <1>16 DEF Next, Service, Admin

\* Names and keys in use are known.
LEMMA KnownStep ==
  ASSUME MediaTypeOK, WorkOK, Known, Locked, [Next]_vars
  PROVE  Known'
<1>1. ASSUME NEW w \in Workers, NEW p \in Products, NEW t \in Types, Count(w, p, t)
      PROVE  Known'
  BY <1>1, MediaAssumption DEF MediaTypeOK, WorkOK, Known, Row, Present, Stores, Locks, Idle,
       Count, Does
<1>2. ASSUME NEW w \in Workers, NEW f \in Files, Store(w, f)
      PROVE  Known'
  BY <1>2, MediaAssumption DEF MediaTypeOK, WorkOK, Known, Row, Present, Stores, Locks, Idle,
       Store
<1>3. ASSUME NEW w \in Workers, Refuse(w)
      PROVE  Known'
  BY <1>3, MediaAssumption DEF MediaTypeOK, WorkOK, Known, Row, Present, Stores, Locks, Idle,
       Refuse, Ends
<1>4. ASSUME NEW w \in Workers, Fail(w)
      PROVE  Known'
  BY <1>4, MediaAssumption DEF MediaTypeOK, WorkOK, Known, Row, Present, Stores, Locks, Idle,
       Fail, Ends
<1>5. ASSUME NEW w \in Workers, NEW m \in Media, CommitAdd(w, m)
      PROVE  Known'
  BY <1>5, MediaAssumption DEF MediaTypeOK, WorkOK, Known, Row, Present, Stores, Locks, Idle,
       CommitAdd, Ends
<1>6. ASSUME NEW w \in Workers, NEW m \in Media, LockRow(w, m)
      PROVE  Known'
  BY <1>6, MediaAssumption DEF MediaTypeOK, WorkOK, Known, Row, Present, Stores, Locks, Idle,
       LockRow, Does
<1>7. ASSUME NEW w \in Workers, CommitReplace(w)
      PROVE  Known'
  <2>1. /\ work[w].step = "replacing" /\ work[w].media \in Media /\ work[w].row \in Row
        /\ work[w].row.file \in drawn
    BY <1>7, MediaAssumption DEF CommitReplace, WorkOK, Known, Stores, Locks
  <2>2. work[w].media \in keys
    BY <2>1 DEF Locked, Known
  <2> DEFINE r == work[w].row
             n == work[w].media
  <2>3. /\ rows' = [rows EXCEPT ![n] = r] /\ drawn' = drawn /\ keys' = keys
        /\ work' = [work EXCEPT ![w] = [step |-> "committed", media |-> None, row |-> None,
                                        old |-> work[w].old]]
    BY <1>7 DEF CommitReplace, Does
  <2>4. n \in Media /\ r.file \in drawn /\ n \in keys
    BY <2>1, <2>2
  <2> HIDE DEF r, n
  <2>5. \A m \in Media : Present(m)' => m \in keys' /\ rows'[m].file \in drawn'
    BY <2>3, <2>4 DEF Known, Present, MediaTypeOK
  <2>6. \A v \in Workers : work'[v].row # None => work'[v].row = work[v].row
    BY <2>3 DEF MediaTypeOK
  <2>7. \A v \in Workers : work'[v].old = work[v].old
       /\ (work'[v].step = "written" => work'[v] = work[v])
    BY <2>3 DEF MediaTypeOK
  <2> QED BY <2>3, <2>5, <2>6, <2>7 DEF Known
<1>8. ASSUME NEW w \in Workers, Clean(w)
      PROVE  Known'
  BY <1>8, MediaAssumption DEF MediaTypeOK, WorkOK, Known, Row, Present, Stores, Locks, Idle,
       Clean, Ends
<1>9. ASSUME NEW m \in Media, Archive(m)
      PROVE  Known'
  BY <1>9, MediaAssumption DEF MediaTypeOK, WorkOK, Known, Row, Present, Stores, Locks, Idle,
       Archive
<1>10. ASSUME NEW w \in Workers, NEW row \in Row, NewForm(w, row)
      PROVE  Known'
  BY <1>10, MediaAssumption DEF MediaTypeOK, WorkOK, Known, Row, Present, Stores, Locks, Idle,
       NewForm, Does
<1>11. ASSUME NEW w \in Workers, NEW m \in Media, NEW row \in Row, ReadForm(w, m, row)
      PROVE  Known'
  BY <1>11, MediaAssumption DEF MediaTypeOK, WorkOK, Known, Row, Present, Stores, Locks, Idle,
       ReadForm, Does
<1>12. ASSUME NEW w \in Workers, NEW m \in Media, NEW f \in Files \cup {None}, WriteForm(w, m, f)
      PROVE  Known'
  BY <1>12, MediaAssumption DEF MediaTypeOK, WorkOK, Known, Row, Present, Stores, Locks, Idle,
       WriteForm, Does
<1>13. ASSUME NEW w \in Workers, CommitForm(w)
      PROVE  Known'
  BY <1>13, MediaAssumption DEF MediaTypeOK, WorkOK, Known, Row, Present, Stores, Locks, Idle,
       CommitForm, Ends
<1>14. ASSUME NEW m \in Media, DeleteRow(m)
      PROVE  Known'
  BY <1>14, MediaAssumption DEF MediaTypeOK, WorkOK, Known, Row, Present, Stores, Locks, Idle,
       DeleteRow
<1>15. ASSUME NEW w \in Workers, Crash(w)
      PROVE  Known'
  BY <1>15, MediaAssumption DEF MediaTypeOK, WorkOK, Known, Row, Present, Stores, Locks, Idle,
       Crash, Ends
<1>16. CASE UNCHANGED vars
  BY <1>16, MediaAssumption DEF MediaTypeOK, WorkOK, Known, Row, Present, Stores, Locks, Idle,
       vars
<1> QED BY <1>1, <1>2, <1>3, <1>4, <1>5, <1>6, <1>7, <1>8, <1>9, <1>10, <1>11, <1>12, <1>13,
     <1>14, <1>15, <1>16 DEF Next, Service, Admin

\* No step takes or reuses an uploaded file.
LEMMA UploadsStep ==
  ASSUME MediaTypeOK, WorkOK, Known, UploadsOwn, [Next]_vars
  PROVE  UploadsOwn'
<1>1. ASSUME NEW w \in Workers, NEW p \in Products, NEW t \in Types, Count(w, p, t)
      PROVE  UploadsOwn'
  BY <1>1, MediaAssumption DEF MediaTypeOK, WorkOK, Known, UploadsOwn, Uploads, Row, Present,
       Stores, Locks, Idle, Referenced, Count, Does
<1>2. ASSUME NEW w \in Workers, NEW f \in Files, Store(w, f)
      PROVE  UploadsOwn'
  BY <1>2, MediaAssumption DEF MediaTypeOK, WorkOK, Known, UploadsOwn, Uploads, Row, Present,
       Stores, Locks, Idle, Referenced, Store
<1>3. ASSUME NEW w \in Workers, Refuse(w)
      PROVE  UploadsOwn'
  BY <1>3, MediaAssumption DEF MediaTypeOK, WorkOK, Known, UploadsOwn, Uploads, Row, Present,
       Stores, Locks, Idle, Referenced, Refuse, Ends
<1>4. ASSUME NEW w \in Workers, Fail(w)
      PROVE  UploadsOwn'
  BY <1>4, MediaAssumption DEF MediaTypeOK, WorkOK, Known, UploadsOwn, Uploads, Row, Present,
       Stores, Locks, Idle, Referenced, Fail, Ends
<1>5. ASSUME NEW w \in Workers, NEW m \in Media, CommitAdd(w, m)
      PROVE  UploadsOwn'
  BY <1>5, MediaAssumption DEF MediaTypeOK, WorkOK, Known, UploadsOwn, Uploads, Row, Present,
       Stores, Locks, Idle, Referenced, CommitAdd, Ends
<1>6. ASSUME NEW w \in Workers, NEW m \in Media, LockRow(w, m)
      PROVE  UploadsOwn'
  BY <1>6, MediaAssumption DEF MediaTypeOK, WorkOK, Known, UploadsOwn, Uploads, Row, Present,
       Stores, Locks, Idle, Referenced, LockRow, Does
<1>7. ASSUME NEW w \in Workers, CommitReplace(w)
      PROVE  UploadsOwn'
  BY <1>7, MediaAssumption DEF MediaTypeOK, WorkOK, Known, UploadsOwn, Uploads, Row, Present,
       Stores, Locks, Idle, Referenced, CommitReplace, Does
<1>8. ASSUME NEW w \in Workers, Clean(w)
      PROVE  UploadsOwn'
  BY <1>8, MediaAssumption DEF MediaTypeOK, WorkOK, Known, UploadsOwn, Uploads, Row, Present,
       Stores, Locks, Idle, Referenced, Clean, Ends
<1>9. ASSUME NEW m \in Media, Archive(m)
      PROVE  UploadsOwn'
  BY <1>9, MediaAssumption DEF MediaTypeOK, WorkOK, Known, UploadsOwn, Uploads, Row, Present,
       Stores, Locks, Idle, Referenced, Archive
<1>10. ASSUME NEW w \in Workers, NEW row \in Row, NewForm(w, row)
      PROVE  UploadsOwn'
  BY <1>10, MediaAssumption DEF MediaTypeOK, WorkOK, Known, UploadsOwn, Uploads, Row, Present,
       Stores, Locks, Idle, Referenced, NewForm, Does
<1>11. ASSUME NEW w \in Workers, NEW m \in Media, NEW row \in Row, ReadForm(w, m, row)
      PROVE  UploadsOwn'
  BY <1>11, MediaAssumption DEF MediaTypeOK, WorkOK, Known, UploadsOwn, Uploads, Row, Present,
       Stores, Locks, Idle, Referenced, ReadForm, Does
<1>12. ASSUME NEW w \in Workers, NEW m \in Media, NEW f \in Files \cup {None}, WriteForm(w, m, f)
      PROVE  UploadsOwn'
  BY <1>12, MediaAssumption DEF MediaTypeOK, WorkOK, Known, UploadsOwn, Uploads, Row, Present,
       Stores, Locks, Idle, Referenced, WriteForm, Does
<1>13. ASSUME NEW w \in Workers, CommitForm(w)
      PROVE  UploadsOwn'
  BY <1>13, MediaAssumption DEF MediaTypeOK, WorkOK, Known, UploadsOwn, Uploads, Row, Present,
       Stores, Locks, Idle, Referenced, CommitForm, Ends
<1>14. ASSUME NEW m \in Media, DeleteRow(m)
      PROVE  UploadsOwn'
  BY <1>14, MediaAssumption DEF MediaTypeOK, WorkOK, Known, UploadsOwn, Uploads, Row, Present,
       Stores, Locks, Idle, Referenced, DeleteRow
<1>15. ASSUME NEW w \in Workers, Crash(w)
      PROVE  UploadsOwn'
  BY <1>15, MediaAssumption DEF MediaTypeOK, WorkOK, Known, UploadsOwn, Uploads, Row, Present,
       Stores, Locks, Idle, Referenced, Crash, Ends
<1>16. CASE UNCHANGED vars
  BY <1>16, MediaAssumption DEF MediaTypeOK, WorkOK, Known, UploadsOwn, Uploads, Row, Present,
       Stores, Locks, Idle, Referenced, vars
<1> QED BY <1>1, <1>2, <1>3, <1>4, <1>5, <1>6, <1>7, <1>8, <1>9, <1>10, <1>11, <1>12, <1>13,
     <1>14, <1>15, <1>16 DEF Next, Service, Admin

\* Rows under lock do not move.
LEMMA LockedStep ==
  ASSUME MediaTypeOK, WorkOK, Known, Locked, [Next]_vars
  PROVE  Locked'
<1>1. ASSUME NEW w \in Workers, NEW p \in Products, NEW t \in Types, Count(w, p, t)
      PROVE  Locked'
  BY <1>1, MediaAssumption DEF MediaTypeOK, WorkOK, Known, Locked, Row, Present, Stores, Locks,
       Idle, RowHeld, Count, Does
<1>2. ASSUME NEW w \in Workers, NEW f \in Files, Store(w, f)
      PROVE  Locked'
  BY <1>2, MediaAssumption DEF MediaTypeOK, WorkOK, Known, Locked, Row, Present, Stores, Locks,
       Idle, RowHeld, Store
<1>3. ASSUME NEW w \in Workers, Refuse(w)
      PROVE  Locked'
  BY <1>3, MediaAssumption DEF MediaTypeOK, WorkOK, Known, Locked, Row, Present, Stores, Locks,
       Idle, RowHeld, Refuse, Ends
<1>4. ASSUME NEW w \in Workers, Fail(w)
      PROVE  Locked'
  BY <1>4, MediaAssumption DEF MediaTypeOK, WorkOK, Known, Locked, Row, Present, Stores, Locks,
       Idle, RowHeld, Fail, Ends
<1>5. ASSUME NEW w \in Workers, NEW m \in Media, CommitAdd(w, m)
      PROVE  Locked'
  BY <1>5, MediaAssumption DEF MediaTypeOK, WorkOK, Known, Locked, Row, Present, Stores, Locks,
       Idle, RowHeld, CommitAdd, Ends
<1>6. ASSUME NEW w \in Workers, NEW m \in Media, LockRow(w, m)
      PROVE  Locked'
  BY <1>6, MediaAssumption DEF MediaTypeOK, WorkOK, Known, Locked, Row, Present, Stores, Locks,
       Idle, RowHeld, LockRow, Does
<1>7. ASSUME NEW w \in Workers, CommitReplace(w)
      PROVE  Locked'
  BY <1>7, MediaAssumption DEF MediaTypeOK, WorkOK, Known, Locked, Row, Present, Stores, Locks,
       Idle, RowHeld, CommitReplace, Does
<1>8. ASSUME NEW w \in Workers, Clean(w)
      PROVE  Locked'
  BY <1>8, MediaAssumption DEF MediaTypeOK, WorkOK, Known, Locked, Row, Present, Stores, Locks,
       Idle, RowHeld, Clean, Ends
<1>9. ASSUME NEW m \in Media, Archive(m)
      PROVE  Locked'
  BY <1>9, MediaAssumption DEF MediaTypeOK, WorkOK, Known, Locked, Row, Present, Stores, Locks,
       Idle, RowHeld, Archive
<1>10. ASSUME NEW w \in Workers, NEW row \in Row, NewForm(w, row)
      PROVE  Locked'
  BY <1>10, MediaAssumption DEF MediaTypeOK, WorkOK, Known, Locked, Row, Present, Stores, Locks,
       Idle, RowHeld, NewForm, Does
<1>11. ASSUME NEW w \in Workers, NEW m \in Media, NEW row \in Row, ReadForm(w, m, row)
      PROVE  Locked'
  BY <1>11, MediaAssumption DEF MediaTypeOK, WorkOK, Known, Locked, Row, Present, Stores, Locks,
       Idle, RowHeld, ReadForm, Does
<1>12. ASSUME NEW w \in Workers, NEW m \in Media, NEW f \in Files \cup {None}, WriteForm(w, m, f)
      PROVE  Locked'
  BY <1>12, MediaAssumption DEF MediaTypeOK, WorkOK, Known, Locked, Row, Present, Stores, Locks,
       Idle, RowHeld, WriteForm, Does
<1>13. ASSUME NEW w \in Workers, CommitForm(w)
      PROVE  Locked'
  BY <1>13, MediaAssumption DEF MediaTypeOK, WorkOK, Known, Locked, Row, Present, Stores, Locks,
       Idle, RowHeld, CommitForm, Ends
<1>14. ASSUME NEW m \in Media, DeleteRow(m)
      PROVE  Locked'
  BY <1>14, MediaAssumption DEF MediaTypeOK, WorkOK, Known, Locked, Row, Present, Stores, Locks,
       Idle, RowHeld, DeleteRow
<1>15. ASSUME NEW w \in Workers, Crash(w)
      PROVE  Locked'
  BY <1>15, MediaAssumption DEF MediaTypeOK, WorkOK, Known, Locked, Row, Present, Stores, Locks,
       Idle, RowHeld, Crash, Ends
<1>16. CASE UNCHANGED vars
  BY <1>16, MediaAssumption DEF MediaTypeOK, WorkOK, Known, Locked, Row, Present, Stores, Locks,
       Idle, RowHeld, vars
<1> QED BY <1>1, <1>2, <1>3, <1>4, <1>5, <1>6, <1>7, <1>8, <1>9, <1>10, <1>11, <1>12, <1>13,
     <1>14, <1>15, <1>16 DEF Next, Service, Admin

\* Named files stay.
LEMMA NamedStep ==
  ASSUME MediaTypeOK, WorkOK, Known, UploadsOwn, Locked, NamedFileExists, [Next]_vars
  PROVE  NamedFileExists'
<1>1. ASSUME NEW w \in Workers, NEW p \in Products, NEW t \in Types, Count(w, p, t)
      PROVE  NamedFileExists'
  BY <1>1, MediaAssumption DEF MediaTypeOK, WorkOK, Known, UploadsOwn, Uploads, Locked,
       NamedFileExists, Row, Present, Stores, Locks, Idle, Referenced, Count, Does
<1>2. ASSUME NEW w \in Workers, NEW f \in Files, Store(w, f)
      PROVE  NamedFileExists'
  BY <1>2, MediaAssumption DEF MediaTypeOK, WorkOK, Known, UploadsOwn, Uploads, Locked,
       NamedFileExists, Row, Present, Stores, Locks, Idle, Referenced, Store
<1>3. ASSUME NEW w \in Workers, Refuse(w)
      PROVE  NamedFileExists'
  BY <1>3, MediaAssumption DEF MediaTypeOK, WorkOK, Known, UploadsOwn, Uploads, Locked,
       NamedFileExists, Row, Present, Stores, Locks, Idle, Referenced, Refuse, Ends
<1>4. ASSUME NEW w \in Workers, Fail(w)
      PROVE  NamedFileExists'
  BY <1>4, MediaAssumption DEF MediaTypeOK, WorkOK, Known, UploadsOwn, Uploads, Locked,
       NamedFileExists, Row, Present, Stores, Locks, Idle, Referenced, Fail, Ends
<1>5. ASSUME NEW w \in Workers, NEW m \in Media, CommitAdd(w, m)
      PROVE  NamedFileExists'
  BY <1>5, MediaAssumption DEF MediaTypeOK, WorkOK, Known, UploadsOwn, Uploads, Locked,
       NamedFileExists, Row, Present, Stores, Locks, Idle, Referenced, CommitAdd, Ends
<1>6. ASSUME NEW w \in Workers, NEW m \in Media, LockRow(w, m)
      PROVE  NamedFileExists'
  BY <1>6, MediaAssumption DEF MediaTypeOK, WorkOK, Known, UploadsOwn, Uploads, Locked,
       NamedFileExists, Row, Present, Stores, Locks, Idle, Referenced, LockRow, Does
<1>7. ASSUME NEW w \in Workers, CommitReplace(w)
      PROVE  NamedFileExists'
  BY <1>7, MediaAssumption DEF MediaTypeOK, WorkOK, Known, UploadsOwn, Uploads, Locked,
       NamedFileExists, Row, Present, Stores, Locks, Idle, Referenced, CommitReplace, Does
<1>8. ASSUME NEW w \in Workers, Clean(w)
      PROVE  NamedFileExists'
  BY <1>8, MediaAssumption DEF MediaTypeOK, WorkOK, Known, UploadsOwn, Uploads, Locked,
       NamedFileExists, Row, Present, Stores, Locks, Idle, Referenced, Clean, Ends
<1>9. ASSUME NEW m \in Media, Archive(m)
      PROVE  NamedFileExists'
  BY <1>9, MediaAssumption DEF MediaTypeOK, WorkOK, Known, UploadsOwn, Uploads, Locked,
       NamedFileExists, Row, Present, Stores, Locks, Idle, Referenced, Archive
<1>10. ASSUME NEW w \in Workers, NEW row \in Row, NewForm(w, row)
      PROVE  NamedFileExists'
  BY <1>10, MediaAssumption DEF MediaTypeOK, WorkOK, Known, UploadsOwn, Uploads, Locked,
       NamedFileExists, Row, Present, Stores, Locks, Idle, Referenced, NewForm, Does
<1>11. ASSUME NEW w \in Workers, NEW m \in Media, NEW row \in Row, ReadForm(w, m, row)
      PROVE  NamedFileExists'
  BY <1>11, MediaAssumption DEF MediaTypeOK, WorkOK, Known, UploadsOwn, Uploads, Locked,
       NamedFileExists, Row, Present, Stores, Locks, Idle, Referenced, ReadForm, Does
<1>12. ASSUME NEW w \in Workers, NEW m \in Media, NEW f \in Files \cup {None}, WriteForm(w, m, f)
      PROVE  NamedFileExists'
  BY <1>12, MediaAssumption DEF MediaTypeOK, WorkOK, Known, UploadsOwn, Uploads, Locked,
       NamedFileExists, Row, Present, Stores, Locks, Idle, Referenced, WriteForm, Does
<1>13. ASSUME NEW w \in Workers, CommitForm(w)
      PROVE  NamedFileExists'
  BY <1>13, MediaAssumption DEF MediaTypeOK, WorkOK, Known, UploadsOwn, Uploads, Locked,
       NamedFileExists, Row, Present, Stores, Locks, Idle, Referenced, CommitForm, Ends
<1>14. ASSUME NEW m \in Media, DeleteRow(m)
      PROVE  NamedFileExists'
  BY <1>14, MediaAssumption DEF MediaTypeOK, WorkOK, Known, UploadsOwn, Uploads, Locked,
       NamedFileExists, Row, Present, Stores, Locks, Idle, Referenced, DeleteRow
<1>15. ASSUME NEW w \in Workers, Crash(w)
      PROVE  NamedFileExists'
  BY <1>15, MediaAssumption DEF MediaTypeOK, WorkOK, Known, UploadsOwn, Uploads, Locked,
       NamedFileExists, Row, Present, Stores, Locks, Idle, Referenced, Crash, Ends
<1>16. CASE UNCHANGED vars
  BY <1>16, MediaAssumption DEF MediaTypeOK, WorkOK, Known, UploadsOwn, Uploads, Locked,
       NamedFileExists, Row, Present, Stores, Locks, Idle, Referenced, vars
<1> QED BY <1>1, <1>2, <1>3, <1>4, <1>5, <1>6, <1>7, <1>8, <1>9, <1>10, <1>11, <1>12, <1>13,
     <1>14, <1>15, <1>16 DEF Next, Service, Admin

\* Files are accounted for.
LEMMA LeftoversStep ==
  ASSUME MediaTypeOK, WorkOK, Known, UploadsOwn, Locked, NoLeftovers, [Next]_vars
  PROVE  NoLeftovers'
<1>1. ASSUME NEW w \in Workers, NEW p \in Products, NEW t \in Types, Count(w, p, t)
      PROVE  NoLeftovers'
  BY <1>1, MediaAssumption DEF MediaTypeOK, WorkOK, Known, Locked, NoLeftovers, Held, Row,
       Present, Stores, Locks, Idle, Referenced, Count, Does
<1>2. ASSUME NEW w \in Workers, NEW f \in Files, Store(w, f)
      PROVE  NoLeftovers'
  BY <1>2, MediaAssumption DEF MediaTypeOK, WorkOK, Known, Locked, NoLeftovers, Held, Row,
       Present, Stores, Locks, Idle, Referenced, Store
<1>3. ASSUME NEW w \in Workers, Refuse(w)
      PROVE  NoLeftovers'
  <2> SUFFICES ASSUME NEW g \in files'
               PROVE  Referenced(g)' \/ g \in lost' \/ \E v \in Workers : g \in Held(v)'
    BY DEF NoLeftovers
  <2>1. /\ work' = [work EXCEPT ![w] = Idle] /\ rows' = rows /\ g \in files /\ lost' = lost
        /\ work[w].step \in {"counted", "locked"}
    BY <1>3 DEF Refuse, Ends
  <2>2. CASE Referenced(g) \/ g \in lost
    BY <2>1, <2>2 DEF Referenced, Present
  <2>3. ASSUME NEW v \in Workers, g \in Held(v), v # w
        PROVE  g \in Held(v)'
    BY <2>1, <2>3 DEF Held, MediaTypeOK
  <2>4. CASE g \in Held(w)
    <3>1. g = work[w].old
      BY <2>1, <2>4 DEF Held
    <3>2. g # None
      BY <2>1, MediaAssumption DEF MediaTypeOK
    <3>3. work[w].step = "locked" /\ work[w].media \in Media
      BY <2>1, <3>1, <3>2 DEF WorkOK, Locks
    <3>4. Present(work[w].media) /\ rows[work[w].media].file = g
      BY <3>1, <3>3, MediaAssumption DEF Locked, WorkOK, Row
    <3>5. Referenced(g)
      BY <3>3, <3>4 DEF Referenced
    <3> QED BY <2>2, <3>5
  <2> QED BY <2>1, <2>2, <2>3, <2>4 DEF NoLeftovers
<1>4. ASSUME NEW w \in Workers, Fail(w)
      PROVE  NoLeftovers'
  <2> SUFFICES ASSUME NEW g \in files'
               PROVE  Referenced(g)' \/ g \in lost' \/ \E v \in Workers : g \in Held(v)'
    BY DEF NoLeftovers
  <2>1. /\ work' = [work EXCEPT ![w] = Idle] /\ rows' = rows /\ g \in files /\ lost' = lost
        /\ work[w].step \in {"stored", "replacing"} /\ g # work[w].row.file
    BY <1>4 DEF Fail, Ends
  <2>2. CASE Referenced(g) \/ g \in lost
    BY <2>1, <2>2 DEF Referenced, Present
  <2>3. ASSUME NEW v \in Workers, g \in Held(v), v # w
        PROVE  g \in Held(v)'
    BY <2>1, <2>3 DEF Held, MediaTypeOK
  <2>4. CASE g \in Held(w)
    <3>1. g = work[w].old
      BY <2>1, <2>4 DEF Held
    <3>2. g # None
      BY <2>1, MediaAssumption DEF MediaTypeOK
    <3>3. work[w].step = "replacing" /\ work[w].media \in Media
      BY <2>1, <3>1, <3>2 DEF WorkOK, Locks
    <3>4. Present(work[w].media) /\ rows[work[w].media].file = g
      BY <3>1, <3>3, MediaAssumption DEF Locked, WorkOK, Row
    <3>5. Referenced(g)
      BY <3>3, <3>4 DEF Referenced
    <3> QED BY <2>2, <3>5
  <2> QED BY <2>1, <2>2, <2>3, <2>4 DEF NoLeftovers
<1>5. ASSUME NEW w \in Workers, NEW m \in Media, CommitAdd(w, m)
      PROVE  NoLeftovers'
  <2> SUFFICES ASSUME NEW g \in files'
               PROVE  Referenced(g)' \/ g \in lost' \/ \E v \in Workers : g \in Held(v)'
    BY DEF NoLeftovers
  <2>1. /\ rows' = [rows EXCEPT ![m] = work[w].row] /\ work' = [work EXCEPT ![w] = Idle]
        /\ work[w].step = "stored" /\ m \notin keys /\ g \in files /\ lost' = lost
    BY <1>5 DEF CommitAdd, Ends
  <2>2. ~Present(m)
    BY <2>1 DEF Known
  <2>3. work[w].row # None /\ work[w].old = None /\ g # None
    BY <2>1, MediaAssumption DEF WorkOK, MediaTypeOK
  <2>4. CASE g \in lost
    BY <2>1, <2>4
  <2>5. ASSUME NEW n \in Media, Present(n), rows[n].file = g
        PROVE  Referenced(g)'
    <3>1. rows'[n] = rows[n]
      BY <2>1, <2>2, <2>5 DEF MediaTypeOK
    <3> QED BY <2>5, <3>1 DEF Referenced, Present
  <2>6. ASSUME NEW v \in Workers, g \in Held(v), v # w
        PROVE  g \in Held(v)'
    BY <2>1, <2>6 DEF Held, MediaTypeOK
  <2>7. CASE g \in Held(w)
    <3>1. g = work[w].row.file
      BY <2>1, <2>3, <2>7 DEF Held
    <3>2. rows'[m] = work[w].row
      BY <2>1 DEF MediaTypeOK
    <3> QED BY <2>3, <3>1, <3>2 DEF Referenced, Present
  <2> QED BY <2>1, <2>4, <2>5, <2>6, <2>7 DEF NoLeftovers, Referenced
<1>6. ASSUME NEW w \in Workers, NEW m \in Media, LockRow(w, m)
      PROVE  NoLeftovers'
  <2> SUFFICES ASSUME NEW g \in files'
               PROVE  Referenced(g)' \/ g \in lost' \/ \E v \in Workers : g \in Held(v)'
    BY DEF NoLeftovers
  <2>1. /\ rows' = rows /\ lost' = lost /\ g \in files /\ work[w].step = "idle"
        /\ \A v \in Workers : v # w => work'[v] = work[v]
    BY <1>6 DEF LockRow, Does, MediaTypeOK
  <2>2. CASE Referenced(g) \/ g \in lost
    BY <2>1, <2>2 DEF Referenced, Present
  <2>3. ASSUME NEW v \in Workers, g \in Held(v)
        PROVE  v # w
    BY <2>1, <2>3, MediaAssumption DEF Held, WorkOK, MediaTypeOK
  <2>4. ASSUME NEW v \in Workers, g \in Held(v)
        PROVE  g \in Held(v)'
    BY <2>1, <2>3, <2>4 DEF Held
  <2> QED BY <2>1, <2>2, <2>4 DEF NoLeftovers
<1>7. ASSUME NEW w \in Workers, CommitReplace(w)
      PROVE  NoLeftovers'
  <2> SUFFICES ASSUME NEW g \in files'
               PROVE  Referenced(g)' \/ g \in lost' \/ \E v \in Workers : g \in Held(v)'
    BY DEF NoLeftovers
  <2>1. /\ rows' = [rows EXCEPT ![work[w].media] = work[w].row]
        /\ work[w].step = "replacing" /\ g \in files /\ lost' = lost
        /\ work' = [work EXCEPT ![w] = [step |-> "committed", media |-> None, row |-> None,
                                        old |-> work[w].old]]
    BY <1>7 DEF CommitReplace, Does
  <2>2. /\ work[w].media \in Media /\ work[w].row \in Row /\ work[w].row # None
        /\ rows[work[w].media].file = work[w].old
    BY <2>1, MediaAssumption DEF WorkOK, Locked, Locks, Row
  <2>3. work'[w].old = work[w].old
    BY <2>1 DEF MediaTypeOK
  <2>4. CASE g = work[w].old
    BY <2>3, <2>4 DEF Held
  <2>5. ASSUME NEW m \in Media, Present(m), rows[m].file = g, g # work[w].old
        PROVE  Referenced(g)'
    BY <2>1, <2>2, <2>5 DEF Referenced, Present, MediaTypeOK
  <2>6. CASE g = work[w].row.file
    <3>1. rows'[work[w].media] = work[w].row
      BY <2>1, <2>2 DEF MediaTypeOK
    <3> QED BY <2>2, <2>6, <3>1 DEF Referenced, Present
  <2>7. ASSUME NEW v \in Workers, g \in Held(v), v # w
        PROVE  g \in Held(v)'
    BY <2>1, <2>7 DEF Held, MediaTypeOK
  <2>8. g \in Held(w) => g = work[w].old \/ g = work[w].row.file
    BY DEF Held
  <2> QED BY <2>1, <2>4, <2>5, <2>6, <2>7, <2>8 DEF NoLeftovers, Referenced
<1>8. ASSUME NEW w \in Workers, Clean(w)
      PROVE  NoLeftovers'
  <2> SUFFICES ASSUME NEW g \in files'
               PROVE  Referenced(g)' \/ g \in lost' \/ \E v \in Workers : g \in Held(v)'
    BY DEF NoLeftovers
  <2>1. /\ work' = [work EXCEPT ![w] = Idle] /\ rows' = rows /\ lost' = lost
        /\ work[w].step = "committed" /\ g \in files
        /\ Referenced(work[w].old) \/ g # work[w].old
    BY <1>8 DEF Clean, Ends
  <2>2. CASE Referenced(g) \/ g \in lost
    BY <2>1, <2>2 DEF Referenced, Present
  <2>3. ASSUME NEW v \in Workers, g \in Held(v), v # w
        PROVE  g \in Held(v)'
    BY <2>1, <2>3 DEF Held, MediaTypeOK
  <2>4. CASE g \in Held(w)
    <3>1. g = work[w].old
      BY <2>1, <2>4 DEF Held
    <3> QED BY <2>1, <2>2, <3>1
  <2> QED BY <2>1, <2>2, <2>3, <2>4 DEF NoLeftovers
<1>9. ASSUME NEW m \in Media, Archive(m)
      PROVE  NoLeftovers'
  <2> SUFFICES ASSUME NEW g \in files'
               PROVE  Referenced(g)' \/ g \in lost' \/ \E v \in Workers : g \in Held(v)'
    BY DEF NoLeftovers
  <2>1. /\ rows' = [rows EXCEPT ![m].active = FALSE] /\ work' = work /\ lost' = lost
        /\ g \in files /\ rows[m] \in Row
    BY <1>9 DEF Archive, MediaTypeOK, Present
  <2>2. [rows[m] EXCEPT !.active = FALSE] \in Row
       /\ [rows[m] EXCEPT !.active = FALSE].file = rows[m].file
    BY <2>1 DEF Row
  <2>3. \A n \in Media : Present(n) => Present(n)' /\ rows'[n].file = rows[n].file
    BY <2>1, <2>2, MediaAssumption DEF Present, MediaTypeOK
  <2>4. Referenced(g) => Referenced(g)'
    BY <2>3 DEF Referenced
  <2> QED BY <2>1, <2>4 DEF NoLeftovers, Held
<1>10. ASSUME NEW w \in Workers, NEW row \in Row, NewForm(w, row)
      PROVE  NoLeftovers'
  BY <1>10, MediaAssumption DEF MediaTypeOK, WorkOK, Known, Locked, NoLeftovers, Held, Row,
       Present, Stores, Locks, Idle, Referenced, NewForm, Does
<1>11. ASSUME NEW w \in Workers, NEW m \in Media, NEW row \in Row, ReadForm(w, m, row)
      PROVE  NoLeftovers'
  BY <1>11, MediaAssumption DEF MediaTypeOK, WorkOK, Known, Locked, NoLeftovers, Held, Row,
       Present, Stores, Locks, Idle, Referenced, ReadForm, Does
<1>12. ASSUME NEW w \in Workers, NEW m \in Media, NEW f \in Files \cup {None}, WriteForm(w, m, f)
      PROVE  NoLeftovers'
  BY <1>12, MediaAssumption DEF MediaTypeOK, WorkOK, Known, Locked, NoLeftovers, Held, Row,
       Present, Stores, Locks, Idle, Referenced, WriteForm, Does
<1>13. ASSUME NEW w \in Workers, CommitForm(w)
      PROVE  NoLeftovers'
  BY <1>13, MediaAssumption DEF MediaTypeOK, WorkOK, Known, Locked, NoLeftovers, Held, Row,
       Present, Stores, Locks, Idle, Referenced, CommitForm, Ends
<1>14. ASSUME NEW m \in Media, DeleteRow(m)
      PROVE  NoLeftovers'
  BY <1>14, MediaAssumption DEF MediaTypeOK, WorkOK, Known, Locked, NoLeftovers, Held, Row,
       Present, Stores, Locks, Idle, Referenced, DeleteRow
<1>15. ASSUME NEW w \in Workers, Crash(w)
      PROVE  NoLeftovers'
  BY <1>15, MediaAssumption DEF MediaTypeOK, WorkOK, Known, Locked, NoLeftovers, Held, Row,
       Present, Stores, Locks, Idle, Referenced, Crash, Ends
<1>16. CASE UNCHANGED vars
  BY <1>16, MediaAssumption DEF MediaTypeOK, WorkOK, Known, Locked, NoLeftovers, Held, Row,
       Present, Stores, Locks, Idle, Referenced, vars
<1> QED BY <1>1, <1>2, <1>3, <1>4, <1>5, <1>6, <1>7, <1>8, <1>9, <1>10, <1>11, <1>12, <1>13,
     <1>14, <1>15, <1>16 DEF Next, Service, Admin

\* Only the commit of an upload gives a product a media no form wrote.
LEMMA PlainShrinks ==
  ASSUME MediaTypeOK, WorkOK, Known, Locked, [Next]_vars
  PROVE  (\A x \in Products, y \in Types : Plain(x, y)' \subseteq Plain(x, y)) \/ Inserts
<1>1. ASSUME NEW w \in Workers, NEW p \in Products, NEW t \in Types, Count(w, p, t)
      PROVE  (\A x \in Products, y \in Types : Plain(x, y)' \subseteq Plain(x, y)) \/ Inserts
  BY <1>1, MediaAssumption DEF MediaTypeOK, WorkOK, Known, Locked, Plain, ActiveIn, Row,
       Present, Stores, Locks, Idle, Count, Does
<1>2. ASSUME NEW w \in Workers, NEW f \in Files, Store(w, f)
      PROVE  (\A x \in Products, y \in Types : Plain(x, y)' \subseteq Plain(x, y)) \/ Inserts
  BY <1>2, MediaAssumption DEF MediaTypeOK, WorkOK, Known, Locked, Plain, ActiveIn, Row,
       Present, Stores, Locks, Idle, Store
<1>3. ASSUME NEW w \in Workers, Refuse(w)
      PROVE  (\A x \in Products, y \in Types : Plain(x, y)' \subseteq Plain(x, y)) \/ Inserts
  BY <1>3, MediaAssumption DEF MediaTypeOK, WorkOK, Known, Locked, Plain, ActiveIn, Row,
       Present, Stores, Locks, Idle, Refuse, Ends
<1>4. ASSUME NEW w \in Workers, Fail(w)
      PROVE  (\A x \in Products, y \in Types : Plain(x, y)' \subseteq Plain(x, y)) \/ Inserts
  BY <1>4, MediaAssumption DEF MediaTypeOK, WorkOK, Known, Locked, Plain, ActiveIn, Row,
       Present, Stores, Locks, Idle, Fail, Ends
<1>5. ASSUME NEW w \in Workers, NEW m \in Media, CommitAdd(w, m)
      PROVE  (\A x \in Products, y \in Types : Plain(x, y)' \subseteq Plain(x, y)) \/ Inserts
  BY <1>5 DEF Inserts
<1>6. ASSUME NEW w \in Workers, NEW m \in Media, LockRow(w, m)
      PROVE  (\A x \in Products, y \in Types : Plain(x, y)' \subseteq Plain(x, y)) \/ Inserts
  BY <1>6, MediaAssumption DEF MediaTypeOK, WorkOK, Known, Locked, Plain, ActiveIn, Row,
       Present, Stores, Locks, Idle, LockRow, Does
<1>7. ASSUME NEW w \in Workers, CommitReplace(w)
      PROVE  (\A x \in Products, y \in Types : Plain(x, y)' \subseteq Plain(x, y)) \/ Inserts
  <2>1. /\ work[w].step = "replacing" /\ work[w].media \in Media /\ work[w].row \in Row
        /\ rows' = [rows EXCEPT ![work[w].media] = work[w].row] /\ formed' = formed
    BY <1>7, MediaAssumption DEF CommitReplace, WorkOK, Locks
  <2>2. /\ Present(work[w].media)
        /\ rows[work[w].media] = [work[w].row EXCEPT !.file = work[w].old]
    BY <2>1 DEF Locked
  <2>3. /\ work[w].row.active = rows[work[w].media].active
        /\ work[w].row.product = rows[work[w].media].product
        /\ work[w].row.type = rows[work[w].media].type
    BY <2>1, <2>2 DEF Row
  <2> DEFINE n == work[w].media
             r == work[w].row
  <2>4. /\ rows' = [rows EXCEPT ![n] = r] /\ n \in Media /\ Present(n)
        /\ r.active = rows[n].active /\ r.product = rows[n].product /\ r.type = rows[n].type
    BY <2>1, <2>2, <2>3
  <2> HIDE DEF n, r
  <2>5. \A m \in Media : Present(m)' =>
          /\ Present(m)
          /\ rows'[m].active = rows[m].active
          /\ rows'[m].product = rows[m].product /\ rows'[m].type = rows[m].type
    BY <2>4 DEF Present, MediaTypeOK
  <2> QED BY <2>1, <2>5 DEF Plain, ActiveIn
<1>8. ASSUME NEW w \in Workers, Clean(w)
      PROVE  (\A x \in Products, y \in Types : Plain(x, y)' \subseteq Plain(x, y)) \/ Inserts
  BY <1>8, MediaAssumption DEF MediaTypeOK, WorkOK, Known, Locked, Plain, ActiveIn, Row,
       Present, Stores, Locks, Idle, Clean, Ends
<1>9. ASSUME NEW m \in Media, Archive(m)
      PROVE  (\A x \in Products, y \in Types : Plain(x, y)' \subseteq Plain(x, y)) \/ Inserts
  BY <1>9, MediaAssumption DEF MediaTypeOK, WorkOK, Known, Locked, Plain, ActiveIn, Row,
       Present, Stores, Locks, Idle, Archive
<1>10. ASSUME NEW w \in Workers, NEW row \in Row, NewForm(w, row)
      PROVE  (\A x \in Products, y \in Types : Plain(x, y)' \subseteq Plain(x, y)) \/ Inserts
  BY <1>10, MediaAssumption DEF MediaTypeOK, WorkOK, Known, Locked, Plain, ActiveIn, Row,
       Present, Stores, Locks, Idle, NewForm, Does
<1>11. ASSUME NEW w \in Workers, NEW m \in Media, NEW row \in Row, ReadForm(w, m, row)
      PROVE  (\A x \in Products, y \in Types : Plain(x, y)' \subseteq Plain(x, y)) \/ Inserts
  BY <1>11, MediaAssumption DEF MediaTypeOK, WorkOK, Known, Locked, Plain, ActiveIn, Row,
       Present, Stores, Locks, Idle, ReadForm, Does
<1>12. ASSUME NEW w \in Workers, NEW m \in Media, NEW f \in Files \cup {None}, WriteForm(w, m, f)
      PROVE  (\A x \in Products, y \in Types : Plain(x, y)' \subseteq Plain(x, y)) \/ Inserts
  BY <1>12, MediaAssumption DEF MediaTypeOK, WorkOK, Known, Locked, Plain, ActiveIn, Row,
       Present, Stores, Locks, Idle, WriteForm, Does
<1>13. ASSUME NEW w \in Workers, CommitForm(w)
      PROVE  (\A x \in Products, y \in Types : Plain(x, y)' \subseteq Plain(x, y)) \/ Inserts
  BY <1>13, MediaAssumption DEF MediaTypeOK, WorkOK, Known, Locked, Plain, ActiveIn, Row,
       Present, Stores, Locks, Idle, CommitForm, Ends
<1>14. ASSUME NEW m \in Media, DeleteRow(m)
      PROVE  (\A x \in Products, y \in Types : Plain(x, y)' \subseteq Plain(x, y)) \/ Inserts
  BY <1>14, MediaAssumption DEF MediaTypeOK, WorkOK, Known, Locked, Plain, ActiveIn, Row,
       Present, Stores, Locks, Idle, DeleteRow
<1>15. ASSUME NEW w \in Workers, Crash(w)
      PROVE  (\A x \in Products, y \in Types : Plain(x, y)' \subseteq Plain(x, y)) \/ Inserts
  BY <1>15, MediaAssumption DEF MediaTypeOK, WorkOK, Known, Locked, Plain, ActiveIn, Row,
       Present, Stores, Locks, Idle, Crash, Ends
<1>16. CASE UNCHANGED vars
  BY <1>16, MediaAssumption DEF MediaTypeOK, WorkOK, Known, Locked, Plain, ActiveIn, Row,
       Present, Stores, Locks, Idle, vars
<1> QED BY <1>1, <1>2, <1>3, <1>4, <1>5, <1>6, <1>7, <1>8, <1>9, <1>10, <1>11, <1>12, <1>13,
     <1>14, <1>15, <1>16 DEF Next, Service, Admin

\* Only a count starts an upload; none changes its product or its type.
LEMMA AddingKept ==
  ASSUME MediaTypeOK, WorkOK, [Next]_vars
  PROVE  (\A v \in Workers : Adding(v)' => Adding(v)
       /\ work'[v].row.product = work[v].row.product
       /\ work'[v].row.type = work[v].row.type) \/ Counts
<1>1. ASSUME NEW w \in Workers, NEW p \in Products, NEW t \in Types, Count(w, p, t)
      PROVE  (\A v \in Workers : Adding(v)' => Adding(v)
           /\ work'[v].row.product = work[v].row.product
           /\ work'[v].row.type = work[v].row.type) \/ Counts
  BY <1>1 DEF Counts
<1>2. ASSUME NEW w \in Workers, NEW f \in Files, Store(w, f)
      PROVE  (\A v \in Workers : Adding(v)' => Adding(v)
           /\ work'[v].row.product = work[v].row.product
           /\ work'[v].row.type = work[v].row.type) \/ Counts
  BY <1>2, MediaAssumption DEF MediaTypeOK, WorkOK, Adding, Idle, Row, Store
<1>3. ASSUME NEW w \in Workers, Refuse(w)
      PROVE  (\A v \in Workers : Adding(v)' => Adding(v)
           /\ work'[v].row.product = work[v].row.product
           /\ work'[v].row.type = work[v].row.type) \/ Counts
  BY <1>3, MediaAssumption DEF MediaTypeOK, WorkOK, Adding, Idle, Row, Refuse, Ends
<1>4. ASSUME NEW w \in Workers, Fail(w)
      PROVE  (\A v \in Workers : Adding(v)' => Adding(v)
           /\ work'[v].row.product = work[v].row.product
           /\ work'[v].row.type = work[v].row.type) \/ Counts
  BY <1>4, MediaAssumption DEF MediaTypeOK, WorkOK, Adding, Idle, Row, Fail, Ends
<1>5. ASSUME NEW w \in Workers, NEW m \in Media, CommitAdd(w, m)
      PROVE  (\A v \in Workers : Adding(v)' => Adding(v)
           /\ work'[v].row.product = work[v].row.product
           /\ work'[v].row.type = work[v].row.type) \/ Counts
  BY <1>5, MediaAssumption DEF MediaTypeOK, WorkOK, Adding, Idle, Row, CommitAdd, Ends
<1>6. ASSUME NEW w \in Workers, NEW m \in Media, LockRow(w, m)
      PROVE  (\A v \in Workers : Adding(v)' => Adding(v)
           /\ work'[v].row.product = work[v].row.product
           /\ work'[v].row.type = work[v].row.type) \/ Counts
  BY <1>6, MediaAssumption DEF MediaTypeOK, WorkOK, Adding, Idle, Row, LockRow, Does
<1>7. ASSUME NEW w \in Workers, CommitReplace(w)
      PROVE  (\A v \in Workers : Adding(v)' => Adding(v)
           /\ work'[v].row.product = work[v].row.product
           /\ work'[v].row.type = work[v].row.type) \/ Counts
  BY <1>7, MediaAssumption DEF MediaTypeOK, WorkOK, Adding, Idle, Row, CommitReplace, Does
<1>8. ASSUME NEW w \in Workers, Clean(w)
      PROVE  (\A v \in Workers : Adding(v)' => Adding(v)
           /\ work'[v].row.product = work[v].row.product
           /\ work'[v].row.type = work[v].row.type) \/ Counts
  BY <1>8, MediaAssumption DEF MediaTypeOK, WorkOK, Adding, Idle, Row, Clean, Ends
<1>9. ASSUME NEW m \in Media, Archive(m)
      PROVE  (\A v \in Workers : Adding(v)' => Adding(v)
           /\ work'[v].row.product = work[v].row.product
           /\ work'[v].row.type = work[v].row.type) \/ Counts
  BY <1>9, MediaAssumption DEF MediaTypeOK, WorkOK, Adding, Idle, Row, Archive
<1>10. ASSUME NEW w \in Workers, NEW row \in Row, NewForm(w, row)
      PROVE  (\A v \in Workers : Adding(v)' => Adding(v)
           /\ work'[v].row.product = work[v].row.product
           /\ work'[v].row.type = work[v].row.type) \/ Counts
  BY <1>10, MediaAssumption DEF MediaTypeOK, WorkOK, Adding, Idle, Row, NewForm, Does
<1>11. ASSUME NEW w \in Workers, NEW m \in Media, NEW row \in Row, ReadForm(w, m, row)
      PROVE  (\A v \in Workers : Adding(v)' => Adding(v)
           /\ work'[v].row.product = work[v].row.product
           /\ work'[v].row.type = work[v].row.type) \/ Counts
  BY <1>11, MediaAssumption DEF MediaTypeOK, WorkOK, Adding, Idle, Row, ReadForm, Does
<1>12. ASSUME NEW w \in Workers, NEW m \in Media, NEW f \in Files \cup {None}, WriteForm(w, m, f)
      PROVE  (\A v \in Workers : Adding(v)' => Adding(v)
           /\ work'[v].row.product = work[v].row.product
           /\ work'[v].row.type = work[v].row.type) \/ Counts
  BY <1>12, MediaAssumption DEF MediaTypeOK, WorkOK, Adding, Idle, Row, WriteForm, Does
<1>13. ASSUME NEW w \in Workers, CommitForm(w)
      PROVE  (\A v \in Workers : Adding(v)' => Adding(v)
           /\ work'[v].row.product = work[v].row.product
           /\ work'[v].row.type = work[v].row.type) \/ Counts
  BY <1>13, MediaAssumption DEF MediaTypeOK, WorkOK, Adding, Idle, Row, CommitForm, Ends
<1>14. ASSUME NEW m \in Media, DeleteRow(m)
      PROVE  (\A v \in Workers : Adding(v)' => Adding(v)
           /\ work'[v].row.product = work[v].row.product
           /\ work'[v].row.type = work[v].row.type) \/ Counts
  BY <1>14, MediaAssumption DEF MediaTypeOK, WorkOK, Adding, Idle, Row, DeleteRow
<1>15. ASSUME NEW w \in Workers, Crash(w)
      PROVE  (\A v \in Workers : Adding(v)' => Adding(v)
           /\ work'[v].row.product = work[v].row.product
           /\ work'[v].row.type = work[v].row.type) \/ Counts
  BY <1>15, MediaAssumption DEF MediaTypeOK, WorkOK, Adding, Idle, Row, Crash, Ends
<1>16. CASE UNCHANGED vars
  BY <1>16, MediaAssumption DEF MediaTypeOK, WorkOK, Adding, Idle, Row, vars
<1> QED BY <1>1, <1>2, <1>3, <1>4, <1>5, <1>6, <1>7, <1>8, <1>9, <1>10, <1>11, <1>12, <1>13,
     <1>14, <1>15, <1>16 DEF Next, Service, Admin

\* Cardinalities of sets of rows: natural, and monotone.
LEMMA PlainCardinality ==
  ASSUME NEW S, NEW T, S \subseteq T, T \subseteq Media
  PROVE  Cardinality(S) \in Nat /\ Cardinality(T) \in Nat /\ Cardinality(S) <= Cardinality(T)
<1>1. IsFiniteSet(T)
  BY MediaAssumption, FS_Subset
<1>2. IsFiniteSet(S) /\ Cardinality(S) <= Cardinality(T)
  BY <1>1, FS_Subset
<1> QED BY <1>1, <1>2, FS_CardinalityType

\* An insertion adds one row, to the product and type its upload counted.
LEMMA InsertAddsOne ==
  ASSUME MediaTypeOK, WorkOK, Known, NEW w \in Workers, NEW m \in Media, CommitAdd(w, m)
  PROVE  /\ \A p \in Products, t \in Types : Plain(p, t)' \subseteq Plain(p, t) \cup {m}
         /\ \A p \in Products, t \in Types :
              p # work[w].row.product \/ t # work[w].row.type => Plain(p, t)' \subseteq Plain(p,
                   t)
<1>1. /\ rows' = [rows EXCEPT ![m] = work[w].row] /\ formed' = formed
      /\ work[w].row \in Row /\ m \notin keys
  BY DEF CommitAdd, WorkOK
<1>2. \A n \in Media : n # m => rows'[n] = rows[n]
  BY <1>1 DEF MediaTypeOK
<1>3. rows'[m] = work[w].row
  BY <1>1 DEF MediaTypeOK
<1> QED BY <1>1, <1>2, <1>3 DEF Plain, ActiveIn, Present

\* Room and exclusion of whoever counted last until the insertion.
LEMMA CountedStep ==
  ASSUME MediaTypeOK, WorkOK, Known, Locked, Counted, [Next]_vars
  PROVE  Counted'
<1> DEFINE Adds(v) == work[v].step \in {"counted", "stored"}
<1>1. \A x \in Products, y \in Types : Plain(x, y) \subseteq Media
  BY DEF Plain, ActiveIn
<1>2. ASSUME NEW x \in Products, NEW y \in Types, Plain(x, y)' \subseteq Plain(x, y),
             Cardinality(Plain(x, y)) < MAX
      PROVE  Cardinality(Plain(x, y)') < MAX
  BY <1>1, <1>2, PlainCardinality, MediaAssumption
<1>3. ASSUME NEW w \in Workers, NEW x \in Products, NEW y \in Types, Count(w, x, y)
      PROVE  Counted'
  <2>1. /\ Cardinality(ActiveIn(x, y)) < MAX
        /\ \A v \in Workers : Adds(v) => work[v].row.product # x
        /\ rows' = rows /\ formed' = formed
    BY <1>3 DEF Count, AddHolds
  <2>2. work'[w].row.product = x /\ work'[w].row.type = y
    BY <1>3 DEF Count, Does, MediaTypeOK
  <2>3. \A v \in Workers : v # w => work'[v] = work[v]
    BY <1>3 DEF Count, Does, MediaTypeOK
  <2>4. Cardinality(Plain(x, y)) < MAX
    <3>1. Plain(x, y) \subseteq ActiveIn(x, y) /\ ActiveIn(x, y) \subseteq Media
      BY DEF Plain, ActiveIn
    <3> QED BY <2>1, <3>1, PlainCardinality, MediaAssumption
  <2>5. \A u \in Products, z \in Types : Plain(u, z)' = Plain(u, z)
    BY <2>1 DEF Plain, ActiveIn, Present
  <2>6. ASSUME NEW v \in Workers, Adds(v)', NEW u \in Products, NEW z \in Types,
               u = work'[v].row.product, z = work'[v].row.type
        PROVE  Cardinality(Plain(u, z)') < MAX
    <3>1. CASE v = w
      BY <3>1, <2>2, <2>4, <2>5, <2>6
    <3>2. CASE v # w
      <4>1. Cardinality(Plain(u, z)) < MAX
        BY <3>2, <2>3, <2>6 DEF Counted
      <4> QED BY <4>1, <2>5
    <3> QED BY <3>1, <3>2
  <2>7. ASSUME NEW u \in Workers, NEW v \in Workers, u # v, Adds(u)', Adds(v)'
        PROVE  work'[u].row.product # work'[v].row.product
    <3>1. CASE u = w
      BY <3>1, <2>1, <2>2, <2>3, <2>7
    <3>2. CASE v = w
      BY <3>2, <2>1, <2>2, <2>3, <2>7
    <3>3. CASE u # w /\ v # w
      BY <3>3, <2>3, <2>7 DEF Counted
    <3> QED BY <3>1, <3>2, <3>3
  <2> QED BY <2>6, <2>7 DEF Counted
<1>4. ASSUME NEW w \in Workers, NEW m \in Media, CommitAdd(w, m)
      PROVE  Counted'
  <2>1. Adds(w) /\ work' = [work EXCEPT ![w] = Idle]
    BY <1>4 DEF CommitAdd, Ends
  <2>2. \A v \in Workers : Adds(v)' => v # w /\ work'[v] = work[v]
    BY <2>1 DEF MediaTypeOK, Idle
  <2>3. ASSUME NEW v \in Workers, Adds(v)', NEW u \in Products, NEW z \in Types,
               u = work'[v].row.product, z = work'[v].row.type
        PROVE  Cardinality(Plain(u, z)') < MAX
    <3>1. work[v].row.product = u /\ work[v].row.type = z /\ u # work[w].row.product /\ Adds(v)
      BY <2>1, <2>2, <2>3 DEF Counted
    <3>2. Plain(u, z)' \subseteq Plain(u, z)
      BY <1>4, <3>1, InsertAddsOne
    <3>3. Cardinality(Plain(u, z)) < MAX
      BY <3>1 DEF Counted
    <3> QED BY <1>2, <3>2, <3>3
  <2> QED BY <2>2, <2>3 DEF Counted
<1>5. ASSUME ~Inserts, \A w \in Workers, x \in Products, y \in Types : ~Count(w, x, y)
      PROVE  Counted'
  <2>1. \A x \in Products, y \in Types : Plain(x, y)' \subseteq Plain(x, y)
    BY <1>5, PlainShrinks
  <2>2. \A v \in Workers : Adds(v)' => /\ Adds(v)
                                        /\ work'[v].row.product = work[v].row.product
                                        /\ work'[v].row.type = work[v].row.type
    BY <1>5, AddingKept DEF Counts, Adding
  <2>3. ASSUME NEW v \in Workers, Adds(v)', NEW u \in Products, NEW z \in Types,
               u = work'[v].row.product, z = work'[v].row.type
        PROVE  Cardinality(Plain(u, z)') < MAX
    <3>1. Cardinality(Plain(u, z)) < MAX
      BY <2>2, <2>3 DEF Counted
    <3> QED BY <1>2, <2>1, <3>1
  <2> QED BY <2>2, <2>3 DEF Counted
<1> QED BY <1>3, <1>4, <1>5 DEF Inserts

\* The insertion that follows a count finds the room that was counted.
LEMMA QuotaStep ==
  ASSUME MediaTypeOK, WorkOK, Known, Locked, Counted, QuotaHolds, [Next]_vars
  PROVE  QuotaHolds'
<1>1. \A x \in Products, y \in Types : Plain(x, y) \subseteq Media
  BY DEF Plain, ActiveIn
<1> SUFFICES ASSUME NEW x \in Products, NEW y \in Types
             PROVE  Cardinality(Plain(x, y)') <= MAX
  BY DEF QuotaHolds, Plain
<1>2. Cardinality(Plain(x, y)) <= MAX
  BY DEF QuotaHolds, Plain
<1>3. CASE Plain(x, y)' \subseteq Plain(x, y)
  BY <1>1, <1>2, <1>3, PlainCardinality, MediaAssumption
<1>4. ASSUME NEW w \in Workers, NEW m \in Media, CommitAdd(w, m),
             x = work[w].row.product, y = work[w].row.type
      PROVE  Cardinality(Plain(x, y)') <= MAX
  <2>1. Plain(x, y)' \subseteq Plain(x, y) \cup {m}
    BY <1>4, InsertAddsOne
  <2>2. Cardinality(Plain(x, y)) < MAX
    BY <1>4 DEF CommitAdd, Counted
  <2>3. IsFiniteSet(Plain(x, y))
    BY <1>1, FS_Subset, MediaAssumption
  <2>4. Cardinality(Plain(x, y) \cup {m}) <= Cardinality(Plain(x, y)) + 1
    <3> DEFINE S == Plain(x, y)
    <3> HIDE DEF S
    <3>1. Cardinality(S) \in Nat
      BY <2>3, FS_CardinalityType DEF S
    <3>2. Cardinality(S \cup {m}) = IF m \in S THEN Cardinality(S) ELSE Cardinality(S) + 1
      BY <2>3, FS_AddElement DEF S
    <3> QED BY <3>1, <3>2 DEF S
  <2>5. Plain(x, y) \cup {m} \subseteq Media
    BY <1>1
  <2> QED BY <2>1, <2>2, <2>4, <2>5, <1>1, PlainCardinality, MediaAssumption
<1> QED BY <1>3, <1>4, PlainShrinks, InsertAddsOne DEF Inserts

(***************************************************************************)
(* The invariant, and what it gives                                        *)
(***************************************************************************)
MediaInv ==
  MediaTypeOK /\ WorkOK /\ Known /\ UploadsOwn /\ Locked /\ Counted
  /\ NamedFileExists /\ QuotaHolds /\ NoLeftovers

\* An empty catalogue satisfies the invariant.
THEOREM MediaInitially == Init => MediaInv
<1> SUFFICES ASSUME Init PROVE MediaInv
  OBVIOUS
<1>1. MediaTypeOK
  BY DEF Init, MediaTypeOK, Idle, Steps
<1>2. \A w \in Workers : work[w] = Idle
  BY DEF Init
<1>3. \A m \in Media : ~Present(m)
  BY DEF Init, Present
<1>4. WorkOK /\ UploadsOwn /\ Locked
  BY <1>2 DEF WorkOK, UploadsOwn, Uploads, Locked, Locks, Stores, Idle
<1>5. Known /\ NamedFileExists /\ NoLeftovers
  BY <1>2, <1>3 DEF Known, NamedFileExists, NoLeftovers, Init, Idle
<1>6. Counted
  BY <1>2 DEF Counted, Idle
<1>7. QuotaHolds
  <2>1. \A p \in Products, t \in Types : ActiveIn(p, t) \ formed = {}
    BY <1>3 DEF ActiveIn
  <2> QED BY <2>1, FS_EmptySet, MediaAssumption DEF QuotaHolds
<1> QED BY <1>1, <1>4, <1>5, <1>6, <1>7 DEF MediaInv

\* The invariant is inductive.
THEOREM MediaAlways == Spec => []MediaInv
<1>1. MediaInv /\ [Next]_vars => MediaInv'
  BY TypesStep, WorkStep, KnownStep, UploadsStep, LockedStep, CountedStep, NamedStep, QuotaStep,
     LeftoversStep DEF MediaInv
<1> QED BY MediaInitially, <1>1, PTL DEF Spec

\* Type correctness, for any number of products, rows, files and workers.
THEOREM MediaTypes == Spec => []MediaTypeOK
<1>1. MediaInv => MediaTypeOK
  BY DEF MediaInv
<1> QED BY MediaAlways, <1>1, PTL

\* Files named by rows exist, save after a form wrote back a file it had read too early.
THEOREM NamedFiles == Spec => []NamedFileExists
<1>1. MediaInv => NamedFileExists
  BY DEF MediaInv
<1> QED BY MediaAlways, <1>1, PTL

\* The quota holds against any number of concurrent uploads.
THEOREM Quotas == Spec => []QuotaHolds
<1>1. MediaInv => QuotaHolds
  BY DEF MediaInv
<1> QED BY MediaAlways, <1>1, PTL

\* No upload or replacement leaves a file behind.
THEOREM Leftovers == Spec => []NoLeftovers
<1>1. MediaInv => NoLeftovers
  BY DEF MediaInv
<1> QED BY MediaAlways, <1>1, PTL

-------------------------------------------------------------------------------
(* Content: what a form that is saved has locked *)

\* A form whose service is not to be active deactivates no other.
FormOK(e) ==
    /\ At(e, "service") \/ At(e, "locked") => form[e].key \in Services
    /\ At(e, "locked") /\ ~form[e].data.active => form[e].locked = {}

ContentInv ==
    /\ DOMAIN services = Services /\ DOMAIN form = Editors
    /\ \A e \in Editors : FormOK(e)

\* A form that is filled or left is the only one that changes.
LEMMA FilledForm ==
    ASSUME ContentInv, NEW e \in Editors, NEW step, NEW key, NEW data, NEW locked,
           Fills(e, step, key, data, locked), DOMAIN services' = Services,
           step \in {"service", "locked"} => key \in Services,
           step = "locked" /\ ~data.active => locked = {}
    PROVE  ContentInv'
<1> DEFINE f == [step |-> step, key |-> key, data |-> data, locked |-> locked]
<1>1. f.step = step /\ f.key = key /\ f.data = data /\ f.locked = locked
  OBVIOUS
<1>2. form' = [form EXCEPT ![e] = f]
  BY DEF Fills
<1>. HIDE DEF f
<1>3. /\ DOMAIN form' = Editors /\ form'[e] = f
      /\ \A o \in Editors \ {e} : form'[o] = form[o]
  BY <1>2 DEF ContentInv
<1>. QED  BY <1>1, <1>3 DEF ContentInv, FormOK, At

LEMMA LeftForm ==
    ASSUME ContentInv, NEW e \in Editors, Leaves(e), DOMAIN services' = Services
    PROVE  ContentInv'
<1>1. Blank.step = "blank"
  BY DEF Blank
<1>2. /\ DOMAIN form' = Editors /\ form'[e] = Blank
      /\ \A o \in Editors \ {e} : form'[o] = form[o]
  BY DEF ContentInv, Leaves
<1>. QED  BY <1>1, <1>2 DEF ContentInv, FormOK, At

LEMMA ContentStep == ContentInv /\ [ContentNext]_contentVars => ContentInv'
<1> SUFFICES ASSUME ContentInv, [ContentNext]_contentVars PROVE ContentInv'
  OBVIOUS
<1>1. DOMAIN services = Services
  BY DEF ContentInv
<1>2. ASSUME NEW e \in Editors, NEW k \in Services, NEW s \in ServiceRow, SubmitService(e, k, s)
      PROVE  ContentInv'
  <2>1. Fills(e, "service", k, s, {}) /\ UNCHANGED services
    BY <1>2 DEF SubmitService
  <2>. QED  BY <1>1, <2>1, FilledForm
<1>3. ASSUME NEW e \in Editors, NEW k \in Heroes, NEW h \in HeroRow, SubmitHero(e, k, h)
      PROVE  ContentInv'
  <2>1. Fills(e, "hero", k, h, {}) /\ UNCHANGED services
    BY <1>3 DEF SubmitHero
  <2>. QED  BY <1>1, <2>1, FilledForm
<1>4. ASSUME NEW e \in Editors, LockActive(e) PROVE ContentInv'
  <2> DEFINE data == form[e].data
             key == form[e].key
             others == IF data.active THEN Active \ {key} ELSE {}
  <2>1. At(e, "service") /\ Fills(e, "locked", key, data, others) /\ UNCHANGED services
    BY <1>4 DEF LockActive
  <2>2. key \in Services /\ (~data.active => others = {})
    BY <2>1 DEF ContentInv, FormOK
  <2>3. DOMAIN services' = Services
    BY <1>1, <2>1
  <2>. HIDE DEF data, key, others
  <2>. QED  BY <2>1, <2>2, <2>3, FilledForm
<1>5. ASSUME NEW e \in Editors,
             SaveService(e) \/ ServiceConflict(e) \/ SaveHero(e) \/ HeroConflict(e) \/ Abandon(e)
      PROVE  ContentInv'
  <2>1. Leaves(e)
    BY <1>5 DEF SaveService, ServiceConflict, SaveHero, HeroConflict, Abandon
  <2>2. DOMAIN services' = Services
    BY <1>1, <1>5 DEF SaveService, ServiceConflict, SaveHero, HeroConflict, Abandon, Deactivated
  <2>. QED  BY <2>1, <2>2, LeftForm
<1>6. CASE \/ UNCHANGED contentVars
           \/ \E k \in Services : DeleteService(k)
           \/ \E k \in Heroes : DeleteHero(k)
  <2>1. DOMAIN services' = Services /\ UNCHANGED form
    BY <1>1, <1>6 DEF contentVars, DeleteService, DeleteHero
  <2>. QED  BY <2>1 DEF ContentInv, FormOK, At
<1>. QED  BY <1>2, <1>3, <1>4, <1>5, <1>6 DEF ContentNext

\* The service that is active is handed over or was edited or deleted: no save of
\* another leaves the page without one, with any number of forms at once.
THEOREM Handover == ContentSpec => HandoverIsAtomic
<1> DEFINE A == \A k \in Active : Active' = {} =>
                  \/ DeleteService(k)
                  \/ \E e \in Editors : SaveService(e) /\ form[e].key = k
<1>1. ContentInit => ContentInv
  BY DEF ContentInit, ContentInv, FormOK, At, Blank
<1>2. ContentInv /\ [ContentNext]_contentVars => [A]_contentVars
  <2> SUFFICES ASSUME ContentInv, ContentNext, NEW k \in Active, Active' = {}
               PROVE  \/ DeleteService(k)
                      \/ \E e \in Editors : SaveService(e) /\ form[e].key = k
    OBVIOUS
  <2>1. k \in Services /\ services'[k] # services[k]
    BY DEF Active
  <2>2. ASSUME NEW d \in Services, DeleteService(d) PROVE d = k
    BY <2>1, <2>2 DEF DeleteService, ContentInv
  <2>3. ASSUME NEW e \in Editors, SaveService(e) PROVE form[e].key = k
    <3> DEFINE key == form[e].key
               data == form[e].data
               before == Deactivated(form[e].locked)
    <3>1. key \in Services /\ services' = [before EXCEPT ![key] = {data}] /\ FormOK(e)
          /\ At(e, "locked")
      BY <2>3 DEF SaveService, ContentInv, FormOK
    <3>2. DOMAIN before = Services
      BY DEF Deactivated
    <3>3. form[e].locked = {} => \A q \in Services : before[q] = services[q]
      BY DEF Deactivated
    <3>. HIDE DEF before
    <3>4. services'[key] = {data} /\ \A q \in Services \ {key} : services'[q] = before[q]
      BY <3>1, <3>2
    <3>5. ~data.active
      BY <3>1, <3>4 DEF Active
    <3>6. form[e].locked = {}
      BY <3>1, <3>5 DEF FormOK
    <3>. QED  BY <2>1, <3>3, <3>4, <3>6
  <2>4. ~UNCHANGED services
    BY <2>1
  <2>5. \/ \E e \in Editors : SaveService(e)
        \/ \E d \in Services : DeleteService(d)
    BY <2>4 DEF ContentNext, SubmitService, SubmitHero, LockActive, ServiceConflict, SaveHero,
                HeroConflict, Abandon, DeleteHero
  <2>. QED  BY <2>2, <2>3, <2>5
<1>. QED  BY <1>1, <1>2, ContentStep, PTL DEF ContentSpec, HandoverIsAtomic

-------------------------------------------------------------------------------
(* Registration: rows, requests and links *)

Account == [present: {TRUE}, email: Address, username: Address, password: Nat,
            verified: BOOLEAN, suspended: BOOLEAN]

RegisterRequest == [op: {"register"}, email: Address]
SaveRequest == [op: {"verify", "profile", "user_form"}, user: Registered, row: Account]
PasswordRequest == [op: {"password"}, user: Registered]

RegTypes ==
    /\ accounts \in [Users -> {Absent} \cup Account] /\ hashes \in Nat
    /\ worker \in [Servers -> {Idling} \cup RegisterRequest \cup SaveRequest \cup PasswordRequest]
    /\ \A link \in links : link.user \in Registered

\* The index.
EmailsDiffer ==
    \A u, v \in Registered : iexact(accounts[u].email, accounts[v].email) => u = v

RegInv == RegTypes /\ EmailsDiffer

\* Where nobody's address was edited, the lookups by address and by name agree.
LEMMA DifferentEmails == EmailsDiffer => OneAccountPerAddress
<1>1. ASSUME EmailsDiffer, \A u \in Registered : accounts[u].email = accounts[u].username,
             NEW u \in Registered, NEW a \in Typed, iexact(a, accounts[u].email)
      PROVE  Matches(a) = {u}
  <2>1. Matches(a) = {v \in Registered : iexact(accounts[v].email, a)}
    BY <1>1 DEF Matches
  <2>2. \A v \in Registered : iexact(accounts[v].email, a) <=> v = u
    BY <1>1 DEF iexact, EmailsDiffer
  <2>. QED  BY <2>1, <2>2
<1>. QED  BY <1>1 DEF EmailsDiffer, OneAccountPerAddress

LEMMA Normalized == \A a \in Typed : normalize_email(a) \in Address
  BY DEF Address

LEMMA RegisteredRows ==
    ASSUME accounts \in [Users -> {Absent} \cup Account]
    PROVE  /\ Registered \subseteq Users
           /\ \A u \in Registered : accounts[u] \in Account
           /\ \A u \in Users \ Registered : accounts[u] = Absent
<1>1. ~Absent.present
  BY DEF Absent
<1>2. \A r \in Account : r.present
  BY DEF Account
<1>3. \A u \in Users : accounts[u] = Absent \/ accounts[u] \in Account
  OBVIOUS
<1>4. \A u : u \in Registered <=> u \in Users /\ accounts[u].present
  BY DEF Registered
<1>. QED  BY <1>1, <1>2, <1>3, <1>4

\* What a worker serves, by the name of its request.
LEMMA Requests ==
    ASSUME RegTypes, NEW w \in Servers, worker[w] # Idling
    PROVE  /\ worker[w].op = "register" => worker[w].email \in Address
           /\ worker[w].op \in {"verify", "profile", "user_form"} =>
                 worker[w].user \in Registered /\ worker[w].row \in Account
           /\ worker[w].op = "password" => worker[w].user \in Registered
  BY DEF RegTypes, RegisterRequest, SaveRequest, PasswordRequest

\* A row is written for u, which was there or is new: the types hold if the
\* worker that wrote it is free and links name rows.
LEMMA RowWritten ==
    ASSUME RegTypes, NEW u \in Users, NEW r \in Account, Write(u, r), hashes' \in Nat,
           \/ UNCHANGED worker
           \/ \E w \in Servers : Free(w),
           \A link \in links' : link.user \in Registered \cup {u}
    PROVE  /\ RegTypes' /\ Registered' = Registered \cup {u}
           /\ accounts'[u] = r /\ \A v \in Registered \ {u} : accounts'[v] = accounts[v]
<1>1. /\ accounts \in [Users -> {Absent} \cup Account] /\ accounts' = [accounts EXCEPT ![u] = r]
      /\ worker \in [Servers -> {Idling} \cup RegisterRequest \cup SaveRequest \cup PasswordRequest]
  BY DEF RegTypes, Write
<1>2. /\ accounts' \in [Users -> {Absent} \cup Account] /\ accounts'[u] = r
      /\ \A v \in Users \ {u} : accounts'[v] = accounts[v]
  BY <1>1
<1>3. r.present
  BY DEF Account
<1>4. Registered' = Registered \cup {u}
  BY <1>2, <1>3 DEF Registered
<1>5. SaveRequest \subseteq SaveRequest' /\ PasswordRequest \subseteq PasswordRequest'
  BY <1>4 DEF SaveRequest, PasswordRequest
<1>6. worker' \in [Servers -> {Idling} \cup RegisterRequest \cup SaveRequest' \cup PasswordRequest']
  BY <1>1, <1>5 DEF Free
<1>7. RegTypes'
  BY <1>2, <1>4, <1>6 DEF RegTypes, RegisterRequest
<1>8. \A v \in Registered \ {u} : accounts'[v] = accounts[v]
  BY <1>2 DEF Registered
<1>. QED  BY <1>2, <1>4, <1>7, <1>8

\* The address of a row that is written is nobody else's, or was its own.
LEMMA EmailWritten ==
    ASSUME EmailsDiffer, NEW u, NEW r, Registered' = Registered \cup {u}, accounts'[u] = r,
           \A v \in Registered \ {u} : accounts'[v] = accounts[v],
           \/ \A v \in Registered \ {u} : ~iexact(accounts[v].email, r.email)
           \/ u \in Registered /\ r.email = accounts[u].email
    PROVE  EmailsDiffer'
<1>1. \A v \in Registered \ {u} : ~iexact(accounts[v].email, r.email)
  BY DEF EmailsDiffer, iexact
<1>. QED  BY <1>1 DEF EmailsDiffer, iexact

\* A request is taken or dropped.
LEMMA RowsKept ==
    ASSUME RegInv, UNCHANGED <<accounts, hashes>>,
           \A link \in links' : link.user \in Registered,
           \/ UNCHANGED worker
           \/ \E w \in Servers : Free(w)
           \/ \E w \in Servers, request \in RegisterRequest \cup SaveRequest \cup PasswordRequest :
                 Serve(w, request)
    PROVE  RegInv'
<1>1. Registered' = Registered /\ SaveRequest' = SaveRequest /\ PasswordRequest' = PasswordRequest
  BY DEF Registered, SaveRequest, PasswordRequest
<1>2. worker' \in [Servers -> {Idling} \cup RegisterRequest \cup SaveRequest \cup PasswordRequest]
  BY DEF RegInv, RegTypes, Free, Serve
<1>3. RegTypes'
  BY <1>1, <1>2 DEF RegInv, RegTypes, RegisterRequest
<1>4. EmailsDiffer'
  BY <1>1 DEF RegInv, EmailsDiffer
<1>. QED  BY <1>3, <1>4 DEF RegInv

\* Requests that read, or end without a row written.
LEMMA ReadSteps ==
    ASSUME RegInv, NEW w \in Servers,
           \/ \E a \in Typed : RegisterValidate(w, a) \/ \E u \in Users : UserFormRead(w, u, a)
           \/ \E u \in Users : ChangeRead(w, u) \/ ProfileRead(w, u)
           \/ \E link \in links : VerifyRead(w, link) \/ ResetRead(w, link)
           \/ RegisterRefused(w) \/ Drop(w)
    PROVE  RegInv'
<1>0. /\ \A u \in Registered : accounts[u] \in Account
      /\ \A link \in links : link.user \in Registered
  BY RegisteredRows DEF RegInv, RegTypes
<1>1. ASSUME NEW a \in Typed, RegisterValidate(w, a) PROVE RegInv'
  <2> DEFINE request == [op |-> "register", email |-> normalize_email(a)]
  <2>1. request \in RegisterRequest
    BY Normalized DEF RegisterRequest
  <2>2. Serve(w, request) /\ UNCHANGED <<accounts, hashes, links>>
    BY <1>1 DEF RegisterValidate
  <2>. HIDE DEF request
  <2>. QED  BY <1>0, <2>1, <2>2, RowsKept
<1>2. ASSUME NEW a \in Typed, NEW u \in Users, UserFormRead(w, u, a) PROVE RegInv'
  <2> DEFINE r == [accounts[u] EXCEPT !.email = normalize_email(a)]
             request == [op |-> "user_form", user |-> u, row |-> r]
  <2>1. u \in Registered /\ Serve(w, request) /\ UNCHANGED <<accounts, hashes, links>>
    BY <1>2 DEF UserFormRead
  <2>2. r \in Account
    BY <1>0, <2>1, Normalized DEF Account
  <2>. HIDE DEF r
  <2>3. request \in SaveRequest
    BY <2>1, <2>2 DEF SaveRequest
  <2>. HIDE DEF request
  <2>. QED  BY <1>0, <2>1, <2>3, RowsKept
<1>3. ASSUME NEW u \in Registered,
             \/ Serve(w, [op |-> "password", user |-> u])
             \/ Serve(w, [op |-> "profile", user |-> u, row |-> accounts[u]])
             \/ Serve(w, [op |-> "verify", user |-> u, row |-> accounts[u]]),
             UNCHANGED <<accounts, hashes, links>>
      PROVE  RegInv'
  <2>1. [op |-> "password", user |-> u] \in PasswordRequest
    BY DEF PasswordRequest
  <2>2. /\ [op |-> "profile", user |-> u, row |-> accounts[u]] \in SaveRequest
        /\ [op |-> "verify", user |-> u, row |-> accounts[u]] \in SaveRequest
    BY <1>0 DEF SaveRequest
  <2>. QED  BY <1>0, <1>3, <2>1, <2>2, RowsKept
<1>4. ASSUME NEW u \in Users, ChangeRead(w, u) \/ ProfileRead(w, u) PROVE RegInv'
  BY <1>3, <1>4 DEF ChangeRead, ProfileRead
<1>5. ASSUME NEW link \in links, VerifyRead(w, link) \/ ResetRead(w, link) PROVE RegInv'
  BY <1>0, <1>3, <1>5 DEF VerifyRead, ResetRead
<1>6. CASE RegisterRefused(w) \/ Drop(w)
  <2>1. Free(w) /\ UNCHANGED <<accounts, hashes, links>>
    BY <1>6 DEF RegisterRefused, Drop
  <2>. QED  BY <1>0, <2>1, RowsKept
<1>. QED  BY <1>1, <1>2, <1>4, <1>5, <1>6

\* Requests that write a row.
LEMMA WriteSteps ==
    ASSUME RegInv, NEW w \in Servers,
           \/ \E u \in Users : RegisterInsert(w, u)
           \/ VerifySave(w) \/ PasswordSave(w) \/ ProfileSave(w) \/ UserFormSave(w)
    PROVE  RegInv'
<1>0. /\ RegTypes /\ EmailsDiffer /\ hashes \in Nat
      /\ accounts \in [Users -> {Absent} \cup Account]
      /\ Registered \subseteq Users /\ \A u \in Registered : accounts[u] \in Account
      /\ \A link \in links : link.user \in Registered
  BY RegisteredRows DEF RegInv, RegTypes
<1>1. ASSUME NEW u \in Users, NEW r \in Account, Write(u, r), hashes' \in Nat, Free(w),
             \A link \in links' : link.user \in Registered \cup {u},
             \/ \A v \in Registered \ {u} : ~iexact(accounts[v].email, r.email)
             \/ u \in Registered /\ r.email = accounts[u].email
      PROVE  RegInv'
  <2>1. /\ RegTypes' /\ Registered' = Registered \cup {u}
        /\ accounts'[u] = r /\ \A v \in Registered \ {u} : accounts'[v] = accounts[v]
    BY <1>0, <1>1, RowWritten
  <2>2. EmailsDiffer'
    BY <1>0, <1>1, <2>1, EmailWritten
  <2>. QED  BY <2>1, <2>2 DEF RegInv
<1>2. ASSUME NEW u \in Users, RegisterInsert(w, u) PROVE RegInv'
  <2> DEFINE email == worker[w].email
             r == [present |-> TRUE, email |-> email, username |-> email,
                   password |-> hashes + 1, verified |-> FALSE, suspended |-> FALSE]
  <2>1. /\ Serving(w, "register") /\ u \notin Registered /\ Unique(u, email, email)
        /\ Write(u, r) /\ hashes' = hashes + 1 /\ (Mail(u, r) \/ UNCHANGED links) /\ Free(w)
    BY <1>2 DEF RegisterInsert
  <2>2. email \in Address
    BY <1>0, <2>1, Requests DEF Serving
  <2>. HIDE DEF email
  <2>3. r \in Account /\ r.email = email
    BY <1>0, <2>2 DEF Account
  <2>. HIDE DEF r
  <2>4. \A link \in links' : link.user \in Registered \cup {u}
    BY <1>0, <2>1 DEF Mail, Link
  <2>5. \A v \in Registered \ {u} : ~iexact(accounts[v].email, r.email)
    BY <2>1, <2>3 DEF Unique
  <2>. QED  BY <1>0, <1>1, <2>1, <2>3, <2>4, <2>5
<1>3. CASE VerifySave(w)
  <2> DEFINE u == worker[w].user
             r == [accounts[u] EXCEPT !.verified = TRUE]
  <2>1. Serving(w, "verify") /\ Write(u, r) /\ Free(w) /\ UNCHANGED <<hashes, links>>
    BY <1>3 DEF VerifySave, Write
  <2>2. u \in Registered
    BY <1>0, <2>1, Requests DEF Serving
  <2>. HIDE DEF u
  <2>3. r \in Account /\ r.email = accounts[u].email
    BY <1>0, <2>2 DEF Account
  <2>. QED  BY <1>0, <1>1, <2>1, <2>2, <2>3
<1>4. CASE PasswordSave(w)
  <2> DEFINE u == worker[w].user
             n == hashes + 1
             r == [accounts[u] EXCEPT !.password = n]
  <2>1. Serving(w, "password") /\ Write(u, r) /\ Free(w) /\ hashes' = n /\ UNCHANGED links
    BY <1>4 DEF PasswordSave, Write
  <2>2. u \in Registered
    BY <1>0, <2>1, Requests DEF Serving
  <2>0. n \in Nat
    BY <1>0
  <2>. HIDE DEF u, n
  <2>3. r \in Account /\ r.email = accounts[u].email
    BY <1>0, <2>0, <2>2 DEF Account
  <2>. HIDE DEF r
  <2>. QED  BY <1>0, <1>1, <2>0, <2>1, <2>2, <2>3
<1>5. CASE ProfileSave(w)
  <2> DEFINE u == worker[w].user
             read == worker[w].row
             r == [accounts[u] EXCEPT !.verified = read.verified, !.suspended = read.suspended]
  <2>1. Serving(w, "profile") /\ Write(u, r) /\ Free(w) /\ UNCHANGED <<hashes, links>>
    BY <1>5 DEF ProfileSave
  <2>2. u \in Registered /\ read \in Account
    BY <1>0, <2>1, Requests DEF Serving
  <2>. HIDE DEF u, read
  <2>3. r \in Account /\ r.email = accounts[u].email
    BY <1>0, <2>2 DEF Account
  <2>. QED  BY <1>0, <1>1, <2>1, <2>2, <2>3
<1>6. CASE UserFormSave(w)
  <2> DEFINE u == worker[w].user
             read == worker[w].row
             r == [accounts[u] EXCEPT !.email = read.email, !.password = read.password]
  <2>1. /\ Serving(w, "user_form") /\ Unique(u, read.email, read.username)
        /\ Write(u, r) /\ Free(w) /\ UNCHANGED <<hashes, links>>
    BY <1>6 DEF UserFormSave
  <2>2. u \in Registered /\ read \in Account
    BY <1>0, <2>1, Requests DEF Serving
  <2>. HIDE DEF u, read
  <2>3. r \in Account /\ r.email = read.email
    BY <1>0, <2>2 DEF Account
  <2>4. \A v \in Registered \ {u} : ~iexact(accounts[v].email, r.email)
    BY <2>1, <2>3 DEF Unique
  <2>. QED  BY <1>0, <1>1, <2>1, <2>2, <2>3, <2>4
<1>. QED  BY <1>2, <1>3, <1>4, <1>5, <1>6

\* The administration's actions write constants, and a reset's mail is to an account.
LEMMA OtherSteps ==
    ASSUME RegInv,
           \/ \E a \in Typed : RequestReset(a)
           \/ \E u \in Users : SuspendUser(u) \/ UnsuspendUser(u)
    PROVE  RegInv'
<1>0. /\ RegTypes /\ EmailsDiffer /\ hashes \in Nat
      /\ Registered \subseteq Users /\ \A u \in Registered : accounts[u] \in Account
      /\ \A link \in links : link.user \in Registered
  BY RegisteredRows DEF RegInv, RegTypes
<1>1. ASSUME NEW a \in Typed, RequestReset(a) PROVE RegInv'
  <2>1. /\ UNCHANGED <<accounts, hashes, worker>>
        /\ \E u \in Registered : links' = links \cup {Link(u, accounts[u])}
    BY <1>1 DEF RequestReset, Mail, WithEmail
  <2>2. \A link \in links' : link.user \in Registered
    BY <1>0, <2>1 DEF Link
  <2>. QED  BY <2>1, <2>2, RowsKept
<1>2. ASSUME NEW u \in Users, NEW b \in BOOLEAN, u \in Registered,
             accounts' = [accounts EXCEPT ![u].suspended = b],
             UNCHANGED <<hashes, links, worker>>
      PROVE  RegInv'
  <2> DEFINE r == [accounts[u] EXCEPT !.suspended = b]
  <2>1. r \in Account /\ r.email = accounts[u].email /\ Write(u, r)
    BY <1>0, <1>2 DEF Account, Write
  <2>. HIDE DEF r
  <2>2. /\ RegTypes' /\ Registered' = Registered \cup {u}
        /\ accounts'[u] = r /\ \A v \in Registered \ {u} : accounts'[v] = accounts[v]
    BY <1>0, <1>2, <2>1, RowWritten
  <2>3. EmailsDiffer'
    BY <1>0, <1>2, <2>1, <2>2, EmailWritten
  <2>. QED  BY <2>2, <2>3 DEF RegInv
<1>. QED  BY <1>1, <1>2 DEF SuspendUser, UnsuspendUser

\* Whoever registers, resets, edits and administers at once, and whatever requests
\* die half-way: no two accounts share a mailbox.
THEOREM OneAccount == RegSpec => []OneAccountPerAddress
<1>1. RegInit => RegInv
  <2> SUFFICES ASSUME RegInit PROVE RegInv
    OBVIOUS
  <2>1. Registered = {}
    BY DEF RegInit, Registered, Absent
  <2>. QED  BY <2>1 DEF RegInit, RegInv, RegTypes, EmailsDiffer
<1>2. RegInv /\ [RegNext]_regVars => RegInv'
  <2> SUFFICES ASSUME RegInv, [RegNext]_regVars PROVE RegInv'
    OBVIOUS
  <2>1. CASE UNCHANGED regVars
    <3>1. UNCHANGED <<accounts, hashes, links, worker>>
      BY <2>1 DEF regVars
    <3>2. \A link \in links' : link.user \in Registered
      BY <3>1 DEF RegInv, RegTypes
    <3>. QED  BY <3>1, <3>2, RowsKept
  <2>. QED  BY <2>1, ReadSteps, WriteSteps, OtherSteps DEF RegNext
<1>3. RegInv => OneAccountPerAddress
  BY DifferentEmails DEF RegInv
<1>. QED  BY <1>1, <1>2, <1>3, PTL DEF RegSpec
===============================================================================
