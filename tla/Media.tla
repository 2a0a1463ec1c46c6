------------------------------- MODULE Media -------------------------------
(* The pictures and videos of the catalogue: products/media_services.py (the *)
(* API's uploads, replacements and archiving), the Django admin's forms on   *)
(* the same rows, and the file storage, which no transaction covers.         *)
(*                                                                           *)
(* An operation is a worker that takes several steps. A row becomes visible  *)
(* when its transaction commits (READ COMMITTED); a file is there as soon as *)
(* it is stored and stays until somebody deletes it.                         *)
EXTENDS Naturals, FiniteSets

CONSTANTS Products,  \* the products
          Types,     \* media_type: image, video
          Media,     \* primary keys of ProductMedia
          Files,     \* file names: product_media_upload_to draws a uuid
          Workers,   \* requests being served
          MAX,       \* MAX_PRODUCT_IMAGES, MAX_PRODUCT_VIDEOS
          None       \* no row, no file, no key


VARIABLES rows,    \* committed rows of ProductMedia
          files,   \* the storage
          drawn,   \* file names drawn so far (uuid4: never drawn again)
          keys,    \* primary keys given so far
          work,    \* what each worker is doing
          formed,  \* history: rows whose state an admin form wrote
          stale,   \* history: rows a form gave a file other than the one they had
          lost     \* history: files a crash, a form or a deletion left behind

vars == <<rows, files, drawn, keys, work, formed, stale, lost>>

Row == [product : Products, type : Types, active : BOOLEAN, file : Files \cup {None}]

ASSUME MediaAssumption ==
  /\ MAX \in Nat
  /\ IsFiniteSet(Media)
  /\ None \notin Files \cup Media \cup Row

Steps == {"idle", "counted", "stored", "locked", "replacing", "committed", "read", "written"}

Idle == [step |-> "idle", media |-> None, row |-> None, old |-> None]

\* The names a worker answers for: the file it stored, the file it is to delete. (A form
\* that uploads keeps the name in "old" as well.)
Held(w) ==
  (IF work[w].step \in {"stored", "replacing"} THEN {work[w].row.file} ELSE {}) \cup {work[w].old}

Present(m) == rows[m] # None

ActiveIn(p, t) == {m \in Media : Present(m) /\ rows[m].active
                                 /\ rows[m].product = p /\ rows[m].type = t}

Referenced(f) == \E m \in Media : Present(m) /\ rows[m].file = f

(***************************************************************************)
(* Locks of PostgreSQL. add takes the product's row FOR UPDATE; a form's   *)
(* insert, or its change of product, takes it FOR KEY SHARE, which waits   *)
(* for add and makes add wait. A row of ProductMedia is locked by replace  *)
(* and by an uncommitted form.                                             *)
(***************************************************************************)
AddHolds(p) == \E w \in Workers : work[w].step \in {"counted", "stored"}
                                  /\ work[w].row.product = p
FormShares(p) == \E w \in Workers : work[w].step = "written" /\ work[w].row.product = p
RowHeld(m) == \E w \in Workers : work[w].step \in {"locked", "replacing", "written"}
                                 /\ work[w].media = m

Init ==
  /\ rows = [m \in Media |-> None]
  /\ files = {} /\ drawn = {} /\ keys = {}
  /\ work = [w \in Workers |-> Idle]
  /\ formed = {} /\ stale = {} /\ lost = {}

Does(w, step, m, row, old) ==
  work' = [work EXCEPT ![w] = [step |-> step, media |-> m, row |-> row, old |-> old]]

Ends(w) == work' = [work EXCEPT ![w] = Idle]

(***************************************************************************)
(* CatalogMediaService.add                                                 *)
(***************************************************************************)
\* Defect: the quota is counted without the lock.
CountUnlocked(w, p, t) ==
  /\ work[w].step = "idle"
  /\ Cardinality(ActiveIn(p, t)) < MAX
  /\ Does(w, "counted", None, [product |-> p, type |-> t, active |-> TRUE, file |-> None], None)
  /\ UNCHANGED <<rows, files, drawn, keys, formed, stale, lost>>

\* The product is locked, then the active media of the type are counted.
Count(w, p, t) ==
  /\ work[w].step = "idle"
  /\ ~AddHolds(p) /\ ~FormShares(p)
  /\ Cardinality(ActiveIn(p, t)) < MAX
  /\ Does(w, "counted", None, [product |-> p, type |-> t, active |-> TRUE, file |-> None], None)
  /\ UNCHANGED <<rows, files, drawn, keys, formed, stale, lost>>

\* Defect: the old file is deleted while the transaction may still fail.
StoreDeletingOld(w, f) ==
  /\ work[w].step \in {"counted", "locked"}
  /\ f \notin drawn
  /\ files' = (files \ {work[w].old}) \cup {f} /\ drawn' = drawn \cup {f}
  /\ work' = [work EXCEPT ![w].step = IF @ = "counted" THEN "stored" ELSE "replacing",
                          ![w].row.file = f]
  /\ UNCHANGED <<rows, keys, formed, stale, lost>>

\* full_clean accepted the upload; save() writes the file before its statement.
Store(w, f) ==
  /\ work[w].step \in {"counted", "locked"}
  /\ f \notin drawn
  /\ files' = files \cup {f} /\ drawn' = drawn \cup {f}
  /\ work' = [work EXCEPT ![w].step = IF @ = "counted" THEN "stored" ELSE "replacing",
                          ![w].row.file = f]
  /\ UNCHANGED <<rows, keys, formed, stale, lost>>

\* full_clean refused the upload (format, size, dimensions, duration): nothing is stored.
Refuse(w) ==
  /\ work[w].step \in {"counted", "locked"}
  /\ Ends(w)
  /\ UNCHANGED <<rows, files, drawn, keys, formed, stale, lost>>

\* save() raised after the file was written: the handler deletes it and raises again.
Fail(w) ==
  /\ work[w].step \in {"stored", "replacing"}
  /\ files' = files \ {work[w].row.file}
  /\ Ends(w)
  /\ UNCHANGED <<rows, drawn, keys, formed, stale, lost>>

CommitAdd(w, m) ==
  /\ work[w].step = "stored"
  /\ m \notin keys
  /\ rows' = [rows EXCEPT ![m] = work[w].row]
  /\ keys' = keys \cup {m}
  /\ Ends(w)
  /\ UNCHANGED <<files, drawn, formed, stale, lost>>

(***************************************************************************)
(* CatalogMediaService.replace and archive                                 *)
(***************************************************************************)
\* The row is read under its lock; old_name is the file it has then.
LockRow(w, m) ==
  /\ work[w].step = "idle"
  /\ Present(m) /\ ~RowHeld(m)
  /\ Does(w, "locked", m, rows[m], rows[m].file)
  /\ UNCHANGED <<rows, files, drawn, keys, formed, stale, lost>>

CommitReplace(w) ==
  /\ work[w].step = "replacing"
  /\ rows' = [rows EXCEPT ![work[w].media] = work[w].row]
  /\ stale' = stale \ {work[w].media}
  /\ Does(w, "committed", None, None, work[w].old)
  /\ UNCHANGED <<files, drawn, keys, formed, lost>>

\* on_commit: the old file goes unless a committed row names it.
Clean(w) ==
  /\ work[w].step = "committed"
  /\ files' = IF Referenced(work[w].old) THEN files ELSE files \ {work[w].old}
  /\ Ends(w)
  /\ UNCHANGED <<rows, drawn, keys, formed, stale, lost>>

\* save(update_fields=["is_active"]): one statement, which waits for the row.
Archive(m) ==
  /\ Present(m) /\ ~RowHeld(m)
  /\ rows[m].active
  /\ rows' = [rows EXCEPT ![m].active = FALSE]
  /\ UNCHANGED <<files, drawn, keys, work, formed, stale, lost>>

(***************************************************************************)
(* The admin. A form reads the row without a lock and later writes every   *)
(* column of it: is_active, product and media_type as posted, the file it  *)
(* read unless another is uploaded. Django inserts the row again when the  *)
(* update finds none.                                                      *)
(***************************************************************************)
ReadForm(w, m, row) ==
  /\ work[w].step = "idle"
  /\ Present(m)
  /\ row.file = rows[m].file
  /\ Does(w, "read", m, row, None)
  /\ UNCHANGED <<rows, files, drawn, keys, formed, stale, lost>>

\* A new row. ProductMediaAdminForm.clean counts the active media of the posted product
\* and type (whether or not the new row is active) without a lock: by the time the row is
\* written others may have been added. A form on an existing row counts nothing.
NewForm(w, row) ==
  /\ work[w].step = "idle"
  /\ row.file = None
  /\ Cardinality(ActiveIn(row.product, row.type)) < MAX
  /\ Does(w, "read", None, row, None)
  /\ UNCHANGED <<rows, files, drawn, keys, formed, stale, lost>>

\* The statement: it waits for the row's lock and, for a foreign key it sets, for add.
\* "upload" is a file chosen in the form, stored first; a new row always has one.
WriteForm(w, m, upload) ==
  LET form == work[w]
      file == IF upload = None THEN form.row.file ELSE upload
      row  == [form.row EXCEPT !.file = file]
  IN /\ form.step = "read"
     /\ IF form.media = None THEN m \notin keys ELSE m = form.media
     /\ file # None
     /\ upload \notin drawn
     /\ ~RowHeld(m)
     /\ AddHolds(row.product) => (Present(m) /\ rows[m].product = row.product)
     /\ Does(w, "written", m, row, upload)
     /\ files' = IF upload = None THEN files ELSE files \cup {upload}
     /\ drawn' = IF upload = None THEN drawn ELSE drawn \cup {upload}
     /\ keys' = keys \cup {m}
     /\ UNCHANGED <<rows, formed, stale, lost>>

CommitForm(w) ==
  LET m == work[w].media
      row == work[w].row IN
  /\ work[w].step = "written"
  /\ rows' = [rows EXCEPT ![m] = row]
  /\ formed' = formed \cup {m}
  /\ stale' = CASE work[w].old # None                          -> stale \ {m}
              [] ~Present(m) \/ rows[m].file # row.file          -> stale \cup {m}
              [] OTHER                                           -> stale
  /\ lost' = IF Present(m) /\ rows[m].file # row.file THEN lost \cup {rows[m].file} ELSE lost
  /\ Ends(w)
  /\ UNCHANGED <<files, drawn, keys>>

\* Deleting a row, alone or with its product, leaves the file.
DeleteRow(m) ==
  /\ Present(m) /\ ~RowHeld(m)
  /\ rows' = [rows EXCEPT ![m] = None]
  /\ lost' = lost \cup {rows[m].file}
  /\ UNCHANGED <<files, drawn, keys, work, formed, stale>>

\* The worker dies, or a form's transaction is rolled back: locks and uncommitted
\* rows go, files stay, callbacks of on_commit are forgotten.
Crash(w) ==
  /\ work[w].step # "idle"
  /\ lost' = lost \cup (Held(w) \ {None})
  /\ Ends(w)
  /\ UNCHANGED <<rows, files, drawn, keys, formed, stale>>

Service ==
  \/ \E w \in Workers : \/ \E p \in Products, t \in Types : Count(w, p, t)
                        \/ \E f \in Files : Store(w, f)
                        \/ Refuse(w) \/ Fail(w)
                        \/ \E m \in Media : CommitAdd(w, m) \/ LockRow(w, m)
                        \/ CommitReplace(w) \/ Clean(w)
  \/ \E m \in Media : Archive(m)

Admin ==
  \/ \E w \in Workers :
       \/ \E row \in Row : NewForm(w, row) \/ \E m \in Media : ReadForm(w, m, row)
       \/ \E m \in Media, f \in Files \cup {None} : WriteForm(w, m, f)
       \/ CommitForm(w)
  \/ \E m \in Media : DeleteRow(m)

Next == Service \/ Admin \/ \E w \in Workers : Crash(w)

Spec == Init /\ [][Next]_vars

(***************************************************************************)
(* Properties                                                              *)
(***************************************************************************)
\* Type correctness of the catalogue's media and of the requests on them.
MediaTypeOK ==
  /\ rows \in [Media -> Row \cup {None}]
  /\ files \subseteq drawn /\ drawn \subseteq Files /\ keys \subseteq Media
  /\ work \in [Workers -> [step : Steps, media : Media \cup {None},
                           row : Row \cup {None}, old : Files \cup {None}]]
  /\ formed \subseteq keys /\ stale \subseteq keys /\ lost \subseteq drawn

\* A row of the catalogue names a file that exists, whatever uploads fail, crash or
\* overlap; the one way to a dangling name is a form that wrote back the file it had
\* read although the row had changed in between (replace deletes only after its commit).
NamedFileExists ==
  \A m \in Media : Present(m) /\ m \notin stale => rows[m].file \in files

\* The uploads and replacements of the API never take a product above its quota: the
\* active media of a type that no form wrote are at most MAX (add counts under a lock).
QuotaHolds ==
  \A p \in Products, t \in Types : Cardinality(ActiveIn(p, t) \ formed) <= MAX

\* Failed and concurrent requests leave no file behind: what no row names is held by a
\* request under way or was left by a crash, a form or a deletion.
NoLeftovers ==
  \A f \in files : Referenced(f) \/ f \in lost \/ \E w \in Workers : f \in Held(w)

=============================================================================
