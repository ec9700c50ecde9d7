----------------------------- MODULE ModelCatalog -----------------------------
(***************************************************************************)
(* ModelCatalog::list (src/src/model_catalog.cpp): a scan of the models    *)
(* directory, entry by entry, while its files come, go and change.         *)
(*                                                                         *)
(* A directory is a function from names to what bears the name: a regular  *)
(* "file", a "folder", a symbolic link to a file of the directory          *)
(* ("inner") or to one elsewhere ("outer"), or nothing ("absent"); a       *)
(* directory that is missing is one where everything is absent.  Sizes and *)
(* the final sort are left out: a list is its set of names.                *)
(*                                                                         *)
(* Operators named X_Y are mistaken variants of X that only show that some *)
(* property tells X from X_Y.                                              *)
(***************************************************************************)
EXTENDS Integers, FiniteSets

CONSTANTS
  Name,         \* file names
  GgufName,     \* those with the extension .gguf, in any case
  NoName,
  Directories,  \* what the directory may hold at first
  MaxChanges    \* changes to it (bound)

Kind == {"file", "folder", "inner", "outer", "absent"}

ASSUME CatalogAssumption ==
  /\ GgufName \subseteq Name
  /\ NoName \notin Name
  /\ Directories \subseteq [Name -> Kind]
  /\ MaxChanges \in Nat

VARIABLES
  directory,  \* name -> what bears it
  changes,    \* changes so far
  since,      \* name -> what has borne it since the scan began (history)
  step,       \* the scan's next step, "idle" outside of one
  seen,       \* names the iterator has returned
  entry,      \* the one under inspection
  ec,         \* the error_code all calls of list share is set
  fault,      \* a call failed for a reason of its own (history)
  models      \* names pushed to the list

files == <<directory, changes>>
scan == <<step, seen, entry, ec, fault, models>>
catalogVars == <<files, since, scan>>

Now == [n \in Name |-> {directory[n]}]

CatalogInit ==
  /\ directory \in Directories
  /\ changes = 0
  /\ since = Now
  /\ step = "idle" /\ seen = {} /\ entry = NoName /\ models = {}
  /\ ec = FALSE /\ fault = FALSE

\* Somebody adds, removes or replaces a file.
Change(n, kind) ==
  /\ changes < MaxChanges
  /\ kind # directory[n]
  /\ directory' = [directory EXCEPT ![n] = kind]
  /\ changes' = changes + 1
  /\ since' = [since EXCEPT ![n] = IF step = "idle" THEN {kind} ELSE @ \cup {kind}]
  /\ UNCHANGED scan

-----------------------------------------------------------------------------
Anew ==
  /\ seen' = {} /\ entry' = NoName /\ models' = {}
  /\ since' = Now
  /\ UNCHANGED files

\* is_directory, weakly_canonical of the root, directory_iterator.
Open ==
  /\ step = "idle"
  /\ step' = "next" /\ ec' = FALSE /\ fault' = FALSE
  /\ Anew

\* One of the three fails, for want of permissions or descriptors: the early
\* returns, or an iterator that is at its end.  The list is empty.
OpenFails ==
  /\ step = "idle"
  /\ step' = "done" /\ ec' = TRUE /\ fault' = TRUE
  /\ Anew

has_gguf_extension(n) == n \in GgufName

Eligible_Followed(n, kind) == kind \in {"file", "inner", "outer"} /\ has_gguf_extension(n)

\* Not a link, a regular file, the extension: the type is the one that the
\* iterator read with the entry.
Eligible(n, kind) == kind = "file" /\ has_gguf_extension(n)

\* The iterator returns an entry that is there, or was at some moment since it
\* was opened, and each name once.
Inspect(n, kind) ==
  /\ step = "next" /\ ~ec
  /\ n \notin seen
  /\ kind \in since[n] \ {"absent"}
  /\ seen' = seen \cup {n}
  /\ IF Eligible(n, kind)
     THEN step' = "resolve" /\ entry' = n
     ELSE UNCHANGED <<step, entry>>
  /\ UNCHANGED <<files, since, ec, fault, models>>

\* weakly_canonical accepts a file that is gone; a link out of the directory
\* is not within it.
Resolve ==
  /\ step = "resolve"
  /\ step' = IF directory[entry] = "outer" THEN "next" ELSE "measure"
  /\ UNCHANGED <<files, since, seen, entry, ec, fault, models>>

\* file_size fails for a file that is gone or has become a folder.
Measure ==
  /\ step = "measure"
  /\ IF directory[entry] \in {"absent", "folder"}
     THEN ec' = TRUE /\ UNCHANGED models
     ELSE models' = models \cup {entry} /\ UNCHANGED ec
  /\ step' = "next"
  /\ UNCHANGED <<files, since, seen, entry, fault>>

\* weakly_canonical or file_size fails for a reason of its own: the entry is
\* skipped, and the error stays in ec.
EntryFails ==
  /\ step \in {"resolve", "measure"}
  /\ step' = "next" /\ ec' = TRUE /\ fault' = TRUE
  /\ UNCHANGED <<files, since, seen, entry, models>>

Exhausted == \A n \in Name : "absent" \in since[n] \/ n \in seen

\* The iterator has no further entry, or the loop's first test finds the error
\* that an earlier entry has left in ec.
Finish ==
  /\ step = "next"
  /\ ec \/ Exhausted
  /\ step' = "done"
  /\ UNCHANGED <<files, since, seen, entry, ec, fault, models>>

\* Reading the directory fails half way: the iterator's ++ throws.
ScanThrows ==
  /\ step = "next" /\ ~ec
  /\ step' = "failed"
  /\ UNCHANGED <<files, since, seen, entry, ec, fault, models>>

\* The caller has the list, or the exception.
Close ==
  /\ step' = "idle" /\ ec' = FALSE /\ fault' = FALSE
  /\ Anew

ScanStep ==
  \/ \E n \in Name, kind \in Kind : Inspect(n, kind)
  \/ Resolve \/ Measure \/ EntryFails \/ Finish \/ ScanThrows

Disturbance == \E n \in Name, kind \in Kind : Change(n, kind)

-----------------------------------------------------------------------------
\* A model that was there for the whole of the scan, and one that ceased to
\* be readable, or came up, in the middle of it.
Present(n) == n \in GgufName /\ since[n] = {"file"}
Flickers(n) == n \in GgufName /\ "file" \in since[n] /\ since[n] \cap {"absent", "folder"} # {}

\* A list names only files that were regular files with the extension, in the
\* directory itself, at some moment of its scan: never a link, a folder or
\* another file, whatever is swapped for what between the calls on an entry;
\* and it misses no model that was there all the time, unless some other
\* model came or went meanwhile or the system failed a call: a directory that
\* cannot be opened is listed as an empty one.
ListIsOfTheScan ==
  step = "done" =>
    /\ models \subseteq {n \in GgufName : "file" \in since[n]}
    /\ \/ {n \in Name : Present(n)} \subseteq models
       \/ \E n \in Name : Flickers(n)
       \/ fault

\* model_catalog.hpp:16, "Discovers regular .gguf files directly inside one
\* directory", :22, "Rescans the directory on every call": a model that is in
\* the directory for the whole of a call is listed by it, if the directory can be
\* opened and the calls on its entries do not fail of themselves.
PresentModelsAreListed ==
  step = "done" /\ ~fault => {n \in Name : Present(n)} \subseteq models
=============================================================================
