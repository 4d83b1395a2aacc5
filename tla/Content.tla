------------------------------ MODULE Content ------------------------------
(***************************************************************************)
(* How the files of the content folder become the library                   *)
(* (engine/content_loader.py, engine/validation.py).  A path holds one      *)
(* file, whose first defect is all that matters of its text:                *)
(*   "bytes"    it is not UTF-8          "json"       it does not parse     *)
(*   "toplevel" it is not an object      "schema"     a model refuses it    *)
(*   "wrong"    an expression's value    "refused"    safe_eval refuses one *)
(*              is not the stated one                                       *)
(*   "raises"   one divides by zero      "divides"    one does, once the    *)
(*              or overflows                          benchmarks are known  *)
(*   "structure" a reference inside the file fails                          *)
(* and refs, which name lessons (a case) or benchmarks (a guesstimate).     *)
(***************************************************************************)
EXTENDS Naturals, Sequences, FiniteSets

CONSTANTS
  Paths,      \* the paths of the content folder, and ...
  Folder,     \* ... the folder of each: it decides what a file is read as
  Ids,        \* the ids that a file of a folder may declare
  Refs,       \* what it may refer to
  MaxFiles    \* bound of the model: files on the disk at a time

ASSUME ContentAssumption ==
  /\ Folder \in [Paths -> {"benchmarks", "cases", "guesstimates", "lessons"}]
  /\ MaxFiles \in Nat

VARIABLES
  disk,      \* the files that exist
  startup    \* what the last start came to: its library, or a traceback

contentVars == <<disk, startup>>

Defects(folder) ==
  {"none", "bytes", "json", "toplevel", "schema"} \cup
  (IF folder \in {"cases", "guesstimates"}
   THEN {"wrong", "refused", "raises", "structure"} ELSE {}) \cup
  (IF folder = "guesstimates" THEN {"divides"} ELSE {})

(* A file as its folder's model sees it.                                    *)
CaseFile == [id : Ids["cases"], defect : Defects("cases"),
             refs : SUBSET Refs["cases"]]
GuesstimateFile == [id : Ids["guesstimates"], defect : Defects("guesstimates"),
                    refs : SUBSET Refs["guesstimates"]]
LessonFile == [id : Ids["lessons"], defect : Defects("lessons"), refs : {{}}]
BenchmarksFile == [id : {"benchmarks"}, defect : Defects("benchmarks"),
                   refs : {{}}]
FileOf(path) ==
  CASE Folder[path] = "cases" -> CaseFile
    [] Folder[path] = "guesstimates" -> GuesstimateFile
    [] Folder[path] = "lessons" -> LessonFile
    [] Folder[path] = "benchmarks" -> BenchmarksFile

In(files, folder) == {p \in DOMAIN files : Folder[p] = folder}

(* The benchmarks, empty without a file that passes.                        *)
Benchmarks(files) ==
  UNION {Refs["guesstimates"] :
           p \in {q \in In(files, "benchmarks") : files[q].defect = "none"}}

(* The lessons that pass, before duplicates are looked for.                 *)
ValidLessons(files) == {p \in In(files, "lessons") : files[p].defect = "none"}

(* A mutant: lessons that share an id no longer satisfy a prerequisite.     *)
LessonIdsUnique(files) ==
  {files[p].id : p \in {q \in ValidLessons(files) :
                          \A r \in ValidLessons(files) \ {q} :
                            files[r].id # files[q].id}}

LessonIds(files) == {files[p].id : p \in ValidLessons(files)}

(* A mutant: prerequisites are not looked up.                               *)
ValidCasesAny(files) == {p \in In(files, "cases") : files[p].defect = "none"}

ValidCases(files) ==
  {p \in In(files, "cases") :
     files[p].defect = "none" /\ files[p].refs \subseteq LessonIds(files)}

ValidGuesstimates(files) ==
  {p \in In(files, "guesstimates") :
     files[p].defect = "none" /\ files[p].refs \subseteq Benchmarks(files)}

Valid(files) ==
  ValidCases(files) \cup ValidGuesstimates(files) \cup ValidLessons(files)

Duplicates(files) ==
  {p \in Valid(files) :
     \E q \in Valid(files) \ {p} : files[p].id = files[q].id}

(* The files whose content the library holds.                               *)
Loaded(files) == Valid(files) \ Duplicates(files)

(* Does reading or checking the file report a violation of it?              *)
Violates(files, p) ==
  \/ files[p].defect # "none"
  \/ Folder[p] = "cases" /\ ~(files[p].refs \subseteq LessonIds(files))
  \/ Folder[p] = "guesstimates" /\ ~(files[p].refs \subseteq Benchmarks(files))

(* The files that a warning names: violations, then the ids declared twice. *)
Warned(files) ==
  {p \in DOMAIN files : Violates(files, p)} \cup Duplicates(files)

(* Does the start end with a traceback?  _read_json expects OSError and     *)
(* JSONDecodeError only, and the checks of expressions MathExprError only.  *)
Raises(files) ==
  \E p \in DOMAIN files :
    \/ files[p].defect \in {"bytes", "raises"}
    \/ files[p].defect = "divides" /\ files[p].refs \subseteq Benchmarks(files)

(* What a program that starts on these files offers: none runs after a      *)
(* traceback.                                                               *)
Served(files) == IF Raises(files) THEN {} ELSE Loaded(files)

(* The library: by id, which content is from which file.                    *)
Library(files) ==
  [id \in {files[p].id : p \in Loaded(files)} |->
     CHOOSE p \in Loaded(files) : files[p].id = id]

-----------------------------------------------------------------------------

NotStarted == [state |-> "none", library |-> <<>>, warned |-> {}]

ContentInit == disk = <<>> /\ startup = NotStarted

(* An author adds a file.  The library is built at the start only, so what  *)
(* is written while the program runs counts as written before the next one. *)
Write(path, file) ==
  /\ startup = NotStarted
  /\ path \notin DOMAIN disk /\ Cardinality(DOMAIN disk) < MaxFiles
  /\ disk' = [p \in DOMAIN disk \cup {path} |->
                IF p = path THEN file ELSE disk[p]]
  /\ UNCHANGED startup

(* ContentLoader(root).  A start that raises leaves no program.             *)
StartUp ==
  /\ startup = NotStarted
  /\ startup' =
       IF Raises(disk) THEN [NotStarted EXCEPT !.state = "raised"]
       ELSE [state |-> "running",
             library |-> Library(disk), warned |-> Warned(disk)]
  /\ UNCHANGED disk

ContentNext ==
  StartUp \/ \E path \in Paths : \E file \in FileOf(path) : Write(path, file)

ContentTypeOK ==
  /\ DOMAIN disk \subseteq Paths
  /\ \A p \in DOMAIN disk : disk[p] \in FileOf(p)
  /\ startup.state \in {"none", "raised", "running"}
  /\ startup.warned \subseteq Paths
  /\ \A id \in DOMAIN startup.library : startup.library[id] \in Paths

(* What is loaded can be used: no other file that would pass has the same   *)
(* id, whatever collection it is in; a guesstimate's benchmarks exist; and  *)
(* a case's prerequisites are lessons of the library, unless the lesson was *)
(* left out with a warning because another file declares its id, the one    *)
(* way in which a loaded case loses a lesson (validation.py:250 takes the   *)
(* ids of the lessons before 287 deletes what is there twice).              *)
LibraryIsSound ==
  \A id \in DOMAIN startup.library :
    LET p == startup.library[id]
    IN /\ disk[p].defect = "none" /\ disk[p].id = id /\ p \notin startup.warned
       /\ \A q \in Valid(disk) : disk[q].id = id => q = p
       /\ Folder[p] = "cases" =>
            \A r \in disk[p].refs :
              \/ /\ r \in DOMAIN startup.library
                 /\ Folder[startup.library[r]] = "lessons"
              \/ \E q, same \in startup.warned :
                   /\ q # same /\ disk[q].id = r /\ disk[same].id = r
                   /\ Folder[q] = "lessons"
       /\ Folder[p] = "guesstimates" /\ disk[p].refs # {} =>
            \E q \in DOMAIN disk : Folder[q] = "benchmarks"

(* The start of these files raises because of a file that only more has: it *)
(* is at fault itself, or it brings the benchmarks a guesstimate divides by.*)
BrokenByNew(files, more) ==
  /\ Raises(more)
  /\ \E n \in DOMAIN more \ DOMAIN files :
       \/ more[n].defect \in {"bytes", "raises", "divides"}
       \/ /\ Folder[n] = "benchmarks"
          /\ \E p \in DOMAIN files : files[p].defect = "divides"

(* A new file takes content away in two ways only: whatever was offered     *)
(* before and is not any more has a namesake on the disk, or the start      *)
(* raises because of the new file, and then nothing is offered              *)
(* (docs/05_IMPLEMENTATION_PLAN.md:57, "new valid content dropped in a      *)
(* folder appears in the library, invalid content warns"; the second way is *)
(* denied by docs/03_CONTENT_SPEC.md:75, "Loading never crashes the app").  *)
UnloadedByNamesake ==
  [][\A p \in Served(disk) \ Served(disk') :
       \/ \E q \in DOMAIN disk' \ {p} : disk'[q].id = disk[p].id
       \/ BrokenByNew(disk, disk')]_contentVars
=============================================================================
