-------------------------- MODULE Algorithms_proofs --------------------------
(***************************************************************************)
(* Theorems about Content, Scorecard, Progress, Sprint, Sentences and       *)
(* Numbers, for every folder, rubric, library, drill set and table of       *)
(* words, and for sessions, histories, replies and turns of any length.     *)
(***************************************************************************)
EXTENDS MCAlgorithms, InductionLemmas, SequenceTheorems

(* The content folder and the start, on their own.                          *)
ContentSpec == ContentInit /\ [][ContentNext]_contentVars

(* What a start that gets through makes of a folder.                        *)
Running(files) ==
  [state |-> "running", library |-> Library(files), warned |-> Warned(files)]

Raised == [state |-> "raised", library |-> <<>>, warned |-> {}]

(* The inductive invariant: files keep to their folder's model, and a start *)
(* was made from what is on the disk.  Without the latter nothing ties the  *)
(* library to the files, which the properties compare.                      *)
FilesTyped ==
  /\ DOMAIN disk \subseteq Paths
  /\ \A p \in DOMAIN disk : disk[p] \in FileOf(p)

Started == startup \in {NotStarted, Raised, Running(disk)}

ContentInv == FilesTyped /\ Started

-----------------------------------------------------------------------------

(* What passes is on the disk, and its first defect is none.                *)
LEMMA ValidFiles ==
  ASSUME NEW files, NEW p \in Valid(files)
  PROVE  p \in DOMAIN files /\ files[p].defect = "none"
BY DEF Valid, ValidCases, ValidGuesstimates, ValidLessons, In

(* A library holds loaded files, and each of them under its own id: no two  *)
(* have the same one, so the choice of Library is of one only.              *)
LEMMA LibraryIsLoaded ==
  ASSUME NEW files
  PROVE  /\ \A id \in DOMAIN Library(files) :
              /\ Library(files)[id] \in Loaded(files)
              /\ files[Library(files)[id]].id = id
         /\ \A p \in Loaded(files) :
              /\ files[p].id \in DOMAIN Library(files)
              /\ Library(files)[files[p].id] = p
<1> DEFINE ids == {files[p].id : p \in Loaded(files)}
           Of(id) == CHOOSE p \in Loaded(files) : files[p].id = id
<1>1. Library(files) = [id \in ids |-> Of(id)] BY DEF Library
<1>2. ASSUME NEW id \in ids
      PROVE  Of(id) \in Loaded(files) /\ files[Of(id)].id = id
  <2>1. PICK p \in Loaded(files) : files[p].id = id OBVIOUS
  <2> QED BY <2>1
<1>3. ASSUME NEW p \in Loaded(files), NEW q \in Loaded(files),
             files[p].id = files[q].id
      PROVE  p = q
  BY <1>3 DEF Loaded, Duplicates
<1>4. ASSUME NEW p \in Loaded(files) PROVE Of(files[p].id) = p
  <2>1. files[p].id \in ids OBVIOUS
  <2> QED BY <2>1, <1>2, <1>3
<1> HIDE DEF Of
<1> QED BY <1>1, <1>2, <1>4

(* A file that passes is warned of only for an id declared twice.           *)
LEMMA ValidIsWarnedTwice ==
  ASSUME NEW files, NEW p \in Valid(files), p \in Warned(files)
  PROVE  p \in Duplicates(files)
<1>1. files[p].defect = "none" BY ValidFiles
<1>2. Folder[p] = "cases" => files[p].refs \subseteq LessonIds(files)
  BY DEF Valid, ValidCases, ValidGuesstimates, ValidLessons, In
<1>3. Folder[p] = "guesstimates" => files[p].refs \subseteq Benchmarks(files)
  BY DEF Valid, ValidCases, ValidGuesstimates, ValidLessons, In
<1> QED BY <1>1, <1>2, <1>3 DEF Warned, Violates

(* Files that share an id are both warned of.                               *)
LEMMA TwinsAreWarned ==
  ASSUME NEW files, NEW p \in Duplicates(files)
  PROVE  \E q \in Duplicates(files) \ {p} :
           files[q].id = files[p].id /\ p \in Warned(files) /\ q \in Warned(files)
<1>1. PICK q \in Valid(files) \ {p} : files[p].id = files[q].id
  BY DEF Duplicates
<1>2. q \in Duplicates(files) BY <1>1 DEF Duplicates
<1> QED BY <1>1, <1>2 DEF Warned

(* A case that passes refers to lessons that pass, which are loaded unless  *)
(* they share their id, and a guesstimate to a file of benchmarks.          *)
LEMMA ReferencesExist ==
  ASSUME NEW files, NEW p \in Valid(files)
  PROVE  /\ Folder[p] = "cases" =>
              \A r \in files[p].refs :
                \E q \in Loaded(files) \cup Duplicates(files) :
                  Folder[q] = "lessons" /\ files[q].id = r
         /\ Folder[p] = "guesstimates" /\ files[p].refs # {} =>
              \E q \in DOMAIN files : Folder[q] = "benchmarks"
<1>1. CASE Folder[p] = "cases"
  <2>1. files[p].refs \subseteq LessonIds(files)
    BY <1>1 DEF Valid, ValidCases, ValidGuesstimates, ValidLessons, In
  <2>2. ASSUME NEW r \in files[p].refs
        PROVE  \E q \in Loaded(files) \cup Duplicates(files) :
                 Folder[q] = "lessons" /\ files[q].id = r
    <3>1. PICK q \in ValidLessons(files) : files[q].id = r
      BY <2>1 DEF LessonIds
    <3> QED BY <3>1 DEF Loaded, Valid, ValidLessons, In
  <2> QED BY <1>1, <2>2
<1>2. CASE Folder[p] = "guesstimates"
  <2>1. files[p].refs \subseteq Benchmarks(files)
    BY <1>2 DEF Valid, ValidCases, ValidGuesstimates, ValidLessons, In
  <2> QED BY <1>2, <2>1 DEF Benchmarks, In
<1> QED BY <1>1, <1>2

-----------------------------------------------------------------------------

(* The inductive invariant holds at the start.                              *)
LEMMA ContentInvInit == ContentInit => ContentInv
BY DEF ContentInit, ContentInv, FilesTyped, Started

(* Every step keeps it: a file is only written before a start, and a start  *)
(* leaves the disk as it is.                                                *)
LEMMA ContentInvNext == ContentInv /\ [ContentNext]_contentVars => ContentInv'
<1> SUFFICES ASSUME ContentInv, [ContentNext]_contentVars PROVE ContentInv'
  OBVIOUS
<1> USE DEF ContentInv, FilesTyped, Started
<1>1. CASE StartUp
  <2>1. startup' \in {Raised, Running(disk)}
    BY <1>1 DEF StartUp, Raised, Running, NotStarted
  <2>2. disk' = disk BY <1>1 DEF StartUp
  <2>3. Running(disk)' = Running(disk')
    BY DEF Running, Library, Warned, Violates
  <2> QED BY <2>1, <2>2, <2>3
<1>2. ASSUME NEW path \in Paths, NEW file \in FileOf(path), Write(path, file)
      PROVE  ContentInv'
  <2>1. FilesTyped' BY <1>2 DEF Write, FileOf
  <2>2. startup' = NotStarted BY <1>2 DEF Write
  <2> QED BY <2>1, <2>2 DEF NotStarted
<1>3. CASE UNCHANGED contentVars
  <2>1. disk' = disk /\ startup' = startup BY <1>3 DEF contentVars
  <2>2. Running(disk)' = Running(disk') BY DEF Running, Library, Warned, Violates
  <2> QED BY <2>1, <2>2 DEF FileOf
<1> QED BY <1>1, <1>2, <1>3 DEF ContentNext

(* The inductive invariant is one.                                          *)
LEMMA ContentInvariant == ContentSpec => []ContentInv
BY ContentInvInit, ContentInvNext, PTL DEF ContentSpec

(* A running library is the one of the disk; before a start, and after one  *)
(* that raised, there is none.                                              *)
LEMMA StartedLibrary ==
  ASSUME Started
  PROVE  /\ startup.state = "running" => startup = Running(disk)
         /\ startup # Running(disk) => DOMAIN startup.library = {}
<1>1. NotStarted.state # "running" /\ Raised.state # "running"
  BY DEF NotStarted, Raised
<1>2. DOMAIN NotStarted.library = {} /\ DOMAIN Raised.library = {}
  BY DEF NotStarted, Raised
<1> QED BY <1>1, <1>2 DEF Started

(* Types: the library and the warnings name paths of the folder.            *)
THEOREM ContentTypes == ContentSpec => []ContentTypeOK
<1>1. ContentInv => ContentTypeOK
  <2> SUFFICES ASSUME ContentInv PROVE ContentTypeOK OBVIOUS
  <2> USE DEF ContentInv, FilesTyped, Started, ContentTypeOK
  <2>1. CASE startup = Running(disk)
    <3>1. startup.library = Library(disk) /\ startup.warned = Warned(disk)
          /\ startup.state = "running"
      BY <2>1 DEF Running
    <3>2. Loaded(disk) \subseteq Paths BY ValidFiles DEF Loaded
    <3>3. Warned(disk) \subseteq Paths
      BY ValidFiles DEF Warned, Duplicates
    <3> QED BY <3>1, <3>2, <3>3, LibraryIsLoaded
  <2>2. CASE startup \in {NotStarted, Raised}
    <3>1. startup.library = <<>> /\ startup.warned = {}
          /\ startup.state \in {"none", "raised"}
      BY <2>2 DEF NotStarted, Raised
    <3> QED BY <3>1
  <2> QED BY <2>1, <2>2
<1> QED BY <1>1, ContentInvariant, PTL

(* What a start offers can be used: its id is its own in all collections,   *)
(* nothing that is warned of is offered, a guesstimate's benchmarks are     *)
(* there, and so are a case's lessons, unless an id declared twice took one *)
(* away with a warning (ContentLoader._build and validate_all).             *)
THEOREM LoadedIsUsable == ContentSpec => []LibraryIsSound
<1>1. ASSUME ContentInv, NEW id \in DOMAIN startup.library,
             NEW p, p = startup.library[id]
      PROVE  /\ disk[p].defect = "none" /\ disk[p].id = id
             /\ p \notin startup.warned
             /\ \A q \in Valid(disk) : disk[q].id = id => q = p
             /\ Folder[p] = "cases" =>
                  \A r \in disk[p].refs :
                    \/ /\ r \in DOMAIN startup.library
                       /\ Folder[startup.library[r]] = "lessons"
                    \/ \E q, same \in startup.warned :
                         /\ q # same /\ disk[q].id = r /\ disk[same].id = r
                         /\ Folder[q] = "lessons"
             /\ Folder[p] = "guesstimates" /\ disk[p].refs # {} =>
                  \E q \in DOMAIN disk : Folder[q] = "benchmarks"
  <2>1. startup.library = Library(disk) /\ startup.warned = Warned(disk)
    <3>1. startup = Running(disk) BY <1>1, StartedLibrary DEF ContentInv
    <3> QED BY <3>1 DEF Running
  <2>2. p \in Loaded(disk) /\ disk[p].id = id BY <1>1, <2>1, LibraryIsLoaded
  <2>3. p \in Valid(disk) /\ p \notin Duplicates(disk) BY <2>2 DEF Loaded
  <2>4. p \notin Warned(disk) BY <2>3, ValidIsWarnedTwice
  <2>5. \A q \in Valid(disk) : disk[q].id = id => q = p
    BY <2>2, <2>3 DEF Duplicates
  <2>6. ASSUME NEW r \in disk[p].refs, Folder[p] = "cases"
        PROVE  \/ /\ r \in DOMAIN startup.library
                  /\ Folder[startup.library[r]] = "lessons"
               \/ \E q, same \in startup.warned :
                    /\ q # same /\ disk[q].id = r /\ disk[same].id = r
                    /\ Folder[q] = "lessons"
    <3>1. PICK q \in Loaded(disk) \cup Duplicates(disk) :
            Folder[q] = "lessons" /\ disk[q].id = r
      BY <2>3, <2>6, ReferencesExist
    <3>2. CASE q \in Loaded(disk)
      BY <3>1, <3>2, <2>1, LibraryIsLoaded
    <3>3. CASE q \in Duplicates(disk)
      <4>1. PICK same \in Duplicates(disk) \ {q} :
              /\ disk[same].id = disk[q].id
              /\ q \in Warned(disk) /\ same \in Warned(disk)
        BY <3>3, TwinsAreWarned
      <4> QED BY <3>1, <4>1, <2>1
    <3> QED BY <3>1, <3>2, <3>3
  <2>7. Folder[p] = "guesstimates" /\ disk[p].refs # {} =>
          \E q \in DOMAIN disk : Folder[q] = "benchmarks"
    BY <2>3, ReferencesExist
  <2> QED BY <2>1, <2>2, <2>3, <2>4, <2>5, <2>6, <2>7, ValidFiles
<1>2. ContentInv => LibraryIsSound BY <1>1 DEF LibraryIsSound
<1> QED BY <1>2, ContentInvariant, PTL

-----------------------------------------------------------------------------

(* What passes still passes when a file is added: lessons and benchmarks    *)
(* only become more.                                                        *)
LEMMA AddingKeepsValid ==
  ASSUME NEW files, NEW more, DOMAIN files \subseteq DOMAIN more,
         \A p \in DOMAIN files : more[p] = files[p]
  PROVE  Valid(files) \subseteq Valid(more)
<1>1. \A folder : In(files, folder) \subseteq In(more, folder) BY DEF In
<1>2. ValidLessons(files) \subseteq ValidLessons(more)
  BY <1>1 DEF ValidLessons, In
<1>3. LessonIds(files) \subseteq LessonIds(more)
  BY <1>2 DEF LessonIds, ValidLessons, In
<1>4. Benchmarks(files) \subseteq Benchmarks(more) BY DEF Benchmarks, In
<1>5. ValidCases(files) \subseteq ValidCases(more)
  BY <1>3 DEF ValidCases, In
<1>6. ValidGuesstimates(files) \subseteq ValidGuesstimates(more)
  BY <1>4 DEF ValidGuesstimates, In
<1> QED BY <1>2, <1>5, <1>6 DEF Valid

(* If the start of more files raises and that of the first ones does not,   *)
(* a file that is new is to blame: it has the defect, or it is the file of  *)
(* benchmarks by which a guesstimate now divides.                           *)
LEMMA NewFileIsToBlame ==
  ASSUME NEW files, NEW more, DOMAIN files \subseteq DOMAIN more,
         \A p \in DOMAIN files : more[p] = files[p],
         ~Raises(files), Raises(more)
  PROVE  BrokenByNew(files, more)
<1>1. PICK p \in DOMAIN more :
        \/ more[p].defect \in {"bytes", "raises"}
        \/ /\ more[p].defect = "divides"
           /\ more[p].refs \subseteq Benchmarks(more)
  BY DEF Raises
<1>2. CASE p \notin DOMAIN files BY <1>1, <1>2 DEF BrokenByNew
<1>3. CASE p \in DOMAIN files
  <2>1. more[p] = files[p] BY <1>3
  <2>2. /\ files[p].defect = "divides"
        /\ files[p].refs \subseteq Benchmarks(more)
        /\ ~(files[p].refs \subseteq Benchmarks(files))
    BY <1>1, <1>3, <2>1 DEF Raises
  <2>3. PICK r \in Benchmarks(more) : r \notin Benchmarks(files) BY <2>2
  <2>4. PICK n \in In(more, "benchmarks") :
          more[n].defect = "none" /\ r \in Refs["guesstimates"]
    BY <2>3 DEF Benchmarks
  <2>5. n \notin DOMAIN files BY <2>3, <2>4 DEF Benchmarks, In
  <2> QED BY <1>3, <2>2, <2>4, <2>5 DEF BrokenByNew, In
<1> QED BY <1>2, <1>3

(* A file that is added takes content away only if some file then has the   *)
(* id of what is gone, or if the start raises because of the file that was  *)
(* added (ContentLoader._build over validate_all and _read_json).           *)
THEOREM AddingUnloadsNamesakesOnly == ContentSpec => UnloadedByNamesake
<1>1. ASSUME [ContentNext]_contentVars,
             NEW p \in Served(disk) \ Served(disk')
      PROVE  \/ \E q \in DOMAIN disk' \ {p} : disk'[q].id = disk[p].id
             \/ BrokenByNew(disk, disk')
  <2>1. disk' # disk BY <1>1
  <2>2. PICK path \in Paths : \E file \in FileOf(path) : Write(path, file)
    BY <1>1, <2>1 DEF ContentNext, StartUp, contentVars
  <2>3. DOMAIN disk \subseteq DOMAIN disk'
        /\ \A q \in DOMAIN disk : disk'[q] = disk[q]
    BY <2>2 DEF Write
  <2>4. ~Raises(disk) /\ p \in Loaded(disk) BY <1>1 DEF Served
  <2>5. CASE Raises(disk') BY <2>3, <2>4, <2>5, NewFileIsToBlame
  <2>6. CASE ~Raises(disk')
    <3>1. p \notin Loaded(disk') BY <1>1, <2>6 DEF Served
    <3>2. p \in Valid(disk') BY <2>3, <2>4, AddingKeepsValid DEF Loaded
    <3>3. PICK q \in Valid(disk') \ {p} : disk'[p].id = disk'[q].id
      BY <3>1, <3>2 DEF Loaded, Duplicates
    <3>4. disk'[p] = disk[p] BY <2>3, <2>4, ValidFiles DEF Loaded
    <3> QED BY <3>3, <3>4, ValidFiles
  <2> QED BY <2>5, <2>6
<1>2. [ContentNext]_contentVars =>
        [\A p \in Served(disk) \ Served(disk') :
           \/ \E q \in DOMAIN disk' \ {p} : disk'[q].id = disk[p].id
           \/ BrokenByNew(disk, disk')]_contentVars
  BY <1>1
<1> QED BY <1>2, PTL DEF ContentSpec, UnloadedByNamesake

-----------------------------------------------------------------------------
(* Sessions, their hints and their scorecards, on their own.                *)
ScorecardSpec == ScorecardInit /\ [][ScorecardNext]_scorecardVars

(* round() of tenths keeps their order.                                     *)
LEMMA RoundMonotonic ==
  ASSUME NEW m \in Nat, NEW n \in Nat, m <= n
  PROVE  Round(m) \in Nat /\ Round(m) <= Round(n)
BY DEF Round

(* What hints cost is a natural number, and grows with every hint.          *)
LEMMA PenaltyGrows ==
  ASSUME hintCost \in Nat, NEW used \in Nat
  PROVE  Penalty(used) \in Nat /\ Penalty(used) <= Penalty(used + 1)
<1>1. /\ used * hintCost \in Nat
      /\ (used + 1) * hintCost = used * hintCost + hintCost
  OBVIOUS
<1>2. (used + 1) * hintCost \in Nat OBVIOUS
<1>3. used * hintCost <= (used + 1) * hintCost BY <1>1
<1> QED BY <1>1, <1>2, <1>3, RoundMonotonic DEF Penalty

(* A docked score is the score less the penalty, or 1; without a penalty it *)
(* stays, even out of range.                                                *)
LEMMA DockedIs ==
  ASSUME hintCost \in Nat, NEW used \in Nat, NEW score \in Int
  PROVE  Docked(score, used) =
           IF Penalty(used) = 0 THEN score
           ELSE IF score - Penalty(used) >= 1 THEN score - Penalty(used) ELSE 1
<1>1. Penalty(used) \in Nat BY PenaltyGrows
<1>2. score - Penalty(used) \in Int BY <1>1
<1>3. ASSUME NEW n \in Int PROVE Highest({1, n}) = IF n >= 1 THEN n ELSE 1
  <2>1. \A k \in {1, n} : (\A l \in {1, n} : k >= l) <=>
                             k = IF n >= 1 THEN n ELSE 1
    OBVIOUS
  <2>2. (IF n >= 1 THEN n ELSE 1) \in {1, n} OBVIOUS
  <2> QED BY <2>1, <2>2 DEF Highest
<1> QED BY <1>1, <1>2, <1>3 DEF Docked

(* Docking keeps the range and the order of the scores; it lifts none of 1  *)
(* or more, and one hint more lifts none of these either.                   *)
LEMMA DockingKeepsOrder ==
  ASSUME hintCost \in Nat, NEW used \in Nat,
         NEW low \in Int, NEW high \in Int, low <= high
  PROVE  /\ Docked(low, used) \in Int
         /\ low \in Score => Docked(low, used) \in Score
         /\ Docked(low, used) <= Docked(high, used)
         /\ low >= 1 => /\ Docked(low, used) <= low
                        /\ Docked(low, used + 1) <= Docked(low, used)
<1>1. /\ Penalty(used) \in Nat /\ Penalty(used + 1) \in Nat
      /\ Penalty(used) <= Penalty(used + 1)
  BY PenaltyGrows
<1>2. /\ Docked(low, used) =
           IF Penalty(used) = 0 THEN low
           ELSE IF low - Penalty(used) >= 1 THEN low - Penalty(used) ELSE 1
      /\ Docked(high, used) =
           IF Penalty(used) = 0 THEN high
           ELSE IF high - Penalty(used) >= 1 THEN high - Penalty(used) ELSE 1
      /\ Docked(low, used + 1) =
           IF Penalty(used + 1) = 0 THEN low
           ELSE IF low - Penalty(used + 1) >= 1
                THEN low - Penalty(used + 1) ELSE 1
  BY DockedIs
<1> QED BY <1>1, <1>2 DEF Score

(* The levels of a rubric that are bounded from below have a lowest one,    *)
(* and those that are bounded from above too a highest one.                 *)
LEMMA LevelsAreBounded ==
  ASSUME NEW levels, levels \subseteq Int, levels # {},
         NEW floor \in Int, \A k \in levels : floor <= k
  PROVE  /\ Lowest(levels) \in levels /\ \A k \in levels : Lowest(levels) <= k
         /\ \A bound \in Int :
              (\A k \in levels : k <= bound) =>
                Highest(levels) \in levels /\ \A k \in levels : Highest(levels) >= k
<1> DEFINE above == {k - floor : k \in levels}
<1>1. above \subseteq Nat /\ above # {}
  <2>1. \A k \in levels : k - floor \in Nat OBVIOUS
  <2>2. PICK k \in levels : TRUE OBVIOUS
  <2>3. k - floor \in above OBVIOUS
  <2> QED BY <2>1, <2>3
<1>2. \E m \in levels : \A k \in levels : m <= k
  <2>1. PICK m \in above : \A k \in above : m <= k BY <1>1, LeastNatural
  <2>2. PICK l \in levels : m = l - floor BY <2>1
  <2>3. ASSUME NEW k \in levels PROVE l <= k
    <3>1. k - floor \in above OBVIOUS
    <3>2. l - floor <= k - floor BY <2>1, <2>2, <3>1
    <3>3. l \in Int /\ k \in Int OBVIOUS
    <3> HIDE DEF above
    <3> QED BY <3>2, <3>3
  <2> QED BY <2>3
<1>3. ASSUME NEW bound \in Int, \A k \in levels : k <= bound
      PROVE  \E m \in levels : \A k \in levels : m >= k
  <2>1. bound - floor \in Nat /\ \A k \in above : k <= bound - floor
    <3>1. PICK k \in levels : TRUE OBVIOUS
    <3>2. floor <= k /\ k <= bound /\ k \in Int BY <1>3
    <3>3. bound - floor \in Nat BY <3>2
    <3>4. \A l \in levels : l - floor <= bound - floor BY <1>3
    <3> QED BY <3>3, <3>4
  <2>2. PICK m \in above : \A k \in above : m >= k
    BY <1>1, <2>1, GreatestNatural
  <2>3. PICK l \in levels : m = l - floor BY <2>2
  <2>4. ASSUME NEW k \in levels PROVE l >= k
    <3>1. k - floor \in above OBVIOUS
    <3>2. l - floor >= k - floor BY <2>2, <2>3, <3>1
    <3>3. l \in Int /\ k \in Int OBVIOUS
    <3> HIDE DEF above
    <3> QED BY <3>2, <3>3
  <2> QED BY <2>4
<1> QED BY <1>2, <1>3 DEF Lowest, Highest

(* The level that explains a score is one of the rubric's; it is the lowest *)
(* if all are above the score, and otherwise at or below it; and it is not  *)
(* higher for a lower score.                                                *)
LEMMA AnchorIs ==
  ASSUME NEW levels, levels \subseteq Int, levels # {}, NEW score \in Int,
         \E floor \in Int : \A k \in levels : floor <= k
  PROVE  /\ AnchorFor(levels, score) \in levels
         /\ AnchorFor(levels, score) > score => \A k \in levels : k > score
         /\ \A k \in levels : k <= score => k <= AnchorFor(levels, score)
         /\ (\A k \in levels : k > score) =>
              \A k \in levels : AnchorFor(levels, score) <= k
<1> DEFINE below == {k \in levels : k <= score}
<1>1. PICK floor \in Int : \A k \in levels : floor <= k OBVIOUS
<1>2. CASE below # {}
  <2>1. below \subseteq Int /\ \A k \in below : k <= score /\ floor <= k
    BY <1>1
  <2>2. Highest(below) \in below /\ \A k \in below : Highest(below) >= k
    <3> HIDE DEF below
    <3> QED BY <1>2, <2>1, LevelsAreBounded
  <2>3. AnchorFor(levels, score) = Highest(below) BY <1>2 DEF AnchorFor
  <2>4. \A k \in levels : k <= score => k <= Highest(below) BY <2>2
  <2>5. Highest(below) \in levels /\ Highest(below) <= score BY <2>2
  <2>6. Highest(below) \in Int BY <2>5
  <2> HIDE DEF below
  <2> QED BY <2>3, <2>4, <2>5, <2>6
<1>3. CASE below = {}
  <2>1. /\ Lowest(levels) \in levels
        /\ \A k \in levels : Lowest(levels) <= k
    BY <1>1, LevelsAreBounded
  <2>2. AnchorFor(levels, score) = Lowest(levels) BY <1>3 DEF AnchorFor
  <2>3. \A k \in levels : k > score BY <1>3
  <2> QED BY <2>1, <2>2, <2>3
<1> QED BY <1>2, <1>3

(* A lower score is explained by no higher level.                           *)
LEMMA AnchorMonotonic ==
  ASSUME NEW levels, levels \subseteq Int, levels # {},
         \E floor \in Int : \A k \in levels : floor <= k,
         NEW low \in Int, NEW high \in Int, low <= high
  PROVE  AnchorFor(levels, low) <= AnchorFor(levels, high)
<1>1. /\ AnchorFor(levels, low) \in levels /\ AnchorFor(levels, high) \in levels
      /\ AnchorFor(levels, low) \in Int /\ AnchorFor(levels, high) \in Int
  BY AnchorIs
<1>2. CASE AnchorFor(levels, low) > low
  <2>1. \A k \in levels : k > low BY <1>2, AnchorIs
  <2> QED BY <1>1, <2>1, AnchorIs
<1>3. CASE AnchorFor(levels, low) <= low
  <2>1. AnchorFor(levels, low) <= high BY <1>1, <1>3
  <2> QED BY <1>1, <2>1, AnchorIs
<1> QED BY <1>1, <1>2, <1>3
-----------------------------------------------------------------------------
(* The sum of some lengths, one by one.                                     *)
LEMMA TotalRuns ==
  ASSUME NEW s \in Seq(Nat)
  PROVE  \E run \in [0 .. Len(s) -> Nat] :
           /\ run[0] = 0
           /\ \A k \in 1 .. Len(s) : run[k] = run[k - 1] + s[k]
           /\ run[Len(s)] = Total(s)
<1> DEFINE n == Len(s)
           step == [p \in (1 .. n) \X Nat |-> p[2] + s[p[1]]]
           Is(f) == f = [t \in SUBSET (1 .. n) |->
                           IF t = {} THEN 0 ELSE f[t \ {Max(t)}] + s[Max(t)]]
           iter == CHOOSE f : Is(f)
<1>1. n \in Nat /\ DOMAIN s = 1 .. n OBVIOUS
<1>2. Total(s) = iter[1 .. n] BY <1>1 DEF Total, FoldLeft, MapThenFoldSet
<1>3. \A k \in 1 .. n, v \in Nat : v + s[k] \in Nat OBVIOUS
<1>4. step \in [(1 .. n) \X Nat -> Nat] BY <1>3
<1>5. \A k \in 1 .. n, v \in Nat : step[<<k, v>>] = v + s[k] OBVIOUS
<1>6. \A t \in SUBSET (1 .. n) : t # {} => Max(t) \in 1 .. n
  BY <1>1, GreatestPlace
<1>7. Is(iter)
  <2> HIDE DEF n, step
  <2>1. PICK f \in [SUBSET (1 .. n) -> Nat] :
          IsFold(f, 1 .. n, 0, [t \in SUBSET (1 .. n) |-> Max(t)], step)
    BY <1>1, <1>4, LeftFoldExists
  <2>2. Is(f)
    <3> SUFFICES ASSUME NEW t \in SUBSET (1 .. n)
                 PROVE  f[t] = IF t = {} THEN 0
                               ELSE f[t \ {Max(t)}] + s[Max(t)]
      BY <2>1
    <3>1. f[t \ {Max(t)}] \in Nat BY <2>1
    <3> QED BY <2>1, <3>1, <1>5, <1>6 DEF IsFold
  <2> QED BY <2>2
<1>8. StepsLeft(iter, n, Nat, 0, step)
  <2> HIDE DEF n, step, iter
  <2> QED BY <1>5, <1>6, <1>7 DEF StepsLeft
<1> HIDE DEF n, step, iter
<1>9. PICK run \in [0 .. n -> Nat] : IsRun(run, n, 0, step, iter[1 .. n])
  BY <1>1, <1>4, <1>8, LeftFoldRuns
<1>10. ASSUME NEW k \in 1 .. n PROVE run[k] = run[k - 1] + s[k]
  <2>1. run[k - 1] \in Nat BY <1>1, <1>9
  <2>2. run[k] = step[<<k, run[k - 1]>>] BY <1>9 DEF IsRun
  <2> QED BY <2>1, <2>2, <1>5
<1>11. run[0] = 0 /\ run[n] = Total(s) BY <1>2, <1>9 DEF IsRun
<1> QED BY <1>9, <1>10, <1>11 DEF n

(* A turn in front of others adds its length.                               *)
LEMMA TotalPrepend ==
  ASSUME NEW s \in Seq(Nat), NEW x \in Nat
  PROVE  Total(s) \in Nat /\ Total(<<x>> \o s) = x + Total(s)
<1> DEFINE n == Len(s)
           more == <<x>> \o s
<1>1. /\ n \in Nat /\ more \in Seq(Nat) /\ Len(more) = n + 1
      /\ more[1] = x /\ \A k \in 1 .. n : more[k + 1] = s[k]
  OBVIOUS
<1>2. PICK f \in [0 .. n -> Nat] :
        /\ f[0] = 0
        /\ \A k \in 1 .. n : f[k] = f[k - 1] + s[k]
        /\ f[n] = Total(s)
  BY TotalRuns
<1> HIDE DEF more, n
<1>3. PICK g \in [0 .. n + 1 -> Nat] :
        /\ g[0] = 0
        /\ \A k \in 1 .. n + 1 : g[k] = g[k - 1] + more[k]
        /\ g[n + 1] = Total(more)
  BY <1>1, TotalRuns
<1> DEFINE a == [k \in 0 .. n |-> x + f[k]]
           b == [k \in 0 .. n |-> g[k + 1]]
<1>4. a[0] = b[0]
  <2>1. g[1] = g[1 - 1] + more[1] BY <1>1, <1>3
  <2> QED BY <2>1, <1>1, <1>2, <1>3
<1>5. ASSUME NEW k \in 1 .. n, a[k - 1] = b[k - 1] PROVE a[k] = b[k]
  <2>1. k + 1 \in 1 .. n + 1 /\ (k + 1) - 1 = (k - 1) + 1 /\ k - 1 \in 0 .. n
    BY <1>1
  <2>2. g[k + 1] = g[(k - 1) + 1] + s[k]
    <3>1. g[k + 1] = g[(k + 1) - 1] + more[k + 1] BY <1>3, <2>1
    <3> QED BY <3>1, <2>1, <1>1
  <2>3. g[(k - 1) + 1] = x + f[k - 1] BY <1>5, <2>1
  <2>4. f[k] = f[k - 1] + s[k] BY <1>2
  <2>5. f[k - 1] \in Nat BY <1>2, <2>1
  <2>6. s[k] \in Nat
    <3>1. k \in DOMAIN s BY DEF n
    <3> QED BY <3>1
  <2> QED BY <2>2, <2>3, <2>4, <2>5, <2>6
<1>6. a[n] = b[n]
  <2>1. StepAlike(a, b, n) BY <1>5 DEF StepAlike
  <2> HIDE DEF a, b
  <2> QED BY <1>1, <1>4, <2>1, RunsAgree
<1>7. x + f[n] = g[n + 1] BY <1>1, <1>6
<1>8. Total(s) \in Nat BY <1>1, <1>2
<1> QED BY <1>2, <1>3, <1>7, <1>8 DEF more

(* No turns have no length.                                                 *)
LEMMA TotalEmpty == Total(<<>>) = 0
<1> DEFINE s == <<>>
<1>1. s \in Seq(Nat) OBVIOUS
<1>2. Len(s) = 0 OBVIOUS
<1> HIDE DEF s
<1>3. PICK run \in [0 .. Len(s) -> Nat] :
        /\ run[0] = 0
        /\ \A k \in 1 .. Len(s) : run[k] = run[k - 1] + s[k]
        /\ run[Len(s)] = Total(s)
  BY <1>1, TotalRuns
<1>4. Total(s) = 0 BY <1>2, <1>3
<1> QED BY <1>4 DEF s

Kept == [kept : Seq(Nat), full : BOOLEAN]
NoTurns == [kept |-> <<>>, full |-> FALSE]

(* One turn more keeps the type.                                            *)
LEMMA KeepTurnType ==
  ASSUME NEW acc \in Kept, NEW n \in Nat
  PROVE  KeepTurn(n, acc) \in Kept
<1>1. acc.kept \in Seq(Nat) /\ acc.full \in BOOLEAN BY DEF Kept
<1>2. <<n>> \o acc.kept \in Seq(Nat) BY <1>1
<1>3. [acc EXCEPT !.full = TRUE] \in Kept BY DEF Kept
<1>4. [acc EXCEPT !.kept = <<n>> \o @] \in Kept BY <1>2 DEF Kept
<1> QED BY <1>3, <1>4 DEF KeepTurn

(* The loop of _fit_transcript, from the newest turn on.                    *)
LEMMA FitRuns ==
  ASSUME NEW s \in Seq(Nat)
  PROVE  \E run \in [0 .. Len(s) -> Kept] :
           /\ run[0] = NoTurns
           /\ \A k \in 1 .. Len(s) :
                run[k] = KeepTurn(s[Len(s) - k + 1], run[k - 1])
           /\ run[Len(s)].kept = FitTranscript(s)
<1> DEFINE n == Len(s)
           step == [p \in (1 .. n) \X Kept |-> KeepTurn(s[p[1]], p[2])]
           Is(f) == f = [t \in SUBSET (1 .. n) |->
                           IF t = {} THEN NoTurns
                           ELSE KeepTurn(s[Min(t)], f[t \ {Min(t)}])]
           iter == CHOOSE f : Is(f)
<1>1. n \in Nat /\ DOMAIN s = 1 .. n OBVIOUS
<1>2. FitTranscript(s) = iter[1 .. n].kept
  BY <1>1 DEF FitTranscript, FoldRight, MapThenFoldSet, NoTurns
<1>3. \A k \in 1 .. n, v \in Kept : KeepTurn(s[k], v) \in Kept BY KeepTurnType
<1>4. step \in [(1 .. n) \X Kept -> Kept] BY <1>3
<1>5. \A k \in 1 .. n, v \in Kept : step[<<k, v>>] = KeepTurn(s[k], v) OBVIOUS
<1>6. \A t \in SUBSET (1 .. n) : t # {} => Min(t) \in 1 .. n
  BY <1>1, LeastPlace
<1>7. NoTurns \in Kept BY DEF NoTurns, Kept
<1>8. Is(iter)
  <2> HIDE DEF n, step
  <2>1. PICK f \in [SUBSET (1 .. n) -> Kept] :
          IsFold(f, 1 .. n, NoTurns, [t \in SUBSET (1 .. n) |-> Min(t)], step)
    BY <1>1, <1>4, <1>7, RightFoldExists
  <2>2. Is(f)
    <3> SUFFICES ASSUME NEW t \in SUBSET (1 .. n)
                 PROVE  f[t] = IF t = {} THEN NoTurns
                               ELSE KeepTurn(s[Min(t)], f[t \ {Min(t)}])
      BY <2>1
    <3>1. f[t \ {Min(t)}] \in Kept BY <2>1
    <3> QED BY <2>1, <3>1, <1>5, <1>6 DEF IsFold
  <2> QED BY <2>2
<1>9. StepsRight(iter, n, Kept, NoTurns, step)
  <2> HIDE DEF n, step, iter
  <2> QED BY <1>5, <1>6, <1>8 DEF StepsRight
<1> HIDE DEF n, step, iter
<1>10. PICK run \in [0 .. n -> Kept] :
         IsRunBack(run, n, NoTurns, step, iter[1 .. n])
  BY <1>1, <1>4, <1>7, <1>9, RightFoldRuns
<1>11. ASSUME NEW k \in 1 .. n PROVE run[k] = KeepTurn(s[n - k + 1], run[k - 1])
  <2>1. run[k - 1] \in Kept /\ n - k + 1 \in 1 .. n BY <1>1, <1>10
  <2>2. run[k] = step[<<n - k + 1, run[k - 1]>>] BY <1>10 DEF IsRunBack
  <2> QED BY <2>1, <2>2, <1>5
<1>12. run[0] = NoTurns /\ run[n].kept = FitTranscript(s)
  BY <1>2, <1>10 DEF IsRunBack
<1> QED BY <1>10, <1>11, <1>12 DEF n

(* What the loop has kept after k turns: the newest ones, in one piece and  *)
(* within the budget but for a single turn; once a turn did not fit, the    *)
(* loop keeps no more.                                                      *)
Fits(s, acc, k) ==
  LET m == Len(acc.kept)
  IN /\ acc \in Kept
     /\ m <= k /\ (k > 0 => m > 0)
     /\ acc.kept = SubSeq(s, Len(s) - m + 1, Len(s))
     /\ Total(acc.kept) <= Budget \/ m = 1
     /\ ~acc.full => m = k
     /\ acc.full => m < k /\ Total(acc.kept) + s[Len(s) - m] > Budget

(* At first nothing is kept.                                                *)
LEMMA FitsAtFirst ==
  ASSUME Budget \in Nat, NEW s \in Seq(Nat)
  PROVE  Fits(s, NoTurns, 0)
<1>1. NoTurns \in Kept BY DEF NoTurns, Kept
<1>2. Len(NoTurns.kept) = 0 /\ NoTurns.kept = <<>> /\ ~NoTurns.full
  BY DEF NoTurns
<1>3. SubSeq(s, Len(s) - 0 + 1, Len(s)) = <<>> OBVIOUS
<1>4. Total(NoTurns.kept) = 0 BY <1>2, TotalEmpty
<1> HIDE DEF NoTurns
<1> QED BY <1>1, <1>2, <1>3, <1>4 DEF Fits

(* One step of the loop keeps that.                                         *)
LEMMA FitsNext ==
  ASSUME Budget \in Nat, NEW s \in Seq(Nat), NEW k \in 1 .. Len(s),
         NEW acc, Fits(s, acc, k - 1)
  PROVE  Fits(s, KeepTurn(s[Len(s) - k + 1], acc), k)
<1> DEFINE n == Len(s)
           m == Len(acc.kept)
           x == s[n - k + 1]
           next == KeepTurn(x, acc)
<1>1. acc \in Kept BY DEF Fits
<1>2. acc.kept \in Seq(Nat) /\ acc.full \in BOOLEAN BY <1>1 DEF Kept
<1>3. m \in Nat /\ n \in Nat /\ k \in 1 .. n BY <1>2
<1>4. x \in Nat
  <2>1. n - k + 1 \in 1 .. n BY <1>3
  <2> HIDE DEF n
  <2>2. n - k + 1 \in DOMAIN s BY <2>1 DEF n
  <2> QED BY <2>2
<1>5. m <= k - 1 /\ (k - 1 > 0 => m > 0) BY DEF Fits
<1>6. acc.kept = SubSeq(s, n - m + 1, n) BY DEF Fits
<1>7. Total(acc.kept) <= Budget \/ m = 1 BY DEF Fits
<1>8. ~acc.full => m = k - 1 BY DEF Fits
<1>9. acc.full => m < k - 1 /\ Total(acc.kept) + s[n - m] > Budget BY DEF Fits
<1>10. Fits(s, next, k) <=>
         /\ next \in Kept
         /\ Len(next.kept) <= k /\ (k > 0 => Len(next.kept) > 0)
         /\ next.kept = SubSeq(s, n - Len(next.kept) + 1, n)
         /\ Total(next.kept) <= Budget \/ Len(next.kept) = 1
         /\ ~next.full => Len(next.kept) = k
         /\ next.full => /\ Len(next.kept) < k
                         /\ Total(next.kept) + s[n - Len(next.kept)] > Budget
  BY DEF Fits
<1>11. CASE acc.full
  <2>1. next = acc BY <1>11 DEF KeepTurn
  <2> HIDE DEF next, m, n
  <2>2. m < k /\ m <= k /\ m > 0 BY <1>3, <1>5, <1>9, <1>11
  <2>3. Len(next.kept) = m BY <2>1 DEF m
  <2>4. Fits(s, next, k)
    BY <1>1, <1>6, <1>7, <1>9, <1>10, <1>11, <2>1, <2>2, <2>3
  <2> QED BY <2>4 DEF next, n
<1>12. CASE ~acc.full /\ Total(acc.kept) + x > Budget /\ acc.kept # <<>>
  <2>1. next = [acc EXCEPT !.full = TRUE] BY <1>12 DEF KeepTurn
  <2>2. next.kept = acc.kept /\ next.full /\ next \in Kept
    BY <1>1, <2>1 DEF Kept
  <2>3. m > 0 BY <1>2, <1>12
  <2>4. Len(next.kept) = m BY <2>2
  <2> HIDE DEF next, m
  <2>5. m = k - 1 BY <1>8, <1>12
  <2>6. n - m = n - k + 1 BY <1>3, <2>5
  <2>7. Total(acc.kept) + s[n - m] > Budget BY <1>12, <2>6
  <2> HIDE DEF x, n
  <2>8. m < k /\ m <= k BY <1>3, <2>5
  <2>9. Fits(s, next, k) BY <1>6, <1>7, <1>10, <2>2, <2>3, <2>4, <2>7, <2>8
  <2> QED BY <2>9 DEF next, x, n
<1>13. CASE ~acc.full /\ ~(Total(acc.kept) + x > Budget /\ acc.kept # <<>>)
  <2>1. next = [acc EXCEPT !.kept = <<x>> \o @] BY <1>13 DEF KeepTurn
  <2>2. next.kept = <<x>> \o acc.kept /\ ~next.full
    BY <1>1, <1>13, <2>1 DEF Kept
  <2>3. next \in Kept BY <1>1, <1>4, KeepTurnType
  <2>4. m = k - 1 BY <1>8, <1>13
  <2>5. Len(next.kept) = m + 1 BY <1>2, <1>4, <2>2
  <2>6. next.kept = SubSeq(s, n - m, n)
    <3> HIDE DEF m, n
    <3>1. n - m \in 1 .. Len(s) /\ n \in n - m .. Len(s) /\ n = Len(s)
      BY <1>3, <2>4 DEF n
    <3>2. SubSeq(s, n - m, n) = <<s[n - m]>> \o SubSeq(s, (n - m) + 1, n)
      BY <3>1, SubSeqRecursiveFirst
    <3>3. n - m = n - k + 1 BY <1>3, <2>4
    <3> QED BY <3>2, <3>3, <1>6, <2>2
  <2>7. Total(next.kept) = x + Total(acc.kept) /\ Total(acc.kept) \in Nat
    BY <1>2, <1>4, <2>2, TotalPrepend
  <2>8. Total(next.kept) <= Budget \/ m + 1 = 1
    <3>1. CASE acc.kept = <<>> BY <3>1
    <3>2. CASE acc.kept # <<>>
      <4>1. ~(Total(acc.kept) + x > Budget) BY <1>13, <3>2
      <4> QED BY <1>4, <2>7, <4>1
    <3> QED BY <3>1, <3>2
  <2> HIDE DEF next, m, x, n
  <2>9. m + 1 = k /\ n - (m + 1) + 1 = n - m /\ m + 1 > 0 /\ m + 1 <= k
    BY <1>3, <2>4
  <2>10. Fits(s, next, k) BY <1>10, <2>2, <2>3, <2>5, <2>6, <2>8, <2>9
  <2> QED BY <2>10 DEF next, x, n
<1> QED BY <1>2, <1>11, <1>12, <1>13

(* What is kept in the end fits.                                            *)
LEMMA FitIsEnd ==
  ASSUME Budget \in Nat, NEW s \in Seq(Nat)
  PROVE  \E acc : Fits(s, acc, Len(s)) /\ acc.kept = FitTranscript(s)
<1> DEFINE n == Len(s)
<1>1. PICK run \in [0 .. n -> Kept] :
        /\ run[0] = NoTurns
        /\ \A k \in 1 .. n : run[k] = KeepTurn(s[n - k + 1], run[k - 1])
        /\ run[n].kept = FitTranscript(s)
  BY FitRuns
<1> DEFINE T == {k \in 0 .. n : Fits(s, run[k], k)}
<1>2. n \in Nat OBVIOUS
<1>3. 0 \in T BY <1>1, <1>2, FitsAtFirst
<1>4. ASSUME NEW k \in 0 .. n - 1, k \in T PROVE k + 1 \in T
  <2>1. k + 1 \in 1 .. n /\ (k + 1) - 1 = k BY <1>2
  <2>2. Fits(s, run[(k + 1) - 1], (k + 1) - 1) BY <1>4, <2>1
  <2>3. run[k + 1] = KeepTurn(s[n - (k + 1) + 1], run[(k + 1) - 1])
    BY <1>1, <2>1
  <2> DEFINE j == k + 1
  <2> HIDE DEF j
  <2>4. j \in 1 .. n /\ Fits(s, run[j - 1], j - 1)
        /\ run[j] = KeepTurn(s[n - j + 1], run[j - 1])
    BY <2>1, <2>2, <2>3 DEF j
  <2>5. Fits(s, run[j], j) BY <2>4, FitsNext
  <2> QED BY <2>1, <2>5 DEF j
<1>5. 0 .. n \subseteq T
  <2> HIDE DEF T
  <2> QED BY <1>2, <1>3, <1>4, BoundedInduction
<1>6. Fits(s, run[n], n) BY <1>2, <1>5
<1> QED BY <1>1, <1>6

(* The transcript the scoring model sees fits, whatever the conversation.   *)
LEMMA TranscriptAlwaysFits ==
  ASSUME Budget \in Nat, turns \in Seq(Nat)
  PROVE  TranscriptFits
<1> DEFINE n == Len(turns)
           kept == FitTranscript(turns)
           m == Len(kept)
<1>1. PICK acc : Fits(turns, acc, n) /\ acc.kept = kept BY FitIsEnd
<1>2. acc \in Kept /\ kept \in Seq(Nat) /\ m \in Nat /\ n \in Nat
      /\ acc.full \in BOOLEAN
  BY <1>1 DEF Fits, Kept
<1> HIDE DEF kept
<1>3. /\ m <= n /\ (n > 0 => m > 0)
      /\ kept = SubSeq(turns, n - m + 1, n)
      /\ Total(kept) <= Budget \/ m = 1
      /\ ~acc.full => m = n
      /\ acc.full => Total(kept) + turns[n - m] > Budget
  BY <1>1 DEF Fits
<1>4. turns # <<>> => kept # <<>>
  <2>1. turns # <<>> => n > 0 OBVIOUS
  <2>2. m > 0 => kept # <<>> BY <1>2
  <2> QED BY <1>3, <2>1, <2>2
<1>5. n - m > 0 => Total(kept) + turns[n - m] > Budget BY <1>2, <1>3
<1> QED BY <1>3, <1>4, <1>5 DEF TranscriptFits, kept
-----------------------------------------------------------------------------
(* The configured constants have their types in every state.                *)
ScorecardInv ==
  /\ turns \in Seq(TurnLengths) /\ hints \in 0 .. MaxHints
  /\ hintCost \in HintCosts /\ anchors \in Rubrics
  /\ judged \in Seq(Scores)

(* The scorecard's own variables keep their types.                          *)
LEMMA ScorecardInductive == ScorecardSpec => []ScorecardInv
<1>1. ScorecardInit => ScorecardInv
  BY ScorecardAssumption DEF ScorecardInit, ScorecardInv
<1>2. ScorecardInv /\ [ScorecardNext]_scorecardVars => ScorecardInv'
  <2> SUFFICES ASSUME ScorecardInv, [ScorecardNext]_scorecardVars
               PROVE  ScorecardInv'
    OBVIOUS
  <2> USE DEF ScorecardInv
  <2>1. CASE TakeHint BY <2>1, ScorecardAssumption DEF TakeHint
  <2>2. ASSUME NEW n \in TurnLengths, SayTurn(n) PROVE ScorecardInv'
    BY <2>2 DEF SayTurn
  <2>3. ASSUME NEW score \in Scores, Judge(score) PROVE ScorecardInv'
    BY <2>3 DEF Judge
  <2>4. CASE UNCHANGED scorecardVars BY <2>4 DEF scorecardVars
  <2> QED BY <2>1, <2>2, <2>3, <2>4 DEF ScorecardNext
<1> QED BY <1>1, <1>2, PTL DEF ScorecardSpec

(* The numbers of a card, whatever the constants.                           *)
LEMMA CardNumbers ==
  ASSUME ScorecardInv
  PROVE  /\ hintCost \in Nat /\ hints \in Nat /\ Budget \in Nat
         /\ turns \in Seq(Nat) /\ anchors \subseteq Int
         /\ \E low \in Int : \A k \in anchors : low <= k
         /\ DOMAIN Card = DOMAIN judged
         /\ \A i \in DOMAIN judged :
              judged[i] \in Int /\ Card[i] = Docked(judged[i], hints)
<1> USE ScorecardAssumption DEF ScorecardInv
<1>1. hintCost \in Nat /\ hints \in Nat /\ Budget \in Nat OBVIOUS
<1>2. turns \in Seq(Nat)
  <2>1. TurnLengths \subseteq Nat OBVIOUS
  <2> QED BY <2>1, SeqMonotonic
<1>3. anchors \subseteq Int /\ \E low \in Int : \A k \in anchors : low <= k
  <2>1. CASE anchors = {} BY <2>1
  <2>2. CASE anchors # {} BY <2>2
  <2> QED BY <2>1, <2>2
<1>4. DOMAIN Card = DOMAIN judged BY DEF Card
<1>5. \A i \in DOMAIN judged :
        judged[i] \in Int /\ Card[i] = Docked(judged[i], hints)
  <2>1. Scores \subseteq Int OBVIOUS
  <2>2. \A i \in DOMAIN judged : judged[i] \in Scores OBVIOUS
  <2> QED BY <2>1, <2>2 DEF Card
<1> QED BY <1>1, <1>2, <1>3, <1>4, <1>5

(* A score that the model gave in the range of one to five is stored in it, *)
(* however many hints are docked.                                           *)
THEOREM ScoresAreInRange == ScorecardSpec => []ScorecardTypeOK
<1>1. ASSUME ScorecardInv PROVE ScorecardTypeOK
  <2>1. ASSUME NEW i \in DOMAIN judged
        PROVE  Card[i] \in Int /\ (judged[i] \in Score => Card[i] \in Score)
    <3>1. judged[i] \in Int /\ judged[i] <= judged[i] BY <1>1, CardNumbers
    <3> QED BY <1>1, <3>1, CardNumbers, DockingKeepsOrder
  <2>2. judged \in Seq(Scores) BY <1>1 DEF ScorecardInv
  <2>3. Card \in Seq(Int)
    <3>1. Card = [i \in 1 .. Len(judged) |-> Card[i]] BY <2>2 DEF Card
    <3>2. \A i \in 1 .. Len(judged) : Card[i] \in Int BY <2>1, <2>2
    <3>3. Len(judged) \in Nat BY <2>2
    <3> HIDE DEF Card
    <3> QED BY <3>1, <3>2, <3>3
  <2> QED BY <1>1, <2>1, <2>3 DEF ScorecardTypeOK, ScorecardInv
<1> QED BY <1>1, ScorecardInductive, PTL

(* Hints keep the order of the dimensions and lift no score of 1 or more.   *)
LEMMA HintsAlwaysKeepOrder == ASSUME ScorecardInv PROVE HintsKeepOrder
<1>1. \A i \in DOMAIN judged : judged[i] \in Int /\ judged[i] <= judged[i]
  BY CardNumbers
<1>2. ASSUME NEW i \in DOMAIN judged, NEW j \in DOMAIN judged,
             judged[i] <= judged[j]
      PROVE  Card[i] <= Card[j]
  BY <1>1, <1>2, CardNumbers, DockingKeepsOrder
<1>3. ASSUME NEW i \in DOMAIN judged, judged[i] >= 1
      PROVE  Card[i] <= judged[i] /\ Docked(judged[i], hints + 1) <= Card[i]
  BY <1>1, <1>3, CardNumbers, DockingKeepsOrder
<1>4. StudyNext(judged) \subseteq StudyNext(Card)
  BY <1>2, CardNumbers DEF StudyNext
<1> QED BY <1>2, <1>3, <1>4 DEF HintsKeepOrder

(* The feedback quotes a level the rubric has, if it has any, and never     *)
(* flatters.                                                                *)
LEMMA FeedbackIsAlwaysAnchored == ASSUME ScorecardInv PROVE FeedbackIsAnchored
<1> SUFFICES ASSUME anchors # {}, NEW i \in DOMAIN judged
             PROVE  LET quoted == AnchorFor(anchors, Card[i])
                    IN /\ quoted \in anchors
                       /\ judged[i] >= 1 =>
                            quoted <= AnchorFor(anchors, judged[i])
                       /\ quoted > Card[i] => \A k \in anchors : k > Card[i]
  BY DEF FeedbackIsAnchored
<1>1. anchors \subseteq Int /\ \E low \in Int : \A k \in anchors : low <= k
  BY CardNumbers
<1>2. judged[i] \in Int /\ judged[i] <= judged[i] BY CardNumbers
<1>3. Card[i] \in Int /\ (judged[i] >= 1 => Card[i] <= judged[i])
  BY <1>2, CardNumbers, DockingKeepsOrder
<1>4. judged[i] >= 1 =>
        AnchorFor(anchors, Card[i]) <= AnchorFor(anchors, judged[i])
  BY <1>1, <1>2, <1>3, AnchorMonotonic
<1>5. /\ AnchorFor(anchors, Card[i]) \in anchors
      /\ AnchorFor(anchors, Card[i]) > Card[i] =>
           \A k \in anchors : k > Card[i]
  BY <1>1, <1>3, AnchorIs
<1> QED BY <1>4, <1>5

(* A card is judged from the end of the conversation, docked in order and   *)
(* explained by the rubric, whatever the budget, the costs and the rubric.  *)
THEOREM CardsAreFair == ScorecardSpec => []CardIsFair
<1>1. ASSUME ScorecardInv PROVE CardIsFair
  BY <1>1, CardNumbers, TranscriptAlwaysFits, HintsAlwaysKeepOrder,
     FeedbackIsAlwaysAnchored DEF CardIsFair
<1> QED BY <1>1, ScorecardInductive, PTL

-----------------------------------------------------------------------------
(* The history of sessions and the content, on their own.                   *)
ProgressSpec == ProgressInit /\ [][ProgressNext]_progressVars

SessionRow ==
  [content : Contents, type : {"case", "diagnostic", "lesson"},
   mode : Modes \cup {"none"}, ended : BOOLEAN, scores : Seq(Given)]

(* The rows are well formed: a case has a topic, and a session has at most  *)
(* one score for each dimension.                                            *)
ProgressInv ==
  /\ rows \in Seq(SessionRow) /\ library \subseteq Contents
  /\ \A i \in DOMAIN rows :
       /\ rows[i].type = "case" => rows[i].content \in DOMAIN CaseTopic
       /\ Len(rows[i].scores) <= Len(Dimensions)

(* A row keeps what it was created for; its end is final.                   *)
RowKept(old, new) ==
  /\ new.content = old.content /\ new.type = old.type /\ new.mode = old.mode
  /\ old.ended => new.ended

(* Creating a session adds a well-formed row.                               *)
LEMMA CreateKeepsRows ==
  ASSUME ProgressInv, NEW content \in Contents,
         NEW type \in {"case", "diagnostic", "lesson"},
         NEW mode \in Modes \cup {"none"},
         type = "case" => content \in DOMAIN CaseTopic,
         Create(content, type, mode)
  PROVE  /\ ProgressInv' /\ Len(rows) <= Len(rows')
         /\ \A i \in DOMAIN rows : RowKept(rows[i], rows'[i])
<1> DEFINE row == [content |-> content, type |-> type, mode |-> mode,
                   ended |-> FALSE, scores |-> <<>>]
           n == Len(rows)
<1>1. row \in SessionRow
  <2>1. <<>> \in Seq(Given) OBVIOUS
  <2> QED BY <2>1 DEF SessionRow
<1>2. row.type = type /\ row.content = content /\ Len(row.scores) = 0 OBVIOUS
<1> HIDE DEF row
<1>3. rows' = Append(rows, row) /\ library' = library
  BY DEF Create, row
<1>4. rows \in Seq(SessionRow) /\ n \in Nat /\ Len(Dimensions) \in Nat
  BY ProgressAssumption DEF ProgressInv
<1>5. /\ rows' \in Seq(SessionRow) /\ Len(rows') = n + 1
      /\ rows'[n + 1] = row /\ \A i \in 1 .. n : rows'[i] = rows[i]
  BY <1>1, <1>3, <1>4
<1>6. DOMAIN rows = 1 .. n /\ DOMAIN rows' = 1 .. n + 1 BY <1>4, <1>5
<1> HIDE DEF n
<1>7. ASSUME NEW i \in DOMAIN rows'
      PROVE  /\ rows'[i].type = "case" => rows'[i].content \in DOMAIN CaseTopic
             /\ Len(rows'[i].scores) <= Len(Dimensions)
  <2>1. CASE i = n + 1 BY <1>2, <1>4, <1>5, <2>1
  <2>2. CASE i \in DOMAIN rows BY <1>5, <1>6, <2>2 DEF ProgressInv
  <2> QED BY <1>4, <1>6, <2>1, <2>2
<1>8. ProgressInv'
  <2>1. library' \subseteq Contents BY <1>3 DEF ProgressInv
  <2> QED BY <1>5, <1>7, <2>1 DEF ProgressInv, SessionRow, Contents
<1>9. \A i \in DOMAIN rows : RowKept(rows[i], rows'[i])
  BY <1>5, <1>6 DEF RowKept
<1>10. Len(rows) <= Len(rows') BY <1>4, <1>5 DEF n
<1> QED BY <1>8, <1>9, <1>10

(* A changed row stays well formed if its new fields are.                   *)
LEMMA RowChanges ==
  ASSUME ProgressInv, NEW i \in DOMAIN rows, NEW row \in SessionRow,
         RowKept(rows[i], row), Len(row.scores) <= Len(Dimensions),
         rows' = [rows EXCEPT ![i] = row], library' = library
  PROVE  /\ ProgressInv' /\ Len(rows) <= Len(rows')
         /\ \A j \in DOMAIN rows : RowKept(rows[j], rows'[j])
<1>1. rows \in Seq(SessionRow) BY DEF ProgressInv
<1>2. /\ rows' \in Seq(SessionRow) /\ Len(rows') = Len(rows)
      /\ DOMAIN rows' = DOMAIN rows
  BY <1>1
<1>3. \A j \in DOMAIN rows : rows'[j] = IF j = i THEN row ELSE rows[j] BY <1>1
<1>4. \A j \in DOMAIN rows : RowKept(rows[j], rows'[j])
  BY <1>3 DEF RowKept
<1>5. ASSUME NEW j \in DOMAIN rows'
      PROVE  /\ rows'[j].type = "case" => rows'[j].content \in DOMAIN CaseTopic
             /\ Len(rows'[j].scores) <= Len(Dimensions)
  <2>1. CASE j = i BY <1>2, <1>3, <2>1 DEF ProgressInv, RowKept
  <2>2. CASE j # i BY <1>2, <1>3, <2>2 DEF ProgressInv
  <2> QED BY <2>1, <2>2
<1>6. ProgressInv'
  <2>1. library' \subseteq Contents BY DEF ProgressInv
  <2> QED BY <1>2, <1>5, <2>1 DEF ProgressInv, SessionRow, Contents
<1>7. Len(rows) <= Len(rows') BY <1>1, <1>2
<1> QED BY <1>4, <1>6, <1>7

(* Every step keeps the rows well formed and what they were created for.    *)
LEMMA RowsStay ==
  ASSUME ProgressInv, [ProgressNext]_progressVars
  PROVE  /\ ProgressInv' /\ Len(rows) <= Len(rows')
         /\ \A i \in DOMAIN rows : RowKept(rows[i], rows'[i])
<1>1. rows \in Seq(SessionRow) /\ Len(Dimensions) \in Nat
  BY ProgressAssumption DEF ProgressInv
<1>2. DOMAIN CaseTopic \subseteq Contents /\ DOMAIN Teaches \subseteq Contents
  BY DEF Contents
<1>3. CASE CreateSession
  <2>1. ASSUME NEW c \in DOMAIN CaseTopic, NEW m \in Modes,
               Create(c, "case", m)
        PROVE  /\ ProgressInv' /\ Len(rows) <= Len(rows')
               /\ \A i \in DOMAIN rows : RowKept(rows[i], rows'[i])
    BY <1>2, <2>1, CreateKeepsRows
  <2>2. ASSUME NEW c \in DOMAIN CaseTopic, Create(c, "diagnostic", "none")
        PROVE  /\ ProgressInv' /\ Len(rows) <= Len(rows')
               /\ \A i \in DOMAIN rows : RowKept(rows[i], rows'[i])
    BY <1>2, <2>2, CreateKeepsRows
  <2>3. ASSUME NEW c \in DOMAIN Teaches, Create(c, "lesson", "none")
        PROVE  /\ ProgressInv' /\ Len(rows) <= Len(rows')
               /\ \A i \in DOMAIN rows : RowKept(rows[i], rows'[i])
    BY <1>2, <2>3, CreateKeepsRows
  <2> QED BY <1>3, <2>1, <2>2, <2>3 DEF CreateSession
<1>4. CASE Reload
  <2>1. PICK c \in Contents :
          /\ library' = IF c \in library THEN library \ {c}
                        ELSE library \cup {c}
          /\ rows' = rows
    BY <1>4 DEF Reload
  <2>2. library' \subseteq Contents BY <2>1 DEF ProgressInv
  <2>3. ProgressInv' BY <2>1, <2>2 DEF ProgressInv, SessionRow, Contents
  <2>4. Len(rows) <= Len(rows') BY <1>1, <2>1
  <2> QED BY <2>1, <2>3, <2>4 DEF RowKept
<1>5. ASSUME NEW i \in DOMAIN rows, Finish(i)
      PROVE  /\ ProgressInv' /\ Len(rows) <= Len(rows')
             /\ \A j \in DOMAIN rows : RowKept(rows[j], rows'[j])
  <2> DEFINE row == [rows[i] EXCEPT !.ended = TRUE]
  <2>1. rows[i] \in SessionRow BY <1>1
  <2>2. row \in SessionRow /\ RowKept(rows[i], row)
        /\ row.scores = rows[i].scores
    BY <2>1 DEF SessionRow, RowKept
  <2>3. Len(row.scores) <= Len(Dimensions) BY <2>2 DEF ProgressInv
  <2>4. rows' = [rows EXCEPT ![i] = row] /\ library' = library
    BY <1>5 DEF Finish
  <2> HIDE DEF row
  <2> QED BY <2>2, <2>3, <2>4, RowChanges
<1>6. ASSUME NEW i \in DOMAIN rows, NEW score \in Given, AddScore(i, score)
      PROVE  /\ ProgressInv' /\ Len(rows) <= Len(rows')
             /\ \A j \in DOMAIN rows : RowKept(rows[j], rows'[j])
  <2> DEFINE row == [rows[i] EXCEPT !.scores = Append(@, score)]
  <2>0. rows[i] \in SessionRow BY <1>1
  <2>1. rows[i] \in SessionRow /\ rows[i].scores \in Seq(Given)
    BY <2>0 DEF SessionRow
  <2>2. Append(rows[i].scores, score) \in Seq(Given)
        /\ Len(Append(rows[i].scores, score)) = Len(rows[i].scores) + 1
    BY <2>1
  <2>3. row \in SessionRow /\ RowKept(rows[i], row)
        /\ row.scores = Append(rows[i].scores, score)
    BY <2>1, <2>2 DEF SessionRow, RowKept
  <2>4. Len(row.scores) <= Len(Dimensions)
    BY <1>1, <1>6, <2>1, <2>2, <2>3 DEF AddScore
  <2>5. rows' = [rows EXCEPT ![i] = row] /\ library' = library
    BY <1>6 DEF AddScore
  <2> HIDE DEF row
  <2> QED BY <2>3, <2>4, <2>5, RowChanges
<1>7. CASE UNCHANGED progressVars
  <2>1. rows' = rows /\ library' = library BY <1>7 DEF progressVars
  <2>2. ProgressInv' BY <2>1 DEF ProgressInv, SessionRow, Contents
  <2>3. Len(rows) <= Len(rows') BY <1>1, <2>1
  <2> QED BY <2>1, <2>2, <2>3 DEF RowKept
<1> QED BY <1>3, <1>4, <1>5, <1>6, <1>7 DEF ProgressNext

(* The rows are well formed in every state.                                 *)
LEMMA ProgressInductive == ProgressSpec => []ProgressInv
<1>1. ProgressInit => ProgressInv
  <2> SUFFICES ASSUME ProgressInit PROVE ProgressInv OBVIOUS
  <2>1. rows \in Seq(SessionRow) BY DEF ProgressInit
  <2> QED BY <2>1 DEF ProgressInit, ProgressInv
<1>2. ProgressInv /\ [ProgressNext]_progressVars => ProgressInv' BY RowsStay
<1> QED BY <1>1, <1>2, PTL DEF ProgressSpec

(* The rows and the library have their types, whatever comes and goes.      *)
LEMMA ProgressTypes == ProgressSpec => []ProgressTypeOK
<1>1. ASSUME ProgressInv PROVE ProgressTypeOK
  <2>1. ASSUME NEW i \in DOMAIN rows PROVE rows[i] \in SessionRow
    BY <1>1 DEF ProgressInv
  <2> QED BY <1>1, <2>1 DEF ProgressInv, ProgressTypeOK, SessionRow
<1> QED BY <1>1, ProgressInductive, PTL

(* A step of which no content is lost takes nothing back.                   *)
LEMMA StepOnlyGrows ==
  ASSUME ProgressInv, [ProgressNext]_progressVars, library \subseteq library'
  PROVE  /\ Taught \subseteq Taught'
         /\ \A t \in Topics, m \in Modes : Attempts(t, m)' >= Attempts(t, m)
         /\ Recommend'.rule = "cold-start" => Recommend.rule = "cold-start"
<1>1. /\ rows \in Seq(SessionRow) /\ rows' \in Seq(SessionRow)
      /\ Len(rows) <= Len(rows')
      /\ \A i \in DOMAIN rows : RowKept(rows[i], rows'[i])
  <2>1. ProgressInv' BY RowsStay
  <2>2. rows' \in Seq(SessionRow)
    BY <2>1 DEF ProgressInv, SessionRow, Contents
  <2> QED BY <2>2, RowsStay DEF ProgressInv
<1>2. DOMAIN rows \subseteq DOMAIN rows' BY <1>1
<1>3. ASSUME NEW i \in DOMAIN rows
      PROVE  /\ i \in DOMAIN rows' /\ (Known(i) => Known(i)')
             /\ rows'[i].content = rows[i].content
             /\ rows'[i].type = rows[i].type
             /\ rows'[i].mode = rows[i].mode
             /\ (rows[i].ended => rows'[i].ended)
  BY <1>1, <1>2 DEF RowKept, Known
<1>4. Taught \subseteq Taught'
  <2> SUFFICES ASSUME NEW x \in Taught PROVE x \in Taught' OBVIOUS
  <2>1. PICK i \in DOMAIN rows :
          Known(i) /\ rows[i].type = "lesson" /\ rows[i].ended
          /\ x \in Teaches[rows[i].content]
    BY DEF Taught
  <2>2. /\ i \in DOMAIN rows' /\ Known(i)' /\ rows'[i].type = "lesson"
        /\ rows'[i].ended /\ x \in Teaches[rows'[i].content]
    BY <1>3, <2>1
  <2> QED BY <2>2 DEF Taught
<1>5. ASSUME NEW i \in CaseRows
      PROVE  /\ i \in CaseRows'
             /\ TopicOf(i)' = TopicOf(i) /\ ModeOf(i)' = ModeOf(i)
  <2>1. i \in DOMAIN rows /\ Known(i) /\ rows[i].type = "case" BY DEF CaseRows
  <2>2. /\ i \in DOMAIN rows' /\ Known(i)' /\ rows'[i].type = "case"
        /\ rows'[i].content = rows[i].content /\ rows'[i].mode = rows[i].mode
    BY <1>3, <2>1
  <2>3. i \in CaseRows' BY <2>2 DEF CaseRows
  <2>4. TopicOf(i)' = TopicOf(i) BY <2>2 DEF TopicOf
  <2>5. ModeOf(i)' = ModeOf(i) BY <2>2 DEF ModeOf
  <2> QED BY <2>3, <2>4, <2>5
<1>6. ASSUME NEW t, NEW m PROVE Attempts(t, m)' >= Attempts(t, m)
  <2> DEFINE S == {i \in CaseRows : TopicOf(i) = t /\ ModeOf(i) = m}
  <2>1. S \subseteq S' BY <1>5
  <2>2. S' \subseteq 1 .. Len(rows') BY <1>1 DEF CaseRows
  <2>3. Len(rows') \in Nat BY <1>1
  <2>5. Attempts(t, m) = Cardinality(S) /\ Attempts(t, m)' = Cardinality(S')
    BY DEF Attempts
  <2> HIDE DEF S
  <2>4. IsFiniteSet(S')
    <3>1. IsFiniteSet(1 .. Len(rows')) BY <2>3, FS_Interval
    <3> QED BY <2>2, <3>1, FS_Subset
  <2>6. /\ Cardinality(S) <= Cardinality(S') /\ Cardinality(S) \in Nat
        /\ Cardinality(S') \in Nat
    BY <2>1, <2>4, FS_Subset, FS_CardinalityType
  <2> QED BY <2>5, <2>6
<1>7. Recommend'.rule = "cold-start" => Recommend.rule = "cold-start"
  <2> SUFFICES ASSUME Recommend'.rule = "cold-start"
               PROVE  Recommend.rule = "cold-start"
    OBVIOUS
  <2>1. Taught' = {} /\ Topics' = {} BY DEF Recommend
  <2>2. Taught = {} BY <1>4, <2>1
  <2>3. Topics = {} BY <1>5, <2>1 DEF Topics
  <2> QED BY <2>2, <2>3 DEF Recommend
<1> QED BY <1>4, <1>6, <1>7

(* As long as no content disappears, what was learnt is never unlearnt,     *)
(* whatever the library teaches and whatever the order of the sessions.     *)
THEOREM LearntIsKept == ProgressSpec => ProgressOnlyGrows
<1>1. ProgressInv /\ [ProgressNext]_progressVars =>
        [library \subseteq library' =>
           /\ Taught \subseteq Taught'
           /\ \A t \in Topics, m \in Modes : Attempts(t, m)' >= Attempts(t, m)
           /\ Recommend'.rule = "cold-start" => Recommend.rule = "cold-start"
        ]_progressVars
  BY StepOnlyGrows
<1> QED BY <1>1, ProgressInductive, PTL DEF ProgressSpec, ProgressOnlyGrows
-----------------------------------------------------------------------------
(* A row that counts for a topic and some modes.                            *)
Counts(topic, modes, i) ==
  i \in CaseRows /\ TopicOf(i) = topic /\ ModeOf(i) \in modes

(* The scores of a topic, row by row.                                       *)
IsScoresRun(run, topic, modes) ==
  /\ run[0] = <<>>
  /\ \A k \in 1 .. Len(rows) :
       run[k] = IF Counts(topic, modes, k) THEN run[k - 1] \o rows[k].scores
                ELSE run[k - 1]
  /\ run[Len(rows)] = ScoresOf(topic, modes)

(* Each row has a sequence of scores.                                       *)
LEMMA RowScores ==
  ASSUME ProgressInv
  PROVE  /\ Len(rows) \in Nat /\ DOMAIN rows = 1 .. Len(rows)
         /\ \A i \in 1 .. Len(rows) :
              rows[i] \in SessionRow /\ rows[i].scores \in Seq(Given)
         /\ CaseRows \subseteq 1 .. Len(rows)
<1>1. rows \in Seq(SessionRow) BY DEF ProgressInv
<1>2. Len(rows) \in Nat /\ DOMAIN rows = 1 .. Len(rows) BY <1>1
<1>3. ASSUME NEW i \in 1 .. Len(rows) PROVE rows[i] \in SessionRow
  BY <1>1, <1>2
<1>4. \A i \in 1 .. Len(rows) : rows[i].scores \in Seq(Given)
  BY <1>3 DEF SessionRow
<1> QED BY <1>2, <1>3, <1>4 DEF CaseRows

(* The fold of the code visits the rows one by one.                         *)
LEMMA ScoresRuns ==
  ASSUME ProgressInv, NEW topic, NEW modes
  PROVE  \E run \in [0 .. Len(rows) -> Seq(Given)] :
           IsScoresRun(run, topic, modes)
<1> DEFINE n == Len(rows)
           V == Seq(Given)
           Step(i, all) == IF i \in CaseRows /\ TopicOf(i) = topic
                              /\ ModeOf(i) \in modes
                           THEN all \o rows[i].scores ELSE all
           step == [p \in (1 .. n) \X V |-> Step(p[1], p[2])]
           Is(f) == f = [t \in SUBSET (1 .. n) |->
                           IF t = {} THEN <<>>
                           ELSE Step([i \in 1 .. n |-> i][Max(t)],
                                     f[t \ {Max(t)}])]
           iter == CHOOSE f : Is(f)
<1>1. n \in Nat /\ DOMAIN rows = 1 .. n BY RowScores
<1>2. ScoresOf(topic, modes) = iter[1 .. n]
  BY <1>1 DEF ScoresOf, FoldLeft, MapThenFoldSet
<1>3. ASSUME NEW k \in 1 .. n, NEW v \in V PROVE Step(k, v) \in V
  <2>1. rows[k].scores \in Seq(Given) BY RowScores
  <2>2. v \o rows[k].scores \in Seq(Given) BY <2>1
  <2> QED BY <2>2
<1>4. step \in [(1 .. n) \X V -> V] BY <1>3
<1>5. \A k \in 1 .. n, v \in V : step[<<k, v>>] = Step(k, v) OBVIOUS
<1>6. \A t \in SUBSET (1 .. n) : t # {} =>
        Max(t) \in 1 .. n /\ [i \in 1 .. n |-> i][Max(t)] = Max(t)
  BY <1>1, GreatestPlace
<1> DEFINE base == <<>>
<1>7. base \in V OBVIOUS
<1>8. Is(iter)
  <2> HIDE DEF n, step, V, Step, base
  <2>1. PICK f \in [SUBSET (1 .. n) -> V] :
          IsFold(f, 1 .. n, base, [t \in SUBSET (1 .. n) |-> Max(t)], step)
    BY <1>1, <1>4, <1>7, LeftFoldExists
  <2>2. Is(f)
    <3> SUFFICES ASSUME NEW t \in SUBSET (1 .. n)
                 PROVE  f[t] = IF t = {} THEN base
                               ELSE Step([i \in 1 .. n |-> i][Max(t)],
                                         f[t \ {Max(t)}])
      BY <2>1 DEF base
    <3>1. f[t \ {Max(t)}] \in V BY <2>1
    <3> QED BY <2>1, <3>1, <1>5, <1>6 DEF IsFold
  <2> QED BY <2>2
<1>9. StepsLeft(iter, n, V, base, step)
  <2> HIDE DEF n, step, iter, V, Step
  <2> QED BY <1>5, <1>6, <1>8 DEF StepsLeft, base
<1> HIDE DEF n, step, iter, V, Step, base
<1>10. PICK run \in [0 .. n -> V] : IsRun(run, n, base, step, iter[1 .. n])
  BY <1>1, <1>4, <1>7, <1>9, LeftFoldRuns
<1>11. ASSUME NEW k \in 1 .. n
       PROVE  run[k] = IF Counts(topic, modes, k)
                       THEN run[k - 1] \o rows[k].scores ELSE run[k - 1]
  <2>1. run[k - 1] \in V BY <1>1, <1>10
  <2>2. run[k] = step[<<k, run[k - 1]>>] BY <1>10 DEF IsRun
  <2>3. run[k] = Step(k, run[k - 1]) BY <2>1, <2>2, <1>5
  <2> QED BY <2>3 DEF Step, Counts
<1>12. run[0] = <<>> /\ run[n] = ScoresOf(topic, modes)
  BY <1>2, <1>10 DEF IsRun, base
<1>13. IsScoresRun(run, topic, modes) BY <1>11, <1>12 DEF IsScoresRun, n
<1> QED BY <1>10, <1>13 DEF n, V

(* A topic has no scores if and only if no row of it has.                   *)
LEMMA ScoresEmpty ==
  ASSUME ProgressInv, NEW topic, NEW modes
  PROVE  /\ ScoresOf(topic, modes) \in Seq(Given)
         /\ ScoresOf(topic, modes) = <<>> <=>
              \A i \in 1 .. Len(rows) :
                Counts(topic, modes, i) => rows[i].scores = <<>>
<1> DEFINE n == Len(rows)
<1>1. PICK run \in [0 .. n -> Seq(Given)] : IsScoresRun(run, topic, modes)
  BY ScoresRuns
<1> DEFINE T == {k \in 0 .. n :
                   run[k] = <<>> <=>
                     \A i \in 1 .. k :
                       Counts(topic, modes, i) => rows[i].scores = <<>>}
<1>2. n \in Nat BY RowScores
<1>3. 0 \in T BY <1>1, <1>2 DEF IsScoresRun
<1>4. ASSUME NEW k \in 0 .. n - 1, k \in T PROVE k + 1 \in T
  <2>1. k + 1 \in 1 .. n /\ (k + 1) - 1 = k /\ k \in 0 .. n BY <1>2
  <2>2. run[k + 1] = IF Counts(topic, modes, k + 1)
                     THEN run[k] \o rows[k + 1].scores ELSE run[k]
    BY <1>1, <2>1 DEF IsScoresRun
  <2>3. run[k] \in Seq(Given) /\ rows[k + 1].scores \in Seq(Given)
    BY <1>1, <2>1, RowScores
  <2>4. run[k] \o rows[k + 1].scores = <<>> <=>
          run[k] = <<>> /\ rows[k + 1].scores = <<>>
    BY <2>3, ConcatEqualIffEmpty
  <2>5. 1 .. k + 1 = (1 .. k) \cup {k + 1} BY <2>1
  <2>6. run[k] = <<>> <=>
          \A i \in 1 .. k :
            Counts(topic, modes, i) => rows[i].scores = <<>>
    BY <1>4
  <2>7. k + 1 \in 0 .. n BY <2>1
  <2> QED BY <2>2, <2>4, <2>5, <2>6, <2>7
<1>5. 0 .. n \subseteq T
  <2> HIDE DEF T, n
  <2> QED BY <1>2, <1>3, <1>4, BoundedInduction
<1>6. n \in T /\ run[n] \in Seq(Given) BY <1>1, <1>2, <1>5
<1>7. run[n] = ScoresOf(topic, modes) BY <1>1 DEF IsScoresRun
<1> QED BY <1>6, <1>7

(* Sums of scores are natural numbers.                                      *)
LEMMA SumIs ==
  ASSUME NEW s \in Seq(Given)
  PROVE  /\ s \in Seq(Int) /\ Sum(s) = Adds(s) /\ Sum(s) \in Nat
         /\ Len(s) \in Nat /\ (s # <<>> => Len(s) > 0)
<1>1. s \in Seq(Int)
  <2>1. Given \subseteq Int BY ProgressAssumption
  <2> QED BY <2>1, SeqMonotonic
<1>2. Sum(s) = Adds(s) BY DEF Sum, Adds
<1>3. \A k \in 1 .. Len(s) : s[k] >= 0
  <2>1. \A k \in 1 .. Len(s) : s[k] \in Given OBVIOUS
  <2>2. \A x \in Given : x >= 0 BY ProgressAssumption
  <2> QED BY <2>1, <2>2
<1>4. Adds(s) \in Int /\ Adds(s) >= 0 BY <1>1, <1>3, AddsType, AddsNotNegative
<1> QED BY <1>1, <1>2, <1>4

(* Fractions are compared by their cross products: what is not less can be  *)
(* chained.                                                                 *)
LEMMA CrossMultiplied ==
  ASSUME NEW a \in Nat, NEW b \in Nat, NEW c \in Nat,
         NEW k \in Nat, NEW l \in Nat, NEW m \in Nat, l > 0
  PROVE  /\ a * l <= b * k /\ b * m <= c * l => a * m <= c * k
         /\ a * l < b * k /\ b * m <= c * l /\ m > 0 => a * m < c * k
         /\ a * l <= b * k /\ b * m < c * l /\ k > 0 => a * m < c * k
<1>1. /\ a * l \in Nat /\ b * k \in Nat /\ b * m \in Nat /\ c * l \in Nat
      /\ a * m \in Nat /\ c * k \in Nat
  OBVIOUS
<1>2. ASSUME NEW x \in Nat, NEW y \in Nat, NEW z \in Nat
      PROVE  /\ x <= y => x * z <= y * z
             /\ x < y /\ z > 0 => x * z < y * z
             /\ x * z < y * z => x < y
             /\ x * z <= y * z /\ z > 0 => x <= y
  OBVIOUS
<1>3. /\ (a * l) * m = (a * m) * l /\ (b * k) * m = (b * m) * k
      /\ (c * l) * k = (c * k) * l
  OBVIOUS
<1>4. /\ (a * l) * m \in Nat /\ (b * k) * m \in Nat /\ (c * l) * k \in Nat
  BY <1>1
<1>5. ASSUME a * l <= b * k, b * m <= c * l PROVE a * m <= c * k
  <2>1. (a * l) * m <= (b * k) * m BY <1>1, <1>2, <1>5
  <2>2. (b * m) * k <= (c * l) * k BY <1>1, <1>2, <1>5
  <2>3. (a * m) * l <= (c * k) * l BY <1>3, <1>4, <2>1, <2>2
  <2> QED BY <1>1, <1>2, <2>3
<1>6. ASSUME a * l < b * k, b * m <= c * l, m > 0 PROVE a * m < c * k
  <2>1. (a * l) * m < (b * k) * m BY <1>1, <1>2, <1>6
  <2>2. (b * m) * k <= (c * l) * k BY <1>1, <1>2, <1>6
  <2>3. (a * m) * l < (c * k) * l BY <1>3, <1>4, <2>1, <2>2
  <2> QED BY <1>1, <1>2, <2>3
<1>7. ASSUME a * l <= b * k, b * m < c * l, k > 0 PROVE a * m < c * k
  <2>1. (a * l) * m <= (b * k) * m BY <1>1, <1>2, <1>7
  <2>2. (b * m) * k < (c * l) * k BY <1>1, <1>2, <1>7
  <2>3. (a * m) * l < (c * k) * l BY <1>3, <1>4, <2>1, <2>2
  <2> QED BY <1>1, <1>2, <2>3
<1> QED BY <1>5, <1>6, <1>7
-----------------------------------------------------------------------------
(* The topics are some of finitely many numbers.                            *)
LEMMA TopicsBounded ==
  ASSUME ProgressInv
  PROVE  \E M \in Nat : Topics \subseteq 0 .. M
<1> DEFINE n == Len(rows)
           s == [i \in 1 .. n |-> IF i \in CaseRows THEN TopicOf(i) ELSE 0]
<1>1. ASSUME NEW i \in CaseRows PROVE TopicOf(i) \in Nat
  <2>1. i \in DOMAIN rows /\ rows[i].type = "case" BY DEF CaseRows
  <2>2. rows[i].content \in DOMAIN CaseTopic BY <2>1 DEF ProgressInv
  <2> QED BY <2>2, ProgressAssumption DEF TopicOf
<1>2. n \in Nat /\ CaseRows \subseteq 1 .. n BY RowScores
<1>3. s \in Seq(Nat) /\ Len(s) = n
  <2>1. s \in [1 .. n -> Nat] BY <1>1
  <2> HIDE DEF s
  <2> QED BY <1>2, <2>1
<1>4. PICK M \in Nat : \A i \in 1 .. n : s[i] <= M BY <1>3, BoundExists
<1>5. ASSUME NEW i \in CaseRows PROVE TopicOf(i) \in 0 .. M
  <2>1. s[i] = TopicOf(i) BY <1>2
  <2>2. TopicOf(i) <= M BY <1>2, <1>4, <2>1
  <2> QED BY <1>1, <2>2
<1> QED BY <1>5 DEF Topics

(* The topics are finitely many, and the least of some of them exists.      *)
LEMMA TopicsFinite ==
  ASSUME ProgressInv
  PROVE  /\ IsFiniteSet(Topics) /\ Topics \subseteq Nat
         /\ \A U \in SUBSET Topics :
              U # {} => \E t \in U : \A u \in U : t <= u
<1>1. PICK M \in Nat : Topics \subseteq 0 .. M BY TopicsBounded
<1>2. IsFiniteSet(0 .. M) BY <1>1, FS_Interval
<1>3. IsFiniteSet(Topics) BY <1>1, <1>2, FS_Subset
<1>4. Topics \subseteq Nat BY <1>1
<1>5. ASSUME NEW U \in SUBSET Topics, U # {}
      PROVE  \E t \in U : \A u \in U : t <= u
  <2>1. U \subseteq Nat BY <1>4
  <2> QED BY <2>1, <1>5, LeastNatural
<1> QED BY <1>3, <1>4, <1>5

(* A topic comes before another in the order of the weakness rule.          *)
Weaker(t, u) ==
  \/ LessThan(AllScores(t), AllScores(u))
  \/ ~LessThan(AllScores(u), AllScores(t)) /\ t <= u

(* Some scored topic is the weakest.                                        *)
LEMMA WeakestExists ==
  ASSUME ProgressInv, Scored # {}
  PROVE  \E t \in Scored : \A u \in Scored : Weaker(t, u)
<1> DEFINE R == {p \in Scored \X Scored : Weaker(p[1], p[2])}
           S(t) == Sum(AllScores(t))
           L(t) == Len(AllScores(t))
<1>1. Scored \subseteq Topics BY DEF Scored
<1>2. IsFiniteSet(Scored) /\ Scored \subseteq Nat
  BY <1>1, TopicsFinite, FS_Subset
<1>3. ASSUME NEW t \in Scored PROVE S(t) \in Nat /\ L(t) \in Nat /\ L(t) > 0
  <2>1. AllScores(t) \in Seq(Given) BY ScoresEmpty DEF AllScores
  <2>2. AllScores(t) # <<>> BY DEF Scored
  <2> QED BY <2>1, <2>2, SumIs
<1>4. \A t, u \in Scored :
        Weaker(t, u) <=> \/ S(t) * L(u) < S(u) * L(t)
                         \/ ~(S(u) * L(t) < S(t) * L(u)) /\ t <= u
  BY DEF Weaker, LessThan
<1> HIDE DEF S, L
<1>5. \A t, u \in Scored : S(t) * L(u) \in Nat BY <1>3
<1>6. ASSUME NEW t \in Scored, NEW u \in Scored
      PROVE  Weaker(t, u) \/ Weaker(u, t)
  BY <1>2, <1>4, <1>5
<1>7. ASSUME NEW t \in Scored, NEW u \in Scored, NEW v \in Scored,
             Weaker(t, u), Weaker(u, v)
      PROVE  Weaker(t, v)
  <2>1. /\ S(t) * L(u) <= S(u) * L(t) /\ S(u) * L(v) <= S(v) * L(u) =>
             S(t) * L(v) <= S(v) * L(t)
        /\ S(t) * L(u) < S(u) * L(t) /\ S(u) * L(v) <= S(v) * L(u) =>
             S(t) * L(v) < S(v) * L(t)
        /\ S(t) * L(u) <= S(u) * L(t) /\ S(u) * L(v) < S(v) * L(u) =>
             S(t) * L(v) < S(v) * L(t)
    <3>1. /\ S(t) \in Nat /\ S(u) \in Nat /\ S(v) \in Nat
          /\ L(t) \in Nat /\ L(u) \in Nat /\ L(v) \in Nat
          /\ L(t) > 0 /\ L(u) > 0 /\ L(v) > 0
      BY <1>3
    <3> QED BY <3>1, CrossMultiplied
  <2>2. /\ S(t) * L(u) \in Nat /\ S(u) * L(t) \in Nat /\ S(u) * L(v) \in Nat
        /\ S(v) * L(u) \in Nat /\ S(t) * L(v) \in Nat /\ S(v) * L(t) \in Nat
        /\ t \in Nat /\ u \in Nat /\ v \in Nat
    BY <1>2, <1>5
  <2> QED BY <1>4, <1>7, <2>1, <2>2
<1>8. /\ \A x, y \in Scored : <<x, y>> \in R \/ <<y, x>> \in R
      /\ \A x, y, z \in Scored :
           <<x, y>> \in R /\ <<y, z>> \in R => <<x, z>> \in R
  BY <1>6, <1>7
<1> HIDE DEF R
<1>9. \E m \in Scored : \A x \in Scored : <<m, x>> \in R
  BY <1>2, <1>8, LeastExists
<1> QED BY <1>9 DEF R

(* The mode of a case counts among all of them.                             *)
LEMMA ModesKnown ==
  ASSUME ProgressInv, NEW i \in CaseRows
  PROVE  /\ ModeOf(i) \in Modes \cup {"standard"} /\ TopicOf(i) \in Topics
         /\ i \in 1 .. Len(rows)
<1>1. i \in 1 .. Len(rows) /\ rows[i] \in SessionRow BY RowScores
<1>2. rows[i].mode \in Modes \cup {"none"} BY <1>1 DEF SessionRow
<1> QED BY <1>1, <1>2 DEF ModeOf, Topics

(* What each rule says of the topic it names.                               *)
LEMMA RulesMean ==
  ASSUME ProgressInv
  PROVE  /\ Recommend.rule = "graduation" => Recommend.topic \in Graduated
         /\ Recommend.rule = "weakness" =>
              Graduated = {} /\ Recommend.topic \in Scored
         /\ Recommend.rule = "explore" =>
              Topics = {} \/ (Graduated = {} /\ Scored = {})
         /\ Recommend.rule = "cold-start" => Topics = {}
<1>1. CASE Taught = {} /\ Topics = {}
  <2>1. Recommend = [rule |-> "cold-start", topic |-> 0] BY <1>1 DEF Recommend
  <2> QED BY <1>1, <2>1
<1>2. CASE (Taught # {} \/ Topics # {}) /\ Graduated # {}
  <2>1. Graduated \in SUBSET Topics BY DEF Graduated
  <2>2. \E t \in Graduated : \A u \in Graduated : t <= u
    BY <1>2, <2>1, TopicsFinite
  <2> DEFINE first == CHOOSE t \in Graduated : \A u \in Graduated : t <= u
  <2>3. first \in Graduated BY <2>2
  <2>4. Recommend = [rule |-> "graduation", topic |-> first]
    BY <1>2 DEF Recommend
  <2> HIDE DEF first
  <2>5. Recommend.rule = "graduation" /\ Recommend.topic = first BY <2>4
  <2> QED BY <2>3, <2>5
<1>3. CASE Topics # {} /\ Graduated = {} /\ Scored # {}
  <2> DEFINE weakest == CHOOSE t \in Scored : \A u \in Scored :
                          \/ LessThan(AllScores(t), AllScores(u))
                          \/ /\ ~LessThan(AllScores(u), AllScores(t))
                             /\ t <= u
  <2>1. \E t \in Scored : \A u \in Scored :
          \/ LessThan(AllScores(t), AllScores(u))
          \/ /\ ~LessThan(AllScores(u), AllScores(t))
             /\ t <= u
    BY <1>3, WeakestExists DEF Weaker
  <2>2. weakest \in Scored BY <2>1
  <2>3. Recommend = [rule |-> "weakness", topic |-> weakest]
    BY <1>3 DEF Recommend
  <2> HIDE DEF weakest
  <2>4. Recommend.rule = "weakness" /\ Recommend.topic = weakest BY <2>3
  <2> QED BY <1>3, <2>2, <2>4
<1>4. CASE /\ ~(Taught = {} /\ Topics = {})
           /\ ~((Taught # {} \/ Topics # {}) /\ Graduated # {})
           /\ ~(Topics # {} /\ Graduated = {} /\ Scored # {})
  <2>1. Recommend = [rule |-> "explore", topic |-> 0] BY <1>4 DEF Recommend
  <2>2. Recommend.rule = "explore" BY <2>1
  <2>3. ASSUME Topics # {} PROVE Graduated = {} /\ Scored = {}
    <3>1. Graduated = {} BY <1>4, <2>3
    <3> QED BY <1>4, <2>3, <3>1
  <2> QED BY <2>2, <2>3
<1> QED BY <1>1, <1>2, <1>3, <1>4

(* The recommended step can be defended from the rows.                      *)
LEMMA NextStepIsDefensible == ASSUME ProgressInv PROVE NextStepDefensible
<1> DEFINE r == Recommend
<1>1. r.rule = "graduation" => Attempts(r.topic, "standard") > 0
  <2> SUFFICES ASSUME r.rule = "graduation"
               PROVE  Attempts(r.topic, "standard") > 0
    OBVIOUS
  <2> DEFINE t == r.topic
             A == {i \in CaseRows : TopicOf(i) = t /\ ModeOf(i) = "standard"}
  <2>1. t \in Graduated BY RulesMean
  <2>2. StandardScores(t) # <<>> BY <2>1 DEF Graduated
  <2> HIDE DEF r
  <2>3. \E i \in 1 .. Len(rows) : Counts(t, {"standard"}, i)
    BY <2>2, ScoresEmpty DEF StandardScores
  <2>4. A # {} BY <2>3 DEF Counts
  <2>5. A \subseteq 1 .. Len(rows) /\ Len(rows) \in Nat BY RowScores
  <2>6. IsFiniteSet(1 .. Len(rows)) BY <2>5, FS_Interval
  <2> HIDE DEF A
  <2>7. IsFiniteSet(A) BY <2>5, <2>6, FS_Subset
  <2>8. Cardinality(A) \in Nat /\ Cardinality(A) # 0
    BY <2>4, <2>7, FS_CardinalityType, FS_EmptySet
  <2>9. Attempts(t, "standard") = Cardinality(A) BY DEF Attempts, A
  <2> QED BY <2>8, <2>9
<1>2. r.rule = "weakness" =>
        (StandardScores(r.topic) = AllScores(r.topic)
           => ~AtLeastBar(AllScores(r.topic)))
  <2> SUFFICES ASSUME r.rule = "weakness",
                      StandardScores(r.topic) = AllScores(r.topic)
               PROVE  ~AtLeastBar(AllScores(r.topic))
    OBVIOUS
  <2>1. Graduated = {} /\ r.topic \in Scored BY RulesMean
  <2> HIDE DEF r
  <2>2. r.topic \in Topics /\ AllScores(r.topic) # <<>> BY <2>1 DEF Scored
  <2>3. r.topic \notin Graduated BY <2>1
  <2> QED BY <2>2, <2>3 DEF Graduated
<1>3. r.rule \in {"explore", "cold-start"} =>
        \A i \in CaseRows : rows[i].scores = <<>>
  <2> SUFFICES ASSUME r.rule \in {"explore", "cold-start"}, NEW i \in CaseRows
               PROVE  rows[i].scores = <<>>
    OBVIOUS
  <2> DEFINE t == TopicOf(i)
  <2>1. t \in Topics /\ ModeOf(i) \in Modes \cup {"standard"}
        /\ i \in 1 .. Len(rows)
    BY ModesKnown
  <2>2. Scored = {} BY <2>1, RulesMean
  <2>3. AllScores(t) = <<>> BY <2>1, <2>2 DEF Scored
  <2>4. Counts(t, Modes \cup {"standard"}, i) BY <2>1 DEF Counts
  <2> QED BY <2>1, <2>3, <2>4, ScoresEmpty DEF AllScores
<1> QED BY <1>1, <1>2, <1>3 DEF NextStepDefensible
-----------------------------------------------------------------------------
(* The dashboard's series of a dimension, row by row.                       *)
IsSeriesRun(run, d) ==
  /\ run[0] = <<>>
  /\ \A k \in 1 .. Len(rows) :
       run[k] = IF d \in DOMAIN rows[k].scores
                THEN Append(run[k - 1], rows[k].scores[d]) ELSE run[k - 1]
  /\ run[Len(rows)] = Series(d)

(* The fold of the code visits the rows one by one.                         *)
LEMMA SeriesRuns ==
  ASSUME ProgressInv, NEW d
  PROVE  \E run \in [0 .. Len(rows) -> Seq(Given)] : IsSeriesRun(run, d)
<1> DEFINE n == Len(rows)
           V == Seq(Given)
           Step(row, all) == IF d \in DOMAIN row.scores
                             THEN Append(all, row.scores[d]) ELSE all
           step == [p \in (1 .. n) \X V |-> Step(rows[p[1]], p[2])]
           Is(f) == f = [t \in SUBSET (1 .. n) |->
                           IF t = {} THEN <<>>
                           ELSE Step(rows[Max(t)], f[t \ {Max(t)}])]
           iter == CHOOSE f : Is(f)
<1>1. n \in Nat /\ DOMAIN rows = 1 .. n BY RowScores
<1>2. Series(d) = iter[1 .. n] BY <1>1 DEF Series, FoldLeft, MapThenFoldSet
<1>3. ASSUME NEW k \in 1 .. n, NEW v \in V PROVE Step(rows[k], v) \in V
  <2>1. rows[k].scores \in Seq(Given) BY RowScores
  <2>2. ASSUME d \in DOMAIN rows[k].scores
        PROVE  Append(v, rows[k].scores[d]) \in Seq(Given)
    <3>1. rows[k].scores[d] \in Given BY <2>1, <2>2
    <3> QED BY <3>1
  <2> QED BY <2>2
<1>4. step \in [(1 .. n) \X V -> V] BY <1>3
<1>5. \A k \in 1 .. n, v \in V : step[<<k, v>>] = Step(rows[k], v) OBVIOUS
<1>6. \A t \in SUBSET (1 .. n) : t # {} => Max(t) \in 1 .. n
  BY <1>1, GreatestPlace
<1> DEFINE base == <<>>
<1>7. base \in V OBVIOUS
<1>8. Is(iter)
  <2> HIDE DEF n, step, V, Step, base
  <2>1. PICK f \in [SUBSET (1 .. n) -> V] :
          IsFold(f, 1 .. n, base, [t \in SUBSET (1 .. n) |-> Max(t)], step)
    BY <1>1, <1>4, <1>7, LeftFoldExists
  <2>2. Is(f)
    <3> SUFFICES ASSUME NEW t \in SUBSET (1 .. n)
                 PROVE  f[t] = IF t = {} THEN base
                               ELSE Step(rows[Max(t)], f[t \ {Max(t)}])
      BY <2>1 DEF base
    <3>1. f[t \ {Max(t)}] \in V BY <2>1
    <3> QED BY <2>1, <3>1, <1>5, <1>6 DEF IsFold
  <2> QED BY <2>2
<1>9. StepsLeft(iter, n, V, base, step)
  <2> HIDE DEF n, step, iter, V, Step
  <2> QED BY <1>5, <1>6, <1>8 DEF StepsLeft, base
<1> HIDE DEF n, step, iter, V, Step, base
<1>10. PICK run \in [0 .. n -> V] : IsRun(run, n, base, step, iter[1 .. n])
  BY <1>1, <1>4, <1>7, <1>9, LeftFoldRuns
<1>11. ASSUME NEW k \in 1 .. n
       PROVE  run[k] = IF d \in DOMAIN rows[k].scores
                       THEN Append(run[k - 1], rows[k].scores[d])
                       ELSE run[k - 1]
  <2>1. run[k - 1] \in V BY <1>1, <1>10
  <2>2. run[k] = step[<<k, run[k - 1]>>] BY <1>10 DEF IsRun
  <2>3. run[k] = Step(rows[k], run[k - 1]) BY <2>1, <2>2, <1>5
  <2> QED BY <2>3 DEF Step
<1>12. run[0] = <<>> /\ run[n] = Series(d) BY <1>2, <1>10 DEF IsRun, base
<1>13. IsSeriesRun(run, d) BY <1>11, <1>12 DEF IsSeriesRun, n
<1> QED BY <1>10, <1>13 DEF n, V

-----------------------------------------------------------------------------
(* What some scores are above the bar: negative for a mean below it.        *)
Weight(s) == Sum(s) - Bar * Len(s)

(* The weight tells on which side of the bar a mean is.                     *)
LEMMA WeightIs ==
  ASSUME NEW s \in Seq(Given)
  PROVE  /\ Weight(s) \in Int /\ (s = <<>> => Weight(s) = 0)
         /\ AtLeastBar(s) <=> Weight(s) >= 0
<1>1. Sum(s) \in Nat /\ Len(s) \in Nat /\ s \in Seq(Int) /\ Sum(s) = Adds(s)
  BY SumIs
<1>2. Bar * Len(s) \in Nat BY <1>1, ProgressAssumption
<1>3. s = <<>> => Sum(s) = 0 /\ Bar * Len(s) = 0
  <2>1. s = <<>> => Len(s) = 0 OBVIOUS
  <2>2. Bar * 0 = 0 BY ProgressAssumption
  <2>3. Len(s) = 0 => Sum(s) = 0 BY <1>1, AddsType
  <2> QED BY <2>1, <2>2, <2>3
<1> QED BY <1>1, <1>2, <1>3 DEF Weight, AtLeastBar

(* Weights add up.                                                          *)
LEMMA WeightAdds ==
  ASSUME NEW s \in Seq(Given), NEW t \in Seq(Given)
  PROVE  Weight(s \o t) = Weight(s) + Weight(t)
<1>1. s \o t \in Seq(Given) /\ Len(s \o t) = Len(s) + Len(t) OBVIOUS
<1>2. /\ Sum(s) = Adds(s) /\ Sum(t) = Adds(t) /\ Sum(s \o t) = Adds(s \o t)
      /\ s \in Seq(Int) /\ t \in Seq(Int)
      /\ Sum(s) \in Nat /\ Sum(t) \in Nat /\ Len(s) \in Nat /\ Len(t) \in Nat
  BY <1>1, SumIs
<1>3. Sum(s \o t) = Sum(s) + Sum(t) BY <1>2, AddsConcat
<1>4. /\ Bar * (Len(s) + Len(t)) = Bar * Len(s) + Bar * Len(t)
      /\ Bar * Len(s) \in Nat /\ Bar * Len(t) \in Nat
  BY <1>2, ProgressAssumption
<1> QED BY <1>1, <1>2, <1>3, <1>4 DEF Weight

(* One score more adds what it is above the bar.                            *)
LEMMA WeightAppend ==
  ASSUME NEW s \in Seq(Given), NEW x \in Given
  PROVE  Weight(Append(s, x)) = Weight(s) + (x - Bar)
<1> DEFINE one == <<x>>
<1>1. one \in Seq(Given) /\ Len(one) = 1 /\ one[1] = x OBVIOUS
<1>2. Append(s, x) = s \o one OBVIOUS
<1> HIDE DEF one
<1>3. Weight(s \o one) = Weight(s) + Weight(one) BY <1>1, WeightAdds
<1>4. Sum(one) = Adds(one) /\ one \in Seq(Int) BY <1>1, SumIs
<1>5. Adds(one) = one[1]
  <2>1. 1 \in 1 .. Len(one) /\ \A k \in 1 .. Len(one) : k # 1 => one[k] = 0
    BY <1>1
  <2> QED BY <1>4, <2>1, AddsOnly
<1>6. x \in Int /\ Bar \in Int /\ Bar * 1 = Bar BY ProgressAssumption
<1>7. Weight(one) = x - Bar BY <1>1, <1>4, <1>5, <1>6 DEF Weight
<1> QED BY <1>2, <1>3, <1>7

(* The weight of a card, dimension by dimension; a dimension without a      *)
(* score weighs nothing.                                                    *)
Spread(card, m) ==
  [d \in 1 .. m |-> IF d \in DOMAIN card THEN card[d] - Bar ELSE 0]

(* The dimensions of a card weigh together what the card weighs.            *)
LEMMA SpreadWeighs ==
  ASSUME NEW card \in Seq(Given), NEW m \in Nat, Len(card) <= m
  PROVE  /\ Spread(card, m) \in Seq(Int) /\ Len(Spread(card, m)) = m
         /\ Adds(Spread(card, m)) = Weight(card)
<1> DEFINE l == Len(card)
           s == Spread(card, m)
<1>1. l \in Nat /\ DOMAIN card = 1 .. l /\ l <= m OBVIOUS
<1>2. Bar \in Nat /\ \A d \in 1 .. l : card[d] \in Int
  <2>1. \A d \in 1 .. l : card[d] \in Given OBVIOUS
  <2>2. Given \subseteq Int /\ Bar \in Nat BY ProgressAssumption
  <2> QED BY <2>1, <2>2
<1>3. s \in [1 .. m -> Int]
  <2> HIDE DEF l
  <2> QED BY <1>1, <1>2 DEF Spread
<1>4. \A d \in 1 .. m : s[d] = IF d <= l THEN card[d] - Bar ELSE 0
  <2> HIDE DEF l
  <2> QED BY <1>1 DEF Spread
<1> HIDE DEF s
<1>5. s \in Seq(Int) /\ Len(s) = m BY <1>3
<1>6. PICK f \in [0 .. l -> Int] :
        /\ f[0] = 0
        /\ \A k \in 1 .. l : f[k] = f[k - 1] + card[k]
        /\ f[l] = Adds(card)
  <2>1. card \in Seq(Int) BY SumIs
  <2> QED BY <2>1, AddsRuns
<1>7. Sum(card) = Adds(card) BY SumIs
<1> HIDE DEF l
<1> DEFINE g == [k \in 0 .. m |-> IF k <= l THEN f[k] - Bar * k
                                  ELSE f[l] - Bar * l]
<1>8. g[0] = 0
  <2>1. Bar * 0 = 0 BY <1>2
  <2> QED BY <1>1, <1>6, <2>1
<1>9. ASSUME NEW k \in 1 .. m PROVE g[k] = g[k - 1] + s[k]
  <2>1. k \in 0 .. m /\ k - 1 \in 0 .. m OBVIOUS
  <2>2. CASE k <= l
    <3>1. k \in 1 .. l /\ k - 1 \in 0 .. l /\ k - 1 <= l BY <1>1, <2>2
    <3>2. f[k] = f[k - 1] + card[k] /\ f[k - 1] \in Int /\ card[k] \in Int
      BY <1>2, <1>6, <3>1
    <3>3. g[k] = f[k] - Bar * k /\ g[k - 1] = f[k - 1] - Bar * (k - 1)
      BY <2>1, <2>2, <3>1
    <3>4. Bar * k = Bar * (k - 1) + Bar /\ Bar * (k - 1) \in Int BY <1>2
    <3>5. s[k] = card[k] - Bar BY <1>4, <2>2
    <3> HIDE DEF g
    <3> QED BY <3>2, <3>3, <3>4, <3>5, <1>2
  <2>3. CASE ~(k <= l)
    <3>1. s[k] = 0 BY <1>4, <2>3
    <3>2. g[k] = f[l] - Bar * l BY <2>1, <2>3
    <3>3. g[k - 1] = f[l] - Bar * l
      <4>1. CASE k - 1 = l BY <2>1, <4>1, <1>1
      <4>2. CASE k - 1 # l
        <5>1. ~(k - 1 <= l) BY <1>1, <2>3, <4>2
        <5> QED BY <2>1, <5>1
      <4> QED BY <4>1, <4>2
    <3>4. f[l] - Bar * l \in Int
      <4>1. f[l] \in Int /\ Bar * l \in Int BY <1>1, <1>2, <1>6
      <4> QED BY <4>1
    <3> HIDE DEF g
    <3> QED BY <3>1, <3>2, <3>3, <3>4
  <2> QED BY <2>2, <2>3
<1>10. SumsUp(g, s)
  <2> HIDE DEF g
  <2> QED BY <1>5, <1>8, <1>9 DEF SumsUp
<1>11. g[m] = f[l] - Bar * l
  <2>1. m \in 0 .. m OBVIOUS
  <2>2. m <= l => m = l BY <1>1
  <2> QED BY <2>1, <2>2
<1> HIDE DEF g
<1>12. g[m] = Adds(s) BY <1>5, <1>10, AddsIs
<1> QED BY <1>5, <1>6, <1>7, <1>11, <1>12 DEF s, l, Weight

-----------------------------------------------------------------------------
(* The hypothesis of the ladder against the dashboard: standard cases of    *)
(* the library are all that was scored.                                     *)
StandardOnly ==
  \A i \in DOMAIN rows : rows[i].scores # <<>> =>
    i \in CaseRows /\ ModeOf(i) = "standard"

(* The runs of all series and of all topics, as functions.                  *)
SeriesRun(d) ==
  CHOOSE run \in [0 .. Len(rows) -> Seq(Given)] : IsSeriesRun(run, d)
TopicRun(t) ==
  CHOOSE run \in [0 .. Len(rows) -> Seq(Given)] :
    IsScoresRun(run, t, {"standard"})

(* The weights of the first k rows, by dimension and by topic.              *)
ByDimension(k) == [d \in 1 .. Len(Dimensions) |-> Weight(SeriesRun(d)[k])]
ByTopic(k, m) == [j \in 1 .. m |-> Weight(TopicRun(j - 1)[k])]

(* They are what they are called.                                           *)
LEMMA RunsAre ==
  ASSUME ProgressInv
  PROVE  /\ \A d : /\ SeriesRun(d) \in [0 .. Len(rows) -> Seq(Given)]
                   /\ IsSeriesRun(SeriesRun(d), d)
         /\ \A t : /\ TopicRun(t) \in [0 .. Len(rows) -> Seq(Given)]
                   /\ IsScoresRun(TopicRun(t), t, {"standard"})
<1>1. ASSUME NEW d
      PROVE  /\ SeriesRun(d) \in [0 .. Len(rows) -> Seq(Given)]
             /\ IsSeriesRun(SeriesRun(d), d)
  <2>1. \E run \in [0 .. Len(rows) -> Seq(Given)] : IsSeriesRun(run, d)
    BY SeriesRuns
  <2> QED BY <2>1 DEF SeriesRun
<1>2. ASSUME NEW t
      PROVE  /\ TopicRun(t) \in [0 .. Len(rows) -> Seq(Given)]
             /\ IsScoresRun(TopicRun(t), t, {"standard"})
  <2>1. \E run \in [0 .. Len(rows) -> Seq(Given)] :
          IsScoresRun(run, t, {"standard"})
    BY ScoresRuns
  <2> QED BY <2>1 DEF TopicRun
<1> QED BY <1>1, <1>2

(* The weights are sequences of integers.                                   *)
LEMMA WeightsAre ==
  ASSUME ProgressInv, NEW k \in 0 .. Len(rows), NEW m \in Nat
  PROVE  /\ ByDimension(k) \in Seq(Int) /\ Len(ByDimension(k)) = Len(Dimensions)
         /\ \A d \in 1 .. Len(Dimensions) :
              /\ SeriesRun(d)[k] \in Seq(Given)
              /\ ByDimension(k)[d] = Weight(SeriesRun(d)[k])
         /\ ByTopic(k, m) \in Seq(Int) /\ Len(ByTopic(k, m)) = m
         /\ \A j \in 1 .. m : /\ TopicRun(j - 1)[k] \in Seq(Given)
                              /\ ByTopic(k, m)[j] = Weight(TopicRun(j - 1)[k])
<1>1. Len(Dimensions) \in Nat BY ProgressAssumption
<1>2. ASSUME NEW d PROVE SeriesRun(d)[k] \in Seq(Given) BY RunsAre
<1>3. ASSUME NEW t PROVE TopicRun(t)[k] \in Seq(Given) BY RunsAre
<1>4. ByDimension(k) \in [1 .. Len(Dimensions) -> Int]
  <2>1. \A d : Weight(SeriesRun(d)[k]) \in Int BY <1>2, WeightIs
  <2> QED BY <2>1 DEF ByDimension
<1>5. ByTopic(k, m) \in [1 .. m -> Int]
  <2>1. \A t : Weight(TopicRun(t)[k]) \in Int BY <1>3, WeightIs
  <2> QED BY <2>1 DEF ByTopic
<1>6. \A d \in 1 .. Len(Dimensions) :
        ByDimension(k)[d] = Weight(SeriesRun(d)[k])
  BY DEF ByDimension
<1>7. \A j \in 1 .. m : ByTopic(k, m)[j] = Weight(TopicRun(j - 1)[k])
  BY DEF ByTopic
<1>8. ByDimension(k) \in Seq(Int) /\ Len(ByDimension(k)) = Len(Dimensions)
  BY <1>1, <1>4
<1>9. ByTopic(k, m) \in Seq(Int) /\ Len(ByTopic(k, m)) = m BY <1>5
<1> QED BY <1>2, <1>3, <1>6, <1>7, <1>8, <1>9

(* One row more adds the weight of its card, spread over the dimensions ... *)
LEMMA DimensionsStep ==
  ASSUME ProgressInv, NEW k \in 1 .. Len(rows)
  PROVE  /\ Adds(ByDimension(k - 1)) \in Int
         /\ Adds(ByDimension(k)) =
              Adds(ByDimension(k - 1)) + Weight(rows[k].scores)
<1> DEFINE D == Len(Dimensions)
           card == rows[k].scores
           u == ByDimension(k - 1)
           w == ByDimension(k)
           v == Spread(card, D)
<1>1. /\ Len(rows) \in Nat /\ k - 1 \in 0 .. Len(rows) /\ k \in 0 .. Len(rows)
      /\ D \in Nat /\ card \in Seq(Given) /\ Len(card) <= D
  BY RowScores, ProgressAssumption DEF ProgressInv
<1>2. /\ u \in Seq(Int) /\ Len(u) = D /\ w \in Seq(Int) /\ Len(w) = D
      /\ \A d \in 1 .. D :
           /\ SeriesRun(d)[k - 1] \in Seq(Given)
           /\ u[d] = Weight(SeriesRun(d)[k - 1])
           /\ w[d] = Weight(SeriesRun(d)[k])
  BY <1>1, WeightsAre
<1>3. v \in Seq(Int) /\ Len(v) = D /\ Adds(v) = Weight(card)
  BY <1>1, SpreadWeighs
<1>4. ASSUME NEW d \in 1 .. D PROVE w[d] = u[d] + v[d]
  <2>1. v[d] = IF d \in DOMAIN card THEN card[d] - Bar ELSE 0 BY DEF Spread
  <2>2. SeriesRun(d)[k] = IF d \in DOMAIN card
                          THEN Append(SeriesRun(d)[k - 1], card[d])
                          ELSE SeriesRun(d)[k - 1]
    BY RunsAre DEF IsSeriesRun
  <2>3. u[d] \in Int BY <1>2
  <2> HIDE DEF u, v, w, card
  <2>4. CASE d \in DOMAIN card
    <3>1. card[d] \in Given BY <1>1, <2>4
    <3> DEFINE before == SeriesRun(d)[k - 1]
    <3>3. before \in Seq(Given) /\ w[d] = Weight(SeriesRun(d)[k]) BY <1>2
    <3>4. SeriesRun(d)[k] = Append(before, card[d]) BY <2>2, <2>4
    <3> HIDE DEF before
    <3>5. Weight(Append(before, card[d])) = Weight(before) + (card[d] - Bar)
      BY <3>1, <3>3, WeightAppend
    <3>2. w[d] = Weight(SeriesRun(d)[k - 1]) + (card[d] - Bar)
      BY <3>3, <3>4, <3>5 DEF before
    <3> QED BY <1>2, <2>1, <2>4, <3>2
  <2>5. CASE d \notin DOMAIN card BY <1>2, <2>1, <2>2, <2>3, <2>5
  <2> QED BY <2>4, <2>5
<1> HIDE DEF u, v, w, D, card
<1>5. AddsUp(w, u, v) BY <1>2, <1>4 DEF AddsUp
<1>6. Adds(w) = Adds(u) + Adds(v) BY <1>2, <1>3, <1>5, AddsPointwise
<1>7. Adds(u) \in Int BY <1>2, AddsType
<1> QED BY <1>3, <1>6, <1>7 DEF u, w, card

(* ... and to its topic, if only standard cases were scored.                *)
LEMMA TopicsStep ==
  ASSUME ProgressInv, StandardOnly, NEW k \in 1 .. Len(rows),
         NEW M \in Nat, Topics \subseteq 0 .. M
  PROVE  /\ Adds(ByTopic(k - 1, M + 1)) \in Int
         /\ Adds(ByTopic(k, M + 1)) =
              Adds(ByTopic(k - 1, M + 1)) + Weight(rows[k].scores)
<1> DEFINE m == M + 1
           card == rows[k].scores
           u == ByTopic(k - 1, m)
           w == ByTopic(k, m)
           v == [j \in 1 .. m |->
                   IF Counts(j - 1, {"standard"}, k) THEN Weight(card) ELSE 0]
<1>1. /\ Len(rows) \in Nat /\ k - 1 \in 0 .. Len(rows) /\ k \in 0 .. Len(rows)
      /\ m \in Nat /\ card \in Seq(Given) /\ k \in DOMAIN rows
  BY RowScores
<1>2. /\ u \in Seq(Int) /\ Len(u) = m /\ w \in Seq(Int) /\ Len(w) = m
      /\ \A j \in 1 .. m :
           /\ TopicRun(j - 1)[k - 1] \in Seq(Given)
           /\ u[j] = Weight(TopicRun(j - 1)[k - 1])
           /\ w[j] = Weight(TopicRun(j - 1)[k])
  <2> HIDE DEF m
  <2> QED BY <1>1, WeightsAre
<1>3. Weight(card) \in Int BY <1>1, WeightIs
<1>4. v \in Seq(Int) /\ Len(v) = m
  <2>1. v \in [1 .. m -> Int] BY <1>3
  <2> HIDE DEF v, m
  <2> QED BY <1>1, <2>1
<1>5. \A j \in 1 .. m :
        v[j] = IF Counts(j - 1, {"standard"}, k) THEN Weight(card) ELSE 0
  OBVIOUS
<1>6. ASSUME NEW j \in 1 .. m PROVE w[j] = u[j] + v[j]
  <2>1. TopicRun(j - 1)[k] = IF Counts(j - 1, {"standard"}, k)
                             THEN TopicRun(j - 1)[k - 1] \o card
                             ELSE TopicRun(j - 1)[k - 1]
    BY RunsAre DEF IsScoresRun
  <2>2. u[j] \in Int BY <1>2
  <2> HIDE DEF u, v, w, card
  <2>3. CASE Counts(j - 1, {"standard"}, k)
    <3>1. w[j] = Weight(TopicRun(j - 1)[k - 1]) + Weight(card)
      BY <1>1, <1>2, <2>1, <2>3, WeightAdds
    <3> QED BY <1>2, <1>5, <2>3, <3>1
  <2>4. CASE ~Counts(j - 1, {"standard"}, k)
    BY <1>2, <1>5, <2>1, <2>2, <2>4
  <2> QED BY <2>3, <2>4
<1>7. Adds(v) = Weight(card)
  <2>1. CASE card = <<>>
    <3>1. Weight(card) = 0 BY <1>1, <2>1, WeightIs
    <3>2. \A j \in 1 .. m : v[j] = 0 BY <1>5, <3>1
    <3>3. 1 \in 1 .. Len(v) BY <1>4
    <3> HIDE DEF v, card, m
    <3>4. Adds(v) = v[1] BY <1>4, <3>2, <3>3, AddsOnly
    <3> QED BY <1>4, <3>1, <3>2, <3>3, <3>4
  <2>2. CASE card # <<>>
    <3>1. k \in CaseRows /\ ModeOf(k) = "standard"
      BY <1>1, <2>2 DEF StandardOnly
    <3>2. TopicOf(k) \in 0 .. M BY <3>1, ModesKnown
    <3> DEFINE j == TopicOf(k) + 1
    <3>3. j \in 1 .. m /\ j - 1 = TopicOf(k) BY <3>2
    <3>4. v[j] = Weight(card)
      <4>1. Counts(j - 1, {"standard"}, k) BY <3>1, <3>3 DEF Counts
      <4> HIDE DEF v, j
      <4> QED BY <1>5, <3>3, <4>1
    <3>5. \A i \in 1 .. m : i # j => v[i] = 0
      <4> SUFFICES ASSUME NEW i \in 1 .. m, i # j PROVE v[i] = 0 OBVIOUS
      <4>1. i - 1 # TopicOf(k) BY <3>2
      <4>2. ~Counts(i - 1, {"standard"}, k) BY <4>1 DEF Counts
      <4> HIDE DEF v, j
      <4> QED BY <1>5, <4>2
    <3> HIDE DEF v, j, card, m
    <3>6. Adds(v) = v[j] BY <1>4, <3>3, <3>5, AddsOnly
    <3> QED BY <3>4, <3>6
  <2> QED BY <2>1, <2>2
<1> HIDE DEF u, v, w, m, card
<1>8. AddsUp(w, u, v) BY <1>2, <1>6 DEF AddsUp
<1>9. Adds(w) = Adds(u) + Adds(v) BY <1>2, <1>4, <1>8, AddsPointwise
<1>10. Adds(u) \in Int BY <1>2, AddsType
<1> QED BY <1>7, <1>9, <1>10 DEF u, w, m, card

(* All scores weigh the same, whether they are put together by dimension or *)
(* by topic.                                                                *)
LEMMA WeighedTwice ==
  ASSUME ProgressInv, StandardOnly, NEW M \in Nat, Topics \subseteq 0 .. M
  PROVE  Adds(ByDimension(Len(rows))) = Adds(ByTopic(Len(rows), M + 1))
<1> DEFINE n == Len(rows)
           f == [k \in 0 .. n |-> Adds(ByDimension(k))]
           g == [k \in 0 .. n |-> Adds(ByTopic(k, M + 1))]
<1>1. n \in Nat /\ M + 1 \in Nat BY RowScores
<1>2. Adds(ByDimension(0)) = 0
  <2>1. 0 \in 0 .. n BY <1>1
  <2>2. /\ ByDimension(0) \in Seq(Int)
        /\ Len(ByDimension(0)) = Len(Dimensions)
        /\ \A d \in 1 .. Len(Dimensions) :
             ByDimension(0)[d] = Weight(SeriesRun(d)[0])
    BY <1>1, <2>1, WeightsAre
  <2>3. \A d : SeriesRun(d)[0] = <<>> BY RunsAre DEF IsSeriesRun
  <2> DEFINE none == <<>>
  <2>4. none \in Seq(Given) OBVIOUS
  <2>5. Weight(none) = 0
    <3>1. none = <<>> OBVIOUS
    <3> HIDE DEF none
    <3> QED BY <2>4, <3>1, WeightIs
  <2>6. \A d \in 1 .. Len(Dimensions) : ByDimension(0)[d] = 0
    BY <2>2, <2>3, <2>5
  <2> HIDE DEF none
  <2>7. CASE Len(Dimensions) = 0 BY <2>2, <2>7, AddsType
  <2>8. CASE Len(Dimensions) # 0
    <3>1. 1 \in 1 .. Len(ByDimension(0))
      BY <2>2, <2>8, ProgressAssumption
    <3>2. Adds(ByDimension(0)) = ByDimension(0)[1]
      BY <2>2, <2>6, <3>1, AddsOnly
    <3> QED BY <2>2, <2>6, <3>1, <3>2
  <2> QED BY <2>7, <2>8
<1>3. Adds(ByTopic(0, M + 1)) = 0
  <2> DEFINE w == ByTopic(0, M + 1)
  <2>1. 0 \in 0 .. n BY <1>1
  <2>2. /\ w \in Seq(Int) /\ Len(w) = M + 1
        /\ \A j \in 1 .. M + 1 : w[j] = Weight(TopicRun(j - 1)[0])
    BY <1>1, <2>1, WeightsAre
  <2>3. \A t : TopicRun(t)[0] = <<>> BY RunsAre DEF IsScoresRun
  <2> DEFINE none == <<>>
  <2>4. none \in Seq(Given) OBVIOUS
  <2>5. Weight(none) = 0
    <3>1. none = <<>> OBVIOUS
    <3> HIDE DEF none
    <3> QED BY <2>4, <3>1, WeightIs
  <2>6. \A j \in 1 .. M + 1 : w[j] = 0 BY <2>2, <2>3, <2>5
  <2>7. 1 \in 1 .. Len(w) BY <2>2
  <2> HIDE DEF none, w
  <2>8. Adds(w) = w[1] BY <2>2, <2>6, <2>7, AddsOnly
  <2>9. Adds(w) = 0 BY <2>2, <2>6, <2>7, <2>8
  <2> QED BY <2>9 DEF w
<1>4. f[0] = g[0]
  <2>1. 0 \in 0 .. n BY <1>1
  <2> QED BY <1>2, <1>3, <2>1
<1>5. ASSUME NEW k \in 1 .. n, f[k - 1] = g[k - 1] PROVE f[k] = g[k]
  <2>1. k \in 0 .. n /\ k - 1 \in 0 .. n BY <1>1
  <2>2. Adds(ByDimension(k - 1)) = Adds(ByTopic(k - 1, M + 1))
    BY <1>5, <2>1
  <2>3. Adds(ByDimension(k)) =
          Adds(ByDimension(k - 1)) + Weight(rows[k].scores)
    BY DimensionsStep
  <2>4. Adds(ByTopic(k, M + 1)) =
          Adds(ByTopic(k - 1, M + 1)) + Weight(rows[k].scores)
    BY TopicsStep
  <2>5. Adds(ByDimension(k)) = Adds(ByTopic(k, M + 1)) BY <2>2, <2>3, <2>4
  <2> QED BY <2>1, <2>5
<1>6. StepAlike(f, g, n)
  <2> HIDE DEF f, g
  <2> QED BY <1>5 DEF StepAlike
<1>7. f[n] = g[n]
  <2> HIDE DEF f, g, n
  <2> QED BY <1>1, <1>4, <1>6, RunsAgree
<1>8. n \in 0 .. n BY <1>1
<1> QED BY <1>7, <1>8

(* If the ladder says that a topic is weak, the dashboard shows it.         *)
LEMMA WeaknessIsShown == ASSUME ProgressInv PROVE WeaknessShows
<1> SUFFICES ASSUME Recommend.rule = "weakness", StandardOnly, Weaknesses = {}
             PROVE  FALSE
  BY DEF WeaknessShows, StandardOnly
<1> DEFINE n == Len(rows)
<1>1. n \in Nat /\ DOMAIN rows = 1 .. n BY RowScores
<1>2. PICK M \in Nat : Topics \subseteq 0 .. M BY TopicsBounded
<1> DEFINE D == ByDimension(n)
           W == ByTopic(n, M + 1)
<1>3. n \in 0 .. n /\ M + 1 \in Nat BY <1>1
<1>4. /\ D \in Seq(Int) /\ Len(D) = Len(Dimensions)
      /\ \A d \in 1 .. Len(Dimensions) : D[d] = Weight(Series(d))
                                         /\ Series(d) \in Seq(Given)
  <2>1. \A d : SeriesRun(d)[n] = Series(d) BY RunsAre DEF IsSeriesRun
  <2> QED BY <1>3, <2>1, WeightsAre
<1>5. /\ W \in Seq(Int) /\ Len(W) = M + 1
      /\ \A j \in 1 .. M + 1 : W[j] = Weight(StandardScores(j - 1))
  <2>1. \A t : TopicRun(t)[n] = StandardScores(t)
    BY RunsAre DEF IsScoresRun, StandardScores
  <2> QED BY <1>3, <2>1, WeightsAre
<1>6. Adds(D) >= 0
  <2>1. ASSUME NEW d \in 1 .. Len(D) PROVE D[d] >= 0
    <3>1. d \in DOMAIN Dimensions /\ d \in 1 .. Len(Dimensions)
      BY <1>4, ProgressAssumption
    <3>2. Series(d) = <<>> \/ AtLeastBar(Series(d))
      BY <3>1 DEF Weaknesses
    <3>3. D[d] = Weight(Series(d)) /\ Series(d) \in Seq(Given)
      BY <1>4, <3>1
    <3> HIDE DEF D
    <3> QED BY <3>2, <3>3, WeightIs
  <2> HIDE DEF D
  <2> QED BY <1>4, <2>1, AddsNotNegative
<1>7. Graduated = {} /\ Scored # {} BY RulesMean
<1>8. ASSUME NEW t, StandardScores(t) # <<>>
      PROVE  Weight(StandardScores(t)) < 0
  <2>1. StandardScores(t) \in Seq(Given) BY ScoresEmpty DEF StandardScores
  <2>2. \E i \in 1 .. n : Counts(t, {"standard"}, i)
    BY <1>8, ScoresEmpty DEF StandardScores
  <2>3. t \in Topics BY <2>2 DEF Counts, Topics
  <2>4. ~AtLeastBar(StandardScores(t)) BY <1>7, <1>8, <2>3 DEF Graduated
  <2>5. Weight(StandardScores(t)) \in Int /\ ~(Weight(StandardScores(t)) >= 0)
    BY <2>1, <2>4, WeightIs
  <2> QED BY <2>5
<1>9. Adds(W) < 0
  <2>1. ASSUME NEW j \in 1 .. Len(W) PROVE W[j] <= 0
    <3>1. W[j] = Weight(StandardScores(j - 1)) BY <1>5
    <3>2. StandardScores(j - 1) \in Seq(Given)
      BY ScoresEmpty DEF StandardScores
    <3>3. CASE StandardScores(j - 1) = <<>>
      <4>1. Weight(StandardScores(j - 1)) = 0 BY <3>2, <3>3, WeightIs
      <4> HIDE DEF W
      <4> QED BY <3>1, <4>1
    <3>4. CASE StandardScores(j - 1) # <<>>
      <4>1. Weight(StandardScores(j - 1)) < 0 BY <1>8, <3>4
      <4>2. Weight(StandardScores(j - 1)) \in Int BY <3>2, WeightIs
      <4> HIDE DEF W
      <4> QED BY <3>1, <4>1, <4>2
    <3> QED BY <3>3, <3>4
  <2>2. PICK t \in Scored : TRUE BY <1>7
  <2>3. t \in Topics /\ AllScores(t) # <<>> BY <2>2 DEF Scored
  <2>4. PICK i \in 1 .. n : /\ Counts(t, Modes \cup {"standard"}, i)
                            /\ rows[i].scores # <<>>
    BY <2>3, ScoresEmpty DEF AllScores
  <2>5. Counts(t, {"standard"}, i)
    BY <1>1, <2>4 DEF Counts, StandardOnly
  <2>6. StandardScores(t) # <<>>
    BY <2>4, <2>5, ScoresEmpty DEF StandardScores
  <2>7. t \in 0 .. M BY <1>2, <2>3
  <2> DEFINE j == t + 1
  <2>8. j \in 1 .. Len(W) /\ j - 1 = t BY <1>5, <2>7
  <2>9. W[j] < 0
    <3>1. W[j] = Weight(StandardScores(j - 1)) BY <1>5, <2>8
    <3> HIDE DEF W, j
    <3> QED BY <1>8, <2>6, <2>8, <3>1
  <2> HIDE DEF W, j
  <2> QED BY <1>5, <2>1, <2>8, <2>9, AddsNegative
<1>10. Adds(D) = Adds(W) BY <1>2, WeighedTwice
<1>11. Adds(D) \in Int BY <1>4, AddsType
<1> HIDE DEF D, W
<1> QED BY <1>6, <1>9, <1>10, <1>11

(* The advice holds up against the rows, whatever the bar, the dimensions   *)
(* and the library: the ladder's rules name what they claim, and what it    *)
(* calls weak the dashboard shows.                                          *)
THEOREM AdviceIsDefensible == ProgressSpec => []AdviceHolds
<1>1. ProgressInv => AdviceHolds
  BY NextStepIsDefensible, WeaknessIsShown DEF AdviceHolds
<1> QED BY <1>1, ProgressInductive, PTL

-----------------------------------------------------------------------------
(* Drill sprints and their grades, on their own.                            *)
SprintSpec == SprintInit /\ [][SprintNext]_sprintVars

Result == [kind : Kinds \cup {"mixed"}, total : Nat, correct : Nat]

(* The totals, or the right answers, of the graded sprints.                 *)
Column(field) == [i \in 1 .. Len(results) |-> results[i][field]]

(* The rows of the store hold what was shown so far.                        *)
SprintInv ==
  /\ posed \in Seq(Drills) /\ answers \in Seq(Answer)
  /\ results \in Seq(Result) /\ okItems \in Nat /\ allItems \in Nat
  /\ \A i \in 1 .. Len(results) : results[i].correct <= results[i].total
  /\ Adds(Column("total")) = allItems /\ Adds(Column("correct")) = okItems

(* A sprint's row names a kind, counts the drills, and counts as right what *)
(* its items show as right, which are no more than the drills.              *)
LEMMA SprintIsScored ==
  ASSUME NEW drills \in Seq(Drills), NEW given \in Seq(Answer)
  PROVE  LET row == ScoreSprint(drills, given)
         IN /\ row \in Result /\ row.total = Len(drills)
            /\ row.correct <= row.total
            /\ row.correct =
                 Cardinality({item \in Items(drills, given) : item.ok})
<1> DEFINE right == {i \in Paired(drills, given) : IsOk(drills[i], given[i])}
           shown == {item \in Items(drills, given) : item.ok}
           kinds == {drills[i].kind : i \in DOMAIN drills}
           kind == IF Cardinality(kinds) = 1 THEN CHOOSE k \in kinds : TRUE
                   ELSE "mixed"
           n == Len(drills)
<1>1. n \in Nat /\ DOMAIN drills = 1 .. n OBVIOUS
<1>2. IsFiniteSet(1 .. n) /\ Cardinality(1 .. n) = n
  <2> HIDE DEF n
  <2>1. n \in Nat /\ n \in Int /\ 1 \in Int BY <1>1
  <2>2. (Cardinality(1 .. n) = IF 1 > n THEN 0 ELSE n - 1 + 1)
        /\ IsFiniteSet(1 .. n)
    BY <2>1, FS_Interval
  <2> QED BY <2>1, <2>2
<1>3. right \subseteq 1 .. n BY <1>1 DEF Paired
<1>4. IsFiniteSet(right) /\ Cardinality(right) \in Nat
      /\ Cardinality(right) <= n
  <2> HIDE DEF right, n
  <2> QED BY <1>2, <1>3, FS_Subset, FS_CardinalityType
<1>5. kind \in Kinds \cup {"mixed"}
  <2>1. ASSUME NEW i \in DOMAIN drills PROVE drills[i].kind \in Kinds
    <3>1. drills[i] \in Drills BY <2>1
    <3> QED BY <3>1 DEF Kinds
  <2>2. kinds \subseteq Kinds BY <2>1
  <2>3. CASE Cardinality(kinds) = 1
    <3>1. IsFiniteSet(1 .. n) BY <1>2
    <3>2. kinds # {}
      <4>1. Cardinality({}) = 0 BY FS_EmptySet
      <4> HIDE DEF kinds
      <4>2. CASE kinds = {} BY <2>3, <4>1, <4>2
      <4> QED BY <4>2
    <3>3. (CHOOSE k \in kinds : TRUE) \in kinds BY <3>2
    <3> HIDE DEF kinds
    <3> QED BY <2>2, <2>3, <3>3
  <2>4. CASE Cardinality(kinds) # 1 BY <2>4
  <2> QED BY <2>3, <2>4
<1>6. Cardinality(shown) = Cardinality(right)
  <2> DEFINE f == [i \in right |-> [place |-> i, ok |-> TRUE]]
  <2>1. \A i \in Paired(drills, given) :
          IsOk(drills[i], given[i]) \in BOOLEAN
    <3> SUFFICES ASSUME NEW i \in Paired(drills, given)
                 PROVE  IsOk(drills[i], given[i]) \in BOOLEAN
      OBVIOUS
    <3>1. given[i] \in Answer BY DEF Paired
    <3>2. given[i].given \in BOOLEAN
      <4>1. CASE given[i] \in [given : {TRUE}, n : Typed] BY <4>1
      <4>2. CASE given[i] = [given |-> FALSE, n |-> 0] BY <4>2
      <4> QED BY <3>1, <4>1, <4>2 DEF Answer
    <3> QED BY <3>2 DEF IsOk, GradeDrill
  <2>2. \A i \in right : [place |-> i, ok |-> TRUE] \in shown
    <3> SUFFICES ASSUME NEW i \in right
                 PROVE  [place |-> i, ok |-> TRUE] \in shown
      OBVIOUS
    <3>1. i \in Paired(drills, given) /\ IsOk(drills[i], given[i]) = TRUE
      BY <2>1
    <3>2. [place |-> i, ok |-> TRUE] =
            [place |-> i, ok |-> IsOk(drills[i], given[i])]
      BY <3>1
    <3>3. [place |-> i, ok |-> TRUE] \in Items(drills, given)
      BY <3>1, <3>2 DEF Items
    <3> QED BY <3>3
  <2>3. \A item \in shown : \E i \in right : item = [place |-> i, ok |-> TRUE]
    <3> SUFFICES ASSUME NEW item \in Items(drills, given), item.ok
                 PROVE  \E i \in right : item = [place |-> i, ok |-> TRUE]
      OBVIOUS
    <3>1. PICK i \in Paired(drills, given) :
            item = [place |-> i, ok |-> IsOk(drills[i], given[i])]
      BY DEF Items
    <3>2. item.ok = IsOk(drills[i], given[i]) BY <3>1
    <3>3. IsOk(drills[i], given[i]) = TRUE BY <2>1, <3>2
    <3>4. i \in right BY <3>3
    <3>5. item = [place |-> i, ok |-> TRUE] BY <3>1, <3>3
    <3> QED BY <3>4, <3>5
  <2> HIDE DEF right, shown
  <2>4. f \in [right -> shown] BY <2>2
  <2>5. \A i, j \in right : f[i] = f[j] => i = j
    <3> SUFFICES ASSUME NEW i \in right, NEW j \in right, f[i] = f[j]
                 PROVE  i = j
      OBVIOUS
    <3>1. f[i].place = i /\ f[j].place = j OBVIOUS
    <3> HIDE DEF f
    <3> QED BY <3>1
  <2>6. \A item \in shown : \E i \in right : f[i] = item BY <2>3
  <2> HIDE DEF f
  <2>7. f \in Bijection(right, shown)
    BY <2>4, <2>5, <2>6 DEF Bijection, Injection, Surjection, IsInjective
  <2>8. ExistsBijection(right, shown) BY <2>7 DEF ExistsBijection
  <2> QED BY <1>4, <2>8, FS_Bijection
<1>7. ScoreSprint(drills, given) =
        [kind |-> kind, total |-> n, correct |-> Cardinality(right)]
  BY DEF ScoreSprint
<1> HIDE DEF right, shown, kind, n
<1>8. /\ ScoreSprint(drills, given) \in Result
      /\ ScoreSprint(drills, given).total = n
      /\ ScoreSprint(drills, given).correct = Cardinality(right)
  BY <1>1, <1>4, <1>5, <1>7 DEF Result
<1> QED BY <1>4, <1>6, <1>8 DEF n, shown

(* The columns of the rows are numbers.                                     *)
LEMMA ColumnsAre ==
  ASSUME results \in Seq(Result), NEW field \in {"total", "correct"}
  PROVE  /\ Column(field) \in Seq(Int) /\ Len(Column(field)) = Len(results)
         /\ Len(results) \in Nat
         /\ \A i \in 1 .. Len(results) :
              /\ results[i] \in Result /\ results[i][field] \in Nat
              /\ Column(field)[i] = results[i][field]
<1>1. Len(results) \in Nat OBVIOUS
<1>2. ASSUME NEW i \in 1 .. Len(results) PROVE results[i] \in Result OBVIOUS
<1>3. ASSUME NEW i \in 1 .. Len(results) PROVE results[i][field] \in Nat
  <2>1. results[i].total \in Nat /\ results[i].correct \in Nat
    BY <1>2 DEF Result
  <2> QED BY <2>1
<1>4. Column(field) \in [1 .. Len(results) -> Int] BY <1>3 DEF Column
<1>5. \A i \in 1 .. Len(results) : Column(field)[i] = results[i][field]
  BY DEF Column
<1> QED BY <1>1, <1>2, <1>3, <1>4, <1>5

(* A row more adds its number to each column.                               *)
LEMMA ColumnGrows ==
  ASSUME results \in Seq(Result), NEW row \in Result,
         results' = Append(results, row), NEW field \in {"total", "correct"}
  PROVE  Adds(Column(field)') = Adds(Column(field)) + row[field]
<1> DEFINE n == Len(results)
           s == Column(field)
           t == Column(field)'
           one == <<row[field]>>
<1>1. n \in Nat /\ s \in Seq(Int) /\ Len(s) = n
      /\ \A i \in 1 .. n : s[i] = results[i][field]
  BY ColumnsAre
<1>2. /\ results' \in Seq(Result) /\ Len(results') = n + 1
      /\ results'[n + 1] = row /\ \A i \in 1 .. n : results'[i] = results[i]
  BY <1>1
<1>3. row[field] \in Int
  <2>1. row.total \in Nat /\ row.correct \in Nat BY DEF Result
  <2> QED BY <2>1
<1>4. t = [i \in 1 .. n + 1 |-> results'[i][field]] BY <1>2 DEF Column
<1>5. one \in Seq(Int) /\ Len(one) = 1 /\ one[1] = row[field] BY <1>3
<1> HIDE DEF s, t, one, n
<1>6. /\ s \o one \in Seq(Int) /\ Len(s \o one) = n + 1
      /\ \A i \in 1 .. n : (s \o one)[i] = s[i]
      /\ (s \o one)[n + 1] = row[field]
  <2>1. /\ s \o one \in Seq(Int) /\ Len(s \o one) = Len(s) + Len(one)
        /\ \A i \in 1 .. Len(s) + Len(one) :
             (s \o one)[i] = IF i <= Len(s) THEN s[i] ELSE one[i - Len(s)]
    BY <1>1, <1>5, ConcatProperties
  <2>2. n + 1 \in 1 .. Len(s) + Len(one) /\ n + 1 - Len(s) = 1
        /\ \A i \in 1 .. n : i \in 1 .. Len(s) + Len(one)
    BY <1>1, <1>5
  <2> QED BY <1>1, <1>5, <2>1, <2>2
<1>7. \A i \in 1 .. n + 1 : t[i] = (s \o one)[i]
  <2> SUFFICES ASSUME NEW i \in 1 .. n + 1 PROVE t[i] = (s \o one)[i] OBVIOUS
  <2>1. t[i] = results'[i][field] BY <1>4
  <2>2. CASE i = n + 1 BY <1>2, <1>6, <2>1, <2>2
  <2>3. CASE i # n + 1
    <3>1. i \in 1 .. n BY <1>1, <2>3
    <3> QED BY <1>1, <1>2, <1>6, <2>1, <3>1
  <2> QED BY <2>2, <2>3
<1>8. t = s \o one
  <2> DEFINE w == s \o one
  <2>2. /\ \A i \in 1 .. n + 1 : t[i] = w[i]
        /\ w \in Seq(Int) /\ Len(w) = n + 1
    BY <1>6, <1>7
  <2> HIDE DEF w
  <2>1. w = [i \in 1 .. n + 1 |-> w[i]] BY <2>2
  <2>3. t = [i \in 1 .. n + 1 |-> t[i]] BY <1>4
  <2>4. t = w BY <2>1, <2>2, <2>3
  <2> QED BY <2>4 DEF w
<1>9. Adds(s \o one) = Adds(s) + Adds(one) BY <1>1, <1>5, AddsConcat
<1>10. Adds(one) = one[1]
  <2>1. 1 \in 1 .. Len(one) /\ \A k \in 1 .. Len(one) : k # 1 => one[k] = 0
    BY <1>5
  <2> QED BY <1>5, <2>1, AddsOnly
<1> QED BY <1>5, <1>8, <1>9, <1>10 DEF s, t

(* What is stored is what was shown, in every state.                        *)
LEMMA SprintInductive == SprintSpec => []SprintInv
<1>1. SprintInit => SprintInv
  <2> SUFFICES ASSUME SprintInit PROVE SprintInv OBVIOUS
  <2>1. /\ posed = <<>> /\ answers = <<>> /\ results = <<>>
        /\ okItems = 0 /\ allItems = 0
    BY DEF SprintInit
  <2>2. posed \in Seq(Drills) /\ answers \in Seq(Answer) BY <2>1
  <2>3. results \in Seq(Result) /\ Len(results) = 0 BY <2>1
  <2>4. Adds(Column("total")) = 0 /\ Adds(Column("correct")) = 0
    BY <2>3, ColumnsAre, AddsType
  <2> QED BY <2>1, <2>2, <2>3, <2>4 DEF SprintInv
<1>2. SprintInv /\ [SprintNext]_sprintVars => SprintInv'
  <2> SUFFICES ASSUME SprintInv, [SprintNext]_sprintVars PROVE SprintInv'
    OBVIOUS
  <2>1. /\ posed \in Seq(Drills) /\ answers \in Seq(Answer)
        /\ results \in Seq(Result) /\ okItems \in Nat /\ allItems \in Nat
    BY DEF SprintInv
  <2>2. ASSUME results' = results, UNCHANGED <<okItems, allItems>>,
               posed' \in Seq(Drills), answers' \in Seq(Answer)
        PROVE  SprintInv'
    BY <2>2 DEF SprintInv, Column, Answer, Result, Kinds
  <2>3. ASSUME NEW drill \in Drills, Pose(drill) PROVE SprintInv'
    <3>1. Append(posed, drill) \in Seq(Drills) BY <2>1
    <3> QED BY <2>1, <2>2, <2>3, <3>1 DEF Pose
  <2>4. ASSUME NEW a \in Answer, TypeIn(a) PROVE SprintInv'
    <3>1. Append(answers, a) \in Seq(Answer) BY <2>1
    <3> QED BY <2>1, <2>2, <2>4, <3>1 DEF TypeIn
  <2>5. CASE GradeSprint
    <3> DEFINE row == ScoreSprint(posed, answers)
               n == Len(results)
    <3>1. /\ row \in Result /\ row.total = Len(posed)
          /\ row.correct <= row.total
          /\ row.correct =
               Cardinality({item \in Items(posed, answers) : item.ok})
      BY <2>1, SprintIsScored
    <3>2. /\ results' = Append(results, row)
          /\ okItems' = okItems + row.correct
          /\ allItems' = allItems + row.total
      BY <2>5, <3>1 DEF GradeSprint
    <3>3. posed' \in Seq(Drills) /\ answers' \in Seq(Answer)
      BY <2>5 DEF GradeSprint
    <3> HIDE DEF row
    <3>4. /\ results' \in Seq(Result) /\ Len(results') = n + 1 /\ n \in Nat
          /\ results'[n + 1] = row
          /\ \A i \in 1 .. n : results'[i] = results[i]
      BY <2>1, <3>1, <3>2
    <3>5. row.total \in Nat /\ row.correct \in Nat BY <3>1 DEF Result
    <3>6. ASSUME NEW i \in 1 .. Len(results')
          PROVE  results'[i].correct <= results'[i].total
      <4>1. CASE i = n + 1 BY <3>1, <3>4, <4>1
      <4>2. CASE i # n + 1
        <5>1. i \in 1 .. n BY <3>4, <4>2
        <5> QED BY <3>4, <5>1 DEF SprintInv
      <4> QED BY <4>1, <4>2
    <3>7. Adds(Column("total")') = Adds(Column("total")) + row.total
      BY <2>1, <3>1, <3>2, ColumnGrows
    <3>8. Adds(Column("correct")') = Adds(Column("correct")) + row.correct
      BY <2>1, <3>1, <3>2, ColumnGrows
    <3>9. okItems' \in Nat /\ allItems' \in Nat BY SMTT(30), <2>1, <3>2, <3>5
    <3>10. /\ Adds(Column("total")') = allItems'
           /\ Adds(Column("correct")') = okItems'
      BY <3>2, <3>7, <3>8 DEF SprintInv
    <3>11. (posed \in Seq(Drills) /\ answers \in Seq(Answer))'
      BY <3>3 DEF Answer
    <3>12. (results \in Seq(Result))' BY <3>4 DEF Result, Kinds
    <3>13. (/\ Adds(Column("total")) = allItems
            /\ Adds(Column("correct")) = okItems)'
      BY <3>10
    <3>14. (okItems \in Nat /\ allItems \in Nat)' BY <3>9
    <3> QED BY <3>6, <3>11, <3>12, <3>13, <3>14 DEF SprintInv
  <2>6. CASE UNCHANGED sprintVars BY <2>1, <2>2, <2>6 DEF sprintVars
  <2> QED BY <2>3, <2>4, <2>5, <2>6 DEF SprintNext
<1> QED BY <1>1, <1>2, PTL DEF SprintSpec

(* The kinds of the graded sprints.                                         *)
KindOf == [i \in 1 .. Len(results) |-> results[i].kind]
KindsOf == {results[i].kind : i \in DOMAIN results}

(* The numbers of one kind in a column.                                     *)
LEMMA KindSum ==
  ASSUME results \in Seq(Result), NEW k, NEW field \in {"total", "correct"}
  PROVE  SumOf(k, field) =
           Adds(PartOf(KindOf, Column(field), Len(results), {k}))
<1> DEFINE n == Len(results)
           p == PartOf(KindOf, Column(field), n, {k})
           Step(r, sum) == IF r.kind = k THEN sum + r[field] ELSE sum
           step == [q \in (1 .. n) \X Int |-> Step(results[q[1]], q[2])]
           Is(f) == f = [t \in SUBSET (1 .. n) |->
                           IF t = {} THEN 0
                           ELSE Step(results[Max(t)], f[t \ {Max(t)}])]
           iter == CHOOSE f : Is(f)
<1>1. n \in Nat /\ DOMAIN results = 1 .. n
      /\ \A i \in 1 .. n : results[i][field] \in Int
                           /\ Column(field)[i] = results[i][field]
  BY ColumnsAre
<1>2. SumOf(k, field) = iter[1 .. n]
  BY <1>1 DEF SumOf, FoldLeft, MapThenFoldSet
<1>3. \A i \in 1 .. n, v \in Int : Step(results[i], v) \in Int BY <1>1
<1>4. step \in [(1 .. n) \X Int -> Int] BY <1>3
<1>5. \A i \in 1 .. n, v \in Int : step[<<i, v>>] = Step(results[i], v)
  OBVIOUS
<1>6. \A t \in SUBSET (1 .. n) : t # {} => Max(t) \in 1 .. n
  BY <1>1, GreatestPlace
<1>7. 0 \in Int OBVIOUS
<1>8. Is(iter)
  <2> HIDE DEF n, step, Step
  <2>1. PICK f \in [SUBSET (1 .. n) -> Int] :
          IsFold(f, 1 .. n, 0, [t \in SUBSET (1 .. n) |-> Max(t)], step)
    BY <1>1, <1>4, <1>7, LeftFoldExists
  <2>2. Is(f)
    <3> SUFFICES ASSUME NEW t \in SUBSET (1 .. n)
                 PROVE  f[t] = IF t = {} THEN 0
                               ELSE Step(results[Max(t)], f[t \ {Max(t)}])
      BY <2>1
    <3>1. f[t \ {Max(t)}] \in Int BY <2>1
    <3> QED BY <2>1, <3>1, <1>5, <1>6 DEF IsFold
  <2> QED BY <2>2
<1>9. StepsLeft(iter, n, Int, 0, step)
  <2> HIDE DEF n, step, iter, Step
  <2> QED BY <1>5, <1>6, <1>8 DEF StepsLeft
<1>10. \A i \in 1 .. n :
         p[i] = IF results[i].kind = k THEN results[i][field] ELSE 0
  BY <1>1 DEF PartOf, KindOf
<1>11. p \in Seq(Int) /\ Len(p) = n
  <2>1. p = [i \in 1 .. n |-> p[i]] BY DEF PartOf
  <2> HIDE DEF p, n
  <2>2. \A i \in 1 .. n : p[i] \in Int BY <1>1, <1>10
  <2> QED BY <1>1, <2>1, <2>2
<1> HIDE DEF n, step, iter, p
<1>12. PICK run \in [0 .. n -> Int] : IsRun(run, n, 0, step, iter[1 .. n])
  BY <1>1, <1>4, <1>7, <1>9, LeftFoldRuns
<1>13. ASSUME NEW i \in 1 .. n PROVE run[i] = run[i - 1] + p[i]
  <2>1. run[i - 1] \in Int BY <1>1, <1>12
  <2>2. run[i] = step[<<i, run[i - 1]>>] BY <1>12 DEF IsRun
  <2>3. run[i] = Step(results[i], run[i - 1]) BY <2>1, <2>2, <1>5
  <2>4. CASE results[i].kind = k BY <1>10, <2>3, <2>4
  <2>5. CASE results[i].kind # k BY <1>10, <2>1, <2>3, <2>5
  <2> QED BY <2>4, <2>5
<1>14. SumsUp(run, p) BY <1>11, <1>12, <1>13 DEF SumsUp, IsRun
<1>15. run[n] = Adds(p) BY <1>11, <1>14, AddsIs
<1>16. run[n] = iter[1 .. n] BY <1>12 DEF IsRun
<1> QED BY <1>2, <1>15, <1>16 DEF p, n

(* The rollup holds the sums of each kind.                                  *)
LEMMA SummaryIs ==
  ASSUME results \in Seq(Result)
  PROVE  /\ DOMAIN DrillSummary = KindsOf /\ IsFiniteSet(KindsOf)
         /\ KindOf \in [1 .. Len(results) -> KindsOf]
         /\ \A k \in KindsOf :
              /\ DrillSummary[k].attempts =
                   Adds(PartOf(KindOf, Column("total"), Len(results), {k}))
              /\ DrillSummary[k].correct =
                   Adds(PartOf(KindOf, Column("correct"), Len(results), {k}))
<1>1. Len(results) \in Nat /\ DOMAIN results = 1 .. Len(results) OBVIOUS
<1>2. DOMAIN DrillSummary = KindsOf BY DEF DrillSummary, KindsOf
<1>3. KindOf \in [1 .. Len(results) -> KindsOf] BY <1>1 DEF KindOf, KindsOf
<1>4. IsFiniteSet(KindsOf)
  <2>1. KindOf \in Surjection(1 .. Len(results), KindsOf)
    BY <1>1, <1>3 DEF Surjection, KindOf, KindsOf
  <2>2. IsFiniteSet(1 .. Len(results)) BY <1>1, FS_Interval
  <2> QED BY <2>1, <2>2, FS_Surjection
<1>5. ASSUME NEW k \in KindsOf
      PROVE  /\ DrillSummary[k].attempts = SumOf(k, "total")
             /\ DrillSummary[k].correct = SumOf(k, "correct")
  BY DEF DrillSummary, KindsOf
<1>6. ASSUME NEW k \in KindsOf
      PROVE  /\ DrillSummary[k].attempts =
                   Adds(PartOf(KindOf, Column("total"), Len(results), {k}))
             /\ DrillSummary[k].correct =
                   Adds(PartOf(KindOf, Column("correct"), Len(results), {k}))
  BY <1>5, KindSum
<1> QED BY <1>2, <1>3, <1>4, <1>6

(* What each kind has in a field of the rollup.                             *)
ValuesAre(val, field) == \A k \in KindsOf : DrillSummary[k][field] = val[k]

(* The fold over the kinds sums up what each kind has.                      *)
LEMMA KindsSum ==
  ASSUME results \in Seq(Result), NEW field, NEW val \in [KindsOf -> Int],
         ValuesAre(val, field)
  PROVE  \E iter : /\ IsSetSum(iter, KindsOf, val)
                   /\ SumBy(field) = iter[KindsOf]
<1> DEFINE K == KindsOf
           First(t) == CHOOSE x \in t : TRUE
           Is(f) == f = [t \in SUBSET K |->
                           IF t = {} THEN 0
                           ELSE f[t \ {First(t)}]
                                  + DrillSummary[First(t)][field]]
           iter == CHOOSE f : Is(f)
<1>1. SumBy(field) = iter[K]
  <2>1. DOMAIN DrillSummary = K BY SummaryIs
  <2>2. SumBy(field) =
          FoldSet(LAMBDA k, sum : sum + DrillSummary[k][field], 0, K)
    BY <2>1 DEF SumBy
  <2> QED BY <2>2 DEF FoldSet, MapThenFoldSet
<1>2. \A t \in SUBSET K : t # {} => First(t) \in K
                          /\ DrillSummary[First(t)][field] = val[First(t)]
  BY DEF ValuesAre
<1>3. IsFiniteSet(K) BY SummaryIs
<1> HIDE DEF K
<1>4. \E f : Is(f)
  <2>1. PICK f \in [SUBSET K -> Int] : IsSetSum(f, K, val)
    BY <1>3, SetSumExists DEF K
  <2>2. ASSUME NEW t \in SUBSET K
        PROVE  f[t] = IF t = {} THEN 0
                      ELSE f[t \ {First(t)}] + DrillSummary[First(t)][field]
    <3>1. f[t] = IF t = {} THEN 0 ELSE f[t \ {First(t)}] + val[First(t)]
      BY <2>1 DEF IsSetSum
    <3> HIDE DEF First
    <3> QED BY <1>2, <3>1
  <2> HIDE DEF First
  <2>3. Is(f) BY <2>1, <2>2
  <2> QED BY <2>3
<1>5. Is(iter)
  <2> HIDE DEF Is
  <2> QED BY <1>4
<1>6. IsSetSum(iter, K, val)
  <2>1. ASSUME NEW t \in SUBSET K
        PROVE  iter[t] = IF t = {} THEN 0
                         ELSE iter[t \ {First(t)}]
                                + DrillSummary[First(t)][field]
    <3> HIDE DEF iter, First
    <3> QED BY <1>5
  <2>2. ASSUME NEW t \in SUBSET K
        PROVE  iter[t] = IF t = {} THEN 0
                         ELSE iter[t \ {First(t)}] + val[First(t)]
    <3> HIDE DEF iter, First
    <3> QED BY <1>2, <2>1
  <2> HIDE DEF iter
  <2> QED BY <2>2 DEF IsSetSum
<1> HIDE DEF iter
<1> QED BY <1>1, <1>6 DEF K

(* The rollup counts every drill once.                                      *)
LEMMA SummaryHolds == ASSUME SprintInv PROVE SummaryCountsItems
<1> DEFINE n == Len(results)
           kinds == DOMAIN DrillSummary
           Posed == [k \in KindsOf |-> DrillSummary[k].attempts]
           Right == [k \in KindsOf |-> DrillSummary[k].correct]
<1>1. results \in Seq(Result) BY DEF SprintInv
<1>2. /\ kinds = KindsOf /\ IsFiniteSet(KindsOf)
      /\ KindOf \in [1 .. n -> KindsOf]
      /\ \A k \in KindsOf :
           /\ DrillSummary[k].attempts =
                Adds(PartOf(KindOf, Column("total"), n, {k}))
           /\ DrillSummary[k].correct =
                Adds(PartOf(KindOf, Column("correct"), n, {k}))
  BY <1>1, SummaryIs
<1>3. /\ n \in Nat
      /\ \A field \in {"total", "correct"} :
           /\ Column(field) \in [1 .. n -> Int]
           /\ \A i \in 1 .. n : Column(field)[i] = results[i][field]
  <2>1. \A field \in {"total", "correct"} :
          /\ Column(field) \in Seq(Int) /\ Len(Column(field)) = n
          /\ \A i \in 1 .. n : Column(field)[i] = results[i][field]
    BY <1>1, ColumnsAre
  <2>2. n \in Nat BY <1>1
  <2>3. ASSUME NEW s \in Seq(Int), Len(s) = n PROVE s \in [1 .. n -> Int]
    BY <2>3
  <2> HIDE DEF n
  <2> QED BY <2>1, <2>2, <2>3
<1>4. ASSUME NEW k \in KindsOf, NEW field \in {"total", "correct"}
      PROVE  /\ PartOf(KindOf, Column(field), n, {k}) \in Seq(Int)
             /\ Len(PartOf(KindOf, Column(field), n, {k})) = n
             /\ \A i \in 1 .. n :
                  PartOf(KindOf, Column(field), n, {k})[i] =
                    IF KindOf[i] \in {k} THEN results[i][field] ELSE 0
  <2> DEFINE p == PartOf(KindOf, Column(field), n, {k})
  <2>1. \A i \in 1 .. n : Column(field)[i] \in Int BY <1>3
  <2>2. p \in [1 .. n -> Int]
    <3> HIDE DEF n
    <3> QED BY <2>1 DEF PartOf
  <2>3. \A i \in 1 .. n :
          p[i] = IF KindOf[i] \in {k} THEN results[i][field] ELSE 0
    <3> HIDE DEF n
    <3> QED BY <1>3 DEF PartOf
  <2> HIDE DEF p, n
  <2>4. p \in Seq(Int) /\ Len(p) = n BY <1>3, <2>2
  <2> QED BY <2>3, <2>4 DEF p
<1>5. Posed \in [KindsOf -> Int] /\ Right \in [KindsOf -> Int]
  <2>1. \A k \in KindsOf :
          DrillSummary[k].attempts \in Int /\ DrillSummary[k].correct \in Int
    <3> TAKE k \in KindsOf
    <3> DEFINE u == PartOf(KindOf, Column("correct"), n, {k})
               w == PartOf(KindOf, Column("total"), n, {k})
    <3>1. u \in Seq(Int) /\ w \in Seq(Int) BY <1>4
    <3>2. Adds(u) \in Int /\ Adds(w) \in Int BY <3>1, AddsType
    <3> QED BY <1>2, <3>2
  <2> QED BY <2>1
<1>6. SumBy("attempts") = allItems
  <2>1. ValuesAre(Posed, "attempts") BY DEF ValuesAre
  <2> DEFINE amount == Column("total")
  <2>2. PartsAre(KindsOf, Posed, KindOf, amount, n)
    BY <1>2 DEF PartsAre
  <2>5. n \in Nat /\ amount \in [1 .. n -> Int] BY <1>3
  <2> HIDE DEF Posed, amount, n
  <2>3. PICK iter :
          /\ IsSetSum(iter, KindsOf, Posed)
          /\ SumBy("attempts") = iter[KindsOf]
    BY <1>1, <1>5, <2>1, KindsSum
  <2>4. iter[KindsOf] = Adds(amount)
    BY SMTT(30), <1>2, <2>2, <2>3, <2>5, PartsAddUp
  <2> QED BY <2>3, <2>4 DEF SprintInv, amount
<1>7. SumBy("correct") = okItems
  <2>1. ValuesAre(Right, "correct") BY DEF ValuesAre
  <2> DEFINE amount == Column("correct")
  <2>2. PartsAre(KindsOf, Right, KindOf, amount, n)
    BY <1>2 DEF PartsAre
  <2>5. n \in Nat /\ amount \in [1 .. n -> Int] BY <1>3
  <2> HIDE DEF Right, amount, n
  <2>3. PICK iter :
          /\ IsSetSum(iter, KindsOf, Right)
          /\ SumBy("correct") = iter[KindsOf]
    BY <1>1, <1>5, <2>1, KindsSum
  <2>4. iter[KindsOf] = Adds(amount)
    BY SMTT(30), <1>2, <2>2, <2>3, <2>5, PartsAddUp
  <2> QED BY <2>3, <2>4 DEF SprintInv, amount
<1>8. ASSUME NEW k \in KindsOf
      PROVE  DrillSummary[k].correct <= DrillSummary[k].attempts
  <2> DEFINE u == PartOf(KindOf, Column("correct"), n, {k})
             w == PartOf(KindOf, Column("total"), n, {k})
  <2>1. /\ u \in Seq(Int) /\ Len(u) = n /\ w \in Seq(Int) /\ Len(w) = n
        /\ \A i \in 1 .. n :
             /\ u[i] = IF KindOf[i] \in {k} THEN results[i]["correct"] ELSE 0
             /\ w[i] = IF KindOf[i] \in {k} THEN results[i]["total"] ELSE 0
    BY <1>4
  <2>2. \A i \in 1 .. n : results[i].correct <= results[i].total
    BY DEF SprintInv
  <2> HIDE DEF u, w
  <2>3. \A i \in 1 .. n : u[i] <= w[i] BY <2>1, <2>2
  <2>4. Adds(u) <= Adds(w) BY <2>1, <2>3, AddsMonotonic
  <2> QED BY <1>2, <2>4 DEF u, w
<1> QED BY <1>2, <1>6, <1>7, <1>8 DEF SummaryCountsItems

(* The progress view counts each drill of a graded sprint once and as       *)
(* correct exactly what was shown as right, whatever the drills are and     *)
(* however many answers come back.                                          *)
THEOREM SprintsAreCounted == SprintSpec => []SummaryCountsItems
<1>1. SprintInv => SummaryCountsItems BY SummaryHolds
<1> QED BY <1>1, SprintInductive, PTL

-----------------------------------------------------------------------------
(* A reply that streams in, on its own.                                     *)
SentencesSpec == SentencesInit /\ [][SentencesNext]_sentencesVars

(* A match of _SENT ends at a boundary.                                     *)
LEMMA EndIsBoundary ==
  ASSUME NEW text \in Seq(Char), NEW i \in 1 .. Len(text),
         NEW j \in i .. Len(text), IsEnd(text, i, j)
  PROVE  j \in Boundaries(text) /\ i < j
<1>1. Len(text) \in Nat /\ DOMAIN text = 1 .. Len(text) OBVIOUS
<1>2. PICK a \in i .. j, b \in i .. j :
        /\ a <= b /\ b < j
        /\ \A k \in i .. a : text[k] = "stop"
        /\ \A k \in a + 1 .. b : text[k] = "close"
        /\ \A k \in b + 1 .. j : text[k] = "space"
  BY DEF IsEnd, Ending, AllIn
<1>3. j = Len(text) \/ text[j + 1] # "space" BY DEF IsEnd
<1>4. /\ j \in DOMAIN text /\ text[j] = "space"
      /\ a \in 1 .. j - 1 /\ b \in 1 .. j - 1 /\ text[a] = "stop" /\ i < j
  BY <1>1, <1>2
<1> HIDE DEF Char
<1> QED BY <1>2, <1>3, <1>4 DEF Boundaries, AllIn

(* Every boundary ends a match that starts at its last stop, behind the     *)
(* boundary before it.                                                      *)
LEMMA StopBehind ==
  ASSUME NEW text \in Seq(Char), NEW p \in 1 .. Len(text) + 1,
         p = 1 \/ p - 1 \in Boundaries(text),
         NEW j \in Boundaries(text), j >= p
  PROVE  \E i \in p .. j - 1 : text[i] = "stop" /\ IsEnd(text, i, j)
<1> DEFINE n == Len(text)
<1>1. n \in Nat /\ DOMAIN text = 1 .. n OBVIOUS
<1>2. /\ j \in 1 .. n
      /\ text[j] = "space" /\ (j = n \/ text[j + 1] # "space")
  BY <1>1 DEF Boundaries
<1>3. PICK i \in 1 .. j - 1, b \in 1 .. j - 1 :
        /\ i <= b /\ text[i] = "stop"
        /\ \A k \in i + 1 .. b : text[k] = "close"
        /\ \A k \in b + 1 .. j : text[k] = "space"
  BY DEF Boundaries, AllIn
<1>4. /\ i \in Int /\ b \in Int /\ j \in Int /\ p \in Int
      /\ 1 <= i /\ i <= b /\ b <= j - 1 /\ 1 <= p /\ p <= j /\ j <= n
  <2> HIDE DEF n
  <2>1. j \in Int /\ j <= n BY <1>1, <1>2
  <2>2. i \in Int /\ b \in Int /\ 1 <= i /\ b <= j - 1 BY <2>1
  <2>3. p \in Int /\ 1 <= p BY <1>1 DEF n
  <2>4. i <= b BY <1>3
  <2> QED BY <2>1, <2>2, <2>3, <2>4
<1> HIDE DEF n
<1>5. ASSUME i < p PROVE FALSE
  <2>1. p # 1 BY <1>4, <1>5
  <2>2. p - 1 \in Boundaries(text) BY <2>1
  <2>3. /\ text[p - 1] = "space"
        /\ p - 1 = n \/ text[(p - 1) + 1] # "space"
    BY <2>2 DEF Boundaries, n
  <2>4. text[p] # "space"
    <3>1. p - 1 # n /\ (p - 1) + 1 = p BY <1>1, <1>4
    <3> QED BY <2>3, <3>1
  <2>5. i # p - 1 BY <1>3, <2>3
  <2>6. p - 1 \notin i + 1 .. b BY <1>3, <2>3
  <2>7. p \in b + 1 .. j BY <1>4, <1>5, <2>5, <2>6
  <2> QED BY <1>3, <2>4, <2>7
<1>6. Ending(text, i, j)
  <2>1. i \in i .. j /\ b \in i .. j /\ b < j BY <1>4
  <2>2. \A k \in i .. i : k = i BY <1>4
  <2>3. \A k \in i .. i : text[k] = "stop" BY <1>3, <2>2
  <2> QED BY <1>3, <2>1, <2>3 DEF Ending, AllIn
<1>7. i \in p .. j - 1 BY <1>4, <1>5
<1>8. IsEnd(text, i, j) BY <1>2, <1>6 DEF IsEnd, n
<1> QED BY <1>3, <1>7, <1>8

(* A match that starts later ends no earlier.                               *)
LEMMA EndsInOrder ==
  ASSUME NEW text \in Seq(Char), NEW i \in 1 .. Len(text),
         NEW j \in i .. Len(text), NEW i2 \in i .. Len(text),
         NEW j2 \in i2 .. Len(text), IsEnd(text, i, j), IsEnd(text, i2, j2)
  PROVE  j <= j2
<1>1. Len(text) \in Nat OBVIOUS
<1>2. PICK a \in i .. j, b \in i .. j :
        /\ a <= b /\ b < j
        /\ \A k \in i .. a : text[k] = "stop"
        /\ \A k \in a + 1 .. b : text[k] = "close"
        /\ \A k \in b + 1 .. j : text[k] = "space"
  BY DEF IsEnd, Ending, AllIn
<1>3. j2 \in Boundaries(text) BY <1>1, EndIsBoundary
<1>4. text[j2] = "space" /\ (j2 = Len(text) \/ text[j2 + 1] # "space")
  BY <1>3 DEF Boundaries
<1>5. ASSUME j2 < j PROVE FALSE
  <2>1. /\ i \in Int /\ j \in Int /\ j2 \in Int /\ a \in Int /\ b \in Int
        /\ i <= j2 /\ j2 < j /\ j <= Len(text) /\ i <= a /\ a <= b /\ b < j
    BY <1>1, <1>2, <1>5
  <2>2. j2 \notin i .. a /\ j2 \notin a + 1 .. b BY <1>2, <1>4
  <2>3. j2 + 1 \in b + 1 .. j /\ j2 # Len(text) BY <1>1, <2>1, <2>2
  <2> QED BY <1>2, <1>4, <2>3
<1> QED BY <1>1, <1>5

(* The boundaries from p on.                                                *)
From(text, p) == {j \in Boundaries(text) : j >= p}

(* The leftmost match from the start or a boundary on ends at the next      *)
(* boundary.                                                                *)
LEMMA FirstEndIs ==
  ASSUME NEW text \in Seq(Char), NEW p \in 1 .. Len(text) + 1,
         p = 1 \/ p - 1 \in Boundaries(text)
  PROVE  /\ From(text, p) = {} => FirstEnd(text, p) = 0
         /\ From(text, p) # {} =>
              /\ FirstEnd(text, p) \in From(text, p)
              /\ \A j \in From(text, p) : FirstEnd(text, p) <= j
<1> DEFINE starts == {i \in p .. Len(text) :
                        \E j \in i .. Len(text) : IsEnd(text, i, j)}
           first == CHOOSE k \in starts : \A l \in starts : k <= l
           e == CHOOSE j \in first .. Len(text) : IsEnd(text, first, j)
<1>1. Len(text) \in Nat OBVIOUS
<1>2. FirstEnd(text, p) = IF starts = {} THEN 0 ELSE e BY DEF FirstEnd
<1>3. ASSUME NEW j \in From(text, p)
      PROVE  \E i \in starts : j \in i .. Len(text) /\ IsEnd(text, i, j)
  <2>4. j \in Boundaries(text) /\ j >= p BY DEF From
  <2>5. j \in DOMAIN text BY <2>4 DEF Boundaries
  <2>1. j \in Boundaries(text) /\ j >= p /\ j \in 1 .. Len(text)
    BY <2>4, <2>5
  <2>2. PICK i \in p .. j - 1 : IsEnd(text, i, j) BY <2>1, StopBehind
  <2>3. i \in p .. Len(text) /\ j \in i .. Len(text) BY <1>1, <2>1
  <2> QED BY <2>2, <2>3
<1>4. ASSUME NEW i \in starts, NEW j \in i .. Len(text), IsEnd(text, i, j)
      PROVE  j \in From(text, p)
  <2>1. i \in 1 .. Len(text) /\ j >= p BY <1>1
  <2>2. j \in Boundaries(text) BY <1>4, <2>1, EndIsBoundary
  <2> QED BY <2>1, <2>2 DEF From
<1>5. CASE From(text, p) = {}
  <2>1. starts = {} BY <1>4, <1>5
  <2> QED BY <1>2, <1>5, <2>1
<1>6. CASE From(text, p) # {}
  <2>1. starts # {} BY <1>3, <1>6
  <2>2. starts \subseteq Nat BY <1>1
  <2>3. first \in starts /\ \A l \in starts : first <= l
    <3> HIDE DEF starts
    <3>1. \E m \in starts : \A k \in starts : m <= k
      BY <2>1, <2>2, LeastNatural
    <3> QED BY <3>1
  <2>4. e \in first .. Len(text) /\ IsEnd(text, first, e)
    <3>1. \E j \in first .. Len(text) : IsEnd(text, first, j) BY <2>3
    <3> HIDE DEF first, starts
    <3> QED BY <3>1
  <2>5. e \in From(text, p)
    <3> HIDE DEF first, e
    <3> QED BY <1>4, <2>3, <2>4
  <2>6. ASSUME NEW j \in From(text, p) PROVE e <= j
    <3>1. PICK i \in starts : j \in i .. Len(text) /\ IsEnd(text, i, j)
      BY <1>3
    <3>2. first \in 1 .. Len(text) /\ i \in first .. Len(text)
      <4> HIDE DEF first
      <4> QED BY <1>1, <2>3, <3>1
    <3> HIDE DEF first, e, starts
    <3> QED BY <2>4, <3>1, <3>2, EndsInOrder
  <2> HIDE DEF e, starts
  <2> QED BY <1>2, <1>6, <2>1, <2>5, <2>6
<1> QED BY <1>5, <1>6

(* Matching does not look beyond the match: it is the same wherever the     *)
(* same characters stand.                                                   *)
LEMMA EndingMoves ==
  ASSUME NEW v, NEW w, NEW d \in Int, NEW i \in Nat, NEW j \in Nat,
         \A k \in i .. j : w[k + d] = v[k], Ending(v, i, j)
  PROVE  Ending(w, i + d, j + d)
<1>1. PICK a \in i .. j, b \in i .. j :
        /\ a <= b /\ b < j
        /\ \A k \in i .. a : v[k] = "stop"
        /\ \A k \in a + 1 .. b : v[k] = "close"
        /\ \A k \in b + 1 .. j : v[k] = "space"
  BY DEF Ending, AllIn
<1>2. /\ a + d \in i + d .. j + d /\ b + d \in i + d .. j + d
      /\ a + d <= b + d /\ b + d < j + d
  BY <1>1
<1>3. ASSUME NEW from \in i .. j + 1, NEW to \in i .. j, NEW class,
             \A k \in from .. to : v[k] = class
      PROVE  \A k \in from + d .. to + d : w[k] = class
  <2> SUFFICES ASSUME NEW k \in from + d .. to + d PROVE w[k] = class
    OBVIOUS
  <2>1. k - d \in from .. to /\ k - d \in i .. j /\ (k - d) + d = k OBVIOUS
  <2> QED BY <1>3, <2>1
<1>4. AllIn(w, i + d, a + d, "stop")
  <2>1. i \in i .. j + 1 BY <1>1
  <2> QED BY <1>1, <1>3, <2>1 DEF AllIn
<1>5. AllIn(w, (a + d) + 1, b + d, "close")
  <2>1. a + 1 \in i .. j + 1 /\ (a + d) + 1 = (a + 1) + d BY <1>1
  <2> QED BY <1>1, <1>3, <2>1 DEF AllIn
<1>6. AllIn(w, (b + d) + 1, j + d, "space")
  <2>1. b + 1 \in i .. j + 1 /\ (b + d) + 1 = (b + 1) + d /\ j \in i .. j
    BY <1>1
  <2> QED BY <1>1, <1>3, <2>1 DEF AllIn
<1> QED BY <1>2, <1>4, <1>5, <1>6 DEF Ending

(* What follows the place e of a text.                                      *)
Behind(text, e) == SubSeq(text, e + 1, Len(text))

(* Its characters.                                                          *)
LEMMA BehindIs ==
  ASSUME NEW text \in Seq(Char), NEW e \in 0 .. Len(text)
  PROVE  /\ Behind(text, e) \in Seq(Char)
         /\ Len(Behind(text, e)) = Len(text) - e
         /\ \A k \in 1 .. Len(text) - e : Behind(text, e)[k] = text[e + k]
<1> DEFINE n == Len(text)
<1>1. n \in Nat /\ e + 1 \in Int /\ DOMAIN text = 1 .. n OBVIOUS
<1>2. \A i \in e + 1 .. n : text[i] \in Char
  <2> HIDE DEF Char
  <2>1. \A i \in 1 .. n : text[i] \in Char OBVIOUS
  <2>2. \A i \in e + 1 .. n : i \in 1 .. n BY <1>1
  <2> QED BY <2>1, <2>2
<1> HIDE DEF n, Char
<1>3. /\ SubSeq(text, e + 1, n) \in Seq(Char)
      /\ Len(SubSeq(text, e + 1, n)) = IF e + 1 <= n THEN n - (e + 1) + 1 ELSE 0
      /\ \A i \in 1 .. n - (e + 1) + 1 :
           SubSeq(text, e + 1, n)[i] = text[(e + 1) + i - 1]
  BY <1>1, <1>2, SubSeqProperties
<1>4. /\ n - (e + 1) + 1 = n - e
      /\ (IF e + 1 <= n THEN n - (e + 1) + 1 ELSE 0) = n - e
      /\ \A i \in 1 .. n - e : (e + 1) + i - 1 = e + i
  <2>1. e \in 0 .. n BY DEF n
  <2> QED BY <1>1, <2>1
<1> QED BY <1>3, <1>4 DEF Behind, n

(* The matches behind a place are those of the rest.                        *)
LEMMA EndBehind ==
  ASSUME NEW text \in Seq(Char), NEW e \in 0 .. Len(text),
         NEW i \in 1 .. Len(text) - e, NEW j \in i .. Len(text) - e
  PROVE  IsEnd(Behind(text, e), i, j) <=> IsEnd(text, e + i, e + j)
<1> DEFINE n == Len(text)
           v == Behind(text, e)
<1>1. n \in Nat /\ e \in 0 .. n OBVIOUS
<1>2. /\ Len(v) = n - e
      /\ \A k \in 1 .. n - e : v[k] = text[e + k]
  BY BehindIs
<1>3. i \in 1 .. n - e /\ j \in i .. n - e OBVIOUS
<1> HIDE DEF n, v
<1>4. /\ i \in Nat /\ j \in Nat /\ e + i \in Nat /\ e + j \in Nat
      /\ e \in Int /\ -e \in Int /\ e + i = i + e /\ e + j = j + e
      /\ (e + i) + (-e) = i /\ (e + j) + (-e) = j
  BY <1>1, <1>3
<1>5. ASSUME Ending(v, i, j) PROVE Ending(text, e + i, e + j)
  <2>1. \A k \in i .. j : text[k + e] = v[k]
    <3>1. \A k \in i .. j : k \in 1 .. n - e /\ k + e = e + k BY <1>1, <1>3
    <3> QED BY <1>2, <3>1
  <2>2. Ending(text, i + e, j + e) BY <1>4, <1>5, <2>1, EndingMoves
  <2> QED BY <1>4, <2>2
<1>6. ASSUME Ending(text, e + i, e + j) PROVE Ending(v, i, j)
  <2>1. \A k \in e + i .. e + j : v[k + (-e)] = text[k]
    <3>1. \A k \in e + i .. e + j :
             k + (-e) \in 1 .. n - e /\ e + (k + (-e)) = k
      BY <1>1, <1>3
    <3> QED BY <1>2, <3>1
  <2>2. Ending(v, (e + i) + (-e), (e + j) + (-e))
    BY <1>4, <1>6, <2>1, EndingMoves
  <2> QED BY <1>4, <2>2
<1>7. (j = Len(v) \/ v[j + 1] # "space")
      <=> (e + j = Len(text) \/ text[(e + j) + 1] # "space")
  <2>1. j = n - e <=> e + j = n BY <1>1, <1>3
  <2>2. j # n - e => j + 1 \in 1 .. n - e /\ e + (j + 1) = (e + j) + 1
    BY <1>1, <1>3
  <2> QED BY <1>2, <2>1, <2>2 DEF n
<1> QED BY <1>5, <1>6, <1>7 DEF IsEnd, v

(* A boundary ends a match of a text as a whole, a match a boundary.        *)
LEMMA BoundaryIsEnd ==
  ASSUME NEW text \in Seq(Char), NEW j
  PROVE  j \in Boundaries(text)
         <=> /\ j \in 1 .. Len(text)
             /\ \E i \in 1 .. j - 1 : text[i] = "stop" /\ IsEnd(text, i, j)
<1>1. Len(text) \in Nat /\ DOMAIN text = 1 .. Len(text) OBVIOUS
<1>2. ASSUME j \in Boundaries(text)
      PROVE  /\ j \in 1 .. Len(text)
             /\ \E i \in 1 .. j - 1 : text[i] = "stop" /\ IsEnd(text, i, j)
  <2>1. j \in 1 .. Len(text) BY <1>1, <1>2 DEF Boundaries
  <2>2. 1 \in 1 .. Len(text) + 1 /\ j >= 1 BY <1>1, <2>1
  <2> QED BY <1>2, <2>1, <2>2, StopBehind
<1>3. ASSUME j \in 1 .. Len(text), NEW i \in 1 .. j - 1, IsEnd(text, i, j)
      PROVE  j \in Boundaries(text)
  <2>1. i \in 1 .. Len(text) /\ j \in i .. Len(text) BY <1>1, <1>3
  <2> QED BY <1>3, <2>1, EndIsBoundary
<1> QED BY <1>2, <1>3

(* Cut behind a boundary, or where no stop has been yet, a text has the     *)
(* boundaries of its rest.                                                  *)
LEMMA BoundariesBehind ==
  ASSUME NEW text \in Seq(Char), NEW e \in 0 .. Len(text),
         e \in Boundaries(text) \/ \A k \in 1 .. e : text[k] # "stop"
  PROVE  \A j \in 1 .. Len(text) - e :
           j \in Boundaries(Behind(text, e)) <=> e + j \in Boundaries(text)
<1> DEFINE n == Len(text)
           v == Behind(text, e)
<1>1. n \in Nat /\ e \in 0 .. n OBVIOUS
<1>2. /\ v \in Seq(Char) /\ Len(v) = n - e
      /\ \A k \in 1 .. n - e : v[k] = text[e + k]
  BY BehindIs
<1> HIDE DEF v
<1> SUFFICES ASSUME NEW j \in 1 .. n - e
             PROVE  j \in Boundaries(v) <=> e + j \in Boundaries(text)
  BY DEF v
<1>3. ASSUME j \in Boundaries(v) PROVE e + j \in Boundaries(text)
  <2>1. PICK i \in 1 .. j - 1 : IsEnd(v, i, j)
    BY <1>2, <1>3, BoundaryIsEnd
  <2>2. i \in 1 .. n - e /\ j \in i .. n - e BY <1>1
  <2>3. IsEnd(text, e + i, e + j) BY <2>1, <2>2, EndBehind DEF v
  <2>4. e + i \in 1 .. n /\ e + j \in e + i .. n BY <1>1, <2>2
  <2> QED BY <2>3, <2>4, EndIsBoundary
<1>4. ASSUME e + j \in Boundaries(text) PROVE j \in Boundaries(v)
  <2>1. PICK i \in e + 1 .. (e + j) - 1 : IsEnd(text, i, e + j)
    <3>1. CASE e \in Boundaries(text)
      <4>1. /\ e + 1 \in 1 .. n + 1 /\ (e + 1) - 1 = e /\ e + j >= e + 1
        BY <1>1
      <4> QED BY <1>4, <3>1, <4>1, StopBehind
    <3>2. CASE \A k \in 1 .. e : text[k] # "stop"
      <4>1. PICK i \in 1 .. (e + j) - 1 :
              text[i] = "stop" /\ IsEnd(text, i, e + j)
        BY <1>4, BoundaryIsEnd
      <4>2. i \notin 1 .. e BY <3>2, <4>1
      <4>3. i \in e + 1 .. (e + j) - 1 BY <1>1, <4>2
      <4> QED BY <4>1, <4>3
    <3> QED BY <3>1, <3>2
  <2>2. /\ i - e \in 1 .. j - 1 /\ i - e \in 1 .. n - e
        /\ j \in i - e .. n - e /\ e + (i - e) = i
    BY <1>1
  <2>3. IsEnd(v, i - e, j) BY <2>1, <2>2, EndBehind DEF v
  <2>4. i - e \in 1 .. Len(v) /\ j \in i - e .. Len(v) BY <1>2, <2>2
  <2> QED BY <1>2, <2>3, <2>4, EndIsBoundary
<1> QED BY <1>3, <1>4

(* The characters that are no spaces.                                       *)
Ink(text) == {k \in DOMAIN text : text[k] # "space"}

(* Strip is the empty text, or the text from its first to its last          *)
(* character that is no space.                                              *)
LEMMA StripIs ==
  ASSUME NEW text \in Seq(Char)
  PROVE  /\ Ink(text) = {} => Strip(text) = <<>>
         /\ Ink(text) # {} =>
              \E k, l \in Ink(text) :
                /\ \A i \in Ink(text) : k <= i /\ i <= l
                /\ Strip(text) = SubSeq(text, k, l)
<1> DEFINE ink == Ink(text)
           first == CHOOSE k \in ink : \A l \in ink : k <= l
           last == CHOOSE k \in ink : \A l \in ink : k >= l
<1>1. Strip(text) = IF ink = {} THEN <<>> ELSE SubSeq(text, first, last)
  BY DEF Strip, Ink
<1>2. Len(text) \in Nat /\ ink \subseteq 1 .. Len(text)
  BY DEF Ink
<1>3. ASSUME ink # {}
      PROVE  /\ first \in ink /\ \A l \in ink : first <= l
             /\ last \in ink /\ \A l \in ink : last >= l
  <2>1. ink \subseteq Nat /\ \A k \in ink : k <= Len(text) BY <1>2
  <2> HIDE DEF ink
  <2>2. \E m \in ink : \A k \in ink : m <= k BY <1>3, <2>1, LeastNatural
  <2>3. \E m \in ink : \A k \in ink : m >= k
    BY <1>2, <1>3, <2>1, GreatestNatural
  <2> QED BY <2>2, <2>3
<1>4. ASSUME ink # {}
      PROVE  \E k, l \in ink :
               /\ \A i \in ink : k <= i /\ i <= l
               /\ Strip(text) = SubSeq(text, k, l)
  <2>1. Strip(text) = SubSeq(text, first, last) BY <1>1, <1>4
  <2>2. \A i \in ink : last >= i => i <= last
    <3>1. last \in ink BY <1>3, <1>4
    <3>2. last \in Int /\ \A i \in ink : i \in Int BY <1>2, <3>1
    <3> HIDE DEF last, ink
    <3> QED BY <3>2
  <2> HIDE DEF first, last, ink
  <2> QED BY <1>3, <1>4, <2>1, <2>2
<1> HIDE DEF first, last
<1> QED BY <1>1, <1>4

(* What is stripped is a text, and not empty if anything is left.           *)
LEMMA StripType ==
  ASSUME NEW text \in Seq(Char)
  PROVE  /\ Strip(text) \in Seq(Char)
         /\ Ink(text) # {} => Strip(text) # <<>>
<1>1. CASE Ink(text) = {} BY <1>1, StripIs, EmptySeq
<1>2. CASE Ink(text) # {}
  <2>1. PICK k \in Ink(text), l \in Ink(text) :
          /\ \A i \in Ink(text) : k <= i /\ i <= l
          /\ Strip(text) = SubSeq(text, k, l)
    BY <1>2, StripIs
  <2>2. Len(text) \in Nat /\ k \in 1 .. Len(text) /\ l \in 1 .. Len(text)
    BY DEF Ink
  <2>3. k <= l BY <2>1
  <2>4. \A i \in k .. l : text[i] \in Char
    <3>1. \A i \in k .. l : i \in 1 .. Len(text) BY <2>2
    <3> HIDE DEF Char
    <3> QED BY <3>1, ElementOfSeq
  <2>5. k \in Int /\ l \in Int BY <2>2
  <2> HIDE DEF Char
  <2>6. /\ SubSeq(text, k, l) \in Seq(Char)
        /\ Len(SubSeq(text, k, l)) = IF k <= l THEN l - k + 1 ELSE 0
    BY <2>4, <2>5, SubSeqProperties
  <2>7. Len(SubSeq(text, k, l)) # 0 BY <2>3, <2>5, <2>6
  <2>8. Len(<<>>) = 0 BY EmptySeq
  <2> QED BY <2>1, <2>6, <2>7, <2>8
<1> QED BY <1>1, <1>2

(* y is x with spaces around it.                                            *)
Padded(x, y, d) ==
  /\ d + Len(x) <= Len(y)
  /\ \A k \in 1 .. Len(x) : y[d + k] = x[k]
  /\ \A k \in 1 .. Len(y) : k <= d \/ k > d + Len(x) => y[k] = "space"

(* Spaces around a text make no difference.                                 *)
LEMMA StripPadded ==
  ASSUME NEW x \in Seq(Char), NEW y \in Seq(Char), NEW d \in Nat, Padded(x, y, d)
  PROVE  Strip(y) = Strip(x)
<1> DEFINE m == Len(x)
           n == Len(y)
<1>1. /\ m \in Nat /\ n \in Nat /\ DOMAIN x = 1 .. m /\ DOMAIN y = 1 .. n
  OBVIOUS
<1>2. /\ d + m <= n
      /\ \A k \in 1 .. m : y[d + k] = x[k]
      /\ \A k \in 1 .. n : k <= d \/ k > d + m => y[k] = "space"
  BY DEF Padded
<1>3. ASSUME NEW k \in Ink(x) PROVE d + k \in Ink(y) /\ k \in 1 .. m
  <2>1. k \in 1 .. m /\ x[k] # "space" BY <1>1 DEF Ink
  <2> HIDE DEF m, n
  <2>2. d + k \in 1 .. n BY <1>1, <1>2, <2>1
  <2> QED BY <1>1, <1>2, <2>1, <2>2 DEF Ink
<1>4. ASSUME NEW k \in Ink(y) PROVE k - d \in Ink(x) /\ k \in Int
  <2>1. k \in 1 .. n /\ y[k] # "space" BY <1>1 DEF Ink
  <2> HIDE DEF m, n
  <2>2. ~(k <= d \/ k > d + m) BY <1>2, <2>1
  <2>3. k - d \in 1 .. m /\ d + (k - d) = k /\ k \in Int
    BY <1>1, <2>1, <2>2
  <2>4. x[k - d] = y[k] BY <1>2, <2>3
  <2> QED BY <1>1, <2>1, <2>3, <2>4 DEF Ink
<1>5. CASE Ink(x) = {}
  <2>1. Ink(y) = {} BY <1>4, <1>5
  <2> QED BY <1>5, <2>1, StripIs
<1>6. CASE Ink(x) # {}
  <2>1. PICK k \in Ink(x), l \in Ink(x) :
          /\ \A i \in Ink(x) : k <= i /\ i <= l
          /\ Strip(x) = SubSeq(x, k, l)
    BY <1>6, StripIs
  <2>2. Ink(y) # {} BY <1>3, <1>6
  <2>3. PICK k2 \in Ink(y), l2 \in Ink(y) :
          /\ \A i \in Ink(y) : k2 <= i /\ i <= l2
          /\ Strip(y) = SubSeq(y, k2, l2)
    BY <2>2, StripIs
  <2>4. /\ k \in 1 .. m /\ l \in 1 .. m /\ k2 \in Int /\ l2 \in Int
    BY <1>3, <1>4
  <2>5. k2 <= d + k /\ d + l <= l2 BY <1>3, <2>3
  <2>6. k <= k2 - d /\ l2 - d <= l BY <1>4, <2>1
  <2> HIDE DEF m, n
  <2>7. k2 = d + k /\ l2 = d + l BY <1>1, <2>4, <2>5, <2>6
  <2>8. k \in Int /\ l \in Int /\ k2 - d = k /\ l2 - d = l
    BY <1>1, <2>4, <2>7
  <2>9. SubSeq(y, k2, l2) = SubSeq(x, k, l)
    <3> DEFINE p == SubSeq(y, k2, l2)
               q == SubSeq(x, k, l)
    <3>1. \A i \in k .. l : i \in 1 .. m BY <1>1, <2>4
    <3>2. \A i \in k .. l : x[i] \in Char
      <4> HIDE DEF Char
      <4> QED BY <3>1, ElementOfSeq DEF m
    <3>3. \A i \in k2 .. l2 : i - d \in 1 .. m /\ d + (i - d) = i
      BY <1>1, <2>4, <2>7
    <3>4. \A i \in k2 .. l2 : y[i] = x[i - d] /\ i - d \in k .. l
      BY <1>2, <2>4, <2>7, <3>3
    <3>5. \A i \in k2 .. l2 : y[i] \in Char BY <3>2, <3>4
    <3> HIDE DEF Char
    <3>6. /\ q \in Seq(Char)
          /\ Len(q) = IF k <= l THEN l - k + 1 ELSE 0
          /\ \A i \in 1 .. l - k + 1 : q[i] = x[k + i - 1]
      BY <2>8, <3>2, SubSeqProperties
    <3>7. /\ p \in Seq(Char)
          /\ Len(p) = IF k2 <= l2 THEN l2 - k2 + 1 ELSE 0
          /\ \A i \in 1 .. l2 - k2 + 1 : p[i] = y[k2 + i - 1]
      BY <2>4, <3>5, SubSeqProperties
    <3>8. k <= l BY <2>1
    <3>9. /\ Len(p) = Len(q) /\ Len(q) = l - k + 1 /\ l2 - k2 + 1 = l - k + 1
      BY <2>7, <2>8, <3>6, <3>7, <3>8
    <3>10. ASSUME NEW i \in 1 .. l - k + 1 PROVE p[i] = q[i]
      <4>1. /\ k + i - 1 \in 1 .. m /\ k2 + i - 1 = d + (k + i - 1)
        BY <1>1, <2>4, <2>7
      <4>2. p[i] = y[k2 + i - 1] /\ q[i] = x[k + i - 1]
        BY <3>6, <3>7, <3>9
      <4> QED BY <1>2, <4>1, <4>2
    <3> HIDE DEF p, q
    <3>11. p = q BY <3>6, <3>7, <3>9, <3>10, SeqEqual
    <3> QED BY <3>11 DEF p, q
  <2> QED BY <2>1, <2>3, <2>9
<1> QED BY <1>5, <1>6

(* What draining returns.                                                   *)
Drained == [out : Seq(Seq(Char)), rest : Seq(Char)]

(* The recursive function of DrainSentences.                                *)
ScanFrom(text, f, p) ==
  LET e == FirstEnd(text, p)
  IN IF e = 0 THEN [out |-> <<>>, rest |-> SubSeq(text, p, Len(text))]
     ELSE [f[e + 1] EXCEPT !.out = <<Strip(SubSeq(text, p, e))>> \o @]

IsScan(text, f, n) ==
  /\ f \in [n .. Len(text) + 1 -> Drained]
  /\ \A p \in n .. Len(text) + 1 : f[p] = ScanFrom(text, f, p)

(* A match is found behind the place where the search starts.               *)
LEMMA FirstEndLater ==
  ASSUME NEW text \in Seq(Char), NEW p \in 1 .. Len(text) + 1
  PROVE  FirstEnd(text, p) = 0 \/ FirstEnd(text, p) \in p .. Len(text)
<1> DEFINE starts == {i \in p .. Len(text) :
                        \E j \in i .. Len(text) : IsEnd(text, i, j)}
           first == CHOOSE k \in starts : \A l \in starts : k <= l
           e == CHOOSE j \in first .. Len(text) : IsEnd(text, first, j)
<1>1. Len(text) \in Nat OBVIOUS
<1>2. FirstEnd(text, p) = IF starts = {} THEN 0 ELSE e BY DEF FirstEnd
<1>3. ASSUME starts # {} PROVE e \in p .. Len(text)
  <2>1. starts \subseteq Nat BY <1>1
  <2>2. first \in starts
    <3> HIDE DEF starts
    <3>1. \E m \in starts : \A k \in starts : m <= k
      BY <1>3, <2>1, LeastNatural
    <3> QED BY <3>1
  <2>3. first \in p .. Len(text)
        /\ \E j \in first .. Len(text) : IsEnd(text, first, j)
    BY <2>2
  <2> HIDE DEF first, starts
  <2>4. e \in first .. Len(text) BY <2>3
  <2> QED BY <1>1, <2>3, <2>4
<1> HIDE DEF starts, e
<1> QED BY <1>2, <1>3

(* What one place of the scan takes from the places behind it.              *)
LEMMA ScanFromType ==
  ASSUME NEW text \in Seq(Char), NEW p \in 1 .. Len(text) + 1, NEW f,
         \A q \in p + 1 .. Len(text) + 1 : f[q] \in Drained
  PROVE  /\ ScanFrom(text, f, p) \in Drained
         /\ \A g : (\A q \in p + 1 .. Len(text) + 1 : g[q] = f[q])
                     => ScanFrom(text, g, p) = ScanFrom(text, f, p)
<1> DEFINE n == Len(text)
           e == FirstEnd(text, p)
<1>1. n \in Nat /\ p \in 1 .. n + 1 OBVIOUS
<1>2. e = 0 \/ e \in p .. n BY FirstEndLater
<1>3. \A q \in p .. n + 1 : SubSeq(text, p, q - 1) \in Seq(Char)
  <2> SUFFICES ASSUME NEW q \in p .. n + 1
               PROVE  SubSeq(text, p, q - 1) \in Seq(Char)
    OBVIOUS
  <2>1. \A i \in p .. q - 1 : i \in 1 .. n BY <1>1
  <2> HIDE DEF Char
  <2>2. \A i \in p .. q - 1 : text[i] \in Char BY <2>1, ElementOfSeq DEF n
  <2>3. p \in Int /\ q - 1 \in Int BY <1>1
  <2> QED BY <2>2, <2>3, SubSeqProperties
<1> HIDE DEF Char, n, e
<1>4. CASE e = 0
  <2>1. \A g : ScanFrom(text, g, p) = [out |-> <<>>, rest |-> SubSeq(text, p, n)]
    BY <1>4 DEF ScanFrom, e, n
  <2>2. SubSeq(text, p, n) \in Seq(Char)
    <3>1. n + 1 \in p .. n + 1 /\ (n + 1) - 1 = n BY <1>1
    <3>2. SubSeq(text, p, (n + 1) - 1) \in Seq(Char) BY <1>3, <3>1
    <3> QED BY <3>1, <3>2
  <2>3. <<>> \in Seq(Seq(Char)) OBVIOUS
  <2>4. [out |-> <<>>, rest |-> SubSeq(text, p, n)] \in Drained
    BY <2>2, <2>3 DEF Drained
  <2> QED BY <2>1, <2>4
<1>5. CASE e # 0
  <2>1. e \in p .. n /\ e + 1 \in p + 1 .. n + 1 /\ (e + 1) - 1 = e
        /\ e + 1 \in p .. n + 1
    BY <1>1, <1>2, <1>5
  <2> DEFINE s == Strip(SubSeq(text, p, e))
  <2>2. \A g : ScanFrom(text, g, p) = [g[e + 1] EXCEPT !.out = <<s>> \o @]
    BY <1>5 DEF ScanFrom, e
  <2>3. s \in Seq(Char)
    <3>1. SubSeq(text, p, (e + 1) - 1) \in Seq(Char) BY <1>3, <2>1
    <3>2. SubSeq(text, p, e) \in Seq(Char) BY <2>1, <3>1
    <3> QED BY <3>2, StripType
  <2> HIDE DEF s
  <2>4. f[e + 1] \in Drained BY <2>1 DEF n
  <2>5. <<s>> \o f[e + 1].out \in Seq(Seq(Char))
    <3>1. <<s>> \in Seq(Seq(Char)) BY <2>3
    <3>2. f[e + 1].out \in Seq(Seq(Char)) BY <2>4 DEF Drained
    <3> QED BY <3>1, <3>2, ConcatProperties
  <2>6. [f[e + 1] EXCEPT !.out = <<s>> \o @] \in Drained
    BY <2>4, <2>5 DEF Drained
  <2>7. ASSUME NEW g, \A q \in p + 1 .. Len(text) + 1 : g[q] = f[q]
        PROVE  ScanFrom(text, g, p) = ScanFrom(text, f, p)
    <3>1. g[e + 1] = f[e + 1] BY <2>1, <2>7 DEF n
    <3> QED BY <2>2, <3>1
  <2> QED BY <2>2, <2>6, <2>7
<1> QED BY <1>4, <1>5

(* The recursion defines a function, place by place from the end.           *)
LEMMA ScanExists ==
  ASSUME NEW text \in Seq(Char)
  PROVE  \E f : IsScan(text, f, 1)
<1> DEFINE n == Len(text)
           T == {k \in Nat : k <= n => \E f : IsScan(text, f, n + 1 - k)}
<1>1. n \in Nat OBVIOUS
<1>2. ASSUME NEW m \in 1 .. n + 1, NEW f,
             \A p \in m + 1 .. n + 1 : /\ f[p] \in Drained
                                       /\ f[p] = ScanFrom(text, f, p)
      PROVE  \E g : IsScan(text, g, m)
  <2> DEFINE g == [p \in m .. n + 1 |->
                     IF p = m THEN ScanFrom(text, f, m) ELSE f[p]]
  <2>0. m \in 1 .. n + 1 OBVIOUS
  <2> HIDE DEF n
  <2>1. \A q \in m + 1 .. n + 1 : g[q] = f[q] /\ q \in m .. n + 1
    BY <1>1, <2>0
  <2>2. m \in m .. n + 1 /\ g[m] = ScanFrom(text, f, m) BY <1>1, <2>0
  <2>3. ScanFrom(text, f, m) \in Drained
        /\ ScanFrom(text, g, m) = ScanFrom(text, f, m)
    <3> HIDE DEF g
    <3> QED BY <1>2, <2>0, <2>1, ScanFromType DEF n
  <2>4. ASSUME NEW p \in m + 1 .. n + 1
        PROVE  g[p] \in Drained /\ g[p] = ScanFrom(text, g, p)
    <3>1. p \in 1 .. n + 1 /\ \A q \in p + 1 .. n + 1 : q \in m + 1 .. n + 1
      BY <1>1, <2>0
    <3>2. g[p] = f[p] BY <2>1
    <3>3. \A q \in p + 1 .. n + 1 : g[q] = f[q] /\ f[q] \in Drained
      BY <1>2, <2>1, <3>1
    <3> HIDE DEF g
    <3>4. ScanFrom(text, g, p) = ScanFrom(text, f, p)
      BY <3>1, <3>3, ScanFromType DEF n
    <3> QED BY <1>2, <3>2, <3>4
  <2>5. \A p \in m .. n + 1 : p = m \/ p \in m + 1 .. n + 1 BY <1>1, <2>0
  <2>6. \A p \in m .. n + 1 : g[p] \in Drained /\ g[p] = ScanFrom(text, g, p)
    <3> HIDE DEF g
    <3> QED BY <2>2, <2>3, <2>4, <2>5
  <2>7. g \in [m .. n + 1 -> Drained]
    <3>1. \A p \in m .. n + 1 :
            (IF p = m THEN ScanFrom(text, f, m) ELSE f[p]) \in Drained
      BY <2>6
    <3> QED BY <3>1, Zenon
  <2> HIDE DEF g
  <2> QED BY <2>6, <2>7 DEF IsScan, n
<1>3. 0 \in T
  <2>1. n + 1 \in 1 .. n + 1 /\ (n + 1) + 1 .. n + 1 = {} /\ n + 1 - 0 = n + 1
    BY <1>1
  <2>2. \E g : IsScan(text, g, n + 1) BY <1>2, <2>1
  <2> QED BY <2>1, <2>2
<1>4. ASSUME NEW k \in Nat, k \in T PROVE k + 1 \in T
  <2> SUFFICES ASSUME k + 1 <= n PROVE \E g : IsScan(text, g, n + 1 - (k + 1))
    OBVIOUS
  <2>1. PICK f : IsScan(text, f, n + 1 - k) BY <1>1, <1>4
  <2>2. /\ n + 1 - (k + 1) \in 1 .. n + 1
        /\ (n + 1 - (k + 1)) + 1 = n + 1 - k
    BY <1>1
  <2>3. \A p \in n + 1 - k .. n + 1 :
          f[p] \in Drained /\ f[p] = ScanFrom(text, f, p)
    BY <2>1 DEF IsScan
  <2> QED BY <1>2, <2>2, <2>3
<1>5. n \in T
  <2> HIDE DEF T
  <2> QED BY <1>1, <1>3, <1>4, SetInduction
<1>6. \E f : IsScan(text, f, n + 1 - n) BY <1>1, <1>5
<1>7. n + 1 - n = 1 BY <1>1
<1> HIDE DEF n
<1> QED BY <1>6, <1>7

(* Draining is the scan from the first character.                           *)
LEMMA DrainIsScan ==
  ASSUME NEW text \in Seq(Char)
  PROVE  \E f : IsScan(text, f, 1) /\ DrainSentences(text) = f[1]
<1> DEFINE D == 1 .. Len(text) + 1
           F == CHOOSE f : f = [p \in D |-> ScanFrom(text, f, p)]
<1>1. PICK g : IsScan(text, g, 1) BY ScanExists
<1>2. g = [p \in D |-> ScanFrom(text, g, p)]
  <2>1. g = [p \in D |-> g[p]] BY <1>1 DEF IsScan
  <2>2. \A p \in D : g[p] = ScanFrom(text, g, p) BY <1>1 DEF IsScan
  <2> HIDE DEF D
  <2> QED BY <2>1, <2>2
<1>3. F = [p \in D |-> ScanFrom(text, F, p)]
  <2> HIDE DEF D
  <2> QED BY <1>2
<1>4. DrainSentences(text) = F[1] BY DEF DrainSentences, ScanFrom
<1> DEFINE n == Len(text)
           T == {k \in Nat : \A p \in n + 1 - k .. n + 1 : p \in D => F[p] = g[p]}
<1>5. n \in Nat /\ D = 1 .. n + 1 OBVIOUS
<1> HIDE DEF F
<1>6. ASSUME NEW p \in D, \A q \in p + 1 .. n + 1 : F[q] = g[q]
      PROVE  F[p] = g[p]
  <2>1. \A q \in p + 1 .. n + 1 : q \in D BY <1>5
  <2>2. \A q \in p + 1 .. n + 1 : g[q] \in Drained BY <1>1, <2>1 DEF IsScan
  <2>3. F[p] = ScanFrom(text, F, p)
    <3> HIDE DEF D
    <3> QED BY <1>3
  <2>4. g[p] = ScanFrom(text, g, p) BY <1>1 DEF IsScan
  <2>5. ScanFrom(text, F, p) = ScanFrom(text, g, p)
    BY <1>5, <1>6, <2>2, ScanFromType
  <2> QED BY <2>3, <2>4, <2>5
<1> HIDE DEF D, n
<1>7. 0 \in T
  <2> SUFFICES ASSUME NEW p \in n + 1 - 0 .. n + 1, p \in D
               PROVE  F[p] = g[p]
    OBVIOUS
  <2>1. p + 1 .. n + 1 = {} BY <1>5
  <2> QED BY <1>6, <2>1
<1>8. ASSUME NEW k \in Nat, k \in T PROVE k + 1 \in T
  <2> SUFFICES ASSUME NEW p \in n + 1 - (k + 1) .. n + 1, p \in D
               PROVE  F[p] = g[p]
    OBVIOUS
  <2>1. \A q \in p + 1 .. n + 1 : q \in n + 1 - k .. n + 1 /\ q \in D
    BY <1>5
  <2>2. \A q \in p + 1 .. n + 1 : F[q] = g[q] BY <1>8, <2>1
  <2> QED BY <1>6, <2>2
<1>9. n + 1 \in T
  <2> HIDE DEF T
  <2>1. Nat \subseteq T BY <1>7, <1>8, SetInduction
  <2> QED BY <1>5, <2>1
<1>10. F[1] = g[1]
  <2>1. 1 \in n + 1 - (n + 1) .. n + 1 /\ 1 \in D BY <1>5
  <2> QED BY <1>9, <2>1
<1> QED BY <1>1, <1>4, <1>10

(* A piece of a text.                                                       *)
LEMMA PieceIs ==
  ASSUME NEW text \in Seq(Char), NEW p \in 1 .. Len(text) + 1,
         NEW q \in p - 1 .. Len(text)
  PROVE  /\ SubSeq(text, p, q) \in Seq(Char)
         /\ Len(SubSeq(text, p, q)) = q - p + 1
         /\ \A i \in 1 .. q - p + 1 : SubSeq(text, p, q)[i] = text[p + i - 1]
<1> DEFINE n == Len(text)
<1>1. n \in Nat /\ p \in 1 .. n + 1 /\ q \in p - 1 .. n OBVIOUS
<1>2. \A i \in 1 .. n : text[i] \in Char
  <2> HIDE DEF Char
  <2> QED BY ElementOfSeq
<1> HIDE DEF n, Char
<1>3. p \in Int /\ q \in Int /\ \A i \in p .. q : i \in 1 .. n BY <1>1
<1>4. /\ SubSeq(text, p, q) \in Seq(Char)
      /\ Len(SubSeq(text, p, q)) = IF p <= q THEN q - p + 1 ELSE 0
      /\ \A i \in 1 .. q - p + 1 : SubSeq(text, p, q)[i] = text[p + i - 1]
  BY <1>2, <1>3, SubSeqProperties, SMTT(30)
<1>5. (IF p <= q THEN q - p + 1 ELSE 0) = q - p + 1 BY <1>1
<1> QED BY <1>4, <1>5

(* A piece of what is behind a place.                                       *)
LEMMA PieceBehind ==
  ASSUME NEW text \in Seq(Char), NEW e \in 0 .. Len(text),
         NEW p \in 1 .. Len(text) - e + 1, NEW q \in p - 1 .. Len(text) - e
  PROVE  SubSeq(Behind(text, e), p, q) = SubSeq(text, e + p, e + q)
<1> DEFINE n == Len(text)
           v == Behind(text, e)
           x == SubSeq(v, p, q)
           y == SubSeq(text, e + p, e + q)
<1>1. /\ n \in Nat /\ e \in 0 .. n
      /\ p \in 1 .. n - e + 1 /\ q \in p - 1 .. n - e
  OBVIOUS
<1>2. /\ v \in Seq(Char) /\ Len(v) = n - e
      /\ \A k \in 1 .. n - e : v[k] = text[e + k]
  BY BehindIs
<1> HIDE DEF n, v
<1>3. /\ e + p \in 1 .. n + 1 /\ e + q \in (e + p) - 1 .. n
      /\ (e + q) - (e + p) + 1 = q - p + 1
  BY <1>1
<1>4. /\ x \in Seq(Char) /\ Len(x) = q - p + 1
      /\ \A i \in 1 .. q - p + 1 : x[i] = v[p + i - 1]
  BY <1>1, <1>2, PieceIs
<1>5. /\ y \in Seq(Char) /\ Len(y) = q - p + 1
      /\ \A i \in 1 .. q - p + 1 : y[i] = text[(e + p) + i - 1]
  <2>1. /\ y \in Seq(Char) /\ Len(y) = (e + q) - (e + p) + 1
        /\ \A i \in 1 .. (e + q) - (e + p) + 1 : y[i] = text[(e + p) + i - 1]
    BY <1>3, PieceIs DEF n
  <2> HIDE DEF y
  <2> QED BY <1>3, <2>1
<1> HIDE DEF x, y
<1>6. ASSUME NEW i \in 1 .. q - p + 1 PROVE x[i] = y[i]
  <2>1. p + i - 1 \in 1 .. n - e /\ e + (p + i - 1) = (e + p) + i - 1
    BY <1>1
  <2> QED BY <1>2, <1>4, <1>5, <2>1
<1>7. x = y BY <1>4, <1>5, <1>6, SeqEqual
<1> QED BY <1>7 DEF x, y, v

(* Draining a text without boundaries leaves it as it is; otherwise its     *)
(* first sentence comes out, and what comes out of the text behind it.      *)
LEMMA DrainStep ==
  ASSUME NEW text \in Seq(Char)
  PROVE  /\ Boundaries(text) = {} =>
              DrainSentences(text) = [out |-> <<>>, rest |-> text]
         /\ \A e \in Boundaries(text) :
              (\A j \in Boundaries(text) : e <= j) =>
                LET d == DrainSentences(Behind(text, e))
                IN /\ d \in Drained
                   /\ DrainSentences(text) =
                        [out |-> <<Strip(SubSeq(text, 1, e))>> \o d.out,
                         rest |-> d.rest]
<1> DEFINE n == Len(text)
<1>1. n \in Nat /\ 1 \in 1 .. n + 1 OBVIOUS
<1>2. PICK f : IsScan(text, f, 1) /\ DrainSentences(text) = f[1]
  BY DrainIsScan
<1>3. /\ f \in [1 .. n + 1 -> Drained]
      /\ \A p \in 1 .. n + 1 : f[p] = ScanFrom(text, f, p)
  BY <1>2 DEF IsScan
<1>4. Boundaries(text) \subseteq 1 .. n BY DEF Boundaries
<1>5. From(text, 1) = Boundaries(text)
  <2>1. \A j \in Boundaries(text) : j >= 1 BY <1>1, <1>4
  <2> QED BY <2>1 DEF From
<1> HIDE DEF n
<1>6. CASE Boundaries(text) = {}
  <2>1. FirstEnd(text, 1) = 0 BY <1>1, <1>5, <1>6, FirstEndIs DEF n
  <2>2. f[1] = [out |-> <<>>, rest |-> SubSeq(text, 1, n)]
    BY <1>1, <1>3, <2>1 DEF ScanFrom, n
  <2>3. SubSeq(text, 1, n) = text BY SubSeqFull DEF n
  <2> QED BY <1>2, <1>6, <2>2, <2>3
<1>7. ASSUME NEW e \in Boundaries(text), \A j \in Boundaries(text) : e <= j
      PROVE  LET d == DrainSentences(Behind(text, e))
             IN /\ d \in Drained
                /\ DrainSentences(text) =
                     [out |-> <<Strip(SubSeq(text, 1, e))>> \o d.out,
                      rest |-> d.rest]
  <2> DEFINE v == Behind(text, e)
             m == n - e
  <2>1. e \in 1 .. n /\ e \in 0 .. n /\ m \in Nat BY <1>1, <1>4
  <2>2. v \in Seq(Char) /\ Len(v) = m BY <2>1, BehindIs DEF n
  <2> HIDE DEF v, m
  <2>3. PICK g : IsScan(v, g, 1) /\ DrainSentences(v) = g[1]
    BY <2>2, DrainIsScan
  <2>4. /\ g \in [1 .. m + 1 -> Drained]
        /\ \A q \in 1 .. m + 1 : g[q] = ScanFrom(v, g, q)
    BY <2>2, <2>3 DEF IsScan
  <2>5. \A j \in 1 .. m : j \in Boundaries(v) <=> e + j \in Boundaries(text)
    BY <2>1, BoundariesBehind DEF v, m, n
  <2>6. ASSUME NEW q \in 1 .. m + 1, q = 1 \/ q - 1 \in Boundaries(v),
               \A r \in q + 1 .. m + 1 : r - 1 \in Boundaries(v) => g[r] = f[e + r]
        PROVE  g[q] = f[e + q]
    <3>1. /\ q \in 1 .. m + 1 /\ e + q \in 1 .. n + 1 /\ n = e + m
          /\ (e + q) - 1 = e + (q - 1)
      BY <1>1, <2>1 DEF m
    <3>2. (e + q) - 1 \in Boundaries(text)
      <4>1. CASE q = 1 BY <2>1, <3>1, <4>1
      <4>2. CASE q # 1
        <5>1. q - 1 \in 1 .. m BY <2>1, <3>1, <4>2
        <5> QED BY <2>5, <2>6, <3>1, <4>2, <5>1
      <4> QED BY <4>1, <4>2
    <3> DEFINE x == FirstEnd(v, q)
               y == FirstEnd(text, e + q)
    <3>3. /\ From(v, q) = {} => x = 0
          /\ From(v, q) # {} => /\ x \in From(v, q)
                                /\ \A j \in From(v, q) : x <= j
      BY <2>2, <2>6, <3>1, FirstEndIs
    <3>4. /\ From(text, e + q) = {} => y = 0
          /\ From(text, e + q) # {} => /\ y \in From(text, e + q)
                                       /\ \A j \in From(text, e + q) : y <= j
      BY <3>1, <3>2, FirstEndIs DEF n
    <3>5. Boundaries(v) \subseteq 1 .. m BY <2>2 DEF Boundaries
    <3>6. ASSUME NEW j \in From(v, q)
          PROVE  j \in q .. m /\ e + j \in From(text, e + q)
      <4>1. j \in Boundaries(v) /\ j >= q BY DEF From
      <4>2. j \in 1 .. m BY <3>5, <4>1
      <4>3. e + j >= e + q /\ j \in q .. m BY <2>1, <3>1, <4>1, <4>2
      <4> QED BY <2>5, <4>1, <4>2, <4>3 DEF From
    <3>7. ASSUME NEW j \in From(text, e + q)
          PROVE  j \in Int /\ j - e \in From(v, q)
      <4>1. j \in Boundaries(text) /\ j >= e + q BY DEF From
      <4>2. j \in 1 .. n BY <1>4, <4>1
      <4>3. j - e \in 1 .. m /\ e + (j - e) = j /\ j - e >= q
        BY <2>1, <3>1, <4>1, <4>2
      <4> QED BY <2>5, <4>1, <4>2, <4>3 DEF From
    <3>8. /\ g[q] = ScanFrom(v, g, q) /\ f[e + q] = ScanFrom(text, f, e + q)
      BY <1>3, <2>4, <3>1
    <3>9. CASE From(v, q) = {}
      <4>1. From(text, e + q) = {} BY <3>7, <3>9
      <4>2. x = 0 /\ y = 0 BY <3>3, <3>4, <3>9, <4>1
      <4>3. /\ g[q] = [out |-> <<>>, rest |-> SubSeq(v, q, m)]
            /\ f[e + q] = [out |-> <<>>, rest |-> SubSeq(text, e + q, n)]
        BY <2>2, <3>8, <4>2 DEF ScanFrom, n
      <4>4. SubSeq(v, q, m) = SubSeq(text, e + q, n)
        <5>1. m \in q - 1 .. m /\ e + m = n BY <2>1, <3>1
        <5> QED BY <2>1, <3>1, <5>1, PieceBehind DEF v, m, n
      <4> QED BY <4>3, <4>4
    <3>10. CASE From(v, q) # {}
      <4> HIDE DEF x, y
      <4>1. /\ x \in From(v, q) /\ \A j \in From(v, q) : x <= j
        BY <3>3, <3>10
      <4>2. x \in q .. m /\ e + x \in From(text, e + q) BY <3>6, <4>1
      <4>3. /\ y \in From(text, e + q)
            /\ \A j \in From(text, e + q) : y <= j
        BY <3>4, <4>2
      <4>4. y \in Int /\ y - e \in From(v, q) BY <3>7, <4>3
      <4>5. y <= e + x /\ x <= y - e BY <4>1, <4>2, <4>3, <4>4
      <4>6. y = e + x /\ x # 0 /\ y # 0 /\ (e + x) + 1 = e + (x + 1)
        BY <2>1, <3>1, <4>2, <4>4, <4>5
      <4>7. /\ g[q] = [g[x + 1] EXCEPT !.out = <<Strip(SubSeq(v, q, x))>> \o @]
            /\ f[e + q] = [f[e + (x + 1)] EXCEPT
                             !.out = <<Strip(SubSeq(text, e + q, e + x))>> \o @]
        BY <3>8, <4>6 DEF ScanFrom, x, y
      <4>8. SubSeq(v, q, x) = SubSeq(text, e + q, e + x)
        <5>1. x \in q - 1 .. m BY <3>1, <4>2
        <5> QED BY <2>1, <3>1, <5>1, PieceBehind DEF v, m, n
      <4>9. g[x + 1] = f[e + (x + 1)]
        <5>1. x + 1 \in q + 1 .. m + 1 /\ (x + 1) - 1 = x
          BY <2>1, <3>1, <4>2
        <5>2. x \in Boundaries(v) BY <4>1 DEF From
        <5> QED BY <2>6, <5>1, <5>2
      <4> QED BY <4>7, <4>8, <4>9
    <3> QED BY <3>9, <3>10
  <2>7. \A q \in 1 .. m + 1 :
          (q = 1 \/ q - 1 \in Boundaries(v)) => g[q] = f[e + q]
    <3> DEFINE Same(q) == (q = 1 \/ q - 1 \in Boundaries(v)) => g[q] = f[e + q]
               T == {k \in Nat : \A q \in m + 1 - k .. m + 1 :
                                   q \in 1 .. m + 1 => Same(q)}
    <3>1. ASSUME NEW q \in 1 .. m + 1, \A r \in q + 1 .. m + 1 : Same(r)
          PROVE  Same(q)
      <4>1. \A r \in q + 1 .. m + 1 : r - 1 \in Boundaries(v) => g[r] = f[e + r]
        BY <3>1
      <4> QED BY <2>6, <4>1
    <3> HIDE DEF Same
    <3>2. 0 \in T
      <4> SUFFICES ASSUME NEW q \in m + 1 - 0 .. m + 1, q \in 1 .. m + 1
                   PROVE  Same(q)
        OBVIOUS
      <4>1. q + 1 .. m + 1 = {} BY <2>1
      <4> QED BY <3>1, <4>1
    <3>3. ASSUME NEW k \in Nat, k \in T PROVE k + 1 \in T
      <4> SUFFICES ASSUME NEW q \in m + 1 - (k + 1) .. m + 1, q \in 1 .. m + 1
                   PROVE  Same(q)
        OBVIOUS
      <4>1. \A r \in q + 1 .. m + 1 : r \in m + 1 - k .. m + 1
                                       /\ r \in 1 .. m + 1
        BY <2>1
      <4>2. \A r \in q + 1 .. m + 1 : Same(r) BY <3>3, <4>1
      <4> QED BY <3>1, <4>2
    <3>4. m \in T
      <4> HIDE DEF T
      <4>1. Nat \subseteq T BY <3>2, <3>3, SetInduction
      <4> QED BY <2>1, <4>1
    <3>5. \A q \in 1 .. m + 1 : q \in m + 1 - m .. m + 1 BY <2>1
    <3> QED BY <3>4, <3>5 DEF Same
  <2>8. g[1] = f[e + 1] BY <2>1, <2>7
  <2>9. FirstEnd(text, 1) = e
    <3>1. FirstEnd(text, 1) \in Boundaries(text)
          /\ \A j \in Boundaries(text) : FirstEnd(text, 1) <= j
      BY <1>1, <1>5, FirstEndIs DEF n
    <3>2. FirstEnd(text, 1) <= e /\ e <= FirstEnd(text, 1) BY <1>7, <3>1
    <3>3. FirstEnd(text, 1) \in Int /\ e \in Int BY <1>4, <3>1
    <3> QED BY <3>2, <3>3
  <2>10. f[1] = [f[e + 1] EXCEPT !.out = <<Strip(SubSeq(text, 1, e))>> \o @]
    <3>1. f[1] = ScanFrom(text, f, 1) BY <1>1, <1>3
    <3>2. e # 0 BY <1>1, <2>1
    <3> QED BY <2>9, <3>1, <3>2 DEF ScanFrom
  <2>11. f[e + 1] \in Drained BY <1>1, <1>3, <2>1
  <2>12. f[1] = [out |-> <<Strip(SubSeq(text, 1, e))>> \o f[e + 1].out,
                 rest |-> f[e + 1].rest]
    BY <2>10, <2>11 DEF Drained
  <2> QED BY <1>2, <2>3, <2>8, <2>11, <2>12 DEF v
<1> QED BY <1>6, <1>7

(* What draining returns is a sequence of texts, and a text.                *)
LEMMA DrainType ==
  ASSUME NEW text \in Seq(Char)
  PROVE  DrainSentences(text) \in Drained
<1>1. PICK f : IsScan(text, f, 1) /\ DrainSentences(text) = f[1]
  BY DrainIsScan
<1>2. 1 \in 1 .. Len(text) + 1 OBVIOUS
<1> QED BY <1>1, <1>2 DEF IsScan

LeastBoundary(text, e) ==
  e \in Boundaries(text) /\ \A j \in Boundaries(text) : e <= j

(* The first of the boundaries.                                             *)
LEMMA LeastBoundaryExists ==
  ASSUME NEW text \in Seq(Char), Boundaries(text) # {}
  PROVE  \E e : LeastBoundary(text, e)
<1>1. Boundaries(text) \subseteq Nat
  <2>1. DOMAIN text \subseteq Nat OBVIOUS
  <2>2. Boundaries(text) \subseteq DOMAIN text BY DEF Boundaries
  <2> QED BY <2>1, <2>2
<1> QED BY <1>1, LeastNatural DEF LeastBoundary

(* Without a boundary nothing comes out.                                    *)
LEMMA DrainNone ==
  ASSUME NEW text \in Seq(Char), Boundaries(text) = {}
  PROVE  DrainSentences(text).out = <<>> /\ DrainSentences(text).rest = text
<1>1. DrainSentences(text) = [out |-> <<>>, rest |-> text] BY DrainStep
<1> QED BY <1>1

(* The first sentence, and those behind it.                                 *)
LEMMA DrainFirst ==
  ASSUME NEW text \in Seq(Char), NEW e, LeastBoundary(text, e)
  PROVE  /\ DrainSentences(text).out =
              <<Strip(SubSeq(text, 1, e))>> \o DrainSentences(Behind(text, e)).out
         /\ DrainSentences(text).rest = DrainSentences(Behind(text, e)).rest
<1> DEFINE d == DrainSentences(Behind(text, e))
<1>1. e \in Boundaries(text) /\ \A j \in Boundaries(text) : e <= j
  BY DEF LeastBoundary
<1>2. DrainSentences(text) = [out |-> <<Strip(SubSeq(text, 1, e))>> \o d.out,
                              rest |-> d.rest]
  BY <1>1, DrainStep
<1> HIDE DEF d
<1>3. /\ DrainSentences(text).out = <<Strip(SubSeq(text, 1, e))>> \o d.out
      /\ DrainSentences(text).rest = d.rest
  BY <1>2
<1> QED BY <1>3 DEF d

(* Induction over a text, sentence by sentence.                             *)
LEMMA TextInduction ==
  ASSUME NEW T,
         \A u \in Seq(Char) : Boundaries(u) = {} => u \in T,
         \A u \in Seq(Char) : \A e :
           LeastBoundary(u, e) /\ Behind(u, e) \in T => u \in T
  PROVE  Seq(Char) \subseteq T
<1> DEFINE S == {k \in Nat : \A u \in Seq(Char) : Len(u) <= k => u \in T}
<1>1. ASSUME NEW u \in Seq(Char),
             \A v \in Seq(Char) : Len(v) < Len(u) => v \in T
      PROVE  u \in T
  <2>1. CASE Boundaries(u) = {} BY <2>1
  <2>2. CASE Boundaries(u) # {}
    <3>1. PICK e : LeastBoundary(u, e) BY <2>2, LeastBoundaryExists
    <3>2. e \in DOMAIN u BY <3>1 DEF LeastBoundary, Boundaries
    <3>3. Len(u) \in Nat /\ e \in 1 .. Len(u) /\ e \in 0 .. Len(u) BY <3>2
    <3>4. Behind(u, e) \in Seq(Char) /\ Len(Behind(u, e)) = Len(u) - e
      BY <3>3, BehindIs
    <3>5. Len(u) - e < Len(u) BY <3>3
    <3>6. Behind(u, e) \in T BY <1>1, <3>4, <3>5
    <3> QED BY <3>1, <3>6
  <2> QED BY <2>1, <2>2
<1>2. 0 \in S
  <2> SUFFICES ASSUME NEW u \in Seq(Char), Len(u) <= 0 PROVE u \in T
    OBVIOUS
  <2>1. \A v \in Seq(Char) : ~(Len(v) < Len(u))
    <3>1. \A v \in Seq(Char) : Len(v) \in Nat OBVIOUS
    <3>2. Len(u) \in Nat OBVIOUS
    <3> QED BY <3>1, <3>2
  <2> QED BY <1>1, <2>1
<1>3. ASSUME NEW k \in Nat, k \in S PROVE k + 1 \in S
  <2> SUFFICES ASSUME NEW u \in Seq(Char), Len(u) <= k + 1 PROVE u \in T
    OBVIOUS
  <2>1. \A v \in Seq(Char) : Len(v) < Len(u) => Len(v) <= k
    <3>1. \A v \in Seq(Char) : Len(v) \in Nat OBVIOUS
    <3>2. Len(u) \in Nat OBVIOUS
    <3> QED BY <3>1, <3>2
  <2>2. \A v \in Seq(Char) : Len(v) < Len(u) => v \in T BY <1>3, <2>1
  <2> QED BY <1>1, <2>2
<1>4. Nat \subseteq S
  <2> HIDE DEF S
  <2> QED BY <1>2, <1>3, SetInduction
<1> QED
  <2> SUFFICES ASSUME NEW u \in Seq(Char) PROVE u \in T OBVIOUS
  <2>1. Len(u) \in Nat /\ Len(u) <= Len(u) OBVIOUS
  <2>2. Len(u) \in S BY <1>4, <2>1
  <2> QED BY <2>1, <2>2

(* Nothing is left that ends.                                               *)
LEMMA RestHasNoEnd ==
  ASSUME NEW text \in Seq(Char)
  PROVE  Boundaries(DrainSentences(text).rest) = {}
<1> DEFINE T == {u \in Seq(Char) : Boundaries(DrainSentences(u).rest) = {}}
<1>1. \A u \in Seq(Char) : Boundaries(u) = {} => u \in T BY DrainNone
<1>2. ASSUME NEW u \in Seq(Char), NEW e, LeastBoundary(u, e), Behind(u, e) \in T
      PROVE  u \in T
  <2>1. DrainSentences(u).rest = DrainSentences(Behind(u, e)).rest
    BY <1>2, DrainFirst
  <2> QED BY <1>2, <2>1
<1> HIDE DEF T
<1>3. Seq(Char) \subseteq T BY <1>1, <1>2, TextInduction
<1> QED BY <1>3 DEF T

(* Every sentence has something to say: the stop that ends it.              *)
LEMMA FirstSentence ==
  ASSUME NEW text \in Seq(Char), NEW e, e \in Boundaries(text)
  PROVE  /\ e \in 1 .. Len(text) /\ e \in 0 .. Len(text)
         /\ SubSeq(text, 1, e) \in Seq(Char) /\ Len(SubSeq(text, 1, e)) = e
         /\ \A i \in 1 .. e : SubSeq(text, 1, e)[i] = text[i]
         /\ Strip(SubSeq(text, 1, e)) \in Seq(Char) \ {<<>>}
<1>1. PICK i \in 1 .. e - 1 : text[i] = "stop" BY BoundaryIsEnd
<1>2. e \in DOMAIN text BY DEF Boundaries
<1>3. Len(text) \in Nat /\ e \in 1 .. Len(text) BY <1>2
<1>4. e \in 0 .. Len(text) /\ 1 \in 1 .. Len(text) + 1
      /\ e \in 1 - 1 .. Len(text) /\ e - 1 + 1 = e /\ i \in 1 .. e
      /\ \A k \in 1 .. e : 1 + k - 1 = k
  BY <1>3
<1> DEFINE s == SubSeq(text, 1, e)
<1>5. /\ s \in Seq(Char) /\ Len(s) = e - 1 + 1
      /\ \A k \in 1 .. e - 1 + 1 : s[k] = text[1 + k - 1]
  BY <1>4, PieceIs
<1> HIDE DEF s
<1>6. Len(s) = e /\ \A k \in 1 .. e : s[k] = text[k] BY <1>4, <1>5
<1>7. Ink(s) # {}
  <2>1. i \in DOMAIN s BY <1>4, <1>5, <1>6
  <2>2. s[i] = "stop" BY <1>1, <1>4, <1>6
  <2> QED BY <2>1, <2>2 DEF Ink
<1>8. Strip(s) \in Seq(Char) \ {<<>>} BY <1>5, <1>7, StripType
<1> QED BY <1>3, <1>4, <1>5, <1>6, <1>8 DEF s

(* No sentence is empty.                                                    *)
LEMMA SentencesNotEmpty ==
  ASSUME NEW text \in Seq(Char)
  PROVE  DrainSentences(text).out \in Seq(Seq(Char) \ {<<>>})
<1> DEFINE Texts == Seq(Char) \ {<<>>}
           T == {u \in Seq(Char) : DrainSentences(u).out \in Seq(Texts)}
<1>1. \A u \in Seq(Char) : Boundaries(u) = {} => u \in T
  <2>1. <<>> \in Seq(Texts) OBVIOUS
  <2> HIDE DEF Texts
  <2>2. \A u \in Seq(Char) : Boundaries(u) = {} =>
          DrainSentences(u).out = <<>>
    BY DrainNone
  <2> QED BY <2>1, <2>2
<1>2. ASSUME NEW u \in Seq(Char), NEW e, LeastBoundary(u, e), Behind(u, e) \in T
      PROVE  u \in T
  <2> DEFINE s == Strip(SubSeq(u, 1, e))
             out == DrainSentences(Behind(u, e)).out
  <2>1. DrainSentences(u).out = <<s>> \o out
    BY <1>2, DrainFirst
  <2>2. s \in Texts BY <1>2, FirstSentence DEF LeastBoundary
  <2>3. out \in Seq(Texts) BY <1>2
  <2> HIDE DEF s, out, Texts
  <2>4. <<s>> \in Seq(Texts) BY <2>2
  <2>5. <<s>> \o out \in Seq(Texts) BY <2>3, <2>4, ConcatProperties
  <2> QED BY <2>1, <2>5
<1> HIDE DEF T
<1>3. Seq(Char) \subseteq T BY <1>1, <1>2, TextInduction
<1> QED BY <1>3 DEF T

(* What is left at the end is one sentence more, or nothing.                *)
LEMMA FlushType ==
  ASSUME NEW text \in Seq(Char)
  PROVE  Flush(text) \in Seq(Seq(Char))
<1>1. Strip(text) \in Seq(Char) BY StripType
<1>2. <<>> \in Seq(Seq(Char)) /\ <<Strip(text)>> \in Seq(Seq(Char)) BY <1>1
<1> QED BY <1>2 DEF Flush

(* Without a boundary a text is one sentence, or nothing.                   *)
LEMMA SplitNone ==
  ASSUME NEW text \in Seq(Char), Boundaries(text) = {}
  PROVE  SplitSentences(text) = Flush(text)
<1>1. SplitSentences(text) = <<>> \o Flush(text) BY DrainNone DEF SplitSentences
<1> QED BY <1>1, FlushType, ConcatEmptySeq

(* Otherwise it is its first sentence, and those behind it.                 *)
LEMMA SplitFirst ==
  ASSUME NEW text \in Seq(Char), NEW e, LeastBoundary(text, e)
  PROVE  SplitSentences(text) =
           <<Strip(SubSeq(text, 1, e))>> \o SplitSentences(Behind(text, e))
<1> DEFINE s == Strip(SubSeq(text, 1, e))
           d == DrainSentences(Behind(text, e))
<1>1. e \in 0 .. Len(text) /\ s \in Seq(Char)
  BY FirstSentence DEF LeastBoundary
<1>2. Behind(text, e) \in Seq(Char) BY <1>1, BehindIs
<1>3. d \in Drained BY <1>2, DrainType
<1>4. SplitSentences(text) = (<<s>> \o d.out) \o Flush(d.rest)
  BY DrainFirst DEF SplitSentences
<1>5. SplitSentences(Behind(text, e)) = d.out \o Flush(d.rest)
  BY DEF SplitSentences
<1> HIDE DEF s, d
<1>6. d.out \in Seq(Seq(Char)) /\ d.rest \in Seq(Char) BY <1>3 DEF Drained
<1>7. <<s>> \in Seq(Seq(Char)) BY <1>1
<1>8. Flush(d.rest) \in Seq(Seq(Char)) BY <1>6, FlushType
<1>9. (<<s>> \o d.out) \o Flush(d.rest) = <<s>> \o (d.out \o Flush(d.rest))
  <2> DEFINE S == Seq(Char)
             x == <<s>>
             y == d.out
             z == Flush(d.rest)
  <2>1. x \in Seq(S) /\ y \in Seq(S) /\ z \in Seq(S) BY <1>6, <1>7, <1>8
  <2> HIDE DEF S, x, y, z
  <2>2. (x \o y) \o z = x \o (y \o z)
    BY <2>1, ConcatAssociative, SMTT(30)
  <2> QED BY <2>2 DEF x, y, z
<1>10. SplitSentences(text) = <<s>> \o SplitSentences(Behind(text, e))
  BY <1>4, <1>5, <1>9
<1> QED BY <1>10 DEF s

(* Splitting returns texts.                                                 *)
LEMMA SplitType ==
  ASSUME NEW text \in Seq(Char)
  PROVE  SplitSentences(text) \in Seq(Seq(Char))
<1> DEFINE d == DrainSentences(text)
<1>1. d.out \in Seq(Seq(Char)) /\ d.rest \in Seq(Char)
  BY DrainType DEF Drained
<1> HIDE DEF d
<1>2. Flush(d.rest) \in Seq(Seq(Char)) BY <1>1, FlushType
<1>3. d.out \o Flush(d.rest) \in Seq(Seq(Char)) BY <1>1, <1>2, ConcatProperties
<1> QED BY <1>3 DEF SplitSentences, d

(* A boundary is one by what is before it, and the character behind it.     *)
LEMMA BoundaryCopies ==
  ASSUME NEW v \in Seq(Char), NEW w \in Seq(Char), NEW j \in Boundaries(v),
         j \in 1 .. Len(w), \A k \in 1 .. j : w[k] = v[k],
         j = Len(w) \/ w[j + 1] # "space"
  PROVE  j \in Boundaries(w)
<1>1. PICK i \in 1 .. j - 1 : IsEnd(v, i, j) BY BoundaryIsEnd
<1>2. j \in Nat /\ i \in Nat /\ i \in 1 .. Len(w) /\ j \in i .. Len(w)
  OBVIOUS
<1>3. Ending(v, i, j) BY <1>1 DEF IsEnd
<1> DEFINE d == 0
<1>4. d \in Int /\ i + d = i /\ j + d = j /\ \A k \in i .. j : w[k + d] = v[k]
  <2>1. \A k \in i .. j : k \in 1 .. j /\ k + d = k BY <1>2
  <2> QED BY <1>2, <2>1
<1> HIDE DEF d
<1>5. Ending(w, i + d, j + d) BY <1>2, <1>3, <1>4, EndingMoves
<1>6. i + d = i /\ j + d = j BY <1>4
<1>7. IsEnd(w, i, j) BY <1>5, <1>6 DEF IsEnd
<1> QED BY <1>2, <1>7, EndIsBoundary

(* The rest behind a place in a rest.                                       *)
LEMMA BehindTwice ==
  ASSUME NEW text \in Seq(Char), NEW k \in 0 .. Len(text),
         NEW e \in 0 .. Len(text) - k
  PROVE  Behind(Behind(text, k), e) = Behind(text, k + e)
<1> DEFINE n == Len(text)
<1>1. n \in Nat /\ k \in 0 .. n /\ e \in 0 .. n - k OBVIOUS
<1>2. Len(Behind(text, k)) = n - k BY BehindIs
<1> HIDE DEF n
<1>3. /\ e + 1 \in 1 .. n - k + 1 /\ n - k \in (e + 1) - 1 .. n - k
      /\ k + (e + 1) = (k + e) + 1 /\ k + (n - k) = n
  BY <1>1
<1>4. SubSeq(Behind(text, k), e + 1, n - k) = SubSeq(text, k + (e + 1), k + (n - k))
  BY <1>1, <1>3, PieceBehind DEF n
<1> QED BY <1>2, <1>3, <1>4 DEF Behind, n

(* A sentence with spaces before it is the sentence.                        *)
LEMMA PaddedBehind ==
  ASSUME NEW t \in Seq(Char), NEW k \in 0 .. Len(t),
         \A i \in 1 .. k : t[i] = "space"
  PROVE  /\ Strip(t) = Strip(Behind(t, k))
         /\ \A e \in 0 .. Len(t) - k :
              Strip(SubSeq(t, 1, k + e)) = Strip(SubSeq(Behind(t, k), 1, e))
<1> DEFINE n == Len(t)
           v == Behind(t, k)
<1>1. n \in Nat /\ k \in 0 .. n OBVIOUS
<1>2. /\ v \in Seq(Char) /\ Len(v) = n - k
      /\ \A i \in 1 .. n - k : v[i] = t[k + i]
  BY BehindIs
<1> HIDE DEF n, v
<1>3. ASSUME NEW e \in 0 .. n - k
      PROVE  Strip(SubSeq(t, 1, k + e)) = Strip(SubSeq(v, 1, e))
  <2> DEFINE y == SubSeq(t, 1, k + e)
             x == SubSeq(v, 1, e)
  <2>1. /\ 1 \in 1 .. n + 1 /\ k + e \in 1 - 1 .. n /\ (k + e) - 1 + 1 = k + e
        /\ 1 \in 1 .. (n - k) + 1 /\ e \in 1 - 1 .. n - k /\ e - 1 + 1 = e
        /\ \A i \in 1 .. k + e : 1 + i - 1 = i
        /\ \A i \in 1 .. e : 1 + i - 1 = i
    BY <1>1
  <2>2. /\ y \in Seq(Char) /\ Len(y) = (k + e) - 1 + 1
        /\ \A i \in 1 .. (k + e) - 1 + 1 : y[i] = t[1 + i - 1]
    BY <2>1, PieceIs DEF n
  <2>3. /\ x \in Seq(Char) /\ Len(x) = e - 1 + 1
        /\ \A i \in 1 .. e - 1 + 1 : x[i] = v[1 + i - 1]
    BY <1>2, <2>1, PieceIs
  <2> HIDE DEF x, y
  <2>4. Len(y) = k + e /\ \A i \in 1 .. k + e : y[i] = t[i] BY <2>1, <2>2
  <2>5. Len(x) = e /\ \A i \in 1 .. e : x[i] = v[i] BY <2>1, <2>3
  <2>6. \A i \in 1 .. e : y[k + i] = x[i]
    <3>1. \A i \in 1 .. e : i \in 1 .. n - k /\ k + i \in 1 .. k + e BY <1>1
    <3> QED BY <1>2, <2>4, <2>5, <3>1
  <2>7. \A i \in 1 .. k + e : i <= k \/ i > k + e => y[i] = "space"
    <3>1. \A i \in 1 .. k + e : i <= k \/ i > k + e => i \in 1 .. k BY <1>1
    <3> QED BY <2>4, <3>1
  <2>8. Padded(x, y, k)
    <3>1. k + e <= k + e BY <1>1
    <3> QED BY <2>4, <2>5, <2>6, <2>7, <3>1 DEF Padded
  <2>9. Strip(y) = Strip(x)
    <3>1. k \in Nat BY <1>1
    <3> QED BY <2>2, <2>3, <2>8, <3>1, StripPadded
  <2> QED BY <2>9 DEF x, y
<1>4. Strip(t) = Strip(v)
  <2>1. n - k \in 0 .. n - k /\ k + (n - k) = n BY <1>1
  <2>2. Strip(SubSeq(t, 1, k + (n - k))) = Strip(SubSeq(v, 1, n - k))
    BY <1>3, <2>1
  <2>3. SubSeq(t, 1, n) = t /\ SubSeq(v, 1, n - k) = v
    BY <1>2, SubSeqFull DEF n
  <2> QED BY <2>1, <2>2, <2>3
<1> QED BY <1>3, <1>4 DEF n, v

(* Spaces before a text make no sentence, and no difference to one.         *)
LEMMA SpacesBefore ==
  ASSUME NEW t \in Seq(Char), NEW k \in 0 .. Len(t),
         \A i \in 1 .. k : t[i] = "space"
  PROVE  SplitSentences(t) = SplitSentences(Behind(t, k))
<1> DEFINE n == Len(t)
           v == Behind(t, k)
<1>1. n \in Nat /\ k \in 0 .. n OBVIOUS
<1>2. v \in Seq(Char) /\ Len(v) = n - k BY BehindIs
<1>3. \A i \in 1 .. k : t[i] # "stop" OBVIOUS
<1>4. \A j \in 1 .. n - k : j \in Boundaries(v) <=> k + j \in Boundaries(t)
  BY <1>3, BoundariesBehind
<1>5. Boundaries(v) \subseteq 1 .. n - k BY <1>2 DEF Boundaries
<1> HIDE DEF n, v
<1>6. ASSUME NEW j \in Boundaries(t)
      PROVE  j - k \in Boundaries(v) /\ j \in Int
  <2>1. j \in 1 .. n /\ \E i \in 1 .. j - 1 : t[i] = "stop"
    BY BoundaryIsEnd DEF n
  <2>2. PICK i \in 1 .. j - 1 : t[i] = "stop" BY <2>1
  <2>3. i \notin 1 .. k BY <1>3, <2>2
  <2>4. j - k \in 1 .. n - k /\ k + (j - k) = j BY <1>1, <2>1, <2>3
  <2> QED BY <1>4, <2>1, <2>4
<1>7. CASE Boundaries(v) = {}
  <2>1. Boundaries(t) = {} BY <1>6, <1>7
  <2>2. Flush(t) = Flush(v) BY PaddedBehind DEF Flush, v
  <2> QED BY <1>2, <1>7, <2>1, <2>2, SplitNone DEF v
<1>8. CASE Boundaries(v) # {}
  <2>1. PICK e : LeastBoundary(v, e) BY <1>2, <1>8, LeastBoundaryExists
  <2>2. e \in Boundaries(v) /\ \A j \in Boundaries(v) : e <= j
    BY <2>1 DEF LeastBoundary
  <2>3. e \in 1 .. n - k /\ e \in 0 .. n - k BY <1>5, <2>2
  <2>4. LeastBoundary(t, k + e)
    <3>1. k + e \in Boundaries(t) BY <1>4, <2>2, <2>3
    <3>2. ASSUME NEW j \in Boundaries(t) PROVE k + e <= j
      <4>1. e <= j - k /\ j \in Int BY <1>6, <2>2
      <4> QED BY <1>1, <2>3, <4>1
    <3> QED BY <3>1, <3>2 DEF LeastBoundary
  <2>5. Behind(t, k + e) = Behind(v, e) BY <2>3, BehindTwice DEF v, n
  <2>6. Strip(SubSeq(t, 1, k + e)) = Strip(SubSeq(v, 1, e))
    BY <2>3, PaddedBehind DEF v, n
  <2>7. SplitSentences(t) =
          <<Strip(SubSeq(t, 1, k + e))>> \o SplitSentences(Behind(t, k + e))
    BY <2>4, SplitFirst
  <2>8. SplitSentences(v) =
          <<Strip(SubSeq(v, 1, e))>> \o SplitSentences(Behind(v, e))
    BY <1>2, <2>1, SplitFirst
  <2> QED BY <2>5, <2>6, <2>7, <2>8 DEF v
<1> QED BY <1>7, <1>8

(* How many characters a text starts with are spaces.                       *)
LEMMA SpacesRun ==
  ASSUME NEW t \in Seq(Char), t # <<>>, t[1] = "space"
  PROVE  \E k \in 1 .. Len(t) :
           /\ \A i \in 1 .. k : t[i] = "space"
           /\ k = Len(t) \/ t[k + 1] # "space"
<1> DEFINE n == Len(t)
           S == {k \in 1 .. n : \A i \in 1 .. k : t[i] = "space"}
<1>1. n \in Nat /\ n # 0 OBVIOUS
<1>2. 1 \in S
  <2>1. \A i \in 1 .. 1 : i = 1 OBVIOUS
  <2> QED BY <1>1, <2>1
<1>3. PICK k \in S : \A l \in S : k >= l
  <2>1. S \subseteq Nat /\ \A k \in S : k <= n BY <1>1
  <2>2. S # {} BY <1>2
  <2> HIDE DEF S
  <2> QED BY <1>1, <2>1, <2>2, GreatestNatural
<1>4. k \in 1 .. n /\ \A i \in 1 .. k : t[i] = "space" BY <1>3
<1>5. ASSUME k # n, t[k + 1] = "space" PROVE FALSE
  <2>1. k + 1 \in 1 .. n /\ \A i \in 1 .. k + 1 : i = k + 1 \/ i \in 1 .. k
    BY <1>1, <1>4, <1>5
  <2>2. k + 1 \in S BY <1>4, <1>5, <2>1
  <2>3. k >= k + 1 BY <1>3, <2>2
  <2> QED BY <1>4, <2>3
<1> QED BY <1>4, <1>5

(* What follows does not move the first boundary of a text, unless the text *)
(* ends there and spaces follow.                                            *)
LEMMA FirstStays ==
  ASSUME NEW u \in Seq(Char), NEW t \in Seq(Char), NEW e, LeastBoundary(u, e),
         \/ e # Len(u) \/ t = <<>> \/ t[1] # "space"
  PROVE  /\ LeastBoundary(u \o t, e)
         /\ SubSeq(u \o t, 1, e) = SubSeq(u, 1, e)
         /\ Behind(u \o t, e) = Behind(u, e) \o t
<1> DEFINE m == Len(u)
           w == u \o t
<1>1. /\ m \in Nat /\ Len(t) \in Nat /\ w \in Seq(Char) /\ Len(w) = m + Len(t)
      /\ \A i \in 1 .. m + Len(t) : w[i] = IF i <= m THEN u[i] ELSE t[i - m]
  OBVIOUS
<1>2. /\ e \in Boundaries(u) /\ \A j \in Boundaries(u) : e <= j
  BY DEF LeastBoundary
<1>3. e \in 1 .. m /\ e \in 0 .. m BY <1>2, FirstSentence
<1>4. \A i \in 1 .. m : i \in 1 .. Len(w) /\ w[i] = u[i] BY <1>1
<1>5. t # <<>> => Len(t) # 0 /\ w[m + 1] = t[1]
  <2>1. t # <<>> => Len(t) # 0 OBVIOUS
  <2>2. Len(t) # 0 => /\ m + 1 \in 1 .. m + Len(t) /\ ~(m + 1 <= m)
                      /\ (m + 1) - m = 1
    BY <1>1
  <2> HIDE DEF w, m
  <2> QED BY <1>1, <2>1, <2>2
<1>6. t = <<>> => Len(w) = m
  <2>1. t = <<>> => Len(t) = 0 OBVIOUS
  <2> HIDE DEF w, m
  <2> QED BY <1>1, <2>1
<1>7. \A j \in Boundaries(u) : /\ j \in 1 .. m
                               /\ j = m \/ u[j + 1] # "space"
  BY DEF Boundaries
<1> HIDE DEF m, w
<1>8. \A j \in Boundaries(w) : /\ j \in 1 .. Len(w)
                               /\ j = Len(w) \/ w[j + 1] # "space"
  BY <1>1 DEF Boundaries
<1>9. e \in Boundaries(w)
  <2>1. e = Len(w) \/ w[e + 1] # "space"
    <3>1. CASE e # m
      <4>1. e + 1 \in 1 .. m BY <1>1, <1>3, <3>1
      <4> QED BY <1>2, <1>4, <1>7, <3>1, <4>1
    <3>2. CASE e = m BY <1>5, <1>6, <3>2 DEF m
    <3> QED BY <3>1, <3>2
  <2>2. \A k \in 1 .. e : w[k] = u[k]
    <3>1. \A k \in 1 .. e : k \in 1 .. m BY <1>1, <1>3
    <3> QED BY <1>4, <3>1
  <2>3. e \in 1 .. Len(w) BY <1>3, <1>4
  <2> QED BY <1>1, <1>2, <2>1, <2>2, <2>3, BoundaryCopies
<1>10. ASSUME NEW j \in Boundaries(w) PROVE e <= j
  <2> SUFFICES ASSUME j < e PROVE FALSE
    <3>1. j \in 1 .. Len(w) BY <1>8
    <3>2. j \in Int /\ e \in Int BY <1>1, <1>3, <3>1
    <3> QED BY <3>2
  <2>1. j \in 1 .. Len(w) BY <1>8
  <2>2. j \in 1 .. m /\ j + 1 \in 1 .. m BY <1>1, <1>3, <2>1
  <2>3. j # Len(w) BY <1>1, <2>2
  <2>4. u[j + 1] # "space" BY <1>4, <1>8, <2>2, <2>3
  <2>5. \A k \in 1 .. j : u[k] = w[k]
    <3>1. \A k \in 1 .. j : k \in 1 .. m BY <1>1, <2>2
    <3> QED BY <1>4, <3>1
  <2>6. j \in Boundaries(u) BY <1>1, <2>2, <2>4, <2>5, BoundaryCopies DEF m
  <2>7. e <= j BY <1>2, <2>6
  <2> QED BY <1>1, <1>3, <2>2, <2>7
<1>11. SubSeq(w, 1, e) = SubSeq(u, 1, e)
  <2>1. m \in 1 .. m /\ 1 \in 1 .. m BY <1>1, <1>3
  <2> QED BY <1>3, <2>1, SubSeqOfConcat1 DEF m, w
<1>12. Behind(w, e) = Behind(u, e) \o t
  <2> DEFINE x == Behind(w, e)
             b == Behind(u, e)
             y == b \o t
  <2>0. e \in 0 .. Len(w) BY <1>1, <1>3
  <2>1. /\ x \in Seq(Char) /\ Len(x) = (m + Len(t)) - e
        /\ \A k \in 1 .. (m + Len(t)) - e : x[k] = w[e + k]
    <3>1. /\ x \in Seq(Char) /\ Len(x) = Len(w) - e
          /\ \A k \in 1 .. Len(w) - e : x[k] = w[e + k]
      BY <1>1, <2>0, BehindIs
    <3> HIDE DEF x
    <3> QED BY <1>1, <3>1
  <2>2. /\ b \in Seq(Char) /\ Len(b) = m - e
        /\ \A k \in 1 .. m - e : b[k] = u[e + k]
    BY <1>3, BehindIs DEF m
  <2> HIDE DEF x, b
  <2>3. /\ y \in Seq(Char) /\ Len(y) = (m - e) + Len(t)
        /\ \A k \in 1 .. (m - e) + Len(t) :
             y[k] = IF k <= m - e THEN b[k] ELSE t[k - (m - e)]
    <3>1. /\ y \in Seq(Char) /\ Len(y) = Len(b) + Len(t)
          /\ \A k \in 1 .. Len(b) + Len(t) :
               y[k] = IF k <= Len(b) THEN b[k] ELSE t[k - Len(b)]
      BY <2>2, ConcatProperties
    <3> HIDE DEF y
    <3> QED BY <2>2, <3>1
  <2> HIDE DEF y
  <2>4. (m - e) + Len(t) = (m + Len(t)) - e /\ (m + Len(t)) - e \in Nat
    BY <1>1, <1>3
  <2>5. ASSUME NEW k \in 1 .. (m + Len(t)) - e PROVE x[k] = y[k]
    <3>1. CASE k <= m - e
      <4>1. /\ k \in 1 .. m - e /\ e + k \in 1 .. m + Len(t) /\ e + k <= m
        BY <1>1, <1>3, <3>1
      <4> QED BY <1>1, <2>1, <2>2, <2>3, <2>4, <3>1, <4>1
    <3>2. CASE ~(k <= m - e)
      <4>1. /\ e + k \in 1 .. m + Len(t) /\ ~(e + k <= m)
            /\ (e + k) - m = k - (m - e)
        BY <1>1, <1>3, <3>2
      <4> QED BY <1>1, <2>1, <2>3, <2>4, <3>2, <4>1
    <3> QED BY <3>1, <3>2
  <2>6. x = y BY <2>1, <2>3, <2>4, <2>5, SeqEqual
  <2> QED BY <2>6 DEF x, y, b
<1>13. LeastBoundary(w, e) BY <1>9, <1>10 DEF LeastBoundary
<1> QED BY <1>11, <1>12, <1>13 DEF w

(* Spaces that follow a sentence at the end of a text belong to it, and     *)
(* move its boundary behind them.                                           *)
LEMMA FirstMoves ==
  ASSUME NEW u \in Seq(Char), NEW t \in Seq(Char), LeastBoundary(u, Len(u)),
         NEW k \in 1 .. Len(t), \A i \in 1 .. k : t[i] = "space",
         k = Len(t) \/ t[k + 1] # "space"
  PROVE  /\ LeastBoundary(u \o t, Len(u) + k)
         /\ Strip(SubSeq(u \o t, 1, Len(u) + k)) = Strip(u)
         /\ Behind(u \o t, Len(u) + k) = Behind(t, k)
<1> DEFINE m == Len(u)
           l == Len(t)
           w == u \o t
           e == m + k
<1>1. /\ m \in Nat /\ l \in Nat /\ w \in Seq(Char) /\ Len(w) = m + l
      /\ \A i \in 1 .. m + l : w[i] = IF i <= m THEN u[i] ELSE t[i - m]
  OBVIOUS
<1>2. m \in Boundaries(u) /\ \A j \in Boundaries(u) : m <= j
  BY DEF LeastBoundary
<1>3. m \in 1 .. m BY <1>2, FirstSentence
<1>4. k \in 1 .. l OBVIOUS
<1>5. PICK i \in 1 .. m - 1, b \in 1 .. m - 1 :
        /\ i <= b /\ u[i] = "stop"
        /\ \A x \in i + 1 .. b : u[x] = "close"
        /\ \A x \in b + 1 .. m : u[x] = "space"
  BY <1>2 DEF Boundaries, AllIn
<1> HIDE DEF m, l, w, e
<1>6. e \in 1 .. m + l /\ e \in Nat /\ e = m + k BY <1>1, <1>4 DEF e
<1>7. \A x \in 1 .. m : w[x] = u[x] BY <1>1
<1>8. \A x \in 1 .. l : w[m + x] = t[x]
  <2>1. \A x \in 1 .. l : /\ m + x \in 1 .. m + l /\ ~(m + x <= m)
                          /\ (m + x) - m = x
    BY <1>1
  <2> QED BY <1>1, <2>1
<1>9. e = m + l \/ w[e + 1] # "space"
  <2>1. CASE k = l BY <1>6, <2>1
  <2>2. CASE k # l
    <3>1. k + 1 \in 1 .. l /\ m + (k + 1) = e + 1 BY <1>1, <1>4, <1>6, <2>2
    <3>2. w[m + (k + 1)] = t[k + 1] BY <1>8, <3>1
    <3>3. t[k + 1] # "space" BY <2>2 DEF l
    <3> QED BY <3>1, <3>2, <3>3
  <2> QED BY <2>1, <2>2
<1>10. \A x \in m + 1 .. e : w[x] = "space"
  <2> SUFFICES ASSUME NEW x \in m + 1 .. e PROVE w[x] = "space" OBVIOUS
  <2>1. x - m \in 1 .. l /\ x - m \in 1 .. k /\ m + (x - m) = x
    BY <1>1, <1>4, <1>6
  <2> QED BY <1>8, <2>1
<1>11. e \in Boundaries(w)
  <2>1. e \in DOMAIN w /\ e \in m + 1 .. e BY <1>1, <1>4, <1>6
  <2>2. /\ i \in 1 .. e - 1 /\ b \in 1 .. e - 1 /\ i \in 1 .. m
        /\ \A x \in i + 1 .. b : x \in 1 .. m
        /\ \A x \in b + 1 .. e : x \in b + 1 .. m \/ x \in m + 1 .. e
        /\ \A x \in b + 1 .. m : x \in 1 .. m
    BY <1>1, <1>4, <1>6
  <2>3. w[i] = "stop" /\ i <= b BY <1>5, <1>7, <2>2
  <2>4. AllIn(w, i + 1, b, "close") BY <1>5, <1>7, <2>2 DEF AllIn
  <2>5. AllIn(w, b + 1, e, "space") BY <1>5, <1>7, <1>10, <2>2 DEF AllIn
  <2>6. w[e] = "space" /\ (e = Len(w) \/ w[e + 1] # "space")
    BY <1>1, <1>9, <1>10, <2>1
  <2> QED BY <2>1, <2>2, <2>3, <2>4, <2>5, <2>6 DEF Boundaries
<1>12. ASSUME NEW j \in Boundaries(w) PROVE e <= j
  <2>1. /\ j \in 1 .. m + l /\ (j = m + l \/ w[j + 1] # "space")
    BY <1>1 DEF Boundaries
  <2> SUFFICES ASSUME j < e PROVE FALSE BY <1>1, <1>6, <2>1
  <2>2. j # m + l BY <1>1, <1>6, <2>1
  <2>3. j + 1 \notin m + 1 .. e BY <1>10, <2>1, <2>2
  <2>4. j \in 1 .. m /\ j + 1 \in 1 .. m BY <1>1, <1>6, <2>1, <2>3
  <2>5. u[j + 1] # "space" BY <1>7, <2>1, <2>2, <2>4
  <2>6. \A x \in 1 .. j : u[x] = w[x]
    <3>1. \A x \in 1 .. j : x \in 1 .. m BY <1>1, <2>4
    <3> QED BY <1>7, <3>1
  <2>7. j \in Boundaries(u) BY <1>1, <2>4, <2>5, <2>6, BoundaryCopies DEF m
  <2>8. m <= j BY <1>2, <2>7
  <2> QED BY <1>1, <2>4, <2>8
<1>13. /\ SubSeq(w, 1, e) \in Seq(Char) /\ Len(SubSeq(w, 1, e)) = e
       /\ \A x \in 1 .. e : SubSeq(w, 1, e)[x] = w[x]
  BY <1>1, <1>11, FirstSentence
<1>14. Strip(SubSeq(w, 1, e)) = Strip(u)
  <2> DEFINE y == SubSeq(w, 1, e)
             d == 0
  <2> HIDE DEF y
  <2>1. /\ m <= e /\ \A x \in 1 .. m : x \in 1 .. e
        /\ \A x \in 1 .. e : x <= 0 \/ x > 0 + m => x \in m + 1 .. e
        /\ d \in Nat /\ 0 + m = m /\ \A x \in 1 .. m : d + x = x
    BY <1>1, <1>4, <1>6
  <2>2. /\ \A x \in 1 .. m : y[d + x] = u[x]
    BY <1>7, <1>13, <2>1 DEF y
  <2>3. \A x \in 1 .. e : x <= 0 \/ x > 0 + m => y[x] = "space"
    BY <1>10, <1>13, <2>1 DEF y
  <2>4. y \in Seq(Char) /\ Len(y) = e BY <1>13 DEF y
  <2>5. Padded(u, y, d) BY <2>1, <2>2, <2>3, <2>4 DEF Padded, m
  <2> HIDE DEF d
  <2>6. Strip(y) = Strip(u) BY <2>1, <2>4, <2>5, StripPadded
  <2> QED BY <2>6 DEF y
<1>15. Behind(w, e) = Behind(t, k)
  <2> DEFINE x == Behind(w, e)
             y == Behind(t, k)
  <2>1. e \in 0 .. Len(w) /\ k \in 0 .. l /\ (m + l) - e = l - k
    BY <1>1, <1>4, <1>6
  <2>2. /\ x \in Seq(Char) /\ Len(x) = Len(w) - e
        /\ \A j \in 1 .. Len(w) - e : x[j] = w[e + j]
    BY <1>1, <2>1, BehindIs
  <2>3. /\ y \in Seq(Char) /\ Len(y) = l - k
        /\ \A j \in 1 .. l - k : y[j] = t[k + j]
    BY <2>1, BehindIs DEF l
  <2> HIDE DEF x, y
  <2>4. Len(x) = Len(y) /\ Len(w) - e = l - k BY <1>1, <2>1, <2>2, <2>3
  <2>5. ASSUME NEW j \in 1 .. l - k PROVE x[j] = y[j]
    <3>1. k + j \in 1 .. l /\ m + (k + j) = e + j BY <1>1, <1>4, <1>6
    <3>2. w[m + (k + j)] = t[k + j] BY <1>8, <3>1
    <3>3. j \in 1 .. Len(w) - e BY <2>4
    <3>4. x[j] = w[e + j] BY <2>2, <3>3
    <3>5. y[j] = t[k + j] BY <2>3
    <3> QED BY <3>1, <3>2, <3>4, <3>5
  <2>6. x = y BY <2>2, <2>3, <2>4, <2>5, SeqEqual
  <2> QED BY <2>6 DEF x, y
<1>16. LeastBoundary(w, e) BY <1>11, <1>12 DEF LeastBoundary
<1> QED BY <1>14, <1>15, <1>16 DEF w, e, m

(* What has been drained and the split of the rest with what follows are    *)
(* the split of the whole.                                                  *)
Ahead(u, t) ==
  SplitSentences(u \o t) =
    DrainSentences(u).out \o SplitSentences(DrainSentences(u).rest \o t)

(* Draining early makes no difference.                                      *)
LEMMA DrainAhead ==
  ASSUME NEW u \in Seq(Char), NEW t \in Seq(Char)
  PROVE  Ahead(u, t)
<1> DEFINE T == {v \in Seq(Char) : \A x \in Seq(Char) : Ahead(v, x)}
<1>1. ASSUME NEW v \in Seq(Char), Boundaries(v) = {} PROVE v \in T
  <2> SUFFICES ASSUME NEW x \in Seq(Char) PROVE Ahead(v, x) OBVIOUS
  <2>1. DrainSentences(v).out = <<>> /\ DrainSentences(v).rest = v
    BY <1>1, DrainNone
  <2>2. v \o x \in Seq(Char) OBVIOUS
  <2>3. SplitSentences(v \o x) \in Seq(Seq(Char)) BY <2>2, SplitType
  <2>4. <<>> \o SplitSentences(v \o x) = SplitSentences(v \o x)
    BY <2>3, ConcatEmptySeq
  <2> QED BY <2>1, <2>4 DEF Ahead
<1>2. ASSUME NEW v \in Seq(Char), NEW e, LeastBoundary(v, e), Behind(v, e) \in T
      PROVE  v \in T
  <2> SUFFICES ASSUME NEW x \in Seq(Char) PROVE Ahead(v, x) OBVIOUS
  <2> DEFINE b == Behind(v, e)
             s == Strip(SubSeq(v, 1, e))
             d == DrainSentences(b)
             w == v \o x
             rest == SplitSentences(d.rest \o x)
  <2>1. e \in 1 .. Len(v) /\ s \in Seq(Char)
    BY <1>2, FirstSentence DEF LeastBoundary
  <2>2. DrainSentences(v).out = <<s>> \o d.out /\ DrainSentences(v).rest = d.rest
    BY <1>2, DrainFirst
  <2>3. b \in Seq(Char) /\ Ahead(b, x) BY <1>2
  <2>4. w \in Seq(Char) OBVIOUS
  <2> HIDE DEF b, s, d, w, rest
  <2>5. d.out \in Seq(Seq(Char)) /\ d.rest \in Seq(Char)
    BY <2>3, DrainType DEF Drained, d
  <2>6. rest \in Seq(Seq(Char))
    <3>1. d.rest \o x \in Seq(Char) BY <2>5, ConcatProperties
    <3> QED BY <3>1, SplitType DEF rest
  <2>7. (<<s>> \o d.out) \o rest = <<s>> \o (d.out \o rest)
    <3> DEFINE S == Seq(Char)
               p == <<s>>
               q == d.out
    <3>1. p \in Seq(S) /\ q \in Seq(S) /\ rest \in Seq(S) BY <2>1, <2>5, <2>6
    <3> HIDE DEF S, p, q
    <3>2. (p \o q) \o rest = p \o (q \o rest)
      BY <3>1, ConcatAssociative, SMTT(30)
    <3> QED BY <3>2 DEF p, q
  <2>8. SplitSentences(b \o x) = d.out \o rest BY <2>3 DEF Ahead, d, rest
  <2>9. SUFFICES SplitSentences(w) = <<s>> \o SplitSentences(b \o x)
    BY <2>2, <2>7, <2>8 DEF Ahead, w, rest
  <2>10. CASE e # Len(v) \/ x = <<>> \/ x[1] # "space"
    <3>1. /\ LeastBoundary(w, e) /\ SubSeq(w, 1, e) = SubSeq(v, 1, e)
          /\ Behind(w, e) = b \o x
      BY <1>2, <2>10, FirstStays DEF w, b
    <3>2. SplitSentences(w) =
            <<Strip(SubSeq(w, 1, e))>> \o SplitSentences(Behind(w, e))
      BY <2>4, <3>1, SplitFirst
    <3> QED BY <3>1, <3>2 DEF s
  <2>11. CASE e = Len(v) /\ x # <<>> /\ x[1] = "space"
    <3>1. PICK k \in 1 .. Len(x) : /\ \A i \in 1 .. k : x[i] = "space"
                                   /\ k = Len(x) \/ x[k + 1] # "space"
      BY <2>11, SpacesRun
    <3>2. /\ LeastBoundary(w, e + k) /\ Strip(SubSeq(w, 1, e + k)) = Strip(v)
          /\ Behind(w, e + k) = Behind(x, k)
      BY <1>2, <2>11, <3>1, FirstMoves DEF w
    <3>3. SplitSentences(w) =
            <<Strip(SubSeq(w, 1, e + k))>> \o SplitSentences(Behind(w, e + k))
      BY <2>4, <3>2, SplitFirst
    <3>4. k \in 0 .. Len(x) OBVIOUS
    <3>5. SplitSentences(x) = SplitSentences(Behind(x, k))
      BY <3>1, <3>4, SpacesBefore
    <3>6. s = Strip(v) BY <2>11, SubSeqFull DEF s
    <3>7. b = <<>>
      <4>1. Len(v) \in Nat OBVIOUS
      <4>2. e + 1 \in Int /\ Len(v) \in Int /\ Len(v) < e + 1 BY <2>11, <4>1
      <4> QED BY <4>2, SubSeqEmpty DEF b, Behind
    <3>8. b \o x = x BY <3>7, ConcatEmptySeq
    <3> QED BY <3>2, <3>3, <3>5, <3>6, <3>8
  <2> QED BY <2>10, <2>11
<1> HIDE DEF T
<1>3. Seq(Char) \subseteq T BY <1>1, <1>2, TextInduction
<1>4. u \in T BY <1>3
<1> QED BY <1>4 DEF T

(* A text has finitely many boundaries.                                     *)
LEMMA BoundariesFinite ==
  ASSUME NEW text \in Seq(Char)
  PROVE  IsFiniteSet(Boundaries(text)) /\ Cardinality(Boundaries(text)) \in Nat
<1>1. Len(text) \in Nat /\ Boundaries(text) \subseteq 1 .. Len(text)
  BY DEF Boundaries
<1>2. IsFiniteSet(1 .. Len(text)) BY <1>1, FS_Interval
<1> QED BY <1>1, <1>2, FS_Subset, FS_CardinalityType

(* Behind the first there is one less.                                      *)
LEMMA OneBoundaryLess ==
  ASSUME NEW text \in Seq(Char), NEW e, LeastBoundary(text, e)
  PROVE  Cardinality(Boundaries(text)) =
           Cardinality(Boundaries(Behind(text, e))) + 1
<1> DEFINE n == Len(text)
           v == Behind(text, e)
           B == Boundaries(text)
           C == Boundaries(v)
           f == [j \in C |-> e + j]
<1>1. e \in B /\ \A j \in B : e <= j BY DEF LeastBoundary
<1>2. n \in Nat /\ e \in 1 .. n /\ e \in 0 .. n BY <1>1, FirstSentence
<1>3. v \in Seq(Char) /\ Len(v) = n - e BY <1>2, BehindIs
<1>4. \A j \in 1 .. n - e : j \in C <=> e + j \in B
  BY <1>1, <1>2, BoundariesBehind
<1>5. B \subseteq 1 .. n BY DEF Boundaries
<1>6. C \subseteq 1 .. n - e BY <1>3 DEF Boundaries
<1>7. /\ IsFiniteSet(B) /\ IsFiniteSet(C)
      /\ Cardinality(B) \in Nat /\ Cardinality(C) \in Nat
  BY <1>3, BoundariesFinite
<1> HIDE DEF n, v, B, C
<1>8. f \in Bijection(C, B \ {e})
  <2>1. ASSUME NEW j \in C PROVE e + j \in B \ {e} /\ j \in Int
    BY <1>2, <1>4, <1>6
  <2>2. \A i, j \in C : e + i = e + j => i = j BY <1>2, <2>1
  <2>3. ASSUME NEW k \in B \ {e} PROVE \E j \in C : e + j = k
    <3>1. k \in 1 .. n /\ e <= k /\ k # e BY <1>1, <1>5
    <3>2. k - e \in 1 .. n - e /\ e + (k - e) = k BY <1>2, <3>1
    <3>3. k - e \in C BY <1>4, <3>2
    <3> QED BY <3>2, <3>3
  <2>4. f \in [C -> B \ {e}] BY <2>1
  <2>5. f \in Injection(C, B \ {e})
    <3>1. \A i, j \in C : f[i] = f[j] => i = j BY <2>2
    <3> HIDE DEF f
    <3> QED BY <2>4, <3>1 DEF Injection, IsInjective
  <2>6. f \in Surjection(C, B \ {e})
    <3>1. \A k \in B \ {e} : \E j \in C : f[j] = k BY <2>3
    <3> HIDE DEF f
    <3> QED BY <2>4, <3>1 DEF Surjection
  <2> QED BY <2>5, <2>6 DEF Bijection
<1>9. Cardinality(B \ {e}) = Cardinality(C)
  BY <1>7, <1>8, FS_Bijection DEF ExistsBijection
<1>10. Cardinality(B \ {e}) = Cardinality(B) - 1
  BY <1>1, <1>7, FS_RemoveElement
<1>11. Cardinality(B) = Cardinality(C) + 1 BY <1>7, <1>9, <1>10
<1> QED BY <1>11 DEF B, C, v

(* One sentence comes out for each boundary.                                *)
LEMMA OneForEach ==
  ASSUME NEW text \in Seq(Char)
  PROVE  Len(DrainSentences(text).out) = Cardinality(Boundaries(text))
<1> DEFINE T == {u \in Seq(Char) :
                   Len(DrainSentences(u).out) = Cardinality(Boundaries(u))}
<1>1. ASSUME NEW u \in Seq(Char), Boundaries(u) = {} PROVE u \in T
  <2>1. DrainSentences(u).out = <<>> BY <1>1, DrainNone
  <2>2. Len(<<>>) = 0 BY EmptySeq
  <2>3. Cardinality(Boundaries(u)) = 0 BY <1>1, FS_EmptySet
  <2> QED BY <2>1, <2>2, <2>3
<1>2. ASSUME NEW u \in Seq(Char), NEW e, LeastBoundary(u, e), Behind(u, e) \in T
      PROVE  u \in T
  <2> DEFINE s == Strip(SubSeq(u, 1, e))
             d == DrainSentences(Behind(u, e))
  <2>1. DrainSentences(u).out = <<s>> \o d.out BY <1>2, DrainFirst
  <2>2. s \in Seq(Char) BY <1>2, FirstSentence DEF LeastBoundary
  <2>3. Len(d.out) = Cardinality(Boundaries(Behind(u, e)))
        /\ Behind(u, e) \in Seq(Char)
    BY <1>2
  <2>4. d.out \in Seq(Seq(Char)) BY <2>3, DrainType DEF Drained
  <2> HIDE DEF s, d
  <2>5. <<s>> \in Seq(Seq(Char)) /\ Len(<<s>>) = 1 BY <2>2
  <2>6. Len(<<s>> \o d.out) = 1 + Len(d.out) BY <2>4, <2>5, ConcatProperties
  <2>7. Len(d.out) \in Nat BY <2>4
  <2>8. Cardinality(Boundaries(u)) = Len(d.out) + 1
    BY <1>2, <2>3, OneBoundaryLess
  <2> QED BY <2>1, <2>6, <2>7, <2>8
<1> HIDE DEF T
<1>3. Seq(Char) \subseteq T BY <1>1, <1>2, TextInduction
<1> QED BY <1>3 DEF T

EndsInWord(text) == Len(text) # 0 /\ text[Len(text)] = "word"

(* A word at the end is left over.                                          *)
LEMMA WordIsLeft ==
  ASSUME NEW text \in Seq(Char), EndsInWord(text)
  PROVE  Flush(DrainSentences(text).rest) # <<>>
<1> DEFINE T == {u \in Seq(Char) :
                   EndsInWord(u) => Ink(DrainSentences(u).rest) # {}}
<1>1. ASSUME NEW u \in Seq(Char), Boundaries(u) = {} PROVE u \in T
  <2> SUFFICES ASSUME EndsInWord(u) PROVE Ink(DrainSentences(u).rest) # {}
    OBVIOUS
  <2>1. Len(u) \in Nat /\ DOMAIN u = 1 .. Len(u) OBVIOUS
  <2>2. Len(u) \in DOMAIN u BY <2>1 DEF EndsInWord
  <2>3. Len(u) \in Ink(u) BY <2>2 DEF Ink, EndsInWord
  <2> QED BY <1>1, <2>3, DrainNone
<1>2. ASSUME NEW u \in Seq(Char), NEW e, LeastBoundary(u, e), Behind(u, e) \in T
      PROVE  u \in T
  <2> SUFFICES ASSUME EndsInWord(u) PROVE Ink(DrainSentences(u).rest) # {}
    OBVIOUS
  <2> DEFINE n == Len(u)
             b == Behind(u, e)
  <2>1. n \in Nat /\ e \in 1 .. n /\ e \in 0 .. n
    BY <1>2, FirstSentence DEF LeastBoundary
  <2>2. u[e] = "space" BY <1>2 DEF LeastBoundary, Boundaries
  <2>3. e # n BY <2>2 DEF EndsInWord
  <2>4. /\ b \in Seq(Char) /\ Len(b) = n - e
        /\ \A k \in 1 .. n - e : b[k] = u[e + k]
    BY <2>1, BehindIs
  <2> HIDE DEF n, b
  <2>5. n - e \in 1 .. n - e /\ e + (n - e) = n /\ n - e # 0 BY <2>1, <2>3
  <2>6. b[n - e] = u[n] BY <2>4, <2>5
  <2>7. EndsInWord(b) BY <2>4, <2>5, <2>6 DEF EndsInWord, n
  <2>8. Ink(DrainSentences(b).rest) # {} BY <1>2, <2>7 DEF b
  <2> QED BY <1>2, <2>8, DrainFirst DEF b
<1> HIDE DEF T
<1>3. Seq(Char) \subseteq T BY <1>1, <1>2, TextInduction
<1>4. Ink(DrainSentences(text).rest) # {} BY <1>3 DEF T
<1>5. DrainSentences(text).rest \in Seq(Char) BY DrainType DEF Drained
<1>6. Strip(DrainSentences(text).rest) # <<>> BY <1>4, <1>5, StripType
<1> QED BY <1>6 DEF Flush

(* A text with a word behind it is split into a sentence for each boundary, *)
(* and one more.                                                            *)
LEMMA SplitCounts ==
  ASSUME NEW text \in Seq(Char)
  PROVE  /\ text \o <<"word">> \in Seq(Char)
         /\ Len(SplitSentences(text \o <<"word">>)) =
              Cardinality(Boundaries(text)) + 1
<1> DEFINE n == Len(text)
           w == text \o <<"word">>
           d == DrainSentences(w)
<1>1. <<"word">> \in Seq(Char) BY DEF Char
<1>2. /\ n \in Nat /\ w \in Seq(Char) /\ Len(w) = n + 1 /\ w[n + 1] = "word"
      /\ \A k \in 1 .. n : w[k] = text[k]
  BY <1>1
<1> HIDE DEF n, w
<1>3. Boundaries(w) = Boundaries(text)
  <2>1. ASSUME NEW j \in Boundaries(w) PROVE j \in Boundaries(text)
    <3>1. /\ j \in 1 .. n + 1 /\ w[j] = "space"
          /\ j = n + 1 \/ w[j + 1] # "space"
      BY <1>2 DEF Boundaries
    <3>2. j # n + 1 BY <1>2, <3>1
    <3>3. j \in 1 .. n BY <1>2, <3>1, <3>2
    <3>4. \A k \in 1 .. j : k \in 1 .. n BY <1>2, <3>3
    <3>5. \A k \in 1 .. j : text[k] = w[k] BY <1>2, <3>4
    <3>6. j = n \/ text[j + 1] # "space"
      <4>1. j # n => j + 1 \in 1 .. n BY <1>2, <3>3
      <4> QED BY <1>2, <3>1, <3>2, <4>1
    <3> QED BY <1>2, <3>3, <3>5, <3>6, BoundaryCopies DEF n
  <2>2. ASSUME NEW j \in Boundaries(text) PROVE j \in Boundaries(w)
    <3>1. /\ j \in 1 .. n /\ (j = n \/ text[j + 1] # "space")
      BY DEF Boundaries, n
    <3>2. \A k \in 1 .. j : k \in 1 .. n BY <1>2, <3>1
    <3>3. \A k \in 1 .. j : w[k] = text[k] BY <1>2, <3>2
    <3>4. j \in 1 .. Len(w) BY <1>2, <3>1
    <3>5. w[j + 1] # "space"
      <4>1. j # n => j + 1 \in 1 .. n BY <1>2, <3>1
      <4> QED BY <1>2, <3>1, <4>1
    <3> QED BY <1>2, <3>3, <3>4, <3>5, BoundaryCopies
  <2> QED BY <2>1, <2>2
<1>4. d.out \in Seq(Seq(Char)) /\ d.rest \in Seq(Char)
  BY <1>2, DrainType DEF Drained
<1>5. Len(d.out) = Cardinality(Boundaries(text)) BY <1>2, <1>3, OneForEach
<1>6. Flush(d.rest) # <<>>
  <2>1. EndsInWord(w) BY <1>2 DEF EndsInWord
  <2> QED BY <1>2, <2>1, WordIsLeft
<1>7. SplitSentences(w) = d.out \o Flush(d.rest) BY DEF SplitSentences
<1> HIDE DEF d
<1>8. Flush(d.rest) \in Seq(Seq(Char)) BY <1>4, FlushType
<1>9. Len(Flush(d.rest)) = 1 BY <1>6 DEF Flush
<1>10. Len(d.out \o Flush(d.rest)) = Len(d.out) + Len(Flush(d.rest))
  BY <1>4, <1>8, ConcatProperties
<1> QED BY <1>2, <1>5, <1>7, <1>9, <1>10 DEF w

(* Whatever the stream still brings, what has been spoken and the buffer    *)
(* with it are what the whole reply would be split into.                    *)
SpeechInv ==
  /\ reply \in Seq(Char) /\ Len(reply) <= MaxText
  /\ buf \in Seq(Char) /\ Boundaries(buf) = {}
  /\ said \in Seq(Seq(Char) \ {<<>>})
  /\ \A t \in Seq(Char) :
       SplitSentences(reply \o t) = said \o SplitSentences(buf \o t)

(* It holds of an empty reply ...                                           *)
LEMMA SpeechInit == SentencesInit => SpeechInv
<1> SUFFICES ASSUME SentencesInit PROVE SpeechInv OBVIOUS
<1>1. reply = <<>> /\ buf = <<>> /\ said = <<>> BY DEF SentencesInit
<1>2. <<>> \in Seq(Char) /\ Len(<<>>) = 0 /\ Len(<<>>) <= MaxText
  BY SentencesAssumption
<1>3. Boundaries(<<>>) = {} BY DEF Boundaries
<1>4. ASSUME NEW t \in Seq(Char)
      PROVE  SplitSentences(<<>> \o t) = <<>> \o SplitSentences(<<>> \o t)
  <2>1. <<>> \o t \in Seq(Char) BY <1>2, ConcatProperties
  <2> QED BY <2>1, SplitType, ConcatEmptySeq
<1>5. <<>> \in Seq(Seq(Char) \ {<<>>}) OBVIOUS
<1> QED BY <1>1, <1>2, <1>3, <1>4, <1>5 DEF SpeechInv

(* ... every token keeps it: draining early makes no difference ...         *)
LEMMA SpeechStep == SpeechInv /\ [SentencesNext]_sentencesVars => SpeechInv'
<1> SUFFICES ASSUME SpeechInv, [SentencesNext]_sentencesVars PROVE SpeechInv'
  OBVIOUS
<1>1. ASSUME NEW token \in Token, HearToken(token) PROVE SpeechInv'
  <2> DEFINE Texts == Seq(Char) \ {<<>>}
             u == buf \o token
             d == DrainSentences(u)
  <2>1. token \in Seq(Char) BY DEF Token
  <2>2. /\ reply' = reply \o token /\ said' = said \o d.out /\ buf' = d.rest
        /\ Len(reply) + Len(token) <= MaxText
    BY <1>1 DEF HearToken
  <2>3. /\ reply \in Seq(Char) /\ buf \in Seq(Char) /\ said \in Seq(Texts)
        /\ \A t \in Seq(Char) :
             SplitSentences(reply \o t) = said \o SplitSentences(buf \o t)
    BY DEF SpeechInv
  <2>4. u \in Seq(Char) BY <2>1, <2>3, ConcatProperties
  <2>5. /\ d.out \in Seq(Texts) /\ d.rest \in Seq(Char)
        /\ d.out \in Seq(Seq(Char)) /\ Boundaries(d.rest) = {}
    BY <2>4, SentencesNotEmpty, DrainType, RestHasNoEnd DEF Drained
  <2>6. reply' \in Seq(Char) /\ Len(reply') <= MaxText
    BY <2>1, <2>2, <2>3, ConcatProperties
  <2>7. said \in Seq(Seq(Char))
    <3>1. Texts \subseteq Seq(Char) OBVIOUS
    <3> HIDE DEF Texts
    <3> QED BY <2>3, <3>1, SeqMonotonic
  <2> HIDE DEF Texts, u, d
  <2>8. said' \in Seq(Texts) BY <2>2, <2>3, <2>5, ConcatProperties
  <2>9. ASSUME NEW t \in Seq(Char)
        PROVE  SplitSentences(reply' \o t) = said' \o SplitSentences(buf' \o t)
    <3> DEFINE x == token \o t
               rest == SplitSentences(d.rest \o t)
    <3>1. x \in Seq(Char) BY <2>1, ConcatProperties
    <3>2. reply' \o t = reply \o x
      <4> DEFINE S == Char
      <4>1. reply \in Seq(S) /\ token \in Seq(S) /\ t \in Seq(S) BY <2>1, <2>3
      <4> HIDE DEF S
      <4>2. (reply \o token) \o t = reply \o (token \o t)
        BY <4>1, ConcatAssociative, SMTT(30)
      <4> QED BY <2>2, <4>2
    <3>3. buf \o x = u \o t
      <4> DEFINE S == Char
      <4>1. buf \in Seq(S) /\ token \in Seq(S) /\ t \in Seq(S) BY <2>1, <2>3
      <4> HIDE DEF S
      <4>2. (buf \o token) \o t = buf \o (token \o t)
        BY <4>1, ConcatAssociative, SMTT(30)
      <4> QED BY <4>2 DEF u
    <3>4. SplitSentences(reply \o x) = said \o SplitSentences(u \o t)
      BY <2>3, <3>1, <3>3
    <3>5. SplitSentences(u \o t) = d.out \o rest
      BY <2>4, DrainAhead DEF Ahead, d
    <3>6. rest \in Seq(Seq(Char))
      <4>1. d.rest \o t \in Seq(Char) BY <2>5, ConcatProperties
      <4> QED BY <4>1, SplitType
    <3> HIDE DEF x, rest
    <3>7. said \o (d.out \o rest) = (said \o d.out) \o rest
      <4> DEFINE S == Seq(Char)
                 y == d.out
      <4>1. said \in Seq(S) /\ y \in Seq(S) /\ rest \in Seq(S)
        BY <2>5, <2>7, <3>6
      <4> HIDE DEF S, y
      <4>2. (said \o y) \o rest = said \o (y \o rest)
        BY <4>1, ConcatAssociative, SMTT(30)
      <4> QED BY <4>2 DEF y
    <3> QED BY <2>2, <3>2, <3>4, <3>5, <3>7 DEF rest
  <2>10. buf' \in Seq(Char) /\ Boundaries(buf)' = {} BY <2>2, <2>5
  <2> QED BY <2>6, <2>8, <2>9, <2>10 DEF SpeechInv, Texts
<1>2. ASSUME UNCHANGED sentencesVars PROVE SpeechInv'
  <2>1. reply' = reply /\ buf' = buf /\ said' = said
    BY <1>2 DEF sentencesVars
  <2>2. Boundaries(buf)' = Boundaries(buf) BY <2>1
  <2> QED BY <2>1, <2>2 DEF SpeechInv
<1> QED BY <1>1, <1>2 DEF SentencesNext

(* ... and so it always holds.                                              *)
LEMMA SpeechInvariant == SentencesSpec => []SpeechInv
<1> QED BY SpeechInit, SpeechStep, PTL DEF SentencesSpec

(* No sentence that is spoken is empty (SentencesTypeOK), however the reply *)
(* is cut into tokens.                                                      *)
THEOREM SpeechTypes == SentencesSpec => []SentencesTypeOK
<1>1. SpeechInv => SentencesTypeOK BY DEF SpeechInv, SentencesTypeOK
<1> QED BY <1>1, SpeechInvariant, PTL

(* However a reply of any length is cut into tokens, it is spoken sentence  *)
(* by sentence as it is written, each with the token that completes it      *)
(* (SpeechIsFaithful; drain_sentences, iter_sentences, _sse_with_audio).    *)
THEOREM SpokenAsItStreams == SentencesSpec => []SpeechIsFaithful
<1>1. ASSUME SpeechInv PROVE SpokenAsWritten
  <2>1. /\ reply \in Seq(Char) /\ buf \in Seq(Char) /\ Boundaries(buf) = {}
        /\ <<>> \in Seq(Char)
    BY <1>1 DEF SpeechInv
  <2>2. SplitSentences(reply \o <<>>) = said \o SplitSentences(buf \o <<>>)
    BY <1>1, <2>1 DEF SpeechInv
  <2>3. reply \o <<>> = reply /\ buf \o <<>> = buf BY <2>1, ConcatEmptySeq
  <2>4. SplitSentences(buf) = Flush(buf) BY <2>1, SplitNone
  <2> QED BY <2>2, <2>3, <2>4 DEF SpokenAsWritten
<1>2. ASSUME SpeechInv PROVE SpokenAtOnce
  <2> DEFINE word == <<"word">>
             r == SplitSentences(reply \o word)
             b == SplitSentences(buf \o word)
  <2>1. /\ reply \in Seq(Char) /\ buf \in Seq(Char) /\ Boundaries(buf) = {}
        /\ said \in Seq(Seq(Char) \ {<<>>})
    BY <1>2 DEF SpeechInv
  <2>2. word \in Seq(Char) BY DEF Char
  <2>3. r = said \o b BY <1>2, <2>2 DEF SpeechInv
  <2>4. Len(r) = Cardinality(Boundaries(reply)) + 1 BY <2>1, SplitCounts
  <2>5. Len(b) = 1
    <3>1. Len(b) = Cardinality(Boundaries(buf)) + 1 BY <2>1, SplitCounts
    <3>2. Cardinality(Boundaries(buf)) = 0 BY <2>1, FS_EmptySet
    <3> HIDE DEF b
    <3> QED BY <3>1, <3>2
  <2>6. b \in Seq(Seq(Char))
    <3>1. buf \o word \in Seq(Char) BY <2>1, <2>2, ConcatProperties
    <3> QED BY <3>1, SplitType
  <2>7. said \in Seq(Seq(Char))
    <3> DEFINE Texts == Seq(Char) \ {<<>>}
    <3>1. said \in Seq(Texts) /\ Texts \subseteq Seq(Char) BY <2>1
    <3> HIDE DEF Texts
    <3> QED BY <3>1, SeqMonotonic
  <2>8. Cardinality(Boundaries(reply)) \in Nat BY <2>1, BoundariesFinite
  <2> HIDE DEF r, b
  <2>9. Len(r) = Len(said) + Len(b) /\ Len(said) \in Nat
    BY <2>3, <2>6, <2>7, ConcatProperties
  <2>10. Len(said) = Cardinality(Boundaries(reply)) BY <2>4, <2>5, <2>8, <2>9
  <2> QED BY <2>10 DEF SpokenAtOnce
<1>3. SpeechInv => SpeechIsFaithful BY <1>1, <1>2 DEF SpeechIsFaithful
<1> QED BY <1>3, SpeechInvariant, PTL

-----------------------------------------------------------------------------

(* The tokens of a number phrase, also as they are shown.                   *)
NumberToken == {Word(w) : w \in Words \ {"plain"}} \cup {Figure(v) : v \in Value}

(* What has been read of a phrase.                                          *)
Reading == [total : Nat, current : Nat, percent : BOOLEAN]

(* The words of the tables are apart from each other and from the markers.  *)
LEMMA WordsApart ==
  /\ One \in Nat /\ One # 0 /\ One > 0
  /\ \A w \in PercentWords : /\ w \notin DOMAIN Units /\ w \notin DOMAIN Scales
                             /\ w \notin {"figure", "hundred", "plain"}
  /\ \A w \in DOMAIN Units : /\ w \notin DOMAIN Scales /\ Units[w] \in Nat
                             /\ w \notin {"figure", "hundred", "%", "percent", "plain"}
  /\ \A w \in DOMAIN Scales : /\ w \notin DOMAIN Units
                              /\ Scales[w] \in Nat /\ Scales[w] > 0
                              /\ w \notin {"figure", "hundred", "%", "percent", "plain"}
  /\ \A w \in {"figure", "hundred", "%", "percent", "plain"} :
       w \notin DOMAIN Units /\ w \notin DOMAIN Scales
<1>1. \A w \in DOMAIN Scales : Scales[w] \in Nat /\ Scales[w] > 0
  BY NumbersAssumption
<1>2. \A w \in DOMAIN Units : Units[w] \in Nat /\ w \notin DOMAIN Scales
  BY NumbersAssumption
<1>3. \A w \in {"figure", "hundred", "%", "percent", "plain"} :
        w \notin DOMAIN Units /\ w \notin DOMAIN Scales
  BY NumbersAssumption
<1>4. One \in Nat /\ One # 0 /\ One > 0 BY NumbersAssumption
<1> QED BY <1>1, <1>2, <1>3, <1>4 DEF PercentWords

(* What a number token is: a figure with its number, or a word of a table.  *)
LEMMA TokenIs ==
  ASSUME NEW t \in NumberToken
  PROVE  /\ IsNumToken(t)
         /\ \/ t.word = "figure" /\ t.n \in Nat /\ t.percent \in BOOLEAN
               /\ t = Figure([n |-> t.n, percent |-> t.percent])
            \/ /\ t.word \in DOMAIN Units \cup DOMAIN Scales
                              \cup {"hundred"} \cup PercentWords
               /\ t = Word(t.word)
<1>1. CASE t \in {Word(w) : w \in Words \ {"plain"}}
  <2>1. PICK w \in Words \ {"plain"} : t = Word(w) BY <1>1
  <2>2. t.word = w BY <2>1 DEF Word
  <2> QED BY <2>1, <2>2 DEF Words, PercentWords, IsNumToken
<1>2. CASE t \in {Figure(v) : v \in Value}
  <2>1. PICK v \in Value : t = Figure(v) BY <1>2
  <2>2. t.word = "figure" /\ t.n = v.n /\ t.percent = v.percent
    BY <2>1 DEF Figure
  <2>3. v.n \in Nat /\ v.percent \in BOOLEAN /\ v = [n |-> v.n, percent |-> v.percent]
    BY DEF Value
  <2> QED BY <2>1, <2>2, <2>3 DEF IsNumToken
<1> QED BY <1>1, <1>2 DEF NumberToken

(* A spoken token is plain or a number token.                               *)
LEMMA SpokenIs ==
  ASSUME NEW t \in SpokenToken
  PROVE  t = Word("plain") \/ (t \in NumberToken /\ ~t.percent)
<1>1. CASE t \in {Word(w) : w \in Words}
  <2>1. PICK w \in Words : t = Word(w) BY <1>1
  <2>2. ~t.percent BY <2>1 DEF Word
  <2> QED BY <2>1, <2>2 DEF NumberToken
<1>2. CASE t \in {Figure([n |-> n, percent |-> FALSE]) : n \in Figures}
  <2>1. PICK n \in Figures : t = Figure([n |-> n, percent |-> FALSE]) BY <1>2
  <2>2. n \in Nat BY NumbersAssumption
  <2>3. [n |-> n, percent |-> FALSE] \in Value BY <2>2 DEF Value
  <2>4. ~t.percent BY <2>1 DEF Figure
  <2> QED BY <2>1, <2>3, <2>4 DEF NumberToken
<1> QED BY <1>1, <1>2 DEF SpokenToken

(* What a token adds to its group.                                          *)
LEMMA AmountIs ==
  ASSUME NEW t \in NumberToken
  PROVE  Amount(t) \in Nat
<1>1. CASE t.word = "figure"
  <2>1. t.n \in Nat BY <1>1, TokenIs, WordsApart
  <2> QED BY <1>1, <2>1 DEF Amount
<1>2. CASE t.word # "figure" /\ t.word \in DOMAIN Units
  <2>1. Units[t.word] \in Nat /\ One \in Nat BY <1>2, WordsApart
  <2>2. Units[t.word] * One \in Nat BY <2>1
  <2> QED BY <1>2, <2>2 DEF Amount
<1>3. CASE t.word # "figure" /\ t.word \notin DOMAIN Units
  BY <1>3 DEF Amount
<1> QED BY <1>1, <1>2, <1>3

(* What reading one token does.                                             *)
LEMMA ReadIs ==
  ASSUME NEW acc \in Reading, NEW t \in NumberToken
  PROVE  /\ Read(acc, t) \in Reading
         /\ t.word = "figure" \/ t.word \in DOMAIN Units =>
              /\ Read(acc, t).total = acc.total
              /\ Read(acc, t).current = acc.current + Amount(t)
         /\ t.word = "hundred" =>
              /\ Read(acc, t).total = acc.total
              /\ Read(acc, t).current = OrOne(acc.current) * 100
         /\ t.word \in DOMAIN Scales =>
              /\ Read(acc, t).total =
                   acc.total + OrOne(acc.current) * Scales[t.word]
              /\ Read(acc, t).current = 0
         /\ t.word \in PercentWords => /\ Read(acc, t).total = acc.total
                                       /\ Read(acc, t).current = acc.current
         /\ Read(acc, t).percent =
              (acc.percent \/ t.percent \/ t.word \in PercentWords)
<1>1. acc.total \in Nat /\ acc.current \in Nat /\ acc.percent \in BOOLEAN
  BY DEF Reading
<1>2. OrOne(acc.current) \in Nat BY <1>1, WordsApart DEF OrOne
<1>3. CASE t.word = "figure" /\ t.n \in Nat /\ t.percent \in BOOLEAN
  <2>1. Read(acc, t) = [acc EXCEPT !.current = acc.current + t.n,
                                   !.percent = acc.percent \/ t.percent]
    BY <1>3, WordsApart DEF Read
  <2>2. acc.current + t.n \in Nat /\ (acc.percent \/ t.percent) \in BOOLEAN
    BY <1>1, <1>3
  <2>3. Amount(t) = t.n BY <1>3 DEF Amount
  <2> QED BY <1>1, <1>3, <2>1, <2>2, <2>3, WordsApart DEF Reading
<1>4. CASE t.word \in DOMAIN Units /\ t = Word(t.word)
  <2>1. t.word # "figure" /\ Units[t.word] \in Nat /\ ~t.percent
        /\ t.word \notin DOMAIN Scales \cup {"hundred"} \cup PercentWords
    BY <1>4, WordsApart DEF Word
  <2>2. Read(acc, t) = [acc EXCEPT !.current = acc.current + Units[t.word] * One]
    BY <1>4, <2>1 DEF Read
  <2>3. Amount(t) = Units[t.word] * One BY <1>4, <2>1 DEF Amount
  <2>5. Units[t.word] * One \in Nat BY <2>1, WordsApart
  <2>4. acc.current + Units[t.word] * One \in Nat BY <1>1, <2>5
  <2> QED BY <1>1, <2>1, <2>2, <2>3, <2>4 DEF Reading
<1>5. CASE t.word = "hundred" /\ t = Word(t.word)
  <2>1. t.word # "figure" /\ t.word \notin DOMAIN Units /\ ~t.percent
        /\ t.word \notin DOMAIN Scales /\ t.word \notin PercentWords
    BY <1>5, WordsApart DEF Word
  <2>2. Read(acc, t) = [acc EXCEPT !.current = OrOne(acc.current) * 100]
    BY <1>5, <2>1 DEF Read
  <2>3. OrOne(acc.current) * 100 \in Nat BY <1>2
  <2> QED BY <1>1, <1>5, <2>1, <2>2, <2>3 DEF Reading
<1>6. CASE t.word \in DOMAIN Scales /\ t = Word(t.word)
  <2> DEFINE closed == acc.total + OrOne(acc.current) * Scales[t.word]
  <2>1. t.word # "figure" /\ t.word \notin DOMAIN Units /\ ~t.percent
        /\ t.word # "hundred" /\ t.word \notin PercentWords
        /\ Scales[t.word] \in Nat
    BY <1>6, WordsApart DEF Word
  <2>2. Read(acc, t) = [acc EXCEPT !.total = closed, !.current = 0]
    BY <1>6, <2>1 DEF Read
  <2>3. OrOne(acc.current) * Scales[t.word] \in Nat BY <1>2, <2>1
  <2>4. closed \in Nat BY <1>1, <2>3
  <2> HIDE DEF closed
  <2>5. /\ Read(acc, t) \in Reading
        /\ Read(acc, t).total = closed /\ Read(acc, t).current = 0
        /\ Read(acc, t).percent = acc.percent
    <3>1. Read(acc, t) =
            [total |-> closed, current |-> 0, percent |-> acc.percent]
      BY <2>2, Zenon DEF Reading
    <3> QED BY <1>1, <2>4, <3>1 DEF Reading
  <2>6. (acc.percent \/ t.percent \/ t.word \in PercentWords) = acc.percent
    BY <1>1, <2>1
  <2> QED BY <1>6, <2>1, <2>5, <2>6 DEF closed
<1>7. CASE t.word \in PercentWords /\ t = Word(t.word)
  <2>1. t.word # "figure" /\ t.word \notin DOMAIN Units /\ t.word # "hundred"
        /\ t.word \notin DOMAIN Scales
    BY <1>7, WordsApart
  <2>2. Read(acc, t) = [acc EXCEPT !.percent = TRUE] BY <1>7, <2>1 DEF Read
  <2> QED BY <1>1, <1>7, <2>1, <2>2 DEF Reading
<1> QED BY <1>3, <1>4, <1>5, <1>6, <1>7, TokenIs

(* The reading of a phrase, token by token.                                 *)
IsReading(run, p) ==
  /\ run \in [0 .. Len(p) -> Reading]
  /\ run[0] = [total |-> 0, current |-> 0, percent |-> FALSE]
  /\ \A k \in 1 .. Len(p) : run[k] = Read(run[k - 1], p[k])
  /\ PhraseValue(p) = [n |-> run[Len(p)].total + run[Len(p)].current,
                       percent |-> run[Len(p)].percent]

(* Every phrase is read token by token.                                     *)
LEMMA PhraseRuns ==
  ASSUME NEW p \in Seq(NumberToken)
  PROVE  \E run : IsReading(run, p)
<1> DEFINE n == Len(p)
           base == [total |-> 0, current |-> 0, percent |-> FALSE]
           step == [q \in (1 .. n) \X Reading |-> Read(q[2], p[q[1]])]
           Is(f) == f = [t \in SUBSET (1 .. n) |->
                           IF t = {} THEN base
                           ELSE Read(f[t \ {Max(t)}], p[Max(t)])]
           iter == CHOOSE f : Is(f)
           last == FoldLeft(Read, base, p)
<1>1. n \in Nat /\ DOMAIN p = 1 .. n OBVIOUS
<1>2. last = iter[1 .. n] BY <1>1 DEF FoldLeft, MapThenFoldSet
<1>3. \A k \in 1 .. n, v \in Reading : Read(v, p[k]) \in Reading BY ReadIs
<1>4. step \in [(1 .. n) \X Reading -> Reading] BY <1>3
<1>5. \A k \in 1 .. n, v \in Reading : step[<<k, v>>] = Read(v, p[k]) OBVIOUS
<1>6. \A t \in SUBSET (1 .. n) : t # {} => Max(t) \in 1 .. n
  BY <1>1, GreatestPlace
<1>0. base \in Reading BY DEF Reading
<1> HIDE DEF base
<1>7. Is(iter)
  <2> HIDE DEF n, step
  <2>1. PICK f \in [SUBSET (1 .. n) -> Reading] :
          IsFold(f, 1 .. n, base, [t \in SUBSET (1 .. n) |-> Max(t)], step)
    BY <1>0, <1>1, <1>4, LeftFoldExists
  <2>2. Is(f)
    <3> SUFFICES ASSUME NEW t \in SUBSET (1 .. n)
                 PROVE  f[t] = IF t = {} THEN base
                               ELSE Read(f[t \ {Max(t)}], p[Max(t)])
      BY <2>1
    <3>1. f[t \ {Max(t)}] \in Reading BY <2>1
    <3> QED BY <2>1, <3>1, <1>5, <1>6 DEF IsFold
  <2> QED BY <2>2
<1>8. StepsLeft(iter, n, Reading, base, step)
  <2> HIDE DEF n, step, iter
  <2> QED BY <1>5, <1>6, <1>7 DEF StepsLeft
<1> HIDE DEF n, step, iter
<1>9. PICK run \in [0 .. n -> Reading] : IsRun(run, n, base, step, iter[1 .. n])
  BY <1>0, <1>1, <1>4, <1>8, LeftFoldRuns
<1>10. ASSUME NEW k \in 1 .. n PROVE run[k] = Read(run[k - 1], p[k])
  <2>1. run[k - 1] \in Reading BY <1>1, <1>9
  <2>2. run[k] = step[<<k, run[k - 1]>>] BY <1>9 DEF IsRun
  <2> QED BY <2>1, <2>2, <1>5
<1>11. run[0] = base /\ run[n] = last BY <1>2, <1>9 DEF IsRun
<1> HIDE DEF last
<1>12. PhraseValue(p) = [n |-> last.total + last.current, percent |-> last.percent]
  BY DEF PhraseValue, last, base
<1> QED BY <1>9, <1>10, <1>11, <1>12 DEF IsReading, n, base

(* A phrase has a value.                                                    *)
LEMMA PhraseType ==
  ASSUME NEW p \in Seq(NumberToken)
  PROVE  PhraseValue(p) \in Value
<1>1. PICK run : IsReading(run, p) BY PhraseRuns
<1>2. Len(p) \in 0 .. Len(p) BY LenProperties
<1>3. run[Len(p)] \in Reading BY <1>1, <1>2 DEF IsReading
<1>4. run[Len(p)].total \in Nat /\ run[Len(p)].current \in Nat
      /\ run[Len(p)].percent \in BOOLEAN
  BY <1>3 DEF Reading
<1>5. run[Len(p)].total + run[Len(p)].current \in Nat BY <1>4
<1>6. PhraseValue(p) = [n |-> run[Len(p)].total + run[Len(p)].current,
                        percent |-> run[Len(p)].percent]
  BY <1>1 DEF IsReading
<1> QED BY <1>4, <1>5, <1>6 DEF Value
-----------------------------------------------------------------------------
(* What one is worth at a place of a phrase, from what it is worth behind.  *)
WorthOne(p, i, behind) ==
  IF p[i].word \in DOMAIN Scales THEN Scales[p[i].word]
  ELSE IF p[i].word = "hundred" THEN 100 * behind ELSE behind

(* The factors of a phrase, from its end.                                   *)
LEMMA FactorIs ==
  ASSUME NEW p \in Seq(NumberToken)
  PROVE  /\ Factor(p)[Len(p) + 1] = 1
         /\ \A i \in 1 .. Len(p) + 1 : Factor(p)[i] \in Nat
         /\ \A i \in 1 .. Len(p) :
              Factor(p)[i] = WorthOne(p, i, Factor(p)[i + 1])
<1> DEFINE n == Len(p)
           step == [q \in (1 .. n) \X Nat |-> WorthOne(p, q[1], q[2])]
           Is(f) == f = [i \in 1 .. n + 1 |->
                           IF i > n THEN 1
                           ELSE IF p[i].word \in DOMAIN Scales
                                THEN Scales[p[i].word]
                           ELSE IF p[i].word = "hundred"
                                THEN 100 * f[i + 1] ELSE f[i + 1]]
           F == CHOOSE f : Is(f)
<1>1. n \in Nat OBVIOUS
<1>2. Factor(p) = F BY DEF Factor
<1>3. \A i \in 1 .. n, v \in Nat : WorthOne(p, i, v) \in Nat
  BY WordsApart DEF WorthOne
<1>4. step \in [(1 .. n) \X Nat -> Nat] BY <1>3
<1>5. \A i \in 1 .. n, v \in Nat : step[<<i, v>>] = WorthOne(p, i, v) OBVIOUS
<1>6. PICK iter \in [SUBSET (1 .. n) -> Nat] :
        IsFold(iter, 1 .. n, 1, [t \in SUBSET (1 .. n) |-> Min(t)], step)
  <2> HIDE DEF step, n
  <2> QED BY <1>1, <1>4, RightFoldExists
<1> DEFINE G == [i \in 1 .. n + 1 |-> iter[i .. n]]
<1>7. \A i \in 1 .. n + 1 : G[i] \in Nat /\ G[i] = iter[i .. n]
  <2>1. ASSUME NEW i \in 1 .. n + 1 PROVE i .. n \in SUBSET (1 .. n)
    <3>1. \A x \in i .. n : x \in 1 .. n BY <1>1
    <3> HIDE DEF n
    <3> QED BY <3>1
  <2> HIDE DEF n
  <2> QED BY <1>6, <2>1
<1>8. G[n + 1] = 1
  <2>1. n + 1 .. n = {} /\ {} \in SUBSET (1 .. n) BY <1>1
  <2>2. iter[{}] = 1 BY <1>6, <2>1 DEF IsFold
  <2> QED BY <1>1, <1>7, <2>1, <2>2
<1>9. ASSUME NEW i \in 1 .. n PROVE G[i] = WorthOne(p, i, G[i + 1])
  <2> HIDE DEF G, step, n
  <2>1. i .. n \in SUBSET (1 .. n) /\ i .. n # {}
    <3>1. i \in i .. n /\ \A x \in i .. n : x \in 1 .. n BY <1>1
    <3> QED BY <3>1
  <2>2. Min(i .. n) = i /\ (i .. n) \ {i} = i + 1 .. n BY <1>1, LeastPlace
  <2>3. iter[i .. n] = step[<<i, iter[i + 1 .. n]>>]
    <3> DEFINE s == i .. n
               next == [t \in SUBSET (1 .. n) |-> Min(t)]
    <3>1. next[s] = i BY <2>1, <2>2
    <3>2. iter[s] = step[<<next[s], iter[s \ {next[s]}]>>]
      <4> HIDE DEF s
      <4> QED BY <1>6, <2>1 DEF IsFold, s
    <3> QED BY <2>2, <3>1, <3>2
  <2>4. i \in 1 .. n + 1 /\ i + 1 \in 1 .. n + 1 BY <1>1
  <2>5. G[i] = iter[i .. n] /\ G[i + 1] = iter[i + 1 .. n] /\ G[i + 1] \in Nat
    BY <1>7, <2>4
  <2> QED BY <1>5, <2>3, <2>5
<1>10. Is(G)
  <2>1. ASSUME NEW i \in 1 .. n + 1
        PROVE  G[i] = IF i > n THEN 1
                      ELSE IF p[i].word \in DOMAIN Scales
                           THEN Scales[p[i].word]
                      ELSE IF p[i].word = "hundred"
                           THEN 100 * G[i + 1] ELSE G[i + 1]
    <3> HIDE DEF G, n
    <3>1. CASE i > n
      <4>1. i = n + 1 BY <1>1, <3>1
      <4> QED BY <1>8, <3>1, <4>1
    <3>2. CASE ~(i > n)
      <4>1. i \in 1 .. n BY <1>1, <3>2
      <4> QED BY <1>9, <3>2, <4>1 DEF WorthOne
    <3> QED BY <3>1, <3>2
  <2> QED BY <2>1
<1>11. Is(F)
  <2> HIDE DEF G, n
  <2> QED BY <1>10
<1> HIDE DEF F, G, step
<1>12. F[n + 1] = 1
  <2>1. n + 1 \in 1 .. n + 1 /\ n + 1 > n BY <1>1
  <2> HIDE DEF n
  <2> QED BY <1>11, <2>1
<1>13. ASSUME NEW i \in 1 .. n PROVE F[i] = WorthOne(p, i, F[i + 1])
  <2>1. i \in 1 .. n + 1 /\ ~(i > n) BY <1>1
  <2> HIDE DEF n
  <2> QED BY <1>11, <2>1 DEF WorthOne
<1> DEFINE T == {k \in Nat : k <= n => F[n + 1 - k] \in Nat}
<1>14. 0 \in T
  <2>1. n + 1 - 0 = n + 1 BY <1>1
  <2> QED BY <1>12, <2>1
<1>15. ASSUME NEW k \in Nat, k \in T PROVE k + 1 \in T
  <2> SUFFICES ASSUME k + 1 <= n PROVE F[n + 1 - (k + 1)] \in Nat OBVIOUS
  <2>1. n + 1 - (k + 1) \in 1 .. n /\ (n + 1 - (k + 1)) + 1 = n + 1 - k
        /\ k <= n
    BY <1>1
  <2>2. F[n + 1 - k] \in Nat BY <1>15, <2>1
  <2> QED BY <1>3, <1>13, <2>1, <2>2
<1>16. Nat \subseteq T
  <2> HIDE DEF T
  <2> QED BY <1>14, <1>15, SetInduction
<1>17. ASSUME NEW i \in 1 .. n + 1 PROVE F[i] \in Nat
  <2>1. n + 1 - i \in Nat /\ n + 1 - i <= n /\ n + 1 - (n + 1 - i) = i
    BY <1>1
  <2>2. n + 1 - i \in T BY <1>16, <2>1
  <2> QED BY <2>1, <2>2
<1> QED BY <1>2, <1>12, <1>13, <1>17 DEF n

(* Nothing but zeros has been said in the group that is open after k words. *)
Fresh(p, k) ==
  \A j \in 1 .. k :
    (\A m \in j .. k : p[m].word \notin DOMAIN Scales)
      => p[j].word # "hundred" /\ Amount(p[j]) = 0

(* One word more.                                                           *)
LEMMA FreshStep ==
  ASSUME NEW p, NEW k \in Nat
  PROVE  /\ p[k + 1].word \in DOMAIN Scales => Fresh(p, k + 1)
         /\ p[k + 1].word \notin DOMAIN Scales =>
              (Fresh(p, k + 1) <=> /\ Fresh(p, k)
                                   /\ p[k + 1].word # "hundred"
                                   /\ Amount(p[k + 1]) = 0)
<1>1. ASSUME p[k + 1].word \in DOMAIN Scales PROVE Fresh(p, k + 1)
  <2>1. \A j \in 1 .. k + 1 : k + 1 \in j .. k + 1 OBVIOUS
  <2> QED BY <1>1, <2>1 DEF Fresh
<1>2. ASSUME p[k + 1].word \notin DOMAIN Scales
      PROVE  Fresh(p, k + 1) <=> /\ Fresh(p, k)
                                 /\ p[k + 1].word # "hundred"
                                 /\ Amount(p[k + 1]) = 0
  <2>1. \A j \in 1 .. k : /\ j \in 1 .. k + 1
                          /\ \A m \in j .. k + 1 : m = k + 1 \/ m \in j .. k
                          /\ \A m \in j .. k : m \in j .. k + 1
    OBVIOUS
  <2>2. k + 1 \in 1 .. k + 1 /\ \A m \in k + 1 .. k + 1 : m = k + 1 OBVIOUS
  <2>3. \A j \in 1 .. k + 1 : j = k + 1 \/ j \in 1 .. k OBVIOUS
  <2>4. \A j \in 1 .. k :
          (\A m \in j .. k : p[m].word \notin DOMAIN Scales) <=>
          (\A m \in j .. k + 1 : p[m].word \notin DOMAIN Scales)
    BY <1>2, <2>1
  <2>5. \A m \in k + 1 .. k + 1 : p[m].word \notin DOMAIN Scales
    BY <1>2, <2>2
  <2>6. ASSUME Fresh(p, k + 1)
        PROVE  Fresh(p, k) /\ p[k + 1].word # "hundred" /\ Amount(p[k + 1]) = 0
    BY <2>1, <2>2, <2>4, <2>5, <2>6 DEF Fresh
  <2>7. ASSUME Fresh(p, k), p[k + 1].word # "hundred", Amount(p[k + 1]) = 0
        PROVE  Fresh(p, k + 1)
    BY <2>3, <2>4, <2>7 DEF Fresh
  <2> QED BY <2>6, <2>7
<1> QED BY <1>1, <1>2

(* The open group is zero as long as nothing but zeros was said in it.      *)
LEMMA OpenGroup ==
  ASSUME NEW p \in Seq(NumberToken), NEW run, IsReading(run, p),
         NEW k \in 0 .. Len(p)
  PROVE  run[k].current = 0 <=> Fresh(p, k)
<1> DEFINE n == Len(p)
           T == {c \in Nat : c <= n => (run[c].current = 0 <=> Fresh(p, c))}
<1>1. n \in Nat OBVIOUS
<1>2. 0 \in T
  <2>1. run[0].current = 0 BY DEF IsReading
  <2>2. Fresh(p, 0) BY DEF Fresh
  <2> QED BY <2>1, <2>2
<1>3. ASSUME NEW c \in Nat, c \in T PROVE c + 1 \in T
  <2> SUFFICES ASSUME c + 1 <= n
               PROVE  run[c + 1].current = 0 <=> Fresh(p, c + 1)
    OBVIOUS
  <2> DEFINE t == p[c + 1]
             C == run[c].current
  <2>1. c + 1 \in 1 .. n /\ c \in 0 .. n /\ (c + 1) - 1 = c BY <1>1
  <2>2. run[c] \in Reading /\ run[c + 1] = Read(run[c], t)
        /\ t \in NumberToken
    BY <2>1 DEF IsReading
  <2>3. C \in Nat /\ (C = 0 <=> Fresh(p, c))
    BY <1>3, <2>1, <2>2 DEF Reading
  <2> HIDE DEF t, C, T
  <2>4. CASE t.word = "figure" \/ t.word \in DOMAIN Units
    <3>1. run[c + 1].current = C + Amount(t) BY <2>2, <2>4, ReadIs DEF C
    <3>2. t.word \notin DOMAIN Scales /\ t.word # "hundred"
      BY <2>4, WordsApart
    <3>3. Amount(t) \in Nat BY <2>2, <2>4, AmountIs
    <3>4. C + Amount(t) = 0 <=> C = 0 /\ Amount(t) = 0 BY <2>3, <3>3
    <3> QED BY <2>3, <3>1, <3>2, <3>4, FreshStep DEF t
  <2>5. CASE t.word = "hundred"
    <3>1. run[c + 1].current = OrOne(C) * 100
      <4>1. Read(run[c], t).current = OrOne(run[c].current) * 100
        BY <2>2, <2>5, ReadIs
      <4> QED BY <2>2, <4>1 DEF C
    <3>2. OrOne(C) \in Nat /\ OrOne(C) # 0 BY <2>3, WordsApart DEF OrOne
    <3>3. OrOne(C) * 100 # 0 BY <3>2
    <3>4. t.word \notin DOMAIN Scales BY <2>5, WordsApart
    <3> QED BY <2>5, <3>1, <3>3, <3>4, FreshStep DEF t
  <2>6. CASE t.word \in DOMAIN Scales
    <3>1. run[c + 1].current = 0 BY <2>2, <2>6, ReadIs
    <3> QED BY <2>6, <3>1, FreshStep DEF t
  <2>7. CASE t.word \in PercentWords
    <3>1. run[c + 1].current = C
      <4>1. Read(run[c], t).current = run[c].current BY <2>2, <2>7, ReadIs
      <4> QED BY <2>2, <4>1 DEF C
    <3>2. t.word \notin DOMAIN Scales /\ t.word # "hundred" /\ Amount(t) = 0
      BY <2>7, WordsApart DEF Amount
    <3> QED BY <2>3, <3>1, <3>2, FreshStep DEF t
  <2> QED BY <2>2, <2>4, <2>5, <2>6, <2>7, TokenIs
<1>4. k \in T
  <2> HIDE DEF T
  <2>1. Nat \subseteq T BY <1>2, <1>3, SetInduction
  <2> QED BY <2>1
<1> QED BY <1>4
(* The parts of a reading add up, place by place: what is closed and what   *)
(* is open, times what the open group will be multiplied by, is the sum of  *)
(* what was counted.                                                        *)
LEMMA ReadingStep ==
  ASSUME NEW p \in Seq(NumberToken), NEW run, IsReading(run, p),
         NEW k \in 1 .. Len(p)
  PROVE  /\ run[k].total + run[k].current * Factor(p)[k + 1] =
              run[k - 1].total + run[k - 1].current * Factor(p)[k]
                + Counted(p, k) * Factor(p)[k]
         /\ Counted(p, k) * Factor(p)[k] \in Int
<1> DEFINE t == p[k]
           T == run[k - 1].total
           C == run[k - 1].current
           F == Factor(p)[k + 1]
<1>1. /\ k - 1 \in 0 .. Len(p) /\ k - 1 \in Nat /\ k + 1 \in 1 .. Len(p) + 1
      /\ t \in NumberToken /\ (k - 1) + 1 = k
  OBVIOUS
<1>2. run[k - 1] \in Reading /\ run[k] = Read(run[k - 1], t)
  BY <1>1 DEF IsReading
<1>3. T \in Nat /\ C \in Nat /\ OrOne(C) \in Nat
  BY <1>2, WordsApart DEF Reading, OrOne
<1>4. F \in Nat /\ Factor(p)[k] = WorthOne(p, k, F) BY <1>1, FactorIs
<1>5. C = 0 <=> Fresh(p, k - 1) BY <1>1, OpenGroup
<1>6. t.word = "hundred" \/ t.word \in DOMAIN Scales =>
        Counted(p, k) = OrOne(C) - C
  <2> SUFFICES ASSUME t.word = "hundred" \/ t.word \in DOMAIN Scales
               PROVE  Counted(p, k) = OrOne(C) - C
    OBVIOUS
  <2>1. Implicit(p, k) <=> Fresh(p, k - 1) BY DEF Implicit, Fresh
  <2>2. Amount(t) = 0 BY WordsApart DEF Amount
  <2>3. Counted(p, k) = IF C = 0 THEN One ELSE 0 BY <1>5, <2>1, <2>2 DEF Counted
  <2> HIDE DEF C
  <2> QED BY <1>3, <2>3, WordsApart DEF OrOne
<1>7. t.word # "hundred" /\ t.word \notin DOMAIN Scales =>
        Counted(p, k) = Amount(t)
  BY DEF Counted, Implicit
<1> HIDE DEF T, C, F, t
<1>8. CASE t.word = "figure" \/ t.word \in DOMAIN Units
  <2>1. Read(run[k - 1], t).total = T
        /\ Read(run[k - 1], t).current = C + Amount(t)
    BY <1>1, <1>2, <1>8, ReadIs DEF T, C
  <2>2. t.word # "hundred" /\ t.word \notin DOMAIN Scales
    BY <1>8, WordsApart
  <2>3. Amount(t) \in Nat BY <1>1, <1>8, AmountIs
  <2>4. Factor(p)[k] = F BY <1>4, <2>2 DEF WorthOne, t
  <2>5. Counted(p, k) = Amount(t) BY <1>7, <2>2
  <2> DEFINE a == Amount(t)
  <2> HIDE DEF a
  <2>6. T + (C + a) * F = T + C * F + a * F /\ a * F \in Int
    BY <1>3, <1>4, <2>3 DEF a
  <2> QED BY <1>2, <2>1, <2>4, <2>5, <2>6 DEF T, C, F, a
<1>9. CASE t.word = "hundred"
  <2>1. Read(run[k - 1], t).total = T
        /\ Read(run[k - 1], t).current = OrOne(C) * 100
    BY <1>1, <1>2, <1>9, ReadIs DEF T, C
  <2>2. t.word \notin DOMAIN Scales BY <1>9, WordsApart
  <2>3. Factor(p)[k] = 100 * F BY <1>4, <1>9, <2>2 DEF WorthOne, t
  <2>4. Counted(p, k) = OrOne(C) - C BY <1>6, <1>9
  <2> DEFINE o == OrOne(C)
  <2> HIDE DEF o
  <2>5. /\ T + (o * 100) * F = T + C * (100 * F) + (o - C) * (100 * F)
        /\ (o - C) * (100 * F) \in Int
    BY <1>3, <1>4 DEF o
  <2> QED BY <1>2, <2>1, <2>3, <2>4, <2>5 DEF T, C, F, o
<1>10. CASE t.word \in DOMAIN Scales
  <2> DEFINE S == Scales[t.word]
             o == OrOne(C)
  <2>1. Read(run[k - 1], t).total = T + o * S
        /\ Read(run[k - 1], t).current = 0
    BY <1>1, <1>2, <1>10, ReadIs DEF T, C
  <2>2. S \in Nat BY <1>10, WordsApart
  <2>3. Factor(p)[k] = S BY <1>4, <1>10 DEF WorthOne, t
  <2>4. Counted(p, k) = o - C BY <1>6, <1>10
  <2> HIDE DEF o, S
  <2>5. /\ (T + o * S) + 0 * F = T + C * S + (o - C) * S
        /\ (o - C) * S \in Int
    BY <1>3, <1>4, <2>2 DEF o
  <2> QED BY <1>2, <2>1, <2>3, <2>4, <2>5 DEF T, C, F
<1>11. CASE t.word \in PercentWords
  <2>1. Read(run[k - 1], t).total = T /\ Read(run[k - 1], t).current = C
    BY <1>1, <1>2, <1>11, ReadIs DEF T, C
  <2>2. t.word # "hundred" /\ t.word \notin DOMAIN Scales /\ Amount(t) = 0
    BY <1>11, WordsApart DEF Amount
  <2>3. Factor(p)[k] = F BY <1>4, <2>2 DEF WorthOne, t
  <2>4. Counted(p, k) = 0 BY <1>7, <2>2
  <2>5. T + C * F = T + C * F + 0 * F /\ 0 * F \in Int BY <1>3, <1>4
  <2> QED BY <1>2, <2>1, <2>3, <2>4, <2>5 DEF T, C, F
<1> QED BY <1>1, <1>8, <1>9, <1>10, <1>11, TokenIs
(* A phrase is a percentage if one of its tokens says so.                   *)
LEMMA PercentIs ==
  ASSUME NEW p \in Seq(NumberToken)
  PROVE  PhraseValue(p).percent <=>
           \E i \in DOMAIN p : p[i].percent \/ p[i].word \in PercentWords
<1> DEFINE n == Len(p)
           Says(i) == p[i].percent \/ p[i].word \in PercentWords
<1>1. PICK run : IsReading(run, p) BY PhraseRuns
<1> DEFINE T == {c \in Nat : c <= n =>
                   (run[c].percent <=> \E i \in 1 .. c : Says(i))}
<1>2. n \in Nat /\ DOMAIN p = 1 .. n OBVIOUS
<1>3. 0 \in T
  <2>1. run[0].percent = FALSE BY <1>1 DEF IsReading
  <2> QED BY <2>1
<1>4. ASSUME NEW c \in Nat, c \in T PROVE c + 1 \in T
  <2> SUFFICES ASSUME c + 1 <= n
               PROVE  run[c + 1].percent <=> \E i \in 1 .. c + 1 : Says(i)
    OBVIOUS
  <2>1. c + 1 \in 1 .. n /\ c \in 0 .. n /\ (c + 1) - 1 = c /\ c <= n BY <1>2
  <2>2. run[c] \in Reading /\ run[c + 1] = Read(run[c], p[c + 1])
        /\ p[c + 1] \in NumberToken
    BY <1>1, <2>1 DEF IsReading
  <2>3. run[c + 1].percent = (run[c].percent \/ p[c + 1].percent
                              \/ p[c + 1].word \in PercentWords)
    <3>1. \A acc \in Reading, t \in NumberToken :
            Read(acc, t).percent = (acc.percent \/ t.percent \/ t.word \in PercentWords)
      BY ReadIs
    <3> DEFINE acc == run[c]
               t == p[c + 1]
    <3>2. acc \in Reading /\ t \in NumberToken /\ run[c + 1] = Read(acc, t)
      BY <2>2
    <3>3. Read(acc, t).percent = (acc.percent \/ t.percent \/ t.word \in PercentWords)
      <4> HIDE DEF acc, t
      <4> QED BY <3>1, <3>2, Zenon
    <3> HIDE DEF acc, t
    <3>4. run[c + 1].percent = (acc.percent \/ t.percent \/ t.word \in PercentWords)
      BY <3>2, <3>3, Zenon
    <3> QED BY <3>4 DEF acc, t
  <2>4. run[c].percent <=> \E i \in 1 .. c : Says(i) BY <1>4, <2>1
  <2>5. /\ c + 1 \in 1 .. c + 1 /\ \A i \in 1 .. c : i \in 1 .. c + 1
        /\ \A i \in 1 .. c + 1 : i = c + 1 \/ i \in 1 .. c
    OBVIOUS
  <2>6. Says(c + 1) <=> p[c + 1].percent \/ p[c + 1].word \in PercentWords
    OBVIOUS
  <2>7. run[c + 1].percent <=> run[c].percent \/ Says(c + 1)
    BY <2>3, <2>6, Zenon
  <2> HIDE DEF Says
  <2>8. (\E i \in 1 .. c + 1 : Says(i)) <=>
          (\E i \in 1 .. c : Says(i)) \/ Says(c + 1)
    BY <2>5
  <2> QED BY <2>4, <2>7, <2>8, Zenon
<1>5. n \in T
  <2> HIDE DEF T
  <2>1. Nat \subseteq T BY <1>3, <1>4, SetInduction
  <2> QED BY <1>2, <2>1
<1>6. PhraseValue(p).percent = run[n].percent BY <1>1 DEF IsReading
<1> QED BY <1>2, <1>5, <1>6

(* A phrase is read as the sum of what was counted.                         *)
LEMMA PhraseAdds ==
  ASSUME NEW p \in Seq(NumberToken)
  PROVE  PhraseValue(p).n =
           FoldLeft(LAMBDA sum, n : sum + n, 0,
                    [i \in DOMAIN p |-> Counted(p, i) * Factor(p)[i]])
<1> DEFINE m == Len(p)
           w == [i \in DOMAIN p |-> Counted(p, i) * Factor(p)[i]]
<1>1. PICK run : IsReading(run, p) BY PhraseRuns
<1> DEFINE sum == [k \in 0 .. m |->
                     run[k].total + run[k].current * Factor(p)[k + 1]]
<1>2. m \in Nat /\ DOMAIN p = 1 .. m OBVIOUS
<1>3. w \in Seq(Int) /\ Len(w) = m
        /\ \A k \in 1 .. m : w[k] = Counted(p, k) * Factor(p)[k]
  <2>1. \A k \in 1 .. m : Counted(p, k) * Factor(p)[k] \in Int
    BY <1>1, ReadingStep
  <2>2. w \in [1 .. m -> Int] BY <1>2, <2>1
  <2>3. w \in Seq(Int) /\ Len(w) = m
    <3> HIDE DEF w, m
    <3> QED BY <1>2, <2>2
  <2> QED BY <1>2, <2>3
<1>4. ASSUME NEW k \in 0 .. m
      PROVE  /\ run[k].total \in Nat /\ run[k].current \in Nat
             /\ Factor(p)[k + 1] \in Nat
  <2>1. run[k] \in Reading BY <1>1 DEF IsReading
  <2>2. k + 1 \in 1 .. m + 1 BY <1>2
  <2> QED BY <2>1, <2>2, FactorIs DEF Reading
<1>5. ASSUME NEW k \in 1 .. m PROVE sum[k] = sum[k - 1] + w[k]
  <2>1. k \in 0 .. m /\ k - 1 \in 0 .. m /\ (k - 1) + 1 = k BY <1>2
  <2>2. /\ sum[k] = run[k].total + run[k].current * Factor(p)[k + 1]
        /\ sum[k - 1] = run[k - 1].total + run[k - 1].current * Factor(p)[k]
    BY <2>1
  <2>3. run[k].total + run[k].current * Factor(p)[k + 1] =
          run[k - 1].total + run[k - 1].current * Factor(p)[k]
            + Counted(p, k) * Factor(p)[k]
    BY <1>1, ReadingStep
  <2>4. w[k] = Counted(p, k) * Factor(p)[k] BY <1>3
  <2> HIDE DEF sum, w
  <2> QED BY <2>2, <2>3, <2>4
<1>6. sum[0] = 0
  <2>1. 0 \in 0 .. m BY <1>2
  <2>2. run[0].total = 0 /\ run[0].current = 0 BY <1>1 DEF IsReading
  <2>3. sum[0] = run[0].total + run[0].current * Factor(p)[0 + 1] BY <2>1
  <2>4. Factor(p)[0 + 1] \in Nat BY <1>4, <2>1
  <2> HIDE DEF sum
  <2> QED BY <2>2, <2>3, <2>4
<1>7. sum[m] = PhraseValue(p).n
  <2>1. m \in 0 .. m BY <1>2
  <2>2. Factor(p)[m + 1] = 1 BY FactorIs
  <2>3. run[m].total \in Nat /\ run[m].current \in Nat BY <1>4, <2>1
  <2>4. PhraseValue(p).n = run[m].total + run[m].current
    BY <1>1 DEF IsReading
  <2>5. sum[m] = run[m].total + run[m].current * Factor(p)[m + 1] BY <2>1
  <2> HIDE DEF sum, m
  <2> QED BY <2>2, <2>3, <2>4, <2>5
<1>8. SumsUp(sum, w)
  <2> HIDE DEF sum, w, m
  <2> QED BY <1>3, <1>5, <1>6 DEF SumsUp
<1>9. sum[m] = Adds(w)
  <2> HIDE DEF sum, w, m
  <2>1. sum[Len(w)] = Adds(w) BY <1>3, <1>8, AddsIs
  <2> QED BY <1>3, <2>1
<1>10. Adds(w) = FoldLeft(LAMBDA s, n : s + n, 0, w)
  <2> HIDE DEF w
  <2> QED BY DEF Adds
<1> HIDE DEF sum
<1> QED BY <1>7, <1>9, <1>10
-----------------------------------------------------------------------------
(* A sequence of positions in their order.                                  *)
IsInOrder(s, positions) ==
  /\ s \in Seq(positions)
  /\ \A j, k \in 1 .. Len(s) : j < k => s[j] < s[k]
  /\ \A i \in positions : \E k \in 1 .. Len(s) : s[k] = i

(* The place of a position among others.                                    *)
Place(positions, i) == Cardinality({j \in positions : j <= i})

(* Places are apart, and none is missed out.                                *)
LEMMA PlacesAre ==
  ASSUME NEW positions \in SUBSET Nat, IsFiniteSet(positions)
  PROVE  /\ IsFiniteSet(positions) /\ Cardinality(positions) \in Nat
         /\ \A i \in positions :
              Place(positions, i) \in 1 .. Cardinality(positions)
         /\ \A i, j \in positions :
              i < j => Place(positions, i) < Place(positions, j)
         /\ \A k \in 1 .. Cardinality(positions) :
              \E i \in positions : Place(positions, i) = k
<1> DEFINE Upto(i) == {j \in positions : j <= i}
           c == Cardinality(positions)
<1>1. IsFiniteSet(positions) /\ c \in Nat
  BY FS_CardinalityType
<1>2. ASSUME NEW i
      PROVE  /\ IsFiniteSet(Upto(i)) /\ Place(positions, i) \in Nat
             /\ Place(positions, i) = Cardinality(Upto(i))
             /\ Place(positions, i) <= c
  <2>1. Upto(i) \in SUBSET positions OBVIOUS
  <2>2. IsFiniteSet(Upto(i)) /\ Cardinality(Upto(i)) <= c
    <3> HIDE DEF Upto
    <3> QED BY <1>1, <2>1, FS_Subset
  <2>3. Cardinality(Upto(i)) \in Nat
    <3> HIDE DEF Upto
    <3> QED BY <2>2, FS_CardinalityType
  <2> QED BY <2>2, <2>3 DEF Place
<1>3. ASSUME NEW i \in positions PROVE Place(positions, i) \in 1 .. c
  <2>1. i \in Upto(i) OBVIOUS
  <2>2. Cardinality(Upto(i)) # 0
    <3>1. Upto(i) # {} BY <2>1
    <3> HIDE DEF Upto
    <3> QED BY <1>2, <3>1, FS_EmptySet
  <2> HIDE DEF Upto, c
  <2> QED BY <1>1, <1>2, <2>2
<1>4. ASSUME NEW i \in positions, NEW j \in positions, i < j
      PROVE  Place(positions, i) < Place(positions, j)
  <2>1. Upto(i) \in SUBSET Upto(j) /\ j \in Upto(j) /\ j \notin Upto(i)
    <3>1. positions \subseteq Nat OBVIOUS
    <3>2. \A x \in positions : x <= i => x <= j BY <1>4, <3>1
    <3>3. j <= j /\ ~(j <= i) BY <1>4, <3>1
    <3> QED BY <3>2, <3>3
  <2> HIDE DEF Upto, c
  <2>2. /\ Cardinality(Upto(i)) <= Cardinality(Upto(j))
        /\ Cardinality(Upto(i)) # Cardinality(Upto(j))
    BY <1>2, <2>1, FS_Subset
  <2> QED BY <1>2, <2>2
<1>5. ASSUME NEW k \in 1 .. c PROVE \E i \in positions : Place(positions, i) = k
  <2> DEFINE f == [i \in positions |-> Place(positions, i)]
  <2>1. f \in [positions -> 1 .. c] BY <1>3
  <2>2. \A i, j \in positions : f[i] = f[j] => i = j
    <3> SUFFICES ASSUME NEW i \in positions, NEW j \in positions, i # j
                 PROVE  f[i] # f[j]
      OBVIOUS
    <3>1. i \in Nat /\ j \in Nat OBVIOUS
    <3>2. i < j \/ j < i BY <3>1
    <3>3. /\ Place(positions, i) < Place(positions, j)
             \/ Place(positions, j) < Place(positions, i)
          /\ Place(positions, i) \in Nat /\ Place(positions, j) \in Nat
      BY <1>2, <1>4, <3>2
    <3>4. Place(positions, i) # Place(positions, j) BY <3>3
    <3> QED BY <3>4
  <2> HIDE DEF f
  <2>3. f \in Injection(positions, 1 .. c)
    BY <2>1, <2>2 DEF Injection, IsInjective
  <2>4. IsFiniteSet(1 .. c) /\ Cardinality(1 .. c) = c
    BY <1>1, FS_Interval
  <2>5. f \in Surjection(positions, 1 .. c)
    BY <2>3, <2>4, FS_Injection
  <2>6. PICK i \in positions : f[i] = k
    BY <2>5 DEF Surjection
  <2> QED BY <2>6 DEF f
<1> QED BY <1>1, <1>3, <1>4, <1>5

(* InOrder gives the positions in their order.                              *)
LEMMA InOrderIs ==
  ASSUME NEW positions \in SUBSET Nat, IsFiniteSet(positions)
  PROVE  IsInOrder(InOrder(positions), positions)
<1> DEFINE c == Cardinality(positions)
           s == InOrder(positions)
<1>1. /\ c \in Nat
      /\ \A i \in positions : Place(positions, i) \in 1 .. c
      /\ \A i, j \in positions :
           i < j => Place(positions, i) < Place(positions, j)
      /\ \A k \in 1 .. c : \E i \in positions : Place(positions, i) = k
  BY PlacesAre
<1>2. s = [k \in 1 .. c |-> CHOOSE i \in positions : Place(positions, i) = k]
  BY DEF InOrder, Place
<1> HIDE DEF s, c
<1>3. \A k \in 1 .. c : s[k] \in positions /\ Place(positions, s[k]) = k
  BY <1>1, <1>2
<1>4. s \in Seq(positions) /\ Len(s) = c
  <2>1. s \in [1 .. c -> positions] BY <1>2, <1>3
  <2> QED BY <1>1, <2>1
<1>5. positions \subseteq Nat OBVIOUS
<1>6. ASSUME NEW j \in 1 .. c, NEW k \in 1 .. c, j < k PROVE s[j] < s[k]
  <2>1. s[j] \in Nat /\ s[k] \in Nat BY <1>3, <1>5
  <2>2. s[j] # s[k] BY <1>1, <1>3, <1>6
  <2>3. ~(s[k] < s[j])
    <3> SUFFICES ASSUME s[k] < s[j] PROVE FALSE OBVIOUS
    <3>1. k < j BY <1>1, <1>3
    <3> QED BY <1>1, <1>6, <3>1
  <2> QED BY <2>1, <2>2, <2>3
<1>7. ASSUME NEW i \in positions PROVE \E k \in 1 .. c : s[k] = i
  <2>1. Place(positions, i) \in 1 .. c BY <1>1
  <2>2. PICK k \in 1 .. c : k = Place(positions, i) BY <2>1
  <2>3. s[k] \in positions /\ Place(positions, s[k]) = k BY <1>3
  <2>4. s[k] \in Nat /\ i \in Nat BY <1>5, <2>3
  <2>5. ~(s[k] < i) /\ ~(i < s[k])
    <3>1. Place(positions, s[k]) \in Nat
          /\ Place(positions, s[k]) = Place(positions, i)
      BY <1>1, <2>2, <2>3
    <3>2. ~(Place(positions, s[k]) < Place(positions, i))
          /\ ~(Place(positions, i) < Place(positions, s[k]))
      BY <3>1
    <3> QED BY <1>1, <2>3, <3>2
  <2>6. s[k] = i BY <2>4, <2>5
  <2> QED BY <2>6
<1> QED BY <1>4, <1>6, <1>7 DEF IsInOrder, s

(* The last position up to a place is the place.                            *)
LEMMA PlaceOf ==
  ASSUME NEW positions \in SUBSET Nat, IsFiniteSet(positions),
         NEW s, IsInOrder(s, positions), NEW k \in 1 .. Len(s)
  PROVE  Place(positions, s[k]) = k
<1>1. /\ s \in Seq(positions) /\ Len(s) \in Nat
      /\ \A i, j \in 1 .. Len(s) : i < j => s[i] < s[j]
      /\ \A i \in positions : \E j \in 1 .. Len(s) : s[j] = i
      /\ \A i \in 1 .. Len(s) : s[i] \in positions /\ s[i] \in Nat
  <2>1. s \in Seq(positions) BY DEF IsInOrder
  <2>2. \A i \in 1 .. Len(s) : s[i] \in positions BY <2>1
  <2>3. positions \subseteq Nat OBVIOUS
  <2> QED BY <2>1, <2>2, <2>3, LenProperties DEF IsInOrder
<1> DEFINE Upto == {j \in positions : j <= s[k]}
           f == [j \in 1 .. k |-> s[j]]
<1>2. \A j \in 1 .. k : j \in 1 .. Len(s) /\ j <= k BY <1>1
<1>3. \A j \in 1 .. k : s[j] \in Upto
  <2> SUFFICES ASSUME NEW j \in 1 .. k PROVE s[j] \in positions /\ s[j] <= s[k]
    OBVIOUS
  <2>1. CASE j = k BY <1>1, <2>1
  <2>2. CASE j < k BY <1>1, <1>2, <2>2
  <2> QED BY <2>1, <2>2
<1>4. ASSUME NEW i \in Upto PROVE \E j \in 1 .. k : s[j] = i
  <2>1. PICK j \in 1 .. Len(s) : s[j] = i BY <1>1
  <2>2. ~(k < j)
    <3> SUFFICES ASSUME k < j PROVE FALSE OBVIOUS
    <3>1. s[k] < i BY <1>1, <2>1
    <3>2. i \in Nat /\ s[k] \in Nat /\ i <= s[k] BY <1>1
    <3> QED BY <3>1, <3>2
  <2>3. j \in 1 .. k BY <1>1, <2>2
  <2> QED BY <2>1, <2>3
<1>5. \A i, j \in 1 .. k : s[i] = s[j] => i = j
  <2> SUFFICES ASSUME NEW i \in 1 .. k, NEW j \in 1 .. k, i # j
               PROVE  s[i] # s[j]
    OBVIOUS
  <2>1. i < j \/ j < i OBVIOUS
  <2>2. s[i] \in Nat /\ s[j] \in Nat /\ (i < j => s[i] < s[j])
        /\ (j < i => s[j] < s[i])
    BY <1>1, <1>2
  <2> QED BY <2>1, <2>2
<1>6. f \in [1 .. k -> Upto] /\ \A j \in 1 .. k : f[j] = s[j] BY <1>3
<1> HIDE DEF f, Upto
<1>7. f \in Bijection(1 .. k, Upto)
  BY <1>4, <1>5, <1>6
     DEF Bijection, Surjection, Injection, IsInjective
<1>8. IsFiniteSet(1 .. k) /\ Cardinality(1 .. k) = k
  BY <1>1, FS_Interval
<1>9. Cardinality(Upto) = k
  <2>1. ExistsBijection(1 .. k, Upto) BY <1>7 DEF ExistsBijection
  <2> QED BY <1>8, <2>1, FS_Bijection
<1> QED BY <1>9 DEF Place, Upto

(* There is one order.                                                      *)
LEMMA InOrderOnly ==
  ASSUME NEW positions \in SUBSET Nat, IsFiniteSet(positions),
         NEW s, IsInOrder(s, positions)
  PROVE  InOrder(positions) = s
<1> DEFINE c == Cardinality(positions)
           m == Len(s)
<1>1. /\ s \in Seq(positions) /\ m \in Nat
      /\ \A i \in positions : \E j \in 1 .. m : s[j] = i
      /\ \A i \in 1 .. m : s[i] \in positions
  <2>1. s \in Seq(positions) BY DEF IsInOrder
  <2> QED BY <2>1 DEF IsInOrder
<1>2. /\ c \in Nat
      /\ \A i \in positions : Place(positions, i) \in 1 .. c
      /\ \A i, j \in positions :
           i < j => Place(positions, i) < Place(positions, j)
      /\ \A k \in 1 .. c : \E i \in positions : Place(positions, i) = k
  BY PlacesAre
<1>3. ASSUME NEW k \in 1 .. m PROVE Place(positions, s[k]) = k
  <2>1. k \in 1 .. Len(s) OBVIOUS
  <2> QED BY <2>1, PlaceOf
<1> HIDE DEF c
<1>4. m = c
  <2>1. ASSUME m < c PROVE FALSE
    <3>1. PICK i \in positions : Place(positions, i) = c
      <4>1. c \in 1 .. c BY <1>1, <1>2, <2>1
      <4> QED BY <1>2, <4>1
    <3>2. PICK j \in 1 .. m : s[j] = i BY <1>1
    <3>3. j = c BY <1>3, <3>1, <3>2
    <3> QED BY <1>1, <1>2, <2>1, <3>3
  <2>2. ASSUME c < m PROVE FALSE
    <3>1. m \in 1 .. m BY <1>1, <1>2, <2>2
    <3>2. m \in 1 .. c BY <1>1, <1>2, <1>3, <3>1
    <3> QED BY <1>1, <1>2, <2>2, <3>2
  <2> QED BY <1>1, <1>2, <2>1, <2>2
<1>5. InOrder(positions) =
        [k \in 1 .. c |-> CHOOSE i \in positions : Place(positions, i) = k]
  BY DEF InOrder, Place, c
<1>6. ASSUME NEW k \in 1 .. c
      PROVE  (CHOOSE i \in positions : Place(positions, i) = k) = s[k]
  <2>1. s[k] \in positions /\ Place(positions, s[k]) = k BY <1>1, <1>3, <1>4
  <2>2. ASSUME NEW i \in positions, Place(positions, i) = k PROVE i = s[k]
    <3>1. i \in Nat /\ s[k] \in Nat /\ k \in Nat
      <4>1. positions \subseteq Nat OBVIOUS
      <4>2. k \in Nat
        <5>1. c \in Nat BY <1>2
        <5> QED BY <5>1
      <4> QED BY <2>1, <4>1, <4>2
    <3>2. ~(i < s[k]) /\ ~(s[k] < i) BY <1>2, <2>1, <2>2, <3>1
    <3> QED BY <3>1, <3>2
  <2> QED BY <2>1, <2>2
<1>7. s = [k \in 1 .. c |-> s[k]]
  <2>1. DOMAIN s = 1 .. m /\ s = [k \in DOMAIN s |-> s[k]] BY <1>1
  <2> QED BY <1>4, <2>1
<1>8. [k \in 1 .. c |-> CHOOSE i \in positions : Place(positions, i) = k]
        = [k \in 1 .. c |-> s[k]]
  BY <1>6
<1> QED BY <1>5, <1>7, <1>8
-----------------------------------------------------------------------------
(* A token of a text, as it was spoken or as it is shown.                   *)
TextToken == NumberToken \cup {Word("plain")}

(* The tokens of numbers are the ones that are not plain.                   *)
LEMMA TextIs ==
  /\ \A t \in TextToken : IsNumToken(t) <=> t \in NumberToken
  /\ \A t \in TextToken : ~IsNumToken(t) <=> t = Word("plain")
  /\ SpokenToken \subseteq TextToken
<1>1. ~IsNumToken(Word("plain")) BY DEF IsNumToken, Word
<1>2. \A t \in NumberToken : IsNumToken(t) BY TokenIs
<1>3. SpokenToken \subseteq TextToken BY SpokenIs DEF TextToken
<1> QED BY <1>1, <1>2, <1>3 DEF TextToken

(* Where the run of number tokens ends that starts at i.                    *)
IsRunEnd(ts, i, j) ==
  /\ j \in i .. Len(ts)
  /\ \A k \in i .. j : IsNumToken(ts[k])
  /\ j = Len(ts) \/ ~IsNumToken(ts[j + 1])

(* Every run ends, and RunFrom is what lies between.                        *)
LEMMA RunFromIs ==
  ASSUME NEW ts \in Seq(TextToken), NEW i \in RunStarts(ts)
  PROVE  /\ i \in 1 .. Len(ts) /\ IsNumToken(ts[i])
         /\ RunFrom(ts, i) \in Seq(NumberToken)
         /\ \E j : /\ IsRunEnd(ts, i, j)
                   /\ Len(RunFrom(ts, i)) = j - i + 1
                   /\ \A m \in 1 .. j - i + 1 :
                        RunFrom(ts, i)[m] = ts[i + m - 1]
<1> DEFINE n == Len(ts)
           J == {j \in i .. n : \A k \in i .. j : IsNumToken(ts[k])}
<1>1. n \in Nat /\ i \in 1 .. n /\ DOMAIN ts = 1 .. n /\ IsNumToken(ts[i])
  BY DEF RunStarts
<1>2. J \subseteq Nat /\ i \in J /\ \A j \in J : j <= n BY <1>1
<1>3. PICK last \in J : \A k \in J : last >= k
  <2> HIDE DEF J, n
  <2> QED BY <1>1, <1>2, GreatestNatural
<1>4. IsRunEnd(ts, i, last)
  <2>1. ASSUME last # n, IsNumToken(ts[last + 1]) PROVE FALSE
    <3>0. last \in i .. n BY <1>3
    <3>1. last + 1 \in i .. n
      <4> HIDE DEF J, n
      <4>1. last \in Int /\ i <= last /\ last < n BY <1>1, <2>1, <3>0
      <4> QED BY <1>1, <4>1
    <3>2. \A k \in i .. last + 1 : k = last + 1 \/ k \in i .. last
      BY <1>1, <1>3
    <3>3. last + 1 \in J BY <1>3, <2>1, <3>1, <3>2
    <3>4. last \in Nat /\ last >= last + 1 BY <1>2, <1>3, <3>3
    <3> QED BY <3>4
  <2> QED BY <1>3, <2>1 DEF IsRunEnd
<1> DEFINE e == CHOOSE j \in i .. n :
                  /\ \A k \in i .. j : IsNumToken(ts[k])
                  /\ j = n \/ ~IsNumToken(ts[j + 1])
<1>5. IsRunEnd(ts, i, e)
  <2>1. \E j \in i .. n : /\ \A k \in i .. j : IsNumToken(ts[k])
                          /\ j = n \/ ~IsNumToken(ts[j + 1])
    BY <1>4 DEF IsRunEnd
  <2>2. /\ e \in i .. n /\ \A k \in i .. e : IsNumToken(ts[k])
        /\ e = n \/ ~IsNumToken(ts[e + 1])
    BY <2>1
  <2> HIDE DEF e
  <2> QED BY <2>2 DEF IsRunEnd
<1>6. RunFrom(ts, i) = SubSeq(ts, i, e) BY DEF RunFrom
<1> HIDE DEF e, J
<1>7. /\ e \in i .. n /\ i .. e \subseteq 1 .. n
      /\ \A k \in i .. e : IsNumToken(ts[k])
  <2>1. e \in i .. n /\ \A k \in i .. e : IsNumToken(ts[k])
    BY <1>5 DEF IsRunEnd
  <2>2. \A k \in i .. e : k \in 1 .. n BY <1>1, <2>1
  <2> QED BY <2>1, <2>2
<1>8. /\ Len(RunFrom(ts, i)) = e - i + 1
      /\ RunFrom(ts, i) = [m \in 1 .. e - i + 1 |-> ts[i + m - 1]]
  BY <1>1, <1>6, <1>7
<1>9. ASSUME NEW m \in 1 .. e - i + 1 PROVE ts[i + m - 1] \in NumberToken
  <2>1. i + m - 1 \in i .. e BY <1>1, <1>7
  <2>2. ts[i + m - 1] \in TextToken BY <1>1, <1>7, <2>1
  <2> QED BY <1>7, <2>1, <2>2, TextIs
<1>10. RunFrom(ts, i) \in Seq(NumberToken)
  <2>1. e - i + 1 \in Nat BY <1>1, <1>7
  <2>2. RunFrom(ts, i) \in [1 .. e - i + 1 -> NumberToken] BY <1>8, <1>9
  <2> QED BY <2>1, <2>2
<1> QED BY <1>1, <1>5, <1>8, <1>10

(* The positions of a text are finite in number.                            *)
LEMMA PositionsAre ==
  ASSUME NEW ts \in Seq(TextToken), NEW positions, positions \subseteq DOMAIN ts
  PROVE  /\ positions \in SUBSET Nat /\ IsFiniteSet(positions)
         /\ IsInOrder(InOrder(positions), positions)
<1>1. DOMAIN ts = 1 .. Len(ts) /\ Len(ts) \in Nat OBVIOUS
<1>2. IsFiniteSet(1 .. Len(ts)) BY <1>1, FS_Interval
<1>3. IsFiniteSet(positions) BY <1>1, <1>2, FS_Subset
<1>4. positions \in SUBSET Nat BY <1>1
<1> QED BY <1>3, <1>4, InOrderIs

(* A phrase of what was heard.                                              *)
LEMMA PhraseIs ==
  ASSUME heard \in Seq(SpokenToken), NEW p \in Phrases
  PROVE  /\ p \in Seq(NumberToken) /\ Len(p) \in Nat /\ Len(p) > 0
         /\ \A i \in DOMAIN p : ~p[i].percent
<1>1. PICK i \in RunStarts(heard) : p = RunFrom(heard, i) BY DEF Phrases
<1>2. heard \in Seq(TextToken) BY TextIs, SeqMonotonic
<1>3. p \in Seq(NumberToken) BY <1>1, <1>2, RunFromIs
<1>4. i \in 1 .. Len(heard) BY <1>2, RunFromIs
<1>5. PICK j : /\ IsRunEnd(heard, i, j) /\ Len(p) = j - i + 1
               /\ \A m \in 1 .. j - i + 1 : p[m] = heard[i + m - 1]
  BY <1>1, <1>2, RunFromIs
<1>6. j \in i .. Len(heard) BY <1>5 DEF IsRunEnd
<1>7. Len(heard) \in Nat /\ i \in Nat /\ j \in Nat BY <1>4, <1>6
<1>8. ASSUME NEW m \in DOMAIN p PROVE ~p[m].percent
  <2>1. m \in 1 .. j - i + 1 BY <1>3, <1>5
  <2>2. i + m - 1 \in 1 .. Len(heard) BY <1>4, <1>6, <1>7, <2>1
  <2>3. p[m] \in SpokenToken BY <1>5, <2>1, <2>2
  <2>4. ~Word("plain").percent BY DEF Word
  <2> QED BY <2>3, <2>4, SpokenIs
<1>9. Len(p) > 0 /\ Len(p) \in Nat BY <1>5, <1>6, <1>7
<1> QED BY <1>3, <1>8, <1>9

(* What was counted in a phrase is its value.                               *)
LEMMA PhrasesAreSums ==
  ASSUME heard \in Seq(SpokenToken)
  PROVE  PhraseIsSum
<1> SUFFICES ASSUME NEW p \in Phrases
             PROVE  PhraseValue(p) =
               [n |-> FoldLeft(LAMBDA sum, n : sum + n, 0,
                               [i \in DOMAIN p |-> Counted(p, i) * Factor(p)[i]]),
                percent |-> \E i \in DOMAIN p : p[i].word \in PercentWords]
  BY DEF PhraseIsSum
<1> DEFINE total == FoldLeft(LAMBDA sum, n : sum + n, 0,
                             [i \in DOMAIN p |-> Counted(p, i) * Factor(p)[i]])
           says == \E i \in DOMAIN p : p[i].word \in PercentWords
<1>1. p \in Seq(NumberToken) /\ \A i \in DOMAIN p : ~p[i].percent
  BY PhraseIs
<1>2. PhraseValue(p) \in Value BY <1>1, PhraseType
<1>3. PhraseValue(p).n = total BY <1>1, PhraseAdds
<1>4. PhraseValue(p).percent <=> says BY <1>1, PercentIs
<1>5. says \in BOOLEAN /\ PhraseValue(p).percent \in BOOLEAN
  BY <1>2 DEF Value
<1>6. PhraseValue(p) = [n |-> PhraseValue(p).n,
                        percent |-> PhraseValue(p).percent]
  BY <1>2 DEF Value
<1>7. PhraseValue(p).percent = says BY <1>4, <1>5
<1> HIDE DEF total, says
<1>8. PhraseValue(p) = [n |-> total, percent |-> says] BY <1>3, <1>6, <1>7
<1> QED BY <1>8 DEF total, says
(* A word that sounds like another one, and the phrase with that one.       *)
Confusable(p) == {i \in DOMAIN p : p[i].word \in DOMAIN Homophone}
Swapped(p) ==
  [i \in DOMAIN p |-> IF i \in Confusable(p) THEN Word(Homophone[p[i].word])
                                            ELSE p[i]]

(* The swapped phrase has its confusable word at the same place, and        *)
(* swapping it back gives the phrase.                                       *)
LEMMA SwappedIs ==
  ASSUME NEW p \in Seq(NumberToken)
  PROVE  /\ Swapped(p) \in Seq(NumberToken)
         /\ Confusable(Swapped(p)) = Confusable(p)
         /\ Swapped(Swapped(p)) = p
<1> DEFINE q == Swapped(p)
<1>1. DOMAIN q = DOMAIN p /\ DOMAIN p = 1 .. Len(p) /\ Len(p) \in Nat
  BY DEF Swapped
<1>2. \A i \in DOMAIN p :
        q[i] = IF i \in Confusable(p) THEN Word(Homophone[p[i].word])
               ELSE p[i]
  BY DEF Swapped
<1>3. ASSUME NEW i \in Confusable(p)
      PROVE  /\ i \in DOMAIN p /\ q[i] \in NumberToken
             /\ q[i].word = Homophone[p[i].word]
             /\ q[i].word \in DOMAIN Homophone
             /\ Word(Homophone[q[i].word]) = p[i]
  <2> DEFINE w == p[i].word
  <2>1. i \in DOMAIN p /\ w \in DOMAIN Homophone BY DEF Confusable
  <2>2. /\ w \in DOMAIN Units /\ Homophone[w] \in DOMAIN Homophone
        /\ Homophone[Homophone[w]] = w /\ Homophone[w] \in DOMAIN Units
    BY <2>1, NumbersAssumption
  <2>3. q[i] = Word(Homophone[w]) BY <1>2, <2>1
  <2>4. q[i].word = Homophone[w] BY <2>3 DEF Word
  <2>5. p[i] = Word(w)
    <3>1. p[i] \in NumberToken BY <2>1
    <3>2. w # "figure" BY <2>2, WordsApart
    <3> QED BY <3>1, <3>2, TokenIs
  <2>6. q[i] \in NumberToken
    <3>1. Homophone[w] \in Words /\ Homophone[w] # "plain"
      BY <2>2, WordsApart DEF Words
    <3> QED BY <2>3, <3>1 DEF NumberToken
  <2> HIDE DEF q, w
  <2>7. Word(Homophone[q[i].word]) = p[i] BY <2>2, <2>4, <2>5
  <2> QED BY <2>1, <2>2, <2>4, <2>6, <2>7 DEF w
<1> HIDE DEF q
<1>4. \A i \in DOMAIN p : q[i] \in NumberToken
  <2> SUFFICES ASSUME NEW i \in DOMAIN p PROVE q[i] \in NumberToken OBVIOUS
  <2>1. CASE i \in Confusable(p) BY <1>3, <2>1
  <2>2. CASE i \notin Confusable(p)
    <3>1. p[i] \in NumberToken OBVIOUS
    <3> QED BY <1>2, <2>2, <3>1
  <2> QED BY <2>1, <2>2
<1>5. q \in Seq(NumberToken)
  <2>1. q = [i \in 1 .. Len(p) |-> q[i]] BY <1>1 DEF q, Swapped
  <2> QED BY <1>1, <1>4, <2>1
<1>6. Confusable(q) = Confusable(p)
  <2>1. \A i \in DOMAIN p : i \notin Confusable(p) =>
          q[i] = p[i] /\ p[i].word \notin DOMAIN Homophone
    BY <1>2 DEF Confusable
  <2>2. \A i : i \in Confusable(q) <=>
               i \in DOMAIN p /\ q[i].word \in DOMAIN Homophone
    BY <1>1 DEF Confusable
  <2>3. \A i : i \in Confusable(q) <=> i \in Confusable(p)
    BY <1>3, <2>1, <2>2
  <2> QED BY <2>3
<1>7. Swapped(q) = p
  <2>1. Swapped(q) = [i \in DOMAIN p |->
                        IF i \in Confusable(p) THEN Word(Homophone[q[i].word])
                        ELSE q[i]]
    BY <1>1, <1>6 DEF Swapped
  <2>2. \A i \in DOMAIN p :
          (IF i \in Confusable(p) THEN Word(Homophone[q[i].word]) ELSE q[i])
            = p[i]
    BY <1>2, <1>3
  <2>3. p = [i \in DOMAIN p |-> p[i]] OBVIOUS
  <2> QED BY <2>1, <2>2, <2>3
<1> QED BY <1>5, <1>6, <1>7 DEF q

(* The readings offered for a phrase.                                       *)
LEMMA CandidatesAre ==
  ASSUME NEW p \in Seq(NumberToken), NEW value
  PROVE  /\ Cardinality(Confusable(p)) # 1 => Candidates(p, value) = <<value>>
         /\ Cardinality(Confusable(p)) = 1 =>
              Candidates(p, value) =
                IF PhraseValue(Swapped(p)) = value THEN <<value>>
                ELSE <<value, PhraseValue(Swapped(p))>>
<1> DEFINE i == CHOOSE k \in Confusable(p) : TRUE
           alt == PhraseValue([p EXCEPT ![i] = Word(Homophone[p[i].word])])
<1>1. Candidates(p, value) =
        IF Cardinality(Confusable(p)) # 1 \/ alt = value
        THEN <<value>> ELSE <<value, alt>>
  BY DEF Candidates, Confusable
<1>2. ASSUME Cardinality(Confusable(p)) = 1 PROVE alt = PhraseValue(Swapped(p))
  <2>1. IsFiniteSet(Confusable(p))
    <3>1. IsFiniteSet(1 .. Len(p)) BY FS_Interval
    <3>2. Confusable(p) \in SUBSET (1 .. Len(p)) BY DEF Confusable
    <3> QED BY <3>1, <3>2, FS_Subset
  <2>2. PICK x : Confusable(p) = {x} BY <1>2, <2>1, FS_Singleton
  <2>3. i = x BY <2>2
  <2> HIDE DEF i
  <2>4. [p EXCEPT ![i] = Word(Homophone[p[i].word])] = Swapped(p)
    <3>1. Swapped(p) = [k \in DOMAIN p |-> IF k = i THEN Word(Homophone[p[k].word])
                                                   ELSE p[k]]
      BY <2>2, <2>3 DEF Swapped
    <3>2. [p EXCEPT ![i] = Word(Homophone[p[i].word])] =
            [k \in DOMAIN p |-> IF k = i THEN Word(Homophone[p[k].word])
                                         ELSE p[k]]
      OBVIOUS
    <3> QED BY <3>1, <3>2
  <2> QED BY <2>4
<1> HIDE DEF alt
<1> QED BY <1>1, <1>2

(* What is offered is a value.                                              *)
LEMMA CandidatesType ==
  ASSUME NEW p \in Seq(NumberToken)
  PROVE  Candidates(p, PhraseValue(p)) \in Seq(Value)
<1>1. PhraseValue(p) \in Value /\ PhraseValue(Swapped(p)) \in Value
  BY PhraseType, SwappedIs
<1>2. \A v, w \in Value : <<v>> \in Seq(Value) /\ <<v, w>> \in Seq(Value)
  OBVIOUS
<1> QED BY <1>1, <1>2, CandidatesAre

(* Whichever of two homophones was transcribed, the same is offered.        *)
LEMMA EitherWayOffered ==
  ASSUME heard \in Seq(SpokenToken)
  PROVE  HeardEitherWay
<1> DEFINE Offered(q) == ToSet(Candidates(q, PhraseValue(q)))
<1> SUFFICES ASSUME NEW p \in Phrases, Cardinality(Confusable(p)) = 1
             PROVE  Offered(Swapped(p)) = Offered(p)
  BY DEF HeardEitherWay, Confusable, Swapped
<1>1. p \in Seq(NumberToken) BY PhraseIs
<1>2. /\ Swapped(p) \in Seq(NumberToken) /\ Swapped(Swapped(p)) = p
      /\ Cardinality(Confusable(Swapped(p))) = 1
  BY <1>1, SwappedIs
<1>3. \A v, w : ToSet(<<v>>) = {v} /\ ToSet(<<v, w>>) = {v, w}
  BY DEF ToSet
<1>4. \A q \in Seq(NumberToken) : Cardinality(Confusable(q)) = 1 =>
        Offered(q) = {PhraseValue(q), PhraseValue(Swapped(q))}
  <2> SUFFICES ASSUME NEW q \in Seq(NumberToken),
                      Cardinality(Confusable(q)) = 1
               PROVE  Offered(q) = {PhraseValue(q), PhraseValue(Swapped(q))}
    OBVIOUS
  <2> DEFINE v == PhraseValue(q)
             w == PhraseValue(Swapped(q))
  <2>1. Candidates(q, v) = IF w = v THEN <<v>> ELSE <<v, w>>
    BY CandidatesAre
  <2> HIDE DEF v, w
  <2>2. ToSet(Candidates(q, v)) = {v, w}
    <3>1. CASE w = v BY <1>3, <2>1, <3>1
    <3>2. CASE w # v BY <1>3, <2>1, <3>2
    <3> QED BY <3>1, <3>2
  <2> QED BY <2>2 DEF v, w
<1> HIDE DEF Offered
<1> QED BY <1>1, <1>2, <1>4

(* The verdict asks only what was said, not when.                           *)
LEMMA OrderIsIgnored ==
  ASSUME confirmed \in Seq(Value)
  PROVE  VerdictIgnoresOrder
<1> DEFINE r == Reverse(confirmed)
           n == Len(confirmed)
           Hit(nums, c) == FirstWhere(nums, LAMBDA v : Near(v, c)) # 0
<1>1. n \in Nat /\ DOMAIN confirmed = 1 .. n /\ DOMAIN r = 1 .. n
      /\ \A i \in 1 .. n : n - i + 1 \in 1 .. n /\ r[i] = confirmed[n - i + 1]
                           /\ n - (n - i + 1) + 1 = i
  BY DEF Reverse
<1>2. ASSUME NEW nums \in {confirmed, r}, NEW c
      PROVE  Hit(nums, c) <=> \E i \in 1 .. n : Near(nums[i], c)
  <2> DEFINE hits == {i \in DOMAIN nums : Near(nums[i], c)}
  <2>1. DOMAIN nums = 1 .. n BY <1>1
  <2>2. FirstWhere(nums, LAMBDA v : Near(v, c)) =
          IF hits = {} THEN 0 ELSE CHOOSE i \in hits : \A j \in hits : i <= j
    BY DEF FirstWhere
  <2>3. hits \subseteq 1 .. n BY <2>1
  <2>4. hits # {} => \E i \in hits : \A j \in hits : i <= j
    <3>1. hits \subseteq Nat BY <2>3
    <3> HIDE DEF hits
    <3> QED BY <3>1, LeastNatural
  <2>5. Hit(nums, c) <=> hits # {}
    <3> HIDE DEF hits, n
    <3> QED BY <2>2, <2>3, <2>4
  <2> HIDE DEF Hit
  <2> QED BY <2>1, <2>5
<1>3. ASSUME NEW c PROVE Hit(r, c) <=> Hit(confirmed, c)
  <2>1. Hit(r, c) <=> \E i \in 1 .. n : Near(r[i], c) BY <1>2
  <2>2. Hit(confirmed, c) <=> \E i \in 1 .. n : Near(confirmed[i], c) BY <1>2
  <2> HIDE DEF Hit, r, n
  <2> QED BY <1>1, <2>1, <2>2
<1> DEFINE Errors(nums) == {i \in DOMAIN CommonErrors :
                              Hit(nums, CommonErrors[i])}
           First(hits) == IF hits = {} THEN 0
                          ELSE CHOOSE i \in hits : \A j \in hits : i <= j
           Verdict(nums) ==
             [matched |-> Hit(nums, Expected),
              error |-> IF Hit(nums, Expected) THEN 0 ELSE First(Errors(nums))]
<1>4. CheckValues(r) = Verdict(r) /\ CheckValues(confirmed) = Verdict(confirmed)
  BY DEF CheckValues, FirstWhere
<1>5. ASSUME NEW c PROVE Hit(r, c) = Hit(confirmed, c)
  <2>1. Hit(r, c) \in BOOLEAN /\ Hit(confirmed, c) \in BOOLEAN OBVIOUS
  <2> HIDE DEF Hit, r
  <2>2. Hit(r, c) <=> Hit(confirmed, c) BY <1>3
  <2> QED BY <2>1, <2>2
<1> HIDE DEF Hit, r, First
<1>6. Errors(r) = Errors(confirmed) BY <1>5
<1> HIDE DEF Errors
<1>7. Verdict(r) = Verdict(confirmed) BY <1>5, <1>6
<1> HIDE DEF Verdict
<1> QED BY <1>4, <1>7 DEF VerdictIgnoresOrder, r
-----------------------------------------------------------------------------
(* A figure in front of a phrase is what is read first.                     *)
LEMMA FigureFirst ==
  ASSUME NEW p \in Seq(NumberToken), NEW run, IsReading(run, p),
         Len(p) >= 1, p[1].word = "figure"
  PROVE  /\ p[1].n \in Nat /\ p[1].percent \in BOOLEAN
         /\ run[1] \in Reading
         /\ run[1].total = 0 /\ run[1].current = p[1].n
         /\ run[1].percent = p[1].percent
<1>1. 1 \in 1 .. Len(p) /\ 0 \in 0 .. Len(p) /\ 1 \in 0 .. Len(p) /\ 1 - 1 = 0
  OBVIOUS
<1>2. p[1] \in NumberToken BY <1>1
<1>3. p[1].n \in Nat /\ p[1].percent \in BOOLEAN BY <1>2, TokenIs, WordsApart
<1>4. run[0] \in Reading /\ run[1] \in Reading /\ run[1] = Read(run[0], p[1])
  BY <1>1 DEF IsReading
<1>5. run[0].total = 0 /\ run[0].current = 0 /\ run[0].percent = FALSE
  BY DEF IsReading
<1>6. Amount(p[1]) = p[1].n BY DEF Amount
<1>7. /\ Read(run[0], p[1]).total = run[0].total
      /\ Read(run[0], p[1]).current = run[0].current + Amount(p[1])
  BY <1>2, <1>4, ReadIs
<1>8. run[1].percent = (run[0].percent \/ p[1].percent \/ p[1].word \in PercentWords)
  <2>1. \A acc \in Reading, t \in NumberToken :
          Read(acc, t).percent = (acc.percent \/ t.percent \/ t.word \in PercentWords)
    BY ReadIs
  <2> DEFINE r == Read(run[0], p[1])
  <2>2. r.percent = (run[0].percent \/ p[1].percent \/ p[1].word \in PercentWords)
    BY <1>2, <1>4, <2>1, Zenon
  <2>3. run[1] = r BY <1>4
  <2> HIDE DEF r
  <2> QED BY <2>2, <2>3, Zenon
<1>9. run[1].percent = p[1].percent
  <2> DEFINE b == p[1].percent
             w == p[1].word \in PercentWords
  <2>1. w = FALSE BY DEF PercentWords
  <2>2. run[1].percent = (FALSE \/ b \/ w) BY <1>5, <1>8, Zenon
  <2>3. b \in BOOLEAN BY <1>3
  <2> HIDE DEF b, w
  <2>4. (FALSE \/ b \/ w) = b BY <2>1, <2>3
  <2> QED BY <2>2, <2>4 DEF b
<1> QED BY <1>3, <1>4, <1>5, <1>6, <1>7, <1>9

(* One figure is read as its number.                                        *)
LEMMA OneFigure ==
  ASSUME NEW p \in Seq(NumberToken), Len(p) = 1, p[1].word = "figure"
  PROVE  PhraseValue(p) = [n |-> p[1].n, percent |-> p[1].percent]
<1>1. PICK run : IsReading(run, p) BY PhraseRuns
<1>2. PhraseValue(p) = [n |-> run[1].total + run[1].current,
                        percent |-> run[1].percent]
  BY <1>1 DEF IsReading
<1>3. /\ p[1].n \in Nat /\ run[1].total = 0 /\ run[1].current = p[1].n
      /\ run[1].percent = p[1].percent
  BY <1>1, FigureFirst
<1>4. run[1].total + run[1].current = p[1].n BY <1>3
<1> QED BY <1>2, <1>3, <1>4

(* A figure and the scale or the sign behind it.                            *)
LEMMA FigureAndSuffix ==
  ASSUME NEW p \in Seq(NumberToken), Len(p) = 2,
         p[1].word = "figure", p[1].n # 0,
         p[2].word \in DOMAIN Scales \cup {"%"}
  PROVE  PhraseValue(p) = Scaled(p[1], p[2])
<1>1. PICK run : IsReading(run, p) BY PhraseRuns
<1>2. PhraseValue(p) = [n |-> run[2].total + run[2].current,
                        percent |-> run[2].percent]
  BY <1>1 DEF IsReading
<1>3. /\ p[1].n \in Nat /\ p[1].percent \in BOOLEAN /\ run[1] \in Reading
      /\ run[1].total = 0 /\ run[1].current = p[1].n
      /\ run[1].percent = p[1].percent
  BY <1>1, FigureFirst
<1>4. run[2] = Read(run[1], p[2]) /\ p[2] \in NumberToken
  <2>1. 2 \in 1 .. Len(p) /\ 2 - 1 = 1 OBVIOUS
  <2> QED BY <1>1, <2>1 DEF IsReading
<1>5. ~p[2].percent
  <2>1. p[2].word # "figure" BY WordsApart
  <2>2. p[2] = Word(p[2].word) BY <1>4, <2>1, TokenIs
  <2>3. \A w : ~Word(w).percent BY DEF Word
  <2> QED BY <2>2, <2>3, Zenon
<1>6. run[2].percent = (p[1].percent \/ p[2].word = "%")
  <2>1. \A acc \in Reading, t \in NumberToken :
          Read(acc, t).percent = (acc.percent \/ t.percent \/ t.word \in PercentWords)
    BY ReadIs
  <2> DEFINE r == Read(run[1], p[2])
             u == run[1]
             t == p[2]
  <2>6. r.percent = (u.percent \/ t.percent \/ t.word \in PercentWords)
    <3>1. u \in Reading /\ t \in NumberToken /\ r = Read(u, t) BY <1>3, <1>4
    <3> HIDE DEF r, u, t
    <3> QED BY <2>1, <3>1, Zenon
  <2>7. run[2] = r BY <1>4
  <2> HIDE DEF r
  <2>2. run[2].percent =
          (run[1].percent \/ p[2].percent \/ p[2].word \in PercentWords)
    BY <2>6, <2>7, Zenon
  <2>3. p[2].word \in PercentWords <=> p[2].word = "%"
    <3>1. "percent" \notin DOMAIN Scales /\ "percent" # "%" BY WordsApart
    <3>2. p[2].word # "percent" BY <3>1
    <3> QED BY <3>2 DEF PercentWords
  <2> DEFINE a == p[1].percent
             c == p[2].word = "%"
             b == p[2].percent
  <2>4. run[2].percent = (a \/ b \/ p[2].word \in PercentWords)
    BY <1>3, <2>2, Zenon
  <2>5. (a \/ b \/ p[2].word \in PercentWords) <=> (a \/ c)
    BY <1>5, <2>3, Zenon
  <2> QED BY <2>4, <2>5, Zenon
<1>7. CASE p[2].word \in DOMAIN Scales
  <2> DEFINE S == Scales[p[2].word]
  <2>1. S \in Nat BY <1>7, WordsApart
  <2>2. /\ Read(run[1], p[2]).total =
             run[1].total + OrOne(run[1].current) * Scales[p[2].word]
        /\ Read(run[1], p[2]).current = 0
    BY <1>3, <1>4, <1>7, ReadIs
  <2>3. OrOne(run[1].current) = p[1].n BY <1>3 DEF OrOne
  <2>4. Scaled(p[1], p[2]) = [n |-> p[1].n * S,
                              percent |-> p[1].percent \/ p[2].word = "%"]
    BY <1>7 DEF Scaled
  <2> HIDE DEF S
  <2>5. run[2].total = 0 + p[1].n * S /\ run[2].current = 0
    BY <1>3, <1>4, <2>2, <2>3 DEF S
  <2>6. run[2].total + run[2].current = p[1].n * S BY <1>3, <2>1, <2>5
  <2> QED BY <1>2, <1>6, <2>4, <2>6
<1>8. CASE p[2].word = "%"
  <2>1. Read(run[1], p[2]).total = run[1].total
        /\ Read(run[1], p[2]).current = run[1].current
    BY <1>3, <1>4, <1>8, ReadIs DEF PercentWords
  <2>2. run[2].total + run[2].current = p[1].n BY <1>3, <1>4, <2>1
  <2>3. Scaled(p[1], p[2]) = [n |-> p[1].n,
                              percent |-> p[1].percent \/ p[2].word = "%"]
    BY <1>8, WordsApart DEF Scaled
  <2> QED BY <1>2, <1>6, <2>2, <2>3
<1> QED BY <1>7, <1>8

(* The numbers typed in a text: the figures in their order.                 *)
LEMMA ParseIs ==
  ASSUME NEW ts, NEW s,
         InOrder({i \in DOMAIN ts : ts[i].word = "figure"}) = s
  PROVE  ParseNumbers(ts) =
           [k \in DOMAIN s |->
              Scaled(ts[s[k]], IF s[k] = Len(ts) THEN Word("plain")
                               ELSE ts[s[k] + 1])]
BY DEF ParseNumbers

(* Typed or spoken, a figure with its suffix is the same number.            *)
LEMMA TypedIsSpoken ==
  ASSUME heard \in Seq(SpokenToken)
  PROVE  TypedAsSpoken
<1> SUFFICES ASSUME NEW p \in Phrases, p[1].word = "figure", p[1].n # 0,
                    \A i \in DOMAIN p \ {1} :
                      i = 2 /\ p[i].word \in DOMAIN Scales \cup {"%"}
             PROVE  ParseNumbers(p) = <<PhraseValue(p)>>
  BY DEF TypedAsSpoken
<1>1. p \in Seq(NumberToken) /\ Len(p) \in Nat /\ Len(p) > 0 /\ ~p[1].percent
  BY PhraseIs
<1>2. DOMAIN p = 1 .. Len(p) BY <1>1
<1>3. Len(p) = 1 \/ Len(p) = 2
  <2>1. ~(Len(p) > 2)
    <3> SUFFICES ASSUME Len(p) > 2 PROVE FALSE OBVIOUS
    <3>1. 3 \in DOMAIN p \ {1} BY <1>1, <1>2
    <3> QED BY <3>1
  <2> DEFINE c == Len(p)
  <2>2. c \in Nat /\ c > 0 /\ ~(c > 2) BY <1>1, <2>1
  <2> HIDE DEF c
  <2>3. c = 1 \/ c = 2 BY <2>2
  <2> QED BY <2>3 DEF c
<1> DEFINE figures == {i \in DOMAIN p : p[i].word = "figure"}
           next == IF 1 = Len(p) THEN Word("plain") ELSE p[1 + 1]
<1>4. figures = {1}
  <2>1. 1 \in DOMAIN p BY <1>1, <1>2
  <2>2. \A i \in DOMAIN p \ {1} : p[i].word # "figure" BY WordsApart
  <2> QED BY <2>1, <2>2
<1>5. InOrder(figures) = <<1>>
  <2>2. IsInOrder(<<1>>, figures) BY <1>4 DEF IsInOrder
  <2> HIDE DEF figures
  <2>1. figures \in SUBSET Nat /\ IsFiniteSet(figures)
    <3>1. IsFiniteSet({1}) BY FS_Singleton
    <3>2. {1} \in SUBSET Nat OBVIOUS
    <3> QED BY <1>4, <3>1, <3>2
  <2> QED BY <2>1, <2>2, InOrderOnly
<1>6. ParseNumbers(p) = <<Scaled(p[1], next)>>
  <2> DEFINE s == <<1>>
  <2>1. ParseNumbers(p) =
          [k \in DOMAIN s |->
             Scaled(p[s[k]], IF s[k] = Len(p) THEN Word("plain")
                             ELSE p[s[k] + 1])]
    BY <1>5, ParseIs
  <2>2. DOMAIN s = {1} /\ s[1] = 1 OBVIOUS
  <2>3. ParseNumbers(p) = [k \in {1} |-> Scaled(p[1], next)]
    BY <2>1, <2>2
  <2> HIDE DEF next
  <2>4. [k \in {1} |-> Scaled(p[1], next)] = <<Scaled(p[1], next)>> OBVIOUS
  <2> QED BY <2>3, <2>4
<1>7. CASE Len(p) = 1
  <2>1. PhraseValue(p) = [n |-> p[1].n, percent |-> p[1].percent]
    BY <1>1, <1>7, OneFigure
  <2>2. next = Word("plain") BY <1>7
  <2>3. /\ Word("plain").word \notin DOMAIN Scales
        /\ Word("plain").word # "%"
    BY WordsApart DEF Word
  <2>4. p[1].percent = FALSE
    <3>1. p[1] \in NumberToken BY <1>1, <1>2
    <3>2. p[1].percent \in BOOLEAN BY <3>1, TokenIs, WordsApart
    <3> QED BY <1>1, <3>2
  <2>5. Scaled(p[1], Word("plain")) = [n |-> p[1].n, percent |-> FALSE]
    BY <2>3, <2>4 DEF Scaled
  <2> HIDE DEF next
  <2> QED BY <1>6, <2>1, <2>2, <2>4, <2>5
<1>8. CASE Len(p) = 2
  <2>1. 2 \in DOMAIN p \ {1} /\ 1 + 1 = 2 BY <1>2, <1>8
  <2>2. p[2].word \in DOMAIN Scales \cup {"%"} BY <2>1
  <2>3. PhraseValue(p) = Scaled(p[1], p[2])
    BY <1>1, <1>8, <2>2, FigureAndSuffix
  <2>4. next = p[2] BY <1>8, <2>1
  <2> HIDE DEF next
  <2> QED BY <1>6, <2>3, <2>4
<1> QED BY <1>3, <1>7, <1>8
-----------------------------------------------------------------------------
(* What is kept of a text when it is shown: where a run of number tokens    *)
(* starts, and what is no number.                                           *)
Standing(ts) == RunStarts(ts) \cup {i \in DOMAIN ts : ~IsNumToken(ts[i])}

(* The places of what is shown in the text it was made of.                  *)
Source(ts) == InOrder(Standing(ts))

(* The text that is shown, place by place.                                  *)
LEMMA ShownIs ==
  ASSUME NEW ts \in Seq(TextToken)
  PROVE  /\ IsInOrder(Source(ts), Standing(ts)) /\ Standing(ts) \subseteq 1 .. Len(ts)
         /\ Collapsed(ts) \in Seq(TextToken)
         /\ Len(Collapsed(ts)) = Len(Source(ts))
         /\ \A k \in 1 .. Len(Source(ts)) :
              /\ Source(ts)[k] \in RunStarts(ts) =>
                   Collapsed(ts)[k]
                     = Figure(PhraseValue(RunFrom(ts, Source(ts)[k])))
              /\ Source(ts)[k] \notin RunStarts(ts) =>
                   Collapsed(ts)[k] = Word("plain")
<1> DEFINE K == Source(ts)
           shown == Collapsed(ts)
           m == Len(K)
           Show(i) == IF IsNumToken(ts[i])
                      THEN Figure(PhraseValue(RunFrom(ts, i))) ELSE ts[i]
<1>1. Standing(ts) \subseteq DOMAIN ts /\ DOMAIN ts = 1 .. Len(ts)
  BY DEF Standing, RunStarts
<1>2. IsInOrder(K, Standing(ts)) BY <1>1, PositionsAre DEF Source
<1>3. K \in Seq(Standing(ts)) /\ m \in Nat /\ DOMAIN K = 1 .. m
      /\ \A k \in 1 .. m : K[k] \in Standing(ts)
  BY <1>2 DEF IsInOrder
<1>4. shown = [k \in 1 .. m |-> Show(K[k])]
  <2>1. shown = [k \in DOMAIN K |-> Show(K[k])]
    BY DEF Collapsed, Source, Standing
  <2> QED BY <1>3, <2>1
<1>5. ASSUME NEW i \in Standing(ts)
      PROVE  /\ Show(i) \in TextToken
             /\ i \in RunStarts(ts) =>
                  Show(i) = Figure(PhraseValue(RunFrom(ts, i)))
             /\ i \notin RunStarts(ts) => Show(i) = Word("plain")
  <2>1. CASE i \in RunStarts(ts)
    <3>1. IsNumToken(ts[i]) /\ RunFrom(ts, i) \in Seq(NumberToken)
      BY <2>1, RunFromIs
    <3>2. PhraseValue(RunFrom(ts, i)) \in Value BY <3>1, PhraseType
    <3>3. Figure(PhraseValue(RunFrom(ts, i))) \in TextToken
      BY <3>2 DEF TextToken, NumberToken
    <3> QED BY <2>1, <3>1, <3>3
  <2>2. CASE i \notin RunStarts(ts)
    <3>1. i \in DOMAIN ts /\ ~IsNumToken(ts[i]) BY <2>2 DEF Standing
    <3>2. ts[i] \in TextToken BY <3>1
    <3>3. ts[i] = Word("plain") BY <3>1, <3>2, TextIs
    <3> QED BY <2>2, <3>1, <3>2, <3>3
  <2> QED BY <2>1, <2>2
<1> HIDE DEF K, m, Show, shown
<1>6. \A k \in 1 .. m : shown[k] = Show(K[k]) BY <1>4
<1>7. shown \in Seq(TextToken) /\ Len(shown) = m
  <2>1. \A k \in 1 .. m : Show(K[k]) \in TextToken BY <1>3, <1>5
  <2> QED BY <1>3, <1>4, <2>1
<1>8. \A k \in 1 .. m :
        /\ K[k] \in RunStarts(ts) =>
             shown[k] = Figure(PhraseValue(RunFrom(ts, K[k])))
        /\ K[k] \notin RunStarts(ts) => shown[k] = Word("plain")
  BY <1>3, <1>5, <1>6
<1> QED BY <1>1, <1>2, <1>7, <1>8 DEF K, m, shown

(* A number is shown as a figure that is followed by none.                  *)
LEMMA ShownApart ==
  ASSUME NEW ts \in Seq(TextToken), NEW k \in 1 .. Len(Source(ts))
  PROVE  /\ Source(ts)[k] \in RunStarts(ts) <=>
              IsNumToken(Collapsed(ts)[k])
         /\ Collapsed(ts)[k].word = "figure" <=>
              Source(ts)[k] \in RunStarts(ts)
         /\ Collapsed(ts)[k].word \in {"figure", "plain"}
         /\ k + 1 \in 1 .. Len(Source(ts)) /\ Source(ts)[k] \in RunStarts(ts)
              => Source(ts)[k + 1] \notin RunStarts(ts)
<1> DEFINE K == Source(ts)
           shown == Collapsed(ts)
<1>1. \A v : Figure(v).word = "figure" BY DEF Figure
<1>2. Word("plain").word = "plain" BY DEF Word
<1>3. IsNumToken(shown[k]) <=> shown[k].word # "plain" BY DEF IsNumToken
<1>4. /\ K[k] \in RunStarts(ts) => shown[k].word = "figure"
      /\ K[k] \notin RunStarts(ts) => shown[k].word = "plain"
  BY <1>1, <1>2, ShownIs
<1>5. ASSUME k + 1 \in 1 .. Len(K), K[k] \in RunStarts(ts),
             K[k + 1] \in RunStarts(ts)
      PROVE  FALSE
  <2> DEFINE a == K[k]
             b == K[k + 1]
  <2>1. /\ \A i, j \in 1 .. Len(K) : i < j => K[i] < K[j]
        /\ \A x \in Standing(ts) : \E j \in 1 .. Len(K) : K[j] = x
        /\ \A x \in Standing(ts) : x \in 1 .. Len(ts)
        /\ K \in Seq(Standing(ts))
    BY ShownIs DEF IsInOrder
  <2> HIDE DEF K
  <2>2. a \in Standing(ts) /\ b \in Standing(ts) /\ a < b
    <3>1. k \in 1 .. Len(K) /\ k < k + 1 BY DEF K
    <3>2. \A i \in 1 .. Len(K) : K[i] \in Standing(ts) BY <2>1
    <3> QED BY <1>5, <2>1, <3>1, <3>2
  <2>3. /\ a \in 1 .. Len(ts) /\ b \in 1 .. Len(ts) /\ Len(ts) \in Nat
        /\ DOMAIN ts = 1 .. Len(ts)
    <3>1. a \in 1 .. Len(ts) /\ b \in 1 .. Len(ts) BY <2>1, <2>2
    <3>2. Len(ts) \in Nat /\ DOMAIN ts = 1 .. Len(ts) OBVIOUS
    <3> QED BY <3>1, <3>2
  <2>4. IsNumToken(ts[a]) /\ ~IsNumToken(ts[b - 1])
    BY <1>5, <2>2, <2>3 DEF RunStarts
  <2>5. b - 1 \in DOMAIN ts /\ b - 1 # a /\ a < b - 1
    <3>1. b - 1 # a BY <2>4
    <3> HIDE DEF a, b
    <3> QED BY <2>2, <2>3, <3>1
  <2>6. b - 1 \in Standing(ts) BY <2>4, <2>5 DEF Standing
  <2>7. PICK j \in 1 .. Len(K) : K[j] = b - 1 BY <2>1, <2>6
  <2>8. k < j
    <3>1. ~(j < k) /\ j # k
      <4>0. k \in 1 .. Len(K) BY DEF K
      <4>1. j < k => b - 1 < a
        <5>1. j < k => K[j] < K[k] BY <2>1, <4>0
        <5> QED BY <2>7, <5>1
      <4> HIDE DEF a, b
      <4>2. ~(b - 1 < a) BY <2>3, <2>5
      <4>3. j # k BY <2>5, <2>7 DEF a
      <4> QED BY <4>1, <4>2, <4>3
    <3> QED BY <3>1
  <2>9. j < k + 1
    <3>1. ~(k + 1 < j) /\ j # k + 1
      <4>1. k + 1 < j => b < b - 1 BY <1>5, <2>1, <2>7
      <4>2. j = k + 1 => b = b - 1 BY <2>7
      <4> HIDE DEF a, b
      <4>3. ~(b < b - 1) /\ b # b - 1 BY <2>3
      <4> QED BY <4>1, <4>2, <4>3
    <3> QED BY <3>1
  <2>10. j \in Nat /\ k \in Nat OBVIOUS
  <2> QED BY <2>8, <2>9, <2>10
<1> HIDE DEF K, shown
<1> QED BY <1>3, <1>4, <1>5 DEF K, shown

(* A place of a text that is kept among others is in their order.           *)
LEMMA FiguresInOrder ==
  ASSUME NEW ts \in Seq(TextToken)
  PROVE  LET shown == Collapsed(ts)
             figures == InOrder({k \in DOMAIN shown : shown[k].word = "figure"})
         IN  /\ DOMAIN figures = DOMAIN InOrder(RunStarts(ts))
             /\ \A m \in DOMAIN figures :
                  /\ figures[m] \in 1 .. Len(Source(ts))
                  /\ shown[figures[m]].word = "figure"
                  /\ InOrder(RunStarts(ts))[m] = Source(ts)[figures[m]]
                  /\ InOrder(RunStarts(ts))[m] \in RunStarts(ts)
<1> DEFINE K == Source(ts)
           shown == Collapsed(ts)
           places == {k \in DOMAIN shown : shown[k].word = "figure"}
           figures == InOrder(places)
           starts == RunStarts(ts)
           s == [m \in 1 .. Len(figures) |-> K[figures[m]]]
<1>1. /\ shown \in Seq(TextToken) /\ DOMAIN shown = 1 .. Len(K)
      /\ Len(K) \in Nat
  <2>1. shown \in Seq(TextToken) /\ Len(shown) = Len(K) BY ShownIs
  <2> HIDE DEF K, shown
  <2> QED BY <2>1
<1>2. IsInOrder(figures, places)
  <2>1. places \subseteq DOMAIN shown OBVIOUS
  <2> HIDE DEF shown, places
  <2> QED BY <1>1, <2>1, PositionsAre
<1>3. /\ Len(figures) \in Nat /\ DOMAIN figures = 1 .. Len(figures)
      /\ \A m \in 1 .. Len(figures) : figures[m] \in places
      /\ \A i, j \in 1 .. Len(figures) : i < j => figures[i] < figures[j]
      /\ \A k \in places : \E m \in 1 .. Len(figures) : figures[m] = k
  <2> HIDE DEF figures, places
  <2>1. figures \in Seq(places) BY <1>2 DEF IsInOrder
  <2> QED BY <1>2, <2>1 DEF IsInOrder
<1>4. \A k \in places : k \in 1 .. Len(K) /\ K[k] \in starts
                        /\ shown[k].word = "figure"
  BY <1>1, ShownApart
<1>5. /\ \A i, j \in 1 .. Len(K) : i < j => K[i] < K[j]
      /\ \A x \in Standing(ts) : \E j \in 1 .. Len(K) : K[j] = x
  BY ShownIs DEF IsInOrder
<1>6. ASSUME NEW x \in starts PROVE \E k \in places : K[k] = x
  <2>1. x \in Standing(ts) BY DEF Standing
  <2>2. PICK k \in 1 .. Len(K) : K[k] = x BY <1>5, <2>1
  <2>3. k \in places BY <1>1, <2>2, ShownApart
  <2> QED BY <2>2, <2>3
<1> HIDE DEF figures, places, K, shown, starts
<1>7. \A m \in 1 .. Len(figures) : s[m] = K[figures[m]] /\ s[m] \in starts
  BY <1>3, <1>4
<1>8. s \in Seq(starts) /\ Len(s) = Len(figures)
  <2>1. s \in [1 .. Len(figures) -> starts] BY <1>7
  <2> HIDE DEF s
  <2> QED BY <1>3, <2>1
<1>9. IsInOrder(s, starts)
  <2>1. ASSUME NEW i \in 1 .. Len(figures), NEW j \in 1 .. Len(figures), i < j
        PROVE  s[i] < s[j]
    <3>1. figures[i] < figures[j] /\ figures[i] \in 1 .. Len(K)
          /\ figures[j] \in 1 .. Len(K)
      BY <1>3, <1>4, <2>1
    <3> QED BY <1>5, <1>7, <3>1
  <2>2. ASSUME NEW x \in starts PROVE \E m \in 1 .. Len(figures) : s[m] = x
    <3>1. PICK k \in places : K[k] = x BY <1>6
    <3>2. PICK m \in 1 .. Len(figures) : figures[m] = k BY <1>3
    <3> QED BY <1>7, <3>1, <3>2
  <2> HIDE DEF s
  <2> QED BY <1>8, <2>1, <2>2 DEF IsInOrder
<1>10. InOrder(starts) = s
  <2>1. starts \subseteq DOMAIN ts BY DEF starts, RunStarts
  <2>2. starts \in SUBSET Nat /\ IsFiniteSet(starts) BY <2>1, PositionsAre
  <2> HIDE DEF s
  <2> QED BY <1>9, <2>2, InOrderOnly
<1>11. DOMAIN s = DOMAIN figures BY <1>3
<1> HIDE DEF s
<1>12. \A m \in DOMAIN figures :
         /\ figures[m] \in 1 .. Len(K) /\ shown[figures[m]].word = "figure"
         /\ s[m] = K[figures[m]] /\ s[m] \in starts
  BY <1>3, <1>4, <1>7
<1> QED BY <1>10, <1>11, <1>12 DEF figures, places, K, shown, starts
(* What is detected, run by run.                                            *)
LEMMA DetectedIs ==
  ASSUME NEW ts \in Seq(TextToken)
  PROVE  LET starts == InOrder(RunStarts(ts))
             detected == DetectNumbers(ts)
         IN  /\ DOMAIN detected = DOMAIN starts
             /\ DOMAIN starts = 1 .. Len(starts) /\ Len(starts) \in Nat
             /\ Len(detected) = Len(starts)
             /\ \A k \in DOMAIN starts :
                  /\ starts[k] \in RunStarts(ts)
                  /\ detected[k].value = PhraseValue(RunFrom(ts, starts[k]))
                  /\ detected[k].candidates =
                       Candidates(RunFrom(ts, starts[k]),
                                  PhraseValue(RunFrom(ts, starts[k])))
<1> DEFINE starts == InOrder(RunStarts(ts))
           detected == DetectNumbers(ts)
           D(p) == [value |-> PhraseValue(p),
                    candidates |-> Candidates(p, PhraseValue(p))]
<1>1. detected = [k \in DOMAIN starts |-> D(RunFrom(ts, starts[k]))]
  BY DEF DetectNumbers
<1>2. IsInOrder(starts, RunStarts(ts))
  <2>1. RunStarts(ts) \subseteq DOMAIN ts BY DEF RunStarts
  <2> QED BY <2>1, PositionsAre
<1> HIDE DEF starts, detected
<1>3. /\ DOMAIN starts = 1 .. Len(starts) /\ Len(starts) \in Nat
      /\ \A k \in DOMAIN starts : starts[k] \in RunStarts(ts)
  <2>1. starts \in Seq(RunStarts(ts)) BY <1>2 DEF IsInOrder
  <2> QED BY <2>1
<1>4. Len(detected) = Len(starts)
  <2>1. DOMAIN detected = 1 .. Len(starts) BY <1>1, <1>3
  <2>2. detected \in Seq({D(RunFrom(ts, starts[k])) : k \in DOMAIN starts})
    <3> HIDE DEF D
    <3> QED BY <1>1, <1>3
  <2> HIDE DEF D
  <2> QED BY <1>3, <2>1, <2>2
<1>5. \A k \in DOMAIN starts :
        /\ detected[k].value = PhraseValue(RunFrom(ts, starts[k]))
        /\ detected[k].candidates =
             Candidates(RunFrom(ts, starts[k]),
                        PhraseValue(RunFrom(ts, starts[k])))
  BY <1>1
<1> QED BY <1>1, <1>3, <1>4, <1>5 DEF starts, detected

(* The shown text holds the values that were detected, in their order.      *)
LEMMA ShownIsDetected ==
  ASSUME NEW ts \in Seq(TextToken)
  PROVE  ParseNumbers(Collapsed(ts)) =
           [k \in DOMAIN DetectNumbers(ts) |-> DetectNumbers(ts)[k].value]
<1> DEFINE K == Source(ts)
           shown == Collapsed(ts)
           places == {k \in DOMAIN shown : shown[k].word = "figure"}
           figures == InOrder(places)
           starts == InOrder(RunStarts(ts))
           detected == DetectNumbers(ts)
           After(i) == IF i = Len(shown) THEN Word("plain") ELSE shown[i + 1]
<1>1. ParseNumbers(shown) =
        [k \in DOMAIN figures |-> Scaled(shown[figures[k]], After(figures[k]))]
  BY ParseIs
<1>2. /\ DOMAIN figures = DOMAIN starts
      /\ \A k \in DOMAIN figures :
           /\ figures[k] \in 1 .. Len(K) /\ shown[figures[k]].word = "figure"
           /\ starts[k] = K[figures[k]] /\ starts[k] \in RunStarts(ts)
  BY FiguresInOrder
<1>3. /\ DOMAIN detected = DOMAIN starts
      /\ \A k \in DOMAIN starts :
           detected[k].value = PhraseValue(RunFrom(ts, starts[k]))
  BY DetectedIs
<1>4. /\ Len(shown) = Len(K) /\ Len(K) \in Nat
      /\ \A i \in 1 .. Len(K) :
           /\ K[i] \in RunStarts(ts) =>
                shown[i] = Figure(PhraseValue(RunFrom(ts, K[i])))
           /\ shown[i].word \in {"figure", "plain"}
  <2>1. IsInOrder(K, Standing(ts)) BY ShownIs
  <2>2. Len(K) \in Nat
    <3> HIDE DEF K
    <3>1. K \in Seq(Standing(ts)) BY <2>1 DEF IsInOrder
    <3> QED BY <3>1
  <2> QED BY <2>2, ShownIs, ShownApart
<1>5. ASSUME NEW k \in DOMAIN figures
      PROVE  Scaled(shown[figures[k]], After(figures[k])) = detected[k].value
  <2> DEFINE i == figures[k]
             v == PhraseValue(RunFrom(ts, starts[k]))
             next == After(i)
  <2>1. i \in 1 .. Len(K) /\ starts[k] = K[i] /\ starts[k] \in RunStarts(ts)
    BY <1>2
  <2>2. shown[i] = Figure(v) BY <1>4, <2>1
  <2>3. next.word \in {"figure", "plain"}
    <3>1. CASE i = Len(shown)
      <4>1. Word("plain").word = "plain" BY DEF Word
      <4> QED BY <3>1, <4>1
    <3>2. CASE i # Len(shown)
      <4>1. i + 1 \in 1 .. Len(K)
        <5> HIDE DEF i, K, shown
        <5> QED BY <1>4, <2>1, <3>2
      <4> QED BY <1>4, <3>2, <4>1
    <3> QED BY <3>1, <3>2
  <2>4. v \in Value BY <2>1, RunFromIs, PhraseType
  <2>5. detected[k].value = v BY <1>2, <1>3
  <2> HIDE DEF next, v, i
  <2>6. next.word \notin DOMAIN Scales /\ next.word # "%"
    BY <2>3, WordsApart
  <2>7. Scaled(Figure(v), next) = [n |-> v.n, percent |-> v.percent]
    <3>1. v.percent \in BOOLEAN BY <2>4 DEF Value
    <3>2. (v.percent \/ next.word = "%") = v.percent BY <2>6, <3>1
    <3>3. Scaled(Figure(v), next) =
            [n |-> v.n, percent |-> v.percent \/ next.word = "%"]
      BY <2>6 DEF Scaled, Figure
    <3> QED BY <3>2, <3>3
  <2>8. v = [n |-> v.n, percent |-> v.percent] BY <2>4 DEF Value
  <2>9. Scaled(shown[i], next) = detected[k].value
    BY <2>2, <2>5, <2>7, <2>8
  <2> QED BY <2>9 DEF i, next
<1> HIDE DEF After, figures, starts, detected, places, shown, K
<1>6. ParseNumbers(shown) = [k \in DOMAIN detected |-> detected[k].value]
  BY <1>1, <1>2, <1>3, <1>5
<1> QED BY <1>6 DEF shown, detected

(* All the positions of a text, in their order.                             *)
LEMMA AllInOrder ==
  ASSUME NEW n \in Nat
  PROVE  InOrder(1 .. n) = [i \in 1 .. n |-> i]
<1> DEFINE s == [i \in 1 .. n |-> i]
<1>1. s \in Seq(1 .. n) /\ Len(s) = n OBVIOUS
<1>2. IsInOrder(s, 1 .. n) BY <1>1 DEF IsInOrder
<1>3. 1 .. n \in SUBSET Nat /\ IsFiniteSet(1 .. n)
  <2>1. 1 .. n \in SUBSET Nat OBVIOUS
  <2> QED BY <2>1, FS_Interval
<1> HIDE DEF s
<1> QED BY <1>2, <1>3, InOrderOnly DEF s

(* A number token that none follows is a run of its own.                    *)
LEMMA RunOfOne ==
  ASSUME NEW ts \in Seq(TextToken), NEW i \in RunStarts(ts),
         i = Len(ts) \/ ~IsNumToken(ts[i + 1])
  PROVE  Len(RunFrom(ts, i)) = 1 /\ RunFrom(ts, i)[1] = ts[i]
<1>1. i \in 1 .. Len(ts) BY RunFromIs
<1>2. PICK j : /\ IsRunEnd(ts, i, j) /\ Len(RunFrom(ts, i)) = j - i + 1
               /\ \A m \in 1 .. j - i + 1 : RunFrom(ts, i)[m] = ts[i + m - 1]
  BY RunFromIs
<1>3. j \in i .. Len(ts) /\ \A k \in i .. j : IsNumToken(ts[k])
  BY <1>2 DEF IsRunEnd
<1>4. j = i
  <2> SUFFICES ASSUME j # i PROVE FALSE OBVIOUS
  <2>1. i + 1 \in i .. j /\ i # Len(ts) BY <1>1, <1>3
  <2> QED BY <1>3, <2>1
<1>5. j - i + 1 = 1 /\ 1 \in 1 .. 1 /\ i + 1 - 1 = i BY <1>1, <1>4
<1>6. \A m \in 1 .. 1 : RunFrom(ts, i)[m] = ts[i + m - 1] BY <1>2, <1>5
<1>7. RunFrom(ts, i)[1] = ts[i + 1 - 1] BY <1>5, <1>6
<1> QED BY <1>2, <1>5, <1>7

(* A text in which no number follows a number is shown as it is.            *)
LEMMA ShownAgain ==
  ASSUME NEW ts \in Seq(TextToken),
         \A i \in 1 .. Len(ts) : IsNumToken(ts[i]) => ts[i].word = "figure",
         \A i \in 1 .. Len(ts) :
           i + 1 \in 1 .. Len(ts) /\ IsNumToken(ts[i])
             => ~IsNumToken(ts[i + 1])
  PROVE  Collapsed(ts) = ts
<1> DEFINE n == Len(ts)
           K == Source(ts)
<1>1. n \in Nat /\ DOMAIN ts = 1 .. n OBVIOUS
<1>2. RunStarts(ts) = {i \in 1 .. n : IsNumToken(ts[i])}
  <2>1. \A i \in 1 .. n : IsNumToken(ts[i]) /\ i # 1 => ~IsNumToken(ts[i - 1])
    <3> SUFFICES ASSUME NEW i \in 1 .. n, i # 1, IsNumToken(ts[i]),
                        IsNumToken(ts[i - 1])
                 PROVE  FALSE
      OBVIOUS
    <3>1. i - 1 \in 1 .. n /\ (i - 1) + 1 = i BY <1>1
    <3> QED BY <3>1
  <2> QED BY <1>1, <2>1 DEF RunStarts
<1>3. Standing(ts) = 1 .. n BY <1>1, <1>2 DEF Standing
<1>4. K = [i \in 1 .. n |-> i] BY <1>1, <1>3, AllInOrder DEF Source
<1>5. ASSUME NEW i \in 1 .. n, IsNumToken(ts[i])
      PROVE  Figure(PhraseValue(RunFrom(ts, i))) = ts[i]
  <2> DEFINE p == RunFrom(ts, i)
  <2>1. i \in RunStarts(ts) BY <1>2, <1>5
  <2>2. p \in Seq(NumberToken) BY <2>1, RunFromIs
  <2>6. Len(p) = 1 /\ p[1] = ts[i]
    <3>1. i = n \/ ~IsNumToken(ts[i + 1])
      <4> SUFFICES ASSUME i # n PROVE ~IsNumToken(ts[i + 1]) OBVIOUS
      <4>1. i + 1 \in 1 .. n BY <1>1
      <4> QED BY <1>5, <4>1
    <3> QED BY <2>1, <3>1, RunOfOne
  <2> HIDE DEF p
  <2>7. ts[i].word = "figure" /\ ts[i] \in NumberToken
    <3>1. ts[i] \in TextToken OBVIOUS
    <3> QED BY <1>5, <3>1, TextIs
  <2>8. PhraseValue(p) = [n |-> p[1].n, percent |-> p[1].percent]
    BY <2>2, <2>6, <2>7, OneFigure
  <2>9. ts[i] = Figure([n |-> ts[i].n, percent |-> ts[i].percent])
    BY <2>7, TokenIs, WordsApart
  <2> QED BY <2>6, <2>8, <2>9 DEF p
<1>6. Collapsed(ts) =
        [k \in DOMAIN K |-> IF IsNumToken(ts[K[k]])
                            THEN Figure(PhraseValue(RunFrom(ts, K[k])))
                            ELSE ts[K[k]]]
  BY DEF Collapsed, Source, Standing
<1> HIDE DEF K
<1>7. \A i \in 1 .. n : K[i] = i BY <1>4
<1>8. DOMAIN K = 1 .. n BY <1>4
<1>9. Collapsed(ts) =
        [i \in 1 .. n |-> IF IsNumToken(ts[i])
                          THEN Figure(PhraseValue(RunFrom(ts, i)))
                          ELSE ts[i]]
  BY <1>6, <1>7, <1>8
<1>10. Collapsed(ts) = [i \in 1 .. n |-> ts[i]]
  <2>1. \A i \in 1 .. n : (IF IsNumToken(ts[i])
                           THEN Figure(PhraseValue(RunFrom(ts, i)))
                           ELSE ts[i]) = ts[i]
    BY <1>5
  <2> QED BY <1>9, <2>1
<1>11. ts = [i \in 1 .. n |-> ts[i]] OBVIOUS
<1> QED BY <1>10, <1>11

(* A figure is printed as it stands if its value is.                        *)
LEMMA PlainlyPrinted ==
  ASSUME NEW v, PrintsPlainly(v)
  PROVE  Printed(Figure(v)) = <<Figure(v)>>
<1>1. Figure(v).n = v.n /\ Figure(v).percent = v.percent BY DEF Figure
<1>2. PrintsPlainly(Figure(v)) BY <1>1 DEF PrintsPlainly, Unit
<1> QED BY <1>2 DEF Printed

(* A text whose numbers print plainly is printed as it is collapsed.        *)
LEMMA PrintedAsIs ==
  ASSUME NEW ts \in Seq(TextToken),
         \A k \in DOMAIN DetectNumbers(ts) :
           PrintsPlainly(DetectNumbers(ts)[k].value)
  PROVE  \A i \in DOMAIN Collapsed(ts) :
           Printed(Collapsed(ts)[i]) = <<Collapsed(ts)[i]>>
<1> DEFINE K == Source(ts)
           shown == Collapsed(ts)
           starts == InOrder(RunStarts(ts))
<1>1. DOMAIN shown = 1 .. Len(K)
  <2>1. shown \in Seq(TextToken) /\ Len(shown) = Len(K) BY ShownIs
  <2> HIDE DEF shown, K
  <2> QED BY <2>1
<1>2. ASSUME NEW i \in 1 .. Len(K), K[i] \in RunStarts(ts)
      PROVE  Printed(shown[i]) = <<shown[i]>>
  <2>1. IsInOrder(starts, RunStarts(ts))
    <3>1. RunStarts(ts) \subseteq DOMAIN ts BY DEF RunStarts
    <3> QED BY <3>1, PositionsAre
  <2>2. PICK k \in 1 .. Len(starts) : starts[k] = K[i]
    BY <1>2, <2>1 DEF IsInOrder
  <2>3. /\ k \in DOMAIN DetectNumbers(ts)
        /\ DetectNumbers(ts)[k].value = PhraseValue(RunFrom(ts, starts[k]))
    BY <2>2, DetectedIs
  <2>4. shown[i] = Figure(PhraseValue(RunFrom(ts, K[i]))) BY <1>2, ShownIs
  <2>5. PrintsPlainly(PhraseValue(RunFrom(ts, K[i]))) BY <2>2, <2>3
  <2> HIDE DEF shown, K, starts
  <2> QED BY <2>4, <2>5, PlainlyPrinted
<1>3. ASSUME NEW i \in 1 .. Len(K), K[i] \notin RunStarts(ts)
      PROVE  Printed(shown[i]) = <<shown[i]>>
  <2>1. shown[i] = Word("plain") BY <1>3, ShownIs
  <2>2. Word("plain").word # "figure" BY DEF Word
  <2> QED BY <2>1, <2>2 DEF Printed
<1> HIDE DEF shown, K
<1> QED BY <1>1, <1>2, <1>3 DEF shown

(* What is shown agrees with what is detected.                              *)
LEMMA ShownAgrees ==
  ASSUME heard \in Seq(SpokenToken)
  PROVE  ShownAsDetected
<1> DEFINE shown == Collapsed(heard)
           K == Source(heard)
           values == [k \in DOMAIN DetectNumbers(heard) |->
                        DetectNumbers(heard)[k].value]
<1> SUFFICES ASSUME \A k \in DOMAIN values : PrintsPlainly(values[k])
             PROVE  /\ ParseNumbers(CleanTranscript(heard)) = values
                    /\ CleanTranscript(CleanTranscript(heard))
                         = CleanTranscript(heard)
  BY DEF ShownAsDetected
<1>1. heard \in Seq(TextToken) BY TextIs, SeqMonotonic
<1>2. ParseNumbers(shown) = values BY <1>1, ShownIsDetected
<1>3. shown \in Seq(TextToken) /\ Len(shown) = Len(K) BY <1>1, ShownIs
<1>4. ASSUME NEW i \in 1 .. Len(K), IsNumToken(shown[i])
      PROVE  /\ shown[i].word = "figure"
             /\ i + 1 \in 1 .. Len(K) => ~IsNumToken(shown[i + 1])
  <2>1. K[i] \in RunStarts(heard) BY <1>1, <1>4, ShownApart
  <2>2. shown[i].word = "figure" BY <1>1, <2>1, ShownApart
  <2>3. ASSUME i + 1 \in 1 .. Len(K) PROVE ~IsNumToken(shown[i + 1])
    <3>1. K[i + 1] \notin RunStarts(heard) BY <1>1, <2>1, <2>3, ShownApart
    <3> QED BY <1>1, <2>3, <3>1, ShownApart
  <2> QED BY <2>2, <2>3
<1>5. \A i \in DOMAIN shown : Printed(shown[i]) = <<shown[i]>>
  BY <1>1, PrintedAsIs
<1> HIDE DEF shown, K, values
<1>6. Collapsed(shown) = shown
  <2>1. \A i \in 1 .. Len(shown) : IsNumToken(shown[i]) =>
          shown[i].word = "figure"
    BY <1>3, <1>4
  <2>2. \A i \in 1 .. Len(shown) :
          i + 1 \in 1 .. Len(shown) /\ IsNumToken(shown[i])
            => ~IsNumToken(shown[i + 1])
    BY <1>3, <1>4
  <2> QED BY <1>3, <2>1, <2>2, ShownAgain
<1>7. CleanTranscript(heard) = shown BY <1>5 DEF CleanTranscript, shown
<1>8. CleanTranscript(shown) = shown BY <1>5, <1>6 DEF CleanTranscript
<1> QED BY <1>2, <1>7, <1>8

(* The types of a turn hold at first and are kept by every step.            *)
LEMMA NumbersStart == NumbersInit => NumbersTypeOK
<1> SUFFICES ASSUME NumbersInit PROVE NumbersTypeOK OBVIOUS
<1>1. heard = <<>> /\ confirmed = <<>> BY DEF NumbersInit
<1>2. MaxWords \in Nat BY NumbersAssumption
<1> QED BY <1>1, <1>2 DEF NumbersTypeOK

(* Hearing a word and confirming a number keep those types.                 *)
LEMMA NumbersStep == NumbersTypeOK /\ [NumbersNext]_numbersVars => NumbersTypeOK'
<1> SUFFICES ASSUME NumbersTypeOK, [NumbersNext]_numbersVars
             PROVE  NumbersTypeOK'
  OBVIOUS
<1>1. heard \in Seq(SpokenToken) /\ Len(heard) <= MaxWords
      /\ confirmed \in Seq(Value)
  BY DEF NumbersTypeOK
<1>2. MaxWords \in Nat BY NumbersAssumption
<1>3. CASE ConfirmNumber
  <2> DEFINE detected == DetectNumbers(heard)
             next == Len(confirmed) + 1
             starts == InOrder(RunStarts(heard))
  <2>1. next <= Len(detected) /\ heard' = heard BY <1>3 DEF ConfirmNumber
  <2>2. PICK c \in DOMAIN detected[next].candidates :
          confirmed' = Append(confirmed, detected[next].candidates[c])
    BY <1>3 DEF ConfirmNumber
  <2>3. heard \in Seq(TextToken) BY <1>1, TextIs, SeqMonotonic
  <2>4. /\ Len(detected) = Len(starts) /\ Len(starts) \in Nat
        /\ DOMAIN starts = 1 .. Len(starts)
    BY <2>3, DetectedIs
  <2>5. next \in DOMAIN starts
    <3> HIDE DEF detected, starts
    <3> QED BY <1>1, <2>1, <2>4
  <2> DEFINE p == RunFrom(heard, starts[next])
  <2>6. /\ starts[next] \in RunStarts(heard)
        /\ detected[next].candidates = Candidates(p, PhraseValue(p))
    BY <2>3, <2>5, DetectedIs
  <2>7. p \in Seq(NumberToken) BY <2>3, <2>6, RunFromIs
  <2> HIDE DEF p, detected, next, starts
  <2>8. Candidates(p, PhraseValue(p)) \in Seq(Value)
    BY <2>7, CandidatesType
  <2>9. detected[next].candidates[c] \in Value BY <2>2, <2>6, <2>8
  <2>10. confirmed' \in Seq(Value) BY <1>1, <2>2, <2>9
  <2> QED BY <1>1, <2>1, <2>10 DEF NumbersTypeOK
<1>4. CASE \E t \in SpokenToken : HearWord(t)
  <2>1. PICK t \in SpokenToken : HearWord(t) BY <1>4
  <2>2. Len(heard) < MaxWords /\ heard' = Append(heard, t)
        /\ confirmed' = confirmed
    BY <2>1 DEF HearWord
  <2>3. heard' \in Seq(SpokenToken) /\ Len(heard') = Len(heard) + 1
    BY <1>1, <2>2
  <2>4. Len(heard') <= MaxWords BY <1>1, <1>2, <2>2, <2>3
  <2> QED BY <1>1, <2>2, <2>3, <2>4 DEF NumbersTypeOK
<1>5. CASE UNCHANGED numbersVars
  BY <1>1, <1>5 DEF NumbersTypeOK, numbersVars
<1> QED BY <1>3, <1>4, <1>5 DEF NumbersNext

(* The turns of the number words, step by step.                             *)
NumbersSpec == NumbersInit /\ [][NumbersNext]_numbersVars

(* What is heard and confirmed is of the right kind in every turn.          *)
THEOREM NumbersTypes == NumbersSpec => []NumbersTypeOK
BY NumbersStart, NumbersStep, PTL DEF NumbersSpec

(* Spoken, shown, typed and checked, a number stays the same number, but    *)
(* for the exceptions that the parts of NumbersAgree name, in turns of any  *)
(* length and with any tables (stt_postprocess.py, math_checker.py).        *)
THEOREM NumbersAlwaysAgree == NumbersSpec => []NumbersAgree
<1>1. NumbersTypeOK => NumbersAgree
  <2> SUFFICES ASSUME NumbersTypeOK PROVE NumbersAgree OBVIOUS
  <2>1. heard \in Seq(SpokenToken) /\ confirmed \in Seq(Value)
    BY DEF NumbersTypeOK
  <2> QED BY <2>1, PhrasesAreSums, EitherWayOffered, ShownAgrees,
             TypedIsSpoken, OrderIsIgnored DEF NumbersAgree
<1> QED BY <1>1, NumbersTypes, PTL

-----------------------------------------------------------------------------

(* The rows, drills and answers of a sprint are of the right kind.          *)
LEMMA SprintTypes == SprintSpec => []SprintTypeOK
<1>1. SprintInv => SprintTypeOK BY DEF SprintInv, SprintTypeOK, Result
<1> QED BY <1>1, SprintInductive, PTL

(* A step of the six subjects together is a step of each, or leaves it.     *)
LEMMA StepOfEach ==
  ASSUME [Next]_vars
  PROVE  /\ [SentencesNext]_sentencesVars /\ [NumbersNext]_numbersVars
         /\ [ScorecardNext]_scorecardVars /\ [SprintNext]_sprintVars
         /\ [ProgressNext]_progressVars /\ [ContentNext]_contentVars
<1>1. CASE Next
  BY <1>1 DEF Next
<1>2. CASE UNCHANGED vars
  BY <1>2 DEF vars
<1> QED BY <1>1, <1>2

(* The types of all six hold together, whichever of them takes the steps.   *)
THEOREM AllTypes == Spec => []TypeOK
<1>1. Init => /\ SentencesInit /\ NumbersInit /\ ScorecardInit
              /\ SprintInit /\ ProgressInit /\ ContentInit
  BY DEF Init
<1>2. [Next]_vars => /\ [SentencesNext]_sentencesVars
                     /\ [NumbersNext]_numbersVars
                     /\ [ScorecardNext]_scorecardVars
                     /\ [SprintNext]_sprintVars
                     /\ [ProgressNext]_progressVars
                     /\ [ContentNext]_contentVars
  BY StepOfEach
<1>3. SentencesTypeOK /\ NumbersTypeOK /\ ScorecardTypeOK /\ SprintTypeOK
        /\ ProgressTypeOK /\ ContentTypeOK => TypeOK
  BY DEF TypeOK
<1>4. Spec => []SentencesTypeOK
  <2>1. Spec => SentencesSpec BY <1>1, <1>2, PTL DEF Spec, SentencesSpec
  <2> QED BY <2>1, SpeechTypes, PTL
<1>5. Spec => []NumbersTypeOK
  <2>1. Spec => NumbersSpec BY <1>1, <1>2, PTL DEF Spec, NumbersSpec
  <2> QED BY <2>1, NumbersTypes, PTL
<1>6. Spec => []ScorecardTypeOK
  <2>1. Spec => ScorecardSpec BY <1>1, <1>2, PTL DEF Spec, ScorecardSpec
  <2> QED BY <2>1, ScoresAreInRange, PTL
<1>7. Spec => []SprintTypeOK
  <2>1. Spec => SprintSpec BY <1>1, <1>2, PTL DEF Spec, SprintSpec
  <2> QED BY <2>1, SprintTypes, PTL
<1>8. Spec => []ProgressTypeOK
  <2>1. Spec => ProgressSpec BY <1>1, <1>2, PTL DEF Spec, ProgressSpec
  <2> QED BY <2>1, ProgressTypes, PTL
<1>9. Spec => []ContentTypeOK
  <2>1. Spec => ContentSpec BY <1>1, <1>2, PTL DEF Spec, ContentSpec
  <2> QED BY <2>1, ContentTypes, PTL
<1> QED BY <1>3, <1>4, <1>5, <1>6, <1>7, <1>8, <1>9, PTL
=============================================================================
