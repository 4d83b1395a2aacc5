--------------------------- MODULE Engine_proofs ---------------------------
(***************************************************************************)
(* Proofs about Engine, in every interleaving of any number of worker       *)
(* threads with any number of restarts.                                     *)
(*                                                                          *)
(* A commit takes whatever the connection holds, so what keeps a row from   *)
(* being lost is not the thread that wrote it but some thread that has a    *)
(* commit still ahead: CommitAhead.  What keeps a sprint from being graded  *)
(* twice is that pop moves it out of _drills in the step that gives it to   *)
(* one request: GradedApart.                                                *)
(*                                                                          *)
(* What the comment of store.py promises of a sequential server is the last *)
(* part: SeqInv says where the one thread with a job is, and what the       *)
(* committed rows, the engine's tables and the answers know of each other.  *)
(***************************************************************************)
EXTENDS Engine, FiniteSetTheorems, SequenceTheorems, TLAPS

(* While rows are not committed a transaction is open, and a thread that    *)
(* will commit it is on its way.                                            *)
CommitAhead ==
  rows # durable =>
    /\ open
    /\ \E t \in Threads : pc[t] \in {"rowid", "commit", "committing"}

OpenInv ==
  /\ DOMAIN pc = Threads
  /\ CommitAhead

(* Nothing is written at the start.                                         *)
LEMMA OpenInit == Init => OpenInv
  BY DEF Init, StoreInit, OpenInv, CommitAhead

(* The steps of the store's methods, each at its place.                     *)
LEMMA OpenStore ==
  ASSUME OpenInv, NEW t \in Threads, StoreStep(t)
  PROVE  OpenInv'
<1> USE DEF OpenInv, CommitAhead, Goto, connection
<1>1. CASE Execute(t) BY <1>1 DEF Execute
<1>2. CASE BeginWork(t) BY <1>2 DEF BeginWork
<1>3. CASE Bind(t) BY <1>3 DEF Bind
<1>4. CASE BindRefused(t) BY <1>4 DEF BindRefused
<1>5. CASE Insert(t) BY <1>5 DEF Insert, Saved
<1>6. CASE InsertRefused(t) BY <1>6 DEF InsertRefused
<1>7. CASE ReadRowid(t) BY <1>7 DEF ReadRowid
<1>8. CASE TestCommit(t) BY <1>8 DEF TestCommit
<1>9. CASE Commit(t) BY <1>9 DEF Commit
<1> QED
  BY <1>1, <1>2, <1>3, <1>4, <1>5, <1>6, <1>7, <1>8, <1>9 DEF StoreStep

(* A request takes a free thread, or one the store has returned to: none of *)
(* those whose commit is ahead.                                             *)
LEMMA OpenRequest ==
  ASSUME OpenInv, NEW t \in Threads, NEW l,
         pc[t] \in {"idle", "returned", "raised"}, Goto(t, l),
         UNCHANGED connection
  PROVE  OpenInv'
  BY DEF OpenInv, CommitAhead, Goto, connection

(* No step leaves rows behind without a commit ahead.                       *)
LEMMA OpenStep == OpenInv /\ [Next]_vars => OpenInv'
<1> SUFFICES ASSUME OpenInv, [Next]_vars PROVE OpenInv'
  OBVIOUS
<1>1. ASSUME NEW t \in Threads, StoreStep(t) PROVE OpenInv'
  BY <1>1, OpenStore
<1>2. ASSUME NEW t \in Threads, NEW kind, NEW about, NEW db, NEW from,
             Arrives(t), Serves(t, kind, about, db, from)
      PROVE  OpenInv'
  BY <1>2, OpenRequest DEF Arrives, Serves, Calls
<1>3. ASSUME NEW t \in Threads, StartSprint(t) \/ FinishBare(t) PROVE OpenInv'
  BY <1>3 DEF StartSprint, FinishBare, storeVars, connection, OpenInv, CommitAhead
<1>4. ASSUME NEW t \in Threads, Continue(t) PROVE OpenInv'
  BY <1>4, OpenRequest DEF Continue, Calls
<1>5. ASSUME NEW t \in Threads,
             Breaks(t) \/ Answer(t) \/ EndsUnscored(t) \/ Fail(t)
      PROVE  OpenInv'
  BY <1>5, OpenRequest DEF Breaks, Answer, EndsUnscored, Answered, Fail, Ends
<1>6. CASE Restart
  BY <1>6 DEF Restart, StoreRestart, OpenInv, CommitAhead
<1>7. CASE UNCHANGED vars
  BY <1>7 DEF vars, storeVars, connection, OpenInv, CommitAhead
<1> QED
  BY <1>1, <1>2, <1>3, <1>4, <1>5, <1>6, <1>7
  DEF Next, Step, Start, Message, Finish, Grade

(* Class Store (db/store.py): with any number of threads on the one         *)
(* connection, commits that come too early or too late, refused statements, *)
(* failed replies and restarts, nothing is left uncommitted when no request *)
(* is under way.                                                            *)
THEOREM NothingLeftBehind == Spec => []NothingLeftOpen
<1>1. OpenInv => NothingLeftOpen
  BY DEF OpenInv, CommitAhead, NothingLeftOpen, Quiet
<1> QED
  BY <1>1, OpenInit, OpenStep, PTL DEF Spec

-----------------------------------------------------------------------------
Grading(t) == job[t].kind = "grade"

GradeReplies == {r \in replied : r.kind = "grade"}

(* A sprint is open, or with one request, or answered once, or lost; and    *)
(* never two of them.                                                       *)
GradedApart ==
  /\ \A t \in Threads : Grading(t) => job[t].about \in sprints \ drills
  /\ \A r \in GradeReplies : r.about \in sprints \ drills
  /\ \A s, t \in Threads :
       Grading(s) /\ Grading(t) /\ job[s].about = job[t].about => s = t
  /\ \A t \in Threads, r \in GradeReplies : Grading(t) => job[t].about # r.about
  /\ \A r, q \in GradeReplies : r.about = q.about => r = q

GradeInv ==
  /\ DOMAIN job = Threads
  /\ issued \in Nat
  /\ drills \subseteq sprints /\ sprints \subseteq 1 .. issued
  /\ GradedApart

(* No sprint at the start.                                                  *)
LEMMA GradeInit == Init => GradeInv
  BY DEF Init, GradeInv, GradedApart, GradeReplies, Grading, NoJob

(* A request that is not about a sprint.                                    *)
LEMMA OtherRequest ==
  ASSUME GradeInv, NEW t \in Threads, NEW kind, NEW about, NEW db, NEW from,
         kind # "grade", Arrives(t), Serves(t, kind, about, db, from),
         UNCHANGED <<tables, sprints>>
  PROVE  GradeInv'
  BY DEF GradeInv, GradedApart, GradeReplies, Grading, Arrives, Serves, Calls,
         tables

(* drill_grade takes an open sprint, which no other request has.            *)
LEMMA GradeTakes ==
  ASSUME GradeInv, NEW t \in Threads, Grade(t)
  PROVE  GradeInv'
<1>1. PICK d \in sprints : TakeSprint(d) /\ Serves(t, "grade", d, 0, 1)
  BY DEF Grade
<1>2. /\ d \in drills /\ drills' = drills \ {d}
      /\ sprints' = sprints /\ replied' = replied
      /\ issued' = issued + 1
      /\ job' = [job EXCEPT ![t] = [req |-> issued + 1, kind |-> "grade",
                                    about |-> d, db |-> 0, from |-> 1,
                                    at |-> 1]]
  BY <1>1 DEF Grade, Arrives, Serves, Calls, TakeSprint
<1>3. /\ DOMAIN job' = Threads /\ issued' \in Nat
      /\ drills' \subseteq sprints' /\ sprints' \subseteq 1 .. issued'
  BY <1>2 DEF GradeInv
<1>4. GradedApart'
  BY <1>2 DEF GradeInv, GradedApart, GradeReplies, Grading
<1> QED
  BY <1>3, <1>4 DEF GradeInv

(* The end of a request: the thread has no job any more, and its answer, if *)
(* it is one, joins the others.                                             *)
LEMMA GradeEnds ==
  ASSUME GradeInv, NEW t \in Threads, Ends(t),
         replied' = replied \/ replied' = replied \cup {job[t]}
  PROVE  GradeInv'
<1>1. /\ drills' = drills /\ sprints' = sprints /\ issued' = issued
      /\ job' = [job EXCEPT ![t] = NoJob]
  BY DEF Ends
<1>2. GradedApart'
  BY <1>1 DEF GradeInv, GradedApart, GradeReplies, Grading, NoJob
<1> QED
  BY <1>1, <1>2 DEF GradeInv

(* No step gives a sprint to a second request.                              *)
LEMMA GradeStep == GradeInv /\ [Next]_vars => GradeInv'
<1> SUFFICES ASSUME GradeInv, [Next]_vars PROVE GradeInv'
  OBVIOUS
<1> USE DEF GradeInv, GradedApart, GradeReplies, Grading
<1>1. ASSUME NEW t \in Threads, StoreStep(t) /\ UNCHANGED <<job, tables, history>>
      PROVE  GradeInv'
  BY <1>1 DEF tables, history
<1>2. ASSUME NEW t \in Threads, Start(t) \/ Message(t) \/ Finish(t)
      PROVE  GradeInv'
  BY <1>2, OtherRequest DEF Start, Message, Finish
<1>3. ASSUME NEW t \in Threads, StartSprint(t) PROVE GradeInv'
  <2>1. /\ drills' = drills \cup {issued + 1}
        /\ sprints' = sprints \cup {issued + 1}
        /\ issued' = issued + 1 /\ job' = job /\ replied' = replied
    BY <1>3 DEF StartSprint, Arrives
  <2>2. issued + 1 \notin sprints
    OBVIOUS
  <2>3. sprints' \subseteq 1 .. issued'
    BY <2>1
  <2> QED
    BY <2>1, <2>2, <2>3
<1>4. ASSUME NEW t \in Threads, Grade(t) PROVE GradeInv'
  BY <1>4, GradeTakes
<1>5. ASSUME NEW t \in Threads, Continue(t) PROVE GradeInv'
  BY <1>5 DEF Continue, Calls, tables, history
<1>6. ASSUME NEW t \in Threads,
             Breaks(t) \/ Answer(t) \/ EndsUnscored(t) \/ Fail(t)
      PROVE  GradeInv'
  BY <1>6, GradeEnds DEF Breaks, Answer, EndsUnscored, Answered, Fail
<1>9. ASSUME NEW t \in Threads, FinishBare(t) PROVE GradeInv'
  <2>1. /\ issued' = issued + 1 /\ job' = job
        /\ drills' = drills /\ sprints' = sprints
        /\ \A r \in replied' : r.kind = "grade" => r \in replied
    BY <1>9 DEF FinishBare, Arrives
  <2> QED
    BY <2>1
<1>7. CASE Restart
  BY <1>7 DEF Restart, NoJob
<1>8. CASE UNCHANGED vars
  BY <1>8 DEF vars, tables, history
<1> QED
  BY <1>1, <1>2, <1>3, <1>4, <1>5, <1>6, <1>7, <1>8, <1>9 DEF Next, Step

(* A set without two elements.                                              *)
LEMMA AtMostOne ==
  ASSUME NEW S, \A x, y \in S : x = y
  PROVE  /\ S = {} => Cardinality(S) = 0
         /\ S # {} => Cardinality(S) = 1
<1>1. S = {} => Cardinality(S) = 0
  BY FS_EmptySet
<1>2. ASSUME S # {} PROVE Cardinality(S) = 1
  <2>1. PICK x \in S : TRUE BY <1>2
  <2>2. S = {x} BY <2>1
  <2> QED BY <2>2, FS_Singleton
<1> QED BY <1>1, <1>2

(* LiveEngine.drill_grade (main.py): with any number of requests under way, *)
(* a sprint is graded by one of them at most, and no more than once.        *)
THEOREM GradedByOne == Spec => []SprintGradedOnce
<1>1. GradeInv => SprintGradedOnce
  <2> SUFFICES ASSUME GradeInv, NEW d \in sprints
               PROVE  LET graders == {t \in Threads : Grading(t) /\ job[t].about = d}
                          answers == {r \in replied : r.kind = "grade" /\ r.about = d}
                      IN  Cardinality(graders) + Cardinality(answers)
                            + (IF d \in drills THEN 1 ELSE 0) <= 1
    BY DEF SprintGradedOnce, Grading
  <2> DEFINE graders == {t \in Threads : Grading(t) /\ job[t].about = d}
             answers == {r \in replied : r.kind = "grade" /\ r.about = d}
  <2>1. /\ \A s, t \in graders : s = t
        /\ \A r, q \in answers : r = q
        /\ graders = {} \/ answers = {}
        /\ d \in drills => graders = {} /\ answers = {}
    BY DEF GradeInv, GradedApart, GradeReplies
  <2>2. /\ graders = {} => Cardinality(graders) = 0
        /\ graders # {} => Cardinality(graders) = 1
        /\ answers = {} => Cardinality(answers) = 0
        /\ answers # {} => Cardinality(answers) = 1
    BY <2>1, AtMostOne
  <2> HIDE DEF graders, answers
  <2>3. Cardinality(graders) + Cardinality(answers)
          + (IF d \in drills THEN 1 ELSE 0) <= 1
    BY <2>1, <2>2
  <2> QED
    BY <2>3 DEF graders, answers
<1> QED
  BY <1>1, GradeInit, GradeStep, PTL DEF Spec

-----------------------------------------------------------------------------
(* The statements of each request, one by one.                              *)
LEMMA Programs ==
  /\ Program("start") = <<"sessions">>
  /\ Program("message") = <<"turns", "turns">>
  /\ Program("grade") = <<"drill_results">>
  /\ Len(Program("finish")) = NDims + 1
  /\ Program("finish")[1] = "turns"
  /\ \A i \in 2 .. NDims + 1 : Program("finish")[i] = "scorecards"
<1>1. /\ Scorecard \in Seq({"scorecards"}) /\ Len(Scorecard) = NDims
      /\ \A i \in 1 .. NDims : Scorecard[i] = "scorecards"
  BY EngineAssumption DEF Scorecard
<1> HIDE DEF Scorecard
<1>2. /\ Program("start") = <<"sessions">>
      /\ Program("message") = <<"turns", "turns">>
      /\ Program("grade") = <<"drill_results">>
      /\ Program("finish") = <<"turns">> \o Scorecard
  BY DEF Program
<1>3. /\ Len(<<"turns">> \o Scorecard) = NDims + 1
      /\ (<<"turns">> \o Scorecard)[1] = "turns"
      /\ \A i \in 2 .. NDims + 1 : (<<"turns">> \o Scorecard)[i] = "scorecards"
  BY <1>1, EngineAssumption
<1> QED
  BY <1>2, <1>3

(* No request is without a statement, and each is of a table.               *)
LEMMA ProgramType ==
  ASSUME NEW kind \in Kinds
  PROVE  /\ Len(Program(kind)) \in Nat \ {0}
         /\ \A i \in 1 .. Len(Program(kind)) : Program(kind)[i] \in Tables
BY SMTT(30), Programs, EngineAssumption DEF Kinds, Tables, Children

(* Which request writes a row of a table, and where.                        *)
LEMMA Writers ==
  ASSUME NEW kind \in Kinds, NEW i \in 1 .. Len(Program(kind))
  PROVE  /\ Program(kind)[i] = "scorecards" => kind = "finish" /\ i \in 2 .. NDims + 1
         /\ Program(kind)[i] = "turns" => kind \in {"message", "finish"}
<1> USE EngineAssumption
<1>1. CASE kind \in {"start", "message", "grade"}
  <2>1. /\ \A k \in 1 .. Len(Program("start")) : Program("start")[k] = "sessions"
        /\ \A k \in 1 .. Len(Program("message")) : Program("message")[k] = "turns"
        /\ \A k \in 1 .. Len(Program("grade")) : Program("grade")[k] = "drill_results"
    BY Programs
  <2> QED
    BY <1>1, <2>1
<1>2. CASE kind = "finish"
  <2>1. i = 1 \/ i \in 2 .. NDims + 1
    BY <1>2, Programs
  <2> QED
    BY <1>2, <2>1, Programs
<1> QED
  BY <1>1, <1>2 DEF Kinds

(* A statement of a job is a call of the store.                             *)
LEMMA StatementType ==
  ASSUME NEW j \in Job, j.at \in 1 .. Len(Program(j.kind))
  PROVE  Statement(j) \in Call
BY ProgramType DEF Statement, Call, Job

(* The conjunct of TypeOK about each thread.                                *)
JobsOK ==
  \A t \in Threads :
    /\ job[t].at \in job[t].from .. Len(Program(job[t].kind))
    /\ IF pc[t] = "idle" THEN job[t] = NoJob ELSE call[t] = Statement(job[t])

(* A thread without a statement.                                            *)
LEMMA NoCallType == NoCall \in Call
  BY DEF NoCall, Call, Tables

(* A thread without a job.                                                  *)
LEMMA NoJobType ==
  NoJob \in Job /\ NoJob.at \in NoJob.from .. Len(Program(NoJob.kind))
  BY Programs DEF NoJob, Job, Kinds

(* The types at the start.                                                  *)
LEMMA TypeInit == Init => TypeOK
<1> SUFFICES ASSUME Init PROVE TypeOK
  OBVIOUS
<1>1. StoreTypeOK
  BY NoCallType, FS_EmptySet DEF Init, StoreInit, StoreTypeOK, Places
<1>2. job \in [Threads -> Job] /\ JobsOK
  BY NoJobType DEF Init, StoreInit, JobsOK
<1>3. MaxStatements \in Nat
  BY EngineAssumption
<1> QED
  BY <1>1, <1>2, <1>3 DEF Init, TypeOK, JobsOK

(* A statement writes rows.                                                 *)
LEMMA WrittenType ==
  ASSUME rows \subseteq Row, IsFiniteSet(rows), NEW c \in Call
  PROVE  /\ Written(c) \subseteq Row /\ IsFiniteSet(Written(c))
         /\ NewId(c.table) \in Nat
<1>1. NewId(c.table) \in Nat
  <2>1. IsFiniteSet(In(c.table))
    BY FS_Subset DEF In
  <2> QED
    BY <2>1, FS_CardinalityType DEF NewId
<1>2. [table |-> c.table, id |-> NewId(c.table), key |-> c.key, by |-> c.by,
       at |-> c.at] \in Row
  BY <1>1 DEF Row, Call
<1> QED
  BY <1>1, <1>2, FS_AddElement DEF Written

(* The store keeps its types, and leaves the other threads where they are.  *)
LEMMA TypeStore ==
  ASSUME StoreTypeOK, NEW t \in Threads, StoreStep(t)
  PROVE  StoreTypeOK' /\ call' = call /\ pc[t] # "idle" /\ pc'[t] # "idle"
         /\ \A s \in Threads \ {t} : pc'[s] = pc[s]
<1> USE DEF StoreTypeOK, Goto, connection, Places
<1>1. CASE Execute(t) BY <1>1 DEF Execute
<1>2. CASE BeginWork(t) BY <1>2 DEF BeginWork
<1>3. CASE Bind(t) BY <1>3 DEF Bind
<1>4. CASE BindRefused(t) BY <1>4 DEF BindRefused
<1>5. CASE Insert(t)
  <2> DEFINE c == bound[call[t].table]
  <2>1. c \in Call
    <3>1. call[t].table \in Tables BY DEF Call
    <3> QED BY <3>1
  <2> HIDE DEF c
  <2>2. /\ rows' = Written(c) /\ Saved
        /\ lastRowid' = NewId(c.table)
        /\ Goto(t, "rowid") /\ UNCHANGED <<open, bound, call, got>>
        /\ pc[t] = "insert"
    BY <1>5 DEF Insert, c
  <2>3. Written(c) \subseteq Row /\ IsFiniteSet(Written(c)) /\ NewId(c.table) \in Nat
    BY <2>1, WrittenType
  <2> QED
    BY <2>2, <2>3 DEF Saved
<1>6. CASE InsertRefused(t) BY <1>6 DEF InsertRefused
<1>7. CASE ReadRowid(t) BY <1>7 DEF ReadRowid
<1>8. CASE TestCommit(t) BY <1>8 DEF TestCommit
<1>9. CASE Commit(t) BY <1>9 DEF Commit
<1> QED
  BY <1>1, <1>2, <1>3, <1>4, <1>5, <1>6, <1>7, <1>8, <1>9 DEF StoreStep

(* A thread turns to the next statement of a job.                           *)
LEMMA TypeCalls ==
  ASSUME TypeOK, NEW t \in Threads, NEW j \in Job,
         j.at \in j.from .. Len(Program(j.kind)), Calls(t, j), UNCHANGED <<connection, got>>
  PROVE  StoreTypeOK' /\ job' \in [Threads -> Job] /\ JobsOK'
<1>1. Statement(j) \in Call
  BY StatementType DEF Job
<1> QED
  BY <1>1 DEF TypeOK, StoreTypeOK, JobsOK, Calls, Goto, Places, connection

(* A thread takes a request.                                                *)
LEMMA TypeServes ==
  ASSUME TypeOK, NEW t \in Threads, NEW kind \in Kinds, NEW about \in Nat,
         NEW db \in Nat, NEW from \in {1, 2}, from = 1 \/ kind = "finish",
         Arrives(t), Serves(t, kind, about, db, from),
         sessions' = sessions, finished' = finished, drills' \subseteq drills,
         sprints' = sprints
  PROVE  TypeOK'
<1> DEFINE j == [req |-> issued + 1, kind |-> kind, about |-> about, db |-> db,
                 from |-> from, at |-> from]
<1>1. j \in Job /\ j.at \in j.from .. Len(Program(j.kind))
  <2>1. from <= Len(Program(kind)) /\ Len(Program(kind)) \in Nat
    BY ProgramType, Programs, EngineAssumption
  <2> QED
    BY <2>1 DEF Job, TypeOK
<1>2. Calls(t, j) /\ UNCHANGED <<connection, got, crashes, replied, failed>>
  BY DEF Serves
<1>3. StoreTypeOK' /\ job' \in [Threads -> Job] /\ JobsOK'
  BY <1>1, <1>2, TypeCalls
<1>4. issued' \in Nat /\ waited' \in BOOLEAN
  BY DEF Arrives, TypeOK
<1>5. budget' \in Nat
  BY ProgramType DEF Serves, TypeOK
<1> QED
  BY <1>2, <1>3, <1>4, <1>5 DEF TypeOK, JobsOK

(* A thread leaves a request.                                               *)
LEMMA TypeEnds ==
  ASSUME TypeOK, NEW t \in Threads, Ends(t),
         sessions' \subseteq [sid : Nat, db : Nat], finished' \subseteq Nat,
         replied' \subseteq Job, failed' \subseteq Nat
  PROVE  TypeOK'
<1>1. StoreTypeOK'
  BY NoCallType DEF TypeOK, StoreTypeOK, Ends, Goto, connection, Places
<1>2. job' \in [Threads -> Job] /\ JobsOK'
  BY NoJobType DEF TypeOK, StoreTypeOK, JobsOK, Ends, Goto
<1> QED
  BY <1>1, <1>2 DEF TypeOK, JobsOK, Ends

(* Every step keeps the types.                                              *)
LEMMA TypeStep == TypeOK /\ [Next]_vars => TypeOK'
<1> SUFFICES ASSUME TypeOK, [Next]_vars PROVE TypeOK'
  OBVIOUS
<1>1. ASSUME NEW t \in Threads, StoreStep(t), UNCHANGED <<job, tables, history>>
      PROVE  TypeOK'
  BY <1>1, TypeStore DEF TypeOK, tables, history
<1>2. ASSUME NEW t \in Threads,
             Start(t) \/ Message(t) \/ Finish(t) \/ FinishBare(t)
      PROVE  TypeOK'
  <2>1. CASE Start(t)
    BY <2>1, TypeServes DEF Start, tables, Kinds
  <2>2. CASE Message(t)
    BY <2>2, TypeServes DEF Message, tables, Kinds, TypeOK
  <2>3. CASE Finish(t)
    BY <2>3, TypeServes DEF Finish, tables, Kinds, TypeOK
  <2>4. CASE FinishBare(t)
    <3>1. PICK s \in sessions :
            /\ finished' = finished \cup {s.sid}
            /\ replied' = replied \cup {[req |-> issued + 1, kind |-> "finish",
                                       about |-> s.sid, db |-> s.db,
                                       from |-> 1, at |-> 0]}
      BY <2>4 DEF FinishBare
    <3>2. finished' \subseteq Nat /\ replied' \subseteq Job
      <4>1. s.sid \in Nat /\ s.db \in Nat /\ issued + 1 \in Nat
        BY DEF TypeOK
      <4>2. [req |-> issued + 1, kind |-> "finish", about |-> s.sid, db |-> s.db,
             from |-> 1, at |-> 0] \in Job
        BY <4>1 DEF Job, Kinds
      <4> QED
        BY <3>1, <4>1, <4>2 DEF TypeOK
    <3>3. UNCHANGED <<storeVars, job, sessions, drills, budget, crashes, sprints,
                      failed>>
          /\ issued' = issued + 1 /\ waited' \in BOOLEAN
      BY <2>4 DEF FinishBare, Arrives, TypeOK
    <3> QED
      BY <3>2, <3>3 DEF TypeOK, StoreTypeOK, storeVars, connection
  <2> QED
    BY <1>2, <2>1, <2>2, <2>3, <2>4
<1>3. ASSUME NEW t \in Threads, StartSprint(t) PROVE TypeOK'
  BY <1>3 DEF StartSprint, Arrives, TypeOK, StoreTypeOK, storeVars, connection
<1>4. ASSUME NEW t \in Threads, Grade(t) PROVE TypeOK'
  <2>1. PICK d \in sprints : TakeSprint(d) /\ Serves(t, "grade", d, 0, 1)
    BY <1>4 DEF Grade
  <2> QED
    BY <1>4, <2>1, TypeServes DEF Grade, TakeSprint, Kinds, TypeOK
<1>5. ASSUME NEW t \in Threads, Continue(t) PROVE TypeOK'
  <2> DEFINE j == [job[t] EXCEPT !.at = @ + 1]
  <2>1. job[t] \in Job /\ job[t].at \in job[t].from .. Len(Program(job[t].kind))
    BY DEF TypeOK
  <2>2. /\ j \in Job /\ j.kind = job[t].kind /\ j.from = job[t].from
        /\ j.at = job[t].at + 1
    BY <2>1 DEF Job
  <2>3. j.at \in j.from .. Len(Program(j.kind))
    <3>1. Len(Program(job[t].kind)) \in Nat
      BY <2>1, ProgramType DEF Job
    <3> QED
      BY <1>5, <2>1, <2>2, <3>1 DEF Continue, Last, Job
  <2>4. Calls(t, j) /\ UNCHANGED <<connection, got, tables, history>>
    BY <1>5 DEF Continue
  <2>5. StoreTypeOK' /\ job' \in [Threads -> Job] /\ JobsOK'
    BY <2>2, <2>3, <2>4, TypeCalls
  <2> QED
    BY <2>4, <2>5 DEF TypeOK, JobsOK, tables, history
<1>6. ASSUME NEW t \in Threads,
             Breaks(t) \/ Answer(t) \/ EndsUnscored(t) \/ Fail(t)
      PROVE  TypeOK'
  <2>1. job[t] \in Job /\ got[t] \in Nat
    BY DEF TypeOK, StoreTypeOK
  <2>2. job[t].req \in Nat /\ job[t].kind \in Kinds /\ job[t].about \in Nat
    BY <2>1 DEF Job
  <2>3. CASE Breaks(t)
    BY <2>3, TypeEnds DEF Breaks, TypeOK
  <2>4. ASSUME Answered(t) PROVE TypeOK'
    <3>1. sessions' \subseteq [sid : Nat, db : Nat]
      BY <2>1, <2>2, <2>4 DEF Answered, TypeOK
    <3>2. finished' \subseteq Nat /\ replied' \subseteq Job
      BY <2>1, <2>2, <2>4 DEF Answered, TypeOK
    <3> QED
      BY <2>4, <3>1, <3>2, TypeEnds DEF Answered, TypeOK
  <2>5. CASE Fail(t)
    BY <2>2, <2>5, TypeEnds DEF Fail, TypeOK
  <2> QED
    BY <1>6, <2>3, <2>4, <2>5 DEF Answer, EndsUnscored
<1>7. CASE Restart
  <2>1. StoreTypeOK'
    BY <1>7, NoCallType DEF Restart, StoreRestart, TypeOK, StoreTypeOK, Places
  <2>2. job' \in [Threads -> Job] /\ JobsOK'
    BY <1>7, NoJobType DEF Restart, StoreRestart, JobsOK
  <2> QED
    BY <1>7, <2>1, <2>2 DEF Restart, StoreRestart, TypeOK, JobsOK
<1>8. CASE UNCHANGED vars
  BY <1>8 DEF vars, storeVars, connection, tables, history, TypeOK, StoreTypeOK
<1> QED
  BY <1>1, <1>2, <1>3, <1>4, <1>5, <1>6, <1>7, <1>8 DEF Next, Step

(* Engine's types.                                                          *)
THEOREM TypeCorrect == Spec => []TypeOK
  BY TypeInit, TypeStep, PTL DEF Spec

-----------------------------------------------------------------------------
(* The sequential server.  While requests wait for each other at most one   *)
(* thread has a job; all that the others know is in durable, and the one    *)
(* adds a row at a time.  The parts of the invariant are operators of the   *)
(* committed rows D, the open sessions S, the answers R, the number n of    *)
(* requests sent, and the job j whose statements up to d are committed, so  *)
(* that what a step leaves alone needs no argument.                         *)
OfTable(D, table) == {x \in D : x.table = table}

(* The row of a session, and the request that made it.                      *)
MadeBy(D, id, req) ==
  \E x \in D : x.table = "sessions" /\ x.id = id /\ x.by = req

(* Statement i of a job, and the row it asks for.                           *)
Asked(j, i) == Statement([j EXCEPT !.at = i])

Answers(x, j, i) ==
  /\ x.by = j.req /\ x.at = i
  /\ x.table = Asked(j, i).table /\ x.key = Asked(j, i).key

Stored(D, j, d) == \A i \in j.from .. d : \E x \in D : Answers(x, j, i)

Follows(x, y) ==
  y.table = "scorecards" /\ y.key = x.key /\ y.by = x.by /\ y.at = x.at - 1

(* Ids are given once, a statement leaves a row at most, and a row of a     *)
(* card has the one before it.                                              *)
LedgerInv(D, n) ==
  /\ \A x \in D : x.table = "sessions" =>
       x.id \in 1 .. Cardinality(OfTable(D, "sessions"))
  /\ \A x, y \in D : x.table = "sessions" /\ y.table = "sessions" /\ x.id = y.id => x = y
  /\ \A x, y \in D : x.by = y.by /\ x.at = y.at => x = y
  /\ \A x \in D : x.by <= n
  /\ \A x \in D : x.table = "scorecards" /\ x.at > 2 => \E y \in D : Follows(x, y)

(* What the open sessions and the answers rely on.                          *)
HistoryInv(D, S, R) ==
  /\ \A s \in S : MadeBy(D, s.db, s.sid)
  /\ \A r \in R : Stored(D, r, r.at)

(* The request under way is the last one sent.                              *)
JobInv(D, n, j, d) ==
  /\ j.req = n
  /\ \A x \in D : x.by = n => x.at \in 1 .. d
  /\ Stored(D, j, d)
  /\ j.kind \in {"message", "finish"} => \E req : MadeBy(D, j.db, req)

(* The rows D after statement c.                                            *)
RowOf(D, c) ==
  [table |-> c.table, id |-> Cardinality(OfTable(D, c.table)) + 1,
   key |-> c.key, by |-> c.by, at |-> c.at]

After(D, c) == D \cup {RowOf(D, c)}

(* What the store writes.                                                   *)
LEMMA WrittenIsAfter ==
  ASSUME NEW c PROVE Written(c) = After(rows, c)
BY DEF Written, After, RowOf, NewId, In, OfTable

(* A job's own statement is the one it asks for.                            *)
LEMMA AskedNow ==
  ASSUME NEW j \in Job, j.at \in j.from .. Len(Program(j.kind))
  PROVE  /\ Asked(j, j.at) = Statement(j)
         /\ \A i : Asked(j, i).table = Program(j.kind)[i]
         /\ \A i : Program(j.kind)[i] \in Children => Asked(j, i).key = j.db
         /\ Statement(j).by = j.req /\ Statement(j).at = j.at
<1>1. [j EXCEPT !.at = j.at] = j
  BY DEF Job
<1>2. Asked(j, j.at) = Statement(j)
  BY <1>1 DEF Asked
<1>3. ASSUME NEW i
      PROVE  /\ [j EXCEPT !.at = i].kind = j.kind
             /\ [j EXCEPT !.at = i].at = i
             /\ [j EXCEPT !.at = i].db = j.db
  BY DEF Job
<1> QED
  BY <1>2, <1>3 DEF Asked, Statement, Children

(* The same request, further on, asks for the same rows.                    *)
LEMMA AskedSame ==
  ASSUME NEW j \in Job, NEW a \in Nat, NEW i
  PROVE  Asked([j EXCEPT !.at = a], i) = Asked(j, i)
<1>1. [[j EXCEPT !.at = a] EXCEPT !.at = i] = [j EXCEPT !.at = i]
  BY DEF Job
<1> QED
  BY <1>1 DEF Asked

(* A commit in the sequential server: one more row of the job.              *)
LEMMA OneRowMore ==
  ASSUME TypeOK, NEW j \in Job, j.at \in j.from .. Len(Program(j.kind)),
         LedgerInv(durable, issued), HistoryInv(durable, sessions, replied),
         JobInv(durable, issued, j, j.at - 1),
         NEW E, E = After(durable, Statement(j))
  PROVE  /\ LedgerInv(E, issued) /\ HistoryInv(E, sessions, replied)
         /\ JobInv(E, issued, j, j.at)
         /\ Statement(j).table = "sessions" =>
              MadeBy(E, Cardinality(OfTable(durable, "sessions")) + 1, issued)
<1> DEFINE c == Statement(j)
           new == RowOf(durable, c)
           count == Cardinality(OfTable(durable, "sessions"))
<1> USE EngineAssumption
<1>0. /\ durable \subseteq Row /\ IsFiniteSet(durable) /\ issued \in Nat
      /\ j.at \in Nat /\ j.from \in {1, 2} /\ j.kind \in Kinds
      /\ Len(Program(j.kind)) \in Nat /\ j.at \in 1 .. Len(Program(j.kind))
  BY ProgramType DEF TypeOK, StoreTypeOK, Job
(* The new row.                                                             *)
<1>1. /\ c = Asked(j, j.at) /\ c.by = issued /\ c.at = j.at
      /\ c.table = Program(j.kind)[j.at] /\ c.table \in Tables
      /\ c.table = "scorecards" => c.key = j.db
  BY <1>0, AskedNow, ProgramType DEF JobInv, Children
<1>2. /\ new.table = c.table /\ new.by = issued /\ new.at = j.at /\ new.key = c.key
      /\ new.id = Cardinality(OfTable(durable, c.table)) + 1
  BY <1>1 DEF RowOf
<1>3. \A x \in durable : ~(x.by = issued /\ x.at = j.at)
  BY <1>0 DEF JobInv
<1>4. E = durable \cup {new}
  BY DEF After
<1> HIDE DEF c, new
<1>5. count \in Nat
  BY <1>0, FS_Subset, FS_CardinalityType DEF OfTable
<1> HIDE DEF count
<1>6. \A id, req : MadeBy(durable, id, req) => MadeBy(E, id, req)
  BY <1>4 DEF MadeBy
<1>7. \A r, e : Stored(durable, r, e) => Stored(E, r, e)
  BY <1>4 DEF Stored
(* The parts.                                                               *)
<1>8. LedgerInv(E, issued)
  <2>1. /\ \A x \in E : x.table = "sessions" =>
             x.id \in 1 .. Cardinality(OfTable(E, "sessions"))
        /\ \A x, y \in E : x.table = "sessions" /\ y.table = "sessions" /\ x.id = y.id
             => x = y
    <3>1. CASE c.table # "sessions"
      <4>1. OfTable(E, "sessions") = OfTable(durable, "sessions")
        BY <1>2, <1>4, <3>1 DEF OfTable
      <4> QED
        BY <1>2, <1>4, <3>1, <4>1 DEF LedgerInv
    <3>2. CASE c.table = "sessions"
      <4>1. OfTable(E, "sessions") = OfTable(durable, "sessions") \cup {new}
        BY <1>2, <1>4, <3>2 DEF OfTable
      <4>2. new \notin OfTable(durable, "sessions")
        BY <1>2, <1>3 DEF OfTable
      <4>3. IsFiniteSet(OfTable(durable, "sessions"))
        BY <1>0, FS_Subset DEF OfTable
      <4>4. Cardinality(OfTable(E, "sessions")) = count + 1
        BY <4>1, <4>2, <4>3, FS_AddElement DEF count
      <4>5. new.id = count + 1
        BY <1>2, <3>2 DEF count
      <4>6. /\ \A x \in durable : x.table = "sessions" => x.id \in 1 .. count
            /\ \A x, y \in durable : x.table = "sessions" /\ y.table = "sessions"
                                /\ x.id = y.id => x = y
        BY DEF LedgerInv, count
      <4> QED
        BY <1>4, <1>5, <4>4, <4>5, <4>6
    <3> QED
      BY <3>1, <3>2
  <2>2. \A x, y \in E : x.by = y.by /\ x.at = y.at => x = y
    BY <1>2, <1>3, <1>4 DEF LedgerInv
  <2>3. \A x \in E : x.by <= issued
    BY <1>0, <1>2, <1>4 DEF LedgerInv
  <2>4. ASSUME new.table = "scorecards", new.at > 2
        PROVE  \E y \in durable : Follows(new, y)
    <3>1. j.kind = "finish" /\ j.at \in 3 .. NDims + 1
      <4>1. Program(j.kind)[j.at] = "scorecards" /\ j.at > 2
        BY <1>1, <1>2, <2>4
      <4>2. j.kind = "finish" /\ j.at \in 2 .. NDims + 1
        BY <1>0, <4>1, Writers
      <4> QED
        BY <1>0, <4>1, <4>2
    <3>2. j.at - 1 \in j.from .. j.at - 1 /\ j.at - 1 \in 2 .. NDims + 1
      BY <1>0, <3>1
    <3>3. PICK y \in durable : Answers(y, j, j.at - 1)
      BY <3>2 DEF JobInv, Stored
    <3>4. Asked(j, j.at - 1).table = "scorecards" /\ Asked(j, j.at - 1).key = j.db
      BY <3>1, <3>2, AskedNow, Programs DEF Children
    <3>5. j.req = issued
      BY DEF JobInv
    <3> QED
      BY <1>1, <1>2, <2>4, <3>3, <3>4, <3>5 DEF Answers, Follows
  <2>5. \A x \in E : x.table = "scorecards" /\ x.at > 2 => \E y \in E : Follows(x, y)
    BY <1>4, <2>4 DEF LedgerInv
  <2> QED
    BY <2>1, <2>2, <2>3, <2>5 DEF LedgerInv
<1>9. HistoryInv(E, sessions, replied)
  BY <1>6, <1>7 DEF HistoryInv
<1>10. JobInv(E, issued, j, j.at)
  <2>1. \A x \in E : x.by = issued => x.at \in 1 .. j.at
    BY <1>0, <1>2, <1>4 DEF JobInv
  <2>2. Stored(E, j, j.at)
    <3>1. Stored(E, j, j.at - 1)
      BY <1>7 DEF JobInv
    <3>2. \A i \in j.from .. j.at : i \in j.from .. j.at - 1 \/ i = j.at
      BY <1>0
    <3>3. Answers(new, j, j.at) /\ new \in E
      BY <1>1, <1>2, <1>4 DEF Answers, JobInv
    <3> QED
      BY <3>1, <3>2, <3>3 DEF Stored
  <2> QED
    BY <1>6, <2>1, <2>2 DEF JobInv
<1>11. c.table = "sessions" => MadeBy(E, count + 1, issued)
  BY <1>2, <1>4 DEF MadeBy, count
<1> QED
  BY <1>8, <1>9, <1>10, <1>11 DEF c, count

(* A request arrives while no other is under way.                           *)
LEMMA JobBegins ==
  ASSUME NEW D, D \subseteq Row, NEW n \in Nat, LedgerInv(D, n),
         NEW j \in Job, j.req = n + 1, j.at = j.from,
         j.kind \in {"message", "finish"} => \E req : MadeBy(D, j.db, req)
  PROVE  LedgerInv(D, n + 1) /\ JobInv(D, n + 1, j, j.at - 1)
<1>1. \A x \in D : x.by <= n /\ x.by \in Nat
  BY DEF LedgerInv, Row
<1>2. LedgerInv(D, n + 1)
  BY <1>1 DEF LedgerInv
<1>3. Stored(D, j, j.at - 1)
  BY DEF Stored, Job
<1> QED
  BY <1>1, <1>2, <1>3 DEF JobInv

(* A job goes on to its next statement.                                     *)
LEMMA JobGoesOn ==
  ASSUME NEW D, NEW n \in Nat, NEW j \in Job, JobInv(D, n, j, j.at),
         NEW k, k = [j EXCEPT !.at = @ + 1]
  PROVE  JobInv(D, n, k, k.at - 1)
<1>1. /\ k.at - 1 = j.at /\ k.req = j.req /\ k.kind = j.kind /\ k.db = j.db
      /\ k.from = j.from /\ j.at + 1 \in Nat
  BY DEF Job
<1>2. \A i : Asked(k, i) = Asked(j, i)
  BY <1>1, AskedSame
<1>3. Stored(D, k, k.at - 1)
  BY <1>1, <1>2 DEF JobInv, Stored, Answers
<1> QED
  BY <1>1, <1>3 DEF JobInv

-----------------------------------------------------------------------------
Active(t) == pc[t] # "idle"

(* The statements of its job that a thread has committed.                   *)
Done(t) == IF pc[t] = "returned" THEN job[t].at ELSE job[t].at - 1

Writing == {"rowid", "commit", "committing"}

Holding == Writing \cup {"bind", "insert"}

(* Where the one thread is, in the connection: the transaction is its own,  *)
(* so are the values that are bound, and what is not committed yet is the   *)
(* row of its statement.                                                    *)
PlaceInv(t) ==
  LET id == Cardinality(OfTable(durable, "sessions")) + 1
  IN  /\ pc[t] # "raised"
      /\ open <=> pc[t] \in Holding
      /\ pc[t] = "insert" => bound[call[t].table] = call[t]
      /\ rows = IF pc[t] \in Writing THEN After(durable, call[t]) ELSE durable
      /\ call[t].table = "sessions" =>
           /\ pc[t] = "rowid" => lastRowid = id
           /\ pc[t] \in {"commit", "committing"} => got[t] = id
           /\ pc[t] = "returned" => MadeBy(durable, got[t], issued)

AtRest == (\A t \in Threads : ~Active(t)) => rows = durable /\ ~open

TablesInv ==
  /\ LedgerInv(durable, issued)
  /\ HistoryInv(durable, sessions, replied)

RunsInv(t) ==
  /\ JobInv(durable, issued, job[t], Done(t))
  /\ PlaceInv(t)

SeqInv ==
  /\ \A s, t \in Threads : Active(s) /\ Active(t) => s = t
  /\ failed = {}
  /\ TablesInv
  /\ \A t \in Threads : Active(t) => RunsInv(t)
  /\ AtRest

(* The server starts with nothing under way.                                *)
LEMMA SeqStart == Init => SeqInv
<1> SUFFICES ASSUME Init PROVE SeqInv
  OBVIOUS
<1>1. LedgerInv({}, 0) /\ HistoryInv({}, {}, {})
  BY DEF LedgerInv, HistoryInv
<1> QED
  BY <1>1 DEF Init, StoreInit, SeqInv, TablesInv, AtRest, Active

(* What is said of the other threads: nothing, they are idle.               *)
LEMMA OneThread ==
  ASSUME SeqInv, NEW t \in Threads, Active(t)
  PROVE  \A s \in Threads \ {t} : ~Active(s)
  BY DEF SeqInv

(* The invariant, when one thread has a job.                                *)
LEMMA OnlyThread ==
  ASSUME NEW t \in Threads, Active(t)', \A s \in Threads \ {t} : ~Active(s)',
         failed' = {}, TablesInv', RunsInv(t)'
  PROVE  SeqInv'
  BY DEF SeqInv, AtRest

(* A step of the store that commits nothing and returns nothing.            *)
LEMMA SeqLocal ==
  ASSUME SeqInv, NEW t \in Threads, Active(t), Active(t)',
         \A s \in Threads \ {t} : ~Active(s)',
         pc[t] # "returned", pc'[t] # "returned", durable' = durable,
         UNCHANGED <<job, tables, history>>, PlaceInv(t)'
  PROVE  SeqInv'
<1>1. /\ durable' = durable /\ issued' = issued /\ sessions' = sessions
      /\ replied' = replied /\ failed' = failed /\ job' = job
  BY DEF tables, history
<1>2. TablesInv'
  BY <1>1 DEF SeqInv, TablesInv
<1>3. Done(t)' = Done(t)
  BY <1>1 DEF Done
<1>4. JobInv(durable, issued, job[t], Done(t))'
  BY <1>1, <1>3 DEF SeqInv, RunsInv
<1> QED
  BY <1>1, <1>2, <1>4, OnlyThread DEF SeqInv, RunsInv

(* The one thread's statement is of its own session, which has its row.     *)
LEMMA StatementServed ==
  ASSUME TypeOK, SeqInv, NEW t \in Threads, Active(t), pc[t] # "returned",
         rows = durable
  PROVE  call[t].table \in Children => HasSession(call[t].key)
<1>1. /\ call[t] = Statement(job[t]) /\ job[t] \in Job
      /\ job[t].at \in job[t].from .. Len(Program(job[t].kind))
      /\ job[t].at \in 1 .. Len(Program(job[t].kind)) /\ job[t].kind \in Kinds
  BY ProgramType DEF TypeOK, StoreTypeOK, Active, Job
<1>2. call[t].table = Program(job[t].kind)[job[t].at]
  BY <1>1 DEF Statement
<1>3. JobInv(durable, issued, job[t], job[t].at - 1)
  BY DEF SeqInv, RunsInv, Done
<1>4. ASSUME call[t].table \in Children
      PROVE  call[t].key = job[t].db /\ \E req : MadeBy(durable, job[t].db, req)
  <2>1. call[t].key = job[t].db
    BY <1>1, <1>4 DEF Statement, Children
  <2>2. job[t].kind \in {"message", "finish"}
    BY <1>1, <1>2, <1>4, Writers DEF Children
  <2> QED
    BY <1>3, <2>1, <2>2 DEF JobInv
<1> QED
  BY <1>4 DEF MadeBy, HasSession, In

(* The steps of the store: a commit adds the row of the statement.          *)
LEMMA SeqStore ==
  ASSUME TypeOK, TypeOK', SeqInv, NEW t \in Threads, StoreStep(t),
         UNCHANGED <<job, tables, history>>
  PROVE  SeqInv'
<1>1. /\ Active(t) /\ PlaceInv(t) /\ call' = call
      /\ Active(t)' /\ \A s \in Threads \ {t} : ~Active(s) /\ ~Active(s)'
  BY TypeStore, OneThread DEF Active, SeqInv, RunsInv, TypeOK
<1>2. DOMAIN pc = Threads /\ DOMAIN got = Threads /\ open \in BOOLEAN
  BY DEF TypeOK, StoreTypeOK
<1>3. issued' = issued /\ sessions' = sessions
      /\ replied' = replied /\ failed' = failed /\ job' = job
  BY DEF tables, history
<1> USE DEF Goto, Writing, Holding, connection
<1>4. CASE Execute(t)
  <2>1. pc[t] = "execute" /\ ~open /\ Goto(t, "begin")
        /\ UNCHANGED <<rows, durable, open, bound, lastRowid, got>>
    BY <1>1, <1>4 DEF Execute, PlaceInv
  <2>2. PlaceInv(t)'
    BY <1>1, <1>2, <1>3, <2>1 DEF PlaceInv
  <2> QED
    BY <1>1, <2>1, <2>2, <1>2, SeqLocal
<1>5. CASE BeginWork(t)
  <2>1. pc[t] = "begin" /\ ~open /\ Goto(t, "bind") /\ open' = TRUE
        /\ UNCHANGED <<rows, durable, bound, lastRowid, got>>
    BY <1>1, <1>5 DEF BeginWork, PlaceInv
  <2>2. PlaceInv(t)'
    BY <1>1, <1>2, <1>3, <2>1 DEF PlaceInv
  <2> QED
    BY <1>1, <2>1, <2>2, <1>2, SeqLocal
<1>6. CASE Bind(t)
  <2>1. /\ pc[t] = "bind" /\ Goto(t, "insert")
        /\ bound' = [bound EXCEPT ![call[t].table] = call[t]]
        /\ UNCHANGED <<rows, durable, open, lastRowid, got>>
    BY <1>6 DEF Bind
  <2>2. call[t].table \in Tables /\ DOMAIN bound = Tables
    BY DEF TypeOK, StoreTypeOK, Call
  <2>3. PlaceInv(t)'
    BY <1>1, <1>2, <1>3, <2>1, <2>2 DEF PlaceInv
  <2> QED
    BY <1>1, <2>1, <2>3, <1>2, SeqLocal
<1>7. CASE BindRefused(t)
  BY <1>1, <1>7 DEF BindRefused, Active
<1>8. CASE Insert(t)
  <2>1. pc[t] = "insert" /\ open /\ rows = durable /\ bound[call[t].table] = call[t]
    BY <1>1, <1>8 DEF Insert, PlaceInv
  <2>3. rows' = After(durable, call[t])
    BY <1>8, <2>1, WrittenIsAfter DEF Insert
  <2>4. durable' = durable /\ open' = open /\ Goto(t, "rowid")
    BY <1>8, <2>1 DEF Insert, Saved
  <2>5. call[t].table = "sessions" =>
          lastRowid' = Cardinality(OfTable(durable, "sessions")) + 1
    BY <1>8, <2>1 DEF Insert, NewId, In, OfTable
  <2>6. PlaceInv(t)'
    BY <1>1, <1>2, <1>3, <2>1, <2>3, <2>4, <2>5 DEF PlaceInv
  <2> QED
    BY <1>1, <2>1, <2>4, <2>6, <1>2, SeqLocal
<1>9. CASE InsertRefused(t)
  <2>1. pc[t] = "insert" /\ rows = durable /\ bound[call[t].table] = call[t]
    BY <1>1, <1>9 DEF InsertRefused, PlaceInv
  <2>2. call[t].table \in Children => HasSession(call[t].key)
    BY <1>1, <2>1, StatementServed
  <2> QED
    BY <1>9, <2>1, <2>2 DEF InsertRefused, Orphan
<1>10. CASE ReadRowid(t)
  <2>1. pc[t] = "rowid" /\ Goto(t, "commit")
        /\ UNCHANGED <<rows, durable, open, bound, lastRowid>>
        /\ got' = [got EXCEPT ![t] = lastRowid]
    BY <1>10 DEF ReadRowid
  <2>2. PlaceInv(t)'
    BY <1>1, <1>2, <1>3, <2>1 DEF PlaceInv
  <2> QED
    BY <1>1, <2>1, <2>2, <1>2, SeqLocal
<1>11. CASE TestCommit(t)
  <2>1. pc[t] = "commit" /\ open /\ Goto(t, "committing")
        /\ UNCHANGED <<rows, durable, open, bound, lastRowid, got>>
    BY <1>1, <1>11 DEF TestCommit, PlaceInv
  <2>2. PlaceInv(t)'
    BY <1>1, <1>2, <1>3, <2>1 DEF PlaceInv
  <2> QED
    BY <1>1, <2>1, <2>2, <1>2, SeqLocal
<1>12. CASE Commit(t)
  <2>1. /\ pc[t] = "committing" /\ open /\ Goto(t, "returned")
        /\ open' = FALSE /\ durable' = rows /\ rows' = rows /\ got' = got
        /\ rows = After(durable, call[t])
    BY <1>1, <1>12 DEF Commit, PlaceInv
  <2>2. /\ call[t] = Statement(job[t]) /\ job[t] \in Job
        /\ job[t].at \in job[t].from .. Len(Program(job[t].kind))
    BY <1>1 DEF TypeOK, StoreTypeOK, Active
  <2>3. JobInv(durable, issued, job[t], job[t].at - 1)
    BY <1>1, <2>1 DEF SeqInv, RunsInv, Done
  <2>4. /\ LedgerInv(durable', issued) /\ HistoryInv(durable', sessions, replied)
        /\ JobInv(durable', issued, job[t], job[t].at)
        /\ call[t].table = "sessions" =>
             MadeBy(durable', Cardinality(OfTable(durable, "sessions")) + 1, issued)
    <3>1. durable' = After(durable, Statement(job[t]))
      BY <2>1, <2>2
    <3> QED
      BY <2>2, <2>3, <3>1, OneRowMore DEF SeqInv, TablesInv
  <2>5. pc'[t] = "returned" /\ \A s \in Threads \ {t} : ~Active(s)'
    BY <1>1, <1>2, <2>1
  <2>6. TablesInv'
    BY <1>3, <2>4 DEF TablesInv
  <2>7. PlaceInv(t)'
    BY <1>1, <1>3, <2>1, <2>4, <2>5 DEF PlaceInv
  <2>8. RunsInv(t)'
    BY <1>3, <2>4, <2>5, <2>7 DEF RunsInv, Done
  <2> QED
    BY <1>3, <2>5, <2>6, <2>8, OnlyThread DEF SeqInv, Active
<1> QED
  BY <1>4, <1>5, <1>6, <1>7, <1>8, <1>9, <1>10, <1>11, <1>12 DEF StoreStep

(* A request is sent: when it waits for the others, all threads are idle.   *)
LEMMA SeqServes ==
  ASSUME TypeOK, SeqInv, NEW t \in Threads, NEW kind \in Kinds, NEW about \in Nat,
         NEW db \in Nat, NEW from \in {1, 2}, Arrives(t), waited',
         Serves(t, kind, about, db, from), sessions' = sessions,
         kind \in {"message", "finish"} => \E req : MadeBy(durable, db, req)
  PROVE  SeqInv'
<1> DEFINE j == [req |-> issued + 1, kind |-> kind, about |-> about, db |-> db,
                 from |-> from, at |-> from]
<1>1. /\ \A s \in Threads : ~Active(s)
      /\ issued' = issued + 1 /\ issued \in Nat
  BY DEF Arrives, Active, TypeOK
<1>2. /\ job' = [job EXCEPT ![t] = j] /\ pc' = [pc EXCEPT ![t] = "execute"]
      /\ call' = [call EXCEPT ![t] = Statement(j)]
      /\ UNCHANGED <<rows, durable, open, lastRowid, bound, got>>
      /\ replied' = replied /\ failed' = failed
  BY DEF Serves, Calls, Goto, connection
<1>3. DOMAIN job = Threads /\ DOMAIN pc = Threads
  BY DEF TypeOK, StoreTypeOK
<1>4. /\ job'[t] = j /\ pc'[t] = "execute"
      /\ Active(t)' /\ \A s \in Threads \ {t} : ~Active(s)'
  BY <1>1, <1>2, <1>3 DEF Active
<1>5. /\ j \in Job /\ j.req = issued + 1 /\ j.at = j.from /\ j.kind = kind /\ j.db = db
  BY <1>1 DEF Job
<1> HIDE DEF j
<1>6. LedgerInv(durable, issued + 1) /\ JobInv(durable, issued + 1, j, j.at - 1)
  <2>1. durable \subseteq Row
    BY DEF TypeOK, StoreTypeOK
  <2> QED
    BY <1>1, <1>5, <2>1, JobBegins DEF SeqInv, TablesInv
<1>7. TablesInv'
  BY <1>1, <1>2, <1>6 DEF SeqInv, TablesInv
<1>8. PlaceInv(t)'
  <2>1. rows = durable /\ ~open
    BY <1>1 DEF SeqInv, AtRest
  <2> QED
    BY <1>2, <1>4, <2>1 DEF PlaceInv, Holding, Writing
<1>9. RunsInv(t)'
  BY <1>1, <1>2, <1>4, <1>6, <1>8 DEF RunsInv, Done
<1> QED
  BY <1>2, <1>4, <1>7, <1>9, OnlyThread DEF SeqInv

(* The end of a request: nothing is left in the connection.                 *)
LEMMA SeqEnds ==
  ASSUME TypeOK, SeqInv, NEW t \in Threads, pc[t] = "returned", Ends(t),
         HistoryInv(durable, sessions', replied'), failed' = failed
  PROVE  SeqInv'
<1>1. /\ DOMAIN pc = Threads /\ pc' = [pc EXCEPT ![t] = "idle"]
      /\ rows' = rows /\ durable' = durable /\ open' = open /\ issued' = issued
  BY DEF TypeOK, StoreTypeOK, Ends, Goto, connection
<1>2. \A s \in Threads : ~Active(s)'
  BY <1>1 DEF SeqInv, Active
<1>3. rows = durable /\ ~open
  BY DEF SeqInv, RunsInv, PlaceInv, Active, Holding, Writing
<1>4. TablesInv'
  BY <1>1 DEF SeqInv, TablesInv
<1> QED
  BY <1>1, <1>2, <1>3, <1>4 DEF SeqInv, AtRest

(* The answer of a request.                                                 *)
LEMMA SeqAnswer ==
  ASSUME TypeOK, SeqInv, NEW t \in Threads, pc[t] = "returned", Answered(t)
  PROVE  SeqInv'
<1>1. /\ Active(t) /\ job[t] \in Job /\ call[t] = Statement(job[t])
      /\ job[t].at \in job[t].from .. Len(Program(job[t].kind))
  BY DEF TypeOK, StoreTypeOK, Active
<1>2. /\ JobInv(durable, issued, job[t], job[t].at) /\ PlaceInv(t)
      /\ HistoryInv(durable, sessions, replied)
  BY <1>1 DEF SeqInv, TablesInv, RunsInv, Done
<1>3. job[t].kind = "start" => MadeBy(durable, got[t], job[t].req)
  <2>1. job[t].kind = "start" => call[t].table = "sessions"
    BY SMTT(30), <1>1, Programs DEF Statement, Job
  <2> QED
    BY <1>2, <2>1 DEF PlaceInv, JobInv
<1>4. HistoryInv(durable, sessions', replied')
  BY <1>2, <1>3 DEF Answered, HistoryInv, JobInv
<1> QED
  BY <1>4, SeqEnds DEF Answered

(* The store returns, and the request goes on.                              *)
LEMMA SeqContinue ==
  ASSUME TypeOK, SeqInv, NEW t \in Threads, Continue(t)
  PROVE  SeqInv'
<1> DEFINE k == [job[t] EXCEPT !.at = @ + 1]
<1>1. /\ Active(t) /\ pc[t] = "returned" /\ job[t] \in Job /\ issued \in Nat
      /\ DOMAIN job = Threads /\ DOMAIN pc = Threads
  BY DEF Continue, TypeOK, StoreTypeOK, Active
<1>2. /\ job' = [job EXCEPT ![t] = k] /\ pc' = [pc EXCEPT ![t] = "execute"]
      /\ call' = [call EXCEPT ![t] = Statement(k)]
      /\ UNCHANGED <<rows, durable, open, lastRowid, bound, got>>
      /\ sessions' = sessions /\ replied' = replied
      /\ failed' = failed /\ issued' = issued
  BY DEF Continue, Calls, Goto, connection, tables, history
<1>3. /\ job'[t] = k /\ pc'[t] = "execute"
      /\ Active(t)' /\ \A s \in Threads \ {t} : ~Active(s)'
  BY <1>1, <1>2, OneThread DEF Active
<1>4. JobInv(durable, issued, k, k.at - 1)
  <2>1. JobInv(durable, issued, job[t], job[t].at)
    BY <1>1 DEF SeqInv, RunsInv, Done
  <2> QED
    BY <1>1, <2>1, JobGoesOn
<1> HIDE DEF k
<1>5. TablesInv'
  BY <1>2 DEF SeqInv, TablesInv
<1>6. PlaceInv(t)'
  <2>1. rows = durable /\ ~open
    BY <1>1 DEF SeqInv, RunsInv, PlaceInv, Holding, Writing
  <2> QED
    BY <1>2, <1>3, <2>1 DEF PlaceInv, Holding, Writing
<1>7. RunsInv(t)'
  BY <1>2, <1>3, <1>4, <1>6 DEF RunsInv, Done
<1> QED
  BY <1>2, <1>3, <1>5, <1>7, OnlyThread DEF SeqInv

(* A request that writes nothing, while no other is under way.              *)
LEMMA SeqWritesNothing ==
  ASSUME TypeOK, SeqInv, NEW t \in Threads, Arrives(t), waited',
         UNCHANGED storeVars, sessions' = sessions, failed' = failed,
         HistoryInv(durable, sessions, replied')
  PROVE  SeqInv'
<1>1. \A s \in Threads : ~Active(s) /\ ~Active(s)'
  BY DEF Arrives, Active, storeVars
<1>2. /\ issued' = issued + 1 /\ issued \in Nat
      /\ durable' = durable /\ rows' = rows /\ open' = open
      /\ \A x \in durable : x.by \in Nat
  BY DEF Arrives, TypeOK, StoreTypeOK, Row, storeVars, connection
<1>3. LedgerInv(durable, issued + 1)
  <2>1. LedgerInv(durable, issued)
    BY DEF SeqInv, TablesInv
  <2> QED
    BY <1>2, <2>1 DEF LedgerInv
<1>4. TablesInv'
  BY <1>2, <1>3 DEF TablesInv
<1> QED
  BY <1>1, <1>2, <1>4 DEF SeqInv, AtRest

(* The invariant holds for as long as requests wait.                        *)
SafeInv == waited => SeqInv

(* No step breaks the invariant while requests wait.                        *)
LEMMA SafeStep == TypeOK /\ TypeOK' /\ SafeInv /\ [Next]_vars => SafeInv'
<1> SUFFICES ASSUME TypeOK, TypeOK', SafeInv, [Next]_vars, waited' PROVE SeqInv'
  BY DEF SafeInv
<1>1. waited
  BY DEF Next, Step, Start, Message, Finish, FinishBare, StartSprint, Grade, Arrives,
         Continue, Breaks, Answer, EndsUnscored, Answered, Fail, Ends, Restart,
         history, vars
<1>2. SeqInv
  BY <1>1 DEF SafeInv
<1>3. \A s \in sessions :
        s.sid \in Nat /\ s.db \in Nat /\ \E req : MadeBy(durable, s.db, req)
  BY <1>2 DEF TypeOK, SeqInv, TablesInv, HistoryInv
<1>4. ASSUME NEW t \in Threads, StoreStep(t) /\ UNCHANGED <<job, tables, history>>
      PROVE  SeqInv'
  BY <1>2, <1>4, SeqStore
<1>5. ASSUME NEW t \in Threads, Start(t) PROVE SeqInv'
  BY <1>2, <1>5, SeqServes DEF Start, tables, Kinds
<1>6. ASSUME NEW t \in Threads, Message(t) PROVE SeqInv'
  <2>1. PICK s \in sessions : Serves(t, "message", s.sid, s.db, 1)
    BY <1>6 DEF Message
  <2> QED
    BY <1>2, <1>3, <1>6, <2>1, SeqServes DEF Message, tables, Kinds
<1>7. ASSUME NEW t \in Threads, Finish(t) PROVE SeqInv'
  <2>1. PICK s \in sessions, from \in {1, 2} : Serves(t, "finish", s.sid, s.db, from)
    BY <1>7 DEF Finish
  <2> QED
    BY <1>2, <1>3, <1>7, <2>1, SeqServes DEF Finish, tables, Kinds
<1>8. ASSUME NEW t \in Threads, FinishBare(t) PROVE SeqInv'
  <2>1. PICK s \in sessions :
          replied' = replied \cup {[req |-> issued + 1, kind |-> "finish",
                                  about |-> s.sid, db |-> s.db,
                                  from |-> 1, at |-> 0]}
    BY <1>8 DEF FinishBare
  <2>2. HistoryInv(durable, sessions, replied')
    BY <1>2, <2>1 DEF SeqInv, TablesInv, HistoryInv, Stored
  <2>3. Arrives(t) /\ UNCHANGED storeVars /\ sessions' = sessions /\ failed' = failed
    BY <1>8 DEF FinishBare
  <2> QED
    BY <1>2, <2>2, <2>3, SeqWritesNothing
<1>9. ASSUME NEW t \in Threads, StartSprint(t) PROVE SeqInv'
  <2>1. /\ Arrives(t) /\ UNCHANGED storeVars /\ sessions' = sessions
        /\ failed' = failed /\ replied' = replied
    BY <1>9 DEF StartSprint
  <2> QED
    BY <1>2, <2>1, SeqWritesNothing DEF SeqInv, TablesInv
<1>10. ASSUME NEW t \in Threads, Grade(t) PROVE SeqInv'
  <2>1. PICK d \in sprints : TakeSprint(d) /\ Serves(t, "grade", d, 0, 1)
    BY <1>10 DEF Grade
  <2>2. d \in Nat
    BY DEF TypeOK
  <2> QED
    BY <1>2, <1>10, <2>1, <2>2, SeqServes DEF Grade, Kinds
<1>11. ASSUME NEW t \in Threads, Continue(t) PROVE SeqInv'
  BY <1>2, <1>11, SeqContinue
<1>12. ASSUME NEW t \in Threads, Breaks(t) PROVE SeqInv'
  <2>1. /\ pc[t] = "returned" /\ Ends(t) /\ failed' = failed
        /\ sessions' = sessions /\ replied' = replied
    BY <1>12 DEF Breaks
  <2> QED
    BY <1>2, <2>1, SeqEnds DEF SeqInv, TablesInv
<1>13. ASSUME NEW t \in Threads, Answer(t) \/ EndsUnscored(t) PROVE SeqInv'
  BY <1>2, <1>13, SeqAnswer DEF Answer, EndsUnscored
<1>14. ASSUME NEW t \in Threads, Fail(t) PROVE SeqInv'
  BY <1>2, <1>14 DEF Fail, SeqInv, RunsInv, PlaceInv, Active
<1>15. CASE Restart
  <2>1. /\ durable' = durable /\ rows' = durable /\ open' = FALSE
        /\ sessions' = {} /\ replied' = replied
        /\ failed' = failed /\ issued' = issued
        /\ \A s \in Threads : ~Active(s)'
    BY <1>15 DEF Restart, StoreRestart, Active
  <2>2. HistoryInv(durable, {}, replied) /\ LedgerInv(durable, issued)
    BY <1>2 DEF SeqInv, TablesInv, HistoryInv
  <2> QED
    BY <1>2, <2>1, <2>2 DEF SeqInv, TablesInv, AtRest
<1>16. CASE UNCHANGED vars
  <2>1. UNCHANGED <<rows, durable, open, lastRowid, bound, pc, call, got, job,
                    sessions, issued, replied, failed>>
    BY <1>16 DEF vars, storeVars, connection, tables, history
  <2> QED
    BY <1>2, <2>1
    DEF SeqInv, TablesInv, RunsInv, PlaceInv, AtRest, Active, Done
<1> QED
  BY <1>4, <1>5, <1>6, <1>7, <1>8, <1>9, <1>10, <1>11, <1>12, <1>13, <1>14, <1>15,
     <1>16 DEF Next, Step

(* "Safe here because this is a single-user app with sequential access"     *)
(* (store.py:31), for any number of sessions, requests and restarts: while  *)
(* requests wait for each other the store refuses none, each session writes *)
(* to the row it made, every row of an answered request is committed once,  *)
(* and of a card that was not stored whole the first rows are there.        *)
THEOREM SafeWhileSequential == Spec => []SafeIfSequential
<1>1. TypeOK /\ SafeInv => SafeIfSequential
  <2> SUFFICES ASSUME TypeOK, SeqInv
               PROVE  NoneRefused /\ OwnRows /\ StoredOnce /\ CardsUnbroken
    BY DEF SafeInv, SafeIfSequential
  <2>1. NoneRefused
    BY DEF SeqInv, NoneRefused
  <2>2. OwnRows
    BY DEF SeqInv, TablesInv, HistoryInv, MadeBy, OwnRows
  <2>3. CardsUnbroken
    BY DEF SeqInv, TablesInv, LedgerInv, Follows, CardsUnbroken
  <2>4. ASSUME NEW r \in replied, NEW i \in r.from .. r.at
        PROVE  LET written == {x \in durable : x.by = r.req /\ x.at = i}
                   asked == Asked(r, i)
               IN  /\ Cardinality(written) = 1
                   /\ \A x \in written : x.table = asked.table /\ x.key = asked.key
    <3> DEFINE written == {x \in durable : x.by = r.req /\ x.at = i}
    <3>1. PICK x \in durable : Answers(x, r, i)
      BY DEF SeqInv, TablesInv, HistoryInv, Stored
    <3>2. x \in written
      BY <3>1 DEF Answers
    <3>3. \A y, z \in written : y = z
      BY DEF SeqInv, TablesInv, LedgerInv
    <3>4. \A y \in written : y.table = Asked(r, i).table /\ y.key = Asked(r, i).key
      BY <3>1, <3>2, <3>3 DEF Answers
    <3> HIDE DEF written
    <3>5. Cardinality(written) = 1
      BY <3>2, <3>3, AtMostOne
    <3> QED
      BY <3>4, <3>5 DEF written
  <2>5. StoredOnce
    BY <2>4 DEF StoredOnce, Asked
  <2> QED
    BY <2>1, <2>2, <2>3, <2>5
<1>2. Init => SafeInv
  BY SeqStart DEF SafeInv
<1> QED
  BY <1>1, <1>2, TypeCorrect, SafeStep, PTL DEF Spec
=============================================================================
