------------------------------- MODULE Engine -------------------------------
(***************************************************************************)
(* What the server keeps and what its requests write: LiveEngine of         *)
(* app/main.py (open sessions, open sprints) and SessionManager of          *)
(* app/engine/session_manager.py, over the Store.                           *)
(*                                                                          *)
(* A request runs in a worker thread and is a program of statements, each a *)
(* call of the store; what a session does between them (flows, LLM calls)   *)
(* is left to the modules of the sessions, and may fail between any two.    *)
(* The server may be killed at any point: the process's tables are gone,    *)
(* the committed rows remain.                                               *)
(***************************************************************************)
EXTENDS Store, Sequences

CONSTANTS
  NDims,          \* the dimensions of a scorecard
  MaxRequests,    \* bounds of the model: no further request, ...
  MaxStatements,  \* ... none whose statements would be more than these in all,
  MaxCrashes      \* ... and no further restart

ASSUME EngineAssumption ==
  /\ NDims \in Nat \ {0}
  /\ MaxRequests \in Nat /\ MaxStatements \in Nat /\ MaxCrashes \in Nat

VARIABLES
  job,       \* the request each thread serves
  sessions,  \* _sessions: which row each open session writes to
  drills,    \* _drills: the sprints not yet graded
  finished,  \* the sessions whose _end_payload is set
  issued,    \* history: the number of requests sent
  budget,    \* the statements that requests may still be sent for
  crashes,   \* history: the number of restarts
  sprints,   \* history: the sprints ever started
  replied,   \* history: the requests answered without an error
  failed,    \* history: the requests ended by an exception of the store
  waited     \* history: has no request overlapped another so far?

tables == <<sessions, drills, finished>>
history == <<issued, budget, crashes, sprints, replied, failed, waited>>
vars == <<storeVars, job, tables, history>>

Scorecard == [i \in 1 .. NDims |-> "scorecards"]

(* What each request writes, in order.  finish is _end of a case: the turn  *)
(* about overruns, and a row per dimension.                                 *)
Program(kind) ==
  CASE kind = "start" -> <<"sessions">>
    [] kind = "message" -> <<"turns", "turns">>
    [] kind = "finish" -> <<"turns">> \o Scorecard
    [] kind = "grade" -> <<"drill_results">>

Kinds == {"start", "message", "finish", "grade"}

(* about is the open session, or the sprint, a request is sent for, db the  *)
(* row that session writes to, and from and at the first and the last of    *)
(* the statements so far.                                                   *)
Job == [req : Nat, kind : Kinds, about : Nat, db : Nat, from : {1, 2}, at : Nat]
NoJob ==
  [req |-> 0, kind |-> "start", about |-> 0, db |-> 0, from |-> 1, at |-> 1]

Init ==
  /\ StoreInit
  /\ job = [t \in Threads |-> NoJob]
  /\ sessions = {} /\ drills = {} /\ finished = {}
  /\ issued = 0 /\ budget = MaxStatements /\ crashes = 0
  /\ sprints = {} /\ replied = {} /\ failed = {} /\ waited = TRUE

-----------------------------------------------------------------------------
(* The statement a job is at.  A result carries its sprint as history.      *)
Statement(j) ==
  LET table == Program(j.kind)[j.at]
  IN  [table |-> table,
       key |-> CASE table = "sessions" -> 0
                 [] table = "drill_results" -> j.about
                 [] OTHER -> j.db,
       by |-> j.req, at |-> j.at]

Calls(t, j) ==
  /\ job' = [job EXCEPT ![t] = j]
  /\ call' = [call EXCEPT ![t] = Statement(j)]
  /\ Goto(t, "execute")

(* A request arrives while others may be running.                           *)
Arrives(t) ==
  /\ pc[t] = "idle" /\ issued < MaxRequests
  /\ issued' = issued + 1
  /\ waited' = (waited /\ \A s \in Threads : pc[s] = "idle")

Serves(t, kind, about, db, from) ==
  /\ Len(Program(kind)) - from < budget
  /\ budget' = budget - (Len(Program(kind)) - from + 1)
  /\ Calls(t, [req |-> issued + 1, kind |-> kind, about |-> about, db |-> db,
               from |-> from, at |-> from])
  /\ UNCHANGED <<connection, got, crashes, replied, failed>>

(* POST /session: start builds the flow, then the row of the session; an id *)
(* or mode it refuses leaves no row.                                        *)
Start(t) ==
  /\ Arrives(t)
  /\ Serves(t, "start", 0, 0, 1)
  /\ UNCHANGED <<tables, sprints>>

Message(t) ==
  /\ Arrives(t)
  /\ \E s \in sessions : Serves(t, "message", s.sid, s.db, 1)
  /\ UNCHANGED <<tables, sprints>>

(* The action that ends a case, whatever the session: a second one finds    *)
(* the payload and writes nothing.  A case without overruns starts with its *)
(* scorecard.                                                               *)
Finish(t) ==
  /\ Arrives(t)
  /\ \E s \in sessions, from \in {1, 2} :
       s.sid \notin finished /\ Serves(t, "finish", s.sid, s.db, from)
  /\ UNCHANGED <<tables, sprints>>

(* Without overruns and without scores (ScoringError) nothing is written.   *)
FinishBare(t) ==
  /\ Arrives(t)
  /\ \E s \in sessions :
       /\ s.sid \notin finished
       /\ finished' = finished \cup {s.sid}
       /\ replied' = replied \cup {[req |-> issued + 1, kind |-> "finish",
                                  about |-> s.sid, db |-> s.db,
                                  from |-> 1, at |-> 0]}
  /\ UNCHANGED <<storeVars, job, sessions, drills, budget, crashes, sprints,
                 failed>>

(* POST /drills, /flashcards: no row before the sprint is graded.           *)
StartSprint(t) ==
  /\ Arrives(t)
  /\ drills' = drills \cup {issued + 1}
  /\ sprints' = sprints \cup {issued + 1}
  /\ UNCHANGED <<storeVars, job, sessions, finished, budget, crashes, replied,
                 failed>>

(* Mutant: the sprint is looked up and stays.                               *)
TakeSprintStays(d) == d \in drills /\ UNCHANGED drills

(* drill_grade: pop, which only one of two overlapping requests can win;    *)
(* the other gets a 404, like an unknown sprint or session.                 *)
TakeSprint(d) == d \in drills /\ drills' = drills \ {d}

Grade(t) ==
  /\ Arrives(t)
  /\ \E d \in sprints : TakeSprint(d) /\ Serves(t, "grade", d, 0, 1)
  /\ UNCHANGED <<sessions, finished, sprints>>

Last(t) == job[t].at = Len(Program(job[t].kind))

(* The store returns and the request goes on.                               *)
Continue(t) ==
  /\ pc[t] = "returned" /\ ~Last(t)
  /\ Calls(t, [job[t] EXCEPT !.at = @ + 1])
  /\ UNCHANGED <<connection, got, tables, history>>

(* Mutant: a thread takes its request's locals along.                       *)
EndsWithJob(t) ==
  /\ Goto(t, "idle")
  /\ call' = [call EXCEPT ![t] = NoCall]
  /\ got' = [got EXCEPT ![t] = 0]
  /\ UNCHANGED <<connection, job, drills, issued, budget, crashes, sprints,
                 waited>>

(* The thread is free again; the request's locals are gone.                 *)
Ends(t) ==
  /\ Goto(t, "idle")
  /\ job' = [job EXCEPT ![t] = NoJob]
  /\ call' = [call EXCEPT ![t] = NoCall]
  /\ got' = [got EXCEPT ![t] = 0]
  /\ UNCHANGED <<connection, drills, issued, budget, crashes, sprints,
                 waited>>

(* Between two calls of the store, or after the last: no provider serves,   *)
(* the stream breaks or the client is gone; a join of a score's evidence or *)
(* the feedback of an empty anchor table raises.  The session stays open.   *)
Breaks(t) ==
  /\ pc[t] = "returned"
  /\ job[t].kind = "finish" \/ (job[t].kind = "message" /\ ~Last(t))
  /\ Ends(t)
  /\ UNCHANGED <<sessions, finished, replied, failed>>

Answered(t) ==
  /\ Ends(t)
  /\ sessions' = IF job[t].kind = "start"
                   THEN sessions \cup {[sid |-> job[t].req, db |-> got[t]]}
                   ELSE sessions
  /\ finished' = IF job[t].kind = "finish" THEN finished \cup {job[t].about}
                                           ELSE finished
  /\ replied' = replied \cup {job[t]}
  /\ UNCHANGED failed

Answer(t) ==
  /\ pc[t] = "returned" /\ Last(t)
  /\ Answered(t)

(* A ScoringError: the case is over with the turn about overruns alone.     *)
EndsUnscored(t) ==
  /\ pc[t] = "returned" /\ job[t].kind = "finish" /\ job[t].at = 1
  /\ Answered(t)

(* An exception of the store ends the request with a 500.                   *)
Fail(t) ==
  /\ pc[t] = "raised"
  /\ Ends(t)
  /\ failed' = failed \cup {job[t].req}
  /\ UNCHANGED <<sessions, finished, replied>>

(* The server is stopped, or dies, and is started again.                    *)
Restart ==
  /\ crashes < MaxCrashes
  /\ crashes' = crashes + 1
  /\ StoreRestart
  /\ job' = [t \in Threads |-> NoJob]
  /\ sessions' = {} /\ drills' = {} /\ finished' = {}
  /\ UNCHANGED <<issued, budget, sprints, replied, failed, waited>>

Step(t) ==
  \/ StoreStep(t) /\ UNCHANGED <<job, tables, history>>
  \/ Start(t) \/ Message(t) \/ Finish(t) \/ FinishBare(t)
  \/ StartSprint(t) \/ Grade(t)
  \/ Continue(t) \/ Breaks(t) \/ Answer(t) \/ EndsUnscored(t) \/ Fail(t)

Next == (\E t \in Threads : Step(t)) \/ Restart

Spec == Init /\ [][Next]_vars

-----------------------------------------------------------------------------
Quiet == \A t \in Threads : pc[t] = "idle"

(* Types; a thread is idle when it has no job, and otherwise calls the      *)
(* store for the statement its job is at.                                   *)
TypeOK ==
  /\ StoreTypeOK
  /\ job \in [Threads -> Job]
  /\ sessions \subseteq [sid : Nat, db : Nat]
  /\ drills \subseteq Nat /\ finished \subseteq Nat /\ sprints \subseteq Nat
  /\ issued \in Nat /\ budget \in Nat /\ crashes \in Nat
  /\ replied \subseteq Job
  /\ failed \subseteq Nat
  /\ waited \in BOOLEAN
  /\ \A t \in Threads :
       /\ job[t].at \in job[t].from .. Len(Program(job[t].kind))
       /\ IF pc[t] = "idle" THEN job[t] = NoJob ELSE call[t] = Statement(job[t])

(* A commit takes whatever the connection holds, and may come too late or   *)
(* too early for the thread that asks for it.  In every interleaving,       *)
(* nothing is left uncommitted when no request is under way: a restart then *)
(* loses no row that a review or the dashboard has shown.                   *)
NothingLeftOpen == Quiet => rows = durable

(* drill_grade pops before it records: in every interleaving a sprint is    *)
(* graded by one request at most, from however many tabs it is sent, and    *)
(* never while it is still open.                                            *)
SprintGradedOnce ==
  \A d \in sprints :
    LET graders == {t \in Threads : job[t].kind = "grade" /\ job[t].about = d}
        answers == {r \in replied : r.kind = "grade" /\ r.about = d}
    IN  Cardinality(graders) + Cardinality(answers) + (IF d \in drills THEN 1 ELSE 0)
          <= 1

NoneRefused == failed = {}

(* Each open session writes to the row it made.                             *)
OwnRows ==
  \A s \in sessions : \E x \in durable :
    x.table = "sessions" /\ x.id = s.db /\ x.by = s.sid

(* Every row of an answered request is committed, once, and is what it has  *)
(* asked for: a case that ended with scores has its whole card.             *)
StoredOnce ==
  \A r \in replied : \A i \in r.from .. r.at :
    LET written == {x \in durable : x.by = r.req /\ x.at = i}
        asked == Statement([r EXCEPT !.at = i])
    IN  /\ Cardinality(written) = 1
        /\ \A x \in written : x.table = asked.table /\ x.key = asked.key

(* Every row of a scorecard is a commit of its own: a request that failed   *)
(* or was killed has left the first rows of its card, in the same session,  *)
(* and no others.                                                           *)
CardsUnbroken ==
  \A x \in durable : x.table = "scorecards" /\ x.at > 2 =>
    \E y \in durable : /\ y.table = "scorecards" /\ y.key = x.key
                      /\ y.by = x.by /\ y.at = x.at - 1

(* "Safe here because this is a single-user app with sequential access"     *)
(* (store.py:31): while requests wait for each other no statement is        *)
(* refused, each session writes to the row it made, every row of an         *)
(* answered request is committed once, and a card is stored from its first  *)
(* dimension on, wherever its request fails or the server is killed.        *)
SafeIfSequential ==
  waited => NoneRefused /\ OwnRows /\ StoredOnce /\ CardsUnbroken
=============================================================================
