------------------------------- MODULE Store -------------------------------
(***************************************************************************)
(* Class Store of app/db/store.py: one SQLite connection, made with         *)
(* check_same_thread=False and used by every worker thread without a lock.  *)
(*                                                                          *)
(* Each writing method is execute, commit, and lastrowid of the cursor.     *)
(* sqlite3 (external: the module and the library under it) releases the     *)
(* interpreter's lock inside BEGIN, the statement, last_insert_rowid and    *)
(* COMMIT, so a method is seven steps: is a transaction open? BEGIN if not, *)
(* bind the values, run the statement, read its rowid, is a transaction     *)
(* open? COMMIT if so.  The transaction, the rowid and the prepared         *)
(* statement (cached by its text, one per method) belong to the connection, *)
(* not to the thread.                                                       *)
(***************************************************************************)
EXTENDS Naturals, FiniteSets

CONSTANT Threads   \* the worker threads of the server

ASSUME StoreAssumption == IsFiniteSet(Threads)

VARIABLES
  rows,       \* the rows as the connection sees them
  durable,    \* the rows of the last commit: what a restart finds
  open,       \* a transaction is open on the connection
  lastRowid,  \* last_insert_rowid of the connection
  bound,      \* the values bound to the prepared statement of each table
  pc,         \* what each thread does next
  call,       \* the statement each thread executes
  got         \* the lastrowid of each thread's cursor

connection == <<rows, durable, open, lastRowid, bound>>
storeVars == <<connection, pc, call, got>>

(* The tables of schema.sql that the server writes.                         *)
Children == {"turns", "scorecards"}
Tables == {"sessions", "drill_results"} \cup Children

(* A row: key is the session it belongs to (or the sprint it is about), by  *)
(* and at are history: the request, and the statement of it, that wrote it. *)
Row == [table : Tables, id : Nat, key : Nat, by : Nat, at : Nat]
Call == [table : Tables, key : Nat, by : Nat, at : Nat]
NoCall == [table |-> "sessions", key |-> 0, by |-> 0, at |-> 0]

Places == {"execute", "begin", "bind", "insert", "rowid", "commit",
           "committing", "returned", "raised", "idle"}

StoreInit ==
  /\ rows = {} /\ durable = {} /\ open = FALSE /\ lastRowid = 0
  /\ bound = [table \in Tables |-> NoCall]
  /\ pc = [t \in Threads |-> "idle"]
  /\ call = [t \in Threads |-> NoCall]
  /\ got = [t \in Threads |-> 0]

Goto(t, l) == pc' = [pc EXCEPT ![t] = l]

In(table) == {x \in rows : x.table = table}

HasSession(key) == \E x \in In("sessions") : x.id = key

(* AUTOINCREMENT; no row is ever deleted.                                   *)
NewId(table) == Cardinality(In(table)) + 1

-----------------------------------------------------------------------------
(* The methods create_session, add_turn, add_scorecard, add_drill_result:   *)
(* each inserts a row.                                                      *)
Written(c) ==
  rows \cup {[table |-> c.table, id |-> NewId(c.table), key |-> c.key,
              by |-> c.by, at |-> c.at]}

(* execute begins a transaction unless one is open: also another thread's.  *)
Execute(t) ==
  /\ pc[t] = "execute"
  /\ Goto(t, IF open THEN "bind" ELSE "begin")
  /\ UNCHANGED <<connection, call, got>>

(* BEGIN within a transaction is an OperationalError.                       *)
BeginWork(t) ==
  /\ pc[t] = "begin"
  /\ open' = TRUE
  /\ Goto(t, IF open THEN "raised" ELSE "bind")
  /\ UNCHANGED <<rows, durable, lastRowid, bound, call, got>>

(* The values replace those another thread has bound and not yet used.      *)
Bind(t) ==
  /\ pc[t] = "bind"
  /\ bound' = [bound EXCEPT ![call[t].table] = call[t]]
  /\ Goto(t, "insert")
  /\ UNCHANGED <<rows, durable, open, lastRowid, call, got>>

(* A prepared statement that has run and is not reset yet may refuse them.  *)
BindRefused(t) ==
  /\ pc[t] = "bind"
  /\ \E s \in Threads \ {t} : pc[s] = "rowid" /\ call[s].table = call[t].table
  /\ Goto(t, "raised")
  /\ UNCHANGED <<connection, call, got>>

(* PRAGMA foreign_keys = ON: a child without its session is refused, and    *)
(* the transaction stays open.                                              *)
Orphan(c) == c.table \in Children /\ ~HasSession(c.key)

(* Mutant: a statement outside a transaction waits for the next commit.     *)
SavedLater == UNCHANGED durable

(* Without a transaction, closed meanwhile by another thread's commit, a    *)
(* statement commits itself.                                                *)
Saved == durable' = IF open THEN durable ELSE rows'

(* The statement, with the values that are bound by now.                    *)
Insert(t) ==
  LET c == bound[call[t].table]
  IN  /\ pc[t] = "insert" /\ ~Orphan(c)
      /\ rows' = Written(c)
      /\ Saved
      /\ lastRowid' = NewId(c.table)
      /\ Goto(t, "rowid")
      /\ UNCHANGED <<open, bound, call, got>>

InsertRefused(t) ==
  /\ pc[t] = "insert" /\ Orphan(bound[call[t].table])
  /\ Goto(t, "raised")
  /\ UNCHANGED <<connection, call, got>>

(* cur.lastrowid: the last insert of the connection.                        *)
ReadRowid(t) ==
  /\ pc[t] = "rowid"
  /\ got' = [got EXCEPT ![t] = lastRowid]
  /\ Goto(t, "commit")
  /\ UNCHANGED <<connection, call>>

(* Mutant: the commit is left to a later call.                              *)
TestCommitLater(t) ==
  /\ pc[t] = "commit"
  /\ Goto(t, "returned")
  /\ UNCHANGED <<connection, call, got>>

(* commit() does nothing without a transaction.                             *)
TestCommit(t) ==
  /\ pc[t] = "commit"
  /\ Goto(t, IF open THEN "committing" ELSE "returned")
  /\ UNCHANGED <<connection, call, got>>

(* COMMIT keeps whatever the connection has written; without a transaction  *)
(* it is an OperationalError.                                               *)
Commit(t) ==
  /\ pc[t] = "committing"
  /\ open' = FALSE
  /\ durable' = IF open THEN rows ELSE durable
  /\ Goto(t, IF open THEN "returned" ELSE "raised")
  /\ UNCHANGED <<rows, lastRowid, bound, call, got>>

StoreStep(t) ==
  \/ Execute(t) \/ BeginWork(t) \/ Bind(t) \/ BindRefused(t)
  \/ Insert(t) \/ InsertRefused(t) \/ ReadRowid(t) \/ TestCommit(t) \/ Commit(t)

(* The process ends and starts again: the open transaction is rolled back.  *)
StoreRestart ==
  /\ rows' = durable
  /\ open' = FALSE /\ lastRowid' = 0
  /\ bound' = [table \in Tables |-> NoCall]
  /\ pc' = [t \in Threads |-> "idle"]
  /\ call' = [t \in Threads |-> NoCall]
  /\ got' = [t \in Threads |-> 0]
  /\ UNCHANGED durable

StoreTypeOK ==
  /\ rows \subseteq Row /\ IsFiniteSet(rows)
  /\ durable \subseteq Row /\ IsFiniteSet(durable)
  /\ open \in BOOLEAN
  /\ lastRowid \in Nat
  /\ bound \in [Tables -> Call]
  /\ pc \in [Threads -> Places]
  /\ call \in [Threads -> Call]
  /\ got \in [Threads -> Nat]
=============================================================================
