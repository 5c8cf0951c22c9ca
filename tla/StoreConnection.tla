---------------------------- MODULE StoreConnection ----------------------------
(***************************************************************************)
(* libs/store's PostgresStore: one psycopg connection per process.         *)
(*                                                                         *)
(* Every method runs its statements and then ends the transaction, a write *)
(* with commit() and a read with rollback(); the reads brief makes through *)
(* a raw cursor() end in commit() too.  psycopg opens a transaction at the *)
(* first statement and holds its lock for one statement, commit or         *)
(* rollback at a time, so the callers of one connection share a            *)
(* transaction.  They are the threads of a process, each an                *)
(* asyncio.to_thread call or the event loop itself: alerting's digest and  *)
(* triage's entity thread run beside the loop, and nothing keeps their     *)
(* calls apart.                                                            *)
(*                                                                         *)
(* A row <<c, n>> is what the n-th statement of call c writes.             *)
(***************************************************************************)
EXTENDS Integers

CONSTANTS
  Callers,
  Calls,       \* the store calls of a run, each made once
  Owner,       \* Owner[c]: the caller that makes call c
  Statements,  \* Statements[c]: 2 for put_item (article, audit), 1 for others
  Reads,       \* the calls that only read
  Cursors,     \* those of them that end in commit()
  Rescuers,    \* callers that call rollback() when a call has raised
  NoCall,      \* the call of a caller that makes none
  NoAnswer,    \* the answer of a call that is no read, or has none yet
  MaxErrors    \* bound on failed statements and lost connections

ASSUME CallsAssumption ==
  /\ Owner \in [Calls -> Callers]
  /\ Statements \in [Calls -> 1 .. 2]
  /\ Reads \subseteq Calls /\ Cursors \subseteq Reads /\ Rescuers \subseteq Callers
  /\ NoCall \notin Calls
  /\ MaxErrors \in Nat

VARIABLES
  db,        \* committed rows
  txn,       \* the connection's transaction: its status, its uncommitted rows
  call, done,  \* of each caller: the call it is in, the statements of it run
  rescuing,  \* callers whose call has raised and that have yet to roll back
  found,     \* of each caller: the rows the statement of its read saw
  outcome, answer,   \* of each call
  errors,
  (* Of what the callers did to each other; read only by properties.       *)
  shared,    \* calls that had a transaction in common with another caller
  undone     \* calls whose uncommitted rows another caller threw away

callers == <<call, done, rescuing, found>>
results == <<outcome, answer>>
history == <<shared, undone>>
vars == <<db, txn, callers, results, errors, history>>

Rows == [c \in Calls |-> IF c \in Reads THEN {} ELSE {c} \X (1 .. Statements[c])]
AllRows == UNION {Rows[c] : c \in Calls}

Idle   == [status |-> "idle",   rows |-> {}]
Failed == [status |-> "failed", rows |-> {}]
Closed == [status |-> "closed", rows |-> {}]

Init ==
  /\ db = {} /\ txn = Idle
  /\ call = [p \in Callers |-> NoCall] /\ done = [p \in Callers |-> 0]
  /\ rescuing = {} /\ found = [p \in Callers |-> {}]
  /\ outcome = [c \in Calls |-> "new"] /\ answer = [c \in Calls |-> NoAnswer]
  /\ errors = 0 /\ shared = {} /\ undone = {}

Running(p)   == call[p] # NoCall
Executing(p) == Running(p) /\ done[p] < Statements[call[p]]
Ending(p)    == Running(p) /\ done[p] = Statements[call[p]]
Mid(p)       == Running(p) /\ done[p] > 0
Usable       == txn.status \in {"idle", "open"}
Quiet        == rescuing = {} /\ \A p \in Callers : ~Running(p)
Err          == errors < MaxErrors /\ errors' = errors + 1

(* What a step of p meets of the others: their calls between a statement   *)
(* and the end, and those of them with rows in the transaction.            *)
Met(p)    == {call[q] : q \in {r \in Callers \ {p} : Mid(r)}}
Thrown(p) == {c \in Met(p) : Rows[c] \intersect txn.rows # {}}

(* Wrong variant: the count of statements carries over to the next call.   *)
LeaveUncounted(p, how) ==
  /\ outcome' = [outcome EXCEPT ![call[p]] = how]
  /\ call' = [call EXCEPT ![p] = NoCall]
  /\ found' = [found EXCEPT ![p] = {}]
  /\ UNCHANGED done

(* The call of p ends, and p is free for its next one.                     *)
Leave(p, how) ==
  /\ outcome' = [outcome EXCEPT ![call[p]] = how]
  /\ call' = [call EXCEPT ![p] = NoCall]
  /\ done' = [done EXCEPT ![p] = 0]
  /\ found' = [found EXCEPT ![p] = {}]

Raise(p) ==
  /\ Leave(p, "raised")
  /\ rescuing' = IF p \in Rescuers THEN rescuing \union {p} ELSE rescuing
  /\ UNCHANGED answer

(* A caller waits for its call; the others' calls may run meanwhile.       *)
Begin(p, c) ==
  /\ ~Running(p) /\ p \notin rescuing
  /\ outcome[c] = "new" /\ Owner[c] = p
  /\ call' = [call EXCEPT ![p] = c]
  /\ UNCHANGED <<db, txn, done, rescuing, found, results, errors, history>>

(* Wrong variant: every statement is its own transaction (autocommit).     *)
ExecuteAutocommit(p) ==
  /\ Executing(p) /\ Usable
  /\ done' = [done EXCEPT ![p] = @ + 1]
  /\ found' = [found EXCEPT ![p] = db]
  /\ db' = IF call[p] \in Reads THEN db ELSE db \union {<<call[p], done[p] + 1>>}
  /\ UNCHANGED <<txn, call, rescuing, results, errors, history>>

Execute(p) ==
  /\ Executing(p) /\ Usable
  /\ txn' = [status |-> "open",
             rows |-> txn.rows \union {r \in Rows[call[p]] : r[2] = done[p] + 1}]
  /\ done' = [done EXCEPT ![p] = @ + 1]
  /\ found' = [found EXCEPT ![p] = db \union txn.rows]
  /\ shared' = IF Met(p) = {} THEN shared ELSE shared \union Met(p) \union {call[p]}
  /\ UNCHANGED <<db, call, rescuing, results, errors, undone>>

ThrowAway(p) == /\ shared' = shared \union Met(p)
                /\ undone' = undone \union Thrown(p)

(* A constraint, a bad value, a timeout: the server aborts the transaction. *)
StatementFails(p) ==
  /\ Executing(p) /\ Usable /\ Err
  /\ txn' = Failed /\ ThrowAway(p)
  /\ Raise(p)
  /\ UNCHANGED db

(* Every statement is refused until the transaction is rolled back.        *)
Refused(p) ==
  /\ Executing(p) /\ ~Usable
  /\ Raise(p)
  /\ UNCHANGED <<db, txn, errors, history>>

(* Wrong variant: a write that ends like a read.                           *)
CommitNothing(p) ==
  /\ Ending(p) /\ call[p] \notin Reads /\ txn.status # "closed"
  /\ txn' = Idle
  /\ Leave(p, "returned")
  /\ UNCHANGED <<db, rescuing, answer, errors, history>>

(* COMMIT of an aborted transaction is a rollback that raises nothing.     *)
Commit(p) ==
  /\ Ending(p) /\ call[p] \notin Reads /\ txn.status # "closed"
  /\ db' = db \union txn.rows
  /\ txn' = Idle
  /\ Leave(p, "returned")
  /\ UNCHANGED <<rescuing, answer, errors, history>>

EndRead(p) ==
  /\ Ending(p) /\ call[p] \in Reads /\ txn.status # "closed"
  /\ \/ call[p] \in Cursors /\ db' = db \union txn.rows /\ UNCHANGED undone
     \/ call[p] \notin Cursors /\ undone' = undone \union Thrown(p) /\ UNCHANGED db
  /\ txn' = Idle
  /\ answer' = [answer EXCEPT ![call[p]] = found[p]]
  /\ Leave(p, "returned")
  /\ UNCHANGED <<rescuing, errors, shared>>

EndFails(p) ==
  /\ Ending(p) /\ txn.status = "closed"
  /\ Raise(p)
  /\ UNCHANGED <<db, txn, errors, history>>

(* Wrong variant: the except branch logs and goes on.                      *)
RescueForgotten(p) ==
  /\ p \in rescuing
  /\ rescuing' = rescuing \ {p}
  /\ UNCHANGED <<db, txn, call, done, found, results, errors, history>>

(* PostgresStore.rollback(), of a caller that goes on after an exception.  *)
Rescue(p) ==
  /\ p \in rescuing
  /\ rescuing' = rescuing \ {p}
  /\ txn' = IF txn.status = "closed" THEN txn ELSE Idle
  /\ ThrowAway(p)
  /\ UNCHANGED <<db, call, done, found, results, errors>>

(* The session ends under a commit, which may have been done.              *)
CommitCut(p) ==
  /\ Ending(p) /\ call[p] \notin Reads /\ txn.status # "closed" /\ Err
  /\ db' \in {db, db \union txn.rows}
  /\ txn' = Closed
  /\ Raise(p)
  /\ UNCHANGED history

ConnectionLost ==
  /\ txn.status # "closed" /\ Err
  /\ txn' = Closed
  /\ UNCHANGED <<db, callers, results, history>>

(* idle_in_transaction_session_timeout: a transaction nobody ended.        *)
ServerTimeout ==
  /\ txn.status \in {"open", "failed"} /\ Quiet
  /\ txn' = Closed
  /\ UNCHANGED <<db, callers, results, errors, history>>

Step(p) ==
  \/ \E c \in Calls : Begin(p, c)
  \/ Execute(p) \/ Refused(p) \/ Commit(p) \/ EndRead(p) \/ EndFails(p)
  \/ Rescue(p)

Next ==
  \/ \E p \in Callers : Step(p) \/ StatementFails(p) \/ CommitCut(p)
  \/ ConnectionLost \/ ServerTimeout

Spec == Init /\ [][Next]_vars

(* A thread that is in a call goes on with it.                             *)
FairSpec == Spec /\ \A p \in Callers : WF_vars(Step(p))
-----------------------------------------------------------------------------
TypeOK ==
  /\ db \subseteq AllRows
  /\ txn \in [status : {"idle", "open", "failed", "closed"}, rows : SUBSET AllRows]
  /\ call \in [Callers -> Calls \union {NoCall}]
  /\ done \in [Callers -> 0 .. 2]
  /\ \A p \in Callers : done[p] > 0 => Running(p) /\ done[p] <= Statements[call[p]]
  /\ rescuing \subseteq Rescuers
  /\ found \in [Callers -> SUBSET AllRows]
  /\ outcome \in [Calls -> {"new", "returned", "raised"}]
  /\ answer \in [Calls -> (SUBSET AllRows) \union {NoAnswer}]
  /\ errors \in 0 .. MaxErrors
  /\ shared \subseteq Calls /\ undone \subseteq Calls

(* A write that has returned is stored, unless another caller threw its    *)
(* uncommitted rows away before it ended: by the rollback a read ends in,  *)
(* by PostgresStore.rollback() or by a failed statement.  Nothing else     *)
(* loses a write in silence, not a failed call of its own caller before it *)
(* nor a lost session.                                                     *)
LostOnlyToRollback ==
  \A c \in Calls : outcome[c] = "returned" => Rows[c] \subseteq db \/ c \in undone

(* _postgres.py, cursor: "cursors from multiple threads (asyncio.to_thread *)
(* callers) are safe"; PostgresTranslationCache says the same of its put.  *)
(* A write that has returned is stored, whatever the other threads call.   *)
ReturnedIsStored ==
  \A c \in Calls : outcome[c] = "returned" => Rows[c] \subseteq db

(* put_item: "Both are committed together" (DD-5).  No article is stored   *)
(* without its audit row, nor an audit row without its article, unless the *)
(* call had its transaction in common with another caller's.               *)
PairsTogether ==
  \A c \in Calls : \/ Rows[c] \subseteq db \/ Rows[c] \intersect db = {}
                   \/ c \in shared

(* A call that has its transaction to itself is atomic: what libs/store's  *)
(* Protocol and its in-memory double promise of every call, whatever       *)
(* statements fail, commits are cut off, transactions are left aborted and *)
(* other calls run into each other.                                        *)
Promised(rows) == {r \in rows : r[1] \notin shared}

Store == INSTANCE AtomicStore WITH
           db      <- Promised(db),
           outcome <- [c \in Calls |-> IF c \in shared THEN "shared" ELSE outcome[c]],
           answer  <- [c \in Calls |->
                         IF c \in Reads \ shared /\ outcome[c] = "returned"
                         THEN Promised(answer[c]) ELSE NoAnswer]

ImplementsStore == Store!Spec

(* PostgresStore.rollback: a caller that rolls back after an exception     *)
(* does not leave the connection poisoned for the calls that follow.       *)
RescueHeals ==
  \A p \in Callers : p \in rescuing ~> txn.status # "failed"
=============================================================================
