------------------------- MODULE StoreConnectionProofs -------------------------
(***************************************************************************)
(* A PostgresStore is the atomic store its Protocol promises for every     *)
(* call that has its transaction to itself, and the rest is lost only to   *)
(* another caller's rollback.  The argument: the transaction holds rows of *)
(* calls between a statement and their end and of no others, so where only *)
(* one call is there a commit stores that call's rows and nothing else.    *)
(***************************************************************************)
EXTENDS StoreConnection, TLAPS

(* What the running call of p has written so far.                          *)
Written(p) == {r \in Rows[call[p]] : r[2] <= done[p]}

(* A call that runs is its caller's own and has no outcome yet.            *)
Unfinished == \A p \in Callers : Running(p) =>
                Owner[call[p]] = p /\ outcome[call[p]] = "new"

(* Two calls between a statement and their end share their transaction.    *)
Apart == \A p, q \in Callers : p # q /\ Mid(p) /\ Mid(q) => call[p] \in shared

(* The uncommitted rows are those of calls that have not ended.            *)
TxnRows ==
  /\ txn.status # "open" => txn.rows = {}
  /\ \A r \in txn.rows : \E p \in Callers : Mid(p) /\ r \in Written(p)

(* They are all that a call which shares nothing has written.              *)
OwnTxn ==
  \A p \in Callers : Mid(p) /\ call[p] \notin shared =>
    \/ txn.status = "closed"
    \/ txn.status = "open" /\ txn.rows = Written(p)

(* What its read has found is still what is stored.                        *)
FoundStored ==
  \A p \in Callers :
    Mid(p) /\ call[p] \in Reads /\ call[p] \notin shared => found[p] = db

(* It has stored all its rows, or none; none before it ends.               *)
Whole ==
  \A c \in Calls \ shared :
    /\ outcome[c] = "new" => Rows[c] \intersect db = {}
    /\ Rows[c] \subseteq db \/ Rows[c] \intersect db = {}

(* What any call has written is stored or about to be, or was thrown away. *)
Kept ==
  /\ \A p \in Callers : Mid(p) /\ txn.status # "closed" =>
       Written(p) \subseteq db \union txn.rows \/ call[p] \in undone
  /\ \A c \in Calls : outcome[c] = "returned" => Rows[c] \subseteq db \/ c \in undone

(* A caller that has yet to roll back makes no call.                       *)
Rescued == \A p \in rescuing \intersect Callers : ~Running(p)

(* And what its read returned is still stored.                             *)
Answers == \A c \in Reads \ shared : outcome[c] = "returned" => answer[c] \subseteq db

SInv == /\ TypeOK /\ Rescued /\ Unfinished /\ Apart /\ TxnRows /\ OwnTxn
        /\ FoundStored /\ Whole /\ Kept /\ Answers

(* The rows of different calls are different rows. *)
LEMMA RowsApart ==
  ASSUME NEW c \in Calls, NEW d \in Calls, c # d
  PROVE  Rows[c] \intersect Rows[d] = {}
BY DEF Rows

LEMMA RowsOf ==
  ASSUME NEW c \in Calls
  PROVE  /\ c \in Reads => Rows[c] = {}
         /\ c \notin Reads => Rows[c] = {c} \X (1 .. Statements[c])
         /\ \A r \in Rows[c] : r[1] = c /\ r[2] \in 1 .. Statements[c]
         /\ Rows[c] \subseteq AllRows
BY CallsAssumption DEF Rows, AllRows

LEMMA SInvInit == Init => SInv
<1> SUFFICES ASSUME Init PROVE SInv
  OBVIOUS
<1>1. TypeOK
  <2>1. {} \subseteq AllRows /\ 0 \in 0 .. MaxErrors
    BY CallsAssumption
  <2>2. txn \in [status : {"idle", "open", "failed", "closed"}, rows : SUBSET AllRows]
    BY DEF Init, Idle
  <2> QED BY <2>1, <2>2 DEF Init, TypeOK
<1>2. Rescued /\ Unfinished /\ Apart /\ TxnRows /\ OwnTxn /\ FoundStored
  BY DEF Init, Idle, Running, Mid, Rescued, Unfinished, Apart, TxnRows, OwnTxn, FoundStored
<1>3. Whole /\ Kept /\ Answers
  BY CallsAssumption DEF Init, Whole, Kept, Answers, Mid, Running
<1> QED BY <1>1, <1>2, <1>3 DEF SInv

(* A call that has run all its statements has written all its rows. *)
LEMMA EndingIsWhole ==
  ASSUME TypeOK, NEW p \in Callers, Ending(p)
  PROVE  Mid(p) /\ call[p] \in Calls /\ Written(p) = Rows[call[p]]
<1>1. call[p] \in Calls /\ Running(p) /\ done[p] = Statements[call[p]]
  BY DEF TypeOK, Ending, Running
<1>2. done[p] > 0
  BY <1>1, CallsAssumption
<1>3. Written(p) = Rows[call[p]]
  BY <1>1, RowsOf, CallsAssumption DEF Written
<1> QED BY <1>1, <1>2, <1>3 DEF Mid

(* A call that ends leaves its caller's fields empty.                      *)
LEMMA LeaveTyped ==
  ASSUME TypeOK, NEW p \in Callers, Running(p), NEW how \in {"returned", "raised"},
         Leave(p, how)
  PROVE  /\ call' \in [Callers -> Calls \union {NoCall}]
         /\ done' \in [Callers -> 0 .. 2]
         /\ \A q \in Callers :
              done'[q] > 0 => Running(q)' /\ done'[q] <= Statements[call'[q]]
         /\ found' \in [Callers -> SUBSET AllRows]
         /\ outcome' \in [Calls -> {"new", "returned", "raised"}]
BY DEF TypeOK, Leave, Running

(* And nobody else's.                                                      *)
LEMMA LeaveFrame ==
  ASSUME TypeOK, Unfinished, NEW p \in Callers, Running(p),
         NEW how \in {"returned", "raised"}, Leave(p, how)
  PROVE  /\ call[p] \in Calls /\ outcome[call[p]] = "new"
         /\ ~Running(p)' /\ ~Mid(p)'
         /\ outcome'[call[p]] = how
         /\ \A c \in Calls \ {call[p]} : outcome'[c] = outcome[c]
         /\ \A q \in Callers \ {p} :
              /\ (Running(q)' <=> Running(q)) /\ (Mid(q)' <=> Mid(q))
              /\ call'[q] = call[q] /\ done'[q] = done[q] /\ found'[q] = found[q]
              /\ Written(q)' = Written(q)
              /\ Running(q) => call[q] # call[p]
<1>1. call[p] \in Calls /\ outcome[call[p]] = "new" /\ Owner[call[p]] = p
  BY DEF TypeOK, Running, Unfinished
<1>2. ~Running(p)' /\ ~Mid(p)'
  BY DEF Leave, TypeOK, Running, Mid
<1>3. /\ outcome'[call[p]] = how
      /\ \A c \in Calls \ {call[p]} : outcome'[c] = outcome[c]
  BY <1>1 DEF Leave, TypeOK
<1>4. ASSUME NEW q \in Callers \ {p}
      PROVE  /\ (Running(q)' <=> Running(q)) /\ (Mid(q)' <=> Mid(q))
             /\ call'[q] = call[q] /\ done'[q] = done[q] /\ found'[q] = found[q]
             /\ Written(q)' = Written(q)
             /\ Running(q) => call[q] # call[p]
  <2>1. call'[q] = call[q] /\ done'[q] = done[q] /\ found'[q] = found[q]
    BY DEF Leave, TypeOK
  <2>2. Running(q) => call[q] # call[p]
    BY <1>1 DEF Unfinished
  <2> QED BY <2>1, <2>2 DEF Running, Mid, Written, Rows
<1> QED BY <1>1, <1>2, <1>3, <1>4

(* The call of p ends, how it does and what becomes of the transaction:    *)
(* its rows are stored, all of them, or thrown away, and no other caller   *)
(* is left in it but those that know.                                      *)
Ends(p, how) ==
  /\ Running(p) /\ Leave(p, how)
  /\ rescuing' \subseteq rescuing \union {p}
  /\ shared' \in SUBSET Calls /\ undone' \in SUBSET Calls
  /\ shared \subseteq shared' /\ undone \subseteq undone'
  /\ txn' \in [status : {"idle", "open", "failed", "closed"}, rows : {{}}]
  /\ txn.status = "closed" => txn'.status = "closed"
  /\ \/ answer' = answer
     \/ how = "returned" /\ answer' = [answer EXCEPT ![call[p]] = found[p]]
  /\ how = "returned" /\ call[p] \in Reads => answer' = [answer EXCEPT ![call[p]] = found[p]]
  /\ \/ db' = db
     \/ db' = db \union txn.rows /\ Ending(p) /\ txn.status # "closed"
  /\ how = "returned" =>
       /\ Ending(p) /\ txn.status # "closed"
       /\ db' = db \union txn.rows \/ Rows[call[p]] = {}
  /\ \A q \in Callers \ {p} : Mid(q) /\ call[q] \notin shared' =>
       txn'.status = "closed"
  /\ \/ db' = db \union txn.rows
     \/ txn'.status = "closed"
     \/ Thrown(p) \subseteq undone'

LEMMA EndsKeeps ==
  ASSUME SInv, NEW p \in Callers, NEW how \in {"returned", "raised"}, Ends(p, how),
         TypeOK'
  PROVE  SInv'
<1> DEFINE c == call[p]
<1> USE DEF SInv
<1>1. /\ Running(p) /\ Leave(p, how)
      /\ shared \subseteq shared' /\ undone \subseteq undone'
      /\ txn'.rows = {}
      /\ db \subseteq db'
  BY DEF Ends
<1>2. Unfinished' /\ Rescued'
  <2>1. Unfinished'
    BY <1>1, LeaveFrame DEF Unfinished, TypeOK, Running
  <2>2. Rescued'
    BY <1>1, LeaveFrame DEF Rescued, Ends
  <2> QED BY <2>1, <2>2
<1>3. Apart'
  BY <1>1, LeaveFrame DEF Apart
<1>4. TxnRows' /\ OwnTxn'
  <2>1. TxnRows'
    BY <1>1 DEF TxnRows
  <2>2. ASSUME NEW q \in Callers, Mid(q)', call'[q] \notin shared' PROVE txn'.status = "closed"
    BY <1>1, <2>2, LeaveFrame DEF Ends
  <2> QED BY <2>1, <2>2 DEF OwnTxn
<1>5. ASSUME NEW q \in Callers \ {p}, Mid(q), call[q] \notin shared
      PROVE  db' = db
  <2>1. CASE Ending(p)
    BY <2>1, <1>5, EndingIsWhole DEF Apart
  <2> QED BY <2>1, <1>5 DEF Ends
<1>6. FoundStored'
  BY <1>1, <1>5, LeaveFrame DEF FoundStored
<1>7. Whole'
  <2> SUFFICES ASSUME NEW d \in Calls, d \notin shared'
               PROVE  /\ outcome'[d] = "new" => Rows[d] \intersect db' = {}
                      /\ Rows[d] \subseteq db' \/ Rows[d] \intersect db' = {}
    BY DEF Whole, Rows
  <2>1. /\ outcome[d] = "new" => Rows[d] \intersect db = {}
        /\ Rows[d] \subseteq db \/ Rows[d] \intersect db = {}
    BY <1>1 DEF Whole
  <2>2. CASE d = c
    <3>1. outcome[d] = "new" /\ outcome'[d] = how
      BY <2>2, <1>1, LeaveFrame
    <3>2. CASE db' = db
      BY <3>1, <3>2, <2>1
    <3>3. CASE db' = db \union txn.rows /\ Ending(p) /\ txn.status # "closed"
      <4>1. txn.rows = Rows[d]
        BY <3>3, <2>2, <1>1, EndingIsWhole DEF OwnTxn
      <4> QED BY <3>1, <3>3, <4>1
    <3> QED BY <3>2, <3>3 DEF Ends
  <2>3. CASE d # c
    <3>1. outcome'[d] = outcome[d]
      BY <2>3, <1>1, LeaveFrame
    <3>2. CASE db' = db
      BY <3>1, <3>2, <2>1
    <3>3. CASE db' = db \union txn.rows /\ Ending(p) /\ txn.status # "closed"
      <4>1. ASSUME NEW r \in txn.rows, r \in Rows[d] PROVE FALSE
        <5>1. PICK q \in Callers : Mid(q) /\ r \in Written(q)
          BY <4>1 DEF TxnRows
        <5>2. call[q] \in Calls /\ r \in Rows[call[q]]
          BY <5>1 DEF Mid, Running, TypeOK, Written
        <5>3. call[q] = d
          BY <5>2, <4>1, RowsApart
        <5>4. q # p /\ Mid(p)
          BY <5>3, <2>3, <3>3, EndingIsWhole
        <5> QED BY <5>1, <5>3, <5>4, <1>1 DEF Apart
      <4>2. Rows[d] \intersect db' = Rows[d] \intersect db
        BY <3>3, <4>1
      <4> QED BY <4>2, <3>1, <2>1
    <3> QED BY <3>2, <3>3 DEF Ends
  <2> QED BY <2>2, <2>3
<1>8. Kept'
  <2>1. ASSUME NEW q \in Callers, Mid(q)', txn'.status # "closed"
        PROVE  Written(q)' \subseteq db' \union txn'.rows \/ call'[q] \in undone'
    <3>1. /\ q # p /\ Mid(q) /\ call'[q] = call[q] /\ Written(q)' = Written(q)
      BY <2>1, <1>1, LeaveFrame
    <3>2. CASE txn.status = "closed"
      BY <3>2, <2>1 DEF Ends
    <3>3. CASE txn.status # "closed"
      <4>1. Written(q) \subseteq db \union txn.rows \/ call[q] \in undone
        BY <3>1, <3>3 DEF Kept
      <4>2. CASE db' = db \union txn.rows
        BY <4>1, <4>2, <3>1, <1>1
      <4>3. CASE Thrown(p) \subseteq undone'
        <5>1. CASE Rows[call[q]] \intersect txn.rows = {}
          BY <5>1, <4>1, <3>1, <1>1 DEF Written
        <5>2. CASE Rows[call[q]] \intersect txn.rows # {}
          <6>1. call[q] \in Thrown(p)
            BY <5>2, <3>1 DEF Thrown, Met
          <6> QED BY <6>1, <4>3, <3>1
        <5> QED BY <5>1, <5>2
      <4> QED BY <4>2, <4>3, <2>1 DEF Ends
    <3> QED BY <3>2, <3>3
  <2>2. ASSUME NEW d \in Calls, outcome'[d] = "returned"
        PROVE  Rows[d] \subseteq db' \/ d \in undone'
    <3>1. CASE d # c
      <4>1. outcome[d] = "returned"
        BY <2>2, <3>1, <1>1, LeaveFrame
      <4> QED BY <4>1, <1>1 DEF Kept
    <3>2. CASE d = c
      <4>1. how = "returned"
        BY <2>2, <3>2, <1>1, LeaveFrame
      <4>2. /\ Ending(p) /\ txn.status # "closed"
            /\ db' = db \union txn.rows \/ Rows[c] = {}
        BY <4>1 DEF Ends
      <4>3. Rows[c] \subseteq db \union txn.rows \/ c \in undone
        BY <4>2, EndingIsWhole DEF Kept
      <4> QED BY <4>2, <4>3, <3>2, <1>1
    <3> QED BY <3>1, <3>2
  <2> QED BY <2>1, <2>2 DEF Kept, Rows
<1>9. Answers'
  <2> SUFFICES ASSUME NEW d \in Reads, d \notin shared', outcome'[d] = "returned"
               PROVE  answer'[d] \subseteq db'
    BY DEF Answers
  <2>0. d \in Calls /\ c \in Calls
    BY CallsAssumption, <1>1, LeaveFrame
  <2>1. CASE d # c
    <3>1. outcome[d] = "returned" /\ answer'[d] = answer[d]
      BY <2>0, <2>1, <1>1, LeaveFrame DEF Ends, TypeOK
    <3> QED BY <3>1, <1>1 DEF Answers
  <2>2. CASE d = c
    <3>1. how = "returned" /\ Mid(p)
      BY <2>0, <2>2, <1>1, LeaveFrame, EndingIsWhole DEF Ends
    <3>2. answer'[d] = found[p]
      BY <2>0, <2>2, <3>1 DEF Ends, TypeOK
    <3>3. found[p] = db
      BY <2>2, <3>1, <1>1 DEF FoundStored
    <3> QED BY <3>2, <3>3, <1>1
  <2> QED BY <2>1, <2>2
<1> QED BY <1>2, <1>3, <1>4, <1>6, <1>7, <1>8, <1>9

(* The types alone are inductive.                                          *)
LEMMA TypeStep == TypeOK /\ [Next]_vars => TypeOK'
<1> SUFFICES ASSUME TypeOK, [Next]_vars PROVE TypeOK'
  OBVIOUS
<1>0. Err => errors' \in 0 .. MaxErrors
  BY CallsAssumption DEF TypeOK, Err
<1>00. ASSUME NEW p \in Callers
       PROVE  Met(p) \subseteq Calls /\ Thrown(p) \subseteq Calls
  BY DEF TypeOK, Met, Thrown, Mid, Running
<1>1. ASSUME NEW p \in Callers, NEW c \in Calls, Begin(p, c) PROVE TypeOK'
  BY <1>1, CallsAssumption DEF Begin, TypeOK, Running, results, history
<1>2. ASSUME NEW p \in Callers, Execute(p) PROVE TypeOK'
  <2>1. /\ call[p] \in Calls /\ done[p] + 1 <= Statements[call[p]]
        /\ Statements[call[p]] \in 1 .. 2 /\ done[p] \in 0 .. 2
    BY <1>2, CallsAssumption DEF Execute, Executing, Running, TypeOK
  <2>2. Rows[call[p]] \subseteq AllRows
    BY <2>1, RowsOf
  <2>3. txn' \in [status : {"idle", "open", "failed", "closed"}, rows : SUBSET AllRows]
    BY <1>2, <2>2 DEF Execute, TypeOK
  <2>4. done' \in [Callers -> 0 .. 2]
    BY <1>2, <2>1 DEF Execute, TypeOK
  <2>5. \A q \in Callers :
          done'[q] > 0 => call'[q] # NoCall /\ done'[q] <= Statements[call'[q]]
    BY <1>2, <2>1, CallsAssumption DEF Execute, TypeOK, Running
  <2>6. found' \in [Callers -> SUBSET AllRows]
    BY <1>2 DEF Execute, TypeOK
  <2>7. shared' \subseteq Calls
    BY <1>00, <1>2, <2>1 DEF Execute, TypeOK
  <2> QED BY <1>2, <2>3, <2>4, <2>5, <2>6, <2>7 DEF Execute, TypeOK, Running, results
<1>3. ASSUME NEW p \in Callers, StatementFails(p) \/ Refused(p) \/ EndFails(p)
      PROVE  TypeOK'
  <2>1. Running(p) /\ Leave(p, "raised")
    BY <1>3 DEF StatementFails, Refused, EndFails, Executing, Ending, Raise
  <2>2. Failed \in [status : {"idle", "open", "failed", "closed"}, rows : SUBSET AllRows]
    BY DEF Failed
  <2>3. shared' \subseteq Calls /\ undone' \subseteq Calls
    BY <1>00, <1>3 DEF StatementFails, Refused, EndFails, ThrowAway, history, TypeOK
  <2> QED BY <1>0, <1>3, <2>1, <2>2, <2>3, LeaveTyped
          DEF StatementFails, Refused, EndFails, Raise, TypeOK
<1>4. ASSUME NEW p \in Callers, Commit(p) \/ EndRead(p) PROVE TypeOK'
  <2>1. Running(p) /\ Leave(p, "returned") /\ call[p] \in Calls
    BY <1>4 DEF Commit, EndRead, Ending, Running, TypeOK
  <2>2. Idle \in [status : {"idle", "open", "failed", "closed"}, rows : SUBSET AllRows]
    BY DEF Idle
  <2>3. db' \subseteq AllRows
    BY <1>4 DEF Commit, EndRead, TypeOK
  <2>4. answer' \in [Calls -> (SUBSET AllRows) \union {NoAnswer}]
    BY <1>4, <2>1 DEF Commit, EndRead, TypeOK
  <2>5. shared' \subseteq Calls /\ undone' \subseteq Calls
    BY <1>00, <1>4 DEF Commit, EndRead, history, TypeOK
  <2> QED BY <1>4, <2>1, <2>2, <2>3, <2>4, <2>5, LeaveTyped DEF Commit, EndRead, TypeOK
<1>5. ASSUME NEW p \in Callers, Rescue(p) PROVE TypeOK'
  BY <1>00, <1>5 DEF Rescue, ThrowAway, TypeOK, Running, results, Idle
<1>6. ASSUME NEW p \in Callers, CommitCut(p) PROVE TypeOK'
  <2>1. Running(p) /\ Leave(p, "raised")
    BY <1>6 DEF CommitCut, Ending, Raise
  <2>2. Closed \in [status : {"idle", "open", "failed", "closed"}, rows : SUBSET AllRows]
    BY DEF Closed
  <2>3. db' \subseteq AllRows
    BY <1>6 DEF CommitCut, TypeOK
  <2> QED BY <1>0, <1>6, <2>1, <2>2, <2>3, LeaveTyped
          DEF CommitCut, Raise, history, TypeOK
<1>7. CASE ConnectionLost \/ ServerTimeout
  <2>1. Closed \in [status : {"idle", "open", "failed", "closed"}, rows : SUBSET AllRows]
    BY DEF Closed
  <2> QED BY <1>0, <1>7, <2>1
          DEF ConnectionLost, ServerTimeout, TypeOK, Running, callers, results, history
<1>8. CASE UNCHANGED vars
  BY <1>8 DEF vars, TypeOK, Running, callers, results, history
<1> QED BY <1>1, <1>2, <1>3, <1>4, <1>5, <1>6, <1>7, <1>8 DEF Next, Step

(* The steps a call ends in, but for a failed statement, all end it so.     *)
LEMMA EndingSteps ==
  ASSUME SInv, TypeOK', NEW p \in Callers,
         Refused(p) \/ EndFails(p) \/ Commit(p) \/ CommitCut(p) \/ EndRead(p)
  PROVE  \E how \in {"returned", "raised"} :
           /\ Ends(p, how) /\ shared' = shared
           /\ how = "raised" => answer' = answer
           /\ call[p] \notin Reads => answer' = answer
<1> USE DEF SInv
<1>0. shared' \in SUBSET Calls /\ undone' \in SUBSET Calls
  BY DEF TypeOK
<1>1. ASSUME Refused(p) \/ EndFails(p)
      PROVE  Ends(p, "raised") /\ shared' = shared /\ answer' = answer
  <2>1. /\ Running(p) /\ Leave(p, "raised") /\ txn.status \notin {"idle", "open"}
        /\ UNCHANGED <<db, txn, answer, shared, undone>>
        /\ rescuing' \subseteq rescuing \union {p}
    BY <1>1 DEF Refused, EndFails, Executing, Ending, Usable, Raise, history
  <2>2. txn.rows = {}
    BY <2>1 DEF TxnRows
  <2>3. \A q \in Callers : Mid(q) /\ call[q] \notin shared => txn.status = "closed"
    BY <2>1 DEF OwnTxn
  <2>4. txn' \in [status : {"idle", "open", "failed", "closed"}, rows : {{}}]
    BY <2>1, <2>2 DEF TypeOK
  <2>5. db' = db \union txn.rows
    BY <2>1, <2>2
  <2>6. Ends(p, "raised")
    BY <1>0, <2>1, <2>3, <2>4, <2>5 DEF Ends
  <2> QED BY <2>1, <2>6
<1>2. ASSUME Commit(p) \/ CommitCut(p)
      PROVE  /\ Ends(p, "returned") \/ Ends(p, "raised")
             /\ shared' = shared /\ answer' = answer
  <2>1. /\ Running(p) /\ Ending(p) /\ txn.status # "closed" /\ Mid(p)
        /\ UNCHANGED <<answer, shared, undone>> /\ rescuing' \subseteq rescuing \union {p}
        /\ txn' = Idle => call[p] \notin Reads
        /\ \/ /\ Leave(p, "returned") /\ txn' = Idle /\ db' = db \union txn.rows
           \/ /\ Leave(p, "raised") /\ txn' = Closed /\ db' \in {db, db \union txn.rows}
    BY <1>2, EndingIsWhole DEF Commit, CommitCut, Ending, Raise, history, Idle, Closed
  <2>2. \A q \in Callers \ {p} : Mid(q) => call[q] \in shared
    BY <2>1 DEF Apart
  <2>3. /\ Idle \in [status : {"idle", "open", "failed", "closed"}, rows : {{}}]
        /\ Closed \in [status : {"idle", "open", "failed", "closed"}, rows : {{}}]
        /\ Closed.status = "closed" /\ Idle # Closed
    BY DEF Idle, Closed
  <2>5. CASE Leave(p, "returned") /\ txn' = Idle /\ db' = db \union txn.rows
    BY <1>0, <2>1, <2>2, <2>3, <2>5 DEF Ends
  <2>6. CASE Leave(p, "raised") /\ txn' = Closed /\ db' \in {db, db \union txn.rows}
    BY <1>0, <2>1, <2>2, <2>3, <2>6 DEF Ends
  <2> QED BY <2>1, <2>5, <2>6
<1>3. ASSUME EndRead(p)
      PROVE  Ends(p, "returned") /\ shared' = shared /\ call[p] \in Reads
  <2>1. /\ Running(p) /\ Ending(p) /\ txn.status # "closed" /\ Mid(p)
        /\ call[p] \in Calls /\ call[p] \in Reads
        /\ shared' = shared /\ Leave(p, "returned") /\ txn' = Idle
        /\ rescuing' = rescuing /\ answer' = [answer EXCEPT ![call[p]] = found[p]]
        /\ \/ db' = db \union txn.rows /\ undone' = undone
           \/ db' = db /\ undone' = undone \union Thrown(p)
    BY <1>3, EndingIsWhole DEF EndRead, Ending
  <2>2. \A q \in Callers \ {p} : Mid(q) => call[q] \in shared
    BY <2>1 DEF Apart
  <2>3. /\ Idle \in [status : {"idle", "open", "failed", "closed"}, rows : {{}}]
        /\ Rows[call[p]] = {}
    BY <2>1, RowsOf DEF Idle
  <2>4. Ends(p, "returned")
    BY <1>0, <2>1, <2>2, <2>3 DEF Ends, TypeOK
  <2> QED BY <2>1, <2>4
<1> QED BY <1>1, <1>2, <1>3

LEMMA SInvStep ==
  ASSUME SInv, [Next]_vars
  PROVE  SInv'
<1> USE DEF SInv
<1>0. TypeOK'
  BY TypeStep
<1>1. CASE UNCHANGED vars
  BY <1>0, <1>1 DEF vars, callers, results, history, Rescued, Unfinished, Apart, TxnRows, OwnTxn,
              Written, FoundStored, Whole, Kept, Answers, Running, Mid, Rows
<1>2. ASSUME NEW p \in Callers, NEW c \in Calls, Begin(p, c) PROVE SInv'
  <2>1. /\ ~Running(p) /\ outcome[c] = "new" /\ Owner[c] = p /\ done[p] = 0
        /\ call' = [call EXCEPT ![p] = c]
        /\ p \notin rescuing
        /\ UNCHANGED <<db, txn, done, rescuing, found, outcome, answer, shared, undone>>
    BY <1>2 DEF Begin, results, history, TypeOK
  <2>2. ASSUME NEW q \in Callers
        PROVE  /\ Mid(q)' <=> Mid(q)
               /\ Mid(q) => call'[q] = call[q] /\ Written(q)' = Written(q)
    BY <2>1 DEF Mid, Running, Written, Rows, TypeOK
  <2>3. Unfinished' /\ Rescued'
    BY <2>1 DEF Unfinished, Rescued, Running, TypeOK
  <2>4. TxnRows'
    BY <2>1, <2>2 DEF TxnRows
  <2>5. Apart' /\ OwnTxn' /\ FoundStored' /\ Whole' /\ Kept' /\ Answers'
    BY <2>1, <2>2 DEF Apart, OwnTxn, FoundStored, Whole, Kept, Answers, Rows
  <2> QED BY <1>0, <2>3, <2>4, <2>5
<1>3. ASSUME NEW p \in Callers, Execute(p) PROVE SInv'
  <2>1. /\ Running(p) /\ call[p] \in Calls /\ done[p] < Statements[call[p]]
        /\ done[p] \in Nat /\ Statements[call[p]] \in 1 .. 2 /\ Usable
        /\ UNCHANGED <<db, call, rescuing, outcome, answer, undone>>
        /\ done' = [done EXCEPT ![p] = @ + 1]
        /\ found' = [found EXCEPT ![p] = db \union txn.rows]
        /\ shared \subseteq shared'
    BY <1>3, CallsAssumption DEF Execute, Executing, Running, TypeOK, results
  <2>2. /\ txn'.status = "open"
        /\ txn'.rows = txn.rows \union {r \in Rows[call[p]] : r[2] = done[p] + 1}
    BY <1>3 DEF Execute
  <2>3. /\ Mid(p)' /\ done'[p] = done[p] + 1
        /\ \A q \in Callers \ {p} :
             /\ Mid(q)' <=> Mid(q)
             /\ Written(q)' = Written(q) /\ found'[q] = found[q]
    BY <2>1 DEF Mid, Running, Written, Rows, TypeOK
  <2>4. Written(p)' = Written(p) \union {r \in Rows[call[p]] : r[2] = done[p] + 1}
    BY <2>1, <2>3, RowsOf DEF Written, Rows
  <2>5. ASSUME NEW q \in Callers \ {p}, Mid(q)
        PROVE  call[q] \in shared' /\ call[p] \in shared'
    <3>1. call[q] \in Met(p)
      BY <2>5 DEF Met
    <3> QED BY <3>1, <1>3 DEF Execute
  <2>6. Unfinished' /\ Rescued'
    BY <2>1 DEF Unfinished, Rescued, Running
  <2>7. Apart'
    <3> SUFFICES ASSUME NEW q \in Callers, NEW r \in Callers, q # r, Mid(q)', Mid(r)'
                 PROVE  call'[q] \in shared'
      BY DEF Apart
    <3>1. CASE q = p
      BY <3>1, <2>1, <2>3, <2>5
    <3>2. CASE q # p
      BY <3>2, <2>1, <2>3, <2>5
    <3> QED BY <3>1, <3>2
  <2>8. TxnRows'
    <3> SUFFICES ASSUME NEW r \in txn'.rows
                 PROVE  \E q \in Callers : Mid(q)' /\ r \in Written(q)'
      BY <2>2 DEF TxnRows
    <3>1. CASE r \in {s \in Rows[call[p]] : s[2] = done[p] + 1}
      BY <3>1, <2>3, <2>4
    <3>2. CASE r \in txn.rows
      <4>1. PICK q \in Callers : Mid(q) /\ r \in Written(q)
        BY <3>2 DEF TxnRows
      <4> QED BY <4>1, <2>3, <2>4
    <3> QED BY <3>1, <3>2, <2>2
  <2>9. call[p] \notin shared' /\ ~Mid(p) => txn.rows = {} /\ Written(p) = {}
    <3>1. call[p] \notin shared' /\ ~Mid(p) => \A q \in Callers : ~Mid(q)
      BY <2>5
    <3>2. ~Mid(p) => Written(p) = {}
      BY <2>1, RowsOf DEF Mid, Written
    <3> QED BY <3>1, <3>2 DEF TxnRows
  <2>10. OwnTxn'
    <3> SUFFICES ASSUME NEW q \in Callers, Mid(q)', call[q] \notin shared'
                 PROVE  txn'.rows = Written(q)'
      BY <2>1, <2>2 DEF OwnTxn
    <3>1. q = p
      BY <2>3, <2>5
    <3>2. CASE Mid(p)
      BY <3>1, <3>2, <2>1, <2>2, <2>4 DEF OwnTxn, Usable
    <3>3. CASE ~Mid(p)
      BY <3>1, <3>3, <2>2, <2>4, <2>9
    <3> QED BY <3>2, <3>3
  <2>11. FoundStored'
    <3> SUFFICES ASSUME NEW q \in Callers, Mid(q)', call[q] \in Reads, call[q] \notin shared'
                 PROVE  found'[q] = db
      BY <2>1 DEF FoundStored
    <3>1. q = p
      BY <2>3, <2>5
    <3>2. txn.rows = {}
      <4>1. CASE Mid(p)
        <5>1. txn.rows = Written(p)
          BY <4>1, <3>1, <2>1 DEF OwnTxn, Usable
        <5> QED BY <5>1, <3>1, <2>1, RowsOf DEF Written
      <4>2. CASE ~Mid(p)
        BY <4>2, <3>1, <2>9
      <4> QED BY <4>1, <4>2
    <3> QED BY <3>1, <3>2, <2>1 DEF TypeOK
  <2>12. Whole' /\ Answers'
    BY <2>1 DEF Whole, Answers, Rows
  <2>13. Kept'
    <3>1. ASSUME NEW q \in Callers, Mid(q)'
          PROVE  Written(q)' \subseteq db \union txn'.rows \/ call[q] \in undone
      <4>1. CASE q # p
        BY <4>1, <3>1, <2>1, <2>2, <2>3 DEF Kept, Usable
      <4>2. CASE q = p /\ Mid(p)
        BY <4>2, <2>1, <2>2, <2>4 DEF Kept, Usable
      <4>3. CASE q = p /\ ~Mid(p)
        <5>1. Written(p) = {}
          BY <4>3, <2>1, RowsOf DEF Mid, Written
        <5> QED BY <5>1, <4>3, <2>2, <2>4
      <4> QED BY <4>1, <4>2, <4>3
    <3>2. \A d \in Calls : outcome'[d] = "returned" => Rows[d] \subseteq db' \/ d \in undone'
      BY <2>1 DEF Kept
    <3> QED BY <3>1, <3>2, <2>1 DEF Kept, Rows
  <2> QED BY <1>0, <2>6, <2>7, <2>8, <2>10, <2>11, <2>12, <2>13
<1>4. ASSUME NEW p \in Callers, StatementFails(p) PROVE SInv'
  <2>1. /\ Running(p) /\ Leave(p, "raised") /\ UNCHANGED <<db, answer>> /\ Usable
        /\ txn' = Failed /\ ThrowAway(p)
    BY <1>4 DEF StatementFails, Executing, Raise
  <2>0. rescuing' \subseteq rescuing \union {p}
    BY <1>4 DEF StatementFails, Raise
  <2>2. \A q \in Callers \ {p} : Mid(q) => call[q] \in shared'
    BY <2>1 DEF ThrowAway, Met
  <2>4. /\ txn' \in [status : {"idle", "open", "failed", "closed"}, rows : {{}}]
        /\ txn.status # "closed"
    BY <2>1 DEF Failed, Usable
  <2>5. /\ shared' \in SUBSET Calls /\ undone' \in SUBSET Calls
        /\ shared \subseteq shared' /\ undone \subseteq undone'
        /\ Thrown(p) \subseteq undone'
    BY <1>0, <2>1 DEF ThrowAway, TypeOK
  <2>3. Ends(p, "raised")
    BY <2>0, <2>1, <2>2, <2>4, <2>5 DEF Ends
  <2> QED BY <1>0, <2>3, EndsKeeps
<1>5. ASSUME NEW p \in Callers,
             Refused(p) \/ EndFails(p) \/ Commit(p) \/ CommitCut(p) \/ EndRead(p)
      PROVE  SInv'
  <2>1. \E how \in {"returned", "raised"} : Ends(p, how)
    BY <1>0, <1>5, EndingSteps
  <2> QED BY <1>0, <2>1, EndsKeeps
<1>8. ASSUME NEW p \in Callers, Rescue(p) PROVE SInv'
  <2>1. /\ UNCHANGED <<db, call, done, found, outcome, answer>>
        /\ txn' = IF txn.status = "closed" THEN txn ELSE Idle
        /\ shared' = shared \union Met(p) /\ undone' = undone \union Thrown(p)
        /\ p \in rescuing /\ rescuing' = rescuing \ {p}
    BY <1>8 DEF Rescue, ThrowAway, results
  <2>2. ASSUME NEW q \in Callers
        PROVE  /\ (Mid(q)' <=> Mid(q)) /\ (Running(q)' <=> Running(q))
               /\ Written(q)' = Written(q) /\ call'[q] = call[q]
    BY <2>1 DEF Mid, Running, Written, Rows
  <2>3. ~Mid(p)
    BY <2>1 DEF Rescued, Mid
  <2>4. ASSUME NEW q \in Callers, Mid(q) PROVE call[q] \in shared'
    BY <2>1, <2>3, <2>4 DEF Met
  <2>5. /\ txn.status = "closed" => txn' = txn
        /\ txn.status # "closed" => txn'.rows = {} /\ txn'.status = "idle"
    BY <2>1 DEF Idle
  <2>6. Rescued' /\ Unfinished' /\ Apart' /\ Whole' /\ Answers'
    BY <2>1, <2>2, <2>4 DEF Rescued, Unfinished, Apart, Whole, Answers, Rows
  <2>7. TxnRows' /\ OwnTxn' /\ FoundStored'
    BY <2>1, <2>2, <2>4, <2>5 DEF TxnRows, OwnTxn, FoundStored
  <2>8. ASSUME NEW q \in Callers, Mid(q), txn.status # "closed"
        PROVE  Written(q) \subseteq db \/ call[q] \in undone'
    <3>1. Written(q) \subseteq db \union txn.rows \/ call[q] \in undone
      BY <2>8 DEF Kept
    <3>2. CASE Rows[call[q]] \intersect txn.rows = {}
      BY <3>1, <3>2, <2>1 DEF Written
    <3>3. CASE Rows[call[q]] \intersect txn.rows # {}
      BY <3>3, <2>1, <2>3, <2>8 DEF Thrown, Met
    <3> QED BY <3>2, <3>3
  <2>9. Kept'
    BY <2>1, <2>2, <2>5, <2>8 DEF Kept, Rows
  <2> QED BY <1>0, <2>6, <2>7, <2>9
<1>9. ASSUME ConnectionLost \/ ServerTimeout PROVE SInv'
  <2>1. txn' = Closed /\ UNCHANGED <<db, callers, outcome, answer, shared, undone>>
    BY <1>9 DEF ConnectionLost, ServerTimeout, callers, results, history
  <2>2. /\ \A q \in Callers : (Mid(q)' <=> Mid(q)) /\ (Running(q)' <=> Running(q))
        /\ \A q \in Callers : Written(q)' = Written(q)
        /\ txn'.status = "closed" /\ txn'.rows = {}
    BY <2>1 DEF callers, Mid, Running, Written, Rows, Closed
  <2>3. Rescued' /\ Unfinished' /\ Apart' /\ TxnRows' /\ OwnTxn' /\ FoundStored'
    BY <2>1, <2>2 DEF callers, Rescued, Unfinished, Apart, TxnRows, OwnTxn, FoundStored
  <2>4. Whole' /\ Kept' /\ Answers'
    BY <2>1, <2>2 DEF Whole, Kept, Answers, Rows
  <2> QED BY <1>0, <2>3, <2>4
<1> QED BY <1>1, <1>2, <1>3, <1>4, <1>5, <1>8, <1>9 DEF Next, Step

(* The invariant, whatever calls run into each other and whatever fails,   *)
(* for any number of calls and callers.                                    *)
THEOREM StoreInvariant == Spec => []SInv
<1>1. Init => SInv
  BY SInvInit
<1>2. SInv /\ [Next]_vars => SInv'
  BY SInvStep
<1> QED BY <1>1, <1>2, PTL DEF Spec

(* DD-5: an article and its audit row are stored together or not at all,   *)
(* unless their transaction was shared with another caller's call.         *)
THEOREM PairedWrites == Spec => []PairsTogether
<1>1. SInv => PairsTogether
  BY DEF SInv, Whole, PairsTogether
<1> QED BY <1>1, StoreInvariant, PTL

(* A write whose call returned is stored, or another caller's rollback,    *)
(* read or failed statement came between its statements and its commit:    *)
(* the overlap that cursor's comment calls safe is the only silent loss.   *)
THEOREM NoOtherWriteLost == Spec => []LostOnlyToRollback
<1>1. SInv => LostOnlyToRollback
  BY DEF SInv, Kept, LostOnlyToRollback
<1> QED BY <1>1, StoreInvariant, PTL

-----------------------------------------------------------------------------
(* The abstract store sees a step that only finds calls to share their     *)
(* transaction, those of S, while those of R raise.                        *)
LEMMA SharesStep ==
  ASSUME SInv, NEW S \in SUBSET Calls, NEW R \in SUBSET Calls,
         \A c \in S \union R : outcome[c] = "new",
         S \intersect R = {}, shared' = shared \union S, UNCHANGED <<db, answer>>,
         outcome' = [c \in Calls |-> IF c \in R THEN "raised" ELSE outcome[c]]
  PROVE  Store!Next
<1> USE DEF SInv
<1>1. Promised(db)' = Promised(db)
  <2>1. ASSUME NEW r \in db, r[1] \in S PROVE r[1] \in shared
    <3>1. PICK c \in Calls : r \in Rows[c]
      BY DEF TypeOK, AllRows
    <3>2. r[1] = c
      BY <3>1, RowsOf
    <3> QED BY <2>1, <3>1, <3>2 DEF Whole
  <2> QED BY <2>1 DEF Promised
<1>2. ASSUME NEW c \in Calls
      PROVE  /\ (IF c \in shared THEN "shared" ELSE outcome[c])' =
                  IF c \in R \ shared THEN "raised"
                  ELSE IF c \in S \ shared THEN "shared"
                  ELSE IF c \in shared THEN "shared" ELSE outcome[c]
             /\ (IF c \in Reads \ shared /\ outcome[c] = "returned"
                 THEN Promised(answer[c]) ELSE NoAnswer)' =
                IF c \in Reads \ shared /\ outcome[c] = "returned"
                THEN Promised(answer[c]) ELSE NoAnswer
  <2>1. (IF c \in shared THEN "shared" ELSE outcome[c])' =
          IF c \in R \ shared THEN "raised"
          ELSE IF c \in S \ shared THEN "shared"
          ELSE IF c \in shared THEN "shared" ELSE outcome[c]
    OBVIOUS
  <2>2. CASE c \in Reads \ shared /\ outcome[c] = "returned"
    <3>1. c \notin S /\ c \notin R /\ outcome'[c] = "returned" /\ c \in Reads \ shared'
      BY <2>2
    <3>2. answer[c] \subseteq db /\ db' = db /\ answer' = answer
      BY <2>2 DEF Answers
    <3>3. Promised(answer[c]) = Promised(db) \intersect answer[c]
      BY <3>2 DEF Promised
    <3>4. Promised(answer[c])' = Promised(db)' \intersect answer'[c]
      BY <3>2 DEF Promised
    <3> QED BY <2>1, <2>2, <3>1, <3>2, <3>3, <3>4, <1>1
  <2>3. CASE ~(c \in Reads \ shared /\ outcome[c] = "returned")
    <3>1. ~(c \in Reads \ shared' /\ outcome'[c] = "returned")
      BY <2>3
    <3> QED BY <2>1, <2>3, <3>1
  <2> QED BY <2>2, <2>3
<1>3. PICK V \in SUBSET Calls, W \in SUBSET Calls : V = S \ shared /\ W = R \ shared
  OBVIOUS
<1>4. Store!Share(V, W)
  <2>1. Store!New(V \union W)
    BY <1>3 DEF Store!New
  <2> QED BY <1>1, <1>2, <1>3, <2>1 DEF Store!Share
<1>5. \E X, Y \in SUBSET Calls : Store!Share(X, Y)
  BY <1>4
<1> QED BY <1>5 DEF Store!Next

(* It sees a call that ends: its own if it shares nothing, else nothing.   *)
LEMMA EndsStep ==
  ASSUME SInv, NEW p \in Callers, NEW how \in {"returned", "raised"}, Ends(p, how),
         NEW c \in Calls, c = call[p], shared' = shared, how = "raised" => answer' = answer,
         call[p] \notin Reads => answer' = answer
  PROVE  Store!Next \/ UNCHANGED <<Promised(db),
           [d \in Calls |-> IF d \in shared THEN "shared" ELSE outcome[d]],
           [d \in Calls |-> IF d \in Reads \ shared /\ outcome[d] = "returned"
                            THEN Promised(answer[d]) ELSE NoAnswer]>>
<1> DEFINE seen(d) == IF d \in shared THEN "shared" ELSE outcome[d]
           told(d) == IF d \in Reads \ shared /\ outcome[d] = "returned"
                      THEN Promised(answer[d]) ELSE NoAnswer
<1> USE DEF SInv
<1>1. /\ c \in Calls /\ outcome[c] = "new" /\ outcome'[c] = how
      /\ \A d \in Calls \ {c} : outcome'[d] = outcome[d] /\ answer'[d] = answer[d]
  BY LeaveFrame DEF Ends, TypeOK
<1>2. ASSUME NEW d \in Calls \ {c} PROVE seen(d)' = seen(d) /\ told(d)' = told(d)
  BY <1>1 DEF Promised
<1>3. CASE c \in shared
  <2>1. Promised(db') = Promised(db)
    <3>1. CASE db' = db
      BY <3>1
    <3>2. CASE db' = db \union txn.rows /\ Ending(p)
      <4>1. ASSUME NEW r \in txn.rows PROVE r[1] \in shared
        <5>1. PICK q \in Callers : Mid(q) /\ r \in Written(q)
          BY <4>1 DEF TxnRows
        <5>2. call[q] \in Calls /\ r[1] = call[q]
          BY <5>1, RowsOf DEF Mid, Running, TypeOK, Written
        <5> QED BY <5>1, <5>2, <3>2, <1>3, EndingIsWhole DEF Apart
      <4> QED BY <3>2, <4>1 DEF Promised
    <3> QED BY <3>1, <3>2 DEF Ends
  <2>2. Promised(db)' = Promised(db)
    BY <2>1 DEF Promised
  <2>3. seen(c)' = seen(c) /\ told(c)' = told(c)
    BY <1>3
  <2>4. \A d \in Calls : seen(d)' = seen(d) /\ told(d)' = told(d)
    BY <1>2, <2>3
  <2> QED BY <2>2, <2>4
<1>4. CASE c \notin shared
  <2>1. seen(c) = "new" /\ seen(c)' = how
    BY <1>1, <1>4
  <2>2. Ending(p) /\ txn.status # "closed" => Mid(p) /\ txn.rows = Rows[c]
    BY <1>4, EndingIsWhole DEF OwnTxn
  <2>3. Promised(db \union Rows[c]) = Promised(db) \union Rows[c]
    BY <1>1, <1>4, RowsOf DEF Promised
  <2>4. [d \in Calls |-> seen(d)]' = [[d \in Calls |-> seen(d)] EXCEPT ![c] = how]
    BY <1>1, <1>2, <2>1
  <2>5. Store!End(c, how)
    BY <1>1, <2>1, <2>4 DEF Store!End, Store!New
  <2>6. CASE c \in Reads /\ how = "returned"
    <3>1. Rows[c] = {} /\ db' = db /\ Mid(p)
      BY <2>2, <2>6, <1>1, RowsOf DEF Ends
    <3>2. answer'[c] = db
      BY <3>1, <2>6, <1>1, <1>4 DEF Ends, FoundStored, TypeOK
    <3>3. told(c)' = Promised(db) /\ Promised(db)' = Promised(db)
      BY <3>1, <3>2, <2>6, <1>1, <1>4 DEF Promised
    <3>4. Store!Read(c)
      BY <1>1, <1>2, <2>5, <2>6, <3>1, <3>3 DEF Store!Read
    <3> QED BY <3>4, <1>1 DEF Store!Next
  <2>7. CASE ~(c \in Reads /\ how = "returned")
    <3>1. told(c)' = told(c)
      BY <2>7, <1>1, <1>4
    <3>2. \A d \in Calls : told(d)' = told(d)
      BY <3>1, <1>2
    <3>3. CASE db' = db
      <4>1. Promised(db)' = Promised(db)
        BY <3>3 DEF Promised
      <4>2. CASE how = "raised"
        BY <1>1, <2>5, <3>2, <4>1, <4>2 DEF Store!Raise, Store!Next
      <4>3. CASE how = "returned"
        <5>1. Rows[c] \subseteq db /\ Rows[c] # {}
          <6>1. c \notin Reads
            BY <2>7, <4>3
          <6>2. <<c, 1>> \in Rows[c]
            BY <6>1, <1>1, RowsOf, CallsAssumption
          <6> QED BY <6>2, <2>2, <4>3, <3>3 DEF Ends
        <5>2. Promised(db)' = Promised(db) \union Rows[c]
          BY <5>1, <2>3, <4>1
        <5> QED BY <1>1, <2>5, <3>2, <4>3, <5>1, <5>2 DEF Store!Write, Store!Next
      <4> QED BY <4>2, <4>3
    <3>4. CASE db' = db \union txn.rows /\ Ending(p) /\ txn.status # "closed"
      <4>1. Promised(db)' = Promised(db) \union Rows[c]
        BY <3>4, <2>2, <2>3 DEF Promised
      <4>2. CASE how = "raised"
        BY <1>1, <2>5, <3>2, <4>1, <4>2 DEF Store!CommitUnknown, Store!Next
      <4>3. CASE how = "returned"
        <5>1. c \notin Reads
          BY <2>7, <4>3
        <5>2. <<c, 1>> \in Rows[c]
          BY <5>1, <1>1, RowsOf, CallsAssumption
        <5> QED BY <1>1, <2>5, <3>2, <4>1, <4>3, <5>2 DEF Store!Write, Store!Next
      <4> QED BY <4>2, <4>3
    <3> QED BY <3>3, <3>4 DEF Ends
  <2> QED BY <2>6, <2>7
<1> QED BY <1>3, <1>4

(* Whatever the connection does, the abstract store makes a step of its    *)
(* own or none.                                                            *)
Stutters == UNCHANGED <<Promised(db),
              [c \in Calls |-> IF c \in shared THEN "shared" ELSE outcome[c]],
              [c \in Calls |-> IF c \in Reads \ shared /\ outcome[c] = "returned"
                               THEN Promised(answer[c]) ELSE NoAnswer]>>

LEMMA StoreStep ==
  ASSUME SInv, [Next]_vars
  PROVE  Store!Next \/ Stutters
<1> USE DEF SInv
<1>1. ASSUME UNCHANGED <<db, outcome, answer, shared>> PROVE Stutters
  BY <1>1 DEF Stutters, Promised
<1>2. ASSUME NEW p \in Callers, Execute(p) PROVE Store!Next \/ Stutters
  <2>1. /\ UNCHANGED <<db, outcome, answer>> /\ Running(p)
        /\ shared' = IF Met(p) = {} THEN shared ELSE shared \union Met(p) \union {call[p]}
    BY <1>2 DEF Execute, Executing, results
  <2>2. CASE Met(p) = {}
    BY <2>1, <2>2, <1>1
  <2>3. CASE Met(p) # {}
    <3>1. PICK S \in SUBSET Calls, R \in SUBSET Calls :
            S = Met(p) \union {call[p]} /\ R = {}
      BY <2>1 DEF Met, Mid, Running, TypeOK
    <3>2. (\A c \in S \union R : outcome[c] = "new") /\ S \intersect R = {}
      BY <3>1, <2>1 DEF Met, Mid, Unfinished
    <3>3. outcome' = [c \in Calls |-> IF c \in R THEN "raised" ELSE outcome[c]]
      BY <2>1, <3>1 DEF TypeOK
    <3>4. shared' = shared \union S
      BY <2>1, <2>3, <3>1
    <3> QED BY <2>1, <3>2, <3>3, <3>4, SharesStep
  <2> QED BY <2>2, <2>3
<1>3. ASSUME NEW p \in Callers, StatementFails(p) PROVE Store!Next \/ Stutters
  <2>1. /\ UNCHANGED <<db, answer>> /\ Running(p) /\ Leave(p, "raised")
        /\ shared' = shared \union Met(p)
    BY <1>3 DEF StatementFails, Executing, Raise, ThrowAway
  <2>2. PICK S \in SUBSET Calls, R \in SUBSET Calls : S = Met(p) /\ R = {call[p]}
    BY <2>1 DEF Met, Mid, Running, TypeOK
  <2>3. \A c \in S \union R : outcome[c] = "new"
    BY <2>1, <2>2 DEF Met, Mid, Unfinished
  <2>4. S \intersect R = {}
    BY <2>1, <2>2 DEF Met, Mid, Unfinished
  <2>5. outcome' = [c \in Calls |-> IF c \in R THEN "raised" ELSE outcome[c]]
    BY <2>1, <2>2 DEF Leave, TypeOK
  <2>6. shared' = shared \union S
    BY <2>1, <2>2
  <2> QED BY <2>1, <2>3, <2>4, <2>5, <2>6, SharesStep
<1>4. ASSUME NEW p \in Callers, Rescue(p) PROVE Store!Next \/ Stutters
  <2>1. UNCHANGED <<db, outcome, answer>> /\ shared' = shared \union Met(p)
    BY <1>4 DEF Rescue, ThrowAway, results
  <2>2. PICK S \in SUBSET Calls, R \in SUBSET Calls : S = Met(p) /\ R = {}
    BY DEF Met, Mid, Running, TypeOK
  <2>3. (\A c \in S \union R : outcome[c] = "new") /\ S \intersect R = {}
    BY <2>2 DEF Met, Mid, Unfinished
  <2>4. outcome' = [c \in Calls |-> IF c \in R THEN "raised" ELSE outcome[c]]
    BY <2>1, <2>2 DEF TypeOK
  <2>5. shared' = shared \union S
    BY <2>1, <2>2
  <2> QED BY <2>1, <2>3, <2>4, <2>5, SharesStep
<1>5. ASSUME NEW p \in Callers, NEW how \in {"returned", "raised"}, Ends(p, how),
             shared' = shared, how = "raised" => answer' = answer,
             call[p] \notin Reads => answer' = answer
      PROVE  Store!Next \/ Stutters
  <2>1. PICK c \in Calls : c = call[p]
    BY <1>5 DEF Ends, Running, TypeOK
  <2> QED BY <1>5, <2>1, EndsStep DEF Stutters
<1>6. ASSUME NEW p \in Callers,
             Refused(p) \/ EndFails(p) \/ Commit(p) \/ CommitCut(p) \/ EndRead(p)
      PROVE  Store!Next \/ Stutters
  <2>0. TypeOK'
    BY TypeStep
  <2>1. \E how \in {"returned", "raised"} :
          /\ Ends(p, how) /\ shared' = shared
          /\ how = "raised" => answer' = answer
          /\ call[p] \notin Reads => answer' = answer
    BY <1>6, <2>0, EndingSteps
  <2> QED BY <2>1, <1>5
<1>7. ASSUME NEW p \in Callers, NEW c \in Calls, Begin(p, c) PROVE Stutters
  BY <1>7, <1>1 DEF Begin, results, history
<1>8. CASE ConnectionLost \/ ServerTimeout \/ UNCHANGED vars
  BY <1>8, <1>1 DEF ConnectionLost, ServerTimeout, vars, results, history
<1> QED BY <1>2, <1>3, <1>4, <1>6, <1>7, <1>8 DEF Next, Step

(* Any connection implements the atomic store for the calls that have      *)
(* their transactions to themselves, whatever the others do to each other. *)
THEOREM StoreImplemented == Spec => ImplementsStore
<1>1. Init => Store!Init
  BY DEF Init, Store!Init, Promised
<1>2. SInv /\ [Next]_vars => Store!Next \/ Stutters
  BY StoreStep
<1>3. Spec => []SInv
  BY StoreInvariant
<1> QED BY <1>1, <1>2, <1>3, PTL DEF Spec, ImplementsStore, Store!Spec, Stutters

(* Every variable keeps to its type, and a caller has run at most the      *)
(* statements of the call it is in, whether calls overlap or not.          *)
THEOREM StoreTypes == Spec => []TypeOK
<1>1. Init => TypeOK
  BY SInvInit DEF SInv
<1>2. TypeOK /\ [Next]_vars => TypeOK'
  BY TypeStep
<1> QED BY <1>1, <1>2, PTL DEF Spec
=============================================================================
