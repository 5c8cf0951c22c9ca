------------------------------ MODULE AtomicStore ------------------------------
(***************************************************************************)
(* What libs/store's Protocol promises a caller: every call is one step    *)
(* that happens entirely or not at all.  A write that returns has stored   *)
(* all its rows; a read returns what is stored by calls that promise this; *)
(* a call that raises has stored nothing, unless the connection was lost   *)
(* under its commit.  A call that shares its transaction with another      *)
(* caller's is promised nothing.  StoreConnection implements this.         *)
(***************************************************************************)
CONSTANTS Calls, Rows, NoAnswer

VARIABLES
  db,       \* the rows stored
  outcome,  \* of each call
  answer    \* what each read returned

Init == /\ db = {}
        /\ outcome = [c \in Calls |-> "new"]
        /\ answer = [c \in Calls |-> NoAnswer]

New(S) == \A c \in S : outcome[c] = "new"

End(c, how) == /\ New({c})
               /\ outcome' = [outcome EXCEPT ![c] = how]

Write(c) == /\ Rows[c] # {}
            /\ End(c, "returned")
            /\ db' = db \union Rows[c]
            /\ UNCHANGED answer

Read(c) == /\ Rows[c] = {}
           /\ End(c, "returned")
           /\ answer' = [answer EXCEPT ![c] = db]
           /\ UNCHANGED db

Raise(c) == /\ End(c, "raised")
            /\ UNCHANGED <<db, answer>>

CommitUnknown(c) == /\ End(c, "raised")
                    /\ db' = db \union Rows[c]
                    /\ UNCHANGED answer

(* The calls of S turn out to share a transaction, perhaps because one of  *)
(* them, those of R, has raised.                                           *)
Share(S, R) ==
  /\ New(S \union R)
  /\ outcome' = [c \in Calls |-> IF c \in R THEN "raised"
                                ELSE IF c \in S THEN "shared" ELSE outcome[c]]
  /\ UNCHANGED <<db, answer>>

Next == \/ \E c \in Calls : Write(c) \/ Read(c) \/ Raise(c) \/ CommitUnknown(c)
        \/ \E S, R \in SUBSET Calls : Share(S, R)

Spec == Init /\ [][Next]_<<db, outcome, answer>>
=============================================================================
