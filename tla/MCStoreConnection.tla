--------------------------- MODULE MCStoreConnection ---------------------------
(* Instances of StoreConnection for TLC. *)
EXTENDS StoreConnection

CONSTANTS loop, thread, item1, item2, list1, row1, mark1

MCCalls == {item1, item2, list1, row1, mark1}

(* Two callers: one upserts two items, the other makes a read, a cursor's  *)
(* read and a write of one row.                                            *)
MCOwner == [c \in MCCalls |-> IF c \in {item1, item2} THEN loop ELSE thread]

MCStatements == [c \in MCCalls |-> IF c \in {item1, item2} THEN 2 ELSE 1]
=============================================================================
