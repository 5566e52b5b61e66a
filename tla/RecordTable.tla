---------------------------- MODULE RecordTable ----------------------------
(***************************************************************************)
(* What a table file promises: a finite map from record ids to values.     *)
(* insert picks an unused id, delete and update of a missing id do         *)
(* nothing, a read answers with the current value or says there is none.   *)
(***************************************************************************)
EXTENDS Integers

CONSTANTS Rids, Values,
          NoRecord   \* the answer of a read that finds nothing

VARIABLES records,  \* a function from the live Rids to Values
          result    \* what the last call returned

vars == <<records, result>>

Void == <<"void">>

Init ==
    /\ records = [r \in {} |-> NoRecord]
    /\ result = Void

Insert(r, v) ==
    /\ r \notin DOMAIN records
    /\ records' = [q \in DOMAIN records \cup {r} |->
                      IF q = r THEN v ELSE records[q]]
    /\ result' = <<"rid", r>>

Delete(r) ==
    /\ records' = [q \in DOMAIN records \ {r} |-> records[q]]
    /\ result' = Void

Update(r, v) ==
    /\ records' = [q \in DOMAIN records |-> IF q = r THEN v ELSE records[q]]
    /\ result' = Void

Get(r) ==
    /\ result' = <<"value",
                  IF r \in DOMAIN records THEN records[r] ELSE NoRecord>>
    /\ UNCHANGED records

Next ==
    \E r \in Rids :
        \/ Delete(r) \/ Get(r)
        \/ \E v \in Values : Insert(r, v) \/ Update(r, v)

Spec == Init /\ [][Next]_vars
=============================================================================
