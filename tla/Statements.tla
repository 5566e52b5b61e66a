----------------------------- MODULE Statements -----------------------------
(***************************************************************************)
(* INSERT, UPDATE and DELETE from plan to table, for several clients of    *)
(* one table: Portal::start collects the record ids a sequential scan      *)
(* selects (src/src/portal.h), then UpdateExecutor::Next or                *)
(* DeleteExecutor::Next works through them (src/src/execution).  Clients   *)
(* execute without a latch, so each record call is a step of its own.      *)
(*                                                                         *)
(* The table is the one RecordFile implements.  A record is a function     *)
(* from columns to values; a WHERE clause is the set of records it is true *)
(* of, Values when it has no condition; ids are numbered in the order      *)
(* RmScan meets them.  valid is false for a statement that the analyser,   *)
(* the InsertExecutor's constructor or its type check rejects, all before  *)
(* the first record call.                                                  *)
(*                                                                         *)
(* DeleteTwice and ReadStopsAtGap are faulty variants of the actions that  *)
(* follow them, never used by StatementNext.                               *)
(***************************************************************************)
EXTENDS RecordTable, Sequences

CONSTANTS Clients,
          Requests,        \* the statements clients may send
          MaxStatements    \* how many each of them sends

ASSUME StatementAssumption ==
    /\ Rids \subseteq Nat \ {0}
    /\ MaxStatements \in Nat
    /\ Requests \subseteq
          [kind : {"insert"}, value : Values, valid : BOOLEAN] \cup
          [kind : {"delete"}, where : SUBSET Values, valid : BOOLEAN] \cup
          [kind : {"update"}, where : SUBSET Values, col : {"x", "y"}, val : Nat,
           valid : BOOLEAN]
    /\ Values \subseteq [x : Nat, y : Nat]
    /\ \A s \in Requests : s.kind = "update" =>
          \A v \in Values : [v EXCEPT ![s.col] = s.val] \in Values

NoStatement == [kind |-> "none"]

VARIABLES
    stmt,      \* the statement each client executes
    pc,        \* where it is
    rid_,      \* where its scan stands, 0 in front of the first record
    rids_,     \* the ids collected, those already worked on removed
    rec,       \* the record UpdateExecutor read last
    count,     \* statements each client has sent
    up,        \* FALSE once a null record has been dereferenced
    before,    \* history: the table when the statement began
    unserved,  \* history: ids whose record is as it was then, and was selected
    alone      \* history: nobody else has done a step since then

exec_vars == <<stmt, pc, rid_, rids_, rec, count, up, before, unserved, alone>>

(* The table with which a client begins: any, as earlier statements left   *)
(* it.                                                                     *)
StatementInit ==
    /\ \E live \in SUBSET Rids : records \in [live -> Values]
    /\ result = Void
    /\ stmt = [c \in Clients |-> NoStatement]
    /\ pc = [c \in Clients |-> "idle"]
    /\ rid_ = [c \in Clients |-> 0]
    /\ rids_ = [c \in Clients |-> <<>>]
    /\ rec = [c \in Clients |-> NoRecord]
    /\ count = [c \in Clients |-> 0]
    /\ up = TRUE
    /\ before = [c \in Clients |-> records]
    /\ unserved = [c \in Clients |-> {}]
    /\ alone = [c \in Clients |-> FALSE]

At(c, l) == up /\ pc[c] = l
Goto(c, l) == pc' = [pc EXCEPT ![c] = l]

Selected(s) == {r \in DOMAIN records : records[r] \in s.where}

(* After a step on the table: the ids still to be served.                  *)
KeepHistory ==
    /\ unserved' = [c \in Clients |->
          {r \in unserved[c] : r \in DOMAIN records' /\ records'[r] = records[r]}]
    /\ UNCHANGED before

TableUnchanged == UNCHANGED <<records, result, before, unserved>>

-----------------------------------------------------------------------------
(* A statement arrives and passes the analyser, the planner and the        *)
(* constructors, or is answered with an error.                             *)
Begin(c, s) ==
    /\ At(c, "idle")
    /\ count[c] < MaxStatements
    /\ count' = [count EXCEPT ![c] = @ + 1]
    /\ stmt' = [stmt EXCEPT ![c] = s]
    /\ Goto(c, IF ~s.valid THEN "done"
               ELSE IF s.kind = "insert" THEN "insert" ELSE "scan")
    /\ before' = [before EXCEPT ![c] = records]
    /\ unserved' = [unserved EXCEPT
          ![c] = IF s.valid /\ s.kind # "insert" THEN Selected(s) ELSE {}]
    /\ UNCHANGED <<records, result, rid_, rids_, rec, up>>

(* InsertExecutor::Next: one insert_record.                                *)
InsertNext(c) ==
    /\ At(c, "insert")
    /\ \E r \in Rids : Insert(r, stmt[c].value)
    /\ Goto(c, "done")
    /\ KeepHistory
    /\ UNCHANGED <<stmt, rid_, rids_, rec, count, up>>

(* RmScan::next, and the test is_end: the next record, or the end.         *)
FindNext(c) ==
    LET ahead == {r \in DOMAIN records : r > rid_[c]} IN
    /\ At(c, "scan")
    /\ IF ahead = {}
       THEN Goto(c, "apply") /\ UNCHANGED rid_
       ELSE /\ rid_' = [rid_ EXCEPT ![c] = CHOOSE r \in ahead : \A q \in ahead : r <= q]
            /\ Goto(c, "read")
    /\ TableUnchanged
    /\ UNCHANGED <<stmt, rids_, rec, count, up>>

ReadStopsAtGap(c) ==
    LET r == rid_[c]
        chosen == stmt[c].where = Values \/ records[r] \in stmt[c].where IN
    /\ At(c, "read")
    /\ IF stmt[c].where = Values \/ r \in DOMAIN records
       THEN /\ rids_' = [rids_ EXCEPT ![c] = IF chosen THEN Append(@, r) ELSE @]
            /\ Goto(c, "scan")
       ELSE Goto(c, "apply") /\ UNCHANGED rids_
    /\ TableUnchanged
    /\ UNCHANGED <<stmt, rid_, rec, count, up>>

(* get_record and eval_conds of the scan; a record that is selected goes   *)
(* into rids.  eval_cond dereferences the null of a record that is gone;   *)
(* without a condition there is nothing to evaluate and the id is taken.   *)
ReadCandidate(c) ==
    LET r == rid_[c]
        chosen == stmt[c].where = Values \/ records[r] \in stmt[c].where IN
    /\ At(c, "read")
    /\ IF stmt[c].where = Values \/ r \in DOMAIN records
       THEN /\ rids_' = [rids_ EXCEPT ![c] = IF chosen THEN Append(@, r) ELSE @]
            /\ Goto(c, "scan")
            /\ UNCHANGED up
       ELSE up' = FALSE /\ UNCHANGED <<pc, rids_>>
    /\ TableUnchanged
    /\ UNCHANGED <<stmt, rid_, rec, count>>

DeleteTwice(c) ==
    /\ At(c, "apply") /\ stmt[c].kind = "delete" /\ rids_[c] # <<>>
    /\ Delete(Head(rids_[c]))
    /\ rids_' = [rids_ EXCEPT ![c] = IF Len(@) > 1 THEN Tail(Tail(@)) ELSE <<>>]
    /\ KeepHistory
    /\ UNCHANGED <<stmt, pc, rid_, rec, count, up>>

(* One iteration of DeleteExecutor::Next.                                  *)
DeleteNext(c) ==
    /\ At(c, "apply") /\ stmt[c].kind = "delete" /\ rids_[c] # <<>>
    /\ Delete(Head(rids_[c]))
    /\ rids_' = [rids_ EXCEPT ![c] = Tail(@)]
    /\ KeepHistory
    /\ UNCHANGED <<stmt, pc, rid_, rec, count, up>>

(* The first half of an iteration of UpdateExecutor::Next: get_record, and *)
(* the set clauses written to its copy.                                    *)
UpdateRead(c) ==
    LET r == Head(rids_[c]) IN
    /\ At(c, "apply") /\ stmt[c].kind = "update" /\ rids_[c] # <<>>
    /\ IF r \in DOMAIN records
       THEN /\ rec' = [rec EXCEPT ![c] = [records[r] EXCEPT ![stmt[c].col] = stmt[c].val]]
            /\ Goto(c, "write")
            /\ UNCHANGED up
       ELSE up' = FALSE /\ UNCHANGED <<pc, rec>>
    /\ TableUnchanged
    /\ UNCHANGED <<stmt, rid_, rids_, count>>

(* The second half: update_record, which ignores an id without a record.   *)
UpdateWrite(c) ==
    /\ At(c, "write")
    /\ Update(Head(rids_[c]), rec[c])
    /\ rids_' = [rids_ EXCEPT ![c] = Tail(@)]
    /\ Goto(c, "apply")
    /\ KeepHistory
    /\ UNCHANGED <<stmt, rid_, rec, count, up>>

(* The loop over rids_ is over.                                            *)
Applied(c) ==
    /\ At(c, "apply") /\ rids_[c] = <<>>
    /\ Goto(c, "done")
    /\ TableUnchanged
    /\ UNCHANGED <<stmt, rid_, rids_, rec, count, up>>

(* The answer is sent; executor, scan and rids are destroyed.              *)
Finish(c) ==
    /\ At(c, "done")
    /\ Goto(c, "idle")
    /\ stmt' = [stmt EXCEPT ![c] = NoStatement]
    /\ rid_' = [rid_ EXCEPT ![c] = 0]
    /\ rec' = [rec EXCEPT ![c] = NoRecord]
    /\ before' = [before EXCEPT ![c] = [r \in {} |-> NoRecord]]
    /\ unserved' = [unserved EXCEPT ![c] = {}]
    /\ UNCHANGED <<records, result, rids_, count, up>>

ClientStep(c) ==
    \/ \E s \in Requests : Begin(c, s)
    \/ InsertNext(c) \/ FindNext(c) \/ ReadCandidate(c)
    \/ DeleteNext(c) \/ UpdateRead(c) \/ UpdateWrite(c)
    \/ Applied(c) \/ Finish(c)

StatementNext ==
    \E c \in Clients :
        /\ ClientStep(c)
        /\ alone' = [d \in Clients |-> d = c /\ (alone[c] \/ pc[c] = "idle")]

StatementSpec == StatementInit /\ [][StatementNext]_<<vars, exec_vars>>

-----------------------------------------------------------------------------
(* Types; what UpdateExecutor writes back is a record, never the missing   *)
(* one get_record answers with, and the ids still to work on are distinct. *)
StatementTypeOK ==
    /\ DOMAIN records \subseteq Rids /\ \A r \in DOMAIN records : records[r] \in Values
    /\ stmt \in [Clients -> Requests \cup {NoStatement}]
    /\ pc \in [Clients -> {"idle", "insert", "scan", "read", "apply", "write", "done"}]
    /\ rid_ \in [Clients -> Rids \cup {0}]
    /\ rec \in [Clients -> Values \cup {NoRecord}]
    /\ count \in [Clients -> 0..MaxStatements]
    /\ up \in BOOLEAN
    /\ \A c \in Clients :
          /\ rids_[c] \in Seq(Rids)
          /\ \A i, j \in 1..Len(rids_[c]) : i < j => rids_[c][i] < rids_[c][j]
          /\ pc[c] = "write" => rec[c] \in Values
          /\ DOMAIN before[c] \subseteq Rids /\ unserved[c] \subseteq DOMAIN records

Deleted(s, t) ==
    LET left == {r \in DOMAIN t : t[r] \notin s.where} IN [r \in left |-> t[r]]

Updated(s, t) ==
    [r \in DOMAIN t |->
        IF t[r] \in s.where THEN [t[r] EXCEPT ![s.col] = s.val] ELSE t[r]]

(* A statement that ran by itself did what SQL says: DELETE removed the    *)
(* records its WHERE clause selects and no other, UPDATE set the column in *)
(* exactly those, even when it changes what the clause looks at, INSERT    *)
(* added one record, and a statement that was rejected did nothing.        *)
StatementExact ==
    \A c \in Clients : (pc[c] = "done" /\ alone[c]) =>
        CASE ~stmt[c].valid -> records = before[c]
          [] stmt[c].valid /\ stmt[c].kind = "delete" -> records = Deleted(stmt[c], before[c])
          [] stmt[c].valid /\ stmt[c].kind = "update" -> records = Updated(stmt[c], before[c])
          [] stmt[c].valid /\ stmt[c].kind = "insert" ->
                \E r \in Rids \ DOMAIN before[c] :
                    /\ DOMAIN records = DOMAIN before[c] \cup {r}
                    /\ records[r] = stmt[c].value
                    /\ \A q \in DOMAIN before[c] : records[q] = before[c][q]

(* Whatever other clients do meanwhile, a finished DELETE or UPDATE has    *)
(* reached every record it selects that nobody else touched: none is left  *)
(* as it was, unless the UPDATE sets what was there already.               *)
LastingServed ==
    \A c \in Clients : pc[c] = "done" =>
        \A r \in unserved[c] :
            stmt[c].kind = "update" /\ records[r][stmt[c].col] = stmt[c].val

(* "The positions of the records to be deleted", rids_ of DeleteExecutor,  *)
(* executor_delete.h:23: what DELETE removes, its WHERE clause selects.    *)
DeletesSelected ==
    \A c \in Clients :
        (pc[c] = "apply" /\ stmt[c].kind = "delete" /\ rids_[c] # <<>>) =>
            LET r == Head(rids_[c]) IN
            r \in DOMAIN records => records[r] \in stmt[c].where

(* "Get the current record", executor_seq_scan.h:59, and "get the original *)
(* record", executor_update.h:43: the record at an id the scan delivered   *)
(* is there when it is read.                                               *)
RecordsFound == up
=============================================================================
