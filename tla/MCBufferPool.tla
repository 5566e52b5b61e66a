---------------------------- MODULE MCBufferPool ----------------------------
(***************************************************************************)
(* TLC instances of BufferPool.  Clients are interchangeable model values; *)
(* the symmetry is used by the runs that check invariants only.            *)
(*                                                                         *)
(* ReuseSpec adds what the pool does not promise to survive: a table is    *)
(* dropped and the next one gets its descriptor.                           *)
(***************************************************************************)
EXTENDS BufferPoolStore, TLC

ClientSymmetry == Permutations(Clients)

\* drop_table and create_table, run alone: close_file flushes the pages of fd
\* and leaves them in their frames and in page_table_, the file is unlinked,
\* and open() returns fd for a new, empty file.
ReuseDescriptor(fd) ==
    /\ \A c \in Clients : handle[c].page.fd # fd
    /\ is_dirty_' = [f \in Frames |-> is_dirty_[f] /\ id_[f].fd # fd]
    /\ disk' = [p \in PageIds |-> IF p.fd = fd THEN Zero ELSE disk[p]]
    /\ file_pages' = [file_pages EXCEPT ![fd] = 0]
    /\ fd2pageno_' = [fd2pageno_ EXCEPT ![fd] = 0]
    /\ UNCHANGED <<page_table_, id_, data_, pin_count_, free_list_, LRUlist_, handle>>

ReuseSpec == Init /\ [][Next \/ \E fd \in Fds : ReuseDescriptor(fd)]_vars
=============================================================================
