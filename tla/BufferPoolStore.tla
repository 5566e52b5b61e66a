-------------------------- MODULE BufferPoolStore --------------------------
(***************************************************************************)
(* The refinement mapping from BufferPool to PageStore.                    *)
(***************************************************************************)
EXTENDS BufferPool

Pages == INSTANCE PageStore
         WITH store <- CurrentPage,
              allocated <- fd2pageno_,
              holds <- [c \in Clients |-> handle[c].page]

(* The buffer pool implements PageStore: whatever is fetched, evicted,     *)
(* flushed, deleted and fetched again, by whomever, a page's contents      *)
(* change only by a holder's write.                                        *)
ImplementsPageStore == Pages!Spec
=============================================================================
