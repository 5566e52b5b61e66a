----------------------------- MODULE PageStore -----------------------------
(***************************************************************************)
(* What the buffer pool promises its callers: a store of pages that never  *)
(* forgets.  Each page has one current value; a client reads and writes it *)
(* while it holds the page; frames, write-backs and eviction are invisible.*)
(***************************************************************************)
EXTENDS Integers

CONSTANTS Clients,   \* outstanding Page* pointers of the callers
          Fds,       \* open files
          MaxPages,  \* bound on the number of pages of a file
          Values,    \* page contents told apart
          Zero       \* the contents of a zero-filled page

PageIds == [fd : Fds, page_no : 0..(MaxPages - 1)]
NoPage  == [fd |-> -1, page_no |-> -1]

VARIABLES store,      \* current contents of every page
          allocated,  \* number of pages handed out, per file
          holds       \* the page a client holds, or NoPage

vars == <<store, allocated, holds>>

Init ==
    /\ store = [p \in PageIds |-> Zero]
    /\ allocated = [fd \in Fds |-> 0]
    /\ holds = [c \in Clients |-> NoPage]

Acquire(c, p) ==
    /\ holds[c] = NoPage
    /\ p.page_no < allocated[p.fd]
    /\ holds' = [holds EXCEPT ![c] = p]
    /\ UNCHANGED <<store, allocated>>

Allocate(c, fd) ==
    /\ holds[c] = NoPage
    /\ allocated[fd] < MaxPages
    /\ holds' = [holds EXCEPT ![c] = [fd |-> fd, page_no |-> allocated[fd]]]
    /\ store' = [store EXCEPT ![[fd |-> fd, page_no |-> allocated[fd]]] = Zero]
    /\ allocated' = [allocated EXCEPT ![fd] = @ + 1]

Write(c, v) ==
    /\ holds[c] # NoPage
    /\ store' = [store EXCEPT ![holds[c]] = v]
    /\ UNCHANGED <<allocated, holds>>

Release(c) ==
    /\ holds[c] # NoPage
    /\ holds' = [holds EXCEPT ![c] = NoPage]
    /\ UNCHANGED <<store, allocated>>

Next ==
    \E c \in Clients :
        \/ \E p \in PageIds : Acquire(c, p)
        \/ \E fd \in Fds : Allocate(c, fd)
        \/ \E v \in Values : Write(c, v)
        \/ Release(c)

Spec == Init /\ [][Next]_vars
=============================================================================
