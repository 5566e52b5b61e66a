------------------------------- MODULE Server -------------------------------
(***************************************************************************)
(* The process of rmdb.cpp: the main thread, which accepts connections and *)
(* starts one thread for each, and the client threads, which read a        *)
(* statement, parse and analyse it under buffer_mutex, execute it without  *)
(* the mutex and write the answer.                                         *)
(*                                                                         *)
(* Two things are shared by address.  The accepted descriptor is a local   *)
(* variable of the accept loop whose address is handed to the new thread;  *)
(* sockfd_mutex, locked by the main thread and unlocked by the client      *)
(* thread, keeps it from being overwritten too early.  The parser writes   *)
(* its result to the global ast::parse_tree; buffer_mutex protects it.     *)
(*                                                                         *)
(* A statement is named by the connection it came over and its number      *)
(* there: the properties only ask whose statement is being worked on.      *)
(***************************************************************************)
EXTENDS Naturals, FiniteSets

CONSTANTS Conns,          \* the connections that clients may open
          MaxStatements,  \* how many statements a client may send on one
          AcceptFaults,   \* whether accept() may fail
          Interrupts      \* whether SIGINT may arrive

NoConn == "no connection"

ASSUME ServerAssumption ==
    /\ IsFiniteSet(Conns)
    /\ NoConn \notin Conns
    /\ MaxStatements \in Nat
    /\ AcceptFaults \in BOOLEAN
    /\ Interrupts \in BOOLEAN

VARIABLES main,           \* where the main thread is
          sockfd,         \* its local variable: the last descriptor accepted
          sockfd_mutex,   \* whether sockfd_mutex is locked
          buffer_mutex,   \* the thread that holds buffer_mutex
          parse_tree,     \* ast::parse_tree
          pc,             \* where each client thread is
          fd,             \* the descriptor each client thread works on
          query,          \* the statement each client thread analysed
          conn,           \* each connection, as its client sees it
          sent,           \* how many statements each client sent
          inbox           \* what each connection holds unread

loopVars == <<main, sockfd, sockfd_mutex>>
parserVars == <<buffer_mutex, parse_tree>>
threadVars == <<pc, fd, query>>
clientVars == <<conn, sent, inbox>>
vars == <<loopVars, parserVars, threadVars, clientVars>>

Threads == 1 .. Cardinality(Conns)
NoThread == 0
NoTree == <<"no tree", 0>>
Nothing == <<"nothing", 0>>
Exit == <<"exit", 0>>
Crash == <<"crash", 0>>
Statements == Conns \X (1 .. MaxStatements)

Up == main # "down"

\* Thread t is at the place named l, in a process that still runs.
At(t, l) == Up /\ pc[t] = l
Goto(t, l) == pc' = [pc EXCEPT ![t] = l]

TypeOK ==
    /\ main \in {"lock", "accept", "create", "cleanup", "closed", "down"}
    /\ sockfd \in Conns \union {NoConn}
    /\ sockfd_mutex \in BOOLEAN
    /\ buffer_mutex \in Threads \union {NoThread}
    /\ parse_tree \in Statements \union {NoTree}
    /\ pc \in [Threads -> {"none", "start", "unlock", "read", "lock", "parse",
                           "analyze", "release", "execute", "reply", "done"}]
    /\ fd \in [Threads -> Conns \union {NoConn}]
    /\ query \in [Threads -> Statements \union {NoTree}]
    /\ conn \in [Conns -> {"idle", "queued", "open", "gone"}]
    /\ sent \in [Conns -> 0 .. MaxStatements]
    /\ inbox \in [Conns -> Statements \union {Nothing, Exit, Crash}]

Init ==
    /\ main = "lock"
    /\ sockfd = NoConn
    /\ sockfd_mutex = FALSE
    /\ buffer_mutex = NoThread
    /\ parse_tree = NoTree
    /\ pc = [t \in Threads |-> "none"]
    /\ fd = [t \in Threads |-> NoConn]
    /\ query = [t \in Threads |-> NoTree]
    /\ conn = [c \in Conns |-> "idle"]
    /\ sent = [c \in Conns |-> 0]
    /\ inbox = [c \in Conns |-> Nothing]

-----------------------------------------------------------------------------
(* The main thread: start_server.                                          *)

\* Faulty variant: the loop goes back to accept() without taking the mutex.
LoopWithoutLock ==
    /\ main = "lock"
    /\ main' = "accept"
    /\ UNCHANGED <<sockfd, sockfd_mutex, parserVars, threadVars, clientVars>>

LockSockfd ==
    /\ main = "lock"
    /\ ~ sockfd_mutex
    /\ sockfd_mutex' = TRUE
    /\ main' = "accept"
    /\ UNCHANGED <<sockfd, parserVars, threadVars, clientVars>>

Accept ==
    /\ main = "accept"
    /\ \E c \in Conns :
          /\ conn[c] = "queued"
          /\ sockfd' = c
          /\ conn' = [conn EXCEPT ![c] = "open"]
    /\ main' = "create"
    /\ UNCHANGED <<sockfd_mutex, parserVars, threadVars, sent, inbox>>

\* accept() returns -1: "continue", with sockfd_mutex still locked.
AcceptError ==
    /\ AcceptFaults
    /\ main = "accept"
    /\ main' = "lock"
    /\ sockfd' = NoConn
    /\ UNCHANGED <<sockfd_mutex, parserVars, threadVars, clientVars>>

CreateThread ==
    /\ main = "create"
    /\ \E t \in Threads :
          /\ pc[t] = "none" /\ \A u \in Threads : u < t => pc[u] # "none"
          /\ Goto(t, "start")
    /\ main' = "lock"
    /\ UNCHANGED <<sockfd, sockfd_mutex, parserVars, fd, query, clientVars>>

CreateThreadFails ==
    /\ main = "create"
    /\ main' = "cleanup"
    /\ UNCHANGED <<sockfd, sockfd_mutex, parserVars, threadVars, clientVars>>

\* SIGINT: sigint_handler jumps back into start_server, which leaves the loop.
\* The kernel gives the signal to the main thread, which does not block it.
Interrupt ==
    /\ Interrupts
    /\ main \in {"lock", "accept", "create"}
    /\ main' = "cleanup"
    /\ UNCHANGED <<sockfd, sockfd_mutex, parserVars, threadVars, clientVars>>

\* shutdown() of the listening socket, then close_db.
Cleanup ==
    /\ main = "cleanup"
    /\ main' = "closed"
    /\ UNCHANGED <<sockfd, sockfd_mutex, parserVars, threadVars, clientVars>>

\* start_server and main return, which ends the process and its threads.
Return ==
    /\ main = "closed"
    /\ main' = "down"
    /\ UNCHANGED <<sockfd, sockfd_mutex, parserVars, threadVars, clientVars>>

-----------------------------------------------------------------------------
(* A client thread: client_handler.                                        *)

ReadSockfd(t) ==
    /\ At(t, "start")
    /\ fd' = [fd EXCEPT ![t] = sockfd]
    /\ Goto(t, "unlock")
    /\ UNCHANGED <<loopVars, parserVars, query, clientVars>>

UnlockSockfd(t) ==
    /\ At(t, "unlock")
    /\ sockfd_mutex' = FALSE
    /\ Goto(t, "read")
    /\ UNCHANGED <<main, sockfd, parserVars, fd, query, clientVars>>

\* read() returns a statement, "exit", "crash", or nothing when the client
\* has closed the connection.
Read(t) ==
    LET c == fd[t] IN
    /\ At(t, "read")
    /\ inbox[c] # Nothing \/ conn[c] = "gone"
    /\ IF inbox[c] = Crash
       THEN main' = "down" /\ UNCHANGED pc
       ELSE /\ pc' = [pc EXCEPT ![t] = IF inbox[c] \in {Nothing, Exit}
                                       THEN "done" ELSE "lock"]
            /\ UNCHANGED main
    /\ inbox' = [inbox EXCEPT ![c] = Nothing]
    /\ UNCHANGED <<sockfd, sockfd_mutex, parserVars, fd, query, conn, sent>>

LockBuffer(t) ==
    /\ At(t, "lock")
    /\ buffer_mutex = NoThread
    /\ buffer_mutex' = t
    /\ Goto(t, "parse")
    /\ UNCHANGED <<loopVars, parse_tree, fd, query, clientVars>>

\* Faulty variant: the result of yyparse is not looked at.
ParseIgnoringErrors(t) ==
    /\ At(t, "parse")
    /\ \/ parse_tree' = <<fd[t], sent[fd[t]]>>
       \/ parse_tree # NoTree /\ parse_tree' = parse_tree
    /\ Goto(t, "analyze")
    /\ UNCHANGED <<loopVars, buffer_mutex, fd, query, clientVars>>

\* yyparse: a tree, no tree ("exit;" or end of input), or a syntax error,
\* which leaves the tree of an earlier statement in place.
Parse(t) ==
    /\ At(t, "parse")
    /\ \/ /\ parse_tree' = <<fd[t], sent[fd[t]]>>
          /\ Goto(t, "analyze")
       \/ /\ parse_tree' \in {NoTree, parse_tree}
          /\ Goto(t, "release")
    /\ UNCHANGED <<loopVars, buffer_mutex, fd, query, clientVars>>

\* Faulty variant: an exception of do_analyze ends the loop of the thread.
AnalyzeErrorEndsThread(t) ==
    /\ At(t, "analyze")
    /\ buffer_mutex' = NoThread
    /\ \/ /\ query' = [query EXCEPT ![t] = parse_tree]
          /\ Goto(t, "execute")
       \/ Goto(t, "done") /\ UNCHANGED query
    /\ UNCHANGED <<loopVars, parse_tree, fd, clientVars>>

\* do_analyze yields the query, and the mutex is unlocked, or throws, or fails
\* an assert of init_raw, which aborts the process.
Analyze(t) ==
    /\ At(t, "analyze")
    /\ \/ /\ query' = [query EXCEPT ![t] = parse_tree]
          /\ buffer_mutex' = NoThread
          /\ Goto(t, "execute")
          /\ UNCHANGED main
       \/ /\ Goto(t, "release")
          /\ UNCHANGED <<main, buffer_mutex, query>>
       \/ /\ main' = "down"
          /\ UNCHANGED <<pc, buffer_mutex, query>>
    /\ UNCHANGED <<sockfd, sockfd_mutex, parse_tree, fd, clientVars>>

\* finish_analyze == false: the mutex is unlocked here.
ReleaseBuffer(t) ==
    /\ At(t, "release")
    /\ buffer_mutex' = NoThread
    /\ Goto(t, "reply")
    /\ UNCHANGED <<loopVars, parse_tree, fd, query, clientVars>>

\* Faulty variant: the thread unlocks buffer_mutex once more after a
\* statement whose analysis had already unlocked it.
ExecuteUnlocksAgain(t) ==
    /\ At(t, "execute")
    /\ Goto(t, "reply")
    /\ query' = [query EXCEPT ![t] = NoTree]
    /\ buffer_mutex' = NoThread
    /\ UNCHANGED <<loopVars, parse_tree, fd, clientVars>>

\* Planner, portal and executors: they succeed, throw an RMDBError, or bring
\* the process down (BEGIN follows context->txn_, which is null).
Execute(t) ==
    /\ At(t, "execute")
    /\ \/ /\ Goto(t, "reply")
          /\ query' = [query EXCEPT ![t] = NoTree]
          /\ UNCHANGED main
       \/ main' = "down" /\ UNCHANGED <<pc, query>>
    /\ UNCHANGED <<sockfd, sockfd_mutex, parserVars, fd, clientVars>>

\* write().  When the client is gone it may still succeed, fail, or raise
\* SIGPIPE, which the server does not handle.
Reply(t) ==
    LET c == fd[t] IN
    /\ At(t, "reply")
    /\ \/ Goto(t, "read") /\ UNCHANGED main
       \/ conn[c] = "gone" /\ Goto(t, "done") /\ UNCHANGED main
       \/ conn[c] = "gone" /\ main' = "down" /\ UNCHANGED pc
    /\ UNCHANGED <<sockfd, sockfd_mutex, parserVars, fd, query, clientVars>>

-----------------------------------------------------------------------------
(* The clients.                                                            *)

Connect(c) ==
    /\ Up
    /\ conn[c] = "idle"
    /\ conn' = [conn EXCEPT ![c] = "queued"]
    /\ UNCHANGED <<loopVars, parserVars, threadVars, sent, inbox>>

\* The thread that serves c, if it has one, is waiting in read().
Waiting(c) ==
    /\ Up
    /\ inbox[c] = Nothing
    /\ \A t \in Threads : fd[t] = c => pc[t] \in {"unlock", "read"}

\* A client sends its next request when it has the answer to the last one.
Send(c) ==
    /\ conn[c] \in {"queued", "open"}
    /\ Waiting(c)
    /\ sent[c] < MaxStatements
    /\ sent' = [sent EXCEPT ![c] = @ + 1]
    /\ inbox' = [inbox EXCEPT ![c] = <<c, sent[c] + 1>>]
    /\ UNCHANGED <<loopVars, parserVars, threadVars, conn>>

SendWord(c) ==
    /\ conn[c] \in {"queued", "open"}
    /\ Waiting(c)
    /\ \E word \in {Exit, Crash} : inbox' = [inbox EXCEPT ![c] = word]
    /\ UNCHANGED <<loopVars, parserVars, threadVars, conn, sent>>

Hangup(c) ==
    /\ Up
    /\ conn[c] = "open"
    /\ conn' = [conn EXCEPT ![c] = "gone"]
    /\ UNCHANGED <<loopVars, parserVars, threadVars, sent, inbox>>

-----------------------------------------------------------------------------
MainStep ==
    \/ LockSockfd \/ Accept \/ AcceptError
    \/ CreateThread \/ CreateThreadFails
    \/ Interrupt \/ Cleanup \/ Return

ThreadStep(t) ==
    \/ ReadSockfd(t) \/ UnlockSockfd(t) \/ Read(t)
    \/ LockBuffer(t) \/ Parse(t) \/ Analyze(t) \/ ReleaseBuffer(t)
    \/ Execute(t) \/ Reply(t)

ClientStep(c) == Connect(c) \/ Send(c) \/ SendWord(c) \/ Hangup(c)

Next ==
    \/ MainStep
    \/ \E t \in Threads : ThreadStep(t)
    \/ \E c \in Conns : ClientStep(c)

Spec == Init /\ [][Next]_vars

\* Every thread of the process that can run keeps running.  Nothing is assumed
\* of the clients, and neither a signal nor a failure ever has to come.  A
\* thread that waits for a mutex is only promised to get it if the mutex stays
\* free: pthread mutexes are not fair.
Fairness ==
    /\ WF_vars(LockSockfd \/ Accept \/ CreateThread \/ Cleanup \/ Return)
    /\ \A t \in Threads : WF_vars(ThreadStep(t))

LiveSpec == Spec /\ Fairness

-----------------------------------------------------------------------------
\* The connection handed to a thread by address is the one accepted for it: no
\* two threads serve the same connection, and none is left without a thread
\* once its creation is over (client_handler 70-71, start_server 241-249).
HandoffExact ==
    /\ \A t, u \in Threads :
          (t # u /\ fd[t] # NoConn) => fd[t] # fd[u]
    /\ \A c \in Conns :
          (conn[c] = "open" /\ main \in {"lock", "accept"}) =>
              (\E t \in Threads : fd[t] = c \/ (pc[t] = "start" /\ sockfd = c))

\* A thread only ever executes a statement that its own client sent, and the
\* one it sent last, although all threads share the parser and its result.
OwnStatement ==
    \A t \in Threads :
        pc[t] = "execute" => query[t] = <<fd[t], sent[fd[t]]>>

\* buffer_mutex is held by exactly the thread that is between locking it and
\* the one place that unlocks it on the path taken: every way through the
\* parser, the analyser and their errors unlocks it once.
LockedByParser ==
    \A t \in Threads :
        (buffer_mutex = t) <=> pc[t] \in {"parse", "analyze", "release"}

\* A statement that arrived is answered, unless its client goes away or the
\* server goes down (or leaves its loop, on its way down).
Answered ==
    \A c \in Conns :
        (conn[c] = "open" /\ inbox[c] \in Statements) ~>
            \/ inbox[c] = Nothing /\ \E t \in Threads : fd[t] = c /\ At(t, "read")
            \/ conn[c] = "gone"
            \/ ~ Up

\* "ignore current socket ,continue while loop." (rmdb.cpp:245): after a failed
\* accept() the main thread comes back to accept().
AcceptErrorIgnored ==
    (main = "lock") ~> (main # "lock")

\* "Try to close all client-connection." (rmdb.cpp:257): when the database has
\* been closed no client thread is executing a statement on it.
ClosedAfterClients ==
    main = "closed" => \A t \in Threads : pc[t] # "execute"
=============================================================================
